------------------------ MODULE NetworkConfiguration ------------------------
(***************************************************************************)
(* MAC addresses and static IPs: internal/machine/vm/network_config.go and *)
(* cloudinit.go, with the parts of vm_manager.go, status_manager.go and    *)
(* controllers/v1alpha1/machine_controller.go that call them.              *)
(*                                                                         *)
(* The creation of a VM chooses a MAC address, declares it in the          *)
(* NetworkConfiguration (NC) of the Machine, and waits until the allocator *)
(* has written an IP for it.  The deletion of the Machine compares the NC  *)
(* with the interfaces in the Machine's status and deletes it.  NCs are    *)
(* read from an informer cache, even right after they were written.        *)
(*                                                                         *)
(* One Machine name, since an NC has one Machine and no two Machines share *)
(* anything here; the Machines of that name have different uids.  The copy *)
(* of the Machine that a reconcile reads at its start is up to date        *)
(* (MachineReconciler has the ones that are not).                          *)
(***************************************************************************)
EXTENDS Naturals

CONSTANTS
    Networks,   \* names of KubeVirt networks: default, vlan<id>, bridge-br0
    MACs,       \* the addresses GetMACAddress may draw
    GuestMAC,   \* an interface made inside the guest
    NoNetwork, NoMAC,
    MaxLives    \* bound: how often a Machine of the name is created

ASSUME ConstantsAssumption ==
    /\ GuestMAC \notin MACs
    /\ NoMAC \notin MACs
    /\ NoNetwork \notin Networks
    /\ MaxLives \in Nat

VARIABLES
    machine,   \* the Machine on the supervisor's API server
    nn,        \* its NetworkNamespace
    nc,        \* the NetworkConfiguration on the API server
    vm,        \* the VM in the remote cluster
    cache,     \* the NC in the informer cache
    rec,       \* the call the reconcile makes next, and its locals
    lagged     \* history: a reconcile began before the cache had the last NC

vars == <<machine, nn, nc, vm, cache, rec, lagged>>

\* seen is the set of MACs in status.networkInterfaces.
MachineObject == [phase : {"absent", "live", "deleting"}, uid : 0..MaxLives,
                  seen : SUBSET (MACs \cup {GuestMAC})]

\* network is what GetOrCreateNetworkConfiguration names for it; provider:
\* spec.ipAllocation.provider is set.
NetworkNamespace == [network : Networks, static : BOOLEAN, provider : BOOLEAN]

\* owner is the uid of the controller reference; addressed are the MACs with
\* an IP in status.
NC == [kind : {"none", "managed", "foreign"}, owner : 0..MaxLives,
       ifaces : [Networks -> MACs \cup {NoMAC}], provider : BOOLEAN,
       addressed : SUBSET MACs]

NoNC == [kind |-> "none", owner |-> 0, ifaces |-> [n \in Networks |-> NoMAC],
         provider |-> FALSE, addressed |-> {}]

\* configured are the MACs for which its network data has a static IP.
VirtualMachine == [state : {"none", "up", "dying"}, network : Networks \cup {NoNetwork},
                   mac : MACs \cup {NoMAC}, static : BOOLEAN,
                   configured : SUBSET MACs]

CreationSteps == {"getVM", "network", "mac", "persist", "cloudInit", "createVM"}
LaterSteps == {"backfill", "status"}
DeletionSteps == {"deleteVM", "cleanup", "removeFinalizer"}

\* uid and seen are those of the handler's copy, spec the VM it is building;
\* failed: history, a call of the last reconcile failed.
Reconcile == [step : {"idle"} \cup CreationSteps \cup LaterSteps \cup DeletionSteps,
              uid : 0..MaxLives, seen : SUBSET (MACs \cup {GuestMAC}),
              spec : VirtualMachine, failed : BOOLEAN]

NoMachine(uid) == [phase |-> "absent", uid |-> uid, seen |-> {}]

NoVM == [state |-> "none", network |-> NoNetwork, mac |-> NoMAC,
         static |-> FALSE, configured |-> {}]

Idle == [step |-> "idle", uid |-> 0, seen |-> {}, spec |-> NoVM,
         failed |-> FALSE]

Declared(c) == {c.ifaces[n] : n \in Networks} \ {NoMAC}

\* With it: no interface is declared, and no VM made, without a network and an
\* address.
TypeOK ==
    /\ machine \in MachineObject
    /\ nn \in NetworkNamespace
    /\ nc \in NC
    /\ vm \in VirtualMachine
    /\ cache \in NC
    /\ rec \in Reconcile
    /\ lagged \in BOOLEAN
    /\ rec.step \in {"mac", "persist", "cloudInit", "createVM"} =>
          rec.spec.network \in Networks
    /\ rec.step \in {"persist", "cloudInit", "createVM"} => rec.spec.mac \in MACs

Init ==
    /\ machine = NoMachine(0)
    /\ nn \in NetworkNamespace
    /\ nc = NoNC
    /\ vm = NoVM
    /\ cache = nc
    /\ rec = Idle
    /\ lagged = FALSE

-----------------------------------------------------------------------------
(* Users, other operators, informers, KubeVirt                             *)

UserCreates ==
    /\ machine.phase = "absent"
    /\ machine.uid < MaxLives
    /\ machine' = [phase |-> "live", uid |-> machine.uid + 1, seen |-> {}]
    /\ UNCHANGED <<nn, nc, vm, cache, rec, lagged>>

UserDeletes ==
    /\ machine.phase = "live"
    /\ machine' = [machine EXCEPT !.phase = "deleting"]
    /\ UNCHANGED <<nn, nc, vm, cache, rec, lagged>>

\* Another VLAN, or another kind of allocation; a provider is never unset.
NetworkNamespaceChanges ==
    /\ nn' \in {n \in NetworkNamespace : nn.provider => n.provider}
    /\ nn' # nn
    /\ UNCHANGED <<machine, nc, vm, cache, rec, lagged>>

\* Another controller made an NC of the name first.
OthersCreateNC ==
    /\ nc.kind = "none"
    /\ machine.phase = "live"
    /\ nc' = [NoNC EXCEPT !.kind = "foreign"]
    /\ UNCHANGED <<machine, nn, vm, cache, rec, lagged>>

\* The allocator (static-ip-operator, kea) writes status for every interface.
Allocate ==
    /\ nc.addressed # Declared(nc)
    /\ nc' = [nc EXCEPT !.addressed = Declared(nc)]
    /\ UNCHANGED <<machine, nn, vm, cache, rec, lagged>>

\* The garbage collector deletes what its owner reference says.
CollectNC ==
    /\ nc.kind = "managed"
    /\ nc.owner # 0
    /\ machine.phase = "absent" \/ machine.uid # nc.owner
    /\ nc' = NoNC
    /\ UNCHANGED <<machine, nn, vm, cache, rec, lagged>>

OthersDeleteVM ==
    /\ vm.state = "up"
    /\ vm' = [vm EXCEPT !.state = "dying"]
    /\ UNCHANGED <<machine, nn, nc, cache, rec, lagged>>

VMGone ==
    /\ vm.state = "dying"
    /\ vm' = NoVM
    /\ UNCHANGED <<machine, nn, nc, cache, rec, lagged>>

CacheSync ==
    /\ cache # nc
    /\ cache' = nc
    /\ UNCHANGED <<machine, nn, nc, vm, rec, lagged>>

-----------------------------------------------------------------------------
(* The reconcile: creation                                                 *)

At(step) == rec.step = step
GoTo(step) == rec' = [rec EXCEPT !.step = step]
Return == rec' = Idle

Start ==
    /\ At("idle")
    /\ machine.phase # "absent"
    /\ rec' = [Idle EXCEPT !.uid = machine.uid, !.seen = machine.seen,
                           !.step = IF machine.phase = "live"
                                    THEN "getVM" ELSE "deleteVM"]
    /\ lagged' = (lagged \/ cache # nc)
    /\ UNCHANGED <<machine, nn, nc, vm, cache>>

GetVM ==
    /\ At("getVM")
    /\ GoTo(IF vm.state = "none" THEN "network" ELSE "backfill")
    /\ UNCHANGED <<machine, nn, nc, vm, cache, lagged>>

GetNetwork ==
    /\ At("network")
    /\ rec' = [rec EXCEPT !.step = "mac", !.spec.network = nn.network]
    /\ UNCHANGED <<machine, nn, nc, vm, cache, lagged>>

\* Mutant: a new address at every try.
NewMACs == MACs

\* Mutant: what an NC has for the network is taken, be it empty.
PersistedMACs ==
    IF cache.kind # "none" THEN {cache.ifaces[rec.spec.network]} ELSE MACs

\* resolveOrGenerateMAC: the persisted address, or any.
ResolvedMACs ==
    LET persisted == cache.ifaces[rec.spec.network] IN
    IF persisted # NoMAC THEN {persisted} ELSE MACs

ResolveOrGenerateMAC ==
    /\ At("mac")
    /\ \E mac \in ResolvedMACs :
          rec' = [rec EXCEPT !.step = "persist", !.spec.mac = mac]
    /\ UNCHANGED <<machine, nn, nc, vm, cache, lagged>>

\* An Update of the copy in the cache: refused if that is not the last one.
UpdateNC(new) == IF nc = cache THEN nc' = new ELSE UNCHANGED nc

BackfillNCProvider(c) ==
    [c EXCEPT !.provider = @ \/ (c.kind = "managed" /\ nn.provider)]

WithInterface(c) == [c EXCEPT !.ifaces[rec.spec.network] = rec.spec.mac]

\* Mutant: the Machine is not made the owner of its NC.
NewNCWithoutOwner ==
    [NoNC EXCEPT !.kind = "managed", !.provider = nn.provider]

NewNC == [NewNCWithoutOwner EXCEPT !.owner = rec.uid]

\* Create, if there is none in the cache: refused if there is one.
WriteNC ==
    IF cache.kind = "none"
    THEN nc' = IF nc.kind = "none" THEN WithInterface(NewNC) ELSE nc
    ELSE UpdateNC(BackfillNCProvider(WithInterface(cache)))

\* Mutant: an error of the write is logged and ignored.
PersistBestEffort ==
    /\ At("persist")
    /\ WriteNC
    /\ GoTo("cloudInit")
    /\ UNCHANGED <<machine, nn, vm, cache, lagged>>

\* Both reads are of the cache and the write follows at once: one step.  It
\* goes on if nothing was to be written or the write took place.
PersistMacAddresses ==
    /\ At("persist")
    /\ WriteNC
    /\ IF nc' # nc \/ cache = BackfillNCProvider(WithInterface(cache))
       THEN GoTo("cloudInit") ELSE Return
    /\ UNCHANGED <<machine, nn, vm, cache, lagged>>

\* Mutant: interfaces without an address are left out.
RenderAddressed == TRUE

\* Mutant: only an NC with our label is rendered.
RenderManaged ==
    cache.kind = "managed" /\ Declared(cache) \subseteq cache.addressed

\* renderNetworkConfigV1: every interface needs an address, or we wait.
Rendered == cache.kind # "none" /\ Declared(cache) \subseteq cache.addressed

ResolveCloudInit ==
    /\ At("cloudInit")
    /\ \/ ~nn.static /\ GoTo("createVM")
       \/ /\ nn.static /\ Rendered
          /\ rec' = [rec EXCEPT
                !.step = "createVM", !.spec.static = TRUE,
                !.spec.configured = Declared(cache) \cap cache.addressed]
       \/ nn.static /\ ~Rendered /\ Return
    /\ UNCHANGED <<machine, nn, nc, vm, cache, lagged>>

CreateVM ==
    /\ At("createVM")
    /\ vm.state = "none"      \* nobody else makes one
    /\ vm' = [rec.spec EXCEPT !.state = "up"]
    /\ rec' = [rec EXCEPT !.step = "backfill", !.spec = NoVM]
    /\ UNCHANGED <<machine, nn, nc, cache, lagged>>

\* Mutant: left to the creation of the VM.
BackfilledByCreation ==
    /\ At("backfill")
    /\ GoTo("status")
    /\ UNCHANGED <<machine, nn, nc, vm, cache, lagged>>

\* A conflict is swallowed.
EnsureNCProviderBackfilled ==
    /\ At("backfill")
    /\ UpdateNC(BackfillNCProvider(cache))
    /\ GoTo("status")
    /\ UNCHANGED <<machine, nn, vm, cache, lagged>>

\* The interfaces that have an IP, if the VMI runs; else those of the copy.
UpdateMachineStatus ==
    /\ At("status")
    /\ \E seen \in {rec.seen} \cup SUBSET ({GuestMAC, vm.mac} \ {NoMAC}) :
          machine' = [machine EXCEPT !.seen = seen]
    /\ Return
    /\ UNCHANGED <<nn, nc, vm, cache, lagged>>

(* The reconcile: deletion                                                 *)

\* cleanupRemoteResources: goes on when the VM is gone.
DeleteVM ==
    /\ At("deleteVM")
    /\ IF vm.state = "none"
       THEN GoTo("cleanup") /\ UNCHANGED vm
       ELSE Return /\ vm' = [vm EXCEPT !.state = "dying"]
    /\ UNCHANGED <<machine, nn, nc, cache, lagged>>

\* Mutant: a status without interfaces is compared as well.
DeletableIfSeen(c) ==
    c.kind = "managed" /\ Declared(c) \subseteq rec.seen

Deletable(c) ==
    /\ c.kind = "managed"
    /\ rec.seen # {} => Declared(c) \subseteq rec.seen

\* Mutant: a refused or failed deletion is logged and ignored.
CleanupBestEffort ==
    /\ At("cleanup")
    /\ nc' = IF cache.kind # "none" /\ Deletable(cache) THEN NoNC ELSE nc
    /\ GoTo("removeFinalizer")
    /\ UNCHANGED <<machine, nn, vm, cache, lagged>>

\* The check is of the copy; the Delete is of whatever has the name now, and
\* fails if nothing has.
CleanupNetworkConfiguration ==
    /\ At("cleanup")
    /\ LET exists == cache.kind # "none"
           deletes == exists /\ Deletable(cache) /\ nc.kind # "none"
       IN  /\ nc' = IF deletes THEN NoNC ELSE nc
           /\ IF exists => deletes THEN GoTo("removeFinalizer") ELSE Return
    /\ UNCHANGED <<machine, nn, vm, cache, lagged>>

\* A Machine without finalizers is gone.
RemoveMachineFinalizer ==
    /\ At("removeFinalizer")
    /\ machine' = NoMachine(machine.uid)
    /\ Return
    /\ UNCHANGED <<nn, nc, vm, cache, lagged>>

\* Any call may fail, or the process end: the reconcile is queued again.  An
\* error of the backfill is swallowed.
ReconcileFails ==
    /\ ~At("idle")
    /\ \/ rec' = [Idle EXCEPT !.failed = TRUE]
       \/ At("backfill") /\ rec' = [rec EXCEPT !.step = "status", !.failed = TRUE]
    /\ UNCHANGED <<machine, nn, nc, vm, cache, lagged>>

-----------------------------------------------------------------------------
(* The specification                                                       *)

Environment ==
    \/ UserCreates
    \/ UserDeletes
    \/ NetworkNamespaceChanges
    \/ OthersCreateNC
    \/ Allocate
    \/ CollectNC
    \/ OthersDeleteVM
    \/ VMGone
    \/ CacheSync

Progress ==
    \/ GetVM
    \/ GetNetwork
    \/ ResolveOrGenerateMAC
    \/ PersistMacAddresses
    \/ ResolveCloudInit
    \/ CreateVM
    \/ EnsureNCProviderBackfilled
    \/ UpdateMachineStatus
    \/ DeleteVM
    \/ CleanupNetworkConfiguration
    \/ RemoveMachineFinalizer

Next == Environment \/ Start \/ Progress \/ ReconcileFails

Spec == Init /\ [][Next]_vars

\* The queue, the informer, the allocator, KubeVirt and the collector go on;
\* calls that are tried again do not fail for ever.
Fairness ==
    /\ WF_vars(CacheSync)
    /\ WF_vars(Allocate)
    /\ WF_vars(CollectNC)
    /\ WF_vars(VMGone)
    /\ WF_vars(Start)
    /\ WF_vars(Progress)
    /\ <>[]~rec.failed

FairSpec == Spec /\ Fairness

-----------------------------------------------------------------------------
(* Properties                                                              *)

\* A running VM has the address that the NC of its Machine declares for its
\* network, however often its creation was tried and whatever the network was
\* meanwhile ("the downstream VM spec matches", network_config.go:281).
VMMatchesNC ==
    ~lagged /\ machine.phase = "live" /\ vm.state = "up" =>
        nc.ifaces[vm.network] = vm.mac

\* Addresses are allocated against a declared MAC: it is never replaced ("keeps
\* the MAC stable across reconciles", network_config.go:281).
MACNeverReplaced ==
    [][~lagged' /\ nc'.kind # "none" =>
          \A n \in Networks :
              nc.ifaces[n] # NoMAC => nc'.ifaces[n] = nc.ifaces[n]]_vars

\* The network data of a VM, rendered from a cached NC that may be older than
\* the one just persisted, has an IP for the VM's own address ("Resolve
\* cloud-init (cidata) after the MAC is persisted", vm_manager.go:221).
StaticVMHasAddress ==
    ~lagged /\ nc.kind = "managed" /\ vm.state = "up" /\ vm.static =>
        vm.mac \in vm.configured

\* It does if the network of the Machine stays the same.
OneNetworkVMHasAddress ==
    Declared(nc) \subseteq {vm.mac} => StaticVMHasAddress

\* A deletion takes the NC with it, also if it is resumed or the NC was made
\* by a creation that never got to its VM (machine_controller.go:475).
NCGoesWithMachine ==
    ~lagged /\ machine.phase = "absent" => nc.kind # "managed"

\* A creation waits for addresses and informers, and ends.
LiveMachineGetsVM ==
    machine.phase = "live" ~> vm.state # "none" \/ machine.phase # "live"

\* Nothing but the two checks of CleanupNetworkConfiguration holds up a
\* deletion.
OnlyMismatchBlocksDeletion ==
    machine.phase = "deleting" ~>
        \/ machine.phase # "deleting"
        \/ nc.kind = "foreign"
        \/ machine.seen # {} /\ ~(Declared(nc) \subseteq machine.seen)

\* The provider of a NetworkNamespace gets to every NC made before it was
\* declared ("each machine reconcile is a migration opportunity",
\* network_config.go:183).
ProviderBackfilled ==
    machine.phase = "live" /\ nc.kind = "managed" /\ nn.provider ~>
        nc.provider \/ nc.kind # "managed" \/ machine.phase # "live"

\* What a deletion with a stale cache left behind is collected.
NCCollected ==
    machine.phase = "absent" ~> nc.kind # "managed" \/ machine.phase # "absent"
=============================================================================
