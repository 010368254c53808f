----------------------------- MODULE NADManager -----------------------------
(***************************************************************************)
(* NetworkAttachmentDefinitions (internal/machine/network) with the parts  *)
(* of controllers/v1alpha1/machine_controller.go that call them.           *)
(*                                                                         *)
(* The VMs of a VLAN share one NAD in a namespace of the remote cluster.   *)
(* The creation of a VM ensures the NAD; the deletion of a Machine removes *)
(* it before the VM if no other VM uses it, again after the VM, and then   *)
(* sweeps the namespace.  Every call is a step; errors of a collection are *)
(* logged and ignored.                                                     *)
(*                                                                         *)
(* One remote cluster, one namespace.  A Machine is here as long as it has *)
(* the operator's finalizer (MachineReconciler has the rest of its life).  *)
(***************************************************************************)
EXTENDS Naturals, FiniteSets

CONSTANTS
    Machines,
    NADs,                     \* names of bridge NADs: vlan<id>, bridge-br0
    AdminNADs,                \* those an administrator may create
    None,                     \* no NAD: the pod network
    MaxConcurrentReconciles

ASSUME ConstantsAssumption ==
    /\ IsFiniteSet(Machines)
    /\ AdminNADs \subseteq NADs
    /\ None \notin NADs
    /\ MaxConcurrentReconciles \in Nat \ {0}

VARIABLES
    machine,   \* Machine -> the Machine on the supervisor's API server
    cache,     \* Machine -> the copy in the informer cache
    network,   \* Machine -> the NAD its NetworkNamespace asks for, or None
    nads,      \* NAD -> "none", "managed" (our label) or "foreign"
    vms,       \* Machine -> its VM in the remote cluster
    rec,       \* Machine -> the call its reconcile makes next, and its locals
    swallowed, \* history: an error of a collection was logged and ignored
    raced      \* history: Machines whose VM came up under a collector that
               \* deletes its NAD, having listed the VMs before

vars == <<machine, cache, network, nads, vms, rec, swallowed, raced>>

OptionalNAD == NADs \cup {None}

\* noted is the annotation vitistack.io/nad-to-cleanup.
MachineObject == [phase : {"absent", "live", "deleting"}, noted : OptionalNAD]

Absent == [phase |-> "absent", noted |-> None]

VirtualMachine == [state : {"none", "up", "dying"}, nad : OptionalNAD]

NoVM == [state |-> "none", nad |-> None]

CreationSteps == {"getVM", "getNAD", "createNAD", "createVM"}
BeforeVMSteps == {"preGet", "preList", "preDelete"}
AfterVMSteps == {"finGet", "finList", "finDelete"}
SweepSteps == {"sweepNADs", "sweepVMs", "sweepDelete"}
DeletionSteps ==
    {"resolve", "note", "deleteVM", "checkVM", "unnote", "removeFinalizer"}
        \cup BeforeVMSteps \cup AfterVMSteps \cup SweepSteps

\* The steps of a deletion whose errors end the reconcile.
ReturningSteps == {"resolve", "deleteVM", "checkVM", "removeFinalizer"}

\* obj is the copy the handler holds, nad its nadName, left the sweep's
\* NADs that are still to be looked at.
Reconcile == [step : {"idle", "down"} \cup CreationSteps \cup DeletionSteps,
              obj : MachineObject, nad : OptionalNAD, left : SUBSET NADs]

Idle == [step |-> "idle", obj |-> Absent, nad |-> None, left |-> {}]

\* The process is not running.
Down == [Idle EXCEPT !.step = "down"]

\* The steps that act on the NAD the handler has a name for.
NamedSteps ==
    {"createNAD", "note", "unnote"} \cup BeforeVMSteps \cup AfterVMSteps

\* With it: no call is made for a NAD without a name, which the code guards
\* against where a Machine may have none (machine_controller.go:586, :613).
TypeOK ==
    /\ machine \in [Machines -> MachineObject]
    /\ cache \in [Machines -> MachineObject]
    /\ network \in [Machines -> OptionalNAD]
    /\ nads \in [NADs -> {"none", "managed", "foreign"}]
    /\ vms \in [Machines -> VirtualMachine]
    /\ rec \in [Machines -> Reconcile]
    /\ swallowed \in BOOLEAN
    /\ raced \subseteq Machines
    /\ \A m \in Machines : rec[m].step \in NamedSteps => rec[m].nad # None

Init ==
    /\ machine = [m \in Machines |-> Absent]
    /\ cache = machine
    /\ network \in [Machines -> OptionalNAD]
    /\ nads = [n \in NADs |-> "none"]
    /\ vms = [m \in Machines |-> NoVM]
    /\ rec = [m \in Machines |-> Idle]
    /\ swallowed = FALSE
    /\ raced = {}

-----------------------------------------------------------------------------
(* Users, NetworkNamespaces, informer, KubeVirt, crashes                   *)

\* A Machine is created and gets its finalizer, for which the operator needs
\* a copy of it: the copies of an earlier Machine of that name are gone.
UserCreates(m) ==
    /\ machine[m].phase = "absent"
    /\ cache[m].phase = "absent"
    /\ machine' = [machine EXCEPT ![m] = [phase |-> "live", noted |-> None]]
    /\ UNCHANGED <<cache, network, nads, vms, rec, swallowed, raced>>

UserDeletes(m) ==
    /\ machine[m].phase = "live"
    /\ machine' = [machine EXCEPT ![m].phase = "deleting"]
    /\ UNCHANGED <<cache, network, nads, vms, rec, swallowed, raced>>

\* The Machine gets another NetworkNamespace, or that another VLAN.
NetworkChanges(m) ==
    /\ \E n \in OptionalNAD \ {network[m]} :
          network' = [network EXCEPT ![m] = n]
    /\ UNCHANGED <<machine, cache, nads, vms, rec, swallowed, raced>>

\* "If you use custom networks, ensure NADs exist in the target namespace"
\* (docs/namespace-management.md:117).
AdminCreatesNAD(n) ==
    /\ n \in AdminNADs
    /\ nads[n] = "none"
    /\ nads' = [nads EXCEPT ![n] = "foreign"]
    /\ UNCHANGED <<machine, cache, network, vms, rec, swallowed, raced>>

CacheSync(m) ==
    /\ rec[m] # Down
    /\ cache[m] # machine[m]
    /\ cache' = [cache EXCEPT ![m] = machine[m]]
    /\ UNCHANGED <<machine, network, nads, vms, rec, swallowed, raced>>

VMGone(m) ==
    /\ vms[m].state = "dying"
    /\ vms' = [vms EXCEPT ![m] = NoVM]
    /\ UNCHANGED <<machine, cache, network, nads, rec, swallowed, raced>>

Crash ==
    /\ \A m \in Machines : rec[m] # Down
    /\ rec' = [m \in Machines |-> Down]
    /\ UNCHANGED <<machine, cache, network, nads, vms, swallowed, raced>>

Restart ==
    /\ \A m \in Machines : rec[m] = Down
    /\ rec' = [m \in Machines |-> Idle]
    /\ cache' = machine
    /\ UNCHANGED <<machine, network, nads, vms, swallowed, raced>>

-----------------------------------------------------------------------------
(* The reconcile                                                           *)

Active == {m \in Machines : rec[m].step # "idle"}

At(m, step) == rec[m].step = step
GoTo(m, step) == rec' = [rec EXCEPT ![m].step = step]
Return(m) == rec' = [rec EXCEPT ![m] = Idle]

Start(m) ==
    /\ At(m, "idle")
    /\ Cardinality(Active) < MaxConcurrentReconciles
    /\ cache[m].phase # "absent"
    /\ rec' = [rec EXCEPT ![m] =
          [Idle EXCEPT !.obj = cache[m],
                       !.step = IF cache[m].phase = "live"
                                THEN "getVM" ELSE "resolve"]]
    /\ UNCHANGED <<machine, cache, network, nads, vms, swallowed, raced>>

\* isVMUsingNAD over the VMs listed; those being deleted do not count.
Users(n) == {m \in Machines : vms[m].state = "up" /\ vms[m].nad = n}

(* Creation: CreateVirtualMachine up to its network, and the VM            *)

GetVM(m) ==
    /\ At(m, "getVM")
    /\ IF vms[m].state = "none" THEN GoTo(m, "getNAD") ELSE Return(m)
    /\ UNCHANGED <<machine, cache, network, nads, vms, swallowed, raced>>

\* The network asked for now; a VLAN or a static network has a NAD.
GetNAD(m) ==
    /\ At(m, "getNAD")
    /\ LET n == network[m] IN
       rec' = [rec EXCEPT
          ![m].nad = n,
          ![m].step = IF n # None /\ nads[n] = "none"
                      THEN "createNAD" ELSE "createVM"]
    /\ UNCHANGED <<machine, cache, network, nads, vms, swallowed, raced>>

\* AlreadyExists is success.
CreateNAD(m) ==
    /\ At(m, "createNAD")
    /\ nads' = [nads EXCEPT ![rec[m].nad] = IF @ = "none" THEN "managed" ELSE @]
    /\ GoTo(m, "createVM")
    /\ UNCHANGED <<machine, cache, network, vms, swallowed, raced>>

\* A collector has found n unused and is about to delete it, or has done so
\* since the creation found n or made it.
Collected(n) ==
    \/ nads[n] = "none"
    \/ \E o \in Machines :
          \/ rec[o].step \in {"preDelete", "finDelete"} /\ rec[o].nad = n
          \/ At(o, "sweepDelete") /\ n \in rec[o].left

CreateVM(m) ==
    /\ At(m, "createVM")
    /\ vms[m].state = "none"
    /\ LET n == rec[m].nad IN
       /\ vms' = [vms EXCEPT ![m] = [state |-> "up", nad |-> n]]
       /\ raced' = IF n # None /\ Collected(n) THEN raced \cup {m} ELSE raced
    /\ Return(m)
    /\ UNCHANGED <<machine, cache, network, nads, swallowed>>

(* Deletion: resolveNADNameForDeletion                                     *)

ResolveNADName(m) ==
    /\ At(m, "resolve")
    /\ LET noted == rec[m].obj.noted IN
       rec' = [rec EXCEPT
          ![m].nad = IF noted # None THEN noted ELSE vms[m].nad,
          ![m].step = IF noted # None THEN "preGet"
                      ELSE IF vms[m].nad # None THEN "note" ELSE "deleteVM"]
    /\ UNCHANGED <<machine, cache, network, nads, vms, swallowed, raced>>

\* An Update of the handler's own copy; its error is only logged.
UpdateNoted(m, noted) ==
    machine' \in {machine}
        \cup IF machine[m] = rec[m].obj
             THEN {[machine EXCEPT ![m].noted = noted]} ELSE {}

NoteNAD(m) ==
    /\ At(m, "note")
    /\ UpdateNoted(m, rec[m].nad)
    /\ rec' = [rec EXCEPT ![m].obj.noted = rec[m].nad, ![m].step = "preGet"]
    /\ UNCHANGED <<cache, network, nads, vms, swallowed, raced>>

(* CleanupNADIfUnusedByOtherVMs                                            *)

PreGetNAD(m) ==
    /\ At(m, "preGet")
    /\ GoTo(m, IF nads[rec[m].nad] = "none" THEN "deleteVM" ELSE "preList")
    /\ UNCHANGED <<machine, cache, network, nads, vms, swallowed, raced>>

\* Mutant: the VMs that are listed are not looked at.
PreListAnyVMs(m) ==
    /\ At(m, "preList")
    /\ GoTo(m, "preDelete")
    /\ UNCHANGED <<machine, cache, network, nads, vms, swallowed, raced>>

PreListVMs(m) ==
    /\ At(m, "preList")
    /\ GoTo(m, IF Users(rec[m].nad) \subseteq {m}
               THEN "preDelete" ELSE "deleteVM")
    /\ UNCHANGED <<machine, cache, network, nads, vms, swallowed, raced>>

DeleteNAD(n) == nads' = [nads EXCEPT ![n] = "none"]

PreDeleteNAD(m) ==
    /\ At(m, "preDelete")
    /\ DeleteNAD(rec[m].nad)
    /\ GoTo(m, "deleteVM")
    /\ UNCHANGED <<machine, cache, network, vms, swallowed, raced>>

(* The VM                                                                  *)

DeleteVM(m) ==
    /\ At(m, "deleteVM")
    /\ vms' = [vms EXCEPT ![m].state = IF @ = "up" THEN "dying" ELSE @]
    /\ raced' = raced \ {m}
    /\ GoTo(m, "checkVM")
    /\ UNCHANGED <<machine, cache, network, nads, swallowed>>

\* Mutant: the collection after the VM does not ask for the name of a NAD.
CheckVMThenCollect(m) ==
    /\ At(m, "checkVM")
    /\ IF vms[m].state # "none" THEN Return(m) ELSE GoTo(m, "finGet")
    /\ UNCHANGED <<machine, cache, network, nads, vms, swallowed, raced>>

\* Mutant: without the name of a NAD there is nothing to clean up.
CheckVMNoNADNoSweep(m) ==
    /\ At(m, "checkVM")
    /\ IF vms[m].state # "none" THEN Return(m)
       ELSE GoTo(m, IF rec[m].nad = None THEN "removeFinalizer" ELSE "finGet")
    /\ UNCHANGED <<machine, cache, network, nads, vms, swallowed, raced>>

CheckVM(m) ==
    /\ At(m, "checkVM")
    /\ IF vms[m].state # "none" THEN Return(m)
       ELSE GoTo(m, IF rec[m].nad = None THEN "sweepNADs" ELSE "finGet")
    /\ UNCHANGED <<machine, cache, network, nads, vms, swallowed, raced>>

(* finalizeNADCleanup: CleanupNetworkAttachmentDefinition                  *)

FinGetNAD(m) ==
    /\ At(m, "finGet")
    /\ GoTo(m, IF nads[rec[m].nad] = "none" THEN "sweepNADs" ELSE "finList")
    /\ UNCHANGED <<machine, cache, network, nads, vms, swallowed, raced>>

FinListVMs(m) ==
    /\ At(m, "finList")
    /\ GoTo(m, IF Users(rec[m].nad) = {} THEN "finDelete" ELSE "sweepNADs")
    /\ UNCHANGED <<machine, cache, network, nads, vms, swallowed, raced>>

FinDeleteNAD(m) ==
    /\ At(m, "finDelete")
    /\ DeleteNAD(rec[m].nad)
    /\ GoTo(m, "sweepNADs")
    /\ UNCHANGED <<machine, cache, network, vms, swallowed, raced>>

(* finalizeNADCleanup: CleanupOrphanedNADs, and the annotation             *)

\* Where the handler goes after the sweep, or on with it.
SweepOn(m, left, step) ==
    rec' = [rec EXCEPT
        ![m].left = left,
        ![m].step = IF left # {} THEN step
                    ELSE IF rec[m].nad # None THEN "unnote"
                    ELSE "removeFinalizer"]

\* Mutant: the NADs are listed without the label selector.
SweepAllNADs(m) ==
    /\ At(m, "sweepNADs")
    /\ SweepOn(m, {n \in NADs : nads[n] # "none"}, "sweepVMs")
    /\ UNCHANGED <<machine, cache, network, nads, vms, swallowed, raced>>

SweepListNADs(m) ==
    /\ At(m, "sweepNADs")
    /\ SweepOn(m, {n \in NADs : nads[n] = "managed"}, "sweepVMs")
    /\ UNCHANGED <<machine, cache, network, nads, vms, swallowed, raced>>

SweepListVMs(m) ==
    /\ At(m, "sweepVMs")
    /\ SweepOn(m, {n \in rec[m].left : Users(n) = {}}, "sweepDelete")
    /\ UNCHANGED <<machine, cache, network, nads, vms, swallowed, raced>>

SweepDeleteNAD(m) ==
    /\ At(m, "sweepDelete")
    /\ \E n \in rec[m].left :
          /\ DeleteNAD(n)
          /\ SweepOn(m, rec[m].left \ {n}, "sweepDelete")
    /\ UNCHANGED <<machine, cache, network, vms, swallowed, raced>>

RemoveNote(m) ==
    /\ At(m, "unnote")
    /\ UpdateNoted(m, None)
    /\ rec' = [rec EXCEPT ![m].obj.noted = None, ![m].step = "removeFinalizer"]
    /\ UNCHANGED <<cache, network, nads, vms, swallowed, raced>>

\* The finalizer goes from the latest cached copy; if that is a new, live
\* Machine of the name, its next reconcile puts the finalizer back.
RemoveMachineFinalizer(m) ==
    /\ At(m, "removeFinalizer")
    /\ IF cache[m].phase = "deleting"
       THEN /\ machine[m] = cache[m]
            /\ machine' = [machine EXCEPT ![m] = Absent]
       ELSE UNCHANGED machine
    /\ Return(m)
    /\ UNCHANGED <<cache, network, nads, vms, swallowed, raced>>

(* Errors                                                                  *)

\* Mutant: an error of a collection is returned, and the deletion retried.
CollectionErrorReturned(m) ==
    /\ rec[m].step \in BeforeVMSteps \cup AfterVMSteps \cup SweepSteps
    /\ Return(m)
    /\ UNCHANGED <<machine, cache, network, nads, vms, swallowed, raced>>

\* An error of a collection is logged and the handler goes on: after the
\* failed collection, or in the sweep's loop with the next NAD.
CollectionError(m) ==
    /\ \/ rec[m].step \in BeforeVMSteps /\ GoTo(m, "deleteVM")
       \/ rec[m].step \in AfterVMSteps /\ GoTo(m, "sweepNADs")
       \/ rec[m].step \in {"sweepNADs", "sweepVMs"} /\ SweepOn(m, {}, "unnote")
       \/ /\ At(m, "sweepDelete")
          /\ \E n \in rec[m].left : SweepOn(m, rec[m].left \ {n}, "sweepDelete")
    /\ swallowed' = TRUE
    /\ UNCHANGED <<machine, cache, network, nads, vms, raced>>

\* Any other call may fail, or have to wait: the handler returns.
ReconcileFails(m) ==
    /\ rec[m].step \in CreationSteps \cup ReturningSteps
    /\ Return(m)
    /\ UNCHANGED <<machine, cache, network, nads, vms, swallowed, raced>>

-----------------------------------------------------------------------------
(* The specification                                                       *)

Environment ==
    \/ \E m \in Machines :
          \/ UserCreates(m)
          \/ UserDeletes(m)
          \/ NetworkChanges(m)
          \/ CacheSync(m)
          \/ VMGone(m)
    \/ \E n \in NADs : AdminCreatesNAD(n)
    \/ Crash
    \/ Restart

Creation(m) ==
    \/ GetVM(m)
    \/ GetNAD(m)
    \/ CreateNAD(m)
    \/ CreateVM(m)

Deletion(m) ==
    \/ ResolveNADName(m)
    \/ NoteNAD(m)
    \/ PreGetNAD(m)
    \/ PreListVMs(m)
    \/ PreDeleteNAD(m)
    \/ DeleteVM(m)
    \/ CheckVM(m)
    \/ FinGetNAD(m)
    \/ FinListVMs(m)
    \/ FinDeleteNAD(m)
    \/ SweepListNADs(m)
    \/ SweepListVMs(m)
    \/ SweepDeleteNAD(m)
    \/ RemoveNote(m)
    \/ RemoveMachineFinalizer(m)

\* What moves a handler on; a collection's error does, a returned one not.
Progress(m) == Creation(m) \/ Deletion(m) \/ CollectionError(m)

Next ==
    \/ Environment
    \/ \E m \in Machines : Start(m) \/ Progress(m) \/ ReconcileFails(m)

Spec == Init /\ [][Next]_vars

\* Machines are queued again and every call returns; a call whose error ends
\* the reconcile succeeds at some time, a collector's perhaps never; informer
\* and KubeVirt catch up, and the operator does not crash for ever.
Fairness ==
    /\ WF_vars(Restart)
    /\ <>[](\A m \in Machines : rec[m] # Down)
    /\ \A m \in Machines :
        /\ WF_vars(CacheSync(m))
        /\ WF_vars(VMGone(m))
        /\ WF_vars(Progress(m) \/ ReconcileFails(m))
        /\ SF_vars(Start(m))
        /\ \A step \in ReturningSteps : SF_vars(At(m, step) /\ Progress(m))

FairSpec == Spec /\ Fairness

-----------------------------------------------------------------------------
(* Properties                                                              *)

\* The NAD of a running VM exists as long as nobody deletes its Machine: "No
\* VMs are using this NAD, safe to delete" (network_manager.go:383).  The
\* collectors of the other reconciles list the VMs some calls before they
\* delete; only a VM that comes up in between, or too late, may miss its NAD.
LiveVMHasItsNAD ==
    \A m \in Machines \ raced :
        machine[m].phase = "live" /\ vms[m].state = "up" /\ vms[m].nad # None =>
            nads[vms[m].nad] # "none"

\* When the last Machine is gone, so is every NAD the operator made, those
\* of VMs never created and of VLANs changed meanwhile included, whatever
\* crashed or failed, if no error of a collector was swallowed (its comment
\* promises it for deletions whose cleanup did not run, network_manager.go:476).
NothingLeftBehind ==
    ~swallowed /\ (\A m \in Machines : machine[m].phase = "absent") =>
        \A n \in NADs : nads[n] # "managed"

\* A NAD that an administrator made is never swept (the label selector of
\* network_manager.go:494): if it goes, then for a Machine that used it.
ForeignNADGoesWithItsUser ==
    [][\A n \in NADs :
          nads[n] = "foreign" /\ nads'[n] # "foreign" =>
              \E m \in Machines :
                  rec[m].nad = n /\ rec[m].step # rec'[m].step]_vars

\* NAD collection is best effort: a deletion ends even if every such call
\* fails, as in a cluster without the NAD API (machine_controller.go:516-538).
DeletionEnds ==
    \A m \in Machines :
        machine[m].phase = "deleting" ~> machine[m].phase # "deleting"
=============================================================================
