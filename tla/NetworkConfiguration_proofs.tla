--------------------- MODULE NetworkConfiguration_proofs ---------------------
(***************************************************************************)
(* The safety properties of NetworkConfiguration, for any networks, MAC    *)
(* addresses and number of lives of a Machine.                             *)
(***************************************************************************)
EXTENDS NetworkConfiguration, TLAPS

\* Steps whose copy of the NC has the interfaces that the server has.
BeforeWrite == {"getVM", "network", "mac", "persist", "deleteVM", "cleanup"}

\* The NC belongs to the Machine that there is.
OwnerSound ==
    /\ machine.phase = "absent" =>
          nc.kind # "managed" /\ vm.state = "none" /\ At("idle")
    /\ nc.kind = "none" => nc = NoNC
    /\ nc.kind = "managed" => nc.owner = machine.uid /\ Declared(nc) # {}

\* What the cache may be behind with since the reconcile began.
CopySound ==
    /\ rec.step \in BeforeWrite =>
          /\ cache.ifaces = nc.ifaces
          /\ cache.kind = nc.kind \/ (cache.kind = "none" /\ nc.kind = "foreign")
    /\ rec.step \in {"deleteVM", "cleanup"} => cache.kind = nc.kind
    /\ At("cloudInit") =>
          /\ cache.kind \in {"none", nc.kind}
          /\ \A n \in Networks : cache.ifaces[n] \in {NoMAC, nc.ifaces[n]}
          /\ cache.kind = "managed" => Declared(cache) # {}

\* An NC that has the interface of v alone: v has its address.
Addressed(v) ==
    v.static /\ nc.kind = "managed" /\ Declared(nc) \subseteq {v.mac} =>
        v.mac \in v.configured

\* The address of the VM that is being made.
CreationSound ==
    /\ ~At("idle") => rec.uid = machine.uid
    /\ rec.step \in {"getVM", "network", "mac", "persist", "cloudInit"} =>
          ~rec.spec.static
    /\ At("persist") => nc.ifaces[rec.spec.network] \in {NoMAC, rec.spec.mac}
    /\ rec.step \in {"cloudInit", "createVM"} =>
          nc.ifaces[rec.spec.network] = rec.spec.mac
    /\ At("createVM") => Addressed(rec.spec)

\* The address of the VM.
VMSound ==
    vm.state # "none" =>
        /\ vm.network \in Networks
        /\ vm.mac \in MACs
        /\ nc.ifaces[vm.network] = vm.mac
        /\ Addressed(vm)

\* A deletion removes the NC after the VM and before the Machine.
DeletionSound ==
    /\ rec.step \in DeletionSteps => machine.phase = "deleting"
    /\ rec.step \in {"cleanup", "removeFinalizer"} => vm.state = "none"
    /\ At("removeFinalizer") => nc.kind # "managed"

Sound == OwnerSound /\ CopySound /\ CreationSound /\ VMSound /\ DeletionSound

\* The inductive invariant: what holds while the cache keeps up.
NCInvariant == TypeOK /\ (~lagged => Sound)

-----------------------------------------------------------------------------
(* Types                                                                   *)

USE DEF At, GoTo, Return

LEMMA ConstantsTyped ==
    /\ NoNC \in NC
    /\ NoVM \in VirtualMachine
    /\ Idle \in Reconcile
    /\ Idle.step = "idle"
    /\ \A u \in 0..MaxLives : NoMachine(u) \in MachineObject
    /\ 0 \in 0..MaxLives
<1>1. 0 \in 0..MaxLives
  BY ConstantsAssumption
<1>2. NoNC \in NC
  BY <1>1 DEF NoNC, NC
<1>3. NoVM \in VirtualMachine
  BY DEF NoVM, VirtualMachine
<1>4. Idle \in Reconcile /\ Idle.step = "idle"
  BY <1>1, <1>3 DEF Idle, Reconcile
<1>5. \A u \in 0..MaxLives : NoMachine(u) \in MachineObject
  BY DEF NoMachine, MachineObject
<1> QED BY <1>1, <1>2, <1>3, <1>4, <1>5

LEMMA InitTyped == Init => TypeOK
BY ConstantsTyped DEF Init, TypeOK

LEMMA EnvironmentTyped ==
    ASSUME TypeOK, Environment PROVE TypeOK'
<1>1. CASE UserCreates
  <2>1. machine.uid + 1 \in 0..MaxLives
    BY <1>1, ConstantsAssumption DEF UserCreates, TypeOK, MachineObject
  <2> QED BY <1>1, <2>1 DEF UserCreates, TypeOK, MachineObject
<1>2. CASE UserDeletes
  BY <1>2 DEF UserDeletes, TypeOK, MachineObject
<1>3. CASE NetworkNamespaceChanges
  BY <1>3 DEF NetworkNamespaceChanges, TypeOK
<1>4. CASE OthersCreateNC
  BY <1>4, ConstantsTyped DEF OthersCreateNC, TypeOK, NC
<1>5. CASE Allocate
  <2>1. Declared(nc) \in SUBSET MACs
    BY DEF Declared, TypeOK, NC
  <2> QED BY <1>5, <2>1 DEF Allocate, TypeOK, NC
<1>6. CASE CollectNC
  BY <1>6, ConstantsTyped DEF CollectNC, TypeOK
<1>7. CASE OthersDeleteVM
  BY <1>7 DEF OthersDeleteVM, TypeOK, VirtualMachine
<1>8. CASE VMGone
  BY <1>8, ConstantsTyped DEF VMGone, TypeOK
<1>9. CASE CacheSync
  BY <1>9 DEF CacheSync, TypeOK
<1> QED
  BY <1>1, <1>2, <1>3, <1>4, <1>5, <1>6, <1>7, <1>8, <1>9 DEF Environment

\* What the writes of the operator make of an NC.
LEMMA WritesTyped ==
    ASSUME TypeOK, rec.spec.mac \in MACs, NEW c \in NC
    PROVE  /\ WithInterface(c) \in NC
           /\ BackfillNCProvider(c) \in NC
           /\ NewNC \in NC
<1>1. WithInterface(c) \in NC
  BY DEF WithInterface, NC
<1>2. BackfillNCProvider(c) \in NC
  BY DEF BackfillNCProvider, NC, TypeOK, NetworkNamespace
<1>3. NewNC \in NC
  BY ConstantsTyped
     DEF NewNC, NewNCWithoutOwner, NC, TypeOK, NetworkNamespace, Reconcile
<1> QED BY <1>1, <1>2, <1>3

LEMMA BackfillTyped ==
    ASSUME TypeOK, NEW c \in NC PROVE BackfillNCProvider(c) \in NC
BY DEF BackfillNCProvider, NC, TypeOK, NetworkNamespace

\* Any step of the reconcile that only moves it on.
LEMMA MoveTyped ==
    ASSUME TypeOK, UNCHANGED <<machine, nn, nc, vm, cache>>,
           lagged' \in BOOLEAN, rec' \in Reconcile,
           rec'.step \in {"mac", "persist", "cloudInit", "createVM"} =>
               rec'.spec.network \in Networks,
           rec'.step \in {"persist", "cloudInit", "createVM"} => rec'.spec.mac \in MACs
    PROVE  TypeOK'
BY DEF TypeOK

\* The write of the NC, whatever the cache shows.
LEMMA WriteNCTyped ==
    ASSUME TypeOK, At("persist"), WriteNC PROVE nc' \in NC
<1>1. rec.spec.mac \in MACs /\ cache \in NC /\ nc \in NC
  BY DEF TypeOK
<1>2. NewNC \in NC /\ WithInterface(cache) \in NC
  BY <1>1, WritesTyped
<1>3. WithInterface(NewNC) \in NC /\ BackfillNCProvider(WithInterface(cache)) \in NC
  BY <1>1, <1>2, WritesTyped
<1> QED BY <1>1, <1>3 DEF WriteNC, UpdateNC

LEMMA CreationTyped ==
    ASSUME TypeOK,
           \/ Start \/ GetVM \/ GetNetwork \/ ResolveOrGenerateMAC
           \/ PersistMacAddresses \/ ResolveCloudInit \/ CreateVM
    PROVE  TypeOK'
<1>0. rec \in Reconcile /\ nn \in NetworkNamespace /\ machine \in MachineObject
      /\ cache \in NC
  BY DEF TypeOK
<1>1. CASE Start
  <2>1. rec' \in Reconcile /\ rec'.step \in {"getVM", "deleteVM"}
    BY <1>0, <1>1, ConstantsTyped
       DEF Start, Reconcile, MachineObject, CreationSteps, DeletionSteps
  <2> QED BY <1>1, <2>1, MoveTyped DEF Start, TypeOK
<1>2. CASE GetVM
  <2>1. rec' \in Reconcile /\ rec'.step \in {"network", "backfill"}
    BY <1>0, <1>2 DEF GetVM, Reconcile, CreationSteps, LaterSteps
  <2> QED BY <1>2, <2>1, MoveTyped DEF GetVM, TypeOK
<1>3. CASE GetNetwork
  <2>1. [rec.spec EXCEPT !.network = nn.network] \in VirtualMachine
    BY <1>0 DEF Reconcile, VirtualMachine, NetworkNamespace
  <2>2. rec' \in Reconcile /\ rec'.step = "mac"
    BY <1>0, <1>3, <2>1 DEF GetNetwork, Reconcile, CreationSteps
  <2>3. rec'.spec.network \in Networks
    BY <1>0, <1>3 DEF GetNetwork, Reconcile, VirtualMachine, NetworkNamespace
  <2> QED BY <1>3, <2>2, <2>3, MoveTyped DEF GetNetwork, TypeOK
<1>4. CASE ResolveOrGenerateMAC
  <2>1. PICK mac \in ResolvedMACs :
            rec' = [rec EXCEPT !.step = "persist", !.spec.mac = mac]
    BY <1>4 DEF ResolveOrGenerateMAC
  <2>2. rec.spec.network \in Networks
    BY <1>4 DEF ResolveOrGenerateMAC, TypeOK
  <2>3. mac \in MACs
    BY <1>0, <2>2 DEF ResolvedMACs, NC
  <2>4. [rec.spec EXCEPT !.mac = mac] \in VirtualMachine
    BY <1>0, <2>3 DEF Reconcile, VirtualMachine
  <2>5. /\ rec' \in Reconcile /\ rec'.step = "persist"
        /\ rec'.spec = [rec.spec EXCEPT !.mac = mac]
    BY <1>0, <2>1, <2>4 DEF Reconcile, CreationSteps
  <2>6. rec'.spec.network = rec.spec.network /\ rec'.spec.mac = mac
    BY <1>0, <2>5 DEF Reconcile, VirtualMachine
  <2> QED BY <1>4, <2>2, <2>3, <2>5, <2>6, MoveTyped DEF ResolveOrGenerateMAC, TypeOK
<1>5. CASE PersistMacAddresses
  <2>1. nc' \in NC
    BY <1>5, WriteNCTyped DEF PersistMacAddresses
  <2>2. /\ rec' \in Reconcile
        /\ rec'.step = "idle" \/ rec'.spec = rec.spec
    BY <1>0, <1>5, ConstantsTyped DEF PersistMacAddresses, Reconcile, CreationSteps
  <2> QED BY <1>5, <2>1, <2>2 DEF PersistMacAddresses, TypeOK
<1>6. CASE ResolveCloudInit
  <2>1. Declared(cache) \cap cache.addressed \in SUBSET MACs
    BY <1>0 DEF NC
  <2>2. /\ rec' \in Reconcile
        /\ rec'.step # "idle" => /\ rec'.spec.mac = rec.spec.mac
                                /\ rec'.spec.network = rec.spec.network
    <3>1. CASE rec' = [rec EXCEPT !.step = "createVM", !.spec.static = TRUE,
                         !.spec.configured = Declared(cache) \cap cache.addressed]
      BY <1>0, <2>1, <3>1 DEF Reconcile, CreationSteps, VirtualMachine
    <3>2. CASE rec' \in {Idle, [rec EXCEPT !.step = "createVM"]}
      BY <1>0, <3>2, ConstantsTyped DEF Reconcile, CreationSteps
    <3> QED BY <1>6, <3>1, <3>2 DEF ResolveCloudInit
  <2>3. rec.spec.mac \in MACs /\ rec.spec.network \in Networks
    BY <1>6 DEF ResolveCloudInit, TypeOK
  <2> QED BY <1>6, <2>2, <2>3, MoveTyped DEF ResolveCloudInit, TypeOK
<1>7. CASE CreateVM
  <2>1. vm' \in VirtualMachine
    BY <1>0, <1>7 DEF CreateVM, Reconcile, VirtualMachine
  <2>2. rec' \in Reconcile /\ rec'.step = "backfill"
    BY <1>0, <1>7, ConstantsTyped DEF CreateVM, Reconcile, LaterSteps
  <2> QED BY <1>7, <2>1, <2>2 DEF CreateVM, TypeOK
<1> QED BY <1>1, <1>2, <1>3, <1>4, <1>5, <1>6, <1>7

LEMMA RestTyped ==
    ASSUME TypeOK,
           \/ EnsureNCProviderBackfilled \/ UpdateMachineStatus \/ DeleteVM
           \/ CleanupNetworkConfiguration \/ RemoveMachineFinalizer \/ ReconcileFails
    PROVE  TypeOK'
<1>0. /\ rec \in Reconcile /\ machine \in MachineObject /\ vm \in VirtualMachine
      /\ cache \in NC /\ nc \in NC
  BY DEF TypeOK
<1>1. CASE EnsureNCProviderBackfilled
  <2>1. nc' \in NC
    BY <1>0, <1>1, BackfillTyped DEF EnsureNCProviderBackfilled, UpdateNC
  <2>2. rec' \in Reconcile /\ rec'.step = "status"
    BY <1>0, <1>1 DEF EnsureNCProviderBackfilled, Reconcile, LaterSteps
  <2> QED BY <1>1, <2>1, <2>2 DEF EnsureNCProviderBackfilled, TypeOK
<1>2. CASE UpdateMachineStatus
  <2>1. PICK seen \in {rec.seen} \cup SUBSET ({GuestMAC, vm.mac} \ {NoMAC}) :
            machine' = [machine EXCEPT !.seen = seen]
    BY <1>2 DEF UpdateMachineStatus
  <2>2. seen \in SUBSET (MACs \cup {GuestMAC})
    BY <1>0 DEF Reconcile, VirtualMachine
  <2>3. machine' \in MachineObject
    BY <1>0, <2>1, <2>2 DEF MachineObject
  <2> QED BY <1>2, <2>3, ConstantsTyped DEF UpdateMachineStatus, TypeOK
<1>3. CASE DeleteVM
  <2>1. vm' \in VirtualMachine
    BY <1>0, <1>3 DEF DeleteVM, VirtualMachine
  <2>2. rec' \in Reconcile /\ rec'.step \in {"idle", "cleanup"}
    BY <1>0, <1>3, ConstantsTyped DEF DeleteVM, Reconcile, DeletionSteps
  <2> QED BY <1>3, <2>1, <2>2 DEF DeleteVM, TypeOK
<1>4. CASE CleanupNetworkConfiguration
  <2>1. nc' \in NC
    BY <1>0, <1>4, ConstantsTyped DEF CleanupNetworkConfiguration
  <2>2. rec' \in Reconcile /\ rec'.step \in {"idle", "removeFinalizer"}
    BY <1>0, <1>4, ConstantsTyped
       DEF CleanupNetworkConfiguration, Reconcile, DeletionSteps
  <2> QED BY <1>4, <2>1, <2>2 DEF CleanupNetworkConfiguration, TypeOK
<1>5. CASE RemoveMachineFinalizer
  BY <1>0, <1>5, ConstantsTyped DEF RemoveMachineFinalizer, TypeOK, MachineObject
<1>6. CASE ReconcileFails
  <2>1. rec' \in Reconcile /\ rec'.step \in {"idle", "status"}
    BY <1>0, <1>6, ConstantsTyped DEF ReconcileFails, Reconcile, LaterSteps
  <2> QED BY <1>6, <2>1, MoveTyped DEF ReconcileFails, TypeOK
<1> QED BY <1>1, <1>2, <1>3, <1>4, <1>5, <1>6

LEMMA NextTyped == TypeOK /\ [Next]_vars => TypeOK'
<1> SUFFICES ASSUME TypeOK, [Next]_vars PROVE TypeOK'
  OBVIOUS
<1>1. CASE UNCHANGED vars
  BY <1>1 DEF vars, TypeOK
<1> QED
  BY <1>1, EnvironmentTyped, CreationTyped, RestTyped DEF Next, Progress

-----------------------------------------------------------------------------
(* The parts of the invariant                                              *)

LEMMA DeclaredByInterfaces ==
    ASSUME NEW c, NEW d, c.ifaces = d.ifaces PROVE Declared(c) = Declared(d)
BY DEF Declared

LEMMA NoNCDeclaresNothing ==
    /\ NoNC.kind = "none" /\ NoNC.addressed = {} /\ Declared(NoNC) = {}
    /\ \A n \in Networks : NoNC.ifaces[n] = NoMAC
BY DEF NoNC, Declared

\* A VM, and the spec of one past its persistence, has an interface in the NC.
LEMMA NoNCNoVM ==
    ASSUME NCInvariant, ~lagged, nc.kind = "none"
    PROVE  vm.state = "none" /\ rec.step \notin {"cloudInit", "createVM"}
<1>1. \A n \in Networks : nc.ifaces[n] \notin MACs
  BY ConstantsAssumption, NoNCDeclaresNothing DEF NCInvariant, Sound, OwnerSound
<1>2. vm.state = "none"
  BY <1>1 DEF NCInvariant, Sound, VMSound
<1>3. rec.step \notin {"cloudInit", "createVM"}
  BY <1>1 DEF NCInvariant, TypeOK, Sound, CreationSound
<1> QED BY <1>2, <1>3

LEMMA InitSound == Init => NCInvariant
<1> SUFFICES ASSUME Init PROVE NCInvariant
  OBVIOUS
<1>1. TypeOK
  BY InitTyped
<1>2. Sound
  BY NoNCDeclaresNothing, ConstantsTyped
     DEF Init, Sound, OwnerSound, CopySound, CreationSound, VMSound, DeletionSound,
         BeforeWrite, DeletionSteps, NoMachine, NoVM
<1> QED BY <1>1, <1>2 DEF NCInvariant

\* A step that changes neither the NC nor its copy nor the VM nor the reconcile.
LEMMA UsersSound ==
    ASSUME NCInvariant, ~lagged,
           UserCreates \/ UserDeletes \/ NetworkNamespaceChanges
    PROVE  Sound'
<1>0. Sound /\ TypeOK
  BY DEF NCInvariant
<1>1. CASE UserCreates
  BY <1>0, <1>1
     DEF UserCreates, Sound, OwnerSound, CopySound, CreationSound, VMSound,
         DeletionSound, Addressed, BeforeWrite, DeletionSteps
<1>2. CASE UserDeletes
  <2>1. machine'.phase = "deleting" /\ machine'.uid = machine.uid
    BY <1>0, <1>2 DEF UserDeletes, TypeOK, MachineObject
  <2> QED
    BY <1>0, <1>2, <2>1
       DEF UserDeletes, Sound, OwnerSound, CopySound, CreationSound, VMSound,
           DeletionSound, Addressed
<1>3. CASE NetworkNamespaceChanges
  BY <1>0, <1>3
     DEF NetworkNamespaceChanges, Sound, OwnerSound, CopySound, CreationSound, VMSound,
         DeletionSound, Addressed
<1> QED BY <1>1, <1>2, <1>3

LEMMA OthersCreateSound ==
    ASSUME NCInvariant, ~lagged, OthersCreateNC PROVE Sound'
<1>0. Sound /\ TypeOK /\ nc = NoNC
  BY DEF NCInvariant, Sound, OwnerSound, OthersCreateNC
<1>1. nc'.kind = "foreign" /\ nc'.ifaces = nc.ifaces
  BY <1>0, ConstantsTyped DEF OthersCreateNC, NC
<1>2. vm.state = "none" /\ rec.step \notin {"cloudInit", "createVM"}
  BY NoNCNoVM DEF OthersCreateNC
<1> QED
  BY <1>0, <1>1, <1>2, NoNCDeclaresNothing
     DEF OthersCreateNC, Sound, OwnerSound, CopySound, CreationSound, VMSound,
         DeletionSound, DeletionSteps

\* A write of the NC that leaves its interfaces, its kind and its owner.
LEMMA NCDetailSound ==
    ASSUME NCInvariant, ~lagged,
           nc'.kind = nc.kind, nc'.ifaces = nc.ifaces, nc'.owner = nc.owner,
           nc.kind = "none" => nc' = nc,
           UNCHANGED <<machine, vm, cache>>,
           \/ UNCHANGED rec
           \/ /\ rec'.step \in {"backfill", "status", "idle"}
              /\ rec'.step # "idle" => rec'.uid = rec.uid
              /\ ~At("idle")
    PROVE  Sound'
<1>1. Declared(nc') = Declared(nc)
  BY DeclaredByInterfaces
<1> QED
  BY <1>1
     DEF NCInvariant, Sound, OwnerSound, CopySound, CreationSound, VMSound,
         DeletionSound, Addressed, BeforeWrite, DeletionSteps

LEMMA OthersSound ==
    ASSUME NCInvariant, ~lagged,
           Allocate \/ CollectNC \/ OthersDeleteVM \/ VMGone \/ CacheSync
    PROVE  Sound'
<1>0. Sound /\ TypeOK
  BY DEF NCInvariant
<1>1. CASE Allocate
  <2>1. nc.kind # "none"
    BY <1>0, <1>1, NoNCDeclaresNothing DEF Allocate, Sound, OwnerSound
  <2>2. nc'.kind = nc.kind /\ nc'.ifaces = nc.ifaces /\ nc'.owner = nc.owner
    BY <1>0, <1>1 DEF Allocate, TypeOK, NC
  <2> QED BY <1>1, <2>1, <2>2, NCDetailSound DEF Allocate
<1>2. CASE CollectNC
  BY <1>0, <1>2 DEF CollectNC, Sound, OwnerSound
<1>3. CASE OthersDeleteVM
  <2>1. /\ vm' = [vm EXCEPT !.state = "dying"] /\ vm.state = "up"
        /\ vm'.network = vm.network /\ vm'.mac = vm.mac /\ vm'.static = vm.static
        /\ vm'.configured = vm.configured
    BY <1>0, <1>3 DEF OthersDeleteVM, TypeOK, VirtualMachine
  <2> QED
    BY <1>0, <1>3, <2>1
       DEF OthersDeleteVM, Sound, OwnerSound, CopySound, CreationSound, VMSound,
           DeletionSound, Addressed
<1>4. CASE VMGone
  BY <1>0, <1>4
     DEF VMGone, NoVM, Sound, OwnerSound, CopySound, CreationSound, VMSound,
         DeletionSound, Addressed
<1>5. CASE CacheSync
  BY <1>0, <1>5
     DEF CacheSync, Sound, OwnerSound, CopySound, CreationSound, VMSound,
         DeletionSound, Addressed
<1> QED BY <1>1, <1>2, <1>3, <1>4, <1>5
-----------------------------------------------------------------------------
(* The reconcile                                                           *)

\* A reconcile begins with a copy of the NC that is up to date.
LEMMA StartSound ==
    ASSUME NCInvariant, ~lagged', Start PROVE Sound'
<1>0. Sound /\ TypeOK /\ cache = nc
  BY DEF NCInvariant, Start
<1>1. /\ rec' \in Reconcile /\ rec'.uid = machine.uid
      /\ rec'.step = IF machine.phase = "live" THEN "getVM" ELSE "deleteVM"
  BY <1>0, ConstantsTyped
     DEF Start, Reconcile, TypeOK, MachineObject, CreationSteps, DeletionSteps
<1>2. machine.phase \in {"live", "deleting"}
  BY <1>0 DEF Start, TypeOK, MachineObject
<1>3. ~rec'.spec.static
  BY <1>0, ConstantsTyped DEF Start, Reconcile, Idle, NoVM
<1> QED
  BY <1>0, <1>1, <1>2, <1>3
     DEF Start, Sound, OwnerSound, CopySound, CreationSound, VMSound, DeletionSound,
         Addressed, BeforeWrite, DeletionSteps

LEMMA ReadsSound ==
    ASSUME NCInvariant, ~lagged, GetVM \/ GetNetwork \/ ResolveOrGenerateMAC
    PROVE  Sound'
<1>0. Sound /\ TypeOK /\ rec \in Reconcile /\ rec.spec \in VirtualMachine
  BY DEF NCInvariant, TypeOK, Reconcile
<1>1. CASE GetVM
  <2>1. /\ rec'.step \in {"network", "backfill"} /\ rec'.uid = rec.uid
        /\ rec'.spec = rec.spec
    BY <1>0, <1>1 DEF GetVM, Reconcile
  <2> QED
    BY <1>0, <1>1, <2>1
       DEF GetVM, Sound, OwnerSound, CopySound, CreationSound, VMSound, DeletionSound,
           Addressed, BeforeWrite, DeletionSteps
<1>2. CASE GetNetwork
  <2>1. rec'.step = "mac" /\ rec'.uid = rec.uid /\ rec'.spec.static = rec.spec.static
    BY <1>0, <1>2 DEF GetNetwork, Reconcile, VirtualMachine
  <2> QED
    BY <1>0, <1>2, <2>1
       DEF GetNetwork, Sound, OwnerSound, CopySound, CreationSound, VMSound,
           DeletionSound, Addressed, BeforeWrite, DeletionSteps
<1>3. CASE ResolveOrGenerateMAC
  <2>1. PICK mac \in ResolvedMACs :
            rec' = [rec EXCEPT !.step = "persist", !.spec.mac = mac]
    BY <1>3 DEF ResolveOrGenerateMAC
  <2>2. /\ rec'.step = "persist" /\ rec'.uid = rec.uid
        /\ rec'.spec.static = rec.spec.static /\ rec'.spec.mac = mac
        /\ rec'.spec.network = rec.spec.network
    BY <1>0, <2>1 DEF Reconcile, VirtualMachine
  <2>3. nc.ifaces[rec.spec.network] \in {NoMAC, mac}
    BY <1>0, <1>3 DEF ResolveOrGenerateMAC, ResolvedMACs, Sound, CopySound, BeforeWrite
  <2> QED
    BY <1>0, <1>3, <2>2, <2>3
       DEF ResolveOrGenerateMAC, Sound, OwnerSound, CopySound, CreationSound, VMSound,
           DeletionSound, Addressed, BeforeWrite, DeletionSteps
<1> QED BY <1>1, <1>2, <1>3

\* Provider and owner aside, a write adds the interface and nothing else.
LEMMA WriteEffect ==
    ASSUME NCInvariant, ~lagged, At("persist"), WriteNC, nc' # nc
    PROVE  /\ nc'.ifaces = [nc.ifaces EXCEPT ![rec.spec.network] = rec.spec.mac]
           /\ \/ nc.kind = "none" /\ nc'.kind = "managed" /\ nc'.owner = machine.uid
              \/ /\ nc.kind # "none" /\ cache = nc /\ nc'.kind = nc.kind
                 /\ nc'.owner = nc.owner
                 /\ nc.kind = "foreign" => nc'.provider = nc.provider
<1>0. /\ TypeOK /\ rec.uid = machine.uid /\ nc \in NC /\ cache \in NC
      /\ nc.kind = "none" => nc = NoNC
  BY DEF NCInvariant, TypeOK, Sound, CreationSound, OwnerSound
<1>1. CASE cache.kind = "none"
  <2>1. nc = NoNC /\ nc' = WithInterface(NewNC)
    BY <1>0, <1>1 DEF WriteNC
  <2>2. /\ NewNC.ifaces = NoNC.ifaces /\ NewNC.kind = "managed"
        /\ NewNC.owner = rec.uid /\ NewNC \in NC
    BY <1>0, ConstantsTyped, WritesTyped DEF NewNC, NewNCWithoutOwner, NC, TypeOK
  <2> QED BY <1>0, <2>1, <2>2, NoNCDeclaresNothing DEF WithInterface, NC
<1>2. CASE cache.kind # "none"
  <2>1. cache = nc /\ nc' = BackfillNCProvider(WithInterface(nc))
    BY <1>2 DEF WriteNC, UpdateNC
  <2>2. /\ WithInterface(nc) \in NC /\ WithInterface(nc).kind = nc.kind
        /\ WithInterface(nc).owner = nc.owner
        /\ WithInterface(nc).provider = nc.provider
        /\ WithInterface(nc).ifaces = [nc.ifaces EXCEPT ![rec.spec.network] = rec.spec.mac]
    BY <1>0, WritesTyped DEF WithInterface, NC, TypeOK
  <2>3. ASSUME NEW c \in NC
        PROVE  /\ BackfillNCProvider(c).ifaces = c.ifaces
               /\ BackfillNCProvider(c).kind = c.kind
               /\ BackfillNCProvider(c).owner = c.owner
               /\ c.kind = "foreign" => BackfillNCProvider(c).provider = c.provider
    BY DEF BackfillNCProvider, NC
  <2> QED BY <1>2, <2>1, <2>2, <2>3
<1> QED BY <1>1, <1>2

\* An address that is there stays, and the new one is there.
LEMMA WriteKeepsInterfaces ==
    ASSUME NCInvariant, ~lagged, At("persist"), WriteNC, nc' # nc
    PROVE  /\ nc'.ifaces[rec.spec.network] = rec.spec.mac
           /\ \A n \in Networks : nc.ifaces[n] \in {NoMAC, nc'.ifaces[n]}
           /\ Declared(nc') # {}
           /\ Declared(nc) \subseteq Declared(nc')
<1>0. /\ rec.spec.network \in Networks /\ rec.spec.mac \in MACs
      /\ nc.ifaces \in [Networks -> MACs \cup {NoMAC}]
      /\ nc.ifaces[rec.spec.network] \in {NoMAC, rec.spec.mac}
  BY DEF NCInvariant, TypeOK, NC, Sound, CreationSound
<1>1. nc'.ifaces = [nc.ifaces EXCEPT ![rec.spec.network] = rec.spec.mac]
  BY WriteEffect
<1>2. /\ nc'.ifaces[rec.spec.network] = rec.spec.mac
      /\ \A n \in Networks : nc.ifaces[n] \in {NoMAC, nc'.ifaces[n]}
  BY <1>0, <1>1
<1>3. rec.spec.mac \in Declared(nc')
  BY <1>0, <1>2, ConstantsAssumption DEF Declared
<1>4. Declared(nc) \subseteq Declared(nc')
  BY <1>2 DEF Declared
<1> QED BY <1>2, <1>3, <1>4

LEMMA PersistSound ==
    ASSUME NCInvariant, ~lagged, PersistMacAddresses PROVE Sound'
<1>0. Sound /\ TypeOK /\ rec \in Reconcile
  BY DEF NCInvariant, TypeOK
<1>1. CASE nc' = nc /\ rec' = Idle
  BY <1>0, <1>1, NCDetailSound, ConstantsTyped DEF PersistMacAddresses
<1>2. CASE nc' = nc /\ rec' # Idle
  <2>1. /\ cache = BackfillNCProvider(WithInterface(cache))
        /\ rec' = [rec EXCEPT !.step = "cloudInit"]
    BY <1>2 DEF PersistMacAddresses
  <2>2. rec'.step = "cloudInit" /\ rec'.uid = rec.uid /\ rec'.spec = rec.spec
    BY <1>0, <2>1 DEF Reconcile
  <2>3. /\ cache.ifaces = nc.ifaces /\ rec.spec.network \in Networks
        /\ rec.spec.mac \in MACs /\ cache \in NC
    BY <1>0 DEF PersistMacAddresses, Sound, CopySound, BeforeWrite, TypeOK
  <2>4. BackfillNCProvider(WithInterface(cache)).ifaces[rec.spec.network] = rec.spec.mac
    BY <2>3, <1>0, WritesTyped DEF BackfillNCProvider, WithInterface, NC
  <2>5. nc.ifaces[rec.spec.network] = rec.spec.mac
    BY <2>1, <2>3, <2>4
  <2>6. Declared(cache) = Declared(nc)
    BY <2>3, DeclaredByInterfaces
  <2> QED
    BY <1>0, <1>2, <2>2, <2>3, <2>5, <2>6
       DEF PersistMacAddresses, Sound, OwnerSound, CopySound, CreationSound, VMSound,
           DeletionSound, Addressed, BeforeWrite, DeletionSteps
<1>3. CASE nc' # nc
  <2>1. /\ rec'.step = "cloudInit" /\ rec'.uid = rec.uid /\ rec'.spec = rec.spec
        /\ WriteNC /\ At("persist")
    BY <1>0, <1>3 DEF PersistMacAddresses, Reconcile
  <2>2. Declared(cache) = Declared(nc) /\ cache.ifaces = nc.ifaces
    BY <1>0, DeclaredByInterfaces DEF PersistMacAddresses, Sound, CopySound, BeforeWrite
  <2>3. OwnerSound'
    BY <1>0, <1>3, <2>1, WriteEffect, WriteKeepsInterfaces
       DEF PersistMacAddresses, Sound, OwnerSound
  <2>4. CopySound'
    BY <1>0, <1>3, <2>1, <2>2, WriteEffect, WriteKeepsInterfaces
       DEF PersistMacAddresses, Sound, OwnerSound, CopySound, BeforeWrite
  <2>5. CreationSound'
    BY <1>0, <1>3, <2>1, WriteKeepsInterfaces
       DEF PersistMacAddresses, Sound, CreationSound
  <2>6. VMSound'
    <3> SUFFICES ASSUME vm.state # "none"
                 PROVE  /\ vm.network \in Networks
                        /\ vm.mac \in MACs
                        /\ nc'.ifaces[vm.network] = vm.mac
                        /\ Addressed(vm)'
      BY DEF PersistMacAddresses, VMSound
    <3>1. nc.kind # "none" /\ nc'.kind = nc.kind
      BY <1>3, <2>1, NoNCNoVM, WriteEffect
    <3>2. /\ vm.network \in Networks /\ vm.mac \in MACs
          /\ nc.ifaces[vm.network] = vm.mac /\ Addressed(vm)
      BY <1>0 DEF Sound, VMSound
    <3>3. nc'.ifaces[vm.network] = vm.mac
      BY <1>3, <2>1, <3>2, WriteKeepsInterfaces, ConstantsAssumption
    <3>4. Addressed(vm)'
      BY <1>3, <2>1, <3>1, <3>2, WriteKeepsInterfaces
         DEF PersistMacAddresses, Addressed
    <3> QED BY <3>2, <3>3, <3>4
  <2>7. DeletionSound'
    BY <1>0, <2>1 DEF PersistMacAddresses, DeletionSound, DeletionSteps
  <2> QED BY <2>3, <2>4, <2>5, <2>6, <2>7 DEF Sound
<1> QED BY <1>1, <1>2, <1>3 DEF PersistMacAddresses
\* Network data is rendered from a copy that may be older than what has just
\* been written; it has the address of a VM with one network.
LEMMA CloudInitSound ==
    ASSUME NCInvariant, ~lagged, ResolveCloudInit PROVE Sound'
<1>0. Sound /\ TypeOK /\ rec \in Reconcile /\ rec.spec \in VirtualMachine
  BY DEF NCInvariant, TypeOK, Reconcile
<1>1. CASE rec' = Idle
  BY <1>0, <1>1, NCDetailSound, ConstantsTyped DEF ResolveCloudInit
<1>2. ASSUME rec'.step = "createVM", rec'.uid = rec.uid,
             rec'.spec.network = rec.spec.network, rec'.spec.mac = rec.spec.mac,
             Addressed(rec.spec)'
      PROVE  Sound'
  BY <1>0, <1>2
     DEF ResolveCloudInit, Sound, OwnerSound, CopySound, CreationSound, VMSound,
         DeletionSound, Addressed, BeforeWrite, DeletionSteps
<1>3. CASE rec' = [rec EXCEPT !.step = "createVM"]
  <2>1. rec'.step = "createVM" /\ rec'.uid = rec.uid /\ rec'.spec = rec.spec
    BY <1>0, <1>3 DEF Reconcile
  <2>2. ~rec.spec.static
    BY <1>0 DEF ResolveCloudInit, Sound, CreationSound
  <2> QED BY <1>2, <2>1, <2>2 DEF Addressed
<1>4. CASE Rendered /\ rec' = [rec EXCEPT
                !.step = "createVM", !.spec.static = TRUE,
                !.spec.configured = Declared(cache) \cap cache.addressed]
  <2>1. /\ rec'.step = "createVM" /\ rec'.uid = rec.uid
        /\ rec'.spec.network = rec.spec.network /\ rec'.spec.mac = rec.spec.mac
        /\ rec'.spec.configured = Declared(cache) \cap cache.addressed
    BY <1>0, <1>4 DEF Reconcile, VirtualMachine
  <2>2. Addressed(rec.spec)'
    <3> SUFFICES ASSUME nc.kind = "managed", Declared(nc) \subseteq {rec.spec.mac}
                 PROVE  rec.spec.mac \in Declared(cache) \cap cache.addressed
      BY <2>1 DEF ResolveCloudInit, Addressed
    <3>1. /\ cache.kind = "managed" /\ Declared(cache) # {}
          /\ \A n \in Networks : cache.ifaces[n] \in {NoMAC, nc.ifaces[n]}
      BY <1>0, <1>4 DEF ResolveCloudInit, Rendered, Sound, CopySound
    <3>2. Declared(cache) \subseteq Declared(nc)
      BY <3>1 DEF Declared
    <3> QED BY <1>4, <3>1, <3>2 DEF Rendered
  <2> QED BY <1>2, <2>1, <2>2
<1> QED BY <1>1, <1>3, <1>4 DEF ResolveCloudInit

LEMMA CreateVMSound ==
    ASSUME NCInvariant, ~lagged, CreateVM PROVE Sound'
<1>0. Sound /\ TypeOK /\ rec \in Reconcile /\ rec.spec \in VirtualMachine
      /\ rec.spec.network \in Networks /\ rec.spec.mac \in MACs
  BY DEF NCInvariant, TypeOK, Reconcile, CreateVM
<1>1. /\ vm'.network = rec.spec.network /\ vm'.mac = rec.spec.mac
      /\ vm'.static = rec.spec.static /\ vm'.configured = rec.spec.configured
  BY <1>0 DEF CreateVM, VirtualMachine
<1>2. rec'.step = "backfill" /\ rec'.uid = rec.uid
  BY <1>0 DEF CreateVM, Reconcile
<1>3. machine.phase # "absent"
  BY <1>0 DEF CreateVM, Sound, OwnerSound
<1> QED
  BY <1>0, <1>1, <1>2, <1>3
     DEF CreateVM, Sound, OwnerSound, CopySound, CreationSound, VMSound, DeletionSound,
         Addressed, BeforeWrite, DeletionSteps

\* A backfill changes nothing but the provider, and that of a managed NC.
LEMMA BackfillEffect ==
    ASSUME TypeOK, EnsureNCProviderBackfilled
    PROVE  /\ nc'.kind = nc.kind /\ nc'.ifaces = nc.ifaces /\ nc'.owner = nc.owner
           /\ nc.kind # "managed" => nc' = nc
<1>1. nc \in NC
  BY DEF TypeOK
<1>2. nc' \in {nc, BackfillNCProvider(nc)}
  BY DEF EnsureNCProviderBackfilled, UpdateNC
<1>3. /\ BackfillNCProvider(nc).kind = nc.kind
      /\ BackfillNCProvider(nc).ifaces = nc.ifaces
      /\ BackfillNCProvider(nc).owner = nc.owner
  BY <1>1 DEF BackfillNCProvider, NC
<1>4. ASSUME nc.kind # "managed" PROVE BackfillNCProvider(nc) = nc
  <2>1. (nc.provider \/ (nc.kind = "managed" /\ nn.provider)) = nc.provider
    BY <1>1, <1>4 DEF NC
  <2>2. BackfillNCProvider(nc) = [nc EXCEPT !.provider = nc.provider]
    BY <2>1 DEF BackfillNCProvider
  <2> QED BY <1>1, <2>2 DEF NC
<1> QED BY <1>2, <1>3, <1>4

LEMMA LaterSound ==
    ASSUME NCInvariant, ~lagged,
           EnsureNCProviderBackfilled \/ UpdateMachineStatus \/ ReconcileFails
    PROVE  Sound'
<1>0. Sound /\ TypeOK /\ rec \in Reconcile /\ machine \in MachineObject
  BY DEF NCInvariant, TypeOK
<1>1. CASE EnsureNCProviderBackfilled
  <2>1. rec'.step = "status" /\ rec'.uid = rec.uid
    BY <1>0, <1>1 DEF EnsureNCProviderBackfilled, Reconcile
  <2> QED
    BY <1>0, <1>1, <2>1, BackfillEffect, NCDetailSound DEF EnsureNCProviderBackfilled
<1>2. CASE UpdateMachineStatus
  <2>1. machine'.phase = machine.phase /\ machine'.uid = machine.uid
    BY <1>0, <1>2 DEF UpdateMachineStatus, MachineObject
  <2>2. rec'.step = "idle"
    BY <1>2, ConstantsTyped DEF UpdateMachineStatus
  <2> QED
    BY <1>0, <1>2, <2>1, <2>2
       DEF UpdateMachineStatus, Sound, OwnerSound, CopySound, CreationSound, VMSound,
           DeletionSound, Addressed, BeforeWrite, DeletionSteps
<1>3. CASE ReconcileFails
  <2>1. \/ rec'.step = "idle"
        \/ rec'.step = "status" /\ rec'.uid = rec.uid
    BY <1>0, <1>3, ConstantsTyped DEF ReconcileFails, Reconcile
  <2> QED BY <1>3, <2>1, NCDetailSound DEF ReconcileFails
<1> QED BY <1>1, <1>2, <1>3

LEMMA DeletionKeepsSound ==
    ASSUME NCInvariant, ~lagged,
           DeleteVM \/ CleanupNetworkConfiguration \/ RemoveMachineFinalizer
    PROVE  Sound'
<1>0. Sound /\ TypeOK /\ rec \in Reconcile /\ vm \in VirtualMachine
  BY DEF NCInvariant, TypeOK
<1>1. CASE DeleteVM /\ vm.state = "none"
  <2>1. rec'.step = "cleanup" /\ rec'.uid = rec.uid
    BY <1>0, <1>1 DEF DeleteVM, Reconcile
  <2> QED
    BY <1>0, <1>1, <2>1
       DEF DeleteVM, Sound, OwnerSound, CopySound, CreationSound, VMSound,
           DeletionSound, BeforeWrite, DeletionSteps
<1>2. CASE DeleteVM /\ vm.state # "none"
  <2>1. /\ vm'.network = vm.network /\ vm'.mac = vm.mac /\ vm'.static = vm.static
        /\ vm'.configured = vm.configured
    BY <1>0, <1>2 DEF DeleteVM, VirtualMachine
  <2>2. rec'.step = "idle"
    BY <1>2, ConstantsTyped DEF DeleteVM
  <2> QED
    BY <1>0, <1>2, <2>1, <2>2
       DEF DeleteVM, Sound, OwnerSound, CopySound, CreationSound, VMSound,
           DeletionSound, Addressed, BeforeWrite, DeletionSteps
<1>3. CASE CleanupNetworkConfiguration
  <2>1. /\ cache.kind = nc.kind /\ vm.state = "none" /\ machine.phase = "deleting"
    BY <1>0, <1>3
       DEF CleanupNetworkConfiguration, Sound, CopySound, DeletionSound, DeletionSteps
  <2>2. \/ rec'.step = "idle"
        \/ rec'.step = "removeFinalizer" /\ rec'.uid = rec.uid /\ nc'.kind = "none"
    BY <1>0, <1>3, <2>1, ConstantsTyped, NoNCDeclaresNothing
       DEF CleanupNetworkConfiguration, Reconcile
  <2>3. nc' \in {nc, NoNC}
    BY <1>3 DEF CleanupNetworkConfiguration
  <2> QED
    BY <1>0, <1>3, <2>1, <2>2, <2>3, NoNCDeclaresNothing
       DEF CleanupNetworkConfiguration, Sound, OwnerSound, CopySound, CreationSound,
           VMSound, DeletionSound, BeforeWrite, DeletionSteps
<1>4. CASE RemoveMachineFinalizer
  BY <1>0, <1>4, ConstantsTyped
     DEF RemoveMachineFinalizer, NoMachine, Sound, OwnerSound, CopySound, CreationSound,
         VMSound, DeletionSound, BeforeWrite, DeletionSteps
<1> QED BY <1>1, <1>2, <1>3, <1>4

LEMMA NextSound == NCInvariant /\ [Next]_vars => NCInvariant'
<1> SUFFICES ASSUME NCInvariant, [Next]_vars PROVE NCInvariant'
  OBVIOUS
<1>1. TypeOK'
  BY NextTyped DEF NCInvariant
<1> SUFFICES ASSUME ~lagged' PROVE Sound'
  BY <1>1 DEF NCInvariant
<1>2. ASSUME Next PROVE ~lagged
  BY <1>2
     DEF Next, Environment, UserCreates, UserDeletes, NetworkNamespaceChanges,
         OthersCreateNC, Allocate, CollectNC, OthersDeleteVM, VMGone, CacheSync, Start,
         Progress, GetVM, GetNetwork, ResolveOrGenerateMAC, PersistMacAddresses,
         ResolveCloudInit, CreateVM, EnsureNCProviderBackfilled, UpdateMachineStatus,
         DeleteVM, CleanupNetworkConfiguration, RemoveMachineFinalizer, ReconcileFails
<1>3. CASE Environment
  BY <1>2, <1>3, UsersSound, OthersCreateSound, OthersSound DEF Environment, Next
<1>4. CASE Start
  BY <1>4, StartSound
<1>5. CASE Progress
  BY <1>2, <1>5, ReadsSound, PersistSound, CloudInitSound, CreateVMSound, LaterSound,
     DeletionKeepsSound DEF Progress, Next
<1>6. CASE ReconcileFails
  BY <1>2, <1>6, LaterSound DEF Next
<1>7. CASE UNCHANGED vars
  BY <1>7
     DEF vars, NCInvariant, Sound, OwnerSound, CopySound, CreationSound, VMSound,
         DeletionSound, Addressed
<1> QED BY <1>3, <1>4, <1>5, <1>6, <1>7 DEF Next

LEMMA Invariance == Spec => []NCInvariant
BY InitSound, NextSound, PTL DEF Spec
-----------------------------------------------------------------------------
(* The theorems                                                            *)

\* Every variable keeps its type: an interface is declared, and a VM made, only
\* with a network and an address.
THEOREM NCTypeCorrect == Spec => []TypeOK
BY InitTyped, NextTyped, PTL DEF Spec

\* While the cache keeps up, a running VM has the address that its NC declares
\* for its network, however often the creation was tried (network_config.go:281).
THEOREM VMHasDeclaredMAC == Spec => []VMMatchesNC
<1>1. NCInvariant => VMMatchesNC
  BY DEF NCInvariant, Sound, VMSound, VMMatchesNC
<1> QED BY <1>1, Invariance, PTL

\* While the cache keeps up, the network data of a VM with one network has an
\* IP for its address, though it is rendered from a copy (vm_manager.go:221).
THEOREM RenderedHasAddress == Spec => []OneNetworkVMHasAddress
<1>1. NCInvariant => OneNetworkVMHasAddress
  BY DEF NCInvariant, Sound, VMSound, Addressed, OneNetworkVMHasAddress,
         StaticVMHasAddress
<1> QED BY <1>1, Invariance, PTL

\* While the cache keeps up, no NC outlives its Machine (machine_controller.go:475).
THEOREM NCDeletedWithMachine == Spec => []NCGoesWithMachine
<1>1. NCInvariant => NCGoesWithMachine
  BY DEF NCInvariant, Sound, OwnerSound, NCGoesWithMachine
<1> QED BY <1>1, Invariance, PTL

\* The actions that write the NC.
LEMMA NCWriters ==
    ASSUME [Next]_vars, nc' # nc
    PROVE  \/ OthersCreateNC \/ Allocate \/ CollectNC \/ PersistMacAddresses
           \/ EnsureNCProviderBackfilled \/ CleanupNetworkConfiguration
BY DEF Next, vars, Environment, UserCreates, UserDeletes, NetworkNamespaceChanges,
       OthersDeleteVM, VMGone, CacheSync, Start, Progress, GetVM, GetNetwork,
       ResolveOrGenerateMAC, ResolveCloudInit, CreateVM, UpdateMachineStatus, DeleteVM,
       RemoveMachineFinalizer, ReconcileFails

\* They leave lagged alone.
LEMMA NCWritersKeepLagged ==
    ASSUME [Next]_vars, nc' # nc PROVE lagged' = lagged
BY NCWriters
   DEF OthersCreateNC, Allocate, CollectNC, PersistMacAddresses,
       EnsureNCProviderBackfilled, CleanupNetworkConfiguration

\* While the cache keeps up, a declared address is never replaced
\* (resolveOrGenerateMAC, network_config.go:281).
THEOREM DeclaredMACStays == Spec => MACNeverReplaced
<1>1. NCInvariant /\ [Next]_vars =>
        [~lagged' /\ nc'.kind # "none" =>
            \A n \in Networks :
                nc.ifaces[n] # NoMAC => nc'.ifaces[n] = nc.ifaces[n]]_vars
  <2> SUFFICES ASSUME NCInvariant, [Next]_vars, ~lagged', nc'.kind # "none",
                      nc' # nc, NEW n \in Networks, nc.ifaces[n] # NoMAC
               PROVE  nc'.ifaces[n] = nc.ifaces[n]
    OBVIOUS
  <2>0. ~lagged /\ TypeOK /\ Sound /\ nc \in NC
    BY NCWritersKeepLagged DEF NCInvariant, TypeOK
  <2>1. CASE OthersCreateNC
    BY <2>0, <2>1, NoNCDeclaresNothing DEF OthersCreateNC, Sound, OwnerSound
  <2>2. CASE Allocate
    BY <2>0, <2>2 DEF Allocate, NC
  <2>3. CASE CollectNC \/ CleanupNetworkConfiguration
    BY <2>3, NoNCDeclaresNothing DEF CollectNC, CleanupNetworkConfiguration
  <2>4. CASE PersistMacAddresses
    BY <2>0, <2>4, WriteKeepsInterfaces DEF PersistMacAddresses
  <2>5. CASE EnsureNCProviderBackfilled
    BY <2>0, <2>5, BackfillEffect
  <2> QED BY <2>1, <2>2, <2>3, <2>4, <2>5, NCWriters
<1> QED BY <1>1, Invariance, PTL DEF Spec, MACNeverReplaced
=============================================================================
