------------------------ MODULE MachineLifecycle_proofs ------------------------
(***************************************************************************)
(* MachineReconciler implements MachineLifecycle: under the refinement     *)
(* mapping Lifecycle every step of a serial operator, of the users, the    *)
(* caches and the clusters is a step of one Machine's life, or none.       *)
(***************************************************************************)
EXTENDS MachineReconciler_proofs

\* What the mapping makes of a Machine's remote objects.
Resources(m) == ({"vm"} \X vms[m]) \cup ({"disks"} \X disks[m])

\* A step that the mapping does not see.
LEMMA MapsToStutter ==
    ASSUME \A m \in Machines : /\ machine'[m].phase = machine[m].phase
                               /\ machine'[m].config = machine[m].config
                               /\ vms'[m] = vms[m]
                               /\ disks'[m] = disks[m],
           UNCHANGED <<dyingDisks, borrowed>>
    PROVE  UNCHANGED Lifecycle!vars
BY DEF Lifecycle!vars

LEMMA MapsInit == ASSUME Init PROVE Lifecycle!Init
<1>1. PICK home \in [Legacy -> InitialConfigs] :
         /\ machine = [m \in Machines |->
               IF m \in Legacy
               THEN [phase |-> "live", finalizer |-> TRUE, config |-> None]
               ELSE Absent]
         /\ vms = [m \in Machines |-> IF m \in Legacy THEN {home[m]} ELSE {}]
         /\ disks = vms
         /\ dyingDisks = [m \in Machines |-> {}]
         /\ borrowed = [m \in Machines |-> {}]
  BY DEF Init
<1>2. ASSUME NEW m \in Machines
      PROVE  /\ machine[m].phase \in {"absent", "live"}
             /\ machine[m].config = None
             /\ \/ Resources(m) = {}
                \/ /\ machine[m].phase = "live"
                   /\ \E c \in Clusters : Resources(m) = {"vm", "disks"} \X {c}
  <2>1. CASE m \in Legacy
    <3>1. /\ machine[m].phase = "live" /\ machine[m].config = None
          /\ vms[m] = {home[m]} /\ disks[m] = {home[m]} /\ home[m] \in Clusters
      BY <1>1, <2>1, ConstantsAssumption
    <3>2. Resources(m) = {"vm", "disks"} \X {home[m]}
      BY <3>1 DEF Resources
    <3> QED
      BY <3>1, <3>2
  <2>2. CASE m \notin Legacy
    BY <1>1, <2>2 DEF Absent, Resources
  <2> QED
    BY <2>1, <2>2
<1> QED
  BY <1>1, <1>2 DEF Lifecycle!Init, Lifecycle!Kinds, Resources

-----------------------------------------------------------------------------
(* One lemma per action of the lifecycle: what a step of the reconciler    *)
(* has to do to m, and to no other Machine, to be mapped to it.            *)

\* Only m's phase and placement change, to those of the object o.
MachineStep(m, o) ==
    /\ machine \in [Machines -> Object]
    /\ machine' = [machine EXCEPT ![m] = o]
    /\ UNCHANGED <<vms, disks, dyingDisks, borrowed>>

LEMMA MapsToCreate ==
    ASSUME NEW m \in Machines, NEW o \in Object, MachineStep(m, o),
           machine[m].phase = "absent", o.phase = "live"
    PROVE  Lifecycle!Create(m)
<1>1. o.config \in Clusters \cup {None}
  BY DEF Object
<1> QED
  BY <1>1 DEF MachineStep, Lifecycle!Create

LEMMA MapsToDelete ==
    ASSUME NEW m \in Machines, NEW o \in Object, MachineStep(m, o),
           machine[m].phase = "live", o.phase = "deleting",
           o.config = machine[m].config
    PROVE  Lifecycle!Delete(m)
BY DEF MachineStep, Lifecycle!Delete

LEMMA MapsToRemove ==
    ASSUME NEW m \in Machines, MachineStep(m, Absent),
           machine[m].phase # "absent", Held(m) = {}
    PROVE  Lifecycle!Remove(m)
BY DEF MachineStep, Lifecycle!Remove, Absent, Held

LEMMA MapsToPlace ==
    ASSUME NEW m \in Machines, NEW o \in Object, MachineStep(m, o),
           machine[m].phase # "absent", o.phase = machine[m].phase,
           machine[m].config = None, NEW c \in Clusters, o.config = c,
           Held(m) \subseteq {c}
    PROVE  Lifecycle!Place(m, c)
<1>1. \A k \in {"vm", "disks"}, d \in Clusters : <<k, d>> \in Resources(m) => d = c
  BY DEF Resources, Held
<1> QED
  BY <1>1 DEF MachineStep, Lifecycle!Place, Lifecycle!Kinds, Resources

\* Only the remote objects of m change.
RemoteStep(m) ==
    /\ UNCHANGED machine
    /\ \A n \in Machines \ {m} : vms'[n] = vms[n] /\ disks'[n] = disks[n]

LEMMA MapsToProvideDisks ==
    ASSUME NEW m \in Machines, RemoteStep(m), machine[m].phase # "absent",
           NEW c \in Clusters, machine[m].config = c, c # None,
           vms'[m] = vms[m], disks'[m] = disks[m] \cup {c},
           c \notin dyingDisks[m], UNCHANGED dyingDisks,
           borrowed' = [borrowed EXCEPT ![m] = @ \ {c}]
    PROVE  Lifecycle!ProvideDisks(m)
<1>1. Resources(m)' = Resources(m) \cup {<<"disks", c>>}
  BY DEF Resources
<1> QED
  BY <1>1 DEF RemoteStep, Lifecycle!ProvideDisks, Resources

LEMMA MapsToLend ==
    ASSUME NEW m \in Machines, RemoteStep(m), machine[m].phase # "absent",
           NEW c \in Clusters, machine[m].config = c, c # None,
           vms'[m] = vms[m], disks'[m] = disks[m],
           c \in dyingDisks[m], UNCHANGED dyingDisks,
           borrowed' = [borrowed EXCEPT ![m] = @ \cup {c}]
    PROVE  Lifecycle!Lend(m)
BY DEF RemoteStep, Lifecycle!Lend

LEMMA MapsToProvideVM ==
    ASSUME NEW m \in Machines, RemoteStep(m), machine[m].phase # "absent",
           NEW c \in Clusters, machine[m].config = c, c # None,
           vms'[m] = vms[m] \cup {c}, disks'[m] = disks[m],
           c \in disks[m] \cup borrowed[m], UNCHANGED <<dyingDisks, borrowed>>
    PROVE  Lifecycle!ProvideVM(m)
<1>1. /\ Resources(m)' = Resources(m) \cup {<<"vm", c>>}
      /\ <<"disks", c>> \in Resources(m) \/ c \in borrowed[m]
  BY DEF Resources
<1> QED
  BY <1>1 DEF RemoteStep, Lifecycle!ProvideVM, Resources

LEMMA MapsToReclaimVM ==
    ASSUME NEW m \in Machines, RemoteStep(m), machine[m].phase = "deleting",
           NEW c \in Clusters,
           vms'[m] = vms[m] \ {c}, disks'[m] = disks[m],
           UNCHANGED <<dyingDisks, borrowed>>
    PROVE  Lifecycle!ReclaimVM(m, c)
<1>1. Resources(m)' = Resources(m) \ {<<"vm", c>>}
  BY DEF Resources
<1> QED
  BY <1>1 DEF RemoteStep, Lifecycle!ReclaimVM, Resources

LEMMA MapsToReclaimDisks ==
    ASSUME NEW m \in Machines, RemoteStep(m), machine[m].phase = "deleting",
           NEW c \in Clusters, c \in disks[m],
           vms'[m] = vms[m], disks'[m] = disks[m] \ {c},
           dyingDisks' \in {dyingDisks, [dyingDisks EXCEPT ![m] = @ \cup {c}]},
           UNCHANGED borrowed
    PROVE  Lifecycle!ReclaimDisks(m, c)
<1>1. Resources(m)' = Resources(m) \ {<<"disks", c>>} /\ <<"disks", c>> \in Resources(m)
  BY DEF Resources
<1> QED
  BY <1>1 DEF RemoteStep, Lifecycle!ReclaimDisks, Resources

-----------------------------------------------------------------------------
(* The steps, from the placement invariant.                                *)

\* The placement invariant, where no placement is overwritten.
PlacedOnce == PlacementInvariant /\ LateOnlyWithSearch

\* What PlacementInvariant says that the mapping of a step needs.
LEMMA PlacementFacts ==
    ASSUME PlacedOnce, NEW m \in Machines
    PROVE  /\ machine \in [Machines -> Object] /\ machine[m] \in Object
           /\ cache[m] \in Object /\ rec[m] \in Reconcile
           /\ vms \in [Machines -> SUBSET Clusters]
           /\ disks \in [Machines -> SUBSET Clusters]
           /\ dyingDisks \in [Machines -> SUBSET SlowClusters]
           /\ Sound(m) /\ TypeInv
           /\ machine[m].phase = "absent" => machine[m] = Absent
           /\ Held(m) # {} => machine[m].finalizer
           /\ machine[m].finalizer => machine[m].phase # "absent"
           /\ dying[m] # {} => machine[m].phase = "deleting"
<1>0. Sound(m) /\ TypeInv
  BY DEF PlacedOnce, PlacementInvariant
<1> USE <1>0 DEF Sound
<1>1. /\ machine \in [Machines -> Object] /\ machine[m] \in Object
      /\ cache[m] \in Object /\ rec[m] \in Reconcile
      /\ vms \in [Machines -> SUBSET Clusters]
      /\ disks \in [Machines -> SUBSET Clusters]
      /\ dyingDisks \in [Machines -> SUBSET SlowClusters]
  BY DEF TypeInv, TypeOK
<1>2. machine[m].phase = "absent" => machine[m] = Absent
  BY DEF WellFormed
<1>3. Held(m) # {} => machine[m].finalizer
  BY DEF Follows
<1>4. machine[m].finalizer => machine[m].phase # "absent"
  BY <1>2 DEF Absent
<1>5. dying[m] # {} => machine[m].phase = "deleting"
  <2>1. dying[m] # {} => Held(m) # {}
    BY DEF ConfigsKnown, Held
  <2>2. Owned(machine[m]) => dying[m] = {}
    BY DEF CopiesSound, CopySound
  <2> QED
    BY <1>1, <1>3, <1>4, <2>1, <2>2 DEF Owned, Object
<1> QED
  BY <1>1, <1>2, <1>3, <1>4, <1>5

LEMMA EnvironmentMaps ==
    ASSUME PlacedOnce, Environment
    PROVE  [Lifecycle!Next]_(Lifecycle!vars)
<1> USE PlacementFacts
<1> USE DEF remoteVars, otherVars
<1>1. ASSUME NEW m \in Machines, UserCreates(m) PROVE Lifecycle!Create(m)
  <2>1. PICK c \in UserConfigs : machine' = [machine EXCEPT ![m] =
            [phase |-> "live", finalizer |-> FALSE, config |-> c]]
    BY <1>1 DEF UserCreates
  <2> DEFINE o == [phase |-> "live", finalizer |-> FALSE, config |-> c]
  <2>2. o \in Object
    BY ConstantsAssumption DEF Object
  <2> QED
    BY <1>1, <2>1, <2>2, MapsToCreate DEF UserCreates, MachineStep
<1>2. ASSUME NEW m \in Machines, UserAnnotates(m)
      PROVE  \E c \in Clusters : Lifecycle!Place(m, c)
  <2>1. PICK c \in UserConfigs \ {None} :
            Held(m) \subseteq {c} /\ machine' = [machine EXCEPT ![m].config = c]
    BY <1>2 DEF UserAnnotates
  <2> DEFINE o == [machine[m] EXCEPT !.config = c]
  <2>2. c \in Clusters /\ o \in Object /\ o.phase = machine[m].phase /\ o.config = c
    BY ConstantsAssumption DEF Object
  <2>3. MachineStep(m, o)
    BY <1>2, <2>1 DEF UserAnnotates, MachineStep
  <2>4. machine[m].phase # "absent" /\ machine[m].config = None
    BY <1>2 DEF UserAnnotates
  <2>5. Lifecycle!Place(m, c)
    BY <2>1, <2>2, <2>3, <2>4, MapsToPlace
  <2> QED
    BY <2>2, <2>5
<1>3. ASSUME NEW m \in Machines, UserDeletes(m) \/ OthersRelease(m)
      PROVE  Lifecycle!Delete(m) \/ Lifecycle!Remove(m)
  <2>1. CASE machine[m].phase = "live"
             /\ machine' = [machine EXCEPT ![m].phase = "deleting"]
    <3> DEFINE o == [machine[m] EXCEPT !.phase = "deleting"]
    <3>1. o \in Object /\ o.phase = "deleting" /\ o.config = machine[m].config
      BY DEF Object
    <3>2. MachineStep(m, o)
      BY <1>3, <2>1 DEF UserDeletes, OthersRelease, MachineStep
    <3> QED
      BY <2>1, <3>1, <3>2, MapsToDelete
  <2>2. CASE machine[m].phase # "absent" /\ ~machine[m].finalizer
             /\ machine' = [machine EXCEPT ![m] = Absent]
    <3>1. MachineStep(m, Absent)
      BY <1>3, <2>2 DEF UserDeletes, OthersRelease, MachineStep
    <3> QED
      BY <2>2, <3>1, MapsToRemove
  <2> QED
    BY <1>3, <2>1, <2>2 DEF UserDeletes, OthersRelease
<1>4. ASSUME NEW m \in Machines, NEW c \in Clusters, VMGone(m, c)
      PROVE  Lifecycle!ReclaimVM(m, c)
  <2>1. /\ RemoteStep(m) /\ vms'[m] = vms[m] \ {c} /\ disks'[m] = disks[m]
        /\ dying[m] # {} /\ UNCHANGED <<dyingDisks, borrowed>>
    BY <1>4 DEF VMGone, RemoteStep
  <2> QED
    BY <2>1, MapsToReclaimVM
<1>5. ASSUME \/ \E m \in Machines : CacheSync(m) \/ ValidationChanges(m)
             \/ \E c \in Clusters : AdminAddsConfig(c)
             \/ Crash
      PROVE  UNCHANGED Lifecycle!vars
  <2>1. UNCHANGED <<machine, vms, disks, dyingDisks, borrowed>>
    BY <1>5 DEF CacheSync, ValidationChanges, AdminAddsConfig, Crash
  <2> QED
    BY <2>1, MapsToStutter
<1>6. ASSUME NEW m \in Machines, NEW c \in Clusters, DisksGone(m, c)
      PROVE  Lifecycle!Leave(m, c)
  <2>1. UNCHANGED <<machine, vms, disks, borrowed>>
    BY <1>6 DEF DisksGone
  <2> QED
    BY <1>6, <2>1 DEF DisksGone, Lifecycle!Leave
<1> QED
  BY <1>1, <1>2, <1>3, <1>4, <1>5, <1>6 DEF Environment, Lifecycle!Next

\* The calls of a reconcile that read, or write only what the mapping leaves out.
LEMMA ReadingMaps ==
    ASSUME PlacedOnce, NEW m \in Machines,
           \/ FetchAndInitMachine(m) \/ GetOrCreateClientFromMachine(m)
           \/ AddFinalizer(m) \/ EnsureNamespaceExists(m) \/ GetVirtualMachine(m)
           \/ DeleteVirtualMachine(m) \/ VirtualMachineExists(m)
           \/ CleanupNetworkConfiguration(m) \/ ReconcileFails(m)
    PROVE  UNCHANGED Lifecycle!vars
<1>1. CASE AddFinalizer(m)
  <2>1. machine' = [machine EXCEPT ![m] = [machine[m] EXCEPT !.finalizer = TRUE]]
    BY <1>1 DEF AddFinalizer, Update
  <2>2. \A n \in Machines : /\ machine'[n].phase = machine[n].phase
                            /\ machine'[n].config = machine[n].config
    BY <2>1, PlacementFacts DEF Object
  <2> QED
    BY <1>1, <2>2, MapsToStutter DEF AddFinalizer, remoteVars
<1>2. CASE ~AddFinalizer(m)
  <2>1. UNCHANGED <<machine, vms, disks, dyingDisks, borrowed>>
    BY <1>2 DEF FetchAndInitMachine, GetOrCreateClientFromMachine,
       EnsureNamespaceExists, GetVirtualMachine, DeleteVirtualMachine,
       VirtualMachineExists, CleanupNetworkConfiguration, ReconcileFails,
       remoteVars
  <2> QED
    BY <2>1, MapsToStutter
<1> QED
  BY <1>1, <1>2

LEMMA AnnotateMaps ==
    ASSUME PlacedOnce, NEW m \in Machines, AnnotateMachine(m)
    PROVE  \/ UNCHANGED Lifecycle!vars
           \/ \E c \in Clusters : Lifecycle!Place(m, c)
<1> DEFINE c == rec[m].client
           o == [machine[m] EXCEPT !.config = c]
<1>1. c \in Clusters /\ machine[m].config \in {None, c} /\ Held(m) \subseteq {c}
  BY PlacementFacts DEF AnnotateMachine, At, PlacedOnce, Sound, CreationSound,
     TypeInv, ClientChosen, CreationSteps
<1>2. machine[m].phase # "absent" /\ MachineStep(m, o)
  BY PlacementFacts DEF AnnotateMachine, Update, MachineStep, remoteVars
<1>3. o \in Object /\ o.phase = machine[m].phase /\ o.config = c
  BY <1>1, PlacementFacts DEF Object
<1>4. CASE machine[m].config = None
  BY <1>1, <1>2, <1>3, <1>4, MapsToPlace
<1>5. CASE machine[m].config = c
  <2>1. \A n \in Machines : /\ machine'[n].phase = machine[n].phase
                            /\ machine'[n].config = machine[n].config
    BY <1>2, <1>3, <1>5 DEF MachineStep
  <2> QED
    BY <1>2, <2>1, MapsToStutter DEF MachineStep
<1> QED
  BY <1>1, <1>4, <1>5

LEMMA CreationMaps ==
    ASSUME PlacedOnce, NEW m \in Machines,
           CreatePVCsFromDiskSpecs(m) \/ CreateVirtualMachine(m)
    PROVE  Lifecycle!ProvideDisks(m) \/ Lifecycle!Lend(m) \/ Lifecycle!ProvideVM(m)
<1> DEFINE c == rec[m].client
<1>1. /\ c \in Clusters /\ machine[m].config = c /\ c # None
      /\ remoteClient = c
      /\ machine[m].phase # "absent"
  BY PlacementFacts, ConstantsAssumption
     DEF CreatePVCsFromDiskSpecs, CreateVirtualMachine, At,
     Sound, CreationSound, TypeInv, ClientChosen, CreationSteps
<1>2. CASE CreatePVCsFromDiskSpecs(m)
  <2>1. RemoteStep(m) /\ vms' = vms /\ UNCHANGED dyingDisks
    BY <1>2, PlacementFacts DEF CreatePVCsFromDiskSpecs, RemoteStep
  <2>2. CASE c \in dyingDisks[m]
    <3>1. /\ disks'[m] = disks[m]
          /\ borrowed' = [borrowed EXCEPT ![m] = (@ \ {c}) \cup {c}]
      BY <1>2, <2>2, PlacementFacts DEF CreatePVCsFromDiskSpecs
    <3>2. borrowed' = [borrowed EXCEPT ![m] = @ \cup {c}]
      BY <3>1
    <3> QED
      BY <1>1, <2>1, <2>2, <3>1, <3>2, MapsToLend
  <2>3. CASE c \notin dyingDisks[m]
    <3>1. /\ disks'[m] = disks[m] \cup {c}
          /\ borrowed' = [borrowed EXCEPT ![m] = (@ \ {c}) \cup {}]
      BY <1>2, <2>3, PlacementFacts DEF CreatePVCsFromDiskSpecs
    <3>2. borrowed' = [borrowed EXCEPT ![m] = @ \ {c}]
      BY <3>1
    <3> QED
      BY <1>1, <2>1, <2>3, <3>1, <3>2, MapsToProvideDisks
  <2> QED
    BY <2>2, <2>3
<1>3. CASE CreateVirtualMachine(m)
  <2>1. /\ RemoteStep(m) /\ vms'[m] = vms[m] \cup {c} /\ disks'[m] = disks[m]
        /\ UNCHANGED <<dyingDisks, borrowed>>
    BY <1>1, <1>3, PlacementFacts DEF CreateVirtualMachine, RemoteStep
  <2>2. c \in disks[m] \cup borrowed[m]
    BY <1>3, PlacementFacts DEF CreateVirtualMachine, Sound, CreationSound
  <2> QED
    BY <1>1, <2>1, <2>2, MapsToProvideVM
<1> QED
  BY <1>2, <1>3

LEMMA DeletePVCsMaps ==
    ASSUME PlacedOnce, NEW m \in Machines, DeleteAssociatedPVCs(m)
    PROVE  \/ UNCHANGED Lifecycle!vars
           \/ \E c \in Clusters : Lifecycle!ReclaimDisks(m, c)
<1> DEFINE c == rec[m].client
<1>1. RemoteStep(m) /\ UNCHANGED <<machine, vms, borrowed>>
  BY PlacementFacts DEF DeleteAssociatedPVCs, RemoteStep
<1>2. c \in Clusters /\ ~Owned(machine[m])
  BY PlacementFacts DEF DeleteAssociatedPVCs, At, Sound, DeletionSound,
     TypeInv, ClientChosen, DeletionSteps
<1>3. CASE c \notin disks[m]
  <2>1. UNCHANGED <<disks, dyingDisks>>
    BY <1>3, PlacementFacts DEF DeleteAssociatedPVCs
  <2> QED
    BY <1>1, <2>1, MapsToStutter
<1>4. CASE c \in disks[m]
  <2>1. machine[m].phase = "deleting"
    BY <1>2, <1>4, PlacementFacts DEF Owned, Object, Held
  <2>2. disks'[m] = disks[m] \ {c}
    BY <1>4, PlacementFacts DEF DeleteAssociatedPVCs
  <2>3. dyingDisks' \in {dyingDisks, [dyingDisks EXCEPT ![m] = @ \cup {c}]}
    <3>1. dyingDisks' =
             [dyingDisks EXCEPT ![m] = @ \cup (({c} \cap disks[m]) \cap SlowClusters)]
      BY DEF DeleteAssociatedPVCs
    <3>2. ({c} \cap disks[m]) \cap SlowClusters \in {{}, {c}}
      BY <1>4
    <3> QED
      BY <3>1, <3>2, PlacementFacts
  <2> QED
    BY <1>1, <1>2, <1>4, <2>1, <2>2, <2>3, MapsToReclaimDisks
<1> QED
  BY <1>3, <1>4

LEMMA RemoveFinalizerMaps ==
    ASSUME PlacedOnce, NEW m \in Machines, RemoveMachineFinalizer(m)
    PROVE  UNCHANGED Lifecycle!vars \/ Lifecycle!Remove(m)
<1>1. Held(m) = {} /\ UNCHANGED <<vms, disks, dyingDisks, borrowed>>
  BY PlacementFacts DEF RemoveMachineFinalizer, Sound, DeletionSound, remoteVars
<1>2. CASE machine' = machine
  BY <1>1, <1>2, MapsToStutter
<1>3. CASE machine' = [machine EXCEPT ![m] = [machine[m] EXCEPT !.finalizer = FALSE]]
  <2>1. \A n \in Machines : /\ machine'[n].phase = machine[n].phase
                            /\ machine'[n].config = machine[n].config
    BY <1>3, PlacementFacts DEF Object
  <2> QED
    BY <1>1, <2>1, MapsToStutter
<1>4. CASE machine[m].phase # "absent" /\ machine' = [machine EXCEPT ![m] = Absent]
  <2>1. MachineStep(m, Absent)
    BY <1>1, <1>4, PlacementFacts DEF MachineStep
  <2> QED
    BY <1>1, <1>4, <2>1, MapsToRemove
<1> QED
  BY <1>2, <1>3, <1>4 DEF RemoveMachineFinalizer, Update

LEMMA StepMaps ==
    ASSUME PlacedOnce, [Next]_vars
    PROVE  [Lifecycle!Next]_(Lifecycle!vars)
<1>1. CASE UNCHANGED vars
  BY <1>1, MapsToStutter DEF vars, remoteVars
<1>2. ASSUME NEW m \in Machines, Operator(m)
      PROVE  [Lifecycle!Next]_(Lifecycle!vars)
  BY <1>2, ReadingMaps, AnnotateMaps, CreationMaps, DeletePVCsMaps,
     RemoveFinalizerMaps DEF Operator, Creation, Deletion, Lifecycle!Next
<1> QED
  BY <1>1, <1>2, EnvironmentMaps DEF Next

\* A serial operator, with its stale copies, retries and crashes, does to every
\* Machine only what the lifecycle allows: it is placed once, its resources
\* are made there, disks before the VM, none is taken from a live Machine but
\* disks that an earlier life left terminating, and it does not go before them
\* (machine_controller.go:118-163, :324-390, :439-538; storage_manager.go:200-206).
THEOREM SerialImplementsLifecycle ==
    ASSUME Serial, LateOnlyWithSearch PROVE Spec => ImplementsLifecycle
<1>1. Init => Lifecycle!Init
  BY MapsInit
<1>2. PlacementInvariant /\ [Next]_vars => [Lifecycle!Next]_(Lifecycle!vars)
  BY StepMaps DEF PlacedOnce
<1> QED
  BY <1>1, <1>2, SerialPlacementInvariant, PTL
     DEF Spec, ImplementsLifecycle, Lifecycle!Spec
=============================================================================
