------------------------ MODULE MachineParallel_proofs ------------------------
(***************************************************************************)
(* What holds of MachineReconciler however many reconciles run at once.    *)
(* They share VMManager.remoteClient, through which VMs are created, so a  *)
(* VM may end up in a wrong cluster; disks, placements and the VMs of live *)
(* Machines do not depend on it, as long as no placement is found by       *)
(* searching the clusters for a VM.                                        *)
(***************************************************************************)
EXTENDS MachineReconciler_proofs

\* Every Machine is annotated when it is created or there is a default, and
\* none was there before (docs/automatic-config-assignment.md).
NoSearch ==
    /\ Legacy = {}
    /\ ~LateAnnotation
    /\ None \in UserConfigs => DefaultConfig # None

\* The cluster chosen for a copy.
Chosen(o) == IF o.config = None THEN DefaultConfig ELSE o.config

\* The placement of m is that of its copy o, recorded perhaps since.
Agrees(m, o) ==
    \/ machine[m].config = o.config
    \/ o.config = None /\ machine[m].config = DefaultConfig

CopyHolds(m, o) ==
    /\ o.phase # "absent" /\ o.config = None => DefaultConfig # None
    /\ Owned(o) => machine[m].finalizer /\ Agrees(m, o)
    /\ Doomed(o) /\ machine[m].finalizer =>
          machine[m].phase = "deleting" /\ Agrees(m, o)
    /\ Doomed(o) /\ ~machine[m].finalizer => Chosen(o) \notin vms[m]

CopiesHold(m) ==
    /\ CopyHolds(m, machine[m])
    /\ CopyHolds(m, cache[m])
    /\ CopyHolds(m, rec[m].obj)
    /\ At(m, "addFinalizer") /\ cache[m].finalizer => machine[m].finalizer

CreationHolds(m) ==
    /\ rec[m].step \in {"client"} \cup CreationSteps => machine[m].finalizer
    /\ rec[m].step \in CreationSteps => rec[m].client = Chosen(machine[m])
    /\ At(m, "namespace") /\ ~rec[m].annotate => machine[m].config = rec[m].client
    /\ At(m, "getVM") \/ At(m, "createPVCs") \/ At(m, "createVM") =>
          machine[m].config = rec[m].client

DeletionHolds(m) ==
    /\ rec[m].step \in {"deletionClient"} \cup DeletionSteps =>
          ~Owned(machine[m]) /\ ~Owned(cache[m])
    /\ rec[m].step \in DeletionSteps =>
          IF machine[m].finalizer THEN rec[m].client = Chosen(machine[m])
                                  ELSE rec[m].client \notin vms[m]
    /\ rec[m].step \in DeletionSteps \ {"deletePVCs"} => disks[m] = {}
    /\ At(m, "cleanupNC") \/ At(m, "removeFinalizer") => rec[m].client \notin vms[m]

DisksHold(m) ==
    \A c \in disks[m] : machine[m].finalizer /\ machine[m].config = c

\* What any step preserves for m, whoever else is reconciled.
Holds(m) ==
    /\ WellFormed(m)
    /\ CopiesHold(m)
    /\ CreationHolds(m)
    /\ DeletionHolds(m)
    /\ DisksHold(m)

ParallelInvariant == TypeInv /\ \A m \in Machines : Holds(m)

-----------------------------------------------------------------------------
(* The environment.                                                        *)

LEMMA FrameHolds ==
    ASSUME NEW n \in Machines, Holds(n), Untouched(n) PROVE Holds(n)'
<1> USE DEF Holds, Untouched, At
<1>1. WellFormed(n)'
  BY DEF WellFormed, Owned, Doomed
<1>2. CopiesHold(n)'
  BY DEF CopiesHold, CopyHolds, Agrees, Chosen, Owned, Doomed
<1>3. CreationHolds(n)' /\ DeletionHolds(n)' /\ DisksHold(n)'
  BY DEF CreationHolds, DeletionHolds, DisksHold, Chosen, Owned
<1> QED
  BY <1>1, <1>2, <1>3

LEMMA OfNoConcernHolds ==
    ASSUME ParallelInvariant, NEW m \in Machines,
           ValidationChanges(m) \/ \E c \in Clusters : DisksGone(m, c)
    PROVE  Holds(m)'
<1>1. Untouched(m)
  BY DEF ValidationChanges, DisksGone, Untouched, remoteVars, otherVars
<1> QED
  BY <1>1, FrameHolds DEF ParallelInvariant

LEMMA InitHolds == ASSUME Init, NoSearch PROVE ParallelInvariant
<1>1. ASSUME NEW m \in Machines
      PROVE  /\ machine[m] = Absent /\ cache[m] = Absent
             /\ rec[m] = Idle /\ vms[m] = {} /\ disks[m] = {}
  BY <1>1 DEF Init, NoSearch
<1>2. ASSUME NEW m \in Machines PROVE Holds(m)
  <2> USE DEF At
  <2>1. WellFormed(m) /\ CreationHolds(m) /\ DeletionHolds(m) /\ DisksHold(m)
    <3>1. rec[m] = Idle /\ machine[m] = Absent /\ disks[m] = {}
      BY <1>1
    <3>2. rec[m].step = "idle"
      BY <3>1 DEF Idle
    <3> QED
      BY <3>1, <3>2 DEF WellFormed, CreationHolds, DeletionHolds, DisksHold,
         CreationSteps, DeletionSteps
  <2>2. CopiesHold(m)
    BY <1>1 DEF CopiesHold, CopyHolds, Owned, Doomed, At, Idle, Absent
  <2> QED
    BY <2>1, <2>2 DEF Holds
<1> QED
  BY <1>2, TypeInit DEF ParallelInvariant

LEMMA UserCreatesHolds ==
    ASSUME ParallelInvariant, NoSearch, NEW m \in Machines, UserCreates(m)
    PROVE  Holds(m)'
<1> USE DEF ParallelInvariant, Holds, At
<1>1. PICK c \in UserConfigs : machine' = [machine EXCEPT ![m] =
            [phase |-> "live", finalizer |-> FALSE, config |-> c]]
  BY DEF UserCreates
<1>2. /\ machine'[m] = [phase |-> "live", finalizer |-> FALSE, config |-> c]
      /\ ~machine[m].finalizer
      /\ UNCHANGED <<cache, vms, disks, rec>>
  <2>1. machine'[m] = [phase |-> "live", finalizer |-> FALSE, config |-> c]
    BY <1>1 DEF TypeInv, TypeOK
  <2>2. machine[m] = Absent
    BY DEF UserCreates, WellFormed
  <2> QED
    BY <2>1, <2>2 DEF UserCreates, Absent, remoteVars, otherVars
<1>3. WellFormed(m)'
  BY <1>2 DEF WellFormed, Owned, Doomed
<1>4. CopiesHold(m)'
  BY <1>2 DEF CopiesHold, CopyHolds, Agrees, Chosen, Owned, Doomed, NoSearch
<1>5. CreationHolds(m)' /\ DeletionHolds(m)' /\ DisksHold(m)'
  BY <1>2 DEF CreationHolds, DeletionHolds, DisksHold, Owned, CreationSteps
<1> QED
  BY <1>3, <1>4, <1>5

LEMMA UserDeletesHolds ==
    ASSUME ParallelInvariant, NEW m \in Machines, UserDeletes(m) \/ OthersRelease(m)
    PROVE  Holds(m)'
<1> USE DEF ParallelInvariant, Holds, At
<1>1. /\ \/ /\ machine'[m].phase = "deleting"
            /\ machine'[m].finalizer <=> machine[m].finalizer
            /\ machine'[m].config = machine[m].config
            /\ machine[m].phase # "absent"
         \/ machine'[m] = Absent /\ ~machine[m].finalizer
      /\ UNCHANGED <<cache, vms, disks, rec>>
  <2>1. machine \in [Machines -> Object]
    BY DEF TypeInv, TypeOK
  <2>2. UNCHANGED <<cache, vms, disks, rec>>
    BY DEF UserDeletes, OthersRelease, remoteVars
  <2>3. CASE UserDeletes(m)
    BY <2>1, <2>2, <2>3 DEF UserDeletes, Object
  <2>4. CASE OthersRelease(m)
    BY <2>1, <2>2, <2>4 DEF OthersRelease
  <2> QED
    BY <2>3, <2>4
<1>2. WellFormed(m)'
  BY <1>1 DEF WellFormed, Owned, Doomed
<1>3. CopiesHold(m)'
  BY <1>1 DEF CopiesHold, CopyHolds, Agrees, Chosen, Owned, Doomed, Absent
<1>4. CreationHolds(m)' /\ DeletionHolds(m)' /\ DisksHold(m)'
  BY <1>1 DEF CreationHolds, DeletionHolds, DisksHold, Chosen, Owned, Absent,
     CreationSteps
<1> QED
  BY <1>2, <1>3, <1>4

LEMMA CacheSyncHolds ==
    ASSUME ParallelInvariant, NEW m \in Machines, CacheSync(m)
    PROVE  Holds(m)'
<1> USE DEF ParallelInvariant, Holds, At
<1>1. cache'[m] = machine[m] /\ UNCHANGED <<machine, vms, disks, rec>>
  BY DEF CacheSync, TypeInv, TypeOK, remoteVars, otherVars
<1>2. WellFormed(m)'
  BY <1>1 DEF WellFormed, Owned, Doomed
<1>3. CopiesHold(m)'
  BY <1>1 DEF CopiesHold, CopyHolds, Agrees, Chosen, Owned, Doomed
<1>4. CreationHolds(m)' /\ DeletionHolds(m)' /\ DisksHold(m)'
  BY <1>1 DEF CreationHolds, DeletionHolds, DisksHold, Chosen, Owned
<1> QED
  BY <1>2, <1>3, <1>4

\* A VM that goes, or a call to DeleteVirtualMachine, takes nothing else along.
LEMMA VMGoneHolds ==
    ASSUME ParallelInvariant, NEW m \in Machines, NEW c \in Clusters, VMGone(m, c)
    PROVE  Holds(m)'
<1> USE DEF ParallelInvariant, Holds, At
<1>1. vms'[m] = vms[m] \ {c} /\ UNCHANGED <<machine, cache, disks, rec>>
  BY DEF VMGone, TypeInv, TypeOK
<1>2. WellFormed(m)'
  BY <1>1 DEF WellFormed, Owned, Doomed
<1>3. CopiesHold(m)'
  BY <1>1 DEF CopiesHold, CopyHolds, Agrees, Chosen, Owned, Doomed
<1>4. CreationHolds(m)' /\ DeletionHolds(m)' /\ DisksHold(m)'
  BY <1>1 DEF CreationHolds, DeletionHolds, DisksHold, Chosen, Owned
<1> QED
  BY <1>2, <1>3, <1>4

-----------------------------------------------------------------------------
(* The reconcile.                                                          *)

\* A reconcile that ends leaves nothing to rely on.
LEMMA ReturnHolds ==
    ASSUME ParallelInvariant, NEW m \in Machines, Return(m) \/ rec'[m] = Idle,
           vms'[m] = vms[m], disks'[m] = disks[m], machine'[m] = machine[m],
           cache'[m] \in {cache[m], machine[m]}
    PROVE  Holds(m)'
<1> USE DEF ParallelInvariant, Holds, At
<1>1. rec'[m] = Idle
  BY DEF Return, TypeInv, TypeOK
<1>2. WellFormed(m)'
  BY <1>1 DEF WellFormed, Owned, Doomed, Idle, CreationSteps, DeletionSteps
<1>3. CopiesHold(m)'
  BY <1>1 DEF CopiesHold, CopyHolds, Agrees, Chosen, Owned, Doomed, Idle, Absent
<1>4. CreationHolds(m)' /\ DeletionHolds(m)' /\ DisksHold(m)'
  BY <1>1 DEF CreationHolds, DeletionHolds, DisksHold, Idle, CreationSteps,
     DeletionSteps
<1> QED
  BY <1>2, <1>3, <1>4

LEMMA FetchHolds ==
    ASSUME ParallelInvariant, NEW m \in Machines, FetchAndInitMachine(m)
    PROVE  Holds(m)'
<1> USE DEF ParallelInvariant, Holds, At
<1>1. /\ rec'[m] = [Idle EXCEPT !.step = Branch(cache[m]), !.obj = cache[m]]
      /\ Branch(cache[m]) # "idle"
      /\ UNCHANGED <<machine, cache, vms, disks>>
  BY DEF FetchAndInitMachine, TypeInv, TypeOK, remoteVars, otherVars
<1>2. rec'[m].obj = cache[m] /\ rec'[m].step = Branch(cache[m])
  BY <1>1 DEF Idle
<1>3. \/ rec'[m].step = "client" /\ Owned(cache[m])
      \/ /\ rec'[m].step = "addFinalizer"
         /\ cache[m].phase = "live" /\ ~cache[m].finalizer
      \/ rec'[m].step = "deletionClient" /\ Doomed(cache[m])
  BY <1>1, <1>2 DEF Branch, Owned, Doomed
<1>4. WellFormed(m)'
  BY <1>1, <1>2, <1>3 DEF WellFormed, Owned, Doomed, CreationSteps, DeletionSteps
<1>5. CopiesHold(m)'
  BY <1>1, <1>2, <1>3 DEF CopiesHold, CopyHolds, Agrees, Chosen, Owned, Doomed
<1>6. CreationHolds(m)' /\ DeletionHolds(m)' /\ DisksHold(m)'
  BY <1>1, <1>2, <1>3 DEF CreationHolds, DeletionHolds, DisksHold, Owned, Doomed,
     CopiesHold, CopyHolds, CreationSteps, DeletionSteps
<1> QED
  BY <1>4, <1>5, <1>6

\* Without a search the choice is the same whenever it is made.
LEMMA ChoosesOne ==
    ASSUME NEW m, NEW o, NEW c \in Clusters, Chooses(m, o, c),
           o.config = None => DefaultConfig # None
    PROVE  c = Chosen(o)
BY ConstantsAssumption DEF Chooses, Chosen

LEMMA ClientHolds ==
    ASSUME ParallelInvariant, NEW m \in Machines, GetOrCreateClientFromMachine(m)
    PROVE  Holds(m)'
<1> USE DEF ParallelInvariant, Holds, At
<1>1. PICK c \in Clusters :
         /\ Chooses(m, rec[m].obj, c)
         /\ rec' = [rec EXCEPT ![m] =
               IF At(m, "client")
               THEN [step |-> "namespace", obj |-> Absent, client |-> c,
                     annotate |-> rec[m].obj.config = None]
               ELSE [Idle EXCEPT !.step = "deletePVCs", !.client = c]]
  BY DEF GetOrCreateClientFromMachine
<1>2. /\ UNCHANGED <<machine, cache, vms, disks>>
      /\ rec[m].step \in {"client", "deletionClient"}
  BY DEF GetOrCreateClientFromMachine, remoteVars, otherVars
<1>3. \/ /\ Owned(rec[m].obj)
         /\ rec[m].step = "client" /\ rec'[m].step = "namespace"
         /\ rec'[m].annotate <=> rec[m].obj.config = None
      \/ /\ Doomed(rec[m].obj)
         /\ rec[m].step = "deletionClient" /\ rec'[m].step = "deletePVCs"
  BY <1>1, <1>2 DEF TypeInv, TypeOK, Idle, WellFormed
<1>4. rec'[m].obj = Absent /\ rec'[m].client = c
  BY <1>1, <1>2 DEF TypeInv, TypeOK, Idle
<1>5. c = Chosen(rec[m].obj) /\ c # None
  <2>1. rec[m].obj.config = None => DefaultConfig # None
    BY <1>3 DEF CopiesHold, CopyHolds, Owned, Doomed
  <2> QED
    BY <1>1, <2>1, ChoosesOne, ConstantsAssumption
<1>6. WellFormed(m)'
  BY <1>2, <1>3, <1>4 DEF WellFormed, CreationSteps, DeletionSteps
<1>7. CopiesHold(m)'
  BY <1>2, <1>3, <1>4 DEF CopiesHold, CopyHolds, Agrees, Chosen, Owned, Doomed, Absent
<1>8. CreationHolds(m)'
  BY <1>2, <1>3, <1>4, <1>5 DEF CreationHolds, CopiesHold, CopyHolds, Agrees,
     Chosen, CreationSteps
<1>9. DeletionHolds(m)' /\ DisksHold(m)'
  BY <1>2, <1>3, <1>4, <1>5 DEF DeletionHolds, DisksHold, CopiesHold, CopyHolds,
     Agrees, Chosen, DeletionSteps, Owned
<1> QED
  BY <1>6, <1>7, <1>8, <1>9

LEMMA AddFinalizerHolds ==
    ASSUME ParallelInvariant, NEW m \in Machines, AddFinalizer(m)
    PROVE  Holds(m)'
<1> USE DEF ParallelInvariant, Holds, At
<1>1. /\ rec[m].step = "addFinalizer" /\ rec'[m] = Idle
      /\ machine[m] = rec[m].obj
      /\ machine' = [machine EXCEPT ![m] = [machine[m] EXCEPT !.finalizer = TRUE]]
      /\ UNCHANGED <<cache, vms, disks>>
  BY DEF AddFinalizer, Update, Return, TypeInv, TypeOK, remoteVars, otherVars
<1>2. /\ machine'[m].phase = "live" /\ machine'[m].finalizer
      /\ machine'[m].config = machine[m].config
      /\ ~machine[m].finalizer /\ ~cache[m].finalizer
  BY <1>1 DEF WellFormed, CopiesHold, TypeInv, TypeOK, Object
<1>3. WellFormed(m)'
  BY <1>1, <1>2 DEF WellFormed, Idle, CreationSteps, DeletionSteps
<1>4. CopiesHold(m)'
  BY <1>1, <1>2 DEF CopiesHold, CopyHolds, Agrees, Chosen, Owned, Doomed, WellFormed,
     Idle, Absent
<1>5. CreationHolds(m)' /\ DeletionHolds(m)' /\ DisksHold(m)'
  BY <1>1, <1>2 DEF CreationHolds, DeletionHolds, DisksHold, Idle, CreationSteps,
     DeletionSteps
<1> QED
  BY <1>3, <1>4, <1>5

\* A call that goes on with the creation changes nothing the copies speak of,
\* except that it may create the disks or record the placement.
LEMMA CreationMoveHolds ==
    ASSUME ParallelInvariant, NEW m \in Machines,
           EnsureNamespaceExists(m) \/ GetVirtualMachine(m) \/ CreatePVCsFromDiskSpecs(m)
    PROVE  Holds(m)'
<1> USE DEF ParallelInvariant, Holds, At
<1>1. /\ UNCHANGED <<machine, cache, vms>>
      /\ disks'[m] = disks[m]
            \/ (disks'[m] = disks[m] \cup {rec[m].client} /\ rec[m].step = "createPVCs")
      /\ rec[m].step \in {"namespace", "getVM", "createPVCs"}
  <2>1. CASE CreatePVCsFromDiskSpecs(m)
    <3>1. disks'[m] =
             disks[m] \cup ({rec[m].client} \ ({rec[m].client} \cap dyingDisks[m]))
      BY <2>1 DEF CreatePVCsFromDiskSpecs, TypeInv, TypeOK
    <3>2. rec[m].client \in dyingDisks[m] => disks'[m] = disks[m]
      BY <3>1
    <3>3. rec[m].client \notin dyingDisks[m] =>
             disks'[m] = disks[m] \cup {rec[m].client}
      BY <3>1
    <3> QED
      BY <2>1, <3>2, <3>3 DEF CreatePVCsFromDiskSpecs, otherVars
  <2>2. CASE EnsureNamespaceExists(m) \/ GetVirtualMachine(m)
    BY <2>2 DEF EnsureNamespaceExists, GetVirtualMachine, remoteVars, otherVars
  <2> QED
    BY <2>1, <2>2
<1>2. CASE rec'[m] = Idle /\ disks'[m] = disks[m]
  BY <1>1, <1>2, ReturnHolds
<1>3. CASE \E step \in {"annotation", "getVM", "createPVCs", "createVM"} :
             /\ rec'[m] = [rec[m] EXCEPT !.step = step]
             /\ step = "getVM" => ~rec[m].annotate /\ rec[m].step = "namespace"
             /\ rec[m].step = "namespace" => step \in {"annotation", "getVM"}
  <2>1. PICK step \in {"annotation", "getVM", "createPVCs", "createVM"} :
             /\ rec'[m] = [rec[m] EXCEPT !.step = step]
             /\ step = "getVM" => ~rec[m].annotate /\ rec[m].step = "namespace"
             /\ rec[m].step = "namespace" => step \in {"annotation", "getVM"}
    BY <1>3
  <2>2. /\ rec'[m].step = step /\ rec'[m].obj = rec[m].obj
        /\ rec'[m].client = rec[m].client /\ (rec'[m].annotate <=> rec[m].annotate)
    BY <2>1 DEF TypeInv, TypeOK, Reconcile
  <2>3. WellFormed(m)'
    BY <1>1, <2>2 DEF WellFormed, CreationSteps, DeletionSteps
  <2>4. CopiesHold(m)'
    BY <1>1, <2>2 DEF CopiesHold, CopyHolds, Agrees, Chosen, Owned, Doomed
  <2>5. CreationHolds(m)'
    BY <1>1, <2>1, <2>2 DEF CreationHolds, Chosen, CreationSteps
  <2>6. DeletionHolds(m)' /\ DisksHold(m)'
    BY <1>1, <2>2 DEF DeletionHolds, DisksHold, CreationHolds, CreationSteps, DeletionSteps
  <2> QED
    BY <2>3, <2>4, <2>5, <2>6
<1> QED
  BY <1>1, <1>2, <1>3 DEF EnsureNamespaceExists, GetVirtualMachine,
     CreatePVCsFromDiskSpecs, GoTo, Return, TypeInv, TypeOK

LEMMA AnnotateHolds ==
    ASSUME ParallelInvariant, NEW m \in Machines, AnnotateMachine(m)
    PROVE  Holds(m)'
<1> USE DEF ParallelInvariant, Holds, At
<1>1. /\ rec[m].step = "annotation"
      /\ rec'[m] = [rec[m] EXCEPT !.step = "getVM"]
      /\ machine[m] = cache[m] /\ machine[m].phase # "absent"
      /\ machine' = [machine EXCEPT ![m] = [machine[m] EXCEPT !.config = rec[m].client]]
      /\ UNCHANGED <<cache, vms, disks>>
  BY DEF AnnotateMachine, Update, GoTo, TypeInv, TypeOK, remoteVars, otherVars
<1>2. /\ rec'[m].step = "getVM" /\ rec'[m].obj = rec[m].obj
      /\ rec'[m].client = rec[m].client
      /\ rec[m].obj = Absent
  BY <1>1 DEF TypeInv, TypeOK, Reconcile, WellFormed, CreationSteps
<1>3. /\ machine'[m].phase = machine[m].phase /\ machine'[m].finalizer <=> machine[m].finalizer
      /\ machine'[m].config = rec[m].client
      /\ machine[m].finalizer
      /\ rec[m].client # None
      /\ machine[m].config = rec[m].client
            \/ (machine[m].config = None /\ rec[m].client = DefaultConfig)
      /\ \A c \in disks[m] : machine[m].config = c /\ c # None
  BY <1>1, ConstantsAssumption DEF CreationHolds, DisksHold, Chosen, CreationSteps,
     TypeInv, TypeOK, Object, ClientChosen
<1>4. WellFormed(m)'
  BY <1>1, <1>2, <1>3 DEF WellFormed, CreationSteps, DeletionSteps
<1>5. CopiesHold(m)'
  BY <1>1, <1>2, <1>3 DEF CopiesHold, CopyHolds, Agrees, Chosen, Owned, Doomed, Absent
<1>6. CreationHolds(m)' /\ DeletionHolds(m)' /\ DisksHold(m)'
  BY <1>1, <1>2, <1>3 DEF CreationHolds, DeletionHolds, DisksHold, Chosen,
     CreationSteps, DeletionSteps
<1> QED
  BY <1>4, <1>5, <1>6

\* The VM may be made anywhere; the Machine that waits for it has its finalizer.
LEMMA CreateVMHolds ==
    ASSUME ParallelInvariant, NEW m \in Machines, CreateVirtualMachine(m)
    PROVE  Holds(m)'
<1> USE DEF ParallelInvariant, Holds, At
<1>1. /\ rec[m].step = "createVM" /\ rec'[m] = Idle
      /\ UNCHANGED <<machine, cache, disks>>
  BY DEF CreateVirtualMachine, Return, TypeInv, TypeOK
<1>2. machine[m].finalizer
  BY <1>1 DEF CreationHolds, CreationSteps
<1>3. WellFormed(m)'
  BY <1>1 DEF WellFormed, Idle, CreationSteps, DeletionSteps
<1>4. CopiesHold(m)'
  BY <1>1, <1>2 DEF CopiesHold, CopyHolds, Agrees, Owned, Doomed, Idle, Absent
<1>5. CreationHolds(m)' /\ DeletionHolds(m)' /\ DisksHold(m)'
  BY <1>1 DEF CreationHolds, DeletionHolds, DisksHold, Idle, CreationSteps,
     DeletionSteps
<1> QED
  BY <1>3, <1>4, <1>5

LEMMA DeletionMoveHolds ==
    ASSUME ParallelInvariant, NEW m \in Machines,
           \/ DeleteAssociatedPVCs(m) \/ DeleteVirtualMachine(m)
           \/ VirtualMachineExists(m) \/ CleanupNetworkConfiguration(m)
    PROVE  Holds(m)'
<1> USE DEF ParallelInvariant, Holds, At
<1>1. /\ UNCHANGED <<machine, cache, vms>>
      /\ rec[m].step \in {"deletePVCs", "deleteVM", "checkVM", "cleanupNC"}
      /\ IF rec[m].step = "deletePVCs" THEN disks'[m] = disks[m] \ {rec[m].client}
                                       ELSE disks'[m] = disks[m]
  BY DEF DeleteAssociatedPVCs, DeleteVirtualMachine, VirtualMachineExists,
     CleanupNetworkConfiguration, TypeInv, TypeOK, remoteVars, otherVars
<1>2. CASE rec'[m] = Idle /\ disks'[m] = disks[m]
  BY <1>1, <1>2, ReturnHolds
<1>3. CASE \E step \in {"deleteVM", "checkVM", "cleanupNC", "removeFinalizer"} :
             /\ rec'[m] = [rec[m] EXCEPT !.step = step]
             /\ step \in {"cleanupNC", "removeFinalizer"} => rec[m].client \notin vms[m]
  <2>1. PICK step \in {"deleteVM", "checkVM", "cleanupNC", "removeFinalizer"} :
             /\ rec'[m] = [rec[m] EXCEPT !.step = step]
             /\ step \in {"cleanupNC", "removeFinalizer"} => rec[m].client \notin vms[m]
    BY <1>3
  <2>2. /\ rec'[m].step = step /\ rec'[m].obj = rec[m].obj
        /\ rec'[m].client = rec[m].client
    BY <2>1 DEF TypeInv, TypeOK, Reconcile
  <2>3. disks'[m] = {}
    BY <1>1, ConstantsAssumption DEF DeletionHolds, DisksHold, DeletionSteps, Chosen,
       TypeInv, TypeOK
  <2>4. WellFormed(m)'
    BY <1>1, <2>2 DEF WellFormed, CreationSteps, DeletionSteps
  <2>5. CopiesHold(m)'
    BY <1>1, <2>2 DEF CopiesHold, CopyHolds, Agrees, Chosen, Owned, Doomed
  <2>6. CreationHolds(m)' /\ DeletionHolds(m)' /\ DisksHold(m)'
    BY <1>1, <2>1, <2>2, <2>3 DEF CreationHolds, DeletionHolds, DisksHold, Chosen,
       Owned, CreationSteps, DeletionSteps
  <2> QED
    BY <2>4, <2>5, <2>6
<1> QED
  BY <1>1, <1>2, <1>3 DEF DeleteAssociatedPVCs, DeleteVirtualMachine,
     VirtualMachineExists, CleanupNetworkConfiguration, DeletionHolds, GoTo, Return,
     TypeInv, TypeOK

LEMMA RemoveFinalizerHolds ==
    ASSUME ParallelInvariant, NEW m \in Machines, RemoveMachineFinalizer(m)
    PROVE  Holds(m)'
<1> USE DEF ParallelInvariant, Holds, At
<1>1. /\ rec[m].step = "removeFinalizer" /\ rec'[m] = Idle
      /\ UNCHANGED <<cache, vms, disks>>
  BY DEF RemoveMachineFinalizer, Return, TypeInv, TypeOK, remoteVars, otherVars
<1>2. CASE machine' = machine
  BY <1>1, <1>2, ReturnHolds
<1>3. CASE /\ machine[m] = cache[m] /\ machine[m].phase # "absent"
           /\ \/ machine' = [machine EXCEPT ![m] = [machine[m] EXCEPT !.finalizer = FALSE]]
              \/ machine' = [machine EXCEPT ![m] = Absent]
  <2>1. /\ ~machine'[m].finalizer
        /\ \/ machine'[m] = Absent
           \/ /\ machine'[m].phase = machine[m].phase
              /\ machine'[m].config = machine[m].config
    <3>1. CASE machine' = [machine EXCEPT ![m] = Absent]
      BY <3>1 DEF TypeInv, TypeOK, Absent
    <3>2. CASE machine' = [machine EXCEPT ![m] = [machine[m] EXCEPT !.finalizer = FALSE]]
      BY <3>2 DEF TypeInv, TypeOK, Object
    <3> QED
      BY <1>3, <3>1, <3>2
  <2>2. /\ disks[m] = {} /\ rec[m].client \notin vms[m]
        /\ ~Owned(cache[m])
        /\ cache[m].finalizer => rec[m].client = Chosen(cache[m])
    BY <1>1, <1>3 DEF DeletionHolds, DeletionSteps
  <2>3. WellFormed(m)'
    BY <1>1, <1>3, <2>1 DEF WellFormed, Idle, CreationSteps, DeletionSteps
  <2>4. CopiesHold(m)'
    BY <1>1, <2>1, <2>2 DEF CopiesHold, CopyHolds, Agrees, Chosen, Owned, Doomed,
       Idle, Absent
  <2>5. CreationHolds(m)' /\ DeletionHolds(m)' /\ DisksHold(m)'
    BY <1>1, <2>2 DEF CreationHolds, DeletionHolds, DisksHold, Idle, CreationSteps,
       DeletionSteps
  <2> QED
    BY <2>3, <2>4, <2>5
<1> QED
  BY <1>2, <1>3 DEF RemoveMachineFinalizer, Update

-----------------------------------------------------------------------------
(* Every step.                                                             *)

LEMMA ParallelStep ==
    ASSUME ParallelInvariant, NoSearch, [Next]_vars PROVE ParallelInvariant'
<1>1. TypeInv'
  BY TypeStep DEF ParallelInvariant
<1>2. ASSUME NEW n \in Machines PROVE Holds(n)'
  <2>1. ASSUME NEW m \in Machines,
               \/ UserCreates(m) \/ UserAnnotates(m) \/ UserDeletes(m)
               \/ OthersRelease(m) \/ CacheSync(m) \/ ValidationChanges(m)
               \/ \E c \in Clusters : VMGone(m, c) \/ DisksGone(m, c)
               \/ Operator(m)
        PROVE  Holds(n)'
    <3>1. CASE n # m
      BY <2>1, <3>1, OthersUntouched, FrameHolds DEF ParallelInvariant
    <3>2. CASE n = m /\ Operator(m)
      <4>1. ReconcileFails(m) => Holds(m)'
        BY ReturnHolds DEF ReconcileFails, remoteVars, otherVars
      <4> QED
        BY <3>2, <4>1, FetchHolds, ClientHolds, AddFinalizerHolds,
           CreationMoveHolds, AnnotateHolds, CreateVMHolds, DeletionMoveHolds,
           RemoveFinalizerHolds DEF Operator, Creation, Deletion
    <3>3. CASE n = m /\ ~Operator(m)
      BY <2>1, <3>3, UserCreatesHolds, UserDeletesHolds, CacheSyncHolds,
         VMGoneHolds, OfNoConcernHolds DEF UserAnnotates, NoSearch
    <3> QED
      BY <3>1, <3>2, <3>3
  <2>2. CASE Crash
    BY <2>2, ReturnHolds DEF Crash, ParallelInvariant, TypeInv, TypeOK, remoteVars, otherVars
  <2>3. CASE (\E c \in Clusters : AdminAddsConfig(c)) \/ UNCHANGED vars
    <3>1. Untouched(n)
      BY <2>3 DEF AdminAddsConfig, vars, remoteVars, otherVars, Untouched
    <3> QED
      BY <3>1, FrameHolds DEF ParallelInvariant
  <2> QED
    BY <2>1, <2>2, <2>3 DEF Next, Environment
<1> QED
  BY <1>1, <1>2 DEF ParallelInvariant

LEMMA ParallelAlways == ASSUME NoSearch PROVE Spec => []ParallelInvariant
<1>1. Init => ParallelInvariant
  BY InitHolds
<1>2. ParallelInvariant /\ [Next]_vars => ParallelInvariant'
  BY ParallelStep
<1> QED
  BY <1>1, <1>2, PTL DEF Spec

-----------------------------------------------------------------------------
(* What follows from either invariant.                                     *)

\* The two cases in which the operator's copies can be relied on: it never
\* searches, or it has one worker.
Reliable == NoSearch \/ Serial

AnyInvariant == ParallelInvariant \/ PlacementInvariant

LEMMA ReliableAlways == ASSUME Reliable PROVE Spec => []AnyInvariant
<1>1. CASE NoSearch
  <2>1. ParallelInvariant => AnyInvariant
    BY DEF AnyInvariant
  <2> QED
    BY <1>1, <2>1, ParallelAlways, PTL
<1>2. CASE Serial
  <2>1. PlacementInvariant => AnyInvariant
    BY DEF AnyInvariant
  <2> QED
    BY <1>2, <2>1, SerialPlacementInvariant, PTL
<1> QED
  BY <1>1, <1>2 DEF Reliable

\* The PVCs of a Machine whose annotation the operator has not overwritten are
\* in the cluster it names, and it keeps its finalizer while it has any, however
\* many reconciles run at once: they go through the reconcile's own client
\* (machine_controller.go:357, :505).
THEOREM DisksPlaced == ASSUME Reliable PROVE Spec => []DisksFollowPlacement
<1>1. ParallelInvariant => DisksFollowPlacement
  BY DEF ParallelInvariant, Holds, DisksHold, DisksFollowPlacement
<1>2. PlacementInvariant => DisksFollowPlacement
  BY DEF PlacementInvariant, Sound, Follows, Held, DisksFollowPlacement
<1> QED
  BY <1>1, <1>2, ReliableAlways, PTL DEF AnyInvariant

\* What both say of a reconcile that is about to delete a VM.
LEMMA AnyFacts ==
    ASSUME AnyInvariant, NEW m \in Machines \ overwritten,
           At(m, "deleteVM"), rec[m].client \in vms[m]
    PROVE  machine[m].phase = "deleting"
<1>1. CASE ParallelInvariant
  <2> USE <1>1 DEF ParallelInvariant, Holds, At
  <2>1. TypeInv /\ (machine[m].phase = "absent" => machine[m] = Absent)
    BY DEF WellFormed
  <2>2. machine[m].finalizer /\ ~Owned(machine[m])
    BY DEF DeletionHolds, DeletionSteps
  <2> QED
    BY <2>1, <2>2 DEF Owned, Absent, TypeInv, TypeOK, Object
<1>2. CASE PlacementInvariant
  <2> USE <1>2 DEF PlacementInvariant, Sound, At
  <2>1. TypeInv /\ (machine[m].phase = "absent" => machine[m] = Absent)
    BY DEF WellFormed
  <2>2. machine[m].finalizer /\ ~Owned(machine[m])
    BY DEF DeletionSound, DeletionSteps, Follows, Held
  <2> QED
    BY <2>1, <2>2 DEF Owned, Absent, TypeInv, TypeOK, Object
<1> QED
  BY <1>1, <1>2 DEF AnyInvariant

\* A step starts the deletion of a VM of m only in DeleteVirtualMachine(m).
LEMMA DyingStep ==
    ASSUME AnyInvariant, Next, NEW m \in Machines \ overwritten,
           dying'[m] \ dying[m] # {}
    PROVE  machine[m].phase = "deleting"
<1>0. TypeInv
  BY DEF AnyInvariant, ParallelInvariant, PlacementInvariant
<1>1. ASSUME NEW n \in Machines, DeleteVirtualMachine(n)
      PROVE  machine[m].phase = "deleting"
  <2>1. n = m /\ rec[m].client \in vms[m]
    BY <1>0, <1>1 DEF DeleteVirtualMachine, TypeInv, TypeOK
  <2> QED
    BY <1>1, <2>1, AnyFacts DEF DeleteVirtualMachine
<1>2. ASSUME NEW n \in Machines, NEW c \in Clusters, VMGone(n, c) PROVE FALSE
  BY <1>0, <1>2 DEF VMGone, TypeInv, TypeOK
<1>3. CASE UNCHANGED dying
  BY <1>3
<1>4. UNCHANGED dying \/ (\E n \in Machines : DeleteVirtualMachine(n))
         \/ \E n \in Machines, c \in Clusters : VMGone(n, c)
  BY DEF Next, Environment, UserCreates, UserAnnotates, UserDeletes,
     OthersRelease, CacheSync, ValidationChanges, DisksGone, AdminAddsConfig,
     Crash, Operator, Creation, Deletion, FetchAndInitMachine,
     GetOrCreateClientFromMachine, AddFinalizer,
     EnsureNamespaceExists, AnnotateMachine, GetVirtualMachine,
     CreatePVCsFromDiskSpecs, CreateVirtualMachine, DeleteAssociatedPVCs,
     VirtualMachineExists, CleanupNetworkConfiguration, RemoveMachineFinalizer,
     ReconcileFails, remoteVars
<1> QED
  BY <1>1, <1>2, <1>3, <1>4

\* A deletion that runs on a stale copy of a Machine that was created again
\* never reaches the VM of the new one, however many reconciles run at once
\* (machine_controller.go:447-470, :512).
THEOREM LiveVMsKept == ASSUME Reliable PROVE Spec => LiveMachineKeepsItsVM
<1>1. AnyInvariant /\ [Next]_vars =>
         [\A m \in Machines \ overwritten :
             dying'[m] \ dying[m] # {} => machine[m].phase = "deleting"]_vars
  BY DyingStep
<1> QED
  BY <1>1, ReliableAlways, PTL DEF Spec, LiveMachineKeepsItsVM
=============================================================================
