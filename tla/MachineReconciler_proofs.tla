----------------------- MODULE MachineReconciler_proofs -----------------------
(***************************************************************************)
(* Theorems about MachineReconciler, for every value of its constants:     *)
(* type correctness and, when reconciles run one at a time, that whatever  *)
(* exists for a Machine is where its annotation says.                      *)
(***************************************************************************)
EXTENDS MachineReconciler, FiniteSetTheorems, TLAPS

-----------------------------------------------------------------------------
(* Type correctness.                                                       *)

\* TypeOK alone is not inductive: a call goes to the client chosen before it.
ClientChosen ==
    \A m \in Machines :
        rec[m].step \in (CreationSteps \cup DeletionSteps) =>
            rec[m].client \in Clusters

TypeInv == TypeOK /\ ClientChosen

LEMMA ObjectTypes ==
    /\ Absent \in Object
    /\ Idle \in Reconcile
    /\ \A o \in Object : /\ [o EXCEPT !.finalizer = TRUE] \in Object
                         /\ [o EXCEPT !.finalizer = FALSE] \in Object
                         /\ [o EXCEPT !.phase = "deleting"] \in Object
                         /\ \A c \in Clusters : [o EXCEPT !.config = c] \in Object
BY DEF Absent, Idle, Object, Reconcile, Steps

LEMMA TypeInit == ASSUME Init PROVE TypeInv
<1>1. TypeOK
  BY ConstantsAssumption, ObjectTypes DEF Init, TypeOK, Object, Absent
<1>2. ClientChosen
  BY DEF Init, ClientChosen, Idle, CreationSteps, DeletionSteps
<1> QED
  BY <1>1, <1>2 DEF TypeInv

LEMMA TypeEnvironment == ASSUME TypeInv, Environment PROVE TypeInv'
<1> USE ConstantsAssumption, ObjectTypes
<1>1. ASSUME NEW m \in Machines, UserCreates(m) PROVE TypeInv'
  <2>1. PICK c \in UserConfigs : machine' = [machine EXCEPT ![m] =
              [phase |-> "live", finalizer |-> FALSE, config |-> c]]
    BY <1>1 DEF UserCreates
  <2>2. [phase |-> "live", finalizer |-> FALSE, config |-> c] \in Object
    BY DEF Object
  <2> QED
    BY <1>1, <2>1, <2>2 DEF TypeInv, TypeOK, ClientChosen, UserCreates, remoteVars, otherVars
<1>2. ASSUME NEW m \in Machines, UserAnnotates(m) PROVE TypeInv'
  <2>1. PICK c \in UserConfigs \ {None} :
           machine' = [machine EXCEPT ![m].config = c]
    BY <1>2 DEF UserAnnotates
  <2>2. [machine[m] EXCEPT !.config = c] \in Object
    BY DEF TypeInv, TypeOK
  <2> QED
    BY <1>2, <2>1, <2>2 DEF TypeInv, TypeOK, ClientChosen, UserAnnotates, remoteVars, otherVars
<1>3. ASSUME NEW m \in Machines, UserDeletes(m) PROVE TypeInv'
  <2>1. [machine[m] EXCEPT !.phase = "deleting"] \in Object
    BY DEF TypeInv, TypeOK
  <2>2. machine' \in [Machines -> Object]
    BY <1>3, <2>1 DEF TypeInv, TypeOK, UserDeletes
  <2> QED
    BY <1>3, <2>2 DEF TypeInv, TypeOK, ClientChosen, UserDeletes, remoteVars, otherVars
<1>4. ASSUME NEW m \in Machines, OthersRelease(m) PROVE TypeInv'
  BY <1>4 DEF TypeInv, TypeOK, ClientChosen, OthersRelease, remoteVars, otherVars
<1>5. ASSUME NEW m \in Machines, CacheSync(m) PROVE TypeInv'
  BY <1>5 DEF TypeInv, TypeOK, ClientChosen, CacheSync, remoteVars, otherVars
<1>6. ASSUME NEW m \in Machines, NEW c \in Clusters, VMGone(m, c) PROVE TypeInv'
  BY <1>6 DEF TypeInv, TypeOK, ClientChosen, VMGone, otherVars
<1>7. ASSUME NEW c \in Clusters, AdminAddsConfig(c) PROVE TypeInv'
  BY <1>7 DEF TypeInv, TypeOK, ClientChosen, AdminAddsConfig, remoteVars, otherVars
<1>8. ASSUME Crash PROVE TypeInv'
  BY <1>8 DEF TypeInv, TypeOK, ClientChosen, Crash, remoteVars, otherVars,
              CreationSteps, DeletionSteps, Idle
<1>9. ASSUME NEW m \in Machines, NEW c \in Clusters, DisksGone(m, c) PROVE TypeInv'
  BY <1>9 DEF TypeInv, TypeOK, ClientChosen, DisksGone, otherVars
<1>10. ASSUME NEW m \in Machines, ValidationChanges(m) PROVE TypeInv'
  BY <1>10 DEF TypeInv, TypeOK, ClientChosen, ValidationChanges, remoteVars
<1> QED
  BY <1>1, <1>2, <1>3, <1>4, <1>5, <1>6, <1>7, <1>8, <1>9, <1>10 DEF Environment

\* Returning, or going on to the next call with the client at hand.
LEMMA TypeMoves ==
    ASSUME TypeInv, NEW m \in Machines,
           \/ Return(m)
           \/ /\ rec[m].client \in Clusters
              /\ \E step \in Steps : GoTo(m, step)
    PROVE  rec' \in [Machines -> Reconcile] /\ ClientChosen'
<1>1. CASE Return(m)
  BY <1>1, ObjectTypes
     DEF TypeInv, TypeOK, ClientChosen, Return, CreationSteps, DeletionSteps, Idle
<1>2. ASSUME rec[m].client \in Clusters, NEW step \in Steps, GoTo(m, step)
      PROVE  rec' \in [Machines -> Reconcile] /\ ClientChosen'
  <2>1. [rec[m] EXCEPT !.step = step] \in Reconcile
    BY DEF TypeInv, TypeOK, Reconcile
  <2> QED
    BY <1>2, <2>1 DEF TypeInv, TypeOK, ClientChosen, GoTo, Reconcile
<1> QED
  BY <1>1, <1>2

LEMMA TypeOperator ==
    ASSUME TypeInv, NEW m \in Machines, Operator(m) PROVE TypeInv'
<1> USE ConstantsAssumption, ObjectTypes, TypeMoves
<1> USE DEF At
<1>1. CASE FetchAndInitMachine(m)
  <2>1. [Idle EXCEPT !.step = Branch(cache[m]), !.obj = cache[m]] \in Reconcile
    BY DEF TypeInv, TypeOK, Branch, Idle, Reconcile, Steps
  <2>2. Branch(cache[m]) \notin CreationSteps \cup DeletionSteps
    BY DEF Branch, CreationSteps, DeletionSteps
  <2>3. rec'[m].step = Branch(cache[m])
    BY <1>1 DEF FetchAndInitMachine, TypeInv, TypeOK, Idle
  <2> QED
    BY <1>1, <2>1, <2>2, <2>3
       DEF TypeInv, TypeOK, ClientChosen, FetchAndInitMachine, remoteVars, otherVars
<1>2. CASE GetOrCreateClientFromMachine(m)
  <2>1. PICK c \in Clusters :
           /\ remoteClient' = c
           /\ rec' = [rec EXCEPT ![m] =
                 IF At(m, "client")
                 THEN [step |-> "namespace", obj |-> Absent, client |-> c,
                       annotate |-> rec[m].obj.config = None]
                 ELSE [Idle EXCEPT !.step = "deletePVCs", !.client = c]]
    BY <1>2 DEF GetOrCreateClientFromMachine
  <2>2. /\ [step |-> "namespace", obj |-> Absent, client |-> c,
            annotate |-> rec[m].obj.config = None] \in Reconcile
        /\ [Idle EXCEPT !.step = "deletePVCs", !.client = c] \in Reconcile
        /\ [Idle EXCEPT !.step = "deletePVCs", !.client = c].client = c
    BY DEF Idle, Reconcile, Steps, CreationSteps, DeletionSteps
  <2> QED
    BY <1>2, <2>1, <2>2
       DEF GetOrCreateClientFromMachine, TypeInv, TypeOK, ClientChosen, remoteVars, otherVars
<1>3. CASE AddFinalizer(m)
  <2>1. rec[m].obj \in Object
    BY DEF TypeInv, TypeOK, Reconcile
  <2> QED
    BY <1>3, <2>1 DEF AddFinalizer, Update, TypeInv, TypeOK, remoteVars, otherVars
<1>4. CASE EnsureNamespaceExists(m)
  <2>1. rec[m].client \in Clusters
    BY <1>4 DEF EnsureNamespaceExists, TypeInv, ClientChosen, CreationSteps
  <2> QED
    BY <1>4, <2>1
       DEF EnsureNamespaceExists, TypeInv, TypeOK, Steps, CreationSteps, otherVars
<1>5. CASE AnnotateMachine(m)
  <2>1. rec[m].client \in Clusters
    BY <1>5 DEF AnnotateMachine, TypeInv, ClientChosen, CreationSteps
  <2>2. [cache[m] EXCEPT !.config = rec[m].client] \in Object
    BY <2>1 DEF TypeInv, TypeOK
  <2> QED
    BY <1>5, <2>1, <2>2
       DEF AnnotateMachine, Update, TypeInv, TypeOK, Steps, CreationSteps, remoteVars, otherVars
<1>6. CASE GetVirtualMachine(m)
  <2>1. rec[m].client \in Clusters
    BY <1>6 DEF GetVirtualMachine, TypeInv, ClientChosen, CreationSteps
  <2> QED
    BY <1>6, <2>1
       DEF GetVirtualMachine, TypeInv, TypeOK, Steps, CreationSteps, remoteVars, otherVars
<1>7. CASE CreatePVCsFromDiskSpecs(m)
  <2>1. rec[m].client \in Clusters
    BY <1>7 DEF CreatePVCsFromDiskSpecs, TypeInv, ClientChosen, CreationSteps
  <2> QED
    BY <1>7, <2>1
       DEF CreatePVCsFromDiskSpecs, TypeInv, TypeOK, Steps, CreationSteps, otherVars
<1>8. CASE CreateVirtualMachine(m)
  BY <1>8 DEF CreateVirtualMachine, TypeInv, TypeOK, otherVars
<1>9. CASE DeleteAssociatedPVCs(m)
  <2>1. rec[m].client \in Clusters
    BY <1>9 DEF DeleteAssociatedPVCs, TypeInv, ClientChosen, DeletionSteps
  <2> QED
    BY <1>9, <2>1
       DEF DeleteAssociatedPVCs, TypeInv, TypeOK, Steps, DeletionSteps, otherVars
<1>10. CASE DeleteVirtualMachine(m)
  <2>1. rec[m].client \in Clusters
    BY <1>10 DEF DeleteVirtualMachine, TypeInv, ClientChosen, DeletionSteps
  <2> QED
    BY <1>10, <2>1
       DEF DeleteVirtualMachine, TypeInv, TypeOK, Steps, DeletionSteps, otherVars
<1>11. CASE VirtualMachineExists(m)
  <2>1. rec[m].client \in Clusters
    BY <1>11 DEF VirtualMachineExists, TypeInv, ClientChosen, DeletionSteps
  <2> QED
    BY <1>11, <2>1
       DEF VirtualMachineExists, TypeInv, TypeOK, Steps, DeletionSteps, remoteVars, otherVars
<1>12. CASE RemoveMachineFinalizer(m)
  <2>1. cache[m] \in Object
    BY DEF TypeInv, TypeOK
  <2>2. [cache[m] EXCEPT !.finalizer = FALSE] \in Object
    BY <2>1
  <2>3. machine' \in [Machines -> Object]
    BY <1>12, <2>2 DEF RemoveMachineFinalizer, Update, TypeInv, TypeOK
  <2>4. rec' \in [Machines -> Reconcile] /\ ClientChosen'
    BY <1>12 DEF RemoveMachineFinalizer
  <2> QED
    BY <1>12, <2>3, <2>4
       DEF RemoveMachineFinalizer, TypeInv, TypeOK, remoteVars, otherVars
<1>13. CASE ReconcileFails(m)
  BY <1>13 DEF ReconcileFails, TypeInv, TypeOK, remoteVars, otherVars
<1>14. CASE CleanupNetworkConfiguration(m)
  <2>1. rec[m].client \in Clusters
    BY <1>14 DEF CleanupNetworkConfiguration, TypeInv, ClientChosen, DeletionSteps
  <2> QED
    BY <1>14, <2>1 DEF CleanupNetworkConfiguration, TypeInv, TypeOK, Steps,
       DeletionSteps, remoteVars, otherVars
<1> QED
  BY <1>1, <1>2, <1>3, <1>4, <1>5, <1>6, <1>7, <1>8, <1>9, <1>10, <1>11,
     <1>12, <1>13, <1>14 DEF Operator, Creation, Deletion

LEMMA TypeStep == ASSUME TypeInv, [Next]_vars PROVE TypeInv'
<1>1. CASE UNCHANGED vars
  BY <1>1 DEF TypeInv, TypeOK, ClientChosen, vars, remoteVars, otherVars
<1> QED
  BY <1>1, TypeEnvironment, TypeOperator DEF Next

\* In every reachable state every variable has its type: an annotation, a
\* remote client or the cluster of a resource is a cluster, and no reconcile
\* reaches a remote call before GetOrCreateClientFromMachine gave it a client
\* (machine_controller.go:118-126, :447-455).
THEOREM TypeCorrect == Spec => []TypeOK
<1>1. Init => TypeInv
  BY TypeInit
<1>2. TypeInv /\ [Next]_vars => TypeInv'
  BY TypeStep
<1>3. TypeInv => TypeOK
  BY DEF TypeInv
<1> QED
  BY <1>1, <1>2, <1>3, PTL DEF Spec

-----------------------------------------------------------------------------
(* Placement.  ResourcesFollowPlacement is preserved by a call only because *)
(* of what a copy read, or a client chosen, some calls ago still says about *)
(* the Machine.  Sound(m) states it; it is what a reconcile may rely on     *)
(* between its calls, until the operator overwrites the placement of m.     *)

\* Reconciles run one at a time (machine_controller.go:806-810).
Serial == MaxConcurrentReconciles = 1

\* Users annotate late only where the operator's choice is a VM it found: the
\* default and the only config overwrite what they write
\* (machine_controller.go:138-149, kubevirt_client_manager.go:238-262).
LateOnlyWithSearch ==
    LateAnnotation => /\ DefaultConfig = None
                      /\ \E c, d \in InitialConfigs : c # d

Owned(o) == o.phase = "live" /\ o.finalizer
Doomed(o) == o.phase = "deleting" /\ o.finalizer

WellFormed(m) ==
    /\ machine[m].phase = "absent" => machine[m] = Absent
    /\ At(m, "idle") => rec[m] = Idle
    /\ At(m, "addFinalizer") =>
          rec[m].obj.phase = "live" /\ ~rec[m].obj.finalizer
    /\ At(m, "client") => Owned(rec[m].obj)
    /\ At(m, "deletionClient") => Doomed(rec[m].obj)
    /\ rec[m].step \in CreationSteps \cup DeletionSteps => rec[m].obj = Absent

\* What a copy o of m, however old, still says about m.
CopySound(m, o) ==
    /\ Owned(o) => /\ machine[m].finalizer
                   /\ dying[m] = {}
                   /\ o.config # None => machine[m].config = o.config
    /\ Doomed(o) /\ machine[m].finalizer =>
          /\ machine[m].phase = "deleting"
          /\ o.config # None => machine[m].config = o.config
    /\ o.finalizer /\ o.config = None /\ machine[m].finalizer =>
          /\ DefaultConfig # None =>
                \/ machine[m].config \in {None, DefaultConfig}
                \/ ~Doomed(o) /\ LateAnnotation /\ Held(m) = {}
          /\ ~LateAnnotation => machine[m].config \in configs \cup {None}

CopiesSound(m) ==
    /\ CopySound(m, machine[m])
    /\ CopySound(m, cache[m])
    /\ CopySound(m, rec[m].obj)
    /\ At(m, "addFinalizer") /\ cache[m].finalizer => machine[m].finalizer

ConfigsKnown(m) ==
    /\ Held(m) \subseteq configs
    /\ dying[m] \subseteq vms[m]
    /\ rec[m].step \in CreationSteps \cup DeletionSteps =>
          rec[m].client \in configs

CreationSound(m) ==
    /\ rec[m].step \in {"client"} \cup CreationSteps =>
          machine[m].finalizer /\ dying[m] = {}
    /\ At(m, "client") /\ rec[m].obj.config # None =>
          cache[m].config = rec[m].obj.config
    /\ rec[m].step \in CreationSteps =>
          /\ remoteClient = rec[m].client
          /\ ~rec[m].annotate => cache[m].config = rec[m].client
          /\ rec[m].annotate /\ DefaultConfig # None =>
                rec[m].client = DefaultConfig
    /\ At(m, "namespace") \/ At(m, "annotation") =>
          /\ Held(m) \subseteq {rec[m].client}
          /\ \/ machine[m].config \in {None, rec[m].client}
             \/ Held(m) = {} /\ ~LateOnlyWithSearch
          /\ ~rec[m].annotate => machine[m].config = rec[m].client
          /\ rec[m].annotate /\ LateAnnotation /\ LateOnlyWithSearch =>
                rec[m].client \in vms[m]
    /\ At(m, "annotation") => rec[m].annotate
    /\ At(m, "getVM") \/ At(m, "createPVCs") \/ At(m, "createVM") =>
          machine[m].config = rec[m].client
    /\ At(m, "createVM") => rec[m].client \in disks[m] \cup borrowed[m]

DeletionSound(m) ==
    /\ rec[m].step \in {"deletionClient"} \cup DeletionSteps =>
          ~Owned(machine[m]) /\ ~Owned(cache[m])
    /\ rec[m].step \in DeletionSteps => Held(m) \subseteq {rec[m].client}
    /\ At(m, "deleteVM") \/ At(m, "checkVM") => disks[m] = {}
    /\ At(m, "cleanupNC") \/ At(m, "removeFinalizer") => Held(m) = {}

Follows(m) ==
    \A c \in Held(m) :
        /\ machine[m].finalizer
        /\ \/ machine[m].config = c
           \/ m \in Legacy /\ machine[m].config = None /\ Held(m) = {c}

HasDisks(m) ==
    machine[m].phase = "live" =>
        vms[m] \ dying[m] \subseteq disks[m] \cup borrowed[m]

Sound(m) ==
    /\ WellFormed(m)
    /\ CopiesSound(m)
    /\ ConfigsKnown(m)
    /\ CreationSound(m)
    /\ DeletionSound(m)
    /\ Follows(m)
    /\ HasDisks(m)

OneReconcile ==
    \A m, n \in Machines : ~At(m, "idle") /\ ~At(n, "idle") => m = n

\* What any step of a serial operator preserves: what it knows of every
\* Machine whose placement it has not overwritten is sound (Sound), and one
\* reconcile uses the shared client.
PlacementInvariant ==
    /\ TypeInv
    /\ InitialConfigs \subseteq configs
    /\ OneReconcile
    /\ \A m \in Machines \ overwritten : Sound(m)
    /\ LateOnlyWithSearch => overwritten = {}

-----------------------------------------------------------------------------
(* The other Machines of a step.                                           *)

\* A step of m leaves what Sound says of another Machine alone, but for
\* configs, which only grow, and the shared client, which only m may use.
Untouched(n) ==
    /\ machine'[n] = machine[n]
    /\ cache'[n] = cache[n]
    /\ vms'[n] = vms[n]
    /\ dying'[n] = dying[n]
    /\ disks'[n] = disks[n]
    /\ borrowed'[n] = borrowed[n]
    /\ rec'[n] = rec[n]

LEMMA Frame ==
    ASSUME NEW n \in Machines, Sound(n), Untouched(n), configs \subseteq configs',
           remoteClient' = remoteClient \/ At(n, "idle")
    PROVE  Sound(n)'
<1> USE DEF Sound, Untouched, At, Held
<1>1. WellFormed(n)'
  BY DEF WellFormed, Owned, Doomed
<1>2. CopiesSound(n)'
  BY DEF CopiesSound, CopySound, Owned, Doomed
<1>3. ConfigsKnown(n)'
  BY DEF ConfigsKnown
<1>4. CreationSound(n)'
  BY DEF CreationSound, CreationSteps, LateOnlyWithSearch
<1>5. DeletionSound(n)'
  BY DEF DeletionSound, Owned
<1>6. Follows(n)' /\ HasDisks(n)'
  BY DEF Follows, HasDisks
<1> QED
  BY <1>1, <1>2, <1>3, <1>4, <1>5, <1>6

-----------------------------------------------------------------------------
(* The environment.                                                        *)

LEMMA SoundUserCreates ==
    ASSUME TypeInv, NEW m \in Machines, Sound(m),
           UserCreates(m)
    PROVE  Sound(m)'
<1> USE DEF Sound, At, Held
<1>1. PICK c \in UserConfigs : machine' = [machine EXCEPT ![m] =
            [phase |-> "live", finalizer |-> FALSE, config |-> c]]
  BY DEF UserCreates
<1>2. /\ machine'[m] = [phase |-> "live", finalizer |-> FALSE, config |-> c]
      /\ ~machine[m].finalizer
      /\ UNCHANGED <<cache, configs, vms, dying, disks, borrowed, remoteClient, rec>>
  <2>1. ~machine[m].finalizer
    BY DEF UserCreates, WellFormed, Absent
  <2> QED
    BY <1>1, <2>1 DEF UserCreates, TypeInv, TypeOK, remoteVars, otherVars
<1>3. WellFormed(m)'
  BY <1>2 DEF WellFormed, Owned, Doomed
<1>4. CopiesSound(m)'
  BY <1>2 DEF CopiesSound, CopySound, Owned, Doomed
<1>5. ConfigsKnown(m)'
  BY <1>2 DEF ConfigsKnown
<1>6. CreationSound(m)'
  BY <1>2 DEF CreationSound, Follows, CreationSteps
<1>7. DeletionSound(m)'
  BY <1>2 DEF DeletionSound, Owned
<1>8. Follows(m)' /\ HasDisks(m)'
  BY <1>2 DEF Follows, HasDisks
<1> QED
  BY <1>3, <1>4, <1>5, <1>6, <1>7, <1>8

LEMMA SoundUserAnnotates ==
    ASSUME TypeInv, NEW m \in Machines, Sound(m),
           UserAnnotates(m)
    PROVE  Sound(m)'
<1> USE DEF Sound, At, Held
<1>1. PICK c \in UserConfigs \ {None} :
         /\ vms[m] \cup disks[m] \subseteq {c}
         /\ machine' = [machine EXCEPT ![m].config = c]
  BY DEF UserAnnotates
<1>2. /\ machine'[m] = [machine[m] EXCEPT !.config = c]
      /\ UNCHANGED <<cache, configs, vms, dying, disks, borrowed, remoteClient, rec>>
  BY <1>1 DEF UserAnnotates, TypeInv, TypeOK, remoteVars, otherVars
<1>3. /\ machine'[m].phase = "live" /\ machine[m].phase = "live"
      /\ machine'[m].finalizer = machine[m].finalizer
      /\ machine'[m].config = c
      /\ machine[m].config = None
      /\ c # None
      /\ LateAnnotation
  BY <1>1, <1>2 DEF UserAnnotates, TypeInv, TypeOK, Object
<1>4. WellFormed(m)'
  BY <1>2, <1>3 DEF WellFormed, Owned, Doomed
<1>5. CopiesSound(m)'
  <2>1. DefaultConfig # None => Held(m) = {}
    BY <1>3, ConstantsAssumption DEF Follows, TypeInv, TypeOK
  <2> QED
    BY <1>2, <1>3, <2>1 DEF CopiesSound, CopySound, Owned, Doomed
<1>6. ConfigsKnown(m)'
  BY <1>2 DEF ConfigsKnown
<1>7. CreationSound(m)'
  <2>1. ASSUME rec[m].step \in CreationSteps PROVE rec[m].client # None
    BY <2>1, ConstantsAssumption DEF TypeInv, ClientChosen
  <2>2. \/ machine'[m].config = rec[m].client
        \/ vms[m] \cup disks[m] = {} /\ ~LateOnlyWithSearch
        \/ ~(At(m, "namespace") \/ At(m, "annotation"))
    BY <1>1, <1>3, <2>1 DEF CreationSound, CreationSteps
  <2> QED
    BY <1>1, <1>2, <1>3, <2>1, <2>2 DEF CreationSound, CreationSteps
<1>8. DeletionSound(m)'
  BY <1>2, <1>3 DEF DeletionSound, Owned
<1>9. Follows(m)' /\ HasDisks(m)'
  BY <1>1, <1>2, <1>3 DEF Follows, HasDisks
<1> QED
  BY <1>4, <1>5, <1>6, <1>7, <1>8, <1>9

LEMMA SoundUserDeletes ==
    ASSUME TypeInv, NEW m \in Machines, Sound(m),
           UserDeletes(m) \/ OthersRelease(m)
    PROVE  Sound(m)'
<1> USE DEF Sound, At, Held
<1>1. /\ \/ /\ machine[m].phase = "live"
            /\ machine'[m] = [machine[m] EXCEPT !.phase = "deleting"]
         \/ /\ ~machine[m].finalizer
            /\ machine'[m] = Absent
      /\ UNCHANGED <<cache, configs, vms, dying, disks, borrowed, remoteClient, rec>>
  BY DEF UserDeletes, OthersRelease, TypeInv, TypeOK, remoteVars, otherVars
<1>2. \/ /\ machine[m].phase = "live"
         /\ machine'[m].phase = "deleting"
         /\ machine'[m].finalizer = machine[m].finalizer
         /\ machine'[m].config = machine[m].config
      \/ /\ ~machine[m].finalizer
         /\ machine'[m] = Absent
         /\ ~machine'[m].finalizer
         /\ machine'[m].phase = "absent"
  BY <1>1 DEF TypeInv, TypeOK, Object, Absent
<1>3. WellFormed(m)'
  BY <1>1, <1>2 DEF WellFormed, Owned, Doomed
<1>4. CopiesSound(m)'
  BY <1>1, <1>2 DEF CopiesSound, CopySound, Owned, Doomed
<1>5. ConfigsKnown(m)'
  BY <1>1 DEF ConfigsKnown
<1>6. CreationSound(m)'
  BY <1>1, <1>2 DEF CreationSound, CreationSteps
<1>7. DeletionSound(m)'
  BY <1>1, <1>2 DEF DeletionSound, Owned
<1>8. Follows(m)' /\ HasDisks(m)'
  BY <1>1, <1>2 DEF Follows, HasDisks
<1> QED
  BY <1>3, <1>4, <1>5, <1>6, <1>7, <1>8

LEMMA SoundCacheSync ==
    ASSUME TypeInv, NEW m \in Machines, Sound(m),
           CacheSync(m)
    PROVE  Sound(m)'
<1> USE DEF Sound, At, Held
<1>1. /\ cache'[m] = machine[m]
      /\ UNCHANGED <<machine, configs, vms, dying, disks, borrowed, remoteClient, rec>>
  BY DEF CacheSync, TypeInv, TypeOK, remoteVars, otherVars
<1>2. WellFormed(m)' /\ ConfigsKnown(m)' /\ CreationSound(m)'
  <2>1. At(m, "client") /\ rec[m].obj.config # None =>
           machine[m].config = rec[m].obj.config
    BY DEF WellFormed, CopiesSound, CopySound
  <2>2. rec[m].step \in CreationSteps /\ ~rec[m].annotate =>
           machine[m].config = rec[m].client
    BY DEF CreationSound, CreationSteps
  <2> QED
    BY <1>1, <2>1, <2>2 DEF WellFormed, ConfigsKnown, CreationSound, Owned, Doomed
<1>3. CopiesSound(m)'
  BY <1>1 DEF CopiesSound, CopySound, Owned, Doomed
<1>4. DeletionSound(m)' /\ Follows(m)' /\ HasDisks(m)'
  BY <1>1 DEF DeletionSound, Follows, HasDisks, Owned
<1> QED
  BY <1>2, <1>3, <1>4

LEMMA SoundVMGone ==
    ASSUME TypeInv, NEW m \in Machines, Sound(m),
           NEW c \in Clusters,
           VMGone(m, c)
    PROVE  Sound(m)'
<1> USE DEF Sound, At, Held
<1>1. /\ c \in dying[m]
      /\ vms'[m] = vms[m] \ {c}
      /\ dying'[m] = dying[m] \ {c}
      /\ UNCHANGED <<machine, cache, configs, disks, borrowed, remoteClient, rec>>
  BY DEF VMGone, TypeInv, TypeOK
<1>2. WellFormed(m)' /\ ConfigsKnown(m)'
  BY <1>1 DEF WellFormed, ConfigsKnown, Owned, Doomed
<1>3. CopiesSound(m)'
  BY <1>1 DEF CopiesSound, CopySound, Owned, Doomed
<1>4. CreationSound(m)'
  BY <1>1 DEF CreationSound, CreationSteps
<1>5. DeletionSound(m)' /\ Follows(m)' /\ HasDisks(m)'
  BY <1>1 DEF DeletionSound, Follows, HasDisks, Owned
<1> QED
  BY <1>2, <1>3, <1>4, <1>5

LEMMA SoundCrash ==
    ASSUME TypeInv, NEW m \in Machines, Sound(m),
           Crash
    PROVE  Sound(m)'
<1> USE DEF Sound, At, Held
<1>1. /\ rec'[m] = Idle
      /\ cache'[m] = machine[m]
      /\ UNCHANGED <<machine, configs, vms, dying, disks, borrowed>>
  BY DEF Crash, remoteVars, otherVars
<1>2. WellFormed(m)' /\ ConfigsKnown(m)' /\ CreationSound(m)' /\ DeletionSound(m)'
  BY <1>1 DEF WellFormed, ConfigsKnown, CreationSound, DeletionSound, Owned,
              Doomed, Idle, CreationSteps, DeletionSteps
<1>3. CopiesSound(m)'
  BY <1>1 DEF CopiesSound, CopySound, Owned, Doomed, Idle, Absent
<1>4. Follows(m)' /\ HasDisks(m)'
  BY <1>1 DEF Follows, HasDisks
<1> QED
  BY <1>2, <1>3, <1>4

-----------------------------------------------------------------------------
(* The reconcile.                                                          *)

LEMMA SoundFetch ==
    ASSUME TypeInv, NEW m \in Machines, Sound(m),
           FetchAndInitMachine(m)
    PROVE  Sound(m)'
<1> USE DEF Sound, At, Held
<1>1. /\ rec'[m] = [Idle EXCEPT !.step = Branch(cache[m]), !.obj = cache[m]]
      /\ UNCHANGED <<machine, cache, configs, vms, dying, disks, borrowed, remoteClient>>
  BY DEF FetchAndInitMachine, TypeInv, TypeOK, remoteVars, otherVars
<1>2. /\ rec'[m].obj = cache[m]
      /\ \/ rec'[m].step = "client" /\ Owned(cache[m])
         \/ rec'[m].step = "addFinalizer" /\ cache[m].phase = "live" /\ ~cache[m].finalizer
         \/ rec'[m].step = "deletionClient" /\ Doomed(cache[m])
  <2>1. rec'[m].obj = cache[m] /\ rec'[m].step = Branch(cache[m])
    BY <1>1 DEF Idle
  <2>2. Branch(cache[m]) # "idle"
    BY DEF FetchAndInitMachine
  <2>3. \/ Branch(cache[m]) = "client" /\ Owned(cache[m])
        \/ /\ Branch(cache[m]) = "addFinalizer"
           /\ cache[m].phase = "live" /\ ~cache[m].finalizer
        \/ Branch(cache[m]) = "deletionClient" /\ Doomed(cache[m])
    BY <2>2 DEF Branch, Owned, Doomed
  <2> QED
    BY <2>1, <2>3
<1>3. WellFormed(m)' /\ ConfigsKnown(m)'
  BY <1>1, <1>2 DEF WellFormed, ConfigsKnown, Owned, Doomed, CreationSteps, DeletionSteps
<1>4. CopiesSound(m)'
  BY <1>1, <1>2 DEF CopiesSound, CopySound, Owned, Doomed
<1>5. CreationSound(m)'
  BY <1>1, <1>2 DEF CreationSound, CopiesSound, CopySound, CreationSteps
<1>6. DeletionSound(m)'
  BY <1>1, <1>2 DEF DeletionSound, CopiesSound, CopySound, Owned, Doomed, DeletionSteps
<1>7. Follows(m)' /\ HasDisks(m)'
  BY <1>1 DEF Follows, HasDisks
<1> QED
  BY <1>3, <1>4, <1>5, <1>6, <1>7

\* The client chosen for a copy with the finalizer is the one of everything
\* that exists for the Machine, and of its annotation if it has one by now,
\* unless a user annotated it while nothing exists.
LEMMA ChoosesWhereResourcesAre ==
    ASSUME TypeInv, InitialConfigs \subseteq configs, NEW m \in Machines, Sound(m),
           NEW c \in Clusters, rec[m].obj.finalizer, rec[m].obj.phase # "absent",
           Chooses(m, rec[m].obj, c)
    PROVE  /\ Held(m) \subseteq {c}
           /\ machine[m].finalizer =>
                 /\ \/ machine[m].config \in {None, c}
                    \/ Held(m) = {} /\ ~LateOnlyWithSearch
                 /\ rec[m].obj.config # None => machine[m].config = c
           /\ rec[m].obj.config # None => c = rec[m].obj.config
           /\ rec[m].obj.config = None =>
                 /\ DefaultConfig # None => c = DefaultConfig
                 /\ LateAnnotation /\ LateOnlyWithSearch => c \in vms[m]
<1> DEFINE o == rec[m].obj
<1> USE DEF Sound
<1>1. Owned(o) \/ Doomed(o)
  BY DEF Owned, Doomed, TypeInv, TypeOK, Reconcile, Object
<1>2. c # None /\ c \in configs
  BY ConstantsAssumption DEF Chooses
<1>3. ~machine[m].finalizer => Held(m) = {}
  BY DEF Follows
<1>4. CASE o.config # None
  BY <1>1, <1>2, <1>3, <1>4 DEF Chooses, CopiesSound, CopySound, Follows
<1>5. CASE o.config = None
  <2>1. CASE DefaultConfig # None
    <3>1. /\ c = DefaultConfig /\ Legacy = {}
          /\ LateOnlyWithSearch => ~LateAnnotation
      BY <1>2, <1>5, <2>1, ConstantsAssumption DEF Chooses, LateOnlyWithSearch
    <3>2. machine[m].finalizer =>
             \/ machine[m].config \in {None, c}
             \/ Held(m) = {} /\ LateAnnotation
      BY <1>5, <2>1, <3>1 DEF CopiesSound, CopySound
    <3> QED
      BY <1>2, <1>3, <1>5, <3>1, <3>2, ConstantsAssumption DEF Follows, Held, TypeInv, TypeOK
  <2>2. CASE DefaultConfig = None /\ c \in vms[m]
    BY <1>2, <1>5, <2>2 DEF Follows, Held
  <2>3. CASE DefaultConfig = None /\ configs = {c}
    <3>1. LateOnlyWithSearch => ~LateAnnotation
      BY <2>3 DEF LateOnlyWithSearch
    <3>2. ~LateAnnotation /\ machine[m].finalizer => machine[m].config \in {None, c}
      BY <1>5, <2>3 DEF CopiesSound, CopySound
    <3>3. Held(m) \subseteq {c}
      BY <2>3 DEF ConfigsKnown
    <3>4. Held(m) # {} => machine[m].config \in {None, c}
      BY <3>3 DEF Follows
    <3> QED
      BY <1>5, <2>3, <3>1, <3>2, <3>3, <3>4
  <2> QED
    BY <1>2, <1>5, <2>1, <2>2, <2>3 DEF Chooses
<1> QED
  BY <1>4, <1>5

LEMMA SoundGetOrCreateClient ==
    ASSUME TypeInv, InitialConfigs \subseteq configs, NEW m \in Machines, Sound(m),
           GetOrCreateClientFromMachine(m)
    PROVE  Sound(m)'
<1> USE DEF Sound, At
<1>1. PICK c \in Clusters :
         /\ Chooses(m, rec[m].obj, c)
         /\ remoteClient' = c
         /\ rec' = [rec EXCEPT ![m] =
               IF At(m, "client")
               THEN [step |-> "namespace", obj |-> Absent, client |-> c,
                     annotate |-> rec[m].obj.config = None]
               ELSE [Idle EXCEPT !.step = "deletePVCs", !.client = c]]
  BY DEF GetOrCreateClientFromMachine
<1>2. UNCHANGED <<machine, cache, configs, vms, dying, disks, borrowed>>
  BY DEF GetOrCreateClientFromMachine, remoteVars, otherVars
<1>3. /\ c \in configs
      /\ rec[m].step \in {"client", "deletionClient"}
      /\ rec[m].obj.finalizer /\ rec[m].obj.phase # "absent"
  BY <1>1 DEF GetOrCreateClientFromMachine, Chooses, WellFormed, Owned, Doomed
<1>4. /\ rec'[m].client = c
      /\ rec'[m].obj = Absent
      /\ \/ /\ rec[m].step = "client"
            /\ rec'[m].step = "namespace"
            /\ rec'[m].annotate = (rec[m].obj.config = None)
         \/ /\ rec[m].step = "deletionClient"
            /\ rec'[m].step = "deletePVCs"
  BY <1>1, <1>3 DEF TypeInv, TypeOK, Idle
<1>5. /\ Held(m) \subseteq {c}
      /\ machine[m].finalizer =>
            /\ \/ machine[m].config \in {None, c}
               \/ Held(m) = {} /\ ~LateOnlyWithSearch
            /\ rec[m].obj.config # None => machine[m].config = c
      /\ rec[m].obj.config # None => c = rec[m].obj.config
      /\ rec[m].obj.config = None =>
            /\ DefaultConfig # None => c = DefaultConfig
            /\ LateAnnotation /\ LateOnlyWithSearch => c \in vms[m]
  BY <1>1, <1>3, ChoosesWhereResourcesAre
<1>6. WellFormed(m)' /\ ConfigsKnown(m)'
  BY <1>2, <1>3, <1>4 DEF WellFormed, ConfigsKnown, Owned, Doomed, Held
<1>7. CopiesSound(m)'
  BY <1>2, <1>4 DEF CopiesSound, CopySound, Owned, Doomed, Absent, Held
<1>8. CreationSound(m)'
  <2>1. rec'[m].step # "deletePVCs" /\ ~rec'[m].annotate =>
           cache[m].config = c
    BY <1>4, <1>5 DEF CreationSound
  <2> QED
    BY <1>1, <1>2, <1>4, <1>5, <2>1 DEF CreationSound, Held, CreationSteps,
       LateOnlyWithSearch
<1>9. DeletionSound(m)'
  BY <1>2, <1>4, <1>5 DEF DeletionSound, Owned, Held, DeletionSteps
<1>10. Follows(m)' /\ HasDisks(m)'
  BY <1>2 DEF Follows, HasDisks, Held
<1> QED
  BY <1>6, <1>7, <1>8, <1>9, <1>10

LEMMA SoundAddFinalizer ==
    ASSUME TypeInv, NEW m \in Machines, Sound(m),
           AddFinalizer(m)
    PROVE  Sound(m)'
<1> USE DEF Sound, At, Held
<1>1. /\ machine'[m] = [machine[m] EXCEPT !.finalizer = TRUE]
      /\ machine[m] = rec[m].obj
      /\ rec'[m] = Idle
      /\ UNCHANGED <<cache, configs, vms, dying, disks, borrowed, remoteClient>>
  BY DEF AddFinalizer, Update, Return, TypeInv, TypeOK, remoteVars, otherVars
<1>2. /\ machine[m].phase = "live" /\ ~machine[m].finalizer /\ ~cache[m].finalizer
      /\ machine'[m].phase = "live" /\ machine'[m].finalizer
  BY <1>1 DEF AddFinalizer, WellFormed, CopiesSound, TypeInv, TypeOK, Object
<1>3. vms[m] = {} /\ disks[m] = {} /\ dying[m] = {}
  BY <1>2 DEF Follows, ConfigsKnown
<1>4. WellFormed(m)' /\ ConfigsKnown(m)' /\ CreationSound(m)' /\ DeletionSound(m)'
  BY <1>1, <1>2, <1>3 DEF WellFormed, ConfigsKnown, CreationSound, DeletionSound,
     Idle, CreationSteps, DeletionSteps
<1>5. CopiesSound(m)'
  BY <1>1, <1>2, <1>3 DEF CopiesSound, CopySound, Owned, Doomed, Idle, Absent
<1>6. Follows(m)' /\ HasDisks(m)'
  BY <1>1, <1>3 DEF Follows, HasDisks
<1> QED
  BY <1>4, <1>5, <1>6

LEMMA SoundEnsureNamespace ==
    ASSUME TypeInv, NEW m \in Machines, Sound(m),
           EnsureNamespaceExists(m)
    PROVE  Sound(m)'
<1> USE DEF Sound, At, Held
<1>1. /\ rec[m].step = "namespace"
      /\ rec'[m] = [rec[m] EXCEPT !.step =
                        IF rec[m].annotate THEN "annotation" ELSE "getVM"]
      /\ UNCHANGED <<machine, cache, configs, vms, dying, disks, borrowed, remoteClient>>
  BY DEF EnsureNamespaceExists, GoTo, TypeInv, TypeOK
<1>2. /\ rec'[m].step = IF rec[m].annotate THEN "annotation" ELSE "getVM"
      /\ rec'[m].obj = rec[m].obj
      /\ rec'[m].client = rec[m].client
      /\ rec'[m].annotate = rec[m].annotate
  BY <1>1 DEF TypeInv, TypeOK, Reconcile
<1>3. WellFormed(m)' /\ ConfigsKnown(m)' /\ CopiesSound(m)'
  BY <1>1, <1>2 DEF WellFormed, ConfigsKnown, CopiesSound, CopySound, Owned,
     Doomed, CreationSteps, DeletionSteps
<1>4. CreationSound(m)'
  BY <1>1, <1>2 DEF CreationSound, CreationSteps
<1>5. DeletionSound(m)' /\ Follows(m)' /\ HasDisks(m)'
  BY <1>1, <1>2 DEF DeletionSound, Follows, HasDisks, DeletionSteps
<1> QED
  BY <1>3, <1>4, <1>5

LEMMA SoundAnnotateMachine ==
    ASSUME TypeInv, NEW m \in Machines, Sound(m),
           AnnotateMachine(m), m \notin overwritten'
    PROVE  Sound(m)'
<1> USE DEF Sound, At, Held
<1> DEFINE c == rec[m].client
<1>1. /\ rec[m].step = "annotation"
      /\ machine[m] = cache[m] /\ machine[m].phase # "absent"
      /\ machine'[m] = [machine[m] EXCEPT !.config = c]
      /\ rec'[m] = [rec[m] EXCEPT !.step = "getVM"]
      /\ UNCHANGED <<cache, configs, vms, dying, disks, borrowed, remoteClient>>
  BY DEF AnnotateMachine, Update, GoTo, TypeInv, TypeOK, remoteVars, otherVars
<1>2. /\ rec'[m].step = "getVM"
      /\ rec'[m].obj = rec[m].obj
      /\ rec'[m].client = rec[m].client
      /\ rec'[m].annotate = rec[m].annotate
      /\ machine'[m].phase = machine[m].phase
      /\ machine'[m].finalizer = machine[m].finalizer
      /\ machine'[m].config = c
  BY <1>1 DEF TypeInv, TypeOK, Reconcile, Object
<1>3. /\ vms[m] \cup disks[m] \subseteq {c}
      /\ machine[m].config \in {None, c}
      /\ c \in configs /\ c # None
      /\ rec[m].annotate
      /\ DefaultConfig # None => c = DefaultConfig
      /\ machine[m].finalizer /\ dying[m] = {}
  <2>1. machine[m].config \in {None, c}
    BY DEF AnnotateMachine
  <2> QED
    BY <1>1, <2>1, ConstantsAssumption
       DEF CreationSound, ConfigsKnown, CreationSteps, TypeInv, TypeOK
<1>4. WellFormed(m)' /\ ConfigsKnown(m)'
  BY <1>1, <1>2 DEF WellFormed, ConfigsKnown, Owned, Doomed, CreationSteps, DeletionSteps
<1>5. CopiesSound(m)'
  BY <1>1, <1>2, <1>3 DEF WellFormed, CopiesSound, CopySound, Owned, Doomed,
     CreationSteps, Absent
<1>6. CreationSound(m)'
  BY <1>1, <1>2, <1>3 DEF CreationSound, CreationSteps
<1>7. DeletionSound(m)'
  BY <1>1, <1>2 DEF DeletionSound, DeletionSteps
<1>8. Follows(m)' /\ HasDisks(m)'
  BY <1>1, <1>2, <1>3 DEF Follows, HasDisks
<1> QED
  BY <1>4, <1>5, <1>6, <1>7, <1>8

LEMMA SoundGetVirtualMachine ==
    ASSUME TypeInv, NEW m \in Machines, Sound(m),
           GetVirtualMachine(m)
    PROVE  Sound(m)'
<1> USE DEF Sound, At, Held
<1>1. /\ rec[m].step = "getVM"
      /\ \/ rec'[m] = Idle
         \/ rec'[m] = [rec[m] EXCEPT !.step = "createPVCs"]
      /\ UNCHANGED <<machine, cache, configs, vms, dying, disks, borrowed, remoteClient>>
  BY DEF GetVirtualMachine, GoTo, Return, TypeInv, TypeOK, remoteVars, otherVars
<1>2. \/ rec'[m] = Idle
      \/ /\ rec'[m].step = "createPVCs"
         /\ rec'[m].obj = rec[m].obj
         /\ rec'[m].client = rec[m].client
         /\ rec'[m].annotate = rec[m].annotate
  BY <1>1 DEF TypeInv, TypeOK, Reconcile
<1>3. WellFormed(m)' /\ ConfigsKnown(m)' /\ CopiesSound(m)'
  <2>1. WellFormed(m)' /\ ConfigsKnown(m)'
    BY <1>1, <1>2 DEF WellFormed, ConfigsKnown, Owned, Doomed, CreationSteps,
       DeletionSteps, Idle
  <2>2. CopiesSound(m)'
    BY <1>1, <1>2 DEF CopiesSound, CopySound, Owned, Doomed, Idle, Absent
  <2> QED
    BY <2>1, <2>2
<1>4. CreationSound(m)' /\ DeletionSound(m)' /\ Follows(m)' /\ HasDisks(m)'
  BY <1>1, <1>2 DEF CreationSound, DeletionSound, Follows, HasDisks,
     CreationSteps, DeletionSteps, Idle
<1> QED
  BY <1>3, <1>4

LEMMA SoundCreatePVCs ==
    ASSUME TypeInv, NEW m \in Machines, Sound(m),
           CreatePVCsFromDiskSpecs(m)
    PROVE  Sound(m)'
<1> USE DEF Sound, At, Held
<1> DEFINE c == rec[m].client
<1>1. /\ rec[m].step = "createPVCs"
      /\ disks'[m] \in {disks[m], disks[m] \cup {c}}
      /\ disks'[m] \cup borrowed'[m] = disks[m] \cup borrowed[m] \cup {c}
      /\ rec'[m] = [rec[m] EXCEPT !.step = "createVM"]
      /\ UNCHANGED <<machine, cache, configs, vms, dying, remoteClient>>
  BY DEF CreatePVCsFromDiskSpecs, GoTo, TypeInv, TypeOK
<1>2. /\ rec'[m].step = "createVM"
      /\ rec'[m].obj = rec[m].obj
      /\ rec'[m].client = c
      /\ rec'[m].annotate = rec[m].annotate
  BY <1>1 DEF TypeInv, TypeOK, Reconcile
<1>3. /\ machine[m].finalizer /\ machine[m].config = c
      /\ c \in configs /\ c # None
      /\ ~rec[m].annotate => cache[m].config = c
      /\ rec[m].annotate /\ DefaultConfig # None => c = DefaultConfig
  BY <1>1, ConstantsAssumption
     DEF CreationSound, ConfigsKnown, CreationSteps, TypeInv, TypeOK
<1>4. WellFormed(m)' /\ ConfigsKnown(m)' /\ CopiesSound(m)'
  BY <1>1, <1>2, <1>3 DEF WellFormed, ConfigsKnown, CopiesSound, CopySound,
     Owned, Doomed, CreationSteps, DeletionSteps, Absent
<1>5. CreationSound(m)' /\ DeletionSound(m)'
  BY <1>1, <1>2 DEF CreationSound, DeletionSound, CreationSteps, DeletionSteps
<1>6. Follows(m)' /\ HasDisks(m)'
  BY <1>1, <1>3 DEF Follows, HasDisks
<1> QED
  BY <1>4, <1>5, <1>6

LEMMA SoundCreateVirtualMachine ==
    ASSUME TypeInv, NEW m \in Machines, Sound(m),
           CreateVirtualMachine(m)
    PROVE  Sound(m)'
<1> USE DEF Sound, At, Held
<1> DEFINE c == rec[m].client
<1>1. /\ rec[m].step = "createVM"
      /\ vms'[m] = vms[m] \cup {remoteClient}
      /\ rec'[m] = Idle
      /\ UNCHANGED <<machine, cache, configs, disks, borrowed, dying, remoteClient>>
  BY DEF CreateVirtualMachine, Return, TypeInv, TypeOK
<1>2. /\ machine[m].finalizer /\ machine[m].config = c
      /\ c \in configs /\ c # None
      /\ remoteClient = c /\ c \in disks[m] \cup borrowed[m]
      /\ ~rec[m].annotate => cache[m].config = c
      /\ rec[m].annotate /\ DefaultConfig # None => c = DefaultConfig
  BY <1>1, ConstantsAssumption
     DEF CreationSound, ConfigsKnown, CreationSteps, TypeInv, TypeOK
<1>3. WellFormed(m)' /\ ConfigsKnown(m)' /\ CopiesSound(m)'
  BY <1>1, <1>2 DEF WellFormed, ConfigsKnown, CopiesSound, CopySound,
     Owned, Doomed, CreationSteps, DeletionSteps, Idle, Absent
<1>4. CreationSound(m)' /\ DeletionSound(m)'
  BY <1>1 DEF CreationSound, DeletionSound, CreationSteps, DeletionSteps, Idle
<1>5. Follows(m)' /\ HasDisks(m)'
  BY <1>1, <1>2 DEF Follows, HasDisks
<1> QED
  BY <1>3, <1>4, <1>5

LEMMA SoundDeletePVCs ==
    ASSUME TypeInv, NEW m \in Machines, Sound(m),
           DeleteAssociatedPVCs(m)
    PROVE  Sound(m)'
<1> USE DEF Sound, At, Held
<1>1. /\ rec[m].step = "deletePVCs"
      /\ disks'[m] = disks[m] \ {rec[m].client}
      /\ rec'[m] = [rec[m] EXCEPT !.step = "deleteVM"]
      /\ UNCHANGED <<machine, cache, configs, vms, dying, borrowed, remoteClient>>
  BY DEF DeleteAssociatedPVCs, GoTo, TypeInv, TypeOK
<1>2. /\ rec'[m].step = "deleteVM"
      /\ rec'[m].obj = rec[m].obj
      /\ rec'[m].client = rec[m].client
  BY <1>1 DEF TypeInv, TypeOK, Reconcile
<1>3. ~Owned(machine[m]) /\ disks'[m] = {} /\ vms[m] \subseteq {rec[m].client}
  BY <1>1 DEF DeletionSound, DeletionSteps
<1>4. WellFormed(m)' /\ ConfigsKnown(m)' /\ CopiesSound(m)'
  BY <1>1, <1>2 DEF WellFormed, ConfigsKnown, CopiesSound, CopySound, Owned,
     Doomed, CreationSteps, DeletionSteps
<1>5. CreationSound(m)' /\ DeletionSound(m)'
  BY <1>1, <1>2, <1>3 DEF CreationSound, DeletionSound, CreationSteps,
     DeletionSteps, Owned
<1>6. Follows(m)' /\ HasDisks(m)'
  BY <1>1, <1>3 DEF Follows, HasDisks, Owned
<1> QED
  BY <1>4, <1>5, <1>6

LEMMA SoundDeleteVM ==
    ASSUME TypeInv, NEW m \in Machines, Sound(m),
           DeleteVirtualMachine(m)
    PROVE  Sound(m)'
<1> USE DEF Sound, At, Held
<1>1. /\ rec[m].step = "deleteVM"
      /\ dying'[m] = dying[m] \cup ({rec[m].client} \cap vms[m])
      /\ rec'[m] = [rec[m] EXCEPT !.step = "checkVM"]
      /\ UNCHANGED <<machine, cache, configs, vms, disks, borrowed, remoteClient>>
  BY DEF DeleteVirtualMachine, GoTo, TypeInv, TypeOK
<1>2. /\ rec'[m].step = "checkVM"
      /\ rec'[m].obj = rec[m].obj
      /\ rec'[m].client = rec[m].client
  BY <1>1 DEF TypeInv, TypeOK, Reconcile
<1>3. ~Owned(machine[m]) /\ ~Owned(cache[m]) /\ ~Owned(rec[m].obj)
  BY <1>1 DEF DeletionSound, DeletionSteps, WellFormed, Owned, Absent
<1>4. WellFormed(m)' /\ ConfigsKnown(m)'
  BY <1>1, <1>2 DEF WellFormed, ConfigsKnown, Owned, Doomed, CreationSteps, DeletionSteps
<1>5. CopiesSound(m)'
  BY <1>1, <1>2, <1>3 DEF CopiesSound, CopySound, Owned, Doomed
<1>6. CreationSound(m)' /\ DeletionSound(m)'
  BY <1>1, <1>2 DEF CreationSound, DeletionSound, CreationSteps, DeletionSteps, Owned
<1>7. Follows(m)' /\ HasDisks(m)'
  BY <1>1, <1>3 DEF Follows, HasDisks, Owned
<1> QED
  BY <1>4, <1>5, <1>6, <1>7

LEMMA SoundVMExists ==
    ASSUME TypeInv, NEW m \in Machines, Sound(m),
           VirtualMachineExists(m)
    PROVE  Sound(m)'
<1> USE DEF Sound, At, Held
<1>1. /\ rec[m].step = "checkVM"
      /\ \/ rec'[m] = Idle
         \/ /\ rec[m].client \notin vms[m]
            /\ rec'[m] = [rec[m] EXCEPT !.step = "cleanupNC"]
      /\ UNCHANGED <<machine, cache, configs, vms, dying, disks, borrowed, remoteClient>>
  BY DEF VirtualMachineExists, GoTo, Return, TypeInv, TypeOK, remoteVars, otherVars
<1>2. \/ rec'[m] = Idle
      \/ /\ rec'[m].step = "cleanupNC"
         /\ rec'[m].obj = rec[m].obj
         /\ rec'[m].client = rec[m].client
         /\ vms[m] = {} /\ disks[m] = {}
  BY <1>1 DEF TypeInv, TypeOK, Reconcile, DeletionSound, DeletionSteps
<1>3. WellFormed(m)' /\ ConfigsKnown(m)' /\ CopiesSound(m)'
  <2>1. WellFormed(m)' /\ ConfigsKnown(m)'
    BY <1>1, <1>2 DEF WellFormed, ConfigsKnown, Owned, Doomed, CreationSteps,
       DeletionSteps, Idle
  <2>2. CopiesSound(m)'
    BY <1>1, <1>2 DEF CopiesSound, CopySound, Owned, Doomed, Idle, Absent
  <2> QED
    BY <2>1, <2>2
<1>4. CreationSound(m)' /\ DeletionSound(m)' /\ Follows(m)' /\ HasDisks(m)'
  BY <1>1, <1>2 DEF CreationSound, DeletionSound, Follows, HasDisks, Owned,
     CreationSteps, DeletionSteps, Idle
<1> QED
  BY <1>3, <1>4

LEMMA SoundCleanup ==
    ASSUME TypeInv, NEW m \in Machines, Sound(m),
           CleanupNetworkConfiguration(m)
    PROVE  Sound(m)'
<1> USE DEF Sound, At, Held
<1>1. /\ rec[m].step = "cleanupNC"
      /\ \/ rec'[m] = Idle
         \/ rec'[m] = [rec[m] EXCEPT !.step = "removeFinalizer"]
      /\ UNCHANGED <<machine, cache, configs, vms, dying, disks, borrowed, remoteClient>>
  BY DEF CleanupNetworkConfiguration, GoTo, Return, TypeInv, TypeOK, remoteVars, otherVars
<1>2. \/ rec'[m] = Idle
      \/ /\ rec'[m].step = "removeFinalizer"
         /\ rec'[m].obj = rec[m].obj
         /\ rec'[m].client = rec[m].client
  BY <1>1 DEF TypeInv, TypeOK, Reconcile
<1>3. WellFormed(m)' /\ ConfigsKnown(m)' /\ CopiesSound(m)'
  <2>1. WellFormed(m)' /\ ConfigsKnown(m)'
    BY <1>1, <1>2 DEF WellFormed, ConfigsKnown, Owned, Doomed, CreationSteps,
       DeletionSteps, Idle
  <2>2. CopiesSound(m)'
    BY <1>1, <1>2 DEF CopiesSound, CopySound, Owned, Doomed, Idle, Absent
  <2> QED
    BY <2>1, <2>2
<1>4. CreationSound(m)' /\ DeletionSound(m)' /\ Follows(m)' /\ HasDisks(m)'
  BY <1>1, <1>2 DEF CreationSound, DeletionSound, Follows, HasDisks, Owned,
     CreationSteps, DeletionSteps, Idle
<1> QED
  BY <1>3, <1>4

LEMMA SoundOfNoConcern ==
    ASSUME TypeInv, NEW m \in Machines, Sound(m),
           ValidationChanges(m) \/ \E c \in Clusters : DisksGone(m, c)
    PROVE  Sound(m)'
<1>1. Untouched(m) /\ UNCHANGED <<configs, remoteClient>>
  BY DEF ValidationChanges, DisksGone, Untouched, remoteVars, otherVars
<1> QED
  BY <1>1, Frame

LEMMA SoundRemoveFinalizer ==
    ASSUME TypeInv, NEW m \in Machines, Sound(m),
           RemoveMachineFinalizer(m)
    PROVE  Sound(m)'
<1> USE DEF Sound, At, Held
<1>1. /\ rec[m].step = "removeFinalizer"
      /\ \/ machine'[m] = machine[m]
         \/ machine[m].phase # "absent"
            /\ machine'[m] = [machine[m] EXCEPT !.finalizer = FALSE]
         \/ machine'[m] = Absent
      /\ rec'[m] = Idle
      /\ UNCHANGED <<cache, configs, vms, dying, disks, borrowed, remoteClient>>
  <2>1. /\ rec[m].step = "removeFinalizer"
        /\ rec'[m] = Idle
        /\ UNCHANGED <<cache, configs, vms, dying, disks, borrowed, remoteClient>>
    BY DEF RemoveMachineFinalizer, Return, TypeInv, TypeOK, remoteVars, otherVars
  <2>2. \/ machine' = machine
        \/ machine[m] = cache[m] /\ cache[m].phase # "absent"
           /\ machine' = [machine EXCEPT ![m] =
                             [cache[m] EXCEPT !.finalizer = FALSE]]
        \/ machine' = [machine EXCEPT ![m] = Absent]
    BY DEF RemoveMachineFinalizer, Update
  <2>3. \A o : machine' = [machine EXCEPT ![m] = o] => machine'[m] = o
    BY DEF TypeInv, TypeOK
  <2>4. CASE machine' = machine
    BY <2>1, <2>4
  <2>5. CASE machine[m] = cache[m] /\ cache[m].phase # "absent"
             /\ machine' = [machine EXCEPT ![m] =
                               [cache[m] EXCEPT !.finalizer = FALSE]]
    <3>1. machine'[m] = [cache[m] EXCEPT !.finalizer = FALSE]
      BY <2>3, <2>5
    <3> QED
      BY <2>1, <2>5, <3>1
  <2>6. CASE machine' = [machine EXCEPT ![m] = Absent]
    BY <2>1, <2>3, <2>6
  <2> QED
    BY <2>2, <2>4, <2>5, <2>6
<1>2. \/ machine'[m] = machine[m]
      \/ /\ ~machine'[m].finalizer
         /\ machine'[m].phase = "absent" => machine'[m] = Absent
  BY <1>1 DEF TypeInv, TypeOK, Object, Absent
<1>3. /\ vms[m] = {} /\ disks[m] = {} /\ dying[m] = {}
      /\ ~Owned(machine[m]) /\ ~Owned(cache[m])
  BY <1>1 DEF DeletionSound, DeletionSteps, ConfigsKnown
<1>4. WellFormed(m)' /\ ConfigsKnown(m)' /\ CreationSound(m)' /\ DeletionSound(m)'
  BY <1>1, <1>2, <1>3 DEF WellFormed, ConfigsKnown, CreationSound,
     DeletionSound, CreationSteps, DeletionSteps, Idle
<1>5. CopiesSound(m)'
  BY <1>1, <1>2, <1>3 DEF CopiesSound, CopySound, Owned, Doomed, Idle, Absent
<1>6. Follows(m)' /\ HasDisks(m)'
  BY <1>1, <1>3 DEF Follows, HasDisks
<1> QED
  BY <1>4, <1>5, <1>6

LEMMA SoundReconcileFails ==
    ASSUME TypeInv, NEW m \in Machines, Sound(m),
           ReconcileFails(m)
    PROVE  Sound(m)'
<1> USE DEF Sound, At, Held
<1>1. /\ rec'[m] = Idle
      /\ UNCHANGED <<machine, cache, configs, vms, dying, disks, borrowed, remoteClient>>
  BY DEF ReconcileFails, Return, TypeInv, TypeOK, remoteVars, otherVars
<1>2. WellFormed(m)' /\ ConfigsKnown(m)' /\ CopiesSound(m)'
  <2>1. WellFormed(m)' /\ ConfigsKnown(m)'
    BY <1>1 DEF WellFormed, ConfigsKnown, Owned, Doomed, CreationSteps,
       DeletionSteps, Idle
  <2>2. CopiesSound(m)'
    BY <1>1 DEF CopiesSound, CopySound, Owned, Doomed, Idle, Absent
  <2> QED
    BY <2>1, <2>2
<1>3. CreationSound(m)' /\ DeletionSound(m)' /\ Follows(m)' /\ HasDisks(m)'
  BY <1>1 DEF CreationSound, DeletionSound, Follows, HasDisks,
     CreationSteps, DeletionSteps, Idle
<1> QED
  BY <1>2, <1>3

-----------------------------------------------------------------------------
(* Every step.                                                             *)

LEMMA OthersUntouched ==
    ASSUME TypeInv, NEW m \in Machines, NEW n \in Machines, n # m,
           \/ UserCreates(m) \/ UserAnnotates(m) \/ UserDeletes(m)
           \/ OthersRelease(m) \/ CacheSync(m) \/ ValidationChanges(m)
           \/ \E c \in Clusters : VMGone(m, c) \/ DisksGone(m, c)
           \/ Operator(m)
    PROVE  Untouched(n) /\ configs' = configs
<1> USE DEF TypeInv, TypeOK, Untouched, remoteVars, otherVars
<1>1. CASE UserCreates(m) \/ UserAnnotates(m) \/ UserDeletes(m) \/ OthersRelease(m)
  BY <1>1 DEF UserCreates, UserAnnotates, UserDeletes, OthersRelease
<1>2. CASE \/ CacheSync(m) \/ ValidationChanges(m)
           \/ \E c \in Clusters : VMGone(m, c) \/ DisksGone(m, c)
  BY <1>2 DEF CacheSync, ValidationChanges, VMGone, DisksGone
<1>3. CASE FetchAndInitMachine(m) \/ GetOrCreateClientFromMachine(m)
  BY <1>3 DEF FetchAndInitMachine, GetOrCreateClientFromMachine
<1>4. CASE Creation(m)
  BY <1>4 DEF Creation, AddFinalizer, EnsureNamespaceExists, AnnotateMachine,
     GetVirtualMachine, CreatePVCsFromDiskSpecs, CreateVirtualMachine, Update,
     GoTo, Return
<1>5. CASE Deletion(m) \/ ReconcileFails(m)
  BY <1>5 DEF Deletion, DeleteAssociatedPVCs, DeleteVirtualMachine,
     VirtualMachineExists, CleanupNetworkConfiguration, RemoveMachineFinalizer,
     ReconcileFails, Update, GoTo, Return
<1> QED
  BY <1>1, <1>2, <1>3, <1>4, <1>5 DEF Operator

\* Only FetchAndInitMachine starts a reconcile, and it waits for its turn.
LEMMA OneReconcileStep ==
    ASSUME PlacementInvariant, Serial, [Next]_vars PROVE OneReconcile'
<1> USE DEF PlacementInvariant, OneReconcile, At
<1>1. ASSUME NEW m \in Machines, FetchAndInitMachine(m) PROVE OneReconcile'
  <2>1. IsFiniteSet(Active)
    BY ConstantsAssumption, FS_Subset DEF Active
  <2>2. Cardinality(Active) = 0
    BY <1>1, <2>1, FS_CardinalityType DEF FetchAndInitMachine, Serial
  <2>3. Active = {}
    BY <2>1, <2>2, FS_EmptySet
  <2>4. \A n \in Machines : rec[n].step = "idle"
    BY <2>3 DEF Active
  <2>5. \A n \in Machines : n # m => rec'[n] = rec[n]
    BY <1>1 DEF FetchAndInitMachine, TypeInv, TypeOK
  <2> QED
    BY <2>4, <2>5
<1>2. ASSUME NEW m \in Machines, GetOrCreateClientFromMachine(m)
                                  \/ Creation(m) \/ Deletion(m) \/ ReconcileFails(m)
      PROVE  OneReconcile'
  <2>1. rec[m].step # "idle"
    BY <1>2 DEF GetOrCreateClientFromMachine, Creation, AddFinalizer,
       EnsureNamespaceExists, AnnotateMachine, GetVirtualMachine,
       CreatePVCsFromDiskSpecs, CreateVirtualMachine, Deletion,
       DeleteAssociatedPVCs, DeleteVirtualMachine, VirtualMachineExists,
       CleanupNetworkConfiguration, RemoveMachineFinalizer, ReconcileFails
  <2>2. \A n \in Machines : n # m => rec'[n] = rec[n]
    BY <1>2, OthersUntouched DEF Operator, Untouched
  <2> QED
    BY <2>1, <2>2
<1>3. ASSUME Environment \/ UNCHANGED vars PROVE OneReconcile'
  <2>1. UNCHANGED rec \/ \A n \in Machines : rec'[n] = Idle
    BY <1>3 DEF Environment, UserCreates, UserAnnotates, UserDeletes,
       OthersRelease, CacheSync, ValidationChanges, VMGone, DisksGone,
       AdminAddsConfig, Crash, vars
  <2> QED
    BY <2>1 DEF Idle
<1> QED
  BY <1>1, <1>2, <1>3 DEF Next, Operator

LEMMA PlacementInit == ASSUME Init PROVE PlacementInvariant
<1>1. PICK home \in [Legacy -> InitialConfigs] :
         /\ machine = [m \in Machines |->
               IF m \in Legacy
               THEN [phase |-> "live", finalizer |-> TRUE, config |-> None]
               ELSE Absent]
         /\ cache = machine
         /\ configs = InitialConfigs
         /\ vms = [m \in Machines |-> IF m \in Legacy THEN {home[m]} ELSE {}]
         /\ disks = vms
         /\ dying = [m \in Machines |-> {}]
         /\ overwritten = {}
         /\ rec = [m \in Machines |-> Idle]
  BY DEF Init
<1>2. OneReconcile
  BY <1>1 DEF OneReconcile, At, Idle
<1>3. ASSUME NEW m \in Machines PROVE Sound(m)
  <2>1. /\ cache[m] = machine[m] /\ rec[m] = Idle
        /\ \/ /\ m \in Legacy
              /\ machine[m].phase = "live" /\ machine[m].finalizer
              /\ machine[m].config = None
              /\ vms[m] = {home[m]} /\ disks[m] = {home[m]}
              /\ home[m] \in configs
           \/ /\ machine[m] = Absent
              /\ vms[m] = {} /\ disks[m] = {}
        /\ dying[m] = {}
    BY <1>1
  <2>2. WellFormed(m) /\ ConfigsKnown(m) /\ CreationSound(m) /\ DeletionSound(m)
    BY <2>1 DEF WellFormed, ConfigsKnown, CreationSound, DeletionSound, At, Held,
       Idle, CreationSteps, DeletionSteps
  <2>3. CopiesSound(m)
    BY <2>1 DEF CopiesSound, CopySound, Owned, Doomed, At, Idle, Absent
  <2>4. Follows(m) /\ HasDisks(m)
    BY <2>1 DEF Follows, HasDisks, Held
  <2> QED
    BY <2>2, <2>3, <2>4 DEF Sound
<1> QED
  BY <1>1, <1>2, <1>3, TypeInit DEF PlacementInvariant

\* A placement is overwritten by AnnotateMachine alone, where users may
\* annotate late and the choice was not a VM found.
LEMMA OverwrittenStep ==
    ASSUME PlacementInvariant, [Next]_vars
    PROVE  /\ overwritten \subseteq overwritten'
           /\ LateOnlyWithSearch => overwritten' = {}
<1>1. CASE overwritten' = overwritten
  BY <1>1 DEF PlacementInvariant
<1>2. ASSUME NEW m \in Machines, AnnotateMachine(m)
      PROVE  /\ overwritten \subseteq overwritten'
             /\ LateOnlyWithSearch => overwritten' = {}
  <2>1. ASSUME LateOnlyWithSearch PROVE machine[m].config \in {None, rec[m].client}
    BY <1>2, <2>1 DEF AnnotateMachine, PlacementInvariant, Sound, CreationSound, At
  <2> QED
    BY <1>2, <2>1 DEF AnnotateMachine, PlacementInvariant
<1>3. overwritten' = overwritten \/ \E m \in Machines : AnnotateMachine(m)
  <2>1. CASE Environment \/ UNCHANGED vars
    BY <2>1 DEF Environment, UserCreates, UserAnnotates, UserDeletes,
       OthersRelease, CacheSync, ValidationChanges, VMGone, DisksGone,
       AdminAddsConfig, Crash, vars, otherVars
  <2>2. ASSUME NEW m \in Machines, Operator(m), ~AnnotateMachine(m)
        PROVE  overwritten' = overwritten
    BY <2>2 DEF Operator, Creation, Deletion, FetchAndInitMachine,
       GetOrCreateClientFromMachine, AddFinalizer, EnsureNamespaceExists,
       GetVirtualMachine, CreatePVCsFromDiskSpecs, CreateVirtualMachine,
       DeleteAssociatedPVCs, DeleteVirtualMachine, VirtualMachineExists,
       CleanupNetworkConfiguration, RemoveMachineFinalizer, ReconcileFails,
       otherVars
  <2> QED
    BY <2>1, <2>2 DEF Next
<1> QED
  BY <1>1, <1>2, <1>3

LEMMA PlacementStep ==
    ASSUME PlacementInvariant, Serial, [Next]_vars
    PROVE  PlacementInvariant'
<1>1. TypeInv' /\ OneReconcile'
  BY TypeStep, OneReconcileStep DEF PlacementInvariant
<1>2. configs \subseteq configs'
  BY DEF Next, Environment, Operator, UserCreates, UserAnnotates, UserDeletes,
     OthersRelease, CacheSync, ValidationChanges, VMGone, DisksGone,
     AdminAddsConfig, Crash, Creation, Deletion,
     FetchAndInitMachine, GetOrCreateClientFromMachine, AddFinalizer,
     EnsureNamespaceExists, AnnotateMachine, GetVirtualMachine,
     CreatePVCsFromDiskSpecs, CreateVirtualMachine, DeleteAssociatedPVCs,
     DeleteVirtualMachine, VirtualMachineExists, CleanupNetworkConfiguration,
     RemoveMachineFinalizer, ReconcileFails, vars
<1>3. ASSUME NEW n \in Machines, n \notin overwritten' PROVE Sound(n)'
  <2> Sound(n) /\ TypeInv /\ InitialConfigs \subseteq configs /\ OneReconcile
    BY <1>3, OverwrittenStep DEF PlacementInvariant
  <2>1. ASSUME NEW m \in Machines,
               \/ UserCreates(m) \/ UserAnnotates(m) \/ UserDeletes(m)
               \/ OthersRelease(m) \/ CacheSync(m) \/ ValidationChanges(m)
               \/ \E c \in Clusters : VMGone(m, c) \/ DisksGone(m, c)
        PROVE  Sound(n)'
    <3>1. CASE n = m
      BY <2>1, <3>1, SoundUserCreates, SoundUserAnnotates, SoundUserDeletes,
         SoundCacheSync, SoundVMGone, SoundOfNoConcern
    <3>2. CASE n # m
      <4>1. remoteClient' = remoteClient
        BY <2>1 DEF UserCreates, UserAnnotates, UserDeletes, OthersRelease,
           CacheSync, ValidationChanges, VMGone, DisksGone
      <4> QED
        BY <2>1, <3>2, <4>1, OthersUntouched, Frame
    <3> QED
      BY <3>1, <3>2
  <2>2. ASSUME NEW m \in Machines, Operator(m) PROVE Sound(n)'
    <3>1. CASE n = m
      BY <1>3, <2>2, <3>1, SoundFetch, SoundGetOrCreateClient, SoundAddFinalizer,
         SoundEnsureNamespace, SoundAnnotateMachine, SoundGetVirtualMachine,
         SoundCreatePVCs, SoundCreateVirtualMachine, SoundDeletePVCs,
         SoundDeleteVM, SoundVMExists, SoundCleanup, SoundRemoveFinalizer,
         SoundReconcileFails
         DEF Operator, Creation, Deletion
    <3>2. CASE n # m
      <4>1. remoteClient' = remoteClient \/ ~At(m, "idle")
        BY <2>2 DEF Operator, Creation, Deletion, FetchAndInitMachine,
           GetOrCreateClientFromMachine, AddFinalizer, EnsureNamespaceExists,
           AnnotateMachine, GetVirtualMachine, CreatePVCsFromDiskSpecs,
           CreateVirtualMachine, DeleteAssociatedPVCs, DeleteVirtualMachine,
           VirtualMachineExists, CleanupNetworkConfiguration,
           RemoveMachineFinalizer, ReconcileFails, At
      <4>2. remoteClient' = remoteClient \/ At(n, "idle")
        BY <3>2, <4>1 DEF OneReconcile
      <4> QED
        BY <2>2, <3>2, <4>2, OthersUntouched, Frame
    <3> QED
      BY <3>1, <3>2
  <2>3. CASE (\E c \in Clusters : AdminAddsConfig(c)) \/ UNCHANGED vars
    <3>1. Untouched(n) /\ remoteClient' = remoteClient
      BY <2>3 DEF AdminAddsConfig, vars, remoteVars, otherVars, Untouched
    <3> QED
      BY <1>2, <3>1, Frame
  <2>4. CASE Crash
    BY <2>4, SoundCrash
  <2> QED
    BY <2>1, <2>2, <2>3, <2>4 DEF Next, Environment
<1> QED
  BY <1>1, <1>2, <1>3, OverwrittenStep DEF PlacementInvariant

\* With one reconcile at a time, what a reconcile has read or chosen stays true
\* of the Machine until it uses it, whatever is stale, lost or restarted between
\* its calls, or until it overwrites an annotation that was not there when it
\* chose (machine_controller.go:118-163, :439-538).
THEOREM SerialPlacementInvariant ==
    ASSUME Serial PROVE Spec => []PlacementInvariant
<1>1. Init => PlacementInvariant
  BY PlacementInit
<1>2. PlacementInvariant /\ [Next]_vars => PlacementInvariant'
  BY PlacementStep
<1> QED
  BY <1>1, <1>2, PTL DEF Spec

\* So everything that exists for a Machine whose annotation the operator has not
\* overwritten is in the cluster of the annotation, and the Machine has the
\* finalizer (machine_controller.go:489 finds it there).
THEOREM SerialResourcesFollowPlacement ==
    ASSUME Serial PROVE Spec => []ResourcesFollowPlacement
<1>1. PlacementInvariant => ResourcesFollowPlacement
  BY DEF PlacementInvariant, Sound, Follows, ResourcesFollowPlacement
<1> QED
  BY <1>1, SerialPlacementInvariant, PTL

\* And a live Machine's VM has the disks it was created with in its cluster, but
\* for a PVC that was terminating when the creation found it
\* (machine_controller.go:357-363, :505; storage_manager.go:200-206, :302-318).
THEOREM SerialVMHasItsDisks ==
    ASSUME Serial PROVE Spec => []VMHasItsDisks
<1>1. PlacementInvariant => VMHasItsDisks
  BY DEF PlacementInvariant, Sound, HasDisks, VMHasItsDisks
<1> QED
  BY <1>1, SerialPlacementInvariant, PTL

\* AnnotateMachine (machine_controller.go:136-157) may overwrite an annotation
\* written after the operator chose, but not once something exists for the
\* Machine: nor does any other step, of the operator or of a user, change it then.
THEOREM SerialPlacementKeptOnceUsed ==
    ASSUME Serial PROVE Spec => PlacementKeptOnceUsed
<1> DEFINE Kept == \A m \in Machines \ overwritten :
                      machine[m].config # None /\ machine'[m].phase # "absent"
                            /\ Held(m) # {} =>
                          machine'[m].config = machine[m].config
<1>1. PlacementInvariant /\ [Next]_vars => [Kept]_vars
  <2> SUFFICES ASSUME PlacementInvariant, Next, NEW m \in Machines \ overwritten,
                      machine[m].config # None, machine'[m].phase # "absent",
                      Held(m) # {}
               PROVE  machine'[m].config = machine[m].config
    BY DEF PlacementInvariant
  <2> TypeInv /\ Sound(m)
    BY DEF PlacementInvariant
  <2>1. machine[m].phase # "absent"
    BY DEF Sound, WellFormed, Absent
  <2>2. ASSUME NEW n \in Machines,
               \/ UserCreates(n) \/ UserAnnotates(n) \/ UserDeletes(n)
               \/ OthersRelease(n)
        PROVE  machine'[m].config = machine[m].config
    BY <2>1, <2>2 DEF UserCreates, UserAnnotates, UserDeletes, OthersRelease,
       TypeInv, TypeOK, Object, Absent
  <2>3. ASSUME NEW n \in Machines, AnnotateMachine(n)
        PROVE  machine'[m].config = machine[m].config
    <3>1. CASE n # m
      BY <2>3, <3>1 DEF AnnotateMachine, Update, TypeInv, TypeOK
    <3>2. CASE n = m
      <4>1. machine[m].config = rec[m].client
        BY <2>3, <3>2 DEF AnnotateMachine, Sound, CreationSound, At
      <4>2. machine'[m] = [machine[m] EXCEPT !.config = rec[m].client]
        BY <2>3, <3>2 DEF AnnotateMachine, Update, TypeInv, TypeOK
      <4> QED
        BY <4>1, <4>2 DEF TypeInv, TypeOK, Object
    <3> QED
      BY <3>1, <3>2
  <2>4. ASSUME NEW n \in Machines, AddFinalizer(n) \/ RemoveMachineFinalizer(n)
        PROVE  machine'[m].config = machine[m].config
    <3>1. machine' = machine
          \/ \E b \in BOOLEAN : machine' =
                [machine EXCEPT ![n] = [machine[n] EXCEPT !.finalizer = b]]
          \/ machine' = [machine EXCEPT ![n] = Absent]
      BY <2>4 DEF AddFinalizer, RemoveMachineFinalizer, Update
    <3>2. ASSUME NEW b \in BOOLEAN,
                 machine' = [machine EXCEPT ![n] = [machine[n] EXCEPT !.finalizer = b]]
          PROVE  machine'[m].config = machine[m].config
      <4>1. CASE n = m
        <5>1. machine'[m] = [machine[m] EXCEPT !.finalizer = b]
          BY <3>2, <4>1 DEF TypeInv, TypeOK
        <5> QED
          BY <5>1 DEF TypeInv, TypeOK, Object
      <4> QED
        BY <3>2, <4>1 DEF TypeInv, TypeOK
    <3>3. CASE machine' = [machine EXCEPT ![n] = Absent]
      BY <3>3 DEF TypeInv, TypeOK, Absent
    <3> QED
      BY <3>1, <3>2, <3>3
  <2>5. CASE UNCHANGED machine
    BY <2>5
  <2>6. ASSUME NEW n \in Machines, Operator(n),
               ~AnnotateMachine(n), ~AddFinalizer(n), ~RemoveMachineFinalizer(n)
        PROVE  UNCHANGED machine
    BY <2>6 DEF Operator, Creation, Deletion, FetchAndInitMachine,
       GetOrCreateClientFromMachine, EnsureNamespaceExists, GetVirtualMachine,
       CreatePVCsFromDiskSpecs, CreateVirtualMachine, DeleteAssociatedPVCs,
       DeleteVirtualMachine, VirtualMachineExists, CleanupNetworkConfiguration,
       ReconcileFails
  <2>7. ASSUME NEW n \in Machines,
               \/ CacheSync(n) \/ ValidationChanges(n)
               \/ \E c \in Clusters : VMGone(n, c) \/ DisksGone(n, c)
        PROVE  UNCHANGED machine
    BY <2>7 DEF CacheSync, ValidationChanges, VMGone, DisksGone
  <2>8. ASSUME Crash \/ \E c \in Clusters : AdminAddsConfig(c)
        PROVE  UNCHANGED machine
    BY <2>8 DEF Crash, AdminAddsConfig
  <2> QED
    BY <2>2, <2>3, <2>4, <2>5, <2>6, <2>7, <2>8 DEF Next, Environment
<1> QED
  BY <1>1, SerialPlacementInvariant, PTL DEF PlacementKeptOnceUsed, Spec
=============================================================================
