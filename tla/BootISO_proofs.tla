---------------------------- MODULE BootISO_proofs ----------------------------
(***************************************************************************)
(* The safety properties of BootISO, for any number of Machines and ISOs.  *)
(* Nothing is left behind by any number of workers; that an attached ISO   *)
(* is imported, and stays until it is detached, is a matter of one.        *)
(***************************************************************************)
EXTENDS BootISO, FiniteSetTheorems, TLAPS

\* A Machine that is there has an image; one that is not has no VM, and nobody
\* creates one for it.  A VMI has a VM, and what a handler has found out about
\* either still holds when it goes on.
Sound(m) ==
    /\ machine[m].phase # "absent" => machine[m].image \in ISOs
    /\ machine[m].phase = "absent" => vms[m] = NoVM
    /\ cache[m].phase = "live" =>
          cache[m].image \in ISOs /\ machine[m].phase # "absent"
    /\ rec[m].step \in CreationSteps =>
          rec[m].obj.image \in ISOs /\ machine[m].phase # "absent"
    /\ vms[m].state = "none" => vms[m] = NoVM /\ vmis[m] = NoVMI
    /\ At(m, "deleteDV") => vms[m].cdrom = None
    /\ rec[m].step \in GCSteps \cup {"removeFinalizer"} => vms[m].state = "none"
    /\ ~shared => rec[m].step \notin {"ensureISO", "createDV"}

\* m is there and its deletion has v on its list, or has yet to make the list.
WillCollect(m, v) ==
    /\ machine[m].phase # "absent"
    /\ \/ rec[m].step \notin {"gcVMs", "gcVMIs", "gcDelete", "removeFinalizer"}
       \/ v \in rec[m].left

\* Shared volumes are for the shared mode, and somebody will collect each.
VolumesSound ==
    \A v \in ISOs : dvs[v] # "none" =>
        /\ shared
        /\ ~swallowed => \E m \in Machines : WillCollect(m, v)

\* Inductive for any number of workers.
ISOInvariant ==
    /\ TypeOK
    /\ \A m \in Machines : Sound(m)
    /\ VolumesSound

\* One worker.
Serial == MaxConcurrentReconciles = 1

OneReconcile ==
    \A m, o \in Machines : ~At(m, "idle") /\ ~At(o, "idle") => m = o

\* What a handler has found out about the other Machines' volumes still holds:
\* the image it goes to attach is imported, the volumes it goes to delete have
\* no references.
VolumesKnown(m) ==
    /\ shared /\ At(m, "createVM") => dvs[rec[m].obj.image] = "ready"
    /\ \A v \in rec[m].left : \A o \in Machines :
          /\ rec[m].step \in {"gcVMIs", "gcDelete"} => vms[o].cdrom # v
          /\ At(m, "gcDelete") => vmis[o].cdrom # v

\* Inductive for one worker.
SerialInvariant ==
    /\ ISOInvariant
    /\ OneReconcile
    /\ \A m \in Machines : VolumesKnown(m)
    /\ AttachedISOIsImported

-----------------------------------------------------------------------------
(* Types                                                                   *)

USE DEF At, GoTo, Return

LEMMA ConstantsTyped ==
    /\ Absent \in MachineObject /\ Absent.phase = "absent"
    /\ NoVM \in VirtualMachine /\ NoVM.state = "none" /\ NoVM.cdrom = None
    /\ NoVMI \in Instance /\ NoVMI.state = "none" /\ NoVMI.cdrom = None
    /\ Idle \in Reconcile /\ Idle.step = "idle" /\ Idle.left = {}
<1>1. Absent \in MachineObject /\ Absent.phase = "absent"
  BY DEF Absent, MachineObject
<1>2. /\ NoVM \in VirtualMachine /\ NoVM.state = "none" /\ NoVM.cdrom = None
      /\ NoVMI \in Instance /\ NoVMI.state = "none" /\ NoVMI.cdrom = None
  BY DEF NoVM, VirtualMachine, NoVMI, Instance, OptionalVolume
<1>3. Idle \in Reconcile /\ Idle.step = "idle" /\ Idle.left = {}
  BY <1>1 DEF Idle, Reconcile
<1> QED
  BY <1>1, <1>2, <1>3

LEMMA ObjectsTyped ==
    ASSUME NEW o \in MachineObject
    PROVE  /\ [o EXCEPT !.phase = "deleting"] \in MachineObject
           /\ [o EXCEPT !.installed = TRUE] \in MachineObject
           /\ [o EXCEPT !.cleaned = TRUE] \in MachineObject
BY DEF MachineObject

LEMMA InitTyped == ASSUME Init PROVE TypeOK
<1>1. /\ machine \in [Machines -> MachineObject] /\ cache \in [Machines -> MachineObject]
      /\ vms \in [Machines -> VirtualMachine] /\ vmis \in [Machines -> Instance]
      /\ rec \in [Machines -> Reconcile]
  BY ConstantsTyped DEF Init
<1> QED
  BY <1>1, ConstantsTyped DEF Init, TypeOK, GCSteps

LEMMA RemoteTyped ==
    ASSUME TypeOK, RemoteCluster PROVE TypeOK'
<1>1. ASSUME NEW m \in Machines, VMDeletedRemotely(m) PROVE TypeOK'
  BY <1>1 DEF VMDeletedRemotely, TypeOK, VirtualMachine
<1>2. ASSUME NEW m \in Machines, VMGone(m) PROVE TypeOK'
  BY <1>2, ConstantsTyped DEF VMGone, TypeOK
<1>3. ASSUME NEW m \in Machines, VolumeFromTemplate(m) PROVE TypeOK'
  BY <1>3 DEF VolumeFromTemplate, TypeOK
<1>4. ASSUME NEW v \in Volumes, ImportSucceeds(v) PROVE TypeOK'
  BY <1>4 DEF ImportSucceeds, TypeOK
<1>5. ASSUME NEW m \in Machines, VMIStarts(m) PROVE TypeOK'
  <2>1. [state |-> "running", cdrom |-> vms[m].cdrom] \in Instance
    BY DEF TypeOK, VirtualMachine, Instance
  <2> QED
    BY <1>5, <2>1 DEF VMIStarts, TypeOK
<1>6. ASSUME NEW m \in Machines, AgentConnects(m) PROVE TypeOK'
  BY <1>6 DEF AgentConnects, TypeOK, Instance
<1>7. ASSUME NEW m \in Machines, VMIStops(m) PROVE TypeOK'
  BY <1>7, ConstantsTyped DEF VMIStops, TypeOK
<1> QED
  BY <1>1, <1>2, <1>3, <1>4, <1>5, <1>6, <1>7 DEF RemoteCluster

\* A new object for m, and nothing else that TypeOK speaks of but its handler.
LEMMA ObjectTyped ==
    ASSUME TypeOK, NEW m \in Machines, NEW o \in MachineObject,
           machine' = [machine EXCEPT ![m] = o],
           rec' = rec \/ Return(m),
           UNCHANGED <<cache, dvs, vms, vmis, shared, swallowed>>
    PROVE  TypeOK'
<1>1. machine' \in [Machines -> MachineObject]
  BY DEF TypeOK
<1>2. /\ rec' \in [Machines -> Reconcile]
      /\ \A n \in Machines : rec'[n].step \notin GCSteps => rec'[n].left = {}
  BY ConstantsTyped DEF TypeOK
<1> QED
  BY <1>1, <1>2 DEF TypeOK

LEMMA SupervisorTyped ==
    ASSUME TypeOK, Supervisor PROVE TypeOK'
<1>1. ASSUME NEW m \in Machines, UserCreates(m) PROVE TypeOK'
  <2>1. PICK i \in ISOs : machine' = [machine EXCEPT
            ![m] = [Absent EXCEPT !.phase = "live", !.image = i]]
    BY <1>1 DEF UserCreates
  <2>2. [Absent EXCEPT !.phase = "live", !.image = i] \in MachineObject
    BY DEF Absent, MachineObject
  <2> QED
    BY <1>1, <2>1, <2>2, ObjectTyped DEF UserCreates
<1>2. ASSUME NEW m \in Machines, UserDeletes(m) PROVE TypeOK'
  <2>1. [machine[m] EXCEPT !.phase = "deleting"] \in MachineObject
    BY ObjectsTyped DEF TypeOK
  <2>2. machine' = [machine EXCEPT ![m] = [machine[m] EXCEPT !.phase = "deleting"]]
    BY <1>2 DEF UserDeletes, TypeOK
  <2> QED
    BY <1>2, <2>1, <2>2, ObjectTyped DEF UserDeletes
<1>3. ASSUME NEW m \in Machines, MarkedInstalled(m) PROVE TypeOK'
  <2>1. [machine[m] EXCEPT !.installed = TRUE] \in MachineObject
    BY ObjectsTyped DEF TypeOK
  <2>2. machine' = [machine EXCEPT ![m] = [machine[m] EXCEPT !.installed = TRUE]]
    BY <1>3 DEF MarkedInstalled, TypeOK
  <2> QED
    BY <1>3, <2>1, <2>2, ObjectTyped DEF MarkedInstalled
<1>4. ASSUME NEW m \in Machines, CacheSync(m) PROVE TypeOK'
  BY <1>4 DEF CacheSync, TypeOK
<1>5. ASSUME Crash PROVE TypeOK'
  BY <1>5, ConstantsTyped DEF Crash, TypeOK
<1> QED
  BY <1>1, <1>2, <1>3, <1>4, <1>5 DEF Supervisor

\* A handler's step, by the locals it leaves.
LEMMA HandlerTyped ==
    ASSUME TypeOK, NEW m \in Machines, NEW r \in Reconcile,
           rec' = [rec EXCEPT ![m] = r], r.step \notin GCSteps => r.left = {}
    PROVE  /\ rec' \in [Machines -> Reconcile]
           /\ rec'[m] = r
           /\ \A n \in Machines : n # m => rec'[n] = rec[n]
           /\ \A n \in Machines : rec'[n].step \notin GCSteps => rec'[n].left = {}
BY DEF TypeOK

Steps == {"idle"} \cup CreationSteps \cup DeletionSteps

LEMMA StepTyped ==
    ASSUME NEW q \in Reconcile, NEW step \in Steps
    PROVE  /\ [q EXCEPT !.step = step] \in Reconcile
           /\ [q EXCEPT !.step = step].step = step
           /\ [q EXCEPT !.step = step].obj = q.obj
           /\ [q EXCEPT !.step = step].left = q.left
BY DEF Reconcile, Steps

LEMMA GCOnFacts ==
    ASSUME TypeOK, NEW m \in Machines, NEW left \in SUBSET ISOs,
           NEW step \in GCSteps \cup {"removeFinalizer"}, GCOn(m, left, step)
    PROVE  /\ rec' \in [Machines -> Reconcile]
           /\ rec'[m].left = left
           /\ rec'[m].step = IF left = {} THEN "removeFinalizer" ELSE step
           /\ rec'[m].obj = rec[m].obj
           /\ \A n \in Machines : n # m => rec'[n] = rec[n]
<1> DEFINE next == IF left = {} THEN "removeFinalizer" ELSE step
           r == [rec[m] EXCEPT !.left = left, !.step = next]
<1>1. rec' = [rec EXCEPT ![m] = r]
  BY DEF GCOn, TypeOK
<1>2. rec[m] \in Reconcile /\ next \in Steps
  BY DEF TypeOK, Steps, DeletionSteps
<1> HIDE DEF next
<1>3. r \in Reconcile /\ r.left = left /\ r.obj = rec[m].obj /\ r.step = next
  <2>1. ASSUME NEW q \in Reconcile, NEW t \in Steps
        PROVE  LET u == [q EXCEPT !.left = left, !.step = t] IN
               u \in Reconcile /\ u.left = left /\ u.obj = q.obj /\ u.step = t
    BY <2>1 DEF Reconcile, Steps
  <2> QED
    BY <1>2, <2>1, Zenon
<1> HIDE DEF r
<1>4. /\ rec' \in [Machines -> Reconcile]
      /\ rec'[m] = r
      /\ \A n \in Machines : n # m => rec'[n] = rec[n]
  BY <1>1, <1>3 DEF TypeOK
<1> QED
  BY <1>3, <1>4 DEF next

\* A handler that goes to another step without a list of volumes.
LEMMA GoToFacts ==
    ASSUME TypeOK, NEW m \in Machines, NEW step \in Steps, GoTo(m, step),
           rec[m].step \notin GCSteps
    PROVE  /\ rec' \in [Machines -> Reconcile]
           /\ rec'[m].step = step
           /\ rec'[m].obj = rec[m].obj
           /\ rec'[m].left = {}
           /\ \A n \in Machines : n # m => rec'[n] = rec[n]
<1> DEFINE r == [rec[m] EXCEPT !.step = step]
<1>1. rec' = [rec EXCEPT ![m] = r]
  BY DEF TypeOK
<1>2. rec[m] \in Reconcile /\ rec[m].left = {}
  BY DEF TypeOK
<1>3. r \in Reconcile /\ r.left = {} /\ r.obj = rec[m].obj /\ r.step = step
  BY <1>2, StepTyped, Zenon
<1> HIDE DEF r
<1> QED
  BY <1>1, <1>3 DEF TypeOK

LEMMA ReturnFacts ==
    ASSUME TypeOK, NEW m \in Machines, Return(m)
    PROVE  /\ rec' \in [Machines -> Reconcile]
           /\ rec'[m].step = "idle"
           /\ rec'[m].left = {}
           /\ \A n \in Machines : n # m => rec'[n] = rec[n]
BY ConstantsTyped DEF TypeOK

\* A handler that goes on with what it found out about the CD-ROM of its VM.
LEMMA HasCDFacts ==
    ASSUME TypeOK, NEW m \in Machines, NEW step \in Steps, NEW hasCD \in BOOLEAN,
           rec' = [rec EXCEPT ![m].hasCD = hasCD, ![m].step = step],
           rec[m].step \notin GCSteps
    PROVE  /\ rec' \in [Machines -> Reconcile]
           /\ rec'[m].step = step
           /\ rec'[m].obj = rec[m].obj
           /\ rec'[m].left = {}
           /\ \A n \in Machines : n # m => rec'[n] = rec[n]
<1> DEFINE r == [rec[m] EXCEPT !.hasCD = hasCD, !.step = step]
<1>1. rec' = [rec EXCEPT ![m] = r]
  BY DEF TypeOK
<1>2. rec[m] \in Reconcile /\ rec[m].left = {}
  BY DEF TypeOK
<1>3. r \in Reconcile /\ r.left = {} /\ r.obj = rec[m].obj /\ r.step = step
  <2>1. ASSUME NEW q \in Reconcile
        PROVE  LET u == [q EXCEPT !.hasCD = hasCD, !.step = step] IN
               u \in Reconcile /\ u.left = q.left /\ u.obj = q.obj /\ u.step = step
    BY <2>1 DEF Reconcile, Steps
  <2>2. r \in Reconcile /\ r.left = rec[m].left /\ r.obj = rec[m].obj /\ r.step = step
    BY <1>2, <2>1, Zenon
  <2> HIDE DEF r
  <2> QED
    BY <1>2, <2>2
<1> HIDE DEF r
<1>4. rec' \in [Machines -> Reconcile] /\ rec'[m] = r
      /\ \A n \in Machines : n # m => rec'[n] = rec[n]
  BY <1>1, <1>3, HandlerTyped, Zenon
<1> QED
  BY <1>3, <1>4, Zenon

\* What every step of the handler of m keeps of the others, and of the rest.
HandlerStep(m) ==
    /\ rec' \in [Machines -> Reconcile]
    /\ rec'[m].step \notin GCSteps => rec'[m].left = {}
    /\ \A n \in Machines : n # m => rec'[n] = rec[n]
    /\ UNCHANGED <<cache, vmis, shared>>

LEMMA HandlerStepTyped ==
    ASSUME TypeOK, NEW m \in Machines, HandlerStep(m),
           machine' = machine
               \/ \E o \in MachineObject : machine' = [machine EXCEPT ![m] = o],
           dvs' = dvs \/ \E v \in Volumes : \E d \in {"none", "importing"} :
               dvs' \in {dvs, [dvs EXCEPT ![v] = d]},
           \/ vms' = vms
           \/ \E w \in VirtualMachine :
                 /\ vms' = [vms EXCEPT ![m] = w]
                 /\ w.cdrom \in {None} \cup (IF shared THEN ISOs ELSE {m}),
           swallowed' \in BOOLEAN
    PROVE  TypeOK'
<1>1. machine' \in [Machines -> MachineObject]
  BY DEF TypeOK
<1>2. dvs' \in [Volumes -> {"none", "importing", "ready"}]
  BY DEF TypeOK
<1>3. /\ vms' \in [Machines -> VirtualMachine]
      /\ \A n \in Machines : vms'[n].cdrom \in {None} \cup (IF shared THEN ISOs ELSE {n})
  <2>1. \A n \in Machines : vms[n].cdrom \in {None} \cup (IF shared THEN ISOs ELSE {n})
    BY DEF TypeOK
  <2>2. CASE vms' = vms
    BY <2>1, <2>2 DEF TypeOK
  <2>3. ASSUME NEW w \in VirtualMachine, vms' = [vms EXCEPT ![m] = w],
               w.cdrom \in {None} \cup (IF shared THEN ISOs ELSE {m})
        PROVE  /\ vms' \in [Machines -> VirtualMachine]
               /\ \A n \in Machines :
                     vms'[n].cdrom \in {None} \cup (IF shared THEN ISOs ELSE {n})
    <3>1. vms'[m] = w /\ \A n \in Machines : n # m => vms'[n] = vms[n]
      BY <2>3 DEF TypeOK
    <3>2. vms' \in [Machines -> VirtualMachine]
      BY <2>3 DEF TypeOK
    <3> QED
      BY <2>1, <2>3, <3>1, <3>2
  <2> QED
    BY <2>2, <2>3
<1>4. \A n \in Machines : rec'[n].step \notin GCSteps => rec'[n].left = {}
  BY DEF TypeOK, HandlerStep
<1> QED
  BY <1>1, <1>2, <1>3, <1>4 DEF TypeOK, HandlerStep

-----------------------------------------------------------------------------
(* What is sound of one Machine.  A step of m leaves the others alone.     *)

Untouched(n) ==
    /\ machine'[n] = machine[n] /\ cache'[n] = cache[n]
    /\ vms'[n] = vms[n] /\ vmis'[n] = vmis[n]
    /\ rec'[n] = rec[n] /\ (shared' <=> shared)

LEMMA FrameSound ==
    ASSUME NEW n \in Machines, Sound(n), Untouched(n) PROVE Sound(n)'
BY DEF Sound, Untouched

\* What a step of m owes the invariant, its volumes apart.
Keeps(m) ==
    /\ TypeOK'
    /\ Sound(m)'
    /\ \A n \in Machines : n # m => Untouched(n)

LEMMA UserKeeps ==
    ASSUME ISOInvariant, NEW m \in Machines,
           UserCreates(m) \/ UserDeletes(m) \/ MarkedInstalled(m)
    PROVE  Keeps(m) /\ machine'[m].phase # "absent"
<1> USE DEF ISOInvariant
<1>1. /\ machine'[m].phase \in {"live", "deleting"} /\ machine'[m].image \in ISOs
      /\ \A n \in Machines : n # m => machine'[n] = machine[n]
      /\ UNCHANGED <<cache, vms, vmis, rec, shared>>
  <2>1. machine[m] \in MachineObject
    BY DEF TypeOK
  <2>2. ASSUME NEW o, machine' = [machine EXCEPT ![m] = o]
        PROVE  machine'[m] = o /\ \A n \in Machines : n # m => machine'[n] = machine[n]
    BY <2>2 DEF TypeOK
  <2>3. CASE UserCreates(m)
    <3>1. PICK i \in ISOs : machine' = [machine EXCEPT
              ![m] = [Absent EXCEPT !.phase = "live", !.image = i]]
      BY <2>3 DEF UserCreates
    <3> DEFINE o == [Absent EXCEPT !.phase = "live", !.image = i]
    <3>2. o.phase = "live" /\ o.image = i
      BY DEF Absent
    <3>3. machine' = [machine EXCEPT ![m] = o]
      BY <3>1
    <3> HIDE DEF o
    <3> QED
      BY <2>2, <2>3, <3>2, <3>3 DEF UserCreates
  <2>4. ASSUME NEW o, machine' = [machine EXCEPT ![m] = o],
               o.phase \in {"live", "deleting"}, o.image = machine[m].image,
               UserDeletes(m) \/ MarkedInstalled(m)
        PROVE  /\ machine'[m].phase \in {"live", "deleting"}
               /\ machine'[m].image \in ISOs
               /\ \A n \in Machines : n # m => machine'[n] = machine[n]
               /\ UNCHANGED <<cache, vms, vmis, rec, shared>>
    <3>1. machine[m].image \in ISOs
      BY <2>4 DEF UserDeletes, MarkedInstalled, Sound
    <3> QED
      BY <2>2, <2>4, <3>1 DEF UserDeletes, MarkedInstalled
  <2>5. CASE UserDeletes(m)
    <3> DEFINE o == [machine[m] EXCEPT !.phase = "deleting"]
    <3>1. o.phase = "deleting" /\ o.image = machine[m].image
      BY <2>1 DEF MachineObject
    <3>2. machine' = [machine EXCEPT ![m] = o]
      BY <2>5 DEF UserDeletes, TypeOK
    <3> HIDE DEF o
    <3> QED
      BY <2>4, <2>5, <3>1, <3>2
  <2>6. CASE MarkedInstalled(m)
    <3> DEFINE o == [machine[m] EXCEPT !.installed = TRUE]
    <3>1. o.phase = machine[m].phase /\ o.image = machine[m].image
      BY <2>1 DEF MachineObject
    <3>2. machine' = [machine EXCEPT ![m] = o] /\ machine[m].phase = "live"
      BY <2>6 DEF MarkedInstalled, TypeOK
    <3> HIDE DEF o
    <3> QED
      BY <2>4, <2>6, <3>1, <3>2
  <2> QED
    BY <2>3, <2>5, <2>6
<1>2. TypeOK'
  BY SupervisorTyped DEF Supervisor
<1>3. Sound(m)'
  BY <1>1 DEF Sound
<1> QED
  BY <1>1, <1>2, <1>3 DEF Keeps, Untouched

LEMMA CacheSyncKeeps ==
    ASSUME ISOInvariant, NEW m \in Machines, CacheSync(m) PROVE Keeps(m)
<1> USE DEF ISOInvariant
<1>1. /\ cache'[m] = machine[m]
      /\ \A n \in Machines : n # m => cache'[n] = cache[n]
      /\ UNCHANGED <<machine, vms, vmis, rec, shared>>
  BY DEF CacheSync, TypeOK
<1>2. TypeOK'
  BY SupervisorTyped DEF Supervisor
<1>3. Sound(m)'
  BY <1>1 DEF Sound
<1> QED
  BY <1>1, <1>2, <1>3 DEF Keeps, Untouched

LEMMA RemoteKeeps ==
    ASSUME ISOInvariant, NEW m \in Machines,
           \/ VMDeletedRemotely(m) \/ VMGone(m) \/ VolumeFromTemplate(m)
           \/ VMIStarts(m) \/ AgentConnects(m) \/ VMIStops(m)
    PROVE  Keeps(m)
<1> USE ConstantsTyped DEF ISOInvariant
<1>1. /\ UNCHANGED <<machine, cache, rec, shared>>
      /\ \A n \in Machines : n # m => vms'[n] = vms[n] /\ vmis'[n] = vmis[n]
  BY DEF VMDeletedRemotely, VMGone, VolumeFromTemplate, VMIStarts, AgentConnects,
     VMIStops, TypeOK
<1>2. TypeOK'
  BY RemoteTyped DEF RemoteCluster
<1>3. \/ vms'[m] = vms[m] /\ (vmis'[m] = NoVMI \/ vmis'[m] = vmis[m])
      \/ vms'[m] = vms[m] /\ vms[m].state # "none"
      \/ vms'[m] = NoVM /\ vmis'[m] = NoVMI
      \/ vms'[m].state = "dying" /\ vms'[m].cdrom = vms[m].cdrom
         /\ vms[m].state = "up"
  <2>1. vms[m] \in VirtualMachine
    BY DEF TypeOK
  <2>2. CASE VMDeletedRemotely(m)
    BY <2>1, <2>2 DEF VMDeletedRemotely, TypeOK, VirtualMachine
  <2>3. CASE VMGone(m)
    BY <2>3 DEF VMGone, TypeOK
  <2>4. CASE VolumeFromTemplate(m) \/ VMIStarts(m) \/ VMIStops(m)
    BY <2>4 DEF VolumeFromTemplate, VMIStarts, VMIStops, TypeOK
  <2>5. CASE AgentConnects(m)
    BY <2>5 DEF AgentConnects, Sound
  <2> QED
    BY <2>2, <2>3, <2>4, <2>5
<1>4. Sound(m)'
  BY <1>1, <1>3 DEF Sound
<1> QED
  BY <1>1, <1>2, <1>4 DEF Keeps, Untouched

LEMMA ReturnKeeps ==
    ASSUME ISOInvariant, NEW m \in Machines, Return(m),
           UNCHANGED <<machine, cache, vms, vmis, shared, swallowed>>,
           \/ dvs' = dvs
           \/ \E v \in Volumes : dvs' = [dvs EXCEPT ![v] = "importing"]
    PROVE  Keeps(m) /\ rec'[m].step = "idle"
<1> USE DEF ISOInvariant
<1>1. /\ rec' \in [Machines -> Reconcile] /\ rec'[m].step = "idle" /\ rec'[m].left = {}
      /\ \A n \in Machines : n # m => rec'[n] = rec[n]
  BY ReturnFacts
<1>2. TypeOK'
  <2>1. HandlerStep(m)
    BY <1>1 DEF HandlerStep
  <2>2. swallowed' \in BOOLEAN
    BY DEF TypeOK
  <2> QED
    BY <2>1, <2>2, HandlerStepTyped
<1>3. Sound(m)'
  BY <1>1 DEF Sound, CreationSteps, CleanupSteps, GCSteps
<1> QED
  BY <1>1, <1>2, <1>3 DEF Keeps, Untouched

LEMMA StartKeeps ==
    ASSUME ISOInvariant, NEW m \in Machines, Start(m)
    PROVE  /\ Keeps(m)
           /\ rec'[m].step \in {"getVM", "deleteVM"} /\ rec'[m].left = {}
<1> USE DEF ISOInvariant
<1> DEFINE step == IF cache[m].phase = "live" THEN "getVM" ELSE "deleteVM"
           r == [Idle EXCEPT !.obj = cache[m], !.step = step]
<1>1. rec' = [rec EXCEPT ![m] = r] /\ UNCHANGED <<machine, cache, dvs, vms, vmis, shared, swallowed>>
  BY DEF Start
<1>2. /\ cache[m] \in MachineObject
      /\ step \in Steps /\ step \in {"getVM", "deleteVM"}
      /\ step = "getVM" => cache[m].phase = "live"
  BY DEF TypeOK, Steps, CreationSteps, DeletionSteps
<1> HIDE DEF step
<1>3. r \in Reconcile /\ r.step = step /\ r.obj = cache[m] /\ r.left = {}
  BY <1>2, ConstantsTyped DEF Idle, Reconcile, Steps
<1> HIDE DEF r
<1>4. /\ rec' \in [Machines -> Reconcile] /\ rec'[m] = r
      /\ \A n \in Machines : n # m => rec'[n] = rec[n]
  BY <1>1, <1>3, HandlerTyped
<1>5. TypeOK'
  <2>1. HandlerStep(m)
    BY <1>1, <1>3, <1>4 DEF HandlerStep
  <2>2. swallowed' \in BOOLEAN
    BY <1>1 DEF TypeOK
  <2> QED
    BY <1>1, <2>1, <2>2, HandlerStepTyped
<1>6. Sound(m)'
  BY <1>1, <1>2, <1>3, <1>4 DEF Sound, CreationSteps, CleanupSteps, GCSteps
<1> QED
  BY <1>1, <1>2, <1>3, <1>4, <1>5, <1>6 DEF Keeps, Untouched

\* A creation step that goes on: what it keeps, whatever VM it leaves.
LEMMA CreationKeeps ==
    ASSUME ISOInvariant, NEW m \in Machines, rec[m].step \in CreationSteps,
           HandlerStep(m), rec'[m].step \in CreationSteps, rec'[m].obj = rec[m].obj,
           rec'[m].left = {}, UNCHANGED <<machine, swallowed>>,
           dvs' = dvs \/ dvs' = [dvs EXCEPT ![m] = "none"],
           NEW w \in VirtualMachine, vms' = [vms EXCEPT ![m] = w],
           w.cdrom \in {None} \cup (IF shared THEN ISOs ELSE {m}),
           w.state = "none" => w = NoVM /\ vmis[m] = NoVMI,
           rec'[m].step = "deleteDV" => w.cdrom = None,
           ~shared => rec'[m].step \notin {"ensureISO", "createDV"}
    PROVE  Keeps(m)
<1> USE DEF ISOInvariant
<1>1. vms'[m] = w /\ \A n \in Machines : n # m => vms'[n] = vms[n]
  BY DEF TypeOK
<1>2. TypeOK'
  <2>1. swallowed' \in BOOLEAN /\ m \in Volumes
    BY DEF TypeOK, Volumes
  <2> QED
    BY <2>1, HandlerStepTyped
<1>3. Sound(m)'
  BY <1>1 DEF Sound, HandlerStep, CreationSteps, CleanupSteps, GCSteps
<1> QED
  BY <1>1, <1>2, <1>3 DEF Keeps, Untouched, HandlerStep

\* The same, for one that leaves the VM alone.
LEMMA CreationReads ==
    ASSUME ISOInvariant, NEW m \in Machines, rec[m].step \in CreationSteps,
           HandlerStep(m), rec'[m].step \in CreationSteps, rec'[m].obj = rec[m].obj,
           rec'[m].left = {}, UNCHANGED <<machine, vms, swallowed>>,
           dvs' = dvs \/ dvs' = [dvs EXCEPT ![m] = "none"],
           rec'[m].step = "deleteDV" => vms[m].cdrom = None,
           ~shared => rec'[m].step \notin {"ensureISO", "createDV"}
    PROVE  Keeps(m)
<1> USE DEF ISOInvariant
<1>1. /\ vms[m] \in VirtualMachine /\ vms' = [vms EXCEPT ![m] = vms[m]]
      /\ vms[m].cdrom \in {None} \cup (IF shared THEN ISOs ELSE {m})
  BY DEF TypeOK
<1>2. vms[m].state = "none" => vms[m] = NoVM /\ vmis[m] = NoVMI
  BY DEF Sound
<1> QED
  BY <1>1, <1>2, CreationKeeps

LEMMA CreationSteps_ ==
    CreationSteps = {"getVM", "ensureISO", "createDV", "createVM", "getVMI",
                     "strip", "deleteDV", "markCleaned"}
BY DEF CreationSteps, CleanupSteps

LEMMA GetVMKeeps ==
    ASSUME ISOInvariant, NEW m \in Machines, GetVM(m)
    PROVE  /\ Keeps(m) /\ UNCHANGED <<machine, dvs, vms, vmis, swallowed>>
           /\ rec'[m].step \in {"getVMI", "ensureISO", "createVM"}
           /\ shared => rec'[m].step # "createVM"
           /\ rec'[m].left = {}
<1> USE DEF ISOInvariant
<1> DEFINE step == IF vms[m].state # "none" THEN "getVMI"
                   ELSE IF shared THEN "ensureISO" ELSE "createVM"
           hasCD == vms[m].cdrom # None
<1>1. /\ rec' = [rec EXCEPT ![m].hasCD = hasCD, ![m].step = step]
      /\ rec[m].step = "getVM"
      /\ UNCHANGED <<machine, cache, dvs, vms, vmis, shared, swallowed>>
  BY DEF GetVM
<1>2. /\ step \in {"getVMI", "ensureISO", "createVM"} /\ hasCD \in BOOLEAN
      /\ ~shared => step # "ensureISO"
      /\ shared => step # "createVM"
  OBVIOUS
<1> HIDE DEF step, hasCD
<1>3. /\ rec' \in [Machines -> Reconcile] /\ rec'[m].step = step
      /\ rec'[m].obj = rec[m].obj /\ rec'[m].left = {}
      /\ \A n \in Machines : n # m => rec'[n] = rec[n]
  <2>1. step \in Steps /\ rec[m].step \notin GCSteps
    BY <1>1, <1>2 DEF Steps, CreationSteps, GCSteps
  <2> QED
    BY <1>1, <1>2, <2>1, HasCDFacts, Zenon
<1>4. HandlerStep(m)
  BY <1>1, <1>3 DEF HandlerStep
<1>5. Keeps(m)
  <2>1. rec'[m].step \in CreationSteps /\ rec[m].step \in CreationSteps
    BY <1>1, <1>2, <1>3, CreationSteps_
  <2> QED
    BY <1>1, <1>2, <1>3, <1>4, <2>1, CreationReads
<1> QED
  BY <1>1, <1>2, <1>3, <1>5

\* A creation step that goes to a fixed next one and only moves the handler.
LEMMA CreationGoesTo ==
    ASSUME ISOInvariant, NEW m \in Machines, rec[m].step \in CreationSteps,
           NEW step \in CreationSteps, GoTo(m, step),
           UNCHANGED <<machine, cache, vms, vmis, shared, swallowed>>,
           dvs' = dvs \/ dvs' = [dvs EXCEPT ![m] = "none"],
           step = "deleteDV" => vms[m].cdrom = None,
           ~shared => step \notin {"ensureISO", "createDV"}
    PROVE  /\ Keeps(m)
           /\ rec'[m].step = step /\ rec'[m].obj = rec[m].obj /\ rec'[m].left = {}
<1> USE DEF ISOInvariant
<1>1. step \in Steps /\ rec[m].step \notin GCSteps
  BY CreationSteps_ DEF Steps, GCSteps
<1>2. /\ rec' \in [Machines -> Reconcile] /\ rec'[m].step = step
      /\ rec'[m].obj = rec[m].obj /\ rec'[m].left = {}
      /\ \A n \in Machines : n # m => rec'[n] = rec[n]
  BY <1>1, GoToFacts, Zenon
<1>3. HandlerStep(m)
  BY <1>2 DEF HandlerStep
<1> QED
  BY <1>2, <1>3, CreationReads

LEMMA EnsureSharedISOKeeps ==
    ASSUME ISOInvariant, NEW m \in Machines, EnsureSharedISO(m)
    PROVE  /\ Keeps(m) /\ UNCHANGED <<machine, dvs, vms, vmis, swallowed>>
           /\ rec'[m].left = {} /\ rec'[m].step \in {"idle", "createDV", "createVM"}
           /\ rec'[m].step = "createVM" => dvs[rec'[m].obj.image] = "ready"
<1> USE DEF ISOInvariant
<1> DEFINE image == rec[m].obj.image
           step == IF dvs[image] = "none" THEN "createDV" ELSE "createVM"
<1>1. /\ rec[m].step = "ensureISO" /\ image \in ISOs /\ image \in Volumes /\ shared
      /\ rec[m].step \in CreationSteps
      /\ UNCHANGED <<machine, cache, dvs, vms, vmis, shared, swallowed>>
  BY CreationSteps_ DEF EnsureSharedISO, Sound, Volumes
<1>2. CASE dvs[image] = "importing"
  <2>1. Return(m)
    BY <1>2 DEF EnsureSharedISO
  <2>2. Keeps(m) /\ rec'[m].step = "idle" /\ rec'[m].left = {}
    BY <1>1, <2>1, ReturnKeeps, ReturnFacts
  <2> QED
    BY <1>1, <2>2
<1>3. CASE dvs[image] # "importing"
  <2>1. GoTo(m, step)
    BY <1>3 DEF EnsureSharedISO
  <2>2. /\ step \in CreationSteps /\ step \in {"createDV", "createVM"}
        /\ step = "createVM" => dvs[image] = "ready"
    BY <1>1, <1>3, CreationSteps_ DEF TypeOK
  <2> HIDE DEF step
  <2>3. /\ Keeps(m) /\ rec'[m].left = {}
        /\ rec'[m].step = step /\ rec'[m].obj = rec[m].obj
    BY <1>1, <2>1, <2>2, CreationGoesTo
  <2> QED
    BY <1>1, <2>2, <2>3
<1> QED
  BY <1>2, <1>3

LEMMA CreateSharedISOKeeps ==
    ASSUME ISOInvariant, NEW m \in Machines, CreateSharedISO(m)
    PROVE  /\ Keeps(m) /\ UNCHANGED <<machine, vms, vmis, swallowed>>
           /\ rec'[m].left = {} /\ rec'[m].step = "idle"
           /\ shared /\ machine[m].phase # "absent"
           /\ \A v \in Volumes : dvs'[v] = dvs[v] \/ dvs[v] = "none"
<1> USE DEF ISOInvariant
<1> DEFINE image == rec[m].obj.image
<1>1. /\ image \in ISOs /\ image \in Volumes /\ shared /\ machine[m].phase # "absent"
      /\ UNCHANGED <<machine, cache, vms, vmis, shared, swallowed>> /\ Return(m)
  BY CreationSteps_ DEF CreateSharedISO, Sound, Volumes
<1>2. \/ dvs' = dvs
      \/ dvs[image] = "none" /\ dvs' = [dvs EXCEPT ![image] = "importing"]
  <2>1. dvs' = [dvs EXCEPT ![image] = IF dvs[image] = "none" THEN "importing"
                                      ELSE dvs[image]]
    BY DEF CreateSharedISO
  <2>2. CASE dvs[image] = "none"
    BY <2>1, <2>2
  <2>3. CASE dvs[image] # "none"
    BY <1>1, <2>1, <2>3 DEF TypeOK
  <2> QED
    BY <2>2, <2>3
<1>3. Keeps(m) /\ rec'[m].step = "idle" /\ rec'[m].left = {}
  BY <1>1, <1>2, ReturnKeeps, ReturnFacts
<1>4. \A v \in Volumes : dvs'[v] = dvs[v] \/ dvs[v] = "none"
  BY <1>1, <1>2 DEF TypeOK
<1> QED
  BY <1>1, <1>3, <1>4

LEMMA CreateVMKeeps ==
    ASSUME ISOInvariant, NEW m \in Machines, CreateVM(m)
    PROVE  /\ Keeps(m) /\ UNCHANGED <<machine, dvs, vmis, swallowed>>
           /\ rec'[m].left = {} /\ rec'[m].step = "getVMI"
           /\ vms'[m].cdrom = IF shared THEN rec[m].obj.image ELSE m
<1> USE DEF ISOInvariant
<1> DEFINE cdrom == IF shared THEN rec[m].obj.image ELSE m
           w == [state |-> "up", cdrom |-> cdrom]
<1>1. /\ rec[m].step = "createVM" /\ rec[m].step \in CreationSteps
      /\ vms' = [vms EXCEPT ![m] = w]
      /\ rec' = [rec EXCEPT ![m].hasCD = TRUE, ![m].step = "getVMI"]
      /\ UNCHANGED <<machine, cache, dvs, vmis, shared, swallowed>>
  BY CreationSteps_ DEF CreateVM
<1>2. cdrom \in {None} \cup (IF shared THEN ISOs ELSE {m})
  BY <1>1 DEF Sound
<1>3. w \in VirtualMachine /\ w.state = "up" /\ w.cdrom = cdrom
  BY <1>2 DEF VirtualMachine, OptionalVolume, Volumes
<1> HIDE DEF w, cdrom
<1>4. /\ rec' \in [Machines -> Reconcile] /\ rec'[m].step = "getVMI"
      /\ rec'[m].obj = rec[m].obj /\ rec'[m].left = {}
      /\ \A n \in Machines : n # m => rec'[n] = rec[n]
  <2>1. "getVMI" \in Steps /\ rec[m].step \notin GCSteps /\ TRUE \in BOOLEAN
    BY <1>1, CreationSteps_ DEF Steps, GCSteps
  <2> QED
    BY <1>1, <2>1, HasCDFacts, Zenon
<1>5. HandlerStep(m) /\ rec'[m].step \in CreationSteps
  BY <1>1, <1>4, CreationSteps_ DEF HandlerStep
<1>6. Keeps(m)
  BY <1>1, <1>2, <1>3, <1>4, <1>5, CreationKeeps
<1>7. vms'[m] = w
  BY <1>1, <1>3 DEF TypeOK
<1> QED
  BY <1>1, <1>3, <1>4, <1>6, <1>7 DEF cdrom

LEMMA GetVMIKeeps ==
    ASSUME ISOInvariant, NEW m \in Machines, GetVMI(m)
    PROVE  /\ Keeps(m) /\ UNCHANGED <<machine, dvs, vms, vmis, swallowed>>
           /\ rec'[m].left = {} /\ rec'[m].step \in {"idle", "strip"}
<1> USE DEF ISOInvariant
<1>1. /\ rec[m].step \in CreationSteps /\ "strip" \in CreationSteps
      /\ UNCHANGED <<machine, cache, dvs, vms, vmis, shared, swallowed>>
      /\ Return(m) \/ GoTo(m, "strip")
  BY CreationSteps_ DEF GetVMI
<1>2. CASE Return(m)
  BY <1>1, <1>2, ReturnKeeps, ReturnFacts
<1>3. CASE GoTo(m, "strip")
  <2>1. Keeps(m) /\ rec'[m].step = "strip" /\ rec'[m].left = {}
    BY <1>1, <1>3, CreationGoesTo
  <2> QED
    BY <1>1, <2>1
<1> QED
  BY <1>1, <1>2, <1>3

LEMMA RemoveCDROMKeeps ==
    ASSUME ISOInvariant, NEW m \in Machines, RemoveCDROM(m)
    PROVE  /\ Keeps(m) /\ UNCHANGED <<machine, dvs, vmis, swallowed>>
           /\ rec'[m].left = {} /\ rec'[m].step \in {"deleteDV", "markCleaned"}
           /\ vms'[m].cdrom = None
<1> USE DEF ISOInvariant
<1> DEFINE step == IF shared THEN "markCleaned" ELSE "deleteDV"
           w == [vms[m] EXCEPT !.cdrom = None]
<1>1. /\ rec[m].step = "strip" /\ rec[m].step \in CreationSteps
      /\ vms' = [vms EXCEPT ![m] = w] /\ GoTo(m, step)
      /\ UNCHANGED <<machine, cache, dvs, vmis, shared, swallowed>>
  BY CreationSteps_ DEF RemoveCDROM, TypeOK
<1>2. step \in {"markCleaned", "deleteDV"}
  OBVIOUS
<1>3. /\ w \in VirtualMachine /\ w.state = vms[m].state /\ w.cdrom = None
      /\ w.state = "none" => w = NoVM /\ vmis[m] = NoVMI
  <2>1. vms[m] \in VirtualMachine
    BY DEF TypeOK
  <2>2. ASSUME NEW u \in VirtualMachine
        PROVE  /\ [u EXCEPT !.cdrom = None] \in VirtualMachine
               /\ [u EXCEPT !.cdrom = None].state = u.state
               /\ [u EXCEPT !.cdrom = None].cdrom = None
               /\ u = NoVM => [u EXCEPT !.cdrom = None] = NoVM
    BY <2>2 DEF VirtualMachine, OptionalVolume, NoVM
  <2>3. /\ w \in VirtualMachine /\ w.state = vms[m].state /\ w.cdrom = None
        /\ vms[m] = NoVM => w = NoVM
    BY <2>1, <2>2, Zenon
  <2> HIDE DEF w
  <2> QED
    BY <2>3 DEF Sound
<1> HIDE DEF w, step
<1>4. /\ rec' \in [Machines -> Reconcile] /\ rec'[m].step = step
      /\ rec'[m].obj = rec[m].obj /\ rec'[m].left = {}
      /\ \A n \in Machines : n # m => rec'[n] = rec[n]
  <2>1. step \in Steps /\ rec[m].step \notin GCSteps
    BY <1>1, <1>2, CreationSteps_ DEF Steps, GCSteps
  <2> QED
    BY <1>1, <2>1, GoToFacts, Zenon
<1>5. HandlerStep(m) /\ rec'[m].step \in CreationSteps
  BY <1>1, <1>2, <1>4, CreationSteps_ DEF HandlerStep
<1>6. Keeps(m)
  BY <1>1, <1>2, <1>3, <1>4, <1>5, CreationKeeps
<1>7. vms'[m] = w
  BY <1>1, <1>3 DEF TypeOK
<1> QED
  BY <1>1, <1>2, <1>3, <1>4, <1>6, <1>7

LEMMA DeleteISOKeeps ==
    ASSUME ISOInvariant, NEW m \in Machines, DeleteISO(m)
    PROVE  /\ Keeps(m) /\ UNCHANGED <<machine, vms, vmis, swallowed>>
           /\ rec'[m].left = {} /\ rec'[m].step = "markCleaned"
           /\ dvs' = [dvs EXCEPT ![m] = "none"] /\ vms[m].cdrom = None
<1> USE DEF ISOInvariant
<1>1. /\ rec[m].step \in CreationSteps /\ "markCleaned" \in CreationSteps
      /\ UNCHANGED <<machine, cache, vms, vmis, shared, swallowed>>
      /\ dvs' = [dvs EXCEPT ![m] = "none"] /\ GoTo(m, "markCleaned")
  BY CreationSteps_ DEF DeleteISO
<1>2. Keeps(m) /\ rec'[m].step = "markCleaned" /\ rec'[m].left = {}
  BY <1>1, CreationGoesTo
<1>3. vms[m].cdrom = None
  BY DEF DeleteISO, Sound
<1> QED
  BY <1>1, <1>2, <1>3

LEMMA MarkCleanedKeeps ==
    ASSUME ISOInvariant, NEW m \in Machines, MarkCleaned(m)
    PROVE  /\ Keeps(m) /\ UNCHANGED <<dvs, vms, vmis, swallowed>>
           /\ rec'[m].left = {} /\ rec'[m].step = "idle"
           /\ machine'[m].phase # "absent"
<1> USE DEF ISOInvariant
<1> DEFINE o == [machine[m] EXCEPT !.cleaned = TRUE]
<1>1. /\ machine' = [machine EXCEPT ![m] = o]
      /\ Return(m) /\ UNCHANGED <<cache, dvs, vms, vmis, shared, swallowed>>
      /\ machine[m].phase # "absent" /\ machine[m].image \in ISOs
  BY CreationSteps_ DEF MarkCleaned, TypeOK, Sound
<1>2. machine[m] \in MachineObject
  BY DEF TypeOK
<1>3. o \in MachineObject /\ o.phase = machine[m].phase /\ o.image = machine[m].image
  <2>1. ASSUME NEW q \in MachineObject
        PROVE  LET u == [q EXCEPT !.cleaned = TRUE] IN
               u \in MachineObject /\ u.phase = q.phase /\ u.image = q.image
    BY <2>1 DEF MachineObject
  <2> QED
    BY <1>2, <2>1, Zenon
<1> HIDE DEF o
<1>4. machine'[m] = o /\ \A n \in Machines : n # m => machine'[n] = machine[n]
  BY <1>1 DEF TypeOK
<1>5. TypeOK'
  BY <1>1, <1>3, ObjectTyped
<1>6. /\ rec'[m].step = "idle" /\ rec'[m].left = {}
      /\ \A n \in Machines : n # m => rec'[n] = rec[n]
  BY <1>1, ReturnFacts
<1>7. Sound(m)'
  BY <1>1, <1>3, <1>4, <1>6, CreationSteps_ DEF Sound, GCSteps
<1> QED
  BY <1>1, <1>3, <1>4, <1>5, <1>6, <1>7 DEF Keeps, Untouched

\* A deletion step before the sweep or instead of it.
LEMMA DeletionGoesTo ==
    ASSUME ISOInvariant, NEW m \in Machines,
           rec[m].step \in {"deleteVM", "checkVM"},
           NEW step \in {"checkVM", "gcDVs", "removeFinalizer"}, GoTo(m, step),
           UNCHANGED <<machine, cache, dvs, vmis, shared, swallowed>>,
           NEW w \in VirtualMachine, vms' = [vms EXCEPT ![m] = w],
           w.cdrom = vms[m].cdrom, w.state = "none" <=> vms[m].state = "none",
           step # "checkVM" => w.state = "none"
    PROVE  Keeps(m) /\ rec'[m].step = step /\ rec'[m].left = {} /\ vms'[m] = w
<1> USE DEF ISOInvariant
<1>1. step \in Steps /\ rec[m].step \notin GCSteps
  BY DEF Steps, DeletionSteps, GCSteps
<1>2. /\ rec' \in [Machines -> Reconcile] /\ rec'[m].step = step /\ rec'[m].left = {}
      /\ \A n \in Machines : n # m => rec'[n] = rec[n]
  BY <1>1, GoToFacts, Zenon
<1>3. vms'[m] = w /\ \A n \in Machines : n # m => vms'[n] = vms[n]
  BY DEF TypeOK
<1>4. TypeOK'
  <2>1. HandlerStep(m)
    BY <1>2 DEF HandlerStep
  <2>2. swallowed' \in BOOLEAN /\ w.cdrom \in {None} \cup (IF shared THEN ISOs ELSE {m})
    BY DEF TypeOK
  <2> QED
    BY <2>1, <2>2, HandlerStepTyped
<1>5. Sound(m)'
  <2>1. w.state = "none" => w = NoVM
    <3>1. w.state = "none" => w.cdrom = None
      BY ConstantsTyped DEF Sound
    <3> QED
      BY <3>1 DEF VirtualMachine, NoVM
  <2>2. machine[m].phase = "absent" => w = NoVM
    BY <2>1, ConstantsTyped DEF Sound
  <2> QED
    BY <1>2, <1>3, <2>1, <2>2, CreationSteps_ DEF Sound, GCSteps
<1> QED
  BY <1>2, <1>3, <1>4, <1>5 DEF Keeps, Untouched

LEMMA DeleteVMKeeps ==
    ASSUME ISOInvariant, NEW m \in Machines, DeleteVM(m)
    PROVE  /\ Keeps(m) /\ UNCHANGED <<machine, dvs, vmis, swallowed>>
           /\ rec'[m].left = {} /\ rec'[m].step = "checkVM"
           /\ vms'[m].cdrom = vms[m].cdrom
<1> USE DEF ISOInvariant
<1> DEFINE state == IF vms[m].state = "up" THEN "dying" ELSE vms[m].state
           w == [vms[m] EXCEPT !.state = state]
<1>1. /\ rec[m].step = "deleteVM" /\ GoTo(m, "checkVM")
      /\ vms' = [vms EXCEPT ![m] = w]
      /\ UNCHANGED <<machine, cache, dvs, vmis, shared, swallowed>>
  BY DEF DeleteVM, TypeOK
<1>2. vms[m] \in VirtualMachine
  BY DEF TypeOK
<1>3. /\ state \in {"none", "up", "dying"}
      /\ state = "none" <=> vms[m].state = "none"
  BY <1>2 DEF VirtualMachine
<1> HIDE DEF state
<1>4. w \in VirtualMachine /\ w.cdrom = vms[m].cdrom /\ w.state = state
  <2>1. ASSUME NEW u \in VirtualMachine, NEW t \in {"none", "up", "dying"}
        PROVE  /\ [u EXCEPT !.state = t] \in VirtualMachine
               /\ [u EXCEPT !.state = t].cdrom = u.cdrom
               /\ [u EXCEPT !.state = t].state = t
    BY <2>1 DEF VirtualMachine
  <2> QED
    BY <1>2, <1>3, <2>1, Zenon
<1> HIDE DEF w
<1>5. Keeps(m) /\ rec'[m].step = "checkVM" /\ rec'[m].left = {} /\ vms'[m] = w
  BY <1>1, <1>3, <1>4, DeletionGoesTo
<1> QED
  BY <1>1, <1>4, <1>5

LEMMA CheckVMKeeps ==
    ASSUME ISOInvariant, NEW m \in Machines, CheckVM(m)
    PROVE  /\ Keeps(m) /\ UNCHANGED <<machine, dvs, vms, vmis, swallowed>>
           /\ rec'[m].left = {}
           /\ \/ rec'[m].step \in {"idle", "gcDVs"}
              \/ rec'[m].step = "removeFinalizer" /\ ~shared
<1> USE DEF ISOInvariant
<1> DEFINE step == IF shared THEN "gcDVs" ELSE "removeFinalizer"
<1>1. /\ rec[m].step = "checkVM"
      /\ UNCHANGED <<machine, cache, dvs, vms, vmis, shared, swallowed>>
      /\ vms[m] \in VirtualMachine /\ vms' = [vms EXCEPT ![m] = vms[m]]
  BY DEF CheckVM, TypeOK
<1>2. CASE Return(m)
  BY <1>1, <1>2, ReturnKeeps, ReturnFacts
<1>3. CASE GoTo(m, step) /\ vms[m].state = "none"
  <2>1. step \in {"checkVM", "gcDVs", "removeFinalizer"}
        /\ (step = "gcDVs" \/ (step = "removeFinalizer" /\ ~shared))
    OBVIOUS
  <2> HIDE DEF step
  <2>2. Keeps(m) /\ rec'[m].step = step /\ rec'[m].left = {}
    BY <1>1, <1>3, <2>1, DeletionGoesTo
  <2> QED
    BY <1>1, <2>1, <2>2
<1> QED
  BY <1>2, <1>3 DEF CheckVM

\* The sweep deletes one shared volume, or none.
SweepsOne == dvs' = dvs \/ \E v \in ISOs : dvs' = [dvs EXCEPT ![v] = "none"]

\* A step of the sweep.
LEMMA SweepKeeps ==
    ASSUME ISOInvariant, NEW m \in Machines, rec[m].step \in GCSteps,
           NEW left \in SUBSET ISOs, NEW step \in GCSteps \cup {"removeFinalizer"},
           GCOn(m, left, step), step = "removeFinalizer" => left = {},
           UNCHANGED <<machine, cache, vms, vmis, shared>>, swallowed' \in BOOLEAN,
           SweepsOne
    PROVE  /\ Keeps(m)
           /\ rec'[m].left = left
           /\ left # {} => rec'[m].step = step
           /\ left = {} => rec'[m].step = "removeFinalizer"
<1> USE DEF ISOInvariant
<1>1. /\ rec' \in [Machines -> Reconcile] /\ rec'[m].left = left
      /\ left # {} => rec'[m].step = step
      /\ left = {} => rec'[m].step = "removeFinalizer"
      /\ \A n \in Machines : n # m => rec'[n] = rec[n]
  BY GCOnFacts
<1>2. TypeOK'
  <2>1. HandlerStep(m)
    BY <1>1 DEF HandlerStep
  <2>2. ISOs \subseteq Volumes
    BY DEF Volumes
  <2> QED
    BY <2>1, <2>2, HandlerStepTyped DEF SweepsOne
<1>3. rec'[m].step \in GCSteps \cup {"removeFinalizer"}
  BY <1>1
<1>4. Sound(m)'
  BY <1>3, CreationSteps_ DEF Sound, GCSteps
<1> QED
  BY <1>1, <1>2, <1>4 DEF Keeps, Untouched

LEMMA GCListKeeps ==
    ASSUME ISOInvariant, NEW m \in Machines,
           GCListDataVolumes(m) \/ GCListVMs(m) \/ GCListVMIs(m)
    PROVE  /\ Keeps(m) /\ UNCHANGED <<machine, dvs, vms, vmis, swallowed>>
           /\ rec[m].step \in GCSteps
           /\ GCListDataVolumes(m) =>
                 /\ rec'[m].left = {v \in ISOs : dvs[v] # "none"}
                 /\ rec'[m].step \in {"gcVMs", "removeFinalizer"}
           /\ GCListVMs(m) =>
                 /\ rec'[m].left = rec[m].left \ {vms[o].cdrom : o \in Machines}
                 /\ rec'[m].step \in {"gcVMIs", "removeFinalizer"}
           /\ GCListVMIs(m) =>
                 /\ rec'[m].left = rec[m].left \ {vmis[o].cdrom : o \in Machines}
                 /\ rec'[m].step \in {"gcDelete", "removeFinalizer"}
                 /\ rec[m].step = "gcVMIs"
<1> USE DEF ISOInvariant
<1>1. /\ UNCHANGED <<machine, cache, dvs, vms, vmis, shared, swallowed>>
      /\ swallowed' \in BOOLEAN /\ rec[m].left \in SUBSET ISOs /\ SweepsOne
  <2>1. rec[m] \in Reconcile
    BY DEF TypeOK
  <2> QED
    BY <2>1 DEF GCListDataVolumes, GCListVMs, GCListVMIs, TypeOK, Reconcile, SweepsOne
<1>2. CASE GCListDataVolumes(m)
  <2>1. /\ rec[m].step = "gcDVs"
        /\ GCOn(m, {v \in ISOs : dvs[v] # "none"}, "gcVMs")
    BY <1>2 DEF GCListDataVolumes
  <2>2. "gcVMs" \in GCSteps /\ rec[m].step \in GCSteps
        /\ {v \in ISOs : dvs[v] # "none"} \in SUBSET ISOs
    BY <2>1 DEF GCSteps
  <2>3. /\ Keeps(m) /\ rec'[m].left = {v \in ISOs : dvs[v] # "none"}
        /\ rec'[m].step \in {"gcVMs", "removeFinalizer"}
    BY <1>1, <2>1, <2>2, SweepKeeps
  <2> QED
    BY <1>1, <2>1, <2>2, <2>3 DEF GCListVMs, GCListVMIs
<1>3. CASE GCListVMs(m)
  <2>1. /\ rec[m].step = "gcVMs"
        /\ GCOn(m, rec[m].left \ {vms[o].cdrom : o \in Machines}, "gcVMIs")
    BY <1>3 DEF GCListVMs
  <2>2. "gcVMIs" \in GCSteps /\ rec[m].step \in GCSteps
        /\ rec[m].left \ {vms[o].cdrom : o \in Machines} \in SUBSET ISOs
    BY <1>1, <2>1 DEF GCSteps
  <2>3. /\ Keeps(m) /\ rec'[m].left = rec[m].left \ {vms[o].cdrom : o \in Machines}
        /\ rec'[m].step \in {"gcVMIs", "removeFinalizer"}
    BY <1>1, <2>1, <2>2, SweepKeeps
  <2> QED
    BY <1>1, <2>1, <2>2, <2>3 DEF GCListDataVolumes, GCListVMIs
<1>4. CASE GCListVMIs(m)
  <2>1. /\ rec[m].step = "gcVMIs"
        /\ GCOn(m, rec[m].left \ {vmis[o].cdrom : o \in Machines}, "gcDelete")
    BY <1>4 DEF GCListVMIs
  <2>2. "gcDelete" \in GCSteps /\ rec[m].step \in GCSteps
        /\ rec[m].left \ {vmis[o].cdrom : o \in Machines} \in SUBSET ISOs
    BY <1>1, <2>1 DEF GCSteps
  <2>3. /\ Keeps(m) /\ rec'[m].left = rec[m].left \ {vmis[o].cdrom : o \in Machines}
        /\ rec'[m].step \in {"gcDelete", "removeFinalizer"}
    BY <1>1, <2>1, <2>2, SweepKeeps
  <2> QED
    BY <1>1, <2>1, <2>2, <2>3 DEF GCListDataVolumes, GCListVMs
<1> QED
  BY <1>2, <1>3, <1>4

LEMMA GCDeleteKeeps ==
    ASSUME ISOInvariant, NEW m \in Machines, GCDelete(m)
    PROVE  /\ Keeps(m) /\ UNCHANGED <<machine, vms, vmis, swallowed>>
           /\ rec[m].step = "gcDelete"
           /\ rec'[m].step \in {"gcDelete", "removeFinalizer"}
           /\ \E v \in rec[m].left : /\ v \in ISOs
                                     /\ dvs' = [dvs EXCEPT ![v] = "none"]
                                     /\ rec'[m].left = rec[m].left \ {v}
<1> USE DEF ISOInvariant
<1>1. PICK v \in rec[m].left : /\ dvs' = [dvs EXCEPT ![v] = "none"]
                               /\ GCOn(m, rec[m].left \ {v}, "gcDelete")
  BY DEF GCDelete
<1>2. /\ UNCHANGED <<machine, cache, vms, vmis, shared, swallowed>>
      /\ rec[m].step = "gcDelete" /\ swallowed' \in BOOLEAN
      /\ rec[m] \in Reconcile
  BY DEF GCDelete, TypeOK
<1>3. /\ v \in ISOs /\ rec[m].left \ {v} \in SUBSET ISOs
      /\ rec[m].step \in GCSteps /\ "gcDelete" \in GCSteps
  BY <1>2 DEF Reconcile, GCSteps
<1>4. /\ Keeps(m) /\ rec'[m].left = rec[m].left \ {v}
      /\ rec'[m].step \in {"gcDelete", "removeFinalizer"}
  <2> DEFINE left == rec[m].left \ {v}
  <2>1. GCOn(m, left, "gcDelete") /\ left \in SUBSET ISOs
    BY <1>1, <1>3
  <2>2. SweepsOne
    BY <1>1, <1>3 DEF SweepsOne
  <2> HIDE DEF left
  <2>3. /\ Keeps(m) /\ rec'[m].left = left
        /\ left # {} => rec'[m].step = "gcDelete"
        /\ left = {} => rec'[m].step = "removeFinalizer"
    BY <1>2, <1>3, <2>1, <2>2, SweepKeeps
  <2> QED
    BY <2>3 DEF left
<1> QED
  BY <1>1, <1>2, <1>3, <1>4

LEMMA GCErrorKeeps ==
    ASSUME ISOInvariant, NEW m \in Machines, GCError(m)
    PROVE  /\ Keeps(m) /\ UNCHANGED <<machine, dvs, vms, vmis>> /\ swallowed'
           /\ rec[m].step \in GCSteps
           /\ \/ rec'[m].step = "removeFinalizer" /\ rec'[m].left = {}
              \/ /\ rec[m].step = "gcDelete" /\ rec'[m].step = "gcDelete"
                 /\ rec'[m].left \subseteq rec[m].left
<1> USE DEF ISOInvariant
<1>1. /\ UNCHANGED <<machine, cache, dvs, vms, vmis, shared>> /\ swallowed'
      /\ swallowed' \in BOOLEAN /\ rec[m].step \in GCSteps
      /\ rec[m] \in Reconcile /\ SweepsOne
  BY DEF GCError, TypeOK, GCSteps, SweepsOne
<1>2. CASE GCOn(m, {}, "removeFinalizer")
  <2>1. Keeps(m) /\ rec'[m].step = "removeFinalizer" /\ rec'[m].left = {}
    BY <1>1, <1>2, SweepKeeps
  <2> QED
    BY <1>1, <2>1
<1>3. CASE At(m, "gcDelete")
           /\ \E v \in rec[m].left : GCOn(m, rec[m].left \ {v}, "gcDelete")
  <2>1. PICK v \in rec[m].left : GCOn(m, rec[m].left \ {v}, "gcDelete")
    BY <1>3
  <2>2. rec[m].left \ {v} \in SUBSET ISOs /\ "gcDelete" \in GCSteps
    BY <1>1 DEF Reconcile, GCSteps
  <2>3. /\ Keeps(m) /\ rec'[m].left = rec[m].left \ {v}
        /\ rec'[m].left # {} => rec'[m].step = "gcDelete"
        /\ rec'[m].left = {} => rec'[m].step = "removeFinalizer"
    BY <1>1, <2>1, <2>2, SweepKeeps
  <2> QED
    BY <1>1, <1>3, <2>3
<1> QED
  BY <1>2, <1>3 DEF GCError

LEMMA RemoveMachineFinalizerKeeps ==
    ASSUME ISOInvariant, NEW m \in Machines, RemoveMachineFinalizer(m)
    PROVE  /\ Keeps(m) /\ UNCHANGED <<dvs, vms, vmis, swallowed>>
           /\ rec[m].step = "removeFinalizer" /\ rec[m].left = {}
           /\ rec'[m].left = {} /\ rec'[m].step = "idle"
<1> USE DEF ISOInvariant
<1>1. /\ rec[m].step = "removeFinalizer" /\ rec[m].left = {} /\ Return(m)
      /\ UNCHANGED <<cache, dvs, vms, vmis, shared, swallowed>>
  BY DEF RemoveMachineFinalizer, TypeOK, GCSteps
<1>2. rec'[m].step = "idle" /\ rec'[m].left = {}
      /\ \A n \in Machines : n # m => rec'[n] = rec[n]
  BY <1>1, ReturnFacts
<1>3. CASE machine' = machine
  <2>1. Keeps(m)
    BY <1>1, <1>3, ReturnKeeps
  <2> QED
    BY <1>1, <1>2, <2>1
<1>4. CASE machine' = [machine EXCEPT ![m] = Absent] /\ cache[m].phase = "deleting"
  <2>1. TypeOK'
    BY <1>1, <1>4, ConstantsTyped, ObjectTyped
  <2>2. machine'[m] = Absent /\ \A n \in Machines : n # m => machine'[n] = machine[n]
    BY <1>4 DEF TypeOK
  <2>3. vms[m] = NoVM
    BY <1>1 DEF Sound
  <2>4. Sound(m)'
    BY <1>1, <1>2, <1>4, <2>2, <2>3, ConstantsTyped, CreationSteps_ DEF Sound, GCSteps
  <2> QED
    BY <1>1, <1>2, <2>1, <2>2, <2>4 DEF Keeps, Untouched
<1> QED
  BY <1>3, <1>4 DEF RemoveMachineFinalizer

-----------------------------------------------------------------------------
(* Every shared volume has somebody who will collect it                    *)

\* A volume that m would have collected, and that is there still, is not lost.
HandsOver(m) ==
    \A v \in ISOs : dvs'[v] # "none" =>
        /\ dvs[v] # "none"
        /\ WillCollect(m, v) => \E o \in Machines : WillCollect(o, v)'

LEMMA OthersCollect ==
    ASSUME NEW o \in Machines, Untouched(o), NEW v, WillCollect(o, v)
    PROVE  WillCollect(o, v)'
BY DEF Untouched, WillCollect

LEMMA HandedOver ==
    ASSUME ISOInvariant, NEW m \in Machines, Keeps(m), HandsOver(m),
           swallowed' <=> swallowed, shared' <=> shared
    PROVE  ISOInvariant'
<1>1. ASSUME NEW v \in ISOs, dvs'[v] # "none"
      PROVE  shared' /\ (~swallowed' => \E o \in Machines : WillCollect(o, v)')
  <2>1. dvs[v] # "none" /\ shared
    BY <1>1 DEF HandsOver, ISOInvariant, VolumesSound
  <2>2. ASSUME ~swallowed' PROVE \E o \in Machines : WillCollect(o, v)'
    <3>1. PICK o \in Machines : WillCollect(o, v)
      BY <2>1, <2>2 DEF ISOInvariant, VolumesSound
    <3>2. CASE o = m
      BY <1>1, <3>1, <3>2 DEF HandsOver
    <3>3. CASE o # m
      BY <3>1, <3>3, OthersCollect DEF Keeps
    <3> QED
      BY <3>2, <3>3
  <2> QED
    BY <2>1, <2>2
<1>2. VolumesSound'
  BY <1>1 DEF VolumesSound
<1>3. \A n \in Machines : Sound(n)'
  BY FrameSound DEF Keeps, ISOInvariant
<1> QED
  BY <1>2, <1>3 DEF ISOInvariant, Keeps

\* Most steps leave m a collector of all it was one of.
LEMMA CalmHandsOver ==
    ASSUME NEW m \in Machines, machine[m].phase # "absent" => machine'[m].phase # "absent",
           \A v \in ISOs : dvs'[v] # "none" => dvs[v] # "none",
           \/ rec'[m] = rec[m]
           \/ rec'[m].step \notin {"gcVMs", "gcVMIs", "gcDelete", "removeFinalizer"}
    PROVE  HandsOver(m)
BY DEF HandsOver, WillCollect

\* Who has a VM is there, and is not sweeping.
LEMMA OwnersCollect ==
    ASSUME ISOInvariant, NEW o \in Machines, NEW v \in ISOs,
           v \in {vms[o].cdrom, vmis[o].cdrom}
    PROVE  WillCollect(o, v) /\ rec[o].step \notin GCSteps
<1>1. v # None
  BY ConstantsAssumption
<1>2. vms[o].state # "none"
  BY <1>1, ConstantsTyped DEF ISOInvariant, Sound
<1> QED
  BY <1>2, ConstantsTyped DEF ISOInvariant, Sound, WillCollect, GCSteps

LEMMA ISOHandlerStep ==
    ASSUME ISOInvariant, NEW m \in Machines,
           Start(m) \/ Creation(m) \/ Deletion(m) \/ ReconcileFails(m)
    PROVE  ISOInvariant'
<1>0. /\ shared' = shared
      /\ \A v \in ISOs : v \in Volumes /\ v # m
  BY ConstantsAssumption DEF Start, Creation, Deletion, ReconcileFails, GetVM,
     EnsureSharedISO, CreateSharedISO, CreateVM, GetVMI, RemoveCDROM, DeleteISO,
     MarkCleaned, DeleteVM, CheckVM, GCListDataVolumes, GCListVMs, GCListVMIs,
     GCDelete, GCError, RemoveMachineFinalizer, Volumes
<1>1. ASSUME Keeps(m), UNCHANGED <<machine, dvs, swallowed>>,
             rec'[m].step \notin {"gcVMs", "gcVMIs", "gcDelete", "removeFinalizer"}
      PROVE  ISOInvariant'
  BY <1>0, <1>1, CalmHandsOver, HandedOver
<1>2. CASE Start(m)
  BY <1>1, <1>2, StartKeeps DEF Start
<1>3. CASE GetVM(m)
  BY <1>1, <1>3, GetVMKeeps
<1>4. CASE EnsureSharedISO(m)
  BY <1>1, <1>4, EnsureSharedISOKeeps
<1>5. CASE CreateSharedISO(m)
  <2>1. /\ Keeps(m) /\ UNCHANGED <<machine, swallowed>> /\ rec'[m].step = "idle"
        /\ shared /\ machine[m].phase # "absent"
    BY <1>5, CreateSharedISOKeeps
  <2>2. \A v \in ISOs : WillCollect(m, v)'
    BY <2>1 DEF WillCollect
  <2>3. VolumesSound'
    BY <1>0, <2>1, <2>2 DEF VolumesSound
  <2>4. \A n \in Machines : Sound(n)'
    BY <2>1, FrameSound DEF Keeps, ISOInvariant
  <2> QED
    BY <2>1, <2>3, <2>4 DEF ISOInvariant, Keeps
<1>6. CASE CreateVM(m)
  BY <1>1, <1>6, CreateVMKeeps
<1>7. CASE GetVMI(m)
  BY <1>1, <1>7, GetVMIKeeps
<1>8. CASE RemoveCDROM(m)
  BY <1>1, <1>8, RemoveCDROMKeeps
<1>9. CASE DeleteISO(m)
  <2>1. /\ Keeps(m) /\ UNCHANGED <<machine, swallowed>> /\ rec'[m].step = "markCleaned"
        /\ dvs' = [dvs EXCEPT ![m] = "none"]
    BY <1>9, DeleteISOKeeps
  <2>2. \A v \in ISOs : dvs'[v] = dvs[v]
    BY <1>0, <2>1 DEF ISOInvariant, TypeOK
  <2>3. HandsOver(m)
    BY <2>1, <2>2, CalmHandsOver
  <2> QED
    BY <1>0, <2>1, <2>3, HandedOver
<1>10. CASE MarkCleaned(m)
  <2>1. /\ Keeps(m) /\ UNCHANGED <<dvs, swallowed>> /\ rec'[m].step = "idle"
        /\ machine'[m].phase # "absent"
    BY <1>10, MarkCleanedKeeps
  <2>2. HandsOver(m)
    BY <2>1, CalmHandsOver
  <2> QED
    BY <1>0, <2>1, <2>2, HandedOver
<1>11. CASE DeleteVM(m)
  BY <1>1, <1>11, DeleteVMKeeps
<1>12. CASE CheckVM(m)
  <2>1. /\ Keeps(m) /\ UNCHANGED <<machine, dvs, swallowed>>
        /\ rec'[m].step \in {"idle", "gcDVs"} \/ ~shared
    BY <1>12, CheckVMKeeps
  <2>2. CASE rec'[m].step \in {"idle", "gcDVs"}
    BY <1>1, <2>1, <2>2
  <2>3. CASE ~shared
    <3>1. \A v \in ISOs : dvs'[v] = "none"
      BY <2>1, <2>3 DEF ISOInvariant, VolumesSound
    <3>2. HandsOver(m)
      BY <3>1 DEF HandsOver
    <3> QED
      BY <1>0, <2>1, <3>2, HandedOver
  <2> QED
    BY <2>1, <2>2, <2>3
<1>13. ASSUME Keeps(m), UNCHANGED <<machine, dvs, swallowed>>,
              \A v \in ISOs : dvs[v] # "none" /\ WillCollect(m, v) =>
                  \/ v \in rec'[m].left
                  \/ \E o \in Machines : o # m /\ WillCollect(o, v)
       PROVE  ISOInvariant'
  <2>1. ASSUME NEW v \in ISOs, dvs[v] # "none", WillCollect(m, v)
        PROVE  \E o \in Machines : WillCollect(o, v)'
    <3>1. CASE v \in rec'[m].left
      BY <1>13, <2>1, <3>1 DEF WillCollect
    <3>2. ASSUME NEW o \in Machines, o # m, WillCollect(o, v)
          PROVE  \E n \in Machines : WillCollect(n, v)'
      BY <1>13, <3>2, OthersCollect DEF Keeps
    <3> QED
      BY <1>13, <2>1, <3>1, <3>2
  <2>2. HandsOver(m)
    BY <1>13, <2>1 DEF HandsOver
  <2> QED
    BY <1>0, <1>13, <2>2, HandedOver
<1>14. CASE GCListDataVolumes(m)
  <2>1. /\ Keeps(m) /\ UNCHANGED <<machine, dvs, swallowed>>
        /\ rec'[m].left = {v \in ISOs : dvs[v] # "none"}
    BY <1>14, GCListKeeps
  <2> QED
    BY <1>13, <2>1
<1>15. CASE GCListVMs(m) \/ GCListVMIs(m)
  <2>1. /\ Keeps(m) /\ UNCHANGED <<machine, dvs, swallowed>> /\ rec[m].step \in GCSteps
        /\ \/ rec'[m].left = rec[m].left \ {vms[o].cdrom : o \in Machines}
           \/ rec'[m].left = rec[m].left \ {vmis[o].cdrom : o \in Machines}
    BY <1>15, GCListKeeps
  <2>2. ASSUME NEW v \in ISOs, dvs[v] # "none", WillCollect(m, v), v \notin rec'[m].left
        PROVE  \E o \in Machines : o # m /\ WillCollect(o, v)
    <3>1. v \in rec[m].left
      BY <1>15, <2>2 DEF WillCollect, GCListVMs, GCListVMIs
    <3>2. PICK o \in Machines : v \in {vms[o].cdrom, vmis[o].cdrom}
      BY <2>1, <2>2, <3>1
    <3> QED
      BY <2>1, <3>2, OwnersCollect
  <2> QED
    BY <1>13, <2>1, <2>2
<1>16. CASE GCDelete(m)
  <2>1. /\ Keeps(m) /\ UNCHANGED <<machine, swallowed>> /\ rec[m].step = "gcDelete"
    BY <1>16, GCDeleteKeeps
  <2>2. PICK u \in rec[m].left : /\ u \in ISOs
                                 /\ dvs' = [dvs EXCEPT ![u] = "none"]
                                 /\ rec'[m].left = rec[m].left \ {u}
    BY <1>16, GCDeleteKeeps
  <2>3. \A v \in ISOs : dvs'[v] # "none" => dvs[v] # "none" /\ v # u
    BY <1>0, <2>2 DEF ISOInvariant, TypeOK
  <2>4. \A v \in ISOs : v # u /\ WillCollect(m, v) => WillCollect(m, v)'
    BY <2>1, <2>2 DEF WillCollect
  <2>5. HandsOver(m)
    BY <2>3, <2>4 DEF HandsOver
  <2> QED
    BY <1>0, <2>1, <2>5, HandedOver
<1>17. CASE GCError(m)
  <2>1. Keeps(m) /\ swallowed' /\ UNCHANGED <<dvs>>
    BY <1>17, GCErrorKeeps
  <2>2. VolumesSound'
    BY <1>0, <2>1 DEF VolumesSound, ISOInvariant
  <2>3. \A n \in Machines : Sound(n)'
    BY <2>1, FrameSound DEF Keeps, ISOInvariant
  <2> QED
    BY <2>1, <2>2, <2>3 DEF ISOInvariant, Keeps
<1>18. CASE RemoveMachineFinalizer(m)
  <2>1. /\ Keeps(m) /\ UNCHANGED <<dvs, swallowed>>
        /\ rec[m].step = "removeFinalizer" /\ rec[m].left = {}
    BY <1>18, RemoveMachineFinalizerKeeps
  <2>2. \A v \in ISOs : ~WillCollect(m, v)
    BY <2>1 DEF WillCollect
  <2>3. HandsOver(m)
    BY <2>1, <2>2 DEF HandsOver
  <2> QED
    BY <1>0, <2>1, <2>3, HandedOver
<1>19. CASE ReconcileFails(m)
  <2>1. Return(m) /\ UNCHANGED <<machine, cache, dvs, vms, vmis, shared, swallowed>>
    BY <1>19 DEF ReconcileFails
  <2>2. Keeps(m) /\ rec'[m].step = "idle"
    BY <2>1, ReturnKeeps
  <2> QED
    BY <1>1, <2>1, <2>2
<1> QED
  BY <1>2, <1>3, <1>4, <1>5, <1>6, <1>7, <1>8, <1>9, <1>10, <1>11, <1>12, <1>14,
     <1>15, <1>16, <1>17, <1>18, <1>19 DEF Creation, Deletion

LEMMA ISOEnvironmentStep ==
    ASSUME ISOInvariant, Supervisor \/ RemoteCluster PROVE ISOInvariant'
<1>1. ASSUME NEW m \in Machines, Keeps(m), rec' = rec,
             machine[m].phase # "absent" => machine'[m].phase # "absent",
             \A v \in ISOs : dvs'[v] # "none" => dvs[v] # "none",
             swallowed' <=> swallowed, shared' <=> shared
      PROVE  ISOInvariant'
  BY <1>1, CalmHandsOver, HandedOver
<1>2. ASSUME NEW m \in Machines, UserCreates(m) \/ UserDeletes(m) \/ MarkedInstalled(m)
      PROVE  ISOInvariant'
  <2>1. UNCHANGED <<dvs, rec, swallowed, shared>>
    BY <1>2 DEF UserCreates, UserDeletes, MarkedInstalled
  <2>2. Keeps(m) /\ machine'[m].phase # "absent"
    BY <1>2, UserKeeps
  <2> QED
    BY <1>1, <2>1, <2>2
<1>3. ASSUME NEW m \in Machines, CacheSync(m) PROVE ISOInvariant'
  BY <1>1, <1>3, CacheSyncKeeps DEF CacheSync
<1>4. CASE Crash
  <2>1. \A n \in Machines : rec'[n].step = "idle" /\ cache'[n] = machine[n]
    BY <1>4, ConstantsTyped DEF Crash
  <2>2. UNCHANGED <<machine, dvs, vms, vmis, shared, swallowed>>
    BY <1>4 DEF Crash
  <2>3. \A n \in Machines : Sound(n)'
    BY <2>1, <2>2, CreationSteps_ DEF ISOInvariant, Sound, GCSteps
  <2>4. \A n \in Machines : \A v \in ISOs : WillCollect(n, v) => WillCollect(n, v)'
    BY <2>1, <2>2 DEF WillCollect
  <2>5. VolumesSound'
    BY <2>2, <2>4 DEF ISOInvariant, VolumesSound
  <2>6. TypeOK'
    BY <1>4, SupervisorTyped DEF Supervisor, ISOInvariant
  <2> QED
    BY <2>3, <2>5, <2>6 DEF ISOInvariant
<1>5. ASSUME NEW m \in Machines,
             \/ VMDeletedRemotely(m) \/ VMGone(m) \/ VolumeFromTemplate(m)
             \/ VMIStarts(m) \/ AgentConnects(m) \/ VMIStops(m)
      PROVE  ISOInvariant'
  <2>1. UNCHANGED <<machine, rec, swallowed, shared>>
    BY <1>5 DEF VMDeletedRemotely, VMGone, VolumeFromTemplate, VMIStarts, AgentConnects,
       VMIStops
  <2>2. \A v \in ISOs : dvs'[v] = dvs[v]
    <3>1. dvs' = dvs \/ \E d : dvs' = [dvs EXCEPT ![m] = d]
      BY <1>5 DEF VMDeletedRemotely, VMGone, VolumeFromTemplate, VMIStarts,
         AgentConnects, VMIStops
    <3>2. \A v \in ISOs : v \in Volumes /\ v # m
      BY ConstantsAssumption DEF Volumes
    <3> QED
      BY <3>1, <3>2 DEF ISOInvariant, TypeOK
  <2>3. Keeps(m)
    BY <1>5, RemoteKeeps
  <2> QED
    BY <1>1, <2>1, <2>2, <2>3
<1>6. ASSUME NEW u \in Volumes, ImportSucceeds(u) PROVE ISOInvariant'
  <2>1. UNCHANGED <<machine, cache, vms, vmis, rec, shared, swallowed>>
    BY <1>6 DEF ImportSucceeds
  <2>2. \A v \in ISOs : dvs'[v] # "none" => dvs[v] # "none"
    BY <1>6 DEF ImportSucceeds, ISOInvariant, TypeOK, Volumes
  <2>3. TypeOK'
    BY <1>6, RemoteTyped DEF RemoteCluster, ISOInvariant
  <2>4. \A n \in Machines : Sound(n)'
    BY <2>1 DEF ISOInvariant, Sound
  <2>5. VolumesSound'
    BY <2>1, <2>2 DEF ISOInvariant, VolumesSound, WillCollect
  <2> QED
    BY <2>3, <2>4, <2>5 DEF ISOInvariant
<1> QED
  BY <1>2, <1>3, <1>4, <1>5, <1>6 DEF Supervisor, RemoteCluster

LEMMA InitSound == ASSUME Init PROVE ISOInvariant
<1>1. \A m \in Machines : Sound(m)
  BY ConstantsTyped, CreationSteps_ DEF Init, Sound, GCSteps
<1>2. VolumesSound
  BY DEF Init, VolumesSound, Volumes
<1> QED
  BY <1>1, <1>2, InitTyped DEF ISOInvariant

LEMMA ISOInvariantHolds == Spec => []ISOInvariant
<1>1. Init => ISOInvariant
  BY InitSound
<1>2. ISOInvariant /\ [Next]_vars => ISOInvariant'
  <2>1. ASSUME ISOInvariant, UNCHANGED vars PROVE ISOInvariant'
    BY <2>1 DEF vars, ISOInvariant, TypeOK, Sound, VolumesSound, WillCollect
  <2> QED
    BY <2>1, ISOHandlerStep, ISOEnvironmentStep DEF Next
<1> QED
  BY <1>1, <1>2, PTL DEF Spec

\* A VM refers to a shared volume or to its own, and a deletion knows of no
\* volume outside its sweep, whatever the workers do (shared_iso.go:345-427,
\* cdrom_manager.go:88-176).
THEOREM TypeCorrect == Spec => []TypeOK
<1>1. ISOInvariant => TypeOK
  BY DEF ISOInvariant
<1> QED
  BY <1>1, ISOInvariantHolds, PTL

\* When the last Machine is gone, so is every shared volume, for any number of
\* workers: a deletion drops a volume from its list only for a VM or a VMI whose
\* Machine will sweep in its turn (shared_iso.go:336-344), and a volume made for
\* a VM not yet created belongs to a Machine that is still there.
THEOREM NoISOIsLeftBehind == Spec => []NoISOLeftBehind
<1>1. ISOInvariant => NoISOLeftBehind
  BY DEF ISOInvariant, VolumesSound, NoISOLeftBehind, WillCollect
<1> QED
  BY <1>1, ISOInvariantHolds, PTL

-----------------------------------------------------------------------------
(* One worker: what a sweep has found out still holds when it deletes      *)

\* The handler that takes a step is the only one at work.
LEMMA OthersIdle ==
    ASSUME Serial, SerialInvariant, NEW m \in Machines,
           Start(m) \/ Creation(m) \/ Deletion(m) \/ ReconcileFails(m)
    PROVE  \A n \in Machines : n # m => rec[n].step = "idle"
<1>1. CASE Start(m)
  <2>1. IsFiniteSet(Active)
    BY FS_Subset, ConstantsAssumption DEF Active
  <2>2. Cardinality(Active) = 0
    BY <1>1, <2>1, FS_CardinalityType DEF Start, Serial
  <2>3. Active = {}
    BY <2>1, <2>2, FS_EmptySet
  <2> QED
    BY <2>3 DEF Active
<1>2. CASE Creation(m) \/ Deletion(m) \/ ReconcileFails(m)
  <2>1. rec[m].step # "idle"
    BY <1>2, CreationSteps_ DEF Creation, Deletion, ReconcileFails, GetVM,
       EnsureSharedISO, CreateSharedISO, CreateVM, GetVMI, RemoveCDROM, DeleteISO,
       MarkCleaned, DeleteVM, CheckVM, GCListDataVolumes, GCListVMs, GCListVMIs,
       GCDelete, GCError, RemoveMachineFinalizer, GCSteps, DeletionSteps
  <2> QED
    BY <2>1 DEF SerialInvariant, OneReconcile
<1> QED
  BY <1>1, <1>2

LEMMA SerialKept ==
    ASSUME SerialInvariant, ISOInvariant', NEW m \in Machines, Keeps(m),
           \A n \in Machines : n # m => rec[n].step = "idle",
           VolumesKnown(m)', AttachedISOIsImported'
    PROVE  SerialInvariant'
<1>1. \A n \in Machines : n # m => rec'[n].step = "idle" /\ rec'[n].left = {}
  BY DEF Keeps, Untouched, TypeOK, GCSteps
<1>2. OneReconcile'
  BY <1>1 DEF OneReconcile
<1>3. \A n \in Machines : VolumesKnown(n)'
  BY <1>1 DEF VolumesKnown
<1> QED
  BY <1>2, <1>3 DEF SerialInvariant

\* References are dropped, or taken over from a VM by its VMI.
LEMMA AttachedKept ==
    ASSUME SerialInvariant,
           \A v \in ISOs : dvs[v] = "ready" => dvs'[v] = "ready",
           \A n \in Machines : vms'[n].cdrom \in {vms[n].cdrom, None},
           \A n \in Machines : vmis'[n].cdrom \in {vms[n].cdrom, vmis[n].cdrom, None}
    PROVE  AttachedISOIsImported'
BY ConstantsAssumption DEF SerialInvariant, AttachedISOIsImported

\* A step after which the handler has no list and is not about to create a VM.
LEMMA SerialCalm ==
    ASSUME SerialInvariant, ISOInvariant', NEW m \in Machines, Keeps(m),
           \A n \in Machines : n # m => rec[n].step = "idle",
           rec'[m].left = {}, shared' => rec'[m].step # "createVM",
           \A v \in ISOs : dvs[v] = "ready" => dvs'[v] = "ready",
           vms'[m].cdrom \in {vms[m].cdrom, None}, vmis' = vmis
    PROVE  SerialInvariant'
<1>1. \A n \in Machines : vms'[n].cdrom \in {vms[n].cdrom, None}
  BY DEF Keeps, Untouched
<1>2. AttachedISOIsImported'
  BY <1>1, AttachedKept
<1>3. VolumesKnown(m)'
  BY DEF VolumesKnown
<1> QED
  BY <1>2, <1>3, SerialKept

LEMMA SerialHandlerStep ==
    ASSUME Serial, SerialInvariant, NEW m \in Machines,
           Start(m) \/ Creation(m) \/ Deletion(m) \/ ReconcileFails(m)
    PROVE  SerialInvariant'
<1>1. ISOInvariant /\ ISOInvariant'
  BY ISOHandlerStep DEF SerialInvariant
<1>2. \A n \in Machines : n # m => rec[n].step = "idle"
  BY OthersIdle
<1>3. \A v \in ISOs : v \in Volumes /\ v # m /\ v # None
  BY ConstantsAssumption DEF Volumes
<1>4. ASSUME Keeps(m), rec'[m].left = {}, shared' => rec'[m].step # "createVM",
             UNCHANGED <<dvs, vms, vmis>>
      PROVE  SerialInvariant'
  BY <1>1, <1>2, <1>4, SerialCalm
<1>5. CASE Start(m)
  BY <1>1, <1>4, <1>5, StartKeeps DEF Start
<1>6. CASE GetVM(m)
  <2>1. shared' = shared
    BY <1>6 DEF GetVM
  <2> QED
    BY <1>1, <1>4, <1>6, <2>1, GetVMKeeps
<1>7. CASE EnsureSharedISO(m)
  <2>1. /\ Keeps(m) /\ UNCHANGED <<dvs, vms, vmis>> /\ rec'[m].left = {}
        /\ rec'[m].step = "createVM" => dvs[rec'[m].obj.image] = "ready"
    BY <1>1, <1>7, EnsureSharedISOKeeps
  <2>2. VolumesKnown(m)'
    BY <2>1 DEF VolumesKnown
  <2>3. AttachedISOIsImported'
    BY <2>1 DEF SerialInvariant, AttachedISOIsImported
  <2> QED
    BY <1>1, <1>2, <2>1, <2>2, <2>3, SerialKept
<1>8. CASE CreateSharedISO(m)
  <2>1. /\ Keeps(m) /\ UNCHANGED <<vms, vmis>> /\ rec'[m].left = {}
        /\ rec'[m].step = "idle"
        /\ \A v \in Volumes : dvs'[v] = dvs[v] \/ dvs[v] = "none"
    BY <1>1, <1>8, CreateSharedISOKeeps
  <2> QED
    BY <1>1, <1>2, <1>3, <2>1, SerialCalm
<1>9. CASE CreateVM(m)
  <2>1. /\ Keeps(m) /\ UNCHANGED <<dvs, vmis>> /\ rec'[m].left = {}
        /\ rec'[m].step = "getVMI"
        /\ shared => vms'[m].cdrom = rec[m].obj.image
        /\ ~shared => vms'[m].cdrom = m
    BY <1>1, <1>9, CreateVMKeeps
  <2>2. shared => dvs[rec[m].obj.image] = "ready"
    BY <1>9 DEF CreateVM, SerialInvariant, VolumesKnown
  <2>3. \A v \in ISOs : vms'[m].cdrom = v => dvs[v] = "ready"
    BY <1>3, <2>1, <2>2
  <2>4. AttachedISOIsImported'
    BY <2>1, <2>3 DEF SerialInvariant, AttachedISOIsImported, Keeps, Untouched
  <2>5. VolumesKnown(m)'
    BY <2>1 DEF VolumesKnown
  <2> QED
    BY <1>1, <1>2, <2>1, <2>4, <2>5, SerialKept
<1>10. CASE GetVMI(m)
  BY <1>1, <1>4, <1>10, GetVMIKeeps
<1>11. CASE RemoveCDROM(m)
  <2>1. /\ Keeps(m) /\ UNCHANGED <<dvs, vmis>> /\ rec'[m].left = {}
        /\ rec'[m].step \in {"deleteDV", "markCleaned"} /\ vms'[m].cdrom = None
    BY <1>1, <1>11, RemoveCDROMKeeps
  <2> QED
    BY <1>1, <1>2, <2>1, SerialCalm
<1>12. CASE DeleteISO(m)
  <2>1. /\ Keeps(m) /\ UNCHANGED <<vms, vmis>> /\ rec'[m].left = {}
        /\ rec'[m].step = "markCleaned" /\ dvs' = [dvs EXCEPT ![m] = "none"]
    BY <1>1, <1>12, DeleteISOKeeps
  <2>2. \A v \in ISOs : dvs'[v] = dvs[v]
    BY <1>1, <1>3, <2>1 DEF ISOInvariant, TypeOK
  <2> QED
    BY <1>1, <1>2, <2>1, <2>2, SerialCalm
<1>13. CASE MarkCleaned(m)
  BY <1>1, <1>4, <1>13, MarkCleanedKeeps
<1>14. CASE DeleteVM(m)
  <2>1. /\ Keeps(m) /\ UNCHANGED <<dvs, vmis>> /\ rec'[m].left = {}
        /\ rec'[m].step = "checkVM" /\ vms'[m].cdrom = vms[m].cdrom
    BY <1>1, <1>14, DeleteVMKeeps
  <2> QED
    BY <1>1, <1>2, <2>1, SerialCalm
<1>15. CASE CheckVM(m)
  BY <1>1, <1>4, <1>15, CheckVMKeeps
<1>16. ASSUME Keeps(m), UNCHANGED <<dvs, vms, vmis>>, VolumesKnown(m)'
       PROVE  SerialInvariant'
  <2>1. AttachedISOIsImported'
    BY <1>16 DEF SerialInvariant, AttachedISOIsImported
  <2> QED
    BY <1>1, <1>2, <1>16, <2>1, SerialKept
<1>17. CASE GCListDataVolumes(m)
  <2>1. /\ Keeps(m) /\ UNCHANGED <<dvs, vms, vmis>>
        /\ rec'[m].step \in {"gcVMs", "removeFinalizer"}
    BY <1>1, <1>17, GCListKeeps
  <2>2. VolumesKnown(m)'
    BY <2>1 DEF VolumesKnown
  <2> QED
    BY <1>16, <2>1, <2>2
<1>18. CASE GCListVMs(m)
  <2>1. /\ Keeps(m) /\ UNCHANGED <<dvs, vms, vmis>>
        /\ rec'[m].step \in {"gcVMIs", "removeFinalizer"}
        /\ rec'[m].left = rec[m].left \ {vms[o].cdrom : o \in Machines}
    BY <1>1, <1>18, GCListKeeps
  <2>2. VolumesKnown(m)'
    BY <2>1 DEF VolumesKnown
  <2> QED
    BY <1>16, <2>1, <2>2
<1>19. CASE GCListVMIs(m)
  <2>1. /\ Keeps(m) /\ UNCHANGED <<dvs, vms, vmis>> /\ rec[m].step = "gcVMIs"
        /\ rec'[m].step \in {"gcDelete", "removeFinalizer"}
        /\ rec'[m].left = rec[m].left \ {vmis[o].cdrom : o \in Machines}
    BY <1>1, <1>19, GCListKeeps
  <2>2. \A v \in rec[m].left : \A o \in Machines : vms[o].cdrom # v
    BY <2>1 DEF SerialInvariant, VolumesKnown
  <2>3. VolumesKnown(m)'
    BY <2>1, <2>2 DEF VolumesKnown
  <2> QED
    BY <1>16, <2>1, <2>3
<1>20. CASE GCDelete(m)
  <2>1. /\ Keeps(m) /\ UNCHANGED <<vms, vmis>> /\ rec[m].step = "gcDelete"
        /\ rec'[m].step \in {"gcDelete", "removeFinalizer"}
    BY <1>1, <1>20, GCDeleteKeeps
  <2>2. PICK u \in rec[m].left : /\ u \in ISOs
                                 /\ dvs' = [dvs EXCEPT ![u] = "none"]
                                 /\ rec'[m].left = rec[m].left \ {u}
    BY <1>1, <1>20, GCDeleteKeeps
  <2>3. \A v \in rec[m].left : \A o \in Machines : vms[o].cdrom # v /\ vmis[o].cdrom # v
    BY <2>1 DEF SerialInvariant, VolumesKnown
  <2>4. VolumesKnown(m)'
    BY <2>1, <2>2, <2>3 DEF VolumesKnown
  <2>5. \A v \in ISOs : v # u => dvs'[v] = dvs[v]
    BY <1>1, <1>3, <2>2 DEF ISOInvariant, TypeOK
  <2>6. AttachedISOIsImported'
    BY <2>1, <2>2, <2>3, <2>5 DEF SerialInvariant, AttachedISOIsImported
  <2> QED
    BY <1>1, <1>2, <2>1, <2>4, <2>6, SerialKept
<1>21. CASE GCError(m)
  <2>1. /\ Keeps(m) /\ UNCHANGED <<dvs, vms, vmis>>
        /\ \/ rec'[m].step = "removeFinalizer" /\ rec'[m].left = {}
           \/ /\ rec[m].step = "gcDelete" /\ rec'[m].step = "gcDelete"
              /\ rec'[m].left \subseteq rec[m].left
    BY <1>1, <1>21, GCErrorKeeps
  <2>2. VolumesKnown(m)'
    BY <2>1 DEF SerialInvariant, VolumesKnown
  <2> QED
    BY <1>16, <2>1, <2>2
<1>22. CASE RemoveMachineFinalizer(m)
  BY <1>1, <1>4, <1>22, RemoveMachineFinalizerKeeps
<1>23. CASE ReconcileFails(m)
  <2>1. Return(m) /\ UNCHANGED <<machine, cache, dvs, vms, vmis, shared, swallowed>>
    BY <1>23 DEF ReconcileFails
  <2>2. Keeps(m) /\ rec'[m].step = "idle" /\ rec'[m].left = {}
    BY <1>1, <2>1, ReturnKeeps, ReturnFacts DEF ISOInvariant
  <2> QED
    BY <1>4, <2>1, <2>2
<1> QED
  BY <1>5, <1>6, <1>7, <1>8, <1>9, <1>10, <1>11, <1>12, <1>13, <1>14, <1>15, <1>17,
     <1>18, <1>19, <1>20, <1>21, <1>22, <1>23 DEF Creation, Deletion

LEMMA LeftTyped ==
    ASSUME TypeOK, NEW m \in Machines PROVE rec[m].left \subseteq ISOs
BY DEF TypeOK, Reconcile

\* The cluster takes over no reference a sweep has not looked for: a VMI has the
\* volume of its VM, and the sweep lists the VMs before the VMIs.
LEMMA SerialEnvironmentStep ==
    ASSUME SerialInvariant, Supervisor \/ RemoteCluster PROVE SerialInvariant'
<1>1. ISOInvariant /\ ISOInvariant'
  BY ISOEnvironmentStep DEF SerialInvariant
<1>2. CASE Crash
  <2>1. /\ \A n \in Machines : rec'[n].step = "idle" /\ rec'[n].left = {}
        /\ UNCHANGED <<dvs, vms, vmis>>
    BY <1>2, ConstantsTyped DEF Crash
  <2>2. AttachedISOIsImported'
    BY <2>1 DEF SerialInvariant, AttachedISOIsImported
  <2>3. OneReconcile' /\ \A n \in Machines : VolumesKnown(n)'
    BY <2>1 DEF OneReconcile, VolumesKnown
  <2> QED
    BY <1>1, <2>2, <2>3 DEF SerialInvariant
<1>3. ASSUME UNCHANGED <<rec, shared>>,
             \A v \in ISOs : dvs[v] = "ready" => dvs'[v] = "ready",
             \A n \in Machines : vms'[n].cdrom \in {vms[n].cdrom, None},
             \A n \in Machines : vmis'[n].cdrom \in {vms[n].cdrom, vmis[n].cdrom, None}
      PROVE  SerialInvariant'
  <2>1. AttachedISOIsImported'
    BY <1>3, AttachedKept
  <2>2. OneReconcile'
    BY <1>3 DEF SerialInvariant, OneReconcile
  <2>3. ASSUME NEW n \in Machines PROVE VolumesKnown(n)'
    <3>1. \A v \in rec[n].left : v \in ISOs /\ v # None
      BY <1>1, ConstantsAssumption, LeftTyped DEF ISOInvariant
    <3>2. shared /\ rec[n].step = "createVM" =>
              dvs[rec[n].obj.image] = "ready" /\ rec[n].obj.image \in ISOs
      BY <1>1, CreationSteps_ DEF SerialInvariant, ISOInvariant, VolumesKnown, Sound
    <3>3. VolumesKnown(n)
      BY DEF SerialInvariant
    <3> QED
      BY <1>3, <3>1, <3>2, <3>3 DEF VolumesKnown
  <2> QED
    BY <1>1, <2>1, <2>2, <2>3 DEF SerialInvariant
<1>4. ASSUME NEW m \in Machines,
             \/ UserCreates(m) \/ UserDeletes(m) \/ MarkedInstalled(m) \/ CacheSync(m)
      PROVE  SerialInvariant'
  BY <1>3, <1>4 DEF UserCreates, UserDeletes, MarkedInstalled, CacheSync
<1>5. ASSUME NEW m \in Machines,
             \/ VMDeletedRemotely(m) \/ VMGone(m) \/ VolumeFromTemplate(m)
             \/ VMIStarts(m) \/ AgentConnects(m) \/ VMIStops(m)
      PROVE  SerialInvariant'
  <2>1. UNCHANGED <<rec, shared>>
    BY <1>5 DEF VMDeletedRemotely, VMGone, VolumeFromTemplate, VMIStarts, AgentConnects,
       VMIStops
  <2>2. \A v \in ISOs : dvs'[v] = dvs[v]
    <3>1. dvs' = dvs \/ \E d : dvs' = [dvs EXCEPT ![m] = d]
      BY <1>5 DEF VMDeletedRemotely, VMGone, VolumeFromTemplate, VMIStarts,
         AgentConnects, VMIStops
    <3>2. \A v \in ISOs : v \in Volumes /\ v # m
      BY ConstantsAssumption DEF Volumes
    <3> QED
      BY <1>1, <3>1, <3>2 DEF ISOInvariant, TypeOK
  <2>3. \A n \in Machines : n # m => vms'[n] = vms[n] /\ vmis'[n] = vmis[n]
    BY <1>1, <1>5, RemoteKeeps DEF Keeps, Untouched
  <2>4. /\ vms'[m].cdrom \in {vms[m].cdrom, None}
        /\ vmis'[m].cdrom \in {vms[m].cdrom, vmis[m].cdrom, None}
    <3>1. vms[m] \in VirtualMachine /\ vmis[m] \in Instance
      BY <1>1 DEF ISOInvariant, TypeOK
    <3>2. CASE VMDeletedRemotely(m)
      BY <1>1, <3>1, <3>2 DEF VMDeletedRemotely, ISOInvariant, TypeOK, VirtualMachine
    <3>3. CASE VMGone(m) \/ VMIStops(m) \/ VolumeFromTemplate(m)
      BY <1>1, <3>3, ConstantsTyped DEF VMGone, VMIStops, VolumeFromTemplate,
         ISOInvariant, TypeOK
    <3>4. CASE VMIStarts(m)
      BY <1>1, <3>4 DEF VMIStarts, ISOInvariant, TypeOK
    <3>5. CASE AgentConnects(m)
      BY <1>1, <3>1, <3>5 DEF AgentConnects, ISOInvariant, TypeOK, Instance
    <3> QED
      BY <1>5, <3>2, <3>3, <3>4, <3>5
  <2> QED
    BY <1>3, <2>1, <2>2, <2>3, <2>4
<1>6. ASSUME NEW u \in Volumes, ImportSucceeds(u) PROVE SerialInvariant'
  <2>1. \A v \in ISOs : dvs[v] = "ready" => dvs'[v] = "ready"
    BY <1>1, <1>6 DEF ImportSucceeds, ISOInvariant, TypeOK, Volumes
  <2> QED
    BY <1>3, <1>6, <2>1 DEF ImportSucceeds
<1> QED
  BY <1>2, <1>4, <1>5, <1>6 DEF Supervisor, RemoteCluster

LEMMA SerialInvariantHolds ==
    ASSUME Serial PROVE Spec => []SerialInvariant
<1>1. Init => SerialInvariant
  <2> SUFFICES ASSUME Init PROVE SerialInvariant
    OBVIOUS
  <2>1. ISOInvariant
    BY InitSound
  <2>2. AttachedISOIsImported
    BY ConstantsAssumption, ConstantsTyped DEF Init, AttachedISOIsImported
  <2>3. OneReconcile /\ \A m \in Machines : VolumesKnown(m)
    BY ConstantsTyped DEF Init, OneReconcile, VolumesKnown
  <2> QED
    BY <2>1, <2>2, <2>3 DEF SerialInvariant
<1>2. SerialInvariant /\ [Next]_vars => SerialInvariant'
  <2>1. ASSUME SerialInvariant, UNCHANGED vars PROVE SerialInvariant'
    BY <2>1 DEF vars, SerialInvariant, ISOInvariant, TypeOK, Sound, VolumesSound,
       WillCollect, OneReconcile, VolumesKnown, AttachedISOIsImported
  <2> QED
    BY <2>1, SerialHandlerStep, SerialEnvironmentStep DEF Next
<1> QED
  BY <1>1, <1>2, PTL DEF Spec

\* With one worker a shared volume that a VM's spec or a VMI refers to is there
\* and imported: nothing is attached between the import and the creation, and no
\* reference comes up between the sweep's three lists and its Deletes
\* (shared_iso.go:209, 377-381).
THEOREM AttachedISOsAreImported ==
    ASSUME Serial PROVE Spec => []AttachedISOIsImported
<1>1. SerialInvariant => AttachedISOIsImported
  BY DEF SerialInvariant
<1> QED
  BY <1>1, SerialInvariantHolds, PTL

\* With one worker no volume is deleted under a VM that names it: the sweep
\* deletes what nobody refers to, the cleanup deletes after it has detached, and
\* KubeVirt takes a VM's own volume with the VM (cdrom_manager.go:126-129).
THEOREM DeletedISOsAreDetached ==
    ASSUME Serial PROVE Spec => DeletedISOIsDetached
<1> DEFINE Detached == \A v \in Volumes : dvs[v] # "none" /\ dvs'[v] = "none" =>
                          \A m \in Machines : vms[m].state = "up" => vms[m].cdrom # v
<1>1. ASSUME SerialInvariant, [Next]_vars, NEW v \in Volumes,
             dvs[v] # "none", dvs'[v] = "none", NEW m \in Machines, vms[m].state = "up"
      PROVE  vms[m].cdrom # v
  <2>1. /\ TypeOK /\ \A n \in Machines : Sound(n) /\ VolumesKnown(n)
        /\ ISOInvariant
    BY <1>1 DEF SerialInvariant, ISOInvariant
  <2>2. \A n \in Machines : v = n /\ vms[m].cdrom = v => n = m
    BY <2>1, ConstantsAssumption DEF TypeOK
  <2>3. \/ \E n \in Machines : VMGone(n) \/ DeleteISO(n) \/ GCDelete(n)
        \/ dvs' = dvs
        \/ \E n \in Machines : VolumeFromTemplate(n) \/ CreateSharedISO(n)
        \/ \E u \in Volumes : ImportSucceeds(u)
    BY <1>1 DEF Next, vars, Supervisor, RemoteCluster, Creation, Deletion, Start,
       ReconcileFails, UserCreates, UserDeletes, MarkedInstalled, CacheSync, Crash,
       VMDeletedRemotely, VMIStarts, AgentConnects, VMIStops, GetVM, EnsureSharedISO,
       CreateVM, GetVMI, RemoveCDROM, MarkCleaned, DeleteVM, CheckVM,
       GCListDataVolumes, GCListVMs, GCListVMIs, GCError, RemoveMachineFinalizer
  <2>4. ASSUME NEW n \in Machines, VMGone(n) PROVE vms[m].cdrom # v
    <3>1. v = n /\ vms[n].state = "dying"
      BY <1>1, <2>1, <2>4 DEF VMGone, TypeOK
    <3> QED
      BY <1>1, <2>2, <3>1
  <2>5. ASSUME NEW n \in Machines, DeleteISO(n) PROVE vms[m].cdrom # v
    <3>1. dvs' = [dvs EXCEPT ![n] = "none"] /\ vms[n].cdrom = None
      BY <2>1, <2>5, DeleteISOKeeps
    <3>2. v = n /\ n # None
      BY <1>1, <2>1, <3>1, ConstantsAssumption DEF TypeOK
    <3> QED
      BY <2>2, <3>1, <3>2
  <2>6. ASSUME NEW n \in Machines, GCDelete(n) PROVE vms[m].cdrom # v
    <3>1. PICK u \in rec[n].left : u \in ISOs /\ dvs' = [dvs EXCEPT ![u] = "none"]
      BY <2>1, <2>6, GCDeleteKeeps
    <3>2. v = u
      BY <1>1, <2>1, <3>1 DEF TypeOK
    <3>3. rec[n].step = "gcDelete"
      BY <2>6 DEF GCDelete
    <3> QED
      BY <2>1, <3>1, <3>2, <3>3 DEF VolumesKnown
  <2>7. ASSUME NEW n \in Machines, VolumeFromTemplate(n) PROVE FALSE
    BY <1>1, <2>1, <2>7 DEF VolumeFromTemplate, TypeOK
  <2>8. ASSUME NEW n \in Machines, CreateSharedISO(n) PROVE FALSE
    BY <1>1, <2>1, <2>8, CreateSharedISOKeeps
  <2>9. ASSUME NEW u \in Volumes, ImportSucceeds(u) PROVE FALSE
    BY <1>1, <2>1, <2>9 DEF ImportSucceeds, TypeOK
  <2> QED
    BY <1>1, <2>3, <2>4, <2>5, <2>6, <2>7, <2>8, <2>9
<1>2. SerialInvariant /\ [Next]_vars => [Detached]_vars
  BY <1>1
<1> QED
  BY <1>2, SerialInvariantHolds, PTL DEF Spec, DeletedISOIsDetached
=============================================================================
