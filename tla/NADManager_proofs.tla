--------------------------- MODULE NADManager_proofs ---------------------------
(***************************************************************************)
(* The safety properties of NADManager, for any number of Machines and     *)
(* NADs.  Any number of workers leave nothing behind, and take a NAD from  *)
(* a running VM only if it came up under the collector; one worker never   *)
(* does, nor does its sweep take a NAD that an administrator made.         *)
(***************************************************************************)
EXTENDS NADManager, FiniteSetTheorems, TLAPS

\* The steps of a deletion that has seen its VM gone.
FinalSteps == AfterVMSteps \cup SweepSteps \cup {"unnote", "removeFinalizer"}

\* A Machine that is not there has no VM, and nobody creates one for it; one
\* that was created again under a deletion of its predecessor has none either.
\* A list of NADs is the sweep's.
Sound(m) ==
    /\ machine[m].phase = "absent" => vms[m].state = "none"
    /\ cache[m].phase = "live" => machine[m].phase # "absent"
    /\ cache[m].phase = "deleting" => machine[m].phase # "live"
    /\ rec[m].step \in CreationSteps => machine[m].phase # "absent"
    /\ rec[m].step \in DeletionSteps /\ machine[m].phase = "live" =>
          vms[m].state = "none"
    /\ rec[m].step \in FinalSteps => vms[m].state = "none"
    /\ rec[m].step \notin {"sweepVMs", "sweepDelete"} => rec[m].left = {}

\* m is there and its deletion has n on its list, or has yet to make the list.
WillCollect(m, n) ==
    /\ machine[m].phase # "absent"
    /\ \/ rec[m].step \notin {"sweepVMs", "sweepDelete", "unnote", "removeFinalizer"}
       \/ n \in rec[m].left

\* Somebody will collect each NAD the operator made.
NADsSound ==
    ~swallowed =>
        \A n \in NADs : nads[n] = "managed" => \E m \in Machines : WillCollect(m, n)

\* Inductive for any number of workers.
NADInvariant ==
    /\ TypeOK
    /\ \A m \in Machines : Sound(m)
    /\ NADsSound

\* The VMs that run on n, but for those that came up under a collector of it.
Exposed(n) == Users(n) \ raced

\* What a handler has found out about the VMs on the NADs it goes to delete still
\* holds of those: they have no users but its own VM.
StillUnused(m) ==
    /\ At(m, "preDelete") => Exposed(rec[m].nad) \subseteq {m}
    /\ At(m, "finDelete") => Exposed(rec[m].nad) = {}
    /\ At(m, "sweepDelete") => \A n \in rec[m].left : Exposed(n) = {}

\* Inductive for any number of workers.
RaceInvariant ==
    /\ NADInvariant
    /\ \A m \in Machines : StillUnused(m)
    /\ LiveVMHasItsNAD

\* One worker.
Serial == MaxConcurrentReconciles = 1

AtRest(m) == rec[m].step \in {"idle", "down"}

OneReconcile == \A m, o \in Machines : ~AtRest(m) /\ ~AtRest(o) => m = o

\* What a handler has found out about the NADs still holds: that of the VM it goes
\* to create is there, those of its sweep have our label.
NADsKnown(m) ==
    /\ At(m, "createVM") /\ rec[m].nad # None => nads[rec[m].nad] # "none"
    /\ \A n \in rec[m].left : nads[n] = "managed"

\* Inductive for one worker.
SerialInvariant ==
    /\ RaceInvariant
    /\ OneReconcile
    /\ \A m \in Machines : NADsKnown(m)
    /\ raced = {}

-----------------------------------------------------------------------------
(* Types, and what a handler's step does to its locals                     *)

USE DEF At, GoTo, Return

Steps == {"idle", "down"} \cup CreationSteps \cup DeletionSteps
NADState == {"none", "managed", "foreign"}

LEMMA ConstantsTyped ==
    /\ Absent \in MachineObject /\ Absent.phase = "absent"
    /\ NoVM \in VirtualMachine /\ NoVM.state = "none" /\ NoVM.nad = None
    /\ Idle \in Reconcile /\ Idle.step = "idle" /\ Idle.left = {} /\ Idle.nad = None
    /\ Down \in Reconcile /\ Down.step = "down" /\ Down.left = {}
<1>1. Absent \in MachineObject /\ Absent.phase = "absent"
  BY DEF Absent, MachineObject, OptionalNAD
<1>2. NoVM \in VirtualMachine /\ NoVM.state = "none" /\ NoVM.nad = None
  BY DEF NoVM, VirtualMachine, OptionalNAD
<1>3. Idle \in Reconcile /\ Idle.step = "idle" /\ Idle.left = {} /\ Idle.nad = None
  BY <1>1 DEF Idle, Reconcile, OptionalNAD
<1>4. Down \in Reconcile /\ Down.step = "down" /\ Down.left = {}
  BY <1>1 DEF Down, Idle, Reconcile, OptionalNAD
<1> QED
  BY <1>1, <1>2, <1>3, <1>4

\* A step of m's handler.
Moves(m) ==
    /\ rec' \in [Machines -> Reconcile]
    /\ rec'[m].step \in NamedSteps => rec'[m].nad # None
    /\ \A o \in Machines : o # m => rec'[o] = rec[o]

LEMMA MovesTo ==
    ASSUME TypeOK, NEW m \in Machines, NEW r \in Reconcile,
           rec' = [rec EXCEPT ![m] = r], r.step \in NamedSteps => r.nad # None
    PROVE  Moves(m) /\ rec'[m] = r
BY DEF TypeOK, Moves

LEMMA GoToFacts ==
    ASSUME TypeOK, NEW m \in Machines, NEW step \in Steps, GoTo(m, step),
           step \in NamedSteps => rec[m].nad # None
    PROVE  /\ Moves(m) /\ rec'[m].step = step
           /\ rec'[m].nad = rec[m].nad /\ rec'[m].left = rec[m].left
<1> DEFINE r == [rec[m] EXCEPT !.step = step]
<1>1. rec' = [rec EXCEPT ![m] = r] /\ rec[m] \in Reconcile
  BY DEF TypeOK
<1>2. ASSUME NEW q \in Reconcile
      PROVE  LET u == [q EXCEPT !.step = step] IN
             u \in Reconcile /\ u.step = step /\ u.nad = q.nad /\ u.left = q.left
  BY <1>2 DEF Reconcile, Steps
<1>3. /\ r \in Reconcile /\ r.step = step
      /\ r.nad = rec[m].nad /\ r.left = rec[m].left
  BY <1>1, <1>2, Zenon
<1> HIDE DEF r
<1> QED
  BY <1>1, <1>3, MovesTo

LEMMA ReturnFacts ==
    ASSUME TypeOK, NEW m \in Machines, Return(m)
    PROVE  Moves(m) /\ rec'[m].step = "idle" /\ rec'[m].left = {}
BY ConstantsTyped DEF TypeOK, Moves, NamedSteps, BeforeVMSteps, AfterVMSteps

\* A handler that goes on with the name of a NAD.
Names(m, nad, step) == rec' = [rec EXCEPT ![m].nad = nad, ![m].step = step]

LEMMA NameFacts ==
    ASSUME TypeOK, NEW m \in Machines, NEW step \in Steps, NEW nad \in OptionalNAD,
           Names(m, nad, step),
           step \in NamedSteps => nad # None
    PROVE  /\ Moves(m) /\ rec'[m].step = step
           /\ rec'[m].nad = nad /\ rec'[m].left = rec[m].left
<1> DEFINE r == [rec[m] EXCEPT !.nad = nad, !.step = step]
<1>1. rec' = [rec EXCEPT ![m] = r] /\ rec[m] \in Reconcile
  BY DEF TypeOK, Names
<1>2. ASSUME NEW q \in Reconcile
      PROVE  LET u == [q EXCEPT !.nad = nad, !.step = step] IN
             u \in Reconcile /\ u.step = step /\ u.nad = nad /\ u.left = q.left
  BY <1>2 DEF Reconcile, Steps
<1>3. r \in Reconcile /\ r.step = step /\ r.nad = nad /\ r.left = rec[m].left
  BY <1>1, <1>2, Zenon
<1> HIDE DEF r
<1> QED
  BY <1>1, <1>3, MovesTo

\* A handler that goes on with another note in its copy of the Machine.
LEMMA NoteFacts ==
    ASSUME TypeOK, NEW m \in Machines, NEW step \in Steps, NEW noted \in OptionalNAD,
           rec' = [rec EXCEPT ![m].obj.noted = noted, ![m].step = step],
           step \in NamedSteps => rec[m].nad # None
    PROVE  /\ Moves(m) /\ rec'[m].step = step
           /\ rec'[m].nad = rec[m].nad /\ rec'[m].left = rec[m].left
<1> DEFINE r == [rec[m] EXCEPT !.obj.noted = noted, !.step = step]
<1>1. rec' = [rec EXCEPT ![m] = r] /\ rec[m] \in Reconcile
  BY DEF TypeOK
<1>2. ASSUME NEW q \in Reconcile
      PROVE  LET u == [q EXCEPT !.obj.noted = noted, !.step = step] IN
             u \in Reconcile /\ u.step = step /\ u.nad = q.nad /\ u.left = q.left
  BY <1>2 DEF Reconcile, Steps, MachineObject
<1>3. /\ r \in Reconcile /\ r.step = step
      /\ r.nad = rec[m].nad /\ r.left = rec[m].left
  BY <1>1, <1>2, Zenon
<1> HIDE DEF r
<1> QED
  BY <1>1, <1>3, MovesTo

LEMMA SweepOnFacts ==
    ASSUME TypeOK, NEW m \in Machines, NEW left \in SUBSET NADs,
           NEW step \in {"sweepVMs", "sweepDelete", "unnote"}, SweepOn(m, left, step),
           step = "unnote" => left = {}
    PROVE  /\ Moves(m) /\ rec'[m].left = left /\ rec'[m].nad = rec[m].nad
           /\ left # {} => rec'[m].step = step
           /\ left = {} => rec'[m].step \in {"unnote", "removeFinalizer"}
<1> DEFINE next == IF left # {} THEN step
                   ELSE IF rec[m].nad # None THEN "unnote" ELSE "removeFinalizer"
           r == [rec[m] EXCEPT !.left = left, !.step = next]
<1>1. rec' = [rec EXCEPT ![m] = r] /\ rec[m] \in Reconcile
  BY DEF TypeOK, SweepOn
<1>2. /\ next \in Steps
      /\ left # {} => next = step
      /\ left = {} => next \in {"unnote", "removeFinalizer"}
  BY DEF Steps, DeletionSteps, SweepSteps
<1> HIDE DEF next
<1>3. ASSUME NEW q \in Reconcile
      PROVE  LET u == [q EXCEPT !.left = left, !.step = next] IN
             u \in Reconcile /\ u.step = next /\ u.nad = q.nad /\ u.left = left
  BY <1>2, <1>3 DEF Reconcile, Steps
<1>4. r \in Reconcile /\ r.step = next /\ r.nad = rec[m].nad /\ r.left = left
  BY <1>1, <1>3, Zenon
<1> HIDE DEF r
<1>5. next \in NamedSteps => rec[m].nad # None
  BY <1>2 DEF next, NamedSteps, BeforeVMSteps, AfterVMSteps
<1> QED
  BY <1>1, <1>2, <1>4, <1>5, MovesTo

-----------------------------------------------------------------------------
(* What is sound of one Machine.  A step of m leaves the others alone.     *)

Untouched(o) ==
    /\ machine'[o] = machine[o] /\ cache'[o] = cache[o]
    /\ vms'[o] = vms[o] /\ rec'[o] = rec[o]

LEMMA FrameSound ==
    ASSUME NEW o \in Machines, Sound(o), Untouched(o) PROVE Sound(o)'
BY DEF Sound, Untouched

\* What a step of m owes the invariant, its NADs apart.
Keeps(m) ==
    /\ TypeOK'
    /\ Sound(m)'
    /\ \A o \in Machines : o # m => Untouched(o)

\* The step that m's handler goes to is one it may be at.
FollowsOn(m) ==
    /\ rec'[m].step \in CreationSteps =>
          rec[m].step \in CreationSteps \/ cache[m].phase = "live"
    /\ rec'[m].step \in DeletionSteps =>
          rec[m].step \in DeletionSteps \/ cache[m].phase = "deleting"
    /\ rec'[m].step \in FinalSteps => vms[m].state = "none"
    /\ rec'[m].step \notin {"sweepVMs", "sweepDelete"} => rec'[m].left = {}

\* A handler's step that leaves its Machine and its VM alone.
LEMMA QuietKeeps ==
    ASSUME NADInvariant, NEW m \in Machines, Moves(m), FollowsOn(m),
           UNCHANGED <<machine, cache, network, vms, raced>>,
           nads' \in [NADs -> NADState], swallowed' \in BOOLEAN
    PROVE  Keeps(m)
<1> USE DEF NADInvariant
<1>1. TypeOK'
  <2>1. \A o \in Machines : rec'[o].step \in NamedSteps => rec'[o].nad # None
    BY DEF Moves, TypeOK
  <2> QED
    BY <2>1 DEF TypeOK, Moves, NADState
<1>2. Sound(m)'
  BY DEF Sound, FollowsOn
<1> QED
  BY <1>1, <1>2 DEF Keeps, Untouched, Moves

LEMMA ReturnKeeps ==
    ASSUME NADInvariant, NEW m \in Machines, Return(m),
           UNCHANGED <<machine, cache, network, nads, vms, swallowed, raced>>
    PROVE  Keeps(m) /\ rec'[m].step = "idle" /\ rec'[m].left = {}
<1>1. Moves(m) /\ rec'[m].step = "idle" /\ rec'[m].left = {}
  BY ReturnFacts DEF NADInvariant
<1>2. FollowsOn(m)
  BY <1>1 DEF FollowsOn, CreationSteps, DeletionSteps, FinalSteps, BeforeVMSteps,
     AfterVMSteps, SweepSteps
<1>3. nads' \in [NADs -> NADState] /\ swallowed' \in BOOLEAN
  BY DEF NADInvariant, TypeOK, NADState
<1> QED
  BY <1>1, <1>2, <1>3, QuietKeeps

\* A step within the creation or within the deletion, before or after the sweep.
LEMMA GoToKeeps ==
    ASSUME NADInvariant, NEW m \in Machines,
           NEW step \in Steps \ {"sweepVMs", "sweepDelete"}, GoTo(m, step),
           rec[m].step \notin {"sweepVMs", "sweepDelete"},
           \/ step \in CreationSteps /\ rec[m].step \in CreationSteps
           \/ step \in DeletionSteps /\ rec[m].step \in DeletionSteps,
           step \in NamedSteps => rec[m].nad # None,
           step \in FinalSteps => vms[m].state = "none",
           UNCHANGED <<machine, cache, network, vms, raced>>,
           nads' \in [NADs -> NADState], swallowed' \in BOOLEAN
    PROVE  /\ Keeps(m) /\ rec'[m].step = step
           /\ rec'[m].nad = rec[m].nad /\ rec'[m].left = {}
<1>1. step \in Steps
  BY DEF Steps
<1>2. /\ Moves(m) /\ rec'[m].step = step
      /\ rec'[m].nad = rec[m].nad /\ rec'[m].left = rec[m].left
  BY <1>1, GoToFacts DEF NADInvariant
<1>3. rec[m].left = {}
  BY DEF NADInvariant, Sound
<1>4. FollowsOn(m)
  BY <1>2, <1>3 DEF FollowsOn, CreationSteps, DeletionSteps, BeforeVMSteps,
     AfterVMSteps, SweepSteps
<1> QED
  BY <1>2, <1>3, <1>4, QuietKeeps

LEMMA StartKeeps ==
    ASSUME NADInvariant, NEW m \in Machines, Start(m)
    PROVE  /\ Keeps(m) /\ rec'[m].step \in {"getVM", "resolve"} /\ rec'[m].left = {}
<1> DEFINE step == IF cache[m].phase = "live" THEN "getVM" ELSE "resolve"
           r == [Idle EXCEPT !.obj = cache[m], !.step = step]
<1>1. /\ rec' = [rec EXCEPT ![m] = r] /\ cache[m].phase # "absent"
      /\ UNCHANGED <<machine, cache, network, nads, vms, swallowed, raced>>
  BY DEF Start
<1>2. /\ cache[m] \in MachineObject
      /\ cache[m].phase \in {"absent", "live", "deleting"}
  BY DEF NADInvariant, TypeOK, MachineObject
<1>3. /\ \/ step = "getVM" /\ cache[m].phase = "live"
         \/ step = "resolve" /\ cache[m].phase = "deleting"
      /\ step \in Steps
  BY <1>1, <1>2 DEF Steps, CreationSteps, DeletionSteps
<1> HIDE DEF step
<1>4. r \in Reconcile /\ r.step = step /\ r.left = {}
  BY <1>2, <1>3, ConstantsTyped DEF Idle, Reconcile, Steps
<1> HIDE DEF r
<1>5. Moves(m) /\ rec'[m] = r
  <2>1. r.step \notin NamedSteps
    BY <1>3, <1>4 DEF NamedSteps, BeforeVMSteps, AfterVMSteps
  <2> QED
    BY <1>1, <1>4, <2>1, MovesTo DEF NADInvariant
<1>6. FollowsOn(m)
  BY <1>3, <1>4, <1>5 DEF FollowsOn, CreationSteps, DeletionSteps, FinalSteps,
     BeforeVMSteps, AfterVMSteps, SweepSteps
<1>7. nads' \in [NADs -> NADState] /\ swallowed' \in BOOLEAN
  BY <1>1 DEF NADInvariant, TypeOK, NADState
<1> QED
  BY <1>1, <1>3, <1>4, <1>5, <1>6, <1>7, QuietKeeps

(* Creation                                                                *)

LEMMA GetVMKeeps ==
    ASSUME NADInvariant, NEW m \in Machines, GetVM(m)
    PROVE  /\ Keeps(m) /\ UNCHANGED <<machine, nads, vms, swallowed, raced>>
           /\ rec'[m].step \in {"idle", "getNAD"} /\ rec'[m].left = {}
<1>1. /\ rec[m].step = "getVM" /\ (GoTo(m, "getNAD") \/ Return(m))
      /\ UNCHANGED <<machine, cache, network, nads, vms, swallowed, raced>>
      /\ nads' \in [NADs -> NADState] /\ swallowed' \in BOOLEAN
  BY DEF GetVM, NADInvariant, TypeOK, NADState
<1>2. CASE Return(m)
  BY <1>1, <1>2, ReturnKeeps
<1>3. CASE GoTo(m, "getNAD")
  <2>1. /\ "getNAD" \in CreationSteps /\ rec[m].step \in CreationSteps
        /\ "getNAD" \notin NamedSteps \cup FinalSteps
        /\ "getNAD" \in Steps \ {"sweepVMs", "sweepDelete"}
    BY <1>1 DEF Steps, CreationSteps, NamedSteps, FinalSteps, BeforeVMSteps, AfterVMSteps,
       SweepSteps
  <2>2. Keeps(m) /\ rec'[m].step = "getNAD" /\ rec'[m].left = {}
    BY <1>1, <1>3, <2>1, GoToKeeps
  <2> QED
    BY <1>1, <2>2
<1> QED
  BY <1>1, <1>2, <1>3

LEMMA GetNADKeeps ==
    ASSUME NADInvariant, NEW m \in Machines, GetNAD(m)
    PROVE  /\ Keeps(m) /\ UNCHANGED <<machine, nads, vms, swallowed, raced>>
           /\ rec'[m].step \in {"createNAD", "createVM"} /\ rec'[m].left = {}
           /\ rec'[m].step = "createVM" /\ rec'[m].nad # None =>
                 nads[rec'[m].nad] # "none"
<1> DEFINE nad == network[m]
           step == IF nad # None /\ nads[nad] = "none" THEN "createNAD" ELSE "createVM"
<1>1. /\ rec[m].step = "getNAD"
      /\ Names(m, nad, step)
      /\ UNCHANGED <<machine, cache, network, nads, vms, swallowed, raced>>
      /\ nads' \in [NADs -> NADState] /\ swallowed' \in BOOLEAN
      /\ nad \in OptionalNAD
  BY DEF GetNAD, Names, NADInvariant, TypeOK, NADState
<1>2. /\ step \in {"createNAD", "createVM"}
      /\ step = "createNAD" => nad # None
      /\ step = "createVM" /\ nad # None => nads[nad] # "none"
  OBVIOUS
<1> HIDE DEF step, nad
<1>3. /\ Moves(m) /\ rec'[m].step = step
      /\ rec'[m].nad = nad /\ rec'[m].left = rec[m].left
  <2>1. step \in Steps /\ (step \in NamedSteps => nad # None)
    BY <1>2 DEF Steps, CreationSteps, NamedSteps, BeforeVMSteps, AfterVMSteps
  <2> QED
    BY <1>1, <2>1, NameFacts DEF NADInvariant
<1>4. rec[m].left = {}
  BY <1>1 DEF NADInvariant, Sound
<1>5. FollowsOn(m)
  BY <1>1, <1>2, <1>3, <1>4 DEF FollowsOn, CreationSteps, DeletionSteps, FinalSteps,
     BeforeVMSteps, AfterVMSteps, SweepSteps
<1>6. Keeps(m)
  BY <1>1, <1>3, <1>5, QuietKeeps
<1> QED
  BY <1>1, <1>2, <1>3, <1>4, <1>6

LEMMA CreateNADKeeps ==
    ASSUME NADInvariant, NEW m \in Machines, CreateNAD(m)
    PROVE  /\ Keeps(m) /\ UNCHANGED <<machine, vms, swallowed, raced>>
           /\ rec'[m].step = "createVM" /\ rec'[m].left = {}
           /\ machine[m].phase # "absent"
           /\ rec'[m].nad \in NADs /\ nads'[rec'[m].nad] # "none"
           /\ \A n \in NADs : nads'[n] = nads[n] \/ nads[n] = "none"
<1> DEFINE nad == rec[m].nad
<1>1. /\ rec[m].step = "createNAD" /\ GoTo(m, "createVM")
      /\ UNCHANGED <<machine, cache, network, vms, swallowed, raced>>
      /\ swallowed' \in BOOLEAN
  BY DEF CreateNAD, NADInvariant, TypeOK
<1>2. nad \in NADs
  <2>1. rec[m] \in Reconcile /\ nad # None
    BY <1>1 DEF NADInvariant, TypeOK, NamedSteps
  <2> QED
    BY <2>1 DEF Reconcile, OptionalNAD
<1>3. \/ nads[nad] # "none" /\ nads' = nads
      \/ nads[nad] = "none" /\ nads' = [nads EXCEPT ![nad] = "managed"]
  <2>1. nads' = [nads EXCEPT ![nad] = IF nads[nad] = "none" THEN "managed" ELSE nads[nad]]
    BY DEF CreateNAD
  <2>2. CASE nads[nad] = "none"
    BY <2>1, <2>2
  <2>3. CASE nads[nad] # "none"
    BY <1>2, <2>1, <2>3 DEF NADInvariant, TypeOK
  <2> QED
    BY <2>2, <2>3
<1>4. /\ nads' \in [NADs -> NADState] /\ nads'[nad] # "none"
      /\ \A n \in NADs : nads'[n] = nads[n] \/ nads[n] = "none"
  BY <1>2, <1>3 DEF NADInvariant, TypeOK, NADState
<1>5. /\ Keeps(m) /\ rec'[m].step = "createVM"
      /\ rec'[m].nad = nad /\ rec'[m].left = {}
  <2>1. /\ "createVM" \in CreationSteps /\ rec[m].step \in CreationSteps
        /\ "createVM" \notin NamedSteps \cup FinalSteps
        /\ "createVM" \in Steps \ {"sweepVMs", "sweepDelete"}
    BY <1>1 DEF Steps, CreationSteps, NamedSteps, FinalSteps, BeforeVMSteps, AfterVMSteps,
       SweepSteps
  <2> QED
    BY <1>1, <1>4, <2>1, GoToKeeps
<1>6. machine[m].phase # "absent"
  BY <1>1 DEF NADInvariant, Sound, CreationSteps
<1> QED
  BY <1>1, <1>2, <1>4, <1>5, <1>6

LEMMA CreateVMKeeps ==
    ASSUME NADInvariant, NEW m \in Machines, CreateVM(m)
    PROVE  /\ Keeps(m) /\ UNCHANGED <<machine, nads, swallowed>>
           /\ rec'[m].step = "idle" /\ rec'[m].left = {}
           /\ vms'[m].nad = rec[m].nad
           /\ \/ raced' = raced \cup {m}
              \/ /\ raced' = raced
                 /\ rec[m].nad # None => ~Collected(rec[m].nad)
<1> USE DEF NADInvariant
<1> DEFINE w == [state |-> "up", nad |-> rec[m].nad]
<1>1. /\ rec[m].step = "createVM" /\ Return(m) /\ vms' = [vms EXCEPT ![m] = w]
      /\ UNCHANGED <<machine, cache, network, nads, swallowed>>
      /\ \/ raced' = raced \cup {m}
         \/ raced' = raced /\ (rec[m].nad # None => ~Collected(rec[m].nad))
  BY DEF CreateVM
<1>2. w \in VirtualMachine /\ w.nad = rec[m].nad
  <2>1. rec[m] \in Reconcile
    BY DEF TypeOK
  <2> QED
    BY <2>1 DEF Reconcile, VirtualMachine
<1> HIDE DEF w
<1>3. /\ vms' \in [Machines -> VirtualMachine] /\ vms'[m] = w
      /\ \A o \in Machines : o # m => vms'[o] = vms[o]
  BY <1>1, <1>2 DEF TypeOK
<1>4. Moves(m) /\ rec'[m].step = "idle" /\ rec'[m].left = {}
  BY <1>1, ReturnFacts
<1>5. TypeOK'
  <2>1. \A o \in Machines : rec'[o].step \in NamedSteps => rec'[o].nad # None
    BY <1>4 DEF Moves, TypeOK
  <2> QED
    BY <1>1, <1>3, <1>4, <2>1 DEF TypeOK, Moves
<1>6. Sound(m)'
  BY <1>1, <1>4 DEF Sound, CreationSteps, DeletionSteps, FinalSteps, BeforeVMSteps,
     AfterVMSteps, SweepSteps
<1> QED
  BY <1>1, <1>2, <1>3, <1>4, <1>5, <1>6 DEF Keeps, Untouched, Moves

(* Deletion                                                                *)

LEMMA ResolveKeeps ==
    ASSUME NADInvariant, NEW m \in Machines, ResolveNADName(m)
    PROVE  /\ Keeps(m) /\ UNCHANGED <<machine, nads, vms, swallowed, raced>>
           /\ rec'[m].step \in {"preGet", "note", "deleteVM"} /\ rec'[m].left = {}
<1> DEFINE noted == rec[m].obj.noted
           nad == IF noted # None THEN noted ELSE vms[m].nad
           step == IF noted # None THEN "preGet"
                   ELSE IF vms[m].nad # None THEN "note" ELSE "deleteVM"
<1>1. /\ rec[m].step = "resolve"
      /\ Names(m, nad, step)
      /\ UNCHANGED <<machine, cache, network, nads, vms, swallowed, raced>>
      /\ nads' \in [NADs -> NADState] /\ swallowed' \in BOOLEAN
  BY DEF ResolveNADName, Names, NADInvariant, TypeOK, NADState
<1>2. nad \in OptionalNAD
  <2>1. rec[m] \in Reconcile /\ vms[m] \in VirtualMachine
    BY DEF NADInvariant, TypeOK
  <2> QED
    BY <2>1 DEF Reconcile, MachineObject, VirtualMachine
<1>3. /\ step \in {"preGet", "note", "deleteVM"}
      /\ step \in {"preGet", "note"} => nad # None
  OBVIOUS
<1> HIDE DEF step, nad, noted
<1>4. /\ Moves(m) /\ rec'[m].step = step
      /\ rec'[m].nad = nad /\ rec'[m].left = rec[m].left
  <2>1. step \in Steps /\ (step \in NamedSteps => nad # None)
    BY <1>3 DEF Steps, DeletionSteps, BeforeVMSteps, NamedSteps, AfterVMSteps
  <2> QED
    BY <1>1, <1>2, <2>1, NameFacts DEF NADInvariant
<1>5. rec[m].left = {}
  BY <1>1 DEF NADInvariant, Sound
<1>6. FollowsOn(m)
  BY <1>1, <1>3, <1>4, <1>5 DEF FollowsOn, CreationSteps, DeletionSteps, FinalSteps,
     BeforeVMSteps, AfterVMSteps, SweepSteps
<1>7. Keeps(m)
  BY <1>1, <1>4, <1>6, QuietKeeps
<1> QED
  BY <1>1, <1>3, <1>4, <1>5, <1>7

\* The note changes nothing but the note.
LEMMA NoteKeeps ==
    ASSUME NADInvariant, NEW m \in Machines, NoteNAD(m) \/ RemoveNote(m)
    PROVE  /\ Keeps(m) /\ UNCHANGED <<nads, vms, swallowed, raced>>
           /\ machine'[m].phase = machine[m].phase
           /\ rec'[m].left = {}
           /\ \/ rec'[m].step = "preGet"
              \/ rec'[m].step = "removeFinalizer" /\ rec[m].step = "unnote"
<1> USE DEF NADInvariant
<1> DEFINE noted == IF NoteNAD(m) THEN rec[m].nad ELSE None
           step == IF NoteNAD(m) THEN "preGet" ELSE "removeFinalizer"
<1>1. /\ rec' = [rec EXCEPT ![m].obj.noted = noted, ![m].step = step]
      /\ UpdateNoted(m, noted)
      /\ UNCHANGED <<cache, network, nads, vms, swallowed, raced>>
      /\ \/ step = "preGet" /\ rec[m].step = "note"
         \/ step = "removeFinalizer" /\ rec[m].step = "unnote"
  BY DEF NoteNAD, RemoveNote
<1>2. noted \in OptionalNAD /\ rec[m].nad # None
  <2>1. rec[m] \in Reconcile /\ rec[m].nad # None
    BY <1>1 DEF TypeOK, NamedSteps
  <2> QED
    BY <2>1 DEF Reconcile, OptionalNAD
<1> HIDE DEF noted, step
<1>3. Moves(m) /\ rec'[m].step = step /\ rec'[m].left = rec[m].left
  <2>1. step \in Steps
    BY <1>1 DEF Steps, DeletionSteps, BeforeVMSteps
  <2> QED
    BY <1>1, <1>2, <2>1, NoteFacts
<1>4. /\ machine' \in [Machines -> MachineObject]
      /\ machine'[m].phase = machine[m].phase
      /\ \A o \in Machines : o # m => machine'[o] = machine[o]
  <2> DEFINE obj == [machine[m] EXCEPT !.noted = noted]
  <2>1. machine[m] \in MachineObject
    BY DEF TypeOK
  <2>2. machine' = machine \/ machine' = [machine EXCEPT ![m] = obj]
    BY <1>1 DEF UpdateNoted, TypeOK
  <2>3. obj \in MachineObject /\ obj.phase = machine[m].phase
    BY <1>2, <2>1 DEF MachineObject
  <2> HIDE DEF obj
  <2> QED
    BY <2>2, <2>3 DEF TypeOK
<1>5. rec[m].left = {}
  BY <1>1 DEF Sound
<1>6. TypeOK'
  <2>1. \A o \in Machines : rec'[o].step \in NamedSteps => rec'[o].nad # None
    BY <1>3 DEF Moves, TypeOK
  <2> QED
    BY <1>1, <1>3, <1>4, <2>1 DEF TypeOK, Moves
<1>7. Sound(m)'
  BY <1>1, <1>3, <1>4, <1>5 DEF Sound, CreationSteps, DeletionSteps, FinalSteps,
     BeforeVMSteps, AfterVMSteps, SweepSteps
<1> QED
  BY <1>1, <1>3, <1>4, <1>5, <1>6, <1>7 DEF Keeps, Untouched, Moves

\* A deletion's step that has no list and goes to no list.
LEMMA DeletionGoesTo ==
    ASSUME NADInvariant, NEW m \in Machines,
           rec[m].step \in DeletionSteps \ {"sweepVMs", "sweepDelete"},
           NEW step \in {"preList", "preDelete", "deleteVM", "finGet", "finList",
                         "finDelete", "sweepNADs"}, GoTo(m, step),
           step \in {"preList", "preDelete", "finGet", "finList", "finDelete"} =>
               rec[m].nad # None,
           step \in AfterVMSteps \cup {"sweepNADs"} => vms[m].state = "none",
           UNCHANGED <<machine, cache, network, vms, raced>>,
           nads' \in [NADs -> NADState], swallowed' \in BOOLEAN
    PROVE  /\ Keeps(m) /\ rec'[m].step = step
           /\ rec'[m].nad = rec[m].nad /\ rec'[m].left = {}
<1>1. /\ step \in Steps \ {"sweepVMs", "sweepDelete"}
      /\ step \in DeletionSteps /\ rec[m].step \in DeletionSteps
      /\ step \in NamedSteps => rec[m].nad # None
      /\ step \in FinalSteps => vms[m].state = "none"
  BY DEF Steps, DeletionSteps, BeforeVMSteps, AfterVMSteps, SweepSteps, NamedSteps,
     FinalSteps
<1> QED
  BY <1>1, GoToKeeps

LEMMA NamedNAD ==
    ASSUME TypeOK, NEW m \in Machines, rec[m].step \in NamedSteps
    PROVE  rec[m].nad \in NADs
<1>1. rec[m] \in Reconcile /\ rec[m].nad # None
  BY DEF TypeOK
<1> QED
  BY <1>1 DEF Reconcile, OptionalNAD

\* The collection before the VM is deleted.
LEMMA PreKeeps ==
    ASSUME NADInvariant, NEW m \in Machines,
           PreGetNAD(m) \/ PreListVMs(m) \/ PreDeleteNAD(m)
    PROVE  /\ Keeps(m) /\ UNCHANGED <<machine, vms, swallowed, raced>>
           /\ rec[m].nad \in NADs /\ rec'[m].nad = rec[m].nad
           /\ rec'[m].step # rec[m].step
           /\ rec'[m].step \in {"preList", "preDelete", "deleteVM"} /\ rec'[m].left = {}
           /\ rec'[m].step = "preDelete" => Users(rec[m].nad) \subseteq {m}
           /\ \/ nads' = nads
              \/ rec[m].step = "preDelete" /\ DeleteNAD(rec[m].nad)
<1> DEFINE step == IF PreGetNAD(m) /\ nads[rec[m].nad] # "none" THEN "preList"
                   ELSE IF PreListVMs(m) /\ Users(rec[m].nad) \subseteq {m}
                   THEN "preDelete" ELSE "deleteVM"
<1>1. /\ GoTo(m, step) /\ rec[m].step \in {"preGet", "preList", "preDelete"}
      /\ step # rec[m].step
      /\ step = "preDelete" => Users(rec[m].nad) \subseteq {m}
      /\ UNCHANGED <<machine, cache, network, vms, swallowed, raced>>
      /\ nads' = nads \/ (rec[m].step = "preDelete" /\ DeleteNAD(rec[m].nad))
  BY DEF PreGetNAD, PreListVMs, PreDeleteNAD
<1>2. step \in {"preList", "preDelete", "deleteVM"}
  OBVIOUS
<1> HIDE DEF step
<1>3. rec[m].nad \in NADs /\ rec[m].nad # None
  <2>1. rec[m].step \in NamedSteps
    BY <1>1 DEF NamedSteps, BeforeVMSteps
  <2> QED
    BY <2>1, NamedNAD, ConstantsAssumption DEF NADInvariant
<1>4. nads' \in [NADs -> NADState] /\ swallowed' \in BOOLEAN
  BY <1>1, <1>3 DEF NADInvariant, TypeOK, NADState, DeleteNAD
<1>5. /\ Keeps(m) /\ rec'[m].step = step
      /\ rec'[m].nad = rec[m].nad /\ rec'[m].left = {}
  <2>1. /\ rec[m].step \in DeletionSteps \ {"sweepVMs", "sweepDelete"}
        /\ step \notin AfterVMSteps \cup {"sweepNADs"}
    BY <1>1, <1>2 DEF DeletionSteps, BeforeVMSteps, AfterVMSteps
  <2>2. GoTo(m, step) /\ UNCHANGED <<machine, cache, network, vms, raced>>
    BY <1>1
  <2> QED
    BY <1>2, <1>3, <1>4, <2>1, <2>2, DeletionGoesTo
<1> QED
  BY <1>1, <1>2, <1>3, <1>5

\* The collection after the VM is gone.
LEMMA FinKeeps ==
    ASSUME NADInvariant, NEW m \in Machines,
           FinGetNAD(m) \/ FinListVMs(m) \/ FinDeleteNAD(m)
    PROVE  /\ Keeps(m) /\ UNCHANGED <<machine, vms, swallowed, raced>>
           /\ rec[m].nad \in NADs /\ rec'[m].nad = rec[m].nad
           /\ rec'[m].step # rec[m].step
           /\ rec'[m].step \in {"finList", "finDelete", "sweepNADs"} /\ rec'[m].left = {}
           /\ rec'[m].step = "finDelete" => Users(rec[m].nad) = {}
           /\ \/ nads' = nads
              \/ rec[m].step = "finDelete" /\ DeleteNAD(rec[m].nad)
<1> DEFINE step == IF FinGetNAD(m) /\ nads[rec[m].nad] # "none" THEN "finList"
                   ELSE IF FinListVMs(m) /\ Users(rec[m].nad) = {}
                   THEN "finDelete" ELSE "sweepNADs"
<1>1. /\ GoTo(m, step) /\ rec[m].step \in {"finGet", "finList", "finDelete"}
      /\ step # rec[m].step
      /\ step = "finDelete" => Users(rec[m].nad) = {}
      /\ UNCHANGED <<machine, cache, network, vms, swallowed, raced>>
      /\ nads' = nads \/ (rec[m].step = "finDelete" /\ DeleteNAD(rec[m].nad))
  BY DEF FinGetNAD, FinListVMs, FinDeleteNAD
<1>2. step \in {"finList", "finDelete", "sweepNADs"}
  OBVIOUS
<1> HIDE DEF step
<1>3. rec[m].nad \in NADs /\ rec[m].nad # None
  <2>1. rec[m].step \in NamedSteps
    BY <1>1 DEF NamedSteps, AfterVMSteps
  <2> QED
    BY <2>1, NamedNAD, ConstantsAssumption DEF NADInvariant
<1>4. nads' \in [NADs -> NADState] /\ swallowed' \in BOOLEAN
  BY <1>1, <1>3 DEF NADInvariant, TypeOK, NADState, DeleteNAD
<1>5. /\ Keeps(m) /\ rec'[m].step = step
      /\ rec'[m].nad = rec[m].nad /\ rec'[m].left = {}
  <2>1. /\ rec[m].step \in DeletionSteps \ {"sweepVMs", "sweepDelete"}
        /\ vms[m].state = "none"
    BY <1>1 DEF DeletionSteps, AfterVMSteps, NADInvariant, Sound, FinalSteps
  <2>2. GoTo(m, step) /\ UNCHANGED <<machine, cache, network, vms, raced>>
    BY <1>1
  <2> QED
    BY <1>2, <1>3, <1>4, <2>1, <2>2, DeletionGoesTo
<1> QED
  BY <1>1, <1>2, <1>3, <1>5

LEMMA CheckVMKeeps ==
    ASSUME NADInvariant, NEW m \in Machines, CheckVM(m)
    PROVE  /\ Keeps(m) /\ UNCHANGED <<machine, nads, vms, swallowed, raced>>
           /\ rec'[m].step \in {"idle", "sweepNADs", "finGet"} /\ rec'[m].left = {}
<1> DEFINE step == IF rec[m].nad = None THEN "sweepNADs" ELSE "finGet"
<1>1. /\ rec[m].step = "checkVM"
      /\ Return(m) \/ (GoTo(m, step) /\ vms[m].state = "none")
      /\ UNCHANGED <<machine, cache, network, nads, vms, swallowed, raced>>
      /\ nads' \in [NADs -> NADState] /\ swallowed' \in BOOLEAN
  BY DEF CheckVM, NADInvariant, TypeOK, NADState
<1>2. CASE Return(m)
  BY <1>1, <1>2, ReturnKeeps
<1>3. CASE GoTo(m, step) /\ vms[m].state = "none"
  <2>1. step \in {"sweepNADs", "finGet"} /\ (step = "finGet" => rec[m].nad # None)
    OBVIOUS
  <2> HIDE DEF step
  <2>2. rec[m].step \in DeletionSteps \ {"sweepVMs", "sweepDelete"}
    BY <1>1 DEF DeletionSteps
  <2>3. Keeps(m) /\ rec'[m].step = step /\ rec'[m].left = {}
    BY <1>1, <1>3, <2>1, <2>2, DeletionGoesTo
  <2> QED
    BY <1>1, <2>1, <2>3
<1> QED
  BY <1>1, <1>2, <1>3

LEMMA DeleteVMKeeps ==
    ASSUME NADInvariant, NEW m \in Machines, DeleteVM(m)
    PROVE  /\ Keeps(m) /\ UNCHANGED <<machine, nads, swallowed>>
           /\ rec'[m].step = "checkVM" /\ rec'[m].left = {}
           /\ vms'[m].state # "up" /\ raced' = raced \ {m}
<1> USE DEF NADInvariant
<1> DEFINE state == IF vms[m].state = "up" THEN "dying" ELSE vms[m].state
           w == [vms[m] EXCEPT !.state = state]
<1>1. /\ rec[m].step = "deleteVM" /\ GoTo(m, "checkVM") /\ vms' = [vms EXCEPT ![m] = w]
      /\ UNCHANGED <<machine, cache, network, nads, swallowed>> /\ raced' = raced \ {m}
  BY DEF DeleteVM, TypeOK
<1>2. vms[m] \in VirtualMachine
  BY DEF TypeOK
<1>3. /\ state \in {"none", "dying"}
      /\ vms[m].state = "none" => state = "none"
  BY <1>2 DEF VirtualMachine
<1> HIDE DEF state
<1>4. w \in VirtualMachine /\ w.state = state
  <2>1. ASSUME NEW u \in VirtualMachine
        PROVE  /\ [u EXCEPT !.state = state] \in VirtualMachine
               /\ [u EXCEPT !.state = state].state = state
    BY <1>3, <2>1 DEF VirtualMachine
  <2> QED
    BY <1>2, <2>1, Zenon
<1> HIDE DEF w
<1>5. /\ vms' \in [Machines -> VirtualMachine] /\ vms'[m] = w
      /\ \A o \in Machines : o # m => vms'[o] = vms[o]
  BY <1>1, <1>4 DEF TypeOK
<1>6. rec[m].left = {}
  BY <1>1 DEF Sound
<1>7. Moves(m) /\ rec'[m].step = "checkVM" /\ rec'[m].left = {}
  <2>1. "checkVM" \in Steps /\ "checkVM" \notin NamedSteps
    BY DEF Steps, DeletionSteps, NamedSteps, BeforeVMSteps, AfterVMSteps
  <2> QED
    BY <1>1, <1>6, <2>1, GoToFacts
<1>8. TypeOK'
  <2>1. \A o \in Machines : rec'[o].step \in NamedSteps => rec'[o].nad # None
    BY <1>7 DEF Moves, TypeOK
  <2> QED
    BY <1>1, <1>5, <1>7, <2>1 DEF TypeOK, Moves
<1>9. Sound(m)'
  BY <1>1, <1>3, <1>4, <1>5, <1>7 DEF Sound, CreationSteps, DeletionSteps, FinalSteps,
     BeforeVMSteps, AfterVMSteps, SweepSteps
<1> QED
  BY <1>1, <1>3, <1>4, <1>5, <1>7, <1>8, <1>9 DEF Keeps, Untouched, Moves

\* A step of the sweep.
LEMMA SweepKeeps ==
    ASSUME NADInvariant, NEW m \in Machines, rec[m].step \in SweepSteps,
           NEW left \in SUBSET NADs,
           NEW step \in {"sweepVMs", "sweepDelete", "unnote"}, SweepOn(m, left, step),
           step = "unnote" => left = {},
           UNCHANGED <<machine, cache, network, vms, raced>>,
           nads' \in [NADs -> NADState], swallowed' \in BOOLEAN
    PROVE  /\ Keeps(m) /\ rec'[m].left = left
           /\ left # {} => rec'[m].step = step
           /\ left = {} => rec'[m].step \in {"unnote", "removeFinalizer"}
<1>1. /\ Moves(m) /\ rec'[m].left = left
      /\ left # {} => rec'[m].step = step
      /\ left = {} => rec'[m].step \in {"unnote", "removeFinalizer"}
  BY SweepOnFacts DEF NADInvariant
<1>2. vms[m].state = "none" /\ rec[m].step \in DeletionSteps
  BY DEF NADInvariant, Sound, FinalSteps, DeletionSteps
<1>3. rec'[m].step \in {"sweepVMs", "sweepDelete", "unnote", "removeFinalizer"}
  BY <1>1
<1>4. FollowsOn(m)
  BY <1>1, <1>2, <1>3 DEF FollowsOn, CreationSteps
<1> QED
  BY <1>1, <1>4, QuietKeeps

LEMMA LeftTyped ==
    ASSUME TypeOK, NEW m \in Machines PROVE rec[m].left \subseteq NADs
BY DEF TypeOK, Reconcile

LEMMA SweepListNADsKeeps ==
    ASSUME NADInvariant, NEW m \in Machines, SweepListNADs(m)
    PROVE  /\ Keeps(m) /\ UNCHANGED <<machine, nads, vms, swallowed, raced>>
           /\ rec'[m].left = {n \in NADs : nads[n] = "managed"}
           /\ rec'[m].step \in {"sweepVMs", "unnote", "removeFinalizer"}
<1> DEFINE left == {n \in NADs : nads[n] = "managed"}
<1>1. /\ rec[m].step \in SweepSteps /\ SweepOn(m, left, "sweepVMs")
      /\ UNCHANGED <<machine, cache, network, nads, vms, swallowed, raced>>
      /\ nads' \in [NADs -> NADState] /\ swallowed' \in BOOLEAN
      /\ left \in SUBSET NADs
  BY DEF SweepListNADs, NADInvariant, TypeOK, NADState, SweepSteps
<1> HIDE DEF left
<1>2. /\ Keeps(m) /\ rec'[m].left = left
      /\ left # {} => rec'[m].step = "sweepVMs"
      /\ left = {} => rec'[m].step \in {"unnote", "removeFinalizer"}
  BY <1>1, SweepKeeps
<1> QED
  BY <1>1, <1>2 DEF left

LEMMA SweepListVMsKeeps ==
    ASSUME NADInvariant, NEW m \in Machines, SweepListVMs(m)
    PROVE  /\ Keeps(m) /\ UNCHANGED <<machine, nads, vms, swallowed, raced>>
           /\ rec[m].step = "sweepVMs"
           /\ rec'[m].left = {n \in rec[m].left : Users(n) = {}}
           /\ rec'[m].step \in {"sweepDelete", "unnote", "removeFinalizer"}
<1> DEFINE left == {n \in rec[m].left : Users(n) = {}}
<1>1. /\ rec[m].step = "sweepVMs" /\ rec[m].step \in SweepSteps
      /\ SweepOn(m, left, "sweepDelete")
      /\ UNCHANGED <<machine, cache, network, nads, vms, swallowed, raced>>
      /\ nads' \in [NADs -> NADState] /\ swallowed' \in BOOLEAN
  BY DEF SweepListVMs, NADInvariant, TypeOK, NADState, SweepSteps
<1>2. left \in SUBSET NADs
  BY LeftTyped DEF NADInvariant
<1> HIDE DEF left
<1>3. /\ Keeps(m) /\ rec'[m].left = left
      /\ left # {} => rec'[m].step = "sweepDelete"
      /\ left = {} => rec'[m].step \in {"unnote", "removeFinalizer"}
  BY <1>1, <1>2, SweepKeeps
<1> QED
  BY <1>1, <1>3 DEF left

LEMMA SweepDeleteKeeps ==
    ASSUME NADInvariant, NEW m \in Machines, SweepDeleteNAD(m)
    PROVE  /\ Keeps(m) /\ UNCHANGED <<machine, vms, swallowed, raced>>
           /\ rec[m].step = "sweepDelete"
           /\ rec'[m].step \in {"sweepDelete", "unnote", "removeFinalizer"}
           /\ \E n \in rec[m].left : /\ n \in NADs
                                     /\ DeleteNAD(n)
                                     /\ rec'[m].left = rec[m].left \ {n}
<1>1. PICK n \in rec[m].left : DeleteNAD(n) /\ SweepOn(m, rec[m].left \ {n}, "sweepDelete")
  BY DEF SweepDeleteNAD
<1> DEFINE left == rec[m].left \ {n}
<1>2. /\ rec[m].step = "sweepDelete" /\ rec[m].step \in SweepSteps
      /\ SweepOn(m, left, "sweepDelete")
      /\ UNCHANGED <<machine, cache, network, vms, swallowed, raced>>
      /\ swallowed' \in BOOLEAN
  BY <1>1 DEF SweepDeleteNAD, NADInvariant, TypeOK, SweepSteps
<1>3. left \in SUBSET NADs /\ n \in NADs
  BY LeftTyped DEF NADInvariant
<1>4. nads' \in [NADs -> NADState]
  BY <1>1, <1>3 DEF DeleteNAD, NADInvariant, TypeOK, NADState
<1>5. left = rec[m].left \ {n}
  OBVIOUS
<1> HIDE DEF left
<1>6. /\ Keeps(m) /\ rec'[m].left = left
      /\ left # {} => rec'[m].step = "sweepDelete"
      /\ left = {} => rec'[m].step \in {"unnote", "removeFinalizer"}
  BY <1>2, <1>3, <1>4, SweepKeeps
<1>7. \E k \in rec[m].left : /\ k \in NADs /\ DeleteNAD(k)
                             /\ rec'[m].left = rec[m].left \ {k}
  BY <1>1, <1>3, <1>5, <1>6
<1> QED
  BY <1>2, <1>6, <1>7

LEMMA CollectionErrorKeeps ==
    ASSUME NADInvariant, NEW m \in Machines, CollectionError(m)
    PROVE  /\ Keeps(m) /\ UNCHANGED <<machine, nads, vms, raced>> /\ swallowed'
           /\ \/ rec'[m].left = {}
                 /\ rec'[m].step \in {"deleteVM", "sweepNADs", "unnote", "removeFinalizer"}
              \/ /\ rec[m].step = "sweepDelete" /\ rec'[m].step = "sweepDelete"
                 /\ rec'[m].left \subseteq rec[m].left
<1>1. /\ UNCHANGED <<machine, cache, network, nads, vms, raced>> /\ swallowed'
      /\ nads' \in [NADs -> NADState] /\ swallowed' \in BOOLEAN
  BY DEF CollectionError, NADInvariant, TypeOK, NADState
<1>2. CASE rec[m].step \in BeforeVMSteps /\ GoTo(m, "deleteVM")
  <2>1. /\ rec[m].step \in DeletionSteps \ {"sweepVMs", "sweepDelete"}
        /\ "deleteVM" \notin AfterVMSteps \cup {"sweepNADs"}
    BY <1>2 DEF DeletionSteps, BeforeVMSteps, AfterVMSteps
  <2>2. Keeps(m) /\ rec'[m].step = "deleteVM" /\ rec'[m].left = {}
    BY <1>1, <1>2, <2>1, DeletionGoesTo
  <2> QED
    BY <1>1, <2>2
<1>3. CASE rec[m].step \in AfterVMSteps /\ GoTo(m, "sweepNADs")
  <2>1. /\ rec[m].step \in DeletionSteps \ {"sweepVMs", "sweepDelete"}
        /\ vms[m].state = "none"
    BY <1>3 DEF DeletionSteps, AfterVMSteps, NADInvariant, Sound, FinalSteps
  <2>2. Keeps(m) /\ rec'[m].step = "sweepNADs" /\ rec'[m].left = {}
    BY <1>1, <1>3, <2>1, DeletionGoesTo
  <2> QED
    BY <1>1, <2>2
<1>4. CASE rec[m].step \in {"sweepNADs", "sweepVMs"} /\ SweepOn(m, {}, "unnote")
  <2>1. rec[m].step \in SweepSteps /\ {} \in SUBSET NADs
    BY <1>4 DEF SweepSteps
  <2>2. /\ Keeps(m) /\ rec'[m].left = {}
        /\ rec'[m].step \in {"unnote", "removeFinalizer"}
    BY <1>1, <1>4, <2>1, SweepKeeps
  <2> QED
    BY <1>1, <2>2
<1>5. CASE /\ rec[m].step = "sweepDelete"
           /\ \E n \in rec[m].left : SweepOn(m, rec[m].left \ {n}, "sweepDelete")
  <2>1. PICK n \in rec[m].left : SweepOn(m, rec[m].left \ {n}, "sweepDelete")
    BY <1>5
  <2> DEFINE left == rec[m].left \ {n}
  <2>2. /\ rec[m].step \in SweepSteps /\ left \in SUBSET NADs /\ left \subseteq rec[m].left
        /\ SweepOn(m, left, "sweepDelete")
    BY <1>5, <2>1, LeftTyped DEF SweepSteps, NADInvariant
  <2> HIDE DEF left
  <2>3. /\ Keeps(m) /\ rec'[m].left = left
        /\ left # {} => rec'[m].step = "sweepDelete"
        /\ left = {} => rec'[m].step \in {"unnote", "removeFinalizer"}
    BY <1>1, <2>2, SweepKeeps
  <2> QED
    BY <1>1, <1>5, <2>2, <2>3
<1> QED
  BY <1>2, <1>3, <1>4, <1>5 DEF CollectionError

LEMMA RemoveMachineFinalizerKeeps ==
    ASSUME NADInvariant, NEW m \in Machines, RemoveMachineFinalizer(m)
    PROVE  /\ Keeps(m) /\ UNCHANGED <<nads, vms, swallowed, raced>>
           /\ rec[m].step = "removeFinalizer" /\ rec[m].left = {}
           /\ machine'[m].phase = "live" => machine[m].phase = "live"
           /\ rec'[m].step = "idle" /\ rec'[m].left = {}
<1> USE DEF NADInvariant
<1>1. /\ rec[m].step = "removeFinalizer" /\ Return(m)
      /\ UNCHANGED <<cache, network, nads, vms, swallowed, raced>>
  BY DEF RemoveMachineFinalizer
<1>2. rec[m].left = {} /\ vms[m].state = "none"
  BY <1>1 DEF Sound, FinalSteps
<1>3. Moves(m) /\ rec'[m].step = "idle" /\ rec'[m].left = {}
  BY <1>1, ReturnFacts
<1>4. CASE machine' = machine
  BY <1>1, <1>2, <1>3, <1>4, ReturnKeeps
<1>5. CASE machine' = [machine EXCEPT ![m] = Absent] /\ cache[m].phase = "deleting"
  <2>1. /\ machine' \in [Machines -> MachineObject] /\ machine'[m].phase = "absent"
        /\ \A o \in Machines : o # m => machine'[o] = machine[o]
    BY <1>5, ConstantsTyped DEF TypeOK
  <2>2. TypeOK'
    <3>1. \A o \in Machines : rec'[o].step \in NamedSteps => rec'[o].nad # None
      BY <1>3 DEF Moves, TypeOK
    <3> QED
      BY <1>1, <1>3, <2>1, <3>1 DEF TypeOK, Moves
  <2>3. Sound(m)'
    BY <1>1, <1>2, <1>3, <1>5, <2>1 DEF Sound, CreationSteps, DeletionSteps, FinalSteps,
       BeforeVMSteps, AfterVMSteps, SweepSteps
  <2> QED
    BY <1>1, <1>2, <1>3, <2>1, <2>2, <2>3 DEF Keeps, Untouched, Moves
<1> QED
  BY <1>4, <1>5 DEF RemoveMachineFinalizer

-----------------------------------------------------------------------------
(* Users, informer, KubeVirt                                               *)

LEMMA UserKeeps ==
    ASSUME NADInvariant, NEW m \in Machines, UserCreates(m) \/ UserDeletes(m)
    PROVE  /\ Keeps(m) /\ UNCHANGED <<nads, vms, rec, swallowed, raced>>
           /\ machine'[m].phase # "absent"
           /\ machine'[m].phase = "live" => vms[m].state = "none"
<1> USE DEF NADInvariant
<1>1. UNCHANGED <<cache, network, nads, vms, rec, swallowed, raced>>
  BY DEF UserCreates, UserDeletes
<1>2. /\ machine' \in [Machines -> MachineObject]
      /\ \A o \in Machines : o # m => machine'[o] = machine[o]
      /\ \/ /\ machine'[m].phase = "live" /\ machine[m].phase = "absent"
            /\ cache[m].phase = "absent"
         \/ machine'[m].phase = "deleting" /\ machine[m].phase = "live"
  <2>1. CASE UserCreates(m)
    <3> DEFINE obj == [phase |-> "live", noted |-> None]
    <3>1. obj \in MachineObject /\ obj.phase = "live"
      BY DEF MachineObject, OptionalNAD
    <3>2. machine' = [machine EXCEPT ![m] = obj] /\ machine[m].phase = "absent"
          /\ cache[m].phase = "absent"
      BY <2>1 DEF UserCreates
    <3> HIDE DEF obj
    <3> QED
      BY <3>1, <3>2 DEF TypeOK
  <2>2. CASE UserDeletes(m)
    <3> DEFINE obj == [machine[m] EXCEPT !.phase = "deleting"]
    <3>1. machine[m] \in MachineObject
      BY DEF TypeOK
    <3>2. obj \in MachineObject /\ obj.phase = "deleting"
      BY <3>1 DEF MachineObject
    <3>3. machine' = [machine EXCEPT ![m] = obj] /\ machine[m].phase = "live"
      BY <2>2 DEF UserDeletes, TypeOK
    <3> HIDE DEF obj
    <3> QED
      BY <3>2, <3>3 DEF TypeOK
  <2> QED
    BY <2>1, <2>2
<1>3. TypeOK'
  BY <1>1, <1>2 DEF TypeOK
<1>4. Sound(m)'
  BY <1>1, <1>2 DEF Sound
<1> QED
  BY <1>1, <1>2, <1>3, <1>4 DEF Keeps, Untouched, Sound

LEMMA CacheSyncKeeps ==
    ASSUME NADInvariant, NEW m \in Machines, CacheSync(m) PROVE Keeps(m)
<1> USE DEF NADInvariant
<1>1. /\ cache' \in [Machines -> MachineObject] /\ cache'[m] = machine[m]
      /\ \A o \in Machines : o # m => cache'[o] = cache[o]
      /\ UNCHANGED <<machine, network, nads, vms, rec, swallowed, raced>>
  BY DEF CacheSync, TypeOK
<1>2. TypeOK'
  BY <1>1 DEF TypeOK
<1>3. Sound(m)'
  BY <1>1 DEF Sound
<1> QED
  BY <1>1, <1>2, <1>3 DEF Keeps, Untouched

LEMMA VMGoneKeeps ==
    ASSUME NADInvariant, NEW m \in Machines, VMGone(m)
    PROVE  Keeps(m) /\ vms'[m].state = "none"
<1> USE DEF NADInvariant
<1>1. /\ vms' \in [Machines -> VirtualMachine] /\ vms'[m].state = "none"
      /\ \A o \in Machines : o # m => vms'[o] = vms[o]
      /\ UNCHANGED <<machine, cache, network, nads, rec, swallowed, raced>>
  BY ConstantsTyped DEF VMGone, TypeOK
<1>2. TypeOK'
  BY <1>1 DEF TypeOK
<1>3. Sound(m)'
  BY <1>1 DEF Sound
<1> QED
  BY <1>1, <1>2, <1>3 DEF Keeps, Untouched

-----------------------------------------------------------------------------
(* Every NAD of the operator's has somebody who will collect it            *)

\* A NAD that m would have collected, and that is there still, is not lost.
HandsOver(m) ==
    \A n \in NADs : nads'[n] = "managed" =>
        /\ nads[n] = "managed"
        /\ WillCollect(m, n) => \E o \in Machines : WillCollect(o, n)'

LEMMA OthersCollect ==
    ASSUME NEW o \in Machines, Untouched(o), NEW n, WillCollect(o, n)
    PROVE  WillCollect(o, n)'
BY DEF Untouched, WillCollect

LEMMA OthersSound ==
    ASSUME NADInvariant, NEW m \in Machines, Keeps(m), NADsSound'
    PROVE  NADInvariant'
<1>1. \A o \in Machines : Sound(o)'
  BY FrameSound DEF Keeps, NADInvariant
<1> QED
  BY <1>1 DEF NADInvariant, Keeps

LEMMA HandedOver ==
    ASSUME NADInvariant, NEW m \in Machines, Keeps(m), HandsOver(m),
           swallowed' <=> swallowed
    PROVE  NADInvariant'
<1>1. ASSUME NEW n \in NADs, nads'[n] = "managed", ~swallowed'
      PROVE  \E o \in Machines : WillCollect(o, n)'
  <2>1. nads[n] = "managed"
    BY <1>1 DEF HandsOver
  <2>2. PICK o \in Machines : WillCollect(o, n)
    BY <1>1, <2>1 DEF NADInvariant, NADsSound
  <2>3. CASE o = m
    BY <1>1, <2>2, <2>3 DEF HandsOver
  <2>4. CASE o # m
    BY <2>2, <2>4, OthersCollect DEF Keeps
  <2> QED
    BY <2>3, <2>4
<1>2. NADsSound'
  BY <1>1 DEF NADsSound
<1> QED
  BY <1>2, OthersSound

\* Most steps leave m a collector of all it was one of.
LEMMA CalmHandsOver ==
    ASSUME NEW m \in Machines, machine[m].phase # "absent" => machine'[m].phase # "absent",
           \A n \in NADs : nads'[n] = "managed" => nads[n] = "managed",
           \/ rec'[m] = rec[m]
           \/ rec'[m].step \notin {"sweepVMs", "sweepDelete", "unnote", "removeFinalizer"}
    PROVE  HandsOver(m)
BY DEF HandsOver, WillCollect

\* Who has a VM on a NAD is there, and is not sweeping.
LEMMA UsersCollect ==
    ASSUME NADInvariant, NEW n, NEW o \in Users(n)
    PROVE  o \in Machines /\ WillCollect(o, n) /\ rec[o].step \notin FinalSteps
BY DEF NADInvariant, Sound, Users, WillCollect, FinalSteps, SweepSteps

LEMMA NADHandlerStep ==
    ASSUME NADInvariant, NEW m \in Machines,
           Start(m) \/ Progress(m) \/ ReconcileFails(m)
    PROVE  NADInvariant'
<1>1. ASSUME Keeps(m), UNCHANGED <<machine, nads, swallowed>>,
             rec'[m].step \notin {"sweepVMs", "sweepDelete", "unnote", "removeFinalizer"}
      PROVE  NADInvariant'
  BY <1>1, CalmHandsOver, HandedOver
<1>2. CASE Start(m)
  BY <1>1, <1>2, StartKeeps DEF Start
<1>3. CASE GetVM(m)
  BY <1>1, <1>3, GetVMKeeps
<1>4. CASE GetNAD(m)
  BY <1>1, <1>4, GetNADKeeps
<1>5. CASE CreateNAD(m)
  <2>1. /\ Keeps(m) /\ UNCHANGED <<machine, swallowed, raced>> /\ rec'[m].step = "createVM"
        /\ machine[m].phase # "absent"
    BY <1>5, CreateNADKeeps
  <2>2. \A n \in NADs : WillCollect(m, n)'
    BY <2>1 DEF WillCollect
  <2>3. NADsSound'
    BY <2>2 DEF NADsSound
  <2> QED
    BY <2>1, <2>3, OthersSound
<1>6. CASE CreateVM(m)
  BY <1>1, <1>6, CreateVMKeeps
<1>7. CASE ResolveNADName(m)
  BY <1>1, <1>7, ResolveKeeps
<1>8. CASE NoteNAD(m) \/ RemoveNote(m)
  <2>1. /\ Keeps(m) /\ UNCHANGED <<nads, swallowed, raced>>
        /\ machine'[m].phase = machine[m].phase
        /\ \/ rec'[m].step = "preGet"
           \/ rec'[m].step = "removeFinalizer" /\ rec[m].step = "unnote"
    BY <1>8, NoteKeeps
  <2>2. CASE rec'[m].step = "preGet"
    BY <2>1, <2>2, CalmHandsOver, HandedOver
  <2>3. CASE rec[m].step = "unnote"
    <3>1. \A n \in NADs : ~WillCollect(m, n)
      BY <2>3 DEF WillCollect, NADInvariant, Sound
    <3>2. HandsOver(m)
      BY <2>1, <3>1 DEF HandsOver
    <3> QED
      BY <2>1, <3>2, HandedOver
  <2> QED
    BY <2>1, <2>2, <2>3
<1>9. ASSUME NEW n \in NADs, DeleteNAD(n) \/ nads' = nads
      PROVE  \A k \in NADs : nads'[k] = "managed" => nads[k] = "managed" /\ (k = n => nads' = nads)
  BY <1>9 DEF DeleteNAD, NADInvariant, TypeOK
<1>10. CASE PreGetNAD(m) \/ PreListVMs(m) \/ PreDeleteNAD(m)
  <2>1. /\ Keeps(m) /\ UNCHANGED <<machine, swallowed, raced>> /\ rec[m].nad \in NADs
        /\ rec'[m].step \in {"preList", "preDelete", "deleteVM"}
        /\ nads' = nads \/ DeleteNAD(rec[m].nad)
    BY <1>10, PreKeeps
  <2>2. HandsOver(m)
    BY <1>9, <2>1, CalmHandsOver
  <2> QED
    BY <2>1, <2>2, HandedOver
<1>11. CASE DeleteVM(m)
  BY <1>1, <1>11, DeleteVMKeeps
<1>12. CASE CheckVM(m)
  BY <1>1, <1>12, CheckVMKeeps
<1>13. CASE FinGetNAD(m) \/ FinListVMs(m) \/ FinDeleteNAD(m)
  <2>1. /\ Keeps(m) /\ UNCHANGED <<machine, swallowed, raced>> /\ rec[m].nad \in NADs
        /\ rec'[m].step \in {"finList", "finDelete", "sweepNADs"}
        /\ nads' = nads \/ DeleteNAD(rec[m].nad)
    BY <1>13, FinKeeps
  <2>2. HandsOver(m)
    BY <1>9, <2>1, CalmHandsOver
  <2> QED
    BY <2>1, <2>2, HandedOver
<1>14. CASE SweepListNADs(m)
  <2>1. /\ Keeps(m) /\ UNCHANGED <<machine, nads, swallowed, raced>>
        /\ rec'[m].left = {n \in NADs : nads[n] = "managed"}
    BY <1>14, SweepListNADsKeeps
  <2>2. HandsOver(m)
    BY <2>1 DEF HandsOver, WillCollect
  <2> QED
    BY <2>1, <2>2, HandedOver
<1>15. CASE SweepListVMs(m)
  <2>1. /\ Keeps(m) /\ UNCHANGED <<machine, nads, vms, swallowed, raced>>
        /\ rec[m].step = "sweepVMs"
        /\ rec'[m].left = {n \in rec[m].left : Users(n) = {}}
    BY <1>15, SweepListVMsKeeps
  <2>2. ASSUME NEW n \in NADs, WillCollect(m, n)
        PROVE  \E o \in Machines : WillCollect(o, n)'
    <3>1. n \in rec[m].left /\ machine[m].phase # "absent"
      BY <2>1, <2>2 DEF WillCollect
    <3>2. CASE Users(n) = {}
      BY <2>1, <3>1, <3>2 DEF WillCollect
    <3>3. CASE Users(n) # {}
      <4>1. PICK o \in Users(n) : TRUE
        BY <3>3
      <4>2. o \in Machines /\ WillCollect(o, n) /\ o # m
        BY <2>1, UsersCollect DEF FinalSteps, SweepSteps
      <4> QED
        BY <2>1, <4>2, OthersCollect DEF Keeps
    <3> QED
      BY <3>2, <3>3
  <2>3. HandsOver(m)
    BY <2>1, <2>2 DEF HandsOver
  <2> QED
    BY <2>1, <2>3, HandedOver
<1>16. CASE SweepDeleteNAD(m)
  <2>1. Keeps(m) /\ UNCHANGED <<machine, swallowed, raced>> /\ rec[m].step = "sweepDelete"
    BY <1>16, SweepDeleteKeeps
  <2>2. PICK n \in rec[m].left : /\ n \in NADs /\ DeleteNAD(n)
                                 /\ rec'[m].left = rec[m].left \ {n}
    BY <1>16, SweepDeleteKeeps
  <2>3. \A k \in NADs : nads'[k] = "managed" => nads[k] = "managed" /\ k # n
    BY <2>2 DEF DeleteNAD, NADInvariant, TypeOK
  <2>4. \A k \in NADs : k # n /\ WillCollect(m, k) => WillCollect(m, k)'
    BY <2>1, <2>2 DEF WillCollect
  <2>5. HandsOver(m)
    BY <2>3, <2>4 DEF HandsOver
  <2> QED
    BY <2>1, <2>5, HandedOver
<1>17. CASE CollectionError(m)
  <2>1. Keeps(m) /\ swallowed'
    BY <1>17, CollectionErrorKeeps
  <2>2. NADsSound'
    BY <2>1 DEF NADsSound
  <2> QED
    BY <2>1, <2>2, OthersSound
<1>18. CASE RemoveMachineFinalizer(m)
  <2>1. /\ Keeps(m) /\ UNCHANGED <<nads, swallowed, raced>>
        /\ rec[m].step = "removeFinalizer" /\ rec[m].left = {}
    BY <1>18, RemoveMachineFinalizerKeeps
  <2>2. \A n \in NADs : ~WillCollect(m, n)
    BY <2>1 DEF WillCollect
  <2>3. HandsOver(m)
    BY <2>1, <2>2 DEF HandsOver
  <2> QED
    BY <2>1, <2>3, HandedOver
<1>19. CASE ReconcileFails(m)
  <2>1. Return(m) /\ UNCHANGED <<machine, cache, network, nads, vms, swallowed, raced>>
    BY <1>19 DEF ReconcileFails
  <2>2. Keeps(m) /\ rec'[m].step = "idle"
    BY <2>1, ReturnKeeps
  <2> QED
    BY <1>1, <2>1, <2>2
<1> QED
  BY <1>2, <1>3, <1>4, <1>5, <1>6, <1>7, <1>8, <1>10, <1>11, <1>12, <1>13, <1>14,
     <1>15, <1>16, <1>17, <1>18, <1>19 DEF Progress, Creation, Deletion

\* A crash takes all handlers with it, and after it nobody is sweeping.
LEMMA CrashAndRestart ==
    ASSUME NADInvariant, Crash \/ Restart
    PROVE  /\ NADInvariant' /\ UNCHANGED <<machine, nads, vms, swallowed, raced>>
           /\ \A o \in Machines : rec'[o].step \in {"idle", "down"} /\ rec'[o].left = {}
<1> USE DEF NADInvariant
<1>1. /\ UNCHANGED <<machine, network, nads, vms, swallowed, raced>>
      /\ cache' = cache \/ cache' = machine
      /\ rec' \in [Machines -> Reconcile]
      /\ \A o \in Machines : rec'[o].step \in {"idle", "down"} /\ rec'[o].left = {}
  BY ConstantsTyped DEF Crash, Restart
<1>2. TypeOK'
  BY <1>1 DEF TypeOK, NamedSteps, BeforeVMSteps, AfterVMSteps
<1>3. \A o \in Machines : Sound(o)'
  BY <1>1 DEF Sound, CreationSteps, DeletionSteps, FinalSteps, BeforeVMSteps,
     AfterVMSteps, SweepSteps
<1>4. \A o \in Machines : \A n \in NADs : WillCollect(o, n) => WillCollect(o, n)'
  BY <1>1 DEF WillCollect
<1>5. NADsSound'
  BY <1>1, <1>4 DEF NADsSound
<1> QED
  BY <1>1, <1>2, <1>3, <1>5

\* A network or an administrator's NAD changes: no Machine notices yet.
LEMMA OutsideStep ==
    ASSUME NADInvariant,
           \/ \E m \in Machines : NetworkChanges(m)
           \/ \E n \in NADs : AdminCreatesNAD(n)
    PROVE  /\ NADInvariant' /\ UNCHANGED <<machine, vms, rec, swallowed, raced>>
           /\ \A n \in NADs : nads'[n] = nads[n] \/ nads[n] = "none"
           /\ \A n \in NADs : nads'[n] = "managed" => nads[n] = "managed"
           /\ \A n \in NADs : nads'[n] = "none" => nads[n] = "none"
<1> USE DEF NADInvariant
<1>1. /\ UNCHANGED <<machine, cache, vms, rec, swallowed, raced>>
      /\ network' \in [Machines -> OptionalNAD]
      /\ nads' = nads \/ \E n \in NADs : nads[n] = "none" /\ nads' = [nads EXCEPT ![n] = "foreign"]
  BY DEF NetworkChanges, AdminCreatesNAD, TypeOK
<1>2. /\ nads' \in [NADs -> NADState]
      /\ \A n \in NADs : nads'[n] = nads[n] \/ nads[n] = "none"
      /\ \A n \in NADs : nads'[n] = "managed" => nads[n] = "managed"
      /\ \A n \in NADs : nads'[n] = "none" => nads[n] = "none"
  BY <1>1 DEF TypeOK, NADState
<1>3. TypeOK'
  BY <1>1, <1>2 DEF TypeOK, NADState
<1>4. \A o \in Machines : Sound(o)'
  BY <1>1 DEF Sound
<1>5. NADsSound'
  BY <1>1, <1>2 DEF NADsSound, WillCollect
<1> QED
  BY <1>1, <1>2, <1>3, <1>4, <1>5

LEMMA NADEnvironmentStep ==
    ASSUME NADInvariant, Environment PROVE NADInvariant'
<1>1. ASSUME NEW m \in Machines, UserCreates(m) \/ UserDeletes(m) PROVE NADInvariant'
  <2>1. /\ Keeps(m) /\ UNCHANGED <<nads, rec, swallowed, raced>>
        /\ machine'[m].phase # "absent"
    BY <1>1, UserKeeps
  <2> QED
    BY <2>1, CalmHandsOver, HandedOver
<1>2. ASSUME NEW m \in Machines, CacheSync(m) \/ VMGone(m) PROVE NADInvariant'
  <2>1. Keeps(m) /\ UNCHANGED <<machine, nads, rec, swallowed, raced>>
    BY <1>2, CacheSyncKeeps, VMGoneKeeps DEF CacheSync, VMGone
  <2> QED
    BY <2>1, CalmHandsOver, HandedOver
<1> QED
  BY <1>1, <1>2, CrashAndRestart, OutsideStep DEF Environment

LEMMA InitSound == ASSUME Init PROVE NADInvariant
<1>1. TypeOK
  <2>1. /\ machine \in [Machines -> MachineObject] /\ cache \in [Machines -> MachineObject]
        /\ vms \in [Machines -> VirtualMachine] /\ rec \in [Machines -> Reconcile]
    BY ConstantsTyped DEF Init
  <2> QED
    BY <2>1, ConstantsTyped DEF Init, TypeOK, NamedSteps, BeforeVMSteps, AfterVMSteps
<1>2. \A m \in Machines : Sound(m)
  BY ConstantsTyped DEF Init, Sound, CreationSteps, DeletionSteps, FinalSteps,
     BeforeVMSteps, AfterVMSteps, SweepSteps
<1>3. NADsSound
  BY DEF Init, NADsSound
<1> QED
  BY <1>1, <1>2, <1>3 DEF NADInvariant

LEMMA NADInvariantHolds == Spec => []NADInvariant
<1>1. Init => NADInvariant
  BY InitSound
<1>2. NADInvariant /\ [Next]_vars => NADInvariant'
  <2>1. ASSUME NADInvariant, UNCHANGED vars PROVE NADInvariant'
    BY <2>1 DEF vars, NADInvariant, TypeOK, Sound, NADsSound, WillCollect
  <2> QED
    BY <2>1, NADHandlerStep, NADEnvironmentStep DEF Next
<1> QED
  BY <1>1, <1>2, PTL DEF Spec

\* No call is ever made for a NAD without a name, whatever the Machine noted and
\* whatever VM it has (the guards of machine_controller.go:586 and :613).
THEOREM TypeCorrect == Spec => []TypeOK
<1>1. NADInvariant => TypeOK
  BY DEF NADInvariant
<1> QED
  BY <1>1, NADInvariantHolds, PTL

\* When the last Machine is gone, so is every NAD the operator made, for any
\* number of workers and through crashes, changed networks and stale copies: a
\* sweep passes over a NAD only for a VM whose Machine will sweep in its turn,
\* and a NAD made for a VM not yet created belongs to a Machine that is still
\* there (network_manager.go:476).
THEOREM NothingIsLeftBehind == Spec => []NothingLeftBehind
<1>1. NADInvariant => NothingLeftBehind
  BY DEF NADInvariant, NADsSound, NothingLeftBehind, WillCollect
<1> QED
  BY <1>1, NADInvariantHolds, PTL

-----------------------------------------------------------------------------
(* What a collection has found out still holds when it deletes             *)

LEMMA VMTyped ==
    ASSUME TypeOK, NEW o \in Machines
    PROVE  vms[o].nad # None => vms[o].nad \in NADs
<1>1. vms[o] \in VirtualMachine
  BY DEF TypeOK
<1> QED
  BY <1>1 DEF VirtualMachine, OptionalNAD

LEMMA DeletedNAD ==
    ASSUME TypeOK, NEW n \in NADs, DeleteNAD(n)
    PROVE  \A k \in NADs : /\ nads'[k] = "none" => k = n \/ nads[k] = "none"
                           /\ k # n => nads'[k] = nads[k]
BY DEF DeleteNAD, TypeOK

\* No live Machine gains a VM, and no exposed VM of one loses its NAD.
LEMMA LiveKept ==
    ASSUME TypeOK, LiveVMHasItsNAD,
           \A o \in Machines : machine'[o].phase = "live" /\ vms'[o].state = "up" =>
               /\ machine[o].phase = "live" /\ vms'[o] = vms[o]
               /\ o \in raced => o \in raced',
           \A n \in NADs : nads[n] # "none" /\ nads'[n] = "none" =>
               \A o \in Exposed(n) : machine[o].phase # "live"
    PROVE  LiveVMHasItsNAD'
<1> SUFFICES ASSUME NEW o \in Machines, o \notin raced', machine'[o].phase = "live",
                    vms'[o].state = "up", vms'[o].nad # None
             PROVE  nads'[vms'[o].nad] # "none"
  BY DEF LiveVMHasItsNAD
<1>1. /\ machine[o].phase = "live" /\ vms'[o] = vms[o] /\ vms[o].nad \in NADs
      /\ nads[vms[o].nad] # "none" /\ o \in Exposed(vms[o].nad)
  BY VMTyped DEF LiveVMHasItsNAD, Users, Exposed
<1> QED
  BY <1>1

\* A step of m's handler after which no VM is exposed that was not.
LEMMA RaceKept ==
    ASSUME RaceInvariant, NADInvariant', NEW m \in Machines,
           \A o \in Machines : o # m => rec'[o] = rec[o],
           \A n : Exposed(n)' \subseteq Exposed(n),
           StillUnused(m)', LiveVMHasItsNAD'
    PROVE  RaceInvariant'
<1>1. \A o \in Machines : o # m => StillUnused(o)'
  BY DEF RaceInvariant, StillUnused
<1> QED
  BY <1>1 DEF RaceInvariant

\* Nor does the handler go to delete a NAD.
LEMMA RaceCalm ==
    ASSUME RaceInvariant, NADInvariant', NEW m \in Machines, Keeps(m),
           rec'[m].step \notin {"preDelete", "finDelete", "sweepDelete"},
           machine'[m].phase = "live" /\ vms'[m].state = "up" =>
               machine[m].phase = "live" /\ vms'[m] = vms[m],
           UNCHANGED <<vms, raced>> \/ (vms'[m].state # "up" /\ raced' = raced \ {m}),
           \A n \in NADs : nads'[n] = nads[n] \/ nads[n] = "none"
    PROVE  RaceInvariant'
<1>1. StillUnused(m)'
  BY DEF StillUnused
<1>2. \A o \in Machines : o # m => Untouched(o) /\ rec'[o] = rec[o]
  BY DEF Keeps, Untouched
<1>3. \A n : Exposed(n)' \subseteq Exposed(n)
  BY <1>2 DEF Exposed, Users, Untouched
<1>4. LiveVMHasItsNAD'
  <2>1. \A o \in Machines : machine'[o].phase = "live" /\ vms'[o].state = "up" =>
            /\ machine[o].phase = "live" /\ vms'[o] = vms[o]
            /\ o \in raced => o \in raced'
    BY <1>2 DEF Untouched
  <2> QED
    BY <2>1, LiveKept DEF RaceInvariant, NADInvariant
<1> QED
  BY <1>1, <1>2, <1>3, <1>4, RaceKept

\* A step of a collection that changes nothing but perhaps the NAD it deletes.
LEMMA RaceCollects ==
    ASSUME RaceInvariant, NADInvariant', NEW m \in Machines, Keeps(m),
           UNCHANGED <<machine, vms, raced>>, StillUnused(m)',
           \/ nads' = nads
           \/ \E n \in NADs : /\ DeleteNAD(n)
                              /\ \A o \in Exposed(n) : machine[o].phase # "live"
    PROVE  RaceInvariant'
<1>1. \A o \in Machines : o # m => rec'[o] = rec[o]
  BY DEF Keeps, Untouched
<1>2. \A n : Exposed(n)' = Exposed(n)
  BY DEF Exposed, Users
<1>3. \A n \in NADs : nads[n] # "none" /\ nads'[n] = "none" =>
          \A o \in Exposed(n) : machine[o].phase # "live"
  BY DeletedNAD DEF RaceInvariant, NADInvariant
<1>4. LiveVMHasItsNAD'
  BY <1>3, LiveKept DEF RaceInvariant, NADInvariant
<1> QED
  BY <1>1, <1>2, <1>4, RaceKept

\* The VM that comes up is exposed only if its NAD is there and nobody is about to
\* delete it.
LEMMA RaceCreateVM ==
    ASSUME RaceInvariant, NADInvariant', NEW m \in Machines, CreateVM(m)
    PROVE  RaceInvariant'
<1>1. /\ Keeps(m) /\ UNCHANGED <<machine, nads>> /\ rec'[m].step = "idle"
      /\ vms'[m].nad = rec[m].nad
      /\ \/ raced' = raced \cup {m}
         \/ raced' = raced /\ (rec[m].nad # None => ~Collected(rec[m].nad))
  BY CreateVMKeeps DEF RaceInvariant
<1>2. \A o \in Machines : o # m => rec'[o] = rec[o] /\ vms'[o] = vms[o]
  BY <1>1 DEF Keeps, Untouched
<1>3. \A n : \A o \in Exposed(n)' : o # m => o \in Exposed(n)
  BY <1>1, <1>2 DEF Exposed, Users
<1>4. ASSUME NEW n \in NADs, m \in Exposed(n)'
      PROVE  n = rec[m].nad /\ ~Collected(n)
  BY <1>1, <1>4, ConstantsAssumption DEF Exposed, Users
<1>5. ASSUME NEW o \in Machines, o # m PROVE StillUnused(o)'
  <2>1. StillUnused(o) /\ rec'[o] = rec[o] /\ TypeOK /\ rec[o].left \subseteq NADs
    BY <1>2, <1>5, LeftTyped DEF RaceInvariant, NADInvariant
  <2>2. ASSUME NEW n \in NADs, Collected(n) PROVE Exposed(n)' \subseteq Exposed(n)
    BY <1>3, <1>4, <2>2
  <2>3. CASE rec[o].step \in {"preDelete", "finDelete"}
    <3>1. PICK n \in NADs : n = rec[o].nad
      BY <2>1, <2>3, NamedNAD DEF NamedSteps, BeforeVMSteps, AfterVMSteps
    <3>2. Exposed(n)' \subseteq Exposed(n)
      BY <2>2, <2>3, <3>1 DEF Collected
    <3> QED
      BY <2>1, <2>3, <3>1, <3>2 DEF StillUnused
  <2>4. CASE rec[o].step = "sweepDelete"
    <3>1. \A n \in rec[o].left : Exposed(n)' \subseteq Exposed(n)
      BY <2>1, <2>2, <2>4 DEF Collected
    <3> QED
      BY <2>1, <2>4, <3>1 DEF StillUnused
  <2>5. CASE rec[o].step \notin {"preDelete", "finDelete", "sweepDelete"}
    BY <2>1, <2>5 DEF StillUnused
  <2> QED
    BY <2>3, <2>4, <2>5
<1>6. StillUnused(m)'
  BY <1>1 DEF StillUnused
<1>7. LiveVMHasItsNAD'
  <2>1. ASSUME m \notin raced', rec[m].nad # None PROVE nads[rec[m].nad] # "none"
    BY <1>1, <2>1 DEF Collected
  <2> QED
    BY <1>1, <1>2, <2>1 DEF RaceInvariant, LiveVMHasItsNAD, Keeps, Untouched
<1> QED
  BY <1>5, <1>6, <1>7 DEF RaceInvariant

LEMMA RaceHandlerStep ==
    ASSUME RaceInvariant, NEW m \in Machines,
           Start(m) \/ Progress(m) \/ ReconcileFails(m)
    PROVE  RaceInvariant'
<1>1. NADInvariant /\ NADInvariant' /\ TypeOK /\ StillUnused(m) /\ Sound(m)
  BY NADHandlerStep DEF RaceInvariant, NADInvariant
<1>2. ASSUME Keeps(m), UNCHANGED <<machine, nads, vms, raced>>,
             rec'[m].step \notin {"preDelete", "finDelete", "sweepDelete"}
      PROVE  RaceInvariant'
  BY <1>1, <1>2, RaceCalm
<1>3. CASE Start(m)
  BY <1>1, <1>2, <1>3, StartKeeps DEF Start
<1>4. CASE GetVM(m)
  BY <1>1, <1>2, <1>4, GetVMKeeps
<1>5. CASE GetNAD(m)
  BY <1>1, <1>2, <1>5, GetNADKeeps
<1>6. CASE CreateNAD(m)
  BY <1>1, <1>6, CreateNADKeeps, RaceCalm
<1>7. CASE CreateVM(m)
  BY <1>1, <1>7, RaceCreateVM
<1>8. CASE ResolveNADName(m)
  BY <1>1, <1>2, <1>8, ResolveKeeps
<1>9. CASE NoteNAD(m) \/ RemoveNote(m)
  <2>1. /\ Keeps(m) /\ UNCHANGED <<nads, vms, raced>>
        /\ machine'[m].phase = machine[m].phase
        /\ rec'[m].step \in {"preGet", "removeFinalizer"}
    BY <1>1, <1>9, NoteKeeps
  <2> QED
    BY <1>1, <2>1, RaceCalm
<1>10. CASE PreGetNAD(m) \/ PreListVMs(m) \/ PreDeleteNAD(m)
  <2>1. /\ Keeps(m) /\ UNCHANGED <<machine, vms, raced>>
        /\ rec[m].nad \in NADs /\ rec'[m].nad = rec[m].nad
        /\ rec'[m].step \in {"preList", "preDelete", "deleteVM"}
        /\ rec'[m].step = "preDelete" => Users(rec[m].nad) \subseteq {m}
        /\ nads' = nads \/ (rec[m].step = "preDelete" /\ DeleteNAD(rec[m].nad))
    BY <1>1, <1>10, PreKeeps
  <2>2. StillUnused(m)'
    BY <2>1 DEF StillUnused, Exposed, Users
  <2>3. ASSUME rec[m].step = "preDelete"
        PROVE  \A o \in Exposed(rec[m].nad) : machine[o].phase # "live"
    BY <1>1, <2>3 DEF StillUnused, Exposed, Users, Sound, DeletionSteps, BeforeVMSteps
  <2> QED
    BY <1>1, <2>1, <2>2, <2>3, RaceCollects
<1>11. CASE DeleteVM(m)
  <2>1. /\ Keeps(m) /\ UNCHANGED <<machine, nads>> /\ rec'[m].step = "checkVM"
        /\ vms'[m].state # "up" /\ raced' = raced \ {m}
    BY <1>1, <1>11, DeleteVMKeeps
  <2> QED
    BY <1>1, <2>1, RaceCalm
<1>12. CASE CheckVM(m)
  BY <1>1, <1>2, <1>12, CheckVMKeeps
<1>13. CASE FinGetNAD(m) \/ FinListVMs(m) \/ FinDeleteNAD(m)
  <2>1. /\ Keeps(m) /\ UNCHANGED <<machine, vms, raced>>
        /\ rec[m].nad \in NADs /\ rec'[m].nad = rec[m].nad
        /\ rec'[m].step \in {"finList", "finDelete", "sweepNADs"}
        /\ rec'[m].step = "finDelete" => Users(rec[m].nad) = {}
        /\ nads' = nads \/ (rec[m].step = "finDelete" /\ DeleteNAD(rec[m].nad))
    BY <1>1, <1>13, FinKeeps
  <2>2. StillUnused(m)'
    BY <2>1 DEF StillUnused, Exposed, Users
  <2>3. rec[m].step = "finDelete" => Exposed(rec[m].nad) = {}
    BY <1>1 DEF StillUnused
  <2> QED
    BY <1>1, <2>1, <2>2, <2>3, RaceCollects
<1>14. CASE SweepListNADs(m)
  BY <1>1, <1>2, <1>14, SweepListNADsKeeps
<1>15. CASE SweepListVMs(m)
  <2>1. /\ Keeps(m) /\ UNCHANGED <<machine, nads, vms, raced>>
        /\ rec'[m].left = {n \in rec[m].left : Users(n) = {}}
        /\ rec'[m].step \in {"sweepDelete", "unnote", "removeFinalizer"}
    BY <1>1, <1>15, SweepListVMsKeeps
  <2>2. StillUnused(m)'
    BY <2>1 DEF StillUnused, Exposed, Users
  <2> QED
    BY <1>1, <2>1, <2>2, RaceCollects
<1>16. CASE SweepDeleteNAD(m)
  <2>1. /\ Keeps(m) /\ UNCHANGED <<machine, vms, raced>> /\ rec[m].step = "sweepDelete"
        /\ rec'[m].step \in {"sweepDelete", "unnote", "removeFinalizer"}
    BY <1>1, <1>16, SweepDeleteKeeps
  <2>2. PICK n \in rec[m].left : /\ n \in NADs /\ DeleteNAD(n)
                                 /\ rec'[m].left = rec[m].left \ {n}
    BY <1>1, <1>16, SweepDeleteKeeps
  <2>3. \A k \in rec[m].left : Exposed(k) = {}
    BY <1>1, <2>1 DEF StillUnused
  <2>4. StillUnused(m)'
    BY <2>1, <2>2, <2>3 DEF StillUnused, Exposed, Users
  <2> QED
    BY <1>1, <2>1, <2>2, <2>3, <2>4, RaceCollects
<1>17. CASE CollectionError(m)
  <2>1. /\ Keeps(m) /\ UNCHANGED <<machine, nads, vms, raced>>
        /\ \/ /\ rec'[m].left = {}
              /\ rec'[m].step \in {"deleteVM", "sweepNADs", "unnote", "removeFinalizer"}
           \/ /\ rec[m].step = "sweepDelete" /\ rec'[m].step = "sweepDelete"
              /\ rec'[m].left \subseteq rec[m].left
    BY <1>1, <1>17, CollectionErrorKeeps
  <2>2. StillUnused(m)'
    BY <1>1, <2>1 DEF StillUnused, Exposed, Users
  <2> QED
    BY <1>1, <2>1, <2>2, RaceCollects
<1>18. CASE RemoveMachineFinalizer(m)
  <2>1. /\ Keeps(m) /\ UNCHANGED <<nads, vms, raced>>
        /\ machine'[m].phase = "live" => machine[m].phase = "live"
        /\ rec'[m].step = "idle"
    BY <1>1, <1>18, RemoveMachineFinalizerKeeps
  <2> QED
    BY <1>1, <2>1, RaceCalm
<1>19. CASE ReconcileFails(m)
  <2>1. Return(m) /\ UNCHANGED <<machine, cache, network, nads, vms, swallowed, raced>>
    BY <1>19 DEF ReconcileFails
  <2>2. Keeps(m) /\ rec'[m].step = "idle"
    BY <1>1, <2>1, ReturnKeeps
  <2> QED
    BY <1>2, <2>1, <2>2
<1> QED
  BY <1>3, <1>4, <1>5, <1>6, <1>7, <1>8, <1>9, <1>10, <1>11, <1>12, <1>13, <1>14,
     <1>15, <1>16, <1>17, <1>18, <1>19 DEF Progress, Creation, Deletion

\* Outside the operator no VM comes up and no NAD goes.
LEMMA RaceEnvironmentStep ==
    ASSUME RaceInvariant, Environment PROVE RaceInvariant'
<1>1. NADInvariant /\ NADInvariant'
  BY NADEnvironmentStep DEF RaceInvariant
<1>2. ASSUME \A o \in Machines : rec'[o] = rec[o] \/ rec'[o].step \in {"idle", "down"},
             UNCHANGED raced,
             \A o \in Machines : vms'[o].state = "up" => vms'[o] = vms[o],
             \A o \in Machines : machine'[o].phase = "live" /\ vms'[o].state = "up" =>
                 machine[o].phase = "live",
             \A n \in NADs : nads'[n] = nads[n] \/ nads[n] = "none"
      PROVE  RaceInvariant'
  <2>1. \A n : Exposed(n)' \subseteq Exposed(n)
    BY <1>2 DEF Exposed, Users
  <2>2. \A o \in Machines : StillUnused(o)'
    BY <1>2, <2>1 DEF RaceInvariant, StillUnused
  <2>3. LiveVMHasItsNAD'
    BY <1>1, <1>2, LiveKept DEF RaceInvariant, NADInvariant
  <2> QED
    BY <1>1, <2>2, <2>3 DEF RaceInvariant
<1>3. CASE Crash \/ Restart
  <2>1. /\ UNCHANGED <<machine, nads, vms, raced>>
        /\ \A o \in Machines : rec'[o].step \in {"idle", "down"}
    BY <1>1, <1>3, CrashAndRestart
  <2> QED
    BY <1>2, <2>1
<1>4. ASSUME NEW m \in Machines, UserCreates(m) \/ UserDeletes(m)
      PROVE  RaceInvariant'
  <2>1. /\ Keeps(m) /\ UNCHANGED <<nads, vms, rec, raced>>
        /\ machine'[m].phase = "live" => vms[m].state = "none"
    BY <1>1, <1>4, UserKeeps
  <2> QED
    BY <1>2, <2>1 DEF Keeps, Untouched
<1>5. ASSUME NEW m \in Machines, CacheSync(m) PROVE RaceInvariant'
  BY <1>2, <1>5 DEF CacheSync
<1>6. ASSUME NEW m \in Machines, VMGone(m) PROVE RaceInvariant'
  <2>1. /\ Keeps(m) /\ UNCHANGED <<machine, nads, rec, raced>>
        /\ vms'[m].state = "none"
    BY <1>1, <1>6, VMGoneKeeps DEF VMGone
  <2> QED
    BY <1>2, <2>1 DEF Keeps, Untouched
<1>7. CASE \/ \E m \in Machines : NetworkChanges(m)
           \/ \E n \in NADs : AdminCreatesNAD(n)
  <2>1. /\ UNCHANGED <<machine, vms, rec, raced>>
        /\ \A n \in NADs : nads'[n] = nads[n] \/ nads[n] = "none"
    BY <1>1, <1>7, OutsideStep
  <2> QED
    BY <1>2, <2>1
<1> QED
  BY <1>3, <1>4, <1>5, <1>6, <1>7 DEF Environment

LEMMA InitRace == ASSUME Init PROVE RaceInvariant
<1>1. \A m \in Machines : StillUnused(m)
  BY ConstantsTyped DEF Init, StillUnused
<1>2. LiveVMHasItsNAD
  BY ConstantsTyped DEF Init, LiveVMHasItsNAD
<1> QED
  BY <1>1, <1>2, InitSound DEF RaceInvariant

LEMMA RaceInvariantHolds == Spec => []RaceInvariant
<1>1. Init => RaceInvariant
  BY InitRace
<1>2. RaceInvariant /\ [Next]_vars => RaceInvariant'
  <2>1. ASSUME RaceInvariant, UNCHANGED vars PROVE RaceInvariant'
    BY <2>1 DEF vars, RaceInvariant, NADInvariant, TypeOK, Sound, NADsSound,
       WillCollect, StillUnused, Exposed, Users, LiveVMHasItsNAD
  <2> QED
    BY <2>1, RaceHandlerStep, RaceEnvironmentStep DEF Next
<1> QED
  BY <1>1, <1>2, PTL DEF Spec

\* The NAD of a running VM stays as long as nobody deletes its Machine, whatever
\* the other workers collect meanwhile: from the listing of the VMs to the Delete
\* a collector can only miss a VM that comes up in between, or under a creation
\* that saw the NAD before ("safe to delete", network_manager.go:383).
THEOREM LiveVMsHaveTheirNADs == Spec => []LiveVMHasItsNAD
<1>1. RaceInvariant => LiveVMHasItsNAD
  BY DEF RaceInvariant
<1> QED
  BY <1>1, RaceInvariantHolds, PTL

-----------------------------------------------------------------------------
(* One worker: nothing comes up, or gets another label, under a collector  *)

\* The handler that takes a step is the only one at work.
LEMMA OthersAtRest ==
    ASSUME Serial, SerialInvariant, NEW m \in Machines,
           Start(m) \/ Progress(m) \/ ReconcileFails(m)
    PROVE  \A o \in Machines : o # m => AtRest(o)
<1>1. CASE Start(m)
  <2>1. IsFiniteSet(Active)
    BY FS_Subset, ConstantsAssumption DEF Active
  <2>2. Cardinality(Active) = 0
    BY <1>1, <2>1, FS_CardinalityType DEF Start, Serial
  <2>3. Active = {}
    BY <2>1, <2>2, FS_EmptySet
  <2> QED
    BY <2>3 DEF Active, AtRest
<1>2. CASE Progress(m) \/ ReconcileFails(m)
  <2>1. rec[m].step \in CreationSteps \cup DeletionSteps
    BY <1>2 DEF Progress, Creation, Deletion, ReconcileFails, GetVM, GetNAD, CreateNAD,
       CreateVM, ResolveNADName, NoteNAD, PreGetNAD, PreListVMs, PreDeleteNAD, DeleteVM,
       CheckVM, FinGetNAD, FinListVMs, FinDeleteNAD, SweepListNADs, SweepListVMs,
       SweepDeleteNAD, RemoveNote, RemoveMachineFinalizer, CollectionError,
       CreationSteps, DeletionSteps, BeforeVMSteps, AfterVMSteps, SweepSteps,
       ReturningSteps
  <2>2. ~AtRest(m)
    BY <2>1 DEF AtRest, CreationSteps, DeletionSteps, BeforeVMSteps, AfterVMSteps,
       SweepSteps
  <2> QED
    BY <2>2 DEF SerialInvariant, OneReconcile
<1> QED
  BY <1>1, <1>2

LEMMA SerialKept ==
    ASSUME SerialInvariant, RaceInvariant', NEW m \in Machines, Keeps(m),
           \A o \in Machines : o # m => AtRest(o),
           NADsKnown(m)', raced' \subseteq raced
    PROVE  SerialInvariant'
<1>1. \A o \in Machines : o # m => AtRest(o)' /\ rec'[o].left = {}
  BY DEF Keeps, Untouched, AtRest, SerialInvariant, RaceInvariant, NADInvariant, Sound
<1>2. OneReconcile'
  BY <1>1 DEF OneReconcile
<1>3. \A o \in Machines : NADsKnown(o)'
  BY <1>1 DEF NADsKnown, AtRest
<1> QED
  BY <1>2, <1>3 DEF SerialInvariant

LEMMA SerialHandlerStep ==
    ASSUME Serial, SerialInvariant, NEW m \in Machines,
           Start(m) \/ Progress(m) \/ ReconcileFails(m)
    PROVE  SerialInvariant'
<1>1. /\ NADInvariant /\ TypeOK /\ Sound(m) /\ NADsKnown(m) /\ raced = {}
      /\ RaceInvariant'
  BY RaceHandlerStep DEF SerialInvariant, RaceInvariant, NADInvariant
<1>2. \A o \in Machines : o # m => AtRest(o)
  BY OthersAtRest
<1>3. ASSUME Keeps(m), NADsKnown(m)', raced' \subseteq raced PROVE SerialInvariant'
  BY <1>1, <1>2, <1>3, SerialKept
<1>4. ASSUME Keeps(m), rec'[m].left = {}, rec'[m].step # "createVM",
             raced' \subseteq raced
      PROVE  SerialInvariant'
  <2>1. NADsKnown(m)'
    BY <1>4 DEF NADsKnown
  <2> QED
    BY <1>3, <1>4, <2>1
<1>5. CASE Start(m)
  BY <1>1, <1>4, <1>5, StartKeeps DEF Start
<1>6. CASE GetVM(m)
  BY <1>1, <1>4, <1>6, GetVMKeeps
<1>7. CASE GetNAD(m)
  <2>1. /\ Keeps(m) /\ UNCHANGED <<machine, nads, vms, raced>>
        /\ rec'[m].left = {}
        /\ rec'[m].step = "createVM" /\ rec'[m].nad # None =>
              nads[rec'[m].nad] # "none"
    BY <1>1, <1>7, GetNADKeeps DEF GetNAD
  <2>2. NADsKnown(m)'
    BY <2>1 DEF NADsKnown
  <2> QED
    BY <1>3, <2>1, <2>2
<1>8. CASE CreateNAD(m)
  <2>1. /\ Keeps(m) /\ UNCHANGED raced
        /\ rec'[m].left = {} /\ nads'[rec'[m].nad] # "none"
    BY <1>1, <1>8, CreateNADKeeps
  <2>2. NADsKnown(m)'
    BY <2>1 DEF NADsKnown
  <2> QED
    BY <1>3, <2>1, <2>2
<1>9. CASE CreateVM(m)
  <2>1. /\ Keeps(m) /\ rec'[m].step = "idle" /\ rec'[m].left = {}
    BY <1>1, <1>9, CreateVMKeeps
  <2>2. rec[m].nad # None => nads[rec[m].nad] # "none"
    BY <1>1, <1>9 DEF CreateVM, NADsKnown
  <2>3. \A o \in Machines : rec[o].step \notin {"preDelete", "finDelete", "sweepDelete"}
    BY <1>2, <1>9 DEF CreateVM, AtRest
  <2>4. rec[m].nad # None => ~Collected(rec[m].nad)
    BY <2>2, <2>3 DEF Collected
  <2>5. raced' = raced
    BY <1>9, <2>4 DEF CreateVM
  <2> QED
    BY <1>4, <2>1, <2>5
<1>10. CASE ResolveNADName(m)
  BY <1>1, <1>4, <1>10, ResolveKeeps
<1>11. CASE NoteNAD(m) \/ RemoveNote(m)
  BY <1>1, <1>4, <1>11, NoteKeeps
<1>12. CASE PreGetNAD(m) \/ PreListVMs(m) \/ PreDeleteNAD(m)
  BY <1>1, <1>4, <1>12, PreKeeps
<1>13. CASE DeleteVM(m)
  BY <1>1, <1>4, <1>13, DeleteVMKeeps
<1>14. CASE CheckVM(m)
  BY <1>1, <1>4, <1>14, CheckVMKeeps
<1>15. CASE FinGetNAD(m) \/ FinListVMs(m) \/ FinDeleteNAD(m)
  BY <1>1, <1>4, <1>15, FinKeeps
<1>16. CASE SweepListNADs(m)
  <2>1. /\ Keeps(m) /\ UNCHANGED <<nads, raced>>
        /\ rec'[m].left = {n \in NADs : nads[n] = "managed"}
        /\ rec'[m].step \in {"sweepVMs", "unnote", "removeFinalizer"}
    BY <1>1, <1>16, SweepListNADsKeeps
  <2>2. NADsKnown(m)'
    BY <2>1 DEF NADsKnown
  <2> QED
    BY <1>3, <2>1, <2>2
<1>17. CASE SweepListVMs(m)
  <2>1. /\ Keeps(m) /\ UNCHANGED <<nads, raced>>
        /\ rec'[m].left \subseteq rec[m].left
        /\ rec'[m].step \in {"sweepDelete", "unnote", "removeFinalizer"}
    BY <1>1, <1>17, SweepListVMsKeeps
  <2>2. NADsKnown(m)'
    BY <1>1, <2>1 DEF NADsKnown
  <2> QED
    BY <1>3, <2>1, <2>2
<1>18. CASE SweepDeleteNAD(m)
  <2>1. /\ Keeps(m) /\ UNCHANGED raced
        /\ rec'[m].step \in {"sweepDelete", "unnote", "removeFinalizer"}
    BY <1>1, <1>18, SweepDeleteKeeps
  <2>2. PICK n \in rec[m].left : /\ n \in NADs /\ DeleteNAD(n)
                                 /\ rec'[m].left = rec[m].left \ {n}
    BY <1>1, <1>18, SweepDeleteKeeps
  <2>3. \A k \in rec'[m].left : nads'[k] = "managed"
    BY <1>1, <2>2, LeftTyped, DeletedNAD DEF NADsKnown
  <2>4. NADsKnown(m)'
    BY <2>1, <2>3 DEF NADsKnown
  <2> QED
    BY <1>3, <2>1, <2>4
<1>19. CASE CollectionError(m)
  <2>1. /\ Keeps(m) /\ UNCHANGED <<nads, raced>>
        /\ rec'[m].step # "createVM" /\ rec'[m].left \subseteq rec[m].left
    BY <1>1, <1>19, CollectionErrorKeeps
  <2>2. NADsKnown(m)'
    BY <1>1, <2>1 DEF NADsKnown
  <2> QED
    BY <1>3, <2>1, <2>2
<1>20. CASE RemoveMachineFinalizer(m)
  BY <1>1, <1>4, <1>20, RemoveMachineFinalizerKeeps
<1>21. CASE ReconcileFails(m)
  <2>1. Return(m) /\ UNCHANGED <<machine, cache, network, nads, vms, swallowed, raced>>
    BY <1>21 DEF ReconcileFails
  <2>2. Keeps(m) /\ rec'[m].step = "idle" /\ rec'[m].left = {}
    BY <1>1, <2>1, ReturnKeeps
  <2> QED
    BY <1>4, <2>1, <2>2
<1> QED
  BY <1>5, <1>6, <1>7, <1>8, <1>9, <1>10, <1>11, <1>12, <1>13, <1>14, <1>15, <1>16,
     <1>17, <1>18, <1>19, <1>20, <1>21 DEF Progress, Creation, Deletion

LEMMA SerialEnvironmentStep ==
    ASSUME SerialInvariant, Environment PROVE SerialInvariant'
<1>1. NADInvariant /\ RaceInvariant'
  BY RaceEnvironmentStep DEF SerialInvariant, RaceInvariant
<1>2. CASE Crash \/ Restart
  <2>1. /\ UNCHANGED raced
        /\ \A o \in Machines : rec'[o].step \in {"idle", "down"} /\ rec'[o].left = {}
    BY <1>1, <1>2, CrashAndRestart
  <2>2. OneReconcile' /\ \A o \in Machines : NADsKnown(o)'
    BY <2>1 DEF OneReconcile, AtRest, NADsKnown
  <2> QED
    BY <1>1, <2>1, <2>2 DEF SerialInvariant
<1>3. ASSUME UNCHANGED <<rec, raced>>,
             \A n \in NADs : nads'[n] = nads[n] \/ nads[n] = "none"
      PROVE  SerialInvariant'
  <2>1. OneReconcile'
    BY <1>3 DEF SerialInvariant, OneReconcile, AtRest
  <2>2. ASSUME NEW o \in Machines PROVE NADsKnown(o)'
    <3>1. NADsKnown(o) /\ rec[o].left \subseteq NADs
      BY <1>1, LeftTyped DEF SerialInvariant, NADInvariant
    <3>2. rec[o].nad # None => rec[o].nad \in NADs
      <4>1. rec[o] \in Reconcile
        BY <1>1 DEF NADInvariant, TypeOK
      <4> QED
        BY <4>1 DEF Reconcile, OptionalNAD
    <3> QED
      BY <1>3, <3>1, <3>2 DEF NADsKnown
  <2> QED
    BY <1>1, <1>3, <2>1, <2>2 DEF SerialInvariant
<1>4. ASSUME NEW m \in Machines,
             UserCreates(m) \/ UserDeletes(m) \/ CacheSync(m) \/ VMGone(m)
      PROVE  SerialInvariant'
  BY <1>3, <1>4 DEF UserCreates, UserDeletes, CacheSync, VMGone
<1>5. CASE \/ \E m \in Machines : NetworkChanges(m)
           \/ \E n \in NADs : AdminCreatesNAD(n)
  <2>1. /\ UNCHANGED <<rec, raced>>
        /\ \A n \in NADs : nads'[n] = nads[n] \/ nads[n] = "none"
    BY <1>1, <1>5, OutsideStep
  <2> QED
    BY <1>3, <2>1
<1> QED
  BY <1>2, <1>4, <1>5 DEF Environment

LEMMA SerialInvariantHolds ==
    ASSUME Serial PROVE Spec => []SerialInvariant
<1>1. Init => SerialInvariant
  <2> SUFFICES ASSUME Init PROVE SerialInvariant
    OBVIOUS
  <2>1. OneReconcile /\ \A m \in Machines : NADsKnown(m)
    BY ConstantsTyped DEF Init, OneReconcile, AtRest, NADsKnown
  <2> QED
    BY <2>1, InitRace DEF SerialInvariant, Init
<1>2. SerialInvariant /\ [Next]_vars => SerialInvariant'
  <2>1. ASSUME SerialInvariant, UNCHANGED vars PROVE SerialInvariant'
    BY <2>1 DEF vars, SerialInvariant, RaceInvariant, NADInvariant, TypeOK, Sound,
       NADsSound, WillCollect, StillUnused, Exposed, OneReconcile, AtRest, NADsKnown,
       Users, LiveVMHasItsNAD
  <2> QED
    BY <2>1, SerialHandlerStep, SerialEnvironmentStep DEF Next
<1> QED
  BY <1>1, <1>2, PTL DEF Spec

\* With one worker no VM comes up under a collector: then every running VM has its
\* NAD as long as nobody deletes its Machine.
THEOREM OneWorkerLosesNoNAD ==
    ASSUME Serial
    PROVE  Spec => [](\A m \in Machines :
               machine[m].phase = "live" /\ vms[m].state = "up" /\ vms[m].nad # None =>
                   nads[vms[m].nad] # "none")
<1>1. SerialInvariant =>
          \A m \in Machines :
              machine[m].phase = "live" /\ vms[m].state = "up" /\ vms[m].nad # None =>
                  nads[vms[m].nad] # "none"
  BY DEF SerialInvariant, RaceInvariant, LiveVMHasItsNAD
<1> QED
  BY <1>1, SerialInvariantHolds, PTL

\* With one worker an administrator's NAD is deleted only by its name, for a
\* Machine that used it, and never by a sweep: what the sweep listed has our label
\* still when it deletes it (the selector of network_manager.go:494).
THEOREM ForeignNADsGoWithTheirUsers ==
    ASSUME Serial PROVE Spec => ForeignNADGoesWithItsUser
<1> DEFINE WithUser ==
        \A n \in NADs : nads[n] = "foreign" /\ nads'[n] # "foreign" =>
            \E m \in Machines : rec[m].nad = n /\ rec[m].step # rec'[m].step
<1>1. ASSUME SerialInvariant, [Next]_vars, NEW n \in NADs,
             nads[n] = "foreign", nads'[n] # "foreign"
      PROVE  \E m \in Machines : rec[m].nad = n /\ rec[m].step # rec'[m].step
  <2>1. NADInvariant /\ TypeOK /\ \A m \in Machines : NADsKnown(m)
    BY <1>1 DEF SerialInvariant, RaceInvariant, NADInvariant
  <2>2. \/ nads' = nads
        \/ \E k \in NADs : AdminCreatesNAD(k)
        \/ \E m \in Machines : CreateNAD(m) \/ SweepDeleteNAD(m)
        \/ \E m \in Machines : PreDeleteNAD(m) \/ FinDeleteNAD(m)
    BY <1>1 DEF Next, vars, Environment, Start, Progress, Creation, Deletion,
       ReconcileFails, UserCreates, UserDeletes, NetworkChanges, CacheSync, VMGone,
       Crash, Restart, GetVM, GetNAD, CreateVM, ResolveNADName, NoteNAD, PreGetNAD,
       PreListVMs, DeleteVM, CheckVM, FinGetNAD, FinListVMs, SweepListNADs,
       SweepListVMs, RemoveNote, RemoveMachineFinalizer, CollectionError
  <2>3. ASSUME NEW k \in NADs, AdminCreatesNAD(k) PROVE FALSE
    BY <1>1, <2>1, <2>3 DEF AdminCreatesNAD, TypeOK
  <2>4. ASSUME NEW m \in Machines, CreateNAD(m) PROVE FALSE
    BY <1>1, <2>1, <2>4, CreateNADKeeps
  <2>5. ASSUME NEW m \in Machines, SweepDeleteNAD(m) PROVE FALSE
    <3>1. PICK k \in rec[m].left : k \in NADs /\ DeleteNAD(k)
      BY <2>1, <2>5, SweepDeleteKeeps
    <3>2. nads[k] = "managed"
      BY <2>1, <3>1 DEF NADsKnown
    <3> QED
      BY <1>1, <2>1, <3>1, <3>2, DeletedNAD
  <2>6. ASSUME NEW m \in Machines, PreDeleteNAD(m) \/ FinDeleteNAD(m)
        PROVE  rec[m].nad = n /\ rec[m].step # rec'[m].step
    <3>1. rec[m].nad \in NADs /\ rec'[m].step # rec[m].step
      BY <2>1, <2>6, PreKeeps, FinKeeps
    <3>2. DeleteNAD(rec[m].nad)
      BY <2>6 DEF PreDeleteNAD, FinDeleteNAD
    <3> QED
      BY <1>1, <2>1, <3>1, <3>2, DeletedNAD
  <2> QED
    BY <1>1, <2>2, <2>3, <2>4, <2>5, <2>6
<1>2. SerialInvariant /\ [Next]_vars => [WithUser]_vars
  BY <1>1
<1> QED
  BY <1>2, SerialInvariantHolds, PTL DEF Spec, ForeignNADGoesWithItsUser
==============================
