------------------------ MODULE MachineStatus_proofs ------------------------
(***************************************************************************)
(* A failure is one condition, for any bounds and addresses.               *)
(***************************************************************************)
EXTENDS MachineStatus, TLAPS

\* The failure that lasts is in a copy only if the copy shows it.
Counted(s) ==
    /\ s.conditions <= faults
    /\ fault \in {"config", "spec"} /\ s.phase # "Failed" => s.conditions < faults

Below(s) == s.conditions < faults

\* The handler's copy, while there is one.
DesiredCounted == ~At("idle") => Counted(rec.desired)

\* A reconcile that got its client began before the client was lost.
ConfigPending ==
    fault = "config" /\ rec.step \in {"ensureVM", "evaluate"} => Below(rec.desired)

\* What is wrong with the specification of a VM is met when there is none, and
\* then there is none until it is repaired.
SpecPending ==
    fault = "spec" /\ (remote.vm # "Missing" \/ At("evaluate")) =>
        /\ Below(status)
        /\ Below(cache)
        /\ ~At("idle") => Below(rec.desired)

\* The inductive invariant.
StatusInvariant ==
    /\ TypeOK
    /\ Counted(status)
    /\ Counted(cache)
    /\ DesiredCounted
    /\ ConfigPending
    /\ SpecPending

-----------------------------------------------------------------------------

USE DEF At, GoTo, Return, Write, Counted, Below, DesiredCounted, ConfigPending,
        SpecPending

\* A copy with no reconcile behind it.
LEMMA IdleTyped == NoStatus \in Status /\ Idle \in Reconcile /\ Idle.step = "idle"
<1>1. NoStatus \in Status
  BY DEF NoStatus, Status, Phases, Optional
<1>2. 0 \in 0..MaxRetries - 1
  BY ConstantsAssumption
<1> QED BY <1>1, <1>2 DEF Idle, Reconcile, Steps, Printable

\* The locals of a reconcile at a step, with or without a failed call before.
LEMMA HandlerTyped ==
    ASSUME NEW step \in Steps, NEW s \in Status, NEW b \in BOOLEAN,
           NEW r \in {[Idle EXCEPT !.step = step, !.desired = s],
                      [Idle EXCEPT !.step = step, !.desired = s, !.failed = b]}
    PROVE  r \in Reconcile /\ r.step = step /\ r.desired = s
BY IdleTyped DEF Reconcile

\* The same after the end of it.
LEMMA ReturnTyped ==
    ASSUME NEW r \in {Idle, [Idle EXCEPT !.wrote = TRUE], [Idle EXCEPT !.failed = TRUE]}
    PROVE  r \in Reconcile /\ r.step = "idle"
BY IdleTyped DEF Reconcile

\* The initial state has no conditions and no failures.
LEMMA InitStatus == Init => StatusInvariant
<1> SUFFICES ASSUME Init PROVE StatusInvariant
  OBVIOUS
<1>3. Missing \in Remote
  BY ConstantsAssumption DEF Missing, Remote, Printable, Optional
<1>4. TypeOK
  BY IdleTyped, <1>3, ConstantsAssumption DEF Init, TypeOK
<1>5. NoStatus.conditions = 0
  BY DEF NoStatus
<1> QED
  BY <1>4, <1>5, IdleTyped DEF Init, StatusInvariant

\* A new failure is counted before any copy can show it.
LEMMA BreaksKeeps == StatusInvariant /\ Breaks => StatusInvariant'
BY ConstantsAssumption
   DEF Breaks, StatusInvariant, TypeOK, Status, Reconcile, Faults

LEMMA RepairedKeeps == StatusInvariant /\ Repaired => StatusInvariant'
BY DEF Repaired, StatusInvariant, TypeOK, Faults

\* A VM that is missing is not made by the world.
LEMMA RemoteKeeps == StatusInvariant /\ RemoteChanges => StatusInvariant'
BY DEF RemoteChanges, StatusInvariant, TypeOK

LEMMA CacheKeeps == StatusInvariant /\ CacheSync => StatusInvariant'
BY DEF CacheSync, StatusInvariant, TypeOK

\* What a reconcile that is about to write makes of its copy.
LEMMA RecordCounts ==
    ASSUME StatusInvariant, NEW s \in Status, Counted(s),
           NEW reason \in {"config", "spec"}, fault = reason
    PROVE  /\ RecordFailure(s, reason) \in Status
           /\ RecordFailure(s, reason).phase = "Failed"
           /\ RecordFailure(s, reason).conditions <= faults
<1>1. s.conditions \in Nat /\ faults \in Nat
  BY DEF StatusInvariant, TypeOK, Status
<1>2. CASE s.phase = "Failed"
  BY <1>1, <1>2 DEF Status, Phases, RecordFailure
<1>3. CASE s.phase # "Failed"
  <2>1. s.conditions + 1 \in Nat /\ s.conditions + 1 <= faults
    BY <1>1, <1>3
  <2>2. RecordFailure(s, reason) =
            [s EXCEPT !.conditions = s.conditions + 1, !.phase = "Failed",
                      !.failure = reason]
    BY <1>3 DEF RecordFailure
  <2> QED BY <2>1, <2>2 DEF Status, Phases
<1> QED BY <1>2, <1>3

LEMMA StartKeeps == StatusInvariant /\ Start => StatusInvariant'
<1> SUFFICES ASSUME StatusInvariant, Start PROVE StatusInvariant'
  OBVIOUS
<1>0. cache \in Status /\ Counted(cache)
  BY DEF StatusInvariant, TypeOK
<1>1. CASE fault = "config"
  <2>1. rec' = [Idle EXCEPT !.step = "write", !.desired = RecordFailure(cache, "config")]
    BY <1>1 DEF Start
  <2>2. /\ rec'.step = "write"
        /\ rec'.desired = RecordFailure(cache, "config")
        /\ rec' \in Reconcile
    BY <2>1, <1>0, <1>1, RecordCounts, HandlerTyped DEF Steps
  <2> QED
    BY <2>2, <1>0, <1>1, RecordCounts DEF Start, StatusInvariant, TypeOK
<1>2. CASE fault # "config"
  <2>0. rec' = [Idle EXCEPT !.step = "ensureVM", !.desired = cache]
    BY <1>2 DEF Start
  <2>1. /\ rec'.step = "ensureVM"
        /\ rec'.desired = cache
        /\ rec' \in Reconcile
    BY <1>0, <2>0, IdleTyped DEF Reconcile, Steps
  <2> QED
    BY <2>1, <1>0, <1>2 DEF Start, StatusInvariant, TypeOK
<1> QED BY <1>1, <1>2

\* What the evaluation of a VM makes of the handler's copy: its conditions stay.
LEMMA EvaluationKeepsCount ==
    ASSUME StatusInvariant
    PROVE  \A s \in {Evaluated, WithDetails(Evaluated), WithErrors(Evaluated)} :
               s \in Status /\ s.conditions = rec.desired.conditions
<1>1. /\ rec.desired \in Status
      /\ remote.address \in Optional
  BY DEF StatusInvariant, TypeOK, Reconcile, Remote
<1>2. PhaseFromPrintableStatus(rec.vm) \in Phases
  BY DEF PhaseFromPrintableStatus, Phases
<1>3. Evaluated \in Status /\ Evaluated.conditions = rec.desired.conditions
  BY <1>1, <1>2 DEF Evaluated, Status, Phases
<1> QED
  BY <1>1, <1>3 DEF WithDetails, WithErrors, Status

LEMMA EnsureVMKeeps == StatusInvariant /\ EnsureVM => StatusInvariant'
<1> SUFFICES ASSUME StatusInvariant, EnsureVM PROVE StatusInvariant'
  OBVIOUS
<1>0. rec \in Reconcile /\ rec.desired \in Status /\ Counted(rec.desired)
  BY DEF StatusInvariant, TypeOK, Reconcile, EnsureVM
<1>1. CASE remote.vm # "Missing"
  <2>1. /\ rec'.step = "evaluate" /\ rec'.desired = rec.desired
        /\ rec' \in Reconcile /\ UNCHANGED remote
    BY <1>0, <1>1 DEF EnsureVM, StatusInvariant, TypeOK, Reconcile, Steps, Remote
  <2> QED
    BY <1>0, <1>1, <2>1 DEF EnsureVM, StatusInvariant, TypeOK
<1>2. CASE remote.vm = "Missing" /\ fault = "spec"
  <2>1. rec' = [Idle EXCEPT !.step = "write", !.desired = RecordFailure(rec.desired, "spec")]
        /\ UNCHANGED remote
    BY <1>2 DEF EnsureVM
  <2>2. /\ rec'.step = "write"
        /\ rec'.desired = RecordFailure(rec.desired, "spec")
        /\ rec' \in Reconcile
    BY <2>1, <1>0, <1>2, RecordCounts, HandlerTyped DEF Steps
  <2> QED
    BY <2>1, <2>2, <1>0, <1>2, RecordCounts DEF EnsureVM, StatusInvariant, TypeOK
<1>3. CASE remote.vm = "Missing" /\ fault \in {"pvc", "vm"}
  <2>1. PICK s \in {rec.desired, [rec.desired EXCEPT !.phase = "Creating"]} :
            /\ rec' = [Idle EXCEPT !.step = "write", !.desired = s]
            /\ UNCHANGED remote
    BY <1>3 DEF EnsureVM
  <2>2. s \in Status /\ s.conditions = rec.desired.conditions
    BY <1>0 DEF Status, Phases
  <2>3. /\ rec'.step = "write" /\ rec'.desired = s /\ rec' \in Reconcile
    BY <2>1, <2>2, HandlerTyped DEF Steps
  <2> QED
    BY <2>1, <2>2, <2>3, <1>0, <1>3 DEF EnsureVM, StatusInvariant, TypeOK
<1>4. CASE remote.vm = "Missing" /\ fault \in {"none", "config"}
  <2>1. /\ rec' = [rec EXCEPT !.step = "evaluate", !.vm = "Starting",
                              !.desired.phase = "Creating"]
        /\ remote' = [Missing EXCEPT !.vm = "Starting"]
    BY <1>4 DEF EnsureVM
  <2>2. [rec.desired EXCEPT !.phase = "Creating"] \in Status
    BY <1>0 DEF Status, Phases
  <2>3. /\ rec'.step = "evaluate"
        /\ rec'.desired = [rec.desired EXCEPT !.phase = "Creating"]
        /\ rec' \in Reconcile
    BY <2>1, <2>2, <1>0 DEF Reconcile, Steps, Printable
  <2>4. rec'.desired.conditions = rec.desired.conditions
    BY <2>3, <1>0 DEF Status
  <2>5. remote' \in Remote
    BY <2>1, ConstantsAssumption DEF Missing, Remote, Printable, Optional
  <2> QED
    BY <2>3, <2>4, <2>5, <1>0, <1>4 DEF EnsureVM, StatusInvariant, TypeOK
<1> QED
  BY <1>1, <1>2, <1>3, <1>4 DEF StatusInvariant, TypeOK, Faults

\* A copy that is written with the conditions the handler's copy had when the
\* VM was evaluated.
LEMMA EvaluatedWrite ==
    ASSUME StatusInvariant, At("evaluate"),
           NEW s \in {Evaluated, WithDetails(Evaluated), WithErrors(Evaluated)},
           rec'.step = "write", rec'.desired = s, rec' \in Reconcile,
           UNCHANGED <<status, cache, remote, fault, faults>>
    PROVE  StatusInvariant'
<1>1. s \in Status /\ s.conditions = rec.desired.conditions
  BY EvaluationKeepsCount
<1> QED BY <1>1 DEF StatusInvariant, TypeOK

LEMMA EvaluateKeeps == StatusInvariant /\ EvaluateState => StatusInvariant'
<1> SUFFICES ASSUME StatusInvariant, EvaluateState PROVE StatusInvariant'
  OBVIOUS
<1>1. PICK s \in {WithDetails(Evaluated), WithErrors(Evaluated)} :
          rec' = [Idle EXCEPT !.step = "write", !.desired = s]
  BY DEF EvaluateState
<1>2. s \in Status
  BY EvaluationKeepsCount
<1>3. rec'.step = "write" /\ rec'.desired = s /\ rec' \in Reconcile
  BY <1>1, <1>2, HandlerTyped DEF Steps
<1> QED BY <1>3, EvaluatedWrite DEF EvaluateState

\* The end of a reconcile, with or without a write.
LEMMA IdleKeeps ==
    ASSUME StatusInvariant, status' \in {status, rec.desired},
           status' = rec.desired => At("write") \/ rec.desired = status,
           UNCHANGED <<cache, remote, fault, faults>>,
           rec' \in Reconcile, rec'.step = "idle"
    PROVE  StatusInvariant'
BY DEF StatusInvariant, TypeOK, Reconcile

LEMMA UpdateKeeps == StatusInvariant /\ UpdateMachineStatus => StatusInvariant'
<1> SUFFICES ASSUME StatusInvariant, UpdateMachineStatus PROVE StatusInvariant'
  OBVIOUS
<1>0. rec \in Reconcile
  BY DEF StatusInvariant, TypeOK
<1>1. CASE rec' \in {Idle, [Idle EXCEPT !.wrote = TRUE]}
  <2>1. rec' \in Reconcile /\ rec'.step = "idle"
    BY <1>1, ReturnTyped
  <2>2. status' \in {status, rec.desired}
    BY DEF UpdateMachineStatus, WriteStatus
  <2> QED BY <2>1, <2>2, IdleKeeps DEF UpdateMachineStatus
<1>2. CASE /\ rec.tries < MaxRetries - 1
           /\ rec' = [rec EXCEPT !.tries = @ + 1]
           /\ UNCHANGED status
  <2>1. /\ rec' \in Reconcile
        /\ rec'.step = "write" /\ rec'.desired = rec.desired
    BY <1>0, <1>2, ConstantsAssumption DEF Reconcile, UpdateMachineStatus
  <2> QED BY <1>2, <2>1 DEF UpdateMachineStatus, StatusInvariant, TypeOK
<1> QED
  BY <1>1, <1>2 DEF UpdateMachineStatus, WriteStatus, Retry

LEMMA FailKeeps == StatusInvariant /\ ReconcileFails => StatusInvariant'
<1> SUFFICES ASSUME StatusInvariant, ReconcileFails PROVE StatusInvariant'
  OBVIOUS
<1>1. CASE rec' = [Idle EXCEPT !.failed = TRUE]
  <2>1. rec' \in Reconcile /\ rec'.step = "idle"
    BY <1>1, ReturnTyped
  <2> QED BY <2>1, IdleKeeps DEF ReconcileFails
<1>2. CASE /\ At("evaluate")
           /\ rec' = [Idle EXCEPT !.step = "write", !.desired = Evaluated,
                                  !.failed = TRUE]
  <2>1. rec'.step = "write" /\ rec'.desired = Evaluated /\ rec' \in Reconcile
    BY <1>2, EvaluationKeepsCount, HandlerTyped DEF Steps
  <2> QED BY <1>2, <2>1, EvaluatedWrite DEF ReconcileFails
<1> QED BY <1>1, <1>2 DEF ReconcileFails

LEMMA NextKeeps == StatusInvariant /\ [Next]_vars => StatusInvariant'
<1> SUFFICES ASSUME StatusInvariant, [Next]_vars PROVE StatusInvariant'
  OBVIOUS
<1>1. CASE World
  BY <1>1, BreaksKeeps, RepairedKeeps, RemoteKeeps DEF World
<1>2. CASE Progress
  BY <1>2, EnsureVMKeeps, EvaluateKeeps, UpdateKeeps DEF Progress
<1>3. CASE CacheSync \/ Start \/ ReconcileFails
  BY <1>3, CacheKeeps, StartKeeps, FailKeeps
<1>4. CASE UNCHANGED vars
  BY <1>4 DEF vars, StatusInvariant, TypeOK
<1> QED BY <1>1, <1>2, <1>3, <1>4 DEF Next

\* However old the copies are that reconciles begin with, and however often a
\* write is refused, the status has no more conditions than there were failures
\* (recordKubevirtConfigFailure, recordMachineClassError, recordNetworkFailure).
THEOREM OneConditionPerFailure == Spec => []ConditionPerFailure
<1>1. StatusInvariant => ConditionPerFailure
  BY DEF StatusInvariant, ConditionPerFailure
<1> QED BY <1>1, InitStatus, NextKeeps, PTL DEF Spec

\* Every variable keeps its type: no write is tried more often than maxRetries
\* allows (status_manager.go:97).
THEOREM StatusTypeCorrect == Spec => []TypeOK
<1>1. StatusInvariant => TypeOK
  BY DEF StatusInvariant
<1> QED BY <1>1, InitStatus, NextKeeps, PTL DEF Spec
=============================================================================
