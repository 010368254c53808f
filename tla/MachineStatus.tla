--------------------------- MODULE MachineStatus ---------------------------
(***************************************************************************)
(* The status of a Machine: internal/machine/status, internal/machine/     *)
(* events, and the functions that record failures in vm/resources.go and   *)
(* controllers/v1alpha1/machine_controller.go.                             *)
(*                                                                         *)
(* Every reconcile takes the status of a cached Machine, changes some of   *)
(* its fields after what it meets, and writes the whole status over the    *)
(* latest one, unless they are equal.                                      *)
(*                                                                         *)
(* One live Machine: its reconciles are the only writers of its status.    *)
(* An annotation written on the way refreshes the copy, which then is what *)
(* a reconcile begun later has.  A failure of the MachineClass or network  *)
(* is written a second time by the caller, to no effect.                   *)
(***************************************************************************)
EXTENDS Naturals

CONSTANTS
    MaxRetries,    \* tries of a status write: 3
    Addresses,     \* IP addresses a guest may have
    NoAddress,
    MaxFaults      \* bound: how often something breaks

ASSUME ConstantsAssumption ==
    /\ MaxRetries \in Nat \ {0}
    /\ NoAddress \notin Addresses
    /\ MaxFaults \in Nat

VARIABLES
    status,   \* the status on the API server
    cache,    \* the same in the informer cache
    remote,   \* the VM, its VMI and its events in the remote cluster
    fault,    \* what makes reconciles fail now
    faults,   \* history: how often something broke
    rec       \* the call the reconcile makes next, and its locals

vars == <<status, cache, remote, fault, faults, rec>>

Optional == Addresses \cup {NoAddress}

Phases == {"", "Creating", "Pending", "Running", "Succeeded", "Failed"}

Printable == {"Missing", "Starting", "Running", "Stopped", "CrashLoopBackOff"}

\* config: no client for the Machine; spec: MachineClass or network; pvc: its
\* volumes; vm: the VM itself.
Faults == {"config", "spec", "pvc", "vm"}

\* failure is failureReason (events: VMError or VMIError), conditions their
\* number.
Status == [phase : Phases, conditions : Nat, address : Optional,
           failure : {"none", "config", "spec", "events"}]

\* What KubeVirt shows: a VM whose VMI runs has addresses; otherwise there may be
\* error events, old ones too: of the VMI, or of the VM if it has no VMI.
Remote ==
    {r \in [vm : Printable, events : {"none", "vm", "vmi"}, address : Optional] :
        /\ r.address # NoAddress <=> r.vm = "Running"
        /\ r.events # "none" => r.vm \notin {"Missing", "Running"}}

Missing == [vm |-> "Missing", events |-> "none", address |-> NoAddress]

Steps == {"idle", "ensureVM", "evaluate", "write"}

\* desired is machine.Status of the handler's copy, vm what it read of the VM;
\* history: the last reconcile wrote the status, a call of it failed.
Reconcile == [step : Steps, desired : Status, vm : Printable,
              tries : 0..MaxRetries - 1, wrote : BOOLEAN, failed : BOOLEAN]

NoStatus == [phase |-> "", conditions |-> 0, address |-> NoAddress, failure |-> "none"]

Idle == [step |-> "idle", desired |-> NoStatus, vm |-> "Missing", tries |-> 0,
         wrote |-> FALSE, failed |-> FALSE]

\* With it: no more tries than MaxRetries.
TypeOK ==
    /\ status \in Status
    /\ cache \in Status
    /\ remote \in Remote
    /\ fault \in Faults \cup {"none"}
    /\ faults \in 0..MaxFaults
    /\ rec \in Reconcile

Init ==
    /\ status = NoStatus
    /\ cache = NoStatus
    /\ remote = Missing
    /\ fault = "none"
    /\ faults = 0
    /\ rec = Idle

-----------------------------------------------------------------------------
(* The world                                                               *)

\* A VM starts, runs, gets another address, stops, crashes, is deleted.
RemoteChanges ==
    /\ remote.vm # "Missing"
    /\ remote' \in Remote \ {remote}
    /\ UNCHANGED <<status, cache, fault, faults, rec>>

Breaks ==
    /\ fault = "none"
    /\ faults < MaxFaults
    /\ fault' \in Faults
    /\ faults' = faults + 1
    /\ UNCHANGED <<status, cache, remote, rec>>

Repaired ==
    /\ fault # "none"
    /\ fault' = "none"
    /\ UNCHANGED <<status, cache, remote, faults, rec>>

CacheSync ==
    /\ cache # status
    /\ cache' = status
    /\ UNCHANGED <<status, remote, fault, faults, rec>>

-----------------------------------------------------------------------------
(* The reconcile                                                           *)

At(step) == rec.step = step
GoTo(step) == rec' = [rec EXCEPT !.step = step]
Return == rec' = Idle

\* Mutant: a condition for every try.
RecordEveryFailure(s, reason) ==
    [s EXCEPT !.conditions = @ + 1, !.phase = "Failed", !.failure = reason]

\* Mutant: what failed before is left as it is.
RecordFirstFailure(s, reason) ==
    IF s.phase = "Failed" THEN s
    ELSE [s EXCEPT !.conditions = @ + 1, !.phase = "Failed", !.failure = reason]

\* recordKubevirtConfigFailure, recordMachineClassError, recordNetworkFailure
RecordFailure(s, reason) ==
    [s EXCEPT !.conditions = IF s.phase # "Failed" THEN @ + 1 ELSE @,
              !.phase = "Failed", !.failure = reason]

Write(desired) == rec' = [Idle EXCEPT !.step = "write", !.desired = desired]

\* The read of the Machine and GetOrCreateClientFromMachine.
Start ==
    /\ At("idle")
    /\ IF fault = "config" THEN Write(RecordFailure(cache, "config"))
       ELSE rec' = [Idle EXCEPT !.step = "ensureVM", !.desired = cache]
    /\ UNCHANGED <<status, cache, remote, fault, faults>>

\* ensureVirtualMachine: the state "Failed" that it hands to the status
\* manager for a PVC or a VM is not used there.
EnsureVM ==
    /\ At("ensureVM")
    /\ \/ /\ remote.vm # "Missing"
          /\ rec' = [rec EXCEPT !.step = "evaluate", !.vm = remote.vm]
          /\ UNCHANGED remote
       \/ /\ remote.vm = "Missing"
          /\ CASE fault = "spec" -> Write(RecordFailure(rec.desired, "spec"))
               [] fault = "pvc"  -> Write(rec.desired)
               [] fault = "vm"   -> Write([rec.desired EXCEPT !.phase = "Creating"])
               [] OTHER -> rec' = [rec EXCEPT !.step = "evaluate", !.vm = "Starting",
                                              !.desired.phase = "Creating"]
          /\ remote' = IF fault \in {"spec", "pvc", "vm"} THEN remote
                       ELSE [Missing EXCEPT !.vm = "Starting"]
    /\ UNCHANGED <<status, cache, fault, faults>>

PhaseFromPrintableStatus(vm) ==
    CASE vm = "Running"          -> "Running"
      [] vm = "Stopped"          -> "Succeeded"
      [] vm = "CrashLoopBackOff" -> "Failed"
      [] OTHER                   -> "Pending"

\* Mutant: the error events are looked at only when the VM has failed.
WithErrorsOfFailed(s) ==
    IF remote.events # "none" /\ rec.vm = "CrashLoopBackOff"
    THEN [s EXCEPT !.failure = "events"] ELSE s

\* checkVMIErrorsAndUpdateStatus, unless the VMI has ended, and
\* checkVMErrorsAndUpdateStatus, unless the VM was ready; the phase that they set
\* is overwritten by their caller.
WithErrors(s) ==
    IF \/ remote.events = "vmi" /\ remote.vm # "Stopped"
       \/ remote.events = "vm" /\ rec.vm # "Running"
    THEN [s EXCEPT !.failure = "events"] ELSE s

\* What evaluateState makes of the VM and of the VMI, which is read after it.
Evaluated ==
    IF remote.vm = "Running" THEN [rec.desired EXCEPT !.phase = "Running"]
    ELSE [rec.desired EXCEPT !.phase = PhaseFromPrintableStatus(rec.vm)]

\* Mutant: an error of the Pod list is logged and nothing else is done.
WithoutDetails(s) == s

\* updateStatusFromPodVMVMIStatus, of a VMI that runs.
WithDetails(s) == [s EXCEPT !.address = remote.address]

\* getVMI and UpdateMachineStatusFromVMAndVMI up to the write.
EvaluateState ==
    /\ At("evaluate")
    /\ Write(IF remote.vm = "Running" THEN WithDetails(Evaluated)
             ELSE WithErrors(Evaluated))
    /\ UNCHANGED <<status, cache, remote, fault, faults>>

Retry ==
    IF rec.tries < MaxRetries - 1 THEN rec' = [rec EXCEPT !.tries = @ + 1]
    ELSE Return

\* The API server refuses a status written over a copy that is not the last.
WriteStatus ==
    IF cache = status
    THEN status' = rec.desired /\ rec' = [Idle EXCEPT !.wrote = TRUE]
    ELSE UNCHANGED status /\ Retry

\* Mutant: no comparison with the latest copy.
UpdateAlways ==
    /\ At("write")
    /\ WriteStatus
    /\ UNCHANGED <<cache, remote, fault, faults>>

\* One try of UpdateMachineStatusWithDetails: the whole status of the
\* handler's copy over the latest one, which is the one in the cache.
UpdateMachineStatus ==
    /\ At("write")
    /\ IF cache = rec.desired THEN Return /\ UNCHANGED status ELSE WriteStatus
    /\ UNCHANGED <<cache, remote, fault, faults>>

\* Any call may fail, or have to wait, or the process ends: the reconcile is
\* queued again.  If the lists of Pods or events fail, or there is no Pod, it
\* goes on without the details.
ReconcileFails ==
    /\ ~At("idle")
    /\ \/ rec' = [Idle EXCEPT !.failed = TRUE]
       \/ /\ At("evaluate")
          /\ rec' = [Idle EXCEPT !.step = "write", !.desired = Evaluated,
                                 !.failed = TRUE]
    /\ UNCHANGED <<status, cache, remote, fault, faults>>

-----------------------------------------------------------------------------
(* The specification                                                       *)

World == RemoteChanges \/ Breaks \/ Repaired

Progress ==
    \/ EnsureVM
    \/ EvaluateState
    \/ UpdateMachineStatus

Next == World \/ CacheSync \/ Start \/ Progress \/ ReconcileFails

Spec == Init /\ [][Next]_vars

\* Machines are queued again, informers go on, every call returns; calls that
\* are tried again do not fail for ever.
Fairness ==
    /\ WF_vars(CacheSync)
    /\ WF_vars(Start)
    /\ WF_vars(Progress)
    /\ <>[]~rec.failed

FairSpec == Spec /\ Fairness

-----------------------------------------------------------------------------
(* Properties                                                              *)

\* A failure that lasts is one condition, however often it is met, whatever
\* else is shown meanwhile and however old the copies are (the guard at
\* machine_controller.go:258, resources.go:89 and :113).
ConditionPerFailure == status.conditions <= faults

\* A Machine whose VM runs is shown running, at the address it has, whatever
\* failed before.
RunningIsReported ==
    \A a \in Addresses :
        <>[](fault = "none" /\ remote.vm = "Running" /\ remote.address = a) =>
            <>[](status.phase = "Running" /\ status.address = a)

\* "Invalid kubevirt-config -> Machine marked as Failed"
\* (docs/multi-cluster-architecture.md:462).
ConfigFailureIsReported ==
    <>[](fault = "config") =>
        <>[](status.phase = "Failed" /\ status.failure = "config")

\* The error events of a VM that does not start get into the status.
ErrorEventsAreReported ==
    <>[](fault # "config" /\ remote.vm = "Starting" /\ remote.events # "none") =>
        []<>(status.failure = "events")

\* When nothing changes and reconciles no longer begin with an old copy, the
\* status is not written any more ("produces a watch event for every Machine
\* watcher", status_manager.go:87), whatever old copies wrote before.
StatusSettles ==
    /\ <>[][FALSE]_<<remote, fault>>
    /\ <>[][Start => cache = status]_vars
    => <>[]~rec.wrote
=============================================================================
