------------------------------- MODULE BootISO -------------------------------
(***************************************************************************)
(* Boot ISOs: internal/machine/vm/shared_iso.go and cdrom_manager.go with  *)
(* the parts of controllers/v1alpha1/machine_controller.go that call them. *)
(*                                                                         *)
(* With SHARED_BOOT_ISO all VMs of an image attach one imported            *)
(* DataVolume; a VM is created only when it is imported, and deletions     *)
(* collect the volumes no VM or VMI refers to.  Without it KubeVirt makes  *)
(* a volume for each VM from a template in its spec, and the operator      *)
(* deletes it once the guest is installed.  Either way it then detaches    *)
(* the CD-ROM from the VM's spec; a running VMI keeps it until it stops.   *)
(*                                                                         *)
(* One remote cluster, one namespace, Machines that boot from an ISO.  A   *)
(* DataVolume stands for its PVC too.                                      *)
(***************************************************************************)
EXTENDS Naturals, FiniteSets

CONSTANTS
    Machines,
    ISOs,                     \* SharedISOResourceName of the images
    None,
    MaxConcurrentReconciles

ASSUME ConstantsAssumption ==
    /\ IsFiniteSet(Machines)
    /\ Machines \cap ISOs = {}
    /\ None \notin Machines \cup ISOs
    /\ MaxConcurrentReconciles \in Nat \ {0}

VARIABLES
    machine,   \* Machine -> the Machine on the supervisor's API server
    cache,     \* Machine -> the copy in the informer cache
    dvs,       \* volume -> "none", "importing" or "ready" (Succeeded)
    vms,       \* Machine -> its VM and the volume of the CD-ROM in its spec
    vmis,      \* Machine -> its VMI and the volume it has attached
    rec,       \* Machine -> the call its reconcile makes next, and its locals
    shared,    \* the setting SHARED_BOOT_ISO
    swallowed  \* history: an error of the GC was logged and ignored

vars == <<machine, cache, dvs, vms, vmis, rec, shared, swallowed>>

\* A VM's own volume, <vmName>-iso, goes by the name of its Machine.
Volumes == ISOs \cup Machines
OptionalVolume == Volumes \cup {None}

\* installed: os-installed or cdrom-ejected; cleaned: iso-cleaned-up.
MachineObject == [phase : {"absent", "live", "deleting"},
                  image : ISOs \cup {None},
                  installed : BOOLEAN, cleaned : BOOLEAN]

Absent == [phase |-> "absent", image |-> None,
           installed |-> FALSE, cleaned |-> FALSE]

VirtualMachine == [state : {"none", "up", "dying"}, cdrom : OptionalVolume]
NoVM == [state |-> "none", cdrom |-> None]

\* agent: the guest agent is connected.
Instance == [state : {"none", "running", "agent"}, cdrom : OptionalVolume]
NoVMI == [state |-> "none", cdrom |-> None]

CleanupSteps == {"strip", "deleteDV", "markCleaned"}
CreationSteps ==
    {"getVM", "ensureISO", "createDV", "createVM", "getVMI"} \cup CleanupSteps
GCSteps == {"gcDVs", "gcVMs", "gcVMIs", "gcDelete"}
DeletionSteps == {"deleteVM", "checkVM", "removeFinalizer"} \cup GCSteps

\* obj is the copy the handler holds, hasCD whether the VM it read has the
\* CD-ROM, left the volumes the GC has not found a reference to.
Reconcile == [step : {"idle"} \cup CreationSteps \cup DeletionSteps,
              obj : MachineObject, hasCD : BOOLEAN, left : SUBSET ISOs]

Idle == [step |-> "idle", obj |-> Absent, hasCD |-> FALSE, left |-> {}]

\* With it: a VM refers to a shared volume or to its own, never to one of
\* the other kind, and a deletion knows of no volume outside its GC.
TypeOK ==
    /\ machine \in [Machines -> MachineObject]
    /\ cache \in [Machines -> MachineObject]
    /\ dvs \in [Volumes -> {"none", "importing", "ready"}]
    /\ vms \in [Machines -> VirtualMachine]
    /\ vmis \in [Machines -> Instance]
    /\ rec \in [Machines -> Reconcile]
    /\ shared \in BOOLEAN
    /\ swallowed \in BOOLEAN
    /\ \A m \in Machines :
          /\ {vms[m].cdrom, vmis[m].cdrom}
                \subseteq {None} \cup (IF shared THEN ISOs ELSE {m})
          /\ rec[m].step \notin GCSteps => rec[m].left = {}

Init ==
    /\ machine = [m \in Machines |-> Absent]
    /\ cache = machine
    /\ dvs = [v \in Volumes |-> "none"]
    /\ vms = [m \in Machines |-> NoVM]
    /\ vmis = [m \in Machines |-> NoVMI]
    /\ rec = [m \in Machines |-> Idle]
    /\ shared \in BOOLEAN
    /\ swallowed = FALSE

-----------------------------------------------------------------------------
(* Users and other operators, informer, crashes                            *)

\* A Machine is created and gets its finalizer, for which the operator needs
\* a copy of it: the copies of an earlier Machine of that name are gone.
UserCreates(m) ==
    /\ machine[m].phase = "absent"
    /\ cache[m].phase = "absent"
    /\ \E i \in ISOs : machine' = [machine EXCEPT
          ![m] = [Absent EXCEPT !.phase = "live", !.image = i]]
    /\ UNCHANGED <<cache, dvs, vms, vmis, rec, shared, swallowed>>

UserDeletes(m) ==
    /\ machine[m].phase = "live"
    /\ machine' = [machine EXCEPT ![m].phase = "deleting"]
    /\ UNCHANGED <<cache, dvs, vms, vmis, rec, shared, swallowed>>

\* A user or an operator of the guest OS sets one of the two annotations.
MarkedInstalled(m) ==
    /\ machine[m].phase = "live"
    /\ ~machine[m].installed
    /\ machine' = [machine EXCEPT ![m].installed = TRUE]
    /\ UNCHANGED <<cache, dvs, vms, vmis, rec, shared, swallowed>>

CacheSync(m) ==
    /\ cache[m] # machine[m]
    /\ cache' = [cache EXCEPT ![m] = machine[m]]
    /\ UNCHANGED <<machine, dvs, vms, vmis, rec, shared, swallowed>>

Crash ==
    /\ rec' = [m \in Machines |-> Idle]
    /\ cache' = machine
    /\ UNCHANGED <<machine, dvs, vms, vmis, shared, swallowed>>

-----------------------------------------------------------------------------
(* The remote cluster                                                      *)

\* Somebody deletes the VM there; the operator will make it again.
VMDeletedRemotely(m) ==
    /\ vms[m].state = "up"
    /\ vms' = [vms EXCEPT ![m].state = "dying"]
    /\ UNCHANGED <<machine, cache, dvs, vmis, rec, shared, swallowed>>

\* A VM goes after its VMI, and takes the volume it owns with it.
VMGone(m) ==
    /\ vms[m].state = "dying"
    /\ vmis[m] = NoVMI
    /\ vms' = [vms EXCEPT ![m] = NoVM]
    /\ dvs' = [dvs EXCEPT ![m] = "none"]
    /\ UNCHANGED <<machine, cache, vmis, rec, shared, swallowed>>

\* KubeVirt makes the volume of the template in the VM's spec.
VolumeFromTemplate(m) ==
    /\ vms[m] = [state |-> "up", cdrom |-> m]
    /\ dvs[m] = "none"
    /\ dvs' = [dvs EXCEPT ![m] = "importing"]
    /\ UNCHANGED <<machine, cache, vms, vmis, rec, shared, swallowed>>

ImportSucceeds(v) ==
    /\ dvs[v] = "importing"
    /\ dvs' = [dvs EXCEPT ![v] = "ready"]
    /\ UNCHANGED <<machine, cache, vms, vmis, rec, shared, swallowed>>

\* A VMI is started from the spec, for a template after its import.
VMIStarts(m) ==
    /\ vms[m].state = "up"
    /\ vmis[m].state = "none"
    /\ vms[m].cdrom = m => dvs[m] = "ready"
    /\ vmis' = [vmis EXCEPT
          ![m] = [state |-> "running", cdrom |-> vms[m].cdrom]]
    /\ UNCHANGED <<machine, cache, dvs, vms, rec, shared, swallowed>>

AgentConnects(m) ==
    /\ vmis[m].state = "running"
    /\ vmis' = [vmis EXCEPT ![m].state = "agent"]
    /\ UNCHANGED <<machine, cache, dvs, vms, rec, shared, swallowed>>

\* A restart, or the end.
VMIStops(m) ==
    /\ vmis[m].state # "none"
    /\ vmis' = [vmis EXCEPT ![m] = NoVMI]
    /\ UNCHANGED <<machine, cache, dvs, vms, rec, shared, swallowed>>

-----------------------------------------------------------------------------
(* The reconcile                                                           *)

Active == {m \in Machines : rec[m].step # "idle"}

At(m, step) == rec[m].step = step
GoTo(m, step) == rec' = [rec EXCEPT ![m].step = step]
Return(m) == rec' = [rec EXCEPT ![m] = Idle]

Start(m) ==
    /\ At(m, "idle")
    /\ Cardinality(Active) < MaxConcurrentReconciles
    /\ cache[m].phase # "absent"
    /\ rec' = [rec EXCEPT ![m] =
          [Idle EXCEPT !.obj = cache[m],
                       !.step = IF cache[m].phase = "live"
                                THEN "getVM" ELSE "deleteVM"]]
    /\ UNCHANGED <<machine, cache, dvs, vms, vmis, shared, swallowed>>

(* ensureVirtualMachine                                                    *)

GetVM(m) ==
    /\ At(m, "getVM")
    /\ rec' = [rec EXCEPT
          ![m].hasCD = vms[m].cdrom # None,
          ![m].step = IF vms[m].state # "none" THEN "getVMI"
                      ELSE IF shared THEN "ensureISO" ELSE "createVM"]
    /\ UNCHANGED <<machine, cache, dvs, vms, vmis, shared, swallowed>>

\* EnsureSharedISODataVolume; the Machine waits for the import.
EnsureSharedISO(m) ==
    /\ At(m, "ensureISO")
    /\ LET dv == dvs[rec[m].obj.image] IN
       IF dv = "importing" THEN Return(m)
       ELSE GoTo(m, IF dv = "none" THEN "createDV" ELSE "createVM")
    /\ UNCHANGED <<machine, cache, dvs, vms, vmis, shared, swallowed>>

\* AlreadyExists is success; a new volume is never ready.
CreateSharedISO(m) ==
    /\ At(m, "createDV")
    /\ dvs' = [dvs EXCEPT
          ![rec[m].obj.image] = IF @ = "none" THEN "importing" ELSE @]
    /\ Return(m)
    /\ UNCHANGED <<machine, cache, vms, vmis, shared, swallowed>>

\* Mutant: the CD-ROM is the VM's own volume in either mode.
CreateVMWithOwnISO(m) ==
    /\ At(m, "createVM")
    /\ vms[m].state = "none"
    /\ vms' = [vms EXCEPT ![m] = [state |-> "up", cdrom |-> m]]
    /\ rec' = [rec EXCEPT ![m].hasCD = TRUE, ![m].step = "getVMI"]
    /\ UNCHANGED <<machine, cache, dvs, vmis, shared, swallowed>>

\* addISOBootSource: the shared volume or the VM's own.
CreateVM(m) ==
    /\ At(m, "createVM")
    /\ vms[m].state = "none"
    /\ vms' = [vms EXCEPT ![m] =
          [state |-> "up", cdrom |-> IF shared THEN rec[m].obj.image ELSE m]]
    /\ rec' = [rec EXCEPT ![m].hasCD = TRUE, ![m].step = "getVMI"]
    /\ UNCHANGED <<machine, cache, dvs, vmis, shared, swallowed>>

(* handleISOCleanup                                                        *)

\* The cleanup is due, or was done and the CD-ROM is there all the same.
ShouldCleanupISO(m) ==
    /\ rec[m].obj.installed
    /\ vmis[m].state = "agent"
    /\ rec[m].obj.cleaned => rec[m].hasCD

\* Mutant: once done, the cleanup is never done again.
GetVMICleansOnce(m) ==
    /\ At(m, "getVMI")
    /\ IF ShouldCleanupISO(m) /\ ~rec[m].obj.cleaned
       THEN GoTo(m, "strip") ELSE Return(m)
    /\ UNCHANGED <<machine, cache, dvs, vms, vmis, shared, swallowed>>

\* Mutant: the volume is deleted before the CD-ROM is detached.
GetVMIDeletesFirst(m) ==
    /\ At(m, "getVMI")
    /\ IF ShouldCleanupISO(m) THEN GoTo(m, "deleteDV") ELSE Return(m)
    /\ UNCHANGED <<machine, cache, dvs, vms, vmis, shared, swallowed>>

GetVMI(m) ==
    /\ At(m, "getVMI")
    /\ IF ShouldCleanupISO(m) THEN GoTo(m, "strip") ELSE Return(m)
    /\ UNCHANGED <<machine, cache, dvs, vms, vmis, shared, swallowed>>

\* removeCDROMFromVMSpec; a shared volume is kept.
RemoveCDROM(m) ==
    /\ At(m, "strip")
    /\ vms' = [vms EXCEPT ![m].cdrom = None]
    /\ GoTo(m, IF shared THEN "markCleaned" ELSE "deleteDV")
    /\ UNCHANGED <<machine, cache, dvs, vmis, shared, swallowed>>

\* The deletes of the DataVolume and of the PVC it owns: the first takes both.  If
\* the second fails, the handler returns before it has noted anything, as it does
\* if the note fails.
DeleteISO(m) ==
    /\ At(m, "deleteDV")
    /\ dvs' = [dvs EXCEPT ![m] = "none"]
    /\ GoTo(m, "markCleaned")
    /\ UNCHANGED <<machine, cache, vms, vmis, shared, swallowed>>

\* An Update of the handler's own copy.
MarkCleaned(m) ==
    /\ At(m, "markCleaned")
    /\ machine[m] = rec[m].obj
    /\ machine' = [machine EXCEPT ![m].cleaned = TRUE]
    /\ Return(m)
    /\ UNCHANGED <<cache, dvs, vms, vmis, shared, swallowed>>

(* Deletion                                                                *)

DeleteVM(m) ==
    /\ At(m, "deleteVM")
    /\ vms' = [vms EXCEPT ![m].state = IF @ = "up" THEN "dying" ELSE @]
    /\ GoTo(m, "checkVM")
    /\ UNCHANGED <<machine, cache, dvs, vmis, shared, swallowed>>

\* Mutant: the volumes are not collected when the VM is found gone at once.
CheckVMOnly(m) ==
    /\ At(m, "checkVM")
    /\ IF vms[m].state # "none" THEN Return(m) ELSE GoTo(m, "removeFinalizer")
    /\ UNCHANGED <<machine, cache, dvs, vms, vmis, shared, swallowed>>

CheckVM(m) ==
    /\ At(m, "checkVM")
    /\ IF vms[m].state # "none" THEN Return(m)
       ELSE GoTo(m, IF shared THEN "gcDVs" ELSE "removeFinalizer")
    /\ UNCHANGED <<machine, cache, dvs, vms, vmis, shared, swallowed>>

\* GCOrphanedSharedISOs: the sweep goes on with left, if there is any.
GCOn(m, left, step) ==
    rec' = [rec EXCEPT ![m].left = left,
                       ![m].step = IF left = {} THEN "removeFinalizer" ELSE step]

GCListDataVolumes(m) ==
    /\ At(m, "gcDVs")
    /\ GCOn(m, {v \in ISOs : dvs[v] # "none"}, "gcVMs")
    /\ UNCHANGED <<machine, cache, dvs, vms, vmis, shared, swallowed>>

\* A VM counts as long as it exists.
GCListVMs(m) ==
    /\ At(m, "gcVMs")
    /\ GCOn(m, rec[m].left \ {vms[o].cdrom : o \in Machines}, "gcVMIs")
    /\ UNCHANGED <<machine, cache, dvs, vms, vmis, shared, swallowed>>

\* Mutant: "VM templates alone".
GCWithoutVMIs(m) ==
    /\ At(m, "gcVMIs")
    /\ GCOn(m, rec[m].left, "gcDelete")
    /\ UNCHANGED <<machine, cache, dvs, vms, vmis, shared, swallowed>>

GCListVMIs(m) ==
    /\ At(m, "gcVMIs")
    /\ GCOn(m, rec[m].left \ {vmis[o].cdrom : o \in Machines}, "gcDelete")
    /\ UNCHANGED <<machine, cache, dvs, vms, vmis, shared, swallowed>>

GCDelete(m) ==
    /\ At(m, "gcDelete")
    /\ \E v \in rec[m].left :
          /\ dvs' = [dvs EXCEPT ![v] = "none"]
          /\ GCOn(m, rec[m].left \ {v}, "gcDelete")
    /\ UNCHANGED <<machine, cache, vms, vmis, shared, swallowed>>

\* An error of a listing ends the sweep, one of a Delete does not.
GCError(m) ==
    /\ \/ /\ rec[m].step \in GCSteps \ {"gcDelete"}
          /\ GCOn(m, {}, "removeFinalizer")
       \/ /\ At(m, "gcDelete")
          /\ \E v \in rec[m].left : GCOn(m, rec[m].left \ {v}, "gcDelete")
    /\ swallowed' = TRUE
    /\ UNCHANGED <<machine, cache, dvs, vms, vmis, shared>>

\* The finalizer goes from the latest cached copy; if that is a new, live
\* Machine of the name, its next reconcile puts the finalizer back.
RemoveMachineFinalizer(m) ==
    /\ At(m, "removeFinalizer")
    /\ IF cache[m].phase = "deleting"
       THEN /\ machine[m] = cache[m]
            /\ machine' = [machine EXCEPT ![m] = Absent]
       ELSE UNCHANGED machine
    /\ Return(m)
    /\ UNCHANGED <<cache, dvs, vms, vmis, shared, swallowed>>

\* Any other call may fail; the cleanup's errors are logged and end it.
ReconcileFails(m) ==
    /\ rec[m].step \in CreationSteps \cup (DeletionSteps \ GCSteps)
    /\ Return(m)
    /\ UNCHANGED <<machine, cache, dvs, vms, vmis, shared, swallowed>>

-----------------------------------------------------------------------------
(* The specification                                                       *)

RemoteCluster ==
    \/ \E m \in Machines :
          \/ VMDeletedRemotely(m)
          \/ VMGone(m)
          \/ VolumeFromTemplate(m)
          \/ VMIStarts(m)
          \/ AgentConnects(m)
          \/ VMIStops(m)
    \/ \E v \in Volumes : ImportSucceeds(v)

Supervisor ==
    \/ \E m \in Machines :
          \/ UserCreates(m)
          \/ UserDeletes(m)
          \/ MarkedInstalled(m)
          \/ CacheSync(m)
    \/ Crash

Creation(m) ==
    \/ GetVM(m)
    \/ EnsureSharedISO(m)
    \/ CreateSharedISO(m)
    \/ CreateVM(m)
    \/ GetVMI(m)
    \/ RemoveCDROM(m)
    \/ DeleteISO(m)
    \/ MarkCleaned(m)

Deletion(m) ==
    \/ DeleteVM(m)
    \/ CheckVM(m)
    \/ GCListDataVolumes(m)
    \/ GCListVMs(m)
    \/ GCListVMIs(m)
    \/ GCDelete(m)
    \/ GCError(m)
    \/ RemoveMachineFinalizer(m)

Next ==
    \/ Supervisor
    \/ RemoteCluster
    \/ \E m \in Machines :
          \/ Start(m)
          \/ Creation(m)
          \/ Deletion(m)
          \/ ReconcileFails(m)

Spec == Init /\ [][Next]_vars

\* Machines are queued again, calls return and do not fail for ever; the
\* informer, imports and KubeVirt get on.  A VM that is restarted or made
\* again and again runs at some time for long enough, with its agent
\* connected, to be met by the reconcile that comes every five seconds.
RunsInstalled(m) == vms[m].state = "up" /\ vmis[m].state = "agent"

Fairness ==
    /\ \A v \in ISOs : WF_vars(ImportSucceeds(v))
    /\ \A m \in Machines :
        /\ WF_vars(CacheSync(m))
        /\ SF_vars(VolumeFromTemplate(m))
        /\ SF_vars(ImportSucceeds(m) /\ vms[m].state = "up")
        /\ WF_vars(VMGone(m))
        /\ WF_vars(VMIStops(m) /\ vms[m].state = "dying")
        /\ WF_vars(Creation(m) \/ Deletion(m) \/ ReconcileFails(m))
        /\ SF_vars(Start(m))
        /\ SF_vars(GetVM(m))
        /\ SF_vars(EnsureSharedISO(m) /\ dvs[rec[m].obj.image] # "importing")
        /\ SF_vars(CreateSharedISO(m) \/ CreateVM(m))
        /\ SF_vars(VMIStarts(m))
        /\ SF_vars(AgentConnects(m) /\ vms[m].state = "up")
        /\ SF_vars(Start(m) /\ RunsInstalled(m))
        /\ SF_vars(GetVM(m) /\ RunsInstalled(m))
        /\ SF_vars(GetVMI(m) /\ RunsInstalled(m))
        /\ SF_vars(RemoveCDROM(m) /\ vms[m].state = "up")
        /\ SF_vars(DeleteISO(m))

FairSpec == Spec /\ Fairness

-----------------------------------------------------------------------------
(* Properties                                                              *)

\* A shared volume that a VM's spec or a VMI refers to exists and is
\* imported: "VMs must not be created referencing the shared PVC until
\* import is ready" (shared_iso.go:209), and the GC leaves it alone for as
\* long as a VMI has it attached after the spec dropped it (:377-381).
AttachedISOIsImported ==
    \A m \in Machines : \A v \in ISOs :
        v \in {vms[m].cdrom, vmis[m].cdrom} => dvs[v] = "ready"

\* When the last Machine is gone, so is every shared volume, those imported
\* for VMs never created included, if no error of the GC was swallowed: the last
\* deletion sees that nothing refers to it (shared_iso.go:336-344).
NoISOLeftBehind ==
    ~swallowed /\ (\A m \in Machines : machine[m].phase = "absent") =>
        \A v \in ISOs : dvs[v] = "none"

\* A volume is deleted only when no VM's spec names it any more, or KubeVirt
\* would make it anew or fail to restart the VM (cdrom_manager.go:126-129).
DeletedISOIsDetached ==
    [][\A v \in Volumes : dvs[v] # "none" /\ dvs'[v] = "none" =>
          \A m \in Machines : vms[m].state = "up" => vms[m].cdrom # v]_vars

\* After the installation the CD-ROM is detached in the end, from a VM made
\* again after a first cleanup too (cdrom_manager.go:88-91).
InstalledISOIsDetached ==
    \A m \in Machines :
        machine[m].phase = "live" /\ machine[m].installed
            ~> \/ vms[m] = [state |-> "up", cdrom |-> None]
               \/ machine[m].phase # "live"
=============================================================================
