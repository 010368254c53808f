------------------------- MODULE MachineReconciler -------------------------
(***************************************************************************)
(* The Machine controller (controllers/v1alpha1/machine_controller.go)     *)
(* with the client selection of pkg/clients/kubevirt_client_manager.go and *)
(* the remote calls of the storage and VM managers.                        *)
(*                                                                         *)
(* A Machine lives in the supervisor cluster; its VirtualMachine and its   *)
(* PersistentVolumeClaims live in the remote cluster its KubevirtConfig    *)
(* names.  controller-runtime runs at most MaxConcurrentReconciles         *)
(* reconciles, never two of the same Machine, so a reconcile is identified *)
(* with its Machine.  Every API call is a step of its own: between two     *)
(* calls the other reconciles, the users, the informer cache and KubeVirt  *)
(* run, and the operator may crash.                                        *)
(*                                                                         *)
(* A KubevirtConfig is identified with the cluster its kubeconfig reaches. *)
(* resourceVersion is not a counter: an Update carries the object it was   *)
(* computed from and succeeds only while the server still holds exactly    *)
(* that object; a conflict caused by a field this module leaves out is one *)
(* of the failures of ReconcileFails.                                      *)
(*                                                                         *)
(* A Machine has one PVC, its boot disk (each further one would be one     *)
(* more of the same).  In a slow cluster a PVC that is deleted stays,      *)
(* terminating, until nothing protects it; only then can another of its    *)
(* name be created.                                                        *)
(***************************************************************************)
EXTENDS Naturals, FiniteSets

CONSTANTS
    Machines,                \* names of Machines (one namespace)
    Clusters,                \* remote KubeVirt clusters, and their configs
    None,                    \* no kubevirt-config annotation, no default
    Supervisor,              \* the client NewManager starts with
    InitialConfigs,          \* KubevirtConfigs present at the start
    UserConfigs,             \* what users write into kubevirt-config
    DefaultConfig,           \* DEFAULT_KUBEVIRT_CONFIG, or None
    Legacy,                  \* Machines whose VM predates the annotation
    LateAnnotation,          \* may users annotate a Machine after creating it?
    SlowClusters,            \* where a deleted PVC may linger, protected
    MayMismatch,             \* Machines whose NetworkConfiguration may be refused
    MaxConcurrentReconciles  \* MAX_CONCURRENT_RECONCILES

ASSUME ConstantsAssumption ==
    /\ IsFiniteSet(Machines)
    /\ None \notin Clusters
    /\ Supervisor \notin Clusters
    /\ InitialConfigs \subseteq Clusters
    /\ UserConfigs \subseteq Clusters \cup {None}
    /\ DefaultConfig \in Clusters \cup {None}
    /\ Legacy \subseteq Machines
    /\ Legacy # {} => InitialConfigs # {} /\ DefaultConfig = None
    /\ LateAnnotation \in BOOLEAN
    /\ SlowClusters \subseteq Clusters
    /\ MayMismatch \subseteq Machines
    /\ MaxConcurrentReconciles \in Nat \ {0}

VARIABLES
    machine,      \* Machine objects on the supervisor's API server
    cache,        \* Machine objects as the manager's cached client shows them
    configs,      \* KubevirtConfigs the cached client shows
    namespaces,   \* clusters where the Machines' namespace exists
    vms,          \* vms[m]: clusters that hold a VirtualMachine named m
    dying,        \* dying[m]: those whose VirtualMachine is being deleted
    disks,        \* disks[m]: clusters that hold m's PVC, to stay
    dyingDisks,   \* dyingDisks[m]: clusters whose PVC of m is being deleted
    mismatch,     \* Machines whose NetworkConfiguration fails its validation
    remoteClient, \* VMManager.remoteClient, shared by all the reconciles
    rec,          \* rec[m]: the reconcile of m
    borrowed,     \* history: clusters where m's last creation took a PVC
                  \* that was being deleted for its own
    overwritten   \* history: Machines whose placement was overwritten

remoteVars == <<namespaces, vms, dying, disks, dyingDisks, borrowed>>
otherVars == <<mismatch, overwritten>>
vars == <<machine, cache, configs, remoteVars, otherVars, remoteClient, rec>>

-----------------------------------------------------------------------------
(* Types                                                                   *)

Object == [phase     : {"absent", "live", "deleting"},
           finalizer : BOOLEAN,
           config    : Clusters \cup {None}]

Absent == [phase |-> "absent", finalizer |-> FALSE, config |-> None]

\* The call a reconcile makes next.  Creation and deletion share the first one.
CreationSteps == {"namespace", "annotation", "getVM", "createPVCs", "createVM"}
DeletionSteps ==
    {"deletePVCs", "deleteVM", "checkVM", "cleanupNC", "removeFinalizer"}
Steps == {"idle", "addFinalizer", "client", "deletionClient"}
             \cup CreationSteps \cup DeletionSteps

\* obj is the Machine the reconcile read, client its own remoteClient
\* variable, annotate the needsAnnotationUpdate it was returned.
Reconcile == [step     : Steps,
              obj      : Object,
              client   : Clusters \cup {None},
              annotate : BOOLEAN]

Idle == [step |-> "idle", obj |-> Absent, client |-> None, annotate |-> FALSE]

TypeOK ==
    /\ machine \in [Machines -> Object]
    /\ cache \in [Machines -> Object]
    /\ configs \subseteq Clusters
    /\ namespaces \subseteq Clusters
    /\ vms \in [Machines -> SUBSET Clusters]
    /\ dying \in [Machines -> SUBSET Clusters]
    /\ disks \in [Machines -> SUBSET Clusters]
    /\ dyingDisks \in [Machines -> SUBSET SlowClusters]
    /\ mismatch \subseteq MayMismatch
    /\ borrowed \in [Machines -> SUBSET Clusters]
    /\ overwritten \subseteq Machines
    /\ remoteClient \in Clusters \cup {Supervisor}
    /\ rec \in [Machines -> Reconcile]

\* The clusters where something of m is left, a PVC on its way out excepted.
Held(m) == vms[m] \cup disks[m]

-----------------------------------------------------------------------------
(* Initial states: no Machine, except the legacy ones, which are live with *)
(* a VM in one of the known clusters and no annotation.                    *)

Init ==
    \E home \in [Legacy -> InitialConfigs] :
        /\ machine = [m \in Machines |->
              IF m \in Legacy
              THEN [phase |-> "live", finalizer |-> TRUE, config |-> None]
              ELSE Absent]
        /\ cache = machine
        /\ configs = InitialConfigs
        /\ vms = [m \in Machines |-> IF m \in Legacy THEN {home[m]} ELSE {}]
        /\ disks = vms
        /\ dying = [m \in Machines |-> {}]
        /\ dyingDisks = [m \in Machines |-> {}]
        /\ mismatch = {}
        /\ borrowed = [m \in Machines |-> {}]
        /\ overwritten = {}
        /\ namespaces = {home[m] : m \in Legacy}
        /\ remoteClient = Supervisor
        /\ rec = [m \in Machines |-> Idle]

-----------------------------------------------------------------------------
(* The environment                                                         *)

UserCreates(m) ==
    /\ machine[m].phase = "absent"
    /\ \E c \in UserConfigs :
          machine' = [machine EXCEPT ![m] =
              [phase |-> "live", finalizer |-> FALSE, config |-> c]]
    /\ UNCHANGED <<cache, configs, remoteVars, otherVars, remoteClient, rec>>

\* `kubectl annotate` refuses to replace a value; a user who names the
\* cluster of a Machine that already has a VM names the one it is in.
UserAnnotates(m) ==
    /\ LateAnnotation
    /\ machine[m].phase = "live"
    /\ machine[m].config = None
    /\ \E c \in UserConfigs \ {None} :
          /\ Held(m) \subseteq {c}
          /\ machine' = [machine EXCEPT ![m].config = c]
    /\ UNCHANGED <<cache, configs, remoteVars, otherVars, remoteClient, rec>>

\* The API server removes an object at once unless a finalizer holds it:
\* this operator's, or one of another operator's.
UserDeletes(m) ==
    /\ machine[m].phase = "live"
    /\ \/ machine' = [machine EXCEPT ![m].phase = "deleting"]
       \/ /\ ~machine[m].finalizer
          /\ machine' = [machine EXCEPT ![m] = Absent]
    /\ UNCHANGED <<cache, configs, remoteVars, otherVars, remoteClient, rec>>

OthersRelease(m) ==
    /\ machine[m].phase = "deleting"
    /\ ~machine[m].finalizer
    /\ machine' = [machine EXCEPT ![m] = Absent]
    /\ UNCHANGED <<cache, configs, remoteVars, otherVars, remoteClient, rec>>

AdminAddsConfig(c) ==
    /\ c \notin configs
    /\ configs' = configs \cup {c}
    /\ UNCHANGED <<machine, cache, remoteVars, otherVars, remoteClient, rec>>

\* The informer lags and skips versions, but never goes back.
CacheSync(m) ==
    /\ cache[m] # machine[m]
    /\ cache' = [cache EXCEPT ![m] = machine[m]]
    /\ UNCHANGED <<machine, configs, remoteVars, otherVars, remoteClient, rec>>

\* KubeVirt finishes a deletion some time after it was asked for.
VMGone(m, c) ==
    /\ c \in dying[m]
    /\ vms' = [vms EXCEPT ![m] = @ \ {c}]
    /\ dying' = [dying EXCEPT ![m] = @ \ {c}]
    /\ UNCHANGED <<machine, cache, configs, namespaces, disks, dyingDisks,
                   borrowed, otherVars, remoteClient, rec>>

\* A deleted PVC goes when nothing protects it any more, a VM's pod or the
\* provisioner: perhaps long after its Machine.
DisksGone(m, c) ==
    /\ c \in dyingDisks[m]
    /\ dyingDisks' = [dyingDisks EXCEPT ![m] = @ \ {c}]
    /\ UNCHANGED <<machine, cache, configs, namespaces, vms, dying, disks,
                   borrowed, otherVars, remoteClient, rec>>

\* CleanupNetworkConfiguration begins or ceases to refuse what it finds: its
\* labels, or addresses that are not in the status (NetworkConfiguration).
ValidationChanges(m) ==
    /\ m \in MayMismatch
    /\ mismatch' = IF m \in mismatch THEN mismatch \ {m} ELSE mismatch \cup {m}
    /\ UNCHANGED <<machine, cache, configs, remoteVars, overwritten,
                   remoteClient, rec>>

\* A new process starts with empty workers, the default client and a fresh list.
Crash ==
    /\ rec' = [m \in Machines |-> Idle]
    /\ remoteClient' = Supervisor
    /\ cache' = machine
    /\ UNCHANGED <<machine, configs, remoteVars, otherVars>>

-----------------------------------------------------------------------------
(* The reconcile                                                           *)

Active == {m \in Machines : rec[m].step # "idle"}

At(m, step) == rec[m].step = step
GoTo(m, step) == rec' = [rec EXCEPT ![m].step = step]
Return(m) == rec' = [rec EXCEPT ![m] = Idle]

\* An Update of the object o of m, computed from the copy read.
Update(m, read, o) ==
    /\ machine[m] = read
    /\ machine' = [machine EXCEPT ![m] = o]

\* Mutant: the finalizer is neither set first nor looked for.
BranchWithoutFinalizer(o) ==
    IF o.phase = "live" THEN "client"
    ELSE IF o.phase = "deleting" THEN "deletionClient" ELSE "idle"

\* Which branch fetchAndInitMachine takes on the object it read.  A deleted
\* object without our finalizer, and one not found, end the reconcile.
Branch(o) ==
    IF o.phase = "live"
    THEN IF o.finalizer THEN "client" ELSE "addFinalizer"
    ELSE IF o.phase = "deleting" /\ o.finalizer THEN "deletionClient" ELSE "idle"

FetchAndInitMachine(m) ==
    /\ At(m, "idle")
    /\ Cardinality(Active) < MaxConcurrentReconciles
    /\ Branch(cache[m]) # "idle"
    /\ rec' = [rec EXCEPT ![m] =
          [Idle EXCEPT !.step = Branch(cache[m]), !.obj = cache[m]]]
    /\ UNCHANGED <<machine, cache, configs, remoteVars, otherVars, remoteClient>>

AddFinalizer(m) ==
    /\ At(m, "addFinalizer")
    /\ Update(m, rec[m].obj, [rec[m].obj EXCEPT !.finalizer = TRUE])
    /\ Return(m)
    /\ UNCHANGED <<cache, configs, remoteVars, otherVars, remoteClient>>

\* Mutant: the annotation is not looked at.
ChoosesIgnoringAnnotation(m, o, c) ==
    /\ c \in configs
    /\ \/ DefaultConfig = c
       \/ /\ DefaultConfig = None
          /\ configs = {c} \/ c \in vms[m]

\* Mutant: the only config is preferred to the annotation.
ChoosesOnlyConfigFirst(m, o, c) ==
    /\ c \in configs
    /\ \/ configs = {c}
       \/ o.config = c
       \/ o.config = None /\ (DefaultConfig = c \/ c \in vms[m])

\* Mutant: when the search finds no VM, any config will do.
ChoosesAnyConfig(m, o, c) ==
    /\ c \in configs
    /\ \/ o.config = c
       \/ /\ o.config = None
          /\ \/ DefaultConfig = c
             \/ DefaultConfig = None /\ (c \in vms[m] \/ vms[m] = {})

\* GetOrCreateClientFromMachine may choose c for the object o of m: by its
\* annotation, the default, the only config, or the first hit of the search
\* (the list has no order, and a cluster that does not answer is skipped).
Chooses(m, o, c) ==
    /\ c \in configs
    /\ \/ o.config = c
       \/ /\ o.config = None
          /\ \/ DefaultConfig = c
             \/ /\ DefaultConfig = None
                /\ configs = {c} \/ c \in vms[m]

\* Mutant: the config's name is taken from the annotation, set or not.
ClientNamedByAnnotation(m) ==
    /\ At(m, "client") \/ At(m, "deletionClient")
    /\ \E c \in Clusters :
          /\ Chooses(m, rec[m].obj, c)
          /\ remoteClient' = c
          /\ rec' = [rec EXCEPT ![m] =
                IF At(m, "client")
                THEN [step |-> "namespace", obj |-> Absent,
                      client |-> rec[m].obj.config,
                      annotate |-> rec[m].obj.config = None]
                ELSE [Idle EXCEPT !.step = "deletePVCs", !.client = c]]
    /\ UNCHANGED <<machine, cache, configs, remoteVars, otherVars>>

\* The client is chosen and stored in the shared VMManager; obj is not read
\* again, and a deletion ignores needsAnnotationUpdate.
GetOrCreateClientFromMachine(m) ==
    /\ At(m, "client") \/ At(m, "deletionClient")
    /\ \E c \in Clusters :
          /\ Chooses(m, rec[m].obj, c)
          /\ remoteClient' = c
          /\ rec' = [rec EXCEPT ![m] =
                IF At(m, "client")
                THEN [step |-> "namespace", obj |-> Absent, client |-> c,
                      annotate |-> rec[m].obj.config = None]
                ELSE [Idle EXCEPT !.step = "deletePVCs", !.client = c]]
    /\ UNCHANGED <<machine, cache, configs, remoteVars, otherVars>>

\* Mutant: the namespace is looked up and not created.
NamespaceMustExist(m) ==
    /\ At(m, "namespace")
    /\ rec[m].client \in namespaces
    /\ GoTo(m, IF rec[m].annotate THEN "annotation" ELSE "getVM")
    /\ UNCHANGED <<machine, cache, configs, remoteVars, otherVars, remoteClient>>

\* Mutant: the PVCs are created along with the namespace.
EnsureNamespaceAndPVCs(m) ==
    /\ At(m, "namespace")
    /\ namespaces' = namespaces \cup {rec[m].client}
    /\ disks' = [disks EXCEPT ![m] = @ \cup {rec[m].client}]
    /\ GoTo(m, IF rec[m].annotate THEN "annotation" ELSE "getVM")
    /\ UNCHANGED <<machine, cache, configs, vms, dying, dyingDisks, borrowed,
                   otherVars, remoteClient>>

\* Get, then Create with AlreadyExists taken as success.
EnsureNamespaceExists(m) ==
    /\ At(m, "namespace")
    /\ namespaces' = namespaces \cup {rec[m].client}
    /\ GoTo(m, IF rec[m].annotate THEN "annotation" ELSE "getVM")
    /\ UNCHANGED <<machine, cache, configs, vms, dying, disks, dyingDisks,
                   borrowed, otherVars, remoteClient>>

\* The annotation is set on the latest cached copy, whatever it says.
AnnotateMachine(m) ==
    /\ At(m, "annotation")
    /\ cache[m].phase # "absent"
    /\ Update(m, cache[m], [cache[m] EXCEPT !.config = rec[m].client])
    /\ overwritten' = IF machine[m].config \in {None, rec[m].client}
                      THEN overwritten ELSE overwritten \cup {m}
    /\ GoTo(m, "getVM")
    /\ UNCHANGED <<cache, configs, remoteVars, mismatch, remoteClient>>

\* A VM that exists, even one being deleted, is only observed (module
\* MachineStatus); otherwise it is created.
GetVirtualMachine(m) ==
    /\ At(m, "getVM")
    /\ IF rec[m].client \in vms[m] THEN Return(m) ELSE GoTo(m, "createPVCs")
    /\ UNCHANGED <<machine, cache, configs, remoteVars, otherVars, remoteClient>>

\* Mutant: the shared client is used, as CreateVirtualMachine does.
CreatePVCsThroughSharedClient(m) ==
    /\ At(m, "createPVCs")
    /\ remoteClient \in namespaces
    /\ disks' = [disks EXCEPT ![m] = @ \cup ({remoteClient} \ dyingDisks[m])]
    /\ borrowed' = [borrowed EXCEPT ![m] =
                       (@ \ {remoteClient}) \cup ({remoteClient} \cap dyingDisks[m])]
    /\ GoTo(m, "createVM")
    /\ UNCHANGED <<machine, cache, configs, namespaces, vms, dying, dyingDisks,
                   otherVars, remoteClient>>

\* Mutant: an error of a PVC is logged and the VM is created all the same.
CreatePVCsBestEffort(m) ==
    /\ At(m, "createPVCs")
    /\ rec[m].client \in namespaces
    /\ disks' \in {disks, [disks EXCEPT ![m] = @ \cup {rec[m].client}]}
    /\ GoTo(m, "createVM")
    /\ UNCHANGED <<machine, cache, configs, namespaces, vms, dying, dyingDisks,
                   borrowed, otherVars, remoteClient>>

\* A PVC of the name is taken as it is, one that is being deleted included.
CreatePVCsFromDiskSpecs(m) ==
    /\ At(m, "createPVCs")
    /\ rec[m].client \in namespaces
    /\ LET c == rec[m].client
           found == {c} \cap dyingDisks[m]
       IN  /\ disks' = [disks EXCEPT ![m] = @ \cup ({c} \ found)]
           /\ borrowed' = [borrowed EXCEPT ![m] = (@ \ {c}) \cup found]
    /\ GoTo(m, "createVM")
    /\ UNCHANGED <<machine, cache, configs, namespaces, vms, dying, dyingDisks,
                   otherVars, remoteClient>>

\* The Create goes through the shared client, not through the reconcile's.
CreateVirtualMachine(m) ==
    /\ At(m, "createVM")
    /\ remoteClient \in namespaces \ vms[m]
    /\ vms' = [vms EXCEPT ![m] = @ \cup {remoteClient}]
    /\ Return(m)
    /\ UNCHANGED <<machine, cache, configs, namespaces, dying, disks, dyingDisks,
                   borrowed, otherVars, remoteClient>>

\* Delete only asks: the PVCs are not waited for.
DeleteAssociatedPVCs(m) ==
    /\ At(m, "deletePVCs")
    /\ LET asked == {rec[m].client} \cap disks[m]
       IN  /\ disks' = [disks EXCEPT ![m] = @ \ asked]
           /\ dyingDisks' =
                [dyingDisks EXCEPT ![m] = @ \cup (asked \cap SlowClusters)]
    /\ GoTo(m, "deleteVM")
    /\ UNCHANGED <<machine, cache, configs, namespaces, vms, dying, borrowed,
                   otherVars, remoteClient>>

DeleteVirtualMachine(m) ==
    /\ At(m, "deleteVM")
    /\ dying' = [dying EXCEPT ![m] = @ \cup ({rec[m].client} \cap vms[m])]
    /\ GoTo(m, "checkVM")
    /\ UNCHANGED <<machine, cache, configs, namespaces, vms, disks, dyingDisks,
                   borrowed, otherVars, remoteClient>>

\* Mutant: the finalizer does not wait for the VM to be gone.
VirtualMachineNotAwaited(m) ==
    /\ At(m, "checkVM")
    /\ GoTo(m, "cleanupNC")
    /\ UNCHANGED <<machine, cache, configs, remoteVars, otherVars, remoteClient>>

VirtualMachineExists(m) ==
    /\ At(m, "checkVM")
    /\ IF rec[m].client \in vms[m] THEN Return(m) ELSE GoTo(m, "cleanupNC")
    /\ UNCHANGED <<machine, cache, configs, remoteVars, otherVars, remoteClient>>

\* The NetworkConfiguration is deleted, or refused and the deletion tried again
\* (what it compares is in module NetworkConfiguration).
CleanupNetworkConfiguration(m) ==
    /\ At(m, "cleanupNC")
    /\ IF m \in mismatch THEN Return(m) ELSE GoTo(m, "removeFinalizer")
    /\ UNCHANGED <<machine, cache, configs, remoteVars, otherVars, remoteClient>>

\* The finalizer is dropped from the latest cached copy; the API server
\* removes a deleted object with its last finalizer.
RemoveMachineFinalizer(m) ==
    /\ At(m, "removeFinalizer")
    /\ \/ /\ cache[m].phase = "absent"
          /\ UNCHANGED machine
       \/ /\ cache[m].phase # "absent"
          /\ Update(m, cache[m], [cache[m] EXCEPT !.finalizer = FALSE])
       \/ /\ cache[m].phase = "deleting"
          /\ cache[m].finalizer
          /\ Update(m, cache[m], Absent)
    /\ Return(m)
    /\ UNCHANGED <<cache, configs, remoteVars, otherVars, remoteClient>>

\* Any call may fail (error, conflict, prerequisite not ready): the handler
\* returns and the Machine is queued again.
ReconcileFails(m) ==
    /\ ~At(m, "idle")
    /\ Return(m)
    /\ UNCHANGED <<machine, cache, configs, remoteVars, otherVars, remoteClient>>

-----------------------------------------------------------------------------
(* The specification                                                       *)

Environment ==
    \/ \E m \in Machines :
          \/ UserCreates(m)
          \/ UserAnnotates(m)
          \/ UserDeletes(m)
          \/ OthersRelease(m)
          \/ CacheSync(m)
          \/ ValidationChanges(m)
          \/ \E c \in Clusters : VMGone(m, c) \/ DisksGone(m, c)
    \/ \E c \in Clusters : AdminAddsConfig(c)
    \/ Crash

Creation(m) ==
    \/ AddFinalizer(m)
    \/ EnsureNamespaceExists(m)
    \/ AnnotateMachine(m)
    \/ GetVirtualMachine(m)
    \/ CreatePVCsFromDiskSpecs(m)
    \/ CreateVirtualMachine(m)

Deletion(m) ==
    \/ DeleteAssociatedPVCs(m)
    \/ DeleteVirtualMachine(m)
    \/ VirtualMachineExists(m)
    \/ CleanupNetworkConfiguration(m)
    \/ RemoveMachineFinalizer(m)

Operator(m) ==
    \/ FetchAndInitMachine(m)
    \/ GetOrCreateClientFromMachine(m)
    \/ Creation(m)
    \/ Deletion(m)
    \/ ReconcileFails(m)

Next == Environment \/ \E m \in Machines : Operator(m)

Spec == Init /\ [][Next]_vars

-----------------------------------------------------------------------------
(* Fairness.  The 5s requeue and the watches queue every Machine again and *)
(* the queue is FIFO; a kind of call that is retried for ever is not       *)
(* refused for ever, except that the validation of a NetworkConfiguration  *)
(* may be; informers and KubeVirt catch up.  Users owe nothing, PVCs may   *)
(* stay protected, and crashes and failures may happen at any time.        *)

Fairness ==
    \A m \in Machines :
        /\ WF_vars(CacheSync(m))
        /\ \A c \in Clusters : WF_vars(VMGone(m, c))
        /\ WF_vars(OthersRelease(m))
        /\ WF_vars(ReconcileFails(m))
        /\ SF_vars(FetchAndInitMachine(m))
        /\ SF_vars(GetOrCreateClientFromMachine(m))
        /\ SF_vars(AddFinalizer(m) \/ RemoveMachineFinalizer(m))
        /\ SF_vars(EnsureNamespaceExists(m))
        /\ SF_vars(GetVirtualMachine(m) \/ VirtualMachineExists(m))
        /\ SF_vars(CreatePVCsFromDiskSpecs(m) \/ DeleteAssociatedPVCs(m))
        /\ SF_vars(CreateVirtualMachine(m) \/ DeleteVirtualMachine(m))
        /\ SF_vars(CleanupNetworkConfiguration(m))

FairSpec == Spec /\ Fairness

-----------------------------------------------------------------------------
(* What the reconciles implement together: each Machine's phase and        *)
(* annotation on the API server, and what exists for it in the clusters.   *)

Lifecycle == INSTANCE MachineLifecycle WITH
    phase     <- [m \in Machines |-> machine[m].phase],
    placement <- [m \in Machines |-> machine[m].config],
    resources <- [m \in Machines |->
                     ({"vm"} \X vms[m]) \cup ({"disks"} \X disks[m])],
    leaving   <- dyingDisks,
    lent      <- borrowed

-----------------------------------------------------------------------------
(* Properties                                                              *)

\* Every step of the reconciles, users, caches and clusters is a step of the
\* lifecycle or none: one placement per Machine, resources only there, disks
\* of its own or lent ones before the VM, nothing taken from a live Machine but
\* what it was lent, and no Machine gone before its VM is and its disks are
\* deleted (machine_controller.go:277-320, :324-390, :439-538).
ImplementsLifecycle == Lifecycle!Spec

\* Whatever exists for a Machine in a remote cluster, and is not on its way
\* out, is where its annotation says, and the Machine is still there, with the
\* finalizer that will make the operator delete it: as long as the operator
\* has not overwritten the annotation.  Only a legacy VM, alone, precedes it.
\* The deletion of machine_controller.go:489 finds a VM by that annotation.
ResourcesFollowPlacement ==
    \A m \in Machines \ overwritten : \A c \in Held(m) :
        /\ machine[m].finalizer
        /\ \/ machine[m].config = c
           \/ m \in Legacy /\ machine[m].config = None /\ Held(m) = {c}

\* The same for the PVCs alone, which machine_controller.go:357 and :505
\* create and delete through the reconcile's own client.
DisksFollowPlacement ==
    \A m \in Machines \ overwritten : \A c \in disks[m] :
        /\ machine[m].finalizer
        /\ machine[m].config \in {c, None}

\* As long as nobody deletes its Machine, a VM has its disks in its cluster,
\* and they stay: no creation, retry or stale deletion leaves one without
\* (createVM after createPVCs at machine_controller.go:357-363, :505), except
\* that a VM made on a PVC that an earlier life of its Machine left behind
\* terminating loses it (storage_manager.go:200-206, :302-318).
VMHasItsDisks ==
    \A m \in Machines \ overwritten :
        machine[m].phase = "live" =>
            vms[m] \ dying[m] \subseteq disks[m] \cup borrowed[m]

\* The docs' "VM created in remote cluster": a VM is in the cluster its
\* Machine names (automatic-config-assignment.md:15-17).
VMInAnnotatedCluster ==
    \A m \in Machines :
        machine[m].phase # "absent" /\ machine[m].config # None =>
            vms[m] \subseteq {machine[m].config}

\* A deletion run on a stale cached Machine (one deleted and created again
\* since) never reaches the VM of the new Machine of that name.
LiveMachineKeepsItsVM ==
    [][\A m \in Machines \ overwritten :
          dying'[m] \ dying[m] # {} => machine[m].phase = "deleting"]_vars

\* The operator annotates the latest copy it reads (machine_controller.go:
\* 138-149), which may carry an annotation that was not there when it chose,
\* and overwrites it: but only while nothing exists for the Machine that the
\* annotation placed.  Otherwise it would be lost to the deletion.
PlacementKeptOnceUsed ==
    [][\A m \in Machines \ overwritten :
          machine[m].config # None /\ machine'[m].phase # "absent"
                /\ Held(m) # {} =>
              machine'[m].config = machine[m].config]_vars

\* A deleted Machine whose placement is recorded goes away, whatever else
\* fails, crashes or is read late on the way, unless the validation of its
\* NetworkConfiguration never stops refusing (machine_controller.go:439-486).
PlacedMachineDeletes ==
    \A m \in Machines :
        <>[](m \notin mismatch) =>
            (machine[m].phase = "deleting" /\ machine[m].config \in configs
                ~> machine[m].phase = "absent")

\* A Machine with a placement gets its VM there unless it is deleted first or
\* the placement is overwritten.
PlacedMachineGetsVM ==
    \A m \in Machines : \A c \in Clusters :
        machine[m].phase = "live" /\ machine[m].config = c /\ c \in configs
            ~> \/ c \in vms[m]
               \/ machine[m].phase # "live"
               \/ machine[m].config # c
=============================================================================
