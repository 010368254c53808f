# kubevirt-operator in TLA+

The operator turns `Machine` objects of a *supervisor* cluster into KubeVirt
`VirtualMachine`s of *remote* clusters. This directory models it in TLA+,
model-checks it with TLC and proves theorems about it with TLAPS. Paths below
are relative to the repository's `src/`.

## The system

| part | source | state it keeps | operations |
| --- | --- | --- | --- |
| Machine controller | `controllers/v1alpha1/machine_controller.go` | none of its own; reads a cached copy of the Machine, writes the finalizer, annotations and status | `Reconcile`: fetch, finalizer, client, namespace, annotation, VM, ISO cleanup, status; `handleDeletion`: PVCs, NAD, VM, ISO and NAD collection, NetworkConfiguration, finalizer |
| KubeVirt client manager | `pkg/clients/kubevirt_client_manager.go` | a map from config names to clients under an RWMutex | `GetClientForConfig`, `GetOrCreateClientFromMachine`, `findVMInClusters`, `Invalidate*`, `HealthCheck` |
| VM manager | `internal/machine/vm/vm_manager.go` | **one `remoteClient` for the whole process** | `SetRemoteClient`, `CreateVirtualMachine`, placement policies |
| Storage manager | `internal/machine/storage/storage_manager.go` | none; PVCs in the remote cluster | `CreatePVCsFromDiskSpecs`, `DeleteAssociatedPVCs`, storage class and access mode |
| Network manager | `internal/machine/network/network_manager.go` | none; NetworkAttachmentDefinitions (NADs) shared by the VMs of a VLAN | `GetOrCreateNetworkConfiguration`, two NAD collectors and an orphan sweep |
| Network configuration | `internal/machine/vm/network_config.go`, `pkg/macaddress` | none; a NetworkConfiguration per Machine in the supervisor | MAC choice and persistence, provider backfill, cleanup with label and MAC checks |
| Shared ISO, CD-ROM | `internal/machine/vm/shared_iso.go`, `cdrom_manager.go` | none; DataVolumes in the remote cluster, annotations on the Machine | `EnsureSharedISODataVolume`, `GCOrphanedSharedISOs`, `CleanupISOResources` |
| Status and events | `internal/machine/status`, `internal/machine/events` | the Machine's status | phase and state from VM and VMI, failure fields, IPs, retried status update |
| VM specification | `disk_builder.go`, `cloudinit.go`, `resources.go`, `internal/services/machineclassservice` | none (pure, but for reads) | disks, volumes, boot source, cloud-init, CPU and memory |
| Startup | `cmd/main.go`, `internal/services`, `internal/settings` | environment | prerequisite checks, MachineProvider registration |

**How they interact.** controller-runtime calls `Reconcile` from
`MaxConcurrentReconciles` workers (5 by default), never twice at once for the
same Machine. A reconcile reads the Machine from an informer cache that lags
behind the API server; it writes with `Update`, which the API server refuses
when the object changed since it was read. Everything remote is a synchronous
call to a cluster's API server, which may fail; the reconcile then returns and
is queued again, and nothing is undone. A deletion in a remote cluster is only
*asked for*: KubeVirt finishes it later. All managers are shared by all
workers, and the VM manager's `remoteClient` is a field they all overwrite.

**What is hard.** Copies and choices used several calls after they were read
(`machine_controller.go:118-157`); two workers on the shared client and on
shared remote objects (NADs, ISO volumes); crashes and errors between any two
calls of a flow that spans two clusters; a finalizer that has to outlive the
last remote object; a deletion that needs a client, when the choice of a client
may need the VM that the deletion removes; Machines deleted and created again
under the same name. `PROJECT.json` lists each hazard with its line.

**What makes each part correct.**

- Controller, client, VM and storage managers: everything that exists for a
  Machine is in the one cluster it is placed in and is found again by its
  deletion; a placement is not replaced once something was made by it; a live
  Machine's VM has its disks and is not deleted; a placed Machine gets its VM, a
  deleted one goes away.
- Client manager: one client per config however many first callers; after an
  invalidation nobody gets an older client, from a build under way either; the
  map is never written while it is read; nobody waits for ever.
- Network manager, shared ISO: an object that a VM uses is not collected; one
  that nothing uses is, in the end; a VM is created only on an imported ISO.
- Network configuration: a VM has the MAC that was declared, over all retries,
  and an IP for it; the cleanup removes it before the Machine is gone; nothing but its own two checks holds a deletion up.
- Status: what lasts (a running VM and its address, a failure, error events) is
  shown in the end, one condition for one failure, and a status that is right is
  not written again and again.
- VM specification: PVC names of one Machine differ; resource conversions do not
  overflow.

## Modules

| module | what it is |
| --- | --- |
| `MachineLifecycle` | the abstract specification: what the operator promises about a Machine |
| `MachineReconciler` | the controller with the client choice and the remote calls of the storage and VM managers; the properties; the refinement mapping |
| `MCMachineReconciler` | its TLC instances |
| `MachineReconciler_proofs` | the inductive invariant of one worker and its theorems |
| `MachineLifecycle_proofs` | the refinement: one worker implements the abstract specification |
| `MachineParallel_proofs` | what holds of placement with any number of workers |
| `NADManager`, `MCNADManager` | NADs: ensured by creations, collected by deletions |
| `NADManager_proofs` | its safety properties for any Machines and NADs |
| `BootISO`, `MCBootISO` | boot-ISO volumes: imported, attached, detached, collected |
| `BootISO_proofs` | its safety properties for any Machines and ISOs |
| `NetworkConfiguration`, `MCNetworkConfiguration` | MAC addresses and static IPs: chosen, declared, waited for, rendered, removed |
| `NetworkConfiguration_proofs` | its safety properties for any networks, addresses and lives |
| `MachineStatus`, `MCMachineStatus` | the status: phases, failures, conditions, addresses, retried writes |
| `MachineStatus_proofs` | one condition per failure, for any bounds |
| `ClientManager`, `MCClientManager` | the cache of clients under its RWMutex |
| `ClientManager_proofs` | its safety properties for any goroutines, configs and versions |

### `MachineReconciler`

| variable | code |
| --- | --- |
| `machine` | the Machine on the supervisor's API server: phase (absent, live, with a deletionTimestamp), our finalizer, the `kubevirt-config` annotation |
| `cache` | the same object as `r.Get` of the manager's cached client returns it |
| `configs` | the KubevirtConfigs that `ListKubevirtConfigs` returns |
| `namespaces`, `vms`, `dying` | the remote clusters: namespaces, VMs, VMs with a deletionTimestamp |
| `disks`, `dyingDisks` | the PVC of a Machine in each cluster: there to stay, or deleted and terminating |
| `mismatch` | the Machines whose NetworkConfiguration would fail the checks of `CleanupNetworkConfiguration` now |
| `remoteClient` | `VMManager.remoteClient` |
| `rec[m]` | the reconcile of `m`: the call it makes next, and its locals `machine`, `remoteClient`, `needsAnnotationUpdate` |
| `borrowed`, `overwritten` | history: the clusters where the last creation took a terminating PVC for its own; the Machines whose annotation the operator overwrote with another value |

There is one action per API call of `Reconcile`, `handleDeletion` and
`cleanupRemoteResources` that touches this state, so anything may happen
between two calls. The environment acts too: users create, annotate and delete
Machines (a deleted name may be created again), administrators add configs, the
informer catches up, KubeVirt finishes the deletion of a VM, a deleted PVC goes
when nothing protects it any more, the validation of a NetworkConfiguration
begins or ceases to fail, the process crashes.
`ReconcileFails` is every error return: it may replace any call, and an error
reported by a call that did take effect is that call followed by it.

`DeleteAssociatedPVCs` only asks: in a cluster of `SlowClusters` the PVC stays,
terminating, for as long as it likes, also after its Machine, and
`CreatePVCsFromDiskSpecs` takes a PVC of the name as it is, a terminating one
too, as `createSinglePVC` does.

Abstractions: a KubevirtConfig is the cluster it reaches; a Machine has one PVC
per cluster, its boot disk; a `resourceVersion`
is not a number, an Update carries the copy it was computed from (a conflict
caused by a field that is left out is a `ReconcileFails`); namespaces are not
deleted; configs are not removed; VMs and PVCs are touched by nobody else;
there is one namespace of Machines. Of `CleanupNetworkConfiguration` only its
outcome is here, done or refused. NAD, ISO, the other NetworkConfiguration and the
status calls, and the locks of the client cache, do not touch this state: they
have modules of their own.

### `MachineLifecycle` and the refinement

The abstract specification has no caches, reconciles or retries: a Machine is
created, placed once and never away from what exists, provided with disks and
then a VM *there*, has something taken away only while it is being deleted, and
is removed only when its VM is gone and its disks are deleted. Deleted disks may
be leaving for a while; a Machine that is created again meanwhile may be lent
them, and loses them. `ImplementsLifecycle` is that specification with `phase`
and `placement` read off the Machine on the API server, and `resources`,
`leaving` and `lent` off the remote clusters and `borrowed`. A model that loses a
resource, replaces a placement, reaches for a live Machine's VM or makes one
without a disk does not satisfy it.

### `NADManager` and `BootISO`

What the VMs of a namespace share: NADs, and with `SHARED_BOOT_ISO` the volumes
of boot ISOs. `BootISO` has the setting as the variable `shared`, chosen at the
start. Both modules take up the same two flows as `MachineReconciler`
where these calls are made, and leave out what that module has: there is one
cluster and one namespace, and a Machine is there as long as it has the
finalizer (`MachineReconciler` shows that two lives of a name are kept apart).
`machine`, `cache` and `rec` are as above; `rec` also holds what a listing
showed, because the collectors act on it some calls later.

| variable | code |
| --- | --- |
| `network` | the NAD that `findNetworkNamespace` and `nadNameFor` give for a Machine now |
| `nads` | the NADs of the namespace, with our `managed-by` label or not |
| `machine[m].noted` | the annotation `vitistack.io/nad-to-cleanup` |
| `raced` | history: the Machines whose VM came up when a collector was about to delete its NAD, or had just done so |
| `dvs` | DataVolumes with their PVCs: the shared ones by ISO, a VM's own by its Machine |
| `vms`, `vmis` | VMs and VMIs, and the volume the CD-ROM of each refers to; the spec of a VM changes before the VMI does |
| `machine[m].installed`, `.cleaned` | `os-installed` or `cdrom-ejected`, and `iso-cleaned-up` |

Errors of a collection are logged and the handler goes on (`CollectionError`,
`GCError`); all others return (`ReconcileFails`). `NADManager` lets
administrators make NADs of the operator's names, `BootISO` lets VMs be
restarted and deleted by others. Left out: whatever the pod network
needs (a VM on it has no NAD, `None`), a Machine without an ISO, an edit of a Machine's image, `MANAGED_BY`
unset (the sweep is then off), and a VM that is being recreated by KubeVirt
itself.

### `NetworkConfiguration`

One Machine name and the NetworkConfiguration (NC) that goes by it; two Machines
share nothing here. A Machine of the name may be created `MaxLives` times, each
with its own uid.

| variable | code |
| --- | --- |
| `machine` | phase, uid, and the MACs of `status.networkInterfaces` |
| `nn` | the NetworkNamespace: the KubeVirt network it leads to, static allocation or not, `ipAllocation.provider` set or not |
| `nc`, `cache` | the NC on the API server and in the informer cache: whose it is (ours by label, or foreign), its owner, a MAC per network, the provider, the MACs that have an IP |
| `vm` | the VM: its network and MAC, and the MACs for which its network data has a static IP |
| `rec` | the call the reconcile makes next, the uid and the status of its copy of the Machine, the VM it is building |
| `lagged` | history: some reconcile began before the cache had the last NC |

Actions: `GetVM`, `GetNetwork`, `ResolveOrGenerateMAC`, `PersistMacAddresses`
(create, or update with the provider backfill), `ResolveCloudInit` (wait, or
render), `CreateVM`, `EnsureNCProviderBackfilled`, `UpdateMachineStatus`;
`DeleteVM`, `CleanupNetworkConfiguration`, `RemoveMachineFinalizer`. Around them
the allocator, another controller that takes the name first, the garbage
collector, changes of the network, VMs deleted by others, errors at every call.
The safety properties are stated for behaviours in which each reconcile *begins*
with the last NC (`~lagged`); within it the cache may fall behind as it likes,
its own writes included. `spec.name`, shortened to 32 characters, is left out.

### `MachineStatus`

One live Machine. `status` and `cache` are its status on the server and in the
cache (phase, number of conditions, failure reason, an address); `remote` is
what KubeVirt shows (printable status, error events, the address of the VMI);
`fault` is what makes reconciles fail now (no client; MachineClass or network;
PVCs; the VM). `Start` and `EnsureVM` have the places where a failure is
recorded (`RecordFailure`), `EvaluateState` is
`UpdateMachineStatusFromVMAndVMI` up to the write, `UpdateMachineStatus` is one
try of the write, with the comparison against the latest copy, the conflict and
the retry. Disks and the kinds of addresses are one address.

### `ClientManager`

Goroutines (`caller`), each with one call and its locals; the secrets (`secret`)
and the versions of them that the informer shows (`shown`), from which clients are
built, as the manager is given `mgr.GetClient()` (`cmd/main.go:352-356`); the
version from which each cached client was built; `writer`, who has the write lock
or waits for the readers that are in. The RWMutex is Go's: a
writer takes its turn and then waits for the readers; later readers queue
(`queued`) and are all let in when it leaves. Both checks of
`GetClientForConfig`, the build under the lock and its failures, the loops of
the search and of the health check (which give up the lock between two configs),
and both invalidations are steps. `GetRESTConfigForConfig` reads without the
cache and is left out. `builds` and `floor` are history: clients built for a
config since its last invalidation, and the version of its secret that the
informer showed then.

## Runs

Bounds of the placement runs: two Machines (the shared client and the worker
limit need two actors; re-creation makes a Machine stale against itself), two
clusters (a wrong one must exist), no bound on the number of operations: the state spaces are finite
and searched completely.

| run | question | bounds |
| --- | --- | --- |
| `placement_by_search` | do stale copies, crashes and errors ever lose, misplace or strip anything, when the search adopts a legacy VM and users annotate late? Is every step a lifecycle step? checks the whole inductive invariant | 2 Machines, one legacy; 2 configs, no default, one reconcile at a time; deleted PVCs may linger in `c1` |
| `parallel_reconciles` | what survives two workers: disks and live VMs are right, since they do not go through the shared client | 2 Machines, 2 workers, default `c1`, users ask for `c2` or nothing |
| `progress` | does a placed Machine get its VM, and a deleted one go away, when the only config is chosen and a second one may appear, and be named by a user, at any moment? is an annotation overwritten only while nothing was made by it? | 1 Machine, `c1` then possibly `c2`, late annotations, a validation that may refuse, fairness |
| `shared_client_race` | *violated*: a VM is created in its annotated cluster | 2 Machines, 2 workers |
| `nad_two_workers` | which NADs of running VMs may two reconciles at a time take? Is every NAD gone with the last Machine? | 2 Machines, 2 workers, 2 NADs |
| `nad_best_effort` | does a deletion end although collections fail for ever? Does a sweep spare an administrator's NAD? | 1 Machine, 2 NADs, one may be made by an administrator, fairness |
| `iso_serial` | is an attached shared volume imported and kept, while VMs restart and are stripped, and gone with the last Machine? Is a volume detached before it is deleted? | 2 Machines, 1 ISO, shared or own volumes |
| `iso_detached` | is the CD-ROM detached after the installation, also from a VM made again? | 1 Machine, 1 ISO, shared or own volume, fairness |
| `network_config` | tried however often, does a creation keep to the MAC it declared, has its VM an IP for it, and does a deletion take the declaration with it? | 2 lives, 2 networks, 2 MACs |
| `network_progress` | does a creation that waits for an IP end; is a deletion held up by its two checks only; does a late provider arrive; is a leftover collected? | 2 lives, 1 network, 2 MACs, fairness |
| `machine_status` | does the status end up saying what is the case, with one condition for a failure, and is it then left alone? | 1 failure of any kind, 1 address, 2 tries of a write, fairness |
| `clients` | get, search, health check and invalidation at once: one client per config, no stale one after an invalidation, no map race, every call returns | 2 goroutines, 2 configs, 2 versions of a secret, an informer that lags, fairness |

`placement_by_search` has one slow cluster of the two: PVCs there may linger, those
in the other go at once. In the other placement runs they all go at once, as no
property of theirs speaks of a PVC that is on its way out; the proofs have any
`SlowClusters`. `MayMismatch` matters to deletions that must end, hence to
`progress` only: elsewhere a refusal is what `ReconcileFails` does to the same step.

In the runs on shared objects two Machines are the two users of one object, or
its user and its collector; two NADs let a network change between two tries of a
creation. Errors of the collectors are swallowed by design, so "nothing is left
behind" is stated for behaviours without one: the history variable `swallowed`
remembers whether there was any. Two lives of a Machine let an NC meet a Machine
it does not belong to, two networks and MACs let it declare more than its VM has
(the proofs remove these three bounds). `MaxLives = 2` ends the runs of
`network_config`, hence no deadlock check there. One failure that comes and goes
is enough for a status to be written over by old copies before, during and after
it, and for a second condition if there could be one (the proof has any number);
`maxRetries` is 3 in the code, 2 have a first and a last try. Two goroutines
and two configs are one that builds or invalidates and one that meets it; two
versions an old and a new client.

`TypeOK` is checked in one run per module, or proved. The proofs cover every way of choosing
a config for the placement properties. Machines, and in
`network_config` MACs and networks, are symmetric where none of them is special
and no liveness is checked. Every mutant of `PROJECT.json` is an
operator named `Mutant` in its comment, next to the definition it stands in
for: a dropped guard, a best-effort error, a swapped priority.

**Fairness** (`Fairness` in `MachineReconciler`). A reconcile that returns is
queued again after `RequeueDelay` or with backoff, so its first step, and the
choice of a client, recur: strong fairness, because a crash or a busy worker
disables them in between. A kind of API call (Machine updates, namespace
creation, reads, PVC calls, VM calls) that is tried again and again does not
fail every time: strong fairness per kind, since each try may be cut off by a
failure or a crash. The validation of a NetworkConfiguration is no such call: it may
refuse for ever (finding 8), which `PlacedMachineDeletes` has as its exception; nor
need a lingering PVC ever go. The informer, KubeVirt and other finalizer owners catch up: weak fairness, as
nothing disables them for good. `ReconcileFails` is weakly fair because every
call returns (they carry contexts and client timeouts). Users, administrators
and crashes are not fair. `NADManager` assumes that the process stays up in
the end (a crash there takes it `Down` until its restart), and that the calls
whose errors end a deletion's reconcile succeed at some time, but lets every
collector's call fail for ever. `BootISO` adds that a VM which others
restart or delete again and again runs at some time, with its agent connected,
long enough to be imported and met by a reconcile (one comes every five seconds).
`NetworkConfiguration` and `MachineStatus` say "calls that are tried again do
not fail for ever" as `<>[]~rec.failed`: from some time on no call of a
reconcile fails; conflicts with other writers are not failures in this sense and
may go on. Their informers, the allocator, KubeVirt and the collector are weakly
fair. `ClientManager` has weak fairness for a goroutine that holds or waits in a
lock's queue (requests return) and strong fairness for a writer's turn: Go's
mutex hands itself to a waiter that starves.

**Findings.** One is a run:

1. *Shared client* (`shared_client_race`). Worker A chooses `c1` for `m1` and
   stores it, worker B stores `c2` for `m2`, A creates its PVCs in `c1` (own
   client) and its VM through `VMManager.remoteClient`, that is in `c2`. The VM is
   then never found by `m1`'s annotation; `m1`'s deletion leaves it behind.

The others were met while the properties were stated; each property says, by
its premise or its bounds, what is left of it:

2. *Annotation*: the placement is chosen for one copy and written on a later one
   (`machine_controller.go:138`), over what a user wrote meanwhile, where
   `docs/automatic-config-assignment.md:16-17` has the annotation "always
   honored". A reconcile that began before the overwriting with the user's value
   may still make PVCs and a VM in the user's cluster, which no deletion then
   finds. The history variable `overwritten` remembers such Machines: properties
   leave them out (`Machines \ overwritten`), and `PlacementKeptOnceUsed` says
   that it happens only to a Machine for which nothing exists yet.
3. *Unannotated deletion*: the deletion flow does not record the placement it
   found (`handleDeletion` drops `needsAnnotationUpdate`); after the VM is gone
   the search finds nothing and the finalizer stays, where
   `docs/multi-cluster-architecture.md:285` has it removed. `PlacedMachineDeletes` is about
   placed Machines for this reason.
4. *NAD race*: a deletion lists the users of a NAD and deletes it; between the
   two, another worker's creation found the NAD and then creates its VM on it.
   `raced` remembers such a Machine, and `LiveVMHasItsNAD` says that with two
   workers nothing else loses a NAD; with one worker nothing does
   (`OneWorkerLosesNoNAD`). The ISO collector has the same race:
   `AttachedISOIsImported` is checked and proved for one worker, and fails with two.
5. *NADs by name*: the two NAD collectors that go by name (`network_manager.go:316`,
   `:408`) delete a NAD an administrator made under that name, once its last VM
   goes; only the sweep looks at the label, which is all that
   `ForeignNADGoesWithItsUser` says. It needs one worker: if another worker
   deletes a NAD that a sweep has listed, and an administrator makes it again
   before the sweep comes to it, the sweep deletes it without a second look.
   That nothing is left behind needs no such premise.
6. *Resumed ISO cleanup*: for a VM that was made again, `iso-cleaned-up` is
   already set; the CD-ROM is removed from the spec first, and if the volume's
   deletion fails then, nothing asks for it again (`cdrom_manager.go:90-91`).
7. *Network data*: it is rendered from the cached NC, which may be older than
   the one this reconcile has just written (`vm_manager.go:221-224`). If the network changed
   between two tries, the older NC is complete without the new interface and
   the VM gets no IP for it: `StaticVMHasAddress` fails, `OneNetworkVMHasAddress` holds.
8. *MAC mismatch*: a status with interfaces that do not have every MAC of the NC
   (an interface of the guest is enough) makes the cleanup refuse for
   good, and the finalizer stays (`network_config.go:348`):
   `OnlyMismatchBlocksDeletion` has it as an exception.
9. *Lagging NC cache*: a reconcile that begins with an older NC draws another
   MAC and, if the cache catches up before it writes, replaces the declared one;
   a deletion may delete a foreign NC on the strength of a copy of ours.
   Hence the premise `~lagged`.
10. *Status*: a status is computed from the copy at the start and written over
    the latest (`status_manager.go:97`). Reconciles that each begin with the copy
    before last can go on writing two statuses in turn; `StatusSettles` assumes
    that this ends. The `Failed` that error events set is overwritten by the
    caller (`:143`, `:158`); the state `Failed` handed over for a PVC or a VM
    (`machine_controller.go:360`, `:376`) is not used; conditions are never
    pruned, failure fields never cleared. The properties ask for the
    failure fields, not for the phase, where this matters.
11. *Rotated secret*: nothing outside the interface calls `InvalidateClient` or
    `InvalidateAll`, so a client with old credentials is used until the process
    ends. Even an invalidation need not help: the new client is built from the
    secret that the informer shows (`cmd/main.go:352-356`,
    `kubevirt_client_manager.go:130`), and if that is the old one, its client is
    cached again. `FreshAfterInvalidation` says what is left: no client older
    than what the informer showed at the invalidation.
12. *Terminating PVC*: the deletion of a PVC is not waited for
    (`storage_manager.go:302-318`), and a Machine created again takes a PVC of its
    name as it is (`:200-206`). If that one is still terminating, the VM is made on
    it and it goes away when nothing protects it, where
    `docs/namespace-flow-diagram.md:130` has the PVCs in the namespace.
    `VMHasItsDisks` and the lifecycle have it as the exception (`borrowed`,
    `lent`): it is the only way a live Machine's VM comes to lack a disk.
13. *Foreign NetworkConfiguration*: `persistMacAddresses` adds its interface to an
    NC of that name also if it does not have our label (`network_config.go:145-174`),
    while the comments on the provider backfill say that "we never silently
    modify NCs owned by another controller" (`:185-186`, `:208-210`). The model
    does the same as the code. Such an NC also makes the cleanup refuse (finding 8).

## Proofs

**`MachineReconciler_proofs`** proves, for every value of the constants that
satisfies `ConstantsAssumption`:

- `TypeCorrect`: `Spec => []TypeOK`. `TypeOK` is not inductive, since a call goes
  to the client chosen some calls before; `ClientChosen` says it was chosen.
- `SerialResourcesFollowPlacement`, `SerialVMHasItsDisks` and
  `SerialPlacementKeptOnceUsed`, under one assumption, which finding 1 shows to be
  needed: `Serial` (`MaxConcurrentReconciles = 1`). Users may annotate late
  whatever chooses the config; Machines whose annotation was overwritten are the
  exception that finding 2 describes, and terminating PVCs that a creation took
  the one of finding 12.
- `SerialPlacementInvariant`, under the same assumption: the invariant itself,
  which the run checks on a small instance.

The argument. `ResourcesFollowPlacement` speaks of the servers; a call acts on
what a reconcile read or chose earlier. `PlacementInvariant` says what that
still means now, per Machine that is not `overwritten` (`Sound`):

- `CopySound`: a copy with the finalizer, however old, shows a Machine that is
  still the same one, in the same placement, as long as the server's copy has
  the finalizer too; a live copy means no VM is being deleted. Only the
  operator removes the finalizer, only when nothing is held, and `AddFinalizer`
  needs the cache to have caught up, so copies of two lives of a name never both
  have it.
- `CreationSound`: the client at hand is the cluster of all that exists and of
  the annotation, if any; from the annotation on it *is* the annotation; and it
  is the shared client, as no other reconcile runs.
- `DeletionSound`: a deletion runs only on a Machine that is not live (or that
  has nothing), knows the one cluster of all that is left, and reaches the
  finalizer only with nothing left.

`ChoosesWhereResourcesAre` is the heart: each of the four ways of choosing a
client agrees with `Sound`. There is one lemma per action, and `Frame` for the
Machines a step does not touch.

**`MachineLifecycle_proofs`** proves `SerialImplementsLifecycle`, the refinement,
under `Serial` and `LateOnlyWithSearch` (users annotate late only where the search
chooses): the abstract specification has no step that replaces a placement, and
finding 2 is one. Each action of the abstract specification has a
lemma (`MapsToPlace`, `MapsToProvideVM`, `MapsToReclaimDisks` and so on) that says
what a step of the variables must look like to be one; each action of the
controller is shown, from `PlacementInvariant`, to be such a step or a stutter.
That is where the invariant is needed: `CreateVirtualMachine` goes through the
shared client, and is a provision *in the placement* only because that client is
the annotation by then; `RemoveMachineFinalizer` writes a copy read earlier, and
is a removal only because nothing is held any more.

**`MachineParallel_proofs`** proves what is left with any number of workers:
`DisksPlaced` and `LiveVMsKept`, under `Reliable`, which is
either `Serial` or `NoSearch`: every Machine is annotated when it is
created or there is a default, nobody annotates later, and there are no Machines
from before annotations. `PlacementInvariant` is of no use here, since the shared
client and with it the place of a VM are anybody's (finding 1).
`ParallelInvariant` leaves that client out, and says of each copy that the cluster
it would choose (`Chosen`) is the placement, recorded or still to be recorded
(`CopyHolds`); that a creation's own client is that cluster (`CreationHolds`); and
that a deletion still under way for a Machine that is gone, or was made again, has
a client where that Machine has no VM (`DeletionHolds`).

**`NADManager_proofs`** and **`BootISO_proofs`** prove the safety properties of the two
modules for any number of Machines, NADs and ISOs, from these inductive
invariants:

- for any number of workers, the types, what a handler knows about its own Machine
  (`Sound`), and that somebody will collect each object the operator made
  (`WillCollect`: a Machine that is there and whose deletion has the object on its
  list, or has yet to list). It follows that nothing is left behind
  (`NothingIsLeftBehind`, `NoISOIsLeftBehind`). No handler needs to know what the others do:
  a deletion takes an object off its list only because it is deleted or for a VM or
  VMI of a Machine, whose own deletion cannot have begun its sweep, since a sweep
  comes after the VM;
- for NADs and any number of workers, also `RaceInvariant`: a collector that is
  about to delete a NAD deletes it under no VM but its own Machine's and those that
  came up since it listed (`StillUnused`, `Exposed`). It gives
  `LiveVMsHaveTheirNADs`;
- for one worker, also that one Machine at most has a reconcile under way
  (`OneReconcile`) and that what it found out about the others' objects still holds
  (`NADsKnown`, `VolumesKnown`). It gives `OneWorkerLosesNoNAD` and
  `AttachedISOsAreImported`, and the action properties `ForeignNADsGoWithTheirUsers`
  and `DeletedISOsAreDetached`; findings 4 and 5 are what happens without it.

**`NetworkConfiguration_proofs`** proves the types (`NCTypeCorrect`) and the four safety properties of the
module, one of them about steps, for any networks, MACs and number of lives. The
inductive invariant `NCInvariant` is the type invariant and, unless some
reconcile began with an old NC, `Sound`:

- `CopySound`: up to its write a reconcile's copy has the *interfaces* that the
  server has, and its kind, except that a foreign NC may have appeared; after the
  write it lacks at most what was written.
- `OwnerSound`: an NC of ours belongs to the Machine that there is (so the
  garbage collector has no reason to take it), and declares something.
- `CreationSound`, `VMSound`: the MAC at hand is the declared one or nothing is
  declared; after the write it is declared, and stays so for the VM; if it is
  the only one and the VM is static, the VM has an IP for it.
- `DeletionSound`: VM, NC, finalizer, in this order.

`WriteKeepsInterfaces` is the heart: a write that the server accepts adds one
interface and replaces none.

**`MachineStatus_proofs`** proves `ConditionPerFailure` and the types for any
number of failures, tries and addresses. A copy, however old, has no more
conditions than there were failures, and fewer if it does not show the failure
that lasts (`Counted`); a reconcile that already has its client began before the
client was lost (`ConfigPending`); a failure of the specification is met only
when there is no VM, and then there is none until it is repaired
(`SpecPending`). The last two are what keeps a copy that shows something else
from being counted twice.

**`ClientManager_proofs`** proves `NoMapRace`, `OneBuildPerConfig` and
`FreshAfterInvalidation` for any number of goroutines, configs and versions.
`ClientInvariant`: the holder of the lock is the one that is in (`TypeOK`), no
reader is in with it (`ReadersOut`); what is cached is the one client built since
the last invalidation, from a secret not older than what the informer showed then
(`CacheSound`; the informer never goes back); a call that
builds has found the cache empty, under a lock it still has, and asks for no more
than the last invalidation (`Sound`).

Only model-checked: liveness (fairness and `ENABLED` are outside the prover's
reach), that is `PlacedMachineDeletes`, `PlacedMachineGetsVM`, `DeletionEnds`,
`LiveMachineGetsVM`, `InstalledISOIsDetached`, `OnlyMismatchBlocksDeletion`,
`ProviderBackfilled`, `NCCollected`, `RunningIsReported`,
`ConfigFailureIsReported`, `ErrorEventsAreReported`, `StatusSettles` and
`CallsReturn`. Every invariant and every action property of a passing run is
stated by a theorem.

## Plan

`MachineReconciler`, `NADManager`, `BootISO`, `NetworkConfiguration`,
`MachineStatus` and `ClientManager` are done. Left:

1. `Storage`: several PVCs of a Machine, their names and ownership.
2. `VMSpec`: disks, image names, CPU and memory conversions as operators against
   reference definitions over bounded inputs.
3. `Startup`: prerequisite checks and provider registration.

Their theorems come with them; `NADManager` and `BootISO` have the parts
(`Sound`, `WillCollect`, `OneReconcile`) that a `Storage` invariant would start
from.

## Not modelled

- Storage beyond one PVC of a Machine in a cluster: further disks, names, a PVC of
  the same name that belongs to another Machine, storage classes, access modes.
- The data of a VM's specification (disks, user data, resources, placement
  policies): construction without state.
- Startup: runs once, in sequence, before the manager starts.
- Other operators' NetworkConfiguration finalizers, and `spec.name` of an NC.
- Leader election (off by default, one replica), TLS, metrics and health
  endpoints, the mock client manager and the test utilities, the wording of logs
  and conditions.
