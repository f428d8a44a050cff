# sds-elastic: verification project

TLA+ models of the controllers of sds-elastic (a Deckhouse module that runs Ceph
through Rook), the TLC runs that check them on small instances, and TLAPS proofs
of the properties that matter most for any instance. Paths below are relative to
the repository; `C/` is `src/images/controller/internal/controller/`, `B/` is
`src/images/controller/internal/builder/`, `W/` is `src/images/webhooks/handlers/`.

    tlc -workers 2 -config OsdStorage_safety.cfg MCOsdStorage
    tlapm OsdStorageProofs.tla

## 1. The system

An operator creates an **ElasticCluster** (EC: which nodes and block devices) and
**ElasticStorageClasses** (ESC: RBD or CephFS, replication). Three reconcilers and
five admission webhooks turn them into objects of other products: BlockDevice,
LVMVolumeGroup and LVMLogicalVolume of sds-node-configurator, PersistentVolumes of
Kubernetes, CephCluster, CephBlockPool and CephFilesystem of Rook,
CephClusterConnection and CephStorageClass of csi-ceph. The reconcilers share no
memory: they meet in the API server. Typed objects are read from informer caches,
which lag; unstructured ones are read live. A reconciler runs one pass per object
at a time, several objects in parallel, and only when an event, a requeue or a
restart has enqueued the object. A pass can end between any two of its calls.

### Inventory

| Component | Where | State it keeps | Operations | What makes it correct |
|---|---|---|---|---|
| EC reconciler | `C/elastic_cluster_controller.go` | finalizer, stage conditions, status fields, work queue | stages StorageReady, CephClusterReady, CredentialsReady, CsiCephReady, UpgradeReady in order; status write; requeue unless Ready | a stage runs only after those before it; verdicts of two passes do not mix; the status follows the world |
| Storage stage | `C/elastic_cluster_storage.go`, `B/ec_storage.go` | owner label of each BlockDevice, an LVG, LLV and PV per device, OSD count and PVC request of the CephCluster | select, claim (optimistic lock), provision, gate | one owner per device, objects in order, the count never falls and is backed |
| CephCluster, topology, upgrade | `C/elastic_cluster_{rook,topology,upgrade}.go`, `B/ec_rook.go`, `B/ec_placement.go` | CephCluster spec, `status.cephTopology`, UpgradeReady and UpgradeInProgress | compute the sticky counts, upsert, probe Rook's report | no silent demotion, truthful upgrade report |
| Credentials, csi-ceph | `C/elastic_cluster_{credentials,csiceph}.go`, `B/ec_csiceph.go` | CephClusterConnection, identity in the EC status | read Secret and ConfigMap, take the key from the ECC, upsert | the connection follows Secret, mirror and monitors |
| ECC reconciler | `C/elastic_cluster_credential_controller.go` | ElasticClusterCredential: mirror of the Secret, phase | get or create, patch, status under retry | identity kept, phase truthful |
| EC teardown | `C/elastic_cluster_teardown.go` | finalizer, deletion of CephCluster and connection | dependent guard, delete, confirm, drop the finalizer | guard honoured, nothing left behind, it ends |
| ESC reconciler, teardown | `C/elastic_storage_class_*.go`, `B/esc_*.go` | finalizer, pool or filesystem, CephStorageClass, force annotation | gate on the EC, upsert; bound-volume guard, force, destroy-on-delete, delete, confirm | no data lost that the operator has not given up, nothing left behind |
| EC webhook | `W/ec_validator.go` | none | refuse updates that orphan a device or match a foreign one | edits cannot drop or steal devices |
| ECC webhook | `W/ecc_validator.go` | none | refuse a new FSID | identity of a backup |
| ESC webhook | `W/esc_validator.go` | none | immutable fields; HighRedundancy preflight (5 nodes, 4 with OSDs) | promotion only where it can hold |
| ModuleConfig webhook | `W/mc_validator.go` | none | refuse to disable while ECs exist | no orphaned Ceph cluster |
| vendor CR webhook | `W/vendorCRValidator.go` | none | only the controllers touch Rook's objects | nobody else does; it does not outlive its pod |
| DataNodeWatcher | `C/data_node_watcher_controller.go` | label of each Node | add to matching, remove from stale nodes | labels follow the selector, a broken selector changes nothing |
| Hooks | `src/hooks/go/` | none | after a module delete strip finalizers and delete two webhook configurations; certificates | success means that nothing is held any more; it ends |
| Observability | `C/elastic_cluster_observability.go` | health, capacity, counts in the status | best-effort snapshot | the snapshot follows the cluster |
| Wiring, tools, tests | `src/images/*/cmd`, `C/shared.go`, `src/templates`, `src/crds`, `src/e2e`, `src/hack` | | | |

Interactions: EC and ESC reconciler meet in the condition CephClusterReady
(`getReadyEC`), in the list of dependent classes (`dependentESCNames`) and in the
HighRedundancy classes that promote the mons; EC and ECC reconciler in the
credential object; several ECs in the owner labels; the controllers and their own
webhook in every update of an EC, the finalizer patches included; everybody with
Rook, csi-ceph, sds-node-configurator and the PV binder through spec and status.

What is hard: passes of two clusters that race for a device; copies that are
outdated when they are used; passes cut short between two calls; objects that
others change between two passes (sizes, labels, phases, versions); events that
never come; deletion while others still create. `PROJECT.json` lists each such
place with its line under `hazards`.

## 2. The modules

Every module has one action per call the code makes to the API server, so that
anything can happen between two calls, and a local-variable record per pass for
what the code carries from one call to the next. Definitions keep the names of
the functions they model; `PROJECT.json` `map` gives the lines of each. Mutated
forms used to test the properties sit before the definition they alter and end in
`_Name`; no specification uses them.

### Stages (`MCStages`, `StagesProofs`)

The machine that both reconcilers share: work queue and timer, the watches set up at
start-up (a dependency whose CRD is missing then is not watched before a restart),
`reconcileNormal` over the stages in order with `advance` and `gateAfter`,
`deriveECPhase`, `finishReconcile`, the predicates on deletion and generation, the
health snapshot of `populateObservability`. `kind` picks the controller: five stages
or two. What a stage finds is a set of sources that are up or down (`Needs`), and
`Told` says which watch tells of each. The library `conditions.Stages` is not under
`src/`; `Gated`, `Merged` and `PhaseOf` model it from its use.

### OsdStorage (`MCOsdStorage`, `OsdStorageProofs`), SingleOwner (`SingleOwnerProofs`)

The storage stage for a set of clusters and block devices: `ensureStorage` with
`listMatchingBlockDevices`, `adoptBlockDevice`, the upserts of LVG, LLV and PV, the
gates between them, and the part of `ensureCephCluster` that writes the count and
the PVC request. `job[e]` is the pass of cluster `e`: `pc` where it is, `selected`,
`skipped`, `owned` and `todo` the lists of the code, `current` the copies whose
resourceVersion is still that of the API server (the optimistic lock), `capacity`
the sizes it has read. Selectors are sets of devices and of device nodes, which
`EditSelectors` changes as the webhook allows and `DriftNode`/`DriftDevice` change
under the controller's feet. External: the storage agent moves LVG and LLV from
pending to ready and may degrade them, the binder publishes PVs, the operator
relabels or decommissions a device by hand (recorded in `touched`).

`SingleOwner` is what the stage promises: a disk is claimed only while it is nobody's,
used only by its owner, and once counted stays counted, the operator's hand excepted.
`OsdStorage` implements it under the mapping `used <- Used`, `counted <- deviceSet`,
`released <- touched` (property `ImplementsClaims`, theorem `ClaimsRefined`).

### Teardown (`MCTeardown`, `TeardownProofs`), Custody

One EC and its ESCs from creation to removal: the upserts of CephCluster,
connection, pool and CephStorageClass on one side, `reconcileDelete`,
`reconcileDeleteESC`, `teardownRBD` and `teardownCephFS` on the other. `known` and
`boundSeen` are what the informer caches show of the classes and of the bound
volumes. Rook removes what nothing blocks (dependents and volumes for the
CephCluster, data in a pool without force-deletion). Operators create, delete,
authorise and take the authorisation back; applications bind, release and discard
volumes. `lateBinds` and `newcomers` remember what the controller could not know of,
`lost` and `orphaned` what went wrong. The webhook refuses finalizer removals while
`drifted`. Passes are cut short at any call, any number of times, until `calm`.

`Custody` is what the teardown promises about data, with no pass, no finalizer, no
connection and no CephStorageClass in it: a pool is given up only for a class whose
deletion was requested, never under a volume that was bound in time, and its data goes
only on the operator's word; a backend is given up only when every class left is one
nobody could know of; nothing is called gone before what it stands for is gone.
`Teardown` implements it under the mapping `cluster <- ecState`, `class <- escState`,
`backend` and `pool` what Rook is asked for (`Given`: absent, kept or deleting),
`doomed` the filesystems to be destroyed, `authorized` the classes that ever had the
force annotation, `full` and `bound` from the data and the volumes,
`unknown <- newcomers`, `late <- lateBinds` (property `ImplementsCustody`, theorem
`CustodyRefined`). The promise covers what `GuardHolds`, `PurgeAuthorized` and
`DependentsGuarded` say one by one.

### Rollout (`MCRollout`, `RolloutProofs`)

The stages around the CephCluster for one EC: `computeCephTopology`,
`buildCephTopologyStatus`, the upsert of counts and image, `probeCephUpgradeState`,
`ensureUpgrade` and the status write, with Rook's target, its daemons rolled one
after the other, the versions it reports late and its phase. The status of the EC
is read from a cache (`topoSeen`). Versions are numbers; the other stages succeed
or not. `waived` is set when the recorded counts may be below those asked of Rook (the
record was cleared, read late, or not written by a pass cut short) and taken back by
the next status write that covers them.

### Credentials (`MCCredentials`, `CredentialsProofs`)

FSID, admin key and monitors from Rook's Secret and ConfigMap through the mirror
(ECC) into the connection: both reconcilers with their work queues (`eccQ`, `ecQ`),
the cache of the ECC, its generation and status, the merge patch computed from an
outdated copy, the webhook. Secret and ConfigMap are modelled as the caches show
them, since nothing else of the system reads them; the EC of the credential exists
throughout.

### StorageClassAdmission (`MCStorageClassAdmission`, `StorageClassAdmissionProofs`)

`NewElasticStorageClassValidator` and `validateHighRedundancyTopology`, one read per
step, while nodes, devices and the cluster come and go, its selector is edited, and the
class is deleted and created again. The review takes the selector from the copy of the
cluster it has read (`GetCluster`) and lists the nodes with that copy (`ListNodes`).
`EditSelector` lets any edit through, which is more than the webhook of the cluster
does: what that refuses rests on lists of its own that are older than the edit.
`promoted` is what `computeCephTopology` makes of an admitted class. The histories
`wide` and `spread` say that a cluster has had enough nodes under the selector it had
then, and enough nodes with devices, since its creation; `overtaken` that it went while
a class or a review had already relied on it; `misjudged` that enough nodes were
counted by a selector the cluster had no longer. The last is a gap of the code: a class
can be admitted to a cluster that never had enough nodes (`PromotionVetted` excuses it,
for the count of the nodes only).

### DataNodes, ModuleLife (`MCModuleLife`, `ModuleLifeProofs`)

`DataNodes` is the DataNodeWatcher: `reconcileDataNodes` with its two lists and two
loops, strict parsing, the Secret's events and the periodic requeue, and nodes that
others relabel. `ModuleLife` EXTENDS it with the life of the module: the
ModuleConfig webhook (review and commit are two steps), Helm's installation and
removal, the finalizer hook, kind after kind in the order of
`CRGVKsForFinalizerRemoval`, with list and patch errors, aborted runs and Deckhouse's
reruns. The five webhooks are all called fail-closed: served, the vendor webhook keeps
operators from Rook's objects; without a pod each refuses every write
that it intercepts (`Interceptor`, from the rules of
`src/templates/controller/controller.yaml`), the finalizer patches of the hook included. Helm may leave any of the five behind. The
hook deletes two of them (`WebhookConfigurationsToDelete`, from `consts.go:35`), after
the Secrets and ConfigMaps and before the custom resources. A configuration of the EC, ESC or ECC webhook that is left behind
over an object with a finalizer refuses that patch in every rerun, and nothing in the
code deletes it (`Wedged`); with no such object left it stays behind a hook that
succeeds. The code relies on Helm for these three. A loop of patches is one step:
the patches go to different nodes, and each is judged on a copy listed before.

## 3. The runs

| Run | Instance | What it shows |
|---|---|---|
| `storage_safety` | 2 clusters, 2 devices of sizes 2 and 1, 2 workers, 1 disturbance of any kind, symmetric clusters | PlumbingOwned, CountedDevicesBacked, ImplementsClaims, StageBarrier |
| `storage_live` | the same with 1 worker and overlapping selectors, growth allowed, fair | PvcRequestFits, EventuallyProvisioned |
| `storage_conflict` | overlapping selectors, no disturbance | violated: ConflictSurfaced (`src/docs/USAGE.md:168`) |
| `teardown` | one class of either type at a time, passes cut short at will | NothingLeft, NoFilesystemOrphaned, ImplementsCustody |
| `teardown_live` | one RBD class (the end of a filesystem's teardown is not checked), passes cut short until the errors end, fair | EscTornDown, EcTornDown |
| `teardown_stale` | a class created during the teardown of its cluster | violated: PoolHasCluster (`C/elastic_storage_class_stages.go:36`) |
| `rollout` | 2 daemons, 2 versions, late reads, one pass cut short, fair | DemotionAccounted, SignalAccurate, UpgradeReadyTruthful, RestMeansServed, EventuallyPromoted, EventuallyUpgraded |
| `rollout_gate` | no pass cut short | violated: HealthGate (`C/elastic_cluster_upgrade.go:73`) |
| `credentials` | 2 Ceph clusters in turn, 2 keys, 1 move of the monitors, 1 removal of the Secret, one pass cut short, fair | PopulatedMeansComplete, IdentityKept, RestMeansConnected, EventuallyConnected |
| `stages` | either controller, five sources that come and go, two kinds whose CRD may be late, 2 generations, errors and restarts until `calm`, fair | StatusConsistent, RestMeansReady, Converges, SourcesFollowed, SnapshotFollows |
| `admission` | thresholds 2 and 2, 2 nodes, 2 interchangeable selectors, 3 devices (two on one node), a cluster that comes and goes and the name of one that never exists | PromotionVetted, HarmlessUpdatesPass |
| `module` | 1 node, 2 zones, a namespaced kind, a cluster-wide one and one of Rook's, any of the five webhooks left behind, fair | HookThorough, DisableGuarded, Unwedged, PatchesJustified, LabelsFollow |

Each passing module is also checked for its TypeOK. The violation runs state what a
comment or a document says; `PROJECT.json` `findings` quotes it beside what the code
does. Three further statements of the sources are not met and have no run of their
own, because a property of a passing run already states exactly what does hold:

- `C/elastic_cluster_storage.go:122` says the PVC request is the minimum of the PV
  capacities. It is the minimum of the current disk sizes: after a disk has grown,
  the request exceeds the capacity of its PV. `PvcRequestFits` excepts such disks.
- `external/gvk.go:107` says the force annotation never bypasses the bound-volume
  guard. A volume bound after the guard has looked goes with the purged pool.
  `Custody` (its `Released`) excepts the volumes in `lateBinds`, and nothing else.
- `C/elastic_cluster_topology.go:65` says a deleted HighRedundancy class never demotes
  the mons silently. A pass cut short between the upsert and the status write makes it
  so. `DemotionAccounted` allows it then, after a cleared record and after a late read,
  and only until a later pass has recorded what Rook was asked for.

**Bounds.** Two clusters and two devices are the least that can contend for one
device while another is provisioned undisturbed, and two sizes the least for which
a minimum matters; a race needs two workers. Disturbances of the storage stage are
bounded at one: every property speaks of what one fault at any point does, and a
second fault multiplies the states without a new kind of step. The proofs have no
such bound. Daemons are ordered and rolled in turn, so two give a mixed cluster; two
versions one upgrade. `MaxClasses = 1` lets one class exist, of either type: classes
interact only through the guard of the cluster, which looks at each by itself. In
`stages` the five sources cover each way a pass hears of something: by a watch from
the start, by a watch that may be missing, by a transition of another object's
condition, and not at all. In `admission` two is the least threshold for which two
devices on one node differ from two nodes, and two selectors the least for an edit; a
device whose node has not been observed yet is left to the proof. In `module` nodes are relabelled one by one
and do not interact, and the hook treats all kinds of a sort alike. Symmetry is used
in `storage_safety`, between the clusters, and in `admission`, between the selectors; no
definition orders or names them, and the temporal properties of these runs are safety
properties that treat them alike. CHECK_DEADLOCK is off
because with the bounds used up, or everything torn down or uninstalled, there is
nothing left to do.

**Fairness.** A pass that has begun goes on (weak fairness of its steps). In
OsdStorage a cluster that is not ready begins again and again: `finishReconcile`
returns RequeueAfter, and a worker gets free again and again, hence strong
fairness of `Begin` while not ready. In Teardown objects under deletion are
requeued in the same way. In Stages, Rollout, Credentials and DataNodes the queue is
explicit: an enqueued pass starts, a timer fires, and nothing else starts a pass,
which is what the liveness properties test. Caches catch up. `Settle` (Teardown,
Stages, DataNodes) ends API errors, crashes and, for nodes, drifts: with an error in
every pass, or a node relabelled between every list and patch, nothing could be
promised. Everything else may go on for ever; in particular the sources in Stages
and the selector in ModuleLife never come to rest. Deckhouse removes a
disabled module and reruns a failed hook. Rook, csi-ceph, the storage agent and the
binder do what nothing blocks, except in Credentials, where nothing is asked of Rook.
`SnapshotFollows` asks in addition for Rook's periodic health check, without which a
snapshot lost in the last pass would stay lost. Operators, applications and health are
under no fairness; in Rollout the other stages succeed if tried again and again.

## 4. The proofs

Checked by tlapm for every value of the constants. The assumptions are the named ones
of the modules: devices are natural numbers and `NoOwner` is no cluster
(OsdStorage), thresholds are positive, `NoNode` is no node, `NoClass` no class and
`NoSelector` no selector (StorageClassAdmission),
late kinds are dependencies (Stages), zones are none of the reserved selector values
and the kinds are the hook's and include those the text names (ModuleLife); bounds are
naturals. SingleOwner is assumption-free but for `NoOwner \notin EC` in its two
theorems. Every safety property of every passing run is a theorem.

`OsdStorageProofs`
- `TypeCorrect`: TypeOK is inductive as it stands; one step per action.
- `Ownership`, `PlumbingIsOwned`: PlumbingOwned alone is not inductive: a pass that is
  about to create an LVG must know that the device is its own. `OwnershipInv` says what
  a pass knows: `CopiesTrue` (a copy that carries our label tells the truth; a copy that
  is still current tells that nobody owns the device, and any write of the label by
  another pass ends its currency: `Outdated`), `ClaimedFirst` (at the step that writes
  the LVG, and for all devices dealt with before, the label is ours) and `PassShape`.
  Most steps of the world leave the claims alone and are handled by one lemma
  (`CalmPreserves`).
- `Counting`: `CountInv` says that a pass works on every device counted already (the
  sticky part of `listMatchingBlockDevices`: without it a drift would drop a device from
  the count) and that what it has adopted has its volume group.
- `ClaimsRefined`: with both invariants every step of the stage is a step of
  `SingleOwner` or a stutter, one lemma per action.
- `StagesAreBarriers`: `BarrierInv`, a gate that was passed has seen all objects
  ready, and they can only have been degraded since.
- `CountedAreBacked`: from `CountInv` and `BarrierInv`. The count is written behind the
  last gate, and what has been ready stays so but for the operator's hand (`ChainReady`).
- `PvcRequestsFit`: `SizesInv` ties the sizes a pass has read to the current ones
  and to the capacities of the PVs.

`SingleOwnerProofs`: `NoSharedDisk` and `ClaimsKept`, consequences of the promise
alone, and so of the storage stage.

`TeardownProofs`: `TeardownInv` is TypeOK with `EcInv` and `EscInv` (objects and passes
exist only under the finalizer; what a pass has confirmed gone cannot come back, since
nothing creates under deletion; a pool is marked and deleted only behind the guard, and
a purge mark only after an authorisation) and `DependentsInv` (once the deletion of the
cluster is requested, cache or history accounts for every class).
- `CustodyRefined`: under `TeardownInv` every step of the teardown is a step of `Custody`
  or a stutter, one lemma per action. Each lemma gets the guard of the abstract action
  from what the invariant says of the `pc` at which the code acts: a pass cannot look
  again between the guard and the deletion, so the guard must still hold when it acts
  (`BoundInTime`, `DependentsInv`), and a filesystem must have been set to be destroyed
  before (`DestroyFirst`, which fails if the setting outlives the pool).
- `CustodyKept`: a consequence of the promise alone. What is under deletion stays behind
  its guard for as long as it is, and what is gone has nothing left.
- `NothingStays`, `FilesystemsDestroyed`, and the three guards one by one:
  `BoundVolumesGuarded`, `PurgesAuthorized`, `ClustersOutliveClasses`.

**No lost wake-up.** Three theorems, all called `NothingMissed`, say that a controller
which nothing will start any more has nothing left to do: in Stages (`RestMeansReady`),
Rollout (`RestMeansServed`) and Credentials (`RestMeansConnected`). They are the safety
half of the liveness properties and need no fairness. A pass under way with an empty
queue knows what is so *now* (`PassCurrent` in Stages and Rollout, `ConnCurrent` in
Credentials), since whatever changed behind it would have left the key in the queue;
hence a pass that ends content ends rightly. In Credentials the backup must be current
first (`BackupCurrent`, on top of `MirrorInv`), because the connection takes its key
from it. The DataNodeWatcher hears of no node and so may never rest while there is a
Secret: `WatcherStaysAwake` in ModuleLife (`WatcherAwake`, which no run lists).

`RolloutProofs`: `RolloutInv` is TypeOK with `FloorInv` (unless waived, the record,
until a pass asks for more, and what each pass has read and computed cover the counts
asked of Rook; mon and mgr rise together),
`VersionsOrdered`, `ReportSound` and `PassSound` (what Rook has reported and a pass
has read can lag behind the daemons, but a single version that equals the desired one
leaves no daemon behind, because daemons only go forward), and `SignalSound`.

`CredentialsProofs`: `CredentialsInv` is TypeOK, `NothingAhead` (no copy and no cache
holds an FSID or a key that Rook has not issued, without which the bound in TypeOK is
not inductive) and `BackupExists` (a backup that does not exist has no identity: the
creation cannot wipe one). `PopulatedIsComplete` needs `MirrorInv` on top:
`GenerationsTell` (a copy of the same generation has the same spec) and
`PassReliable` (whenever the phase could mislead, a pass is under way, queued or will be
when the cache catches up).

`StagesProofs`: `StageInv` adds that a pass has judged an initial segment of the stages,
all True, and that finished verdicts cover every stage.

`StorageClassAdmissionProofs`: `VettingInv` says what the review has established at
each read, and that a stored class, or a promotion, was vetted or overtaken. Behind the
list of the nodes it holds that a sufficient count was taken with the selector the
cluster had at that moment, so that `wide` holds, or that `misjudged` says otherwise.

`ModuleLifeProofs`: `LifeInv` has `GatheredInv` (lists are still right for nodes about
which nothing has changed), `DisableInv` (a disable on its way has seen no cluster, or
was waived) and `ClearedInv` (a run of the hook without a failure has freed the kinds
behind it and deleted the two listed webhook configurations but those it could not read,
and nothing puts a finalizer back once the controllers are gone).

Only model-checked: the eleven liveness properties (EventuallyProvisioned, EscTornDown,
EcTornDown, EventuallyPromoted, EventuallyUpgraded, EventuallyConnected, Converges,
SourcesFollowed, SnapshotFollows, and in ModuleLife Unwedged and
LabelsFollow), since fairness and ENABLED are out of the prover's reach. `Unwedged` says that
the removal ends or is `Wedged`, and nothing less holds of the code. No module
declares a RECURSIVE operator.

## 5. Not modelled

- Certificates, release notes, end-to-end tests: not part of the controllers, or a
  call into the module SDK.
- Names, messages, capacity and daemon counts of the status, the parsing of
  selectors, endpoints and version strings, the layout of pools and placement.
- In OsdStorage the device node and the device labels are seen through the set of
  devices they select. Informer lag matters only in the modules where typed
  objects are read (Teardown, Rollout, Credentials); BlockDevice, LVG and LLV are
  unstructured and read live.
- Several storage classes at once, several classes of one cluster with different
  replication: the guards look at each by itself.
- Some hazards have no property, and a note in `PROJECT.json`: the order of the node
  affinity terms, a request to clear the topology that a pass overwrites, a disk that
  grows. Others have one that tolerates the fault in the stated window, because the code
  does nothing about it, and catches what goes beyond it: the demotion until a later pass
  has recorded what was asked for (`DemotionAccounted`), the selector copy of a preflight
  (`PromotionVetted`), a cluster created behind the list of the ModuleConfig webhook
  (`DisableGuarded`), a left-behind EC, ESC or ECC webhook (`Unwedged`).

## 6. Plan

Done: the core (OsdStorage, Teardown, Rollout, Credentials), the shared machine
(Stages), admission (StorageClassAdmission), the module's life and the node labels
(ModuleLife, DataNodes), the abstract promises of the storage stage (SingleOwner) and of
the teardown (Custody) with their refinements, and proofs of all safety properties, the
absence of lost wake-ups among them.

Worth doing next: the composition of StorageClassAdmission with Rollout and of
ModuleLife with Teardown in one state space, which TLC cannot hold at the present
level of detail and which would need abstract specifications of both sides first; and
the parsing of version strings as a pure function against a numeric reference.
