----------------------------- MODULE OsdStorage -----------------------------
(***************************************************************************)
(* The storage stage of the ElasticCluster reconciler: how BlockDevices    *)
(* are selected, claimed by a label, and turned one after the other into   *)
(* LVMVolumeGroup, LVMLogicalVolume and local PersistentVolume, up to the  *)
(* device count and PVC request written into the Rook CephCluster.         *)
(*                                                                         *)
(* A reconcile pass is one job per ElasticCluster; each of its calls to    *)
(* the API server is a step, so passes of different clusters, the storage  *)
(* agent (sds-node-configurator), the PV binder, the operator, API errors  *)
(* and controller restarts interleave between any two calls.               *)
(***************************************************************************)
EXTENDS Naturals, FiniteSets

CONSTANTS
  EC,              \* ElasticClusters
  BD,              \* BlockDevices, numbered in the order of their names
  NoOwner,         \* the value of an absent or empty ownership label
  Selections,      \* the sets of BlockDevices a blockDeviceSelector can match
  Size0,           \* the initial status.size of each BlockDevice
  MaxSize,         \* bound: devices are grown up to this size
  MaxConcurrentReconciles,   \* worker count of the controller
  MaxDisturbances  \* bound on operator edits, drifts, faults and restarts

ASSUME ConstAssumption ==
  /\ BD \subseteq Nat
  /\ NoOwner \notin EC
  /\ Selections \subseteq SUBSET BD
  /\ Size0 \in [BD -> Nat]
  /\ MaxSize \in Nat
  /\ MaxConcurrentReconciles \in Nat
  /\ MaxDisturbances \in Nat

VARIABLES
  owner,       \* BlockDevice label sds-elastic.deckhouse.io/cluster
  free,        \* BlockDevices whose status.consumable is true
  bdStatus,    \* whether status.nodeName and status.size can be used
  size,        \* status.size
  bdSel,       \* BlockDevices whose labels match the cluster's blockDeviceSelector
  nodeSel,     \* BlockDevices whose node matches the cluster's nodeSelector
  finalizer,   \* clusters that carry the teardown finalizer
  lvg, llv, pv,\* phase of the cluster's objects on each BlockDevice
  pvCapacity,  \* spec.capacity of the PersistentVolume, set when it is created
  deviceSet,   \* the devices counted in CephCluster storageClassDeviceSets[0].count
  pvcRequest,  \* its volumeClaimTemplates[0] storage request
  storageReady,\* the published StorageReady condition: "True" or the reason of False
  job,         \* the reconcile pass in progress
  touched,     \* history: BlockDevices whose label or plumbing the operator edited
  disturbances \* how much of MaxDisturbances is used up

bdVars   == <<owner, free, bdStatus, size>>
specVars == <<bdSel, nodeSel>>
osdVars  == <<lvg, llv, pv, pvCapacity>>
cephVars == <<deviceSet, pvcRequest>>
vars == <<bdVars, specVars, finalizer, osdVars, cephVars, storageReady, job,
          touched, disturbances>>

(***************************************************************************)
(* "ready" is the target phase of each kind: Ready for an LVG, Created for *)
(* an LLV, Available or Bound for a PV.  "degraded" is any other phase an  *)
(* object that has been ready may fall back to.                            *)
(***************************************************************************)
Phase    == {"absent", "pending", "ready", "degraded"}
BdStatus == {"ok", "noNode", "badSize"}
Reason   == {"Unknown", "True", "ReconcileFailed", "OwnershipConflict",
             "NoBlockDevices", "WaitingForBlockDevices", "WaitingForLVG",
             "WaitingForLLV", "WaitingForPV"}
Pc       == {"idle", "list", "adopt", "lvg", "gateLVG", "llv", "gateLLV",
             "pv", "gatePV", "ceph"}

\* The local variables of a pass.  `selected` are the matched BlockDevices,
\* `skipped` those of them with an unusable status, `owned` those whose copy
\* carries our label, `current` those whose copy still has the resourceVersion
\* of the API server, `todo` what the current loop has left.
Job == [pc : Pc, bdSel : SUBSET BD, nodeSel : SUBSET BD, selected : SUBSET BD,
        skipped : SUBSET BD, owned : SUBSET BD, current : SUBSET BD,
        todo : SUBSET BD, capacity : [BD -> Nat]]

IdleJob == [pc |-> "idle", bdSel |-> {}, nodeSel |-> {}, selected |-> {},
            skipped |-> {}, owned |-> {}, current |-> {}, todo |-> {},
            capacity |-> [b \in BD |-> 0]]

TypeOK ==
  /\ owner \in [BD -> EC \cup {NoOwner}]
  /\ free \in SUBSET BD
  /\ bdStatus \in [BD -> BdStatus]
  /\ size \in [BD -> Nat]
  /\ bdSel \in [EC -> SUBSET BD]
  /\ nodeSel \in [EC -> SUBSET BD]
  /\ finalizer \in SUBSET EC
  /\ lvg \in [EC -> [BD -> Phase]]
  /\ llv \in [EC -> [BD -> Phase]]
  /\ pv \in [EC -> [BD -> Phase]]
  /\ pvCapacity \in [EC -> [BD -> Nat]]
  /\ deviceSet \in [EC -> SUBSET BD]
  /\ pvcRequest \in [EC -> Nat]
  /\ storageReady \in [EC -> Reason]
  /\ job \in [EC -> Job]
  /\ touched \in SUBSET BD
  /\ disturbances \in Nat

Init ==
  /\ owner = [b \in BD |-> NoOwner]
  /\ free \in SUBSET BD
  /\ bdStatus = [b \in BD |-> "ok"]
  /\ size = Size0
  /\ bdSel \in [EC -> Selections]
  /\ nodeSel = [e \in EC |-> BD]
  /\ finalizer = {}
  /\ lvg = [e \in EC |-> [b \in BD |-> "absent"]]
  /\ llv = [e \in EC |-> [b \in BD |-> "absent"]]
  /\ pv = [e \in EC |-> [b \in BD |-> "absent"]]
  /\ pvCapacity = [e \in EC |-> [b \in BD |-> 0]]
  /\ deviceSet = [e \in EC |-> {}]
  /\ pvcRequest = [e \in EC |-> 0]
  /\ storageReady = [e \in EC |-> "Unknown"]
  /\ job = [e \in EC |-> IdleJob]
  /\ touched = {}
  /\ disturbances = 0

-----------------------------------------------------------------------------
(* Operators on the state and on a pass. *)

\* The list is sorted by device name.
IsFirst(b, S) == b \in S /\ \A c \in S : b <= c

IsSmallest_Inverted(b, S, capacity) == b \in S /\ \A c \in S : capacity[b] >= capacity[c]
IsSmallest(b, S, capacity) == b \in S /\ \A c \in S : capacity[b] <= capacity[c]

\* Any write to a BlockDevice moves its resourceVersion: the copies that
\* passes hold of it are no longer current.
Outdated_NoLock(jobs, b) == jobs
Outdated(jobs, b) == [e \in EC |-> [jobs[e] EXCEPT !.current = @ \ {b}]]

OwnedBy(e) == {b \in BD : owner[b] = e}
ForeignOwned(e) == {b \in BD : owner[b] \in EC \ {e}}

\* Admission of an UPDATE of the ElasticCluster: the selector pair may not
\* orphan an adopted device nor match one that another cluster owns.
Hosted(nodes) == {b \in nodes : bdStatus[b] # "noNode"}
Orphans(e, bds, nodes) == OwnedBy(e) \ (bds \cap Hosted(nodes))
Conflicts(e, bds) == bds \cap ForeignOwned(e)
UpdateAdmitted(e, bds, nodes) ==
  Orphans(e, bds, nodes) = {} /\ Conflicts(e, bds) = {}

\* The two populations of listMatchingBlockDevices.
Sticky_Selected(e) == OwnedBy(e) \cap bdSel[e]
Sticky(e) == OwnedBy(e)
Enrollable(e, bds, nodes) ==
  (bds \ ForeignOwned(e)) \cap free \cap Hosted(nodes)
Matching(e, bds, nodes) == Sticky(e) \cup Enrollable(e, bds, nodes)

Busy == {e \in EC : job[e].pc # "idle"}

\* The pass ends; its StorageReady condition is published.
Finish(e, reason) ==
  /\ storageReady' = [storageReady EXCEPT ![e] = reason]
  /\ job' = [job EXCEPT ![e] = IdleJob]

Proceed(e, pc, todo) ==
  /\ job' = [job EXCEPT ![e].pc = pc, ![e].todo = todo]
  /\ UNCHANGED storageReady

AllReady_SomeReady(phases, S) == \E b \in S : phases[b] = "ready"
AllReady_OffByOne(phases, S) ==
  Cardinality({b \in S : phases[b] = "ready"}) > Cardinality(S)
AllReady(phases, S) == \A b \in S : phases[b] = "ready"

Created_NoPhase(phase) == IF phase = "absent" THEN "" ELSE phase
Created(phase) == IF phase = "absent" THEN "pending" ELSE phase
ReachedReady(phase) == phase \in {"ready", "degraded"}

-----------------------------------------------------------------------------
(* One reconcile pass of cluster e. *)

\* Reads the ElasticCluster from the cache and makes sure it carries the
\* finalizer.  The finalizer patch is an UPDATE, so the admission webhook
\* judges it too; when it is rejected the pass ends in an error before any
\* condition is written, and nothing has changed.
Begin(e) ==
  /\ job[e].pc = "idle"
  /\ Cardinality(Busy) < MaxConcurrentReconciles
  /\ e \in finalizer \/ UpdateAdmitted(e, bdSel[e], nodeSel[e])
  /\ finalizer' = finalizer \cup {e}
  /\ job' = [job EXCEPT ![e].pc = "list", ![e].bdSel = bdSel[e],
                        ![e].nodeSel = nodeSel[e]]
  /\ UNCHANGED <<bdVars, specVars, osdVars, cephVars, storageReady, touched,
                 disturbances>>

\* Lists the devices.  A foreign-owned match stops the stage before anything
\* is touched, and so does an empty selection.
ListMatchingBlockDevices(e) ==
  LET conflicts == Conflicts(e, job[e].bdSel)
      matched   == Matching(e, job[e].bdSel, job[e].nodeSel)
      skipped   == {b \in matched : bdStatus[b] # "ok"}
  IN  /\ job[e].pc = "list"
      /\ \/ /\ conflicts # {}
            /\ Finish(e, "OwnershipConflict")
         \/ /\ conflicts = {}
            /\ matched = {}
            /\ Finish(e, "NoBlockDevices")
         \/ /\ conflicts = {}
            /\ matched # {}
            /\ job' = [job EXCEPT ![e] =
                 [@ EXCEPT !.pc = "adopt", !.bdSel = {}, !.nodeSel = {},
                           !.selected = matched, !.skipped = skipped,
                           !.owned = matched \cap OwnedBy(e),
                           !.current = matched \ OwnedBy(e),
                           !.todo = matched \ skipped, !.capacity = size]]
            /\ UNCHANGED storageReady
      /\ UNCHANGED <<bdVars, specVars, finalizer, osdVars, cephVars, touched,
                     disturbances>>

\* Claims the next device.  The label is patched under an optimistic lock: a
\* copy that is not current is refused with 409, a plain reconcile error.
AdoptBlockDevice(e, b) ==
  /\ job[e].pc = "adopt"
  /\ IsFirst(b, job[e].todo)
  /\ \/ /\ b \in job[e].owned
        /\ Proceed(e, "lvg", job[e].todo)
        /\ UNCHANGED owner
     \/ /\ b \in job[e].current
        /\ owner' = [owner EXCEPT ![b] = e]
        /\ job' = [Outdated(job, b) EXCEPT ![e].pc = "lvg"]
        /\ UNCHANGED storageReady
     \/ /\ b \notin job[e].owned \cup job[e].current
        /\ Finish(e, "ReconcileFailed")
        /\ UNCHANGED owner
  /\ UNCHANGED <<free, bdStatus, size, specVars, finalizer, osdVars, cephVars,
                 touched, disturbances>>

\* Creates the LVG of the device just claimed, unless it exists.
UpsertLVG(e, b) ==
  /\ job[e].pc = "lvg"
  /\ IsFirst(b, job[e].todo)
  /\ lvg' = [lvg EXCEPT ![e][b] = Created(@)]
  /\ Proceed(e, "adopt", job[e].todo \ {b})
  /\ UNCHANGED <<bdVars, specVars, finalizer, llv, pv, pvCapacity, cephVars,
                 touched, disturbances>>

\* Every device has its LVG.  A skipped device ends the pass here.
FinishAdoption(e) ==
  /\ job[e].pc = "adopt"
  /\ job[e].todo = {}
  /\ \/ /\ job[e].skipped # {}
        /\ Finish(e, "WaitingForBlockDevices")
     \/ /\ job[e].skipped = {}
        /\ job' = [job EXCEPT ![e].pc = "gateLVG", ![e].owned = {},
                              ![e].current = {}]
        /\ UNCHANGED storageReady
  /\ UNCHANGED <<bdVars, specVars, finalizer, osdVars, cephVars, touched,
                 disturbances>>

\* A barrier: the objects of every selected device are ready, or the pass ends.
Gate(e, at, phases, waiting, next) ==
  /\ job[e].pc = at
  /\ \/ /\ AllReady(phases, job[e].selected)
        /\ Proceed(e, next, job[e].selected)
     \/ /\ ~AllReady(phases, job[e].selected)
        /\ Finish(e, waiting)
  /\ UNCHANGED <<bdVars, specVars, finalizer, osdVars, cephVars, touched,
                 disturbances>>

GateLVG(e) == Gate(e, "gateLVG", lvg[e], "WaitingForLVG", "llv")
GateLLV(e) == Gate(e, "gateLLV", llv[e], "WaitingForLLV", "pv")
GatePV(e)  == Gate(e, "gatePV", pv[e], "WaitingForPV", "ceph")

\* The loop is over when its last device is done.
NextPc(at, gate, rest) == IF rest = {} THEN gate ELSE at

UpsertLLV(e, b) ==
  /\ job[e].pc = "llv"
  /\ IsFirst(b, job[e].todo)
  /\ llv' = [llv EXCEPT ![e][b] = Created(@)]
  /\ Proceed(e, NextPc("llv", "gateLLV", job[e].todo \ {b}), job[e].todo \ {b})
  /\ UNCHANGED <<bdVars, specVars, finalizer, lvg, pv, pvCapacity, cephVars,
                 touched, disturbances>>

\* Only the labels of an existing PersistentVolume are reconciled: its
\* capacity is the one it was created with.
UpsertPV(e, b) ==
  /\ job[e].pc = "pv"
  /\ IsFirst(b, job[e].todo)
  /\ pv' = [pv EXCEPT ![e][b] = Created(@)]
  /\ pvCapacity' = [pvCapacity EXCEPT ![e][b] =
                      IF pv[e][b] = "absent" THEN job[e].capacity[b] ELSE @]
  /\ Proceed(e, NextPc("pv", "gatePV", job[e].todo \ {b}), job[e].todo \ {b})
  /\ UNCHANGED <<bdVars, specVars, finalizer, lvg, llv, cephVars, touched,
                 disturbances>>

\* The storage stage is done: the CephCluster is upserted with the number of
\* devices and the smallest device size, and StorageReady=True is published.
UpsertCephCluster_Relisted(e, b) ==
  /\ job[e].pc = "ceph"
  /\ IsSmallest(b, job[e].selected, job[e].capacity)
  /\ deviceSet' = [deviceSet EXCEPT ![e] = Matching(e, bdSel[e], nodeSel[e])]
  /\ pvcRequest' = [pvcRequest EXCEPT ![e] = job[e].capacity[b]]
  /\ Finish(e, "True")
  /\ UNCHANGED <<bdVars, specVars, finalizer, osdVars, touched, disturbances>>

UpsertCephCluster(e, b) ==
  /\ job[e].pc = "ceph"
  /\ IsSmallest(b, job[e].selected, job[e].capacity)
  /\ deviceSet' = [deviceSet EXCEPT ![e] = job[e].selected]
  /\ pvcRequest' = [pvcRequest EXCEPT ![e] = job[e].capacity[b]]
  /\ Finish(e, "True")
  /\ UNCHANGED <<bdVars, specVars, finalizer, osdVars, touched, disturbances>>

Step(e) ==
  \/ ListMatchingBlockDevices(e) \/ FinishAdoption(e)
  \/ GateLVG(e) \/ GateLLV(e) \/ GatePV(e)
  \/ \E b \in BD : \/ AdoptBlockDevice(e, b) \/ UpsertLVG(e, b)
                   \/ UpsertLLV(e, b) \/ UpsertPV(e, b)
                   \/ UpsertCephCluster(e, b)

-----------------------------------------------------------------------------
(* The storage agent and the PV binder. *)

\* A volume group appears on the device, which stops being consumable.
SncProvisionLVG(e, b) ==
  /\ lvg[e][b] \in {"pending", "degraded"}
  /\ \A o \in EC \ {e} : ~ReachedReady(lvg[o][b])
  /\ lvg' = [lvg EXCEPT ![e][b] = "ready"]
  /\ free' = free \ {b}
  /\ job' = Outdated(job, b)
  /\ UNCHANGED <<owner, bdStatus, size, specVars, finalizer, llv, pv,
                 pvCapacity, cephVars, storageReady, touched, disturbances>>

SncProvisionLLV(e, b) ==
  /\ llv[e][b] \in {"pending", "degraded"}
  /\ lvg[e][b] = "ready"
  /\ llv' = [llv EXCEPT ![e][b] = "ready"]
  /\ UNCHANGED <<bdVars, specVars, finalizer, lvg, pv, pvCapacity, cephVars,
                 storageReady, job, touched, disturbances>>

PublishPV(e, b) ==
  /\ pv[e][b] \in {"pending", "degraded"}
  /\ pv' = [pv EXCEPT ![e][b] = "ready"]
  /\ UNCHANGED <<bdVars, specVars, finalizer, lvg, llv, pvCapacity, cephVars,
                 storageReady, job, touched, disturbances>>

Provision(e, b) ==
  SncProvisionLVG(e, b) \/ SncProvisionLLV(e, b) \/ PublishPV(e, b)

\* A device without a volume group becomes consumable.
BecomeConsumable(b) ==
  /\ b \notin free
  /\ \A e \in EC : lvg[e][b] = "absent"
  /\ free' = free \cup {b}
  /\ job' = Outdated(job, b)
  /\ UNCHANGED <<owner, bdStatus, size, specVars, finalizer, osdVars, cephVars,
                 storageReady, touched, disturbances>>

-----------------------------------------------------------------------------
(* Disturbances: each uses up one of MaxDisturbances. *)

Disturb ==
  /\ disturbances < MaxDisturbances
  /\ disturbances' = disturbances + 1

\* A provisioned object leaves its target phase.
Degrade(e, b) ==
  /\ Disturb
  /\ \/ /\ lvg[e][b] = "ready"
        /\ lvg' = [lvg EXCEPT ![e][b] = "degraded"]
        /\ UNCHANGED <<llv, pv>>
     \/ /\ llv[e][b] = "ready"
        /\ llv' = [llv EXCEPT ![e][b] = "degraded"]
        /\ UNCHANGED <<lvg, pv>>
     \/ /\ pv[e][b] = "ready"
        /\ pv' = [pv EXCEPT ![e][b] = "degraded"]
        /\ UNCHANGED <<lvg, llv>>
  /\ UNCHANGED <<bdVars, specVars, finalizer, pvCapacity, cephVars,
                 storageReady, job, touched>>

\* The agent reports another status for the device.
ReportStatus(b, s) ==
  /\ Disturb
  /\ s # bdStatus[b]
  /\ bdStatus' = [bdStatus EXCEPT ![b] = s]
  /\ job' = Outdated(job, b)
  /\ UNCHANGED <<owner, free, size, specVars, finalizer, osdVars, cephVars,
                 storageReady, touched>>

\* The disk is enlarged.
Grow(b) ==
  /\ size[b] < MaxSize
  /\ Disturb
  /\ size' = [size EXCEPT ![b] = @ + 1]
  /\ job' = Outdated(job, b)
  /\ UNCHANGED <<owner, free, bdStatus, specVars, finalizer, osdVars, cephVars,
                 storageReady, touched>>

\* A node or a device is relabelled, so that selectors stop or start to match
\* it; no webhook looks at that.  A pass that has not listed the devices yet
\* will see it.
Flip(S, b) == (S \ {b}) \cup ({b} \ S)

DriftNode(e, b) ==
  /\ Disturb
  /\ nodeSel' = [nodeSel EXCEPT ![e] = Flip(@, b)]
  /\ job' = [job EXCEPT ![e].nodeSel = IF job[e].pc = "list" THEN Flip(@, b) ELSE @]
  /\ UNCHANGED <<bdVars, bdSel, finalizer, osdVars, cephVars, storageReady,
                 touched>>

DriftDevice(e, b) ==
  /\ Disturb
  /\ bdSel' = [bdSel EXCEPT ![e] = Flip(@, b)]
  /\ job' = [Outdated(job, b) EXCEPT
               ![e].bdSel = IF job[e].pc = "list" THEN Flip(@, b) ELSE @]
  /\ UNCHANGED <<bdVars, nodeSel, finalizer, osdVars, cephVars, storageReady,
                 touched>>

\* The operator edits the selectors of the cluster.
EditSelectors(e, bds) ==
  /\ Disturb
  /\ bds # bdSel[e]
  /\ UpdateAdmitted(e, bds, nodeSel[e])
  /\ bdSel' = [bdSel EXCEPT ![e] = bds]
  /\ UNCHANGED <<bdVars, nodeSel, finalizer, osdVars, cephVars, storageReady,
                 job, touched>>

\* The manual procedures: an ownership label is cleared or rewritten, the
\* objects on a device are deleted.
Relabel(b, o) ==
  /\ Disturb
  /\ o # owner[b]
  /\ owner' = [owner EXCEPT ![b] = o]
  /\ touched' = touched \cup {b}
  /\ job' = Outdated(job, b)
  /\ UNCHANGED <<free, bdStatus, size, specVars, finalizer, osdVars, cephVars,
                 storageReady>>

Decommission(e, b) ==
  /\ Disturb
  /\ lvg[e][b] # "absent"
  /\ lvg' = [lvg EXCEPT ![e][b] = "absent"]
  /\ llv' = [llv EXCEPT ![e][b] = "absent"]
  /\ pv' = [pv EXCEPT ![e][b] = "absent"]
  /\ touched' = touched \cup {b}
  /\ UNCHANGED <<bdVars, specVars, finalizer, pvCapacity, cephVars,
                 storageReady, job>>

\* An API call of the pass fails; the error is published.  The write of the
\* CephCluster belongs to the next stage: StorageReady is True by then.
Fail(e) ==
  /\ job[e].pc # "idle"
  /\ Disturb
  /\ Finish(e, IF job[e].pc = "ceph" THEN "True" ELSE "ReconcileFailed")
  /\ UNCHANGED <<bdVars, specVars, finalizer, osdVars, cephVars, touched>>

\* The controller restarts: every pass is lost where it stands.
Restart ==
  /\ Busy # {}
  /\ Disturb
  /\ job' = [e \in EC |-> IdleJob]
  /\ UNCHANGED <<bdVars, specVars, finalizer, osdVars, cephVars, storageReady,
                 touched>>

-----------------------------------------------------------------------------
Controller == \E e \in EC : Begin(e) \/ Step(e)

Environment ==
  \/ \E e \in EC, b \in BD : Provision(e, b)
  \/ \E b \in BD : BecomeConsumable(b)

Disturbance ==
  \/ \E e \in EC, b \in BD :
       Degrade(e, b) \/ DriftNode(e, b) \/ DriftDevice(e, b) \/ Decommission(e, b)
  \/ \E b \in BD, s \in BdStatus : ReportStatus(b, s)
  \/ \E b \in BD : Grow(b)
  \/ \E e \in EC, bds \in Selections : EditSelectors(e, bds)
  \/ \E b \in BD, o \in EC \cup {NoOwner} : Relabel(b, o)
  \/ \E e \in EC : Fail(e)
  \/ Restart

Next == Controller \/ Environment \/ Disturbance

Spec == Init /\ [][Next]_vars

(***************************************************************************)
(* A started pass runs on: the worker thread is not blocked for ever.  A   *)
(* cluster that is not ready is requeued (RequeueAfter, or backoff after   *)
(* an error) and the work queue is first in, first out, so its next pass   *)
(* gets a worker even if others are often busy.  The agent and the binder  *)
(* retry.  Nothing obliges the operator or the disks to do anything.       *)
(***************************************************************************)
Fairness ==
  /\ \A e \in EC : WF_vars(Step(e))
  /\ \A e \in EC : SF_vars(storageReady[e] # "True" /\ Begin(e))
  /\ \A e \in EC, b \in BD :
       /\ WF_vars(SncProvisionLVG(e, b))
       /\ WF_vars(SncProvisionLLV(e, b))
       /\ WF_vars(PublishPV(e, b))

FairSpec == Spec /\ Fairness

-----------------------------------------------------------------------------
(* Properties. *)

\* A device on which the cluster has plumbing carries the cluster's label, so
\* no two clusters ever provision one device: passes of two clusters that
\* listed it free are told apart by the optimistic lock of the label patch.
\* Devices edited by hand are out of the controller's hands.
PlumbingOwned ==
  \A e \in EC : \A b \in BD \ touched :
    "absent" # lvg[e][b] => owner[b] = e

\* Every device the CephCluster counts is owned by the cluster, and the whole chain
\* below its OSD, volume group, logical volume and PersistentVolume, has been ready:
\* Rook is never asked for an OSD whose claim no volume has been there to satisfy.
CountedDevicesBacked ==
  \A e \in EC : \A b \in deviceSet[e] \ touched :
    /\ owner[b] = e
    /\ \A phases \in {lvg, llv, pv} : ReachedReady(phases[e][b])

\* The PVC request written into the CephCluster fits every PersistentVolume it
\* is meant to bind, but for that of a disk that has grown since: devices of
\* different sizes join in different passes, and each pass writes the request anew.
PvcRequestFits ==
  \A e \in EC : \A b \in deviceSet[e] \ touched :
    pvcRequest[e] <= pvCapacity[e][b] \/ pvCapacity[e][b] < size[b]

\* The stage implements the single-owner promise: no interleaving of passes,
\* drift, edit, fault or restart claims a disk that is somebody's, provisions
\* or counts one that is not the cluster's, or drops one from the CephCluster,
\* unless the operator's hand was on the disk.
Used == [e \in EC |-> {b \in BD : lvg[e][b] # "absent"}]

Claims == INSTANCE SingleOwner
  WITH used <- Used, counted <- deviceSet, released <- touched

ImplementsClaims == Claims!Spec

\* The stages are barriers over the whole pass: the first LV of a pass is
\* created only after the VGs of all its devices have been ready, the first PV
\* only after all its LVs have.
StageBarrier ==
  [][\A e \in EC :
       /\ llv'[e] # llv[e] /\ job[e].pc = "llv" =>
            \A b \in job[e].selected \ touched : ReachedReady(lvg[e][b])
       /\ pv'[e] # pv[e] /\ job[e].pc = "pv" =>
            \A b \in job[e].selected \ touched : ReachedReady(llv[e][b])]_vars

Contested(e) == Conflicts(e, bdSel[e]) # {}
Unusable(e) == \E b \in Matching(e, bdSel[e], nodeSel[e]) : bdStatus[b] # "ok"
Empty(e) == Matching(e, bdSel[e], nodeSel[e]) = {}

\* Once the disturbances end, every cluster's storage becomes ready, unless
\* its devices are contested, unusable or missing, or the operator has edited
\* the devices by hand.
EventuallyProvisioned ==
  \A e \in EC :
    <>[](\/ storageReady[e] = "True"
         \/ Contested(e) \/ Unusable(e) \/ Empty(e) \/ touched # {})

\* docs/USAGE.md: a cluster whose selector matches a device of another cluster
\* publishes StorageReady=False with reason OwnershipConflict.
ConflictSurfaced ==
  \A e \in EC :
    Contested(e) ~> (storageReady[e] = "OwnershipConflict" \/ ~Contested(e))
=============================================================================
