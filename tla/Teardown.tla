------------------------------ MODULE Teardown ------------------------------
(***************************************************************************)
(* The life of one ElasticCluster and of the ElasticStorageClasses that    *)
(* refer to it, from creation to teardown: the two finalizers, the guard   *)
(* of the cluster against dependent storage classes, the guard of a        *)
(* storage class against bound volumes, the forced purge of an RBD pool    *)
(* and the reconfiguration of a CephFilesystem before its deletion.        *)
(*                                                                         *)
(* Each controller runs one pass at a time per object and each API call of *)
(* a pass is a step.  Reads of typed objects come from informer caches;    *)
(* the two whose age matters to a guard are variables (known, boundSeen).  *)
(* Rook, csi-ceph, the PV controller and the operator act at any time.     *)
(***************************************************************************)
EXTENDS Naturals, FiniteSets

CONSTANTS
  ESC,        \* ElasticStorageClasses of the cluster
  CephFS,     \* those of type CephFS; the others are of type RBD
  MaxClasses  \* bound on the storage classes ever created

ASSUME ConstAssumption ==
  CephFS \subseteq ESC /\ MaxClasses \in Nat

VARIABLES
  ecState, ecFinalizer,  \* the ElasticCluster and its finalizer
  cephReady,             \* its published condition CephClusterReady
  drifted,               \* the admission webhook refuses updates of the cluster
  ceph, ccc,             \* CephCluster, CephClusterConnection
  ecPc,                  \* the pass of the cluster
  escState, escFinalizer,
  force,                 \* force-deletion annotation on the ESC
  pool,                  \* its CephBlockPool or CephFilesystem
  purge,                 \* rook.io/force-deletion annotation on the pool
  destroy,               \* the filesystem is set to be destroyed on delete
  csc,                   \* its CephStorageClass
  escPc, escForce,       \* the pass of the ESC and the annotation it has read
  volume, data,          \* a PersistentVolume of the class; data in the pool
  known, boundSeen,      \* caches: the ESCs listed, the ESCs with a Bound PV
  newcomers,             \* history: ESCs the cache did not show when the
                         \* deletion of the cluster was requested
  lateBinds,             \* history: same for a Bound PV and the ESC's deletion
  lost,                  \* history: ESCs whose pool was removed under a Bound PV
                         \* that was not late
  orphaned,              \* history: ESCs whose filesystem was not destroyed
  calm                   \* API errors and restarts have come to an end

ecVars   == <<ecState, ecFinalizer, cephReady, drifted>>
cephVars == <<ceph, ccc>>
escVars  == <<escState, escFinalizer, force>>
poolVars == <<pool, purge, destroy>>
jobVars  == <<escPc, escForce>>
volVars  == <<volume, data>>
cacheVars == <<known, boundSeen>>
histVars == <<newcomers, lateBinds, lost, orphaned>>
vars == <<ecVars, cephVars, ecPc, escVars, poolVars, csc, jobVars, volVars,
          cacheVars, histVars, calm>>

Life   == {"absent", "live", "terminating", "gone"}
Object == {"absent", "creating", "ready", "deleting"}
EcPc   == {"idle", "ceph", "ccc", "deleteCeph", "deleteCcc", "confirm"}
EscPc  == {"idle", "pool", "csc", "deleteCsc", "force", "destroy",
           "deletePool", "confirm"}

TypeOK ==
  /\ ecState \in Life
  /\ ecFinalizer \in BOOLEAN /\ cephReady \in BOOLEAN /\ drifted \in BOOLEAN
  /\ ceph \in Object /\ ccc \in Object
  /\ ecPc \in EcPc
  /\ escState \in [ESC -> Life]
  /\ escFinalizer \in [ESC -> BOOLEAN] /\ escForce \in [ESC -> BOOLEAN]
  /\ purge \in [ESC -> BOOLEAN] /\ destroy \in [ESC -> BOOLEAN]
  /\ data \in [ESC -> BOOLEAN]
  /\ force \in [ESC -> {"never", "set", "revoked"}]
  /\ pool \in [ESC -> Object] /\ csc \in [ESC -> Object]
  /\ escPc \in [ESC -> EscPc]
  /\ volume \in [ESC -> {"none", "bound", "released"}]
  /\ known \in SUBSET ESC /\ boundSeen \in SUBSET ESC
  /\ newcomers \in SUBSET ESC /\ lateBinds \in SUBSET ESC
  /\ lost \in SUBSET ESC /\ orphaned \in SUBSET ESC
  /\ calm \in BOOLEAN

Init ==
  /\ ecState = "live"
  /\ ecFinalizer = FALSE /\ cephReady = FALSE /\ drifted = FALSE
  /\ ceph = "absent" /\ ccc = "absent" /\ ecPc = "idle"
  /\ escState = [s \in ESC |-> "absent"] /\ escFinalizer = [s \in ESC |-> FALSE]
  /\ pool = [s \in ESC |-> "absent"] /\ csc = [s \in ESC |-> "absent"]
  /\ purge = [s \in ESC |-> FALSE] /\ destroy = [s \in ESC |-> FALSE]
  /\ force = [s \in ESC |-> "never"] /\ escForce = [s \in ESC |-> FALSE]
  /\ data = [s \in ESC |-> FALSE]
  /\ escPc = [s \in ESC |-> "idle"]
  /\ volume = [s \in ESC |-> "none"]
  /\ known = {} /\ boundSeen = {}
  /\ newcomers = {} /\ lateBinds = {} /\ lost = {} /\ orphaned = {}
  /\ calm = FALSE

-----------------------------------------------------------------------------
(* Operators. *)

\* An upsert creates a missing object, a delete marks an existing one.
Upserted(object) == IF object = "absent" THEN "creating" ELSE object
Deleted(object) == IF object = "absent" THEN object ELSE "deleting"

Exists(s) == escState[s] \in {"live", "terminating"}
Bound == {s \in ESC : volume[s] = "bound"}

\* getReadyEC: the condition is read, not the age of the cluster.
ReadyEC == cephReady

\* Dependents as the cache lists them, whatever their own state.
DependentESCs_Live == {s \in known : escState[s] = "live"}
DependentESCs == known

BackendGone_CephOnly == ceph = "absent"
BackendGone == ceph = "absent" /\ ccc = "absent"

PoolGone_Always(s) == pool[s] = "absent"
PoolGone(s) == pool[s] = "absent" /\ csc[s] = "absent"

BoundGuard_Skipped(s) == force[s] = "set" \/ s \notin boundSeen
BoundGuard(s) == s \notin boundSeen

\* What follows the deletion of the CephStorageClass.
TeardownOf_Forced(s) == IF s \in CephFS THEN "destroy" ELSE "force"
TeardownOf_Plain(s) ==
  IF s \notin CephFS /\ escForce[s] THEN "force" ELSE "deletePool"
TeardownOf_NeverForced(s) == IF s \in CephFS THEN "destroy" ELSE "deletePool"
TeardownOf_NoRBD(s) == IF s \in CephFS THEN "destroy" ELSE "unsupported"
TeardownOf(s) ==
  CASE s \in CephFS                  -> "destroy"
    [] s \notin CephFS /\ escForce[s] -> "force"
    [] OTHER                         -> "deletePool"

-----------------------------------------------------------------------------
(* The ElasticCluster controller. *)

\* The finalizer comes first, its patch is judged by the webhook.
EcBegin ==
  /\ ecPc = "idle"
  /\ ecState = "live"
  /\ ecFinalizer \/ ~drifted
  /\ ecFinalizer' = TRUE
  /\ ecPc' = "ceph"
  /\ UNCHANGED <<ecState, cephReady, drifted, cephVars, escVars, poolVars, csc,
                 jobVars, volVars, cacheVars, histVars, calm>>

\* The storage stage stops the pass or lets the CephCluster be upserted; until
\* that is Ready the condition is False.
EcUpsertCeph ==
  /\ ecPc = "ceph"
  /\ \/ /\ ceph' = Upserted(ceph)
        /\ ecPc' = IF ceph = "ready" THEN "ccc" ELSE "idle"
        /\ cephReady' = (cephReady /\ ceph = "ready")
     \/ /\ ecPc' = "idle"
        /\ cephReady' = FALSE
        /\ UNCHANGED ceph
  /\ UNCHANGED <<ecState, ecFinalizer, drifted, ccc, escVars, poolVars, csc,
                 jobVars, volVars, cacheVars, histVars, calm>>

\* The later stages stop the pass or let the connection be upserted; the
\* conditions are published at the end.
EcConnect ==
  /\ ecPc = "ccc"
  /\ \/ ccc' = Upserted(ccc)
     \/ UNCHANGED ccc
  /\ cephReady' = TRUE
  /\ ecPc' = "idle"
  /\ UNCHANGED <<ecState, ecFinalizer, drifted, ceph, escVars, poolVars, csc,
                 jobVars, volVars, cacheVars, histVars, calm>>

\* reconcileDelete: nothing is deleted while an ElasticStorageClass is listed.
EcBeginDelete ==
  /\ ecPc = "idle"
  /\ ecState = "terminating" /\ ecFinalizer
  /\ DependentESCs = {}
  /\ ecPc' = "deleteCeph"
  /\ UNCHANGED <<ecVars, cephVars, escVars, poolVars, csc, jobVars, volVars,
                 cacheVars, histVars, calm>>

EcDeleteCeph_Only ==
  /\ ecPc = "deleteCeph"
  /\ ceph' = Deleted(ceph)
  /\ ecPc' = "confirm"
  /\ UNCHANGED <<ecVars, ccc, escVars, poolVars, csc, jobVars, volVars,
                 cacheVars, histVars, calm>>

EcDeleteCeph ==
  /\ ecPc = "deleteCeph"
  /\ ceph' = Deleted(ceph)
  /\ ecPc' = "deleteCcc"
  /\ UNCHANGED <<ecVars, ccc, escVars, poolVars, csc, jobVars, volVars,
                 cacheVars, histVars, calm>>

EcDeleteCcc ==
  /\ ecPc = "deleteCcc"
  /\ ccc' = Deleted(ccc)
  /\ ecPc' = "confirm"
  /\ UNCHANGED <<ecVars, ceph, escVars, poolVars, csc, jobVars, volVars,
                 cacheVars, histVars, calm>>

\* Once both are gone the finalizer is dropped, if the webhook lets it; only the
\* Ready condition tells of a teardown under way, the others stay as they are.
EcConfirm ==
  /\ ecPc = "confirm"
  /\ ecPc' = "idle"
  /\ IF BackendGone /\ ~drifted
     THEN ecState' = "gone" /\ ecFinalizer' = FALSE /\ cephReady' = FALSE
     ELSE UNCHANGED <<ecState, ecFinalizer, cephReady>>
  /\ UNCHANGED <<drifted, cephVars, escVars, poolVars, csc, jobVars,
                 volVars, cacheVars, histVars, calm>>

EcStep == EcUpsertCeph \/ EcConnect \/ EcDeleteCeph \/ EcDeleteCcc \/ EcConfirm

-----------------------------------------------------------------------------
(* The ElasticStorageClass controller. *)

EscGoto(s, pc) == escPc' = [escPc EXCEPT ![s] = pc]

EscBegin(s) ==
  /\ escPc[s] = "idle"
  /\ escState[s] = "live"
  /\ escFinalizer' = [escFinalizer EXCEPT ![s] = TRUE]
  /\ EscGoto(s, "pool")
  /\ UNCHANGED <<ecVars, cephVars, ecPc, escState, force, poolVars, csc,
                 escForce, volVars, cacheVars, histVars, calm>>

\* The pool waits for the cluster's condition and is upserted as a whole, so
\* that a filesystem is again set to be preserved.
EscUpsertPool(s) ==
  /\ escPc[s] = "pool"
  /\ IF ReadyEC
     THEN /\ pool' = [pool EXCEPT ![s] = Upserted(@)]
          /\ destroy' = [destroy EXCEPT ![s] = FALSE]
          /\ EscGoto(s, IF pool[s] = "ready" THEN "csc" ELSE "idle")
     ELSE /\ UNCHANGED <<pool, destroy>>
          /\ EscGoto(s, "idle")
  /\ UNCHANGED <<ecVars, cephVars, ecPc, escVars, purge, csc, escForce,
                 volVars, cacheVars, histVars, calm>>

EscUpsertCsc(s) ==
  /\ escPc[s] = "csc"
  /\ csc' = [csc EXCEPT ![s] = Upserted(@)]
  /\ EscGoto(s, "idle")
  /\ UNCHANGED <<ecVars, cephVars, ecPc, escVars, poolVars, escForce, volVars,
                 cacheVars, histVars, calm>>

\* reconcileDeleteESC: nothing is deleted while a Bound PV is listed.
EscBeginDelete(s) ==
  /\ escPc[s] = "idle"
  /\ escState[s] = "terminating" /\ escFinalizer[s]
  /\ BoundGuard(s)
  /\ EscGoto(s, "deleteCsc")
  /\ escForce' = [escForce EXCEPT ![s] = (force[s] = "set")]
  /\ UNCHANGED <<ecVars, cephVars, ecPc, escVars, poolVars, csc, volVars,
                 cacheVars, histVars, calm>>

EscDeleteCsc(s) ==
  /\ escPc[s] = "deleteCsc"
  /\ csc' = [csc EXCEPT ![s] = Deleted(@)]
  /\ EscGoto(s, TeardownOf(s))
  /\ UNCHANGED <<ecVars, cephVars, ecPc, escVars, poolVars, escForce, volVars,
                 cacheVars, histVars, calm>>

\* The operator's annotation is passed on to the CephBlockPool.
EscForcePool(s) ==
  /\ escPc[s] = "force"
  /\ purge' = [purge EXCEPT ![s] = (pool[s] # "absent")]
  /\ EscGoto(s, "deletePool")
  /\ UNCHANGED <<ecVars, cephVars, ecPc, escVars, pool, destroy, csc, escForce,
                 volVars, cacheVars, histVars, calm>>

EscDestroyOnDelete(s) ==
  /\ escPc[s] = "destroy"
  /\ destroy' = [destroy EXCEPT ![s] = (pool[s] # "absent")]
  /\ EscGoto(s, "deletePool")
  /\ UNCHANGED <<ecVars, cephVars, ecPc, escVars, pool, purge, csc, escForce,
                 volVars, cacheVars, histVars, calm>>

EscDeletePool(s) ==
  /\ escPc[s] = "deletePool"
  /\ pool' = [pool EXCEPT ![s] = Deleted(@)]
  /\ EscGoto(s, "confirm")
  /\ UNCHANGED <<ecVars, cephVars, ecPc, escVars, purge, destroy, csc,
                 escForce, volVars, cacheVars, histVars, calm>>

EscConfirm(s) ==
  /\ escPc[s] = "confirm"
  /\ EscGoto(s, "idle")
  /\ escForce' = [escForce EXCEPT ![s] = FALSE]
  /\ IF PoolGone(s)
     THEN /\ escState' = [escState EXCEPT ![s] = "gone"]
          /\ escFinalizer' = [escFinalizer EXCEPT ![s] = FALSE]
          /\ force' = [force EXCEPT ![s] = "never"]
          /\ newcomers' = newcomers \ {s} /\ lateBinds' = lateBinds \ {s}
     ELSE UNCHANGED <<escState, escFinalizer, force, newcomers, lateBinds>>
  /\ UNCHANGED <<ecVars, cephVars, ecPc, poolVars, csc, volVars, cacheVars,
                 lost, orphaned, calm>>

EscStep(s) ==
  \/ EscUpsertPool(s) \/ EscUpsertCsc(s) \/ EscDeleteCsc(s) \/ EscForcePool(s)
  \/ EscDestroyOnDelete(s) \/ EscDeletePool(s) \/ EscConfirm(s)

-----------------------------------------------------------------------------
(* Errors and restarts: a pass ends where it stands. *)

AbortEc ==
  /\ ~calm
  /\ ecPc # "idle"
  /\ ecPc' = "idle"
  /\ UNCHANGED <<ecVars, cephVars, escVars, poolVars, csc, jobVars, volVars,
                 cacheVars, histVars, calm>>

AbortEsc(s) ==
  /\ ~calm
  /\ escPc[s] # "idle"
  /\ EscGoto(s, "idle")
  /\ escForce' = [escForce EXCEPT ![s] = FALSE]
  /\ UNCHANGED <<ecVars, cephVars, ecPc, escVars, poolVars, csc, volVars,
                 cacheVars, histVars, calm>>

\* The last error is over.
Settle ==
  /\ ~calm
  /\ calm' = TRUE
  /\ UNCHANGED <<ecVars, cephVars, ecPc, escVars, poolVars, csc, jobVars, volVars,
                 cacheVars, histVars>>

\* The informers catch up.
SyncEscs ==
  /\ known' = {s \in ESC : Exists(s)}
  /\ UNCHANGED <<ecVars, cephVars, ecPc, escVars, poolVars, csc, jobVars,
                 volVars, boundSeen, histVars, calm>>

SyncVolumes ==
  /\ boundSeen' = Bound
  /\ UNCHANGED <<ecVars, cephVars, ecPc, escVars, poolVars, csc, jobVars,
                 volVars, known, histVars, calm>>

-----------------------------------------------------------------------------
(* Rook and csi-ceph. *)

RookReadiesCeph ==
  /\ ceph = "creating"
  /\ ceph' = "ready"
  /\ UNCHANGED <<ecVars, ccc, ecPc, escVars, poolVars, csc, jobVars, volVars,
                 cacheVars, histVars, calm>>

\* A CephCluster is not removed under pools or PersistentVolumes.
CephBlocked == \E s \in ESC : pool[s] # "absent" \/ volume[s] # "none"

RookRemovesCeph ==
  /\ ceph = "deleting"
  /\ ~CephBlocked
  /\ ceph' = "absent"
  /\ UNCHANGED <<ecVars, ccc, ecPc, escVars, poolVars, csc, jobVars, volVars,
                 cacheVars, histVars, calm>>

CsiRemovesCcc ==
  /\ ccc = "deleting"
  /\ ccc' = "absent"
  /\ UNCHANGED <<ecVars, ceph, ecPc, escVars, poolVars, csc, jobVars, volVars,
                 cacheVars, histVars, calm>>

RookReadiesPool(s) ==
  /\ pool[s] = "creating"
  /\ ceph = "ready"
  /\ pool' = [pool EXCEPT ![s] = "ready"]
  /\ UNCHANGED <<ecVars, cephVars, ecPc, escVars, purge, destroy, csc, jobVars,
                 volVars, cacheVars, histVars, calm>>

\* A pool with data is removed only if it is an RBD pool marked for the purge.
\* The data of a filesystem that is set to be preserved stays behind.
PoolBlocked(s) == data[s] /\ ~(s \notin CephFS /\ purge[s])

RookRemovesPool(s) ==
  /\ pool[s] = "deleting"
  /\ ~PoolBlocked(s)
  /\ pool' = [pool EXCEPT ![s] = "absent"]
  /\ purge' = [purge EXCEPT ![s] = FALSE]
  /\ destroy' = [destroy EXCEPT ![s] = FALSE]
  /\ data' = [data EXCEPT ![s] = FALSE]
  /\ lost' = lost \cup (({s} \cap Bound) \ lateBinds)
  /\ orphaned' = IF s \in CephFS /\ ~destroy[s] THEN orphaned \cup {s} ELSE orphaned
  /\ UNCHANGED <<ecVars, cephVars, ecPc, escVars, csc, jobVars, volume,
                 cacheVars, newcomers, lateBinds, calm>>

CsiRemovesCsc(s) ==
  /\ csc[s] = "deleting"
  /\ csc' = [csc EXCEPT ![s] = "absent"]
  /\ UNCHANGED <<ecVars, cephVars, ecPc, escVars, poolVars, jobVars, volVars,
                 cacheVars, histVars, calm>>

External ==
  \/ RookReadiesCeph \/ RookRemovesCeph \/ CsiRemovesCcc
  \/ \E s \in ESC : RookReadiesPool(s) \/ RookRemovesPool(s) \/ CsiRemovesCsc(s)

-----------------------------------------------------------------------------
(* The operator and the applications. *)

DeleteEc ==
  /\ ecState = "live"
  /\ ecState' = IF ecFinalizer THEN "terminating" ELSE "gone"
  /\ newcomers' = {s \in ESC : Exists(s)} \ known
  /\ UNCHANGED <<ecFinalizer, cephReady, drifted, cephVars, ecPc, escVars,
                 poolVars, csc, jobVars, volVars, cacheVars, lateBinds, lost,
                 orphaned, calm>>

\* Nodes or devices are relabelled (or set right again), so that the webhook
\* finds an orphan or a conflict in any update of the cluster.  (Told only when
\* the next update is that of the finalizer.)
Drift ==
  /\ \/ ecState = "live" /\ ~ecFinalizer
     \/ ecState = "terminating" /\ ceph = "absent" /\ ccc = "absent"
  /\ drifted' = ~drifted
  /\ UNCHANGED <<ecState, ecFinalizer, cephReady, cephVars, ecPc, escVars,
                 poolVars, csc, jobVars, volVars, cacheVars, histVars, calm>>

CreateEsc(s) ==
  /\ escState[s] = "absent"
  /\ Cardinality({t \in ESC : escState[t] # "absent"}) < MaxClasses
  /\ escState' = [escState EXCEPT ![s] = "live"]
  /\ newcomers' = IF ecState = "terminating" THEN newcomers \cup {s} ELSE newcomers
  /\ UNCHANGED <<ecVars, cephVars, ecPc, escFinalizer, force, poolVars, csc,
                 jobVars, volVars, cacheVars, lateBinds, lost, orphaned, calm>>

DeleteEsc(s) ==
  /\ escState[s] = "live"
  /\ escState' = [escState EXCEPT ![s] = IF escFinalizer[s] THEN "terminating"
                                         ELSE "gone"]
  /\ lateBinds' = lateBinds \cup (({s} \cap Bound) \ boundSeen)
  /\ UNCHANGED <<ecVars, cephVars, ecPc, escFinalizer, force, poolVars, csc,
                 jobVars, volVars, cacheVars, newcomers, lost, orphaned, calm>>

\* The operator authorises the purge.
Authorize(s) ==
  /\ Exists(s)
  /\ force[s] # "set"
  /\ force' = [force EXCEPT ![s] = "set"]
  /\ UNCHANGED <<ecVars, cephVars, ecPc, escState, escFinalizer, poolVars, csc,
                 jobVars, volVars, cacheVars, histVars, calm>>

\* The annotation is taken back from the class: as if it had never been before the
\* teardown has begun, while the pool keeps its own afterwards.
Revoke(s) ==
  /\ Exists(s)
  /\ force[s] = "set"
  /\ force' = [force EXCEPT ![s] = IF escState[s] = "live" THEN "never" ELSE "revoked"]
  /\ UNCHANGED <<ecVars, cephVars, ecPc, escState, escFinalizer, poolVars, csc,
                 jobVars, volVars, cacheVars, histVars, calm>>

\* A claim is bound to a new volume, or bound again to a released one.
Bind(s) ==
  /\ pool[s] \in {"ready", "deleting"}
  /\ \/ volume[s] = "none" /\ csc[s] # "absent"
     \/ volume[s] = "released"
  /\ volume' = [volume EXCEPT ![s] = "bound"]
  /\ data' = [data EXCEPT ![s] = TRUE]
  /\ lateBinds' = IF escState[s] = "terminating" THEN lateBinds \cup {s} ELSE lateBinds
  /\ UNCHANGED <<ecVars, cephVars, ecPc, escVars, poolVars, csc, jobVars,
                 cacheVars, newcomers, lost, orphaned, calm>>

\* The claim is deleted: the volume is retained, or deleted with its data.
Release(s) ==
  /\ volume[s] = "bound"
  /\ \/ /\ volume' = [volume EXCEPT ![s] = "released"]
        /\ UNCHANGED data
     \/ /\ volume' = [volume EXCEPT ![s] = "none"]
        /\ data' = [data EXCEPT ![s] = FALSE]
  /\ UNCHANGED <<ecVars, cephVars, ecPc, escVars, poolVars, csc, jobVars,
                 cacheVars, histVars, calm>>

\* A retained volume is deleted, its data with it or not.
Discard(s) ==
  /\ volume[s] = "released"
  /\ volume' = [volume EXCEPT ![s] = "none"]
  /\ \E kept \in BOOLEAN : data' = [data EXCEPT ![s] = @ /\ kept]
  /\ UNCHANGED <<ecVars, cephVars, ecPc, escVars, poolVars, csc, jobVars,
                 cacheVars, histVars, calm>>

Users ==
  \/ DeleteEc \/ Drift
  \/ \E s \in ESC : \/ CreateEsc(s) \/ DeleteEsc(s) \/ Authorize(s) \/ Revoke(s)
                    \/ Bind(s) \/ Release(s) \/ Discard(s)

-----------------------------------------------------------------------------
Controllers ==
  \/ EcBegin \/ EcBeginDelete \/ EcStep \/ AbortEc
  \/ \E s \in ESC : EscBegin(s) \/ EscBeginDelete(s) \/ EscStep(s) \/ AbortEsc(s)

Next == Controllers \/ Settle \/ SyncEscs \/ SyncVolumes \/ External \/ Users

Spec == Init /\ [][Next]_vars

(***************************************************************************)
(* A pass that has begun goes on; an object under deletion is requeued     *)
(* (RequeueAfter, or backoff after an error); the informers catch up; Rook *)
(* and csi-ceph do what nothing blocks.  The operator, the applications    *)
(* and the passes over live objects are under no obligation.               *)
(***************************************************************************)
Fairness ==
  /\ WF_vars(EcBeginDelete \/ EcStep)
  /\ WF_vars(SyncEscs) /\ WF_vars(SyncVolumes) /\ WF_vars(Settle)
  /\ WF_vars(RookRemovesCeph) /\ WF_vars(CsiRemovesCcc)
  /\ \A s \in ESC :
       /\ WF_vars(EscBeginDelete(s) \/ EscStep(s))
       /\ WF_vars(RookRemovesPool(s)) /\ WF_vars(CsiRemovesCsc(s))

FairSpec == Spec /\ Fairness

-----------------------------------------------------------------------------
(* Properties. *)

\* What is gone has left nothing behind that the operator, kept out by the webhook,
\* could not delete, however its passes were cut short: no CephCluster and no
\* connection of a cluster, no pool and no CephStorageClass of a storage class.
NothingLeft ==
  /\ ecState = "gone" => ceph = "absent" /\ ccc = "absent"
  /\ \A s \in ESC : escState[s] = "gone" => pool[s] = "absent" /\ csc[s] = "absent"

\* A filesystem is never removed while it is still set to be preserved, which
\* would orphan it inside Ceph.
NoFilesystemOrphaned == orphaned = {}

\* The pool under a Bound volume is removed only if that volume was bound, or
\* became visible to the controller, after the deletion was requested; the
\* force annotation changes nothing about it.
GuardHolds == lost = {}

\* Data disappears with its pool only if the pool is an RBD pool whose purge the
\* operator has authorised; to take the authorisation back may come too late.
PurgeAuthorized ==
  [][\A s \in ESC : pool[s] # "absent" /\ pool'[s] = "absent" /\ data[s] =>
       s \notin CephFS /\ force[s] # "never"]_vars

\* The CephCluster is not deleted while a storage class refers to the cluster,
\* except one that the controller could not know of when the deletion was
\* requested.
DependentsGuarded ==
  [][ceph # "deleting" /\ ceph' = "deleting" =>
       {s \in ESC : Exists(s)} \subseteq newcomers]_vars

\* What is being created is as good as provided.
Given(object) == IF object \in {"creating", "ready"} THEN "kept" ELSE object

Promise == INSTANCE Custody WITH
  cluster    <- ecState,
  class      <- escState,
  backend    <- Given(ceph),
  pool       <- [s \in ESC |-> Given(pool[s])],
  doomed     <- {s \in CephFS : destroy[s]},
  authorized <- {s \in ESC : force[s] # "never"},
  full       <- {s \in ESC : data[s]},
  bound      <- Bound,
  seen       <- boundSeen,
  unknown    <- newcomers,
  late       <- lateBinds

\* The steps of both controllers, however they are cut short, are steps of the
\* promise that Custody states: no pool goes under a volume bound in time, no data
\* without authorisation, no backend under a class that could be known.
ImplementsCustody == Promise!Spec

\* A storage class under deletion is eventually gone, unless a volume is bound
\* or data without authorisation is left in the pool again and again.
EscTornDown ==
  \A s \in ESC :
    []<>(\/ escState[s] # "terminating" \/ volume[s] = "bound"
         \/ data[s] /\ (s \in CephFS \/ force[s] # "set"))

\* A cluster under deletion is eventually gone, unless storage classes or
\* volumes remain or the webhook refuses the removal of the finalizer.
EcTornDown ==
  []<>(\/ ecState # "terminating" \/ drifted
       \/ \E s \in ESC : Exists(s) \/ volume[s] # "none")

\* The gate of the pool as the code comments state it: a pool is created only
\* for a CephCluster that exists and stays.
PoolHasCluster ==
  [][\A s \in ESC : pool[s] = "absent" /\ pool'[s] # "absent" =>
       ceph \in {"creating", "ready"}]_vars
=============================================================================
