---------------------------- MODULE Credentials ----------------------------
(***************************************************************************)
(* How the identity and the admin key of a Ceph cluster travel: Rook writes *)
(* them into the Secret rook-ceph-mon; the ElasticClusterCredential (ECC)  *)
(* reconciler mirrors them into the ECC; the ElasticCluster reconciler     *)
(* takes the FSID from the Secret, the key from the ECC and the monitors   *)
(* from a ConfigMap and writes the CephClusterConnection of csi-ceph.      *)
(*                                                                         *)
(* All three are read from informer caches.  Nothing but the caches reads   *)
(* the Secret and the ConfigMap, so these are modelled as the caches show  *)
(* them; the ECC is written through the API server and seen late.  A pass  *)
(* runs only when something has enqueued it.  Clusters and keys are        *)
(* numbered in the order Rook creates them; 0 is the empty string.         *)
(***************************************************************************)
EXTENDS Naturals

CONSTANTS
  MaxFsid,     \* bound on the Ceph clusters ever created in the namespace
  MaxKey,      \* bound on the admin keys issued
  MaxMons,     \* bound on the changes of the monitor endpoints
  MaxRemovals, \* bound on the removals of the Secret
  MaxAborts    \* bound on passes cut short by an API error or a restart

ASSUME ConstAssumption ==
  /\ MaxFsid \in Nat \ {0} /\ MaxKey \in Nat \ {0} /\ MaxMons \in Nat \ {0}
  /\ MaxRemovals \in Nat /\ MaxAborts \in Nat

VARIABLES
  secret,                \* Secret rook-ceph-mon
  mons,                  \* the monitor endpoints of the ConfigMap
  issued,                \* Rook: the newest cluster and the newest key
  ecc, eccSeen,          \* the ECC, and as the cache shows it
  eccQ, eccPc, eccJob,   \* work queue and pass of the ECC reconciler
  conn,                  \* CephClusterConnection: what its clients use
  created,               \* csi-ceph has reported phase Created
  ecQ, ecPc, ecJob,      \* work queue and pass of the EC reconciler
  ready,                 \* condition CsiCephReady of the ElasticCluster
  removals, aborts

rookVars == <<secret, mons, issued, removals>>
eccPass  == <<eccPc, eccJob>>
ecPass   == <<ecPc, ecJob>>
csiVars  == <<conn, created>>
vars == <<rookVars, eccSeen, ecc, eccQ, eccPass, csiVars, ecQ, ecPass, ready, aborts>>

Fsid == 0..MaxFsid
Key  == 0..MaxKey

\* data of the Secret; the admin key is under a new and under a legacy name
Secret == [there : BOOLEAN, fsid : Fsid, mon : BOOLEAN, admin : Key, legacy : Key]
NoSecret == [there |-> FALSE, fsid |-> 0, mon |-> FALSE, admin |-> 0, legacy |-> 0]

EccSpec == [fsid : Fsid, mon : BOOLEAN, admin : Key]
EmptySpec == [fsid |-> 0, mon |-> FALSE, admin |-> 0]
Phase == {"none", "Pending", "Populated", "Error"}

\* gen counts the changes of the spec (metadata.generation), obs is the
\* generation the status was written for, synced tells a LastSyncTime.
Ecc == [there : BOOLEAN, spec : EccSpec, gen : Nat, phase : Phase, obs : Nat, synced : BOOLEAN]
NoEcc == [there |-> FALSE, spec |-> EmptySpec, gen |-> 0, phase |-> "none", obs |-> 0, synced |-> FALSE]

EccPc == {"idle", "secret", "patch", "status"}
EccJob == [ecc : EccSpec, want : EccSpec, phase : Phase, bump : BOOLEAN]
IdleEccJob == [ecc |-> EmptySpec, want |-> EmptySpec, phase |-> "none", bump |-> FALSE]

Connection == [fsid : Fsid, key : Key, mons : 0..MaxMons]
NoConnection == [fsid |-> 0, key |-> 0, mons |-> 0]

EcPc == {"idle", "csiceph", "publish"}
EcJob == [fsid : Fsid, mons : 0..MaxMons, done : BOOLEAN]
IdleEcJob == [fsid |-> 0, mons |-> 0, done |-> FALSE]

TypeOK ==
  /\ secret \in Secret
  /\ mons \in 0..MaxMons
  /\ issued \in [fsid : Fsid, key : Key]
  /\ ecc \in Ecc /\ eccSeen \in Ecc
  /\ ecc.spec.fsid <= issued.fsid /\ ecc.spec.admin <= issued.key
  /\ eccQ \in BOOLEAN /\ eccPc \in EccPc /\ eccJob \in EccJob
  /\ conn \in Connection /\ created \in BOOLEAN
  /\ ecQ \in BOOLEAN /\ ecPc \in EcPc /\ ecJob \in EcJob
  /\ ready \in BOOLEAN
  /\ removals \in 0..MaxRemovals /\ aborts \in 0..MaxAborts

Init ==
  /\ secret = NoSecret
  /\ mons = 0
  /\ issued = [fsid |-> 0, key |-> 0]
  /\ ecc = NoEcc /\ eccSeen = NoEcc
  /\ eccQ = TRUE /\ eccPc = "idle" /\ eccJob = IdleEccJob
  /\ conn = NoConnection /\ created = FALSE
  /\ ecQ = TRUE /\ ecPc = "idle" /\ ecJob = IdleEcJob
  /\ ready = FALSE
  /\ removals = 0 /\ aborts = 0

-----------------------------------------------------------------------------
(* Pure functions of the controller and of the webhook. *)

\* The three fields of the backup; the legacy key counts only without a new one.
DesiredECCSpec_Swapped(s) ==
  [fsid |-> IF s.admin # 0 THEN s.admin ELSE s.legacy, mon |-> s.mon, admin |-> s.fsid]
DesiredECCSpec(s) ==
  [fsid |-> s.fsid, mon |-> s.mon, admin |-> IF s.admin # 0 THEN s.admin ELSE s.legacy]

Complete_NoKey(spec) == spec.fsid # 0 /\ spec.mon
Complete(spec) == spec.fsid # 0 /\ spec.mon /\ spec.admin # 0

\* The merge patch carries the fields in which the copy read and the wanted spec
\* differ; the others keep what the API server holds.
Merged(now, read, want) ==
  [fsid  |-> IF read.fsid = want.fsid THEN now.fsid ELSE want.fsid,
   mon   |-> IF read.mon = want.mon THEN now.mon ELSE want.mon,
   admin |-> IF read.admin = want.admin THEN now.admin ELSE want.admin]

\* Admission of an ECC update: an FSID once set stays.
ElasticClusterCredentialValidate_NonEmpty(old, new) == old.fsid = 0 \/ new.fsid # 0
ElasticClusterCredentialValidate(old, new) == old.fsid = 0 \/ new.fsid = old.fsid

-----------------------------------------------------------------------------
(* The pass of the ECC reconciler. *)

\* A pass starts with getOrCreateECC: take the cached object; create an empty one;
\* or find it created already and still missing in the cache, which ends the pass
\* with an error.
GetOrCreateECC ==
  /\ eccPc = "idle" /\ eccQ
  /\ \/ /\ eccSeen.there
        /\ eccJob' = [IdleEccJob EXCEPT !.ecc = eccSeen.spec]
        /\ eccPc' = "secret" /\ eccQ' = FALSE
        /\ UNCHANGED ecc
     \/ /\ ~eccSeen.there /\ ~ecc.there
        /\ ecc' = [NoEcc EXCEPT !.there = TRUE]
        /\ eccPc' = "secret" /\ eccQ' = FALSE
        /\ UNCHANGED eccJob
     \/ /\ ~eccSeen.there /\ ecc.there
        /\ UNCHANGED <<ecc, eccPass, eccQ>>
  /\ UNCHANGED <<rookVars, eccSeen, csiVars, ecQ, ecPass, ready, aborts>>

\* Without a Secret, or with one that lacks a field, the pass is to run again.
ReadSecret ==
  /\ eccPc = "secret"
  /\ LET want == DesiredECCSpec(secret) IN
     /\ eccJob' = [eccJob EXCEPT
          !.want = want,
          !.phase = IF secret.there /\ Complete(want) THEN "Populated" ELSE "Pending"]
     /\ eccPc' = IF secret.there /\ eccJob.ecc # want THEN "patch" ELSE "status"
     /\ eccQ' = (eccQ \/ ~secret.there \/ ~Complete(want))
  /\ UNCHANGED <<rookVars, eccSeen, ecc, csiVars, ecQ, ecPass, ready, aborts>>

\* A rejected patch publishes phase Error and is tried again.
PatchECC ==
  /\ eccPc = "patch"
  /\ LET new == Merged(ecc.spec, eccJob.ecc, eccJob.want) IN
     \/ /\ ElasticClusterCredentialValidate(ecc.spec, new)
        /\ ecc' = [ecc EXCEPT !.spec = new,
                              !.gen = IF new = ecc.spec THEN @ ELSE @ + 1]
        /\ eccJob' = [eccJob EXCEPT !.bump = TRUE]
        /\ UNCHANGED eccQ
     \/ /\ ~ElasticClusterCredentialValidate(ecc.spec, new)
        /\ eccJob' = [eccJob EXCEPT !.phase = "Error"]
        /\ eccQ' = TRUE
        /\ UNCHANGED ecc
  /\ eccPc' = "status"
  /\ UNCHANGED <<rookVars, eccSeen, csiVars, ecQ, ecPass, ready, aborts>>

\* What updateECCStatus makes of the cached object.
WithStatus(seen) ==
  [seen EXCEPT !.phase = eccJob.phase, !.obs = seen.gen,
               !.synced = @ \/ eccJob.bump \/ eccJob.phase = "Populated"]

\* Compare with the cache and write when something changes (a new LastSyncTime
\* always does).  A write on top of an outdated copy is refused and tried again
\* until the retries are used up (the third disjunct); a cache without the object
\* is an error at once.
UpdateECCStatus ==
  /\ eccPc = "status"
  /\ LET changes == eccJob.bump \/ WithStatus(eccSeen) # eccSeen IN
     \/ /\ eccSeen.there /\ ~changes
        /\ UNCHANGED <<ecc, eccQ>>
     \/ /\ eccSeen.there /\ changes /\ eccSeen = ecc
        /\ ecc' = WithStatus(eccSeen)
        /\ UNCHANGED eccQ
     \/ /\ ~eccSeen.there \/ (changes /\ eccSeen # ecc)
        /\ eccQ' = TRUE
        /\ UNCHANGED ecc
  /\ eccPc' = "idle" /\ eccJob' = IdleEccJob
  /\ UNCHANGED <<rookVars, eccSeen, csiVars, ecQ, ecPass, ready, aborts>>

EccStep == GetOrCreateECC \/ ReadSecret \/ PatchECC \/ UpdateECCStatus

-----------------------------------------------------------------------------
(* The pass of the EC reconciler through its stages CredentialsReady and     *)
(* CsiCephReady; the stages around them are taken to be done.               *)

\* A pass starts here; a stage that is not done gates those after it.
EnsureCredentials ==
  /\ ecPc = "idle" /\ ecQ
  /\ ecQ' = FALSE
  /\ IF secret.fsid # 0 /\ mons # 0
     THEN /\ ecJob' = [IdleEcJob EXCEPT !.fsid = secret.fsid, !.mons = mons]
          /\ ecPc' = "csiceph"
     ELSE /\ ecPc' = "publish"
          /\ UNCHANGED ecJob
  /\ UNCHANGED <<rookVars, eccSeen, ecc, eccQ, eccPass, csiVars, ready, aborts>>

\* The key is that of the mirror, the FSID that of the Secret.
EnsureCsiCeph ==
  /\ ecPc = "csiceph"
  /\ IF eccSeen.there /\ eccSeen.spec.admin # 0
     THEN /\ conn' = [fsid |-> ecJob.fsid, key |-> eccSeen.spec.admin, mons |-> ecJob.mons]
          /\ ecJob' = [ecJob EXCEPT !.done = created]
     ELSE UNCHANGED <<conn, ecJob>>
  /\ ecPc' = "publish"
  /\ UNCHANGED <<rookVars, eccSeen, ecc, eccQ, eccPass, created, ecQ, ready, aborts>>

\* Only a cluster that is Ready is left to the watches.
FinishReconcile ==
  /\ ecPc = "publish"
  /\ ready' = ecJob.done
  /\ ecQ' = (ecQ \/ ~ecJob.done)
  /\ ecPc' = "idle" /\ ecJob' = IdleEcJob
  /\ UNCHANGED <<rookVars, eccSeen, ecc, eccQ, eccPass, csiVars, aborts>>

EcStep == EnsureCredentials \/ EnsureCsiCeph \/ FinishReconcile

\* A failed call, a lost answer or a restart: the pass is enqueued again.
EccAbort ==
  /\ eccPc # "idle" /\ aborts < MaxAborts
  /\ eccQ' = TRUE /\ eccPc' = "idle" /\ eccJob' = IdleEccJob
  /\ aborts' = aborts + 1
  /\ UNCHANGED <<rookVars, eccSeen, ecc, csiVars, ecQ, ecPass, ready>>

EcAbort ==
  /\ ecPc # "idle" /\ aborts < MaxAborts
  /\ ecQ' = TRUE /\ ecPc' = "idle" /\ ecJob' = IdleEcJob
  /\ aborts' = aborts + 1
  /\ UNCHANGED <<rookVars, eccSeen, ecc, eccQ, eccPass, csiVars, ready>>

-----------------------------------------------------------------------------
(* The informer of the ECC: the cache catches up and the event is handled. *)

\* The ECC reconciler hears of its own object only when it is new or its
\* generation has changed, the EC reconciler of every change.
SeeECC_Deaf ==
  /\ eccSeen # ecc
  /\ eccSeen' = ecc
  /\ eccQ' = (eccQ \/ ~eccSeen.there \/ eccSeen.gen # ecc.gen)
  /\ UNCHANGED <<rookVars, ecc, eccPass, csiVars, ecQ, ecPass, ready, aborts>>
SeeECC ==
  /\ eccSeen # ecc
  /\ eccSeen' = ecc
  /\ eccQ' = (eccQ \/ ~eccSeen.there \/ eccSeen.gen # ecc.gen)
  /\ ecQ' = TRUE
  /\ UNCHANGED <<rookVars, ecc, eccPass, csiVars, ecPass, ready, aborts>>

-----------------------------------------------------------------------------
(* Rook and csi-ceph. *)

\* Both reconcilers watch the Secret; that of the ECC maps an event to the ECCs it
\* finds in its cache.
SecretEvent ==
  /\ eccQ' = (eccQ \/ eccSeen.there)
  /\ ecQ' = TRUE
  /\ UNCHANGED <<mons, eccSeen, ecc, eccPass, csiVars, ecPass, ready, aborts>>

\* The Secret of a new cluster, or that of the current one put back with its key
\* or with a new one; possibly without the admin key at first.
RookCreates ==
  /\ ~secret.there
  /\ \E f \in {issued.fsid, issued.fsid + 1} \cap (1..MaxFsid),
        k \in {0, issued.key, issued.key + 1} \cap Key :
       /\ k = issued.key /\ k # 0 => f = issued.fsid
       /\ secret' = [there |-> TRUE, fsid |-> f, mon |-> TRUE, admin |-> 0, legacy |-> k]
       /\ issued' = [fsid |-> f, key |-> IF k = 0 THEN issued.key ELSE k]
  /\ UNCHANGED removals
  /\ SecretEvent

\* A new key, under the legacy name or, by a newer Rook, under the new one.
RookRotates ==
  /\ secret.there /\ issued.key < MaxKey
  /\ \/ secret' = [secret EXCEPT !.admin = issued.key + 1]
     \/ secret.admin = 0 /\ secret' = [secret EXCEPT !.legacy = issued.key + 1]
  /\ issued' = [issued EXCEPT !.key = @ + 1]
  /\ UNCHANGED removals
  /\ SecretEvent

SecretRemoved ==
  /\ secret.there /\ removals < MaxRemovals
  /\ secret' = NoSecret
  /\ removals' = removals + 1
  /\ UNCHANGED issued
  /\ SecretEvent

MonsMove ==
  /\ mons < MaxMons
  /\ mons' = mons + 1
  /\ ecQ' = TRUE
  /\ UNCHANGED <<secret, issued, removals, eccSeen, ecc, eccQ, eccPass, csiVars, ecPass, ready, aborts>>

CsiCephCreates ==
  /\ conn # NoConnection /\ ~created
  /\ created' = TRUE
  /\ ecQ' = TRUE
  /\ UNCHANGED <<rookVars, eccSeen, ecc, eccQ, eccPass, conn, ecPass, ready, aborts>>

Rook == RookCreates \/ RookRotates \/ SecretRemoved \/ MonsMove

-----------------------------------------------------------------------------
Next ==
  \/ EccStep \/ EccAbort
  \/ EcStep \/ EcAbort
  \/ SeeECC
  \/ Rook \/ CsiCephCreates

Spec == Init /\ [][Next]_vars

(***************************************************************************)
(* An enqueued pass starts and goes on, each cache catches up, csi-ceph     *)
(* takes up a connection.  Nothing is asked of Rook.                       *)
(***************************************************************************)
Fairness ==
  /\ WF_vars(EccStep) /\ WF_vars(EcStep)
  /\ WF_vars(SeeECC)
  /\ WF_vars(CsiCephCreates)

FairSpec == Spec /\ Fairness

-----------------------------------------------------------------------------
(* Properties. *)

\* The FSID of a backup, once set, is never cleared or replaced, whichever Secret
\* a pass has read and however outdated the copy it computes its patch from.
IdentityKept == [][ecc.spec.fsid # 0 => ecc'.spec.fsid = ecc.spec.fsid]_vars

\* A reader of the backup may rely on its phase once the reconciler has nothing
\* left to do or to hear of: what it calls Populated has all three fields.
PopulatedMeansComplete ==
  eccPc = "idle" /\ ~eccQ /\ eccSeen = ecc /\ ecc.phase = "Populated" =>
    ecc.spec.fsid # 0 /\ ecc.spec.mon /\ ecc.spec.admin # 0

\* csi-ceph has been told what Rook's objects say now.
Connected ==
  /\ conn = [fsid |-> secret.fsid, key |-> DesiredECCSpec(secret).admin, mons |-> mons]
  /\ ready

\* Nothing will start a pass of either reconciler, and no event is under way.
AtRest ==
  /\ eccPc = "idle" /\ ~eccQ
  /\ ecPc = "idle" /\ ~ecQ
  /\ eccSeen = ecc

\* No wake-up is lost on the way through the three objects: the reconcilers come to
\* rest only with the backup that of the Secret and the connection that of the
\* Secret, the key in the backup and the monitors.  A backup of another cluster
\* leaves them no rest.
RestMeansConnected == AtRest => Connected /\ ecc.spec = DesiredECCSpec(secret)

\* Once Rook leaves a complete Secret of the mirrored cluster and its monitors
\* alone, the connection gets the current key, FSID and monitors and the stage
\* is done, on nothing but the events that enqueue the passes.
EventuallyConnected ==
  <>[](/\ Complete(DesiredECCSpec(secret)) /\ mons # 0
       /\ ecc.spec.fsid \in {0, secret.fsid}
       => Connected)
=============================================================================
