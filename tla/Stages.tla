------------------------------- MODULE Stages -------------------------------
(***************************************************************************)
(* How a verdict reaches the status.  The ElasticCluster and the           *)
(* ElasticStorageClass controllers run the same machine: an event or a     *)
(* timer enqueues the object, a pass judges the stages in order, stops at  *)
(* the first that is not done, gates those behind it and writes the        *)
(* conditions; nothing but another event starts a pass over an object that *)
(* is Ready.  What a stage finds is a set of sources that are up or down;  *)
(* how each stage finds it out is the subject of the other modules.        *)
(*                                                                         *)
(* One object of either kind; its passes never overlap.                    *)
(***************************************************************************)
EXTENDS Naturals

CONSTANTS
  Volatile,      \* the sources that may go down and come up again
  LateKinds,     \* dependency kinds whose CRD may be missing at start-up
  MaxGeneration  \* bound on the changes of the spec

ASSUME ConstAssumption == MaxGeneration \in Nat \ {0}

VARIABLES
  kind,        \* which of the two controllers
  up,          \* the sources
  watching,    \* the kinds of object the running controller watches
  generation, terminating,  \* metadata of the object
  queued, timer,  \* the key in the work queue, and one to be added later
  pc, job,     \* the pass: generation read and conditions built
  status,      \* the published conditions, phase and observedGeneration
  snapshot,    \* the published status.health
  calm         \* API errors and restarts have come to an end

objVars   == <<generation, terminating>>
queueVars == <<queued, timer>>
passVars  == <<pc, job>>
pubVars   == <<status, snapshot>>
vars == <<kind, up, watching, objVars, queueVars, passVars, pubVars, calm>>

Kinds == {"ElasticCluster", "ElasticStorageClass"}

\* stageOrder: StorageReady, CephClusterReady, CredentialsReady, CsiCephReady,
\* UpgradeReady, and what each waits for.
EcNeeds == <<{"devices", "volumes"}, {"ceph"}, {"mon"}, {"ecc", "ccc"}, {"versions"}>>

\* escStageOrder: PoolReady, which waits for the CephClusterReady condition of the
\* cluster first, and CsiStorageClassReady.
EscNeeds == <<{"ec", "pool"}, {"csc"}>>

Needs == IF kind = "ElasticCluster" THEN EcNeeds ELSE EscNeeds
Stage == DOMAIN Needs
Last  == IF kind = "ElasticCluster" THEN 5 ELSE 2
Sources == UNION {Needs[k] : k \in Stage}

\* The kind of object that tells of a source.  No one watches the LVMVolumeGroups,
\* the LVMLogicalVolumes and the PersistentVolumes of a cluster.
EcTold == [devices |-> "BlockDevice", volumes |-> "unwatched", ceph |-> "CephCluster",
           mon |-> "Secret", ecc |-> "ElasticClusterCredential",
           ccc |-> "CephClusterConnection", versions |-> "CephCluster"]
EscTold == [ec |-> "ElasticCluster", pool |-> "CephBlockPool", csc |-> "CephStorageClass"]
Told(s) == IF kind = "ElasticCluster" THEN EcTold[s] ELSE EscTold[s]

\* Watched from the start; the dependencies only if their CRD is registered then.
BuiltIn    == {"Secret", "ElasticClusterCredential", "ElasticCluster"}
Dependency == {"BlockDevice", "CephCluster", "CephClusterConnection",
               "CephBlockPool", "CephStorageClass"}

ASSUME LateAssumption == LateKinds \subseteq Dependency

Condition == {"none", "True", "Pending", "ReconcileFailed", "WaitingForDependency"}
Phase  == {"Pending", "Error", "InProgress", "Ready"}
Status == [cond : [1..5 -> Condition], ready : {"none", "True", "False"},
           phase : Phase, observed : 0..MaxGeneration]

\* status.health: not published, HEALTH_OK or worse.
Health == {"none", "good", "bad"}

TypeOK ==
  /\ kind \in Kinds
  /\ up \in [Sources -> BOOLEAN]
  /\ BuiltIn \subseteq watching /\ watching \subseteq BuiltIn \cup Dependency
  /\ generation \in 1..MaxGeneration
  /\ terminating \in BOOLEAN /\ queued \in BOOLEAN /\ timer \in BOOLEAN
  /\ calm \in BOOLEAN
  /\ pc \in {"idle", "judge", "publish", "teardown"}
  /\ job \in [gen : 0..MaxGeneration, cond : [1..5 -> Condition]]
  /\ status \in Status
  /\ snapshot \in Health

NoConditions == [k \in 1..5 |-> "none"]
IdleJob == [gen |-> 0, cond |-> NoConditions]

Init ==
  /\ kind \in Kinds
  /\ up = [s \in Sources |-> s \notin Volatile]
  /\ \E late \in SUBSET LateKinds : watching = (BuiltIn \cup Dependency) \ late
  /\ generation = 1 /\ terminating = FALSE
  /\ queued = TRUE /\ timer = FALSE
  /\ pc = "idle" /\ job = IdleJob
  /\ status = [cond |-> NoConditions, ready |-> "none", phase |-> "Pending",
               observed |-> 0]
  /\ snapshot = "none"
  /\ calm = FALSE

-----------------------------------------------------------------------------
(* The stages of a verdict (conditions.Stages of the shared library). *)

Live == ~terminating
Done(k) == \A s \in Needs[k] : up[s]

\* The first stage that the pass has not judged yet.
Current == CHOOSE k \in Stage : /\ job.cond[k] = "none"
                                /\ \A i \in 1..(k - 1) : job.cond[i] # "none"

\* Gate: what lies behind a stage that did not pass waits for it.
Gated_Not(cond, k, verdict) == [cond EXCEPT ![k] = verdict]
Gated(cond, k, verdict) ==
  [i \in 1..5 |-> CASE i = k -> verdict
                    [] i > k /\ i <= Last -> "WaitingForDependency"
                    [] OTHER -> cond[i]]

AllTrue(cond) == \A k \in Stage : cond[k] = "True"
Failed(cond) == \E k \in Stage : cond[k] = "ReconcileFailed"

\* A stage without a verdict makes the phase Pending, a failed one Error.
PhaseOf(cond) ==
  CASE \E k \in Stage : cond[k] = "none" -> "Pending"
    [] Failed(cond) -> "Error"
    [] AllTrue(cond) -> "Ready"
    [] OTHER -> "InProgress"

\* Conditions the pass has not touched keep their published value.
Merged(old, new) == [k \in 1..5 |-> IF new[k] = "none" THEN old[k] ELSE new[k]]

\* An event of an object of kind w enqueues the key if the kind is watched.
Event(w) == queued' = (queued \/ w \in watching)

-----------------------------------------------------------------------------
(* A pass. *)

\* Reconcile: the object is read once; what comes in from now on enqueues the key
\* for the next pass.
Begin ==
  /\ pc = "idle"
  /\ queued
  /\ queued' = FALSE
  /\ IF terminating
     THEN pc' = "teardown" /\ UNCHANGED job
     ELSE pc' = "judge" /\ job' = [IdleJob EXCEPT !.gen = generation]
  /\ UNCHANGED <<kind, up, watching, objVars, timer, pubVars, calm>>

\* advance: a stage that is done lets the pass go on, the last one ends it.
Passes ==
  /\ pc = "judge"
  /\ Done(Current)
  /\ job' = [job EXCEPT !.cond[Current] = "True"]
  /\ pc' = IF Current = Last THEN "publish" ELSE "judge"
  /\ UNCHANGED <<kind, up, watching, objVars, queueVars, pubVars, calm>>

Stops ==
  /\ pc = "judge"
  /\ ~Done(Current)
  /\ job' = [job EXCEPT !.cond = Gated(@, Current, "Pending")]
  /\ pc' = "publish"
  /\ UNCHANGED <<kind, up, watching, objVars, queueVars, pubVars, calm>>

StageFails ==
  /\ ~calm
  /\ pc = "judge"
  /\ job' = [job EXCEPT !.cond = Gated(@, Current, "ReconcileFailed")]
  /\ pc' = "publish"
  /\ UNCHANGED <<kind, up, watching, objVars, queueVars, pubVars, calm>>

\* The conditions are merged into the status and the phase is derived; the pass is
\* repeated by itself unless all is done.
Published ==
  LET cond == Merged(status.cond, job.cond)
  IN  [cond |-> cond, observed |-> job.gen, phase |-> PhaseOf(cond),
       ready |-> IF AllTrue(job.cond) THEN "True" ELSE "False"]

Requeues_Never == FALSE
Requeues == ~AllTrue(job.cond)

WriteStatus ==
  /\ pc = "publish"
  /\ status' = Published
  /\ timer' = (timer \/ Requeues)
  /\ pc' = "idle" /\ job' = IdleJob
  /\ UNCHANGED <<kind, up, watching, objVars, queued, calm>>

\* Ahead of the write of an ElasticCluster the health is read from the CephCluster;
\* a read that fails empties what was published.
Observed == IF up.ceph THEN "good" ELSE "bad"
Snapshot_Sticky(fetched) == IF snapshot = "none" THEN Observed ELSE snapshot
Snapshot(fetched) == IF fetched THEN Observed ELSE "none"

PublishEc(fetched) ==
  /\ fetched \/ ~calm
  /\ kind = "ElasticCluster"
  /\ WriteStatus
  /\ snapshot' = Snapshot(fetched)

PublishEsc ==
  /\ kind = "ElasticStorageClass"
  /\ WriteStatus
  /\ UNCHANGED snapshot

\* A read or a write of the object fails: nothing is published, the pass is
\* repeated.
PassFails ==
  /\ ~calm
  /\ pc # "idle"
  /\ timer' = TRUE
  /\ pc' = "idle" /\ job' = IdleJob
  /\ UNCHANGED <<kind, up, watching, objVars, queued, pubVars, calm>>

\* The teardown publishes what it waits for; its own steps are in Teardown.
TeardownStatus == [status EXCEPT !.ready = "False", !.phase = "InProgress"]

PatchDeleteCondition(of) ==
  /\ kind = of
  /\ pc = "teardown"
  /\ status' = TeardownStatus
  /\ timer' = TRUE
  /\ pc' = "idle"
  /\ UNCHANGED <<kind, up, watching, objVars, queued, job, snapshot, calm>>

PatchECDeleteCondition == PatchDeleteCondition("ElasticCluster")
PatchESCDeleteCondition == PatchDeleteCondition("ElasticStorageClass")

-----------------------------------------------------------------------------
(* The queue and the process. *)

TimerFires ==
  /\ timer
  /\ timer' = FALSE
  /\ queued' = TRUE
  /\ UNCHANGED <<kind, up, watching, objVars, passVars, pubVars, calm>>

Restart_LateOnly ==
  /\ ~calm
  /\ \E crds \in SUBSET LateKinds : watching' = crds
  /\ queued' = TRUE /\ timer' = FALSE
  /\ pc' = "idle" /\ job' = IdleJob
  /\ UNCHANGED <<kind, up, objVars, pubVars, calm>>

\* Every object is listed at start-up; a CRD that has come since is watched.
Restart ==
  /\ ~calm
  /\ \E crds \in SUBSET LateKinds : watching' = watching \cup crds
  /\ queued' = TRUE /\ timer' = FALSE
  /\ pc' = "idle" /\ job' = IdleJob
  /\ UNCHANGED <<kind, up, objVars, pubVars, calm>>

\* The last error is over.
Settle ==
  /\ ~calm
  /\ calm' = TRUE
  /\ UNCHANGED <<kind, up, watching, objVars, queueVars, passVars, pubVars>>

-----------------------------------------------------------------------------
(* The world. *)

Change_OnRise(s) ==
  /\ s \in Volatile \cap Sources
  /\ up' = [up EXCEPT ![s] = ~@]
  /\ IF up[s] THEN UNCHANGED queued ELSE Event(Told(s))
  /\ UNCHANGED <<kind, watching, objVars, timer, passVars, pubVars, calm>>

\* A storage class hears of its cluster only when CephClusterReady flips, which
\* is when this source does.
Change(s) ==
  /\ s \in Volatile \cap Sources
  /\ up' = [up EXCEPT ![s] = ~@]
  /\ Event(Told(s))
  /\ UNCHANGED <<kind, watching, objVars, timer, passVars, pubVars, calm>>

\* Rook writes the time of its health check into the CephCluster.
Heartbeat ==
  /\ kind = "ElasticCluster"
  /\ Event("CephCluster")
  /\ UNCHANGED <<kind, up, watching, objVars, timer, passVars, pubVars, calm>>

\* A change of the spec raises the generation, and passes the predicate.
EditSpec ==
  /\ Live
  /\ generation < MaxGeneration
  /\ generation' = generation + 1
  /\ queued' = TRUE
  /\ UNCHANGED <<kind, up, watching, terminating, timer, passVars, pubVars, calm>>

\* The deletion leaves the generation alone; a predicate of its own lets it pass.
Delete_ByGeneration ==
  /\ Live
  /\ terminating' = TRUE
  /\ UNCHANGED <<kind, up, watching, generation, queueVars, passVars, pubVars, calm>>

Delete ==
  /\ Live
  /\ terminating' = TRUE
  /\ queued' = TRUE
  /\ UNCHANGED <<kind, up, watching, generation, timer, passVars, pubVars, calm>>

-----------------------------------------------------------------------------
Step == \/ Passes \/ Stops \/ PublishEc(TRUE) \/ PublishEsc
        \/ PatchECDeleteCondition \/ PatchESCDeleteCondition

Error == StageFails \/ PassFails \/ PublishEc(FALSE) \/ Restart

Next ==
  \/ Begin \/ Step \/ Error \/ Settle \/ TimerFires
  \/ (\E s \in Volatile : Change(s)) \/ Heartbeat \/ EditSpec \/ Delete

Spec == Init /\ [][Next]_vars

(***************************************************************************)
(* The work queue hands out the keys, timers fire, a pass goes on.  API    *)
(* errors and restarts come to an end, for an error in every pass keeps    *)
(* any verdict from the status.  The world is under no obligation.         *)
(***************************************************************************)
Fairness ==
  /\ WF_vars(Begin) /\ WF_vars(Step) /\ WF_vars(TimerFires)
  /\ WF_vars(Settle)

FairSpec == Spec /\ Fairness

-----------------------------------------------------------------------------
(* Properties. *)

\* The status never mixes the verdicts of two passes: no stage is True behind one
\* that is not, and the Ready condition and the phase, which the printed columns
\* show side by side, never disagree.
StatusConsistent ==
  /\ \A i, k \in Stage : i < k /\ status.cond[k] = "True" => status.cond[i] = "True"
  /\ status.ready = "True" => AllTrue(status.cond)
  /\ status.ready = "True" <=> status.phase = "Ready"

\* Nothing will start a pass: the key is in no queue, no timer runs, no pass is on.
AtRest == pc = "idle" /\ ~queued /\ ~timer

\* What stage k waits for is up, as far as the controller is told of it.
Upheld(k) == \A s \in Needs[k] : Told(s) \in watching => up[s]

\* No wake-up is lost: a controller at rest has published Ready for the spec of
\* now, of an object that is not being deleted, and everything it watches is up.
\* Whatever happens between the judging of a stage and the write of the verdict
\* must have left the key in the queue.
RestMeansReady ==
  AtRest => /\ ~terminating
            /\ status.ready = "True" /\ status.observed = generation
            /\ \A k \in Stage : Upheld(k)

\* With everything up for good, the object becomes Ready on its current spec; once
\* it is deleted it is shown as such, Ready as it was.
Converges ==
  []<>(IF terminating
       THEN status.ready = "False"
       ELSE \/ \E s \in Sources : ~up[s]
            \/ status.ready = "True" /\ status.observed = generation)

\* A source that goes down for good does not leave the object Ready, if the kind of
\* object that tells of it is watched.
SourcesFollowed ==
  \A s \in Volatile :
    []<>(s \in Sources => up[s] \/ Told(s) \notin watching \/ status.ready # "True")

\* The published health follows the CephCluster even if a read of it failed in the
\* last pass, as long as Rook goes on checking and the CephCluster is watched.
SnapshotFollows ==
  WF_vars(Heartbeat) =>
    []<>(\/ kind # "ElasticCluster" \/ terminating
         \/ "CephCluster" \notin watching
         \/ snapshot = Observed)
=============================================================================
