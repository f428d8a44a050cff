------------------------------- MODULE Rollout -------------------------------
(***************************************************************************)
(* How one ElasticCluster drives its CephCluster: the mon and mgr counts    *)
(* that a HighRedundancy storage class raises and that must stay raised,   *)
(* the image of a new Ceph version, and the conditions that report the     *)
(* rolling upgrade.                                                        *)
(*                                                                         *)
(* A pass of the controller reads its own object and the storage classes   *)
(* from informer caches, the CephCluster from the API server.  It runs     *)
(* only when something has enqueued it: a watch, a requeue, a restart.     *)
(* Versions are numbered in the order of their release.                    *)
(***************************************************************************)
EXTENDS Naturals, FiniteSets

CONSTANTS
  Daemon,      \* Ceph daemons of the cluster, numbered as Rook rolls them:
               \* mon, mgr, osd, mds
  MaxVersion,  \* bound on the versions released
  StatusLags,  \* may a pass read an outdated status of its own cluster
  MaxAborts    \* bound on passes cut short by an API error or a restart

ASSUME ConstAssumption ==
  /\ Daemon \subseteq Nat /\ MaxVersion \in Nat \ {0}
  /\ StatusLags \in BOOLEAN /\ MaxAborts \in Nat

VARIABLES
  queued, pc, job,       \* the work queue and the pass of the cluster
  topo, topoSeen,        \* status.cephTopology, and as the cache shows it
  upgradeReady, inProgress, \* conditions UpgradeReady and UpgradeInProgress
  hr,                    \* the cache lists a HighRedundancy class
  spec,                  \* the CephCluster: mon and mgr counts, image
  desired,               \* the version this controller was built for
  target, daemons,       \* Rook: the version aimed at, that of each daemon
  overall, phaseReady,   \* Rook: the reported versions, phase Ready
  healthy,               \* the cluster is HEALTH_OK or HEALTH_WARN
  waived,                \* history: the recorded topology was cleared by the
                         \* operator, read late, or not written by a pass that
                         \* was cut short, and no pass has made up for it
  aborts

passVars   == <<queued, pc, job>>
topoVars   == <<topo, topoSeen, waived>>
condVars   == <<upgradeReady, inProgress>>
rookVars   == <<target, daemons, overall, phaseReady, healthy>>
vars == <<passVars, topoVars, condVars, hr, spec, desired, rookVars, aborts>>

Version == 1..MaxVersion
Max2(a, b) == IF a > b THEN a ELSE b

\* Counts of zero stand for a status or a CephCluster that does not exist.
Topology == [mon : {0, 3, 5}, mgr : {0, 2, 3}, promoted : BOOLEAN]
NoTopology == [mon |-> 0, mgr |-> 0, promoted |-> FALSE]
NoCluster == [mon |-> 0, mgr |-> 0, image |-> 0]

Pc == {"idle", "storage", "compute", "upsert", "probe", "stages", "upgrade", "publish"}

\* What a pass carries: the status it has read, the topology it will publish,
\* what it will say of the upgrade.
Job == [seen : Topology, topo : Topology, signal : {"keep", "unread", "upgrading", "stable"},
        done : BOOLEAN]

IdleJob == [seen |-> NoTopology, topo |-> NoTopology, signal |-> "keep", done |-> FALSE]

TypeOK ==
  /\ queued \in BOOLEAN /\ pc \in Pc /\ job \in Job
  /\ topo \in Topology /\ topoSeen \in Topology /\ waived \in BOOLEAN
  /\ upgradeReady \in BOOLEAN /\ inProgress \in BOOLEAN
  /\ hr \in BOOLEAN
  /\ spec \in [mon : {0, 3, 5}, mgr : {0, 2, 3}, image : {0} \cup Version]
  /\ desired \in Version
  /\ target \in {0} \cup Version
  /\ daemons \in [Daemon -> {0} \cup Version]
  /\ overall \in SUBSET Version
  /\ phaseReady \in BOOLEAN /\ healthy \in BOOLEAN
  /\ aborts \in 0..MaxAborts

Init ==
  /\ queued = TRUE /\ pc = "idle"
  /\ job = IdleJob
  /\ topo = NoTopology /\ topoSeen = NoTopology /\ waived = FALSE
  /\ upgradeReady = FALSE /\ inProgress = FALSE
  /\ hr = FALSE
  /\ spec = NoCluster /\ desired = 1
  /\ target = 0 /\ daemons = [d \in Daemon |-> 0] /\ overall = {}
  /\ phaseReady = FALSE /\ healthy = TRUE
  /\ aborts = 0

\* Counts t ask for no less than the CephCluster cl does.
Covers(t, cl) == cl.mon <= t.mon /\ cl.mgr <= t.mgr

-----------------------------------------------------------------------------
(* Pure functions of the controller. *)

\* The profile asked for, and the recorded counts as a floor.
ComputeCephTopology_NotSticky(seen, present) ==
  [mon |-> IF present THEN 5 ELSE 3, mgr |-> IF present THEN 3 ELSE 2]
ComputeCephTopology(seen, present) ==
  [mon |-> Max2(IF present THEN 5 ELSE 3, seen.mon),
   mgr |-> Max2(IF present THEN 3 ELSE 2, seen.mgr)]

\* lastPromotedAt is stamped when a count rises above the standard profile.
BuildCephTopologyStatus_Swapped(seen, want) ==
  [mon |-> want.mgr, mgr |-> want.mon, promoted |-> seen.promoted]
BuildCephTopologyStatus(seen, want) ==
  [mon |-> want.mon, mgr |-> want.mgr,
   promoted |-> \/ seen.promoted
                \/ /\ want.mon > seen.mon \/ want.mgr > seen.mgr
                   /\ want.mon > 3 \/ want.mgr > 2]

\* The version all daemons run as far as Rook tells, 0 if they disagree; before
\* the first report it is the version that Rook aims at.
RunningVersion_Target == target
RunningVersion ==
  IF overall = {} THEN target
  ELSE IF Cardinality(overall) = 1 THEN CHOOSE v \in overall : TRUE
  ELSE 0

\* probeCephUpgradeState: neither done nor in progress while the health gate
\* holds the image back.
ProbeDone == spec.image = desired /\ RunningVersion = desired
ProbeInProgress == IF spec.image = desired THEN ~ProbeDone ELSE healthy
Signal == IF ProbeInProgress THEN "upgrading" ELSE "stable"

-----------------------------------------------------------------------------
(* The pass. *)

\* The status builder starts from the status as the cache shows it.
Begin ==
  /\ pc = "idle" /\ queued
  /\ queued' = FALSE
  /\ pc' = "storage"
  /\ job' = [IdleJob EXCEPT !.seen = topoSeen, !.topo = topoSeen]
  /\ waived' = (waived \/ topoSeen # topo)
  /\ UNCHANGED <<topo, topoSeen, condVars, hr, spec, desired, rookVars, aborts>>

EnsureStorage ==
  /\ pc = "storage"
  /\ pc' \in {"compute", "publish"}
  /\ UNCHANGED <<queued, job, topoVars, condVars, hr, spec, desired,
                 rookVars, aborts>>

Compute ==
  /\ pc = "compute"
  /\ job' = [job EXCEPT !.topo =
               BuildCephTopologyStatus(job.seen, ComputeCephTopology(job.seen, hr))]
  /\ pc' = "upsert"
  /\ UNCHANGED <<queued, topoVars, condVars, hr, spec, desired, rookVars, aborts>>

\* The whole spec is written, the image of the desired version included.
UpsertCephCluster ==
  /\ pc = "upsert"
  /\ spec' = [mon |-> job.topo.mon, mgr |-> job.topo.mgr, image |-> desired]
  /\ pc' = "probe"
  /\ UNCHANGED <<queued, job, topoVars, condVars, hr, desired, rookVars, aborts>>

\* The topology is published even if its CephCluster could not be written.
UpsertFails ==
  /\ pc = "upsert" /\ aborts < MaxAborts
  /\ pc' = "publish"
  /\ aborts' = aborts + 1
  /\ UNCHANGED <<queued, job, topoVars, condVars, hr, spec, desired,
                 rookVars>>

\* The signal is taken before the phase gates the later stages.
Probe_Gated ==
  /\ pc = "probe"
  /\ job' = [job EXCEPT !.signal = IF phaseReady THEN Signal ELSE "stable"]
  /\ pc' = IF phaseReady THEN "stages" ELSE "publish"
  /\ UNCHANGED <<queued, topoVars, condVars, hr, spec, desired, rookVars, aborts>>

Probe ==
  /\ pc = "probe"
  /\ job' = [job EXCEPT !.signal = Signal]
  /\ pc' = IF phaseReady THEN "stages" ELSE "publish"
  /\ UNCHANGED <<queued, topoVars, condVars, hr, spec, desired, rookVars, aborts>>

\* CredentialsReady and CsiCephReady.
LaterStages ==
  /\ pc = "stages"
  /\ pc' \in {"upgrade", "publish"}
  /\ UNCHANGED <<queued, job, topoVars, condVars, hr, spec, desired,
                 rookVars, aborts>>

EnsureUpgrade ==
  /\ pc = "upgrade"
  /\ job' = [job EXCEPT !.signal = Signal, !.done = ProbeDone]
  /\ pc' = "publish"
  /\ UNCHANGED <<queued, topoVars, condVars, hr, spec, desired, rookVars, aborts>>

\* The CephCluster cannot be read: the signal of the first look is taken back.
EnsureUpgradeFails ==
  /\ pc = "upgrade" /\ aborts < MaxAborts
  /\ job' = [job EXCEPT !.signal = "unread"]
  /\ pc' = "publish"
  /\ aborts' = aborts + 1
  /\ UNCHANGED <<queued, topoVars, condVars, hr, spec, desired, rookVars>>

\* updateECStatus: fields the pass knows replace those of the latest object.  A
\* pass that has not reached Ready is requeued.
Requeued_Never == queued
Requeued == queued \/ ~job.done

Publish ==
  /\ pc = "publish"
  /\ topo' = IF job.topo = NoTopology THEN topo ELSE job.topo
  /\ topoSeen' = IF StatusLags THEN topoSeen ELSE topo'
  /\ waived' = (waived /\ ~Covers(job.topo, spec))
  /\ upgradeReady' = job.done
  /\ inProgress' = IF job.signal = "keep" THEN inProgress ELSE job.signal = "upgrading"
  /\ queued' = Requeued
  /\ pc' = "idle" /\ job' = IdleJob
  /\ UNCHANGED <<hr, spec, desired, rookVars, aborts>>

\* Where a pass may have asked for counts that it has not recorded.
Unrecorded == {"probe", "stages", "upgrade", "publish"}

\* A crash, or a status update that fails: the pass leaves no trace in the
\* status and is run again.
Abort ==
  /\ pc # "idle" /\ aborts < MaxAborts
  /\ pc' = "idle" /\ job' = IdleJob
  /\ queued' = TRUE
  /\ aborts' = aborts + 1
  /\ waived' = (waived \/ (pc \in Unrecorded /\ job.topo # topo))
  /\ UNCHANGED <<topo, topoSeen, condVars, hr, spec, desired, rookVars>>

Step ==
  \/ EnsureStorage \/ Compute \/ UpsertCephCluster \/ Probe \/ LaterStages
  \/ EnsureUpgrade \/ Publish

-----------------------------------------------------------------------------
\* The update of the cluster's own status enqueues nothing.
SyncStatus ==
  /\ topoSeen # topo
  /\ topoSeen' = topo
  /\ UNCHANGED <<passVars, topo, waived, condVars, hr, spec, desired,
                 rookVars, aborts>>

-----------------------------------------------------------------------------
(* Rook.  Every update of the CephCluster enqueues the cluster. *)

RookTargets ==
  /\ spec # NoCluster
  /\ target # spec.image
  /\ target' = spec.image
  /\ phaseReady' = FALSE
  /\ queued' = TRUE
  /\ UNCHANGED <<pc, job, topoVars, condVars, hr, spec, desired, daemons, overall, healthy, aborts>>

\* One daemon after the other; a running one is replaced only in a healthy
\* cluster.
RookRolls(d) ==
  /\ daemons[d] # target
  /\ \A e \in Daemon : e < d => daemons[e] = target
  /\ daemons[d] = 0 \/ healthy
  /\ daemons' = [daemons EXCEPT ![d] = target]
  /\ UNCHANGED <<passVars, topoVars, condVars, hr, spec, desired, target, overall, phaseReady, healthy, aborts>>

Running == {daemons[d] : d \in Daemon} \ {0}

RookReports ==
  /\ overall # Running
  /\ overall' = Running
  /\ queued' = TRUE
  /\ UNCHANGED <<pc, job, topoVars, condVars, hr, spec, desired, target, daemons, phaseReady, healthy, aborts>>

RookReady ==
  /\ ~phaseReady
  /\ target # 0 /\ target = spec.image
  /\ \A d \in Daemon : daemons[d] = target
  /\ phaseReady' = TRUE
  /\ queued' = TRUE
  /\ UNCHANGED <<pc, job, topoVars, condVars, hr, spec, desired, target, daemons, overall, healthy, aborts>>

HealthChanges ==
  /\ healthy' = ~healthy
  /\ queued' = TRUE
  /\ UNCHANGED <<pc, job, topoVars, condVars, hr, spec, desired, target, daemons, overall, phaseReady, aborts>>

Rook == RookTargets \/ (\E d \in Daemon : RookRolls(d)) \/ RookReports \/ RookReady

-----------------------------------------------------------------------------
(* The operator. *)

\* A HighRedundancy class is created (admitted by the webhook) or deleted: an
\* event of a storage class enqueues its cluster.
ClassesChange_Silent ==
  /\ hr' = ~hr
  /\ UNCHANGED <<passVars, topoVars, condVars, spec, desired, rookVars, aborts>>

ClassesChange ==
  /\ hr' = ~hr
  /\ queued' = TRUE
  /\ UNCHANGED <<pc, job, topoVars, condVars, spec, desired, rookVars, aborts>>

\* status.cephTopology is cleared and a reconcile triggered.
ClearTopology ==
  /\ topo # NoTopology
  /\ topo' = NoTopology
  /\ topoSeen' = IF StatusLags THEN topoSeen ELSE NoTopology
  /\ waived' = TRUE
  /\ queued' = TRUE
  /\ UNCHANGED <<pc, job, condVars, hr, spec, desired, rookVars, aborts>>

\* A new release of the module, started between two passes.
ModuleUpdate ==
  /\ pc = "idle"
  /\ desired < MaxVersion
  /\ desired' = desired + 1
  /\ queued' = TRUE
  /\ UNCHANGED <<pc, job, topoVars, condVars, hr, spec, rookVars, aborts>>

-----------------------------------------------------------------------------
Next ==
  \/ Begin \/ Step \/ UpsertFails \/ EnsureUpgradeFails \/ Abort
  \/ SyncStatus
  \/ Rook \/ HealthChanges
  \/ ClassesChange \/ ClearTopology \/ ModuleUpdate

Spec == Init /\ [][Next]_vars

(***************************************************************************)
(* An enqueued pass starts and goes on, the caches catch up, Rook does what *)
(* it can.  The other stages succeed again and again if tried again and    *)
(* again.                                                                  *)
(***************************************************************************)
Fairness ==
  /\ WF_vars(Begin) /\ WF_vars(Step)
  /\ SF_vars(EnsureStorage /\ pc' = "compute")
  /\ SF_vars(LaterStages /\ pc' = "upgrade")
  /\ WF_vars(SyncStatus)
  /\ WF_vars(RookTargets) /\ WF_vars(RookReports) /\ WF_vars(RookReady)
  /\ \A d \in Daemon : WF_vars(RookRolls(d))

FairSpec == Spec /\ Fairness

-----------------------------------------------------------------------------
(* Properties. *)

\* The mon and mgr counts asked of Rook never fall, unless the operator has
\* cleared the recorded topology, a pass has read an outdated record, or one was
\* cut short before it could record what it had asked for; and once a later pass
\* has recorded what was asked for, they are safe again.
DemotionAccounted ==
  [][spec'.mon < spec.mon \/ spec'.mgr < spec.mgr =>
       waived]_vars

\* A pass whose last look at the CephCluster succeeded and was overtaken by no event
\* reports a mixed cluster as upgrading, whichever stage gated it in the end.
SignalAccurate ==
  [][pc = "publish" /\ pc' = "idle" /\ aborts' = aborts =>
       (job.signal \notin {"keep", "unread"} /\ ~queued /\ Cardinality(overall) > 1 => inProgress')]_vars

\* A pass judges the upgrade done only when every daemon really runs the desired
\* version, though Rook's report is late, its target early and the phase it has
\* seen may be of the time before the rollout.  (Until Rook's first report the
\* controller takes Rook's target for the running version.)
UpgradeReadyTruthful ==
  [][~job.done /\ job'.done /\ overall # {} =>
       \A d \in Daemon : daemons[d] = desired]_vars

\* Nothing will start a pass of the cluster.
AtRest == pc = "idle" /\ ~queued

\* The CephCluster is what the cluster needs now, and Rook is done with it.
Served ==
  /\ spec.image = desired
  /\ hr => spec.mon = 5 /\ spec.mgr = 3
  /\ phaseReady /\ ProbeDone

\* No wake-up is lost: a controller at rest has asked for the promotion of every
\* class there is and for the version it was built for, has recorded the very counts
\* it has asked for, and every daemon runs that version and is said to.  Whatever
\* happens behind the step of a pass that deals with it must bring a pass again.
RestMeansServed ==
  AtRest => /\ Served
            /\ topo.mon = spec.mon /\ topo.mgr = spec.mgr
            /\ upgradeReady /\ ~inProgress
            /\ \A d \in Daemon : daemons[d] = desired

\* A HighRedundancy class that stays gets its mons and mgrs, on nothing but the
\* events that enqueue a pass.
EventuallyPromoted == []<>(hr => spec.mon = 5 /\ spec.mgr = 3)

\* A new version eventually runs everywhere and is reported so.
EventuallyUpgraded ==
  <>[]healthy => []<>(upgradeReady /\ \A d \in Daemon : daemons[d] = desired)

\* The pre-upgrade gate as the comments state it: the image of a running cluster
\* changes only while that is HEALTH_OK or HEALTH_WARN.
HealthGate ==
  [][overall # {} /\ spec'.image # spec.image => healthy]_vars
=============================================================================
