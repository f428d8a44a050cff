---------------------------- MODULE RolloutProofs ----------------------------
(***************************************************************************)
(* Proofs about Rollout, for any number of daemons, versions, aborted      *)
(* passes and late reads of the status.                                    *)
(***************************************************************************)
EXTENDS Rollout, FiniteSetTheorems, TLAPS

-----------------------------------------------------------------------------
(* The inductive invariant. *)

\* The mon and mgr counts rise together.
Paired(t) == t.mon = 5 <=> t.mgr = 3

\* Nothing has been cleared, lost or read late: the record covers what was asked
\* of Rook up to where a pass asks for more, and so does every pass that may.
Recorded ==
  ~waived =>
    /\ pc \in {"idle", "storage", "compute", "upsert"} => Covers(topo, spec)
    /\ pc # "idle" => Covers(job.topo, spec)
    /\ pc \in {"storage", "compute"} => Covers(job.seen, spec)

FloorInv ==
  /\ Paired(topo) /\ Paired(topoSeen) /\ Paired(job.seen) /\ Paired(job.topo)
  /\ Paired(spec)
  /\ Recorded

\* Versions flow from the controller to the CephCluster, to Rook's target, to the
\* daemons and into the report, and never back.
VersionsOrdered ==
  /\ \A d \in Daemon : daemons[d] <= target
  /\ target <= spec.image /\ spec.image <= desired
  /\ \A v \in overall : v <= target
  /\ phaseReady => target # 0 /\ \A d \in Daemon : daemons[d] = target

\* What a report that names one version says of the daemons that have started.
ReportSound ==
  \A v \in Version : overall = {v} =>
    \A d \in Daemon : daemons[d] = 0 \/ v <= daemons[d]

\* A pass that has seen a healthy phase has seen every daemon started.
PassSound ==
  /\ pc \in {"probe", "stages", "upgrade"} => spec.image = desired
  /\ pc \in {"stages", "upgrade"} => \A d \in Daemon : daemons[d] # 0
  /\ pc \in {"storage", "compute", "upsert", "probe"} => job.signal = "keep"

\* The last signal of a pass that no event has overtaken is that of a mixed
\* cluster if the cluster is mixed.
SignalSound ==
  job.signal \notin {"keep", "unread"} /\ ~queued /\ Cardinality(overall) > 1 =>
    job.signal = "upgrading"

\* Topology t was computed, for the classes there are.
Promotes(t) == t.mon # 0 /\ (hr => t.mon = 5 /\ t.mgr = 3)
SameCounts(t) == spec.mon = t.mon /\ spec.mgr = t.mgr

RolloutInv ==
  /\ TypeOK
  /\ FloorInv
  /\ VersionsOrdered /\ ReportSound /\ PassSound /\ SignalSound

\* What a pass has dealt with is dealt with as long as no event has brought the key
\* back into the queue: the counts it will record serve the classes of now, the
\* CephCluster has them, and a verdict of "done" still holds.
PassCurrent ==
  ~queued =>
    /\ pc \in {"upsert", "probe", "stages", "upgrade"} => Promotes(job.topo)
    /\ pc \in {"probe", "stages", "upgrade"} => SameCounts(job.topo)
    /\ pc \in {"stages", "upgrade"} => phaseReady
    /\ job.done => /\ Served /\ job.signal = "stable"
                   /\ Promotes(job.topo) /\ SameCounts(job.topo)

Judging == job.done => pc = "publish"

\* What is left of a pass that said "done".
RestCurrent ==
  AtRest => Served /\ SameCounts(topo) /\ upgradeReady /\ ~inProgress

AwakeInv == PassCurrent /\ Judging /\ RestCurrent

-----------------------------------------------------------------------------
(* The functions of the controller. *)

LEMMA TopologyComputed ==
  ASSUME NEW seen \in Topology, NEW present \in BOOLEAN, Paired(seen)
  PROVE  LET t == BuildCephTopologyStatus(seen, ComputeCephTopology(seen, present))
         IN  /\ t \in Topology /\ Paired(t)
             /\ seen.mon <= t.mon /\ seen.mgr <= t.mgr
             /\ t.mon # 0
<1> DEFINE want == ComputeCephTopology(seen, present)
<1>1. seen.mon \in {0, 3, 5} /\ seen.mgr \in {0, 2, 3} /\ seen.promoted \in BOOLEAN
  BY DEF Topology
<1>2. want.mon \in {3, 5} /\ want.mgr \in {2, 3}
  BY <1>1 DEF ComputeCephTopology, Max2
<1>3. want.mon = 5 <=> want.mgr = 3
  BY <1>1 DEF ComputeCephTopology, Max2, Paired
<1>4. seen.mon <= want.mon /\ seen.mgr <= want.mgr
  BY <1>1 DEF ComputeCephTopology, Max2
<1> HIDE DEF want
<1>5. BuildCephTopologyStatus(seen, want) \in Topology
  BY <1>1, <1>2 DEF BuildCephTopologyStatus, Topology
<1> QED
  BY <1>2, <1>3, <1>4, <1>5 DEF BuildCephTopologyStatus, Paired, want

LEMMA IdleJobType == IdleJob \in Job /\ NoTopology \in Topology /\ Paired(NoTopology)
BY DEF IdleJob, NoTopology, Job, Topology, Paired

\* A report of two versions is one no daemon of which is named alone.
LEMMA MixedReport ==
  ASSUME TypeOK, Cardinality(overall) > 1, spec.image = desired
  PROVE  Signal = "upgrading"
<1>1. overall # {}
  BY FS_EmptySet
<1>2. RunningVersion = 0
  BY <1>1 DEF RunningVersion
<1>3. desired # 0
  BY DEF TypeOK, Version
<1> QED
  BY <1>2, <1>3 DEF Signal, ProbeInProgress, ProbeDone

\* An upgrade judged done rests on a report that names the desired version alone.
LEMMA DoneReport ==
  ASSUME TypeOK, ProbeDone, overall # {}
  PROVE  overall = {desired}
<1>1. Cardinality(overall) = 1
  <2>1. RunningVersion = desired /\ desired # 0
    BY DEF ProbeDone, TypeOK, Version
  <2> QED
    BY <2>1 DEF RunningVersion
<1>2. IsFiniteSet(overall)
  <2>1. IsFiniteSet(1..MaxVersion)
    BY FS_Interval, ConstAssumption
  <2> QED
    BY <2>1, FS_Subset DEF TypeOK, Version
<1>3. PICK v : overall = {v}
  BY <1>1, <1>2, FS_Singleton
<1> QED
  BY <1>1, <1>3 DEF ProbeDone, RunningVersion

LEMMA SignalType == Signal \in {"upgrading", "stable"} /\ ProbeDone \in BOOLEAN
BY DEF Signal, ProbeDone

LEMMA RunningType == TypeOK => Running \subseteq Version
BY DEF Running, TypeOK

-----------------------------------------------------------------------------
(* The initial states. *)

LEMMA RolloutInit == Init => RolloutInv
<1> SUFFICES ASSUME Init PROVE RolloutInv
  OBVIOUS
<1>1. TypeOK
  <2>1. spec \in [mon : {0, 3, 5}, mgr : {0, 2, 3}, image : {0} \cup Version]
    BY DEF Init, NoCluster
  <2>2. desired \in Version /\ target \in {0} \cup Version /\ overall \subseteq Version
        /\ daemons \in [Daemon -> {0} \cup Version] /\ aborts \in 0..MaxAborts
    BY ConstAssumption DEF Init, Version
  <2>3. pc \in Pc
    BY DEF Init, Pc
  <2> QED
    BY <2>1, <2>2, <2>3, IdleJobType DEF Init, TypeOK
<1>2. FloorInv
  BY IdleJobType DEF Init, FloorInv, Paired, Recorded, Covers, NoCluster, NoTopology, IdleJob
<1>3. VersionsOrdered /\ ReportSound
  BY DEF Init, VersionsOrdered, ReportSound, NoCluster
<1>4. PassSound /\ SignalSound
  BY DEF Init, PassSound, SignalSound, IdleJob
<1> QED
  BY <1>1, <1>2, <1>3, <1>4 DEF RolloutInv

-----------------------------------------------------------------------------
(* Types. *)

LEMMA TypeStep == TypeOK /\ FloorInv /\ [Next]_vars => TypeOK'
<1> SUFFICES ASSUME TypeOK, FloorInv, [Next]_vars PROVE TypeOK'
  OBVIOUS
<1> USE DEF passVars, topoVars, condVars, rookVars
<1>1. CASE Begin
  BY <1>1, IdleJobType DEF Begin, TypeOK, Pc, Job, IdleJob
<1>2. CASE EnsureStorage
  BY <1>2 DEF EnsureStorage, TypeOK, Pc
<1>3. CASE Compute
  <2>1. BuildCephTopologyStatus(job.seen, ComputeCephTopology(job.seen, hr)) \in Topology
    BY TopologyComputed DEF TypeOK, Job, FloorInv
  <2> QED
    BY <1>3, <2>1 DEF Compute, TypeOK, Pc, Job
<1>4. CASE UpsertCephCluster
  BY <1>4 DEF UpsertCephCluster, TypeOK, Pc, Job, Topology
<1>5. CASE UpsertFails
  BY <1>5, ConstAssumption DEF UpsertFails, TypeOK, Pc
<1>6. CASE Probe
  BY <1>6, SignalType DEF Probe, TypeOK, Pc, Job
<1>7. CASE LaterStages
  BY <1>7 DEF LaterStages, TypeOK, Pc
<1>8. CASE EnsureUpgrade
  <2> DEFINE done == ProbeDone
             signal == Signal
  <2>1. done \in BOOLEAN /\ signal \in {"upgrading", "stable"}
    BY SignalType
  <2>2. job' = [job EXCEPT !.signal = signal, !.done = done] /\ pc' = "publish"
    BY <1>8 DEF EnsureUpgrade
  <2> HIDE DEF done, signal
  <2>3. job' \in Job /\ pc' \in Pc
    BY <2>1, <2>2 DEF Job, TypeOK, Pc
  <2> QED
    BY <1>8, <2>3 DEF EnsureUpgrade, TypeOK
<1>9. CASE EnsureUpgradeFails
  BY <1>9, ConstAssumption DEF EnsureUpgradeFails, TypeOK, Pc, Job
<1>10. CASE Publish
  <2>1. topo' \in Topology /\ topoSeen' \in Topology
    BY <1>10 DEF Publish, TypeOK, Job
  <2>2. waived' \in BOOLEAN /\ upgradeReady' \in BOOLEAN /\ inProgress' \in BOOLEAN
    BY <1>10 DEF Publish, TypeOK, Job
  <2>3. queued' \in BOOLEAN /\ pc' \in Pc /\ job' \in Job
    BY <1>10, IdleJobType DEF Publish, Requeued, TypeOK, Pc
  <2> QED
    BY <1>10, <2>1, <2>2, <2>3 DEF Publish, TypeOK
<1>11. CASE Abort
  BY <1>11, IdleJobType, ConstAssumption DEF Abort, TypeOK, Pc
<1>12. CASE SyncStatus
  BY <1>12 DEF SyncStatus, TypeOK
<1>13. CASE RookTargets
  BY <1>13 DEF RookTargets, TypeOK
<1>14. CASE \E d \in Daemon : RookRolls(d)
  BY <1>14 DEF RookRolls, TypeOK
<1>15. CASE RookReports
  BY <1>15, RunningType DEF RookReports, TypeOK
<1>16. CASE RookReady
  BY <1>16 DEF RookReady, TypeOK
<1>17. CASE HealthChanges
  BY <1>17 DEF HealthChanges, TypeOK
<1>18. CASE ClassesChange
  BY <1>18 DEF ClassesChange, TypeOK
<1>19. CASE ClearTopology
  BY <1>19, IdleJobType DEF ClearTopology, TypeOK
<1>20. CASE ModuleUpdate
  BY <1>20, ConstAssumption DEF ModuleUpdate, TypeOK, Version
<1>21. CASE UNCHANGED vars
  BY <1>21 DEF vars, TypeOK
<1> QED
  BY <1>1, <1>2, <1>3, <1>4, <1>5, <1>6, <1>7, <1>8, <1>9, <1>10, <1>11, <1>12,
     <1>13, <1>14, <1>15, <1>16, <1>17, <1>18, <1>19, <1>20, <1>21
  DEF Next, Step, Rook

-----------------------------------------------------------------------------
(* The recorded counts. *)

LEMMA FloorStep == TypeOK /\ FloorInv /\ [Next]_vars => FloorInv'
<1> SUFFICES ASSUME TypeOK, FloorInv, [Next]_vars PROVE FloorInv'
  OBVIOUS
<1> USE DEF passVars, topoVars, condVars, rookVars
<1>0. aborts \in Nat /\ job \in Job /\ job.topo \in Topology /\ job.seen \in Topology
      /\ topo \in Topology /\ topoSeen \in Topology
  BY ConstAssumption DEF TypeOK, Job
<1>1. CASE Begin
  <2>1. job'.seen = topoSeen /\ job'.topo = topoSeen
    BY <1>1 DEF Begin, IdleJob
  <2> QED
    BY <1>1, <2>1 DEF Begin, FloorInv, Paired, Recorded, Covers
<1>2. CASE EnsureStorage
  BY <1>2 DEF EnsureStorage, FloorInv, Paired, Recorded, Covers
<1>3. CASE Compute
  <2> DEFINE t == BuildCephTopologyStatus(job.seen, ComputeCephTopology(job.seen, hr))
  <2>1. Paired(t) /\ job.seen.mon <= t.mon /\ job.seen.mgr <= t.mgr /\ t \in Topology
    BY <1>0, TopologyComputed DEF TypeOK, FloorInv
  <2> HIDE DEF t
  <2>2. job'.topo = t /\ job'.seen = job.seen
    BY <1>3, <1>0 DEF Compute, Job, t
  <2>3. Covers(job.seen, spec) => Covers(t, spec)
    BY <2>1, <1>0 DEF Covers, TypeOK, Topology
  <2> QED
    BY <1>3, <2>1, <2>2, <2>3 DEF Compute, FloorInv, Paired, Recorded, Covers
<1>4. CASE UpsertCephCluster
  <2>1. spec'.mon = job.topo.mon /\ spec'.mgr = job.topo.mgr
    BY <1>4 DEF UpsertCephCluster
  <2>2. Covers(job.topo, spec)'
    BY <1>0, <1>4, <2>1 DEF UpsertCephCluster, Covers, Topology
  <2> QED
    BY <1>4, <2>1, <2>2 DEF UpsertCephCluster, FloorInv, Paired, Recorded
<1>5. CASE UpsertFails
  BY <1>0, <1>5 DEF UpsertFails, FloorInv, Paired, Recorded
<1>6. CASE Probe
  BY <1>0, <1>6 DEF Probe, FloorInv, Paired, Recorded, Covers, Job
<1>7. CASE LaterStages
  BY <1>7 DEF LaterStages, FloorInv, Paired, Recorded, Covers
<1>8. CASE EnsureUpgrade
  BY <1>0, <1>8 DEF EnsureUpgrade, FloorInv, Paired, Recorded, Covers, Job
<1>9. CASE EnsureUpgradeFails
  BY <1>0, <1>9 DEF EnsureUpgradeFails, FloorInv, Paired, Recorded, Covers, Job
<1>10. CASE Publish
  <2>1. /\ Paired(topo') /\ Paired(topoSeen')
        /\ Paired(job'.seen) /\ Paired(job'.topo)
    BY <1>10, IdleJobType DEF Publish, FloorInv, IdleJob
  <2>2. ASSUME ~waived' PROVE Covers(topo', spec)
    <3>1. spec.mon \in {0, 3, 5} /\ spec.mgr \in {0, 2, 3}
      BY DEF TypeOK
    <3>2. Covers(job.topo, spec)
      <4>1. ~(waived /\ ~Covers(job.topo, spec))
        BY <1>10, <2>2 DEF Publish
      <4> QED
        BY <1>10, <4>1 DEF Publish, FloorInv, Recorded
    <3>3. CASE job.topo = NoTopology
      BY <1>0, <1>10, <3>1, <3>2, <3>3 DEF Publish, Covers, NoTopology, Topology
    <3>4. CASE job.topo # NoTopology
      BY <1>10, <3>2, <3>4 DEF Publish
    <3> QED
      BY <3>3, <3>4
  <2> QED
    BY <1>10, <2>1, <2>2 DEF Publish, FloorInv, Paired, Recorded, Covers
<1>11. CASE Abort
  <2>1. ASSUME ~waived' PROVE Covers(topo, spec)
    <3>1. ~waived /\ ~(pc \in Unrecorded /\ job.topo # topo)
      BY <1>11, <2>1 DEF Abort
    <3>2. pc \in {"storage", "compute", "upsert"} \/ job.topo = topo
      BY <1>11, <3>1 DEF Abort, TypeOK, Pc, Unrecorded
    <3> QED
      BY <1>11, <3>1, <3>2 DEF Abort, FloorInv, Recorded
  <2>2. Covers(topo', spec') <=> Covers(topo, spec)
    BY <1>11 DEF Abort
  <2> QED
    BY <1>11, <2>1, <2>2, IdleJobType DEF Abort, FloorInv, Paired, Recorded, IdleJob
<1>12. CASE SyncStatus
  BY <1>12 DEF SyncStatus, FloorInv, Paired, Recorded, Covers
<1>13. CASE Rook \/ HealthChanges \/ ClassesChange
  <2>1. UNCHANGED <<pc, job, topoVars, spec, aborts>>
    BY <1>13 DEF Rook, RookTargets, RookRolls, RookReports, RookReady, HealthChanges,
                 ClassesChange
  <2> QED
    BY <2>1 DEF FloorInv, Paired, Recorded, Covers
<1>14. CASE ClearTopology
  BY <1>14, IdleJobType DEF ClearTopology, FloorInv, Paired, Recorded
<1>15. CASE ModuleUpdate
  BY <1>15 DEF ModuleUpdate, FloorInv, Paired, Recorded, Covers
<1>16. CASE UNCHANGED vars
  BY <1>16 DEF vars, FloorInv, Paired, Recorded, Covers
<1> QED
  BY <1>1, <1>2, <1>3, <1>4, <1>5, <1>6, <1>7, <1>8, <1>9, <1>10, <1>11, <1>12,
     <1>13, <1>14, <1>15, <1>16
  DEF Next, Step

-----------------------------------------------------------------------------
(* Versions and the report. *)

LEMMA VersionsSame ==
  ASSUME UNCHANGED <<rookVars, desired>>, spec'.image = spec.image,
         VersionsOrdered, ReportSound
  PROVE  VersionsOrdered' /\ ReportSound'
BY DEF rookVars, VersionsOrdered, ReportSound, Version

LEMMA VersionStep ==
  TypeOK /\ VersionsOrdered /\ ReportSound /\ [Next]_vars
    => VersionsOrdered' /\ ReportSound'
<1> SUFFICES ASSUME TypeOK, VersionsOrdered, ReportSound, [Next]_vars
             PROVE  VersionsOrdered' /\ ReportSound'
  OBVIOUS
<1> USE DEF passVars, topoVars, condVars, rookVars
<1>0. /\ target \in Nat /\ spec.image \in Nat /\ desired \in Nat
      /\ \A d \in Daemon : daemons[d] \in Nat
      /\ overall \subseteq Nat
  BY DEF TypeOK, Version
<1>1. CASE UpsertCephCluster
  <2>1. spec'.image = desired
    BY <1>1 DEF UpsertCephCluster
  <2> QED
    BY <1>0, <1>1, <2>1 DEF UpsertCephCluster, VersionsOrdered, ReportSound, Version
<1>2. CASE RookTargets
  BY <1>0, <1>2 DEF RookTargets, VersionsOrdered, ReportSound, Version
<1>3. CASE \E d \in Daemon : RookRolls(d)
  <2>1. PICK d \in Daemon : RookRolls(d)
    BY <1>3
  <2>2. ~phaseReady
    BY <2>1 DEF RookRolls, VersionsOrdered
  <2>3. \A e \in Daemon : daemons'[e] = IF e = d THEN target ELSE daemons[e]
    BY <2>1 DEF RookRolls, TypeOK
  <2>4. UNCHANGED <<target, spec, desired, overall, phaseReady>>
    BY <2>1 DEF RookRolls
  <2>5. VersionsOrdered'
    BY <1>0, <2>2, <2>3, <2>4 DEF VersionsOrdered
  <2>6. ReportSound'
    <3> SUFFICES ASSUME NEW v \in Version, overall = {v}, NEW e \in Daemon
                 PROVE  daemons'[e] = 0 \/ v <= daemons'[e]
      BY <2>4 DEF ReportSound, Version
    <3>1. v <= target
      BY DEF VersionsOrdered
    <3> QED
      BY <2>3, <3>1 DEF ReportSound
  <2> QED
    BY <2>5, <2>6
<1>4. CASE RookReports
  <2>1. VersionsOrdered'
    BY <1>4 DEF RookReports, VersionsOrdered, Running
  <2>2. ReportSound'
    <3> SUFFICES ASSUME NEW v \in Version, overall' = {v}, NEW d \in Daemon
                 PROVE  daemons[d] = 0 \/ v <= daemons[d]
      BY <1>4 DEF RookReports, ReportSound, Version
    <3>1. daemons[d] = 0 \/ daemons[d] \in overall'
      BY <1>4 DEF RookReports, Running
    <3> QED
      BY <1>0, <3>1
  <2> QED
    BY <2>1, <2>2
<1>5. CASE RookReady
  BY <1>5 DEF RookReady, VersionsOrdered, ReportSound, Version
<1>6. CASE HealthChanges
  BY <1>6 DEF HealthChanges, VersionsOrdered, ReportSound, Version
<1>7. CASE ModuleUpdate
  BY <1>0, <1>7 DEF ModuleUpdate, VersionsOrdered, ReportSound, Version
<1>8. CASE \/ Begin \/ EnsureStorage \/ Compute \/ UpsertFails \/ Probe \/ LaterStages
           \/ EnsureUpgrade \/ EnsureUpgradeFails \/ Publish \/ Abort \/ SyncStatus
           \/ ClassesChange \/ ClearTopology \/ UNCHANGED vars
  <2>1. UNCHANGED <<rookVars, desired, spec>>
    BY <1>8
    DEF Begin, EnsureStorage, Compute, UpsertFails, Probe, LaterStages, EnsureUpgrade,
        EnsureUpgradeFails, Publish, Abort, SyncStatus, ClassesChange, ClearTopology, vars
  <2> QED
    BY <2>1, VersionsSame
<1> QED
  BY <1>1, <1>2, <1>3, <1>4, <1>5, <1>6, <1>7, <1>8 DEF Next, Step, Rook

-----------------------------------------------------------------------------
(* The pass and its signal. *)

LEMMA PassStep ==
  TypeOK /\ VersionsOrdered /\ PassSound /\ SignalSound /\ [Next]_vars
    => PassSound' /\ SignalSound'
<1> SUFFICES ASSUME TypeOK, VersionsOrdered, PassSound, SignalSound, [Next]_vars
             PROVE  PassSound' /\ SignalSound'
  OBVIOUS
<1> USE DEF passVars, topoVars, condVars, rookVars
<1>0. job \in Job /\ \A d \in Daemon : daemons[d] \in Nat
  BY DEF TypeOK, Version
<1>1. CASE Begin
  <2>1. job'.signal = "keep"
    BY <1>1 DEF Begin, IdleJob
  <2> QED
    BY <1>1, <2>1 DEF Begin, PassSound, SignalSound
<1>2. CASE EnsureStorage
  BY <1>2 DEF EnsureStorage, PassSound, SignalSound
<1>3. CASE Compute
  <2>1. job'.signal = job.signal
    BY <1>0, <1>3 DEF Compute, Job
  <2> QED
    BY <1>3, <2>1 DEF Compute, PassSound, SignalSound
<1>4. CASE UpsertCephCluster
  BY <1>4 DEF UpsertCephCluster, PassSound, SignalSound
<1>5. CASE UpsertFails
  BY <1>5 DEF UpsertFails, PassSound, SignalSound
<1>6. CASE Probe
  <2>1. job'.signal = Signal
    BY <1>0, <1>6 DEF Probe, Job
  <2>2. spec.image = desired
    BY <1>6 DEF Probe, PassSound
  <2>3. SignalSound'
    BY <1>6, <2>1, <2>2, MixedReport DEF Probe, SignalSound
  <2>4. PassSound'
    BY <1>6, <2>2 DEF Probe, PassSound, VersionsOrdered
  <2> QED
    BY <2>3, <2>4
<1>7. CASE LaterStages
  BY <1>7 DEF LaterStages, PassSound, SignalSound
<1>8. CASE EnsureUpgrade
  <2>1. job'.signal = Signal
    BY <1>0, <1>8 DEF EnsureUpgrade, Job
  <2>2. spec.image = desired
    BY <1>8 DEF EnsureUpgrade, PassSound
  <2>3. SignalSound'
    BY <1>8, <2>1, <2>2, MixedReport DEF EnsureUpgrade, SignalSound
  <2>4. PassSound'
    BY <1>8 DEF EnsureUpgrade, PassSound
  <2> QED
    BY <2>3, <2>4
<1>9. CASE EnsureUpgradeFails
  <2>1. job'.signal = "unread"
    BY <1>0, <1>9 DEF EnsureUpgradeFails, Job
  <2> QED
    BY <1>9, <2>1 DEF EnsureUpgradeFails, PassSound, SignalSound
<1>10. CASE Publish \/ Abort
  <2>1. job'.signal = "keep" /\ pc' = "idle"
    BY <1>10 DEF Publish, Abort, IdleJob
  <2> QED
    BY <2>1 DEF PassSound, SignalSound
<1>11. CASE RookTargets \/ RookReady \/ HealthChanges \/ ClassesChange \/ ClearTopology
  BY <1>11 DEF RookTargets, RookReady, HealthChanges, ClassesChange, ClearTopology,
               PassSound, SignalSound
<1>12. CASE \E d \in Daemon : RookRolls(d)
  <2>1. PICK d \in Daemon : RookRolls(d)
    BY <1>12
  <2>2. \A e \in Daemon : daemons'[e] = IF e = d THEN target ELSE daemons[e]
    BY <2>1 DEF RookRolls, TypeOK
  <2>3. daemons[d] # 0 => target # 0
    BY <1>0 DEF VersionsOrdered, TypeOK, Version
  <2>4. UNCHANGED <<pc, job, queued, spec, desired, overall>>
    BY <2>1 DEF RookRolls
  <2> QED
    BY <2>2, <2>3, <2>4 DEF PassSound, SignalSound
<1>13. CASE RookReports
  BY <1>13 DEF RookReports, PassSound, SignalSound
<1>14. CASE ModuleUpdate
  BY <1>14 DEF ModuleUpdate, PassSound, SignalSound
<1>15. CASE SyncStatus
  BY <1>15 DEF SyncStatus, PassSound, SignalSound
<1>16. CASE UNCHANGED vars
  BY <1>16 DEF vars, PassSound, SignalSound
<1> QED
  BY <1>1, <1>2, <1>3, <1>4, <1>5, <1>6, <1>7, <1>8, <1>9, <1>10, <1>11, <1>12,
     <1>13, <1>14, <1>15, <1>16
  DEF Next, Step, Rook

-----------------------------------------------------------------------------
(* No wake-up is lost. *)

\* The profile computed serves the classes of the moment.
LEMMA ComputedPromotes ==
  ASSUME NEW seen \in Topology, hr \in BOOLEAN
  PROVE  Promotes(BuildCephTopologyStatus(seen, ComputeCephTopology(seen, hr)))
BY DEF Promotes, BuildCephTopologyStatus, ComputeCephTopology, Max2, Topology

\* An image of the desired version is never reported in progress once it is done.
LEMMA DoneStable == ProbeDone => Signal = "stable"
BY DEF Signal, ProbeInProgress, ProbeDone

\* A step that leaves the key in the queue, with a pass that has judged nothing.
LEMMA StillAwake ==
  ASSUME queued', Judging'
  PROVE  AwakeInv'
BY DEF AwakeInv, PassCurrent, RestCurrent, AtRest

\* A step of the pass ahead of its verdict.
LEMMA StepAwake ==
  ASSUME AwakeInv, pc # "idle", pc' # "idle", ~job'.done,
         queued' = queued,
         ~queued =>
           /\ pc' \in {"upsert", "probe", "stages", "upgrade"} => Promotes(job.topo)'
           /\ pc' \in {"probe", "stages", "upgrade"} => SameCounts(job.topo)'
           /\ pc' \in {"stages", "upgrade"} => phaseReady'
  PROVE  AwakeInv'
BY DEF AwakeInv, PassCurrent, Judging, RestCurrent, AtRest

\* Nothing that AwakeInv looks at has changed.
LEMMA AwakeSame ==
  ASSUME AwakeInv, UNCHANGED <<passVars, topo, condVars, hr, spec, desired, target,
                               overall, phaseReady>>
  PROVE  AwakeInv'
BY DEF AwakeInv, PassCurrent, Judging, RestCurrent, AtRest, Served, Promotes, SameCounts,
       ProbeDone, RunningVersion, passVars, condVars

LEMMA AwakeInit == Init => AwakeInv
BY DEF Init, AwakeInv, PassCurrent, Judging, RestCurrent, AtRest, IdleJob

LEMMA AwakeStep == TypeOK /\ PassSound /\ AwakeInv /\ [Next]_vars => AwakeInv'
<1> SUFFICES ASSUME TypeOK, PassSound, AwakeInv, [Next]_vars PROVE AwakeInv'
  OBVIOUS
<1> USE DEF passVars, topoVars, condVars, rookVars
<1>0. /\ job \in Job /\ job.topo \in Topology /\ job.seen \in Topology
      /\ hr \in BOOLEAN /\ queued \in BOOLEAN
      /\ pc # "publish" => ~job.done
  BY DEF TypeOK, Job, AwakeInv, Judging
<1>1. CASE Begin
  <2>1. ~job'.done /\ pc' = "storage"
    BY <1>1 DEF Begin, IdleJob
  <2> QED
    BY <2>1 DEF AwakeInv, PassCurrent, Judging, RestCurrent, AtRest
<1>2. CASE EnsureStorage
  BY <1>0, <1>2, StepAwake DEF EnsureStorage
<1>3. CASE Compute
  <2>1. /\ job'.topo = BuildCephTopologyStatus(job.seen, ComputeCephTopology(job.seen, hr))
        /\ job'.done = job.done /\ hr' = hr
    BY <1>0, <1>3 DEF Compute, Job
  <2>2. Promotes(job.topo)'
    BY <1>0, <2>1, ComputedPromotes DEF Promotes
  <2> QED
    BY <1>0, <1>3, <2>1, <2>2, StepAwake DEF Compute
<1>4. CASE UpsertCephCluster
  <2>1. spec'.mon = job.topo.mon /\ spec'.mgr = job.topo.mgr /\ UNCHANGED <<job, hr, queued>>
    BY <1>4 DEF UpsertCephCluster
  <2>2. SameCounts(job.topo)' /\ (Promotes(job.topo) => Promotes(job.topo)')
    BY <2>1 DEF SameCounts, Promotes
  <2> QED
    BY <1>0, <1>4, <2>1, <2>2, StepAwake DEF UpsertCephCluster, AwakeInv, PassCurrent
<1>5. CASE UpsertFails
  BY <1>0, <1>5, StepAwake DEF UpsertFails
<1>6. CASE Probe
  <2>1. UNCHANGED <<hr, spec, queued, phaseReady>> /\ job'.topo = job.topo /\ ~job'.done
        /\ pc = "probe" /\ pc' = IF phaseReady THEN "stages" ELSE "publish"
    BY <1>0, <1>6 DEF Probe, Job
  <2>2. ~queued => Promotes(job.topo)' /\ SameCounts(job.topo)'
    BY <2>1 DEF AwakeInv, PassCurrent, Promotes, SameCounts
  <2> QED
    BY <2>1, <2>2, StepAwake
<1>7. CASE LaterStages
  <2>1. UNCHANGED <<job, hr, spec, queued, phaseReady>> /\ pc = "stages"
        /\ pc' \in {"upgrade", "publish"}
    BY <1>7 DEF LaterStages
  <2>2. ~queued => Promotes(job.topo)' /\ SameCounts(job.topo)' /\ phaseReady'
    BY <2>1 DEF AwakeInv, PassCurrent, Promotes, SameCounts
  <2> QED
    BY <1>0, <2>1, <2>2, StepAwake
<1>8. CASE EnsureUpgrade
  <2> DEFINE signal == Signal
             done == ProbeDone
  <2>1. job' = [job EXCEPT !.signal = signal, !.done = done]
    BY <1>8 DEF EnsureUpgrade
  <2> HIDE DEF signal, done
  <2>2. job'.topo = job.topo /\ job'.signal = signal /\ job'.done = done
    BY <1>0, <2>1 DEF Job
  <2>3. UNCHANGED <<queued, hr, spec, desired, phaseReady, target, overall>>
        /\ pc = "upgrade" /\ pc' = "publish"
    BY <1>8 DEF EnsureUpgrade
  <2>4. SUFFICES ASSUME ~queued, done
                 PROVE  (Served /\ job.signal = "stable" /\ Promotes(job.topo)
                           /\ SameCounts(job.topo))'
    BY <2>2, <2>3 DEF AwakeInv, PassCurrent, Judging, RestCurrent, AtRest
  <2>5. Promotes(job.topo) /\ SameCounts(job.topo) /\ phaseReady
    BY <2>3, <2>4 DEF AwakeInv, PassCurrent
  <2>6. Served
    BY <2>3, <2>4, <2>5 DEF Served, Promotes, SameCounts, PassSound, done
  <2>7. Served'
    BY <2>3, <2>6 DEF Served, ProbeDone, RunningVersion
  <2>8. Promotes(job.topo)' /\ SameCounts(job.topo)'
    BY <2>2, <2>3, <2>5 DEF Promotes, SameCounts
  <2>9. signal = "stable"
    BY <2>4, DoneStable DEF done, signal
  <2> QED
    BY <2>2, <2>7, <2>8, <2>9
<1>9. CASE EnsureUpgradeFails
  <2>1. job'.done = job.done
    BY <1>0, <1>9 DEF EnsureUpgradeFails, Job
  <2> QED
    BY <1>0, <1>9, <2>1, StepAwake DEF EnsureUpgradeFails
<1>10. CASE Publish
  <2>1. ~job'.done /\ pc' = "idle" /\ UNCHANGED <<hr, spec, desired, phaseReady, target, overall>>
        /\ queued' = (queued \/ ~job.done) /\ pc = "publish"
    BY <1>10 DEF Publish, IdleJob, Requeued
  <2>2. SUFFICES ASSUME ~queued, job.done
                 PROVE  RestCurrent'
    BY <1>0, <2>1, StillAwake DEF AwakeInv, PassCurrent, Judging
  <2>3. Served /\ job.signal = "stable" /\ Promotes(job.topo) /\ SameCounts(job.topo)
    BY <2>1, <2>2 DEF AwakeInv, PassCurrent
  <2>4. topo' = job.topo
    BY <1>10, <2>3 DEF Publish, Promotes, NoTopology
  <2>5. upgradeReady' /\ ~inProgress'
    BY <1>10, <2>2, <2>3 DEF Publish
  <2>6. Served' /\ SameCounts(topo)'
    BY <2>1, <2>3, <2>4 DEF Served, ProbeDone, RunningVersion, SameCounts
  <2> QED
    BY <2>5, <2>6 DEF RestCurrent
<1>11. CASE Abort
  BY <1>11, StillAwake DEF Abort, Judging, IdleJob
<1>12. CASE \/ RookTargets \/ RookReports \/ RookReady \/ HealthChanges
            \/ ClassesChange \/ ClearTopology \/ ModuleUpdate
  <2>1. queued' /\ UNCHANGED <<pc, job>>
    BY <1>12 DEF RookTargets, RookReports, RookReady, HealthChanges, ClassesChange,
                 ClearTopology, ModuleUpdate
  <2> QED
    BY <2>1, StillAwake DEF AwakeInv, Judging
<1>13. CASE SyncStatus \/ (\E d \in Daemon : RookRolls(d)) \/ UNCHANGED vars
  BY <1>13, AwakeSame DEF SyncStatus, RookRolls, vars
<1> QED
  BY <1>1, <1>2, <1>3, <1>4, <1>5, <1>6, <1>7, <1>8, <1>9, <1>10, <1>11, <1>12, <1>13
  DEF Next, Step, Rook

\* Every daemon runs the desired version when the report names it alone, or when
\* Rook has none to give and aims at it.
LEMMA ServedEverywhere ==
  ASSUME RolloutInv, Served, NEW d \in Daemon
  PROVE  daemons[d] = desired
<1> USE DEF RolloutInv
<1>1. /\ daemons[d] = target /\ target # 0
      /\ target <= spec.image /\ spec.image = desired
  BY DEF VersionsOrdered, Served
<1>2. CASE overall = {}
  BY <1>1, <1>2 DEF Served, ProbeDone, RunningVersion
<1>3. CASE overall # {}
  <2>1. overall = {desired}
    BY <1>3, DoneReport DEF Served
  <2>2. desired <= daemons[d]
    BY <1>1, <2>1 DEF ReportSound, TypeOK
  <2> QED
    BY <1>1, <2>2 DEF TypeOK, Version
<1> QED
  BY <1>2, <1>3

-----------------------------------------------------------------------------
(* The theorems. *)

\* The invariant above holds of every reachable state.
THEOREM RolloutSafe == Spec => []RolloutInv
<1>1. Init => RolloutInv
  BY RolloutInit
<1>2. RolloutInv /\ [Next]_vars => RolloutInv'
  BY TypeStep, FloorStep, VersionStep, PassStep DEF RolloutInv
<1> QED
  BY <1>1, <1>2, PTL DEF Spec

\* Every variable keeps its type.
THEOREM TypeCorrect == Spec => []TypeOK
<1>1. RolloutInv => TypeOK
  BY DEF RolloutInv
<1> QED
  BY <1>1, RolloutSafe, PTL

\* The counts asked of Rook fall only where the record was cleared, read late or not
\* written, and nothing has made up for it since: for as many classes that come and
\* go, passes cut short, daemons and versions as there may be.
THEOREM DemotionsAccounted == Spec => DemotionAccounted
<1>1. RolloutInv /\ [Next]_vars
        => [spec'.mon < spec.mon \/ spec'.mgr < spec.mgr => waived]_vars
  <2> SUFFICES ASSUME RolloutInv, [Next]_vars, ~waived
               PROVE  ~(spec'.mon < spec.mon \/ spec'.mgr < spec.mgr)
    OBVIOUS
  <2>1. spec.mon \in Nat /\ spec.mgr \in Nat
    BY ConstAssumption DEF RolloutInv, TypeOK
  <2>2. CASE UpsertCephCluster
    <3>1. Covers(job.topo, spec)
      BY <2>1, <2>2 DEF UpsertCephCluster, RolloutInv, FloorInv, Recorded
    <3>2. spec'.mon = job.topo.mon /\ spec'.mgr = job.topo.mgr
      BY <2>2 DEF UpsertCephCluster
    <3>3. job.topo.mon \in Nat /\ job.topo.mgr \in Nat
      BY DEF RolloutInv, TypeOK, Job, Topology
    <3> QED
      BY <2>1, <3>1, <3>2, <3>3 DEF Covers
  <2>3. CASE ~UpsertCephCluster
    <3>1. spec' = spec
      BY <2>3
      DEF Next, Step, Rook, Begin, EnsureStorage, Compute, UpsertFails, Probe, LaterStages,
          EnsureUpgrade, EnsureUpgradeFails, Publish, Abort, SyncStatus, RookTargets,
          RookRolls, RookReports, RookReady, HealthChanges, ClassesChange, ClearTopology,
          ModuleUpdate, vars
    <3> QED
      BY <2>1, <3>1
  <2> QED
    BY <2>2, <2>3
<1> QED
  BY <1>1, RolloutSafe, PTL DEF Spec, DemotionAccounted

\* A pass that no event has overtaken reports a mixed cluster as upgrading.
THEOREM SignalsAccurate == Spec => SignalAccurate
<1>1. RolloutInv /\ [Next]_vars
        => [pc = "publish" /\ pc' = "idle" /\ aborts' = aborts =>
              (job.signal \notin {"keep", "unread"} /\ ~queued /\ Cardinality(overall) > 1
                 => inProgress')]_vars
  <2> SUFFICES ASSUME RolloutInv, [Next]_vars, pc = "publish", pc' = "idle",
                      aborts' = aborts, job.signal \notin {"keep", "unread"}, ~queued,
                      Cardinality(overall) > 1
               PROVE  inProgress'
    OBVIOUS
  <2>1. job.signal = "upgrading"
    BY DEF RolloutInv, SignalSound
  <2>2. ~Abort
    BY ConstAssumption DEF Abort, RolloutInv, TypeOK
  <2>3. Publish
    BY <2>2
    DEF Next, Step, Rook, Begin, EnsureStorage, Compute, UpsertCephCluster, UpsertFails,
        Probe, LaterStages, EnsureUpgrade, EnsureUpgradeFails, SyncStatus, RookTargets,
        RookRolls, RookReports, RookReady, HealthChanges, ClassesChange, ClearTopology,
        ModuleUpdate, vars, passVars
  <2> QED
    BY <2>1, <2>3 DEF Publish
<1> QED
  BY <1>1, RolloutSafe, PTL DEF Spec, SignalAccurate

\* UpgradeReady is decided only when every daemon runs the desired version, however
\* late Rook's report and its phase are.
THEOREM UpgradesTruthful == Spec => UpgradeReadyTruthful
<1>1. RolloutInv /\ [Next]_vars
        => [~job.done /\ job'.done /\ overall # {} =>
              \A d \in Daemon : daemons[d] = desired]_vars
  <2> SUFFICES ASSUME RolloutInv, [Next]_vars, ~job.done, job'.done, overall # {},
                      NEW d \in Daemon
               PROVE  daemons[d] = desired
    OBVIOUS
  <2> USE DEF RolloutInv
  <2>1. EnsureUpgrade
    <3>1. job \in Job
      BY DEF TypeOK
    <3>2. job' # job /\ job' # IdleJob
      BY DEF IdleJob
    <3>3. ~Begin
      BY DEF Begin, IdleJob
    <3>4. ~Compute /\ ~Probe /\ ~EnsureUpgradeFails
      BY <3>1 DEF Compute, Probe, EnsureUpgradeFails, Job
    <3> QED
      BY <3>2, <3>3, <3>4
      DEF Next, Step, Rook, EnsureStorage, UpsertCephCluster, UpsertFails, LaterStages,
          Publish, Abort, SyncStatus, RookTargets, RookRolls, RookReports, RookReady,
          HealthChanges, ClassesChange, ClearTopology, ModuleUpdate, vars, passVars
  <2>2. ProbeDone /\ pc = "upgrade"
    <3>1. job'.done = ProbeDone
      BY <2>1 DEF EnsureUpgrade, TypeOK, Job
    <3> QED
      BY <2>1, <3>1 DEF EnsureUpgrade
  <2>3. overall = {desired}
    BY <2>2, DoneReport
  <2>4. daemons[d] # 0 /\ daemons[d] <= target /\ target <= desired
    BY <2>2 DEF PassSound, VersionsOrdered, TypeOK, Version
  <2>5. desired <= daemons[d]
    BY <2>3, <2>4 DEF ReportSound, TypeOK
  <2> QED
    BY <2>4, <2>5 DEF TypeOK, Version
<1> QED
  BY <1>1, RolloutSafe, PTL DEF Spec, UpgradeReadyTruthful

\* No wake-up is lost: a cluster that nothing will start a pass of has what its
\* classes and its controller's version ask for, on record and in every daemon.
THEOREM NothingMissed == Spec => []RestMeansServed
<1>1. Init => AwakeInv
  BY AwakeInit
<1>2. RolloutInv /\ AwakeInv /\ [Next]_vars => AwakeInv'
  BY AwakeStep DEF RolloutInv
<1>3. RolloutInv /\ AwakeInv => RestMeansServed
  BY ServedEverywhere DEF AwakeInv, RestCurrent, SameCounts, RestMeansServed
<1> QED
  BY <1>1, <1>2, <1>3, RolloutSafe, PTL DEF Spec

=============================================================================
