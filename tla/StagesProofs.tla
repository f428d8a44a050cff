---------------------------- MODULE StagesProofs ----------------------------
(***************************************************************************)
(* Proofs about Stages, for any set of sources that come and go, any CRDs  *)
(* that come late and any number of changes of the spec.                   *)
(***************************************************************************)
EXTENDS Stages, TLAPS

-----------------------------------------------------------------------------
(* The inductive invariant. *)

\* A pass has judged the stages in front of n, all of them True, and none of
\* those from n on.
JudgedUpTo(cond, n) ==
  \A k \in 1..5 : cond[k] = IF k < n THEN "True" ELSE "none"

\* The verdicts of a finished pass: one on every stage, and none of them True
\* behind one that is not.
Complete(cond) ==
  /\ \A k \in Stage : cond[k] # "none"
  /\ \A i, k \in Stage : i < k /\ cond[k] = "True" => cond[i] = "True"

PassInv ==
  /\ pc = "judge" => \E n \in Stage : JudgedUpTo(job.cond, n)
  /\ pc = "publish" => Complete(job.cond)

StageInv == TypeOK /\ PassInv /\ StatusConsistent

\* A pass whose key is not in the queue again has read the spec of now, and what it
\* judged True still holds: an event in the meantime would have brought the key
\* back.
PassCurrent ==
  pc \in {"judge", "publish"} /\ ~queued =>
    /\ ~terminating /\ job.gen = generation
    /\ \A k \in Stage : job.cond[k] = "True" => Upheld(k)

AwakeInv == PassCurrent /\ RestMeansReady

-----------------------------------------------------------------------------
(* The stages and the operators on verdicts. *)

LEMMA StageRange == kind \in Kinds => Stage = 1..Last /\ Last \in {2, 5}
<1>1. DOMAIN EcNeeds = 1..5
  BY DEF EcNeeds
<1>2. DOMAIN EscNeeds = 1..2
  BY DEF EscNeeds
<1> QED
  BY <1>1, <1>2 DEF Stage, Needs, Last, Kinds

LEMMA StageRangeNext == kind' \in Kinds => Stage' = 1..Last' /\ Last' \in {2, 5}
<1>1. DOMAIN EcNeeds = 1..5
  BY DEF EcNeeds
<1>2. DOMAIN EscNeeds = 1..2
  BY DEF EscNeeds
<1> QED
  BY <1>1, <1>2 DEF Stage, Needs, Last, Kinds

\* The stage a pass is at.
LEMMA CurrentStage ==
  ASSUME kind \in Kinds, NEW n \in Stage, JudgedUpTo(job.cond, n)
  PROVE  Current = n
<1>1. Stage = 1..Last /\ Last \in {2, 5}
  BY StageRange
<1>2. \A k \in Stage :
        (job.cond[k] = "none" /\ \A i \in 1..(k - 1) : job.cond[i] # "none") <=> k = n
  <2> TAKE k \in Stage
  <2>1. CASE k < n
    BY <1>1, <2>1 DEF JudgedUpTo
  <2>2. CASE k = n
    BY <1>1, <2>2 DEF JudgedUpTo
  <2>3. CASE k > n
    <3>1. n \in 1..(k - 1) /\ job.cond[n] = "none"
      BY <1>1, <2>3 DEF JudgedUpTo
    <3> QED
      BY <2>3, <3>1, <1>1
  <2> QED
    BY <1>1, <2>1, <2>2, <2>3
<1> QED
  BY <1>2 DEF Current

LEMMA GatedType ==
  ASSUME NEW cond \in [1..5 -> Condition], NEW k \in 1..5, NEW v \in Condition
  PROVE  Gated(cond, k, v) \in [1..5 -> Condition]
BY DEF Gated, Condition

LEMMA MergedType ==
  ASSUME NEW old \in [1..5 -> Condition], NEW new \in [1..5 -> Condition]
  PROVE  Merged(old, new) \in [1..5 -> Condition]
BY DEF Merged

\* What a stage that did not pass leaves is a complete list of verdicts.
LEMMA GatedComplete ==
  ASSUME kind \in Kinds, NEW cond \in [1..5 -> Condition], NEW n \in Stage,
         JudgedUpTo(cond, n), NEW v \in {"Pending", "ReconcileFailed"}
  PROVE  Complete(Gated(cond, n, v))
<1>1. Stage = 1..Last /\ Last \in {2, 5}
  BY StageRange
<1>2. \A k \in Stage :
        Gated(cond, n, v)[k] = IF k = n THEN v
                               ELSE IF k > n THEN "WaitingForDependency" ELSE "True"
  BY <1>1 DEF Gated, JudgedUpTo
<1> QED
  BY <1>1, <1>2 DEF Complete

\* A complete list replaces the published one.
LEMMA MergedComplete ==
  ASSUME kind \in Kinds, NEW old, NEW new, Complete(new)
  PROVE  \A k \in Stage : Merged(old, new)[k] = new[k]
BY StageRange DEF Merged, Complete

\* The phase is Ready just when every stage is True.
LEMMA ReadyPhase ==
  ASSUME kind \in Kinds, NEW cond
  PROVE  PhaseOf(cond) \in Phase /\ (PhaseOf(cond) = "Ready" <=> AllTrue(cond))
BY DEF PhaseOf, AllTrue, Failed, Phase

LEMMA IdleJobType == IdleJob \in [gen : 0..MaxGeneration, cond : [1..5 -> Condition]]
BY ConstAssumption DEF IdleJob, NoConditions, Condition

-----------------------------------------------------------------------------
(* Each step. *)

LEMMA StagesInit == Init => StageInv
<1> SUFFICES ASSUME Init PROVE StageInv
  OBVIOUS
<1>1. Stage = 1..Last /\ Last \in {2, 5}
  BY StageRange DEF Init
<1>2. NoConditions \in [1..5 -> Condition]
  BY DEF NoConditions, Condition
<1>3. status \in Status
  BY <1>2, ConstAssumption DEF Init, Status, Phase
<1>4. TypeOK
  <2>1. BuiltIn \subseteq watching /\ watching \subseteq BuiltIn \cup Dependency
    <3>1. PICK late \in SUBSET LateKinds : watching = (BuiltIn \cup Dependency) \ late
      BY DEF Init
    <3>2. BuiltIn \cap late = {}
      BY LateAssumption DEF BuiltIn, Dependency
    <3> QED
      BY <3>1, <3>2
  <2>2. up \in [Sources -> BOOLEAN] /\ generation \in 1..MaxGeneration
    BY ConstAssumption DEF Init
  <2> QED
    BY <1>3, <2>1, <2>2, IdleJobType DEF Init, TypeOK, Health
<1>5. StatusConsistent
  BY <1>1 DEF Init, StatusConsistent, NoConditions
<1> QED
  BY <1>4, <1>5 DEF Init, StageInv, PassInv

\* A step of the world or of the queue touches neither the pass nor the status.
LEMMA PassSame ==
  ASSUME StageInv, UNCHANGED <<kind, pc, job, status>>
  PROVE  PassInv' /\ StatusConsistent'
<1>1. Stage' = Stage
  BY DEF Stage, Needs
<1> QED
  BY <1>1 DEF StageInv, PassInv, StatusConsistent, JudgedUpTo, Complete, AllTrue

\* A pass that is given up leaves the status.
LEMMA PassDropped ==
  ASSUME StageInv, UNCHANGED <<kind, status>>, pc' \in {"idle", "teardown"}
  PROVE  PassInv' /\ StatusConsistent'
<1>1. Stage' = Stage
  BY DEF Stage, Needs
<1> QED
  BY <1>1 DEF StageInv, PassInv, StatusConsistent, AllTrue

LEMMA BeginStep == ASSUME StageInv, Begin PROVE StageInv'
<1>1. UNCHANGED <<kind, up, watching, objVars, timer, pubVars, calm>> /\ queued' = FALSE
  BY DEF Begin
<1>2. Sources' = Sources
  BY <1>1 DEF Sources, Stage, Needs
<1>3. CASE terminating
  <2>1. pc' = "teardown" /\ job' = job /\ UNCHANGED <<status, snapshot>>
    BY <1>1, <1>3 DEF Begin, pubVars
  <2>2. PassInv' /\ StatusConsistent'
    BY <1>1, <2>1, PassDropped
  <2> QED
    BY <1>1, <1>2, <2>1, <2>2 DEF StageInv, TypeOK, objVars
<1>4. CASE ~terminating
  <2>1. pc' = "judge" /\ job' = [IdleJob EXCEPT !.gen = generation]
    BY <1>4 DEF Begin
  <2>2. generation \in 0..MaxGeneration
    BY ConstAssumption DEF StageInv, TypeOK
  <2>3. /\ job' \in [gen : 0..MaxGeneration, cond : [1..5 -> Condition]]
        /\ job'.cond = NoConditions
    BY <2>1, <2>2, IdleJobType DEF IdleJob
  <2>4. TypeOK'
    BY <1>1, <1>2, <2>1, <2>3 DEF StageInv, TypeOK, objVars, pubVars
  <2>5. 1 \in Stage' /\ JudgedUpTo(job'.cond, 1)
    BY <1>1, <2>3, StageRangeNext DEF StageInv, TypeOK, JudgedUpTo, NoConditions
  <2>6. PassInv'
    BY <2>1, <2>5 DEF PassInv, JudgedUpTo
  <2>7. StatusConsistent'
    BY <1>1 DEF StageInv, StatusConsistent, AllTrue, Stage, Needs, pubVars
  <2> QED
    BY <2>4, <2>6, <2>7 DEF StageInv
<1> QED
  BY <1>3, <1>4

LEMMA PassesStep == ASSUME StageInv, Passes PROVE StageInv'
<1>1. /\ UNCHANGED <<kind, up, watching, objVars, queueVars, pubVars, calm>>
      /\ pc = "judge"
  BY DEF Passes
<1>2. Stage = 1..Last /\ Last \in {2, 5} /\ Stage' = Stage /\ kind \in Kinds
  BY <1>1, StageRange DEF StageInv, TypeOK, Stage, Needs
<1>3. PICK n \in Stage : JudgedUpTo(job.cond, n)
  BY <1>1 DEF StageInv, PassInv
<1>4. Current = n
  BY <1>2, <1>3, CurrentStage
<1>5. job \in [gen : 0..MaxGeneration, cond : [1..5 -> Condition]]
  BY DEF StageInv, TypeOK
<1>6. job' = [job EXCEPT !.cond = [job.cond EXCEPT ![n] = "True"]]
  BY <1>4, <1>5 DEF Passes
<1>7. [job.cond EXCEPT ![n] = "True"] \in [1..5 -> Condition]
  BY <1>5 DEF Condition
<1>8. /\ job' \in [gen : 0..MaxGeneration, cond : [1..5 -> Condition]]
      /\ job'.cond = [job.cond EXCEPT ![n] = "True"]
  BY <1>5, <1>6, <1>7
<1>9. \A k \in 1..5 : job'.cond[k] = IF k < n + 1 THEN "True" ELSE "none"
  BY <1>2, <1>3, <1>5, <1>8 DEF JudgedUpTo
<1>10. pc' = IF n = Last THEN "publish" ELSE "judge"
  BY <1>4 DEF Passes
<1>11. TypeOK'
  BY <1>1, <1>2, <1>8, <1>10 DEF StageInv, TypeOK, objVars, queueVars, pubVars, Sources, Needs
<1>12. PassInv'
  <2>1. CASE n = Last
    BY <1>2, <1>9, <1>10, <2>1 DEF PassInv, Complete
  <2>2. CASE n # Last
    <3>1. n + 1 \in Stage' /\ JudgedUpTo(job'.cond, n + 1)
      BY <1>2, <1>9, <2>2 DEF JudgedUpTo
    <3> QED
      BY <1>10, <2>2, <3>1 DEF PassInv, JudgedUpTo
  <2> QED
    BY <2>1, <2>2
<1>13. StatusConsistent'
  BY <1>1, <1>2 DEF StageInv, StatusConsistent, AllTrue, pubVars
<1> QED
  BY <1>11, <1>12, <1>13 DEF StageInv

LEMMA StopsStep == ASSUME StageInv, Stops \/ StageFails PROVE StageInv'
<1>1. /\ UNCHANGED <<kind, up, watching, objVars, queueVars, pubVars, calm>>
      /\ pc = "judge" /\ pc' = "publish"
  BY DEF Stops, StageFails
<1>2. Stage = 1..Last /\ Last \in {2, 5} /\ Stage' = Stage /\ kind \in Kinds
  BY <1>1, StageRange DEF StageInv, TypeOK, Stage, Needs
<1>3. PICK n \in Stage : JudgedUpTo(job.cond, n)
  BY <1>1 DEF StageInv, PassInv
<1>4. Current = n /\ n \in 1..5
  BY <1>2, <1>3, CurrentStage
<1>5. job \in [gen : 0..MaxGeneration, cond : [1..5 -> Condition]]
  BY DEF StageInv, TypeOK
<1>6. PICK v \in {"Pending", "ReconcileFailed"} :
        job' = [job EXCEPT !.cond = Gated(job.cond, n, v)]
  BY <1>4, <1>5 DEF Stops, StageFails
<1>7. Gated(job.cond, n, v) \in [1..5 -> Condition]
  BY <1>4, <1>5, GatedType DEF Condition
<1>8. /\ job' \in [gen : 0..MaxGeneration, cond : [1..5 -> Condition]]
      /\ job'.cond = Gated(job.cond, n, v)
  BY <1>5, <1>6, <1>7
<1>9. Complete(Gated(job.cond, n, v))
  BY <1>2, <1>3, <1>5, GatedComplete
<1>10. TypeOK'
  BY <1>1, <1>2, <1>8 DEF StageInv, TypeOK, objVars, queueVars, pubVars, Sources, Needs
<1>11. PassInv'
  BY <1>1, <1>2, <1>8, <1>9 DEF PassInv, Complete
<1>12. StatusConsistent'
  BY <1>1, <1>2 DEF StageInv, StatusConsistent, AllTrue, pubVars
<1> QED
  BY <1>10, <1>11, <1>12 DEF StageInv

\* The verdicts of one pass replace those of the pass before as a whole.
LEMMA WriteStep ==
  ASSUME StageInv, WriteStatus
  PROVE  status' \in Status /\ StatusConsistent' /\ PassInv'
<1>1. pc = "publish" /\ pc' = "idle" /\ kind' = kind /\ status' = Published
  BY DEF WriteStatus
<1>2. kind \in Kinds /\ Stage' = Stage /\ Complete(job.cond)
  BY <1>1 DEF StageInv, TypeOK, Stage, Needs, PassInv
<1> DEFINE cond == Merged(status.cond, job.cond)
<1>3. /\ job \in [gen : 0..MaxGeneration, cond : [1..5 -> Condition]]
      /\ status \in Status
  BY DEF StageInv, TypeOK
<1>4. cond \in [1..5 -> Condition]
  BY <1>3, MergedType DEF Status
<1>5. \A k \in Stage : cond[k] = job.cond[k]
  BY <1>2, MergedComplete
<1>6. status' = [cond |-> cond, observed |-> job.gen, phase |-> PhaseOf(cond),
                 ready |-> IF AllTrue(job.cond) THEN "True" ELSE "False"]
  BY <1>1 DEF Published
<1> HIDE DEF cond
<1>7. PhaseOf(cond) \in Phase /\ (PhaseOf(cond) = "Ready" <=> AllTrue(cond))
  BY <1>2, ReadyPhase
<1>8. status' \in Status
  BY <1>3, <1>4, <1>6, <1>7 DEF Status
<1>9. AllTrue(cond) <=> AllTrue(job.cond)
  BY <1>5 DEF AllTrue
<1>10. /\ status'.cond = cond /\ status'.phase = PhaseOf(cond)
       /\ status'.ready = IF AllTrue(job.cond) THEN "True" ELSE "False"
  BY <1>6
<1>11. \A i, k \in Stage : i < k /\ cond[k] = "True" => cond[i] = "True"
  BY <1>2, <1>5 DEF Complete
<1>12. StatusConsistent'
  BY <1>2, <1>7, <1>9, <1>10, <1>11 DEF StatusConsistent, AllTrue
<1> QED
  BY <1>1, <1>8, <1>12 DEF PassInv

LEMMA StagesStep == ASSUME StageInv, [Next]_vars PROVE StageInv'
<1>1. CASE Begin
  BY <1>1, BeginStep
<1>2. CASE Passes
  BY <1>2, PassesStep
<1>3. CASE Stops \/ StageFails
  BY <1>3, StopsStep
<1>4. ASSUME WriteStatus, snapshot' \in Health
      PROVE  StageInv'
  <2>1. UNCHANGED <<kind, up, watching, objVars, queued, calm>> /\ Sources' = Sources
    BY <1>4 DEF WriteStatus, Sources, Stage, Needs
  <2>2. timer' \in BOOLEAN /\ pc' = "idle" /\ job' = IdleJob
    BY <1>4 DEF WriteStatus, StageInv, TypeOK, Requeues, AllTrue
  <2>3. TypeOK'
    BY <1>4, <2>1, <2>2, WriteStep, IdleJobType DEF StageInv, TypeOK, objVars
  <2> QED
    BY <1>4, <2>3, WriteStep DEF StageInv
<1>5. ASSUME PublishEc(TRUE) \/ PublishEc(FALSE) \/ PublishEsc
      PROVE  StageInv'
  BY <1>4, <1>5 DEF PublishEc, PublishEsc, Snapshot, Observed, Health, StageInv, TypeOK
<1>6. CASE PassFails
  <2>1. UNCHANGED <<kind, up, watching, objVars, queued, pubVars, calm>>
        /\ timer' = TRUE /\ pc' = "idle" /\ job' = IdleJob /\ Sources' = Sources
    BY <1>6 DEF PassFails, Sources, Stage, Needs
  <2>2. PassInv' /\ StatusConsistent'
    BY <2>1, PassDropped DEF pubVars
  <2> QED
    BY <2>1, <2>2, IdleJobType DEF StageInv, TypeOK, objVars, pubVars
<1>7. CASE PatchECDeleteCondition \/ PatchESCDeleteCondition
  <2>1. /\ UNCHANGED <<kind, up, watching, objVars, queued, job, snapshot, calm>>
        /\ status' = TeardownStatus /\ timer' = TRUE /\ pc' = "idle"
        /\ Sources' = Sources /\ Stage' = Stage
    BY <1>7 DEF PatchECDeleteCondition, PatchESCDeleteCondition, PatchDeleteCondition,
                Sources, Stage, Needs
  <2>2. /\ status' \in Status /\ status'.cond = status.cond
        /\ status'.ready = "False" /\ status'.phase = "InProgress"
    BY <2>1 DEF TeardownStatus, StageInv, TypeOK, Status, Phase
  <2>3. StatusConsistent'
    BY <2>1, <2>2 DEF StageInv, StatusConsistent
  <2> QED
    BY <2>1, <2>2, <2>3 DEF StageInv, TypeOK, PassInv, objVars
<1>8. CASE TimerFires
  <2>1. Sources' = Sources
    BY <1>8 DEF TimerFires, Sources, Stage, Needs
  <2> QED
    BY <1>8, <2>1, PassSame DEF TimerFires, StageInv, TypeOK, objVars, passVars, pubVars
<1>9. CASE Restart
  <2>1. UNCHANGED <<kind, up, objVars, pubVars, calm>> /\ Sources' = Sources
        /\ queued' = TRUE /\ timer' = FALSE /\ pc' = "idle" /\ job' = IdleJob
    BY <1>9 DEF Restart, Sources, Stage, Needs
  <2>2. BuiltIn \subseteq watching' /\ watching' \subseteq BuiltIn \cup Dependency
    BY <1>9, LateAssumption DEF Restart, StageInv, TypeOK
  <2>3. PassInv' /\ StatusConsistent'
    BY <2>1, PassDropped DEF pubVars
  <2> QED
    BY <2>1, <2>2, <2>3, IdleJobType DEF StageInv, TypeOK, objVars, pubVars
<1>10. CASE Settle
  <2>1. Sources' = Sources
    BY <1>10 DEF Settle, Sources, Stage, Needs
  <2> QED
    BY <1>10, <2>1, PassSame
    DEF Settle, StageInv, TypeOK, objVars, queueVars, passVars, pubVars
<1>11. ASSUME NEW s \in Volatile, Change(s)
       PROVE  StageInv'
  <2>1. Sources' = Sources
    BY <1>11 DEF Change, Sources, Stage, Needs
  <2>2. up' \in [Sources -> BOOLEAN] /\ queued' \in BOOLEAN
    BY <1>11 DEF Change, Event, StageInv, TypeOK
  <2> QED
    BY <1>11, <2>1, <2>2, PassSame DEF Change, StageInv, TypeOK, objVars, passVars, pubVars
<1>12. CASE Heartbeat
  <2>1. Sources' = Sources /\ queued' \in BOOLEAN
    BY <1>12 DEF Heartbeat, Event, Sources, Stage, Needs, StageInv, TypeOK
  <2> QED
    BY <1>12, <2>1, PassSame DEF Heartbeat, StageInv, TypeOK, objVars, passVars, pubVars
<1>13. CASE EditSpec
  <2>1. Sources' = Sources
    BY <1>13 DEF EditSpec, Sources, Stage, Needs
  <2>2. generation' \in 1..MaxGeneration
    BY <1>13, ConstAssumption DEF EditSpec, StageInv, TypeOK
  <2> QED
    BY <1>13, <2>1, <2>2, PassSame DEF EditSpec, StageInv, TypeOK, passVars, pubVars
<1>14. CASE Delete
  <2>1. Sources' = Sources
    BY <1>14 DEF Delete, Sources, Stage, Needs
  <2> QED
    BY <1>14, <2>1, PassSame DEF Delete, StageInv, TypeOK, passVars, pubVars
<1>15. CASE UNCHANGED vars
  <2>1. Sources' = Sources
    BY <1>15 DEF vars, Sources, Stage, Needs
  <2> QED
    BY <1>15, <2>1, PassSame
    DEF vars, StageInv, TypeOK, objVars, queueVars, passVars, pubVars
<1> QED
  BY <1>1, <1>2, <1>3, <1>5, <1>6, <1>7, <1>8, <1>9, <1>10, <1>11, <1>12, <1>13,
     <1>14, <1>15
  DEF Next, Step, Error

-----------------------------------------------------------------------------
(* No wake-up is lost. *)

LEMMA AwakeInit == Init => AwakeInv
BY DEF Init, AwakeInv, PassCurrent, RestMeansReady, AtRest

\* A step that leaves the key in the queue, or ends a pass and leaves a timer,
\* leaves nothing to show.
LEMMA StillAwake ==
  ASSUME queued' \/ (pc' \notin {"judge", "publish"} /\ (timer' \/ pc' # "idle"))
  PROVE  AwakeInv'
BY DEF AwakeInv, PassCurrent, RestMeansReady, AtRest

\* What the controller watches of the sources of a stage is as it was, and so is
\* all that rests on it.
LEMMA AwakeSame ==
  ASSUME AwakeInv, UNCHANGED <<kind, generation, terminating, queued, pc, job, status>>,
         \A k \in Stage : Upheld(k) => Upheld(k)',
         timer => timer'
  PROVE  AwakeInv'
<1>1. Stage' = Stage
  BY DEF Stage, Needs
<1> QED
  BY <1>1 DEF AwakeInv, PassCurrent, RestMeansReady, AtRest

\* A change of a source that is not told of leaves what is upheld.
LEMMA ChangeUpholds ==
  ASSUME StageInv, NEW s \in Volatile, Change(s), ~queued', NEW k \in Stage, Upheld(k)
  PROVE  Upheld(k)'
<1>1. /\ UNCHANGED <<kind, watching>> /\ up' = [up EXCEPT ![s] = ~@]
      /\ Told(s) \notin watching
  BY DEF Change, Event
<1>2. Needs' = Needs /\ \A t : Told(t)' = Told(t)
  BY <1>1 DEF Needs, Told
<1>3. \A t \in Needs[k] : t \in Sources /\ (t # s => up'[t] = up[t])
  BY <1>1 DEF Sources, StageInv, TypeOK
<1> QED
  BY <1>1, <1>2, <1>3 DEF Upheld

\* A stage is judged on what is up then.
LEMMA PassesAwake == ASSUME StageInv, AwakeInv, Passes PROVE AwakeInv'
<1>1. /\ UNCHANGED <<kind, up, watching, objVars, queueVars, pubVars, calm>>
      /\ pc = "judge" /\ Done(Current)
  BY DEF Passes
<1>2. PICK n \in Stage : JudgedUpTo(job.cond, n)
  BY <1>1 DEF StageInv, PassInv
<1>3. Current = n
  BY <1>2, CurrentStage DEF StageInv, TypeOK
<1>4. /\ job \in [gen : 0..MaxGeneration, cond : [1..5 -> Condition]]
      /\ job' = [job EXCEPT !.cond[n] = "True"]
  BY <1>3 DEF StageInv, TypeOK, Passes
<1>5. /\ job'.gen = job.gen
      /\ \A k \in 1..5 : k # n => job'.cond[k] = job.cond[k]
  BY <1>4
<1>6. Stage' = Stage /\ Stage \subseteq 1..5
  BY <1>1, StageRange DEF Stage, Needs, StageInv, TypeOK
<1>7. \A k \in Stage : Upheld(k) => Upheld(k)'
  BY <1>1 DEF Upheld, Needs, Told
<1>8. Upheld(n)
  BY <1>1, <1>3 DEF Done, Upheld
<1>9. pc' \in {"judge", "publish"}
  BY DEF Passes
<1> QED
  BY <1>1, <1>5, <1>6, <1>7, <1>8, <1>9
  DEF AwakeInv, PassCurrent, RestMeansReady, AtRest, objVars, queueVars

\* A stage that does not pass leaves the ones in front of it as they were judged,
\* and none True from it on.
LEMMA StopsAwake == ASSUME StageInv, AwakeInv, Stops \/ StageFails PROVE AwakeInv'
<1>1. /\ UNCHANGED <<kind, up, watching, objVars, queueVars, pubVars, calm>>
      /\ pc = "judge" /\ pc' = "publish"
  BY DEF Stops, StageFails
<1>2. job \in [gen : 0..MaxGeneration, cond : [1..5 -> Condition]]
  BY DEF StageInv, TypeOK
<1>3. PICK n \in Stage : JudgedUpTo(job.cond, n)
  BY <1>1 DEF StageInv, PassInv
<1>4. PICK v \in {"Pending", "ReconcileFailed"} :
        job' = [job EXCEPT !.cond = Gated(job.cond, n, v)]
  BY <1>2, <1>3, CurrentStage DEF Stops, StageFails, StageInv, TypeOK
<1>5. job'.gen = job.gen /\ job'.cond = Gated(job.cond, n, v)
  BY <1>2, <1>4
<1>6. Stage' = Stage /\ Stage \subseteq 1..5
  BY <1>1, StageRange DEF Stage, Needs, StageInv, TypeOK
<1>7. \A k \in Stage : job'.cond[k] = "True" => job.cond[k] = "True"
  BY <1>5, <1>6 DEF Gated
<1>8. \A k \in Stage : Upheld(k) => Upheld(k)'
  BY <1>1 DEF Upheld, Needs, Told
<1> QED
  BY <1>1, <1>5, <1>6, <1>7, <1>8
  DEF AwakeInv, PassCurrent, RestMeansReady, AtRest, objVars, queueVars

\* The write leaves a timer unless every stage was judged True, and then what was
\* judged is still so or the key is in the queue.
LEMMA WriteAwake == ASSUME StageInv, AwakeInv, WriteStatus PROVE AwakeInv'
<1>1. /\ UNCHANGED <<kind, up, watching, objVars, queued, calm>> /\ pc = "publish"
      /\ status' = Published /\ timer' = (timer \/ Requeues) /\ pc' = "idle"
  BY DEF WriteStatus
<1>2. SUFFICES ASSUME ~queued, AllTrue(job.cond)
               PROVE  AwakeInv'
  BY <1>1, StillAwake DEF Requeues
<1>3. ~terminating /\ job.gen = generation /\ \A k \in Stage : Upheld(k)
  BY <1>1, <1>2 DEF AwakeInv, PassCurrent, AllTrue
<1>4. status'.ready = "True" /\ status'.observed = job.gen
  BY <1>1, <1>2 DEF Published
<1>5. Stage' = Stage /\ \A k \in Stage : Upheld(k) => Upheld(k)'
  BY <1>1 DEF Stage, Upheld, Needs, Told
<1> QED
  BY <1>1, <1>3, <1>4, <1>5 DEF AwakeInv, PassCurrent, RestMeansReady, AtRest, objVars

LEMMA AwakeStep == ASSUME StageInv, AwakeInv, [Next]_vars PROVE AwakeInv'
<1>1. CASE Begin
  <2>1. CASE terminating
    BY <1>1, <2>1, StillAwake DEF Begin
  <2>2. CASE ~terminating
    <3>1. /\ pc' = "judge" /\ job' = [IdleJob EXCEPT !.gen = generation]
          /\ UNCHANGED <<kind, generation, terminating>>
      BY <1>1, <2>2 DEF Begin, objVars
    <3>2. job'.gen = generation /\ job'.cond = NoConditions
      BY <3>1 DEF IdleJob
    <3>3. \A k \in Stage' : job'.cond[k] # "True"
      BY <3>1, <3>2, StageRangeNext DEF StageInv, TypeOK, NoConditions
    <3> QED
      BY <2>2, <3>1, <3>2, <3>3 DEF AwakeInv, PassCurrent, RestMeansReady, AtRest
  <2> QED
    BY <2>1, <2>2
<1>2. CASE Passes
  BY <1>2, PassesAwake
<1>3. CASE Stops \/ StageFails
  BY <1>3, StopsAwake
<1>4. CASE PublishEc(TRUE) \/ PublishEc(FALSE) \/ PublishEsc
  BY <1>4, WriteAwake DEF PublishEc, PublishEsc
<1>5. CASE PassFails \/ PatchECDeleteCondition \/ PatchESCDeleteCondition
  BY <1>5, StillAwake
  DEF PassFails, PatchECDeleteCondition, PatchESCDeleteCondition, PatchDeleteCondition
<1>6. CASE TimerFires \/ Restart \/ EditSpec \/ Delete
  BY <1>6, StillAwake DEF TimerFires, Restart, EditSpec, Delete
<1>7. CASE Settle \/ UNCHANGED vars
  <2>1. UNCHANGED <<kind, up, watching, generation, terminating, queued, timer, pc, job, status>>
    BY <1>7 DEF Settle, vars, objVars, queueVars, passVars, pubVars
  <2>2. \A k \in Stage : Upheld(k) => Upheld(k)'
    BY <2>1 DEF Upheld, Needs, Told
  <2> QED
    BY <2>1, <2>2, AwakeSame
<1>8. ASSUME NEW s \in Volatile, Change(s)
      PROVE  AwakeInv'
  <2>1. CASE queued'
    BY <2>1, StillAwake
  <2>2. CASE ~queued'
    <3>1. UNCHANGED <<kind, generation, terminating, timer, pc, job, status>>
          /\ queued' = queued
      BY <1>8, <2>2 DEF Change, Event, objVars, passVars, pubVars, StageInv, TypeOK
    <3>2. \A k \in Stage : Upheld(k) => Upheld(k)'
      BY <1>8, <2>2, ChangeUpholds
    <3> QED
      BY <3>1, <3>2, AwakeSame
  <2> QED
    BY <2>1, <2>2
<1>9. CASE Heartbeat
  <2>1. CASE queued'
    BY <2>1, StillAwake
  <2>2. CASE ~queued'
    <3>1. UNCHANGED <<kind, up, watching, generation, terminating, timer, pc, job, status>>
          /\ queued' = queued
      BY <1>9, <2>2 DEF Heartbeat, Event, objVars, passVars, pubVars, StageInv, TypeOK
    <3>2. \A k \in Stage : Upheld(k) => Upheld(k)'
      BY <3>1 DEF Upheld, Needs, Told
    <3> QED
      BY <3>1, <3>2, AwakeSame
  <2> QED
    BY <2>1, <2>2
<1> QED
  BY <1>1, <1>2, <1>3, <1>4, <1>5, <1>6, <1>7, <1>8, <1>9 DEF Next, Step, Error

-----------------------------------------------------------------------------
(* The theorems. *)

\* The invariant above holds of every reachable state.
THEOREM StagesSafe == Spec => []StageInv
<1>1. Init => StageInv
  BY StagesInit
<1>2. StageInv /\ [Next]_vars => StageInv'
  BY StagesStep
<1> QED
  BY <1>1, <1>2, PTL DEF Spec

\* The published conditions are those of one pass: nothing is True behind a stage
\* that is not, and Ready and the phase agree.
THEOREM StatusIsConsistent == Spec => []StatusConsistent
<1>1. StageInv => StatusConsistent
  BY DEF StageInv
<1> QED
  BY <1>1, StagesSafe, PTL

\* No wake-up is lost: whatever the order of events, failures and restarts, a
\* controller with nothing queued and no timer has published Ready on the current
\* spec, and everything that it watches is up.
THEOREM NothingMissed == Spec => []RestMeansReady
<1>1. Init => AwakeInv
  BY AwakeInit
<1>2. StageInv /\ AwakeInv /\ [Next]_vars => AwakeInv'
  BY AwakeStep
<1>3. AwakeInv => RestMeansReady
  BY DEF AwakeInv
<1> QED
  BY <1>1, <1>2, <1>3, StagesSafe, PTL DEF Spec

\* Every variable keeps its type.
THEOREM TypeCorrect == Spec => []TypeOK
<1>1. StageInv => TypeOK
  BY DEF StageInv
<1> QED
  BY <1>1, StagesSafe, PTL

=============================================================================
