-------------------------- MODULE OsdStorageProofs --------------------------
(***************************************************************************)
(* Proofs about OsdStorage, for any sets of clusters and devices and any   *)
(* bounds.                                                                 *)
(***************************************************************************)
EXTENDS OsdStorage, TLAPS

-----------------------------------------------------------------------------
(* The inductive invariant: what a pass knows at each of its steps. *)

\* What the copies of the listed devices say: the device belonged to the
\* cluster, or, as long as the copy is current, to nobody.
CopiesTrue ==
  \A e \in EC :
    /\ \A b \in job[e].owned \ touched : owner[b] = e
    /\ \A b \in job[e].current : owner[b] = NoOwner

\* The devices a pass has dealt with are the cluster's own.
ClaimedFirst ==
  \A e \in EC :
    /\ job[e].pc = "lvg" =>
         \A b \in BD \ touched : IsFirst(b, job[e].todo) => owner[b] = e
    /\ job[e].pc \in {"adopt", "lvg"} =>
         \A b \in job[e].selected \ (job[e].skipped \cup job[e].todo \cup touched) :
           owner[b] = e
    /\ job[e].pc \notin {"idle", "list", "adopt", "lvg"} =>
         \A b \in job[e].selected \ touched : owner[b] = e

\* The local variables of a pass fit together.
PassShape ==
  \A e \in EC :
    /\ job[e].pc \in {"idle", "list"} =>
         /\ job[e].selected = {} /\ job[e].owned = {}
         /\ job[e].current = {} /\ job[e].todo = {}
    /\ job[e].todo \subseteq job[e].selected

OwnershipInv == CopiesTrue /\ ClaimedFirst /\ PassShape /\ PlumbingOwned

-----------------------------------------------------------------------------
(* What the operators on passes do, field by field. *)

LEMMA JobFields ==
  ASSUME NEW r \in Job
  PROVE  /\ r.pc \in Pc
         /\ r.bdSel \in SUBSET BD /\ r.nodeSel \in SUBSET BD
         /\ r.selected \in SUBSET BD /\ r.skipped \in SUBSET BD
         /\ r.owned \in SUBSET BD /\ r.current \in SUBSET BD
         /\ r.todo \in SUBSET BD /\ r.capacity \in [BD -> Nat]
BY DEF Job

LEMMA TypedPasses == TypeOK => job \in [EC -> Job] /\ storageReady \in [EC -> Reason]
BY DEF TypeOK

LEMMA OutdatedEffect ==
  ASSUME NEW jobs \in [EC -> Job], NEW b \in BD
  PROVE  /\ Outdated(jobs, b) \in [EC -> Job]
         /\ \A e \in EC :
              /\ Outdated(jobs, b)[e].pc = jobs[e].pc
              /\ Outdated(jobs, b)[e].bdSel = jobs[e].bdSel
              /\ Outdated(jobs, b)[e].selected = jobs[e].selected
              /\ Outdated(jobs, b)[e].skipped = jobs[e].skipped
              /\ Outdated(jobs, b)[e].owned = jobs[e].owned
              /\ Outdated(jobs, b)[e].current = jobs[e].current \ {b}
              /\ Outdated(jobs, b)[e].todo = jobs[e].todo
<1>1. \A e \in EC : Outdated(jobs, b)[e] = [jobs[e] EXCEPT !.current = @ \ {b}]
  BY DEF Outdated
<1>2. \A r \in Job : [r EXCEPT !.current = @ \ {b}] \in Job
  BY DEF Job
<1>3. Outdated(jobs, b) \in [EC -> Job]
  BY <1>2 DEF Outdated
<1> QED
  BY <1>1, <1>3 DEF Job
LEMMA ProceedEffect ==
  ASSUME TypeOK, NEW e \in EC, NEW at \in Pc, NEW todo \in SUBSET BD,
         Proceed(e, at, todo)
  PROVE  /\ job' \in [EC -> Job]
         /\ storageReady' = storageReady
         /\ \A f \in EC \ {e} : job'[f] = job[f]
         /\ job'[e].pc = at /\ job'[e].todo = todo
         /\ job'[e].bdSel = job[e].bdSel /\ job'[e].nodeSel = job[e].nodeSel
         /\ job'[e].selected = job[e].selected /\ job'[e].skipped = job[e].skipped
         /\ job'[e].owned = job[e].owned /\ job'[e].current = job[e].current
         /\ job'[e].capacity = job[e].capacity
<1>1. job'[e] = [job[e] EXCEPT !.pc = at, !.todo = todo] /\ storageReady' = storageReady
  BY DEF Proceed, TypeOK
<1>2. job \in [EC -> Job] /\ job[e] \in Job
  BY DEF TypeOK
<1>3. job'[e] \in Job
  BY <1>1, <1>2 DEF Job
<1>4. job' = [job EXCEPT ![e] = job'[e]]
  BY <1>1, <1>2 DEF Proceed
<1>5. job' \in [EC -> Job] /\ \A f \in EC \ {e} : job'[f] = job[f]
  BY <1>2, <1>3, <1>4
<1> QED
  BY <1>1, <1>2, <1>5 DEF Job
LEMMA FinishEffect ==
  ASSUME TypeOK, NEW e \in EC, NEW reason \in Reason, Finish(e, reason)
  PROVE  /\ job' \in [EC -> Job] /\ storageReady' \in [EC -> Reason]
         /\ \A f \in EC \ {e} : job'[f] = job[f]
         /\ job'[e] = IdleJob
<1>1. IdleJob \in Job
  BY DEF IdleJob, Job, Pc
<1> QED
  BY <1>1 DEF Finish, TypeOK

LEMMA IdleJobFields ==
  /\ IdleJob \in Job
  /\ IdleJob.pc = "idle" /\ IdleJob.selected = {} /\ IdleJob.skipped = {}
  /\ IdleJob.owned = {} /\ IdleJob.current = {} /\ IdleJob.todo = {}
BY DEF IdleJob, Job, Pc

LEMMA BeginEffect ==
  ASSUME TypeOK, NEW e \in EC, Begin(e)
  PROVE  /\ job' \in [EC -> Job]
         /\ \A f \in EC \ {e} : job'[f] = job[f]
         /\ job'[e].pc = "list"
         /\ job'[e].selected = job[e].selected /\ job'[e].skipped = job[e].skipped
         /\ job'[e].owned = job[e].owned /\ job'[e].current = job[e].current
         /\ job'[e].todo = job[e].todo
<1>1. job'[e] = [job[e] EXCEPT !.pc = "list", !.bdSel = bdSel[e],
                               !.nodeSel = nodeSel[e]]
  BY DEF Begin, TypeOK
<1>2. job \in [EC -> Job] /\ job[e] \in Job
  BY DEF TypeOK
<1>3. bdSel[e] \in SUBSET BD /\ nodeSel[e] \in SUBSET BD
  BY DEF TypeOK
<1>4. job'[e] \in Job
  BY <1>1, <1>2, <1>3 DEF Job, Pc
<1>5. job' = [job EXCEPT ![e] = job'[e]]
  BY <1>1, <1>2 DEF Begin
<1>6. job' \in [EC -> Job] /\ \A f \in EC \ {e} : job'[f] = job[f]
  BY <1>2, <1>4, <1>5
<1> QED
  BY <1>1, <1>2, <1>6 DEF Job

\* The devices a list selects are the cluster's own or nobody's.
LEMMA MatchingOwners ==
  ASSUME TypeOK, NEW e \in EC, NEW bds \in SUBSET BD, NEW nodes \in SUBSET BD
  PROVE  /\ Matching(e, bds, nodes) \in SUBSET BD
         /\ \A b \in Matching(e, bds, nodes) : owner[b] \in {e, NoOwner}
BY DEF TypeOK, Matching, Sticky, Enrollable, OwnedBy, ForeignOwned, Hosted

LEMMA ListEffect ==
  ASSUME TypeOK, NEW e \in EC, ListMatchingBlockDevices(e),
         \A r \in Reason : ~Finish(e, r)
  PROVE  /\ job' \in [EC -> Job]
         /\ storageReady' = storageReady
         /\ \A f \in EC \ {e} : job'[f] = job[f]
         /\ job'[e].pc = "adopt"
         /\ job'[e].selected = Matching(e, job[e].bdSel, job[e].nodeSel)
         /\ job'[e].owned = job'[e].selected \cap OwnedBy(e)
         /\ job'[e].current = job'[e].selected \ OwnedBy(e)
         /\ job'[e].todo = job'[e].selected \ job'[e].skipped
         /\ job'[e].capacity = size
<1> DEFINE matched == Matching(e, job[e].bdSel, job[e].nodeSel)
           unusable == {b \in matched : bdStatus[b] # "ok"}
           r == [job[e] EXCEPT !.pc = "adopt", !.bdSel = {}, !.nodeSel = {},
                           !.selected = matched, !.skipped = unusable,
                           !.owned = matched \cap OwnedBy(e),
                           !.current = matched \ OwnedBy(e),
                           !.todo = matched \ unusable, !.capacity = size]
<1>1. job \in [EC -> Job] /\ job[e] \in Job /\ size \in [BD -> Nat]
  BY DEF TypeOK
<1>2. matched \in SUBSET BD
  BY <1>1, MatchingOwners, JobFields
<1>3. job' = [job EXCEPT ![e] = r] /\ storageReady' = storageReady
  BY <1>1 DEF ListMatchingBlockDevices, Reason
<1> HIDE DEF matched
<1>4. unusable \in SUBSET BD
  BY <1>2
<1> HIDE DEF unusable
<1>5. r \in Job
  BY <1>1, <1>2, <1>4 DEF Job, Pc
<1>6. /\ r.pc = "adopt" /\ r.selected = matched /\ r.skipped = unusable
      /\ r.owned = matched \cap OwnedBy(e) /\ r.current = matched \ OwnedBy(e)
      /\ r.todo = matched \ unusable /\ r.capacity = size
  BY <1>1 DEF Job
<1> HIDE DEF r
<1>7. job'[e] = r /\ job' \in [EC -> Job] /\ \A f \in EC \ {e} : job'[f] = job[f]
  BY <1>1, <1>3, <1>5
<1> QED
  BY <1>3, <1>6, <1>7 DEF matched

LEMMA FinishAdoptionEffect ==
  ASSUME TypeOK, NEW e \in EC, FinishAdoption(e),
         \A r \in Reason : ~Finish(e, r)
  PROVE  /\ job' \in [EC -> Job]
         /\ storageReady' = storageReady
         /\ \A f \in EC \ {e} : job'[f] = job[f]
         /\ job[e].skipped = {}
         /\ job'[e].pc = "gateLVG" /\ job'[e].owned = {} /\ job'[e].current = {}
         /\ job'[e].todo = job[e].todo /\ job'[e].selected = job[e].selected
         /\ job'[e].skipped = job[e].skipped
<1>1. job \in [EC -> Job] /\ job[e] \in Job
  BY DEF TypeOK
<1>2. /\ job' = [job EXCEPT ![e].pc = "gateLVG", ![e].owned = {}, ![e].current = {}]
      /\ job[e].skipped = {} /\ storageReady' = storageReady
  BY <1>1 DEF FinishAdoption, Reason
<1>3. job'[e] = [job[e] EXCEPT !.pc = "gateLVG", !.owned = {}, !.current = {}]
  BY <1>1, <1>2
<1>4. job'[e] \in Job
  BY <1>1, <1>3 DEF Job, Pc
<1>5. job' = [job EXCEPT ![e] = job'[e]]
  BY <1>1, <1>2, <1>3
<1>6. job' \in [EC -> Job] /\ \A f \in EC \ {e} : job'[f] = job[f]
  BY <1>1, <1>4, <1>5
<1> QED
  BY <1>1, <1>2, <1>3, <1>6 DEF Job

LEMMA ClaimEffect ==
  ASSUME TypeOK, NEW e \in EC, NEW b \in BD,
         job' = [Outdated(job, b) EXCEPT ![e].pc = "lvg"]
  PROVE  /\ job' \in [EC -> Job]
         /\ \A f \in EC :
              /\ job'[f].pc = IF f = e THEN "lvg" ELSE job[f].pc
              /\ job'[f].selected = job[f].selected
              /\ job'[f].skipped = job[f].skipped
              /\ job'[f].owned = job[f].owned
              /\ job'[f].current = job[f].current \ {b}
              /\ job'[f].todo = job[f].todo
<1> DEFINE j == Outdated(job, b)
<1>1. job \in [EC -> Job] /\ j \in [EC -> Job]
  BY OutdatedEffect DEF TypeOK
<1>2. \A f \in EC :
        /\ j[f].pc = job[f].pc /\ j[f].selected = job[f].selected
        /\ j[f].skipped = job[f].skipped /\ j[f].owned = job[f].owned
        /\ j[f].current = job[f].current \ {b} /\ j[f].todo = job[f].todo
  BY <1>1, OutdatedEffect
<1> HIDE DEF j
<1>3. job' = [j EXCEPT ![e].pc = "lvg"]
  BY DEF j
<1>4. job'[e] = [j[e] EXCEPT !.pc = "lvg"] /\ \A f \in EC \ {e} : job'[f] = j[f]
  BY <1>1, <1>3
<1>5. "lvg" \in Pc /\ j[e] \in Job
  BY <1>1 DEF Pc
<1>6. /\ job'[e] \in Job /\ job'[e].pc = "lvg"
      /\ job'[e].selected = j[e].selected /\ job'[e].skipped = j[e].skipped
      /\ job'[e].owned = j[e].owned /\ job'[e].current = j[e].current
      /\ job'[e].todo = j[e].todo
  <2> DEFINE r == j[e]
  <2> HIDE DEF r
  <2>1. r \in Job /\ job'[e] = [r EXCEPT !.pc = "lvg"]
    BY <1>4, <1>5 DEF r
  <2>2. /\ job'[e] \in Job /\ job'[e].pc = "lvg"
        /\ job'[e].selected = r.selected /\ job'[e].skipped = r.skipped
        /\ job'[e].owned = r.owned /\ job'[e].current = r.current
        /\ job'[e].todo = r.todo
    <3> DEFINE q == [r EXCEPT !.pc = "lvg"]
    <3>1. q \in Job
      BY <1>5, <2>1 DEF Job
    <3>2. /\ q.pc = "lvg" /\ q.selected = r.selected /\ q.skipped = r.skipped
          /\ q.owned = r.owned /\ q.current = r.current /\ q.todo = r.todo
      BY <2>1 DEF Job
    <3> QED
      BY <2>1, <3>1, <3>2
  <2> QED
    BY <2>2 DEF r
<1>7. job' \in [EC -> Job]
  BY <1>1, <1>3, <1>6
<1> QED
  BY <1>2, <1>4, <1>6, <1>7

\* A pass is left as it is, but for the currency of its copies and for what it
\* has read of the selectors.
SameClaims(f) ==
  /\ job'[f].pc = job[f].pc
  /\ job'[f].selected = job[f].selected
  /\ job'[f].skipped = job[f].skipped
  /\ job'[f].owned = job[f].owned
  /\ job'[f].current \subseteq job[f].current
  /\ job'[f].todo = job[f].todo

LEMMA OutdatedSame ==
  ASSUME TypeOK, NEW b \in BD, job' = Outdated(job, b)
  PROVE  /\ job' \in [EC -> Job]
         /\ \A f \in EC : SameClaims(f) /\ b \notin job'[f].current
<1>1. job \in [EC -> Job]
  BY DEF TypeOK
<1> QED
  BY <1>1, OutdatedEffect DEF SameClaims

LEMMA FlipType ==
  ASSUME NEW S \in SUBSET BD, NEW b \in BD
  PROVE  Flip(S, b) \in SUBSET BD
BY DEF Flip

LEMMA DriftNodeSame ==
  ASSUME TypeOK, NEW e \in EC, NEW b \in BD, DriftNode(e, b)
  PROVE  job' \in [EC -> Job] /\ \A f \in EC : SameClaims(f)
<1> DEFINE S == IF job[e].pc = "list" THEN Flip(job[e].nodeSel, b)
                ELSE job[e].nodeSel
<1>1. job \in [EC -> Job] /\ job[e] \in Job
  BY DEF TypeOK
<1>2. S \in SUBSET BD
  BY <1>1, JobFields, FlipType
<1>3. job' = [job EXCEPT ![e].nodeSel = S]
  BY DEF DriftNode
<1> HIDE DEF S
<1>4. job'[e] = [job[e] EXCEPT !.nodeSel = S] /\ \A f \in EC \ {e} : job'[f] = job[f]
  BY <1>1, <1>3
<1>5. job'[e] \in Job
  BY <1>1, <1>2, <1>4 DEF Job
<1>6. SameClaims(e)
  BY <1>1, <1>4 DEF Job, SameClaims
<1>7. job' \in [EC -> Job]
  BY <1>1, <1>3, <1>5
<1> QED
  BY <1>4, <1>6, <1>7 DEF SameClaims

LEMMA BdSelUpdate ==
  ASSUME NEW r \in Job, NEW S \in SUBSET BD
  PROVE  /\ [r EXCEPT !.bdSel = S] \in Job
         /\ [r EXCEPT !.bdSel = S].pc = r.pc
         /\ [r EXCEPT !.bdSel = S].selected = r.selected
         /\ [r EXCEPT !.bdSel = S].skipped = r.skipped
         /\ [r EXCEPT !.bdSel = S].owned = r.owned
         /\ [r EXCEPT !.bdSel = S].current = r.current
         /\ [r EXCEPT !.bdSel = S].todo = r.todo
<1>1. [r EXCEPT !.bdSel = S] \in Job
  BY DEF Job
<1> QED
  BY <1>1 DEF Job

LEMMA DriftDeviceSame ==
  ASSUME TypeOK, NEW e \in EC, NEW b \in BD, DriftDevice(e, b)
  PROVE  job' \in [EC -> Job] /\ \A f \in EC : SameClaims(f)
<1> DEFINE j == Outdated(job, b)
           S == IF job[e].pc = "list" THEN Flip(j[e].bdSel, b) ELSE j[e].bdSel
<1>1. job \in [EC -> Job] /\ j \in [EC -> Job]
  BY OutdatedEffect DEF TypeOK
<1>2. \A f \in EC :
        /\ j[f].pc = job[f].pc /\ j[f].selected = job[f].selected
        /\ j[f].skipped = job[f].skipped /\ j[f].owned = job[f].owned
        /\ j[f].current \subseteq job[f].current /\ j[f].todo = job[f].todo
  BY <1>1, OutdatedEffect
<1>3. S \in SUBSET BD
  BY <1>1, JobFields, FlipType
<1>4. job' = [j EXCEPT ![e].bdSel = S]
  BY DEF DriftDevice
<1> HIDE DEF j, S
<1>5. job'[e] = [j[e] EXCEPT !.bdSel = S] /\ \A f \in EC \ {e} : job'[f] = j[f]
  BY <1>1, <1>4
<1>6. job'[e] \in Job
  BY <1>1, <1>3, <1>5, BdSelUpdate
<1>7. /\ job'[e].pc = j[e].pc /\ job'[e].selected = j[e].selected
      /\ job'[e].skipped = j[e].skipped /\ job'[e].owned = j[e].owned
      /\ job'[e].current = j[e].current /\ job'[e].todo = j[e].todo
  BY <1>1, <1>3, <1>5, BdSelUpdate
<1>8. job' \in [EC -> Job]
  BY <1>1, <1>4, <1>6
<1>9. SameClaims(e)
  BY <1>2, <1>7 DEF SameClaims
<1>10. \A f \in EC \ {e} : SameClaims(f)
  BY <1>2, <1>5 DEF SameClaims
<1> QED
  BY <1>8, <1>9, <1>10

-----------------------------------------------------------------------------
(* Type correctness. *)

LEMMA TypeOKInit == Init => TypeOK
<1> SUFFICES ASSUME Init PROVE TypeOK
  OBVIOUS
<1>1. job \in [EC -> Job]
  BY IdleJobFields DEF Init
<1>2. /\ owner \in [BD -> EC \cup {NoOwner}] /\ free \in SUBSET BD
      /\ bdStatus \in [BD -> BdStatus] /\ size \in [BD -> Nat]
      /\ bdSel \in [EC -> SUBSET BD] /\ nodeSel \in [EC -> SUBSET BD]
  BY ConstAssumption DEF Init, BdStatus
<1>3. /\ lvg \in [EC -> [BD -> Phase]] /\ llv \in [EC -> [BD -> Phase]]
      /\ pv \in [EC -> [BD -> Phase]] /\ pvCapacity \in [EC -> [BD -> Nat]]
  BY DEF Init, Phase
<1>4. /\ finalizer \in SUBSET EC /\ deviceSet \in [EC -> SUBSET BD]
      /\ pvcRequest \in [EC -> Nat] /\ storageReady \in [EC -> Reason]
      /\ touched \in SUBSET BD /\ disturbances \in Nat
  BY DEF Init, Reason
<1> QED
  BY <1>1, <1>2, <1>3, <1>4 DEF TypeOK

LEMMA CreatedType == \A p \in Phase : Created(p) \in Phase
BY DEF Created, Phase

LEMMA TypeOKStep == TypeOK /\ [Next]_vars => TypeOK'
<1> SUFFICES ASSUME TypeOK, [Next]_vars PROVE TypeOK'
  OBVIOUS
<1> USE TypedPasses
<1>1. ASSUME NEW e \in EC, Begin(e)
      PROVE  TypeOK'
  <2>1. job' \in [EC -> Job] /\ storageReady' \in [EC -> Reason]
    BY <1>1, BeginEffect
    DEF Begin
  <2> QED
    BY <1>1, <2>1
    DEF Begin, TypeOK, bdVars, specVars, osdVars, cephVars
<1>2. ASSUME NEW e \in EC, ListMatchingBlockDevices(e)
      PROVE  TypeOK'
  <2>1. job' \in [EC -> Job] /\ storageReady' \in [EC -> Reason]
    <3>1. CASE \E r \in Reason : Finish(e, r)
      BY <3>1, FinishEffect
    <3>2. CASE \A r \in Reason : ~Finish(e, r)
      BY <1>2, <3>2, ListEffect
    <3> QED
      BY <3>1, <3>2
  <2> QED
    BY <1>2, <2>1
    DEF ListMatchingBlockDevices, TypeOK, bdVars, specVars, osdVars,
        cephVars
<1>3. ASSUME NEW e \in EC, FinishAdoption(e)
      PROVE  TypeOK'
  <2>1. job' \in [EC -> Job] /\ storageReady' \in [EC -> Reason]
    <3>1. CASE \E r \in Reason : Finish(e, r)
      BY <3>1, FinishEffect
    <3>2. CASE \A r \in Reason : ~Finish(e, r)
      BY <1>3, <3>2, FinishAdoptionEffect
    <3> QED
      BY <3>1, <3>2
  <2> QED
    BY <1>3, <2>1
    DEF FinishAdoption, TypeOK, bdVars, specVars, osdVars, cephVars
<1>4. ASSUME NEW e \in EC, GateLVG(e)
      PROVE  TypeOK'
  <2>1. job' \in [EC -> Job] /\ storageReady' \in [EC -> Reason]
    BY <1>4, FinishEffect, ProceedEffect, JobFields
    DEF GateLVG, Gate, Pc, Reason
  <2> QED
    BY <1>4, <2>1
    DEF GateLVG, Gate, TypeOK, bdVars, specVars, osdVars, cephVars
<1>5. ASSUME NEW e \in EC, GateLLV(e)
      PROVE  TypeOK'
  <2>1. job' \in [EC -> Job] /\ storageReady' \in [EC -> Reason]
    BY <1>5, FinishEffect, ProceedEffect, JobFields
    DEF GateLLV, Gate, Pc, Reason
  <2> QED
    BY <1>5, <2>1
    DEF GateLLV, Gate, TypeOK, bdVars, specVars, osdVars, cephVars
<1>6. ASSUME NEW e \in EC, GatePV(e)
      PROVE  TypeOK'
  <2>1. job' \in [EC -> Job] /\ storageReady' \in [EC -> Reason]
    BY <1>6, FinishEffect, ProceedEffect, JobFields
    DEF GatePV, Gate, Pc, Reason
  <2> QED
    BY <1>6, <2>1
    DEF GatePV, Gate, TypeOK, bdVars, specVars, osdVars, cephVars
<1>7. ASSUME NEW e \in EC, NEW b \in BD, AdoptBlockDevice(e, b)
      PROVE  TypeOK'
  <2>1. job' \in [EC -> Job] /\ storageReady' \in [EC -> Reason]
    BY <1>7, ClaimEffect, FinishEffect, ProceedEffect, JobFields
    DEF AdoptBlockDevice, Pc, Reason
  <2>2. owner' \in [BD -> EC \cup {NoOwner}]
    BY <1>7 DEF AdoptBlockDevice, TypeOK
  <2> QED
    BY <1>7, <2>1, <2>2
    DEF AdoptBlockDevice, TypeOK, specVars, osdVars, cephVars
<1>8. ASSUME NEW e \in EC, NEW b \in BD, UpsertLVG(e, b)
      PROVE  TypeOK'
  <2>1. job' \in [EC -> Job] /\ storageReady' \in [EC -> Reason]
    BY <1>8, ProceedEffect, JobFields
    DEF UpsertLVG, Pc
  <2> QED
    BY <1>8, <2>1, CreatedType
    DEF UpsertLVG, TypeOK, bdVars, specVars, osdVars, cephVars
<1>9. ASSUME NEW e \in EC, NEW b \in BD, UpsertLLV(e, b)
      PROVE  TypeOK'
  <2>1. job' \in [EC -> Job] /\ storageReady' \in [EC -> Reason]
    BY <1>9, ProceedEffect, JobFields
    DEF UpsertLLV, NextPc, Pc
  <2> QED
    BY <1>9, <2>1, CreatedType
    DEF UpsertLLV, NextPc, TypeOK, bdVars, specVars, osdVars, cephVars
<1>10. ASSUME NEW e \in EC, NEW b \in BD, UpsertPV(e, b)
      PROVE  TypeOK'
  <2>1. job' \in [EC -> Job] /\ storageReady' \in [EC -> Reason]
    BY <1>10, ProceedEffect, JobFields
    DEF UpsertPV, NextPc, Pc
  <2>2. pv' \in [EC -> [BD -> Phase]]
    BY <1>10, CreatedType DEF UpsertPV, TypeOK
  <2>3. job[e].capacity[b] \in Nat
    BY JobFields
  <2>4. pvCapacity' \in [EC -> [BD -> Nat]]
    BY <1>10, <2>3 DEF UpsertPV, TypeOK
  <2> QED
    BY <1>10, <2>1, <2>2, <2>4
    DEF UpsertPV, TypeOK, bdVars, specVars, cephVars
<1>11. ASSUME NEW e \in EC, NEW b \in BD, UpsertCephCluster(e, b)
      PROVE  TypeOK'
  <2>1. job' \in [EC -> Job] /\ storageReady' \in [EC -> Reason]
    BY <1>11, FinishEffect, JobFields
    DEF UpsertCephCluster, Reason
  <2>2. job[e].selected \in SUBSET BD /\ job[e].capacity[b] \in Nat
    BY JobFields
  <2> QED
    BY <1>11, <2>1, <2>2
    DEF UpsertCephCluster, TypeOK, bdVars, specVars, osdVars
<1>12. ASSUME NEW e \in EC, NEW b \in BD, SncProvisionLVG(e, b)
      PROVE  TypeOK'
  <2>1. job' \in [EC -> Job] /\ storageReady' \in [EC -> Reason]
    BY <1>12, OutdatedSame
    DEF SncProvisionLVG, Phase
  <2> QED
    BY <1>12, <2>1
    DEF SncProvisionLVG, Phase, TypeOK, bdVars, specVars, osdVars, cephVars
<1>13. ASSUME NEW e \in EC, NEW b \in BD, SncProvisionLLV(e, b)
      PROVE  TypeOK'
  BY <1>13
  DEF SncProvisionLLV, Phase, TypeOK, bdVars, specVars, osdVars, cephVars
<1>14. ASSUME NEW e \in EC, NEW b \in BD, PublishPV(e, b)
      PROVE  TypeOK'
  BY <1>14
  DEF PublishPV, Phase, TypeOK, bdVars, specVars, osdVars, cephVars
<1>15. ASSUME NEW b \in BD, BecomeConsumable(b)
      PROVE  TypeOK'
  <2>1. job' \in [EC -> Job] /\ storageReady' \in [EC -> Reason]
    BY <1>15, OutdatedSame
    DEF BecomeConsumable
  <2> QED
    BY <1>15, <2>1
    DEF BecomeConsumable, TypeOK, bdVars, specVars, osdVars, cephVars
<1>16. ASSUME NEW e \in EC, NEW b \in BD, Degrade(e, b)
      PROVE  TypeOK'
  <2>1. "degraded" \in Phase
    BY DEF Phase
  <2>2. /\ lvg' \in [EC -> [BD -> Phase]]
        /\ llv' \in [EC -> [BD -> Phase]]
        /\ pv' \in [EC -> [BD -> Phase]]
    <3>1. CASE lvg' = [lvg EXCEPT ![e][b] = "degraded"] /\ UNCHANGED <<llv, pv>>
      BY <2>1, <3>1 DEF TypeOK
    <3>2. CASE llv' = [llv EXCEPT ![e][b] = "degraded"] /\ UNCHANGED <<lvg, pv>>
      BY <2>1, <3>2 DEF TypeOK
    <3>3. CASE pv' = [pv EXCEPT ![e][b] = "degraded"] /\ UNCHANGED <<lvg, llv>>
      BY <2>1, <3>3 DEF TypeOK
    <3> QED
      BY <1>16, <3>1, <3>2, <3>3 DEF Degrade
  <2> QED
    BY <1>16, <2>2
    DEF Degrade, Disturb, TypeOK, bdVars, specVars, cephVars
<1>17. ASSUME NEW e \in EC, NEW b \in BD, DriftNode(e, b)
      PROVE  TypeOK'
  <2>1. job' \in [EC -> Job] /\ storageReady' \in [EC -> Reason]
    BY <1>17, DriftNodeSame
    DEF DriftNode, Disturb
  <2> QED
    BY <1>17, <2>1, FlipType
    DEF DriftNode, Disturb, TypeOK, bdVars, specVars, osdVars, cephVars
<1>18. ASSUME NEW e \in EC, NEW b \in BD, DriftDevice(e, b)
      PROVE  TypeOK'
  <2>1. job' \in [EC -> Job] /\ storageReady' \in [EC -> Reason]
    BY <1>18, DriftDeviceSame
    DEF DriftDevice, Disturb
  <2> QED
    BY <1>18, <2>1, FlipType
    DEF DriftDevice, Disturb, TypeOK, bdVars, specVars, osdVars, cephVars
<1>19. ASSUME NEW e \in EC, NEW b \in BD, Decommission(e, b)
      PROVE  TypeOK'
  BY <1>19
  DEF Decommission, Disturb, Phase, TypeOK, bdVars, specVars, osdVars,
      cephVars
<1>20. ASSUME NEW b \in BD, NEW s \in BdStatus, ReportStatus(b, s)
      PROVE  TypeOK'
  <2>1. job' \in [EC -> Job] /\ storageReady' \in [EC -> Reason]
    BY <1>20, OutdatedSame
    DEF ReportStatus, Disturb
  <2> QED
    BY <1>20, <2>1
    DEF ReportStatus, Disturb, TypeOK, bdVars, specVars, osdVars, cephVars
<1>21. ASSUME NEW b \in BD, Grow(b)
      PROVE  TypeOK'
  <2>1. job' \in [EC -> Job] /\ storageReady' \in [EC -> Reason]
    BY <1>21, OutdatedSame
    DEF Grow, Disturb
  <2> QED
    BY <1>21, <2>1
    DEF Grow, Disturb, TypeOK, bdVars, specVars, osdVars, cephVars
<1>22. ASSUME NEW e \in EC, NEW bds \in Selections, EditSelectors(e, bds)
      PROVE  TypeOK'
  BY <1>22, ConstAssumption
  DEF EditSelectors, Disturb, TypeOK, bdVars, specVars, osdVars, cephVars
<1>23. ASSUME NEW b \in BD, NEW o \in EC \cup {NoOwner}, Relabel(b, o)
      PROVE  TypeOK'
  <2>1. job' \in [EC -> Job] /\ storageReady' \in [EC -> Reason]
    BY <1>23, OutdatedSame
    DEF Relabel, Disturb
  <2> QED
    BY <1>23, <2>1
    DEF Relabel, Disturb, TypeOK, bdVars, specVars, osdVars, cephVars
<1>24. ASSUME NEW e \in EC, Fail(e)
      PROVE  TypeOK'
  <2>1. job' \in [EC -> Job] /\ storageReady' \in [EC -> Reason]
    BY <1>24, FinishEffect
    DEF Fail, Disturb, Reason
  <2> QED
    BY <1>24, <2>1
    DEF Fail, Disturb, TypeOK, bdVars, specVars, osdVars, cephVars
<1>25. ASSUME Restart
      PROVE  TypeOK'
  <2>1. job' \in [EC -> Job] /\ storageReady' \in [EC -> Reason]
    BY <1>25, IdleJobFields
    DEF Restart, Disturb
  <2> QED
    BY <1>25, <2>1
    DEF Restart, Disturb, TypeOK, bdVars, specVars, osdVars, cephVars
<1>26. CASE UNCHANGED vars
  BY <1>26 DEF vars, TypeOK, bdVars, specVars, osdVars, cephVars
<1> QED
  BY <1>1, <1>2, <1>3, <1>4, <1>5, <1>6, <1>7, <1>8, <1>9, <1>10, <1>11,
     <1>12, <1>13, <1>14, <1>15, <1>16, <1>17, <1>18, <1>19, <1>20, <1>21,
     <1>22, <1>23, <1>24, <1>25, <1>26
  DEF Next, Controller, Step, Environment, Provision, Disturbance

\* Every variable keeps its type.
THEOREM TypeCorrect == Spec => []TypeOK
<1>1. Init => TypeOK
  BY TypeOKInit
<1>2. TypeOK /\ [Next]_vars => TypeOK'
  BY TypeOKStep
<1> QED
  BY <1>1, <1>2, PTL DEF Spec

-----------------------------------------------------------------------------
(* Ownership. *)

\* A pass starts, ends, or goes on without claiming or releasing anything.
Calm(f) ==
  \/ job'[f] = IdleJob
  \/ SameClaims(f)
  \/ /\ job'[f].selected = job[f].selected
     /\ job'[f].skipped = job[f].skipped
     /\ job'[f].owned \subseteq job[f].owned
     /\ job'[f].current \subseteq job[f].current
     /\ \/ /\ job[f].pc = "idle"
           /\ job'[f].pc = "list"
           /\ job'[f].todo = job[f].todo
        \/ /\ job[f].pc \notin {"idle", "list", "adopt", "lvg"}
           /\ job'[f].pc \notin {"idle", "list", "adopt", "lvg"}
           /\ job'[f].todo \subseteq job[f].selected

\* The operator's hand aside, no label and no volume group is added.
CalmWorld ==
  /\ owner' = owner
  /\ touched \subseteq touched'
  /\ \A e \in EC : \A b \in BD \ touched' :
       lvg'[e][b] # "absent" => lvg[e][b] # "absent"

\* A step that claims nothing preserves the invariant.
LEMMA CalmPreserves ==
  ASSUME TypeOK, OwnershipInv, CalmWorld, \A f \in EC : Calm(f)
  PROVE  OwnershipInv'
<1>1. CopiesTrue'
  <2> SUFFICES ASSUME NEW f \in EC
               PROVE  /\ \A b \in job'[f].owned \ touched' : owner'[b] = f
                      /\ \A b \in job'[f].current : owner'[b] = NoOwner
    BY DEF CopiesTrue
  <2>1. job'[f].owned \subseteq job[f].owned /\ job'[f].current \subseteq job[f].current
    BY IdleJobFields DEF Calm, SameClaims
  <2> QED
    BY <2>1 DEF OwnershipInv, CopiesTrue, CalmWorld
<1>2. PassShape'
  <2> SUFFICES ASSUME NEW f \in EC
               PROVE  /\ job'[f].pc \in {"idle", "list"} =>
                           /\ job'[f].selected = {} /\ job'[f].owned = {}
                           /\ job'[f].current = {} /\ job'[f].todo = {}
                      /\ job'[f].todo \subseteq job'[f].selected
    BY DEF PassShape
  <2> QED
    BY IdleJobFields DEF OwnershipInv, PassShape, Calm, SameClaims
<1>3. ClaimedFirst'
  <2> SUFFICES ASSUME NEW f \in EC
               PROVE  /\ job'[f].pc = "lvg" =>
                           \A b \in BD \ touched' :
                             IsFirst(b, job'[f].todo) => owner'[b] = f
                      /\ job'[f].pc \in {"adopt", "lvg"} =>
                           \A b \in job'[f].selected \
                                    (job'[f].skipped \cup job'[f].todo \cup touched') :
                             owner'[b] = f
                      /\ job'[f].pc \notin {"idle", "list", "adopt", "lvg"} =>
                           \A b \in job'[f].selected \ touched' : owner'[b] = f
    BY DEF ClaimedFirst
  <2>1. CASE job'[f] = IdleJob
    BY <2>1, IdleJobFields
  <2>2. CASE SameClaims(f)
    BY <2>2 DEF OwnershipInv, ClaimedFirst, CalmWorld, SameClaims
  <2>3. CASE job'[f] # IdleJob /\ ~SameClaims(f)
    BY <2>3 DEF OwnershipInv, ClaimedFirst, CalmWorld, Calm
  <2> QED
    BY <2>1, <2>2, <2>3
<1>4. PlumbingOwned'
  BY DEF OwnershipInv, PlumbingOwned, CalmWorld
<1> QED
  BY <1>1, <1>2, <1>3, <1>4 DEF OwnershipInv

LEMMA OwnershipInit == Init => OwnershipInv
<1> SUFFICES ASSUME Init PROVE OwnershipInv
  OBVIOUS
<1>1. \A e \in EC : job[e] = IdleJob
  BY DEF Init
<1>2. PlumbingOwned
  BY DEF Init, PlumbingOwned
<1> QED
  BY <1>1, <1>2, IdleJobFields
  DEF OwnershipInv, CopiesTrue, ClaimedFirst, PassShape

\* The list selects the cluster's own devices and nobody's.
LEMMA ListOwnership ==
  ASSUME TypeOK, OwnershipInv, NEW e \in EC, ListMatchingBlockDevices(e)
  PROVE  OwnershipInv'
<1>1. owner' = owner /\ touched' = touched /\ lvg' = lvg
  BY DEF ListMatchingBlockDevices, bdVars, osdVars
<1>2. CASE \E r \in Reason : Finish(e, r)
  BY <1>1, <1>2, FinishEffect, CalmPreserves DEF Calm, CalmWorld, SameClaims
<1>3. CASE \A r \in Reason : ~Finish(e, r)
  <2>1. /\ \A f \in EC \ {e} : job'[f] = job[f]
        /\ job'[e].pc = "adopt"
        /\ job'[e].selected = Matching(e, job[e].bdSel, job[e].nodeSel)
        /\ job'[e].owned = job'[e].selected \cap OwnedBy(e)
        /\ job'[e].current = job'[e].selected \ OwnedBy(e)
        /\ job'[e].todo = job'[e].selected \ job'[e].skipped
    BY <1>3, ListEffect
  <2>2. /\ job'[e].selected \in SUBSET BD
        /\ \A b \in job'[e].selected : owner[b] \in {e, NoOwner}
    <3>1. job[e] \in Job
      BY DEF TypeOK
    <3>2. job[e].bdSel \in SUBSET BD /\ job[e].nodeSel \in SUBSET BD
      BY <3>1, JobFields
    <3> QED
      BY <2>1, <3>2, MatchingOwners
  <2>3. CopiesTrue'
    BY <1>1, <2>1, <2>2 DEF OwnershipInv, CopiesTrue, OwnedBy
  <2>4. PassShape'
    BY <2>1 DEF OwnershipInv, PassShape
  <2>5. ClaimedFirst'
    BY <1>1, <2>1 DEF OwnershipInv, ClaimedFirst
  <2>6. PlumbingOwned'
    BY <1>1 DEF OwnershipInv, PlumbingOwned
  <2> QED
    BY <2>3, <2>4, <2>5, <2>6 DEF OwnershipInv
<1> QED
  BY <1>2, <1>3

\* Two devices that are both first are the same.
LEMMA FirstUnique ==
  ASSUME NEW S \in SUBSET BD, NEW b, NEW c, IsFirst(b, S), IsFirst(c, S)
  PROVE  b = c
BY ConstAssumption DEF IsFirst

\* A claim succeeds only on a device that still belongs to nobody.
LEMMA AdoptOwnership ==
  ASSUME TypeOK, OwnershipInv, NEW e \in EC, NEW b \in BD, AdoptBlockDevice(e, b)
  PROVE  OwnershipInv'
<1>1. touched' = touched /\ lvg' = lvg
  BY DEF AdoptBlockDevice, osdVars
<1>2. IsFirst(b, job[e].todo) /\ job[e].pc = "adopt" /\ job[e].todo \in SUBSET BD
  BY JobFields DEF AdoptBlockDevice, TypeOK
<1>3. CASE b \in job[e].owned /\ Proceed(e, "lvg", job[e].todo) /\ owner' = owner
  <2>1. /\ \A f \in EC \ {e} : job'[f] = job[f]
        /\ job'[e].pc = "lvg" /\ job'[e].todo = job[e].todo
        /\ job'[e].selected = job[e].selected /\ job'[e].skipped = job[e].skipped
        /\ job'[e].owned = job[e].owned /\ job'[e].current = job[e].current
    BY <1>2, <1>3, ProceedEffect DEF Pc
  <2>2. CopiesTrue'
    BY <1>1, <1>3, <2>1 DEF OwnershipInv, CopiesTrue
  <2>3. PassShape'
    BY <2>1, <1>2 DEF OwnershipInv, PassShape
  <2>4. b \in touched \/ owner[b] = e
    BY <1>3 DEF OwnershipInv, CopiesTrue
  <2>5. ClaimedFirst'
    BY <1>1, <1>2, <1>3, <2>1, <2>4, FirstUnique DEF OwnershipInv, ClaimedFirst
  <2>6. PlumbingOwned'
    BY <1>1, <1>3 DEF OwnershipInv, PlumbingOwned
  <2> QED
    BY <2>2, <2>3, <2>5, <2>6 DEF OwnershipInv
<1>4. CASE /\ b \in job[e].current
           /\ owner' = [owner EXCEPT ![b] = e]
           /\ job' = [Outdated(job, b) EXCEPT ![e].pc = "lvg"]
  <2>1. \A f \in EC :
          /\ job'[f].pc = IF f = e THEN "lvg" ELSE job[f].pc
          /\ job'[f].selected = job[f].selected
          /\ job'[f].skipped = job[f].skipped
          /\ job'[f].owned = job[f].owned
          /\ job'[f].current = job[f].current \ {b}
          /\ job'[f].todo = job[f].todo
    BY <1>4, ClaimEffect
  <2>2. owner[b] = NoOwner /\ NoOwner \notin EC
    BY <1>4, ConstAssumption DEF OwnershipInv, CopiesTrue
  <2>3. owner'[b] = e /\ \A c \in BD \ {b} : owner'[c] = owner[c]
    BY <1>4 DEF TypeOK
  <2>4. \A f \in EC : /\ job[f].owned \in SUBSET BD /\ job[f].current \in SUBSET BD
                      /\ job[f].selected \in SUBSET BD /\ job[f].todo \in SUBSET BD
    BY JobFields DEF TypeOK
  <2>5. CopiesTrue'
    BY <1>1, <2>1, <2>2, <2>3, <2>4 DEF OwnershipInv, CopiesTrue
  <2>6. PassShape'
    BY <1>2, <2>1 DEF OwnershipInv, PassShape
  <2>7. ClaimedFirst'
    <3> SUFFICES ASSUME NEW f \in EC
               PROVE  /\ job'[f].pc = "lvg" =>
                           \A c \in BD \ touched :
                             IsFirst(c, job[f].todo) => owner'[c] = f
                      /\ job'[f].pc \in {"adopt", "lvg"} =>
                           \A c \in job[f].selected \
                                    (job[f].skipped \cup job[f].todo \cup touched) :
                             owner'[c] = f
                      /\ job'[f].pc \notin {"idle", "list", "adopt", "lvg"} =>
                           \A c \in job[f].selected \ touched : owner'[c] = f
      BY <1>1, <2>1 DEF ClaimedFirst
    <3>1. CASE f = e
      <4>1. \A c \in BD : IsFirst(c, job[e].todo) => c = b
        BY <1>2, FirstUnique
      <4> QED
        BY <1>2, <2>1, <2>2, <2>3, <2>4, <3>1, <4>1 DEF OwnershipInv, ClaimedFirst
    <3>2. CASE f # e
      BY <2>1, <2>2, <2>3, <2>4, <3>2 DEF OwnershipInv, ClaimedFirst
    <3> QED
      BY <3>1, <3>2
  <2>8. PlumbingOwned'
    BY <1>1, <2>2, <2>3 DEF OwnershipInv, PlumbingOwned
  <2> QED
    BY <2>5, <2>6, <2>7, <2>8 DEF OwnershipInv
<1>5. CASE Finish(e, "ReconcileFailed") /\ owner' = owner
  <2>1. "ReconcileFailed" \in Reason
    BY DEF Reason
  <2> QED
    BY <1>1, <1>5, <2>1, FinishEffect, CalmPreserves DEF Calm, CalmWorld, SameClaims
<1> QED
  BY <1>3, <1>4, <1>5 DEF AdoptBlockDevice

\* The volume group goes on the device just claimed.
LEMMA UpsertLVGOwnership ==
  ASSUME TypeOK, OwnershipInv, NEW e \in EC, NEW b \in BD, UpsertLVG(e, b)
  PROVE  OwnershipInv'
<1>1. /\ touched' = touched /\ owner' = owner
      /\ lvg' = [lvg EXCEPT ![e][b] = Created(@)]
      /\ job[e].pc = "lvg" /\ IsFirst(b, job[e].todo)
  BY DEF UpsertLVG, bdVars
<1>2. /\ \A f \in EC \ {e} : job'[f] = job[f]
      /\ job'[e].pc = "adopt" /\ job'[e].todo = job[e].todo \ {b}
      /\ job'[e].selected = job[e].selected /\ job'[e].skipped = job[e].skipped
      /\ job'[e].owned = job[e].owned /\ job'[e].current = job[e].current
  <2>1. "adopt" \in Pc /\ job[e].todo \ {b} \in SUBSET BD
    BY JobFields DEF Pc, TypeOK
  <2> QED
    BY <2>1, ProceedEffect DEF UpsertLVG
<1>3. b \in touched \/ owner[b] = e
  BY <1>1 DEF OwnershipInv, ClaimedFirst
<1>4. CopiesTrue'
  BY <1>1, <1>2 DEF OwnershipInv, CopiesTrue
<1>5. PassShape'
  BY <1>1, <1>2 DEF OwnershipInv, PassShape
<1>6. ClaimedFirst'
  BY <1>1, <1>2, <1>3 DEF OwnershipInv, ClaimedFirst
<1>7. PlumbingOwned'
  <2>1. \A f \in EC, c \in BD : f # e \/ c # b => lvg'[f][c] = lvg[f][c]
    BY <1>1 DEF TypeOK
  <2> QED
    BY <1>1, <1>3, <2>1 DEF OwnershipInv, PlumbingOwned
<1> QED
  BY <1>4, <1>5, <1>6, <1>7 DEF OwnershipInv

LEMMA FinishAdoptionOwnership ==
  ASSUME TypeOK, OwnershipInv, NEW e \in EC, FinishAdoption(e)
  PROVE  OwnershipInv'
<1>1. /\ owner' = owner /\ touched' = touched /\ lvg' = lvg
      /\ job[e].pc = "adopt" /\ job[e].todo = {}
  BY DEF FinishAdoption, bdVars, osdVars
<1>2. CASE \E r \in Reason : Finish(e, r)
  BY <1>1, <1>2, FinishEffect, CalmPreserves DEF Calm, CalmWorld, SameClaims
<1>3. CASE \A r \in Reason : ~Finish(e, r)
  <2>1. /\ \A f \in EC \ {e} : job'[f] = job[f]
        /\ job[e].skipped = {}
        /\ job'[e].pc = "gateLVG" /\ job'[e].owned = {} /\ job'[e].current = {}
        /\ job'[e].todo = job[e].todo /\ job'[e].selected = job[e].selected
    BY <1>3, FinishAdoptionEffect
  <2>2. \A b \in job[e].selected \ touched : owner[b] = e
    BY <1>1, <2>1 DEF OwnershipInv, ClaimedFirst
  <2>3. CopiesTrue'
    BY <1>1, <2>1 DEF OwnershipInv, CopiesTrue
  <2>4. PassShape'
    BY <2>1 DEF OwnershipInv, PassShape
  <2>5. ClaimedFirst'
    BY <1>1, <2>1, <2>2 DEF OwnershipInv, ClaimedFirst
  <2>6. PlumbingOwned'
    BY <1>1 DEF OwnershipInv, PlumbingOwned
  <2> QED
    BY <2>3, <2>4, <2>5, <2>6 DEF OwnershipInv
<1> QED
  BY <1>2, <1>3

\* Relabelling by hand takes the device out of the invariant.
LEMMA RelabelOwnership ==
  ASSUME TypeOK, OwnershipInv, NEW b \in BD, NEW o \in EC \cup {NoOwner}, Relabel(b, o)
  PROVE  OwnershipInv'
<1>1. /\ touched' = touched \cup {b} /\ lvg' = lvg
      /\ \A c \in BD \ {b} : owner'[c] = owner[c]
      /\ \A f \in EC : SameClaims(f) /\ b \notin job'[f].current
  BY OutdatedSame DEF Relabel, TypeOK, osdVars
<1>2. \A f \in EC : /\ job[f].owned \in SUBSET BD /\ job[f].current \in SUBSET BD
                    /\ job[f].selected \in SUBSET BD
  BY JobFields DEF TypeOK
<1>3. CopiesTrue'
  BY <1>1, <1>2 DEF OwnershipInv, CopiesTrue, SameClaims
<1>4. PassShape'
  BY <1>1 DEF OwnershipInv, PassShape, SameClaims
<1>5. ClaimedFirst'
  BY <1>1, <1>2 DEF OwnershipInv, ClaimedFirst, SameClaims
<1>6. PlumbingOwned'
  BY <1>1 DEF OwnershipInv, PlumbingOwned
<1> QED
  BY <1>3, <1>4, <1>5, <1>6 DEF OwnershipInv

LEMMA OwnershipStep ==
  ASSUME TypeOK, OwnershipInv, [Next]_vars
  PROVE  OwnershipInv'
<1> USE TypedPasses
<1>1. ASSUME NEW e \in EC, Begin(e)
      PROVE  OwnershipInv'
  <2>1. CalmWorld
    BY <1>1
    DEF Begin, CalmWorld, bdVars, osdVars
  <2>2. \A f \in EC : Calm(f)
    <3>1. job[e].pc = "idle"
      BY <1>1 DEF Begin
    <3> QED
      BY <1>1, <3>1, BeginEffect DEF Calm, SameClaims
  <2> QED
    BY <2>1, <2>2, CalmPreserves
<1>2. ASSUME NEW e \in EC, ListMatchingBlockDevices(e)
      PROVE  OwnershipInv'
  BY <1>2, ListOwnership
<1>3. ASSUME NEW e \in EC, FinishAdoption(e)
      PROVE  OwnershipInv'
  BY <1>3, FinishAdoptionOwnership
<1>4. ASSUME NEW e \in EC, GateLVG(e)
      PROVE  OwnershipInv'
  <2>1. CalmWorld
    BY <1>4
    DEF GateLVG, CalmWorld, bdVars, osdVars, Gate
  <2>2. \A f \in EC : Calm(f)
    BY <1>4, FinishEffect, ProceedEffect, JobFields
    DEF GateLVG, Gate, Pc, Reason, Calm, SameClaims
  <2> QED
    BY <2>1, <2>2, CalmPreserves
<1>5. ASSUME NEW e \in EC, GateLLV(e)
      PROVE  OwnershipInv'
  <2>1. CalmWorld
    BY <1>5
    DEF GateLLV, CalmWorld, bdVars, osdVars, Gate
  <2>2. \A f \in EC : Calm(f)
    BY <1>5, FinishEffect, ProceedEffect, JobFields
    DEF GateLLV, Gate, Pc, Reason, Calm, SameClaims
  <2> QED
    BY <2>1, <2>2, CalmPreserves
<1>6. ASSUME NEW e \in EC, GatePV(e)
      PROVE  OwnershipInv'
  <2>1. CalmWorld
    BY <1>6
    DEF GatePV, CalmWorld, bdVars, osdVars, Gate
  <2>2. \A f \in EC : Calm(f)
    BY <1>6, FinishEffect, ProceedEffect, JobFields
    DEF GatePV, Gate, Pc, Reason, Calm, SameClaims
  <2> QED
    BY <2>1, <2>2, CalmPreserves
<1>7. ASSUME NEW e \in EC, NEW b \in BD, AdoptBlockDevice(e, b)
      PROVE  OwnershipInv'
  BY <1>7, AdoptOwnership
<1>8. ASSUME NEW e \in EC, NEW b \in BD, UpsertLVG(e, b)
      PROVE  OwnershipInv'
  BY <1>8, UpsertLVGOwnership
<1>9. ASSUME NEW e \in EC, NEW b \in BD, UpsertLLV(e, b)
      PROVE  OwnershipInv'
  <2>1. CalmWorld
    BY <1>9
    DEF UpsertLLV, CalmWorld, bdVars, osdVars
  <2>2. \A f \in EC : Calm(f)
    <3> DEFINE rest == job[e].todo \ {b}
               at == NextPc("llv", "gateLLV", rest)
    <3>1. job[e].pc = "llv" /\ Proceed(e, at, rest)
      BY <1>9 DEF UpsertLLV
    <3>2. at \in Pc /\ at \notin {"idle", "list", "adopt", "lvg"}
      BY DEF NextPc, Pc
    <3>3. rest \in SUBSET BD /\ rest \subseteq job[e].selected
      BY JobFields DEF OwnershipInv, PassShape
    <3> HIDE DEF at, rest
    <3> QED
      BY <3>1, <3>2, <3>3, ProceedEffect DEF Calm, SameClaims
  <2> QED
    BY <2>1, <2>2, CalmPreserves
<1>10. ASSUME NEW e \in EC, NEW b \in BD, UpsertPV(e, b)
      PROVE  OwnershipInv'
  <2>1. CalmWorld
    BY <1>10
    DEF UpsertPV, CalmWorld, bdVars, osdVars
  <2>2. \A f \in EC : Calm(f)
    <3> DEFINE rest == job[e].todo \ {b}
               at == NextPc("pv", "gatePV", rest)
    <3>1. job[e].pc = "pv" /\ Proceed(e, at, rest)
      BY <1>10 DEF UpsertPV
    <3>2. at \in Pc /\ at \notin {"idle", "list", "adopt", "lvg"}
      BY DEF NextPc, Pc
    <3>3. rest \in SUBSET BD /\ rest \subseteq job[e].selected
      BY JobFields DEF OwnershipInv, PassShape
    <3> HIDE DEF at, rest
    <3> QED
      BY <3>1, <3>2, <3>3, ProceedEffect DEF Calm, SameClaims
  <2> QED
    BY <2>1, <2>2, CalmPreserves
<1>11. ASSUME NEW e \in EC, NEW b \in BD, UpsertCephCluster(e, b)
      PROVE  OwnershipInv'
  <2>1. CalmWorld
    BY <1>11
    DEF UpsertCephCluster, CalmWorld, bdVars, osdVars
  <2>2. \A f \in EC : Calm(f)
    BY <1>11, FinishEffect, JobFields
    DEF UpsertCephCluster, Reason, Calm, SameClaims
  <2> QED
    BY <2>1, <2>2, CalmPreserves
<1>12. ASSUME NEW e \in EC, NEW b \in BD, SncProvisionLVG(e, b)
      PROVE  OwnershipInv'
  <2>1. CalmWorld
    BY <1>12
    DEF SncProvisionLVG, CalmWorld, TypeOK, bdVars
  <2>2. \A f \in EC : Calm(f)
    BY <1>12, OutdatedSame
    DEF SncProvisionLVG, Calm, SameClaims
  <2> QED
    BY <2>1, <2>2, CalmPreserves
<1>13. ASSUME NEW e \in EC, NEW b \in BD, SncProvisionLLV(e, b)
      PROVE  OwnershipInv'
  <2>1. CalmWorld
    BY <1>13
    DEF SncProvisionLLV, CalmWorld, bdVars, osdVars
  <2>2. \A f \in EC : Calm(f)
    BY <1>13
    DEF SncProvisionLLV, Calm, SameClaims
  <2> QED
    BY <2>1, <2>2, CalmPreserves
<1>14. ASSUME NEW e \in EC, NEW b \in BD, PublishPV(e, b)
      PROVE  OwnershipInv'
  <2>1. CalmWorld
    BY <1>14
    DEF PublishPV, CalmWorld, bdVars, osdVars
  <2>2. \A f \in EC : Calm(f)
    BY <1>14
    DEF PublishPV, Calm, SameClaims
  <2> QED
    BY <2>1, <2>2, CalmPreserves
<1>15. ASSUME NEW b \in BD, BecomeConsumable(b)
      PROVE  OwnershipInv'
  <2>1. CalmWorld
    BY <1>15
    DEF BecomeConsumable, CalmWorld, bdVars, osdVars
  <2>2. \A f \in EC : Calm(f)
    BY <1>15, OutdatedSame
    DEF BecomeConsumable, Calm, SameClaims
  <2> QED
    BY <2>1, <2>2, CalmPreserves
<1>16. ASSUME NEW e \in EC, NEW b \in BD, Degrade(e, b)
      PROVE  OwnershipInv'
  <2>1. CalmWorld
    <3>1. owner' = owner /\ touched' = touched
      BY <1>16 DEF Degrade, bdVars
    <3>2. CASE lvg' = lvg
      BY <3>1, <3>2 DEF CalmWorld
    <3>3. CASE lvg[e][b] = "ready" /\ lvg' = [lvg EXCEPT ![e][b] = "degraded"]
      BY <3>1, <3>3 DEF CalmWorld, TypeOK
    <3> QED
      BY <1>16, <3>2, <3>3 DEF Degrade
  <2>2. \A f \in EC : Calm(f)
    BY <1>16
    DEF Degrade, Calm, SameClaims
  <2> QED
    BY <2>1, <2>2, CalmPreserves
<1>17. ASSUME NEW e \in EC, NEW b \in BD, DriftNode(e, b)
      PROVE  OwnershipInv'
  <2>1. CalmWorld
    BY <1>17
    DEF DriftNode, CalmWorld, bdVars, osdVars
  <2>2. \A f \in EC : Calm(f)
    BY <1>17, DriftNodeSame
    DEF DriftNode, Calm, SameClaims
  <2> QED
    BY <2>1, <2>2, CalmPreserves
<1>18. ASSUME NEW e \in EC, NEW b \in BD, DriftDevice(e, b)
      PROVE  OwnershipInv'
  <2>1. CalmWorld
    BY <1>18
    DEF DriftDevice, CalmWorld, bdVars, osdVars
  <2>2. \A f \in EC : Calm(f)
    BY <1>18, DriftDeviceSame
    DEF DriftDevice, Calm, SameClaims
  <2> QED
    BY <2>1, <2>2, CalmPreserves
<1>19. ASSUME NEW e \in EC, NEW b \in BD, Decommission(e, b)
      PROVE  OwnershipInv'
  <2>1. CalmWorld
    BY <1>19
    DEF Decommission, CalmWorld, TypeOK, bdVars
  <2>2. \A f \in EC : Calm(f)
    BY <1>19
    DEF Decommission, Calm, SameClaims
  <2> QED
    BY <2>1, <2>2, CalmPreserves
<1>20. ASSUME NEW b \in BD, NEW s \in BdStatus, ReportStatus(b, s)
      PROVE  OwnershipInv'
  <2>1. CalmWorld
    BY <1>20
    DEF ReportStatus, CalmWorld, bdVars, osdVars
  <2>2. \A f \in EC : Calm(f)
    BY <1>20, OutdatedSame
    DEF ReportStatus, Calm, SameClaims
  <2> QED
    BY <2>1, <2>2, CalmPreserves
<1>21. ASSUME NEW b \in BD, Grow(b)
      PROVE  OwnershipInv'
  <2>1. CalmWorld
    BY <1>21
    DEF Grow, CalmWorld, bdVars, osdVars
  <2>2. \A f \in EC : Calm(f)
    BY <1>21, OutdatedSame
    DEF Grow, Calm, SameClaims
  <2> QED
    BY <2>1, <2>2, CalmPreserves
<1>22. ASSUME NEW e \in EC, NEW bds \in Selections, EditSelectors(e, bds)
      PROVE  OwnershipInv'
  <2>1. CalmWorld
    BY <1>22
    DEF EditSelectors, CalmWorld, bdVars, osdVars
  <2>2. \A f \in EC : Calm(f)
    BY <1>22
    DEF EditSelectors, Calm, SameClaims
  <2> QED
    BY <2>1, <2>2, CalmPreserves
<1>23. ASSUME NEW b \in BD, NEW o \in EC \cup {NoOwner}, Relabel(b, o)
      PROVE  OwnershipInv'
  BY <1>23, RelabelOwnership
<1>24. ASSUME NEW e \in EC, Fail(e)
      PROVE  OwnershipInv'
  <2>1. CalmWorld
    BY <1>24
    DEF Fail, CalmWorld, bdVars, osdVars
  <2>2. \A f \in EC : Calm(f)
    BY <1>24, FinishEffect
    DEF Fail, Reason, Calm, SameClaims
  <2> QED
    BY <2>1, <2>2, CalmPreserves
<1>25. ASSUME Restart
      PROVE  OwnershipInv'
  <2>1. CalmWorld
    BY <1>25
    DEF Restart, CalmWorld, bdVars, osdVars
  <2>2. \A f \in EC : Calm(f)
    BY <1>25
    DEF Restart, Calm, SameClaims
  <2> QED
    BY <2>1, <2>2, CalmPreserves
<1>26. CASE UNCHANGED vars
  <2>1. CalmWorld /\ \A f \in EC : Calm(f)
    BY <1>26 DEF vars, bdVars, osdVars, CalmWorld, Calm, SameClaims
  <2> QED
    BY <2>1, CalmPreserves
<1> QED
  BY <1>1, <1>2, <1>3, <1>4, <1>5, <1>6, <1>7, <1>8, <1>9, <1>10, <1>11,
     <1>12, <1>13, <1>14, <1>15, <1>16, <1>17, <1>18, <1>19, <1>20, <1>21,
     <1>22, <1>23, <1>24, <1>25, <1>26
  DEF Next, Controller, Step, Environment, Provision, Disturbance

\* The invariant above holds of every reachable state: what a pass believes of
\* the labels it has read or written is so, and only claimed devices carry
\* plumbing.
THEOREM Ownership == Spec => []OwnershipInv
<1>1. Init => OwnershipInv
  BY OwnershipInit
<1>2. TypeOK /\ OwnershipInv /\ [Next]_vars => OwnershipInv'
  BY OwnershipStep
<1> QED
  BY <1>1, <1>2, TypeCorrect, PTL DEF Spec

\* No two clusters ever provision one device, whatever the interleaving of
\* their passes with each other and with the rest of the world.
THEOREM PlumbingIsOwned == Spec => []PlumbingOwned
<1>1. OwnershipInv => PlumbingOwned
  BY DEF OwnershipInv
<1> QED
  BY <1>1, Ownership, PTL

\* Only AdoptBlockDevice and the operator write the label.
LEMMA NoTransferStep ==
  ASSUME TypeOK, OwnershipInv, [Next]_vars, NEW c \in BD,
         owner[c] \in EC, owner'[c] # owner[c]
  PROVE  c \in touched'
<1>1. ASSUME NEW e \in EC, NEW b \in BD, AdoptBlockDevice(e, b)
      PROVE  owner'[c] = owner[c]
  <2>1. CASE owner' = owner
    BY <2>1
  <2>2. CASE b \in job[e].current /\ owner' = [owner EXCEPT ![b] = e]
    <3>1. owner[b] = NoOwner /\ NoOwner \notin EC
      BY <2>2, ConstAssumption DEF OwnershipInv, CopiesTrue
    <3> QED
      BY <2>2, <3>1 DEF TypeOK
  <2> QED
    BY <1>1, <2>1, <2>2 DEF AdoptBlockDevice
<1>2. ASSUME NEW b \in BD, NEW o \in EC \cup {NoOwner}, Relabel(b, o)
      PROVE  c \in touched'
  BY <1>2 DEF Relabel, TypeOK
<1>3. ASSUME NEW e \in EC, Begin(e) \/ ListMatchingBlockDevices(e) \/ FinishAdoption(e)
      PROVE  owner' = owner
  BY <1>3 DEF Begin, ListMatchingBlockDevices, FinishAdoption, bdVars
<1>4. ASSUME NEW e \in EC, GateLVG(e) \/ GateLLV(e) \/ GatePV(e)
      PROVE  owner' = owner
  BY <1>4 DEF GateLVG, GateLLV, GatePV, Gate, bdVars
<1>5. ASSUME NEW e \in EC, NEW b \in BD,
             \/ UpsertLVG(e, b) \/ UpsertLLV(e, b) \/ UpsertPV(e, b)
             \/ UpsertCephCluster(e, b)
      PROVE  owner' = owner
  BY <1>5 DEF UpsertLVG, UpsertLLV, UpsertPV, UpsertCephCluster, bdVars
<1>6. ASSUME Environment
      PROVE  owner' = owner
  BY <1>6 DEF Environment, Provision, SncProvisionLVG, SncProvisionLLV, PublishPV,
              BecomeConsumable, bdVars
<1>7. ASSUME NEW e \in EC, NEW b \in BD,
             Degrade(e, b) \/ DriftNode(e, b) \/ DriftDevice(e, b) \/ Decommission(e, b)
      PROVE  owner' = owner
  BY <1>7 DEF Degrade, DriftNode, DriftDevice, Decommission, bdVars
<1>8. ASSUME NEW b \in BD, (\E s \in BdStatus : ReportStatus(b, s)) \/ Grow(b)
      PROVE  owner' = owner
  BY <1>8 DEF ReportStatus, Grow
<1>9. ASSUME NEW e \in EC, (\E bds \in Selections : EditSelectors(e, bds)) \/ Fail(e)
      PROVE  owner' = owner
  BY <1>9 DEF EditSelectors, Fail, bdVars
<1>10. ASSUME Restart \/ UNCHANGED vars
       PROVE  owner' = owner
  BY <1>10 DEF Restart, vars, bdVars
<1> QED
  BY <1>1, <1>2, <1>3, <1>4, <1>5, <1>6, <1>7, <1>8, <1>9, <1>10
  DEF Next, Controller, Step, Disturbance

-----------------------------------------------------------------------------
(* The devices counted in the CephCluster. *)

Late == {"gateLVG", "llv", "gateLLV", "pv", "gatePV", "ceph"}

\* A device that is counted is the cluster's and carries its volume group; a pass
\* that has listed the devices has it in hand.
CountedKept ==
  \A e \in EC : \A b \in deviceSet[e] \ touched :
    /\ owner[b] = e /\ lvg[e][b] # "absent"
    /\ job[e].pc \notin {"idle", "list"} => b \in job[e].selected

\* The devices a pass has adopted carry a volume group.
AdoptedHaveLVG ==
  \A e \in EC :
    /\ job[e].pc \in {"adopt", "lvg"} =>
         \A b \in job[e].selected \ (job[e].skipped \cup job[e].todo \cup touched) :
           lvg[e][b] # "absent"
    /\ job[e].pc \in Late =>
         \A b \in job[e].selected \ touched : lvg[e][b] # "absent"

CountInv == CountedKept /\ AdoptedHaveLVG

\* On devices the operator leaves alone, claims and objects stay.
KeptWorld ==
  /\ touched \subseteq touched'
  /\ \A e \in EC : \A b \in BD \ touched' :
       /\ owner[b] = e => owner'[b] = e
       /\ lvg[e][b] # "absent" => lvg'[e][b] # "absent"

LEMMA KeptStep ==
  ASSUME TypeOK, OwnershipInv, [Next]_vars
  PROVE  KeptWorld
<1> DEFINE Goal == /\ touched \subseteq touched'
                   /\ \A f \in EC : \A c \in BD \ touched' :
                        lvg[f][c] # "absent" => lvg'[f][c] # "absent"
<1>0. lvg \in [EC -> [BD -> Phase]] /\ \A p : Created(p) # "absent"
  BY DEF TypeOK, Created
<1>1. ASSUME NEW e \in EC, Begin(e) \/ ListMatchingBlockDevices(e) \/ FinishAdoption(e)
      PROVE  Goal
  BY <1>1 DEF Begin, ListMatchingBlockDevices, FinishAdoption, osdVars
<1>2. ASSUME NEW e \in EC, GateLVG(e) \/ GateLLV(e) \/ GatePV(e)
      PROVE  Goal
  BY <1>2 DEF GateLVG, GateLLV, GatePV, Gate, osdVars
<1>3. ASSUME NEW e \in EC, NEW b \in BD,
             \/ AdoptBlockDevice(e, b) \/ UpsertLLV(e, b) \/ UpsertPV(e, b)
             \/ UpsertCephCluster(e, b)
      PROVE  Goal
  BY <1>3 DEF AdoptBlockDevice, UpsertLLV, UpsertPV, UpsertCephCluster, osdVars
<1>4. ASSUME NEW e \in EC, NEW b \in BD, UpsertLVG(e, b)
      PROVE  Goal
  BY <1>0, <1>4 DEF UpsertLVG
<1>5. ASSUME NEW e \in EC, NEW b \in BD, Provision(e, b) \/ Degrade(e, b)
      PROVE  Goal
  BY <1>0, <1>5 DEF Provision, SncProvisionLVG, SncProvisionLLV, PublishPV, Degrade
<1>6. ASSUME NEW e \in EC, NEW b \in BD, Decommission(e, b)
      PROVE  Goal
  BY <1>0, <1>6 DEF Decommission
<1>7. ASSUME NEW e \in EC, NEW b \in BD, DriftNode(e, b) \/ DriftDevice(e, b)
      PROVE  Goal
  BY <1>7 DEF DriftNode, DriftDevice, osdVars
<1>8. ASSUME NEW b \in BD,
             \/ (\E s \in BdStatus : ReportStatus(b, s)) \/ Grow(b) \/ BecomeConsumable(b)
             \/ (\E o \in EC \cup {NoOwner} : Relabel(b, o))
      PROVE  Goal
  BY <1>8 DEF ReportStatus, Grow, BecomeConsumable, Relabel, osdVars
<1>9. ASSUME NEW e \in EC, (\E bds \in Selections : EditSelectors(e, bds)) \/ Fail(e)
      PROVE  Goal
  BY <1>9 DEF EditSelectors, Fail, osdVars
<1>10. ASSUME Restart \/ UNCHANGED vars
       PROVE  Goal
  BY <1>10 DEF Restart, vars, osdVars
<1> HIDE DEF Goal
<1>11. Goal
  BY <1>1, <1>2, <1>3, <1>4, <1>5, <1>6, <1>7, <1>8, <1>9, <1>10
  DEF Next, Controller, Step, Environment, Disturbance
<1> QED
  BY <1>11, NoTransferStep DEF Goal, KeptWorld

\* A pass starts, ends, or goes on without a new volume group or count.
Quiet(f) ==
  \/ job'[f].pc \in {"idle", "list"}
  \/ SameClaims(f)
  \/ /\ job[f].pc \in Late /\ job'[f].pc \in Late
     /\ job'[f].selected = job[f].selected

LEMMA QuietPreserves ==
  ASSUME TypeOK, CountInv, KeptWorld, deviceSet' = deviceSet,
         \A f \in EC : Quiet(f)
  PROVE  CountInv'
<1>1. \A f \in EC : job[f].selected \in SUBSET BD /\ deviceSet[f] \in SUBSET BD
  BY JobFields DEF TypeOK
<1>2. CountedKept'
  BY <1>1 DEF CountInv, CountedKept, KeptWorld, Quiet, SameClaims, Late
<1>3. AdoptedHaveLVG'
  BY <1>1 DEF CountInv, AdoptedHaveLVG, KeptWorld, Quiet, SameClaims, Late
<1> QED
  BY <1>2, <1>3 DEF CountInv

LEMMA CountInit == Init => CountInv
<1> SUFFICES ASSUME Init PROVE CountInv
  OBVIOUS
<1>1. \A e \in EC : job[e] = IdleJob /\ deviceSet[e] = {}
  BY DEF Init
<1> QED
  BY <1>1, IdleJobFields
  DEF CountInv, CountedKept, AdoptedHaveLVG, Late

\* The devices counted are the cluster's own, so every list finds them.
LEMMA ListCounted ==
  ASSUME TypeOK, CountInv, KeptWorld, NEW e \in EC, ListMatchingBlockDevices(e)
  PROVE  CountInv'
<1>1. UNCHANGED <<owner, touched, lvg, pv, deviceSet>>
  BY DEF ListMatchingBlockDevices, bdVars, osdVars, cephVars
<1>2. CASE \E r \in Reason : Finish(e, r)
  BY <1>1, <1>2, FinishEffect, IdleJobFields, QuietPreserves DEF Quiet, SameClaims
<1>3. CASE \A r \in Reason : ~Finish(e, r)
  <2>1. /\ \A f \in EC \ {e} : job'[f] = job[f]
        /\ job'[e].pc = "adopt"
        /\ job'[e].selected = Matching(e, job[e].bdSel, job[e].nodeSel)
        /\ job'[e].todo = job'[e].selected \ job'[e].skipped
    BY <1>3, ListEffect
  <2>2. \A b \in deviceSet[e] \ touched : b \in job'[e].selected
    BY <2>1 DEF CountInv, CountedKept, TypeOK, Matching, Sticky, OwnedBy
  <2>3. CountedKept'
    BY <1>1, <2>1, <2>2 DEF CountInv, CountedKept
  <2>4. AdoptedHaveLVG'
    BY <1>1, <2>1 DEF CountInv, AdoptedHaveLVG, Late
  <2> QED
    BY <2>3, <2>4 DEF CountInv
<1> QED
  BY <1>2, <1>3

LEMMA AdoptCounted ==
  ASSUME TypeOK, CountInv, KeptWorld, NEW e \in EC, NEW b \in BD,
         AdoptBlockDevice(e, b)
  PROVE  CountInv'
<1>1. UNCHANGED <<touched, lvg, pv, deviceSet>> /\ job[e].pc = "adopt"
  BY DEF AdoptBlockDevice, osdVars, cephVars
<1>2. CASE Finish(e, "ReconcileFailed")
  <2>1. "ReconcileFailed" \in Reason
    BY DEF Reason
  <2> QED
    BY <1>1, <1>2, <2>1, FinishEffect, IdleJobFields, QuietPreserves
    DEF Quiet, SameClaims
<1>3. CASE \A f \in EC :
             /\ job'[f].pc = IF f = e THEN "lvg" ELSE job[f].pc
             /\ job'[f].selected = job[f].selected
             /\ job'[f].skipped = job[f].skipped
             /\ job'[f].todo = job[f].todo
  <2>1. \A f \in EC : deviceSet[f] \in SUBSET BD
    BY DEF TypeOK
  <2>2. CountedKept'
    BY <1>1, <1>3, <2>1 DEF CountInv, CountedKept, KeptWorld
  <2>3. AdoptedHaveLVG'
    BY <1>1, <1>3 DEF CountInv, AdoptedHaveLVG, Late
  <2> QED
    BY <2>2, <2>3 DEF CountInv
<1>4. CASE Proceed(e, "lvg", job[e].todo)
  BY <1>3, <1>4, ProceedEffect, JobFields, TypedPasses DEF Pc
<1>5. CASE job' = [Outdated(job, b) EXCEPT ![e].pc = "lvg"]
  BY <1>3, <1>5, ClaimEffect
<1> QED
  BY <1>2, <1>4, <1>5 DEF AdoptBlockDevice

LEMMA UpsertLVGCounted ==
  ASSUME TypeOK, CountInv, KeptWorld, NEW e \in EC, NEW b \in BD, UpsertLVG(e, b)
  PROVE  CountInv'
<1>1. /\ UNCHANGED <<owner, touched, pv, deviceSet>>
      /\ lvg' = [lvg EXCEPT ![e][b] = Created(@)]
      /\ job[e].pc = "lvg"
  BY DEF UpsertLVG, bdVars, cephVars
<1>2. /\ \A f \in EC \ {e} : job'[f] = job[f]
      /\ job'[e].pc = "adopt" /\ job'[e].todo = job[e].todo \ {b}
      /\ job'[e].selected = job[e].selected /\ job'[e].skipped = job[e].skipped
  <2>1. "adopt" \in Pc /\ job[e].todo \ {b} \in SUBSET BD
    BY JobFields DEF Pc, TypeOK
  <2> QED
    BY <2>1, ProceedEffect DEF UpsertLVG
<1>3. lvg'[e][b] # "absent"
  BY <1>1 DEF Created, TypeOK
<1>4. \A f \in EC : job[f].selected \in SUBSET BD /\ deviceSet[f] \in SUBSET BD
  BY JobFields DEF TypeOK
<1>5. CountedKept'
  BY <1>1, <1>2, <1>4 DEF CountInv, CountedKept, KeptWorld
<1>6. AdoptedHaveLVG'
  BY <1>1, <1>2, <1>3, <1>4 DEF CountInv, AdoptedHaveLVG, KeptWorld, Late
<1> QED
  BY <1>5, <1>6 DEF CountInv

LEMMA FinishAdoptionCounted ==
  ASSUME TypeOK, CountInv, KeptWorld, NEW e \in EC, FinishAdoption(e)
  PROVE  CountInv'
<1>1. UNCHANGED <<owner, touched, lvg, pv, deviceSet>> /\ job[e].pc = "adopt"
      /\ job[e].todo = {}
  BY DEF FinishAdoption, bdVars, osdVars, cephVars
<1>2. CASE \E r \in Reason : Finish(e, r)
  BY <1>1, <1>2, FinishEffect, IdleJobFields, QuietPreserves DEF Quiet, SameClaims
<1>3. CASE \A r \in Reason : ~Finish(e, r)
  <2>1. /\ \A f \in EC \ {e} : job'[f] = job[f]
        /\ job[e].skipped = {} /\ job'[e].pc = "gateLVG"
        /\ job'[e].selected = job[e].selected
    BY <1>3, FinishAdoptionEffect
  <2>2. CountedKept'
    BY <1>1, <2>1 DEF CountInv, CountedKept
  <2>3. AdoptedHaveLVG'
    BY <1>1, <2>1 DEF CountInv, AdoptedHaveLVG
  <2> QED
    BY <2>2, <2>3 DEF CountInv
<1> QED
  BY <1>2, <1>3

\* The CephCluster is written when every device of the pass is done.
LEMMA UpsertCephClusterCounted ==
  ASSUME TypeOK, OwnershipInv, CountInv, KeptWorld, NEW e \in EC, NEW b \in BD,
         UpsertCephCluster(e, b)
  PROVE  CountInv'
<1>1. /\ UNCHANGED <<owner, touched, lvg, pv>>
      /\ deviceSet' = [deviceSet EXCEPT ![e] = job[e].selected]
      /\ job[e].pc = "ceph"
  BY DEF UpsertCephCluster, bdVars, osdVars
<1>2. (\A f \in EC \ {e} : job'[f] = job[f]) /\ job'[e].pc = "idle"
  BY FinishEffect, IdleJobFields DEF UpsertCephCluster, Reason
<1>3. \A c \in job[e].selected \ touched :
        owner[c] = e /\ lvg[e][c] # "absent"
  BY <1>1 DEF OwnershipInv, ClaimedFirst, CountInv, AdoptedHaveLVG, Late
<1>4. deviceSet'[e] = job[e].selected /\ \A f \in EC \ {e} : deviceSet'[f] = deviceSet[f]
  BY <1>1 DEF TypeOK
<1>5. CountedKept'
  BY <1>1, <1>2, <1>3, <1>4 DEF CountInv, CountedKept
<1>6. AdoptedHaveLVG'
  BY <1>1, <1>2 DEF CountInv, AdoptedHaveLVG, Late
<1> QED
  BY <1>5, <1>6 DEF CountInv

LEMMA CountStep ==
  ASSUME TypeOK, OwnershipInv, CountInv, [Next]_vars
  PROVE  CountInv'
<1> USE TypedPasses
<1>0. KeptWorld
  BY KeptStep
<1>1. ASSUME NEW e \in EC, Begin(e)
      PROVE  CountInv'
  BY <1>0, <1>1, BeginEffect, QuietPreserves DEF Begin, Quiet, SameClaims, cephVars
<1>2. ASSUME NEW e \in EC, ListMatchingBlockDevices(e)
      PROVE  CountInv'
  BY <1>0, <1>2, ListCounted
<1>3. ASSUME NEW e \in EC, FinishAdoption(e)
      PROVE  CountInv'
  BY <1>0, <1>3, FinishAdoptionCounted
<1>4. ASSUME NEW e \in EC, GateLVG(e)
      PROVE  CountInv'
  <2>1. \A f \in EC : Quiet(f)
    BY <1>4, FinishEffect, ProceedEffect, IdleJobFields, JobFields
    DEF GateLVG, Gate, Pc, Reason, Quiet, SameClaims, Late
  <2> QED
    BY <1>0, <1>4, <2>1, QuietPreserves DEF GateLVG, Gate, cephVars
<1>5. ASSUME NEW e \in EC, GateLLV(e)
      PROVE  CountInv'
  <2>1. \A f \in EC : Quiet(f)
    BY <1>5, FinishEffect, ProceedEffect, IdleJobFields, JobFields
    DEF GateLLV, Gate, Pc, Reason, Quiet, SameClaims, Late
  <2> QED
    BY <1>0, <1>5, <2>1, QuietPreserves DEF GateLLV, Gate, cephVars
<1>6. ASSUME NEW e \in EC, GatePV(e)
      PROVE  CountInv'
  <2>1. \A f \in EC : Quiet(f)
    BY <1>6, FinishEffect, ProceedEffect, IdleJobFields, JobFields
    DEF GatePV, Gate, Pc, Reason, Quiet, SameClaims, Late
  <2> QED
    BY <1>0, <1>6, <2>1, QuietPreserves DEF GatePV, Gate, cephVars
<1>7. ASSUME NEW e \in EC, NEW b \in BD, AdoptBlockDevice(e, b)
      PROVE  CountInv'
  BY <1>0, <1>7, AdoptCounted
<1>8. ASSUME NEW e \in EC, NEW b \in BD, UpsertLVG(e, b)
      PROVE  CountInv'
  BY <1>0, <1>8, UpsertLVGCounted
<1>9. ASSUME NEW e \in EC, NEW b \in BD, UpsertLLV(e, b)
      PROVE  CountInv'
  <2>1. \A f \in EC : Quiet(f)
    <3> DEFINE rest == job[e].todo \ {b}
               at == NextPc("llv", "gateLLV", rest)
    <3>1. job[e].pc = "llv" /\ Proceed(e, at, rest)
      BY <1>9 DEF UpsertLLV
    <3>2. at \in Pc /\ at \in {"llv", "gateLLV"}
      BY DEF NextPc, Pc
    <3>3. rest \in SUBSET BD
      BY JobFields
    <3> HIDE DEF at, rest
    <3> QED
      BY <3>1, <3>2, <3>3, ProceedEffect DEF Quiet, SameClaims, Late
  <2> QED
    BY <1>0, <1>9, <2>1, QuietPreserves DEF UpsertLLV, cephVars
<1>10. ASSUME NEW e \in EC, NEW b \in BD, UpsertPV(e, b)
      PROVE  CountInv'
  <2>1. \A f \in EC : Quiet(f)
    <3> DEFINE rest == job[e].todo \ {b}
               at == NextPc("pv", "gatePV", rest)
    <3>1. job[e].pc = "pv" /\ Proceed(e, at, rest)
      BY <1>10 DEF UpsertPV
    <3>2. at \in Pc /\ at \in {"pv", "gatePV"}
      BY DEF NextPc, Pc
    <3>3. rest \in SUBSET BD
      BY JobFields
    <3> HIDE DEF at, rest
    <3> QED
      BY <3>1, <3>2, <3>3, ProceedEffect DEF Quiet, SameClaims, Late
  <2> QED
    BY <1>0, <1>10, <2>1, QuietPreserves DEF UpsertPV, cephVars
<1>11. ASSUME NEW e \in EC, NEW b \in BD, UpsertCephCluster(e, b)
      PROVE  CountInv'
  BY <1>0, <1>11, UpsertCephClusterCounted
<1>12. ASSUME NEW e \in EC, NEW b \in BD, SncProvisionLVG(e, b)
      PROVE  CountInv'
  BY <1>0, <1>12, OutdatedSame, QuietPreserves DEF SncProvisionLVG, Quiet, cephVars
<1>13. ASSUME NEW e \in EC, NEW b \in BD, SncProvisionLLV(e, b) \/ PublishPV(e, b)
      PROVE  CountInv'
  BY <1>0, <1>13, QuietPreserves
  DEF SncProvisionLLV, PublishPV, Quiet, SameClaims, cephVars
<1>14. ASSUME NEW b \in BD, BecomeConsumable(b)
      PROVE  CountInv'
  BY <1>0, <1>14, OutdatedSame, QuietPreserves DEF BecomeConsumable, Quiet, cephVars
<1>15. ASSUME NEW e \in EC, NEW b \in BD, Degrade(e, b) \/ Decommission(e, b)
      PROVE  CountInv'
  BY <1>0, <1>15, QuietPreserves DEF Degrade, Decommission, Quiet, SameClaims, cephVars
<1>16. ASSUME NEW e \in EC, NEW b \in BD, DriftNode(e, b)
      PROVE  CountInv'
  BY <1>0, <1>16, DriftNodeSame, QuietPreserves DEF DriftNode, Quiet, cephVars
<1>17. ASSUME NEW e \in EC, NEW b \in BD, DriftDevice(e, b)
      PROVE  CountInv'
  BY <1>0, <1>17, DriftDeviceSame, QuietPreserves DEF DriftDevice, Quiet, cephVars
<1>18. ASSUME NEW b \in BD, NEW s \in BdStatus, ReportStatus(b, s)
      PROVE  CountInv'
  BY <1>0, <1>18, OutdatedSame, QuietPreserves DEF ReportStatus, Quiet, cephVars
<1>19. ASSUME NEW b \in BD, Grow(b)
      PROVE  CountInv'
  BY <1>0, <1>19, OutdatedSame, QuietPreserves DEF Grow, Quiet, cephVars
<1>20. ASSUME NEW e \in EC, NEW bds \in Selections, EditSelectors(e, bds)
      PROVE  CountInv'
  BY <1>0, <1>20, QuietPreserves DEF EditSelectors, Quiet, SameClaims, cephVars
<1>21. ASSUME NEW b \in BD, NEW o \in EC \cup {NoOwner}, Relabel(b, o)
      PROVE  CountInv'
  BY <1>0, <1>21, OutdatedSame, QuietPreserves DEF Relabel, Quiet, cephVars
<1>22. ASSUME NEW e \in EC, Fail(e)
      PROVE  CountInv'
  <2>1. \A f \in EC : Quiet(f)
    BY <1>22, FinishEffect, IdleJobFields DEF Fail, Reason, Quiet, SameClaims
  <2> QED
    BY <1>0, <1>22, <2>1, QuietPreserves DEF Fail, cephVars
<1>23. ASSUME Restart
      PROVE  CountInv'
  BY <1>0, <1>23, IdleJobFields, QuietPreserves DEF Restart, Quiet, cephVars
<1>24. CASE UNCHANGED vars
  BY <1>0, <1>24, QuietPreserves DEF vars, cephVars, Quiet, SameClaims
<1> QED
  BY <1>1, <1>2, <1>3, <1>4, <1>5, <1>6, <1>7, <1>8, <1>9, <1>10, <1>11,
     <1>12, <1>13, <1>14, <1>15, <1>16, <1>17, <1>18, <1>19, <1>20, <1>21,
     <1>22, <1>23, <1>24
  DEF Next, Controller, Step, Environment, Provision, Disturbance

\* What the CephCluster counts and what the passes have in hand fit together in
\* every reachable state.
THEOREM Counting == Spec => []CountInv
<1>1. Init => CountInv
  BY CountInit
<1>2. TypeOK /\ OwnershipInv /\ CountInv /\ [Next]_vars => CountInv'
  BY CountStep
<1> QED
  BY <1>1, <1>2, TypeCorrect, Ownership, PTL DEF Spec

-----------------------------------------------------------------------------
(* The refinement of SingleOwner. *)

LEMMA ClaimsInit == Init => Claims!Init
BY DEF Init, Claims!Init, Used

\* Most steps leave the promise's state as it is.
LEMMA UsedSame ==
  ASSUME TypeOK, UNCHANGED <<owner, deviceSet, touched>>,
         \A f \in EC, c \in BD : lvg'[f][c] = "absent" <=> lvg[f][c] = "absent"
  PROVE  UNCHANGED Claims!vars
BY DEF Claims!vars, Used

LEMMA ClaimsStep ==
  ASSUME TypeOK, OwnershipInv, CountInv, [Next]_vars
  PROVE  [Claims!Next]_(Claims!vars)
<1>1. ASSUME NEW e \in EC, Begin(e) \/ ListMatchingBlockDevices(e) \/ FinishAdoption(e)
      PROVE  UNCHANGED Claims!vars
  BY <1>1, UsedSame
  DEF Begin, ListMatchingBlockDevices, FinishAdoption, bdVars, osdVars, cephVars
<1>2. ASSUME NEW e \in EC, GateLVG(e) \/ GateLLV(e) \/ GatePV(e)
      PROVE  UNCHANGED Claims!vars
  BY <1>2, UsedSame DEF GateLVG, GateLLV, GatePV, Gate, bdVars, osdVars, cephVars
<1>3. ASSUME NEW e \in EC, NEW b \in BD, AdoptBlockDevice(e, b)
      PROVE  Claims!Next \/ UNCHANGED Claims!vars
  <2>1. UNCHANGED <<lvg, deviceSet, touched>>
    BY <1>3 DEF AdoptBlockDevice, osdVars, cephVars
  <2>2. CASE owner' = owner
    BY <2>1, <2>2, UsedSame
  <2>3. CASE b \in job[e].current /\ owner' = [owner EXCEPT ![b] = e]
    <3>1. owner[b] = NoOwner
      BY <2>3 DEF OwnershipInv, CopiesTrue
    <3>2. Claims!Claim(e, b)
      BY <2>1, <2>3, <3>1 DEF Claims!Claim, Used
    <3> QED
      BY <3>2 DEF Claims!Next
  <2> QED
    BY <1>3, <2>2, <2>3 DEF AdoptBlockDevice
<1>4. ASSUME NEW e \in EC, NEW b \in BD, UpsertLVG(e, b)
      PROVE  Claims!Next
  <2>1. /\ UNCHANGED <<owner, deviceSet, touched>>
        /\ lvg' = [lvg EXCEPT ![e][b] = Created(@)]
        /\ job[e].pc = "lvg" /\ IsFirst(b, job[e].todo)
    BY <1>4 DEF UpsertLVG, bdVars, cephVars
  <2>2. owner[b] = e \/ b \in touched
    BY <2>1 DEF OwnershipInv, ClaimedFirst
  <2>3. \A p : Created(p) # "absent"
    BY DEF Created
  <2>4. /\ lvg'[e][b] # "absent"
        /\ \A f \in EC, c \in BD : f # e \/ c # b => lvg'[f][c] = lvg[f][c]
    BY <2>1, <2>3 DEF TypeOK
  <2>5. Used' = [Used EXCEPT ![e] = @ \cup {b}]
    <3>1. \A f \in EC : Used'[f] = IF f = e THEN Used[e] \cup {b} ELSE Used[f]
      BY <2>4 DEF Used
    <3>2. Used = [f \in EC |-> Used[f]] /\ Used' = [f \in EC |-> Used'[f]]
      BY DEF Used
    <3> QED
      BY <3>1, <3>2
  <2>6. Claims!Use(e, b)
    BY <2>1, <2>2, <2>5 DEF Claims!Use
  <2> QED
    BY <2>6 DEF Claims!Next
<1>5. ASSUME NEW e \in EC, NEW b \in BD, UpsertLLV(e, b) \/ UpsertPV(e, b)
      PROVE  UNCHANGED Claims!vars
  BY <1>5, UsedSame DEF UpsertLLV, UpsertPV, bdVars, cephVars
<1>6. ASSUME NEW e \in EC, NEW b \in BD, UpsertCephCluster(e, b)
      PROVE  Claims!Next
  <2> DEFINE S == job[e].selected
  <2>1. /\ UNCHANGED <<owner, lvg, touched>> /\ job[e].pc = "ceph"
        /\ deviceSet' = [deviceSet EXCEPT ![e] = S]
    BY <1>6 DEF UpsertCephCluster, bdVars, osdVars
  <2>2. S \in SUBSET BD /\ deviceSet[e] \in SUBSET BD
    BY JobFields DEF TypeOK
  <2>3. S \subseteq Used[e] \cup touched
    BY <2>1, <2>2 DEF CountInv, AdoptedHaveLVG, Late, Used
  <2>4. deviceSet[e] \subseteq S \cup touched
    BY <2>1 DEF CountInv, CountedKept
  <2>5. Used' = Used
    BY <2>1 DEF Used
  <2> HIDE DEF S
  <2>6. Claims!Count(e, S)
    BY <2>1, <2>3, <2>4, <2>5 DEF Claims!Count
  <2> QED
    BY <2>2, <2>6 DEF Claims!Next
<1>7. ASSUME NEW e \in EC, NEW b \in BD, Provision(e, b)
      PROVE  UNCHANGED Claims!vars
  <2>1. UNCHANGED <<owner, deviceSet, touched>>
    BY <1>7 DEF Provision, SncProvisionLVG, SncProvisionLLV, PublishPV, bdVars, cephVars
  <2>2. CASE lvg' = lvg
    BY <2>1, <2>2, UsedSame
  <2>3. CASE lvg[e][b] # "absent" /\ lvg' = [lvg EXCEPT ![e][b] = "ready"]
    BY <2>1, <2>3, UsedSame DEF TypeOK
  <2> QED
    BY <1>7, <2>2, <2>3 DEF Provision, SncProvisionLVG, SncProvisionLLV, PublishPV
<1>8. ASSUME NEW e \in EC, NEW b \in BD, Degrade(e, b)
      PROVE  UNCHANGED Claims!vars
  <2>1. UNCHANGED <<owner, deviceSet, touched>>
    BY <1>8 DEF Degrade, bdVars, cephVars
  <2>2. CASE lvg' = lvg
    BY <2>1, <2>2, UsedSame
  <2>3. CASE lvg[e][b] = "ready" /\ lvg' = [lvg EXCEPT ![e][b] = "degraded"]
    BY <2>1, <2>3, UsedSame DEF TypeOK
  <2> QED
    BY <1>8, <2>2, <2>3 DEF Degrade
<1>9. ASSUME NEW e \in EC, NEW b \in BD, Decommission(e, b)
      PROVE  Claims!Next
  <2>1. /\ UNCHANGED <<owner, deviceSet>> /\ touched' = touched \cup {b}
        /\ lvg' = [lvg EXCEPT ![e][b] = "absent"]
    BY <1>9 DEF Decommission, bdVars, cephVars
  <2>2. /\ lvg'[e][b] = "absent"
        /\ \A f \in EC, c \in BD : f # e \/ c # b => lvg'[f][c] = lvg[f][c]
    BY <2>1 DEF TypeOK
  <2>3. Used' = [Used EXCEPT ![e] = @ \ {b}]
    <3>1. \A f \in EC : Used'[f] = IF f = e THEN Used[e] \ {b} ELSE Used[f]
      BY <2>2 DEF Used
    <3>2. Used = [f \in EC |-> Used[f]] /\ Used' = [f \in EC |-> Used'[f]]
      BY DEF Used
    <3> QED
      BY <3>1, <3>2
  <2>4. Claims!Abandon(e, b)
    BY <2>1, <2>3 DEF Claims!Abandon
  <2> QED
    BY <2>4 DEF Claims!Next
<1>10. ASSUME NEW e \in EC, NEW b \in BD, DriftNode(e, b) \/ DriftDevice(e, b)
       PROVE  UNCHANGED Claims!vars
  BY <1>10, UsedSame DEF DriftNode, DriftDevice, bdVars, osdVars, cephVars
<1>11. ASSUME NEW b \in BD,
              (\E s \in BdStatus : ReportStatus(b, s)) \/ Grow(b) \/ BecomeConsumable(b)
       PROVE  UNCHANGED Claims!vars
  BY <1>11, UsedSame DEF ReportStatus, Grow, BecomeConsumable, osdVars, cephVars
<1>12. ASSUME NEW b \in BD, NEW o \in EC \cup {NoOwner}, Relabel(b, o)
       PROVE  Claims!Next
  <2>1. Claims!Relabel(b, o)
    BY <1>12 DEF Relabel, Claims!Relabel, Used, osdVars, cephVars
  <2> QED
    BY <2>1 DEF Claims!Next
<1>13. ASSUME NEW e \in EC, (\E bds \in Selections : EditSelectors(e, bds)) \/ Fail(e)
       PROVE  UNCHANGED Claims!vars
  BY <1>13, UsedSame DEF EditSelectors, Fail, bdVars, osdVars, cephVars
<1>14. ASSUME Restart \/ UNCHANGED vars
       PROVE  UNCHANGED Claims!vars
  BY <1>14, UsedSame DEF Restart, vars, bdVars, osdVars, cephVars
<1> QED
  BY <1>1, <1>2, <1>3, <1>4, <1>5, <1>6, <1>7, <1>8, <1>9, <1>10, <1>11,
     <1>12, <1>13, <1>14
  DEF Next, Controller, Step, Environment, Disturbance

\* The storage stage implements the single-owner promise: what its passes do to
\* labels, volume groups and the CephCluster are steps SingleOwner allows.
THEOREM ClaimsRefined == Spec => ImplementsClaims
<1>1. Init => Claims!Init
  BY ClaimsInit
<1>2. TypeOK /\ OwnershipInv /\ CountInv /\ [Next]_vars => [Claims!Next]_(Claims!vars)
  BY ClaimsStep
<1> QED
  BY <1>1, <1>2, TypeCorrect, Ownership, Counting, PTL
  DEF Spec, ImplementsClaims, Claims!Spec

-----------------------------------------------------------------------------
(* The barriers between the stages of a pass. *)

PastLVG == {"llv", "gateLLV", "pv", "gatePV", "ceph"}
PastLLV == {"pv", "gatePV", "ceph"}
PastPV == {"ceph"}

\* Behind a gate the objects of all devices of the pass have been ready.
BarrierInv ==
  \A e \in EC :
    /\ job[e].pc \in PastLVG => \A b \in job[e].selected \ touched : ReachedReady(lvg[e][b])
    /\ job[e].pc \in PastLLV => \A b \in job[e].selected \ touched : ReachedReady(llv[e][b])
    /\ job[e].pc \in PastPV => \A b \in job[e].selected \ touched : ReachedReady(pv[e][b])

\* What has been ready is never as if it had not been, but by hand.
ReadyKept ==
  /\ touched \subseteq touched'
  /\ \A e \in EC : \A b \in BD \ touched' :
       /\ ReachedReady(lvg[e][b]) => ReachedReady(lvg'[e][b])
       /\ ReachedReady(llv[e][b]) => ReachedReady(llv'[e][b])
       /\ ReachedReady(pv[e][b]) => ReachedReady(pv'[e][b])

\* A pass is in front of the gates, passes one, or goes on behind it.
InStep(f) ==
  \/ job'[f].pc \notin PastLVG
  \/ /\ job'[f].selected = job[f].selected
     /\ \/ job'[f].pc = job[f].pc
        \/ job[f].pc = "gateLVG" /\ job'[f].pc = "llv" /\ AllReady(lvg[f], job[f].selected)
        \/ job[f].pc = "llv" /\ job'[f].pc = "gateLLV"
        \/ job[f].pc = "gateLLV" /\ job'[f].pc = "pv" /\ AllReady(llv[f], job[f].selected)
        \/ job[f].pc = "pv" /\ job'[f].pc = "gatePV"
        \/ job[f].pc = "gatePV" /\ job'[f].pc = "ceph" /\ AllReady(pv[f], job[f].selected)

LEMMA BarrierKept ==
  ASSUME TypeOK, BarrierInv, ReadyKept, \A f \in EC : InStep(f)
  PROVE  BarrierInv'
<1> SUFFICES ASSUME NEW f \in EC
             PROVE  /\ job'[f].pc \in PastLVG =>
                         \A b \in job'[f].selected \ touched' : ReachedReady(lvg'[f][b])
                    /\ job'[f].pc \in PastLLV =>
                         \A b \in job'[f].selected \ touched' : ReachedReady(llv'[f][b])
                    /\ job'[f].pc \in PastPV =>
                         \A b \in job'[f].selected \ touched' : ReachedReady(pv'[f][b])
  BY DEF BarrierInv, PastLVG, PastLLV, PastPV, ReachedReady
<1>0. job[f].selected \in SUBSET BD /\ InStep(f)
  BY JobFields, TypedPasses
<1>1. CASE job'[f].pc \notin PastLVG
  BY <1>1 DEF PastLVG, PastLLV, PastPV
<1>2. CASE job'[f].selected = job[f].selected /\ job'[f].pc = job[f].pc
  BY <1>0, <1>2 DEF BarrierInv, ReadyKept
<1>3. CASE job'[f].selected = job[f].selected /\ job[f].pc = "gateLVG"
           /\ job'[f].pc = "llv" /\ AllReady(lvg[f], job[f].selected)
  <2>1. \A b \in job[f].selected : ReachedReady(lvg[f][b])
    BY <1>3 DEF AllReady, ReachedReady
  <2> QED
    BY <1>0, <1>3, <2>1 DEF ReadyKept, PastLLV, PastPV
<1>4. CASE job'[f].selected = job[f].selected /\ job[f].pc = "llv"
           /\ job'[f].pc = "gateLLV"
  BY <1>0, <1>4 DEF BarrierInv, ReadyKept, PastLVG, PastLLV, PastPV
<1>5. CASE job'[f].selected = job[f].selected /\ job[f].pc = "gateLLV"
           /\ job'[f].pc = "pv" /\ AllReady(llv[f], job[f].selected)
  <2>1. \A b \in job[f].selected : ReachedReady(llv[f][b])
    BY <1>5 DEF AllReady, ReachedReady
  <2> QED
    BY <1>0, <1>5, <2>1 DEF BarrierInv, ReadyKept, PastLVG, PastPV
<1>6. CASE job'[f].selected = job[f].selected /\ job[f].pc = "pv"
           /\ job'[f].pc = "gatePV"
  BY <1>0, <1>6 DEF BarrierInv, ReadyKept, PastLVG, PastLLV, PastPV
<1>7. CASE job'[f].selected = job[f].selected /\ job[f].pc = "gatePV"
           /\ job'[f].pc = "ceph" /\ AllReady(pv[f], job[f].selected)
  <2>1. \A b \in job[f].selected : ReachedReady(pv[f][b])
    BY <1>7 DEF AllReady, ReachedReady
  <2> QED
    BY <1>0, <1>7, <2>1 DEF BarrierInv, ReadyKept, PastLVG, PastLLV
<1> QED
  BY <1>0, <1>1, <1>2, <1>3, <1>4, <1>5, <1>6, <1>7 DEF InStep

LEMMA ReadyStep == TypeOK /\ [Next]_vars => ReadyKept
<1> SUFFICES ASSUME TypeOK, [Next]_vars PROVE ReadyKept
  OBVIOUS
<1>0. /\ lvg \in [EC -> [BD -> Phase]] /\ llv \in [EC -> [BD -> Phase]]
      /\ pv \in [EC -> [BD -> Phase]]
  BY DEF TypeOK
<1>1. ASSUME NEW e \in EC, NEW b \in BD, UpsertLVG(e, b) \/ SncProvisionLVG(e, b)
      PROVE  ReadyKept
  BY <1>0, <1>1 DEF UpsertLVG, SncProvisionLVG, Created, ReachedReady, ReadyKept
<1>2. ASSUME NEW e \in EC, NEW b \in BD, UpsertLLV(e, b) \/ SncProvisionLLV(e, b)
      PROVE  ReadyKept
  BY <1>0, <1>2 DEF UpsertLLV, SncProvisionLLV, Created, ReachedReady, ReadyKept
<1>3. ASSUME NEW e \in EC, NEW b \in BD, Degrade(e, b)
      PROVE  ReadyKept
  BY <1>0, <1>3 DEF Degrade, ReachedReady, ReadyKept
<1>4. ASSUME NEW e \in EC, NEW b \in BD, Decommission(e, b)
      PROVE  ReadyKept
  BY <1>0, <1>4 DEF Decommission, ReadyKept
<1>5. ASSUME touched \subseteq touched', UNCHANGED <<lvg, llv, pv>>
      PROVE  ReadyKept
  BY <1>5 DEF ReadyKept
<1>6. ASSUME NEW e \in EC,
             \/ Begin(e) \/ ListMatchingBlockDevices(e) \/ FinishAdoption(e)
             \/ GateLVG(e) \/ GateLLV(e) \/ GatePV(e) \/ Fail(e)
             \/ \E bds \in Selections : EditSelectors(e, bds)
      PROVE  ReadyKept
  BY <1>5, <1>6
  DEF Begin, ListMatchingBlockDevices, FinishAdoption, GateLVG, GateLLV, GatePV, Gate, Fail,
      EditSelectors, osdVars
<1>7. ASSUME NEW e \in EC, NEW b \in BD,
             \/ AdoptBlockDevice(e, b) \/ UpsertCephCluster(e, b)
             \/ DriftNode(e, b) \/ DriftDevice(e, b)
      PROVE  ReadyKept
  BY <1>5, <1>7
  DEF AdoptBlockDevice, UpsertCephCluster, DriftNode, DriftDevice, osdVars
<1>8. ASSUME NEW b \in BD,
             \/ BecomeConsumable(b) \/ Grow(b) \/ \E s \in BdStatus : ReportStatus(b, s)
             \/ \E o \in EC \cup {NoOwner} : Relabel(b, o)
      PROVE  ReadyKept
  BY <1>5, <1>8 DEF BecomeConsumable, Grow, ReportStatus, Relabel, osdVars
<1>9. ASSUME NEW e \in EC, NEW b \in BD, UpsertPV(e, b) \/ PublishPV(e, b)
      PROVE  ReadyKept
  BY <1>0, <1>9 DEF UpsertPV, PublishPV, Created, ReachedReady, ReadyKept
<1>10. CASE Restart \/ UNCHANGED vars
  BY <1>5, <1>10 DEF Restart, vars, osdVars
<1> QED
  BY <1>1, <1>2, <1>3, <1>4, <1>6, <1>7, <1>8, <1>9, <1>10
  DEF Next, Controller, Step, Environment, Provision, Disturbance

LEMMA InStepStep == TypeOK /\ [Next]_vars => \A f \in EC : InStep(f)
<1> SUFFICES ASSUME TypeOK, [Next]_vars PROVE \A f \in EC : InStep(f)
  OBVIOUS
<1> USE TypedPasses DEF PastLVG, PastLLV, PastPV
<1>0. \A f \in EC : SameClaims(f) => InStep(f)
  BY DEF SameClaims, InStep
<1>1. ASSUME NEW e \in EC, Begin(e)
      PROVE  \A f \in EC : InStep(f)
  BY <1>1, BeginEffect DEF InStep
<1>2. ASSUME NEW e \in EC, ListMatchingBlockDevices(e)
      PROVE  \A f \in EC : InStep(f)
  <2>1. CASE \E r \in Reason : Finish(e, r)
    BY <2>1, FinishEffect, IdleJobFields DEF InStep
  <2>2. CASE \A r \in Reason : ~Finish(e, r)
    BY <1>2, <2>2, ListEffect DEF InStep
  <2> QED
    BY <2>1, <2>2
<1>3. ASSUME NEW e \in EC, FinishAdoption(e)
      PROVE  \A f \in EC : InStep(f)
  <2>1. CASE \E r \in Reason : Finish(e, r)
    BY <2>1, FinishEffect, IdleJobFields DEF InStep
  <2>2. CASE \A r \in Reason : ~Finish(e, r)
    BY <1>3, <2>2, FinishAdoptionEffect DEF InStep
  <2> QED
    BY <2>1, <2>2
<1>4. ASSUME NEW e \in EC, GateLVG(e)
      PROVE  \A f \in EC : InStep(f)
  BY <1>4, FinishEffect, ProceedEffect, IdleJobFields, JobFields
  DEF GateLVG, Gate, Pc, Reason, InStep
<1>5. ASSUME NEW e \in EC, GateLLV(e)
      PROVE  \A f \in EC : InStep(f)
  BY <1>5, FinishEffect, ProceedEffect, IdleJobFields, JobFields
  DEF GateLLV, Gate, Pc, Reason, InStep
<1>6. ASSUME NEW e \in EC, GatePV(e)
      PROVE  \A f \in EC : InStep(f)
  BY <1>6, FinishEffect, ProceedEffect, IdleJobFields, JobFields
  DEF GatePV, Gate, Pc, Reason, InStep
<1>7. ASSUME NEW e \in EC, NEW b \in BD, AdoptBlockDevice(e, b)
      PROVE  \A f \in EC : InStep(f)
  <2>1. CASE Finish(e, "ReconcileFailed")
    BY <2>1, FinishEffect, IdleJobFields DEF InStep, Reason
  <2>2. CASE Proceed(e, "lvg", job[e].todo)
    BY <2>2, ProceedEffect, JobFields DEF Pc, InStep
  <2>3. CASE job' = [Outdated(job, b) EXCEPT ![e].pc = "lvg"]
    <3>1. \A f \in EC : /\ job'[f].pc = IF f = e THEN "lvg" ELSE job[f].pc
                        /\ job'[f].selected = job[f].selected
      BY <2>3, ClaimEffect
    <3> QED
      BY <3>1 DEF InStep
  <2> QED
    BY <1>7, <2>1, <2>2, <2>3 DEF AdoptBlockDevice
<1>8. ASSUME NEW e \in EC, NEW b \in BD, UpsertLVG(e, b)
      PROVE  \A f \in EC : InStep(f)
  <2>1. "adopt" \in Pc /\ job[e].todo \ {b} \in SUBSET BD
    BY JobFields DEF Pc
  <2> QED
    BY <1>8, <2>1, ProceedEffect DEF UpsertLVG, InStep
<1>9. ASSUME NEW e \in EC, NEW b \in BD, UpsertLLV(e, b)
      PROVE  \A f \in EC : InStep(f)
  <2> DEFINE rest == job[e].todo \ {b}
             at == NextPc("llv", "gateLLV", rest)
  <2>1. job[e].pc = "llv" /\ Proceed(e, at, rest)
    BY <1>9 DEF UpsertLLV
  <2>2. at \in Pc /\ at \in {"llv", "gateLLV"} /\ rest \in SUBSET BD
    BY JobFields DEF NextPc, Pc
  <2> HIDE DEF at, rest
  <2> QED
    BY <2>1, <2>2, ProceedEffect DEF InStep
<1>10. ASSUME NEW e \in EC, NEW b \in BD, UpsertPV(e, b)
      PROVE  \A f \in EC : InStep(f)
  <2> DEFINE rest == job[e].todo \ {b}
             at == NextPc("pv", "gatePV", rest)
  <2>1. job[e].pc = "pv" /\ Proceed(e, at, rest)
    BY <1>10 DEF UpsertPV
  <2>2. at \in Pc /\ at \in {"pv", "gatePV"} /\ rest \in SUBSET BD
    BY JobFields DEF NextPc, Pc
  <2> HIDE DEF at, rest
  <2> QED
    BY <2>1, <2>2, ProceedEffect DEF InStep
<1>11. ASSUME NEW e \in EC, Fail(e) \/ \E b \in BD : UpsertCephCluster(e, b)
      PROVE  \A f \in EC : InStep(f)
  BY <1>11, FinishEffect, IdleJobFields DEF Fail, UpsertCephCluster, Reason, InStep
<1>12. ASSUME NEW b \in BD, job' = Outdated(job, b)
      PROVE  \A f \in EC : InStep(f)
  BY <1>0, <1>12, OutdatedSame
<1>13. ASSUME NEW e \in EC, NEW b \in BD, DriftNode(e, b)
      PROVE  \A f \in EC : InStep(f)
  BY <1>0, <1>13, DriftNodeSame
<1>14. ASSUME NEW e \in EC, NEW b \in BD, DriftDevice(e, b)
      PROVE  \A f \in EC : InStep(f)
  BY <1>0, <1>14, DriftDeviceSame
<1>15. CASE Restart
  BY <1>15, IdleJobFields DEF Restart, InStep
<1>16. CASE job' = job
  BY <1>16 DEF InStep
<1>17. ASSUME NEW b \in BD,
              \/ \E e \in EC : SncProvisionLVG(e, b)
              \/ BecomeConsumable(b) \/ Grow(b) \/ \E s \in BdStatus : ReportStatus(b, s)
              \/ \E o \in EC \cup {NoOwner} : Relabel(b, o)
       PROVE  \A f \in EC : InStep(f)
  BY <1>12, <1>17 DEF SncProvisionLVG, BecomeConsumable, Grow, ReportStatus, Relabel
<1>18. CASE \/ \E e \in EC, b \in BD : \/ SncProvisionLLV(e, b) \/ PublishPV(e, b)
                                       \/ Degrade(e, b) \/ Decommission(e, b)
            \/ \E e \in EC, bds \in Selections : EditSelectors(e, bds)
            \/ UNCHANGED vars
  BY <1>16, <1>18
  DEF SncProvisionLLV, PublishPV, Degrade, Decommission, EditSelectors, vars
<1> QED
  BY <1>1, <1>2, <1>3, <1>4, <1>5, <1>6, <1>7, <1>8, <1>9, <1>10, <1>11, <1>13, <1>14,
     <1>15, <1>17, <1>18
  DEF Next, Controller, Step, Environment, Provision, Disturbance

LEMMA BarrierInit == Init => BarrierInv
BY IdleJobFields DEF Init, BarrierInv, PastLVG, PastLLV, PastPV

\* No LV before all VGs have been ready, no PV before all LVs have, however the passes,
\* faults and restarts interleave.
THEOREM StagesAreBarriers == Spec => StageBarrier
<1>1. Init => BarrierInv
  BY BarrierInit
<1>2. TypeOK /\ BarrierInv /\ [Next]_vars => BarrierInv'
  BY BarrierKept, ReadyStep, InStepStep
<1>3. BarrierInv /\ [Next]_vars =>
        [\A e \in EC :
           /\ llv'[e] # llv[e] /\ job[e].pc = "llv" =>
                \A b \in job[e].selected \ touched : ReachedReady(lvg[e][b])
           /\ pv'[e] # pv[e] /\ job[e].pc = "pv" =>
                \A b \in job[e].selected \ touched : ReachedReady(llv[e][b])]_vars
  BY DEF BarrierInv, PastLVG, PastLLV
<1> QED
  BY <1>1, <1>2, <1>3, TypeCorrect, PTL DEF Spec, StageBarrier

-----------------------------------------------------------------------------
(* What is counted is backed. *)

\* Only the last step of a pass writes the CephCluster.
LEMMA CephWrites ==
  ASSUME [Next]_vars
  PROVE  \/ UNCHANGED <<deviceSet, pvcRequest>>
         \/ \E e \in EC, b \in BD : UpsertCephCluster(e, b)
<1>1. Controller => \/ UNCHANGED <<deviceSet, pvcRequest>>
                    \/ \E e \in EC, b \in BD : UpsertCephCluster(e, b)
  <2>1. ASSUME NEW e \in EC, Begin(e) \/ ListMatchingBlockDevices(e) \/ FinishAdoption(e)
                             \/ GateLVG(e) \/ GateLLV(e) \/ GatePV(e)
        PROVE  UNCHANGED <<deviceSet, pvcRequest>>
    BY <2>1 DEF Begin, ListMatchingBlockDevices, FinishAdoption, GateLVG, GateLLV, GatePV,
                Gate, cephVars
  <2>2. ASSUME NEW e \in EC, NEW b \in BD,
               \/ AdoptBlockDevice(e, b) \/ UpsertLVG(e, b) \/ UpsertLLV(e, b)
               \/ UpsertPV(e, b)
        PROVE  UNCHANGED <<deviceSet, pvcRequest>>
    BY <2>2 DEF AdoptBlockDevice, UpsertLVG, UpsertLLV, UpsertPV, cephVars
  <2> QED
    BY <2>1, <2>2 DEF Controller, Step
<1>2. Environment => UNCHANGED <<deviceSet, pvcRequest>>
  BY DEF Environment, Provision, SncProvisionLVG, SncProvisionLLV, PublishPV,
         BecomeConsumable, cephVars
<1>3. Disturbance => UNCHANGED <<deviceSet, pvcRequest>>
  BY DEF Disturbance, Degrade, ReportStatus, Grow, DriftNode, DriftDevice, EditSelectors,
         Relabel, Decommission, Fail, Restart, cephVars
<1> QED
  BY <1>1, <1>2, <1>3 DEF Next, vars, cephVars

\* The devices counted have all their objects, and these have been ready.
ChainReady ==
  \A e \in EC : \A b \in deviceSet[e] \ touched :
    ReachedReady(lvg[e][b]) /\ ReachedReady(llv[e][b]) /\ ReachedReady(pv[e][b])

LEMMA ChainStep ==
  ASSUME TypeOK, BarrierInv, ChainReady, [Next]_vars
  PROVE  ChainReady'
<1>1. ReadyKept
  BY ReadyStep
<1>2. deviceSet \in [EC -> SUBSET BD]
  BY DEF TypeOK
<1>3. CASE deviceSet' = deviceSet
  BY <1>1, <1>2, <1>3 DEF ReadyKept, ChainReady
<1>4. ASSUME NEW e \in EC, NEW b \in BD, UpsertCephCluster(e, b)
      PROVE  ChainReady'
  <2>1. /\ deviceSet' = [deviceSet EXCEPT ![e] = job[e].selected] /\ job[e].pc = "ceph"
        /\ UNCHANGED <<lvg, llv, pv, touched>>
    BY <1>4 DEF UpsertCephCluster, osdVars
  <2>2. \A c \in job[e].selected \ touched :
          ReachedReady(lvg[e][c]) /\ ReachedReady(llv[e][c]) /\ ReachedReady(pv[e][c])
    BY <2>1 DEF BarrierInv, PastLVG, PastLLV, PastPV
  <2> QED
    BY <1>2, <2>1, <2>2 DEF ChainReady
<1> QED
  BY <1>3, <1>4, CephWrites

\* Every device counted in the CephCluster is the cluster's own, and the chain of
\* objects below it has been ready, until the operator takes it away.
THEOREM CountedAreBacked == Spec => []CountedDevicesBacked
<1>1. Init => BarrierInv /\ ChainReady
  BY BarrierInit DEF Init, ChainReady
<1>2. TypeOK /\ BarrierInv /\ ChainReady /\ [Next]_vars => BarrierInv' /\ ChainReady'
  BY BarrierKept, ReadyStep, InStepStep, ChainStep
<1>3. CountInv /\ ChainReady => CountedDevicesBacked
  BY DEF CountInv, CountedKept, ChainReady, CountedDevicesBacked
<1> QED
  BY <1>1, <1>2, <1>3, TypeCorrect, Counting, PTL DEF Spec

-----------------------------------------------------------------------------
(* The PVC request. *)

\* Sizes only grow, so what a pass has read and what has been asked for are no more
\* than the disks have now.
SizesInv ==
  \A e \in EC :
    /\ \A b \in BD : job[e].capacity[b] <= size[b]
    /\ \A b \in deviceSet[e] : pvcRequest[e] <= size[b]

Capacities == {[b \in BD |-> 0], size}

LEMMA OutdatedCapacity ==
  ASSUME TypeOK, NEW b \in BD
  PROVE  \A f \in EC : Outdated(job, b)[f].capacity = job[f].capacity
<1>1. \A f \in EC : Outdated(job, b)[f] = [job[f] EXCEPT !.current = @ \ {b}] /\ job[f] \in Job
  BY DEF Outdated, TypeOK
<1> QED
  BY <1>1 DEF Job

\* A pass keeps the sizes it has read, reads them anew, or forgets them.
LEMMA CapacityStep ==
  TypeOK /\ [Next]_vars =>
    \A f \in EC : job'[f].capacity = job[f].capacity \/ job'[f].capacity \in Capacities
<1> DEFINE Goal == \A f \in EC : job'[f].capacity = job[f].capacity
                                 \/ job'[f].capacity \in Capacities
<1> SUFFICES ASSUME TypeOK, [Next]_vars PROVE Goal
  OBVIOUS
<1>0. job \in [EC -> Job] /\ IdleJob.capacity = [b \in BD |-> 0]
  BY DEF TypeOK, IdleJob
<1>1. ASSUME NEW e \in EC, Begin(e)
      PROVE  Goal
  BY <1>0, <1>1 DEF Begin, Job
<1>2. ASSUME NEW e \in EC, NEW r, Finish(e, r)
      PROVE  Goal
  BY <1>0, <1>2 DEF Finish, Capacities
<1>3. ASSUME NEW e \in EC, NEW at, NEW todo, Proceed(e, at, todo)
      PROVE  Goal
  BY <1>0, <1>3 DEF Proceed, Job
<1>4. ASSUME NEW e \in EC, ListMatchingBlockDevices(e)
      PROVE  Goal
  <2>1. (\E r : Finish(e, r)) \/ (job'[e].capacity = size /\ \A f \in EC \ {e} : job'[f] = job[f])
    BY <1>4, ListEffect
  <2> QED
    BY <1>2, <2>1 DEF Capacities
<1>5. ASSUME NEW e \in EC, FinishAdoption(e)
      PROVE  Goal
  <2>1. (\E r : Finish(e, r))
        \/ job' = [job EXCEPT ![e].pc = "gateLVG", ![e].owned = {}, ![e].current = {}]
    BY <1>5 DEF FinishAdoption
  <2> QED
    BY <1>0, <1>2, <2>1 DEF Job
<1>6. ASSUME NEW e \in EC, GateLVG(e) \/ GateLLV(e) \/ GatePV(e)
      PROVE  Goal
  BY <1>2, <1>3, <1>6 DEF GateLVG, GateLLV, GatePV, Gate
<1>7. ASSUME NEW e \in EC, NEW b \in BD, AdoptBlockDevice(e, b)
      PROVE  Goal
  <2>1. CASE job' = [Outdated(job, b) EXCEPT ![e].pc = "lvg"]
    <3>1. \A f \in EC : Outdated(job, b)[f].capacity = job[f].capacity
      BY OutdatedCapacity
    <3>2. Outdated(job, b) \in [EC -> Job]
      BY <1>0, OutdatedEffect
    <3> DEFINE j == Outdated(job, b)
    <3>3. job' = [j EXCEPT ![e].pc = "lvg"]
      BY <2>1
    <3> HIDE DEF j
    <3>4. \A f \in EC : job'[f].capacity = j[f].capacity
      BY <3>2, <3>3 DEF Job, j
    <3> QED
      BY <3>1, <3>4 DEF j
  <2> QED
    BY <1>2, <1>3, <1>7, <2>1 DEF AdoptBlockDevice
<1>8. ASSUME NEW e \in EC, NEW b \in BD,
             UpsertLVG(e, b) \/ UpsertLLV(e, b) \/ UpsertPV(e, b) \/ UpsertCephCluster(e, b)
      PROVE  Goal
  BY <1>2, <1>3, <1>8 DEF UpsertLVG, UpsertLLV, UpsertPV, UpsertCephCluster
<1>9. ASSUME NEW e \in EC, Fail(e)
      PROVE  Goal
  BY <1>2, <1>9 DEF Fail
<1>10. ASSUME NEW b \in BD,
              \/ \E e \in EC : SncProvisionLVG(e, b)
              \/ BecomeConsumable(b) \/ Grow(b) \/ \E s \in BdStatus : ReportStatus(b, s)
              \/ \E o \in EC \cup {NoOwner} : Relabel(b, o)
       PROVE  Goal
  BY <1>10, OutdatedCapacity
  DEF SncProvisionLVG, BecomeConsumable, Grow, ReportStatus, Relabel
<1>11. ASSUME NEW e \in EC, NEW b \in BD, DriftNode(e, b)
       PROVE  Goal
  <2>1. PICK S : job' = [job EXCEPT ![e].nodeSel = S]
    BY <1>11 DEF DriftNode
  <2> QED
    BY <1>0, <2>1 DEF Job
<1>12. ASSUME NEW e \in EC, NEW b \in BD, DriftDevice(e, b)
       PROVE  Goal
  <2> DEFINE j == Outdated(job, b)
  <2>1. PICK S : job' = [j EXCEPT ![e].bdSel = S]
    BY <1>12 DEF DriftDevice
  <2>2. j \in [EC -> Job]
    BY <1>0, OutdatedEffect
  <2>3. \A f \in EC : j[f].capacity = job[f].capacity
    BY OutdatedCapacity
  <2> HIDE DEF j
  <2>4. \A f \in EC : job'[f].capacity = j[f].capacity
    BY <2>1, <2>2 DEF Job
  <2> QED
    BY <2>3, <2>4
<1>13. CASE Restart
  BY <1>0, <1>13 DEF Restart, Capacities
<1>14. CASE \/ \E e \in EC, b \in BD : \/ SncProvisionLLV(e, b) \/ PublishPV(e, b)
                                       \/ Degrade(e, b) \/ Decommission(e, b)
            \/ \E e \in EC, bds \in Selections : EditSelectors(e, bds)
            \/ UNCHANGED vars
  BY <1>14 DEF SncProvisionLLV, PublishPV, Degrade, Decommission, EditSelectors, vars
<1> QED
  BY <1>1, <1>4, <1>5, <1>6, <1>7, <1>8, <1>9, <1>10, <1>11, <1>12, <1>13, <1>14
  DEF Next, Controller, Step, Environment, Provision, Disturbance

LEMMA SizesStep == TypeOK /\ SizesInv /\ [Next]_vars => SizesInv'
<1> SUFFICES ASSUME TypeOK, SizesInv, [Next]_vars PROVE SizesInv'
  OBVIOUS
<1>0. /\ size \in [BD -> Nat] /\ pvcRequest \in [EC -> Nat] /\ deviceSet \in [EC -> SUBSET BD]
      /\ job \in [EC -> Job]
  BY DEF TypeOK
<1>1. \A b \in BD : size'[b] \in Nat /\ size[b] <= size'[b]
  <2>1. ASSUME NEW b \in BD, Grow(b)
        PROVE  \A c \in BD : size'[c] \in Nat /\ size[c] <= size'[c]
    BY <1>0, <2>1 DEF Grow
  <2>2. size' = size \/ \E b \in BD : Grow(b)
    <3>1. Controller => size' = size
      <4>1. ASSUME NEW e \in EC, Begin(e) \/ ListMatchingBlockDevices(e) \/ FinishAdoption(e)
                                 \/ GateLVG(e) \/ GateLLV(e) \/ GatePV(e)
            PROVE  size' = size
        BY <4>1 DEF Begin, ListMatchingBlockDevices, FinishAdoption, GateLVG, GateLLV, GatePV,
                    Gate, bdVars
      <4>2. ASSUME NEW e \in EC, NEW b \in BD,
                   \/ AdoptBlockDevice(e, b) \/ UpsertLVG(e, b) \/ UpsertLLV(e, b)
                   \/ UpsertPV(e, b) \/ UpsertCephCluster(e, b)
            PROVE  size' = size
        BY <4>2 DEF AdoptBlockDevice, UpsertLVG, UpsertLLV, UpsertPV, UpsertCephCluster, bdVars
      <4> QED
        BY <4>1, <4>2 DEF Controller, Step
    <3>2. Environment => size' = size
      BY DEF Environment, Provision, SncProvisionLVG, SncProvisionLLV, PublishPV,
             BecomeConsumable, bdVars
    <3>3. Disturbance => size' = size \/ \E b \in BD : Grow(b)
      BY DEF Disturbance, Degrade, ReportStatus, DriftNode, DriftDevice, EditSelectors,
             Relabel, Decommission, Fail, Restart, bdVars
    <3> QED
      BY <3>1, <3>2, <3>3 DEF Next, vars, bdVars
  <2> QED
    BY <1>0, <2>1, <2>2
<1>2. \A e \in EC, b \in BD : job'[e].capacity[b] <= size[b]
  <2> TAKE e \in EC, b \in BD
  <2>1. job'[e].capacity = job[e].capacity \/ job'[e].capacity \in Capacities
    BY CapacityStep
  <2> QED
    BY <1>0, <2>1 DEF SizesInv, Capacities
<1>3. \A e \in EC : \A b \in deviceSet'[e] : pvcRequest'[e] <= size[b] /\ pvcRequest'[e] \in Nat
                                             /\ b \in BD
  <2>1. ASSUME NEW e \in EC, NEW b \in BD, UpsertCephCluster(e, b)
        PROVE  \A f \in EC : \A c \in deviceSet'[f] :
                 pvcRequest'[f] <= size[c] /\ pvcRequest'[f] \in Nat /\ c \in BD
    <3>1. /\ deviceSet' = [deviceSet EXCEPT ![e] = job[e].selected]
          /\ pvcRequest' = [pvcRequest EXCEPT ![e] = job[e].capacity[b]]
          /\ \A c \in job[e].selected : job[e].capacity[b] <= job[e].capacity[c]
      BY <2>1 DEF UpsertCephCluster, IsSmallest
    <3>2. job[e].selected \in SUBSET BD /\ job[e].capacity \in [BD -> Nat]
      BY <1>0, JobFields
    <3>3. \A c \in job[e].selected : job[e].capacity[b] <= size[c]
      <4> TAKE c \in job[e].selected
      <4>1. job[e].capacity[c] <= size[c] /\ job[e].capacity[b] <= job[e].capacity[c]
        BY <3>1, <3>2 DEF SizesInv
      <4> QED
        BY <1>0, <3>2, <4>1
    <3> QED
      BY <1>0, <3>1, <3>2, <3>3 DEF SizesInv
  <2>2. UNCHANGED <<deviceSet, pvcRequest>> \/ \E e \in EC, b \in BD : UpsertCephCluster(e, b)
    BY CephWrites
  <2> QED
    BY <1>0, <2>1, <2>2 DEF SizesInv
<1>4. \A e \in EC, b \in BD : job'[e].capacity[b] \in Nat
  BY <1>0, TypeOKStep, JobFields DEF TypeOK
<1> QED
  BY <1>0, <1>1, <1>2, <1>3, <1>4 DEF SizesInv

\* The PVC request fits every PersistentVolume that is meant to bind, but for those of
\* disks that have grown since, for any sizes and any order in which disks join.
THEOREM PvcRequestsFit == Spec => []PvcRequestFits
<1>1. Init => SizesInv
  <2> SUFFICES ASSUME Init PROVE SizesInv
    OBVIOUS
  <2>1. \A e \in EC, b \in BD : job[e].capacity[b] = 0
    BY DEF Init, IdleJob
  <2>2. \A b \in BD : size[b] \in Nat
    BY ConstAssumption DEF Init
  <2>3. \A e \in EC : deviceSet[e] = {}
    BY DEF Init
  <2> QED
    BY <2>1, <2>2, <2>3 DEF SizesInv
<1>2. TypeOK /\ SizesInv => PvcRequestFits
  <2> SUFFICES ASSUME TypeOK, SizesInv, NEW e \in EC, NEW b \in deviceSet[e] \ touched,
                      ~(pvCapacity[e][b] < size[b])
               PROVE  pvcRequest[e] <= pvCapacity[e][b]
    BY DEF PvcRequestFits
  <2>1. b \in BD /\ pvcRequest[e] \in Nat /\ pvCapacity[e][b] \in Nat /\ size[b] \in Nat
    BY DEF TypeOK
  <2>2. pvcRequest[e] <= size[b]
    BY DEF SizesInv
  <2> QED
    BY <2>1, <2>2
<1> QED
  BY <1>1, <1>2, SizesStep, TypeCorrect, PTL DEF Spec

=============================================================================
