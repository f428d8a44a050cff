-------------------------- MODULE CredentialsProofs --------------------------
(***************************************************************************)
(* Proofs about Credentials, for any bounds.                               *)
(***************************************************************************)
EXTENDS Credentials, TLAPS

-----------------------------------------------------------------------------
(* The inductive invariant. *)

Issued(spec) == spec.fsid <= issued.fsid /\ spec.admin <= issued.key

\* Nothing that travels through copies and caches is newer than what Rook issued.
NothingAhead ==
  /\ secret.fsid <= issued.fsid
  /\ secret.admin <= issued.key /\ secret.legacy <= issued.key
  /\ Issued(ecc.spec) /\ Issued(eccSeen.spec)
  /\ Issued(eccJob.ecc) /\ Issued(eccJob.want)

\* A pass that has begun, and a cache that shows the backup, know that it exists;
\* a backup that does not exist has no identity to lose.
BackupExists ==
  /\ eccSeen.there \/ eccPc # "idle" => ecc.there
  /\ ~ecc.there => ecc.spec.fsid = 0

CredentialsInv == TypeOK /\ NothingAhead /\ BackupExists

-----------------------------------------------------------------------------
(* The pure functions. *)

\* The initial values.
LEMMA EmptyValues ==
  /\ NoSecret \in Secret /\ EmptySpec \in EccSpec /\ NoEcc \in Ecc
  /\ IdleEccJob \in EccJob /\ NoConnection \in Connection /\ IdleEcJob \in EcJob
<1>1. 0 \in Fsid /\ 0 \in Key /\ 0 \in 0..MaxMons
  BY ConstAssumption DEF Fsid, Key
<1>2. EmptySpec \in EccSpec /\ NoSecret \in Secret /\ NoConnection \in Connection
  BY <1>1 DEF EmptySpec, EccSpec, NoSecret, Secret, NoConnection, Connection
<1> QED
  BY <1>1, <1>2 DEF NoEcc, Ecc, IdleEccJob, EccJob, IdleEcJob, EcJob, Phase

LEMMA DesiredSpec ==
  ASSUME NEW s \in Secret
  PROVE  /\ DesiredECCSpec(s) \in EccSpec
         /\ DesiredECCSpec(s).fsid = s.fsid
         /\ DesiredECCSpec(s).admin \in {s.admin, s.legacy}
BY DEF DesiredECCSpec, Secret, EccSpec

\* A merge patch mixes two specs field by field.
LEMMA MergedSpec ==
  ASSUME NEW now \in EccSpec, NEW read \in EccSpec, NEW want \in EccSpec
  PROVE  /\ Merged(now, read, want) \in EccSpec
         /\ Merged(now, read, want).fsid \in {now.fsid, want.fsid}
         /\ Merged(now, read, want).admin \in {now.admin, want.admin}
BY DEF Merged, EccSpec

\* A status update leaves the spec alone.
LEMMA StatusOnly ==
  ASSUME NEW seen \in Ecc, eccJob \in EccJob
  PROVE  /\ WithStatus(seen) \in Ecc
         /\ WithStatus(seen).spec = seen.spec
         /\ WithStatus(seen).there = seen.there
<1>1. seen.gen \in Nat /\ eccJob.phase \in Phase /\ eccJob.bump \in BOOLEAN /\ seen.synced \in BOOLEAN
  BY DEF Ecc, EccJob
<1>2. (seen.synced \/ eccJob.bump \/ eccJob.phase = "Populated") \in BOOLEAN
  OBVIOUS
<1> QED
  BY <1>1, <1>2 DEF WithStatus, Ecc

-----------------------------------------------------------------------------
LEMMA CredentialsInit == Init => CredentialsInv
<1> SUFFICES ASSUME Init PROVE CredentialsInv
  OBVIOUS
<1> USE ConstAssumption
<1>1. TypeOK
  <2>1. /\ mons \in 0..MaxMons /\ issued \in [fsid : Fsid, key : Key]
        /\ removals \in 0..MaxRemovals /\ aborts \in 0..MaxAborts
    BY DEF Init, Fsid, Key
  <2>2. ecc.spec.fsid <= issued.fsid /\ ecc.spec.admin <= issued.key
    BY DEF Init, NoEcc, EmptySpec
  <2>3. eccPc \in EccPc /\ ecPc \in EcPc
    BY DEF Init, EccPc, EcPc
  <2> QED
    BY <2>1, <2>2, <2>3, EmptyValues DEF Init, TypeOK
<1>2. NothingAhead
  BY DEF Init, NothingAhead, Issued, NoSecret, NoEcc, EmptySpec, IdleEccJob
<1>3. BackupExists
  BY DEF Init, BackupExists, NoEcc, EmptySpec
<1> QED
  BY <1>1, <1>2, <1>3 DEF CredentialsInv

\* The steps of the ECC reconciler.
LEMMA EccStepInv ==
  ASSUME CredentialsInv, EccStep
  PROVE  CredentialsInv'
<1> USE ConstAssumption DEF CredentialsInv
<1>1. CASE GetOrCreateECC
  <2>1. /\ ecc' = ecc \/ ecc' = [NoEcc EXCEPT !.there = TRUE]
        /\ eccJob' = eccJob \/ eccJob' = [IdleEccJob EXCEPT !.ecc = eccSeen.spec]
        /\ eccPc' \in {eccPc, "secret"} /\ eccQ' \in BOOLEAN
    BY <1>1 DEF GetOrCreateECC, eccPass, TypeOK
  <2>2. /\ ecc' \in Ecc /\ ecc'.spec \in {ecc.spec, EmptySpec}
        /\ eccJob' \in EccJob /\ eccPc' \in EccPc
        /\ eccJob'.ecc \in {eccJob.ecc, eccSeen.spec}
        /\ eccJob'.want \in {eccJob.want, EmptySpec}
    <3>1. ecc' \in Ecc /\ ecc'.spec \in {ecc.spec, EmptySpec}
      BY <2>1, EmptyValues DEF TypeOK, Ecc, NoEcc
    <3>2. /\ eccJob' \in EccJob /\ eccJob'.ecc \in {eccJob.ecc, eccSeen.spec}
          /\ eccJob'.want \in {eccJob.want, EmptySpec}
      BY <2>1, EmptyValues DEF TypeOK, EccJob, Ecc, IdleEccJob
    <3> QED
      BY <2>1, <3>1, <3>2 DEF TypeOK, EccPc
  <2>3. Issued(EmptySpec)
    BY DEF Issued, EmptySpec, TypeOK, Fsid, Key
  <2>4. Issued(ecc.spec)' /\ Issued(eccJob.ecc)' /\ Issued(eccJob.want)'
    BY <1>1, <2>2, <2>3 DEF GetOrCreateECC, Issued, NothingAhead, rookVars
  <2>5. TypeOK'
    BY <1>1, <2>1, <2>2, <2>4 DEF GetOrCreateECC, TypeOK, Issued, ecPass, csiVars, rookVars
  <2>6. NothingAhead'
    BY <1>1, <2>4 DEF GetOrCreateECC, NothingAhead, Issued, rookVars
  <2>7. BackupExists'
    BY <1>1 DEF GetOrCreateECC, BackupExists, eccPass, NoEcc, EmptySpec
  <2> QED
    BY <2>5, <2>6, <2>7
<1>2. CASE ReadSecret
  <2>1. secret \in Secret
    BY DEF TypeOK
  <2>2. /\ DesiredECCSpec(secret) \in EccSpec
        /\ DesiredECCSpec(secret).fsid = secret.fsid
        /\ DesiredECCSpec(secret).admin \in {secret.admin, secret.legacy}
    BY <2>1, DesiredSpec
  <2>3. /\ eccJob' \in EccJob /\ eccPc' \in EccPc
        /\ eccJob'.ecc = eccJob.ecc /\ eccJob'.want = DesiredECCSpec(secret)
    BY <1>2, <2>2 DEF ReadSecret, TypeOK, EccJob, EccPc, Phase
  <2>4. Issued(eccJob.ecc)' /\ Issued(eccJob.want)'
    BY <1>2, <2>2, <2>3 DEF ReadSecret, Issued, NothingAhead, rookVars
  <2>5. TypeOK'
    BY <1>2, <2>3 DEF ReadSecret, TypeOK, ecPass, csiVars, rookVars
  <2>6. NothingAhead'
    BY <1>2, <2>4 DEF ReadSecret, NothingAhead, Issued, rookVars
  <2>7. BackupExists'
    BY <1>2 DEF ReadSecret, BackupExists
  <2> QED
    BY <2>5, <2>6, <2>7
<1>3. CASE PatchECC
  <2> DEFINE new == Merged(ecc.spec, eccJob.ecc, eccJob.want)
  <2>1. ecc.spec \in EccSpec /\ eccJob.ecc \in EccSpec /\ eccJob.want \in EccSpec /\ ecc.gen \in Nat
    BY DEF TypeOK, Ecc, EccJob
  <2>2. /\ new \in EccSpec /\ new.fsid \in {ecc.spec.fsid, eccJob.want.fsid}
        /\ new.admin \in {ecc.spec.admin, eccJob.want.admin}
    BY <2>1, MergedSpec
  <2>3. Issued(new)
    BY <2>2 DEF NothingAhead, Issued
  <2> HIDE DEF new
  <2>4. /\ ecc' \in Ecc /\ ecc'.there = ecc.there
        /\ ecc'.spec = ecc.spec \/ ecc'.spec = new
    <3>1. \/ ecc' = ecc
          \/ ecc' = [ecc EXCEPT !.spec = new,
                                !.gen = IF new = ecc.spec THEN @ ELSE @ + 1]
      BY <1>3 DEF PatchECC, new
    <3>2. CASE ecc' = ecc
      BY <3>2 DEF TypeOK
    <3>3. CASE ecc' = [ecc EXCEPT !.spec = new,
                                  !.gen = IF new = ecc.spec THEN @ ELSE @ + 1]
      <4> DEFINE n == IF new = ecc.spec THEN ecc.gen ELSE ecc.gen + 1
      <4>1. n \in Nat
        BY <2>1
      <4>2. ecc' = [[ecc EXCEPT !.spec = new] EXCEPT !.gen = n]
        BY <3>3 DEF TypeOK, Ecc
      <4> HIDE DEF n
      <4> QED
        BY <2>2, <4>1, <4>2 DEF TypeOK, Ecc
    <3> QED
      BY <3>1, <3>2, <3>3
  <2>5. /\ eccJob' \in EccJob /\ eccPc' \in EccPc /\ eccQ' \in BOOLEAN
        /\ eccJob'.ecc = eccJob.ecc /\ eccJob'.want = eccJob.want
    BY <1>3 DEF PatchECC, TypeOK, EccJob, EccPc, Phase
  <2>6. Issued(ecc.spec)' /\ Issued(eccJob.ecc)' /\ Issued(eccJob.want)'
    BY <1>3, <2>3, <2>4, <2>5 DEF PatchECC, Issued, NothingAhead, rookVars
  <2>7. TypeOK'
    BY <1>3, <2>4, <2>5, <2>6 DEF PatchECC, TypeOK, Issued, ecPass, csiVars, rookVars
  <2>8. NothingAhead'
    BY <1>3, <2>6 DEF PatchECC, NothingAhead, Issued, rookVars
  <2>9. BackupExists'
    BY <1>3, <2>4 DEF PatchECC, BackupExists
  <2> QED
    BY <2>7, <2>8, <2>9
<1>4. CASE UpdateECCStatus
  <2>1. ecc' \in Ecc /\ ecc'.spec = ecc.spec /\ ecc'.there = ecc.there
    BY <1>4, StatusOnly DEF UpdateECCStatus, TypeOK
  <2>2. eccJob' \in EccJob /\ eccPc' \in EccPc /\ eccQ' \in BOOLEAN
    BY <1>4, EmptyValues DEF UpdateECCStatus, TypeOK, EccPc
  <2>3. Issued(ecc.spec)' /\ Issued(eccJob.ecc)' /\ Issued(eccJob.want)'
    <3>1. eccJob'.ecc = EmptySpec /\ eccJob'.want = EmptySpec /\ issued' = issued
      BY <1>4 DEF UpdateECCStatus, IdleEccJob, rookVars
    <3>2. Issued(EmptySpec)
      BY DEF Issued, EmptySpec, TypeOK, Fsid, Key
    <3> QED
      BY <2>1, <3>1, <3>2 DEF Issued, NothingAhead
  <2>4. TypeOK'
    BY <1>4, <2>1, <2>2, <2>3 DEF UpdateECCStatus, TypeOK, Issued, ecPass, csiVars, rookVars
  <2>5. NothingAhead'
    BY <1>4, <2>3 DEF UpdateECCStatus, NothingAhead, Issued, rookVars
  <2>6. BackupExists'
    BY <1>4, <2>1 DEF UpdateECCStatus, BackupExists
  <2> QED
    BY <2>4, <2>5, <2>6
<1> QED
  BY <1>1, <1>2, <1>3, <1>4 DEF EccStep

\* The steps of the EC reconciler, and passes cut short.
LEMMA EcStepInv ==
  ASSUME CredentialsInv, EcStep \/ EccAbort \/ EcAbort
  PROVE  CredentialsInv'
<1> USE ConstAssumption DEF CredentialsInv
<1>1. CASE EcStep
  <2>1. /\ ecJob' \in EcJob /\ ecPc' \in EcPc /\ ecQ' \in BOOLEAN
        /\ conn' \in Connection /\ created' \in BOOLEAN /\ ready' \in BOOLEAN
    <3>1. CASE EnsureCredentials
      BY <3>1, EmptyValues
      DEF EnsureCredentials, TypeOK, EcJob, IdleEcJob, EcPc, Secret, csiVars
    <3>2. CASE EnsureCsiCeph
      <4>1. /\ ecJob.fsid \in Fsid /\ ecJob.mons \in 0..MaxMons /\ eccSeen.spec.admin \in Key
        BY DEF TypeOK, EcJob, Ecc, EccSpec
      <4>2. conn' \in Connection
        BY <3>2, <4>1 DEF EnsureCsiCeph, TypeOK, Connection
      <4>3. ecJob' \in EcJob
        BY <3>2 DEF EnsureCsiCeph, TypeOK, EcJob
      <4> QED
        BY <3>2, <4>2, <4>3 DEF EnsureCsiCeph, TypeOK, EcPc
    <3>3. CASE FinishReconcile
      <4>1. ecJob.done \in BOOLEAN
        BY DEF TypeOK, EcJob
      <4> QED
        BY <3>3, <4>1, EmptyValues DEF FinishReconcile, TypeOK, EcPc, csiVars
    <3> QED
      BY <1>1, <3>1, <3>2, <3>3 DEF EcStep
  <2>2. /\ UNCHANGED <<rookVars, eccSeen, ecc, eccQ, eccPass, aborts>>
    BY <1>1 DEF EcStep, EnsureCredentials, EnsureCsiCeph, FinishReconcile
  <2>3. TypeOK'
    BY <2>1, <2>2 DEF TypeOK, rookVars, eccPass
  <2>4. NothingAhead' /\ BackupExists'
    BY <2>2 DEF NothingAhead, Issued, BackupExists, rookVars, eccPass
  <2> QED
    BY <2>3, <2>4
<1>2. CASE EccAbort
  <2>1. /\ eccJob' \in EccJob /\ eccPc' \in EccPc /\ eccQ' \in BOOLEAN /\ aborts' \in 0..MaxAborts
        /\ Issued(eccJob.ecc)' /\ Issued(eccJob.want)'
    BY <1>2 DEF EccAbort, TypeOK, EccJob, IdleEccJob, EccSpec, EmptySpec, Phase, EccPc, Fsid,
                Key, Issued, rookVars
  <2>2. TypeOK'
    BY <1>2, <2>1 DEF EccAbort, TypeOK, ecPass, csiVars, rookVars
  <2>3. NothingAhead' /\ BackupExists'
    BY <1>2, <2>1 DEF EccAbort, NothingAhead, Issued, BackupExists, rookVars
  <2> QED
    BY <2>2, <2>3
<1>3. CASE EcAbort
  <2>1. ecJob' \in EcJob /\ ecPc' \in EcPc /\ aborts' \in 0..MaxAborts
    BY <1>3 DEF EcAbort, TypeOK, EcJob, IdleEcJob, EcPc, Fsid
  <2>2. TypeOK'
    BY <1>3, <2>1 DEF EcAbort, TypeOK, eccPass, csiVars, rookVars
  <2>3. NothingAhead' /\ BackupExists'
    BY <1>3 DEF EcAbort, NothingAhead, Issued, BackupExists, rookVars, eccPass
  <2> QED
    BY <2>2, <2>3
<1> QED
  BY <1>1, <1>2, <1>3

\* The cache, Rook and csi-ceph.
LEMMA WorldInv ==
  ASSUME CredentialsInv, SeeECC \/ Rook \/ CsiCephCreates
  PROVE  CredentialsInv'
<1> USE ConstAssumption DEF CredentialsInv
<1>1. CASE SeeECC
  <2>1. TypeOK'
    BY <1>1 DEF SeeECC, TypeOK, eccPass, ecPass, csiVars, rookVars
  <2>2. NothingAhead' /\ BackupExists'
    BY <1>1 DEF SeeECC, NothingAhead, Issued, BackupExists, rookVars, eccPass
  <2> QED
    BY <2>1, <2>2
<1>2. CASE RookCreates \/ RookRotates \/ SecretRemoved
  <2>1. /\ secret' \in Secret /\ issued' \in [fsid : Fsid, key : Key]
        /\ removals' \in 0..MaxRemovals
        /\ secret'.fsid <= issued'.fsid
        /\ secret'.admin <= issued'.key /\ secret'.legacy <= issued'.key
        /\ issued.fsid <= issued'.fsid /\ issued.key <= issued'.key
    <3>1. CASE RookCreates
      BY <3>1 DEF RookCreates, TypeOK, Secret, Fsid, Key
    <3>2. CASE RookRotates
      BY <3>2 DEF RookRotates, TypeOK, Secret, Fsid, Key, NothingAhead
    <3>3. CASE SecretRemoved
      BY <3>3 DEF SecretRemoved, TypeOK, Secret, NoSecret, Fsid, Key
    <3> QED
      BY <1>2, <3>1, <3>2, <3>3
  <2>2. /\ eccQ' \in BOOLEAN /\ ecQ' = TRUE
        /\ UNCHANGED <<mons, eccSeen, ecc, eccPass, csiVars, ecPass, ready, aborts>>
    BY <1>2 DEF RookCreates, RookRotates, SecretRemoved, SecretEvent, TypeOK, Ecc
  <2>3. \A spec \in EccSpec : Issued(spec) => spec.fsid <= issued'.fsid /\ spec.admin <= issued'.key
    BY <2>1 DEF Issued, EccSpec, TypeOK, Fsid, Key
  <2>4. ecc.spec \in EccSpec /\ eccSeen.spec \in EccSpec /\ eccJob.ecc \in EccSpec /\ eccJob.want \in EccSpec
    BY DEF TypeOK, Ecc, EccJob
  <2>5. NothingAhead'
    BY <2>1, <2>2, <2>3, <2>4 DEF NothingAhead, Issued, eccPass
  <2>6. TypeOK'
    BY <2>1, <2>2, <2>5 DEF TypeOK, NothingAhead, Issued, eccPass, ecPass, csiVars
  <2>7. BackupExists'
    BY <2>2 DEF BackupExists, eccPass
  <2> QED
    BY <2>5, <2>6, <2>7
<1>3. CASE MonsMove \/ CsiCephCreates
  <2>1. mons' \in 0..MaxMons /\ created' \in BOOLEAN
    <3>1. CASE MonsMove
      BY <3>1 DEF MonsMove, TypeOK, csiVars
    <3>2. CASE CsiCephCreates
      BY <3>2 DEF CsiCephCreates, TypeOK, rookVars
    <3> QED
      BY <1>3, <3>1, <3>2
  <2>2. TypeOK'
    BY <1>3, <2>1 DEF MonsMove, CsiCephCreates, TypeOK, eccPass, ecPass, csiVars, rookVars
  <2>3. NothingAhead' /\ BackupExists'
    BY <1>3 DEF MonsMove, CsiCephCreates, NothingAhead, Issued, BackupExists, eccPass, rookVars
  <2> QED
    BY <2>2, <2>3
<1> QED
  BY <1>1, <1>2, <1>3 DEF Rook

LEMMA CredentialsStep == CredentialsInv /\ [Next]_vars => CredentialsInv'
<1> SUFFICES ASSUME CredentialsInv, [Next]_vars PROVE CredentialsInv'
  OBVIOUS
<1>1. CASE UNCHANGED vars
  BY <1>1 DEF CredentialsInv, TypeOK, NothingAhead, Issued, BackupExists, vars, rookVars,
              eccPass, ecPass, csiVars
<1> QED
  BY <1>1, EccStepInv, EcStepInv, WorldInv DEF Next

\* Nothing that travels is newer than what Rook issued, and no pass patches a
\* backup that does not exist.
THEOREM CredentialsInvariant == Spec => []CredentialsInv
<1> QED
  BY CredentialsInit, CredentialsStep, PTL DEF Spec

\* Every variable keeps its type; the backup holds no identity and no key that
\* Rook has not issued.
THEOREM CredentialsTypeCorrect == Spec => []TypeOK
<1>1. CredentialsInv => TypeOK
  BY DEF CredentialsInv
<1> QED
  BY <1>1, CredentialsInvariant, PTL

\* Only a patch of the spec could change the identity, and the webhook judges it
\* against the object as it is, not against the copy the patch was made from.
LEMMA IdentityStep ==
  ASSUME CredentialsInv, [Next]_vars, ecc.spec.fsid # 0
  PROVE  ecc'.spec.fsid = ecc.spec.fsid
<1> USE DEF CredentialsInv
<1>1. CASE GetOrCreateECC
  BY <1>1 DEF GetOrCreateECC, BackupExists
<1>2. CASE PatchECC
  <2> DEFINE new == Merged(ecc.spec, eccJob.ecc, eccJob.want)
  <2>1. CASE ElasticClusterCredentialValidate(ecc.spec, new) /\ ecc'.spec = new
    BY <2>1 DEF ElasticClusterCredentialValidate
  <2> HIDE DEF new
  <2>2. CASE ecc' = ecc
    BY <2>2
  <2> QED
    BY <1>2, <2>1, <2>2 DEF PatchECC, new, TypeOK, Ecc
<1>3. CASE UpdateECCStatus
  BY <1>3, StatusOnly DEF UpdateECCStatus, TypeOK
<1>4. CASE ReadSecret \/ EcStep \/ EccAbort \/ EcAbort \/ SeeECC \/ Rook \/ CsiCephCreates
  BY <1>4 DEF ReadSecret, EcStep, EnsureCredentials, EnsureCsiCeph, FinishReconcile, EccAbort,
              EcAbort, SeeECC, Rook, RookCreates, RookRotates, SecretRemoved, SecretEvent,
              MonsMove, CsiCephCreates
<1>5. CASE UNCHANGED vars
  BY <1>5 DEF vars
<1> QED
  BY <1>1, <1>2, <1>3, <1>4, <1>5 DEF Next, EccStep

\* The identity of a backup is set once and for all, for any history of Secrets,
\* keys, lost passes and late caches.
THEOREM IdentityIsKept == Spec => IdentityKept
<1>1. CredentialsInv /\ [Next]_vars => [ecc.spec.fsid # 0 => ecc'.spec.fsid = ecc.spec.fsid]_vars
  BY IdentityStep
<1> QED
  BY <1>1, CredentialsInvariant, PTL DEF Spec, IdentityKept

-----------------------------------------------------------------------------
(* The phase Populated. *)

\* The generation tells a spec from the later ones.
GenerationsTell ==
  /\ ~ecc.there => ecc.gen = 0
  /\ ~eccSeen.there => eccSeen.gen = 0
  /\ eccSeen.gen <= ecc.gen
  /\ eccSeen.there /\ eccSeen.gen = ecc.gen => eccSeen.spec = ecc.spec

\* The reconciler is to run again, at the latest when the cache has caught up.
WillRun == eccQ \/ eccSeen.gen # ecc.gen \/ (ecc.there /\ ~eccSeen.there)

\* Where the pass at hand is the last one for now, its copy is that of the API server
\* and what it leaves is complete or is not called Populated.
PassReliable ==
  \/ WillRun
  \/ /\ eccPc = "idle" => (ecc.phase = "Populated" => Complete(ecc.spec))
     /\ eccPc \in {"secret", "patch"} => eccJob.ecc = ecc.spec
     /\ eccPc = "patch" => Complete(eccJob.want)
     /\ eccPc = "status" => Complete(ecc.spec)

MirrorInv == GenerationsTell /\ PassReliable

\* A patch made from the current copy writes what was wanted.
LEMMA MergedCurrent ==
  ASSUME NEW now \in EccSpec, NEW want \in EccSpec
  PROVE  Merged(now, now, want) = want
BY DEF Merged, EccSpec

LEMMA MirrorPass ==
  ASSUME CredentialsInv, MirrorInv, EccStep
  PROVE  MirrorInv'
<1> USE DEF CredentialsInv, MirrorInv
<1>0. /\ ecc \in Ecc /\ eccSeen \in Ecc /\ eccJob \in EccJob /\ eccQ \in BOOLEAN
      /\ ecc.gen \in Nat /\ eccSeen.gen \in Nat /\ ecc.spec \in EccSpec
      /\ eccJob.want \in EccSpec
  BY DEF TypeOK, Ecc, EccJob
<1>1. CASE GetOrCreateECC
  <2>1. CASE eccSeen.there
    <3>1. /\ eccJob'.ecc = eccSeen.spec /\ eccPc' = "secret"
          /\ UNCHANGED <<ecc, eccSeen>>
      BY <1>1, <2>1 DEF GetOrCreateECC, IdleEccJob
    <3> QED
      BY <2>1, <3>1 DEF GenerationsTell, PassReliable, WillRun
  <2>2. CASE ~eccSeen.there /\ ~ecc.there
    <3>1. ecc'.there /\ ecc'.gen = 0 /\ UNCHANGED eccSeen
      BY <1>1, <2>2 DEF GetOrCreateECC, NoEcc
    <3> QED
      BY <2>2, <3>1 DEF GenerationsTell, PassReliable, WillRun
  <2>3. CASE ~eccSeen.there /\ ecc.there
    BY <1>1, <2>3 DEF GetOrCreateECC, GenerationsTell, PassReliable, WillRun
  <2> QED
    BY <2>1, <2>2, <2>3
<1>2. CASE ReadSecret
  <2> DEFINE want == DesiredECCSpec(secret)
  <2>1. /\ eccPc = "secret" /\ eccJob'.want = want /\ eccJob'.ecc = eccJob.ecc
        /\ eccPc' = IF secret.there /\ eccJob.ecc # want THEN "patch" ELSE "status"
        /\ eccQ' = (eccQ \/ ~secret.there \/ ~Complete(want))
        /\ UNCHANGED <<ecc, eccSeen>>
    BY <1>0, <1>2 DEF ReadSecret, EccJob
  <2> HIDE DEF want
  <2>2. GenerationsTell'
    BY <2>1 DEF GenerationsTell
  <2>3. WillRun \/ ~secret.there \/ ~Complete(want) => WillRun'
    BY <2>1 DEF WillRun
  <2>4. CASE ~WillRun /\ secret.there /\ Complete(want)
    <3>1. eccJob.ecc = ecc.spec
      BY <2>1, <2>4 DEF PassReliable
    <3>2. CASE eccJob.ecc = want
      <4>1. eccPc' = "status" /\ ecc'.spec = want
        BY <2>1, <3>1, <3>2
      <4>2. Complete(ecc'.spec)
        BY <2>4, <4>1
      <4> QED
        BY <2>2, <4>1, <4>2 DEF PassReliable
    <3>3. CASE eccJob.ecc # want
      <4>1. eccPc' = "patch" /\ eccJob'.ecc = ecc'.spec
        BY <2>1, <2>4, <3>1, <3>3
      <4>2. Complete(eccJob'.want)
        BY <2>1, <2>4
      <4> QED
        BY <2>2, <4>1, <4>2 DEF PassReliable
    <3> QED
      BY <3>2, <3>3
  <2> QED
    BY <2>2, <2>3, <2>4 DEF PassReliable
<1>3. CASE PatchECC
  <2> DEFINE new == Merged(ecc.spec, eccJob.ecc, eccJob.want)
  <2>1. UNCHANGED eccSeen /\ eccPc = "patch" /\ eccPc' = "status"
    BY <1>3 DEF PatchECC
  <2>2. CASE ElasticClusterCredentialValidate(ecc.spec, new) /\ ecc'.spec = new
             /\ ecc'.gen = (IF new = ecc.spec THEN ecc.gen ELSE ecc.gen + 1)
             /\ ecc'.there = ecc.there /\ eccQ' = eccQ
    <3>1. GenerationsTell'
      BY <1>0, <2>1, <2>2 DEF GenerationsTell, PatchECC, BackupExists
    <3>2. WillRun => WillRun'
      BY <1>0, <2>1, <2>2 DEF WillRun, GenerationsTell
    <3>3. ASSUME ~WillRun PROVE Complete(ecc'.spec)
      <4>1. eccJob.ecc = ecc.spec /\ Complete(eccJob.want)
        BY <2>1, <3>3 DEF PassReliable
      <4>2. new = eccJob.want
        BY <1>0, <4>1, MergedCurrent
      <4> QED
        BY <2>2, <4>1, <4>2
    <3> QED
      BY <2>1, <3>1, <3>2, <3>3 DEF PassReliable
  <2>3. CASE eccQ' /\ ecc' = ecc
    BY <2>1, <2>3 DEF GenerationsTell, PassReliable, WillRun
  <2>4. \/ /\ ElasticClusterCredentialValidate(ecc.spec, new)
           /\ ecc' = [ecc EXCEPT !.spec = new,
                                 !.gen = IF new = ecc.spec THEN @ ELSE @ + 1]
           /\ eccQ' = eccQ
        \/ eccQ' /\ ecc' = ecc
    BY <1>3 DEF PatchECC
  <2> HIDE DEF new
  <2>5. CASE /\ ElasticClusterCredentialValidate(ecc.spec, new)
             /\ ecc' = [ecc EXCEPT !.spec = new,
                                   !.gen = IF new = ecc.spec THEN @ ELSE @ + 1]
             /\ eccQ' = eccQ
    BY <1>0, <2>2, <2>5 DEF Ecc
  <2> QED
    BY <2>3, <2>4, <2>5
<1>4. CASE UpdateECCStatus
  <2>1. /\ eccPc = "status" /\ eccPc' = "idle" /\ UNCHANGED eccSeen
        /\ eccQ' = eccQ \/ eccQ'
    BY <1>4 DEF UpdateECCStatus
  <2>2. ecc' = ecc \/ (eccSeen = ecc /\ ecc' = WithStatus(eccSeen))
    BY <1>4 DEF UpdateECCStatus
  <2>3. ecc'.spec = ecc.spec /\ ecc'.gen = ecc.gen /\ ecc'.there = ecc.there
    BY <1>0, <2>2 DEF WithStatus, Ecc
  <2> QED
    BY <2>1, <2>3 DEF GenerationsTell, PassReliable, WillRun
<1> QED
  BY <1>1, <1>2, <1>3, <1>4 DEF EccStep

LEMMA MirrorStep == CredentialsInv /\ MirrorInv /\ [Next]_vars => MirrorInv'
<1> SUFFICES ASSUME CredentialsInv, MirrorInv, [Next]_vars PROVE MirrorInv'
  OBVIOUS
<1> USE DEF MirrorInv
<1>1. CASE EccStep
  BY <1>1, MirrorPass
<1>2. CASE EccAbort
  BY <1>2 DEF EccAbort, GenerationsTell, PassReliable, WillRun
<1>3. CASE SeeECC
  <2>1. eccSeen' = ecc /\ ecc' = ecc /\ UNCHANGED eccPass
        /\ eccQ' = (eccQ \/ ~eccSeen.there \/ eccSeen.gen # ecc.gen)
    BY <1>3 DEF SeeECC
  <2>2. GenerationsTell'
    BY <2>1 DEF GenerationsTell, CredentialsInv, TypeOK, Ecc
  <2>3. WillRun => eccQ'
    BY <2>1 DEF WillRun
  <2> QED
    BY <2>1, <2>2, <2>3 DEF PassReliable, WillRun, eccPass
<1>4. CASE EcStep \/ EcAbort \/ Rook \/ CsiCephCreates
  <2>1. UNCHANGED <<ecc, eccSeen, eccPc, eccJob>> /\ (eccQ => eccQ')
    <3>1. UNCHANGED <<ecc, eccSeen, eccPc, eccJob>> /\ (eccQ' = eccQ \/ SecretEvent)
      BY <1>4
      DEF EcStep, EnsureCredentials, EnsureCsiCeph, FinishReconcile, EcAbort, Rook,
          RookCreates, RookRotates, SecretRemoved, SecretEvent, MonsMove, CsiCephCreates,
          eccPass
    <3>2. ASSUME SecretEvent, eccQ PROVE eccQ'
      <4>1. eccQ' = (eccQ \/ eccSeen.there)
        BY <3>2 DEF SecretEvent
      <4> QED
        BY <3>2, <4>1, Zenon
    <3> QED
      BY <3>1, <3>2
  <2> QED
    BY <2>1 DEF GenerationsTell, PassReliable, WillRun
<1>5. CASE UNCHANGED vars
  BY <1>5 DEF vars, eccPass, GenerationsTell, PassReliable, WillRun
<1> QED
  BY <1>1, <1>2, <1>3, <1>4, <1>5 DEF Next

\* A backup that the settled reconciler calls Populated is complete, though its patches
\* are made from outdated copies and passes are lost.
THEOREM PopulatedIsComplete == Spec => []PopulatedMeansComplete
<1>1. Init => MirrorInv
  BY DEF Init, MirrorInv, GenerationsTell, PassReliable, WillRun, NoEcc
<1>2. CredentialsInv /\ MirrorInv => PopulatedMeansComplete
  <2> SUFFICES ASSUME CredentialsInv, MirrorInv, eccPc = "idle", ~eccQ, eccSeen = ecc,
                      ecc.phase = "Populated"
               PROVE  Complete(ecc.spec)
    BY DEF PopulatedMeansComplete, Complete
  <2>1. ~WillRun
    BY DEF WillRun
  <2> QED
    BY <2>1 DEF MirrorInv, PassReliable
<1> QED
  BY <1>1, <1>2, MirrorStep, CredentialsInvariant, PTL DEF Spec

-----------------------------------------------------------------------------
(* No wake-up is lost. *)

\* The backup is that of the Secret, and complete.
Mirrored ==
  /\ secret.there /\ Complete(DesiredECCSpec(secret))
  /\ ecc.spec = DesiredECCSpec(secret)

\* A reconciler that is not to run again has mirrored the Secret of now, or its pass
\* is about to.
BackupCurrent ==
  \/ WillRun
  \/ /\ eccPc \in {"idle", "status"} => Mirrored
     /\ eccPc = "patch" => /\ secret.there /\ Complete(DesiredECCSpec(secret))
                           /\ eccJob.want = DesiredECCSpec(secret)

\* The connection carries the identity and the monitors of now and the key of the
\* cached backup.
Tells == conn = [fsid |-> secret.fsid, key |-> eccSeen.spec.admin, mons |-> mons]

\* The same of the pass of the cluster.
ConnCurrent ==
  /\ ecJob.done => ecPc = "publish"
  /\ ~ecQ => /\ ecPc = "idle" => ready /\ Tells
             /\ ecPc = "csiceph" => ecJob.fsid = secret.fsid /\ ecJob.mons = mons
             /\ ecJob.done => Tells

\* The Secret changes: a cached backup hears of it, one that is not in the cache
\* yet is still to be.
LEMMA BackupHears ==
  ASSUME CredentialsInv, BackupCurrent, SecretEvent
  PROVE  BackupCurrent'
<1>1. /\ UNCHANGED <<eccSeen, ecc, eccPc, eccJob>>
      /\ eccQ' = (eccQ \/ eccSeen.there)
  BY DEF SecretEvent, eccPass
<1>2. CASE eccSeen.there
  <2>1. eccQ'
    BY <1>1, <1>2, Zenon
  <2> QED
    BY <2>1 DEF BackupCurrent, WillRun
<1>3. CASE ~eccSeen.there /\ ecc.there
  BY <1>1, <1>3 DEF BackupCurrent, WillRun
<1>4. CASE ~eccSeen.there /\ ~ecc.there
  <2>1. eccPc = "idle" /\ ~Mirrored
    BY <1>4 DEF CredentialsInv, BackupExists, Mirrored, Complete
  <2>2. WillRun
    BY <2>1 DEF BackupCurrent
  <2>3. eccQ \/ eccSeen.gen # ecc.gen
    BY <1>4, <2>2 DEF WillRun
  <2>4. eccQ => eccQ'
    BY <1>1, Zenon
  <2> QED
    BY <1>1, <2>3, <2>4 DEF BackupCurrent, WillRun
<1> QED
  BY <1>2, <1>3, <1>4

LEMMA BackupPass ==
  ASSUME CredentialsInv, MirrorInv, BackupCurrent, EccStep
  PROVE  BackupCurrent'
<1> USE DEF CredentialsInv
<1>0. /\ ecc \in Ecc /\ eccSeen \in Ecc /\ eccJob \in EccJob
      /\ ecc.gen \in Nat /\ eccSeen.gen \in Nat /\ ecc.spec \in EccSpec
      /\ eccJob.want \in EccSpec /\ secret' = secret
  BY DEF TypeOK, Ecc, EccJob, EccStep, GetOrCreateECC, ReadSecret, PatchECC, UpdateECCStatus,
         rookVars
<1>1. CASE GetOrCreateECC
  <2>1. CASE eccPc' = "secret"
    BY <2>1 DEF BackupCurrent
  <2>2. CASE ~eccSeen.there /\ ecc.there /\ UNCHANGED <<ecc, eccSeen, eccPass, eccQ>>
    BY <2>2 DEF BackupCurrent, WillRun
  <2> QED
    BY <1>1, <2>1, <2>2 DEF GetOrCreateECC
<1>2. CASE ReadSecret
  <2> DEFINE want == DesiredECCSpec(secret)
  <2>1. /\ eccPc = "secret" /\ eccJob'.want = want
        /\ eccPc' = IF secret.there /\ eccJob.ecc # want THEN "patch" ELSE "status"
        /\ eccQ' = (eccQ \/ ~secret.there \/ ~Complete(want))
        /\ UNCHANGED <<ecc, eccSeen>>
    BY <1>0, <1>2 DEF ReadSecret, EccJob
  <2>2. CASE WillRun \/ ~secret.there \/ ~Complete(want)
    <3>1. WillRun'
      BY <2>1, <2>2 DEF WillRun
    <3> QED
      BY <3>1 DEF BackupCurrent
  <2>3. CASE ~WillRun /\ secret.there /\ Complete(want)
    <3>1. eccJob.ecc = ecc.spec
      BY <2>1, <2>3 DEF MirrorInv, PassReliable
    <3>2. Complete(want)'
      BY <1>0, <2>3
    <3> QED
      BY <1>0, <2>1, <2>3, <3>1, <3>2 DEF BackupCurrent, Mirrored
  <2> QED
    BY <2>2, <2>3
<1>3. CASE PatchECC
  <2> DEFINE new == Merged(ecc.spec, eccJob.ecc, eccJob.want)
             gen == IF new = ecc.spec THEN ecc.gen ELSE ecc.gen + 1
  <2>1. UNCHANGED eccSeen /\ eccPc = "patch" /\ eccPc' = "status"
    BY <1>3 DEF PatchECC
  <2>2. CASE eccQ'
    BY <2>2 DEF BackupCurrent, WillRun
  <2>3. CASE eccQ' = eccQ /\ ecc' = [ecc EXCEPT !.spec = new, !.gen = gen]
    <3>1. ecc'.spec = new /\ ecc'.gen = gen /\ ecc'.there = ecc.there
      BY <1>0, <2>3 DEF Ecc
    <3>2. WillRun => WillRun'
      BY <1>0, <2>1, <2>3, <3>1 DEF WillRun, MirrorInv, GenerationsTell
    <3>3. CASE ~WillRun
      <4>1. /\ eccJob.ecc = ecc.spec
            /\ eccJob.want = DesiredECCSpec(secret) /\ secret.there
            /\ Complete(DesiredECCSpec(secret))
        BY <2>1, <3>3 DEF MirrorInv, PassReliable, BackupCurrent
      <4>2. new = eccJob.want
        BY <1>0, <4>1, MergedCurrent
      <4>3. Mirrored'
        BY <1>0, <3>1, <4>1, <4>2 DEF Mirrored
      <4> QED
        BY <2>1, <4>3 DEF BackupCurrent
    <3> QED
      BY <3>2, <3>3 DEF BackupCurrent
  <2> QED
    BY <1>0, <1>3, <2>2, <2>3 DEF PatchECC, Ecc
<1>4. CASE UpdateECCStatus
  <2>1. /\ eccPc = "status" /\ eccPc' = "idle" /\ UNCHANGED eccSeen
        /\ eccQ => eccQ'
    BY <1>4 DEF UpdateECCStatus
  <2>2. ecc' = ecc \/ (eccSeen = ecc /\ ecc' = WithStatus(eccSeen))
    BY <1>4 DEF UpdateECCStatus
  <2>3. ecc'.spec = ecc.spec /\ ecc'.gen = ecc.gen /\ ecc'.there = ecc.there
    BY <1>0, <2>2 DEF WithStatus, Ecc
  <2> QED
    BY <1>0, <2>1, <2>3 DEF BackupCurrent, WillRun, Mirrored
<1> QED
  BY <1>1, <1>2, <1>3, <1>4 DEF EccStep

LEMMA BackupStep ==
  CredentialsInv /\ MirrorInv /\ BackupCurrent /\ [Next]_vars => BackupCurrent'
<1> SUFFICES ASSUME CredentialsInv, MirrorInv, BackupCurrent, [Next]_vars
             PROVE  BackupCurrent'
  OBVIOUS
<1>1. CASE EccStep
  BY <1>1, BackupPass
<1>2. CASE EccAbort
  BY <1>2 DEF EccAbort, BackupCurrent, WillRun
<1>3. CASE SeeECC
  <2>1. /\ eccSeen' = ecc /\ UNCHANGED <<ecc, secret, eccPc, eccJob>>
        /\ eccQ' = (eccQ \/ ~eccSeen.there \/ eccSeen.gen # ecc.gen)
    BY <1>3 DEF SeeECC, eccPass, rookVars
  <2>2. WillRun => eccQ'
    BY <2>1 DEF WillRun
  <2> QED
    BY <2>1, <2>2 DEF BackupCurrent, WillRun, Mirrored
<1>4. CASE RookCreates \/ RookRotates \/ SecretRemoved
  BY <1>4, BackupHears DEF RookCreates, RookRotates, SecretRemoved
<1>5. CASE EcStep \/ EcAbort \/ MonsMove \/ CsiCephCreates \/ UNCHANGED vars
  <2>1. UNCHANGED <<secret, ecc, eccSeen, eccQ, eccPc, eccJob>>
    BY <1>5
    DEF EcStep, EnsureCredentials, EnsureCsiCeph, FinishReconcile, EcAbort, MonsMove,
        CsiCephCreates, vars, eccPass, rookVars
  <2> QED
    BY <2>1 DEF BackupCurrent, WillRun, Mirrored
<1> QED
  BY <1>1, <1>2, <1>3, <1>4, <1>5 DEF Next, Rook

LEMMA ConnStep == TypeOK /\ ConnCurrent /\ [Next]_vars => ConnCurrent'
<1> SUFFICES ASSUME TypeOK, ConnCurrent, [Next]_vars PROVE ConnCurrent'
  OBVIOUS
<1>0. ecJob \in EcJob /\ ecPc \in EcPc /\ ecQ \in BOOLEAN
  BY DEF TypeOK
<1>1. CASE EnsureCredentials
  <2>1. ~ecJob.done
    BY <1>1 DEF EnsureCredentials, ConnCurrent
  <2>2. UNCHANGED <<secret, mons>>
    BY <1>1 DEF EnsureCredentials, rookVars
  <2> QED
    BY <1>1, <2>1, <2>2 DEF EnsureCredentials, ConnCurrent, IdleEcJob
<1>2. CASE EnsureCsiCeph
  <2>1. /\ ecPc = "csiceph" /\ ecPc' = "publish" /\ ~ecJob.done
        /\ UNCHANGED <<secret, mons, eccSeen, ecQ>>
    BY <1>2 DEF EnsureCsiCeph, rookVars, ConnCurrent
  <2>2. CASE conn' = [fsid |-> ecJob.fsid, key |-> eccSeen.spec.admin, mons |-> ecJob.mons]
    BY <2>1, <2>2 DEF ConnCurrent, Tells
  <2>3. CASE ecJob' = ecJob
    BY <2>1, <2>3 DEF ConnCurrent
  <2> QED
    BY <1>2, <2>2, <2>3 DEF EnsureCsiCeph
<1>3. CASE FinishReconcile
  <2>1. /\ ecPc = "publish" /\ ecPc' = "idle" /\ ~ecJob'.done
        /\ ecQ' = (ecQ \/ ~ecJob.done) /\ ready' = ecJob.done
        /\ UNCHANGED <<secret, mons, eccSeen, conn>>
    BY <1>3 DEF FinishReconcile, IdleEcJob, rookVars, csiVars
  <2> QED
    BY <1>0, <2>1 DEF ConnCurrent, Tells
<1>4. CASE EcAbort
  BY <1>4 DEF EcAbort, ConnCurrent, IdleEcJob
<1>5. CASE SeeECC \/ RookCreates \/ RookRotates \/ SecretRemoved \/ MonsMove \/ CsiCephCreates
  <2>1. ecQ' /\ UNCHANGED <<ecPc, ecJob>>
    BY <1>5
    DEF SeeECC, RookCreates, RookRotates, SecretRemoved, SecretEvent, MonsMove,
        CsiCephCreates, ecPass
  <2> QED
    BY <2>1 DEF ConnCurrent
<1>6. CASE EccStep \/ EccAbort \/ UNCHANGED vars
  <2>1. UNCHANGED <<secret, mons, eccSeen, conn, ecQ, ecPc, ecJob, ready>>
    BY <1>6
    DEF EccStep, GetOrCreateECC, ReadSecret, PatchECC, UpdateECCStatus, EccAbort, vars,
        rookVars, csiVars, ecPass
  <2> QED
    BY <2>1 DEF ConnCurrent, Tells
<1> QED
  BY <1>1, <1>2, <1>3, <1>4, <1>5, <1>6 DEF Next, EcStep, Rook

\* No wake-up is lost: once neither reconciler has anything to do or to hear of, the
\* connection and the backup are what Rook's Secret and monitors say now, whatever
\* came in between and in whatever order.
THEOREM NothingMissed == Spec => []RestMeansConnected
<1>1. Init => MirrorInv /\ BackupCurrent /\ ConnCurrent
  BY DEF Init, MirrorInv, GenerationsTell, PassReliable, WillRun, NoEcc, BackupCurrent,
         ConnCurrent, IdleEcJob
<1>2. MirrorInv /\ BackupCurrent /\ ConnCurrent => RestMeansConnected
  <2> SUFFICES ASSUME BackupCurrent, ConnCurrent, AtRest
               PROVE  Connected /\ ecc.spec = DesiredECCSpec(secret)
    BY DEF RestMeansConnected
  <2>1. ~WillRun
    BY DEF AtRest, WillRun
  <2>2. Mirrored
    BY <2>1 DEF AtRest, BackupCurrent
  <2>3. ready /\ Tells
    BY DEF AtRest, ConnCurrent
  <2> QED
    BY <2>2, <2>3 DEF AtRest, Mirrored, Tells, Connected
<1>3. CredentialsInv => TypeOK
  BY DEF CredentialsInv
<1> QED
  BY <1>1, <1>2, <1>3, MirrorStep, BackupStep, ConnStep, CredentialsInvariant, PTL DEF Spec

=============================================================================
