--------------------------- MODULE TeardownProofs ---------------------------
(***************************************************************************)
(* Proofs about Teardown, for any set of storage classes of either type,   *)
(* created in any number and order.                                        *)
(***************************************************************************)
EXTENDS Teardown, TLAPS

-----------------------------------------------------------------------------
(* The inductive invariant. *)

EscDeleting == {"deleteCsc", "force", "destroy", "deletePool", "confirm"}

\* The cluster has a backend or a pass only under its finalizer.
EcInv ==
  /\ ecState # "absent"
  /\ ecState = "gone" => ~ecFinalizer
  /\ ecPc \in {"deleteCeph", "deleteCcc", "confirm"} => ecState = "terminating"
  /\ ~ecFinalizer => ecPc = "idle" /\ ceph = "absent" /\ ccc = "absent"

\* Once the deletion of the cluster is requested, the cache or the history
\* accounts for every storage class; once its pass is past the guard, only the
\* history does.
DependentsInv ==
  /\ ecState = "terminating" => \A s \in ESC : Exists(s) => s \in known \cup newcomers
  /\ ecPc = "deleteCeph" =>
       ecState = "terminating" /\ \A s \in ESC : Exists(s) => s \in newcomers

\* A storage class has a pool, a CephStorageClass or a pass only under its
\* finalizer; only a pass over a class under deletion deletes.
EscShape(s) ==
  /\ escState[s] \in {"absent", "gone"} => ~escFinalizer[s]
  /\ ~escFinalizer[s] => escPc[s] = "idle" /\ pool[s] = "absent" /\ csc[s] = "absent"
  /\ escPc[s] \in EscDeleting => escState[s] = "terminating"
  /\ pool[s] = "deleting" =>
       escState[s] = "terminating" /\ escPc[s] \notin {"pool", "csc"}

\* A filesystem is deleted only once it is set to be destroyed; the setting goes
\* with the pool.
DestroyFirst(s) ==
  /\ destroy[s] => pool[s] # "absent"
  /\ s \in CephFS =>
       /\ pool[s] = "deleting" => destroy[s]
       /\ escPc[s] = "deletePool" => destroy[s] \/ pool[s] = "absent"

\* The annotation on the pool comes from the operator's on the class.
PurgeOrigin(s) ==
  /\ escPc[s] = "force" => s \notin CephFS /\ escForce[s]
  /\ escForce[s] => escState[s] = "terminating" /\ force[s] # "never"
  /\ purge[s] => escState[s] = "terminating" /\ force[s] # "never" /\ pool[s] # "absent"

\* A volume that was bound in time keeps the pass from starting.
BoundInTime(s) ==
  escState[s] = "terminating" /\ volume[s] = "bound" /\ s \notin lateBinds =>
    s \in boundSeen /\ escPc[s] \notin EscDeleting /\ pool[s] # "deleting"

EscInv ==
  \A s \in ESC : EscShape(s) /\ DestroyFirst(s) /\ PurgeOrigin(s) /\ BoundInTime(s)

History == lost = {} /\ orphaned = {}

TeardownInv == TypeOK /\ EcInv /\ DependentsInv /\ EscInv /\ History

-----------------------------------------------------------------------------
(* Type correctness. *)

LEMMA ObjectOps ==
  /\ \A o \in Object : Upserted(o) \in Object /\ Deleted(o) \in Object
  /\ \A o : Upserted(o) # "absent"
  /\ \A o : Upserted(o) = "deleting" => o = "deleting"
  /\ \A o : Deleted(o) = "absent" <=> o = "absent"
BY DEF Object, Upserted, Deleted

LEMMA TeardownOfPc ==
  ASSUME NEW s \in ESC
  PROVE  /\ TeardownOf(s) \in {"destroy", "force", "deletePool"}
         /\ s \in CephFS => TeardownOf(s) = "destroy"
         /\ TeardownOf(s) = "force" => s \notin CephFS /\ escForce[s]
BY DEF TeardownOf

LEMMA TypeStep == TypeOK /\ [Next]_vars => TypeOK'
<1> SUFFICES ASSUME TypeOK, [Next]_vars PROVE TypeOK'
  OBVIOUS
<1> USE DEF TypeOK, Life, EcPc, EscPc
<1>1. ASSUME EcBegin PROVE TypeOK'
  BY <1>1 DEF EcBegin, cephVars, escVars, poolVars, jobVars, volVars, cacheVars,
      histVars
<1>2. ASSUME EcBeginDelete PROVE TypeOK'
  BY <1>2 DEF EcBeginDelete, ecVars, cephVars, escVars, poolVars, jobVars,
      volVars, cacheVars, histVars
<1>3. ASSUME EcUpsertCeph PROVE TypeOK'
  BY <1>3, ObjectOps DEF EcUpsertCeph, escVars, poolVars, jobVars, volVars,
      cacheVars, histVars
<1>4. ASSUME EcConnect PROVE TypeOK'
  BY <1>4, ObjectOps DEF EcConnect, escVars, poolVars, jobVars, volVars,
      cacheVars, histVars
<1>5. ASSUME EcDeleteCeph PROVE TypeOK'
  BY <1>5, ObjectOps DEF EcDeleteCeph, ecVars, escVars, poolVars, jobVars,
      volVars, cacheVars, histVars
<1>6. ASSUME EcDeleteCcc PROVE TypeOK'
  BY <1>6, ObjectOps DEF EcDeleteCcc, ecVars, escVars, poolVars, jobVars,
      volVars, cacheVars, histVars
<1>7. ASSUME EcConfirm PROVE TypeOK'
  BY <1>7 DEF EcConfirm, cephVars, escVars, poolVars, jobVars, volVars,
      cacheVars, histVars
<1>8. ASSUME AbortEc PROVE TypeOK'
  BY <1>8 DEF AbortEc, ecVars, cephVars, escVars, poolVars, jobVars, volVars,
      cacheVars, histVars
<1>9. ASSUME NEW t \in ESC, EscBegin(t) PROVE TypeOK'
  BY <1>9 DEF EscBegin, EscGoto, ecVars, cephVars, poolVars, volVars, cacheVars,
      histVars
<1>10. ASSUME NEW t \in ESC, EscBeginDelete(t) PROVE TypeOK'
  BY <1>10 DEF EscBeginDelete, EscGoto, ecVars, cephVars, escVars, poolVars,
      volVars, cacheVars, histVars
<1>11. ASSUME NEW t \in ESC, EscUpsertPool(t) PROVE TypeOK'
  <2>1. CASE ReadyEC
    <3>1. pool' \in [ESC -> Object]
      <4>1. pool' = [pool EXCEPT ![t] = Upserted(pool[t])] /\ pool[t] \in Object
        BY <1>11, <2>1 DEF EscUpsertPool
      <4> QED
        BY <4>1, ObjectOps
    <3>2. destroy' \in [ESC -> BOOLEAN]
      BY <1>11, <2>1 DEF EscUpsertPool
    <3>3. escPc' \in [ESC -> EscPc]
      BY <1>11, <2>1 DEF EscUpsertPool, EscGoto
    <3> QED
      BY <1>11, <3>1, <3>2, <3>3
      DEF EscUpsertPool, ecVars, cephVars, escVars, volVars, cacheVars, histVars
  <2>2. CASE ~ReadyEC
    BY <1>11, <2>2
    DEF EscUpsertPool, EscGoto, ecVars, cephVars, escVars, volVars, cacheVars, histVars
  <2> QED
    BY <2>1, <2>2
<1>12. ASSUME NEW t \in ESC, EscUpsertCsc(t) PROVE TypeOK'
  BY <1>12, ObjectOps DEF EscUpsertCsc, EscGoto, ecVars, cephVars, escVars,
      poolVars, volVars, cacheVars, histVars
<1>13. ASSUME NEW t \in ESC, EscDeleteCsc(t) PROVE TypeOK'
  BY <1>13, ObjectOps, TeardownOfPc DEF EscDeleteCsc, EscGoto, ecVars, cephVars,
      escVars, poolVars, volVars, cacheVars, histVars
<1>14. ASSUME NEW t \in ESC, EscForcePool(t) PROVE TypeOK'
  BY <1>14 DEF EscForcePool, EscGoto, ecVars, cephVars, escVars, volVars,
      cacheVars, histVars, Object
<1>15. ASSUME NEW t \in ESC, EscDestroyOnDelete(t) PROVE TypeOK'
  BY <1>15 DEF EscDestroyOnDelete, EscGoto, ecVars, cephVars, escVars, volVars,
      cacheVars, histVars, Object
<1>16. ASSUME NEW t \in ESC, EscDeletePool(t) PROVE TypeOK'
  BY <1>16, ObjectOps DEF EscDeletePool, EscGoto, ecVars, cephVars, escVars,
      volVars, cacheVars, histVars
<1>17. ASSUME NEW t \in ESC, EscConfirm(t) PROVE TypeOK'
  BY <1>17 DEF EscConfirm, EscGoto, ecVars, cephVars, poolVars, volVars,
      cacheVars
<1>18. ASSUME NEW t \in ESC, AbortEsc(t) PROVE TypeOK'
  BY <1>18 DEF AbortEsc, EscGoto, ecVars, cephVars, escVars, poolVars, volVars,
      cacheVars, histVars
<1>19. ASSUME Settle PROVE TypeOK'
  BY <1>19 DEF Settle, ecVars, cephVars, escVars, poolVars, jobVars, volVars,
      cacheVars, histVars
<1>20. ASSUME SyncEscs PROVE TypeOK'
  BY <1>20 DEF SyncEscs, ecVars, cephVars, escVars, poolVars, jobVars, volVars,
      histVars
<1>21. ASSUME SyncVolumes PROVE TypeOK'
  BY <1>21 DEF SyncVolumes, Bound, ecVars, cephVars, escVars, poolVars, jobVars,
      volVars, histVars
<1>22. ASSUME RookReadiesCeph PROVE TypeOK'
  BY <1>22 DEF RookReadiesCeph, ecVars, escVars, poolVars, jobVars, volVars,
      cacheVars, histVars, Object
<1>23. ASSUME RookRemovesCeph PROVE TypeOK'
  BY <1>23 DEF RookRemovesCeph, ecVars, escVars, poolVars, jobVars, volVars,
      cacheVars, histVars, Object
<1>24. ASSUME CsiRemovesCcc PROVE TypeOK'
  BY <1>24 DEF CsiRemovesCcc, ecVars, escVars, poolVars, jobVars, volVars,
      cacheVars, histVars, Object
<1>25. ASSUME NEW t \in ESC, RookReadiesPool(t) PROVE TypeOK'
  BY <1>25 DEF RookReadiesPool, ecVars, cephVars, escVars, jobVars, volVars,
      cacheVars, histVars, Object
<1>26. ASSUME NEW t \in ESC, RookRemovesPool(t) PROVE TypeOK'
  BY <1>26 DEF RookRemovesPool, ecVars, cephVars, escVars, jobVars, cacheVars,
      Object
<1>27. ASSUME NEW t \in ESC, CsiRemovesCsc(t) PROVE TypeOK'
  BY <1>27 DEF CsiRemovesCsc, ecVars, cephVars, escVars, poolVars, jobVars,
      volVars, cacheVars, histVars, Object
<1>28. ASSUME DeleteEc PROVE TypeOK'
  BY <1>28 DEF DeleteEc, cephVars, escVars, poolVars, jobVars, volVars,
      cacheVars
<1>29. ASSUME Drift PROVE TypeOK'
  BY <1>29 DEF Drift, cephVars, escVars, poolVars, jobVars, volVars, cacheVars,
      histVars, Object
<1>30. ASSUME NEW t \in ESC, CreateEsc(t) PROVE TypeOK'
  BY <1>30 DEF CreateEsc, ecVars, cephVars, poolVars, jobVars, volVars,
      cacheVars, Object
<1>31. ASSUME NEW t \in ESC, DeleteEsc(t) PROVE TypeOK'
  BY <1>31 DEF DeleteEsc, Bound, ecVars, cephVars, poolVars, jobVars, volVars,
      cacheVars
<1>32. ASSUME NEW t \in ESC, Authorize(t) PROVE TypeOK'
  BY <1>32 DEF Authorize, ecVars, cephVars, poolVars, jobVars, volVars,
      cacheVars, histVars
<1>33. ASSUME NEW t \in ESC, Revoke(t) PROVE TypeOK'
  BY <1>33 DEF Revoke, ecVars, cephVars, poolVars, jobVars, volVars, cacheVars,
      histVars
<1>34. ASSUME NEW t \in ESC, Bind(t) PROVE TypeOK'
  BY <1>34 DEF Bind, ecVars, cephVars, escVars, poolVars, jobVars, cacheVars,
      Object
<1>35. ASSUME NEW t \in ESC, Release(t) PROVE TypeOK'
  BY <1>35 DEF Release, ecVars, cephVars, escVars, poolVars, jobVars, cacheVars,
      histVars
<1>36. ASSUME NEW t \in ESC, Discard(t) PROVE TypeOK'
  BY <1>36 DEF Discard, ecVars, cephVars, escVars, poolVars, jobVars, cacheVars,
      histVars
<1>37. CASE UNCHANGED vars
  BY <1>37 DEF vars, ecVars, cephVars, escVars, poolVars, jobVars, volVars, cacheVars, histVars
<1> QED
  BY <1>1, <1>2, <1>3, <1>4, <1>5, <1>6, <1>7, <1>8, <1>9, <1>10, <1>11, <1>12,
      <1>13, <1>14, <1>15, <1>16, <1>17, <1>18, <1>19, <1>20, <1>21, <1>22,
      <1>23, <1>24, <1>25, <1>26, <1>27, <1>28, <1>29, <1>30, <1>31, <1>32,
      <1>33, <1>34, <1>35, <1>36, <1>37
  DEF Next, Controllers, External, Users, EcStep, EscStep

LEMMA TypeInit == Init => TypeOK
<1> SUFFICES ASSUME Init PROVE TypeOK
  OBVIOUS
<1>1. /\ escState \in [ESC -> Life] /\ escPc \in [ESC -> EscPc]
      /\ pool \in [ESC -> Object] /\ csc \in [ESC -> Object]
      /\ volume \in [ESC -> {"none", "bound", "released"}]
      /\ force \in [ESC -> {"never", "set", "revoked"}]
  BY DEF Init, Life, Object, EscPc
<1>2. /\ escFinalizer \in [ESC -> BOOLEAN] /\ escForce \in [ESC -> BOOLEAN]
      /\ purge \in [ESC -> BOOLEAN] /\ destroy \in [ESC -> BOOLEAN]
      /\ data \in [ESC -> BOOLEAN]
  BY DEF Init
<1> QED
  BY <1>1, <1>2 DEF Init, TypeOK, Life, Object, EcPc

\* Every variable keeps its type.
THEOREM TypeCorrect == Spec => []TypeOK
<1>1. Init => TypeOK
  BY TypeInit
<1>2. TypeOK /\ [Next]_vars => TypeOK'
  BY TypeStep
<1> QED
  BY <1>1, <1>2, PTL DEF Spec

-----------------------------------------------------------------------------
(* The cluster. *)

LEMMA ClusterStep ==
  ASSUME TeardownInv, [Next]_vars
  PROVE  EcInv' /\ DependentsInv'
<1> USE DEF TeardownInv, EcInv, DependentsInv, Exists
<1>1. ASSUME NEW t \in ESC,
             EscBegin(t) \/ EscBeginDelete(t) \/ EscUpsertPool(t) \/
             EscUpsertCsc(t) \/ EscDeleteCsc(t) \/ EscForcePool(t) \/
             EscDestroyOnDelete(t) \/ EscDeletePool(t) \/ AbortEsc(t) \/
             RookReadiesPool(t) \/ RookRemovesPool(t) \/ CsiRemovesCsc(t) \/
             Authorize(t) \/ Revoke(t) \/ Bind(t) \/ Release(t) \/ Discard(t)
      PROVE  UNCHANGED <<ecState, ecFinalizer, ecPc, ceph, ccc, escState, known, newcomers>>
  BY <1>1 DEF EscBegin, EscBeginDelete, EscUpsertPool, EscUpsertCsc,
      EscDeleteCsc, EscForcePool, EscDestroyOnDelete, EscDeletePool, AbortEsc,
      RookReadiesPool, RookRemovesPool, CsiRemovesCsc, Authorize, Revoke, Bind,
      Release, Discard, ecVars, cephVars, escVars, cacheVars, histVars
<1>2. ASSUME EcBegin
      PROVE  EcInv' /\ DependentsInv'
  BY <1>2 DEF EcBegin, cephVars, escVars, cacheVars, histVars
<1>3. ASSUME EcBeginDelete
      PROVE  EcInv' /\ DependentsInv'
  BY <1>3 DEF EcBeginDelete, DependentESCs, ecVars, cephVars, escVars,
      cacheVars, histVars
<1>4. ASSUME EcUpsertCeph
      PROVE  EcInv' /\ DependentsInv'
  BY <1>4, ObjectOps DEF EcUpsertCeph, escVars, cacheVars, histVars
<1>5. ASSUME EcConnect
      PROVE  EcInv' /\ DependentsInv'
  BY <1>5, ObjectOps DEF EcConnect, escVars, cacheVars, histVars
<1>6. ASSUME EcDeleteCeph
      PROVE  EcInv' /\ DependentsInv'
  BY <1>6, ObjectOps DEF EcDeleteCeph, ecVars, escVars, cacheVars, histVars
<1>7. ASSUME EcDeleteCcc
      PROVE  EcInv' /\ DependentsInv'
  BY <1>7, ObjectOps DEF EcDeleteCcc, ecVars, escVars, cacheVars, histVars
<1>8. ASSUME EcConfirm
      PROVE  EcInv' /\ DependentsInv'
  BY <1>8 DEF EcConfirm, cephVars, escVars, cacheVars, histVars, BackendGone
<1>9. ASSUME AbortEc
      PROVE  EcInv' /\ DependentsInv'
  BY <1>9 DEF AbortEc, ecVars, cephVars, escVars, cacheVars, histVars
<1>10. ASSUME NEW t \in ESC, EscConfirm(t)
      PROVE  EcInv' /\ DependentsInv'
  BY <1>10 DEF EscConfirm, EscGoto, ecVars, cephVars, cacheVars, TypeOK
<1>11. ASSUME Settle
      PROVE  EcInv' /\ DependentsInv'
  BY <1>11 DEF Settle, ecVars, cephVars, escVars, cacheVars, histVars
<1>12. ASSUME SyncEscs
      PROVE  EcInv' /\ DependentsInv'
  BY <1>12 DEF SyncEscs, ecVars, cephVars, escVars, histVars
<1>13. ASSUME SyncVolumes
      PROVE  EcInv' /\ DependentsInv'
  BY <1>13 DEF SyncVolumes, ecVars, cephVars, escVars, histVars
<1>14. ASSUME RookReadiesCeph
      PROVE  EcInv' /\ DependentsInv'
  BY <1>14 DEF RookReadiesCeph, ecVars, escVars, cacheVars, histVars
<1>15. ASSUME RookRemovesCeph
      PROVE  EcInv' /\ DependentsInv'
  BY <1>15 DEF RookRemovesCeph, ecVars, escVars, cacheVars, histVars
<1>16. ASSUME CsiRemovesCcc
      PROVE  EcInv' /\ DependentsInv'
  BY <1>16 DEF CsiRemovesCcc, ecVars, escVars, cacheVars, histVars
<1>17. ASSUME DeleteEc
      PROVE  EcInv' /\ DependentsInv'
  BY <1>17 DEF DeleteEc, cephVars, escVars, cacheVars
<1>18. ASSUME Drift
      PROVE  EcInv' /\ DependentsInv'
  BY <1>18 DEF Drift, cephVars, escVars, cacheVars, histVars
<1>19. ASSUME NEW t \in ESC, CreateEsc(t)
      PROVE  EcInv' /\ DependentsInv'
  BY <1>19 DEF CreateEsc, ecVars, cephVars, cacheVars, TypeOK
<1>20. ASSUME NEW t \in ESC, DeleteEsc(t)
      PROVE  EcInv' /\ DependentsInv'
  BY <1>20 DEF DeleteEsc, ecVars, cephVars, cacheVars, TypeOK
<1>21. CASE UNCHANGED vars
  BY <1>21 DEF vars, ecVars, cephVars, escVars, cacheVars, histVars
<1> QED
  BY <1>1, <1>2, <1>3, <1>4, <1>5, <1>6, <1>7, <1>8, <1>9, <1>10, <1>11, <1>12,
      <1>13, <1>14, <1>15, <1>16, <1>17, <1>18, <1>19, <1>20, <1>21
  DEF Next, Controllers, External, Users, EcStep, EscStep

-----------------------------------------------------------------------------
(* The storage classes. *)

LEMMA ClassesSame ==
  ASSUME EscInv, History,
         UNCHANGED <<escVars, poolVars, csc, jobVars, volume, boundSeen, lateBinds,
                     lost, orphaned>>
  PROVE  EscInv' /\ History'
BY DEF EscInv, EscShape, DestroyFirst, PurgeOrigin, BoundInTime, History, escVars,
       poolVars, jobVars

LEMMA ClassesStep ==
  ASSUME TeardownInv, [Next]_vars
  PROVE  EscInv' /\ History'
<1> USE DEF TeardownInv
<1>1. CASE EcBegin \/ EcBeginDelete \/ EcUpsertCeph \/ EcConnect \/ EcDeleteCeph \/
          EcDeleteCcc \/ EcConfirm \/ AbortEc \/ Settle \/ SyncEscs \/
          RookReadiesCeph \/ RookRemovesCeph \/ CsiRemovesCcc \/ DeleteEc \/
          Drift
  BY <1>1, ClassesSame DEF EcBegin, EcBeginDelete, EcUpsertCeph, EcConnect,
      EcDeleteCeph, EcDeleteCcc, EcConfirm, AbortEc, Settle, SyncEscs,
      RookReadiesCeph, RookRemovesCeph, CsiRemovesCcc, DeleteEc, Drift, ecVars,
      cephVars, escVars, poolVars, jobVars, volVars, cacheVars, histVars
<1>2. ASSUME NEW t \in ESC, EscBegin(t)
      PROVE  EscInv' /\ History'
  BY <1>2 DEF EscBegin, EscGoto, poolVars, volVars, cacheVars, histVars, TypeOK,
      EscInv, EscShape, DestroyFirst, PurgeOrigin, BoundInTime, History,
      EscDeleting
<1>3. ASSUME NEW t \in ESC, EscBeginDelete(t)
      PROVE  EscInv' /\ History'
  BY <1>3 DEF EscBeginDelete, EscGoto, escVars, poolVars, volVars, cacheVars,
      histVars, BoundGuard, TypeOK, EscInv, EscShape, DestroyFirst, PurgeOrigin,
      BoundInTime, History, EscDeleting
<1>4. ASSUME NEW t \in ESC, EscUpsertPool(t)
      PROVE  EscInv' /\ History'
  BY <1>4, ObjectOps DEF EscUpsertPool, EscGoto, escVars, volVars, cacheVars,
      histVars, TypeOK, EscInv, EscShape, DestroyFirst, PurgeOrigin,
      BoundInTime, History, EscDeleting
<1>5. ASSUME NEW t \in ESC, EscUpsertCsc(t)
      PROVE  EscInv' /\ History'
  BY <1>5, ObjectOps DEF EscUpsertCsc, EscGoto, escVars, poolVars, volVars,
      cacheVars, histVars, TypeOK, EscInv, EscShape, DestroyFirst, PurgeOrigin,
      BoundInTime, History, EscDeleting
<1>6. ASSUME NEW t \in ESC, EscDeleteCsc(t)
      PROVE  EscInv' /\ History'
  BY <1>6, ObjectOps, TeardownOfPc DEF EscDeleteCsc, EscGoto, escVars, poolVars,
      volVars, cacheVars, histVars, TypeOK, EscInv, EscShape, DestroyFirst,
      PurgeOrigin, BoundInTime, History, EscDeleting
<1>7. ASSUME NEW t \in ESC, EscForcePool(t)
      PROVE  EscInv' /\ History'
  BY <1>7 DEF EscForcePool, EscGoto, escVars, volVars, cacheVars, histVars,
      TypeOK, EscInv, EscShape, DestroyFirst, PurgeOrigin, BoundInTime, History,
      EscDeleting
<1>8. ASSUME NEW t \in ESC, EscDestroyOnDelete(t)
      PROVE  EscInv' /\ History'
  BY <1>8 DEF EscDestroyOnDelete, EscGoto, escVars, volVars, cacheVars,
      histVars, TypeOK, EscInv, EscShape, DestroyFirst, PurgeOrigin,
      BoundInTime, History, EscDeleting
<1>9. ASSUME NEW t \in ESC, EscDeletePool(t)
      PROVE  EscInv' /\ History'
  BY <1>9, ObjectOps DEF EscDeletePool, EscGoto, escVars, volVars, cacheVars,
      histVars, TypeOK, EscInv, EscShape, DestroyFirst, PurgeOrigin,
      BoundInTime, History, EscDeleting
<1>10. ASSUME NEW t \in ESC, EscConfirm(t)
      PROVE  EscInv' /\ History'
  BY <1>10 DEF EscConfirm, EscGoto, poolVars, volVars, cacheVars, PoolGone,
      TypeOK, EscInv, EscShape, DestroyFirst, PurgeOrigin, BoundInTime, History,
      EscDeleting
<1>11. ASSUME NEW t \in ESC, AbortEsc(t)
      PROVE  EscInv' /\ History'
  BY <1>11 DEF AbortEsc, EscGoto, escVars, poolVars, volVars, cacheVars,
      histVars, TypeOK, EscInv, EscShape, DestroyFirst, PurgeOrigin,
      BoundInTime, History, EscDeleting
<1>12. ASSUME SyncVolumes
      PROVE  EscInv' /\ History'
  BY <1>12 DEF SyncVolumes, Bound, escVars, poolVars, jobVars, volVars,
      histVars, TypeOK, EscInv, EscShape, DestroyFirst, PurgeOrigin,
      BoundInTime, History, EscDeleting
<1>13. ASSUME NEW t \in ESC, RookReadiesPool(t)
      PROVE  EscInv' /\ History'
  BY <1>13 DEF RookReadiesPool, escVars, jobVars, volVars, cacheVars, histVars,
      TypeOK, EscInv, EscShape, DestroyFirst, PurgeOrigin, BoundInTime, History,
      EscDeleting
<1>14. ASSUME NEW t \in ESC, RookRemovesPool(t)
      PROVE  EscInv' /\ History'
  BY <1>14 DEF RookRemovesPool, escVars, jobVars, cacheVars, PoolBlocked, Bound,
      TypeOK, EscInv, EscShape, DestroyFirst, PurgeOrigin, BoundInTime, History,
      EscDeleting
<1>15. ASSUME NEW t \in ESC, CsiRemovesCsc(t)
      PROVE  EscInv' /\ History'
  BY <1>15 DEF CsiRemovesCsc, escVars, poolVars, jobVars, volVars, cacheVars,
      histVars, TypeOK, EscInv, EscShape, DestroyFirst, PurgeOrigin,
      BoundInTime, History, EscDeleting
<1>16. ASSUME NEW t \in ESC, CreateEsc(t)
      PROVE  EscInv' /\ History'
  BY <1>16 DEF CreateEsc, poolVars, jobVars, volVars, cacheVars, TypeOK, EscInv,
      EscShape, DestroyFirst, PurgeOrigin, BoundInTime, History, EscDeleting
<1>17. ASSUME NEW t \in ESC, DeleteEsc(t)
      PROVE  EscInv' /\ History'
  BY <1>17 DEF DeleteEsc, Bound, poolVars, jobVars, volVars, cacheVars, TypeOK,
      EscInv, EscShape, DestroyFirst, PurgeOrigin, BoundInTime, History,
      EscDeleting
<1>18. ASSUME NEW t \in ESC, Authorize(t)
      PROVE  EscInv' /\ History'
  BY <1>18 DEF Authorize, poolVars, jobVars, volVars, cacheVars, histVars,
      TypeOK, EscInv, EscShape, DestroyFirst, PurgeOrigin, BoundInTime, History,
      EscDeleting
<1>19. ASSUME NEW t \in ESC, Revoke(t)
      PROVE  EscInv' /\ History'
  BY <1>19 DEF Revoke, poolVars, jobVars, volVars, cacheVars, histVars, TypeOK,
      EscInv, EscShape, DestroyFirst, PurgeOrigin, BoundInTime, History,
      EscDeleting
<1>20. ASSUME NEW t \in ESC, Bind(t)
      PROVE  EscInv' /\ History'
  BY <1>20 DEF Bind, escVars, poolVars, jobVars, cacheVars, TypeOK, EscInv,
      EscShape, DestroyFirst, PurgeOrigin, BoundInTime, History, EscDeleting
<1>21. ASSUME NEW t \in ESC, Release(t)
      PROVE  EscInv' /\ History'
  BY <1>21 DEF Release, escVars, poolVars, jobVars, cacheVars, histVars, TypeOK,
      EscInv, EscShape, DestroyFirst, PurgeOrigin, BoundInTime, History,
      EscDeleting
<1>22. ASSUME NEW t \in ESC, Discard(t)
      PROVE  EscInv' /\ History'
  BY <1>22 DEF Discard, escVars, poolVars, jobVars, cacheVars, histVars, TypeOK,
      EscInv, EscShape, DestroyFirst, PurgeOrigin, BoundInTime, History,
      EscDeleting
<1>23. CASE UNCHANGED vars
  BY <1>23, ClassesSame DEF vars, volVars, cacheVars, histVars
<1> QED
  BY <1>1, <1>2, <1>3, <1>4, <1>5, <1>6, <1>7, <1>8, <1>9, <1>10, <1>11, <1>12,
      <1>13, <1>14, <1>15, <1>16, <1>17, <1>18, <1>19, <1>20, <1>21, <1>22,
      <1>23
  DEF Next, Controllers, External, Users, EcStep, EscStep

-----------------------------------------------------------------------------
(* The theorems. *)

LEMMA TeardownInit == Init => TeardownInv
<1>1. Init => TypeOK
  BY TypeInit
<1> QED
  BY <1>1 DEF Init, TeardownInv, EcInv, DependentsInv, EscInv, EscShape, DestroyFirst,
              PurgeOrigin, BoundInTime, History, Exists, EscDeleting

\* The invariant above holds of every reachable state.
THEOREM TeardownSafe == Spec => []TeardownInv
<1>1. Init => TeardownInv
  BY TeardownInit
<1>2. TeardownInv /\ [Next]_vars => TeardownInv'
  BY TypeStep, ClusterStep, ClassesStep DEF TeardownInv
<1> QED
  BY <1>1, <1>2, PTL DEF Spec

\* A cluster or a storage class that is gone has left nothing behind.
THEOREM NothingStays == Spec => []NothingLeft
<1>1. TeardownInv => NothingLeft
  BY DEF TeardownInv, EcInv, EscInv, EscShape, NothingLeft
<1> QED
  BY <1>1, TeardownSafe, PTL

\* No filesystem is removed while it is set to be preserved.
THEOREM FilesystemsDestroyed == Spec => []NoFilesystemOrphaned
<1>1. TeardownInv => NoFilesystemOrphaned
  BY DEF TeardownInv, History, NoFilesystemOrphaned
<1> QED
  BY <1>1, TeardownSafe, PTL

\* No pool is removed under a volume that was bound, and visible to the
\* controller, before the deletion was requested.
THEOREM BoundVolumesGuarded == Spec => []GuardHolds
<1>1. TeardownInv => GuardHolds
  BY DEF TeardownInv, History, GuardHolds
<1> QED
  BY <1>1, TeardownSafe, PTL

LEMMA PurgeStep ==
  ASSUME TeardownInv, [Next]_vars, NEW s \in ESC,
         pool[s] # "absent", pool'[s] = "absent", data[s]
  PROVE  s \notin CephFS /\ force[s] # "never"
<1> USE ObjectOps DEF TeardownInv, TypeOK
<1>1. ASSUME NEW t \in ESC, RookRemovesPool(t)
      PROVE  s \notin CephFS /\ force[s] # "never"
  BY <1>1 DEF RookRemovesPool, PoolBlocked, EscInv, PurgeOrigin
<1>2. ASSUME NEW t \in ESC, EscUpsertPool(t) \/ EscDeletePool(t) \/ RookReadiesPool(t)
      PROVE  FALSE
  BY <1>2 DEF EscUpsertPool, EscDeletePool, RookReadiesPool
<1>3. ASSUME NEW t \in ESC,
             \/ EscBegin(t) \/ EscBeginDelete(t) \/ EscUpsertCsc(t) \/ EscDeleteCsc(t)
             \/ EscForcePool(t) \/ EscDestroyOnDelete(t) \/ EscConfirm(t) \/ AbortEsc(t)
             \/ CsiRemovesCsc(t)
      PROVE  FALSE
  BY <1>3 DEF EscBegin, EscBeginDelete, EscUpsertCsc, EscDeleteCsc, EscForcePool,
              EscDestroyOnDelete, EscConfirm, AbortEsc, CsiRemovesCsc, poolVars
<1>4. ASSUME NEW t \in ESC,
             \/ CreateEsc(t) \/ DeleteEsc(t) \/ Authorize(t) \/ Revoke(t)
             \/ Bind(t) \/ Release(t) \/ Discard(t)
      PROVE  FALSE
  BY <1>4 DEF CreateEsc, DeleteEsc, Authorize, Revoke, Bind, Release, Discard, poolVars
<1>5. CASE EcBegin \/ EcBeginDelete \/ EcStep \/ AbortEc
  BY <1>5 DEF EcBegin, EcBeginDelete, EcStep, EcUpsertCeph, EcConnect, EcDeleteCeph,
              EcDeleteCcc, EcConfirm, AbortEc, poolVars
<1>6. CASE \/ Settle \/ SyncEscs \/ SyncVolumes \/ RookReadiesCeph \/ RookRemovesCeph
           \/ CsiRemovesCcc \/ DeleteEc \/ Drift \/ UNCHANGED vars
  BY <1>6 DEF Settle, SyncEscs, SyncVolumes, RookReadiesCeph, RookRemovesCeph,
              CsiRemovesCcc, DeleteEc, Drift, vars, poolVars
<1> QED
  BY <1>1, <1>2, <1>3, <1>4, <1>5, <1>6
  DEF Next, Controllers, External, Users, EscStep

\* Data disappears with its pool only on the operator's word.
THEOREM PurgesAuthorized == Spec => PurgeAuthorized
<1>1. TeardownInv /\ [Next]_vars =>
        [\A s \in ESC : pool[s] # "absent" /\ pool'[s] = "absent" /\ data[s] =>
           s \notin CephFS /\ force[s] # "never"]_vars
  BY PurgeStep
<1> QED
  BY <1>1, TeardownSafe, PTL DEF Spec, PurgeAuthorized

LEMMA DeleteCephStep ==
  ASSUME TeardownInv, [Next]_vars, ceph # "deleting", ceph' = "deleting"
  PROVE  {s \in ESC : Exists(s)} \subseteq newcomers
<1> USE ObjectOps
<1>1. CASE EcDeleteCeph
  BY <1>1 DEF EcDeleteCeph, TeardownInv, DependentsInv
<1>2. CASE EcUpsertCeph \/ RookReadiesCeph \/ RookRemovesCeph
  BY <1>2 DEF EcUpsertCeph, RookReadiesCeph, RookRemovesCeph
<1>3. CASE \/ EcBegin \/ EcBeginDelete \/ EcConnect \/ EcDeleteCcc \/ EcConfirm \/ AbortEc
           \/ Settle \/ SyncEscs \/ SyncVolumes \/ CsiRemovesCcc \/ DeleteEc \/ Drift
           \/ UNCHANGED vars
  BY <1>3 DEF EcBegin, EcBeginDelete, EcConnect, EcDeleteCcc, EcConfirm, AbortEc, Settle,
              SyncEscs, SyncVolumes, CsiRemovesCcc, DeleteEc, Drift, vars, cephVars
<1>4. ASSUME NEW t \in ESC, EscBegin(t) \/ EscBeginDelete(t) \/ EscStep(t) \/ AbortEsc(t)
      PROVE  FALSE
  BY <1>4 DEF EscBegin, EscBeginDelete, EscStep, EscUpsertPool, EscUpsertCsc,
              EscDeleteCsc, EscForcePool, EscDestroyOnDelete, EscDeletePool, EscConfirm,
              AbortEsc, cephVars
<1>5. ASSUME NEW t \in ESC,
             \/ RookReadiesPool(t) \/ RookRemovesPool(t) \/ CsiRemovesCsc(t)
             \/ CreateEsc(t) \/ DeleteEsc(t) \/ Authorize(t) \/ Revoke(t)
             \/ Bind(t) \/ Release(t) \/ Discard(t)
      PROVE  FALSE
  BY <1>5 DEF RookReadiesPool, RookRemovesPool, CsiRemovesCsc, CreateEsc, DeleteEsc,
              Authorize, Revoke, Bind, Release, Discard, cephVars
<1> QED
  BY <1>1, <1>2, <1>3, <1>4, <1>5 DEF Next, Controllers, External, Users, EcStep

\* The CephCluster is deleted only when every storage class left is one the
\* controller could not know of.
THEOREM ClustersOutliveClasses == Spec => DependentsGuarded
<1>1. TeardownInv /\ [Next]_vars =>
        [ceph # "deleting" /\ ceph' = "deleting" =>
           {s \in ESC : Exists(s)} \subseteq newcomers]_vars
  BY DeleteCephStep
<1> QED
  BY <1>1, TeardownSafe, PTL DEF Spec, DependentsGuarded

-----------------------------------------------------------------------------
(* The refinement of Custody. *)

\* The pools, the sets of classes and the groups of variables the promise is
\* stated over.
Pools == [s \in ESC |-> Given(pool[s])]
Doomed == {s \in CephFS : destroy[s]}
Authorized == {s \in ESC : force[s] # "never"}
Full == {s \in ESC : data[s]}

LEMMA GivenOps ==
  /\ \A o \in Object : Given(o) = "absent" <=> o = "absent"
  /\ \A o \in Object : Given(o) = "deleting" <=> o = "deleting"
  /\ \A o \in Object : Given(o) = "kept" <=> o \in {"creating", "ready"}
  /\ \A o \in Object : Given(Upserted(o)) = IF o = "deleting" THEN "deleting" ELSE "kept"
  /\ \A o \in Object : Given(Deleted(o)) = IF o = "absent" THEN "absent" ELSE "deleting"
BY DEF Object, Given, Upserted, Deleted

LEMMA CustodyInit == Init => Promise!Init
<1> SUFFICES ASSUME Init PROVE Promise!Init
  OBVIOUS
<1>1. Pools = [s \in ESC |-> "absent"] /\ Given(ceph) = "absent"
  BY DEF Init, Pools, Given
<1>2. Doomed = {} /\ Authorized = {} /\ Full = {} /\ Bound = {}
  BY ConstAssumption DEF Init, Doomed, Authorized, Full, Bound
<1> QED
  BY <1>1, <1>2 DEF Init, Promise!Init, Pools, Doomed, Authorized, Full

\* A step that leaves what the promise speaks of alone is a stutter.
LEMMA Stutters ==
  ASSUME UNCHANGED <<ecState, escState, Given(ceph), Pools, Doomed, Authorized, Full,
                     Bound, known, boundSeen, newcomers, lateBinds>>
  PROVE  UNCHANGED Promise!vars
BY DEF Promise!vars, Promise!clusterVars, Promise!dataVars, Promise!shownVars,
       Promise!exceptVars, Pools, Doomed, Authorized, Full

Promised == Promise!Next \/ UNCHANGED Promise!vars

LEMMA ByCluster == ASSUME Promise!ClusterNext PROVE Promised
BY DEF Promised, Promise!Next

LEMMA ByClass == ASSUME NEW s \in ESC, Promise!ClassNext(s) PROVE Promised
BY DEF Promised, Promise!Next

\* What the promise says of pools and sets is unchanged where the variables are.
LEMMA Frame ==
  /\ UNCHANGED pool => UNCHANGED Pools
  /\ UNCHANGED destroy => UNCHANGED Doomed
  /\ UNCHANGED force => UNCHANGED Authorized
  /\ UNCHANGED data => UNCHANGED Full
  /\ UNCHANGED volume => UNCHANGED Bound
  /\ UNCHANGED ceph => UNCHANGED Given(ceph)
BY DEF Pools, Doomed, Authorized, Full, Bound, Given

LEMMA CustodyUpsertCeph ==
  ASSUME TeardownInv, EcUpsertCeph
  PROVE  Promised
<1> USE DEF TeardownInv, TypeOK
<1>0. UNCHANGED <<ecState, escState, Pools, Doomed, Authorized, Full, Bound, known,
                  boundSeen, newcomers, lateBinds>>
  BY Frame DEF EcUpsertCeph, escVars, poolVars, volVars, cacheVars, histVars
<1>1. CASE UNCHANGED ceph
  BY <1>0, <1>1, Frame, Stutters DEF Promised
<1>2. CASE ceph' = Upserted(ceph) /\ ceph' # ceph
  <2>1. ceph = "absent" /\ ceph' = "creating"
    BY <1>2 DEF Upserted
  <2>2. ecState \in {"live", "terminating"}
    BY DEF EcUpsertCeph, EcInv, Life
  <2>3. Given(ceph) = "absent" /\ Given(ceph)' = "kept"
    BY <2>1 DEF Given
  <2>4. Promise!ProvideBackend
    BY <1>0, <2>2, <2>3
    DEF Promise!ProvideBackend, Promise!dataVars, Promise!shownVars,
        Promise!exceptVars, Pools, Doomed, Authorized, Full
  <2> QED
    BY <2>4, ByCluster DEF Promise!ClusterNext
<1> QED
  BY <1>1, <1>2 DEF EcUpsertCeph

LEMMA CustodyDeleteCeph ==
  ASSUME TeardownInv, EcDeleteCeph
  PROVE  Promised
<1> USE DEF TeardownInv, TypeOK
<1>0. UNCHANGED <<ecState, escState, Pools, Doomed, Authorized, Full, Bound, known,
                  boundSeen, newcomers, lateBinds>>
  BY Frame DEF EcDeleteCeph, ecVars, escVars, poolVars, volVars, cacheVars, histVars
<1>1. CASE ceph \in {"absent", "deleting"}
  <2>1. UNCHANGED ceph
    BY <1>1 DEF EcDeleteCeph, Deleted
  <2> QED
    BY <1>0, <2>1, Frame, Stutters DEF Promised
<1>2. CASE ceph \in {"creating", "ready"}
  <2>1. Given(ceph) = "kept" /\ Given(ceph)' = "deleting"
    BY <1>2 DEF EcDeleteCeph, Deleted, Given
  <2>2. ecState = "terminating" /\ Promise!Existing \subseteq newcomers
    BY DEF EcDeleteCeph, DependentsInv, Exists, Promise!Existing
  <2>3. Promise!GiveUpBackend
    BY <1>0, <2>1, <2>2
    DEF Promise!GiveUpBackend, Promise!dataVars, Promise!shownVars,
        Promise!exceptVars, Pools, Doomed, Authorized, Full
  <2> QED
    BY <2>3, ByCluster DEF Promise!ClusterNext
<1> QED
  BY <1>1, <1>2 DEF Object

LEMMA CustodyConfirm ==
  ASSUME TeardownInv, EcConfirm
  PROVE  Promised
<1> USE DEF TeardownInv, TypeOK
<1>0. UNCHANGED <<Given(ceph), escState, Pools, Doomed, Authorized, Full, Bound, known,
                  boundSeen, newcomers, lateBinds>>
  BY Frame DEF EcConfirm, cephVars, escVars, poolVars, volVars, cacheVars, histVars
<1>1. CASE UNCHANGED ecState
  BY <1>0, <1>1, Stutters DEF Promised
<1>2. CASE ceph = "absent" /\ ecState' = "gone"
  <2>1. ecState = "terminating" /\ Given(ceph) = "absent"
    BY <1>2 DEF EcConfirm, EcInv, Given
  <2>2. Promise!LeaveCluster
    BY <1>0, <1>2, <2>1
    DEF Promise!LeaveCluster, Promise!dataVars, Promise!shownVars,
        Promise!exceptVars, Pools, Doomed, Authorized, Full
  <2> QED
    BY <2>2, ByCluster DEF Promise!ClusterNext
<1> QED
  BY <1>1, <1>2 DEF EcConfirm, BackendGone

LEMMA CustodyRookCeph ==
  ASSUME TeardownInv, RookReadiesCeph \/ RookRemovesCeph
  PROVE  Promised
<1> USE DEF TeardownInv, TypeOK
<1>0. UNCHANGED <<ecState, escState, Pools, Doomed, Authorized, Full, Bound, known,
                  boundSeen, newcomers, lateBinds>>
  BY Frame DEF RookReadiesCeph, RookRemovesCeph, ecVars, escVars, poolVars, volVars,
               cacheVars, histVars
<1>1. CASE RookReadiesCeph
  <2>1. UNCHANGED Given(ceph)
    BY <1>1 DEF RookReadiesCeph, Given
  <2> QED
    BY <1>0, <2>1, Stutters DEF Promised
<1>2. CASE RookRemovesCeph
  <2>1. Given(ceph) = "deleting" /\ Given(ceph)' = "absent"
    BY <1>2 DEF RookRemovesCeph, Given
  <2>2. \A s \in ESC : Pools[s] = "absent"
    BY <1>2 DEF RookRemovesCeph, CephBlocked, Pools, Given
  <2>3. Promise!RemoveBackend
    BY <1>0, <2>1, <2>2
    DEF Promise!RemoveBackend, Promise!dataVars, Promise!shownVars,
        Promise!exceptVars, Pools, Doomed, Authorized, Full
  <2> QED
    BY <2>3, ByCluster DEF Promise!ClusterNext
<1> QED
  BY <1>1, <1>2

LEMMA CustodyDeleteEc ==
  ASSUME TeardownInv, DeleteEc
  PROVE  Promised
<1> USE DEF TeardownInv, TypeOK
<1>0. UNCHANGED <<Given(ceph), escState, Pools, Doomed, Authorized, Full, Bound, known,
                  boundSeen, lateBinds>>
  BY Frame DEF DeleteEc, cephVars, escVars, poolVars, volVars, cacheVars
<1>1. /\ ecState = "live"
      /\ \/ ecState' = "terminating"
         \/ ecState' = "gone" /\ Given(ceph) = "absent"
  BY DEF DeleteEc, EcInv, Given
<1>2. newcomers' = Promise!Existing \ known
  BY DEF DeleteEc, Exists, Promise!Existing
<1>3. Promise!RequestCluster
  BY <1>0, <1>1, <1>2
  DEF Promise!RequestCluster, Promise!dataVars, Promise!shownVars, Pools, Doomed,
      Authorized, Full
<1> QED
  BY <1>3, ByCluster DEF Promise!ClusterNext

LEMMA CustodySync ==
  ASSUME SyncEscs \/ SyncVolumes
  PROVE  Promised
<1>0. UNCHANGED <<ecState, Given(ceph), escState, Pools, Doomed, Authorized, Full, Bound,
                  newcomers, lateBinds>>
  BY Frame DEF SyncEscs, SyncVolumes, ecVars, cephVars, escVars, poolVars, volVars,
               histVars
<1>1. CASE SyncEscs
  BY <1>0, <1>1
  DEF SyncEscs, Exists, Promise!ShowClasses, Promise!Existing, Promise!clusterVars,
      Promise!dataVars, Promise!exceptVars, Pools, Doomed, Authorized, Full, Promised,
      Promise!Next
<1>2. CASE SyncVolumes
  BY <1>0, <1>2
  DEF SyncVolumes, Promise!ShowVolumes, Promise!clusterVars, Promise!dataVars,
      Promise!exceptVars, Pools, Doomed, Authorized, Full, Promised, Promise!Next
<1> QED
  BY <1>1, <1>2

LEMMA CustodyQuiet ==
  ASSUME \/ EcBegin \/ EcBeginDelete \/ EcConnect \/ EcDeleteCcc \/ AbortEc \/ Settle
         \/ CsiRemovesCcc \/ Drift \/ UNCHANGED vars
         \/ \E t \in ESC : \/ EscBegin(t) \/ EscBeginDelete(t) \/ EscUpsertCsc(t)
                           \/ EscDeleteCsc(t) \/ EscForcePool(t) \/ AbortEsc(t)
                           \/ CsiRemovesCsc(t)
  PROVE  Promised
<1>1. UNCHANGED <<ecState, escState, ceph, pool, destroy, force, data, volume, known,
                  boundSeen, newcomers, lateBinds>>
  BY DEF EcBegin, EcBeginDelete, EcConnect, EcDeleteCcc, AbortEc, Settle, CsiRemovesCcc,
         Drift, EscBegin, EscBeginDelete, EscUpsertCsc, EscDeleteCsc, EscForcePool,
         AbortEsc, CsiRemovesCsc, vars, ecVars, cephVars, escVars, poolVars, volVars,
         cacheVars, histVars
<1> QED
  BY <1>1, Frame, Stutters DEF Promised

\* Single classes, as the promise sees them.
LEMMA ClassView ==
  ASSUME NEW s \in ESC
  PROVE  /\ Pools[s] = Given(pool[s])
         /\ s \in Doomed <=> s \in CephFS /\ destroy[s]
         /\ s \in Authorized <=> force[s] # "never"
         /\ s \in Full <=> data[s]
         /\ s \in Bound <=> volume[s] = "bound"
         /\ s \in Promise!Existing <=> Exists(s)
         /\ Exists(s) <=> escState[s] \in {"live", "terminating"}
BY DEF Pools, Doomed, Authorized, Full, Bound, Promise!Existing, Exists

LEMMA CustodyUpsertPool ==
  ASSUME TeardownInv, NEW t \in ESC, EscUpsertPool(t)
  PROVE  Promised
<1> USE DEF TeardownInv, TypeOK
<1>0. UNCHANGED <<ecState, Given(ceph), escState, Authorized, Full, Bound, known,
                  boundSeen, newcomers, lateBinds>>
  BY Frame DEF EscUpsertPool, ecVars, cephVars, escVars, volVars, cacheVars, histVars
<1>1. CASE ~ReadyEC
  BY <1>0, <1>1, Frame, Stutters DEF EscUpsertPool, Promised
<1>2. CASE ReadyEC
  <2>1. Exists(t) /\ pool[t] # "deleting" /\ pool[t] \in Object
    BY DEF EscUpsertPool, EscInv, EscShape, Exists, Life
  <2>2. Pools[t] # "deleting" /\ Given(Upserted(pool[t])) = "kept"
    BY <2>1, GivenOps, ClassView
  <2>3. Pools' = [Pools EXCEPT ![t] = "kept"]
    BY <1>2, <2>2 DEF EscUpsertPool, Pools
  <2>4. Doomed' = Doomed \ {t}
    BY <1>2, ConstAssumption DEF EscUpsertPool, Doomed
  <2>5. Promise!ProvidePool(t)
    BY <1>0, <2>1, <2>2, <2>3, <2>4, ClassView
    DEF Promise!ProvidePool, Promise!clusterVars, Promise!shownVars,
        Promise!exceptVars, Pools, Doomed, Authorized, Full
  <2> QED
    BY <2>5, ByClass DEF Promise!ClassNext
<1> QED
  BY <1>1, <1>2

LEMMA CustodyDestroy ==
  ASSUME TeardownInv, NEW t \in ESC, EscDestroyOnDelete(t)
  PROVE  Promised
<1> USE DEF TeardownInv, TypeOK
<1>0. UNCHANGED <<ecState, Given(ceph), escState, Pools, Authorized, Full, Bound, known,
                  boundSeen, newcomers, lateBinds>>
  BY Frame DEF EscDestroyOnDelete, ecVars, cephVars, escVars, volVars, cacheVars, histVars
<1>1. destroy' = [destroy EXCEPT ![t] = (pool[t] # "absent")]
  BY DEF EscDestroyOnDelete
<1>2. CASE t \notin CephFS \/ pool[t] \in {"absent", "deleting"}
  <2>1. t \in CephFS => destroy[t] = (pool[t] # "absent")
    BY <1>2 DEF EscInv, DestroyFirst
  <2>2. UNCHANGED Doomed
    BY <1>1, <2>1, ConstAssumption DEF Doomed
  <2> QED
    BY <1>0, <2>2, Stutters DEF Promised
<1>3. CASE t \in CephFS /\ pool[t] \in {"creating", "ready"}
  <2>1. escState[t] = "terminating" /\ Pools[t] = "kept"
    BY <1>3, ClassView DEF EscDestroyOnDelete, EscInv, EscShape, EscDeleting, Given
  <2>2. Doomed' = Doomed \cup {t}
    BY <1>1, <1>3, ConstAssumption DEF Doomed
  <2>3. Promise!Doom(t)
    BY <1>0, <1>3, <2>1, <2>2
    DEF Promise!Doom, Promise!clusterVars, Promise!shownVars, Promise!exceptVars,
        Pools, Doomed, Authorized, Full
  <2> QED
    BY <2>3, ByClass DEF Promise!ClassNext
<1> QED
  BY <1>2, <1>3 DEF Object

LEMMA CustodyDeletePool ==
  ASSUME TeardownInv, NEW t \in ESC, EscDeletePool(t)
  PROVE  Promised
<1> USE DEF TeardownInv, TypeOK
<1>0. UNCHANGED <<ecState, Given(ceph), escState, Doomed, Authorized, Full, Bound, known,
                  boundSeen, newcomers, lateBinds>>
  BY Frame DEF EscDeletePool, ecVars, cephVars, escVars, volVars, cacheVars, histVars
<1>1. pool' = [pool EXCEPT ![t] = Deleted(pool[t])]
  BY DEF EscDeletePool
<1>2. CASE pool[t] \in {"absent", "deleting"}
  <2>1. Deleted(pool[t]) = pool[t]
    BY <1>2 DEF Deleted
  <2>2. UNCHANGED pool
    BY <1>1, <2>1
  <2> QED
    BY <1>0, <2>2, Frame, Stutters DEF Promised
<1>3. CASE pool[t] \in {"creating", "ready"}
  <2>1. Pools[t] = "kept" /\ Given(Deleted(pool[t])) = "deleting"
    BY <1>3, ClassView DEF Given, Deleted
  <2>2. Pools' = [Pools EXCEPT ![t] = "deleting"]
    BY <1>1, <2>1 DEF Pools
  <2>3. escState[t] = "terminating" /\ (t \in CephFS => t \in Doomed)
    BY <1>3, ClassView
    DEF EscDeletePool, EscInv, EscShape, DestroyFirst, EscDeleting
  <2>4. t \in Bound => t \in lateBinds
    BY <2>3, ClassView DEF EscDeletePool, EscInv, BoundInTime, EscDeleting
  <2>5. Promise!GiveUpPool(t)
    BY <1>0, <2>1, <2>2, <2>3, <2>4
    DEF Promise!GiveUpPool, Promise!Released, Promise!clusterVars, Promise!dataVars,
        Promise!shownVars, Promise!exceptVars, Pools, Doomed, Authorized, Full
  <2> QED
    BY <2>5, ByClass DEF Promise!ClassNext
<1> QED
  BY <1>2, <1>3 DEF Object

LEMMA CustodyRookPool ==
  ASSUME TeardownInv, NEW t \in ESC, RookReadiesPool(t) \/ RookRemovesPool(t)
  PROVE  Promised
<1> USE DEF TeardownInv, TypeOK
<1>0. UNCHANGED <<ecState, Given(ceph), escState, Authorized, Bound, known, boundSeen,
                  newcomers, lateBinds>>
  BY Frame DEF RookReadiesPool, RookRemovesPool, ecVars, cephVars, escVars, volVars,
               cacheVars, histVars
<1>1. CASE RookReadiesPool(t)
  <2>1. UNCHANGED Pools
    BY <1>1 DEF RookReadiesPool, Pools, Given
  <2> QED
    BY <1>0, <1>1, <2>1, Frame, Stutters DEF RookReadiesPool, volVars, Promised
<1>2. CASE RookRemovesPool(t)
  <2>1. Pools[t] = "deleting" /\ Given("absent") = "absent"
    BY <1>2, ClassView DEF RookRemovesPool, Given
  <2>2. Pools' = [Pools EXCEPT ![t] = "absent"]
    BY <1>2, <2>1 DEF RookRemovesPool, Pools
  <2>3. Doomed' = Doomed \ {t} /\ Full' = Full \ {t}
    BY <1>2, ConstAssumption DEF RookRemovesPool, Doomed, Full
  <2>4. escState[t] = "terminating" /\ (t \in CephFS => t \in Doomed)
    BY <1>2, ClassView DEF RookRemovesPool, EscInv, EscShape, DestroyFirst
  <2>5. t \in Bound => t \in lateBinds
    BY <1>2, <2>4, ClassView DEF RookRemovesPool, EscInv, BoundInTime
  <2>6. t \in Full => t \in Authorized \ CephFS
    BY <1>2, ClassView DEF RookRemovesPool, PoolBlocked, EscInv, PurgeOrigin
  <2>7. Promise!RemovePool(t)
    BY <1>0, <2>1, <2>2, <2>3, <2>4, <2>5, <2>6
    DEF Promise!RemovePool, Promise!Released, Promise!clusterVars,
        Promise!shownVars, Promise!exceptVars, Pools, Doomed, Authorized, Full
  <2> QED
    BY <2>7, ByClass DEF Promise!ClassNext
<1> QED
  BY <1>1, <1>2

LEMMA CustodyEscConfirm ==
  ASSUME TeardownInv, NEW t \in ESC, EscConfirm(t)
  PROVE  Promised
<1> USE DEF TeardownInv, TypeOK
<1>0. UNCHANGED <<ecState, Given(ceph), Pools, Doomed, Full, Bound, known, boundSeen>>
  BY Frame DEF EscConfirm, ecVars, cephVars, poolVars, volVars, cacheVars
<1>1. CASE ~PoolGone(t)
  BY <1>0, <1>1, Frame, Stutters DEF EscConfirm, Promised
<1>2. CASE PoolGone(t)
  <2>1. escState[t] = "terminating" /\ Pools[t] = "absent"
    BY <1>2, ClassView
    DEF EscConfirm, PoolGone, EscInv, EscShape, EscDeleting, Given
  <2>2. Authorized' = Authorized \ {t}
    BY <1>2 DEF EscConfirm, Authorized
  <2>3. Promise!LeaveClass(t)
    BY <1>0, <1>2, <2>1, <2>2
    DEF EscConfirm, Promise!LeaveClass, Promise!clusterVars, Promise!shownVars, Pools,
        Doomed, Authorized, Full
  <2> QED
    BY <2>3, ByClass DEF Promise!ClassNext
<1> QED
  BY <1>1, <1>2

LEMMA CustodyCreate ==
  ASSUME NEW t \in ESC, CreateEsc(t)
  PROVE  Promised
<1>0. UNCHANGED <<ecState, Given(ceph), Pools, Doomed, Authorized, Full, Bound, known,
                  boundSeen, lateBinds>>
  BY Frame DEF CreateEsc, ecVars, cephVars, poolVars, volVars, cacheVars
<1>1. Promise!CreateClass(t)
  BY <1>0
  DEF CreateEsc, Promise!CreateClass, Promise!clusterVars, Promise!dataVars,
      Promise!shownVars, Pools, Doomed, Authorized, Full
<1> QED
  BY <1>1, ByClass DEF Promise!ClassNext

LEMMA CustodyDeleteEsc ==
  ASSUME TeardownInv, NEW t \in ESC, DeleteEsc(t)
  PROVE  Promised
<1> USE DEF TeardownInv, TypeOK
<1>0. UNCHANGED <<ecState, Given(ceph), Pools, Doomed, Authorized, Full, Bound, known,
                  boundSeen, newcomers>>
  BY Frame DEF DeleteEsc, ecVars, cephVars, poolVars, volVars, cacheVars
<1>1. \/ escState' = [escState EXCEPT ![t] = "terminating"]
      \/ escState' = [escState EXCEPT ![t] = "gone"] /\ ~escFinalizer[t]
  BY DEF DeleteEsc
<1>2. ~escFinalizer[t] => Pools[t] = "absent"
  BY ClassView DEF EscInv, EscShape, Given
<1>3. Promise!RequestClass(t)
  BY <1>0, <1>1, <1>2
  DEF DeleteEsc, Promise!RequestClass, Promise!clusterVars, Promise!dataVars,
      Promise!shownVars, Pools, Doomed, Authorized, Full
<1> QED
  BY <1>3, ByClass DEF Promise!ClassNext

LEMMA CustodyForce ==
  ASSUME TeardownInv, NEW t \in ESC, Authorize(t) \/ Revoke(t)
  PROVE  Promised
<1> USE DEF TeardownInv, TypeOK
<1>0. UNCHANGED <<ecState, Given(ceph), escState, Pools, Doomed, Full, Bound, known,
                  boundSeen, newcomers, lateBinds>>
  BY Frame DEF Authorize, Revoke, ecVars, cephVars, poolVars, volVars, cacheVars, histVars
<1>1. CASE Authorize(t)
  <2>1. Authorized' = Authorized \cup {t}
    BY <1>1 DEF Authorize, Authorized
  <2>2. Promise!Authorize(t)
    BY <1>0, <1>1, <2>1, ClassView
    DEF Authorize, Promise!Authorize, Promise!clusterVars, Promise!shownVars,
        Promise!exceptVars, Pools, Doomed, Authorized, Full
  <2> QED
    BY <2>2, ByClass DEF Promise!ClassNext
<1>2. CASE Revoke(t) /\ escState[t] = "live"
  <2>1. Authorized' = Authorized \ {t}
    BY <1>2 DEF Revoke, Authorized
  <2>2. Promise!Withdraw(t)
    BY <1>0, <1>2, <2>1
    DEF Promise!Withdraw, Promise!clusterVars, Promise!shownVars,
        Promise!exceptVars, Pools, Doomed, Authorized, Full
  <2> QED
    BY <2>2, ByClass DEF Promise!ClassNext
<1>3. CASE Revoke(t) /\ escState[t] # "live"
  <2>1. UNCHANGED Authorized
    BY <1>3 DEF Revoke, Authorized
  <2> QED
    BY <1>0, <2>1, Stutters DEF Promised
<1> QED
  BY <1>1, <1>2, <1>3

LEMMA CustodyVolume ==
  ASSUME TeardownInv, NEW t \in ESC, Bind(t) \/ Release(t) \/ Discard(t)
  PROVE  Promised
<1> USE DEF TeardownInv, TypeOK
<1>0. UNCHANGED <<ecState, Given(ceph), escState, Pools, Doomed, Authorized, known,
                  boundSeen, newcomers>>
  BY Frame DEF Bind, Release, Discard, ecVars, cephVars, escVars, poolVars, cacheVars,
               histVars
<1>1. CASE Bind(t)
  <2>1. Pools[t] # "absent"
    BY <1>1, ClassView DEF Bind, Given
  <2>2. Bound' = Bound \cup {t} /\ Full' = Full \cup {t}
    BY <1>1 DEF Bind, Bound, Full
  <2>3. Promise!Bind(t)
    BY <1>0, <1>1, <2>1, <2>2
    DEF Bind, Promise!Bind, Promise!clusterVars, Promise!shownVars, Pools, Doomed,
        Authorized, Full
  <2> QED
    BY <2>3, ByClass DEF Promise!ClassNext
<1>2. CASE Release(t) \/ Discard(t)
  <2>1. Bound' = Bound \ {t}
    BY <1>2 DEF Release, Discard, Bound
  <2>2. data' = data \/ data' = [data EXCEPT ![t] = FALSE]
    BY <1>2 DEF Release, Discard
  <2>3. Full' \in {Full, Full \ {t}}
    BY <2>2 DEF Full
  <2>4. Promise!Release(t)
    BY <1>0, <1>2, <2>1, <2>3
    DEF Release, Discard, histVars, Promise!Release, Promise!clusterVars,
        Promise!shownVars, Promise!exceptVars, Pools, Doomed, Authorized, Full
  <2> QED
    BY <2>4, ByClass DEF Promise!ClassNext
<1> QED
  BY <1>1, <1>2

LEMMA CustodyStep ==
  ASSUME TeardownInv, [Next]_vars
  PROVE  [Promise!Next]_(Promise!vars)
<1>1. Promised
  BY CustodyUpsertCeph, CustodyDeleteCeph, CustodyConfirm, CustodyRookCeph,
     CustodyDeleteEc, CustodySync, CustodyQuiet, CustodyUpsertPool, CustodyDestroy,
     CustodyDeletePool, CustodyRookPool, CustodyEscConfirm, CustodyCreate,
     CustodyDeleteEsc, CustodyForce, CustodyVolume
  DEF Next, Controllers, External, Users, EcStep, EscStep
<1> QED
  BY <1>1 DEF Promised

\* The teardown implements Custody: seen through the objects that hold data, every
\* step of controllers, Rook, operators and applications is one that Custody allows.
THEOREM CustodyRefined == Spec => ImplementsCustody
<1>1. Init => Promise!Init
  BY CustodyInit
<1>2. TeardownInv /\ [Next]_vars => [Promise!Next]_(Promise!vars)
  BY CustodyStep
<1> QED
  BY <1>1, <1>2, TeardownSafe, PTL DEF Spec, ImplementsCustody, Promise!Spec

\* What the promise alone implies.
Heed == Promise!TypeOK /\ Promise!Kept

LEMMA HeedCluster ==
  ASSUME Heed, Promise!ClusterNext
  PROVE  Heed'
<1> USE DEF Heed, Promise!TypeOK, Promise!Kept, Promise!Released, Promise!Existing,
            Promise!clusterVars, Promise!dataVars, Promise!shownVars,
            Promise!exceptVars
<1>1. CASE Promise!ProvideBackend
  BY <1>1 DEF Promise!ProvideBackend
<1>2. CASE Promise!RequestCluster
  BY <1>2 DEF Promise!RequestCluster
<1>3. CASE Promise!GiveUpBackend
  BY <1>3 DEF Promise!GiveUpBackend
<1>4. CASE Promise!RemoveBackend
  BY <1>4 DEF Promise!RemoveBackend
<1>5. CASE Promise!LeaveCluster
  BY <1>5 DEF Promise!LeaveCluster
<1> QED
  BY <1>1, <1>2, <1>3, <1>4, <1>5 DEF Promise!ClusterNext

LEMMA HeedClass ==
  ASSUME Heed, NEW s \in ESC, Promise!ClassNext(s)
  PROVE  Heed'
<1> USE DEF Heed, Promise!TypeOK, Promise!Kept, Promise!Released, Promise!Existing,
            Promise!clusterVars, Promise!dataVars, Promise!shownVars,
            Promise!exceptVars
<1>1. CASE Promise!CreateClass(s)
  BY <1>1 DEF Promise!CreateClass
<1>2. CASE Promise!ProvidePool(s)
  BY <1>2 DEF Promise!ProvidePool
<1>3. CASE Promise!RequestClass(s)
  BY <1>3 DEF Promise!RequestClass
<1>4. CASE Promise!Doom(s)
  BY <1>4 DEF Promise!Doom
<1>5. CASE Promise!GiveUpPool(s)
  BY <1>5 DEF Promise!GiveUpPool
<1>6. CASE Promise!RemovePool(s)
  BY <1>6 DEF Promise!RemovePool
<1>7. CASE Promise!LeaveClass(s)
  BY <1>7 DEF Promise!LeaveClass
<1>8. CASE Promise!Authorize(s) \/ Promise!Withdraw(s)
  BY <1>8 DEF Promise!Authorize, Promise!Withdraw
<1>9. CASE Promise!Bind(s)
  BY <1>9 DEF Promise!Bind
<1>10. CASE Promise!Release(s)
  BY <1>10 DEF Promise!Release
<1> QED
  BY <1>1, <1>2, <1>3, <1>4, <1>5, <1>6, <1>7, <1>8, <1>9, <1>10
  DEF Promise!ClassNext

\* Custody alone keeps a backend under the classes that could be known of, a pool
\* under the volumes bound in time, and leaves nothing of what is gone; with
\* CustodyRefined this holds of the teardown at every moment.
THEOREM CustodyKept == ImplementsCustody => []Promise!Kept
<1>1. Promise!Init => Heed
  BY DEF Promise!Init, Heed, Promise!TypeOK, Promise!Kept, Promise!Existing
<1>2. Heed /\ [Promise!Next]_(Promise!vars) => Heed'
  <2> SUFFICES ASSUME Heed, [Promise!Next]_(Promise!vars) PROVE Heed'
    OBVIOUS
  <2>1. CASE Promise!ShowClasses \/ Promise!ShowVolumes \/ UNCHANGED Promise!vars
    BY <2>1
    DEF Heed, Promise!ShowClasses, Promise!ShowVolumes, Promise!vars, Promise!TypeOK,
        Promise!Kept, Promise!Released, Promise!Existing, Promise!clusterVars,
        Promise!dataVars, Promise!shownVars, Promise!exceptVars
  <2> QED
    BY <2>1, HeedCluster, HeedClass DEF Promise!Next
<1>3. Heed => Promise!Kept
  BY DEF Heed
<1> QED
  BY <1>1, <1>2, <1>3, PTL DEF ImplementsCustody, Promise!Spec
=============================================================================
