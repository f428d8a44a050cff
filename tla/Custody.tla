------------------------------- MODULE Custody -------------------------------
(***************************************************************************)
(* What the teardown promises about data, whatever its passes, caches of   *)
(* intermediate objects and annotations look like.  A pool is given up     *)
(* only for a class whose deletion was requested, never under a volume     *)
(* that was bound in time, and its data goes with it only on the           *)
(* operator's word; the backend of a cluster is given up only when every   *)
(* class left is one nobody could know of; and nothing is called gone      *)
(* before what it stands for is gone.                                      *)
(***************************************************************************)
CONSTANTS
  ESC,       \* storage classes
  CephFS     \* those backed by a filesystem

VARIABLES
  cluster, class,  \* absent, live, terminating or gone
  backend,         \* the CephCluster: absent, kept or deleting
  pool,            \* the pool of each class: absent, kept or deleting
  doomed,          \* the filesystems whose data is to go with them
  authorized,      \* the classes whose data the operator has given up
  full, bound,     \* the classes with data, and those with a bound volume
  known, seen,     \* what is shown of the classes, and of the bound volumes
  unknown,         \* classes not shown when the cluster was to be deleted
  late             \* volumes bound, or shown, only after that of their class

clusterVars == <<cluster, backend>>
dataVars == <<doomed, authorized, full, bound>>
shownVars == <<known, seen>>
exceptVars == <<unknown, late>>
vars == <<clusterVars, class, pool, dataVars, shownVars, exceptVars>>

Existing == {s \in ESC : class[s] \in {"live", "terminating"}}

Init ==
  /\ cluster = "live" /\ backend = "absent"
  /\ class = [s \in ESC |-> "absent"] /\ pool = [s \in ESC |-> "absent"]
  /\ doomed = {} /\ authorized = {} /\ full = {} /\ bound = {}
  /\ known = {} /\ seen = {} /\ unknown = {} /\ late = {}

-----------------------------------------------------------------------------
(* The cluster. *)

ProvideBackend ==
  /\ cluster \in {"live", "terminating"}
  /\ backend = "absent"
  /\ backend' = "kept"
  /\ UNCHANGED <<cluster, class, pool, dataVars, shownVars, exceptVars>>

RequestCluster ==
  /\ cluster = "live"
  /\ \/ cluster' = "terminating"
     \/ cluster' = "gone" /\ backend = "absent"
  /\ unknown' = Existing \ known
  /\ UNCHANGED <<backend, class, pool, dataVars, shownVars, late>>

GiveUpBackend ==
  /\ cluster = "terminating"
  /\ backend = "kept"
  /\ Existing \subseteq unknown
  /\ backend' = "deleting"
  /\ UNCHANGED <<cluster, class, pool, dataVars, shownVars, exceptVars>>

RemoveBackend ==
  /\ backend = "deleting"
  /\ \A s \in ESC : pool[s] = "absent"
  /\ backend' = "absent"
  /\ UNCHANGED <<cluster, class, pool, dataVars, shownVars, exceptVars>>

LeaveCluster ==
  /\ cluster = "terminating"
  /\ backend = "absent"
  /\ cluster' = "gone"
  /\ UNCHANGED <<backend, class, pool, dataVars, shownVars, exceptVars>>

-----------------------------------------------------------------------------
(* A storage class. *)

CreateClass(s) ==
  /\ class[s] = "absent"
  /\ class' = [class EXCEPT ![s] = "live"]
  /\ unknown' = IF cluster = "terminating" THEN unknown \cup {s} ELSE unknown
  /\ UNCHANGED <<clusterVars, pool, dataVars, shownVars, late>>

\* Also makes sure that a filesystem is preserved.
ProvidePool(s) ==
  /\ s \in Existing
  /\ pool[s] # "deleting"
  /\ pool' = [pool EXCEPT ![s] = "kept"]
  /\ doomed' = doomed \ {s}
  /\ UNCHANGED <<clusterVars, class, authorized, full, bound, shownVars, exceptVars>>

RequestClass(s) ==
  /\ class[s] = "live"
  /\ \/ class' = [class EXCEPT ![s] = "terminating"]
     \/ class' = [class EXCEPT ![s] = "gone"] /\ pool[s] = "absent"
  /\ late' = late \cup (({s} \cap bound) \ seen)
  /\ UNCHANGED <<clusterVars, pool, dataVars, shownVars, unknown>>

Doom(s) ==
  /\ s \in CephFS
  /\ class[s] = "terminating"
  /\ pool[s] = "kept"
  /\ doomed' = doomed \cup {s}
  /\ UNCHANGED <<clusterVars, class, pool, authorized, full, bound, shownVars,
                 exceptVars>>

\* What the pool may be given up, and removed, under.
Released(s) ==
  /\ class[s] = "terminating"
  /\ s \in CephFS => s \in doomed
  /\ s \in bound => s \in late

GiveUpPool(s) ==
  /\ Released(s)
  /\ pool[s] = "kept"
  /\ pool' = [pool EXCEPT ![s] = "deleting"]
  /\ UNCHANGED <<clusterVars, class, dataVars, shownVars, exceptVars>>

RemovePool(s) ==
  /\ Released(s)
  /\ pool[s] = "deleting"
  /\ s \in full => s \in authorized \ CephFS
  /\ pool' = [pool EXCEPT ![s] = "absent"]
  /\ doomed' = doomed \ {s} /\ full' = full \ {s}
  /\ UNCHANGED <<clusterVars, class, authorized, bound, shownVars, exceptVars>>

LeaveClass(s) ==
  /\ class[s] = "terminating"
  /\ pool[s] = "absent"
  /\ class' = [class EXCEPT ![s] = "gone"]
  /\ authorized' = authorized \ {s}
  /\ unknown' = unknown \ {s} /\ late' = late \ {s}
  /\ UNCHANGED <<clusterVars, pool, doomed, full, bound, shownVars>>

-----------------------------------------------------------------------------
(* The operator, the applications and what they are shown. *)

Authorize(s) ==
  /\ s \in Existing
  /\ authorized' = authorized \cup {s}
  /\ UNCHANGED <<clusterVars, class, pool, doomed, full, bound, shownVars, exceptVars>>

\* Taken back later it may have been acted upon.
Withdraw(s) ==
  /\ class[s] = "live"
  /\ authorized' = authorized \ {s}
  /\ UNCHANGED <<clusterVars, class, pool, doomed, full, bound, shownVars, exceptVars>>

Bind(s) ==
  /\ pool[s] # "absent"
  /\ bound' = bound \cup {s} /\ full' = full \cup {s}
  /\ late' = IF class[s] = "terminating" THEN late \cup {s} ELSE late
  /\ UNCHANGED <<clusterVars, class, pool, doomed, authorized, shownVars, unknown>>

Release(s) ==
  /\ bound' = bound \ {s}
  /\ full' \in {full, full \ {s}}
  /\ UNCHANGED <<clusterVars, class, pool, doomed, authorized, shownVars, exceptVars>>

ShowClasses ==
  /\ known' = Existing
  /\ UNCHANGED <<clusterVars, class, pool, dataVars, seen, exceptVars>>

ShowVolumes ==
  /\ seen' = bound
  /\ UNCHANGED <<clusterVars, class, pool, dataVars, known, exceptVars>>

-----------------------------------------------------------------------------
ClusterNext ==
  ProvideBackend \/ RequestCluster \/ GiveUpBackend \/ RemoveBackend \/ LeaveCluster

ClassNext(s) ==
  \/ CreateClass(s) \/ ProvidePool(s) \/ RequestClass(s) \/ Doom(s) \/ GiveUpPool(s)
  \/ RemovePool(s) \/ LeaveClass(s) \/ Authorize(s) \/ Withdraw(s) \/ Bind(s)
  \/ Release(s)

Next ==
  ClusterNext \/ (\E s \in ESC : ClassNext(s)) \/ ShowClasses \/ ShowVolumes

Spec == Init /\ [][Next]_vars

-----------------------------------------------------------------------------
(* Consequences of the promise. *)

TypeOK ==
  /\ cluster \in {"live", "terminating", "gone"}
  /\ class \in [ESC -> {"absent", "live", "terminating", "gone"}]
  /\ backend \in {"absent", "kept", "deleting"}
  /\ pool \in [ESC -> {"absent", "kept", "deleting"}]

\* A backend under deletion belongs to a cluster under deletion and carries
\* classes nobody could know of at most; a pool under deletion belongs to a
\* class under deletion and carries no volume that was bound in time; and what
\* is gone has nothing left.
Kept ==
  /\ backend = "deleting" => cluster = "terminating" /\ Existing \subseteq unknown
  /\ cluster = "gone" => backend = "absent"
  /\ \A s \in ESC : /\ pool[s] = "deleting" => Released(s)
                    /\ class[s] = "gone" => pool[s] = "absent"
=============================================================================
