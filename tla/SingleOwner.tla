----------------------------- MODULE SingleOwner -----------------------------
(***************************************************************************)
(* What the storage stage promises about disks, whatever its reconcile     *)
(* passes look like: a disk is claimed only while it belongs to nobody, a  *)
(* cluster provisions only disks it has claimed, and the disks counted in  *)
(* its CephCluster only ever become more.  An operator may release a disk; *)
(* nothing is promised about a released one.                               *)
(***************************************************************************)
CONSTANTS EC, BD, NoOwner

VARIABLES
  owner,     \* the cluster a disk is labelled for, or NoOwner
  used,      \* the disks each cluster has put a volume group on
  counted,   \* the disks counted in each CephCluster
  released   \* the disks an operator has relabelled or decommissioned

vars == <<owner, used, counted, released>>

Init ==
  /\ owner = [b \in BD |-> NoOwner]
  /\ used = [e \in EC |-> {}]
  /\ counted = [e \in EC |-> {}]
  /\ released = {}

Claim(e, b) ==
  /\ owner[b] = NoOwner
  /\ owner' = [owner EXCEPT ![b] = e]
  /\ UNCHANGED <<used, counted, released>>

Use(e, b) ==
  /\ owner[b] = e \/ b \in released
  /\ used' = [used EXCEPT ![e] = @ \cup {b}]
  /\ UNCHANGED <<owner, counted, released>>

Count(e, S) ==
  /\ S \subseteq used[e] \cup released
  /\ counted[e] \subseteq S \cup released
  /\ counted' = [counted EXCEPT ![e] = S]
  /\ UNCHANGED <<owner, used, released>>

\* The operator's hand.
Relabel(b, o) ==
  /\ owner' = [owner EXCEPT ![b] = o]
  /\ released' = released \cup {b}
  /\ UNCHANGED <<used, counted>>

Abandon(e, b) ==
  /\ used' = [used EXCEPT ![e] = @ \ {b}]
  /\ released' = released \cup {b}
  /\ UNCHANGED <<owner, counted>>

Next ==
  \/ \E e \in EC, b \in BD : Claim(e, b) \/ Use(e, b) \/ Abandon(e, b)
  \/ \E e \in EC, S \in SUBSET BD : Count(e, S)
  \/ \E b \in BD, o \in EC \cup {NoOwner} : Relabel(b, o)

Spec == Init /\ [][Next]_vars

-----------------------------------------------------------------------------
(* Consequences of the promise. *)

TypeOK ==
  /\ owner \in [BD -> EC \cup {NoOwner}]
  /\ used \in [EC -> SUBSET BD]
  /\ counted \in [EC -> SUBSET BD]
  /\ released \in SUBSET BD

\* Every disk a cluster uses or counts is labelled for it, so no disk serves
\* two clusters.
Exclusive ==
  \A e \in EC : \A b \in (used[e] \cup counted[e]) \ released : owner[b] = e

\* A claim is never taken over: a label that names a cluster changes only by
\* the operator's hand.
NoSilentTransfer ==
  [][\A b \in BD : owner[b] \in EC /\ owner'[b] # owner[b] => b \in released']_vars

\* The OSD count is monotonic, but for the disks the operator released.
OsdCountMonotone ==
  [][\A e \in EC : counted[e] \subseteq counted'[e] \cup released']_vars
=============================================================================
