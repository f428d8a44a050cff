-------------------------- MODULE SingleOwnerProofs --------------------------
(***************************************************************************)
(* What follows from the single-owner promise, for any clusters and disks. *)
(* OsdStorageProofs shows that the storage stage keeps the promise, so it  *)
(* has these properties too.                                               *)
(***************************************************************************)
EXTENDS SingleOwner, TLAPS

\* A counted disk is in use, a disk in use is the cluster's own.
CountedUsed == \A e \in EC : counted[e] \subseteq used[e] \cup released

OwnerInv == TypeOK /\ CountedUsed /\ Exclusive

LEMMA OwnerInit == Init => OwnerInv
BY DEF Init, OwnerInv, TypeOK, CountedUsed, Exclusive

LEMMA OwnerStep ==
  ASSUME NoOwner \notin EC, OwnerInv, [Next]_vars
  PROVE  OwnerInv'
<1> USE DEF OwnerInv
<1>1. ASSUME NEW e \in EC, NEW b \in BD, Claim(e, b)
      PROVE  OwnerInv'
  BY <1>1 DEF Claim, TypeOK, CountedUsed, Exclusive
<1>2. ASSUME NEW e \in EC, NEW b \in BD, Use(e, b)
      PROVE  OwnerInv'
  BY <1>2 DEF Use, TypeOK, CountedUsed, Exclusive
<1>3. ASSUME NEW e \in EC, NEW b \in BD, Abandon(e, b)
      PROVE  OwnerInv'
  BY <1>3 DEF Abandon, TypeOK, CountedUsed, Exclusive
<1>4. ASSUME NEW e \in EC, NEW S \in SUBSET BD, Count(e, S)
      PROVE  OwnerInv'
  BY <1>4 DEF Count, TypeOK, CountedUsed, Exclusive
<1>5. ASSUME NEW b \in BD, NEW o \in EC \cup {NoOwner}, Relabel(b, o)
      PROVE  OwnerInv'
  BY <1>5 DEF Relabel, TypeOK, CountedUsed, Exclusive
<1>6. CASE UNCHANGED vars
  BY <1>6 DEF vars, TypeOK, CountedUsed, Exclusive
<1> QED
  BY <1>1, <1>2, <1>3, <1>4, <1>5, <1>6 DEF Next

\* No disk serves two clusters: one in use or counted, and not released by the
\* operator, is labelled for its cluster.
THEOREM NoSharedDisk == ASSUME NoOwner \notin EC PROVE Spec => []Exclusive
<1>1. Init => OwnerInv
  BY OwnerInit
<1>2. OwnerInv /\ [Next]_vars => OwnerInv'
  BY OwnerStep
<1>3. OwnerInv => Exclusive
  BY DEF OwnerInv
<1> QED
  BY <1>1, <1>2, <1>3, PTL DEF Spec

LEMMA KeepStep ==
  ASSUME NoOwner \notin EC, OwnerInv, [Next]_vars
  PROVE  /\ \A b \in BD : owner[b] \in EC /\ owner'[b] # owner[b] => b \in released'
         /\ \A e \in EC : counted[e] \subseteq counted'[e] \cup released'
<1> USE DEF OwnerInv, TypeOK
<1>1. ASSUME NEW e \in EC, NEW b \in BD, Claim(e, b)
      PROVE  counted' = counted /\ \A c \in BD : owner[c] \in EC => owner'[c] = owner[c]
  BY <1>1 DEF Claim
<1>2. ASSUME NEW e \in EC, NEW b \in BD, Use(e, b) \/ Abandon(e, b)
      PROVE  UNCHANGED <<owner, counted>>
  BY <1>2 DEF Use, Abandon
<1>3. ASSUME NEW e \in EC, NEW S \in SUBSET BD, Count(e, S)
      PROVE  /\ owner' = owner
             /\ \A f \in EC : counted[f] \subseteq counted'[f] \cup released'
  BY <1>3 DEF Count
<1>4. ASSUME NEW b \in BD, NEW o \in EC \cup {NoOwner}, Relabel(b, o)
      PROVE  counted' = counted /\ \A c \in BD : owner'[c] # owner[c] => c \in released'
  BY <1>4 DEF Relabel
<1>5. CASE UNCHANGED vars
  BY <1>5 DEF vars
<1> QED
  BY <1>1, <1>2, <1>3, <1>4, <1>5 DEF Next

\* A claim is never taken over, and the OSD count never drops, but by the
\* operator's hand.
THEOREM ClaimsKept ==
  ASSUME NoOwner \notin EC PROVE Spec => NoSilentTransfer /\ OsdCountMonotone
<1>1. Init => OwnerInv
  BY OwnerInit
<1>2. OwnerInv /\ [Next]_vars => OwnerInv'
  BY OwnerStep
<1>3. OwnerInv /\ [Next]_vars =>
        [\A b \in BD : owner[b] \in EC /\ owner'[b] # owner[b] => b \in released']_vars
  BY KeepStep
<1>4. OwnerInv /\ [Next]_vars =>
        [\A e \in EC : counted[e] \subseteq counted'[e] \cup released']_vars
  BY KeepStep
<1> QED
  BY <1>1, <1>2, <1>3, <1>4, PTL DEF Spec, NoSilentTransfer, OsdCountMonotone
=============================================================================
