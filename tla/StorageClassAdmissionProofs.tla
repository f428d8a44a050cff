--------------------- MODULE StorageClassAdmissionProofs ---------------------
(***************************************************************************)
(* Proofs about StorageClassAdmission, for any clusters, nodes, devices    *)
(* and thresholds.                                                         *)
(***************************************************************************)
EXTENDS StorageClassAdmission, FiniteSetTheorems, TLAPS

-----------------------------------------------------------------------------
(* The inductive invariant. *)

Hosts(devices) == {Host[b] : b \in devices} \cap Node

\* A cluster that is there and large enough has been seen to be so.
SizeSeen(c) ==
  /\ cluster[c] # "absent" /\ Cardinality(matching[nodeSelector[c]]) >= MinNodes => wide[c]
  /\ cluster[c] # "absent" /\ Cardinality(Hosts(adopted[c])) >= MinOSDNodes => spread[c]

\* A stored class that promotes its cluster was vetted, and so was a promotion.
Vetted(c) ==
  /\ hasHighRedundancy(c) /\ ~overtaken[c] => (wide[c] \/ misjudged[c]) /\ spread[c]
  /\ promoted[c] /\ ~overtaken[c] => (wide[c] \/ misjudged[c]) /\ spread[c]

\* What the review has established so far.
ReviewInv ==
  pc # "idle" =>
    LET c == review.new.clusterRef
    IN  /\ review.op = "UPDATE" => review.old \in Stored /\ ~review.reserved
        /\ pc # "rules" => review.new \in Stored
        /\ pc \in {"cluster", "nodes", "devices"} => review.op = "CREATE"
        /\ pc \in {"nodes", "devices"} /\ ~overtaken[c] => cluster[c] # "absent"
        /\ pc = "nodes" => review.nodeSel \in Selector
        /\ pc = "devices" /\ ~overtaken[c] /\ review.nodes >= MinNodes
           => wide[c] \/ misjudged[c]
        /\ /\ pc \in {"fields", "admitted"} /\ review.op = "CREATE" /\ ~overtaken[c]
           /\ review.new.replication = "HighRedundancy"
           => (wide[c] \/ misjudged[c]) /\ spread[c]
        /\ pc = "admitted" /\ review.op = "UPDATE" => review.new = review.old

VettingInv ==
  /\ TypeOK
  /\ \A c \in Cluster : SizeSeen(c) /\ Vetted(c)
  /\ ReviewInv

-----------------------------------------------------------------------------
(* Counting. *)

LEMMA NodeCount ==
  ASSUME NEW S \in SUBSET Node
  PROVE  Cardinality(S) \in 0..Cardinality(Node)
BY FS_Subset, FS_CardinalityType, ConstAssumption

LEMMA HostsOfDevices ==
  ASSUME NEW devices \in SUBSET BD
  PROVE  /\ Hosts(devices) \in SUBSET Node
         /\ countDistinctOSDNodes(devices) = Cardinality(Hosts(devices))
<1>1. {Host[b] : b \in devices} \ {NoNode} = Hosts(devices)
  BY ConstAssumption DEF Hosts
<1> QED
  BY <1>1 DEF countDistinctOSDNodes, Hosts

LEMMA SpecFields ==
  ASSUME NEW s \in ElasticStorageClassSpec, NEW t \in ElasticStorageClassSpec
  PROVE  /\ s.clusterRef \in Cluster
         /\ (\A field \in {"clusterRef", "type", "replication"} : s[field] = t[field]) => s = t
BY DEF ElasticStorageClassSpec

LEMMA ReviewFields ==
  ASSUME TypeOK, pc # "idle"
  PROVE  /\ review \in Review /\ review.new \in ElasticStorageClassSpec
         /\ review.new.clusterRef \in Cluster
         /\ review.nodes \in 0..Cardinality(Node)
         /\ review.nodeSel \in Selector \cup {NoSelector}
BY DEF TypeOK, Review, ElasticStorageClassSpec

-----------------------------------------------------------------------------
(* Each step. *)

LEMMA VettingInit == Init => VettingInv
<1> SUFFICES ASSUME Init PROVE VettingInv
  OBVIOUS
<1>1. TypeOK
  BY DEF Init, TypeOK
<1>2. \A c \in Cluster : SizeSeen(c) /\ Vetted(c)
  <2>1. \A c \in Cluster : cluster[c] = "absent" /\ ~promoted[c]
    BY DEF Init
  <2>2. \A c \in Cluster : SizeSeen(c)
    BY <2>1 DEF SizeSeen
  <2> QED
    BY <2>1, <2>2 DEF Init, Vetted, hasHighRedundancy
<1> QED
  BY <1>1, <1>2 DEF Init, VettingInv, ReviewInv

\* A rejection leaves nothing behind.
LEMMA RejectStep == ASSUME VettingInv, Reject PROVE VettingInv'
BY DEF Reject, VettingInv, TypeOK, SizeSeen, Vetted, ReviewInv, hasHighRedundancy,
       clusterVars, sizeVars

LEMMA SubmitStep ==
  ASSUME VettingInv, NEW new \in ElasticStorageClassSpec, NEW reserved \in BOOLEAN,
         Submit(new, reserved)
  PROVE  VettingInv'
<1>1. /\ UNCHANGED <<clusterVars, sizeVars, class>> /\ pc' = "rules"
      /\ review' = [op |-> IF class = NoClass THEN "CREATE" ELSE "UPDATE",
                    reserved |-> reserved, new |-> new, old |-> class,
                    nodeSel |-> NoSelector, nodes |-> 0]
      /\ reserved => class = NoClass
  BY DEF Submit
<1>2. 0 \in 0..Cardinality(Node)
  BY FS_CardinalityType, ConstAssumption
<1>3. review' \in Review
  BY <1>1, <1>2 DEF VettingInv, TypeOK, Stored, Review
<1>4. TypeOK'
  BY <1>1, <1>3 DEF VettingInv, TypeOK, clusterVars, sizeVars
<1>5. ReviewInv'
  BY <1>1 DEF VettingInv, TypeOK, ReviewInv
<1> QED
  BY <1>1, <1>4, <1>5
  DEF VettingInv, SizeSeen, Vetted, hasHighRedundancy, clusterVars, sizeVars

\* The review goes on, nothing else changes.
LEMMA ReviewGoesOn ==
  ASSUME VettingInv, UNCHANGED <<clusterVars, sizeVars, class, review>>, pc # "idle",
         pc' \in {"cluster", "nodes", "devices", "fields", "admitted"}, ReviewInv'
  PROVE  VettingInv'
BY DEF VettingInv, TypeOK, SizeSeen, Vetted, hasHighRedundancy, clusterVars, sizeVars

LEMMA CheckRulesStep == ASSUME VettingInv, CheckRules PROVE VettingInv'
<1>1. CASE Forbidden
  BY <1>1, RejectStep DEF CheckRules
<1>2. CASE ~Forbidden
  <2>1. /\ UNCHANGED <<clusterVars, sizeVars, class, review>> /\ pc = "rules"
        /\ pc' = IF NeedsPreflight THEN "cluster" ELSE "fields"
    BY <1>2 DEF CheckRules
  <2>2. review.new \in Stored
    BY <1>2, <2>1, ReviewFields DEF VettingInv, Forbidden, Stored
  <2>3. ReviewInv'
    BY <2>1, <2>2 DEF VettingInv, ReviewInv, NeedsPreflight, clusterVars
  <2> QED
    BY <2>1, <2>3, ReviewGoesOn
<1> QED
  BY <1>1, <1>2

\* The cluster is there, and so is its selector.
LEMMA GetClusterStep == ASSUME VettingInv, GetCluster PROVE VettingInv'
<1> DEFINE c == review.new.clusterRef
<1>1. CASE cluster[c] = "absent"
  BY <1>1, RejectStep DEF GetCluster
<1>2. CASE cluster[c] # "absent"
  <2>1. /\ UNCHANGED <<clusterVars, sizeVars, class>> /\ pc = "cluster" /\ pc' = "nodes"
        /\ review' = [review EXCEPT !.nodeSel = nodeSelector[c]]
    BY <1>2 DEF GetCluster
  <2>2. review \in Review /\ c \in Cluster
    BY <2>1, ReviewFields DEF VettingInv
  <2>3. nodeSelector[c] \in Selector
    BY <1>2, <2>2 DEF VettingInv, TypeOK
  <2>4. /\ review' \in Review /\ review'.nodeSel = nodeSelector[c]
        /\ review'.new = review.new /\ review'.op = review.op
        /\ review'.old = review.old /\ review'.reserved = review.reserved
    BY <2>1, <2>2, <2>3 DEF Review
  <2>5. ReviewInv'
    BY <1>2, <2>1, <2>3, <2>4 DEF VettingInv, ReviewInv, clusterVars
  <2>6. TypeOK'
    BY <2>1, <2>4 DEF VettingInv, TypeOK, clusterVars, sizeVars
  <2> QED
    BY <2>1, <2>5, <2>6
    DEF VettingInv, SizeSeen, Vetted, hasHighRedundancy, clusterVars, sizeVars
<1> QED
  BY <1>1, <1>2

\* The count is one of the cluster's own selector, or the history says that it is not.
LEMMA ListNodesStep == ASSUME VettingInv, ListNodes PROVE VettingInv'
<1> DEFINE c == review.new.clusterRef
           count == Cardinality(matching[review.nodeSel])
<1>1. /\ UNCHANGED <<cluster, nodeSelector, promoted, wide, spread, overtaken, sizeVars, class>>
      /\ pc = "nodes" /\ pc' = "devices"
      /\ review' = [review EXCEPT !.nodes = count]
      /\ misjudged' = [misjudged EXCEPT ![c] =
                         @ \/ (review.nodeSel # nodeSelector[c] /\ count >= MinNodes)]
  BY DEF ListNodes, allowedNodeNames
<1>2. review \in Review /\ c \in Cluster /\ review.nodeSel \in Selector
  BY <1>1, ReviewFields DEF VettingInv, ReviewInv
<1>3. count \in 0..Cardinality(Node)
  BY <1>2, NodeCount DEF VettingInv, TypeOK
<1>4. /\ misjudged' \in [Cluster -> BOOLEAN]
      /\ \A d \in Cluster : misjudged[d] => misjudged'[d]
      /\ count >= MinNodes => review.nodeSel = nodeSelector[c] \/ misjudged'[c]
  <2> DEFINE other == review.nodeSel # nodeSelector[c] /\ count >= MinNodes
  <2>1. other \in BOOLEAN
    OBVIOUS
  <2>2. misjudged' = [misjudged EXCEPT ![c] = @ \/ other]
    BY <1>1
  <2>3. count >= MinNodes => other \/ review.nodeSel = nodeSelector[c]
    OBVIOUS
  <2> HIDE DEF other
  <2> QED
    BY <1>2, <2>1, <2>2, <2>3 DEF VettingInv, TypeOK
<1>5. ~overtaken[c] /\ count >= MinNodes => wide[c] \/ misjudged'[c]
  BY <1>1, <1>2, <1>4 DEF VettingInv, ReviewInv, SizeSeen
<1> HIDE DEF count
<1>6. /\ review' \in Review /\ review'.nodes = count /\ review'.new = review.new
      /\ review'.op = review.op /\ review'.old = review.old
      /\ review'.reserved = review.reserved
  BY <1>1, <1>2, <1>3 DEF Review
<1>7. ReviewInv'
  BY <1>1, <1>5, <1>6 DEF VettingInv, ReviewInv
<1>8. TypeOK'
  BY <1>1, <1>4, <1>6 DEF VettingInv, TypeOK, sizeVars
<1> QED
  BY <1>1, <1>4, <1>7, <1>8 DEF VettingInv, SizeSeen, Vetted, hasHighRedundancy, sizeVars

LEMMA ListDevicesStep == ASSUME VettingInv, ListDevices PROVE VettingInv'
<1> DEFINE c == review.new.clusterRef
           small == Undersized(review.nodes, countDistinctOSDNodes(adopted[c]))
<1>1. CASE small
  BY <1>1, RejectStep DEF ListDevices
<1>2. CASE ~small
  <2>1. /\ UNCHANGED <<clusterVars, sizeVars, class, review>>
        /\ pc = "devices" /\ pc' = "fields"
    BY <1>2 DEF ListDevices
  <2>2. c \in Cluster /\ review.nodes \in Nat
    BY <2>1, ReviewFields, FS_CardinalityType, ConstAssumption DEF VettingInv
  <2>3. /\ countDistinctOSDNodes(adopted[c]) = Cardinality(Hosts(adopted[c]))
        /\ Cardinality(Hosts(adopted[c])) \in Nat
    <3>1. adopted[c] \in SUBSET BD
      BY <2>2 DEF VettingInv, TypeOK
    <3> QED
      BY <3>1, HostsOfDevices, NodeCount
  <2>4. review.nodes >= MinNodes /\ Cardinality(Hosts(adopted[c])) >= MinOSDNodes
    BY <1>2, <2>2, <2>3, ConstAssumption DEF Undersized
  <2>5. ~overtaken[c] => (wide[c] \/ misjudged[c]) /\ spread[c]
    BY <2>1, <2>2, <2>4 DEF VettingInv, ReviewInv, SizeSeen
  <2>6. ReviewInv'
    BY <2>1, <2>5 DEF VettingInv, ReviewInv, clusterVars
  <2> QED
    BY <2>1, <2>6, ReviewGoesOn
<1> QED
  BY <1>1, <1>2

LEMMA CheckFieldsStep == ASSUME VettingInv, CheckFields PROVE VettingInv'
<1>1. CASE ~mustImmutable
  BY <1>1, RejectStep DEF CheckFields
<1>2. CASE mustImmutable
  <2>1. /\ UNCHANGED <<clusterVars, sizeVars, class, review>>
        /\ pc = "fields" /\ pc' = "admitted"
    BY <1>2 DEF CheckFields
  <2>2. review.op = "UPDATE" => review.new = review.old
    BY <1>2, <2>1, ReviewFields, SpecFields DEF VettingInv, ReviewInv, Stored, mustImmutable
  <2>3. ReviewInv'
    BY <2>1, <2>2 DEF VettingInv, ReviewInv, clusterVars
  <2> QED
    BY <2>1, <2>3, ReviewGoesOn
<1> QED
  BY <1>1, <1>2

\* What is committed was vetted, or is what was there.
LEMMA CommitStep == ASSUME VettingInv, Commit PROVE VettingInv'
<1>1. /\ UNCHANGED <<clusterVars, sizeVars>> /\ pc = "admitted" /\ pc' = "idle"
      /\ review' = NoClass
      /\ class' = IF class = review.old THEN review.new ELSE class
  BY DEF Commit
<1>2. review \in Review /\ review.new \in Stored
  BY <1>1, ReviewFields DEF VettingInv, ReviewInv
<1>3. CASE review.op = "UPDATE" \/ class # review.old
  <2>1. class' = class
    BY <1>1, <1>3 DEF VettingInv, ReviewInv
  <2> QED
    BY <1>1, <2>1 DEF VettingInv, TypeOK, SizeSeen, Vetted, ReviewInv, hasHighRedundancy,
                      clusterVars, sizeVars
<1>4. CASE review.op = "CREATE" /\ class = review.old
  <2>1. class' = review.new
    BY <1>1, <1>4
  <2>2. TypeOK'
    BY <1>1, <1>2, <2>1 DEF VettingInv, TypeOK, clusterVars, sizeVars
  <2>3. \A c \in Cluster : Vetted(c)'
    BY <1>1, <1>4, <2>1
    DEF VettingInv, Vetted, ReviewInv, hasHighRedundancy, clusterVars
  <2> QED
    BY <1>1, <2>2, <2>3 DEF VettingInv, SizeSeen, ReviewInv, clusterVars, sizeVars
<1> QED
  BY <1>2, <1>3, <1>4 DEF Review

LEMMA DeleteClassStep == ASSUME VettingInv, DeleteClass PROVE VettingInv'
BY DEF DeleteClass, VettingInv, TypeOK, SizeSeen, Vetted, ReviewInv, hasHighRedundancy,
       clusterVars, sizeVars, reviewVars

\* The witness notes the size of every cluster that is there and forgets nothing.
LEMMA WitnessNotes ==
  ASSUME VettingInv, Witness
  PROVE  /\ wide' \in [Cluster -> BOOLEAN] /\ spread' \in [Cluster -> BOOLEAN]
         /\ UNCHANGED <<promoted, overtaken, misjudged>>
         /\ \A d \in Cluster : (wide[d] => wide'[d]) /\ (spread[d] => spread'[d])
         /\ \A d \in Cluster : SizeSeen(d)'
<1>1. /\ wide' \in [Cluster -> BOOLEAN] /\ spread' \in [Cluster -> BOOLEAN]
      /\ UNCHANGED <<promoted, overtaken, misjudged>>
      /\ \A d \in Cluster : (wide[d] => wide'[d]) /\ (spread[d] => spread'[d])
  BY DEF Witness, VettingInv, TypeOK
<1>2. \A d \in Cluster : SizeSeen(d)'
  BY DEF Witness, Hosts, SizeSeen
<1> QED
  BY <1>1, <1>2

\* Whoever changes the size of a cluster, what was vetted stays so.
LEMMA VettedStays ==
  ASSUME VettingInv, UNCHANGED <<promoted, overtaken, misjudged, class, reviewVars>>,
         \A d \in Cluster : (wide[d] => wide'[d]) /\ (spread[d] => spread'[d]),
         \A d \in Cluster : cluster[d] # "absent" => cluster'[d] # "absent"
  PROVE  (\A d \in Cluster : Vetted(d)') /\ ReviewInv'
<1>1. \A d \in Cluster : Vetted(d)'
  BY DEF VettingInv, Vetted, hasHighRedundancy
<1>2. pc # "idle" => review.new.clusterRef \in Cluster
  BY ReviewFields DEF VettingInv
<1>3. ReviewInv'
  BY <1>2 DEF VettingInv, ReviewInv, reviewVars
<1> QED
  BY <1>1, <1>3

\* Nodes, selectors, devices and new clusters: the size changes, and is noted.
LEMMA SizeStep ==
  ASSUME VettingInv, Witness, UNCHANGED <<class, reviewVars>>,
         cluster' \in [Cluster -> {"absent", "live", "released"}],
         \A d \in Cluster : cluster[d] # "absent" => cluster'[d] # "absent",
         nodeSelector' \in [Cluster -> Selector \cup {NoSelector}],
         \A d \in Cluster : nodeSelector'[d] = NoSelector <=> cluster'[d] = "absent",
         matching' \in [Selector -> SUBSET Node], adopted' \in [Cluster -> SUBSET BD]
  PROVE  VettingInv'
<1>1. TypeOK'
  BY WitnessNotes DEF VettingInv, TypeOK, reviewVars
<1> QED
  BY <1>1, WitnessNotes, VettedStays DEF VettingInv

LEMMA NodesChangeStep ==
  ASSUME VettingInv, NEW sel \in Selector, NEW n \in Node, NodesChange(sel, n)
  PROVE  VettingInv'
<1>1. /\ UNCHANGED <<cluster, nodeSelector, adopted, class, reviewVars>> /\ Witness
      /\ matching' = [matching EXCEPT ![sel] = IF n \in @ THEN @ \ {n} ELSE @ \cup {n}]
  BY DEF NodesChange
<1>2. matching' \in [Selector -> SUBSET Node]
  BY <1>1 DEF VettingInv, TypeOK
<1> QED
  BY <1>1, <1>2, SizeStep DEF VettingInv, TypeOK

LEMMA EditSelectorStep ==
  ASSUME VettingInv, NEW c \in Cluster, NEW sel \in Selector, EditSelector(c, sel)
  PROVE  VettingInv'
<1>1. /\ UNCHANGED <<cluster, sizeVars, class, reviewVars>> /\ Witness
      /\ cluster[c] # "absent"
      /\ nodeSelector' = [nodeSelector EXCEPT ![c] = sel]
  BY DEF EditSelector
<1>2. /\ nodeSelector' \in [Cluster -> Selector \cup {NoSelector}]
      /\ \A d \in Cluster : nodeSelector'[d] = NoSelector <=> cluster'[d] = "absent"
  BY <1>1, ClassAssumption DEF VettingInv, TypeOK
<1> QED
  BY <1>1, <1>2, SizeStep DEF VettingInv, TypeOK, sizeVars

LEMMA DevicesChangeStep ==
  ASSUME VettingInv, NEW c \in Cluster, NEW b \in BD, DevicesChange(c, b)
  PROVE  VettingInv'
<1>1. /\ UNCHANGED <<cluster, nodeSelector, matching, class, reviewVars>> /\ Witness
      /\ adopted' = [adopted EXCEPT ![c] = IF b \in @ THEN @ \ {b} ELSE @ \cup {b}]
  BY DEF DevicesChange
<1>2. adopted' \in [Cluster -> SUBSET BD]
  BY <1>1 DEF VettingInv, TypeOK
<1> QED
  BY <1>1, <1>2, SizeStep DEF VettingInv, TypeOK

LEMMA PromoteStep ==
  ASSUME VettingInv, NEW c \in Cluster, Promote(c)
  PROVE  VettingInv'
<1>1. TypeOK'
  BY DEF Promote, VettingInv, TypeOK, sizeVars, reviewVars
<1> QED
  BY <1>1 DEF Promote, VettingInv, TypeOK, SizeSeen, Vetted, ReviewInv, hasHighRedundancy,
              sizeVars, reviewVars

LEMMA CreateClusterStep ==
  ASSUME VettingInv, NEW c \in Cluster, CreateCluster(c)
  PROVE  VettingInv'
<1>1. /\ UNCHANGED <<sizeVars, class, reviewVars>> /\ Witness
      /\ cluster' = [cluster EXCEPT ![c] = "live"]
  BY DEF CreateCluster
<1>2. PICK sel \in Selector : nodeSelector' = [nodeSelector EXCEPT ![c] = sel]
  BY DEF CreateCluster
<1>3. /\ cluster' \in [Cluster -> {"absent", "live", "released"}]
      /\ \A d \in Cluster : cluster[d] # "absent" => cluster'[d] # "absent"
      /\ nodeSelector' \in [Cluster -> Selector \cup {NoSelector}]
      /\ \A d \in Cluster : nodeSelector'[d] = NoSelector <=> cluster'[d] = "absent"
  BY <1>1, <1>2, ClassAssumption DEF VettingInv, TypeOK
<1> QED
  BY <1>1, <1>3, SizeStep DEF VettingInv, TypeOK, sizeVars

LEMMA ReleaseClusterStep ==
  ASSUME VettingInv, NEW c \in Cluster, ReleaseCluster(c)
  PROVE  VettingInv'
<1>1. /\ UNCHANGED <<nodeSelector, promoted, wide, spread, overtaken, misjudged, sizeVars,
                     class, reviewVars>>
      /\ cluster' = [cluster EXCEPT ![c] = "released"] /\ cluster[c] = "live"
  BY DEF ReleaseCluster
<1>2. /\ cluster' \in [Cluster -> {"absent", "live", "released"}]
      /\ \A d \in Cluster : cluster[d] # "absent" <=> cluster'[d] # "absent"
  BY <1>1 DEF VettingInv, TypeOK
<1>3. TypeOK'
  BY <1>1, <1>2 DEF VettingInv, TypeOK, sizeVars, reviewVars
<1>4. \A d \in Cluster : SizeSeen(d)'
  BY <1>1, <1>2 DEF VettingInv, SizeSeen, sizeVars
<1> QED
  BY <1>1, <1>2, <1>3, <1>4, VettedStays DEF VettingInv

\* A cluster that goes under a class or a review is overtaken.
LEMMA FinalizeClusterStep ==
  ASSUME VettingInv, NEW c \in Cluster, FinalizeCluster(c)
  PROVE  VettingInv'
<1> DEFINE caught == \/ class # NoClass /\ class.clusterRef = c
                     \/ /\ pc \in {"nodes", "devices", "fields", "admitted"}
                        /\ review.new.clusterRef = c
<1>1. /\ UNCHANGED <<sizeVars, class, reviewVars>>
      /\ cluster' = [cluster EXCEPT ![c] = "absent"]
      /\ nodeSelector' = [nodeSelector EXCEPT ![c] = NoSelector]
      /\ promoted' = [promoted EXCEPT ![c] = FALSE]
      /\ wide' = [wide EXCEPT ![c] = FALSE] /\ spread' = [spread EXCEPT ![c] = FALSE]
      /\ misjudged' = [misjudged EXCEPT ![c] = FALSE]
      /\ overtaken' = [overtaken EXCEPT ![c] = @ \/ caught]
  BY DEF FinalizeCluster
<1>2. /\ \A d \in Cluster \ {c} :
           /\ cluster'[d] = cluster[d] /\ promoted'[d] = promoted[d]
           /\ wide'[d] = wide[d] /\ spread'[d] = spread[d]
           /\ nodeSelector'[d] = nodeSelector[d] /\ overtaken'[d] = overtaken[d]
           /\ misjudged'[d] = misjudged[d]
      /\ cluster'[c] = "absent" /\ ~promoted'[c] /\ nodeSelector'[c] = NoSelector
      /\ overtaken'[c] <=> overtaken[c] \/ caught
  BY <1>1 DEF VettingInv, TypeOK
<1>3. TypeOK'
  <2>1. caught \in BOOLEAN
    OBVIOUS
  <2> HIDE DEF caught
  <2>2. overtaken' \in [Cluster -> BOOLEAN]
    BY <1>1, <2>1 DEF VettingInv, TypeOK
  <2>3. /\ cluster' \in [Cluster -> {"absent", "live", "released"}]
        /\ nodeSelector' \in [Cluster -> Selector \cup {NoSelector}]
        /\ promoted' \in [Cluster -> BOOLEAN] /\ misjudged' \in [Cluster -> BOOLEAN]
        /\ wide' \in [Cluster -> BOOLEAN] /\ spread' \in [Cluster -> BOOLEAN]
    BY <1>1 DEF VettingInv, TypeOK
  <2>4. \A d \in Cluster : nodeSelector'[d] = NoSelector <=> cluster'[d] = "absent"
    BY <1>2 DEF VettingInv, TypeOK
  <2> QED
    BY <1>1, <2>2, <2>3, <2>4 DEF VettingInv, TypeOK, sizeVars, reviewVars
<1>4. \A d \in Cluster : SizeSeen(d)'
  BY <1>1, <1>2 DEF VettingInv, SizeSeen, sizeVars
<1>5. \A d \in Cluster : Vetted(d)'
  BY <1>1, <1>2 DEF VettingInv, Vetted, hasHighRedundancy
<1>6. ReviewInv'
  <2>1. pc # "idle" => review.new.clusterRef \in Cluster
    BY ReviewFields DEF VettingInv
  <2> QED
    BY <1>1, <1>2, <2>1 DEF VettingInv, ReviewInv, reviewVars
<1> QED
  BY <1>3, <1>4, <1>5, <1>6 DEF VettingInv

LEMMA VettingStep == ASSUME VettingInv, [Next]_vars PROVE VettingInv'
<1>1. CASE ReadFails
  BY <1>1, RejectStep DEF ReadFails
<1>2. CASE UNCHANGED vars
  BY <1>2 DEF vars, VettingInv, TypeOK, SizeSeen, Vetted, ReviewInv, hasHighRedundancy,
              clusterVars, sizeVars, reviewVars
<1> QED
  BY <1>1, <1>2, SubmitStep, CheckRulesStep, GetClusterStep, ListNodesStep,
     ListDevicesStep, CheckFieldsStep, CommitStep, DeleteClassStep, NodesChangeStep,
     EditSelectorStep, DevicesChangeStep, PromoteStep, CreateClusterStep, ReleaseClusterStep,
     FinalizeClusterStep
  DEF Next, ReviewStep

-----------------------------------------------------------------------------
(* The theorems. *)

\* The invariant above holds of every reachable state.
THEOREM Vetting == Spec => []VettingInv
<1>1. Init => VettingInv
  BY VettingInit
<1>2. VettingInv /\ [Next]_vars => VettingInv'
  BY VettingStep
<1> QED
  BY <1>1, <1>2, PTL DEF Spec

\* The mon plane is raised only in a cluster that has had enough nodes with devices since
\* its creation, and enough nodes matching the selector it had then, unless the selector
\* was edited between the two reads of a review or the cluster went under the class or
\* its review.
THEOREM PromotionsVetted == Spec => []PromotionVetted
<1>1. VettingInv => PromotionVetted
  BY DEF VettingInv, Vetted, PromotionVetted
<1> QED
  BY <1>1, Vetting, PTL

LEMMA HarmlessStep ==
  ASSUME VettingInv, [Next]_vars, pc # "idle", pc' = "idle",
         review.op = "UPDATE", review.new = review.old
  PROVE  pc = "admitted"
<1>1. review.old \in Stored /\ ~review.reserved
  BY DEF VettingInv, ReviewInv
<1>2. ~Forbidden /\ mustImmutable
  BY <1>1 DEF Forbidden, mustImmutable, Stored
<1>3. pc \notin {"cluster", "nodes", "devices"}
  BY DEF VettingInv, ReviewInv
<1>4. CASE CheckRules \/ CheckFields
  BY <1>2, <1>4 DEF CheckRules, CheckFields
<1>5. CASE GetCluster \/ ListNodes \/ ListDevices \/ ReadFails \/ Commit
  BY <1>3, <1>5 DEF GetCluster, ListNodes, ListDevices, ReadFails, Commit
<1>6. ASSUME NEW c \in Cluster,
             \/ (\E sel \in Selector : EditSelector(c, sel))
             \/ (\E b \in BD : DevicesChange(c, b))
             \/ Promote(c) \/ CreateCluster(c) \/ ReleaseCluster(c) \/ FinalizeCluster(c)
      PROVE  FALSE
  BY <1>6 DEF EditSelector, DevicesChange, Promote, CreateCluster, ReleaseCluster,
              FinalizeCluster, reviewVars
<1>7. CASE \/ \E new \in ElasticStorageClassSpec, reserved \in BOOLEAN : Submit(new, reserved)
           \/ DeleteClass \/ (\E sel \in Selector, n \in Node : NodesChange(sel, n))
           \/ UNCHANGED vars
  BY <1>7 DEF Submit, DeleteClass, NodesChange, vars, reviewVars
<1> QED
  BY <1>4, <1>5, <1>6, <1>7 DEF Next, ReviewStep

\* An update that leaves the fields alone is never rejected.
THEOREM HarmlessUpdatesAdmitted == Spec => HarmlessUpdatesPass
<1>1. VettingInv /\ [Next]_vars =>
        [pc # "idle" /\ pc' = "idle" /\ review.op = "UPDATE" /\ review.new = review.old
           => pc = "admitted"]_vars
  BY HarmlessStep
<1> QED
  BY <1>1, Vetting, PTL DEF Spec, HarmlessUpdatesPass

\* Every variable keeps its type.
THEOREM TypeCorrect == Spec => []TypeOK
<1>1. VettingInv => TypeOK
  BY DEF VettingInv
<1> QED
  BY <1>1, Vetting, PTL
=============================================================================
