------------------------ MODULE StorageClassAdmission ------------------------
(***************************************************************************)
(* Admission of an ElasticStorageClass.  Creating a HighRedundancy class   *)
(* promotes the mon plane of its cluster for good, so the webhook counts   *)
(* the nodes of the cluster and those with adopted devices first.  It      *)
(* reads one thing after the other, and counts the nodes by the selector   *)
(* of the cluster it has read, while selectors, nodes, devices and the     *)
(* cluster itself change.                                                  *)
(*                                                                         *)
(* One class name and one request at a time; the API server commits what   *)
(* is admitted if the object has not been deleted or created since.        *)
(***************************************************************************)
EXTENDS Naturals, FiniteSets

CONSTANTS
  Cluster, Node, BD,
  Selector,     \* what a nodeSelector can be; NoSelector without a cluster
  Host,         \* the node of a device; NoNode before it has been observed
  NoNode, NoClass, NoSelector,
  Growing,      \* the clusters that come and go; the others never exist
  MinNodes,     \* hrMinNodesMatched
  MinOSDNodes   \* hrMinOSDNodes

ASSUME ConstAssumption ==
  /\ IsFiniteSet(Node) /\ IsFiniteSet(BD)
  /\ NoNode \notin Node /\ Host \in [BD -> Node \cup {NoNode}]
  /\ Growing \subseteq Cluster
  /\ MinNodes \in Nat \ {0} /\ MinOSDNodes \in Nat \ {0}

VARIABLES
  cluster,     \* each ElasticCluster: absent, live, or past the teardown's look
               \* at its classes
  nodeSelector,  \* spec.storage.nodeSelector of each
  matching,    \* the nodes with the labels that a selector asks for
  adopted,     \* the devices that carry its label
  class,       \* the spec of the class, NoClass if there is none
  pc, review,  \* the request under review
  promoted,    \* the mon plane has been raised, which cephTopology keeps
  wide, spread,  \* history: enough nodes, enough nodes with devices at some time
  overtaken,   \* history: the cluster went while a class or a review had it
  misjudged    \* history: enough nodes were counted by a selector it had no longer

clusterVars == <<cluster, nodeSelector, promoted, wide, spread, overtaken, misjudged>>
sizeVars    == <<matching, adopted>>
reviewVars  == <<pc, review>>
vars == <<clusterVars, sizeVars, class, reviewVars>>

Replication == {"ConsistencyAndAvailability", "HighRedundancy", "ErasureCodedCompact"}
ElasticStorageClassSpec ==
  [clusterRef : Cluster, type : {"RBD", "CephFS"}, replication : Replication]

ASSUME ClassAssumption == NoClass \notin ElasticStorageClassSpec /\ NoSelector \notin Selector

\* The request: what it asks for, whether under the name reserved for the class of
\* the OSDs, the selector of the cluster once that has been read, and the number of
\* matching nodes once these have been listed.
Review == [op : {"CREATE", "UPDATE"}, reserved : BOOLEAN,
           new : ElasticStorageClassSpec,
           old : ElasticStorageClassSpec \cup {NoClass},
           nodeSel : Selector \cup {NoSelector}, nodes : 0..Cardinality(Node)]

Stored == {s \in ElasticStorageClassSpec : s.replication # "ErasureCodedCompact"}

TypeOK ==
  /\ cluster \in [Cluster -> {"absent", "live", "released"}]
  /\ nodeSelector \in [Cluster -> Selector \cup {NoSelector}]
  /\ \A c \in Cluster : nodeSelector[c] = NoSelector <=> cluster[c] = "absent"
  /\ matching \in [Selector -> SUBSET Node]
  /\ adopted \in [Cluster -> SUBSET BD]
  /\ class \in Stored \cup {NoClass}
  /\ pc \in {"idle", "rules", "cluster", "nodes", "devices", "fields", "admitted"}
  /\ IF pc = "idle" THEN review = NoClass ELSE review \in Review
  /\ promoted \in [Cluster -> BOOLEAN]
  /\ wide \in [Cluster -> BOOLEAN] /\ spread \in [Cluster -> BOOLEAN]
  /\ overtaken \in [Cluster -> BOOLEAN] /\ misjudged \in [Cluster -> BOOLEAN]

Init ==
  /\ cluster = [c \in Cluster |-> "absent"]
  /\ nodeSelector = [c \in Cluster |-> NoSelector]
  /\ matching = [sel \in Selector |-> {}]
  /\ adopted = [c \in Cluster |-> {}]
  /\ class = NoClass
  /\ pc = "idle" /\ review = NoClass
  /\ promoted = [c \in Cluster |-> FALSE] /\ wide = promoted /\ spread = promoted
  /\ overtaken = promoted /\ misjudged = promoted

-----------------------------------------------------------------------------
(* The counts. *)

allowedNodeNames_All(sel) == Node
allowedNodeNames(sel) == matching[sel]

\* Several devices of a node count once, a device without a node not at all.
countDistinctOSDNodes_Devices(devices) == Cardinality(devices)
countDistinctOSDNodes(devices) == Cardinality({Host[b] : b \in devices} \ {NoNode})

Undersized_Both(nodes, osdNodes) == nodes < MinNodes /\ osdNodes < MinOSDNodes
Undersized(nodes, osdNodes) == nodes < MinNodes \/ osdNodes < MinOSDNodes

-----------------------------------------------------------------------------
(* The review. *)

\* The old object comes with the request.
Submit(new, reserved) ==
  /\ pc = "idle"
  /\ reserved => class = NoClass
  /\ review' = [op |-> IF class = NoClass THEN "CREATE" ELSE "UPDATE",
                reserved |-> reserved, new |-> new, old |-> class,
                nodeSel |-> NoSelector, nodes |-> 0]
  /\ pc' = "rules"
  /\ UNCHANGED <<clusterVars, sizeVars, class>>

Reject ==
  /\ pc' = "idle" /\ review' = NoClass
  /\ UNCHANGED <<clusterVars, sizeVars, class>>

Forbidden_Name == review.reserved
Forbidden == review.reserved \/ review.new.replication = "ErasureCodedCompact"

NeedsPreflight_Always == review.new.replication = "HighRedundancy"
NeedsPreflight ==
  review.op = "CREATE" /\ review.new.replication = "HighRedundancy"

mustImmutable_RefOnly ==
  review.op = "UPDATE" => review.new.clusterRef = review.old.clusterRef
mustImmutable ==
  review.op = "UPDATE" =>
    \A field \in {"clusterRef", "type", "replication"} :
      review.new[field] = review.old[field]

\* NewElasticStorageClassValidator: what is never admitted, the preflight of a
\* creation, the comparison of an update with the old object.
CheckRules ==
  /\ pc = "rules"
  /\ IF Forbidden
     THEN Reject
     ELSE /\ pc' = IF NeedsPreflight THEN "cluster" ELSE "fields"
          /\ UNCHANGED <<clusterVars, sizeVars, class, review>>

CheckFields ==
  /\ pc = "fields"
  /\ IF mustImmutable
     THEN /\ pc' = "admitted"
          /\ UNCHANGED <<clusterVars, sizeVars, class, review>>
     ELSE Reject

\* A cluster that is under deletion is found like any other.  The review keeps the
\* selector of this copy.
GetCluster ==
  LET c == review.new.clusterRef
  IN  /\ pc = "cluster"
      /\ IF cluster[c] = "absent"
         THEN Reject
         ELSE /\ review' = [review EXCEPT !.nodeSel = nodeSelector[c]]
              /\ pc' = "nodes"
              /\ UNCHANGED <<clusterVars, sizeVars, class>>

\* The nodes are listed by the selector read above, whatever it is by now.
ListNodes ==
  LET c == review.new.clusterRef
      count == Cardinality(allowedNodeNames(review.nodeSel))
  IN  /\ pc = "nodes"
      /\ review' = [review EXCEPT !.nodes = count]
      /\ pc' = "devices"
      /\ misjudged' = [misjudged EXCEPT ![c] =
                         @ \/ (review.nodeSel # nodeSelector[c] /\ count >= MinNodes)]
      /\ UNCHANGED <<cluster, nodeSelector, promoted, wide, spread, overtaken,
                     sizeVars, class>>

ListDevices ==
  /\ pc = "devices"
  /\ IF Undersized(review.nodes, countDistinctOSDNodes(adopted[review.new.clusterRef]))
     THEN Reject
     ELSE /\ pc' = "fields"
          /\ UNCHANGED <<clusterVars, sizeVars, class, review>>

\* Every error of a read is a rejection.
ReadFails ==
  /\ pc \in {"cluster", "nodes", "devices"}
  /\ Reject

\* The API server commits the request, or drops it as a conflict.
Commit ==
  /\ pc = "admitted"
  /\ class' = IF class = review.old THEN review.new ELSE class
  /\ pc' = "idle" /\ review' = NoClass
  /\ UNCHANGED <<clusterVars, sizeVars>>

ReviewStep ==
  CheckRules \/ GetCluster \/ ListNodes \/ ListDevices \/ ReadFails \/ CheckFields \/ Commit

-----------------------------------------------------------------------------
(* Everyone else.  The deletion of a class is not reviewed. *)

DeleteClass ==
  /\ class # NoClass
  /\ class' = NoClass
  /\ UNCHANGED <<clusterVars, sizeVars, reviewVars>>

\* The history of each cluster since its creation.
Witness ==
  LET hosts(c) == {Host[b] : b \in adopted'[c]} \cap Node
      there == {c \in Cluster : cluster'[c] # "absent"}
  IN  /\ wide' = [c \in Cluster |->
           wide[c] \/ (c \in there /\ Cardinality(matching'[nodeSelector'[c]]) >= MinNodes)]
      /\ spread' = [c \in Cluster |->
           spread[c] \/ (c \in there /\ Cardinality(hosts(c)) >= MinOSDNodes)]
      /\ UNCHANGED <<promoted, overtaken, misjudged>>

\* A node is labelled or comes, is relabelled or goes.
NodesChange(sel, n) ==
  /\ matching' = [matching EXCEPT ![sel] = IF n \in @ THEN @ \ {n} ELSE @ \cup {n}]
  /\ UNCHANGED <<cluster, nodeSelector, adopted, class, reviewVars>>
  /\ Witness

\* The operator edits the selector.  What the webhook of the cluster refuses depends on
\* lists that are read before the edit is stored; here any edit may get through.
EditSelector(c, sel) ==
  /\ cluster[c] # "absent"
  /\ nodeSelector' = [nodeSelector EXCEPT ![c] = sel]
  /\ UNCHANGED <<cluster, sizeVars, class, reviewVars>>
  /\ Witness

\* The controller of a live cluster adopts a device, or an operator releases it by
\* hand.
DevicesChange(c, b) ==
  /\ b \notin adopted[c] => cluster[c] = "live"
  /\ adopted' = [adopted EXCEPT ![c] = IF b \in @ THEN @ \ {b} ELSE @ \cup {b}]
  /\ UNCHANGED <<cluster, nodeSelector, matching, class, reviewVars>>
  /\ Witness

\* computeCephTopology, in a pass of the cluster's controller: any class of the
\* cluster with HighRedundancy raises the counts.
hasHighRedundancy(c) ==
  class # NoClass /\ class.clusterRef = c /\ class.replication = "HighRedundancy"

Promote(c) ==
  /\ cluster[c] = "live"
  /\ hasHighRedundancy(c)
  /\ promoted' = [promoted EXCEPT ![c] = TRUE]
  /\ UNCHANGED <<cluster, nodeSelector, wide, spread, overtaken, misjudged, sizeVars, class,
                 reviewVars>>

\* A cluster created again finds the devices still labelled.
CreateCluster(c) ==
  /\ c \in Growing /\ cluster[c] = "absent"
  /\ cluster' = [cluster EXCEPT ![c] = "live"]
  /\ \E sel \in Selector : nodeSelector' = [nodeSelector EXCEPT ![c] = sel]
  /\ UNCHANGED <<sizeVars, class, reviewVars>>
  /\ Witness

\* The teardown of a cluster waits until no class refers to it ...
ReleaseCluster(c) ==
  /\ cluster[c] = "live"
  /\ class # NoClass => class.clusterRef # c
  /\ cluster' = [cluster EXCEPT ![c] = "released"]
  /\ UNCHANGED <<nodeSelector, promoted, wide, spread, overtaken, misjudged, sizeVars, class,
                 reviewVars>>

\* ... and removes the finalizer later.  The status goes with the object, the labels of
\* the devices stay.
FinalizeCluster(c) ==
  /\ cluster[c] = "released"
  /\ cluster' = [cluster EXCEPT ![c] = "absent"]
  /\ nodeSelector' = [nodeSelector EXCEPT ![c] = NoSelector]
  /\ promoted' = [promoted EXCEPT ![c] = FALSE]
  /\ wide' = [wide EXCEPT ![c] = FALSE]
  /\ spread' = [spread EXCEPT ![c] = FALSE]
  /\ misjudged' = [misjudged EXCEPT ![c] = FALSE]
  /\ overtaken' = [overtaken EXCEPT ![c] =
       \/ @
       \/ class # NoClass /\ class.clusterRef = c
       \/ pc \in {"nodes", "devices", "fields", "admitted"} /\ review.new.clusterRef = c]
  /\ UNCHANGED <<sizeVars, class, reviewVars>>

-----------------------------------------------------------------------------
Next ==
  \/ (\E new \in ElasticStorageClassSpec, reserved \in BOOLEAN : Submit(new, reserved))
  \/ ReviewStep
  \/ DeleteClass
  \/ (\E sel \in Selector, n \in Node : NodesChange(sel, n))
  \/ \E c \in Cluster :
       \/ (\E sel \in Selector : EditSelector(c, sel)) \/ (\E b \in BD : DevicesChange(c, b))
       \/ Promote(c)
       \/ CreateCluster(c) \/ ReleaseCluster(c) \/ FinalizeCluster(c)

Spec == Init /\ [][Next]_vars

-----------------------------------------------------------------------------
(* Properties. *)

\* The mon plane is raised only in a cluster that had, since its creation, enough nodes
\* matching the selector it had then and enough nodes with adopted devices, though not
\* necessarily at once or still: whatever was updated, deleted and created again since.
\* There are two exceptions.  Of a class admitted while its cluster was being removed
\* nothing is known; and a selector edited between the read of the cluster and the list of
\* its nodes makes the count of the nodes, not that of the devices, one of another
\* selector.
PromotionVetted ==
  \A c \in Cluster : promoted[c] /\ ~overtaken[c] => (wide[c] \/ misjudged[c]) /\ spread[c]

\* An update that leaves the three fields alone gets through, however small the
\* cluster has become and whatever reads fail.
HarmlessUpdatesPass ==
  [][pc # "idle" /\ pc' = "idle" /\ review.op = "UPDATE" /\ review.new = review.old
       => pc = "admitted"]_vars
=============================================================================
