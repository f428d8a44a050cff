----------------------------- MODULE DataNodes -----------------------------
(***************************************************************************)
(* The DataNodeWatcher: the label sds-elastic-node follows the node        *)
(* selector of the config Secret.  Only Secret events and a timer start a  *)
(* pass; nodes are relabelled at any time and no one tells the watcher.    *)
(*                                                                         *)
(* The patches of one loop go to different nodes and each is judged on the *)
(* copy listed before the loop, so a loop is one step in which any of its  *)
(* patches may fail; what happens to a node between its listing and its    *)
(* patch happens before that step.                                         *)
(***************************************************************************)
EXTENDS Naturals

CONSTANTS
  Node,
  Zone     \* the values of the node label that selectors ask for

ASSUME ZoneAssumption == Zone \cap {"absent", "malformed", "any"} = {}

VARIABLES
  running,   \* the controller is deployed
  config,    \* the selector in the Secret: a zone, "any", malformed or no Secret
  zone,      \* the label of each node
  labelled,  \* the nodes that carry sds-elastic-node
  queued, timer,  \* the Secret's key in the work queue, and to be added later
  pass,      \* the reconcile pass
  steady,    \* history: nodes for which neither the selector nor their own label
             \* has changed since the pass began
  calm       \* API errors, restarts and drifts of nodes have come to an end

nodeVars  == <<zone, labelled>>
queueVars == <<queued, timer>>
dnVars == <<running, config, nodeVars, queueVars, pass, steady, calm>>

Selector == Zone \cup {"any"}
Config == Selector \cup {"malformed", "absent"}
Pass == [at : {"idle", "read", "list", "add", "listAll", "remove"},
         selector : Selector \cup {"none"}, todo : SUBSET Node]
IdlePass == [at |-> "idle", selector |-> "none", todo |-> {}]

DataNodesTypeOK ==
  /\ {running, queued, timer, calm} \subseteq BOOLEAN
  /\ config \in Config
  /\ zone \in [Node -> Zone]
  /\ labelled \in SUBSET Node
  /\ pass \in Pass
  /\ steady \in SUBSET Node

DataNodesInit ==
  /\ running = FALSE /\ config = "absent"
  /\ zone \in [Node -> Zone] /\ labelled = {}
  /\ queued = FALSE /\ timer = FALSE
  /\ pass = IdlePass /\ steady = Node
  /\ calm = FALSE

-----------------------------------------------------------------------------
(* The empty selector, an omitted one included, matches every node. *)

Matching(selector) ==
  {n \in Node : selector = "any" \/ selector = zone[n]}

\* Strict parsing: a selector that cannot be read is an error, never empty.
ParsedSelector_Lenient == IF config = "malformed" THEN "any" ELSE config
ParsedSelector == config

Witness ==
  steady' = IF pass'.at = "idle" THEN Node
            ELSE {n \in steady : config' = config /\ zone'[n] = zone[n]}

-----------------------------------------------------------------------------
(* One pass. *)

PassBegin ==
  /\ running /\ queued
  /\ pass.at = "idle"
  /\ queued' = FALSE
  /\ pass' = [pass EXCEPT !.at = "read"]
  /\ UNCHANGED <<running, config, nodeVars, timer, calm>>

\* A missing Secret ends the pass without a requeue, a malformed one with an
\* error, which is retried.
ReadConfig_Unchecked ==
  /\ pass.at = "read"
  /\ pass' = [pass EXCEPT !.at = "list", !.selector = ParsedSelector]
  /\ UNCHANGED <<running, config, nodeVars, queueVars, calm>>
ReadConfig ==
  /\ pass.at = "read"
  /\ \/ /\ ParsedSelector \in Selector
        /\ pass' = [pass EXCEPT !.at = "list", !.selector = ParsedSelector]
        /\ UNCHANGED timer
     \/ /\ ParsedSelector \notin Selector
        /\ pass' = IdlePass
        /\ timer' = (timer \/ ParsedSelector = "malformed")
  /\ UNCHANGED <<running, config, nodeVars, queued, calm>>

ListMatchingNodes ==
  /\ pass.at = "list"
  /\ pass' = [pass EXCEPT !.at = "add", !.todo = Matching(pass.selector) \ labelled]
  /\ UNCHANGED <<running, config, nodeVars, queueVars, calm>>

\* A patch that fails is logged and the loop goes on.
Missed == IF calm THEN {{}} ELSE SUBSET pass.todo

AddLabels ==
  /\ pass.at = "add"
  /\ \E missed \in Missed : labelled' = labelled \cup (pass.todo \ missed)
  /\ pass' = [pass EXCEPT !.at = "listAll", !.todo = {}]
  /\ UNCHANGED <<running, config, zone, queueVars, calm>>

ListAllNodes ==
  /\ pass.at = "listAll"
  /\ pass' = [pass EXCEPT !.at = "remove", !.todo = labelled \ Matching(pass.selector)]
  /\ UNCHANGED <<running, config, nodeVars, queueVars, calm>>

RequeueAfter_Never == timer
RequeueAfter == TRUE

RemoveLabels ==
  /\ pass.at = "remove"
  /\ \E missed \in Missed : labelled' = labelled \ (pass.todo \ missed)
  /\ pass' = IdlePass
  /\ timer' = RequeueAfter
  /\ UNCHANGED <<running, config, zone, queued, calm>>

\* A read or a list fails: the pass ends in an error and is retried.
PassFails ==
  /\ pass.at \in {"read", "list", "listAll"} /\ ~calm
  /\ pass' = IdlePass
  /\ timer' = TRUE
  /\ UNCHANGED <<running, config, nodeVars, queued, calm>>

PassStep ==
  \/ PassBegin \/ ReadConfig \/ ListMatchingNodes \/ AddLabels \/ ListAllNodes
  \/ RemoveLabels

TimerFires ==
  /\ timer
  /\ timer' = FALSE /\ queued' = TRUE
  /\ UNCHANGED <<running, config, nodeVars, pass, calm>>

-----------------------------------------------------------------------------
(* Deckhouse and Helm. *)

\* The Secret is rendered anew, which enqueues it if the watcher is up.
SetConfig(c) ==
  /\ config' = c
  /\ queued' = (queued \/ running)

\* The first listing of the Secrets by a new watcher enqueues an existing one.
Deploy(c) ==
  /\ running' = TRUE
  /\ config' = c
  /\ queued' = (c # "absent") /\ timer' = FALSE
  /\ pass' = IdlePass

Undeploy ==
  /\ running' = FALSE
  /\ config' = "absent"
  /\ queued' = FALSE /\ timer' = FALSE
  /\ pass' = IdlePass

ConfigChanges ==
  /\ running
  /\ \E c \in Config \ {config} : SetConfig(c)
  /\ UNCHANGED <<running, nodeVars, timer, pass, calm>>

WatcherRestarts ==
  /\ running /\ ~calm
  /\ Deploy(config)
  /\ UNCHANGED <<nodeVars, calm>>

-----------------------------------------------------------------------------
(* Others relabel a node, or set or remove the watcher's own label. *)

NodeDrifts(n) ==
  /\ ~calm
  /\ \/ \E z \in Zone \ {zone[n]} : zone' = [zone EXCEPT ![n] = z] /\ UNCHANGED labelled
     \/ labelled' = (labelled \ {n}) \cup ({n} \ labelled) /\ UNCHANGED zone
  /\ UNCHANGED <<running, config, queueVars, pass, calm>>

\* Errors, crashes and drifts come to an end.
Settle ==
  /\ ~calm
  /\ calm' = TRUE
  /\ UNCHANGED <<running, config, nodeVars, queueVars, pass>>
=============================================================================
