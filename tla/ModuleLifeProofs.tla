-------------------------- MODULE ModuleLifeProofs --------------------------
(***************************************************************************)
(* Proofs about ModuleLife and the DataNodes in it, for any set of nodes   *)
(* and zones and any choice of the hook's kinds.                           *)
(***************************************************************************)
EXTENDS ModuleLife, TLAPS

-----------------------------------------------------------------------------
(* The inductive invariant. *)

\* What a pass of the watcher has gathered is still right for the nodes about which
\* nothing has changed.
GatheredInv ==
  /\ pass.at \in {"list", "add", "listAll", "remove"} =>
       \A n \in steady : config = pass.selector /\ config \in Selector
  /\ pass.at = "add" => \A n \in steady \cap pass.todo : n \in Matching(config)
  /\ pass.at = "remove" => \A n \in steady \cap pass.todo : n \notin Matching(config)

\* A disable on its way, or done, has seen no cluster unless it was waived.
DisableInv ==
  /\ review # "none" => phase = "on" /\ enabled
  /\ review = "admitted" \/ (phase = "on" /\ ~enabled) => waived \/ ~ClusterExists

\* A run of the hook that has not failed so far has freed the kinds behind it.
ClearedInv ==
  phase = "hook" /\ ~hook.failed =>
    /\ \A k \in Kind \ hook.todo : object[k] \in {"absent", "free"}
    /\ "webhooks" \notin hook.todo =>
         webhooks \cap WebhookConfigurationsToDelete \subseteq overlooked

LifeInv == TypeOK /\ GatheredInv /\ DisableInv /\ ClearedInv /\ HookThorough

-----------------------------------------------------------------------------
(* The initial states. *)

LEMMA IdlePassType == IdlePass \in Pass
BY DEF IdlePass, Pass

LEMMA LifeInit == Init => LifeInv
<1> SUFFICES ASSUME Init PROVE LifeInv
  OBVIOUS
<1>1. DataNodesTypeOK
  BY IdlePassType DEF Init, DataNodesInit, DataNodesTypeOK, Config
<1>2. object \in [Kind -> Object]
  BY DEF Init, Object
<1>3. TypeOK
  BY <1>1, <1>2 DEF Init, DataNodesInit, TypeOK, Webhooks, NoHook
<1>4. GatheredInv
  BY DEF Init, DataNodesInit, GatheredInv, IdlePass
<1>5. DisableInv /\ ClearedInv
  BY DEF Init, DisableInv, ClearedInv
<1>6. HookThorough
  BY DEF Init, HookThorough
<1> QED
  BY <1>3, <1>4, <1>5, <1>6 DEF LifeInv

-----------------------------------------------------------------------------
(* The watcher. *)

LEMMA NodesSame ==
  ASSUME DataNodesTypeOK, GatheredInv, UNCHANGED dnVars
  PROVE  DataNodesTypeOK' /\ GatheredInv'
<1> USE DEF dnVars, nodeVars, queueVars
<1>1. DataNodesTypeOK'
  BY DEF DataNodesTypeOK
<1>2. \A n : n \in Matching(config) <=> n \in Matching(config)'
  BY DEF Matching
<1> QED
  BY <1>1, <1>2 DEF GatheredInv

LEMMA PassTyped ==
  ASSUME DataNodesTypeOK
  PROVE  /\ pass.at \in {"idle", "read", "list", "add", "listAll", "remove"}
         /\ pass.selector \in Selector \cup {"none"}
         /\ pass.todo \in SUBSET Node
         /\ running \in BOOLEAN /\ queued \in BOOLEAN /\ timer \in BOOLEAN
         /\ calm \in BOOLEAN
BY DEF DataNodesTypeOK, Pass

LEMMA WitnessType == DataNodesTypeOK /\ Witness => steady' \in SUBSET Node
BY DEF DataNodesTypeOK, Witness

LEMMA NodesTyped ==
  DataNodesTypeOK /\ Labelling => DataNodesTypeOK' /\ running' = running
<1> SUFFICES ASSUME DataNodesTypeOK, Labelling
             PROVE  DataNodesTypeOK' /\ running' = running
  OBVIOUS
<1> USE DEF nodeVars, queueVars
<1>1. steady' \in SUBSET Node
  BY WitnessType DEF Labelling, LabelStep
<1>2. CASE PassBegin
  BY <1>1, <1>2 DEF PassBegin, DataNodesTypeOK, Pass
<1>3. CASE ReadConfig
  BY <1>1, <1>3, IdlePassType DEF ReadConfig, DataNodesTypeOK, Pass
<1>4. CASE ListMatchingNodes
  BY <1>1, <1>4 DEF ListMatchingNodes, Matching, DataNodesTypeOK, Pass
<1>5. CASE AddLabels
  <2>1. labelled' \in SUBSET Node
    BY <1>5, PassTyped DEF AddLabels, DataNodesTypeOK
  <2> QED
    BY <1>1, <1>5, <2>1 DEF AddLabels, DataNodesTypeOK, Pass
<1>6. CASE ListAllNodes
  BY <1>1, <1>6 DEF ListAllNodes, DataNodesTypeOK, Pass
<1>7. CASE RemoveLabels
  BY <1>1, <1>7, IdlePassType DEF RemoveLabels, RequeueAfter, DataNodesTypeOK
<1>8. CASE PassFails
  BY <1>1, <1>8, IdlePassType DEF PassFails, DataNodesTypeOK
<1>9. CASE TimerFires
  BY <1>1, <1>9 DEF TimerFires, DataNodesTypeOK
<1>10. CASE ConfigChanges
  BY <1>1, <1>10 DEF ConfigChanges, SetConfig, DataNodesTypeOK
<1>11. CASE WatcherRestarts
  BY <1>1, <1>11, IdlePassType DEF WatcherRestarts, Deploy, DataNodesTypeOK
<1>12. CASE \E n \in Node : NodeDrifts(n)
  BY <1>1, <1>12 DEF NodeDrifts, DataNodesTypeOK
<1>13. CASE Settle
  BY <1>1, <1>13 DEF Settle, DataNodesTypeOK
<1> QED
  BY <1>2, <1>3, <1>4, <1>5, <1>6, <1>7, <1>8, <1>9, <1>10, <1>11, <1>12, <1>13
  DEF Labelling, LabelStep, PassStep

\* For a node that stays steady a changed selector or label is no concern.
LEMMA SteadyMatch ==
  ASSUME Witness, pass'.at # "idle", NEW n \in steady'
  PROVE  /\ n \in steady /\ config' = config
         /\ n \in Matching(config)' <=> n \in Matching(config)
BY DEF Witness, Matching

LEMMA GatheredStep ==
  DataNodesTypeOK /\ GatheredInv /\ Labelling => GatheredInv'
<1> SUFFICES ASSUME DataNodesTypeOK, GatheredInv, Labelling PROVE GatheredInv'
  OBVIOUS
<1> USE DEF nodeVars, queueVars
<1>0. Witness
  BY DEF Labelling, LabelStep
<1>1. CASE pass'.at = "idle"
  BY <1>1 DEF GatheredInv
<1>2. CASE PassBegin
  <2>1. pass'.at = "read"
    BY <1>2 DEF PassBegin, DataNodesTypeOK, Pass
  <2> QED
    BY <2>1 DEF GatheredInv
<1>3. CASE ReadConfig /\ pass'.at # "idle"
  <2>1. pass'.at = "list" /\ pass'.selector = config /\ config \in Selector
        /\ UNCHANGED config
    <3>1. /\ ParsedSelector \in Selector /\ UNCHANGED config
          /\ pass' = [pass EXCEPT !.at = "list", !.selector = ParsedSelector]
      BY <1>3 DEF ReadConfig, IdlePass
    <3> QED
      BY <3>1 DEF ParsedSelector, DataNodesTypeOK, Pass
  <2> QED
    BY <2>1 DEF GatheredInv, Selector
<1>4. CASE ListMatchingNodes
  <2>1. /\ pass.at = "list" /\ pass'.at = "add" /\ pass'.selector = pass.selector
        /\ pass'.todo = Matching(pass.selector) \ labelled
    BY <1>4 DEF ListMatchingNodes, DataNodesTypeOK, Pass
  <2>2. \A n \in steady' : n \in steady /\ config' = config
                           /\ (n \in Matching(config)' <=> n \in Matching(config))
    BY <1>0, <2>1, SteadyMatch
  <2>3. \A n \in steady : config = pass.selector /\ config \in Selector
    BY <2>1 DEF GatheredInv
  <2>4. Selector' = Selector
    BY DEF Selector
  <2> QED
    BY <2>1, <2>2, <2>3, <2>4 DEF GatheredInv
<1>5. CASE AddLabels
  <2>1. /\ pass.at = "add" /\ pass'.at = "listAll" /\ pass'.selector = pass.selector
    BY <1>5 DEF AddLabels, DataNodesTypeOK, Pass
  <2>2. \A n \in steady' : n \in steady /\ config' = config
    BY <1>0, <2>1, SteadyMatch
  <2> QED
    BY <2>1, <2>2 DEF GatheredInv, Selector
<1>6. CASE ListAllNodes
  <2>1. /\ pass.at = "listAll" /\ pass'.at = "remove" /\ pass'.selector = pass.selector
        /\ pass'.todo = labelled \ Matching(pass.selector)
    BY <1>6 DEF ListAllNodes, DataNodesTypeOK, Pass
  <2>2. \A n \in steady' : n \in steady /\ config' = config
                           /\ (n \in Matching(config)' <=> n \in Matching(config))
    BY <1>0, <2>1, SteadyMatch
  <2>3. \A n \in steady : config = pass.selector /\ config \in Selector
    BY <2>1 DEF GatheredInv
  <2>4. Selector' = Selector
    BY DEF Selector
  <2> QED
    BY <2>1, <2>2, <2>3, <2>4 DEF GatheredInv
<1>7. CASE RemoveLabels \/ PassFails \/ WatcherRestarts
  <2>1. pass'.at = "idle"
    BY <1>7 DEF RemoveLabels, PassFails, WatcherRestarts, Deploy, IdlePass
  <2> QED
    BY <1>1, <2>1
<1>8. CASE \/ TimerFires \/ ConfigChanges \/ Settle \/ \E n \in Node : NodeDrifts(n)
  <2>1. pass' = pass
    BY <1>8 DEF TimerFires, ConfigChanges, Settle, NodeDrifts
  <2>2. CASE pass'.at # "idle"
    <3>1. \A n \in steady' : n \in steady /\ config' = config
                             /\ (n \in Matching(config)' <=> n \in Matching(config))
      BY <1>0, <2>2, SteadyMatch
    <3>2. Selector' = Selector
      BY DEF Selector
    <3> QED
      BY <2>1, <3>1, <3>2 DEF GatheredInv
  <2> QED
    BY <1>1, <2>2
<1> QED
  BY <1>1, <1>2, <1>3, <1>4, <1>5, <1>6, <1>7, <1>8 DEF Labelling, LabelStep, PassStep

-----------------------------------------------------------------------------
(* The module, its webhook and its hook. *)

LEMMA LifeSame ==
  ASSUME DisableInv, ClearedInv, HookThorough, UNCHANGED lifeVars
  PROVE  DisableInv' /\ ClearedInv' /\ HookThorough'
<1> USE DEF lifeVars
<1>1. DisableInv'
  BY DEF DisableInv, ClusterExists
<1>2. ClearedInv'
  BY DEF ClearedInv
<1> QED
  BY <1>1, <1>2 DEF HookThorough

\* What happens to an object is never the birth of a cluster, and finalizers appear
\* only on what the running controllers manage.
LEMMA ObjectsMove ==
  ASSUME TypeOK, NEW k \in Kind,
         DeleteObject(k) \/ Manage(k) \/ StripFinalizers(k)
  PROVE  /\ object' \in [Kind -> Object]
         /\ ClusterExists' => ClusterExists
         /\ \A l \in Kind : object[l] \in {"absent", "free"} /\ phase # "on"
              => object'[l] \in {"absent", "free"}
<1>1. "ElasticCluster" \in Kind /\ object \in [Kind -> Object]
  BY KindAssumption DEF TypeOK
<1>2. CASE DeleteObject(k)
  BY <1>1, <1>2 DEF DeleteObject, Marked, Object, ClusterExists
<1>3. CASE Manage(k)
  BY <1>1, <1>3 DEF Manage, Object, ClusterExists
<1>4. CASE StripFinalizers(k)
  BY <1>1, <1>4 DEF StripFinalizers, Stripped, Object, ClusterExists
<1> QED
  BY <1>2, <1>3, <1>4

LEMMA ObjectsStep ==
  TypeOK /\ DisableInv /\ ClearedInv /\ HookThorough /\ Objects
    => TypeOK' /\ DisableInv' /\ ClearedInv' /\ HookThorough' /\ UNCHANGED dnVars
<1> SUFFICES ASSUME TypeOK, DisableInv, ClearedInv, HookThorough, Objects
             PROVE  TypeOK' /\ DisableInv' /\ ClearedInv' /\ HookThorough'
                    /\ UNCHANGED dnVars
  OBVIOUS
<1>0. /\ UNCHANGED <<dnVars, phase, enabled, review, webhooks, hook, overlooked>>
      /\ waived' \in BOOLEAN
  BY DEF Objects, CreateCluster, DeleteObject, Manage, TypeOK
<1>1. DataNodesTypeOK'
  BY <1>0 DEF TypeOK, DataNodesTypeOK, dnVars, nodeVars, queueVars
<1>2. object' \in [Kind -> Object] => TypeOK'
  BY <1>0, <1>1 DEF TypeOK, dnVars
<1>3. CASE CreateCluster
  <2>1. "ElasticCluster" \in Kind
    BY KindAssumption
  <2>2. object' = [object EXCEPT !["ElasticCluster"] = "free"]
    BY <1>3 DEF CreateCluster
  <2>3. object' \in [Kind -> Object]
    BY <2>2 DEF TypeOK, Object
  <2>4. \A k \in Kind : object[k] \in {"absent", "free"} => object'[k] \in {"absent", "free"}
    BY <2>2 DEF TypeOK
  <2>5. DisableInv'
    <3>1. waived' = (waived \/ review = "admitted" \/ (phase = "on" /\ ~enabled))
      BY <1>3 DEF CreateCluster
    <3>2. review = "admitted" \/ (phase = "on" /\ ~enabled) => waived'
      BY <3>1, Zenon
    <3> QED
      BY <1>0, <3>2 DEF DisableInv
  <2>6. ClearedInv' /\ HookThorough'
    BY <1>0, <2>4 DEF ClearedInv, HookThorough
  <2> QED
    BY <1>0, <1>2, <2>3, <2>5, <2>6
<1>4. ASSUME NEW k \in Kind, DeleteObject(k) \/ Manage(k)
      PROVE  TypeOK' /\ DisableInv' /\ ClearedInv' /\ HookThorough'
  <2>1. /\ object' \in [Kind -> Object]
        /\ ClusterExists' => ClusterExists
        /\ \A l \in Kind : object[l] \in {"absent", "free"} /\ phase # "on"
             => object'[l] \in {"absent", "free"}
    BY <1>4, ObjectsMove
  <2>2. waived' = waived
    BY <1>4 DEF DeleteObject, Manage
  <2>3. DisableInv'
    BY <1>0, <2>1, <2>2 DEF DisableInv
  <2>4. ClearedInv' /\ HookThorough'
    BY <1>0, <2>1 DEF ClearedInv, HookThorough
  <2> QED
    BY <1>2, <2>1, <2>3, <2>4
<1> QED
  BY <1>0, <1>3, <1>4 DEF Objects

LEMMA SettingsStep ==
  TypeOK /\ DisableInv /\ ClearedInv /\ HookThorough /\ Settings
    => TypeOK' /\ DisableInv' /\ ClearedInv' /\ HookThorough' /\ UNCHANGED dnVars
<1> SUFFICES ASSUME TypeOK, DisableInv, ClearedInv, HookThorough, Settings
             PROVE  TypeOK' /\ DisableInv' /\ ClearedInv' /\ HookThorough'
                    /\ UNCHANGED dnVars
  OBVIOUS
<1>0. UNCHANGED <<dnVars, phase, object, webhooks, hook, overlooked>>
  BY DEF Settings, AskDisable, Review, CommitDisable, DeleteConfig, Enable
<1>1. DataNodesTypeOK'
  BY <1>0 DEF TypeOK, DataNodesTypeOK, dnVars, nodeVars, queueVars
<1>2. review' \in {"none", "asked", "forced", "admitted"}
  BY DEF Settings, AskDisable, Review, OnListError, CommitDisable, DeleteConfig, Enable,
         TypeOK
<1>3. enabled' \in BOOLEAN /\ waived' \in BOOLEAN
  BY DEF Settings, AskDisable, Review, CommitDisable, DeleteConfig, Enable, TypeOK
<1>4. TypeOK'
  BY <1>0, <1>1, <1>2, <1>3 DEF TypeOK, dnVars
<1>5. ClearedInv' /\ HookThorough'
  BY <1>0 DEF ClearedInv, HookThorough
<1>6. ClusterExists' <=> ClusterExists
  BY <1>0 DEF ClusterExists
<1>7. DisableInv'
  BY <1>0, <1>6
  DEF DisableInv, Settings, AskDisable, Review, OnListError, CommitDisable, DeleteConfig,
      Enable
<1> QED
  BY <1>0, <1>4, <1>5, <1>7

LEMMA ReleaseStep ==
  LifeInv /\ Release => LifeInv'
<1> SUFFICES ASSUME LifeInv, Release PROVE LifeInv'
  OBVIOUS
<1> USE DEF LifeInv
<1>1. pass'.at = "idle" /\ pass' \in Pass
  BY IdlePassType DEF Release, Install, Uninstall, Deploy, Undeploy, IdlePass
<1>2. steady' \in SUBSET Node
  BY WitnessType DEF Release, TypeOK
<1>3. GatheredInv'
  BY <1>1 DEF GatheredInv
<1>4. CASE Install
  <2>1. DataNodesTypeOK' /\ running'
    BY <1>1, <1>2, <1>4
    DEF Install, Deploy, TypeOK, DataNodesTypeOK, nodeVars
  <2>2. TypeOK'
    BY <1>4, <2>1 DEF Install, TypeOK
  <2> QED
    BY <1>3, <1>4, <2>2 DEF Install, DisableInv, ClearedInv, HookThorough
<1>5. CASE Uninstall
  <2>1. DataNodesTypeOK' /\ ~running'
    BY <1>1, <1>2, <1>5
    DEF Uninstall, Undeploy, TypeOK, DataNodesTypeOK, nodeVars, Config
  <2>2. \A o \in Object : Marked(o) \in Object
    BY DEF Marked, Object
  <2>3. object' \in [Kind -> Object]
    BY <1>5, <2>2 DEF Uninstall, TypeOK
  <2>4. webhooks' \in SUBSET Webhooks /\ hook' \in [todo : SUBSET Task, failed : BOOLEAN]
    BY <1>5 DEF Uninstall, FirstTask, TypeOK
  <2>5. TypeOK'
    BY <1>5, <2>1, <2>3, <2>4 DEF Uninstall, TypeOK
  <2>6. review' = "none"
    BY <1>5 DEF Uninstall, DisableInv
  <2>7. DisableInv' /\ ClearedInv' /\ HookThorough'
    BY <1>5, <2>6 DEF Uninstall, DisableInv, ClearedInv, HookThorough, FirstTask, Task
  <2> QED
    BY <1>3, <2>5, <2>7
<1> QED
  BY <1>4, <1>5 DEF Release

LEMMA HookStepKeeps ==
  TypeOK /\ DisableInv /\ ClearedInv /\ HookThorough /\ Hook
    => TypeOK' /\ DisableInv' /\ ClearedInv' /\ HookThorough' /\ UNCHANGED dnVars
<1> SUFFICES ASSUME TypeOK, DisableInv, ClearedInv, HookThorough, Hook
             PROVE  TypeOK' /\ DisableInv' /\ ClearedInv' /\ HookThorough'
                    /\ UNCHANGED dnVars
  OBVIOUS
<1>0. UNCHANGED <<dnVars, enabled, review, waived>> /\ phase = "hook"
  BY DEF Hook, HookStep, StripFinalizers, AtTask, DeleteWebhooks, HookEnds, HookAborts,
         StripFails
<1>1. DataNodesTypeOK'
  BY <1>0 DEF TypeOK, DataNodesTypeOK, dnVars, nodeVars, queueVars
<1>2. hook.todo \in SUBSET Task /\ hook.failed \in BOOLEAN
  BY DEF TypeOK
<1>3. ASSUME phase' = "hook", ClusterExists' => ClusterExists
      PROVE  DisableInv' /\ HookThorough'
  BY <1>0, <1>3 DEF DisableInv, HookThorough
<1>4. ASSUME NEW k \in Kind, StripFinalizers(k)
      PROVE  TypeOK' /\ DisableInv' /\ ClearedInv' /\ HookThorough'
  <2>1. /\ object' \in [Kind -> Object]
        /\ ClusterExists' => ClusterExists
        /\ \A l \in Kind : object[l] \in {"absent", "free"} => object'[l] \in {"absent", "free"}
    BY <1>0, <1>4, ObjectsMove
  <2>2. UNCHANGED <<phase, webhooks, overlooked>>
    BY <1>4 DEF StripFinalizers
  <2>0. PICK failed \in BOOLEAN : TaskDone(k, failed) /\ (Denied(k) => failed)
    BY <1>4 DEF StripFinalizers
  <2>3. /\ hook' \in [todo : SUBSET Task, failed : BOOLEAN]
        /\ hook'.todo = hook.todo \ {k}
        /\ hook.failed \/ failed => hook'.failed
    <3>1. hook' = [todo |-> hook.todo \ {k}, failed |-> hook.failed \/ failed]
      BY <2>0 DEF TaskDone
    <3>2. (hook.failed \/ failed) \in BOOLEAN
      OBVIOUS
    <3>3. hook'.todo = hook.todo \ {k} /\ hook'.failed = (hook.failed \/ failed)
      BY <3>1
    <3>4. hook.todo \ {k} \in SUBSET Task
      BY <1>2
    <3>5. hook' \in [todo : SUBSET Task, failed : BOOLEAN]
      BY <3>1, <3>2, <3>4
    <3> QED
      BY <3>3, <3>5
  <2>4. ~hook'.failed => object'[k] \in {"absent", "free"}
    <3>1. CASE Denied(k)
      BY <2>0, <2>3, <3>1
    <3>2. CASE ~Denied(k)
      <4>1. object' = [object EXCEPT ![k] = Stripped(@)]
        BY <1>4, <3>2 DEF StripFinalizers
      <4> QED
        BY <4>1 DEF TypeOK, Stripped, Object
    <3> QED
      BY <3>1, <3>2
  <2>5. ClearedInv'
    <3> SUFFICES ASSUME ~hook'.failed
                 PROVE  /\ \A l \in Kind \ hook'.todo : object'[l] \in {"absent", "free"}
                        /\ "webhooks" \notin hook'.todo =>
                             webhooks \cap WebhookConfigurationsToDelete \subseteq overlooked
      BY <2>2 DEF ClearedInv
    <3>1. "webhooks" \notin Kind
      BY KindAssumption
    <3> QED
      BY <1>0, <2>1, <2>3, <2>4, <3>1 DEF ClearedInv
  <2>6. TypeOK'
    BY <1>0, <1>1, <2>1, <2>2, <2>3 DEF TypeOK, dnVars
  <2> QED
    BY <1>0, <1>3, <2>1, <2>2, <2>5, <2>6
<1>5. ASSUME NEW k \in Kind, StripFails(k)
      PROVE  TypeOK' /\ DisableInv' /\ ClearedInv' /\ HookThorough'
  <2>1. UNCHANGED <<phase, object, webhooks, overlooked>>
    BY <1>5 DEF StripFails
  <2>2. hook' \in [todo : SUBSET Task, failed : BOOLEAN] /\ hook'.failed
    BY <1>2, <1>5 DEF StripFails, TaskDone, FailedList
  <2>3. TypeOK' /\ ClearedInv'
    BY <1>0, <1>1, <2>1, <2>2 DEF TypeOK, ClearedInv, dnVars
  <2> QED
    BY <1>0, <1>3, <2>1, <2>3 DEF ClusterExists
<1>6. CASE DeleteWebhooks
  <2> DEFINE listed == webhooks \cap WebhookConfigurationsToDelete
  <2>1. PICK unread \in SUBSET listed, undeleted \in SUBSET listed :
          /\ webhooks' = (webhooks \ listed) \cup unread \cup undeleted
          /\ overlooked' = unread \ undeleted
          /\ TaskDone("webhooks", undeleted # {})
    BY <1>6 DEF DeleteWebhooks
  <2>2. UNCHANGED <<phase, object>> /\ "webhooks" \in hook.todo
    BY <1>6 DEF DeleteWebhooks, AtTask
  <2>3. webhooks' \in SUBSET Webhooks /\ overlooked' \in SUBSET Webhooks
    BY <2>1 DEF TypeOK
  <2>4. hook' \in [todo : SUBSET Task, failed : BOOLEAN]
    BY <1>2, <2>1 DEF TaskDone
  <2>5. /\ hook'.todo = hook.todo \ {"webhooks"}
        /\ ~hook'.failed => ~hook.failed /\ undeleted = {}
    BY <2>1 DEF TaskDone
  <2>6. TypeOK'
    BY <1>0, <1>1, <2>2, <2>3, <2>4 DEF TypeOK, dnVars
  <2>7. "webhooks" \notin Kind
    BY KindAssumption
  <2>8. ClearedInv'
    BY <1>0, <2>1, <2>2, <2>5, <2>7 DEF ClearedInv
  <2> QED
    BY <1>0, <1>3, <2>2, <2>6, <2>8 DEF ClusterExists
<1>7. CASE HookEnds
  <2>1. UNCHANGED <<object, webhooks, overlooked>> /\ hook.todo = {}
    BY <1>7 DEF HookEnds
  <2>2. CASE hook.failed
    <3>1. hook' = FirstTask /\ phase' = phase
      BY <1>7, <2>2 DEF HookEnds
    <3>2. TypeOK' /\ ClearedInv'
      BY <1>0, <1>1, <2>1, <3>1 DEF TypeOK, ClearedInv, FirstTask, Task, dnVars
    <3> QED
      BY <1>0, <1>3, <2>1, <3>1, <3>2 DEF ClusterExists
  <2>3. CASE ~hook.failed
    <3>1. hook' = NoHook /\ phase' = "off"
      BY <1>7, <2>3 DEF HookEnds
    <3>2. TypeOK'
      BY <1>0, <1>1, <2>1, <3>1 DEF TypeOK, NoHook, dnVars
    <3>3. HookThorough'
      BY <1>0, <2>1, <2>3 DEF ClearedInv, HookThorough
    <3>4. DisableInv' /\ ClearedInv'
      BY <1>0, <3>1 DEF DisableInv, ClearedInv
    <3> QED
      BY <1>0, <3>2, <3>3, <3>4
  <2> QED
    BY <2>2, <2>3
<1>8. CASE HookAborts
  <2>1. UNCHANGED <<phase, object, webhooks, overlooked>> /\ hook' = FirstTask
    BY <1>8 DEF HookAborts
  <2>2. TypeOK' /\ ClearedInv'
    BY <1>0, <1>1, <2>1 DEF TypeOK, ClearedInv, FirstTask, Task, dnVars
  <2> QED
    BY <1>0, <1>3, <2>1, <2>2 DEF ClusterExists
<1> QED
  BY <1>0, <1>4, <1>5, <1>6, <1>7, <1>8 DEF Hook, HookStep

LEMMA LifeStep == LifeInv /\ [Next]_vars => LifeInv'
<1> SUFFICES ASSUME LifeInv, [Next]_vars PROVE LifeInv'
  OBVIOUS
<1> USE DEF LifeInv
<1>1. CASE Labelling
  <2>1. UNCHANGED lifeVars
    BY <1>1 DEF Labelling, LabelStep
  <2>2. DataNodesTypeOK' /\ running' = running
    BY <1>1, NodesTyped DEF TypeOK
  <2>3. TypeOK'
    BY <2>1, <2>2 DEF TypeOK, lifeVars
  <2>4. GatheredInv'
    BY <1>1, GatheredStep DEF TypeOK
  <2> QED
    BY <2>1, <2>3, <2>4, LifeSame
<1>2. CASE Objects
  BY <1>2, ObjectsStep, NodesSame DEF TypeOK
<1>3. CASE Settings
  BY <1>3, SettingsStep, NodesSame DEF TypeOK
<1>4. CASE Release
  BY <1>4, ReleaseStep
<1>5. CASE Hook
  BY <1>5, HookStepKeeps, NodesSame DEF TypeOK
<1>6. CASE UNCHANGED vars
  <2>1. UNCHANGED dnVars /\ UNCHANGED lifeVars
    BY <1>6 DEF vars
  <2>2. DataNodesTypeOK' /\ GatheredInv'
    BY <2>1, NodesSame DEF TypeOK
  <2>3. TypeOK'
    BY <2>1, <2>2 DEF TypeOK, dnVars, lifeVars
  <2> QED
    BY <2>1, <2>2, <2>3, LifeSame
<1> QED
  BY <1>1, <1>2, <1>3, <1>4, <1>5, <1>6 DEF Next

-----------------------------------------------------------------------------
(* The theorems. *)

\* The invariant above holds of every reachable state.
THEOREM LifeSafe == Spec => []LifeInv
<1>1. Init => LifeInv
  BY LifeInit
<1>2. LifeInv /\ [Next]_vars => LifeInv'
  BY LifeStep
<1> QED
  BY <1>1, <1>2, PTL DEF Spec

\* Every variable keeps its type.
THEOREM TypeCorrect == Spec => []TypeOK
<1>1. LifeInv => TypeOK
  BY DEF LifeInv
<1> QED
  BY <1>1, LifeSafe, PTL

\* A hook that reports success has freed every kind, whichever webhooks were left behind,
\* and deleted the configurations on its list that it could read, after any number of
\* failed runs and for any choice of kinds.  It knows nothing of the other configurations.
THEOREM HookIsThorough == Spec => []HookThorough
<1>1. LifeInv => HookThorough
  BY DEF LifeInv
<1> QED
  BY <1>1, LifeSafe, PTL

\* No module is uninstalled over a cluster that its webhook could have seen.
THEOREM DisablesGuarded == Spec => DisableGuarded
<1>1. LifeInv /\ [Next]_vars
        => [phase = "on" /\ phase' = "hook" /\ ClusterExists => waived]_vars
  <2> SUFFICES ASSUME LifeInv, [Next]_vars, phase = "on", phase' = "hook", ClusterExists
               PROVE  waived
    OBVIOUS
  <2>1. Uninstall
    BY DEF Next, Labelling, LabelStep, Objects, CreateCluster, DeleteObject, Manage,
           Settings, AskDisable, Review, CommitDisable, DeleteConfig, Enable, Release,
           Install, Hook, HookStep, StripFinalizers, DeleteWebhooks, HookEnds, HookAborts,
           StripFails, AtTask, vars, lifeVars
  <2> QED
    BY <2>1 DEF Uninstall, LifeInv, DisableInv
<1> QED
  BY <1>1, LifeSafe, PTL DEF Spec, DisableGuarded

\* The watcher patches an undisturbed node only as the Secret asks, for any number of
\* nodes and zones.
THEOREM PatchesAreJustified == Spec => PatchesJustified
<1>1. LifeInv /\ [Next]_vars
        => [pass.at # pass'.at =>
              \A n \in steady : (n \in labelled) # (n \in labelled') =>
                config \in Selector /\ (n \in labelled' <=> n \in Matching(config))]_vars
  <2> SUFFICES ASSUME LifeInv, [Next]_vars, pass.at # pass'.at, NEW n \in steady,
                      (n \in labelled) # (n \in labelled')
               PROVE  config \in Selector /\ (n \in labelled' <=> n \in Matching(config))
    OBVIOUS
  <2> USE DEF LifeInv, nodeVars
  <2>0. pass # pass' /\ labelled # labelled'
    OBVIOUS
  <2>1. AddLabels \/ RemoveLabels
    BY <2>0
    DEF Next, Labelling, LabelStep, PassStep, PassBegin, ReadConfig, ListMatchingNodes,
        ListAllNodes, PassFails, TimerFires, ConfigChanges, WatcherRestarts, NodeDrifts,
        Settle, Objects, CreateCluster, DeleteObject, Manage, Settings, AskDisable, Review,
        CommitDisable, DeleteConfig, Enable, Release, Install, Uninstall, Hook, HookStep,
        StripFinalizers, DeleteWebhooks, HookEnds, HookAborts, StripFails, vars, dnVars
  <2>2. CASE AddLabels
    <3>1. pass.at = "add" /\ labelled \subseteq labelled'
          /\ labelled' \subseteq labelled \cup pass.todo
      BY <2>2 DEF AddLabels
    <3> QED
      BY <3>1 DEF GatheredInv
  <2>3. CASE RemoveLabels
    <3>1. pass.at = "remove" /\ labelled' \subseteq labelled
          /\ labelled \subseteq labelled' \cup pass.todo
      BY <2>3, PassTyped DEF RemoveLabels, Missed, TypeOK
    <3> QED
      BY <3>1 DEF GatheredInv
  <2> QED
    BY <2>1, <2>2, <2>3
<1> QED
  BY <1>1, LifeSafe, PTL DEF Spec, PatchesJustified

-----------------------------------------------------------------------------
(* The watcher never falls asleep. *)

LEMMA AwakeStep == DataNodesTypeOK /\ WatcherAwake /\ [Next]_vars => WatcherAwake'
<1> SUFFICES ASSUME DataNodesTypeOK, WatcherAwake, [Next]_vars PROVE WatcherAwake'
  OBVIOUS
<1> USE DEF queueVars
<1>1. CASE \/ PassBegin \/ ListMatchingNodes \/ AddLabels \/ ListAllNodes
  BY <1>1 DEF PassBegin, ListMatchingNodes, AddLabels, ListAllNodes, WatcherAwake,
              DataNodesTypeOK, Pass
<1>2. CASE ReadConfig
  <2>1. CASE config \in Selector
    BY <1>2, <2>1 DEF ReadConfig, ParsedSelector, WatcherAwake, DataNodesTypeOK, Pass
  <2>2. CASE config \notin Selector
    <3>1. config' = config /\ config \in {"malformed", "absent"}
          /\ timer' = (timer \/ config = "malformed")
      BY <1>2, <2>2 DEF ReadConfig, ParsedSelector, DataNodesTypeOK, Config
    <3> QED
      BY <3>1 DEF WatcherAwake
  <2> QED
    BY <2>1, <2>2
<1>3. CASE RemoveLabels \/ PassFails \/ TimerFires
  BY <1>3 DEF RemoveLabels, RequeueAfter, PassFails, TimerFires, WatcherAwake
<1>4. CASE ConfigChanges
  <2>1. running /\ queued' = (queued \/ running)
    BY <1>4 DEF ConfigChanges, SetConfig
  <2>2. queued'
    BY <2>1, Zenon
  <2> QED
    BY <2>2 DEF WatcherAwake
<1>5. CASE WatcherRestarts \/ Install
  <2>1. \E c : config' = c /\ queued' = (c # "absent")
    BY <1>5 DEF WatcherRestarts, Install, Deploy
  <2>2. config' # "absent" => queued'
    BY <2>1, Zenon
  <2> QED
    BY <2>2 DEF WatcherAwake
<1>6. CASE Uninstall
  BY <1>6 DEF Uninstall, Undeploy, WatcherAwake
<1>7. CASE (\E n \in Node : NodeDrifts(n)) \/ Settle \/ UNCHANGED dnVars
  BY <1>7 DEF NodeDrifts, Settle, dnVars, WatcherAwake
<1>8. Objects \/ Settings \/ Hook \/ UNCHANGED vars => UNCHANGED dnVars
  BY DEF Objects, CreateCluster, DeleteObject, Manage, Settings, AskDisable, Review,
         CommitDisable, DeleteConfig, Enable, Hook, HookStep, StripFinalizers, DeleteWebhooks,
         HookEnds, HookAborts, StripFails, vars
<1> QED
  BY <1>1, <1>2, <1>3, <1>4, <1>5, <1>6, <1>7, <1>8
  DEF Next, Labelling, LabelStep, PassStep, Release

\* The watcher of an installed module always has a next pass to come, after any
\* failure, restart and change of the Secret: what LabelsFollow rests on.
THEOREM WatcherStaysAwake == Spec => []WatcherAwake
<1>1. Init => WatcherAwake
  BY DEF Init, DataNodesInit, WatcherAwake
<1>2. TypeOK => DataNodesTypeOK
  BY DEF TypeOK
<1> QED
  BY <1>1, <1>2, AwakeStep, TypeCorrect, PTL DEF Spec

=============================================================================
