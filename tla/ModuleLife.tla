---------------------------- MODULE ModuleLife ----------------------------
(***************************************************************************)
(* The module as a whole, from one installation to the next: the admission *)
(* webhook that guards the disabling of the ModuleConfig, Helm's uninstall *)
(* and the hook that strips finalizers after it, while the nodes are       *)
(* labelled by the DataNodeWatcher of the installed module.                *)
(*                                                                         *)
(* The five webhooks of the module fail closed: a configuration that is    *)
(* registered with no pod behind it refuses all it intercepts, and Helm    *)
(* may leave any of them behind.  The hook deletes two.                    *)
(*                                                                         *)
(* The review and the commit of an update are two steps, and so is every   *)
(* kind the hook goes through.  The controllers and Rook are stopped when  *)
(* the hook runs; objects are one of each kind.                            *)
(***************************************************************************)
EXTENDS DataNodes

CONSTANT Kind   \* the kinds of HookOrder that are modelled

VARIABLES
  phase,       \* the module is "on", its "hook" is under way, or it is "off"
  enabled,     \* spec.enabled of the ModuleConfig
  review,      \* the update of the ModuleConfig that asks to disable the module
  object,      \* finalizers and deletion of the object of each kind
  webhooks,    \* ValidatingWebhookConfigurations that are registered
  hook,        \* the run of the hook: the tasks left and whether one has failed
  overlooked,  \* history: webhooks whose Get failed in the hook's last run
  waived       \* history: the disable was forced, bypassed the webhook or was
               \* overtaken by the creation of a cluster

lifeVars == <<phase, enabled, review, object, webhooks, hook, overlooked, waived>>
vars == <<dnVars, lifeVars>>

\* The hook's order; the webhooks go before the kinds they guard.
HookOrder ==
  [Secret |-> 1, ConfigMap |-> 2, webhooks |-> 3, ElasticCluster |-> 4,
   ElasticStorageClass |-> 5, ElasticClusterCredential |-> 6,
   CephCluster |-> 7, CephBlockPool |-> 8, CephFilesystem |-> 9]
Rook == {"CephCluster", "CephBlockPool", "CephFilesystem"}
Namespaced == Rook \cup {"Secret", "ConfigMap"}

Task == Kind \cup {"webhooks"}

ASSUME KindAssumption ==
  /\ Kind \subseteq DOMAIN HookOrder \ {"webhooks"}
  /\ {"ElasticCluster", "CephCluster"} \subseteq Kind

\* "held" and "dying" have finalizers, "dying" is under deletion.
Object == {"absent", "free", "held", "dying"}

\* The webhooks the module serves, and those that the hook deletes.
Webhooks == {"vendor", "esc", "ecc", "ec", "mc"}
WebhookConfigurationsToDelete == {"vendor", "mc"}

\* The webhook that intercepts the updates of a kind.
Interceptor ==
  [ElasticCluster |-> "ec", ElasticStorageClass |-> "esc",
   ElasticClusterCredential |-> "ecc",
   CephCluster |-> "vendor", CephBlockPool |-> "vendor", CephFilesystem |-> "vendor"]
Intercepted(k, registered) == k \in DOMAIN Interceptor /\ Interceptor[k] \in registered

TypeOK ==
  /\ DataNodesTypeOK
  /\ phase \in {"on", "hook", "off"} /\ (running <=> phase = "on")
  /\ {enabled, waived} \subseteq BOOLEAN
  /\ review \in {"none", "asked", "forced", "admitted"}
  /\ object \in [Kind -> Object]
  /\ webhooks \in SUBSET Webhooks /\ overlooked \in SUBSET Webhooks
  /\ hook \in [todo : SUBSET Task, failed : BOOLEAN]

NoHook == [todo |-> {}, failed |-> FALSE]
FirstTask == [todo |-> Task, failed |-> FALSE]

Init ==
  /\ DataNodesInit
  /\ phase = "off" /\ enabled = TRUE /\ review = "none"
  /\ object = [k \in Kind |-> "absent"]
  /\ webhooks = {} /\ hook = NoHook /\ overlooked = {} /\ waived = FALSE

ClusterExists == object["ElasticCluster"] # "absent"

-----------------------------------------------------------------------------
(* Objects come and go. *)

\* A cluster that arrives while a disable is on its way could not be seen.
CreateCluster ==
  /\ ~ClusterExists
  /\ object' = [object EXCEPT !["ElasticCluster"] = "free"]
  /\ waived' = (waived \/ review = "admitted" \/ (phase = "on" /\ ~enabled))
  /\ UNCHANGED <<dnVars, phase, enabled, review, webhooks, hook, overlooked>>

\* A deletion request.
Marked(o) == IF o = "held" THEN "dying" ELSE IF o = "free" THEN "absent" ELSE o

\* Rook's objects are out of everybody's reach as long as their webhook is registered:
\* it alone intercepts deletions.
DeleteObject(k) ==
  /\ object[k] \in {"free", "held"}
  /\ k \in Rook => "vendor" \notin webhooks
  /\ object' = [object EXCEPT ![k] = Marked(@)]
  /\ UNCHANGED <<dnVars, phase, enabled, review, webhooks, hook, overlooked, waived>>

\* The controllers and Rook put their finalizers on what they manage, and take
\* them off in the teardown; the CephCluster goes before its cluster.
Manage(k) ==
  /\ phase = "on"
  /\ \/ /\ object[k] = "free" \/ (object[k] = "absent" /\ k # "ElasticCluster")
        /\ k # "ElasticCluster" => object["ElasticCluster"] = "held"
        /\ object' = [object EXCEPT ![k] = "held"]
     \/ /\ object["ElasticCluster"] = "dying"
        /\ object[k] \in {"held", "dying"}
        /\ k = "ElasticCluster" => object["CephCluster"] = "absent"
        /\ object' = [object EXCEPT ![k] = "absent"]
  /\ UNCHANGED <<dnVars, phase, enabled, review, webhooks, hook, overlooked, waived>>

-----------------------------------------------------------------------------
(* The ModuleConfig and its admission webhook. *)

AskDisable ==
  /\ phase = "on" /\ enabled
  /\ review = "none"
  /\ review' \in {"asked", "forced"}
  /\ waived' = FALSE
  /\ UNCHANGED <<dnVars, phase, enabled, object, webhooks, hook, overlooked>>

\* The clusters are listed live, those under deletion included.
OnListError_Open == "admitted"
OnListError == "none"

Review ==
  /\ \/ /\ review = "forced"
        /\ review' = "admitted" /\ waived' = TRUE
     \/ /\ review = "asked"
        /\ review' = IF ClusterExists THEN "none" ELSE "admitted"
        /\ UNCHANGED waived
     \/ /\ review = "asked" /\ ~calm
        /\ review' = OnListError
        /\ UNCHANGED waived
  /\ UNCHANGED <<dnVars, phase, enabled, object, webhooks, hook, overlooked>>

CommitDisable ==
  /\ review = "admitted"
  /\ enabled' = FALSE /\ review' = "none"
  /\ UNCHANGED <<dnVars, phase, object, webhooks, hook, overlooked, waived>>

\* A DELETE of the ModuleConfig is not reviewed.
DeleteConfig ==
  /\ phase = "on" /\ enabled
  /\ enabled' = FALSE /\ review' = "none"
  /\ waived' = TRUE
  /\ UNCHANGED <<dnVars, phase, object, webhooks, hook, overlooked>>

\* With no webhook pod behind it a registered configuration refuses everything.
Enable ==
  /\ ~enabled
  /\ phase = "on" \/ "mc" \notin webhooks
  /\ enabled' = TRUE /\ waived' = FALSE
  /\ UNCHANGED <<dnVars, phase, review, object, webhooks, hook, overlooked>>

-----------------------------------------------------------------------------
(* Deckhouse: the release and the hook after its removal. *)

Install ==
  /\ phase = "off" /\ enabled
  /\ phase' = "on"
  /\ \E c \in Config \ {"absent"} : Deploy(c)
  /\ webhooks' = Webhooks /\ overlooked' = {} /\ waived' = FALSE
  /\ UNCHANGED <<nodeVars, calm, enabled, review, object, hook>>

\* Helm removes the controllers, Rook, the webhook pods, the Secret and the namespace,
\* and the webhook configurations of the release unless it stumbles over them.  What is
\* in the namespace goes with it; Rook's objects do so later if their webhook stays
\* (DeleteObject).
Uninstall ==
  /\ phase = "on" /\ ~enabled
  /\ phase' = "hook" /\ hook' = FirstTask /\ overlooked' = {}
  /\ Undeploy
  /\ webhooks' \in SUBSET webhooks
  /\ object' = [k \in Kind |-> 
                   IF k \in Namespaced /\ (k \in Rook => "vendor" \notin webhooks')
                   THEN Marked(object[k]) ELSE object[k]]
  /\ waived' = FALSE
  /\ UNCHANGED <<nodeVars, calm, enabled, review>>

\* A merge patch that empties the finalizers; a webhook that intercepts it has no pod
\* any more.
Stripped(o) == IF o = "held" THEN "free" ELSE IF o = "dying" THEN "absent" ELSE o
Denied(k) == object[k] \in {"held", "dying"} /\ Intercepted(k, webhooks)

TaskDone(k, failed) ==
  hook' = [todo |-> hook.todo \ {k}, failed |-> hook.failed \/ failed]

AtTask(k) ==
  /\ phase = "hook"
  /\ k \in hook.todo
  /\ \A l \in hook.todo : HookOrder[k] <= HookOrder[l]

StripFinalizers(k) ==
  /\ AtTask(k)
  /\ \/ /\ Denied(k)
        /\ TaskDone(k, TRUE)
        /\ UNCHANGED object
     \/ /\ ~Denied(k)
        /\ TaskDone(k, FALSE)
        /\ object' = [object EXCEPT ![k] = Stripped(@)]
  /\ UNCHANGED <<dnVars, phase, enabled, review, webhooks, overlooked, waived>>

\* A list or a patch fails: the error is kept and the next kind is taken on.
FailedList_Swallowed == FALSE
FailedList == TRUE

StripFails(k) ==
  /\ AtTask(k) /\ ~calm
  /\ TaskDone(k, FailedList)
  /\ UNCHANGED <<dnVars, phase, enabled, review, object, webhooks, overlooked, waived>>

\* The configurations on the hook's list are deleted if they are found; a Get that fails
\* for any reason passes for "not found".
DeleteWebhooks_McOnly ==
  /\ AtTask("webhooks")
  /\ webhooks' = webhooks \ {"mc"}
  /\ TaskDone("webhooks", FALSE)
  /\ UNCHANGED <<dnVars, phase, enabled, review, object, overlooked, waived>>
DeleteWebhooks ==
  /\ AtTask("webhooks")
  /\ LET listed == webhooks \cap WebhookConfigurationsToDelete
     IN  \E unread, undeleted \in IF calm THEN {{}} ELSE SUBSET listed :
           /\ webhooks' = (webhooks \ listed) \cup unread \cup undeleted
           /\ overlooked' = unread \ undeleted
           /\ TaskDone("webhooks", undeleted # {})
  /\ UNCHANGED <<dnVars, phase, enabled, review, object, waived>>

\* A run that has failed is run again by Deckhouse.
HookEnds ==
  /\ phase = "hook" /\ hook.todo = {}
  /\ IF hook.failed
       THEN hook' = FirstTask /\ UNCHANGED phase
       ELSE hook' = NoHook /\ phase' = "off"
  /\ UNCHANGED <<dnVars, enabled, review, object, webhooks, overlooked, waived>>

\* The kube client cannot be set up, or the pod of the hooks restarts.
HookAborts ==
  /\ phase = "hook" /\ ~calm
  /\ hook' = FirstTask
  /\ UNCHANGED <<dnVars, phase, enabled, review, object, webhooks, overlooked, waived>>

HookStep ==
  (\E k \in Kind : StripFinalizers(k)) \/ DeleteWebhooks \/ HookEnds

-----------------------------------------------------------------------------
LabelStep(A) == A /\ Witness /\ UNCHANGED lifeVars

Labelling ==
  \/ LabelStep(PassStep) \/ LabelStep(PassFails) \/ LabelStep(TimerFires)
  \/ LabelStep(ConfigChanges) \/ LabelStep(WatcherRestarts)
  \/ \E n \in Node : LabelStep(NodeDrifts(n))
  \/ LabelStep(Settle)

Objects == CreateCluster \/ \E k \in Kind : DeleteObject(k) \/ Manage(k)
Settings == AskDisable \/ Review \/ CommitDisable \/ DeleteConfig \/ Enable
Release == (Install \/ Uninstall) /\ Witness
Hook == HookStep \/ HookAborts \/ \E k \in Kind : StripFails(k)

Next == Labelling \/ Objects \/ Settings \/ Release \/ Hook

Spec == Init /\ [][Next]_vars

(***************************************************************************)
(* A pass and a run of the hook go on, timers fire, and Deckhouse removes  *)
(* a disabled module and retries its hook.                                 *)
(***************************************************************************)
Fairness ==
  /\ WF_vars(LabelStep(PassStep)) /\ WF_vars(LabelStep(TimerFires))
  /\ WF_vars(LabelStep(Settle))
  /\ WF_vars(Uninstall /\ Witness) /\ WF_vars(HookStep)

FairSpec == Spec /\ Fairness

-----------------------------------------------------------------------------
(* Properties. *)

\* The module is uninstalled over an existing cluster only if the operator has
\* forced it or deleted the ModuleConfig, or the cluster came after the webhook had
\* looked.
DisableGuarded ==
  [][phase = "on" /\ phase' = "hook" /\ ClusterExists => waived]_vars

\* A hook that reports success leaves no finalizer on the objects of its kinds, after any
\* number of runs that failed half-way and whichever webhooks Helm has left behind, and of
\* the two configurations on its list none but one that it failed to read.  Of the three
\* others it leaves what Helm has left.
HookThorough ==
  phase = "off" =>
    /\ \A k \in Kind : object[k] \in {"absent", "free"}
    /\ webhooks \cap WebhookConfigurationsToDelete \subseteq overlooked

\* A webhook that is not on the hook's list refuses its patch of an object, in this run
\* and in every other: nobody deletes its configuration.
Wedged ==
  \E k \in Kind : Denied(k) /\ Interceptor[k] \notin WebhookConfigurationsToDelete

\* The removal of the module comes to an end, whatever fails in the meantime and though
\* Helm has left the webhook of Rook's objects behind.  It does not end over an
\* ElasticCluster, ElasticStorageClass or ElasticClusterCredential that has a finalizer
\* when Helm has left behind the webhook of that kind.
Unwedged == []<>(phase # "hook" \/ Wedged)

\* What a pass does to a node about which nothing has changed since it began is what
\* the selector in the Secret asks for; with one that cannot be read it does nothing.
PatchesJustified ==
  [][pass.at # pass'.at =>
       \A n \in steady : (n \in labelled) # (n \in labelled') =>
         config \in Selector /\ (n \in labelled' <=> n \in Matching(config))]_vars

\* A watcher that is up and finds a Secret is never without a next pass: a pass under
\* way, a key in the queue or a timer, after any failure and any restart.  No event
\* of a node would wake it.
WatcherAwake ==
  running /\ config # "absent" => queued \/ timer \/ pass.at # "idle"

\* Every node gets or loses the label as the selector asks, on timers and Secret events
\* alone, after patches that failed, labels that others edited and any number of new
\* selectors and installations.
LabelsFollow ==
  \A n \in Node :
    []<>(config \in Selector => (n \in labelled <=> n \in Matching(config)))
=============================================================================
