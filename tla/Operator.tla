------------------------------ MODULE Operator ------------------------------
(***************************************************************************)
(* k8s/operator/controllers: what the handlers for an Agent and for an     *)
(* AgentMesh that refers to it do to the cluster.  The handlers call the   *)
(* API synchronously, so one runs at a time; users, the cluster's garbage  *)
(* collector and faults come between the calls of a handler.               *)
(*                                                                         *)
(* kopf is external: it runs the create handler of an object until it has  *)
(* succeeded, the update handler while the spec differs from the one last  *)
(* handled, and the delete handler before the object goes.  A call that    *)
(* raises, and a restart of the operator, make it run the handler again.   *)
(***************************************************************************)
EXTENDS Naturals

CONSTANTS
  ReplicaCounts,  \* the numbers of replicas that users ask for; 0 suspends an agent
  Versions,       \* specs of the mesh
  MaxCreations,   \* bound: how often the objects are created, taken together
  MaxFaults       \* bound: failing calls and restarts

ASSUME OperatorAssumption ==
  /\ ReplicaCounts \subseteq Nat
  /\ Versions \subseteq Nat

VARIABLES
  agentCR,     \* the Agent: its spec is a number of replicas; created says whether a creation
               \* has been handled, and handled what spec was handled last
  meshCR,      \* the AgentMesh: its spec is a version
  over,        \* whether the agent's totalCost has reached maxCostPerHour
  deployment,  \* Deployment agent-<name>; wired: it has AUMOS_MESH_ROUTING_CONFIG
  service,     \* Service agent-<name>-svc
  configmap,   \* ConfigMap agentmesh-<name>-routing
  handler,     \* the handler that runs
  faults,      \* faults so far
  suspended,   \* whether the agent was suspended since its spec was last applied
  hurt         \* of each kind of object, "stale" if a handler of it was cut short after a
               \* call, "left" if its clean-up failed, "no" if neither or if it was mended

operatorVars == <<agentCR, meshCR, over, deployment, service, configmap, handler, faults,
                  suspended, hurt>>

\* suspended and hurt are history variables.  The uid 0 stands for no object and for no owner.

NoHandler == [kind |-> "none", event |-> "none", call |-> 0, seen |-> 0, uid |-> 0]

NoCR == [state |-> "absent", uid |-> 0, spec |-> 0, created |-> FALSE, handled |-> 0]

NoDeployment == [exists |-> FALSE, owner |-> 0, replicas |-> 0, wired |-> FALSE]

NoService == [exists |-> FALSE, owner |-> 0]

NoConfigMap == [exists |-> FALSE, owner |-> 0, version |-> 0]

OperatorInit ==
  /\ agentCR = NoCR
  /\ meshCR = NoCR
  /\ over = FALSE
  /\ deployment = NoDeployment
  /\ service = NoService
  /\ configmap = NoConfigMap
  /\ handler = NoHandler
  /\ faults = 0
  /\ suspended = FALSE
  /\ hurt = [kind \in {"agent", "mesh"} |-> "no"]
-----------------------------------------------------------------------------
(***************************************************************************)
(* Users and the cluster.                                                  *)
(***************************************************************************)

\* The changes of an object by users: creation, a new spec, and a request to delete it.  Edits
\* of an agent that leave its replicas alone, and specs that are refused, are left out.
Changed(cr, specs) ==
  {[NoCR EXCEPT !.state = "present", !.uid = cr.uid + 1, !.spec = s] :
     s \in {s \in specs : cr.state = "absent" /\ agentCR.uid + meshCR.uid < MaxCreations}}
  \union {[cr EXCEPT !.spec = s] : s \in {s \in specs \ {cr.spec} : cr.state = "present"}}
  \union {[cr EXCEPT !.state = "deleting"] : s \in {s \in {cr.spec} : cr.state = "present"}}

\* A new agent has spent nothing, and an edit of its spec may come with another budget.
UserChangesAgent ==
  /\ agentCR' \in Changed(agentCR, ReplicaCounts)
  /\ over' \in CASE agentCR.state = "absent" -> {FALSE}
                  [] agentCR'.state = "deleting" -> {over}
                  [] OTHER -> BOOLEAN
  /\ UNCHANGED <<meshCR, deployment, service, configmap, handler, faults, suspended,
                 hurt>>

UserChangesMesh ==
  /\ meshCR' \in Changed(meshCR, Versions)
  /\ UNCHANGED <<agentCR, over, deployment, service, configmap, handler, faults, suspended,
                 hurt>>

\* The agent has spent its budget: totalCost is cumulative and never falls.
Spend ==
  /\ agentCR.state # "absent" /\ ~over
  /\ over' = TRUE
  /\ UNCHANGED <<agentCR, meshCR, deployment, service, configmap, handler, faults, suspended,
                 hurt>>

\* A resource whose owner is no more is collected.
Collectable(resource, cr) ==
  /\ resource.exists
  /\ resource.owner # 0
  /\ cr.state = "absent" \/ cr.uid # resource.owner

Collect ==
  /\ \/ /\ Collectable(deployment, agentCR)
        /\ deployment' = NoDeployment
        /\ UNCHANGED <<service, configmap>>
     \/ /\ Collectable(service, agentCR)
        /\ service' = NoService
        /\ UNCHANGED <<deployment, configmap>>
     \/ /\ Collectable(configmap, meshCR)
        /\ configmap' = NoConfigMap
        /\ UNCHANGED <<deployment, service>>
  /\ UNCHANGED <<agentCR, meshCR, over, handler, faults, suspended, hurt>>
-----------------------------------------------------------------------------
(***************************************************************************)
(* Handlers begin and end.                                                 *)
(***************************************************************************)

\* The handler that kopf owes an object, before its first call.
Owed(cr, kind) ==
  LET on(event) == [kind |-> kind, event |-> event, call |-> 1, seen |-> cr.spec, uid |-> cr.uid]
  IN  CASE cr.state = "deleting" -> on("delete")
        [] cr.state = "present" /\ ~cr.created -> on("create")
        [] cr.state = "present" /\ cr.created /\ cr.handled # cr.spec -> on("update")
        [] OTHER -> NoHandler

Begin ==
  /\ handler = NoHandler
  /\ handler' \in {Owed(agentCR, "agent"), Owed(meshCR, "mesh")} \ {NoHandler}
  /\ UNCHANGED <<agentCR, meshCR, over, deployment, service, configmap, faults, suspended,
                 hurt>>

At(kind, event, n) == handler.kind = kind /\ handler.event = event /\ handler.call = n

NextCall == handler' = [handler EXCEPT !.call = @ + 1]

\* The calls of each handler.
LastCall ==
  CASE handler.kind = "mesh" /\ handler.event = "delete" -> 1
    [] handler.kind = "agent" /\ handler.event = "update" -> 1
    [] OTHER -> 2

\* kopf notes that a handler has ended well: what it has handled, or that the object may go.
After(cr, kind) ==
  CASE handler.kind # kind \/ handler.event = "timer" -> cr
    [] handler.kind = kind /\ handler.event = "delete" -> [NoCR EXCEPT !.uid = cr.uid]
    [] OTHER -> [cr EXCEPT !.created = TRUE, !.handled = handler.seen]

Finish ==
  /\ handler # NoHandler /\ handler.call > LastCall
  /\ agentCR' = After(agentCR, "agent")
  /\ meshCR' = After(meshCR, "mesh")
  /\ handler' = NoHandler
  /\ hurt' = IF /\ handler.event = "update"
                /\ handler.kind = "mesh" \/ hurt["agent"] = "stale"
               THEN [hurt EXCEPT ![handler.kind] = "no"] ELSE hurt
  /\ UNCHANGED <<over, deployment, service, configmap, faults, suspended>>
-----------------------------------------------------------------------------
(***************************************************************************)
(* agent_controller.py                                                     *)
(***************************************************************************)

\* _build_deployment_manifest(), owned by the agent with this uid.
DeploymentManifest(uid, n) ==
  [exists |-> TRUE, owner |-> uid, replicas |-> n, wired |-> FALSE]

\* _build_service_manifest()
ServiceManifest(uid) == [exists |-> TRUE, owner |-> uid]

\* on_agent_create(): create_namespaced_deployment(); 409 is fine.
CreateDeployment ==
  /\ At("agent", "create", 1)
  /\ deployment' = IF deployment.exists THEN deployment
                   ELSE DeploymentManifest(handler.uid, handler.seen)
  /\ suspended' = (suspended /\ deployment.exists)
  /\ NextCall
  /\ UNCHANGED <<agentCR, meshCR, over, service, configmap, faults, hurt>>

\* create_namespaced_service(); 409 is fine.
CreateService ==
  /\ At("agent", "create", 2)
  /\ service' = IF service.exists THEN service ELSE ServiceManifest(handler.uid)
  /\ NextCall
  /\ UNCHANGED <<agentCR, meshCR, over, deployment, configmap, faults, suspended, hurt>>

\* Mutant of Replicated: the patch leaves the number of replicas alone.
ReplicatedNot(d, n) == d

\* The patch of on_agent_update() and of the budget: nothing without a deployment.
Replicated(d, n) == IF d.exists THEN [d EXCEPT !.replicas = n] ELSE d

\* on_agent_update(): the replicas of the spec, also for an agent that was suspended.
UpdateDeployment ==
  /\ At("agent", "update", 1)
  /\ deployment' = Replicated(deployment, handler.seen)
  /\ suspended' = FALSE
  /\ NextCall
  /\ UNCHANGED <<agentCR, meshCR, over, service, configmap, faults, hurt>>

\* on_agent_delete(): a call that fails is logged, and the object goes all the same.
DeleteDeployment(failing) ==
  /\ At("agent", "delete", 1)
  /\ deployment' = IF failing THEN deployment ELSE NoDeployment
  /\ hurt' = [hurt EXCEPT !["agent"] = IF failing THEN "left" ELSE "no"]
  /\ faults' = IF failing THEN faults + 1 ELSE faults
  /\ NextCall
  /\ UNCHANGED <<agentCR, meshCR, over, service, configmap, suspended>>

DeleteService(failing) ==
  /\ At("agent", "delete", 2)
  /\ service' = IF failing THEN service ELSE NoService
  /\ hurt' = [hurt EXCEPT !["agent"] = IF failing THEN "left" ELSE @]
  /\ faults' = IF failing THEN faults + 1 ELSE faults
  /\ NextCall
  /\ UNCHANGED <<agentCR, meshCR, over, deployment, configmap, suspended>>

\* reconcile_agent_status(): the deployment is there, the budget is spent, and the spec asks
\* for replicas; what the deployment runs is not looked at.
ReconcileRead ==
  /\ handler = NoHandler
  /\ agentCR.state = "present" /\ deployment.exists /\ over
  /\ agentCR.spec > 0
  /\ handler' = [kind |-> "agent", event |-> "timer", call |-> 2, seen |-> 0, uid |-> agentCR.uid]
  /\ UNCHANGED <<agentCR, meshCR, over, deployment, service, configmap, faults, suspended,
                 hurt>>

\* The agent is scaled down; nothing scales it up again but a new spec.  Without the
\* deployment the call raises and the timer comes back later.
Suspend ==
  /\ At("agent", "timer", 2)
  /\ deployment' = Replicated(deployment, 0)
  /\ suspended' = (suspended \/ deployment.exists)
  /\ NextCall
  /\ UNCHANGED <<agentCR, meshCR, over, service, configmap, faults, hurt>>
-----------------------------------------------------------------------------
(***************************************************************************)
(* mesh_controller.py                                                      *)
(***************************************************************************)

\* _build_routing_configmap(); the uid 0 stands for one without owner references.
RoutingConfigMap(uid, version) == [exists |-> TRUE, owner |-> uid, version |-> version]

\* on_mesh_create(): create_namespaced_config_map(), owned by the mesh; 409 is fine.
CreateConfigMap ==
  /\ At("mesh", "create", 1)
  /\ configmap' = IF configmap.exists THEN configmap
                  ELSE RoutingConfigMap(handler.uid, handler.seen)
  /\ NextCall
  /\ UNCHANGED <<agentCR, meshCR, over, deployment, service, faults, suspended, hurt>>

\* Mutant of Replaced: the missing ConfigMap is not created again.
ReplacedIfThere(version) ==
  IF configmap.exists THEN RoutingConfigMap(0, version) ELSE configmap

\* A ConfigMap built without owner references, in place of the old one or of none.
Replaced(version) == RoutingConfigMap(0, version)

\* on_mesh_update(): replace_namespaced_config_map(), or create it after a 404.  The 404
\* changes nothing, and nobody else creates the ConfigMap before the second call: one step.
ReplaceConfigMap ==
  /\ At("mesh", "update", 1)
  /\ configmap' = Replaced(handler.seen)
  /\ NextCall
  /\ UNCHANGED <<agentCR, meshCR, over, deployment, service, faults, suspended, hurt>>

\* _patch_agent_deployment_with_configmap(): a failure of it is logged only.
Wire(failing) ==
  /\ At("mesh", "create", 2) \/ At("mesh", "update", 2)
  /\ deployment' = IF deployment.exists /\ ~failing THEN [deployment EXCEPT !.wired = TRUE]
                                                    ELSE deployment
  /\ faults' = IF failing THEN faults + 1 ELSE faults
  /\ NextCall
  /\ UNCHANGED <<agentCR, meshCR, over, service, configmap, suspended, hurt>>

\* on_mesh_delete(): a call that fails is logged, and the object goes all the same.
DeleteConfigMap(failing) ==
  /\ At("mesh", "delete", 1)
  /\ configmap' = IF failing THEN configmap ELSE NoConfigMap
  /\ hurt' = [hurt EXCEPT !["mesh"] = IF failing THEN "left" ELSE "no"]
  /\ faults' = IF failing THEN faults + 1 ELSE faults
  /\ NextCall
  /\ UNCHANGED <<agentCR, meshCR, over, deployment, service, suspended>>
-----------------------------------------------------------------------------
Calls ==
  \/ CreateDeployment \/ CreateService \/ UpdateDeployment \/ Suspend
  \/ CreateConfigMap \/ ReplaceConfigMap
  \/ DeleteDeployment(FALSE) \/ DeleteService(FALSE) \/ DeleteConfigMap(FALSE) \/ Wire(FALSE)

FailingCalls ==
  \/ DeleteDeployment(TRUE) \/ DeleteService(TRUE) \/ DeleteConfigMap(TRUE) \/ Wire(TRUE)

\* The operator restarts, or a call raises that the handler does not catch, before or after
\* it had its effect: the handler starts again, with the spec of then.
Abort ==
  /\ handler # NoHandler
  /\ faults < MaxFaults
  /\ faults' = faults + 1
  /\ handler' = NoHandler
  /\ hurt' = IF /\ handler.event \in {"create", "update"} /\ handler.call > 1
                /\ hurt[handler.kind] = "no"
               THEN [hurt EXCEPT ![handler.kind] = "stale"] ELSE hurt
  /\ UNCHANGED <<agentCR, meshCR, over, deployment, service, configmap, suspended>>

OperatorNext ==
  \/ UserChangesAgent \/ UserChangesMesh \/ Spend \/ Collect
  \/ Begin \/ ReconcileRead \/ Calls \/ Finish
  \/ faults < MaxFaults /\ FailingCalls
  \/ Abort

OperatorSpec == OperatorInit /\ [][OperatorNext]_operatorVars
-----------------------------------------------------------------------------
\* No handler is owed to the object or runs for it.
Settled(cr, kind) ==
  /\ Owed(cr, kind) = NoHandler
  /\ handler.kind # kind \/ handler.event = "timer"

\* An agent that runs over its budget, while the operator owes it nothing.
OverBudget ==
  over /\ deployment.exists /\ Settled(agentCR, "agent") /\ agentCR.state = "present"

\* When the operator owes an object nothing more, the cluster is what its spec says,
\* whatever edits, deletions, re-creations and retries came between the calls: an agent has
\* its own deployment and service, with the replicas of its spec unless its budget was spent
\* since; a mesh has a ConfigMap of its last spec; and an object that is gone has
\* left nothing.  Exceptions are the objects in hurt, and of these a deployment or a
\* service that is left behind has an owner, so that it will be collected.
ClusterSettles ==
  /\ Settled(agentCR, "agent") /\ hurt["agent"] = "no" =>
       IF agentCR.state = "present"
         THEN /\ deployment.exists /\ deployment.owner = agentCR.uid
              /\ service.exists /\ service.owner = agentCR.uid
              /\ deployment.replicas = IF suspended THEN 0 ELSE agentCR.spec
         ELSE ~deployment.exists /\ ~service.exists
  /\ Settled(meshCR, "mesh") /\ hurt["mesh"] = "no" =>
       IF meshCR.state = "present"
         THEN configmap.exists /\ configmap.version = meshCR.spec
         ELSE ~configmap.exists
  /\ agentCR.state = "absent" =>
       /\ deployment.exists => Collectable(deployment, agentCR)
       /\ service.exists => Collectable(service, agentCR)

\* An agent over its budget does not run on: if it stays over it, and its spec asks for
\* replicas and has been handled for good, it ends with none, although every edit of the spec
\* had started it again and calls of the operator failed.
OverBudgetStops ==
  <>[](OverBudget /\ agentCR.spec > 0) => <>[](deployment.replicas = 0)

\* What the CRD and the README promise of every agent: one that stays over its budget is
\* suspended.  The code breaks it for an agent whose creation was cut short after its
\* deployment and rerun after an edit to 0 replicas: the rerun's create is answered with 409,
\* so the deployment runs on, and the timer leaves an agent alone whose spec says 0.
SuspendedWhenExceeded == <>[]OverBudget => <>[](deployment.replicas = 0)
=============================================================================
