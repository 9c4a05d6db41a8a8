------------------------------ MODULE Engines ------------------------------
(***************************************************************************)
(* Which framework runs a node of a graph, and under which policy.         *)
(*                                                                         *)
(* A graph run resolves its runtime engine from the platform settings and  *)
(* the request (_resolve_runtime_engine) and its security policy from the  *)
(* platform, the workflow and the agent (_resolve_execution_security_      *)
(* policy), once, when it starts.  Every node then asks the resolved       *)
(* runtime for the engine of its role (_resolve_node_runtime_engine), runs *)
(* on it through an adapter (_run_framework_...), and is recorded in the   *)
(* list of dispatches and in its own result.  Settings and definitions can *)
(* be saved while the run is under way.                                    *)
(*                                                                         *)
(* Left out: spelling variants of engine names, what the adapters say in   *)
(* their notes, and the controls of a tool or retrieval node that come     *)
(* before its engine is asked (module GraphRun).                           *)
(***************************************************************************)
EXTENDS Integers, Sequences, FiniteSets

CONSTANTS
    HPlatforms,   \* platform settings an administrator saves
    HConfigs,     \* security configs of a workflow or an agent
    HRequests,    \* "runtime" objects of a run's input
    HHosts,       \* environment flags and installed packages
    HNodes,       \* the nodes of the graph in execution order
    HMaxSaves     \* bound on saves during a run

HEngines == {"native", "langgraph", "langchain", "semantic-kernel", "autogen"}
HRoles == {"default", "orchestration", "retrieval", "tooling", "collaboration"}
HScopeNames == {"session", "agent", "global"}
HUnset == "unset"
HUnnamed == {"unset"}   \* a list a config does not have

ASSUME EnginesBounds ==
    /\ HMaxSaves \in Nat
    /\ \A p \in HPlatforms : p.allowed \subseteq HEngines
    /\ HConfigs # {} /\ HRequests # {} /\ HHosts # {}

VARIABLES hPlat, hConfig, hHost, hRun, hSaves

hVars == <<hPlat, hConfig, hHost, hRun, hSaves>>

-----------------------------------------------------------------------------
(* The engine of a run *)

normalize_runtime_engine(e) == IF e = "" THEN "native" ELSE e

Supported(e, other) == IF normalize_runtime_engine(e) \in HEngines
                       THEN normalize_runtime_engine(e) ELSE other

(* What a routing says of a role, or another engine when it says nothing.     *)
Says(routing, role, other) ==
    IF role \in DOMAIN routing /\ routing[role] # "" THEN routing[role] ELSE other

normalize_hybrid_runtime_routing(raw, default_engine) ==
    LET normalized == Supported(default_engine, "native")
        default == Supported(Says(raw, "default", normalized), normalized) IN
    [role \in HRoles |->
        IF role = "default" THEN default ELSE Supported(Says(raw, role, default), default)]

required_modules(e) ==
    CASE e = "langgraph" -> {{"langgraph"}, {"langchain_openai"}}
      [] e = "langchain" -> {{"langchain_core"}, {"langchain_openai"}}
      [] e = "semantic-kernel" -> {{"semantic_kernel"}}
      [] e = "autogen" -> {{"autogen_agentchat", "autogen"}}
      [] OTHER -> {}

framework_runtime_probe(e) == \A choice \in required_modules(e) : choice \cap hHost.installed # {}

(* _resolve_engine_execution: what runs when this engine is selected; an      *)
(* engine that is switched off or missing without a fallback is refused.      *)
resolve_engine_execution(e) ==
    CASE e = "native" -> [executed |-> "native", mode |-> "native"]
      [] e \notin HEngines -> [executed |-> "", mode |-> "refused"]
      [] e # "native" /\ ~hHost.nonnative -> [executed |-> "", mode |-> "refused"]
      [] framework_runtime_probe(e) -> [executed |-> e, mode |-> "delegated"]
      [] hHost.compat -> [executed |-> "native", mode |-> "compatibility"]
      [] OTHER -> [executed |-> "", mode |-> "refused"]

(* The engine and the strategy a request gets.                                *)
selected_engine(req, plat) ==
    IF plat.override THEN normalize_runtime_engine(req.engine)
    ELSE Supported(plat.engine, "native")
strategy(req, plat) == IF plat.override /\ req.strategy # "" THEN req.strategy ELSE plat.strategy

(* The engine a request asks for each role.                                   *)
requested_routing(req, plat) ==
    LET selected == selected_engine(req, plat)
        policy == normalize_hybrid_runtime_routing(plat.routing, selected) IN
    IF strategy(req, plat) # "hybrid" THEN [role \in HRoles |-> selected]
    ELSE IF plat.override /\ DOMAIN req.routing # {}
    THEN normalize_hybrid_runtime_routing(
             [role \in HRoles |-> IF role \in DOMAIN req.routing THEN req.routing[role]
                                  ELSE policy[role]], selected)
    ELSE policy

(* Mutant of Allowed: only the selected engine is compared with the list. *)
AllowedSelected(req, plat) ==
    plat.enforce => selected_engine(req, plat) \in plat.allowed

Allowed(req, plat) ==
    plat.enforce => /\ selected_engine(req, plat) \in plat.allowed
                    /\ \A role \in HRoles : requested_routing(req, plat)[role] \in plat.allowed

(* _resolve_runtime_engine: what each role runs on; ok is FALSE when the      *)
(* request is refused.                                                        *)
resolve_runtime_engine(req, plat) ==
    LET routing == requested_routing(req, plat)
        resolved == [role \in HRoles |-> resolve_engine_execution(routing[role])] IN
    [ok |-> /\ selected_engine(req, plat) \in HEngines
            /\ Allowed(req, plat)
            /\ \A role \in HRoles : resolved[role].mode # "refused",
     strategy |-> strategy(req, plat), resolved |-> resolved]

-----------------------------------------------------------------------------
(* The policy of a run *)

HMinOf(a, b) == IF b > 0 /\ b < a THEN b ELSE a
HMaxOf(a, b) == IF b > a THEN b ELSE a

(* _normalize_security_scope_config of a missing config.                      *)
HNoConfig == [scopes |-> HUnnamed, limit |-> 0, approval |-> FALSE, override |-> HUnset,
              enforcement |-> -1, classification |-> 1]

platform_security_defaults(plat) ==
    [scopes |-> HScopeNames, limit |-> plat.limit, approval |-> plat.approval,
     override |-> plat.override, enforcement |-> plat.enforcement, classification |-> 1]

(* One layer of _resolve_effective_security_policy.                           *)
Tightened(base, config) ==
    [scopes |-> IF config.scopes = HUnnamed THEN base.scopes ELSE base.scopes \cap config.scopes,
     limit |-> HMinOf(base.limit, config.limit),
     approval |-> base.approval \/ config.approval,
     override |-> base.override /\ config.override # "no",
     enforcement |-> HMaxOf(base.enforcement, config.enforcement),
     classification |-> HMaxOf(base.classification, config.classification)]

resolve_effective_security_policy(plat, workflow, agent) ==
    Tightened(Tightened(platform_security_defaults(plat), workflow), agent)

(* _resolve_execution_security_policy: an agent also has the config of the    *)
(* workflow it belongs to.                                                    *)
resolve_execution_security_policy(entity) ==
    resolve_effective_security_policy(
        hPlat,
        IF entity \in {"workflow", "agent"} THEN hConfig.workflow ELSE HNoConfig,
        IF entity = "agent" THEN hConfig.agent ELSE HNoConfig)

(* _allowed_memory_scopes_from_policy: an empty list stands for every scope.  *)
allowed_memory_scopes_from_policy(policy) ==
    IF policy.scopes = {} THEN HScopeNames ELSE policy.scopes

enforce_memory_scope_policy(scope) ==
    scope \in allowed_memory_scopes_from_policy(hRun.policy)

-----------------------------------------------------------------------------
(* The engine of a node *)

(* _infer_agent_runtime_role *)
infer_agent_runtime_role(node, outputs) ==
    CASE node.hint # "" -> node.hint
      [] node.fed = "documents" -> "retrieval"
      [] node.fed = "result" -> "tooling"
      [] node.planner -> "orchestration"
      [] outputs > 0 -> "collaboration"
      [] OTHER -> "default"

(* _infer_graph_node_runtime_role *)
infer_graph_node_runtime_role(node, outputs) ==
    CASE node.hint # "" -> node.hint
      [] node.kind = "agent" -> infer_agent_runtime_role(node, outputs)
      [] node.kind = "retrieval" -> "retrieval"
      [] node.kind = "tool" -> "tooling"
      [] node.kind = "memory" -> "collaboration"
      [] OTHER -> "orchestration"

resolve_node_runtime_engine(role) == hRun.info.resolved[role]

(* The four framework clients: without a key, or when a package does not      *)
(* import or the call fails, the provider counts as unavailable.  AutoGen     *)
(* tries the modern package, then the legacy one.                             *)
langchain_chat(loads) == IF hHost.key /\ loads THEN "answered" ELSE "unavailable"
langgraph_chat(loads) == IF loads THEN langchain_chat(loads) ELSE "unavailable"
semantic_kernel_chat(loads) == IF hHost.key /\ loads THEN "answered" ELSE "unavailable"
autogen_chat(modern, legacy) ==
    IF hHost.key /\ (modern \/ legacy) THEN "answered" ELSE "unavailable"

framework_chat(engine, loads, legacy) ==
    CASE engine = "langchain" -> langchain_chat(loads)
      [] engine = "langgraph" -> langgraph_chat(loads)
      [] engine = "semantic-kernel" -> semantic_kernel_chat(loads)
      [] engine = "autogen" -> autogen_chat(loads, legacy)
      [] OTHER -> "answered"

(* What an adapter gives back, and whether it says the framework served it.   *)
Adapted(outcome, engine, loads) ==
    [outcome |-> outcome,
     meta |-> IF engine = "native" \/ loads THEN "live" ELSE "native_fallback"]

(* A framework invents the tool's answer and the documents; only the native   *)
(* engine makes the call.  Without its packages it has no documents.          *)
framework_tool_call(engine, loads) ==
    Adapted(IF engine = "native" THEN "called" ELSE "simulated", engine, loads)
framework_retrieval(engine, loads) ==
    CASE engine = "native" -> [outcome |-> "documents", meta |-> "live"]
      [] engine # "native" /\ loads -> [outcome |-> "simulated", meta |-> "live"]
      [] OTHER -> [outcome |-> "none", meta |-> "framework_unavailable"]

(* The other adapters evaluate natively, whether the packages import or not.  *)
framework_guardrail(engine, loads) == Adapted("verdict", engine, loads)
framework_manifold(engine, loads) == Adapted("joined", engine, loads)
framework_human_review(node, engine, loads) ==
    Adapted(IF node.auto THEN "approved" ELSE "pending", engine, loads)
framework_memory(engine, loads) == Adapted("remembered", engine, loads)

NodeOutcome(node, engine, loads, legacy) ==
    CASE node.kind = "agent" -> [outcome |-> framework_chat(engine, loads, legacy), meta |-> "live"]
      [] node.kind = "tool" -> framework_tool_call(engine, loads)
      [] node.kind = "retrieval" -> framework_retrieval(engine, loads)
      [] node.kind = "guardrail" -> framework_guardrail(engine, loads)
      [] node.kind = "manifold" -> framework_manifold(engine, loads)
      [] node.kind = "review" -> framework_human_review(node, engine, loads)
      [] OTHER -> framework_memory(engine, loads)

-----------------------------------------------------------------------------
(* A run *)

HNoInfo == [ok |-> FALSE, strategy |-> "single",
            resolved |-> [role \in HRoles |-> [executed |-> "native", mode |-> "native"]]]

HIdle == [phase |-> "idle", info |-> HNoInfo, policy |-> platform_security_defaults(hPlat),
          start |-> hPlat, req |-> CHOOSE r \in HRequests : TRUE, entity |-> "",
          at |-> 1, outputs |-> 0, ran |-> <<>>, dispatches |-> <<>>, reported |-> <<>>]

(* The start of run_graph.                                                    *)
StartGraphRun ==
    /\ hRun.phase = "idle"
    /\ \E req \in HRequests, entity \in {"", "workflow", "agent"} :
         LET info == resolve_runtime_engine(req, hPlat) IN
         hRun' = [hRun EXCEPT !.phase = IF info.ok THEN "running" ELSE "refused",
                              !.info = info, !.start = hPlat, !.req = req, !.entity = entity,
                              !.policy = resolve_execution_security_policy(entity)]
    /\ UNCHANGED <<hPlat, hConfig, hHost, hSaves>>

(* An agent records its dispatch itself; for any other node the run does,     *)
(* with the role worked out again after the node ran.                         *)
Dispatched(node, role, outputs, list) ==
    LET again == IF node.kind = "agent" THEN role
                 ELSE infer_graph_node_runtime_role(node, outputs) IN
    Append(list, [role |-> again, engine |-> resolve_node_runtime_engine(again).executed])

(* One node: its role, its engine, the adapter, the dispatch and the runtime  *)
(* written into its result.  A memory node outside the allowed scopes and an  *)
(* agent without an answer fail the run.                                      *)
RunOneNode ==
    /\ hRun.phase = "running"
    /\ hRun.at <= Len(HNodes)
    /\ \E loads, legacy \in BOOLEAN :
         LET node == HNodes[hRun.at]
             role == infer_graph_node_runtime_role(node, hRun.outputs)
             engine == resolve_node_runtime_engine(role).executed
             result == NodeOutcome(node, engine, loads, legacy)
             outputs == hRun.outputs + (IF node.kind = "agent" THEN 1 ELSE 0)
             after == infer_graph_node_runtime_role(node, outputs)
             denied == node.kind = "memory" /\ ~enforce_memory_scope_policy(node.scope) IN
         IF denied \/ result.outcome = "unavailable"
         THEN hRun' = [hRun EXCEPT !.phase = "failed"]
         ELSE hRun' = [hRun EXCEPT
                !.at = @ + 1, !.outputs = outputs,
                !.ran = Append(@, [role |-> role, engine |-> engine, result |-> result]),
                !.dispatches = Dispatched(node, role, outputs, @),
                !.reported = Append(@, resolve_node_runtime_engine(after).executed)]
    /\ UNCHANGED <<hPlat, hConfig, hHost, hSaves>>

CompleteGraphRun ==
    /\ hRun.phase = "running"
    /\ hRun.at > Len(HNodes)
    /\ hRun' = [hRun EXCEPT !.phase = "completed"]
    /\ UNCHANGED <<hPlat, hConfig, hHost, hSaves>>

(* The settings, the workflow or the agent is saved while the run goes on.    *)
SaveDuringRun ==
    /\ hRun.phase = "running"
    /\ hSaves < HMaxSaves
    /\ hSaves' = hSaves + 1
    /\ \/ hPlat' \in HPlatforms /\ UNCHANGED hConfig
       \/ \E c \in HConfigs, who \in {"workflow", "agent"} :
            hConfig' = [hConfig EXCEPT ![who] = c] /\ UNCHANGED hPlat
    /\ UNCHANGED <<hHost, hRun>>

HEnded == hRun.phase \in {"refused", "failed", "completed"} /\ UNCHANGED hVars

HInit ==
    /\ hPlat \in HPlatforms
    /\ hConfig \in [workflow : HConfigs, agent : HConfigs]
    /\ hHost \in HHosts
    /\ hSaves = 0
    /\ hRun = HIdle

HNext == StartGraphRun \/ RunOneNode \/ CompleteGraphRun \/ SaveDuringRun \/ HEnded

HSpec == HInit /\ [][HNext]_hVars

-----------------------------------------------------------------------------
(* Properties *)

(* Every node runs on an engine; the run's records are as long as its         *)
(* progress.                                                                  *)
HTypeOK ==
    /\ hPlat \in HPlatforms /\ hSaves \in 0..HMaxSaves
    /\ hRun.at \in 1..(Len(HNodes) + 1)
    /\ Len(hRun.ran) = hRun.at - 1
    /\ \A i \in DOMAIN hRun.ran : hRun.ran[i].engine \in HEngines /\ hRun.ran[i].role \in HRoles
    /\ hRun.phase \in {"idle", "running", "refused", "failed", "completed"}

(* With the engine allowlist enforced when a run starts, each of its nodes    *)
(* runs on an engine of that list, or natively in place of an allowed engine  *)
(* that is not installed: hybrid routing and later edits of the settings open *)
(* no way around the list.                                                    *)
EnginesWereAllowed ==
    hRun.start.enforce =>
        \A i \in DOMAIN hRun.ran :
            \/ hRun.ran[i].engine \in hRun.start.allowed
            \/ /\ hRun.ran[i].engine = "native"
               /\ hRun.info.resolved[hRun.ran[i].role].mode = "compatibility"

(* Where the platform forbids overriding the engine, what the request says    *)
(* about engine, strategy and routing changes nothing: every role runs on     *)
(* what it runs on for a request that says nothing.                           *)
OverridesNeedPermission ==
    hRun.phase # "idle" /\ ~hRun.start.override =>
        \A quiet \in HRequests :
            (quiet.engine = "" /\ quiet.strategy = "" /\ DOMAIN quiet.routing = {})
                => hRun.info = resolve_runtime_engine(quiet, hRun.start)

(* The list of dispatches a run reports names, for every node that ran and in *)
(* order, the role and the engine the node really ran with.                   *)
DispatchesTellWhatRan ==
    /\ Len(hRun.dispatches) = Len(hRun.ran)
    /\ \A i \in DOMAIN hRun.ran :
         /\ hRun.dispatches[i].role = hRun.ran[i].role
         /\ hRun.dispatches[i].engine = hRun.ran[i].engine

(* The policy of a run is at least as strict as the platform's at its start   *)
(* in every respect, whatever the workflow and the agent configure.           *)
PolicyOnlyTightens ==
    LET base == platform_security_defaults(hRun.start) IN
    hRun.phase # "idle" =>
        /\ hRun.policy.scopes \subseteq base.scopes
        /\ hRun.policy.limit <= base.limit
        /\ base.approval => hRun.policy.approval
        /\ hRun.policy.override => base.override
        /\ hRun.policy.enforcement >= base.enforcement
        /\ hRun.policy.classification >= base.classification

(* A memory node runs only in a scope its run's policy permits, except under  *)
(* a policy that permits none, which the code reads as permitting all.        *)
MemoryScopesArePermitted ==
    \A i \in DOMAIN hRun.ran :
        HNodes[i].kind = "memory" =>
            HNodes[i].scope \in hRun.policy.scopes \/ hRun.policy.scopes = {}

(* The runtime written into a node's result names the engine it ran on.       *)
NodeRuntimeTellsWhatRan ==
    \A i \in DOMAIN hRun.ran : hRun.reported[i] = hRun.ran[i].engine

=============================================================================
