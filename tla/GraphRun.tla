------------------------------ MODULE GraphRun ------------------------------
(***************************************************************************)
(* Running a canvas graph with the backend's native executor: validation,  *)
(* the order of the nodes, which branches are live, what each node type    *)
(* does with the values that reach it, and the policy switches read while  *)
(* the run is in progress.  POST /graph/runs runs on a worker thread, one  *)
(* node at a time, while other requests change the platform settings; the  *)
(* executor reads the settings again at every node.                        *)
(*                                                                         *)
(* A value is the set of marks it carries: "high" and "low" are content    *)
(* the guardrail rules flag with that severity, "error" a payload that     *)
(* reports a rejected or failed call.  A host is "lan", "partner" or "wan" *)
(* ("" for none).  A canvas is a record: nodes (in payload order), type,   *)
(* conf (the node's configuration), bare (the required keys that are       *)
(* missing, as pairs of node and key) and links, edges in payload order.   *)
(***************************************************************************)
EXTENDS Integers, FiniteSets, SequencesExt

CONSTANTS
    Canvases,      \* the payloads that are submitted
    ToolLimit,     \* platform setting max_tool_calls_per_run
    MaxCollaborators, \* platform setting collaboration_max_agents
    MaxSwitches    \* bound on the settings changes made during a run

ASSUME GraphRunBounds == {ToolLimit, MaxCollaborators, MaxSwitches} \subseteq Nat

VARIABLES
    gCanvas,       \* the submitted graph
    gInput,        \* the marks of the run's input
    gSettings,     \* the platform settings in force
    gSwitches,     \* how often they changed
    gRun           \* the run (see NewRun)

gVars == <<gCanvas, gInput, gSettings, gSwitches, gRun>>

Marks == {"high", "low", "error"}
LocalHosts == {"lan"}
AllowedHosts == {"lan", "partner"}

NodeSet(c) == ToSet(c.nodes)
Into(c, n) == {i \in DOMAIN c.links : c.links[i].to = n}
Arriving(c, n, port) == {i \in Into(c, n) : c.links[i].at = port}

(***************************************************************************)
(* Validation and order.                                                   *)
(***************************************************************************)

\* What a node type demands: configuration keys, and inputs given as sets of
\* alternative ports.
Demand(keys, ports) == [config |-> keys, inputs |-> ports]
DataPorts(ports) == {{"in"}, ports \cup {"data"}}

ColumnDemands(type) ==
    CASE type = "prompt"     -> Demand({"system_prompt_text"}, {})
      [] type = "goal"       -> Demand({"intent"}, {})
      [] type = "assembly"   -> Demand({"confidence_threshold"}, {{"goal"}, {"evidence"}})
      [] type = "commitment" -> Demand({}, {{"commitment"}})
      [] OTHER               -> Demand({}, {})

CallDemands(type) ==
    CASE type = "agent"     -> Demand({"agent_id"}, {{"in"}})
      [] type = "tool-call" -> Demand({"tool_id"}, {{"in"}, {"request", "tool_input"}})
      [] type = "retrieval" -> Demand({"source_type"}, {{"query", "data", "request"}})
      [] OTHER              -> Demand({}, {})

ShapeDemands(type) ==
    CASE type = "router"    -> Demand({"router_mode"}, DataPorts({"candidate", "payload"}))
      [] type = "transform" -> Demand({"transform_mode"}, DataPorts({"source", "payload"}))
      [] type = "iterator"  -> Demand({"iteration_mode"}, DataPorts({"items", "payload"}))
      [] OTHER              -> Demand({}, {})

EffectDemands(type) ==
    CASE type = "error-handler" -> Demand({"handler_mode"}, DataPorts({"error", "result"}))
      [] type = "event"      -> Demand({"event_mode"}, DataPorts({"payload", "result"}))
      [] type = "data-store" -> Demand({"operation"}, DataPorts({"record", "payload", "result"}))
      [] type = "wait"       -> Demand({"wait_mode"}, {{"in"}})
      [] OTHER               -> Demand({}, {})

BoundaryDemands(type) ==
    CASE type = "memory"       -> Demand({"action", "scope"}, {})
      [] type = "guardrail"    -> Demand({"tripwire_action"}, {})
      [] type = "human-review" -> Demand({"reviewer_group"}, {})
      [] type = "output"       -> Demand({"destination", "format"}, {{"in"}})
      [] OTHER                 -> Demand({}, {})

Demands(type) == {ColumnDemands(type), CallDemands(type), ShapeDemands(type),
                  EffectDemands(type), BoundaryDemands(type)}

\* Kahn's algorithm: the queue starts with the nodes nothing points to, in
\* payload order, and a node joins it when its last incoming edge is used.
RECURSIVE Drain(_, _, _, _)
Drain(c, queue, indegree, order) ==
    IF queue = <<>> THEN order
    ELSE LET current == Head(queue)
             targets == SelectSeq(c.links, LAMBDA e : e.from = current)
             Use(acc, e) ==
                 LET left == [acc.indegree EXCEPT ![e.to] = @ - 1]
                 IN  [indegree |-> left,
                      queue |-> IF left[e.to] = 0 THEN Append(acc.queue, e.to)
                                ELSE acc.queue]
             after == FoldLeft(Use, [indegree |-> indegree, queue |-> Tail(queue)],
                               targets)
         IN  Drain(c, after.queue, after.indegree, Append(order, current))

\* Edges to or from unknown nodes are ignored; the result is shorter than the
\* node list when there is a cycle (None in the code).
topological_order(c) ==
    LET known == SelectSeq(c.links, LAMBDA e : {e.from, e.to} \subseteq NodeSet(c))
        indegree == [n \in NodeSet(c) |->
                        Cardinality({i \in DOMAIN known : known[i].to = n})]
    IN  Drain([c EXCEPT !.links = known],
              SelectSeq(c.nodes, LAMBDA n : indegree[n] = 0), indegree, <<>>)

has_cycle(c) == Len(topological_order(c)) # Len(c.nodes)

AgentCount(c) == Cardinality({n \in NodeSet(c) : c.type[n] = "agent"})
should_use_compiler(c) == has_cycle(c) \/ AgentCount(c) >= 2

\* Ids that are unique, known types with the trigger settings and guardrail
\* stage they need (the key "mode"), and a trigger.
NodesWellFormed(c) ==
    /\ c.nodes # <<>> /\ IsInjective(c.nodes)
    /\ \A n \in NodeSet(c) : <<n, "mode">> \notin c.bare
    /\ \E n \in NodeSet(c) : c.type[n] = "trigger"

EdgesWellFormed(c) ==
    \A i \in DOMAIN c.links :
        /\ {c.links[i].from, c.links[i].to} \subseteq NodeSet(c)
        /\ c.links[i].from # c.links[i].to

\* A cycle is refused only when the graph does not go to the compiler.
validate_graph(c, rulesetPublished) ==
    /\ NodesWellFormed(c)
    /\ \A n \in NodeSet(c) : \A d \in Demands(c.type[n]) :
           /\ \A key \in d.config : <<n, key>> \notin c.bare
           /\ \A ports \in d.inputs : \E port \in ports : Arriving(c, n, port) # {}
    /\ \A n \in NodeSet(c) :
           (c.type[n] = "guardrail" /\ c.conf[n].ruleset) => rulesetPublished
    /\ EdgesWellFormed(c)
    /\ has_cycle(c) => should_use_compiler(c)

(***************************************************************************)
(* Values, ports and live edges.  A result keeps the ports the executor's  *)
(* dictionary has; reading a port it lacks yields the whole result.        *)
(***************************************************************************)

Result(ports, taken, state) ==
    [skipped |-> FALSE, ports |-> ports, taken |-> taken, state |-> state]
Skipped_node_result ==
    [skipped |-> TRUE, ports |-> [p \in {"result", "status"} |-> {}],
     taken |-> {}, state |-> "skipped"]

project_port_value(r, port) ==
    IF port \in DOMAIN r.ports THEN r.ports[port] ELSE UNION Range(r.ports)

is_flow_port_name(port) ==
    port \in {"in", "out", "match_a", "match_b", "default", "loop", "done",
              "resume", "idle", "timeout"}

\* The ports of a branching node that are live whatever it decides.
AlwaysLive(type) ==
    CASE type = "router"   -> {"out", "decision", "matched_payload"}
      [] type = "iterator" -> {"out", "item", "aggregate"}
      [] type = "wait"     -> {"out", "result"}
      [] type = "event"    -> {"out", "event", "receipt"}

is_active_outgoing_edge(e) ==
    /\ e.from \in DOMAIN gRun.results
    /\ ~gRun.results[e.from].skipped
    /\ LET type == gCanvas.type[e.from]
       IN  type \in {"router", "iterator", "wait", "event"} =>
               e.port \in AlwaysLive(type) \cup gRun.results[e.from].taken

active_incoming_edges(n) ==
    {i \in Into(gCanvas, n) : is_active_outgoing_edge(gCanvas.links[i])}

FlowEdges(edges) == {i \in edges : is_flow_port_name(gCanvas.links[i].at)}

should_skip_node_execution(n) ==
    /\ gCanvas.type[n] \notin {"trigger", "prompt"}
    /\ FlowEdges(Into(gCanvas, n)) # {}
    /\ FlowEdges(active_incoming_edges(n)) = {}

\* The ports an executor takes its input from; later ones win.
InputPorts(type) ==
    CASE type = "router"        -> <<"candidate", "data", "payload">>
      [] type = "iterator"      -> <<"items", "data", "payload">>
      [] type = "transform"     -> <<"source", "data", "payload">>
      [] type = "event"         -> <<"payload", "data", "result">>
      [] type = "data-store"    -> <<"record", "data", "payload", "result">>
      [] type = "wait"          -> <<"resume_payload", "data", "payload">>
      [] type = "error-handler" -> <<"error", "data", "result">>
      [] type = "tool-call"     -> <<"request", "tool_input">>
      [] type = "guardrail"     -> <<"candidate_output", "candidate", "data">>
      [] type = "human-review"  -> <<"candidate", "approved_output", "data">>
      [] type = "output"        -> <<"result", "data", "approved", "approved_output", "payload">>
      [] OTHER                  -> <<>>

\* The edge whose value an executor takes: the last one of the last of its
\* ports that is live (edges in payload order), else the last live edge of
\* any port, else none (0).
Chosen(n) ==
    LET active == active_incoming_edges(n)
        names == InputPorts(gCanvas.type[n])
        On(name) == {i \in active : gCanvas.links[i].at = name}
        used == {k \in DOMAIN names : On(names[k]) # {}}
    IN  Max(IF used # {} THEN On(names[Max(used)]) ELSE active \cup {0})

Candidate(n, default) ==
    LET i == Chosen(n)
    IN  IF i = 0 THEN default
        ELSE project_port_value(gRun.results[gCanvas.links[i].from], gCanvas.links[i].port)

(***************************************************************************)
(* Guardrail evaluation.                                                   *)
(***************************************************************************)

\* The configured action with its aliases, then the escalation of the
\* platform's signal enforcement for high-severity issues.
evaluate_guardrail(marks, action, signals) ==
    LET issues == marks \cap {"high", "low"}
        named == CASE action \in {"block", "raise", "halt", "raise_exception"} -> "raise_exception"
                   [] action \in {"rewrite", "reject", "reject_content"} -> "reject_content"
                   [] OTHER -> "allow"
        high == "high" \in issues
    IN  [tripped |-> issues # {},
         behavior |-> CASE signals = "raise_high" /\ high -> "raise_exception"
                        [] signals = "block_high" /\ high /\ named = "allow" -> "reject_content"
                        [] OTHER -> named]

(***************************************************************************)
(* Node executors.  Each yields the set of outcomes it may have: the run   *)
(* with its counters and logs updated, the node's result, and whether it   *)
(* raised (which fails the run).                                           *)
(***************************************************************************)

Returns(run, r) == [raised |-> FALSE, run |-> run, result |-> r]
Raises(run) == [raised |-> TRUE, run |-> run, result |-> Skipped_node_result]
Ports(names, marks) == [p \in names |-> marks]

\* A routing decision: the routes that matched, the first of them selected.
execute_router_node(n) ==
    LET k == gCanvas.conf[n]
        value == Candidate(n, gInput)
        Decision(matched) ==
            LET selected == IF matched = <<>> THEN k.default ELSE matched[1]
                routes == IF matched = <<>> THEN {k.default} ELSE ToSet(matched)
            IN  {p \in {"match_a", "match_b", "default"} \cup k.routes :
                    CASE p = "match_a" -> k.a \in routes \cup {selected}
                      [] p = "match_b" -> k.b \in routes \cup {selected}
                      [] p = "default" -> selected = k.default
                      [] OTHER -> p \in routes \cup {selected}}
        Matches == {<<>>} \cup {<<r>> : r \in k.routes}
                   \cup IF k.multi THEN SetToSeqs(k.routes) ELSE {}
    IN  {Returns(gRun, Result(Ports({"decision", "out"}, {}) @@ ("matched_payload" :> value),
                              Decision(m), "completed")) : m \in Matches}

\* One branch: "loop" with items, "done" without.
execute_iterator_node(n) ==
    LET value == Candidate(n, {})
    IN  {Returns(gRun, Result(Ports({"item", "aggregate"}, IF some THEN value ELSE {})
                                 @@ Ports({"iteration", "out"}, {}),
                              {IF some THEN "loop" ELSE "done"}, "completed")) :
            some \in BOOLEAN}

\* Strict extraction raises when the path does not resolve.
execute_transform_node(n) ==
    LET k == gCanvas.conf[n]
        value == Candidate(n, gInput)
        Shaped(m) == Returns(gRun, Result(("result" :> m) @@ Ports({"transform", "out"}, {}),
                                          {}, "completed"))
    IN  (IF k.redact THEN {Shaped({})} ELSE {Shaped(value)})
        \cup IF k.strict THEN {Raises(gRun)} ELSE {}

\* Publishing appends to the run's event log; consuming finds a published
\* event of its topic or takes the idle branch.
execute_event_node(n) ==
    LET k == gCanvas.conf[n]
        value == Candidate(n, gInput)
        found == k.topic \in DOMAIN gRun.topics
        Event(marks, branch) ==
            Result(("event" :> marks) @@ Ports({"receipt", "out"}, {}), {branch}, "completed")
    IN  IF k.consume
        THEN {Returns(gRun, IF found THEN Event(gRun.topics[k.topic], "resume")
                            ELSE Event(value, "idle"))}
        ELSE {Returns([gRun EXCEPT !.topics = (k.topic :> value) @@ @], Event(value, "resume"))}

\* One collection of the run-local store; "create" over an existing record
\* falls through to the replacing branch.
execute_data_store_node(n) ==
    LET k == gCanvas.conf[n]
        value == Candidate(n, {})
        Put(b) == [gRun EXCEPT !.bucket = b]
        old == gRun.bucket
        Reply(marks) == Result(("result" :> marks) @@ Ports({"status", "out"}, {}),
                               {}, "completed")
    IN  {CASE k.op = "read"   -> Returns(gRun, Reply(UNION old))
           [] k.op = "delete" -> Returns(Put({}), Reply(UNION old))
           [] k.op = "append" -> Returns(Put({UNION old \cup value}), Reply(UNION old \cup value))
           [] k.op = "merge" /\ old # {} ->
                  Returns(Put({UNION old \cup value}), Reply(UNION old \cup value))
           [] OTHER -> Returns(Put({value}), Reply(value))}

execute_wait_node(n) ==
    LET k == gCanvas.conf[n]
        value == Candidate(n, gInput)
        branch == IF k.gate \/ (k.timeout > 0 /\ k.delay > k.timeout) THEN "timeout"
                  ELSE "resume"
    IN  {Returns(gRun, Result(("result" :> value) @@ Ports({"wait", "out"}, {}),
                              {branch}, "completed"))}

\* What the handler does with a payload that reports an error.
execute_error_handler_node(n) ==
    LET value == Candidate(n, {})
        state == IF "error" \notin value THEN "passed_through" ELSE gCanvas.conf[n].mode
    IN  {Returns(gRun, Result(("handled" :> value) @@ Ports({"status", "out"}, {}), {}, state))}

\* The provider may be unavailable, which fails the run with a result for the
\* node; a provider the policy excludes raises.  What the model says is free.
execute_agent_node(n) ==
    {Raises(gRun),
     Raises([gRun EXCEPT !.results = (n :> Result(Ports({"mode", "error"}, {"error"}), {},
                                                  "failed")) @@ @])}
    \cup {Returns(gRun, Result(Ports({"response", "out", "output", "tool_request",
                                      "retrieval_query"}, said)
                                  @@ Ports({"model", "state_delta"}, {}), {}, "completed")) :
            said \in {{}, {"high"}, {"low"}}}

(***************************************************************************)
(* Tool calls.                                                             *)
(***************************************************************************)

\* An approved MCP connection supplies the server and, without an endpoint of
\* its own, the endpoint; otherwise the node's integration supplies it.
McpServer(k) == IF k.mcp = "" /\ k.connection = "approved" THEN k.server ELSE k.mcp
ConfiguredEndpoint(k) ==
    CASE k.endpoint # "" -> k.endpoint
      [] k.endpoint = "" /\ k.connection = "approved" -> McpServer(k)
      [] OTHER -> k.base

\* Skill hints may route a generic tool without endpoint to an integration.
resolve_skill_routed_integration(k) ==
    IF k.routed # "" /\ ConfiguredEndpoint(k) = "" /\ McpServer(k) = "" /\ k.generic
    THEN k.routed ELSE ConfiguredEndpoint(k)

HostRefused(host) ==
    /\ host # ""
    /\ \/ gSettings.egress /\ host \notin AllowedHosts
       \/ gSettings.lan /\ host \notin LocalHosts

\* What the assembly policy sent with the run refuses: the node's column
\* kind, a policy that grants nothing, an integration, tool, MCP server or
\* host it does not name.
admit_graph_tool_policy(k, host) ==
    LET p == k.policy
    IN  /\ p.kind
        /\ p.tools \/ p.integrations \/ p.mcps # {} \/ p.hosts # {}
        /\ IF k.base # "" \/ k.routed # ""
           THEN /\ p.integrations \/ p.tools
                /\ k.routed # "" => p.integrations
           ELSE McpServer(k) = "" => p.tools
        /\ McpServer(k) # "" => McpServer(k) \in p.mcps
        /\ host # "" => host \in p.hosts

\* The controls a call meets, in the code's order, with the state it is left
\* in when that control refuses it.
ToolControls(k, calls) ==
    LET host == resolve_skill_routed_integration(k)
    IN  << <<calls > Max({1, ToolLimit}), "policy_rejected">>,
           <<k.connection \in {"missing", "staged"}, "policy_rejected">>,
           <<HostRefused(ConfiguredEndpoint(k)), "policy_rejected">>,
           <<McpServer(k) # "" /\ McpServer(k) \notin k.approvedServers, "policy_rejected">>,
           <<k.risky /\ gSettings.approval, "approval_required">>,
           <<HostRefused(host), "policy_rejected">>,
           <<k.pinned # {} /\ host # "" /\ host \notin k.pinned, "policy_rejected">>,
           <<~admit_graph_tool_policy(k, host), "policy_rejected">> >>

RejectedCall(run, state) ==
    Returns(run, Result(("tool_output" :> {"error"}) @@ ("status" :> {"error"})
                           @@ ("policy" :> {}), {}, state))

\* The call itself, after every control: it answers, or fails into a payload
\* with ok = false; the output guardrail may then replace what it answered.
execute_native_tool_call(n, run) ==
    LET k == gCanvas.conf[n]
        done == [run EXCEPT !.made = @ \cup {n},
                            !.hosts = @ \cup {resolve_skill_routed_integration(k)}]
        Answer(marks, state) ==
            Returns(done, Result(Ports({"result", "tool_output"}, marks)
                                    @@ Ports({"status", "out"}, {}), {}, state))
        Checked(marks) ==
            LET e == evaluate_guardrail(marks, k.outguard, gSettings.signals)
            IN  CASE k.outguard = "none" \/ ~e.tripped \/ e.behavior = "allow" ->
                         Answer(marks, "completed")
                  [] e.behavior = "raise_exception" -> Raises(done)
                  [] OTHER -> Answer({"error"}, "guardrail_rejected")
    IN  {Checked(marks) : marks \in {{}, {"high"}, {"error"}}}

\* Mutant of execute_tool_call: the kill switch is read when the run starts.
ToolCallUsesOldSettings(n) ==
    LET k == gCanvas.conf[n]
        run == [gRun EXCEPT !.calls = @ + 1]
        refused == {i \in DOMAIN ToolControls(k, run.calls) : ToolControls(k, run.calls)[i][1]}
    IN  IF refused # {} THEN {RejectedCall(run, ToolControls(k, run.calls)[Min(refused)][2])}
        ELSE execute_native_tool_call(n, run)

\* A locus/tool-call node.  The emergency switches come first and count
\* nothing; every other call counts, whatever becomes of it.
execute_tool_call(n) ==
    LET k == gCanvas.conf[n]
        run == [gRun EXCEPT !.calls = @ + 1]
        controls == ToolControls(k, run.calls)
        refused == {i \in DOMAIN controls : controls[i][1]}
        request == Candidate(n, gInput)
        precheck == evaluate_guardrail(request, k.guard, gSettings.signals)
        tripped == k.guard # "none" /\ precheck.tripped
    IN  CASE gSettings.stop \/ gSettings.tools -> {RejectedCall(gRun, "policy_rejected")}
          [] ~(gSettings.stop \/ gSettings.tools) /\ refused # {} ->
                 {RejectedCall(run, controls[Min(refused)][2])}
          [] OTHER ->
                 IF tripped /\ precheck.behavior = "raise_exception" THEN {Raises(run)}
                 ELSE IF tripped /\ precheck.behavior = "reject_content"
                 THEN {RejectedCall(run, "guardrail_rejected")}
                 ELSE {RejectedCall(run, "approval_required"),
                       RejectedCall(run, "policy_rejected")}
                      \cup execute_native_tool_call(n, run)

\* A locus/retrieval node: the policy is checked before the call is counted,
\* the source's host and the trusted sources after it.
execute_retrieval(n) ==
    LET k == gCanvas.conf[n]
        run == [gRun EXCEPT !.retrievals = @ + 1]
        Blocked(r) == Returns(r, Result(Ports({"documents", "grounding_context", "policy"}, {})
                                           @@ ("status" :> {"error"}), {}, "policy_rejected"))
        stopped == gSettings.stop \/ gSettings.retrieval \/ ~k.admitted
    IN  CASE stopped -> {Blocked(gRun)}
          [] ~stopped /\ (HostRefused(k.host) \/ ~k.trusted) -> {Blocked(run)}
          [] OTHER -> {Returns(run, Result(Ports({"documents", "grounding_context", "retrieval",
                                                  "data"}, found)
                                              @@ Ports({"query", "out", "policy"}, {}),
                                           {}, "completed")) : found \in {{}, {"low"}}}

(***************************************************************************)
(* The other nodes.                                                        *)
(***************************************************************************)

\* The ruleset is resolved again when the node runs; one that is no longer
\* published fails the run.  A rejected candidate is replaced on both ports.
execute_guardrail(n) ==
    LET k == gCanvas.conf[n]
        value == Candidate(n, gInput)
        e == evaluate_guardrail(value, k.action, gSettings.signals)
        Approve(marks, passage) ==
            Returns(gRun, Result(Ports({"approved", "approved_output"}, marks)
                                    @@ Ports({"violations", "flagged", "decision", "out"}, {}),
                                 {passage}, "completed"))
    IN  {CASE k.ruleset /\ ~gSettings.ruleset -> Raises(gRun)
           [] (k.ruleset => gSettings.ruleset) /\ e.tripped /\ e.behavior = "raise_exception" ->
                  Raises(gRun)
           [] (k.ruleset => gSettings.ruleset) /\ e.tripped /\ e.behavior = "reject_content" ->
                  Approve({}, "closed")
           [] OTHER -> Approve(value, "open")}

\* A review records whether it is approved; nothing waits for a decision.
execute_human_review(n) ==
    LET value == Candidate(n, gInput)
    IN  {Returns(gRun, Result(("candidate" :> value) @@ Ports({"approved", "rejected",
                                                              "feedback"}, {}), {},
                              IF gCanvas.conf[n].auto THEN "auto_approved"
                              ELSE "pending_approval"))}

\* A scope the run's policy does not allow raises, and so does the tenant
\* scope, for which a graph run carries no verified claim.
execute_memory_node(n) ==
    {IF gCanvas.conf[n].scope \in {"tenant", "forbidden"} THEN Raises(gRun)
     ELSE Returns(gRun, Result(Ports({"memory_state"}, {}), {}, "completed"))}

execute_output(n) ==
    LET value == Candidate(n, gInput)
    IN  {Returns(gRun, Result(Ports({"published"}, value), {}, "completed"))}

execute_node(n) ==
    LET type == gCanvas.type[n]
    IN  CASE type = "trigger"  -> {Returns(gRun, Result(("message" :> gInput)
                                       @@ Ports({"run_context", "trigger"}, {}), {}, "completed"))}
          [] type = "prompt"   -> {Returns(gRun, Result(Ports({"system_prompt", "prompt_text"}, {}),
                                                        {}, "completed"))}
          [] type = "router"   -> execute_router_node(n)
          [] type = "iterator" -> execute_iterator_node(n)
          [] type = "transform" -> execute_transform_node(n)
          [] type = "event"    -> execute_event_node(n)
          [] type = "data-store" -> execute_data_store_node(n)
          [] type = "agent"    -> execute_agent_node(n)
          [] type = "tool-call" -> execute_tool_call(n)
          [] type = "retrieval" -> execute_retrieval(n)
          [] type = "memory"   -> execute_memory_node(n)
          [] type = "guardrail" -> execute_guardrail(n)
          [] type = "human-review" -> execute_human_review(n)
          [] type = "error-handler" -> execute_error_handler_node(n)
          [] type = "wait"     -> execute_wait_node(n)
          [] type = "output"   -> execute_output(n)

(***************************************************************************)
(* The run.                                                                *)
(***************************************************************************)

\* status: "none" before the request, "running", then how it ended; at: the
\* next position of the order; made/hosts: the tool nodes that really called
\* out, and where to.
NewRun == [status |-> "none", order |-> <<>>, at |-> 1, results |-> <<>>,
           calls |-> 0, retrievals |-> 0, made |-> {}, hosts |-> {},
           topics |-> <<>>, bucket |-> {}, session |-> "none"]

NodesDone == {gRun.order[i] : i \in 1..(gRun.at - 1)}

GInit ==
    /\ \E c \in Canvases : gCanvas = c
    /\ gInput \in {{}, {"high"}}
    /\ gSettings = [stop |-> FALSE, tools |-> FALSE, retrieval |-> FALSE, runs |-> FALSE,
                    keywords |-> FALSE, egress |-> TRUE, lan |-> FALSE, approval |-> TRUE,
                    ruleset |-> TRUE, signals |-> "block_high"]
    /\ gSwitches = 0
    /\ gRun = NewRun

\* The ways POST /graph/runs ends before the first node, in the code's order.
Dismissals ==
    << <<gSettings.stop \/ gSettings.runs, "refused">>,
       <<~validate_graph(gCanvas, gSettings.ruleset), "invalid">>,
       <<gSettings.keywords /\ gInput # {}, "blocked">>,
       <<AgentCount(gCanvas) > Max({1, MaxCollaborators}), "invalid">>,
       <<should_use_compiler(gCanvas), "compiled">> >>

\* POST /graph/runs up to the first node.
run_graph ==
    /\ gRun.status = "none"
    /\ LET met == {i \in DOMAIN Dismissals : Dismissals[i][1]}
       IN  gRun' = IF met # {} THEN [gRun EXCEPT !.status = Dismissals[Min(met)][2]]
                   ELSE [gRun EXCEPT !.status = "running", !.session = "open",
                                     !.order = topological_order(gCanvas)]
    /\ UNCHANGED <<gCanvas, gInput, gSettings, gSwitches>>

\* One node of the order: skipped, executed, or failing the whole run.
NodeStep ==
    /\ gRun.status = "running" /\ gRun.at <= Len(gRun.order)
    /\ LET n == gRun.order[gRun.at]
           At(run, r) == [run EXCEPT !.results = (n :> r) @@ @, !.at = @ + 1]
       IN  IF should_skip_node_execution(n)
           THEN gRun' = At(gRun, Skipped_node_result)
           ELSE \E o \in execute_node(n) :
                    gRun' = IF o.raised
                            THEN [o.run EXCEPT !.status = "failed", !.session = "closed"]
                            ELSE At(o.run, o.result)
    /\ UNCHANGED <<gCanvas, gInput, gSettings, gSwitches>>

CompleteRun ==
    /\ gRun.status = "running" /\ gRun.at > Len(gRun.order)
    /\ gRun' = [gRun EXCEPT !.status = "completed", !.session = "closed"]
    /\ UNCHANGED <<gCanvas, gInput, gSettings, gSwitches>>

\* PUT /platform/settings, or a ruleset archived, while the run is going on.
ChangeSetting ==
    /\ gSwitches < MaxSwitches
    /\ gRun.status \in {"none", "running"}
    /\ \/ \E s \in DOMAIN gSettings \ {"signals"} : gSettings' = [gSettings EXCEPT ![s] = ~@]
       \/ \E e \in {"off", "raise_high"} : gSettings' = [gSettings EXCEPT !.signals = e]
    /\ gSwitches' = gSwitches + 1
    /\ UNCHANGED <<gCanvas, gInput, gRun>>

GEnded == gRun.status \notin {"none", "running"} /\ UNCHANGED gVars

GNext == run_graph \/ NodeStep \/ CompleteRun \/ ChangeSetting \/ GEnded
GSpec == GInit /\ [][GNext]_gVars

(***************************************************************************)
(* Properties.                                                             *)
(***************************************************************************)

\* Every run has a result for exactly the nodes it went past, in the order.
GTypeOK ==
    /\ gRun.status \in {"none", "refused", "invalid", "blocked", "compiled", "running",
                        "failed", "completed"}
    /\ NodesDone \subseteq DOMAIN gRun.results
    /\ DOMAIN gRun.results # NodesDone => gRun.status = "failed"
    /\ \A n \in DOMAIN gRun.results : \A p \in DOMAIN gRun.results[n].ports :
           gRun.results[n].ports[p] \subseteq Marks
    /\ gRun.made \subseteq NodesDone \cup ToSet(gRun.order)

\* _topological_order against its meaning: it places every node exactly when
\* no node can reach itself, and then every edge points forward.
OrderRespectsWires ==
    LET order == topological_order(gCanvas)
        nodes == NodeSet(gCanvas)
        Pairs == {<<gCanvas.links[i].from, gCanvas.links[i].to>> : i \in DOMAIN gCanvas.links}
        Reach[k \in 0..Len(gCanvas.nodes)] ==
            IF k = 0 THEN Pairs
            ELSE Reach[k - 1] \cup {<<pq[1][1], pq[2][2]>> :
                        pq \in {x \in Reach[k - 1] \X Pairs : x[1][2] = x[2][1]}}
        cyclic == \E n \in nodes : <<n, n>> \in Reach[Len(gCanvas.nodes)]
        At(n) == CHOOSE i \in DOMAIN order : order[i] = n
    IN  gRun.status = "none" =>
          /\ IsInjective(order)
          /\ (ToSet(order) = nodes) <=> ~cyclic
          /\ ~cyclic => \A p \in Pairs : p \in nodes \X nodes => At(p[1]) < At(p[2])

\* A completed run skipped exactly the nodes that have flow edges and none of
\* them live in the final results: no node was judged before its sources, and
\* a dead branch stays dead all the way down.
SkipsAreJustified ==
    gRun.status = "completed" =>
        \A n \in NodeSet(gCanvas) :
            LET flow == FlowEdges(Into(gCanvas, n))
                Live(i) ==
                    LET e == gCanvas.links[i]
                        r == gRun.results[e.from]
                        type == gCanvas.type[e.from]
                    IN  ~r.skipped /\ (type \in {"router", "iterator", "wait", "event"} =>
                                         e.port \in AlwaysLive(type) \cup r.taken)
            IN  gRun.results[n].skipped <=>
                    /\ gCanvas.type[n] \notin {"trigger", "prompt"}
                    /\ flow # {} /\ \A i \in flow : ~Live(i)

\* High-severity content is published only when no guardrail that replaces its
\* candidate lies on the way it came: going back from the output along the
\* edges whose values were taken, a node that brings in content is reached
\* before a guardrail's approved port that was closed.
FlaggedOutputsHaveAnOpenPath ==
    LET From(n) == gCanvas.links[Chosen(n)].from
        Brings == {"trigger", "agent", "tool-call", "event", "data-store"}
        Open[k \in 0..Len(gCanvas.nodes), n \in NodeSet(gCanvas)] ==
            IF gCanvas.type[n] \in Brings THEN TRUE
            ELSE /\ k > 0
                 /\ gCanvas.type[n] = "guardrail" => gRun.results[n].taken = {"open"}
                 /\ gCanvas.type[n] = "transform" => ~gCanvas.conf[n].redact
                 /\ Chosen(n) # 0 => Open[k - 1, From(n)]
    IN  \A n \in DOMAIN gRun.results :
            (gCanvas.type[n] = "output" /\ "high" \in project_port_value(gRun.results[n], "published"))
            => Open[Len(gCanvas.nodes), n]

\* A run makes at most max(1, max_tool_calls_per_run) tool calls, and none
\* that was not counted.
CallsStayWithinBudget ==
    Cardinality(gRun.made) <= gRun.calls /\ Cardinality(gRun.made) <= Max({1, ToolLimit})

\* A call goes out only while the settings in force at that moment permit it:
\* neither switch is on, and the host really contacted, after skill routing,
\* passes the egress and local-network controls.
CallsObeyTheSettings ==
    [][gRun'.made # gRun.made =>
         /\ ~gSettings.stop /\ ~gSettings.tools
         /\ \A h \in gRun'.hosts \ gRun.hosts : ~HostRefused(h)]_gVars

\* Whatever ends a native run, its gateway session is closed with it.
SessionsAreClosed ==
    (gRun.status \in {"completed", "failed"}) => gRun.session = "closed"

\* The node design: a human review "blocks/resumes path on decision"; no
\* output fed by a review that is still pending is published.
PendingReviewHoldsThePath ==
    \A n \in DOMAIN gRun.results :
        (gCanvas.type[n] = "output" /\ ~gRun.results[n].skipped) =>
            \A i \in active_incoming_edges(n) :
                gRun.results[gCanvas.links[i].from].state # "pending_approval"
=============================================================================
