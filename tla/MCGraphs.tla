------------------------------ MODULE MCGraphs ------------------------------
(***************************************************************************)
(* What a user's graph runs on and works with: the two executors of a       *)
(* canvas, the memory it reads and writes and its consolidation, the shared *)
(* editing of the canvas, the skills its agents are given and the cortical  *)
(* assemblies they form.  part says which one a behaviour is about; the     *)
(* others rest: the graphs were refused or failed, the stores are empty.    *)
(***************************************************************************)
EXTENDS GraphRun, GraphCompiler, Memory, Consolidation, Collab, Skills, Assembly, TLC

-----------------------------------------------------------------------------
(* The canvases the two graph executors are checked on.  A family is a      *)
(* canvas with optional wires, any of which may be there.                   *)

Wire(from, port, to, at) == [from |-> from, port |-> port, to |-> to, at |-> at]
Plain == [x |-> 0]

Picked(seq) ==
    {[i \in 1..Cardinality(s) |-> seq[SetToSortSeq(s, <)[i]]] : s \in SUBSET DOMAIN seq}
With(canvas, optional) == {[canvas EXCEPT !.links = @ \o some] : some \in Picked(optional)}

\* A tool call to a server of the local network, which every rule admits.
LanTool ==
    [connection |-> "none", server |-> "", mcp |-> "", endpoint |-> "lan", base |-> "",
     routed |-> "", generic |-> TRUE, risky |-> FALSE, pinned |-> {}, approvedServers |-> {"lan"},
     guard |-> "none", outguard |-> "none",
     policy |-> [kind |-> TRUE, tools |-> TRUE, integrations |-> TRUE, mcps |-> {"lan"},
                 hosts |-> {"lan", "partner", "wan"}]]

\* Agent, guardrail and output, with wires that bypass the guardrail.
Guarded ==
    With([nodes |-> <<"out", "grd", "agt", "trg">>,
          type |-> ("trg" :> "trigger") @@ ("agt" :> "agent") @@ ("grd" :> "guardrail")
                   @@ ("out" :> "output"),
          conf |-> ("grd" :> [ruleset |-> TRUE, action |-> "allow"]) @@ ("trg" :> Plain)
                   @@ ("agt" :> Plain) @@ ("out" :> Plain),
          bare |-> {},
          links |-> <<Wire("trg", "", "agt", "in"), Wire("agt", "out", "out", "in")>>],
         <<Wire("agt", "response", "grd", "candidate"), Wire("grd", "approved", "out", "approved"),
           Wire("trg", "", "out", "result"), Wire("grd", "out", "out", "in"),
           Wire("agt", "out", "grd", "in"), Wire("out", "", "agt", "context")>>)

\* A router choosing between a tool call and a wait, joined again.
Routed(config) ==
    With([nodes |-> <<"trg", "rtr", "tl1", "wai", "err", "out">>,
          type |-> ("trg" :> "trigger") @@ ("rtr" :> "router") @@ ("tl1" :> "tool-call")
                   @@ ("wai" :> "wait") @@ ("err" :> "error-handler") @@ ("out" :> "output"),
          conf |-> ("trg" :> Plain) @@ ("rtr" :> config) @@ ("tl1" :> LanTool)
                   @@ ("wai" :> [gate |-> FALSE, timeout |-> 1, delay |-> 2])
                   @@ ("err" :> [mode |-> "recovered"]) @@ ("out" :> Plain),
          bare |-> {},
          links |-> <<Wire("trg", "", "rtr", "in"), Wire("trg", "message", "rtr", "candidate"),
                      Wire("rtr", "match_a", "tl1", "in"), Wire("trg", "message", "tl1", "request"),
                      Wire("rtr", "match_b", "wai", "in"), Wire("tl1", "out", "err", "in"),
                      Wire("tl1", "result", "err", "error"), Wire("err", "out", "out", "in"),
                      Wire("err", "handled", "out", "result")>>],
         <<Wire("wai", "timeout", "out", "in"), Wire("rtr", "default", "wai", "in"),
           Wire("rtr", "default", "tl1", "in")>>)
Routers ==
    {[routes |-> {"p", "s"}, a |-> "p", b |-> "s", default |-> "d", multi |-> FALSE],
     [routes |-> {"p", "s"}, a |-> "p", b |-> "s", default |-> "s", multi |-> TRUE],
     [routes |-> {"threshold"}, a |-> "p", b |-> "s", default |-> "d", multi |-> FALSE]}

\* Three tool calls in a row, the first of every kind of configuration.
ToolConfigs ==
    {LanTool, [LanTool EXCEPT !.endpoint = "", !.routed = "wan"],
     [LanTool EXCEPT !.endpoint = "", !.routed = "partner"],
     [LanTool EXCEPT !.endpoint = "wan"], [LanTool EXCEPT !.connection = "staged"],
     [LanTool EXCEPT !.risky = TRUE],
     [LanTool EXCEPT !.endpoint = "", !.connection = "approved", !.server = "lan"],
     [LanTool EXCEPT !.endpoint = "", !.base = "partner", !.generic = FALSE, !.pinned = {"partner"}],
     [LanTool EXCEPT !.guard = "reject", !.outguard = "raise"],
     [LanTool EXCEPT !.outguard = "rewrite"], [LanTool EXCEPT !.policy.hosts = {}]}
Calling(config) ==
    [nodes |-> <<"trg", "tl1", "tl2", "tl3", "out">>,
     type |-> ("trg" :> "trigger") @@ ("tl1" :> "tool-call") @@ ("tl2" :> "tool-call")
              @@ ("tl3" :> "tool-call") @@ ("out" :> "output"),
     conf |-> ("trg" :> Plain) @@ ("tl1" :> config) @@ ("tl2" :> LanTool) @@ ("tl3" :> LanTool)
              @@ ("out" :> Plain),
     bare |-> {},
     links |-> <<Wire("trg", "", "tl1", "in"), Wire("trg", "message", "tl1", "request"),
                 Wire("tl1", "out", "tl2", "in"), Wire("tl1", "result", "tl2", "request"),
                 Wire("tl2", "out", "tl3", "in"), Wire("trg", "message", "tl3", "request"),
                 Wire("tl3", "out", "out", "in"), Wire("tl1", "tool_output", "out", "result")>>]

\* Events, the data store, an iterator and a review.
Publishing(operation) ==
    With([nodes |-> <<"trg", "pub", "con", "sto", "itr", "rev", "out">>,
          type |-> ("trg" :> "trigger") @@ ("pub" :> "event") @@ ("con" :> "event")
                   @@ ("sto" :> "data-store") @@ ("itr" :> "iterator")
                   @@ ("rev" :> "human-review") @@ ("out" :> "output"),
          conf |-> ("trg" :> Plain) @@ ("pub" :> [topic |-> "t", consume |-> FALSE])
                   @@ ("con" :> [topic |-> "t", consume |-> TRUE]) @@ ("sto" :> [op |-> operation])
                   @@ ("itr" :> Plain) @@ ("rev" :> [auto |-> FALSE]) @@ ("out" :> Plain),
          bare |-> {},
          links |-> <<Wire("trg", "", "con", "in"), Wire("trg", "message", "con", "payload"),
                      Wire("con", "idle", "sto", "in"), Wire("trg", "", "pub", "in"),
                      Wire("trg", "message", "pub", "payload"), Wire("con", "event", "sto", "record"),
                      Wire("sto", "out", "itr", "in"), Wire("sto", "result", "itr", "items"),
                      Wire("itr", "item", "rev", "candidate"), Wire("itr", "loop", "rev", "in"),
                      Wire("rev", "candidate", "out", "result"), Wire("rev", "out", "out", "in")>>],
         <<Wire("pub", "resume", "con", "in"), Wire("con", "resume", "sto", "in"),
           Wire("itr", "done", "out", "in")>>)

\* Retrieval, a transform and memory.
Reading ==
    {[nodes |-> <<"trg", "prm", "ret", "tra", "mem", "out">>,
      type |-> ("trg" :> "trigger") @@ ("prm" :> "prompt") @@ ("ret" :> "retrieval")
               @@ ("tra" :> "transform") @@ ("mem" :> "memory") @@ ("out" :> "output"),
      conf |-> ("trg" :> Plain) @@ ("prm" :> Plain)
               @@ ("ret" :> [admitted |-> admitted, host |-> host, trusted |-> TRUE])
               @@ ("tra" :> [redact |-> redact, strict |-> ~redact])
               @@ ("mem" :> [scope |-> scope]) @@ ("out" :> Plain),
      bare |-> bare,
      links |-> <<Wire("trg", "message", "ret", "query"), Wire("ret", "out", "tra", "in"),
                  Wire("trg", "message", "tra", "source"), Wire("tra", "out", "mem", "in"),
                  Wire("tra", "result", "out", "result"), Wire("tra", "out", "out", "in")>>] :
     admitted \in BOOLEAN, host \in {"", "lan", "wan"}, redact \in BOOLEAN,
     scope \in {"session", "tenant"}, bare \in {{}, {<<"out", "format">>}}}

\* A trigger alone.
Bare == [nodes |-> <<"trg">>, type |-> "trg" :> "trigger", conf |-> "trg" :> Plain, bare |-> {},
         links |-> <<>>]

RunCanvases ==
    {Bare} \cup Guarded \cup UNION {Routed(config) : config \in Routers}
    \cup {Calling(config) : config \in ToolConfigs}
    \cup UNION {Publishing(operation) : operation \in {"read", "append", "create"}} \cup Reading
-----------------------------------------------------------------------------
Link(from, port, to) == [from |-> from, port |-> port, to |-> to]
Node(id, type) == [id |-> id, type |-> type, mode |-> "", phase |-> "", backend |-> "native"]
AgentNode(id, phase) == [Node(id, "agent") EXCEPT !.phase = phase]

\* The development template: two agents agree, one builds, one sends it back.
Development ==
    [nodes |-> <<Node("trigger", "trigger"), AgentNode("draft", ""), AgentNode("consensus", "chat"),
                 AgentNode("build", "build"), AgentNode("gate", "review"), Node("output", "output")>>,
     links |-> <<Link("trigger", "out", "draft"), Link("draft", "out", "consensus"),
                 Link("consensus", "agreed", "build"),
                 Link("consensus", "continue_discussion", "draft"),
                 Link("build", "out", "gate"), Link("gate", "agreed", "output"),
                 Link("gate", "request_changes", "build")>>]

\* Two agents in parallel, joined by paths of equal and of different lengths.
Diamond ==
    [nodes |-> <<Node("trigger", "trigger"), AgentNode("build", "code"),
                 [AgentNode("check", "") EXCEPT !.mode = "code", !.backend = "codex"],
                 AgentNode("team", "team"), Node("output", "output")>>,
     links |-> <<Link("trigger", "out", "build"), Link("trigger", "out", "check"),
                 Link("check", "out", "team"), Link("build", "out", "team"),
                 Link("team", "out", "output"), Link("build", "out", "output")>>]

\* A cycle without a routing node, and one with no way forward.
Endless ==
    [nodes |-> <<Node("memory", "memory"), AgentNode("a", ""), Node("lost", "retrieval")>>,
     links |-> <<Link("memory", "out", "a"), Link("a", "out", "memory"), Link("lost", "out", "a")>>]
Trapped ==
    [nodes |-> <<Node("trigger", "trigger"), Node("pick", "router")>>,
     links |-> <<Link("trigger", "out", "pick"), Link("pick", "request_changes", "pick")>>]

\* A loop inside a loop.
Nested ==
    [nodes |-> <<Node("trigger", "trigger"), Node("work", "transform"), Node("inner", "router"),
                 Node("outer", "router"), Node("output", "output")>>,
     links |-> <<Link("trigger", "out", "work"), Link("work", "out", "inner"),
                 Link("inner", "retry", "work"), Link("inner", "agreed", "outer"),
                 Link("outer", "request_changes", "work"), Link("outer", "approve", "output"),
                 Link("outer", "approve", "work")>>]

\* A trigger alone.
Single == [nodes |-> <<Node("trigger", "trigger")>>, links |-> <<>>]

CompilerCanvases == {Single, Development, Diamond, Endless, Trapped, Nested}

-----------------------------------------------------------------------------
(* The parts together. *)

VARIABLE part

graphVars == <<part, gVars, kVars, yVars, qVars, oVars, jVars, zVars>>

MCReplies == {[decision |-> "agreed", tail |-> {}], [decision |-> "maybe", tail |-> {"retry"}],
              [decision |-> KNothing, tail |-> {"continue_discussion", "ship"}]}
MCPortOrder == <<"agreed", "approve", "continue_discussion", "out", "request_changes", "retry">>

\* The sessions that start a script, and what a script asks for.
MCCaps(tools, exes, hosts, read, write) ==
    [tools |-> tools, exes |-> exes, hosts |-> hosts, read |-> read, write |-> write]
MCTools == {"process_exec", "read_file", "write_file", "network_egress"}
MCParents == {MCCaps(MCTools, {"python"}, {"h"}, {"ws"}, {"ws/src"}),
              MCCaps(MCTools \ {"network_egress"}, {"python"}, {}, {}, {"ws"})}
MCManifests == {MCCaps({}, {"python"}, {}, {"ws"}, {"ws/src"}),
                MCCaps({"read_file"}, {"python", "sh"}, {"h"}, {"ws/src"}, {"ws"})}

\* Requests for one assembly: of two tenants and none, with duplicated columns,
\* a high threshold, a risky role with and without approval, a tight budget.
MCColumns == <<"goal", "evidence", "evaluation", "synthesis">>
MCRequest(tenant, task, context) ==
    [tenant |-> tenant, task |-> task, context |-> context, threshold |-> 60, auth |-> "",
     needTenant |-> FALSE, columns |-> MCColumns, maxColumns |-> 8, maxMessages |-> 32,
     allowed |-> TRUE, highRisk |-> {}, approved |-> FALSE]
MCRequests ==
    {MCRequest("", "task1", TRUE), MCRequest("t1", "task1", TRUE), MCRequest("t2", "task1", FALSE),
     [MCRequest("t1", "task2", FALSE) EXCEPT
         !.columns = <<"evidence">> \o MCColumns \o <<"evidence-2">>],
     [MCRequest("t1", "task1", TRUE) EXCEPT !.columns = <<"evidence-2", "uncertainty">> \o MCColumns],
     [MCRequest("t1", "task1", FALSE) EXCEPT !.threshold = 80],
     [MCRequest("t1", "task1", TRUE) EXCEPT !.highRisk = {"commit"}],
     [MCRequest("t1", "task1", TRUE) EXCEPT !.highRisk = {"commit"}, !.approved = TRUE],
     [MCRequest("t2", "task1", TRUE) EXCEPT !.auth = "t1"],
     [MCRequest("t1", "task1", FALSE) EXCEPT !.maxMessages = 5]}
MCMessages ==
    [tenant : {"t1"}, source : {"evidence", "evidence-2"}, target : {"synthesis"},
     type : {"evidence_claim", "dissent"}, ref : {"e1"}, nonce : {1, 2}, subject : {"svc"},
     signer : {"svc"}]

NoGraphRun ==
    /\ gCanvas = Bare
    /\ gInput = {}
    /\ gSettings = [stop |-> FALSE, tools |-> FALSE, retrieval |-> FALSE, runs |-> FALSE,
                    keywords |-> FALSE, egress |-> TRUE, lan |-> FALSE, approval |-> TRUE,
                    ruleset |-> TRUE, signals |-> "block_high"]
    /\ gSwitches = 0
    /\ gRun = [NewRun EXCEPT !.status = "refused"]

NoInvocation ==
    /\ kCanvas = Single
    /\ kInput = [mode |-> "chat", isolation |-> "unbound", loops |-> 2]
    /\ kRun = [KNewRun EXCEPT !.phase = "ended", !.status = "Failed"]

GraphInit ==
    /\ part \in {"run", "compiled", "memory", "consolidation", "collab", "skills", "assembly"}
    /\ IF part = "run" THEN GInit ELSE NoGraphRun
    /\ IF part = "compiled" THEN KInit ELSE NoInvocation
    /\ YInit /\ QInit /\ OInit /\ JInit /\ ZInit

GraphNext ==
    \/ part = "run" /\ GNext /\ UNCHANGED <<part, kVars, yVars, qVars, oVars, jVars, zVars>>
    \/ part = "compiled" /\ KNext /\ UNCHANGED <<part, gVars, yVars, qVars, oVars, jVars, zVars>>
    \/ part = "memory" /\ YNext /\ UNCHANGED <<part, gVars, kVars, qVars, oVars, jVars, zVars>>
    \/ part = "consolidation" /\ QNext /\ UNCHANGED <<part, gVars, kVars, yVars, oVars, jVars, zVars>>
    \/ part = "collab" /\ ONext /\ UNCHANGED <<part, gVars, kVars, yVars, qVars, jVars, zVars>>
    \/ part = "skills" /\ JNext /\ UNCHANGED <<part, gVars, kVars, yVars, qVars, oVars, zVars>>
    \/ part = "assembly" /\ ZNext /\ UNCHANGED <<part, gVars, kVars, yVars, qVars, oVars, jVars>>

GraphSpec == GraphInit /\ [][GraphNext]_graphVars
=============================================================================
