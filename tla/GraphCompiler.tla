--------------------------- MODULE GraphCompiler ---------------------------
(* The multi-agent engine: a canvas with a loop or with two agents is         *)
(* compiled into a LangGraph state graph and run in super-steps               *)
(* (graph_compiler.py, and _compile_and_run_locus_graph and                   *)
(* _run_compiled_workflow_run of main.py).  The nodes of a super-step run in  *)
(* parallel: all of them read the outputs the step began with, and their      *)
(* updates are merged when the last one is done.  LangGraph itself is         *)
(* external: a node that is the target of an edge taken in one super-step     *)
(* runs, once, in the next, and an invocation that still has work after       *)
(* recursion_limit super-steps raises.                                        *)
(*                                                                            *)
(* A model's reply is abstracted to the decision line it carries and to the   *)
(* route words its tail mentions.                                             *)
EXTENDS Integers, FiniteSets, SequencesExt

CONSTANTS
    KCanvases,      \* canvases: [nodes, links], both sequences
    KPortOrder,     \* the canvases' port names in name order
    KReplies,       \* what a chat agent may answer: [decision, tail]
    KLoopRequests,  \* max_loop_iterations as the run's input carries it (0: absent)
    KSlack          \* the super-steps allowed on top of the loop bound (25)

ASSUME GraphCompilerBounds ==
    /\ KSlack \in Nat
    /\ KLoopRequests \subseteq Int
    /\ \A c \in KCanvases : Len(c.nodes) > 0

VARIABLES
    kCanvas,   \* the canvas being run
    kInput,    \* the run's input: [mode, isolation, loops]
    kRun       \* the invocation

kVars == <<kCanvas, kInput, kRun>>

KModes == {"execute", "plan", "chat"}
KEngines == {"chat", "code", "team", "analyze"}
KNothing == "nothing"

-----------------------------------------------------------------------------
(* Topology *)

KIds(c) == {c.nodes[i].id : i \in 1..Len(c.nodes)}
KNode(c, n) == c.nodes[CHOOSE i \in 1..Len(c.nodes) : c.nodes[i].id = n]
IsAgent(c, n) == KNode(c, n).type = "agent"

out_links(c, n) == SelectSeq(c.links, LAMBDA e : e.from = n /\ e.to \in KIds(c))
in_links(c, n) == SelectSeq(c.links, LAMBDA e : e.to = n /\ e.from \in KIds(c))
LinkTargets(c, n) == {e.to : e \in ToSet(out_links(c, n))}
LinkSources(c, n) == {e.from : e \in ToSet(in_links(c, n))}

(* The ports a node's links leave by, each once, in the links' order.         *)
OutPorts(c, n) ==
    LET links == out_links(c, n) IN
    FoldSeq(LAMBDA e, ps : IF Contains(ps, e.port) THEN ps ELSE Append(ps, e.port),
            <<>>, links)

routing_nodes(c) == {n \in KIds(c) : Len(OutPorts(c, n)) > 1}
SortedPorts(c, n) == SelectSeq(KPortOrder, LAMBDA p : Contains(OutPorts(c, n), p))

entry(c) ==
    LET starts == {i \in 1..Len(c.nodes) :
                      \/ c.nodes[i].type = "trigger"
                      \/ in_links(c, c.nodes[i].id) = <<>>}
    IN  IF starts = {} THEN c.nodes[1].id
        ELSE c.nodes[CHOOSE i \in starts : \A j \in starts : i <= j].id

ancestors(c, n) ==
    LET up[k \in Nat] ==
          IF k = 0 THEN LinkSources(c, n)
          ELSE LET found == up[k - 1] IN found \cup UNION {LinkSources(c, a) : a \in found}
    IN  up[Len(c.nodes)]

(* Where a port leads: its first link; the others of that port are dropped.   *)
port_target(c, n, p) ==
    LET links == SelectSeq(out_links(c, n), LAMBDA e : e.port = p) IN links[1].to

(* The port that makes a loop progress: one whose target is no ancestor.      *)
forward_port(c, n) ==
    LET anc == ancestors(c, n)
        forward == SelectSeq(OutPorts(c, n),
                             LAMBDA p : port_target(c, n, p) \notin anc \cup {n})
        preferred == SelectSeq(<<"agreed", "approve", "approved", "out", "continue", "yes">>,
                               LAMBDA p : Contains(forward, p))
    IN  CASE forward = <<>> -> KNothing
          [] preferred # <<>> -> preferred[1]
          [] OTHER -> forward[1]

(* What _classify finds out about each canvas, once.                          *)
Topology ==
    [c \in KCanvases |->
        [routing |-> routing_nodes(c), entry |-> entry(c),
         ports |-> [n \in KIds(c) |-> OutPorts(c, n)],
         sorted |-> [n \in KIds(c) |-> SortedPorts(c, n)],
         forward |-> [n \in KIds(c) |-> forward_port(c, n)],
         targets |-> [n \in KIds(c) |-> LinkTargets(c, n)],
         sources |-> [n \in KIds(c) |-> LinkSources(c, n)]]]

-----------------------------------------------------------------------------
(* Routing *)

ForwardSynonyms == {"agreed", "approve", "approved", "yes", "done", "complete", "ship"}
BackSynonyms == {"continue_discussion", "request_changes", "retry", "again", "no", "revise"}

FirstIn(seq, S) ==
    LET hits == SelectSeq(seq, LAMBDA x : x \in S)
    IN  IF hits = <<>> THEN KNothing ELSE hits[1]

(* The port a reply chooses: its decision line, then a port its tail names,   *)
(* then a synonym.                                                            *)
extract_route(reply, ports) ==
    LET named == FirstIn(ports, reply.tail) IN
    CASE reply.decision \in ToSet(ports) -> reply.decision
      [] named # KNothing -> named
      [] OTHER ->
           IF reply.tail \cap ForwardSynonyms # {} /\ FirstIn(ports, ForwardSynonyms) # KNothing
           THEN FirstIn(ports, ForwardSynonyms)
           ELSE IF reply.tail \cap BackSynonyms # {}
                THEN FirstIn(ports, BackSynonyms)
                ELSE KNothing

(* Mutant of route: the guard forces the port that was chosen. *)
RouteUnguarded(c, n, result, count, loops) ==
    IF result.route \in ToSet(Topology[c].ports[n]) THEN result.route
    ELSE Topology[c].ports[n][1]

(* The port a routing node leaves by; once it has run often enough, the       *)
(* forward one.                                                               *)
route(c, n, result, count, loops) ==
    LET fallback == IF Topology[c].forward[n] # KNothing THEN Topology[c].forward[n]
                    ELSE Topology[c].ports[n][1]
    IN  IF count >= loops THEN fallback
        ELSE IF result.route \in ToSet(Topology[c].ports[n]) THEN result.route
        ELSE fallback

(* The nodes an edge out of n activates: the chosen port's target, or every   *)
(* target of a node with one port.                                            *)
NextActive(c, outputs, counts, loops, n) ==
    IF n \in Topology[c].routing
    THEN {port_target(c, n, route(c, n, outputs[n], counts[n], loops))}
    ELSE Topology[c].targets[n]

-----------------------------------------------------------------------------
(* What a node's run may produce: [route, mode, error, edits] *)

NodeResult(to, mode, error, edits) ==
    [route |-> to, mode |-> mode, error |-> error, edits |-> edits]
KProviderFailed(to, edits) == NodeResult(to, "failed", "provider_call_failed", edits)

(* Which engine a node's configuration asks for.                              *)
execution_mode(node) ==
    CASE node.mode \in KEngines -> node.mode
      [] node.mode \notin KEngines /\ node.phase \in {"build", "implement", "code"} -> "code"
      [] node.mode \notin KEngines /\ node.phase \in {"cross-functional", "team"} -> "team"
      [] node.mode \notin KEngines
           /\ node.phase \in {"verify", "audit", "security", "qa", "performance", "perf", "review"}
           -> "analyze"
      [] OTHER -> "chat"

(* A single-shot answer, or a provider failure recorded as the result.        *)
ChatResults(ports) ==
    {NodeResult(IF Len(ports) > 1 THEN extract_route(r, ports) ELSE KNothing, "live", KNothing, FALSE) :
        r \in KReplies}
    \cup {KProviderFailed(KNothing, FALSE)}

(* A plan instead of edits: nothing is bound, or the engine raised (its edits *)
(* so far, if any, are in the worktree).                                      *)
plan_only_fallback(edited) ==
    UNION {{NodeResult("agreed", "plan_only", KNothing, e), KProviderFailed("agreed", e)} : e \in edited}

delegate_to_swe_agent(bound) ==
    IF ~bound THEN plan_only_fallback({FALSE})
    ELSE {NodeResult("agreed", "code", KNothing, TRUE)}
         \cup {NodeResult("request_changes", "code", KNothing, e) : e \in BOOLEAN}
         \cup plan_only_fallback(BOOLEAN)

delegate_to_codex_agent(bound) ==
    IF ~bound THEN plan_only_fallback({FALSE})
    ELSE {NodeResult("request_changes", "codex", "gateway_denied", FALSE),
          NodeResult("request_changes", "codex", "gateway_approval_required", FALSE)}
         \cup {NodeResult(r, "codex", KNothing, e) :
                  r \in {"agreed", "request_changes"}, e \in BOOLEAN}
         \cup delegate_to_swe_agent(bound)          \* no codex binary on this host

delegate_to_analyzer_agent(bound) ==
    IF ~bound THEN plan_only_fallback({FALSE})
    ELSE {NodeResult(r, "analyze", KNothing, FALSE) : r \in {"agreed", "request_changes"}}
         \cup plan_only_fallback({FALSE})

delegate_to_collaborative_team(bound) ==
    IF ~bound THEN plan_only_fallback({FALSE})
    ELSE {NodeResult(r, "team", KNothing, e) : r \in {"agreed", "request_changes"}, e \in BOOLEAN}
         \cup plan_only_fallback(BOOLEAN)

run_agent_node(node, ports, mode, bound) ==
    LET engine == IF mode = "execute" THEN execution_mode(node) ELSE "chat" IN
    CASE engine = "code" ->
           IF node.backend = "codex" THEN delegate_to_codex_agent(bound)
           ELSE delegate_to_swe_agent(bound)
      [] engine = "team" -> delegate_to_collaborative_team(bound)
      [] engine = "analyze" -> delegate_to_analyzer_agent(bound)
      [] OTHER -> ChatResults(ports)

(* Any other node runs on the native executor, which may expose a route or    *)
(* raise; the exception becomes the node's result.                            *)
execute_native(ports) ==
    {NodeResult(r, "native", KNothing, FALSE) : r \in ToSet(ports) \cup {KNothing}}
    \cup {NodeResult(KNothing, "failed", KNothing, FALSE)}

NodeResults(c, n, mode, bound) ==
    LET ports == IF n \in Topology[c].routing THEN Topology[c].sorted[n] ELSE <<>> IN
    IF IsAgent(c, n) THEN run_agent_node(KNode(c, n), ports, mode, bound)
    ELSE execute_native(ports)

-----------------------------------------------------------------------------
(* The invocation *)

max_loop_iterations == LET asked == IF kInput.loops = 0 THEN 4 ELSE kInput.loops IN
    IF asked < 1 THEN 1 ELSE IF asked > 12 THEN 12 ELSE asked

recursion_limit == max_loop_iterations * Len(kCanvas.nodes) + KSlack

KNewRun == [phase |-> "start", ready |-> {}, results |-> <<>>, outputs |-> <<>>,
            counts |-> [n \in KIds(kCanvas) |-> 0], steps |-> 0,
            bound |-> FALSE, worktree |-> FALSE, sessions |-> {},
            edits |-> {}, changed |-> {}, listed |-> FALSE, status |-> "Running",
            back |-> [n \in KIds(kCanvas) |-> 0], early |-> {}]

KInit ==
    /\ kCanvas \in KCanvases
    /\ kInput \in [mode : KModes, isolation : {"unbound", "worktree", "in-place"},
                  loops : KLoopRequests]
    /\ kRun = KNewRun

(* The run opens its tool session, takes its workspace if an agent may need   *)
(* one, and invokes the graph at its entry.  A workspace that cannot be       *)
(* provisioned leaves the code nodes planning.                                *)
StartInvocation ==
    /\ kRun.phase = "start"
    /\ \E provisioned \in BOOLEAN :
         /\ provisioned => /\ kInput.isolation # "unbound"
                           /\ \E n \in KIds(kCanvas) : IsAgent(kCanvas, n)
         /\ kRun' = [kRun EXCEPT
                !.phase = "step", !.ready = {Topology[kCanvas].entry}, !.steps = 1,
                !.bound = provisioned,
                !.worktree = provisioned /\ kInput.isolation = "worktree",
                !.sessions = {"tools"} \cup (IF provisioned THEN {"harness"} ELSE {})]
    /\ UNCHANGED <<kCanvas, kInput>>

(* One node of the super-step runs; its update waits for the step's end.      *)
(* "early" remembers the nodes that ran before one of their sources had.      *)
RunNode(n) ==
    /\ kRun.phase = "step" /\ n \in kRun.ready
    /\ \E r \in NodeResults(kCanvas, n, kInput.mode, kRun.bound) :
         kRun' = [kRun EXCEPT
            !.ready = @ \ {n},
            !.results = (n :> [route |-> r.route, mode |-> r.mode, error |-> r.error]) @@ @,
            !.edits = IF r.edits THEN @ \cup {n} ELSE @,
            !.early = IF Topology[kCanvas].sources[n] \subseteq DOMAIN kRun.outputs
                      THEN @ ELSE @ \cup {n}]
    /\ UNCHANGED <<kCanvas, kInput>>

merge_dicts(old, new) == new @@ old

(* What the step leaves: the merged outputs and counts, and the nodes its     *)
(* edges activate.                                                            *)
StepOutputs == merge_dicts(kRun.outputs, kRun.results)
StepCounts == [n \in KIds(kCanvas) |->
                 kRun.counts[n] + IF n \in DOMAIN kRun.results THEN 1 ELSE 0]
StepNext == UNION {NextActive(kCanvas, StepOutputs, StepCounts, max_loop_iterations, n) :
                      n \in DOMAIN kRun.results}
StepBack == [n \in KIds(kCanvas) |->
               kRun.back[n] +
               IF /\ n \in DOMAIN kRun.results
                  /\ n \in Topology[kCanvas].routing
                  /\ route(kCanvas, n, StepOutputs[n], StepCounts[n], max_loop_iterations)
                       # Topology[kCanvas].forward[n]
               THEN 1 ELSE 0]
StepEnds == kRun.phase = "step" /\ kRun.ready = {}
Merged == [kRun EXCEPT !.outputs = StepOutputs, !.counts = StepCounts,
                       !.results = <<>>, !.back = StepBack]

NextSuperStep ==
    /\ StepEnds /\ StepNext # {} /\ kRun.steps < recursion_limit
    /\ kRun' = [Merged EXCEPT !.ready = StepNext, !.steps = @ + 1]
    /\ UNCHANGED <<kCanvas, kInput>>

(* However the invocation ends: the changed files are listed (git may answer  *)
(* nothing), the worktree is removed and the sessions are closed.             *)
Released(run, listed) ==
    [run EXCEPT !.changed = IF listed THEN run.edits ELSE {}, !.listed = listed,
                !.worktree = FALSE, !.bound = FALSE, !.sessions = {}]

provider_failures(outputs) ==
    {n \in DOMAIN outputs : outputs[n].error \in {"provider_not_configured", "provider_call_failed"}}

(* The graph has no more work: the run is handed back for review, unless an   *)
(* agent's latest result is a provider failure.                               *)
CompleteInvocation ==
    /\ StepEnds /\ StepNext = {}
    /\ \E listed \in BOOLEAN :
         kRun' = [Released(Merged, listed) EXCEPT
                    !.phase = "ended",
                    !.status = IF provider_failures(StepOutputs) # {} THEN "Failed"
                               ELSE "Needs Review"]
    /\ UNCHANGED <<kCanvas, kInput>>

(* The recursion limit: LangGraph raises, the run fails and its results and   *)
(* changed files are dropped with the exception.                              *)
RaiseRecursionError ==
    /\ StepEnds /\ StepNext # {} /\ kRun.steps = recursion_limit
    /\ kRun' = [Released(Merged, FALSE) EXCEPT !.phase = "ended", !.status = "Recursion"]
    /\ UNCHANGED <<kCanvas, kInput>>

KEnded == kRun.phase = "ended" /\ UNCHANGED kVars

KNext ==
    \/ StartInvocation
    \/ \E n \in KIds(kCanvas) : RunNode(n)
    \/ NextSuperStep
    \/ CompleteInvocation
    \/ RaiseRecursionError
    \/ KEnded

KSpec == KInit /\ [][KNext]_kVars

-----------------------------------------------------------------------------
(* Properties *)

(* The shape of an invocation: results exist for the nodes that ran, counted  *)
(* (GraphState).                                                              *)
KTypeOK ==
    /\ kRun.phase \in {"start", "step", "ended"}
    /\ kRun.status \in {"Running", "Failed", "Needs Review", "Recursion"}
    /\ kRun.ready \subseteq KIds(kCanvas)
    /\ DOMAIN kRun.outputs = {n \in KIds(kCanvas) : kRun.counts[n] > 0}
    /\ kRun.steps <= recursion_limit
    /\ kRun.edits # {} => kInput.mode = "execute" /\ kInput.isolation # "unbound"

(* The bounded-loop guard of _router_for: a routing node that has a way       *)
(* forward leaves by another port fewer than max_loop_iterations times in a   *)
(* run, however the agents decide.                                            *)
BackEdgesAreBounded ==
    \A n \in Topology[kCanvas].routing :
        Topology[kCanvas].forward[n] # KNothing => kRun.back[n] < max_loop_iterations

(* The canvas with every routing node reduced to its way forward, when it has *)
(* one: what is left is acyclic when every loop can be left.                  *)
ForwardTargets(c, n) ==
    IF n \in Topology[c].routing /\ Topology[c].forward[n] # KNothing
    THEN {port_target(c, n, Topology[c].forward[n])} ELSE Topology[c].targets[n]
LoopsCanBeLeft(c) ==
    LET targets == [n \in KIds(c) |-> ForwardTargets(c, n)]
        reach[k \in Nat] ==
          IF k = 0 THEN targets
          ELSE LET found == reach[k - 1] IN
               [n \in KIds(c) |-> found[n] \cup UNION {targets[m] : m \in found[n]}]
        all == reach[Len(c.nodes)]
    IN  \A n \in KIds(c) : n \notin all[n]

Leavable == [c \in KCanvases |-> LoopsCanBeLeft(c)]

(* The guard suffices: a canvas whose loops all pass a routing node with a    *)
(* way forward never meets the recursion backstop of run_compiled_graph.      *)
GuardedLoopsEnd ==
    Leavable[kCanvas] => kRun.status # "Recursion"

PathLengths(c, n) ==
    LET at[k \in Nat] == IF k = 0 THEN {Topology[c].entry} ELSE UNION {Topology[c].targets[m] : m \in at[k - 1]}
    IN  {k \in 0..Len(c.nodes) : n \in at[k]}

Lengths == [c \in KCanvases |-> [n \in KIds(c) |-> Cardinality(PathLengths(c, n))]]

(* What fan-in means here: on a canvas without routing and loops a node runs  *)
(* once for every length a path from the entry to it has, so it runs once     *)
(* exactly when all its paths are equally long, and a node the entry does not *)
(* reach never runs (the plain edges of compile_locus_graph).                 *)
OneRunPerPathLength ==
    (kRun.status = "Needs Review" /\ Topology[kCanvas].routing = {} /\ Leavable[kCanvas]) =>
        \A n \in KIds(kCanvas) : kRun.counts[n] = Lengths[kCanvas][n]

(* However an invocation ends - handed back, failed at a provider or stopped  *)
(* at the recursion limit - its worktree is removed and its gateway sessions  *)
(* are closed (the finally clauses of run_compiled_graph and                  *)
(* _compile_and_run_locus_graph).                                             *)
WorkspacesAreReleased ==
    kRun.phase = "ended" => ~kRun.worktree /\ ~kRun.bound /\ kRun.sessions = {}

(* A run handed back for review whose worktree could be listed lists every    *)
(* edit its agents made, those of parallel nodes and of nodes that fell back  *)
(* to planning included, and none of its agents stands on a failed model call.*)
HandbackIsComplete ==
    kRun.status = "Needs Review" =>
        /\ kRun.listed => kRun.changed = kRun.edits
        /\ \A n \in DOMAIN kRun.outputs :
              IsAgent(kCanvas, n) => kRun.outputs[n].mode # "failed"

(* The module's account of fan-in: a node with several links into it waits    *)
(* for all of them.                                                           *)
FanInIsABarrier ==
    Topology[kCanvas].routing = {} /\ Leavable[kCanvas] => kRun.early \subseteq {Topology[kCanvas].entry}
=============================================================================
