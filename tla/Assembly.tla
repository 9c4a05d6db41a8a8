------------------------------ MODULE Assembly ------------------------------
(* Cognitive assemblies (locus_runtime/assembly_runner.py, cognition.py,      *)
(* persistence.py, and the /internal/cognition handlers of main.py): requests *)
(* run the columns of one assembly id, its outcome goes into the runtime      *)
(* state file and is projected into the knowledge graph, and messages between *)
(* its columns are admitted once.                                             *)
(*                                                                            *)
(* A handler reads the file, runs its columns on its own, writes the file     *)
(* under the lock, reads it again and writes the graph: four moments between  *)
(* which other handlers act and the backend may stop.  Confidences are in     *)
(* hundredths.  The audit events are left out.                                *)
EXTENDS Integers, Sequences, FiniteSets

CONSTANTS
    ZHandlers,      \* handlers that run assemblies
    ZRequests,      \* requests for the assembly
    ZMessages,      \* signed messages between columns, with their nonces
    MaxRuns,        \* requests that are made
    ZMaxOutcomes,   \* LOCUS_CAUSAL_OUTCOME_HISTORY_LIMIT
    MaxStops        \* restarts of the backend

ASSUME AssemblyBounds ==
    /\ ZMaxOutcomes \in Nat \ {0} /\ {MaxRuns, MaxStops} \subseteq Nat
    /\ \A r \in ZRequests : r.threshold \in 0..100 /\ r.columns \in Seq(STRING)

VARIABLES
    zFile,    \* the assembly in the runtime state file
    zGraph,   \* its projection: [outcomes, tenant, by]
    zRun,     \* handler -> what it is doing
    zPast     \* history

zVars == <<zFile, zGraph, zRun, zPast>>

ZNoGraph == [outcomes |-> <<>>, tenant |-> "", by |-> ""]
ZIdle == [at |-> "idle", req |-> 0, graph |-> ZNoGraph]

ZInit ==
    /\ zFile = [tenant |-> "", task |-> "", columns |-> {}, outcomes |-> <<>>, markers |-> {}, messages |-> {}]
    /\ zGraph = ZNoGraph
    /\ zRun = [h \in ZHandlers |-> ZIdle]
    /\ zPast = [runs |-> 0, stops |-> 0, overlap |-> FALSE, applied |-> [m \in ZMessages |-> 0]]

-----------------------------------------------------------------------------
(* The columns of a run *)

ZColumnKinds ==
    {"goal", "state", "decomposition", "evidence", "prediction", "evaluation", "uncertainty", "synthesis"}
RequiredKinds == {"goal", "evidence", "evaluation", "synthesis"}

(* _infer_column_kind: the name of a column up to its first dash.             *)
infer_column_kind(c) == IF c = "evidence-2" THEN "evidence" ELSE c

DefaultCapabilities ==
    [goal |-> {"read_input", "emit_goal_belief"}, evidence |-> {"retrieve"},
     evaluation |-> {"score", "veto"}, synthesis |-> {"propose_commitment"},
     uncertainty |-> {"emit_blocker"}, state |-> {}, decomposition |-> {}, prediction |-> {}]

(* validate_assembly_definition: what the policy and the budget admit.        *)
validate_assembly_definition(r) ==
    LET kinds == {infer_column_kind(r.columns[i]) : i \in DOMAIN r.columns} IN
    /\ r.columns # <<>>
    /\ \A i, j \in DOMAIN r.columns : r.columns[i] = r.columns[j] => i = j
    /\ Len(r.columns) <= r.maxColumns
    /\ kinds \subseteq ZColumnKinds /\ RequiredKinds \subseteq kinds
    /\ r.allowed

(* The last column of a kind is the one that runs.                            *)
column_by_kind(r, kind) ==
    r.columns[CHOOSE i \in DOMAIN r.columns :
        /\ infer_column_kind(r.columns[i]) = kind
        /\ \A j \in DOMAIN r.columns : infer_column_kind(r.columns[j]) = kind => j <= i]

Evaluation(r) == IF r.context THEN 78 ELSE 58
Ready(r) == Evaluation(r) >= r.threshold

(* The steps a run asks to be admitted, in order.                             *)
ColumnSteps(r) ==
    <<<<"goal", "read_input">>, <<"goal", "emit_goal_belief">>, <<"evidence", "retrieve">>,
      <<"evaluation", "score">>>>
    \o (IF Ready(r) THEN <<>> ELSE <<<<"evaluation", "veto">>>>)
    \o <<<<"synthesis", "propose_commitment">>>>

(* admit_column_runtime_step, for a step that comes after "taken" others.     *)
admit_column_runtime_step(r, step, taken) ==
    /\ r.auth # "anonymous"
    /\ r.needTenant => r.tenant # ""
    /\ r.tenant # "" /\ r.auth # "" => r.auth = r.tenant
    /\ step[2] \in DefaultCapabilities[step[1]]
    /\ taken < r.maxMessages

Admitted(r) ==
    \A i \in DOMAIN ColumnSteps(r) : admit_column_runtime_step(r, ColumnSteps(r)[i], i - 1)

(* The four votes; none of them sets the veto flag.                           *)
Votes(r) ==
    LET vote(kind, decision, confidence, blockers) ==
          [column |-> column_by_kind(r, kind), decision |-> decision, confidence |-> confidence,
           supports |-> decision = "commit", veto |-> FALSE, blockers |-> blockers] IN
    <<vote("goal", "commit", 90, {}),
      vote("evidence", "commit", IF r.context THEN 65 ELSE 45, {}),
      IF Ready(r) THEN vote("evaluation", "commit", Evaluation(r), {})
                  ELSE vote("evaluation", "escalate", Evaluation(r), {"insufficient_context"}),
      vote("synthesis", "commit", 90, {})>>

Weight(votes, decision) ==
    LET w(i) == IF votes[i].decision = decision THEN votes[i].confidence ELSE 0 IN
    w(1) + w(2) + w(3) + w(4)

(* build_commitment with the policy "confidence_threshold": "commit" is the   *)
(* heavier decision, and its share of the weight is the confidence.           *)
build_commitment(r) ==
    LET votes == Votes(r)
        decision == IF Weight(votes, "commit") >= Weight(votes, "escalate") THEN "commit" ELSE "escalate"
        share == Weight(votes, decision)
        total == Weight(votes, "commit") + Weight(votes, "escalate")
        low == share * 100 < r.threshold * total
        supports == {i \in DOMAIN votes : votes[i].decision = decision /\ votes[i].supports /\ ~votes[i].veto} IN
    [decision |-> decision, confidence |-> IF share = total THEN <<1, 1>> ELSE <<share, total>>,
     supporting |-> {votes[i].column : i \in supports},
     dissenting |-> {votes[i].column : i \in DOMAIN votes \ supports},
     blockers |-> (IF low THEN {"confidence_below_threshold"} ELSE {})
                    \cup UNION {votes[i].blockers : i \in {j \in DOMAIN votes \ supports : votes[j].veto}}]

(* validate_commitment_gate: vetoes, low confidence and a missing approval    *)
(* block; the participation it requires is given by the required kinds.       *)
validate_commitment_gate(r) ==
    LET c == build_commitment(r) IN
    [c EXCEPT !.blockers = @
        \cup UNION {Votes(r)[i].blockers : i \in {j \in 1..4 : Votes(r)[j].veto}}
        \cup (IF c.confidence[1] * 100 < r.threshold * c.confidence[2]
              THEN {"confidence_below_threshold"} ELSE {})
        \cup (IF c.decision \in r.highRisk /\ ~r.approved THEN {"human_approval_required"} ELSE {})]

(* What a run records: committed when the decision is not blocked.            *)
Outcome(r) ==
    LET c == validate_commitment_gate(r) IN
    [outcome |-> IF c.decision # "" /\ c.blockers = {} THEN "committed" ELSE "escalated",
     tenant |-> r.tenant, task |-> r.task, commitment |-> c]

-----------------------------------------------------------------------------
(* Requests *)

(* _append_assembly_outcome: an outcome already marked is not recorded again; *)
(* the history keeps the last ones.                                           *)
append_assembly_outcome(f, o) ==
    IF o \in f.markers THEN f
    ELSE LET all == Append(f.outcomes, o) IN
         [f EXCEPT !.markers = @ \cup {o},
                   !.outcomes = SubSeq(all, IF Len(all) > ZMaxOutcomes THEN 2 ELSE 1, Len(all))]

(* _set_assembly_owner_fields: only values that are given are written.        *)
set_assembly_owner_fields(f, r) ==
    [f EXCEPT !.tenant = IF r.tenant # "" THEN r.tenant ELSE @, !.task = r.task]

(* A request looks at the assembly: another task or another tenant is refused *)
(* (409), the same one gets the outcome that is there, and an assembly        *)
(* without an outcome is run.  Owner fields missing from the file are taken   *)
(* from the outcome.                                                          *)
admit_assembly_request(h, r) ==
    /\ zRun[h].at = "idle" /\ zPast.runs < MaxRuns
    /\ LET decided == zFile.outcomes # <<>>
           last == zFile.outcomes[Len(zFile.outcomes)]
           tenant == IF zFile.tenant # "" THEN zFile.tenant ELSE last.tenant
           refused == decided /\ (zFile.task # r.task \/ (tenant # "" /\ tenant # r.tenant)) IN
       /\ zRun' = [zRun EXCEPT ![h] = IF refused THEN ZIdle
                     ELSE [ZIdle EXCEPT !.at = IF decided THEN "project" ELSE "running", !.req = r]]
       /\ zPast' = [zPast EXCEPT !.runs = @ + 1,
                       !.overlap = @ \/ (~decided /\ \E g \in ZHandlers : zRun[g].at = "running")]
    /\ UNCHANGED <<zFile, zGraph>>

(* AssemblyRunner.run refuses the definition or a step (400, 403).            *)
refuse_assembly(h) ==
    /\ zRun[h].at = "running"
    /\ ~(validate_assembly_definition(zRun[h].req) /\ Admitted(zRun[h].req))
    /\ zRun' = [zRun EXCEPT ![h] = ZIdle]
    /\ UNCHANGED <<zFile, zGraph, zPast>>

(* AssemblyRunner.run, up to persist_assembly_state under the file's lock.    *)
run_assembly(h) ==
    LET r == zRun[h].req IN
    /\ zRun[h].at = "running"
    /\ validate_assembly_definition(r) /\ Admitted(r)
    /\ zFile' = append_assembly_outcome(
          [set_assembly_owner_fields(zFile, r) EXCEPT
             !.columns = @ \cup {column_by_kind(r, k) : k \in RequiredKinds}], Outcome(r))
    /\ zRun' = [zRun EXCEPT ![h].at = "project"]
    /\ UNCHANGED <<zGraph, zPast>>

(* The tenant check of the projection.                                        *)
MayProject(r) == zFile.tenant = "" \/ zFile.tenant = r.tenant

(* _build_causal_assembly_graph_projection: what the graph is to show.        *)
build_causal_assembly_graph_projection(f, r) == [outcomes |-> f.outcomes, tenant |-> f.tenant, by |-> r.tenant]

(* _run_causal_assembly_graph_projection reads the file; it is switched off,  *)
(* without a graph, or refused, and the request is then over.                 *)
start_projection(h) ==
    /\ zRun[h].at = "project"
    /\ zRun' = [zRun EXCEPT ![h] = IF MayProject(@.req)
                  THEN [@ EXCEPT !.at = "projecting",
                                 !.graph = build_causal_assembly_graph_projection(zFile, zRun[h].req)]
                  ELSE ZIdle]
    /\ UNCHANGED <<zFile, zGraph, zPast>>

skip_projection(h) ==
    /\ zRun[h].at = "project"
    /\ zRun' = [zRun EXCEPT ![h] = ZIdle]
    /\ UNCHANGED <<zFile, zGraph, zPast>>

(* project_causal_assembly, one transaction, or its failure.                  *)
project_causal_assembly(h) ==
    /\ zRun[h].at = "projecting"
    /\ zGraph' \in {zGraph, zRun[h].graph}
    /\ zRun' = [zRun EXCEPT ![h] = ZIdle]
    /\ UNCHANGED <<zFile, zPast>>

-----------------------------------------------------------------------------
(* Messages *)

RequiredCapability ==
    [commitment |-> {"propose_commitment"}, synthesis_proposal |-> {"propose_commitment"},
     evidence_claim |-> {"retrieve"}, evaluation_score |-> {"score"},
     uncertainty_signal |-> {"emit_blocker"}, dissent |-> {"veto"},
     belief_update |-> {}, prediction_branch |-> {}]

(* What the marker of a message is made of: the nonce is not part of it.      *)
Semantic(m) == [tenant |-> m.tenant, source |-> m.source, target |-> m.target, type |-> m.type, ref |-> m.ref]

(* Mutant of MessageKey: every nonce makes another message. *)
MessageKeyWithNonce(m) == m

(* The key of record_cognitive_message_replay_marker.                         *)
MessageKey(m) == Semantic(m)

(* _admit_signed_cognitive_message: tenant, columns and capability, then the  *)
(* marker, under the file's lock.                                             *)
admit_cognitive_message(m) ==
    /\ m.subject = m.signer
    /\ zFile.tenant = "" \/ zFile.tenant = m.tenant
    /\ {m.source, m.target} \subseteq zFile.columns
    /\ RequiredCapability[m.type] \subseteq DefaultCapabilities[infer_column_kind(m.source)]
    /\ MessageKey(m) \notin zFile.messages
    /\ zFile' = [zFile EXCEPT !.messages = @ \cup {MessageKey(m)}]
    /\ zPast' = [zPast EXCEPT !.applied[m] = @ + 1]
    /\ UNCHANGED <<zGraph, zRun>>

(* The backend stops and starts: the file and the graph stay.                 *)
StopBackend ==
    /\ zPast.stops < MaxStops /\ \E h \in ZHandlers : zRun[h] # ZIdle
    /\ zRun' = [h \in ZHandlers |-> ZIdle]
    /\ zPast' = [zPast EXCEPT !.stops = @ + 1]
    /\ UNCHANGED <<zFile, zGraph>>

ZNext ==
    \/ \E h \in ZHandlers, r \in ZRequests : admit_assembly_request(h, r)
    \/ \E h \in ZHandlers : refuse_assembly(h) \/ run_assembly(h)
    \/ \E h \in ZHandlers : start_projection(h) \/ skip_projection(h) \/ project_causal_assembly(h)
    \/ \E m \in ZMessages : admit_cognitive_message(m)
    \/ StopBackend

ZSpec == ZInit /\ [][ZNext]_zVars

-----------------------------------------------------------------------------
(* Properties *)

ZOutcomes == {Outcome(r) : r \in {q \in ZRequests : validate_assembly_definition(q)}}

(* The file holds at most the configured number of outcomes (_append_bounded),*)
(* each of them marked, and columns that some request defines.                *)
ZTypeOK ==
    /\ Len(zFile.outcomes) <= ZMaxOutcomes
    /\ {zFile.outcomes[i] : i \in DOMAIN zFile.outcomes} \subseteq zFile.markers
    /\ zFile.markers \subseteq ZOutcomes
    /\ zFile.messages \subseteq {Semantic(m) : m \in ZMessages}
    /\ \A h \in ZHandlers :
         /\ zRun[h].at \in {"idle", "running", "project", "projecting"}
         /\ zRun[h].at # "idle" => zRun[h].req \in ZRequests

(* Messages that say the same, under whatever nonce they are signed, change   *)
(* the assembly once (record_cognitive_message_replay_marker), restarts       *)
(* included.                                                                  *)
MessagesTakeEffectOnce ==
    \A m, n \in ZMessages :
        Semantic(m) = Semantic(n) => zPast.applied[m] + (IF m = n THEN 0 ELSE zPast.applied[n]) <= 1

(* The outcomes of an assembly were all reached for the task and the tenant   *)
(* the file names as its owner, unless two requests ran it at the same time   *)
(* (_run_cortical_assembly_execution checks the owner before it runs).        *)
OutcomesBelongToTheOwner ==
    zPast.overlap \/ \A i \in DOMAIN zFile.outcomes :
        zFile.outcomes[i].task = zFile.task /\ zFile.outcomes[i].tenant = zFile.tenant

(* Unless two requests ran it at the same time, an assembly is decided once:  *)
(* later requests get the outcome that is there.                              *)
AssemblyIsDecidedOnce ==
    [][zFile.outcomes # <<>> /\ ~zPast.overlap => zFile'.outcomes = zFile.outcomes]_zVars

(* The graph was written by a request of the tenant that owned the assembly   *)
(* when it was read, also when the owner changed while the request ran        *)
(* (the tenant checks of _run_causal_assembly_graph_projection).              *)
GraphWrittenForTheOwner == zGraph.tenant # "" => zGraph.by = zGraph.tenant

(* What docs/SECURITY.md says of committed outcomes: none has a blocker that  *)
(* a column raised and nothing resolved.                                      *)
UnresolvedBlockersStop ==
    \A h \in ZHandlers :
        zRun[h].at = "project" /\ Outcome(zRun[h].req) \in zFile.markers
          /\ Outcome(zRun[h].req).outcome = "committed"
            => \A i \in 1..4 : Votes(zRun[h].req)[i].blockers = {}

=============================================================================
