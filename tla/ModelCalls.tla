----------------------------- MODULE ModelCalls -----------------------------
(* Model calls (locus_runtime/model_client.py and the chat loop of main.py):  *)
(* callers of one run ask a chain of tiers for a completion, every request is *)
(* authorized by the gateway against the run's budget and metered after it.   *)
(*                                                                            *)
(* A "complete" or "stream" goes through a ModelRouter that lives as long as  *)
(* the caller; a "chat" goes down the chain with _run_model_chain_chat, tries *)
(* each tier's candidate models and runs the tools the model asks for.        *)
(* Requests of one run overlap, and another run's calls push it out of the    *)
(* meter, which keeps a bounded number of runs.                               *)
EXTENDS Integers, Sequences, FiniteSets

CONSTANTS
    UCallers,       \* callers, all of one run
    Tiers,          \* the chain: a sequence of providers
    MaxTokens,      \* LOCUS_MODEL_MAX_TOKENS_PER_RUN
    CallTokens,     \* what a successful call uses
    MeterRuns,      \* max_runs of the UsageMeter
    MaxToolCalls,   \* max_tool_calls of a chat
    MaxOperations,  \* operations the callers make
    MaxReplies,     \* replies with tool calls a model gives in one attempt
    MaxChanges      \* changes around the calls: keys, policy, other runs

ASSUME ModelCallsBounds ==
    /\ {MaxTokens, CallTokens, MeterRuns, MaxToolCalls, MaxOperations, MaxReplies, MaxChanges} \subseteq Nat
    /\ Tiers \in Seq(STRING) /\ Tiers # <<>> /\ MeterRuns > 0

VARIABLES
    uCall,    \* caller -> the operation it is in
    uRouter,  \* caller -> its ModelRouter: [disabled, clients, fallbacks]
    uMeter,   \* the meter: a sequence of [run, tokens], oldest first
    uWorld,   \* [keys, allowed]: tiers with a key, tiers the gateway allows
    uPast     \* history

uVars == <<uCall, uRouter, uMeter, uWorld, uPast>>

UOps == {"complete", "stream", "chat", "tools"}
URouted == {"complete", "stream"}
TierIds == DOMAIN Tiers

UIdle == [at |-> "idle", op |-> "complete", todo |-> <<>>, model |-> 1, api |-> "completions",
          heard |-> {}, made |-> 0, exhausted |-> FALSE, replies |-> 0, code |-> ""]

UInit ==
    /\ uCall = [c \in UCallers |-> UIdle]
    /\ uRouter = [c \in UCallers |-> [disabled |-> {}, clients |-> {}, fallbacks |-> {}]]
    /\ uMeter = <<>>
    /\ uWorld = [keys |-> TierIds, allowed |-> TierIds]
    /\ uPast = [ops |-> 0, changes |-> 0, spent |-> 0, evicted |-> FALSE]

-----------------------------------------------------------------------------
(* The meter *)

Metered(run) == {i \in DOMAIN uMeter : uMeter[i].run = run}

(* UsageMeter.totals: a run the meter does not hold has used nothing.         *)
totals(run) == IF Metered(run) = {} THEN 0 ELSE uMeter[CHOOSE i \in Metered(run) : TRUE].tokens

(* UsageMeter.add: the run's totals grow; over max_runs, the run that was     *)
(* entered first goes.                                                        *)
add_usage(run, tokens) ==
    LET entered == IF Metered(run) # {}
                   THEN [i \in DOMAIN uMeter |-> IF i \in Metered(run)
                            THEN [uMeter[i] EXCEPT !.tokens = @ + tokens] ELSE uMeter[i]]
                   ELSE Append(uMeter, [run |-> run, tokens |-> tokens]) IN
    IF Len(entered) > MeterRuns THEN Tail(entered) ELSE entered

(* GatewayModelGate.authorize in a fresh session: the tier is allowed, and    *)
(* budget_policy finds the run's totals within the limit.                     *)
Authorizes(tier) == tier \in uWorld.allowed /\ totals("run") <= MaxTokens

-----------------------------------------------------------------------------
(* Operations *)

Tier(c) == Head(uCall[c].todo)
Candidates(t) == IF Tiers[t] = "openai" THEN 2 ELSE 1
FirstApi(t, op) == IF Tiers[t] = "openai" /\ op = "chat" THEN "responses" ELSE "completions"

UEnd(c, call) == uCall' = [uCall EXCEPT ![c] = call]

StartOperation(c, op) ==
    LET todo == SelectSeq([i \in 1..Len(Tiers) |-> i], LAMBDA i : op \notin URouted \/ i \notin uRouter[c].disabled) IN
    /\ uCall[c].at \in {"idle", "served", "raised"}
    /\ uPast.ops < MaxOperations
    /\ UEnd(c, IF todo = <<>> THEN [UIdle EXCEPT !.at = "raised", !.op = op, !.code = "provider_not_configured"]
               ELSE [UIdle EXCEPT !.at = "tier", !.op = op, !.todo = todo, !.api = FirstApi(Head(todo), op)])
    /\ uPast' = [uPast EXCEPT !.ops = @ + 1]
    /\ UNCHANGED <<uRouter, uMeter, uWorld>>

(* _emit and _record_model_fallback: the move to the next tier is recorded.   *)
Explained(c, code) ==
    IF Len(uCall[c].todo) > 1 THEN uRouter[c].fallbacks \cup {Tier(c)} ELSE uRouter[c].fallbacks

NextTier(call, code) ==
    LET rest == Tail(call.todo) IN
    IF rest = <<>> THEN [call EXCEPT !.at = "raised", !.code = code]
    ELSE [call EXCEPT !.at = "tier", !.todo = rest, !.model = 1, !.api = FirstApi(Head(rest), call.op),
                      !.made = 0, !.exhausted = FALSE, !.replies = 0]

Disabled(c, code) ==
    IF code # "provider_call_failed" THEN uRouter[c].disabled \cup {Tier(c)} ELSE uRouter[c].disabled

(* ModelRouter._run after a tier's error: a tier that is not configured or    *)
(* denied stays disabled for the router, a stream that has emitted text       *)
(* raises, and otherwise the next tier is tried.                              *)
RouterTierFails(c, code) ==
    /\ uRouter' = [uRouter EXCEPT ![c].disabled = Disabled(c, code),
                     ![c].fallbacks = IF uCall[c].heard # {} THEN @ ELSE Explained(c, code)]
    /\ UEnd(c, IF uCall[c].heard # {} THEN [uCall[c] EXCEPT !.at = "raised", !.code = code]
               ELSE NextTier(uCall[c], code))

(* _run_model_chain_chat after a tier's error: the next tier is tried.        *)
ChainTierFails(c, code) ==
    /\ uRouter' = [uRouter EXCEPT ![c].fallbacks = Explained(c, code)]
    /\ UEnd(c, NextTier(uCall[c], code))

TierFails(c, code) == IF uCall[c].op \in URouted THEN RouterTierFails(c, code) ELSE ChainTierFails(c, code)

(* ModelRouter._client, built once for a tier, and _get_chat_client: without a *)
(* key there is none (resolve_endpoint).                                       *)
GetClient(c) ==
    LET routed == uCall[c].op \in URouted IN
    /\ uCall[c].at = "tier"
    /\ IF Tier(c) \in uWorld.keys \/ (routed /\ Tier(c) \in uRouter[c].clients)
       THEN /\ UEnd(c, [uCall[c] EXCEPT !.at = "call"])
            /\ uRouter' = [uRouter EXCEPT ![c].clients = IF routed THEN @ \cup {Tier(c)} ELSE @]
       ELSE TierFails(c, "provider_not_configured")
    /\ UNCHANGED <<uMeter, uWorld, uPast>>

(* A request the gateway refuses is not retried on the tier's other models.   *)
CallDenied(c) ==
    /\ uCall[c].at = "call" /\ ~Authorizes(Tier(c))
    /\ TierFails(c, "model_call_denied")
    /\ UNCHANGED <<uMeter, uWorld, uPast>>

(* Mutant of SendCall: the request goes out before the gateway is asked. *)
SendUnauthorized(c) ==
    /\ uCall[c].at = "call"
    /\ UEnd(c, [uCall[c] EXCEPT !.at = "sent"])
    /\ UNCHANGED <<uRouter, uMeter, uWorld, uPast>>

(* create_chat_completion, create_response: authorized, then sent.            *)
SendCall(c) ==
    /\ uCall[c].at = "call" /\ Authorizes(Tier(c))
    /\ UEnd(c, [uCall[c] EXCEPT !.at = "sent"])
    /\ UNCHANGED <<uRouter, uMeter, uWorld, uPast>>

(* A chunk of a stream reaches the caller.                                    *)
HearChunk(c) ==
    /\ uCall[c].at = "sent" /\ uCall[c].op = "stream" /\ Tier(c) \notin uCall[c].heard
    /\ UEnd(c, [uCall[c] EXCEPT !.heard = @ \cup {Tier(c)}])
    /\ UNCHANGED <<uRouter, uMeter, uWorld, uPast>>

(* _record, and the gate's usage sink.                                        *)
RecordUsage(run, tokens) ==
    /\ uMeter' = add_usage(run, tokens)
    /\ uPast' = [uPast EXCEPT !.spent = @ + (IF run = "run" THEN tokens ELSE 0),
                    !.evicted = @ \/ (Metered("run") # {} /\ \A i \in DOMAIN uMeter' : uMeter'[i].run # "run"),
                    !.changes = @ + (IF run = "run" THEN 0 ELSE 1)]

(* After a request of a chat failed: the Responses API gives way to chat      *)
(* completions, then the next candidate model is tried from the start, then   *)
(* the tier has failed.                                                       *)
AttemptFails(c) ==
    LET call == uCall[c] IN
    IF call.op \in URouted THEN TierFails(c, "provider_call_failed")
    ELSE IF call.api = "responses"
    THEN UEnd(c, [call EXCEPT !.at = "call", !.api = "completions"]) /\ UNCHANGED uRouter
    ELSE IF call.model < Candidates(Tier(c))
    THEN /\ UEnd(c, [call EXCEPT !.at = "call", !.model = @ + 1, !.api = FirstApi(Tier(c), call.op),
                                 !.made = 0, !.exhausted = FALSE, !.replies = 0])
         /\ UNCHANGED uRouter
    ELSE TierFails(c, "provider_call_failed")

(* The provider fails: a request that was not answered counts nothing, a      *)
(* stream that breaks counts the estimate of what it used.                    *)
CallFails(c, used) ==
    /\ uCall[c].at = "sent"
    /\ used > 0 => uCall[c].op = "stream"
    /\ RecordUsage("run", used)
    /\ AttemptFails(c)
    /\ UNCHANGED uWorld

(* An answer without choices, or a Responses answer without text.             *)
EmptyAnswer(c) ==
    /\ uCall[c].at = "sent" /\ uCall[c].op # "stream"
    /\ RecordUsage("run", CallTokens)
    /\ AttemptFails(c)
    /\ UNCHANGED uWorld

(* The answer of a stream, of the Responses API or of chat completions.       *)
AnswerModelCall(c) ==
    /\ uCall[c].at = "sent"
    /\ RecordUsage("run", CallTokens)
    /\ UEnd(c, [uCall[c] EXCEPT !.at = "served"])
    /\ UNCHANGED <<uRouter, uWorld>>

(* The tools of a reply: past the limit a call is answered without running.   *)
RunTools(c, n) ==
    LET made == IF uCall[c].made + n <= MaxToolCalls THEN uCall[c].made + n ELSE MaxToolCalls IN
    [uCall[c] EXCEPT !.at = "call", !.made = made, !.exhausted = made >= MaxToolCalls, !.replies = @ + 1]

(* A reply that asks for tools; they are not offered once they are exhausted. *)
AnswerWithTools(c, n) ==
    /\ uCall[c].at = "sent" /\ uCall[c].op = "tools" /\ ~uCall[c].exhausted /\ uCall[c].replies < MaxReplies
    /\ RecordUsage("run", CallTokens)
    /\ UEnd(c, RunTools(c, n))
    /\ UNCHANGED <<uRouter, uWorld>>

-----------------------------------------------------------------------------
(* Around the calls *)

(* A key is stored or removed, or the gateway's policy changes.               *)
ChangeWorld(t) ==
    /\ uPast.changes < MaxChanges
    /\ \/ uWorld' = [uWorld EXCEPT !.keys = IF t \in @ THEN @ \ {t} ELSE @ \cup {t}]
       \/ uWorld' = [uWorld EXCEPT !.allowed = IF t \in @ THEN @ \ {t} ELSE @ \cup {t}]
    /\ uPast' = [uPast EXCEPT !.changes = @ + 1]
    /\ UNCHANGED <<uCall, uRouter, uMeter>>

(* A call of another run is metered.                                          *)
OtherRun ==
    /\ uPast.changes < MaxChanges
    /\ RecordUsage("other", 0)
    /\ UNCHANGED <<uCall, uRouter, uWorld>>

UNext ==
    \/ \E c \in UCallers, op \in UOps : StartOperation(c, op)
    \/ \E c \in UCallers : GetClient(c) \/ CallDenied(c) \/ SendCall(c) \/ HearChunk(c)
    \/ \E c \in UCallers, used \in {0, CallTokens} : CallFails(c, used)
    \/ \E c \in UCallers : EmptyAnswer(c) \/ AnswerModelCall(c)
    \/ \E c \in UCallers, n \in 1..2 : AnswerWithTools(c, n)
    \/ \E t \in TierIds : ChangeWorld(t)
    \/ OtherRun

USpec == UInit /\ [][UNext]_uVars

-----------------------------------------------------------------------------
(* Properties *)

(* The meter never holds more than max_runs runs, each once, and an operation *)
(* under way has a tier to try.                                               *)
UTypeOK ==
    /\ Len(uMeter) <= MeterRuns
    /\ \A i, j \in DOMAIN uMeter : uMeter[i].run = uMeter[j].run => i = j
    /\ \A c \in UCallers : uCall[c].at \in {"tier", "call", "sent", "served"} => uCall[c].todo # <<>>

(* While the run stays in the meter, the gate's figures are what its calls    *)
(* have used, broken streams included (_record in the finally of              *)
(* _metered_stream).                                                          *)
MeterTellsTheSpend == ~uPast.evicted => totals("run") = uPast.spent

(* While the run stays in the meter, it exceeds its budget by no more than    *)
(* one call of each of its concurrent callers: authorize reads the meter      *)
(* before a call, _record writes it after.                                    *)
SpendStaysNearTheBudget ==
    ~uPast.evicted => uPast.spent <= MaxTokens + Cardinality(UCallers) * CallTokens

(* The text a stream delivers comes from one tier: "a stream that already     *)
(* emitted text never falls back" (ModelRouter).                              *)
OneVoicePerStream == \A c \in UCallers : Cardinality(uCall[c].heard) <= 1

(* No fallback is silent: every tier before the one that served the caller    *)
(* was reported by a fallback event, then or earlier in the router's life     *)
(* (_emit, _record_model_fallback).                                           *)
ServedTierIsExplained ==
    \A c \in UCallers : uCall[c].at = "served" => \A t \in 1..(Tier(c) - 1) : t \in uRouter[c].fallbacks

(* A chat runs at most max_tool_calls tools for each model it attempts, also  *)
(* when one reply asks for several (the tool loop of _run_openai_chat).       *)
ToolRunsAreBounded ==
    \A c \in UCallers : uCall[c].made <= MaxToolCalls

=============================================================================
