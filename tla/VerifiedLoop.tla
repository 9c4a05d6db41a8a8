---------------------------- MODULE VerifiedLoop ----------------------------
(***************************************************************************)
(* The verified run loop (locus_runtime/harness/verified_loop.py, class    *)
(* VerifiedLoop; verification.py, verify): plan, act, submit and verify    *)
(* under budgets, with a checkpoint after every step and a process that    *)
(* may die at any point and be resumed.                                    *)
(*                                                                         *)
(* Tokens stand for the three budgets _guard_budget looks at (seconds,     *)
(* tokens, cost). A model answer is a sequence of calls; reasks, dropped   *)
(* calls and nudges are "noop".                                            *)
(***************************************************************************)
EXTENDS Integers, Sequences

CONSTANTS MaxSteps, MaxTokens, MaxActions,  \* envelope.budget
          MaxIdentical,   \* max_identical_failures
          PlanRequired,   \* plan_mode = "required"
          BashOnly,       \* profile.tool_protocol = "bash-only"
          Judged,         \* the envelope has free-text acceptance criteria
          CallCost,       \* bound: tokens of one model or judge call
          MaxCalls,       \* bound: tool calls in one model answer
          MaxCrashes      \* bound: deaths of the process in a behaviour

ASSUME VerifiedLoopAssumption ==
    /\ MaxSteps \in Nat \ {0} /\ MaxTokens \in Nat \ {0} /\ MaxActions \in Nat
    /\ MaxIdentical \in Nat \ {0}
    /\ PlanRequired \in BOOLEAN /\ BashOnly \in BOOLEAN /\ Judged \in BOOLEAN
    /\ CallCost \in Nat \ {0} /\ MaxCalls \in Nat \ {0} /\ MaxCrashes \in Nat

VARIABLES mem,      \* LoopState of the process
          cp,       \* LoopState in checkpoint.json
          pc,       \* where the process is; "off" when there is none
          calls,    \* calls of the last model answer still to be dispatched
          ws,       \* the workspace
          stop,     \* request_stop or should_stop
          spent,    \* what the run really used (history variable)
          crashes

vars == <<mem, cp, pc, calls, ws, stop, spent, crashes>>

\* "bad" fails a command or file check, "odd" passes these and fails the judge.
Workspaces == {"bad", "odd", "good"}
Accepted == IF Judged THEN {"good"} ELSE {"odd", "good"}

CallKinds == IF BashOnly THEN {"noop", "plan", "bash", "text_submit"}
             ELSE {"noop", "plan", "blocker", "tool", "submit"}

Answers == UNION {[1..n -> CallKinds] : n \in 0..MaxCalls}

Ends == {"none", "done", "blocked", "stopped"}

LoopState ==
    [started: BOOLEAN, plan: BOOLEAN, steps: 0..MaxSteps, actions: 0..MaxActions, tokens: Nat,
     fails: [Workspaces -> Nat], final: Ends]

Usage == [steps: Nat, actions: Nat, tokens: Nat]

TypeOK ==
    /\ mem \in LoopState /\ cp \in LoopState
    /\ pc \in {"off", "guard", "dispatch", "policy", "verify", "ended"}
    /\ calls \in Seq(CallKinds)
    /\ ws \in Workspaces
    /\ stop \in BOOLEAN
    /\ spent \in Usage
    /\ crashes \in 0..MaxCrashes

Fresh == [started |-> FALSE, plan |-> FALSE, steps |-> 0, actions |-> 0, tokens |-> 0,
          fails |-> [w \in Workspaces |-> 0], final |-> "none"]

Init ==
    /\ mem = Fresh /\ cp = Fresh
    /\ pc = "off" /\ calls = <<>>
    /\ ws \in Workspaces
    /\ stop = FALSE
    /\ spent = [steps |-> 0, actions |-> 0, tokens |-> 0]
    /\ crashes = 0

-----------------------------------------------------------------------------
\* Mutant of Finish: the end state is not checkpointed.
Finish_NotSaved(state, end) ==
    /\ mem' = [state EXCEPT !.final = end]
    /\ pc' = "ended" /\ calls' = <<>>
    /\ UNCHANGED cp

\* _finish, from the given LoopState: record the end state and checkpoint it.
Finish(state, end) ==
    /\ mem' = [state EXCEPT !.final = end]
    /\ cp' = mem'
    /\ pc' = "ended" /\ calls' = <<>>

\* The loop goes on with the next call of the answer.
Continue(state) ==
    /\ mem' = state
    /\ pc' = "dispatch" /\ calls' = Tail(calls)
    /\ UNCHANGED cp

\* A new process: resume() reads the checkpoint, run() returns the result of a
\* finished run, writes the first checkpoint of a new one, or goes on.
Begin ==
    /\ pc = "off"
    /\ IF cp.final # "none"
         THEN mem' = cp /\ pc' = "ended" /\ UNCHANGED cp
         ELSE mem' = [cp EXCEPT !.started = TRUE] /\ cp' = mem' /\ pc' = "guard"
    /\ UNCHANGED <<calls, ws, stop, spent, crashes>>

OutOfTokens == mem.tokens >= MaxTokens

\* _guard_before_model_call: user, then budgets.
MustStop == stop \/ OutOfTokens \/ mem.steps >= MaxSteps

StopBeforeCall ==
    /\ pc = "guard" /\ MustStop
    /\ Finish(mem, "stopped")
    /\ UNCHANGED <<ws, stop, spent, crashes>>

\* _call_model after its retries: the provider is down, which blocks the run ...
ProviderDown ==
    /\ pc = "guard" /\ ~MustStop
    /\ Finish(mem, "blocked")
    /\ UNCHANGED <<ws, stop, spent, crashes>>

\* ... or answers, and the answer is accounted for.
CallModel ==
    /\ pc = "guard" /\ ~MustStop
    /\ \E cost \in 1..CallCost, answer \in Answers :
         /\ mem' = [mem EXCEPT !.steps = @ + 1, !.tokens = @ + cost]
         /\ spent' = [spent EXCEPT !.steps = @ + 1, !.tokens = @ + cost]
         /\ calls' = answer
    /\ pc' = "dispatch"
    /\ UNCHANGED <<cp, ws, stop, crashes>>

-----------------------------------------------------------------------------
Dispatching(kinds) == pc = "dispatch" /\ calls # <<>> /\ Head(calls) \in kinds

\* The plan phase of plan_mode="required".
NoPlan == PlanRequired /\ ~mem.plan

\* update_plan, or a plan recognised in the text of the answer.
RecordPlan ==
    /\ Dispatching({"plan"})
    /\ Continue([mem EXCEPT !.plan = TRUE])
    /\ UNCHANGED <<ws, stop, spent, crashes>>

\* report_blocker, allowed before there is a plan.
ReportBlocker ==
    /\ Dispatching({"blocker"})
    /\ Finish(mem, "blocked")
    /\ UNCHANGED <<ws, stop, spent, crashes>>

\* A malformed call, a nudge, or a call refused for want of a plan.
Skip ==
    /\ Dispatching({"noop"}) \/ (Dispatching({"tool", "submit"}) /\ NoPlan)
    /\ Continue(mem)
    /\ UNCHANGED <<ws, stop, spent, crashes>>

\* Calls that act: they get past the plan check, which bash-only text skips.
Acting == Dispatching({"bash", "text_submit"}) \/ (Dispatching({"tool", "submit"}) /\ ~NoPlan)

\* The plan recorded on the way (bash-only: an empty one before the first command).
WithPlan == IF Head(calls) = "bash" THEN [mem EXCEPT !.plan = TRUE] ELSE mem

\* _guard_before_action: user, budgets, actions, and a budget report that fails.
StopBeforeAction ==
    /\ Acting
    /\ Finish(WithPlan, "stopped")
    /\ UNCHANGED <<ws, stop, spent, crashes>>

\* Mutant of MayAct: the action budget is not checked.
MayAct_NoActionBudget == ~stop /\ ~OutOfTokens

MayAct == ~stop /\ ~OutOfTokens /\ mem.actions < MaxActions

\* _run_tool: the action is counted and the workspace changes.
RunTool ==
    /\ Acting /\ Head(calls) \in {"tool", "bash"} /\ MayAct
    /\ mem' = [WithPlan EXCEPT !.actions = @ + 1]
    /\ spent' = [spent EXCEPT !.actions = @ + 1]
    /\ ws' \in Workspaces
    /\ pc' = "policy"
    /\ UNCHANGED <<cp, calls, stop, crashes>>

\* _check_budget_policy: a budget_policy denial met by the tool stops the run.
CheckBudgetPolicy ==
    /\ pc = "policy"
    /\ Continue(mem) \/ Finish(mem, "stopped")
    /\ UNCHANGED <<ws, stop, spent, crashes>>

\* submit: refused by the toolset (nothing to submit), or the verifier starts.
Submit ==
    /\ Acting /\ Head(calls) \in {"submit", "text_submit"} /\ MayAct
    /\ \/ Continue(mem)
       \/ pc' = "verify" /\ UNCHANGED <<mem, cp, calls>>
    /\ UNCHANGED <<ws, stop, spent, crashes>>

-----------------------------------------------------------------------------
\* verify() ends without a verdict: a check is blocked, or budget_policy denied
\* it, or no tokens are left for the judge.
VerifyCannotRun ==
    /\ pc = "verify"
    /\ \E end \in {"blocked", "stopped"} : Finish(mem, end)
    /\ UNCHANGED <<ws, stop, spent, crashes>>

\* Mutant of JudgeAsked: the judge is skipped when the other checks pass.
JudgeAsked_Never == FALSE

\* The judge is asked when every command and file check passes.
JudgeAsked == Judged /\ ws # "bad"

\* A report: DONE if everything passed, blocked after the same failure
\* max_identical_failures times, else the findings go back to the agent.
Verdict ==
    /\ pc = "verify"
    /\ JudgeAsked => ~OutOfTokens
    /\ \E cost \in IF JudgeAsked THEN 1..CallCost ELSE {0} :
         LET paid   == [mem EXCEPT !.tokens = @ + cost]
             failed == [paid EXCEPT !.fails[ws] = @ + 1]
             passed == ws = "good" \/ (ws = "odd" /\ ~JudgeAsked)
         IN  /\ spent' = [spent EXCEPT !.tokens = @ + cost]
             /\ IF passed THEN Finish(paid, "done")
                ELSE IF failed.fails[ws] >= MaxIdentical THEN Finish(failed, "blocked")
                ELSE Continue(failed)
    /\ UNCHANGED <<ws, stop, crashes>>

\* The end of a step: checkpoint.
Checkpoint ==
    /\ pc = "dispatch" /\ calls = <<>>
    /\ cp' = mem
    /\ pc' = "guard"
    /\ UNCHANGED <<mem, calls, ws, stop, spent, crashes>>

-----------------------------------------------------------------------------
\* Somebody asks the run to stop.
RequestStop ==
    /\ ~stop
    /\ stop' = TRUE
    /\ UNCHANGED <<mem, cp, pc, calls, ws, spent, crashes>>

\* The process dies (or, after its end, simply exits). request_stop is gone with
\* it, a kill file is not.
Crash ==
    /\ pc # "off" /\ crashes < MaxCrashes
    /\ crashes' = crashes + 1
    /\ pc' = "off" /\ calls' = <<>> /\ mem' = Fresh
    /\ stop' \in {FALSE, stop}
    /\ UNCHANGED <<cp, ws, spent>>

Step ==
    \/ Begin \/ StopBeforeCall \/ ProviderDown \/ CallModel
    \/ RecordPlan \/ ReportBlocker \/ Skip \/ StopBeforeAction \/ RunTool
    \/ CheckBudgetPolicy \/ Submit \/ VerifyCannotRun \/ Verdict \/ Checkpoint

\* A finished process stays as it is.
Ended == pc = "ended" /\ UNCHANGED vars

Next == Step \/ RequestStop \/ Crash \/ Ended

\* The process takes its steps (model calls and tools have timeouts), and it is
\* restarted after a crash.
Spec == Init /\ [][Next]_vars /\ WF_vars(Step)
-----------------------------------------------------------------------------
\* "done (all criteria verified)": whatever was crashed, replayed and resubmitted
\* on the way, the workspace of a run that ended as done meets the criteria.
DoneIsVerified == cp.final = "done" => ws \in Accepted

\* "Resuming a finished run returns its result without calling the model again":
\* after the end state is saved, nothing of the run is used or changed any more.
EndIsFinal == [][cp.final # "none" => UNCHANGED <<cp, ws, spent>>]_vars

\* Checkpoint granularity is one step: a crash loses the accounting of at most
\* one step, so what the run really uses exceeds its budgets by at most the last
\* call and one step per crash.
BudgetsBoundTheRun ==
    /\ spent.steps <= MaxSteps + crashes
    /\ spent.actions <= MaxActions + crashes * MaxCalls
    /\ spent.tokens <= MaxTokens - 1 + CallCost + crashes * (1 + MaxCalls) * CallCost

\* plan_mode="required" "refuses other actions until a plan exists": a run that
\* ended as done has a plan on record.
DoneHasPlan == PlanRequired /\ cp.final = "done" => cp.plan

\* "restore the model endpoint or credentials, then resume the run": a run that
\* was resumed after the provider blocked it calls the model again.
ResumeRetriesTheModel ==
    [][pc = "off" /\ pc' # "off" /\ cp.final = "blocked" => pc' = "guard"]_vars

\* The run loop implements the abstract run, the end state being the saved one;
\* the fairness of the abstract run included: the budgets end every run, crashes
\* or not, as done, blocked or stopped.
Outcome == INSTANCE RunOutcome WITH workspace <- ws, end <- cp.final
ImplementsRunOutcome == Outcome!Spec
=============================================================================
