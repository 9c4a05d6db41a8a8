----------------------------- MODULE AgentLoop -----------------------------
(* The unverified coding loop: a model is called until it submits or a budget *)
(* ends the run (harness/loop.py AgentLoop), with the coding tools it calls   *)
(* (harness/tools.py CodingToolset), the validation of those calls            *)
(* (harness/enforcement.py) and what SweAgent makes of the result             *)
(* (harness/swe_agent.py).                                                    *)
(*                                                                            *)
(* The worktree is abstracted to whether it differs from the base, a reply to *)
(* the kinds of its calls.  The clock and the context window are the          *)
(* environment's: a budget, once used up, stays used up.                      *)
EXTENDS Integers, Sequences, FiniteSets

CONSTANTS
    ACallKinds,         \* the kinds of tool call the model makes
    AMaxCalls,          \* tool calls in one reply
    AMaxSteps,          \* LoopBudgets.max_steps
    AMaxRetries,        \* AgentLoop.provider_max_retries
    AMaxReasks,         \* ReaskPolicy.max_reasks_per_run
    AMaxEmptySubmits    \* CodingToolset.max_empty_submit_retries

AKinds == {"edit", "misedit", "bash", "tests", "submit", "malformed"}

ASSUME AgentLoopBounds ==
    /\ ACallKinds \subseteq AKinds
    /\ {AMaxCalls, AMaxSteps, AMaxRetries, AMaxReasks, AMaxEmptySubmits} \subseteq Nat

VARIABLES
    aTask,     \* what the agent was given: [protocol, edits] (edits: allow_edits)
    aLoop,     \* the loop
    aTools     \* the toolset and the worktree behind it

aVars == <<aTask, aLoop, aTools>>

ANoPatch == "none"
Replies_of == UNION {[1..n -> ACallKinds] : n \in 1..AMaxCalls}

AInit ==
    /\ aTask \in [protocol : {"tools", "bash-only"}, edits : BOOLEAN]
    /\ aLoop = [at |-> "model", step |-> 0, attempt |-> 0, over |-> FALSE, forced |-> FALSE,
                reasks |-> 0, calls |-> <<>>, open |-> 0, after |-> 0, outcome |-> "running",
                patch |-> ANoPatch]
    /\ aTools = [applied |-> FALSE, dirty |-> FALSE, failures |-> 0, format |-> "search-replace",
                 rejected |-> 0, submission |-> ANoPatch]

-----------------------------------------------------------------------------
(* The tools *)

(* git sees the worktree's changes, or a stale stat cache hides them.         *)
diff(dirty) == IF dirty THEN {"patch", ""} ELSE {""}

(* _submit: an empty diff after applied edits is read once more, then refused *)
(* a few times.                                                               *)
submit(tools) ==
    UNION {LET read == IF first = "" /\ tools.applied /\ tools.dirty THEN diff(TRUE) ELSE {first} IN
           {IF patch = "" /\ tools.applied /\ tools.rejected < AMaxEmptySubmits
            THEN [tools EXCEPT !.rejected = @ + 1]
            ELSE [tools EXCEPT !.submission = patch,
                               !.rejected = IF patch = "" /\ tools.applied THEN @ + 1 ELSE @] :
               patch \in read} : first \in diff(tools.dirty)}

(* A failed edit; the second in a row changes the edit format.                *)
note_edit_failure(tools) ==
    [tools EXCEPT !.failures = IF @ < 2 THEN @ + 1 ELSE @,
                  !.format = IF tools.failures + 1 >= 2 THEN "whole-file" ELSE @]

(* create, str_replace and insert: refused to a read-only agent.              *)
editor(tools, well_formed) ==
    CASE ~aTask.edits -> tools
      [] aTask.edits /\ well_formed ->
           [tools EXCEPT !.applied = TRUE, !.dirty = TRUE, !.failures = 0]
      [] OTHER -> note_edit_failure(tools)

(* What a dispatched call may leave.  A shell command may change the worktree *)
(* any way it likes, undoing it included, unless the gateway blocks it.       *)
dispatch(kind, tools) ==
    CASE kind = "submit" -> submit(tools)
      [] kind = "edit" -> {editor(tools, TRUE), tools}     \* or blocked by the gateway
      [] kind = "misedit" -> {editor(tools, FALSE)}
      [] kind = "bash" -> {[tools EXCEPT !.dirty = d] : d \in BOOLEAN}
      [] OTHER -> {tools}

-----------------------------------------------------------------------------
(* The loop *)

(* Time passes, or the context fills up.                                      *)
BudgetRunsOut ==
    /\ aLoop.at # "ended" /\ ~aLoop.over
    /\ aLoop' = [aLoop EXCEPT !.over = TRUE]
    /\ UNCHANGED <<aTask, aTools>>

(* The loop's end: how it is reported, and the patch SweAgent takes from it.  *)
LoopOver(loop, tools, outcome) ==
    LET named == CASE outcome = "error" /\ tools.submission # ANoPatch -> "submitted"
                   [] outcome = "error" /\ tools.submission = ANoPatch /\ loop.step >= AMaxSteps
                        -> "budget_exhausted"
                   [] OTHER -> outcome
    IN  [loop EXCEPT !.at = "ended", !.outcome = named, !.calls = <<>>,
                     !.patch = IF named = "submitted" THEN tools.submission ELSE ANoPatch]

(* The top of the while loop: out of steps, out of budget a second time, or   *)
(* on to the model, which is told to submit when the budget is used up.       *)
ContinueLoop(loop, tools) ==
    IF loop.step >= AMaxSteps THEN LoopOver(loop, tools, "error")
    ELSE IF loop.over /\ loop.forced THEN LoopOver(loop, tools, "budget_exhausted")
    ELSE [loop EXCEPT !.at = "model", !.attempt = 0, !.forced = @ \/ loop.over]

(* The first pass through the loop's top.                                     *)
EnterLoop ==
    /\ aLoop.at = "model" /\ aLoop.step = 0 /\ aLoop.attempt = 0 /\ aLoop.over /\ ~aLoop.forced
    /\ aLoop' = [aLoop EXCEPT !.forced = TRUE]
    /\ UNCHANGED <<aTask, aTools>>

(* The model call fails; it is repeated with backoff, then the run ends.      *)
ProviderError ==
    /\ aLoop.at = "model"
    /\ aLoop' = IF aLoop.attempt < AMaxRetries THEN [aLoop EXCEPT !.attempt = @ + 1]
                ELSE LoopOver(aLoop, aTools, "provider_unavailable")
    /\ UNCHANGED <<aTask, aTools>>

(* The model answers with tool calls.  "after" counts the answers since the   *)
(* budget was known to be used up, "open" the calls still unanswered.         *)
AnswerWithCalls ==
    /\ aLoop.at = "model"
    /\ \E calls \in Replies_of :
         aLoop' = [aLoop EXCEPT !.at = "tools", !.step = @ + 1, !.calls = calls,
                                !.open = Len(calls),
                                !.after = IF aLoop.forced THEN @ + 1 ELSE @]
    /\ UNCHANGED <<aTask, aTools>>

(* The model answers with text.  Without tools that may be a command or a     *)
(* bare "submit"; otherwise it is nudged, or the run ends if it was to submit.*)
AnswerWithText ==
    /\ aLoop.at = "model"
    /\ LET heard == [aLoop EXCEPT !.step = @ + 1, !.after = IF aLoop.forced THEN @ + 1 ELSE @] IN
       \/ /\ aTask.protocol = "bash-only"
          /\ \E kind \in {"submit", "bash"} : \E tools \in dispatch(kind, aTools) :
               /\ aTools' = tools
               /\ aLoop' = IF kind = "submit" THEN LoopOver(heard, tools, "submitted")
                           ELSE ContinueLoop(heard, tools)
       \/ /\ aTools' = aTools
          /\ aLoop' = IF aLoop.forced THEN LoopOver(heard, aTools, "budget_exhausted")
                      ELSE ContinueLoop(heard, aTools)
    /\ UNCHANGED aTask

(* Mutant of RefusedCall: a call past the re-ask limit gets no answer. *)
RefusedSilently(loop) ==
    IF loop.reasks < AMaxReasks
    THEN [loop EXCEPT !.reasks = @ + 1, !.open = @ - 1, !.calls = Tail(@)]
    ELSE [loop EXCEPT !.calls = Tail(@)]

(* A call that is not well formed is answered with a request to repeat it,    *)
(* or, past the limit, as dropped.                                            *)
RefusedCall(loop) ==
    [loop EXCEPT !.reasks = IF @ < AMaxReasks THEN @ + 1 ELSE @, !.open = @ - 1, !.calls = Tail(@)]

(* The next call of the reply is validated, dispatched and answered; a submit *)
(* ends the loop, whatever the tool said.                                     *)
DispatchCall ==
    /\ aLoop.at = "tools" /\ aLoop.calls # <<>>
    /\ IF Head(aLoop.calls) = "malformed"
       THEN aLoop' = RefusedCall(aLoop) /\ aTools' = aTools
       ELSE \E tools \in dispatch(Head(aLoop.calls), aTools) :
              /\ aTools' = tools
              /\ aLoop' = IF Head(aLoop.calls) = "submit"
                          THEN LoopOver([aLoop EXCEPT !.open = @ - 1], tools, "submitted")
                          ELSE [aLoop EXCEPT !.open = @ - 1, !.calls = Tail(@)]
    /\ UNCHANGED aTask

EndOfReply ==
    /\ aLoop.at = "tools" /\ aLoop.calls = <<>>
    /\ aLoop' = ContinueLoop(aLoop, aTools)
    /\ UNCHANGED <<aTask, aTools>>

AEnded == aLoop.at = "ended" /\ UNCHANGED aVars

ALoopStep ==
    \/ EnterLoop \/ ProviderError \/ AnswerWithCalls \/ AnswerWithText
    \/ DispatchCall \/ EndOfReply

ANext == BudgetRunsOut \/ ALoopStep \/ AEnded

ASpec == AInit /\ [][ANext]_aVars /\ WF_aVars(ALoopStep)

-----------------------------------------------------------------------------
(* Properties *)

(* The shapes of the loop and of the toolset; a read-only agent's editor      *)
(* never applied an edit.                                                     *)
ATypeOK ==
    /\ aLoop.step \in 0..AMaxSteps /\ aLoop.attempt \in 0..AMaxRetries
    /\ aLoop.at \in {"model", "tools", "ended"}
    /\ aLoop.outcome \in {"running", "submitted", "budget_exhausted", "provider_unavailable", "error"}
    /\ aTools.rejected <= AMaxEmptySubmits + 1
    /\ aTools.applied => aTask.edits

(* The conversation stays well formed: when the model is called again, every  *)
(* tool call it made, malformed and dropped ones included, has been answered  *)
(* (AgentLoop._dispatch_tool_calls).                                          *)
CallsAreAnswered == aLoop.at = "model" => aLoop.open = 0

(* "Budgets are hard": once the time or the context is known to be used up    *)
(* the model answers at most once more, whatever it answers (AgentLoop.run).  *)
BudgetsAreHard == aLoop.after <= 1

(* The re-ask budget is one for the whole run: it is carried from reply to    *)
(* reply, so malformed calls cannot be asked for again without end            *)
(* (reasks_used).                                                             *)
ReasksAreBounded == aLoop.reasks <= AMaxReasks

(* "Submit-or-zero": a run that ends any other way than by a submission       *)
(* carries no patch, and a submitted patch is the one the toolset recorded.   *)
SubmitOrZero ==
    aLoop.patch # ANoPatch => /\ aLoop.outcome = "submitted"
                              /\ aLoop.patch = aTools.submission

(* Every run ends: the steps run out whatever the model answers.              *)
LoopEnds == <>(aLoop.at = "ended")

(* What the submit tool says of a refused submission: it does not end the     *)
(* run, so that a real fix is not lost to a flaky diff.                       *)
RejectedSubmitGoesOn == aLoop.outcome = "submitted" => aTools.submission # ANoPatch
=============================================================================
