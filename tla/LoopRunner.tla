----------------------------- MODULE LoopRunner -----------------------------
(***************************************************************************)
(* One self-improvement loop process over one UTC day                      *)
(* (loop_runner/runner.py, class LoopRunner): tick, claim, resume,         *)
(* provisioning, the agent run, the pre-PR gate, delivery and the terminal *)
(* write-back, with a crash possible between any two durable effects and   *)
(* an error possible in every tracker, git or GitHub call.                 *)
(*                                                                         *)
(* The single-run lock is RunLock, rival runners are LoopClaim, the agent  *)
(* run is VerifiedLoop and the merge of open PRs is LoopMerge; here the    *)
(* lock is held, no rival claims, and a run is its end state.              *)
(***************************************************************************)
EXTENDS Integers, FiniteSets

CONSTANTS Issues,         \* tracker issues labelled agent:eligible
          MaxRunsPerDay,  \* config.max_runs_per_day
          MaxFailures,    \* config.max_failures
          MaxRunCrashes,  \* bounds of a behaviour: process crashes,
          MaxRunFaults,   \*   calls that end in LinearError, DeliveryError or OSError,
          MaxEdits        \*   edits by people (tracker, PRs, kill switch)

ASSUME LoopRunnerAssumption ==
    /\ IsFiniteSet(Issues)
    /\ MaxRunsPerDay \in Nat \ {0} /\ MaxFailures \in Nat \ {0}
    /\ MaxRunCrashes \in Nat /\ MaxRunFaults \in Nat /\ MaxEdits \in Nat

VARIABLES ledger,    \* state.json
          runMem,    \* the Ledger object of the tick, saved by ledger.save()
          runPc,     \* the next step of the process; "off" between ticks
          out,       \* how the run in hand is being reported
          cause,     \* the kind in the report
          wt,        \* working copy of the active run
          cp,        \* checkpoint.json of the active run
          next,      \* the next fresh run id
          istate, label, claim, \* tracker: state, human-review label, newest claim
          branch,    \* the run whose commit is the tip of the issue's remote branch
          runPr,     \* the run behind the open PR of that branch
          kill,      \* kill switch
          executed,  \* runs the agent loop was started for (history variable)
          left       \* what is left of MaxRunCrashes, MaxRunFaults and MaxEdits

runDisk == <<ledger, wt, cp>>
world == <<istate, label, claim, branch, runPr, kill>>
runVars == <<ledger, runMem, runPc, out, cause, wt, cp, next, istate, label, claim, branch, runPr,
             kill, executed, left>>

NoRun == 0
Runs == 1..(MaxRunsPerDay + MaxRunCrashes + MaxRunFaults)
ActiveStates == {"todo", "in_progress", "rework"}
States == ActiveStates \union {"review", "blocked", "other"}
NoClaim == [run |-> NoRun, age |-> 2]   \* age: 0 live, 1 past the TTL, 2 past twice the TTL

RunPCs == {"off", "pick", "claimed", "count", "resume", "abandon", "provision", "checkout",
        "execute", "deliver", "gate", "commit", "push", "open_pr",
        "comment", "label", "move", "cleanup", "save"}
Outs == {"none", "done", "blocked", "stopped", "user", "failed"}

LedgerType ==
    [active: Runs \union {NoRun}, issue: Issues, count: 0..MaxRunsPerDay,
     failures: [Issues -> Nat], prs: SUBSET Runs]

RunTypeOK ==
    /\ ledger \in LedgerType /\ runMem \in LedgerType
    /\ runPc \in RunPCs /\ out \in Outs
    /\ cause \in Outs \union {"no_changes", "gate", "gate_killed", "error"}
    /\ wt \in {"none", "cloned", "clean", "dirty", "committed"}
    /\ cp \in {"none", "running", "done", "blocked", "stopped", "user"}
    /\ next \in Runs \union {Cardinality(Runs) + 1}
    /\ istate \in [Issues -> States] /\ label \in [Issues -> BOOLEAN]
    /\ claim \in [Issues -> [run: Runs \union {NoRun}, age: 0..2]]
    /\ branch \in [Issues -> Runs \union {NoRun}] /\ runPr \in [Issues -> Runs \union {NoRun}]
    /\ kill \in BOOLEAN /\ executed \subseteq Runs
    /\ left \in [crashes: 0..MaxRunCrashes, faults: 0..MaxRunFaults, edits: 0..MaxEdits]

RunInit ==
    /\ \E i \in Issues :
         ledger = [active |-> NoRun, issue |-> i, count |-> 0,
                   failures |-> [j \in Issues |-> 0], prs |-> {}]
    /\ runMem = ledger
    /\ runPc = "off" /\ out = "none" /\ cause = "none"
    /\ wt = "none" /\ cp = "none" /\ next = 1
    /\ istate = [i \in Issues |-> "todo"] /\ label = [i \in Issues |-> FALSE]
    /\ claim = [i \in Issues |-> NoClaim]
    /\ branch = [i \in Issues |-> NoRun] /\ runPr = [i \in Issues |-> NoRun]
    /\ kill = FALSE /\ executed = {}
    /\ left = [crashes |-> MaxRunCrashes, faults |-> MaxRunFaults, edits |-> MaxEdits]

-----------------------------------------------------------------------------
(* The tick: kill switch, load, resume, quota, pick and claim.             *)

issue == runMem.issue
run == runMem.active

Go(label_) == runPc' = label_

\* run_once up to _tick: the ledger is loaded; a run in it is resumed before
\* anything else; then the quota.
StartTick ==
    /\ runPc = "off" /\ ~kill
    /\ runMem' = ledger
    /\ Go(IF ledger.active # NoRun THEN "resume"
          ELSE IF ledger.count < MaxRunsPerDay THEN "pick" ELSE "off")
    /\ out' = "none" /\ cause' = "none"
    /\ UNCHANGED <<runDisk, next, world, executed, left>>

Eligible(i) == istate[i] \in ActiveStates /\ ~label[i] /\ claim[i].age >= 1

\* eligible_issues and the first half of _claim: the claim comment.
ClaimIssue(i) ==
    /\ runPc = "pick" /\ Eligible(i)
    /\ claim' = [claim EXCEPT ![i] = [run |-> next, age |-> 0]]
    /\ runMem' = [runMem EXCEPT !.issue = i]
    /\ Go("claimed")
    /\ UNCHANGED <<runDisk, out, cause, next, istate, label, branch, runPr, kill, executed, left>>

\* No eligible issue: the tick ends idle.
Idle ==
    /\ runPc = "pick" /\ \A i \in Issues : ~Eligible(i)
    /\ Go("off")
    /\ UNCHANGED <<runDisk, runMem, out, cause, next, world, executed, left>>

\* The second half of _claim: the issue moves to In Progress.
Transition ==
    /\ runPc = "claimed"
    /\ istate' = [istate EXCEPT ![issue] = "in_progress"]
    /\ Go("count")
    /\ UNCHANGED <<runDisk, runMem, out, cause, next, label, claim, branch, runPr, kill, executed, left>>

\* Mutant of CountRun: the run is counted, the ledger is not saved.
CountRun_NotSaved ==
    /\ runPc = "count"
    /\ runMem' = [runMem EXCEPT !.count = @ + 1, !.active = next]
    /\ ledger' = [runMem EXCEPT !.active = next]
    /\ next' = next + 1
    /\ wt' = "none" /\ cp' = "none"
    /\ Go("provision")
    /\ UNCHANGED <<out, cause, world, executed, left>>

\* count_run, set_active and save, before anything of the run exists.
CountRun ==
    /\ runPc = "count"
    /\ runMem' = [runMem EXCEPT !.count = @ + 1, !.active = next]
    /\ ledger' = runMem'
    /\ next' = next + 1
    /\ wt' = "none" /\ cp' = "none"
    /\ Go("provision")
    /\ UNCHANGED <<out, cause, world, executed, left>>

\* Mutant of ResumeRun: the dropped run is not saved away.
Resume_NotSaved ==
    LET ours == claim[issue].run = run /\ claim[issue].age < 2
        go   == ours /\ ~label[issue] /\ istate[issue] \in ActiveStates
    IN  /\ runPc = "resume"
        /\ IF go
             THEN /\ Go("provision")
                  /\ UNCHANGED <<runDisk, runMem>>
             ELSE /\ wt' = "none"
                  /\ runMem' = [runMem EXCEPT !.active = NoRun]
                  /\ Go(IF ours THEN "abandon" ELSE "off")
                  /\ UNCHANGED <<ledger, cp>>
        /\ UNCHANGED <<out, cause, next, world, executed, left>>

\* _resume: go on only if the newest claim is still this run's (twice the TTL)
\* and nobody moved or labelled the issue; else drop the run, ledger first.
ResumeRun ==
    LET ours == claim[issue].run = run /\ claim[issue].age < 2
        go   == ours /\ ~label[issue] /\ istate[issue] \in ActiveStates
    IN  /\ runPc = "resume"
        /\ IF go
             THEN /\ Go("provision")
                  /\ UNCHANGED <<runDisk, runMem>>
             ELSE /\ wt' = "none"
                  /\ runMem' = [runMem EXCEPT !.active = NoRun]
                  /\ ledger' = runMem'
                  /\ Go(IF ours THEN "abandon" ELSE "off")
                  /\ UNCHANGED cp
        /\ UNCHANGED <<out, cause, next, world, executed, left>>

\* The release comment of an abandoned run.
Abandon ==
    /\ runPc = "abandon"
    /\ claim' = [claim EXCEPT ![issue] = NoClaim]
    /\ Go("off")
    /\ UNCHANGED <<runDisk, runMem, out, cause, next, istate, label, branch, runPr, kill, executed, left>>

-----------------------------------------------------------------------------
(* The run: working copy, agent loop, gate, commit, push, PR.              *)

\* _run: an existing working copy is used as it is; otherwise fetch, clone.
Provision ==
    /\ runPc = "provision"
    /\ IF wt = "none"
         THEN wt' = "cloned" /\ Go("checkout")
         ELSE UNCHANGED wt /\ Go("execute")
    /\ UNCHANGED <<ledger, cp, runMem, out, cause, next, world, executed, left>>

\* The rest of add_worktree: checkout of the branch, then the seal.
Checkout ==
    /\ runPc = "checkout"
    /\ wt' = "clean"
    /\ Go("execute")
    /\ UNCHANGED <<ledger, cp, runMem, out, cause, next, world, executed, left>>

Final == {"done", "blocked", "stopped", "user"}

\* The agent works: a checkpoint is written and the working copy may change.
ExecuteStep ==
    /\ runPc = "execute" /\ cp \notin Final
    /\ cp' = "running"
    /\ wt' \in IF wt = "cloned" THEN {wt} ELSE {wt, "dirty"}
    /\ <<cp', wt'>> # <<cp, wt>>
    /\ executed' = executed \union {run}
    /\ UNCHANGED <<ledger, runMem, runPc, out, cause, next, world, left>>

\* The agent run ends (the end state is in the checkpoint), or had ended before
\* a crash. `user` is the kill switch through should_stop.
ExecuteEnd ==
    /\ runPc = "execute"
    /\ IF cp \in Final THEN UNCHANGED cp
       ELSE cp' \in {"done", "blocked", "stopped"} \union (IF kill THEN {"user"} ELSE {})
    /\ executed' = executed \union {run}
    /\ Go("deliver")
    /\ UNCHANGED <<ledger, wt, runMem, out, cause, next, world, left>>

\* Entry of _blocked, _stopped, _fail and _after_pr: a failure is recorded in
\* memory only, then the write-back starts.
Report(kind, why) ==
    /\ out' = kind /\ cause' = why
    /\ runMem' = IF kind \in {"blocked", "stopped", "failed"}
                THEN [runMem EXCEPT !.failures[issue] = @ + 1] ELSE runMem
    /\ Go("comment")

\* has_changes: `git status` of a copy that was never checked out is not empty.
HasChanges == wt \in {"dirty", "cloned"}

\* _deliver up to the pre-PR gate.
Deliver ==
    /\ runPc = "deliver"
    /\ \/ cp = "done" /\ HasChanges /\ Go("gate") /\ UNCHANGED <<runMem, out, cause>>
       \/ cp = "done" /\ ~HasChanges /\ Report("blocked", "no_changes")
       \/ cp # "done" /\ Report(cp, cp)
    /\ UNCHANGED <<runDisk, next, world, executed, left>>

\* _quality_gate: passed, failed, or not runnable; with the kill switch set the
\* suite marks its checks blocked.
Gate ==
    /\ runPc = "gate"
    /\ \/ ~kill /\ Go("commit") /\ UNCHANGED <<runMem, out, cause>>
       \/ Report("stopped", "gate")
       \/ ~kill /\ Report("blocked", "gate")
       \/ kill /\ Report("blocked", "gate_killed")
    /\ UNCHANGED <<runDisk, next, world, executed, left>>

\* commit_all: `git status` is empty from here on.
Commit ==
    /\ runPc = "commit"
    /\ wt' = "committed"
    /\ Go("push")
    /\ UNCHANGED <<ledger, cp, runMem, out, cause, next, world, executed, left>>

\* A plain push to loop/<issue-key>-<slug>, a name shared by the issue's runs:
\* refused when the branch has another run's commit (three attempts, then _fail).
PushRun ==
    /\ runPc = "push"
    /\ IF branch[issue] \in {NoRun, run}
         THEN /\ branch' = [branch EXCEPT ![issue] = run]
              /\ Go("open_pr")
              /\ UNCHANGED <<runMem, out, cause>>
         ELSE /\ Report("failed", "error")
              /\ UNCHANGED branch
    /\ UNCHANGED <<runDisk, next, istate, label, claim, runPr, kill, executed, left>>

\* open_pr reuses the PR that is open for the branch.
OpenPr ==
    /\ runPc = "open_pr"
    /\ runPr' = [runPr EXCEPT ![issue] = IF @ = NoRun THEN run ELSE @]
    /\ Report("done", "done")
    /\ UNCHANGED <<runDisk, next, istate, label, claim, branch, kill, executed, left>>

-----------------------------------------------------------------------------
(* Write-back: comment with the release marker, label, transition; then     *)
(* _finish.                                                                *)

\* The terminal comment, with the release marker of the run.
CommentRun ==
    /\ runPc = "comment"
    /\ claim' = [claim EXCEPT ![issue] = IF @.run = run THEN NoClaim ELSE @]
    /\ Go("label")
    /\ UNCHANGED <<runDisk, runMem, out, cause, next, istate, label, branch, runPr, kill, executed, left>>

\* Mutant of Label: the limit is off by one.
Label_OneMore ==
    /\ runPc = "label"
    /\ label' = [label EXCEPT ![issue] =
                   \/ @
                   \/ out = "blocked"
                   \/ out # "done" /\ runMem.failures[issue] > MaxFailures]
    /\ Go("move")
    /\ UNCHANGED <<runDisk, runMem, out, cause, next, istate, claim, branch, runPr, kill, executed, left>>

\* agent:human-review-required: always on blocked, at the failure limit else.
Label ==
    /\ runPc = "label"
    /\ label' = [label EXCEPT ![issue] =
                   \/ @
                   \/ out = "blocked"
                   \/ out # "done" /\ runMem.failures[issue] >= MaxFailures]
    /\ Go("move")
    /\ UNCHANGED <<runDisk, runMem, out, cause, next, istate, claim, branch, runPr, kill, executed, left>>

\* The state transition; a delivered run clears the issue's failures and
\* enters its PR in the ledger (in memory).
Move ==
    /\ runPc = "move"
    /\ istate' = [istate EXCEPT ![issue] = CASE out = "done" -> "review"
                                             [] out = "blocked" -> "blocked"
                                             [] OTHER -> "todo"]
    /\ runMem' = IF out = "done"
                THEN [runMem EXCEPT !.failures[issue] = 0, !.prs = @ \union {run}]
                ELSE runMem
    /\ Go("cleanup")
    /\ UNCHANGED <<runDisk, out, cause, next, label, claim, branch, runPr, kill, executed, left>>

\* _finish: remove the working copy ...
Cleanup ==
    /\ runPc = "cleanup"
    /\ wt' = "none"
    /\ Go("save")
    /\ UNCHANGED <<ledger, cp, runMem, out, cause, next, world, executed, left>>

\* ... clear the active run and save; the history line follows.
SaveRun ==
    /\ runPc = "save"
    /\ runMem' = [runMem EXCEPT !.active = NoRun]
    /\ ledger' = runMem'
    /\ Go("off")
    /\ UNCHANGED <<wt, cp, out, cause, next, world, executed, left>>

-----------------------------------------------------------------------------
(* Errors, crashes and people.                                             *)

InTick == {"pick", "claimed", "count", "resume", "abandon"}
InRun == {"provision", "checkout", "execute", "gate", "commit", "push", "open_pr"}
InReport == {"comment", "label", "move"}

\* A LinearError outside _run ends the tick. A call whose effect took place but
\* whose answer was lost is the fault at the next step.
TickError ==
    /\ runPc \in InTick \ {"count"} /\ left.faults > 0
    /\ left' = [left EXCEPT !.faults = @ - 1]
    /\ next' = IF runPc = "claimed" THEN next + 1 ELSE next
    /\ Go("off")
    /\ UNCHANGED <<runDisk, runMem, out, cause, world, executed>>

\* Inside _run every error ends in _fail, which records a failure of its own;
\* an error of _fail's own tracker calls is logged and _finish follows. An error
\* in the _finish of _fail leaves run_once: that is Crash.
RunError ==
    /\ runPc \in InRun \union InReport \union {"cleanup"} /\ left.faults > 0
    /\ runPc = "cleanup" => out # "failed"
    /\ left' = [left EXCEPT !.faults = @ - 1]
    /\ IF runPc \in InReport /\ out = "failed"
         THEN Go("cleanup") /\ UNCHANGED <<runMem, out, cause>>
         ELSE Report("failed", "error")
    /\ UNCHANGED <<runDisk, next, world, executed>>

\* The process dies: what was only in memory is lost.
RunCrash ==
    /\ runPc # "off" /\ left.crashes > 0
    /\ left' = [left EXCEPT !.crashes = @ - 1]
    /\ next' = IF runPc \in {"claimed", "count"} THEN next + 1 ELSE next
    /\ runMem' = ledger
    /\ Go("off")
    /\ UNCHANGED <<runDisk, out, cause, world, executed>>

Edit == left.edits > 0 /\ left' = [left EXCEPT !.edits = @ - 1]

\* People move issues, set and remove the label, close or merge the PR (with or
\* without deleting its branch) and set the kill switch.
HumanMove(i) ==
    /\ Edit
    /\ \E s \in {"todo", "rework", "other"}, l \in BOOLEAN :
         /\ istate' = [istate EXCEPT ![i] = s]
         /\ label' = [label EXCEPT ![i] = l]
    /\ UNCHANGED <<runDisk, runMem, runPc, out, cause, next, claim, branch, runPr, kill, executed>>

HumanMerge(i) ==
    /\ Edit /\ runPr[i] # NoRun
    /\ runPr' = [runPr EXCEPT ![i] = NoRun]
    /\ branch' \in {branch, [branch EXCEPT ![i] = NoRun]}
    /\ UNCHANGED <<runDisk, runMem, runPc, out, cause, next, istate, label, claim, kill, executed>>

SetKill ==
    /\ Edit /\ ~kill
    /\ kill' = TRUE
    /\ UNCHANGED <<runDisk, runMem, runPc, out, cause, next, istate, label, claim, branch, runPr, executed>>

ClearKill ==
    /\ kill
    /\ kill' = FALSE
    /\ UNCHANGED <<runDisk, runMem, runPc, out, cause, next, istate, label, claim, branch, runPr, executed, left>>

\* Time passes: a claim gets older.
ClaimAges(i) ==
    /\ claim[i].age < 2
    /\ claim' = [claim EXCEPT ![i].age = @ + 1]
    /\ UNCHANGED <<runDisk, runMem, runPc, out, cause, next, istate, label, branch, runPr, kill, executed, left>>

RunStep ==
    \/ StartTick \/ Idle \/ \E i \in Issues : ClaimIssue(i)
    \/ Transition \/ CountRun \/ ResumeRun \/ Abandon
    \/ Provision \/ Checkout \/ ExecuteStep \/ ExecuteEnd
    \/ Deliver \/ Gate \/ Commit \/ PushRun \/ OpenPr
    \/ CommentRun \/ Label \/ Move \/ Cleanup \/ SaveRun

RunNext ==
    \/ RunStep
    \/ TickError \/ RunError \/ RunCrash
    \/ \E i \in Issues : HumanMove(i) \/ HumanMerge(i) \/ ClaimAges(i)
    \/ SetKill \/ ClearKill

\* `loop serve` keeps ticking and a run ends within its budgets; the kill switch
\* is not left on for ever; time passes.
RunFairness ==
    /\ WF_runVars(RunStep)
    /\ WF_runVars(ClearKill)
    /\ \A i \in Issues : WF_runVars(ClaimAges(i))

RunSpec == RunInit /\ [][RunNext]_runVars /\ RunFairness
-----------------------------------------------------------------------------
(* What holds.                                                             *)

\* The daily cap bounds the runs the agent is started for, through crashes and
\* resumes: count_run is saved before the run exists, and a resume is no new run.
QuotaHolds == Cardinality(executed) <= MaxRunsPerDay

\* The human-review label stops an issue at the failure limit: once its saved
\* failures reach max_failures it is not picked again, whatever crashes happen,
\* unless somebody edits the issue or a tracker call of the write-back fails.
FailureLimitStopsPicking ==
    \A i \in Issues :
       /\ runPc = "off" /\ Eligible(i)
       /\ left.faults = MaxRunFaults /\ left.edits = MaxEdits
       => ledger.failures[i] < MaxFailures

\* "Every terminal comment carries a release marker": without a crash or a
\* failing call no finished tick leaves a claim on an issue.
FinishedRunsReleaseTheirClaim ==
    /\ runPc = "off" /\ ledger.active = NoRun
    /\ left.faults = MaxRunFaults /\ left.crashes = MaxRunCrashes
    => \A i \in Issues : claim[i].run = NoRun

\* A run saved as active is resumed or abandoned and leaves the ledger: no
\* crash, error or edit makes the loop carry it for ever.
ActiveRunSettles == ledger.active # NoRun ~> ledger.active = NoRun

-----------------------------------------------------------------------------
(* What the documentation says and the code does not do.                   *)

\* "done, but no change: blocked (no_changes)": a run is reported as having
\* changed nothing only if it committed nothing. After a crash between the
\* commit and _finish the resumed run finds a clean `git status`.
NoChangesMeansNoCommit == runPc = "comment" /\ cause = "no_changes" => wt # "committed"

\* "stopped by the kill switch: not counted as a failure". During the pre-PR
\* gate the kill switch is reported as a blocked gate, which counts.
KillSwitchIsNoFailure ==
    runPc = "comment" /\ cause = "gate_killed" => runMem.failures[issue] = ledger.failures[issue]

\* "a working copy provisioned by add_worktree is sealed": the agent runs in a
\* copy whose branch was checked out and sealed. _run takes a directory that a
\* crash inside add_worktree left behind for a provisioned one.
AgentRunsInProvisionedCopy == runPc = "execute" => wt \notin {"none", "cloned"}

\* "every open loop PR goes through the D-22 guard": an open PR is in the
\* ledger's open_prs once no run is in hand. An error or a crash between the
\* PR and the save of _finish leaves it out.
OpenPrIsTracked ==
    runPc = "off" /\ ledger.active = NoRun => \A i \in Issues : runPr[i] # NoRun => runPr[i] \in ledger.prs

\* "2nd failure adds agent:human-review-required": a run counts as one failure.
\* An error during the write-back of _blocked or _stopped makes _fail count it
\* a second time.
RunCountsAsOneFailure ==
    runMem.active # NoRun => runMem.failures[issue] <= ledger.failures[issue] + 1

\* "Rework: reviewer feedback requires another pass": a run of a requeued issue
\* can push its branch. The branch name depends on the issue only and the push
\* is not forced, so the branch of the first run refuses the second.
RequeuedRunCanPush == runPc = "push" => branch[issue] \in {NoRun, run}
=============================================================================
