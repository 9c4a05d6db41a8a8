------------------------------ MODULE LoopMerge ------------------------------
(***************************************************************************)
(* The merge half of a loop tick: LoopRunner._reconcile_prs and            *)
(* _reconcile_one (src/locus_runtime/loop_runner/runner.py:970-1041), the  *)
(* gh calls of delivery.py and the D-22 guard of merge_guard.py, while the *)
(* branch, its checks and its PR keep changing on GitHub.                  *)
(*                                                                         *)
(* Every gh call is a step of its own.  pr_checks and pr_files name a PR,  *)
(* not a commit, so they answer for whatever head the branch has by then.  *)
(* A head is the number of pushes so far: the branch only moves forward.   *)
(* What the guard reads in the diff (protected paths, gate definitions,    *)
(* deleted tests) is one Boolean per head, `clean'.                        *)
(***************************************************************************)
EXTENDS Integers, FiniteSets

CONSTANTS
    Prs,             \* the PRs ledger.open_prs names at the start
    MaxMoves,        \* bound: pushes and check re-runs
    MaxMergeFaults,  \* bound: calls to gh or Linear that fail
    MaxMergeCrashes  \* bound: crashes of the runner process

NoPr == "none"

ASSUME MergeAssumption ==
    /\ NoPr \notin Prs
    /\ MaxMoves \in Nat
    /\ MaxMergeFaults \in Nat
    /\ MaxMergeCrashes \in Nat

VARIABLES
    pr,         \* GitHub: the state of each PR and of its head
    disk,       \* state.json: open_prs
    mem,        \* the Ledger object of the tick: open_prs
    todo,       \* the PRs the for loop has still to visit
    mergePc,    \* the next call of the tick
    cur,        \* the PR _reconcile_one is at
    info,       \* the head_sha of its first pr_info
    green,      \* what pr_checks said: every check green
    clean,      \* what pr_files and file_at said: no rule of the guard hit
    held,       \* history: PRs the guard has held
    explained,  \* PRs whose issue has the comment with the reasons
    moves, faults, mergeCrashes

mergeVars == <<pr, disk, mem, todo, mergePc, cur, info, green, clean, held, explained,
               moves, faults, mergeCrashes>>
github == <<pr, moves>>
mergeLedger == <<disk, mem>>
seen == <<info, green, clean>>
history == <<held, explained>>
bounds == <<faults, mergeCrashes>>

Checks == {"none", "pending", "green", "red"}

\* PullRequestInfo and what GitHub keeps of the PR's head.  by: who merged it.
\* greened: every check of this head has been green.  young: the head is inside
\* _EMPTY_CHECKS_GRACE_SECONDS of opened_at.  evalHeld: eval_merge_hold_reason
\* has a reason for the eval_status recorded with the PR.
PullRequest == [state: {"open", "closed", "merged"}, by: {"nobody", "loop", "human"},
                head: 0..MaxMoves, clean: BOOLEAN, checks: Checks,
                greened: BOOLEAN, young: BOOLEAN, evalHeld: BOOLEAN]

MergePCs == {"tick", "next", "checks", "files", "decide", "recheck", "merge",
        "tellMerged", "tellHeld"}

\* Type invariant of the reconciliation: the bounds hold and a PR is being
\* looked at exactly while _reconcile_one runs.
MergeTypeOK ==
    /\ pr \in [Prs -> PullRequest]
    /\ disk \in SUBSET Prs
    /\ mem \in SUBSET disk
    /\ todo \in SUBSET Prs
    /\ mergePc \in MergePCs
    /\ cur \in Prs \cup {NoPr}
    /\ cur = NoPr <=> mergePc \in {"tick", "next"}
    /\ info \in 0..MaxMoves
    /\ green \in BOOLEAN
    /\ clean \in BOOLEAN
    /\ held \in SUBSET Prs
    /\ explained \in SUBSET held
    /\ moves \in 0..MaxMoves
    /\ faults \in 0..MaxMergeFaults
    /\ mergeCrashes \in 0..MaxMergeCrashes

\* The PRs LoopRunner._after_pr has recorded: just opened, checks not reported.
MergeInit ==
    /\ pr \in [Prs -> {r \in PullRequest :
                         /\ r.state = "open" /\ r.by = "nobody" /\ r.head = 0
                         /\ r.checks = "none" /\ ~r.greened /\ r.young}]
    /\ disk = Prs /\ mem = Prs
    /\ todo = {} /\ mergePc = "tick" /\ cur = NoPr
    /\ info = 0 /\ green = FALSE /\ clean = FALSE
    /\ held = {} /\ explained = {}
    /\ moves = 0 /\ faults = 0 /\ mergeCrashes = 0

\* What the next tick works on: Ledger.load, then the snapshot the loop walks.
Load ==
    /\ mergePc = "tick" /\ disk # {}
    /\ mem' = disk /\ todo' = disk /\ mergePc' = "next"
    /\ UNCHANGED <<github, disk, cur, seen, history, bounds>>

\* _reconcile_one is over: its locals are gone, on to the next PR of the loop.
Leave ==
    /\ mergePc' = "next" /\ cur' = NoPr
    /\ info' = 0 /\ green' = FALSE /\ clean' = FALSE

\* First pr_info.  A PR that is not open any more is dropped ("closed").
ReadInfo(p) ==
    /\ mergePc = "next" /\ p \in todo
    /\ todo' = todo \ {p}
    /\ IF pr[p].state = "open"
         THEN /\ info' = pr[p].head /\ cur' = p /\ mergePc' = "checks"
              /\ UNCHANGED mem
         ELSE /\ mem' = mem \ {p}
              /\ UNCHANGED <<info, cur, mergePc>>
    /\ UNCHANGED <<github, disk, green, clean, history, bounds>>

\* pr_checks.  A pending check, or none within the grace period, is "waiting".
ReadChecks ==
    /\ mergePc = "checks"
    /\ IF pr[cur].checks = "pending" \/ (pr[cur].checks = "none" /\ pr[cur].young)
         THEN Leave
         ELSE /\ mergePc' = "files" /\ green' = (pr[cur].checks = "green")
              /\ UNCHANGED <<cur, info, clean>>
    /\ UNCHANGED <<github, mergeLedger, todo, history, bounds>>

\* pr_files.
ReadFiles ==
    /\ mergePc = "files"
    /\ clean' = pr[cur].clean
    /\ mergePc' = "decide"
    /\ UNCHANGED <<github, mergeLedger, todo, cur, info, green, history, bounds>>

\* evaluate_auto_merge says "merge" and the eval gate does not hold.
MayMerge == green /\ clean /\ ~pr[cur].evalHeld

\* The decision, with remove_open_pr when it is "hold".
Decide ==
    /\ mergePc = "decide"
    /\ IF MayMerge
         THEN mergePc' = "recheck" /\ UNCHANGED <<mem, held>>
         ELSE mergePc' = "tellHeld" /\ mem' = mem \ {cur} /\ held' = held \cup {cur}
    /\ UNCHANGED <<github, disk, todo, cur, seen, explained, bounds>>

\* file_at answers None when its call fails: without CODEOWNERS the guard holds.
DecideWithoutCodeowners ==
    /\ mergePc = "decide" /\ faults < MaxMergeFaults
    /\ faults' = faults + 1
    /\ mergePc' = "tellHeld" /\ mem' = mem \ {cur} /\ held' = held \cup {cur}
    /\ UNCHANGED <<github, disk, todo, cur, seen, explained, mergeCrashes>>

\* Second pr_info: a head other than the evaluated one is "waiting".
Recheck ==
    /\ mergePc = "recheck"
    /\ IF pr[cur].head = info
         THEN mergePc' = "merge" /\ UNCHANGED <<cur, seen>>
         ELSE Leave
    /\ UNCHANGED <<github, mergeLedger, todo, history, bounds>>

\* Mutant of Mergeable: merge_pr without --match-head-commit.
Mergeable_AnyHead(p) == pr[p].state = "open"

\* GitHub merges an open PR whose head is the one --match-head-commit names.
Mergeable(p) == pr[p].state = "open" /\ pr[p].head = info

Merged(p) == [pr EXCEPT ![p].state = "merged", ![p].by = "loop"]

\* merge_pr, then remove_open_pr.  A refused merge is a DeliveryError.
Merge ==
    /\ mergePc = "merge"
    /\ IF Mergeable(cur)
         THEN /\ pr' = Merged(cur)
              /\ mem' = mem \ {cur}
              /\ mergePc' = "tellMerged" /\ UNCHANGED <<cur, seen>>
         ELSE Leave /\ UNCHANGED <<pr, mem>>
    /\ UNCHANGED <<disk, todo, history, moves, bounds>>

\* gh fails after GitHub has merged: the answer is lost, the PR stays listed.
MergeAnswerLost ==
    /\ mergePc = "merge" /\ faults < MaxMergeFaults
    /\ Mergeable(cur)
    /\ pr' = Merged(cur)
    /\ faults' = faults + 1
    /\ Leave
    /\ UNCHANGED <<mergeLedger, todo, history, moves, mergeCrashes>>

\* add_comment on the issue, after the PR has left mem.
Tell ==
    /\ mergePc \in {"tellMerged", "tellHeld"}
    /\ explained' = IF mergePc = "tellHeld" THEN explained \cup {cur} ELSE explained
    /\ Leave
    /\ UNCHANGED <<github, mergeLedger, todo, held, bounds>>

\* Any other call fails: DeliveryError or LinearError ends this PR's turn.
Fail ==
    /\ mergePc \in {"checks", "files", "recheck", "merge", "tellMerged", "tellHeld"}
    /\ faults < MaxMergeFaults
    /\ faults' = faults + 1
    /\ Leave
    /\ UNCHANGED <<github, mergeLedger, todo, history, mergeCrashes>>

\* The first pr_info fails.
FailInfo(p) ==
    /\ mergePc = "next" /\ p \in todo /\ faults < MaxMergeFaults
    /\ faults' = faults + 1
    /\ todo' = todo \ {p}
    /\ UNCHANGED <<github, mergeLedger, mergePc, cur, seen, history, mergeCrashes>>

\* Mutant of Save: the loop ends without ledger.save().
Save_Skipped ==
    /\ mergePc = "next" /\ todo = {}
    /\ mergePc' = "tick"
    /\ UNCHANGED <<github, mergeLedger, todo, cur, seen, history, bounds>>

\* ledger.save(), once, after the last PR; the rest of the tick is LoopRunner.
Save ==
    /\ mergePc = "next" /\ todo = {}
    /\ disk' = mem
    /\ mergePc' = "tick"
    /\ UNCHANGED <<github, mem, todo, cur, seen, history, bounds>>

\* The process dies; the next tick starts from state.json.
MergeCrash ==
    /\ mergePc # "tick" /\ mergeCrashes < MaxMergeCrashes
    /\ mergeCrashes' = mergeCrashes + 1
    /\ mergePc' = "tick" /\ cur' = NoPr /\ todo' = {} /\ mem' = disk
    /\ info' = 0 /\ green' = FALSE /\ clean' = FALSE
    /\ UNCHANGED <<github, disk, history, faults>>

------------------------------------------------------------------------------
(* The world: the branch, the checks and the principals. *)

Pushed(r, c) == [r EXCEPT !.head = @ + 1, !.clean = c, !.checks = "none", !.greened = FALSE]

Passed(r) == [r EXCEPT !.checks = "green", !.greened = TRUE]

\* A new commit on the branch (a Rework run, a reviewer): new checks to come.
Push(p) ==
    /\ pr[p].state = "open" /\ moves < MaxMoves
    /\ moves' = moves + 1
    /\ \E c \in BOOLEAN :
         pr' = [pr EXCEPT ![p] = Pushed(pr[p], c)]
    /\ UNCHANGED <<disk, mem, todo, mergePc, cur, seen, history, bounds>>

\* A check is started again, or a late workflow reports its first check.
Rerun(p) ==
    /\ pr[p].state = "open" /\ pr[p].checks \in {"green", "red"} /\ moves < MaxMoves
    /\ moves' = moves + 1
    /\ pr' = [pr EXCEPT ![p].checks = "pending"]
    /\ UNCHANGED <<disk, mem, todo, mergePc, cur, seen, history, bounds>>

\* CI reports its checks, and later their conclusions.
CiStep(p) ==
    /\ pr[p].state = "open"
    /\ \/ /\ pr[p].checks = "none"
          /\ pr' = [pr EXCEPT ![p].checks = "pending"]
       \/ /\ pr[p].checks = "pending"
          /\ \/ pr' = [pr EXCEPT ![p] = Passed(pr[p])]
             \/ pr' = [pr EXCEPT ![p].checks = "red"]
    /\ UNCHANGED <<disk, mem, todo, mergePc, cur, seen, history, moves, bounds>>

\* The grace period for a PR without checks ends.
GraceEnds(p) ==
    /\ pr[p].young
    /\ pr' = [pr EXCEPT ![p].young = FALSE]
    /\ UNCHANGED <<disk, mem, todo, mergePc, cur, seen, history, moves, bounds>>

\* A principal merges or closes the PR.
HumanDecides(p) ==
    /\ pr[p].state = "open"
    /\ \/ pr' = [pr EXCEPT ![p].state = "merged", ![p].by = "human"]
       \/ pr' = [pr EXCEPT ![p].state = "closed"]
    /\ UNCHANGED <<disk, mem, todo, mergePc, cur, seen, history, moves, bounds>>

------------------------------------------------------------------------------
MergeStep ==
    \/ Load \/ ReadChecks \/ ReadFiles \/ Decide \/ Recheck \/ Merge \/ Tell \/ Save
    \/ \E p \in Prs : ReadInfo(p)

Faulty ==
    \/ DecideWithoutCodeowners \/ MergeAnswerLost \/ Fail \/ MergeCrash
    \/ \E p \in Prs : FailInfo(p)

World(p) == Push(p) \/ Rerun(p) \/ CiStep(p) \/ GraceEnds(p) \/ HumanDecides(p)

MergeNext == MergeStep \/ Faulty \/ \E p \in Prs : World(p)

\* serve() keeps ticking; CI finishes what it starts; the clock moves.
MergeFairness ==
    /\ WF_mergeVars(MergeStep)
    /\ \A p \in Prs : WF_mergeVars(CiStep(p)) /\ WF_mergeVars(GraceEnds(p))

MergeSpec == MergeInit /\ [][MergeNext]_mergeVars /\ MergeFairness

------------------------------------------------------------------------------
\* A head the loop merges passed the guard: its own diff hit no rule, all its
\* own checks were green when read, and the eval gate does not hold the PR,
\* although _reconcile_one reads the three from a branch that may move between
\* its gh calls (runner.py:982-1024).
MergedHeadPassedTheGuard ==
    \A p \in Prs : pr[p].by = "loop" => pr[p].clean /\ pr[p].greened /\ ~pr[p].evalHeld

\* A PR leaves state.json only when it is no longer open or the guard held it,
\* so an error, a crash or a moved head never makes the loop forget a PR that
\* could still be merged (runner.py:970-980).
NoPrForgotten ==
    \A p \in Prs \ disk : pr[p].state # "open" \/ p \in held

\* Every PR the ledger lists is settled in the end: merged, closed or held
\* (runner.py:970-1041 over the ticks of serve).
EveryPrIsSettled == \A p \in Prs : <>(p \notin disk)

\* "A held PR stays open for principal review and the issue gets a comment with
\* the reasons" (docs/development/self-improvement-loop.md): a held PR that is
\* no longer listed in state.json has its comment.
HeldPrIsExplained == \A p \in held \ disk : p \in explained \/ pr[p].state # "open"

\* The same sentence, its first half: the loop does not merge a PR after it has
\* told the issue that the PR needs principal review.
HeldPrIsLeftToThePrincipal == \A p \in explained : pr[p].by # "loop"
==============================================================================
