----------------------------- MODULE LoopClaim -----------------------------
(***************************************************************************)
(* How loop runners on different machines share one tracker issue: the     *)
(* claim markers in its comments (loop_runner/runner.py _claim, _resume;   *)
(* loop_runner/linear.py live_claim, eligible_issues).                     *)
(*                                                                         *)
(* The issue stays labelled and in an active state: every run here ends    *)
(* with its release marker and puts the issue back in the queue. Released  *)
(* claims are dropped from the state, since every reader skips them. Time  *)
(* is kept as the ages of timestamps, capped at Cap.                       *)
(***************************************************************************)
EXTENDS Integers, Sequences, FiniteSets, SequencesExt

CONSTANTS Runners,         \* machines running the loop against the project
          RunIds,          \* run ids in use at one time (random: any order)
          ClaimTtl,        \* lock_ttl_seconds, also the lifetime of a claim
          MaxStall,        \* longest time from a claim's timestamp to its re-read
          MaxCopies,       \* comments one add_comment can leave (attempts of with_retry)
          MaxClaimCrashes  \* bound on the crashes of a behaviour

ASSUME LoopClaimAssumption ==
    /\ IsFiniteSet(Runners)
    /\ RunIds \subseteq Nat \ {0} /\ IsFiniteSet(RunIds)
    /\ ClaimTtl \in Nat \ {0}
    /\ MaxStall \in Nat
    /\ MaxCopies \in Nat \ {0}
    /\ MaxClaimCrashes \in Nat

VARIABLES claims,    \* unreleased claim markers, in the order of the comments
          claimPc,   \* the next statement of each runner
          claimRun,  \* the run id of the runner's attempt (0: none)
          now,       \* age of the clock value _claim took (`now`)
          active,    \* the ledger's active run, which survives a crash (0: none)
          claimCrashes

claimVars == <<claims, claimPc, claimRun, now, active, claimCrashes>>

\* From this age on every reader takes a claim for dead.
Cap == IF 2 * ClaimTtl > ClaimTtl + MaxStall THEN 2 * ClaimTtl ELSE ClaimTtl + MaxStall

ClaimPCs == {"idle", "comment", "reread", "duplicate", "won", "work", "released"}

Claim == [run: RunIds, age: 0..Cap]

ClaimTypeOK ==
    /\ claims \in Seq(Claim)
    /\ \A id \in RunIds : Cardinality({i \in DOMAIN claims : claims[i].run = id}) <= MaxCopies
    /\ claimPc \in [Runners -> ClaimPCs]
    /\ claimRun \in [Runners -> RunIds \union {0}]
    /\ now \in [Runners -> 0..MaxStall]
    /\ active \in [Runners -> RunIds \union {0}]
    /\ claimCrashes \in 0..MaxClaimCrashes

ClaimInit ==
    /\ claims = <<>>
    /\ claimPc = [r \in Runners |-> "idle"]
    /\ claimRun = [r \in Runners |-> 0]
    /\ now = [r \in Runners |-> 0]
    /\ active = [r \in Runners |-> 0]
    /\ claimCrashes = 0

Claimed == {claims[i].run : i \in DOMAIN claims}

ClaimGoto(r, label) == claimPc' = [claimPc EXCEPT ![r] = label]

\* live_claim: the newest unreleased claim (the last comment of the newest
\* timestamp, the markers being sorted stably by it) if it is younger than ttl,
\* else none (0). `now` is taken at the same step as the issue is read.
LiveClaim(ttl) ==
    LET Newest == {i \in DOMAIN claims :
                     \A j \in DOMAIN claims : \/ claims[i].age < claims[j].age
                                              \/ claims[i].age = claims[j].age /\ j <= i}
    IN  IF \E i \in Newest : claims[i].age < ttl
          THEN claims[CHOOSE i \in Newest : TRUE].run
          ELSE 0

\* The release marker of a run.
Without(id) == SelectSeq(claims, LAMBDA c : c.run # id)

-----------------------------------------------------------------------------
\* Mutant of Begin: eligible_issues without its claim filter.
Begin_NoClaimFilter(r) ==
    /\ claimPc[r] = "idle" /\ active[r] = 0
    /\ \E id \in RunIds \ (Claimed \union {claimRun[q] : q \in Runners}) :
         claimRun' = [claimRun EXCEPT ![r] = id]
    /\ now' = [now EXCEPT ![r] = 0]
    /\ ClaimGoto(r, "comment")
    /\ UNCHANGED <<claims, active, claimCrashes>>

\* _tick picks the issue, then _claim reads it again, takes `now` and asks
\* eligible_issues; the run id is fresh.
Begin(r) ==
    /\ claimPc[r] = "idle" /\ active[r] = 0
    /\ LiveClaim(ClaimTtl) = 0
    /\ \E id \in RunIds \ (Claimed \union {claimRun[q] : q \in Runners}) :
         claimRun' = [claimRun EXCEPT ![r] = id]
    /\ now' = [now EXCEPT ![r] = 0]
    /\ ClaimGoto(r, "comment")
    /\ UNCHANGED <<claims, active, claimCrashes>>

\* The claim comment, stamped with `now`. graphql retries the mutation on a lost
\* answer (MaxCopies - 1 times), so the comment can be there more than once.
Comment(r) ==
    /\ claimPc[r] = "comment"
    /\ \E copies \in 1..MaxCopies :
         claims' = claims \o [i \in 1..copies |-> [run |-> claimRun[r], age |-> now[r]]]
    /\ ClaimGoto(r, "reread")
    /\ UNCHANGED <<claimRun, now, active, claimCrashes>>

\* `live` in _claim: unreleased claims younger than the TTL when `now` was taken.
Live(r) == {i \in DOMAIN claims : claims[i].age - now[r] < ClaimTtl}

\* min(live, key=(at, run_id)): the oldest timestamp, then the smallest id.
Winner(S) ==
    claims[CHOOSE i \in S : \A j \in S :
             \/ claims[i].age > claims[j].age
             \/ claims[i].age = claims[j].age /\ claims[i].run <= claims[j].run].run

\* Mutant of Reread: any rival claim makes the runner give up.
Reread_AnyRivalWins(r) ==
    /\ claimPc[r] = "reread"
    /\ ClaimGoto(r, IF \E i \in Live(r) : claims[i].run # claimRun[r] THEN "duplicate" ELSE "won")
    /\ UNCHANGED <<claims, claimRun, now, active, claimCrashes>>

\* The issue is read again and the winner computed.
Reread(r) ==
    /\ claimPc[r] = "reread"
    /\ ClaimGoto(r, IF Live(r) # {} /\ Winner(Live(r)) = claimRun[r] THEN "won" ELSE "duplicate")
    /\ UNCHANGED <<claims, claimRun, now, active, claimCrashes>>

\* The loser posts the release marker of its duplicate claim.
ReleaseDuplicate(r) ==
    /\ claimPc[r] = "duplicate"
    /\ claims' = Without(claimRun[r])
    /\ claimRun' = [claimRun EXCEPT ![r] = 0]
    /\ now' = [now EXCEPT ![r] = 0]
    /\ ClaimGoto(r, "idle")
    /\ UNCHANGED <<active, claimCrashes>>

\* The winner moves the issue to In Progress and saves the run in its ledger.
SetActive(r) ==
    /\ claimPc[r] = "won"
    /\ active' = [active EXCEPT ![r] = claimRun[r]]
    /\ now' = [now EXCEPT ![r] = 0]
    /\ ClaimGoto(r, "work")
    /\ UNCHANGED <<claims, claimRun, claimCrashes>>

\* The terminal comment of the run carries its release marker.
Release(r) ==
    /\ claimPc[r] = "work"
    /\ claims' = Without(claimRun[r])
    /\ ClaimGoto(r, "released")
    /\ UNCHANGED <<claimRun, now, active, claimCrashes>>

\* _finish clears the active run.
Finish(r) ==
    /\ claimPc[r] = "released"
    /\ active' = [active EXCEPT ![r] = 0]
    /\ claimRun' = [claimRun EXCEPT ![r] = 0]
    /\ ClaimGoto(r, "idle")
    /\ UNCHANGED <<claims, now, claimCrashes>>

\* Mutant of Resume: the run goes on whatever the claims say.
Resume_AnyClaim(r) ==
    /\ claimPc[r] = "idle" /\ active[r] # 0
    /\ claimRun' = [claimRun EXCEPT ![r] = active[r]]
    /\ ClaimGoto(r, "work")
    /\ UNCHANGED <<active, claims, now, claimCrashes>>

\* _resume after a restart: go on if the newest claim is still this run's, for
\* twice the TTL; otherwise clear the active run without touching the claims.
Resume(r) ==
    /\ claimPc[r] = "idle" /\ active[r] # 0
    /\ IF LiveClaim(2 * ClaimTtl) = active[r]
         THEN /\ claimRun' = [claimRun EXCEPT ![r] = active[r]]
              /\ ClaimGoto(r, "work")
              /\ UNCHANGED active
         ELSE /\ active' = [active EXCEPT ![r] = 0]
              /\ UNCHANGED <<claimRun, claimPc>>
    /\ UNCHANGED <<claims, now, claimCrashes>>

\* The runner dies; only the claims and its ledger remain.
ClaimCrash(r) ==
    /\ claimPc[r] # "idle"
    /\ claimCrashes < MaxClaimCrashes
    /\ claimCrashes' = claimCrashes + 1
    /\ claimRun' = [claimRun EXCEPT ![r] = 0]
    /\ now' = [now EXCEPT ![r] = 0]
    /\ ClaimGoto(r, "idle")
    /\ UNCHANGED <<claims, active>>

\* The run ids a runner or a ledger still refers to.
Referenced(id) == \E r \in Runners : claimRun[r] = id \/ active[r] = id

\* Time passes. A claim no reader counts any more and no ledger names is dropped.
ClaimTick ==
    /\ \A r \in Runners : claimPc[r] \in {"comment", "reread", "duplicate", "won"} => now[r] < MaxStall
    /\ claims' = SelectSeq([i \in DOMAIN claims |->
                              [claims[i] EXCEPT !.age = IF @ < Cap THEN @ + 1 ELSE Cap]],
                           LAMBDA c : c.age < Cap \/ Referenced(c.run))
    /\ now' = [r \in Runners |-> IF claimPc[r] \in {"comment", "reread", "duplicate", "won"}
                                   THEN now[r] + 1 ELSE 0]
    /\ UNCHANGED <<claimPc, claimRun, active, claimCrashes>>

ClaimStep(r) ==
    \/ Begin(r)
    \/ Comment(r)
    \/ Reread(r)
    \/ ReleaseDuplicate(r)
    \/ SetActive(r)
    \/ Release(r)
    \/ Finish(r)
    \/ Resume(r)

ClaimNext ==
    \/ \E r \in Runners : ClaimStep(r) \/ ClaimCrash(r)
    \/ ClaimTick

\* Every runner polls for ever (`loop serve`) and every run ends within its
\* budgets; time passes. Crashes may or may not happen.
ClaimFairness ==
    /\ \A r \in Runners : WF_claimVars(ClaimStep(r))
    /\ WF_claimVars(ClaimTick)

ClaimSpec == ClaimInit /\ [][ClaimNext]_claimVars /\ ClaimFairness

-----------------------------------------------------------------------------
Working == {r \in Runners : claimPc[r] = "work"}

HasLiveClaim(r) == \E i \in DOMAIN claims : claims[i].run = claimRun[r] /\ claims[i].age < ClaimTtl

LiveWorkers == {r \in Working : HasLiveClaim(r)}

\* "the earliest live claim wins; a duplicate claim is released": two runs with
\* live claims are never both working on the issue. A claim whose timestamp was
\* taken earlier but whose comment arrives after the rival's re-read breaks it.
OneWinner == Cardinality(LiveWorkers) <= 1

\* How wide that window is: unreleased claims that are both live are at most
\* MaxStall apart, that is, their _claim calls overlapped. A claim that was on
\* the issue before another runner looked keeps that runner off for the TTL,
\* even when its own runner crashed at any statement.
LiveClaimsOverlapped ==
    \A i, j \in DOMAIN claims :
       claims[i].age < ClaimTtl /\ claims[j].age < ClaimTtl => claims[i].age - claims[j].age <= MaxStall

\* A run that is resumed on the strength of an old claim (up to twice the TTL)
\* was not overtaken meanwhile: when it goes back to work its claim is on the
\* issue and no older than the claim of any run at work.
ResumeYieldsToNewerClaim ==
    [][\A r \in Runners : claimPc[r] = "idle" /\ claimPc'[r] = "work" =>
         \E i \in DOMAIN claims :
            /\ claims[i].run = active[r]
            /\ \A q \in Working, j \in DOMAIN claims :
                 claims[j].run = claimRun[q] => claims[i].age <= claims[j].age]_claimVars

\* The claim protocol never leaves the issue stranded: releases of duplicates,
\* crashes at any statement and orphaned claims only delay the next run.
IssueKeepsBeingWorked == []<>(Working # {})
=============================================================================
