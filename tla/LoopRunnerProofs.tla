-------------------------- MODULE LoopRunnerProofs --------------------------
(***************************************************************************)
(* Proofs about LoopRunner for any set of issues and any quota, failure    *)
(* limit and number of crashes, failing calls and edits: the type          *)
(* invariant, the daily quota, the failure limit and the release of        *)
(* claims.                                                                 *)
(*                                                                         *)
(* The ledger is in two places, on disk and in the tick's memory.  InHand  *)
(* says how far they may differ at every step of the process; the quota,   *)
(* the failure limit and the claims each need one more fact, which is      *)
(* inductive only beside InHand.                                           *)
(***************************************************************************)
EXTENDS LoopRunner, FiniteSetTheorems, TLAPS

\* The process is between set_active and the save of _finish.
Running == {"provision", "checkout", "execute", "deliver", "gate", "commit", "push", "open_pr",
            "comment", "label", "move", "cleanup", "save"}

\* Memory against disk: a tick that picks has no run and quota left, a tick that
\* claimed differs in the issue only, and a run in hand is the one on disk.
InHand ==
    /\ runPc \in {"pick", "claimed", "count"} =>
         /\ runMem.active = NoRun /\ ledger.active = NoRun
         /\ runMem.count = ledger.count /\ runMem.failures = ledger.failures
         /\ ledger.count < MaxRunsPerDay
    /\ runPc = "pick" => runMem = ledger
    /\ runPc = "resume" => runMem = ledger /\ ledger.active # NoRun
    /\ runPc = "abandon" => runMem = ledger /\ ledger.active = NoRun
    /\ runPc \in Running =>
         /\ runMem.active = ledger.active /\ ledger.active # NoRun
         /\ runMem.count = ledger.count /\ runMem.issue = ledger.issue
         /\ \A i \in Issues \ {issue} : runMem.failures[i] = ledger.failures[i]
    /\ runPc = "deliver" => cp \in Final

\* A run id is used up by a counted run, by a crash or by a failing call.
IdsInv == next + left.crashes + left.faults <= ledger.count + 1 + MaxRunCrashes + MaxRunFaults

\* The runs the agent was started for and the one on disk were all counted.
Counted == executed \union ({ledger.active} \ {NoRun})
QuotaInv == Cardinality(Counted) <= ledger.count

\* Without a failing call and an edit: an issue at the limit has the label, and
\* so will the issue in hand when its failures are saved.
LabelInv ==
    left.faults = MaxRunFaults /\ left.edits = MaxEdits =>
      /\ \A i \in Issues : ledger.failures[i] >= MaxFailures => label[i]
      /\ runPc = "move" /\ out # "done" /\ runMem.failures[issue] >= MaxFailures => label[issue]
      /\ runPc \in {"cleanup", "save"} /\ runMem.failures[issue] >= MaxFailures => label[issue]

\* Without a failing call and a crash: the only claim is that of the issue in
\* hand, from its claim comment to its terminal comment.
Holding == {"claimed", "count"} \union (Running \ {"label", "move", "cleanup", "save"})
ClaimHeld ==
    /\ runPc \in {"off", "pick"} => ledger.active = NoRun
    /\ runPc \notin {"resume", "abandon"}
    /\ \A i \in Issues : claim[i].run # NoRun => runPc \in Holding /\ i = issue
    /\ runPc \in {"claimed", "count"} => claim[issue].run = next
    /\ runPc \in Holding \ {"claimed", "count"} => claim[issue].run = run
ClaimInv == left.faults = MaxRunFaults /\ left.crashes = MaxRunCrashes => ClaimHeld

RunInv == RunTypeOK /\ InHand /\ IdsInv

Causes == Outs \union {"no_changes", "gate", "gate_killed", "error"}

-----------------------------------------------------------------------------
\* The run ids of a day, as RunTypeOK counts them.
LEMMA RunsCounted ==
    /\ IsFiniteSet(Runs)
    /\ Cardinality(Runs) = MaxRunsPerDay + MaxRunCrashes + MaxRunFaults
  BY LoopRunnerAssumption, FS_Interval DEF Runs

\* The updates of the Ledger object keep its type.
LEMMA LedgerUpdates ==
  ASSUME NEW l \in LedgerType
  PROVE  /\ \A a \in Runs \union {NoRun} : [l EXCEPT !.active = a] \in LedgerType
         /\ \A i \in Issues : [l EXCEPT !.issue = i] \in LedgerType
         /\ \A a \in Runs \union {NoRun}, n \in 0..MaxRunsPerDay :
              [l EXCEPT !.count = n, !.active = a] \in LedgerType
         /\ \A i \in Issues, n \in Nat : [l EXCEPT !.failures[i] = n] \in LedgerType
         /\ \A i \in Issues, r \in Runs :
              [l EXCEPT !.failures[i] = 0, !.prs = @ \union {r}] \in LedgerType
  BY DEF LedgerType

\* _blocked, _stopped, _fail and _after_pr change the failures of the issue in
\* hand and nothing else of the ledger in memory.
LEMMA ReportEffect ==
  ASSUME RunTypeOK, NEW kind \in Outs, NEW why \in Causes, Report(kind, why)
  PROVE  /\ runMem' \in LedgerType /\ out' \in Outs /\ cause' \in Causes
         /\ runPc' = "comment"
         /\ runMem'.active = runMem.active /\ runMem'.count = runMem.count
         /\ runMem'.issue = runMem.issue
         /\ \A i \in Issues \ {issue} : runMem'.failures[i] = runMem.failures[i]
<1>0. runMem \in LedgerType /\ issue \in Issues /\ runMem.failures[issue] \in Nat
  BY DEF RunTypeOK, LedgerType, issue
<1>1. [runMem EXCEPT !.failures[issue] = @ + 1] \in LedgerType
  BY <1>0 DEF LedgerType, issue
<1>2. CASE runMem' = runMem
  BY <1>0, <1>2 DEF Report, Go, Causes
<1>3. CASE runMem' = [runMem EXCEPT !.failures[issue] = @ + 1]
  BY <1>0, <1>1, <1>3 DEF Report, Go, Causes, LedgerType, issue
<1> QED
  BY <1>2, <1>3 DEF Report

\* A released claim is a claim of no run.
LEMMA NoClaimType == NoClaim \in [run: Runs \union {NoRun}, age: 0..2]
  BY DEF NoClaim

\* While an id may be taken there is one left.
LEMMA FreshId ==
  ASSUME RunInv, runPc \in {"pick", "claimed", "count"}
  PROVE  next \in Runs /\ next + 1 \in Runs \union {Cardinality(Runs) + 1}
<1>1. /\ next \in Nat /\ next >= 1 /\ ledger.count \in 0..MaxRunsPerDay
      /\ left.crashes \in 0..MaxRunCrashes /\ left.faults \in 0..MaxRunFaults
  BY LoopRunnerAssumption, RunsCounted DEF RunInv, RunTypeOK, LedgerType, Runs
<1>2. ledger.count < MaxRunsPerDay
  BY DEF RunInv, InHand
<1>3. next + left.crashes + left.faults <= ledger.count + 1 + MaxRunCrashes + MaxRunFaults
  BY DEF RunInv, IdsInv
<1>4. next <= MaxRunsPerDay + MaxRunCrashes + MaxRunFaults
  BY <1>1, <1>2, <1>3, LoopRunnerAssumption
<1> QED
  BY <1>1, <1>4, LoopRunnerAssumption, RunsCounted DEF Runs

-----------------------------------------------------------------------------
\* Types.

\* Every step of the runner preserves the types (the handlers of tick and of its
\* stages).
LEMMA TypeStep ==
  ASSUME RunInv, RunNext
  PROVE  RunTypeOK'
<1> USE DEF Go, runDisk, world, RunPCs
<1>0. RunTypeOK
  BY DEF RunInv
<1>1. CASE StartTick
  BY <1>0, <1>1 DEF StartTick, RunTypeOK, Outs
<1>2. CASE Idle
  BY <1>0, <1>2 DEF Idle, RunTypeOK
<1>3. ASSUME NEW i \in Issues, ClaimIssue(i) PROVE RunTypeOK'
  <2>1. next \in Runs
    BY <1>3, FreshId DEF ClaimIssue
  <2>2. claim' \in [Issues -> [run: Runs \union {NoRun}, age: 0..2]]
    BY <1>0, <1>3, <2>1 DEF ClaimIssue, RunTypeOK
  <2>3. runMem' \in LedgerType
    BY <1>0, <1>3, LedgerUpdates DEF ClaimIssue, RunTypeOK
  <2> QED
    BY <1>0, <1>3, <2>2, <2>3 DEF ClaimIssue, RunTypeOK
<1>4. CASE Transition
  <2>1. istate' \in [Issues -> States]
    BY <1>0, <1>4, Zenon DEF Transition, RunTypeOK, States, ActiveStates
  <2> QED
    BY <1>0, <1>4, <2>1 DEF Transition, RunTypeOK
<1>5. CASE CountRun
  <2>1. next \in Runs /\ next + 1 \in Runs \union {Cardinality(Runs) + 1}
    BY <1>5, FreshId DEF CountRun
  <2>2. runMem.count + 1 \in 0..MaxRunsPerDay
    BY <1>0, <1>5, LoopRunnerAssumption DEF CountRun, RunInv, InHand, RunTypeOK, LedgerType
  <2>3. runMem' \in LedgerType
    BY <1>0, <1>5, <2>1, <2>2, LedgerUpdates DEF CountRun, RunTypeOK
  <2> QED
    BY <1>0, <1>5, <2>1, <2>3 DEF CountRun, RunTypeOK
<1>6. CASE ResumeRun
  <2>1. [runMem EXCEPT !.active = NoRun] \in LedgerType
    BY <1>0, LedgerUpdates DEF RunTypeOK
  <2> QED
    BY <1>0, <1>6, <2>1 DEF ResumeRun, RunTypeOK
<1>7. CASE Abandon
  <2>1. claim' \in [Issues -> [run: Runs \union {NoRun}, age: 0..2]]
    BY <1>0, <1>7, NoClaimType, Zenon DEF Abandon, RunTypeOK
  <2> QED
    BY <1>0, <1>7, <2>1 DEF Abandon, RunTypeOK
<1>8. CASE Provision
  BY <1>0, <1>8 DEF Provision, RunTypeOK
<1>9. CASE Checkout
  BY <1>0, <1>9 DEF Checkout, RunTypeOK
<1>10. CASE ExecuteStep \/ ExecuteEnd
  <2>1. run \in Runs
    BY <1>0, <1>10 DEF ExecuteStep, ExecuteEnd, RunInv, InHand, RunTypeOK, LedgerType, Running, run
  <2> QED
    BY <1>0, <1>10, <2>1 DEF ExecuteStep, ExecuteEnd, RunTypeOK, Final
<1>11. CASE Deliver
  <2>1. CASE UNCHANGED <<runMem, out, cause>>
    BY <1>0, <1>11, <2>1 DEF Deliver, Report, RunTypeOK
  <2>2. ASSUME NEW kind \in Outs, NEW why \in Causes, Report(kind, why) PROVE RunTypeOK'
    BY <1>0, <1>11, <2>2, ReportEffect DEF Deliver, RunTypeOK, Causes
  <2>3. cp \in Outs /\ cp \in Causes
    BY <1>11 DEF Deliver, RunInv, InHand, Final, Outs, Causes
  <2> QED
    BY <1>11, <2>1, <2>2, <2>3 DEF Deliver, Outs, Causes
<1>12. CASE Gate
  <2>1. CASE UNCHANGED <<runMem, out, cause>>
    BY <1>0, <1>12, <2>1 DEF Gate, Report, RunTypeOK
  <2>2. ASSUME NEW kind \in Outs, NEW why \in Causes, Report(kind, why) PROVE RunTypeOK'
    BY <1>0, <1>12, <2>2, ReportEffect DEF Gate, RunTypeOK, Causes
  <2> QED
    BY <1>12, <2>1, <2>2 DEF Gate, Outs, Causes
<1>13. CASE Commit
  BY <1>0, <1>13 DEF Commit, RunTypeOK
<1>14. CASE PushRun
  <2>0. run \in Runs \union {NoRun} /\ "failed" \in Outs /\ "error" \in Causes
    BY <1>0 DEF RunTypeOK, LedgerType, run, Outs, Causes
  <2>1. CASE UNCHANGED <<runMem, out, cause>>
    <3>1. branch' \in [Issues -> Runs \union {NoRun}]
      BY <1>0, <1>14, <2>0 DEF PushRun, RunTypeOK
    <3> QED
      BY <1>0, <1>14, <2>1, <3>1 DEF PushRun, RunTypeOK, Report
  <2>2. CASE Report("failed", "error") /\ UNCHANGED branch
    BY <1>0, <1>14, <2>0, <2>2, ReportEffect DEF PushRun, RunTypeOK, Causes
  <2> QED
    BY <1>14, <2>1, <2>2 DEF PushRun
<1>15. CASE OpenPr
  <2>0. run \in Runs \union {NoRun} /\ "done" \in Outs /\ "done" \in Causes
    BY <1>0 DEF RunTypeOK, LedgerType, run, Outs, Causes
  <2>1. runPr' \in [Issues -> Runs \union {NoRun}]
    BY <1>0, <1>15, <2>0, Zenon DEF OpenPr, RunTypeOK
  <2> QED
    BY <1>0, <1>15, <2>0, <2>1, ReportEffect DEF OpenPr, RunTypeOK, Causes
<1>16. CASE CommentRun
  <2>1. claim' \in [Issues -> [run: Runs \union {NoRun}, age: 0..2]]
    BY <1>0, <1>16, NoClaimType, Zenon DEF CommentRun, RunTypeOK
  <2> QED
    BY <1>0, <1>16, <2>1 DEF CommentRun, RunTypeOK
<1>17. CASE Label
  <2>1. label' \in [Issues -> BOOLEAN]
    BY <1>0, <1>17, Zenon DEF Label, RunTypeOK
  <2> QED
    BY <1>0, <1>17, <2>1 DEF Label, RunTypeOK
<1>18. CASE Move
  <2>1. istate' \in [Issues -> States]
    BY <1>0, <1>18, Zenon DEF Move, RunTypeOK, States, ActiveStates
  <2>2. issue \in Issues /\ run \in Runs
    BY <1>0, <1>18 DEF Move, RunInv, InHand, RunTypeOK, LedgerType, Running, run, issue
  <2>3. [runMem EXCEPT !.failures[issue] = 0, !.prs = @ \union {run}] \in LedgerType
    BY <1>0, <2>2, LedgerUpdates DEF RunTypeOK
  <2> QED
    BY <1>0, <1>18, <2>1, <2>3 DEF Move, RunTypeOK
<1>19. CASE Cleanup
  BY <1>0, <1>19 DEF Cleanup, RunTypeOK
<1>20. CASE SaveRun
  BY <1>0, <1>20, LedgerUpdates DEF SaveRun, RunTypeOK
<1>21. CASE TickError
  <2>1. left' \in [crashes: 0..MaxRunCrashes, faults: 0..MaxRunFaults, edits: 0..MaxEdits]
    BY <1>0, <1>21, LoopRunnerAssumption DEF TickError, RunTypeOK
  <2>2. next' \in Runs \union {Cardinality(Runs) + 1}
    BY <1>0, <1>21, FreshId DEF TickError, RunTypeOK
  <2> QED
    BY <1>0, <1>21, <2>1, <2>2 DEF TickError, RunTypeOK
<1>22. CASE RunError
  <2>1. left' \in [crashes: 0..MaxRunCrashes, faults: 0..MaxRunFaults, edits: 0..MaxEdits]
    BY <1>0, <1>22, LoopRunnerAssumption DEF RunError, RunTypeOK
  <2>2. CASE UNCHANGED <<runMem, out, cause>> /\ Go("cleanup")
    BY <1>0, <1>22, <2>1, <2>2 DEF RunError, RunTypeOK
  <2>3. CASE Report("failed", "error")
    <3>1. "failed" \in Outs /\ "error" \in Causes
      BY DEF Outs, Causes
    <3> QED
      BY <1>0, <1>22, <2>1, <2>3, <3>1, ReportEffect DEF RunError, RunTypeOK, Causes
  <2> QED
    BY <1>22, <2>2, <2>3 DEF RunError
<1>23. CASE RunCrash
  <2>1. left' \in [crashes: 0..MaxRunCrashes, faults: 0..MaxRunFaults, edits: 0..MaxEdits]
    BY <1>0, <1>23, LoopRunnerAssumption DEF RunCrash, RunTypeOK
  <2>2. next' \in Runs \union {Cardinality(Runs) + 1}
    BY <1>0, <1>23, FreshId DEF RunCrash, RunTypeOK
  <2> QED
    BY <1>0, <1>23, <2>1, <2>2 DEF RunCrash, RunTypeOK
<1>24. ASSUME NEW i \in Issues, HumanMove(i) PROVE RunTypeOK'
  <2>1. left' \in [crashes: 0..MaxRunCrashes, faults: 0..MaxRunFaults, edits: 0..MaxEdits]
    BY <1>0, <1>24, LoopRunnerAssumption DEF HumanMove, Edit, RunTypeOK
  <2>2. istate' \in [Issues -> States]
    BY <1>0, <1>24 DEF HumanMove, RunTypeOK, States, ActiveStates
  <2>3. label' \in [Issues -> BOOLEAN]
    BY <1>0, <1>24 DEF HumanMove, RunTypeOK
  <2> QED
    BY <1>0, <1>24, <2>1, <2>2, <2>3 DEF HumanMove, RunTypeOK
<1>25. ASSUME NEW i \in Issues, HumanMerge(i) PROVE RunTypeOK'
  <2>1. left' \in [crashes: 0..MaxRunCrashes, faults: 0..MaxRunFaults, edits: 0..MaxEdits]
    BY <1>0, <1>25, LoopRunnerAssumption DEF HumanMerge, Edit, RunTypeOK
  <2>2. /\ branch' \in [Issues -> Runs \union {NoRun}]
        /\ runPr' \in [Issues -> Runs \union {NoRun}]
    BY <1>0, <1>25 DEF HumanMerge, RunTypeOK
  <2> QED
    BY <1>0, <1>25, <2>1, <2>2 DEF HumanMerge, RunTypeOK
<1>26. ASSUME NEW i \in Issues, ClaimAges(i) PROVE RunTypeOK'
  <2>1. claim' \in [Issues -> [run: Runs \union {NoRun}, age: 0..2]]
    BY <1>0, <1>26 DEF ClaimAges, RunTypeOK
  <2> QED
    BY <1>0, <1>26, <2>1 DEF ClaimAges, RunTypeOK
<1>27. CASE SetKill
  <2>1. left' \in [crashes: 0..MaxRunCrashes, faults: 0..MaxRunFaults, edits: 0..MaxEdits]
    BY <1>0, <1>27, LoopRunnerAssumption DEF SetKill, Edit, RunTypeOK
  <2> QED
    BY <1>0, <1>27, <2>1 DEF SetKill, RunTypeOK
<1>28. CASE ClearKill
  <2>1. kill' \in BOOLEAN
    BY <1>28, Zenon DEF ClearKill
  <2> QED
    BY <1>0, <1>28, <2>1 DEF ClearKill, RunTypeOK
<1> QED
  BY <1>1, <1>2, <1>3, <1>4, <1>5, <1>6, <1>7, <1>8, <1>9, <1>10, <1>11, <1>12, <1>13, <1>14,
     <1>15, <1>16, <1>17, <1>18, <1>19, <1>20, <1>21, <1>22, <1>23, <1>24, <1>25, <1>26, <1>27,
     <1>28 DEF RunNext, RunStep

-----------------------------------------------------------------------------
\* Memory and disk.

\* Every step preserves what memory and disk say of the run in hand.
LEMMA HandStep ==
  ASSUME RunInv, RunNext
  PROVE  InHand'
<1> USE DEF Go, runDisk, world, issue
<1>0. /\ InHand /\ runMem \in LedgerType /\ ledger \in LedgerType
      /\ runMem.issue \in Issues /\ runMem.count \in Int /\ ledger.count \in Int
  BY DEF RunInv, RunTypeOK, LedgerType
<1>1. CASE StartTick
  BY <1>0, <1>1 DEF StartTick, InHand, Running
<1>2. CASE Idle
  BY <1>0, <1>2 DEF Idle, InHand, Running
<1>3. ASSUME NEW i \in Issues, ClaimIssue(i) PROVE InHand'
  BY <1>0, <1>3 DEF ClaimIssue, InHand, Running, LedgerType
<1>4. CASE Transition
  BY <1>0, <1>4 DEF Transition, InHand, Running
<1>5. CASE CountRun
  <2>1. next # NoRun
    BY <1>5, FreshId DEF CountRun, Runs, NoRun
  <2>2. runMem'.active = next
    BY <1>0, <1>5 DEF CountRun, LedgerType
  <2> QED
    BY <1>5, <2>1, <2>2 DEF CountRun, InHand, Running
<1>6. CASE ResumeRun
  <2>1. CASE UNCHANGED <<ledger, runMem>> /\ Go("provision")
    BY <1>0, <1>6, <2>1 DEF ResumeRun, InHand, Running
  <2>2. CASE /\ runMem' = [runMem EXCEPT !.active = NoRun] /\ ledger' = runMem'
             /\ runPc' \in {"abandon", "off"}
    <3>1. runMem'.active = NoRun
      BY <1>0, <2>2 DEF LedgerType
    <3> QED
      BY <2>2, <3>1 DEF InHand, Running
  <2> QED
    BY <1>6, <2>1, <2>2 DEF ResumeRun
<1>7. CASE Abandon \/ Provision \/ Checkout \/ Commit
  BY <1>0, <1>7 DEF Abandon, Provision, Checkout, Commit, InHand, Running
<1>8. CASE ExecuteStep \/ ExecuteEnd
  BY <1>0, <1>8 DEF ExecuteStep, ExecuteEnd, InHand, Running, Final
<1>9. ASSUME runPc \in Running, UNCHANGED ledger,
             NEW kind \in Outs, NEW why \in Causes, Report(kind, why)
      PROVE  InHand'
  <2>1. RunTypeOK
    BY DEF RunInv
  <2> QED
    BY <1>0, <1>9, <2>1, ReportEffect DEF InHand, Running
<1>10. CASE Deliver
  <2>1. CASE UNCHANGED <<runMem, out, cause>> /\ Go("gate")
    BY <1>0, <1>10, <2>1 DEF Deliver, InHand, Running
  <2>2. cp \in Outs /\ cp \in Causes
    BY <1>0, <1>10 DEF Deliver, InHand, Final, Outs, Causes
  <2>3. runPc \in Running /\ UNCHANGED ledger
    BY <1>10 DEF Deliver, Running
  <2> QED
    BY <1>9, <1>10, <2>1, <2>2, <2>3 DEF Deliver, Outs, Causes
<1>11. CASE Gate
  <2>1. CASE UNCHANGED <<runMem, out, cause>> /\ Go("commit")
    BY <1>0, <1>11, <2>1 DEF Gate, InHand, Running
  <2>2. runPc \in Running /\ UNCHANGED ledger
    BY <1>11 DEF Gate, Running
  <2> QED
    BY <1>9, <1>11, <2>1, <2>2 DEF Gate, Outs, Causes
<1>12. CASE PushRun
  <2>1. CASE UNCHANGED <<runMem, out, cause>> /\ Go("open_pr")
    BY <1>0, <1>12, <2>1 DEF PushRun, InHand, Running
  <2>2. runPc \in Running /\ UNCHANGED ledger
    BY <1>12 DEF PushRun, Running
  <2> QED
    BY <1>9, <1>12, <2>1, <2>2 DEF PushRun, Outs, Causes
<1>13. CASE OpenPr
  <2>1. runPc \in Running /\ UNCHANGED ledger
    BY <1>13 DEF OpenPr, Running
  <2> QED
    BY <1>9, <1>13, <2>1 DEF OpenPr, Outs, Causes
<1>14. CASE CommentRun \/ Label \/ Cleanup
  BY <1>0, <1>14 DEF CommentRun, Label, Cleanup, InHand, Running
<1>15. CASE Move
  <2>1. /\ runMem'.active = runMem.active /\ runMem'.count = runMem.count
        /\ runMem'.issue = runMem.issue
        /\ \A i \in Issues \ {runMem.issue} : runMem'.failures[i] = runMem.failures[i]
    BY <1>0, <1>15 DEF Move, LedgerType
  <2> QED
    BY <1>0, <1>15, <2>1 DEF Move, InHand, Running
<1>16. CASE SaveRun
  BY <1>16 DEF SaveRun, InHand, Running
<1>17. CASE TickError \/ RunCrash
  BY <1>17 DEF TickError, RunCrash, InHand, Running
<1>18. CASE RunError
  <2>1. runPc \in Running /\ UNCHANGED ledger
    BY <1>18 DEF RunError, InRun, InReport, Running
  <2>2. CASE UNCHANGED <<runMem, out, cause>> /\ Go("cleanup")
    BY <1>0, <2>1, <2>2 DEF InHand, Running
  <2> QED
    BY <1>9, <1>18, <2>1, <2>2 DEF RunError, Outs, Causes
<1>19. CASE UNCHANGED <<ledger, runMem, runPc, cp>>
  BY <1>0, <1>19 DEF InHand
<1> QED
  BY <1>1, <1>2, <1>3, <1>4, <1>5, <1>6, <1>7, <1>8, <1>10, <1>11, <1>12, <1>13, <1>14, <1>15,
     <1>16, <1>17, <1>18, <1>19
     DEF RunNext, RunStep, HumanMove, HumanMerge, ClaimAges, SetKill, ClearKill

-----------------------------------------------------------------------------
\* The supply of run ids.

\* Every step keeps the run ids accounted for by counted runs, crashes and
\* failing calls.
LEMMA IdsStep ==
  ASSUME RunInv, RunNext
  PROVE  IdsInv'
<1> USE DEF Go, runDisk, world
<1>0. /\ IdsInv /\ InHand /\ next \in Nat /\ ledger.count \in Nat
      /\ left.crashes \in Nat /\ left.faults \in Nat
      /\ left \in [crashes: 0..MaxRunCrashes, faults: 0..MaxRunFaults, edits: 0..MaxEdits]
  BY LoopRunnerAssumption, RunsCounted DEF RunInv, RunTypeOK, LedgerType, Runs
<1>1. CASE CountRun
  <2>1. ledger'.count = ledger.count + 1
    BY <1>0, <1>1 DEF CountRun, InHand, RunInv, RunTypeOK, LedgerType
  <2> QED
    BY <1>0, <1>1, <2>1, LoopRunnerAssumption DEF CountRun, IdsInv
<1>2. CASE ResumeRun \/ SaveRun
  <2>1. ledger'.count = ledger.count
    BY <1>0, <1>2 DEF ResumeRun, SaveRun, InHand, Running, RunInv, RunTypeOK, LedgerType
  <2> QED
    BY <1>0, <1>2, <2>1 DEF ResumeRun, SaveRun, IdsInv
<1>3. CASE TickError \/ RunError
  <2>1. left'.faults = left.faults - 1 /\ left'.crashes = left.crashes
    BY <1>0, <1>3 DEF TickError, RunError
  <2>2. next' \in {next, next + 1} /\ ledger' = ledger
    BY <1>3 DEF TickError, RunError
  <2> QED
    BY <1>0, <2>1, <2>2, LoopRunnerAssumption DEF IdsInv
<1>4. CASE RunCrash
  <2>1. left'.crashes = left.crashes - 1 /\ left'.faults = left.faults
    BY <1>0, <1>4 DEF RunCrash
  <2>2. next' \in {next, next + 1} /\ ledger' = ledger
    BY <1>4 DEF RunCrash
  <2> QED
    BY <1>0, <2>1, <2>2, LoopRunnerAssumption DEF IdsInv
<1>5. CASE Edit /\ UNCHANGED <<ledger, next>>
  BY <1>0, <1>5 DEF Edit, IdsInv
<1>6. CASE UNCHANGED <<ledger, next, left>>
  BY <1>0, <1>6 DEF IdsInv
<1> QED
  BY <1>1, <1>2, <1>3, <1>4, <1>5, <1>6
     DEF RunNext, RunStep, HumanMove, HumanMerge, ClaimAges, SetKill, ClearKill, StartTick, Idle,
         ClaimIssue, Transition, Abandon, Provision, Checkout, ExecuteStep, ExecuteEnd, Deliver,
         Gate, Commit, PushRun, OpenPr, CommentRun, Label, Move, Cleanup

\* RunInv is an invariant of the loop.
THEOREM RunInvariant == RunSpec => []RunInv
<1>1. RunInit => RunInv
  <2> SUFFICES ASSUME RunInit PROVE RunInv
    OBVIOUS
  <2>1. RunTypeOK
    <3>1. ledger \in LedgerType /\ runMem \in LedgerType
      BY LoopRunnerAssumption DEF RunInit, LedgerType
    <3>2. next \in Runs
      BY LoopRunnerAssumption DEF RunInit, Runs
    <3>3. label \in [Issues -> BOOLEAN] /\ kill \in BOOLEAN
      BY Zenon DEF RunInit
    <3>4. /\ istate \in [Issues -> States]
          /\ claim \in [Issues -> [run: Runs \union {NoRun}, age: 0..2]]
          /\ branch \in [Issues -> Runs \union {NoRun}] /\ runPr \in [Issues -> Runs \union {NoRun}]
      BY NoClaimType DEF RunInit, States, ActiveStates
    <3>5. left \in [crashes: 0..MaxRunCrashes, faults: 0..MaxRunFaults, edits: 0..MaxEdits]
      BY LoopRunnerAssumption DEF RunInit
    <3> QED
      BY <3>1, <3>2, <3>3, <3>4, <3>5 DEF RunInit, RunTypeOK, RunPCs, Outs
  <2>2. InHand /\ IdsInv
    BY LoopRunnerAssumption DEF RunInit, InHand, IdsInv, Running
  <2> QED
    BY <2>1, <2>2 DEF RunInv
<1>2. RunInv /\ [RunNext]_runVars => RunInv'
  <2> SUFFICES ASSUME RunInv, [RunNext]_runVars PROVE RunInv'
    OBVIOUS
  <2>1. CASE RunNext
    BY <2>1, TypeStep, HandStep, IdsStep DEF RunInv
  <2>2. CASE UNCHANGED runVars
    BY <2>2 DEF RunInv, runVars, RunTypeOK, InHand, IdsInv, issue
  <2> QED
    BY <2>1, <2>2
<1> QED
  BY <1>1, <1>2, PTL DEF RunSpec

\* The loop runner keeps its types.
THEOREM RunTypeCorrect == RunSpec => []RunTypeOK
<1>1. RunInv => RunTypeOK
  BY DEF RunInv
<1> QED
  BY <1>1, RunInvariant, PTL

-----------------------------------------------------------------------------
\* The daily quota.

\* Only count_run adds to the counted runs, and it raises the count with them.
LEMMA QuotaStep ==
  ASSUME RunInv, QuotaInv, RunNext
  PROVE  QuotaInv'
<1> USE DEF Go, runDisk, world
<1>0. /\ InHand /\ ledger \in LedgerType /\ runMem \in LedgerType /\ executed \subseteq Runs
      /\ ledger.count \in Nat
  BY LoopRunnerAssumption DEF RunInv, RunTypeOK, LedgerType
<1>1. IsFiniteSet(Counted) /\ Cardinality(Counted) \in Nat
  <2>1. Counted \subseteq Runs
    BY <1>0 DEF Counted, LedgerType
  <2> QED
    BY <2>1, RunsCounted, FS_Subset, FS_CardinalityType
<1>2. CASE CountRun
  <2>1. /\ ledger'.count = ledger.count + 1 /\ ledger'.active = next /\ executed' = executed
        /\ ledger.active = NoRun
    BY <1>0, <1>2 DEF CountRun, InHand, LedgerType
  <2>2. next # NoRun
    BY <1>2, FreshId DEF CountRun, Runs, NoRun
  <2>3. Counted' = Counted \union {next}
    BY <2>1, <2>2 DEF Counted
  <2>4. Cardinality(Counted') \in {Cardinality(Counted), Cardinality(Counted) + 1}
    <3>1. Cardinality(Counted \union {next}) =
            IF next \in Counted THEN Cardinality(Counted) ELSE Cardinality(Counted) + 1
      BY <1>1, FS_AddElement, Zenon
    <3> QED
      BY <2>3, <3>1
  <2> QED
    BY <1>0, <1>1, <2>1, <2>4 DEF QuotaInv
<1>3. CASE ResumeRun \/ SaveRun
  <2>1. /\ ledger'.count = ledger.count /\ ledger'.active \in {ledger.active, NoRun}
        /\ executed' = executed
    BY <1>0, <1>3 DEF ResumeRun, SaveRun, InHand, Running, LedgerType
  <2>2. Counted' \subseteq Counted
    BY <2>1 DEF Counted
  <2>3. Cardinality(Counted') <= Cardinality(Counted) /\ Cardinality(Counted') \in Nat
    BY <1>1, <2>2, FS_Subset, FS_CardinalityType
  <2> QED
    BY <1>0, <1>1, <2>1, <2>3 DEF QuotaInv
<1>4. CASE ExecuteStep \/ ExecuteEnd
  <2>1. Counted' = Counted /\ ledger' = ledger
    BY <1>0, <1>4 DEF ExecuteStep, ExecuteEnd, InHand, Running, Counted, run
  <2> QED
    BY <2>1 DEF QuotaInv
<1>5. CASE UNCHANGED <<ledger, executed>>
  BY <1>5 DEF QuotaInv, Counted
<1> QED
  BY <1>2, <1>3, <1>4, <1>5
     DEF RunNext, RunStep, HumanMove, HumanMerge, ClaimAges, SetKill, ClearKill, StartTick, Idle,
         ClaimIssue, Transition, Abandon, Provision, Checkout, Deliver, Gate, Commit, PushRun,
         OpenPr, CommentRun, Label, Move, Cleanup, TickError, RunError, RunCrash

\* The agent is never started for more runs than the daily quota allows,
\* whatever crashes and resumes there are.
THEOREM QuotaIsKept == RunSpec => []QuotaHolds
<1>1. RunInit => QuotaInv
  <2> SUFFICES ASSUME RunInit PROVE QuotaInv
    OBVIOUS
  <2>1. Counted = {} /\ ledger.count = 0
    BY DEF RunInit, Counted
  <2> QED
    BY <2>1, FS_EmptySet DEF QuotaInv
<1>2. RunInv /\ QuotaInv /\ [RunNext]_runVars => QuotaInv'
  BY QuotaStep DEF QuotaInv, Counted, runVars
<1>3. RunInv /\ QuotaInv => QuotaHolds
  <2> SUFFICES ASSUME RunInv, QuotaInv PROVE QuotaHolds
    OBVIOUS
  <2>1. /\ executed \subseteq Counted /\ Counted \subseteq Runs
        /\ ledger.count \in 0..MaxRunsPerDay
    BY DEF RunInv, RunTypeOK, LedgerType, Counted
  <2>2. IsFiniteSet(Counted)
    BY <2>1, RunsCounted, FS_Subset
  <2>3. /\ Cardinality(executed) \in Nat /\ Cardinality(Counted) \in Nat
        /\ Cardinality(executed) <= Cardinality(Counted)
    BY <2>1, <2>2, FS_Subset, FS_CardinalityType
  <2> QED
    BY <2>1, <2>3, LoopRunnerAssumption DEF QuotaInv, QuotaHolds
<1> QED
  BY <1>1, <1>2, <1>3, RunInvariant, PTL DEF RunSpec

-----------------------------------------------------------------------------
\* The failure limit.

\* An issue whose failures reached the limit has the label, when they are saved
\* at the latest.
LEMMA LabelStep ==
  ASSUME RunInv, LabelInv, RunNext, left'.faults = MaxRunFaults, left'.edits = MaxEdits
  PROVE  LabelInv'
<1> USE DEF Go, runDisk, world
<1>0. /\ InHand /\ ledger \in LedgerType /\ runMem \in LedgerType
      /\ label \in [Issues -> BOOLEAN] /\ issue \in Issues
      /\ left \in [crashes: 0..MaxRunCrashes, faults: 0..MaxRunFaults, edits: 0..MaxEdits]
      /\ left.faults \in 0..MaxRunFaults /\ left.edits \in 0..MaxEdits
      /\ ledger.failures \in [Issues -> Nat] /\ runMem.failures \in [Issues -> Nat]
  BY DEF RunInv, RunTypeOK, LedgerType, issue
<1>1. ~TickError /\ ~RunError
  <2>1. left'.faults # left.faults - 1
    BY <1>0, LoopRunnerAssumption
  <2> QED
    BY <1>0, <2>1 DEF TickError, RunError
<1>2. ~Edit
  <2>1. left'.edits # left.edits - 1
    BY <1>0, LoopRunnerAssumption
  <2> QED
    BY <1>0, <2>1 DEF Edit
<1>3. left.faults = MaxRunFaults /\ left.edits = MaxEdits
  <2>1. CASE RunCrash
    BY <1>0, <2>1 DEF RunCrash
  <2>2. CASE UNCHANGED left
    BY <2>2
  <2> QED
    BY <1>1, <1>2, <2>1, <2>2
       DEF RunNext, RunStep, HumanMove, HumanMerge, ClaimAges, SetKill, ClearKill, StartTick,
           Idle, ClaimIssue, Transition, CountRun, ResumeRun, Abandon, Provision, Checkout,
           ExecuteStep, ExecuteEnd, Deliver, Gate, Commit, PushRun, OpenPr, CommentRun, Label,
           Move, Cleanup, SaveRun
<1>4. /\ \A i \in Issues : ledger.failures[i] >= MaxFailures => label[i]
      /\ runPc = "move" /\ out # "done" /\ runMem.failures[issue] >= MaxFailures => label[issue]
      /\ runPc \in {"cleanup", "save"} /\ runMem.failures[issue] >= MaxFailures => label[issue]
  BY <1>3 DEF LabelInv
<1>5. CASE Label
  <2>1. \A i \in Issues : label[i] => label'[i]
    BY <1>0, <1>5 DEF Label
  <2>2. out # "done" /\ runMem.failures[issue] >= MaxFailures => label'[issue]
    BY <1>0, <1>5 DEF Label
  <2> QED
    BY <1>4, <1>5, <2>1, <2>2 DEF Label, LabelInv, issue
<1>6. CASE Move
  <2>1. CASE out = "done"
    <3>1. runMem'.failures[issue] = 0 /\ runMem'.issue = runMem.issue
      BY <1>0, <1>6, <2>1 DEF Move, LedgerType, issue
    <3> QED
      BY <1>4, <1>6, <3>1, LoopRunnerAssumption DEF Move, LabelInv, issue
  <2>2. CASE out # "done"
    BY <1>4, <1>6, <2>2 DEF Move, LabelInv, issue
  <2> QED
    BY <2>1, <2>2
<1>7. CASE Cleanup
  BY <1>4, <1>7 DEF Cleanup, LabelInv, issue
<1>8. CASE SaveRun
  <2>1. ledger'.failures = runMem.failures /\ runPc' = "off" /\ label' = label
    BY <1>0, <1>8 DEF SaveRun, LedgerType
  <2>2. \A i \in Issues \ {issue} : runMem.failures[i] = ledger.failures[i]
    BY <1>0, <1>8 DEF SaveRun, InHand, Running
  <2>3. \A i \in Issues : ledger'.failures[i] >= MaxFailures => label[i]
    BY <1>0, <1>4, <1>8, <2>1, <2>2 DEF SaveRun
  <2> QED
    BY <2>1, <2>3 DEF LabelInv
<1>9. CASE CountRun \/ ResumeRun
  <2>1. ledger'.failures = ledger.failures /\ runPc' \in {"provision", "abandon", "off"}
        /\ label' = label
    BY <1>0, <1>9, ZenonT(60) DEF CountRun, ResumeRun, InHand, LedgerType
  <2> QED
    BY <1>4, <2>1 DEF LabelInv
<1>10. CASE /\ UNCHANGED <<ledger, label>> /\ runPc' \notin {"move", "cleanup", "save"}
  BY <1>4, <1>10 DEF LabelInv
<1>11. CASE UNCHANGED <<ledger, label, runMem, out, runPc>>
  BY <1>4, <1>11 DEF LabelInv, issue
<1>12. CASE RunStep
  BY <1>5, <1>6, <1>7, <1>8, <1>9, <1>10, <1>11, <1>12
     DEF RunStep, StartTick, Idle, ClaimIssue, Transition, Abandon, Provision, Checkout,
         ExecuteStep, ExecuteEnd, Deliver, Gate, Report, Commit, PushRun, OpenPr, CommentRun
<1> QED
  BY <1>1, <1>2, <1>10, <1>11, <1>12
     DEF RunNext, RunCrash, HumanMove, HumanMerge, ClaimAges, SetKill, ClearKill

\* Once its saved failures reach the limit an issue is not picked again, unless
\* somebody edits it or a call of the write-back fails.
THEOREM FailureLimitStops == RunSpec => []FailureLimitStopsPicking
<1>1. RunInit => LabelInv
  BY LoopRunnerAssumption DEF RunInit, LabelInv
<1>2. RunInv /\ LabelInv /\ [RunNext]_runVars => LabelInv'
  <2> SUFFICES ASSUME RunInv, LabelInv, [RunNext]_runVars,
                      left'.faults = MaxRunFaults, left'.edits = MaxEdits
               PROVE  LabelInv'
    BY DEF LabelInv
  <2>1. CASE RunNext
    BY <2>1, LabelStep
  <2>2. CASE UNCHANGED runVars
    BY <2>2 DEF LabelInv, runVars, issue
  <2> QED
    BY <2>1, <2>2
<1>3. RunInv /\ LabelInv => FailureLimitStopsPicking
  <2> SUFFICES ASSUME RunInv, LabelInv, left.faults = MaxRunFaults, left.edits = MaxEdits,
                      NEW i \in Issues, ~label[i]
               PROVE  ledger.failures[i] < MaxFailures
    BY DEF FailureLimitStopsPicking, Eligible
  <2>1. ledger.failures[i] \in Nat
    BY DEF RunInv, RunTypeOK, LedgerType
  <2> QED
    BY <2>1, LoopRunnerAssumption DEF LabelInv
<1> QED
  BY <1>1, <1>2, <1>3, RunInvariant, PTL DEF RunSpec

-----------------------------------------------------------------------------
\* The release of claims.

\* Without a failing call or a crash a claim lives from the claim comment to the
\* terminal comment of its run.
LEMMA ClaimStep ==
  ASSUME RunInv, ClaimHeld, RunNext, ~TickError, ~RunError, ~RunCrash
  PROVE  ClaimHeld'
<1> USE DEF Go, runDisk, world, issue, run
<1>0. /\ InHand /\ ledger \in LedgerType /\ runMem \in LedgerType /\ runMem.issue \in Issues
      /\ claim \in [Issues -> [run: Runs \union {NoRun}, age: 0..2]]
  BY DEF RunInv, RunTypeOK, LedgerType
<1>1. CASE StartTick
  BY <1>0, <1>1 DEF StartTick, ClaimHeld, Holding, Running
<1>2. CASE Idle
  BY <1>0, <1>2 DEF Idle, ClaimHeld, Holding, Running
<1>3. ASSUME NEW i \in Issues, ClaimIssue(i) PROVE ClaimHeld'
  <2>1. runMem'.issue = i /\ claim'[i].run = next
    BY <1>0, <1>3 DEF ClaimIssue, LedgerType
  <2>2. \A j \in Issues \ {i} : claim'[j].run = NoRun
    BY <1>0, <1>3 DEF ClaimIssue, ClaimHeld, Holding, Running
  <2> QED
    BY <1>3, <2>1, <2>2 DEF ClaimIssue, ClaimHeld, Holding, Running
<1>4. CASE Transition
  BY <1>0, <1>4 DEF Transition, ClaimHeld, Holding, Running
<1>5. CASE CountRun
  <2>1. runMem'.active = next /\ runMem'.issue = runMem.issue
    BY <1>0, <1>5 DEF CountRun, LedgerType
  <2> QED
    BY <1>5, <2>1 DEF CountRun, ClaimHeld, Holding, Running
<1>6. ~ResumeRun /\ ~Abandon
  BY DEF ClaimHeld, ResumeRun, Abandon
<1>7. CASE Provision \/ Checkout \/ Commit
  BY <1>7 DEF Provision, Checkout, Commit, ClaimHeld, Holding, Running
<1>8. CASE ExecuteStep \/ ExecuteEnd
  BY <1>8 DEF ExecuteStep, ExecuteEnd, ClaimHeld, Holding, Running
<1>9. ASSUME runPc \in Holding \ {"claimed", "count"}, UNCHANGED <<claim, ledger>>,
             NEW kind \in Outs, NEW why \in Causes, Report(kind, why)
      PROVE  ClaimHeld'
  <2>1. runMem'.active = runMem.active /\ runMem'.issue = runMem.issue /\ runPc' = "comment"
    BY <1>9, ReportEffect DEF RunInv
  <2> QED
    BY <1>9, <2>1 DEF ClaimHeld, Holding, Running
<1>10. CASE Deliver
  <2>1. CASE UNCHANGED <<runMem, out, cause>> /\ Go("gate")
    BY <1>10, <2>1 DEF Deliver, ClaimHeld, Holding, Running
  <2>2. cp \in Outs /\ cp \in Causes
    BY <1>0, <1>10 DEF Deliver, InHand, Final, Outs, Causes
  <2>3. runPc \in Holding \ {"claimed", "count"} /\ UNCHANGED <<claim, ledger>>
    BY <1>10 DEF Deliver, Holding, Running
  <2> QED
    BY <1>9, <1>10, <2>1, <2>2, <2>3 DEF Deliver, Outs, Causes
<1>11. CASE Gate
  <2>1. CASE UNCHANGED <<runMem, out, cause>> /\ Go("commit")
    BY <1>11, <2>1 DEF Gate, ClaimHeld, Holding, Running
  <2>2. runPc \in Holding \ {"claimed", "count"} /\ UNCHANGED <<claim, ledger>>
    BY <1>11 DEF Gate, Holding, Running
  <2> QED
    BY <1>9, <1>11, <2>1, <2>2 DEF Gate, Outs, Causes
<1>12. CASE PushRun
  <2>1. CASE UNCHANGED <<runMem, out, cause>> /\ Go("open_pr")
    BY <1>12, <2>1 DEF PushRun, ClaimHeld, Holding, Running
  <2>2. runPc \in Holding \ {"claimed", "count"} /\ UNCHANGED <<claim, ledger>>
    BY <1>12 DEF PushRun, Holding, Running
  <2> QED
    BY <1>9, <1>12, <2>1, <2>2 DEF PushRun, Outs, Causes
<1>13. CASE OpenPr
  <2>1. runPc \in Holding \ {"claimed", "count"} /\ UNCHANGED <<claim, ledger>>
    BY <1>13 DEF OpenPr, Holding, Running
  <2> QED
    BY <1>9, <1>13, <2>1 DEF OpenPr, Outs, Causes
<1>14. CASE CommentRun
  <2>1. claim[runMem.issue].run = runMem.active
    BY <1>14 DEF CommentRun, ClaimHeld, Holding, Running
  <2>2. claim'[runMem.issue].run = NoRun
    BY <1>0, <1>14, <2>1 DEF CommentRun, NoClaim
  <2>3. \A i \in Issues \ {runMem.issue} : claim'[i].run = NoRun
    BY <1>0, <1>14 DEF CommentRun, ClaimHeld
  <2> QED
    BY <1>14, <2>2, <2>3 DEF CommentRun, ClaimHeld, Holding, Running
<1>15. CASE Label \/ Move \/ Cleanup
  BY <1>15 DEF Label, Move, Cleanup, ClaimHeld, Holding, Running
<1>16. CASE SaveRun
  <2>1. ledger'.active = NoRun
    BY <1>0, <1>16 DEF SaveRun, LedgerType
  <2> QED
    BY <1>16, <2>1 DEF SaveRun, ClaimHeld, Holding, Running
<1>17. ASSUME NEW i \in Issues, ClaimAges(i) PROVE ClaimHeld'
  <2>1. \A j \in Issues : claim'[j].run = claim[j].run
    BY <1>0, <1>17 DEF ClaimAges
  <2> QED
    BY <1>0, <1>17, <2>1 DEF ClaimAges, ClaimHeld
<1>18. CASE UNCHANGED <<ledger, runMem, runPc, claim, next>>
  BY <1>18 DEF ClaimHeld
<1> QED
  BY <1>1, <1>2, <1>3, <1>4, <1>5, <1>6, <1>7, <1>8, <1>10, <1>11, <1>12, <1>13, <1>14, <1>15,
     <1>16, <1>17, <1>18
     DEF RunNext, RunStep, HumanMove, HumanMerge, SetKill, ClearKill

\* Without a crash or a failing call a finished tick leaves no claim behind,
\* whatever people edit meanwhile and however the run ended.
THEOREM ClaimsAreReleased == RunSpec => []FinishedRunsReleaseTheirClaim
<1>1. RunInit => ClaimInv
  BY DEF RunInit, ClaimInv, ClaimHeld, Holding, Running, NoClaim
<1>2. RunInv /\ ClaimInv /\ [RunNext]_runVars => ClaimInv'
  <2> SUFFICES ASSUME RunInv, ClaimInv, [RunNext]_runVars,
                      left'.faults = MaxRunFaults, left'.crashes = MaxRunCrashes
               PROVE  ClaimHeld'
    BY DEF ClaimInv
  <2>0. left \in [crashes: 0..MaxRunCrashes, faults: 0..MaxRunFaults, edits: 0..MaxEdits]
    BY DEF RunInv, RunTypeOK
  <2>1. ~TickError /\ ~RunError
    <3>1. left'.faults # left.faults - 1
      BY <2>0, LoopRunnerAssumption
    <3> QED
      BY <2>0, <3>1 DEF TickError, RunError
  <2>2. ~RunCrash
    <3>1. left'.crashes # left.crashes - 1
      BY <2>0, LoopRunnerAssumption
    <3> QED
      BY <2>0, <3>1 DEF RunCrash
  <2>3. CASE RunNext
    <3>1. left.faults = MaxRunFaults /\ left.crashes = MaxRunCrashes
      <4>1. CASE Edit
        BY <2>0, <4>1 DEF Edit
      <4>2. CASE UNCHANGED left
        BY <4>2
      <4> QED
        BY <2>1, <2>2, <2>3, <4>1, <4>2
           DEF RunNext, RunStep, HumanMove, HumanMerge, ClaimAges, SetKill, ClearKill, StartTick,
               Idle, ClaimIssue, Transition, CountRun, ResumeRun, Abandon, Provision, Checkout,
               ExecuteStep, ExecuteEnd, Deliver, Gate, Commit, PushRun, OpenPr, CommentRun,
               Label, Move, Cleanup, SaveRun
    <3> QED
      BY <2>1, <2>2, <2>3, <3>1, ClaimStep DEF ClaimInv
  <2>4. CASE UNCHANGED runVars
    BY <2>4 DEF ClaimInv, ClaimHeld, runVars, issue, run
  <2> QED
    BY <2>3, <2>4
<1>3. ClaimInv => FinishedRunsReleaseTheirClaim
  BY DEF ClaimInv, ClaimHeld, Holding, Running, FinishedRunsReleaseTheirClaim
<1> QED
  BY <1>1, <1>2, <1>3, RunInvariant, PTL DEF RunSpec
=============================================================================
