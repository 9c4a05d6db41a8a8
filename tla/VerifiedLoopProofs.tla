------------------------- MODULE VerifiedLoopProofs -------------------------
(***************************************************************************)
(* Proofs, for every budget, answer length and number of crashes, of what  *)
(* the verified loop promises, and that it implements RunOutcome (safety). *)
(***************************************************************************)
EXTENDS VerifiedLoop, SequenceTheorems, TLAPS

\* Where the saved and the live state agree, and which runs are still open.
Sync ==
    /\ pc \notin {"off", "ended"} => cp.final = "none" /\ mem.final = "none"
    /\ pc \in {"guard", "ended"} => mem = cp
    /\ pc \in {"policy", "verify"} => calls # <<>>
    /\ pc \in {"off", "guard", "ended"} => calls = <<>>
    /\ Len(calls) <= MaxCalls

\* The inductive invariant of the safety theorems.
IInv == TypeOK /\ Sync /\ DoneIsVerified

\* The rest of an answer is a shorter sequence of calls.
LEMMA TailCalls ==
    ASSUME calls \in Seq(CallKinds), calls # <<>>
    PROVE  /\ Tail(calls) \in Seq(CallKinds) /\ Head(calls) \in CallKinds
           /\ Len(Tail(calls)) = Len(calls) - 1 /\ Len(calls) \in Nat \ {0}
  BY HeadTailProperties, EmptySeq, LenProperties

\* A model answer is a sequence of at most MaxCalls calls.
LEMMA AnswerIsSeq ==
    ASSUME NEW answer \in Answers
    PROVE  answer \in Seq(CallKinds) /\ Len(answer) \in 0..MaxCalls
<1>1. PICK n \in 0..MaxCalls : answer \in [1..n -> CallKinds]
  BY DEF Answers
<1>2. n \in Nat
  BY VerifiedLoopAssumption
<1>3. answer \in Seq(CallKinds)
  BY <1>1, <1>2, SeqDef
<1>4. Len(answer) = n
  BY <1>1, <1>2, <1>3, LenProperties
<1> QED BY <1>3, <1>4

\* The fields of a loop state.
LEMMA StateFields ==
    ASSUME NEW state \in LoopState
    PROVE  /\ state.tokens \in Nat /\ state.steps \in 0..MaxSteps
           /\ state.actions \in 0..MaxActions /\ state.fails \in [Workspaces -> Nat]
           /\ state.steps \in Nat /\ state.actions \in Nat
  BY VerifiedLoopAssumption DEF LoopState

\* Charging tokens keeps the loop state typed and its end state as it was.
LEMMA SetTokens ==
    ASSUME NEW state \in LoopState, NEW n \in Nat
    PROVE  /\ [state EXCEPT !.tokens = n] \in LoopState
           /\ [state EXCEPT !.tokens = n].final = state.final
  BY DEF LoopState

\* So does counting a step with its tokens.
LEMMA SetStepsTokens ==
    ASSUME NEW state \in LoopState, NEW m \in 0..MaxSteps, NEW n \in Nat
    PROVE  /\ [state EXCEPT !.steps = m, !.tokens = n] \in LoopState
           /\ [state EXCEPT !.steps = m, !.tokens = n].final = state.final
  BY Zenon DEF LoopState

\* So does counting an action.
LEMMA SetActions ==
    ASSUME NEW state \in LoopState, NEW n \in 0..MaxActions
    PROVE  /\ [state EXCEPT !.actions = n] \in LoopState
           /\ [state EXCEPT !.actions = n].final = state.final
  BY DEF LoopState

\* So does counting an identical failing call.
LEMMA SetFails ==
    ASSUME NEW state \in LoopState, NEW f \in [Workspaces -> Nat]
    PROVE  /\ [state EXCEPT !.fails = f] \in LoopState
           /\ [state EXCEPT !.fails = f].final = state.final
  BY DEF LoopState

\* The usage figures stay well typed.
LEMMA UsageFields ==
    ASSUME NEW u \in Usage, NEW n \in Nat
    PROVE  /\ [u EXCEPT !.steps = @ + 1, !.tokens = @ + n] \in Usage
           /\ [u EXCEPT !.tokens = @ + n] \in Usage
           /\ [u EXCEPT !.actions = @ + 1] \in Usage
<1>1. u.steps + 1 \in Nat /\ u.tokens + n \in Nat /\ u.actions + 1 \in Nat
  BY DEF Usage
<1>2. ASSUME NEW i \in Nat, NEW j \in Nat
      PROVE  /\ [u EXCEPT !.steps = i, !.tokens = j] \in Usage
             /\ [u EXCEPT !.tokens = j] \in Usage
             /\ [u EXCEPT !.actions = i] \in Usage
  BY Zenon DEF Usage
<1> QED BY <1>1, <1>2

\* What _finish leaves is well typed, in step with the checkpoint, and ended.
LEMMA FinishLemma ==
    ASSUME NEW state \in LoopState, NEW end \in Ends \ {"none"}, Finish(state, end)
    PROVE  /\ mem' \in LoopState /\ cp' = mem' /\ cp'.final = end
           /\ cp'.plan = state.plan /\ cp'.steps = state.steps /\ cp'.actions = state.actions
           /\ cp'.tokens = state.tokens
           /\ pc' = "ended" /\ calls' = <<>> /\ calls' \in Seq(CallKinds) /\ Sync'
<1>1. /\ mem' \in LoopState /\ cp' = mem' /\ cp'.final = end
      /\ cp'.plan = state.plan /\ cp'.steps = state.steps /\ cp'.actions = state.actions
      /\ cp'.tokens = state.tokens /\ pc' = "ended" /\ calls' = <<>>
  BY DEF Finish, LoopState, Ends
<1>2. calls' \in Seq(CallKinds) /\ Len(calls') = 0
  BY <1>1, EmptySeq
<1> QED BY <1>1, <1>2, VerifiedLoopAssumption DEF Sync

\* What going on with the next call leaves.
LEMMA ContinueLemma ==
    ASSUME TypeOK, Sync, NEW state \in LoopState, Continue(state), calls # <<>>,
           pc \in {"dispatch", "policy", "verify"}, state.final = "none"
    PROVE  /\ mem' \in LoopState /\ cp' = cp /\ pc' = "dispatch"
           /\ calls' \in Seq(CallKinds) /\ Len(calls') = Len(calls) - 1 /\ Sync'
<1>1. mem' = state /\ cp' = cp /\ pc' = "dispatch" /\ calls' = Tail(calls)
  BY DEF Continue
<1>2. /\ Tail(calls) \in Seq(CallKinds) /\ Len(Tail(calls)) = Len(calls) - 1
      /\ Len(calls) \in Nat
  BY TailCalls DEF TypeOK
<1> QED BY <1>1, <1>2, VerifiedLoopAssumption DEF Sync

\* The initial state satisfies the invariant.
LEMMA InitIInv == Init => IInv
<1> SUFFICES ASSUME Init PROVE IInv
  OBVIOUS
<1>1. Fresh \in LoopState
  BY VerifiedLoopAssumption DEF Fresh, LoopState, Ends
<1>2. calls \in Seq(CallKinds) /\ Len(calls) = 0
  BY EmptySeq DEF Init
<1>3. cp.final = "none"
  BY DEF Init, Fresh
<1>4. spent \in Usage
  BY DEF Init, Usage
<1>5. crashes \in 0..MaxCrashes
  BY VerifiedLoopAssumption DEF Init
<1>8. stop \in BOOLEAN
  BY Zenon DEF Init
<1>6. TypeOK
  BY <1>1, <1>2, <1>4, <1>5, <1>8 DEF Init, TypeOK
<1>7. Sync /\ DoneIsVerified
  BY <1>2, <1>3, VerifiedLoopAssumption DEF Init, Sync, DoneIsVerified
<1> QED BY <1>6, <1>7 DEF IInv

\* The invariant is preserved by every step.
LEMMA NextIInv == IInv /\ [Next]_vars => IInv'
<1> SUFFICES ASSUME TypeOK, Sync, DoneIsVerified, [Next]_vars
             PROVE  TypeOK' /\ Sync' /\ DoneIsVerified'
  BY DEF IInv
<1> USE VerifiedLoopAssumption
<1>a. mem \in LoopState /\ cp \in LoopState
  BY DEF TypeOK
<1>1. CASE Begin
  <2>1. CASE cp.final # "none"
    BY <1>1, <2>1 DEF Begin, TypeOK, Sync, DoneIsVerified
  <2>2. CASE cp.final = "none"
    <3>1. /\ mem' \in LoopState /\ cp' = mem' /\ mem'.final = "none" /\ pc' = "guard"
          /\ UNCHANGED <<calls, ws, stop, spent, crashes>>
      BY <1>1, <1>a, <2>2, ZenonT(60) DEF Begin, LoopState
    <3> QED BY <1>1, <3>1 DEF Begin, TypeOK, Sync, DoneIsVerified
  <2> QED BY <2>1, <2>2
<1>2. ASSUME NEW end \in {"blocked", "stopped"}, NEW state \in LoopState, Finish(state, end),
             UNCHANGED <<ws, stop, crashes>>, spent' \in Usage
      PROVE  TypeOK' /\ Sync' /\ DoneIsVerified'
  <2>1. /\ mem' \in LoopState /\ cp' = mem' /\ cp'.final = end /\ pc' = "ended"
        /\ calls' \in Seq(CallKinds) /\ Sync'
    BY <1>2, FinishLemma DEF Ends
  <2> QED BY <1>2, <2>1 DEF TypeOK, DoneIsVerified
<1>3. ASSUME NEW state \in LoopState, Continue(state), calls # <<>>, state.final = "none",
             pc \in {"dispatch", "policy", "verify"}, UNCHANGED <<ws, stop, crashes>>, spent' \in Usage
      PROVE  TypeOK' /\ Sync' /\ DoneIsVerified'
  <2>1. /\ mem' \in LoopState /\ cp' = cp /\ pc' = "dispatch"
        /\ calls' \in Seq(CallKinds) /\ Sync'
    BY <1>3, ContinueLemma
  <2> QED BY <1>3, <2>1 DEF TypeOK, DoneIsVerified
<1>b. spent \in Usage /\ WithPlan \in LoopState /\ WithPlan.final = mem.final
  BY <1>a, Zenon DEF WithPlan, LoopState, TypeOK
<1>4. CASE StopBeforeCall \/ ProviderDown \/ ReportBlocker \/ StopBeforeAction \/ VerifyCannotRun
  <2>1. \E end \in {"blocked", "stopped"}, state \in LoopState :
           Finish(state, end) /\ UNCHANGED <<ws, stop, spent, crashes>>
    BY <1>4, <1>a, <1>b DEF StopBeforeCall, ProviderDown, ReportBlocker, StopBeforeAction, VerifyCannotRun
  <2> QED BY <1>2, <1>b, <2>1
<1>5. CASE CallModel
  <2>1. PICK cost \in 1..CallCost, answer \in Answers :
           /\ mem' = [mem EXCEPT !.steps = @ + 1, !.tokens = @ + cost]
           /\ spent' = [spent EXCEPT !.steps = @ + 1, !.tokens = @ + cost]
           /\ calls' = answer
    BY <1>5 DEF CallModel
  <2>2. mem.steps < MaxSteps /\ mem.final = "none" /\ cp.final = "none"
    BY <1>5, <1>a DEF CallModel, MustStop, Sync, LoopState
  <2>3. mem' \in LoopState /\ mem'.final = "none" /\ spent' \in Usage
    <3>1. mem.steps + 1 \in 0..MaxSteps /\ mem.tokens + cost \in Nat
      BY <1>a, <2>2, StateFields
    <3>2. mem' \in LoopState /\ mem'.final = "none"
      BY <1>a, <2>1, <2>2, <3>1, SetStepsTokens
    <3>3. spent' \in Usage
      <4>1. cost \in Nat
        OBVIOUS
      <4> QED BY <1>b, <2>1, <4>1, UsageFields
    <3> QED BY <3>2, <3>3
  <2>4. calls' \in Seq(CallKinds) /\ Len(calls') <= MaxCalls
    BY <2>1, AnswerIsSeq
  <2> QED BY <1>5, <2>2, <2>3, <2>4 DEF CallModel, TypeOK, Sync, DoneIsVerified
<1>6. CASE RecordPlan \/ Skip
  <2>1. /\ pc = "dispatch" /\ calls # <<>> /\ mem.final = "none"
        /\ UNCHANGED <<ws, stop, spent, crashes>>
    BY <1>6 DEF RecordPlan, Skip, Dispatching, Sync
  <2>2. [mem EXCEPT !.plan = TRUE] \in LoopState /\ [mem EXCEPT !.plan = TRUE].final = mem.final
    BY <1>a, Zenon DEF LoopState
  <2>3. \E state \in LoopState : Continue(state) /\ state.final = "none"
    BY <1>6, <1>a, <2>1, <2>2, Zenon DEF RecordPlan, Skip
  <2> QED BY <1>3, <1>b, <2>1, <2>3
<1>7. CASE RunTool
  <2>1. WithPlan.actions < MaxActions /\ WithPlan.actions = mem.actions
    BY <1>7, <1>a DEF RunTool, MayAct, WithPlan, LoopState
  <2>2. mem' \in LoopState /\ mem'.final = "none"
    <3>1. WithPlan.actions + 1 \in 0..MaxActions /\ WithPlan.final = "none"
      BY <1>7, <1>b, <2>1, StateFields, SMTT(30) DEF RunTool, Acting, Dispatching, Sync
    <3>2. mem' = [WithPlan EXCEPT !.actions = WithPlan.actions + 1]
      BY <1>7 DEF RunTool
    <3> QED BY <1>b, <3>1, <3>2, SetActions
  <2>3. spent' \in Usage
    BY <1>7, <1>b, UsageFields DEF RunTool
  <2> QED BY <1>7, <2>2, <2>3 DEF RunTool, Acting, Dispatching, TypeOK, Sync, DoneIsVerified
<1>8. CASE CheckBudgetPolicy
  <2>1. /\ pc = "policy" /\ calls # <<>> /\ mem.final = "none"
        /\ UNCHANGED <<ws, stop, spent, crashes>>
    BY <1>8 DEF CheckBudgetPolicy, Sync
  <2> QED BY <1>2, <1>3, <1>8, <1>a, <1>b, <2>1 DEF CheckBudgetPolicy
<1>9. CASE Submit
  <2>1. /\ pc = "dispatch" /\ calls # <<>> /\ mem.final = "none"
        /\ UNCHANGED <<ws, stop, spent, crashes>>
    BY <1>9 DEF Submit, Acting, Dispatching, Sync
  <2>2. CASE Continue(mem)
    BY <1>3, <1>a, <1>b, <2>1, <2>2
  <2>3. CASE pc' = "verify" /\ UNCHANGED <<mem, cp, calls>>
    BY <2>1, <2>3 DEF TypeOK, Sync, DoneIsVerified
  <2> QED BY <1>9, <2>2, <2>3 DEF Submit
<1>10. CASE Verdict
  <2>1. PICK cost \in IF JudgeAsked THEN 1..CallCost ELSE {0} :
         LET paid   == [mem EXCEPT !.tokens = @ + cost]
             failed == [paid EXCEPT !.fails[ws] = @ + 1]
             passed == ws = "good" \/ (ws = "odd" /\ ~JudgeAsked)
         IN  /\ spent' = [spent EXCEPT !.tokens = @ + cost]
             /\ IF passed THEN Finish(paid, "done")
                ELSE IF failed.fails[ws] >= MaxIdentical THEN Finish(failed, "blocked")
                ELSE Continue(failed)
    BY <1>10 DEF Verdict
  <2> DEFINE paid == [mem EXCEPT !.tokens = @ + cost]
             failed == [paid EXCEPT !.fails[ws] = @ + 1]
  <2>2. /\ pc = "verify" /\ calls # <<>> /\ mem.final = "none"
        /\ UNCHANGED <<ws, stop, crashes>>
    BY <1>10 DEF Verdict, Sync
  <2>3. cost \in Nat /\ spent' \in Usage
    <3>1. cost \in Nat
      OBVIOUS
    <3>2. spent' = [spent EXCEPT !.tokens = @ + cost]
      BY <2>1
    <3> QED BY <1>b, <3>1, <3>2, UsageFields
  <2>4. paid \in LoopState /\ paid.final = "none"
    <3>1. mem.tokens + cost \in Nat
      BY <1>a, <2>3, StateFields
    <3> QED BY <1>a, <2>2, <3>1, SetTokens
  <2>5. failed \in LoopState /\ failed.final = "none"
    <3>1. [paid.fails EXCEPT ![ws] = @ + 1] \in [Workspaces -> Nat]
      <4>1. paid.fails \in [Workspaces -> Nat]
        BY <2>4, StateFields, Zenon
      <4> HIDE DEF paid
      <4> QED BY <4>1 DEF TypeOK
    <3>2. failed = [paid EXCEPT !.fails = [paid.fails EXCEPT ![ws] = @ + 1]]
      OBVIOUS
    <3> HIDE DEF paid, failed
    <3> QED BY <2>4, <3>1, <3>2, SetFails, Zenon
  <2>6. CASE ws = "good" \/ (ws = "odd" /\ ~JudgeAsked)
    <3>1. Finish(paid, "done")
      BY <2>1, <2>6
    <3> HIDE DEF paid
    <3>2. /\ mem' \in LoopState /\ cp' = mem' /\ pc' = "ended"
          /\ calls' \in Seq(CallKinds) /\ Sync'
      BY <2>4, <3>1, FinishLemma DEF Ends
    <3>3. ws \in Accepted
      BY <2>6 DEF JudgeAsked, Accepted
    <3>4. ws' \in Accepted'
      BY <2>2, <3>3 DEF Accepted
    <3> QED BY <2>2, <2>3, <3>2, <3>4 DEF TypeOK, DoneIsVerified
  <2>7. CASE ~(ws = "good" \/ (ws = "odd" /\ ~JudgeAsked))
    <3>1. Finish(failed, "blocked") \/ Continue(failed)
      BY <2>1, <2>7
    <3> HIDE DEF failed
    <3> QED BY <1>2, <1>3, <2>2, <2>3, <2>5, <3>1
  <2> QED BY <2>6, <2>7
<1>11. CASE Checkpoint
  BY <1>11 DEF Checkpoint, TypeOK, Sync, DoneIsVerified
<1>12. CASE RequestStop
  BY <1>12 DEF RequestStop, TypeOK, Sync, DoneIsVerified
<1>13. CASE Crash
  <2>1. Fresh \in LoopState
    BY DEF Fresh, LoopState, Ends
  <2>2. calls' \in Seq(CallKinds) /\ Len(calls') = 0 /\ calls' = <<>>
    BY <1>13, EmptySeq DEF Crash
  <2>3. stop' \in BOOLEAN
    BY <1>13, Zenon DEF Crash, TypeOK
  <2>4. crashes' \in 0..MaxCrashes
    BY <1>13 DEF Crash, TypeOK
  <2> QED BY <1>13, <2>1, <2>2, <2>3, <2>4 DEF Crash, TypeOK, Sync, DoneIsVerified
<1>14. CASE UNCHANGED vars
  BY <1>14 DEF vars, TypeOK, Sync, DoneIsVerified
<1> QED BY <1>1, <1>4, <1>5, <1>6, <1>7, <1>8, <1>9, <1>10, <1>11, <1>12, <1>13, <1>14
        DEF Next, Step, Ended

\* Every reachable state of the loop satisfies the invariant.
LEMMA Inductive == Spec => []IInv
  BY InitIInv, NextIInv, PTL DEF Spec

\* LoopState stays well typed: in particular the steps and the actions a run has
\* on record never exceed its budgets.
THEOREM LoopTypeCorrect == Spec => []TypeOK
<1>1. IInv => TypeOK
  BY DEF IInv
<1> QED BY <1>1, Inductive, PTL

\* VerifiedLoop: a run that ended as done, after any crashes and resumes, left a
\* workspace that meets its criteria.
THEOREM DoneRunsAreVerified == Spec => []DoneIsVerified
<1>1. IInv => DoneIsVerified
  BY DEF IInv
<1> QED BY <1>1, Inductive, PTL

\* VerifiedLoop.run: once the end state is saved, nothing of the run is used or
\* changed any more, by any later process.
THEOREM EndsAreFinal == Spec => EndIsFinal
<1>1. IInv /\ [Next]_vars => [cp.final # "none" => UNCHANGED <<cp, ws, spent>>]_vars
  <2> SUFFICES ASSUME IInv, Next, cp.final # "none" PROVE UNCHANGED <<cp, ws, spent>>
    OBVIOUS
  <2>1. pc \in {"off", "ended"}
    BY DEF IInv, Sync
  <2>2. CASE Step
    <3>1. Begin
      BY <2>1, <2>2 DEF Step, StopBeforeCall, ProviderDown, CallModel, RecordPlan, ReportBlocker,
            Skip, StopBeforeAction, RunTool, CheckBudgetPolicy, Submit, VerifyCannotRun, Verdict,
            Checkpoint, Dispatching, Acting
    <3> QED BY <3>1 DEF Begin
  <2>3. CASE RequestStop \/ Crash \/ Ended
    BY <2>3, Zenon DEF RequestStop, Crash, Ended, vars
  <2> QED BY <2>2, <2>3 DEF Next
<1> QED BY <1>1, Inductive, PTL DEF Spec, EndIsFinal

-----------------------------------------------------------------------------
(* The plan phase.                                                         *)

\* What is submitted, and what is saved as done, has a plan.
PlanInv ==
    /\ PlanRequired /\ pc = "verify" => mem.plan
    /\ DoneHasPlan

\* Under the native tool protocol every step keeps the plan invariant.
LEMMA PlanStep ==
    ASSUME ~BashOnly, IInv, PlanInv, [Next]_vars PROVE PlanInv'
<1> USE VerifiedLoopAssumption
<1>a. mem \in LoopState /\ cp \in LoopState
  BY DEF IInv, TypeOK
<1>b. WithPlan \in LoopState
  BY <1>a, Zenon DEF WithPlan, LoopState
<1>1. ASSUME NEW end \in {"blocked", "stopped"}, NEW state \in LoopState, Finish(state, end)
      PROVE  PlanInv'
  BY <1>1, FinishLemma DEF Ends, PlanInv, DoneHasPlan
<1>2. ASSUME NEW state, Continue(state) PROVE PlanInv'
  BY <1>2 DEF Continue, PlanInv, DoneHasPlan
<1>3. CASE Submit
  <2>1. CASE pc' = "verify" /\ UNCHANGED <<mem, cp, calls>>
    <3>1. Head(calls) \in CallKinds
      BY <1>3, TailCalls DEF Submit, Acting, Dispatching, IInv, TypeOK
    <3>2. Head(calls) = "submit"
      BY <1>3, <3>1 DEF Submit, CallKinds
    <3>3. ~NoPlan
      BY <1>3, <3>2 DEF Submit, Acting, Dispatching
    <3> QED BY <2>1, <3>3 DEF NoPlan, PlanInv, DoneHasPlan
  <2> QED BY <1>2, <1>3, <2>1 DEF Submit
<1>4. CASE Verdict
  <2>1. PICK cost \in IF JudgeAsked THEN 1..CallCost ELSE {0} :
         LET paid   == [mem EXCEPT !.tokens = @ + cost]
             failed == [paid EXCEPT !.fails[ws] = @ + 1]
             passed == ws = "good" \/ (ws = "odd" /\ ~JudgeAsked)
         IN  /\ spent' = [spent EXCEPT !.tokens = @ + cost]
             /\ IF passed THEN Finish(paid, "done")
                ELSE IF failed.fails[ws] >= MaxIdentical THEN Finish(failed, "blocked")
                ELSE Continue(failed)
    BY <1>4 DEF Verdict
  <2> DEFINE paid == [mem EXCEPT !.tokens = @ + cost]
             failed == [paid EXCEPT !.fails[ws] = @ + 1]
  <2>2. pc = "verify"
    BY <1>4 DEF Verdict
  <2>3. paid.plan = mem.plan
    BY <1>a DEF LoopState
  <2>4. CASE Finish(paid, "done")
    <3> HIDE DEF paid
    <3>1. cp'.plan = paid.plan /\ pc' = "ended"
      <4>1. paid \in LoopState
        <5>1. cost \in Nat
          OBVIOUS
        <5>2. mem.tokens + cost \in Nat
          BY <1>a, <5>1, StateFields
        <5> QED BY <1>a, <5>2, SetTokens DEF paid
      <4> QED BY <2>4, <4>1, FinishLemma DEF Ends
    <3> QED BY <2>2, <2>3, <3>1 DEF PlanInv, DoneHasPlan
  <2>5. CASE Finish(failed, "blocked")
    <3> HIDE DEF failed
    <3> QED BY <2>5 DEF Finish, PlanInv, DoneHasPlan
  <2>6. CASE Continue(failed)
    BY <1>2, <2>6
  <2> QED BY <2>1, <2>4, <2>5, <2>6
<1>5. CASE StopBeforeCall \/ ProviderDown \/ ReportBlocker \/ StopBeforeAction \/ VerifyCannotRun
  BY <1>1, <1>5, <1>a, <1>b
     DEF StopBeforeCall, ProviderDown, ReportBlocker, StopBeforeAction, VerifyCannotRun
<1>6. CASE RecordPlan \/ Skip \/ CheckBudgetPolicy
  BY <1>1, <1>2, <1>6, <1>a DEF RecordPlan, Skip, CheckBudgetPolicy
<1>7. CASE Begin
  BY <1>7, <1>a DEF Begin, PlanInv, DoneHasPlan, LoopState
<1>8. CASE Checkpoint
  BY <1>8 DEF Checkpoint, PlanInv, DoneHasPlan, IInv, Sync
<1>9. CASE CallModel \/ RunTool \/ RequestStop \/ Crash \/ UNCHANGED vars
  BY <1>9 DEF CallModel, RunTool, RequestStop, Crash, vars, PlanInv, DoneHasPlan
<1> QED BY <1>3, <1>4, <1>5, <1>6, <1>7, <1>8, <1>9 DEF Next, Step, Ended

\* plan_mode="required" under the native tool protocol: no run ends as done
\* without a plan on record. (Under the bash-only protocol one can.)
THEOREM DoneRunsHavePlans ==
    ASSUME ~BashOnly PROVE Spec => []DoneHasPlan
<1>1. Init => PlanInv
  BY DEF Init, Fresh, PlanInv, DoneHasPlan
<1>2. IInv /\ PlanInv /\ [Next]_vars => PlanInv'
  BY PlanStep
<1>3. PlanInv => DoneHasPlan
  BY DEF PlanInv
<1> QED BY <1>1, <1>2, <1>3, Inductive, PTL DEF Spec

-----------------------------------------------------------------------------
(* The loop implements the abstract run.                                   *)

\* Every step of the loop is a step of the abstract run, or changes nothing of it.
LEMMA OutcomeStep ==
    ASSUME IInv, IInv', [Next]_vars
    PROVE  [Outcome!Next]_<<ws, cp.final>>
<1> USE VerifiedLoopAssumption
<1>a. mem \in LoopState /\ cp \in LoopState
  BY DEF IInv, TypeOK
<1>b. WithPlan \in LoopState
  BY <1>a, Zenon DEF WithPlan, LoopState
<1>c. pc \notin {"off", "ended"} => cp.final = "none"
  BY DEF IInv, Sync
<1>1. ASSUME NEW end \in {"blocked", "stopped"}, NEW state, state \in LoopState,
             Finish(state, end), UNCHANGED ws, pc \notin {"off", "ended"}
      PROVE  Outcome!GiveUp
  BY <1>1, <1>c, FinishLemma DEF Ends, Outcome!GiveUp
<1>2. CASE StopBeforeCall \/ ProviderDown \/ ReportBlocker \/ StopBeforeAction \/ VerifyCannotRun
  BY <1>1, <1>2, <1>a, <1>b
     DEF StopBeforeCall, ProviderDown, ReportBlocker, StopBeforeAction, VerifyCannotRun,
         Dispatching, Acting, Outcome!Next
<1>3. CASE RunTool
  BY <1>3, <1>c DEF RunTool, Acting, Dispatching, Outcome!Next, Outcome!Work
<1>4. CASE Verdict
  <2>1. pc = "verify" /\ ws' = ws /\ cp.final = "none"
    BY <1>4, <1>c DEF Verdict
  <2>2. ASSUME NEW state, Finish(state, "blocked") \/ Finish(state, "done")
        PROVE  cp'.final \in {"blocked", "done"}
    <3>1. cp' \in LoopState
      BY DEF IInv, TypeOK
    <3>2. cp' = [state EXCEPT !.final = "blocked"] \/ cp' = [state EXCEPT !.final = "done"]
      BY <2>2 DEF Finish
    <3>3. "final" \in DOMAIN cp'
      BY <3>1 DEF LoopState
    <3> QED BY <3>2, <3>3
  <2>3. CASE cp' = cp
    BY <2>1, <2>3
  <2>4. CASE cp' # cp
    <3>1. cp'.final \in {"blocked", "done"}
      BY <1>4, <2>2, <2>4 DEF Verdict, Continue
    <3>2. cp'.final = "done" => ws \in Accepted
      BY <2>1 DEF IInv, DoneIsVerified, Accepted
    <3> QED BY <2>1, <3>1, <3>2 DEF Outcome!Next, Outcome!GiveUp, Outcome!Done
  <2> QED BY <2>3, <2>4
<1>5. CASE CheckBudgetPolicy
  <2>1. CASE Continue(mem)
    BY <1>5, <2>1 DEF CheckBudgetPolicy, Continue
  <2>2. CASE Finish(mem, "stopped")
    BY <1>1, <1>5, <1>a, <2>2 DEF CheckBudgetPolicy, Outcome!Next
  <2> QED BY <1>5, <2>1, <2>2 DEF CheckBudgetPolicy
<1>6. CASE Begin
  BY <1>6, <1>a DEF Begin, LoopState
<1>7. CASE Checkpoint
  BY <1>7, <1>c DEF Checkpoint, IInv, Sync
<1>8. CASE CallModel \/ RecordPlan \/ Skip \/ Submit \/ RequestStop \/ Crash \/ UNCHANGED vars
  BY <1>8 DEF CallModel, RecordPlan, Skip, Submit, Continue, RequestStop, Crash, vars
<1> QED BY <1>2, <1>3, <1>4, <1>5, <1>6, <1>7, <1>8 DEF Next, Step, Ended

\* The verified loop implements what RunOutcome promises, its liveness apart: it
\* ends once, as done only on an accepted workspace, and changes nothing after.
THEOREM LoopImplementsRunOutcome ==
    Spec => Outcome!Init /\ [][Outcome!Next]_<<ws, cp.final>>
<1>1. Init => Outcome!Init
  BY DEF Init, Fresh, Outcome!Init
<1>2. IInv /\ IInv' /\ [Next]_vars => [Outcome!Next]_<<ws, cp.final>>
  BY OutcomeStep
<1> QED BY <1>1, <1>2, Inductive, PTL DEF Spec

-----------------------------------------------------------------------------
(* The budgets, with crashes.                                              *)

\* The tokens one step can use: the model call and a judge call per submission.
StepCost == (1 + MaxCalls) * CallCost

\* What was really used exceeds the given loop state by one step per crash.
Within(state) ==
    /\ spent.steps <= state.steps + crashes
    /\ spent.actions <= state.actions + crashes * MaxCalls
    /\ spent.tokens <= state.tokens + crashes * StepCost

\* After a crash only the checkpoint is left, which the live state is ahead of
\* by at most one step: what its remaining calls may still use is set aside.
BudgetInv ==
    /\ mem.tokens < MaxTokens + CallCost /\ cp.tokens < MaxTokens + CallCost
    /\ pc = "off" => Within(cp)
    /\ pc # "off" => Within(mem)
    /\ pc \in {"dispatch", "policy", "verify"} =>
         /\ mem.steps <= cp.steps + 1
         /\ mem.actions + Len(calls) <= cp.actions + MaxCalls + (IF pc = "policy" THEN 1 ELSE 0)
         /\ mem.tokens + Len(calls) * CallCost <= cp.tokens + StepCost

\* Arithmetic of the step costs.
LEMMA Products ==
    /\ StepCost \in Nat
    /\ StepCost = CallCost + MaxCalls * CallCost
    /\ \A n \in Nat : /\ n * CallCost \in Nat /\ n * StepCost \in Nat /\ n * MaxCalls \in Nat
                      /\ (n + 1) * StepCost = n * StepCost + StepCost
                      /\ (n + 1) * MaxCalls = n * MaxCalls + MaxCalls
                      /\ n >= 1 => (n - 1) * CallCost = n * CallCost - CallCost
                      /\ n <= MaxCalls => n * CallCost <= MaxCalls * CallCost
                      /\ n * (1 + MaxCalls) * CallCost = n * StepCost
<1>1. StepCost \in Nat /\ StepCost = CallCost + MaxCalls * CallCost
  BY VerifiedLoopAssumption DEF StepCost
<1>2. ASSUME NEW n \in Nat
      PROVE  /\ n * CallCost \in Nat /\ n * StepCost \in Nat /\ n * MaxCalls \in Nat
             /\ (n + 1) * StepCost = n * StepCost + StepCost
             /\ (n + 1) * MaxCalls = n * MaxCalls + MaxCalls
             /\ n >= 1 => (n - 1) * CallCost = n * CallCost - CallCost
  BY <1>1, VerifiedLoopAssumption
<1>3. ASSUME NEW n \in Nat, n <= MaxCalls PROVE n * CallCost <= MaxCalls * CallCost
  BY <1>3, VerifiedLoopAssumption
<1>4. ASSUME NEW n \in Nat PROVE n * (1 + MaxCalls) * CallCost = n * StepCost
  BY VerifiedLoopAssumption DEF StepCost
<1> QED BY <1>1, <1>2, <1>3, <1>4, Zenon

\* Sums of bounds.
LEMMA Sums ==
    /\ \A i, j, k, l, m \in Int : i <= j + k /\ j <= l + m => i <= l + (k + m)
    /\ \A i, j, k \in Int : i <= j + k => i + 1 <= j + 1 + k
    /\ \A i, j, k, l, m \in Int : i + j <= k /\ l <= m => i + l + (j - m) <= k
  OBVIOUS

\* The figures the budget argument is about are natural numbers.
LEMMA BudgetTypes ==
    ASSUME TypeOK
    PROVE  /\ mem.steps \in Nat /\ mem.actions \in Nat /\ mem.tokens \in Nat
           /\ cp.steps \in Nat /\ cp.actions \in Nat /\ cp.tokens \in Nat
           /\ spent.steps \in Nat /\ spent.actions \in Nat /\ spent.tokens \in Nat
           /\ crashes \in Nat /\ Len(calls) \in Nat
           /\ calls # <<>> => Len(calls) >= 1
<1>1. mem \in LoopState /\ cp \in LoopState /\ spent \in Usage /\ crashes \in Nat
  BY VerifiedLoopAssumption DEF TypeOK
<1>2. Len(calls) \in Nat /\ (calls # <<>> => Len(calls) >= 1)
  BY EmptySeq, LenProperties DEF TypeOK
<1>3. spent.steps \in Nat /\ spent.actions \in Nat /\ spent.tokens \in Nat
  BY <1>1 DEF Usage
<1> QED BY <1>1, <1>2, <1>3, StateFields

\* Ending the run keeps the bound.
LEMMA BudgetFinish ==
    ASSUME NEW state \in LoopState, NEW end \in Ends \ {"none"}, Finish(state, end),
           state.tokens < MaxTokens + CallCost, crashes' = crashes,
           spent'.steps <= state.steps + crashes,
           spent'.actions <= state.actions + crashes * MaxCalls,
           spent'.tokens <= state.tokens + crashes * StepCost
    PROVE  BudgetInv'
<1>1. /\ cp' = mem' /\ cp'.steps = state.steps /\ cp'.actions = state.actions
      /\ cp'.tokens = state.tokens /\ pc' = "ended"
  BY FinishLemma
<1> QED BY <1>1 DEF BudgetInv, Within, StepCost

\* Going on with the next call keeps the bound, if the call took at most one
\* judge call's tokens.
LEMMA BudgetContinue ==
    ASSUME IInv, BudgetInv, NEW cost \in 0..CallCost, NEW state, Continue(state),
           pc \in {"dispatch", "policy", "verify"}, calls # <<>>,
           state \in LoopState, state.final = "none",
           state.steps = mem.steps, state.actions = mem.actions,
           state.tokens = mem.tokens + cost, cost = 0 \/ ~OutOfTokens, crashes' = crashes,
           spent'.steps = spent.steps, spent'.actions = spent.actions,
           spent'.tokens = spent.tokens + cost
    PROVE  BudgetInv'
<1> USE VerifiedLoopAssumption
<1>1. mem' = state /\ cp' = cp /\ pc' = "dispatch" /\ Len(calls') = Len(calls) - 1
  BY ContinueLemma DEF IInv, Continue
<1>2. /\ mem.steps \in Nat /\ mem.actions \in Nat /\ mem.tokens \in Nat
      /\ cp.steps \in Nat /\ cp.actions \in Nat /\ cp.tokens \in Nat
      /\ spent.steps \in Nat /\ spent.actions \in Nat /\ spent.tokens \in Nat
      /\ crashes \in Nat /\ Len(calls) \in Nat /\ Len(calls) >= 1
  BY BudgetTypes DEF IInv
<1>3. /\ (Len(calls) - 1) * CallCost = Len(calls) * CallCost - CallCost
      /\ Len(calls) * CallCost \in Nat /\ StepCost \in Nat
      /\ crashes * StepCost \in Nat /\ crashes * MaxCalls \in Nat
  BY <1>2, Products
<1>4. /\ mem'.tokens = mem.tokens + cost /\ mem'.steps = mem.steps /\ mem'.actions = mem.actions
      /\ cp'.tokens = cp.tokens /\ cp'.steps = cp.steps /\ cp'.actions = cp.actions
  BY <1>1
<1>5. StepCost' = StepCost
  BY DEF StepCost
<1>6. mem.tokens < MaxTokens + CallCost /\ cp.tokens < MaxTokens + CallCost
  BY DEF BudgetInv
<1>7. Within(mem)
  BY DEF BudgetInv
<1>8. mem.steps <= cp.steps + 1
  BY DEF BudgetInv
<1>9. mem.actions + Len(calls) <= cp.actions + MaxCalls + 1
  <2>1. mem.actions + Len(calls) <= cp.actions + MaxCalls + (IF pc = "policy" THEN 1 ELSE 0)
    BY DEF BudgetInv
  <2> QED BY <1>2, <2>1, SMTT(30)
<1>10. mem.tokens + Len(calls) * CallCost <= cp.tokens + StepCost
  BY DEF BudgetInv
<1>11. mem'.tokens < MaxTokens + CallCost
  <2>1. CASE cost = 0
    BY <1>2, <1>4, <1>6, <2>1
  <2>2. CASE ~OutOfTokens
    <3>1. mem.tokens < MaxTokens
      BY <1>2, <2>2 DEF OutOfTokens
    <3> QED BY <1>2, <1>4, <3>1
  <2> QED BY <2>1, <2>2
<1>12. Within(mem)'
  <2>1. /\ spent.steps <= mem.steps + crashes
        /\ spent.actions <= mem.actions + crashes * MaxCalls
        /\ spent.tokens <= mem.tokens + crashes * StepCost
    BY <1>7 DEF Within
  <2>2. spent.tokens + cost <= mem.tokens + cost + crashes * StepCost
    BY <1>2, <1>3, <2>1
  <2> QED BY <1>4, <1>5, <2>1, <2>2 DEF Within
<1>13. mem'.actions + Len(calls') <= cp'.actions + MaxCalls
  BY <1>1, <1>2, <1>4, <1>9
<1>14. mem'.tokens + Len(calls') * CallCost <= cp'.tokens + StepCost
  <2> DEFINE p == Len(calls) * CallCost
  <2>1. p \in Nat /\ mem.tokens + p <= cp.tokens + StepCost /\ Len(calls') * CallCost = p - CallCost
    BY <1>1, <1>3, <1>10
  <2> HIDE DEF p
  <2>3. cost <= CallCost /\ cost \in Nat /\ StepCost \in Nat /\ mem.tokens \in Nat /\ cp.tokens \in Nat
    BY <1>2, <1>3
  <2>2. mem.tokens + cost + (p - CallCost) <= cp.tokens + StepCost
    BY <2>1, <2>3, Sums, SMTT(30)
  <2> QED BY <1>4, <2>1, <2>2
<1>15. pc' = "dispatch" /\ mem'.steps <= cp'.steps + 1 /\ cp'.tokens < MaxTokens + CallCost
  BY <1>1, <1>4, <1>6, <1>8
<1>16. mem'.actions + Len(calls') <= cp'.actions + MaxCalls + (IF pc' = "policy" THEN 1 ELSE 0)
  BY <1>2, <1>4, <1>1, <1>13
<1> QED BY <1>5, <1>11, <1>12, <1>14, <1>15, <1>16 DEF BudgetInv

\* Every step keeps the bound.
LEMMA BudgetStep ==
    ASSUME IInv, BudgetInv, [Next]_vars PROVE BudgetInv'
<1> USE VerifiedLoopAssumption
<1>a. mem \in LoopState /\ cp \in LoopState /\ spent \in Usage
  BY DEF IInv, TypeOK
<1>b. /\ mem.steps \in Nat /\ mem.actions \in Nat /\ mem.tokens \in Nat
      /\ cp.steps \in Nat /\ cp.actions \in Nat /\ cp.tokens \in Nat
      /\ spent.steps \in Nat /\ spent.actions \in Nat /\ spent.tokens \in Nat
      /\ crashes \in Nat /\ Len(calls) \in Nat /\ (calls # <<>> => Len(calls) >= 1)
  BY BudgetTypes DEF IInv
<1>c. StepCost' = StepCost /\ StepCost \in Nat /\ crashes * StepCost \in Nat /\ crashes * MaxCalls \in Nat
  BY <1>b, Products DEF StepCost
<1>d. mem.tokens < MaxTokens + CallCost /\ cp.tokens < MaxTokens + CallCost
  BY DEF BudgetInv
<1>e. pc # "off" => /\ spent.steps <= mem.steps + crashes
                    /\ spent.actions <= mem.actions + crashes * MaxCalls
                    /\ spent.tokens <= mem.tokens + crashes * StepCost
  BY DEF BudgetInv, Within
<1>f. /\ WithPlan \in LoopState /\ WithPlan.steps = mem.steps
      /\ WithPlan.actions = mem.actions /\ WithPlan.tokens = mem.tokens
  BY <1>a, Zenon DEF WithPlan, LoopState
<1>1. ASSUME NEW end \in {"blocked", "stopped"}, NEW state \in LoopState, Finish(state, end),
             state.steps = mem.steps, state.actions = mem.actions, state.tokens = mem.tokens,
             pc # "off", UNCHANGED <<spent, crashes>>
      PROVE  BudgetInv'
  BY <1>1, <1>d, <1>e, BudgetFinish DEF Ends
<1>2. ASSUME NEW state \in LoopState, Continue(state), state.final = "none",
             state.steps = mem.steps, state.actions = mem.actions, state.tokens = mem.tokens,
             pc \in {"dispatch", "policy", "verify"}, calls # <<>>, UNCHANGED <<spent, crashes>>
      PROVE  BudgetInv'
  <2>1. 0 \in 0..CallCost /\ state.tokens = mem.tokens + 0 /\ spent'.tokens = spent.tokens + 0
    BY <1>2, <1>b
  <2> QED BY <1>2, <2>1, BudgetContinue
<1>3. CASE StopBeforeCall \/ ProviderDown \/ ReportBlocker \/ StopBeforeAction \/ VerifyCannotRun
  BY <1>1, <1>3, <1>a, <1>f
     DEF StopBeforeCall, ProviderDown, ReportBlocker, StopBeforeAction, VerifyCannotRun,
         Dispatching, Acting
<1>4. CASE RecordPlan \/ Skip
  <2>1. /\ pc = "dispatch" /\ calls # <<>> /\ mem.final = "none" /\ UNCHANGED <<spent, crashes>>
    BY <1>4 DEF RecordPlan, Skip, Dispatching, IInv, Sync
  <2> DEFINE planned == [mem EXCEPT !.plan = TRUE]
  <2>2. /\ planned \in LoopState /\ planned.final = mem.final /\ planned.steps = mem.steps
        /\ planned.actions = mem.actions /\ planned.tokens = mem.tokens
    BY <1>a, Zenon DEF LoopState
  <2>3. Continue(planned) \/ Continue(mem)
    BY <1>4 DEF RecordPlan, Skip
  <2> HIDE DEF planned
  <2> QED BY <1>2, <1>a, <2>1, <2>2, <2>3
<1>5. CASE CheckBudgetPolicy
  <2>1. /\ pc = "policy" /\ calls # <<>> /\ mem.final = "none" /\ UNCHANGED <<spent, crashes>>
    BY <1>5 DEF CheckBudgetPolicy, IInv, Sync
  <2> QED BY <1>1, <1>2, <1>5, <1>a, <2>1 DEF CheckBudgetPolicy
<1>6. CASE Submit
  <2>1. /\ pc = "dispatch" /\ calls # <<>> /\ mem.final = "none" /\ UNCHANGED <<spent, crashes>>
    BY <1>6 DEF Submit, Acting, Dispatching, IInv, Sync
  <2>2. CASE Continue(mem)
    BY <1>2, <1>a, <2>1, <2>2
  <2>3. CASE pc' = "verify" /\ UNCHANGED <<mem, cp, calls>>
    BY <1>c, <2>1, <2>3 DEF BudgetInv, Within
  <2> QED BY <1>6, <2>2, <2>3 DEF Submit
<1>7. CASE Begin
  <2>1. /\ mem'.steps = cp.steps /\ mem'.actions = cp.actions /\ mem'.tokens = cp.tokens
        /\ cp'.tokens = cp.tokens /\ pc' \in {"guard", "ended"} /\ pc = "off"
        /\ UNCHANGED <<spent, crashes>>
    BY <1>7, <1>a DEF Begin, LoopState
  <2>2. Within(cp)
    BY <2>1 DEF BudgetInv
  <2>3. Within(mem)'
    BY <1>c, <2>1, <2>2 DEF Within
  <2> QED BY <1>d, <2>1, <2>3 DEF BudgetInv
<1>8. CASE CallModel
  <2>1. PICK cost \in 1..CallCost, answer \in Answers :
           /\ mem' = [mem EXCEPT !.steps = @ + 1, !.tokens = @ + cost]
           /\ spent' = [spent EXCEPT !.steps = @ + 1, !.tokens = @ + cost]
           /\ calls' = answer
    BY <1>8 DEF CallModel
  <2>2. /\ mem.tokens < MaxTokens /\ mem = cp /\ pc = "guard" /\ pc' = "dispatch"
        /\ UNCHANGED <<cp, crashes>>
    BY <1>8, <1>b DEF CallModel, MustStop, OutOfTokens, IInv, Sync
  <2>3. /\ mem'.steps = mem.steps + 1 /\ mem'.tokens = mem.tokens + cost
        /\ mem'.actions = mem.actions
    BY <1>a, <2>1 DEF LoopState
  <2>4. /\ spent'.steps = spent.steps + 1 /\ spent'.tokens = spent.tokens + cost
        /\ spent'.actions = spent.actions
    BY <1>a, <2>1 DEF Usage
  <2>5. cost \in Nat /\ cost <= CallCost
    OBVIOUS
  <2>6. mem'.tokens < MaxTokens + CallCost
    BY <1>b, <2>2, <2>3, <2>5
  <2>7. Within(mem)'
    <3>1. /\ spent.steps + 1 <= mem.steps + 1 + crashes
          /\ spent.actions <= mem.actions + crashes * MaxCalls
      BY <1>b, <1>e, <2>2
    <3>2. spent.tokens + cost <= mem.tokens + cost + crashes * StepCost
      BY <1>b, <1>c, <1>e, <2>2, <2>5
    <3> QED BY <1>c, <2>2, <2>3, <2>4, <3>1, <3>2 DEF Within
  <2>8. Len(calls') \in Nat /\ Len(calls') <= MaxCalls
    BY <2>1, AnswerIsSeq
  <2>9. mem'.actions + Len(calls') <= cp'.actions + MaxCalls + (IF pc' = "policy" THEN 1 ELSE 0)
    BY <1>b, <2>2, <2>3, <2>8
  <2>10. mem'.tokens + Len(calls') * CallCost <= cp'.tokens + StepCost
    <3> DEFINE p == Len(calls') * CallCost
               q == MaxCalls * CallCost
    <3>1. p \in Nat /\ q \in Nat /\ p <= q /\ StepCost = CallCost + q
      BY <2>8, Products
    <3> HIDE DEF p, q
    <3>2. mem.tokens + cost + p <= mem.tokens + (CallCost + q)
      BY <1>b, <2>5, <3>1
    <3>3. mem'.tokens + p <= cp'.tokens + StepCost
      BY <2>2, <2>3, <3>1, <3>2, SMTT(30)
    <3> QED BY <3>3 DEF p
  <2>11. mem'.steps <= cp'.steps + 1 /\ cp'.tokens < MaxTokens + CallCost
    BY <1>b, <1>d, <2>2, <2>3
  <2> QED BY <1>c, <2>2, <2>6, <2>7, <2>9, <2>10, <2>11 DEF BudgetInv
<1>9. CASE RunTool
  <2>1. /\ pc = "dispatch" /\ calls # <<>> /\ pc' = "policy" /\ UNCHANGED <<cp, calls, crashes>>
        /\ spent' = [spent EXCEPT !.actions = @ + 1]
        /\ mem' = [WithPlan EXCEPT !.actions = @ + 1]
    BY <1>9 DEF RunTool, Acting, Dispatching
  <2>2. /\ mem'.steps = mem.steps /\ mem'.tokens = mem.tokens /\ mem'.actions = mem.actions + 1
    BY <1>f, <2>1 DEF LoopState
  <2>3. /\ spent'.steps = spent.steps /\ spent'.tokens = spent.tokens
        /\ spent'.actions = spent.actions + 1
    BY <1>a, <2>1 DEF Usage
  <2>4. Within(mem)'
    <3>1. spent.actions + 1 <= mem.actions + 1 + crashes * MaxCalls
      <4> DEFINE a == crashes * MaxCalls
      <4>1. a \in Int /\ spent.actions <= mem.actions + a
        BY <1>c, <1>e, <2>1
      <4> HIDE DEF a
      <4>2. spent.actions + 1 <= mem.actions + 1 + a
        BY <1>b, <4>1, Sums
      <4> QED BY <4>2 DEF a
    <3> QED BY <1>c, <1>e, <2>1, <2>2, <2>3, <3>1 DEF Within
  <2>5. mem.actions + Len(calls) <= cp.actions + MaxCalls
    <3>1. mem.actions + Len(calls) <= cp.actions + MaxCalls + 0
      BY <2>1 DEF BudgetInv
    <3> QED BY <1>b, <3>1
  <2>6. mem'.actions + Len(calls') <= cp'.actions + MaxCalls + (IF pc' = "policy" THEN 1 ELSE 0)
    <3>1. mem.actions + 1 + Len(calls) <= cp.actions + MaxCalls + 1
      BY <1>b, <2>5
    <3> QED BY <2>1, <2>2, <3>1
  <2>7. /\ mem'.tokens + Len(calls') * CallCost <= cp'.tokens + StepCost
        /\ mem'.steps <= cp'.steps + 1
    BY <2>1, <2>2 DEF BudgetInv
  <2> QED BY <1>c, <1>d, <2>1, <2>2, <2>4, <2>6, <2>7 DEF BudgetInv
<1>10. CASE Verdict
  <2>1. PICK cost \in IF JudgeAsked THEN 1..CallCost ELSE {0} :
         LET paid   == [mem EXCEPT !.tokens = @ + cost]
             failed == [paid EXCEPT !.fails[ws] = @ + 1]
             passed == ws = "good" \/ (ws = "odd" /\ ~JudgeAsked)
         IN  /\ spent' = [spent EXCEPT !.tokens = @ + cost]
             /\ IF passed THEN Finish(paid, "done")
                ELSE IF failed.fails[ws] >= MaxIdentical THEN Finish(failed, "blocked")
                ELSE Continue(failed)
    BY <1>10 DEF Verdict
  <2> DEFINE paid == [mem EXCEPT !.tokens = @ + cost]
             failed == [paid EXCEPT !.fails[ws] = @ + 1]
  <2>2. /\ pc = "verify" /\ calls # <<>> /\ mem.final = "none" /\ crashes' = crashes
        /\ JudgeAsked => ~OutOfTokens
    BY <1>10 DEF Verdict, IInv, Sync
  <2>3. cost \in 0..CallCost /\ cost \in Nat /\ cost <= CallCost /\ (cost = 0 \/ ~OutOfTokens)
    BY <2>2
  <2>4. /\ paid \in LoopState /\ paid.final = "none" /\ paid.steps = mem.steps
        /\ paid.actions = mem.actions /\ paid.tokens = mem.tokens + cost
    <3>1. mem.tokens + cost \in Nat
      BY <1>b, <2>3
    <3>2. paid \in LoopState /\ paid.final = "none"
      BY <1>a, <2>2, <3>1, SetTokens
    <3> QED BY <1>a, <3>2 DEF LoopState
  <2>5. /\ failed \in LoopState /\ failed.final = "none" /\ failed.steps = mem.steps
        /\ failed.actions = mem.actions /\ failed.tokens = mem.tokens + cost
    <3>1. [paid.fails EXCEPT ![ws] = @ + 1] \in [Workspaces -> Nat]
      <4>1. paid.fails \in [Workspaces -> Nat]
        BY <2>4, StateFields, Zenon
      <4> HIDE DEF paid
      <4> QED BY <4>1 DEF IInv, TypeOK
    <3>2. failed = [paid EXCEPT !.fails = [paid.fails EXCEPT ![ws] = @ + 1]]
      OBVIOUS
    <3> HIDE DEF paid, failed
    <3>3. failed \in LoopState /\ failed.final = "none"
      BY <2>4, <3>1, <3>2, SetFails, Zenon
    <3> QED BY <2>4, <3>2, <3>3 DEF LoopState
  <2>6. spent' = [spent EXCEPT !.tokens = @ + cost] /\
        (Finish(paid, "done") \/ Finish(failed, "blocked") \/ Continue(failed))
    BY <2>1
  <2> HIDE DEF paid, failed
  <2>7. /\ spent'.steps = spent.steps /\ spent'.actions = spent.actions
        /\ spent'.tokens = spent.tokens + cost
    BY <1>a, <2>6 DEF Usage
  <2>8. mem.tokens + cost < MaxTokens + CallCost
    <3>1. CASE cost = 0
      BY <1>b, <1>d, <3>1
    <3>2. CASE ~OutOfTokens
      <4>1. mem.tokens < MaxTokens
        BY <1>b, <3>2 DEF OutOfTokens
      <4> QED BY <1>b, <2>3, <4>1
    <3> QED BY <2>3, <3>1, <3>2
  <2>9. spent.tokens + cost <= mem.tokens + cost + crashes * StepCost
    BY <1>b, <1>c, <1>e, <2>2, <2>3
  <2>10. CASE Continue(failed)
    BY <2>2, <2>3, <2>5, <2>7, <2>10, BudgetContinue
  <2>11. CASE Finish(paid, "done")
    BY <1>e, <2>2, <2>4, <2>7, <2>8, <2>9, <2>11, BudgetFinish DEF Ends
  <2>12. CASE Finish(failed, "blocked")
    BY <1>e, <2>2, <2>5, <2>7, <2>8, <2>9, <2>12, BudgetFinish DEF Ends
  <2> QED BY <2>6, <2>10, <2>11, <2>12
<1>11. CASE Checkpoint
  <2>1. pc' = "guard" /\ pc = "dispatch" /\ cp' = mem /\ UNCHANGED <<mem, spent, crashes>>
    BY <1>11 DEF Checkpoint
  <2> QED BY <1>c, <1>d, <1>e, <2>1 DEF BudgetInv, Within
<1>12. CASE RequestStop \/ UNCHANGED vars
  BY <1>12, <1>c DEF RequestStop, vars, BudgetInv, Within
<1>13. CASE Crash
  <2>1. /\ pc # "off" /\ pc' = "off" /\ crashes' = crashes + 1 /\ mem' = Fresh
        /\ UNCHANGED <<cp, spent>>
    BY <1>13 DEF Crash
  <2>2. /\ mem.steps <= cp.steps + 1 /\ mem.actions <= cp.actions + MaxCalls
        /\ mem.tokens <= cp.tokens + StepCost
    <3>1. CASE pc \in {"guard", "ended"}
      <4>1. mem = cp
        BY <3>1 DEF IInv, Sync
      <4> QED BY <1>b, <1>c, <4>1
    <3>2. CASE pc \in {"dispatch", "policy", "verify"}
      <4>1. mem.steps <= cp.steps + 1
        BY <3>2 DEF BudgetInv
      <4>2. mem.actions <= cp.actions + MaxCalls
        <5>1. mem.actions + Len(calls) <= cp.actions + MaxCalls + (IF pc = "policy" THEN 1 ELSE 0)
          BY <3>2 DEF BudgetInv
        <5>2. pc = "policy" => Len(calls) >= 1
          BY <1>b DEF IInv, Sync
        <5> QED BY <1>b, <5>1, <5>2
      <4>3. mem.tokens <= cp.tokens + StepCost
        <5> DEFINE p == Len(calls) * CallCost
        <5>1. p \in Nat /\ mem.tokens + p <= cp.tokens + StepCost
          BY <1>b, <3>2, Products DEF BudgetInv
        <5> HIDE DEF p
        <5> QED BY <1>b, <1>c, <5>1
      <4> QED BY <4>1, <4>2, <4>3
    <3> QED BY <2>1, <3>1, <3>2 DEF IInv, TypeOK
  <2>3. Within(cp)'
    <3> DEFINE a == crashes * MaxCalls
               c == crashes * StepCost
    <3>0. /\ (crashes + 1) * MaxCalls = a + MaxCalls /\ (crashes + 1) * StepCost = c + StepCost
      BY <1>b, Products
    <3>1. /\ a \in Int /\ c \in Int /\ StepCost \in Int /\ MaxCalls \in Int
          /\ spent.steps <= mem.steps + crashes /\ spent.actions <= mem.actions + a
          /\ spent.tokens <= mem.tokens + c
      BY <1>b, <1>c, <1>e, <2>1
    <3> HIDE DEF a, c
    <3>9. /\ spent.steps \in Int /\ mem.steps \in Int /\ cp.steps \in Int /\ crashes \in Int
          /\ spent.actions \in Int /\ mem.actions \in Int /\ cp.actions \in Int
          /\ spent.tokens \in Int /\ mem.tokens \in Int /\ cp.tokens \in Int
      BY <1>b
    <3>2. spent.steps <= cp.steps + (crashes + 1)
      <4>1. /\ spent.steps \in Int /\ mem.steps \in Int /\ cp.steps \in Int /\ crashes \in Int
            /\ spent.steps <= mem.steps + crashes /\ mem.steps <= cp.steps + 1
        BY <2>2, <3>1, <3>9
      <4> QED BY <4>1
    <3>3. spent.actions <= cp.actions + (a + MaxCalls)
      <4>1. /\ spent.actions \in Int /\ mem.actions \in Int /\ cp.actions \in Int
            /\ a \in Int /\ MaxCalls \in Int
            /\ spent.actions <= mem.actions + a /\ mem.actions <= cp.actions + MaxCalls
        BY <2>2, <3>1, <3>9
      <4> QED BY <4>1
    <3>4. spent.tokens <= cp.tokens + (c + StepCost)
      <4>1. /\ spent.tokens \in Int /\ mem.tokens \in Int /\ cp.tokens \in Int
            /\ c \in Int /\ StepCost \in Int
            /\ spent.tokens <= mem.tokens + c /\ mem.tokens <= cp.tokens + StepCost
        BY <2>2, <3>1, <3>9
      <4> QED BY <4>1
    <3> QED BY <1>c, <2>1, <3>0, <3>2, <3>3, <3>4 DEF Within
  <2>4. mem'.tokens < MaxTokens + CallCost
    BY <2>1 DEF Fresh
  <2> QED BY <1>d, <2>1, <2>3, <2>4 DEF BudgetInv
<1> QED BY <1>3, <1>4, <1>5, <1>6, <1>7, <1>8, <1>9, <1>10, <1>11, <1>12, <1>13
        DEF Next, Step, Ended

\* The budgets: for any number of crashes, what a run really used exceeds its
\* budgets by at most its last call and one step per crash.
THEOREM BudgetsAreKept == Spec => []BudgetsBoundTheRun
<1>1. Init => BudgetInv
  BY VerifiedLoopAssumption DEF Init, Fresh, BudgetInv, Within, StepCost
<1>2. IInv /\ BudgetInv /\ [Next]_vars => BudgetInv'
  BY BudgetStep
<1>3. IInv /\ BudgetInv => BudgetsBoundTheRun
  <2> SUFFICES ASSUME IInv, BudgetInv PROVE BudgetsBoundTheRun
    OBVIOUS
  <2>1. \E state \in {mem, cp} : Within(state) /\ state.tokens < MaxTokens + CallCost
    BY DEF BudgetInv
  <2>2. PICK state \in {mem, cp} : Within(state) /\ state.tokens < MaxTokens + CallCost
    BY <2>1
  <2>3. /\ state.tokens \in Nat /\ state.steps \in 0..MaxSteps /\ state.actions \in 0..MaxActions
    BY StateFields DEF IInv, TypeOK
  <2> DEFINE a == crashes * MaxCalls
             c == crashes * StepCost
  <2>4. /\ a \in Nat /\ c \in Nat /\ crashes \in Nat
        /\ spent.steps \in Nat /\ spent.actions \in Nat /\ spent.tokens \in Nat
        /\ crashes * (1 + MaxCalls) * CallCost = c
    BY BudgetTypes, Products, Zenon DEF IInv
  <2>5. /\ spent.steps <= state.steps + crashes /\ spent.actions <= state.actions + a
        /\ spent.tokens <= state.tokens + c
    BY <2>2 DEF Within
  <2> HIDE DEF c
  <2>6. spent.tokens <= MaxTokens - 1 + CallCost + c
    BY <2>2, <2>3, <2>4, <2>5, VerifiedLoopAssumption
  <2>7. spent.actions <= MaxActions + a
    <3> HIDE DEF a
    <3> QED BY <2>3, <2>4, <2>5, VerifiedLoopAssumption
  <2>8. spent.steps <= MaxSteps + crashes
    BY <2>3, <2>4, <2>5, VerifiedLoopAssumption
  <2> QED BY <2>4, <2>6, <2>7, <2>8 DEF BudgetsBoundTheRun
<1> QED BY <1>1, <1>2, <1>3, Inductive, PTL DEF Spec
=============================================================================
