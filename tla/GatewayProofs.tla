--------------------------- MODULE GatewayProofs ---------------------------
(***************************************************************************)
(* Proofs, for any threads, sessions, actions, grants and limits, that     *)
(* approvals are single use, that what authorize allows is justified, that *)
(* a stopped session gets nothing and that tool calls are bounded.         *)
(***************************************************************************)
EXTENDS Gateway, FiniteSetTheorems, TLAPS

\* What authorize has established by the time a thread is at a given step.
CallInv(t) ==
    /\ pc[t] \notin {"idle", "deny"} => start[t].open
    /\ pc[t] # "idle" => /\ start[t].revoked \subseteq revoked
                         /\ start[t].over => OverBudget(sess[t])
    /\ pc[t] \notin {"idle", "caps", "deny"} => (start[t].over => over[t])
    /\ pc[t] \in {"decide", "consume", "audit", "count", "allow", "ask"} => ~over[t]
    /\ pc[t] \in {"consume", "audit", "count", "allow"} => act[t].risk < 4
    /\ pc[t] \in {"count", "allow"} => via[t] \in {"class", "grant", "approval"}
    /\ pc[t] = "count" => act[t].tool
    /\ pc[t] \in {"audit", "count", "allow"} =>
         /\ via[t] = "class" => ~NeedsAsk(sess[t], act[t])
         /\ via[t] = "grant" =>
              ~act[t].tainted /\ \E g \in Grants \ start[t].revoked : act[t] \in Covers[g]

\* The inductive invariant. A revoked grant is never active again, which is what
\* makes a grant looked up late in a call one that was good when it began.
IInv ==
    /\ TypeOK
    /\ ApprovalSingleUse
    /\ active \cap revoked = {}
    /\ \A t \in Threads : CallInv(t)

\* Putting a key into an ordered dictionary and evicting the oldest ones leaves
\* a dictionary over the same keys, in which only the new key can have appeared.
LEMMA PutEvict ==
    ASSUME NEW S, NEW d \in [S -> Nat], NEW x \in S, NEW max
    PROVE  /\ Evict(Put(d, x), max) \in [S -> Nat]
           /\ \A y \in S : y # x /\ Evict(Put(d, x), max)[y] > 0 => d[y] > 0
<1>1. Put(d, x) \in [S -> Nat] /\ \A y \in S : y # x /\ Put(d, x)[y] > 0 => d[y] > 0
  <2>1. CASE d[x] > 0
    BY <2>1 DEF Put
  <2>2. CASE ~(d[x] > 0)
    BY <2>2 DEF Put
  <2> QED BY <2>1, <2>2
<1> DEFINE e == Put(d, x)
<1>2. e \in [S -> Nat] /\ \A y \in S : y # x /\ e[y] > 0 => d[y] > 0
  BY <1>1
<1> HIDE DEF e
<1>3. Evict(e, max) \in [S -> Nat] /\ \A y \in S : Evict(e, max)[y] > 0 => e[y] > 0
  BY <1>2 DEF Evict
<1> QED BY <1>2, <1>3 DEF e

\* Every action's run and fingerprint is a key of the ledger.
LEMMA KeyInKeys == \A a \in Actions : Key(a) \in Keys
  BY DEF Keys

\* The initial state satisfies the invariant.
LEMMA InitIInv == Init => IInv
<1> SUFFICES ASSUME Init PROVE IInv
  OBVIOUS
<1>1. NoAction \in Actions /\ NoSession \in Sessions
  BY GatewayAssumption DEF NoAction, NoSession
<1>2. TypeOK
  BY <1>1, GatewayAssumption DEF Init, TypeOK, NoStart, Starts, PCs, Vias
<1>3. ApprovalSingleUse
  BY DEF Init, ApprovalSingleUse
<1>4. \A t \in Threads : CallInv(t)
  BY DEF Init, CallInv
<1> QED BY <1>2, <1>3, <1>4 DEF IInv, Init

\* The type invariant is preserved by every step.
LEMMA TypeOKStep == TypeOK /\ ApprovalSingleUse /\ [Next]_vars => TypeOK'
<1> SUFFICES ASSUME TypeOK, ApprovalSingleUse, [Next]_vars PROVE TypeOK'
  OBVIOUS
<1> USE GatewayAssumption
<1>1. ASSUME NEW s \in Sessions, OpenSession(s) PROVE TypeOK'
  <2>1. opened' \in [Sessions -> Nat]
    BY <1>1, PutEvict DEF OpenSession, TypeOK
  <2> QED BY <1>1, <2>1 DEF OpenSession, TypeOK, local
<1>2. ASSUME NEW s \in Sessions, CloseSession(s) PROVE TypeOK'
  BY <1>2 DEF CloseSession, TypeOK, local
<1>3. ASSUME NEW s \in Sessions, ReportBudget(s) PROVE TypeOK'
  BY <1>3 DEF ReportBudget, MergeBudget, TypeOK, local
<1>4. ASSUME NEW k \in Keys, Approve(k) PROVE TypeOK'
  <2>1. approvals' \in [Keys -> Nat]
    BY <1>4, PutEvict DEF Approve, TypeOK
  <2>2. approved' \in [Keys -> 0..MaxApprovals]
    BY <1>4 DEF Approve, TypeOK
  <2> QED BY <1>4, <2>1, <2>2 DEF Approve, TypeOK, local
<1>5. ASSUME NEW a \in Actions, RevokeRun(a.run) PROVE TypeOK'
  BY <1>5 DEF RevokeRun, TypeOK, local
<1>6. ASSUME NEW g \in Grants, MintGrant(g) \/ RevokeGrant(g) PROVE TypeOK'
  BY <1>6 DEF MintGrant, RevokeGrant, TypeOK, local
<1>7. ASSUME NEW t \in Threads, Call(t) PROVE TypeOK'
  <2>1. ASSUME NEW s \in Sessions, NEW a \in Actions, Authenticate(t, s, a) PROVE TypeOK'
    BY <2>1 DEF Authenticate, Goto, shared, TypeOK, PCs, Starts, OverBudget
  <2>2. CASE ReadCaps(t)
    BY <2>2 DEF ReadCaps, Goto, shared, TypeOK, PCs, OverBudget
  <2>3. CASE Policy(t)
    BY <2>3 DEF Policy, Goto, shared, TypeOK, PCs
  <2>4. CASE Decide(t)
    BY <2>4 DEF Decide, Goto, Via, shared, TypeOK, PCs, Vias
  <2>5. CASE Consume(t)
    <3> DEFINE k == Key(act[t])
    <3>1. k \in Keys
      BY KeyInKeys DEF TypeOK
    <3>2. approvals' \in [Keys -> Nat]
      BY <2>5, <3>1 DEF Consume, TypeOK
    <3>3. spent' \in [Keys -> 0..MaxApprovals]
      <4>1. CASE approvals[k] > 0
        <5>1. spent[k] + 1 <= approved[k]
          BY <4>1, <3>1 DEF ApprovalSingleUse
        <5>2. spent[k] + 1 \in 0..MaxApprovals
          BY <5>1, <3>1 DEF TypeOK
        <5>3. spent' = [spent EXCEPT ![k] = spent[k] + 1]
          BY <2>5, <4>1 DEF Consume
        <5> HIDE DEF k
        <5> QED BY <5>2, <5>3, <3>1 DEF TypeOK
      <4>2. CASE ~(approvals[k] > 0)
        BY <2>5, <4>2 DEF Consume, TypeOK
      <4> QED BY <4>1, <4>2
    <3> QED BY <2>5, <3>2, <3>3 DEF Consume, Goto, Via, TypeOK, PCs, Vias
  <2>6. CASE Audit(t)
    BY <2>6 DEF Audit, Goto, shared, TypeOK, PCs
  <2>7. CASE Count(t)
    BY <2>7 DEF Count, Goto, TypeOK, PCs
  <2>8. CASE Return(t)
    <3>1. NoAction \in Actions /\ NoSession \in Sessions /\ NoStart \in Starts
      BY DEF NoAction, NoSession, NoStart, Starts
    <3> QED BY <2>8, <3>1 DEF Return, Goto, Via, shared, TypeOK, PCs, Vias
  <2> QED BY <1>7, <2>1, <2>2, <2>3, <2>4, <2>5, <2>6, <2>7, <2>8 DEF Call
<1>8. CASE UNCHANGED vars
  BY <1>8 DEF vars, TypeOK
<1> QED BY <1>1, <1>2, <1>3, <1>4, <1>5, <1>6, <1>7, <1>8 DEF Next

\* No step lets more attempts through on a key than approve calls were made.
LEMMA SingleUseStep == TypeOK /\ ApprovalSingleUse /\ [Next]_vars => ApprovalSingleUse'
<1> SUFFICES ASSUME TypeOK, ApprovalSingleUse, [Next]_vars, NEW k \in Keys
             PROVE  (spent[k] + (IF approvals[k] > 0 THEN 1 ELSE 0) <= approved[k])'
  BY DEF ApprovalSingleUse
<1>0. /\ spent[k] + (IF approvals[k] > 0 THEN 1 ELSE 0) <= approved[k]
      /\ spent[k] \in Nat /\ approvals[k] \in Nat /\ approved[k] \in Nat
  BY GatewayAssumption DEF ApprovalSingleUse, TypeOK
<1>1. ASSUME NEW j \in Keys, Approve(j)
      PROVE  (spent[k] + (IF approvals[k] > 0 THEN 1 ELSE 0) <= approved[k])'
  <2>1. approvals'[k] \in Nat /\ (k # j /\ approvals'[k] > 0 => approvals[k] > 0)
    BY <1>1, PutEvict DEF Approve, TypeOK
  <2>2. approved'[k] = IF k = j THEN approved[k] + 1 ELSE approved[k]
    BY <1>1 DEF Approve, TypeOK
  <2>3. spent'[k] = spent[k]
    BY <1>1 DEF Approve
  <2> QED BY <1>0, <2>1, <2>2, <2>3
<1>2. ASSUME NEW a \in Actions, RevokeRun(a.run)
      PROVE  (spent[k] + (IF approvals[k] > 0 THEN 1 ELSE 0) <= approved[k])'
  BY <1>0, <1>2 DEF RevokeRun
<1>3. ASSUME NEW t \in Threads, Consume(t)
      PROVE  (spent[k] + (IF approvals[k] > 0 THEN 1 ELSE 0) <= approved[k])'
  <2> DEFINE j == Key(act[t])
  <2>1. CASE approvals[j] > 0
    <3>1. /\ approvals' = [approvals EXCEPT ![j] = 0]
          /\ spent' = [spent EXCEPT ![j] = spent[j] + 1] /\ approved' = approved
      BY <1>3, <2>1 DEF Consume, TypeOK
    <3> HIDE DEF j
    <3>2. /\ approvals'[k] = IF k = j THEN 0 ELSE approvals[k]
          /\ spent'[k] = IF k = j THEN spent[k] + 1 ELSE spent[k]
      BY <3>1 DEF TypeOK
    <3> QED BY <1>0, <2>1, <3>1, <3>2
  <2>2. CASE ~(approvals[j] > 0)
    BY <1>0, <1>3, <2>2 DEF Consume
  <2> QED BY <2>1, <2>2
<1>4. CASE UNCHANGED <<approvals, spent, approved>>
  BY <1>0, <1>4
<1>5. ASSUME NEW s \in Sessions, OpenSession(s) \/ CloseSession(s) \/ ReportBudget(s)
      PROVE  UNCHANGED <<approvals, spent, approved>>
  BY <1>5 DEF OpenSession, CloseSession, ReportBudget
<1>6. ASSUME NEW g \in Grants, MintGrant(g) \/ RevokeGrant(g)
      PROVE  UNCHANGED <<approvals, spent, approved>>
  BY <1>6 DEF MintGrant, RevokeGrant
<1>7. ASSUME NEW t \in Threads, Call(t), ~Consume(t)
      PROVE  UNCHANGED <<approvals, spent, approved>>
  BY <1>7 DEF Call, Authenticate, ReadCaps, Policy, Decide, Audit, Count, Return, shared
<1>8. CASE UNCHANGED vars
  BY <1>4, <1>8 DEF vars
<1> QED BY <1>1, <1>2, <1>3, <1>4, <1>5, <1>6, <1>7, <1>8 DEF Next

\* Steps outside a thread's own call leave what the call has established.
LEMMA CallInvOthers ==
    ASSUME TypeOK, TypeOK', NEW t \in Threads, CallInv(t),
           pc'[t] = pc[t], act'[t] = act[t], sess'[t] = sess[t], over'[t] = over[t],
           via'[t] = via[t], start'[t] = start[t], revoked \subseteq revoked',
           \A s \in Sessions : OverBudget(s) => OverBudget(s)'
    PROVE  CallInv(t)'
<1>1. sess[t] \in Sessions
  BY DEF TypeOK
<1>2. OverBudget(sess[t]) => OverBudget(sess[t])'
  BY <1>1 DEF OverBudget
<1> QED BY <1>1, <1>2 DEF CallInv, NeedsAsk

\* Budgets only grow, and a revoked grant stays revoked and inactive.
LEMMA MonotoneStep ==
    TypeOK /\ active \cap revoked = {} /\ [Next]_vars =>
        /\ active' \cap revoked' = {}
        /\ revoked \subseteq revoked'
        /\ \A s \in Sessions : OverBudget(s) => OverBudget(s)'
<1> SUFFICES ASSUME TypeOK, active \cap revoked = {}, [Next]_vars
             PROVE  /\ active' \cap revoked' = {}
                    /\ revoked \subseteq revoked'
                    /\ \A s \in Sessions : OverBudget(s) => OverBudget(s)'
  OBVIOUS
<1>1. CASE UNCHANGED <<tokens, active, revoked>>
  BY <1>1 DEF OverBudget
<1>2. ASSUME NEW s \in Sessions, ReportBudget(s)
      PROVE  /\ UNCHANGED <<active, revoked>>
             /\ \A r \in Sessions : OverBudget(r) => OverBudget(r)'
  BY <1>2, GatewayAssumption DEF ReportBudget, MergeBudget, OverBudget, TypeOK
<1>3. ASSUME NEW g \in Grants, MintGrant(g) \/ RevokeGrant(g)
      PROVE  active' \cap revoked' = {} /\ revoked \subseteq revoked' /\ UNCHANGED tokens
  BY <1>3 DEF MintGrant, RevokeGrant
<1>4. ASSUME NEW s \in Sessions, OpenSession(s) \/ CloseSession(s)
      PROVE  UNCHANGED <<tokens, active, revoked>>
  BY <1>4 DEF OpenSession, CloseSession
<1>5. ASSUME NEW t \in Threads, Call(t) PROVE UNCHANGED <<tokens, active, revoked>>
  BY <1>5 DEF Call, Authenticate, ReadCaps, Policy, Decide, Consume, Audit, Count, Return, shared
<1>6. ASSUME NEW k \in Keys, Approve(k) PROVE UNCHANGED <<tokens, active, revoked>>
  BY <1>6 DEF Approve
<1>7. ASSUME NEW a \in Actions, RevokeRun(a.run) PROVE UNCHANGED <<tokens, active, revoked>>
  BY <1>7 DEF RevokeRun
<1>8. CASE UNCHANGED vars
  BY <1>1, <1>8 DEF vars
<1> QED BY <1>1, <1>2, <1>3, <1>4, <1>5, <1>6, <1>7, <1>8 DEF Next, OverBudget

\* A step of a call establishes what its new place requires.
LEMMA CallInvOwn ==
    ASSUME IInv, TypeOK', NEW t \in Threads, Call(t) PROVE CallInv(t)'
<1> USE GatewayAssumption
<1>0. TypeOK /\ CallInv(t) /\ active \cap revoked = {}
  BY DEF IInv
<1>1. ASSUME NEW s \in Sessions, NEW a \in Actions, Authenticate(t, s, a) PROVE CallInv(t)'
  BY <1>0, <1>1, Zenon DEF Authenticate, Goto, shared, CallInv, TypeOK, OverBudget
<1>2. CASE ReadCaps(t)
  BY <1>0, <1>2, Zenon DEF ReadCaps, Goto, shared, CallInv, TypeOK, OverBudget
<1>3. CASE Policy(t)
  BY <1>0, <1>3 DEF Policy, WithinLimits, Goto, shared, CallInv, TypeOK, OverBudget
<1>4. CASE Decide(t)
  <2>1. Grantable(act[t]) =>
          ~act[t].tainted /\ \E g \in Grants \ start[t].revoked : act[t] \in Covers[g]
    BY <1>0, <1>4 DEF Decide, Grantable, CallInv, TypeOK
  <2>2. act[t].risk \in 0..4
    BY <1>0 DEF TypeOK
  <2> QED BY <1>0, <1>4, <2>1, <2>2, ZenonT(60)
          DEF Decide, Goto, Via, shared, CallInv, TypeOK, OverBudget, NeedsAsk
<1>5. CASE Consume(t)
  <2>1. pc[t] = "consume" /\ pc'[t] = "audit" /\ via'[t] \in {"approval", "ask"}
    BY <1>0, <1>5 DEF Consume, Goto, Via, TypeOK
  <2>2. UNCHANGED <<opened, calls, tokens, revoked, act, sess, over, start>>
    BY <1>5 DEF Consume
  <2> QED BY <1>0, <2>1, <2>2 DEF CallInv, OverBudget
<1>6. CASE Audit(t)
  BY <1>0, <1>6 DEF Audit, Goto, shared, CallInv, TypeOK, OverBudget, NeedsAsk
<1>7. CASE Count(t)
  BY <1>0, <1>7 DEF Count, Goto, CallInv, TypeOK, OverBudget, NeedsAsk
<1>8. CASE Return(t)
  BY <1>0, <1>8 DEF Return, Goto, shared, CallInv, TypeOK
<1> QED BY <1>1, <1>2, <1>3, <1>4, <1>5, <1>6, <1>7, <1>8 DEF Call

\* The invariant is preserved by every step.
LEMMA NextIInv == IInv /\ [Next]_vars => IInv'
<1> SUFFICES ASSUME IInv, [Next]_vars PROVE IInv'
  OBVIOUS
<1>1. TypeOK' /\ ApprovalSingleUse'
  BY TypeOKStep, SingleUseStep DEF IInv
<1>2. /\ active' \cap revoked' = {} /\ revoked \subseteq revoked'
      /\ \A s \in Sessions : OverBudget(s) => OverBudget(s)'
  BY MonotoneStep DEF IInv
<1>3. ASSUME NEW t \in Threads PROVE CallInv(t)'
  <2>1. CASE Call(t)
    BY <1>1, <2>1, CallInvOwn
  <2>2. ASSUME NEW u \in Threads, Call(u), u # t
        PROVE  /\ pc'[t] = pc[t] /\ act'[t] = act[t] /\ sess'[t] = sess[t]
               /\ over'[t] = over[t] /\ via'[t] = via[t] /\ start'[t] = start[t]
    <3> TypeOK
      BY DEF IInv
    <3>1. CASE \E s \in Sessions, a \in Actions : Authenticate(u, s, a)
      BY <2>2, <3>1 DEF TypeOK, Authenticate, Goto
    <3>2. CASE ReadCaps(u)
      BY <2>2, <3>2 DEF TypeOK, ReadCaps, Goto
    <3>3. CASE Policy(u)
      BY <2>2, <3>3 DEF TypeOK, Policy, Goto
    <3>4. CASE Decide(u)
      BY <2>2, <3>4 DEF TypeOK, Decide, Goto, Via
    <3>5. CASE Consume(u)
      BY <2>2, <3>5 DEF TypeOK, Consume, Goto, Via
    <3>6. CASE Audit(u)
      BY <2>2, <3>6 DEF TypeOK, Audit, Goto
    <3>7. CASE Count(u)
      BY <2>2, <3>7 DEF TypeOK, Count, Goto
    <3>8. CASE Return(u)
      BY <2>2, <3>8, Zenon DEF TypeOK, Return, Goto, Via
    <3> QED BY <2>2, <3>1, <3>2, <3>3, <3>4, <3>5, <3>6, <3>7, <3>8, Zenon DEF Call
  <2>3. CASE UNCHANGED local
    BY <1>1, <1>2, <2>3, CallInvOthers DEF local, IInv
  <2>4. ASSUME ~\E u \in Threads : Call(u) PROVE UNCHANGED local
    BY <2>4 DEF Next, vars, local, OpenSession, CloseSession, ReportBudget, Approve, RevokeRun,
                MintGrant, RevokeGrant
  <2>5. CASE \E u \in Threads : Call(u) /\ u # t
    BY <1>1, <1>2, <2>2, <2>5, CallInvOthers DEF IInv
  <2> QED BY <2>1, <2>3, <2>4, <2>5
<1> QED BY <1>1, <1>2, <1>3 DEF IInv

\* Every reachable state of the gateway satisfies the invariant.
LEMMA Inductive == Spec => []IInv
  BY InitIInv, NextIInv, PTL DEF Spec

\* The gateway's state is well typed: no more approvals are used up than
\* the approve calls a behaviour may hold.
THEOREM GatewayTypeCorrect == Spec => []TypeOK
<1>1. IInv => TypeOK
  BY DEF IInv
<1> QED BY <1>1, Inductive, PTL

\* ApprovalLedger: for any number of threads, runs and entries, an approval is
\* used by one attempt at most.
THEOREM ApprovalsAreSingleUse == Spec => []ApprovalSingleUse
<1>1. IInv => ApprovalSingleUse
  BY DEF IInv
<1> QED BY <1>1, Inductive, PTL

\* authorize: what needs an ask is allowed only on an approval or on a grant for an
\* untainted action that was not revoked when the call began, and R4 never is.
THEOREM AllowsAreJustified == Spec => []AllowIsJustified
<1>1. IInv => AllowIsJustified
  BY DEF IInv, CallInv, AllowIsJustified, Allowed
<1> QED BY <1>1, Inductive, PTL

\* authorize: a session closed, evicted or over its budget when the call begins gets
\* no allow, whatever other threads do meanwhile.
THEOREM StoppedSessionsGetNothing == Spec => []StoppedSessionGetsNothing
<1>1. IInv => StoppedSessionGetsNothing
  BY DEF IInv, CallInv, StoppedSessionGetsNothing, Allowed
<1> QED BY <1>1, Inductive, PTL

-----------------------------------------------------------------------------
(* The tool-call limit. A thread that has passed the policies and has not  *)
(* been counted yet may still be: it is pending on its session.            *)

Pending(s) ==
    {t \in Threads : /\ sess[t] = s /\ act[t].tool
                     /\ pc[t] \in {"decide", "consume", "audit", "count"}}

\* Counted and pending calls together stay below the limit plus the threads.
CountInv ==
    \A s \in Sessions :
        calls[s] + Cardinality(Pending(s)) <= MaxToolCalls + Cardinality(Threads) - 1

\* A finite set without one of its elements is one smaller.
LEMMA RemoveOne ==
    ASSUME NEW S, IsFiniteSet(S), NEW x \in S
    PROVE  Cardinality(S \ {x}) = Cardinality(S) - 1
  BY FS_RemoveElement

\* The pending threads of a session are finitely many, and at most all of them.
LEMMA PendingFinite ==
    ASSUME NEW s
    PROVE  /\ IsFiniteSet(Pending(s)) /\ Cardinality(Pending(s)) \in Nat
           /\ Cardinality(Threads) \in Nat
           /\ Cardinality(Pending(s)) <= Cardinality(Threads)
<1>1. Pending(s) \subseteq Threads /\ IsFiniteSet(Threads)
  BY GatewayAssumption DEF Pending
<1>2. IsFiniteSet(Pending(s)) /\ Cardinality(Pending(s)) <= Cardinality(Threads)
  BY <1>1, FS_Subset
<1> QED BY <1>1, <1>2, FS_CardinalityType

\* Where no call becomes pending and nothing is counted, the bound stays.
LEMMA CountInvShrinks ==
    ASSUME TypeOK, CountInv, calls' = calls,
           \A s \in Sessions : Pending(s)' \subseteq Pending(s)
    PROVE  CountInv'
<1> SUFFICES ASSUME NEW s \in Sessions
             PROVE  calls[s] + Cardinality(Pending(s)') <= MaxToolCalls + Cardinality(Threads) - 1
  BY DEF CountInv
<1>1. IsFiniteSet(Pending(s)) /\ Cardinality(Pending(s)) \in Nat /\ Cardinality(Threads) \in Nat
  BY PendingFinite
<1>2. Cardinality(Pending(s)') <= Cardinality(Pending(s)) /\ IsFiniteSet(Pending(s)')
  BY <1>1, FS_Subset
<1>3. Cardinality(Pending(s)') \in Nat
  BY <1>2, FS_CardinalityType
<1> QED BY <1>1, <1>2, <1>3, GatewayAssumption DEF CountInv, TypeOK

\* Every step keeps the bound: only Policy makes a call pending, at a time when
\* it still fits, and only Count counts one, which is no longer pending then.
LEMMA CountStep ==
    ASSUME MaxToolCalls > 0, IInv, IInv', CountInv, [Next]_vars PROVE CountInv'
<1> USE GatewayAssumption
<1>0. TypeOK /\ TypeOK'
  BY DEF IInv
<1>1. ASSUME NEW t \in Threads, Policy(t) PROVE CountInv'
  <2>1. CASE WithinLimits(t) /\ act[t].tool
    <3> SUFFICES ASSUME NEW s \in Sessions
                 PROVE  calls'[s] + Cardinality(Pending(s)') <= MaxToolCalls + Cardinality(Threads) - 1
      BY DEF CountInv
    <3>0. calls' = calls
      BY <1>1 DEF Policy, shared
    <3>1. CASE s = sess[t]
      <4>1. calls[s] + 1 <= MaxToolCalls /\ calls[s] \in Nat
        BY <1>0, <2>1, <3>1 DEF WithinLimits, TypeOK
      <4>2. Pending(s)' \subseteq Threads /\ IsFiniteSet(Threads)
        BY DEF Pending
      <4>3. IsFiniteSet(Pending(s)') /\ Cardinality(Pending(s)') <= Cardinality(Threads)
        BY <4>2, FS_Subset
      <4>4. Cardinality(Pending(s)') \in Nat /\ Cardinality(Threads) \in Nat
        BY <4>2, <4>3, FS_CardinalityType
      <4> QED BY <3>0, <4>1, <4>3, <4>4
    <3>2. CASE s # sess[t]
      <4>1. Pending(s)' = Pending(s)
        BY <1>0, <1>1, <3>2 DEF Policy, Goto, Pending, TypeOK
      <4> QED BY <3>0, <4>1 DEF CountInv
    <3> QED BY <3>1, <3>2
  <2>2. CASE ~(WithinLimits(t) /\ act[t].tool)
    <3>1. calls' = calls /\ \A s \in Sessions : Pending(s)' \subseteq Pending(s)
      BY <1>0, <1>1, <2>2 DEF Policy, Goto, shared, Pending, TypeOK
    <3> QED BY <1>0, <3>1, CountInvShrinks
  <2> QED BY <2>1, <2>2
<1>2. ASSUME NEW t \in Threads, Count(t), act[t].tool PROVE CountInv'
  <2> SUFFICES ASSUME NEW s \in Sessions
               PROVE  calls'[s] + Cardinality(Pending(s)') <= MaxToolCalls + Cardinality(Threads) - 1
    BY DEF CountInv
  <2>0. /\ calls[s] + Cardinality(Pending(s)) <= MaxToolCalls + Cardinality(Threads) - 1
        /\ IsFiniteSet(Pending(s)) /\ Cardinality(Pending(s)) \in Nat
        /\ Cardinality(Threads) \in Nat /\ calls[s] \in Nat
    BY <1>0, PendingFinite DEF CountInv, TypeOK
  <2>1. CASE s = sess[t]
    <3>1. t \in Pending(s) /\ Pending(s)' = Pending(s) \ {t}
      BY <1>0, <1>2, <2>1 DEF Count, Goto, Pending, TypeOK
    <3>2. Cardinality(Pending(s)') = Cardinality(Pending(s)) - 1
      <4>1. Cardinality(Pending(s) \ {t}) = Cardinality(Pending(s)) - 1
        BY <2>0, <3>1, RemoveOne
      <4> QED BY <3>1, <4>1, Zenon
    <3>3. calls'[s] = calls[s] + 1
      BY <1>0, <1>2, <2>1 DEF Count, TypeOK
    <3> QED BY <2>0, <3>2, <3>3
  <2>2. CASE s # sess[t]
    <3>1. Pending(s)' = Pending(s)
      BY <1>0, <1>2, <2>2 DEF Count, Goto, Pending, TypeOK
    <3>2. calls'[s] = calls[s]
      BY <1>0, <1>2, <2>2 DEF Count, TypeOK
    <3> QED BY <2>0, <3>1, <3>2
  <2> QED BY <2>1, <2>2
<1>3. ASSUME NEW t \in Threads,
             ReadCaps(t) \/ Decide(t) \/ Consume(t) \/ Audit(t) \/ Return(t)
      PROVE  CountInv'
  <2>1. calls' = calls /\ \A s \in Sessions : Pending(s)' \subseteq Pending(s)
    <3>1. CASE ReadCaps(t)
      BY <1>0, <3>1 DEF ReadCaps, Goto, shared, Pending, TypeOK
    <3>2. CASE Decide(t)
      BY <1>0, <3>2 DEF Decide, Goto, shared, Pending, TypeOK
    <3>3. CASE Consume(t)
      BY <1>0, <3>3 DEF Consume, Goto, Pending, TypeOK
    <3>4. CASE Audit(t)
      BY <1>0, <3>4 DEF Audit, Goto, shared, Pending, TypeOK
    <3>5. CASE Return(t)
      BY <1>0, <3>5 DEF Return, Goto, shared, Pending, TypeOK
    <3> QED BY <1>3, <3>1, <3>2, <3>3, <3>4, <3>5
  <2> QED BY <1>0, <2>1, CountInvShrinks
<1>4. ASSUME NEW t \in Threads, NEW s \in Sessions, NEW a \in Actions, Authenticate(t, s, a)
      PROVE  CountInv'
  <2>1. calls' = calls /\ \A r \in Sessions : Pending(r)' \subseteq Pending(r)
    BY <1>0, <1>4 DEF Authenticate, Goto, shared, Pending, TypeOK
  <2> QED BY <1>0, <2>1, CountInvShrinks
<1>5. CASE UNCHANGED <<calls, local>>
  <2>1. calls' = calls /\ \A s \in Sessions : Pending(s)' \subseteq Pending(s)
    BY <1>5 DEF local, Pending
  <2> QED BY <1>0, <2>1, CountInvShrinks
<1>6. ASSUME ~\E t \in Threads : Call(t) PROVE UNCHANGED <<calls, local>>
  BY <1>6 DEF Next, vars, local, OpenSession, CloseSession, ReportBudget, Approve, RevokeRun,
              MintGrant, RevokeGrant
<1>7. ASSUME NEW t \in Threads, Count(t) PROVE act[t].tool
  BY <1>7 DEF IInv, CallInv, Count
<1> QED BY <1>1, <1>2, <1>3, <1>4, <1>5, <1>6, <1>7 DEF Call

\* agent_policy's max_tool_calls: threads that race between reading the count and
\* raising it exceed the limit by less than their number, for any number of them.
THEOREM ToolCallsAreBounded == Spec => []ToolCallsBounded
<1>1. CASE MaxToolCalls = 0
  <2>1. ToolCallsBounded
    BY <1>1 DEF ToolCallsBounded
  <2> QED BY <2>1, PTL
<1>2. CASE MaxToolCalls > 0
  <2>1. Init => CountInv
    <3> SUFFICES ASSUME Init, NEW s \in Sessions
                 PROVE  calls[s] + Cardinality(Pending(s)) <= MaxToolCalls + Cardinality(Threads) - 1
      BY DEF CountInv
    <3>1. Pending(s) = {} /\ calls[s] = 0
      BY DEF Init, Pending
    <3>2. Cardinality(Pending(s)) = 0 /\ Cardinality(Threads) \in Nat
      BY <3>1, FS_EmptySet, PendingFinite
    <3>3. Cardinality(Threads) # 0
      BY GatewayAssumption, FS_EmptySet
    <3> QED BY <1>2, <3>1, <3>2, <3>3, GatewayAssumption
  <2>2. IInv /\ IInv' /\ CountInv /\ [Next]_vars => CountInv'
    BY <1>2, CountStep
  <2>3. IInv /\ CountInv => ToolCallsBounded
    <3> SUFFICES ASSUME IInv, CountInv, NEW s \in Sessions
                 PROVE  calls[s] <= MaxToolCalls + Cardinality(Threads) - 1
      BY DEF ToolCallsBounded
    <3>1. Cardinality(Pending(s)) \in Nat /\ Cardinality(Threads) \in Nat
      BY PendingFinite
    <3> QED BY <3>1, GatewayAssumption DEF CountInv, IInv, TypeOK
  <2> QED BY <2>1, <2>2, <2>3, Inductive, PTL DEF Spec
<1> QED BY <1>1, <1>2, GatewayAssumption
=============================================================================
