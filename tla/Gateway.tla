------------------------------ MODULE Gateway ------------------------------
(***************************************************************************)
(* The policy gateway (locus_runtime/gateway.py): sessions, single-use     *)
(* approvals, grants, budgets and Gateway.authorize, called by several     *)
(* threads. Every access to shared state is a step of its own: authorize   *)
(* takes the lock only to look a session up and to count a tool call.      *)
(*                                                                         *)
(* The policy engine answers allow or deny to an action; the two inputs    *)
(* the gateway itself feeds it, the tool-call count and the token budget,  *)
(* are modelled (agent_policy.rego, budget_policy.rego). No intent gate is *)
(* installed, as in every gateway the repository builds.                   *)
(***************************************************************************)
EXTENDS Integers, FiniteSets

CONSTANTS Threads,       \* threads that call authorize
          Sessions,      \* session tokens; one is used by one open_session only
          RunOf,         \* the run a session is opened for
          Supervised,    \* sessions whose autonomy tier is "supervised"
          Actions,       \* [run, fp, risk, tool, tainted] records
          Grants,        \* grants the authority ever mints
          Covers,        \* the actions a grant covers
          MaxToolCalls,  \* capabilities.max_tool_calls (0: no limit)
          MaxTokens,     \* capabilities.budget.max_tokens
          MaxSessions,   \* Gateway max_sessions
          MaxEntries,    \* ApprovalLedger max_entries
          MaxApprovals   \* bound: approve calls per key

\* Ledger keys: run and fingerprint.
Key(a) == <<a.run, a.fp>>
Keys == {Key(a) : a \in Actions}

ASSUME GatewayAssumption ==
    /\ IsFiniteSet(Threads) /\ Threads # {} /\ IsFiniteSet(Sessions) /\ Sessions # {}
    /\ Supervised \subseteq Sessions
    /\ IsFiniteSet(Actions) /\ Actions # {}
    /\ \A a \in Actions : /\ a.risk \in 0..4
                          /\ a.tool \in BOOLEAN /\ a.tainted \in BOOLEAN
    /\ Covers \in [Grants -> SUBSET Actions]
    /\ MaxToolCalls \in Nat /\ MaxTokens \in Nat
    /\ MaxSessions \in Nat \ {0} /\ MaxEntries \in Nat \ {0} /\ MaxApprovals \in Nat

VARIABLES fresh,     \* session tokens not issued yet
          opened,    \* registered sessions, by place (see Put)
          calls,     \* tool_calls_used of each session record
          tokens,    \* capabilities.budget.tokens_used of each session record
          approvals, \* ledger entries, by place
          active,    \* grants that can be matched
          revoked,   \* grants revoked or expired
          pc, act, sess, over, via,   \* a thread's place in authorize and its locals
          start,     \* what was true when the thread's call began (history)
          approved,  \* approve calls per key (history)
          spent      \* approvals used up by an attempt, per key (history)

local == <<pc, act, sess, over, via, start>>
vars == <<fresh, opened, calls, tokens, approvals, active, revoked,
          pc, act, sess, over, via, start, approved, spent>>

PCs == {"idle", "caps", "policy", "decide", "consume", "audit", "count",
        "allow", "ask", "deny"}
Vias == {"none", "class", "grant", "approval", "ask"}
Starts == [revoked: SUBSET Grants, open: BOOLEAN, over: BOOLEAN]

TypeOK ==
    /\ fresh \in SUBSET Sessions
    /\ opened \in [Sessions -> Nat] /\ calls \in [Sessions -> Nat]
    /\ tokens \in [Sessions -> Nat]
    /\ approvals \in [Keys -> Nat]
    /\ active \in SUBSET Grants /\ revoked \in SUBSET Grants
    /\ pc \in [Threads -> PCs] /\ via \in [Threads -> Vias]
    /\ act \in [Threads -> Actions] /\ sess \in [Threads -> Sessions]
    /\ over \in [Threads -> BOOLEAN] /\ start \in [Threads -> Starts]
    /\ approved \in [Keys -> 0..MaxApprovals] /\ spent \in [Keys -> 0..MaxApprovals]

NoAction == CHOOSE a \in Actions : TRUE
NoSession == CHOOSE s \in Sessions : TRUE
NoStart == [revoked |-> {}, open |-> FALSE, over |-> FALSE]

Init ==
    /\ fresh = Sessions
    /\ opened = [s \in Sessions |-> 0] /\ calls = [s \in Sessions |-> 0]
    /\ tokens = [s \in Sessions |-> 0]
    /\ approvals = [k \in Keys |-> 0]
    /\ active = {} /\ revoked = {}
    /\ pc = [t \in Threads |-> "idle"] /\ via = [t \in Threads |-> "none"]
    /\ act = [t \in Threads |-> NoAction] /\ sess = [t \in Threads |-> NoSession]
    /\ over = [t \in Threads |-> FALSE] /\ start = [t \in Threads |-> NoStart]
    /\ approved = [k \in Keys |-> 0] /\ spent = [k \in Keys |-> 0]

-----------------------------------------------------------------------------
(* OrderedDict: a key's place is 0 if it is absent, else 1 or more, and the *)
(* oldest key has the greatest place.                                      *)

Entries(d) == {x \in DOMAIN d : d[x] > 0}

\* Setting a key that is there keeps its place; a new one goes to the end.
Put(d, x) ==
    IF d[x] > 0 THEN d
    ELSE [y \in DOMAIN d |-> CASE y = x -> 1 [] d[y] > 0 -> d[y] + 1 [] OTHER -> 0]

Oldest(d) == {x \in Entries(d) : \A y \in Entries(d) : d[y] <= d[x]}

\* `while len > max: popitem(last=False)`, after one insertion.
Evict(d, max) ==
    IF Cardinality(Entries(d)) <= max THEN d
    ELSE [x \in DOMAIN d |-> IF x \in Oldest(d) THEN 0 ELSE d[x]]

-----------------------------------------------------------------------------
(* Sessions, budgets, approvals and grants.                                *)

\* open_session registers a new token and evicts the oldest sessions.
OpenSession(s) ==
    /\ s \in fresh
    /\ fresh' = fresh \ {s}
    /\ opened' = Evict(Put(opened, s), MaxSessions)
    /\ UNCHANGED <<calls, tokens, approvals, active, revoked, local, approved, spent>>

\* close_session: approvals outlive the session.
CloseSession(s) ==
    /\ opened[s] > 0
    /\ opened' = [opened EXCEPT ![s] = 0]
    /\ UNCHANGED <<fresh, calls, tokens, approvals, active, revoked, local, approved, spent>>

\* Mutant of MergeBudget: the reported figure replaces the registered one.
MergeBudget_Replace(current, new) == new

\* _merge_budget: used figures never decrease.
MergeBudget(current, new) == IF new > current THEN new ELSE current

\* report_budget: a report may carry any figure, also one that arrives late.
ReportBudget(s) ==
    /\ opened[s] > 0
    /\ \E new \in {0, MaxTokens, MaxTokens + 1} :
         tokens' = [tokens EXCEPT ![s] = MergeBudget(@, new)]
    /\ UNCHANGED <<fresh, opened, calls, approvals, active, revoked, local, approved, spent>>

\* ApprovalLedger.approve.
Approve(k) ==
    /\ approved[k] < MaxApprovals
    /\ approvals' = Evict(Put(approvals, k), MaxEntries)
    /\ approved' = [approved EXCEPT ![k] = @ + 1]
    /\ UNCHANGED <<fresh, opened, calls, tokens, active, revoked, local, spent>>

\* ApprovalLedger.revoke_run.
RevokeRun(run) ==
    /\ approvals' = [k \in Keys |-> IF k[1] = run THEN 0 ELSE approvals[k]]
    /\ UNCHANGED <<fresh, opened, calls, tokens, active, revoked, local, approved, spent>>

\* GrantStore.add of a newly minted grant.
MintGrant(g) ==
    /\ g \notin active \cup revoked
    /\ active' = active \cup {g}
    /\ UNCHANGED <<fresh, opened, calls, tokens, approvals, revoked, local, approved, spent>>

\* GrantStore.revoke, or the grant's expiry: for good.
RevokeGrant(g) ==
    /\ g \in active
    /\ active' = active \ {g}
    /\ revoked' = revoked \cup {g}
    /\ UNCHANGED <<fresh, opened, calls, tokens, approvals, local, approved, spent>>

-----------------------------------------------------------------------------
(* authorize, step by step.                                                *)

shared == <<fresh, opened, calls, tokens, approvals, active, revoked, approved, spent>>

Goto(t, label) == pc' = [pc EXCEPT ![t] = label]
Via(t, v) == via' = [via EXCEPT ![t] = v]

OverBudget(s) == tokens[s] > MaxTokens

\* _authenticate, under the lock. An unknown token, or one of another run, is
\* denied; otherwise the thread holds the record, also if it is closed later.
Authenticate(t, s, a) ==
    /\ pc[t] = "idle"
    /\ act' = [act EXCEPT ![t] = a] /\ sess' = [sess EXCEPT ![t] = s]
    /\ start' = [start EXCEPT ![t] = [revoked |-> revoked, open |-> opened[s] > 0,
                                      over |-> OverBudget(s)]]
    /\ Goto(t, IF opened[s] > 0 /\ RunOf[s] = a.run THEN "caps" ELSE "deny")
    /\ UNCHANGED <<shared, over, via>>

\* caps = record.capabilities, read without the lock.
ReadCaps(t) ==
    /\ pc[t] = "caps"
    /\ over' = [over EXCEPT ![t] = OverBudget(sess[t])]
    /\ Goto(t, "policy")
    /\ UNCHANGED <<shared, act, sess, via, start>>

\* The rules of budget_policy and agent_policy on the gateway's own figures. The
\* count includes this call, if it is a tool call.
WithinLimits(t) ==
    /\ ~over[t]
    /\ MaxToolCalls > 0 =>
         calls[sess[t]] + (IF act[t].tool THEN 1 ELSE 0) <= MaxToolCalls

\* Every policy must allow; an engine error denies. The policies also deny
\* actions for reasons of their own.
Policy(t) ==
    /\ pc[t] = "policy"
    /\ \/ WithinLimits(t) /\ Goto(t, "decide")
       \/ Goto(t, "deny")
    /\ UNCHANGED <<shared, act, sess, over, via, start>>

NeedsAsk(s, a) == a.risk = 3 \/ (a.risk = 2 /\ s \in Supervised)

\* Mutant of Grantable: standing grants also cover tainted actions.
Grantable_Tainted(a) == \E g \in active : a \in Covers[g]

\* A grant covers the action; none does for text read off a screen or a page.
Grantable(a) == ~a.tainted /\ \E g \in active : a \in Covers[g]

\* By risk class: R4 is denied; what needs no ask is allowed; the rest needs a
\* grant, looked up now, or an approval. A failing verifier grants nothing.
Decide(t) ==
    LET a == act[t]
        ask == a.risk < 4 /\ NeedsAsk(sess[t], a)
    IN
    /\ pc[t] = "decide"
    /\ \/ a.risk = 4 /\ Goto(t, "deny") /\ UNCHANGED via
       \/ a.risk < 4 /\ ~ask /\ Goto(t, "audit") /\ Via(t, "class")
       \/ ask /\ Grantable(a) /\ Goto(t, "audit") /\ Via(t, "grant")
       \/ ask /\ Goto(t, "consume") /\ UNCHANGED via
    /\ UNCHANGED <<shared, act, sess, over, start>>

\* Mutant of Consume: the entry is read, not popped.
Consume_KeepsEntry(t) ==
    LET k == Key(act[t]) IN
    /\ pc[t] = "consume"
    /\ \/ approvals[k] > 0 /\ spent' = [spent EXCEPT ![k] = @ + 1] /\ Via(t, "approval")
       \/ approvals[k] = 0 /\ Via(t, "ask") /\ UNCHANGED spent
    /\ Goto(t, "audit")
    /\ UNCHANGED <<fresh, opened, calls, tokens, approvals, active, revoked, approved,
                   act, sess, over, start>>

\* _ask_or_approved: consume pops the approval of this run and fingerprint.
Consume(t) ==
    LET k == Key(act[t]) IN
    /\ pc[t] = "consume"
    /\ \/ /\ approvals[k] > 0
          /\ approvals' = [approvals EXCEPT ![k] = 0]
          /\ spent' = [spent EXCEPT ![k] = @ + 1]
          /\ Via(t, "approval")
       \/ approvals[k] = 0 /\ Via(t, "ask") /\ UNCHANGED <<approvals, spent>>
    /\ Goto(t, "audit")
    /\ UNCHANGED <<fresh, opened, calls, tokens, active, revoked, approved,
                   act, sess, over, start>>

\* _finish: a failing audit sink turns the outcome into a deny. Only an allow
\* that took no approval goes on to be counted.
Audit(t) ==
    /\ pc[t] = "audit"
    /\ \/ via[t] = "ask" /\ Goto(t, "ask")
       \/ via[t] = "approval" /\ Goto(t, "allow")
       \/ via[t] \in {"class", "grant"} /\ Goto(t, IF act[t].tool THEN "count" ELSE "allow")
       \/ Goto(t, "deny")
    /\ UNCHANGED <<shared, act, sess, over, via, start>>

\* record.tool_calls_used += 1, under the lock, after the decision.
Count(t) ==
    /\ pc[t] = "count"
    /\ calls' = [calls EXCEPT ![sess[t]] = @ + 1]
    /\ Goto(t, "allow")
    /\ UNCHANGED <<fresh, opened, tokens, approvals, active, revoked, approved, spent,
                   act, sess, over, via, start>>

\* The caller has its decision; the locals are gone.
Return(t) ==
    /\ pc[t] \in {"allow", "ask", "deny"}
    /\ Goto(t, "idle") /\ Via(t, "none")
    /\ act' = [act EXCEPT ![t] = NoAction] /\ sess' = [sess EXCEPT ![t] = NoSession]
    /\ over' = [over EXCEPT ![t] = FALSE] /\ start' = [start EXCEPT ![t] = NoStart]
    /\ UNCHANGED shared

Call(t) ==
    \/ \E s \in Sessions, a \in Actions : Authenticate(t, s, a)
    \/ ReadCaps(t) \/ Policy(t) \/ Decide(t) \/ Consume(t) \/ Audit(t) \/ Count(t)
    \/ Return(t)

Next ==
    \/ \E s \in Sessions : OpenSession(s) \/ CloseSession(s) \/ ReportBudget(s)
    \/ \E k \in Keys : Approve(k)
    \/ \E a \in Actions : RevokeRun(a.run)
    \/ \E g \in Grants : MintGrant(g) \/ RevokeGrant(g)
    \/ \E t \in Threads : Call(t)

Spec == Init /\ [][Next]_vars

-----------------------------------------------------------------------------
(* Properties.                                                             *)

Allowed(t) == pc[t] \in {"count", "allow"}

\* An approval is good for one attempt: however approve, revoke_run and the
\* authorize calls of several threads interleave, attempts let through on approvals of
\* a key, and the one the ledger still holds, never outnumber the approve calls.
ApprovalSingleUse ==
    \A k \in Keys : spent[k] + (IF approvals[k] > 0 THEN 1 ELSE 0) <= approved[k]

\* authorize allows an action that needs an ask only on an approval, or on a grant
\* for an untainted action that was not revoked when the call began; it never
\* allows R4.
AllowIsJustified ==
    \A t \in Threads : Allowed(t) =>
        /\ act[t].risk < 4
        /\ NeedsAsk(sess[t], act[t]) =>
             \/ via[t] = "approval"
             \/ /\ via[t] = "grant" /\ ~act[t].tainted
                /\ \E g \in Grants \ start[t].revoked : act[t] \in Covers[g]

\* A call that begins after its session was closed or evicted, or after a report
\* put the session over its token budget, is not allowed, whatever is reported
\* while it runs (report_budget can only tighten).
StoppedSessionGetsNothing ==
    \A t \in Threads : Allowed(t) => start[t].open /\ ~start[t].over

\* The count is read before the policies run and raised after the decision, so
\* concurrent calls can pass max_tool_calls, but by fewer than there are threads.
\* (An approved call is not counted at all.)
ToolCallsBounded ==
    MaxToolCalls > 0 =>
        \A s \in Sessions : calls[s] <= MaxToolCalls + Cardinality(Threads) - 1

\* Sessions and approvals stay within max_sessions and max_entries.
LedgersBounded ==
    /\ Cardinality(Entries(opened)) <= MaxSessions
    /\ Cardinality(Entries(approvals)) <= MaxEntries
=============================================================================
