---------------------------- MODULE MentionLoop ----------------------------
(***************************************************************************)
(* run_agent_collaboration (apps/backend/app/main.py): after an agent has   *)
(* answered a run, the agents that the request and the answer mention, and  *)
(* the pinned members of the run's team, are called; each decides whether   *)
(* to respond, works in a bounded number of passes, and may mention others. *)
(* The lead states a conclusion at the end.  The calls are a queue; an      *)
(* event of the run is [agent, parent, kind], its id is its index and 0 is  *)
(* the opening answer.                                                      *)
(***************************************************************************)
EXTENDS Integers, Sequences, FiniteSets, SequencesExt

CONSTANTS
    Agents,        \* the handles that a message may mention
    Lead,          \* initial_agent_id, the author of the opening answer
    MaxTurns,      \* _resolve_collaboration_turns: 1..20
    MaxIterations, \* _resolve_agent_max_iterations: 1..50
    MaxMentions    \* bound: mentions of one message

ASSUME MentionLoopAssumption ==
    /\ IsFiniteSet(Agents) /\ Lead \in Agents
    /\ MaxTurns \in 1..20 /\ MaxIterations \in 1..50 /\ MaxMentions \in Nat

VARIABLES
    mPublished, \* the handles that resolve to a published agent
    mPinned,    \* seed_tokens
    mPc,        \* "start" | "loop" | "working" | "synthesis" | "done"
    mQueue,     \* the calls: [agent, parent, pinned]
    mVisited,   \* the (agent, parent) pairs already called
    mTurns,
    mCall,      \* the call that is being answered
    mIteration, \* the pass of the agent that works
    mEvents,
    mFailed     \* the loop stopped because a provider did not answer

mInput == <<mPublished, mPinned>>
mVars == <<mPublished, mPinned, mPc, mQueue, mVisited, mTurns, mCall, mIteration,
           mEvents, mFailed>>

\* _extract_agent_mentions: the handles of a text, in order, each once.
extract_agent_mentions == UNION {{s \in [1..n -> Agents] : IsInjective(s)} : n \in 0..MaxMentions}

Call(agent, parent, pinned) == [agent |-> agent, parent |-> parent, pinned |-> pinned]
Calls(tokens, parent, pinned) == [i \in DOMAIN tokens |-> Call(tokens[i], parent, pinned)]
Emit(kind, parent) == mEvents' = Append(mEvents, [agent |-> mCall.agent, parent |-> parent,
                                                  kind |-> kind])

----------------------------------------------------------------------------
MInit ==
    /\ mPublished \in SUBSET Agents
    /\ mPinned \in extract_agent_mentions
    /\ mPc = "start" /\ mQueue = <<>> /\ mVisited = {} /\ mTurns = 0
    /\ mCall = Call(Lead, 0, FALSE) /\ mIteration = 0
    /\ mEvents = <<>> /\ mFailed = FALSE

\* The mentions of the seed text come first, then the pinned members.
SeedCalls ==
    /\ mPc = "start"
    /\ mPc' = "loop"
    /\ \E ms \in extract_agent_mentions :
         mQueue' = Calls(ms, 0, FALSE) \o Calls(mPinned, 0, TRUE)
    /\ UNCHANGED <<mInput, mVisited, mTurns, mCall, mIteration, mEvents, mFailed>>

\* The calls that the loop passes over: no published agent of that name, the
\* author on its own opening message, a call that was made before.
Skipped(c) ==
    \/ c.agent \notin mPublished
    \/ c.agent = Lead /\ c.parent = 0
    \/ <<c.agent, c.parent>> \in mVisited

SkipCall ==
    /\ mPc = "loop" /\ mQueue # <<>> /\ mTurns < MaxTurns
    /\ Skipped(Head(mQueue))
    /\ mQueue' = Tail(mQueue)
    /\ UNCHANGED <<mInput, mPc, mVisited, mTurns, mCall, mIteration, mEvents, mFailed>>

\* agent_decides_to_respond: only an explicit refusal declines.
TakeCall(responds) ==
    /\ mPc = "loop" /\ mQueue # <<>> /\ mTurns < MaxTurns
    /\ ~Skipped(Head(mQueue))
    /\ LET c == Head(mQueue)
       IN  /\ mQueue' = Tail(mQueue)
           /\ mVisited' = mVisited \cup {<<c.agent, c.parent>>}
           /\ mTurns' = mTurns + 1
           /\ mCall' = c
           /\ IF responds
              THEN mPc' = "working" /\ mIteration' = 1 /\ UNCHANGED mEvents
              ELSE /\ mEvents' = Append(mEvents, [agent |-> c.agent, parent |-> c.parent,
                                                  kind |-> "declined"])
                   /\ UNCHANGED <<mPc, mIteration>>
    /\ UNCHANGED <<mInput, mFailed>>

\* run_agent_iterations: the agent asks for another pass; the last one is final.
ContinueWork ==
    /\ mPc = "working" /\ mIteration < MaxIterations
    /\ mIteration' = mIteration + 1
    /\ UNCHANGED <<mInput, mPc, mQueue, mVisited, mTurns, mCall, mEvents, mFailed>>

\* The answer is an event, and the agents it mentions are called under it.
AnswerCall ==
    /\ mPc = "working"
    /\ mPc' = "loop" /\ mIteration' = 0
    /\ Emit("answer", mCall.parent)
    /\ \E ms \in extract_agent_mentions :
         mQueue' = mQueue \o Calls(ms, Len(mEvents'), FALSE)
    /\ UNCHANGED <<mInput, mVisited, mTurns, mCall, mFailed>>

\* No provider, with an error event, or an answer that is not live, without.
FailCall(recorded) ==
    /\ mPc = "working"
    /\ mPc' = "synthesis" /\ mIteration' = 0
    /\ mFailed' = TRUE
    /\ IF recorded THEN Emit("error", mCall.parent) ELSE UNCHANGED mEvents
    /\ UNCHANGED <<mInput, mQueue, mVisited, mTurns, mCall>>

\* Mutant of LeaveLoop: the loop is left after the first round.
LeaveLoopEarly ==
    /\ mPc = "loop" /\ mTurns > 0
    /\ mPc' = "synthesis"
    /\ UNCHANGED <<mInput, mQueue, mVisited, mTurns, mCall, mIteration, mEvents, mFailed>>

LeaveLoop ==
    /\ mPc = "loop" /\ (mQueue = <<>> \/ mTurns >= MaxTurns)
    /\ mPc' = "synthesis"
    /\ UNCHANGED <<mInput, mQueue, mVisited, mTurns, mCall, mIteration, mEvents, mFailed>>

\* The lead's conclusion, if an agent was called, the lead is still defined
\* and its model answers.
Synthesize(live) ==
    /\ mPc = "synthesis" /\ mPc' = "done"
    /\ IF live /\ mTurns > 0
       THEN /\ mEvents' = Append(mEvents, [agent |-> Lead, parent |-> 0, kind |-> "conclusion"])
            /\ mTurns' = mTurns + 1
       ELSE UNCHANGED <<mEvents, mTurns>>
    /\ UNCHANGED <<mInput, mQueue, mVisited, mCall, mIteration, mFailed>>

MNext ==
    \/ SeedCalls
    \/ SkipCall
    \/ \E r \in BOOLEAN : TakeCall(r)
    \/ ContinueWork
    \/ AnswerCall
    \/ \E r \in BOOLEAN : FailCall(r)
    \/ LeaveLoop
    \/ \E l \in BOOLEAN : Synthesize(l)

\* The task's thread runs; a model call returns or times out.
MSpec == MInit /\ [][MNext]_mVars /\ WF_mVars(MNext)

----------------------------------------------------------------------------
Replies == {i \in DOMAIN mEvents : mEvents[i].kind # "conclusion"}

MTypeOK ==
    /\ mPc \in {"start", "loop", "working", "synthesis", "done"}
    /\ \A i \in DOMAIN mQueue : mQueue[i].agent \in Agents /\ mQueue[i].parent \in Nat
    /\ mVisited \subseteq Agents \X (0..MaxTurns)
    /\ mTurns \in 0..(MaxTurns + 1)
    /\ mIteration \in 0..MaxIterations

\* However the agents mention each other, each is heard at most once under a
\* message: the visited set covers the queue's duplicates.
OneReplyPerCall ==
    \A i, j \in Replies :
        mEvents[i].agent = mEvents[j].agent /\ mEvents[i].parent = mEvents[j].parent => i = j

\* The thread is a tree under the opening message: a reply, and a call that
\* still waits, hangs under the root or under an earlier answer.
RepliesFormAThread ==
    /\ \A i \in Replies :
         LET p == mEvents[i].parent
         IN  p = 0 \/ (p \in 1..(i - 1) /\ mEvents[p].kind = "answer")
    /\ \A k \in DOMAIN mQueue :
         LET p == mQueue[k].parent
         IN  p = 0 \/ (p \in DOMAIN mEvents /\ mEvents[p].kind = "answer")

\* The conclusion is the last event of an exchange, and there is none without
\* one: the lead does not conclude over nobody's reply but an error or a reply
\* that was not live.
ConclusionEndsTheExchange ==
    \A i \in DOMAIN mEvents \ Replies :
        /\ i = Len(mEvents)
        /\ i > 1 \/ mFailed

\* A pinned member of the team is heard on the opening message (it answers or
\* declines) unless the turns ran out or a provider failed.
PinnedAgentsAreHeard ==
    mPc = "done" /\ ~mFailed /\ Cardinality(Replies) < MaxTurns =>
        \A a \in (Range(mPinned) \cap mPublished) \ {Lead} :
            \E i \in Replies : mEvents[i].agent = a /\ mEvents[i].parent = 0

\* Mentions cannot keep the loop alive: it ends (its docstring).
CollaborationEnds == <>(mPc = "done")
=============================================================================
