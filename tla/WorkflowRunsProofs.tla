------------------------- MODULE WorkflowRunsProofs -------------------------
(***************************************************************************)
(* Proofs about WorkflowRuns for any number of tasks, workers, requests    *)
(* and restarts.  A status Running in memory or in the snapshot is carried *)
(* by a task that will still set it, and the tasks, the queue, the events  *)
(* and the console's cursor agree with each other.                         *)
(***************************************************************************)
EXTENDS WorkflowRuns, FiniteSetTheorems, TLAPS

Details == [status: RunStatuses \cup {"none"}, pending: BOOLEAN, asks: BOOLEAN, owner: Owners,
            arts: BOOLEAN]
Kinds == {"none", "chat", "compiled", "message", "dispatch"}
Stages == {"none", "queued", "calling", "collaborating", "done", "lost"}
Outcomes == {"none", "Done", "Needs Review", "Blocked"}
TaskRecords == [kind: Kinds, pc: Stages, owner: Owners, outcome: Outcomes, ask: BOOLEAN]

WTypes ==
    /\ wRun \in RunStatuses \cup {"none"} /\ wDisk[1] \in RunStatuses \cup {"none"}
    /\ wDetail \in Details /\ wDisk[2] \in Details
    /\ wInbox \subseteq {"Needs Approval", "Blocked by Guardrails"}
    /\ wDisk[4] \subseteq {"Needs Approval", "Blocked by Guardrails"}
    /\ wTask \in [Tasks -> TaskRecords]

\* The queue holds the queued tasks, each once; tasks are used in order.
QueueInv ==
    /\ wQueue \in Seq(Tasks)
    /\ \A i \in 1..Len(wQueue) : wTask[wQueue[i]].pc = "queued"
    /\ \A i, j \in 1..Len(wQueue) : wQueue[i] = wQueue[j] => i = j
    /\ \A t \in Tasks : wTask[t].pc = "queued" => \E i \in 1..Len(wQueue) : wQueue[i] = t
    /\ \E n \in 0..MaxTasks : {t \in Tasks : wTask[t].pc # "none"} = 1..n
    /\ Cardinality(Executing) <= RunWorkers

\* A task that will still set the status of the run: one that has not answered
\* yet, or a message, which sets it when its collaboration ends.
Unsettled(t) ==
    \/ wTask[t].pc \in {"queued", "calling", "lost"}
    \/ wTask[t].pc = "collaborating" /\ wTask[t].kind = "message"

CarriedInv ==
    /\ wRun = "Running" => \E t \in Tasks : Unsettled(t)
    /\ wDisk[1] = "Running" => \E t \in Tasks : Outstanding(t) \/ wTask[t].pc = "lost"
    /\ OpenStreamHasAWriter

Undecided(d) == d.pending => d.status \in {"Needs Review", "Failed"}
UndecidedInv == Undecided(wDetail) /\ Undecided(wDisk[2])

\* The events of the snapshot are the first events of the list, ids are fresh.
EventsInv ==
    /\ wNextId \in Nat
    /\ wEvents \in Seq(Nat) /\ wDisk[3] \in Seq(Nat)
    /\ \A i \in 1..Len(wEvents) : wEvents[i] < wNextId
    /\ \A i, j \in 1..Len(wEvents) : wEvents[i] = wEvents[j] => i = j
    /\ Len(wDisk[3]) <= Len(wEvents)
    /\ \A i \in 1..Len(wDisk[3]) : wDisk[3][i] = wEvents[i]

ViewStages == {"closed", "dropped", "events", "status", "ended"}
ViewTypes == [pc: ViewStages, cursor: Nat, seen: SUBSET Nat]

\* The console has seen what comes before its cursor.
ViewInv ==
    /\ wView \in ViewTypes
    /\ wView.cursor < wNextId
    /\ \A i \in 1..Len(wEvents) : wEvents[i] = wView.cursor =>
         \A j \in 1..i : wEvents[j] \in wView.seen

WInv == WTypes /\ QueueInv /\ CarriedInv /\ UndecidedInv /\ EventsInv /\ ViewInv

-----------------------------------------------------------------------------
\* The next task is one that was never used.
LEMMA UnusedIsNext ==
    ASSUME WTypes, QueueInv, NEW t \in Tasks, Unused(t)
    PROVE  /\ wTask[t].pc = "none"
           /\ {u \in Tasks : wTask[u].pc # "none"} = 1..(t - 1)
<1>1. PICK n \in 0..MaxTasks : {u \in Tasks : wTask[u].pc # "none"} = 1..n
  BY DEF QueueInv
<1>2. Cardinality(1..n) = n
  BY <1>1, FS_Interval, WorkflowRunsAssumption
<1>3. t = 1 + Cardinality(1..n)
  BY <1>1, Zenon DEF Unused
<1>4. t \notin 1..n /\ t - 1 = n
  BY <1>2, <1>3, WorkflowRunsAssumption
<1> QED
  BY <1>1, <1>4

\* What a step may do to the tasks and the queue.
TasksStay == wTask' = wTask /\ wQueue' = wQueue
TaskEnters(t) ==
    /\ Unused(t)
    /\ wTask'[t].pc = "queued" /\ wQueue' = Append(wQueue, t)
TaskRefused(t) == Unused(t) /\ wTask'[t].pc = "done" /\ wQueue' = wQueue
TaskMoves(t) ==
    /\ wTask[t].pc \in {"calling", "collaborating"}
    /\ wTask'[t].pc \in {"collaborating", "done"} /\ wTask'[t].kind = wTask[t].kind
    /\ wQueue' = wQueue
OnlyTask(t) ==
    /\ wTask' \in [Tasks -> TaskRecords]
    /\ \A u \in Tasks : u # t => wTask'[u] = wTask[u]

\* Setting one task leaves the others alone.
LEMMA TaskUpdate ==
    ASSUME wTask \in [Tasks -> TaskRecords], NEW t \in Tasks, NEW r \in TaskRecords,
           wTask' = [wTask EXCEPT ![t] = r]
    PROVE  OnlyTask(t) /\ wTask'[t] = r
  BY DEF OnlyTask

\* The details the handlers build have their types, and none is pending once
\* decided.
LEMMA DetailFields ==
    ASSUME WTypes, NEW q \in Owners, NEW t \in Tasks
    PROVE  /\ NoDetail \in Details
           /\ QueuedDetail(q) \in Details /\ ~QueuedDetail(q).pending
           /\ CommittedDetail(t) \in Details /\ Undecided(CommittedDetail(t))
<1>1. NoDetail \in Details
  BY DEF NoDetail, Details, RunStatuses, Owners
<1>2. wDetail \in Details
  BY DEF WTypes
<1>3. QueuedDetail(q) \in Details /\ ~QueuedDetail(q).pending
  BY <1>2 DEF QueuedDetail, Details, RunStatuses
<1>4. wTask[t].outcome \in RunStatuses \cup {"none"} /\ wTask[t].owner \in Owners
  BY DEF WTypes, TaskRecords, Outcomes, RunStatuses
<1>5. (wTask[t].outcome = "Needs Review") \in BOOLEAN
  OBVIOUS
<1>6. CommittedDetail(t) \in Details
  BY <1>2, <1>4, <1>5, Zenon DEF CommittedDetail, Details
<1>7. /\ CommittedDetail(t).pending = (wTask[t].outcome = "Needs Review")
      /\ CommittedDetail(t).status = wTask[t].outcome
  BY <1>2 DEF CommittedDetail, Details
<1>8. Undecided(CommittedDetail(t))
  BY <1>7 DEF Undecided
<1> QED
  BY <1>1, <1>3, <1>6, <1>8

\* The tasks stay, or one enters, is refused, starts or moves, or all outstanding ones are lost.
TaskEffect ==
    \/ TasksStay
    \/ \E t \in Tasks : OnlyTask(t) /\ (TaskEnters(t) \/ TaskRefused(t) \/ TaskMoves(t))
    \/ StartTask
    \/ RestartRuns

\* submit takes the next unused task and appends it to the queue.
LEMMA SubmitTasks ==
    ASSUME WTypes, NEW q \in Owners, NEW t \in Tasks,
           \/ create_run_blocked(t, q)
           \/ \E c \in BOOLEAN : create_workflow_run(t, q, c)
           \/ \E d \in BOOLEAN : send_run_message(t, q, d)
    PROVE  OnlyTask(t) /\ (TaskEnters(t) \/ TaskRefused(t))
<1> USE DEF WTypes
<1>0. wTask[t] \in TaskRecords
  OBVIOUS
<1>1. CASE create_run_blocked(t, q)
  <2>1. wTask' = [wTask EXCEPT ![t] = [wTask[t] EXCEPT !.pc = "done"]]
    BY <1>1 DEF create_run_blocked
  <2>2. [wTask[t] EXCEPT !.pc = "done"] \in TaskRecords /\ [wTask[t] EXCEPT !.pc = "done"].pc = "done"
    BY <1>0 DEF TaskRecords, Stages
  <2>3. OnlyTask(t) /\ wTask'[t].pc = "done"
    BY <2>1, <2>2, TaskUpdate
  <2> QED
    BY <1>1, <2>3 DEF create_run_blocked, admit_run, TaskRefused
<1>2. ASSUME NEW r \in TaskRecords, Unused(t), submit_run_task(t, r)
      PROVE  OnlyTask(t) /\ TaskEnters(t)
  <2>1. [r EXCEPT !.pc = "queued"] \in TaskRecords /\ [r EXCEPT !.pc = "queued"].pc = "queued"
    BY DEF TaskRecords, Stages
  <2>2. OnlyTask(t) /\ wTask'[t].pc = "queued"
    BY <1>2, <2>1, TaskUpdate DEF submit_run_task
  <2> QED
    BY <1>2, <2>2 DEF TaskEnters, submit_run_task
<1>3. ASSUME NEW c \in BOOLEAN, create_workflow_run(t, q, c)
      PROVE  OnlyTask(t) /\ TaskEnters(t)
  <2> DEFINE r == [NoTask EXCEPT !.kind = IF c THEN "compiled" ELSE "chat",
                                 !.owner = QueuedDetail(q).owner]
  <2>1. QueuedDetail(q).owner \in Owners
    BY DetailFields DEF Details
  <2>2. r \in TaskRecords
    BY <2>1 DEF NoTask, TaskRecords, Kinds, Stages, Outcomes
  <2>3. Unused(t) /\ submit_run_task(t, r)
    BY <1>3, Zenon DEF create_workflow_run, admit_run
  <2> QED
    BY <1>2, <2>2, <2>3
<1>4. ASSUME NEW d \in BOOLEAN, send_run_message(t, q, d)
      PROVE  OnlyTask(t) /\ TaskEnters(t)
  <2> DEFINE r == [NoTask EXCEPT !.kind = IF d THEN "dispatch" ELSE "message"]
  <2>2. r \in TaskRecords
    BY DEF NoTask, TaskRecords, Kinds, Stages, Outcomes, Owners
  <2>3. Unused(t) /\ submit_run_task(t, r)
    BY <1>4, Zenon DEF send_run_message
  <2> QED
    BY <1>2, <2>2, <2>3
<1> QED
  BY <1>1, <1>3, <1>4

\* A step of a worker moves one task along its stages.
LEMMA TaskStepMoves ==
    ASSUME WTypes, NEW t \in Tasks, TaskStep(t)
    PROVE  OnlyTask(t) /\ TaskMoves(t)
<1> USE DEF WTypes
<1>0. wTask[t] \in TaskRecords
  OBVIOUS
<1>1. ASSUME NEW p \in {"collaborating", "done"}, wTask[t].pc \in {"calling", "collaborating"},
             wTask' = [wTask EXCEPT ![t].pc = p], wQueue' = wQueue
      PROVE  OnlyTask(t) /\ TaskMoves(t)
  <2>1. wTask' = [wTask EXCEPT ![t] = [wTask[t] EXCEPT !.pc = p]]
    BY <1>1
  <2>2. /\ [wTask[t] EXCEPT !.pc = p] \in TaskRecords
        /\ [wTask[t] EXCEPT !.pc = p].pc = p
        /\ [wTask[t] EXCEPT !.pc = p].kind = wTask[t].kind
    BY <1>0 DEF TaskRecords, Stages
  <2>3. OnlyTask(t) /\ wTask'[t].pc = p /\ wTask'[t].kind = wTask[t].kind
    BY <2>1, <2>2, TaskUpdate
  <2> QED
    BY <1>1, <2>3 DEF TaskMoves
<1>2. CASE chat_provider_failed(t)
  BY <1>1, <1>2 DEF chat_provider_failed, Finished
<1>3. ASSUME NEW o \in {"Done", "Needs Review", "Blocked"}, NEW ask \in BOOLEAN,
             chat_answered(t, o, ask)
      PROVE  OnlyTask(t) /\ TaskMoves(t)
  <2> DEFINE r == [wTask[t] EXCEPT !.pc = "collaborating", !.outcome = o, !.ask = ask]
  <2>1. wTask' = [wTask EXCEPT ![t] = r]
    BY <1>3 DEF chat_answered
  <2>2. r \in TaskRecords /\ r.pc = "collaborating" /\ r.kind = wTask[t].kind
    BY <1>0 DEF TaskRecords, Stages, Outcomes
  <2>3. OnlyTask(t) /\ wTask'[t] = r
    BY <2>1, <2>2, TaskUpdate
  <2> QED
    BY <1>3, <2>2, <2>3 DEF TaskMoves, chat_answered
<1>4. CASE chat_committed(t)
  BY <1>1, <1>4 DEF chat_committed, Finished
<1>5. CASE chat_raised(t)
  BY <1>1, <1>5 DEF chat_raised, Finished
<1>6. CASE compiled_failed(t)
  BY <1>1, <1>6 DEF compiled_failed, Finished
<1>7. CASE compiled_handed_back(t)
  BY <1>1, <1>7 DEF compiled_handed_back, Finished
<1>8. CASE message_answered(t)
  BY <1>1, <1>8 DEF message_answered
<1>9. CASE message_finished(t)
  BY <1>1, <1>9 DEF message_finished, Finished
<1>10. CASE dispatch_finished(t)
  BY <1>1, <1>10 DEF dispatch_finished, Finished
<1>11. CASE message_failed(t)
  BY <1>1, <1>11 DEF message_failed, Finished
<1> QED
  BY <1>2, <1>3, <1>4, <1>5, <1>6, <1>7, <1>8, <1>9, <1>10, <1>11 DEF TaskStep

\* What any step may do to the tasks and the queue.
LEMMA WhatTasksDo ==
    ASSUME WTypes, WNext PROVE TaskEffect
<1>1. ASSUME NEW q \in Owners, Submit(q) PROVE TaskEffect
  BY <1>1, SubmitTasks, Zenon DEF TaskEffect, Submit
<1>2. ASSUME NEW q \in Owners, Operator(q) PROVE TaskEffect
  BY <1>2 DEF Operator, archive_workflow_run, submit_approval, approve_run_escalation,
              get_workflow_run, Request, TaskEffect, TasksStay
<1>3. ASSUME NEW t \in Tasks, TaskStep(t) PROVE TaskEffect
  BY <1>3, TaskStepMoves, Zenon DEF TaskEffect
<1>4. ASSUME NEW t \in Tasks, RaiseEscalation(t) PROVE TaskEffect
  BY <1>4 DEF RaiseEscalation, TaskEffect, TasksStay
<1>5. CASE OtherPersist
  BY <1>5 DEF OtherPersist, TaskEffect, TasksStay
<1>6. CASE Console
  BY <1>6 DEF Console, OpenStream, SendEvents, SendStatus, RotateStream, TaskEffect, TasksStay
<1>7. CASE StartTask \/ RestartRuns
  BY <1>7 DEF TaskEffect
<1> QED
  BY <1>1, <1>2, <1>3, <1>4, <1>5, <1>6, <1>7, Zenon DEF WNext

\* What StartTask does to the task it takes.
LEMMA HeadStarts ==
    ASSUME WTypes, QueueInv, StartTask
    PROVE  /\ Head(wQueue) \in Tasks /\ wTask[Head(wQueue)].pc = "queued"
           /\ OnlyTask(Head(wQueue))
           /\ wTask'[Head(wQueue)].pc = "calling"
           /\ wTask'[Head(wQueue)].kind = wTask[Head(wQueue)].kind
<1> DEFINE h == Head(wQueue)
<1>1. h \in Tasks /\ h = wQueue[1] /\ 1 \in 1..Len(wQueue)
  BY DEF QueueInv, StartTask
<1>a. wTask[wQueue[1]].pc = "queued"
  BY <1>1 DEF QueueInv
<1>b. wTask[h] \in TaskRecords
  BY <1>1 DEF WTypes
<1>2. wTask[h].pc = "queued" /\ wTask[h] \in TaskRecords
  BY <1>1, <1>a, <1>b
<1> DEFINE r == [wTask[h] EXCEPT !.pc = "calling"]
<1>3. r \in TaskRecords /\ r.pc = "calling" /\ r.kind = wTask[h].kind
  BY <1>2 DEF TaskRecords, Stages
<1>4. wTask' = [wTask EXCEPT ![h] = r]
  BY DEF StartTask
<1>5. OnlyTask(h) /\ wTask'[h] = r
  BY <1>1, <1>3, <1>4, TaskUpdate DEF WTypes
<1> QED
  BY <1>1, <1>2, <1>3, <1>5

\* A restart loses the outstanding tasks and changes no other.
LEMMA RestartLoses ==
    ASSUME WTypes, RestartRuns
    PROVE  /\ wTask' \in [Tasks -> TaskRecords]
           /\ \A t \in Tasks : IF Outstanding(t) THEN wTask'[t].pc = "lost" ELSE wTask'[t] = wTask[t]
<1> SUFFICES ASSUME NEW t \in Tasks
             PROVE  /\ wTask'[t] \in TaskRecords
                    /\ IF Outstanding(t) THEN wTask'[t].pc = "lost" ELSE wTask'[t] = wTask[t]
  BY DEF RestartRuns
<1>1. wTask[t] \in TaskRecords
  BY DEF WTypes
<1>2. wTask'[t] = IF Outstanding(t) THEN [wTask[t] EXCEPT !.pc = "lost"] ELSE wTask[t]
  BY DEF RestartRuns
<1>3. [wTask[t] EXCEPT !.pc = "lost"] \in TaskRecords /\ [wTask[t] EXCEPT !.pc = "lost"].pc = "lost"
  BY <1>1 DEF TaskRecords, Stages
<1> QED
  BY <1>1, <1>2, <1>3

\* The tasks under way are finitely many.
LEMMA ExecutingIsFinite ==
    ASSUME WTypes PROVE IsFiniteSet(Executing) /\ Cardinality(Executing) \in Nat
<1>1. IsFiniteSet(Tasks)
  BY FS_Interval, WorkflowRunsAssumption DEF Tasks
<1>2. Executing \subseteq Tasks
  BY DEF Executing
<1> QED
  BY <1>1, <1>2, FS_Subset, FS_CardinalityType

\* The queue, the order in which tasks are used and the bound on the workers.
LEMMA QueueStep ==
    ASSUME WTypes, QueueInv, TaskEffect PROVE QueueInv'
<1> DEFINE Used == {t \in Tasks : wTask[t].pc # "none"}
<1>0. IsFiniteSet(Executing) /\ Cardinality(Executing) \in Nat /\ RunWorkers \in Nat
  BY ExecutingIsFinite, WorkflowRunsAssumption
<1>a. ASSUME Executing' \subseteq Executing PROVE Cardinality(Executing)' <= RunWorkers
  <2>1. Cardinality(Executing') <= Cardinality(Executing) /\ Cardinality(Executing') \in Nat
    BY <1>0, <1>a, FS_Subset, FS_CardinalityType
  <2> QED
    BY <1>0, <2>1 DEF QueueInv
<1>1. CASE TasksStay
  BY <1>1 DEF TasksStay, QueueInv, Executing
<1>2. ASSUME NEW t \in Tasks, OnlyTask(t), TaskEnters(t) PROVE QueueInv'
  <2>1. wTask[t].pc = "none" /\ Used = 1..(t - 1)
    BY <1>2, UnusedIsNext DEF TaskEnters
  <2>2. wQueue' \in Seq(Tasks) /\ Len(wQueue') = Len(wQueue) + 1
        /\ wQueue'[Len(wQueue) + 1] = t
        /\ \A i \in 1..Len(wQueue) : wQueue'[i] = wQueue[i] /\ wQueue[i] \in Tasks
    BY <1>2 DEF TaskEnters, QueueInv
  <2>3. \A i \in 1..Len(wQueue) : wQueue[i] # t
    BY <2>1 DEF QueueInv
  <2>4. \A i \in 1..Len(wQueue') : wTask'[wQueue'[i]].pc = "queued"
    BY <1>2, <2>2, <2>3 DEF QueueInv, TaskEnters, OnlyTask
  <2>5. \A i, j \in 1..Len(wQueue') : wQueue'[i] = wQueue'[j] => i = j
    BY <2>2, <2>3 DEF QueueInv
  <2>6. \A u \in Tasks : wTask'[u].pc = "queued" => \E i \in 1..Len(wQueue') : wQueue'[i] = u
    <3> SUFFICES ASSUME NEW u \in Tasks, wTask'[u].pc = "queued"
                 PROVE  \E i \in 1..Len(wQueue') : wQueue'[i] = u
      OBVIOUS
    <3>1. CASE u = t
      BY <2>2, <3>1 DEF QueueInv
    <3>2. CASE u # t
      <4>1. PICK i \in 1..Len(wQueue) : wQueue[i] = u
        BY <1>2, <3>2 DEF OnlyTask, QueueInv
      <4> QED
        BY <2>2, <4>1 DEF QueueInv
    <3> QED
      BY <3>1, <3>2
  <2>7. Used' = 1..t
    BY <1>2, <2>1 DEF OnlyTask, TaskEnters, Tasks
  <2>8. Executing' \subseteq Executing
    BY <1>2 DEF Executing, OnlyTask, TaskEnters
  <2>9. t \in 0..MaxTasks
    BY DEF Tasks
  <2> QED
    BY <1>a, <2>2, <2>4, <2>5, <2>6, <2>7, <2>8, <2>9 DEF QueueInv
<1>3. ASSUME NEW t \in Tasks, OnlyTask(t), TaskRefused(t) PROVE QueueInv'
  <2>1. wTask[t].pc = "none" /\ Used = 1..(t - 1)
    BY <1>3, UnusedIsNext DEF TaskRefused
  <2>2. \A i \in 1..Len(wQueue) : wQueue[i] # t /\ wQueue[i] \in Tasks
    BY <2>1 DEF QueueInv
  <2>3. Used' = 1..t
    BY <1>3, <2>1 DEF OnlyTask, TaskRefused, Tasks
  <2>4. Executing' \subseteq Executing
    BY <1>3 DEF Executing, OnlyTask, TaskRefused
  <2>5. t \in 0..MaxTasks
    BY DEF Tasks
  <2>6. \A i \in 1..Len(wQueue) : wTask'[wQueue[i]].pc = "queued"
    BY <1>3, <2>2 DEF OnlyTask, QueueInv
  <2>7. \A u \in Tasks : wTask'[u].pc = "queued" => \E i \in 1..Len(wQueue) : wQueue[i] = u
    BY <1>3 DEF OnlyTask, QueueInv, TaskRefused
  <2> QED
    BY <1>a, <1>3, <2>3, <2>4, <2>5, <2>6, <2>7 DEF QueueInv, TaskRefused
<1>4. ASSUME NEW t \in Tasks, OnlyTask(t), TaskMoves(t) PROVE QueueInv'
  <2>1. \A i \in 1..Len(wQueue) : wQueue[i] # t /\ wQueue[i] \in Tasks
    BY <1>4 DEF QueueInv, TaskMoves
  <2>2. Used' = Used
    BY <1>4 DEF OnlyTask, TaskMoves
  <2>3. Executing' \subseteq Executing
    BY <1>4 DEF Executing, OnlyTask, TaskMoves
  <2>4. \A i \in 1..Len(wQueue) : wTask'[wQueue[i]].pc = "queued"
    BY <1>4, <2>1 DEF OnlyTask, QueueInv
  <2>5. \A u \in Tasks : wTask'[u].pc = "queued" => \E i \in 1..Len(wQueue) : wQueue[i] = u
    BY <1>4 DEF OnlyTask, QueueInv, TaskMoves
  <2>6. \E n \in 0..MaxTasks : Used = 1..n
    BY DEF QueueInv
  <2> QED
    BY <1>a, <1>4, <2>2, <2>3, <2>4, <2>5, <2>6 DEF QueueInv, TaskMoves
<1>5. CASE StartTask
  <2> DEFINE h == Head(wQueue)
  <2>1. /\ h \in Tasks /\ wTask[h].pc = "queued" /\ OnlyTask(h) /\ wTask'[h].pc = "calling"
    BY <1>5, HeadStarts
  <2>2. /\ wQueue' \in Seq(Tasks) /\ Len(wQueue') = Len(wQueue) - 1 /\ Len(wQueue) \in Nat \ {0}
        /\ h = wQueue[1]
        /\ \A i \in 1..Len(wQueue') : wQueue'[i] = wQueue[i + 1]
    BY <1>5 DEF StartTask, QueueInv
  <2>3. \A i \in 1..Len(wQueue') : i + 1 \in 1..Len(wQueue) /\ wQueue'[i] # h /\ wQueue'[i] \in Tasks
    BY <2>2 DEF QueueInv
  <2>a. \A i \in 1..Len(wQueue') : wTask[wQueue'[i]].pc = "queued"
    BY <2>2, <2>3 DEF QueueInv
  <2>4. \A i \in 1..Len(wQueue') : wTask'[wQueue'[i]].pc = "queued"
    BY <2>1, <2>3, <2>a DEF OnlyTask
  <2>5. \A i, j \in 1..Len(wQueue') : wQueue'[i] = wQueue'[j] => i = j
    BY <2>2, <2>3 DEF QueueInv
  <2>6. \A u \in Tasks : wTask'[u].pc = "queued" => \E i \in 1..Len(wQueue') : wQueue'[i] = u
    <3> SUFFICES ASSUME NEW u \in Tasks, wTask'[u].pc = "queued"
                 PROVE  \E i \in 1..Len(wQueue') : wQueue'[i] = u
      OBVIOUS
    <3>1. u # h
      BY <2>1
    <3>2. PICK i \in 1..Len(wQueue) : wQueue[i] = u
      BY <2>1, <3>1 DEF OnlyTask, QueueInv
    <3>3. i - 1 \in 1..Len(wQueue') /\ wQueue'[i - 1] = u
      BY <2>2, <3>1, <3>2
    <3> QED
      BY <3>3
  <2>7. Used' = Used
    BY <2>1 DEF OnlyTask
  <2>8. Executing' = Executing \cup {h} /\ h \notin Executing
    BY <2>1 DEF Executing, OnlyTask
  <2>9. Cardinality(Executing') = Cardinality(Executing) + 1
    BY <1>0, <2>8, FS_AddElement
  <2>10. Cardinality(Executing') <= RunWorkers
    BY <1>0, <1>5, <2>9 DEF StartTask
  <2>11. \E n \in 0..MaxTasks : Used = 1..n
    BY DEF QueueInv
  <2> QED
    BY <2>2, <2>4, <2>5, <2>6, <2>7, <2>10, <2>11, Zenon DEF QueueInv
<1>6. CASE RestartRuns
  <2>1. \A t \in Tasks : IF Outstanding(t) THEN wTask'[t].pc = "lost" ELSE wTask'[t] = wTask[t]
    BY <1>6, RestartLoses
  <2>2. wQueue' = <<>>
    BY <1>6 DEF RestartRuns
  <2>3. Used' = Used
    BY <2>1 DEF Outstanding
  <2>4. Executing' \subseteq Executing
    BY <2>1 DEF Executing, Outstanding
  <2>5. \A t \in Tasks : wTask'[t].pc # "queued"
    BY <2>1 DEF Outstanding
  <2>6. \E n \in 0..MaxTasks : Used = 1..n
    BY DEF QueueInv
  <2>7. wQueue' \in Seq(Tasks) /\ Len(wQueue') = 0
    BY <2>2
  <2> QED
    BY <1>a, <2>3, <2>4, <2>5, <2>6, <2>7 DEF QueueInv
<1> QED
  BY <1>1, <1>2, <1>3, <1>4, <1>5, <1>6, Zenon DEF TaskEffect

-----------------------------------------------------------------------------
\* A snapshot is written of what the step leaves, or stays.
LEMMA WhatIsWritten ==
    ASSUME WNext
    PROVE  wDisk' = wDisk \/ wDisk' = <<wRun', wDetail', wEvents', wInbox'>>
<1>1. ASSUME NEW q \in Owners, NEW t \in Tasks,
             \/ create_run_blocked(t, q)
             \/ \E c \in BOOLEAN : create_workflow_run(t, q, c)
             \/ \E d \in BOOLEAN : send_run_message(t, q, d)
      PROVE  persist_run
  BY <1>1 DEF create_run_blocked, create_workflow_run, send_run_message
<1>2. ASSUME NEW q \in Owners, Operator(q) PROVE persist_run
  BY <1>2 DEF Operator, archive_workflow_run, submit_approval, approve_run_escalation,
              get_workflow_run
<1>3. ASSUME NEW t \in Tasks, TaskStep(t) PROVE wDisk' = wDisk \/ persist_run
  BY <1>3 DEF TaskStep, chat_provider_failed, chat_answered, chat_committed, chat_raised,
              compiled_failed, compiled_handed_back, message_answered, message_finished,
              dispatch_finished, message_failed
<1>4. ASSUME NEW t \in Tasks, RaiseEscalation(t) PROVE wDisk' = wDisk
  BY <1>4 DEF RaiseEscalation
<1>5. ASSUME OtherPersist PROVE persist_run
  BY <1>5 DEF OtherPersist, wStore, persist_run
<1>6. ASSUME Console PROVE wDisk' = wDisk
  BY <1>6 DEF Console, OpenStream, SendEvents, SendStatus, RotateStream
<1>7. ASSUME StartTask \/ RestartRuns PROVE wDisk' = wDisk
  BY <1>7 DEF StartTask, RestartRuns
<1>8. wDisk' = wDisk \/ persist_run
  BY <1>1, <1>2, <1>3, <1>4, <1>5, <1>6, <1>7, Zenon DEF WNext, Submit
<1> QED
  BY <1>8 DEF persist_run

\* The type of the run and of its tasks.
LEMMA TaskTypes ==
    ASSUME WTypes, QueueInv, TaskEffect PROVE wTask' \in [Tasks -> TaskRecords]
<1>1. ASSUME StartTask PROVE wTask' \in [Tasks -> TaskRecords]
  BY <1>1, HeadStarts DEF OnlyTask
<1>2. ASSUME RestartRuns PROVE wTask' \in [Tasks -> TaskRecords]
  BY <1>2, RestartLoses
<1>3. ASSUME TasksStay PROVE wTask' \in [Tasks -> TaskRecords]
  BY <1>3 DEF TasksStay, WTypes
<1> QED
  BY <1>1, <1>2, <1>3, Zenon DEF TaskEffect, OnlyTask

RunFits == /\ wRun' \in RunStatuses \cup {"none"}
           /\ wDetail' \in Details /\ Undecided(wDetail')
           /\ wInbox' \subseteq {"Needs Approval", "Blocked by Guardrails"}

\* A task leaves well-typed details that ask for an approval only when they are undecided.
LEMMA TaskStepFits ==
    ASSUME WTypes, UndecidedInv, NEW t \in Tasks, TaskStep(t) PROVE RunFits
<1>0. /\ wDetail \in Details /\ Undecided(wDetail) /\ wTask[t].owner \in Owners
      /\ NoDetail \in Details /\ CommittedDetail(t) \in Details /\ Undecided(CommittedDetail(t))
  <2>1. "user" \in Owners
    BY DEF Owners
  <2> QED
    BY <2>1, DetailFields DEF WTypes, UndecidedInv, TaskRecords
<1>s. /\ "Failed" \in RunStatuses /\ "Needs Review" \in RunStatuses /\ "Done" \in RunStatuses
      /\ "Blocked" \in RunStatuses
  BY DEF RunStatuses
<1> USE DEF RunFits
<1>1. CASE chat_provider_failed(t)
  <2>1. /\ wRun' = "Failed" /\ wInbox' = wInbox
        /\ wDetail' = [wDetail EXCEPT !.status = "Failed", !.pending = FALSE,
                                      !.owner = wTask[t].owner, !.arts = TRUE]
    BY <1>1 DEF chat_provider_failed
  <2>d. wDetail' \in Details
    BY <1>0, <1>s, <2>1 DEF Details
  <2>e. Undecided(wDetail')
    BY <1>0, <1>s, <2>1 DEF Details, Undecided
  <2> QED
    BY <1>s, <2>1, <2>d, <2>e DEF WTypes
<1>2. ASSUME NEW o \in {"Done", "Needs Review", "Blocked"}, NEW ask \in BOOLEAN,
             chat_answered(t, o, ask)
      PROVE  RunFits
  BY <1>0, <1>2, <1>s DEF chat_answered, WTypes
<1>3. CASE chat_committed(t)
  BY <1>0, <1>3 DEF chat_committed, WTypes
<1>4. CASE chat_raised(t)
  <2> DEFINE b == IF wTask[t].pc = "calling" THEN wDetail ELSE CommittedDetail(t)
  <2>1. b \in Details
    BY <1>0
  <2>2. /\ wRun' = "Failed" /\ wInbox' = wInbox
        /\ wDetail' = [b EXCEPT !.status = "Failed", !.owner = wTask[t].owner]
    BY <1>4 DEF chat_raised
  <2> HIDE DEF b
  <2>d. wDetail' \in Details
    BY <1>0, <1>s, <2>1, <2>2 DEF Details
  <2>e. Undecided(wDetail')
    BY <1>0, <1>s, <2>1, <2>2 DEF Details, Undecided
  <2> QED
    BY <1>s, <2>1, <2>2, <2>d, <2>e DEF WTypes
<1>5. CASE compiled_failed(t)
  <2>1. /\ wRun' = "Failed" /\ wInbox' = wInbox
        /\ wDetail' = [NoDetail EXCEPT !.status = "Failed", !.owner = wTask[t].owner]
    BY <1>5 DEF compiled_failed
  <2>d. wDetail' \in Details
    BY <1>0, <1>s, <2>1 DEF Details
  <2>e. Undecided(wDetail')
    BY <1>0, <1>s, <2>1 DEF Details, Undecided
  <2> QED
    BY <1>s, <2>1, <2>d, <2>e DEF WTypes
<1>6. CASE compiled_handed_back(t)
  <2>1. /\ wRun' = "Needs Review" /\ wInbox' = wInbox
        /\ wDetail' = [NoDetail EXCEPT !.status = "Needs Review", !.pending = TRUE,
                                       !.owner = wTask[t].owner, !.arts = TRUE]
    BY <1>6 DEF compiled_handed_back
  <2>d. wDetail' \in Details
    BY <1>0, <1>s, <2>1 DEF Details
  <2>e. Undecided(wDetail')
    BY <1>0, <1>s, <2>1 DEF Details, Undecided
  <2> QED
    BY <1>s, <2>1, <2>d, <2>e DEF WTypes
<1>7. CASE message_answered(t) \/ message_finished(t) \/ dispatch_finished(t) \/ message_failed(t)
  BY <1>0, <1>7, <1>s DEF message_answered, message_finished, dispatch_finished, message_failed, WTypes
<1> QED
  BY <1>1, <1>2, <1>3, <1>4, <1>5, <1>6, <1>7 DEF TaskStep

\* So does a request of an operator.
LEMMA OperatorFits ==
    ASSUME WTypes, UndecidedInv, NEW q \in Owners, Operator(q) PROVE RunFits
<1>0. wDetail \in Details /\ Undecided(wDetail) /\ NoDetail \in Details /\ ~NoDetail.pending
  BY DEF WTypes, UndecidedInv, NoDetail, Details, RunStatuses, Owners
<1>s. /\ "Archived" \in RunStatuses /\ "Needs Review" \in RunStatuses /\ "Done" \in RunStatuses
  BY DEF RunStatuses
<1> USE DEF RunFits
<1>1. CASE archive_workflow_run(q)
  <2>1. /\ wRun' = "Archived" /\ wInbox' = {}
        /\ \/ wDetail' = NoDetail
           \/ wDetail' = [wDetail EXCEPT !.status = "Archived", !.pending = FALSE]
    BY <1>1 DEF archive_workflow_run
  <2>d. wDetail' \in Details
    BY <1>0, <1>s, <2>1 DEF Details
  <2>e. Undecided(wDetail')
    BY <1>0, <1>s, <2>1 DEF Details, Undecided
  <2> QED
    BY <1>s, <2>1, <2>d, <2>e DEF WTypes
<1>2. ASSUME NEW a \in BOOLEAN, submit_approval(q, a) PROVE RunFits
  <2>1. CASE a
    <3>1. /\ wRun' = "Done" /\ wInbox' = {}
          /\ wDetail' = [wDetail EXCEPT !.status = "Done", !.pending = ~a]
      BY <1>2, <2>1 DEF submit_approval
    <3>2. (~a) = FALSE
      BY <2>1
    <3>3. wDetail' = [wDetail EXCEPT !.status = "Done", !.pending = FALSE]
      BY <3>1, <3>2, Zenon
    <3>d. wDetail' \in Details
      BY <1>0, <1>s, <3>1, <3>3 DEF Details
    <3>e. Undecided(wDetail')
      BY <1>0, <1>s, <3>1, <3>3 DEF Details, Undecided
    <3> QED
      BY <1>s, <3>1, <3>3, <3>d, <3>e DEF WTypes
  <2>2. CASE ~a
    <3>1. /\ wRun' = "Needs Review" /\ wInbox' = wInbox
          /\ wDetail' = [wDetail EXCEPT !.status = "Needs Review", !.pending = ~a]
      BY <1>2, <2>2 DEF submit_approval
    <3>2. (~a) = TRUE
      BY <2>2
    <3>3. wDetail' = [wDetail EXCEPT !.status = "Needs Review", !.pending = TRUE]
      BY <3>1, <3>2
    <3>d. wDetail' \in Details
      BY <1>0, <1>s, <3>1, <3>3 DEF Details
    <3>e. Undecided(wDetail')
      BY <1>0, <1>s, <3>1, <3>3 DEF Details, Undecided
    <3> QED
      BY <1>s, <3>1, <3>3, <3>d, <3>e DEF WTypes
  <2> QED
    BY <2>1, <2>2
<1>3. CASE approve_run_escalation(q)
  <2>1. /\ wRun' = wRun /\ wInbox' = wInbox /\ wDetail' = [wDetail EXCEPT !.asks = FALSE]
    BY <1>3 DEF approve_run_escalation
  <2>d. wDetail' \in Details
    BY <1>0, <1>s, <2>1 DEF Details
  <2>e. Undecided(wDetail')
    BY <1>0, <1>s, <2>1 DEF Details, Undecided
  <2> QED
    BY <1>s, <2>1, <2>d, <2>e DEF WTypes
<1>4. CASE get_workflow_run(q)
  <2>1. /\ wRun' = wRun /\ wInbox' = wInbox /\ wDetail' = [wDetail EXCEPT !.arts = TRUE]
    BY <1>4 DEF get_workflow_run
  <2>d. wDetail' \in Details
    BY <1>0, <1>s, <2>1 DEF Details
  <2>e. Undecided(wDetail')
    BY <1>0, <1>s, <2>1 DEF Details, Undecided
  <2> QED
    BY <1>s, <2>1, <2>d, <2>e DEF WTypes
<1> QED
  BY <1>1, <1>2, <1>3, <1>4 DEF Operator

\* And so does every step.
LEMMA StepFits ==
    ASSUME WTypes, UndecidedInv, WNext PROVE RunFits
<1>0. wDetail \in Details /\ Undecided(wDetail) /\ wDisk[2] \in Details /\ Undecided(wDisk[2])
  BY DEF WTypes, UndecidedInv
<1>1. ASSUME NEW q \in Owners, NEW t \in Tasks, create_run_blocked(t, q) PROVE RunFits
  <2>1. /\ wRun' = "Blocked" /\ wInbox' = wInbox \cup {"Blocked by Guardrails"}
        /\ wDetail' = [NoDetail EXCEPT !.status = "Blocked", !.owner = q]
    BY <1>1 DEF create_run_blocked
  <2>2. wDetail' \in Details /\ ~wDetail'.pending
    BY <2>1 DEF NoDetail, Details, RunStatuses
  <2> QED
    BY <2>1, <2>2 DEF RunFits, WTypes, Undecided, RunStatuses
<1>2. ASSUME NEW q \in Owners, NEW t \in Tasks, NEW c \in BOOLEAN, create_workflow_run(t, q, c)
      PROVE  RunFits
  <2>1. wRun' = "Running" /\ wInbox' = wInbox /\ wDetail' = QueuedDetail(q)
    BY <1>2 DEF create_workflow_run
  <2>2. QueuedDetail(q) \in Details /\ ~QueuedDetail(q).pending
    BY DetailFields
  <2> QED
    BY <2>1, <2>2 DEF RunFits, WTypes, Undecided, RunStatuses
<1>3. ASSUME NEW q \in Owners, NEW t \in Tasks, NEW d \in BOOLEAN, send_run_message(t, q, d)
      PROVE  RunFits
  BY <1>0, <1>3 DEF send_run_message, RunFits, WTypes, RunStatuses
<1>4. ASSUME NEW q \in Owners, Operator(q) PROVE RunFits
  BY <1>4, OperatorFits
<1>5. ASSUME NEW t \in Tasks, TaskStep(t) PROVE RunFits
  BY <1>5, TaskStepFits
<1>6. ASSUME NEW t \in Tasks, RaiseEscalation(t) PROVE RunFits
  <2>1. wRun' = wRun /\ wInbox' = wInbox /\ wDetail' = [wDetail EXCEPT !.asks = TRUE]
    BY <1>6 DEF RaiseEscalation
  <2>2. wDetail' \in Details /\ Undecided(wDetail')
    BY <1>0, <2>1 DEF Details, Undecided
  <2> QED
    BY <2>1, <2>2 DEF RunFits, WTypes
<1>7. CASE StartTask \/ OtherPersist \/ Console
  <2>1. wRun' = wRun /\ wInbox' = wInbox /\ wDetail' = wDetail
    BY <1>7 DEF StartTask, OtherPersist, Console, OpenStream, SendEvents, SendStatus, RotateStream,
                wStore
  <2> QED
    BY <1>0, <2>1 DEF RunFits, WTypes
<1>8. CASE RestartRuns
  BY <1>0, <1>8 DEF RestartRuns, RunFits, WTypes
<1> QED
  BY <1>1, <1>2, <1>3, <1>4, <1>5, <1>6, <1>7, <1>8, Zenon DEF WNext, Submit

\* Every step preserves the types.
LEMMA TypesStep ==
    ASSUME WTypes, QueueInv, UndecidedInv, WNext PROVE WTypes' /\ UndecidedInv'
<1>1. RunFits /\ wTask' \in [Tasks -> TaskRecords]
  BY StepFits, WhatTasksDo, TaskTypes
<1>2. CASE wDisk' = wDisk
  BY <1>1, <1>2 DEF RunFits, WTypes, UndecidedInv
<1>3. CASE wDisk' = <<wRun', wDetail', wEvents', wInbox'>>
  <2>1. wDisk'[1] = wRun' /\ wDisk'[2] = wDetail' /\ wDisk'[4] = wInbox'
    BY <1>3
  <2> QED
    BY <1>1, <2>1 DEF RunFits, WTypes, UndecidedInv
<1> QED
  BY <1>2, <1>3, WhatIsWritten

-----------------------------------------------------------------------------
(* Who carries a run that is running, and who closes its stream.           *)

\* What a step of a task leaves of the obligations of the others.
LEMMA OthersStay ==
    ASSUME WTypes, NEW t \in Tasks, OnlyTask(t), NEW u \in Tasks, u # t
    PROVE  /\ Unsettled(u) => Unsettled(u)'
           /\ Outstanding(u) => Outstanding(u)'
           /\ wTask'[u] = wTask[u]
  BY DEF OnlyTask, Unsettled, Outstanding

\* A step that keeps the tasks, or starts one, keeps who is outstanding.
LEMMA StartKeeps ==
    ASSUME WTypes, QueueInv, TasksStay \/ StartTask, NEW u \in Tasks
    PROVE  /\ Unsettled(u) => Unsettled(u)'
           /\ Outstanding(u) => Outstanding(u)'
           /\ wTask'[u].kind = wTask[u].kind
           /\ wTask[u].pc = "lost" => wTask'[u].pc = "lost"
<1>1. CASE TasksStay
  BY <1>1 DEF TasksStay, Unsettled, Outstanding
<1>2. CASE StartTask
  <2>1. CASE u = Head(wQueue)
    BY <1>2, <2>1, HeadStarts DEF Unsettled, Outstanding
  <2>2. CASE u # Head(wQueue)
    BY <1>2, <2>2, HeadStarts, OthersStay
  <2> QED
    BY <2>1, <2>2
<1> QED
  BY <1>1, <1>2

\* What a step that only touches tasks, or nothing of the three, preserves.
LEMMA CarriedKeeps ==
    ASSUME WTypes, QueueInv, CarriedInv, TasksStay \/ StartTask,
           wRun' = wRun \/ wRun' # "Running", wOpen' = wOpen,
           wDisk' = wDisk \/ wDisk'[1] = wRun'
    PROVE  CarriedInv'
<1>1. wRun' = "Running" => \E t \in Tasks : Unsettled(t)'
  BY StartKeeps DEF CarriedInv
<1>2. ASSUME NEW t \in Tasks, Unsettled(t)' PROVE Outstanding(t)' \/ wTask'[t].pc = "lost"
  BY <1>2 DEF Unsettled, Outstanding
<1>3. wDisk'[1] = "Running" => \E t \in Tasks : Outstanding(t)' \/ wTask'[t].pc = "lost"
  BY <1>1, <1>2, StartKeeps DEF CarriedInv
<1>4. OpenStreamHasAWriter'
  BY StartKeeps DEF CarriedInv, OpenStreamHasAWriter
<1> QED
  BY <1>1, <1>3, <1>4 DEF CarriedInv

\* A step that settles the status and persists it leaves only the stream.
LEMMA SettledCarries ==
    ASSUME wRun' # "Running", persist_run, OpenStreamHasAWriter' PROVE CarriedInv'
<1>1. wDisk'[1] = wRun'
  BY DEF persist_run
<1> QED
  BY <1>1 DEF CarriedInv

\* A request that submits a task leaves a task to carry the Running run.
LEMMA SubmitCarries ==
    ASSUME WTypes, QueueInv, CarriedInv, NEW q \in Owners, NEW t \in Tasks,
           \/ create_run_blocked(t, q)
           \/ \E c \in BOOLEAN : create_workflow_run(t, q, c)
           \/ \E d \in BOOLEAN : send_run_message(t, q, d)
    PROVE  CarriedInv'
<1>1. OnlyTask(t) /\ Unused(t) /\ wTask'[t].pc \in {"queued", "done"}
  BY SubmitTasks DEF TaskEnters, TaskRefused
<1>2. wTask[t].pc = "none"
  BY <1>1, UnusedIsNext
<1>3. ASSUME wOpen' = wOpen PROVE OpenStreamHasAWriter'
  <2> SUFFICES ASSUME wOpen
               PROVE  \E u \in Tasks : Outstanding(u)' /\ wTask'[u].kind \in {"chat", "compiled"}
    BY <1>3 DEF OpenStreamHasAWriter
  <2>1. PICK u \in Tasks : Outstanding(u) /\ wTask[u].kind \in {"chat", "compiled"}
    BY DEF CarriedInv, OpenStreamHasAWriter
  <2>2. u # t
    BY <1>2, <2>1 DEF Outstanding
  <2> QED
    BY <1>1, <2>1, <2>2, OthersStay
<1>4. CASE create_run_blocked(t, q)
  <2>1. wRun' = "Blocked" /\ wOpen' = wOpen /\ persist_run
    BY <1>4 DEF create_run_blocked
  <2> QED
    BY <1>3, <2>1, SettledCarries
<1>5. ASSUME wTask'[t].pc = "queued", OpenStreamHasAWriter' PROVE CarriedInv'
  BY <1>5 DEF CarriedInv, Unsettled, Outstanding
<1>6. ASSUME NEW c \in BOOLEAN, create_workflow_run(t, q, c) PROVE CarriedInv'
  <2> DEFINE r == [NoTask EXCEPT !.kind = IF c THEN "compiled" ELSE "chat",
                                 !.owner = QueuedDetail(q).owner]
  <2>1. wTask' = [wTask EXCEPT ![t] = [r EXCEPT !.pc = "queued"]]
    BY <1>6, Zenon DEF create_workflow_run, submit_run_task
  <2>2. [r EXCEPT !.pc = "queued"].pc = "queued" /\ [r EXCEPT !.pc = "queued"].kind \in {"chat", "compiled"}
    BY DEF NoTask
  <2> HIDE DEF r
  <2>3. wTask'[t].pc = "queued" /\ wTask'[t].kind \in {"chat", "compiled"}
    BY <2>1, <2>2 DEF WTypes
  <2> QED
    BY <1>5, <2>3 DEF OpenStreamHasAWriter, Outstanding
<1>7. ASSUME NEW d \in BOOLEAN, send_run_message(t, q, d) PROVE CarriedInv'
  <2> DEFINE r == [NoTask EXCEPT !.kind = IF d THEN "dispatch" ELSE "message"]
  <2>1. wTask' = [wTask EXCEPT ![t] = [r EXCEPT !.pc = "queued"]] /\ wOpen' = wOpen
    BY <1>7 DEF send_run_message, submit_run_task
  <2>2. [r EXCEPT !.pc = "queued"].pc = "queued"
    BY DEF NoTask
  <2> HIDE DEF r
  <2>3. wTask'[t].pc = "queued"
    BY <2>1, <2>2 DEF WTypes
  <2> QED
    BY <1>3, <1>5, <2>1, <2>3
<1> QED
  BY <1>4, <1>6, <1>7

\* A step of a worker that ends the last carrier also ends the status Running.
LEMMA TaskStepCarries ==
    ASSUME WTypes, CarriedInv, NEW t \in Tasks, TaskStep(t) PROVE CarriedInv'
<1>1. OnlyTask(t) /\ TaskMoves(t)
  BY TaskStepMoves
<1>2. ASSUME wTask[t].kind \notin {"chat", "compiled"}, wOpen' = wOpen PROVE OpenStreamHasAWriter'
  <2> SUFFICES ASSUME wOpen
               PROVE  \E u \in Tasks : Outstanding(u)' /\ wTask'[u].kind \in {"chat", "compiled"}
    BY <1>2 DEF OpenStreamHasAWriter
  <2>1. PICK u \in Tasks : Outstanding(u) /\ wTask[u].kind \in {"chat", "compiled"}
    BY DEF CarriedInv, OpenStreamHasAWriter
  <2> QED
    BY <1>1, <1>2, <2>1, OthersStay
<1>3. CASE chat_provider_failed(t) \/ chat_raised(t) \/ compiled_failed(t) \/ compiled_handed_back(t)
  <2>1. wRun' # "Running" /\ persist_run /\ FinishStream
    BY <1>3 DEF chat_provider_failed, chat_raised, compiled_failed, compiled_handed_back
  <2> QED
    BY <2>1, SettledCarries DEF OpenStreamHasAWriter, FinishStream
<1>4. ASSUME NEW o \in {"Done", "Needs Review", "Blocked"}, NEW ask \in BOOLEAN,
             chat_answered(t, o, ask)
      PROVE  CarriedInv'
  <2>1. wRun' # "Running" /\ wTask[t].kind = "chat"
    BY <1>4 DEF chat_answered
  <2>2. wTask'[t].pc = "collaborating"
    BY <1>4 DEF chat_answered, WTypes, TaskRecords
  <2>3. Outstanding(t)' /\ wTask'[t].kind \in {"chat", "compiled"}
    BY <1>1, <2>1, <2>2 DEF Outstanding, TaskMoves
  <2> QED
    BY <2>1, <2>3 DEF CarriedInv, OpenStreamHasAWriter
<1>5. CASE chat_committed(t)
  <2>1. wRun' = wRun /\ wDisk'[1] = wRun' /\ wOpen' = FALSE
    BY <1>5 DEF chat_committed, persist_run, FinishStream
  <2>2. ASSUME wRun = "Running"
        PROVE  \E u \in Tasks : Unsettled(u)' /\ (Outstanding(u)' \/ wTask'[u].pc = "lost")
    <3>1. PICK u \in Tasks : Unsettled(u)
      BY <2>2 DEF CarriedInv
    <3>2. u # t
      BY <1>5, <3>1 DEF chat_committed, Unsettled
    <3> QED
      BY <1>1, <3>1, <3>2, OthersStay DEF Unsettled, Outstanding
  <2> QED
    BY <2>1, <2>2 DEF CarriedInv, OpenStreamHasAWriter
<1>6. CASE message_answered(t)
  <2>1. wTask[t].kind = "message" /\ wOpen' = wOpen
    BY <1>6 DEF message_answered
  <2>2. wTask'[t].pc = "collaborating" /\ wTask'[t].kind = "message"
    BY <1>1, <1>6, <2>1 DEF message_answered, WTypes, TaskRecords, TaskMoves
  <2>3. OpenStreamHasAWriter'
    BY <1>2, <2>1
  <2> QED
    BY <2>2, <2>3 DEF CarriedInv, Unsettled, Outstanding
<1>7. CASE message_finished(t) \/ dispatch_finished(t) \/ message_failed(t)
  <2>1. /\ wTask[t].kind \notin {"chat", "compiled"} /\ wOpen' = wOpen
        /\ wRun' # "Running" /\ persist_run
    BY <1>7 DEF message_finished, dispatch_finished, message_failed
  <2> QED
    BY <1>2, <2>1, SettledCarries
<1> QED
  BY <1>3, <1>4, <1>5, <1>6, <1>7 DEF TaskStep

\* Every step preserves that a Running run is carried by a task.
LEMMA CarriedStep ==
    ASSUME WTypes, QueueInv, CarriedInv, WNext PROVE CarriedInv'
<1>1. ASSUME NEW q \in Owners, Submit(q) PROVE CarriedInv'
  BY <1>1, SubmitCarries, Zenon DEF Submit
<1>2. ASSUME NEW t \in Tasks, TaskStep(t) PROVE CarriedInv'
  BY <1>2, TaskStepCarries
<1>3. ASSUME NEW q \in Owners, Operator(q) PROVE CarriedInv'
  <2>1. TasksStay /\ wOpen' = wOpen /\ persist_run /\ (wRun' = wRun \/ wRun' # "Running")
    BY <1>3 DEF Operator, archive_workflow_run, submit_approval, approve_run_escalation,
                get_workflow_run, Request, TasksStay
  <2>2. wDisk'[1] = wRun'
    BY <2>1 DEF persist_run
  <2> QED
    BY <2>1, <2>2, CarriedKeeps
<1>4. CASE StartTask \/ (\E t \in Tasks : RaiseEscalation(t)) \/ OtherPersist \/ Console
  <2>1. wRun' = wRun /\ wOpen' = wOpen /\ (wDisk' = wDisk \/ wDisk' = wStore)
    BY <1>4 DEF StartTask, RaiseEscalation, OtherPersist, Console, OpenStream, SendEvents,
                SendStatus, RotateStream, wStore
  <2>2. wDisk' = wDisk \/ wDisk'[1] = wRun'
    BY <2>1 DEF wStore
  <2>3. TasksStay \/ StartTask
    BY <1>4 DEF RaiseEscalation, OtherPersist, Console, OpenStream, SendEvents,
                SendStatus, RotateStream, TasksStay
  <2> QED
    BY <2>1, <2>2, <2>3, CarriedKeeps
<1>5. CASE RestartRuns
  <2>1. \A t \in Tasks : IF Outstanding(t) THEN wTask'[t].pc = "lost" ELSE wTask'[t] = wTask[t]
    BY <1>5, RestartLoses
  <2>2. wRun' = wDisk[1] /\ wDisk' = wDisk /\ wOpen' = FALSE
    BY <1>5 DEF RestartRuns
  <2>3. wDisk[1] = "Running" => \E t \in Tasks : wTask'[t].pc = "lost"
    BY <2>1 DEF CarriedInv
  <2> QED
    BY <2>2, <2>3 DEF CarriedInv, Unsettled, OpenStreamHasAWriter
<1> QED
  BY <1>1, <1>2, <1>3, <1>4, <1>5, Zenon DEF WNext

-----------------------------------------------------------------------------
(* The events and the console.                                             *)

\* The list stays, grows by a fresh event, is replaced by one, or is read from the snapshot.
EventsStay == wEvents' = wEvents /\ wNextId' = wNextId
EventsReplaced == wEvents' = <<wNextId>> /\ wNextId' = wNextId + 1 /\ persist_run
EventsReloaded == wEvents' = wDisk[3] /\ wNextId' = wNextId /\ wDisk' = wDisk
ViewKept == wView'.cursor = wView.cursor /\ wView'.seen = wView.seen

\* A step of the console changes its view and nothing else.
LEMMA ViewPc ==
    ASSUME NEW p \in ViewStages, wView \in ViewTypes, wView' = [wView EXCEPT !.pc = p]
    PROVE  wView' \in ViewTypes /\ ViewKept
  BY DEF ViewKept, ViewTypes

\* What any step may do to the events, their snapshot and the next id.
LEMMA WhatEventsDo ==
    ASSUME ViewInv, WNext
    PROVE  /\ EventsStay \/ AppendEvents \/ EventsReplaced \/ EventsReloaded
           /\ (ViewKept /\ wView' \in ViewTypes) \/ SendEvents
<1> DEFINE E == EventsStay \/ AppendEvents \/ EventsReplaced \/ EventsReloaded
           V == ViewKept /\ wView' \in ViewTypes
<1>0. ASSUME wView' = wView PROVE V
  BY <1>0 DEF ViewKept, ViewInv
<1>1. ASSUME NEW q \in Owners, NEW t \in Tasks,
             \/ create_run_blocked(t, q)
             \/ \E c \in BOOLEAN : create_workflow_run(t, q, c)
             \/ \E d \in BOOLEAN : send_run_message(t, q, d)
      PROVE  E /\ wView' = wView
  BY <1>1 DEF create_run_blocked, create_workflow_run, send_run_message, EventsReplaced
<1>2. ASSUME NEW q \in Owners, Operator(q) PROVE E /\ wView' = wView
  BY <1>2 DEF Operator, archive_workflow_run, submit_approval, approve_run_escalation,
              get_workflow_run, Request, EventsStay
<1>3. ASSUME NEW t \in Tasks, TaskStep(t) PROVE E /\ wView' = wView
  BY <1>3 DEF TaskStep, chat_provider_failed, chat_answered, chat_committed, chat_raised,
              compiled_failed, compiled_handed_back, message_answered, message_finished,
              dispatch_finished, message_failed, EventsStay
<1>4. ASSUME NEW t \in Tasks, RaiseEscalation(t) PROVE E /\ wView' = wView
  BY <1>4 DEF RaiseEscalation
<1>5. ASSUME StartTask PROVE E /\ wView' = wView
  BY <1>5 DEF StartTask, EventsStay
<1>6. ASSUME OtherPersist PROVE E /\ wView' = wView
  BY <1>6 DEF OtherPersist, EventsStay, wStore
<1>7. ASSUME Console PROVE E /\ (V \/ SendEvents)
  <2>1. EventsStay
    BY <1>7 DEF Console, OpenStream, SendEvents, SendStatus, RotateStream, EventsStay, wStore
  <2>2. CASE SendEvents
    BY <2>1, <2>2
  <2>3. CASE OpenStream \/ SendStatus \/ RotateStream
    <3>1. PICK p \in ViewStages : wView' = [wView EXCEPT !.pc = p]
      BY <2>3 DEF OpenStream, SendStatus, RotateStream, ViewStages
    <3> QED
      BY <2>1, <3>1, ViewPc DEF ViewInv
  <2> QED
    BY <1>7, <2>2, <2>3 DEF Console
<1>8. ASSUME RestartRuns PROVE E /\ V
  <2>1. EventsReloaded
    BY <1>8 DEF RestartRuns, EventsReloaded
  <2>2. PICK p \in ViewStages : wView' = [wView EXCEPT !.pc = p]
    <3>1. wView.pc \in ViewStages
      BY DEF ViewInv, ViewTypes
    <3>2. wView' = [wView EXCEPT !.pc = IF wView.pc \in {"events", "status"} THEN "dropped" ELSE wView.pc]
      BY <1>8 DEF RestartRuns
    <3> QED
      BY <3>1, <3>2 DEF ViewStages
  <2> QED
    BY <2>1, <2>2, ViewPc DEF ViewInv
<1>9. E /\ (V \/ SendEvents)
  <2> HIDE DEF E, V
  <2> QED
    BY <1>0, <1>1, <1>2, <1>3, <1>4, <1>5, <1>6, <1>7, <1>8, Zenon DEF WNext, Submit
<1> QED
  BY <1>9

\* Every step keeps ids fresh and the snapshot a prefix of the events.
LEMMA EventsStep ==
    ASSUME EventsInv, wDisk' = wDisk \/ wDisk' = <<wRun', wDetail', wEvents', wInbox'>>,
           EventsStay \/ AppendEvents \/ EventsReplaced \/ EventsReloaded
    PROVE  EventsInv'
<1>0. /\ wNextId \in Nat /\ Len(wEvents) \in Nat
      /\ \A i \in 1..Len(wEvents) : wEvents[i] < wNextId
      /\ \A i, j \in 1..Len(wEvents) : wEvents[i] = wEvents[j] => i = j
  BY DEF EventsInv
<1>1. /\ wNextId' \in Nat /\ wEvents' \in Seq(Nat)
      /\ \A i \in 1..Len(wEvents') : wEvents'[i] < wNextId'
      /\ \A i, j \in 1..Len(wEvents') : wEvents'[i] = wEvents'[j] => i = j
  <2>1. CASE EventsStay
    BY <2>1 DEF EventsStay, EventsInv
  <2>2. CASE AppendEvents
    <3>1. /\ wNextId' = wNextId + 1 /\ wEvents' \in Seq(Nat) /\ Len(wEvents') = Len(wEvents) + 1
          /\ \A i \in 1..Len(wEvents) : wEvents'[i] = wEvents[i] /\ wEvents[i] \in Nat
          /\ wEvents'[Len(wEvents) + 1] = wNextId
      BY <2>2 DEF AppendEvents, EventsInv
    <3>2. \A i \in 1..Len(wEvents') : wEvents'[i] < wNextId'
      BY <1>0, <3>1
    <3>3. \A i, j \in 1..Len(wEvents') : wEvents'[i] = wEvents'[j] => i = j
      BY <1>0, <3>1
    <3> QED
      BY <1>0, <3>1, <3>2, <3>3
  <2>3. CASE EventsReplaced
    BY <2>3 DEF EventsReplaced, EventsInv
  <2>4. CASE EventsReloaded
    <3>1. wEvents' = wDisk[3] /\ wNextId' = wNextId
      BY <2>4 DEF EventsReloaded
    <3>2. wEvents' \in Seq(Nat) /\ Len(wEvents') <= Len(wEvents) /\ Len(wEvents') \in Nat
      BY <3>1 DEF EventsInv
    <3>3. \A i \in 1..Len(wEvents') : wEvents'[i] = wEvents[i]
      BY <3>1 DEF EventsInv
    <3>4. \A i \in 1..Len(wEvents') : i \in 1..Len(wEvents)
      BY <1>0, <3>2
    <3>5. \A i \in 1..Len(wEvents') : wEvents'[i] < wNextId'
      BY <1>0, <3>1, <3>3, <3>4
    <3>6. \A i, j \in 1..Len(wEvents') : wEvents'[i] = wEvents'[j] => i = j
      BY <1>0, <3>3, <3>4
    <3> QED
      BY <1>0, <3>1, <3>2, <3>5, <3>6
  <2> QED
    BY <2>1, <2>2, <2>3, <2>4
<1>2. CASE wDisk' = <<wRun', wDetail', wEvents', wInbox'>>
  <2>1. wDisk'[3] = wEvents'
    BY <1>2
  <2> QED
    BY <1>1, <2>1 DEF EventsInv
<1>3. CASE wDisk' = wDisk
  <2>1. CASE EventsStay
    BY <1>1, <1>3, <2>1 DEF EventsStay, EventsInv
  <2>2. CASE AppendEvents
    <3>1. /\ Len(wEvents') = Len(wEvents) + 1 /\ Len(wEvents) \in Nat /\ Len(wDisk[3]) \in Nat
          /\ \A i \in 1..Len(wEvents) : wEvents'[i] = wEvents[i]
      BY <2>2 DEF AppendEvents, EventsInv
    <3> QED
      BY <1>1, <1>3, <3>1 DEF EventsInv
  <2>3. CASE EventsReplaced
    <3>1. wDisk'[3] = wEvents'
      BY <2>3 DEF EventsReplaced, persist_run
    <3> QED
      BY <1>1, <3>1 DEF EventsInv
  <2>4. CASE EventsReloaded
    BY <1>1, <1>3, <2>4 DEF EventsReloaded, EventsInv
  <2> QED
    BY <2>1, <2>2, <2>3, <2>4
<1> QED
  BY <1>2, <1>3

\* A step of the others leaves the console with what it has seen.
LEMMA ViewStays ==
    ASSUME EventsInv, ViewInv, ViewKept, wView' \in ViewTypes,
           EventsStay \/ AppendEvents \/ EventsReplaced \/ EventsReloaded
    PROVE  ViewInv'
<1>0. /\ wNextId \in Nat /\ Len(wEvents) \in Nat /\ wView.cursor \in Nat /\ wView.cursor < wNextId
      /\ \A i \in 1..Len(wEvents) : wEvents[i] = wView.cursor => \A j \in 1..i : wEvents[j] \in wView.seen
  BY DEF EventsInv, ViewInv, ViewTypes
<1>1. wNextId' \in {wNextId, wNextId + 1}
  BY DEF EventsStay, AppendEvents, EventsReplaced, EventsReloaded
<1>2. wView'.cursor = wView.cursor /\ wView'.seen = wView.seen /\ wView'.cursor < wNextId'
  BY <1>0, <1>1 DEF ViewKept
<1>3. \A i \in 1..Len(wEvents') : wEvents'[i] = wView.cursor => \A j \in 1..i : wEvents'[j] \in wView.seen
  <2>1. CASE EventsStay
    BY <1>0, <2>1 DEF EventsStay
  <2>2. CASE AppendEvents
    <3>1. /\ Len(wEvents') = Len(wEvents) + 1 /\ wEvents'[Len(wEvents) + 1] = wNextId
          /\ \A i \in 1..Len(wEvents) : wEvents'[i] = wEvents[i]
      BY <2>2 DEF AppendEvents, EventsInv
    <3> SUFFICES ASSUME NEW i \in 1..Len(wEvents'), wEvents'[i] = wView.cursor, NEW j \in 1..i
                 PROVE  wEvents'[j] \in wView.seen
      OBVIOUS
    <3>2. i # Len(wEvents) + 1
      BY <1>0, <3>1
    <3>3. i \in 1..Len(wEvents) /\ j \in 1..Len(wEvents)
      BY <1>0, <3>1, <3>2
    <3> QED
      BY <1>0, <3>1, <3>3
  <2>3. CASE EventsReplaced
    BY <1>0, <2>3 DEF EventsReplaced
  <2>4. CASE EventsReloaded
    <3>1. Len(wEvents') <= Len(wEvents) /\ Len(wEvents') \in Nat
      BY <2>4 DEF EventsReloaded, EventsInv
    <3>2. \A i \in 1..Len(wEvents') : wEvents'[i] = wEvents[i]
      BY <2>4 DEF EventsReloaded, EventsInv
    <3> SUFFICES ASSUME NEW i \in 1..Len(wEvents'), wEvents'[i] = wView.cursor, NEW j \in 1..i
                 PROVE  wEvents'[j] \in wView.seen
      OBVIOUS
    <3>3. i \in 1..Len(wEvents) /\ j \in 1..Len(wEvents')
      BY <1>0, <3>1
    <3> QED
      BY <1>0, <3>2, <3>3
  <2> QED
    BY <2>1, <2>2, <2>3, <2>4
<1> QED
  BY <1>2, <1>3 DEF ViewInv, ViewTypes

\* The position of an event of the list is where it stands.
LEMMA PositionIs ==
    ASSUME NEW id PROVE \/ Position(id) = 0
                        \/ Position(id) \in 1..Len(wEvents) /\ wEvents[Position(id)] = id
                        \/ wEvents \notin Seq(Nat)
<1> SUFFICES ASSUME wEvents \in Seq(Nat), Position(id) # 0
             PROVE  Position(id) \in 1..Len(wEvents) /\ wEvents[Position(id)] = id
  OBVIOUS
<1>1. \E i \in DOMAIN wEvents : wEvents[i] = id
  BY DEF Position
<1>2. Position(id) \in DOMAIN wEvents /\ wEvents[Position(id)] = id
  BY <1>1 DEF Position
<1> QED
  BY <1>2

\* A poll of the stream gives the console every event up to its new cursor.
LEMMA ViewAdvances ==
    ASSUME EventsInv, ViewInv, SendEvents PROVE ViewInv'
<1> DEFINE p == Position(wView.cursor)
           rest == (p + 1)..Len(wEvents)
           n == Len(wEvents)
<1>0. /\ wNextId \in Nat /\ n \in Nat /\ wView.cursor \in Nat /\ wView.cursor < wNextId
      /\ wEvents \in Seq(Nat) /\ wView \in ViewTypes
      /\ \A i \in 1..n : wEvents[i] \in Nat /\ wEvents[i] < wNextId
      /\ \A i, j \in 1..n : wEvents[i] = wEvents[j] => i = j
      /\ \A i \in 1..n : wEvents[i] = wView.cursor => \A j \in 1..i : wEvents[j] \in wView.seen
  BY DEF EventsInv, ViewInv, ViewTypes
<1>1. p = 0 \/ (p \in 1..n /\ wEvents[p] = wView.cursor)
  BY <1>0, PositionIs
<1>2. p \in Nat
  BY <1>0, <1>1
<1>3. /\ wEvents' = wEvents /\ wNextId' = wNextId
      /\ wView' = [wView EXCEPT !.pc = "status",
                                !.cursor = IF rest = {} THEN wView.cursor ELSE wEvents[n],
                                !.seen = wView.seen \cup {wEvents[i] : i \in rest}]
  BY DEF SendEvents, wStore
<1> HIDE DEF p
<1>4. /\ wView'.cursor = IF rest = {} THEN wView.cursor ELSE wEvents[n]
      /\ wView'.seen = wView.seen \cup {wEvents[i] : i \in rest}
      /\ wView'.pc = "status"
  BY <1>0, <1>3 DEF ViewTypes
<1>5. rest # {} => n \in 1..n
  BY <1>0, <1>2
<1>6. \A i \in rest : i \in 1..n
  BY <1>0, <1>2
<1>7. wView' \in ViewTypes
  <2>1. (IF rest = {} THEN wView.cursor ELSE wEvents[n]) \in Nat
    BY <1>0, <1>5
  <2>2. wView.seen \cup {wEvents[i] : i \in rest} \in SUBSET Nat
    BY <1>0, <1>6 DEF ViewTypes
  <2> HIDE DEF rest, n
  <2> QED
    BY <1>0, <1>3, <2>1, <2>2 DEF ViewTypes, ViewStages
<1>8. wView'.cursor < wNextId'
  BY <1>0, <1>3, <1>4, <1>5
<1>9. ASSUME NEW i \in 1..n, wEvents[i] = wView'.cursor, NEW j \in 1..i
      PROVE  wEvents[j] \in wView'.seen
  <2>1. CASE rest = {}
    BY <1>0, <1>4, <1>9, <2>1
  <2>2. CASE rest # {}
    <3>1. i = n
      BY <1>0, <1>4, <1>5, <1>9, <2>2
    <3>2. CASE j \in rest
      BY <1>4, <3>2
    <3>3. CASE j \notin rest
      <4>1. j \in 1..p
        BY <1>0, <1>2, <3>1, <3>3
      <4>2. p \in 1..n /\ wEvents[p] = wView.cursor
        BY <1>1, <4>1
      <4>3. wEvents[j] \in wView.seen
        BY <1>0, <4>1, <4>2
      <4> QED
        BY <1>4, <4>3
    <3> QED
      BY <3>2, <3>3
  <2> QED
    BY <2>1, <2>2
<1> QED
  BY <1>3, <1>7, <1>8, <1>9 DEF ViewInv, ViewTypes

-----------------------------------------------------------------------------
\* The invariant holds in the initial states.
LEMMA WInitHolds == WInit => WInv
<1> SUFFICES ASSUME WInit PROVE WInv
  OBVIOUS
<1> USE DEF WInit
<1>1. wDisk[1] = "none" /\ wDisk[2] = NoDetail /\ wDisk[3] = <<>> /\ wDisk[4] = {}
  OBVIOUS
<1>2. NoDetail \in Details /\ ~NoDetail.pending
  BY DEF NoDetail, Details, RunStatuses, Owners
<1>3. NoTask \in TaskRecords /\ NoTask.pc = "none"
  BY DEF NoTask, TaskRecords, Kinds, Stages, Outcomes, Owners
<1>4. WTypes
  BY <1>1, <1>2, <1>3 DEF WTypes
<1>5. UndecidedInv
  BY <1>1, <1>2 DEF UndecidedInv, Undecided
<1>6. CarriedInv
  BY <1>1 DEF CarriedInv, OpenStreamHasAWriter
<1>7. EventsInv
  BY <1>1 DEF EventsInv
<1>8. ViewInv
  BY DEF ViewInv, ViewTypes, ViewStages
<1>9. QueueInv
  <2>1. \A t \in Tasks : wTask[t].pc = "none"
    BY <1>3
  <2>2. {t \in Tasks : wTask[t].pc # "none"} = 1..0 /\ Executing = {}
    BY <2>1 DEF Executing
  <2>3. Cardinality({}) = 0
    BY FS_EmptySet
  <2>4. 0 \in 0..MaxTasks /\ 0 <= RunWorkers
    BY WorkflowRunsAssumption
  <2>5. wQueue \in Seq(Tasks) /\ Len(wQueue) = 0
    OBVIOUS
  <2> QED
    BY <2>1, <2>2, <2>3, <2>4, <2>5 DEF QueueInv
<1> QED
  BY <1>4, <1>5, <1>6, <1>7, <1>8, <1>9 DEF WInv

\* The invariant does not depend on anything but the variables.
LEMMA WInvStutters ==
    ASSUME WInv, UNCHANGED wVars PROVE WInv'
<1> USE DEF wVars
<1>1. WTypes' /\ UndecidedInv'
  BY DEF WInv, WTypes, UndecidedInv
<1>2. QueueInv'
  BY DEF WInv, QueueInv, Executing
<1>3. CarriedInv'
  BY DEF WInv, CarriedInv, OpenStreamHasAWriter, Outstanding, Unsettled
<1>4. EventsInv'
  BY DEF WInv, EventsInv
<1>5. ViewInv'
  BY DEF WInv, ViewInv
<1> QED
  BY <1>1, <1>2, <1>3, <1>4, <1>5 DEF WInv

\* The inductive invariant of a run, its tasks, its snapshot and its console
\* holds however the handlers, the workers and the restarts interleave.
THEOREM RunsInvariant == WSpec => []WInv
<1>1. WInit => WInv
  BY WInitHolds
<1>2. WInv /\ [WNext]_wVars => WInv'
  <2> SUFFICES ASSUME WInv, [WNext]_wVars PROVE WInv'
    OBVIOUS
  <2>1. CASE UNCHANGED wVars
    BY <2>1, WInvStutters
  <2>2. CASE WNext
    <3>0. WTypes /\ QueueInv /\ CarriedInv /\ UndecidedInv /\ EventsInv /\ ViewInv
      BY DEF WInv
    <3>1. WTypes' /\ UndecidedInv'
      BY <2>2, <3>0, TypesStep
    <3>2. QueueInv'
      BY <2>2, <3>0, WhatTasksDo, QueueStep
    <3>3. CarriedInv'
      BY <2>2, <3>0, CarriedStep
    <3>4. /\ EventsStay \/ AppendEvents \/ EventsReplaced \/ EventsReloaded
          /\ (ViewKept /\ wView' \in ViewTypes) \/ SendEvents
      BY <2>2, <3>0, WhatEventsDo
    <3>5. wDisk' = wDisk \/ wDisk' = <<wRun', wDetail', wEvents', wInbox'>>
      BY <2>2, WhatIsWritten
    <3>6. EventsInv'
      BY <3>0, <3>4, <3>5, EventsStep
    <3>7. ViewInv'
      BY <3>0, <3>4, ViewStays, ViewAdvances
    <3> QED
      BY <3>1, <3>2, <3>3, <3>6, <3>7 DEF WInv
  <2> QED
    BY <2>1, <2>2
<1> QED
  BY <1>1, <1>2, PTL DEF WSpec

\* A run that create_workflow_run or send_run_message shows as running has a
\* task that will change that, or one that a restart lost: for any number of
\* tasks, workers, requests and restarts.
THEOREM RunningRunsHaveAWorker == WSpec => []RunningHasAWorker
<1>1. WInv => RunningHasAWorker
  BY DEF WInv, CarriedInv, RunningHasAWorker, Unsettled, Outstanding
<1> QED
  BY <1>1, RunsInvariant, PTL

\* A delta stream that is open has an outstanding task that _finish_run_stream
\* will close it for.
THEOREM OpenStreamsHaveAWriter == WSpec => []OpenStreamHasAWriter
<1>1. WInv => OpenStreamHasAWriter
  BY DEF WInv, CarriedInv
<1> QED
  BY <1>1, RunsInvariant, PTL

\* Details that ask for an approval are those of a run that waits for a review
\* or failed, in the store and in what was persisted of it.
THEOREM PendingIsUndecided == WSpec => []PendingRunsAreUndecided
<1>1. WInv => PendingRunsAreUndecided
  BY DEF WInv, UndecidedInv, Undecided, PendingRunsAreUndecided
<1> QED
  BY <1>1, RunsInvariant, PTL

\* A console of stream_workflow_run_events was sent every event up to its cursor.
THEOREM TheConsoleMissesNoEvent == WSpec => []ConsoleMissesNoEvent
<1>1. WInv => ConsoleMissesNoEvent
  <2> SUFFICES ASSUME WInv, NEW i \in 1..Position(wView.cursor)
               PROVE  wEvents[i] \in wView.seen
    BY DEF ConsoleMissesNoEvent
  <2>0. wEvents \in Seq(Nat) /\ Len(wEvents) \in Nat
    BY DEF WInv, EventsInv
  <2>1. Position(wView.cursor) \in 1..Len(wEvents) /\ wEvents[Position(wView.cursor)] = wView.cursor
    BY <2>0, PositionIs
  <2> QED
    BY <2>1 DEF WInv, ViewInv
<1> QED
  BY <1>1, RunsInvariant, PTL

\* The run, its tasks, its queue and its console keep their types, the queue
\* holds exactly the queued tasks, and at most RunWorkers tasks execute.
THEOREM RunsTypeCorrect == WSpec => []WTypeOK
<1>1. WInv => WTypeOK
  <2> SUFFICES ASSUME WInv PROVE WTypeOK
    OBVIOUS
  <2>1. WTypes /\ QueueInv /\ ViewInv
    BY DEF WInv
  <2>2. /\ wRun \in RunStatuses \cup {"none"}
        /\ wInbox \subseteq {"Needs Approval", "Blocked by Guardrails"}
        /\ wDetail.status \in RunStatuses \cup {"none"} /\ wDetail.owner \in Owners
    BY <2>1 DEF WTypes, Details
  <2>3. wDetail.asks \in BOOLEAN /\ wDetail.arts \in BOOLEAN
    BY <2>1, Zenon DEF WTypes, Details
  <2>4. wView.pc \in {"closed", "dropped", "events", "status", "ended"}
    BY <2>1 DEF ViewInv, ViewTypes, ViewStages
  <2>5. {wQueue[i] : i \in DOMAIN wQueue} = {t \in Tasks : wTask[t].pc = "queued"}
    BY <2>1 DEF QueueInv
  <2> QED
    BY <2>1, <2>2, <2>3, <2>4, <2>5 DEF WTypeOK, QueueInv
<1> QED
  BY <1>1, RunsInvariant, PTL
=============================================================================
