---------------------------- MODULE WorkflowRuns ----------------------------
(***************************************************************************)
(* One run of the control plane (apps/backend/app/main.py): the request     *)
(* handlers that create, continue, read, approve and archive it, the tasks  *)
(* that a bounded thread pool executes for it, the two streams a console    *)
(* follows it through, and what of it survives a restart.                   *)
(*                                                                          *)
(* A run is four store entries: its summary (wRun), its details (wDetail),  *)
(* its events (wEvents, by id) and its items of the inbox (wInbox).  A task *)
(* keeps what create_workflow_run captured for it: the access context and   *)
(* the artifacts it found.  A handler is one step; a task is split where it *)
(* waits for a model.  A request that is refused (access, emergency mode,   *)
(* block_new_runs, an invalid payload) changes nothing and has no step.     *)
(***************************************************************************)
EXTENDS Integers, Sequences, FiniteSets

CONSTANTS
    MaxTasks,     \* the executions submitted for the run in a behaviour
    RunWorkers,   \* _run_worker_concurrency: 1..16
    MaxRequests   \* bound: operator requests that submit no task, and restarts

ASSUME WorkflowRunsAssumption ==
    /\ MaxTasks \in Nat
    /\ RunWorkers \in 1..16
    /\ MaxRequests \in Nat

VARIABLES
    wRun,      \* store.runs[run_id].status, "none" without an entry
    wDetail,   \* store.run_details[run_id]
    wEvents,   \* store.run_events[run_id]: the ids, in order
    wNextId,   \* the next fresh event id
    wInbox,    \* the queues in which store.inbox has items for the run
    wOpen,     \* ~store.run_stream_complete.get(run_id, True)
    wTask,     \* the executions
    wQueue,    \* the tasks that wait for a worker, in order
    wDisk,     \* the snapshot of the last persist
    wView,     \* a console on /workflow-runs/{id}/events/stream
    wRequests, \* operator requests so far
    wBoots     \* restarts so far

wStore == <<wRun, wDetail, wEvents, wInbox>>
wBounds == <<wRequests, wBoots>>
wVars == <<wRun, wDetail, wEvents, wNextId, wInbox, wOpen, wTask, wQueue,
           wDisk, wView, wRequests, wBoots>>

Tasks == 1..MaxTasks
Owners == {"user", "admin"}
RunStatuses == {"Running", "Blocked", "Needs Review", "Done", "Failed", "Archived"}
RunTerminalStatuses == {"Done", "Failed", "Blocked"}

\* Of the details: the status, whether an approval is pending, whether an
\* escalation is, the principal of the access context and whether the run has
\* artifacts.  Of a task: its kind, where it is, the access context that the
\* create handler captured, and the answer's status and approval rule.
NoDetail == [status |-> "none", pending |-> FALSE, asks |-> FALSE, owner |-> "user",
             arts |-> FALSE]
NoTask == [kind |-> "none", pc |-> "none", owner |-> "user",
           outcome |-> "none", ask |-> FALSE]

Outstanding(t) == wTask[t].pc \in {"queued", "calling", "collaborating"}
Executing == {t \in Tasks : wTask[t].pc \in {"calling", "collaborating"}}

----------------------------------------------------------------------------
(* The shared pieces of the handlers.                                      *)

\* store.run_events[run_id].extend: the events that one step appends together
\* count as one.
AppendEvents ==
    /\ wEvents' = Append(wEvents, wNextId)
    /\ wNextId' = wNextId + 1

\* The state that the handler leaves behind is written out.
persist_run == wDisk' = <<wRun', wDetail', wEvents', wInbox'>>

\* run_visible_to_principal: the run's own principal, or a privileged one.
enforce_run_access(q) == wRun # "none" /\ (q = "admin" \/ wDetail.owner = q)

\* _submit_run_task: the executor takes a worker's next task from its queue.
submit_run_task(t, rec) ==
    /\ wTask' = [wTask EXCEPT ![t] = [rec EXCEPT !.pc = "queued"]]
    /\ wQueue' = Append(wQueue, t)

Unused(t) == t = 1 + Cardinality({u \in Tasks : wTask[u].pc # "none"})

----------------------------------------------------------------------------
(* create_workflow_run: a new run, or a follow-up of the existing one.     *)

\* The request is admitted: its run is new, or it continues a run that the
\* requester may access.  A follow-up of an unknown run is a new run.
admit_run(t, q) == Unused(t) /\ (wRun = "none" \/ enforce_run_access(q))

\* A blocked keyword or the input guardrail: the run becomes Blocked and its
\* events and details are replaced, also those of a run that is continued.
create_run_blocked(t, q) ==
    /\ admit_run(t, q)
    /\ wRun' = "Blocked"
    /\ wEvents' = <<wNextId>> /\ wNextId' = wNextId + 1
    /\ wDetail' = [NoDetail EXCEPT !.status = "Blocked", !.owner = q]
    /\ wInbox' = wInbox \cup {"Blocked by Guardrails"}
    /\ persist_run
    /\ wTask' = [wTask EXCEPT ![t].pc = "done"]
    /\ UNCHANGED <<wOpen, wQueue, wView, wBounds>>

\* Details of an accepted request: what a follow-up finds is merged, its
\* approvals are reset, its access context is kept.
QueuedDetail(q) ==
    [wDetail EXCEPT !.status = "Running", !.pending = FALSE,
                    !.owner = IF wDetail = NoDetail THEN q ELSE @]

\* Accepted: the stream is reset and the task is submitted; compiled is a
\* published workflow graph that qualifies for the graph compiler.
create_workflow_run(t, q, compiled) ==
    /\ admit_run(t, q)
    /\ wRun' = "Running"
    /\ AppendEvents
    /\ wDetail' = QueuedDetail(q)
    /\ wOpen' = TRUE
    /\ UNCHANGED <<wInbox, wView, wBounds>>
    /\ persist_run
    /\ submit_run_task(t, [NoTask EXCEPT !.kind = IF compiled THEN "compiled" ELSE "chat",
                                         !.owner = QueuedDetail(q).owner])

\* send_run_message: continue in place; a workflow or playbook mention
\* dispatches that graph instead of a chat reply.
send_run_message(t, q, dispatch) ==
    /\ Unused(t)
    /\ enforce_run_access(q)
    /\ AppendEvents
    /\ wRun' = "Running"
    /\ submit_run_task(t, [NoTask EXCEPT !.kind = IF dispatch THEN "dispatch" ELSE "message"])
    /\ UNCHANGED <<wDetail, wInbox, wOpen, wView, wBounds>>
    /\ persist_run

----------------------------------------------------------------------------
(* The executor.                                                           *)

\* A free worker takes the oldest task; the model, or the graph, is called.
StartTask ==
    /\ wQueue # <<>>
    /\ Cardinality(Executing) < RunWorkers
    /\ wTask' = [wTask EXCEPT ![Head(wQueue)].pc = "calling"]
    /\ wQueue' = Tail(wQueue)
    /\ IF wTask[Head(wQueue)].kind = "dispatch"
       THEN AppendEvents ELSE UNCHANGED <<wEvents, wNextId>>
    /\ UNCHANGED <<wRun, wDetail, wInbox, wOpen, wDisk, wView, wBounds>>

\* gateway_decision_listener and record_escalation: an action of the task
\* needs an approval.  Nothing is persisted.
RaiseEscalation(t) ==
    /\ wTask[t].pc = "calling" /\ wTask[t].kind # "message"
    /\ ~wDetail.asks
    /\ wDetail' = [wDetail EXCEPT !.asks = TRUE]
    /\ AppendEvents
    /\ UNCHANGED <<wRun, wInbox, wOpen, wTask, wQueue, wDisk, wView, wBounds>>

Finished(t) == wTask' = [wTask EXCEPT ![t].pc = "done"]
FinishStream == wOpen' = FALSE

\* The provider does not answer: the failure report is the run's artifact.
chat_provider_failed(t) ==
    /\ wTask[t].kind = "chat" /\ wTask[t].pc = "calling"
    /\ wRun' = "Failed"
    /\ AppendEvents
    /\ wDetail' = [wDetail EXCEPT !.status = "Failed", !.pending = FALSE,
                                  !.owner = wTask[t].owner, !.arts = TRUE]
    /\ UNCHANGED <<wInbox, wQueue, wView, wBounds>>
    /\ persist_run
    /\ Finished(t) /\ FinishStream

\* The answer: the output guardrail or the approval rule gives the status, the
\* summary shows it at once, the mentioned agents are still to answer.
chat_answered(t, outcome, ask) ==
    /\ wTask[t].kind = "chat" /\ wTask[t].pc = "calling"
    /\ (outcome = "Needs Review") => ask
    /\ (outcome = "Done") => ~ask
    /\ wRun' = outcome
    /\ AppendEvents
    /\ wTask' = [wTask EXCEPT ![t].pc = "collaborating", ![t].outcome = outcome,
                              ![t].ask = ask]
    /\ UNCHANGED <<wDetail, wInbox, wOpen, wQueue, wDisk, wView, wBounds>>

CommittedDetail(t) ==
    [wDetail EXCEPT !.status = wTask[t].outcome,
                    !.pending = wTask[t].outcome = "Needs Review",
                    !.owner = wTask[t].owner,
                    !.arts = TRUE]

\* The details, the task learning and the inbox item follow the collaboration.
chat_committed(t) ==
    /\ wTask[t].kind = "chat" /\ wTask[t].pc = "collaborating"
    /\ wDetail' = CommittedDetail(t)
    /\ wInbox' = IF wTask[t].ask THEN wInbox \cup {"Needs Approval"} ELSE wInbox
    /\ UNCHANGED <<wRun, wEvents, wNextId, wQueue, wView, wBounds>>
    /\ persist_run
    /\ Finished(t) /\ FinishStream

\* An exception of the task: while it calls, or in the task learning, when
\* the details are already those of the answer.
chat_raised(t) ==
    /\ wTask[t].kind = "chat" /\ wTask[t].pc \in {"calling", "collaborating"}
    /\ wRun' = "Failed"
    /\ AppendEvents
    /\ LET base == IF wTask[t].pc = "calling" THEN wDetail ELSE CommittedDetail(t)
       IN  wDetail' = [base EXCEPT !.status = "Failed", !.owner = wTask[t].owner]
    /\ UNCHANGED <<wInbox, wQueue, wView, wBounds>>
    /\ persist_run
    /\ Finished(t) /\ FinishStream

\* run_compiled_workflow_run: the graph raised, or a node had no provider.  The
\* details are replaced by a new record, here and after a handback.
compiled_failed(t) ==
    /\ wTask[t].kind = "compiled" /\ wTask[t].pc = "calling"
    /\ wRun' = "Failed"
    /\ AppendEvents
    /\ wDetail' = [NoDetail EXCEPT !.status = "Failed", !.owner = wTask[t].owner]
    /\ UNCHANGED <<wInbox, wQueue, wView, wBounds>>
    /\ persist_run
    /\ Finished(t) /\ FinishStream

\* The team hands back: its artifacts wait for a review.
compiled_handed_back(t) ==
    /\ wTask[t].kind = "compiled" /\ wTask[t].pc = "calling"
    /\ wRun' = "Needs Review"
    /\ AppendEvents
    /\ wDetail' = [NoDetail EXCEPT !.status = "Needs Review", !.pending = TRUE,
                                   !.owner = wTask[t].owner, !.arts = TRUE]
    /\ UNCHANGED <<wInbox, wQueue, wView, wBounds>>
    /\ persist_run
    /\ Finished(t) /\ FinishStream

\* send_run_message's task: the reply, then the mentioned agents.
message_answered(t) ==
    /\ wTask[t].kind = "message" /\ wTask[t].pc = "calling"
    /\ AppendEvents
    /\ wTask' = [wTask EXCEPT ![t].pc = "collaborating"]
    /\ UNCHANGED <<wRun, wDetail, wInbox, wOpen, wQueue, wDisk, wView, wBounds>>

message_finished(t) ==
    /\ wTask[t].kind = "message" /\ wTask[t].pc = "collaborating"
    /\ wRun' = "Done"
    /\ UNCHANGED <<wDetail, wEvents, wNextId, wInbox, wOpen, wQueue, wView, wBounds>>
    /\ persist_run
    /\ Finished(t)

\* dispatch_graph_target_in_chat: the details keep what the chat recorded.
dispatch_finished(t) ==
    /\ wTask[t].kind = "dispatch" /\ wTask[t].pc = "calling"
    /\ AppendEvents
    /\ wRun' = "Needs Review"
    /\ UNCHANGED <<wDetail, wInbox, wOpen, wQueue, wView, wBounds>>
    /\ persist_run
    /\ Finished(t)

\* Mutant of message_failed: the error path forgets the status.
MessageFailsSilently(t) ==
    /\ wTask[t].kind \in {"message", "dispatch"} /\ wTask[t].pc = "calling"
    /\ AppendEvents
    /\ UNCHANGED <<wRun, wDetail, wInbox, wOpen, wQueue, wView, wBounds>>
    /\ persist_run
    /\ Finished(t)

message_failed(t) ==
    /\ wTask[t].kind \in {"message", "dispatch"} /\ wTask[t].pc = "calling"
    /\ AppendEvents
    /\ wRun' = "Failed"
    /\ UNCHANGED <<wDetail, wInbox, wOpen, wQueue, wView, wBounds>>
    /\ persist_run
    /\ Finished(t)

TaskStep(t) ==
    \/ chat_provider_failed(t)
    \/ \E o \in {"Done", "Needs Review", "Blocked"}, ask \in BOOLEAN : chat_answered(t, o, ask)
    \/ chat_committed(t)
    \/ chat_raised(t)
    \/ compiled_failed(t)
    \/ compiled_handed_back(t)
    \/ message_answered(t)
    \/ message_finished(t)
    \/ dispatch_finished(t)
    \/ message_failed(t)

----------------------------------------------------------------------------
(* The operator's requests.                                                *)

Request ==
    /\ wRequests + wBoots < MaxRequests
    /\ wRequests' = wRequests + 1
    /\ UNCHANGED <<wOpen, wTask, wQueue, wView, wBoots>>

archive_workflow_run(q) ==
    /\ enforce_run_access(q)
    /\ Request
    /\ wRun' = "Archived"
    /\ wDetail' = IF wDetail = NoDetail THEN NoDetail
                  ELSE [wDetail EXCEPT !.status = "Archived", !.pending = FALSE]
    /\ wInbox' = {}
    /\ AppendEvents
    /\ persist_run

submit_approval(q, approved) ==
    /\ enforce_run_access(q)
    /\ wDetail # NoDetail
    /\ Request
    /\ LET status == IF approved THEN "Done" ELSE "Needs Review"
       IN  /\ wRun' = status
           /\ wDetail' = [wDetail EXCEPT !.status = status, !.pending = ~approved]
    /\ wInbox' = IF approved THEN {} ELSE wInbox
    /\ AppendEvents
    /\ persist_run

\* An escalation is decided once; the grant it mints is the gateway's.
approve_run_escalation(q) ==
    /\ enforce_run_access(q)
    /\ Request
    /\ wDetail.asks /\ wDetail' = [wDetail EXCEPT !.asks = FALSE]
    /\ UNCHANGED <<wRun, wEvents, wNextId, wInbox>>
    /\ persist_run

\* A read of a failed run without artifacts adds the failure report.
get_workflow_run(q) ==
    /\ enforce_run_access(q)
    /\ wDetail.status = "Failed" /\ ~wDetail.arts
    /\ Request
    /\ wDetail' = [wDetail EXCEPT !.arts = TRUE]
    /\ AppendEvents
    /\ UNCHANGED <<wRun, wInbox>>
    /\ persist_run

\* A handler of another run persists the whole store.
OtherPersist ==
    /\ wDisk # wStore /\ wRequests + wBoots < MaxRequests
    /\ wDisk' = wStore
    /\ UNCHANGED <<wStore, wNextId, wOpen, wTask, wQueue, wView, wBounds>>

----------------------------------------------------------------------------
(* Shutdown and restart.                                                    *)

\* The process dies, or shuts down, and starts again on the persisted snapshot;
\* the delta streams are not part of it.  A shutdown cancels the queued tasks
\* (shutdown_run_executor) and lets the running ones end before the exit; a
\* death drops both.
RestartRuns ==
    /\ wRequests + wBoots < MaxRequests
    /\ wBoots' = wBoots + 1
    /\ wRun' = wDisk[1] /\ wDetail' = wDisk[2] /\ wEvents' = wDisk[3] /\ wInbox' = wDisk[4]
    /\ wOpen' = FALSE
    /\ wTask' = [t \in Tasks |-> IF Outstanding(t) THEN [wTask[t] EXCEPT !.pc = "lost"]
                                                   ELSE wTask[t]]
    /\ wQueue' = <<>>
    /\ wView' = [wView EXCEPT !.pc = IF @ \in {"events", "status"} THEN "dropped" ELSE @]
    /\ UNCHANGED <<wNextId, wDisk, wRequests>>

----------------------------------------------------------------------------
(* stream_workflow_run_events: the console polls the events, then the       *)
(* status; the two reads are separate steps of the generator.  seen is the  *)
(* history of what it was sent.                                             *)

Position(id) == IF \E i \in DOMAIN wEvents : wEvents[i] = id
                THEN CHOOSE i \in DOMAIN wEvents : wEvents[i] = id ELSE 0

\* A new connection; a reconnect carries the cursor of the last one.
OpenStream ==
    /\ enforce_run_access("user")
    /\ wView.pc \in {"closed", "dropped"}
    /\ wView' = [wView EXCEPT !.pc = "events"]
    /\ UNCHANGED <<wStore, wNextId, wOpen, wTask, wQueue, wDisk, wBounds>>

\* The events after the cursor, all of them when it is not in the list.
SendEvents ==
    /\ wView.pc = "events"
    /\ LET rest == (Position(wView.cursor) + 1)..Len(wEvents)
       IN  wView' = [wView EXCEPT
                       !.pc = "status",
                       !.cursor = IF rest = {} THEN @ ELSE wEvents[Len(wEvents)],
                       !.seen = @ \cup {wEvents[i] : i \in rest}]
    /\ UNCHANGED <<wStore, wNextId, wOpen, wTask, wQueue, wDisk, wBounds>>

SettledRun == wRun = "none" \/ (wRun \in RunTerminalStatuses /\ ~wDetail.pending)

\* The end frame of a settled run, or the next round.
SendStatus ==
    /\ wView.pc = "status"
    /\ wView' = [wView EXCEPT !.pc = IF SettledRun THEN "ended" ELSE "events"]
    /\ UNCHANGED <<wStore, wNextId, wOpen, wTask, wQueue, wDisk, wBounds>>

\* The time cap: a stream_closed frame with the cursor.
RotateStream ==
    /\ wView.pc = "status" /\ ~SettledRun
    /\ wView' = [wView EXCEPT !.pc = "closed"]
    /\ UNCHANGED <<wStore, wNextId, wOpen, wTask, wQueue, wDisk, wBounds>>

Console == OpenStream \/ SendEvents \/ SendStatus \/ RotateStream

----------------------------------------------------------------------------
WInit ==
    /\ wRun = "none" /\ wDetail = NoDetail /\ wEvents = <<>> /\ wNextId = 1
    /\ wInbox = {} /\ wOpen = FALSE
    /\ wTask = [t \in Tasks |-> NoTask] /\ wQueue = <<>>
    /\ wDisk = <<"none", NoDetail, <<>>, {}>>
    /\ wView = [pc |-> "closed", cursor |-> 0, seen |-> {}]
    /\ wRequests = 0 /\ wBoots = 0

Operator(q) ==
    \/ archive_workflow_run(q)
    \/ \E a \in BOOLEAN : submit_approval(q, a)
    \/ approve_run_escalation(q)
    \/ get_workflow_run(q)

Submit(q) ==
    \E t \in Tasks :
        \/ create_run_blocked(t, q)
        \/ \E c \in BOOLEAN : create_workflow_run(t, q, c)
        \/ \E d \in BOOLEAN : send_run_message(t, q, d)

WNext ==
    \/ \E q \in Owners : Submit(q) \/ Operator(q)
    \/ StartTask
    \/ \E t \in Tasks : TaskStep(t) \/ RaiseEscalation(t)
    \/ OtherPersist
    \/ RestartRuns
    \/ Console

WSpec == WInit /\ [][WNext]_wVars

----------------------------------------------------------------------------
WTypeOK ==
    /\ wRun \in RunStatuses \cup {"none"}
    /\ wDetail.status \in RunStatuses \cup {"none"} /\ wDetail.owner \in Owners
    /\ wDetail.asks \in BOOLEAN /\ wDetail.arts \in BOOLEAN
    /\ wInbox \subseteq {"Needs Approval", "Blocked by Guardrails"}
    /\ wView.pc \in {"closed", "dropped", "events", "status", "ended"}
    /\ {wQueue[i] : i \in DOMAIN wQueue} = {t \in Tasks : wTask[t].pc = "queued"}
    /\ Cardinality(Executing) <= RunWorkers

\* A run that shows "Running" has a task that will change that, however the
\* executions, messages, approvals and archivings of the run overlap; only a
\* task that a shutdown or a restart dropped leaves it so.
RunningHasAWorker ==
    wRun = "Running" => \E t \in Tasks : Outstanding(t) \/ wTask[t].pc = "lost"

\* The delta stream (stream_workflow_run) is open only while a task is
\* outstanding that closes it: no reader of it waits for nothing.
OpenStreamHasAWriter ==
    wOpen => \E t \in Tasks : Outstanding(t) /\ wTask[t].kind \in {"chat", "compiled"}

\* Details that still ask for an approval never show the run as done, blocked,
\* archived or running: every handler that settles the run settles both.
PendingRunsAreUndecided ==
    wDetail.pending => wDetail.status \in {"Needs Review", "Failed"}

\* The console was sent every event up to its cursor, over reconnects with the
\* cursor, replaced event lists and restarts that lost events.
ConsoleMissesNoEvent ==
    \A i \in 1..Position(wView.cursor) : wEvents[i] \in wView.seen

\* Follow-ups keep the run they continue (the comment above existing_detail in
\* create_workflow_run): its principal and its events stay.
FollowUpsKeepTheRun ==
    [][wRun # "none" /\ wBoots' = wBoots =>
         /\ wDetail'.owner = wDetail.owner
         /\ Len(wEvents) <= Len(wEvents') /\ wEvents = SubSeq(wEvents', 1, Len(wEvents))]_wVars
=============================================================================
