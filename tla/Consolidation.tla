--------------------------- MODULE Consolidation ---------------------------
(* From remembered entries to summaries: the candidates queued by appends and *)
(* by task learning, the consolidation runs started by an operator or by an   *)
(* inline thread, and the projection of summaries into the world graph        *)
(* (main.py _memory_schedule_consolidation, _record_task_learning,            *)
(* _run_memory_consolidation, _project_memory_world_graph; the queue and the  *)
(* table of PostgresLongTermMemoryStore).  Every database call is a statement *)
(* of its own: a run may stop between any two of them.                        *)
(*                                                                            *)
(* A summary is known by the candidates it was made from.  Summaries of one   *)
(* bucket may or may not overlap beyond the threshold; equal ones do.         *)
EXTENDS Integers, Sequences, FiniteSets

CONSTANTS
    QBuckets,        \* buckets; "agent" and "workflow" also receive learnings
    QRunners,        \* consolidation runs that may be under way at once
    MaxCandidates,   \* entries queued in a behaviour
    MinCandidates,   \* LOCUS_MEMORY_CONSOLIDATION_MIN_CANDIDATES
    QLimit,          \* candidates a run reads at most
    MaxPasses        \* consolidation runs and clears in a behaviour

ASSUME ConsolidationBounds ==
    /\ {MaxCandidates, MinCandidates, QLimit, MaxPasses} \subseteq Nat \ {0}
    /\ {"agent", "workflow"} \subseteq QBuckets

VARIABLES
    qRows,     \* summaries in the long-term table: [bucket, kind, of]
    qGraph,    \* summaries projected into the world graph
    qQueue,    \* the queue: candidate -> [bucket, kind, status]
    qRuns,     \* the runs: [at, groups, group], the group in hand last
    qLearning, \* the learning queued for its agent and not yet its workflow, or 0
    qPast      \* history: summaries written, whether runs overlapped, whether
               \* one was repeated, and the passes made

qVars == <<qRows, qGraph, qQueue, qRuns, qLearning, qPast>>

QKinds == {"promotion", "task-learning"}
QStatuses == {"pending", "deferred", "duplicate", "consolidated"}
QIdle == [at |-> "idle", groups |-> {}, group |-> {}]

QInit ==
    /\ qRows = {} /\ qGraph = {}
    /\ qQueue = [c \in {} |-> <<>>]
    /\ qRuns = [r \in QRunners |-> QIdle]
    /\ qLearning = 0
    /\ qPast = [written |-> {}, overlap |-> FALSE, repeated |-> FALSE, passes |-> 0]

-----------------------------------------------------------------------------
(* The queue *)

(* INSERT ... ON CONFLICT (entry_id): a queued entry moves to the new bucket. *)
enqueue_consolidation_candidate(queue, c, bucket, kind) ==
    [x \in DOMAIN queue \cup {c} |->
        IF x = c THEN [bucket |-> bucket, kind |-> kind, status |-> "pending"] ELSE queue[x]]

mark_consolidation_candidate(queue, c, status) == [queue EXCEPT ![c].status = status]

Fresh_candidate == Cardinality(DOMAIN qQueue) + 1

(* An entry is appended and queued.                                           *)
memory_schedule_consolidation(bucket) ==
    /\ Fresh_candidate <= MaxCandidates
    /\ qQueue' = enqueue_consolidation_candidate(qQueue, Fresh_candidate, bucket, "promotion")
    /\ UNCHANGED <<qRows, qGraph, qRuns, qLearning, qPast>>

(* A finished task is learned for its agent, its workflow or both: one entry, *)
(* queued under one key, first for the agent ...                              *)
record_task_learning ==
    /\ Fresh_candidate <= MaxCandidates /\ qLearning = 0
    /\ \E agent, workflow \in BOOLEAN :
         /\ agent \/ workflow
         /\ qQueue' = enqueue_consolidation_candidate(qQueue, Fresh_candidate,
                          IF agent THEN "agent" ELSE "workflow", "task-learning")
         /\ qLearning' = IF agent /\ workflow THEN Fresh_candidate ELSE 0
    /\ UNCHANGED <<qRows, qGraph, qRuns, qPast>>

(* ... and then for the workflow, whatever has become of it meanwhile.        *)
record_workflow_learning ==
    /\ qLearning # 0
    /\ qQueue' = enqueue_consolidation_candidate(qQueue, qLearning, "workflow", "task-learning")
    /\ qLearning' = 0
    /\ UNCHANGED <<qRows, qGraph, qRuns, qPast>>

-----------------------------------------------------------------------------
(* A consolidation run *)

(* The newest pending candidates of a bucket, or of all.                      *)
list_consolidation_candidates(scope) ==
    LET pending == {c \in DOMAIN qQueue : qQueue[c].status = "pending" /\ qQueue[c].bucket \in scope} IN
    {c \in pending : Cardinality({d \in pending : d > c}) < QLimit}

Grouped(cs) ==
    {[bucket |-> b, kind |-> k, of |-> {c \in cs : qQueue[c].bucket = b /\ qQueue[c].kind = k}] :
        b \in QBuckets, k \in QKinds}

memory_consolidation_min_candidates(kind) ==
    IF kind = "task-learning" THEN 1 ELSE MinCandidates

(* The run starts, by hand or from an append, and reads the queue; an empty   *)
(* one ends it at once.                                                       *)
start_consolidation(r) ==
    /\ qRuns[r].at = "idle" /\ qPast.passes < MaxPasses
    /\ \E scope \in {QBuckets} \cup {{b} : b \in QBuckets} :
         LET pending == list_consolidation_candidates(scope) IN
         /\ pending # {}
         /\ qRuns' = [qRuns EXCEPT ![r] = [at |-> "next", group |-> {},
                                           groups |-> {g \in Grouped(pending) : g.of # {}}]]
    /\ qPast' = [qPast EXCEPT !.passes = @ + 1,
                              !.overlap = @ \/ \E x \in QRunners \ {r} : qRuns[x].at # "idle"]
    /\ UNCHANGED <<qRows, qGraph, qQueue, qLearning>>

GroupsLeft(r) == qRuns[r].at = "next" /\ qRuns[r].groups # {}

Put(r, rec) == qRuns' = [qRuns EXCEPT ![r] = rec]

(* The candidates of the group in hand are marked, one statement each.        *)
MarkingAs(r, status) ==
    /\ qRuns[r].at = status
    /\ \E c \in qRuns[r].group :
         /\ qQueue' = mark_consolidation_candidate(qQueue, c, status)
         /\ Put(r, LET rest == qRuns[r].group \ {c} IN
                   [qRuns[r] EXCEPT !.group = rest, !.at = IF rest = {} THEN "next" ELSE @])
    /\ UNCHANGED <<qRows, qGraph, qLearning, qPast>>

(* Equal summaries are found; others of the bucket may overlap enough.        *)
find_duplicate_memory_consolidation(g) ==
    LET same == {s \in qRows : s.bucket = g.bucket} IN
    IF g \in same THEN {TRUE} ELSE IF same = {} THEN {FALSE} ELSE BOOLEAN

(* The next group: too few candidates, a duplicate, or a summary to write.    *)
next_group(r) ==
    /\ GroupsLeft(r)
    /\ \E g \in qRuns[r].groups, dup \in BOOLEAN :
         LET few == Cardinality(g.of) < memory_consolidation_min_candidates(g.kind) IN
         /\ ~few => dup \in find_duplicate_memory_consolidation(g)
         /\ Put(r, [groups |-> qRuns[r].groups \ {g},
                    at |-> IF few THEN "deferred" ELSE IF dup THEN "duplicate" ELSE "append",
                    group |-> IF ~few /\ ~dup THEN g ELSE g.of])
    /\ UNCHANGED <<qRows, qGraph, qQueue, qLearning, qPast>>

(* Mutant of append_summary: candidates are marked before the summary exists. *)
AppendMarksFirst(r) ==
    /\ qRuns[r].at = "append"
    /\ Put(r, [qRuns[r] EXCEPT !.at = "consolidated", !.group = qRuns[r].group.of])
    /\ UNCHANGED <<qQueue, qGraph, qRows, qLearning, qPast>>

(* The summary is inserted, ...                                               *)
append_summary(r) ==
    /\ qRuns[r].at = "append"
    /\ qRows' = qRows \cup {qRuns[r].group}
    /\ qPast' = [qPast EXCEPT !.written = @ \cup {qRuns[r].group},
                              !.repeated = @ \/ (~qPast.overlap /\ qRuns[r].group \in qRows)]
    /\ Put(r, [qRuns[r] EXCEPT !.at = "project"])
    /\ UNCHANGED <<qQueue, qGraph, qLearning>>

(* ... projected, if the graph is there, and its candidates marked.           *)
project_memory_world_graph(r) ==
    /\ qRuns[r].at = "project"
    /\ \E up \in BOOLEAN : qGraph' = IF up THEN qGraph \cup {qRuns[r].group} ELSE qGraph
    /\ Put(r, [qRuns[r] EXCEPT !.at = "consolidated", !.group = qRuns[r].group.of])
    /\ UNCHANGED <<qRows, qQueue, qLearning, qPast>>

finish_consolidation(r) ==
    /\ qRuns[r].at = "next" /\ qRuns[r].groups = {}
    /\ Put(r, QIdle)
    /\ UNCHANGED <<qRows, qGraph, qQueue, qLearning, qPast>>

(* A statement raises, or the backend stops: the rest of the run is lost.     *)
stop_consolidation(r) ==
    /\ qRuns[r].at # "idle"
    /\ Put(r, QIdle)
    /\ UNCHANGED <<qRows, qGraph, qQueue, qLearning, qPast>>

(* POST /internal/memory/world-graph/project: every summary in the table.     *)
run_world_graph_projection ==
    /\ qRows # {} /\ qGraph' = qGraph \cup qRows /\ qGraph' # qGraph
    /\ UNCHANGED <<qRows, qQueue, qRuns, qLearning, qPast>>

(* Clearing a bucket deletes its rows; queue and graph are left alone.        *)
clear_long_term(bucket) ==
    /\ qPast.passes < MaxPasses /\ \E s \in qRows : s.bucket = bucket
    /\ qRows' = {s \in qRows : s.bucket # bucket}
    /\ qPast' = [qPast EXCEPT !.passes = @ + 1]
    /\ UNCHANGED <<qGraph, qQueue, qRuns, qLearning>>

QNext ==
    \/ \E b \in QBuckets : memory_schedule_consolidation(b) \/ clear_long_term(b)
    \/ record_task_learning \/ record_workflow_learning \/ run_world_graph_projection
    \/ \E r \in QRunners :
         \/ start_consolidation(r) \/ next_group(r) \/ append_summary(r)
         \/ project_memory_world_graph(r) \/ finish_consolidation(r) \/ stop_consolidation(r)
         \/ \E s \in {"deferred", "duplicate", "consolidated"} : MarkingAs(r, s)

QSpec == QInit /\ [][QNext]_qVars

-----------------------------------------------------------------------------
QSummaries == [bucket : QBuckets, kind : QKinds, of : (SUBSET (1..MaxCandidates)) \ {{}}]

(* The queue holds one row per entry with a status of the code, and the table *)
(* holds summaries that were made of enough candidates of one kind.           *)
QTypeOK ==
    /\ DOMAIN qQueue = 1..Cardinality(DOMAIN qQueue) /\ DOMAIN qQueue \subseteq 1..MaxCandidates
    /\ \A c \in DOMAIN qQueue :
         qQueue[c] \in [bucket : QBuckets, kind : QKinds, status : QStatuses]
    /\ qRows \cup qGraph \subseteq QSummaries
    /\ \A s \in qRows : s.kind = "promotion" => Cardinality(s.of) >= MinCandidates
    /\ qLearning \in 0..MaxCandidates

(* No entry is lost on the way to a summary: whatever run, crash or overlap   *)
(* came between, a candidate is only marked consolidated when a summary that  *)
(* was made from it has been written (_run_memory_consolidation appends       *)
(* before it marks).                                                          *)
ConsolidatedIsCovered ==
    \A c \in DOMAIN qQueue : qQueue[c].status = "consolidated" => \E s \in qPast.written : c \in s.of

(* A run that died after its insert and before its marks is repeated without  *)
(* a second copy: as long as runs do not overlap, a summary that is still in  *)
(* the table is not written again (_find_duplicate_memory_consolidation).     *)
SummariesAreNotRepeated == ~qPast.repeated

(* The world graph shows only summaries that were written to the table, so a  *)
(* statement that fails leaves no memory node without a row behind it         *)
(* (append_entry precedes _project_memory_world_graph).                       *)
GraphShowsWrittenSummaries == qGraph \subseteq qPast.written
=============================================================================
