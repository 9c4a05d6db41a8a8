------------------------------- MODULE Memory -------------------------------
(* The tiers of one memory bucket: the in-process list, Redis with its        *)
(* optional write-ahead log, and the long-term table (main.py _memory_*,      *)
(* platform_services.py RedisMemoryStore, PostgresLongTermMemoryStore), used  *)
(* by the memory node of a graph (_run_framework_memory) and by the /memory   *)
(* endpoints.  Redis and PostgreSQL come and go, Redis may lose its data, and *)
(* the backend may be restarted from its last saved state.                    *)
(*                                                                            *)
(* An entry is its number; a list is a sequence of entries, oldest first.     *)
EXTENDS Integers, Sequences, FiniteSets, SequencesExt

CONSTANTS
    MaxEntries,     \* entries appended in a behaviour
    RedisMax,       \* RedisMemoryStore.max_entries, and the 200 of the in-process list
    MaxUpsets       \* outages, losses and restarts in a behaviour

ASSUME MemoryBounds == {MaxEntries, RedisMax, MaxUpsets} \subseteq Nat \ {0}

VARIABLES
    yTiers,    \* [proc, disk, redis, wal, long]: the in-process list, its saved copy, ...
    yUp,       \* [redis, pg]: who answers the health check
    yRead,     \* [entries, full]: the last read, and whether PostgreSQL answered it
    yPast      \* [next, kept, pushed, pgfail, upsets]: what happened so far

yVars == <<yTiers, yUp, yRead, yPast>>

YEntries == 1..MaxEntries

YInit ==
    /\ yTiers = [proc |-> <<>>, disk |-> <<>>, redis |-> <<>>, wal |-> <<>>, long |-> {}]
    /\ yUp = [redis |-> TRUE, pg |-> TRUE]
    /\ yRead = [entries |-> <<>>, full |-> FALSE]
    /\ yPast = [next |-> 1, kept |-> {}, pushed |-> {}, appended |-> {}, pgfail |-> FALSE,
                upsets |-> 0]

YLast(seq, n) == IF Len(seq) <= n THEN seq ELSE SubSeq(seq, Len(seq) - n + 1, Len(seq))
YSorted(set) == SetToSortSeq(set, <)

-----------------------------------------------------------------------------
(* Redis *)

load_entries(t, entries) == [t EXCEPT !.redis = YLast(@ \o entries, RedisMax)]

(* append_entry: the push may fail, the log is written either way.            *)
redis_append(t, e, pushed) ==
    [(IF pushed THEN load_entries(t, <<e>>) ELSE t) EXCEPT !.wal = Append(@, e)]

(* get_entries: an empty list is refilled from the log.                       *)
redis_get(t) == IF t.redis = <<>> THEN t.wal ELSE t.redis
RedisRefilled(t) == IF t.redis = <<>> THEN load_entries(t, t.wal) ELSE t

-----------------------------------------------------------------------------
(* Reading *)

(* _memory_get_short_term_entries: Redis if it answers and has entries.       *)
short_term(t) == IF yUp.redis /\ redis_get(t) # <<>> THEN redis_get(t) ELSE t.proc
AfterShortTerm(t) == IF yUp.redis THEN RedisRefilled(t) ELSE t

long_term(t) == IF yUp.pg THEN YSorted(t.long) ELSE <<>>

(* _memory_seed_short_term: what the in-process list does not have is added   *)
(* to it and to Redis.                                                        *)
seed_short_term(t, entries) ==
    LET additions == SelectSeq(entries, LAMBDA e : e \notin ToSet(t.proc)) IN
    IF entries = <<>> THEN t
    ELSE LET seeded == [t EXCEPT !.proc = YLast(@ \o additions, RedisMax)] IN
         IF additions # <<>> /\ yUp.redis THEN load_entries(seeded, additions) ELSE seeded

YDistinct(seq) == FoldLeft(LAMBDA acc, e : IF e \in ToSet(acc) THEN acc ELSE Append(acc, e), <<>>, seq)

(* Mutant of merge_memory_entries: short-term memory hides long-term memory. *)
MergePrefersShort(short, long) == IF short = <<>> THEN long ELSE YDistinct(short)

merge_memory_entries(short, long) == YDistinct(short \o long)

(* _memory_get_entries and _memory_get_hybrid_context, the ranking left out.  *)
ReadResult(t) == [entries |-> merge_memory_entries(short_term(t), long_term(t)), full |-> yUp.pg]
ReadEffect(t) == seed_short_term(AfterShortTerm(t), long_term(t))

-----------------------------------------------------------------------------
(* Operations *)

(* _memory_append_entry, up to the long-term insert and, unless that raises,  *)
(* with it.                                                                   *)
AppendShort(t, e, pushed) ==
    [(IF yUp.redis THEN redis_append(t, e, pushed) ELSE t) EXCEPT !.proc = Append(@, e)]
memory_append_entry(t, e, pushed, inserted) ==
    LET s == AppendShort(t, e, pushed) IN
    IF yUp.pg /\ inserted THEN [s EXCEPT !.long = @ \cup {e}] ELSE s

Appended(e, pushed, inserted) ==
    [yPast EXCEPT !.next = e + 1, !.appended = @ \cup {e},
                  !.kept = IF yUp.pg /\ inserted THEN @ \cup {e} ELSE @,
                  !.pushed = IF yUp.redis /\ pushed THEN @ \cup {e} ELSE @,
                  !.pgfail = @ \/ ~yUp.pg \/ ~inserted]

(* The memory node appends.  If the insert raises, a native node fails; a     *)
(* node on another framework runs the whole flow once more, with a new entry. *)
append_node ==
    /\ \E pushed, inserted, framework \in BOOLEAN :
         LET e == yPast.next
             t == memory_append_entry(yTiers, e, pushed, inserted) IN
         /\ e <= MaxEntries
         /\ IF inserted \/ ~yUp.pg
            THEN /\ yRead' = ReadResult(t)
                 /\ yTiers' = ReadEffect(t)
                 /\ yPast' = Appended(e, pushed, inserted)
            ELSE IF framework /\ e < MaxEntries
            THEN LET again == memory_append_entry(t, e + 1, TRUE, TRUE) IN
                 /\ yRead' = ReadResult(again)
                 /\ yTiers' = ReadEffect(again)
                 /\ yPast' = [Appended(e, pushed, FALSE) EXCEPT
                                !.next = e + 2, !.kept = @ \cup {e + 1},
                                !.appended = @ \cup {e + 1},
                                !.pushed = IF yUp.redis THEN @ \cup {e + 1} ELSE @]
            ELSE /\ yTiers' = t
                 /\ yPast' = Appended(e, pushed, FALSE)
                 /\ yRead' = yRead
    /\ UNCHANGED yUp

(* GET /memory and the reading memory node.                                   *)
get_memory ==
    /\ yRead' = ReadResult(yTiers)
    /\ yTiers' = ReadEffect(yTiers)
    /\ UNCHANGED <<yUp, yPast>>

(* DELETE /memory: Redis if it answers, the in-process list, the table if it  *)
(* answers; the log is left.  The endpoint saves the state.                   *)
clear_memory ==
    /\ yTiers' = [yTiers EXCEPT !.redis = IF yUp.redis THEN <<>> ELSE @, !.proc = <<>>,
                                !.disk = <<>>, !.long = IF yUp.pg THEN {} ELSE @]
    /\ yPast' = [yPast EXCEPT !.kept = {}]
    /\ yRead' = [entries |-> <<>>, full |-> FALSE]
    /\ yPast.next > 1
    /\ UNCHANGED yUp

(* The run that used the node ends and saves the state.                       *)
SaveMemory ==
    /\ yTiers.disk # yTiers.proc
    /\ yTiers' = [yTiers EXCEPT !.disk = yTiers.proc]
    /\ UNCHANGED <<yUp, yRead, yPast>>

-----------------------------------------------------------------------------
(* Upsets *)

Upset == yPast.upsets < MaxUpsets /\ yPast' = [yPast EXCEPT !.upsets = @ + 1]

ServiceGoes(s) ==
    /\ Upset /\ yUp[s] /\ yUp' = [yUp EXCEPT ![s] = FALSE]
    /\ UNCHANGED <<yTiers, yRead>>

ServiceReturns(s) ==
    /\ ~yUp[s] /\ yUp' = [yUp EXCEPT ![s] = TRUE]
    /\ UNCHANGED <<yTiers, yRead, yPast>>

RedisLosesData ==
    /\ Upset /\ yTiers.redis # <<>>
    /\ yTiers' = [yTiers EXCEPT !.redis = <<>>]
    /\ UNCHANGED <<yUp, yRead>>

RestartBackend ==
    /\ Upset
    /\ yTiers' = [yTiers EXCEPT !.proc = yTiers.disk]
    /\ yRead' = [entries |-> <<>>, full |-> FALSE]
    /\ UNCHANGED yUp

YNext ==
    \/ append_node \/ get_memory \/ clear_memory \/ SaveMemory
    \/ (\E s \in {"redis", "pg"} : ServiceGoes(s) \/ ServiceReturns(s))
    \/ RedisLosesData \/ RestartBackend

YSpec == YInit /\ [][YNext]_yVars

-----------------------------------------------------------------------------
(* Properties *)

(* The working set stays bounded, however often it is seeded, refilled from   *)
(* the log or appended to (ltrim; the 200 of _memory_seed_short_term).        *)
YTypeOK ==
    /\ ToSet(yTiers.redis) \cup ToSet(yTiers.wal) \cup yTiers.long \subseteq YEntries
    /\ Len(yTiers.redis) <= RedisMax
    /\ yUp \in [{"redis", "pg"} -> BOOLEAN]

(* Losing Redis loses nothing that was pushed to it: every such entry is in   *)
(* the log it is refilled from, also when a push of another one failed        *)
(* (RedisMemoryStore.append_entry).                                           *)
PushedEntriesAreLogged == yPast.pushed \subseteq ToSet(yTiers.wal)

(* While PostgreSQL took every entry, the result of a read holds every entry  *)
(* appended since the last clear, whatever became of Redis, of the in-process *)
(* list and of the backend (_memory_get_entries).                             *)
LongTermFillsTheGaps ==
    yRead.full /\ ~yPast.pgfail => yPast.kept \subseteq ToSet(yRead.entries)

(* No entry is returned twice by a read, although seeding after a restart may *)
(* put an entry into Redis a second time (_merge_memory_entries).             *)
ReadsHaveNoRepeats == Len(yRead.entries) = Cardinality(ToSet(yRead.entries))

(* What the architecture document says of the log: it preserves durability    *)
(* if Redis is unavailable, so an appended entry is always in it.             *)
AppendsReachTheLog == yPast.appended \subseteq ToSet(yTiers.wal)
=============================================================================
