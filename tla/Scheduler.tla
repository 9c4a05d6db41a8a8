----------------------------- MODULE Scheduler -----------------------------
(***************************************************************************)
(* Schedules and webhook triggers of workflows (apps/backend/app/main.py,   *)
(* cron.py).  The scheduler thread ticks every 30 s, at least once in most  *)
(* minutes and often twice: it walks over a snapshot of the schedules,      *)
(* marks each one that is due with the minute and starts its run.  Handlers *)
(* create, toggle, delete and revoke beside it; every one of them writes    *)
(* the whole store, which a restart reloads.  A save may fail, and another  *)
(* handler's save, serialized earlier, may overwrite it.                    *)
(***************************************************************************)
EXTENDS Integers, Sequences, SequencesExt, FiniteSets, TLC

CONSTANTS
    ScheduleIds, \* a sequence: the uuids, in the order in which they are used
    TriggerIds,
    Moments,     \* a sequence: the minutes, [minute, hour, day, month, weekday]
    Crons,       \* the expressions that callers offer: five sets of parts each
    MaxHandled,  \* bound: handlers that change a schedule, a trigger or the workflow
    MaxMishaps   \* bound: restarts and lost saves

ASSUME SchedulerAssumption == MaxHandled \in Nat /\ MaxMishaps \in Nat

VARIABLES
    sWorkflow,   \* the workflow of the schedules and triggers: its status
    sBlocked,    \* platform_settings.block_new_runs
    sSchedules,  \* store.workflow_schedules
    sTriggers,   \* store.workflow_triggers: the live tokens
    sDisk, sCache,
    sOther,      \* what another handler serialized and has not saved yet
    sNow,        \* the wall clock, an index of Moments
    sTick,       \* the scheduler thread
    sRuns,       \* the runs that were started
    sBoot, sHandled, sMishaps,
    sGone,       \* history: the tokens that were revoked and the schedules deleted
    sLost        \* history: a save failed or was overwritten by an older one

sStore == <<sSchedules, sTriggers>>
sBounds == <<sBoot, sHandled, sMishaps>>
sVars == <<sWorkflow, sBlocked, sSchedules, sTriggers, sDisk, sCache, sOther, sNow, sTick,
           sRuns, sBoot, sHandled, sMishaps, sGone, sLost>>

Ids == ToSet(ScheduleIds)
\* gone: the records of the snapshot's schedules that were deleted meanwhile.
Asleep == [pc |-> "sleep", minute |-> 0, rest |-> <<>>, fired |-> FALSE, gone |-> <<>>]

----------------------------------------------------------------------------
\* cron.py.  A part is [from, to, step]; "*" is from = -1.
FieldBounds == <<<<0, 59>>, <<0, 23>>, <<1, 31>>, <<1, 12>>, <<0, 6>>>>

\* _parse_field: the empty set stands for the ValueError.
parse_field(parts, low, high) ==
    LET From(p) == IF p.from = -1 THEN low ELSE p.from
        To(p) == IF p.from = -1 THEN high ELSE p.to
        Bad(p) == p.step <= 0 \/ From(p) < low \/ To(p) > high \/ From(p) > To(p)
    IN  IF \E p \in parts : Bad(p) THEN {}
        ELSE UNION {{v \in From(p)..To(p) : (v - From(p)) % p.step = 0} : p \in parts}

parse_cron(cron) == [i \in DOMAIN cron |-> parse_field(cron[i], FieldBounds[i][1], FieldBounds[i][2])]

is_valid_cron(cron) == Len(cron) = 5 /\ \A i \in 1..5 : parse_cron(cron)[i] # {}

\* Day of month and day of week: either one, when both are restricted.  The
\* weekday of the moment counts from Monday, that of the field from Sunday.
cron_matches(cron, m) ==
    LET f == parse_cron(cron)
        dow == {IF v = 7 THEN 0 ELSE v : v \in f[5]}
        domHit == m.day \in f[3]
        dowHit == (m.weekday + 1) % 7 \in dow
    IN  /\ m.minute \in f[1] /\ m.hour \in f[2]
        /\ m.month \in f[4]
        /\ IF f[3] # 1..31 /\ dow # 0..6 THEN domHit \/ dowHit ELSE domHit /\ dowHit

\* The minutes of the model at which each expression matches.
DueMinutes == [c \in Crons |-> {i \in DOMAIN Moments : is_valid_cron(c) /\ cron_matches(c, Moments[i])}]

----------------------------------------------------------------------------
Content == [schedules |-> sSchedules, triggers |-> sTriggers]

SInit ==
    /\ sWorkflow = "published" /\ sBlocked = FALSE
    /\ sSchedules = <<>> /\ sTriggers = {}
    /\ sDisk = Content /\ sCache = Content
    /\ sOther = {}
    /\ sNow = 1 /\ sTick = Asleep /\ sRuns = <<>>
    /\ sBoot = 1 /\ sHandled = 0 /\ sMishaps = 0
    /\ sGone = {} /\ sLost = FALSE

\* _persist_store_state, after the primed store: a failure is swallowed.
persist(saved) ==
    IF saved
    THEN sDisk' = Content' /\ sCache' = Content' /\ UNCHANGED <<sMishaps, sLost>>
    ELSE /\ sMishaps < MaxMishaps
         /\ sMishaps' = sMishaps + 1
         /\ sLost' = TRUE
         /\ UNCHANGED <<sDisk, sCache>>

Handler == sHandled < MaxHandled /\ sHandled' = sHandled + 1

\* uuid4: an id that was never used.
FreshIds == SelectSeq(ScheduleIds, LAMBDA s : s \notin DOMAIN sSchedules \cup sGone)

\* create_workflow_schedule: 404 without the workflow, 400 for a bad expression.
create_workflow_schedule(cron, enabled, saved) ==
    /\ Handler /\ sWorkflow # "gone" /\ is_valid_cron(cron)
    /\ FreshIds # <<>>
    /\ sSchedules' = sSchedules @@ (Head(FreshIds) :> [cron |-> cron, enabled |-> enabled, last |-> 0])
    /\ UNCHANGED <<sWorkflow, sBlocked, sTriggers, sOther, sNow, sTick, sRuns, sBoot, sGone>>
    /\ persist(saved)

toggle_workflow_schedule(s, enabled, saved) ==
    /\ Handler /\ s \in DOMAIN sSchedules
    /\ sSchedules' = [sSchedules EXCEPT ![s].enabled = enabled]
    /\ UNCHANGED <<sWorkflow, sBlocked, sTriggers, sOther, sNow, sTick, sRuns, sBoot, sGone>>
    /\ persist(saved)

delete_workflow_schedule(s, saved) ==
    /\ Handler /\ s \in DOMAIN sSchedules
    /\ sSchedules' = [k \in DOMAIN sSchedules \ {s} |-> sSchedules[k]]
    /\ sTick' = IF sTick.pc = "sleep" THEN sTick
                ELSE [sTick EXCEPT !.gone = (s :> sSchedules[s]) @@ @]
    /\ sGone' = sGone \cup {s}
    /\ UNCHANGED <<sWorkflow, sBlocked, sTriggers, sOther, sNow, sRuns, sBoot>>
    /\ persist(saved)

create_workflow_trigger(t, saved) ==
    /\ Handler /\ sWorkflow # "gone"
    /\ t \notin sTriggers \cup sGone
    /\ sTriggers' = sTriggers \cup {t}
    /\ UNCHANGED <<sWorkflow, sBlocked, sSchedules, sOther, sNow, sTick, sRuns, sBoot, sGone>>
    /\ persist(saved)

revoke_workflow_trigger(t, saved) ==
    /\ Handler /\ t \in sTriggers
    /\ sTriggers' = sTriggers \ {t}
    /\ sGone' = sGone \cup {t}
    /\ UNCHANGED <<sWorkflow, sBlocked, sSchedules, sOther, sNow, sTick, sRuns, sBoot>>
    /\ persist(saved)

\* fire_workflow_trigger: 404 or 409, or the run creation's own answer.
fire_workflow_trigger(t, saved) ==
    /\ Handler /\ t \in sTriggers /\ sWorkflow = "published" /\ ~sBlocked
    /\ sRuns' = Append(sRuns, [by |-> t, minute |-> 0, boot |-> sBoot, cron |-> <<>>])
    /\ UNCHANGED <<sWorkflow, sBlocked, sStore, sOther, sNow, sTick, sBoot, sGone>>
    /\ persist(saved)

\* The workflow is edited, published or deleted; new runs are blocked or allowed.
OtherHandlers ==
    /\ Handler
    /\ \/ /\ sWorkflow # "gone"
          /\ sWorkflow' \in {"published", "draft", "gone"} \ {sWorkflow}
          /\ UNCHANGED sBlocked
       \/ sBlocked' = ~sBlocked /\ UNCHANGED sWorkflow
    /\ UNCHANGED <<sStore, sDisk, sCache, sOther, sNow, sTick, sRuns, sBoot, sMishaps, sGone,
                   sLost>>

\* Any other handler's _persist_store_state: it serializes the store and, later,
\* writes the section if it is not what the cache says was written last.
OtherSerializes ==
    /\ sOther = {} /\ sMishaps < MaxMishaps
    /\ sOther' = {Content}
    /\ sMishaps' = sMishaps + 1
    /\ UNCHANGED <<sWorkflow, sBlocked, sStore, sDisk, sCache, sNow, sTick, sRuns, sBoot,
                   sHandled, sGone, sLost>>

OtherSaves ==
    \E snap \in sOther :
        /\ sOther' = {}
        /\ IF snap = sCache THEN UNCHANGED <<sDisk, sCache, sLost>>
           ELSE /\ sDisk' = snap /\ sCache' = snap
                /\ sLost' = (sLost \/ snap # Content)
        /\ UNCHANGED <<sWorkflow, sBlocked, sStore, sNow, sTick, sRuns, sBounds, sGone>>

----------------------------------------------------------------------------
\* _scheduler_tick: the minute and the list of schedules are read once.
BeginTick ==
    /\ sTick.pc = "sleep" /\ ~sBlocked /\ DOMAIN sSchedules # {}
    /\ sTick' = [pc |-> "scan", minute |-> sNow, fired |-> FALSE,
                 gone |-> <<>>,
                 rest |-> SelectSeq(ScheduleIds, LAMBDA s : s \in DOMAIN sSchedules)]
    /\ UNCHANGED <<sWorkflow, sBlocked, sStore, sDisk, sCache, sOther, sNow, sRuns, sBounds,
                   sGone, sLost>>

\* The snapshot holds the live records: a toggle is seen, a deletion is not.
Snapshotted(s) == IF s \in DOMAIN sSchedules THEN sSchedules[s] ELSE sTick.gone[s]

\* Mutant of Due: the minute key is not looked at.
DueAgain(r) == r.enabled /\ sTick.minute \in DueMinutes[r.cron]

Due(r) ==
    /\ r.enabled
    /\ r.last # sTick.minute
    /\ sTick.minute \in DueMinutes[r.cron]

SkipSchedule ==
    /\ sTick.pc = "scan" /\ sTick.rest # <<>>
    /\ ~Due(Snapshotted(Head(sTick.rest)))
    /\ sTick' = [sTick EXCEPT !.rest = Tail(@)]
    /\ UNCHANGED <<sWorkflow, sBlocked, sStore, sDisk, sCache, sOther, sNow, sRuns, sBounds,
                   sGone, sLost>>

MarkFired ==
    /\ sTick.pc = "scan" /\ sTick.rest # <<>>
    /\ Due(Snapshotted(Head(sTick.rest)))
    /\ LET s == Head(sTick.rest)
       IN  IF s \in DOMAIN sSchedules
           THEN /\ sSchedules' = [sSchedules EXCEPT ![s].last = sTick.minute]
                /\ sTick' = [sTick EXCEPT !.pc = "fire"]
           ELSE /\ sTick' = [sTick EXCEPT !.pc = "fire", !.gone[s].last = sTick.minute]
                /\ UNCHANGED sSchedules
    /\ UNCHANGED <<sWorkflow, sBlocked, sTriggers, sDisk, sCache, sOther, sNow, sRuns, sBounds,
                   sGone, sLost>>

\* _fire_scheduled_run returns silently without a published workflow, and still
\* counts as fired; run creation raises when new runs are blocked, and does not.
FireNothing ==
    /\ sTick.pc = "fire" /\ (sWorkflow # "published" \/ sBlocked)
    /\ sTick' = [sTick EXCEPT !.pc = "scan", !.rest = Tail(@),
                              !.fired = @ \/ sWorkflow # "published"]
    /\ UNCHANGED <<sWorkflow, sBlocked, sStore, sDisk, sCache, sOther, sNow, sRuns, sBounds,
                   sGone, sLost>>

\* Run creation writes the store, the minute key with it, ...
PersistFired(saved) ==
    /\ sTick.pc = "fire" /\ sWorkflow = "published" /\ ~sBlocked
    /\ sTick' = [sTick EXCEPT !.pc = "submit"]
    /\ UNCHANGED <<sWorkflow, sBlocked, sStore, sOther, sNow, sRuns, sBoot, sHandled, sGone>>
    /\ persist(saved)

\* ... and then hands the run to the executor.
SubmitFired ==
    /\ sTick.pc = "submit"
    /\ sRuns' = Append(sRuns, [by |-> Head(sTick.rest), minute |-> sTick.minute, boot |-> sBoot,
                             cron |-> Snapshotted(Head(sTick.rest)).cron])
    /\ sTick' = [sTick EXCEPT !.pc = "scan", !.rest = Tail(@), !.fired = TRUE]
    /\ UNCHANGED <<sWorkflow, sBlocked, sStore, sDisk, sCache, sOther, sNow, sBounds, sGone,
                   sLost>>

EndTick(saved) ==
    /\ sTick.pc = "scan" /\ sTick.rest = <<>>
    /\ sTick' = Asleep
    /\ UNCHANGED <<sWorkflow, sBlocked, sStore, sOther, sNow, sRuns, sBoot, sHandled, sGone>>
    /\ IF sTick.fired THEN persist(saved) ELSE saved /\ UNCHANGED <<sDisk, sCache, sMishaps, sLost>>

\* The clock goes on whatever the scheduler does.
NextMinute ==
    /\ sNow < Len(Moments)
    /\ sNow' = sNow + 1
    /\ UNCHANGED <<sWorkflow, sBlocked, sStore, sDisk, sCache, sOther, sTick, sRuns, sBounds,
                   sGone, sLost>>

\* _apply_store_state: the tokens, the flags and the minute keys come back.
RestartScheduler ==
    /\ sMishaps < MaxMishaps
    /\ sMishaps' = sMishaps + 1 /\ sBoot' = sBoot + 1
    /\ sSchedules' = sDisk.schedules /\ sTriggers' = sDisk.triggers
    /\ sCache' = sDisk
    /\ sOther' = {} /\ sTick' = Asleep
    /\ UNCHANGED <<sWorkflow, sBlocked, sDisk, sNow, sRuns, sHandled, sGone, sLost>>

SNext ==
    \/ \E saved \in BOOLEAN :
         \/ \E c \in Crons, e \in BOOLEAN : create_workflow_schedule(c, e, saved)
         \/ \E s \in Ids, e \in BOOLEAN : toggle_workflow_schedule(s, e, saved)
         \/ \E s \in Ids : delete_workflow_schedule(s, saved)
         \/ \E t \in TriggerIds : \/ create_workflow_trigger(t, saved)
                                  \/ revoke_workflow_trigger(t, saved)
                                  \/ fire_workflow_trigger(t, saved)
         \/ PersistFired(saved)
         \/ EndTick(saved)
    \/ OtherHandlers
    \/ OtherSerializes
    \/ OtherSaves
    \/ BeginTick
    \/ SkipSchedule
    \/ MarkFired
    \/ FireNothing
    \/ SubmitFired
    \/ NextMinute
    \/ RestartScheduler

----------------------------------------------------------------------------
STypeOK ==
    /\ DOMAIN sSchedules \subseteq Ids /\ sTriggers \subseteq TriggerIds
    /\ \A s \in DOMAIN sSchedules : sSchedules[s].last \in 0..Len(Moments)
    /\ sTick.pc \in {"sleep", "scan", "fire", "submit"}
    /\ sTick.pc \in {"fire", "submit"} => sTick.rest # <<>>

SameFiring(i, j) ==
    i # j /\ sRuns[i].by = sRuns[j].by /\ sRuns[i].by \in Ids /\ sRuns[i].minute = sRuns[j].minute

\* "The minute-key dedupe prevents double-firing": two ticks of one minute start
\* a schedule once, and so do two lives of the backend, unless a save was lost.
FiresOncePerMinute ==
    \A i, j \in DOMAIN sRuns :
        SameFiring(i, j) => sRuns[i].boot # sRuns[j].boot /\ sLost

\* What was answered as gone stays gone over a restart: a revoked token or a
\* deleted schedule comes back to life only with a save that was lost.
GoneStaysGone == sLost \/ sGone \cap (sTriggers \cup DOMAIN sSchedules) = {}

\* An independent reading of the docstring: every field admits the moment, where
\* a day that is restricted in both of its fields needs one of them.
CronIntends(cron, m) ==
    LET Has(i, v) == \E p \in cron[i] :
                        \E k \in 0..59 : v = (IF p.from = -1 THEN FieldBounds[i][1] ELSE p.from)
                                                + k * p.step
                                        /\ (p.from = -1 \/ v <= p.to)
        Free(i) == \A v \in FieldBounds[i][1]..FieldBounds[i][2] : Has(i, v)
        Day == Has(3, m.day)
        Weekday == Has(5, (m.weekday + 1) % 7)
    IN  /\ Has(1, m.minute) /\ Has(2, m.hour) /\ Has(4, m.month)
        /\ IF Free(3) THEN Weekday ELSE IF Free(5) THEN Day ELSE Day \/ Weekday

IntendedMinutes == [c \in Crons |-> {i \in DOMAIN Moments : CronIntends(c, Moments[i])}]

\* A schedule starts runs in minutes that its expression admits, and no other.
RunsWereDue ==
    \A i \in DOMAIN sRuns :
        sRuns[i].by \in Ids => sRuns[i].minute \in IntendedMinutes[sRuns[i].cron]

\* A tick passes over no enabled schedule that is due and has not been marked,
\* whatever handlers did to the schedules since the tick began.
NothingDueIsPassedOver ==
    [][sTick.pc = "scan" /\ sTick'.pc = "scan" /\ Len(sTick'.rest) < Len(sTick.rest) =>
         LET r == Snapshotted(Head(sTick.rest))
         IN  r.enabled /\ sTick.minute \in IntendedMinutes[r.cron] => r.last = sTick.minute]_sVars

\* cron.py: "day-of-week 0 or 7 = Sunday".
SevenIsSunday ==
    LET Each == {[from |-> -1, to |-> 0, step |-> 1]}
    IN  is_valid_cron(<<Each, Each, Each, Each, {[from |-> 7, to |-> 7, step |-> 1]}>>)
=============================================================================
