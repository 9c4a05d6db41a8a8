--------------------------- MODULE MCControlPlane ---------------------------
(***************************************************************************)
(* The handlers of the control plane that share the in-memory store, each   *)
(* explored from its own initial states: part says which one a behaviour    *)
(* is about, and the others stay as they start.                             *)
(***************************************************************************)
EXTENDS Definitions, WorkflowRuns, StatePersist, Scheduler

VARIABLE part

cpVars == <<part, dVars, wVars, pVars, sVars>>

CPSections == <<"runs", "run_events">>
CPScheduleIds == <<"s1", "s2">>

\* Saturday 31 January 23:59 and Sunday 1 February 0:00; every minute, and each
\* quarter of an hour on the 15th or on Sundays; Saturdays; an invalid one.
CPMoments == <<[minute |-> 59, hour |-> 23, day |-> 31, month |-> 1, weekday |-> 5],
               [minute |-> 0, hour |-> 0, day |-> 1, month |-> 2, weekday |-> 6]>>
CPPart(from, to, step) == {[from |-> from, to |-> to, step |-> step]}
CPEach == CPPart(-1, 0, 1)
CPCrons == {<<CPEach, CPEach, CPEach, CPEach, CPEach>>,
            <<CPPart(-1, 0, 15), CPEach, CPPart(15, 15, 1), CPEach, CPPart(0, 0, 1)>>,
            <<CPEach, CPEach, CPEach, CPEach, CPPart(6, 6, 1)>>,
            <<CPEach, CPEach, CPEach, CPEach, CPPart(6, 7, 1)>>}

CPInit ==
    /\ part \in {"definitions", "runs", "persist", "scheduler"}
    /\ DInit /\ (part # "definitions" => dKind = "agent" /\ dOrigin = "user")
    /\ WInit
    /\ PInit /\ (part # "persist" => pBackend = "sqlite")
    /\ SInit

CPNext ==
    \/ part = "definitions" /\ DNext /\ UNCHANGED <<part, wVars, pVars, sVars>>
    \/ part = "runs" /\ WNext /\ UNCHANGED <<part, dVars, pVars, sVars>>
    \/ part = "persist" /\ PNext /\ UNCHANGED <<part, dVars, wVars, sVars>>
    \/ part = "scheduler" /\ SNext /\ UNCHANGED <<part, dVars, wVars, pVars>>

CPSpec == CPInit /\ [][CPNext]_cpVars
=============================================================================
