------------------------------- MODULE MCTicks -------------------------------
(***************************************************************************)
(* The two halves of a tick of the self-improvement loop: working on an     *)
(* issue, and reconciling the pull requests of earlier runs.  part says     *)
(* which one a behaviour is about.  The other rests: no run is active, or   *)
(* the recorded pull requests were merged by a person.                      *)
(***************************************************************************)
EXTENDS LoopRunner, LoopMerge

VARIABLE part

tickVars == <<part, runVars, mergeVars>>

MergeAtRest ==
    /\ pr = [p \in Prs |-> [state |-> "merged", by |-> "human", head |-> 0, clean |-> TRUE,
                            checks |-> "none", greened |-> FALSE, young |-> TRUE,
                            evalHeld |-> FALSE]]
    /\ disk = {} /\ mem = {} /\ todo = {}
    /\ mergePc = "tick" /\ cur = NoPr
    /\ info = 0 /\ green = FALSE /\ clean = FALSE
    /\ held = {} /\ explained = {}
    /\ moves = 0 /\ faults = 0 /\ mergeCrashes = 0

TickInit ==
    /\ part \in {"runner", "merge"}
    /\ RunInit
    /\ IF part = "merge" THEN MergeInit ELSE MergeAtRest

TickNext ==
    \/ part = "runner" /\ RunNext /\ UNCHANGED <<part, mergeVars>>
    \/ part = "merge" /\ MergeNext /\ UNCHANGED <<part, runVars>>

\* The fairness of each module, for the part that takes steps.
TickFairness ==
    /\ WF_runVars(part = "runner" /\ RunStep)
    /\ WF_runVars(part = "runner" /\ ClearKill)
    /\ \A i \in Issues : WF_runVars(part = "runner" /\ ClaimAges(i))
    /\ WF_mergeVars(part = "merge" /\ MergeStep)
    /\ \A p \in Prs : /\ WF_mergeVars(part = "merge" /\ CiStep(p))
                      /\ WF_mergeVars(part = "merge" /\ GraceEnds(p))

TickSpec == TickInit /\ [][TickNext]_tickVars /\ TickFairness
=============================================================================
