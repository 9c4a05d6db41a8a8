---------------------------- MODULE MCContention ----------------------------
(***************************************************************************)
(* What two processes contend for: the loop's lock file, the claim on an    *)
(* issue, the download of a model.  part says which of the three a          *)
(* behaviour is about; the other two rest in a state they can be in at      *)
(* which nothing is owed: a tick holds the lock, a runner works on the      *)
(* issue it claimed, no model is being downloaded.                          *)
(***************************************************************************)
EXTENDS RunLock, LoopClaim, LocalModels

VARIABLE part

contentionVars == <<part, lockVars, claimVars, vVars>>

LockAtRest ==
    LET holder == CHOOSE p \in Procs : TRUE IN
    /\ file = [creator |-> holder, at |-> 0]
    /\ lockPc = [p \in Procs |-> IF p = holder THEN "held" ELSE "idle"]
    /\ tries = [p \in Procs |-> 0]
    /\ payload = [p \in Procs |-> 0]
    /\ lockSeen = [p \in Procs |-> 0]
    /\ lockCrashes = 0

ClaimAtRest ==
    LET worker == CHOOSE r \in Runners : TRUE
        id == CHOOSE i \in RunIds : TRUE IN
    /\ claims = <<[run |-> id, age |-> 0]>>
    /\ claimPc = [r \in Runners |-> IF r = worker THEN "work" ELSE "idle"]
    /\ claimRun = [r \in Runners |-> IF r = worker THEN id ELSE 0]
    /\ now = [r \in Runners |-> 0]
    /\ active = [r \in Runners |-> IF r = worker THEN id ELSE 0]
    /\ claimCrashes = 0

ContentionInit ==
    /\ part \in {"lock", "claim", "models"}
    /\ IF part = "lock" THEN LockInit ELSE LockAtRest
    /\ IF part = "claim" THEN ClaimInit ELSE ClaimAtRest
    /\ VInit

ContentionNext ==
    \/ part = "lock" /\ LockNext /\ UNCHANGED <<part, claimVars, vVars>>
    \/ part = "claim" /\ ClaimNext /\ UNCHANGED <<part, lockVars, vVars>>
    \/ part = "models" /\ VNext /\ UNCHANGED <<part, lockVars, claimVars>>

\* The fairness of each module, for the part that takes steps.
ContentionFairness ==
    /\ \A p \in Procs : WF_lockVars(part = "lock" /\ LockStep(p))
    /\ WF_lockVars(part = "lock" /\ LockTick)
    /\ \A r \in Runners : WF_claimVars(part = "claim" /\ ClaimStep(r))
    /\ WF_claimVars(part = "claim" /\ ClaimTick)
    /\ WF_vVars(part = "models" /\ VWorkerStep)

ContentionSpec == ContentionInit /\ [][ContentionNext]_contentionVars /\ ContentionFairness
=============================================================================
