----------------------------- MODULE RunOutcome -----------------------------
(***************************************************************************)
(* What a verified run promises (verified_loop.py, "exactly three end      *)
(* states"): it works on a workspace, ends once as done, blocked or        *)
(* stopped, is done only on a workspace that meets the done criteria, and  *)
(* touches nothing after its end.                                          *)
(***************************************************************************)
CONSTANTS Workspaces,  \* contents of the workspace
          Accepted     \* contents that meet every done criterion

VARIABLES workspace, end

vars == <<workspace, end>>

Init == workspace \in Workspaces /\ end = "none"

\* The agent changes the workspace.
Work ==
    /\ end = "none"
    /\ workspace' \in Workspaces
    /\ UNCHANGED end

\* Every criterion was verified.
Done ==
    /\ end = "none" /\ workspace \in Accepted
    /\ end' = "done"
    /\ UNCHANGED workspace

\* A blocker, or an exhausted budget, a user or a policy that stops the run.
GiveUp ==
    /\ end = "none"
    /\ end' \in {"blocked", "stopped"}
    /\ UNCHANGED workspace

Next == Work \/ Done \/ GiveUp

Spec == Init /\ [][Next]_vars /\ WF_vars(Done \/ GiveUp)
=============================================================================
