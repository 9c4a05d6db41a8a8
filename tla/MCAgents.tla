------------------------------ MODULE MCAgents ------------------------------
(***************************************************************************)
(* The loops that drive agents: the verified run loop, the coding agent's   *)
(* loop, the review rounds of a team and the exchange of mentions in a      *)
(* chat.  part says which of them a behaviour is about.  The others are     *)
(* over: the coding agent found no provider, the team's flow raised, nobody *)
(* was mentioned, and the verified run is stopped before its first call.    *)
(***************************************************************************)
EXTENDS VerifiedLoop, AgentLoop, DevTeam, MentionLoop

VARIABLE part

agentVars == <<part, vars, aVars, eVars, mVars>>

AgentLoopOver ==
    /\ aTask = [protocol |-> "tools", edits |-> TRUE]
    /\ aLoop = [at |-> "ended", step |-> 0, attempt |-> 0, over |-> FALSE, forced |-> FALSE,
                reasks |-> 0, calls |-> <<>>, open |-> 0, after |-> 0,
                outcome |-> "provider_unavailable", patch |-> ANoPatch]
    /\ aTools = [applied |-> FALSE, dirty |-> FALSE, failures |-> 0, format |-> "search-replace",
                 rejected |-> 0, submission |-> ANoPatch]

FlowOver ==
    /\ eSetup = [flow |-> "team", policy |-> [auto_open_pr |-> FALSE,
                                              auto_merge_on_reapprove |-> FALSE]]
    /\ eRun = [ENewRun(1) EXCEPT !.at = "done"]
    /\ eRepo = [tree |-> ENothing, edits |-> 0, pr |-> FALSE, branch |-> ENothing,
                main |-> ENothing]

ExchangeOver ==
    /\ mPublished = {} /\ mPinned = <<>>
    /\ mPc = "done" /\ mQueue = <<>> /\ mVisited = {} /\ mTurns = 0
    /\ mCall = Call(Lead, 0, FALSE) /\ mIteration = 0
    /\ mEvents = <<>> /\ mFailed = FALSE

AgentInit ==
    /\ part \in {"run", "agent", "team", "chat"}
    /\ Init /\ (part # "run" => ws = CHOOSE w \in Workspaces : TRUE)
    /\ IF part = "agent" THEN AInit ELSE AgentLoopOver
    /\ IF part = "team" THEN EInit ELSE FlowOver
    /\ IF part = "chat" THEN MInit ELSE ExchangeOver

\* The verified run of the parts that are not about it.
StopTheRun ==
    /\ part # "run" /\ cp.final = "none"
    /\ IF stop THEN Step ELSE RequestStop
    /\ UNCHANGED <<part, aVars, eVars, mVars>>

AgentNext ==
    \/ StopTheRun
    \/ part = "run" /\ Next /\ UNCHANGED <<part, aVars, eVars, mVars>>
    \/ /\ cp.final # "none"
       /\ \/ part = "agent" /\ ANext /\ UNCHANGED <<part, vars, eVars, mVars>>
          \/ part = "team" /\ ENext /\ UNCHANGED <<part, vars, aVars, mVars>>
          \/ part = "chat" /\ MNext /\ UNCHANGED <<part, vars, aVars, eVars>>

\* The fairness of each module, for the part that takes steps.
AgentFairness ==
    /\ WF_vars(StopTheRun)
    /\ WF_vars(part = "run" /\ Step)
    /\ WF_aVars(part = "agent" /\ cp.final # "none" /\ ALoopStep)
    /\ WF_eVars(part = "team" /\ cp.final # "none" /\ EFlowStep)
    /\ WF_mVars(part = "chat" /\ cp.final # "none" /\ MNext)

AgentSpec == AgentInit /\ [][AgentNext]_agentVars /\ AgentFairness
=============================================================================
