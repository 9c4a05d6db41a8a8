------------------------------ MODULE DevTeam ------------------------------
(* The two review flows around the coding agent: TeamFlow (harness/team.py:   *)
(* architect, implementer, reviewers, moderator) and CollaborativeTeam        *)
(* (harness/collaboration.py: discussion, build, verification, gate), and the *)
(* delivery of what they approve (harness/integrations.py, development.py).   *)
(* A specification may be run again: the branch and its pull request stay.    *)
(*                                                                            *)
(* The worktree's content is the number of the build that last changed it; a  *)
(* list of required changes is the number of the round that asked for it.     *)
EXTENDS Integers, Sequences, FiniteSets

CONSTANTS
    Reviewers,        \* how many roles look at the change, one after the other
    MaxRounds,        \* TeamFlow.max_rounds, CollaborativeTeam.max_build_rounds
    MaxDiscussions,   \* CollaborativeTeam.max_discussion_rounds
    MaxFlows          \* how often the flow is run for the specification

ASSUME DevTeamBounds == {Reviewers, MaxRounds, MaxDiscussions, MaxFlows} \subseteq Nat \ {0}

VARIABLES
    eSetup,    \* [flow, policy]: the flow and the delivery policy
    eRun,      \* the run in progress
    eRepo      \* the worktree, the pull request and the target branch

eVars == <<eSetup, eRun, eRepo>>

Policies == [auto_open_pr : BOOLEAN, auto_merge_on_reapprove : BOOLEAN]
ENothing == 0
EVerdicts == {"approve", "request_changes"}
EAnswers == EVerdicts \cup {"unreadable"}

ENewRun(n) ==
    [at |-> "plan", nth |-> n, talk |-> 0, design |-> ENothing, round |-> 0, asked |-> ENothing,
     directives |-> ENothing, submitted |-> FALSE, patch |-> ENothing,
     verdicts |-> <<>>, seen |-> <<>>,
     answer |-> "", decision |-> "", approved |-> FALSE, final |-> ENothing, action |-> ""]

EInit ==
    /\ eSetup \in [flow : {"team", "panel"}, policy : Policies]
    /\ eRun = ENewRun(1)
    /\ eRepo = [tree |-> ENothing, edits |-> 0, pr |-> FALSE, branch |-> ENothing,
                main |-> ENothing]

-----------------------------------------------------------------------------
(* Planning *)

(* TeamFlow: the architect's plan, if there is an architect.                  *)
Architect ==
    /\ eRun.at = "plan" /\ eSetup.flow = "team"
    /\ eRun' = [eRun EXCEPT !.at = "implement", !.round = 1]
    /\ UNCHANGED <<eSetup, eRepo>>

(* CollaborativeTeam: one round of discussion; the lead's consensus with a    *)
(* design ends it, a draft is kept, and without any the proposals are used.   *)
Discuss ==
    /\ eRun.at = "plan" /\ eSetup.flow = "panel"
    /\ \E consensus, drafted \in BOOLEAN :
         LET r == eRun.talk + 1
             design == IF drafted THEN r ELSE eRun.design
             settled == (consensus /\ drafted) \/ r = MaxDiscussions IN
         eRun' = [eRun EXCEPT !.talk = r, !.design = design,
                              !.at = IF settled THEN "implement" ELSE "plan",
                              !.round = IF settled THEN 1 ELSE 0]
    /\ UNCHANGED <<eSetup, eRepo>>

-----------------------------------------------------------------------------
(* Building and reviewing *)

(* The coding agent works in the task's worktree, which keeps what earlier    *)
(* rounds left.  It submits the worktree's change, or nothing if git shows    *)
(* none, or it does not submit and its patch is withheld.                     *)
implement ==
    /\ eRun.at = "implement"
    /\ \E edited, submitted, shown \in BOOLEAN :
         LET n == eRepo.edits + 1
             tree == IF edited THEN n ELSE eRepo.tree IN
         /\ eRepo' = [eRepo EXCEPT !.tree = tree, !.edits = IF edited THEN n ELSE @]
         /\ eRun' = [eRun EXCEPT !.at = "review", !.submitted = submitted,
                                 !.patch = IF submitted /\ shown THEN tree ELSE ENothing,
                                 !.verdicts = <<>>, !.seen = <<>>]
    /\ UNCHANGED eSetup

(* The next reviewer reads the diff and answers; an unreadable answer of      *)
(* TeamFlow's reviewers counts as approval unless it lists findings.          *)
review ==
    /\ eRun.at = "review"
    /\ \E verdict \in EVerdicts :
         eRun' = [eRun EXCEPT !.verdicts = Append(@, verdict), !.seen = Append(@, eRun.patch),
                              !.at = IF Len(eRun.seen) + 1 = Reviewers THEN "gate" ELSE "review"]
    /\ UNCHANGED <<eSetup, eRepo>>

EBlocked == \E r \in DOMAIN eRun.verdicts : eRun.verdicts[r] = "request_changes"

(* The moderator's or the lead's decision.  Without a readable one TeamFlow   *)
(* holds back if a reviewer does, CollaborativeTeam if changes are required,  *)
(* and both if nothing was submitted.                                         *)
moderate(answer, required) ==
    IF answer \in EVerdicts THEN answer
    ELSE IF eSetup.flow = "team"
    THEN IF EBlocked \/ ~eRun.submitted THEN "request_changes" ELSE "approve"
    ELSE IF eRun.submitted /\ ~required THEN "approve" ELSE "request_changes"

(* The next round's directives: the latest required changes, kept by a round  *)
(* that lists none.                                                           *)
NextDirectives(required) == IF required THEN eRun.round ELSE eRun.directives

(* Mutant of GateOutcome: an approved run ships the worktree. *)
GateShipsTree(decision, required) ==
    IF decision = "approve" /\ eRun.submitted
    THEN [eRun EXCEPT !.at = "deliver", !.decision = decision, !.approved = TRUE,
                      !.final = eRepo.tree]
    ELSE [eRun EXCEPT !.decision = decision, !.directives = NextDirectives(required),
                      !.asked = IF required THEN eRun.round ELSE @,
                      !.round = IF @ < MaxRounds THEN @ + 1 ELSE @,
                      !.at = IF eRun.round < MaxRounds THEN "implement" ELSE "done"]

(* Approved and submitted: the round's patch is the result.  Otherwise the    *)
(* next round, or none and no patch.                                          *)
GateOutcome(decision, required) ==
    IF decision = "approve" /\ eRun.submitted
    THEN [eRun EXCEPT !.at = "deliver", !.decision = decision, !.approved = TRUE,
                      !.final = eRun.patch]
    ELSE [eRun EXCEPT !.decision = decision, !.directives = NextDirectives(required),
                      !.asked = IF required THEN eRun.round ELSE @,
                      !.round = IF @ < MaxRounds THEN @ + 1 ELSE @,
                      !.at = IF eRun.round < MaxRounds THEN "implement" ELSE "done"]

Gate ==
    /\ eRun.at = "gate"
    /\ \E answer \in EAnswers, required \in BOOLEAN :
         eRun' = [GateOutcome(moderate(answer, required), required) EXCEPT !.answer = answer]
    /\ UNCHANGED <<eSetup, eRepo>>

(* A planning, review or gate call of the model fails: no one catches it.     *)
FlowRaises ==
    /\ eRun.at \in {"plan", "review", "gate"}
    /\ eRun' = [eRun EXCEPT !.at = "done"]
    /\ UNCHANGED <<eSetup, eRepo>>

-----------------------------------------------------------------------------
(* Delivery *)

(* An open pull request of the branch is merged as it stands, or left for a   *)
(* person; otherwise the worktree is committed to the branch and a pull       *)
(* request opened, whether or not the commit or the push worked.              *)
deliver ==
    /\ eRun.at = "deliver"
    /\ \/ /\ eRepo.pr
          /\ IF eSetup.policy.auto_merge_on_reapprove
             THEN /\ eRun' = [eRun EXCEPT !.at = "done", !.action = "merged"]
                  /\ eRepo' = [eRepo EXCEPT !.pr = FALSE, !.main = eRepo.branch]
             ELSE /\ eRun' = [eRun EXCEPT !.at = "done", !.action = "awaiting_merge"]
                  /\ eRepo' = eRepo
       \/ /\ ~eRepo.pr /\ ~eSetup.policy.auto_open_pr
          /\ eRun' = [eRun EXCEPT !.at = "done", !.action = "skipped"]
          /\ eRepo' = eRepo
       \/ /\ ~eRepo.pr /\ eSetup.policy.auto_open_pr
          /\ \E pushed \in BOOLEAN :
               eRepo' = [eRepo EXCEPT !.pr = pushed,
                                      !.branch = IF pushed THEN eRepo.tree ELSE @]
          /\ eRun' = [eRun EXCEPT !.at = "done", !.action = "opened_pr"]
    /\ UNCHANGED eSetup

(* The flow is run again for the same specification, in a fresh worktree.     *)
RunAgain ==
    /\ eRun.at = "done" /\ eRun.nth < MaxFlows
    /\ eRun' = ENewRun(eRun.nth + 1)
    /\ eRepo' = [eRepo EXCEPT !.tree = ENothing]
    /\ UNCHANGED eSetup

EFinished == eRun.at = "done" /\ eRun.nth = MaxFlows /\ UNCHANGED eVars

EFlowStep ==
    \/ Architect \/ Discuss \/ implement \/ review
    \/ Gate \/ FlowRaises \/ deliver

ENext == EFlowStep \/ RunAgain \/ EFinished

ESpec == EInit /\ [][ENext]_eVars /\ WF_eVars(EFlowStep)

-----------------------------------------------------------------------------
(* Properties *)

(* The shapes of the state.                                                   *)
ETypeOK ==
    /\ eRun.at \in {"plan", "implement", "review", "gate", "deliver", "done"}
    /\ eRun.round \in 0..MaxRounds /\ eRun.talk \in 0..MaxDiscussions
    /\ eRun.final # ENothing => eRun.approved
    /\ eRun.patch # ENothing => eRun.submitted

(* What is handed back as approved is exactly what every reviewer of the      *)
(* approving round read, although the worktree is shared by all rounds        *)
(* (TeamFlow.run, CollaborativeTeam.run: final_patch).                        *)
ApprovedChangeWasReviewed ==
    eRun.approved => /\ Len(eRun.seen) = Reviewers
                     /\ \A r \in 1..Reviewers : eRun.seen[r] = eRun.final

(* A pull request is opened or merged only by a run the team approved with a  *)
(* submitted implementation (DevelopmentWorkflow.run, DevFlow.run).           *)
OnlyApprovedIsDelivered ==
    eRun.action # "" => eRun.approved /\ eRun.submitted /\ eRun.decision = "approve"

(* Required changes are not forgotten: every later round works from the most  *)
(* recent list any round produced, also after a round that produced none.     *)
RequiredChangesAreCarried == eRun.at = "implement" => eRun.directives = eRun.asked

(* TeamFlow's "safe default": a change a reviewer objects to is approved only *)
(* by a moderator who said so; an unreadable moderation holds it back         *)
(* (TeamFlow._moderate).                                                      *)
OverrulingIsExplicit ==
    eRun.approved /\ eSetup.flow = "team" /\ EBlocked => eRun.answer = "approve"

(* Every flow comes to an end: rounds are bounded.                            *)
FlowEnds == []<>(eRun.at = "done")
=============================================================================
