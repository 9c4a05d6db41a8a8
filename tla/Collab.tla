------------------------------- MODULE Collab -------------------------------
(* A collaboration session: the endpoints that join a session, read it, sync  *)
(* a graph into it and change roles (main.py, /collab/sessions), and the      *)
(* canvas that polls and pushes (studio-full-canvas.tsx).  Handlers run in a  *)
(* thread pool, so a sync may be overtaken between its version check and its  *)
(* write; answers travel back in any order and may be lost, in which case the *)
(* browser repeats the request.                                               *)
(*                                                                            *)
(* A graph is the set of edits it contains.  The saved definition is {}.      *)
EXTENDS Integers, FiniteSets

CONSTANTS
    OUsers,       \* the participants
    MaxEdits,     \* edits made in a behaviour
    MaxTurnovers  \* joins after the first, role changes and lost answers

ASSUME CollabBounds == MaxEdits \in Nat \ {0} /\ MaxTurnovers \in Nat

VARIABLES
    oSess,     \* [ver, graph, roles]: the session, version 0 before the first join
    oClient,   \* user -> [joined, ver, graph, dirty, timer]
    oNet,      \* the sync requests under way: [user, base, graph, at, role, ans]
    oPoll,     \* user -> the answer to a poll on its way, or ONoPoll
    oPast      \* [edits, turnovers, mixed, hasty, stale]: history

oVars == <<oSess, oClient, oNet, oPoll, oPast>>

ORoles == {"viewer", "editor", "owner"}
ONoPoll == [ver |-> 0, graph |-> {}]
OFresh == [joined |-> FALSE, ver |-> 0, graph |-> {}, dirty |-> FALSE, timer |-> FALSE]

OInit ==
    /\ oSess = [ver |-> 0, graph |-> {}, roles |-> [u \in OUsers |-> "none"]]
    /\ oClient = [u \in OUsers |-> OFresh]
    /\ oNet = {}
    /\ oPoll = [u \in OUsers |-> ONoPoll]
    /\ oPast = [edits |-> {}, turnovers |-> 0, mixed |-> FALSE, hasty |-> {}, stale |-> FALSE]

InFlight(u) == {q \in oNet : q.user = u}
Turnover(past) == [past EXCEPT !.turnovers = @ + 1]

-----------------------------------------------------------------------------
(* The session *)

(* The first participant owns the session, the others get what they ask for.  *)
upsert_collaboration_participant(roles, u, role) == [roles EXCEPT ![u] = role]
EffectiveRole(asked) == IF \A v \in OUsers : oSess.roles[v] = "none" THEN "owner" ELSE asked

(* The page is opened: it joins and takes over the version, not the graph; a  *)
(* request or a poll of the page it replaces is forgotten by the browser.     *)
join_collaboration_session(u) ==
    /\ oClient[u].joined => oPast.turnovers < MaxTurnovers
    /\ \E asked \in {"editor", "viewer"} :
         oSess' = [oSess EXCEPT !.ver = IF @ = 0 THEN 1 ELSE @,
                     !.roles = upsert_collaboration_participant(@, u, EffectiveRole(asked))]
    /\ oClient' = [oClient EXCEPT ![u] = [OFresh EXCEPT !.joined = TRUE, !.ver = oSess'.ver]]
    /\ oNet' = {q \in oNet : q.user # u}
    /\ oPoll' = [oPoll EXCEPT ![u] = ONoPoll]
    /\ oPast' = [(IF oClient[u].joined THEN Turnover(oPast) ELSE oPast) EXCEPT !.hasty = @ \ {u}]

(* An owner changes the role of another participant.                          *)
update_collaboration_permissions ==
    /\ oPast.turnovers < MaxTurnovers
    /\ \E u, target \in OUsers, role \in ORoles :
         /\ oSess.roles[u] = "owner" /\ oSess.roles[target] \notin {"none", role}
         /\ target = u => role = "owner"
         /\ oSess' = [oSess EXCEPT !.roles[target] = role]
    /\ oPast' = Turnover(oPast)
    /\ UNCHANGED <<oClient, oNet, oPoll>>

Step(q, next) == oNet' = (oNet \ {q}) \cup {next}

(* Mutant of Accepts: a base that lies ahead or behind is let through. *)
AcceptsAny(q) == TRUE

Accepts(q) == q.base = oSess.ver

(* sync: the participant is looked up and the version compared, ...           *)
CheckSync(q) ==
    /\ q.at = "sent"
    /\ LET role == oSess.roles[q.user] IN
       Step(q, IF role \in {"none", "viewer"} THEN [q EXCEPT !.at = "failed"]
               ELSE IF Accepts(q) THEN [q EXCEPT !.at = "checked", !.role = role]
               ELSE [q EXCEPT !.at = "answered", !.ans = oSess.ver])
    /\ UNCHANGED <<oSess, oClient, oPoll, oPast>>

(* ... then graph, version and participant are written and the answer sent.   *)
WriteSync(q) ==
    /\ q.at = "checked"
    /\ oSess' = [ver |-> oSess.ver + 1, graph |-> q.graph,
                 roles |-> upsert_collaboration_participant(oSess.roles, q.user, q.role)]
    /\ Step(q, [q EXCEPT !.at = "answered", !.ans = oSess.ver + 1])
    /\ LET mixed == oPast.mixed \/ \E p \in oNet \ {q} : p.at = "checked" IN
       oPast' = [oPast EXCEPT !.mixed = mixed, !.stale = @ \/ (~mixed /\ q.base # oSess.ver)]
    /\ UNCHANGED <<oClient, oPoll>>

(* The answer, or the request, is lost: the browser sends it again.           *)
LoseAnswer(q) ==
    /\ q.at \in {"sent", "answered"} /\ oPast.turnovers < MaxTurnovers
    /\ Step(q, [q EXCEPT !.at = "sent", !.ans = 0])
    /\ oPast' = Turnover(oPast)
    /\ UNCHANGED <<oSess, oClient, oPoll>>

-----------------------------------------------------------------------------
(* The canvas *)

(* The user edits: the graph is dirty and a push is scheduled.  The canvas of *)
(* a viewer is read-only.                                                     *)
EditGraph(u) ==
    /\ oClient[u].joined /\ oSess.roles[u] # "viewer"
    /\ Cardinality(oPast.edits) < MaxEdits
    /\ LET e == Cardinality(oPast.edits) + 1 IN
       /\ oClient' = [oClient EXCEPT ![u].graph = @ \cup {e}, ![u].dirty = TRUE, ![u].timer = TRUE]
       /\ oPast' = [oPast EXCEPT !.edits = @ \cup {e},
                                 !.hasty = IF InFlight(u) # {} THEN @ \cup {u} ELSE @]
    /\ UNCHANGED <<oSess, oNet, oPoll>>

(* The timer of the last change fires: the whole graph is pushed.             *)
PushGraph(u) ==
    /\ oClient[u].timer
    /\ oNet' = oNet \cup {[user |-> u, base |-> oClient[u].ver, graph |-> oClient[u].graph,
                           at |-> "sent", role |-> "none", ans |-> 0]}
    /\ oClient' = [oClient EXCEPT ![u].timer = FALSE]
    /\ UNCHANGED <<oSess, oPoll, oPast>>

(* An answer is taken for a success, conflicts included; a failure leaves the *)
(* canvas dirty.                                                              *)
SyncAnswered(q) ==
    /\ q.at \in {"answered", "failed"}
    /\ oNet' = oNet \ {q}
    /\ oClient' = IF q.at = "failed" THEN oClient
                  ELSE [oClient EXCEPT ![q.user].ver = q.ans, ![q.user].dirty = FALSE]
    /\ UNCHANGED <<oSess, oPoll, oPast>>

PollSession(u) ==
    /\ oClient[u].joined /\ oPoll[u] = ONoPoll
    /\ oPoll' = [oPoll EXCEPT ![u] = [ver |-> oSess.ver, graph |-> oSess.graph]]
    /\ UNCHANGED <<oSess, oClient, oNet, oPast>>

ShouldPull(u) == oPoll[u].ver > oClient[u].ver /\ ~oClient[u].dirty

(* A newer graph replaces a clean canvas; the change cancels a pending timer. *)
PollAnswered(u) ==
    /\ oPoll[u] # ONoPoll
    /\ oClient' = IF ShouldPull(u)
                  THEN [oClient EXCEPT ![u].ver = oPoll[u].ver, ![u].graph = oPoll[u].graph,
                                       ![u].timer = FALSE]
                  ELSE oClient
    /\ oPoll' = [oPoll EXCEPT ![u] = ONoPoll]
    /\ UNCHANGED <<oSess, oNet, oPast>>

ONext ==
    \/ \E u \in OUsers : \/ join_collaboration_session(u) \/ EditGraph(u) \/ PushGraph(u)
                         \/ PollSession(u) \/ PollAnswered(u)
    \/ update_collaboration_permissions
    \/ \E q \in oNet : CheckSync(q) \/ WriteSync(q) \/ LoseAnswer(q) \/ SyncAnswered(q)

OSpec == OInit /\ [][ONext]_oVars

-----------------------------------------------------------------------------
(* Versions, edits and roles are what the endpoints hand out, and a client    *)
(* never holds a version the session has not reached.                         *)
OTypeOK ==
    /\ oSess.ver \in Nat /\ oSess.graph \subseteq 1..MaxEdits
    /\ oSess.roles \in [OUsers -> ORoles \cup {"none"}]
    /\ \A u \in OUsers : oClient[u].ver <= oSess.ver /\ oClient[u].graph \subseteq oPast.edits
    /\ \A q \in oNet : q.base <= oSess.ver /\ q.ans <= oSess.ver

(* A sync that was prepared on a version somebody else has since replaced is  *)
(* refused: unless two handlers are between check and write at once, what a   *)
(* write replaces is the version it was based on (sync_collaboration_session).*)
StaleWritesAreRefused == ~oPast.stale

(* A page never falls back to an older version of the session while it stays  *)
(* open, in whatever order its answers and polls arrive, as long as the user  *)
(* did not go on editing while a push was under way.                          *)
ClientNeverGoesBack ==
    [][\A u \in OUsers \ oPast.hasty :
         oClient'[u].ver < oClient[u].ver => oPast'.turnovers > oPast.turnovers]_oVars

(* An edit that was not pushed yet is not thrown away by a poll, under the   *)
(* same condition (localGraphDirtyRef).                                       *)
UnsentEditsSurvivePulls ==
    [][\A u \in OUsers \ oPast.hasty :
         oClient[u].timer /\ ~(oClient[u].graph \subseteq oClient'[u].graph)
            => oPast'.turnovers > oPast.turnovers]_oVars

(* A canvas that reports no unsent change and the version of the session      *)
(* shows the graph of the session.                                            *)
SyncedClientsAgree ==
    \A u \in OUsers : oClient[u].joined /\ ~oClient[u].dirty /\ oClient[u].ver = oSess.ver
                        => oClient[u].graph = oSess.graph
=============================================================================
