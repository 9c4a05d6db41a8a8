----------------------------- MODULE MCGateway -----------------------------
(***************************************************************************)
(* The gateway with one run, explored twice: "calls" has two sessions and  *)
(* no grant, "grants" one session, a grant and an action of class R4, for  *)
(* which nobody asks an approval: authorize denies it before it looks.     *)
(***************************************************************************)
EXTENDS Gateway, TLC

CONSTANTS s1, s2, r1, g1

VARIABLE part

gwVars == <<part, vars>>

\* A tool call that is asked for under supervision only, a tainted action that
\* always is, and a tool call of class R4.
Edit == [run |-> r1, fp |-> 1, risk |-> 2, tool |-> TRUE, tainted |-> FALSE]
Click == [run |-> r1, fp |-> 2, risk |-> 3, tool |-> FALSE, tainted |-> TRUE]
Format == [run |-> r1, fp |-> 3, risk |-> 4, tool |-> TRUE, tainted |-> FALSE]

GwActions == {Edit, Click, Format}
GwRuns == s1 :> r1 @@ s2 :> r1
GwCovers == g1 :> GwActions

\* Calls of both sessions, which no grant covers.
CallsOnly ==
    /\ active' = {}
    /\ \A t \in Threads : pc'[t] = "idle" \/ act'[t] # Format

\* Calls of one session, whose budget is kept.
OneSession ==
    /\ s2 \in fresh'
    /\ tokens'[s1] = 0
    /\ \A t \in Threads : pc'[t] = "idle" \/ sess'[t] = s1

GwInit == part \in {"calls", "grants"} /\ Init

GwNext ==
    /\ Next
    /\ UNCHANGED part
    /\ approved'[Key(Format)] = 0
    /\ \/ part = "calls" /\ CallsOnly
       \/ part = "grants" /\ OneSession

GwSpec == GwInit /\ [][GwNext]_gwVars

ThreadSymmetry == Permutations(Threads)
=============================================================================
