--------------------------- MODULE LoopMergeProofs ---------------------------
(***************************************************************************)
(* Proofs about LoopMerge for any number of PRs, pushes, faults and        *)
(* crashes: the type invariant, that a merged head passed the guard, and   *)
(* that no PR is forgotten.                                                *)
(*                                                                         *)
(* The guard's answers are about the head the branch had when each call    *)
(* was made.  They are about the merged head because heads only grow: if   *)
(* the head still is the first one read, no push came in between, and then *)
(* what was seen of it holds of it.  Observed says so for every step of    *)
(* _reconcile_one.                                                         *)
(***************************************************************************)
EXTENDS LoopMerge, TLAPS

\* What _reconcile_one has seen so far holds of the head it read first, as long
\* as the branch still has that head.
Observed ==
    /\ cur = NoPr => ~green /\ ~clean
    /\ cur # NoPr =>
         /\ info <= pr[cur].head
         /\ mergePc = "checks" => ~green
         /\ mergePc \in {"checks", "files"} => ~clean
         /\ pr[cur].head = info => /\ green => pr[cur].greened
                                   /\ clean => pr[cur].clean
         /\ mergePc \in {"recheck", "merge"} => MayMerge
         /\ mergePc = "tellHeld" => cur \in held

\* GitHub's side: a head number counts pushes, and checks that are green have
\* been green; nobody has merged an open PR.
GitHubInv ==
    \A p \in Prs : /\ pr[p].head <= moves
                   /\ pr[p].checks = "green" => pr[p].greened
                   /\ pr[p].state = "open" => pr[p].by = "nobody"

\* A PR the tick has taken off its list is not open any more or is held.
ListInv ==
    \A p \in Prs \ mem : pr[p].state # "open" \/ p \in held

\* How a PR changes when the loop is not the one changing it: heads grow, and
\* as long as the head is the same its diff is, and green stays recorded.
Advanced(old, new) ==
    /\ new.evalHeld = old.evalHeld
    /\ old.head <= new.head
    /\ (old.checks = "green" => old.greened) => (new.checks = "green" => new.greened)
    /\ new.head = old.head =>
         /\ new.clean = old.clean
         /\ old.greened => new.greened
    /\ new.state = "open" => old.state = "open"
    /\ (old.state = "open" => old.by = "nobody") => (new.state = "open" => new.by = "nobody")
    /\ new.by = "loop" => old.by = "loop" /\ new.head = old.head

IInv ==
    /\ MergeTypeOK
    /\ GitHubInv
    /\ Observed
    /\ MergedHeadPassedTheGuard
    /\ NoPrForgotten
    /\ ListInv

------------------------------------------------------------------------------
\* After Leave no PR is being looked at and the locals are reset.
LEMMA LeaveTypes ==
  ASSUME Leave
  PROVE  /\ mergePc' \in MergePCs /\ mergePc' \in {"tick", "next"} /\ cur' = NoPr
         /\ info' \in 0..MaxMoves
         /\ green' \in BOOLEAN /\ clean' \in BOOLEAN
<1>1. green' \in BOOLEAN /\ clean' \in BOOLEAN
  BY Zenon DEF Leave
<1> QED
  BY <1>1, MergeAssumption DEF Leave, MergePCs

\* The initial states satisfy the inductive invariant.
LEMMA InitIInv == MergeInit => IInv
<1> SUFFICES ASSUME MergeInit PROVE IInv
  OBVIOUS
<1> USE MergeAssumption DEF MergeInit
<1>1. MergeTypeOK
  <2>1. green \in BOOLEAN /\ clean \in BOOLEAN
    BY Zenon
  <2> QED
    BY <2>1 DEF MergeTypeOK, MergePCs
<1>2. GitHubInv
  BY DEF GitHubInv
<1>3. Observed
  BY DEF Observed
<1>4. MergedHeadPassedTheGuard
  BY DEF MergedHeadPassedTheGuard
<1>5. NoPrForgotten /\ ListInv
  BY DEF NoPrForgotten, ListInv
<1> QED
  BY <1>1, <1>2, <1>3, <1>4, <1>5 DEF IInv

\* The steps of the tick that read GitHub and leave it as it is.
LEMMA ReadSteps ==
  ASSUME IInv,
         Load \/ ReadChecks \/ ReadFiles \/ Recheck \/ \E p \in Prs : ReadInfo(p)
  PROVE  IInv'
<1> USE MergeAssumption
    DEF IInv, MergeTypeOK, GitHubInv, Observed, MergedHeadPassedTheGuard, NoPrForgotten,
        ListInv, MergePCs, github, mergeLedger, seen, history, bounds
<1>1. CASE Load
  <2>1. MergeTypeOK'
    BY <1>1 DEF Load, MayMerge
  <2>2. GitHubInv' /\ MergedHeadPassedTheGuard'
    BY <1>1 DEF Load, MayMerge
  <2>3. NoPrForgotten' /\ ListInv'
    BY <1>1 DEF Load, MayMerge
  <2>4. Observed'
    BY <1>1 DEF Load, MayMerge
  <2> QED
    BY <2>1, <2>2, <2>3, <2>4
<1>2. CASE ReadChecks
  <2>0. pr[cur] \in PullRequest
    BY <1>2 DEF ReadChecks
  <2>1. MergeTypeOK'
    <3>1. (pr[cur].checks = "green") \in BOOLEAN
      BY Zenon
    <3> QED
      BY <1>2, <3>1, LeaveTypes, Zenon DEF ReadChecks
  <2>2. GitHubInv' /\ MergedHeadPassedTheGuard'
    BY <1>2 DEF ReadChecks, Leave, MayMerge
  <2>3. NoPrForgotten' /\ ListInv'
    BY <1>2 DEF ReadChecks, Leave, MayMerge
  <2>4. Observed'
    BY <1>2, <2>0 DEF ReadChecks, Leave, MayMerge
  <2> QED
    BY <2>1, <2>2, <2>3, <2>4
<1>3. CASE ReadFiles
  <2>1. pr[cur] \in PullRequest
    BY <1>3 DEF ReadFiles
  <2> QED
    BY <1>3, <2>1 DEF ReadFiles, PullRequest, MayMerge
<1>4. CASE Recheck
  <2>1. MergeTypeOK'
    BY <1>4, LeaveTypes DEF Recheck
  <2>2. GitHubInv' /\ MergedHeadPassedTheGuard'
    BY <1>4 DEF Recheck, Leave, MayMerge
  <2>3. NoPrForgotten' /\ ListInv'
    BY <1>4 DEF Recheck, Leave, MayMerge
  <2>4. Observed'
    BY <1>4, Zenon DEF Recheck, Leave, MayMerge
  <2> QED
    BY <2>1, <2>2, <2>3, <2>4
<1>5. ASSUME NEW p \in Prs, ReadInfo(p) PROVE IInv'
  <2>1. pr[p] \in PullRequest
    OBVIOUS
  <2> QED
    BY <1>5, <2>1 DEF ReadInfo, PullRequest, MayMerge
<1> QED
  BY <1>1, <1>2, <1>3, <1>4, <1>5

\* The steps of the tick that decide, report, save, fail or crash.
LEMMA TickSteps ==
  ASSUME IInv,
         \/ Decide \/ Tell \/ Save \/ DecideWithoutCodeowners \/ Fail \/ MergeCrash
         \/ \E p \in Prs : FailInfo(p)
  PROVE  IInv'
<1> USE MergeAssumption
    DEF IInv, MergeTypeOK, GitHubInv, Observed, MergedHeadPassedTheGuard, NoPrForgotten,
        ListInv, MergePCs, github, mergeLedger, seen, history, bounds
<1>1. CASE Decide
  <2>1. MergeTypeOK'
    BY <1>1 DEF Decide, MayMerge
  <2>2. GitHubInv' /\ MergedHeadPassedTheGuard'
    BY <1>1 DEF Decide, MayMerge
  <2>3. NoPrForgotten' /\ ListInv'
    BY <1>1 DEF Decide, MayMerge
  <2>4. Observed'
    BY <1>1 DEF Decide, MayMerge
  <2> QED
    BY <2>1, <2>2, <2>3, <2>4
<1>2. CASE Tell
  <2>1. MergeTypeOK'
    BY <1>2, LeaveTypes DEF Tell
  <2>2. GitHubInv' /\ MergedHeadPassedTheGuard'
    BY <1>2 DEF Tell, Leave, MayMerge
  <2>3. NoPrForgotten' /\ ListInv'
    BY <1>2 DEF Tell, Leave, MayMerge
  <2>4. Observed'
    BY <1>2 DEF Tell, Leave, MayMerge
  <2> QED
    BY <2>1, <2>2, <2>3, <2>4
<1>3. CASE Save
  <2>1. MergeTypeOK'
    BY <1>3 DEF Save, MayMerge
  <2>2. GitHubInv' /\ MergedHeadPassedTheGuard'
    BY <1>3 DEF Save, MayMerge
  <2>3. NoPrForgotten' /\ ListInv'
    BY <1>3 DEF Save, MayMerge
  <2>4. Observed'
    BY <1>3 DEF Save, MayMerge
  <2> QED
    BY <2>1, <2>2, <2>3, <2>4
<1>4. CASE DecideWithoutCodeowners
  <2>1. MergeTypeOK'
    BY <1>4 DEF DecideWithoutCodeowners, MayMerge
  <2>2. GitHubInv' /\ MergedHeadPassedTheGuard'
    BY <1>4 DEF DecideWithoutCodeowners, MayMerge
  <2>3. NoPrForgotten' /\ ListInv'
    BY <1>4 DEF DecideWithoutCodeowners, MayMerge
  <2>4. Observed'
    BY <1>4 DEF DecideWithoutCodeowners, MayMerge
  <2> QED
    BY <2>1, <2>2, <2>3, <2>4
<1>5. CASE Fail
  <2>1. MergeTypeOK'
    BY <1>5, LeaveTypes DEF Fail
  <2>2. GitHubInv' /\ MergedHeadPassedTheGuard'
    BY <1>5 DEF Fail, Leave, MayMerge
  <2>3. NoPrForgotten' /\ ListInv'
    BY <1>5 DEF Fail, Leave, MayMerge
  <2>4. Observed'
    BY <1>5 DEF Fail, Leave, MayMerge
  <2> QED
    BY <2>1, <2>2, <2>3, <2>4
<1>6. CASE MergeCrash
  <2>1. MergeTypeOK'
    <3>1. green' \in BOOLEAN /\ clean' \in BOOLEAN
      BY <1>6, Zenon DEF MergeCrash
    <3> QED
      BY <1>6, <3>1 DEF MergeCrash
  <2>2. GitHubInv' /\ MergedHeadPassedTheGuard'
    BY <1>6 DEF MergeCrash, MayMerge
  <2>3. NoPrForgotten' /\ ListInv'
    BY <1>6 DEF MergeCrash, MayMerge
  <2>4. Observed'
    BY <1>6 DEF MergeCrash, MayMerge
  <2> QED
    BY <2>1, <2>2, <2>3, <2>4
<1>7. CASE \E p \in Prs : FailInfo(p)
  BY <1>7 DEF FailInfo, MayMerge
<1> QED
  BY <1>1, <1>2, <1>3, <1>4, <1>5, <1>6, <1>7

\* merge_pr, whether or not its answer comes back.
LEMMA MergeSteps ==
  ASSUME IInv, Merge \/ MergeAnswerLost
  PROVE  IInv'
<1> USE MergeAssumption
    DEF IInv, MergeTypeOK, GitHubInv, Observed, MergedHeadPassedTheGuard, NoPrForgotten,
        ListInv, MergePCs, github, mergeLedger, seen, history, bounds
<1>1. cur \in Prs /\ MayMerge /\ pr[cur] \in PullRequest
  BY DEF Merge, MergeAnswerLost
<1>2. CASE pr' = pr
  <2>1. CASE MergeAnswerLost
    <3>1. pr'[cur].state = "merged" /\ pr[cur].state = "open"
      BY <1>1, <2>1 DEF MergeAnswerLost, Merged, Mergeable, PullRequest
    <3> QED
      BY <1>2, <3>1
  <2>2. CASE Merge /\ Mergeable(cur)
    <3>1. pr'[cur].state = "merged" /\ pr[cur].state = "open"
      BY <1>1, <2>2 DEF Merge, Merged, Mergeable, PullRequest
    <3> QED
      BY <1>2, <3>1
  <2>3. CASE Merge /\ ~Mergeable(cur)
    <3>1. Leave /\ UNCHANGED <<mem, disk, todo, held, explained, moves, faults, mergeCrashes>>
      BY <2>3 DEF Merge
    <3>2. MergeTypeOK'
      BY <1>2, <3>1, LeaveTypes
    <3>3. GitHubInv' /\ MergedHeadPassedTheGuard' /\ NoPrForgotten' /\ ListInv'
      BY <1>2, <3>1
    <3>4. Observed'
      BY <3>1 DEF Leave
    <3> QED
      BY <3>2, <3>3, <3>4
  <2> QED
    BY <2>1, <2>2, <2>3
<1>3. CASE pr' = Merged(cur) /\ Mergeable(cur)
  <2>1. pr' \in [Prs -> PullRequest]
    BY <1>1, <1>3, Zenon DEF Merged, PullRequest
  <2>2. \A p \in Prs : /\ pr'[p].head = pr[p].head
                       /\ pr'[p].checks = pr[p].checks
                       /\ pr'[p].greened = pr[p].greened
                       /\ pr'[p].clean = pr[p].clean
                       /\ pr'[p].evalHeld = pr[p].evalHeld
                       /\ pr'[p].state = "open" => pr[p].state = "open" /\ p # cur
                       /\ pr'[p].by = "loop" => pr[p].by = "loop" \/ p = cur
                       /\ p # cur => pr'[p].by = pr[p].by
    BY <1>1, <1>3 DEF Merged, PullRequest
  <2>3. pr[cur].clean /\ pr[cur].greened /\ ~pr[cur].evalHeld
    BY <1>1, <1>3 DEF Mergeable, MayMerge
  <2> HIDE DEF PullRequest, MayMerge
  <2>5. MergeTypeOK'
    BY <1>1, <1>3, <2>1, LeaveTypes DEF Merge, MergeAnswerLost
  <2>6. GitHubInv'
    BY <2>2 DEF Merge, MergeAnswerLost
  <2>7. MergedHeadPassedTheGuard'
    BY <2>2, <2>3
  <2>8. NoPrForgotten' /\ ListInv'
    BY <1>1, <1>3, <2>2 DEF Merge, MergeAnswerLost
  <2>9. Observed'
    BY <1>1, <1>3, <2>2 DEF Merge, MergeAnswerLost, Leave
  <2> QED
    BY <2>5, <2>6, <2>7, <2>8, <2>9
<1> QED
  BY <1>2, <1>3 DEF Merge, MergeAnswerLost

\* A PR that is left as it is has advanced.
LEMMA AdvancedSelf ==
  ASSUME NEW r \in PullRequest
  PROVE  Advanced(r, r)
  BY DEF Advanced, PullRequest

\* A push to a PR the loop has not merged advances it.
LEMMA PushAdvances ==
  ASSUME NEW r \in PullRequest, NEW c \in BOOLEAN, r.by # "loop", r.head + 1 \in 0..MaxMoves
  PROVE  /\ Pushed(r, c) \in PullRequest
         /\ Pushed(r, c).head = r.head + 1
         /\ Advanced(r, Pushed(r, c))
<1>1. Pushed(r, c) \in PullRequest
  BY Zenon DEF Pushed, PullRequest, Checks
<1>2. /\ Pushed(r, c).head = r.head + 1 /\ Pushed(r, c).by = r.by
      /\ Pushed(r, c).checks = "none" /\ Pushed(r, c).state = r.state
      /\ Pushed(r, c).evalHeld = r.evalHeld
  BY DEF Pushed, PullRequest
<1>3. r.head \in Int
  BY DEF PullRequest
<1>4. r.head <= Pushed(r, c).head /\ Pushed(r, c).head # r.head
  BY <1>2, <1>3
<1>5. Pushed(r, c).checks # "green" /\ Pushed(r, c).by # "loop"
  BY <1>2
<1>6. Advanced(r, Pushed(r, c))
  BY <1>2, <1>4, <1>5, Zenon DEF Advanced
<1> QED BY <1>1, <1>2, <1>6

\* The branch, the checks and the principals: whatever they do, what the tick
\* has seen stays true of the head it saw.
LEMMA WorldSteps ==
  ASSUME IInv, NEW p \in Prs, World(p)
  PROVE  IInv'
<1> USE MergeAssumption
    DEF IInv, MergeTypeOK, GitHubInv, Observed, MergedHeadPassedTheGuard, NoPrForgotten,
        ListInv, MergePCs, seen, history, bounds
<1>1. pr[p] \in PullRequest
  OBVIOUS
<1>2. UNCHANGED <<disk, mem, todo, mergePc, cur, info, green, clean, held, explained,
                  faults, mergeCrashes>>
  BY DEF World, Push, Rerun, CiStep, GraceEnds, HumanDecides
<1>4. PICK r \in PullRequest :
        /\ pr' = [pr EXCEPT ![p] = r]
        /\ Advanced(pr[p], r)
        /\ moves' \in moves..MaxMoves /\ r.head <= moves'
  <2> pr[p].head \in Nat /\ moves \in Nat /\ pr[p].head <= moves
    BY <1>1 DEF PullRequest
  <2>1. CASE Push(p)
    <3>1. PICK c \in BOOLEAN : pr' = [pr EXCEPT ![p] = Pushed(pr[p], c)]
      BY <2>1, Zenon DEF Push
    <3>2. /\ moves' = moves + 1 /\ moves < MaxMoves
          /\ pr[p].state = "open" /\ pr[p].head + 1 \in 0..MaxMoves
      BY <2>1 DEF Push
    <3>5. pr[p].by # "loop"
      BY <3>2
    <3>6. /\ Pushed(pr[p], c) \in PullRequest
          /\ Pushed(pr[p], c).head = pr[p].head + 1
          /\ Advanced(pr[p], Pushed(pr[p], c))
      BY <1>1, <3>2, <3>5, PushAdvances
    <3>7. moves' \in moves..MaxMoves /\ Pushed(pr[p], c).head <= moves'
      BY <3>2, <3>6
    <3> Pushed(pr[p], c) \in PullRequest
      BY <3>6
    <3> WITNESS Pushed(pr[p], c) \in PullRequest
    <3> QED
      BY <3>1, <3>6, <3>7
  <2>2. CASE Rerun(p)
    <3> DEFINE r == [pr[p] EXCEPT !.checks = "pending"]
    <3>1. r \in PullRequest /\ Advanced(pr[p], r) /\ r.head = pr[p].head
      BY <1>1 DEF PullRequest, Checks, Advanced
    <3>2. pr' = [pr EXCEPT ![p] = r] /\ moves' = moves + 1 /\ moves < MaxMoves
      BY <2>2 DEF Rerun
    <3> HIDE DEF r
    <3>3. moves' \in moves..MaxMoves /\ r.head <= moves'
      BY <3>1, <3>2
    <3> r \in PullRequest
      BY <3>1
    <3> WITNESS r \in PullRequest
    <3> QED
      BY <3>1, <3>2, <3>3
  <2>3. CASE CiStep(p)
    <3>1. Passed(pr[p]) \in PullRequest
      BY <1>1, Zenon DEF Passed, PullRequest, Checks
    <3>2. Advanced(pr[p], Passed(pr[p])) /\ Passed(pr[p]).head = pr[p].head
      BY <1>1 DEF Passed, PullRequest, Advanced
    <3> DEFINE q(c) == [pr[p] EXCEPT !.checks = c]
    <3>3. ASSUME NEW c \in {"red", "pending"}
          PROVE  q(c) \in PullRequest /\ Advanced(pr[p], q(c)) /\ q(c).head = pr[p].head
      BY <1>1 DEF PullRequest, Checks, Advanced
    <3>4. /\ moves' = moves
          /\ \/ pr' = [pr EXCEPT ![p] = Passed(pr[p])]
             \/ pr' = [pr EXCEPT ![p] = q("red")]
             \/ pr' = [pr EXCEPT ![p] = q("pending")]
      BY <2>3 DEF CiStep
    <3> HIDE DEF q
    <3> QED
      BY <3>1, <3>2, <3>3, <3>4
  <2>4. CASE GraceEnds(p)
    <3> DEFINE r == [pr[p] EXCEPT !.young = FALSE]
    <3>1. r \in PullRequest
      BY <1>1, Zenon DEF PullRequest
    <3>2. Advanced(pr[p], r) /\ r.head = pr[p].head
      BY <1>1 DEF PullRequest, Advanced
    <3>3. pr' = [pr EXCEPT ![p] = r] /\ moves' = moves
      BY <2>4 DEF GraceEnds
    <3> HIDE DEF r
    <3>4. moves' \in moves..MaxMoves /\ r.head <= moves'
      BY <3>2, <3>3
    <3> WITNESS r \in PullRequest
    <3> QED
      BY <3>2, <3>3, <3>4
  <2>5. CASE HumanDecides(p)
    <3> DEFINE r == [pr[p] EXCEPT !.state = "merged", !.by = "human"]
    <3> DEFINE q == [pr[p] EXCEPT !.state = "closed"]
    <3>1. r \in PullRequest /\ r.head = pr[p].head
      BY <1>1, Zenon DEF PullRequest
    <3>3. Advanced(pr[p], r)
      BY <1>1 DEF PullRequest, Advanced
    <3>2. q \in PullRequest /\ Advanced(pr[p], q) /\ q.head = pr[p].head
      BY <1>1 DEF PullRequest, Advanced
    <3>4. moves' = moves /\ (pr' = [pr EXCEPT ![p] = r] \/ pr' = [pr EXCEPT ![p] = q])
      BY <2>5, Zenon DEF HumanDecides
    <3> HIDE DEF r, q
    <3> QED
      BY <3>1, <3>2, <3>3, <3>4
  <2> QED
    BY <2>1, <2>2, <2>3, <2>4, <2>5 DEF World
<1>5. \A q \in Prs :
        /\ pr'[q] \in PullRequest /\ pr[q] \in PullRequest
        /\ Advanced(pr[q], pr'[q])
        /\ pr'[q].head <= moves'
  <2> SUFFICES ASSUME NEW q \in Prs
               PROVE  /\ pr'[q] \in PullRequest /\ pr[q] \in PullRequest
                      /\ Advanced(pr[q], pr'[q])
                      /\ pr'[q].head <= moves'
    OBVIOUS
  <2>1. CASE q = p
    BY <1>1, <1>4, <2>1
  <2>2. CASE q # p
    <3>1. pr'[q] = pr[q] /\ pr[q] \in PullRequest
      BY <1>4, <2>2
    <3>2. pr[q].head \in Nat
      BY <3>1 DEF PullRequest
    <3>3. pr[q].head <= moves /\ moves <= moves' /\ moves \in Nat /\ moves' \in Nat
      BY <1>4
    <3>4. pr[q].head <= moves'
      BY <3>2, <3>3
    <3> QED BY <3>1, <3>4, AdvancedSelf
  <2> QED BY <2>1, <2>2
<1>3. cur # NoPr => MayMerge' = MayMerge
  BY <1>2, <1>5 DEF MayMerge, Advanced
<1> HIDE DEF PullRequest
<1>6. MergeTypeOK'
  BY <1>2, <1>4
<1>7. GitHubInv'
  BY <1>5 DEF Advanced
<1>8. MergedHeadPassedTheGuard'
  BY <1>5 DEF Advanced
<1>9. NoPrForgotten' /\ ListInv'
  BY <1>2, <1>5 DEF Advanced
<1>10. Observed'
  <2>1. CASE cur = NoPr
    BY <1>2, <2>1
  <2>2. CASE cur # NoPr
    <3>1. cur \in Prs /\ Advanced(pr[cur], pr'[cur]) /\ info <= pr[cur].head
      BY <1>5, <2>2
    <3>2. pr[cur].head \in Int /\ pr'[cur].head \in Int /\ info \in Int
      BY <1>5, <3>1, SMTT(30) DEF PullRequest
    <3>3. info <= pr'[cur].head
      <4>1. pr[cur].head <= pr'[cur].head
        BY <3>1 DEF Advanced
      <4> QED BY <3>1, <3>2, <4>1, SMTT(30)
    <3>4. pr'[cur].head = info =>
             (green => pr'[cur].greened) /\ (clean => pr'[cur].clean)
      <4>1. pr'[cur].head = info => pr[cur].head = info
        BY <3>1, <3>2 DEF Advanced
      <4>2. pr[cur].head = info =>
               (green => pr[cur].greened) /\ (clean => pr[cur].clean)
        BY <2>2
      <4> QED BY <3>1, <4>1, <4>2, Zenon DEF Advanced
    <3> QED BY <1>2, <1>3, <2>2, <3>3, <3>4
  <2> QED BY <2>1, <2>2
<1> QED
  BY <1>6, <1>7, <1>8, <1>9, <1>10

\* Every step preserves the inductive invariant.
LEMMA NextIInv == IInv /\ [MergeNext]_mergeVars => IInv'
<1> SUFFICES ASSUME IInv, [MergeNext]_mergeVars PROVE IInv'
  OBVIOUS
<1>1. CASE MergeStep
  BY <1>1, ReadSteps, TickSteps, MergeSteps DEF MergeStep
<1>2. CASE Faulty
  BY <1>2, TickSteps, MergeSteps DEF Faulty
<1>3. CASE \E p \in Prs : World(p)
  BY <1>3, WorldSteps
<1>4. CASE UNCHANGED mergeVars
  BY <1>4
  DEF IInv, MergeTypeOK, GitHubInv, Observed, MergedHeadPassedTheGuard, NoPrForgotten,
      ListInv, MayMerge, mergeVars
<1> QED
  BY <1>1, <1>2, <1>3, <1>4 DEF MergeNext

------------------------------------------------------------------------------
\* The reconciliation is type correct.
THEOREM MergeTypeCorrect == MergeSpec => []MergeTypeOK
<1>1. IInv => MergeTypeOK
  BY DEF IInv
<1> QED
  BY <1>1, InitIInv, NextIInv, PTL DEF MergeSpec

\* Whatever is pushed or re-run between the gh calls of _reconcile_one, a head
\* the loop merges has a clean diff, had all its checks green and is not held
\* by the eval gate.
THEOREM MergedHeadsPassedTheGuard == MergeSpec => []MergedHeadPassedTheGuard
<1>1. IInv => MergedHeadPassedTheGuard
  BY DEF IInv
<1> QED
  BY <1>1, InitIInv, NextIInv, PTL DEF MergeSpec

\* Faults and crashes never make the loop forget a PR that is open and not held.
THEOREM NoPrIsForgotten == MergeSpec => []NoPrForgotten
<1>1. IInv => NoPrForgotten
  BY DEF IInv
<1> QED
  BY <1>1, InitIInv, NextIInv, PTL DEF MergeSpec
==============================================================================
