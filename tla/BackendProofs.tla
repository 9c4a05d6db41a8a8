--------------------------- MODULE BackendProofs ---------------------------
(***************************************************************************)
(* Proofs about two parts of the backend that threads share: StatePersist  *)
(* for any threads, sections, mutations and failures, and LocalModels for  *)
(* any catalog, any number of request and download threads and any number  *)
(* of requests, progress lines and outages.                                *)
(***************************************************************************)
EXTENDS StatePersist, LocalModels, FiniteSetTheorems, TLAPS

-----------------------------------------------------------------------------
(* StatePersist.  As long as no two calls overlapped, the store stands     *)
(* still while a call is under way, so that what a call has serialized is  *)
(* the store, and what it has written is what the store holds.             *)

Versions == 0..MaxVersion
Calls == [pc: {"idle", "serialize", "save"}, at: 0..Len(Sections),
          snap: [Secs -> Absent..MaxVersion], changed: SUBSET Secs]

\* The call of w has serialized its first `at` sections, or all of them.
Serialized(w) ==
    /\ pCall[w].pc = "serialize" => \A i \in 1..pCall[w].at : pCall[w].snap[Sections[i]] \in Versions
    /\ pCall[w].pc = "save" => \A s \in Secs : pCall[w].snap[s] \in Versions

PTypes ==
    /\ pBackend \in {"postgres", "sqlite"}
    /\ pUp \in BOOLEAN
    /\ pMem \in [Secs -> Versions]
    /\ pDisk \in [Secs -> Versions]
    /\ pCache \in [Secs -> Absent..MaxVersion]
    /\ pCall \in [Writers -> Calls]
    /\ \A w \in Writers : Serialized(w)
    /\ pTroubles \in Nat
    /\ pOverlap \in BOOLEAN /\ pFailed \in BOOLEAN /\ pForgot \in BOOLEAN
    /\ ~pUp => (\A w \in Writers : ~Busy(w)) /\ (\A s \in Secs : pCache[s] = Absent)

\* What a call that has run alone so far knows and did.
CallAgrees(w) ==
    /\ pCall[w].pc = "serialize" =>
         \A i \in 1..pCall[w].at : pCall[w].snap[Sections[i]] = pMem[Sections[i]]
    /\ pCall[w].pc = "save" =>
         /\ pCall[w].snap = pMem
         /\ pCall[w].changed = {s \in Secs : pCache[s] # pMem[s]}
         /\ \A i \in 1..pCall[w].at : Sections[i] \in pCall[w].changed =>
                                      pDisk[Sections[i]] = pMem[Sections[i]]

\* The versions of a section grow from the cache to the database to the store;
\* a startup that could not load breaks the latter, until it is noted again.
InOrder(s) ==
    /\ pCache[s] # Absent => pCache[s] <= pDisk[s] /\ pDisk[s] <= pMem[s]
    /\ ~pForgot => pDisk[s] <= pMem[s]

Alone ==
    /\ \A v, w \in Writers : Busy(v) /\ Busy(w) => v = w
    /\ \A w \in Writers : CallAgrees(w)
    /\ \A s \in Secs : InOrder(s)
    /\ Quiet /\ ~pFailed => pDisk = pMem

PInv == PTypes /\ (~pOverlap => Alone)

Fresh == [NoCall EXCEPT !.pc = "serialize"]

\* The sections are those of the snapshot, and a fresh call is a call.
LEMMA SectionFacts ==
  /\ Len(Sections) \in Nat /\ MaxVersion \in Nat /\ Absent = -1
  /\ \A i \in 1..Len(Sections) : Sections[i] \in Secs
  /\ \A s \in Secs : \E i \in 1..Len(Sections) : Sections[i] = s
  /\ NoCall \in Calls /\ Fresh \in Calls
  /\ NoCall.pc = "idle" /\ Fresh.pc = "serialize" /\ Fresh.at = 0 /\ 1..Fresh.at = {}
<1>1. Len(Sections) \in Nat /\ MaxVersion \in Nat /\ Absent = -1
  BY StatePersistAssumption DEF Absent
<1>2. DOMAIN Sections = 1..Len(Sections)
  BY StatePersistAssumption
<1>3. \A i \in 1..Len(Sections) : Sections[i] \in Secs
  BY <1>2 DEF Secs
<1>4. \A s \in Secs : \E i \in 1..Len(Sections) : Sections[i] = s
  BY <1>2 DEF Secs
<1>5. [s \in Secs |-> Absent] \in [Secs -> Absent..MaxVersion]
  BY <1>1
<1>6. NoCall \in Calls
  BY <1>1, <1>5 DEF NoCall, Calls
<1>7. Fresh \in Calls /\ NoCall.pc = "idle" /\ Fresh.pc = "serialize" /\ Fresh.at = 0
  BY <1>6 DEF Fresh, NoCall, Calls
<1>8. 1..Fresh.at = {}
  BY <1>7
<1> QED
  BY <1>1, <1>3, <1>4, <1>6, <1>7, <1>8

\* A step of one call leaves the others alone.
LEMMA OneCall ==
  ASSUME PTypes, NEW w \in Writers, NEW v \in Calls, pCall' = [pCall EXCEPT ![w] = v]
  PROVE  /\ pCall' \in [Writers -> Calls] /\ pCall'[w] = v
         /\ \A u \in Writers : u # w => pCall'[u] = pCall[u]
  BY DEF PTypes

\* One section is serialized.
LEMMA SerializeForm ==
  ASSUME PTypes, NEW w \in Writers, SerializeSection(w)
  PROVE  \E v \in Calls :
           /\ pCall' = [pCall EXCEPT ![w] = v]
           /\ v.pc = "serialize" /\ v.at = pCall[w].at + 1 /\ v.at <= Len(Sections)
           /\ v.snap = [pCall[w].snap EXCEPT ![Sections[v.at]] = pMem[Sections[v.at]]]
<1> DEFINE c == pCall[w]
           s == Sections[c.at + 1]
           v == [c EXCEPT !.at = c.at + 1, !.snap = [c.snap EXCEPT ![s] = pMem[s]]]
<1>1. c \in Calls /\ c.at < Len(Sections) /\ c.pc = "serialize"
  BY DEF PTypes, SerializeSection
<1>2. c.at + 1 \in 0..Len(Sections) /\ s \in Secs
  <2>1. c.at \in 0..Len(Sections) /\ Len(Sections) \in Nat
    BY <1>1, SectionFacts DEF Calls
  <2>2. c.at + 1 \in 1..Len(Sections)
    BY <1>1, <2>1
  <2> QED
    BY <2>1, <2>2, SectionFacts
<1>3. pMem[s] \in Absent..MaxVersion
  BY <1>2, SectionFacts DEF PTypes, Versions
<1>4. [c.snap EXCEPT ![s] = pMem[s]] \in [Secs -> Absent..MaxVersion]
  BY <1>1, <1>2, <1>3 DEF Calls
<1>5. pCall' = [pCall EXCEPT ![w] = v]
  BY DEF SerializeSection
<1>6. /\ v \in Calls
      /\ v.pc = "serialize" /\ v.at = c.at + 1
      /\ v.snap = [c.snap EXCEPT ![s] = pMem[s]]
  BY <1>1, <1>2, <1>4, Zenon DEF Calls
<1>7. v.at <= Len(Sections) /\ v.snap = [c.snap EXCEPT ![Sections[v.at]] = pMem[Sections[v.at]]]
  BY <1>2, <1>6, SectionFacts
<1> HIDE DEF v
<1> QED
  BY <1>5, <1>6, <1>7, Zenon

\* What has to be written is written down, before the first section.
LEMMA CompareForm ==
  ASSUME PTypes, NEW w \in Writers, CompareSections(w),
         {s \in Secs : pCache[s] # pCall[w].snap[s]} # {}
  PROVE  \E v \in Calls :
           /\ pCall' = [pCall EXCEPT ![w] = v]
           /\ v.pc = "save" /\ v.at = 0 /\ v.snap = pCall[w].snap
           /\ v.changed = {s \in Secs : pCache[s] # pCall[w].snap[s]}
           /\ UNCHANGED pFailed
<1> DEFINE c == pCall[w]
           todo == {s \in Secs : pCache[s] # c.snap[s]}
           v == [c EXCEPT !.pc = "save", !.at = 0, !.changed = todo]
<1>1. c \in Calls /\ todo \in SUBSET Secs /\ 0 \in 0..Len(Sections)
  BY SectionFacts DEF PTypes
<1>2. pCall' = [pCall EXCEPT ![w] = v] /\ UNCHANGED pFailed
  BY DEF CompareSections
<1> HIDE DEF todo
<1>3. v \in Calls /\ v.pc = "save" /\ v.at = 0 /\ v.snap = c.snap /\ v.changed = todo
  BY <1>1, Zenon DEF Calls
<1> HIDE DEF v
<1> QED
  BY <1>2, <1>3, Zenon DEF todo

\* Sections are written: all of them, or the next one.
LEMMA SaveForm ==
  ASSUME PTypes, NEW w \in Writers, SaveSections(w)
  PROVE  \E v \in Calls, written \in SUBSET pCall[w].changed :
           /\ pCall' = [pCall EXCEPT ![w] = v]
           /\ v.pc = "save" /\ v.snap = pCall[w].snap /\ v.changed = pCall[w].changed
           /\ pDisk' = [s \in Secs |-> IF s \in written THEN pCall[w].snap[s] ELSE pDisk[s]]
           /\ \A i \in 1..v.at : i <= pCall[w].at \/ Sections[i] \in written
                                 \/ Sections[i] \notin pCall[w].changed
<1> DEFINE c == pCall[w]
           written == IF pBackend = "sqlite" THEN c.changed ELSE c.changed \cap {Sections[c.at + 1]}
           n == IF pBackend = "sqlite" THEN Len(Sections) ELSE c.at + 1
           v == [c EXCEPT !.at = n]
<1>1. c \in Calls /\ c.at < Len(Sections) /\ c.pc = "save"
  BY DEF PTypes, SaveSections
<1>2. n \in 0..Len(Sections)
  BY <1>1, SectionFacts DEF Calls
<1>3. pCall' = [pCall EXCEPT ![w] = v]
  BY DEF SaveSections
<1>4. pDisk' = [s \in Secs |-> IF s \in written THEN c.snap[s] ELSE pDisk[s]]
  BY DEF SaveSections
<1>5. written \in SUBSET c.changed
  OBVIOUS
<1>6. \A i \in 1..n : i <= c.at \/ Sections[i] \in written \/ Sections[i] \notin c.changed
  BY <1>1, SectionFacts DEF Calls
<1> HIDE DEF n, written
<1>7. v \in Calls /\ v.pc = "save" /\ v.at = n /\ v.snap = c.snap /\ v.changed = c.changed
  BY <1>1, <1>2 DEF Calls
<1> HIDE DEF v
<1> QED
  BY <1>3, <1>4, <1>5, <1>6, <1>7, Zenon

\* The actions of a call end with one of these: it is over, or it goes on as v.
\* The flags are Boolean (for the solvers, which lose track of that).
LEMMA Flags ==
  ASSUME PTypes, PNext
  PROVE  /\ pBackend' \in {"postgres", "sqlite"} /\ pUp' \in BOOLEAN
         /\ pOverlap' \in BOOLEAN /\ pFailed' \in BOOLEAN /\ pForgot' \in BOOLEAN
         /\ pTroubles' \in Nat
<1>1. pBackend' = pBackend
  BY DEF PNext, HandleRequest, SerializeSection, CompareSections, SaveSections, NoteSaved,
         PersistFails, CrashBackend, StartBackend
<1>2. pUp' \in BOOLEAN
  BY Zenon DEF PTypes, PNext, HandleRequest, SerializeSection, CompareSections, SaveSections, NoteSaved,
         PersistFails, CrashBackend, StartBackend
<1>3. pOverlap' \in BOOLEAN
  BY Zenon DEF PTypes, PNext, HandleRequest, SerializeSection, CompareSections, SaveSections, NoteSaved,
         PersistFails, CrashBackend, StartBackend, pHistory
<1>4. pFailed' \in BOOLEAN
  BY Zenon DEF PTypes, PNext, HandleRequest, SerializeSection, CompareSections, SaveSections, NoteSaved,
         PersistFails, CrashBackend, StartBackend
<1>5. pForgot' \in BOOLEAN
  BY Zenon DEF PTypes, PNext, HandleRequest, SerializeSection, CompareSections, SaveSections, NoteSaved,
         PersistFails, CrashBackend, StartBackend, pHistory
<1>6. pTroubles' = pTroubles \/ pTroubles' = pTroubles + 1
  BY DEF PNext, HandleRequest, SerializeSection, CompareSections, SaveSections, NoteSaved,
         PersistFails, CrashBackend, StartBackend
<1>7. pTroubles' \in Nat
  BY <1>6 DEF PTypes
<1> QED
  BY <1>1, <1>2, <1>3, <1>4, <1>5, <1>7 DEF PTypes

\* Types of the versions and of the calls.
LEMMA PTypeStep ==
  ASSUME PTypes, PNext
  PROVE  PTypes'
<1> DEFINE Data == /\ pMem \in [Secs -> Versions]
                   /\ pDisk \in [Secs -> Versions]
                   /\ pCache \in [Secs -> Absent..MaxVersion]
                   /\ pCall \in [Writers -> Calls]
                   /\ \A w \in Writers : Serialized(w)
                   /\ ~pUp => (\A w \in Writers : ~Busy(w)) /\ (\A s \in Secs : pCache[s] = Absent)
<1>1. ASSUME NEW w \in Writers, NEW v \in Calls, pCall' = [pCall EXCEPT ![w] = v], pUp' = pUp, pUp,
             v.pc = "serialize" => \A i \in 1..v.at : v.snap[Sections[i]] \in Versions,
             v.pc = "save" => \A s \in Secs : v.snap[s] \in Versions
      PROVE  /\ pCall' \in [Writers -> Calls]
             /\ \A u \in Writers : Serialized(u)'
             /\ pUp'
  <2>1. /\ pCall' \in [Writers -> Calls] /\ pCall'[w] = v
        /\ \A u \in Writers : u # w => pCall'[u] = pCall[u]
    BY <1>1, OneCall, Zenon
  <2>2. \A u \in Writers : Serialized(u)'
    BY <1>1, <2>1 DEF Serialized, PTypes
  <2> QED
    BY <1>1, <2>1, <2>2
<1>2. ASSUME NEW w \in Writers, NEW touched \in SUBSET Secs, HandleRequest(w, touched) PROVE Data'
  <2>1. pMem' \in [Secs -> Versions]
    <3>1. \A s \in Secs : (IF s \in touched THEN pMem[s] + 1 ELSE pMem[s]) \in Versions
      BY <1>2, SectionFacts DEF HandleRequest, PTypes, Versions
    <3> QED
      BY <1>2, <3>1 DEF HandleRequest
  <2>2. /\ pCall' = [pCall EXCEPT ![w] = Fresh]
        /\ pUp' = pUp /\ pUp /\ UNCHANGED <<pDisk, pCache>>
    BY <1>2 DEF HandleRequest, Fresh
  <2> QED
    BY <1>1, <2>1, <2>2, SectionFacts, Zenon DEF PTypes
<1>3. ASSUME NEW w \in Writers, SerializeSection(w) PROVE Data'
  <2>1. PICK v \in Calls :
           /\ pCall' = [pCall EXCEPT ![w] = v]
           /\ v.pc = "serialize" /\ v.at = pCall[w].at + 1 /\ v.at <= Len(Sections)
           /\ v.snap = [pCall[w].snap EXCEPT ![Sections[v.at]] = pMem[Sections[v.at]]]
    BY <1>3, SerializeForm, ZenonT(60)
  <2>2. UNCHANGED <<pMem, pDisk, pCache, pUp>> /\ pUp /\ pCall[w].pc = "serialize" /\ pCall[w] \in Calls
    BY <1>3 DEF SerializeSection, PTypes
  <2>3. ASSUME NEW i \in 1..v.at PROVE v.snap[Sections[i]] \in Versions
    <3>1. pCall[w].at \in Nat /\ v.at \in 1..Len(Sections) /\ i \in 1..Len(Sections)
      BY <2>1, <2>2, SectionFacts, SMTT(30) DEF Calls
    <3>2. Sections[i] \in Secs /\ Sections[v.at] \in Secs
      BY <3>1, SectionFacts
    <3>3. pMem[Sections[v.at]] \in Versions
      BY <3>2 DEF PTypes
    <3>4. i # v.at => i \in 1..pCall[w].at
      BY <2>1, <3>1
    <3>5. i # v.at => pCall[w].snap[Sections[i]] \in Versions
      BY <2>2, <3>4 DEF PTypes, Serialized
    <3>6. v.snap[Sections[i]] = IF Sections[i] = Sections[v.at] THEN pMem[Sections[v.at]]
                                ELSE pCall[w].snap[Sections[i]]
      BY <2>1, <2>2, <3>2 DEF Calls
    <3> QED
      BY <3>3, <3>5, <3>6
  <2> QED
    BY <1>1, <2>1, <2>2, <2>3, Zenon DEF PTypes
<1>4. ASSUME NEW w \in Writers, CompareSections(w) PROVE Data'
  <2> DEFINE todo == {s \in Secs : pCache[s] # pCall[w].snap[s]}
  <2>1. UNCHANGED <<pMem, pDisk, pCache, pUp>> /\ pUp /\ pCall[w].pc = "serialize"
        /\ pCall[w].at = Len(Sections)
    BY <1>4 DEF CompareSections
  <2>2. CASE todo = {}
    <3>1. pCall' = [pCall EXCEPT ![w] = NoCall]
      BY <1>4, <2>2 DEF CompareSections
    <3> QED
      BY <1>1, <2>1, <3>1, SectionFacts, Zenon DEF PTypes
  <2>3. CASE todo # {}
    <3>1. PICK v \in Calls : /\ pCall' = [pCall EXCEPT ![w] = v]
                             /\ v.pc = "save" /\ v.snap = pCall[w].snap
      BY <1>4, <2>3, CompareForm
    <3>2. \A s \in Secs : v.snap[s] \in Versions
      BY <2>1, <3>1, SectionFacts, Zenon DEF PTypes, Serialized
    <3> QED
      BY <1>1, <2>1, <3>1, <3>2, ZenonT(60) DEF PTypes
  <2> QED
    BY <2>2, <2>3
<1>5. ASSUME NEW w \in Writers, SaveSections(w) PROVE Data'
  <2>1. PICK v \in Calls, written \in SUBSET pCall[w].changed :
           /\ pCall' = [pCall EXCEPT ![w] = v]
           /\ v.pc = "save" /\ v.snap = pCall[w].snap /\ v.changed = pCall[w].changed
           /\ pDisk' = [s \in Secs |-> IF s \in written THEN pCall[w].snap[s] ELSE pDisk[s]]
           /\ \A i \in 1..v.at : i <= pCall[w].at \/ Sections[i] \in written
                                 \/ Sections[i] \notin pCall[w].changed
    BY <1>5, SaveForm, Zenon
  <2>2. UNCHANGED <<pMem, pCache, pUp>> /\ pUp /\ pCall[w].pc = "save"
    BY <1>5 DEF SaveSections
  <2>3. \A s \in Secs : pCall[w].snap[s] \in Versions
    BY <2>2 DEF PTypes, Serialized
  <2>4. pDisk' \in [Secs -> Versions]
    BY <2>1, <2>3 DEF PTypes
  <2> QED
    BY <1>1, <2>1, <2>2, <2>3, <2>4, ZenonT(60) DEF PTypes
<1>6. ASSUME NEW w \in Writers, NoteSaved(w) \/ PersistFails(w) PROVE Data'
  <2>1. pCall' = [pCall EXCEPT ![w] = NoCall] /\ UNCHANGED <<pMem, pDisk, pUp>> /\ pUp
    BY <1>6 DEF NoteSaved, PersistFails
  <2>2. pCache' \in [Secs -> Absent..MaxVersion]
    <3>1. pCall[w] \in Calls
      BY DEF PTypes
    <3> QED
      BY <1>6, <3>1 DEF NoteSaved, PersistFails, PTypes, Calls
  <2> QED
    BY <1>1, <2>1, <2>2, SectionFacts, Zenon DEF PTypes
<1>7. ASSUME CrashBackend PROVE Data'
  <2>1. pCall' = [w \in Writers |-> NoCall] /\ UNCHANGED <<pMem, pDisk>>
    BY <1>7 DEF CrashBackend
  <2>2. pCache' \in [Secs -> Absent..MaxVersion] /\ \A s \in Secs : pCache'[s] = Absent
    BY <1>7, SectionFacts DEF CrashBackend
  <2>3. \A w \in Writers : pCall'[w] = NoCall
    BY <2>1
  <2>4. pCall' \in [Writers -> Calls]
    BY <2>1, SectionFacts
  <2> QED
    BY <2>1, <2>2, <2>3, <2>4, SectionFacts DEF PTypes, Serialized, Busy
<1>8. ASSUME NEW loads \in BOOLEAN, StartBackend(loads) PROVE Data'
  <2>1. PICK w \in Writers : pCall' = [pCall EXCEPT ![w] = Fresh]
    BY <1>8, Zenon DEF StartBackend, Fresh
  <2>2. pMem' \in [Secs -> Versions]
    <3>1. Seed \in Versions
      BY SectionFacts DEF Seed, Versions
    <3> QED
      BY <1>8, <3>1 DEF StartBackend, PTypes
  <2>3. UNCHANGED <<pDisk, pCache>> /\ pUp'
    BY <1>8 DEF StartBackend
  <2>4. /\ pCall' \in [Writers -> Calls] /\ pCall'[w] = Fresh
        /\ \A u \in Writers : u # w => pCall'[u] = pCall[u]
    BY <2>1, OneCall, SectionFacts, Zenon
  <2>5. \A u \in Writers : Serialized(u)'
    BY <2>4, SectionFacts, ZenonT(60) DEF PTypes, Serialized
  <2> QED
    BY <2>2, <2>3, <2>4, <2>5 DEF PTypes
<1>9. Data'
  BY <1>2, <1>3, <1>4, <1>5, <1>6, <1>7, <1>8 DEF PNext
<1> QED
  BY <1>9, Flags DEF PTypes
-----------------------------------------------------------------------------
\* A call that runs alone: when w is the only one and goes on, or ends, every
\* other thread is idle before and after.
LEMMA OthersIdle ==
  ASSUME PTypes, Alone, NEW w \in Writers, Busy(w), NEW v \in Calls,
         pCall' = [pCall EXCEPT ![w] = v]
  PROVE  /\ \A u \in Writers : u # w => ~Busy(u)' /\ CallAgrees(u)'
         /\ \A u, x \in Writers : Busy(u)' /\ Busy(x)' => u = x
         /\ pCall'[w] = v
<1>1. pCall'[w] = v /\ \A u \in Writers : u # w => pCall'[u] = pCall[u]
  BY OneCall, Zenon
<1>2. \A u \in Writers : u # w => ~Busy(u)'
  BY <1>1 DEF Alone, Busy
<1>3. \A u \in Writers : ~Busy(u)' => CallAgrees(u)'
  BY DEF Busy, CallAgrees
<1> QED
  BY <1>1, <1>2, <1>3

\* The steps of a call that runs alone.
LEMMA CallAlone ==
  ASSUME PTypes, Alone, NEW w \in Writers,
         \/ SerializeSection(w) \/ CompareSections(w) \/ SaveSections(w)
         \/ NoteSaved(w) \/ PersistFails(w)
  PROVE  Alone'
<1>b. Busy(w) /\ pCall[w] \in Calls /\ CallAgrees(w) /\ pMem' = pMem
  BY DEF PTypes, Alone, Busy, SerializeSection, CompareSections, SaveSections, NoteSaved, PersistFails
<1>f. pForgot' = pForgot
  BY DEF pHistory, SerializeSection, CompareSections, SaveSections, NoteSaved, PersistFails
<1>o. UNCHANGED <<pDisk, pCache>> => \A s \in Secs : InOrder(s)'
  BY <1>b, <1>f DEF Alone, InOrder
<1>1. CASE SerializeSection(w)
  <2>1. PICK v \in Calls :
           /\ pCall' = [pCall EXCEPT ![w] = v]
           /\ v.pc = "serialize" /\ v.at = pCall[w].at + 1 /\ v.at <= Len(Sections)
           /\ v.snap = [pCall[w].snap EXCEPT ![Sections[v.at]] = pMem[Sections[v.at]]]
    BY <1>1, SerializeForm, ZenonT(60)
  <2>2. UNCHANGED <<pDisk, pCache>> /\ pCall[w].pc = "serialize"
    BY <1>1 DEF SerializeSection
  <2>3. ASSUME NEW i \in 1..v.at PROVE v.snap[Sections[i]] = pMem[Sections[i]]
    <3>1. pCall[w].at \in Nat /\ v.at \in 1..Len(Sections) /\ i \in 1..Len(Sections)
      BY <1>b, <2>1, SectionFacts DEF Calls
    <3>2. Sections[i] \in Secs /\ Sections[v.at] \in Secs
      BY <3>1, SectionFacts
    <3>3. i # v.at => i \in 1..pCall[w].at
      BY <2>1, <3>1
    <3>4. i # v.at => pCall[w].snap[Sections[i]] = pMem[Sections[i]]
      BY <1>b, <2>2, <3>3 DEF CallAgrees
    <3>5. v.snap[Sections[i]] = IF Sections[i] = Sections[v.at] THEN pMem[Sections[v.at]]
                                ELSE pCall[w].snap[Sections[i]]
      BY <1>b, <2>1, <3>2 DEF Calls
    <3> QED
      BY <3>4, <3>5
  <2>4. /\ pCall'[w] = v /\ \A u \in Writers : u # w => CallAgrees(u)'
        /\ \A u, x \in Writers : Busy(u)' /\ Busy(x)' => u = x
    BY <1>b, <2>1, OthersIdle, ZenonT(60)
  <2>5. CallAgrees(w)'
    <3>1. pCall'[w].pc = "serialize"
      BY <2>1, <2>4
    <3>2. \A i \in 1..pCall'[w].at : pCall'[w].snap[Sections[i]] = pMem'[Sections[i]]
      BY <1>b, <2>3, <2>4
    <3> QED
      BY <3>1, <3>2 DEF CallAgrees
  <2>6. Busy(w)'
    BY <2>1, <2>4 DEF Busy
  <2> QED
    BY <1>o, <2>2, <2>4, <2>5, <2>6 DEF Alone, Quiet
<1>2. CASE CompareSections(w)
  <2> DEFINE todo == {s \in Secs : pCache[s] # pCall[w].snap[s]}
  <2>1. UNCHANGED <<pDisk, pCache>> /\ pCall[w].pc = "serialize" /\ pCall[w].at = Len(Sections)
    BY <1>2 DEF CompareSections
  <2>2. \A s \in Secs : pCall[w].snap[s] = pMem[s]
    BY <1>b, <2>1, SectionFacts DEF CallAgrees
  <2>3. pCall[w].snap = pMem
    BY <1>b, <2>2 DEF Calls, PTypes
  <2>4. CASE todo = {}
    <3>1. pCall' = [pCall EXCEPT ![w] = NoCall]
      BY <1>2, <2>4 DEF CompareSections
    <3>2. \A s \in Secs : pCache[s] = pMem[s] /\ pMem[s] \in Versions
      BY <2>3, <2>4 DEF PTypes
    <3>3. \A s \in Secs : pDisk[s] = pMem[s]
      <4>1. SUFFICES ASSUME NEW s \in Secs PROVE pDisk[s] = pMem[s]
        OBVIOUS
      <4>2. pCache[s] # Absent
        BY <3>2, SectionFacts DEF Versions
      <4>3. pDisk[s] \in Int /\ pMem[s] \in Int
        BY SectionFacts DEF PTypes, Versions
      <4> QED
        BY <3>2, <4>2, <4>3 DEF Alone, InOrder
    <3>4. pDisk = pMem
      BY <3>3 DEF PTypes
    <3>5. /\ pCall'[w] = NoCall /\ \A u \in Writers : u # w => CallAgrees(u)'
          /\ \A u, x \in Writers : Busy(u)' /\ Busy(x)' => u = x
      BY <1>b, <3>1, OthersIdle, SectionFacts, ZenonT(60)
    <3>6. CallAgrees(w)'
      BY <3>5, SectionFacts DEF CallAgrees
    <3> QED
      BY <1>b, <1>o, <2>1, <3>4, <3>5, <3>6 DEF Alone
  <2>5. CASE todo # {}
    <3>1. PICK v \in Calls :
           /\ pCall' = [pCall EXCEPT ![w] = v]
           /\ v.pc = "save" /\ v.at = 0 /\ v.snap = pCall[w].snap
           /\ v.changed = todo
      BY <1>2, <2>5, CompareForm
    <3>2. /\ pCall'[w] = v /\ \A u \in Writers : u # w => CallAgrees(u)'
          /\ \A u, x \in Writers : Busy(u)' /\ Busy(x)' => u = x
      BY <1>b, <3>1, OthersIdle, ZenonT(60)
    <3>3. todo = {s \in Secs : pCache[s] # pMem[s]}
      BY <2>3
    <3>4. CallAgrees(w)'
      BY <1>b, <2>1, <2>3, <3>1, <3>2, <3>3 DEF CallAgrees
    <3>5. Busy(w)'
      BY <3>1, <3>2 DEF Busy
    <3> QED
      BY <1>o, <2>1, <3>2, <3>4, <3>5 DEF Alone, Quiet
  <2> QED
    BY <2>4, <2>5
<1>3. CASE SaveSections(w)
  <2>1. PICK v \in Calls, written \in SUBSET pCall[w].changed :
           /\ pCall' = [pCall EXCEPT ![w] = v]
           /\ v.pc = "save" /\ v.snap = pCall[w].snap /\ v.changed = pCall[w].changed
           /\ pDisk' = [s \in Secs |-> IF s \in written THEN pCall[w].snap[s] ELSE pDisk[s]]
           /\ \A i \in 1..v.at : i <= pCall[w].at \/ Sections[i] \in written
                                 \/ Sections[i] \notin pCall[w].changed
    BY <1>3, SaveForm, Zenon
  <2>2. UNCHANGED pCache /\ pCall[w].pc = "save"
    BY <1>3 DEF SaveSections
  <2>3. /\ pCall[w].snap = pMem /\ pCall[w].changed = {s \in Secs : pCache[s] # pMem[s]}
        /\ \A i \in 1..pCall[w].at : Sections[i] \in pCall[w].changed =>
                                     pDisk[Sections[i]] = pMem[Sections[i]]
    BY <1>b, <2>2 DEF CallAgrees
  <2>4. \A s \in Secs : pDisk'[s] = IF s \in written THEN pMem[s] ELSE pDisk[s]
    BY <2>1, <2>3
  <2>5. /\ pCall'[w] = v /\ \A u \in Writers : u # w => CallAgrees(u)'
        /\ \A u, x \in Writers : Busy(u)' /\ Busy(x)' => u = x
    BY <1>b, <2>1, OthersIdle, ZenonT(60)
  <2>6. ASSUME NEW i \in 1..v.at, Sections[i] \in v.changed
        PROVE  pDisk'[Sections[i]] = pMem[Sections[i]]
    <3>1. v.at \in 0..Len(Sections) /\ i \in 1..Len(Sections) /\ pCall[w].at \in 0..Len(Sections)
      BY <1>b, SectionFacts DEF Calls
    <3>2. Sections[i] \in Secs
      BY <3>1, SectionFacts
    <3>3. i <= pCall[w].at => pDisk[Sections[i]] = pMem[Sections[i]]
      BY <2>1, <2>3, <2>6, <3>1
    <3> QED
      BY <2>1, <2>4, <2>6, <3>2, <3>3
  <2>7. CallAgrees(w)'
    <3>1. v.snap = pMem' /\ v.changed = {s \in Secs : pCache'[s] # pMem'[s]}
      BY <1>b, <2>1, <2>2, <2>3
    <3> QED
      BY <1>b, <2>1, <2>5, <2>6, <3>1 DEF CallAgrees
  <2>8. ASSUME NEW s \in Secs PROVE InOrder(s)'
    <3>1. pDisk[s] \in Int /\ pMem[s] \in Int /\ pCache[s] \in Int
      BY SectionFacts DEF PTypes, Versions
    <3>2. InOrder(s)
      BY DEF Alone
    <3>3. pCache[s] # Absent => pCache[s] <= pMem[s]
      BY <3>1, <3>2 DEF InOrder
    <3> QED
      BY <1>b, <1>f, <2>2, <2>4, <3>1, <3>2, <3>3 DEF InOrder
  <2>9. Busy(w)'
    BY <2>1, <2>5 DEF Busy
  <2> QED
    BY <2>5, <2>7, <2>8, <2>9 DEF Alone, Quiet
<1>4. CASE NoteSaved(w)
  <2>1. /\ pCall' = [pCall EXCEPT ![w] = NoCall] /\ pDisk' = pDisk
        /\ pCall[w].pc = "save" /\ pCall[w].at = Len(Sections)
        /\ pCache' = [s \in Secs |-> IF s \in pCall[w].changed THEN pCall[w].snap[s] ELSE pCache[s]]
    BY <1>4 DEF NoteSaved
  <2>2. /\ pCall[w].snap = pMem /\ pCall[w].changed = {s \in Secs : pCache[s] # pMem[s]}
        /\ \A s \in Secs : s \in pCall[w].changed => pDisk[s] = pMem[s]
    BY <1>b, <2>1, SectionFacts DEF CallAgrees
  <2>3. \A s \in Secs : pCache'[s] = pMem[s] /\ pMem[s] \in Versions /\ pDisk[s] \in Versions
    BY <2>1, <2>2 DEF PTypes
  <2>4. \A s \in Secs : pDisk[s] = pMem[s]
    <3>1. SUFFICES ASSUME NEW s \in Secs, s \notin pCall[w].changed PROVE pDisk[s] = pMem[s]
      BY <2>2
    <3>2. pCache[s] = pMem[s] /\ pMem[s] \in Versions /\ pDisk[s] \in Versions
      BY <2>2, <2>3, <3>1
    <3>3. pCache[s] # Absent /\ pMem[s] \in Int /\ pDisk[s] \in Int
      BY <3>2, SectionFacts DEF Versions
    <3>4. InOrder(s)
      BY DEF Alone
    <3> QED
      BY <3>2, <3>3, <3>4 DEF InOrder
  <2>5. pDisk' = pMem'
    BY <1>b, <2>1, <2>4 DEF PTypes
  <2>6. \A s \in Secs : InOrder(s)'
    BY <1>b, <2>1, <2>3, <2>4 DEF InOrder, Versions
  <2>7. /\ pCall'[w] = NoCall /\ \A u \in Writers : u # w => CallAgrees(u)'
        /\ \A u, x \in Writers : Busy(u)' /\ Busy(x)' => u = x
    BY <1>b, <2>1, OthersIdle, SectionFacts, ZenonT(60)
  <2>8. CallAgrees(w)'
    BY <2>7, SectionFacts DEF CallAgrees
  <2> QED
    BY <2>5, <2>6, <2>7, <2>8 DEF Alone
<1>5. CASE PersistFails(w)
  <2>1. /\ pCall' = [pCall EXCEPT ![w] = NoCall] /\ UNCHANGED <<pDisk, pCache>>
        /\ pFailed'
    BY <1>5 DEF PersistFails
  <2>2. /\ pCall'[w] = NoCall /\ \A u \in Writers : u # w => CallAgrees(u)'
        /\ \A u, x \in Writers : Busy(u)' /\ Busy(x)' => u = x
    BY <1>b, <2>1, OthersIdle, SectionFacts, ZenonT(60)
  <2>3. CallAgrees(w)'
    BY <2>2, SectionFacts DEF CallAgrees
  <2> QED
    BY <1>o, <2>1, <2>2, <2>3 DEF Alone
<1> QED
  BY <1>1, <1>2, <1>3, <1>4, <1>5

\* The steps that are not of a call: a request that comes when no call is under
\* way, a crash and a startup.
LEMMA OthersAlone ==
  ASSUME PTypes, Alone,
         \/ \E w \in Writers, touched \in SUBSET Secs : HandleRequest(w, touched) /\ ~pOverlap'
         \/ CrashBackend
         \/ \E loads \in BOOLEAN : StartBackend(loads)
  PROVE  Alone'
<1>1. ASSUME NEW w \in Writers, NEW touched \in SUBSET Secs, HandleRequest(w, touched), ~pOverlap'
      PROVE  Alone'
  <2>1. /\ pCall' = [pCall EXCEPT ![w] = Fresh] /\ UNCHANGED <<pDisk, pCache, pForgot>>
        /\ pMem' = [s \in Secs |-> IF s \in touched THEN pMem[s] + 1 ELSE pMem[s]]
        /\ ~Busy(w)
    BY <1>1 DEF HandleRequest, Fresh
  <2>2. \A v \in Writers : v # w => ~Busy(v)
    BY <1>1, Zenon DEF HandleRequest
  <2>3. pCall'[w] = Fresh /\ \A u \in Writers : u # w => pCall'[u] = pCall[u]
    BY <2>1, OneCall, SectionFacts, ZenonT(60)
  <2>4. \A u \in Writers : u # w => ~Busy(u)' /\ CallAgrees(u)'
    BY <2>2, <2>3 DEF Busy, CallAgrees
  <2>5. CallAgrees(w)' /\ Busy(w)'
    BY <2>3, SectionFacts DEF CallAgrees, Busy
  <2>6. ASSUME NEW s \in Secs PROVE InOrder(s)'
    <3>1. pDisk[s] \in Int /\ pMem[s] \in Int /\ pCache[s] \in Int
      BY SectionFacts DEF PTypes, Versions
    <3>2. pMem'[s] \in Int /\ pMem[s] <= pMem'[s]
      BY <2>1, <3>1
    <3>3. InOrder(s)
      BY DEF Alone
    <3>4. pDisk[s] <= pMem[s] => pDisk'[s] <= pMem'[s]
      BY <2>1, <3>1, <3>2
    <3> QED
      BY <2>1, <3>3, <3>4 DEF InOrder
  <2> QED
    BY <2>4, <2>5, <2>6 DEF Alone, Quiet
<1>2. ASSUME CrashBackend PROVE Alone'
  <2>1. /\ UNCHANGED <<pMem, pDisk, pForgot>> /\ ~pUp'
        /\ pCall' = [w \in Writers |-> NoCall] /\ pCache' = [s \in Secs |-> Absent]
    BY <1>2 DEF CrashBackend, pHistory
  <2>2. \A u \in Writers : ~Busy(u)' /\ CallAgrees(u)'
    BY <2>1, SectionFacts DEF Busy, CallAgrees
  <2>3. \A s \in Secs : InOrder(s)'
    BY <2>1 DEF Alone, InOrder
  <2> QED
    BY <2>1, <2>2, <2>3 DEF Alone, Quiet
<1>3. ASSUME NEW loads \in BOOLEAN, StartBackend(loads) PROVE Alone'
  <2>1. PICK w \in Writers : pCall' = [pCall EXCEPT ![w] = Fresh]
    BY <1>3, Zenon DEF StartBackend, Fresh
  <2>2. pCall'[w] = Fresh /\ \A u \in Writers : u # w => pCall'[u] = pCall[u]
    BY <2>1, OneCall, SectionFacts, ZenonT(60)
  <2>3. \A u \in Writers : ~Busy(u)
    BY <1>3 DEF StartBackend, PTypes
  <2>4. \A u \in Writers : u # w => ~Busy(u)' /\ CallAgrees(u)'
    BY <2>2, <2>3 DEF Busy, CallAgrees
  <2>5. CallAgrees(w)' /\ Busy(w)'
    BY <2>2, SectionFacts DEF CallAgrees, Busy
  <2>6. ASSUME NEW s \in Secs PROVE InOrder(s)'
    <3>1. pDisk' = pDisk /\ pCache' = pCache /\ pDisk[s] \in Versions /\ pDisk[s] # Absent
      BY <1>3, SectionFacts DEF StartBackend, PTypes, Versions
    <3>2. pCache[s] = Absent
      BY <1>3 DEF StartBackend, PTypes
    <3>3. loads => pMem'[s] = pDisk[s]
      BY <1>3, <3>1 DEF StartBackend
    <3>4. ~pForgot' => loads
      BY <1>3, ZenonT(60) DEF StartBackend
    <3> QED
      BY <3>1, <3>2, <3>3, <3>4, SectionFacts DEF InOrder, Versions
  <2> QED
    BY <2>4, <2>5, <2>6 DEF Alone, Quiet
<1> QED
  BY <1>1, <1>2, <1>3

\* What happened once stays in the history.
LEMMA HistoryStays ==
  ASSUME PNext
  PROVE  (pOverlap => pOverlap') /\ (pForgot => pForgot')
<1>1. pOverlap => pOverlap'
  BY DEF PNext, HandleRequest, SerializeSection, CompareSections, SaveSections,
         NoteSaved, PersistFails, CrashBackend, StartBackend, pHistory
<1>2. pForgot => pForgot'
  BY DEF PNext, HandleRequest, SerializeSection, CompareSections, SaveSections,
         NoteSaved, PersistFails, CrashBackend, StartBackend, pHistory
<1> QED
  BY <1>1, <1>2

\* PInv is inductive.
THEOREM PersistInvariant == PSpec => []PInv
<1>1. PInit => PInv
  <2> SUFFICES ASSUME PInit PROVE PInv
    OBVIOUS
  <2>1. Seed \in Versions /\ Seed \in Absent..MaxVersion
    BY SectionFacts DEF Seed, Versions
  <2>2. \A w \in Writers : pCall[w] = NoCall
    BY DEF PInit
  <2>3. \A w \in Writers : ~Busy(w) /\ Serialized(w) /\ CallAgrees(w)
    BY <2>2, SectionFacts DEF Busy, Serialized, CallAgrees
  <2>4. pCall \in [Writers -> Calls]
    BY SectionFacts DEF PInit
  <2>5. /\ pMem \in [Secs -> Versions] /\ pDisk \in [Secs -> Versions]
        /\ pCache \in [Secs -> Absent..MaxVersion]
    BY <2>1 DEF PInit
  <2>6. PTypes
    <3>1. /\ pUp /\ pUp \in BOOLEAN /\ pOverlap \in BOOLEAN /\ pFailed \in BOOLEAN
          /\ pForgot \in BOOLEAN
      BY Zenon DEF PInit
    <3>2. pBackend \in {"postgres", "sqlite"} /\ pTroubles \in Nat
      BY DEF PInit
    <3> QED
      BY <2>3, <2>4, <2>5, <3>1, <3>2 DEF PTypes
  <2>7. \A s \in Secs : InOrder(s)
    BY <2>1, SectionFacts DEF PInit, InOrder, Versions
  <2>8. pDisk = pMem
    BY DEF PInit
  <2> QED
    BY <2>3, <2>6, <2>7, <2>8 DEF PInv, Alone
<1>2. PInv /\ [PNext]_pVars => PInv'
  <2>1. ASSUME PInv, PNext PROVE PInv'
    <3>1. PTypes'
      BY <2>1, PTypeStep DEF PInv
    <3>2. ASSUME ~pOverlap' PROVE Alone'
      <4>1. ~pOverlap
        BY <2>1, <3>2, HistoryStays, Zenon
      <4>2. PTypes /\ Alone
        BY <2>1, <4>1 DEF PInv
      <4> QED
        BY <2>1, <3>2, <4>2, CallAlone, OthersAlone DEF PNext
    <3> QED
      BY <3>1, <3>2 DEF PInv
  <2>2. ASSUME PInv, UNCHANGED pVars PROVE PInv'
    BY <2>2 DEF PInv, PTypes, Alone, Serialized, CallAgrees, InOrder, Quiet, Busy, pVars
  <2> QED
    BY <2>1, <2>2
<1> QED
  BY <1>1, <1>2, PTL DEF PSpec

\* Handlers that persist one after the other leave the whole store in the
\* database once the last of them succeeded, whatever failed before.
THEOREM QuietStoreIsSaved == PSpec => []QuietStoreIsOnDisk
<1>1. PInv => QuietStoreIsOnDisk
  BY DEF PInv, Alone, QuietStoreIsOnDisk
<1> QED
  BY <1>1, PersistInvariant, PTL

\* The section cache never claims more than the database holds.
THEOREM CacheIsNotAhead == PSpec => []CacheNeverAheadOfDisk
<1>1. PInv => CacheNeverAheadOfDisk
  <2> SUFFICES ASSUME PInv, ~pOverlap, NEW s \in Secs PROVE pCache[s] <= pDisk[s]
    BY DEF CacheNeverAheadOfDisk
  <2>1. pDisk[s] \in Versions /\ InOrder(s)
    BY DEF PInv, PTypes, Alone
  <2> QED
    BY <2>1, SectionFacts DEF InOrder, Versions
<1> QED
  BY <1>1, PersistInvariant, PTL

\* Without overlapping calls the database does not go back, unless a startup
\* could not load it.
THEOREM TheDatabaseGoesForward == PSpec => DiskGoesForward
<1>1. PInv /\ [PNext]_pVars =>
        [~pOverlap' /\ ~pForgot' => \A s \in Secs : pDisk'[s] >= pDisk[s]]_pVars
  <2> SUFFICES ASSUME PInv, PNext, ~pOverlap', ~pForgot', NEW s \in Secs
               PROVE  pDisk'[s] >= pDisk[s]
    OBVIOUS
  <2>1. ~pOverlap /\ ~pForgot
    BY HistoryStays, Zenon
  <2>2. PTypes /\ Alone
    BY <2>1 DEF PInv
  <2>3. pDisk[s] \in Int /\ pMem[s] \in Int /\ pDisk[s] <= pMem[s]
    BY <2>1, <2>2, SectionFacts DEF PTypes, Versions, Alone, InOrder
  <2>4. CASE \E w \in Writers : SaveSections(w)
    <3>1. PICK w \in Writers : SaveSections(w)
      BY <2>4
    <3>2. pCall[w].snap = pMem
      BY <2>2, <3>1 DEF Alone, CallAgrees, SaveSections
    <3>3. pDisk'[s] = pMem[s] \/ pDisk'[s] = pDisk[s]
      BY <3>1, <3>2 DEF SaveSections
    <3> QED
      BY <2>3, <3>3
  <2>5. CASE ~\E w \in Writers : SaveSections(w)
    <3>1. pDisk' = pDisk
      BY <2>5 DEF PNext, HandleRequest, SerializeSection, CompareSections,
                  NoteSaved, PersistFails, CrashBackend, StartBackend
    <3> QED
      BY <2>3, <3>1
  <2> QED
    BY <2>4, <2>5
<1> QED
  BY <1>1, PersistInvariant, PTL DEF PSpec, DiskGoesForward

-----------------------------------------------------------------------------
(* LocalModels.  The table and the threads agree as long as no deletion    *)
(* crossed a download: then a thread that downloads a model has it shown   *)
(* as downloading, which is what keeps start_pull from a second thread.    *)

Downloads == [stage: {"connect", "stream", "complete"}, model: VCatalog, lines: Nat]
Requests == [op: {"pull", "delete"}, model: VCatalog]

\* VTypeOK with the fields of the records.
VTypes ==
    /\ vPulls \in [VCatalog -> {"none", "downloading", "ready", "error"}]
    /\ vOllama \in [installed: SUBSET VCatalog, up: BOOLEAN]
    /\ vWorker \in [VWorkers -> {VNoWorker} \union Downloads]
    /\ vCall \in [VThreads -> {VFree} \union Requests]
    /\ vPast \in [asked: Nat, outages: Nat, crossed: SUBSET VCatalog]

Pulls(w, m) == vWorker[w].stage # "none" /\ vWorker[w].model = m
Deletes(c, m) == vCall[c].op = "delete" /\ vCall[c].model = m

\* A model no deletion crossed: shown as downloading while a thread downloads
\* it, by one thread, and installed once it is complete or ready.
Uncrossed(m) ==
    /\ \A w \in VWorkers : Pulls(w, m) => vPulls[m] = "downloading"
    /\ \A w, x \in VWorkers : Pulls(w, m) /\ Pulls(x, m) => w = x
    /\ \A w \in VWorkers : Pulls(w, m) /\ vWorker[w].stage = "complete" => m \in vOllama.installed
    /\ vPulls[m] = "ready" => m \in vOllama.installed \/ \E c \in VThreads : Deletes(c, m)

VInv ==
    /\ VTypes
    /\ \A m \in VCatalog : vPulls[m] = "downloading" => \E w \in VWorkers : Pulls(w, m)
    /\ \A m \in VCatalog \ vPast.crossed : Uncrossed(m)

\* A thread of the pool that downloads has a model of the catalog.
LEMMA WorkerFields ==
  ASSUME VTypes, NEW w \in VWorkers, vWorker[w].stage # "none"
  PROVE  vWorker[w] \in Downloads
  BY DEF VTypes, VNoWorker

\* A thread that serves a request has one.
LEMMA CallFields ==
  ASSUME VTypes, NEW c \in VThreads, vCall[c].op # "idle"
  PROVE  vCall[c] \in Requests
  BY DEF VTypes, VFree

\* delete_model as the rest of the proof uses it: refused, or the model leaves
\* Ollama, and is marked if a thread downloads it or another deletes it.
LEMMA AskDeleteForm ==
  ASSUME VTypes, NEW c \in VThreads, ask_delete(c)
  PROVE  /\ vPast' \in [asked: Nat, outages: Nat, crossed: SUBSET VCatalog]
         /\ \/ UNCHANGED <<vCall, vOllama>> /\ vPast'.crossed = vPast.crossed
            \/ \E m \in VCatalog :
                 /\ vCall' = [vCall EXCEPT ![c] = [op |-> "delete", model |-> m]]
                 /\ vOllama' = [vOllama EXCEPT !.installed = @ \ {m}]
                 /\ vPast.crossed \subseteq vPast'.crossed
                 /\ vPast'.crossed \subseteq vPast.crossed \union {m}
                 /\ \/ \E w \in VWorkers : Pulls(w, m)
                    \/ \E d \in VThreads : Deletes(d, m)
                    => m \in vPast'.crossed
<1>1. PICK m \in VCatalog \union VOthers :
        LET asks == m \in VCatalog /\ vOllama.up /\ m \in vOllama.installed
            cross == \/ PullingWorkers(m) # {}
                     \/ \E d \in VThreads : vCall[d].op = "delete" /\ vCall[d].model = m
        IN  /\ vCall' = IF asks THEN [vCall EXCEPT ![c] = [op |-> "delete", model |-> m]] ELSE vCall
            /\ vOllama' = IF asks THEN [vOllama EXCEPT !.installed = @ \ {m}] ELSE vOllama
            /\ vPast' = [vPast EXCEPT !.asked = @ + 1,
                                      !.crossed = IF asks /\ cross THEN @ \union {m} ELSE @]
  BY Zenon DEF ask_delete, is_catalog_model
<1>2. (\E w \in VWorkers : Pulls(w, m)) => PullingWorkers(m) # {}
  BY DEF Pulls, PullingWorkers
<1>3. (\E d \in VThreads : Deletes(d, m)) =>
        \E d \in VThreads : vCall[d].op = "delete" /\ vCall[d].model = m
  BY DEF Deletes
<1>4. vPast.asked + 1 \in Nat
  BY DEF VTypes
<1>5. CASE m \in VCatalog /\ vOllama.up /\ m \in vOllama.installed
  <2> DEFINE cross == \/ PullingWorkers(m) # {}
                      \/ \E d \in VThreads : vCall[d].op = "delete" /\ vCall[d].model = m
  <2>1. /\ vCall' = [vCall EXCEPT ![c] = [op |-> "delete", model |-> m]]
        /\ vOllama' = [vOllama EXCEPT !.installed = @ \ {m}]
        /\ vPast' = [vPast EXCEPT !.asked = @ + 1,
                                  !.crossed = IF cross THEN @ \union {m} ELSE @]
    BY <1>1, <1>5
  <2> HIDE DEF cross
  <2>2. /\ vPast' \in [asked: Nat, outages: Nat, crossed: SUBSET VCatalog]
        /\ vPast'.crossed = IF cross THEN vPast.crossed \union {m} ELSE vPast.crossed
    BY <1>4, <1>5, <2>1, Zenon DEF VTypes
  <2>3. (\E w \in VWorkers : Pulls(w, m)) \/ (\E d \in VThreads : Deletes(d, m)) => cross
    BY <1>2, <1>3 DEF cross
  <2>4. vPast.crossed \subseteq vPast'.crossed /\ vPast'.crossed \subseteq vPast.crossed \union {m}
    BY <2>2
  <2>5. (\E w \in VWorkers : Pulls(w, m)) \/ (\E d \in VThreads : Deletes(d, m))
        => m \in vPast'.crossed
    BY <2>2, <2>3
  <2> QED
    BY <1>5, <2>1, <2>2, <2>4, <2>5, Zenon
<1>6. CASE ~(m \in VCatalog /\ vOllama.up /\ m \in vOllama.installed)
  BY <1>1, <1>4, <1>6 DEF VTypes
<1> QED
  BY <1>5, <1>6
-----------------------------------------------------------------------------
\* Types.
LEMMA VTypeStep ==
  ASSUME VTypes, VNext
  PROVE  VTypes'
<1>1. ASSUME NEW w \in VWorkers, pull_line(w) PROVE VTypes'
  <2>1. vWorker[w] \in Downloads
    BY <1>1, WorkerFields DEF pull_line
  <2>2. vWorker' \in [VWorkers -> {VNoWorker} \union Downloads]
    BY <1>1, <2>1 DEF pull_line, VTypes, Downloads
  <2> QED
    BY <1>1, <2>1, <2>2 DEF pull_line, VTypes, Downloads
<1>2. ASSUME NEW w \in VWorkers, download_completes(w) PROVE VTypes'
  <2>1. vWorker[w] \in Downloads
    BY <1>2, WorkerFields DEF download_completes
  <2>2. vWorker' \in [VWorkers -> {VNoWorker} \union Downloads]
    BY <1>2, <2>1 DEF download_completes, VTypes, Downloads
  <2>3. vOllama' \in [installed: SUBSET VCatalog, up: BOOLEAN]
    BY <1>2, <2>1 DEF download_completes, VTypes, Downloads
  <2> QED
    BY <1>2, <2>2, <2>3 DEF download_completes, VTypes
<1>3. ASSUME NEW w \in VWorkers, pull_ready(w) \/ pull_error(w) PROVE VTypes'
  <2>1. vWorker[w] \in Downloads
    BY <1>3, WorkerFields DEF pull_ready, pull_error
  <2> QED
    BY <1>3, <2>1 DEF pull_ready, pull_error, VTypes, Downloads
<1>4. ASSUME NEW c \in VThreads, ask_pull(c) PROVE VTypes'
  <2>1. vCall' \in [VThreads -> {VFree} \union Requests]
    BY <1>4 DEF ask_pull, is_catalog_model, VTypes, Requests
  <2>2. vPast' \in [asked: Nat, outages: Nat, crossed: SUBSET VCatalog]
    BY <1>4 DEF ask_pull, VTypes
  <2> QED
    BY <1>4, <2>1, <2>2 DEF ask_pull, VTypes
<1>5. ASSUME NEW c \in VThreads, start_pull(c) PROVE VTypes'
  <2>1. vCall[c] \in Requests
    BY <1>5, CallFields DEF start_pull
  <2>2. vCall' \in [VThreads -> {VFree} \union Requests]
    BY <1>5 DEF start_pull, VTypes
  <2>3. vWorker' \in [VWorkers -> {VNoWorker} \union Downloads]
    BY <1>5, <2>1 DEF start_pull, VTypes, Downloads, Requests
  <2>4. vPulls' \in [VCatalog -> {"none", "downloading", "ready", "error"}]
    BY <1>5, <2>1 DEF start_pull, VTypes, Requests
  <2> QED
    BY <1>5, <2>2, <2>3, <2>4 DEF start_pull, VTypes
<1>6. ASSUME NEW c \in VThreads, ask_delete(c) PROVE VTypes'
  <2>1. vPast' \in [asked: Nat, outages: Nat, crossed: SUBSET VCatalog]
    BY <1>6, AskDeleteForm
  <2>2. /\ vCall' \in [VThreads -> {VFree} \union Requests]
        /\ vOllama' \in [installed: SUBSET VCatalog, up: BOOLEAN]
    <3>1. CASE UNCHANGED <<vCall, vOllama>>
      BY <3>1 DEF VTypes
    <3>2. ASSUME NEW m \in VCatalog, vCall' = [vCall EXCEPT ![c] = [op |-> "delete", model |-> m]],
                 vOllama' = [vOllama EXCEPT !.installed = @ \ {m}]
          PROVE  /\ vCall' \in [VThreads -> {VFree} \union Requests]
                 /\ vOllama' \in [installed: SUBSET VCatalog, up: BOOLEAN]
      BY <3>2 DEF VTypes, Requests
    <3> QED
      BY <1>6, <3>1, <3>2, AskDeleteForm
  <2> QED
    BY <1>6, <2>1, <2>2 DEF ask_delete, VTypes
<1>7. ASSUME NEW c \in VThreads, drop_pull(c) PROVE VTypes'
  <2>1. vCall[c] \in Requests
    BY <1>7, CallFields DEF drop_pull
  <2>2. vPast' \in [asked: Nat, outages: Nat, crossed: SUBSET VCatalog]
    BY <1>7, <2>1 DEF drop_pull, VTypes, Requests
  <2> QED
    BY <1>7, <2>1, <2>2 DEF drop_pull, VTypes, Requests
<1>8. CASE OllamaTurns
  <2>1. vOllama' \in [installed: SUBSET VCatalog, up: BOOLEAN]
    <3>1. (~vOllama.up) \in BOOLEAN
      BY Zenon
    <3> QED
      BY <1>8, <3>1, Zenon DEF OllamaTurns, VTypes
  <2> QED
    BY <1>8, <2>1 DEF OllamaTurns, VTypes
<1>9. CASE BackendRestarts
  <2>1. vPast' \in [asked: Nat, outages: Nat, crossed: SUBSET VCatalog]
    <3>1. vPast.outages + 1 \in Nat /\ {} \in SUBSET VCatalog
      BY DEF VTypes
    <3>2. vPast' = [vPast EXCEPT !.outages = vPast.outages + 1, !.crossed = {}]
      BY <1>9 DEF BackendRestarts
    <3> QED
      BY <3>1, <3>2, Zenon DEF VTypes
  <2> QED
    BY <1>9, <2>1 DEF BackendRestarts, VTypes
<1> QED
  BY <1>1, <1>2, <1>3, <1>4, <1>5, <1>6, <1>7, <1>8, <1>9 DEF VNext, VWorkerStep
-----------------------------------------------------------------------------
\* What a step may do to the threads, seen from one model.

\* A model stays downloaded by the same threads in the same stages.
SamePulls(m) ==
    \A w \in VWorkers : /\ Pulls(w, m)' <=> Pulls(w, m)
                        /\ Pulls(w, m) => vWorker'[w].stage = vWorker[w].stage

\* A step that leaves the threads, the table and Ollama alone for a model
\* keeps what VInv says of it.
LEMMA UntouchedModel ==
  ASSUME VInv, NEW m \in VCatalog, SamePulls(m), vPulls'[m] = vPulls[m],
         m \in vOllama.installed => m \in vOllama'.installed,
         \A c \in VThreads : Deletes(c, m) => Deletes(c, m)'
  PROVE  /\ vPulls'[m] = "downloading" => \E w \in VWorkers : Pulls(w, m)'
         /\ m \notin vPast.crossed => Uncrossed(m)'
<1>1. vPulls'[m] = "downloading" => \E w \in VWorkers : Pulls(w, m)'
  BY Zenon DEF VInv, SamePulls
<1>2. ASSUME m \notin vPast.crossed PROVE Uncrossed(m)'
  <2>1. Uncrossed(m)
    BY <1>2 DEF VInv
  <2>2. \A w \in VWorkers : Pulls(w, m)' => vPulls'[m] = "downloading"
    BY <2>1 DEF Uncrossed, SamePulls
  <2>3. \A w, x \in VWorkers : Pulls(w, m)' /\ Pulls(x, m)' => w = x
    BY <2>1 DEF Uncrossed, SamePulls
  <2>4. \A w \in VWorkers : Pulls(w, m)' /\ vWorker'[w].stage = "complete" => m \in vOllama'.installed
    BY <2>1 DEF Uncrossed, SamePulls
  <2>5. vPulls'[m] = "ready" => m \in vOllama'.installed \/ \E c \in VThreads : Deletes(c, m)'
    BY <2>1 DEF Uncrossed
  <2> QED
    BY <2>2, <2>3, <2>4, <2>5 DEF Uncrossed
<1> QED
  BY <1>1, <1>2

\* A step of one download thread leaves every other model to its threads.
LEMMA OtherModels ==
  ASSUME VTypes, NEW w \in VWorkers, NEW v, vWorker' = [vWorker EXCEPT ![w] = v],
         NEW m \in VCatalog, ~Pulls(w, m), v.stage # "none" => v.model # m
  PROVE  SamePulls(m)
<1>1. \A x \in VWorkers : vWorker'[x] = IF x = w THEN v ELSE vWorker[x]
  BY DEF VTypes
<1>2. ~Pulls(w, m)'
  BY <1>1 DEF Pulls
<1> QED
  BY <1>1, <1>2 DEF SamePulls, Pulls

\* What VInv says of one model, after the step.
Kept(m) ==
    /\ vPulls'[m] = "downloading" => \E w \in VWorkers : Pulls(w, m)'
    /\ m \notin vPast'.crossed => Uncrossed(m)'

\* A step of a download thread (_run_pull).
LEMMA WorkerKeeps ==
  ASSUME VInv, NEW w \in VWorkers, NEW m \in VCatalog,
         pull_line(w) \/ download_completes(w) \/ pull_ready(w) \/ pull_error(w)
  PROVE  Kept(m)
<1> DEFINE k == vWorker[w].model
<1>t. VTypes /\ vWorker[w] \in Downloads
  BY WorkerFields DEF VInv, pull_line, download_completes, pull_ready, pull_error
<1>u. UNCHANGED <<vCall, vPast>>
  BY DEF pull_line, download_completes, pull_ready, pull_error
<1>d. \A c \in VThreads : Deletes(c, m) <=> Deletes(c, m)'
  BY <1>u DEF Deletes
<1>v. PICK v : /\ vWorker' = [vWorker EXCEPT ![w] = v]
               /\ v.stage # "none" => v.model = k
               /\ pull_line(w) => v.stage = "stream"
               /\ download_completes(w) => v.stage = "complete"
               /\ pull_ready(w) \/ pull_error(w) => v.stage = "none"
  <2>1. CASE pull_line(w)
    <3>1. vWorker' = [vWorker EXCEPT ![w] = [vWorker[w] EXCEPT !.stage = "stream", !.lines = @ + 1]]
      BY <1>t, <2>1, Zenon DEF pull_line, VTypes
    <3>2. ~download_completes(w) /\ ~pull_ready(w) /\ ~pull_error(w)
      <4>1. vWorker'[w].stage = "stream"
        BY <1>t, <3>1 DEF VTypes, Downloads
      <4> QED
        BY <1>t, <4>1 DEF download_completes, pull_ready, pull_error, VTypes, VNoWorker, Downloads
    <3> QED
      BY <1>t, <3>1, <3>2, Zenon DEF Downloads
  <2>2. CASE download_completes(w)
    <3>1. vWorker' = [vWorker EXCEPT ![w] = [vWorker[w] EXCEPT !.stage = "complete"]]
      BY <1>t, <2>2 DEF download_completes, VTypes
    <3>2. ~pull_line(w) /\ ~pull_ready(w) /\ ~pull_error(w)
      <4>1. vWorker'[w].stage = "complete"
        BY <1>t, <3>1 DEF VTypes, Downloads
      <4> QED
        BY <1>t, <4>1 DEF pull_line, pull_ready, pull_error, VTypes, VNoWorker, Downloads
    <3> QED
      BY <1>t, <3>1, <3>2, Zenon DEF Downloads
  <2>3. CASE pull_ready(w) \/ pull_error(w)
    <3>1. vWorker' = [vWorker EXCEPT ![w] = VNoWorker]
      BY <2>3 DEF pull_ready, pull_error
    <3>2. ~pull_line(w) /\ ~download_completes(w)
      <4>1. vWorker'[w].stage = "none"
        BY <1>t, <3>1 DEF VTypes, VNoWorker
      <4> QED
        BY <1>t, <4>1 DEF pull_line, download_completes, VTypes, Downloads
    <3>3. VNoWorker.stage = "none"
      BY DEF VNoWorker
    <3> QED
      BY <3>1, <3>2, <3>3, Zenon
  <2> QED
    BY <2>1, <2>2, <2>3
<1>1. CASE k # m
  <2>1. SamePulls(m)
    BY <1>1, <1>t, <1>v, OtherModels, Zenon DEF Pulls
  <2>2. vPulls'[m] = vPulls[m]
    BY <1>1, <1>t DEF VTypes, pull_line, download_completes, pull_ready, pull_error
  <2>3. m \in vOllama.installed => m \in vOllama'.installed
    BY <1>t DEF VTypes, pull_line, download_completes, pull_ready, pull_error
  <2> QED
    BY <1>u, <1>d, <2>1, <2>2, <2>3, UntouchedModel DEF Kept
<1>2. CASE k = m
  <2>1. \A x \in VWorkers : vWorker'[x] = IF x = w THEN v ELSE vWorker[x]
    BY <1>t, <1>v DEF VTypes
  <2>2. Pulls(w, m)
    BY <1>2, <1>t DEF Pulls, Downloads
  <2>3. m \notin vPast'.crossed => Uncrossed(m)
    BY <1>u DEF VInv
  <2>4. \A x \in VWorkers : x # w => (Pulls(x, m)' <=> Pulls(x, m))
    BY <2>1 DEF Pulls
  <2>5. m \notin vPast'.crossed => \A x \in VWorkers : x # w => ~Pulls(x, m)'
    BY <2>2, <2>3, <2>4 DEF Uncrossed
  <2>6. CASE pull_line(w)
    <3>1. vPulls'[m] = "downloading" /\ UNCHANGED vOllama
      BY <1>2, <1>t, <2>6 DEF pull_line, VTypes
    <3>2. Pulls(w, m)' /\ vWorker'[w].stage = "stream"
      BY <1>2, <1>v, <2>1, <2>6 DEF Pulls
    <3> QED
      BY <2>5, <3>1, <3>2 DEF Kept, Uncrossed
  <2>7. CASE download_completes(w)
    <3>1. UNCHANGED vPulls /\ m \in vOllama'.installed
      BY <1>2, <1>t, <2>7 DEF download_completes, VTypes
    <3>2. Pulls(w, m)'
      BY <1>2, <1>v, <2>1, <2>7 DEF Pulls
    <3>3. m \notin vPast'.crossed => vPulls'[m] = "downloading"
      BY <2>2, <2>3, <3>1 DEF Uncrossed
    <3> QED
      BY <2>5, <3>1, <3>2, <3>3 DEF Kept, Uncrossed
  <2>8. CASE pull_ready(w) \/ pull_error(w)
    <3>1. UNCHANGED vOllama /\ vPulls'[m] = IF pull_ready(w) THEN "ready" ELSE "error"
      BY <1>2, <1>t, <2>8 DEF pull_ready, pull_error, VTypes
    <3>2. ~Pulls(w, m)'
      BY <1>v, <2>1, <2>8 DEF Pulls
    <3>3. pull_ready(w) /\ m \notin vPast'.crossed => m \in vOllama'.installed
      BY <2>2, <2>3, <3>1 DEF Uncrossed, pull_ready
    <3> QED
      BY <2>5, <3>1, <3>2, <3>3 DEF Kept, Uncrossed
  <2> QED
    BY <2>6, <2>7, <2>8
<1> QED
  BY <1>1, <1>2

\* The request threads: start_pull and delete_model.
LEMMA CallKeeps ==
  ASSUME VInv, NEW c \in VThreads, NEW m \in VCatalog,
         ask_pull(c) \/ start_pull(c) \/ ask_delete(c) \/ drop_pull(c)
  PROVE  Kept(m)
<1>t. VTypes
  BY DEF VInv
<1>s. UNCHANGED vWorker => SamePulls(m)
  BY DEF SamePulls, Pulls
<1>1. CASE ask_pull(c)
  <2>1. /\ UNCHANGED <<vPulls, vOllama, vWorker>>
        /\ vPast'.crossed = vPast.crossed
    BY <1>1, <1>t DEF ask_pull, VTypes
  <2>2. \A d \in VThreads : d # c => vCall'[d] = vCall[d]
    BY <1>1, <1>t DEF ask_pull, VTypes
  <2>3. \A d \in VThreads : Deletes(d, m) => Deletes(d, m)'
    BY <1>1, <2>2 DEF Deletes, ask_pull
  <2> QED
    BY <1>s, <2>1, <2>3, UntouchedModel DEF Kept
<1>2. CASE start_pull(c)
  <2> DEFINE k == vCall[c].model
  <2>1. UNCHANGED <<vOllama, vPast>> /\ vCall[c] \in Requests
    BY <1>2, <1>t, CallFields DEF start_pull
  <2>2. \A d \in VThreads : d # c => vCall'[d] = vCall[d]
    BY <1>2, <1>t DEF start_pull, VTypes
  <2>3. \A d \in VThreads : Deletes(d, m) => Deletes(d, m)'
    BY <1>2, <2>2 DEF Deletes, start_pull
  <2>4. CASE UNCHANGED <<vPulls, vWorker>>
    BY <1>s, <2>1, <2>3, <2>4, UntouchedModel DEF Kept
  <2>5. CASE /\ vPulls[k] # "downloading"
             /\ \E w \in VWorkers :
                   /\ vWorker[w].stage = "none"
                   /\ vWorker' = [vWorker EXCEPT ![w] = [stage |-> "connect", model |-> k, lines |-> 0]]
             /\ vPulls' = [vPulls EXCEPT ![k] = "downloading"]
    <3>1. PICK w \in VWorkers :
              /\ vWorker[w].stage = "none"
              /\ vWorker' = [vWorker EXCEPT ![w] = [stage |-> "connect", model |-> k, lines |-> 0]]
      BY <2>5, Zenon
    <3>2. CASE k # m
      <4> DEFINE v == [stage |-> "connect", model |-> k, lines |-> 0]
      <4>0. v.model = k /\ ~Pulls(w, m)
        BY <3>1 DEF Pulls
      <4>a. vWorker' = [vWorker EXCEPT ![w] = v]
        BY <3>1
      <4> HIDE DEF v, k
      <4>1. SamePulls(m)
        BY <1>t, <3>2, <4>0, <4>a, OtherModels, Zenon
      <4> USE DEF k
      <4>2. vPulls'[m] = vPulls[m]
        BY <1>t, <2>5, <3>2 DEF VTypes
      <4> QED
        BY <2>1, <2>3, <4>1, <4>2, UntouchedModel DEF Kept
    <3>3. CASE k = m
      <4>1. \A x \in VWorkers : vWorker'[x] = IF x = w THEN [stage |-> "connect", model |-> m, lines |-> 0]
                                              ELSE vWorker[x]
        BY <1>t, <3>1, <3>3 DEF VTypes
      <4>2. vPulls'[m] = "downloading"
        BY <1>t, <2>5, <3>3 DEF VTypes
      <4>3. Pulls(w, m)' /\ vWorker'[w].stage = "connect"
        BY <4>1 DEF Pulls
      <4>4. ASSUME m \notin vPast'.crossed PROVE \A x \in VWorkers : x # w => ~Pulls(x, m)'
        <5>1. Uncrossed(m)
          BY <2>1, <4>4 DEF VInv
        <5>2. \A x \in VWorkers : ~Pulls(x, m)
          BY <2>5, <3>3, <5>1 DEF Uncrossed
        <5> QED
          BY <4>1, <5>2 DEF Pulls
      <4> QED
        BY <4>2, <4>3, <4>4 DEF Kept, Uncrossed
    <3> QED
      BY <3>2, <3>3
  <2> QED
    BY <1>2, <2>4, <2>5 DEF start_pull
<1>3. CASE ask_delete(c)
  <2>1. UNCHANGED <<vPulls, vWorker>> /\ vCall[c].op = "idle"
    BY <1>3 DEF ask_delete
  <2>2. CASE UNCHANGED <<vCall, vOllama>> /\ vPast'.crossed = vPast.crossed
    <3>1. \A d \in VThreads : Deletes(d, m) => Deletes(d, m)'
      BY <2>2 DEF Deletes
    <3> QED
      BY <1>s, <2>1, <2>2, <3>1, UntouchedModel DEF Kept
  <2>3. ASSUME NEW k \in VCatalog,
               vCall' = [vCall EXCEPT ![c] = [op |-> "delete", model |-> k]],
               vOllama' = [vOllama EXCEPT !.installed = @ \ {k}],
               vPast.crossed \subseteq vPast'.crossed,
               (\E w \in VWorkers : Pulls(w, k)) \/ (\E d \in VThreads : Deletes(d, k))
               => k \in vPast'.crossed
        PROVE  Kept(m)
    <3>1. \A d \in VThreads : vCall'[d] = IF d = c THEN [op |-> "delete", model |-> k] ELSE vCall[d]
      BY <1>t, <2>3 DEF VTypes
    <3>2. \A d \in VThreads : Deletes(d, m) => Deletes(d, m)'
      BY <2>1, <3>1 DEF Deletes
    <3>3. CASE k # m
      <4>1. m \in vOllama.installed => m \in vOllama'.installed
        BY <1>t, <2>3, <3>3 DEF VTypes
      <4> QED
        BY <1>s, <2>1, <2>3, <3>2, <4>1, UntouchedModel DEF Kept
    <3>4. CASE k = m
      <4>1. Deletes(c, m)'
        BY <3>1, <3>4 DEF Deletes
      <4>2. \A w \in VWorkers : Pulls(w, m)' <=> Pulls(w, m)
        BY <2>1 DEF Pulls
      <4>3. m \notin vPast'.crossed => \A w \in VWorkers : ~Pulls(w, m)'
        BY <2>3, <3>4, <4>2
      <4>4. vPulls'[m] = "downloading" => \E w \in VWorkers : Pulls(w, m)'
        BY <2>1, <4>2 DEF VInv
      <4> QED
        BY <4>1, <4>3, <4>4 DEF Kept, Uncrossed
    <3> QED
      BY <3>3, <3>4
  <2> QED
    BY <1>3, <1>t, <2>2, <2>3, AskDeleteForm
<1>4. CASE drop_pull(c)
  <2> DEFINE k == vCall[c].model
  <2>1. vCall[c] \in Requests /\ UNCHANGED <<vOllama, vWorker>>
    BY <1>4, <1>t, CallFields DEF drop_pull
  <2>2. vPulls' = [vPulls EXCEPT ![k] = "none"]
    BY <1>4 DEF drop_pull
  <2>3. /\ vPast.crossed \subseteq vPast'.crossed
        /\ PullingWorkers(k) # {} => k \in vPast'.crossed
    BY <1>4, <1>t, <2>1 DEF drop_pull, VTypes, Requests
  <2>4. \A d \in VThreads : d # c => vCall'[d] = vCall[d]
    BY <1>4, <1>t DEF drop_pull, VTypes
  <2>5. CASE k # m
    <3>1. \A d \in VThreads : Deletes(d, m) => Deletes(d, m)'
      BY <2>4, <2>5 DEF Deletes
    <3>2. vPulls'[m] = vPulls[m]
      BY <1>t, <2>2, <2>5 DEF VTypes
    <3> QED
      BY <1>s, <2>1, <2>3, <3>1, <3>2, UntouchedModel DEF Kept
  <2>6. CASE k = m
    <3>1. vPulls'[m] = "none"
      BY <1>t, <2>2, <2>6 DEF VTypes
    <3>2. m \notin vPast'.crossed => \A w \in VWorkers : ~Pulls(w, m)'
      BY <2>1, <2>3, <2>6 DEF PullingWorkers, Pulls
    <3> QED
      BY <3>1, <3>2 DEF Kept, Uncrossed
  <2> QED
    BY <2>5, <2>6
<1> QED
  BY <1>1, <1>2, <1>3, <1>4

\* Ollama or the backend stops and starts.
LEMMA OutageKeeps ==
  ASSUME VInv, NEW m \in VCatalog, OllamaTurns \/ BackendRestarts
  PROVE  Kept(m)
<1>t. VTypes
  BY DEF VInv
<1>1. CASE OllamaTurns
  <2>1. /\ UNCHANGED <<vPulls, vWorker, vCall>>
        /\ vPast'.crossed = vPast.crossed /\ vOllama'.installed = vOllama.installed
    BY <1>1, <1>t DEF OllamaTurns, VTypes
  <2>2. SamePulls(m) /\ \A c \in VThreads : Deletes(c, m) => Deletes(c, m)'
    BY <2>1 DEF SamePulls, Pulls, Deletes
  <2> QED
    BY <2>1, <2>2, UntouchedModel DEF Kept
<1>2. CASE BackendRestarts
  <2>1. vPulls'[m] = "none"
    BY <1>2 DEF BackendRestarts
  <2>2. \A w \in VWorkers : ~Pulls(w, m)'
    BY <1>2 DEF BackendRestarts, Pulls, VNoWorker
  <2> QED
    BY <2>1, <2>2 DEF Kept, Uncrossed
<1> QED
  BY <1>1, <1>2

\* VInv is inductive: no step of the threads, of Ollama or of the backend
\* breaks what the table says of the downloads.
THEOREM DownloadInvariant == VSpec => []VInv
<1>1. VInit => VInv
  <2>1. VInit => VTypes
    BY DEF VInit, VTypes, VNoWorker, VFree
  <2>2. ASSUME VInit, NEW m \in VCatalog PROVE vPulls[m] = "none" /\ Uncrossed(m)
    <3>1. vPulls[m] = "none"
      BY <2>2 DEF VInit
    <3>2. \A w \in VWorkers : ~Pulls(w, m)
      BY <2>2 DEF VInit, Pulls, VNoWorker
    <3> QED
      BY <3>1, <3>2 DEF Uncrossed
  <2> QED
    BY <2>1, <2>2 DEF VInv
<1>2. VInv /\ [VNext]_vVars => VInv'
  <2>1. ASSUME VInv, VNext PROVE VInv'
    <3>1. VTypes'
      BY <2>1, VTypeStep DEF VInv
    <3>2. \A m \in VCatalog : Kept(m)
      <4>1. TAKE m \in VCatalog
      <4> QED
        BY <2>1, WorkerKeeps, CallKeeps, OutageKeeps DEF VNext, VWorkerStep
    <3> QED
      BY <3>1, <3>2 DEF VInv, Kept
  <2>2. ASSUME VInv, UNCHANGED vVars PROVE VInv'
    <3>1. VTypes'
      BY <2>2 DEF VInv, VTypes, vVars
    <3>2. ASSUME NEW m \in VCatalog PROVE Uncrossed(m)' = Uncrossed(m)
      BY <2>2 DEF Uncrossed, Pulls, Deletes, vVars
    <3>3. vPulls' = vPulls /\ vWorker' = vWorker /\ vPast' = vPast
      BY <2>2 DEF vVars
    <3>4. ASSUME NEW m \in VCatalog, NEW w \in VWorkers PROVE Pulls(w, m)' = Pulls(w, m)
      BY <3>3 DEF Pulls
    <3>5. (\A m \in VCatalog : vPulls[m] = "downloading" => \E w \in VWorkers : Pulls(w, m))'
      BY <2>2, <3>3, <3>4, Zenon DEF VInv
    <3>6. (\A m \in VCatalog \ vPast.crossed : Uncrossed(m))'
      BY <2>2, <3>2, <3>3, Zenon DEF VInv
    <3> QED
      BY <3>1, <3>5, <3>6, Zenon DEF VInv
  <2> QED
    BY <2>1, <2>2
<1> QED
  BY <1>1, <1>2, PTL DEF VSpec

\* A model shown as downloading has a thread that downloads it.
THEOREM DownloadsAreReal == VSpec => []DownloadingHasAWorker
<1>1. VInv => DownloadingHasAWorker
  BY DEF VInv, DownloadingHasAWorker, PullingWorkers, Pulls
<1> QED
  BY <1>1, DownloadInvariant, PTL

\* start_pull starts no second download of a model, unless a deletion crossed
\* the first.
THEOREM OneDownload == VSpec => []OneDownloadPerModel
<1>1. VInv => OneDownloadPerModel
  <2> SUFFICES ASSUME VInv, NEW m \in VCatalog \ vPast.crossed
               PROVE  Cardinality(PullingWorkers(m)) <= 1
    BY DEF OneDownloadPerModel
  <2>1. \A w, x \in PullingWorkers(m) : w = x
    BY DEF VInv, Uncrossed, PullingWorkers, Pulls
  <2>2. CASE PullingWorkers(m) = {}
    BY <2>2, FS_EmptySet
  <2>3. CASE PullingWorkers(m) # {}
    <3>1. PICK w : w \in PullingWorkers(m)
      BY <2>3
    <3>2. PullingWorkers(m) = {w}
      BY <2>1, <3>1
    <3>3. Cardinality({w}) = 1
      BY FS_Singleton
    <3> QED
      BY <3>2, <3>3
  <2> QED
    BY <2>2, <2>3
<1> QED
  BY <1>1, DownloadInvariant, PTL

\* A model shown as ready is with Ollama, unless it is being deleted or a
\* deletion crossed its download.
THEOREM ReadyIsInstalled == VSpec => []ReadyModelsAreInstalled
<1>1. VInv => ReadyModelsAreInstalled
  BY DEF VInv, Uncrossed, ReadyModelsAreInstalled, Deletes
<1> QED
  BY <1>1, DownloadInvariant, PTL
=============================================================================
