---------------------------- MODULE StatePersist ----------------------------
(***************************************************************************)
(* _persist_store_state (apps/backend/app/main.py) and the state stores of  *)
(* platform_services.py.  Every handler ends by writing the in-memory store *)
(* to the database: it serializes the store, section by section, keeps the  *)
(* sections whose encoding differs from _PERSIST_SECTION_CACHE, writes them *)
(* and notes them in the cache.  Nothing is locked.  Postgres commits each  *)
(* section by itself; SQLite commits them together.  Any failure is logged  *)
(* and forgotten.  A section's content is its version number.               *)
(***************************************************************************)
EXTENDS Integers, Sequences, FiniteSets

CONSTANTS
    Writers,     \* the threads that run handlers
    Sections,    \* the sections of the store, in the order of the snapshot
    MaxVersion,  \* bound: mutations of a section
    MaxTroubles  \* bound: failures and restarts

ASSUME StatePersistAssumption ==
    /\ IsFiniteSet(Writers) /\ Sections \in Seq(STRING)
    /\ MaxVersion \in Nat /\ MaxTroubles \in Nat

Secs == {Sections[i] : i \in DOMAIN Sections}
Absent == -1     \* no row in the database, no entry in the cache
Seed == 0        \* what the bootstrap puts into an empty store

VARIABLES
    pBackend,  \* "postgres" | "sqlite"
    pUp,       \* FALSE between a crash and the end of the next startup's load
    pMem,      \* store: the version of each section
    pDisk,     \* the section rows
    pCache,    \* _PERSIST_SECTION_CACHE
    pCall,     \* the _persist_store_state call of each thread
    pTroubles,
    pOverlap,  \* history: two calls ran at the same time
    pFailed,   \* history: the last call to end failed
    pForgot    \* history: a startup could not load the database

pHistory == <<pOverlap, pForgot>>
pVars == <<pBackend, pUp, pMem, pDisk, pCache, pCall, pTroubles, pOverlap, pFailed, pForgot>>

\* at: the number of sections read or written so far.
NoCall == [pc |-> "idle", at |-> 0, snap |-> [s \in Secs |-> Absent], changed |-> {}]
Busy(w) == pCall[w].pc # "idle"

PInit ==
    /\ pBackend \in {"postgres", "sqlite"}
    /\ pUp = TRUE
    /\ pMem = [s \in Secs |-> Seed]
    /\ pDisk = [s \in Secs |-> Seed]
    /\ pCache = [s \in Secs |-> Seed]
    /\ pCall = [w \in Writers |-> NoCall]
    /\ pTroubles = 0
    /\ pOverlap = FALSE /\ pFailed = FALSE /\ pForgot = FALSE

\* A handler changes some sections and calls _persist_store_state.
HandleRequest(w, touched) ==
    /\ pUp /\ ~Busy(w)
    /\ \A s \in touched : pMem[s] < MaxVersion
    /\ pMem' = [s \in Secs |-> IF s \in touched THEN pMem[s] + 1 ELSE pMem[s]]
    /\ pCall' = [pCall EXCEPT ![w] = [NoCall EXCEPT !.pc = "serialize"]]
    /\ pOverlap' = (pOverlap \/ \E v \in Writers \ {w} : Busy(v))
    /\ UNCHANGED <<pBackend, pUp, pDisk, pCache, pTroubles, pFailed, pForgot>>

SerializeSection(w) ==
    /\ pUp /\ pCall[w].pc = "serialize" /\ pCall[w].at < Len(Sections)
    /\ LET c == pCall[w]
           s == Sections[c.at + 1]
       IN  pCall' = [pCall EXCEPT ![w] = [c EXCEPT !.at = c.at + 1,
                                                   !.snap = [c.snap EXCEPT ![s] = pMem[s]]]]
    /\ UNCHANGED <<pBackend, pUp, pMem, pDisk, pCache, pTroubles, pFailed, pHistory>>

\* Mutant of CompareSections: the sections are compared with the row counts, not
\* with their encodings, so that a change in place is not seen.
CompareNothing(w) ==
    /\ pUp /\ pCall[w].pc = "serialize" /\ pCall[w].at = Len(Sections)
    /\ pCall' = [pCall EXCEPT ![w] = NoCall]
    /\ pFailed' = FALSE
    /\ UNCHANGED <<pBackend, pUp, pMem, pDisk, pCache, pTroubles, pHistory>>

CompareSections(w) ==
    /\ pUp /\ pCall[w].pc = "serialize" /\ pCall[w].at = Len(Sections)
    /\ LET changed == {s \in Secs : pCache[s] # pCall[w].snap[s]}
       IN  IF changed = {}
           THEN pCall' = [pCall EXCEPT ![w] = NoCall] /\ pFailed' = FALSE
           ELSE /\ pCall' = [pCall EXCEPT ![w] = [@ EXCEPT !.pc = "save", !.at = 0,
                                                          !.changed = changed]]
                /\ UNCHANGED pFailed
    /\ UNCHANGED <<pBackend, pUp, pMem, pDisk, pCache, pTroubles, pHistory>>

\* save_state_sections.  PostgresStateStore: one upsert per section, autocommit.  SQLiteStateStore:
\* all of them under its lock, one commit.
SaveSections(w) ==
    /\ pUp /\ pCall[w].pc = "save" /\ pCall[w].at < Len(Sections)
    /\ LET c == pCall[w]
           written == IF pBackend = "sqlite" THEN c.changed ELSE c.changed \cap {Sections[c.at + 1]}
       IN  pDisk' = [s \in Secs |-> IF s \in written THEN c.snap[s] ELSE pDisk[s]]
    /\ pCall' = [pCall EXCEPT ![w].at = IF pBackend = "sqlite" THEN Len(Sections) ELSE @ + 1]
    /\ UNCHANGED <<pBackend, pUp, pMem, pCache, pTroubles, pFailed, pHistory>>

\* _PERSIST_SECTION_CACHE.update(changed): after the store has returned.
NoteSaved(w) ==
    /\ pUp /\ pCall[w].pc = "save" /\ pCall[w].at = Len(Sections)
    /\ pCache' = [s \in Secs |-> IF s \in pCall[w].changed THEN pCall[w].snap[s] ELSE pCache[s]]
    /\ pCall' = [pCall EXCEPT ![w] = NoCall]
    /\ pFailed' = FALSE
    /\ UNCHANGED <<pBackend, pUp, pMem, pDisk, pTroubles, pHistory>>

\* The store changed size under the serializer, or the database refused.
PersistFails(w) ==
    /\ pUp /\ Busy(w) /\ pTroubles < MaxTroubles
    /\ ~(pCall[w].pc = "save" /\ pCall[w].at = Len(Sections))
    /\ pTroubles' = pTroubles + 1
    /\ pCall' = [pCall EXCEPT ![w] = NoCall]
    /\ pFailed' = TRUE
    /\ UNCHANGED <<pBackend, pUp, pMem, pDisk, pCache, pHistory>>

\* The process dies; what its threads were doing is lost.
CrashBackend ==
    /\ pUp /\ pTroubles < MaxTroubles
    /\ pTroubles' = pTroubles + 1
    /\ pUp' = FALSE
    /\ pCall' = [w \in Writers |-> NoCall]
    /\ pCache' = [s \in Secs |-> Absent]
    /\ UNCHANGED <<pBackend, pMem, pDisk, pFailed, pHistory>>

\* A load that fails is logged and the bootstrap content is served instead;
\* startup ends, in both cases, with _persist_store_state.
StartBackend(loads) ==
    /\ ~pUp
    /\ pUp' = TRUE
    /\ pMem' = [s \in Secs |-> IF loads /\ pDisk[s] # Absent THEN pDisk[s] ELSE Seed]
    /\ pForgot' = (pForgot \/ ~loads)
    /\ \E w \in Writers : pCall' = [pCall EXCEPT ![w] = [NoCall EXCEPT !.pc = "serialize"]]
    /\ UNCHANGED <<pBackend, pDisk, pCache, pTroubles, pOverlap, pFailed>>

PNext ==
    \/ \E w \in Writers :
         \/ \E touched \in SUBSET Secs : HandleRequest(w, touched)
         \/ SerializeSection(w)
         \/ CompareSections(w)
         \/ SaveSections(w)
         \/ NoteSaved(w)
         \/ PersistFails(w)
    \/ CrashBackend
    \/ \E loads \in BOOLEAN : StartBackend(loads)

PSpec == PInit /\ [][PNext]_pVars

----------------------------------------------------------------------------
Quiet == pUp /\ \A w \in Writers : ~Busy(w)

PTypeOK ==
    /\ pMem \in [Secs -> 0..MaxVersion]
    /\ pDisk \in [Secs -> 0..MaxVersion]
    /\ pCache \in [Secs -> Absent..MaxVersion]
    /\ \A w \in Writers : pCall[w].at \in 0..Len(Sections)
    /\ ~pUp => \A w \in Writers : ~Busy(w)

\* Handlers that persist one after the other leave the whole store in the
\* database, and a later success makes up for every earlier failure.
QuietStoreIsOnDisk ==
    Quiet /\ ~pOverlap /\ ~pFailed => pDisk = pMem

\* The cache never claims a section that the database does not have at least
\* as new, as long as calls do not overlap: a failed or torn write is retried.
CacheNeverAheadOfDisk ==
    ~pOverlap => \A s \in Secs : pCache[s] <= pDisk[s]

\* Without overlapping calls, and unless a startup failed to load, the database
\* never goes back to an earlier version of a section.
DiskGoesForward ==
    [][~pOverlap' /\ ~pForgot' => \A s \in Secs : pDisk'[s] >= pDisk[s]]_pVars

\* _PERSIST_SECTION_CACHE: "Last successfully written JSON encoding per store
\* section."  When nobody is writing, an entry of the cache is what the
\* database holds.
CacheIsTheLastWrite ==
    Quiet /\ pTroubles = 0 => \A s \in Secs : pCache[s] \in {Absent, pDisk[s]}
=============================================================================
