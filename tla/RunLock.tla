------------------------------ MODULE RunLock ------------------------------
(***************************************************************************)
(* The machine-wide lock file of the self-improvement loop                 *)
(* (locus_runtime/loop_runner/state.py, class RunLock), one atomic step    *)
(* per file-system call.                                                   *)
(*                                                                         *)
(* Time is kept as ages: the age of a timestamp is the time since it was   *)
(* taken, capped at Ttl, which is all that _stale looks at.                *)
(***************************************************************************)
EXTENDS Integers, FiniteSets

CONSTANTS Procs,          \* loop processes of one machine (CLI ticks, `loop serve`)
          LockTtl,        \* lock_ttl_seconds, in clock steps
          MaxLockCrashes  \* bound on the process crashes of a behaviour

ASSUME RunLockAssumption ==
    /\ IsFiniteSet(Procs)
    /\ LockTtl \in Nat \ {0}
    /\ MaxLockCrashes \in Nat

VARIABLES file,      \* loop.lock: NoFile, or who created the inode and its payload
          lockPc,    \* the next statement of each process
          tries,     \* iterations of the acquire loop completed
          payload,   \* age of the acquired_at taken before the acquire loop
          lockSeen,  \* age of the acquired_at that holder() returned
          lockCrashes

lockVars == <<file, lockPc, tries, payload, lockSeen, lockCrashes>>

Age == 0..LockTtl

\* A file that was created and not written yet; holder() reads it as {}.
Empty == LockTtl + 1

NoFile == [creator |-> "none", at |-> Empty]

\* Statements of acquire, then the tick that holds the lock.
LockPCs == {"idle", "open", "holder", "stale", "unlink", "write", "held"}

LockTypeOK ==
    /\ file \in [creator: Procs \union {"none"}, at: Age \union {Empty}]
    /\ lockPc \in [Procs -> LockPCs]
    /\ tries \in [Procs -> 0..1]
    /\ payload \in [Procs -> Age]
    /\ lockSeen \in [Procs -> Age]
    /\ lockCrashes \in 0..MaxLockCrashes

LockInit ==
    /\ file = NoFile
    /\ lockPc = [p \in Procs |-> "idle"]
    /\ tries = [p \in Procs |-> 0]
    /\ payload = [p \in Procs |-> 0]
    /\ lockSeen = [p \in Procs |-> 0]
    /\ lockCrashes = 0

LockGoto(p, label) == lockPc' = [lockPc EXCEPT ![p] = label]

\* The process leaves acquire: the locals of the call are gone.
Forget(p) ==
    /\ tries' = [tries EXCEPT ![p] = 0]
    /\ payload' = [payload EXCEPT ![p] = 0]
    /\ lockSeen' = [lockSeen EXCEPT ![p] = 0]

-----------------------------------------------------------------------------
\* run_once calls acquire: the payload is built before the loop.
LockBegin(p) ==
    /\ lockPc[p] = "idle"
    /\ LockGoto(p, "open")
    /\ Forget(p)
    /\ UNCHANGED <<file, lockCrashes>>

\* os.open with O_CREAT | O_EXCL.
Open(p) ==
    /\ lockPc[p] = "open"
    /\ IF file = NoFile
         THEN /\ file' = [creator |-> p, at |-> Empty]
              /\ LockGoto(p, "write")
         ELSE /\ LockGoto(p, "holder")
              /\ UNCHANGED file
    /\ UNCHANGED <<tries, payload, lockSeen, lockCrashes>>

\* Mutant of Holder: an unreadable lock file is taken for a live holder.
Holder_EmptyIsLive(p) ==
    /\ lockPc[p] = "holder"
    /\ IF file.at = Empty
         THEN /\ LockGoto(p, "idle")
              /\ UNCHANGED lockSeen
         ELSE /\ LockGoto(p, "stale")
              /\ lockSeen' = [lockSeen EXCEPT ![p] = file.at]
    /\ UNCHANGED <<file, tries, payload, lockCrashes>>

\* current = self.holder(): a missing or empty file reads as {}, which is falsy.
Holder(p) ==
    /\ lockPc[p] = "holder"
    /\ IF file.at = Empty
         THEN /\ LockGoto(p, "unlink")
              /\ UNCHANGED lockSeen
         ELSE /\ LockGoto(p, "stale")
              /\ lockSeen' = [lockSeen EXCEPT ![p] = file.at]
    /\ UNCHANGED <<file, tries, payload, lockCrashes>>

\* _stale(current), evaluated on the clock of this step: raise LoopBusy or go on.
Stale(p) ==
    /\ lockPc[p] = "stale"
    /\ IF lockSeen[p] >= LockTtl
         THEN /\ LockGoto(p, "unlink")
              /\ UNCHANGED <<tries, payload, lockSeen>>
         ELSE /\ LockGoto(p, "idle")
              /\ Forget(p)
    /\ UNCHANGED <<file, lockCrashes>>

\* self.path.unlink(), whatever file has the name by now; then the next iteration.
Unlink(p) ==
    /\ lockPc[p] = "unlink"
    /\ file' = NoFile
    /\ IF tries[p] = 1
         THEN /\ LockGoto(p, "idle")
              /\ Forget(p)
         ELSE /\ LockGoto(p, "open")
              /\ tries' = [tries EXCEPT ![p] = 1]
              /\ UNCHANGED <<payload, lockSeen>>
    /\ UNCHANGED lockCrashes

\* fh.write(payload) through the descriptor: the inode p created, which may no
\* longer be the one the name refers to.
Write(p) ==
    /\ lockPc[p] = "write"
    /\ file' = IF file = [creator |-> p, at |-> Empty]
                 THEN [file EXCEPT !.at = payload[p]]
                 ELSE file
    /\ LockGoto(p, "held")
    /\ Forget(p)
    /\ UNCHANGED lockCrashes

\* refresh, on every model step of the run: an unconditional os.replace.
Refresh(p) ==
    /\ lockPc[p] = "held"
    /\ file' = [creator |-> p, at |-> 0]
    /\ UNCHANGED <<lockPc, tries, payload, lockSeen, lockCrashes>>

\* release, in the finally clause of run_once: unlinks whatever has the name.
LockRelease(p) ==
    /\ lockPc[p] = "held"
    /\ file' = NoFile
    /\ LockGoto(p, "idle")
    /\ UNCHANGED <<tries, payload, lockSeen, lockCrashes>>

\* The process dies; the next `lattix loop` invocation takes its place.
LockCrash(p) ==
    /\ lockPc[p] # "idle"
    /\ lockCrashes < MaxLockCrashes
    /\ lockCrashes' = lockCrashes + 1
    /\ LockGoto(p, "idle")
    /\ Forget(p)
    /\ UNCHANGED file

\* Time passes for every timestamp that is still around.
Older(a) == IF a < LockTtl THEN a + 1 ELSE a

LockTick ==
    /\ file' = [file EXCEPT !.at = Older(@)]
    /\ payload' = [p \in Procs |-> IF lockPc[p] \in {"idle", "held"} THEN 0 ELSE Older(payload[p])]
    /\ lockSeen' = [p \in Procs |-> IF lockPc[p] = "stale" THEN Older(lockSeen[p]) ELSE lockSeen[p]]
    /\ UNCHANGED <<lockPc, tries, lockCrashes>>

LockStep(p) ==
    \/ LockBegin(p)
    \/ Open(p)
    \/ Holder(p)
    \/ Stale(p)
    \/ Unlink(p)
    \/ Write(p)
    \/ LockRelease(p)

LockNext ==
    \/ \E p \in Procs : LockStep(p) \/ Refresh(p) \/ LockCrash(p)
    \/ LockTick

\* `loop serve` polls for ever and a run ends within its budgets, so every
\* process keeps taking the steps of its ticks; time passes. Refresh and Crash
\* may or may not happen.
LockFairness ==
    /\ \A p \in Procs : WF_lockVars(LockStep(p))
    /\ WF_lockVars(LockTick)

LockSpec == LockInit /\ [][LockNext]_lockVars /\ LockFairness
-----------------------------------------------------------------------------
Holders == {p \in Procs : lockPc[p] = "held"}

\* "the machine-wide single-run lock (max concurrent = 1)": at most one process
\* is inside the tick that RunLock.acquire guards. acquire, refresh and release
\* do not guarantee it.
MutualExclusion == Cardinality(Holders) <= 1

\* "so a crashed process never wedges the loop": whatever lock files crashed
\* processes leave behind (empty, fresh or stale), the lock is acquired again.
NeverWedged == []<>(Holders # {})
=============================================================================
