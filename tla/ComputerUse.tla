---------------------------- MODULE ComputerUse ----------------------------
(***************************************************************************)
(* Computer use: the process-wide controller (mode, in-flight actions,     *)
(* panic latch) and the browser and desktop tools that share it            *)
(* (locus_runtime/computer_use).                                           *)
(*                                                                         *)
(* A thread is a run's worker; it makes one tool call at a time and owns   *)
(* its own agent browser.  A caller is a request thread that panics.  The  *)
(* controller's lock covers Begin, Latch, Reset and SetMode, one step      *)
(* each; tokens are cancelled, and listeners are called, outside it.       *)
(*                                                                         *)
(* A primitive is a key, a click, a chunk of text, an element read, a      *)
(* navigation or one poll.  What a tool perceives before it asks the       *)
(* gateway, and the gateway's own decision, are abstracted to "go on" or   *)
(* "return an error" (Fail); Gateway models the decision.                  *)
(***************************************************************************)
EXTENDS Naturals, FiniteSets

CONSTANTS Threads,        \* the runs' worker threads
          Callers,        \* threads that call panic()
          MaxActions,     \* bound: actions begun, over all threads
          MaxPanics       \* bound: calls of panic()

ASSUME BoundsAssumption == MaxActions \in Nat /\ MaxPanics \in Nat

Modes == {"observe", "assist", "takeover"}

ObserveKinds == {"ui_observe", "browser_read"}

\* ui_click, ui_type and ui_key run the same steps.
ActKinds == {"ui_input", "browser_navigate", "browser_act"}

BrowserKinds == {"browser_read", "browser_navigate", "browser_act"}

Kinds == ObserveKinds \cup ActKinds

Tokens == 1 .. MaxActions

VARIABLES
    mode, panicked,   \* the controller's _mode and _panicked
    begun,            \* actions begun so far; an action's token is its number
    panics,           \* calls of panic() so far
    tok, kind, pc,    \* per thread: its current token, the call's kind, its place
    cancelled,        \* tokens whose event is set
    open, closeReq,   \* per thread: the browser has a page; _close_requested
    call,             \* per caller: its panic() in progress
    stopped,          \* history: tokens in flight at the latch of a panic that returned
    late,             \* history: primitives each token drove after it was stopped,
                      \* counted up to 2
    shut, avoid       \* history: a panic asked to close this page; and had when
                      \* the thread's current action began

ctl == <<mode, panicked, begun, panics>>
browser == <<open, closeReq>>
history == <<stopped, late, shut, avoid>>
vars == <<ctl, tok, kind, pc, cancelled, browser, call, history>>

Places == {"idle", "flag", "unflag", "look", "mode", "gate", "pagefor", "start",
           "check", "prim", "detached"}

NoCall == [at |-> "none", found |-> {}, todo |-> {}, listeners |-> {}]

Calls == [at : {"none", "cancel", "listen"}, found : SUBSET Tokens,
          todo : SUBSET Tokens, listeners : SUBSET Threads]

Busy(t) == pc[t] \notin {"idle", "detached"}

\* The controller's _inflight: the tokens of the actions between begin and end.
Inflight == {tok[t] : t \in {u \in Threads : Busy(u)}}

Init ==
    /\ mode = "observe"
    /\ panicked = FALSE
    /\ begun = 0
    /\ panics = 0
    /\ tok = [t \in Threads |-> 0]
    /\ kind = [t \in Threads |-> "ui_observe"]
    /\ pc = [t \in Threads |-> "idle"]
    /\ cancelled = {}
    /\ open = [t \in Threads |-> FALSE]
    /\ closeReq = [t \in Threads |-> FALSE]
    /\ call = [c \in Callers |-> NoCall]
    /\ stopped = {}
    /\ late = [k \in Tokens |-> 0]
    /\ shut = [t \in Threads |-> FALSE]
    /\ avoid = [t \in Threads |-> FALSE]

(***************************************************************************)
(* Tool calls                                                              *)
(***************************************************************************)

Goto(t, place) == pc' = [pc EXCEPT ![t] = place]

\* Where a call of each kind starts: read and act look at the open page first,
\* observe goes straight to the gateway, the others ask the mode.
Entry(k) ==
    CASE k \in {"browser_read", "browser_act"} -> "flag"
      [] k = "ui_observe" -> "gate"
      [] OTHER -> "mode"

\* begin: refused while the latch is set (the call returns and nothing changes),
\* else a fresh token is registered.
Begin(t, k) ==
    /\ pc[t] = "idle"
    /\ begun < MaxActions
    /\ ~panicked
    /\ begun' = begun + 1
    /\ tok' = [tok EXCEPT ![t] = begun + 1]
    /\ kind' = [kind EXCEPT ![t] = k]
    /\ avoid' = [avoid EXCEPT ![t] = shut[t]]
    /\ Goto(t, Entry(k))
    /\ UNCHANGED <<mode, panicked, panics, cancelled, browser, call, stopped, late, shut>>

\* Mutant of Flag: a page the panic asked to close is used as it is.
Flag_Ignored(t) ==
    /\ pc[t] = "flag"
    /\ Goto(t, "look")
    /\ UNCHANGED <<ctl, tok, kind, cancelled, closeReq, call, stopped, late, open, shut, avoid>>

\* _page_for and _current_page: a close asked for since the last call is done
\* first; close() shuts the browser down and only then clears the flag.
Flag(t) ==
    /\ pc[t] = "flag"
    /\ Goto(t, IF closeReq[t] THEN "unflag" ELSE "look")
    /\ open' = [open EXCEPT ![t] = @ /\ ~closeReq[t]]
    /\ shut' = [shut EXCEPT ![t] = @ /\ ~closeReq[t]]
    /\ avoid' = [avoid EXCEPT ![t] = @ /\ ~closeReq[t]]
    /\ UNCHANGED <<ctl, tok, kind, cancelled, closeReq, call, stopped, late>>

Unflag(t) ==
    /\ pc[t] = "unflag"
    /\ closeReq' = [closeReq EXCEPT ![t] = FALSE]
    /\ Goto(t, "look")
    /\ UNCHANGED <<ctl, tok, kind, cancelled, open, call, history>>

\* The page, or none: navigate clears the flag and starts a browser, read goes
\* on to the gateway all the same, act returns an error.
Look(t) ==
    /\ pc[t] = "look"
    /\ \/ /\ kind[t] = "browser_navigate"
          /\ closeReq' = [closeReq EXCEPT ![t] = @ /\ open[t]]
          /\ Goto(t, IF open[t] THEN "check" ELSE "start")
       \/ /\ kind[t] = "browser_read"
          /\ Goto(t, "gate")
          /\ UNCHANGED closeReq
       \/ /\ kind[t] = "browser_act"
          /\ Goto(t, IF open[t] THEN "mode" ELSE "idle")
          /\ UNCHANGED closeReq
    /\ UNCHANGED <<ctl, tok, kind, cancelled, open, call, history>>

\* _start; a launch that fails is Fail.
Start(t) ==
    /\ pc[t] = "start"
    /\ open' = [open EXCEPT ![t] = TRUE]
    /\ Goto(t, "check")
    /\ UNCHANGED <<ctl, tok, kind, cancelled, closeReq, call, history>>

\* mode_refusal: the mode is read without the lock; outside takeover the call
\* returns a proposal (assist) or a refusal (observe).
ModeRefusal(t) ==
    /\ pc[t] = "mode"
    /\ Goto(t, IF mode = "takeover" THEN "gate" ELSE "idle")
    /\ UNCHANGED <<ctl, tok, kind, cancelled, browser, call, history>>

\* gate, when the gateway allows; a read with no page then returns an error.
Gate(t) ==
    /\ pc[t] = "gate"
    /\ Goto(t, CASE kind[t] = "browser_navigate" -> "pagefor"
                 [] kind[t] = "browser_read" /\ ~open[t] -> "idle"
                 [] OTHER -> "check")
    /\ UNCHANGED <<ctl, tok, kind, cancelled, browser, call, history>>

\* An error return before any primitive: unknown or ambiguous target, a blocked
\* or asked gateway decision, an element that is gone, a browser that will not
\* start.  The context manager ends the action.
Fail(t) ==
    /\ pc[t] \in {"mode", "gate", "start"}
    /\ Goto(t, "idle")
    /\ UNCHANGED <<ctl, tok, kind, cancelled, browser, call, history>>

\* CancelToken.check: raises, which ends the action, once the token is cancelled.
Check(t) ==
    /\ pc[t] \in {"pagefor", "check"}
    /\ Goto(t, IF tok[t] \in cancelled THEN "idle"
               ELSE IF pc[t] = "pagefor" THEN "flag" ELSE "prim")
    /\ UNCHANGED <<ctl, tok, kind, cancelled, browser, call, history>>

\* One primitive, then the next one behind its own check, or the end of the
\* action (the text is done, the page settled, the backend failed).
Prim(t) ==
    /\ pc[t] = "prim"
    /\ late' = [late EXCEPT ![tok[t]] =
                  IF tok[t] \in stopped /\ @ < 2 THEN @ + 1 ELSE @]
    /\ \E more \in BOOLEAN : Goto(t, IF more THEN "check" ELSE "idle")
    /\ UNCHANGED <<ctl, tok, kind, cancelled, browser, call, stopped, shut, avoid>>

\* detach at the end of the run: close() and drop the panic listener.
Detach(t) ==
    /\ pc[t] = "idle"
    /\ Goto(t, "detached")
    /\ open' = [open EXCEPT ![t] = FALSE]
    /\ closeReq' = [closeReq EXCEPT ![t] = FALSE]
    /\ shut' = [shut EXCEPT ![t] = FALSE]
    /\ UNCHANGED <<ctl, tok, kind, cancelled, call, stopped, late, avoid>>

(***************************************************************************)
(* Human control                                                           *)
(***************************************************************************)

\* Mutant of Latch: a panic that finds the latch set has nothing to cancel.
Latch_OnlyOnce(c) ==
    /\ call[c].at = "none"
    /\ panics < MaxPanics
    /\ panics' = panics + 1
    /\ panicked' = TRUE
    /\ call' = [call EXCEPT ![c] =
                  [at |-> "cancel", found |-> Inflight,
                   todo |-> IF panicked THEN {} ELSE Inflight,
                   listeners |-> {t \in Threads : pc[t] # "detached"}]]
    /\ UNCHANGED <<mode, begun, tok, kind, pc, cancelled, browser, history>>

\* panic, its locked part: set the latch (again) and copy the in-flight tokens
\* and the listeners.  The mode is left alone.
Latch(c) ==
    /\ call[c].at = "none"
    /\ panics < MaxPanics
    /\ panics' = panics + 1
    /\ panicked' = TRUE
    /\ call' = [call EXCEPT ![c] =
                  [at |-> "cancel", found |-> Inflight, todo |-> Inflight,
                   listeners |-> {t \in Threads : pc[t] # "detached"}]]
    /\ UNCHANGED <<mode, begun, tok, kind, pc, cancelled, browser, history>>

\* panic, its loop over the copied tokens, then on to the listeners.
Cancel(c) ==
    /\ call[c].at = "cancel"
    /\ \/ \E k \in call[c].todo :
             /\ cancelled' = cancelled \cup {k}
             /\ call' = [call EXCEPT ![c].todo = @ \ {k}]
       \/ /\ call[c].todo = {}
          /\ call' = [call EXCEPT ![c].at = "listen"]
          /\ UNCHANGED cancelled
    /\ UNCHANGED <<ctl, tok, kind, pc, browser, history>>

\* panic, its loop over the listeners: _on_panic only sets the browser's flag.
Listen(c) ==
    /\ call[c].at = "listen"
    /\ \E t \in call[c].listeners :
          /\ closeReq' = [closeReq EXCEPT ![t] = TRUE]
          /\ shut' = [shut EXCEPT ![t] = @ \/ open[t]]
          /\ call' = [call EXCEPT ![c].listeners = @ \ {t}]
    /\ UNCHANGED <<ctl, tok, kind, pc, cancelled, open, stopped, late, avoid>>

Return(c) ==
    /\ call[c].at = "listen"
    /\ call[c].listeners = {}
    /\ stopped' = stopped \cup call[c].found
    /\ call' = [call EXCEPT ![c] = NoCall]
    /\ UNCHANGED <<ctl, tok, kind, pc, cancelled, browser, late, shut, avoid>>

\* reset: the latch is cleared and the mode drops to observe; tokens already
\* cancelled stay cancelled.
Reset ==
    /\ panicked' = FALSE
    /\ mode' = "observe"
    /\ UNCHANGED <<begun, panics, tok, kind, pc, cancelled, browser, call, history>>

\* set_mode.
SetMode(m) ==
    /\ mode' = m
    /\ UNCHANGED <<panicked, begun, panics, tok, kind, pc, cancelled, browser, call, history>>

Step(t) ==
    \/ Flag(t) \/ Unflag(t) \/ Look(t) \/ Start(t) \/ ModeRefusal(t)
    \/ Gate(t) \/ Fail(t) \/ Check(t) \/ Prim(t)

Panic(c) == Latch(c) \/ Cancel(c) \/ Listen(c) \/ Return(c)

Next ==
    \/ \E t \in Threads : \/ \E k \in Kinds : Begin(t, k)
                          \/ Step(t)
                          \/ Detach(t)
    \/ \E c \in Callers : Panic(c)
    \/ Reset
    \/ \E m \in Modes : SetMode(m)

Spec == Init /\ [][Next]_vars

\* Fairness: a thread in a tool call and a caller in panic() keep being
\* scheduled; every primitive and every gateway call has its own timeout, and
\* the loops of panic never wait.  Nobody has to begin, panic, reset or detach.
FairSpec ==
    /\ Spec
    /\ \A t \in Threads : WF_vars(Step(t))
    /\ \A c \in Callers : WF_vars(Cancel(c) \/ Listen(c) \/ Return(c))

(***************************************************************************)
(* Properties                                                              *)
(***************************************************************************)

\* Every variable holds a value of its type, and tokens are handed out in order.
TypeOK ==
    /\ mode \in Modes
    /\ panicked \in BOOLEAN
    /\ begun \in 0 .. MaxActions
    /\ panics \in 0 .. MaxPanics
    /\ tok \in [Threads -> 0 .. begun]
    /\ kind \in [Threads -> Kinds]
    /\ pc \in [Threads -> Places]
    /\ cancelled \in SUBSET Tokens
    /\ open \in [Threads -> BOOLEAN]
    /\ closeReq \in [Threads -> BOOLEAN]
    /\ call \in [Callers -> Calls]
    /\ stopped \in SUBSET Tokens
    /\ late \in [Tokens -> 0 .. 2]
    /\ shut \in [Threads -> BOOLEAN]
    /\ avoid \in [Threads -> BOOLEAN]

\* Once panic() has returned, an action it found in flight drives at most the
\* one primitive whose check it had already passed, whatever other panics,
\* resets and mode changes run meanwhile ("tokens are flagged", panic;
\* "Call before each primitive", CancelToken.check).
PanicStopsActions == \A k \in Tokens : late[k] <= 1

\* While the latch is set, every action in flight is cancelled, or some panic()
\* still in its loop is about to cancel it: no action slips in between the copy
\* of _inflight and the latch.
LatchLeavesNoActionLive ==
    panicked => Inflight \subseteq cancelled \cup UNION {call[c].todo : c \in Callers}

\* A page that was open when a panic asked to close it is not used by any action
\* begun later: the flag is not lost between close(), the restart and the
\* next call (_on_panic: "the owning thread closes the browser on its next call").
PanickedPageNotReused ==
    \A t \in Threads : pc[t] = "prim" /\ kind[t] \in BrowserKinds => ~avoid[t]

\* An action in flight at a panic that returned comes to its end, also when a
\* human resets the latch at once: the token, not the latch, stops it.
StoppedActionEnds ==
    \A k \in Tokens : k \in stopped ~> k \notin Inflight
=============================================================================
