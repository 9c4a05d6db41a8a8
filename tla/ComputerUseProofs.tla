------------------------- MODULE ComputerUseProofs -------------------------
(***************************************************************************)
(* Proofs about the panic latch and the browser's page, for any number of  *)
(* worker threads, of callers of panic(), of actions and of panics.        *)
(***************************************************************************)
EXTENDS ComputerUse, TLAPS

\* What panic has promised about the tokens it found: each is cancelled or still
\* in its loop, which is over once it calls the listeners.
CallsKept ==
    \A c \in Callers :
        /\ call[c].found \subseteq cancelled \cup call[c].todo
        /\ call[c].at # "cancel" => call[c].todo = {}

\* Threads inside an action hold tokens of their own.
TokensDistinct ==
    /\ \A t \in Threads : Busy(t) => tok[t] \in Tokens
    /\ \A t, u \in Threads : Busy(t) /\ Busy(u) /\ tok[t] = tok[u] => t = u

\* A stopped token is cancelled, only stopped tokens have late primitives, and a
\* thread past its check has none yet.
LateKept ==
    /\ stopped \subseteq cancelled
    /\ \A k \in Tokens : late[k] # 0 => k \in stopped
    /\ \A t \in Threads : pc[t] = "prim" => late[tok[t]] = 0
    /\ PanicStopsActions

IInv == TypeOK /\ CallsKept /\ TokensDistinct /\ LateKept /\ LatchLeavesNoActionLive

\* The steps of a thread inside its action change no token, only where it is.
ThreadStep(t) ==
    /\ Busy(t)
    /\ \E p \in Places \ {"prim", "detached"} : pc' = [pc EXCEPT ![t] = p]
    /\ UNCHANGED <<ctl, tok, kind, cancelled, call, stopped>>

\* Every step of a tool call other than Check and Prim is a ThreadStep that
\* leaves the count of late primitives alone.
LEMMA ThreadStepForm ==
    ASSUME NEW t \in Threads, TypeOK,
           Flag(t) \/ Unflag(t) \/ Look(t) \/ Start(t) \/ ModeRefusal(t)
             \/ Gate(t) \/ Fail(t)
    PROVE  ThreadStep(t) /\ UNCHANGED late
  <1>1. CASE Flag(t)
    BY <1>1, Zenon DEF Flag, ThreadStep, Goto, Busy, Places, ctl
  <1>2. CASE Unflag(t)
    BY <1>2, Zenon DEF Unflag, ThreadStep, Goto, Busy, Places, ctl, history
  <1>3. CASE Look(t)
    BY <1>3 DEF Look, ThreadStep, Goto, Busy, Places, ctl, history
  <1>4. CASE Start(t)
    BY <1>4, Zenon DEF Start, ThreadStep, Goto, Busy, Places, ctl, history
  <1>5. CASE ModeRefusal(t)
    BY <1>5, Zenon DEF ModeRefusal, ThreadStep, Goto, Busy, Places, ctl, history
  <1>6. CASE Gate(t)
    BY <1>6, Zenon DEF Gate, ThreadStep, Goto, Busy, Places, ctl, history
  <1>7. CASE Fail(t)
    BY <1>7, Zenon DEF Fail, ThreadStep, Goto, Busy, Places, ctl, history
  <1> QED BY <1>1, <1>2, <1>3, <1>4, <1>5, <1>6, <1>7

\* The browser's and the history's flags stay Boolean through the steps that
\* write them, and the late count within its cap.
LEMMA FlagsTyped ==
    ASSUME TypeOK, [Next]_vars
    PROVE  /\ open' \in [Threads -> BOOLEAN]
           /\ closeReq' \in [Threads -> BOOLEAN]
           /\ shut' \in [Threads -> BOOLEAN]
           /\ avoid' \in [Threads -> BOOLEAN]
  <1> USE DEF TypeOK
  <1>1. ASSUME NEW t \in Threads, NEW k \in Kinds, Begin(t, k)
        PROVE  /\ UNCHANGED <<open, closeReq, shut>>
               /\ avoid' \in [Threads -> BOOLEAN]
    BY <1>1, Zenon DEF Begin, browser
  <1>2. ASSUME NEW t \in Threads, Flag(t)
        PROVE  /\ UNCHANGED closeReq
               /\ open' \in [Threads -> BOOLEAN]
               /\ shut' \in [Threads -> BOOLEAN]
               /\ avoid' \in [Threads -> BOOLEAN]
    BY <1>2, Zenon DEF Flag
  <1>3. ASSUME NEW t \in Threads, Unflag(t) \/ Look(t)
        PROVE  /\ UNCHANGED <<open, shut, avoid>>
               /\ closeReq' \in [Threads -> BOOLEAN]
    BY <1>3, Zenon DEF Unflag, Look, history
  <1>4. ASSUME NEW t \in Threads, Start(t)
        PROVE  /\ UNCHANGED <<closeReq, shut, avoid>>
               /\ open' \in [Threads -> BOOLEAN]
    BY <1>4, Zenon DEF Start, history
  <1>5. ASSUME NEW t \in Threads, ModeRefusal(t) \/ Gate(t) \/ Fail(t) \/ Check(t) \/ Prim(t)
        PROVE  UNCHANGED <<open, closeReq, shut, avoid>>
    BY <1>5, Zenon DEF ModeRefusal, Gate, Fail, Check, Prim, browser, history
  <1>6. ASSUME NEW t \in Threads, Detach(t)
        PROVE  /\ UNCHANGED avoid
               /\ open' \in [Threads -> BOOLEAN]
               /\ closeReq' \in [Threads -> BOOLEAN]
               /\ shut' \in [Threads -> BOOLEAN]
    BY <1>6, Zenon DEF Detach
  <1>7. ASSUME NEW c \in Callers, Latch(c) \/ Cancel(c) \/ Return(c)
        PROVE  UNCHANGED <<open, closeReq, shut, avoid>>
    BY <1>7, Zenon DEF Latch, Cancel, Return, browser, history
  <1>8. ASSUME NEW c \in Callers, Listen(c)
        PROVE  /\ UNCHANGED <<open, avoid>>
               /\ closeReq' \in [Threads -> BOOLEAN]
               /\ shut' \in [Threads -> BOOLEAN]
    <2>1. PICK t \in call[c].listeners :
            /\ closeReq' = [closeReq EXCEPT ![t] = TRUE]
            /\ shut' = [shut EXCEPT ![t] = @ \/ open[t]]
      BY <1>8, Zenon DEF Listen
    <2>2. shut' \in [Threads -> BOOLEAN]
      BY <2>1, Zenon
    <2> QED BY <1>8, <2>1, <2>2, Zenon DEF Listen
  <1>9. CASE Reset \/ (\E m \in Modes : SetMode(m)) \/ UNCHANGED vars
    BY <1>9, Zenon DEF Reset, SetMode, vars, browser, history
  <1> QED
    BY <1>1, <1>2, <1>3, <1>4, <1>5, <1>6, <1>7, <1>8, <1>9 DEF Next, Step, Panic

\* A ThreadStep keeps the inductive invariant: the set of tokens in flight can
\* only shrink, and the thread does not pass a check.
LEMMA ThreadStepKeeps ==
    ASSUME NEW t \in Threads, IInv, ThreadStep(t), UNCHANGED late
    PROVE  CallsKept' /\ TokensDistinct' /\ LateKept' /\ LatchLeavesNoActionLive'
  <1> USE DEF IInv, TypeOK
  <1>1. PICK p \in Places \ {"prim", "detached"} : pc' = [pc EXCEPT ![t] = p]
    BY Zenon DEF ThreadStep
  <1>2. UNCHANGED <<mode, panicked, begun, panics, tok, cancelled, call, stopped>>
    BY DEF ThreadStep, ctl
  <1>3. \A u \in Threads : Busy(u)' => Busy(u)
    BY <1>1 DEF Busy, ThreadStep
  <1>4. CallsKept'
    BY <1>2 DEF CallsKept
  <1>5. TokensDistinct'
    BY <1>2, <1>3 DEF TokensDistinct, Tokens
  <1>6. LateKept'
    <2>1. \A u \in Threads : pc'[u] = "prim" => pc[u] = "prim"
      BY <1>1
    <2> QED BY <2>1, <1>2 DEF LateKept, PanicStopsActions, Tokens
  <1>7. LatchLeavesNoActionLive'
    BY <1>2, <1>3 DEF LatchLeavesNoActionLive, Inflight
  <1> QED BY <1>4, <1>5, <1>6, <1>7

\* Each field panic()'s loops write keeps the record of the call well typed.
LEMMA CallFields ==
    ASSUME NEW r \in Calls, NEW S
    PROVE  /\ S \in SUBSET Tokens => [r EXCEPT !.todo = S] \in Calls
           /\ S \in SUBSET Threads => [r EXCEPT !.listeners = S] \in Calls
           /\ [r EXCEPT !.at = "listen"] \in Calls
  BY DEF Calls

\* The types hold initially and every step keeps them.
LEMMA TypeStep ==
    ASSUME IInv, [Next]_vars
    PROVE  TypeOK'
  <1> USE BoundsAssumption DEF IInv, TypeOK
  <1>0. /\ open' \in [Threads -> BOOLEAN] /\ closeReq' \in [Threads -> BOOLEAN]
        /\ shut' \in [Threads -> BOOLEAN] /\ avoid' \in [Threads -> BOOLEAN]
    BY FlagsTyped
  <1>1. ASSUME NEW t \in Threads, NEW k \in Kinds, Begin(t, k)
        PROVE  TypeOK'
    <2>1. tok' \in [Threads -> 0 .. begun'] /\ begun' \in 0 .. MaxActions
      BY <1>1 DEF Begin
    <2>2. pc' \in [Threads -> Places]
      <3>1. Entry(k) \in Places
        BY DEF Entry, Places
      <3> QED BY <3>1, <1>1 DEF Begin, Goto
    <2> QED BY <1>0, <1>1, <2>1, <2>2 DEF Begin
  <1>2. ASSUME NEW t \in Threads,
               Flag(t) \/ Unflag(t) \/ Look(t) \/ Start(t) \/ ModeRefusal(t)
                 \/ Gate(t) \/ Fail(t)
        PROVE  TypeOK'
    <2>1. ThreadStep(t) /\ UNCHANGED late
      BY <1>2, ThreadStepForm
    <2> QED BY <1>0, <2>1 DEF ThreadStep, ctl
  <1>3. ASSUME NEW t \in Threads, Check(t)
        PROVE  TypeOK'
    BY <1>0, <1>3 DEF Check, Goto, Places, ctl, history
  <1>4. ASSUME NEW t \in Threads, Prim(t)
        PROVE  TypeOK'
    <2>1. late' \in [Tokens -> 0 .. 2]
      <3>1. tok[t] \in Tokens
        BY <1>4 DEF Prim, TokensDistinct, Busy
      <3>2. late[tok[t]] \in 0 .. 2
        BY <3>1
      <3> QED BY <1>4, <3>1, <3>2 DEF Prim
    <2>2. pc' \in [Threads -> Places]
      BY <1>4 DEF Prim, Goto, Places
    <2> QED BY <1>0, <1>4, <2>1, <2>2 DEF Prim, ctl
  <1>5. ASSUME NEW t \in Threads, Detach(t)
        PROVE  TypeOK'
    BY <1>0, <1>5 DEF Detach, Goto, Places, ctl
  <1>6. ASSUME NEW c \in Callers, Latch(c)
        PROVE  TypeOK'
    <2>1. Inflight \in SUBSET Tokens
      BY DEF Inflight, TokensDistinct
    <2>2. call' \in [Callers -> Calls]
      BY <2>1, <1>6 DEF Latch, Calls
    <2> QED BY <1>0, <1>6, <2>2 DEF Latch, history
  <1>7. ASSUME NEW c \in Callers, Cancel(c)
        PROVE  TypeOK'
    <2>1. cancelled' \in SUBSET Tokens
      BY <1>7 DEF Cancel, Calls
    <2>2. call' \in [Callers -> Calls]
      <3> call[c] \in Calls
        OBVIOUS
      <3>1. call[c].todo \in SUBSET Tokens
        BY DEF Calls
      <3>2. ASSUME NEW k \in call[c].todo, call' = [call EXCEPT ![c].todo = @ \ {k}]
            PROVE  call' \in [Callers -> Calls]
        <4>1. [call[c] EXCEPT !.todo = @ \ {k}] \in Calls
          BY <3>1, CallFields, Zenon
        <4> QED BY <3>2, <4>1
      <3>3. ASSUME call' = [call EXCEPT ![c].at = "listen"]
            PROVE  call' \in [Callers -> Calls]
        <4>1. [call[c] EXCEPT !.at = "listen"] \in Calls
          BY CallFields, Zenon
        <4> QED BY <3>3, <4>1
      <3> QED BY <1>7, <3>2, <3>3, Zenon DEF Cancel
    <2> QED BY <1>0, <1>7, <2>1, <2>2 DEF Cancel, ctl, history
  <1>8. ASSUME NEW c \in Callers, Listen(c)
        PROVE  TypeOK'
    <2>1. call' \in [Callers -> Calls]
      <3> call[c] \in Calls
        OBVIOUS
      <3>1. PICK t \in call[c].listeners : call' = [call EXCEPT ![c].listeners = @ \ {t}]
        BY <1>8, Zenon DEF Listen
      <3>2. call[c].listeners \in SUBSET Threads
        BY DEF Calls
      <3>3. [call[c] EXCEPT !.listeners = @ \ {t}] \in Calls
        BY <3>2, CallFields, Zenon
      <3> QED BY <3>1, <3>3
    <2> QED BY <1>0, <1>8, <2>1 DEF Listen, ctl
  <1>9. ASSUME NEW c \in Callers, Return(c)
        PROVE  TypeOK'
    <2>1. call' \in [Callers -> Calls] /\ stopped' \in SUBSET Tokens
      BY <1>9 DEF Return, Calls, NoCall
    <2> QED BY <1>0, <1>9, <2>1 DEF Return, ctl
  <1>10. CASE Reset \/ \E m \in Modes : SetMode(m)
    BY <1>0, <1>10, Zenon DEF Reset, SetMode, history, Modes
  <1>11. CASE UNCHANGED vars
    BY <1>11 DEF vars, ctl, browser, history
  <1> QED
    BY <1>1, <1>2, <1>3, <1>4, <1>5, <1>6, <1>7, <1>8, <1>9, <1>10, <1>11
       DEF Next, Step, Panic

\* The steps of threads other than ThreadSteps keep the other conjuncts.
LEMMA ThreadKeeps ==
    ASSUME IInv, TypeOK', NEW t \in Threads,
           (\E k \in Kinds : Begin(t, k)) \/ Check(t) \/ Prim(t) \/ Detach(t)
    PROVE  CallsKept' /\ TokensDistinct' /\ LateKept' /\ LatchLeavesNoActionLive'
  <1> USE DEF IInv, TypeOK
  <1>1. ASSUME NEW k \in Kinds, Begin(t, k)
        PROVE  CallsKept' /\ TokensDistinct' /\ LateKept' /\ LatchLeavesNoActionLive'
    <2>1. /\ begun' = begun + 1 /\ begun + 1 \in Tokens
          /\ tok' = [tok EXCEPT ![t] = begun + 1]
          /\ pc' = [pc EXCEPT ![t] = Entry(k)]
          /\ UNCHANGED <<panicked, cancelled, call, stopped, late>>
          /\ ~panicked
      BY <1>1, BoundsAssumption DEF Begin, Goto, Tokens
    <2>2. Entry(k) # "prim"
      BY DEF Entry
    <2>3. CallsKept' /\ LatchLeavesNoActionLive'
      BY <2>1 DEF CallsKept, LatchLeavesNoActionLive
    <2>4. \A u \in Threads : tok[u] # begun + 1
      OBVIOUS
    <2>5. TokensDistinct'
      BY <2>1, <2>4 DEF TokensDistinct, Busy, Tokens
    <2>6. LateKept'
      BY <2>1, <2>2 DEF LateKept, PanicStopsActions, Tokens
    <2> QED BY <2>3, <2>5, <2>6
  <1>2. CASE Check(t)
    <2>1. PICK p \in {"idle", "flag", "prim"} :
            /\ pc' = [pc EXCEPT ![t] = p]
            /\ p = "prim" => tok[t] \notin cancelled
      BY <1>2, Zenon DEF Check, Goto
    <2>2. Busy(t) /\ UNCHANGED <<panicked, tok, cancelled, call, stopped, late>>
      BY <1>2 DEF Check, Busy, ctl, history
    <2>3. \A u \in Threads : Busy(u)' => Busy(u)
      BY <2>1, <2>2 DEF Busy
    <2>4. CallsKept' /\ TokensDistinct' /\ LatchLeavesNoActionLive'
      <3>1. CallsKept'
        BY <2>2, <2>3 DEF CallsKept
      <3>2. TokensDistinct'
        BY <2>2, <2>3 DEF TokensDistinct, Tokens
      <3>3. LatchLeavesNoActionLive'
        BY <2>2, <2>3 DEF LatchLeavesNoActionLive, Inflight
      <3> QED BY <3>1, <3>2, <3>3
    <2>5. tok[t] \in Tokens
      BY <2>2 DEF TokensDistinct
    <2>6. LateKept'
      BY <2>1, <2>2, <2>5 DEF LateKept, PanicStopsActions, Tokens
    <2> QED BY <2>4, <2>6
  <1>3. CASE Prim(t)
    <2>1. PICK p \in {"idle", "check"} : pc' = [pc EXCEPT ![t] = p]
      BY <1>3, Zenon DEF Prim, Goto
    <2>2. /\ pc[t] = "prim" /\ Busy(t)
          /\ UNCHANGED <<panicked, tok, cancelled, call, stopped>>
          /\ late' = [late EXCEPT ![tok[t]] =
                        IF tok[t] \in stopped /\ @ < 2 THEN @ + 1 ELSE @]
      BY <1>3 DEF Prim, Busy, ctl
    <2>3. \A u \in Threads : Busy(u)' => Busy(u)
      BY <2>1, <2>2 DEF Busy
    <2>4. CallsKept' /\ TokensDistinct' /\ LatchLeavesNoActionLive'
      <3>1. CallsKept'
        BY <2>2, <2>3 DEF CallsKept
      <3>2. TokensDistinct'
        BY <2>2, <2>3 DEF TokensDistinct, Tokens
      <3>3. LatchLeavesNoActionLive'
        BY <2>2, <2>3 DEF LatchLeavesNoActionLive, Inflight
      <3> QED BY <3>1, <3>2, <3>3
    <2>5. tok[t] \in Tokens /\ late[tok[t]] = 0
      BY <2>2 DEF TokensDistinct, LateKept
    <2>6. /\ \A k \in Tokens : k # tok[t] => late'[k] = late[k]
          /\ late'[tok[t]] = IF tok[t] \in stopped THEN 1 ELSE 0
      BY <2>2, <2>5
    <2>7. \A u \in Threads : pc'[u] = "prim" =>
             pc[u] = "prim" /\ tok[u] # tok[t] /\ tok[u] \in Tokens
      BY <2>1, <2>2 DEF TokensDistinct, Busy
    <2>8. LateKept'
      BY <2>2, <2>5, <2>6, <2>7 DEF LateKept, PanicStopsActions, Tokens
    <2> QED BY <2>4, <2>8
  <1>4. CASE Detach(t)
    <2>1. /\ pc[t] = "idle" /\ pc' = [pc EXCEPT ![t] = "detached"]
          /\ UNCHANGED <<panicked, tok, cancelled, call, stopped, late>>
      BY <1>4 DEF Detach, Goto, ctl
    <2>2. \A u \in Threads : Busy(u)' <=> Busy(u)
      BY <2>1 DEF Busy
    <2>3. CallsKept' /\ TokensDistinct' /\ LatchLeavesNoActionLive'
      <3>1. CallsKept'
        BY <2>1, <2>2 DEF CallsKept
      <3>2. TokensDistinct'
        BY <2>1, <2>2 DEF TokensDistinct, Tokens
      <3>3. LatchLeavesNoActionLive'
        BY <2>1, <2>2 DEF LatchLeavesNoActionLive, Inflight
      <3> QED BY <3>1, <3>2, <3>3
    <2>4. LateKept'
      BY <2>1 DEF LateKept, PanicStopsActions, Tokens
    <2> QED BY <2>3, <2>4
  <1> QED BY <1>1, <1>2, <1>3, <1>4

\* The steps of panic(), reset and set_mode keep the other conjuncts.
LEMMA ControlKeeps ==
    ASSUME IInv,
           (\E c \in Callers : Panic(c)) \/ Reset \/ (\E m \in Modes : SetMode(m))
    PROVE  CallsKept' /\ TokensDistinct' /\ LateKept' /\ LatchLeavesNoActionLive'
  <1> USE DEF IInv, TypeOK
  <1>0. UNCHANGED <<tok, pc, late>>
    BY DEF Panic, Latch, Cancel, Listen, Return, Reset, SetMode, history
  <1>1. TokensDistinct' /\ Inflight' = Inflight
    <2>1. \A t \in Threads : Busy(t)' <=> Busy(t)
      BY <1>0 DEF Busy
    <2>2. TokensDistinct'
      BY <1>0, <2>1 DEF TokensDistinct, Tokens
    <2>3. Inflight' = Inflight
      BY <1>0 DEF Inflight, Busy
    <2> QED BY <2>2, <2>3
  <1>2. ASSUME NEW c \in Callers, Latch(c)
        PROVE  CallsKept' /\ LateKept' /\ LatchLeavesNoActionLive'
    <2>1. /\ UNCHANGED <<cancelled, stopped>>
          /\ \A d \in Callers : d # c => call'[d] = call[d]
          /\ call'[c].found = Inflight /\ call'[c].todo = Inflight
          /\ call'[c].at = "cancel"
      BY <1>2 DEF Latch, history
    <2>2. CallsKept'
      BY <2>1 DEF CallsKept
    <2>3. LateKept'
      BY <1>0, <2>1 DEF LateKept, PanicStopsActions, Tokens
    <2>4. LatchLeavesNoActionLive'
      BY <1>1, <2>1 DEF LatchLeavesNoActionLive
    <2> QED BY <2>2, <2>3, <2>4
  <1>3. ASSUME NEW c \in Callers, Cancel(c)
        PROVE  CallsKept' /\ LateKept' /\ LatchLeavesNoActionLive'
    <2>1. /\ UNCHANGED <<panicked, stopped>>
          /\ cancelled \subseteq cancelled'
          /\ \A d \in Callers : d # c => call'[d] = call[d]
          /\ call'[c].found = call[c].found
          /\ call[c].todo \subseteq cancelled' \cup call'[c].todo
          /\ call'[c].at # "cancel" => call'[c].todo = {}
      BY <1>3 DEF Cancel, ctl, history, Calls
    <2>2. CallsKept'
      BY <2>1 DEF CallsKept
    <2>3. LateKept'
      BY <1>0, <2>1, Zenon DEF LateKept, PanicStopsActions, Tokens
    <2>4. LatchLeavesNoActionLive'
      <3> SUFFICES ASSUME panicked', NEW k \in Inflight, k \notin cancelled'
                   PROVE  \E d \in Callers : k \in call'[d].todo
        BY <1>1 DEF LatchLeavesNoActionLive
      <3>1. panicked /\ k \notin cancelled
        BY <2>1
      <3>2. k \in UNION {call[d].todo : d \in Callers}
        BY <3>1 DEF LatchLeavesNoActionLive
      <3>3. PICK d \in Callers : k \in call[d].todo
        BY <3>2
      <3> QED BY <2>1, <3>3
    <2> QED BY <2>2, <2>3, <2>4
  <1>4. ASSUME NEW c \in Callers, Listen(c)
        PROVE  CallsKept' /\ LateKept' /\ LatchLeavesNoActionLive'
    <2>1. /\ UNCHANGED <<panicked, cancelled, stopped>>
          /\ \A d \in Callers : /\ call'[d].found = call[d].found
                                 /\ call'[d].todo = call[d].todo
                                 /\ call'[d].at = call[d].at
      BY <1>4 DEF Listen, ctl, Calls
    <2>2. CallsKept'
      BY <2>1 DEF CallsKept
    <2>3. LateKept'
      BY <1>0, <2>1, Zenon DEF LateKept, PanicStopsActions, Tokens
    <2>4. LatchLeavesNoActionLive'
      <3>1. {call'[d].todo : d \in Callers} = {call[d].todo : d \in Callers}
        BY <2>1
      <3> QED BY <1>1, <2>1, <3>1 DEF LatchLeavesNoActionLive
    <2> QED BY <2>2, <2>3, <2>4
  <1>5. ASSUME NEW c \in Callers, Return(c)
        PROVE  CallsKept' /\ LateKept' /\ LatchLeavesNoActionLive'
    <2>1. /\ UNCHANGED <<panicked, cancelled>>
          /\ stopped' = stopped \cup call[c].found
          /\ call[c].at = "listen"
          /\ \A d \in Callers : d # c => call'[d] = call[d]
          /\ call'[c].found = {} /\ call'[c].todo = {}
      BY <1>5 DEF Return, ctl, NoCall
    <2>2. call[c].todo = {} /\ call[c].found \subseteq cancelled
      BY <2>1 DEF CallsKept
    <2>3. CallsKept'
      BY <2>1 DEF CallsKept
    <2>4. LateKept'
      BY <1>0, <2>1, <2>2, Zenon DEF LateKept, PanicStopsActions, Tokens
    <2>5. LatchLeavesNoActionLive'
      <3> SUFFICES ASSUME panicked', NEW k \in Inflight, k \notin cancelled'
                   PROVE  \E d \in Callers : k \in call'[d].todo
        BY <1>1 DEF LatchLeavesNoActionLive
      <3>1. PICK d \in Callers : k \in call[d].todo
        BY <2>1 DEF LatchLeavesNoActionLive
      <3> QED BY <2>1, <2>2, <3>1
    <2> QED BY <2>3, <2>4, <2>5
  <1>6. CASE Reset \/ \E m \in Modes : SetMode(m)
    <2>1. /\ UNCHANGED <<cancelled, call, stopped>>
          /\ panicked' => panicked
      BY <1>6 DEF Reset, SetMode, history
    <2>2. CallsKept'
      BY <2>1 DEF CallsKept
    <2>3. LateKept'
      BY <1>0, <2>1 DEF LateKept, PanicStopsActions, Tokens
    <2>4. LatchLeavesNoActionLive'
      BY <1>1, <2>1 DEF LatchLeavesNoActionLive
    <2> QED BY <1>1, <2>2, <2>3, <2>4
  <1> QED BY <1>1, <1>2, <1>3, <1>4, <1>5, <1>6 DEF Panic

\* IInv is an invariant of the controller, the tools and their callers.
THEOREM Invariance == Spec => []IInv
  <1>1. Init => IInv
    <2> SUFFICES ASSUME Init PROVE IInv
      OBVIOUS
    <2>1. TypeOK
      <3>1. NoCall \in Calls
        BY DEF NoCall, Calls
      <3>2. /\ open \in [Threads -> BOOLEAN] /\ closeReq \in [Threads -> BOOLEAN]
            /\ shut \in [Threads -> BOOLEAN] /\ avoid \in [Threads -> BOOLEAN]
            /\ panicked \in BOOLEAN
        BY Zenon DEF Init
      <3>3. /\ begun \in 0 .. MaxActions /\ panics \in 0 .. MaxPanics
            /\ tok \in [Threads -> 0 .. begun] /\ late \in [Tokens -> 0 .. 2]
        BY BoundsAssumption DEF Init
      <3>4. kind \in [Threads -> Kinds] /\ pc \in [Threads -> Places] /\ mode \in Modes
        BY DEF Init, Kinds, ObserveKinds, Places, Modes
      <3>5. /\ call \in [Callers -> Calls]
            /\ cancelled \in SUBSET Tokens /\ stopped \in SUBSET Tokens
        BY <3>1 DEF Init
      <3> QED BY <3>2, <3>3, <3>4, <3>5 DEF TypeOK
    <2>2. \A t \in Threads : ~Busy(t)
      BY DEF Init, Busy
    <2>3. CallsKept /\ TokensDistinct
      BY <2>2 DEF Init, CallsKept, TokensDistinct, NoCall
    <2>4. LateKept
      BY DEF Init, LateKept, PanicStopsActions
    <2>5. LatchLeavesNoActionLive
      BY DEF Init, LatchLeavesNoActionLive
    <2> QED BY <2>1, <2>3, <2>4, <2>5 DEF IInv
  <1>2. IInv /\ [Next]_vars => IInv'
    <2> SUFFICES ASSUME IInv, [Next]_vars PROVE IInv'
      OBVIOUS
    <2>1. TypeOK'
      BY TypeStep
    <2>2. CASE \E t \in Threads : (\E k \in Kinds : Begin(t, k)) \/ Check(t)
                                    \/ Prim(t) \/ Detach(t)
      BY <2>1, <2>2, ThreadKeeps DEF IInv
    <2>3. CASE \E t \in Threads :
                  Flag(t) \/ Unflag(t) \/ Look(t) \/ Start(t) \/ ModeRefusal(t)
                    \/ Gate(t) \/ Fail(t)
      <3>1. TypeOK
        BY DEF IInv
      <3> QED BY <2>1, <2>3, <3>1, ThreadStepForm, ThreadStepKeeps DEF IInv
    <2>4. CASE (\E c \in Callers : Panic(c)) \/ Reset \/ \E m \in Modes : SetMode(m)
      BY <2>1, <2>4, ControlKeeps DEF IInv
    <2>5. CASE UNCHANGED vars
      <3>1. UNCHANGED <<panicked, tok, pc, cancelled, call, stopped, late>>
        BY <2>5 DEF vars, ctl, history
      <3>2. CallsKept' /\ TokensDistinct' /\ LateKept'
        BY <3>1 DEF IInv, CallsKept, TokensDistinct, LateKept, Busy, PanicStopsActions
      <3>3. LatchLeavesNoActionLive'
        BY <3>1 DEF IInv, LatchLeavesNoActionLive, Inflight, Busy
      <3> QED BY <2>1, <3>2, <3>3 DEF IInv
    <2> QED BY <2>2, <2>3, <2>4, <2>5 DEF Next, Step
  <1> QED BY <1>1, <1>2, PTL DEF Spec

\* After panic() returned, an action it found in flight drives at most the one
\* primitive past its check, for any number of threads, panics and resets.
THEOREM PanicStops == Spec => []PanicStopsActions
  <1>1. IInv => PanicStopsActions
    BY DEF IInv, LateKept
  <1> QED BY <1>1, Invariance, PTL

\* No action is live behind the latch: each one in flight is cancelled or in the
\* loop of a panic() that will cancel it.
THEOREM LatchHolds == Spec => []LatchLeavesNoActionLive
  <1>1. IInv => LatchLeavesNoActionLive
    BY DEF IInv
  <1> QED BY <1>1, Invariance, PTL

-----------------------------------------------------------------------------
(* The browser's page.                                                     *)

\* A page a panic asked to close is flagged until it is closed, close() runs
\* without a page, and an action that may not use the page has not got past
\* the place where it is closed.
PageKept(t) ==
    /\ shut[t] => closeReq[t] /\ open[t]
    /\ pc[t] = "unflag" => ~open[t]
    /\ avoid[t] /\ Busy(t) /\ kind[t] \in BrowserKinds =>
         /\ shut[t]
         /\ pc[t] \in {"flag", "mode", "gate", "pagefor"}
         /\ pc[t] \in {"mode", "gate"} => kind[t] = "browser_navigate"
PageInv == \A t \in Threads : PageKept(t)

\* A step of another thread leaves a thread's page alone.
LEMMA OthersPages ==
    ASSUME TypeOK, NEW t \in Threads, NEW u \in Threads \ {t}, PageKept(u),
           Step(t) \/ Detach(t) \/ \E k \in Kinds : Begin(t, k)
    PROVE  PageKept(u)'
  <1>1. /\ pc'[u] = pc[u] /\ kind'[u] = kind[u] /\ open'[u] = open[u]
        /\ closeReq'[u] = closeReq[u] /\ shut'[u] = shut[u] /\ avoid'[u] = avoid[u]
    <2>1. CASE Detach(t) \/ \E k \in Kinds : Begin(t, k)
      BY <2>1 DEF TypeOK, Detach, Begin, Goto, browser
    <2>2. CASE Flag(t) \/ Unflag(t) \/ Look(t) \/ Start(t)
      BY <2>2 DEF TypeOK, Flag, Unflag, Look, Start, Goto, history
    <2>3. CASE ModeRefusal(t) \/ Gate(t) \/ Fail(t) \/ Check(t) \/ Prim(t)
      BY <2>3 DEF TypeOK, ModeRefusal, Gate, Fail, Check, Prim, Goto, browser, history
    <2> QED BY <2>1, <2>2, <2>3 DEF Step
  <1> QED BY <1>1 DEF PageKept, Busy

\* A thread keeps its own page in order: the flag a panic set is cleared only
\* once the page is gone, and an action reaches the page only past the flag.
LEMMA OwnPage ==
    ASSUME TypeOK, NEW t \in Threads, PageKept(t),
           Step(t) \/ Detach(t) \/ \E k \in Kinds : Begin(t, k)
    PROVE  PageKept(t)'
  <1> USE DEF TypeOK, Goto
  <1>1. ASSUME NEW k \in Kinds, Begin(t, k) PROVE PageKept(t)'
    <2>1. /\ pc'[t] = Entry(k) /\ kind'[t] = k /\ avoid'[t] = shut[t]
          /\ shut'[t] = shut[t] /\ open'[t] = open[t] /\ closeReq'[t] = closeReq[t]
      BY <1>1 DEF Begin, browser
    <2>2. k \in BrowserKinds => \/ Entry(k) = "flag"
                                \/ Entry(k) = "mode" /\ k = "browser_navigate"
      BY DEF BrowserKinds, Entry
    <2>3. Entry(k) # "unflag"
      BY DEF Entry
    <2> QED BY <2>1, <2>2, <2>3 DEF PageKept
  <1>2. CASE Detach(t)
    BY <1>2 DEF Detach, PageKept, Busy
  <1>3. CASE Flag(t)
    <2>1. CASE closeReq[t]
      BY <1>3, <2>1, Zenon DEF Flag, PageKept
    <2>2. CASE ~closeReq[t]
      BY <1>3, <2>2 DEF Flag, PageKept, Busy
    <2> QED BY <2>1, <2>2
  <1>4. CASE Unflag(t)
    BY <1>4 DEF Unflag, PageKept, Busy, history
  <1>5. CASE Look(t)
    BY <1>5 DEF Look, PageKept, Busy, BrowserKinds, history
  <1>6. CASE Start(t)
    BY <1>6 DEF Start, PageKept, Busy, history
  <1>7. CASE ModeRefusal(t)
    BY <1>7 DEF ModeRefusal, PageKept, Busy, browser, history
  <1>8. CASE Gate(t)
    BY <1>8 DEF Gate, PageKept, Busy, browser, history
  <1>9. CASE Fail(t)
    BY <1>9 DEF Fail, PageKept, Busy, browser, history
  <1>10. CASE Check(t)
    BY <1>10 DEF Check, PageKept, Busy, browser, history
  <1>11. CASE Prim(t)
    BY <1>11 DEF Prim, PageKept, Busy, browser
  <1> QED
    BY <1>1, <1>2, <1>3, <1>4, <1>5, <1>6, <1>7, <1>8, <1>9, <1>10, <1>11 DEF Step

\* panic() only raises the flag of a page; reset and set_mode leave it alone.
LEMMA PanicsAndPages ==
    ASSUME TypeOK, NEW u \in Threads, PageKept(u),
           (\E c \in Callers : Panic(c)) \/ Reset \/ (\E m \in Modes : SetMode(m)) \/ UNCHANGED vars
    PROVE  PageKept(u)'
  <1>1. ASSUME NEW c \in Callers, Listen(c) PROVE PageKept(u)'
    <2>1. PICK t \in call[c].listeners :
            /\ closeReq' = [closeReq EXCEPT ![t] = TRUE]
            /\ shut' = [shut EXCEPT ![t] = @ \/ open[t]]
      BY <1>1, Zenon DEF Listen
    <2>2. UNCHANGED <<pc, kind, open, avoid>>
      BY <1>1 DEF Listen
    <2>3. CASE t = u
      <3>1. closeReq'[u] /\ (shut'[u] <=> shut[u] \/ open[u])
        BY <2>1, <2>3, Zenon DEF TypeOK
      <3> QED BY <2>2, <3>1 DEF PageKept, Busy
    <2>4. CASE t # u
      <3>1. closeReq'[u] = closeReq[u] /\ shut'[u] = shut[u]
        BY <2>1, <2>4, Zenon DEF TypeOK
      <3> QED BY <2>2, <3>1 DEF PageKept, Busy
    <2> QED BY <2>3, <2>4
  <1>2. CASE UNCHANGED <<pc, kind, open, closeReq, shut, avoid>>
    BY <1>2 DEF PageKept, Busy
  <1> QED
    BY <1>1, <1>2
       DEF Panic, Latch, Cancel, Return, Reset, SetMode, vars, browser, history

\* No action begun after a panic asked to close a page drives that page, for any
\* number of threads, callers, actions and panics.
THEOREM PanickedPagesAreGone == Spec => []PanickedPageNotReused
  <1>1. Init => PageInv
    BY DEF Init, PageInv, PageKept, Busy
  <1>2. IInv /\ PageInv /\ [Next]_vars => PageInv'
    <2> SUFFICES ASSUME IInv, PageInv, [Next]_vars, NEW u \in Threads PROVE PageKept(u)'
      BY DEF PageInv
    <2>1. TypeOK /\ PageKept(u)
      BY DEF IInv, PageInv
    <2>2. ASSUME NEW t \in Threads, Step(t) \/ Detach(t) \/ \E k \in Kinds : Begin(t, k)
          PROVE  PageKept(u)'
      <3>1. CASE t = u
        BY <2>1, <2>2, <3>1, OwnPage
      <3>2. CASE t # u
        BY <2>1, <2>2, <3>2, OthersPages
      <3> QED BY <3>1, <3>2
    <2> QED BY <2>1, <2>2, PanicsAndPages DEF Next
  <1>3. IInv /\ PageInv => PanickedPageNotReused
    BY DEF PageInv, PageKept, PanickedPageNotReused, Busy
  <1> QED BY <1>1, <1>2, <1>3, Invariance, PTL DEF Spec
=============================================================================
