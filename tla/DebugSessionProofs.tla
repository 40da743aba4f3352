------------------------- MODULE DebugSessionProofs -------------------------
(***************************************************************************)
(* Proofs about internal/debug's Session for any number of callers,        *)
(* watchers and commands and any event buffer.                             *)
(***************************************************************************)
EXTENDS DebugSession, FiniteSetTheorems, TLAPS

(***************************************************************************)
(* The inductive invariant.  CommandInv says where a command may be out:   *)
(* only under RUNNING or, when it was overtaken, under a terminal state,   *)
(* so the states that accept a command have none.  EndInv says that a      *)
(* closed runtime was asked for, so no command is accepted on it.          *)
(***************************************************************************)
CommandInv ==
  /\ \A a, b \in commands : a = b
  /\ commands # {} => state \in {"running"} \cup Terminal
  /\ state = "running" => commands # {}

\* controlMu is held by the one caller that inspects, and keeps commands out.
InspectInv ==
  \A c \in Callers :
    /\ caller[c] = "inspecting" <=> control = c
    /\ caller[c] = "inspecting" => commands = {} /\ state \in {"stopped", "terminated"}

\* Termination comes before whatever closes the runtime.
EndInv ==
  /\ terminator # "none" => terminating
  /\ runtime = "closed" => terminating \/ state \in Terminal
  /\ worker \in {"watchers", "complete", "done"} => state \in Terminal

\* What a subscription buffers follows what it received.
Consecutive(w) == \A i \in 1..Len(w.buf) : w.buf[i] = w.got + i

\* An open subscription has been sent everything; one that ended without lag, too.
Sound(w) ==
  /\ Consecutive(w)
  /\ w.status = "none" => w.buf = <<>> /\ w.lagged = FALSE
  /\ w.status = "open" => state \notin Terminal /\ w.lagged = FALSE /\ w.got + Len(w.buf) = sequence
  /\ w.status = "closed" /\ w.lagged = FALSE => state \in Terminal /\ w.got + Len(w.buf) = sequence

\* The part of the invariant that publishLocked is responsible for.
EventsInv ==
  /\ state \in {"created", "running", "stopped"} \cup Terminal
  /\ reason \in {"none", "stop", "error"}
  /\ failure \in BOOLEAN
  /\ sequence \in Nat \ {0}
  /\ terminalDone \in BOOLEAN /\ panicked \in BOOLEAN
  /\ watch \in [Watchers -> Watch]
  /\ TerminalOnce
  /\ \A w \in Watchers : Sound(watch[w])

IndInv ==
  /\ TypeOK
  /\ EventsInv
  /\ CommandInv
  /\ InspectInv
  /\ EndInv
-----------------------------------------------------------------------------
\* A new Session has published CREATED and nobody watches or controls it.
LEMMA InitInd == Init => IndInv
  <1> SUFFICES ASSUME Init PROVE IndInv
    OBVIOUS
  <1> DEFINE n == [status |-> "none", got |-> 0, buf |-> <<>>, lagged |-> FALSE]
  <1>1. n \in Watch /\ n.buf = <<>> /\ n.status = "none" /\ n.lagged = FALSE /\ Sound(n)
    BY DEF Watch, Sound, Consecutive
  <1>2. terminating \in BOOLEAN /\ flag \in [Callers -> BOOLEAN]
    BY Zenon DEF Init
  <1>3. TerminalOnce /\ failure \in BOOLEAN /\ terminalDone \in BOOLEAN /\ panicked \in BOOLEAN
    BY Zenon DEF Init, TerminalOnce, Terminal
  <1>4. EventsInv
    BY <1>1, <1>3 DEF Init, EventsInv
  <1>5. TypeOK
    BY <1>2, <1>4, MaxCommandsNat DEF Init, TypeOK, EventsInv
  <1>6. CommandInv /\ InspectInv /\ EndInv
    BY NoneIsNoCaller, Zenon DEF Init, CommandInv, InspectInv, EndInv, Terminal
  <1> QED
    BY <1>4, <1>5, <1>6, Zenon DEF IndInv

\* A run of numbers that its successor is appended to.
LEMMA AppendConsecutive ==
  ASSUME NEW q \in Seq(Nat), NEW g \in Nat, NEW n \in Nat, g + Len(q) = n,
         \A i \in 1..Len(q) : q[i] = g + i
  PROVE  \A i \in 1..Len(Append(q, n + 1)) : Append(q, n + 1)[i] = g + i
  OBVIOUS

\* What was received and what is buffered, with one more event buffered.
LEMMA SumSuccessor ==
  ASSUME NEW g \in Nat, NEW b \in Nat, NEW n, g + b = n
  PROVE  g + (b + 1) = n + 1
  OBVIOUS

\* An event that fits into the buffer continues it; one that does not ends the
\* subscription as lagged.
LEMMA DeliverSound ==
  ASSUME NEW w \in Watch, NEW next, w.status = "open", Consecutive(w),
         w.lagged = FALSE, sequence \in Nat, w.got + Len(w.buf) = sequence, NEW d, d = Deliver(w, next \in Terminal)
  PROVE  /\ d \in Watch
         /\ Consecutive(d)
         /\ \/ d.status = "closed" /\ d.lagged = TRUE
            \/ /\ d.status = (IF next \in Terminal THEN "closed" ELSE "open") /\ d.lagged = FALSE
               /\ d.got + Len(d.buf) = sequence + 1
  <1>1. w.buf \in Seq(Nat) /\ w.got \in Nat /\ w.lagged \in BOOLEAN /\ Len(w.buf) \in Nat
    BY DEF Watch
  <1>2. CASE Len(w.buf) < watcherBufferSize
    <2> DEFINE st == IF next \in Terminal THEN "closed" ELSE "open"
    <2>1. st \in {"open", "closed"}
      OBVIOUS
    <2>2. d = [w EXCEPT !.buf = Append(w.buf, sequence + 1), !.status = st]
      BY <1>2, Zenon DEF Deliver
    <2> HIDE DEF st
    <2>3. d.buf = Append(w.buf, sequence + 1) /\ d.got = w.got /\ d.lagged = FALSE /\ d.status = st
      BY <2>2, Zenon DEF Watch
    <2>4. d \in Watch
      <3>1. Append(w.buf, sequence + 1) \in Seq(Nat)
        BY <1>1
      <3> QED
        BY <2>1, <2>2, <3>1, Zenon DEF Watch
    <2>5. Len(d.buf) = Len(w.buf) + 1
      BY <1>1, <2>3
    <2>6. Consecutive(d)
      <3> DEFINE q == Append(w.buf, sequence + 1)
      <3>1. \A i \in 1..Len(w.buf) : w.buf[i] = w.got + i
        BY Zenon DEF Consecutive
      <3>2. \A i \in 1..Len(q) : q[i] = w.got + i
        BY <1>1, <3>1, AppendConsecutive, Zenon
      <3> QED
        BY <2>3, <3>2, Zenon DEF Consecutive
    <2> QED
      <3>1. w.got + Len(d.buf) = sequence + 1
        BY <1>1, <2>5, SumSuccessor
      <3> QED
        BY <2>3, <2>4, <2>5, <2>6, <3>1, Zenon DEF st
  <1>3. CASE ~(Len(w.buf) < watcherBufferSize)
    <2>1. d = [w EXCEPT !.status = "closed", !.lagged = TRUE]
      BY <1>3, Zenon DEF Deliver
    <2>2. d \in Watch /\ d.buf = w.buf /\ d.got = w.got /\ d.status = "closed" /\ d.lagged = TRUE
      BY <2>1, Zenon DEF Watch
    <2> QED
      BY <2>2, Zenon DEF Consecutive
  <1> QED
    BY <1>2, <1>3, Zenon

\* Publishing from a state that is not terminal keeps every subscription sound
\* and closes terminalDone with the terminal event only.
LEMMA PublishInd ==
  ASSUME EventsInv, state \notin Terminal, NEW next \in {"running", "stopped"} \cup Terminal,
         NEW why \in {"none", "stop", "error"}, NEW failed \in BOOLEAN, publish(next, why, failed)
  PROVE  EventsInv' /\ state' = next
  <1> USE DEF EventsInv
  <1>1. /\ state' = next /\ reason' = why /\ failure' = failed /\ sequence' = sequence + 1
        /\ sequence \in Nat
    BY Zenon DEF publish
  <1>2. terminalDone' \in BOOLEAN /\ panicked' \in BOOLEAN /\ TerminalOnce'
    BY Zenon DEF publish, TerminalOnce
  <1>3. ASSUME NEW w \in Watchers
        PROVE  watch'[w] \in Watch /\ Sound(watch[w])'
    <2>1. watch'[w] = Deliver(watch[w], next \in Terminal) /\ watch[w] \in Watch /\ Sound(watch[w])
      BY Zenon DEF publish
    <2>2. CASE watch[w].status # "open"
      <3>1. watch'[w] = watch[w]
        BY <2>1, <2>2, Zenon DEF Deliver
      <3> QED
        BY <3>1, <2>1, <2>2, Zenon DEF Sound, Consecutive
    <2>3. CASE watch[w].status = "open"
      <3>1. /\ watch'[w] \in Watch
            /\ Consecutive(watch'[w])
            /\ \/ watch'[w].status = "closed" /\ watch'[w].lagged = TRUE
               \/ /\ watch'[w].status = (IF next \in Terminal THEN "closed" ELSE "open")
                  /\ watch'[w].lagged = FALSE
                  /\ watch'[w].got + Len(watch'[w].buf) = sequence + 1
        <4>1. Consecutive(watch[w]) /\ watch[w].lagged = FALSE /\ watch[w].got + Len(watch[w].buf) = sequence
          BY <2>1, <2>3, Zenon DEF Sound
        <4> HIDE DEF EventsInv
        <4> QED
          BY <1>1, <2>1, <2>3, <4>1, DeliverSound, ZenonT(60)
      <3> QED
        BY <1>1, <3>1, Zenon DEF Sound, Consecutive
    <2> QED
      BY <2>2, <2>3, Zenon
  <1>4. watch' \in [Watchers -> Watch]
    BY <1>3, Zenon DEF publish
  <1> QED
    BY <1>1, <1>2, <1>3, <1>4

\* A step that publishes no event leaves the state and every watch as they are.
LEMMA UnpublishedInd ==
  ASSUME EventsInv, UNCHANGED stateVars
  PROVE  EventsInv' /\ state' = state
  BY Zenon DEF EventsInv, stateVars, TerminalOnce, Sound, Consecutive

\* The rest of the invariant is the control of the debugger and its types.
LEMMA Combine ==
  ASSUME EventsInv', CommandInv', InspectInv', EndInv',
         terminating' \in BOOLEAN,
         control' \in Callers \cup {None},
         caller' \in [Callers -> {"idle", "flagged", "inspecting"}],
         flag' \in [Callers -> BOOLEAN],
         issued' \in 0..MaxCommands,
         commands' \subseteq [id : 1..issued', flag : BOOLEAN, error : BOOLEAN],
         runtime' \in {"open", "closed"},
         terminator' \in {"none", "close", "publish", "done"},
         close' \in {"idle", "started", "finished"},
         worker' \in {"none", "request", "await", "watchers", "complete", "done"}
  PROVE  IndInv'
  BY Zenon DEF EventsInv, IndInv, TypeOK

\* startCommand refuses, or turns a pause that has no command out into RUNNING
\* with one.
LEMMA StartCommand ==
  ASSUME IndInv, NEW expected \in {"created", "stopped"}, NEW f \in BOOLEAN, startCommand(expected, f)
  PROVE  /\ EventsInv' /\ CommandInv' /\ control = None
         /\ issued' \in 0..MaxCommands
         /\ commands' \subseteq [id : 1..issued', flag : BOOLEAN, error : BOOLEAN]
         /\ \/ state' = state /\ commands' = commands
            \/ state \notin Terminal /\ state' = "running" /\ ~terminating
  <1> USE DEF IndInv
  <1>1. control = None /\ issued < MaxCommands /\ issued \in 0..MaxCommands
        /\ commands \subseteq [id : 1..issued, flag : BOOLEAN, error : BOOLEAN]
    BY Zenon DEF startCommand, TypeOK
  <1>2. CASE terminating \/ close # "idle" \/ state # expected
    <2>1. UNCHANGED <<stateVars, commands, issued>>
      BY <1>2, Zenon DEF startCommand
    <2>2. EventsInv' /\ state' = state
      BY <2>1, UnpublishedInd, Zenon
    <2>3. CommandInv'
      BY <2>1, <2>2, Zenon DEF CommandInv
    <2> QED
      BY <1>1, <2>1, <2>2, <2>3, Zenon
  <1>3. CASE ~(terminating \/ close # "idle" \/ state # expected)
    <2> DEFINE cmd == [id |-> issued + 1, flag |-> f, error |-> reason = "error"]
    <2>1. /\ publish("running", "none", FALSE) /\ issued' = issued + 1
          /\ commands' = commands \cup {cmd} /\ state = expected /\ ~terminating
      BY <1>3, Zenon DEF startCommand
    <2>2. state \notin Terminal /\ commands = {}
      BY <2>1, Zenon DEF CommandInv, Terminal
    <2>3. EventsInv' /\ state' = "running"
      BY <2>1, <2>2, PublishInd, Zenon
    <2>4. commands' = {cmd}
      BY <2>1, <2>2, Zenon
    <2>5. CommandInv'
      BY <2>3, <2>4, Zenon DEF CommandInv
    <2>6. issued' \in 0..MaxCommands /\ issued + 1 \in 1..issued'
      BY <1>1, <2>1, MaxCommandsNat
    <2>7. cmd \in [id : 1..issued', flag : BOOLEAN, error : BOOLEAN]
      <3>1. (reason = "error") \in BOOLEAN
        OBVIOUS
      <3> QED
        BY <2>6, <3>1, Zenon
    <2> HIDE DEF cmd
    <2> QED
      BY <1>1, <2>1, <2>2, <2>3, <2>4, <2>5, <2>6, <2>7, Zenon
  <1> QED
    BY <1>2, <1>3, Zenon

\* Commands and inspections: reserving control, and giving it back.
LEMMA CallerInd ==
  ASSUME IndInv, NEW c \in Callers,
         start(c) \/ resumeCommand(c) \/ resume(c) \/ inspect(c) \/ inspected(c)
  PROVE  IndInv'
  <1> USE NoneIsNoCaller DEF IndInv
  <1>1. CASE start(c)
    <2>1. FALSE \in BOOLEAN
      OBVIOUS
    <2>2. /\ EventsInv' /\ CommandInv' /\ control = None /\ issued' \in 0..MaxCommands
          /\ commands' \subseteq [id : 1..issued', flag : BOOLEAN, error : BOOLEAN]
          /\ \/ state' = state /\ commands' = commands
             \/ state \notin Terminal /\ state' = "running" /\ ~terminating
      BY <1>1, <2>1, StartCommand, Zenon DEF start
    <2>3. InspectInv' /\ EndInv'
      BY <1>1, <2>2, Zenon DEF start, InspectInv, EndInv, Terminal
    <2> QED
      BY <1>1, <2>2, <2>3, Combine, ZenonT(40) DEF start, TypeOK
  <1>2. CASE resumeCommand(c)
    <2>1. EventsInv' /\ state' = state
      BY <1>2, UnpublishedInd, Zenon DEF resumeCommand
    <2>2. CommandInv' /\ InspectInv' /\ EndInv'
      BY <1>2, <2>1, Zenon DEF resumeCommand, CommandInv, InspectInv, EndInv, TypeOK
    <2>3. flag' \in [Callers -> BOOLEAN]
      BY <1>2, Zenon DEF resumeCommand, TypeOK
    <2> QED
      BY <1>2, <2>1, <2>2, <2>3, Combine DEF resumeCommand, TypeOK
  <1>3. CASE resume(c)
    <2>1. flag[c] \in BOOLEAN
      BY Zenon DEF TypeOK
    <2>2. /\ EventsInv' /\ CommandInv' /\ control = None /\ issued' \in 0..MaxCommands
          /\ commands' \subseteq [id : 1..issued', flag : BOOLEAN, error : BOOLEAN]
          /\ \/ state' = state /\ commands' = commands
             \/ state \notin Terminal /\ state' = "running" /\ ~terminating
      BY <1>3, <2>1, StartCommand, Zenon DEF resume
    <2>3. InspectInv' /\ EndInv'
      BY <1>3, <2>2, Zenon DEF resume, InspectInv, EndInv, TypeOK, Terminal
    <2> QED
      BY <1>3, <2>2, <2>3, Combine, Zenon DEF resume, TypeOK
  <1>4. CASE inspect(c)
    <2>1. EventsInv' /\ state' = state
      BY <1>4, UnpublishedInd, Zenon DEF inspect
    <2>2. CommandInv' /\ InspectInv' /\ EndInv'
      BY <1>4, <2>1, Zenon DEF inspect, CommandInv, InspectInv, EndInv, TypeOK, Terminal
    <2> QED
      BY <1>4, <2>1, <2>2, Combine, Zenon DEF inspect, TypeOK
  <1>5. CASE inspected(c)
    <2>1. EventsInv' /\ state' = state
      BY <1>5, UnpublishedInd, Zenon DEF inspected
    <2>2. CommandInv' /\ InspectInv' /\ EndInv'
      BY <1>5, <2>1, Zenon DEF inspected, CommandInv, InspectInv, EndInv, TypeOK
    <2> QED
      BY <1>5, <2>1, <2>2, Combine, ZenonT(40) DEF inspected, TypeOK
  <1> QED
    BY <1>1, <1>2, <1>3, <1>4, <1>5, Zenon

\* A step of one subscription keeps the others as they are.
LEMMA SubscriptionInd ==
  ASSUME IndInv, NEW w \in Watchers, NEW r \in Watch, Sound(r), watch' = [watch EXCEPT ![w] = r],
         UNCHANGED <<state, reason, failure, sequence, terminalDone, panicked, terminating,
                     callVars, runtime, terminator, close, worker>>
  PROVE  IndInv'
  <1>1. watch' \in [Watchers -> Watch] /\ \A x \in Watchers : Sound(watch'[x])
    BY Zenon DEF IndInv, EventsInv
  <1>2. \A x \in Watchers : Sound(watch[x])'
    BY <1>1, Zenon DEF Sound, Consecutive
  <1>3. EventsInv'
    BY <1>1, <1>2, Zenon DEF IndInv, EventsInv, TerminalOnce
  <1>4. CommandInv' /\ InspectInv' /\ EndInv'
    BY Zenon DEF IndInv, CommandInv, InspectInv, EndInv, callVars
  <1> QED
    BY <1>3, <1>4, Combine DEF IndInv, TypeOK, callVars

\* session.watch, its reader and its cancellation.
LEMMA WatcherInd ==
  ASSUME IndInv, NEW w \in Watchers, subscribe(w) \/ receive(w) \/ unsubscribe(w)
  PROVE  IndInv'
  <1> DEFINE s == watch[w]
  <1>0. /\ s \in Watch /\ Sound(s) /\ s.got \in Nat /\ s.buf \in Seq(Nat) /\ s.lagged \in BOOLEAN
        /\ watch \in [Watchers -> Watch] /\ sequence \in Nat
    BY Zenon DEF IndInv, EventsInv, Watch
  <1>1. CASE subscribe(w)
    <2> DEFINE st == IF state \in Terminal THEN "closed" ELSE "open"
               r == [s EXCEPT !.got = sequence, !.status = st]
    <2>1. watch' = [watch EXCEPT ![w] = r] /\ s.status = "none"
      BY <1>0, <1>1, Zenon DEF subscribe
    <2>2. s.buf = <<>> /\ s.lagged = FALSE
      BY <1>0, <2>1, Zenon DEF Sound
    <2>3. st \in {"open", "closed"}
      OBVIOUS
    <2>4. r \in Watch /\ r.got = sequence /\ r.buf = <<>> /\ r.lagged = FALSE /\ r.status = st
      <3> HIDE DEF st
      <3> QED
        BY <1>0, <2>2, <2>3, Zenon DEF Watch
    <2>5. Sound(r)
      <3> HIDE DEF r
      <3> QED
        BY <1>0, <2>4 DEF Sound, Consecutive
    <2> QED
      BY <1>1, <2>1, <2>4, <2>5, SubscriptionInd, Zenon DEF subscribe
  <1>2. CASE receive(w)
    <2> DEFINE r == [s EXCEPT !.got = Head(s.buf), !.buf = Tail(s.buf)]
    <2>1. watch' = [watch EXCEPT ![w] = r] /\ s.buf # <<>>
      BY <1>0, <1>2, Zenon DEF receive
    <2>2. /\ Head(s.buf) = s.got + 1 /\ Len(Tail(s.buf)) = Len(s.buf) - 1
          /\ Tail(s.buf) \in Seq(Nat) /\ Len(s.buf) \in Nat \ {0}
          /\ \A i \in 1..(Len(s.buf) - 1) : Tail(s.buf)[i] = s.buf[i + 1]
      <3>1. s.buf \in Seq(Nat) /\ s.buf # <<>> /\ \A i \in 1..Len(s.buf) : s.buf[i] = s.got + i
        BY <1>0, <2>1, Zenon DEF Sound, Consecutive
      <3> HIDE DEF s
      <3>2. Len(s.buf) \in Nat \ {0} /\ Head(s.buf) = s.buf[1]
        BY <3>1
      <3>3. Head(s.buf) = s.got + 1
        BY <3>1, <3>2
      <3> QED
        BY <3>1, <3>2, <3>3
    <2>3. Head(s.buf) \in Nat
      BY <1>0, <2>2
    <2>4. /\ r \in Watch /\ r.got = s.got + 1 /\ r.buf = Tail(s.buf) /\ r.status = s.status
          /\ r.lagged = s.lagged
      BY <1>0, <2>2, <2>3, Zenon DEF Watch
    <2> HIDE DEF r
    <2>5. Consecutive(r)
      <3> SUFFICES ASSUME NEW i \in 1..Len(r.buf) PROVE r.buf[i] = r.got + i
        BY Zenon DEF Consecutive
      <3>1. i + 1 \in 1..Len(s.buf) /\ i \in 1..(Len(s.buf) - 1)
        BY <2>2, <2>4
      <3>2. s.buf[i + 1] = s.got + (i + 1)
        BY <1>0, <3>1, Zenon DEF Sound, Consecutive
      <3> QED
        BY <1>0, <2>2, <2>4, <3>1, <3>2
    <2>6. Sound(r)
      <3>1. r.got + Len(r.buf) = s.got + Len(s.buf)
        BY <1>0, <2>2, <2>4
      <3> QED
        BY <1>0, <2>1, <2>4, <2>5, <3>1, Zenon DEF Sound
    <2> QED
      BY <1>2, <2>1, <2>4, <2>6, SubscriptionInd, Zenon DEF receive
  <1>3. CASE unsubscribe(w)
    <2> DEFINE r == [s EXCEPT !.status = "cancelled"]
    <2>1. watch' = [watch EXCEPT ![w] = r]
      BY <1>0, <1>3, Zenon DEF unsubscribe
    <2>2. r \in Watch /\ Sound(r)
      BY <1>0, <2>1, Zenon DEF Watch, Sound, Consecutive
    <2> QED
      BY <1>3, <2>1, <2>2, SubscriptionInd, Zenon DEF unsubscribe
  <1> QED
    BY <1>1, <1>2, <1>3, Zenon

\* Whatever the runtime answers, an answer that finds RUNNING pauses or ends the
\* Session; one that was overtaken changes nothing.
LEMMA AnswerPublishes ==
  ASSUME IndInv, NEW cmd \in commands, runCommand(cmd), state = "running"
  PROVE  \E next \in {"stopped"} \cup Terminal, why \in {"none", "stop", "error"}, failed \in BOOLEAN :
           publish(next, why, failed)
  <1>1. /\ reason \in {"none", "stop", "error"} /\ failure \in BOOLEAN
        /\ TRUE \in BOOLEAN /\ FALSE \in BOOLEAN
        /\ {"completed", "failed", "terminated"} \subseteq {"stopped"} \cup Terminal
    BY Zenon DEF IndInv, EventsInv, Terminal
  <1>2. PICK answer \in Answers(cmd) :
          \/ answer = "err" /\ IF terminating THEN publish("terminated", reason, failure)
                              ELSE publish("failed", reason, TRUE)
          \/ applyRuntimeEvent(answer, cmd.flag)
    BY Zenon DEF runCommand
  <1>3. \/ publish("stopped", "stop", FALSE) \/ publish("stopped", "error", TRUE)
        \/ publish("completed", reason, failure)
        \/ publish("failed", reason, TRUE) \/ publish("terminated", reason, failure)
    BY <1>2, Zenon DEF applyRuntimeEvent
  <1> QED
    BY <1>1, <1>3, Zenon

\* session.runCommand: the one command returns and its event is published, unless
\* the Session has ended.
LEMMA RunCommandInd ==
  ASSUME IndInv, NEW cmd \in commands, runCommand(cmd)
  PROVE  IndInv'
  <1> USE DEF IndInv
  <1>1. /\ commands' = commands \ {cmd}
        /\ UNCHANGED <<terminating, control, caller, flag, issued, runtime, terminator, close, worker>>
    BY Zenon DEF runCommand
  <1>2. commands' = {}
    BY <1>1, Zenon DEF CommandInv
  <1>3. EventsInv' /\ state' # "running" /\ (state \in Terminal => state' = state)
    <2>1. CASE state = "running"
      <3>1. state \notin Terminal
        BY <2>1, Zenon DEF Terminal
      <3>2. PICK next \in {"stopped"} \cup Terminal, why \in {"none", "stop", "error"}, failed \in BOOLEAN :
              publish(next, why, failed)
        BY <2>1, AnswerPublishes, Zenon
      <3>3. EventsInv' /\ state' = next
        BY <3>1, <3>2, PublishInd, Zenon
      <3> QED
        BY <3>1, <3>3, Zenon DEF Terminal
    <2>2. CASE state # "running"
      <3>1. UNCHANGED stateVars
        BY <2>2, Zenon DEF runCommand
      <3> QED
        BY <2>2, <3>1, UnpublishedInd, Zenon
    <2> QED
      BY <2>1, <2>2, Zenon
  <1>4. CommandInv'
    BY <1>2, <1>3, Zenon DEF CommandInv
  <1>5. InspectInv'
    BY <1>1, <1>2, Zenon DEF InspectInv
  <1>6. EndInv'
    BY <1>1, <1>3, Zenon DEF EndInv
  <1> QED
    BY <1>1, <1>3, <1>4, <1>5, <1>6, Combine DEF TypeOK

\* requestTermination records the termination before a goroutine closes anything.
LEMMA RequestTermination ==
  ASSUME IndInv, requestTermination
  PROVE  /\ terminating' \in BOOLEAN /\ terminator' \in {"none", "close", "publish", "done"}
         /\ terminating => terminating'
         /\ terminator' # "none" => terminating'
  BY Zenon DEF IndInv, TypeOK, EndInv, requestTermination

\* session.terminateExecution, which does not wait for the command.
LEMMA TerminateInd ==
  ASSUME IndInv, terminateExecution \/ terminateRuntime \/ terminatePublish
  PROVE  IndInv'
  <1> USE DEF IndInv
  <1>1. CASE terminateExecution
    <2>1. EventsInv' /\ state' = state
      BY <1>1, UnpublishedInd, Zenon DEF terminateExecution
    <2>2. /\ terminating' \in BOOLEAN /\ terminator' \in {"none", "close", "publish", "done"}
          /\ terminating => terminating'
          /\ terminator' # "none" => terminating'
      BY <1>1, RequestTermination, Zenon DEF terminateExecution
    <2>3. CommandInv' /\ InspectInv' /\ EndInv'
      BY <1>1, <2>1, <2>2, Zenon DEF terminateExecution, CommandInv, InspectInv, EndInv, callVars
    <2> QED
      BY <1>1, <2>1, <2>2, <2>3, Combine, Zenon DEF terminateExecution, TypeOK, callVars
  <1>2. CASE terminateRuntime
    <2>1. EventsInv' /\ state' = state
      BY <1>2, UnpublishedInd, Zenon DEF terminateRuntime
    <2>2. CommandInv' /\ InspectInv' /\ EndInv'
      BY <1>2, <2>1, Zenon DEF terminateRuntime, CommandInv, InspectInv, EndInv, callVars
    <2> QED
      BY <1>2, <2>1, <2>2, Combine, Zenon DEF terminateRuntime, TypeOK, callVars
  <1>3. CASE terminatePublish
    <2>1. /\ EventsInv'
          /\ \/ state \in Terminal /\ state' = state
             \/ state \notin Terminal /\ state' = "terminated"
      <3>1. CASE state \in Terminal
        BY <1>3, <3>1, UnpublishedInd, Zenon DEF terminatePublish
      <3>2. CASE state \notin Terminal
        <4>1. publish("terminated", "none", FALSE)
          BY <1>3, <3>2, Zenon DEF terminatePublish
        <4>2. "terminated" \in {"running", "stopped"} \cup Terminal /\ FALSE \in BOOLEAN
          BY Zenon DEF Terminal
        <4> QED
          BY <3>2, <4>1, <4>2, PublishInd, Zenon
      <3> QED
        BY <3>1, <3>2, Zenon
    <2>2. CommandInv' /\ InspectInv' /\ EndInv'
      BY <1>3, <2>1, Zenon DEF terminatePublish, CommandInv, InspectInv, EndInv, callVars, Terminal
    <2> QED
      BY <1>3, <2>1, <2>2, Combine, Zenon DEF terminatePublish, TypeOK, callVars
  <1> QED
    BY <1>1, <1>2, <1>3, Zenon

\* session.beginClose and the settle worker of the close.
LEMMA CloseInd ==
  ASSUME IndInv,
         beginClose \/ settleRequest \/ settleRuntime \/ settleWatchers \/ completeClose
  PROVE  IndInv'
  <1> USE DEF IndInv
  <1>1. CASE beginClose
    <2>1. EventsInv' /\ state' = state
      BY <1>1, UnpublishedInd, Zenon DEF beginClose
    <2>2. CommandInv' /\ InspectInv' /\ EndInv'
      BY <1>1, <2>1, Zenon DEF beginClose, CommandInv, InspectInv, EndInv, callVars
    <2> QED
      BY <1>1, <2>1, <2>2, Combine, Zenon DEF beginClose, TypeOK, callVars
  <1>2. CASE settleRequest
    <2>1. EventsInv' /\ state' = state
      BY <1>2, UnpublishedInd, Zenon DEF settleRequest
    <2>2. /\ terminating' \in BOOLEAN /\ terminator' \in {"none", "close", "publish", "done"}
          /\ terminating => terminating'
          /\ terminator' # "none" => terminating'
      BY <1>2, RequestTermination, Zenon DEF settleRequest
    <2>3. CommandInv' /\ InspectInv' /\ EndInv'
      BY <1>2, <2>1, <2>2, Zenon DEF settleRequest, CommandInv, InspectInv, EndInv, callVars
    <2> QED
      BY <1>2, <2>1, <2>2, <2>3, Combine, Zenon DEF settleRequest, TypeOK, callVars
  <1>3. CASE settleRuntime
    <2>1. EventsInv' /\ state' = state
      BY <1>3, UnpublishedInd, Zenon DEF settleRuntime
    <2>2. state \in Terminal
      BY <1>3, Zenon DEF settleRuntime, EventsInv, TerminalOnce
    <2>3. CommandInv' /\ InspectInv' /\ EndInv'
      BY <1>3, <2>1, <2>2, Zenon DEF settleRuntime, CommandInv, InspectInv, EndInv, callVars
    <2> QED
      BY <1>3, <2>1, <2>3, Combine, Zenon DEF settleRuntime, TypeOK, callVars
  <1>4. CASE settleWatchers
    <2>1. state \in Terminal
      BY <1>4, Zenon DEF settleWatchers, EndInv
    <2>2. watch' = watch
      BY <1>4, <2>1, Zenon DEF settleWatchers, EventsInv, Sound
    <2>3. EventsInv' /\ state' = state
      BY <1>4, <2>2, UnpublishedInd, Zenon DEF settleWatchers, stateVars
    <2>4. CommandInv' /\ InspectInv' /\ EndInv'
      BY <1>4, <2>1, <2>3, Zenon DEF settleWatchers, CommandInv, InspectInv, EndInv, callVars
    <2> QED
      BY <1>4, <2>3, <2>4, Combine, Zenon DEF settleWatchers, TypeOK, callVars
  <1>5. CASE completeClose
    <2>1. EventsInv' /\ state' = state
      BY <1>5, UnpublishedInd, Zenon DEF completeClose
    <2>2. CommandInv' /\ InspectInv' /\ EndInv'
      BY <1>5, <2>1, Zenon DEF completeClose, CommandInv, InspectInv, EndInv, callVars
    <2> QED
      BY <1>5, <2>1, <2>2, Combine, Zenon DEF completeClose, TypeOK, callVars
  <1> QED
    BY <1>1, <1>2, <1>3, <1>4, <1>5, Zenon

\* Every step of the Session preserves the invariant.
LEMMA NextInd == IndInv /\ [Next]_vars => IndInv'
  <1>1. IndInv /\ UNCHANGED vars => IndInv'
    <2> SUFFICES ASSUME IndInv, UNCHANGED vars PROVE IndInv'
      OBVIOUS
    <2>1. EventsInv' /\ state' = state
      BY UnpublishedInd, Zenon DEF IndInv, vars
    <2>2. CommandInv' /\ InspectInv' /\ EndInv'
      BY <2>1, Zenon DEF IndInv, CommandInv, InspectInv, EndInv, vars, callVars
    <2> QED
      BY <2>1, <2>2, Combine DEF IndInv, TypeOK, vars, callVars
  <1> QED
    BY <1>1, CallerInd, WatcherInd, RunCommandInd, TerminateInd, CloseInd, Zenon DEF Next

\* Commands, inspections, termination, close and watches keep the inductive
\* invariant, for any callers, watchers and buffer size.
THEOREM Inductive == Spec => []IndInv
  BY InitInd, NextInd, PTL DEF Spec
-----------------------------------------------------------------------------
\* The debugger has at most one command, RUNNING means that it has one, and nobody
\* inspects meanwhile, for any number of callers and whatever termination and
\* close overtake (session.startCommand, controlMu).
THEOREM ControlIsExclusive == Spec => []ExclusiveControl
  <1>1. ASSUME IndInv PROVE Cardinality(commands) <= 1
    <2>1. CASE commands = {}
      BY <2>1, FS_EmptySet
    <2>2. CASE commands # {}
      <3>1. PICK x : commands = {x}
        BY <1>1, <2>2 DEF IndInv, CommandInv
      <3>2. Cardinality({x}) = 1
        BY FS_Singleton, Zenon
      <3> QED
        BY <3>1, <3>2
    <2> QED
      BY <2>1, <2>2, Zenon
  <1>2. IndInv => ExclusiveControl
    BY <1>1, Zenon DEF IndInv, CommandInv, InspectInv, ExclusiveControl
  <1> QED
    BY Inductive, <1>2, PTL

\* Every watch is consecutive and, unless it lagged or was cancelled, ends with the
\* terminal event, for any size of the event buffer.
THEOREM WatchesComplete == Spec => []WatchComplete
  <1>1. IndInv => WatchComplete
    <2> SUFFICES ASSUME IndInv, NEW w \in Watchers
                 PROVE  /\ \A i \in 1..Len(watch[w].buf) : watch[w].buf[i] = watch[w].got + i
                        /\ state \in Terminal => watch[w].status # "open"
                        /\ watch[w].status = "closed" /\ ~watch[w].lagged =>
                             state \in Terminal /\ watch[w].got + Len(watch[w].buf) = sequence
      BY Zenon DEF WatchComplete
    <2>1. Sound(watch[w]) /\ watch[w].lagged \in BOOLEAN
      BY Zenon DEF IndInv, EventsInv, Watch
    <2> QED
      BY <2>1, Zenon DEF Sound, Consecutive
  <1> QED
    BY Inductive, <1>1, PTL

\* Only startCommand enters RUNNING, and only from a pause nobody is ending.
LEMMA RunningEntered ==
  ASSUME IndInv, Next, state' = "running", state # "running"
  PROVE  ~terminating /\ state \notin Terminal
  <1>1. CASE \E c \in Callers : start(c) \/ resume(c)
    <2>1. PICK c \in Callers : start(c) \/ resume(c)
      BY <1>1, Zenon
    <2>2. PICK expected \in {"created", "stopped"}, f \in BOOLEAN : startCommand(expected, f)
      <3>1. flag[c] \in BOOLEAN /\ FALSE \in BOOLEAN
        BY Zenon DEF IndInv, TypeOK
      <3> QED
        BY <2>1, <3>1, Zenon DEF start, resume
    <2> QED
      BY <2>2, StartCommand, Zenon
  <1>2. CASE \E cmd \in commands : runCommand(cmd)
    <2>1. PICK cmd \in commands : runCommand(cmd)
      BY <1>2, Zenon
    <2>2. commands' = {} /\ IndInv'
      BY <2>1, RunCommandInd, Zenon DEF runCommand, IndInv, CommandInv
    <2> QED
      BY <2>2, Zenon DEF IndInv, CommandInv
  <1>3. CASE terminatePublish
    BY <1>3, Zenon DEF terminatePublish, publish, stateVars
  <1>4. ASSUME NEW c \in Callers, resumeCommand(c) \/ inspect(c) \/ inspected(c)
        PROVE  state' = state
    BY <1>4, Zenon DEF resumeCommand, inspect, inspected, stateVars
  <1>5. ASSUME NEW w \in Watchers, subscribe(w) \/ receive(w) \/ unsubscribe(w)
        PROVE  state' = state
    BY <1>5, Zenon DEF subscribe, receive, unsubscribe
  <1>6. ASSUME \/ terminateExecution \/ terminateRuntime \/ beginClose \/ settleRequest
               \/ settleRuntime \/ settleWatchers \/ completeClose
        PROVE  state' = state
    BY <1>6, Zenon DEF terminateExecution, terminateRuntime, beginClose, settleRequest, settleRuntime,
           settleWatchers, completeClose, stateVars
  <1> QED
    BY <1>1, <1>2, <1>3, <1>4, <1>5, <1>6, Zenon DEF Next

\* The end is final: the terminal event is published once, and no command starts on
\* a runtime whose Plan lease DebugRuntime.Close released.
THEOREM TheEndIsFinal == Spec => EndsOnce
  <1>1. IndInv /\ IndInv' /\ [Next]_vars =>
          [/\ TerminalOnce'
           /\ runtime = "closed" /\ state' = "running" => state = "running"]_vars
    <2> SUFFICES ASSUME IndInv, IndInv', Next, runtime = "closed", state' = "running"
                 PROVE  state = "running"
      BY Zenon DEF IndInv, EventsInv
    <2>1. terminating \/ state \in Terminal
      BY Zenon DEF IndInv, EndInv
    <2> QED
      BY <2>1, RunningEntered, Zenon
  <1> QED
    BY Inductive, <1>1, PTL DEF Spec, EndsOnce
=============================================================================
