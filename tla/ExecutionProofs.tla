--------------------------- MODULE ExecutionProofs ---------------------------
(***************************************************************************)
(* Proofs about internal/exec's Execution for any number of callers and    *)
(* watchers and any event buffer that holds two events.                    *)
(***************************************************************************)
EXTENDS Execution, TLAPS

(***************************************************************************)
(* The inductive invariant.  RunInv ties the run goroutine to the state:   *)
(* it is inside the run exactly while the state is RUNNING, so a terminal  *)
(* state, which the close worker awaits through runDone, means that the    *)
(* goroutine is out of the Plan.  WatchInv adds to WatchComplete what an   *)
(* open subscription has been sent, and that no event is numbered above 2  *)
(* while one can still follow: that is why no buffer of two ever fills.    *)
(***************************************************************************)
InRun == run \in {"create", "run", "close", "finish"}

\* The Universal Session lives inside the run, and only the run closes it while
\* it is needed.
RunInv ==
  /\ InRun <=> state = "running"
  /\ run = "none" => state \in {"created", "cancelled"}
  /\ state = "created" => run = "none"
  /\ session = "open" => run \in {"run", "close"}
  /\ closeOnce => state \in Terminal \/ run = "finish"

\* The worker passes its wait only when runDone is closed, and the parent closes
\* the Plan only behind the worker.
CloseInv ==
  /\ worker \in {"await", "watchers", "complete", "done"} => state # "created"
  /\ worker \in {"watchers", "complete", "done"} => state \in Terminal
  /\ close = "finished" => worker = "done"
  /\ plan = "closed" => close = "finished"

SequenceInv ==
  /\ sequence >= 1
  /\ state = "created" => sequence = 1
  /\ state = "running" => sequence = 2

\* What a subscription buffers follows what it received.
Consecutive(w) == \A i \in 1..Len(w.buf) : w.buf[i] = w.got + i

\* An open or ended subscription has been sent everything, and ends with the
\* Execution.
Sound(w) ==
  /\ Consecutive(w)
  /\ w.status \in {"none", "found"} => w.buf = <<>>
  /\ w.status \in {"open", "closed"} => w.got >= 1 /\ w.got + Len(w.buf) = sequence
  /\ w.status = "open" => state \notin Terminal
  /\ w.status = "closed" => state \in Terminal

WatchInv == \A w \in Watchers : Sound(watch[w])

IndInv ==
  /\ TypeOK
  /\ RunDoneOnce
  /\ RunInv
  /\ CloseInv
  /\ SequenceInv
  /\ WatchInv
-----------------------------------------------------------------------------
\* A CREATED Execution has published event 1 and nobody watches it.
LEMMA InitInd == Init => IndInv
  <1> SUFFICES ASSUME Init PROVE IndInv
    OBVIOUS
  <1>1. NoWatch \in Watch /\ NoWatch.buf = <<>> /\ NoWatch.status = "none" /\ Consecutive(NoWatch)
    BY DEF NoWatch, Watch, Consecutive
  <1>2. TypeOK
    BY <1>1, Zenon DEF Init, TypeOK, Errors
  <1>3. RunDoneOnce /\ RunInv /\ CloseInv /\ SequenceInv
    BY DEF Init, RunDoneOnce, RunInv, CloseInv, SequenceInv, InRun, Terminal
  <1>4. WatchInv
    BY <1>1, Zenon DEF Init, WatchInv, Sound
  <1> QED
    BY <1>2, <1>3, <1>4, Zenon DEF IndInv

\* A run of numbers continued by the one after its last.
LEMMA AppendConsecutive ==
  ASSUME NEW q \in Seq(Nat), NEW g \in Nat, NEW n \in Nat, g + Len(q) = n,
         \A i \in 1..Len(q) : q[i] = g + i
  PROVE  \A i \in 1..Len(Append(q, n + 1)) : Append(q, n + 1)[i] = g + i
  OBVIOUS

\* The event that moves up by one place when the first one is received.
LEMMA ShiftByOne ==
  ASSUME NEW g \in Nat, NEW i \in Nat
  PROVE  g + (i + 1) = (g + 1) + i
  OBVIOUS

\* A receive leaves one more event received and one less buffered.
LEMMA ReceiveOne ==
  ASSUME NEW g \in Nat, NEW b \in Nat \ {0}
  PROVE  g + 1 >= 1 /\ (g + 1) + (b - 1) = g + b
  OBVIOUS

\* An open subscription that has received or buffered everything up to event
\* 2 at most has room for the next one.
LEMMA DeliverFits ==
  ASSUME NEW w \in Watch, NEW terminal \in BOOLEAN, w.status = "open", Consecutive(w),
         w.got >= 1, w.got + Len(w.buf) = sequence, sequence \in {1, 2},
         NEW d, d = Deliver(w, terminal)
  PROVE  /\ d \in Watch
         /\ d.status = (IF terminal THEN "closed" ELSE "open")
         /\ d.got = w.got /\ Len(d.buf) = Len(w.buf) + 1
         /\ Consecutive(d)
  <1>1. w.buf \in Seq(Nat) /\ w.got \in Nat /\ w.lagged \in BOOLEAN /\ Len(w.buf) \in Nat
    BY DEF Watch
  <1>2. Len(w.buf) < watcherBufferSize
    BY <1>1, BufferHoldsAll
  <1>3. d = [w EXCEPT !.buf = Append(w.buf, sequence + 1),
                      !.status = IF terminal THEN "closed" ELSE "open"]
    BY <1>2, Zenon DEF Deliver
  <1>4. /\ d.buf = Append(w.buf, sequence + 1) /\ d.got = w.got
        /\ d.status = (IF terminal THEN "closed" ELSE "open")
    BY <1>3, Zenon DEF Watch
  <1>5. d \in Watch
    <2>1. Append(w.buf, sequence + 1) \in Seq(Nat)
      BY <1>1
    <2>2. (IF terminal THEN "closed" ELSE "open") \in {"open", "closed"}
      OBVIOUS
    <2> QED
      BY <1>3, <2>1, <2>2, Zenon DEF Watch
  <1>6. Len(d.buf) = Len(w.buf) + 1
    BY <1>1, <1>4
  <1>7. Consecutive(d)
    <2>1. \A i \in 1..Len(w.buf) : w.buf[i] = w.got + i
      BY Zenon DEF Consecutive
    <2>2. \A i \in 1..Len(Append(w.buf, sequence + 1)) : Append(w.buf, sequence + 1)[i] = w.got + i
      BY <1>1, <2>1, AppendConsecutive
    <2> QED
      BY <1>4, <2>2, Zenon DEF Consecutive
  <1> QED
    BY <1>4, <1>5, <1>6, <1>7, Zenon

\* The part of the invariant that publishLocked is responsible for.
EventsInv ==
  /\ state \in {"created", "running"} \cup Terminal
  /\ sequence \in Nat
  /\ watch \in [Watchers -> Watch]
  /\ runDone \in BOOLEAN /\ panicked \in BOOLEAN
  /\ RunDoneOnce /\ SequenceInv /\ WatchInv

\* Publishing sends every open subscription the event, ends it with a terminal
\* one, and closes runDone with the terminal event only.
LEMMA PublishInd ==
  ASSUME IndInv, NEW next \in {"running"} \cup Terminal, publish(next),
         state = "created" \/ (state = "running" /\ next # "running")
  PROVE  EventsInv'
  <1> USE DEF IndInv
  <1>1. sequence \in {1, 2} /\ state \notin Terminal /\ sequence \in Nat
    BY Zenon DEF SequenceInv, Terminal, TypeOK
  <1>2. state' = next /\ sequence' = sequence + 1
    BY Zenon DEF publish
  <1>3. runDone' \in BOOLEAN /\ panicked' \in BOOLEAN /\ RunDoneOnce'
    BY <1>1, Zenon DEF publish, RunDoneOnce
  <1>4. SequenceInv'
    BY <1>2 DEF SequenceInv, Terminal
  <1>5. ASSUME NEW w \in Watchers
        PROVE  /\ watch'[w] \in Watch
               /\ Consecutive(watch'[w])
               /\ watch'[w].status \in {"none", "found"} => watch'[w].buf = <<>>
               /\ watch'[w].status \in {"open", "closed"} =>
                    watch'[w].got >= 1 /\ watch'[w].got + Len(watch'[w].buf) = sequence + 1
               /\ watch'[w].status = "open" => next \notin Terminal
               /\ watch'[w].status = "closed" => next \in Terminal
    <2>1. watch'[w] = Deliver(watch[w], next \in Terminal) /\ watch[w] \in Watch
      BY Zenon DEF publish, TypeOK
    <2>2. CASE watch[w].status # "open"
      <3>1. watch'[w] = watch[w]
        BY <2>1, <2>2, Zenon DEF Deliver
      <3> QED
        BY <3>1, <2>1, <2>2, <1>1, Zenon DEF WatchInv, Sound
    <2>3. CASE watch[w].status = "open"
      <3>1. Consecutive(watch[w]) /\ watch[w].got >= 1 /\ watch[w].got + Len(watch[w].buf) = sequence
        BY <2>3, Zenon DEF WatchInv, Sound
      <3>2. /\ watch'[w] \in Watch
            /\ watch'[w].status = (IF next \in Terminal THEN "closed" ELSE "open")
            /\ watch'[w].got = watch[w].got /\ Len(watch'[w].buf) = Len(watch[w].buf) + 1
            /\ Consecutive(watch'[w])
        <4>1. (next \in Terminal) \in BOOLEAN
          OBVIOUS
        <4> HIDE DEF IndInv
        <4> QED
          BY <2>1, <2>3, <3>1, <1>1, <4>1, DeliverFits, ZenonT(30)
      <3>3. watch[w].got \in Nat /\ Len(watch[w].buf) \in Nat
        BY <2>1 DEF Watch
      <3>4. watch'[w].got + Len(watch'[w].buf) = sequence + 1
        <4> HIDE DEF IndInv
        <4> DEFINE got == watch[w].got
                   before == Len(watch[w].buf)
                   after == Len(watch'[w].buf)
        <4>1. /\ got \in Nat /\ before \in Nat /\ got + before = sequence /\ after = before + 1
              /\ watch'[w].got = got
          BY <3>1, <3>2, <3>3, Zenon
        <4> HIDE DEF got, before, after
        <4>2. got + after = sequence + 1
          BY <4>1
        <4> QED BY <4>1, <4>2, Zenon DEF after
      <3>5. watch'[w].status \notin {"none", "found"}
        BY <3>2, Zenon
      <3>6. watch'[w].status = "open" => next \notin Terminal
        BY <3>2, Zenon
      <3>7. watch'[w].status = "closed" => next \in Terminal
        BY <3>2, Zenon
      <3> QED
        BY <3>1, <3>2, <3>4, <3>5, <3>6, <3>7, Zenon
    <2> QED
      BY <2>2, <2>3, Zenon
  <1>6. watch' \in [Watchers -> Watch] /\ WatchInv'
    BY <1>2, <1>5, Zenon DEF publish, WatchInv, Sound, Consecutive
  <1> QED
    BY <1>1, <1>2, <1>3, <1>4, <1>6 DEF EventsInv

\* A step that publishes no event leaves every watch as it is.
LEMMA UnpublishedInd ==
  ASSUME IndInv, UNCHANGED <<state, sequence, runDone, panicked, watch>>
  PROVE  EventsInv'
  BY Zenon DEF IndInv, TypeOK, EventsInv, RunDoneOnce, SequenceInv, WatchInv, Sound,
         Consecutive

\* cancel ends a CREATED Execution at once and only signals a RUNNING one.
LEMMA CancelEffect ==
  ASSUME IndInv, cancelEffect
  PROVE  /\ EventsInv' /\ canceled' \in BOOLEAN
         /\ \/ state' = state /\ state # "created"
            \/ state = "created" /\ state' = "cancelled"
  <1>1. CASE state = "created"
    <2>1. publish("cancelled") /\ canceled' = TRUE
      BY <1>1, Zenon DEF cancelEffect, Terminal
    <2>2. "cancelled" \in {"running"} \cup Terminal
      BY Zenon DEF Terminal
    <2> QED
      BY <1>1, <2>1, <2>2, PublishInd, Zenon DEF publish
  <1>2. CASE state # "created"
    <2>1. UNCHANGED <<state, sequence, runDone, panicked, watch>> /\ canceled' \in BOOLEAN
      BY <1>2, Zenon DEF cancelEffect, IndInv, TypeOK
    <2> QED
      BY <1>2, <2>1, UnpublishedInd, Zenon
  <1> QED
    BY <1>1, <1>2, Zenon

\* The rest of the invariant is the state of the run, of the close and their types.
LEMMA Combine ==
  ASSUME EventsInv', RunInv', CloseInv',
         failure' \in {"none", "runtime", "session_creation", "cleanup"},
         canceled' \in BOOLEAN /\ closeOnce' \in BOOLEAN,
         session' \in {"none", "open", "closed"},
         closeErr' \in Errors \cup {"nil"} /\ runErr' \in Errors \cup {"nil"},
         run' \in {"none", "create", "run", "close", "finish", "done"},
         category' \in {"none", "runtime", "session_creation", "cleanup"},
         close' \in {"idle", "started", "finished"},
         worker' \in {"none", "cancel", "await", "watchers", "complete", "done"},
         caller' \in [Callers -> {"idle", "found", "done"}],
         plan' \in {"open", "closed"}
  PROVE  IndInv'
  BY Zenon DEF EventsInv, IndInv, TypeOK

\* A caller that looked the Execution up earlier starts or cancels it now.
LEMMA CallerInd ==
  ASSUME IndInv, NEW c \in Callers, lookup(c) \/ start(c) \/ cancel(c)
  PROVE  IndInv'
  <1> USE DEF IndInv, TypeOK, runtimeVars, runVars
  <1>1. CASE lookup(c)
    <2>1. EventsInv'
      BY <1>1, UnpublishedInd, Zenon DEF lookup
    <2>2. RunInv' /\ CloseInv'
      BY <1>1, Zenon DEF lookup, RunInv, CloseInv, InRun
    <2> QED
      BY <1>1, <2>1, <2>2, Combine DEF lookup
  <1>2. CASE start(c)
    <2>1. CASE state = "created" /\ publish("running") /\ run' = "create"
      <3>1. EventsInv' /\ state' = "running"
        BY <2>1, PublishInd, Zenon DEF publish
      <3>2. RunInv' /\ CloseInv'
        BY <1>2, <2>1, <3>1, Zenon DEF start, RunInv, CloseInv, InRun, Terminal
      <3> QED
        BY <1>2, <2>1, <3>1, <3>2, Combine DEF start
    <2>2. CASE UNCHANGED <<state, sequence, runDone, panicked, watch, run>>
      <3>1. EventsInv'
        BY <2>2, UnpublishedInd, Zenon
      <3>2. RunInv' /\ CloseInv'
        BY <1>2, <2>2, Zenon DEF start, RunInv, CloseInv, InRun
      <3> QED
        BY <1>2, <2>2, <3>1, <3>2, Combine DEF start
    <2> QED
      BY <1>2, <2>1, <2>2, Zenon DEF start
  <1>3. CASE cancel(c)
    <2>1. /\ EventsInv' /\ canceled' \in BOOLEAN
          /\ state' = state \/ (state = "created" /\ state' = "cancelled")
      BY <1>3, CancelEffect, Zenon DEF cancel
    <2>2. RunInv' /\ CloseInv'
      BY <1>3, <2>1, Zenon DEF cancel, RunInv, CloseInv, InRun, Terminal
    <2> QED
      BY <1>3, <2>1, <2>2, Combine DEF cancel
  <1> QED
    BY <1>1, <1>2, <1>3, Zenon

\* A step of one subscription keeps the others as they are.
LEMMA SubscriptionInd ==
  ASSUME IndInv, NEW w \in Watchers, NEW r \in Watch, Sound(r), watch' = [watch EXCEPT ![w] = r],
         UNCHANGED <<state, failure, sequence, runDone, panicked, runtimeVars, runVars, close,
                     worker, caller, plan>>
  PROVE  IndInv'
  <1>1. watch' \in [Watchers -> Watch] /\ \A x \in Watchers : Sound(watch'[x])
    BY Zenon DEF IndInv, TypeOK, WatchInv
  <1>2. WatchInv'
    BY <1>1, Zenon DEF WatchInv, Sound, Consecutive
  <1>3. EventsInv'
    BY <1>1, <1>2, Zenon DEF IndInv, TypeOK, EventsInv, RunDoneOnce, SequenceInv
  <1>4. RunInv' /\ CloseInv'
    BY Zenon DEF IndInv, RunInv, CloseInv, InRun, runtimeVars, runVars
  <1> QED
    BY <1>3, <1>4, Combine DEF IndInv, TypeOK, runtimeVars, runVars

\* execution.subscribe, the reader of the channel and its cancellation.
LEMMA WatcherInd ==
  ASSUME IndInv, NEW w \in Watchers,
         lookupWatch(w) \/ subscribe(w) \/ receive(w) \/ unsubscribe(w)
  PROVE  IndInv'
  <1> DEFINE s == watch[w]
  <1>0. /\ s \in Watch /\ Sound(s) /\ s.got \in Nat /\ s.buf \in Seq(Nat) /\ s.lagged \in BOOLEAN
        /\ watch \in [Watchers -> Watch] /\ sequence \in Nat
    BY Zenon DEF IndInv, TypeOK, WatchInv, Watch
  <1>1. CASE lookupWatch(w)
    <2> DEFINE r == [s EXCEPT !.status = "found"]
    <2>1. watch' = [watch EXCEPT ![w] = r] /\ s.status = "none"
      BY <1>0, <1>1, Zenon DEF lookupWatch
    <2>2. r \in Watch /\ Sound(r)
      BY <1>0, <2>1, Zenon DEF Watch, Sound, Consecutive
    <2> QED
      BY <1>1, <2>1, <2>2, SubscriptionInd, Zenon DEF lookupWatch
  <1>2. CASE subscribe(w)
    <2> DEFINE r == [s EXCEPT !.got = sequence,
                              !.status = IF state \in Terminal THEN "closed" ELSE "open"]
    <2>1. watch' = [watch EXCEPT ![w] = r] /\ s.status = "found"
      BY <1>0, <1>2, Zenon DEF subscribe
    <2>2. s.buf = <<>> /\ sequence >= 1
      BY <1>0, <2>1, Zenon DEF Sound, IndInv, SequenceInv
    <2>3. (IF state \in Terminal THEN "closed" ELSE "open") \in {"open", "closed"}
      OBVIOUS
    <2>4. r \in Watch
      BY <1>0, <2>3, Zenon DEF Watch
    <2>5. /\ r.got = sequence /\ r.buf = <<>>
          /\ r.status = IF state \in Terminal THEN "closed" ELSE "open"
      BY <1>0, <2>2, Zenon DEF Watch
    <2>6. Sound(r)
      BY <1>0, <2>2, <2>4, <2>5 DEF Sound, Consecutive
    <2> QED
      BY <1>2, <2>1, <2>4, <2>6, SubscriptionInd, Zenon DEF subscribe
  <1>3. CASE receive(w)
    <2> DEFINE r == [s EXCEPT !.got = Head(s.buf), !.buf = Tail(s.buf)]
    <2>1. watch' = [watch EXCEPT ![w] = r] /\ s.buf # <<>>
      BY <1>0, <1>3, Zenon DEF receive
    <2>2. /\ Head(s.buf) = s.got + 1 /\ Len(Tail(s.buf)) = Len(s.buf) - 1
          /\ Tail(s.buf) \in Seq(Nat)
          /\ \A i \in 1..(Len(s.buf) - 1) : Tail(s.buf)[i] = s.buf[i + 1]
      <3>1. s.buf \in Seq(Nat) /\ s.buf # <<>> /\ \A i \in 1..Len(s.buf) : s.buf[i] = s.got + i
        BY <1>0, <2>1, Zenon DEF Sound, Consecutive
      <3> HIDE DEF s
      <3>2. Len(s.buf) \in Nat \ {0} /\ Head(s.buf) = s.buf[1]
        BY <3>1
      <3>3. Head(s.buf) = s.got + 1
        BY <3>1, <3>2
      <3> QED
        BY <3>1, <3>2, <3>3
    <2>3. Head(s.buf) \in Nat
      BY <1>0, <2>2
    <2>4. r \in Watch
      BY <1>0, <2>3, <2>2, Zenon DEF Watch
    <2>5. r.got = s.got + 1 /\ r.buf = Tail(s.buf) /\ r.status = s.status
      BY <1>0, <2>2, Zenon DEF Watch
    <2>6. Sound(r)
      <3> HIDE DEF r
      <3>1. Len(s.buf) \in Nat \ {0} /\ Len(r.buf) = Len(s.buf) - 1
        BY <1>0, <2>1, <2>2, <2>5
      <3>2. Consecutive(r)
        <4> SUFFICES ASSUME NEW i \in 1..Len(r.buf) PROVE r.buf[i] = r.got + i
          BY Zenon DEF Consecutive
        <4>1. i + 1 \in 1..Len(s.buf) /\ i \in 1..(Len(s.buf) - 1)
          BY <3>1
        <4>2. s.buf[i + 1] = s.got + (i + 1)
          BY <1>0, <4>1, Zenon DEF Sound, Consecutive
        <4>3. r.buf[i] = s.got + (i + 1) /\ r.got = s.got + 1
          BY <2>2, <2>5, <4>1, <4>2, Zenon
        <4>4. s.got \in Nat
          BY <1>0, Zenon DEF Watch
        <4>5. i \in Nat
          BY <3>1
        <4> QED
          BY <4>3, <4>4, <4>5, ShiftByOne, Zenon
      <3>3. s.status \notin {"none", "found"}
        BY <1>0, <2>1, Zenon DEF Sound
      <3>4. s.status \in {"open", "closed"} => s.got >= 1 /\ s.got + Len(s.buf) = sequence
        BY <1>0, Zenon DEF Sound
      <3>5. s.got \in Nat
        BY <1>0, Zenon DEF Watch
      <3>6. r.status \in {"open", "closed"} => r.got >= 1 /\ r.got + Len(r.buf) = sequence
        BY <2>5, <3>1, <3>4, <3>5, ReceiveOne, Zenon
      <3>7. /\ s.status = "open" => state \notin Terminal
            /\ s.status = "closed" => state \in Terminal
        BY <1>0, Zenon DEF Sound
      <3> QED
        BY <2>5, <3>2, <3>3, <3>6, <3>7, Zenon DEF Sound
    <2> QED
      BY <1>3, <2>1, <2>4, <2>6, SubscriptionInd, Zenon DEF receive
  <1>4. CASE unsubscribe(w)
    <2> DEFINE r == [s EXCEPT !.status = "cancelled"]
    <2>1. watch' = [watch EXCEPT ![w] = r]
      BY <1>0, <1>4, Zenon DEF unsubscribe
    <2>2. r \in Watch /\ Sound(r)
      BY <1>0, <2>1, Zenon DEF Watch, Sound, Consecutive
    <2> QED
      BY <1>4, <2>1, <2>2, SubscriptionInd, Zenon DEF unsubscribe
  <1> QED
    BY <1>1, <1>2, <1>3, <1>4, Zenon

\* The run goroutine: it alone leaves RUNNING, after it closed its Session.
LEMMA RunInd ==
  ASSUME IndInv, newSession \/ sessionRun \/ runClose \/ finish
  PROVE  IndInv'
  <1> USE DEF IndInv, TypeOK, Errors
  <1>1. CASE newSession
    <2>1. EventsInv'
      BY <1>1, UnpublishedInd, Zenon DEF newSession
    <2>2. RunInv' /\ CloseInv'
      BY <1>1, Zenon DEF newSession, RunInv, CloseInv, InRun, Terminal
    <2> QED
      BY <1>1, <2>1, <2>2, Combine DEF newSession
  <1>2. CASE sessionRun
    <2>1. EventsInv'
      BY <1>2, UnpublishedInd, Zenon DEF sessionRun
    <2>2. RunInv' /\ CloseInv'
      BY <1>2, Zenon DEF sessionRun, RunInv, CloseInv, InRun, runtimeVars
    <2> QED
      BY <1>2, <2>1, <2>2, Combine DEF sessionRun, runtimeVars
  <1>3. CASE runClose
    <2>1. EventsInv'
      BY <1>3, UnpublishedInd, Zenon DEF runClose
    <2>2. ~closeOnce /\ state = "running"
      BY <1>3, Zenon DEF runClose, RunInv, InRun, Terminal
    <2>3. /\ closeOnce' = TRUE /\ session' \in {"none", "closed"} /\ closeErr' \in Errors \cup {"nil"}
      BY <1>3, <2>2, Zenon DEF runClose, closeSession
    <2>4. RunInv' /\ CloseInv'
      BY <1>3, <2>2, <2>3, Zenon DEF runClose, RunInv, CloseInv, InRun, Terminal
    <2>5. runErr' \in Errors \cup {"nil"} /\ category' \in {"none", "runtime", "session_creation", "cleanup"}
      BY <1>3, <2>3, Zenon DEF runClose, join
    <2> QED
      BY <1>3, <2>1, <2>3, <2>4, <2>5, Combine DEF runClose
  <1>4. CASE finish
    <2>1. state = "running"
      BY <1>4, Zenon DEF finish, RunInv, InRun
    <2>2. PICK next \in Terminal : publish(next)
      BY <1>4, <2>1, Zenon DEF finish, Terminal
    <2>3. EventsInv' /\ state' \in Terminal
      BY <2>1, <2>2, PublishInd, Zenon DEF publish, Terminal
    <2>4. failure' \in {"none", "runtime", "session_creation", "cleanup"}
      BY <1>4, Zenon DEF finish
    <2>5. RunInv' /\ CloseInv'
      BY <1>4, <2>1, <2>3, Zenon DEF finish, RunInv, CloseInv, InRun, Terminal, runtimeVars
    <2> QED
      BY <1>4, <2>3, <2>4, <2>5, Combine DEF finish, runtimeVars
  <1> QED
    BY <1>1, <1>2, <1>3, <1>4, Zenon

\* The close worker closes the Session only after the run, and its end of the
\* watchers finds none open.
LEMMA CloseInd ==
  ASSUME IndInv,
         \/ beginClose \/ settleCancel \/ settleSession \/ settleWatchers
         \/ completeClose \/ planClose
  PROVE  IndInv'
  <1> USE DEF IndInv, TypeOK
  <1>1. CASE beginClose
    <2>1. EventsInv'
      BY <1>1, UnpublishedInd, Zenon DEF beginClose
    <2>2. RunInv' /\ CloseInv'
      BY <1>1, Zenon DEF beginClose, RunInv, CloseInv, InRun, runtimeVars, runVars
    <2> QED
      BY <1>1, <2>1, <2>2, Combine DEF beginClose, runtimeVars, runVars
  <1>2. CASE settleCancel
    <2>1. /\ EventsInv' /\ canceled' \in BOOLEAN /\ state' # "created"
          /\ state' = state \/ (state = "created" /\ state' = "cancelled")
      BY <1>2, CancelEffect, Zenon DEF settleCancel
    <2>2. RunInv' /\ CloseInv'
      BY <1>2, <2>1, Zenon DEF settleCancel, RunInv, CloseInv, InRun, Terminal, runVars
    <2> QED
      BY <1>2, <2>1, <2>2, Combine DEF settleCancel, runVars
  <1>3. CASE settleSession
    <2>1. EventsInv'
      BY <1>3, UnpublishedInd, Zenon DEF settleSession
    <2>2. state \in Terminal
      BY <1>3, Zenon DEF settleSession, RunDoneOnce
    <2>3. session = session' /\ session # "open" /\ closeErr' = closeErr /\ closeOnce' = TRUE
      BY <1>3, <2>2, Zenon DEF settleSession, closeSession, RunInv, InRun, Terminal
    <2>4. RunInv' /\ CloseInv'
      BY <1>3, <2>2, <2>3, Zenon DEF settleSession, RunInv, CloseInv, InRun, Terminal, runVars
    <2> QED
      BY <1>3, <2>1, <2>3, <2>4, Combine DEF settleSession, runVars
  <1>4. CASE settleWatchers
    <2>1. state \in Terminal
      BY <1>4, Zenon DEF settleWatchers, CloseInv
    <2>2. watch' = watch
      BY <1>4, <2>1, Zenon DEF settleWatchers, WatchInv, Sound
    <2>3. EventsInv'
      BY <1>4, <2>2, UnpublishedInd, Zenon DEF settleWatchers
    <2>4. RunInv' /\ CloseInv'
      BY <1>4, <2>1, Zenon DEF settleWatchers, RunInv, CloseInv, InRun, Terminal, runtimeVars, runVars
    <2> QED
      BY <1>4, <2>3, <2>4, Combine DEF settleWatchers, runtimeVars, runVars
  <1>5. CASE completeClose
    <2>1. EventsInv'
      BY <1>5, UnpublishedInd, Zenon DEF completeClose
    <2>2. RunInv' /\ CloseInv'
      BY <1>5, Zenon DEF completeClose, RunInv, CloseInv, InRun, runtimeVars, runVars
    <2> QED
      BY <1>5, <2>1, <2>2, Combine DEF completeClose, runtimeVars, runVars
  <1>6. CASE planClose
    <2>1. EventsInv'
      BY <1>6, UnpublishedInd, Zenon DEF planClose
    <2>2. RunInv' /\ CloseInv'
      BY <1>6, Zenon DEF planClose, RunInv, CloseInv, InRun, runtimeVars, runVars
    <2> QED
      BY <1>6, <2>1, <2>2, Combine DEF planClose, runtimeVars, runVars
  <1> QED
    BY <1>1, <1>2, <1>3, <1>4, <1>5, <1>6, Zenon

\* The run, its callers, the close worker and the watches keep the inductive
\* invariant, for any callers, watchers and buffer of at least two.
THEOREM Inductive == Spec => []IndInv
  <1>1. IndInv /\ UNCHANGED vars => IndInv'
    <2> SUFFICES ASSUME IndInv, UNCHANGED vars PROVE IndInv'
      OBVIOUS
    <2>1. EventsInv'
      BY UnpublishedInd, Zenon DEF vars
    <2>2. RunInv' /\ CloseInv'
      BY Zenon DEF IndInv, RunInv, CloseInv, InRun, vars, runtimeVars, runVars
    <2> QED
      BY <2>1, <2>2, Combine DEF IndInv, TypeOK, vars, runtimeVars, runVars
  <1>2. IndInv /\ [Next]_vars => IndInv'
    BY <1>1, CallerInd, WatcherInd, RunInd, CloseInd, Zenon DEF Next
  <1> QED
    BY InitInd, <1>2, PTL DEF Spec
-----------------------------------------------------------------------------
\* The run ends once and before its Plan is closed, whichever of start, cancel
\* and close a caller that looked the Execution up earlier comes too late with.
THEOREM RunContained == Spec => []RunIsContained
  <1>1. IndInv => RunIsContained
    BY Zenon DEF IndInv, TypeOK, RunIsContained, RunDoneOnce, PlanOutlivesRun, RunInv, CloseInv, InRun,
           Terminal
  <1> QED
    BY Inductive, <1>1, PTL

\* No event is lost, repeated or cut off: every watch is consecutive and ends with
\* the terminal event.  Two events of buffer are enough, so the eight of
\* watcherBufferSize never disconnect a watcher.
THEOREM WatchesComplete == Spec => []WatchComplete
  <1>1. IndInv => WatchComplete
    BY Zenon DEF IndInv, WatchInv, Sound, Consecutive, WatchComplete
  <1> QED
    BY Inductive, <1>1, PTL
=============================================================================
