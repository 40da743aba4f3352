--------------------------- MODULE DapServerProofs --------------------------
(***************************************************************************)
(* The safety of the debug adapter (DapServer), for any set of positions,  *)
(* any capacity of the event channel and any number of stops and           *)
(* replacements.  The inductive invariant says how far the adapter's       *)
(* tables may lag behind the debug Session: by the events that are still   *)
(* queued for watchDebugSession and by the command that still runs.        *)
(***************************************************************************)
EXTENDS DapServer, TLAPS

Native == Positions \X Nat
Reasons == {"none", "entry", "error", "step", "breakpoint"}
EntryReasons == {"entry", "error"}
Kinds == {"running", "stopped"} \cup Terminal

BreakpointTables == [pending : Nat, active : SUBSET Native, retired : SUBSET Native]
InitialStops == [frozen : BOOLEAN, bindings : SUBSET Native]
AnswerSet == [kind : {"stopped", "completed"}, reason : Reasons, hits : SUBSET Native]
EventSet == [kind : Kinds, stop : 0..MaxStops, reason : Reasons, hits : SUBSET Native]
RequestSet == [kind : {"none", "frame", "value"}, of : 0..MaxStops]

RunSteps == {"reading", "open", "session", "debug", "watch", "inspect", "allocate", "returned"}
            \cup Cleanup
Serving == {"reading", "inspect", "allocate"}
Resources == {"runtime", "workspace", "session", "debug"}

\* The types of what the request goroutine writes, and of the Session's scalars.
ControlType ==
  /\ run \in RunSteps
  /\ stage \in {"new", "initialized", "launched", "configured"}
  /\ launch \in {"none", "pending", "ok", "failed", "dropped"}
  /\ watch \in {"none", "loop", "ending", "done"}
  /\ state \in {"none", "created", "running", "stopped"} \cup Terminal
  /\ sub \in {"none", "open", "closed"}

\* The types of the flags.
FlagType ==
  /\ locked \in BOOLEAN /\ terminating \in BOOLEAN /\ lagged \in BOOLEAN
  /\ ended \in BOOLEAN /\ stopOnEntry \in BOOLEAN

\* The types of the tables and of the events between them.
DataType ==
  /\ installed \in SUBSET Native /\ replaces \in Nat
  /\ breakpoints \in BreakpointTables
  /\ initialStop = None \/ initialStop \in InitialStops
  /\ decided = None \/ decided \in AnswerSet
  /\ stop \in 0..MaxStops
  /\ queue \in Seq(EventSet) /\ Len(queue) <= watcherBufferSize

\* What a request and the handles are about.
HandleType ==
  /\ handles \subseteq Handles
  /\ request \in RequestSet
  /\ run = "allocate" => request.kind # "none" /\ request.of # 0
  /\ run = "inspect" => request.kind # "none"

Launched == stage \in {"launched", "configured"}

\* What exists when the launch has come to step r, and what cleanup has left at r.
Made(r) ==
  CASE r = "open" -> {"runtime"}
    [] r = "session" -> {"runtime", "workspace"}
    [] r = "debug" -> {"runtime", "workspace", "session"}
    [] OTHER -> Resources

Left(r) ==
  CASE r = "closeSession" -> {"runtime", "workspace", "session"}
    [] r = "closeWorkspace" -> {"runtime", "workspace"}
    [] r = "closeRuntime" -> {"runtime"}
    [] r = "returned" -> {}
    [] OTHER -> Resources

Launching == {"open", "session", "debug", "watch"}
Closing == {"closeSession", "closeWorkspace", "closeRuntime", "returned"}

OwnInv ==
  /\ Launched <=> state # "none"
  /\ run \in Launching => stage = "initialized" /\ owned = Made(run)
  /\ run \notin Launching => owned = IF Launched THEN Left(run) ELSE Left(run) \cap {"runtime"}
  /\ run \in Closing => state \in Terminal \cup {"none"}

\* Before the program is started nothing was published, translated or answered.
EarlyInv ==
  /\ state \in {"none", "created"} =>
       /\ stop = 0 /\ queue = <<>> /\ decided = None /\ reported.stop = 0
       /\ suppressed = {} /\ skipped = {} /\ ~lagged /\ ~ended
  /\ state = "none" =>
       /\ watch = "none" /\ sub = "none" /\ ~terminating /\ installed = {}
       /\ breakpoints = newBreakpointIDs /\ initialStop = None
  /\ state = "created" /\ run \in Serving =>
       /\ watch = "loop" /\ sub = "open"
       /\ initialStop \in InitialStops /\ ~initialStop.frozen /\ initialStop.bindings = installed
  /\ stage = "launched" => state \in {"created"} \cup Terminal /\ stop = 0

LaunchInv == launch = "pending" => state = "created" /\ ~terminating

\* The stops are numbered; only the first is the entry, and hits nothing by itself.
EntryFirst(n, stopped) ==
  (n = 1 <=> stopped.reason \in EntryReasons) /\ (n = 1 => stopped.hits = {})

CommandInv ==
  /\ state = "stopped" => stop # 0
  /\ decided # None =>
       /\ state \in {"running"} \cup Terminal
       /\ decided.kind = "stopped" => stop < MaxStops /\ EntryFirst(stop + 1, decided)

\* The queued stops are distinct, in order and no later than the last one.
Ordered(q) ==
  \A i, j \in 1..Len(q) :
    i < j /\ q[i].kind = "stopped" /\ q[j].kind = "stopped" => q[i].stop < q[j].stop
Named(q, n) ==
  \A i \in 1..Len(q) : q[i].kind = "stopped" =>
    q[i].stop \in 1..n /\ EntryFirst(q[i].stop, q[i])
EndsLast(q) == \A i \in 1..Len(q) : q[i].kind \in Terminal => i = Len(q)
HasEnd(q) == \E i \in 1..Len(q) : q[i].kind \in Terminal
Holds(q, n) == \E i \in 1..Len(q) : q[i].kind = "stopped" /\ q[i].stop = n

QueueInv ==
  /\ Ordered(queue) /\ Named(queue, stop) /\ EndsLast(queue)
  /\ HasEnd(queue) => state \in Terminal /\ sub # "open"

\* The last stop is on its way to the client, or was shown.
ShownInv ==
  sub = "open" /\ state = "stopped" => Holds(queue, stop) \/ reported.stop = stop \/ ended

Known == breakpoints.active \cup breakpoints.retired
Running == IF state = "running" THEN 1 ELSE 0

\* A command is pending for every stop that is queued and for the one to come.
Covered(q, n, r, p) == \A i \in 1..Len(q) : q[i].kind = "stopped" => n + 1 + r <= p + q[i].stop
HitsWithin(q, k) == \A i \in 1..Len(q) : q[i].kind = "stopped" => q[i].hits \subseteq k

TableInv ==
  watch = "loop" =>
    /\ state \notin Terminal => breakpoints.active = installed
    /\ Running <= breakpoints.pending
    /\ Covered(queue, stop, Running, breakpoints.pending)
    /\ HitsWithin(queue, Known)
    /\ state = "running" /\ decided # None => decided.hits \subseteq Known

\* The entry stop is still to be translated.
EntryDue == (state = "running" /\ stop = 0) \/ Holds(queue, 1)

EntryInv ==
  watch = "loop" /\ EntryDue =>
    /\ initialStop \in InitialStops /\ initialStop.frozen
    /\ initialStop.bindings \subseteq Known
    /\ {n[1] : n \in initialStop.bindings} = atStart

\* What the client was told, and what was hidden from it.
ReportInv ==
  /\ StopsAreExplained
  /\ reported.stop \in 0..stop
  /\ \A k \in 1..stop : Holds(queue, k) => reported.stop < k
  /\ skipped # {} => suppressed # {} /\ initialStop = None
  /\ \A s, t \in skipped : s = t

\* A handle, or an inspection on its way, belongs to the current stop or to the
\* one that the adapter resumed.
Belongs(n) == (n = stop /\ state # "running") \/ n \in skipped

HandleInv ==
  /\ \A h \in handles : Belongs(h[2])
  /\ run \in {"inspect", "allocate"} /\ request.of # 0 => Belongs(request.of)
  /\ aliased \subseteq skipped

IndInv ==
  /\ ControlType /\ FlagType /\ DataType /\ HandleType
  /\ OwnInv /\ EarlyInv /\ LaunchInv /\ CommandInv /\ QueueInv /\ ShownInv
  /\ TableInv /\ EntryInv /\ ReportInv /\ HandleInv
-----------------------------------------------------------------------------
(* The event channel: what taking the first event and adding one preserve *)

\* Receiving from the channel: the other events move up by one.
LEMMA TailElements ==
  ASSUME NEW S, NEW q \in Seq(S), q # <<>>
  PROVE  /\ Tail(q) \in Seq(S) /\ Len(Tail(q)) = Len(q) - 1 /\ Len(q) \in Nat /\ Len(q) # 0
         /\ Head(q) = q[1] /\ q[1] \in S
         /\ \A i \in 1..Len(Tail(q)) : Tail(q)[i] = q[i + 1] /\ i + 1 \in 1..Len(q)
PROOF
  OBVIOUS

\* Sending on the channel: the events already there stay where they are.
LEMMA AppendElements ==
  ASSUME NEW S, NEW q \in Seq(S), NEW e \in S
  PROVE  /\ Append(q, e) \in Seq(S) /\ Len(Append(q, e)) = Len(q) + 1 /\ Len(q) \in Nat
         /\ Append(q, e)[Len(q) + 1] = e
         /\ \A i \in 1..Len(q) : Append(q, e)[i] = q[i] /\ i \in 1..(Len(q) + 1)
PROOF
  OBVIOUS

\* Receiving keeps the order of the stops that publishLocked numbered.
LEMMA TailOrdered ==
  ASSUME NEW q \in Seq(EventSet), q # <<>>, Ordered(q), EndsLast(q), NEW n \in Nat, Named(q, n)
  PROVE  Ordered(Tail(q)) /\ EndsLast(Tail(q)) /\ Named(Tail(q), n)
PROOF
  <1> DEFINE t == Tail(q)
  <1>1. /\ Len(t) = Len(q) - 1 /\ Len(q) \in Nat
        /\ \A i \in 1..Len(t) : t[i] = q[i + 1] /\ i + 1 \in 1..Len(q)
    BY TailElements, Zenon
  <1> HIDE DEF t
  <1>2. Ordered(t)
    <2>1. SUFFICES ASSUME NEW i \in 1..Len(t), NEW j \in 1..Len(t), i < j,
                          t[i].kind = "stopped", t[j].kind = "stopped"
                   PROVE  t[i].stop < t[j].stop
      BY Zenon DEF Ordered
    <2>2. i + 1 \in 1..Len(q) /\ j + 1 \in 1..Len(q) /\ i + 1 < j + 1
      BY <1>1, <2>1
    <2>3. QED BY <1>1, <2>1, <2>2, Zenon DEF Ordered
  <1>3. EndsLast(t)
    <2>1. SUFFICES ASSUME NEW i \in 1..Len(t), t[i].kind \in Terminal PROVE i = Len(t)
      BY Zenon DEF EndsLast
    <2>2. i + 1 = Len(q)
      BY <1>1, <2>1, Zenon DEF EndsLast
    <2>3. Len(t) = Len(q) - 1 /\ Len(q) \in Nat
      BY <1>1, Zenon
    <2>4. QED BY <2>2, <2>3
  <1>4. Named(t, n)
    BY <1>1, Zenon DEF Named
  <1>5. QED BY <1>2, <1>3, <1>4, Zenon DEF t

\* Receiving leaves no event that was not queued.
LEMMA TailSubset ==
  ASSUME NEW q \in Seq(EventSet), q # <<>>
  PROVE  /\ HasEnd(Tail(q)) => HasEnd(q)
         /\ \A n : Holds(Tail(q), n) => Holds(q, n)
         /\ \A n : Holds(q, n) => Holds(Tail(q), n) \/ (Head(q).kind = "stopped" /\ Head(q).stop = n)
         /\ \A k : HitsWithin(q, k) => HitsWithin(Tail(q), k)
PROOF
  <1> DEFINE t == Tail(q)
  <1>1. /\ Len(t) = Len(q) - 1 /\ Len(q) \in Nat /\ Head(q) = q[1]
        /\ \A i \in 1..Len(t) : t[i] = q[i + 1] /\ i + 1 \in 1..Len(q)
    BY TailElements, Zenon
  <1> HIDE DEF t
  <1>2. HasEnd(t) => HasEnd(q)
    BY <1>1, Zenon DEF HasEnd
  <1>3. ASSUME NEW n, Holds(t, n) PROVE Holds(q, n)
    BY <1>1, <1>3, Zenon DEF Holds
  <1>4. ASSUME NEW n, Holds(q, n) PROVE Holds(t, n) \/ (Head(q).kind = "stopped" /\ Head(q).stop = n)
    <2>1. PICK i \in 1..Len(q) : q[i].kind = "stopped" /\ q[i].stop = n
      BY <1>4, Zenon DEF Holds
    <2>2. CASE i = 1
      BY <1>1, <2>1, <2>2, Zenon
    <2>3. CASE i # 1
      <3>1. i - 1 \in 1..Len(t) /\ (i - 1) + 1 = i
        BY <1>1, <2>3
      <3>2. t[i - 1] = q[i]
        BY <1>1, <3>1, Zenon
      <3>3. QED BY <2>1, <3>1, <3>2, Zenon DEF Holds
    <2>4. QED BY <2>2, <2>3, Zenon
  <1>5. ASSUME NEW k, HitsWithin(q, k) PROVE HitsWithin(t, k)
    BY <1>1, <1>5, Zenon DEF HitsWithin
  <1>6. QED BY <1>2, <1>3, <1>4, <1>5, Zenon DEF t

\* The first stop queued was due first: the others need one command less.
LEMMA TailCovered ==
  ASSUME NEW q \in Seq(EventSet), q # <<>>, Ordered(q), NEW n \in Nat, Named(q, n),
         NEW r \in {0, 1}, NEW p \in Nat, Covered(q, n, r, p)
  PROVE  /\ Covered(Tail(q), n, r, p)
         /\ Head(q).kind = "stopped" =>
              /\ p > 0 /\ r <= p - 1
              /\ Covered(Tail(q), n, r, p - 1)
              /\ p - 1 = 0 => HitsWithin(Tail(q), {}) /\ r = 0
              /\ ~Holds(Tail(q), 1)
PROOF
  <1> DEFINE t == Tail(q)
  <1>1. /\ Len(t) = Len(q) - 1 /\ Len(q) \in Nat /\ Len(q) # 0 /\ Head(q) = q[1] /\ q[1] \in EventSet
        /\ \A i \in 1..Len(t) : t[i] = q[i + 1] /\ i + 1 \in 1..Len(q)
    BY TailElements, Zenon
  <1> HIDE DEF t
  <1>2. Covered(t, n, r, p)
    BY <1>1, Zenon DEF Covered
  <1>3. ASSUME Head(q).kind = "stopped"
        PROVE  /\ p > 0 /\ r <= p - 1
               /\ Covered(t, n, r, p - 1)
               /\ p - 1 = 0 => HitsWithin(t, {}) /\ r = 0
               /\ ~Holds(t, 1)
    <2>1. 1 \in 1..Len(q) /\ q[1].stop \in 1..n /\ n + 1 + r <= p + q[1].stop
      BY <1>1, <1>3 DEF Named, Covered
    <2>2. ASSUME NEW i \in 1..Len(t), t[i].kind = "stopped"
          PROVE  /\ t[i].stop \in 1..n /\ q[1].stop < t[i].stop
      <3>1. i + 1 \in 1..Len(q) /\ 1 < i + 1 /\ t[i] = q[i + 1]
        BY <1>1
      <3>2. QED BY <1>1, <1>3, <2>1, <2>2, <3>1, Zenon DEF Ordered, Named
    <2>3. Covered(t, n, r, p - 1)
      <3>1. SUFFICES ASSUME NEW i \in 1..Len(t), t[i].kind = "stopped"
                     PROVE  n + 1 + r <= (p - 1) + t[i].stop
        BY Zenon DEF Covered
      <3>2. t[i].stop \in 1..n /\ q[1].stop < t[i].stop
        BY <2>2, <3>1, Zenon
      <3>3. n + 1 + r <= p + q[1].stop /\ q[1].stop \in 1..n
        BY <2>1, Zenon
      <3>4. \A a, b \in 1..n : a < b /\ n + 1 + r <= p + a => n + 1 + r <= (p - 1) + b
        OBVIOUS
      <3>5. QED BY <3>2, <3>3, <3>4, Zenon
    <2>4. p > 0 /\ r <= p - 1
      BY <2>1
    <2>5. p - 1 = 0 => HitsWithin(t, {}) /\ r = 0
      <3>1. SUFFICES ASSUME p - 1 = 0 PROVE HitsWithin(t, {}) /\ r = 0
        OBVIOUS
      <3>2. ASSUME NEW i \in 1..Len(t), t[i].kind = "stopped" PROVE FALSE
        BY <2>1, <2>2, <3>1, <3>2
      <3>3. QED BY <2>4, <3>1, <3>2 DEF HitsWithin
    <2>6. ~Holds(t, 1)
      BY <2>1, <2>2 DEF Holds
    <2>7. QED BY <2>3, <2>4, <2>5, <2>6, Zenon
  <1>4. QED BY <1>2, <1>3, Zenon DEF t

\* Publishing a stop that is later than the queued ones keeps them in order, and
\* nothing follows the end of the session.
LEMMA AppendOrdered ==
  ASSUME NEW q \in Seq(EventSet), NEW e \in EventSet, NEW n \in Nat, NEW m \in Nat, n <= m,
         Ordered(q), Named(q, n), ~HasEnd(q),
         e.kind = "stopped" => e.stop \in 1..m /\ n < e.stop /\ EntryFirst(e.stop, e)
  PROVE  Ordered(Append(q, e)) /\ EndsLast(Append(q, e)) /\ Named(Append(q, e), m)
PROOF
  <1> DEFINE a == Append(q, e)
  <1>1. /\ Len(a) = Len(q) + 1 /\ Len(q) \in Nat /\ a[Len(q) + 1] = e
        /\ \A i \in 1..Len(q) : a[i] = q[i]
    BY AppendElements
  <1> HIDE DEF a
  <1>2. ASSUME NEW i \in 1..Len(a) PROVE i = Len(q) + 1 \/ i \in 1..Len(q)
    BY <1>1
  <1>3. Ordered(a)
    <2>1. SUFFICES ASSUME NEW i \in 1..Len(a), NEW j \in 1..Len(a), i < j,
                          a[i].kind = "stopped", a[j].kind = "stopped"
                   PROVE  a[i].stop < a[j].stop
      BY Zenon DEF Ordered
    <2>2. i \in 1..Len(q)
      BY <1>1, <2>1
    <2>3. a[i].stop \in 1..n
      BY <1>1, <2>1, <2>2, Zenon DEF Named
    <2>4. CASE j = Len(q) + 1
      BY <1>1, <2>1, <2>3, <2>4
    <2>5. CASE j \in 1..Len(q)
      BY <1>1, <2>1, <2>2, <2>5, Zenon DEF Ordered
    <2>6. QED BY <1>2, <2>4, <2>5, Zenon
  <1>4. EndsLast(a)
    BY <1>1, <1>2, Zenon DEF EndsLast, HasEnd
  <1>5. Named(a, m)
    <2>1. SUFFICES ASSUME NEW i \in 1..Len(a), a[i].kind = "stopped"
                   PROVE  a[i].stop \in 1..m /\ EntryFirst(a[i].stop, a[i])
      BY Zenon DEF Named
    <2>2. CASE i = Len(q) + 1
      BY <1>1, <2>1, <2>2, Zenon
    <2>3. CASE i \in 1..Len(q)
      BY <1>1, <2>1, <2>3 DEF Named
    <2>4. QED BY <1>2, <2>2, <2>3, Zenon
  <1>6. QED BY <1>3, <1>4, <1>5, Zenon DEF a

\* What the channel holds after publishing.
LEMMA AppendContents ==
  ASSUME NEW q \in Seq(EventSet), NEW e \in EventSet
  PROVE  /\ HasEnd(Append(q, e)) => HasEnd(q) \/ e.kind \in Terminal
         /\ \A k : Holds(Append(q, e), k) <=> Holds(q, k) \/ (e.kind = "stopped" /\ e.stop = k)
         /\ \A k : HitsWithin(q, k) /\ (e.kind = "stopped" => e.hits \subseteq k)
                     => HitsWithin(Append(q, e), k)
         /\ \A n, r, p : Covered(q, n, r, p) /\ (e.kind = "stopped" => n + 1 + r <= p + e.stop)
                           => Covered(Append(q, e), n, r, p)
PROOF
  <1> DEFINE a == Append(q, e)
  <1>1. /\ Len(a) = Len(q) + 1 /\ Len(q) \in Nat /\ a[Len(q) + 1] = e
        /\ \A i \in 1..Len(q) : a[i] = q[i]
    BY AppendElements
  <1> HIDE DEF a
  <1>2. /\ \A i \in 1..Len(a) : i = Len(q) + 1 \/ i \in 1..Len(q)
        /\ \A i \in 1..Len(q) : i \in 1..Len(a)
        /\ Len(q) + 1 \in 1..Len(a)
    BY <1>1
  <1>3. HasEnd(a) => HasEnd(q) \/ e.kind \in Terminal
    BY <1>1, <1>2, Zenon DEF HasEnd
  <1>4. ASSUME NEW k PROVE Holds(a, k) <=> Holds(q, k) \/ (e.kind = "stopped" /\ e.stop = k)
    BY <1>1, <1>2, Zenon DEF Holds
  <1>5. ASSUME NEW k, HitsWithin(q, k), e.kind = "stopped" => e.hits \subseteq k
        PROVE  HitsWithin(a, k)
    BY <1>1, <1>2, <1>5, Zenon DEF HitsWithin
  <1>6. ASSUME NEW n, NEW r, NEW p, Covered(q, n, r, p),
               e.kind = "stopped" => n + 1 + r <= p + e.stop
        PROVE  Covered(a, n, r, p)
    BY <1>1, <1>2, <1>6, Zenon DEF Covered
  <1>7. QED BY <1>3, <1>4, <1>5, <1>6, Zenon DEF a

\* publishLocked: the event is queued behind the others, or dropped with the
\* subscription cut off; the end of the session closes it.
LEMMA PublishCases ==
  ASSUME NEW events \in Seq(EventSet), Len(events) <= watcherBufferSize, NEW event \in EventSet,
         sub \in {"none", "open", "closed"}, publishAfter(events, event)
  PROVE  /\ queue' \in Seq(EventSet) /\ Len(queue') <= watcherBufferSize
         /\ sub' \in {"none", "open", "closed"} /\ (sub' = "open" => sub = "open")
         /\ \/ queue' = events /\ sub' # "open"
            \/ queue' = Append(events, event) /\ sub = "open" /\ (event.kind \in Terminal => sub' # "open")
PROOF
  <1>1. CASE sub # "open"
    BY <1>1, Zenon DEF publishAfter
  <1>2. CASE sub = "open" /\ Len(events) < watcherBufferSize
    <2>1. queue' = Append(events, event) /\ sub' = IF event.kind \in Terminal THEN "closed" ELSE "open"
      BY <1>2, Zenon DEF publishAfter
    <2>2. Append(events, event) \in Seq(EventSet) /\ Len(Append(events, event)) = Len(events) + 1
          /\ Len(events) \in Nat
      BY AppendElements, Zenon
    <2>3. QED BY <1>2, <2>1, <2>2, BoundsPositive
  <1>3. CASE sub = "open" /\ ~(Len(events) < watcherBufferSize)
    BY <1>3, Zenon DEF publishAfter
  <1>4. QED BY <1>1, <1>2, <1>3, Zenon

\* publishLocked, for the invariants of the channel: events is what stays queued,
\* n the last stop it may hold, m the last stop after this event.
LEMMA Publishing ==
  ASSUME NEW events \in Seq(EventSet), Len(events) <= watcherBufferSize, NEW event \in EventSet,
         sub \in {"none", "open", "closed"}, publishAfter(events, event),
         NEW n \in Nat, NEW m \in Nat, n <= m,
         Ordered(events), Named(events, n), EndsLast(events), sub = "open" => ~HasEnd(events),
         event.kind = "stopped" => /\ event.stop \in 1..m /\ n < event.stop
                                   /\ EntryFirst(event.stop, event)
  PROVE  /\ Ordered(queue') /\ Named(queue', m) /\ EndsLast(queue')
         /\ HasEnd(queue') => sub' # "open" /\ (HasEnd(events) \/ event.kind \in Terminal)
         /\ \A k : Holds(queue', k) => Holds(events, k) \/ (event.kind = "stopped" /\ event.stop = k)
         /\ sub' = "open" =>
              \A k : Holds(events, k) \/ (event.kind = "stopped" /\ event.stop = k) => Holds(queue', k)
         /\ \A k : HitsWithin(events, k) /\ (event.kind = "stopped" => event.hits \subseteq k)
                     => HitsWithin(queue', k)
         /\ \A r, p : Covered(events, m, r, p) /\ (event.kind = "stopped" => m + 1 + r <= p + event.stop)
                        => Covered(queue', m, r, p)
PROOF
  <1>1. /\ sub' = "open" => sub = "open"
        /\ \/ queue' = events /\ sub' # "open"
           \/ queue' = Append(events, event) /\ sub = "open" /\ (event.kind \in Terminal => sub' # "open")
    BY PublishCases, Zenon
  <1>2. CASE queue' = events /\ sub' # "open"
    <2>1. Named(events, m)
      BY DEF Named
    <2>2. QED BY <1>2, <2>1, Zenon
  <1>3. CASE queue' = Append(events, event) /\ sub = "open" /\ (event.kind \in Terminal => sub' # "open")
    <2>1. Ordered(queue') /\ EndsLast(queue') /\ Named(queue', m)
      BY <1>3, AppendOrdered, Zenon
    <2>2. /\ HasEnd(queue') => HasEnd(events) \/ event.kind \in Terminal
          /\ \A k : Holds(queue', k) <=> Holds(events, k) \/ (event.kind = "stopped" /\ event.stop = k)
          /\ \A k : HitsWithin(events, k) /\ (event.kind = "stopped" => event.hits \subseteq k)
                      => HitsWithin(queue', k)
          /\ \A r, p : Covered(events, m, r, p) /\ (event.kind = "stopped" => m + 1 + r <= p + event.stop)
                         => Covered(queue', m, r, p)
      BY <1>3, AppendContents, Zenon
    <2>3. QED BY <1>3, <2>1, <2>2, Zenon
  <1>4. QED BY <1>1, <1>2, <1>3, Zenon
-----------------------------------------------------------------------------
(* breakpointIDs *)

\* The operations on the table of breakpoint identities, field by field.
LEMMA TableFields ==
  ASSUME NEW b \in BreakpointTables, NEW rs \in SUBSET Native
  PROVE  /\ commandStarted(b) \in BreakpointTables
         /\ commandStarted(b).pending = b.pending + 1
         /\ commandStarted(b).active = b.active /\ commandStarted(b).retired = b.retired
         /\ commandStopped(b) \in BreakpointTables
         /\ b.pending > 0 => commandStopped(b).pending = b.pending - 1
         /\ commandStopped(b).active = b.active
         /\ commandStopped(b).retired = IF commandStopped(b).pending = 0 THEN {} ELSE b.retired
         /\ replace(b, rs) \in BreakpointTables
         /\ replace(b, rs).pending = b.pending /\ replace(b, rs).active = rs
         /\ finish(b) \in BreakpointTables
PROOF
  <1>1. /\ commandStarted(b) \in BreakpointTables
        /\ commandStarted(b).pending = b.pending + 1
        /\ commandStarted(b).active = b.active /\ commandStarted(b).retired = b.retired
    BY DEF BreakpointTables, commandStarted
  <1>2. /\ commandStopped(b) \in BreakpointTables
        /\ b.pending > 0 => commandStopped(b).pending = b.pending - 1
        /\ commandStopped(b).active = b.active
        /\ commandStopped(b).retired = IF commandStopped(b).pending = 0 THEN {} ELSE b.retired
    <2> DEFINE left == IF b.pending > 0 THEN b.pending - 1 ELSE 0
    <2>1. left \in Nat /\ b \in [pending : Nat, active : SUBSET Native, retired : SUBSET Native]
      BY DEF BreakpointTables
    <2>2. commandStopped(b) = [b EXCEPT !.pending = left, !.retired = IF left = 0 THEN {} ELSE @]
      BY Zenon DEF commandStopped
    <2> HIDE DEF left
    <2>3. /\ commandStopped(b).pending = left /\ commandStopped(b).active = b.active
          /\ commandStopped(b).retired = IF left = 0 THEN {} ELSE b.retired
          /\ commandStopped(b) \in BreakpointTables
      BY <2>1, <2>2, Zenon DEF BreakpointTables
    <2>4. QED BY <2>3, Zenon DEF left
  <1>3. /\ replace(b, rs) \in BreakpointTables
        /\ replace(b, rs).pending = b.pending /\ replace(b, rs).active = rs
    BY Zenon DEF BreakpointTables, replace
  <1>4. finish(b) \in BreakpointTables
    BY Zenon DEF BreakpointTables, finish, newBreakpointIDs
  <1>5. QED BY <1>1, <1>2, <1>3, <1>4, Zenon

\* While a command is pending no identity is forgotten by a replacement.
LEMMA ReplaceKeeps ==
  ASSUME NEW b \in BreakpointTables, NEW rs \in SUBSET Native, b.pending # 0
  PROVE  b.active \cup b.retired \subseteq replace(b, rs).active \cup replace(b, rs).retired
PROOF
  BY Zenon DEF BreakpointTables, replace
-----------------------------------------------------------------------------
(* Initial states, and what a step leaves alone *)

\* Before the client's first request.
LEMMA InitInd == Init => IndInv
PROOF
  <1>1. SUFFICES ASSUME Init PROVE IndInv
    OBVIOUS
  <1>2. ControlType /\ FlagType
    BY <1>1, Zenon DEF Init, ControlType, FlagType, RunSteps
  <1>3. DataType /\ HandleType
    <2>1. newBreakpointIDs \in BreakpointTables
      BY Zenon DEF newBreakpointIDs, BreakpointTables
    <2>2. NoRequest \in RequestSet
      BY BoundsPositive DEF NoRequest, RequestSet
    <2>3. QED
      BY <1>1, <2>1, <2>2, BoundsPositive DEF Init, DataType, HandleType, newHandleTable
  <1>4. OwnInv
    BY <1>1, Zenon DEF Init, OwnInv, Launched, Left, Launching, Closing, Resources
  <1>5. EarlyInv /\ LaunchInv /\ CommandInv
    BY <1>1, Zenon DEF Init, EarlyInv, LaunchInv, CommandInv
  <1>6. QueueInv
    BY <1>1 DEF Init, QueueInv, Ordered, Named, EndsLast, HasEnd
  <1>7. ShownInv /\ TableInv /\ EntryInv
    BY <1>1, Zenon DEF Init, ShownInv, TableInv, EntryInv
  <1>8. ReportInv /\ HandleInv
    BY <1>1 DEF Init, ReportInv, StopsAreExplained, HitsAreKnown, EntryFrozen, HandleInv, newHandleTable
  <1>9. QED BY <1>2, <1>3, <1>4, <1>5, <1>6, <1>7, <1>8, Zenon DEF IndInv

\* What the debug Session and the watch goroutine write.
eventVars == <<state, stop, decided, queue, sub, lagged, watch, initialStop, breakpoints, installed,
               replaces, reported, suppressed, skipped, atStart, ended, stopOnEntry>>

EventInv ==
  DataType /\ CommandInv /\ QueueInv /\ ShownInv /\ TableInv /\ EntryInv /\ ReportInv

\* A request that touches no event keeps all that is known of them.
LEMMA EventFrame ==
  ASSUME IndInv, UNCHANGED eventVars
  PROVE  EventInv'
PROOF
  <1>1. (DataType /\ CommandInv /\ QueueInv /\ ShownInv)'
    BY Zenon DEF IndInv, eventVars, DataType, CommandInv, QueueInv, ShownInv
  <1>2. (TableInv /\ EntryInv)'
    BY Zenon DEF IndInv, eventVars, TableInv, EntryInv, Known, Running, EntryDue
  <1>3. ReportInv'
    BY Zenon DEF IndInv, eventVars, ReportInv, StopsAreExplained, HitsAreKnown, EntryFrozen
  <1>4. QED BY <1>1, <1>2, <1>3, Zenon DEF EventInv

\* A step that begins no inspection and leaves the stop alone keeps the handles.
LEMMA HandleFrame ==
  ASSUME IndInv, UNCHANGED <<request, aliased, skipped, stop>>, handles' \in {handles, {}},
         state' = "running" => state = "running",
         run' \in {"inspect", "allocate"} => run' = run
  PROVE  (HandleType /\ HandleInv)'
PROOF
  <1>1. HandleType'
    BY Zenon DEF IndInv, HandleType, Handles
  <1>2. \A n : Belongs(n) => Belongs(n)'
    BY Zenon DEF Belongs
  <1>3. HandleInv'
    <2>1. \A h \in handles' : Belongs(h[2])'
      BY <1>2, Zenon DEF IndInv, HandleInv
    <2>2. run' \in {"inspect", "allocate"} /\ request'.of # 0 => Belongs(request.of)'
      BY <1>2, Zenon DEF IndInv, HandleInv
    <2>3. QED BY <2>1, <2>2, Zenon DEF IndInv, HandleInv
  <1>4. QED BY <1>1, <1>3, Zenon

\* A step that moves only the request goroutine, between its own steps.
LEMMA ServingFrame ==
  ASSUME IndInv, UNCHANGED <<eventVars, terminating, stage, launch, owned>>, locked' \in BOOLEAN,
         run' \in Serving \cup {"cancel"}, run \in Serving
  PROVE  (ControlType /\ FlagType /\ OwnInv /\ EarlyInv /\ LaunchInv)'
PROOF
  <1>1. ControlType' /\ FlagType'
    BY DEF IndInv, ControlType, FlagType, RunSteps, Serving, Cleanup, eventVars
  <1>2. OwnInv'
    BY Zenon DEF IndInv, OwnInv, Launched, Serving, Launching, Closing, Left, eventVars
  <1>3. EarlyInv'
    BY Zenon DEF IndInv, EarlyInv, eventVars
  <1>4. LaunchInv'
    BY Zenon DEF IndInv, LaunchInv, eventVars
  <1>5. QED BY <1>1, <1>2, <1>3, <1>4, Zenon
-----------------------------------------------------------------------------
(* Requests that touch no event *)

\* Run sees the end of its input.
LEMMA EndOfInputStep == ASSUME IndInv, endOfInput PROVE IndInv'
PROOF
  <1>1. UNCHANGED <<eventVars, terminating, stage, launch, owned, request, aliased, handles>>
    BY Zenon DEF endOfInput, eventVars, tableVars, sessionVars, historyVars
  <1>2. /\ run \in Serving /\ run' \in {"reading", "cancel"} /\ locked' \in BOOLEAN
    BY Zenon DEF endOfInput, respond, Serving, IndInv, FlagType
  <1>3. EventInv'
    BY <1>1, EventFrame, Zenon
  <1>4. (HandleType /\ HandleInv)'
    BY <1>1, <1>2, HandleFrame, Zenon DEF eventVars
  <1>5. (ControlType /\ FlagType /\ OwnInv /\ EarlyInv /\ LaunchInv)'
    BY <1>1, <1>2, ServingFrame, Zenon DEF Serving
  <1>6. QED BY <1>3, <1>4, <1>5, Zenon DEF IndInv, EventInv

\* handlePause and handleThreads.
LEMMA PauseStep == ASSUME IndInv, handlePause PROVE IndInv'
PROOF
  <1>1. UNCHANGED <<eventVars, terminating, stage, launch, owned, request, aliased, handles>>
    BY Zenon DEF handlePause, eventVars, tableVars, sessionVars, historyVars
  <1>2. /\ run \in Serving /\ run' \in {"reading", "cancel"} /\ locked' \in BOOLEAN
    BY Zenon DEF handlePause, respond, Serving, IndInv, FlagType
  <1>3. EventInv'
    BY <1>1, EventFrame, Zenon
  <1>4. (HandleType /\ HandleInv)'
    BY <1>1, <1>2, HandleFrame, Zenon DEF eventVars
  <1>5. (ControlType /\ FlagType /\ OwnInv /\ EarlyInv /\ LaunchInv)'
    BY <1>1, <1>2, ServingFrame, Zenon DEF Serving
  <1>6. QED BY <1>3, <1>4, <1>5, Zenon DEF IndInv, EventInv

\* handleStackTrace: frames of the current stop will be asked for.
LEMMA StackTraceStep == ASSUME IndInv, handleStackTrace PROVE IndInv'
PROOF
  <1>1. UNCHANGED <<eventVars, terminating, stage, launch, owned, locked, aliased, handles>>
    BY Zenon DEF handleStackTrace, inspectUnchanged, eventVars, sessionVars
  <1>2. run = "reading" /\ run' \in Serving
    BY Zenon DEF handleStackTrace, ask, respond, Serving
  <1>3. EventInv'
    BY <1>1, EventFrame, Zenon
  <1>4. (HandleType /\ HandleInv)'
    <2>1. CASE run' = "reading" /\ request' = request
      BY <1>1, <2>1, HandleFrame, Zenon DEF eventVars
    <2>2. CASE /\ run' \in {"inspect", "allocate"} /\ request'.kind # "none"
               /\ request' \in RequestSet /\ (run' = "allocate" => request'.of # 0)
               /\ request'.of # 0 => Belongs(request'.of)
      <3>1. HandleType'
        BY <1>1, <2>2, Zenon DEF IndInv, HandleType, Handles
      <3>2. HandleInv'
        BY <1>1, <2>2, Zenon DEF IndInv, HandleInv, Belongs, eventVars
      <3>3. QED BY <3>1, <3>2, Zenon
    <2>3. QED
      BY <2>1, <2>2, BoundsPositive DEF handleStackTrace, ask, respond, RequestSet
  <1>5. (ControlType /\ FlagType /\ OwnInv /\ EarlyInv /\ LaunchInv)'
    BY <1>1, <1>2, ServingFrame, Zenon DEF Serving, IndInv, FlagType
  <1>6. QED BY <1>3, <1>4, <1>5, Zenon DEF IndInv, EventInv

\* handleScopes: only a current frame handle reaches the debugger.
LEMMA ScopesStep == ASSUME IndInv, NEW h \in Handles, handleScopes(h) PROVE IndInv'
PROOF
  <1>1. UNCHANGED <<eventVars, terminating, stage, launch, owned, locked, aliased, handles>>
    BY Zenon DEF handleScopes, inspectUnchanged, eventVars, sessionVars
  <1>2. run = "reading" /\ run' \in Serving
    BY Zenon DEF handleScopes, ask, respond, Serving
  <1>3. EventInv'
    BY <1>1, EventFrame, Zenon
  <1>4. (HandleType /\ HandleInv)'
    <2>1. CASE run' = "reading" /\ request' = request
      BY <1>1, <2>1, HandleFrame, Zenon DEF eventVars
    <2>2. CASE /\ run' \in {"inspect", "allocate"} /\ request'.kind # "none"
               /\ request' \in RequestSet /\ (run' = "allocate" => request'.of # 0)
               /\ request'.of # 0 => Belongs(request'.of)
      <3>1. HandleType'
        BY <1>1, <2>2, Zenon DEF IndInv, HandleType, Handles
      <3>2. HandleInv'
        BY <1>1, <2>2, Zenon DEF IndInv, HandleInv, Belongs, eventVars
      <3>3. QED BY <3>1, <3>2, Zenon
    <2>3. QED
      <3>1. h \in Handles /\ handles \subseteq Handles /\ (h \in handles => Belongs(h[2]))
        BY Zenon DEF IndInv, HandleType, HandleInv
      <3>2. h[2] \in 1..MaxStops /\ h[2] # 0 /\ h[2] \in 0..MaxStops
        BY <3>1, BoundsPositive DEF Handles
      <3>3. QED BY <2>1, <2>2, <3>1, <3>2 DEF handleScopes, ask, respond, Current, RequestSet
  <1>5. (ControlType /\ FlagType /\ OwnInv /\ EarlyInv /\ LaunchInv)'
    BY <1>1, <1>2, ServingFrame, Zenon DEF Serving, IndInv, FlagType
  <1>6. QED BY <1>3, <1>4, <1>5, Zenon DEF IndInv, EventInv

\* handleVariables: only a current handle is expanded.
LEMMA VariablesStep == ASSUME IndInv, NEW h \in Handles, handleVariables(h) PROVE IndInv'
PROOF
  <1>1. UNCHANGED <<eventVars, terminating, stage, launch, owned, locked, aliased, handles>>
    BY Zenon DEF handleVariables, inspectUnchanged, eventVars, sessionVars
  <1>2. run = "reading" /\ run' \in Serving
    BY Zenon DEF handleVariables, ask, respond, Serving
  <1>3. EventInv'
    BY <1>1, EventFrame, Zenon
  <1>4. (HandleType /\ HandleInv)'
    <2>1. CASE run' = "reading" /\ request' = request
      BY <1>1, <2>1, HandleFrame, Zenon DEF eventVars
    <2>2. CASE /\ run' \in {"inspect", "allocate"} /\ request'.kind # "none"
               /\ request' \in RequestSet /\ (run' = "allocate" => request'.of # 0)
               /\ request'.of # 0 => Belongs(request'.of)
      <3>1. HandleType'
        BY <1>1, <2>2, Zenon DEF IndInv, HandleType, Handles
      <3>2. HandleInv'
        BY <1>1, <2>2, Zenon DEF IndInv, HandleInv, Belongs, eventVars
      <3>3. QED BY <3>1, <3>2, Zenon
    <2>3. QED
      <3>1. h \in Handles /\ handles \subseteq Handles /\ (h \in handles => Belongs(h[2]))
        BY Zenon DEF IndInv, HandleType, HandleInv
      <3>2. h[2] \in 1..MaxStops /\ h[2] # 0 /\ h[2] \in 0..MaxStops
        BY <3>1, BoundsPositive DEF Handles
      <3>3. QED BY <2>1, <2>2, <3>1, <3>2 DEF handleVariables, ask, respond, Current, RequestSet
  <1>5. (ControlType /\ FlagType /\ OwnInv /\ EarlyInv /\ LaunchInv)'
    BY <1>1, <1>2, ServingFrame, Zenon DEF Serving, IndInv, FlagType
  <1>6. QED BY <1>3, <1>4, <1>5, Zenon DEF IndInv, EventInv

\* handleEvaluate, in the frame of a current handle.
LEMMA EvaluateStep == ASSUME IndInv, NEW h \in Handles, handleEvaluate(h) PROVE IndInv'
PROOF
  <1>1. UNCHANGED <<eventVars, terminating, stage, launch, owned, locked, aliased, handles>>
    BY Zenon DEF handleEvaluate, inspectUnchanged, eventVars, sessionVars
  <1>2. run = "reading" /\ run' \in Serving
    BY Zenon DEF handleEvaluate, ask, respond, Serving
  <1>3. EventInv'
    BY <1>1, EventFrame, Zenon
  <1>4. (HandleType /\ HandleInv)'
    <2>1. CASE run' = "reading" /\ request' = request
      BY <1>1, <2>1, HandleFrame, Zenon DEF eventVars
    <2>2. CASE /\ run' \in {"inspect", "allocate"} /\ request'.kind # "none"
               /\ request' \in RequestSet /\ (run' = "allocate" => request'.of # 0)
               /\ request'.of # 0 => Belongs(request'.of)
      <3>1. HandleType'
        BY <1>1, <2>2, Zenon DEF IndInv, HandleType, Handles
      <3>2. HandleInv'
        BY <1>1, <2>2, Zenon DEF IndInv, HandleInv, Belongs, eventVars
      <3>3. QED BY <3>1, <3>2, Zenon
    <2>3. QED
      <3>1. h \in Handles /\ handles \subseteq Handles /\ (h \in handles => Belongs(h[2]))
        BY Zenon DEF IndInv, HandleType, HandleInv
      <3>2. h[2] \in 1..MaxStops /\ h[2] # 0 /\ h[2] \in 0..MaxStops
        BY <3>1, BoundsPositive DEF Handles
      <3>3. \/ run' = "reading" /\ request' = request
            \/ run' = "inspect" /\ request' = [kind |-> "value", of |-> 0]
            \/ run' = "inspect" /\ request' = [kind |-> "value", of |-> h[2]] /\ h \in handles
        BY Zenon DEF handleEvaluate, ask, respond, Current
      <3>4. CASE run' = "inspect" /\ request' = [kind |-> "value", of |-> 0]
        BY <2>2, <3>4, BoundsPositive DEF RequestSet
      <3>5. CASE run' = "inspect" /\ request' = [kind |-> "value", of |-> h[2]] /\ h \in handles
        BY <2>2, <3>1, <3>2, <3>5, Zenon DEF RequestSet
      <3>6. QED BY <2>1, <3>3, <3>4, <3>5, Zenon
  <1>5. (ControlType /\ FlagType /\ OwnInv /\ EarlyInv /\ LaunchInv)'
    BY <1>1, <1>2, ServingFrame, Zenon DEF Serving, IndInv, FlagType
  <1>6. QED BY <1>3, <1>4, <1>5, Zenon DEF IndInv, EventInv

\* handleEvaluate without a frame.
LEMMA EvaluateTopStep == ASSUME IndInv, handleEvaluate(None) PROVE IndInv'
PROOF
  <1>1. UNCHANGED <<eventVars, terminating, stage, launch, owned, locked, aliased, handles>>
    BY Zenon DEF handleEvaluate, inspectUnchanged, eventVars, sessionVars
  <1>2. run = "reading" /\ run' \in Serving
    BY Zenon DEF handleEvaluate, ask, respond, Serving
  <1>3. EventInv'
    BY <1>1, EventFrame, Zenon
  <1>4. (HandleType /\ HandleInv)'
    <2>1. CASE run' = "reading" /\ request' = request
      BY <1>1, <2>1, HandleFrame, Zenon DEF eventVars
    <2>2. CASE /\ run' \in {"inspect", "allocate"} /\ request'.kind # "none"
               /\ request' \in RequestSet /\ (run' = "allocate" => request'.of # 0)
               /\ request'.of # 0 => Belongs(request'.of)
      <3>1. HandleType'
        BY <1>1, <2>2, Zenon DEF IndInv, HandleType, Handles
      <3>2. HandleInv'
        BY <1>1, <2>2, Zenon DEF IndInv, HandleInv, Belongs, eventVars
      <3>3. QED BY <3>1, <3>2, Zenon
    <2>3. QED
      BY <2>1, <2>2, BoundsPositive DEF handleEvaluate, ask, respond, RequestSet
  <1>5. (ControlType /\ FlagType /\ OwnInv /\ EarlyInv /\ LaunchInv)'
    BY <1>1, <1>2, ServingFrame, Zenon DEF Serving, IndInv, FlagType
  <1>6. QED BY <1>3, <1>4, <1>5, Zenon DEF IndInv, EventInv

\* Frames, Scopes, Variables and Evaluate are answered from the stop the Session is
\* at; a handle of another stop is one of the stop the adapter resumed.
LEMMA InspectStep == ASSUME IndInv, inspect PROVE IndInv'
PROOF
  <1>1. UNCHANGED <<eventVars, terminating, stage, launch, owned, locked, handles>>
    BY Zenon DEF inspect, inspectUnchanged, eventVars, sessionVars
  <1>2. run = "inspect" /\ run' \in Serving
    BY Zenon DEF inspect, respond, Serving
  <1>3. EventInv'
    BY <1>1, EventFrame, Zenon
  <1>4. (HandleType /\ HandleInv)'
    <2>1. CASE state # "stopped"
      <3>1. run' = "reading" /\ request' = NoRequest /\ aliased' = aliased
        BY <2>1, Zenon DEF inspect, respond
      <3>2. NoRequest \in RequestSet
        BY BoundsPositive DEF NoRequest, RequestSet
      <3>3. HandleType'
        BY <1>1, <3>1, <3>2, Zenon DEF IndInv, HandleType, Handles
      <3>4. HandleInv'
        BY <1>1, <3>1, Zenon DEF IndInv, HandleInv, Belongs, eventVars
      <3>5. QED BY <3>3, <3>4, Zenon
    <2>2. CASE state = "stopped"
      <3>1. /\ run' = "allocate" /\ request' = [request EXCEPT !.of = stop]
            /\ aliased' = IF request.of \in {0, stop} THEN aliased ELSE aliased \cup {request.of}
        BY <2>2, Zenon DEF inspect
      <3>2. request \in RequestSet /\ request.kind # "none" /\ stop \in 0..MaxStops /\ stop # 0
        BY <1>2, <2>2, Zenon DEF IndInv, HandleType, DataType, CommandInv
      <3>3. request' \in RequestSet /\ request'.kind # "none" /\ request'.of = stop
        BY <3>1, <3>2, Zenon DEF RequestSet
      <3>4. HandleType'
        BY <1>1, <3>1, <3>2, <3>3, Zenon DEF IndInv, HandleType, Handles
      <3>5. aliased' \subseteq skipped
        BY <1>2, <3>1, <3>2, Zenon DEF IndInv, HandleInv, Belongs
      <3>6. HandleInv'
        BY <1>1, <2>2, <3>3, <3>5, Zenon DEF IndInv, HandleInv, Belongs, eventVars
      <3>7. QED BY <3>4, <3>6, Zenon
    <2>3. QED BY <2>1, <2>2, Zenon
  <1>5. (ControlType /\ FlagType /\ OwnInv /\ EarlyInv /\ LaunchInv)'
    BY <1>1, <1>2, ServingFrame, Zenon DEF Serving, IndInv, FlagType
  <1>6. QED BY <1>3, <1>4, <1>5, Zenon DEF IndInv, EventInv

\* The handles of the result belong to the stop that was inspected.
LEMMA AllocateStep == ASSUME IndInv, allocate PROVE IndInv'
PROOF
  <1>1. UNCHANGED <<eventVars, terminating, stage, launch, owned, locked, aliased>>
    BY Zenon DEF allocate, inspectUnchanged, eventVars, sessionVars
  <1>2. run = "allocate" /\ run' = "reading" /\ request' = NoRequest
    BY Zenon DEF allocate, respond
  <1>3. EventInv'
    BY <1>1, EventFrame, Zenon
  <1>4. (HandleType /\ HandleInv)'
    <2>1. handles' \subseteq handles \cup {<<request.kind, request.of>>}
      BY Zenon DEF allocate, Allocate
    <2>2. /\ request.kind \in {"frame", "value"} /\ request.of \in 1..MaxStops
          /\ Belongs(request.of) /\ handles \subseteq Handles
      BY <1>2, BoundsPositive DEF IndInv, HandleType, HandleInv, RequestSet
    <2>3. NoRequest \in RequestSet
      BY BoundsPositive DEF NoRequest, RequestSet
    <2>4. HandleType'
      BY <1>2, <2>1, <2>2, <2>3 DEF HandleType, Handles
    <2>5. \A h \in handles' : Belongs(h[2])
      BY <2>1, <2>2 DEF IndInv, HandleInv
    <2>6. HandleInv'
      BY <1>1, <1>2, <2>5, Zenon DEF IndInv, HandleInv, Belongs, eventVars
    <2>7. QED BY <2>4, <2>6, Zenon
  <1>5. (ControlType /\ FlagType /\ OwnInv /\ EarlyInv /\ LaunchInv)'
    BY <1>1, <1>2, ServingFrame, Zenon DEF Serving, IndInv, FlagType
  <1>6. QED BY <1>3, <1>4, <1>5, Zenon DEF IndInv, EventInv

\* handleInitialize: a new adapter becomes an initialized one.
LEMMA InitializeStep == ASSUME IndInv, handleInitialize PROVE IndInv'
PROOF
  <1>1. /\ UNCHANGED <<eventVars, terminating, launch, owned, locked, request, aliased, handles>>
        /\ run = "reading" /\ run' = "reading"
        /\ stage' = IF stage = "new" THEN "initialized" ELSE stage
    BY Zenon DEF handleInitialize, respond, eventVars, tableVars, sessionVars, historyVars
  <1>2. EventInv'
    BY <1>1, EventFrame, Zenon
  <1>3. (HandleType /\ HandleInv)'
    BY <1>1, HandleFrame, Zenon DEF eventVars
  <1>4. ControlType' /\ FlagType'
    BY <1>1 DEF IndInv, ControlType, FlagType, eventVars
  <1>5. OwnInv'
    BY <1>1, Zenon DEF IndInv, OwnInv, Launched, Launching, Closing, eventVars
  <1>6. EarlyInv' /\ LaunchInv'
    BY <1>1, Zenon DEF IndInv, EarlyInv, LaunchInv, eventVars
  <1>7. QED BY <1>2, <1>3, <1>4, <1>5, <1>6, Zenon DEF IndInv, EventInv

\* handleLaunch is answered at once, or begins with nothing but the runtime.
LEMMA LaunchStep == ASSUME IndInv, handleLaunch PROVE IndInv'
PROOF
  <1>1. /\ UNCHANGED <<eventVars, terminating, stage, launch, owned, locked, request, aliased, handles>>
        /\ run = "reading"
        /\ run' = "reading" \/ (stage = "initialized" /\ run' = "open")
    BY Zenon DEF handleLaunch, respond, eventVars, tableVars, sessionVars, historyVars
  <1>2. EventInv'
    BY <1>1, EventFrame, Zenon
  <1>3. (HandleType /\ HandleInv)'
    BY <1>1, HandleFrame, Zenon DEF eventVars
  <1>4. ControlType' /\ FlagType'
    BY <1>1 DEF IndInv, ControlType, FlagType, RunSteps, eventVars
  <1>5. OwnInv'
    BY <1>1, Zenon DEF IndInv, OwnInv, Launched, Launching, Closing, Made, Left, Resources, eventVars
  <1>6. EarlyInv' /\ LaunchInv'
    BY <1>1, Zenon DEF IndInv, EarlyInv, LaunchInv, Serving, eventVars
  <1>7. QED BY <1>2, <1>3, <1>4, <1>5, <1>6, Zenon DEF IndInv, EventInv

\* Open, CreateSession and debug CreateSession: one more resource, or none but the
\* runtime.
LEMMA LaunchingStep ==
  ASSUME IndInv, openWorkspace \/ createSession \/ createDebugSession PROVE IndInv'
PROOF
  <1>1. /\ UNCHANGED <<eventVars, terminating, stage, launch, locked, request, aliased, handles>>
        /\ run \in Launching
        /\ \/ run' = "reading" /\ owned' = {"runtime"}
           \/ run = "open" /\ run' = "session" /\ owned' = owned \cup {"workspace"}
           \/ run = "session" /\ run' = "debug" /\ owned' = owned \cup {"session"}
           \/ run = "debug" /\ run' = "watch" /\ owned' = owned \cup {"debug"}
    BY Zenon DEF openWorkspace, createSession, createDebugSession, launchStep, launchStepUnchanged, respond,
           Launching, eventVars, tableVars, sessionVars, historyVars
  <1>2. EventInv'
    BY <1>1, EventFrame, Zenon
  <1>3. (HandleType /\ HandleInv)'
    BY <1>1, HandleFrame, Zenon DEF eventVars
  <1>4. ControlType' /\ FlagType'
    BY <1>1 DEF IndInv, ControlType, FlagType, RunSteps, eventVars
  <1>5. OwnInv'
    BY <1>1, Zenon DEF IndInv, OwnInv, Launched, Launching, Closing, Made, Left, Resources, eventVars
  <1>6. EarlyInv' /\ LaunchInv'
    BY <1>1, Zenon DEF IndInv, EarlyInv, LaunchInv, OwnInv, Launched, eventVars
  <1>7. QED BY <1>2, <1>3, <1>4, <1>5, <1>6, Zenon DEF IndInv, EventInv

\* handleTerminate: a pending launch fails, and the Session begins to terminate.
LEMMA TerminateRequestStep == ASSUME IndInv, handleTerminate PROVE IndInv'
PROOF
  <1>1. /\ UNCHANGED <<eventVars, stage, owned, locked, request, aliased>>
        /\ run = "reading" /\ run' = "reading"
    BY Zenon DEF handleTerminate, respond, eventVars, tableVars, sessionVars, historyVars
  <1>2. \/ /\ Launched /\ handles' = {}
           /\ launch' = IF launch = "pending" THEN "failed" ELSE launch
           /\ terminating' = (terminating \/ state \notin Terminal)
        \/ ~Launched /\ UNCHANGED <<launch, terminating, handles>>
    BY Zenon DEF handleTerminate, failPendingLaunch, terminateSession, Invalidate, Launched
  <1>3. EventInv'
    BY <1>1, EventFrame, Zenon
  <1>4. (HandleType /\ HandleInv)'
    BY <1>1, <1>2, HandleFrame, Zenon DEF eventVars
  <1>5. ControlType'
    BY <1>1, <1>2, Zenon DEF IndInv, ControlType, eventVars
  <1>6. FlagType'
    BY <1>1, <1>2, Zenon DEF IndInv, FlagType, eventVars
  <1>7. OwnInv'
    BY <1>1, Zenon DEF IndInv, OwnInv, Launched, eventVars
  <1>8. EarlyInv' /\ LaunchInv'
    BY <1>1, <1>2 DEF IndInv, EarlyInv, LaunchInv, OwnInv, Launched, eventVars
  <1>9. QED BY <1>3, <1>4, <1>5, <1>6, <1>7, <1>8, Zenon DEF IndInv, EventInv

\* handleDisconnect: a pending launch fails and cleanup begins.
LEMMA DisconnectStep == ASSUME IndInv, handleDisconnect PROVE IndInv'
PROOF
  <1>1. /\ UNCHANGED <<eventVars, terminating, stage, owned, request, aliased, handles>>
        /\ run = "reading" /\ run' = "cancel" /\ locked' \in BOOLEAN
        /\ launch' = IF launch = "pending" THEN "failed" ELSE launch
    BY Zenon DEF handleDisconnect, failPendingLaunch, eventVars, tableVars, sessionVars, historyVars
  <1>2. EventInv'
    BY <1>1, EventFrame, Zenon
  <1>3. (HandleType /\ HandleInv)'
    BY <1>1, HandleFrame, Zenon DEF eventVars
  <1>4. ControlType' /\ FlagType'
    BY <1>1 DEF IndInv, ControlType, FlagType, RunSteps, Cleanup, eventVars
  <1>5. OwnInv'
    BY <1>1, Zenon DEF IndInv, OwnInv, Launched, Launching, Closing, Left, eventVars
  <1>6. EarlyInv' /\ LaunchInv'
    BY <1>1, Zenon DEF IndInv, EarlyInv, LaunchInv, Serving, eventVars
  <1>7. QED BY <1>2, <1>3, <1>4, <1>5, <1>6, Zenon DEF IndInv, EventInv

\* cleanup drops a pending launch, cancels the subscription and lets the Session
\* terminate.
LEMMA CleanupCancelStep == ASSUME IndInv, cleanupCancel PROVE IndInv'
PROOF
  <1>1. /\ UNCHANGED <<state, stop, decided, queue, lagged, watch, initialStop, breakpoints, installed,
                       replaces, reported, suppressed, skipped, atStart, ended, stopOnEntry>>
        /\ UNCHANGED <<stage, owned, locked, request, aliased>>
        /\ run = "cancel" /\ run' = "closeDebug" /\ handles' = {}
        /\ sub' = IF sub = "open" THEN "closed" ELSE sub
        /\ launch' = IF launch = "pending" THEN "dropped" ELSE launch
        /\ terminating' = (terminating \/ ("debug" \in owned /\ state \notin Terminal))
    BY Zenon DEF cleanupCancel, Invalidate, tableVars, sessionVars, historyVars
  <1>2. (DataType /\ CommandInv /\ QueueInv)'
    BY <1>1, Zenon DEF IndInv, DataType, CommandInv, QueueInv
  <1>3. ShownInv'
    BY <1>1, Zenon DEF ShownInv
  <1>4. (TableInv /\ EntryInv)'
    BY <1>1, Zenon DEF IndInv, TableInv, EntryInv, Known, Running, EntryDue
  <1>5. ReportInv'
    BY <1>1, Zenon DEF IndInv, ReportInv, StopsAreExplained, HitsAreKnown, EntryFrozen
  <1>6. (HandleType /\ HandleInv)'
    BY <1>1, HandleFrame, Zenon
  <1>7. ControlType'
    BY <1>1, Zenon DEF IndInv, ControlType, RunSteps, Cleanup
  <1>8. FlagType'
    BY <1>1, Zenon DEF IndInv, FlagType
  <1>9. OwnInv'
    BY <1>1, Zenon DEF IndInv, OwnInv, Launched, Launching, Closing, Left
  <1>10. EarlyInv'
    <2>1. state = "none" => "debug" \notin owned
      BY <1>1 DEF IndInv, OwnInv, Launching, Launched, Left
    <2>2. QED BY <1>1, <2>1, Zenon DEF IndInv, EarlyInv, Serving
  <1>11. LaunchInv'
    BY <1>1, Zenon DEF LaunchInv
  <1>12. QED
    BY <1>2, <1>3, <1>4, <1>5, <1>6, <1>7, <1>8, <1>9, <1>10, <1>11, Zenon DEF IndInv

\* Each later step of cleanup closes one resource, children first; the debug
\* Session only once it is terminal.
LEMMA CleanupCloseStep ==
  ASSUME IndInv, cleanupDebug \/ cleanupSession \/ cleanupWorkspace \/ cleanupRuntime PROVE IndInv'
PROOF
  <1>1. /\ UNCHANGED <<eventVars, terminating, stage, launch, request, aliased, handles>>
        /\ \/ /\ run = "closeDebug" /\ run' = "closeSession" /\ owned' = owned \ {"debug"}
              /\ "debug" \in owned => state \in Terminal
              /\ locked' = locked
           \/ /\ run = "closeSession" /\ run' = "closeWorkspace" /\ owned' = owned \ {"session"}
              /\ locked' = locked
           \/ /\ run = "closeWorkspace" /\ run' = "closeRuntime" /\ owned' = owned \ {"workspace"}
              /\ locked' = locked
           \/ run = "closeRuntime" /\ run' = "returned" /\ owned' = owned \ {"runtime"} /\ locked' = FALSE
    BY Zenon DEF cleanupDebug, cleanupSession, cleanupWorkspace, cleanupRuntime, cleanupStep, cleanupUnchanged,
           eventVars, tableVars, sessionVars, historyVars
  <1>2. EventInv'
    BY <1>1, EventFrame, Zenon
  <1>3. (HandleType /\ HandleInv)'
    BY <1>1, HandleFrame, Zenon DEF eventVars
  <1>4. ControlType'
    BY <1>1 DEF IndInv, ControlType, RunSteps, Cleanup, eventVars
  <1>5. FlagType'
    BY <1>1, Zenon DEF IndInv, FlagType, eventVars
  <1>6. OwnInv'
    BY <1>1, Zenon DEF IndInv, OwnInv, Launched, Launching, Closing, Left, Resources, eventVars
  <1>7. EarlyInv' /\ LaunchInv'
    BY <1>1, Zenon DEF IndInv, EarlyInv, LaunchInv, Serving, eventVars
  <1>8. QED BY <1>2, <1>3, <1>4, <1>5, <1>6, <1>7, Zenon DEF IndInv, EventInv

\* The watch goroutine has drained the closed channel.
LEMMA WatchErrorsStep == ASSUME IndInv, watchErrors PROVE IndInv'
PROOF
  <1>1. /\ UNCHANGED <<state, stop, decided, queue, lagged, sub, initialStop, breakpoints, installed,
                       replaces, reported, suppressed, skipped, atStart, stopOnEntry>>
        /\ UNCHANGED <<run, stage, launch, owned, locked, request, aliased, handles, terminating>>
        /\ watch = "loop" /\ watch' = "ending" /\ sub = "closed"
        /\ ended' = IF lagged THEN TRUE ELSE ended
    BY Zenon DEF watchErrors, sendTerminated, tableVars, sessionVars
  <1>2. (DataType /\ CommandInv /\ QueueInv)'
    BY <1>1, Zenon DEF IndInv, DataType, CommandInv, QueueInv
  <1>3. (ShownInv /\ TableInv /\ EntryInv)'
    BY <1>1, Zenon DEF ShownInv, TableInv, EntryInv
  <1>4. ReportInv'
    BY <1>1, Zenon DEF IndInv, ReportInv, StopsAreExplained, HitsAreKnown, EntryFrozen
  <1>5. (HandleType /\ HandleInv)'
    BY <1>1, HandleFrame, Zenon
  <1>6. ControlType'
    BY <1>1, Zenon DEF IndInv, ControlType
  <1>7. FlagType'
    BY <1>1, Zenon DEF IndInv, FlagType
  <1>8. OwnInv'
    BY <1>1, Zenon DEF IndInv, OwnInv, Launched
  <1>9. EarlyInv' /\ LaunchInv'
    BY <1>1, Zenon DEF IndInv, EarlyInv, LaunchInv
  <1>10. QED
    BY <1>2, <1>3, <1>4, <1>5, <1>6, <1>7, <1>8, <1>9, Zenon DEF IndInv

\* The watch goroutine releases the mappings and is gone.
LEMMA WatchDoneStep == ASSUME IndInv, watchDone PROVE IndInv'
PROOF
  <1>1. /\ UNCHANGED <<state, stop, decided, queue, lagged, sub, installed, replaces, reported,
                       suppressed, skipped, atStart, stopOnEntry, ended>>
        /\ UNCHANGED <<run, stage, launch, owned, locked, request, aliased, handles, terminating>>
        /\ watch = "ending" /\ watch' = "done" /\ initialStop' = None
        /\ breakpoints' = finish(breakpoints)
    BY Zenon DEF watchDone, sessionVars, historyVars
  <1>2. (DataType /\ CommandInv /\ QueueInv)'
    BY <1>1, TableFields, Zenon DEF IndInv, DataType, CommandInv, QueueInv
  <1>3. (ShownInv /\ TableInv /\ EntryInv)'
    BY <1>1, Zenon DEF IndInv, ShownInv, TableInv, EntryInv
  <1>4. ReportInv'
    BY <1>1, Zenon DEF IndInv, ReportInv, StopsAreExplained, HitsAreKnown, EntryFrozen
  <1>5. (HandleType /\ HandleInv)'
    BY <1>1, HandleFrame, Zenon
  <1>6. ControlType' /\ FlagType'
    BY <1>1 DEF IndInv, ControlType, FlagType
  <1>7. OwnInv'
    BY <1>1, Zenon DEF IndInv, OwnInv, Launched
  <1>8. EarlyInv' /\ LaunchInv'
    BY <1>1, Zenon DEF IndInv, EarlyInv, LaunchInv
  <1>9. QED
    BY <1>2, <1>3, <1>4, <1>5, <1>6, <1>7, <1>8, Zenon DEF IndInv
-----------------------------------------------------------------------------
(* The debug Session *)

\* The commands due for the queued stops, when a command ends or begins.
LEMMA CoveredShift ==
  ASSUME NEW q \in Seq(EventSet), NEW n \in Nat, NEW r \in Nat, NEW p \in Nat, Covered(q, n, r, p),
         NEW m \in Nat, NEW s \in Nat, NEW o \in Nat, m + s + p <= n + r + o
  PROVE  Covered(q, m, s, o)
PROOF
  <1>1. SUFFICES ASSUME NEW i \in 1..Len(q), q[i].kind = "stopped"
                 PROVE  m + 1 + s <= o + q[i].stop
    BY Zenon DEF Covered
  <1>2. q[i] \in EventSet
    OBVIOUS
  <1>3. q[i].stop \in Nat /\ n + 1 + r <= p + q[i].stop
    BY <1>1, <1>2, BoundsPositive DEF EventSet, Covered
  <1>4. QED BY <1>3

\* The native debugger decides: a hit is one of the installed breakpoints, which
\* the table knows.
LEMMA DecideStep == ASSUME IndInv, decide PROVE IndInv'
PROOF
  <1>1. /\ UNCHANGED <<state, stop, queue, sub, lagged, watch, initialStop, breakpoints, installed,
                       replaces, reported, suppressed, skipped, atStart, ended, stopOnEntry>>
        /\ UNCHANGED <<run, stage, launch, owned, locked, request, aliased, handles, terminating>>
        /\ state = "running" /\ decided' \in Answers
    BY Zenon DEF decide, tableVars, historyVars
  <1>2. stop \in 0..MaxStops /\ MaxStops \in Nat \ {0} /\ installed \subseteq Native
    BY BoundsPositive, Zenon DEF IndInv, DataType
  <1>3. /\ decided' \in AnswerSet /\ decided'.hits \subseteq installed
        /\ decided'.kind = "stopped" => stop < MaxStops /\ EntryFirst(stop + 1, decided')
    <2>1. CASE decided' = [kind |-> "completed", reason |-> "none", hits |-> {}]
      BY <2>1, Zenon DEF AnswerSet, Reasons
    <2>2. CASE stop = 0 /\ decided' \in {Stopped("entry", {}), Stopped("error", {})}
      BY <1>2, <2>2 DEF AnswerSet, Reasons, Stopped, EntryFirst, EntryReasons
    <2>3. CASE stop \in 1..(MaxStops - 1) /\ decided' = Stopped("step", {})
      BY <1>2, <2>3 DEF AnswerSet, Reasons, Stopped, EntryFirst, EntryReasons
    <2>4. CASE /\ stop \in 1..(MaxStops - 1)
               /\ decided' \in {Stopped("breakpoint", {n}) : n \in installed}
      <3>1. PICK n \in installed : decided' = Stopped("breakpoint", {n})
        BY <2>4, Zenon
      <3>2. QED BY <1>2, <2>4, <3>1 DEF AnswerSet, Reasons, Stopped, EntryFirst, EntryReasons
    <2>5. QED
      BY <1>1, <1>2, <2>1, <2>2, <2>3, <2>4, Zenon DEF Answers
  <1>4. (DataType /\ CommandInv)'
    BY <1>1, <1>3, Zenon DEF IndInv, DataType, CommandInv
  <1>5. (QueueInv /\ ShownInv)'
    BY <1>1, Zenon DEF IndInv, QueueInv, ShownInv
  <1>6. TableInv'
    BY <1>1, <1>3, Zenon DEF IndInv, TableInv, Known, Running, Terminal
  <1>7. EntryInv'
    BY <1>1, Zenon DEF IndInv, EntryInv, EntryDue, Known
  <1>8. ReportInv'
    BY <1>1, Zenon DEF IndInv, ReportInv, StopsAreExplained, HitsAreKnown, EntryFrozen
  <1>9. (HandleType /\ HandleInv)'
    BY <1>1, HandleFrame, Zenon
  <1>10. ControlType' /\ FlagType'
    <2>1. ControlType'
      BY <1>1, Zenon DEF IndInv, ControlType
    <2>2. FlagType'
      BY <1>1, Zenon DEF IndInv, FlagType
    <2>3. QED BY <2>1, <2>2, Zenon
  <1>11. (OwnInv /\ EarlyInv /\ LaunchInv)'
    BY <1>1, Zenon DEF IndInv, OwnInv, Launched, EarlyInv, LaunchInv
  <1>12. QED
    BY <1>4, <1>5, <1>6, <1>7, <1>8, <1>9, <1>10, <1>11, Zenon DEF IndInv

\* runCommand discards its result when the Session was terminated meanwhile.
LEMMA DiscardStep == ASSUME IndInv, runCommand, state # "running" PROVE IndInv'
PROOF
  <1>1. /\ UNCHANGED <<state, stop, queue, sub, lagged, watch, initialStop, breakpoints, installed,
                       replaces, reported, suppressed, skipped, atStart, ended, stopOnEntry>>
        /\ UNCHANGED <<run, stage, launch, owned, locked, request, aliased, handles, terminating>>
        /\ decided' = None
    BY Zenon DEF runCommand, tableVars, historyVars
  <1>2. (DataType /\ CommandInv /\ QueueInv /\ ShownInv)'
    BY <1>1, Zenon DEF IndInv, DataType, CommandInv, QueueInv, ShownInv
  <1>3. (TableInv /\ EntryInv)'
    BY <1>1, Zenon DEF IndInv, TableInv, Known, Running, EntryInv, EntryDue
  <1>4. ReportInv'
    BY <1>1, Zenon DEF IndInv, ReportInv, StopsAreExplained, HitsAreKnown, EntryFrozen
  <1>5. (HandleType /\ HandleInv)'
    BY <1>1, HandleFrame, Zenon
  <1>6. ControlType' /\ FlagType'
    <2>1. ControlType'
      BY <1>1, Zenon DEF IndInv, ControlType
    <2>2. FlagType'
      BY <1>1, Zenon DEF IndInv, FlagType
    <2>3. QED BY <2>1, <2>2, Zenon
  <1>7. (OwnInv /\ EarlyInv /\ LaunchInv)'
    BY <1>1, Zenon DEF IndInv, OwnInv, Launched, EarlyInv, LaunchInv
  <1>8. QED
    BY <1>2, <1>3, <1>4, <1>5, <1>6, <1>7, Zenon DEF IndInv

\* What every step that publishes knows of the channel beforehand.
LEMMA QueueFacts ==
  ASSUME IndInv
  PROVE  /\ queue \in Seq(EventSet) /\ Len(queue) <= watcherBufferSize
         /\ sub \in {"none", "open", "closed"} /\ stop \in Nat /\ stop <= MaxStops
         /\ Ordered(queue) /\ Named(queue, stop) /\ EndsLast(queue)
         /\ sub = "open" => ~HasEnd(queue)
         /\ HasEnd(queue) => state \in Terminal
         /\ breakpoints \in BreakpointTables /\ breakpoints.pending \in Nat
         /\ Running \in {0, 1}
PROOF
  BY BoundsPositive DEF IndInv, DataType, ControlType, QueueInv, BreakpointTables, Running

\* The counters that the arithmetic is about.
LEMMA Numbers ==
  ASSUME IndInv
  PROVE  /\ stop \in Nat /\ stop <= MaxStops /\ stop <= stop
         /\ breakpoints.pending \in Nat /\ Running \in {0, 1}
PROOF
  BY BoundsPositive DEF IndInv, DataType, BreakpointTables, Running

\* runCommand publishes the result: a stop takes the next number, and its hits are
\* known to the table.
LEMMA RunCommandStep == ASSUME IndInv, runCommand, state = "running" PROVE IndInv'
PROOF
  <1> DEFINE e == [kind |-> decided.kind, stop |-> stop', reason |-> decided.reason, hits |-> decided.hits]
  <1>1. /\ UNCHANGED <<watch, initialStop, breakpoints, installed, replaces, reported, suppressed,
                       skipped, atStart, ended, stopOnEntry>>
        /\ UNCHANGED <<run, stage, launch, owned, locked, request, aliased, handles, terminating>>
        /\ decided # None /\ decided' = None /\ state' = decided.kind
        /\ stop' = IF decided.kind = "stopped" THEN stop + 1 ELSE stop
        /\ publishAfter(queue, e)
    BY Zenon DEF runCommand, publish, tableVars, historyVars
  <1>2. /\ decided \in AnswerSet
        /\ decided.kind = "stopped" => stop < MaxStops /\ EntryFirst(stop + 1, decided)
    BY <1>1, Zenon DEF IndInv, DataType, CommandInv
  <1>3. /\ decided.kind \in {"stopped", "completed"} /\ decided.reason \in Reasons
        /\ decided.hits \in SUBSET Native
    BY <1>2, Zenon DEF AnswerSet
  <1>4. stop' \in 0..MaxStops /\ stop' \in Nat /\ stop <= stop'
    BY <1>1, <1>2, Numbers, BoundsPositive
  <1>5. e \in EventSet /\ e.kind = decided.kind /\ e.stop = stop' /\ e.hits = decided.hits
        /\ e.reason = decided.reason
    BY <1>3, <1>4, Zenon DEF EventSet, Kinds, Terminal
  <1>6. e.kind = "stopped" => e.stop \in 1..stop' /\ stop < e.stop /\ EntryFirst(e.stop, e)
    BY <1>1, <1>2, <1>4, <1>5, Numbers DEF EntryFirst
  <1> HIDE DEF e
  <1>7. /\ queue' \in Seq(EventSet) /\ Len(queue') <= watcherBufferSize
        /\ sub' \in {"none", "open", "closed"}
    BY <1>1, <1>5, QueueFacts, PublishCases, Zenon
  <1>8. /\ Ordered(queue') /\ Named(queue', stop') /\ EndsLast(queue')
        /\ HasEnd(queue') => sub' # "open" /\ (HasEnd(queue) \/ e.kind \in Terminal)
        /\ \A k : Holds(queue', k) => Holds(queue, k) \/ (e.kind = "stopped" /\ e.stop = k)
        /\ sub' = "open" =>
             \A k : Holds(queue, k) \/ (e.kind = "stopped" /\ e.stop = k) => Holds(queue', k)
        /\ \A k : HitsWithin(queue, k) /\ (e.kind = "stopped" => e.hits \subseteq k)
                    => HitsWithin(queue', k)
        /\ \A r, p : Covered(queue, stop', r, p) /\ (e.kind = "stopped" => stop' + 1 + r <= p + e.stop)
                       => Covered(queue', stop', r, p)
    BY <1>1, <1>4, <1>5, <1>6, QueueFacts, Publishing, Zenon
  <1>9. DataType'
    BY <1>1, <1>4, <1>7, Zenon DEF IndInv, DataType
  <1>10. CommandInv'
    BY <1>1, <1>3, QueueFacts DEF CommandInv
  <1>11. QueueInv'
    BY <1>1, <1>5, <1>8, QueueFacts, Zenon DEF QueueInv, Terminal
  <1>12. ShownInv'
    BY <1>1, <1>5, <1>8, Zenon DEF ShownInv
  <1>13. TableInv'
    <2>1. SUFFICES ASSUME watch = "loop" PROVE TableInv'
      BY <1>1, Zenon DEF TableInv
    <2>2. /\ breakpoints.active = installed /\ 1 <= breakpoints.pending
          /\ Covered(queue, stop, 1, breakpoints.pending) /\ HitsWithin(queue, Known)
          /\ decided.hits \subseteq Known
      BY <1>1, <2>1, Zenon DEF IndInv, TableInv, Running, Terminal
    <2>3. Running' = 0 /\ state' # "running"
      BY <1>1, <1>3, Zenon DEF Running
    <2>4. Covered(queue, stop', 0, breakpoints.pending)
      <3>1. stop' + 0 + breakpoints.pending <= stop + 1 + breakpoints.pending
        BY <1>1, Numbers
      <3>2. QED BY <1>4, <2>2, <3>1, QueueFacts, CoveredShift, Zenon
    <2>5. e.kind = "stopped" => stop' + 1 + 0 <= breakpoints.pending + e.stop
      BY <1>4, <1>5, <2>2, Numbers
    <2>6. Covered(queue', stop', 0, breakpoints.pending) /\ HitsWithin(queue', Known)
      BY <1>5, <1>8, <2>2, <2>4, <2>5, Zenon
    <2>7. breakpoints.pending \in Nat /\ 0 <= breakpoints.pending
      BY Numbers
    <2>8. QED BY <1>1, <2>2, <2>3, <2>6, <2>7, Zenon DEF TableInv, Known
  <1>14. EntryInv'
    <2>1. EntryDue' => EntryDue
      <3>1. e.kind = "stopped" /\ e.stop = 1 => stop = 0
        BY <1>1, <1>5, Numbers
      <3>2. state' # "running"
        BY <1>1, <1>3, Zenon
      <3>3. QED BY <1>8, <3>1, <3>2, Zenon DEF EntryDue
    <2>2. QED BY <1>1, <2>1, Zenon DEF IndInv, EntryInv, Known
  <1>15. ReportInv'
    <2>1. StopsAreExplained'
      BY <1>1, Zenon DEF IndInv, ReportInv, StopsAreExplained, HitsAreKnown, EntryFrozen
    <2>2. /\ reported.stop \in 0..stop /\ stop \in Nat
          /\ \A k \in 1..stop : Holds(queue, k) => reported.stop < k
      BY QueueFacts, Zenon DEF IndInv, ReportInv
    <2>3. \A k : Holds(queue, k) => k \in 1..stop
      BY QueueFacts, Zenon DEF Named, Holds
    <2>4. ASSUME NEW k \in 1..stop', Holds(queue', k) PROVE reported.stop < k
      <3>1. CASE Holds(queue, k)
        BY <2>2, <2>3, <3>1, Zenon
      <3>2. CASE e.kind = "stopped" /\ e.stop = k
        BY <1>6, <2>2, <3>2
      <3>3. QED BY <1>8, <2>4, <3>1, <3>2, Zenon
    <2>5. reported.stop \in 0..stop'
      BY <1>4, <2>2
    <2>6. QED BY <1>1, <2>1, <2>4, <2>5, Zenon DEF IndInv, ReportInv
  <1>16. HandleType' /\ HandleInv'
    BY <1>1, Zenon DEF IndInv, HandleType, HandleInv, Handles, Belongs
  <1>17. ControlType' /\ FlagType'
    <2>1. ControlType'
      BY <1>1, <1>3, <1>7, Zenon DEF IndInv, ControlType, Terminal
    <2>2. FlagType'
      <3>1. lagged' \in BOOLEAN
        BY <1>1, Zenon DEF IndInv, FlagType, publishAfter
      <3>2. QED BY <1>1, <3>1, Zenon DEF IndInv, FlagType
    <2>3. QED BY <2>1, <2>2, Zenon
  <1>18. OwnInv'
    BY <1>1, <1>3, Zenon DEF IndInv, OwnInv, Launched, Terminal
  <1>19. EarlyInv' /\ LaunchInv'
    BY <1>1, <1>3, Zenon DEF IndInv, EarlyInv, LaunchInv, Terminal
  <1>20. QED
    BY <1>9, <1>10, <1>11, <1>12, <1>13, <1>14, <1>15, <1>16, <1>17, <1>18, <1>19, Zenon DEF IndInv

\* The terminate goroutine ends the Session: its event is the last one.
LEMMA TerminateStep == ASSUME IndInv, terminate PROVE IndInv'
PROOF
  <1> DEFINE e == Event("terminated", "none", {})
  <1>1. /\ UNCHANGED <<stop, decided, watch, initialStop, breakpoints, installed, replaces, reported,
                       suppressed, skipped, atStart, ended, stopOnEntry>>
        /\ UNCHANGED <<run, stage, launch, owned, locked, request, aliased, handles, terminating>>
        /\ terminating /\ state \notin Terminal /\ state' = "terminated"
        /\ publishAfter(queue, e)
    BY Zenon DEF terminate, publish, tableVars, historyVars
  <1>2. e \in EventSet /\ e.kind = "terminated"
    BY Zenon DEF IndInv, DataType, Event, EventSet, Kinds, Reasons, Terminal
  <1> HIDE DEF e
  <1>3. e.kind # "stopped" /\ e.kind \in Terminal
    BY <1>2, Zenon DEF Terminal
  <1>4. /\ queue' \in Seq(EventSet) /\ Len(queue') <= watcherBufferSize
        /\ sub' \in {"none", "open", "closed"}
    BY <1>1, <1>2, QueueFacts, PublishCases, Zenon
  <1>5. /\ Ordered(queue') /\ Named(queue', stop) /\ EndsLast(queue')
        /\ HasEnd(queue') => sub' # "open" /\ (HasEnd(queue) \/ e.kind \in Terminal)
        /\ \A k : Holds(queue', k) => Holds(queue, k) \/ (e.kind = "stopped" /\ e.stop = k)
        /\ \A k : HitsWithin(queue, k) /\ (e.kind = "stopped" => e.hits \subseteq k)
                    => HitsWithin(queue', k)
        /\ \A r, p : Covered(queue, stop, r, p) /\ (e.kind = "stopped" => stop + 1 + r <= p + e.stop)
                       => Covered(queue', stop, r, p)
    BY <1>1, <1>2, <1>3, Numbers, QueueFacts, Publishing, Zenon
  <1>6. DataType'
    BY <1>1, <1>4, Zenon DEF IndInv, DataType
  <1>7. CommandInv' /\ ShownInv'
    BY <1>1, Zenon DEF IndInv, CommandInv, ShownInv, Terminal
  <1>8. QueueInv'
    BY <1>1, <1>5, Zenon DEF QueueInv, Terminal
  <1>9. TableInv'
    <2>1. SUFFICES ASSUME watch = "loop" PROVE TableInv'
      BY <1>1, Zenon DEF TableInv
    <2>2. /\ Covered(queue, stop, Running, breakpoints.pending) /\ HitsWithin(queue, Known)
      BY <2>1, Zenon DEF IndInv, TableInv
    <2>3. Covered(queue, stop, 0, breakpoints.pending)
      <3>1. stop + 0 + breakpoints.pending <= stop + Running + breakpoints.pending
        BY QueueFacts
      <3>2. Running \in Nat
        BY QueueFacts
      <3>3. QED BY <2>2, <3>1, <3>2, QueueFacts, CoveredShift, Zenon
    <2>4. Covered(queue', stop, 0, breakpoints.pending) /\ HitsWithin(queue', Known)
      BY <1>3, <1>5, <2>2, <2>3, Zenon
    <2>5. Running' = 0 /\ 0 <= breakpoints.pending
      BY <1>1, QueueFacts DEF Running
    <2>6. QED BY <1>1, <2>4, <2>5, Zenon DEF TableInv, Known, Terminal
  <1>10. EntryInv'
    <2>1. EntryDue' => EntryDue
      BY <1>1, <1>3, <1>5, Zenon DEF EntryDue
    <2>2. QED BY <1>1, <2>1, Zenon DEF IndInv, EntryInv, Known
  <1>11. ReportInv'
    BY <1>1, <1>3, <1>5, Zenon DEF IndInv, ReportInv, StopsAreExplained, HitsAreKnown, EntryFrozen
  <1>12. (HandleType /\ HandleInv)'
    BY <1>1, HandleFrame, Zenon
  <1>13. ControlType'
    BY <1>1, <1>4, Zenon DEF IndInv, ControlType, Terminal
  <1>14. FlagType'
    <2>1. lagged' \in BOOLEAN
      BY <1>1, Zenon DEF IndInv, FlagType, publishAfter
    <2>2. QED BY <1>1, <2>1, Zenon DEF IndInv, FlagType
  <1>15. OwnInv'
    BY <1>1, Zenon DEF IndInv, OwnInv, Launched, EarlyInv, Terminal
  <1>16. EarlyInv' /\ LaunchInv'
    BY <1>1, Zenon DEF IndInv, EarlyInv, LaunchInv, Terminal
  <1>17. QED
    BY <1>6, <1>7, <1>8, <1>9, <1>10, <1>11, <1>12, <1>13, <1>14, <1>15, <1>16, Zenon DEF IndInv

\* WatchSession fails and the launch with it, or the Session is created, with an
\* empty table and an initial stop that follows the breakpoints.
LEMMA WatchSessionStep == ASSUME IndInv, watchSession PROVE IndInv'
PROOF
  <1>1. /\ UNCHANGED <<stop, decided, queue, lagged, breakpoints, installed, replaces, reported,
                       suppressed, skipped, atStart, ended, stopOnEntry>>
        /\ UNCHANGED <<locked, request, aliased, handles, terminating>>
        /\ run = "watch"
    BY Zenon DEF watchSession, historyVars
  <1>2. /\ stage = "initialized" /\ owned = Resources /\ state = "none" /\ watch = "none"
        /\ stop = 0 /\ queue = <<>> /\ decided = None /\ reported.stop = 0 /\ suppressed = {}
        /\ skipped = {} /\ ~lagged /\ ~ended /\ sub = "none" /\ ~terminating /\ installed = {}
        /\ breakpoints = newBreakpointIDs /\ initialStop = None
    BY <1>1, Zenon DEF IndInv, OwnInv, EarlyInv, Launched, Launching, Made
  <1>3. /\ newInitialStop \in InitialStops /\ ~newInitialStop.frozen /\ newInitialStop.bindings = {}
    BY Zenon DEF newInitialStop, InitialStops
  <1>4. \/ /\ run' = "reading" /\ owned' = {"runtime"}
           /\ UNCHANGED <<stage, launch, initialStop, watch, state, sub>>
        \/ /\ stage' = "launched" /\ launch' = "pending" /\ state' = "created" /\ sub' = "open"
           /\ owned' = owned
           /\ \/ run' = "reading" /\ initialStop' = newInitialStop /\ watch' = "loop"
              \/ run' = "cancel" /\ UNCHANGED <<initialStop, watch>>
    BY Zenon DEF watchSession, respond
  <1>5. state' \in {"none", "created"} /\ (initialStop' = None \/ initialStop' \in InitialStops)
    BY <1>2, <1>3, <1>4, Zenon
  <1>6. ControlType'
    BY <1>4, Zenon DEF IndInv, ControlType, RunSteps, Cleanup
  <1>7. FlagType'
    BY <1>1, Zenon DEF IndInv, FlagType
  <1>8. DataType'
    BY <1>1, <1>5, Zenon DEF IndInv, DataType
  <1>9. OwnInv'
    BY <1>2, <1>4, Zenon DEF IndInv, OwnInv, Launched, Launching, Closing, Left, Resources
  <1>10. EarlyInv'
    BY <1>1, <1>2, <1>3, <1>4, Zenon DEF EarlyInv, Serving
  <1>11. LaunchInv'
    BY <1>1, <1>2, <1>4, Zenon DEF IndInv, LaunchInv
  <1>12. CommandInv' /\ ShownInv'
    BY <1>1, <1>2, <1>5, Zenon DEF CommandInv, ShownInv
  <1>13. QueueInv'
    BY <1>1, <1>2 DEF QueueInv, Ordered, Named, EndsLast, HasEnd
  <1>14. TableInv'
    <2>1. breakpoints.active = {} /\ breakpoints.pending = 0
      BY <1>2, Zenon DEF newBreakpointIDs
    <2>2. QED
      BY <1>1, <1>2, <1>5, <2>1 DEF TableInv, Running, Covered, HitsWithin
  <1>15. EntryInv'
    BY <1>1, <1>2, <1>5 DEF EntryInv, EntryDue, Holds
  <1>16. ReportInv'
    BY <1>1, <1>2, Zenon DEF IndInv, ReportInv, StopsAreExplained, HitsAreKnown, EntryFrozen
  <1>17. (HandleType /\ HandleInv)'
    BY <1>1, <1>4, <1>5, HandleFrame, Zenon
  <1>18. QED
    BY <1>6, <1>7, <1>8, <1>9, <1>10, <1>11, <1>12, <1>13, <1>14, <1>15, <1>16, <1>17, Zenon DEF IndInv
-----------------------------------------------------------------------------
(* Starting and resuming the program *)

\* startCommand publishes that the program runs, which is no stop and no end.
LEMMA Starting ==
  ASSUME IndInv, NEW events \in Seq(EventSet), Len(events) <= watcherBufferSize,
         publishAfter(events, Event("running", "none", {})),
         Ordered(events), Named(events, stop), EndsLast(events), ~HasEnd(events)
  PROVE  /\ queue' \in Seq(EventSet) /\ Len(queue') <= watcherBufferSize
         /\ sub' \in {"none", "open", "closed"} /\ lagged' \in BOOLEAN
         /\ Ordered(queue') /\ Named(queue', stop) /\ EndsLast(queue') /\ ~HasEnd(queue')
         /\ \A k : Holds(queue', k) => Holds(events, k)
         /\ \A k : HitsWithin(events, k) => HitsWithin(queue', k)
         /\ \A r, p : Covered(events, stop, r, p) => Covered(queue', stop, r, p)
PROOF
  <1> DEFINE e == Event("running", "none", {})
  <1>1. e \in EventSet /\ e.kind = "running"
    BY Zenon DEF IndInv, DataType, Event, EventSet, Kinds, Reasons
  <1> HIDE DEF e
  <1>2. e.kind # "stopped" /\ e.kind \notin Terminal
    BY <1>1, Zenon DEF Terminal
  <1>3. publishAfter(events, e)
    BY Zenon DEF e
  <1>4. /\ queue' \in Seq(EventSet) /\ Len(queue') <= watcherBufferSize
        /\ sub' \in {"none", "open", "closed"}
    BY <1>1, <1>3, QueueFacts, PublishCases, Zenon
  <1>5. lagged' \in BOOLEAN
    BY <1>3, Zenon DEF IndInv, FlagType, publishAfter
  <1>6. /\ Ordered(queue') /\ Named(queue', stop) /\ EndsLast(queue')
        /\ HasEnd(queue') => sub' # "open" /\ (HasEnd(events) \/ e.kind \in Terminal)
        /\ \A k : Holds(queue', k) => Holds(events, k) \/ (e.kind = "stopped" /\ e.stop = k)
        /\ \A k : HitsWithin(events, k) /\ (e.kind = "stopped" => e.hits \subseteq k)
                    => HitsWithin(queue', k)
        /\ \A r, p : Covered(events, stop, r, p) /\ (e.kind = "stopped" => stop + 1 + r <= p + e.stop)
                       => Covered(queue', stop, r, p)
    BY <1>1, <1>2, <1>3, Numbers, QueueFacts, Publishing, Zenon
  <1>7. QED BY <1>2, <1>4, <1>5, <1>6, Zenon

\* StartSession accepted: the entry bindings freeze to the breakpoints installed.
LEMMA StartAcceptedStep ==
  ASSUME IndInv, handleConfigurationDone, stage = "launched", accepts("created"), startAccepted
  PROVE  IndInv'
PROOF
  <1>1. /\ UNCHANGED <<stop, decided, watch, installed, replaces, reported, suppressed, skipped,
                       ended, stopOnEntry>>
        /\ UNCHANGED <<owned, locked, request, aliased, terminating>>
        /\ run = "reading" /\ run' = "reading" /\ stage' = "configured" /\ handles' = {}
        /\ launch' = IF launch = "pending" THEN "ok" ELSE launch
        /\ initialStop' = [initialStop EXCEPT !.frozen = TRUE]
        /\ breakpoints' = commandStarted(breakpoints)
        /\ atStart' = {n[1] : n \in installed}
        /\ state = "created" /\ state' = "running"
        /\ publishAfter(queue, Event("running", "none", {}))
    BY Zenon DEF handleConfigurationDone, startAccepted, startCommand, publish, respond, accepts, Invalidate
  <1>2. /\ stop = 0 /\ queue = <<>> /\ decided = None /\ reported.stop = 0 /\ suppressed = {}
        /\ skipped = {} /\ ~ended /\ watch = "loop"
        /\ initialStop \in InitialStops /\ initialStop.bindings = installed
    BY <1>1, Zenon DEF IndInv, EarlyInv, Serving
  <1>3. initialStop' \in InitialStops /\ initialStop'.frozen /\ initialStop'.bindings = installed
    BY <1>1, <1>2, Zenon DEF InitialStops
  <1>4. /\ breakpoints' \in BreakpointTables /\ breakpoints'.pending = breakpoints.pending + 1
        /\ breakpoints'.active = breakpoints.active /\ breakpoints'.retired = breakpoints.retired
    BY <1>1, QueueFacts, TableFields, Zenon
  <1>5. ~HasEnd(queue)
    BY <1>1, QueueFacts, Zenon DEF Terminal
  <1>6. /\ queue' \in Seq(EventSet) /\ Len(queue') <= watcherBufferSize
        /\ sub' \in {"none", "open", "closed"} /\ lagged' \in BOOLEAN
        /\ Ordered(queue') /\ Named(queue', stop) /\ EndsLast(queue') /\ ~HasEnd(queue')
        /\ \A k : HitsWithin(queue, k) => HitsWithin(queue', k)
        /\ \A r, p : Covered(queue, stop, r, p) => Covered(queue', stop, r, p)
    BY <1>1, <1>5, QueueFacts, Starting, Zenon
  <1>7. ControlType'
    BY <1>1, <1>6, Zenon DEF IndInv, ControlType
  <1>8. FlagType'
    BY <1>1, <1>6, Zenon DEF IndInv, FlagType
  <1>9. DataType'
    BY <1>1, <1>3, <1>4, <1>6, Zenon DEF IndInv, DataType
  <1>10. OwnInv'
    BY <1>1, Zenon DEF IndInv, OwnInv, Launched, Launching, Closing, Left
  <1>11. EarlyInv' /\ LaunchInv'
    BY <1>1, Zenon DEF EarlyInv, LaunchInv
  <1>12. CommandInv' /\ ShownInv'
    BY <1>1, <1>2, Zenon DEF CommandInv, ShownInv
  <1>13. QueueInv'
    BY <1>1, <1>6, Zenon DEF QueueInv
  <1>14. breakpoints.active = installed
    BY <1>1, <1>2, Zenon DEF IndInv, TableInv, Terminal
  <1>15. TableInv'
    <2>1. Covered(queue, stop, 1, breakpoints'.pending) /\ HitsWithin(queue, Known')
      <3>1. \A i \in 1..Len(queue) : FALSE
        BY <1>2
      <3>2. QED BY <3>1, Zenon DEF Covered, HitsWithin
    <2>2. Covered(queue', stop, 1, breakpoints'.pending) /\ HitsWithin(queue', Known')
      BY <1>6, <2>1, Zenon
    <2>3. Running' = 1 /\ 1 <= breakpoints'.pending
      BY <1>1, <1>4, QueueFacts DEF Running
    <2>4. QED BY <1>1, <1>2, <1>4, <1>14, <2>2, <2>3, Zenon DEF TableInv
  <1>16. EntryInv'
    <2>1. installed \subseteq Known'
      BY <1>4, <1>14, Zenon DEF Known
    <2>2. QED BY <1>1, <1>3, <2>1, Zenon DEF EntryInv
  <1>17. ReportInv'
    BY <1>1, <1>2 DEF IndInv, ReportInv, StopsAreExplained, HitsAreKnown, EntryFrozen
  <1>18. HandleType' /\ HandleInv'
    BY <1>1, Zenon DEF IndInv, HandleType, HandleInv, Handles
  <1>19. QED
    BY <1>7, <1>8, <1>9, <1>10, <1>11, <1>12, <1>13, <1>15, <1>16, <1>17, <1>18, Zenon DEF IndInv

\* StartSession refused: the adapter shuts down with eventMu held.
LEMMA StartRefusedStep ==
  ASSUME IndInv, handleConfigurationDone, stage = "launched", startRefused
  PROVE  IndInv'
PROOF
  <1>1. /\ UNCHANGED <<state, stop, decided, queue, sub, lagged, watch, breakpoints, installed, replaces,
                       reported, suppressed, skipped, atStart, ended, stopOnEntry>>
        /\ UNCHANGED <<stage, owned, request, aliased, terminating, handles>>
        /\ run = "reading" /\ run' = "cancel" /\ locked' = TRUE /\ initialStop' = None
        /\ launch' = IF launch = "pending" THEN "failed" ELSE launch
    BY Zenon DEF handleConfigurationDone, startRefused, sessionVars
  <1>2. ControlType'
    BY <1>1, Zenon DEF IndInv, ControlType, RunSteps, Cleanup
  <1>3. FlagType'
    BY <1>1, Zenon DEF IndInv, FlagType
  <1>4. (DataType /\ CommandInv /\ QueueInv /\ ShownInv)'
    BY <1>1, Zenon DEF IndInv, DataType, CommandInv, QueueInv, ShownInv
  <1>5. TableInv'
    BY <1>1, Zenon DEF IndInv, TableInv, Known, Running
  <1>6. EntryInv'
    <2>1. state # "running" /\ Named(queue, 0)
      BY QueueFacts, Zenon DEF IndInv, EarlyInv, Terminal
    <2>2. ~Holds(queue, 1)
      BY <2>1 DEF Named, Holds
    <2>3. QED BY <1>1, <2>1, <2>2, Zenon DEF EntryInv, EntryDue
  <1>7. ReportInv'
    BY <1>1, Zenon DEF IndInv, ReportInv, StopsAreExplained, HitsAreKnown, EntryFrozen
  <1>8. (HandleType /\ HandleInv)'
    BY <1>1, HandleFrame, Zenon
  <1>9. OwnInv'
    BY <1>1, Zenon DEF IndInv, OwnInv, Launched, Launching, Closing, Left
  <1>10. EarlyInv' /\ LaunchInv'
    BY <1>1, Zenon DEF IndInv, EarlyInv, LaunchInv, Serving
  <1>11. QED
    BY <1>2, <1>3, <1>4, <1>5, <1>6, <1>7, <1>8, <1>9, <1>10, Zenon DEF IndInv

\* handleConfigurationDone, whatever StartSession answers.
LEMMA ConfigurationDoneStep == ASSUME IndInv, handleConfigurationDone PROVE IndInv'
PROOF
  <1>1. CASE stage # "launched"
    <2>1. /\ UNCHANGED <<eventVars, terminating, stage, launch, owned, locked, request, aliased, handles>>
          /\ run = "reading" /\ run' = "reading"
      BY <1>1, Zenon DEF handleConfigurationDone, respond, eventVars, tableVars, sessionVars
    <2>2. EventInv'
      BY <2>1, EventFrame, Zenon
    <2>3. (HandleType /\ HandleInv)'
      BY <2>1, HandleFrame, Zenon DEF eventVars
    <2>4. (ControlType /\ FlagType /\ OwnInv /\ EarlyInv /\ LaunchInv)'
      BY <2>1, ServingFrame, Zenon DEF Serving, IndInv, FlagType
    <2>5. QED BY <2>2, <2>3, <2>4, Zenon DEF IndInv, EventInv
  <1>2. CASE stage = "launched"
    <2>1. startRefused \/ (accepts("created") /\ startAccepted)
      BY <1>2, Zenon DEF handleConfigurationDone
    <2>2. QED BY <1>2, <2>1, StartRefusedStep, StartAcceptedStep, Zenon
  <1>3. QED BY <1>1, <1>2, Zenon

\* continue, next, stepIn and stepOut: one more command is pending, and the handles
\* of the stop that is left are gone.
LEMMA ResumeStep == ASSUME IndInv, handleResume PROVE IndInv'
PROOF
  <1>1. CASE ~(stage = "configured" /\ accepts("stopped"))
    <2>1. /\ UNCHANGED <<eventVars, terminating, stage, launch, owned, locked, request, aliased, handles>>
          /\ run = "reading" /\ run' = "reading"
      BY <1>1, Zenon DEF handleResume, respond, eventVars, sessionVars, historyVars
    <2>2. EventInv'
      BY <2>1, EventFrame, Zenon
    <2>3. (HandleType /\ HandleInv)'
      BY <2>1, HandleFrame, Zenon DEF eventVars
    <2>4. (ControlType /\ FlagType /\ OwnInv /\ EarlyInv /\ LaunchInv)'
      BY <2>1, ServingFrame, Zenon DEF Serving, IndInv, FlagType
    <2>5. QED BY <2>2, <2>3, <2>4, Zenon DEF IndInv, EventInv
  <1>2. CASE stage = "configured" /\ accepts("stopped")
    <2>1. /\ UNCHANGED <<stop, decided, watch, initialStop, installed, replaces, reported, suppressed,
                         skipped, atStart, ended, stopOnEntry>>
          /\ UNCHANGED <<stage, launch, owned, locked, request, aliased, terminating>>
          /\ run = "reading" /\ run' = "reading" /\ handles' = {}
          /\ breakpoints' = commandStarted(breakpoints)
          /\ state = "stopped" /\ state' = "running" /\ stage = "configured"
          /\ publishAfter(queue, Event("running", "none", {}))
      BY <1>2, Zenon DEF handleResume, startCommand, publish, respond, accepts, Invalidate, historyVars
    <2>2. stop # 0 /\ decided = None
      BY <2>1, Zenon DEF IndInv, CommandInv, Terminal
    <2>3. /\ breakpoints' \in BreakpointTables /\ breakpoints'.pending = breakpoints.pending + 1
          /\ breakpoints'.active = breakpoints.active /\ breakpoints'.retired = breakpoints.retired
      BY <2>1, QueueFacts, TableFields, Zenon
    <2>4. ~HasEnd(queue)
      BY <2>1, QueueFacts, Zenon DEF Terminal
    <2>5. /\ queue' \in Seq(EventSet) /\ Len(queue') <= watcherBufferSize
          /\ sub' \in {"none", "open", "closed"} /\ lagged' \in BOOLEAN
          /\ Ordered(queue') /\ Named(queue', stop) /\ EndsLast(queue') /\ ~HasEnd(queue')
          /\ \A k : Holds(queue', k) => Holds(queue, k)
          /\ \A k : HitsWithin(queue, k) => HitsWithin(queue', k)
          /\ \A r, p : Covered(queue, stop, r, p) => Covered(queue', stop, r, p)
      BY <2>1, <2>4, QueueFacts, Starting, Zenon
    <2>6. ControlType'
      BY <2>1, <2>5, Zenon DEF IndInv, ControlType
    <2>7. FlagType'
      BY <2>1, <2>5, Zenon DEF IndInv, FlagType
    <2>8. DataType'
      BY <2>1, <2>3, <2>5, Zenon DEF IndInv, DataType
    <2>9. OwnInv'
      BY <2>1, Zenon DEF IndInv, OwnInv, Launched, Launching, Closing, Left
    <2>10. EarlyInv' /\ LaunchInv'
      BY <2>1, Zenon DEF IndInv, EarlyInv, LaunchInv
    <2>11. CommandInv' /\ ShownInv'
      BY <2>1, <2>2, Zenon DEF CommandInv, ShownInv
    <2>12. QueueInv'
      BY <2>1, <2>5, Zenon DEF QueueInv
    <2>13. TableInv'
      <3>1. SUFFICES ASSUME watch = "loop" PROVE TableInv'
        BY <2>1, Zenon DEF TableInv
      <3>2. /\ breakpoints.active = installed /\ HitsWithin(queue, Known)
            /\ Covered(queue, stop, 0, breakpoints.pending)
        BY <2>1, <3>1, Zenon DEF IndInv, TableInv, Running, Terminal
      <3>3. Covered(queue, stop, 1, breakpoints'.pending)
        <4>1. stop + 1 + breakpoints.pending <= stop + 0 + breakpoints'.pending
          BY <2>3, Numbers
        <4>2. breakpoints'.pending \in Nat
          BY <2>3, Numbers
        <4>3. QED BY <3>2, <4>1, <4>2, QueueFacts, CoveredShift, Zenon
      <3>4. Covered(queue', stop, 1, breakpoints'.pending) /\ HitsWithin(queue', Known)
        BY <2>5, <3>2, <3>3, Zenon
      <3>5. Running' = 1 /\ 1 <= breakpoints'.pending /\ Known' = Known
        BY <2>1, <2>3, QueueFacts DEF Running, Known
      <3>6. QED BY <2>1, <2>2, <2>3, <3>2, <3>4, <3>5, Zenon DEF TableInv
    <2>14. EntryInv'
      <3>1. EntryDue' => EntryDue
        BY <2>1, <2>2, <2>5, Zenon DEF EntryDue
      <3>2. Known' = Known
        BY <2>3, Zenon DEF Known
      <3>3. QED BY <2>1, <3>1, <3>2, Zenon DEF IndInv, EntryInv
    <2>15. ReportInv'
      BY <2>1, <2>5, Zenon DEF IndInv, ReportInv, StopsAreExplained, HitsAreKnown, EntryFrozen
    <2>16. HandleType' /\ HandleInv'
      BY <2>1, Zenon DEF IndInv, HandleType, HandleInv, Handles
    <2>17. QED
      BY <2>6, <2>7, <2>8, <2>9, <2>10, <2>11, <2>12, <2>13, <2>14, <2>15, <2>16, Zenon DEF IndInv
  <1>3. QED BY <1>1, <1>2, Zenon

\* The native set after a request is a set of native breakpoints.
LEMMA NativeSetType ==
  ASSUME IndInv, NEW ps \in Requests
  PROVE  nativeSet(ps) \in SUBSET Native
PROOF
  <1>1. installed \subseteq Native /\ replaces + 1 \in Nat /\ ps \subseteq Positions
    BY RequestsOfPositions DEF IndInv, DataType
  <1>2. QED BY <1>1 DEF nativeSet, Native

\* setBreakpoints: the table forgets no identity that a queued stop, the running
\* command or the entry may still name, and a frozen entry is not rebound.
LEMMA SetBreakpointsStep ==
  ASSUME IndInv, NEW ps \in Requests, handleSetBreakpoints(ps)
  PROVE  IndInv'
PROOF
  <1>1. /\ UNCHANGED <<state, stop, decided, queue, sub, lagged, watch, reported, suppressed,
                       skipped, atStart, ended, stopOnEntry>>
        /\ UNCHANGED <<stage, launch, owned, locked, request, aliased, handles, terminating>>
        /\ run = "reading" /\ run' = "reading"
    BY Zenon DEF handleSetBreakpoints, respond, sessionVars, historyVars
  <1>2. CASE UNCHANGED <<installed, replaces, breakpoints, initialStop>>
    <2>1. UNCHANGED eventVars
      BY <1>1, <1>2, Zenon DEF eventVars
    <2>2. EventInv'
      BY <2>1, EventFrame, Zenon
    <2>3. (HandleType /\ HandleInv)'
      BY <1>1, HandleFrame, Zenon
    <2>4. (ControlType /\ FlagType /\ OwnInv /\ EarlyInv /\ LaunchInv)'
      BY <1>1, <2>1, ServingFrame, Zenon DEF Serving, IndInv, FlagType
    <2>5. QED BY <2>2, <2>3, <2>4, Zenon DEF IndInv, EventInv
  <1>3. CASE Launched /\ state \notin Terminal /\ replaceBreakpoints(ps)
    <2> DEFINE rs == nativeSet(ps)
    <2>1. rs \in SUBSET Native
      BY NativeSetType, Zenon
    <2>2. /\ installed' = rs /\ replaces' = replaces + 1 /\ breakpoints' = replace(breakpoints, rs)
          /\ initialStop' = IF initialStop = None THEN None ELSE rebind(initialStop, rs)
      BY <1>3, Zenon DEF replaceBreakpoints
    <2> HIDE DEF rs
    <2>3. /\ breakpoints' \in BreakpointTables /\ breakpoints'.pending = breakpoints.pending
          /\ breakpoints'.active = rs
          /\ breakpoints.pending # 0 => Known \subseteq Known'
      BY <2>1, <2>2, QueueFacts, TableFields, ReplaceKeeps, Zenon DEF Known
    <2>4. /\ initialStop = None => initialStop' = None
          /\ initialStop \in InitialStops =>
               /\ initialStop' \in InitialStops
               /\ initialStop.frozen => initialStop' = initialStop
               /\ ~initialStop.frozen => ~initialStop'.frozen /\ initialStop'.bindings = rs
      <3>1. CASE initialStop = None
        BY <2>2, <3>1, NoneIsNil, Zenon DEF InitialStops, Native
      <3>2. CASE initialStop # None
        BY <2>1, <2>2, <3>2, Zenon DEF rebind, InitialStops
      <3>3. QED BY <3>1, <3>2, Zenon
    <2>5. ControlType'
      BY <1>1, Zenon DEF IndInv, ControlType
    <2>6. FlagType'
      BY <1>1, Zenon DEF IndInv, FlagType
    <2>7. DataType'
      <3>1. replaces' \in Nat
        BY <2>2 DEF IndInv, DataType
      <3>2. QED BY <1>1, <2>1, <2>2, <2>3, <2>4, <3>1, Zenon DEF IndInv, DataType
    <2>8. OwnInv' /\ LaunchInv'
      BY <1>1, Zenon DEF IndInv, OwnInv, LaunchInv, Launched
    <2>9. EarlyInv'
      <3>1. state # "none"
        BY <1>3, Zenon DEF IndInv, OwnInv
      <3>2. QED BY <1>1, <2>2, <2>4, <3>1, Zenon DEF IndInv, EarlyInv
    <2>10. (CommandInv /\ QueueInv /\ ShownInv)'
      BY <1>1, Zenon DEF IndInv, CommandInv, QueueInv, ShownInv
    <2>11. TableInv'
      <3>1. SUFFICES ASSUME watch = "loop" PROVE TableInv'
        BY <1>1, Zenon DEF TableInv
      <3>2. /\ Running <= breakpoints.pending
            /\ Covered(queue, stop, Running, breakpoints.pending)
            /\ HitsWithin(queue, Known)
            /\ state = "running" /\ decided # None => decided.hits \subseteq Known
        BY <3>1, Zenon DEF IndInv, TableInv
      <3>3. HitsWithin(queue, Known')
        <4>1. CASE breakpoints.pending # 0
          BY <2>3, <3>2, <4>1, Zenon DEF HitsWithin
        <4>2. CASE breakpoints.pending = 0
          <5>1. ASSUME NEW i \in 1..Len(queue), queue[i].kind = "stopped" PROVE FALSE
            <6>1. /\ queue[i].stop \in 1..stop
                  /\ stop + 1 + Running <= breakpoints.pending + queue[i].stop
              BY <3>2, <5>1, QueueFacts, Zenon DEF Named, Covered
            <6>2. QED BY <4>2, <6>1, Numbers
          <5>2. QED BY <5>1, Zenon DEF HitsWithin
        <4>3. QED BY <4>1, <4>2, Zenon
      <3>4. state = "running" /\ decided # None => decided.hits \subseteq Known'
        <4>1. state = "running" => breakpoints.pending # 0
          BY <3>2, Numbers DEF Running
        <4>2. QED BY <2>3, <3>2, <4>1, Zenon
      <3>5. Running' = Running
        BY <1>1, Zenon DEF Running
      <3>6. QED BY <1>1, <2>2, <2>3, <3>2, <3>3, <3>4, <3>5, Zenon DEF TableInv
    <2>12. EntryInv'
      <3>1. SUFFICES ASSUME watch = "loop", EntryDue PROVE EntryInv'
        BY <1>1, Zenon DEF EntryInv, EntryDue
      <3>2. /\ initialStop \in InitialStops /\ initialStop.frozen
            /\ initialStop.bindings \subseteq Known
            /\ {n[1] : n \in initialStop.bindings} = atStart
        BY <3>1, Zenon DEF IndInv, EntryInv
      <3>3. breakpoints.pending # 0
        <4>1. /\ Running <= breakpoints.pending /\ Covered(queue, stop, Running, breakpoints.pending)
          BY <3>1, Zenon DEF IndInv, TableInv
        <4>2. CASE state = "running"
          BY <4>1, <4>2, QueueFacts DEF Running
        <4>3. CASE Holds(queue, 1)
          <5>1. PICK i \in 1..Len(queue) : queue[i].kind = "stopped" /\ queue[i].stop = 1
            BY <4>3, Zenon DEF Holds
          <5>2. 1 \in 1..stop /\ stop + 1 + Running <= breakpoints.pending + 1
            BY <4>1, <5>1, QueueFacts, Zenon DEF Named, Covered
          <5>3. QED BY <5>2, QueueFacts
        <4>4. QED BY <3>1, <4>2, <4>3, Zenon DEF EntryDue
      <3>4. QED BY <1>1, <2>3, <2>4, <3>2, <3>3, Zenon DEF EntryInv
    <2>13. ReportInv'
      BY <1>1, <2>4, Zenon DEF IndInv, ReportInv, StopsAreExplained, HitsAreKnown, EntryFrozen
    <2>14. (HandleType /\ HandleInv)'
      BY <1>1, HandleFrame, Zenon
    <2>15. QED
      BY <2>5, <2>6, <2>7, <2>8, <2>9, <2>10, <2>11, <2>12, <2>13, <2>14, Zenon DEF IndInv
  <1>4. QED BY <1>2, <1>3, Zenon DEF handleSetBreakpoints, Launched
-----------------------------------------------------------------------------
(* watchDebugSession *)

\* What the watch goroutine knows of the channel when it has received an event.
LEMMA Receiving ==
  ASSUME IndInv, handleDebugEvent
  PROVE  /\ watch = "loop" /\ queue # <<>> /\ Head(queue) \in EventSet
         /\ UNCHANGED <<run, locked, stage, launch, owned, stopOnEntry, request, watch, terminating,
                        stop, decided, installed, replaces, atStart, aliased>>
         /\ Tail(queue) \in Seq(EventSet) /\ Len(Tail(queue)) <= watcherBufferSize
         /\ Ordered(Tail(queue)) /\ Named(Tail(queue), stop) /\ EndsLast(Tail(queue))
         /\ HasEnd(Tail(queue)) => HasEnd(queue)
         /\ \A k : Holds(Tail(queue), k) => Holds(queue, k)
         /\ \A k : Holds(queue, k) =>
              Holds(Tail(queue), k) \/ (Head(queue).kind = "stopped" /\ Head(queue).stop = k)
         /\ state \notin {"none", "created"}
PROOF
  <1>1. /\ watch = "loop" /\ queue # <<>>
        /\ UNCHANGED <<run, locked, stage, launch, owned, stopOnEntry, request, watch, terminating,
                       stop, decided, installed, replaces, atStart, aliased>>
    BY Zenon DEF handleDebugEvent
  <1>2. /\ queue \in Seq(EventSet) /\ Len(queue) <= watcherBufferSize /\ stop \in Nat
        /\ Ordered(queue) /\ Named(queue, stop) /\ EndsLast(queue)
    BY QueueFacts, Zenon
  <1>3. /\ Head(queue) \in EventSet /\ Tail(queue) \in Seq(EventSet)
        /\ Len(Tail(queue)) <= watcherBufferSize
    BY <1>1, <1>2, TailElements, BoundsPositive
  <1>4. Ordered(Tail(queue)) /\ Named(Tail(queue), stop) /\ EndsLast(Tail(queue))
    BY <1>1, <1>2, TailOrdered, Zenon
  <1>5. /\ HasEnd(Tail(queue)) => HasEnd(queue)
        /\ \A k : Holds(Tail(queue), k) => Holds(queue, k)
        /\ \A k : Holds(queue, k) =>
             Holds(Tail(queue), k) \/ (Head(queue).kind = "stopped" /\ Head(queue).stop = k)
    BY <1>1, <1>2, TailSubset, Zenon
  <1>6. state \notin {"none", "created"}
    BY <1>1, Zenon DEF IndInv, EarlyInv
  <1>7. QED BY <1>1, <1>3, <1>4, <1>5, <1>6, Zenon

\* A running event only makes the handles stale.
LEMMA RunningEventStep ==
  ASSUME IndInv, handleDebugEvent, Head(queue).kind = "running", handleRunning
  PROVE  IndInv'
PROOF
  <1>1. /\ UNCHANGED <<initialStop, breakpoints, suppressed, skipped, reported, ended, state, sub, lagged>>
        /\ handles' = {} /\ queue' = Tail(queue)
    BY Zenon DEF handleRunning, Invalidate
  <1>2. /\ watch = "loop" /\ queue # <<>> /\ state \notin {"none", "created"}
        /\ UNCHANGED <<run, locked, stage, launch, owned, stopOnEntry, request, watch, terminating,
                       stop, decided, installed, replaces, atStart, aliased>>
        /\ queue' \in Seq(EventSet) /\ Len(queue') <= watcherBufferSize
        /\ Ordered(queue') /\ Named(queue', stop) /\ EndsLast(queue')
        /\ HasEnd(queue') => HasEnd(queue)
        /\ \A k : Holds(queue', k) <=> Holds(queue, k)
    BY <1>1, Receiving, Zenon
  <1>3. ControlType'
    BY <1>1, <1>2, Zenon DEF IndInv, ControlType
  <1>4. FlagType'
    BY <1>1, <1>2, Zenon DEF IndInv, FlagType
  <1>5. DataType'
    BY <1>1, <1>2, Zenon DEF IndInv, DataType
  <1>6. (OwnInv /\ EarlyInv /\ LaunchInv /\ CommandInv)'
    BY <1>1, <1>2, Zenon DEF IndInv, OwnInv, Launched, EarlyInv, LaunchInv, CommandInv
  <1>7. QueueInv'
    BY <1>1, <1>2, Zenon DEF IndInv, QueueInv
  <1>8. ShownInv'
    BY <1>1, <1>2, Zenon DEF IndInv, ShownInv
  <1>9. TableInv'
    <2>1. Covered(queue', stop, Running, breakpoints.pending) /\ HitsWithin(queue', Known)
      <3>1. Covered(queue, stop, Running, breakpoints.pending) /\ HitsWithin(queue, Known)
        BY <1>2, Zenon DEF IndInv, TableInv
      <3>2. Covered(queue', stop, Running, breakpoints.pending)
        BY <1>1, <1>2, <3>1, QueueFacts, TailCovered, Zenon
      <3>3. HitsWithin(queue', Known)
        BY <1>1, <1>2, <3>1, QueueFacts, TailSubset, Zenon
      <3>4. QED BY <3>2, <3>3, Zenon
    <2>2. Running' = Running /\ Known' = Known
      BY <1>1, Zenon DEF Running, Known
    <2>3. QED BY <1>1, <1>2, <2>1, <2>2, Zenon DEF IndInv, TableInv
  <1>10. EntryInv'
    BY <1>1, <1>2, Zenon DEF IndInv, EntryInv, EntryDue, Known
  <1>11. ReportInv'
    BY <1>1, <1>2, Zenon DEF IndInv, ReportInv, StopsAreExplained, HitsAreKnown, EntryFrozen
  <1>12. (HandleType /\ HandleInv)'
    BY <1>1, <1>2, HandleFrame, Zenon
  <1>13. QED
    BY <1>3, <1>4, <1>5, <1>6, <1>7, <1>8, <1>9, <1>10, <1>11, <1>12, Zenon DEF IndInv

\* The event that ends the session is the last one: the mappings can be released.
LEMMA EndEventStep ==
  ASSUME IndInv, handleDebugEvent, Head(queue).kind \in Terminal, handleEnd
  PROVE  IndInv'
PROOF
  <1>1. /\ UNCHANGED <<suppressed, skipped, reported, state, sub, lagged>>
        /\ handles' = {} /\ queue' = Tail(queue) /\ initialStop' = None /\ ended' = TRUE
        /\ breakpoints' = newBreakpointIDs
    BY Zenon DEF handleEnd, sendTerminated, finish, Invalidate
  <1>2. /\ watch = "loop" /\ queue # <<>> /\ state \notin {"none", "created"}
        /\ UNCHANGED <<run, locked, stage, launch, owned, stopOnEntry, request, watch, terminating,
                       stop, decided, installed, replaces, atStart, aliased>>
        /\ queue' \in Seq(EventSet) /\ Len(queue') <= watcherBufferSize
        /\ Ordered(queue') /\ Named(queue', stop) /\ EndsLast(queue')
        /\ HasEnd(queue') => HasEnd(queue)
    BY <1>1, Receiving, Zenon
  <1>3. Len(queue') = 0 /\ state \in Terminal
    <2>1. /\ Len(queue') = Len(queue) - 1 /\ Head(queue) = queue[1] /\ Len(queue) \in Nat
          /\ Len(queue) # 0
      BY <1>1, <1>2, QueueFacts, TailElements, Zenon
    <2>2. 1 \in 1..Len(queue)
      BY <2>1
    <2>3. 1 = Len(queue) /\ HasEnd(queue)
      BY <2>1, <2>2, QueueFacts, Zenon DEF EndsLast, HasEnd
    <2>4. Len(queue') = 0
      <3>1. Len(queue') = 1 - 1
        BY <2>1, <2>3, Zenon
      <3>2. QED BY <3>1
    <2>5. QED BY <2>3, <2>4, QueueFacts, Zenon
  <1>4. newBreakpointIDs \in BreakpointTables /\ newBreakpointIDs.pending = 0
    BY Zenon DEF newBreakpointIDs, BreakpointTables
  <1>15. /\ \A i \in 1..Len(queue') : FALSE
         /\ state # "running" /\ 0 <= 0
    BY <1>3 DEF Terminal
  <1>5. ControlType'
    BY <1>1, <1>2, Zenon DEF IndInv, ControlType
  <1>6. FlagType'
    BY <1>1, <1>2, Zenon DEF IndInv, FlagType
  <1>7. DataType'
    BY <1>1, <1>2, <1>4, Zenon DEF IndInv, DataType
  <1>8. (OwnInv /\ EarlyInv /\ LaunchInv /\ CommandInv)'
    BY <1>1, <1>2, Zenon DEF IndInv, OwnInv, Launched, EarlyInv, LaunchInv, CommandInv
  <1>9. QueueInv' /\ ShownInv'
    BY <1>1, <1>2, <1>3, Zenon DEF IndInv, QueueInv, ShownInv
  <1>10. TableInv'
    BY <1>1, <1>2, <1>3, <1>4, <1>15, Zenon DEF TableInv, Running, Covered, HitsWithin
  <1>11. EntryInv'
    BY <1>1, <1>15, Zenon DEF EntryInv, EntryDue, Holds
  <1>12. ReportInv'
    BY <1>1, <1>2, <1>15, Zenon DEF IndInv, ReportInv, StopsAreExplained, HitsAreKnown, EntryFrozen, Holds
  <1>13. (HandleType /\ HandleInv)'
    BY <1>1, <1>2, HandleFrame, Zenon
  <1>14. QED
    BY <1>5, <1>6, <1>7, <1>8, <1>9, <1>10, <1>11, <1>12, <1>13, Zenon DEF IndInv

\* The stops still queued are later than the one received.
LEMMA TailLater ==
  ASSUME NEW q \in Seq(EventSet), q # <<>>, Ordered(q), Head(q).kind = "stopped",
         NEW k, Holds(Tail(q), k)
  PROVE  Head(q).stop < k
PROOF
  <1> DEFINE t == Tail(q)
  <1>1. /\ Len(t) = Len(q) - 1 /\ Len(q) \in Nat /\ Len(q) # 0 /\ Head(q) = q[1]
        /\ \A i \in 1..Len(t) : t[i] = q[i + 1] /\ i + 1 \in 1..Len(q)
    BY TailElements, Zenon
  <1>2. PICK i \in 1..Len(t) : t[i].kind = "stopped" /\ t[i].stop = k
    BY Zenon DEF Holds
  <1> HIDE DEF t
  <1>3. i + 1 \in 1..Len(q) /\ 1 \in 1..Len(q) /\ 1 < i + 1 /\ t[i] = q[i + 1]
    BY <1>1
  <1>4. QED BY <1>1, <1>2, <1>3, Zenon DEF Ordered

\* The stop received: its hits are known, it is later than the one shown last, and
\* an entry finds the bindings of the start.
LEMMA StopReceived ==
  ASSUME IndInv, handleDebugEvent, Head(queue).kind = "stopped"
  PROVE  /\ Head(queue).stop \in 1..stop /\ EntryFirst(Head(queue).stop, Head(queue))
         /\ Head(queue).hits \subseteq Known
         /\ reported.stop < Head(queue).stop
         /\ Head(queue).stop = 1 =>
              /\ initialStop # None /\ initialStop \in InitialStops
              /\ initialStop.bindings \subseteq Known
              /\ {n[1] : n \in initialStop.bindings} = atStart
PROOF
  <1>1. watch = "loop" /\ queue # <<>>
    BY Receiving, Zenon
  <1>2. /\ Head(queue) = queue[1] /\ 1 \in 1..Len(queue)
    BY <1>1, QueueFacts, TailElements
  <1>3. Head(queue).stop \in 1..stop /\ EntryFirst(Head(queue).stop, Head(queue))
    BY <1>2, QueueFacts, Zenon DEF Named
  <1>4. Head(queue).hits \subseteq Known
    BY <1>1, <1>2, Zenon DEF IndInv, TableInv, HitsWithin
  <1>5. Holds(queue, Head(queue).stop)
    BY <1>2, Zenon DEF Holds
  <1>6. reported.stop < Head(queue).stop
    BY <1>3, <1>5, Zenon DEF IndInv, ReportInv
  <1>7. ASSUME Head(queue).stop = 1
        PROVE  /\ initialStop # None /\ initialStop \in InitialStops
               /\ initialStop.bindings \subseteq Known
               /\ {n[1] : n \in initialStop.bindings} = atStart
    <2>1. EntryDue
      BY <1>5, <1>7, Zenon DEF EntryDue
    <2>2. /\ initialStop \in InitialStops /\ initialStop.bindings \subseteq Known
          /\ {n[1] : n \in initialStop.bindings} = atStart
      BY <1>1, <2>1, Zenon DEF IndInv, EntryInv
    <2>3. None \notin InitialStops
      BY NoneIsNil, Zenon DEF InitialStops, Native
    <2>4. QED BY <2>2, <2>3, Zenon
  <1>8. QED BY <1>3, <1>4, <1>6, <1>7, Zenon

\* commandStopped: what is left pending covers what is left queued, and identities
\* are released only when nothing can name them.
LEMMA StopSettled ==
  ASSUME IndInv, handleDebugEvent, Head(queue).kind = "stopped",
         NEW b, b = commandStopped(breakpoints)
  PROVE  /\ b \in BreakpointTables /\ b.active = breakpoints.active
         /\ b.pending \in Nat /\ Running <= b.pending
         /\ Covered(Tail(queue), stop, Running, b.pending)
         /\ HitsWithin(Tail(queue), b.active \cup b.retired)
         /\ state = "running" /\ decided # None => decided.hits \subseteq b.active \cup b.retired
         /\ ~Holds(Tail(queue), 1)
PROOF
  <1>1. watch = "loop" /\ queue # <<>> /\ Head(queue) \in EventSet
    BY Receiving, Zenon
  <1>2. /\ Covered(queue, stop, Running, breakpoints.pending) /\ HitsWithin(queue, Known)
        /\ state = "running" /\ decided # None => decided.hits \subseteq Known
    BY <1>1, Zenon DEF IndInv, TableInv
  <1>3. /\ breakpoints.pending > 0 /\ Running <= breakpoints.pending - 1
        /\ Covered(Tail(queue), stop, Running, breakpoints.pending - 1)
        /\ breakpoints.pending - 1 = 0 => HitsWithin(Tail(queue), {}) /\ Running = 0
        /\ ~Holds(Tail(queue), 1)
    BY <1>1, <1>2, QueueFacts, TailCovered, Zenon
  <1>4. /\ b \in BreakpointTables /\ b.pending = breakpoints.pending - 1
        /\ b.active = breakpoints.active
        /\ b.retired = IF b.pending = 0 THEN {} ELSE breakpoints.retired
    BY <1>3, QueueFacts, TableFields, Zenon
  <1>5. HitsWithin(Tail(queue), Known)
    BY <1>1, <1>2, QueueFacts, TailSubset, Zenon
  <1>6. CASE b.pending = 0
    <2>1. HitsWithin(Tail(queue), b.active \cup b.retired)
      BY <1>3, <1>4, <1>6, Zenon DEF HitsWithin
    <2>2. state # "running"
      <3>1. Running = 0
        BY <1>3, <1>4, <1>6, Zenon
      <3>2. QED BY <3>1 DEF Running
    <2>3. QED BY <1>3, <1>4, <2>1, <2>2, Zenon DEF BreakpointTables
  <1>7. CASE b.pending # 0
    <2>1. b.active \cup b.retired = Known
      BY <1>4, <1>7, Zenon DEF Known
    <2>2. QED BY <1>2, <1>3, <1>4, <1>5, <2>1, Zenon DEF BreakpointTables
  <1>8. QED BY <1>6, <1>7, Zenon

\* A stop that is shown: the client knows its breakpoints, the entry stop those of
\* the start.
LEMMA ShowExplained ==
  ASSUME IndInv, handleDebugEvent, Head(queue).kind = "stopped",
         NEW resolved,
         resolved = IF initialStop = None THEN [event |-> Head(queue), suppress |-> FALSE]
                    ELSE resolve(initialStop, Head(queue), stopOnEntry, AtEntry),
         ~resolved.suppress, showStop(resolved.event), stopOnEntry' = stopOnEntry, atStart' = atStart
  PROVE  /\ reported'.stop = Head(queue).stop
         /\ HitsAreKnown' /\ EntryFrozen'
PROOF
  <1> DEFINE e == Head(queue)
             v == resolved.event
             hits == entryHits(initialStop, AtEntry)
  <1>1. /\ e.stop \in 1..stop /\ EntryFirst(e.stop, e) /\ e.hits \subseteq Known
        /\ e.stop = 1 =>
             /\ initialStop # None /\ initialStop \in InitialStops
             /\ initialStop.bindings \subseteq Known
             /\ {n[1] : n \in initialStop.bindings} = atStart
    BY StopReceived, Zenon
  <1>2. e \in EventSet
    BY Receiving, Zenon
  <1>3. /\ reported' = [stop |-> v.stop, reason |-> v.reason, ids |-> {id(breakpoints, n) : n \in v.hits}]
        /\ suppressed' = suppressed
    BY Zenon DEF showStop
  <1>4. \/ v = e /\ (e.reason = "entry" => initialStop = None \/ (hits = {} /\ stopOnEntry))
        \/ /\ e.reason = "entry" /\ hits # {}
           /\ v.stop = e.stop /\ v.reason = "breakpoint" /\ v.hits = hits
    <2>1. CASE initialStop = None
      BY <2>1, Zenon
    <2>2. CASE initialStop # None /\ e.reason # "entry"
      BY <2>2, Zenon DEF resolve
    <2>3. CASE initialStop # None /\ e.reason = "entry" /\ hits # {}
      <3>1. v = [e EXCEPT !.reason = "breakpoint", !.hits = hits]
        BY <2>3, Zenon DEF resolve
      <3>2. QED BY <1>2, <2>3, <3>1, Zenon DEF EventSet
    <2>4. CASE initialStop # None /\ e.reason = "entry" /\ hits = {}
      <3>1. resolved = [event |-> e, suppress |-> ~stopOnEntry]
        BY <2>4, Zenon DEF resolve
      <3>2. v = e
        BY <3>1
      <3>3. ASSUME ~stopOnEntry PROVE FALSE
        <4>1. (~stopOnEntry) = TRUE
          BY <3>3, Zenon
        <4>2. resolved = [event |-> e, suppress |-> TRUE]
          BY <3>1, <4>1, Zenon
        <4>3. QED BY <4>2
      <3>4. QED BY <2>4, <3>2, <3>3, Zenon
    <2>5. QED BY <2>1, <2>2, <2>3, <2>4, Zenon
  <1> HIDE DEF e, v
  <1>5. e.reason = "entry" => e.stop = 1
    BY <1>1, Zenon DEF EntryFirst, EntryReasons
  <1>6. v.stop = e.stop /\ v.hits \subseteq Known
    BY <1>1, <1>4, <1>5, Zenon DEF entryHits
  <1>7. Known \subseteq Native
    BY QueueFacts, Zenon DEF BreakpointTables, Known
  <1>8. \A n \in v.hits : id(breakpoints, n) = n[1] /\ n[1] \in Positions
    BY <1>6, <1>7, Zenon DEF id, Known, Native
  <1>9. HitsAreKnown'
    <2>1. \A i \in reported'.ids : i \in Positions
      BY <1>3, <1>8, Zenon
    <2>2. QED BY <2>1, NoneIsNil, Zenon DEF HitsAreKnown
  <1>10. reported'.ids = {n[1] : n \in v.hits}
    BY <1>3, <1>8, Zenon
  <1>11. EntryFrozen'
    <2>1. SUFFICES ASSUME v.stop = 1, v.reason # "error"
                   PROVE  /\ reported'.ids = atStart \cap AtEntry
                          /\ reported'.ids = {} => stopOnEntry
      BY <1>3, Zenon DEF IndInv, ReportInv, StopsAreExplained, EntryFrozen
    <2>2. e.stop = 1 /\ e.hits = {} /\ initialStop # None
          /\ {n[1] : n \in initialStop.bindings} = atStart
      BY <1>1, <1>6, <2>1, Zenon DEF EntryFirst
    <2>3. {n[1] : n \in hits} = atStart \cap AtEntry
      BY <2>2, Zenon DEF entryHits
    <2>4. CASE v = e
      <3>1. e.reason = "entry"
        BY <1>1, <2>1, <2>2, <2>4, Zenon DEF EntryFirst, EntryReasons
      <3>2. hits = {} /\ stopOnEntry
        BY <1>4, <2>2, <2>4, <3>1, Zenon
      <3>3. QED BY <1>10, <2>2, <2>3, <2>4, <3>2, Zenon
    <2>5. CASE hits # {} /\ v.hits = hits
      BY <1>10, <2>3, <2>5, Zenon
    <2>6. QED BY <1>4, <2>4, <2>5, Zenon
  <1>12. QED BY <1>3, <1>6, <1>9, <1>11, Zenon DEF e

\* What every translation of a stop leaves alone, and the invariants it cannot disturb.
LEMMA StopFrame ==
  ASSUME IndInv, handleDebugEvent, Head(queue).kind = "stopped", initialStop' = None,
         state' = state \/ (state = "stopped" /\ state' = "running" /\ "debug" \in owned),
         sub' \in {"none", "open", "closed"}, lagged' \in BOOLEAN, ended' \in BOOLEAN
  PROVE  (ControlType /\ FlagType /\ OwnInv /\ EarlyInv /\ LaunchInv)' /\ stop # 0
PROOF
  <1>1. /\ watch = "loop" /\ queue # <<>> /\ state \notin {"none", "created"}
        /\ UNCHANGED <<run, locked, stage, launch, owned, stopOnEntry, request, watch, terminating,
                       stop, decided, installed, replaces, atStart, aliased>>
    BY Receiving, Zenon
  <1>2. ControlType'
    BY <1>1, Zenon DEF IndInv, ControlType
  <1>3. FlagType'
    BY <1>1, Zenon DEF IndInv, FlagType
  <1>4. stop # 0
    <2>1. Head(queue).stop \in 1..stop
      BY StopReceived, Zenon
    <2>2. QED BY <2>1, QueueFacts
  <1>5. OwnInv'
    BY <1>1, Zenon DEF IndInv, OwnInv, Launched, Terminal
  <1>6. EarlyInv' /\ LaunchInv'
    BY <1>1, <1>4, Zenon DEF IndInv, EarlyInv, LaunchInv
  <1>7. QED BY <1>2, <1>3, <1>4, <1>5, <1>6, Zenon

\* sendStopped, then the command it ends is settled.
LEMMA ShowStep ==
  ASSUME IndInv, handleDebugEvent, Head(queue).kind = "stopped", initialStop' = None,
         NEW resolved,
         resolved = IF initialStop = None THEN [event |-> Head(queue), suppress |-> FALSE]
                    ELSE resolve(initialStop, Head(queue), stopOnEntry, AtEntry),
         ~resolved.suppress, showStop(resolved.event)
  PROVE  IndInv'
PROOF
  <1>1. /\ UNCHANGED <<handles, suppressed, skipped, ended, state, sub, lagged>>
        /\ queue' = Tail(queue) /\ breakpoints' = commandStopped(breakpoints)
    BY Zenon DEF showStop
  <1>2. /\ watch = "loop" /\ state \notin {"none", "created"}
        /\ UNCHANGED <<run, locked, stage, launch, owned, stopOnEntry, request, watch, terminating,
                       stop, decided, installed, replaces, atStart, aliased>>
        /\ queue' \in Seq(EventSet) /\ Len(queue') <= watcherBufferSize
        /\ Ordered(queue') /\ Named(queue', stop) /\ EndsLast(queue')
        /\ HasEnd(queue') => HasEnd(queue)
        /\ \A k : Holds(queue, k) =>
             Holds(queue', k) \/ (Head(queue).kind = "stopped" /\ Head(queue).stop = k)
    BY <1>1, Receiving, Zenon
  <1>3. (ControlType /\ FlagType /\ OwnInv /\ EarlyInv /\ LaunchInv)' /\ stop # 0
    BY <1>1, StopFrame, Zenon DEF IndInv, ControlType, FlagType
  <1>4. /\ breakpoints' \in BreakpointTables /\ breakpoints'.active = breakpoints.active
        /\ Running <= breakpoints'.pending
        /\ Covered(queue', stop, Running, breakpoints'.pending)
        /\ HitsWithin(queue', Known')
        /\ state = "running" /\ decided # None => decided.hits \subseteq Known'
        /\ ~Holds(queue', 1)
    BY <1>1, StopSettled, Zenon DEF Known
  <1>5. reported'.stop = Head(queue).stop /\ HitsAreKnown' /\ EntryFrozen'
    BY <1>2, ShowExplained, Zenon
  <1>6. /\ Head(queue).stop \in 1..stop /\ reported.stop # stop
    <2>1. /\ Head(queue).stop \in 1..stop /\ reported.stop < Head(queue).stop
      BY StopReceived, Zenon
    <2>2. reported.stop \in 0..stop
      BY Zenon DEF IndInv, ReportInv
    <2>3. QED BY <2>1, <2>2, Numbers
  <1>7. DataType'
    BY <1>1, <1>2, <1>4, Zenon DEF IndInv, DataType
  <1>8. CommandInv'
    BY <1>1, <1>2, Zenon DEF IndInv, CommandInv
  <1>9. QueueInv'
    BY <1>1, <1>2, Zenon DEF IndInv, QueueInv
  <1>10. ShownInv'
    BY <1>1, <1>2, <1>5, <1>6, Zenon DEF IndInv, ShownInv
  <1>11. TableInv'
    <2>1. Running' = Running
      BY <1>1, Zenon DEF Running
    <2>2. QED BY <1>1, <1>2, <1>4, <2>1, Zenon DEF IndInv, TableInv
  <1>12. EntryInv'
    BY <1>1, <1>2, <1>3, <1>4, Zenon DEF EntryInv, EntryDue
  <1>13. ReportInv'
    <2>1. \A k \in 1..stop : Holds(queue', k) => reported'.stop < k
      BY <1>1, <1>5, QueueFacts, Receiving, TailLater, Zenon
    <2>2. reported'.stop \in 0..stop
      BY <1>5, <1>6, Numbers
    <2>3. QED BY <1>1, <1>2, <1>5, <2>1, <2>2, Zenon DEF IndInv, ReportInv, StopsAreExplained
  <1>14. (HandleType /\ HandleInv)'
    BY <1>1, <1>2, HandleFrame, Zenon
  <1>15. QED
    BY <1>3, <1>7, <1>8, <1>9, <1>10, <1>11, <1>12, <1>13, <1>14, Zenon DEF IndInv

\* resolve hides the entry only when stopOnEntry is off and no breakpoint of the
\* start is there; nothing was skipped before.
LEMMA Hidden ==
  ASSUME IndInv, handleDebugEvent, Head(queue).kind = "stopped",
         NEW resolved,
         resolved = IF initialStop = None THEN [event |-> Head(queue), suppress |-> FALSE]
                    ELSE resolve(initialStop, Head(queue), stopOnEntry, AtEntry),
         resolved.suppress
  PROVE  Head(queue).stop = 1 /\ ~stopOnEntry /\ atStart \cap AtEntry = {} /\ skipped = {}
PROOF
  <1> DEFINE e == Head(queue)
             hits == entryHits(initialStop, AtEntry)
  <1>1. initialStop # None
    OBVIOUS
  <1>2. resolved = resolve(initialStop, e, stopOnEntry, AtEntry)
    BY <1>1, Zenon
  <1>3. e.reason = "entry" /\ hits = {}
    BY <1>2 DEF resolve
  <1>4. resolved = [event |-> e, suppress |-> ~stopOnEntry]
    BY <1>2, <1>3, Zenon DEF resolve
  <1>5. ~stopOnEntry
    <2>1. ASSUME stopOnEntry PROVE FALSE
      <3>1. (~stopOnEntry) = FALSE
        BY <2>1, Zenon
      <3>2. resolved = [event |-> e, suppress |-> FALSE]
        BY <1>4, <3>1, Zenon
      <3>3. QED BY <3>2
    <2>2. QED BY <2>1, Zenon
  <1>6. e.stop = 1
    BY <1>3, StopReceived, Zenon DEF EntryFirst, EntryReasons
  <1>7. {n[1] : n \in initialStop.bindings} = atStart
    BY <1>6, StopReceived, Zenon
  <1>8. atStart \cap AtEntry = {}
    BY <1>3, <1>7, Zenon DEF entryHits
  <1>9. skipped = {}
    BY <1>1, Zenon DEF IndInv, ReportInv
  <1>10. QED BY <1>5, <1>6, <1>8, <1>9, Zenon

\* The entry is hidden and ContinueSession refused: the client is told of an end.
LEMMA SuppressRefusedStep ==
  ASSUME IndInv, handleDebugEvent, Head(queue).kind = "stopped", initialStop' = None,
         Head(queue).stop = 1, ~stopOnEntry, atStart \cap AtEntry = {}, skipped = {},
         suppressEntry(Head(queue)), ~accepts("stopped")
  PROVE  IndInv'
PROOF
  <1>1. /\ UNCHANGED <<reported, skipped, state, sub, lagged>> /\ ended' = TRUE /\ handles' = {}
        /\ suppressed' = suppressed \cup {Head(queue).stop}
        /\ queue' = Tail(queue) /\ breakpoints' = commandStopped(breakpoints)
    BY Zenon DEF suppressEntry, sendTerminated, Invalidate
  <1>2. /\ watch = "loop" /\ state \notin {"none", "created"}
        /\ UNCHANGED <<run, locked, stage, launch, owned, stopOnEntry, request, watch, terminating,
                       stop, decided, installed, replaces, atStart, aliased>>
        /\ queue' \in Seq(EventSet) /\ Len(queue') <= watcherBufferSize
        /\ Ordered(queue') /\ Named(queue', stop) /\ EndsLast(queue')
        /\ HasEnd(queue') => HasEnd(queue)
        /\ \A k : Holds(queue', k) => Holds(queue, k)
    BY <1>1, Receiving, Zenon
  <1>3. (ControlType /\ FlagType /\ OwnInv /\ EarlyInv /\ LaunchInv)' /\ stop # 0
    BY <1>1, StopFrame, Zenon DEF IndInv, ControlType, FlagType
  <1>4. /\ breakpoints' \in BreakpointTables /\ breakpoints'.active = breakpoints.active
        /\ Running <= breakpoints'.pending
        /\ Covered(queue', stop, Running, breakpoints'.pending)
        /\ HitsWithin(queue', Known')
        /\ state = "running" /\ decided # None => decided.hits \subseteq Known'
        /\ ~Holds(queue', 1)
    BY <1>1, StopSettled, Zenon DEF Known
  <1>5. DataType'
    BY <1>1, <1>2, <1>4, Zenon DEF IndInv, DataType
  <1>6. CommandInv' /\ ShownInv'
    BY <1>1, <1>2, Zenon DEF IndInv, CommandInv, ShownInv
  <1>7. QueueInv'
    BY <1>1, <1>2, Zenon DEF IndInv, QueueInv
  <1>8. TableInv'
    <2>1. Running' = Running
      BY <1>1, Zenon DEF Running
    <2>2. QED BY <1>1, <1>2, <1>4, <2>1, Zenon DEF IndInv, TableInv
  <1>9. EntryInv'
    BY <1>1, <1>2, <1>3, <1>4, Zenon DEF EntryInv, EntryDue
  <1>10. ReportInv'
    BY <1>1, <1>2, Zenon DEF IndInv, ReportInv, StopsAreExplained, HitsAreKnown, EntryFrozen
  <1>11. (HandleType /\ HandleInv)'
    BY <1>1, <1>2, HandleFrame, Zenon
  <1>12. QED
    BY <1>3, <1>5, <1>6, <1>7, <1>8, <1>9, <1>10, <1>11, Zenon DEF IndInv

\* The entry is hidden and the program resumed: an inspection under way belongs to
\* the stop that is skipped.
LEMMA SuppressResumedStep ==
  ASSUME IndInv, handleDebugEvent, Head(queue).kind = "stopped", initialStop' = None,
         Head(queue).stop = 1, ~stopOnEntry, atStart \cap AtEntry = {}, skipped = {},
         suppressEntry(Head(queue)), accepts("stopped")
  PROVE  IndInv'
PROOF
  <1> DEFINE b == commandStopped(breakpoints)
  <1>1. /\ UNCHANGED <<reported, ended>> /\ handles' = {} /\ skipped' = {stop}
        /\ suppressed' = suppressed \cup {Head(queue).stop}
        /\ breakpoints' = commandStarted(b)
        /\ state = "stopped" /\ state' = "running" /\ "debug" \in owned
        /\ publishAfter(Tail(queue), Event("running", "none", {}))
    BY Zenon DEF suppressEntry, accepts, Invalidate
  <1>2. /\ watch = "loop" /\ state \notin {"none", "created"}
        /\ UNCHANGED <<run, locked, stage, launch, owned, stopOnEntry, request, watch, terminating,
                       stop, decided, installed, replaces, atStart, aliased>>
        /\ Tail(queue) \in Seq(EventSet) /\ Len(Tail(queue)) <= watcherBufferSize
        /\ Ordered(Tail(queue)) /\ Named(Tail(queue), stop) /\ EndsLast(Tail(queue))
        /\ HasEnd(Tail(queue)) => HasEnd(queue)
        /\ \A k : Holds(Tail(queue), k) => Holds(queue, k)
    BY Receiving, Zenon
  <1>3. ~HasEnd(Tail(queue))
    BY <1>1, <1>2, QueueFacts, Zenon DEF Terminal
  <1>4. /\ queue' \in Seq(EventSet) /\ Len(queue') <= watcherBufferSize
        /\ sub' \in {"none", "open", "closed"} /\ lagged' \in BOOLEAN
        /\ Ordered(queue') /\ Named(queue', stop) /\ EndsLast(queue') /\ ~HasEnd(queue')
        /\ \A k : Holds(queue', k) => Holds(Tail(queue), k)
        /\ \A k : HitsWithin(Tail(queue), k) => HitsWithin(queue', k)
        /\ \A r, p : Covered(Tail(queue), stop, r, p) => Covered(queue', stop, r, p)
    BY <1>1, <1>2, <1>3, Starting, Zenon
  <1>5. (ControlType /\ FlagType /\ OwnInv /\ EarlyInv /\ LaunchInv)' /\ stop # 0
    <2>1. ended' \in BOOLEAN
      BY <1>1, Zenon DEF IndInv, FlagType
    <2>2. QED BY <1>1, <1>4, <2>1, StopFrame, Zenon
  <1>6. /\ b \in BreakpointTables /\ b.active = breakpoints.active /\ b.pending \in Nat
        /\ Covered(Tail(queue), stop, Running, b.pending)
        /\ HitsWithin(Tail(queue), b.active \cup b.retired)
        /\ ~Holds(Tail(queue), 1)
    BY StopSettled, Zenon
  <1> HIDE DEF b
  <1>7. /\ breakpoints' \in BreakpointTables /\ breakpoints'.pending = b.pending + 1
        /\ breakpoints'.active = breakpoints.active /\ Known' = b.active \cup b.retired
    BY <1>1, <1>6, TableFields, Zenon DEF Known
  <1>8. decided = None
    BY <1>1, Zenon DEF IndInv, CommandInv, Terminal
  <1>9. DataType'
    BY <1>1, <1>2, <1>4, <1>7, Zenon DEF IndInv, DataType
  <1>10. CommandInv' /\ ShownInv'
    BY <1>1, <1>2, <1>8, Zenon DEF CommandInv, ShownInv
  <1>11. QueueInv'
    BY <1>2, <1>4, Zenon DEF QueueInv
  <1>12. TableInv'
    <2>1. Running = 0 /\ Running' = 1
      BY <1>1, Zenon DEF Running
    <2>2. Covered(Tail(queue), stop, 1, breakpoints'.pending)
      <3>1. /\ breakpoints'.pending \in Nat /\ Covered(Tail(queue), stop, 0, b.pending)
            /\ stop + 1 + b.pending <= stop + 0 + breakpoints'.pending
        BY <1>6, <1>7, <2>1, Numbers
      <3>2. QED BY <1>2, <1>6, <3>1, QueueFacts, CoveredShift, Zenon
    <2>3. Covered(queue', stop, 1, breakpoints'.pending) /\ HitsWithin(queue', Known')
      BY <1>4, <1>6, <1>7, <2>2, Zenon
    <2>4. breakpoints.active = installed
      BY <1>1, <1>2, Zenon DEF IndInv, TableInv, Terminal
    <2>5. 1 <= breakpoints'.pending
      BY <1>6, <1>7
    <2>6. QED BY <1>2, <1>7, <1>8, <2>1, <2>3, <2>4, <2>5, Zenon DEF TableInv
  <1>13. EntryInv'
    BY <1>2, <1>4, <1>5, <1>6, Zenon DEF EntryInv, EntryDue
  <1>14. ReportInv'
    BY <1>1, <1>2, <1>4, Zenon DEF IndInv, ReportInv, StopsAreExplained, HitsAreKnown, EntryFrozen
  <1>15. HandleType'
    BY <1>1, <1>2, Zenon DEF IndInv, HandleType, Handles
  <1>16. HandleInv'
    BY <1>1, <1>2, Zenon DEF IndInv, HandleInv, Belongs
  <1>17. QED
    BY <1>5, <1>9, <1>10, <1>11, <1>12, <1>13, <1>14, <1>15, <1>16, Zenon DEF IndInv

\* handleDebugEvent, whatever the event.
LEMMA DebugEventStep == ASSUME IndInv, handleDebugEvent PROVE IndInv'
PROOF
  <1>1. \/ Head(queue).kind = "running" /\ handleRunning
        \/ Head(queue).kind = "stopped" /\ handleStopped(Head(queue))
        \/ Head(queue).kind \in Terminal /\ handleEnd
    BY Zenon DEF handleDebugEvent
  <1>2. CASE Head(queue).kind = "stopped" /\ handleStopped(Head(queue))
    <2> DEFINE resolved == IF initialStop = None THEN [event |-> Head(queue), suppress |-> FALSE]
                           ELSE resolve(initialStop, Head(queue), stopOnEntry, AtEntry)
    <2>1. /\ initialStop' = None
          /\ IF resolved.suppress THEN suppressEntry(Head(queue)) ELSE showStop(resolved.event)
      BY <1>2, Zenon DEF handleStopped
    <2>2. CASE ~resolved.suppress
      <3>1. showStop(resolved.event)
        BY <2>1, <2>2, Zenon
      <3>2. QED BY <1>2, <2>1, <2>2, <3>1, ShowStep, Zenon
    <2>3. CASE resolved.suppress
      <3>1. suppressEntry(Head(queue))
        BY <2>1, <2>3, Zenon
      <3>2. Head(queue).stop = 1 /\ ~stopOnEntry /\ atStart \cap AtEntry = {} /\ skipped = {}
        BY <1>2, <2>3, Hidden, Zenon
      <3>3. QED BY <1>2, <2>1, <3>1, <3>2, SuppressRefusedStep, SuppressResumedStep, Zenon
    <2>4. QED BY <2>2, <2>3, Zenon
  <1>3. QED BY <1>1, <1>2, RunningEventStep, EndEventStep, Zenon
-----------------------------------------------------------------------------
(* The invariant is inductive *)

\* A step that changes nothing.
LEMMA StutterStep == ASSUME IndInv, UNCHANGED vars PROVE IndInv'
PROOF
  <1>1. /\ UNCHANGED <<eventVars, terminating, stage, launch, owned, locked, request, aliased, handles, run>>
    BY Zenon DEF vars, eventVars, tableVars, sessionVars, historyVars
  <1>2. EventInv'
    BY <1>1, EventFrame, Zenon
  <1>3. (HandleType /\ HandleInv)'
    BY <1>1, HandleFrame, Zenon DEF eventVars
  <1>4. (ControlType /\ FlagType)'
    <2>1. ControlType'
      BY <1>1, Zenon DEF IndInv, ControlType, eventVars
    <2>2. FlagType'
      BY <1>1, Zenon DEF IndInv, FlagType, eventVars
    <2>3. QED BY <2>1, <2>2, Zenon
  <1>5. (OwnInv /\ EarlyInv /\ LaunchInv)'
    BY <1>1, Zenon DEF IndInv, OwnInv, Launched, EarlyInv, LaunchInv, eventVars
  <1>6. QED BY <1>2, <1>3, <1>4, <1>5, Zenon DEF IndInv, EventInv

\* Every action of the adapter and of the Session keeps the invariant.
LEMMA NextInd == IndInv /\ [Next]_vars => IndInv'
PROOF
  <1>1. SUFFICES ASSUME IndInv, Next \/ UNCHANGED vars PROVE IndInv'
    OBVIOUS
  <1>2. CASE decide \/ runCommand \/ terminate
    BY <1>1, <1>2, DecideStep, DiscardStep, RunCommandStep, TerminateStep, Zenon
  <1>3. CASE \/ endOfInput \/ handleInitialize \/ handleLaunch
             \/ openWorkspace \/ createSession \/ createDebugSession \/ watchSession
    BY <1>1, <1>3, EndOfInputStep, InitializeStep, LaunchStep, LaunchingStep, WatchSessionStep, Zenon
  <1>4. CASE handleConfigurationDone \/ handleResume \/ handlePause
    BY <1>1, <1>4, ConfigurationDoneStep, ResumeStep, PauseStep, Zenon
  <1>5. CASE \E ps \in Requests : handleSetBreakpoints(ps)
    BY <1>1, <1>5, SetBreakpointsStep, Zenon
  <1>6. CASE \/ handleStackTrace
             \/ \E h \in Handles : h[1] = "frame" /\ handleScopes(h)
             \/ \E h \in Handles : h[1] # "frame" /\ handleVariables(h)
    BY <1>1, <1>6, StackTraceStep, ScopesStep, VariablesStep, Zenon
  <1>7. CASE \/ \E h \in Handles : h[1] = "frame" /\ handleEvaluate(h)
             \/ handleEvaluate(None) \/ inspect \/ allocate
    BY <1>1, <1>7, EvaluateStep, EvaluateTopStep, InspectStep, AllocateStep, Zenon
  <1>8. CASE \/ handleTerminate \/ handleDisconnect \/ cleanupCancel
             \/ cleanupDebug \/ cleanupSession \/ cleanupWorkspace \/ cleanupRuntime
    BY <1>1, <1>8, TerminateRequestStep, DisconnectStep, CleanupCancelStep, CleanupCloseStep, Zenon
  <1>9. CASE handleDebugEvent \/ watchErrors \/ watchDone
    BY <1>1, <1>9, DebugEventStep, WatchErrorsStep, WatchDoneStep, Zenon
  <1>10. QED
    BY <1>1, <1>2, <1>3, <1>4, <1>5, <1>6, <1>7, <1>8, <1>9, StutterStep, Zenon DEF Next

\* The invariant holds in every reachable state of the adapter.
THEOREM Inductive == Spec => []IndInv
PROOF
  BY InitInd, NextInd, PTL DEF Spec
-----------------------------------------------------------------------------
(* What it gives *)

\* Every Go field keeps its type, no handler allocates outside the table, and the
\* event channel never holds more than its capacity.
THEOREM TypeCorrect == Spec => []TypeOK
PROOF
  <1>1. IndInv => TypeOK
    <2>1. IndInv => breakpoints.pending \in Nat /\ owned \subseteq {"runtime", "workspace", "session", "debug"}
      BY Zenon DEF IndInv, DataType, BreakpointTables, OwnInv, Made, Left, Resources
    <2>2. IndInv => {locked, terminating, lagged, ended} \subseteq BOOLEAN
      BY Zenon DEF IndInv, FlagType
    <2>3. QED
      BY <2>1, <2>2, Zenon DEF IndInv, TypeOK, ControlType, DataType, HandleType, RunSteps
  <1>2. QED BY Inductive, <1>1, PTL

\* No stopped and no terminated event overtakes the answer to launch, however the
\* watch goroutine and configurationDone interleave.
THEOREM LaunchComesFirst == Spec => []LaunchAnsweredFirst
PROOF
  <1>1. IndInv => LaunchAnsweredFirst
    BY Zenon DEF IndInv, LaunchInv, EarlyInv, LaunchAnsweredFirst
  <1>2. QED BY Inductive, <1>1, PTL

\* A stop is reported with breakpoints the client can name, the entry stop with
\* those the program was started with, however often they were replaced meanwhile.
THEOREM StopsExplained == Spec => []StopsAreExplained
PROOF
  <1>1. IndInv => StopsAreExplained
    BY Zenon DEF IndInv, ReportInv
  <1>2. QED BY Inductive, <1>1, PTL

\* A handle is answered from its own stop, except one of the single stop that the
\* adapter resumed to hide the entry.
THEOREM HandlesKeep == Spec => []HandlesKeepTheirStop
PROOF
  <1>1. IndInv => HandlesKeepTheirStop
    BY Zenon DEF IndInv, HandleInv, ReportInv, StopsAreExplained, EntryFrozen, HandlesKeepTheirStop
  <1>2. QED BY Inductive, <1>1, PTL

\* A stopped program is one the client was told about once the events are translated.
THEOREM StopsShown == Spec => []StopsAreShown
PROOF
  <1>1. IndInv => StopsAreShown
    BY DEF IndInv, ShownInv, Holds, StopsAreShown
  <1>2. QED BY Inductive, <1>1, PTL

\* A failed launch leaves nothing behind, and cleanup releases children first.
THEOREM OwnershipHolds == Spec => []OwnershipOrdered
PROOF
  <1>1. IndInv => OwnershipOrdered
    BY Zenon DEF IndInv, ControlType, OwnInv, Launched, Launching, Closing, Made, Left, Resources, RunSteps,
           Cleanup, OwnershipOrdered, Terminal
  <1>2. QED BY Inductive, <1>1, PTL
=============================================================================
