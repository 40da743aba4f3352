----------------------------- MODULE RpcHandler -----------------------------
(***************************************************************************)
(* internal/lsp.rpcHandler: messages dispatched on goroutines of their     *)
(* own, each behind the lifecycle message that was the tail when it        *)
(* arrived, with cancellation, exit and the end of the connection.         *)
(* Messages are numbered in the order in which they arrive.                *)
(***************************************************************************)
EXTENDS Naturals, FiniteSets

CONSTANT MaxMessages   \* bound: messages of one connection

ASSUME MaxMessagesNat == MaxMessages \in Nat

Messages == 1..MaxMessages

\* didOpen, didChange, didClose, initialized; initialize, shutdown; exit; the
\* feature requests.
Kinds == {"note", "call", "exit", "feature"}

VARIABLES
  arrived,   \* messages handled so far
  kind,      \* kind of each
  tail,      \* rpcHandler.tail: the last lifecycle message, 0 before any
  barrier,   \* the message whose completion a message waits for
  inFlight,  \* rpcHandler.inFlight
  canceled,  \* requests whose context a $/cancelRequest cancelled
  pc,        \* dispatch: "none", "waiting", "running", "done"
  skipped,   \* history: cancelled before their barrier opened
  replies,   \* replies sent per message
  conn,      \* connection: "open", "closed"
  run        \* runStream: "serving", "draining", "returned"

vars == <<arrived, kind, tail, barrier, inFlight, canceled, pc, skipped, replies, conn, run>>

isLifecycleMethod(m) == kind[m] \in {"note", "call", "exit"}
isRequest(m) == kind[m] \in {"call", "feature"}
completed(m) == m > 0 => pc[m] = "done"

Init ==
  /\ arrived = 0 /\ tail = 0 /\ inFlight = {} /\ canceled = {} /\ skipped = {}
  /\ kind = [m \in Messages |-> "note"]
  /\ barrier = [m \in Messages |-> 0]
  /\ pc = [m \in Messages |-> "none"]
  /\ replies = [m \in Messages |-> 0]
  /\ conn = "open" /\ run = "serving"

\* Mutant: a lifecycle message does not become the tail.
HandleWithoutTail(k) ==
  /\ arrived < MaxMessages
  /\ conn = "open"
  /\ arrived' = arrived + 1
  /\ kind' = [kind EXCEPT ![arrived'] = k]
  /\ inFlight' = IF k \in {"call", "feature"} THEN inFlight \cup {arrived'} ELSE inFlight
  /\ barrier' = [barrier EXCEPT ![arrived'] = tail]
  /\ pc' = [pc EXCEPT ![arrived'] = "waiting"]
  /\ UNCHANGED <<tail, canceled, skipped, replies, conn, run>>

\* Mutant: the tail is replaced before it is read as the barrier.
HandleOwnBarrier(k) ==
  /\ arrived < MaxMessages
  /\ conn = "open"
  /\ arrived' = arrived + 1
  /\ kind' = [kind EXCEPT ![arrived'] = k]
  /\ inFlight' = IF k \in {"call", "feature"} THEN inFlight \cup {arrived'} ELSE inFlight
  /\ tail' = IF k = "feature" THEN tail ELSE arrived'
  /\ barrier' = [barrier EXCEPT ![arrived'] = tail']
  /\ pc' = [pc EXCEPT ![arrived'] = "waiting"]
  /\ UNCHANGED <<canceled, skipped, replies, conn, run>>

\* Register a request, take the tail as barrier and, for a lifecycle message,
\* become the tail.
Handle(k) ==
  /\ arrived < MaxMessages
  /\ conn = "open"
  /\ arrived' = arrived + 1
  /\ kind' = [kind EXCEPT ![arrived'] = k]
  /\ inFlight' = IF k \in {"call", "feature"} THEN inFlight \cup {arrived'} ELSE inFlight
  /\ barrier' = [barrier EXCEPT ![arrived'] = tail]
  /\ tail' = IF k = "feature" THEN tail ELSE arrived'
  /\ pc' = [pc EXCEPT ![arrived'] = "waiting"]
  /\ UNCHANGED <<canceled, skipped, replies, conn, run>>

\* $/cancelRequest, handled on the reading goroutine.
cancel(m) ==
  /\ conn = "open"
  /\ m \in inFlight
  /\ canceled' = canceled \cup {m}
  /\ UNCHANGED <<arrived, kind, tail, barrier, inFlight, pc, skipped, replies, conn, run>>

\* A message's context: its own for a request, the connection's for all.
contextDone(m) == m \in canceled \/ run # "serving"

\* dispatch's deferred calls, run on every way out: the request is removed and
\* what waits behind a lifecycle message goes on.
leave(m, reply) ==
  /\ pc' = [pc EXCEPT ![m] = "done"]
  /\ inFlight' = inFlight \ {m}
  /\ replies' = [replies EXCEPT ![m] = IF isRequest(m) /\ reply THEN @ + 1 ELSE @]

\* The first select of dispatch: the context ...
dispatchCanceled(m) ==
  /\ pc[m] = "waiting"
  /\ contextDone(m)
  /\ leave(m, TRUE)
  /\ skipped' = skipped \cup {m}
  /\ UNCHANGED <<arrived, kind, tail, barrier, canceled, conn, run>>

\* ... or the barrier.  exit closes the connection.
dispatch(m) ==
  /\ pc[m] = "waiting"
  /\ completed(barrier[m])
  /\ IF kind[m] = "exit"
     THEN leave(m, FALSE) /\ conn' = "closed"
     ELSE pc' = [pc EXCEPT ![m] = "running"] /\ UNCHANGED <<inFlight, replies, conn>>
  /\ UNCHANGED <<arrived, kind, tail, barrier, canceled, skipped, run>>

\* The handler returns; a request is answered with its result, an error or the
\* cancellation.
handled(m) ==
  /\ pc[m] = "running"
  /\ leave(m, TRUE)
  /\ UNCHANGED <<arrived, kind, tail, barrier, canceled, skipped, conn, run>>

\* The client disconnects.
disconnect ==
  /\ conn = "open"
  /\ conn' = "closed"
  /\ UNCHANGED <<arrived, kind, tail, barrier, inFlight, canceled, pc, skipped, replies, run>>

\* runStream: the process context ends, or the connection did; every context is
\* cancelled ...
stopServing ==
  /\ run = "serving"
  /\ run' = "draining"
  /\ conn' = "closed"
  /\ UNCHANGED <<arrived, kind, tail, barrier, inFlight, canceled, pc, skipped, replies>>

\* ... and the goroutines are waited for.
waitForCompletion ==
  /\ run = "draining"
  /\ \A m \in 1..arrived : pc[m] = "done"
  /\ run' = "returned"
  /\ UNCHANGED <<arrived, kind, tail, barrier, inFlight, canceled, pc, skipped, replies, conn>>

Next ==
  \/ \E k \in Kinds : Handle(k)
  \/ \E m \in Messages : cancel(m) \/ dispatchCanceled(m) \/ dispatch(m) \/ handled(m)
  \/ disconnect \/ stopServing \/ waitForCompletion

Spec == Init /\ [][Next]_vars

\* Goroutines run on and handlers return, runStream sees the disconnect.
Fairness ==
  /\ \A m \in Messages : WF_vars(dispatchCanceled(m) \/ dispatch(m)) /\ WF_vars(handled(m))
  /\ WF_vars(conn = "closed" /\ stopServing)
  /\ WF_vars(waitForCompletion)

FairSpec == Spec /\ Fairness
-----------------------------------------------------------------------------
(* Properties *)

\* Every variable has the values of the handler's fields; a message waits only
\* for an earlier one, so no two wait for each other.
TypeOK ==
  /\ arrived \in 0..MaxMessages
  /\ kind \in [Messages -> Kinds]
  /\ tail \in 0..arrived
  /\ barrier \in [Messages -> 0..MaxMessages]
  /\ \A m \in Messages : barrier[m] < m
  /\ inFlight \subseteq Messages /\ canceled \subseteq Messages /\ skipped \subseteq Messages
  /\ pc \in [Messages -> {"none", "waiting", "running", "done"}]
  /\ replies \in [Messages -> Nat]
  /\ conn \in {"open", "closed"}
  /\ run \in {"serving", "draining", "returned"}

earlierLifecycleDone(m) == \A l \in 1..(m - 1) : isLifecycleMethod(l) => pc[l] = "done"

\* It is so as long as no lifecycle message in between gave up at its barrier.
OrderedUnlessSkipped ==
  \A m \in 1..arrived :
    pc[m] = "running" /\ (\A l \in skipped : l < m => kind[l] = "feature")
      => earlierLifecycleDone(m)

\* A request is answered once, and none is forgotten in the in-flight table.
AnsweredOnce ==
  \A m \in 1..arrived :
    /\ replies[m] = (IF isRequest(m) /\ pc[m] = "done" THEN 1 ELSE 0)
    /\ m \in inFlight <=> isRequest(m) /\ pc[m] # "done"

\* Every message is handled or given up: no cycle of barriers, no lost signal.
EveryMessageEnds == \A m \in Messages : pc[m] = "waiting" ~> pc[m] = "done"

\* Every message ends, a request with exactly one answer.
EveryMessageAnswered == EveryMessageEnds /\ []AnsweredOnce
=============================================================================
