------------------------------ MODULE Lifecycle ------------------------------
(***************************************************************************)
(* internal/lifecycle: Gate, and the CloseOperation it embeds, used by     *)
(* child creators, by callers that close the parent, and by the teardown   *)
(* worker the owning caller starts.  Every critical section of the two     *)
(* mutexes is one action; a wait on a channel is an action enabled once    *)
(* that very channel, captured earlier, is closed.                         *)
(***************************************************************************)
EXTENDS Naturals, FiniteSets

CONSTANTS Creators,    \* goroutines that create children of the parent
          Closers,     \* goroutines that close the parent
          Results,     \* teardown results: errors, or success
          MaxChannels  \* bound on the createsDone channels ever made

ASSUME CreatorsFinite == IsFiniteSet(Creators)
ASSUME MaxChannelsNat == MaxChannels \in Nat
ASSUME ResultsNotReserved == Results # {} /\ Results \cap {"none", "canceled"} = {}

VARIABLES
  closeState,   \* CloseOperation.state
  closeErr,     \* CloseOperation.err, meaningful once finished
  creating,     \* Gate.creating
  createsDone,  \* Gate.createsDone: 0 is nil, otherwise the channel's number
  channels,     \* number of createsDone channels made so far
  closedChans,  \* the createsDone channels that are closed
  creator,      \* per creator: "out" of the gate or "in"
  worker,       \* per closer: the teardown goroutine it started, if any
  captured,     \* per closer: the channel its worker waits on
  waiter,       \* per closer: progress of its call
  ctxDone,      \* the closers whose context is canceled
  returned,     \* per closer: what Wait returned
  panicked      \* one of the package's panics was reached

vars == <<closeState, closeErr, creating, createsDone, channels, closedChans,
          creator, worker, captured, waiter, ctxDone, returned, panicked>>
gateVars == <<creating, createsDone, channels, closedChans, creator>>
closeVars == <<closeState, closeErr>>
callVars == <<waiter, ctxDone, returned>>

Init ==
  /\ closeState = "idle"
  /\ closeErr \in Results
  /\ creating = 0
  /\ createsDone = 0
  /\ channels = 0
  /\ closedChans = {}
  /\ creator = [c \in Creators |-> "out"]
  /\ worker = [k \in Closers |-> "none"]
  /\ captured = [k \in Closers |-> 0]
  /\ waiter = [k \in Closers |-> "idle"]
  /\ ctxDone = {}
  /\ returned = [k \in Closers |-> "none"]
  /\ panicked = FALSE

Started == closeState # "idle"

\* The creators between a successful BeginCreate and their EndCreate.
Inside == {c \in Creators : creator[c] = "in"}
-----------------------------------------------------------------------------
(* Creators *)

BeginCreate(c) ==
  /\ creator[c] = "out"
  /\ ~Started
  /\ IF creating = 0
     THEN /\ channels < MaxChannels
          /\ channels' = channels + 1
          /\ createsDone' = channels + 1
     ELSE UNCHANGED <<channels, createsDone>>
  /\ creating' = creating + 1
  /\ creator' = [creator EXCEPT ![c] = "in"]
  /\ UNCHANGED <<closeVars, closedChans, worker, captured, callVars, panicked>>

\* Mutant: the last creator forgets to close createsDone.
EndCreateSilent(c) ==
  /\ creator[c] = "in"
  /\ creator' = [creator EXCEPT ![c] = "out"]
  /\ creating' = creating - 1
  /\ createsDone' = IF creating = 1 THEN 0 ELSE createsDone
  /\ UNCHANGED <<closeVars, channels, closedChans, worker, captured, callVars, panicked>>

EndCreate(c) ==
  /\ creator[c] = "in"
  /\ creator' = [creator EXCEPT ![c] = "out"]
  /\ IF creating = 0
     THEN panicked' = TRUE /\ UNCHANGED <<creating, createsDone, closedChans>>
     ELSE /\ creating' = creating - 1
          /\ IF creating = 1
             THEN /\ closedChans' = closedChans \cup {createsDone}
                  /\ createsDone' = 0
             ELSE UNCHANGED <<closedChans, createsDone>>
          /\ UNCHANGED panicked
  /\ UNCHANGED <<closeVars, channels, worker, captured, callVars>>
-----------------------------------------------------------------------------
(* Closers: BeginClose, then the owner starts the worker, then WaitClose *)

BeginClose(k) ==
  /\ waiter[k] = "idle"
  /\ waiter' = [waiter EXCEPT ![k] = "begun"]
  /\ IF closeState = "idle"
     THEN /\ closeState' = "started"
          /\ worker' = [worker EXCEPT ![k] = "begun"]
     ELSE UNCHANGED <<closeState, worker>>
  /\ UNCHANGED <<closeErr, gateVars, captured, ctxDone, returned, panicked>>

CancelContext(k) ==
  /\ k \notin ctxDone
  /\ returned[k] = "none"
  /\ ctxDone' = ctxDone \cup {k}
  /\ UNCHANGED <<closeVars, gateVars, worker, captured, waiter, returned, panicked>>

Return(k, result) ==
  /\ waiter' = [waiter EXCEPT ![k] = "returned"]
  /\ returned' = [returned EXCEPT ![k] = result]

WaitEnter(k) ==
  /\ waiter[k] = "begun"
  /\ \/ closeState = "idle" /\ panicked' = TRUE /\ Return(k, "none")
     \/ closeState = "finished" /\ Return(k, closeErr) /\ UNCHANGED panicked
     \/ /\ closeState = "started"
        /\ waiter' = [waiter EXCEPT ![k] = "blocked"]
        /\ UNCHANGED <<returned, panicked>>
  /\ UNCHANGED <<closeVars, gateVars, worker, captured, ctxDone>>

\* select took <-done: the channel is closed exactly when the state is finished.
WaitDone(k) ==
  /\ waiter[k] = "blocked"
  /\ closeState = "finished"
  /\ Return(k, closeErr)
  /\ UNCHANGED <<closeVars, gateVars, worker, captured, ctxDone, panicked>>

\* Mutant: cancellation returns ctx.Err() without looking at the state.
WaitCanceledBlind(k) ==
  /\ waiter[k] = "blocked"
  /\ k \in ctxDone
  /\ Return(k, "canceled")
  /\ UNCHANGED <<closeVars, gateVars, worker, captured, ctxDone, panicked>>

\* select took <-ctx.Done(): the state is examined again under the mutex.
WaitCanceled(k) ==
  /\ waiter[k] = "blocked"
  /\ k \in ctxDone
  /\ Return(k, IF closeState = "finished" THEN closeErr ELSE "canceled")
  /\ UNCHANGED <<closeVars, gateVars, worker, captured, ctxDone, panicked>>
-----------------------------------------------------------------------------
(* The teardown worker: WaitForCreates, the teardown itself, FinishClose *)

CaptureCreates(k) ==
  /\ worker[k] = "begun"
  /\ IF Started
     THEN /\ worker' = [worker EXCEPT ![k] = "draining"]
          /\ captured' = [captured EXCEPT ![k] = createsDone]
          /\ UNCHANGED panicked
     ELSE panicked' = TRUE /\ UNCHANGED <<worker, captured>>
  /\ UNCHANGED <<closeVars, gateVars, callVars>>

\* Mutant: WaitForCreates returns without receiving from the channel.
CreatesDoneUnwaited(k) ==
  /\ worker[k] = "draining"
  /\ worker' = [worker EXCEPT ![k] = "teardown"]
  /\ UNCHANGED <<closeVars, gateVars, captured, callVars, panicked>>

CreatesDone(k) ==
  /\ worker[k] = "draining"
  /\ captured[k] = 0 \/ captured[k] \in closedChans
  /\ worker' = [worker EXCEPT ![k] = "teardown"]
  /\ UNCHANGED <<closeVars, gateVars, captured, callVars, panicked>>

\* FinishClose checks the creators under Gate.mu and then releases it ...
FinishCheck(k) ==
  /\ worker[k] = "teardown"
  /\ worker' = [worker EXCEPT ![k] = "publishing"]
  /\ panicked' = (panicked \/ creating # 0)
  /\ UNCHANGED <<closeVars, gateVars, captured, callVars>>

\* ... and CloseOperation.Finish publishes the result under its own mutex.
Finish(k, result) ==
  /\ worker[k] = "publishing"
  /\ worker' = [worker EXCEPT ![k] = "done"]
  /\ IF closeState = "started"
     THEN closeErr' = result /\ closeState' = "finished" /\ UNCHANGED panicked
     ELSE panicked' = TRUE /\ UNCHANGED closeVars
  /\ UNCHANGED <<gateVars, captured, callVars>>
-----------------------------------------------------------------------------
Next ==
  \/ \E c \in Creators : BeginCreate(c) \/ EndCreate(c)
  \/ \E k \in Closers :
       \/ BeginClose(k)
       \/ CancelContext(k)
       \/ WaitEnter(k)
       \/ WaitDone(k)
       \/ WaitCanceled(k)
       \/ CaptureCreates(k)
       \/ CreatesDone(k)
       \/ FinishCheck(k)
       \/ \E result \in Results : Finish(k, result)

Spec == Init /\ [][Next]_vars

\* Creators leave the gate and goroutines that can run do run; nobody is
\* obliged to create, to close, or to cancel a context.
Fairness ==
  /\ \A c \in Creators : WF_vars(EndCreate(c))
  /\ \A k \in Closers :
       /\ WF_vars(WaitEnter(k) \/ WaitDone(k) \/ WaitCanceled(k))
       /\ WF_vars(CaptureCreates(k) \/ CreatesDone(k) \/ FinishCheck(k))
       /\ WF_vars(\E result \in Results : Finish(k, result))

FairSpec == Spec /\ Fairness
-----------------------------------------------------------------------------
(* Properties *)

\* Every variable ranges over the values the Go fields can hold.
TypeOK ==
  /\ closeState \in {"idle", "started", "finished"}
  /\ closeErr \in Results
  /\ creating \in Nat
  /\ createsDone \in 0..MaxChannels
  /\ channels \in 0..MaxChannels
  /\ closedChans \subseteq 1..MaxChannels
  /\ creator \in [Creators -> {"out", "in"}]
  /\ worker \in [Closers -> {"none", "begun", "draining", "teardown", "publishing", "done"}]
  /\ captured \in [Closers -> 0..MaxChannels]
  /\ waiter \in [Closers -> {"idle", "begun", "blocked", "returned"}]
  /\ ctxDone \subseteq Closers
  /\ returned \in [Closers -> Results \cup {"none", "canceled"}]
  /\ panicked \in BOOLEAN

\* None of the package's panics (EndCreate without admission, WaitForCreates
\* or Wait before close, FinishClose with active creators, Finish outside
\* teardown) is reachable by callers that keep to the protocol.
NoPanic == ~panicked

\* From the moment WaitForCreates returns, no admitted creator is left, so the
\* teardown never runs while a child is still being created.
QuiescentTeardown ==
  \A k \in Closers :
    worker[k] \in {"teardown", "publishing", "done"} =>
      Inside = {}

\* Wait returns the one published result to every caller, and the caller's own
\* cancellation only to a caller whose context is canceled.
SharedResult ==
  \A k \in Closers :
    /\ returned[k] \in Results => closeState = "finished" /\ returned[k] = closeErr
    /\ returned[k] = "canceled" => k \in ctxDone

\* "Once Finish publishes a result, that result takes precedence over
\* concurrent caller cancellation": no Wait gives up after the publication.
ResultBeatsCancellation ==
  [][\A k \in Closers :
       returned[k] # "canceled" /\ returned'[k] = "canceled" => closeState # "finished"]_vars

\* A committed close is published and every caller that waits for it returns,
\* whoever of them gives up first.
CloseCompletes ==
  \A k \in Closers : waiter[k] = "begun" ~> waiter[k] = "returned" /\ closeState = "finished"

\* The gate with its counter and channels implements the barrier its users
\* rely on: no entry after the close, no publication before the last leave.
BarrierPhase ==
  CASE closeState = "idle" -> "open"
    [] closeState = "started" -> "closing"
    [] closeState = "finished" -> "closed"

Barrier == INSTANCE CreationBarrier WITH
  phase <- BarrierPhase, inside <- Inside, outcome <- closeErr

\* Gate and CloseOperation, with their counter, channels and worker, implement
\* the abstract barrier: nobody enters once a close began, and the result is
\* published only when everybody has left.
ImplementsBarrier == Barrier!BarrierSpec

\* What every user of a Gate relies on: no sequence of callers panics, the state
\* stays in its types, and the teardown never overlaps an admitted creator.
GateSafe == TypeOK /\ NoPanic /\ QuiescentTeardown
=============================================================================
