------------------------------ MODULE Execution ------------------------------
(***************************************************************************)
(* internal/exec: one one-shot Execution and the executionRuntime it owns. *)
(* Callers that looked the Execution up may start, cancel or watch it at   *)
(* any later time; the run goroutine drives the Universal Session of the   *)
(* parent's Plan; the close worker settles all of it, after which the      *)
(* parent closes the Plan.  A critical section of execution.mu is one      *)
(* action.                                                                 *)
(***************************************************************************)
EXTENDS Naturals, Sequences

CONSTANTS Callers,           \* clients holding an Execution they looked up
          Watchers,          \* clients that subscribe to its events
          watcherBufferSize  \* capacity of a watcher's event channel

\* The code has 8.  Two is what an Execution can publish after a subscription.
ASSUME BufferHoldsAll == watcherBufferSize \in Nat /\ watcherBufferSize >= 2

VARIABLES
  state,        \* execution.state
  failure,      \* execution.failure.Category, or "none"
  sequence,     \* execution.sequence: number of the last published event
  runDone,      \* the runDone channel is closed
  panicked,     \* a channel was closed twice
  canceled,     \* runtime.ctx has a cancellation cause
  session,      \* the Universal runtime Session: "none", "open", "closed"
  closeOnce,    \* runtime.closeOnce has run
  closeErr,     \* runtime.closeErr
  run,          \* the run goroutine: program counter
  runErr,       \* error of the run: "nil", "failed" or "canceled"
  category,     \* failure category the run reports
  close,        \* CloseOperation.state of the Execution
  worker,       \* the close worker: program counter
  caller,       \* per caller: "idle", "found" or "done"
  watch,        \* per watcher: [status, got, buf, lagged]
  plan          \* the parent's Plan: "open" or "closed"

runtimeVars == <<canceled, session, closeOnce, closeErr>>
runVars == <<run, runErr, category>>
vars == <<state, failure, sequence, runDone, panicked, runtimeVars, runVars, close,
          worker, caller, watch, plan>>

Terminal == {"completed", "failed", "cancelled"}
NoWatch == [status |-> "none", got |-> 0, buf |-> <<>>, lagged |-> FALSE]

\* newExecution: CREATED has been published as event 1.
Init ==
  /\ state = "created"
  /\ failure = "none"
  /\ sequence = 1
  /\ runDone = FALSE
  /\ panicked = FALSE
  /\ canceled = FALSE
  /\ session = "none"
  /\ closeOnce = FALSE
  /\ closeErr = "nil"
  /\ run = "none"
  /\ runErr = "nil"
  /\ category = "none"
  /\ close = "idle"
  /\ worker = "none"
  /\ caller = [c \in Callers |-> "idle"]
  /\ watch = [w \in Watchers |-> NoWatch]
  /\ plan = "open"
-----------------------------------------------------------------------------
(* publishLocked: number the event, offer it to every watcher without      *)
(* blocking, disconnect those whose buffer is full, end all on a terminal. *)

\* Mutant: a terminal event closes the channel instead of being sent.
DeliverNoTerminal(w, terminal) ==
  IF w.status # "open" THEN w
  ELSE IF terminal THEN [w EXCEPT !.status = "closed"]
  ELSE [w EXCEPT !.buf = Append(@, sequence + 1)]

Deliver(w, terminal) ==
  IF w.status # "open" THEN w
  ELSE IF Len(w.buf) < watcherBufferSize
  THEN [w EXCEPT !.buf = Append(@, sequence + 1),
                 !.status = IF terminal THEN "closed" ELSE "open"]
  ELSE [w EXCEPT !.status = "closed", !.lagged = TRUE]

publish(next) ==
  /\ state' = next
  /\ sequence' = sequence + 1
  /\ watch' = [w \in Watchers |-> Deliver(watch[w], next \in Terminal)]
  /\ runDone' = (runDone \/ next \in Terminal)
  /\ panicked' = (panicked \/ (runDone /\ next \in Terminal))
-----------------------------------------------------------------------------
(* Callers.  Manager.execution returns the pointer while the registry      *)
(* entry is active, that is before the close is begun; the call on it may  *)
(* happen much later.                                                      *)

lookup(c) ==
  /\ caller[c] = "idle"
  /\ close = "idle"
  /\ caller' = [caller EXCEPT ![c] = "found"]
  /\ UNCHANGED <<state, failure, sequence, runDone, panicked, runtimeVars, runVars, close,
                 worker, watch, plan>>

start(c) ==
  /\ caller[c] = "found"
  /\ caller' = [caller EXCEPT ![c] = "done"]
  /\ \/ /\ state = "created"
        /\ publish("running")
        /\ run' = "create"
     \/ \* not CREATED any more, or the request was cancelled first
        UNCHANGED <<state, sequence, runDone, panicked, watch, run>>
  /\ UNCHANGED <<failure, runtimeVars, runErr, category, close, worker, plan>>

\* Mutant: cancelling a RUNNING Execution leaves its context alone.
CancelCreatedOnly ==
  \/ state = "created" /\ canceled' = TRUE /\ publish("cancelled")
  \/ /\ state # "created"
     /\ UNCHANGED <<canceled, state, sequence, runDone, panicked, watch>>

\* execution.cancel, shared by CancelExecution and settleClose.
cancelEffect ==
  /\ \/ state = "created" /\ canceled' = TRUE /\ publish("cancelled")
     \/ /\ state = "running"
        /\ canceled' = TRUE
        /\ UNCHANGED <<state, sequence, runDone, panicked, watch>>
     \/ /\ state \in Terminal
        /\ UNCHANGED <<canceled, state, sequence, runDone, panicked, watch>>

cancel(c) ==
  /\ caller[c] = "found"
  /\ caller' = [caller EXCEPT ![c] = "done"]
  /\ cancelEffect
  /\ UNCHANGED <<failure, session, closeOnce, closeErr, runVars, close, worker, plan>>

subscribe(w) ==
  /\ watch[w].status = "found"
  /\ watch' = [watch EXCEPT ![w].got = sequence,
                            ![w].status = IF state \in Terminal THEN "closed" ELSE "open"]
  /\ UNCHANGED <<state, failure, sequence, runDone, panicked, runtimeVars, runVars, close,
                 worker, caller, plan>>

lookupWatch(w) ==
  /\ watch[w].status = "none"
  /\ close = "idle"
  /\ watch' = [watch EXCEPT ![w].status = "found"]
  /\ UNCHANGED <<state, failure, sequence, runDone, panicked, runtimeVars, runVars, close,
                 worker, caller, plan>>

receive(w) ==
  /\ watch[w].buf # <<>>
  /\ watch' = [watch EXCEPT ![w].got = Head(watch[w].buf), ![w].buf = Tail(@)]
  /\ UNCHANGED <<state, failure, sequence, runDone, panicked, runtimeVars, runVars, close,
                 worker, caller, plan>>

unsubscribe(w) ==
  /\ watch[w].status = "open"
  /\ watch' = [watch EXCEPT ![w].status = "cancelled"]
  /\ UNCHANGED <<state, failure, sequence, runDone, panicked, runtimeVars, runVars, close,
                 worker, caller, plan>>
-----------------------------------------------------------------------------
(* The run goroutine: executionRuntime.run, then execution.finish.  What   *)
(* the runtime answers is its own business; a canceled context only makes  *)
(* a cancellation error likely, it neither forces nor excludes one.        *)

Errors == {"failed", "canceled"}

\* Plan.NewSession: refused (with a Session to close at once, or with none),
\* no Session at all, or a Session.
newSession ==
  /\ run = "create"
  /\ \/ \E err \in Errors :
          /\ runErr' = err
          /\ run' = "finish"
          /\ category' = "session_creation"
          /\ UNCHANGED session
     \/ /\ session' = "open"
        /\ run' = "run"
        /\ UNCHANGED <<runErr, category>>
  /\ UNCHANGED <<state, failure, sequence, runDone, panicked, canceled, closeOnce, closeErr,
                 close, worker, caller, watch, plan>>

sessionRun ==
  /\ run = "run"
  /\ \E err \in Errors \cup {"nil"} : runErr' = err
  /\ category' = "runtime"
  /\ run' = "close"
  /\ UNCHANGED <<state, failure, sequence, runDone, panicked, runtimeVars, close, worker,
                 caller, watch, plan>>

\* runtime.closeSession: the first caller closes the Session, if there is one,
\* and everyone gets the retained error.
closeSession ==
  IF closeOnce THEN UNCHANGED <<session, closeOnce, closeErr>>
  ELSE /\ closeOnce' = TRUE
       /\ IF session = "open"
          THEN session' = "closed" /\ closeErr' \in Errors \cup {"nil"}
          ELSE UNCHANGED <<session, closeErr>>

\* errors.Join, as errors.Is(_, context.Canceled) sees the result.
join(e1, e2) ==
  IF "canceled" \in {e1, e2} THEN "canceled"
  ELSE IF "failed" \in {e1, e2} THEN "failed" ELSE "nil"

\* run's tail: close the Session and join the errors.
runClose ==
  /\ run = "close"
  /\ closeSession
  /\ runErr' = join(runErr, closeErr')
  /\ category' = IF runErr = "nil" /\ closeErr' # "nil" THEN "cleanup" ELSE category
  /\ run' = "finish"
  /\ UNCHANGED <<state, failure, sequence, runDone, panicked, canceled, close, worker, caller,
                 watch, plan>>

finish ==
  /\ run = "finish"
  /\ run' = "done"
  /\ IF state # "running"
     THEN UNCHANGED <<state, failure, sequence, runDone, panicked, watch>>
     ELSE \/ runErr = "nil" /\ publish("completed") /\ UNCHANGED failure
          \/ runErr = "canceled" /\ canceled /\ publish("cancelled") /\ UNCHANGED failure
          \/ /\ runErr = "failed" \/ (runErr = "canceled" /\ ~canceled)
             /\ publish("failed")
             /\ failure' = category
  /\ UNCHANGED <<runtimeVars, runErr, category, close, worker, caller, plan>>
-----------------------------------------------------------------------------
(* Close: the registry begins it once; settleClose and completeClose run   *)
(* on the worker; the parent closes the Plan when it saw the close finish. *)

beginClose ==
  /\ close = "idle"
  /\ close' = "started"
  /\ worker' = "cancel"
  /\ UNCHANGED <<state, failure, sequence, runDone, panicked, runtimeVars, runVars, caller,
                 watch, plan>>

settleCancel ==
  /\ worker = "cancel"
  /\ worker' = "await"
  /\ cancelEffect
  /\ UNCHANGED <<failure, session, closeOnce, closeErr, runVars, close, caller, plan>>

\* Mutant: settleClose closes the Session without waiting for the run.
SettleSessionEarly ==
  /\ worker = "await"
  /\ closeSession
  /\ worker' = "watchers"
  /\ UNCHANGED <<state, failure, sequence, runDone, panicked, canceled, runVars, close, caller,
                 watch, plan>>

settleSession ==
  /\ worker = "await"
  /\ runDone
  /\ closeSession
  /\ worker' = "watchers"
  /\ UNCHANGED <<state, failure, sequence, runDone, panicked, canceled, runVars, close, caller,
                 watch, plan>>

settleWatchers ==
  /\ worker = "watchers"
  /\ watch' = [w \in Watchers |->
                 IF watch[w].status = "open" THEN [watch[w] EXCEPT !.status = "closed"]
                 ELSE watch[w]]
  /\ worker' = "complete"
  /\ UNCHANGED <<state, failure, sequence, runDone, panicked, runtimeVars, runVars, close,
                 caller, plan>>

completeClose ==
  /\ worker = "complete"
  /\ worker' = "done"
  /\ close' = "finished"
  /\ UNCHANGED <<state, failure, sequence, runDone, panicked, runtimeVars, runVars, caller,
                 watch, plan>>

planClose ==
  /\ plan = "open"
  /\ close = "finished"
  /\ plan' = "closed"
  /\ UNCHANGED <<state, failure, sequence, runDone, panicked, runtimeVars, runVars, close,
                 worker, caller, watch>>
-----------------------------------------------------------------------------
Next ==
  \/ \E c \in Callers : lookup(c) \/ start(c) \/ cancel(c)
  \/ \E w \in Watchers : lookupWatch(w) \/ subscribe(w) \/ receive(w) \/ unsubscribe(w)
  \/ newSession
  \/ sessionRun
  \/ runClose
  \/ finish
  \/ beginClose
  \/ settleCancel
  \/ settleSession
  \/ settleWatchers
  \/ completeClose
  \/ planClose

Spec == Init /\ [][Next]_vars

\* Goroutines that can run do run, and the runtime answers NewSession and Close.
\* A query need not end by itself: Session.Run must return only once its context
\* is cancelled.  Clients promise nothing.
Fairness ==
  /\ WF_vars(newSession \/ (canceled /\ sessionRun) \/ runClose \/ finish)
  /\ WF_vars(settleCancel \/ settleSession \/ settleWatchers \/ completeClose)

FairSpec == Spec /\ Fairness
-----------------------------------------------------------------------------
(* Properties *)

\* A subscription: where it stands, the event received last, those buffered.
Watch == [status : {"none", "found", "open", "closed", "cancelled"},
          got : Nat, buf : Seq(Nat), lagged : BOOLEAN]

\* Every variable ranges over the values the Go fields can hold.
TypeOK ==
  /\ state \in {"created", "running"} \cup Terminal
  /\ failure \in {"none", "runtime", "session_creation", "cleanup"}
  /\ sequence \in Nat
  /\ runDone \in BOOLEAN
  /\ panicked \in BOOLEAN
  /\ canceled \in BOOLEAN
  /\ session \in {"none", "open", "closed"}
  /\ closeOnce \in BOOLEAN
  /\ closeErr \in Errors \cup {"nil"}
  /\ run \in {"none", "create", "run", "close", "finish", "done"}
  /\ runErr \in Errors \cup {"nil"}
  /\ category \in {"none", "runtime", "session_creation", "cleanup"}
  /\ close \in {"idle", "started", "finished"}
  /\ worker \in {"none", "cancel", "await", "watchers", "complete", "done"}
  /\ caller \in [Callers -> {"idle", "found", "done"}]
  /\ watch \in [Watchers -> Watch]
  /\ plan \in {"open", "closed"}

\* The parent closes its Plan only when no run can still use it, although a
\* caller that found the Execution earlier may start it during or after close.
PlanOutlivesRun ==
  plan = "closed" => run \in {"none", "done"} /\ session # "open" /\ state # "created"

\* Whatever start, cancel, run and close do to each other, the terminal event
\* is published once: runDone is never closed twice.
RunDoneOnce == ~panicked /\ (runDone <=> state \in Terminal)

\* A begun close completes, even if the Execution is started underneath it or
\* runs a query that never ends by itself: the close has to cancel it.
CloseCompletes == close = "started" ~> close = "finished"

\* A watch is complete: the events come one after the other from where it
\* began, none skipped or repeated, and one its client did not cancel ends with
\* the terminal event. The buffer holds all an Execution can publish.
WatchComplete ==
  \A w \in Watchers :
    /\ \A i \in 1..Len(watch[w].buf) : watch[w].buf[i] = watch[w].got + i
    /\ watch[w].status = "closed" =>
         state \in Terminal /\ watch[w].got + Len(watch[w].buf) = sequence

\* The run is contained in its Execution: it ends once, and before the Plan it
\* runs on is closed.
RunIsContained == RunDoneOnce /\ PlanOutlivesRun
=============================================================================
