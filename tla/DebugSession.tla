---------------------------- MODULE DebugSession ----------------------------
(***************************************************************************)
(* internal/debug: one retained debug Session over an exec.DebugRuntime.   *)
(* Callers issue commands and inspect under controlMu; each command runs   *)
(* on its own goroutine; termination and close run on goroutines of their  *)
(* own and take only the state mutex.  A critical section of session.mu is *)
(* one action.                                                             *)
(***************************************************************************)
EXTENDS Naturals, Sequences, FiniteSets

CONSTANTS Callers, Watchers, None,
          watcherBufferSize,  \* capacity of a watcher's channel
          MaxCommands         \* bound: commands accepted in one behaviour

ASSUME BufferPositive == watcherBufferSize \in Nat \ {0}
ASSUME MaxCommandsNat == MaxCommands \in Nat
ASSUME NoneIsNoCaller == None \notin Callers

VARIABLES
  state,         \* session.state
  reason,        \* session.reason: "none", "stop" (entry, step...), "error"
  failure,       \* session.failure # nil
  terminating,   \* session.terminating
  sequence,      \* session.sequence
  terminalDone,  \* the terminalDone channel is closed
  panicked,      \* it was closed twice
  control,       \* controlMu: its holder, or None
  caller,        \* per caller: "idle", "flagged", "inspecting"
  flag,          \* per caller: runtimeErrorResume it read before controlMu
  commands,      \* runCommand goroutines: set of [id, flag, error]
  issued,        \* commands accepted so far
  runtime,       \* DebugRuntime: "open", or "closed" with its lease released
  terminator,    \* terminate goroutine: "none", "close", "publish", "done"
  close,         \* CloseOperation: "idle", "started", "finished"
  worker,        \* finishSessionClose: program counter
  watch          \* per watcher: [status, got, buf, lagged]

stateVars == <<state, reason, failure, sequence, terminalDone, panicked, watch>>
callVars == <<control, caller, flag, commands, issued>>
vars == <<stateVars, terminating, callVars, runtime, terminator, close, worker>>

Terminal == {"completed", "failed", "terminated"}

Init ==
  /\ state = "created" /\ reason = "none" /\ failure = FALSE
  /\ terminating = FALSE
  /\ sequence = 1 /\ terminalDone = FALSE /\ panicked = FALSE
  /\ control = None
  /\ caller = [c \in Callers |-> "idle"]
  /\ flag = [c \in Callers |-> FALSE]
  /\ commands = {} /\ issued = 0
  /\ runtime = "open" /\ terminator = "none"
  /\ close = "idle" /\ worker = "none"
  /\ watch = [w \in Watchers |-> [status |-> "none", got |-> 0, buf |-> <<>>, lagged |-> FALSE]]
-----------------------------------------------------------------------------
(* publishLocked and the watchers *)

\* Mutant: the terminal event is sent but the channel stays open.
DeliverOpen(w, terminal) ==
  IF w.status # "open" THEN w
  ELSE IF Len(w.buf) < watcherBufferSize THEN [w EXCEPT !.buf = Append(@, sequence + 1)]
  ELSE [w EXCEPT !.status = "closed", !.lagged = TRUE]

Deliver(w, terminal) ==
  IF w.status # "open" THEN w
  ELSE IF Len(w.buf) < watcherBufferSize
  THEN [w EXCEPT !.buf = Append(@, sequence + 1),
                 !.status = IF terminal THEN "closed" ELSE "open"]
  ELSE [w EXCEPT !.status = "closed", !.lagged = TRUE]

\* Move to a new state and publish it.
publish(next, why, failed) ==
  /\ state' = next
  /\ reason' = why
  /\ failure' = failed
  /\ sequence' = sequence + 1
  /\ watch' = [w \in Watchers |-> Deliver(watch[w], next \in Terminal)]
  /\ terminalDone' = (terminalDone \/ next \in Terminal)
  /\ panicked' = (panicked \/ (terminalDone /\ next \in Terminal))

subscribe(w) ==
  /\ watch[w].status = "none"
  /\ watch' = [watch EXCEPT ![w].got = sequence,
                            ![w].status = IF state \in Terminal THEN "closed" ELSE "open"]
  /\ UNCHANGED <<state, reason, failure, sequence, terminalDone, panicked, terminating,
                 callVars, runtime, terminator, close, worker>>

receive(w) ==
  /\ watch[w].buf # <<>>
  /\ watch' = [watch EXCEPT ![w].got = Head(watch[w].buf), ![w].buf = Tail(@)]
  /\ UNCHANGED <<state, reason, failure, sequence, terminalDone, panicked, terminating,
                 callVars, runtime, terminator, close, worker>>

unsubscribe(w) ==
  /\ watch[w].status = "open"
  /\ watch' = [watch EXCEPT ![w].status = "cancelled"]
  /\ UNCHANGED <<state, reason, failure, sequence, terminalDone, panicked, terminating,
                 callVars, runtime, terminator, close, worker>>
-----------------------------------------------------------------------------
(* Commands and inspection *)

\* Mutant: startCommand does not take controlMu.
StartCommandUnlocked(expected, resumeFlag) ==
  /\ issued < MaxCommands
  /\ IF terminating \/ close # "idle" \/ state # expected
     THEN UNCHANGED <<stateVars, commands, issued>>
     ELSE /\ publish("running", "none", FALSE)
          /\ issued' = issued + 1
          /\ commands' = commands \cup {[id |-> issued + 1, flag |-> resumeFlag,
                                         error |-> reason = "error"]}

\* Mutant: startCommand accepts a command during termination and close.
StartCommandWhileTerminating(expected, resumeFlag) ==
  /\ control = None
  /\ issued < MaxCommands
  /\ IF state # expected
     THEN UNCHANGED <<stateVars, commands, issued>>
     ELSE /\ publish("running", "none", FALSE)
          /\ issued' = issued + 1
          /\ commands' = commands \cup {[id |-> issued + 1, flag |-> resumeFlag,
                                         error |-> reason = "error"]}

\* startCommand: refused, or RUNNING is published and runCommand started.
startCommand(expected, resumeFlag) ==
  /\ control = None
  /\ issued < MaxCommands
  /\ IF terminating \/ close # "idle" \/ state # expected
     THEN UNCHANGED <<stateVars, commands, issued>>
     ELSE /\ publish("running", "none", FALSE)
          /\ issued' = issued + 1
          /\ commands' = commands \cup {[id |-> issued + 1, flag |-> resumeFlag,
                                         error |-> reason = "error"]}

start(c) ==
  /\ caller[c] = "idle"
  /\ startCommand("created", FALSE)
  /\ UNCHANGED <<control, caller, flag, terminating, runtime, terminator, close, worker>>

\* resumeCommand reads the stop reason, and takes controlMu only afterwards.
resumeCommand(c) ==
  /\ caller[c] = "idle"
  /\ caller' = [caller EXCEPT ![c] = "flagged"]
  /\ flag' = [flag EXCEPT ![c] = state = "stopped" /\ reason = "error"]
  /\ UNCHANGED <<stateVars, terminating, control, commands, issued, runtime, terminator, close,
                 worker>>

resume(c) ==
  /\ caller[c] = "flagged"
  /\ caller' = [caller EXCEPT ![c] = "idle"]
  /\ startCommand("stopped", flag[c])
  /\ UNCHANGED <<control, flag, terminating, runtime, terminator, close, worker>>

\* frames, scopes, variables, evaluate: controlMu is held across the call.
inspect(c) ==
  /\ caller[c] = "idle"
  /\ control = None
  /\ state = "stopped" /\ close = "idle"
  /\ control' = c
  /\ caller' = [caller EXCEPT ![c] = "inspecting"]
  /\ UNCHANGED <<stateVars, terminating, flag, commands, issued, runtime, terminator, close,
                 worker>>

inspected(c) ==
  /\ caller[c] = "inspecting"
  /\ control' = None
  /\ caller' = [caller EXCEPT ![c] = "idle"]
  /\ UNCHANGED <<stateVars, terminating, flag, commands, issued, runtime, terminator, close,
                 worker>>

\* What the runtime may answer.  It reports "terminated" of its own accord only
\* when it is resumed from a runtime-error stop, or once it is cancelled.
Answers(cmd) ==
  {"stop", "error", "completed", "invalid", "err"}
    \cup (IF cmd.error \/ runtime = "closed" THEN {"terminated"} ELSE {})

\* applyRuntimeEventLocked
applyRuntimeEvent(answer, resumeFlag) ==
  \/ answer = "stop" /\ publish("stopped", "stop", FALSE)
  \/ answer = "error" /\ publish("stopped", "error", TRUE)
  \/ answer = "completed" /\ publish("completed", reason, failure)
  \/ /\ answer = "terminated"
     /\ \E hasError \in BOOLEAN : \* event.Error
          IF resumeFlag /\ hasError /\ ~terminating
          THEN publish("failed", reason, TRUE)
          ELSE publish("terminated", reason, failure)
  \/ answer = "invalid" /\ publish("failed", reason, TRUE)

runCommand(cmd) ==
  /\ cmd \in commands
  /\ commands' = commands \ {cmd}
  /\ \E answer \in Answers(cmd) :
       IF state # "running" THEN UNCHANGED stateVars
       ELSE \/ answer = "err" /\ IF terminating THEN publish("terminated", reason, failure)
                                 ELSE publish("failed", reason, TRUE)
            \/ applyRuntimeEvent(answer, cmd.flag)
  /\ UNCHANGED <<terminating, control, caller, flag, issued, runtime, terminator, close, worker>>
-----------------------------------------------------------------------------
(* Termination and close *)

\* Mutant: the terminate goroutine is not started.
RequestTerminationForgets ==
  IF state \in Terminal THEN UNCHANGED <<terminating, terminator>>
  ELSE terminating' = TRUE /\ UNCHANGED terminator

requestTermination ==
  IF state \in Terminal \/ terminating THEN UNCHANGED <<terminating, terminator>>
  ELSE terminating' = TRUE /\ terminator' = "close"

terminateExecution ==
  /\ requestTermination
  /\ UNCHANGED <<stateVars, callVars, runtime, close, worker>>

\* terminate: DebugRuntime.Close cancels, closes the debugger and frees the lease.
terminateRuntime ==
  /\ terminator = "close"
  /\ terminator' = "publish"
  /\ runtime' = "closed"
  /\ UNCHANGED <<stateVars, terminating, callVars, close, worker>>

terminatePublish ==
  /\ terminator = "publish"
  /\ terminator' = "done"
  /\ IF state \in Terminal THEN UNCHANGED stateVars ELSE publish("terminated", "none", FALSE)
  /\ UNCHANGED <<terminating, callVars, runtime, close, worker>>

beginClose ==
  /\ close = "idle"
  /\ close' = "started"
  /\ worker' = "request"
  /\ UNCHANGED <<stateVars, terminating, callVars, runtime, terminator>>

settleRequest ==
  /\ worker = "request"
  /\ worker' = "await"
  /\ requestTermination
  /\ UNCHANGED <<stateVars, callVars, runtime, close>>

settleRuntime ==
  /\ worker = "await" /\ terminalDone
  /\ worker' = "watchers"
  /\ runtime' = "closed"
  /\ UNCHANGED <<stateVars, terminating, callVars, terminator, close>>

settleWatchers ==
  /\ worker = "watchers"
  /\ worker' = "complete"
  /\ watch' = [w \in Watchers |->
                 IF watch[w].status = "open" THEN [watch[w] EXCEPT !.status = "closed"]
                 ELSE watch[w]]
  /\ UNCHANGED <<state, reason, failure, sequence, terminalDone, panicked, terminating,
                 callVars, runtime, terminator, close>>

completeClose ==
  /\ worker = "complete"
  /\ worker' = "done"
  /\ close' = "finished"
  /\ UNCHANGED <<stateVars, terminating, callVars, runtime, terminator>>
-----------------------------------------------------------------------------
Next ==
  \/ \E c \in Callers : start(c) \/ resumeCommand(c) \/ resume(c) \/ inspect(c) \/ inspected(c)
  \/ \E w \in Watchers : subscribe(w) \/ receive(w) \/ unsubscribe(w)
  \/ \E cmd \in commands : runCommand(cmd)
  \/ terminateExecution
  \/ terminateRuntime
  \/ terminatePublish
  \/ beginClose
  \/ settleRequest
  \/ settleRuntime
  \/ settleWatchers
  \/ completeClose

Spec == Init /\ [][Next]_vars

\* The goroutines the Session starts run; a command answers once its runtime is
\* closed; an inspection returns.  Clients promise nothing.
Fairness ==
  /\ WF_vars(terminateRuntime \/ terminatePublish)
  /\ WF_vars(settleRequest \/ settleRuntime \/ settleWatchers \/ completeClose)
  /\ WF_vars(runtime = "closed" /\ \E cmd \in commands : runCommand(cmd))
  /\ \A c \in Callers : WF_vars(inspected(c))

FairSpec == Spec /\ Fairness
-----------------------------------------------------------------------------
(* Properties *)

\* A subscription: where it stands, the event received last, those buffered.
Watch == [status : {"none", "open", "closed", "cancelled"},
          got : Nat, buf : Seq(Nat), lagged : BOOLEAN]

\* Every variable ranges over the values the Go fields can hold.
TypeOK ==
  /\ state \in {"created", "running", "stopped"} \cup Terminal
  /\ reason \in {"none", "stop", "error"}
  /\ failure \in BOOLEAN
  /\ terminating \in BOOLEAN
  /\ sequence \in Nat \ {0}
  /\ terminalDone \in BOOLEAN
  /\ panicked \in BOOLEAN
  /\ control \in Callers \cup {None}
  /\ caller \in [Callers -> {"idle", "flagged", "inspecting"}]
  /\ flag \in [Callers -> BOOLEAN]
  /\ issued \in 0..MaxCommands
  /\ commands \subseteq [id : 1..issued, flag : BOOLEAN, error : BOOLEAN]
  /\ runtime \in {"open", "closed"}
  /\ terminator \in {"none", "close", "publish", "done"}
  /\ close \in {"idle", "started", "finished"}
  /\ worker \in {"none", "request", "await", "watchers", "complete", "done"}
  /\ watch \in [Watchers -> Watch]

\* The terminal event is published once, whichever of command, terminate and
\* close gets there first: terminalDone is closed exactly then.
TerminalOnce == ~panicked /\ (terminalDone <=> state \in Terminal)

\* A begun close completes.
CloseCompletes == close = "started" ~> close = "finished"

\* A terminal state eventually closes the common runtime.
TerminalClosesRuntime == state \in Terminal ~> runtime = "closed"

\* The debugger has one command at a time, RUNNING means that it has one, and no
\* caller inspects paused state meanwhile, although termination may end the
\* pause under it.
ExclusiveControl ==
  /\ Cardinality(commands) <= 1
  /\ state = "running" => commands # {}
  /\ \A c \in Callers : caller[c] = "inspecting" =>
       commands = {} /\ state \in {"stopped", "terminated"}

\* A watcher receives consecutive events, and lag cuts it off rather than leaving
\* a gap. A terminal state ends every watch, and one that neither lagged nor was
\* cancelled ends with the terminal event.
WatchComplete ==
  \A w \in Watchers :
    /\ \A i \in 1..Len(watch[w].buf) : watch[w].buf[i] = watch[w].got + i
    /\ state \in Terminal => watch[w].status # "open"
    /\ watch[w].status = "closed" /\ ~watch[w].lagged =>
         state \in Terminal /\ watch[w].got + Len(watch[w].buf) = sequence

\* The end of a debug Session is final: its terminal event is published once, and
\* RUNNING is never entered after DebugRuntime.Close released the Plan lease.
EndsOnce ==
  [][/\ TerminalOnce'
     /\ runtime = "closed" /\ state' = "running" => state = "running"]_vars
=============================================================================
