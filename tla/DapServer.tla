------------------------------ MODULE DapServer -----------------------------
(***************************************************************************)
(* internal/dap: the debug adapter.  The request goroutine (Server.Run)    *)
(* dispatches requests one at a time; watchDebugSession translates the     *)
(* events of the debug Session it owns; the Session's command and its      *)
(* termination run on goroutines of their own.  A critical section of      *)
(* eventMu is one action; the inspection handlers, which do not take it,   *)
(* are split at their calls into the debugger.                             *)
(***************************************************************************)
EXTENDS DapState, Sequences, FiniteSets

CONSTANTS Positions,          \* breakpoint positions a client may request
          AtEntry,            \* those whose binding resolves to the entry location
          Requests,           \* the sets of positions it sends in one request
          watcherBufferSize,  \* capacity of the Session's event channel
          MaxStops,           \* bound: stops the program makes
          MaxReplaces         \* bound: accepted setBreakpoints requests

ASSUME AtEntryPositions == AtEntry \subseteq Positions
ASSUME RequestsOfPositions == Requests \subseteq SUBSET Positions
ASSUME BoundsPositive == {watcherBufferSize, MaxStops, MaxReplaces} \subseteq Nat \ {0}
\* nil is no position and no initialStop.
ASSUME NoneIsNil ==
  None \notin Positions \cup [frozen : BOOLEAN, bindings : SUBSET (Positions \X Nat)]

VARIABLES
  \* Server
  run,          \* Run: "reading", a handler between two steps, a cleanup step, "returned"
  locked,       \* the request goroutine holds eventMu across cleanup
  stage,        \* "new", "initialized", "launched", "configured"
  launch,       \* the launch request: "none", "pending", "ok", "failed", "dropped"
  owned,        \* what exists: subset of {"runtime", "workspace", "session", "debug"}
  stopOnEntry, initialStop, breakpoints, handles,
  request,      \* the inspection in progress: [kind it allocates, stop it asked of]
  watch,        \* watchDebugSession: "none", "loop", "ending", "done"
  \* debug.Session
  state, terminating,
  stop,         \* number of stops so far; names the current one while stopped
  decided,      \* what the command returned, before it is published; None
  queue, sub, lagged,   \* the subscription: buffered events, "none"/"open"/"closed"
  installed,    \* the debugger's native breakpoints
  replaces,     \* accepted replacements
  \* history
  reported,     \* the last stopped event: [stop, reason, ids]
  suppressed,   \* stops hidden from the client
  skipped,      \* stops the adapter itself resumed to hide one
  atStart,      \* positions with a breakpoint when the program was started
  aliased,      \* stops whose handles were answered from another stop
  ended         \* a terminated event was sent

sessionVars == <<state, terminating, stop, decided, queue, sub, lagged>>
tableVars == <<initialStop, breakpoints, handles>>
historyVars == <<reported, suppressed, skipped, atStart, aliased, ended>>
vars == <<run, locked, stage, launch, owned, stopOnEntry, tableVars, request, watch, 
          sessionVars, installed, replaces, historyVars>>

\* The adapter ends a failed program as it ends a completed one, but for the texts.
Terminal == {"completed", "terminated"}
NoRequest == [kind |-> "none", of |-> 0]
Cleanup == {"cancel", "closeDebug", "closeSession", "closeWorkspace", "closeRuntime"}

Init ==
  /\ run = "reading" /\ locked = FALSE /\ stage = "new" /\ launch = "none"
  /\ owned = {"runtime"} /\ stopOnEntry \in BOOLEAN
  /\ initialStop = None /\ breakpoints = newBreakpointIDs /\ handles = newHandleTable
  /\ request = NoRequest /\ watch = "none"
  /\ state = "none" /\ terminating = FALSE /\ stop = 0 /\ decided = None
  /\ queue = <<>> /\ sub = "none" /\ lagged = FALSE
  /\ installed = {} /\ replaces = 0
  /\ reported = [stop |-> 0, reason |-> "none", ids |-> {}]
  /\ suppressed = {} /\ skipped = {} /\ atStart = {} /\ aliased = {} /\ ended = FALSE
-----------------------------------------------------------------------------
(* debug.Session as the adapter uses it *)

\* publishLocked: buffered, or the lagging subscription is cut off.
publishAfter(events, event) ==
  IF sub # "open" THEN queue' = events /\ UNCHANGED <<sub, lagged>>
  ELSE IF Len(events) < watcherBufferSize
  THEN /\ queue' = Append(events, event)
       /\ sub' = IF event.kind \in Terminal THEN "closed" ELSE "open"
       /\ UNCHANGED lagged
  ELSE sub' = "closed" /\ lagged' = TRUE /\ queue' = events

publish(event) == publishAfter(queue, event)

Event(kind, reason, hits) == [kind |-> kind, stop |-> stop, reason |-> reason, hits |-> hits]

\* startCommand's checks, after Manager.session has found the Session.
accepts(expected) == "debug" \in owned /\ ~terminating /\ state = expected

startCommand ==
  /\ state' = "running"
  /\ publish(Event("running", "none", {}))
  /\ UNCHANGED <<terminating, stop, decided>>

\* The native debugger decides what happened; later it is published.  Only the
\* first stop is the entry, unless the program fails before it; afterwards a step,
\* a pause and a runtime error are shown alike.
Stopped(reason, hits) == [kind |-> "stopped", reason |-> reason, hits |-> hits]

Answers ==
  {[kind |-> "completed", reason |-> "none", hits |-> {}]}
    \cup (CASE stop = 0 -> {Stopped("entry", {}), Stopped("error", {})}
            [] stop \in 1..(MaxStops - 1) ->
                 {Stopped("step", {})} \cup {Stopped("breakpoint", {n}) : n \in installed}
            [] OTHER -> {})

decide ==
  /\ state = "running" /\ decided = None
  /\ decided' \in Answers
  /\ UNCHANGED <<run, locked, stage, launch, owned, stopOnEntry, tableVars, request, watch, state,
                 terminating, stop, queue, sub, lagged, installed, replaces, historyVars>>

runCommand ==
  /\ decided # None
  /\ decided' = None
  /\ IF state # "running" THEN UNCHANGED <<state, stop, queue, sub, lagged>>
     ELSE /\ state' = decided.kind
          /\ stop' = IF decided.kind = "stopped" THEN stop + 1 ELSE stop
          /\ publish([kind |-> decided.kind, stop |-> stop', reason |-> decided.reason,
                      hits |-> decided.hits])
  /\ UNCHANGED <<run, locked, stage, launch, owned, stopOnEntry, tableVars, request, watch,
                 terminating, installed, replaces, historyVars>>

\* The terminate goroutine, once the runtime is closed.
terminate ==
  /\ terminating /\ state \notin Terminal
  /\ state' = "terminated"
  /\ publish(Event("terminated", "none", {}))
  /\ UNCHANGED <<run, locked, stage, launch, owned, stopOnEntry, tableVars, request, watch,
                 terminating, stop, decided, installed, replaces, historyVars>>
-----------------------------------------------------------------------------
(* Run, send and the setup requests *)

\* A handler ends with its response.
respond == run' = "reading"

\* The end of the input, a malformed message, a cancelled context or a response
\* that cannot be written ends Run after any request.
endOfInput ==
  /\ run = "reading"
  /\ run' = "cancel"
  /\ UNCHANGED <<locked, stage, launch, owned, stopOnEntry, tableVars, request, watch,
                 sessionVars, installed, replaces, historyVars>>

handleInitialize ==
  /\ run = "reading"
  /\ stage' = IF stage = "new" THEN "initialized" ELSE stage
  /\ respond
  /\ UNCHANGED <<locked, launch, owned, stopOnEntry, tableVars, request, watch, sessionVars,
                 installed, replaces, historyVars>>

\* handleLaunch checks the order, the arguments and the paths.
handleLaunch ==
  /\ run = "reading"
  /\ \/ respond
     \/ stage = "initialized" /\ run' = "open"
  /\ UNCHANGED <<locked, stage, launch, owned, stopOnEntry, tableVars, request, watch,
                 sessionVars, installed, replaces, historyVars>>

\* Mutant: a failed launch step leaves what the earlier ones made.
LaunchStepLeaks(at, makes, then) ==
  /\ run = at
  /\ \/ respond /\ UNCHANGED owned
     \/ run' = then /\ owned' = owned \cup makes

\* Open, CreateSession, debug CreateSession, WatchSession: one more resource, or
\* everything made so far is closed and the launch fails and may be retried.
launchStep(at, makes, then) ==
  /\ run = at
  /\ \/ respond /\ owned' = {"runtime"}
     \/ run' = then /\ owned' = owned \cup makes

launchStepUnchanged ==
  UNCHANGED <<locked, stage, launch, stopOnEntry, tableVars, request, watch, sessionVars,
              installed, replaces, historyVars>>

openWorkspace == launchStep("open", {"workspace"}, "session") /\ launchStepUnchanged
createSession == launchStep("session", {"session"}, "debug") /\ launchStepUnchanged
createDebugSession == launchStep("debug", {"debug"}, "watch") /\ launchStepUnchanged

\* The last step also publishes the launch, sends initialized and starts the
\* watch; if that event cannot be written the watch is never started.
watchSession ==
  /\ run = "watch"
  /\ \/ /\ respond
        /\ owned' = {"runtime"}
        /\ UNCHANGED <<stage, launch, initialStop, watch, state, sub>>
     \/ /\ stage' = "launched" /\ launch' = "pending" /\ state' = "created" /\ sub' = "open"
        /\ \/ respond /\ initialStop' = newInitialStop /\ watch' = "loop"
           \/ run' = "cancel" /\ UNCHANGED <<initialStop, watch>>
        /\ UNCHANGED owned
  /\ UNCHANGED <<locked, stopOnEntry, breakpoints, handles, request, terminating, stop, decided,
                 queue, lagged, installed, replaces, historyVars>>

\* StartSession is refused: the launch fails and the adapter shuts down with
\* eventMu held.
startRefused ==
  /\ run' = "cancel" /\ locked' = TRUE
  /\ initialStop' = None
  /\ launch' = IF launch = "pending" THEN "failed" ELSE launch
  /\ UNCHANGED <<stage, breakpoints, handles, sessionVars, atStart>>

\* The Session runs: bindings freeze, and launch is answered after configurationDone.
startAccepted ==
  /\ startCommand
  /\ initialStop' = [initialStop EXCEPT !.frozen = TRUE]
  /\ breakpoints' = commandStarted(breakpoints)
  /\ handles' = Invalidate(handles)
  /\ stage' = "configured"
  /\ launch' = IF launch = "pending" THEN "ok" ELSE launch
  /\ atStart' = {n[1] : n \in installed}
  /\ respond
  /\ UNCHANGED locked

\* The response goes first: if it cannot be written nothing is started.  A
\* cancelled context refuses the start too.
handleConfigurationDone ==
  /\ run = "reading"
  /\ \/ /\ stage # "launched" /\ respond
        /\ UNCHANGED <<locked, stage, launch, tableVars, sessionVars, atStart>>
     \/ stage = "launched" /\ startRefused
     \/ stage = "launched" /\ accepts("created") /\ startAccepted
  /\ UNCHANGED <<owned, stopOnEntry, request, watch, installed, replaces, reported, suppressed,
                 skipped, aliased, ended>>
-----------------------------------------------------------------------------
(* Breakpoints and resumption *)

\* The native set after positions ps are requested: kept positions keep their
\* identity, new ones get a fresh generation.
nativeSet(ps) ==
  {n \in installed : n[1] \in ps}
    \cup {<<p, replaces + 1>> : p \in ps \ {n[1] : n \in installed}}

\* Debugger accepted: identities, entry bindings and the response under eventMu.
\* A native position that cannot be converted back only makes the response a failure.
replaceBreakpoints(ps) ==
  /\ replaces < MaxReplaces
  /\ replaces' = replaces + 1
  /\ installed' = nativeSet(ps)
  /\ breakpoints' = replace(breakpoints, installed')
  /\ initialStop' = IF initialStop = None THEN None ELSE rebind(initialStop, installed')

\* A request for another source or one with an invalid position changes nothing.
handleSetBreakpoints(ps) ==
  /\ run = "reading"
  /\ respond
  /\ \/ /\ stage \in {"launched", "configured"}
        /\ state \notin Terminal /\ ~terminating
        /\ replaceBreakpoints(ps)
     \/ UNCHANGED <<installed, replaces, breakpoints, initialStop>>
  /\ UNCHANGED <<locked, stage, launch, owned, stopOnEntry, handles, request, watch, sessionVars,
                 historyVars>>

\* Mutant: the handles of the stop that is left stay current.
ResumeKeepsHandles ==
  /\ run = "reading"
  /\ respond
  /\ IF stage = "configured" /\ accepts("stopped")
     THEN startCommand /\ breakpoints' = commandStarted(breakpoints) /\ UNCHANGED handles
     ELSE UNCHANGED <<sessionVars, breakpoints, handles>>
  /\ UNCHANGED <<locked, stage, launch, owned, stopOnEntry, initialStop, request, watch,
                 installed, replaces, historyVars>>

\* handleContinue, handleNext, handleStepIn, handleStepOut.
handleResume ==
  /\ run = "reading"
  /\ respond
  /\ IF stage = "configured" /\ accepts("stopped")
     THEN /\ startCommand
          /\ breakpoints' = commandStarted(breakpoints)
          /\ handles' = Invalidate(handles)
     ELSE UNCHANGED <<sessionVars, breakpoints, handles>>
  /\ UNCHANGED <<locked, stage, launch, owned, stopOnEntry, initialStop, request, watch,
                 installed, replaces, historyVars>>

\* handlePause and handleThreads change nothing here: a pause only makes the
\* running command return, which it may do at any time.
handlePause ==
  /\ run = "reading"
  /\ respond
  /\ UNCHANGED <<locked, stage, launch, owned, stopOnEntry, tableVars, request, watch,
                 sessionVars, installed, replaces, historyVars>>
-----------------------------------------------------------------------------
(* Inspection: no eventMu *)

inspectUnchanged ==
  UNCHANGED <<locked, stage, launch, owned, stopOnEntry, initialStop, breakpoints, watch,
              sessionVars, installed, replaces, reported, suppressed, skipped, atStart, ended>>

\* A call into the debugger will follow, whose values get handles of this kind;
\* of is the stop whose handle was presented, 0 if none was.
ask(kind, of) == run' = "inspect" /\ request' = [kind |-> kind, of |-> of]

handleStackTrace ==
  /\ run = "reading"
  /\ IF stage = "configured" THEN ask("frame", 0) ELSE respond /\ UNCHANGED request
  /\ UNCHANGED <<handles, aliased>>
  /\ inspectUnchanged

\* A frame handle that is not current is answered empty, or refused.
handleScopes(handle) ==
  /\ run = "reading"
  /\ IF stage = "configured" /\ Current(handles, handle)
     THEN ask("value", handle[2]) ELSE respond /\ UNCHANGED request
  /\ UNCHANGED <<handles, aliased>>
  /\ inspectUnchanged

\* A scope keeps its variables; a value reference is expanded by the debugger.
handleVariables(handle) ==
  /\ run = "reading"
  /\ IF stage # "configured" \/ ~Current(handles, handle) THEN respond /\ UNCHANGED request
     ELSE \/ run' = "allocate" /\ request' = [kind |-> "value", of |-> handle[2]]
          \/ ask("value", handle[2])
  /\ UNCHANGED <<handles, aliased>>
  /\ inspectUnchanged

\* In a frame, or in frame 0 when the request names none; an empty expression is
\* answered at once.
handleEvaluate(handle) ==
  /\ run = "reading"
  /\ \/ stage = "configured" /\ (handle = None \/ Current(handles, handle))
        /\ ask("value", IF handle = None THEN 0 ELSE handle[2])
     \/ respond /\ UNCHANGED request
  /\ UNCHANGED <<handles, aliased>>
  /\ inspectUnchanged

\* Frames, Scopes, Variables, Evaluate: the Session answers only while stopped.
inspect ==
  /\ run = "inspect"
  /\ IF state = "stopped"
     THEN /\ run' = "allocate"
          /\ request' = [request EXCEPT !.of = stop]
          /\ aliased' = IF request.of \in {0, stop} THEN aliased ELSE aliased \cup {request.of}
     ELSE respond /\ request' = NoRequest /\ UNCHANGED aliased
  /\ UNCHANGED handles
  /\ inspectUnchanged

\* The handles of the result are allocated after the call returned; a result that
\* is refused, or has no values to expand, allocates none.
allocate ==
  /\ run = "allocate"
  /\ handles' \in {handles, Allocate(handles, <<request.kind, request.of>>)}
  /\ request' = NoRequest
  /\ respond
  /\ UNCHANGED aliased
  /\ inspectUnchanged
-----------------------------------------------------------------------------
(* Ending *)

failPendingLaunch == launch' = IF launch = "pending" THEN "failed" ELSE launch

terminateSession ==
  /\ terminating' = (terminating \/ state \notin Terminal)
  /\ handles' = Invalidate(handles)

\* Mutant: terminate leaves the launch request unanswered.
TerminateForgetsLaunch ==
  /\ run = "reading"
  /\ respond
  /\ IF stage \in {"launched", "configured"} THEN terminateSession
     ELSE UNCHANGED <<terminating, handles>>
  /\ UNCHANGED <<locked, stage, launch, owned, stopOnEntry, initialStop, breakpoints, request,
                 watch, state, stop, decided, queue, sub, lagged, installed, replaces, historyVars>>

handleTerminate ==
  /\ run = "reading"
  /\ respond
  /\ IF stage \in {"launched", "configured"} THEN failPendingLaunch /\ terminateSession
     ELSE UNCHANGED <<launch, terminating, handles>>
  /\ UNCHANGED <<locked, stage, owned, stopOnEntry, initialStop, breakpoints, request, watch,
                 state, stop, decided, queue, sub, lagged, installed, replaces, historyVars>>

\* eventMu is held until cleanup is over.  A failed write skips the cleanup here;
\* Run then does it without the lock.
handleDisconnect ==
  /\ run = "reading"
  /\ failPendingLaunch
  /\ run' = "cancel"
  /\ locked' \in BOOLEAN
  /\ UNCHANGED <<stage, owned, stopOnEntry, tableVars, request, watch, sessionVars, installed,
                 replaces, historyVars>>

\* cleanup: the pending launch is dropped, the watch is cancelled and the Session
\* is told to terminate.
cleanupCancel ==
  /\ run = "cancel"
  /\ launch' = IF launch = "pending" THEN "dropped" ELSE launch
  /\ handles' = Invalidate(handles)
  /\ sub' = IF sub = "open" THEN "closed" ELSE sub
  /\ terminating' = (terminating \/ ("debug" \in owned /\ state \notin Terminal))
  /\ run' = "closeDebug"
  /\ UNCHANGED <<locked, stage, owned, stopOnEntry, initialStop, breakpoints, request, watch,
                 state, stop, decided, queue, lagged, installed, replaces, historyVars>>

\* Mutant: the wait for the Session also joins the goroutine that watches it.
CleanupJoinsWatch(at, done, closes, then) ==
  /\ run = at /\ done /\ (at = "closeDebug" => watch \in {"none", "done"})
  /\ owned' = owned \ closes
  /\ run' = then

\* Each close waits for what it closes; an error is joined and the rest goes on.
cleanupStep(at, done, closes, then) ==
  /\ run = at /\ done
  /\ owned' = owned \ closes
  /\ run' = then

cleanupUnchanged ==
  UNCHANGED <<stage, launch, stopOnEntry, tableVars, request, watch, sessionVars, installed,
              replaces, historyVars>>

cleanupDebug ==
  /\ cleanupStep("closeDebug", "debug" \in owned => state \in Terminal, {"debug"}, "closeSession")
  /\ UNCHANGED locked /\ cleanupUnchanged
cleanupSession ==
  /\ cleanupStep("closeSession", TRUE, {"session"}, "closeWorkspace")
  /\ UNCHANGED locked /\ cleanupUnchanged
cleanupWorkspace ==
  /\ cleanupStep("closeWorkspace", TRUE, {"workspace"}, "closeRuntime")
  /\ UNCHANGED locked /\ cleanupUnchanged
cleanupRuntime ==
  /\ cleanupStep("closeRuntime", TRUE, {"runtime"}, "returned")
  /\ locked' = FALSE /\ cleanupUnchanged
-----------------------------------------------------------------------------
(* watchDebugSession *)

\* A failed write of an event is only logged.
sendTerminated == ended' = TRUE

\* Mutant: the hidden stop is not resumed.
SuppressOnly(event) ==
  /\ suppressed' = suppressed \cup {event.stop}
  /\ handles' = Invalidate(handles)
  /\ breakpoints' = commandStopped(breakpoints)
  /\ queue' = Tail(queue)
  /\ UNCHANGED <<reported, skipped, ended, state, sub, lagged>>

\* The entry stop is hidden: the program is resumed on the client's behalf, from
\* whichever stop it is at when a client that did not wait resumed it before.
suppressEntry(event) ==
  /\ suppressed' = suppressed \cup {event.stop}
  /\ handles' = Invalidate(handles)
  /\ IF accepts("stopped")
     THEN /\ state' = "running"
          /\ publishAfter(Tail(queue), Event("running", "none", {}))
          /\ breakpoints' = commandStarted(commandStopped(breakpoints))
          /\ skipped' = skipped \cup {stop}
          /\ UNCHANGED ended
     ELSE /\ breakpoints' = commandStopped(breakpoints)
          /\ sendTerminated
          /\ queue' = Tail(queue)
          /\ UNCHANGED <<skipped, state, sub, lagged>>
  /\ UNCHANGED reported

\* sendStopped, then the command it ends is settled.
showStop(event) ==
  /\ reported' = [stop |-> event.stop, reason |-> event.reason,
                  ids |-> {id(breakpoints, n) : n \in event.hits}]
  /\ breakpoints' = commandStopped(breakpoints)
  /\ queue' = Tail(queue)
  /\ UNCHANGED <<handles, suppressed, skipped, ended, state, sub, lagged>>

handleStopped(event) ==
  LET resolved == IF initialStop = None THEN [event |-> event, suppress |-> FALSE]
                  ELSE resolve(initialStop, event, stopOnEntry, AtEntry)
  IN /\ initialStop' = None
     /\ IF resolved.suppress THEN suppressEntry(event) ELSE showStop(resolved.event)

handleRunning ==
  /\ handles' = Invalidate(handles)
  /\ queue' = Tail(queue)
  /\ UNCHANGED <<initialStop, breakpoints, suppressed, skipped, reported, ended, state, sub, lagged>>

\* Output, exited and terminated; the native mappings are released.
handleEnd ==
  /\ initialStop' = None
  /\ handles' = Invalidate(handles)
  /\ sendTerminated
  /\ breakpoints' = finish(breakpoints)
  /\ queue' = Tail(queue)
  /\ UNCHANGED <<suppressed, skipped, reported, state, sub, lagged>>

handleDebugEvent ==
  /\ watch = "loop" /\ ~locked /\ queue # <<>>
  /\ LET event == Head(queue)
     IN \/ event.kind = "running" /\ handleRunning
        \/ event.kind = "stopped" /\ handleStopped(event)
        \/ event.kind \in Terminal /\ handleEnd
  /\ UNCHANGED <<run, locked, stage, launch, owned, stopOnEntry, request, watch, terminating,
                 stop, decided, installed, replaces, atStart, aliased>>

\* Mutant: a watch that lagged ends without a word to the client.
WatchErrorsSilent ==
  /\ watch = "loop" /\ ~locked /\ queue = <<>> /\ sub = "closed"
  /\ watch' = "ending"
  /\ UNCHANGED <<run, locked, stage, launch, owned, stopOnEntry, tableVars, request, sessionVars,
                 installed, replaces, historyVars>>

\* The channel is closed and drained: a lag error is shown as a termination.
watchErrors ==
  /\ watch = "loop" /\ ~locked /\ queue = <<>> /\ sub = "closed"
  /\ watch' = "ending"
  /\ IF lagged THEN sendTerminated ELSE UNCHANGED ended
  /\ UNCHANGED <<run, locked, stage, launch, owned, stopOnEntry, tableVars, request, sessionVars,
                 installed, replaces, reported, suppressed, skipped, atStart, aliased>>

watchDone ==
  /\ watch = "ending" /\ ~locked
  /\ watch' = "done"
  /\ initialStop' = None
  /\ breakpoints' = finish(breakpoints)
  /\ UNCHANGED <<run, locked, stage, launch, owned, stopOnEntry, handles, request, sessionVars,
                 installed, replaces, historyVars>>
-----------------------------------------------------------------------------
Handles == {"frame", "value"} \X (1..MaxStops)

Next ==
  \/ decide \/ runCommand \/ terminate
  \/ endOfInput
  \/ handleInitialize \/ handleLaunch
  \/ openWorkspace \/ createSession \/ createDebugSession \/ watchSession
  \/ handleConfigurationDone
  \/ \E ps \in Requests : handleSetBreakpoints(ps)
  \/ handleResume \/ handlePause
  \/ handleStackTrace
  \/ \E h \in Handles : h[1] = "frame" /\ handleScopes(h)
  \/ \E h \in Handles : h[1] # "frame" /\ handleVariables(h)
  \/ \E h \in Handles : h[1] = "frame" /\ handleEvaluate(h)
  \/ handleEvaluate(None)
  \/ inspect \/ allocate
  \/ handleTerminate \/ handleDisconnect
  \/ cleanupCancel \/ cleanupDebug \/ cleanupSession \/ cleanupWorkspace \/ cleanupRuntime
  \/ handleDebugEvent \/ watchErrors \/ watchDone

Spec == Init /\ [][Next]_vars

\* Handlers and cleanup run on once begun, the watch goroutine runs, a
\* termination finishes.  The client and the program under debug promise nothing.
Fairness ==
  /\ WF_vars(openWorkspace \/ createSession \/ createDebugSession \/ watchSession)
  /\ WF_vars(inspect \/ allocate)
  /\ WF_vars(cleanupCancel \/ cleanupDebug \/ cleanupSession \/ cleanupWorkspace
             \/ cleanupRuntime)
  /\ WF_vars(terminate)
  /\ WF_vars(handleDebugEvent \/ watchErrors \/ watchDone)

FairSpec == Spec /\ Fairness
-----------------------------------------------------------------------------
(* Properties *)

\* Every variable ranges over the values the Go fields can hold.
TypeOK ==
  /\ run \in {"reading", "open", "session", "debug", "watch", "inspect", "allocate", "returned"}
             \cup Cleanup
  /\ stage \in {"new", "initialized", "launched", "configured"}
  /\ launch \in {"none", "pending", "ok", "failed", "dropped"}
  /\ owned \subseteq {"runtime", "workspace", "session", "debug"}
  /\ handles \subseteq Handles
  /\ breakpoints.pending \in Nat
  /\ watch \in {"none", "loop", "ending", "done"}
  /\ state \in {"none", "created", "running", "stopped"} \cup Terminal
  /\ stop \in 0..MaxStops
  /\ Len(queue) <= watcherBufferSize
  /\ {locked, terminating, lagged, ended} \subseteq BOOLEAN

\* The launch request stays unanswered while breakpoints are configured, and no
\* stopped or terminated event overtakes its answer, although the program and
\* the watch run beside the handler that answers it.
LaunchAnsweredFirst == launch = "pending" => reported.stop = 0 /\ ~ended

\* The client can name every breakpoint a stop reports: a hit decided before a
\* replacement, still queued behind other stops, keeps its identity, and the
\* response that announced it was sent first.
HitsAreKnown == \A i \in reported.ids : i # None

\* The entry stop is interpreted with the breakpoints the program was started
\* with: shown as their hit, else hidden exactly when stopOnEntry is off, whatever
\* was replaced between the start and the event.
EntryFrozen ==
  /\ reported.stop = 1 /\ reported.reason # "error" =>
       /\ reported.ids = atStart \cap AtEntry
       /\ reported.ids = {} => stopOnEntry
  /\ suppressed # {} => ~stopOnEntry /\ atStart \cap AtEntry = {}

\* A handle is answered from the stop it was issued at, except one read from the
\* stop the adapter itself resumed meanwhile to hide the entry.  There is at most
\* one such stop, and none when stopOnEntry is on.
HandlesKeepTheirStop ==
  /\ aliased \subseteq skipped
  /\ \A s, t \in skipped : s = t
  /\ skipped # {} => ~stopOnEntry

\* A stale paused-state reference cannot alias a later frame or value.
HandlesNeverAlias == aliased = {}

\* No stop is lost: once the events are translated, a stopped program is one the
\* client was told about, or it was told that the session ended.
StopsAreShown ==
  state = "stopped" /\ watch = "loop" /\ sub = "open" /\ queue = <<>> =>
    reported.stop = stop \/ ended

\* A failed launch leaves nothing behind, and cleanup releases children first: a
\* debug Session goes only when it is terminal.
OwnershipOrdered ==
  /\ "debug" \in owned => "session" \in owned
  /\ "session" \in owned => "workspace" \in owned
  /\ "workspace" \in owned => "runtime" \in owned
  /\ run = "reading" => (owned # {"runtime"} <=> stage \in {"launched", "configured"})
  /\ state # "none" /\ "debug" \notin owned => state \in Terminal

\* Run returns once its cleanup has begun, also when cleanup runs with eventMu
\* held and the watch goroutine waits for it.
RunReturns == run \in Cleanup ~> run = "returned"

\* The client of a live connection learns that the session ended.
EndIsReported == state \in Terminal ~> ended \/ run \in Cleanup \cup {"returned"}

\* A reported stop is explained by breakpoints the client can name: the entry stop
\* by those the program was started with, a later one by those of its command.
StopsAreExplained == HitsAreKnown /\ EntryFrozen
=============================================================================
