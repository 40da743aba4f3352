------------------------------- MODULE Daemon -------------------------------
(***************************************************************************)
(* internal/daemon.Daemon: Start, concurrent Stop calls and the one        *)
(* cleanup goroutine that takes the composed services down in order, while *)
(* RPCs are still being served.  The managers appear by what the daemon    *)
(* needs of them: ExecManager and WorkspaceManager have the detail.        *)
(***************************************************************************)
EXTENDS Naturals, FiniteSets

CONSTANTS Stops,   \* calls of Stop
          Rpcs     \* RPCs clients send

VARIABLES
  state,       \* Daemon.state
  start,       \* Start: program counter
  ctx,         \* Start's context is cancelled
  shutdown,    \* Daemon.shutdown is closed
  listener,    \* "none", "bound", "closed"
  stored,      \* Daemon.listener is set
  cleanup,     \* cleanup goroutine: program counter
  cleanups,    \* cleanup goroutines started
  withListener, serving,   \* arguments of startCleanup
  failed,      \* some cleanup step returned an error
  stopErr,     \* Daemon.stopErr: "none", "nil", "err"
  stopDone,    \* Daemon.stopDone is closed
  stop,        \* Stop: program counter
  answer,      \* what Stop returned: "none", "nil", "err", "ctx"
  health,      \* gRPC health is SERVING
  serve,       \* Serve goroutine: "none", "ready", "serving", "returned"
  draining,    \* GracefulStop has begun
  rpc,         \* RPC: "none", "open", "session", "watch", "done"
  rpcGen,      \* generation an Open RPC's load began in
  generation,  \* workspace.Manager.generation
  workspaces,  \* open workspaces, named by the RPC
  executions,  \* exec.Manager: "open", "closing", "closed"
  sessions,    \* live Sessions, named by the RPC
  runtimeCloses   \* calls of runtime.Close

startVars == <<state, start, ctx, shutdown, listener, stored>>
cleanVars == <<cleanup, cleanups, withListener, serving, failed, stopErr, stopDone>>
stopVars == <<stop, answer>>
grpcVars == <<health, serve, draining, rpc, rpcGen>>
ownedVars == <<generation, workspaces, executions, sessions, runtimeCloses>>
daemonVars == <<startVars, cleanVars, stopVars, grpcVars, ownedVars>>

DaemonInit ==
  /\ state = "new" /\ start = "idle" /\ ctx = FALSE /\ shutdown = FALSE
  /\ listener = "none" /\ stored = FALSE
  /\ cleanup = "none" /\ cleanups = 0 /\ withListener = FALSE /\ serving = FALSE
  /\ failed = FALSE /\ stopErr = "none" /\ stopDone = FALSE
  /\ stop = [c \in Stops |-> "idle"] /\ answer = [c \in Stops |-> "none"]
  /\ health = FALSE /\ serve = "none" /\ draining = FALSE
  /\ rpc = [r \in Rpcs |-> "none"] /\ rpcGen = [r \in Rpcs |-> 0]
  /\ generation = 0 /\ workspaces = {} /\ executions = "open" /\ sessions = {}
  /\ runtimeCloses = 0

startCleanup(l, s) ==
  /\ cleanups' = cleanups + 1
  /\ cleanup' = "health"
  /\ withListener' = l
  /\ serving' = s
  /\ UNCHANGED <<failed, stopErr, stopDone>>
-----------------------------------------------------------------------------
(* Start *)

cancelStart ==
  /\ ~ctx
  /\ ctx' = TRUE
  /\ UNCHANGED <<state, start, shutdown, listener, stored, cleanVars, stopVars, grpcVars, ownedVars>>

\* A cancelled context or a daemon that left "new" ends Start at once.
Start ==
  /\ start = "idle"
  /\ IF ctx \/ state # "new"
     THEN start' = "returned" /\ UNCHANGED state
     ELSE start' = "listen" /\ state' = "starting"
  /\ UNCHANGED <<ctx, shutdown, listener, stored, cleanVars, stopVars, grpcVars, ownedVars>>

listen ==
  /\ start = "listen"
  /\ \/ listener' = "bound" /\ start' = "bind"
     \/ start' = "listenFailed" /\ UNCHANGED listener
  /\ UNCHANGED <<state, ctx, shutdown, stored, cleanVars, stopVars, grpcVars, ownedVars>>

\* A Start that cannot listen cleans up, whether or not a Stop came meanwhile.
listenFailed ==
  /\ start = "listenFailed"
  /\ state' = "stopping"
  /\ start' = "stopWait"
  /\ startCleanup(FALSE, FALSE)
  /\ UNCHANGED <<ctx, shutdown, listener, stored, stopVars, grpcVars, ownedVars>>

startWaited ==
  /\ start = "stopWait"
  /\ stopDone
  /\ start' = "returned"
  /\ UNCHANGED <<state, ctx, shutdown, listener, stored, cleanVars, stopVars, grpcVars, ownedVars>>

\* Mutant: Start does not look at the state again after Listen.
BindUnchecked ==
  /\ start = "bind"
  /\ stored' = TRUE
  /\ state' = "running"
  /\ health' = TRUE
  /\ start' = "serve"
  /\ serve' = "ready"
  /\ UNCHANGED <<ctx, shutdown, listener, cleanVars, stopVars, draining, rpc, rpcGen, ownedVars>>

\* Start's second critical section: a Stop that came during Listen leaves the
\* cleanup, with the new listener, to Start.
bind ==
  /\ start = "bind"
  /\ IF state = "stopping"
     THEN /\ startCleanup(TRUE, FALSE)
          /\ start' = "returned"
          /\ UNCHANGED <<state, stored, health, serve>>
     ELSE /\ stored' = TRUE
          /\ state' = "running"
          /\ health' = TRUE
          /\ start' = "serve"
          /\ serve' = "ready"
          /\ UNCHANGED cleanVars
  /\ UNCHANGED <<ctx, shutdown, listener, stopVars, draining, rpc, rpcGen, ownedVars>>

\* Start's select.  It returns without stopping anything.
startReturns ==
  /\ start = "serve"
  /\ ctx \/ shutdown \/ serve = "returned"
  /\ start' = "returned"
  /\ UNCHANGED <<state, ctx, shutdown, listener, stored, cleanVars, stopVars, grpcVars, ownedVars>>
-----------------------------------------------------------------------------
(* The gRPC server *)

\* Serve on a stopped server closes the listener and returns.
Serve ==
  /\ serve = "ready"
  /\ IF draining
     THEN serve' = "returned" /\ listener' = "closed"
     ELSE serve' = "serving" /\ UNCHANGED listener
  /\ UNCHANGED <<state, start, ctx, shutdown, stored, cleanVars, stopVars, health, draining, rpc,
                 rpcGen, ownedVars>>

\* The accept loop fails, or ends because GracefulStop closed the listener; it
\* closes the listener, but open connections go on sending RPCs.
serveReturns ==
  /\ serve = "serving"
  /\ serve' = "returned"
  /\ listener' = "closed"
  /\ UNCHANGED <<state, start, ctx, shutdown, stored, cleanVars, stopVars, health, draining, rpc,
                 rpcGen, ownedVars>>

\* A client's RPC arrives: Shutdown, Open (which notes the generation when its
\* load begins) or CreateSession (which the execution manager admits or not).
Shutdown ==
  /\ serve \in {"serving", "returned"}
  /\ ~draining
  /\ shutdown' = TRUE
  /\ UNCHANGED <<state, start, ctx, listener, stored, cleanVars, stopVars, grpcVars, ownedVars>>

Open(r) ==
  /\ serve \in {"serving", "returned"}
  /\ ~draining
  /\ rpc[r] = "none"
  /\ rpc' = [rpc EXCEPT ![r] = "open"]
  /\ rpcGen' = [rpcGen EXCEPT ![r] = generation]
  /\ UNCHANGED <<startVars, cleanVars, stopVars, health, serve, draining, ownedVars>>

opened(r) ==
  /\ rpc[r] = "open"
  /\ rpc' = [rpc EXCEPT ![r] = "done"]
  /\ \/ rpcGen[r] = generation /\ workspaces' = workspaces \cup {r}
     \/ UNCHANGED workspaces
  /\ UNCHANGED <<startVars, cleanVars, stopVars, health, serve, draining, rpcGen, generation,
                 executions, sessions, runtimeCloses>>

CreateSession(r) ==
  /\ serve \in {"serving", "returned"}
  /\ ~draining
  /\ rpc[r] = "none"
  /\ rpc' = [rpc EXCEPT ![r] = IF executions = "open" THEN "session" ELSE "done"]
  /\ UNCHANGED <<startVars, cleanVars, stopVars, health, serve, draining, rpcGen, ownedVars>>

\* An admitted creation publishes its Session, or rolls back once the manager
\* is closing.
created(r) ==
  /\ rpc[r] = "session"
  /\ rpc' = [rpc EXCEPT ![r] = "done"]
  /\ \/ executions = "open" /\ sessions' = sessions \cup {r}
     \/ UNCHANGED sessions
  /\ UNCHANGED <<startVars, cleanVars, stopVars, health, serve, draining, rpcGen, generation,
                 workspaces, executions, runtimeCloses>>
\* The standard health service: a Watch stream lasts until its client leaves.
\* Not even NOT_SERVING ends it.
Watch(r) ==
  /\ serve \in {"serving", "returned"}
  /\ ~draining
  /\ rpc[r] = "none"
  /\ rpc' = [rpc EXCEPT ![r] = "watch"]
  /\ UNCHANGED <<startVars, cleanVars, stopVars, health, serve, draining, rpcGen, ownedVars>>

watchLeft(r) ==
  /\ rpc[r] = "watch"
  /\ rpc' = [rpc EXCEPT ![r] = "done"]
  /\ UNCHANGED <<startVars, cleanVars, stopVars, health, serve, draining, rpcGen, ownedVars>>
-----------------------------------------------------------------------------
(* Stop *)

\* Mutant: a Stop during startup begins the cleanup itself.
StopCleansStarting(c) ==
  /\ stop[c] = "idle"
  /\ stop' = [stop EXCEPT ![c] = "waiting"]
  /\ IF state \in {"new", "starting", "running"}
     THEN state' = "stopping" /\ startCleanup(stored, state = "running")
     ELSE UNCHANGED <<state, cleanVars>>
  /\ UNCHANGED <<start, ctx, shutdown, listener, stored, answer, grpcVars, ownedVars>>

Stop(c) ==
  /\ stop[c] = "idle"
  /\ \/ /\ state \in {"new", "running"}
        /\ state' = "stopping"
        /\ stop' = [stop EXCEPT ![c] = "waiting"]
        /\ startCleanup(state = "running" /\ stored, state = "running")
        /\ UNCHANGED answer
     \/ /\ state \in {"starting", "stopping"}
        /\ state' = "stopping"
        /\ stop' = [stop EXCEPT ![c] = "waiting"]
        /\ UNCHANGED <<answer, cleanVars>>
     \/ /\ state = "stopped"
        /\ stop' = [stop EXCEPT ![c] = "returned"]
        /\ answer' = [answer EXCEPT ![c] = stopErr]
        /\ UNCHANGED <<state, cleanVars>>
  /\ UNCHANGED <<start, ctx, shutdown, listener, stored, grpcVars, ownedVars>>

\* waitForStop: the result, or the caller's own context.
stopped(c) ==
  /\ stop[c] = "waiting"
  /\ stopDone
  /\ stop' = [stop EXCEPT ![c] = "returned"]
  /\ answer' = [answer EXCEPT ![c] = stopErr]
  /\ UNCHANGED <<startVars, cleanVars, grpcVars, ownedVars>>

stopGivesUp(c) ==
  /\ stop[c] = "waiting"
  /\ stop' = [stop EXCEPT ![c] = "returned"]
  /\ answer' = [answer EXCEPT ![c] = "ctx"]
  /\ UNCHANGED <<startVars, cleanVars, grpcVars, ownedVars>>
-----------------------------------------------------------------------------
(* The cleanup goroutine *)

\* A step of the cleanup may fail; the error is joined and the cleanup goes on.
proceed(from, to, mayFail) ==
  /\ cleanup = from
  /\ cleanup' = to
  /\ failed' \in {failed, mayFail \/ failed}
  /\ UNCHANGED <<cleanups, withListener, serving, stopErr, stopDone>>

markNotServing ==
  /\ cleanup = "health"
  /\ cleanup' = "executions"
  /\ health' = IF serving THEN FALSE ELSE health
  /\ UNCHANGED <<startVars, cleanups, withListener, serving, failed, stopErr, stopDone, stopVars,
                 serve, draining, rpc, rpcGen, ownedVars>>

closeExecutions ==
  /\ cleanup = "executions"
  /\ cleanup' = "sessions"
  /\ executions' = "closing"
  /\ UNCHANGED <<startVars, cleanups, withListener, serving, failed, stopErr, stopDone, stopVars,
                 grpcVars, generation, workspaces, sessions, runtimeCloses>>

\* exec.Manager.Close returns once admitted creations ended and Sessions closed.
executionsClosed ==
  /\ \A r \in Rpcs : rpc[r] # "session"
  /\ proceed("sessions", "workspaces", TRUE)
  /\ executions' = "closed"
  /\ sessions' = {}
  /\ UNCHANGED <<startVars, stopVars, grpcVars, generation, workspaces, runtimeCloses>>

clearWorkspaces ==
  /\ proceed("workspaces", IF serving THEN "grpc" ELSE "listener", TRUE)
  /\ generation' = generation + 1
  /\ workspaces' = {}
  /\ UNCHANGED <<startVars, stopVars, grpcVars, executions, sessions, runtimeCloses>>

\* grpc.Server.Stop: GracefulStop closes the listener and refuses new RPCs ...
gracefulStop ==
  /\ cleanup = "grpc"
  /\ cleanup' = "drain"
  /\ draining' = TRUE
  /\ listener' = IF serve = "serving" THEN "closed" ELSE listener
  /\ UNCHANGED <<state, start, ctx, shutdown, stored, cleanups, withListener, serving, failed,
                 stopErr, stopDone, stopVars, health, serve, rpc, rpcGen, ownedVars>>

\* ... and waits for the running ones, streams included, and for the accept
\* loop; the Background context never forces it.
drained ==
  /\ \A r \in Rpcs : rpc[r] \in {"none", "done"}
  /\ serve # "serving"
  /\ proceed("drain", "listener", FALSE)
  /\ UNCHANGED <<startVars, stopVars, grpcVars, ownedVars>>

closeListener ==
  /\ proceed("listener", "runtime", withListener)
  /\ listener' = IF withListener THEN "closed" ELSE listener
  /\ UNCHANGED <<state, start, ctx, shutdown, stored, stopVars, grpcVars, ownedVars>>

closeRuntime ==
  /\ proceed("runtime", "finish", TRUE)
  /\ runtimeCloses' = runtimeCloses + 1
  /\ UNCHANGED <<startVars, stopVars, grpcVars, generation, workspaces, executions, sessions>>

finishStop ==
  /\ cleanup = "finish"
  /\ cleanup' = "done"
  /\ state' = "stopped"
  /\ stopErr' = IF failed THEN "err" ELSE "nil"
  /\ stopDone' = TRUE
  /\ UNCHANGED <<start, ctx, shutdown, listener, stored, cleanups, withListener, serving, failed,
                 stopVars, grpcVars, ownedVars>>
-----------------------------------------------------------------------------
startStep == listen \/ listenFailed \/ startWaited \/ bind \/ startReturns
cleanupStep ==
  \/ markNotServing \/ closeExecutions \/ executionsClosed \/ clearWorkspaces
  \/ gracefulStop \/ drained \/ closeListener \/ closeRuntime \/ finishStop

DaemonNext ==
  \/ Start \/ cancelStart \/ startStep
  \/ Serve \/ serveReturns \/ Shutdown
  \/ \E r \in Rpcs : Open(r) \/ opened(r) \/ CreateSession(r) \/ created(r)
                       \/ Watch(r) \/ watchLeft(r)
  \/ \E c \in Stops : Stop(c) \/ stopped(c) \/ stopGivesUp(c)
  \/ cleanupStep

DaemonSpec == DaemonInit /\ [][DaemonNext]_daemonVars

\* Goroutines run on and the handlers of Open and CreateSession return; the
\* accept loop ends once its listener is closed.  A client need not leave its
\* health stream.
DaemonFairness ==
  /\ WF_daemonVars(startStep)
  /\ WF_daemonVars(Serve)
  /\ WF_daemonVars(listener = "closed" /\ serveReturns)
  /\ \A r \in Rpcs : WF_daemonVars(opened(r)) /\ WF_daemonVars(created(r))
  /\ WF_daemonVars(cleanupStep)

FairDaemonSpec == DaemonSpec /\ DaemonFairness
-----------------------------------------------------------------------------
(* Properties *)

\* The flags of the daemon, of its cleanup and of the gRPC server.
flags ==
  /\ ctx \in BOOLEAN /\ shutdown \in BOOLEAN /\ stored \in BOOLEAN /\ health \in BOOLEAN
  /\ withListener \in BOOLEAN /\ serving \in BOOLEAN /\ failed \in BOOLEAN
  /\ stopDone \in BOOLEAN /\ draining \in BOOLEAN

\* Every variable ranges over the values of the daemon's fields and goroutines.
DaemonTypeOK ==
  /\ state \in {"new", "starting", "running", "stopping", "stopped"}
  /\ start \in {"idle", "listen", "listenFailed", "stopWait", "bind", "serve", "returned"}
  /\ flags
  /\ listener \in {"none", "bound", "closed"}
  /\ cleanup \in {"none", "health", "executions", "sessions", "workspaces", "grpc", "drain",
                  "listener", "runtime", "finish", "done"}
  /\ cleanups \in Nat
  /\ stopErr \in {"none", "nil", "err"}
  /\ stop \in [Stops -> {"idle", "waiting", "returned"}]
  /\ answer \in [Stops -> {"none", "nil", "err", "ctx"}]
  /\ serve \in {"none", "ready", "serving", "returned"}
  /\ rpc \in [Rpcs -> {"none", "open", "session", "watch", "done"}]
  /\ rpcGen \in [Rpcs -> 0..1]
  /\ generation \in 0..1
  /\ workspaces \subseteq Rpcs
  /\ executions \in {"open", "closing", "closed"}
  /\ sessions \subseteq Rpcs
  /\ runtimeCloses \in Nat

\* What the documentation says of cancellation: it leaves no manager resource
\* behind.  A workspace opened between Clear and the drain is one.
NothingLeftBehind == state = "stopped" => workspaces = {} /\ sessions = {}

\* What the documentation says of a committed Stop: the cleanup proceeds.  It
\* waits for ever for a client that keeps its health stream open.
StopFinishes == (\E c \in Stops : stop[c] = "waiting") ~> state = "stopped"

\* Only that can hold it up: unless a client keeps a health stream open for good,
\* a Stop call takes the daemon down, also when it meets a Start in progress.
StopCompletes == []<>(\A r \in Rpcs : rpc[r] # "watch") => StopFinishes

\* However Start, its failure and several Stop calls race, one cleanup runs and
\* closes the runtime once, as the last: no Session, no RPC in progress and no
\* bound listener is left when it goes.
RuntimeClosedLast ==
  /\ cleanups <= 1 /\ runtimeCloses <= 1
  /\ runtimeCloses > 0 =>
       /\ sessions = {}
       /\ listener # "bound"
       /\ \A r \in Rpcs : rpc[r] \in {"none", "done"}
=============================================================================
