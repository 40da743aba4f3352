# A TLA+ verification of ferretd

ferretd is a daemon that compiles, runs and debugs Ferret queries for editors and
other clients. Its logic is about ownership: workspaces own sources, Sessions own
compiled Plans, Executions and debug Sessions run on the Plans, and all of it can be
closed from several sides while it is still being created. This directory models that
logic in TLA+, model-checks it with TLC, and proves the safety of eleven of its
components with TLAPS for every number of callers.

`PROJECT.json` is the index: which definition models which lines, which run checks
which property, the hazards of the code, and a mutant of the code for every property.

## The system

| Part | State | Operations | What makes it hard |
|---|---|---|---|
| `internal/lifecycle` Gate, CloseOperation | creator count, `createsDone` channel, close state and result | BeginCreate, EndCreate, BeginClose, WaitForCreates, FinishClose, WaitClose | channels are made and closed per batch of creators; panics on misuse; a waiter's context races the result |
| `internal/exec` Execution | state, failure, event number, watchers, run goroutine | start, cancel, subscribe, close | one-shot run raced by cancel and close; bounded event buffers |
| `internal/exec` Manager | workspace groups, Sessions, Executions, Plans | CreateSession, CreateExecution, the closes, workspace hook, Close | compilation outside every lock; cascading closes that must join all child errors |
| `internal/exec` debug Plan | shared compile, leases | acquire, release, releasePlans | one compile for many waiters; the Plan must outlive its leases |
| `internal/debug` session | state, command, watchers, runtime | commands, inspect, terminate, close, watch | commands on goroutines; termination does not wait for the control lock |
| `internal/debug` Manager | groups of debug Sessions per parent | CreateSession, CloseSession, hook, Close | two nested gates; groups are replaced under one key |
| `internal/workspace` Manager | workspaces by ID and root, loads in progress, generation | Open, Close, Clear | shared loads whose loader may be cancelled; Clear during a load |
| `internal/workspace` documents, watcher | documents, generations, selections, watched directories | load, refresh, reconcile, watch events, close | files and directories change between any two system calls; watches are rolled back |
| `internal/language` Service | overlays, cache, generations | Open/Change/CloseDocument, analysis requests | snapshots used after their lock was released; the file below an overlay changes, goes and returns, in workspaces that open and close |
| `internal/lsp` | tail of the lifecycle chain, in-flight table | message dispatch, cancel, exit | one goroutine per message, ordered by barriers |
| `internal/dap` Server | launch, owned resources, handles, breakpoint IDs, initial stop | requests, debug events, cleanup | the watch goroutine against the request loop; an entry stop that is hidden |
| `internal/source`, positions in `dap`, `language`, `lsp` | none | offsets, UTF-16 columns, semantic tokens | surrogate pairs, four line ends, malformed bytes, unsigned deltas |
| `internal/daemon` | state, listener, health | Start, Stop, Shutdown RPC | Stop during Start; RPCs, and health streams that do not end, during the cleanup |
| `internal/transport` | socket path | listen, close, reclaim | several daemon processes and one path |
| `internal/grpc`, `client`, `diagnostic`, `cmd` | none of their own to speak of | conversion, composition | |

They interact by hooks and contracts. The workspace manager's close runs the execution
manager's hook, which closes the Sessions of the workspace. A Session's close runs the
debug manager's hook, which closes the debug Sessions and so returns the leases of the
debug Plan. The daemon's cleanup closes the execution manager, clears the workspaces,
drains gRPC and closes the runtime, in that order. Every parent admits children through
a `lifecycle.Gate`. The DAP server owns one chain of runtime, workspace, Session and debug
Session, and follows the debug Session by its watch.

## The modules

A critical section of a mutex is one action. What happens between two critical sections
(a compile, a wait on a channel, a call of a hook) separates two actions, so everybody
else may run there. An object is named by the call that creates it. A goroutine is a
program counter. Actions keep the names of the functions they model.

| Module | Models | Abstraction |
|---|---|---|
| `CreationBarrier` | what a Gate promises: children enter while open, one close, a result only when the last creator has left | no channels, no counter |
| `Lifecycle` | `gate.go`, `close_operation.go` | channels are numbers; implements `CreationBarrier` |
| `Execution` | `execution.go`, its runtime, watcher and snapshot files | outputs and parameters left out |
| `ExecManager` | `manager.go` and the registries of `internal/exec` | a Gate is its set of creators and a phase, as in `CreationBarrier`; an Execution is a run that ends |
| `DebugSession` | one session of `internal/debug` over its debugger | the debugger answers a command with any event it can produce |
| `DebugManager` | `internal/debug/manager.go`, `internal/exec/debug_runtime.go` and the debug half of `exec/session.go` | one parent Session: groups of different parents share only the closed flag |
| `WorkspaceManager` | `internal/workspace/manager.go` | a load is one step that succeeds or fails; the content of files is left out |
| `Daemon` | `internal/daemon/daemon.go`, with the serving side of `internal/grpc` | the managers appear by what the daemon needs of them |
| `LanguageService` | `analysis_cache.go` and the document operations of `internal/language`, diagnostics of `internal/lsp/lifecycle.go` | one URI, which any number of nested workspaces may hold; a text is a number |
| `RpcHandler` | `internal/lsp/rpc_handler.go`, `transport.go` | a message is one of four kinds; a client uses a request ID once, so a request is its message |
| `DapState` | the tables of `internal/dap`: breakpoint identities, pending commands, the initial stop | pure operators; a native breakpoint is its position and the number of its installation |
| `DapServer` | the request handlers, the watch goroutine and the cleanup of `internal/dap`, over a debug Session by its states | messages by what they report; a handle is numbered by the stop it was issued at |
| `WorkspaceWatcher` | `watcher.go`, with the filesystem and fsnotify it watches | a directory is its inode, a file its text |
| `WorkspaceDocuments` | `loader.go`, `refresh.go`, `refresh_io.go`, `watch_registration.go`, `workspace.go` | one level of directories; one system call is one step |
| `SourcePositions` | `source/position.go`, `dap/source_coordinates.go`, semantic tokens of `language` and `lsp` | a text is a sequence of seven kinds of characters |

A module `XProofs` holds the theorems about the module `X` and their proofs. Three hold
those of two modules: `LifecycleProofs` of `Lifecycle` and `Daemon`, `LspProofs` of
`RpcHandler` and `LanguageService`, `WorkspaceProofs` of `WorkspaceManager` and
`WorkspaceDocuments`. The second of each pair prefixes its specification, as in
`DocumentsSpec`, so that one module can extend both.

Three correspondences are less direct. In `DapServer`, `locked` is `eventMu` as held by a
handler over several steps, `run` is the goroutine of `Run` with the step it is at, and
`watch` the goroutine of `watchDebugSession`; `reported`, `suppressed`, `skipped`,
`atStart` and `aliased` are history. In `WorkspaceDocuments`, `op` is what the holder of `mutationGate`
has seen so far, so a reconciliation is the steps `list`, `observe`, `read` (of a tree) or
`discover`, `fetch` (of a document), then a commit under the lock. Between `observe` or
`discover` and what follows comes `addDirectory`, unless the directory has a live watch: the
first `Lstat` with the removal of the watch on another inode, the backend's `add`, which may
refuse, and the second `Lstat`, `check`, which undoes the watch if the directory is another
by then. `filesystem` may step between any two of all these. `lost` remembers that a
reconciliation of the run goroutine failed ("error"), which nobody retries, or that a
failed `addDirectory` or a rollback took the watch of a directory with retained documents
("unwatched"). In `LanguageService`, a workspace numbers the states of its documents itself
(`next`), so a file that was removed and is back has a greater generation, and a workspace
that is opened again has a new identity. In `SourcePositions` the loops of the code are recursive
functions over the characters, and `type` and `mark` only produce inputs.

The Ferret compiler, Plans, runtime Sessions and the debugger, the gRPC server, the
JSON-RPC connection, the filesystem, fsnotify and Go contexts are external: they are modelled from the way this
code uses them, and marked so in the map. A call of them may succeed or fail wherever
the code handles both.

## The runs

Run one with `tlc -config X.cfg M`. Every passing run takes well under five minutes.
Deadlock is not checked because each of these systems may stop: once everything is
closed, or the bounded number of calls is used up, nothing is left to do. The liveness
properties look for the unwanted stops.

| Run | Instance | What it shows |
|---|---|---|
| `lifecycle` | 2 creators, 2 closers, 3 channels | `GateSafe`: types, no panic, teardown after the last creator; a published result beats a cancelled context; the close completes; `CreationBarrier` is implemented |
| `execution` | 2 callers, 2 watchers, the code's buffer of 8 | `RunIsContained`: one terminal event, the Plan outlives the run; complete watches that never lag; the close completes |
| `exec_manager` | 2 Sessions, 1 Execution, 1 workspace | `ClosesLeaveNothing`: no registry panic, Plans outlive children, closed workspaces and a closed manager are empty; every child's error is joined; no close waits in a cycle |
| `debug_session` | 2 callers, 1 watcher with a buffer of 2, 3 commands | one command at a time and no inspection beside it; `EndsOnce`: one terminal event, nothing started on a released runtime; every watch ends; the close completes |
| `debug_manager` | 2 creations | `CreationsBalanced`: gates, leases, one compile at a time and no open Plan but the Session's and those about to be closed by the call they were compiled for; `ClosesSettle`: nothing left by the hook or by shutdown; every call returns |
| `workspace_manager` | 3 Opens of one root, 1 Clear | `RegistrySound`: index, registry, loads and watchers agree, abandoned loads stay unpublished; `OpensReturn`: every call returns, without the cancellation of another |
| `daemon` | 2 Stops, 2 RPCs, each an Open, a CreateSession or a health Watch | one cleanup, the runtime closed once and last; a Stop takes the daemon down if no health stream stays open for good |
| `language_service` | 2 requests, versions 1 and 2, 1 workspace, 2 changes of the file or of the workspace | `ServedItsText`: a result was current during its request and an identity names one text; every request returns |
| `rpc_handler` | 4 messages | lifecycle order unless a lifecycle message gave up waiting; `EveryMessageAnswered`: every message ends, a request with one reply |
| `dap_server` | 1 position, at the entry, 2 replacements of breakpoints, 3 stops, a buffer of 3 | nothing overtakes the launch response; a stop is shown, with breakpoints the client knows and an entry stop by those of the start; a handle is answered from its own stop; resources are released children first; `Run` returns and the end is reported |
| `workspace_documents` | 2 sources in a plain directory and 1 in an excluded one, 2 changes, 1 selection | `SettledIsCurrent`: retained documents are what their files read, in watched directories, and selections stay tracked; `RegistrationsFollow`: no watch or entry is left by what failed; a generation names one state; the close completes |
| `source_positions` | texts of up to 5 characters of 7 kinds, or fewer with up to 4 marked spans | offsets, ranges and debugger columns convert back to what they were; the two adapters agree; tokens decode to ordered, disjoint tokens of one line each |

Where a run checks several facts of one idea, the property is their conjunction under
the name given, and each fact is a definition of its own with its comment.

Every module has a type invariant, `TypeOK`, that documents its state. Only that of
`Lifecycle` is part of a run; those of the other proved modules are part of their
inductive invariants. In `SourcePositions`, which has inputs
rather than a state, the assumption on the constants has that place.

Why the bounds are enough. The races are between two actors and one close, so two of
each kind suffice; where a third matters it is there (a third Open finds what the
retry of the second left; a fourth message arrives behind one that was cancelled behind
another). `MaxChannels`, `MaxCommands`, `MaxClears`, `MaxSaves` and `MaxMessages` bound
what would otherwise grow without limit; each is large enough that every kind of
operation also happens after the state it could disturb. The debug watcher's buffer is
made smaller than in the code (`watcherBufferSize`) so that it overflows; the buffer of
an Execution is the code's, because the claim is that it never does.

The DAP server's hard cases need the entry stop, a replacement that overtakes it, and two
later stops: a client may resume from the entry before the adapter has read of it, and
then the adapter, hiding the entry, resumes the second stop, whose handles the third may
answer. With two stops that is out of sight. One position suffices, because identities
differ by installation; the buffer of three lags when none is read. With two positions the
run has 2,046,057 states and no violation. The
filesystem makes two changes, enough to remove a directory and make it again, or to drop
an event and change the file once more: 572,876 states. The inductive invariant of the
documents was checked on larger instances that take too long for a run: with one source,
five changes and two selections (11,786,194 states), enough to make a directory anew twice
around a selection, which is how a rollback takes the watch of a retained document; and with
two sources, four changes and two selections, in an excluded directory (1,762,515) and in a
plain one (30,388,030). The requests of the language service are numbered as they begin,
since nothing else tells them apart. Two changes remove the file and bring it back, or open
a workspace and close it. A root that is opened again is another workspace, since it gets
another identity; with two workspaces there are 3,614,718 states and no violation. Four characters show every case of the position code (a
character, CR, LF, a character); `MaxSize` bounds characters and spans together. `UInt`
stands for 2^32: any modulus greater than a line detects a step back. `Priorities` leaves
out one of the two middle priorities, which the code only compares.

### What does not hold

Some statements one would expect, or that a document makes, are false of the code. They
are defined in the modules and have a configuration of their own; TLC refutes each.

| Statement, configuration | The text | What the trace shows |
|---|---|---|
| `TerminalClosesRuntime`, `DebugSession_TerminalClosesRuntime.cfg` | debugging.md:81, terminal states eventually close the runtime | a completed or failed debug Session holds its runtime until somebody closes it |
| `NothingLeftBehind`, `Daemon_NothingLeftBehind.cfg` | daemon.md:51, no manager resource is left behind | a workspace opened between `Clear` and the drain stays in the stopped daemon |
| `StopFinishes`, `Daemon_StopFinishes.cfg` | daemon.md:52, once stop commits, cleanup proceeds under its own operation | a client keeps a health `Watch` stream open. Nothing on the side of the daemon ends it, `GracefulStop` waits for it (grpc/server.go:104), and the cleanup drains under a context without end: it does not reach the runtime. `serve` waits five seconds and exits (cmd/ferretd/serve.go:95); an embedded daemon does not stop |
| `StaleSuppressed`, `LanguageService_StaleSuppressed.cfg` | language.md:56, stale diagnostics are suppressed | a change between the check and the send |
| `HandlesNeverAlias`, `DapServer_HandlesNeverAlias.cfg` | debugging.md:147, a stale reference cannot alias a later frame or value | a stack trace requested while the entry stop is being hidden allocates handles after the invalidation, from the stop inspected before it. `HandlesKeepTheirStop` shows that this is the only way, and that it happens to the handles of one stop at most |
| `Converges`, `WorkspaceDocuments_Converges.cfg` (module `MCWorkspaceDocuments`) | architecture.md:149, the watcher tracks eligible creations | a file made in a nested directory after it was listed and before it is watched (loader.go:266) stays unknown until it is selected, which the same paragraph allows for |
| `ConcurrentChangesObserved`, `WorkspaceDocuments_ConcurrentChangesObserved.cfg` (module `MCWorkspaceDocuments`) | workspace.md:62, watches are registered so that concurrent changes are observed, and a failed admission rolls back the newly registered ones | a directory is made anew while a source in it is being selected, so the document is retained with the old watch and an event pending; a second selection watches the new directory in place of the old one; the directory is removed again and the selection is cancelled. Its rollback (watch_registration.go:26) removes the watch that replaced another one, so the pending event finds the directory gone and unwatched and is passed over (refresh.go:260): the document stays although its file is gone. The same follows without a cancellation where `addDirectory` has removed the old watch and the backend refuses the new one (watcher.go:88) |

Smaller ones:

- `OrderedUnlessSkipped` says when the lifecycle order of LSP messages holds. Its
  exception is real: a lifecycle request cancelled at its barrier opens the barrier of the
  messages behind it (rpc_handler.go:90), while an earlier notification may still wait.
- A debug Session that two callers resume at once can report a runtime error as
  TERMINATED: the reason of the stop is read before `controlMu` is held
  (session_commands.go:74). The DAP server handles requests one after the other.
- `src/docs/dap.md:66` says that without `stopOnEntry` only the entry suspension is
  suppressed. A client that resumes before the adapter has read of the entry is stopped
  again by then, and the adapter, hiding the entry, resumes that second stop
  (`HandlesKeepTheirStop` and `StopsAreShown` allow for this one stop).
- A debug compilation that was cancelled but returns a Plan all the same leaves it to its
  own caller, which closes it after the lock was given up (exec/session.go:134); by then
  another caller may have compiled the Session's Plan, so two are open for a moment.
- A file that vanishes between the listing of its directory and `entry.Info`, during the
  reconciliation of a nested directory, is taken for the disappearance of the directory:
  its siblings and the watch are dropped until the next event. During a reconciliation of
  the root it is an error that nobody retries; this is the `lost = {}` in the properties.
- `os.SameFile` compares inodes, so a directory made anew with the inode of the old one
  keeps a dead watch. The model gives every directory a fresh inode.
- `TokensDecode` assumes a text without stray continuation bytes. With one at the start of
  a line, inside a token that spans lines, `clampOffset` backs up over the line end and the
  token starts on the line before: its length is wrong, or wraps.
- The DAP client may be told twice that the session terminated, and the watch goroutine is
  not joined, so an event may follow the response to disconnect.

### Fairness

Goroutines the code starts, and calls in progress whose next step is not a wait, are
weakly fair: the Go scheduler runs them. A step that waits for a channel or a lock is
fair in the same sense, since it is taken once enabled. Clients are not fair: nobody has
to start, close or cancel anything, and no context has to end. A query need not end by
itself; only a cancelled run (`Execution`, `ExecManager`) and a command on a closed
debugger (`DebugSession`) must return, which the code relies on when it waits for them.
In `Execution` this is the fairness of `canceled /\ sessionRun`: a close that forgot to
cancel a running query would wait for ever. In `Daemon` the handlers of Open and
CreateSession return, but a client need not leave its health stream; `StopCompletes` has
that as its hypothesis. External calls such as a compile or a hook return. In `DapServer` a termination finishes
and the watch goroutine runs, but the program under debug need not stop and the client
need not read or write; in `WorkspaceDocuments` the holder of the gate goes on and the
run goroutine takes what is pending, while the filesystem promises nothing.

## The proofs

A theorem holds for every value of the constants: any number of callers, Sessions,
watchers or messages, where a run has two or three of each. Each proof module has an
inductive invariant (`IndInv`; `DaemonInv`, `LanguageInv` and `DocumentsInv` for the second
module of a pair), a conjunction of named parts with a comment each; one lemma
per action or group of actions shows that a step preserves it; `Inductive` concludes
`Spec => []IndInv`, from which the theorems follow. TLC checked every invariant before it
was proved.

| Module | Theorem | Statement |
|---|---|---|
| `LifecycleProofs` | `GateIsSafe` | `GateSafe`, the conjunction of the next three, always holds |
| | `TypeCorrect` | `TypeOK` always holds |
| | `PanicFree` | no sequence of callers reaches one of the panics of Gate and CloseOperation |
| | `TeardownIsQuiescent` | no creator is inside while the parent is torn down |
| | `ResultIsShared` | every caller that gets a result gets the published one |
| | `PublishedResultWins` | a waiter that is told "cancelled" was so before the result was there to read |
| | `GateImplementsBarrier` | `Lifecycle` implements `CreationBarrier` |
| | `RuntimeIsLast` | `RuntimeClosedLast`: one cleanup, the runtime closed once and last |
| | `StopSharesResult` | a Stop that gets a result gets that of the finished cleanup |
| `ExecutionProofs` | `RunContained` | `RunIsContained`: one run, one end, before the Plan is closed |
| | `WatchesComplete` | `WatchComplete`: a watch is consecutive, never lags and ends with the terminal event |
| `ExecManagerProofs` | `ClosesAreComplete` | `ClosesLeaveNothing`: no panic, Plans outlive what runs on them, a closed workspace and a closed manager are empty |
| | `EveryResultIsJoined` | `ResultsJoined`: a close result joins that of every child registered when it began |
| `DebugSessionProofs` | `ControlIsExclusive` | `ExclusiveControl`: one command, no inspection beside it |
| | `WatchesComplete` | `WatchComplete`: consecutive, and ended by the terminal event unless it lagged or was cancelled |
| | `TheEndIsFinal` | `EndsOnce`, an action property: one terminal event, nothing started on a released runtime |
| `DebugManagerProofs` | `CreationsHold` | `CreationsBalanced`: each call leaves the gate it entered, the leases are those of the debuggers in use, one call at a time compiles, and a Plan is open exactly if it is the Session's or its own call is about to close it |
| | `ClosesHold` | `ClosesSettle`: a hook or a shutdown that returned has settled every debug Session it covers, and no lease is left |
| `WorkspaceProofs` | `RegistryIsSound` | `RegistrySound`: index, registry, loads and watchers agree |
| | `AnswersTheCaller` | an Open returns a workspace of its root, and a cancellation only if its own context ended |
| | `SettledCurrent` | `SettledIsCurrent`: once no event is pending, retained documents are what their files read, in watched directories, and selections are tracked, as long as `lost` is empty |
| | `Registrations` | `RegistrationsFollow`: the lists name the retained documents, an excluded directory is watched only for a selection |
| | `Generations` | `GenerationsNameStates`, an action property: a changed document gets a generation greater than every earlier one |
| `DapServerProofs` | `LaunchComesFirst` | `LaunchAnsweredFirst`: no stopped or terminated event precedes the answer to launch |
| | `StopsExplained` | `StopsAreExplained`: a stop is reported with breakpoints the client knows, the entry stop with those of the start |
| | `HandlesKeep` | `HandlesKeepTheirStop`: a handle is answered from its own stop, but for the one stop the adapter resumed itself |
| | `StopsShown` | `StopsAreShown`: no stop is lost between the debug Session and the client |
| | `OwnershipHolds` | `OwnershipOrdered`: parents are owned as long as their children, a failed launch leaves the runtime alone |
| `LspProofs` | `LifecycleOrder` | `OrderedUnlessSkipped` |
| | `OneReplyEach` | `AnsweredOnce`: the table holds the requests in progress, the ended ones have one reply |
| | `ServedText` | `ServedItsText`: a request is served an analysis of a text that was current during it, and an identity names one text |

The assumptions are the named ones of the modules. Most say that a name is not another
(`NoneIsNew`, `NamesDiffer`, `ErrorsAreNoOpens`) or that a bound is a number. Four say more.
`CreatorsFinite` and `CreatesFinite`: finitely many calls enter a Gate or take a lease,
since both are counted. `TreeAssumption` and `DocumentsAssumption`: the sources are
finitely many, each in the root or in one of the directories below it; there may be any
number of directories, excluded ones, texts, changes and selections.
`BufferHoldsAll`: the buffer of an Execution's watcher has room for two events, the most
that are published after a subscription; the code has eight. The buffer of a debug
Session's watcher may be any positive number, because there the watch may lag; so may that
of the DAP server, and the positions, stops and replacements may be any.

Why each property needs a stronger invariant:

- **Lifecycle.** The danger is that the worker waits on a channel it read under the lock,
  while creators of a later batch use another one. The counter is the number of creators
  inside (`CounterInv`); the gate has a current channel exactly when somebody is inside,
  and it is not closed (`ChannelInv`); there is one worker and only in a started close
  (`OwnerInv`); the channel the worker captured is the current one unless everybody has
  left (`DrainInv`); nobody waits for a close that has not begun (`WaiterInv`). A close
  that has begun admits no creator, so no later batch exists. The refinement maps the
  creators inside, the close state and the result; every other step stutters.
- **Execution manager.** Three levels close each other, and each level is the same
  argument. What is registered under a parent is in the list its worker will take
  (`ListInv`, `MemberInv`); once it has taken the list, nobody is inside the gate and what
  is not in the list has finished (`CollectInv`, `WorkerInv`). At the top the parent is
  found by name, and groups come and go under that name. `RegisteredInv` says that a group
  with anything in it is the one its workspace ID resolves to: a group is discarded only
  when it holds neither a call nor a Session. So the group CloseWorkspace finds is all that
  is left of the workspace (`HookInv`), and the groups Close captures are all that is left
  of the manager (`ShutdownInv`). A call admitted to a later group finds the workspace
  closing, which is why admission has to precede the lookup.
- **Execution, debug Session.** The events carry consecutive numbers, and a subscription
  holds those after its snapshot that it has not read (`Consecutive`, `Sound`); the
  terminal one closes it. For an Execution the number of an event is tied to the state
  (`SequenceInv`), which bounds what follows a subscription. That the Plan outlives the run
  needs the order in which the close worker cancels, waits and releases (`RunInv`,
  `CloseInv`). Exclusive control of the debugger ties the reservation, the goroutine of
  the command and the state together (`CommandInv`), and `InspectInv` and `EndInv` do so
  for inspections and for the end, which overtakes a command.
- **Workspace manager.** A load counts while its generation is the manager's
  (`GenerationInv`) and its root is reserved for it (`OpeningInv`); what a workspace has,
  watcher and index entry, follows from the phase of its load and of its close
  (`PhaseInv`, `CloseInv`); a waiter's answer is its load's (`AnswerInv`).
- **Debug manager.** `finishCreate` looks its group up a second time, by name. That is
  right because every call in progress is inside the gate of the group registered now
  (`CreatorInv`), so nobody can discard it; and a debug Session whose close has not settled
  is a member of that group, still to be closed by its worker or waited for (`MemberInv`).
  A worker past its drain has no creator left (`WorkerInv`). A hook and a shutdown look
  the group up once; what is still busy is in the group they found (`HookInv`,
  `ShutdownInv`). There is one compile at a time and none beside the Session's Plan,
  and what else is open was compiled with an error, for a call that will close it
  (`PlanInv`).
- **Workspace documents.** `SettledIsCurrent` speaks of moments when nothing is pending. In
  between, every source is current or accounted for (`ServedInv`): an event for it is
  pending, or the run goroutine is reconciling it. What an operation publishes is right
  because of what it has seen so far (`OperationInv`): a source it listed or is about to
  read is in a watched directory, and what it read is still so, or an event is pending; a
  selection adds a watch only where the present one is dead. An event for a remade
  directory counts only while the directory has a watch entry, since one that is gone and
  unwatched is passed over. While a directory
  is being registered its old watch is gone and the new one is on the inode seen at the
  start (`RegisteringInv`); a source whose watch the operation has taken, and not given
  back, is excused until the operation ends, when `lost` records it (`Taken`, `Released`).
  A rollback leaves the root alone (`RollbackInv`), and an
  excluded directory has a watch for a selection or for the operation that will either
  commit it or roll it back (`JustifiedInv`). The proof found the case in which the first
  form of the property fails, that of `ConcurrentChangesObserved` above; the run's bounds
  were too small for it. The generations need a count of the changed documents and are
  proved last, with the counter's type as an invariant of its own.
- **Language service.** A request works on a snapshot it took under one lock and used under
  another. `since` holds every source that was current during the request; the present one
  is among them, and so is the one whose analysis it waits for (`SinceInv`). That an
  identity names one text needs that a snapshot a request or a cache entry carries is a
  past state of the overlay or of the file in one workspace (`SnapInv`, `EntryInv`), and that
  identities are handed out in order, by the service for its overlays and by each workspace
  for its documents (`NumberInv`). The generation of a workspace goes on when the file is
  dropped, which is what keeps a file that returns from taking an old identity.
- **Daemon.** Whoever leaves an earlier state for "stopping" either starts the cleanup or
  leaves it to the Start in progress (`OwnerInv`); what the cleanup is told about listener
  and server is right (`ListenerInv`, `ServerInv`); each step it has passed stays true
  while Serve and the RPCs go on (`PassedInv`).
- **LSP dispatch.** The tail of the chain is the last lifecycle message read (`TailInv`),
  so the barrier of a message is the nearest lifecycle message before it (`BarrierInv`);
  the order of all of them follows along the chain (`OrderInv`), unless one was skipped.
- **DAP server.** Breakpoint identities are retired, not dropped, while a command is
  pending, so the proof counts: a queued stop is at most as many stops behind the program
  as there are pending commands (`Covered` in `TableInv`). When the last pending command is
  settled no queued stop has hits, and the retired identities may go. The events in the
  channel are numbered, in order, and the end is last (`QueueInv`); the entry stop is in
  the channel or still to come exactly while the initial stop is frozen with the bindings
  of the start (`EntryInv`); a handle, or an inspection under way, belongs to the current
  stop or to the one the adapter resumed (`HandleInv`). What is owned follows from the step
  that launch or cleanup is at (`OwnInv`). The attempt to prove the first form of
  `HandlesKeepTheirStop`, which named the suppressed entry itself, failed on the case
  described under the bounds; the property now names the stop that was resumed.

`ExecManager` and `DebugManager` use a Gate by its abstract description. That is what
`GateImplementsBarrier` justifies.

Only model-checked:

- all liveness, since fairness and ENABLED are outside the prover;
- `SourcePositions`, whose operators recurse over a text: what they compute for every
  input needs an induction the prover cannot do;
- that the statements under "What does not hold" fail, which takes a trace.

## Not modelled

- Conversions between protobuf, LSP, DAP and internal values, error texts, logging,
  flag parsing; the language features other than semantic tokens, which are pure
  functions of one analysis; URIs and paths.
- What a query computes, and what inspection returns. The DAP server's tombstones, which
  only choose between an empty answer and an error for a handle that is gone.
- The local transport. Reclaiming a stale socket is a check and a removal by different
  processes with no lock between them, and nothing in the repository says what two daemons
  started at once may expect.
- Deeper directory trees, symbolic links and permissions in the workspace; the walk treats
  every level alike.
- Generated code, the client facade over it, and the build-time tool in `tools/`.

## Plan

Next theorem: that the gates of `ExecManager` implement `CreationBarrier` inside the
manager too. A composition of workspace, Session and debug closes, with the hooks as real
calls, is the model still missing.
