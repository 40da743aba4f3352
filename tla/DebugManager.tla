---------------------------- MODULE DebugManager ----------------------------
(***************************************************************************)
(* internal/debug.Manager over one execution Session of internal/exec: the *)
(* lazily compiled debug Plan and its leases, the group of debug Sessions, *)
(* and their close by a client, by the Session's close hook and by         *)
(* shutdown.  Two gates guard a creation, the group's outside the          *)
(* Session's.  Groups of different parents share nothing but the closed    *)
(* flag, so one parent is enough.  A debug Session, the Plan it may        *)
(* compile and the group it may allocate are named by the CreateSession    *)
(* call that makes them.                                                   *)
(***************************************************************************)
EXTENDS Naturals, FiniteSets

CONSTANTS Creates, None

ASSUME NoneIsNoCreate == None \notin Creates
ASSUME CreatesFinite == IsFiniteSet(Creates)

VARIABLES
  closed,     \* debug.Manager.closed
  shutdown,   \* debug.Manager.Close: "none", "closing", "waiting", "done"
  shutGroup,  \* the group it waits for, or None
  group,      \* debug.Manager.groups[parent], or None
  gate,       \* group.gate: "open", "closing", "closed"
  creators,   \* calls inside that gate
  members,    \* group.sessions
  gworker,    \* finishExecutionSessionClose: program counter
  todo,       \* debug Sessions it has still to close
  current,    \* debug Session it waits for
  create,     \* CreateSession: program counter
  waitOn,     \* compile whose done channel the call waits for
  session,    \* "none", "open" (sessions), "closing", "gone"
  dclose,     \* debug Session close: "idle", "started", "finished"
  dworker,    \* finishSessionClose: program counter
  runtime,    \* DebugRuntime: "none", "open", "closed"
  entry,      \* execution Session's registry entry: "active", "closing"
  inside,     \* calls inside session.children
  xworker,    \* exec finishSessionClose from the hooks on: program counter
  hookGroup,  \* the group the hook waits for, or None
  compiler,   \* call that is compiling the debug Plan, or None
  debugPlan,  \* session.debugPlan, or None
  failed,     \* session.debugCompileFailed
  plan,       \* per compile: "none", "open", "closed"
  leases,     \* session.debugRuntimes
  misplaced   \* a gate was left by a call that is not inside it

managerVars == <<closed, shutdown, shutGroup>>
groupVars == <<group, gate, creators, members, gworker, todo, current>>
createVars == <<create, waitOn>>
closeVars == <<session, dclose, dworker>>
execVars == <<entry, inside, xworker, hookGroup>>
planVars == <<compiler, debugPlan, failed, plan, leases>>
vars == <<managerVars, groupVars, createVars, closeVars, runtime, execVars, planVars, misplaced>>

Init ==
  /\ closed = FALSE /\ shutdown = "none" /\ shutGroup = None
  /\ group = None
  /\ gate = [g \in Creates |-> "open"]
  /\ creators = [g \in Creates |-> {}]
  /\ members = [g \in Creates |-> {}]
  /\ gworker = [g \in Creates |-> "none"]
  /\ todo = [g \in Creates |-> {}]
  /\ current = [g \in Creates |-> None]
  /\ create = [d \in Creates |-> "idle"]
  /\ waitOn = [d \in Creates |-> None]
  /\ session = [d \in Creates |-> "none"]
  /\ dclose = [d \in Creates |-> "idle"]
  /\ dworker = [d \in Creates |-> "none"]
  /\ runtime = [d \in Creates |-> "none"]
  /\ entry = "active" /\ inside = {} /\ xworker = "none" /\ hookGroup = None
  /\ compiler = None /\ debugPlan = None /\ failed = FALSE
  /\ plan = [d \in Creates |-> "none"]
  /\ leases = 0
  /\ misplaced = FALSE

Accepting(g) == gate[g] = "open"
-----------------------------------------------------------------------------
(* CreateSession *)

\* debug.Manager.beginCreate
beginCreate(d) ==
  /\ create[d] = "idle"
  /\ LET g == IF group = None THEN d ELSE group IN
       IF closed \/ ~Accepting(g)
       THEN create' = [create EXCEPT ![d] = "ended"] /\ UNCHANGED <<group, creators>>
       ELSE /\ create' = [create EXCEPT ![d] = "begun"]
            /\ group' = g
            /\ creators' = [creators EXCEPT ![g] = @ \cup {d}]
  /\ UNCHANGED <<managerVars, gate, members, gworker, todo, current, waitOn, closeVars, runtime,
                 execVars, planVars, misplaced>>

\* exec beginRuntimeCreate
beginRuntimeCreate(d) ==
  /\ create[d] = "begun"
  /\ IF entry = "active"
     THEN create' = [create EXCEPT ![d] = "acquire"] /\ inside' = inside \cup {d}
     ELSE create' = [create EXCEPT ![d] = "leave"] /\ UNCHANGED inside
  /\ UNCHANGED <<managerVars, groupVars, waitOn, closeVars, runtime, entry, xworker, hookGroup,
                 planVars, misplaced>>

\* acquireDebugRuntimeTarget up to an unlock: refuse, lease, wait or compile.
acquire(d) ==
  /\ create[d] = "acquire"
  /\ \/ /\ entry # "active" \/ (debugPlan = None /\ failed)
        /\ create' = [create EXCEPT ![d] = "exit"]
        /\ UNCHANGED <<waitOn, compiler, leases>>
     \/ /\ entry = "active" /\ debugPlan # None
        /\ create' = [create EXCEPT ![d] = "leased"]
        /\ leases' = leases + 1
        /\ UNCHANGED <<waitOn, compiler>>
     \/ /\ entry = "active" /\ debugPlan = None /\ ~failed /\ compiler # None
        /\ create' = [create EXCEPT ![d] = "wait"]
        /\ waitOn' = [waitOn EXCEPT ![d] = compiler]
        /\ UNCHANGED <<compiler, leases>>
     \/ /\ entry = "active" /\ debugPlan = None /\ ~failed /\ compiler = None
        /\ create' = [create EXCEPT ![d] = "compile"]
        /\ compiler' = d
        /\ UNCHANGED <<waitOn, leases>>
  /\ UNCHANGED <<managerVars, groupVars, closeVars, runtime, execVars, debugPlan, failed, plan,
                 misplaced>>

\* Wake on the captured done channel.
wake(d) ==
  /\ create[d] = "wait"
  /\ compiler # waitOn[d]
  /\ create' = [create EXCEPT ![d] = "acquire"]
  /\ waitOn' = [waitOn EXCEPT ![d] = None]
  /\ UNCHANGED <<managerVars, groupVars, closeVars, runtime, execVars, planVars, misplaced>>

\* The request is cancelled while it waits.
cancelWait(d) ==
  /\ create[d] = "wait"
  /\ create' = [create EXCEPT ![d] = "exit"]
  /\ waitOn' = [waitOn EXCEPT ![d] = None]
  /\ UNCHANGED <<managerVars, groupVars, closeVars, runtime, execVars, planVars, misplaced>>

\* Mutant: the compiling call fails without closing the done channel.
CompiledSilent(d) ==
  /\ create[d] = "compile"
  /\ create' = [create EXCEPT ![d] = "exit"]
  /\ UNCHANGED <<managerVars, groupVars, waitOn, closeVars, runtime, execVars, planVars,
                 misplaced>>

\* The compilation returned: publish and lease the Plan; or, on an error or with the
\* Session closing, close the Plan there may be.  An error other than the caller's
\* cancellation is retained.
compiled(d) ==
  /\ create[d] = "compile"
  /\ compiler' = None
  /\ \/ /\ entry = "active"
        /\ plan' = [plan EXCEPT ![d] = "open"]
        /\ debugPlan' = d
        /\ leases' = leases + 1
        /\ create' = [create EXCEPT ![d] = "leased"]
        /\ UNCHANGED failed
     \/ /\ failed' \in {failed, TRUE}
        /\ plan' = [plan EXCEPT ![d] = "open"]
        /\ create' = [create EXCEPT ![d] = "discard"]
        /\ UNCHANGED <<debugPlan, leases>>
     \/ /\ failed' \in {failed, TRUE}
        /\ create' = [create EXCEPT ![d] = "exit"]
        /\ UNCHANGED <<plan, debugPlan, leases>>
  /\ UNCHANGED <<managerVars, groupVars, waitOn, closeVars, runtime, execVars, misplaced>>

discardPlan(d) ==
  /\ create[d] = "discard"
  /\ create' = [create EXCEPT ![d] = "exit"]
  /\ plan' = [plan EXCEPT ![d] = "closed"]
  /\ UNCHANGED <<managerVars, groupVars, waitOn, closeVars, runtime, execVars, compiler,
                 debugPlan, failed, leases, misplaced>>

\* CreateDebugRuntime: NewDebugSession succeeds, or the lease is released.
newDebugSession(d) ==
  /\ create[d] = "leased"
  /\ create' = [create EXCEPT ![d] = "exit"]
  /\ \/ runtime' = [runtime EXCEPT ![d] = "open"] /\ UNCHANGED leases
     \/ leases' = leases - 1 /\ UNCHANGED runtime
  /\ UNCHANGED <<managerVars, groupVars, waitOn, closeVars, execVars, compiler, debugPlan,
                 failed, plan, misplaced>>

\* creation.finish leaves the Session's gate when CreateDebugRuntime returns.
finishRuntimeCreate(d) ==
  /\ create[d] = "exit"
  /\ create' = [create EXCEPT ![d] = IF runtime[d] = "open" THEN "publish" ELSE "leave"]
  /\ inside' = inside \ {d}
  /\ UNCHANGED <<managerVars, groupVars, waitOn, closeVars, runtime, entry, xworker, hookGroup,
                 planVars, misplaced>>

\* Mutant: the debug Session is published but not added to its group.
PublishOutsideGroup(d) ==
  /\ create[d] = "publish"
  /\ create' = [create EXCEPT ![d] = "leave"]
  /\ session' = [session EXCEPT ![d] = "open"]
  /\ UNCHANGED <<managerVars, groupVars, waitOn, dclose, dworker, runtime, execVars, planVars,
                 misplaced>>

\* CreateSession publishes the debug Session, or closes the runtime at once.
publish(d) ==
  /\ create[d] = "publish"
  /\ IF closed \/ group = None \/ (group # None /\ ~Accepting(group))
     THEN /\ create' = [create EXCEPT ![d] = "undo"]
          /\ UNCHANGED <<session, members>>
     ELSE /\ create' = [create EXCEPT ![d] = "leave"]
          /\ session' = [session EXCEPT ![d] = "open"]
          /\ members' = [members EXCEPT ![group] = @ \cup {d}]
  /\ UNCHANGED <<managerVars, group, gate, creators, gworker, todo, current, waitOn, dclose,
                 dworker, runtime, execVars, planVars, misplaced>>

\* DebugRuntime.Close: close the debugger once and release the lease once.
closeRuntime(d) ==
  IF runtime[d] = "open"
  THEN runtime' = [runtime EXCEPT ![d] = "closed"] /\ leases' = leases - 1
  ELSE UNCHANGED <<runtime, leases>>

undo(d) ==
  /\ create[d] = "undo"
  /\ create' = [create EXCEPT ![d] = "leave"]
  /\ closeRuntime(d)
  /\ UNCHANGED <<managerVars, groupVars, waitOn, closeVars, execVars, compiler, debugPlan,
                 failed, plan, misplaced>>

\* debug.Manager.finishCreate looks the group up again by its parent ID.
finishCreate(d) ==
  /\ create[d] = "leave"
  /\ create' = [create EXCEPT ![d] = "ended"]
  /\ IF group = None THEN UNCHANGED <<group, creators, misplaced>>
     ELSE /\ creators' = [creators EXCEPT ![group] = @ \ {d}]
          /\ misplaced' = (misplaced \/ d \notin creators[group])
          /\ group' = IF creators'[group] = {} /\ Accepting(group) /\ members[group] = {}
                      THEN None ELSE group
  /\ UNCHANGED <<managerVars, gate, members, gworker, todo, current, waitOn, closeVars, runtime,
                 execVars, planVars>>
-----------------------------------------------------------------------------
(* Close of a debug Session *)

\* TerminateSession closes the runtime and keeps the Session.
TerminateSession(d) ==
  /\ session[d] = "open"
  /\ runtime[d] = "open"
  /\ closeRuntime(d)
  /\ UNCHANGED <<managerVars, groupVars, createVars, closeVars, execVars, compiler, debugPlan,
                 failed, plan, misplaced>>

\* detachSession and beginClose.
detachSession(d) ==
  /\ session' = [session EXCEPT ![d] = "closing"]
  /\ dclose' = [dclose EXCEPT ![d] = "started"]
  /\ dworker' = [dworker EXCEPT ![d] = "settle"]

CloseSession(d) ==
  /\ session[d] = "open"
  /\ detachSession(d)
  /\ UNCHANGED <<managerVars, groupVars, createVars, runtime, execVars, planVars, misplaced>>

\* settleClose and completeClose.
settle(d) ==
  /\ dworker[d] = "settle"
  /\ dworker' = [dworker EXCEPT ![d] = "forget"]
  /\ dclose' = [dclose EXCEPT ![d] = "finished"]
  /\ closeRuntime(d)
  /\ UNCHANGED <<managerVars, groupVars, createVars, session, execVars, compiler, debugPlan,
                 failed, plan, misplaced>>

\* Mutant: an empty group is discarded although creators are inside its gate.
ForgetBusyGroup(d) ==
  /\ dworker[d] = "forget"
  /\ dworker' = [dworker EXCEPT ![d] = "done"]
  /\ session' = [session EXCEPT ![d] = "gone"]
  /\ IF group = None THEN UNCHANGED <<group, members>>
     ELSE /\ members' = [members EXCEPT ![group] = @ \ {d}]
          /\ group' = IF Accepting(group) /\ members'[group] = {} THEN None ELSE group
  /\ UNCHANGED <<managerVars, gate, creators, gworker, todo, current, createVars, dclose,
                 runtime, execVars, planVars, misplaced>>

\* finishSessionClose: leave the group and, if it is unused, discard it.
forget(d) ==
  /\ dworker[d] = "forget"
  /\ dworker' = [dworker EXCEPT ![d] = "done"]
  /\ session' = [session EXCEPT ![d] = "gone"]
  /\ IF group = None THEN UNCHANGED <<group, members>>
     ELSE /\ members' = [members EXCEPT ![group] = @ \ {d}]
          /\ group' = IF Accepting(group) /\ creators[group] = {} /\ members'[group] = {}
                      THEN None ELSE group
  /\ UNCHANGED <<managerVars, gate, creators, gworker, todo, current, createVars, dclose,
                 runtime, execVars, planVars, misplaced>>
-----------------------------------------------------------------------------
(* closeExecutionSession, by the Session's close hook or by shutdown *)

closeExecutionSession ==
  IF group # None /\ Accepting(group)
  THEN /\ gate' = [gate EXCEPT ![group] = "closing"]
       /\ gworker' = [gworker EXCEPT ![group] = "drain"]
  ELSE UNCHANGED <<gate, gworker>>

\* WaitForCreates, then capture the members.
retained(g) ==
  /\ gworker[g] = "drain"
  /\ creators[g] = {}
  /\ gworker' = [gworker EXCEPT ![g] = "close"]
  /\ todo' = [todo EXCEPT ![g] = members[g]]
  /\ UNCHANGED <<managerVars, group, gate, creators, members, current, createVars, closeVars,
                 runtime, execVars, planVars, misplaced>>

\* CloseSession on a captured member; one that is gone has nothing to wait for.
closeMember(g, d) ==
  /\ gworker[g] = "close"
  /\ current[g] = None
  /\ d \in todo[g]
  /\ todo' = [todo EXCEPT ![g] = @ \ {d}]
  /\ current' = [current EXCEPT ![g] = IF session[d] = "gone" THEN None ELSE d]
  /\ IF session[d] = "open" THEN detachSession(d) ELSE UNCHANGED closeVars
  /\ UNCHANGED <<managerVars, group, gate, creators, members, gworker, createVars, runtime,
                 execVars, planVars, misplaced>>

memberClosed(g) ==
  /\ current[g] # None
  /\ dclose[current[g]] = "finished"
  /\ current' = [current EXCEPT ![g] = None]
  /\ UNCHANGED <<managerVars, group, gate, creators, members, gworker, todo, createVars,
                 closeVars, runtime, execVars, planVars, misplaced>>

\* FinishClose wakes the waiters; the group is unregistered afterwards.
finishGroup(g) ==
  /\ gworker[g] = "close"
  /\ todo[g] = {} /\ current[g] = None
  /\ gworker' = [gworker EXCEPT ![g] = "unregister"]
  /\ gate' = [gate EXCEPT ![g] = "closed"]
  /\ misplaced' = (misplaced \/ creators[g] # {})
  /\ UNCHANGED <<managerVars, group, creators, members, todo, current, createVars, closeVars,
                 runtime, execVars, planVars>>

unregister(g) ==
  /\ gworker[g] = "unregister"
  /\ gworker' = [gworker EXCEPT ![g] = "done"]
  /\ group' = IF group = g THEN None ELSE group
  /\ UNCHANGED <<managerVars, gate, creators, members, todo, current, createVars, closeVars,
                 runtime, execVars, planVars, misplaced>>

\* debug.Manager.Close refuses new Sessions and notes the parent IDs.
beginShutdown ==
  /\ shutdown = "none"
  /\ shutdown' = "closing"
  /\ closed' = TRUE
  /\ UNCHANGED <<shutGroup, groupVars, createVars, closeVars, runtime, execVars, planVars,
                 misplaced>>

\* It then closes the group it still finds under each of them.
shutdownGroup ==
  /\ shutdown = "closing"
  /\ shutdown' = "waiting"
  /\ shutGroup' = group
  /\ closeExecutionSession
  /\ UNCHANGED <<closed, group, creators, members, todo, current, createVars, closeVars,
                 runtime, execVars, planVars, misplaced>>

shutdownReturned ==
  /\ shutdown = "waiting"
  /\ shutGroup = None \/ (shutGroup # None /\ gate[shutGroup] = "closed")
  /\ shutdown' = "done"
  /\ UNCHANGED <<closed, shutGroup, groupVars, createVars, closeVars, runtime, execVars,
                 planVars, misplaced>>
-----------------------------------------------------------------------------
(* Close of the execution Session *)

closeSession ==
  /\ entry = "active"
  /\ entry' = "closing"
  /\ xworker' = "drain"
  /\ UNCHANGED <<managerVars, groupVars, createVars, closeVars, runtime, inside, hookGroup,
                 planVars, misplaced>>

\* waitForRuntimeCreates, then the hook closes the group it finds.
hook ==
  /\ xworker = "drain"
  /\ inside = {}
  /\ xworker' = "hook"
  /\ hookGroup' = group
  /\ closeExecutionSession
  /\ UNCHANGED <<managerVars, group, creators, members, todo, current, createVars, closeVars,
                 runtime, entry, inside, planVars, misplaced>>

hookReturned ==
  /\ xworker = "hook"
  /\ hookGroup = None \/ (hookGroup # None /\ gate[hookGroup] = "closed")
  /\ xworker' = "release"
  /\ UNCHANGED <<managerVars, groupVars, createVars, closeVars, runtime, entry, inside,
                 hookGroup, planVars, misplaced>>

\* releasePlans waits for a compilation and for the leases, then the Plan is
\* closed and the Session's close published.
releasePlans ==
  /\ xworker = "release"
  /\ compiler = None /\ leases = 0
  /\ xworker' = "done"
  /\ debugPlan' = None
  /\ plan' = [d \in Creates |-> IF d = debugPlan THEN "closed" ELSE plan[d]]
  /\ UNCHANGED <<managerVars, groupVars, createVars, closeVars, runtime, entry, inside,
                 hookGroup, compiler, failed, leases, misplaced>>
-----------------------------------------------------------------------------
createStep(d) ==
  \/ beginRuntimeCreate(d) \/ acquire(d) \/ wake(d) \/ compiled(d) \/ discardPlan(d)
  \/ newDebugSession(d) \/ finishRuntimeCreate(d) \/ publish(d) \/ undo(d) \/ finishCreate(d)

closeStep(d) == settle(d) \/ forget(d)

groupStep(g) ==
  \/ retained(g)
  \/ \E d \in Creates : closeMember(g, d)
  \/ memberClosed(g)
  \/ finishGroup(g)
  \/ unregister(g)

sessionStep == hook \/ hookReturned \/ releasePlans

Next ==
  \/ \E d \in Creates : \/ beginCreate(d) \/ createStep(d) \/ cancelWait(d)
                        \/ TerminateSession(d) \/ CloseSession(d) \/ closeStep(d)
                        \/ groupStep(d)
  \/ beginShutdown
  \/ shutdownGroup
  \/ shutdownReturned
  \/ closeSession
  \/ sessionStep

Spec == Init /\ [][Next]_vars

\* Calls in progress and the workers run on; clients promise nothing.
Fairness ==
  /\ \A d \in Creates :
       WF_vars(createStep(d)) /\ WF_vars(closeStep(d)) /\ WF_vars(groupStep(d))
  /\ WF_vars(sessionStep)
  /\ WF_vars(shutdownGroup \/ shutdownReturned)

FairSpec == Spec /\ Fairness
-----------------------------------------------------------------------------
(* Properties *)

CreatePC == {"idle", "begun", "acquire", "wait", "compile", "discard", "leased", "exit",
             "publish", "undo", "leave", "ended"}

\* Every variable ranges over the values of the managers' maps and workers.
TypeOK ==
  /\ closed \in BOOLEAN
  /\ shutdown \in {"none", "closing", "waiting", "done"}
  /\ {shutGroup, group, hookGroup, compiler, debugPlan} \subseteq Creates \cup {None}
  /\ gate \in [Creates -> {"open", "closing", "closed"}]
  /\ creators \in [Creates -> SUBSET Creates]
  /\ members \in [Creates -> SUBSET Creates]
  /\ gworker \in [Creates -> {"none", "drain", "close", "unregister", "done"}]
  /\ todo \in [Creates -> SUBSET Creates]
  /\ current \in [Creates -> Creates \cup {None}]
  /\ create \in [Creates -> CreatePC]
  /\ waitOn \in [Creates -> Creates \cup {None}]
  /\ session \in [Creates -> {"none", "open", "closing", "gone"}]
  /\ dclose \in [Creates -> {"idle", "started", "finished"}]
  /\ dworker \in [Creates -> {"none", "settle", "forget", "done"}]
  /\ runtime \in [Creates -> {"none", "open", "closed"}]
  /\ entry \in {"active", "closing"}
  /\ inside \subseteq Creates
  /\ xworker \in {"none", "drain", "hook", "release", "done"}
  /\ failed \in BOOLEAN
  /\ plan \in [Creates -> {"none", "open", "closed"}]
  /\ leases \in 0..Cardinality(Creates)
  /\ misplaced \in BOOLEAN

\* finishCreate, which looks its group up a second time, always finds the group
\* the call entered, and no group closes over a creator.
GatesBalanced == ~misplaced

\* The leases are exactly the debuggers in use or about to be created.
LeasesBalanced ==
  leases = Cardinality({d \in Creates : create[d] = "leased" \/ runtime[d] = "open"})

\* Concurrent requests converge on one debug Plan: one compilation at a time, and the
\* open Plans are the Session's and those whose own call is about to close them.
OneDebugPlan ==
  /\ Cardinality({d \in Creates : create[d] = "compile"}) <= 1
  /\ \A d \in Creates : plan[d] = "open" <=> d = debugPlan \/ create[d] = "discard"

\* When the Session's close hook returned, no debug Session of it is reachable
\* and no lease is held, so releasePlans has nothing to wait for.
HookSettles ==
  xworker \in {"release", "done"} =>
    leases = 0 /\ compiler = None /\ \A d \in Creates : session[d] # "open"

\* When debug.Manager.Close returned, no debug Session is reachable, no runtime
\* open, and none will be.
ShutdownIsComplete ==
  shutdown = "done" =>
    \A d \in Creates : session[d] # "open" /\ runtime[d] # "open" /\ create[d] # "leased"

\* The execution Session's close completes through the hook, and every
\* CreateSession call returns, one waiting for another's compile included.
CallsReturn ==
  /\ entry = "closing" ~> xworker = "done"
  /\ \A d \in Creates : create[d] = "begun" ~> create[d] = "ended"

\* What a creation takes it gives back or hands to its debug Session, whatever
\* fails and whatever closes meanwhile: its place in the group it entered, its
\* lease, and the one debug Plan.
CreationsBalanced == GatesBalanced /\ LeasesBalanced /\ OneDebugPlan

\* A hook or a shutdown that returned has settled every debug Session it covers.
ClosesSettle == HookSettles /\ ShutdownIsComplete
=============================================================================
