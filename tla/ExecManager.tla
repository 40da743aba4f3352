----------------------------- MODULE ExecManager -----------------------------
(***************************************************************************)
(* internal/exec.Manager: the session and execution registries, and the    *)
(* cascading close workspace -> Session -> Execution, under the workspace  *)
(* manager's close hook and under service shutdown.  A critical section of *)
(* a registry mutex is one action; a close worker is a goroutine with a    *)
(* program counter.  A Gate is its set of admitted creators and a phase,   *)
(* which is what Lifecycle is shown to implement (CreationBarrier).        *)
(*                                                                         *)
(* A Session is named by the CreateSession call that makes it, an          *)
(* Execution by its CreateExecution call, and a workspaceGroup object by   *)
(* the call that allocates it: groups come and go under one workspace ID.  *)
(***************************************************************************)
EXTENDS Naturals, FiniteSets

CONSTANTS Workspaces, Sessions, Executions, None

ASSUME NoneIsNew == None \notin Workspaces \cup Sessions \cup Executions
ASSUME NamesDiffer == Workspaces \cap Sessions = {}

Groups == Sessions \cup Workspaces

VARIABLES
  ws,         \* workspace.Manager's entry: "active", "closing", "hook", "closed"
  hookGroup,  \* the group the workspace's close hook waits for
  closed,     \* sessionRegistry.closed
  shutdown,   \* Manager.Close: "none", "waiting", "done"
  awaited,    \* groups captured by Manager.Close
  groups,     \* sessionRegistry.groups: workspace -> group or None
  gate,       \* workspaceGroup.gate: "new", "open", "closing", "closed"
  creators,   \* CreateSession calls inside the group's gate
  members,    \* workspaceGroup.sessions
  gworker,    \* finishWorkspaceClose: program counter
  todo,       \* retained Sessions it has still to close
  current,    \* Session it is waiting for
  gjoined,    \* Sessions whose close result it joined
  create,     \* CreateSession: program counter
  wsOf,       \* workspace of the CreateSession call
  groupOf,    \* sessionCreation.group
  entry,      \* sessionRegistry entry: "none", "active", "closing", "removed"
  children,   \* session.children gate: "open", "closing", "closed"
  inside,     \* runtime creators inside that gate
  plan,       \* session.plan: "none", "open", "closed"
  sworker,    \* finishSessionClose: program counter
  kids,       \* executions.beginSessionClose result
  sjoined,    \* Executions whose close result it joined
  xgroup,     \* bySession: [state : none/active/closing, entries]
  launch,     \* CreateExecution: program counter
  parent,     \* Session of the CreateExecution call
  xentry,     \* executionRegistry entry, as entry
  run,        \* execution.state: "none", "created", "running", "terminal"
  xclose,     \* Execution CloseOperation: "idle", "started", "finished"
  xworker,    \* finishExecutionClose: program counter
  owedX,      \* history: Executions registered when their Session began to close
  owedS,      \* history: Sessions registered when their group began to close
  panicked    \* an invariant panic of the registries was reached

wsVars == <<ws, hookGroup, closed, shutdown, awaited>>
groupVars == <<groups, gate, creators, members, gworker, todo, current, gjoined, owedS>>
createVars == <<create, wsOf, groupOf>>
sessionVars == <<entry, children, inside, plan, sworker, kids, sjoined, owedX>>
execVars == <<launch, parent, xentry, run, xclose, xworker>>
vars == <<wsVars, groupVars, createVars, sessionVars, xgroup, execVars, panicked>>

NoGroup == [state |-> "none", entries |-> {}]

Init ==
  /\ ws = [w \in Workspaces |-> "active"]
  /\ hookGroup = [w \in Workspaces |-> None]
  /\ closed = FALSE /\ shutdown = "none" /\ awaited = {}
  /\ groups = [w \in Workspaces |-> None]
  /\ gate = [g \in Groups |-> "new"]
  /\ creators = [g \in Groups |-> {}]
  /\ members = [g \in Groups |-> {}]
  /\ gworker = [g \in Groups |-> "none"]
  /\ todo = [g \in Groups |-> {}]
  /\ current = [g \in Groups |-> None]
  /\ gjoined = [g \in Groups |-> {}]
  /\ owedS = [g \in Groups |-> {}]
  /\ create = [s \in Sessions |-> "idle"]
  /\ wsOf = [s \in Sessions |-> None]
  /\ groupOf = [s \in Sessions |-> None]
  /\ entry = [s \in Sessions |-> "none"]
  /\ children = [s \in Sessions |-> "open"]
  /\ inside = [s \in Sessions |-> {}]
  /\ plan = [s \in Sessions |-> "none"]
  /\ sworker = [s \in Sessions |-> "none"]
  /\ kids = [s \in Sessions |-> {}]
  /\ sjoined = [s \in Sessions |-> {}]
  /\ owedX = [s \in Sessions |-> {}]
  /\ xgroup = [s \in Sessions |-> NoGroup]
  /\ launch = [e \in Executions |-> "idle"]
  /\ parent = [e \in Executions |-> None]
  /\ xentry = [e \in Executions |-> "none"]
  /\ run = [e \in Executions |-> "none"]
  /\ xclose = [e \in Executions |-> "idle"]
  /\ xworker = [e \in Executions |-> "none"]
  /\ panicked = FALSE

\* The group registered for w, or a new one made by the caller.
GroupFor(w, caller) == IF groups[w] = None THEN caller ELSE groups[w]
Accepting(g) == gate[g] \in {"new", "open"}
Registered(x) == x \in {"active", "closing"}
-----------------------------------------------------------------------------
(* CreateSession *)

\* sessionRegistry.beginCreate
beginCreate(s, w) ==
  /\ create[s] = "idle"
  /\ wsOf' = [wsOf EXCEPT ![s] = w]
  /\ LET g == GroupFor(w, s) IN
       IF closed \/ ~Accepting(g)
       THEN /\ create' = [create EXCEPT ![s] = "ended"]
            /\ UNCHANGED <<groupVars, groupOf>>
       ELSE /\ create' = [create EXCEPT ![s] = "admitted"]
            /\ groupOf' = [groupOf EXCEPT ![s] = g]
            /\ groups' = [groups EXCEPT ![w] = g]
            /\ gate' = [gate EXCEPT ![g] = "open"]
            /\ creators' = [creators EXCEPT ![g] = @ \cup {s}]
            /\ UNCHANGED <<members, gworker, todo, current, gjoined, owedS>>
  /\ UNCHANGED <<wsVars, sessionVars, xgroup, execVars, panicked>>

\* Mutant: the workspace is looked up before admission, and not after it.
PrepareUnchecked(s) ==
  /\ create[s] = "admitted"
  /\ create' = [create EXCEPT ![s] = "compiling"]
  /\ UNCHANGED <<wsVars, groupVars, wsOf, groupOf, sessionVars, xgroup, execVars, panicked>>

\* prepareSession: workspaces.Get, then RefreshDocument.
prepareSession(s) ==
  /\ create[s] = "admitted"
  /\ create' = [create EXCEPT ![s] =
                  IF ws[wsOf[s]] = "active" THEN "compiling" ELSE "leaving"]
  /\ UNCHANGED <<wsVars, groupVars, wsOf, groupOf, sessionVars, xgroup, execVars, panicked>>

\* prepareSession: Compile makes a Plan, or the call fails and leaves none open.
compile(s) ==
  /\ create[s] = "compiling"
  /\ \/ /\ create' = [create EXCEPT ![s] = "compiled"]
        /\ plan' = [plan EXCEPT ![s] = "open"]
     \/ /\ create' = [create EXCEPT ![s] = "leaving"]
        /\ UNCHANGED plan
  /\ UNCHANGED <<wsVars, groupVars, wsOf, groupOf, entry, children, inside, sworker, kids,
                 sjoined, owedX, xgroup, execVars, panicked>>

\* sessionRegistry.commitCreate; a cancelled request is refused here too.
commitCreate(s) ==
  /\ create[s] = "compiled"
  /\ \/ /\ ~closed /\ groups[wsOf[s]] = groupOf[s] /\ Accepting(groupOf[s])
        /\ members' = [members EXCEPT ![groupOf[s]] = @ \cup {s}]
        /\ entry' = [entry EXCEPT ![s] = "active"]
        /\ create' = [create EXCEPT ![s] = "leaving"]
     \/ /\ create' = [create EXCEPT ![s] = "rollback"]
        /\ UNCHANGED <<members, entry>>
  /\ UNCHANGED <<wsVars, groups, gate, creators, gworker, todo, current, gjoined, owedS, wsOf,
                 groupOf, children, inside, plan, sworker, kids, sjoined, owedX, xgroup,
                 execVars, panicked>>

closeUnpublished(s) ==
  /\ create[s] = "rollback"
  /\ create' = [create EXCEPT ![s] = "leaving"]
  /\ plan' = [plan EXCEPT ![s] = "closed"]
  /\ UNCHANGED <<wsVars, groupVars, wsOf, groupOf, entry, children, inside, sworker, kids,
                 sjoined, owedX, xgroup, execVars, panicked>>

\* Mutant: the deferred finishCreate is forgotten.
FinishCreateForgotten(s) ==
  /\ create[s] = "leaving"
  /\ create' = [create EXCEPT ![s] = "ended"]
  /\ UNCHANGED <<wsVars, groupVars, wsOf, groupOf, sessionVars, xgroup, execVars, panicked>>

\* sessionRegistry.finishCreate: the last one out discards an empty group.
finishCreate(s) ==
  /\ create[s] = "leaving"
  /\ create' = [create EXCEPT ![s] = "ended"]
  /\ LET g == groupOf[s] IN
       /\ creators' = [creators EXCEPT ![g] = @ \ {s}]
       /\ groups' = IF /\ creators'[g] = {} /\ members[g] = {}
                       /\ Accepting(g) /\ groups[wsOf[s]] = g
                    THEN [groups EXCEPT ![wsOf[s]] = None] ELSE groups
  /\ UNCHANGED <<wsVars, gate, members, gworker, todo, current, gjoined, owedS, wsOf, groupOf,
                 sessionVars, xgroup, execVars, panicked>>
-----------------------------------------------------------------------------
(* CreateExecution, the run of an Execution, and its close *)

beginRuntimeCreate(e, s) ==
  /\ launch[e] = "idle"
  /\ IF closed \/ entry[s] # "active"
     THEN /\ launch' = [launch EXCEPT ![e] = "ended"]
          /\ UNCHANGED <<parent, inside, panicked>>
     ELSE /\ launch' = [launch EXCEPT ![e] = "admitted"]
          /\ parent' = [parent EXCEPT ![e] = s]
          /\ inside' = [inside EXCEPT ![s] = @ \cup {e}]
          /\ panicked' = (panicked \/ children[s] # "open")
  /\ UNCHANGED <<wsVars, groupVars, createVars, entry, children, plan, sworker, kids, sjoined,
                 owedX, xgroup, xentry, run, xclose, xworker>>

\* executionRegistry.add
add(e) ==
  /\ launch[e] = "admitted"
  /\ launch' = [launch EXCEPT ![e] = "leaving"]
  /\ xentry' = [xentry EXCEPT ![e] = "active"]
  /\ run' = [run EXCEPT ![e] = "created"]
  /\ LET s == parent[e] IN
       /\ xgroup' = [xgroup EXCEPT ![s] =
                       [state |-> IF @.state = "none" THEN "active" ELSE @.state,
                        entries |-> @.entries \cup {e}]]
       /\ panicked' = (panicked \/ xgroup[s].state = "closing")
       /\ owedX' = IF children[s] = "open" THEN owedX
                   ELSE [owedX EXCEPT ![s] = @ \cup {e}]
  /\ UNCHANGED <<wsVars, groupVars, createVars, entry, children, inside, plan, sworker, kids,
                 sjoined, parent, xclose, xworker>>

finishRuntimeCreate(e) ==
  /\ launch[e] = "leaving"
  /\ launch' = [launch EXCEPT ![e] = "ended"]
  /\ inside' = [inside EXCEPT ![parent[e]] = @ \ {e}]
  /\ UNCHANGED <<wsVars, groupVars, createVars, entry, children, plan, sworker, kids, sjoined,
                 owedX, xgroup, parent, xentry, run, xclose, xworker, panicked>>

\* RunExecution: a caller that looked e up while it was active may start it now.
start(e) ==
  /\ run[e] = "created"
  /\ run' = [run EXCEPT ![e] = "running"]
  /\ UNCHANGED <<wsVars, groupVars, createVars, sessionVars, xgroup, launch, parent, xentry,
                 xclose, xworker, panicked>>

\* CancelExecution ends an Execution that never ran; a running one is only asked.
CancelExecution(e) ==
  /\ run[e] = "created"
  /\ run' = [run EXCEPT ![e] = "terminal"]
  /\ UNCHANGED <<wsVars, groupVars, createVars, sessionVars, xgroup, launch, parent, xentry,
                 xclose, xworker, panicked>>

finish(e) ==
  /\ run[e] = "running"
  /\ run' = [run EXCEPT ![e] = "terminal"]
  /\ UNCHANGED <<wsVars, groupVars, createVars, sessionVars, xgroup, launch, parent, xentry,
                 xclose, xworker, panicked>>

\* beginCloseLocked for a set of entries: own the close of the active ones.
beginCloseLocked(es) ==
  LET owned == {e \in es : xentry[e] = "active"} IN
    /\ xentry' = [e \in Executions |-> IF e \in owned THEN "closing" ELSE xentry[e]]
    /\ xclose' = [e \in Executions |-> IF e \in owned THEN "started" ELSE xclose[e]]
    /\ xworker' = [e \in Executions |-> IF e \in owned THEN "cancel" ELSE xworker[e]]
    /\ panicked' = (panicked \/ \E e \in owned : xclose[e] # "idle")

CloseExecution(e) ==
  /\ xentry[e] = "active"
  /\ beginCloseLocked({e})
  /\ UNCHANGED <<wsVars, groupVars, createVars, sessionVars, xgroup, launch, parent, run>>

\* settleClose: cancel, wait for the run, then completeClose.
settleCancel(e) ==
  /\ xworker[e] = "cancel"
  /\ xworker' = [xworker EXCEPT ![e] = "await"]
  /\ run' = [run EXCEPT ![e] = IF @ = "created" THEN "terminal" ELSE @]
  /\ UNCHANGED <<wsVars, groupVars, createVars, sessionVars, xgroup, launch, parent, xentry,
                 xclose, panicked>>

completeClose(e) ==
  /\ xworker[e] = "await"
  /\ run[e] = "terminal"
  /\ xworker' = [xworker EXCEPT ![e] = "remove"]
  /\ xclose' = [xclose EXCEPT ![e] = "finished"]
  /\ UNCHANGED <<wsVars, groupVars, createVars, sessionVars, xgroup, launch, parent, xentry,
                 run, panicked>>

\* Mutant: a completed child leaves its group although the parent's close began.
FinishCloseUnretained(e) ==
  /\ xworker[e] = "remove"
  /\ xworker' = [xworker EXCEPT ![e] = "done"]
  /\ xentry' = [xentry EXCEPT ![e] = "removed"]
  /\ xgroup' = [xgroup EXCEPT ![parent[e]].entries = @ \ {e}]
  /\ UNCHANGED <<wsVars, groupVars, createVars, sessionVars, launch, parent, run, xclose,
                 panicked>>

\* executionRegistry.finishClose: a child completed under a closing parent that
\* has not collected its children yet stays in the group.
finishClose(e) ==
  /\ xworker[e] = "remove"
  /\ xworker' = [xworker EXCEPT ![e] = "done"]
  /\ xentry' = [xentry EXCEPT ![e] = "removed"]
  /\ LET s == parent[e]
         rest == xgroup[s].entries \ {e}
     IN xgroup' =
          IF \/ xgroup[s].state = "none"
             \/ xgroup[s].state = "active" /\ children[s] # "open"
          THEN xgroup
          ELSE [xgroup EXCEPT ![s] =
                  IF xgroup[s].state = "closing" /\ rest = {} THEN NoGroup
                  ELSE [state |-> xgroup[s].state, entries |-> rest]]
  /\ UNCHANGED <<wsVars, groupVars, createVars, sessionVars, launch, parent, run, xclose,
                 panicked>>
-----------------------------------------------------------------------------
(* CloseSession and finishSessionClose *)

\* sessionRegistry.beginClose on an active entry: the caller owns the close.
beginCloseSession(s) ==
  /\ panicked' = (panicked \/ children[s] # "open")
  /\ entry' = [entry EXCEPT ![s] = "closing"]
  /\ children' = [children EXCEPT ![s] = "closing"]
  /\ sworker' = [sworker EXCEPT ![s] = "drain"]
  /\ owedX' = [owedX EXCEPT ![s] = {e \in Executions : parent[e] = s /\ Registered(xentry[e])}]

CloseSession(s) ==
  /\ entry[s] = "active"
  /\ beginCloseSession(s)
  /\ UNCHANGED <<wsVars, groupVars, createVars, inside, plan, kids, sjoined, xgroup, execVars>>

\* waitForRuntimeCreates, then executions.beginSessionClose.
beginSessionClose(s) ==
  /\ sworker[s] = "drain"
  /\ inside[s] = {}
  /\ sworker' = [sworker EXCEPT ![s] = "children"]
  /\ kids' = [kids EXCEPT ![s] = xgroup[s].entries]
  /\ xgroup' = [xgroup EXCEPT ![s] =
                  IF @.entries = {} THEN NoGroup ELSE [@ EXCEPT !.state = "closing"]]
  /\ beginCloseLocked(xgroup[s].entries)
  /\ UNCHANGED <<wsVars, groupVars, createVars, entry, children, inside, plan, sjoined, owedX,
                 launch, parent, run>>

\* Join the close result of one child.
waitChild(s, e) ==
  /\ sworker[s] = "children"
  /\ e \in kids[s] \ sjoined[s]
  /\ xclose[e] = "finished"
  /\ sjoined' = [sjoined EXCEPT ![s] = @ \cup {e}]
  /\ UNCHANGED <<wsVars, groupVars, createVars, entry, children, inside, plan, sworker, kids,
                 owedX, xgroup, execVars, panicked>>

\* executions.finishSessionClose once every child is joined.
finishSessionClose(s) ==
  /\ sworker[s] = "children"
  /\ kids[s] = sjoined[s]
  /\ sworker' = [sworker EXCEPT ![s] = "plans"]
  /\ xgroup' = [xgroup EXCEPT ![s] = NoGroup]
  /\ UNCHANGED <<wsVars, groupVars, createVars, entry, children, inside, plan, kids, sjoined,
                 owedX, execVars, panicked>>

\* The close hooks return and the released Plans are closed.
closePlans(s) ==
  /\ sworker[s] = "plans"
  /\ sworker' = [sworker EXCEPT ![s] = "publish"]
  /\ plan' = [plan EXCEPT ![s] = "closed"]
  /\ UNCHANGED <<wsVars, groupVars, createVars, entry, children, inside, kids, sjoined, owedX,
                 xgroup, execVars, panicked>>

\* session.finishClose wakes the waiters before the registry forgets the entry.
publishClose(s) ==
  /\ sworker[s] = "publish"
  /\ sworker' = [sworker EXCEPT ![s] = "remove"]
  /\ children' = [children EXCEPT ![s] = "closed"]
  /\ panicked' = (panicked \/ inside[s] # {})
  /\ UNCHANGED <<wsVars, groupVars, createVars, entry, inside, plan, kids, sjoined, owedX,
                 xgroup, execVars>>

\* sessionRegistry.finishClose.  The group it finds under the workspace ID may
\* be another one than the Session was created in.
removeSession(s) ==
  /\ sworker[s] = "remove"
  /\ sworker' = [sworker EXCEPT ![s] = "done"]
  /\ entry' = [entry EXCEPT ![s] = "removed"]
  /\ LET w == wsOf[s]
         g == groups[w]
     IN IF g \in Groups /\ Accepting(g)
        THEN /\ members' = [members EXCEPT ![g] = @ \ {s}]
             /\ groups' = IF members'[g] = {} /\ creators[g] = {}
                          THEN [groups EXCEPT ![w] = None] ELSE groups
        ELSE UNCHANGED <<groups, members>>
  /\ UNCHANGED <<wsVars, gate, creators, gworker, todo, current, gjoined, owedS, createVars,
                 children, inside, plan, kids, sjoined, owedX, xgroup, execVars, panicked>>
-----------------------------------------------------------------------------
(* Workspace close and shutdown *)

\* Begin the close of the groups in gs that still accept; gs are registered.
beginGroupClose(gs) ==
  LET owned == {g \in gs : Accepting(g)} IN
    /\ gate' = [g \in Groups |-> IF g \in owned THEN "closing" ELSE gate[g]]
    /\ gworker' = [g \in Groups |-> IF g \in owned THEN "drain" ELSE gworker[g]]
    /\ owedS' = [g \in Groups |->
                   IF g \in owned
                   THEN {s \in Sessions : groupOf[s] = g /\ Registered(entry[s])}
                   ELSE owedS[g]]

\* workspace.Manager.beginClose (Close and Clear): the entry stops being found.
closeWorkspaceEntry(w) ==
  /\ ws[w] = "active"
  /\ ws' = [ws EXCEPT ![w] = "closing"]
  /\ UNCHANGED <<hookGroup, closed, shutdown, awaited, groupVars, createVars, sessionVars, xgroup,
                 execVars, panicked>>

\* workspace.Manager.finishClose runs the hook: Manager.CloseWorkspace.
CloseWorkspace(w) ==
  /\ ws[w] = "closing"
  /\ ws' = [ws EXCEPT ![w] = "hook"]
  /\ LET g == GroupFor(w, w) IN
       /\ groups' = [groups EXCEPT ![w] = g]
       /\ hookGroup' = [hookGroup EXCEPT ![w] = g]
       /\ beginGroupClose({g})
  /\ UNCHANGED <<closed, shutdown, awaited, creators, members, todo, current, gjoined,
                 createVars, sessionVars, xgroup, execVars, panicked>>

\* The hook returned: the group it waited for is closed.
hookReturned(w) ==
  /\ ws[w] = "hook"
  /\ gate[hookGroup[w]] = "closed"
  /\ ws' = [ws EXCEPT ![w] = "closed"]
  /\ UNCHANGED <<hookGroup, closed, shutdown, awaited, groupVars, createVars, sessionVars, xgroup,
                 execVars, panicked>>

\* Manager.Close, up to the waits: refuse everything new, close every group.
beginShutdown ==
  /\ shutdown = "none"
  /\ shutdown' = "waiting"
  /\ closed' = TRUE
  /\ awaited' = {groups[w] : w \in Workspaces} \ {None}
  /\ beginGroupClose(awaited')
  /\ UNCHANGED <<ws, hookGroup, groups, creators, members, todo, current, gjoined, createVars,
                 sessionVars, xgroup, execVars, panicked>>

shutdownReturned ==
  /\ shutdown = "waiting"
  /\ \A g \in awaited : gate[g] = "closed"
  /\ shutdown' = "done"
  /\ UNCHANGED <<ws, hookGroup, closed, awaited, groupVars, createVars, sessionVars, xgroup,
                 execVars, panicked>>

\* finishWorkspaceClose: waitForCreates, then retainedSessions.
retainedSessions(g) ==
  /\ gworker[g] = "drain"
  /\ creators[g] = {}
  /\ gworker' = [gworker EXCEPT ![g] = "sessions"]
  /\ todo' = [todo EXCEPT ![g] = members[g]]
  /\ UNCHANGED <<wsVars, groups, gate, creators, members, current, gjoined, owedS, createVars,
                 sessionVars, xgroup, execVars, panicked>>

\* closeSession on the next retained Session; map order is arbitrary.
closeRetained(g, s) ==
  /\ gworker[g] = "sessions"
  /\ current[g] = None
  /\ s \in todo[g]
  /\ todo' = [todo EXCEPT ![g] = @ \ {s}]
  /\ current' = [current EXCEPT ![g] = s]
  /\ IF entry[s] = "active" THEN beginCloseSession(s)
     ELSE UNCHANGED <<panicked, entry, children, sworker, owedX>>
  /\ UNCHANGED <<wsVars, groups, gate, creators, members, gworker, gjoined, owedS, createVars,
                 inside, plan, kids, sjoined, xgroup, execVars>>

\* The Session's result is joined when its close has been published.
joinSession(g) ==
  /\ current[g] # None
  /\ children[current[g]] = "closed"
  /\ gjoined' = [gjoined EXCEPT ![g] = @ \cup {current[g]}]
  /\ current' = [current EXCEPT ![g] = None]
  /\ UNCHANGED <<wsVars, groups, gate, creators, members, gworker, todo, owedS, createVars,
                 sessionVars, xgroup, execVars, panicked>>

\* sessionRegistry.finishWorkspaceClose: unregister and publish in one section.
finishWorkspaceClose(g, w) ==
  /\ gworker[g] = "sessions"
  /\ todo[g] = {} /\ current[g] = None
  /\ w = IF g \in Workspaces THEN g ELSE wsOf[g]
  /\ gworker' = [gworker EXCEPT ![g] = "done"]
  /\ groups' = IF groups[w] = g THEN [groups EXCEPT ![w] = None] ELSE groups
  /\ gate' = [gate EXCEPT ![g] = "closed"]
  /\ panicked' = (panicked \/ creators[g] # {})
  /\ UNCHANGED <<wsVars, creators, members, todo, current, gjoined, owedS, createVars,
                 sessionVars, xgroup, execVars>>
-----------------------------------------------------------------------------
sessionCall(s) ==
  prepareSession(s) \/ compile(s) \/ commitCreate(s) \/ closeUnpublished(s) \/ finishCreate(s)

sessionWorker(s) ==
  \/ beginSessionClose(s)
  \/ \E e \in Executions : waitChild(s, e)
  \/ finishSessionClose(s)
  \/ closePlans(s)
  \/ publishClose(s)
  \/ removeSession(s)

executionCall(e) == add(e) \/ finishRuntimeCreate(e)
executionWorker(e) == settleCancel(e) \/ completeClose(e) \/ finishClose(e)

groupWorker(g) ==
  \/ retainedSessions(g)
  \/ \E s \in Sessions : closeRetained(g, s)
  \/ joinSession(g)
  \/ \E w \in Workspaces : finishWorkspaceClose(g, w)

Next ==
  \/ \E s \in Sessions :
       \/ \E w \in Workspaces : beginCreate(s, w)
       \/ sessionCall(s) \/ CloseSession(s) \/ sessionWorker(s)
  \/ \E e \in Executions :
       \/ \E s \in Sessions : beginRuntimeCreate(e, s)
       \/ executionCall(e) \/ start(e) \/ CancelExecution(e) \/ finish(e) \/ CloseExecution(e)
       \/ executionWorker(e)
  \/ \E g \in Groups : groupWorker(g)
  \/ \E w \in Workspaces : closeWorkspaceEntry(w) \/ CloseWorkspace(w) \/ hookReturned(w)
  \/ beginShutdown
  \/ shutdownReturned

Spec == Init /\ [][Next]_vars

\* Admitted calls return, workers run, and a cancelled run ends; clients need
\* never call anything, and a run nobody cancels need never end.
Fairness ==
  /\ \A s \in Sessions : WF_vars(sessionCall(s)) /\ WF_vars(sessionWorker(s))
  /\ \A e \in Executions :
       /\ WF_vars(executionCall(e))
       /\ WF_vars(executionWorker(e))
       /\ WF_vars(xworker[e] = "await" /\ finish(e))
  /\ \A g \in Groups : WF_vars(groupWorker(g))
  /\ \A w \in Workspaces : WF_vars(CloseWorkspace(w) \/ hookReturned(w))
  /\ WF_vars(shutdownReturned)

FairSpec == Spec /\ Fairness
-----------------------------------------------------------------------------
(* Properties *)

\* The values of the workspace manager's and the shutdown's state.
wsType ==
  /\ ws \in [Workspaces -> {"active", "closing", "hook", "closed"}]
  /\ hookGroup \in [Workspaces -> Groups \cup {None}]
  /\ closed \in BOOLEAN
  /\ shutdown \in {"none", "waiting", "done"}
  /\ awaited \subseteq Groups

\* The values of the workspace groups and their workers.
groupType ==
  /\ groups \in [Workspaces -> Groups \cup {None}]
  /\ gate \in [Groups -> {"new", "open", "closing", "closed"}]
  /\ creators \in [Groups -> SUBSET Sessions]
  /\ members \in [Groups -> SUBSET Sessions]
  /\ gworker \in [Groups -> {"none", "drain", "sessions", "done"}]
  /\ todo \in [Groups -> SUBSET Sessions]
  /\ current \in [Groups -> Sessions \cup {None}]
  /\ gjoined \in [Groups -> SUBSET Sessions]
  /\ owedS \in [Groups -> SUBSET Sessions]

\* The values of the CreateSession calls.
createType ==
  /\ create \in [Sessions -> {"idle", "admitted", "compiling", "compiled", "rollback",
                              "leaving", "ended"}]
  /\ wsOf \in [Sessions -> Workspaces \cup {None}]
  /\ groupOf \in [Sessions -> Groups \cup {None}]

\* The values of the Sessions and their workers.
sessionType ==
  /\ entry \in [Sessions -> {"none", "active", "closing", "removed"}]
  /\ children \in [Sessions -> {"open", "closing", "closed"}]
  /\ inside \in [Sessions -> SUBSET Executions]
  /\ plan \in [Sessions -> {"none", "open", "closed"}]
  /\ sworker \in [Sessions -> {"none", "drain", "children", "plans", "publish", "remove", "done"}]
  /\ kids \in [Sessions -> SUBSET Executions]
  /\ sjoined \in [Sessions -> SUBSET Executions]
  /\ owedX \in [Sessions -> SUBSET Executions]
  /\ xgroup \in [Sessions -> [state : {"none", "active", "closing"}, entries : SUBSET Executions]]

\* The values of the CreateExecution calls, the Executions and their workers.
execType ==
  /\ launch \in [Executions -> {"idle", "admitted", "leaving", "ended"}]
  /\ parent \in [Executions -> Sessions \cup {None}]
  /\ xentry \in [Executions -> {"none", "active", "closing", "removed"}]
  /\ run \in [Executions -> {"none", "created", "running", "terminal"}]
  /\ xclose \in [Executions -> {"idle", "started", "finished"}]
  /\ xworker \in [Executions -> {"none", "cancel", "await", "remove", "done"}]

\* Every variable ranges over the values of the registries and workers.
TypeOK == wsType /\ groupType /\ createType /\ sessionType /\ execType /\ panicked \in BOOLEAN

\* No interleaving of creates and closes reaches a panic of the registries or
\* of a gate ("active Session rejected runtime creation" and its siblings).
NoPanic == ~panicked

\* A Plan is closed only when no Execution of its Session can run any more and
\* no CreateExecution call is still about to publish one.
PlanOutlivesChildren ==
  \A s \in Sessions : plan[s] = "closed" =>
    /\ inside[s] = {}
    /\ \A e \in Executions : parent[e] = s => run[e] \in {"none", "terminal"}

\* Once a workspace's hooks returned, no Session of it is reachable and no Plan
\* compiled from its sources is open: admission precedes the workspace lookup.
ClosedWorkspaceIsEmpty ==
  \A w \in Workspaces : ws[w] = "closed" =>
    \A s \in Sessions : wsOf[s] = w =>
      entry[s] # "active" /\ plan[s] # "open" /\ create[s] # "compiling"

\* When Manager.Close returns, nothing it owned is left: no open Plan, no
\* Execution that may run, and nothing will be created again.
ShutdownIsComplete ==
  shutdown = "done" =>
    /\ \A s \in Sessions : plan[s] # "open" /\ create[s] # "compiling"
    /\ \A e \in Executions : run[e] \in {"none", "terminal"} /\ launch[e] # "admitted"

\* A close result joins the result of every child that was still registered
\* when the close began, one that finished meanwhile included: Executions in
\* their Session's, Sessions in their group's.
ResultsJoined ==
  /\ \A s \in Sessions : children[s] = "closed" => owedX[s] \subseteq sjoined[s]
  /\ \A g \in Groups : gate[g] = "closed" => owedS[g] \subseteq gjoined[g]

\* Every close that began completes, of a Session, of a workspace with its hook
\* and of the manager: the cascade never waits in a cycle.
ClosesComplete ==
  /\ \A s \in Sessions : entry[s] = "closing" ~> entry[s] = "removed"
  /\ \A w \in Workspaces : ws[w] = "closing" ~> ws[w] = "closed"
  /\ shutdown = "waiting" ~> shutdown = "done"

\* A close leaves nothing of what it covers, and takes nothing that is in use:
\* Plans outlive what runs on them, a closed workspace and a closed manager are
\* empty, and no gate or registry is misused on the way.
ClosesLeaveNothing ==
  NoPanic /\ PlanOutlivesChildren /\ ClosedWorkspaceIsEmpty /\ ShutdownIsComplete
=============================================================================
