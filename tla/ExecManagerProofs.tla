------------------------- MODULE ExecManagerProofs -------------------------
(***************************************************************************)
(* Proofs about internal/exec.Manager for any sets of workspaces, Sessions *)
(* and Executions: the cascade of closes leaves nothing behind, takes      *)
(* nothing that is in use and joins the result of every child.             *)
(***************************************************************************)
EXTENDS ExecManager, TLAPS

(***************************************************************************)
(* The inductive invariant, level by level.  ExecutionInv and SessionInv   *)
(* relate the fields of one object.  ListInv and CollectInv are the        *)
(* argument of the Session's close: whatever is registered under the       *)
(* Session is in the list its worker will take, and nothing is added once  *)
(* it has taken it.                                                        *)
(* MemberInv, CreatorInv and WorkerInv are the same argument one level up, *)
(* and RegisteredInv what makes it enough: a group that still holds        *)
(* anything is the one its workspace ID resolves to, so CloseWorkspace and *)
(* Close find it.                                                          *)
(***************************************************************************)
Creating(s) == create[s] \in {"admitted", "compiling", "compiled", "rollback", "leaving"}
Compiled(s) == create[s] \in {"compiling", "compiled", "rollback"}
Held(s) == Registered(entry[s]) /\ children[s] # "closed"

\* The workspace a group is for.
GroupWorkspace(g) == IF g \in Workspaces THEN g ELSE wsOf[g]

\* One Execution: its creating call, its entry and its close worker.
ExecutionOf(e) ==
  /\ parent[e] = None <=> launch[e] = "idle" \/ (launch[e] = "ended" /\ xentry[e] = "none")
  /\ launch[e] \in {"idle", "admitted"} => xentry[e] = "none"
  /\ launch[e] = "leaving" => xentry[e] # "none"
  /\ parent[e] # None => entry[parent[e]] # "none"
  /\ \A s \in Sessions : e \in inside[s] <=> parent[e] = s /\ launch[e] \in {"admitted", "leaving"}
  /\ xentry[e] = "none" <=> run[e] = "none"
  /\ xentry[e] \in {"none", "active"} <=> xworker[e] = "none"
  /\ xentry[e] = "removed" <=> xworker[e] = "done"
  /\ xclose[e] = "idle" <=> xworker[e] = "none"
  /\ xclose[e] = "finished" <=> xworker[e] \in {"remove", "done"}
  /\ xclose[e] = "finished" => run[e] = "terminal"

ExecutionInv == \A e \in Executions : ExecutionOf(e)

\* One Session: its creating call, its entry, its gate, its Plan and its worker.
SessionOf(s) ==
  /\ children[s] = "open" <=> sworker[s] = "none"
  /\ children[s] = "closed" <=> sworker[s] \in {"remove", "done"}
  /\ entry[s] \in {"none", "active"} <=> sworker[s] = "none"
  /\ entry[s] = "removed" <=> sworker[s] = "done"
  /\ entry[s] # "none" => create[s] \in {"leaving", "ended"}
  /\ plan[s] = "open" => create[s] \in {"compiled", "rollback"}
                           \/ (entry[s] # "none" /\ sworker[s] \in {"none", "drain", "children", "plans"})
  /\ plan[s] = "closed" => (entry[s] = "none" /\ create[s] \in {"leaving", "ended"})
                             \/ sworker[s] \in {"publish", "remove", "done"}

SessionInv == \A s \in Sessions : SessionOf(s)

\* The Session's worker has taken the list of Executions.
Collected(s) == sworker[s] \in {"children", "plans", "publish", "remove", "done"}

\* Until it does, what is registered under the Session is in that list.
ListOf(s) ==
  /\ xgroup[s].state = "none" => xgroup[s].entries = {}
  /\ xgroup[s].state = "closing" => Collected(s)
  /\ ~Collected(s) => \A e \in Executions :
       parent[e] = s /\ Registered(xentry[e]) => e \in xgroup[s].entries
  /\ sworker[s] = "drain" => owedX[s] \subseteq xgroup[s].entries

ListInv == \A s \in Sessions : ListOf(s)

\* Afterwards no call adds to it, and what is not in it has finished.
CollectOf(s) ==
  /\ Collected(s) =>
       /\ inside[s] = {}
       /\ owedX[s] \subseteq kids[s]
       /\ \A e \in Executions : parent[e] = s => e \in kids[s] \/ xclose[e] = "finished"
  /\ sworker[s] \in {"plans", "publish", "remove", "done"} => kids[s] = sjoined[s]
  /\ \A e \in sjoined[s] : xclose[e] = "finished"

CollectInv == \A s \in Sessions : CollectOf(s)

\* A Session of a group is one of its members until it is removed.
MemberInv ==
  \A s \in Sessions :
    /\ create[s] = "idle" => groupOf[s] = None
    /\ create[s] # "idle" => wsOf[s] \in Workspaces
    /\ Creating(s) \/ entry[s] # "none" => groupOf[s] # None
    /\ Registered(entry[s]) => s \in members[groupOf[s]]

\* The calls inside a group's gate are those admitted to it and not yet out.
CreatorInv ==
  \A g \in Groups : \A s \in Sessions : s \in creators[g] <=> groupOf[s] = g /\ Creating(s)

\* A group's worker closes and joins every member it took.
WorkerOf(g) ==
  /\ Accepting(g) <=> gworker[g] = "none"
  /\ gate[g] = "closed" <=> gworker[g] = "done"
  /\ current[g] # None => gworker[g] = "sessions"
  /\ gworker[g] # "none" => owedS[g] \subseteq members[g]
  /\ gworker[g] \in {"sessions", "done"} =>
       creators[g] = {} /\ members[g] \subseteq todo[g] \cup {current[g]} \cup gjoined[g]
  /\ gworker[g] = "done" => todo[g] = {}
  /\ \A s \in gjoined[g] : children[s] = "closed"

WorkerInv == \A g \in Groups : WorkerOf(g)

\* A group that holds anything is registered for its workspace.
RegisteredInv ==
  /\ \A w \in Workspaces : groups[w] # None =>
       GroupWorkspace(groups[w]) = w /\ (groups[w] \in Sessions => create[groups[w]] # "idle")
  /\ \A s \in Sessions : Creating(s) \/ Held(s) => groups[wsOf[s]] = groupOf[s]

\* What is left of a workspace whose hook has begun is in the group it closes.
HookInv ==
  \A w \in Workspaces :
    /\ ws[w] \in {"hook", "closed"} =>
         /\ hookGroup[w] \in Groups
         /\ \A s \in Sessions : wsOf[s] = w /\ (Compiled(s) \/ Held(s)) => groupOf[s] = hookGroup[w]
    /\ ws[w] = "closed" => gate[hookGroup[w]] = "closed"

\* What is left when Manager.Close has begun is in the groups it awaits.
ShutdownInv ==
  /\ shutdown # "none" =>
       closed /\ \A s \in Sessions : Creating(s) \/ Held(s) => groupOf[s] \in awaited
  /\ shutdown = "done" => \A g \in awaited : gate[g] = "closed"

IndInv ==
  /\ TypeOK
  /\ NoPanic
  /\ ExecutionInv
  /\ SessionInv
  /\ ListInv
  /\ CollectInv
  /\ MemberInv
  /\ CreatorInv
  /\ WorkerInv
  /\ RegisteredInv
  /\ HookInv
  /\ ShutdownInv
-----------------------------------------------------------------------------
(* Frames: what a step that leaves a level alone preserves *)

\* An Execution whose own state is untouched, in a gate and a Session that a step
\* leaves as they are for it.
LEMMA ExecutionFrame ==
  ASSUME NEW e \in Executions, ExecutionOf(e),
         launch'[e] = launch[e], xentry'[e] = xentry[e], run'[e] = run[e],
         xworker'[e] = xworker[e], xclose'[e] = xclose[e], parent'[e] = parent[e],
         parent[e] # None /\ entry[parent[e]] # "none" => entry'[parent[e]] # "none",
         \A s \in Sessions : e \in inside'[s] <=> e \in inside[s]
  PROVE  ExecutionOf(e)'
BY Zenon DEF ExecutionOf

\* A Session that a step leaves as it is.
LEMMA SessionFrame ==
  ASSUME NEW s \in Sessions, SessionOf(s), children'[s] = children[s],
         sworker'[s] = sworker[s], entry'[s] = entry[s], create'[s] = create[s],
         plan'[s] = plan[s]
  PROVE  SessionOf(s)'
BY Zenon DEF SessionOf

\* A Session whose list a step leaves alone, while nothing new is registered.
LEMMA ListFrame ==
  ASSUME NEW s \in Sessions, ListOf(s), xgroup'[s] = xgroup[s], sworker'[s] = sworker[s],
         owedX'[s] = owedX[s],
         \A e \in Executions : parent'[e] = s /\ Registered(xentry'[e])
                                 => parent[e] = s /\ Registered(xentry[e])
  PROVE  ListOf(s)'
BY Zenon DEF ListOf, Collected

\* A Session whose worker a step leaves alone, while no Execution joins it and
\* none that has finished starts again.
LEMMA CollectFrame ==
  ASSUME NEW s \in Sessions, CollectOf(s), sworker'[s] = sworker[s], kids'[s] = kids[s],
         owedX'[s] = owedX[s], sjoined'[s] = sjoined[s], sjoined[s] \in SUBSET Executions,
         Collected(s) /\ inside[s] = {} => inside'[s] = {},
         \A e \in Executions : xclose[e] = "finished" => xclose'[e] = "finished",
         \A e \in Executions : Collected(s) /\ parent'[e] = s => parent[e] = s
  PROVE  CollectOf(s)'
BY Zenon DEF CollectOf, Collected

\* A group whose worker a step leaves alone, while no closed Session reopens.
LEMMA WorkerFrame ==
  ASSUME NEW g \in Groups, WorkerOf(g),
         gate'[g] = gate[g], gworker'[g] = gworker[g], current'[g] = current[g],
         owedS'[g] = owedS[g], members'[g] = members[g], creators'[g] = creators[g],
         todo'[g] = todo[g], gjoined'[g] = gjoined[g], gjoined[g] \in SUBSET Sessions,
         \A s \in Sessions : children[s] = "closed" => children'[s] = "closed"
  PROVE  WorkerOf(g)'
BY Zenon DEF WorkerOf, Accepting

\* The group of a Session that is being created or held is registered for the
\* Session's workspace.
LEMMA HeldIsRegistered ==
  ASSUME IndInv, NEW t \in Sessions, Creating(t) \/ Held(t)
  PROVE  /\ groups[wsOf[t]] = groupOf[t] /\ wsOf[t] \in Workspaces
         /\ groupOf[t] \in Groups /\ groupOf[t] # None
<1>1. groups[wsOf[t]] = groupOf[t]
  BY Zenon DEF IndInv, RegisteredInv
<1>2. groupOf[t] # None /\ create[t] # "idle" /\ wsOf[t] \in Workspaces
  BY Zenon DEF IndInv, MemberInv, SessionInv, SessionOf, Creating, Held, Registered
<1>3. groupOf[t] \in Groups \cup {None}
  BY Zenon DEF IndInv, TypeOK, createType
<1> QED BY <1>1, <1>2, <1>3, Zenon

\* A step that begins no hook, adds nothing to a workspace and reopens no gate.
LEMMA HookFrame ==
  ASSUME HookInv, UNCHANGED <<ws, hookGroup, wsOf, groupOf>>,
         \A t \in Sessions : (Compiled(t) \/ Held(t))' => Compiled(t) \/ Held(t),
         \A g \in Groups : gate[g] = "closed" => gate'[g] = "closed"
  PROVE  HookInv'
BY Zenon DEF HookInv

\* A step on Executions leaves the levels above as they are.
LEMMA GroupsFrame ==
  ASSUME IndInv, UNCHANGED <<wsVars, groupVars, createVars, entry, children>>
  PROVE  wsType' /\ groupType' /\ createType' /\ MemberInv' /\ CreatorInv' /\ WorkerInv'
           /\ RegisteredInv' /\ HookInv' /\ ShutdownInv'
<1>0. UNCHANGED <<ws, hookGroup, closed, shutdown, awaited, groups, gate, creators, members,
                  gworker, todo, current, gjoined, owedS, create, wsOf, groupOf, entry, children>>
  BY Zenon DEF wsVars, groupVars, createVars
<1>1. wsType' /\ groupType' /\ createType'
  BY <1>0, Zenon DEF IndInv, TypeOK, wsType, groupType, createType
<1>2. MemberInv' /\ CreatorInv' /\ WorkerInv'
  <2>1. MemberInv' /\ CreatorInv'
    BY <1>0, Zenon DEF IndInv, MemberInv, CreatorInv, Creating, Registered
  <2>2. \A g \in Groups : WorkerOf(g) /\ gjoined[g] \in SUBSET Sessions
    BY Zenon DEF IndInv, WorkerInv, TypeOK, groupType
  <2>3. WorkerInv'
    BY <1>0, <2>2, WorkerFrame, Zenon DEF WorkerInv
  <2> QED BY <2>1, <2>3, Zenon
<1>3. RegisteredInv'
  BY <1>0, Zenon DEF IndInv, RegisteredInv, GroupWorkspace, Creating, Held, Registered
<1>4. HookInv'
  <2>1. \A t \in Sessions : (Compiled(t) \/ Held(t))' => Compiled(t) \/ Held(t)
    BY <1>0, Zenon DEF Compiled, Held, Registered
  <2> QED BY <1>0, <2>1, HookFrame, Zenon DEF IndInv
<1>5. ShutdownInv'
  BY <1>0, Zenon DEF IndInv, ShutdownInv, Creating, Held, Registered
<1> QED BY <1>1, <1>2, <1>3, <1>4, <1>5, Zenon

\* A step on Sessions or groups that publishes no runtime and starts no worker
\* leaves the Executions as they are.
LEMMA ChildFrame ==
  ASSUME IndInv, UNCHANGED <<inside, sworker, kids, sjoined, owedX, xgroup, execVars>>,
         \A s \in Sessions : entry[s] # "none" => entry'[s] # "none"
  PROVE  execType' /\ ExecutionInv' /\ ListInv' /\ CollectInv'
<1>0. UNCHANGED <<inside, sworker, kids, sjoined, owedX, xgroup, launch, parent, xentry, run,
                  xclose, xworker>>
  BY Zenon DEF execVars
<1>1. execType'
  BY <1>0, Zenon DEF IndInv, TypeOK, execType
<1>2. ExecutionInv'
  <2>1. \A e \in Executions : parent[e] \in Sessions \cup {None} /\ ExecutionOf(e)
    BY Zenon DEF IndInv, TypeOK, execType, ExecutionInv
  <2> QED BY <1>0, <2>1, ExecutionFrame, Zenon DEF ExecutionInv
<1>3. ListInv' /\ CollectInv'
  <2>1. \A s \in Sessions : ListOf(s) /\ CollectOf(s) /\ sjoined[s] \in SUBSET Executions
    BY Zenon DEF IndInv, ListInv, CollectInv, TypeOK, sessionType
  <2> QED BY <1>0, <2>1, ListFrame, CollectFrame, Zenon DEF ListInv, CollectInv
<1> QED BY <1>1, <1>2, <1>3, Zenon

\* A step that registers, removes and settles no Session preserves what relates
\* Sessions to groups, workspaces and the shutdown.
LEMMA HeldFrame ==
  ASSUME IndInv, UNCHANGED <<wsVars, createVars, groups, gate, creators, members>>,
         \A t \in Sessions : /\ Registered(entry'[t]) <=> Registered(entry[t])
                             /\ entry'[t] = "none" <=> entry[t] = "none"
                             /\ children'[t] = "closed" <=> children[t] = "closed"
  PROVE  wsType' /\ createType' /\ MemberInv' /\ CreatorInv' /\ RegisteredInv' /\ HookInv'
           /\ ShutdownInv'
<1>0. UNCHANGED <<ws, hookGroup, closed, shutdown, awaited, create, wsOf, groupOf>>
  BY Zenon DEF wsVars, createVars
<1>1. wsType' /\ createType'
  BY <1>0, Zenon DEF IndInv, TypeOK, wsType, createType
<1>2. MemberInv' /\ CreatorInv'
  <2>1. \A t \in Sessions : Creating(t)' <=> Creating(t)
    BY <1>0, Zenon DEF Creating
  <2>2. MemberInv'
    BY <1>0, <2>1, Zenon DEF IndInv, MemberInv
  <2>3. CreatorInv'
    BY <1>0, <2>1, Zenon DEF IndInv, CreatorInv
  <2> QED BY <2>2, <2>3, Zenon
<1>3. RegisteredInv'
  BY <1>0, Zenon DEF IndInv, RegisteredInv, GroupWorkspace, Creating, Held, Registered
<1>4. HookInv'
  <2>1. \A t \in Sessions : (Compiled(t) \/ Held(t))' => Compiled(t) \/ Held(t)
    BY <1>0, Zenon DEF Compiled, Held
  <2> QED BY <1>0, <2>1, HookFrame, Zenon DEF IndInv
<1>5. ShutdownInv'
  BY <1>0, Zenon DEF IndInv, ShutdownInv, Creating, Held, Registered
<1> QED BY <1>1, <1>2, <1>3, <1>4, <1>5, Zenon

\* The initial state satisfies the inductive invariant.
LEMMA InitInd == Init => IndInv
<1> SUFFICES ASSUME Init PROVE IndInv
  OBVIOUS
<1>1. wsType /\ groupType /\ createType
  BY Zenon DEF Init, wsType, groupType, createType
<1>2. sessionType /\ execType
  BY Zenon DEF Init, sessionType, execType, NoGroup
<1>3. panicked \in BOOLEAN /\ NoPanic
  BY Zenon DEF Init, NoPanic
<1>4. ExecutionInv /\ SessionInv
  BY Zenon DEF Init, ExecutionInv, ExecutionOf, SessionInv, SessionOf
<1>5. ListInv /\ CollectInv
  BY Zenon DEF Init, ListInv, ListOf, CollectInv, CollectOf, Collected, Registered, NoGroup
<1>6. MemberInv /\ CreatorInv /\ WorkerInv
  BY Zenon DEF Init, MemberInv, CreatorInv, WorkerInv, WorkerOf, Creating, Registered, Accepting
<1>7. RegisteredInv /\ HookInv /\ ShutdownInv
  BY Zenon DEF Init, RegisteredInv, HookInv, ShutdownInv, Creating, Held, Registered
<1> QED BY <1>1, <1>2, <1>3, <1>4, <1>5, <1>6, <1>7, Zenon DEF IndInv, TypeOK
-----------------------------------------------------------------------------
(* CreateSession *)

\* sessionRegistry.beginCreate admits a call into the group its workspace ID
\* resolves to, or into a new one registered for that workspace.
LEMMA BeginCreateInd ==
  ASSUME IndInv, NEW s \in Sessions, NEW w \in Workspaces, beginCreate(s, w)
  PROVE  IndInv'
<1> DEFINE g == GroupFor(w, s)
<1>a. TypeOK
  BY Zenon DEF IndInv
<1>b. g \in Groups /\ (groups[w] = None => g = s) /\ (groups[w] # None => g = groups[w])
  BY <1>a, Zenon DEF GroupFor, Groups, TypeOK, groupType
<1>c. create[s] = "idle" /\ groupOf[s] = None /\ entry[s] = "none"
  BY Zenon DEF beginCreate, IndInv, MemberInv, SessionInv, SessionOf
<1>d. /\ UNCHANGED <<ws, hookGroup, closed, shutdown, awaited, members, gworker, todo, current,
                     gjoined, owedS, sessionVars, xgroup, execVars, panicked>>
      /\ wsOf' = [wsOf EXCEPT ![s] = w]
  BY Zenon DEF beginCreate, wsVars, groupVars
<1>e. UNCHANGED <<entry, children, inside, plan, sworker, kids, sjoined, owedX>>
  BY <1>d, Zenon DEF sessionVars
<1>f. \/ /\ create' = [create EXCEPT ![s] = "ended"]
         /\ UNCHANGED <<groups, gate, creators, groupOf>>
      \/ /\ ~closed /\ Accepting(g)
         /\ create' = [create EXCEPT ![s] = "admitted"]
         /\ groupOf' = [groupOf EXCEPT ![s] = g]
         /\ groups' = [groups EXCEPT ![w] = g]
         /\ gate' = [gate EXCEPT ![g] = "open"]
         /\ creators' = [creators EXCEPT ![g] = @ \cup {s}]
  BY Zenon DEF beginCreate, groupVars
<1> HIDE DEF g
<1>g. /\ wsOf'[s] = w /\ create'[s] \in {"ended", "admitted"}
      /\ \A t \in Sessions \ {s} : /\ create'[t] = create[t]
                                   /\ groupOf'[t] = groupOf[t]
                                   /\ wsOf'[t] = wsOf[t]
  BY <1>a, <1>d, <1>f, Zenon DEF TypeOK, createType
<1>h. \/ create'[s] = "ended" /\ UNCHANGED <<groups, gate, creators, groupOf>>
      \/ /\ ~closed /\ Accepting(g) /\ create'[s] = "admitted" /\ groupOf'[s] = g
         /\ groups'[w] = g /\ gate'[g] = "open" /\ creators'[g] = creators[g] \cup {s}
         /\ \A v \in Workspaces \ {w} : groups'[v] = groups[v]
         /\ \A h \in Groups \ {g} : gate'[h] = gate[h] /\ creators'[h] = creators[h]
  BY <1>a, <1>b, <1>f DEF TypeOK, createType, groupType
<1>1. execType' /\ ExecutionInv' /\ ListInv' /\ CollectInv'
  BY <1>d, <1>e, ChildFrame, Zenon
<1>2. wsType' /\ sessionType' /\ panicked' \in BOOLEAN /\ NoPanic'
  BY <1>a, <1>d, <1>e, Zenon DEF TypeOK, wsType, sessionType, NoPanic, IndInv
<1>3. createType' /\ groupType'
  <2>1. createType'
    BY <1>a, <1>b, <1>d, <1>f DEF TypeOK, createType
  <2>2. gate' \in [Groups -> {"new", "open", "closing", "closed"}]
    BY <1>a, <1>f, Zenon DEF TypeOK, groupType
  <2>3. groups' \in [Workspaces -> Groups \cup {None}]
    BY <1>a, <1>b, <1>f DEF TypeOK, groupType
  <2>4. creators' \in [Groups -> SUBSET Sessions]
    <3>1. creators[g] \cup {s} \in SUBSET Sessions
      BY <1>a, <1>b, Zenon DEF TypeOK, groupType
    <3> QED BY <1>a, <1>f, <3>1 DEF TypeOK, groupType
  <2> QED BY <1>a, <1>d, <2>1, <2>2, <2>3, <2>4, Zenon DEF TypeOK, groupType
<1>4. SessionInv'
  <2> SUFFICES ASSUME NEW t \in Sessions PROVE SessionOf(t)'
    BY Zenon DEF SessionInv
  <2>1. SessionOf(t)
    BY Zenon DEF IndInv, SessionInv
  <2>2. CASE t = s
    BY <1>c, <1>e, <1>g, <2>1, <2>2, Zenon DEF SessionOf
  <2>3. CASE t # s
    BY <1>e, <1>g, <2>1, <2>3, SessionFrame, Zenon
  <2> QED BY <2>2, <2>3, Zenon
<1>5. MemberInv' /\ CreatorInv' /\ WorkerInv'
  <2>1. MemberInv'
    BY <1>b, <1>c, <1>d, <1>e, <1>g, <1>h, NoneIsNew
    DEF IndInv, MemberInv, Creating, Registered, Groups
  <2>2. CreatorInv'
    <3> SUFFICES ASSUME NEW h \in Groups, NEW t \in Sessions
                 PROVE  t \in creators'[h] <=> groupOf'[t] = h /\ Creating(t)'
      BY Zenon DEF CreatorInv
    <3>1. t \in creators[h] <=> groupOf[t] = h /\ Creating(t)
      BY Zenon DEF IndInv, CreatorInv
    <3>2. CASE t = s
      BY <1>c, <1>h, <3>1, <3>2, Zenon DEF Creating
    <3>3. CASE t # s
      BY <1>g, <1>h, <3>1, <3>3, Zenon DEF Creating
    <3> QED BY <3>2, <3>3, Zenon
  <2>3. WorkerInv'
    <3> SUFFICES ASSUME NEW h \in Groups PROVE WorkerOf(h)'
      BY Zenon DEF WorkerInv
    <3>1. WorkerOf(h) /\ gjoined[h] \in SUBSET Sessions
      BY <1>a, Zenon DEF IndInv, WorkerInv, TypeOK, groupType
    <3>2. CASE gate'[h] = gate[h] /\ creators'[h] = creators[h]
      BY <1>d, <1>e, <3>1, <3>2, WorkerFrame, Zenon
    <3>3. CASE h = g /\ Accepting(g) /\ gate'[g] = "open"
      BY <1>d, <1>e, <3>1, <3>3, Zenon DEF WorkerOf, Accepting
    <3> QED BY <1>h, <3>2, <3>3, Zenon
  <2> QED BY <2>1, <2>2, <2>3, Zenon
<1>6. RegisteredInv'
  <2>1. \A v \in Workspaces : groups[v] # s
    BY <1>a, <1>c, NoneIsNew
    DEF IndInv, RegisteredInv, TypeOK, groupType, Groups
  <2>2. ASSUME NEW v \in Workspaces, groups'[v] # None
        PROVE  (GroupWorkspace(groups[v]) = v
                  /\ (groups[v] \in Sessions => create[groups[v]] # "idle"))'
    <3>1. CASE groups'[v] = groups[v]
      <4>1. /\ groups[v] \in Workspaces \cup Sessions /\ groups[v] # s
            /\ GroupWorkspace(groups[v]) = v
            /\ groups[v] \in Sessions => create[groups[v]] # "idle"
        BY <1>a, <2>1, <2>2, <3>1, Zenon DEF IndInv, RegisteredInv, TypeOK, groupType, Groups
      <4> QED BY <1>g, <3>1, <4>1, Zenon DEF GroupWorkspace
    <3>2. CASE v = w /\ groups[w] = None /\ groups'[w] = s /\ create'[s] = "admitted"
      BY <1>g, <3>2, NamesDiffer, Zenon DEF GroupWorkspace
    <3> QED BY <1>b, <1>h, <3>1, <3>2, Zenon
  <2>3. ASSUME NEW t \in Sessions, (Creating(t) \/ Held(t))'
        PROVE  groups'[wsOf'[t]] = groupOf'[t]
    <3>1. CASE t = s
      BY <1>c, <1>e, <1>g, <1>h, <2>3, <3>1, Zenon DEF Creating, Held, Registered
    <3>2. CASE t # s
      <4>1. Creating(t) \/ Held(t)
        BY <1>e, <1>g, <2>3, <3>2, Zenon DEF Creating, Held, Registered
      <4>2. groups[wsOf[t]] = groupOf[t] /\ groupOf[t] # None /\ wsOf[t] \in Workspaces
        BY <1>a, <4>1, Zenon
        DEF IndInv, RegisteredInv, MemberInv, SessionInv, SessionOf, Creating, Held, Registered
      <4>3. groups'[wsOf[t]] = groups[wsOf[t]]
        BY <1>b, <1>h, <4>2, Zenon
      <4> QED BY <1>g, <3>2, <4>2, <4>3, Zenon
    <3> QED BY <3>1, <3>2, Zenon
  <2> QED BY <2>2, <2>3, Zenon DEF RegisteredInv
<1>7. HookInv'
  <2> SUFFICES ASSUME NEW v \in Workspaces, ws[v] \in {"hook", "closed"}
               PROVE  /\ hookGroup[v] \in Groups
                      /\ \A t \in Sessions : (wsOf[t] = v /\ (Compiled(t) \/ Held(t)))'
                                               => groupOf'[t] = hookGroup[v]
                      /\ ws[v] = "closed" => gate'[hookGroup[v]] = "closed"
    BY <1>d, Zenon DEF HookInv
  <2>1. /\ hookGroup[v] \in Groups
        /\ \A t \in Sessions : wsOf[t] = v /\ (Compiled(t) \/ Held(t)) => groupOf[t] = hookGroup[v]
        /\ ws[v] = "closed" => gate[hookGroup[v]] = "closed"
    BY Zenon DEF IndInv, HookInv
  <2>2. ASSUME NEW t \in Sessions, (wsOf[t] = v /\ (Compiled(t) \/ Held(t)))'
        PROVE  t # s /\ wsOf[t] = v /\ (Compiled(t) \/ Held(t)) /\ groupOf'[t] = groupOf[t]
    BY <1>c, <1>e, <1>g, <2>2, Zenon DEF Compiled, Held, Registered
  <2>3. ws[v] = "closed" => gate'[hookGroup[v]] = "closed"
    BY <1>h, <2>1, Zenon DEF Accepting
  <2> QED BY <2>1, <2>2, <2>3, Zenon
<1>8. ShutdownInv'
  <2>1. shutdown = "done" => \A h \in awaited : gate'[h] = "closed"
    BY <1>a, <1>h, Zenon DEF IndInv, ShutdownInv, TypeOK, wsType, Accepting
  <2>2. ASSUME shutdown # "none", NEW t \in Sessions, (Creating(t) \/ Held(t))'
        PROVE  t # s /\ (Creating(t) \/ Held(t)) /\ groupOf'[t] = groupOf[t]
    BY <1>c, <1>e, <1>g, <1>h, <2>2, Zenon DEF Creating, Held, Registered, IndInv, ShutdownInv
  <2> QED BY <1>d, <2>1, <2>2, Zenon DEF IndInv, ShutdownInv
<1> QED BY <1>1, <1>2, <1>3, <1>4, <1>5, <1>6, <1>7, <1>8, Zenon DEF IndInv, TypeOK

\* An admitted CreateSession call up to its last critical section: it looks the
\* workspace up, compiles, and publishes the Session or closes its Plan.
LEMMA SessionCallInd ==
  ASSUME IndInv, NEW s \in Sessions,
         prepareSession(s) \/ compile(s) \/ commitCreate(s) \/ closeUnpublished(s)
  PROVE  IndInv'
<1>a. TypeOK
  BY Zenon DEF IndInv
<1>b. Creating(s) /\ groupOf[s] \in Groups /\ wsOf[s] \in Workspaces
  BY <1>a, Zenon DEF IndInv, MemberInv, Creating, TypeOK, createType, prepareSession, compile,
              commitCreate, closeUnpublished
<1>c. UNCHANGED <<ws, hookGroup, closed, shutdown, awaited, groups, gate, creators, gworker,
                     todo, current, gjoined, owedS, wsOf, groupOf, children, inside, sworker,
                     kids, sjoined, owedX, xgroup, execVars, panicked>>
  BY Zenon
  DEF prepareSession, compile, commitCreate, closeUnpublished, wsVars, groupVars, sessionVars
<1>d. entry[s] = "none" /\ children[s] = "open" /\ sworker[s] = "none"
  BY <1>a, Zenon
  DEF IndInv, SessionInv, SessionOf, TypeOK, sessionType, createType, prepareSession, compile,
              commitCreate, closeUnpublished
<1>e. /\ create' = [create EXCEPT ![s] = create'[s]]
      /\ plan' = [plan EXCEPT ![s] = plan'[s]]
      /\ entry' = [entry EXCEPT ![s] = entry'[s]]
      /\ entry'[s] \in {"none", "active"}
      /\ create'[s] \in {"compiling", "compiled", "rollback", "leaving"}
      /\ plan'[s] \in {"none", "open", "closed"}
      /\ create'[s] \in {"compiled", "rollback"} => entry'[s] = "none"
  BY <1>a, <1>d DEF TypeOK, createType, sessionType, prepareSession, compile, commitCreate,
                    closeUnpublished, sessionVars
<1>f. /\ entry'[s] = "active" => create[s] = "compiled" /\ create'[s] = "leaving"
                                  /\ plan'[s] = plan[s] /\ s \in members'[groupOf[s]]
      /\ plan'[s] = "open" => create'[s] \in {"compiled", "rollback"} \/ entry'[s] = "active"
      /\ plan'[s] = "closed" => create'[s] = "leaving" /\ entry'[s] = "none"
      /\ create'[s] \in {"compiling", "compiled", "rollback"} =>
           Compiled(s) \/ ws[wsOf[s]] = "active"
  <2>0. plan[s] = "open" => create[s] \in {"compiled", "rollback"}
    BY <1>d, Zenon DEF IndInv, SessionInv, SessionOf
  <2>1. plan[s] = "closed" => create[s] \in {"leaving", "ended"}
    BY <1>d, Zenon DEF IndInv, SessionInv, SessionOf
  <2>2. CASE prepareSession(s)
    BY <1>a, <1>d, <2>0, <2>1, <2>2, Zenon
    DEF TypeOK, createType, sessionType, prepareSession, sessionVars, Compiled
  <2>3. CASE compile(s)
    BY <1>a, <1>d, <2>0, <2>1, <2>3, Zenon DEF TypeOK, createType, sessionType, compile, Compiled
  <2>4. CASE commitCreate(s)
    BY <1>a, <1>b, <1>d, <2>0, <2>1, <2>4
    DEF TypeOK, createType, sessionType, groupType, commitCreate, Compiled
  <2>5. CASE closeUnpublished(s)
    BY <1>a, <1>d, <2>0, <2>1, <2>5, Zenon
    DEF TypeOK, createType, sessionType, closeUnpublished, Compiled
  <2> QED BY <2>2, <2>3, <2>4, <2>5, Zenon
<1>g. \/ UNCHANGED members
      \/ Accepting(groupOf[s]) /\ members' = [members EXCEPT ![groupOf[s]] = @ \cup {s}]
  BY Zenon DEF prepareSession, compile, commitCreate, closeUnpublished, groupVars
<1>h. \A t \in Sessions \ {s} : create'[t] = create[t] /\ plan'[t] = plan[t] /\ entry'[t] = entry[t]
  BY <1>a, <1>e DEF TypeOK, createType, sessionType
<1>i. \A g \in Groups : \/ members'[g] = members[g]
                        \/ Accepting(g) /\ members[g] \subseteq members'[g]
  BY <1>a, <1>b, <1>g DEF TypeOK, groupType
<1>1. execType' /\ ExecutionInv' /\ ListInv' /\ CollectInv'
  BY <1>a, <1>c, <1>d, <1>e, ChildFrame, Zenon DEF TypeOK, sessionType
<1>2. wsType' /\ panicked' \in BOOLEAN /\ NoPanic'
  BY <1>a, <1>c, Zenon DEF TypeOK, wsType, NoPanic, IndInv
<1>3. createType' /\ groupType' /\ sessionType'
  <2>1. createType'
    BY <1>a, <1>c, <1>e, Zenon DEF TypeOK, createType
  <2>2. groupType'
    BY <1>a, <1>b, <1>c, <1>g DEF TypeOK, groupType
  <2>3. sessionType'
    <3>1. entry' \in [Sessions -> {"none", "active", "closing", "removed"}]
      BY <1>a, <1>e, Zenon DEF TypeOK, sessionType
    <3>2. plan' \in [Sessions -> {"none", "open", "closed"}]
      BY <1>a, <1>e, Zenon DEF TypeOK, sessionType
    <3> QED BY <1>a, <1>c, <3>1, <3>2, Zenon DEF TypeOK, sessionType
  <2> QED BY <2>1, <2>2, <2>3, Zenon
<1>4. SessionInv'
  <2> SUFFICES ASSUME NEW t \in Sessions PROVE SessionOf(t)'
    BY Zenon DEF SessionInv
  <2>1. SessionOf(t)
    BY Zenon DEF IndInv, SessionInv
  <2>2. CASE t = s
    BY <1>c, <1>d, <1>e, <1>f, <2>1, <2>2, Zenon DEF SessionOf
  <2>3. CASE t # s
    BY <1>c, <1>h, <2>1, <2>3, SessionFrame, Zenon
  <2> QED BY <2>2, <2>3, Zenon
<1>5. MemberInv' /\ CreatorInv' /\ WorkerInv'
  <2>1. MemberInv'
    <3> SUFFICES ASSUME NEW t \in Sessions
                 PROVE  /\ create'[t] = "idle" => groupOf'[t] = None
                        /\ create'[t] # "idle" => wsOf'[t] \in Workspaces
                        /\ Creating(t)' \/ entry'[t] # "none" => groupOf'[t] # None
                        /\ Registered(entry'[t]) => t \in members'[groupOf'[t]]
      BY Zenon DEF MemberInv
    <3>1. CASE t = s
      BY <1>b, <1>c, <1>e, <1>f, <3>1, NoneIsNew, Zenon DEF Registered, Groups
    <3>2. CASE t # s
      <4>1. members[groupOf[t]] \subseteq members'[groupOf[t]] \/ groupOf[t] = None
        BY <1>a, <1>i, Zenon DEF TypeOK, createType
      <4> QED BY <1>c, <1>h, <3>2, <4>1, Zenon DEF IndInv, MemberInv, Creating, Registered
    <3> QED BY <3>1, <3>2, Zenon
  <2>2. CreatorInv'
    <3>1. \A t \in Sessions : Creating(t)' <=> Creating(t)
      BY <1>b, <1>e, <1>h, Zenon DEF Creating
    <3> QED BY <1>c, <3>1, Zenon DEF IndInv, CreatorInv
  <2>3. WorkerInv'
    <3> SUFFICES ASSUME NEW h \in Groups PROVE WorkerOf(h)'
      BY Zenon DEF WorkerInv
    <3>1. WorkerOf(h) /\ gjoined[h] \in SUBSET Sessions
      BY <1>a, Zenon DEF IndInv, WorkerInv, TypeOK, groupType
    <3>2. CASE members'[h] = members[h]
      BY <1>c, <3>1, <3>2, WorkerFrame, Zenon
    <3>3. CASE Accepting(h)
      BY <1>c, <3>1, <3>3, Zenon DEF WorkerOf, Accepting
    <3> QED BY <1>i, <3>2, <3>3, Zenon
  <2> QED BY <2>1, <2>2, <2>3, Zenon
<1>j. \A t \in Sessions : (Creating(t) \/ Held(t))' => Creating(t) \/ Held(t)
  BY <1>b, <1>c, <1>h, Zenon DEF Creating, Held, Registered
<1>6. RegisteredInv'
  <2>1. \A t \in Sessions : create[t] # "idle" => create'[t] # "idle"
    BY <1>e, <1>h, Zenon
  <2> QED BY <1>c, <1>j, <2>1, Zenon DEF IndInv, RegisteredInv, GroupWorkspace
<1>7. HookInv'
  <2>1. ASSUME NEW t \in Sessions, (Compiled(t) \/ Held(t))'
        PROVE  Compiled(t) \/ Held(t) \/ ws[wsOf[t]] = "active"
    BY <1>c, <1>e, <1>f, <1>h, <2>1, Zenon DEF Compiled, Held, Registered
  <2> QED BY <1>c, <2>1, Zenon DEF IndInv, HookInv
<1>8. ShutdownInv'
  BY <1>c, <1>j, Zenon DEF IndInv, ShutdownInv
<1> QED BY <1>1, <1>2, <1>3, <1>4, <1>5, <1>6, <1>7, <1>8, Zenon DEF IndInv, TypeOK

\* sessionRegistry.finishCreate: the group that the last call out discards holds
\* neither a call nor a Session, so nothing that is left loses its group.
LEMMA FinishCreateInd ==
  ASSUME IndInv, NEW s \in Sessions, finishCreate(s)
  PROVE  IndInv'
<1> DEFINE g == groupOf[s]
<1>a. TypeOK
  BY Zenon DEF IndInv
<1>b. create[s] = "leaving" /\ g \in Groups /\ wsOf[s] \in Workspaces
  BY <1>a, Zenon DEF IndInv, MemberInv, Creating, TypeOK, createType, finishCreate
<1>c. UNCHANGED <<ws, hookGroup, closed, shutdown, awaited, gate, members, gworker, todo, current,
                  gjoined, owedS, wsOf, groupOf, entry, children, inside, plan, sworker, kids,
                  sjoined, owedX, xgroup, execVars, panicked>>
  BY Zenon DEF finishCreate, wsVars, sessionVars
<1>d. /\ create' = [create EXCEPT ![s] = "ended"]
      /\ creators' = [creators EXCEPT ![g] = @ \ {s}]
      /\ \/ UNCHANGED groups
         \/ /\ creators'[g] = {} /\ members[g] = {} /\ groups[wsOf[s]] = g
            /\ groups' = [groups EXCEPT ![wsOf[s]] = None]
  BY Zenon DEF finishCreate
<1>e. /\ create'[s] = "ended" /\ creators'[g] = creators[g] \ {s}
      /\ \A t \in Sessions \ {s} : create'[t] = create[t]
      /\ \A h \in Groups \ {g} : creators'[h] = creators[h]
  BY <1>a, <1>b, <1>d, Zenon DEF TypeOK, createType, groupType
<1>f. groupOf[s] = g
  BY Zenon
<1> HIDE DEF g
<1>1. execType' /\ ExecutionInv' /\ ListInv' /\ CollectInv'
  BY <1>c, ChildFrame, Zenon
<1>2. wsType' /\ sessionType' /\ panicked' \in BOOLEAN /\ NoPanic'
  BY <1>a, <1>c, Zenon DEF TypeOK, wsType, sessionType, NoPanic, IndInv
<1>3. createType' /\ groupType'
  BY <1>a, <1>b, <1>c, <1>d, Zenon DEF TypeOK, createType, groupType
<1>4. SessionInv'
  <2> SUFFICES ASSUME NEW t \in Sessions PROVE SessionOf(t)'
    BY Zenon DEF SessionInv
  <2>1. SessionOf(t)
    BY Zenon DEF IndInv, SessionInv
  <2>2. CASE t = s
    BY <1>b, <1>c, <1>e, <2>1, <2>2, Zenon DEF SessionOf
  <2>3. CASE t # s
    BY <1>c, <1>e, <2>1, <2>3, SessionFrame, Zenon
  <2> QED BY <2>2, <2>3, Zenon
<1>5. MemberInv'
  BY <1>b, <1>c, <1>e, Zenon DEF IndInv, MemberInv, Creating, Registered
<1>6. CreatorInv'
  <2> SUFFICES ASSUME NEW h \in Groups, NEW t \in Sessions
               PROVE  t \in creators'[h] <=> groupOf[t] = h /\ Creating(t)'
    BY <1>c, Zenon DEF CreatorInv
  <2>1. t \in creators[h] <=> groupOf[t] = h /\ Creating(t)
    BY Zenon DEF IndInv, CreatorInv
  <2>2. CASE t = s
    BY <1>b, <1>e, <1>f, <2>1, <2>2, Zenon DEF Creating
  <2>3. CASE t # s
    BY <1>e, <2>1, <2>3, Zenon DEF Creating
  <2> QED BY <2>2, <2>3, Zenon
<1>7. WorkerInv'
  <2> SUFFICES ASSUME NEW h \in Groups PROVE WorkerOf(h)'
    BY Zenon DEF WorkerInv
  <2>1. WorkerOf(h) /\ gjoined[h] \in SUBSET Sessions
    BY <1>a, Zenon DEF IndInv, WorkerInv, TypeOK, groupType
  <2>2. CASE h = g
    BY <1>c, <1>e, <2>1, <2>2, Zenon DEF WorkerOf, Accepting
  <2>3. CASE h # g
    BY <1>c, <1>e, <2>1, <2>3, WorkerFrame, Zenon
  <2> QED BY <2>2, <2>3, Zenon
<1>8. RegisteredInv'
  <2>1. ASSUME NEW v \in Workspaces, groups'[v] # None
        PROVE  (GroupWorkspace(groups[v]) = v
                  /\ (groups[v] \in Sessions => create[groups[v]] # "idle"))'
    <3>1. groups'[v] = groups[v]
      BY <1>a, <1>b, <1>d, <2>1, Zenon DEF TypeOK, groupType
    <3> QED BY <1>a, <1>c, <1>d, <2>1, <3>1, Zenon
            DEF IndInv, RegisteredInv, GroupWorkspace, TypeOK, createType
  <2>2. ASSUME NEW t \in Sessions, (Creating(t) \/ Held(t))'
        PROVE  groups'[wsOf'[t]] = groupOf'[t]
    <3>1. Creating(t) \/ Held(t)
      BY <1>a, <1>c, <1>d, <2>2, Zenon DEF TypeOK, createType, Creating, Held, Registered
    <3>2. groups[wsOf[t]] = groupOf[t] /\ groupOf[t] \in Groups /\ wsOf[t] \in Workspaces
      BY <3>1, HeldIsRegistered, Zenon
    <3>3. groupOf[t] = g => t \in creators'[g] \/ t \in members[g]
      BY <1>6, <1>b, <1>c, <2>2, Zenon
      DEF CreatorInv, IndInv, MemberInv, Held
    <3> QED BY <1>a, <1>b, <1>c, <1>d, <3>2, <3>3, Zenon DEF TypeOK, groupType
  <2> QED BY <2>1, <2>2, Zenon DEF RegisteredInv
<1>9. HookInv'
  <2>1. \A t \in Sessions : (Compiled(t) \/ Held(t))' => Compiled(t) \/ Held(t)
    BY <1>c, <1>e, Zenon DEF Compiled, Held, Registered
  <2> QED BY <1>c, <2>1, Zenon DEF IndInv, HookInv
<1>10. ShutdownInv'
  BY <1>a, <1>b, <1>c, <1>d, Zenon
  DEF IndInv, ShutdownInv, TypeOK, createType, Creating, Held, Registered
<1> QED BY <1>1, <1>2, <1>3, <1>4, <1>5, <1>6, <1>7, <1>8, <1>9, <1>10, Zenon DEF IndInv, TypeOK
-----------------------------------------------------------------------------
(* CreateExecution, the run of an Execution, and its close *)

\* sessionRegistry.beginRuntimeCreate: an active Session's gate is open, so the
\* call is admitted without the panic the code has for the other case.
LEMMA BeginRuntimeCreateInd ==
  ASSUME IndInv, NEW e \in Executions, NEW s \in Sessions, beginRuntimeCreate(e, s)
  PROVE  IndInv'
<1>a. TypeOK
  BY Zenon DEF IndInv
<1>b. UNCHANGED <<wsVars, groupVars, createVars, entry, children, plan, sworker, kids, sjoined,
                  owedX, xgroup, xentry, run, xclose, xworker>>
  BY Zenon DEF beginRuntimeCreate
<1>c. launch[e] = "idle" /\ parent[e] = None /\ xentry[e] = "none"
  BY Zenon DEF beginRuntimeCreate, IndInv, ExecutionInv, ExecutionOf
<1>d. \/ /\ launch' = [launch EXCEPT ![e] = "ended"]
         /\ UNCHANGED <<parent, inside>>
      \/ /\ entry[s] = "active" /\ sworker[s] = "none"
         /\ launch' = [launch EXCEPT ![e] = "admitted"]
         /\ parent' = [parent EXCEPT ![e] = s]
         /\ inside' = [inside EXCEPT ![s] = @ \cup {e}]
  BY Zenon DEF beginRuntimeCreate, IndInv, SessionInv, SessionOf
<1>e. /\ \A d \in Executions \ {e} : launch'[d] = launch[d] /\ parent'[d] = parent[d]
      /\ \A t \in Sessions \ {s} : inside'[t] = inside[t]
      /\ \/ launch'[e] = "ended" /\ UNCHANGED <<parent, inside>>
         \/ /\ entry[s] = "active" /\ sworker[s] = "none" /\ launch'[e] = "admitted"
            /\ parent'[e] = s /\ inside'[s] = inside[s] \cup {e}
  BY <1>a, <1>d DEF TypeOK, execType, sessionType
<1>1. panicked' \in BOOLEAN /\ NoPanic'
  <2>1. entry[s] = "active" => children[s] = "open"
    BY Zenon DEF IndInv, SessionInv, SessionOf
  <2> QED BY <1>a, <2>1, Zenon DEF beginRuntimeCreate, TypeOK, NoPanic, IndInv
<1>2. wsType' /\ groupType' /\ createType' /\ MemberInv' /\ CreatorInv' /\ WorkerInv'
        /\ RegisteredInv' /\ HookInv' /\ ShutdownInv'
  BY <1>b, GroupsFrame, Zenon
<1>3. sessionType'
  BY <1>a, <1>b, <1>d DEF TypeOK, sessionType
<1>4. execType'
  BY <1>a, <1>b, <1>d DEF TypeOK, execType
<1>5. SessionInv'
  BY <1>b, Zenon DEF IndInv, SessionInv, SessionOf, createVars
<1>6. ExecutionInv'
  <2> SUFFICES ASSUME NEW d \in Executions PROVE ExecutionOf(d)'
    BY Zenon DEF ExecutionInv
  <2>1. ExecutionOf(d)
    BY Zenon DEF IndInv, ExecutionInv
  <2>2. CASE d = e
    <3>1. \A t \in Sessions : e \in inside'[t] <=> parent'[e] = t /\ launch'[e] = "admitted"
      BY <1>c, <1>e, <2>1, <2>2, NoneIsNew, Zenon DEF ExecutionOf
    <3> QED BY <1>b, <1>c, <1>e, <2>1, <2>2, <3>1, NoneIsNew DEF ExecutionOf
  <2>3. CASE d # e
    <3>1. \A t \in Sessions : d \in inside'[t] <=> d \in inside[t]
      BY <1>e, <2>3, Zenon
    <3> QED BY <1>b, <1>e, <2>1, <2>3, <3>1, ExecutionFrame, Zenon
  <2> QED BY <2>2, <2>3, Zenon
<1>7. ListInv'
  BY <1>b, <1>c, <1>e, ListFrame, Zenon DEF IndInv, ListInv, Registered
<1>8. CollectInv'
  <2> SUFFICES ASSUME NEW t \in Sessions PROVE CollectOf(t)'
    BY Zenon DEF CollectInv
  <2>1. CollectOf(t) /\ sjoined[t] \in SUBSET Executions
    BY <1>a, Zenon DEF IndInv, CollectInv, TypeOK, sessionType
  <2>2. Collected(t) => inside'[t] = inside[t] /\ \A d \in Executions : parent'[d] = t => parent[d] = t
    BY <1>e, Zenon DEF Collected
  <2> QED BY <1>b, <2>1, <2>2, CollectFrame, Zenon
<1> QED BY <1>1, <1>2, <1>3, <1>4, <1>5, <1>6, <1>7, <1>8, Zenon DEF IndInv, TypeOK

\* executionRegistry.add: the Session has not collected its children while the
\* call is inside its gate, so the new entry is in the list it will take.
LEMMA AddInd ==
  ASSUME IndInv, NEW e \in Executions, add(e)
  PROVE  IndInv'
<1> DEFINE s == parent[e]
<1>a. TypeOK
  BY Zenon DEF IndInv
<1>b. UNCHANGED <<wsVars, groupVars, createVars, entry, children, inside, plan, sworker, kids,
                  sjoined, parent, xclose, xworker>>
  BY Zenon DEF add
<1>c. /\ s \in Sessions /\ e \in inside[s] /\ xentry[e] = "none" /\ xclose[e] = "idle"
      /\ xworker[e] = "none" /\ launch[e] = "admitted"
  BY <1>a DEF add, IndInv, ExecutionInv, ExecutionOf, TypeOK, execType
<1>d. ~Collected(s) /\ xgroup[s].state # "closing"
  BY <1>c, Zenon DEF IndInv, ListInv, ListOf, CollectInv, CollectOf
<1>e. /\ launch' = [launch EXCEPT ![e] = "leaving"]
      /\ xentry' = [xentry EXCEPT ![e] = "active"]
      /\ run' = [run EXCEPT ![e] = "created"]
  BY Zenon DEF add
<1>f. /\ \A t \in Sessions \ {s} : xgroup'[t] = xgroup[t] /\ owedX'[t] = owedX[t]
      /\ xgroup'[s] = [state |-> "active", entries |-> xgroup[s].entries \cup {e}]
      /\ owedX'[s] = owedX[s] \/ owedX'[s] = owedX[s] \cup {e}
  BY <1>a, <1>c, <1>d, Zenon DEF add, TypeOK, sessionType
<1>g. xgroup' \in [Sessions -> [state : {"none", "active", "closing"}, entries : SUBSET Executions]]
  BY <1>a, <1>c DEF add, TypeOK, sessionType
<1>h. owedX' \in [Sessions -> SUBSET Executions]
  BY <1>a, <1>c, Zenon DEF add, TypeOK, sessionType
<1>1. panicked' \in BOOLEAN /\ NoPanic'
  BY <1>a, <1>d, Zenon DEF add, TypeOK, NoPanic, IndInv
<1>i. /\ launch'[e] = "leaving" /\ xentry'[e] = "active" /\ run'[e] = "created"
      /\ \A d \in Executions \ {e} : /\ launch'[d] = launch[d]
                                     /\ xentry'[d] = xentry[d]
                                     /\ run'[d] = run[d]
  BY <1>a, <1>e, Zenon DEF TypeOK, execType
<1>j. parent[e] = s
  BY Zenon
<1> HIDE DEF s
<1>2. wsType' /\ groupType' /\ createType' /\ MemberInv' /\ CreatorInv' /\ WorkerInv'
        /\ RegisteredInv' /\ HookInv' /\ ShutdownInv'
  BY <1>b, GroupsFrame, Zenon
<1>3. sessionType'
  BY <1>a, <1>b, <1>g, <1>h, Zenon DEF TypeOK, sessionType
<1>4. execType'
  BY <1>a, <1>b, <1>e, Zenon DEF TypeOK, execType
<1>5. SessionInv'
  BY <1>b, Zenon DEF IndInv, SessionInv, SessionOf, createVars
<1>6. ExecutionInv'
  <2> SUFFICES ASSUME NEW d \in Executions PROVE ExecutionOf(d)'
    BY Zenon DEF ExecutionInv
  <2>1. ExecutionOf(d)
    BY Zenon DEF IndInv, ExecutionInv
  <2>2. CASE d = e
    BY <1>b, <1>c, <1>i, <1>j, <2>1, <2>2, Zenon DEF ExecutionOf
  <2>3. CASE d # e
    BY <1>b, <1>i, <2>1, <2>3, ExecutionFrame, Zenon
  <2> QED BY <2>2, <2>3, Zenon
<1>7. ListInv'
  <2> SUFFICES ASSUME NEW t \in Sessions PROVE ListOf(t)'
    BY Zenon DEF ListInv
  <2>1. ListOf(t)
    BY Zenon DEF IndInv, ListInv
  <2>2. CASE t = s
    <3>1. xgroup'[s].state = "active" /\ xgroup'[s].entries = xgroup[s].entries \cup {e}
      BY <1>f
    <3>2. sworker[s] = "drain" => owedX'[s] \subseteq xgroup'[s].entries
      BY <1>f, <2>1, <2>2, <3>1, Zenon DEF ListOf
    <3>3. \A d \in Executions : parent[d] = s /\ Registered(xentry'[d]) => d \in xgroup'[s].entries
      BY <1>d, <1>i, <2>1, <2>2, <3>1, Zenon DEF ListOf
    <3> QED BY <1>b, <2>2, <3>1, <3>2, <3>3, Zenon DEF ListOf
  <2>3. CASE t # s
    BY <1>b, <1>f, <1>i, <1>j, <2>1, <2>3, ListFrame, Zenon
  <2> QED BY <2>2, <2>3, Zenon
<1>8. CollectInv'
  <2> SUFFICES ASSUME NEW t \in Sessions PROVE CollectOf(t)'
    BY Zenon DEF CollectInv
  <2>1. CollectOf(t) /\ sjoined[t] \in SUBSET Executions
    BY <1>a, Zenon DEF IndInv, CollectInv, TypeOK, sessionType
  <2>2. CASE t = s
    BY <1>b, <1>d, <2>1, <2>2, Zenon DEF CollectOf, Collected
  <2>3. CASE t # s
    BY <1>b, <1>f, <2>1, <2>3, CollectFrame, Zenon
  <2> QED BY <2>2, <2>3, Zenon
<1> QED BY <1>1, <1>2, <1>3, <1>4, <1>5, <1>6, <1>7, <1>8, Zenon DEF IndInv, TypeOK

\* sessionRegistry.finishRuntimeCreate: the call leaves its Session's gate.
LEMMA FinishRuntimeCreateInd ==
  ASSUME IndInv, NEW e \in Executions, finishRuntimeCreate(e)
  PROVE  IndInv'
<1>a. TypeOK
  BY Zenon DEF IndInv
<1>b. UNCHANGED <<wsVars, groupVars, createVars, entry, children, plan, sworker, kids, sjoined,
                  owedX, xgroup, parent, xentry, run, xclose, xworker, panicked>>
  BY Zenon DEF finishRuntimeCreate
<1>c. parent[e] \in Sessions /\ xentry[e] # "none" /\ launch[e] = "leaving"
  BY <1>a DEF finishRuntimeCreate, IndInv, ExecutionInv, ExecutionOf, TypeOK, execType
<1>d. /\ launch' = [launch EXCEPT ![e] = "ended"]
      /\ inside' = [inside EXCEPT ![parent[e]] = @ \ {e}]
  BY Zenon DEF finishRuntimeCreate
<1>e. /\ launch'[e] = "ended" /\ inside'[parent[e]] = inside[parent[e]] \ {e}
      /\ \A d \in Executions \ {e} : launch'[d] = launch[d]
      /\ \A t \in Sessions \ {parent[e]} : inside'[t] = inside[t]
  BY <1>a, <1>c, <1>d DEF TypeOK, execType, sessionType
<1>1. panicked' \in BOOLEAN /\ NoPanic'
  BY <1>a, <1>b, Zenon DEF TypeOK, NoPanic, IndInv
<1>2. wsType' /\ groupType' /\ createType' /\ MemberInv' /\ CreatorInv' /\ WorkerInv'
        /\ RegisteredInv' /\ HookInv' /\ ShutdownInv'
  BY <1>b, GroupsFrame, Zenon
<1>3. sessionType'
  BY <1>a, <1>b, <1>c, <1>d, Zenon DEF TypeOK, sessionType
<1>4. execType'
  BY <1>a, <1>b, <1>d, Zenon DEF TypeOK, execType
<1>5. SessionInv'
  BY <1>b, Zenon DEF IndInv, SessionInv, SessionOf, createVars
<1>6. ExecutionInv'
  <2> SUFFICES ASSUME NEW d \in Executions PROVE ExecutionOf(d)'
    BY Zenon DEF ExecutionInv
  <2>1. ExecutionOf(d)
    BY Zenon DEF IndInv, ExecutionInv
  <2>2. CASE d = e
    <3>1. \A t \in Sessions : e \notin inside'[t]
      BY <1>e, <2>1, <2>2, Zenon DEF ExecutionOf
    <3> QED BY <1>b, <1>c, <1>e, <2>1, <2>2, <3>1, NoneIsNew, Zenon DEF ExecutionOf
  <2>3. CASE d # e
    <3>1. \A t \in Sessions : d \in inside'[t] <=> d \in inside[t]
      BY <1>e, <2>3, Zenon
    <3> QED BY <1>b, <1>e, <2>1, <2>3, <3>1, ExecutionFrame, Zenon
  <2> QED BY <2>2, <2>3, Zenon
<1>7. ListInv'
  BY <1>b, Zenon DEF IndInv, ListInv, ListOf, Collected, Registered
<1>8. CollectInv'
  <2> SUFFICES ASSUME NEW t \in Sessions PROVE CollectOf(t)'
    BY Zenon DEF CollectInv
  <2>1. CollectOf(t) /\ sjoined[t] \in SUBSET Executions
    BY <1>a, Zenon DEF IndInv, CollectInv, TypeOK, sessionType
  <2>2. inside[t] = {} => inside'[t] = {}
    BY <1>e, Zenon
  <2> QED BY <1>b, <2>1, <2>2, CollectFrame, Zenon
<1> QED BY <1>1, <1>2, <1>3, <1>4, <1>5, <1>6, <1>7, <1>8, Zenon DEF IndInv, TypeOK

\* The run of an Execution and the first two steps of its close worker: a run
\* only advances, and the close finishes only when the run has.
LEMMA RunInd ==
  ASSUME IndInv, NEW e \in Executions,
         start(e) \/ CancelExecution(e) \/ finish(e) \/ settleCancel(e) \/ completeClose(e)
  PROVE  IndInv'
<1>a. TypeOK
  BY Zenon DEF IndInv
<1>b. UNCHANGED <<wsVars, groupVars, createVars, entry, children, inside, plan, sworker, kids,
                  sjoined, owedX, xgroup, launch, parent, xentry, panicked>>
  BY Zenon DEF start, CancelExecution, finish, settleCancel, completeClose, sessionVars
<1>c. /\ run' = [run EXCEPT ![e] = run'[e]]
      /\ xclose' = [xclose EXCEPT ![e] = xclose'[e]]
      /\ xworker' = [xworker EXCEPT ![e] = xworker'[e]]
  BY <1>a DEF start, CancelExecution, finish, settleCancel, completeClose, TypeOK, execType
<1>d. /\ run'[e] \in {"none", "created", "running", "terminal"}
      /\ run'[e] = "none" <=> run[e] = "none"
      /\ run[e] = "terminal" => run'[e] = "terminal"
      /\ \/ xclose'[e] = xclose[e] /\ xworker'[e] = xworker[e]
         \/ xclose'[e] = xclose[e] /\ xworker[e] = "cancel" /\ xworker'[e] = "await"
         \/ /\ xclose'[e] = "finished" /\ xworker[e] = "await" /\ xworker'[e] = "remove"
            /\ run'[e] = "terminal"
  BY <1>a DEF start, CancelExecution, finish, settleCancel, completeClose, TypeOK, execType
<1>1. panicked' \in BOOLEAN /\ NoPanic'
  BY <1>a, <1>b, Zenon DEF TypeOK, NoPanic, IndInv
<1>2. wsType' /\ groupType' /\ createType' /\ MemberInv' /\ CreatorInv' /\ WorkerInv'
        /\ RegisteredInv' /\ HookInv' /\ ShutdownInv'
  BY <1>b, GroupsFrame, Zenon
<1>3. sessionType'
  BY <1>a, <1>b, Zenon DEF TypeOK, sessionType
<1>e. \A d \in Executions \ {e} : /\ run'[d] = run[d]
                                  /\ xclose'[d] = xclose[d]
                                  /\ xworker'[d] = xworker[d]
  BY <1>a, <1>c DEF TypeOK, execType
<1>4. execType'
  BY <1>a, <1>b, <1>c, <1>d DEF TypeOK, execType
<1>5. SessionInv'
  BY <1>b, Zenon DEF IndInv, SessionInv, SessionOf, createVars
<1>6. ExecutionInv'
  <2> SUFFICES ASSUME NEW d \in Executions PROVE ExecutionOf(d)'
    BY Zenon DEF ExecutionInv
  <2>1. ExecutionOf(d)
    BY Zenon DEF IndInv, ExecutionInv
  <2>2. CASE d = e
    BY <1>b, <1>d, <2>1, <2>2, Zenon DEF ExecutionOf
  <2>3. CASE d # e
    BY <1>b, <1>e, <2>1, <2>3, ExecutionFrame, Zenon
  <2> QED BY <2>2, <2>3, Zenon
<1>7. ListInv'
  BY <1>b, Zenon DEF IndInv, ListInv, ListOf, Collected, Registered
<1>8. CollectInv'
  <2>1. \A d \in Executions : xclose[d] = "finished" => xclose'[d] = "finished"
    BY <1>d, <1>e, Zenon
  <2> QED BY <1>a, <1>b, <2>1, CollectFrame, Zenon DEF IndInv, CollectInv, TypeOK, sessionType
<1> QED BY <1>1, <1>2, <1>3, <1>4, <1>5, <1>6, <1>7, <1>8, Zenon DEF IndInv, TypeOK

\* executionRegistry.beginCloseLocked: an active entry's close has not begun, so
\* its first owner starts it without a panic; what is registered stays so.
LEMMA BeginCloseLockedInd ==
  ASSUME IndInv, NEW es \in SUBSET Executions, beginCloseLocked(es),
         UNCHANGED <<launch, parent, run, entry, inside>>
  PROVE  /\ execType' /\ ExecutionInv'
         /\ panicked' \in BOOLEAN /\ NoPanic'
         /\ \A d \in Executions : /\ Registered(xentry'[d]) <=> Registered(xentry[d])
                                  /\ xclose[d] = "finished" => xclose'[d] = "finished"
<1>a. TypeOK
  BY Zenon DEF IndInv
<1> DEFINE owned == {e \in es : xentry[e] = "active"}
<1>b. /\ xentry' = [e \in Executions |-> IF e \in owned THEN "closing" ELSE xentry[e]]
      /\ xclose' = [e \in Executions |-> IF e \in owned THEN "started" ELSE xclose[e]]
      /\ xworker' = [e \in Executions |-> IF e \in owned THEN "cancel" ELSE xworker[e]]
  BY Zenon DEF beginCloseLocked
<1>c. \A e \in owned : xentry[e] = "active" /\ xclose[e] = "idle" /\ xworker[e] = "none"
  BY Zenon DEF IndInv, ExecutionInv, ExecutionOf
<1>d. panicked' \in BOOLEAN /\ NoPanic'
  <2>1. panicked' = (panicked \/ \E e \in owned : xclose[e] # "idle")
    BY Zenon DEF beginCloseLocked
  <2>2. ~ \E e \in owned : xclose[e] # "idle"
    BY <1>c, Zenon
  <2> HIDE DEF owned
  <2> QED BY <1>a, <2>1, <2>2, Zenon DEF TypeOK, NoPanic, IndInv
<1> HIDE DEF owned
<1>1. execType'
  BY <1>a, <1>b, Zenon DEF TypeOK, execType
<1>2. ExecutionInv'
  <2> SUFFICES ASSUME NEW d \in Executions PROVE ExecutionOf(d)'
    BY Zenon DEF ExecutionInv
  <2>1. ExecutionOf(d)
    BY Zenon DEF IndInv, ExecutionInv
  <2>2. CASE d \in owned
    <3>1. xentry'[d] = "closing" /\ xclose'[d] = "started" /\ xworker'[d] = "cancel"
      BY <1>b, <2>2, Zenon
    <3> QED BY <1>c, <2>1, <2>2, <3>1, Zenon DEF ExecutionOf
  <2>3. CASE d \notin owned
    <3>1. xentry'[d] = xentry[d] /\ xclose'[d] = xclose[d] /\ xworker'[d] = xworker[d]
      BY <1>b, <2>3, Zenon
    <3> QED BY <2>1, <3>1, ExecutionFrame, Zenon
  <2> QED BY <2>2, <2>3, Zenon
<1>3. \A d \in Executions : /\ Registered(xentry'[d]) <=> Registered(xentry[d])
                            /\ xclose[d] = "finished" => xclose'[d] = "finished"
  BY <1>b, <1>c, Zenon DEF Registered
<1> QED BY <1>d, <1>1, <1>2, <1>3, Zenon

\* CloseExecution on an active Execution.
LEMMA CloseExecutionInd ==
  ASSUME IndInv, NEW e \in Executions, CloseExecution(e)
  PROVE  IndInv'
<1>a. TypeOK
  BY Zenon DEF IndInv
<1>b. UNCHANGED <<wsVars, groupVars, createVars, entry, children, inside, plan, sworker, kids,
                  sjoined, owedX, xgroup, launch, parent, run>>
  BY Zenon DEF CloseExecution, sessionVars
<1>1. /\ execType' /\ ExecutionInv'
      /\ panicked' \in BOOLEAN /\ NoPanic'
      /\ \A d \in Executions : /\ Registered(xentry'[d]) <=> Registered(xentry[d])
                               /\ xclose[d] = "finished" => xclose'[d] = "finished"
  BY <1>b, BeginCloseLockedInd, Zenon DEF CloseExecution
<1>2. wsType' /\ groupType' /\ createType' /\ MemberInv' /\ CreatorInv' /\ WorkerInv'
        /\ RegisteredInv' /\ HookInv' /\ ShutdownInv'
  BY <1>b, GroupsFrame, Zenon
<1>3. sessionType'
  BY <1>a, <1>b, Zenon DEF TypeOK, sessionType
<1>4. SessionInv'
  BY <1>b, Zenon DEF IndInv, SessionInv, SessionOf, createVars
<1>5. ListInv'
  BY <1>1, <1>b, ListFrame, Zenon DEF IndInv, ListInv
<1>6. CollectInv'
  BY <1>1, <1>a, <1>b, CollectFrame, Zenon DEF IndInv, CollectInv, TypeOK, sessionType
<1> QED BY <1>1, <1>2, <1>3, <1>4, <1>5, <1>6, Zenon DEF IndInv, TypeOK

\* executionRegistry.finishClose: an entry leaves its Session's list only while
\* the Session is open or once the list has been taken.
LEMMA FinishCloseInd ==
  ASSUME IndInv, NEW e \in Executions, finishClose(e)
  PROVE  IndInv'
<1> DEFINE s == parent[e]
<1>a. TypeOK
  BY Zenon DEF IndInv
<1>b. UNCHANGED <<wsVars, groupVars, createVars, entry, children, inside, plan, sworker, kids,
                  sjoined, owedX, launch, parent, run, xclose, panicked>>
  BY Zenon DEF finishClose, sessionVars
<1>c. /\ xworker[e] = "remove" /\ xentry[e] = "closing" /\ xclose[e] = "finished"
      /\ s \in Sessions
  <2>1. xworker[e] = "remove" /\ ExecutionOf(e)
    BY Zenon DEF finishClose, IndInv, ExecutionInv
  <2>2. xentry[e] \in {"none", "active", "closing", "removed"} /\ s \in Sessions \cup {None}
    BY <1>a, Zenon DEF TypeOK, execType
  <2>3. xclose[e] = "finished" /\ xentry[e] = "closing"
    BY <2>1, <2>2, Zenon DEF ExecutionOf
  <2> QED BY <2>1, <2>2, <2>3, Zenon DEF ExecutionOf
<1>d. /\ xworker' = [xworker EXCEPT ![e] = "done"]
      /\ xentry' = [xentry EXCEPT ![e] = "removed"]
  BY Zenon DEF finishClose
<1>g. /\ xworker'[e] = "done" /\ xentry'[e] = "removed"
      /\ \A d \in Executions \ {e} : xworker'[d] = xworker[d] /\ xentry'[d] = xentry[d]
  BY <1>a, <1>d, Zenon DEF TypeOK, execType
<1>e. /\ \A t \in Sessions \ {s} : xgroup'[t] = xgroup[t]
      /\ \/ xgroup'[s] = xgroup[s]
         \/ /\ children[s] = "open" \/ xgroup[s].state = "closing"
            /\ xgroup'[s].entries = xgroup[s].entries \ {e}
            /\ xgroup'[s].state = xgroup[s].state
            /\ xgroup[s].state # "none"
         \/ xgroup[s].state = "closing" /\ xgroup'[s].state = "none" /\ xgroup'[s].entries = {}
  BY <1>a, <1>c, Zenon DEF finishClose, TypeOK, sessionType, NoGroup
<1>f. xgroup' \in [Sessions -> [state : {"none", "active", "closing"}, entries : SUBSET Executions]]
  BY <1>a, <1>c, Zenon DEF finishClose, TypeOK, sessionType, NoGroup
<1> HIDE DEF s
<1>1. panicked' \in BOOLEAN /\ NoPanic'
  BY <1>a, <1>b, Zenon DEF TypeOK, NoPanic, IndInv
<1>2. wsType' /\ groupType' /\ createType' /\ MemberInv' /\ CreatorInv' /\ WorkerInv'
        /\ RegisteredInv' /\ HookInv' /\ ShutdownInv'
  BY <1>b, GroupsFrame, Zenon
<1>3. sessionType'
  BY <1>a, <1>b, <1>f, Zenon DEF TypeOK, sessionType
<1>4. execType'
  BY <1>a, <1>b, <1>d, Zenon DEF TypeOK, execType
<1>5. SessionInv'
  BY <1>b, Zenon DEF IndInv, SessionInv, SessionOf, createVars
<1>6. ExecutionInv'
  <2> SUFFICES ASSUME NEW d \in Executions PROVE ExecutionOf(d)'
    BY Zenon DEF ExecutionInv
  <2>1. ExecutionOf(d)
    BY Zenon DEF IndInv, ExecutionInv
  <2>2. CASE d = e
    BY <1>b, <1>c, <1>g, <2>1, <2>2, Zenon DEF ExecutionOf
  <2>3. CASE d # e
    BY <1>b, <1>g, <2>1, <2>3, ExecutionFrame, Zenon
  <2> QED BY <2>2, <2>3, Zenon
<1>7. ListInv'
  <2> SUFFICES ASSUME NEW t \in Sessions PROVE ListOf(t)'
    BY Zenon DEF ListInv
  <2>1. ListOf(t)
    BY Zenon DEF IndInv, ListInv
  <2>2. \A d \in Executions : Registered(xentry'[d]) => d # e /\ Registered(xentry[d])
    BY <1>g, Zenon DEF Registered
  <2>3. CASE xgroup'[t] = xgroup[t]
    BY <1>b, <2>1, <2>2, <2>3, ListFrame, Zenon
  <2>4. CASE t = s /\ xgroup[s].state = "closing"
    <3>1. Collected(s) /\ sworker[s] # "drain"
      BY <2>1, <2>4, Zenon DEF ListOf, Collected
    <3> QED BY <1>b, <1>e, <2>4, <3>1, Zenon DEF ListOf, Collected
  <2>5. CASE /\ t = s /\ children[s] = "open" /\ xgroup'[s].entries = xgroup[s].entries \ {e}
             /\ xgroup'[s].state = xgroup[s].state /\ xgroup[s].state # "none"
    <3>1. sworker[s] = "none"
      BY <1>c, <2>5, Zenon DEF IndInv, SessionInv, SessionOf
    <3> QED BY <1>b, <2>1, <2>2, <2>5, <3>1, Zenon DEF ListOf, Collected
  <2> QED BY <1>e, <2>3, <2>4, <2>5, Zenon
<1>8. CollectInv'
  BY <1>b, Zenon DEF IndInv, CollectInv, CollectOf, Collected
<1> QED BY <1>1, <1>2, <1>3, <1>4, <1>5, <1>6, <1>7, <1>8, Zenon DEF IndInv, TypeOK
-----------------------------------------------------------------------------
(* CloseSession and finishSessionClose *)

\* sessionRegistry.beginClose, called by CloseSession and by the worker of a
\* workspace group: every Execution that is registered is in the list.
LEMMA BeginCloseSessionInd ==
  ASSUME IndInv, NEW s \in Sessions, entry[s] = "active", beginCloseSession(s),
         UNCHANGED <<inside, plan, kids, sjoined, xgroup, execVars, create>>
  PROVE  /\ execType' /\ ExecutionInv' /\ sessionType' /\ SessionInv' /\ ListInv' /\ CollectInv'
         /\ panicked' \in BOOLEAN /\ NoPanic'
         /\ \A t \in Sessions : /\ Registered(entry'[t]) <=> Registered(entry[t])
                                /\ entry'[t] = "none" <=> entry[t] = "none"
                                /\ children'[t] = "closed" <=> children[t] = "closed"
<1>a. TypeOK
  BY Zenon DEF IndInv
<1>b. UNCHANGED <<launch, parent, xentry, run, xclose, xworker>>
  BY Zenon DEF execVars
<1>c. /\ entry' = [entry EXCEPT ![s] = "closing"]
      /\ children' = [children EXCEPT ![s] = "closing"]
      /\ sworker' = [sworker EXCEPT ![s] = "drain"]
      /\ owedX' = [owedX EXCEPT ![s] = {e \in Executions : parent[e] = s /\ Registered(xentry[e])}]
  BY Zenon DEF beginCloseSession
<1>d. children[s] = "open" /\ sworker[s] = "none" /\ create[s] \in {"leaving", "ended"}
  BY Zenon DEF IndInv, SessionInv, SessionOf
<1>e. /\ entry'[s] = "closing" /\ children'[s] = "closing" /\ sworker'[s] = "drain"
      /\ owedX'[s] = {e \in Executions : parent[e] = s /\ Registered(xentry[e])}
      /\ \A t \in Sessions \ {s} : /\ entry'[t] = entry[t] /\ children'[t] = children[t]
                                   /\ sworker'[t] = sworker[t] /\ owedX'[t] = owedX[t]
  BY <1>a, <1>c, Zenon DEF TypeOK, sessionType
<1>1. panicked' \in BOOLEAN /\ NoPanic'
  BY <1>a, <1>d, Zenon DEF beginCloseSession, TypeOK, NoPanic, IndInv
<1>2. sessionType'
  BY <1>a, <1>c, Zenon DEF TypeOK, sessionType
<1>3. execType'
  BY <1>a, <1>b, Zenon DEF TypeOK, execType
<1>4. ExecutionInv'
  <2>1. \A t \in Sessions : entry'[t] = "none" => entry[t] = "none"
    BY <1>e, Zenon
  <2>2. \A d \in Executions : parent[d] \in Sessions \cup {None}
    BY <1>a, Zenon DEF TypeOK, execType
  <2> QED BY <1>b, <2>1, <2>2, ExecutionFrame, Zenon DEF IndInv, ExecutionInv
<1>5. SessionInv'
  <2> SUFFICES ASSUME NEW t \in Sessions PROVE SessionOf(t)'
    BY Zenon DEF SessionInv
  <2>1. SessionOf(t)
    BY Zenon DEF IndInv, SessionInv
  <2>2. CASE t = s
    BY <1>d, <1>e, <2>1, <2>2, Zenon DEF SessionOf
  <2>3. CASE t # s
    BY <1>e, <2>1, <2>3, SessionFrame, Zenon
  <2> QED BY <2>2, <2>3, Zenon
<1>6. ListInv'
  <2> SUFFICES ASSUME NEW t \in Sessions PROVE ListOf(t)'
    BY Zenon DEF ListInv
  <2>1. ListOf(t)
    BY Zenon DEF IndInv, ListInv
  <2>2. CASE t = s
    BY <1>b, <1>d, <1>e, <2>1, <2>2, Zenon DEF ListOf, Collected
  <2>3. CASE t # s
    BY <1>b, <1>e, <2>1, <2>3, ListFrame, Zenon
  <2> QED BY <2>2, <2>3, Zenon
<1>7. CollectInv'
  <2> SUFFICES ASSUME NEW t \in Sessions PROVE CollectOf(t)'
    BY Zenon DEF CollectInv
  <2>1. CollectOf(t) /\ sjoined[t] \in SUBSET Executions
    BY <1>a, Zenon DEF IndInv, CollectInv, TypeOK, sessionType
  <2>2. CASE t = s
    BY <1>b, <1>d, <1>e, <2>1, <2>2, Zenon DEF CollectOf, Collected
  <2>3. CASE t # s
    BY <1>b, <1>e, <2>1, <2>3, CollectFrame, Zenon
  <2> QED BY <2>2, <2>3, Zenon
<1>8. \A t \in Sessions : /\ Registered(entry'[t]) <=> Registered(entry[t])
                          /\ entry'[t] = "none" <=> entry[t] = "none"
                          /\ children'[t] = "closed" <=> children[t] = "closed"
  BY <1>a, <1>c, <1>d, Zenon DEF Registered, TypeOK, sessionType
<1> QED BY <1>1, <1>2, <1>3, <1>4, <1>5, <1>6, <1>7, <1>8, Zenon

\* CloseSession on an active Session.
LEMMA CloseSessionInd ==
  ASSUME IndInv, NEW s \in Sessions, CloseSession(s)
  PROVE  IndInv'
<1>a. UNCHANGED <<wsVars, groupVars, createVars, inside, plan, kids, sjoined, xgroup, execVars>>
  BY Zenon DEF CloseSession
<1>b. UNCHANGED <<groups, gate, creators, members, gworker, todo, current, gjoined, owedS, create>>
  BY <1>a, Zenon DEF groupVars, createVars
<1>1. /\ execType' /\ ExecutionInv' /\ sessionType' /\ SessionInv' /\ ListInv' /\ CollectInv'
      /\ panicked' \in BOOLEAN /\ NoPanic'
      /\ \A t \in Sessions : /\ Registered(entry'[t]) <=> Registered(entry[t])
                             /\ entry'[t] = "none" <=> entry[t] = "none"
                             /\ children'[t] = "closed" <=> children[t] = "closed"
  BY <1>a, <1>b, BeginCloseSessionInd, Zenon DEF CloseSession
<1>2. /\ wsType' /\ createType' /\ MemberInv' /\ CreatorInv' /\ RegisteredInv' /\ HookInv'
      /\ ShutdownInv'
  BY <1>a, <1>b, <1>1, HeldFrame, Zenon DEF Registered
<1>3. groupType'
  BY <1>b, Zenon DEF IndInv, TypeOK, groupType
<1>4. WorkerInv'
  <2>1. \A h \in Groups : gjoined[h] \in SUBSET Sessions
    BY Zenon DEF IndInv, TypeOK, groupType
  <2> QED BY <1>b, <1>1, <2>1, WorkerFrame, Zenon DEF IndInv, WorkerInv
<1> QED BY <1>1, <1>2, <1>3, <1>4, Zenon DEF IndInv, TypeOK

\* waitForRuntimeCreates and beginSessionClose: with no call inside the gate,
\* an Execution that is not in the list taken has left the registry.
LEMMA BeginSessionCloseInd ==
  ASSUME IndInv, NEW s \in Sessions, beginSessionClose(s)
  PROVE  IndInv'
<1>a. TypeOK
  BY Zenon DEF IndInv
<1>b. UNCHANGED <<wsVars, groupVars, createVars, entry, children, inside, plan, sjoined, owedX,
                  launch, parent, run>>
  BY Zenon DEF beginSessionClose
<1>c. /\ sworker[s] = "drain" /\ inside[s] = {} /\ ~Collected(s)
      /\ sworker' = [sworker EXCEPT ![s] = "children"]
      /\ kids' = [kids EXCEPT ![s] = xgroup[s].entries]
  BY Zenon DEF beginSessionClose, Collected
<1>d. /\ \A t \in Sessions \ {s} : xgroup'[t] = xgroup[t]
      /\ xgroup'[s].state = "none" => xgroup'[s].entries = {}
      /\ xgroup' \in [Sessions ->
                       [state : {"none", "active", "closing"}, entries : SUBSET Executions]]
  BY <1>a DEF beginSessionClose, TypeOK, sessionType, NoGroup
<1>1. /\ execType' /\ ExecutionInv'
      /\ panicked' \in BOOLEAN /\ NoPanic'
      /\ \A d \in Executions : /\ Registered(xentry'[d]) <=> Registered(xentry[d])
                               /\ xclose[d] = "finished" => xclose'[d] = "finished"
  <2>1. xgroup[s].entries \in SUBSET Executions
    BY <1>a, Zenon DEF TypeOK, sessionType
  <2> QED BY <1>b, <2>1, BeginCloseLockedInd, Zenon DEF beginSessionClose
<1>2. wsType' /\ groupType' /\ createType' /\ MemberInv' /\ CreatorInv' /\ WorkerInv'
        /\ RegisteredInv' /\ HookInv' /\ ShutdownInv'
  BY <1>b, GroupsFrame, Zenon
<1>3. sessionType'
  BY <1>a, <1>b, <1>c, <1>d, Zenon DEF TypeOK, sessionType
<1>4. SessionInv'
  <2>1. /\ sworker'[s] = "children" /\ create' = create
        /\ \A t \in Sessions \ {s} : sworker'[t] = sworker[t]
    BY <1>a, <1>b, <1>c, Zenon DEF TypeOK, sessionType, createVars
  <2> SUFFICES ASSUME NEW t \in Sessions PROVE SessionOf(t)'
    BY Zenon DEF SessionInv
  <2>2. SessionOf(t)
    BY Zenon DEF IndInv, SessionInv
  <2>3. CASE t = s
    BY <1>b, <1>c, <2>1, <2>2, <2>3, Zenon DEF SessionOf
  <2>4. CASE t # s
    BY <1>b, <2>1, <2>2, <2>4, SessionFrame, Zenon
  <2> QED BY <2>3, <2>4, Zenon
<1>5. ListInv'
  <2>1. Collected(s)' /\ sworker'[s] # "drain"
    BY <1>a, <1>c, Zenon DEF Collected, TypeOK, sessionType
  <2>2. \A t \in Sessions \ {s} : sworker'[t] = sworker[t]
    BY <1>a, <1>c, Zenon DEF TypeOK, sessionType
  <2> SUFFICES ASSUME NEW t \in Sessions PROVE ListOf(t)'
    BY Zenon DEF ListInv
  <2>3. ListOf(t)
    BY Zenon DEF IndInv, ListInv
  <2>4. CASE t = s
    BY <1>d, <2>1, <2>4, Zenon DEF ListOf
  <2>5. CASE t # s
    BY <1>1, <1>b, <1>d, <2>2, <2>3, <2>5, ListFrame, Zenon
  <2> QED BY <2>4, <2>5, Zenon
<1>6. CollectInv'
  <2>1. \A d \in Executions : parent[d] = s => d \in xgroup[s].entries \/ xclose[d] = "finished"
    <3> SUFFICES ASSUME NEW d \in Executions, parent[d] = s, d \notin xgroup[s].entries
                 PROVE  xclose[d] = "finished"
      OBVIOUS
    <3>1. ~Registered(xentry[d])
      BY <1>c, Zenon DEF IndInv, ListInv, ListOf
    <3>2. parent[d] # None /\ launch[d] \notin {"admitted", "leaving"}
      BY <1>c, NoneIsNew, Zenon DEF IndInv, ExecutionInv, ExecutionOf
    <3>3. xentry[d] \in {"none", "removed"}
      BY <1>a, <3>1, Zenon DEF Registered, TypeOK, execType
    <3>4. launch[d] \in {"idle", "admitted", "leaving", "ended"} /\ ExecutionOf(d)
      BY <1>a, Zenon DEF TypeOK, execType, IndInv, ExecutionInv
    <3> QED BY <3>2, <3>3, <3>4, Zenon DEF ExecutionOf
  <2>2. owedX[s] \subseteq xgroup[s].entries
    BY <1>c, Zenon DEF IndInv, ListInv, ListOf
  <2>3. \A t \in Sessions \ {s} : sworker'[t] = sworker[t] /\ kids'[t] = kids[t]
    BY <1>a, <1>c, Zenon DEF TypeOK, sessionType
  <2>4. sworker'[s] = "children" /\ kids'[s] = xgroup[s].entries
    BY <1>a, <1>c, Zenon DEF TypeOK, sessionType
  <2> SUFFICES ASSUME NEW t \in Sessions PROVE CollectOf(t)'
    BY Zenon DEF CollectInv
  <2>5. CollectOf(t) /\ sjoined[t] \in SUBSET Executions
    BY <1>a, Zenon DEF IndInv, CollectInv, TypeOK, sessionType
  <2>6. CASE t = s
    <3>1. \A d \in Executions : parent[d] = s => d \in kids'[s] \/ xclose'[d] = "finished"
      BY <1>1, <2>1, <2>4, Zenon
    <3>2. \A d \in sjoined[s] : xclose'[d] = "finished"
      BY <1>1, <2>5, <2>6, Zenon DEF CollectOf
    <3> QED BY <1>b, <1>c, <2>2, <2>4, <2>6, <3>1, <3>2, Zenon DEF CollectOf
  <2>7. CASE t # s
    BY <1>1, <1>b, <2>3, <2>5, <2>7, CollectFrame, Zenon
  <2> QED BY <2>6, <2>7, Zenon
<1> QED BY <1>1, <1>2, <1>3, <1>4, <1>5, <1>6, Zenon DEF IndInv, TypeOK

\* The Session's worker joins the results of the list, forgets the group and
\* closes the Plan; the levels above see none of it.
LEMMA SettleChildrenInd ==
  ASSUME IndInv, NEW s \in Sessions,
         (\E e \in Executions : waitChild(s, e)) \/ finishSessionClose(s) \/ closePlans(s)
  PROVE  IndInv'
<1>a. TypeOK
  BY Zenon DEF IndInv
<1>b. UNCHANGED <<wsVars, groupVars, createVars, entry, children, inside, kids, owedX, launch,
                  parent, xentry, run, xclose, xworker, panicked>>
  BY Zenon DEF waitChild, finishSessionClose, closePlans, execVars
<1>c. create' = create
  BY <1>b, Zenon DEF createVars
<1>1. panicked' \in BOOLEAN /\ NoPanic'
  BY <1>a, <1>b, Zenon DEF TypeOK, NoPanic, IndInv
<1>2. wsType' /\ groupType' /\ createType' /\ MemberInv' /\ CreatorInv' /\ WorkerInv'
        /\ RegisteredInv' /\ HookInv' /\ ShutdownInv'
  BY <1>b, GroupsFrame, Zenon
<1>3. execType' /\ ExecutionInv'
  BY <1>a, <1>b, Zenon DEF TypeOK, execType, IndInv, ExecutionInv, ExecutionOf
<1>4. CASE \E e \in Executions : waitChild(s, e)
  <2>1. PICK e \in Executions : waitChild(s, e)
    BY <1>4, Zenon
  <2>2. /\ UNCHANGED <<plan, sworker, xgroup>>
        /\ sworker[s] = "children" /\ xclose[e] = "finished"
        /\ sjoined' = [sjoined EXCEPT ![s] = @ \cup {e}]
    BY <2>1, Zenon DEF waitChild
  <2>3. sessionType'
    <3>1. sjoined[s] \cup {e} \in SUBSET Executions
      BY <1>a, Zenon DEF TypeOK, sessionType
    <3>2. sjoined' \in [Sessions -> SUBSET Executions]
      BY <1>a, <2>2, <3>1 DEF TypeOK, sessionType
    <3> QED BY <1>a, <1>b, <2>2, <3>2, Zenon DEF TypeOK, sessionType
  <2>4. SessionInv' /\ ListInv'
    BY <1>b, <1>c, <2>2, SessionFrame, ListFrame, Zenon DEF IndInv, SessionInv, ListInv
  <2>5. CollectInv'
    <3> SUFFICES ASSUME NEW t \in Sessions PROVE CollectOf(t)'
      BY Zenon DEF CollectInv
    <3>1. CollectOf(t) /\ sjoined[t] \in SUBSET Executions
      BY <1>a, Zenon DEF IndInv, CollectInv, TypeOK, sessionType
    <3>2. CASE t = s
      <4>1. sjoined'[s] = sjoined[s] \cup {e}
        BY <1>a, <2>2, Zenon DEF TypeOK, sessionType
      <4> QED BY <1>b, <2>2, <3>1, <3>2, <4>1, Zenon DEF CollectOf, Collected
    <3>3. CASE t # s
      <4>1. sjoined'[t] = sjoined[t]
        BY <1>a, <2>2, <3>3, Zenon DEF TypeOK, sessionType
      <4> QED BY <1>b, <2>2, <3>1, <4>1, CollectFrame, Zenon
    <3> QED BY <3>2, <3>3, Zenon
  <2> QED BY <1>1, <1>2, <1>3, <2>3, <2>4, <2>5, Zenon DEF IndInv, TypeOK
<1>5. CASE finishSessionClose(s)
  <2>1. /\ UNCHANGED <<plan, sjoined>>
        /\ sworker[s] = "children" /\ kids[s] = sjoined[s]
        /\ sworker' = [sworker EXCEPT ![s] = "plans"]
        /\ xgroup' = [xgroup EXCEPT ![s] = NoGroup]
    BY <1>5, Zenon DEF finishSessionClose
  <2>2. sessionType'
    BY <1>a, <1>b, <2>1, Zenon DEF TypeOK, sessionType, NoGroup
  <2>6. /\ sworker'[s] = "plans" /\ xgroup'[s].state = "none" /\ xgroup'[s].entries = {}
        /\ \A t \in Sessions \ {s} : sworker'[t] = sworker[t] /\ xgroup'[t] = xgroup[t]
    BY <1>a, <2>1, Zenon DEF TypeOK, sessionType, NoGroup
  <2> SUFFICES ASSUME NEW t \in Sessions PROVE SessionOf(t)' /\ ListOf(t)' /\ CollectOf(t)'
    BY <1>1, <1>2, <1>3, <2>2, Zenon DEF IndInv, TypeOK, SessionInv, ListInv, CollectInv
  <2>3. SessionOf(t) /\ ListOf(t) /\ CollectOf(t) /\ sjoined[t] \in SUBSET Executions
    BY <1>a, Zenon DEF IndInv, SessionInv, ListInv, CollectInv, TypeOK, sessionType
  <2>4. CASE t = s
    <3>1. SessionOf(s)'
      BY <1>b, <1>c, <2>1, <2>3, <2>4, <2>6, Zenon DEF SessionOf
    <3>2. ListOf(s)'
      BY <2>6, Zenon DEF ListOf, Collected
    <3>3. CollectOf(s)'
      BY <1>b, <2>1, <2>3, <2>4, <2>6, Zenon DEF CollectOf, Collected
    <3> QED BY <2>4, <3>1, <3>2, <3>3, Zenon
  <2>5. CASE t # s
    BY <1>b, <1>c, <2>1, <2>3, <2>5, <2>6, SessionFrame, ListFrame, CollectFrame, Zenon
  <2> QED BY <2>4, <2>5, Zenon
<1>6. CASE closePlans(s)
  <2>1. /\ UNCHANGED <<xgroup, sjoined>>
        /\ sworker[s] = "plans"
        /\ sworker' = [sworker EXCEPT ![s] = "publish"]
        /\ plan' = [plan EXCEPT ![s] = "closed"]
    BY <1>6, Zenon DEF closePlans
  <2>2. sessionType'
    BY <1>a, <1>b, <2>1, Zenon DEF TypeOK, sessionType
  <2>6. /\ sworker'[s] = "publish" /\ plan'[s] = "closed"
        /\ \A t \in Sessions \ {s} : sworker'[t] = sworker[t] /\ plan'[t] = plan[t]
    BY <1>a, <2>1, Zenon DEF TypeOK, sessionType
  <2> SUFFICES ASSUME NEW t \in Sessions PROVE SessionOf(t)' /\ ListOf(t)' /\ CollectOf(t)'
    BY <1>1, <1>2, <1>3, <2>2, Zenon DEF IndInv, TypeOK, SessionInv, ListInv, CollectInv
  <2>3. SessionOf(t) /\ ListOf(t) /\ CollectOf(t) /\ sjoined[t] \in SUBSET Executions
    BY <1>a, Zenon DEF IndInv, SessionInv, ListInv, CollectInv, TypeOK, sessionType
  <2>4. CASE t = s
    <3>1. SessionOf(s)'
      BY <1>b, <1>c, <2>1, <2>3, <2>4, <2>6, Zenon DEF SessionOf
    <3>2. ListOf(s)'
      BY <2>1, <2>3, <2>4, <2>6, Zenon DEF ListOf, Collected
    <3>3. CollectOf(s)'
      BY <1>b, <2>1, <2>3, <2>4, <2>6, Zenon DEF CollectOf, Collected
    <3> QED BY <2>4, <3>1, <3>2, <3>3, Zenon
  <2>5. CASE t # s
    BY <1>b, <1>c, <2>1, <2>3, <2>5, <2>6, SessionFrame, ListFrame, CollectFrame, Zenon
  <2> QED BY <2>4, <2>5, Zenon
<1> QED BY <1>4, <1>5, <1>6, Zenon

\* session.finishClose: no call is inside the gate, so it closes without a
\* panic, and the Session holds nothing from here on.
LEMMA PublishCloseInd ==
  ASSUME IndInv, NEW s \in Sessions, publishClose(s)
  PROVE  IndInv'
<1>a. TypeOK
  BY Zenon DEF IndInv
<1>b. UNCHANGED <<wsVars, groupVars, createVars, entry, inside, plan, kids, sjoined, owedX, xgroup,
                  launch, parent, xentry, run, xclose, xworker>>
  BY Zenon DEF publishClose, execVars
<1>c. UNCHANGED <<ws, hookGroup, closed, shutdown, awaited, groups, gate, creators, members,
                  gworker, todo, current, gjoined, owedS, create, wsOf, groupOf>>
  BY <1>b, Zenon DEF wsVars, groupVars, createVars
<1>d. /\ sworker[s] = "publish"
      /\ sworker' = [sworker EXCEPT ![s] = "remove"]
      /\ children' = [children EXCEPT ![s] = "closed"]
  BY Zenon DEF publishClose
<1>e. \A t \in Sessions : children[t] = "closed" => children'[t] = "closed"
  BY <1>a, <1>d, Zenon DEF TypeOK, sessionType
<1>1. panicked' \in BOOLEAN /\ NoPanic'
  <2>1. inside[s] = {}
    BY <1>d, Zenon DEF IndInv, CollectInv, CollectOf, Collected
  <2> QED BY <1>a, <2>1, Zenon DEF publishClose, TypeOK, NoPanic, IndInv
<1>2. wsType' /\ groupType' /\ createType'
  BY <1>a, <1>c, Zenon DEF TypeOK, wsType, groupType, createType
<1>3. sessionType'
  BY <1>a, <1>b, <1>d, Zenon DEF TypeOK, sessionType
<1>4. execType' /\ ExecutionInv'
  BY <1>a, <1>b, Zenon DEF TypeOK, execType, IndInv, ExecutionInv, ExecutionOf
<1>f. /\ sworker'[s] = "remove" /\ children'[s] = "closed"
      /\ \A t \in Sessions \ {s} : sworker'[t] = sworker[t] /\ children'[t] = children[t]
  BY <1>a, <1>d, Zenon DEF TypeOK, sessionType
<1>5. SessionInv' /\ ListInv' /\ CollectInv'
  <2> SUFFICES ASSUME NEW t \in Sessions PROVE SessionOf(t)' /\ ListOf(t)' /\ CollectOf(t)'
    BY Zenon DEF SessionInv, ListInv, CollectInv
  <2>1. SessionOf(t) /\ ListOf(t) /\ CollectOf(t) /\ sjoined[t] \in SUBSET Executions
    BY <1>a, Zenon DEF IndInv, SessionInv, ListInv, CollectInv, TypeOK, sessionType
  <2>2. CASE t = s
    <3>1. SessionOf(s)'
      BY <1>b, <1>c, <1>d, <1>f, <2>1, <2>2, Zenon DEF SessionOf
    <3>2. ListOf(s)'
      BY <1>b, <1>d, <1>f, <2>1, <2>2, Zenon DEF ListOf, Collected
    <3>3. CollectOf(s)'
      BY <1>b, <1>d, <1>f, <2>1, <2>2, Zenon DEF CollectOf, Collected
    <3> QED BY <2>2, <3>1, <3>2, <3>3, Zenon
  <2>3. CASE t # s
    BY <1>b, <1>c, <1>f, <2>1, <2>3, SessionFrame, ListFrame, CollectFrame, Zenon
  <2> QED BY <2>2, <2>3, Zenon
<1>8. MemberInv' /\ CreatorInv'
  BY <1>b, <1>c, Zenon DEF IndInv, MemberInv, CreatorInv, Creating, Registered
<1>9. WorkerInv'
  BY <1>a, <1>c, <1>e, Zenon DEF IndInv, WorkerInv, WorkerOf, Accepting, TypeOK, groupType
<1>10. RegisteredInv'
  BY <1>b, <1>c, <1>e, Zenon DEF IndInv, RegisteredInv, GroupWorkspace, Creating, Held, Registered
<1>11. HookInv'
  BY <1>b, <1>c, <1>e, Zenon DEF IndInv, HookInv, Compiled, Held, Registered
<1>12. ShutdownInv'
  BY <1>b, <1>c, <1>e, Zenon DEF IndInv, ShutdownInv, Creating, Held, Registered
<1> QED BY <1>1, <1>2, <1>3, <1>4, <1>5, <1>8, <1>9, <1>10, <1>11, <1>12, Zenon DEF IndInv, TypeOK

\* sessionRegistry.finishClose: whichever group the workspace ID resolves to by
\* now, it is discarded only when it holds neither a call nor a Session.
LEMMA RemoveSessionInd ==
  ASSUME IndInv, NEW s \in Sessions, removeSession(s)
  PROVE  IndInv'
<1> DEFINE w == wsOf[s]
           g == groups[w]
<1>a. TypeOK
  BY Zenon DEF IndInv
<1>b. UNCHANGED <<ws, hookGroup, closed, shutdown, awaited, gate, creators, gworker, todo, current,
                  gjoined, owedS, create, wsOf, groupOf, children, inside, plan, kids, sjoined,
                  owedX, xgroup, launch, parent, xentry, run, xclose, xworker, panicked>>
  BY Zenon DEF removeSession, wsVars, createVars, execVars
<1>c. /\ sworker[s] = "remove" /\ children[s] = "closed" /\ entry[s] = "closing"
      /\ create[s] # "idle" /\ w \in Workspaces
  BY <1>a, Zenon DEF removeSession, IndInv, SessionInv, SessionOf, MemberInv, TypeOK, sessionType
<1>d. /\ sworker' = [sworker EXCEPT ![s] = "done"]
      /\ entry' = [entry EXCEPT ![s] = "removed"]
  BY Zenon DEF removeSession
<1>e. \/ UNCHANGED <<groups, members>>
      \/ /\ g \in Groups /\ Accepting(g)
         /\ members' = [members EXCEPT ![g] = @ \ {s}]
         /\ \/ UNCHANGED groups
            \/ /\ members'[g] = {} /\ creators[g] = {}
               /\ groups' = [groups EXCEPT ![w] = None]
  BY Zenon DEF removeSession
<1>f. g \in Groups \cup {None}
  BY <1>a, <1>c, Zenon DEF TypeOK, groupType
<1>g. w = wsOf[s] /\ g = groups[w]
  OBVIOUS
<1> HIDE DEF w, g
<1>h. \A t \in Sessions : t # s => entry'[t] = entry[t] /\ sworker'[t] = sworker[t]
  BY <1>a, <1>d, Zenon DEF TypeOK, sessionType
<1>i. entry'[s] = "removed" /\ sworker'[s] = "done"
  BY <1>a, <1>d, Zenon DEF TypeOK, sessionType
<1>1. panicked' \in BOOLEAN /\ NoPanic' /\ wsType' /\ createType'
  BY <1>a, <1>b, Zenon DEF TypeOK, wsType, createType, NoPanic, IndInv
<1>2. groupType'
  BY <1>a, <1>b, <1>c, <1>e, ZenonT(30) DEF TypeOK, groupType
<1>3. sessionType'
  BY <1>a, <1>b, <1>d, Zenon DEF TypeOK, sessionType
<1>4. execType'
  BY <1>a, <1>b, Zenon DEF TypeOK, execType
<1>5. ExecutionInv'
  <2>1. \A t \in Sessions : entry'[t] = "none" => entry[t] = "none"
    BY <1>h, <1>i, Zenon
  <2>2. \A d \in Executions : parent[d] \in Sessions \cup {None}
    BY <1>a, Zenon DEF TypeOK, execType
  <2> QED BY <1>b, <2>1, <2>2, ExecutionFrame, Zenon DEF IndInv, ExecutionInv
<1>6. SessionInv' /\ ListInv' /\ CollectInv'
  <2> SUFFICES ASSUME NEW t \in Sessions PROVE SessionOf(t)' /\ ListOf(t)' /\ CollectOf(t)'
    BY Zenon DEF SessionInv, ListInv, CollectInv
  <2>1. SessionOf(t) /\ ListOf(t) /\ CollectOf(t) /\ sjoined[t] \in SUBSET Executions
    BY <1>a, Zenon DEF IndInv, SessionInv, ListInv, CollectInv, TypeOK, sessionType
  <2>2. CASE t = s
    <3>1. SessionOf(s)'
      BY <1>b, <1>c, <1>i, <2>1, <2>2, Zenon DEF SessionOf
    <3>2. ListOf(s)'
      BY <1>b, <1>c, <1>i, <2>1, <2>2, Zenon DEF ListOf, Collected
    <3>3. CollectOf(s)'
      BY <1>b, <1>c, <1>i, <2>1, <2>2, Zenon DEF CollectOf, Collected
    <3> QED BY <2>2, <3>1, <3>2, <3>3, Zenon
  <2>3. CASE t # s
    BY <1>b, <1>h, <2>1, <2>3, SessionFrame, ListFrame, CollectFrame, Zenon
  <2> QED BY <2>2, <2>3, Zenon
<1>7. \A h \in Groups : members'[h] = members[h] \/ (Accepting(h) /\ members'[h] = members[h] \ {s})
  BY <1>a, <1>e, ZenonT(40) DEF TypeOK, groupType
<1>8. MemberInv'
  <2>1. ASSUME NEW t \in Sessions, t # s, groupOf[t] \in Groups, t \in members[groupOf[t]]
        PROVE  t \in members'[groupOf[t]]
    BY <1>7, <2>1, Zenon
  <2> QED BY <1>a, <1>b, <1>c, <1>h, <1>i, <2>1, Zenon
          DEF IndInv, MemberInv, Creating, Registered, TypeOK, createType
<1>9. CreatorInv'
  BY <1>b, Zenon DEF IndInv, CreatorInv, Creating
<1>10. WorkerInv'
  <2> SUFFICES ASSUME NEW h \in Groups PROVE WorkerOf(h)'
    BY Zenon DEF WorkerInv
  <2>1. WorkerOf(h) /\ gjoined[h] \in SUBSET Sessions
    BY <1>a, Zenon DEF IndInv, WorkerInv, TypeOK, groupType
  <2>2. CASE members'[h] = members[h]
    BY <1>b, <2>1, <2>2, WorkerFrame, Zenon
  <2>3. CASE Accepting(h)
    BY <1>b, <2>1, <2>3, Zenon DEF WorkerOf, Accepting
  <2> QED BY <1>7, <2>2, <2>3, Zenon
<1>11. RegisteredInv'
  <2>1. ASSUME NEW v \in Workspaces, groups'[v] # None
        PROVE  (GroupWorkspace(groups[v]) = v
                  /\ (groups[v] \in Sessions => create[groups[v]] # "idle"))'
    <3>1. groups'[v] = groups[v]
      BY <1>a, <1>c, <1>e, <2>1, Zenon DEF TypeOK, groupType
    <3> QED BY <1>b, <2>1, <3>1, Zenon DEF IndInv, RegisteredInv, GroupWorkspace
  <2>2. ASSUME NEW t \in Sessions, (Creating(t) \/ Held(t))'
        PROVE  groups'[wsOf'[t]] = groupOf'[t]
    <3>1. Creating(t) \/ Held(t)
      BY <1>b, <1>c, <1>h, <2>2, Zenon DEF Creating, Held, Registered
    <3>2. groups[wsOf[t]] = groupOf[t] /\ groupOf[t] \in Groups /\ wsOf[t] \in Workspaces
      BY <3>1, HeldIsRegistered, Zenon
    <3>3. t \in creators[groupOf[t]] \/ t \in members'[groupOf[t]]
      BY <1>8, <1>b, <2>2, <3>2, Zenon DEF IndInv, CreatorInv, MemberInv, Creating, Held
    <3> QED BY <1>a, <1>b, <1>c, <1>e, <1>g, <3>2, <3>3, Zenon DEF TypeOK, groupType
  <2> QED BY <2>1, <2>2, Zenon DEF RegisteredInv
<1>12. \A t \in Sessions : Held(t)' => Held(t)
  BY <1>b, <1>c, <1>h, Zenon DEF Held, Registered
<1>13. HookInv'
  BY <1>b, <1>12, Zenon DEF IndInv, HookInv, Compiled
<1>14. ShutdownInv'
  BY <1>b, <1>12, Zenon DEF IndInv, ShutdownInv, Creating
<1> QED BY <1>1, <1>2, <1>3, <1>4, <1>5, <1>6, <1>8, <1>9, <1>10, <1>11, <1>13, <1>14, Zenon
        DEF IndInv, TypeOK
-----------------------------------------------------------------------------
(* Workspace close and shutdown *)

\* Marking the groups closing: what is registered in each of them is among its
\* members, which the worker will take.
LEMMA BeginGroupCloseInd ==
  ASSUME IndInv, NEW gs \in SUBSET Groups, beginGroupClose(gs),
         UNCHANGED <<creators, members, todo, current, gjoined, createVars, sessionVars>>
  PROVE  /\ gate' \in [Groups -> {"new", "open", "closing", "closed"}]
         /\ gworker' \in [Groups -> {"none", "drain", "sessions", "done"}]
         /\ owedS' \in [Groups -> SUBSET Sessions]
         /\ MemberInv' /\ CreatorInv' /\ WorkerInv'
         /\ \A g \in Groups : gate[g] = "closed" => gate'[g] = "closed"
<1>a. TypeOK
  BY Zenon DEF IndInv
<1> DEFINE owned == {g \in gs : Accepting(g)}
<1>b. /\ gate' = [g \in Groups |-> IF g \in owned THEN "closing" ELSE gate[g]]
      /\ gworker' = [g \in Groups |-> IF g \in owned THEN "drain" ELSE gworker[g]]
      /\ owedS' = [g \in Groups |->
                     IF g \in owned
                     THEN {s \in Sessions : groupOf[s] = g /\ Registered(entry[s])}
                     ELSE owedS[g]]
  BY Zenon DEF beginGroupClose
<1>c. \A g \in owned : gate[g] \in {"new", "open"} /\ gworker[g] = "none"
  BY Zenon DEF IndInv, WorkerInv, WorkerOf, Accepting
<1>d. \A g \in Groups : {s \in Sessions : groupOf[s] = g /\ Registered(entry[s])} \subseteq members[g]
  BY Zenon DEF IndInv, MemberInv
<1>e. UNCHANGED <<create, wsOf, groupOf, entry, children>>
  BY Zenon DEF createVars, sessionVars
<1> HIDE DEF owned
<1>1. /\ gate' \in [Groups -> {"new", "open", "closing", "closed"}]
      /\ gworker' \in [Groups -> {"none", "drain", "sessions", "done"}]
      /\ owedS' \in [Groups -> SUBSET Sessions]
  BY <1>a, <1>b, Zenon DEF TypeOK, groupType
<1>2. MemberInv' /\ CreatorInv'
  BY <1>e, Zenon DEF IndInv, MemberInv, CreatorInv, Creating, Registered
<1>3. WorkerInv'
  <2> SUFFICES ASSUME NEW g \in Groups PROVE WorkerOf(g)'
    BY Zenon DEF WorkerInv
  <2>1. WorkerOf(g) /\ gjoined[g] \in SUBSET Sessions
    BY <1>a, Zenon DEF IndInv, WorkerInv, TypeOK, groupType
  <2>2. CASE g \in owned
    <3>1. gate'[g] = "closing" /\ gworker'[g] = "drain" /\ owedS'[g] \subseteq members[g]
      BY <1>b, <1>d, <2>2, Zenon
    <3> QED BY <1>c, <1>e, <2>1, <2>2, <3>1, Zenon DEF WorkerOf, Accepting
  <2>3. CASE g \notin owned
    <3>1. gate'[g] = gate[g] /\ gworker'[g] = gworker[g] /\ owedS'[g] = owedS[g]
      BY <1>b, <2>3, Zenon
    <3> QED BY <1>e, <2>1, <3>1, WorkerFrame, Zenon
  <2> QED BY <2>2, <2>3, Zenon
<1>4. \A g \in Groups : gate[g] = "closed" => gate'[g] = "closed"
  BY <1>b, <1>c, Zenon
<1> QED BY <1>1, <1>2, <1>3, <1>4, Zenon

\* A step of a workspace, of a group or of the shutdown that touches no Session
\* leaves the levels below as they are.
LEMMA BelowFrame ==
  ASSUME IndInv, UNCHANGED <<createVars, sessionVars, xgroup, execVars>>
  PROVE  createType' /\ sessionType' /\ execType' /\ ExecutionInv' /\ SessionInv' /\ ListInv'
           /\ CollectInv'
<1>a. UNCHANGED <<create, wsOf, groupOf, entry, children, inside, plan, sworker, kids, sjoined,
                  owedX>>
  BY Zenon DEF createVars, sessionVars
<1>1. createType' /\ sessionType'
  BY <1>a, Zenon DEF IndInv, TypeOK, createType, sessionType
<1>2. SessionInv'
  BY <1>a, Zenon DEF IndInv, SessionInv, SessionOf
<1>3. execType' /\ ExecutionInv' /\ ListInv' /\ CollectInv'
  BY <1>a, ChildFrame, Zenon
<1> QED BY <1>1, <1>2, <1>3, Zenon

\* workspace.Manager.beginClose and the return of the hook.
LEMMA WorkspaceEntryInd ==
  ASSUME IndInv, NEW w \in Workspaces, closeWorkspaceEntry(w) \/ hookReturned(w)
  PROVE  IndInv'
<1>a. TypeOK
  BY Zenon DEF IndInv
<1>b. UNCHANGED <<hookGroup, closed, shutdown, awaited, groups, gate, creators, members, gworker,
                  todo, current, gjoined, owedS, createVars, sessionVars, xgroup, execVars, panicked>>
  BY Zenon DEF closeWorkspaceEntry, hookReturned, groupVars
<1>c. UNCHANGED <<create, wsOf, groupOf, entry, children>>
  BY <1>b, Zenon DEF createVars, sessionVars
<1>d. \/ ws' = [ws EXCEPT ![w] = "closing"] /\ ws[w] = "active"
      \/ ws' = [ws EXCEPT ![w] = "closed"] /\ ws[w] = "hook" /\ gate[hookGroup[w]] = "closed"
  BY Zenon DEF closeWorkspaceEntry, hookReturned
<1>1. /\ createType' /\ sessionType' /\ execType' /\ ExecutionInv' /\ SessionInv' /\ ListInv'
      /\ CollectInv'
  BY <1>b, BelowFrame, Zenon
<1>2. panicked' \in BOOLEAN /\ NoPanic'
  BY <1>a, <1>b, Zenon DEF TypeOK, NoPanic, IndInv
<1>3. groupType' /\ MemberInv' /\ CreatorInv' /\ WorkerInv'
  <2>1. groupType' /\ MemberInv' /\ CreatorInv'
    BY <1>a, <1>b, <1>c, Zenon
    DEF TypeOK, groupType, IndInv, MemberInv, CreatorInv, Creating, Registered
  <2>2. \A g \in Groups : WorkerOf(g) /\ gjoined[g] \in SUBSET Sessions
    BY <1>a, Zenon DEF IndInv, WorkerInv, TypeOK, groupType
  <2>3. WorkerInv'
    BY <1>b, <1>c, <2>2, WorkerFrame, Zenon DEF WorkerInv
  <2> QED BY <2>1, <2>3, Zenon
<1>4. wsType'
  BY <1>a, <1>b, <1>d, Zenon DEF TypeOK, wsType
<1>5. RegisteredInv' /\ ShutdownInv'
  BY <1>b, <1>c, Zenon
  DEF IndInv, RegisteredInv, ShutdownInv, GroupWorkspace, Creating, Held, Registered
<1>6. HookInv'
  <2>1. /\ ws'[w] \in {"closing", "closed"}
        /\ ws'[w] = "closed" => ws[w] = "hook" /\ gate[hookGroup[w]] = "closed"
        /\ \A v \in Workspaces \ {w} : ws'[v] = ws[v]
    BY <1>a, <1>d, Zenon DEF TypeOK, wsType
  <2>2. \A t \in Sessions : (Compiled(t) \/ Held(t))' => Compiled(t) \/ Held(t)
    BY <1>c, Zenon DEF Compiled, Held, Registered
  <2> QED BY <1>b, <1>c, <2>1, <2>2, Zenon DEF IndInv, HookInv
<1> QED BY <1>1, <1>2, <1>3, <1>4, <1>5, <1>6, Zenon DEF IndInv, TypeOK

\* Manager.CloseWorkspace: the group that the workspace ID resolves to holds
\* all that is left of the workspace, or there is none and nothing is left.
LEMMA CloseWorkspaceInd ==
  ASSUME IndInv, NEW w \in Workspaces, CloseWorkspace(w)
  PROVE  IndInv'
<1> DEFINE g == GroupFor(w, w)
<1>a. TypeOK
  BY Zenon DEF IndInv
<1>b. UNCHANGED <<closed, shutdown, awaited, creators, members, todo, current, gjoined,
                  createVars, sessionVars, xgroup, execVars, panicked>>
  BY Zenon DEF CloseWorkspace
<1>c. UNCHANGED <<create, wsOf, groupOf, entry, children>>
  BY <1>b, Zenon DEF createVars, sessionVars
<1>d. g \in Groups /\ (groups[w] = None => g = w) /\ (groups[w] # None => g = groups[w])
  BY <1>a, Zenon DEF GroupFor, Groups, TypeOK, groupType
<1>e. /\ ws' = [ws EXCEPT ![w] = "hook"]
      /\ groups' = [groups EXCEPT ![w] = g]
      /\ hookGroup' = [hookGroup EXCEPT ![w] = g]
      /\ beginGroupClose({g})
  BY Zenon DEF CloseWorkspace
<1> HIDE DEF g
<1>1. /\ createType' /\ sessionType' /\ execType' /\ ExecutionInv' /\ SessionInv' /\ ListInv'
      /\ CollectInv'
  BY <1>b, BelowFrame, Zenon
<1>2. panicked' \in BOOLEAN /\ NoPanic'
  BY <1>a, <1>b, Zenon DEF TypeOK, NoPanic, IndInv
<1>3. /\ gate' \in [Groups -> {"new", "open", "closing", "closed"}]
      /\ gworker' \in [Groups -> {"none", "drain", "sessions", "done"}]
      /\ owedS' \in [Groups -> SUBSET Sessions]
      /\ MemberInv' /\ CreatorInv' /\ WorkerInv'
      /\ \A h \in Groups : gate[h] = "closed" => gate'[h] = "closed"
  BY <1>b, <1>d, <1>e, BeginGroupCloseInd, Zenon
<1>4. groupType' /\ wsType'
  BY <1>3, <1>a, <1>b, <1>d, <1>e, Zenon DEF TypeOK, groupType, wsType
<1>5. \A t \in Sessions : Creating(t) \/ Held(t) =>
        /\ groups[wsOf[t]] = groupOf[t] /\ wsOf[t] \in Workspaces
        /\ wsOf[t] = w => groupOf[t] = g
  BY <1>d, HeldIsRegistered, Zenon
<1>6. RegisteredInv'
  <2>1. ASSUME NEW v \in Workspaces, groups'[v] # None
        PROVE  (GroupWorkspace(groups[v]) = v
                  /\ (groups[v] \in Sessions => create[groups[v]] # "idle"))'
    <3>1. groups'[v] = IF v = w THEN g ELSE groups[v]
      BY <1>a, <1>e, Zenon DEF TypeOK, groupType
    <3>2. CASE groups[v] # None
      BY <1>c, <1>d, <3>1, <3>2, Zenon DEF IndInv, RegisteredInv, GroupWorkspace
    <3>3. CASE groups[v] = None
      <4>1. v = w /\ groups'[v] = v /\ v \notin Sessions
        BY <1>d, <2>1, <3>1, <3>3, NamesDiffer, Zenon
      <4> QED BY <4>1, Zenon DEF GroupWorkspace
    <3> QED BY <3>2, <3>3, Zenon
  <2>2. ASSUME NEW t \in Sessions, (Creating(t) \/ Held(t))'
        PROVE  groups'[wsOf'[t]] = groupOf'[t]
    <3>1. Creating(t) \/ Held(t)
      BY <1>c, <2>2, Zenon DEF Creating, Held, Registered
    <3> QED BY <1>5, <1>a, <1>c, <1>e, <3>1, Zenon DEF TypeOK, groupType
  <2> QED BY <2>1, <2>2, Zenon DEF RegisteredInv
<1>7. HookInv'
  <2>1. \A t \in Sessions : /\ Compiled(t)' <=> Compiled(t)
                            /\ Held(t)' <=> Held(t)
                            /\ Compiled(t) => Creating(t)
    BY <1>c, Zenon DEF Compiled, Held, Registered, Creating
  <2>2. /\ ws'[w] = "hook" /\ hookGroup'[w] = g
        /\ \A v \in Workspaces \ {w} : ws'[v] = ws[v] /\ hookGroup'[v] = hookGroup[v]
    BY <1>a, <1>e, Zenon DEF TypeOK, wsType
  <2> SUFFICES ASSUME NEW v \in Workspaces
               PROVE  /\ ws'[v] \in {"hook", "closed"} =>
                           /\ hookGroup'[v] \in Groups
                           /\ \A t \in Sessions : wsOf[t] = v /\ (Compiled(t) \/ Held(t))
                                                    => groupOf[t] = hookGroup'[v]
                      /\ ws'[v] = "closed" => gate'[hookGroup'[v]] = "closed"
    BY <1>c, <2>1, Zenon DEF HookInv
  <2>3. CASE v = w
    BY <1>5, <1>d, <2>1, <2>2, <2>3, Zenon
  <2>4. CASE v # w
    BY <1>3, <2>2, <2>4, Zenon DEF IndInv, HookInv
  <2> QED BY <2>3, <2>4, Zenon
<1>8. ShutdownInv'
  BY <1>3, <1>a, <1>b, <1>c, Zenon
  DEF IndInv, ShutdownInv, Creating, Held, Registered, TypeOK, wsType
<1> QED BY <1>1, <1>2, <1>3, <1>4, <1>6, <1>7, <1>8, Zenon DEF IndInv, TypeOK

\* Manager.Close: whatever is left is in a registered group, so the groups it
\* captures are all it has to wait for; no call is admitted afterwards.
LEMMA ShutdownInd ==
  ASSUME IndInv, beginShutdown \/ shutdownReturned
  PROVE  IndInv'
<1>a. TypeOK
  BY Zenon DEF IndInv
<1>b. UNCHANGED <<ws, hookGroup, groups, creators, members, todo, current, gjoined, createVars,
                  sessionVars, xgroup, execVars, panicked>>
  BY Zenon DEF beginShutdown, shutdownReturned, groupVars
<1>c. UNCHANGED <<create, wsOf, groupOf, entry, children>>
  BY <1>b, Zenon DEF createVars, sessionVars
<1>1. /\ createType' /\ sessionType' /\ execType' /\ ExecutionInv' /\ SessionInv' /\ ListInv'
      /\ CollectInv'
  BY <1>b, BelowFrame, Zenon
<1>2. panicked' \in BOOLEAN /\ NoPanic'
  BY <1>a, <1>b, Zenon DEF TypeOK, NoPanic, IndInv
<1>3. RegisteredInv'
  BY <1>b, <1>c, Zenon DEF IndInv, RegisteredInv, GroupWorkspace, Creating, Held, Registered
<1>4. CASE beginShutdown
  <2>1. /\ awaited' = {groups[w] : w \in Workspaces} \ {None}
        /\ awaited' \in SUBSET Groups
        /\ shutdown' = "waiting" /\ closed' = TRUE /\ beginGroupClose(awaited')
    BY <1>4, <1>a DEF beginShutdown, TypeOK, groupType
  <2>2. /\ gate' \in [Groups -> {"new", "open", "closing", "closed"}]
        /\ gworker' \in [Groups -> {"none", "drain", "sessions", "done"}]
        /\ owedS' \in [Groups -> SUBSET Sessions]
        /\ MemberInv' /\ CreatorInv' /\ WorkerInv'
        /\ \A h \in Groups : gate[h] = "closed" => gate'[h] = "closed"
    BY <1>b, <2>1, BeginGroupCloseInd, Zenon
  <2>3. groupType' /\ wsType'
    BY <1>a, <1>b, <2>1, <2>2, Zenon DEF TypeOK, groupType, wsType
  <2>4. HookInv'
    <3>1. \A t \in Sessions : (Compiled(t) \/ Held(t))' => Compiled(t) \/ Held(t)
      BY <1>c, Zenon DEF Compiled, Held, Registered
    <3> QED BY <1>b, <1>c, <2>2, <3>1, HookFrame, Zenon DEF IndInv
  <2>5. ShutdownInv'
    <3>1. \A t \in Sessions : Creating(t) \/ Held(t) =>
            /\ groups[wsOf[t]] = groupOf[t] /\ wsOf[t] \in Workspaces
            /\ groupOf[t] # None
      BY HeldIsRegistered, Zenon
    <3>2. \A t \in Sessions : Creating(t) \/ Held(t) => groupOf[t] \in awaited'
      BY <2>1, <3>1, Zenon
    <3> QED BY <1>c, <2>1, <3>2, Zenon DEF ShutdownInv, Creating, Held, Registered
  <2> QED BY <1>1, <1>2, <1>3, <2>2, <2>3, <2>4, <2>5, Zenon DEF IndInv, TypeOK
<1>5. CASE shutdownReturned
  <2>1. /\ UNCHANGED <<closed, awaited, gate, gworker, owedS>>
        /\ shutdown = "waiting" /\ shutdown' = "done"
        /\ \A g \in awaited : gate[g] = "closed"
    BY <1>5, Zenon DEF shutdownReturned, groupVars
  <2>2. groupType' /\ wsType'
    BY <1>a, <1>b, <2>1, Zenon DEF TypeOK, groupType, wsType
  <2>3. MemberInv' /\ CreatorInv' /\ WorkerInv'
    <3>1. MemberInv' /\ CreatorInv'
      BY <1>b, <1>c, Zenon DEF IndInv, MemberInv, CreatorInv, Creating, Registered
    <3>2. \A g \in Groups : WorkerOf(g) /\ gjoined[g] \in SUBSET Sessions
      BY <1>a, Zenon DEF IndInv, WorkerInv, TypeOK, groupType
    <3>3. WorkerInv'
      BY <1>b, <1>c, <2>1, <3>2, WorkerFrame, Zenon DEF WorkerInv
    <3> QED BY <3>1, <3>3, Zenon
  <2>4. HookInv'
    BY <1>b, <1>c, <2>1, Zenon DEF IndInv, HookInv, Compiled, Held, Registered
  <2>5. ShutdownInv'
    BY <1>c, <2>1, Zenon DEF IndInv, ShutdownInv, Creating, Held, Registered
  <2> QED BY <1>1, <1>2, <1>3, <2>2, <2>3, <2>4, <2>5, Zenon DEF IndInv, TypeOK
<1> QED BY <1>4, <1>5, Zenon

\* A group's worker takes the members once no call is inside the gate, and joins
\* the result of each when it is published.
LEMMA GroupWorkerInd ==
  ASSUME IndInv, NEW g \in Groups, retainedSessions(g) \/ joinSession(g)
  PROVE  IndInv'
<1>a. TypeOK
  BY Zenon DEF IndInv
<1>b. UNCHANGED <<ws, hookGroup, closed, shutdown, awaited, groups, gate, creators, members, owedS,
                  createVars, sessionVars, xgroup, execVars, panicked>>
  BY Zenon DEF retainedSessions, joinSession, wsVars
<1>c. UNCHANGED <<create, wsOf, groupOf, entry, children>>
  BY <1>b, Zenon DEF createVars, sessionVars
<1>1. /\ createType' /\ sessionType' /\ execType' /\ ExecutionInv' /\ SessionInv' /\ ListInv'
      /\ CollectInv'
  BY <1>b, BelowFrame, Zenon
<1>2. panicked' \in BOOLEAN /\ NoPanic'
  BY <1>a, <1>b, Zenon DEF TypeOK, NoPanic, IndInv
<1>3. wsType' /\ MemberInv' /\ CreatorInv' /\ RegisteredInv' /\ HookInv' /\ ShutdownInv'
  <2>1. UNCHANGED <<wsVars, createVars, groups, gate, creators, members>>
    BY <1>b, Zenon DEF wsVars
  <2> QED BY <1>c, <2>1, HeldFrame, Zenon
<1>4. groupType' /\ WorkerInv'
  <2>1. CASE retainedSessions(g)
    <3>1. /\ UNCHANGED <<current, gjoined>>
          /\ gworker[g] = "drain" /\ creators[g] = {}
          /\ gworker' = [gworker EXCEPT ![g] = "sessions"]
          /\ todo' = [todo EXCEPT ![g] = members[g]]
      BY <2>1, Zenon DEF retainedSessions
    <3>2. groupType'
      BY <1>a, <1>b, <3>1, Zenon DEF TypeOK, groupType
    <3>3. WorkerInv'
      <4>1. /\ gworker'[g] = "sessions" /\ todo'[g] = members[g]
            /\ \A h \in Groups \ {g} : gworker'[h] = gworker[h] /\ todo'[h] = todo[h]
        BY <1>a, <3>1, Zenon DEF TypeOK, groupType
      <4> SUFFICES ASSUME NEW h \in Groups PROVE WorkerOf(h)'
        BY Zenon DEF WorkerInv
      <4>2. WorkerOf(h) /\ gjoined[h] \in SUBSET Sessions
        BY <1>a, Zenon DEF IndInv, WorkerInv, TypeOK, groupType
      <4>3. CASE h = g
        BY <1>b, <1>c, <3>1, <4>1, <4>2, <4>3, Zenon DEF WorkerOf, Accepting
      <4>4. CASE h # g
        BY <1>b, <1>c, <3>1, <4>1, <4>2, <4>4, WorkerFrame, Zenon
      <4> QED BY <4>3, <4>4, Zenon
    <3> QED BY <3>2, <3>3, Zenon
  <2>2. CASE joinSession(g)
    <3>1. /\ UNCHANGED <<gworker, todo>>
          /\ current[g] \in Sessions /\ children[current[g]] = "closed"
          /\ gjoined' = [gjoined EXCEPT ![g] = @ \cup {current[g]}]
          /\ current' = [current EXCEPT ![g] = None]
      BY <1>a, <2>2, Zenon DEF joinSession, TypeOK, groupType
    <3>2. groupType'
      <4>1. gjoined[g] \cup {current[g]} \in SUBSET Sessions
        BY <1>a, <3>1, Zenon DEF TypeOK, groupType
      <4>2. gjoined' \in [Groups -> SUBSET Sessions]
        BY <1>a, <3>1, <4>1 DEF TypeOK, groupType
      <4> QED BY <1>a, <1>b, <3>1, <4>2, Zenon DEF TypeOK, groupType
    <3>3. WorkerInv'
      <4>1. /\ gjoined'[g] = gjoined[g] \cup {current[g]} /\ current'[g] = None
            /\ \A h \in Groups \ {g} : gjoined'[h] = gjoined[h] /\ current'[h] = current[h]
        BY <1>a, <3>1 DEF TypeOK, groupType
      <4> SUFFICES ASSUME NEW h \in Groups PROVE WorkerOf(h)'
        BY Zenon DEF WorkerInv
      <4>2. WorkerOf(h) /\ gjoined[h] \in SUBSET Sessions
        BY <1>a, Zenon DEF IndInv, WorkerInv, TypeOK, groupType
      <4>3. CASE h = g
        <5>1. WorkerOf(g)
          BY <4>2, <4>3, Zenon
        <5>2. \A t \in gjoined'[g] : children'[t] = "closed"
          BY <1>c, <3>1, <4>1, <5>1, Zenon DEF WorkerOf
        <5>3. gworker[g] \in {"sessions", "done"} =>
                members[g] \subseteq todo[g] \cup {current'[g]} \cup gjoined'[g]
          BY <4>1, <5>1, Zenon DEF WorkerOf
        <5> QED BY <1>b, <3>1, <4>1, <4>3, <5>1, <5>2, <5>3, Zenon DEF WorkerOf, Accepting
      <4>4. CASE h # g
        BY <1>b, <1>c, <3>1, <4>1, <4>2, <4>4, WorkerFrame, Zenon
      <4> QED BY <4>3, <4>4, Zenon
    <3> QED BY <3>2, <3>3, Zenon
  <2> QED BY <2>1, <2>2, Zenon
<1> QED BY <1>1, <1>2, <1>3, <1>4, Zenon DEF IndInv, TypeOK

\* closeSession on a retained member, which may be closing or gone already.
LEMMA CloseRetainedInd ==
  ASSUME IndInv, NEW g \in Groups, NEW s \in Sessions, closeRetained(g, s)
  PROVE  IndInv'
<1>a. TypeOK
  BY Zenon DEF IndInv
<1>b. UNCHANGED <<wsVars, groups, gate, creators, members, gworker, gjoined, owedS, createVars,
                  inside, plan, kids, sjoined, xgroup, execVars>>
  BY Zenon DEF closeRetained
<1>c. create' = create
  BY <1>b, Zenon DEF createVars
<1>d. /\ gworker[g] = "sessions" /\ current[g] = None /\ s \in todo[g]
      /\ todo' = [todo EXCEPT ![g] = @ \ {s}]
      /\ current' = [current EXCEPT ![g] = s]
  BY Zenon DEF closeRetained
<1>1. /\ execType' /\ ExecutionInv' /\ sessionType' /\ SessionInv' /\ ListInv' /\ CollectInv'
      /\ panicked' \in BOOLEAN /\ NoPanic'
      /\ \A t \in Sessions : /\ Registered(entry'[t]) <=> Registered(entry[t])
                             /\ entry'[t] = "none" <=> entry[t] = "none"
                             /\ children'[t] = "closed" <=> children[t] = "closed"
  <2>1. CASE entry[s] = "active"
    <3>1. beginCloseSession(s)
      BY <2>1, Zenon DEF closeRetained
    <3> QED BY <1>b, <1>c, <2>1, <3>1, BeginCloseSessionInd, Zenon
  <2>2. CASE entry[s] # "active"
    <3>1. UNCHANGED <<panicked, entry, children, sworker, owedX>>
      BY <2>2, Zenon DEF closeRetained
    <3>2. execType' /\ ExecutionInv' /\ ListInv' /\ CollectInv'
      BY <1>b, <3>1, ChildFrame, Zenon
    <3>3. sessionType' /\ SessionInv'
      BY <1>a, <1>b, <1>c, <3>1, Zenon DEF TypeOK, sessionType, IndInv, SessionInv, SessionOf
    <3>4. panicked' \in BOOLEAN /\ NoPanic'
      BY <1>a, <3>1, Zenon DEF TypeOK, NoPanic, IndInv
    <3> QED BY <3>1, <3>2, <3>3, <3>4, Zenon
  <2> QED BY <2>1, <2>2, Zenon
<1>2. /\ wsType' /\ createType' /\ MemberInv' /\ CreatorInv' /\ RegisteredInv' /\ HookInv'
      /\ ShutdownInv'
  BY <1>1, <1>b, HeldFrame, Zenon
<1>3. groupType'
  BY <1>a, <1>b, <1>d, Zenon DEF TypeOK, groupType
<1>4. WorkerInv'
  <2>1. /\ todo'[g] = todo[g] \ {s} /\ current'[g] = s
        /\ \A h \in Groups \ {g} : todo'[h] = todo[h] /\ current'[h] = current[h]
    BY <1>a, <1>d DEF TypeOK, groupType
  <2> SUFFICES ASSUME NEW h \in Groups PROVE WorkerOf(h)'
    BY Zenon DEF WorkerInv
  <2>2. WorkerOf(h) /\ gjoined[h] \in SUBSET Sessions
    BY <1>a, Zenon DEF IndInv, WorkerInv, TypeOK, groupType
  <2>3. CASE h = g
    <3>1. WorkerOf(g)
      BY <2>2, <2>3, Zenon
    <3>2. \A t \in members[g] : t \in Sessions
      BY <1>a, Zenon DEF TypeOK, groupType
    <3>3. members[g] \subseteq todo'[g] \cup {current'[g]} \cup gjoined[g]
      BY <1>d, <2>1, <3>1, <3>2, NoneIsNew, Zenon DEF WorkerOf
    <3>4. \A t \in gjoined[g] : children'[t] = "closed"
      BY <1>1, <2>2, <2>3, Zenon DEF WorkerOf
    <3> QED BY <1>b, <1>d, <2>1, <2>3, <3>1, <3>3, <3>4, Zenon DEF WorkerOf, Accepting
  <2>4. CASE h # g
    BY <1>1, <1>b, <2>1, <2>2, <2>4, WorkerFrame, Zenon
  <2> QED BY <2>3, <2>4, Zenon
<1> QED BY <1>1, <1>2, <1>3, <1>4, Zenon DEF IndInv, TypeOK

\* The worker of a group has joined every member: nothing is left inside.
LEMMA GroupIsEmpty ==
  ASSUME IndInv, NEW g \in Groups, gworker[g] \in {"sessions", "done"}, todo[g] = {},
         current[g] = None, NEW t \in Sessions, groupOf[t] = g
  PROVE  ~Creating(t) /\ ~Held(t)
<1>1. ~Creating(t)
  BY Zenon DEF IndInv, CreatorInv, WorkerInv, WorkerOf
<1>2. t \in members[g] => children[t] = "closed"
  BY NoneIsNew, Zenon DEF IndInv, WorkerInv, WorkerOf
<1>3. Registered(entry[t]) => t \in members[g]
  BY Zenon DEF IndInv, MemberInv
<1> QED BY <1>1, <1>2, <1>3, Zenon DEF Held

\* sessionRegistry.finishWorkspaceClose unregisters an empty group; no call is
\* inside its gate, so the gate closes without a panic.
LEMMA FinishWorkspaceCloseInd ==
  ASSUME IndInv, NEW g \in Groups, NEW w \in Workspaces, finishWorkspaceClose(g, w)
  PROVE  IndInv'
<1>a. TypeOK
  BY Zenon DEF IndInv
<1>b. UNCHANGED <<ws, hookGroup, closed, shutdown, awaited, creators, members, todo, current,
                  gjoined, owedS, createVars, sessionVars, xgroup, execVars>>
  BY Zenon DEF finishWorkspaceClose, wsVars
<1>c. UNCHANGED <<create, wsOf, groupOf, entry, children>>
  BY <1>b, Zenon DEF createVars, sessionVars
<1>d. /\ gworker[g] = "sessions" /\ todo[g] = {} /\ current[g] = None
      /\ gworker' = [gworker EXCEPT ![g] = "done"]
      /\ gate' = [gate EXCEPT ![g] = "closed"]
      /\ groups' = groups \/ (groups[w] = g /\ groups' = [groups EXCEPT ![w] = None])
  BY Zenon DEF finishWorkspaceClose
<1>e. \A t \in Sessions : groupOf[t] = g => ~Creating(t) /\ ~Held(t)
  BY <1>d, GroupIsEmpty, Zenon
<1>f. \A h \in Groups : gate[h] = "closed" => gate'[h] = "closed"
  BY <1>a, <1>d, Zenon DEF TypeOK, groupType
<1>1. /\ createType' /\ sessionType' /\ execType' /\ ExecutionInv' /\ SessionInv' /\ ListInv'
      /\ CollectInv'
  BY <1>b, BelowFrame, Zenon
<1>2. panicked' \in BOOLEAN /\ NoPanic'
  <2>1. creators[g] = {}
    BY <1>d, Zenon DEF IndInv, WorkerInv, WorkerOf
  <2> QED BY <1>a, <2>1, Zenon DEF finishWorkspaceClose, TypeOK, NoPanic, IndInv
<1>3. wsType' /\ groupType'
  BY <1>a, <1>b, <1>d, Zenon DEF TypeOK, wsType, groupType
<1>4. MemberInv' /\ CreatorInv'
  BY <1>b, <1>c, Zenon DEF IndInv, MemberInv, CreatorInv, Creating, Registered
<1>5. WorkerInv'
  <2>1. /\ gworker'[g] = "done" /\ gate'[g] = "closed"
        /\ \A h \in Groups \ {g} : gworker'[h] = gworker[h] /\ gate'[h] = gate[h]
    BY <1>a, <1>d, Zenon DEF TypeOK, groupType
  <2> SUFFICES ASSUME NEW h \in Groups PROVE WorkerOf(h)'
    BY Zenon DEF WorkerInv
  <2>2. WorkerOf(h) /\ gjoined[h] \in SUBSET Sessions
    BY <1>a, Zenon DEF IndInv, WorkerInv, TypeOK, groupType
  <2>3. CASE h = g
    BY <1>b, <1>c, <1>d, <2>1, <2>2, <2>3, Zenon DEF WorkerOf, Accepting
  <2>4. CASE h # g
    BY <1>b, <1>c, <2>1, <2>2, <2>4, WorkerFrame, Zenon
  <2> QED BY <2>3, <2>4, Zenon
<1>6. RegisteredInv'
  <2>1. ASSUME NEW v \in Workspaces, groups'[v] # None
        PROVE  (GroupWorkspace(groups[v]) = v
                  /\ (groups[v] \in Sessions => create[groups[v]] # "idle"))'
    <3>1. groups'[v] = groups[v]
      BY <1>a, <1>d, <2>1, Zenon DEF TypeOK, groupType
    <3> QED BY <1>c, <2>1, <3>1, Zenon DEF IndInv, RegisteredInv, GroupWorkspace
  <2>2. ASSUME NEW t \in Sessions, (Creating(t) \/ Held(t))'
        PROVE  groups'[wsOf'[t]] = groupOf'[t]
    <3>1. Creating(t) \/ Held(t)
      BY <1>c, <2>2, Zenon DEF Creating, Held, Registered
    <3>2. groups[wsOf[t]] = groupOf[t] /\ groupOf[t] # g /\ wsOf[t] \in Workspaces
      BY <1>e, <3>1, HeldIsRegistered, Zenon
    <3> QED BY <1>a, <1>c, <1>d, <3>2, Zenon DEF TypeOK, groupType
  <2> QED BY <2>1, <2>2, Zenon DEF RegisteredInv
<1>7. HookInv'
  <2>1. \A t \in Sessions : (Compiled(t) \/ Held(t))' => Compiled(t) \/ Held(t)
    BY <1>c, Zenon DEF Compiled, Held, Registered
  <2> QED BY <1>b, <1>c, <1>f, <2>1, HookFrame, Zenon DEF IndInv
<1>8. ShutdownInv'
  BY <1>a, <1>b, <1>c, <1>f, Zenon
  DEF IndInv, ShutdownInv, Creating, Held, Registered, TypeOK, wsType
<1> QED BY <1>1, <1>2, <1>3, <1>4, <1>5, <1>6, <1>7, <1>8, Zenon DEF IndInv, TypeOK
-----------------------------------------------------------------------------
(* The theorems *)

\* Every step of the registries and of their workers preserves the invariant.
LEMMA NextInd ==
  ASSUME IndInv, Next
  PROVE  IndInv'
<1>1. CASE \E s \in Sessions :
             \/ \E w \in Workspaces : beginCreate(s, w)
             \/ sessionCall(s) \/ CloseSession(s) \/ sessionWorker(s)
  BY <1>1, BeginCreateInd, SessionCallInd, FinishCreateInd, CloseSessionInd,
     BeginSessionCloseInd, SettleChildrenInd, PublishCloseInd, RemoveSessionInd, Zenon
  DEF sessionCall, sessionWorker
<1>2. CASE \E e \in Executions :
             \/ \E s \in Sessions : beginRuntimeCreate(e, s)
             \/ executionCall(e) \/ start(e) \/ CancelExecution(e) \/ finish(e)
             \/ CloseExecution(e) \/ executionWorker(e)
  BY <1>2, BeginRuntimeCreateInd, AddInd, FinishRuntimeCreateInd, RunInd, CloseExecutionInd,
     FinishCloseInd, Zenon
  DEF executionCall, executionWorker
<1>3. CASE \E g \in Groups : groupWorker(g)
  BY <1>3, GroupWorkerInd, CloseRetainedInd, FinishWorkspaceCloseInd, Zenon DEF groupWorker
<1>4. CASE \E w \in Workspaces : closeWorkspaceEntry(w) \/ CloseWorkspace(w) \/ hookReturned(w)
  BY <1>4, WorkspaceEntryInd, CloseWorkspaceInd, Zenon
<1>5. CASE beginShutdown \/ shutdownReturned
  BY <1>5, ShutdownInd, Zenon
<1> QED BY <1>1, <1>2, <1>3, <1>4, <1>5, Zenon DEF Next

\* A stuttering step changes none of the variables.
LEMMA StutterInd ==
  ASSUME IndInv, UNCHANGED vars
  PROVE  IndInv'
<1>a. UNCHANGED <<wsVars, groupVars, createVars, sessionVars, xgroup, execVars, panicked>>
  BY Zenon DEF vars
<1>b. UNCHANGED <<entry, children>>
  BY <1>a, Zenon DEF sessionVars
<1>1. wsType' /\ groupType' /\ createType' /\ MemberInv' /\ CreatorInv' /\ WorkerInv'
        /\ RegisteredInv' /\ HookInv' /\ ShutdownInv'
  BY <1>a, <1>b, GroupsFrame, Zenon
<1>2. /\ sessionType' /\ execType' /\ ExecutionInv' /\ SessionInv' /\ ListInv' /\ CollectInv'
  BY <1>a, BelowFrame, Zenon
<1>3. panicked' \in BOOLEAN /\ NoPanic'
  BY <1>a, Zenon DEF IndInv, TypeOK, NoPanic
<1> QED BY <1>1, <1>2, <1>3, Zenon DEF IndInv, TypeOK

\* The registries, their gates and their workers keep the inductive invariant,
\* whatever the number of workspaces, Sessions and Executions.
THEOREM Inductive == Spec => []IndInv
<1>1. IndInv /\ [Next]_vars => IndInv'
  BY NextInd, StutterInd, Zenon
<1> QED BY InitInd, <1>1, PTL DEF Spec

\* What runs on a Plan, or may still be published on it, keeps the Plan open.
LEMMA PlanIsKept == IndInv => PlanOutlivesChildren
<1> SUFFICES ASSUME IndInv, NEW s \in Sessions, plan[s] = "closed"
             PROVE  inside[s] = {} /\ \A e \in Executions : parent[e] = s => run[e] \in {"none", "terminal"}
  BY Zenon DEF PlanOutlivesChildren
<1>a. TypeOK
  BY Zenon DEF IndInv
<1>1. CASE entry[s] = "none"
  <2>1. \A e \in Executions : parent[e] # s
    <3> SUFFICES ASSUME NEW e \in Executions, parent[e] = s PROVE FALSE
      OBVIOUS
    <3>1. ExecutionOf(e)
      BY Zenon DEF IndInv, ExecutionInv
    <3> QED BY <1>1, <3>1, NoneIsNew, Zenon DEF ExecutionOf
  <2>2. \A e \in Executions : e \notin inside[s]
    <3> SUFFICES ASSUME NEW e \in Executions, e \in inside[s] PROVE FALSE
      OBVIOUS
    <3>1. ExecutionOf(e)
      BY Zenon DEF IndInv, ExecutionInv
    <3> QED BY <2>1, <3>1, Zenon DEF ExecutionOf
  <2>3. inside[s] \in SUBSET Executions
    BY <1>a, Zenon DEF TypeOK, sessionType
  <2> QED BY <2>1, <2>2, <2>3, Zenon
<1>2. CASE sworker[s] \in {"publish", "remove", "done"}
  <2>1. inside[s] = {} /\ \A e \in Executions : parent[e] = s => xclose[e] = "finished"
    <3>1. CollectOf(s)
      BY Zenon DEF IndInv, CollectInv
    <3> QED BY <1>2, <3>1, Zenon DEF CollectOf, Collected
  <2> SUFFICES ASSUME NEW e \in Executions, parent[e] = s PROVE run[e] \in {"none", "terminal"}
    BY <2>1, Zenon
  <2>2. ExecutionOf(e)
    BY Zenon DEF IndInv, ExecutionInv
  <2> QED BY <2>1, <2>2, Zenon DEF ExecutionOf
<1> QED BY <1>1, <1>2, Zenon DEF IndInv, SessionInv, SessionOf

\* A Session with an open Plan, or one that an Execution may run under or be
\* published in, is being created or is held by its group.
LEMMA InUseIsHeld ==
  ASSUME IndInv, NEW s \in Sessions
  PROVE  /\ plan[s] = "open" => Compiled(s) \/ Held(s)
         /\ \A e \in Executions :
              parent[e] = s /\ (run[e] \notin {"none", "terminal"} \/ launch[e] = "admitted") => Held(s)
<1>a. TypeOK
  BY Zenon DEF IndInv
<1>1. entry[s] # "none" /\ sworker[s] \in {"none", "drain", "children", "plans"} => Held(s)
  BY <1>a, Zenon DEF IndInv, SessionInv, SessionOf, Held, Registered, TypeOK, sessionType
<1>2. plan[s] = "open" => Compiled(s) \/ Held(s)
  BY <1>1, Zenon DEF IndInv, SessionInv, SessionOf, Compiled
<1>3. ASSUME NEW e \in Executions, parent[e] = s,
             run[e] \notin {"none", "terminal"} \/ launch[e] = "admitted"
      PROVE  Held(s)
  <2>1. entry[s] # "none"
    BY <1>3, NoneIsNew, Zenon DEF IndInv, ExecutionInv, ExecutionOf
  <2>2. xclose[e] # "finished" \/ e \in inside[s]
    BY <1>3, Zenon DEF IndInv, ExecutionInv, ExecutionOf
  <2>3. sworker[s] \in {"none", "drain", "children", "plans"}
    <3>1. sworker[s] \in {"none", "drain", "children", "plans", "publish", "remove", "done"}
      BY <1>a, Zenon DEF TypeOK, sessionType
    <3>2. CollectOf(s)
      BY Zenon DEF IndInv, CollectInv
    <3> QED BY <1>3, <2>2, <3>1, <3>2, Zenon DEF CollectOf, Collected
  <2> QED BY <1>1, <2>1, <2>3, Zenon
<1> QED BY <1>2, <1>3, Zenon

\* Proved for any sets of workspaces, Sessions and Executions: a close leaves
\* nothing of what it covers and takes nothing that is in use, and no gate or
\* registry panics on the way.
THEOREM ClosesAreComplete == Spec => []ClosesLeaveNothing
<1>1. ASSUME IndInv PROVE ClosesLeaveNothing
  <2>a. TypeOK
    BY <1>1, Zenon DEF IndInv
  <2>b. \A g \in Groups : gate[g] = "closed" =>
          \A t \in Sessions : groupOf[t] = g => ~Creating(t) /\ ~Held(t)
    <3> SUFFICES ASSUME NEW g \in Groups, gate[g] = "closed", NEW t \in Sessions, groupOf[t] = g
                 PROVE  ~Creating(t) /\ ~Held(t)
      OBVIOUS
    <3>1. gworker[g] = "done" /\ todo[g] = {} /\ current[g] = None
      BY <1>1, Zenon DEF IndInv, WorkerInv, WorkerOf
    <3> QED BY <1>1, <3>1, GroupIsEmpty, Zenon
  <2>1. PlanOutlivesChildren
    BY <1>1, PlanIsKept, Zenon
  <2>2. ClosedWorkspaceIsEmpty
    <3> SUFFICES ASSUME NEW w \in Workspaces, ws[w] = "closed", NEW s \in Sessions, wsOf[s] = w
                 PROVE  entry[s] # "active" /\ plan[s] # "open" /\ create[s] # "compiling"
      BY Zenon DEF ClosedWorkspaceIsEmpty
    <3>1. Compiled(s) \/ Held(s) => groupOf[s] = hookGroup[w]
      BY <1>1, Zenon DEF IndInv, HookInv
    <3>2. hookGroup[w] \in Groups /\ gate[hookGroup[w]] = "closed"
      BY <1>1, Zenon DEF IndInv, HookInv
    <3>3. ~Compiled(s) /\ ~Held(s)
      BY <2>b, <3>1, <3>2, Zenon DEF Compiled, Creating
    <3>4. plan[s] # "open" /\ create[s] # "compiling"
      BY <1>1, <3>3, InUseIsHeld, Zenon DEF Compiled
    <3>5. entry[s] # "active"
      BY <1>1, <3>3, Zenon DEF IndInv, SessionInv, SessionOf, Held, Registered
    <3> QED BY <3>4, <3>5, Zenon
  <2>3. ShutdownIsComplete
    <3> SUFFICES ASSUME shutdown = "done"
                 PROVE  /\ \A s \in Sessions : plan[s] # "open" /\ create[s] # "compiling"
                        /\ \A e \in Executions : run[e] \in {"none", "terminal"}
                                                   /\ launch[e] # "admitted"
      BY Zenon DEF ShutdownIsComplete
    <3>1. \A s \in Sessions : ~Creating(s) /\ ~Held(s)
      BY <1>1, <2>a, <2>b, Zenon DEF IndInv, ShutdownInv, TypeOK, wsType
    <3>2. \A s \in Sessions : plan[s] # "open" /\ create[s] # "compiling"
      BY <1>1, <3>1, InUseIsHeld, Zenon DEF Compiled, Creating
    <3>3. ASSUME NEW e \in Executions
          PROVE  run[e] \in {"none", "terminal"} /\ launch[e] # "admitted"
      <4>1. parent[e] = None => run[e] = "none" /\ launch[e] # "admitted"
        BY <1>1, <2>a, Zenon DEF IndInv, ExecutionInv, ExecutionOf, TypeOK, execType
      <4>2. parent[e] \in Sessions \cup {None}
        BY <2>a, Zenon DEF TypeOK, execType
      <4> QED BY <1>1, <3>1, <4>1, <4>2, InUseIsHeld, Zenon
    <3> QED BY <3>2, <3>3, Zenon
  <2> QED BY <1>1, <2>1, <2>2, <2>3, Zenon DEF ClosesLeaveNothing, IndInv
<1> QED BY Inductive, <1>1, PTL

\* Proved for any sets: the result of a close joins that of every child that was
\* registered when it began, one that finished in the meantime included.
THEOREM EveryResultIsJoined == Spec => []ResultsJoined
<1>1. ASSUME IndInv PROVE ResultsJoined
  <2>1. ASSUME NEW s \in Sessions, children[s] = "closed"
        PROVE  owedX[s] \subseteq sjoined[s]
    <3>1. sworker[s] \in {"remove", "done"}
      BY <1>1, <2>1, Zenon DEF IndInv, SessionInv, SessionOf
    <3> QED BY <1>1, <3>1, Zenon DEF IndInv, CollectInv, CollectOf, Collected
  <2>2. ASSUME NEW g \in Groups, gate[g] = "closed"
        PROVE  owedS[g] \subseteq gjoined[g]
    <3>1. gworker[g] = "done" /\ current[g] = None /\ todo[g] = {}
      BY <1>1, <2>2, Zenon DEF IndInv, WorkerInv, WorkerOf
    <3>2. owedS[g] \subseteq Sessions
      BY <1>1, Zenon DEF IndInv, TypeOK, groupType
    <3> QED BY <1>1, <3>1, <3>2, NoneIsNew, Zenon DEF IndInv, WorkerInv, WorkerOf
  <2> QED BY <2>1, <2>2, Zenon DEF ResultsJoined
<1> QED BY Inductive, <1>1, PTL
=============================================================================
