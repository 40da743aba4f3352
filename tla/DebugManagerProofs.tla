------------------------- MODULE DebugManagerProofs -------------------------
(***************************************************************************)
(* Proofs about internal/debug.Manager over one execution Session, for any *)
(* finite set of CreateSession calls.                                      *)
(***************************************************************************)
EXTENDS DebugManager, FiniteSetTheorems, TLAPS

(***************************************************************************)
(* The inductive invariant.  finishCreate looks its group up a second      *)
(* time, and the workers hold their group by name; what makes that right   *)
(* is that every call in progress is inside the gate of the group that is  *)
(* registered NOW (CreatorInv) and every debug Session whose close has not *)
(* settled is a member of it (MemberInv), so the group can neither be      *)
(* discarded nor replaced under them.  A worker past its drain has no      *)
(* creator left (WorkerInv), hence what it captured is all there will be.  *)
(* HookInv and ShutdownInv say the same of the two that wait for it: what  *)
(* is still busy is in the group they found.                               *)
(***************************************************************************)

\* The program counters of a call inside the Session's gate, and inside the group's.
InGate == {"acquire", "wait", "compile", "discard", "leased", "exit"}
InGroup == CreatePC \ {"idle", "ended"}

\* The types of the groups.
GroupType ==
  /\ group \in Creates \cup {None}
  /\ gate \in [Creates -> {"open", "closing", "closed"}]
  /\ creators \in [Creates -> SUBSET Creates]
  /\ members \in [Creates -> SUBSET Creates]
  /\ gworker \in [Creates -> {"none", "drain", "close", "unregister", "done"}]
  /\ todo \in [Creates -> SUBSET Creates]
  /\ current \in [Creates -> Creates \cup {None}]

\* The types of CreateSession and of the debug Sessions.
CallType ==
  /\ create \in [Creates -> CreatePC]
  /\ session \in [Creates -> {"none", "open", "closing", "gone"}]
  /\ dclose \in [Creates -> {"idle", "started", "finished"}]
  /\ dworker \in [Creates -> {"none", "settle", "forget", "done"}]
  /\ runtime \in [Creates -> {"none", "open", "closed"}]

\* The types of the execution Session and of both managers.
PlanType ==
  /\ entry \in {"active", "closing"} /\ inside \subseteq Creates
  /\ xworker \in {"none", "drain", "hook", "release", "done"}
  /\ {compiler, debugPlan, hookGroup, shutGroup} \subseteq Creates \cup {None}
  /\ plan \in [Creates -> {"none", "open", "closed"}]
  /\ shutdown \in {"none", "closing", "waiting", "done"}
  /\ closed \in BOOLEAN /\ misplaced \in BOOLEAN

\* The close worker and the gate of a group go together; a worker that drains or
\* closes has its group still registered.
WorkerInv ==
  \A g \in Creates :
    /\ gate[g] = "open" <=> gworker[g] = "none"
    /\ gate[g] = "closed" <=> gworker[g] \in {"unregister", "done"}
    /\ gworker[g] \in {"drain", "close", "unregister"} => group = g
    /\ gworker[g] \in {"close", "unregister", "done"} => creators[g] = {}
    /\ gworker[g] = "done" => group # g

\* A group is named by a call that has begun, and is empty before.
NameInv ==
  /\ group # None => create[group] # "idle"
  /\ \A g \in Creates : create[g] = "idle" => gworker[g] = "none" /\ creators[g] = {} /\ members[g] = {}

\* A call in progress is inside the gate of the registered group.
CreatorInv ==
  /\ \A g \in Creates : \A d \in creators[g] : group = g /\ create[d] \in InGroup
  /\ \A d \in Creates : create[d] \in InGroup => group # None /\ d \in creators[group]
  /\ inside = {d \in Creates : create[d] \in InGate}
  /\ ~misplaced

\* How far a debug Session has come: its close, its runtime.
SessionInv ==
  \A d \in Creates :
    /\ session[d] = "none" => dclose[d] = "idle" /\ dworker[d] = "none"
    /\ session[d] = "open" => dclose[d] = "idle" /\ dworker[d] = "none"
    /\ session[d] = "closing" =>
         \/ dclose[d] = "started" /\ dworker[d] = "settle"
         \/ dclose[d] = "finished" /\ dworker[d] = "forget"
    /\ session[d] = "gone" => dclose[d] = "finished" /\ dworker[d] = "done"
    /\ session[d] # "none" => create[d] \in {"leave", "ended"}
    /\ runtime[d] = "open" =>
         \/ create[d] \in {"exit", "publish", "undo"}
         \/ session[d] = "open" \/ dworker[d] = "settle"
    /\ create[d] \notin {"exit", "publish", "undo", "leave", "ended"} => runtime[d] = "none"
    /\ create[d] \in {"publish", "undo"} => runtime[d] = "open"

\* A debug Session whose close has not settled is in the registered group, and the
\* worker of that group has it still to close or waits for it.
Unsettled(d) == session[d] = "open" \/ dworker[d] = "settle"

MemberInv ==
  \A d \in Creates : Unsettled(d) =>
    /\ group # None /\ d \in members[group]
    /\ gworker[group] \in {"none", "drain", "close"}
    /\ gworker[group] = "close" => d \in todo[group] \/ current[group] = d

\* One compile at a time, none beside the Session's Plan; an open Plan that is not
\* the Session's is closed by the call that compiled it.
PlanInv ==
  /\ compiler # None => create[compiler] = "compile"
  /\ \A d \in Creates : create[d] = "compile" => compiler = d /\ debugPlan = None
  /\ debugPlan # None => compiler = None
  /\ \A d \in Creates : plan[d] = "open" <=> d = debugPlan \/ create[d] = "discard"
  /\ \A d \in Creates : create[d] = "discard" => d # debugPlan

\* The holders of a lease.
Holders == {d \in Creates : create[d] = "leased" \/ runtime[d] = "open"}

\* A call or debug Session that still has something to return.
Busy(d) == d \in Holders \/ session[d] = "open"

\* What the hook found is all that can still hold a lease.
HookInv ==
  /\ entry = "active" <=> xworker = "none"
  /\ xworker \in {"hook", "release", "done"} =>
       /\ inside = {}
       /\ \A d \in Creates : Busy(d) => hookGroup # None /\ group = hookGroup /\ gate[group] # "open"
  /\ xworker \in {"release", "done"} => hookGroup = None \/ gate[hookGroup] = "closed"

\* What shutdown found is all that can still be registered.
ShutdownInv ==
  /\ closed <=> shutdown # "none"
  /\ shutdown \in {"waiting", "done"} => group = None \/ (group = shutGroup /\ gate[group] # "open")
  /\ shutdown = "done" => shutGroup = None \/ gate[shutGroup] = "closed"

IndInv ==
  /\ GroupType /\ CallType /\ PlanType
  /\ WorkerInv /\ NameInv /\ CreatorInv /\ SessionInv /\ MemberInv
  /\ PlanInv /\ LeasesBalanced /\ HookInv /\ ShutdownInv
-----------------------------------------------------------------------------
(* Initially *)

\* No call has been made and nothing is closing.
LEMMA InitInd == Init => IndInv
PROOF
  <1>1. SUFFICES ASSUME Init PROVE IndInv
    OBVIOUS
  <1>2. GroupType /\ CallType /\ PlanType
    BY <1>1, Zenon DEF Init, GroupType, CallType, PlanType, CreatePC
  <1>3. WorkerInv /\ NameInv /\ SessionInv /\ MemberInv
    BY <1>1, Zenon DEF Init, WorkerInv, NameInv, SessionInv, MemberInv, Unsettled
  <1>4. CreatorInv
    BY <1>1, Zenon DEF Init, CreatorInv, InGroup, InGate
  <1>5. PlanInv
    BY <1>1, NoneIsNoCreate, Zenon DEF Init, PlanInv
  <1>6. Holders = {}
    BY <1>1, Zenon DEF Init, Holders
  <1>7. LeasesBalanced
    BY <1>1, <1>6, FS_EmptySet, Zenon DEF Init, LeasesBalanced, Holders
  <1>8. HookInv /\ ShutdownInv
    BY <1>1, Zenon DEF Init, HookInv, ShutdownInv
  <1>9. QED BY <1>2, <1>3, <1>4, <1>5, <1>7, <1>8, Zenon DEF IndInv
-----------------------------------------------------------------------------
(* What a step leaves alone *)

\* A call that holds a lease, or a reachable debug Session, keeps its group: the
\* close worker has not finished with it.
LEMMA BusyPlace ==
  ASSUME IndInv, NEW d \in Creates, Busy(d)
  PROVE  group # None /\ group \in Creates /\ gworker[group] \in {"none", "drain", "close"}
PROOF
  <1>1. group \in Creates \cup {None}
    BY Zenon DEF IndInv, GroupType
  <1>2. CASE create[d] \in {"leased", "exit", "publish", "undo"}
    <2>1. create[d] \in InGroup
      BY <1>2, Zenon DEF InGroup, CreatePC
    <2>2. group # None /\ d \in creators[group]
      BY <2>1, Zenon DEF IndInv, CreatorInv
    <2>3. gworker[group] \notin {"close", "unregister", "done"}
      BY <1>1, <2>2, Zenon DEF IndInv, WorkerInv
    <2>4. gworker[group] \in {"none", "drain", "close", "unregister", "done"}
      BY <1>1, <2>2, Zenon DEF IndInv, GroupType
    <2>5. QED BY <1>1, <2>2, <2>3, <2>4, Zenon
  <1>3. CASE Unsettled(d)
    BY <1>1, <1>3, Zenon DEF IndInv, MemberInv
  <1>4. create[d] \in {"leased", "exit", "publish", "undo"} \/ Unsettled(d)
    BY Zenon DEF IndInv, SessionInv, Busy, Holders, Unsettled
  <1>5. QED BY <1>2, <1>3, <1>4, Zenon

\* Gates only close.
GatesClose ==
  \A g \in Creates : (gate[g] = "closed" => gate'[g] = "closed") /\ (gate[g] # "open" => gate'[g] # "open")

\* The hook's claim outlasts a step that makes nothing new busy.
LEMMA HookFrame ==
  ASSUME IndInv, UNCHANGED <<entry, xworker, hookGroup>>, GatesClose,
         \/ xworker = "none"
         \/ inside' \subseteq inside /\ \A e \in Creates : Busy(e)' => Busy(e) /\ group' = group
  PROVE  HookInv'
PROOF
  <1>1. /\ HookInv /\ hookGroup \in Creates \cup {None}
        /\ xworker = "none" => xworker \notin {"hook", "release", "done"}
    BY Zenon DEF IndInv, PlanType
  <1>2. CASE xworker = "none"
    BY <1>1, <1>2, Zenon DEF HookInv
  <1>3. CASE inside' \subseteq inside /\ \A e \in Creates : Busy(e)' => Busy(e) /\ group' = group
    <2>1. xworker \in {"hook", "release", "done"} => inside' = {}
      BY <1>1, <1>3, Zenon DEF HookInv
    <2>2. ASSUME xworker \in {"hook", "release", "done"}, NEW e \in Creates, Busy(e)'
          PROVE  hookGroup # None /\ group' = hookGroup /\ gate'[group'] # "open"
      <3>1. Busy(e) /\ group' = group
        BY <1>3, <2>2, Zenon
      <3>2. hookGroup # None /\ group = hookGroup /\ gate[group] # "open"
        BY <1>1, <2>2, <3>1, Zenon DEF HookInv
      <3>3. QED BY <1>1, <3>1, <3>2, Zenon DEF GatesClose
    <2>3. xworker \in {"release", "done"} => hookGroup = None \/ gate'[hookGroup] = "closed"
      BY <1>1, Zenon DEF HookInv, GatesClose
    <2>4. QED BY <1>1, <2>1, <2>2, <2>3, Zenon DEF HookInv
  <1>4. QED BY <1>2, <1>3, Zenon

\* Shutdown's claim outlasts a step that registers no new group.
LEMMA ShutdownFrame ==
  ASSUME IndInv, UNCHANGED <<closed, shutdown, shutGroup>>, GatesClose,
         group' \in {group, None} \/ ~closed
  PROVE  ShutdownInv'
PROOF
  <1>1. /\ ShutdownInv /\ shutGroup \in Creates \cup {None} /\ group \in Creates \cup {None}
        /\ shutdown = "none" => shutdown \notin {"waiting", "done"} /\ shutdown # "done"
    BY Zenon DEF IndInv, PlanType, GroupType
  <1>2. CASE ~closed
    BY <1>1, <1>2, Zenon DEF ShutdownInv
  <1>3. CASE group' \in {group, None}
    BY <1>1, <1>3, Zenon DEF ShutdownInv, GatesClose
  <1>4. QED BY <1>2, <1>3, Zenon

\* The debug Plan and its compiler.
LEMMA PlanFrame ==
  ASSUME IndInv, UNCHANGED <<compiler, debugPlan, plan, entry>>,
         \A e \in Creates : create[e] \in {"compile", "discard"} \/ create'[e] \in {"compile", "discard"}
                              => create'[e] = create[e]
  PROVE  PlanInv'
PROOF
  <1>1. \A e \in Creates : /\ create'[e] = "compile" <=> create[e] = "compile"
                           /\ create'[e] = "discard" <=> create[e] = "discard"
    BY Zenon
  <1>2. PlanInv /\ compiler \in Creates \cup {None}
    BY Zenon DEF IndInv, PlanType
  <1>3. QED BY <1>1, <1>2, Zenon DEF PlanInv

\* The leases, when the holders stay, one more comes or one goes.
LEMMA LeaseSteps ==
  ASSUME IndInv
  PROVE  /\ Holders' = Holders /\ leases' = leases => LeasesBalanced'
         /\ \A d \in Creates \ Holders : Holders' = Holders \cup {d} /\ leases' = leases + 1 => LeasesBalanced'
         /\ \A d \in Holders : Holders' = Holders \ {d} /\ leases' = leases - 1 => LeasesBalanced'
         /\ leases = Cardinality(Holders) /\ IsFiniteSet(Holders) /\ leases \in Nat
PROOF
  <1>1. leases = Cardinality(Holders) /\ (LeasesBalanced' <=> leases' = Cardinality(Holders'))
    BY Zenon DEF IndInv, LeasesBalanced, Holders
  <1>2. IsFiniteSet(Holders) /\ Cardinality(Holders) \in Nat
    <2>1. Holders \subseteq Creates
      BY Zenon DEF Holders
    <2>2. QED BY <2>1, CreatesFinite, FS_Subset, FS_CardinalityType, Zenon
  <1>3. ASSUME NEW d \in Creates \ Holders, Holders' = Holders \cup {d}, leases' = leases + 1
        PROVE  LeasesBalanced'
    BY <1>1, <1>2, <1>3, FS_AddElement, Zenon
  <1>4. ASSUME NEW d \in Holders, Holders' = Holders \ {d}, leases' = leases - 1
        PROVE  LeasesBalanced'
    BY <1>1, <1>2, <1>4, FS_RemoveElement, Zenon
  <1>5. QED BY <1>1, <1>2, <1>3, <1>4, Zenon
-----------------------------------------------------------------------------
(* CreateSession *)

\* The parts of the invariant that speak of calls, groups and debug Sessions.
CallInv == GroupType /\ CallType /\ WorkerInv /\ NameInv /\ CreatorInv /\ SessionInv /\ MemberInv

\* A call moves on inside its group, before it has published its debug Session.
LEMMA CallStep ==
  ASSUME IndInv, NEW d \in Creates, NEW y \in InGroup, create[d] \in InGroup \ {"leave"},
         create' = [create EXCEPT ![d] = y],
         UNCHANGED <<group, gate, creators, members, gworker, todo, current,
                     session, dclose, dworker, misplaced>>,
         runtime' \in [Creates -> {"none", "open", "closed"}],
         \A e \in Creates : e # d => runtime'[e] = runtime[e],
         runtime'[d] = "open" => y \in {"exit", "publish", "undo"},
         y \notin {"exit", "publish", "undo", "leave"} => runtime'[d] = "none",
         y \in {"publish", "undo"} => runtime'[d] = "open",
         inside' = IF y \in InGate THEN inside \cup {d} ELSE inside \ {d}
  PROVE  CallInv' /\ \A e \in Creates : create'[e] = IF e = d THEN y ELSE create[e]
PROOF
  <1>1. /\ create'[d] = y /\ create' \in [Creates -> CreatePC]
        /\ \A e \in Creates : create'[e] = IF e = d THEN y ELSE create[e]
    <2>1. y \in CreatePC
      BY Zenon DEF InGroup
    <2>2. QED BY <2>1, Zenon DEF IndInv, CallType
  <1>2. y # "idle" /\ create[d] # "idle"
    BY Zenon DEF InGroup
  <1>3. session[d] = "none"
    <2>1. create[d] \notin {"leave", "ended"}
      BY Zenon DEF InGroup
    <2>2. QED BY <2>1, Zenon DEF IndInv, SessionInv
  <1>4. GroupType' /\ CallType'
    BY <1>1, Zenon DEF IndInv, GroupType, CallType, CreatePC
  <1>5. WorkerInv'
    BY Zenon DEF IndInv, WorkerInv
  <1>6. NameInv'
    <2>1. \A e \in Creates : create'[e] = "idle" <=> create[e] = "idle"
      BY <1>1, <1>2, Zenon
    <2>2. QED BY <2>1, ZenonT(40) DEF IndInv, NameInv, GroupType
  <1>7. CreatorInv'
    <2>1. \A e \in Creates : create'[e] \in InGroup <=> create[e] \in InGroup
      BY <1>1, Zenon
    <2>2. inside' = {e \in Creates : create'[e] \in InGate}
      <3>1. inside = {e \in Creates : create[e] \in InGate}
        BY Zenon DEF IndInv, CreatorInv
      <3>2. QED BY <1>1, <3>1, Zenon
    <2>3. creators \in [Creates -> SUBSET Creates] /\ group \in Creates \cup {None}
      BY Zenon DEF IndInv, GroupType
    <2>4. QED BY <2>1, <2>2, <2>3, Zenon DEF IndInv, CreatorInv, InGroup, InGate, CreatePC
  <1>8. SessionInv'
    <2>1. ASSUME NEW e \in Creates
          PROVE  /\ session'[e] = "none" => dclose'[e] = "idle" /\ dworker'[e] = "none"
                 /\ session'[e] = "open" => dclose'[e] = "idle" /\ dworker'[e] = "none"
                 /\ session'[e] = "closing" =>
                      \/ dclose'[e] = "started" /\ dworker'[e] = "settle"
                      \/ dclose'[e] = "finished" /\ dworker'[e] = "forget"
                 /\ session'[e] = "gone" => dclose'[e] = "finished" /\ dworker'[e] = "done"
      BY Zenon DEF IndInv, SessionInv
    <2>2. ASSUME NEW e \in Creates
          PROVE  /\ session'[e] # "none" => create'[e] \in {"leave", "ended"}
                 /\ runtime'[e] = "open" =>
                      \/ create'[e] \in {"exit", "publish", "undo"}
                      \/ session'[e] = "open" \/ dworker'[e] = "settle"
                 /\ create'[e] \notin {"exit", "publish", "undo", "leave", "ended"} => runtime'[e] = "none"
                 /\ create'[e] \in {"publish", "undo"} => runtime'[e] = "open"
      <3>1. CASE e = d
        BY <1>1, <1>3, <3>1, Zenon
      <3>2. CASE e # d
        <4>1. create'[e] = create[e] /\ runtime'[e] = runtime[e]
          BY <1>1, <3>2, Zenon
        <4>2. QED BY <4>1, Zenon DEF IndInv, SessionInv
      <3>3. QED BY <3>1, <3>2, Zenon
    <2>3. QED BY <2>1, <2>2, Zenon DEF SessionInv
  <1>9. MemberInv'
    BY Zenon DEF IndInv, MemberInv, Unsettled
  <1>10. QED BY <1>1, <1>4, <1>5, <1>6, <1>7, <1>8, <1>9, Zenon DEF CallInv

\* What the parts of the invariant say of a call.
LEMMA CallFacts ==
  ASSUME IndInv, NEW d \in Creates
  PROVE  /\ create[d] \in CreatePC /\ runtime[d] \in {"none", "open", "closed"}
         /\ create[d] \notin {"leave", "ended"} => session[d] = "none" /\ dworker[d] = "none"
         /\ create[d] \notin {"exit", "publish", "undo", "leave", "ended"} => runtime[d] = "none"
         /\ runtime \in [Creates -> {"none", "open", "closed"}]
         /\ group \in Creates \cup {None}
         /\ create[d] \in InGate <=> d \in inside
PROOF
  BY Zenon DEF IndInv, CallType, GroupType, SessionInv, CreatorInv

\* The sets of program counters, for the steps below.
LEMMA Counters ==
  /\ InGate \subseteq InGroup \ {"leave"}
  /\ {"begun", "publish", "undo", "leave"} \subseteq InGroup
  /\ {"begun", "publish", "undo", "leave"} \cap InGate = {}
  /\ "begun" # "leave" /\ "publish" # "leave" /\ "undo" # "leave"
  /\ {"acquire", "wait", "compile", "discard", "leased", "exit"} = InGate
PROOF
  BY Zenon DEF InGate, InGroup, CreatePC

\* A call moves on inside its group and takes or returns no lease.
LEMMA MovingCall ==
  ASSUME IndInv, NEW d \in Creates, NEW y \in InGroup, create[d] \in InGroup \ {"leave"},
         create' = [create EXCEPT ![d] = y],
         UNCHANGED <<group, gate, creators, members, gworker, todo, current, session, dclose,
                     dworker, runtime, misplaced, managerVars, entry, xworker, hookGroup,
                     leases>>,
         y # "leased", create[d] # "leased",
         runtime[d] = "open" => y \in {"exit", "publish", "undo"},
         y \notin {"exit", "publish", "undo", "leave"} => runtime[d] = "none",
         y \in {"publish", "undo"} => runtime[d] = "open",
         inside' = IF y \in InGate THEN inside \cup {d} ELSE inside \ {d},
         xworker = "none" \/ inside' \subseteq inside,
         {compiler', debugPlan'} \subseteq Creates \cup {None},
         plan' \in [Creates -> {"none", "open", "closed"}], PlanInv'
  PROVE  IndInv'
PROOF
  <1>1. runtime \in [Creates -> {"none", "open", "closed"}]
    BY CallFacts, Zenon
  <1>2. CallInv' /\ \A e \in Creates : create'[e] = IF e = d THEN y ELSE create[e]
    BY <1>1, CallStep, ZenonT(40)
  <1>3. UNCHANGED <<closed, shutdown, shutGroup>> /\ GatesClose
    BY Zenon DEF managerVars, GatesClose
  <1>4. inside' \subseteq Creates
    BY Zenon DEF IndInv, PlanType
  <1>5. PlanType'
    BY <1>3, <1>4, Zenon DEF IndInv, PlanType
  <1>6. Holders' = Holders
    BY <1>2, Zenon DEF Holders
  <1>7. \A e \in Creates : Busy(e)' => Busy(e)
    BY <1>6, Zenon DEF Busy
  <1>8. LeasesBalanced'
    BY <1>6, LeaseSteps, Zenon
  <1>9. HookInv'
    BY <1>3, <1>7, HookFrame, Zenon
  <1>10. ShutdownInv'
    BY <1>3, ShutdownFrame, Zenon
  <1>11. QED BY <1>2, <1>5, <1>8, <1>9, <1>10, Zenon DEF IndInv, CallInv

\* A call moves on inside its group and leaves Plans and leases alone.
LEMMA PlainCall ==
  ASSUME IndInv, NEW d \in Creates, NEW y \in InGroup, create[d] \in InGroup \ {"leave"},
         create' = [create EXCEPT ![d] = y],
         UNCHANGED <<group, gate, creators, members, gworker, todo, current, session, dclose,
                     dworker, runtime, misplaced, managerVars, entry, xworker, hookGroup,
                     debugPlan, plan, leases>>,
         y # "leased", create[d] # "leased",
         runtime[d] = "open" => y \in {"exit", "publish", "undo"},
         y \notin {"exit", "publish", "undo", "leave"} => runtime[d] = "none",
         y \in {"publish", "undo"} => runtime[d] = "open",
         inside' = IF y \in InGate THEN inside \cup {d} ELSE inside \ {d},
         xworker = "none" \/ inside' \subseteq inside,
         compiler' \in Creates \cup {None}, PlanInv'
  PROVE  IndInv'
PROOF
  <1>1. {compiler', debugPlan'} \subseteq Creates \cup {None} /\ plan' \in [Creates -> {"none", "open", "closed"}]
    BY Zenon DEF IndInv, PlanType
  <1>2. QED BY <1>1, MovingCall, Zenon

\* beginRuntimeCreate enters the Session's gate while the Session is active.
LEMMA BeginRuntimeStep ==
  ASSUME IndInv, NEW d \in Creates, beginRuntimeCreate(d)
  PROVE  IndInv'
PROOF
  <1>1. /\ create[d] = "begun"
        /\ UNCHANGED <<group, gate, creators, members, gworker, todo, current, session, dclose,
                       dworker, runtime, misplaced, managerVars, entry, xworker, hookGroup,
                       debugPlan, plan, leases, compiler>>
    BY Zenon DEF beginRuntimeCreate, groupVars, closeVars, planVars
  <1>2. runtime[d] = "none" /\ d \notin inside
    BY <1>1, CallFacts, Counters, Zenon
  <1>3. PICK y \in {"acquire", "leave"} :
          /\ create' = [create EXCEPT ![d] = y]
          /\ inside' = IF y \in InGate THEN inside \cup {d} ELSE inside \ {d}
          /\ xworker = "none" \/ inside' \subseteq inside
    <2>1. CASE entry = "active"
      BY <2>1, Counters, Zenon DEF beginRuntimeCreate, IndInv, HookInv
    <2>2. CASE entry # "active"
      <3>1. inside \ {d} = inside
        BY <1>2, Zenon
      <3>2. QED BY <2>2, <3>1, Counters, Zenon DEF beginRuntimeCreate
    <2>3. QED BY <2>1, <2>2, Zenon
  <1>4. create'[d] = y /\ \A e \in Creates : e # d => create'[e] = create[e]
    BY <1>3, Zenon DEF IndInv, CallType
  <1>5. PlanInv'
    <2>1. \A e \in Creates : create[e] \in {"compile", "discard"} \/ create'[e] \in {"compile", "discard"}
                               => create'[e] = create[e]
      BY <1>1, <1>3, <1>4, Zenon
    <2>2. QED BY <1>1, <2>1, PlanFrame, Zenon
  <1>6. compiler' \in Creates \cup {None}
    BY <1>1, Zenon DEF IndInv, PlanType
  <1>7. y \in InGroup /\ y # "leased" /\ create[d] \in InGroup \ {"leave"} /\ create[d] # "leased"
        /\ runtime[d] # "open" /\ y \notin {"publish", "undo"}
    BY <1>1, <1>2, <1>3, Counters, Zenon
  <1>8. QED BY <1>1, <1>2, <1>3, <1>5, <1>6, <1>7, PlainCall, Zenon

\* A call inside the Session's gate moves on and stays inside it.
LEMMA GateCall ==
  ASSUME IndInv, NEW d \in Creates, NEW y \in InGate, create[d] \in InGate,
         create' = [create EXCEPT ![d] = y],
         UNCHANGED <<group, gate, creators, members, gworker, todo, current, session, dclose,
                     dworker, runtime, misplaced, managerVars, entry, xworker, hookGroup,
                     debugPlan, plan, leases, inside>>,
         y # "leased", create[d] \notin {"leased", "exit"},
         compiler' \in Creates \cup {None}, PlanInv'
  PROVE  IndInv'
PROOF
  <1>1. runtime[d] = "none" /\ inside' = inside \cup {d}
    BY CallFacts, Counters, Zenon
  <1>2. /\ y \in InGroup /\ create[d] \in InGroup \ {"leave"} /\ runtime[d] # "open"
        /\ y \notin {"publish", "undo"} /\ inside' \subseteq inside
    BY <1>1, Counters, Zenon
  <1>3. QED BY <1>1, <1>2, PlainCall, Zenon

\* A call takes a lease, which needs an active Session.
LEMMA LeaseCall ==
  ASSUME IndInv, NEW d \in Creates, create[d] \in {"acquire", "compile"}, entry = "active",
         create' = [create EXCEPT ![d] = "leased"], leases' = leases + 1,
         UNCHANGED <<group, gate, creators, members, gworker, todo, current, session, dclose,
                     dworker, runtime, misplaced, managerVars, entry, xworker, hookGroup, inside>>,
         {compiler', debugPlan'} \subseteq Creates \cup {None},
         plan' \in [Creates -> {"none", "open", "closed"}], PlanInv'
  PROVE  IndInv'
PROOF
  <1>1. /\ runtime[d] = "none" /\ inside' = inside \cup {d} /\ "leased" \in InGate
        /\ create[d] \in InGroup \ {"leave"} /\ "leased" \in InGroup
        /\ runtime \in [Creates -> {"none", "open", "closed"}]
    BY CallFacts, Counters, Zenon
  <1>2. CallInv' /\ \A e \in Creates : create'[e] = IF e = d THEN "leased" ELSE create[e]
    <2>1. runtime'[d] # "open" /\ runtime'[d] = "none" /\ "leased" \notin {"publish", "undo"}
      BY <1>1, Zenon
    <2>2. QED BY <1>1, <2>1, CallStep, Zenon
  <1>3. UNCHANGED <<closed, shutdown, shutGroup>> /\ GatesClose /\ xworker = "none"
    BY Zenon DEF managerVars, GatesClose, IndInv, HookInv
  <1>4. PlanType'
    BY <1>3, Zenon DEF IndInv, PlanType
  <1>5. d \notin Holders /\ Holders' = Holders \cup {d}
    BY <1>1, <1>2, Zenon DEF Holders
  <1>6. LeasesBalanced'
    BY <1>5, LeaseSteps, Zenon
  <1>7. HookInv'
    BY <1>3, HookFrame, Zenon
  <1>8. ShutdownInv'
    BY <1>3, ShutdownFrame, Zenon
  <1>9. QED BY <1>2, <1>4, <1>6, <1>7, <1>8, Zenon DEF IndInv, CallInv

\* A program counter that changes at d only.
LEMMA CreateAt ==
  ASSUME IndInv, NEW d \in Creates, NEW y, create' = [create EXCEPT ![d] = y]
  PROVE  create'[d] = y /\ \A e \in Creates : e # d => create'[e] = create[e]
PROOF
  BY Zenon DEF IndInv, CallType

\* acquireDebugRuntimeTarget refuses, leases the Plan, waits for a compile or begins one.
LEMMA AcquireStep ==
  ASSUME IndInv, NEW d \in Creates, acquire(d)
  PROVE  IndInv'
PROOF
  <1>1. /\ create[d] = "acquire"
        /\ UNCHANGED <<group, gate, creators, members, gworker, todo, current, session, dclose,
                       dworker, runtime, misplaced, managerVars, entry, xworker, hookGroup,
                       debugPlan, plan, inside>>
        /\ plan \in [Creates -> {"none", "open", "closed"}]
        /\ {compiler, debugPlan} \subseteq Creates \cup {None}
    BY Zenon DEF acquire, groupVars, closeVars, execVars, IndInv, PlanType
  <1>2. create[d] \in InGate /\ create[d] \notin {"leased", "exit"}
    BY <1>1, Counters, Zenon
  <1>3. CASE \E y \in {"exit", "wait"} : create' = [create EXCEPT ![d] = y] /\ UNCHANGED <<compiler, leases>>
    <2>1. PICK y \in {"exit", "wait"} : create' = [create EXCEPT ![d] = y] /\ UNCHANGED <<compiler, leases>>
      BY <1>3, Zenon
    <2>2. \A e \in Creates : create[e] \in {"compile", "discard"} \/ create'[e] \in {"compile", "discard"}
                               => create'[e] = create[e]
      BY <1>1, <2>1, CreateAt, Zenon
    <2>3. PlanInv' /\ compiler' \in Creates \cup {None}
      BY <1>1, <2>1, <2>2, PlanFrame, Zenon
    <2>4. y \in InGate /\ y # "leased"
      BY <2>1, Counters, Zenon
    <2>5. QED BY <1>1, <1>2, <2>1, <2>3, <2>4, GateCall, Zenon
  <1>4. CASE entry = "active" /\ create' = [create EXCEPT ![d] = "leased"] /\ leases' = leases + 1 /\ UNCHANGED compiler
    <2>1. \A e \in Creates : create[e] \in {"compile", "discard"} \/ create'[e] \in {"compile", "discard"}
                               => create'[e] = create[e]
      BY <1>1, <1>4, CreateAt, Zenon
    <2>2. PlanInv' /\ {compiler', debugPlan'} \subseteq Creates \cup {None}
      BY <1>1, <1>4, <2>1, PlanFrame, Zenon
    <2>3. QED BY <1>1, <1>4, <2>2, LeaseCall, Zenon
  <1>5. CASE /\ entry = "active" /\ debugPlan = None /\ compiler = None
             /\ create' = [create EXCEPT ![d] = "compile"] /\ compiler' = d /\ UNCHANGED leases
    <2>1. create'[d] = "compile" /\ \A e \in Creates : e # d => create'[e] = create[e]
      BY <1>5, CreateAt, Zenon
    <2>2. \A e \in Creates : create[e] # "compile" /\ (plan[e] = "open" <=> create[e] = "discard")
      BY <1>5, NoneIsNoCreate, Zenon DEF IndInv, PlanInv
    <2>3. PlanInv'
      <3>1. \A e \in Creates : /\ create'[e] = "discard" <=> create[e] = "discard"
                               /\ create'[e] = "compile" => e = d
        BY <1>1, <2>1, <2>2, Zenon
      <3>2. QED BY <1>1, <1>5, <2>1, <2>2, <3>1, NoneIsNoCreate, Zenon DEF PlanInv
    <2>4. "compile" \in InGate /\ "compile" # "leased" /\ compiler' \in Creates \cup {None}
      BY <1>5, Counters, Zenon
    <2>5. QED BY <1>1, <1>2, <1>5, <2>3, <2>4, GateCall, Zenon
  <1>6. QED BY <1>3, <1>4, <1>5, Zenon DEF acquire

\* A waiting call wakes when the compile it waited for is over, or is cancelled.
LEMMA WaitStep ==
  ASSUME IndInv, NEW d \in Creates, wake(d) \/ cancelWait(d)
  PROVE  IndInv'
PROOF
  <1>1. /\ create[d] = "wait"
        /\ UNCHANGED <<group, gate, creators, members, gworker, todo, current, session, dclose,
                       dworker, runtime, misplaced, managerVars, entry, xworker, hookGroup,
                       debugPlan, plan, inside, leases, compiler>>
    BY Zenon DEF wake, cancelWait, groupVars, closeVars, execVars, planVars
  <1>2. PICK y \in {"acquire", "exit"} : create' = [create EXCEPT ![d] = y]
    BY Zenon DEF wake, cancelWait
  <1>3. \A e \in Creates : create[e] \in {"compile", "discard"} \/ create'[e] \in {"compile", "discard"}
                             => create'[e] = create[e]
    BY <1>1, <1>2, CreateAt, Zenon
  <1>4. PlanInv' /\ compiler' \in Creates \cup {None}
    BY <1>1, <1>3, PlanFrame, Zenon DEF IndInv, PlanType
  <1>5. y \in InGate /\ y # "leased" /\ create[d] \in InGate /\ create[d] \notin {"leased", "exit"}
    BY <1>1, <1>2, Counters, Zenon
  <1>6. QED BY <1>1, <1>2, <1>4, <1>5, GateCall, Zenon

\* While a call compiles the Session has no debug Plan, and any Plan still open is
\* one its own call is about to close.
LEMMA Compiling ==
  ASSUME IndInv, NEW d \in Creates, create[d] = "compile"
  PROVE  /\ debugPlan = None /\ compiler = d
         /\ \A e \in Creates : plan[e] = "open" <=> create[e] = "discard"
         /\ \A e \in Creates : create[e] = "compile" => e = d
PROOF
  <1>1. debugPlan = None /\ compiler = d /\ d # None
    BY NoneIsNoCreate, Zenon DEF IndInv, PlanInv
  <1>2. \A e \in Creates : create[e] = "compile" => e = d
    BY <1>1, Zenon DEF IndInv, PlanInv
  <1>3. QED BY <1>1, <1>2, NoneIsNoCreate, Zenon DEF IndInv, PlanInv

\* The compile returns: its Plan becomes the Session's, is kept for the call to
\* discard, or there is none.
LEMMA CompiledStep ==
  ASSUME IndInv, NEW d \in Creates, compiled(d)
  PROVE  IndInv'
PROOF
  <1>1. /\ create[d] = "compile" /\ compiler' = None
        /\ UNCHANGED <<group, gate, creators, members, gworker, todo, current, session, dclose,
                       dworker, runtime, misplaced, managerVars, entry, xworker, hookGroup, inside>>
        /\ plan \in [Creates -> {"none", "open", "closed"}]
        /\ debugPlan = None /\ \A e \in Creates : plan[e] = "open" <=> create[e] = "discard"
        /\ \A e \in Creates : create[e] = "compile" => e = d
    BY Compiling, Zenon DEF compiled, groupVars, closeVars, execVars, IndInv, PlanType
  <1>2. /\ runtime[d] = "none" /\ inside = inside \cup {d} /\ inside' \subseteq inside
        /\ create[d] \in InGroup \ {"leave"} /\ create[d] # "leased"
    BY <1>1, CallFacts, Counters, Zenon
  <1>3. CASE /\ entry = "active" /\ plan' = [plan EXCEPT ![d] = "open"] /\ debugPlan' = d
             /\ leases' = leases + 1 /\ create' = [create EXCEPT ![d] = "leased"]
    <2>1. create'[d] = "leased" /\ \A e \in Creates : e # d => create'[e] = create[e]
      BY <1>3, CreateAt, Zenon
    <2>2. /\ plan' \in [Creates -> {"none", "open", "closed"}] /\ plan'[d] = "open"
          /\ \A e \in Creates : e # d => plan'[e] = plan[e]
      BY <1>1, <1>3, Zenon
    <2>3. /\ \A e \in Creates : create'[e] # "compile"
          /\ \A e \in Creates : plan'[e] = "open" <=> e = d \/ create'[e] = "discard"
      BY <1>1, <2>1, <2>2, Zenon
    <2>4. PlanInv'
      BY <1>1, <1>3, <2>1, <2>3, Zenon DEF PlanInv
    <2>5. {compiler', debugPlan'} \subseteq Creates \cup {None}
      BY <1>1, <1>3, Zenon
    <2>6. QED BY <1>1, <1>3, <2>2, <2>4, <2>5, LeaseCall, Zenon
  <1>4. CASE /\ plan' = [plan EXCEPT ![d] = "open"]
             /\ create' = [create EXCEPT ![d] = "discard"] /\ UNCHANGED <<debugPlan, leases>>
    <2>1. create'[d] = "discard" /\ \A e \in Creates : e # d => create'[e] = create[e]
      BY <1>4, CreateAt, Zenon
    <2>2. /\ plan' \in [Creates -> {"none", "open", "closed"}] /\ plan'[d] = "open"
          /\ \A e \in Creates : e # d => plan'[e] = plan[e]
      BY <1>1, <1>4, Zenon
    <2>3. \A e \in Creates : create'[e] # "compile" /\ (plan'[e] = "open" <=> create'[e] = "discard")
      BY <1>1, <2>1, <2>2, Zenon
    <2>4. PlanInv'
      BY <1>1, <1>4, <2>3, NoneIsNoCreate, Zenon DEF PlanInv
    <2>5. {compiler', debugPlan'} \subseteq Creates \cup {None}
      BY <1>1, <1>4, Zenon
    <2>6. "discard" \in InGate /\ "discard" \in InGroup /\ "discard" # "leased" /\ "discard" \notin {"publish", "undo"}
          /\ runtime[d] # "open"
      BY <1>2, Counters, Zenon
    <2>7. QED BY <1>1, <1>2, <1>4, <2>2, <2>4, <2>5, <2>6, MovingCall, Zenon
  <1>5. CASE create' = [create EXCEPT ![d] = "exit"] /\ UNCHANGED <<plan, debugPlan, leases>>
    <2>1. create'[d] = "exit" /\ \A e \in Creates : e # d => create'[e] = create[e]
      BY <1>5, CreateAt, Zenon
    <2>2. \A e \in Creates : create'[e] # "compile" /\ (create'[e] = "discard" <=> create[e] = "discard")
      BY <1>1, <2>1, Zenon
    <2>3. PlanInv'
      BY <1>1, <1>5, <2>2, NoneIsNoCreate, Zenon DEF PlanInv
    <2>4. {compiler', debugPlan'} \subseteq Creates \cup {None}
      BY <1>1, <1>5, Zenon
    <2>5. "exit" \in InGate /\ "exit" \in InGroup /\ "exit" # "leased" /\ "exit" \notin {"publish", "undo"}
          /\ runtime[d] # "open"
      BY <1>2, Counters, Zenon
    <2>6. QED BY <1>1, <1>2, <1>5, <2>3, <2>4, <2>5, MovingCall, Zenon
  <1>6. QED BY <1>3, <1>4, <1>5, Zenon DEF compiled

\* The call that compiled in vain closes its Plan.
LEMMA DiscardStep ==
  ASSUME IndInv, NEW d \in Creates, discardPlan(d)
  PROVE  IndInv'
PROOF
  <1>1. /\ create[d] = "discard" /\ create' = [create EXCEPT ![d] = "exit"]
        /\ plan' = [plan EXCEPT ![d] = "closed"]
        /\ UNCHANGED <<group, gate, creators, members, gworker, todo, current, session, dclose, compiler, debugPlan,
                       dworker, runtime, misplaced, managerVars, entry, xworker, hookGroup, inside, leases>>
        /\ plan \in [Creates -> {"none", "open", "closed"}]
    BY Zenon DEF discardPlan, groupVars, closeVars, execVars, IndInv, PlanType
  <1>2. /\ runtime[d] = "none" /\ inside = inside \cup {d} /\ inside' \subseteq inside
        /\ create[d] \in InGroup \ {"leave"} /\ create[d] # "leased"
    BY <1>1, CallFacts, Counters, Zenon
  <1>3. create'[d] = "exit" /\ \A e \in Creates : e # d => create'[e] = create[e]
    BY <1>1, CreateAt, Zenon
  <1>4. PlanInv /\ d # debugPlan
    BY <1>1, Zenon DEF IndInv, PlanInv
  <1>5. \A e \in Creates : /\ create'[e] = "compile" <=> create[e] = "compile"
                           /\ create'[e] = "discard" <=> create[e] = "discard" /\ e # d
    BY <1>1, <1>3, Zenon
  <1>6. plan' \in [Creates -> {"none", "open", "closed"}] /\ plan'[d] = "closed"
        /\ \A e \in Creates : e # d => plan'[e] = plan[e]
    BY <1>1, Zenon
  <1>7. \A e \in Creates : plan'[e] = "open" <=> e = debugPlan \/ create'[e] = "discard"
    BY <1>4, <1>5, <1>6, Zenon DEF PlanInv
  <1>8. {compiler', debugPlan'} \subseteq Creates \cup {None} /\ (compiler # None => create'[compiler] = "compile")
    BY <1>1, <1>4, <1>5, Zenon DEF PlanInv, IndInv, PlanType
  <1>9. PlanInv'
    BY <1>1, <1>4, <1>5, <1>7, <1>8, Zenon DEF PlanInv
  <1>10. "exit" \in InGate /\ "exit" \in InGroup /\ "exit" # "leased" /\ "exit" \notin {"publish", "undo"}
         /\ runtime[d] # "open"
    BY <1>2, Counters, Zenon
  <1>11. QED BY <1>1, <1>2, <1>6, <1>8, <1>9, <1>10, MovingCall, Zenon

\* A call that has a lease, or a runtime, moves on; the lease stays or is returned.
LEMMA HolderCall ==
  ASSUME IndInv, NEW d \in Creates, NEW y \in {"exit", "leave"}, create[d] \in {"leased", "undo"},
         create' = [create EXCEPT ![d] = y],
         UNCHANGED <<group, gate, creators, members, gworker, todo, current, session, dclose,
                     dworker, misplaced, managerVars, entry, xworker, hookGroup, compiler, debugPlan, plan>>,
         runtime' \in [Creates -> {"none", "open", "closed"}],
         \A e \in Creates : e # d => runtime'[e] = runtime[e],
         runtime'[d] = "open" => y = "exit",
         inside' = (IF y \in InGate THEN inside \cup {d} ELSE inside \ {d}), inside' \subseteq inside,
         \/ runtime'[d] = "open" /\ leases' = leases
         \/ runtime'[d] # "open" /\ leases' = leases - 1
  PROVE  IndInv'
PROOF
  <1>1. /\ y \in InGroup /\ create[d] \in InGroup \ {"leave"} /\ (runtime'[d] = "open" => y \in {"exit", "publish", "undo"})
        /\ y \in {"exit", "publish", "undo", "leave"} /\ y \notin {"publish", "undo"}
        /\ y \notin {"leased", "compile", "discard"} /\ create[d] \notin {"compile", "discard"}
    BY Counters, Zenon
  <1>2. CallInv' /\ \A e \in Creates : create'[e] = IF e = d THEN y ELSE create[e]
    BY <1>1, CallStep, Zenon
  <1>3. UNCHANGED <<closed, shutdown, shutGroup>> /\ GatesClose
    BY Zenon DEF managerVars, GatesClose
  <1>4. PlanType'
    BY <1>3, Zenon DEF IndInv, PlanType
  <1>5. PlanInv'
    <2>1. \A e \in Creates : create[e] \in {"compile", "discard"} \/ create'[e] \in {"compile", "discard"}
                               => create'[e] = create[e]
      BY <1>1, <1>2, Zenon
    <2>2. QED BY <2>1, PlanFrame, Zenon
  <1>6. d \in Holders
    BY Zenon DEF IndInv, SessionInv, Holders
  <1>7. /\ runtime'[d] = "open" => Holders' = Holders
        /\ runtime'[d] # "open" => Holders' = Holders \ {d}
    BY <1>1, <1>2, <1>6 DEF Holders
  <1>8. LeasesBalanced'
    BY <1>6, <1>7, LeaseSteps, Zenon
  <1>9. \A e \in Creates : Busy(e)' => Busy(e)
    BY <1>7, Zenon DEF Busy
  <1>10. HookInv'
    BY <1>3, <1>9, HookFrame, Zenon
  <1>11. ShutdownInv'
    BY <1>3, ShutdownFrame, Zenon
  <1>12. QED BY <1>2, <1>4, <1>5, <1>8, <1>10, <1>11, Zenon DEF IndInv, CallInv

\* NewDebugSession keeps the lease for its runtime, or its failure returns it.
LEMMA NewRuntimeStep ==
  ASSUME IndInv, NEW d \in Creates, newDebugSession(d)
  PROVE  IndInv'
PROOF
  <1>1. /\ create[d] = "leased" /\ create' = [create EXCEPT ![d] = "exit"]
        /\ UNCHANGED <<group, gate, creators, members, gworker, todo, current, session, dclose, inside,
                       dworker, misplaced, managerVars, entry, xworker, hookGroup, compiler, debugPlan, plan>>
    BY Zenon DEF newDebugSession, groupVars, closeVars, execVars
  <1>2. /\ runtime[d] = "none" /\ inside = inside \cup {d} /\ "exit" \in InGate
        /\ runtime \in [Creates -> {"none", "open", "closed"}]
    BY <1>1, CallFacts, Counters, Zenon
  <1>3. /\ runtime' \in [Creates -> {"none", "open", "closed"}]
        /\ \A e \in Creates : e # d => runtime'[e] = runtime[e]
        /\ \/ runtime'[d] = "open" /\ leases' = leases
           \/ runtime'[d] # "open" /\ leases' = leases - 1
    BY <1>2, Zenon DEF newDebugSession
  <1>4. "exit" \in {"exit", "leave"} /\ create[d] \in {"leased", "undo"} /\ inside' \subseteq inside
    BY <1>1, Zenon
  <1>5. QED BY <1>1, <1>2, <1>3, <1>4, HolderCall, Zenon

\* CreateSession closes the runtime it could not publish.
LEMMA UndoStep ==
  ASSUME IndInv, NEW d \in Creates, undo(d)
  PROVE  IndInv'
PROOF
  <1>1. /\ create[d] = "undo" /\ create' = [create EXCEPT ![d] = "leave"]
        /\ UNCHANGED <<group, gate, creators, members, gworker, todo, current, session, dclose, inside,
                       dworker, misplaced, managerVars, entry, xworker, hookGroup, compiler, debugPlan, plan>>
    BY Zenon DEF undo, groupVars, closeVars, execVars
  <1>2. "undo" \notin InGate /\ "leave" \notin InGate
    BY Counters, Zenon
  <1>3. d \notin inside /\ runtime \in [Creates -> {"none", "open", "closed"}]
    BY <1>1, <1>2, CallFacts, Zenon
  <1>4. runtime[d] = "open"
    BY <1>1, Zenon DEF IndInv, SessionInv
  <1>5. /\ runtime' \in [Creates -> {"none", "open", "closed"}]
        /\ \A e \in Creates : e # d => runtime'[e] = runtime[e]
        /\ runtime'[d] # "open" /\ leases' = leases - 1
    BY <1>3, <1>4, Zenon DEF undo, closeRuntime
  <1>6. inside' = inside \ {d} /\ inside' \subseteq inside
    BY <1>1, <1>3, Zenon
  <1>7. "leave" \in {"exit", "leave"} /\ create[d] \in {"leased", "undo"}
    BY <1>1, Zenon
  <1>8. QED BY <1>1, <1>2, <1>5, <1>6, <1>7, HolderCall, Zenon

\* creation.finish leaves the Session's gate.
LEMMA FinishRuntimeStep ==
  ASSUME IndInv, NEW d \in Creates, finishRuntimeCreate(d)
  PROVE  IndInv'
PROOF
  <1>1. /\ create[d] = "exit" /\ inside' = inside \ {d} /\ inside' \subseteq inside
        /\ UNCHANGED <<group, gate, creators, members, gworker, todo, current, session, dclose,
                       dworker, runtime, misplaced, managerVars, entry, xworker, hookGroup,
                       debugPlan, plan, leases, compiler>>
    BY Zenon DEF finishRuntimeCreate, groupVars, closeVars, planVars
  <1>2. PICK y \in {"publish", "leave"} :
          create' = [create EXCEPT ![d] = y] /\ (y = "publish" <=> runtime[d] = "open")
    BY Zenon DEF finishRuntimeCreate
  <1>3. \A e \in Creates : create[e] \in {"compile", "discard"} \/ create'[e] \in {"compile", "discard"}
                             => create'[e] = create[e]
    BY <1>1, <1>2, CreateAt, Zenon
  <1>4. PlanInv'
    BY <1>1, <1>3, PlanFrame, Zenon
  <1>5. compiler' \in Creates \cup {None}
    BY <1>1, Zenon DEF IndInv, PlanType
  <1>6. y \in InGroup /\ y \notin InGate /\ y # "leased" /\ create[d] \in InGroup \ {"leave"} /\ create[d] # "leased"
    BY <1>1, <1>2, Counters, Zenon
  <1>7. (runtime[d] = "open" => y \in {"exit", "publish", "undo"}) /\ y \in {"exit", "publish", "undo", "leave"}
        /\ (y \in {"publish", "undo"} => runtime[d] = "open")
    BY <1>2, Zenon
  <1>8. QED BY <1>1, <1>2, <1>4, <1>5, <1>6, <1>7, PlainCall, Zenon

\* CreateSession adds the debug Session to its open group.
LEMMA PublishOpen ==
  ASSUME IndInv, NEW d \in Creates, publish(d), create' = [create EXCEPT ![d] = "leave"],
         session' = [session EXCEPT ![d] = "open"], members' = [members EXCEPT ![group] = @ \cup {d}],
         group # None, gate[group] = "open"
  PROVE  IndInv'
PROOF
  <1>1. /\ create[d] = "publish"
        /\ UNCHANGED <<group, gate, creators, gworker, todo, current, dclose, dworker, runtime, misplaced,
                       closed, shutdown, shutGroup, entry, inside, xworker, hookGroup, compiler, debugPlan, plan, leases>>
    BY Zenon DEF publish, managerVars, execVars, planVars
  <1>2. /\ group \in Creates /\ gworker[group] = "none" /\ runtime[d] = "open"
        /\ session[d] = "none" /\ dclose[d] = "idle" /\ dworker[d] = "none"
    <2>1. group \in Creates /\ runtime[d] = "open"
      BY <1>1, Zenon DEF IndInv, GroupType, SessionInv
    <2>2. gworker[group] = "none"
      BY <2>1, Zenon DEF IndInv, WorkerInv
    <2>3. session[d] = "none"
      BY <1>1, CallFacts, Zenon
    <2>4. QED BY <2>1, <2>2, <2>3, Zenon DEF IndInv, SessionInv
  <1>3. create'[d] = "leave" /\ \A e \in Creates : e # d => create'[e] = create[e]
    BY CreateAt, Zenon
  <1>4. session'[d] = "open" /\ \A e \in Creates : e # d => session'[e] = session[e]
    BY Zenon DEF IndInv, CallType
  <1>5. members' \in [Creates -> SUBSET Creates] /\ d \in members'[group]
        /\ \A g \in Creates : members[g] \subseteq members'[g] /\ (g # group => members'[g] = members[g])
    BY <1>2, Zenon DEF IndInv, GroupType
  <1>6. GroupType'
    BY <1>1, <1>5, Zenon DEF IndInv, GroupType
  <1>7. CallType'
    BY <1>1, Zenon DEF IndInv, CallType, CreatePC
  <1>8. PlanType' /\ WorkerInv'
    BY <1>1, Zenon DEF IndInv, PlanType, WorkerInv
  <1>9. NameInv'
    <2>1. \A e \in Creates : create'[e] = "idle" <=> create[e] = "idle"
      BY <1>1, <1>3, Zenon
    <2>2. create[group] # "idle"
      BY Zenon DEF IndInv, NameInv
    <2>3. \A g \in Creates : create[g] = "idle" => members'[g] = {}
      <3>1. \A g \in Creates : create[g] = "idle" => g # group /\ members[g] = {}
        BY <2>2, Zenon DEF IndInv, NameInv
      <3>2. QED BY <1>5, <3>1, Zenon
    <2>4. create'[group'] # "idle"
      BY <1>1, <1>2, <2>1, <2>2, Zenon
    <2>5. QED BY <1>1, <2>1, <2>3, <2>4, Zenon DEF IndInv, NameInv
  <1>10. CreatorInv'
    <2>1. \A e \in Creates : (create'[e] \in InGroup <=> create[e] \in InGroup) /\ (create'[e] \in InGate <=> create[e] \in InGate)
      BY <1>1, <1>3, Counters, Zenon
    <2>2. creators \in [Creates -> SUBSET Creates]
      BY Zenon DEF IndInv, GroupType
    <2>3. inside' = {e \in Creates : create'[e] \in InGate}
      <3>1. inside = {e \in Creates : create[e] \in InGate}
        BY Zenon DEF IndInv, CreatorInv
      <3>2. QED BY <1>1, <2>1, <3>1, Zenon
    <2>4. QED BY <1>1, <2>1, <2>2, <2>3, Zenon DEF IndInv, CreatorInv
  <1>11. SessionInv'
    <2>1. ASSUME NEW e \in Creates
          PROVE  /\ session'[e] = "none" => dclose'[e] = "idle" /\ dworker'[e] = "none"
                 /\ session'[e] = "open" => dclose'[e] = "idle" /\ dworker'[e] = "none"
                 /\ session'[e] = "closing" =>
                      \/ dclose'[e] = "started" /\ dworker'[e] = "settle"
                      \/ dclose'[e] = "finished" /\ dworker'[e] = "forget"
                 /\ session'[e] = "gone" => dclose'[e] = "finished" /\ dworker'[e] = "done"
                 /\ session'[e] # "none" => create'[e] \in {"leave", "ended"}
                 /\ runtime'[e] = "open" =>
                      \/ create'[e] \in {"exit", "publish", "undo"}
                      \/ session'[e] = "open" \/ dworker'[e] = "settle"
                 /\ create'[e] \notin {"exit", "publish", "undo", "leave", "ended"} => runtime'[e] = "none"
                 /\ create'[e] \in {"publish", "undo"} => runtime'[e] = "open"
      <3>1. CASE e = d
        BY <1>1, <1>2, <1>3, <1>4, <3>1, Zenon
      <3>2. CASE e # d
        <4>1. create'[e] = create[e] /\ session'[e] = session[e]
          BY <1>3, <1>4, <3>2, Zenon
        <4>2. QED BY <1>1, <4>1, ZenonT(40) DEF IndInv, SessionInv
      <3>3. QED BY <3>1, <3>2, Zenon
    <2>2. QED BY <2>1, Zenon DEF SessionInv
  <1>12. MemberInv'
    <2>1. ASSUME NEW e \in Creates, Unsettled(e)'
          PROVE  e \in members'[group]
      <3>1. CASE e = d
        BY <1>5, <3>1, Zenon
      <3>2. CASE e # d
        <4>1. Unsettled(e)
          BY <1>1, <1>4, <2>1, <3>2, Zenon DEF Unsettled
        <4>2. e \in members[group]
          BY <4>1, Zenon DEF IndInv, MemberInv
        <4>3. QED BY <1>2, <1>5, <4>2, Zenon
      <3>3. QED BY <3>1, <3>2, Zenon
    <2>2. gworker[group] # "close" /\ gworker[group] \in {"none", "drain", "close"}
      BY <1>2, Zenon
    <2>3. QED BY <1>1, <2>1, <2>2, Zenon DEF MemberInv
  <1>13. PlanInv'
    <2>1. \A e \in Creates : create[e] \in {"compile", "discard"} \/ create'[e] \in {"compile", "discard"}
                               => create'[e] = create[e]
      BY <1>1, <1>3, Zenon
    <2>2. QED BY <1>1, <2>1, PlanFrame, Zenon
  <1>14. Holders' = Holders
    BY <1>1, <1>3, Zenon DEF Holders
  <1>15. \A e \in Creates : Busy(e)' => Busy(e)
    BY <1>2, <1>4, <1>14, Zenon DEF Busy, Holders
  <1>16. GatesClose /\ inside' \subseteq inside
    BY <1>1, Zenon DEF GatesClose
  <1>17. LeasesBalanced'
    BY <1>1, <1>14, LeaseSteps, Zenon
  <1>18. HookInv'
    BY <1>1, <1>15, <1>16, HookFrame, Zenon
  <1>19. ShutdownInv'
    BY <1>1, <1>16, ShutdownFrame, Zenon
  <1>20. QED BY <1>6, <1>7, <1>8, <1>9, <1>10, <1>11, <1>12, <1>13, <1>17, <1>18, <1>19, Zenon DEF IndInv

\* CreateSession publishes the debug Session, or keeps the runtime to close it.
LEMMA PublishStep ==
  ASSUME IndInv, NEW d \in Creates, publish(d)
  PROVE  IndInv'
PROOF
  <1>1. /\ create[d] = "publish"
        /\ UNCHANGED <<group, gate, creators, gworker, todo, current, dclose, dworker, runtime, misplaced,
                       managerVars, entry, inside, xworker, hookGroup, compiler, debugPlan, plan, leases>>
    BY Zenon DEF publish, execVars, planVars
  <1>2. CASE create' = [create EXCEPT ![d] = "undo"] /\ UNCHANGED <<session, members>>
    <2>1. \A e \in Creates : create[e] \in {"compile", "discard"} \/ create'[e] \in {"compile", "discard"}
                               => create'[e] = create[e]
      BY <1>1, <1>2, CreateAt, Zenon
    <2>2. PlanInv' /\ compiler' \in Creates \cup {None}
      BY <1>1, <2>1, PlanFrame, Zenon DEF IndInv, PlanType
    <2>3. /\ "undo" \in InGroup /\ "undo" \notin InGate /\ create[d] \notin InGate
          /\ "undo" # "leased" /\ create[d] \in InGroup \ {"leave"} /\ create[d] # "leased"
      BY <1>1, Counters, Zenon
    <2>4. runtime[d] = "open" /\ d \notin inside
      BY <1>1, <2>3, CallFacts, Zenon DEF IndInv, SessionInv
    <2>5. inside' = inside \ {d} /\ inside' \subseteq inside
      BY <1>1, <2>4, Zenon
    <2>6. QED BY <1>1, <1>2, <2>2, <2>3, <2>4, <2>5, PlainCall, Zenon
  <1>3. CASE ~(create' = [create EXCEPT ![d] = "undo"] /\ UNCHANGED <<session, members>>)
    <2>1. /\ create' = [create EXCEPT ![d] = "leave"] /\ session' = [session EXCEPT ![d] = "open"]
          /\ members' = [members EXCEPT ![group] = @ \cup {d}] /\ group # None /\ gate[group] = "open"
      BY <1>3, Zenon DEF publish, Accepting
    <2>2. QED BY <2>1, PublishOpen, Zenon
  <1>4. QED BY <1>2, <1>3, Zenon

\* A call begins or returns: nothing but its place in a group changes.
LEMMA EdgeCall ==
  ASSUME IndInv, NEW d \in Creates, NEW y \in {"begun", "ended"}, create' = [create EXCEPT ![d] = y],
         create[d] = "idle" \/ (create[d] = "leave" /\ y = "ended"),
         UNCHANGED <<session, dclose, dworker, runtime, closed, shutdown, shutGroup, entry, inside, xworker,
                     hookGroup, compiler, debugPlan, plan, leases>>,
         misplaced' \in BOOLEAN
  PROVE  /\ CallType' /\ PlanType' /\ SessionInv' /\ PlanInv' /\ LeasesBalanced'
         /\ \A e \in Creates : (Busy(e)' => Busy(e)) /\ (Unsettled(e)' => Unsettled(e))
         /\ create'[d] = y /\ \A e \in Creates : e # d => create'[e] = create[e]
         /\ inside' = {e \in Creates : create'[e] \in InGate}
PROOF
  <1>1. create'[d] = y /\ \A e \in Creates : e # d => create'[e] = create[e]
    BY CreateAt, Zenon
  <1>2. CallType'
    BY Zenon DEF IndInv, CallType, CreatePC
  <1>3. PlanType'
    BY Zenon DEF IndInv, PlanType
  <1>4. SessionInv'
    <2>1. ASSUME NEW e \in Creates
          PROVE  /\ session'[e] # "none" => create'[e] \in {"leave", "ended"}
                 /\ runtime'[e] = "open" =>
                      \/ create'[e] \in {"exit", "publish", "undo"}
                      \/ session'[e] = "open" \/ dworker'[e] = "settle"
                 /\ create'[e] \notin {"exit", "publish", "undo", "leave", "ended"} => runtime'[e] = "none"
                 /\ create'[e] \in {"publish", "undo"} => runtime'[e] = "open"
      <3>1. CASE e = d
        <4>1. /\ create[d] = "idle" => session[d] = "none" /\ runtime[d] = "none"
              /\ runtime[d] = "open" => create[d] \in {"exit", "publish", "undo"} \/ session[d] = "open" \/ dworker[d] = "settle"
          BY CallFacts, Zenon DEF IndInv, SessionInv
        <4>2. create[d] \notin {"exit", "publish", "undo"} /\ create'[d] = y
          BY <1>1, Zenon
        <4>3. QED BY <3>1, <4>1, <4>2, Zenon
      <3>2. CASE e # d
        <4>1. create'[e] = create[e]
          BY <1>1, <3>2, Zenon
        <4>2. QED BY <4>1, Zenon DEF IndInv, SessionInv
      <3>3. QED BY <3>1, <3>2, Zenon
    <2>2. QED BY <2>1, Zenon DEF IndInv, SessionInv
  <1>5. PlanInv'
    <2>1. \A e \in Creates : create[e] \in {"compile", "discard"} \/ create'[e] \in {"compile", "discard"}
                               => create'[e] = create[e]
      BY <1>1, Zenon
    <2>2. QED BY <2>1, PlanFrame, Zenon
  <1>6. Holders' = Holders
    BY <1>1, Zenon DEF Holders
  <1>7. LeasesBalanced'
    BY <1>6, LeaseSteps, Zenon
  <1>8. \A e \in Creates : (Busy(e)' => Busy(e)) /\ (Unsettled(e)' => Unsettled(e))
    BY <1>6, Zenon DEF Busy, Unsettled
  <1>9. inside' = {e \in Creates : create'[e] \in InGate}
    <2>1. inside = {e \in Creates : create[e] \in InGate} /\ create[d] \notin InGate /\ y \notin InGate
      BY Zenon DEF IndInv, CreatorInv, InGate
    <2>2. QED BY <1>1, <2>1, Zenon
  <1>10. QED BY <1>1, <1>2, <1>3, <1>4, <1>5, <1>7, <1>8, <1>9, Zenon

\* A group that is not registered, or is about to be discarded, has nobody in it.
LEMMA NoGroup ==
  ASSUME IndInv, group = None
  PROVE  \A e \in Creates : ~Busy(e) /\ ~Unsettled(e) /\ create[e] \notin InGroup /\ creators[e] = {}
PROOF
  <1>1. \A e \in Creates : ~Busy(e) /\ ~Unsettled(e) /\ create[e] \notin InGroup
    BY BusyPlace, Zenon DEF IndInv, MemberInv, CreatorInv
  <1>2. \A e \in Creates : creators[e] = {}
    BY NoneIsNoCreate, Zenon DEF IndInv, CreatorInv
  <1>3. QED BY <1>1, <1>2, Zenon

\* beginCreate enters the registered group, or a new one named by the call.
LEMMA BeginCreateStep ==
  ASSUME IndInv, NEW d \in Creates, beginCreate(d)
  PROVE  IndInv'
PROOF
  <1> DEFINE g == IF group = None THEN d ELSE group
  <1>1. /\ create[d] = "idle" /\ gate' = gate /\ misplaced' = misplaced
        /\ UNCHANGED <<members, gworker, todo, current, session, dclose, dworker, runtime, closed, shutdown, shutGroup,
                       entry, inside, xworker, hookGroup, compiler, debugPlan, plan, leases>>
    BY Zenon DEF beginCreate, managerVars, closeVars, execVars, planVars
  <1>2. /\ misplaced \in BOOLEAN /\ group \in Creates \cup {None} /\ g \in Creates /\ GatesClose
        /\ creators \in [Creates -> SUBSET Creates] /\ "idle" \notin InGroup /\ "ended" \notin InGroup
    BY <1>1, Zenon DEF IndInv, PlanType, GroupType, GatesClose, InGroup
  <1>3. \A h \in Creates : d \notin creators[h]
    BY <1>1, <1>2, Zenon DEF IndInv, CreatorInv
  <1>4. CASE create' = [create EXCEPT ![d] = "ended"] /\ UNCHANGED <<group, creators>>
    <2>1. "ended" \in {"begun", "ended"}
      OBVIOUS
    <2>2. /\ CallType' /\ PlanType' /\ SessionInv' /\ PlanInv' /\ LeasesBalanced'
          /\ \A e \in Creates : (Busy(e)' => Busy(e)) /\ (Unsettled(e)' => Unsettled(e))
          /\ create'[d] = "ended" /\ \A e \in Creates : e # d => create'[e] = create[e]
          /\ inside' = {e \in Creates : create'[e] \in InGate}
      BY <1>1, <1>2, <1>4, <2>1, EdgeCall, Zenon
    <2>3. GroupType' /\ WorkerInv'
      BY <1>1, <1>4, Zenon DEF IndInv, GroupType, WorkerInv
    <2>4. NameInv'
      <3>1. \A e \in Creates : create'[e] = "idle" => create[e] = "idle"
        BY <2>2, Zenon
      <3>2. QED BY <1>1, <1>2, <1>4, <3>1, Zenon DEF IndInv, NameInv
    <2>5. CreatorInv'
      <3>1. \A e \in Creates : create'[e] \in InGroup <=> create[e] \in InGroup
        BY <1>1, <1>2, <2>2, Zenon
      <3>2. QED BY <1>1, <1>2, <1>4, <2>2, <3>1, Zenon DEF IndInv, CreatorInv
    <2>6. MemberInv'
      BY <1>1, <1>4, <2>2, Zenon DEF IndInv, MemberInv
    <2>7. HookInv' /\ ShutdownInv'
      <3>1. inside' \subseteq inside
        BY <1>1, Zenon
      <3>2. QED BY <1>1, <1>2, <1>4, <2>2, <3>1, HookFrame, ShutdownFrame, Zenon
    <2>8. QED BY <2>2, <2>3, <2>4, <2>5, <2>6, <2>7, Zenon DEF IndInv
  <1>5. CASE /\ ~closed /\ gate[g] = "open" /\ create' = [create EXCEPT ![d] = "begun"] /\ group' = g
             /\ creators' = [creators EXCEPT ![g] = @ \cup {d}]
    <2>1. "begun" \in {"begun", "ended"} /\ "begun" \in InGroup
      BY Counters, Zenon
    <2>2. /\ CallType' /\ PlanType' /\ SessionInv' /\ PlanInv' /\ LeasesBalanced'
          /\ \A e \in Creates : (Busy(e)' => Busy(e)) /\ (Unsettled(e)' => Unsettled(e))
          /\ create'[d] = "begun" /\ \A e \in Creates : e # d => create'[e] = create[e]
          /\ inside' = {e \in Creates : create'[e] \in InGate}
      BY <1>1, <1>2, <1>5, <2>1, EdgeCall, Zenon
    <2>3. /\ creators' \in [Creates -> SUBSET Creates]
          /\ creators'[g] = creators[g] \cup {d} /\ \A h \in Creates : h # g => creators'[h] = creators[h]
      BY <1>2, <1>5, Zenon
    <2>5. GroupType'
      BY <1>1, <1>2, <1>5, <2>3, Zenon DEF IndInv, GroupType
    <2>6. gworker[g] = "none"
      BY <1>2, <1>5, Zenon DEF IndInv, WorkerInv
    <2>7. \A h \in Creates : h # g => (creators[h] = {} /\ gworker[h] \notin {"drain", "close", "unregister"})
      <3>1. ASSUME NEW h \in Creates, h # g PROVE group # h
        BY <3>1, <1>2, NoneIsNoCreate, Zenon
      <3>2. \A h \in Creates : group # h => gworker[h] \notin {"drain", "close", "unregister"} /\ creators[h] = {}
        BY Zenon DEF IndInv, WorkerInv, CreatorInv
      <3>3. QED BY <3>1, <3>2, Zenon
    <2>8. WorkerInv'
      <3>1. ASSUME NEW h \in Creates
            PROVE  /\ gate'[h] = "open" <=> gworker'[h] = "none"
                   /\ gate'[h] = "closed" <=> gworker'[h] \in {"unregister", "done"}
                   /\ gworker'[h] \in {"drain", "close", "unregister"} => group' = h
                   /\ gworker'[h] \in {"close", "unregister", "done"} => creators'[h] = {}
                   /\ gworker'[h] = "done" => group' # h
        <4>1. CASE h = g
          BY <1>1, <1>5, <2>6, <4>1, Zenon
        <4>2. CASE h # g
          <5>1. /\ gate[h] = "open" <=> gworker[h] = "none"
                /\ gate[h] = "closed" <=> gworker[h] \in {"unregister", "done"}
            BY Zenon DEF IndInv, WorkerInv
          <5>2. QED BY <1>1, <1>5, <2>3, <2>7, <4>2, <5>1, Zenon
        <4>3. QED BY <4>1, <4>2, Zenon
      <3>2. QED BY <3>1, Zenon DEF WorkerInv
    <2>9. NameInv'
      <3>1. ASSUME NEW h \in Creates, create'[h] = "idle"
            PROVE  h # g /\ create[h] = "idle"
        <4>1. h # d /\ create[h] = "idle"
          BY <2>2, <3>1, Zenon
        <4>2. group # None => create[group] # "idle"
          BY Zenon DEF IndInv, NameInv
        <4>3. QED BY <4>1, <4>2, Zenon
      <3>2. \A h \in Creates : create'[h] = "idle" => gworker'[h] = "none" /\ creators'[h] = {} /\ members'[h] = {}
        BY <1>1, <2>3, <3>1, Zenon DEF IndInv, NameInv
      <3>3. create'[group'] # "idle"
        BY <1>2, <1>5, <3>1, Zenon
      <3>4. QED BY <3>2, <3>3, Zenon DEF NameInv
    <2>10. CreatorInv'
      <3>1. ASSUME NEW h \in Creates, NEW e \in creators'[h]
            PROVE  group' = h /\ create'[e] \in InGroup
        <4>1. h = g
          BY <2>3, <2>7, <3>1, Zenon
        <4>2. CASE e = d
          BY <1>5, <2>1, <2>2, <4>1, <4>2, Zenon
        <4>3. CASE e # d
          <5>1. e \in creators[g] /\ e \in Creates
            BY <1>2, <2>3, <3>1, <4>1, <4>3, Zenon
          <5>2. create[e] \in InGroup
            BY <1>2, <5>1, Zenon DEF IndInv, CreatorInv
          <5>3. QED BY <1>5, <2>2, <4>1, <4>3, <5>1, <5>2, Zenon
        <4>4. QED BY <4>2, <4>3, Zenon
      <3>2. ASSUME NEW e \in Creates, create'[e] \in InGroup
            PROVE  group' # None /\ e \in creators'[group']
        <4>1. group' # None /\ group' = g
          BY <1>2, <1>5, NoneIsNoCreate, Zenon
        <4>2. CASE e = d
          BY <2>3, <4>1, <4>2, Zenon
        <4>3. CASE e # d
          <5>1. create[e] \in InGroup
            BY <2>2, <3>2, <4>3, Zenon
          <5>2. group # None /\ e \in creators[group]
            BY <5>1, Zenon DEF IndInv, CreatorInv
          <5>3. QED BY <2>3, <4>1, <5>2, Zenon
        <4>4. QED BY <4>2, <4>3, Zenon
      <3>3. QED BY <1>1, <2>2, <3>1, <3>2, Zenon DEF IndInv, CreatorInv
    <2>11. ASSUME group # group' PROVE \A e \in Creates : ~Busy(e) /\ ~Unsettled(e)
      <3>1. group = None
        BY <1>5, <2>11, Zenon
      <3>2. QED BY <3>1, NoGroup, Zenon
    <2>12. MemberInv'
      BY <1>1, <2>2, <2>11, Zenon DEF IndInv, MemberInv
    <2>13. HookInv' /\ ShutdownInv'
      <3>1. inside' \subseteq inside /\ \A e \in Creates : Busy(e)' => Busy(e) /\ group' = group
        BY <1>1, <2>2, <2>11, Zenon
      <3>2. QED BY <1>1, <1>2, <1>5, <3>1, HookFrame, ShutdownFrame, Zenon
    <2>14. QED BY <2>2, <2>5, <2>8, <2>9, <2>10, <2>12, <2>13, Zenon DEF IndInv
  <1>6. QED BY <1>4, <1>5, Zenon DEF beginCreate, Accepting

\* An open group may be discarded as far as the workers are concerned.
LEMMA WorkerFrame ==
  ASSUME IndInv, UNCHANGED <<gate, gworker>>, group' \in {group, None},
         group' # group => gate[group] = "open",
         \A g \in Creates : creators'[g] \subseteq creators[g]
  PROVE  WorkerInv'
PROOF
  <1>1. group \in Creates \cup {None}
    BY Zenon DEF IndInv, GroupType
  <1>2. ASSUME NEW g \in Creates
        PROVE  /\ gworker[g] \in {"drain", "close", "unregister"} => group' = g
               /\ gworker[g] = "done" => group' # g
               /\ gworker[g] \in {"close", "unregister", "done"} => creators'[g] = {}
    <2>1. /\ gate[g] = "open" <=> gworker[g] = "none"
          /\ gworker[g] \in {"drain", "close", "unregister"} => group = g
          /\ gworker[g] \in {"close", "unregister", "done"} => creators[g] = {}
          /\ gworker[g] = "done" => group # g
      BY Zenon DEF IndInv, WorkerInv
    <2>2. gworker[g] \in {"drain", "close", "unregister"} => group' = g
      BY <2>1, Zenon
    <2>3. gworker[g] = "done" => group' # g
      BY <2>1, NoneIsNoCreate, Zenon
    <2>4. gworker[g] \in {"close", "unregister", "done"} => creators'[g] = {}
      BY <2>1, Zenon
    <2>5. QED BY <2>2, <2>3, <2>4, Zenon
  <1>3. QED BY <1>2, Zenon DEF IndInv, WorkerInv

\* finishCreate finds the group the call entered, and discards it when it is empty.
LEMMA FinishCreateStep ==
  ASSUME IndInv, NEW d \in Creates, finishCreate(d)
  PROVE  IndInv'
PROOF
  <1>1. /\ create[d] = "leave" /\ create' = [create EXCEPT ![d] = "ended"]
        /\ UNCHANGED <<gate, members, gworker, todo, current, session, dclose, dworker, runtime, closed, shutdown, shutGroup,
                       entry, inside, xworker, hookGroup, compiler, debugPlan, plan, leases>>
    BY Zenon DEF finishCreate, managerVars, closeVars, execVars, planVars
  <1>2. create[d] \in InGroup /\ "ended" \notin InGroup /\ "ended" \in {"begun", "ended"} /\ "idle" # "leave" /\ "idle" # "ended"
    BY <1>1, Counters, Zenon DEF InGroup
  <1>3. /\ group # None /\ d \in creators[group] /\ ~misplaced /\ group \in Creates
        /\ creators \in [Creates -> SUBSET Creates] /\ members \in [Creates -> SUBSET Creates]
    BY <1>2, Zenon DEF IndInv, CreatorInv, GroupType
  <1>4. /\ creators' = [creators EXCEPT ![group] = @ \ {d}] /\ ~misplaced'
        /\ group' = IF creators'[group] = {} /\ gate[group] = "open" /\ members[group] = {} THEN None ELSE group
    BY <1>3, Zenon DEF finishCreate, Accepting
  <1>5. /\ CallType' /\ PlanType' /\ SessionInv' /\ PlanInv' /\ LeasesBalanced'
        /\ \A e \in Creates : (Busy(e)' => Busy(e)) /\ (Unsettled(e)' => Unsettled(e))
        /\ create'[d] = "ended" /\ \A e \in Creates : e # d => create'[e] = create[e]
        /\ inside' = {e \in Creates : create'[e] \in InGate}
    <2>1. misplaced' \in BOOLEAN
      BY <1>3, <1>4, Zenon DEF finishCreate
    <2>2. QED BY <1>1, <1>2, <2>1, EdgeCall, Zenon
  <1>6. /\ creators' \in [Creates -> SUBSET Creates] /\ creators'[group] = creators[group] \ {d}
        /\ \A h \in Creates : creators'[h] \subseteq creators[h]
        /\ \A h \in Creates : h # group => creators'[h] = creators[h]
    BY <1>3, <1>4, Zenon
  <1>7. group' \in {group, None} /\ (group' # group => creators'[group] = {} /\ gate[group] = "open" /\ members[group] = {})
    BY <1>4, Zenon
  <1>8. GroupType'
    BY <1>1, <1>3, <1>6, <1>7, Zenon DEF IndInv, GroupType
  <1>9. WorkerInv'
    BY <1>1, <1>6, <1>7, WorkerFrame, Zenon
  <1>10. NameInv'
    <2>1. \A e \in Creates : create'[e] = "idle" <=> create[e] = "idle"
      BY <1>1, <1>2, <1>5, Zenon
    <2>2. \A e \in Creates : creators[e] = {} => creators'[e] = {}
      BY <1>6, Zenon
    <2>3. group' # None => group' = group
      BY <1>7, Zenon
    <2>4. QED BY <1>1, <1>3, <2>1, <2>2, <2>3, Zenon DEF IndInv, NameInv
  <1>11. ASSUME NEW e \in Creates, create'[e] \in InGroup
         PROVE  e # d /\ create[e] \in InGroup /\ e \in creators'[group] /\ group' = group
    <2>1. e # d /\ create[e] \in InGroup
      BY <1>2, <1>5, <1>11, Zenon
    <2>2. e \in creators[group]
      BY <2>1, Zenon DEF IndInv, CreatorInv
    <2>3. e \in creators'[group]
      BY <1>6, <2>1, <2>2, Zenon
    <2>4. QED BY <1>7, <2>1, <2>3, Zenon
  <1>12. CreatorInv'
    <2>1. ASSUME NEW h \in Creates, NEW e \in creators'[h]
          PROVE  group' = h /\ create'[e] \in InGroup
      <3>1. e \in creators[h] /\ e \in Creates
        BY <1>3, <1>6, <2>1, Zenon
      <3>2. group = h /\ create[e] \in InGroup
        BY <3>1, Zenon DEF IndInv, CreatorInv
      <3>3. e # d
        BY <1>6, <2>1, <3>2, Zenon
      <3>4. create'[e] \in InGroup
        BY <1>5, <3>1, <3>2, <3>3, Zenon
      <3>5. QED BY <1>11, <3>1, <3>2, <3>4, Zenon
    <2>2. QED BY <1>3, <1>4, <1>5, <1>11, <2>1, Zenon DEF CreatorInv
  <1>13. ASSUME NEW e \in Creates, Unsettled(e)
         PROVE  group' = group
    <2>1. e \in members[group]
      BY <1>13, Zenon DEF IndInv, MemberInv
    <2>2. QED BY <1>7, <2>1, Zenon
  <1>14. MemberInv'
    <2>1. ASSUME NEW e \in Creates, Unsettled(e)'
          PROVE  Unsettled(e) /\ group' = group
      BY <1>5, <1>13, <2>1, Zenon
    <2>2. QED BY <1>1, <2>1, Zenon DEF IndInv, MemberInv
  <1>15. ASSUME NEW e \in Creates, Busy(e)
         PROVE  group' = group
    <2>1. CASE Unsettled(e)
      BY <1>13, <2>1, Zenon
    <2>2. CASE create[e] \in {"leased", "exit", "publish", "undo"}
      <3>1. create[e] \in InGroup /\ e # d
        BY <1>1, <2>2, Counters, Zenon
      <3>2. create'[e] \in InGroup
        BY <1>5, <3>1, Zenon
      <3>3. QED BY <1>11, <3>2, Zenon
    <2>3. create[e] \in {"leased", "exit", "publish", "undo"} \/ Unsettled(e)
      BY <1>15, Zenon DEF IndInv, SessionInv, Busy, Holders, Unsettled
    <2>4. QED BY <2>1, <2>2, <2>3, Zenon
  <1>16. HookInv' /\ ShutdownInv'
    <2>1. inside' \subseteq inside /\ GatesClose /\ \A e \in Creates : Busy(e)' => Busy(e) /\ group' = group
      BY <1>1, <1>5, <1>15, Zenon DEF GatesClose
    <2>2. QED BY <1>1, <1>7, <2>1, HookFrame, ShutdownFrame, Zenon
  <1>17. QED BY <1>5, <1>8, <1>9, <1>10, <1>12, <1>14, <1>16, Zenon DEF IndInv
-----------------------------------------------------------------------------
(* Close of a debug Session *)

\* A close touches no call and no group.
LEMMA CloseFrame ==
  ASSUME IndInv, GroupType', CallType', SessionInv', MemberInv', LeasesBalanced',
         UNCHANGED <<group, gate, creators, gworker, create, inside, closed, shutdown, shutGroup, entry, xworker,
                     hookGroup, compiler, debugPlan, plan, misplaced>>,
         \A g \in Creates : members'[g] \subseteq members[g],
         \A e \in Creates : Busy(e)' => Busy(e)
  PROVE  IndInv'
PROOF
  <1>1. PlanType' /\ WorkerInv' /\ CreatorInv' /\ PlanInv'
    BY ZenonT(40) DEF IndInv, PlanType, WorkerInv, CreatorInv, PlanInv
  <1>2. NameInv'
    <2>1. \A g \in Creates : members[g] = {} => members'[g] = {}
      OBVIOUS
    <2>2. QED BY <2>1, Zenon DEF IndInv, NameInv
  <1>3. GatesClose /\ inside' \subseteq inside
    BY Zenon DEF GatesClose
  <1>4. HookInv' /\ ShutdownInv'
    BY <1>3, HookFrame, ShutdownFrame, Zenon
  <1>5. QED BY <1>1, <1>2, <1>4, Zenon DEF IndInv

\* DebugRuntime.Close returns the lease of an open runtime, once.
LEMMA RuntimeCloses ==
  ASSUME IndInv, NEW d \in Creates, closeRuntime(d), create' = create
  PROVE  /\ runtime' \in [Creates -> {"none", "open", "closed"}] /\ runtime'[d] # "open"
         /\ \A e \in Creates : e # d => runtime'[e] = runtime[e]
         /\ runtime[d] = "none" => runtime'[d] = "none"
         /\ Holders' \subseteq Holders /\ LeasesBalanced'
PROOF
  <1>1. runtime \in [Creates -> {"none", "open", "closed"}]
    BY Zenon DEF IndInv, CallType
  <1>2. CASE runtime[d] = "open"
    <2>1. runtime' = [runtime EXCEPT ![d] = "closed"] /\ leases' = leases - 1
      BY <1>2, Zenon DEF closeRuntime
    <2>2. runtime'[d] = "closed" /\ \A e \in Creates : e # d => runtime'[e] = runtime[e]
      BY <1>1, <2>1, Zenon
    <2>3. create[d] # "leased"
      <3>1. create[d] = "leased" => create[d] \notin {"exit", "publish", "undo", "leave", "ended"}
        OBVIOUS
      <3>2. create[d] = "leased" => runtime[d] = "none"
        BY <3>1, CallFacts, Zenon
      <3>3. QED BY <1>2, <3>2, Zenon
    <2>4. d \in Holders /\ Holders' = Holders \ {d}
      BY <1>2, <2>2, <2>3, Zenon DEF Holders
    <2>5. LeasesBalanced'
      BY <2>1, <2>4, LeaseSteps, Zenon
    <2>6. runtime' \in [Creates -> {"none", "open", "closed"}] /\ runtime'[d] # "open" /\ runtime[d] # "none"
      BY <1>1, <1>2, <2>1, Zenon
    <2>7. QED BY <2>2, <2>4, <2>5, <2>6, Zenon
  <1>3. CASE runtime[d] # "open"
    <2>1. runtime' = runtime /\ leases' = leases
      BY <1>3, Zenon DEF closeRuntime
    <2>2. Holders' = Holders
      BY <2>1, Zenon DEF Holders
    <2>3. LeasesBalanced'
      BY <2>1, <2>2, LeaseSteps, Zenon
    <2>4. QED BY <1>1, <1>3, <2>1, <2>2, <2>3, Zenon
  <1>4. QED BY <1>2, <1>3, Zenon

\* TerminateSession closes the runtime of a reachable debug Session.
LEMMA TerminateStep ==
  ASSUME IndInv, NEW d \in Creates, TerminateSession(d)
  PROVE  IndInv'
PROOF
  <1>1. /\ session[d] = "open" /\ closeRuntime(d)
        /\ UNCHANGED <<group, gate, creators, members, gworker, todo, current, create, session, dclose, dworker,
                       inside, closed, shutdown, shutGroup, entry, xworker, hookGroup, compiler, debugPlan, plan, misplaced>>
    BY Zenon DEF TerminateSession, managerVars, groupVars, createVars, closeVars, execVars
  <1>2. /\ runtime' \in [Creates -> {"none", "open", "closed"}] /\ runtime'[d] # "open"
        /\ \A e \in Creates : e # d => runtime'[e] = runtime[e]
        /\ Holders' \subseteq Holders /\ LeasesBalanced'
    BY <1>1, RuntimeCloses, Zenon
  <1>3. GroupType' /\ CallType' /\ MemberInv'
    BY <1>1, <1>2, Zenon DEF IndInv, GroupType, CallType, MemberInv, Unsettled
  <1>4. create[d] \in {"leave", "ended"}
    <2>1. session[d] # "none"
      BY <1>1, Zenon
    <2>2. QED BY <2>1, Zenon DEF IndInv, SessionInv
  <1>5. create[d] \notin {"publish", "undo"} /\ create[d] \in {"exit", "publish", "undo", "leave", "ended"}
    BY <1>4, Zenon
  <1>6. SessionInv'
    BY <1>1, <1>2, <1>5, ZenonT(40) DEF IndInv, SessionInv
  <1>7. \A e \in Creates : Busy(e)' => Busy(e)
    BY <1>1, <1>2, Zenon DEF Busy
  <1>8. \A g \in Creates : members'[g] \subseteq members[g]
    BY <1>1, Zenon
  <1>9. QED BY <1>1, <1>2, <1>3, <1>6, <1>7, <1>8, CloseFrame, Zenon

\* detachSession takes a reachable debug Session to its close worker.
LEMMA Detached ==
  ASSUME IndInv, NEW d \in Creates, session[d] = "open", detachSession(d), UNCHANGED <<create, runtime>>
  PROVE  CallType' /\ SessionInv' /\ \A e \in Creates : (Unsettled(e)' <=> Unsettled(e)) /\ (Busy(e)' => Busy(e))
PROOF
  <1>1. /\ session \in [Creates -> {"none", "open", "closing", "gone"}]
        /\ dclose \in [Creates -> {"idle", "started", "finished"}]
        /\ dworker \in [Creates -> {"none", "settle", "forget", "done"}]
    BY Zenon DEF IndInv, CallType
  <1>2. /\ session'[d] = "closing" /\ dclose'[d] = "started" /\ dworker'[d] = "settle"
        /\ \A e \in Creates : e # d => session'[e] = session[e] /\ dclose'[e] = dclose[e] /\ dworker'[e] = dworker[e]
    BY <1>1, Zenon DEF detachSession
  <1>3. CallType'
    BY Zenon DEF IndInv, CallType, detachSession
  <1>4. SessionInv'
    <2>1. ASSUME NEW e \in Creates
          PROVE  /\ session'[e] = "none" => dclose'[e] = "idle" /\ dworker'[e] = "none"
                 /\ session'[e] = "open" => dclose'[e] = "idle" /\ dworker'[e] = "none"
                 /\ session'[e] = "closing" =>
                      \/ dclose'[e] = "started" /\ dworker'[e] = "settle"
                      \/ dclose'[e] = "finished" /\ dworker'[e] = "forget"
                 /\ session'[e] = "gone" => dclose'[e] = "finished" /\ dworker'[e] = "done"
                 /\ session'[e] # "none" => create'[e] \in {"leave", "ended"}
                 /\ runtime'[e] = "open" =>
                      \/ create'[e] \in {"exit", "publish", "undo"}
                      \/ session'[e] = "open" \/ dworker'[e] = "settle"
      <3>1. CASE e = d
        <4>1. session[d] # "none"
          OBVIOUS
        <4>2. create[d] \in {"leave", "ended"}
          BY <4>1, Zenon DEF IndInv, SessionInv
        <4>3. QED BY <1>2, <3>1, <4>2, Zenon
      <3>2. CASE e # d
        BY <1>2, <3>2, ZenonT(40) DEF IndInv, SessionInv
      <3>3. QED BY <3>1, <3>2, Zenon
    <2>2. QED BY <2>1, Zenon DEF IndInv, SessionInv
  <1>5. ASSUME NEW e \in Creates PROVE Unsettled(e)' <=> Unsettled(e)
    BY <1>2, Zenon DEF Unsettled
  <1>6. Holders' = Holders
    BY Zenon DEF Holders
  <1>7. ASSUME NEW e \in Creates PROVE Busy(e)' => Busy(e)
    BY <1>2, <1>6, Zenon DEF Busy
  <1>8. QED BY <1>3, <1>4, <1>5, <1>7, Zenon

\* CloseSession.
LEMMA CloseStep ==
  ASSUME IndInv, NEW d \in Creates, CloseSession(d)
  PROVE  IndInv'
PROOF
  <1>1. /\ session[d] = "open" /\ detachSession(d)
        /\ UNCHANGED <<group, gate, creators, members, gworker, todo, current, create, runtime, leases,
                       inside, closed, shutdown, shutGroup, entry, xworker, hookGroup, compiler, debugPlan, plan, misplaced>>
    BY Zenon DEF CloseSession, managerVars, groupVars, createVars, execVars, planVars
  <1>2. CallType' /\ SessionInv' /\ \A e \in Creates : (Unsettled(e)' <=> Unsettled(e)) /\ (Busy(e)' => Busy(e))
    BY <1>1, Detached, Zenon
  <1>3. GroupType' /\ MemberInv'
    BY <1>1, <1>2, Zenon DEF IndInv, GroupType, MemberInv
  <1>4. LeasesBalanced'
    BY <1>1, Zenon DEF IndInv, LeasesBalanced
  <1>5. \A g \in Creates : members'[g] \subseteq members[g]
    BY <1>1, Zenon
  <1>6. QED BY <1>1, <1>2, <1>3, <1>4, <1>5, CloseFrame, Zenon

\* settleClose closes the runtime and publishes the result.
LEMMA SettleStep ==
  ASSUME IndInv, NEW d \in Creates, settle(d)
  PROVE  IndInv'
PROOF
  <1>1. /\ dworker[d] = "settle" /\ closeRuntime(d)
        /\ dworker' = [dworker EXCEPT ![d] = "forget"] /\ dclose' = [dclose EXCEPT ![d] = "finished"]
        /\ UNCHANGED <<group, gate, creators, members, gworker, todo, current, create, session,
                       inside, closed, shutdown, shutGroup, entry, xworker, hookGroup, compiler, debugPlan, plan, misplaced>>
    BY Zenon DEF settle, managerVars, groupVars, createVars, execVars
  <1>2. /\ runtime' \in [Creates -> {"none", "open", "closed"}] /\ runtime'[d] # "open"
        /\ \A e \in Creates : e # d => runtime'[e] = runtime[e]
        /\ Holders' \subseteq Holders /\ LeasesBalanced'
    BY <1>1, RuntimeCloses, Zenon
  <1>3. /\ dworker'[d] = "forget" /\ dclose'[d] = "finished"
        /\ \A e \in Creates : e # d => dclose'[e] = dclose[e] /\ dworker'[e] = dworker[e]
    BY <1>1, Zenon DEF IndInv, CallType
  <1>4. GroupType'
    BY <1>1, Zenon DEF IndInv, GroupType
  <1>5. CallType'
    BY <1>1, <1>2, Zenon DEF IndInv, CallType
  <1>6. session[d] = "closing" /\ create[d] \in {"leave", "ended"}
    <2>1. session[d] \in {"none", "open", "closing", "gone"}
      BY Zenon DEF IndInv, CallType
    <2>2. /\ session[d] \in {"none", "open"} => dworker[d] = "none"
          /\ session[d] = "gone" => dworker[d] = "done"
          /\ session[d] # "none" => create[d] \in {"leave", "ended"}
      BY Zenon DEF IndInv, SessionInv
    <2>3. session[d] = "closing"
      BY <1>1, <2>1, <2>2, Zenon
    <2>4. QED BY <2>2, <2>3, Zenon
  <1>7. SessionInv'
    <2>1. ASSUME NEW e \in Creates
          PROVE  /\ session'[e] = "none" => dclose'[e] = "idle" /\ dworker'[e] = "none"
                 /\ session'[e] = "open" => dclose'[e] = "idle" /\ dworker'[e] = "none"
                 /\ session'[e] = "closing" =>
                      \/ dclose'[e] = "started" /\ dworker'[e] = "settle"
                      \/ dclose'[e] = "finished" /\ dworker'[e] = "forget"
                 /\ session'[e] = "gone" => dclose'[e] = "finished" /\ dworker'[e] = "done"
                 /\ session'[e] # "none" => create'[e] \in {"leave", "ended"}
                 /\ runtime'[e] = "open" =>
                      \/ create'[e] \in {"exit", "publish", "undo"}
                      \/ session'[e] = "open" \/ dworker'[e] = "settle"
                 /\ create'[e] \notin {"exit", "publish", "undo", "leave", "ended"} => runtime'[e] = "none"
                 /\ create'[e] \in {"publish", "undo"} => runtime'[e] = "open"
      <3>1. CASE e = d
        BY <1>1, <1>2, <1>3, <1>6, <3>1, Zenon
      <3>2. CASE e # d
        <4>1. /\ session'[e] = session[e] /\ dclose'[e] = dclose[e] /\ dworker'[e] = dworker[e]
              /\ create'[e] = create[e] /\ runtime'[e] = runtime[e]
          BY <1>1, <1>2, <1>3, <3>2, Zenon
        <4>2. QED BY <4>1, Zenon DEF IndInv, SessionInv
      <3>3. QED BY <3>1, <3>2, Zenon
    <2>2. QED BY <2>1, Zenon DEF SessionInv
  <1>8. ASSUME NEW e \in Creates PROVE Unsettled(e)' => Unsettled(e)
    BY <1>1, <1>3, Zenon DEF Unsettled
  <1>9. MemberInv'
    BY <1>1, <1>8, Zenon DEF IndInv, MemberInv
  <1>10. \A e \in Creates : Busy(e)' => Busy(e)
    BY <1>1, <1>2, Zenon DEF Busy
  <1>11. \A g \in Creates : members'[g] \subseteq members[g]
    BY <1>1, Zenon
  <1>12. QED BY <1>1, <1>2, <1>4, <1>5, <1>7, <1>9, <1>10, <1>11, CloseFrame, Zenon

\* finishSessionClose leaves the group, and discards it when nobody uses it.
LEMMA ForgetStep ==
  ASSUME IndInv, NEW d \in Creates, forget(d)
  PROVE  IndInv'
PROOF
  <1>1. /\ dworker[d] = "forget"
        /\ dworker' = [dworker EXCEPT ![d] = "done"] /\ session' = [session EXCEPT ![d] = "gone"]
        /\ UNCHANGED <<gate, creators, gworker, todo, current, create, dclose, runtime, leases,
                       inside, closed, shutdown, shutGroup, entry, xworker, hookGroup, compiler, debugPlan, plan, misplaced>>
    BY Zenon DEF forget, managerVars, createVars, execVars, planVars
  <1>2. /\ dworker'[d] = "done" /\ session'[d] = "gone"
        /\ \A e \in Creates : e # d => session'[e] = session[e] /\ dworker'[e] = dworker[e]
    BY <1>1, Zenon DEF IndInv, CallType
  <1>3. session[d] = "closing" /\ dclose[d] = "finished" /\ create[d] \in {"leave", "ended"}
    <2>1. session[d] \in {"none", "open", "closing", "gone"}
      BY Zenon DEF IndInv, CallType
    <2>2. /\ session[d] \in {"none", "open"} => dworker[d] = "none"
          /\ session[d] = "gone" => dworker[d] = "done"
          /\ session[d] # "none" => create[d] \in {"leave", "ended"}
      BY Zenon DEF IndInv, SessionInv
    <2>3. session[d] = "closing"
      BY <1>1, <2>1, <2>2, Zenon
    <2>4. dclose[d] = "finished"
      <3>1. \/ dclose[d] = "started" /\ dworker[d] = "settle"
            \/ dclose[d] = "finished" /\ dworker[d] = "forget"
        BY <2>3, Zenon DEF IndInv, SessionInv
      <3>2. QED BY <1>1, <3>1, Zenon
    <2>5. QED BY <2>2, <2>3, <2>4, Zenon
  <1>4. /\ group \in Creates \cup {None} /\ members \in [Creates -> SUBSET Creates]
        /\ members' \in [Creates -> SUBSET Creates] /\ group' \in {group, None}
        /\ group' # group => gate[group] = "open" /\ creators[group] = {} /\ members'[group] = {}
        /\ \A g \in Creates : members'[g] \subseteq members[g] /\ members[g] \subseteq members'[g] \cup {d}
    <2>1. group \in Creates \cup {None} /\ members \in [Creates -> SUBSET Creates]
      BY Zenon DEF IndInv, GroupType
    <2>2. CASE group = None
      BY <2>1, <2>2, Zenon DEF forget
    <2>3. CASE group # None
      <3>1. /\ members' = [members EXCEPT ![group] = @ \ {d}]
            /\ group' = IF gate[group] = "open" /\ creators[group] = {} /\ members'[group] = {} THEN None ELSE group
        BY <2>3, Zenon DEF forget, Accepting
      <3>2. group' \in {group, None} /\ (group' # group => gate[group] = "open" /\ creators[group] = {} /\ members'[group] = {})
        BY <3>1, Zenon
      <3>3. /\ members' \in [Creates -> SUBSET Creates]
            /\ \A g \in Creates : members'[g] \subseteq members[g] /\ members[g] \subseteq members'[g] \cup {d}
        BY <2>1, <3>1, Zenon
      <3>4. QED BY <2>1, <3>2, <3>3, Zenon
    <2>4. QED BY <2>2, <2>3, Zenon
  <1>5. GroupType' /\ CallType' /\ PlanType'
    <2>1. GroupType'
      BY <1>1, <1>4, Zenon DEF IndInv, GroupType
    <2>2. CallType'
      BY <1>1, Zenon DEF IndInv, CallType
    <2>3. QED BY <1>1, <2>1, <2>2, Zenon DEF IndInv, PlanType
  <1>6. WorkerInv'
    <2>1. \A g \in Creates : creators'[g] \subseteq creators[g]
      BY <1>1, Zenon
    <2>2. QED BY <1>1, <1>4, <2>1, WorkerFrame, Zenon
  <1>7. NameInv'
    <2>1. \A g \in Creates : members[g] = {} => members'[g] = {}
      BY <1>4, Zenon
    <2>2. group' # None => group' = group
      BY <1>4, Zenon
    <2>3. QED BY <1>1, <2>1, <2>2, Zenon DEF IndInv, NameInv
  <1>8. ASSUME NEW e \in Creates, create[e] \in InGroup
        PROVE  group' = group
    <2>1. group # None /\ e \in creators[group]
      BY <1>8, Zenon DEF IndInv, CreatorInv
    <2>2. QED BY <1>4, <2>1, Zenon
  <1>9. CreatorInv'
    <2>1. creators \in [Creates -> SUBSET Creates]
      BY Zenon DEF IndInv, GroupType
    <2>2. QED BY <1>1, <1>8, <2>1, Zenon DEF IndInv, CreatorInv
  <1>10. SessionInv'
    <2>1. ASSUME NEW e \in Creates
          PROVE  /\ session'[e] = "none" => dclose'[e] = "idle" /\ dworker'[e] = "none"
                 /\ session'[e] = "open" => dclose'[e] = "idle" /\ dworker'[e] = "none"
                 /\ session'[e] = "closing" =>
                      \/ dclose'[e] = "started" /\ dworker'[e] = "settle"
                      \/ dclose'[e] = "finished" /\ dworker'[e] = "forget"
                 /\ session'[e] = "gone" => dclose'[e] = "finished" /\ dworker'[e] = "done"
                 /\ session'[e] # "none" => create'[e] \in {"leave", "ended"}
                 /\ runtime'[e] = "open" =>
                      \/ create'[e] \in {"exit", "publish", "undo"}
                      \/ session'[e] = "open" \/ dworker'[e] = "settle"
      <3>1. CASE e = d
        <4>1. runtime[d] = "open" =>
                \/ create[d] \in {"exit", "publish", "undo"} \/ session[d] = "open" \/ dworker[d] = "settle"
          BY Zenon DEF IndInv, SessionInv
        <4>2. runtime[d] # "open"
          BY <1>1, <1>3, <4>1, Zenon
        <4>3. QED BY <1>1, <1>2, <1>3, <3>1, <4>2, Zenon
      <3>2. CASE e # d
        <4>1. session'[e] = session[e] /\ dworker'[e] = dworker[e]
          BY <1>2, <3>2, Zenon
        <4>2. QED BY <1>1, <4>1, Zenon DEF IndInv, SessionInv
      <3>3. QED BY <3>1, <3>2, Zenon
    <2>2. QED BY <1>1, <2>1, ZenonT(40) DEF IndInv, SessionInv
  <1>11. ASSUME NEW e \in Creates, Unsettled(e)
         PROVE  e # d /\ group' = group /\ e \in members'[group]
    <2>1. e # d
      BY <1>1, <1>3, <1>11, Zenon DEF Unsettled
    <2>2. group # None /\ e \in members[group]
      BY <1>11, Zenon DEF IndInv, MemberInv
    <2>3. e \in members'[group]
      BY <1>4, <2>1, <2>2, Zenon
    <2>4. QED BY <1>4, <2>1, <2>3, Zenon
  <1>12. ASSUME NEW e \in Creates, Unsettled(e)' PROVE Unsettled(e)
    BY <1>2, <1>12, Zenon DEF Unsettled
  <1>13. MemberInv'
    BY <1>1, <1>11, <1>12, Zenon DEF IndInv, MemberInv
  <1>14. PlanInv' /\ Holders' = Holders
    BY <1>1, Zenon DEF IndInv, PlanInv, Holders
  <1>15. LeasesBalanced'
    BY <1>1, <1>14, LeaseSteps, Zenon
  <1>16. ASSUME NEW e \in Creates, Busy(e)'
         PROVE  Busy(e) /\ group' = group
    <2>1. Busy(e)
      BY <1>2, <1>14, <1>16, Zenon DEF Busy
    <2>2. CASE Unsettled(e)
      BY <1>11, <2>1, <2>2, Zenon
    <2>3. CASE create[e] \in {"leased", "exit", "publish", "undo"}
      <3>1. create[e] \in InGroup
        BY <2>3, Counters, Zenon
      <3>2. QED BY <1>8, <2>1, <3>1, Zenon
    <2>4. create[e] \in {"leased", "exit", "publish", "undo"} \/ Unsettled(e)
      BY <2>1, Zenon DEF IndInv, SessionInv, Busy, Holders, Unsettled
    <2>5. QED BY <2>2, <2>3, <2>4, Zenon
  <1>17. HookInv' /\ ShutdownInv'
    <2>1. inside' \subseteq inside /\ GatesClose
      BY <1>1, Zenon DEF GatesClose
    <2>2. QED BY <1>1, <1>4, <1>16, <2>1, HookFrame, ShutdownFrame, Zenon
  <1>18. QED BY <1>5, <1>6, <1>7, <1>9, <1>10, <1>13, <1>14, <1>15, <1>17, Zenon DEF IndInv
-----------------------------------------------------------------------------
(* Close of a group *)

\* Who is busy depends on the calls and the debug Sessions only.
LEMMA SameBusy ==
  ASSUME UNCHANGED <<create, session, dworker, runtime>>
  PROVE  \A e \in Creates : (Busy(e)' => Busy(e)) /\ (Unsettled(e)' => Unsettled(e))
PROOF
  BY Zenon DEF Busy, Holders, Unsettled

\* A step of a close worker or of a manager touches no call and no debug Session.
LEMMA QuietStep ==
  ASSUME IndInv, GroupType', WorkerInv', MemberInv', HookInv', ShutdownInv',
         UNCHANGED <<create, session, dclose, dworker, runtime, leases, inside, creators, members>>,
         ~misplaced', misplaced' \in BOOLEAN, closed' \in BOOLEAN, {hookGroup', shutGroup'} \subseteq Creates \cup {None},
         xworker' \in {"none", "drain", "hook", "release", "done"},
         shutdown' \in {"none", "closing", "waiting", "done"},
         entry' \in {entry, "closing"},
         UNCHANGED <<compiler, debugPlan, plan>>,
         group' = group \/ (group' = None /\ \A e \in Creates : create[e] \notin InGroup),
         \A g \in Creates : create[g] = "idle" => gworker'[g] = "none"
  PROVE  IndInv'
PROOF
  <1>1. CallType' /\ SessionInv'
    BY Zenon DEF IndInv, CallType, SessionInv
  <1>2. PlanType'
    BY Zenon DEF IndInv, PlanType
  <1>3. PlanInv'
    <2>1. entry # "active" => entry' # "active"
      OBVIOUS
    <2>2. QED BY <2>1, Zenon DEF IndInv, PlanInv
  <1>4. LeasesBalanced'
    BY Zenon DEF IndInv, LeasesBalanced
  <1>5. NameInv'
    BY Zenon DEF IndInv, NameInv
  <1>6. CreatorInv'
    <2>1. creators \in [Creates -> SUBSET Creates]
      BY Zenon DEF IndInv, GroupType
    <2>2. QED BY <2>1, Zenon DEF IndInv, CreatorInv
  <1>7. QED BY <1>1, <1>2, <1>3, <1>4, <1>5, <1>6, Zenon DEF IndInv

\* What the invariant says of the managers, for the steps below.
LEMMA ManagerFacts ==
  ASSUME IndInv
  PROVE  /\ misplaced \in BOOLEAN /\ ~misplaced /\ closed \in BOOLEAN /\ {hookGroup, shutGroup} \subseteq Creates \cup {None}
         /\ xworker \in {"none", "drain", "hook", "release", "done"}
         /\ shutdown \in {"none", "closing", "waiting", "done"}
         /\ entry \in {"active", "closing"} /\ entry \in {entry, "closing"} /\ group \in Creates \cup {None}
         /\ \A g \in Creates : create[g] = "idle" => gworker[g] = "none"
PROOF
  <1>1. {hookGroup, shutGroup} \subseteq Creates \cup {None} /\ entry \in {entry, "closing"}
    BY Zenon DEF IndInv, PlanType
  <1>2. QED BY <1>1, Zenon DEF IndInv, PlanType, CreatorInv, GroupType, NameInv

\* WaitForCreates returns and the worker captures the members.
LEMMA RetainedStep ==
  ASSUME IndInv, NEW g \in Creates, retained(g)
  PROVE  IndInv'
PROOF
  <1>1. /\ gworker[g] = "drain" /\ creators[g] = {}
        /\ gworker' = [gworker EXCEPT ![g] = "close"] /\ todo' = [todo EXCEPT ![g] = members[g]]
        /\ UNCHANGED <<group, gate, creators, members, current, create, session, dclose, dworker, runtime, leases, inside,
                       misplaced, closed, shutdown, shutGroup, entry, xworker, hookGroup, compiler, debugPlan, plan>>
    BY Zenon DEF retained, managerVars, createVars, closeVars, execVars, planVars
  <1>2. /\ gworker \in [Creates -> {"none", "drain", "close", "unregister", "done"}]
        /\ todo \in [Creates -> SUBSET Creates] /\ members[g] \in SUBSET Creates
    BY Zenon DEF IndInv, GroupType
  <1>3. /\ gworker'[g] = "close" /\ todo'[g] = members[g]
        /\ \A h \in Creates : h # g => gworker'[h] = gworker[h]
    BY <1>1, <1>2, Zenon
  <1>4. GroupType'
    BY <1>1, <1>2, Zenon DEF IndInv, GroupType
  <1>5. group = g /\ gate[g] # "open" /\ gate[g] # "closed"
    <2>1. gworker[g] \in {"drain", "close", "unregister"} /\ gworker[g] # "none" /\ gworker[g] \notin {"unregister", "done"}
      BY <1>1, Zenon
    <2>2. QED BY <2>1, Zenon DEF IndInv, WorkerInv
  <1>6. WorkerInv'
    <2>1. ASSUME NEW h \in Creates
          PROVE  /\ gate'[h] = "open" <=> gworker'[h] = "none"
                 /\ gate'[h] = "closed" <=> gworker'[h] \in {"unregister", "done"}
                 /\ gworker'[h] \in {"drain", "close", "unregister"} => group' = h
                 /\ gworker'[h] \in {"close", "unregister", "done"} => creators'[h] = {}
                 /\ gworker'[h] = "done" => group' # h
      <3>1. CASE h = g
        BY <1>1, <1>3, <1>5, <3>1, Zenon
      <3>2. CASE h # g
        <4>1. gworker'[h] = gworker[h]
          BY <1>3, <3>2, Zenon
        <4>2. QED BY <1>1, <4>1, Zenon DEF IndInv, WorkerInv
      <3>3. QED BY <3>1, <3>2, Zenon
    <2>2. QED BY <2>1, Zenon DEF WorkerInv
  <1>7. \A e \in Creates : (Busy(e)' => Busy(e)) /\ (Unsettled(e)' => Unsettled(e))
    BY <1>1, SameBusy, Zenon
  <1>8. MemberInv'
    <2>1. ASSUME NEW e \in Creates, Unsettled(e)'
          PROVE  group # None /\ e \in members[group]
      BY <1>7, <2>1, Zenon DEF IndInv, MemberInv
    <2>2. gworker'[group] \in {"none", "drain", "close"} /\ todo'[group] = members[group]
      BY <1>3, <1>5, Zenon
    <2>3. QED BY <1>1, <2>1, <2>2, Zenon DEF MemberInv
  <1>9. HookInv' /\ ShutdownInv'
    <2>1. inside' \subseteq inside /\ GatesClose
      BY <1>1, Zenon DEF GatesClose
    <2>2. QED BY <1>1, <1>7, <2>1, HookFrame, ShutdownFrame, Zenon
  <1>10. \A h \in Creates : create[h] = "idle" => gworker'[h] = "none"
    <2>1. create[g] # "idle"
      BY <1>1, ManagerFacts, Zenon
    <2>2. QED BY <1>3, <2>1, ManagerFacts, Zenon
  <1>11. QED BY <1>1, <1>4, <1>6, <1>8, <1>9, <1>10, ManagerFacts, QuietStep, Zenon

\* The worker starts the close of a captured member, unless it is gone.
LEMMA CloseMemberStep ==
  ASSUME IndInv, NEW g \in Creates, NEW d \in Creates, closeMember(g, d)
  PROVE  IndInv'
PROOF
  <1>1. /\ gworker[g] = "close" /\ current[g] = None /\ d \in todo[g]
        /\ todo' = [todo EXCEPT ![g] = @ \ {d}]
        /\ current' = [current EXCEPT ![g] = IF session[d] = "gone" THEN None ELSE d]
        /\ UNCHANGED <<group, gate, creators, members, gworker, create, runtime, leases, inside,
                       misplaced, closed, shutdown, shutGroup, entry, xworker, hookGroup, compiler, debugPlan, plan>>
    BY Zenon DEF closeMember, managerVars, createVars, execVars, planVars
  <1>2. /\ todo \in [Creates -> SUBSET Creates] /\ current \in [Creates -> Creates \cup {None}]
    BY Zenon DEF IndInv, GroupType
  <1>3. group = g
    <2>1. gworker[g] \in {"drain", "close", "unregister"}
      BY <1>1, Zenon
    <2>2. QED BY <2>1, Zenon DEF IndInv, WorkerInv
  <1>4. GroupType'
    BY <1>1, <1>2, Zenon DEF IndInv, GroupType
  <1>5. todo'[g] = todo[g] \ {d} /\ (session[d] # "gone" => current'[g] = d)
    BY <1>1, <1>2, Zenon
  <1>6. CallType' /\ SessionInv' /\ \A e \in Creates : (Unsettled(e)' => Unsettled(e)) /\ (Busy(e)' => Busy(e))
    <2>1. CASE session[d] = "open"
      BY <1>1, <2>1, Detached, Zenon DEF closeMember
    <2>2. CASE session[d] # "open"
      <3>1. UNCHANGED <<session, dclose, dworker>>
        BY <2>2, Zenon DEF closeMember, closeVars
      <3>2. CallType' /\ SessionInv'
        BY <1>1, <3>1, Zenon DEF IndInv, CallType, SessionInv
      <3>3. QED BY <1>1, <3>1, <3>2, SameBusy, Zenon
    <2>3. QED BY <2>1, <2>2, Zenon
  <1>7. MemberInv'
    <2>1. ASSUME NEW e \in Creates, Unsettled(e)
          PROVE  e \in todo'[group] \/ current'[group] = e
      <3>1. e \in todo[g]
        BY <1>1, <1>3, <2>1, NoneIsNoCreate, Zenon DEF IndInv, MemberInv
      <3>2. CASE e = d
        <4>1. session[e] = "gone" => dworker[e] = "done"
          BY Zenon DEF IndInv, SessionInv
        <4>2. session[d] # "gone"
          BY <2>1, <3>2, <4>1, Zenon DEF Unsettled
        <4>3. QED BY <1>3, <1>5, <3>2, <4>2, Zenon
      <3>3. CASE e # d
        BY <1>3, <1>5, <3>1, <3>3, Zenon
      <3>4. QED BY <3>2, <3>3, Zenon
    <2>2. QED BY <1>1, <1>6, <2>1, Zenon DEF IndInv, MemberInv
  <1>8. LeasesBalanced'
    BY <1>1, Zenon DEF IndInv, LeasesBalanced
  <1>9. \A h \in Creates : members'[h] \subseteq members[h]
    BY <1>1, Zenon
  <1>10. QED BY <1>1, <1>4, <1>6, <1>7, <1>8, <1>9, CloseFrame, Zenon

\* The member's close has settled.
LEMMA MemberClosedStep ==
  ASSUME IndInv, NEW g \in Creates, memberClosed(g)
  PROVE  IndInv'
PROOF
  <1>1. /\ current[g] # None /\ dclose[current[g]] = "finished" /\ current' = [current EXCEPT ![g] = None]
        /\ UNCHANGED <<group, gate, creators, members, gworker, todo, create, session, dclose, dworker, runtime, leases, inside,
                       misplaced, closed, shutdown, shutGroup, entry, xworker, hookGroup, compiler, debugPlan, plan>>
    BY Zenon DEF memberClosed, managerVars, createVars, closeVars, execVars, planVars
  <1>2. current \in [Creates -> Creates \cup {None}] /\ current[g] \in Creates
    BY <1>1, Zenon DEF IndInv, GroupType
  <1>3. \A h \in Creates : h # g => current'[h] = current[h]
    BY <1>1, <1>2, Zenon
  <1>4. GroupType'
    BY <1>1, <1>2, Zenon DEF IndInv, GroupType
  <1>5. CallType' /\ SessionInv' /\ LeasesBalanced'
    BY <1>1, ZenonT(40) DEF IndInv, CallType, SessionInv, LeasesBalanced
  <1>6. \A e \in Creates : (Busy(e)' => Busy(e)) /\ (Unsettled(e)' => Unsettled(e))
    BY <1>1, SameBusy, Zenon
  <1>7. ~Unsettled(current[g])
    <2>1. ASSUME NEW e \in Creates, dclose[e] = "finished" PROVE ~Unsettled(e)
      <3>1. /\ session[e] = "none" => dworker[e] = "none"
            /\ session[e] = "open" => dclose[e] = "idle"
            /\ session[e] = "closing" =>
                 (dclose[e] = "started" /\ dworker[e] = "settle") \/ (dclose[e] = "finished" /\ dworker[e] = "forget")
            /\ session[e] = "gone" => dworker[e] = "done"
            /\ session[e] \in {"none", "open", "closing", "gone"}
        BY Zenon DEF IndInv, SessionInv, CallType
      <3>2. QED BY <2>1, <3>1, Zenon DEF Unsettled
    <2>2. QED BY <1>1, <1>2, <2>1, Zenon
  <1>8. MemberInv'
    <2>1. ASSUME NEW e \in Creates, Unsettled(e), e \in todo[group] \/ current[group] = e, group \in Creates
          PROVE  e \in todo[group] \/ current'[group] = e
      BY <1>3, <1>7, <2>1, Zenon
    <2>2. group \in Creates \cup {None}
      BY Zenon DEF IndInv, GroupType
    <2>3. QED BY <1>1, <1>6, <2>1, <2>2, Zenon DEF IndInv, MemberInv
  <1>9. \A h \in Creates : members'[h] \subseteq members[h]
    BY <1>1, Zenon
  <1>10. QED BY <1>1, <1>4, <1>5, <1>6, <1>8, <1>9, CloseFrame, Zenon

\* FinishClose: every captured member has settled.
LEMMA FinishGroupStep ==
  ASSUME IndInv, NEW g \in Creates, finishGroup(g)
  PROVE  IndInv'
PROOF
  <1>1. /\ gworker[g] = "close" /\ todo[g] = {} /\ current[g] = None
        /\ gworker' = [gworker EXCEPT ![g] = "unregister"] /\ gate' = [gate EXCEPT ![g] = "closed"]
        /\ misplaced' = (misplaced \/ creators[g] # {})
        /\ UNCHANGED <<group, creators, members, todo, current, create, session, dclose, dworker, runtime, leases, inside,
                       closed, shutdown, shutGroup, entry, xworker, hookGroup, compiler, debugPlan, plan>>
    BY Zenon DEF finishGroup, managerVars, createVars, closeVars, execVars, planVars
  <1>2. /\ gworker \in [Creates -> {"none", "drain", "close", "unregister", "done"}]
        /\ gate \in [Creates -> {"open", "closing", "closed"}]
    BY Zenon DEF IndInv, GroupType
  <1>3. /\ gworker'[g] = "unregister" /\ gate'[g] = "closed"
        /\ \A h \in Creates : h # g => gworker'[h] = gworker[h] /\ gate'[h] = gate[h]
    BY <1>1, <1>2, Zenon
  <1>4. GroupType'
    BY <1>1, <1>2, Zenon DEF IndInv, GroupType
  <1>5. group = g /\ creators[g] = {}
    <2>1. gworker[g] \in {"drain", "close", "unregister"} /\ gworker[g] \in {"close", "unregister", "done"}
      BY <1>1, Zenon
    <2>2. QED BY <2>1, Zenon DEF IndInv, WorkerInv
  <1>6. ~misplaced' /\ misplaced' \in BOOLEAN
    BY <1>1, <1>5, ManagerFacts, Zenon
  <1>7. WorkerInv'
    <2>1. ASSUME NEW h \in Creates
          PROVE  /\ gate'[h] = "open" <=> gworker'[h] = "none"
                 /\ gate'[h] = "closed" <=> gworker'[h] \in {"unregister", "done"}
                 /\ gworker'[h] \in {"drain", "close", "unregister"} => group' = h
                 /\ gworker'[h] \in {"close", "unregister", "done"} => creators'[h] = {}
                 /\ gworker'[h] = "done" => group' # h
      <3>1. CASE h = g
        BY <1>1, <1>3, <1>5, <3>1, Zenon
      <3>2. CASE h # g
        <4>1. gworker'[h] = gworker[h] /\ gate'[h] = gate[h]
          BY <1>3, <3>2, Zenon
        <4>2. QED BY <1>1, <4>1, Zenon DEF IndInv, WorkerInv
      <3>3. QED BY <3>1, <3>2, Zenon
    <2>2. QED BY <2>1, Zenon DEF WorkerInv
  <1>8. \A e \in Creates : (Busy(e)' => Busy(e)) /\ (Unsettled(e)' => Unsettled(e))
    BY <1>1, SameBusy, Zenon
  <1>9. \A e \in Creates : ~Unsettled(e)
    BY <1>1, <1>5, NoneIsNoCreate, Zenon DEF IndInv, MemberInv
  <1>10. MemberInv'
    BY <1>8, <1>9, Zenon DEF MemberInv
  <1>11. HookInv' /\ ShutdownInv'
    <2>1. inside' \subseteq inside
      BY <1>1, Zenon
    <2>2. GatesClose
      <3>1. ASSUME NEW h \in Creates
            PROVE  (gate[h] = "closed" => gate'[h] = "closed") /\ (gate[h] # "open" => gate'[h] # "open")
        BY <1>3, Zenon
      <3>2. QED BY <3>1, Zenon DEF GatesClose
    <2>3. QED BY <1>1, <1>8, <2>1, <2>2, HookFrame, ShutdownFrame, Zenon
  <1>12. \A h \in Creates : create[h] = "idle" => gworker'[h] = "none"
    <2>1. create[g] # "idle"
      BY <1>1, ManagerFacts, Zenon
    <2>2. QED BY <1>3, <2>1, ManagerFacts, Zenon
  <1>13. QED BY <1>1, <1>4, <1>6, <1>7, <1>10, <1>11, <1>12, ManagerFacts, QuietStep, Zenon

\* The worker unregisters its group.
LEMMA UnregisterStep ==
  ASSUME IndInv, NEW g \in Creates, unregister(g)
  PROVE  IndInv'
PROOF
  <1>1. /\ gworker[g] = "unregister" /\ gworker' = [gworker EXCEPT ![g] = "done"]
        /\ group' = (IF group = g THEN None ELSE group)
        /\ UNCHANGED <<gate, creators, members, todo, current, create, session, dclose, dworker, runtime, leases, inside,
                       misplaced, closed, shutdown, shutGroup, entry, xworker, hookGroup, compiler, debugPlan, plan>>
    BY Zenon DEF unregister, managerVars, createVars, closeVars, execVars, planVars
  <1>2. gworker \in [Creates -> {"none", "drain", "close", "unregister", "done"}]
    BY Zenon DEF IndInv, GroupType
  <1>3. gworker'[g] = "done" /\ \A h \in Creates : h # g => gworker'[h] = gworker[h]
    BY <1>1, <1>2, Zenon
  <1>4. group = g /\ creators[g] = {} /\ group' = None
    <2>1. gworker[g] \in {"drain", "close", "unregister"} /\ gworker[g] \in {"close", "unregister", "done"}
      BY <1>1, Zenon
    <2>2. group = g /\ creators[g] = {}
      BY <2>1, Zenon DEF IndInv, WorkerInv
    <2>3. QED BY <1>1, <2>2, Zenon
  <1>5. GroupType'
    BY <1>1, <1>2, <1>4, Zenon DEF IndInv, GroupType
  <1>6. \A e \in Creates : create[e] \notin InGroup
    BY <1>4, Zenon DEF IndInv, CreatorInv
  <1>7. \A e \in Creates : ~Busy(e) /\ ~Unsettled(e)
    <2>1. gworker[group] \notin {"none", "drain", "close"}
      BY <1>1, <1>4, Zenon
    <2>2. QED BY <2>1, BusyPlace, Zenon DEF IndInv, MemberInv
  <1>8. WorkerInv'
    <2>1. ASSUME NEW h \in Creates
          PROVE  /\ gate'[h] = "open" <=> gworker'[h] = "none"
                 /\ gate'[h] = "closed" <=> gworker'[h] \in {"unregister", "done"}
                 /\ gworker'[h] \in {"drain", "close", "unregister"} => group' = h
                 /\ gworker'[h] \in {"close", "unregister", "done"} => creators'[h] = {}
                 /\ gworker'[h] = "done" => group' # h
      <3>1. group' # h
        BY <1>4, NoneIsNoCreate, Zenon
      <3>2. /\ gate[h] = "open" <=> gworker[h] = "none"
            /\ gate[h] = "closed" <=> gworker[h] \in {"unregister", "done"}
            /\ gworker[h] \in {"drain", "close", "unregister"} => h = g
            /\ gworker[h] \in {"close", "unregister", "done"} => creators[h] = {}
        BY <1>4, Zenon DEF IndInv, WorkerInv
      <3>3. CASE h = g
        BY <1>1, <1>3, <1>4, <3>1, <3>2, <3>3, Zenon
      <3>4. CASE h # g
        <4>1. gworker'[h] = gworker[h]
          BY <1>3, <3>4, Zenon
        <4>2. QED BY <1>1, <3>1, <3>2, <3>4, <4>1, Zenon
      <3>5. QED BY <3>3, <3>4, Zenon
    <2>2. QED BY <2>1, Zenon DEF WorkerInv
  <1>9. \A e \in Creates : (Busy(e)' => Busy(e)) /\ (Unsettled(e)' => Unsettled(e))
    BY <1>1, SameBusy, Zenon
  <1>10. MemberInv'
    BY <1>7, <1>9, Zenon DEF MemberInv
  <1>11. HookInv' /\ ShutdownInv'
    <2>1. inside' \subseteq inside /\ GatesClose /\ group' \in {group, None}
          /\ \A e \in Creates : Busy(e)' => Busy(e) /\ group' = group
      BY <1>1, <1>4, <1>7, <1>9, Zenon DEF GatesClose
    <2>2. QED BY <1>1, <2>1, HookFrame, ShutdownFrame, Zenon
  <1>12. \A h \in Creates : create[h] = "idle" => gworker'[h] = "none"
    <2>1. create[g] # "idle"
      BY <1>1, ManagerFacts, Zenon
    <2>2. QED BY <1>3, <2>1, ManagerFacts, Zenon
  <1>13. QED BY <1>1, <1>4, <1>5, <1>6, <1>8, <1>10, <1>11, <1>12, ManagerFacts, QuietStep, Zenon

\* closeExecutionSession closes the gate of the registered group.
LEMMA GroupCloses ==
  ASSUME IndInv, closeExecutionSession,
         UNCHANGED <<group, creators, members, todo, current, create, session, dclose, dworker, runtime>>
  PROVE  /\ GroupType' /\ WorkerInv' /\ MemberInv' /\ GatesClose
         /\ group # None => gate'[group] # "open"
         /\ \A h \in Creates : create[h] = "idle" => gworker'[h] = "none"
         /\ \A e \in Creates : Busy(e)' => Busy(e)
PROOF
  <1>1. \A e \in Creates : (Busy(e)' => Busy(e)) /\ (Unsettled(e)' => Unsettled(e))
    BY SameBusy, Zenon
  <1>2. CASE group # None /\ gate[group] = "open"
    <2>1. gate' = [gate EXCEPT ![group] = "closing"] /\ gworker' = [gworker EXCEPT ![group] = "drain"]
      BY <1>2, Zenon DEF closeExecutionSession, Accepting
    <2>2. /\ gworker \in [Creates -> {"none", "drain", "close", "unregister", "done"}]
          /\ gate \in [Creates -> {"open", "closing", "closed"}] /\ group \in Creates
      BY <1>2, Zenon DEF IndInv, GroupType
    <2>3. /\ gworker'[group] = "drain" /\ gate'[group] = "closing"
          /\ \A h \in Creates : h # group => gworker'[h] = gworker[h] /\ gate'[h] = gate[h]
      BY <2>1, <2>2, Zenon
    <2>4. GroupType'
      BY <2>1, <2>2, Zenon DEF IndInv, GroupType
    <2>5. WorkerInv'
      <3>1. ASSUME NEW h \in Creates
            PROVE  /\ gate'[h] = "open" <=> gworker'[h] = "none"
                   /\ gate'[h] = "closed" <=> gworker'[h] \in {"unregister", "done"}
                   /\ gworker'[h] \in {"drain", "close", "unregister"} => group' = h
                   /\ gworker'[h] \in {"close", "unregister", "done"} => creators'[h] = {}
                   /\ gworker'[h] = "done" => group' # h
        <4>1. CASE h = group
          BY <2>3, <4>1, Zenon
        <4>2. CASE h # group
          <5>1. gworker'[h] = gworker[h] /\ gate'[h] = gate[h]
            BY <2>3, <4>2, Zenon
          <5>2. QED BY <5>1, Zenon DEF IndInv, WorkerInv
        <4>3. QED BY <4>1, <4>2, Zenon
      <3>2. QED BY <3>1, Zenon DEF WorkerInv
    <2>6. MemberInv'
      <3>1. gworker'[group'] \in {"none", "drain", "close"} /\ gworker'[group'] # "close"
        BY <2>3, Zenon
      <3>2. QED BY <1>1, <3>1, Zenon DEF IndInv, MemberInv
    <2>7. GatesClose /\ gate'[group] # "open"
      <3>1. ASSUME NEW h \in Creates
            PROVE  (gate[h] = "closed" => gate'[h] = "closed") /\ (gate[h] # "open" => gate'[h] # "open")
        BY <1>2, <2>3, Zenon
      <3>2. gate'[group] # "open"
        BY <2>3, Zenon
      <3>3. QED BY <3>1, <3>2, Zenon DEF GatesClose
    <2>8. \A h \in Creates : create[h] = "idle" => gworker'[h] = "none"
      <3>1. create[group] # "idle"
        BY <1>2, Zenon DEF IndInv, NameInv
      <3>2. QED BY <2>3, <3>1, ManagerFacts, Zenon
    <2>9. QED BY <1>1, <2>4, <2>5, <2>6, <2>7, <2>8, Zenon
  <1>3. CASE ~(group # None /\ gate[group] = "open")
    <2>1. UNCHANGED <<gate, gworker>>
      BY <1>3, Zenon DEF closeExecutionSession, Accepting
    <2>2. GroupType' /\ WorkerInv' /\ MemberInv' /\ GatesClose
      BY <1>1, <2>1, Zenon DEF IndInv, GroupType, WorkerInv, MemberInv, GatesClose
    <2>3. QED BY <1>1, <1>3, <2>1, <2>2, ManagerFacts, Zenon
  <1>4. QED BY <1>2, <1>3, Zenon
-----------------------------------------------------------------------------
(* Shutdown and the close of the execution Session *)

\* debug.Manager.Close, up to its return.
LEMMA ShutdownSteps ==
  ASSUME IndInv, beginShutdown \/ shutdownGroup \/ shutdownReturned
  PROVE  IndInv'
PROOF
  <1>1. UNCHANGED <<group, creators, members, todo, current, create, session, dclose, dworker, runtime, leases, inside,
                    misplaced, entry, xworker, hookGroup, compiler, debugPlan, plan>>
    BY Zenon DEF beginShutdown, shutdownGroup, shutdownReturned, groupVars, createVars, closeVars, execVars, planVars
  <1>2. inside' \subseteq inside
    BY <1>1, Zenon
  <1>3. \A e \in Creates : (Busy(e)' => Busy(e)) /\ (Unsettled(e)' => Unsettled(e))
    BY <1>1, SameBusy, Zenon
  <1>4. CASE (beginShutdown \/ shutdownReturned)
    <2>1. UNCHANGED <<gate, gworker>>
      BY <1>4, Zenon DEF beginShutdown, shutdownReturned, groupVars
    <2>2. GroupType' /\ WorkerInv' /\ MemberInv' /\ GatesClose
      BY <1>1, <1>3, <2>1, Zenon DEF IndInv, GroupType, WorkerInv, MemberInv, GatesClose
    <2>3. HookInv'
      BY <1>1, <1>2, <1>3, <2>2, HookFrame, Zenon
    <2>4. ShutdownInv' /\ closed' \in BOOLEAN /\ shutGroup' = shutGroup /\ shutdown' \in {"none", "closing", "waiting", "done"}
      <3>1. CASE beginShutdown
        BY <1>1, <2>1, <3>1, Zenon DEF beginShutdown, IndInv, ShutdownInv
      <3>2. CASE shutdownReturned
        BY <1>1, <2>1, <3>2, ManagerFacts, Zenon DEF shutdownReturned, IndInv, ShutdownInv, groupVars
      <3>3. QED BY <1>4, <3>1, <3>2, Zenon
    <2>5. {hookGroup', shutGroup'} \subseteq Creates \cup {None}
      BY <1>1, <2>4, ManagerFacts, Zenon
    <2>6. QED BY <1>1, <2>1, <2>2, <2>3, <2>4, <2>5, ManagerFacts, QuietStep, Zenon
  <1>5. CASE shutdownGroup
    <2>1. closeExecutionSession /\ shutdown' = "waiting" /\ shutGroup' = group /\ closed' = closed /\ shutdown = "closing"
      BY <1>5, Zenon DEF shutdownGroup
    <2>2. /\ GroupType' /\ WorkerInv' /\ MemberInv' /\ GatesClose
          /\ group # None => gate'[group] # "open"
          /\ \A h \in Creates : create[h] = "idle" => gworker'[h] = "none"
      BY <1>1, <2>1, GroupCloses, Zenon
    <2>3. HookInv'
      BY <1>1, <1>2, <1>3, <2>2, HookFrame, Zenon
    <2>4. ShutdownInv'
      <3>1. closed
        BY <2>1, Zenon DEF IndInv, ShutdownInv
      <3>2. QED BY <1>1, <2>1, <2>2, <3>1, Zenon DEF ShutdownInv
    <2>5. /\ {hookGroup', shutGroup'} \subseteq Creates \cup {None}
          /\ shutdown' \in {"none", "closing", "waiting", "done"} /\ closed' \in BOOLEAN
      BY <1>1, <2>1, ManagerFacts, Zenon
    <2>6. QED BY <1>1, <2>2, <2>3, <2>4, <2>5, ManagerFacts, QuietStep, Zenon
  <1>6. QED BY <1>4, <1>5, Zenon

\* exec closes the Session: its creations drain, the hook closes the group it finds.
LEMMA SessionSteps ==
  ASSUME IndInv, closeSession \/ hook \/ hookReturned
  PROVE  IndInv'
PROOF
  <1>1. UNCHANGED <<group, creators, members, todo, current, create, session, dclose, dworker, runtime, leases, inside,
                    misplaced, closed, shutdown, shutGroup, compiler, debugPlan, plan>>
    BY Zenon DEF closeSession, hook, hookReturned, managerVars, groupVars, createVars, closeVars, execVars, planVars
  <1>2. \A e \in Creates : (Busy(e)' => Busy(e)) /\ (Unsettled(e)' => Unsettled(e))
    BY <1>1, SameBusy, Zenon
  <1>3. CASE closeSession \/ hookReturned
    <2>1. UNCHANGED <<gate, gworker, hookGroup>>
      BY <1>3, Zenon DEF closeSession, hookReturned, groupVars
    <2>2. GroupType' /\ WorkerInv' /\ MemberInv' /\ GatesClose
      BY <1>1, <1>2, <2>1, Zenon DEF IndInv, GroupType, WorkerInv, MemberInv, GatesClose
    <2>3. ShutdownInv'
      BY <1>1, <2>2, ShutdownFrame, Zenon
    <2>4. HookInv' /\ entry' \in {entry, "closing"} /\ xworker' \in {"none", "drain", "hook", "release", "done"}
      <3>1. CASE closeSession
        BY <3>1, Zenon DEF closeSession, HookInv
      <3>2. CASE hookReturned
        <4>1. /\ xworker = "hook" /\ xworker' = "release" /\ entry' = entry
              /\ hookGroup = None \/ gate[hookGroup] = "closed"
          BY <3>2, Zenon DEF hookReturned
        <4>2. /\ entry # "active" /\ inside = {}
              /\ \A d \in Creates : Busy(d) => hookGroup # None /\ group = hookGroup /\ gate[group] # "open"
          BY <4>1, Zenon DEF IndInv, HookInv
        <4>3. \A d \in Creates : Busy(d)' => hookGroup' # None /\ group' = hookGroup' /\ gate'[group'] # "open"
          BY <1>1, <1>2, <2>1, <4>2, Zenon
        <4>4. xworker' # "none" /\ entry' \in {entry, "closing"} /\ xworker' \in {"none", "drain", "hook", "release", "done"}
          BY <4>1, Zenon
        <4>5. inside' = {} /\ entry' # "active" /\ (hookGroup' = None \/ gate'[hookGroup'] = "closed")
          BY <1>1, <2>1, <4>1, <4>2, Zenon
        <4>6. QED BY <4>3, <4>4, <4>5, Zenon DEF HookInv
      <3>3. QED BY <1>3, <3>1, <3>2, Zenon
    <2>5. QED BY <1>1, <2>1, <2>2, <2>3, <2>4, ManagerFacts, QuietStep, Zenon
  <1>4. CASE hook
    <2>1. /\ xworker = "drain" /\ inside = {} /\ xworker' = "hook" /\ hookGroup' = group
          /\ closeExecutionSession /\ entry' = entry
      BY <1>4, Zenon DEF hook
    <2>2. /\ GroupType' /\ WorkerInv' /\ MemberInv' /\ GatesClose
          /\ group # None => gate'[group] # "open"
          /\ \A h \in Creates : create[h] = "idle" => gworker'[h] = "none"
      BY <1>1, <2>1, GroupCloses, Zenon
    <2>3. ShutdownInv'
      BY <1>1, <2>2, ShutdownFrame, Zenon
    <2>4. \A d \in Creates : Busy(d)' => hookGroup' # None /\ group' = hookGroup' /\ gate'[group'] # "open"
      BY <1>1, <1>2, <2>1, <2>2, BusyPlace, Zenon
    <2>5. xworker' # "none" /\ entry' # "active" /\ inside' = {} /\ xworker' \notin {"release", "done"}
      BY <1>1, <2>1, Zenon DEF IndInv, HookInv
    <2>6. HookInv'
      BY <2>4, <2>5, Zenon DEF HookInv
    <2>7. /\ {hookGroup', shutGroup'} \subseteq Creates \cup {None}
          /\ xworker' \in {"none", "drain", "hook", "release", "done"}
      BY <1>1, <2>1, ManagerFacts, Zenon
    <2>8. QED BY <1>1, <2>1, <2>2, <2>3, <2>6, <2>7, ManagerFacts, QuietStep, Zenon
  <1>5. QED BY <1>3, <1>4, Zenon

\* releasePlans closes the debug Plan.
LEMMA ReleaseStep ==
  ASSUME IndInv, releasePlans
  PROVE  IndInv'
PROOF
  <1>1. /\ xworker = "release" /\ compiler = None /\ leases = 0 /\ xworker' = "done" /\ debugPlan' = None
        /\ plan' = [d \in Creates |-> IF d = debugPlan THEN "closed" ELSE plan[d]]
        /\ UNCHANGED <<group, gate, creators, members, gworker, todo, current, create, session, dclose, dworker, runtime, leases,
                       inside, misplaced, closed, shutdown, shutGroup, entry, hookGroup, compiler>>
    BY Zenon DEF releasePlans, managerVars, groupVars, createVars, closeVars
  <1>2. GroupType' /\ CallType' /\ WorkerInv' /\ NameInv' /\ CreatorInv' /\ SessionInv' /\ LeasesBalanced'
    <2>1. GroupType' /\ CallType' /\ WorkerInv' /\ NameInv'
      BY <1>1, Zenon DEF IndInv, GroupType, CallType, WorkerInv, NameInv
    <2>2. CreatorInv' /\ SessionInv' /\ LeasesBalanced'
      BY <1>1, Zenon DEF IndInv, CreatorInv, SessionInv, LeasesBalanced
    <2>3. QED BY <2>1, <2>2, Zenon
  <1>3. MemberInv' /\ ShutdownInv'
    BY <1>1, Zenon DEF IndInv, MemberInv, Unsettled, ShutdownInv
  <1>4. PlanType'
    BY <1>1, Zenon DEF IndInv, PlanType
  <1>5. PlanInv'
    <2>1. \A d \in Creates : plan'[d] = "open" <=> create[d] = "discard"
      <3>1. \A d \in Creates : /\ plan[d] = "open" <=> d = debugPlan \/ create[d] = "discard"
                               /\ create[d] = "discard" => d # debugPlan
        BY Zenon DEF IndInv, PlanInv
      <3>2. QED BY <1>1, <3>1, Zenon
    <2>2. QED BY <1>1, <2>1, NoneIsNoCreate, Zenon DEF IndInv, PlanInv
  <1>6. HookInv'
    <2>1. \A e \in Creates : Busy(e)' => Busy(e)
      BY <1>1, SameBusy, Zenon
    <2>2. xworker \in {"hook", "release", "done"} /\ xworker \in {"release", "done"} /\ xworker # "none" /\ xworker' # "none"
      BY <1>1, Zenon
    <2>3. QED BY <1>1, <2>1, <2>2, Zenon DEF IndInv, HookInv
  <1>7. QED BY <1>2, <1>3, <1>4, <1>5, <1>6, Zenon DEF IndInv

\* A step that changes nothing.
LEMMA StutterInd ==
  ASSUME IndInv, UNCHANGED vars
  PROVE  IndInv'
PROOF
  <1>1. /\ UNCHANGED <<closed, shutdown, shutGroup, group, gate, creators, members, gworker, todo, current, create>>
        /\ UNCHANGED <<session, dclose, dworker, runtime, entry, inside, xworker, hookGroup, compiler, debugPlan, plan,
                       leases, misplaced>>
    BY Zenon DEF vars, managerVars, groupVars, createVars, closeVars, execVars, planVars
  <1>2. GroupType' /\ CallType' /\ PlanType' /\ WorkerInv' /\ NameInv' /\ CreatorInv'
    BY <1>1, ZenonT(40) DEF IndInv, GroupType, CallType, PlanType, WorkerInv, NameInv, CreatorInv
  <1>3. SessionInv' /\ MemberInv' /\ PlanInv' /\ LeasesBalanced'
    BY <1>1, ZenonT(40) DEF IndInv, SessionInv, MemberInv, Unsettled, PlanInv, LeasesBalanced
  <1>4. HookInv' /\ ShutdownInv'
    BY <1>1, Zenon DEF IndInv, HookInv, ShutdownInv, Busy, Holders
  <1>5. QED BY <1>2, <1>3, <1>4, Zenon DEF IndInv
-----------------------------------------------------------------------------
(* The theorems *)

\* Every step preserves the invariant.
LEMMA NextInd == IndInv /\ [Next]_vars => IndInv'
PROOF
  <1>1. SUFFICES ASSUME IndInv, [Next]_vars PROVE IndInv'
    OBVIOUS
  <1>2. CASE UNCHANGED vars
    BY <1>1, <1>2, StutterInd, Zenon
  <1>3. ASSUME NEW d \in Creates, beginCreate(d) \/ createStep(d) \/ cancelWait(d)
        PROVE  IndInv'
    <2>1. CASE createStep(d)
      BY <1>1, <2>1, BeginRuntimeStep, AcquireStep, WaitStep, CompiledStep, DiscardStep, NewRuntimeStep,
         FinishRuntimeStep, PublishStep, UndoStep, FinishCreateStep, Zenon DEF createStep
    <2>2. QED BY <1>1, <1>3, <2>1, BeginCreateStep, WaitStep, Zenon
  <1>4. ASSUME NEW d \in Creates, TerminateSession(d) \/ CloseSession(d) \/ closeStep(d)
        PROVE  IndInv'
    BY <1>1, <1>4, TerminateStep, CloseStep, SettleStep, ForgetStep, ZenonT(40) DEF closeStep
  <1>5. ASSUME NEW g \in Creates, groupStep(g)
        PROVE  IndInv'
    BY <1>1, <1>5, RetainedStep, CloseMemberStep, MemberClosedStep, FinishGroupStep, UnregisterStep, Zenon DEF groupStep
  <1>6. CASE beginShutdown \/ shutdownGroup \/ shutdownReturned
    BY <1>1, <1>6, ShutdownSteps, Zenon
  <1>7. CASE closeSession \/ sessionStep
    BY <1>1, <1>7, SessionSteps, ReleaseStep, Zenon DEF sessionStep
  <1>8. QED BY <1>1, <1>2, <1>3, <1>4, <1>5, <1>6, <1>7, Zenon DEF Next

\* The invariant holds always.
THEOREM Inductive == Spec => []IndInv
PROOF
  <1>1. QED BY InitInd, NextInd, PTL DEF Spec

\* A set whose members are equal has at most one.
LEMMA AtMostOne ==
  ASSUME NEW S, \A x, y \in S : x = y
  PROVE  Cardinality(S) <= 1
PROOF
  <1>1. CASE S = {}
    BY <1>1, FS_EmptySet
  <1>2. CASE S # {}
    <2>1. PICK x \in S : TRUE
      BY <1>2, Zenon
    <2>2. S = {x}
      BY <2>1, Zenon
    <2>3. QED BY <2>2, FS_Singleton
  <1>3. QED BY <1>1, <1>2, Zenon

\* What a creation takes it gives back or hands on: its place in the gate of the
\* group it entered, its lease, and the one debug Plan.
THEOREM CreationsHold == Spec => []CreationsBalanced
PROOF
  <1>1. IndInv => CreationsBalanced
    <2>1. SUFFICES ASSUME IndInv PROVE CreationsBalanced
      OBVIOUS
    <2>2. GatesBalanced /\ LeasesBalanced
      BY <2>1, Zenon DEF IndInv, CreatorInv, GatesBalanced
    <2>3. \A x, y \in {d \in Creates : create[d] = "compile"} : x = y
      BY <2>1, Zenon DEF IndInv, PlanInv
    <2>4. \A d \in Creates : plan[d] = "open" <=> d = debugPlan \/ create[d] = "discard"
      BY <2>1, Zenon DEF IndInv, PlanInv
    <2>5. OneDebugPlan
      BY <2>3, <2>4, AtMostOne, Zenon DEF OneDebugPlan
    <2>6. QED BY <2>2, <2>5, Zenon DEF CreationsBalanced
  <1>2. QED BY <1>1, Inductive, PTL

\* A group whose gate has closed for good holds nobody: no lease and no reachable
\* debug Session.
LEMMA ClosedIsIdle ==
  ASSUME IndInv, NEW g \in Creates, gate[g] = "closed"
  PROVE  \A d \in Creates : Busy(d) => group # g
PROOF
  <1>1. gworker[g] \in {"unregister", "done"}
    BY Zenon DEF IndInv, WorkerInv
  <1>2. gworker[g] \notin {"none", "drain", "close"}
    BY <1>1, Zenon
  <1>3. QED BY <1>2, BusyPlace, Zenon

\* When the close hook of the execution Session has returned, or debug.Manager.Close
\* has, every debug Session it covers is settled and its lease returned.
THEOREM ClosesHold == Spec => []ClosesSettle
PROOF
  <1>1. IndInv => ClosesSettle
    <2>1. SUFFICES ASSUME IndInv PROVE ClosesSettle
      OBVIOUS
    <2>2. hookGroup \in Creates \cup {None} /\ shutGroup \in Creates \cup {None} /\ compiler \in Creates \cup {None}
      BY <2>1, Zenon DEF IndInv, PlanType
    <2>3. HookSettles
      <3>1. SUFFICES ASSUME xworker \in {"release", "done"}
                     PROVE  leases = 0 /\ compiler = None /\ \A d \in Creates : session[d] # "open"
        BY Zenon DEF HookSettles
      <3>2. xworker \in {"hook", "release", "done"}
        BY <3>1, Zenon
      <3>3. \A d \in Creates : ~Busy(d)
        <4>1. hookGroup = None \/ gate[hookGroup] = "closed"
          BY <2>1, <3>1, Zenon DEF IndInv, HookInv
        <4>2. \A d \in Creates : Busy(d) => hookGroup # None /\ group = hookGroup
          BY <2>1, <3>2, Zenon DEF IndInv, HookInv
        <4>3. QED BY <2>1, <2>2, <4>1, <4>2, ClosedIsIdle, Zenon
      <3>4. Holders = {}
        BY <3>3, Zenon DEF Busy, Holders
      <3>5. leases = 0
        BY <2>1, <3>4, LeaseSteps, FS_EmptySet, Zenon
      <3>6. compiler = None
        <4>1. inside = {} /\ inside = {d \in Creates : create[d] \in InGate} /\ "compile" \in InGate
          BY <2>1, <3>2, Zenon DEF IndInv, HookInv, CreatorInv, InGate
        <4>2. QED BY <2>1, <2>2, <4>1, Zenon DEF IndInv, PlanInv
      <3>7. QED BY <3>3, <3>5, <3>6, Zenon DEF Busy
    <2>4. ShutdownIsComplete
      <3>1. SUFFICES ASSUME shutdown = "done"
                     PROVE  \A d \in Creates : session[d] # "open" /\ runtime[d] # "open" /\ create[d] # "leased"
        BY Zenon DEF ShutdownIsComplete
      <3>2. shutdown \in {"waiting", "done"}
        BY <3>1, Zenon
      <3>3. (group = None \/ group = shutGroup) /\ (shutGroup = None \/ gate[shutGroup] = "closed")
        BY <2>1, <3>1, <3>2, Zenon DEF IndInv, ShutdownInv
      <3>4. \A d \in Creates : ~Busy(d)
        BY <2>1, <2>2, <3>3, ClosedIsIdle, BusyPlace, Zenon
      <3>5. QED BY <3>4, Zenon DEF Busy, Holders
    <2>5. QED BY <2>3, <2>4, Zenon DEF ClosesSettle
  <1>2. QED BY <1>1, Inductive, PTL
=============================================================================
