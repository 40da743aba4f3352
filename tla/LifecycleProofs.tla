--------------------------- MODULE LifecycleProofs ---------------------------
(***************************************************************************)
(* Proofs about internal/lifecycle for any finite set of creators, any set *)
(* of closers, any results and any number of createsDone channels; and,    *)
(* from the line below its theorems on, about the lifecycle of the process *)
(* itself, internal/daemon.Daemon.                                         *)
(***************************************************************************)
EXTENDS Lifecycle, Daemon, FiniteSetTheorems, TLAPS

(***************************************************************************)
(* The inductive invariant.  NoPanic and QuiescentTeardown both rest on    *)
(* two facts no single action states: the counter is the number of         *)
(* creators inside, and the channel a worker captured is either closed or  *)
(* still the gate's current one.                                           *)
(***************************************************************************)
CounterInv == creating = Cardinality(Inside)

\* createsDone is nil exactly when nobody is inside, and never a closed channel.
ChannelInv ==
  /\ createsDone = 0 <=> creating = 0
  /\ createsDone <= channels
  /\ createsDone \notin closedChans
  /\ \A n \in closedChans : n <= channels

\* A worker exists only in a started close, and it is the only one.
OwnerInv ==
  /\ \A k \in Closers : worker[k] # "none" => Started
  /\ \A k \in Closers : worker[k] \in {"begun", "draining", "teardown", "publishing"}
                          => closeState = "started"
  /\ \A j, k \in Closers : worker[j] # "none" /\ worker[k] # "none" => j = k

\* What the worker waits on still means "everybody left".
DrainInv ==
  \A k \in Closers :
    /\ worker[k] = "draining" =>
         \/ creating = 0
         \/ captured[k] # 0 /\ captured[k] = createsDone
    /\ worker[k] \in {"teardown", "publishing", "done"} => creating = 0

WaiterInv == \A k \in Closers : waiter[k] # "idle" => Started

IndInv ==
  /\ TypeOK
  /\ NoPanic
  /\ CounterInv
  /\ ChannelInv
  /\ OwnerInv
  /\ DrainInv
  /\ WaiterInv
  /\ SharedResult
-----------------------------------------------------------------------------
\* The creators inside the gate are finitely many, so they can be counted.
LEMMA InsideFinite == IsFiniteSet(Inside) /\ Cardinality(Inside) \in Nat
  <1>1. IsFiniteSet(Inside)
    BY CreatorsFinite, FS_Subset, Zenon DEF Inside
  <1> QED
    BY <1>1, FS_CardinalityType, Zenon

\* The counter is zero exactly when no creator is inside.
LEMMA CounterZero == CounterInv => (creating = 0 <=> Inside = {})
  BY InsideFinite, FS_EmptySet, Zenon DEF CounterInv

\* A BeginCreate that is admitted raises the count of creators inside by one.
LEMMA EnterCounts ==
  ASSUME TypeOK, NEW c \in Creators, BeginCreate(c)
  PROVE  Cardinality(Inside') = Cardinality(Inside) + 1
  <1>1. Inside' = Inside \cup {c} /\ c \notin Inside
    BY Zenon DEF BeginCreate, Inside, TypeOK
  <1> QED
    BY <1>1, InsideFinite, FS_AddElement, Zenon

\* An EndCreate lowers the count of creators inside by one.
LEMMA LeaveCounts ==
  ASSUME TypeOK, NEW c \in Creators, EndCreate(c)
  PROVE  Cardinality(Inside') = Cardinality(Inside) - 1 /\ Cardinality(Inside) >= 1
  <1>1. Inside' = Inside \ {c} /\ c \in Inside
    BY Zenon DEF EndCreate, Inside, TypeOK
  <1>2. Cardinality(Inside) # 0
    BY <1>1, InsideFinite, FS_EmptySet, Zenon
  <1> QED
    <2>1. IsFiniteSet(Inside) /\ IsFiniteSet(Inside \ {c})
      BY InsideFinite, FS_RemoveElement, Zenon
    <2>2. Cardinality(Inside \ {c}) = Cardinality(Inside) - 1
      BY <1>1, <2>1, FS_RemoveElement, Zenon
    <2>3. Cardinality(Inside) \in Nat
      BY <2>1, FS_CardinalityType, Zenon
    <2> QED
      BY <1>1, <1>2, <2>2, <2>3

\* Every parent starts open, with no creator, no worker and no waiter.
LEMMA InitInd == Init => IndInv
  <1> SUFFICES ASSUME Init PROVE IndInv
    OBVIOUS
  <1>1. Inside = {}
    BY Zenon DEF Init, Inside
  <1>2. Cardinality(Inside) = 0
    BY <1>1, FS_EmptySet, Zenon
  <1>3. TypeOK
    <2>1. 0 \in Nat /\ 0 \in 0..MaxChannels /\ {} \subseteq 1..MaxChannels
      BY MaxChannelsNat
    <2> QED
      BY <2>1, Zenon DEF Init, TypeOK
  <1>4. CounterInv /\ ChannelInv
    BY <1>2 DEF Init, CounterInv, ChannelInv
  <1>5. NoPanic /\ OwnerInv /\ DrainInv /\ WaiterInv
    BY Zenon DEF Init, NoPanic, OwnerInv, DrainInv, WaiterInv, Started
  <1>6. SharedResult
    BY ResultsNotReserved, Zenon DEF Init, SharedResult
  <1> QED
    BY <1>3, <1>4, <1>5, <1>6, Zenon DEF IndInv

\* An admitted creator raises the counter and, as the first one, makes a fresh
\* channel; no close is running, so no worker can be looking at it.
LEMMA BeginCreateInd ==
  ASSUME IndInv, NEW c \in Creators, BeginCreate(c)
  PROVE  IndInv'
  <1> USE DEF IndInv
  <1>1. TypeOK'
    BY MaxChannelsNat DEF TypeOK, BeginCreate, closeVars, callVars
  <1>2. CounterInv'
    BY EnterCounts, Zenon DEF CounterInv, BeginCreate
  <1>3. ChannelInv'
    BY MaxChannelsNat DEF ChannelInv, TypeOK, BeginCreate
  <1>4. OwnerInv' /\ DrainInv' /\ WaiterInv' /\ SharedResult' /\ NoPanic'
    BY Zenon DEF OwnerInv, DrainInv, WaiterInv, SharedResult, NoPanic, Started, BeginCreate,
           closeVars, callVars, TypeOK
  <1> QED
    BY <1>1, <1>2, <1>3, <1>4, Zenon

\* A leaving creator lowers the counter; the last one closes the channel the
\* worker may have captured.
LEMMA EndCreateInd ==
  ASSUME IndInv, NEW c \in Creators, EndCreate(c)
  PROVE  IndInv'
  <1> USE DEF IndInv
  <1>a. creating >= 1 /\ creating # 0
    BY LeaveCounts DEF CounterInv, TypeOK
  <1>0. /\ creating >= 1
        /\ creating' = creating - 1
        /\ panicked' = panicked
        /\ \/ /\ creating = 1
              /\ closedChans' = closedChans \cup {createsDone}
              /\ createsDone' = 0
           \/ /\ creating # 1
              /\ UNCHANGED <<closedChans, createsDone>>
    BY <1>a, Zenon DEF EndCreate
  <1>b. createsDone \in 1..MaxChannels
    BY <1>a, MaxChannelsNat DEF TypeOK, ChannelInv
  <1>1. TypeOK'
    <2>1. creating' \in Nat /\ createsDone' \in 0..MaxChannels
      BY <1>0, <1>b, MaxChannelsNat DEF TypeOK
    <2>2. closedChans' \subseteq 1..MaxChannels
      BY <1>0, <1>b, ZenonT(40) DEF TypeOK
    <2>3. creator' \in [Creators -> {"out", "in"}] /\ panicked' \in BOOLEAN
      BY <1>0, Zenon DEF TypeOK, EndCreate
    <2> QED
      BY <2>1, <2>2, <2>3, Zenon DEF TypeOK, EndCreate, closeVars, callVars
  <1>2. CounterInv'
    BY <1>0, LeaveCounts, Zenon DEF CounterInv
  <1>3. ChannelInv'
    <2>1. channels' = channels /\ channels \in Nat /\ createsDone <= channels
      BY MaxChannelsNat DEF EndCreate, ChannelInv, TypeOK
    <2>2. (createsDone = 0 <=> creating = 0)'
      BY <1>0, <1>b DEF TypeOK
    <2>3. (createsDone <= channels)'
      BY <1>0, <2>1
    <2>4. (createsDone \notin closedChans)'
      <3>1. 0 \notin closedChans /\ createsDone # 0
        BY <1>b, MaxChannelsNat DEF TypeOK
      <3> QED
        BY <1>0, <3>1 DEF ChannelInv
    <2>5. (\A n \in closedChans : n <= channels)'
      BY <1>0, <2>1, Zenon DEF ChannelInv
    <2> QED
      BY <2>2, <2>3, <2>4, <2>5, Zenon DEF ChannelInv
  <1>4. OwnerInv' /\ DrainInv' /\ WaiterInv' /\ SharedResult' /\ NoPanic'
    BY <1>0 DEF OwnerInv, DrainInv, WaiterInv, SharedResult, NoPanic, Started, EndCreate,
           closeVars, callVars, TypeOK
  <1> QED
    BY <1>1, <1>2, <1>3, <1>4, Zenon

\* The steps of callers that close and wait: only an idle close is begun, and
\* only a finished one hands out its result.
LEMMA CallerInd ==
  ASSUME IndInv, NEW k \in Closers,
         \/ BeginClose(k) \/ CancelContext(k) \/ WaitEnter(k)
         \/ WaitDone(k) \/ WaitCanceled(k)
  PROVE  IndInv'
  <1> USE DEF IndInv
  <1>0. UNCHANGED gateVars /\ UNCHANGED <<closeErr, captured>>
    BY Zenon DEF BeginClose, CancelContext, WaitEnter, WaitDone, WaitCanceled, closeVars
  <1>1. TypeOK'
    <2> USE <1>0 DEF TypeOK, closeVars, gateVars
    <2>1. CASE BeginClose(k)
      BY <2>1, Zenon DEF BeginClose
    <2>2. CASE CancelContext(k)
      BY <2>2, Zenon DEF CancelContext
    <2>3. CASE WaitEnter(k)
      BY <2>3, ZenonT(30) DEF WaitEnter, Return
    <2>4. CASE WaitDone(k)
      BY <2>4, Zenon DEF WaitDone, Return
    <2>5. CASE WaitCanceled(k)
      BY <2>5, Zenon DEF WaitCanceled, Return
    <2> QED
      BY <2>1, <2>2, <2>3, <2>4, <2>5, Zenon
  <1>2. CounterInv' /\ ChannelInv'
    BY <1>0, Zenon DEF CounterInv, ChannelInv, Inside, gateVars
  <1>3. OwnerInv' /\ DrainInv' /\ WaiterInv'
    BY <1>0 DEF OwnerInv, DrainInv, WaiterInv, Started, TypeOK, BeginClose, CancelContext,
           WaitEnter, WaitDone, WaitCanceled, Return, closeVars, gateVars
  <1>4. SharedResult' /\ NoPanic'
    BY <1>0, ResultsNotReserved
    DEF SharedResult, NoPanic, WaiterInv, Started, TypeOK, BeginClose, CancelContext,
        WaitEnter, WaitDone, WaitCanceled, Return, closeVars, gateVars
  <1> QED
    BY <1>1, <1>2, <1>3, <1>4, Zenon

\* The steps of the teardown worker: the captured channel is the current one or
\* the gate is already empty, and nobody enters a started close.
LEMMA WorkerInd ==
  ASSUME IndInv, NEW k \in Closers,
         \/ CaptureCreates(k) \/ CreatesDone(k) \/ FinishCheck(k)
         \/ \E result \in Results : Finish(k, result)
  PROVE  IndInv'
  <1> USE DEF IndInv
  <1>0. UNCHANGED gateVars /\ UNCHANGED callVars
    BY Zenon DEF CaptureCreates, CreatesDone, FinishCheck, Finish
  <1>1. TypeOK'
    <2> USE <1>0 DEF TypeOK, closeVars, gateVars, callVars
    <2>1. CASE CaptureCreates(k)
      BY <2>1, ZenonT(40) DEF CaptureCreates
    <2>2. CASE CreatesDone(k)
      BY <2>2, Zenon DEF CreatesDone
    <2>3. CASE FinishCheck(k)
      BY <2>3, Zenon DEF FinishCheck
    <2>4. CASE \E result \in Results : Finish(k, result)
      BY <2>4, Zenon DEF Finish
    <2> QED
      BY <2>1, <2>2, <2>3, <2>4, Zenon
  <1>2. CounterInv' /\ ChannelInv'
    BY <1>0, Zenon DEF CounterInv, ChannelInv, Inside, gateVars
  <1>3. OwnerInv' /\ WaiterInv'
    BY <1>0 DEF OwnerInv, WaiterInv, Started, TypeOK, CaptureCreates, CreatesDone,
           FinishCheck, Finish, closeVars, callVars
  <1>4. DrainInv'
    BY <1>0 DEF DrainInv, ChannelInv, TypeOK, CaptureCreates, CreatesDone,
           FinishCheck, Finish, closeVars, gateVars
  <1>5. SharedResult' /\ NoPanic'
    BY <1>0, ResultsNotReserved, Zenon
    DEF SharedResult, NoPanic, OwnerInv, DrainInv, Started, TypeOK, CaptureCreates, CreatesDone,
        FinishCheck, Finish, closeVars, callVars
  <1> QED
    BY <1>1, <1>2, <1>3, <1>4, <1>5, Zenon

\* Every step of a creator, a caller of Wait or the worker keeps the invariant.
LEMMA NextInd == IndInv /\ [Next]_vars => IndInv'
  <1> SUFFICES ASSUME IndInv, [Next]_vars PROVE IndInv'
    OBVIOUS
  <1>1. CASE UNCHANGED vars
    BY <1>1, Zenon DEF vars, IndInv, TypeOK, NoPanic, CounterInv, ChannelInv, OwnerInv, DrainInv,
           WaiterInv, SharedResult, Started, Inside
  <1>2. CASE Next
    BY <1>2, BeginCreateInd, EndCreateInd, CallerInd, WorkerInd, Zenon DEF Next
  <1> QED
    BY <1>1, <1>2, Zenon

\* The invariant above holds in every reachable state.
LEMMA Inductive == Spec => []IndInv
  BY InitInd, NextInd, PTL DEF Spec
-----------------------------------------------------------------------------
\* The fields of Gate and CloseOperation keep their types.
THEOREM TypeCorrect == Spec => []TypeOK
  BY Inductive, PTL DEF IndInv

\* No panic of the package is reachable by callers that pair BeginCreate with
\* EndCreate and let the one owner of BeginClose tear down.
THEOREM PanicFree == Spec => []NoPanic
  BY Inductive, PTL DEF IndInv

\* When WaitForCreates has returned no creator is inside the gate, for any
\* number of creators and of createsDone channels.
THEOREM TeardownIsQuiescent == Spec => []QuiescentTeardown
  <1>1. IndInv => QuiescentTeardown
    BY CounterZero, Zenon DEF IndInv, DrainInv, QuiescentTeardown
  <1> QED
    BY <1>1, Inductive, PTL

\* The three together: what the managers built on a Gate rely on.
THEOREM GateIsSafe == Spec => []GateSafe
  BY TypeCorrect, PanicFree, TeardownIsQuiescent, PTL DEF GateSafe

\* All callers of Wait share the result that Finish published.
THEOREM ResultIsShared == Spec => []SharedResult
  BY Inductive, PTL DEF IndInv

\* A wait that gives up on its context gave up before the publication.
THEOREM PublishedResultWins == Spec => ResultBeatsCancellation
  <1>1. ASSUME IndInv, [Next]_vars
        PROVE  [\A k \in Closers :
                  returned[k] # "canceled" /\ returned'[k] = "canceled" => closeState # "finished"]_vars
    <2> SUFFICES ASSUME Next, NEW k \in Closers,
                        returned[k] # "canceled", returned'[k] = "canceled"
                 PROVE  closeState # "finished"
      BY <1>1, Zenon
    <2>1. closeErr # "canceled"
      BY <1>1, ResultsNotReserved, Zenon DEF IndInv, TypeOK
    <2>2. PICK j \in Closers : WaitEnter(j) \/ WaitDone(j) \/ WaitCanceled(j)
      BY Zenon DEF Next, BeginCreate, EndCreate, BeginClose, CancelContext, CaptureCreates,
             CreatesDone, FinishCheck, Finish, callVars
    <2> QED
      BY <1>1, <2>1, <2>2, Zenon DEF IndInv, TypeOK, WaitEnter, WaitDone, WaitCanceled, Return
  <1> QED
    BY <1>1, Inductive, PTL DEF Spec, ResultBeatsCancellation
-----------------------------------------------------------------------------
\* A step of the gate is a step of the barrier or changes nothing of it.
LEMMA BarrierStep ==
  IndInv /\ [Next]_vars => [Barrier!BarrierNext]_(Barrier!barrierVars)
  <1> SUFFICES ASSUME IndInv, [Next]_vars
               PROVE  [Barrier!BarrierNext]_(Barrier!barrierVars)
    OBVIOUS
  <1> USE DEF Barrier!barrierVars
  <1>1. ASSUME NEW c \in Creators, BeginCreate(c)
        PROVE  Barrier!Enter(c)
    BY <1>1, Zenon DEF IndInv, TypeOK, BeginCreate, Started, Inside, BarrierPhase, closeVars,
           Barrier!Enter
  <1>2. ASSUME NEW c \in Creators, EndCreate(c)
        PROVE  Barrier!Leave(c)
    BY <1>2, Zenon DEF IndInv, TypeOK, EndCreate, Inside, BarrierPhase, closeVars, Barrier!Leave
  <1>3. ASSUME NEW k \in Closers, BeginClose(k)
        PROVE  Barrier!Shut \/ UNCHANGED <<BarrierPhase, Inside, closeErr>>
    BY <1>3, Zenon DEF BeginClose, Inside, BarrierPhase, gateVars, Barrier!Shut
  <1>4. ASSUME NEW k \in Closers, NEW result \in Results, Finish(k, result)
        PROVE  Barrier!Publish
    <2>1. closeState = "started" /\ Inside = {}
      BY <1>4, CounterZero, Zenon DEF IndInv, OwnerInv, DrainInv, Finish
    <2> QED
      BY <1>4, <2>1, Zenon DEF Finish, Inside, BarrierPhase, gateVars, Barrier!Publish
  <1>5. ASSUME NEW k \in Closers,
               \/ CancelContext(k) \/ WaitEnter(k) \/ WaitDone(k) \/ WaitCanceled(k)
               \/ CaptureCreates(k) \/ CreatesDone(k) \/ FinishCheck(k)
        PROVE  UNCHANGED <<BarrierPhase, Inside, closeErr>>
    BY <1>5, Zenon DEF CancelContext, WaitEnter, WaitDone, WaitCanceled, CaptureCreates, CreatesDone,
           FinishCheck, Inside, BarrierPhase, gateVars, closeVars
  <1>6. CASE UNCHANGED vars
    BY <1>6, Zenon DEF vars, Inside, BarrierPhase
  <1> QED
    BY <1>1, <1>2, <1>3, <1>4, <1>5, <1>6, Zenon DEF Next, Barrier!BarrierNext

\* lifecycle.Gate implements the creation barrier: nobody enters after the
\* close began and the result is published only when everybody left.
THEOREM GateImplementsBarrier == Spec => ImplementsBarrier
  <1>1. Init => Barrier!BarrierInit
    BY Zenon DEF Init, Barrier!BarrierInit, BarrierPhase, Inside
  <1> QED
    BY <1>1, BarrierStep, Inductive, PTL DEF Spec, ImplementsBarrier, Barrier!BarrierSpec
-----------------------------------------------------------------------------
(***************************************************************************)
(* internal/daemon.Daemon, for any set of Stop calls and any set of RPCs:  *)
(* one cleanup, which closes the runtime last, and Stop results that are   *)
(* those of that cleanup.                                                  *)
(*                                                                         *)
(* The inductive invariant follows the argument of the code's comments:    *)
(* whoever leaves "new", "starting" or "running" for "stopping" either     *)
(* starts the cleanup or leaves it to the Start in progress (CleanupInv);  *)
(* what the cleanup is told about listener and server is right             *)
(* (ListenerInv, ServerInv); and each step it has passed stays true while  *)
(* Serve and the RPCs go on (PassedInv).                                   *)
(***************************************************************************)
\* Start is between its two critical sections.
Starting == start \in {"listen", "listenFailed", "bind"}

\* The steps of the cleanup from a given one on.
FromWorkspaces == {"workspaces", "grpc", "drain", "listener", "runtime", "finish", "done"}
FromGrpc == FromWorkspaces \ {"workspaces"}
FromDrain == FromGrpc \ {"grpc"}
FromListener == FromDrain \ {"drain"}
FromRuntime == FromListener \ {"listener"}

\* A cleanup has been started unless the daemon is up, or stopping with the
\* cleanup left to the Start in progress.
CleanupInv ==
  /\ cleanups = IF cleanup = "none" THEN 0 ELSE 1
  /\ cleanup = "none" <=> state \in {"new", "starting", "running"}
                            \/ (state = "stopping" /\ Starting)
  /\ Starting => state \in {"starting", "stopping"} /\ cleanup = "none"
  /\ state = "starting" => Starting
  /\ state = "stopped" <=> cleanup = "done"

\* A cleanup that was not handed a listener has none to close, and no listener
\* is bound behind its back.
ListenerInv ==
  /\ start \in {"idle", "listen", "listenFailed"} \/ state = "new" => listener = "none"
  /\ start = "idle" => state # "running" /\ ~withListener
  /\ start = "bind" => listener = "bound"
  /\ serve # "none" => listener # "none"
  /\ state = "running" => stored
  /\ cleanup # "none" /\ ~withListener => listener = "none"
  /\ cleanup \in FromRuntime => listener # "bound"

\* A cleanup that was not told of a server has none to drain.
ServerInv ==
  /\ start = "idle" \/ Starting \/ state = "new" => serve = "none"
  /\ serve = "none" => \A r \in Rpcs : rpc[r] = "none"
  /\ cleanup # "none" /\ ~serving => serve = "none"
  /\ cleanup \in FromDrain /\ serving => draining

\* What a step of the cleanup achieved is not undone while it goes on.
PassedInv ==
  /\ cleanup \in FromWorkspaces => executions = "closed" /\ sessions = {}
  /\ generation = IF cleanup \in FromGrpc THEN 1 ELSE 0
  /\ cleanup \in FromListener => \A r \in Rpcs : rpc[r] \in {"none", "done"}
  /\ runtimeCloses = IF cleanup \in {"finish", "done"} THEN 1 ELSE 0

\* A Stop that was given a result got the one of the finished cleanup.
ResultInv ==
  /\ stopDone <=> cleanup = "done"
  /\ stopDone => stopErr \in {"nil", "err"}
  /\ \A c \in Stops : answer[c] \in {"nil", "err"} => stopDone /\ answer[c] = stopErr

DaemonInv ==
  /\ DaemonTypeOK
  /\ CleanupInv
  /\ ListenerInv
  /\ ServerInv
  /\ PassedInv
  /\ ResultInv
-----------------------------------------------------------------------------
\* A daemon is made with nothing bound, served or created.
LEMMA DaemonInitially == DaemonInit => DaemonInv
  <1> SUFFICES ASSUME DaemonInit PROVE DaemonInv
    OBVIOUS
  <1>1. flags
    BY Zenon DEF DaemonInit, flags
  <1>2. DaemonTypeOK
    BY <1>1 DEF DaemonInit, DaemonTypeOK
  <1>3. CleanupInv /\ ListenerInv /\ ServerInv
    BY Zenon DEF DaemonInit, CleanupInv, ListenerInv, ServerInv, Starting, FromRuntime, FromDrain, FromListener,
           FromGrpc, FromWorkspaces
  <1>4. PassedInv /\ ResultInv
    BY Zenon DEF DaemonInit, PassedInv, ResultInv, FromListener, FromDrain, FromGrpc, FromWorkspaces
  <1> QED
    BY <1>2, <1>3, <1>4, Zenon DEF DaemonInv

\* Start leaves the state to a Stop that came first and, once it listens,
\* looks again: a Stop during Listen leaves it the cleanup.
LEMMA StartInd ==
  ASSUME DaemonInv, Start \/ cancelStart \/ startStep
  PROVE  DaemonInv'
  <1> USE DEF DaemonInv, Starting, FromRuntime, FromListener, FromDrain, FromGrpc, FromWorkspaces
  <1>1. CASE Start
    <2> USE <1>1 DEF Start, cleanVars, grpcVars, ownedVars, stopVars
    <2>1. flags'
      BY Zenon DEF flags, DaemonTypeOK
    <2>2. DaemonTypeOK'
      BY <2>1 DEF DaemonTypeOK, PassedInv
    <2>3. CleanupInv' /\ ListenerInv' /\ ServerInv' /\ PassedInv' /\ ResultInv'
      BY Zenon DEF CleanupInv, ListenerInv, ServerInv, PassedInv, ResultInv, DaemonTypeOK, flags
    <2> QED
      BY <2>2, <2>3, Zenon
  <1>2. CASE cancelStart
    <2> USE <1>2 DEF cancelStart, cleanVars, grpcVars, ownedVars, stopVars
    <2>1. flags'
      BY Zenon DEF flags, DaemonTypeOK
    <2>2. DaemonTypeOK'
      BY <2>1 DEF DaemonTypeOK, PassedInv
    <2>3. CleanupInv' /\ ListenerInv' /\ ServerInv' /\ PassedInv' /\ ResultInv'
      BY DEF CleanupInv, ListenerInv, ServerInv, PassedInv, ResultInv, DaemonTypeOK, flags
    <2> QED
      BY <2>2, <2>3, Zenon
  <1>3. CASE listen
    <2> USE <1>3 DEF listen, cleanVars, grpcVars, ownedVars, stopVars
    <2>1. flags'
      BY Zenon DEF flags, DaemonTypeOK
    <2>2. DaemonTypeOK'
      BY <2>1 DEF DaemonTypeOK, PassedInv
    <2>3. CleanupInv' /\ ListenerInv' /\ ServerInv' /\ PassedInv' /\ ResultInv'
      BY Zenon DEF CleanupInv, ListenerInv, ServerInv, PassedInv, ResultInv, DaemonTypeOK, flags
    <2> QED
      BY <2>2, <2>3, Zenon
  <1>4. CASE listenFailed
    <2> USE <1>4 DEF listenFailed, startCleanup, grpcVars, ownedVars, stopVars
    <2>1. flags'
      BY Zenon DEF flags, DaemonTypeOK
    <2>2. DaemonTypeOK'
      BY <2>1 DEF DaemonTypeOK, PassedInv
    <2>3. CleanupInv' /\ ListenerInv' /\ ServerInv' /\ PassedInv' /\ ResultInv'
      BY DEF CleanupInv, ListenerInv, ServerInv, PassedInv, ResultInv, DaemonTypeOK, flags
    <2> QED
      BY <2>2, <2>3, Zenon
  <1>5. CASE startWaited
    <2> USE <1>5 DEF startWaited, cleanVars, grpcVars, ownedVars, stopVars
    <2>1. flags'
      BY Zenon DEF flags, DaemonTypeOK
    <2>2. DaemonTypeOK'
      BY <2>1 DEF DaemonTypeOK, PassedInv
    <2>3. CleanupInv' /\ ListenerInv' /\ ServerInv' /\ PassedInv' /\ ResultInv'
      BY Zenon DEF CleanupInv, ListenerInv, ServerInv, PassedInv, ResultInv, DaemonTypeOK, flags
    <2> QED
      BY <2>2, <2>3, Zenon
  <1>6. CASE bind
    <2> USE <1>6 DEF bind, startCleanup, cleanVars, ownedVars, stopVars
    <2>1. flags'
      BY ZenonT(40) DEF flags, DaemonTypeOK
    <2>2. DaemonTypeOK'
      BY <2>1 DEF DaemonTypeOK, PassedInv
    <2>3. CleanupInv' /\ ListenerInv' /\ ServerInv' /\ PassedInv' /\ ResultInv'
      BY DEF CleanupInv, ListenerInv, ServerInv, PassedInv, ResultInv, DaemonTypeOK, flags
    <2> QED
      BY <2>2, <2>3, Zenon
  <1>7. CASE startReturns
    <2> USE <1>7 DEF startReturns, cleanVars, grpcVars, ownedVars, stopVars
    <2>1. flags'
      BY Zenon DEF flags, DaemonTypeOK
    <2>2. DaemonTypeOK'
      BY <2>1 DEF DaemonTypeOK, PassedInv
    <2>3. CleanupInv' /\ ListenerInv' /\ ServerInv' /\ PassedInv' /\ ResultInv'
      BY DEF CleanupInv, ListenerInv, ServerInv, PassedInv, ResultInv, DaemonTypeOK, flags
    <2> QED
      BY <2>2, <2>3, Zenon
  <1> QED
    BY <1>1, <1>2, <1>3, <1>4, <1>5, <1>6, <1>7, Zenon DEF startStep

\* The accept loop only ever closes the listener, and no RPC begins on a
\* server that drains.
LEMMA ServerInd ==
  ASSUME DaemonInv, Serve \/ serveReturns \/ Shutdown
  PROVE  DaemonInv'
  <1> USE DEF DaemonInv, Starting, FromRuntime, FromListener, FromDrain, FromGrpc, FromWorkspaces
  <1>1. CASE Serve
    <2> USE <1>1 DEF Serve, cleanVars, ownedVars, stopVars
    <2>1. flags'
      BY Zenon DEF flags, DaemonTypeOK
    <2>2. DaemonTypeOK'
      BY <2>1 DEF DaemonTypeOK, PassedInv
    <2>3. CleanupInv' /\ ListenerInv' /\ ServerInv' /\ PassedInv' /\ ResultInv'
      BY Zenon DEF CleanupInv, ListenerInv, ServerInv, PassedInv, ResultInv, DaemonTypeOK, flags
    <2> QED
      BY <2>2, <2>3, Zenon
  <1>2. CASE serveReturns
    <2> USE <1>2 DEF serveReturns, cleanVars, ownedVars, stopVars
    <2>1. flags'
      BY Zenon DEF flags, DaemonTypeOK
    <2>2. DaemonTypeOK'
      BY <2>1 DEF DaemonTypeOK, PassedInv
    <2>3. CleanupInv' /\ ListenerInv' /\ ServerInv' /\ PassedInv' /\ ResultInv'
      BY Zenon DEF CleanupInv, ListenerInv, ServerInv, PassedInv, ResultInv, DaemonTypeOK, flags
    <2> QED
      BY <2>2, <2>3, Zenon
  <1>3. CASE Shutdown
    <2> USE <1>3 DEF Shutdown, cleanVars, grpcVars, ownedVars, stopVars
    <2>1. flags'
      BY Zenon DEF flags, DaemonTypeOK
    <2>2. DaemonTypeOK'
      BY <2>1 DEF DaemonTypeOK, PassedInv
    <2>3. CleanupInv' /\ ListenerInv' /\ ServerInv' /\ PassedInv' /\ ResultInv'
      BY Zenon DEF CleanupInv, ListenerInv, ServerInv, PassedInv, ResultInv, DaemonTypeOK, flags
    <2> QED
      BY <2>2, <2>3, Zenon
  <1> QED
    BY <1>1, <1>2, <1>3, Zenon

\* An RPC creates no Session once the execution manager is closing, and none
\* is in progress after the drain.
LEMMA RpcInd ==
  ASSUME DaemonInv, NEW r \in Rpcs,
         Open(r) \/ opened(r) \/ CreateSession(r) \/ created(r) \/ Watch(r) \/ watchLeft(r)
  PROVE  DaemonInv'
  <1> USE DEF DaemonInv, Starting, FromRuntime, FromListener, FromDrain, FromGrpc, FromWorkspaces
  <1>1. CASE Open(r)
    <2> USE <1>1 DEF Open, cleanVars, ownedVars, startVars, stopVars
    <2>1. flags'
      BY Zenon DEF flags, DaemonTypeOK
    <2>2. DaemonTypeOK'
      BY <2>1 DEF DaemonTypeOK, PassedInv
    <2>3. CleanupInv' /\ ListenerInv' /\ ServerInv' /\ PassedInv' /\ ResultInv'
      BY Zenon DEF CleanupInv, ListenerInv, ServerInv, PassedInv, ResultInv, DaemonTypeOK, flags
    <2> QED
      BY <2>2, <2>3, Zenon
  <1>2. CASE opened(r)
    <2> USE <1>2 DEF opened, cleanVars, startVars, stopVars
    <2>1. flags'
      BY Zenon DEF flags, DaemonTypeOK
    <2>2. DaemonTypeOK'
      BY <2>1 DEF DaemonTypeOK, PassedInv
    <2>3. CleanupInv' /\ ListenerInv' /\ ServerInv' /\ PassedInv' /\ ResultInv'
      BY Zenon DEF CleanupInv, ListenerInv, ServerInv, PassedInv, ResultInv, DaemonTypeOK, flags
    <2> QED
      BY <2>2, <2>3, Zenon
  <1>3. CASE CreateSession(r)
    <2> USE <1>3 DEF CreateSession, cleanVars, ownedVars, startVars, stopVars
    <2>1. flags'
      BY Zenon DEF flags, DaemonTypeOK
    <2>2. DaemonTypeOK'
      BY <2>1 DEF DaemonTypeOK, PassedInv
    <2>3. CleanupInv' /\ ListenerInv' /\ ServerInv' /\ PassedInv' /\ ResultInv'
      BY Zenon DEF CleanupInv, ListenerInv, ServerInv, PassedInv, ResultInv, DaemonTypeOK, flags
    <2> QED
      BY <2>2, <2>3, Zenon
  <1>4. CASE created(r)
    <2> USE <1>4 DEF created, cleanVars, startVars, stopVars
    <2>1. flags'
      BY Zenon DEF flags, DaemonTypeOK
    <2>2. DaemonTypeOK'
      BY <2>1 DEF DaemonTypeOK, PassedInv
    <2>3. CleanupInv' /\ ListenerInv' /\ ServerInv' /\ PassedInv' /\ ResultInv'
      BY Zenon DEF CleanupInv, ListenerInv, ServerInv, PassedInv, ResultInv, DaemonTypeOK, flags
    <2> QED
      BY <2>2, <2>3, Zenon
  <1>5. CASE Watch(r)
    <2> USE <1>5 DEF Watch, cleanVars, ownedVars, startVars, stopVars
    <2>1. flags'
      BY Zenon DEF flags, DaemonTypeOK
    <2>2. DaemonTypeOK'
      BY <2>1 DEF DaemonTypeOK, PassedInv
    <2>3. CleanupInv' /\ ListenerInv' /\ ServerInv' /\ PassedInv' /\ ResultInv'
      BY Zenon DEF CleanupInv, ListenerInv, ServerInv, PassedInv, ResultInv, DaemonTypeOK, flags
    <2> QED
      BY <2>2, <2>3, Zenon
  <1>6. CASE watchLeft(r)
    <2> USE <1>6 DEF watchLeft, cleanVars, ownedVars, startVars, stopVars
    <2>1. flags'
      BY Zenon DEF flags, DaemonTypeOK
    <2>2. DaemonTypeOK'
      BY <2>1 DEF DaemonTypeOK, PassedInv
    <2>3. CleanupInv' /\ ListenerInv' /\ ServerInv' /\ PassedInv' /\ ResultInv'
      BY Zenon DEF CleanupInv, ListenerInv, ServerInv, PassedInv, ResultInv, DaemonTypeOK, flags
    <2> QED
      BY <2>2, <2>3, Zenon
  <1> QED
    BY <1>1, <1>2, <1>3, <1>4, <1>5, <1>6, Zenon

\* The first Stop of a new or running daemon starts the cleanup; the others
\* wait for its result.
LEMMA StopInd ==
  ASSUME DaemonInv, NEW c \in Stops, Stop(c) \/ stopped(c) \/ stopGivesUp(c)
  PROVE  DaemonInv'
  <1> USE DEF DaemonInv, Starting, FromRuntime, FromListener, FromDrain, FromGrpc, FromWorkspaces
  <1>1. CASE Stop(c)
    <2> USE <1>1 DEF Stop, startCleanup, cleanVars, grpcVars, ownedVars
    <2>1. flags'
      BY ZenonT(30) DEF flags, DaemonTypeOK
    <2>2. DaemonTypeOK'
      BY <2>1 DEF DaemonTypeOK, PassedInv
    <2>3. CleanupInv' /\ ListenerInv' /\ ServerInv' /\ PassedInv' /\ ResultInv'
      BY DEF CleanupInv, ListenerInv, ServerInv, PassedInv, ResultInv, DaemonTypeOK, flags
    <2> QED
      BY <2>2, <2>3, Zenon
  <1>2. CASE stopped(c)
    <2> USE <1>2 DEF stopped, cleanVars, grpcVars, ownedVars, startVars
    <2>1. flags'
      BY Zenon DEF flags, DaemonTypeOK
    <2>2. DaemonTypeOK'
      BY <2>1 DEF DaemonTypeOK, PassedInv
    <2>3. CleanupInv' /\ ListenerInv' /\ ServerInv' /\ PassedInv' /\ ResultInv'
      BY ZenonT(40) DEF CleanupInv, ListenerInv, ServerInv, PassedInv, ResultInv, DaemonTypeOK, flags
    <2> QED
      BY <2>2, <2>3, Zenon
  <1>3. CASE stopGivesUp(c)
    <2> USE <1>3 DEF stopGivesUp, cleanVars, grpcVars, ownedVars, startVars
    <2>1. flags'
      BY Zenon DEF flags, DaemonTypeOK
    <2>2. DaemonTypeOK'
      BY <2>1 DEF DaemonTypeOK, PassedInv
    <2>3. CleanupInv' /\ ListenerInv' /\ ServerInv' /\ PassedInv' /\ ResultInv'
      BY DEF CleanupInv, ListenerInv, ServerInv, PassedInv, ResultInv, DaemonTypeOK, flags
    <2> QED
      BY <2>2, <2>3, Zenon
  <1> QED
    BY <1>1, <1>2, <1>3, Zenon

\* Each step of the cleanup establishes what the next ones rely on.
LEMMA CleanupInd ==
  ASSUME DaemonInv, cleanupStep
  PROVE  DaemonInv'
  <1> USE DEF DaemonInv, Starting, FromRuntime, FromListener, FromDrain, FromGrpc, FromWorkspaces
  <1>1. CASE markNotServing
    <2> USE <1>1 DEF markNotServing, ownedVars, startVars, stopVars
    <2>1. flags'
      BY Zenon DEF flags, DaemonTypeOK
    <2>2. DaemonTypeOK'
      BY <2>1 DEF DaemonTypeOK, PassedInv
    <2>3. CleanupInv' /\ ListenerInv' /\ ServerInv' /\ PassedInv' /\ ResultInv'
      BY Zenon DEF CleanupInv, ListenerInv, ServerInv, PassedInv, ResultInv, DaemonTypeOK, flags
    <2> QED
      BY <2>2, <2>3, Zenon
  <1>2. CASE closeExecutions
    <2> USE <1>2 DEF closeExecutions, grpcVars, startVars, stopVars
    <2>1. flags'
      BY Zenon DEF flags, DaemonTypeOK
    <2>2. DaemonTypeOK'
      BY <2>1 DEF DaemonTypeOK, PassedInv
    <2>3. CleanupInv' /\ ListenerInv' /\ ServerInv' /\ PassedInv' /\ ResultInv'
      BY Zenon DEF CleanupInv, ListenerInv, ServerInv, PassedInv, ResultInv, DaemonTypeOK, flags
    <2> QED
      BY <2>2, <2>3, Zenon
  <1>3. CASE executionsClosed
    <2> USE <1>3 DEF executionsClosed, proceed, grpcVars, startVars, stopVars
    <2>1. flags'
      BY ZenonT(40) DEF flags, DaemonTypeOK
    <2>2. DaemonTypeOK'
      BY <2>1 DEF DaemonTypeOK, PassedInv
    <2>3. CleanupInv' /\ ListenerInv' /\ ServerInv' /\ PassedInv' /\ ResultInv'
      BY Zenon DEF CleanupInv, ListenerInv, ServerInv, PassedInv, ResultInv, DaemonTypeOK, flags
    <2> QED
      BY <2>2, <2>3, Zenon
  <1>4. CASE clearWorkspaces
    <2> USE <1>4 DEF clearWorkspaces, proceed, grpcVars, startVars, stopVars
    <2>1. flags'
      BY Zenon DEF flags, DaemonTypeOK
    <2>2. DaemonTypeOK'
      BY <2>1 DEF DaemonTypeOK, PassedInv
    <2>3. CleanupInv' /\ ListenerInv' /\ ServerInv' /\ PassedInv' /\ ResultInv'
      BY DEF CleanupInv, ListenerInv, ServerInv, PassedInv, ResultInv, DaemonTypeOK, flags
    <2> QED
      BY <2>2, <2>3, Zenon
  <1>5. CASE gracefulStop
    <2> USE <1>5 DEF gracefulStop, ownedVars, stopVars
    <2>1. flags'
      BY Zenon DEF flags, DaemonTypeOK
    <2>2. DaemonTypeOK'
      BY <2>1, ZenonT(40) DEF DaemonTypeOK, PassedInv
    <2>3. CleanupInv' /\ ListenerInv' /\ ServerInv' /\ PassedInv' /\ ResultInv'
      BY Zenon DEF CleanupInv, ListenerInv, ServerInv, PassedInv, ResultInv, DaemonTypeOK, flags
    <2> QED
      BY <2>2, <2>3, Zenon
  <1>6. CASE drained
    <2> USE <1>6 DEF drained, proceed, grpcVars, ownedVars, startVars, stopVars
    <2>1. flags'
      BY ZenonT(40) DEF flags, DaemonTypeOK
    <2>2. DaemonTypeOK'
      BY <2>1 DEF DaemonTypeOK, PassedInv
    <2>3. CleanupInv' /\ ListenerInv' /\ ServerInv' /\ PassedInv' /\ ResultInv'
      BY Zenon DEF CleanupInv, ListenerInv, ServerInv, PassedInv, ResultInv, DaemonTypeOK, flags
    <2> QED
      BY <2>2, <2>3, Zenon
  <1>7. CASE closeListener
    <2> USE <1>7 DEF closeListener, proceed, grpcVars, ownedVars, stopVars
    <2>1. flags'
      BY Zenon DEF flags, DaemonTypeOK
    <2>2. DaemonTypeOK'
      BY <2>1, ZenonT(40) DEF DaemonTypeOK, PassedInv
    <2>3. \/ withListener /\ listener' = "closed"
          \/ ~withListener /\ listener' = "none" /\ listener = "none"
      BY Zenon DEF ListenerInv, DaemonTypeOK, flags
    <2>4. CleanupInv' /\ ServerInv' /\ PassedInv' /\ ResultInv'
      BY Zenon DEF CleanupInv, ServerInv, PassedInv, ResultInv, DaemonTypeOK
    <2>5. ListenerInv'
      BY <2>3, Zenon DEF CleanupInv, ListenerInv, ServerInv, DaemonTypeOK, flags
    <2> QED
      BY <2>2, <2>4, <2>5, Zenon
  <1>8. CASE closeRuntime
    <2> USE <1>8 DEF closeRuntime, proceed, grpcVars, startVars, stopVars
    <2>1. flags'
      BY Zenon DEF flags, DaemonTypeOK
    <2>2. DaemonTypeOK'
      BY <2>1 DEF DaemonTypeOK, PassedInv
    <2>3. CleanupInv' /\ ListenerInv' /\ ServerInv' /\ PassedInv' /\ ResultInv'
      BY DEF CleanupInv, ListenerInv, ServerInv, PassedInv, ResultInv, DaemonTypeOK, flags
    <2> QED
      BY <2>2, <2>3, Zenon
  <1>9. CASE finishStop
    <2> USE <1>9 DEF finishStop, grpcVars, ownedVars, stopVars
    <2>1. flags'
      BY Zenon DEF flags, DaemonTypeOK
    <2>2. DaemonTypeOK'
      BY <2>1, Zenon DEF DaemonTypeOK, PassedInv
    <2>3. CleanupInv' /\ ListenerInv' /\ ServerInv' /\ PassedInv' /\ ResultInv'
      BY Zenon DEF CleanupInv, ListenerInv, ServerInv, PassedInv, ResultInv, DaemonTypeOK, flags
    <2> QED
      BY <2>2, <2>3, Zenon
  <1> QED
    BY <1>1, <1>2, <1>3, <1>4, <1>5, <1>6, <1>7, <1>8, <1>9, Zenon DEF cleanupStep

\* Start, its failure, the serving goroutine, the RPCs, the Stops and the cleanup
\* keep the inductive invariant, whatever the number of callers.
THEOREM DaemonInductive == DaemonSpec => []DaemonInv
  <1>1. DaemonInv /\ [DaemonNext]_daemonVars => DaemonInv'
    <2>1. DaemonInv /\ UNCHANGED daemonVars => DaemonInv'
      BY DEF DaemonInv, DaemonTypeOK, flags, CleanupInv, ListenerInv, ServerInv, PassedInv, ResultInv, Starting,
             daemonVars, startVars, cleanVars, stopVars, grpcVars, ownedVars
    <2> QED
      BY <2>1, StartInd, ServerInd, RpcInd, StopInd, CleanupInd, Zenon DEF DaemonNext
  <1> QED
    BY DaemonInitially, <1>1, PTL DEF DaemonSpec
-----------------------------------------------------------------------------
\* However many Stop calls race with Start, its failure and the RPCs, one cleanup
\* runs; when it closes the runtime there is no Session, no RPC in progress and
\* no bound listener.
THEOREM RuntimeIsLast == DaemonSpec => []RuntimeClosedLast
  <1>1. DaemonInv => RuntimeClosedLast
    BY DEF DaemonInv, RuntimeClosedLast, CleanupInv, PassedInv, ListenerInv, FromRuntime, FromListener,
           FromDrain, FromGrpc, FromWorkspaces
  <1> QED
    BY DaemonInductive, <1>1, PTL

\* A Stop that returns anything but its own context's error returns the result of
\* the one cleanup, and only after it closed the runtime.
StopResultShared ==
  \A c \in Stops : answer[c] \in {"nil", "err"} =>
    state = "stopped" /\ runtimeCloses = 1 /\ answer[c] = stopErr

\* Every Stop call that is given a result is given that of the finished cleanup
\* (Daemon.waitForStop, Daemon.finishStop).
THEOREM StopSharesResult == DaemonSpec => []StopResultShared
  <1>1. DaemonInv => StopResultShared
    BY Zenon DEF DaemonInv, StopResultShared, CleanupInv, PassedInv, ResultInv
  <1> QED
    BY DaemonInductive, <1>1, PTL
=============================================================================
