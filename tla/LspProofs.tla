------------------------------ MODULE LspProofs ------------------------------
(***************************************************************************)
(* Proofs about internal/lsp.  First its rpcHandler, for any number of     *)
(* messages: the chain of barriers orders lifecycle messages, and requests *)
(* are answered exactly once.  Then, below the line after those theorems,  *)
(* the documents and analyses it serves from internal/language, for any    *)
(* number of requests, edits and saves.                                    *)
(***************************************************************************)
EXTENDS RpcHandler, LanguageService, TLAPS

(***************************************************************************)
(* The inductive invariant.  dispatch waits for ONE message, its barrier,  *)
(* and OrderedUnlessSkipped speaks of ALL the earlier lifecycle messages.  *)
(* What links them is that the barrier is the LAST lifecycle message       *)
(* before its owner (BarrierInv, from TailInv at the time of Handle) and   *)
(* that ordering is remembered by a message that has already finished      *)
(* (OrderInv), so the barrier's own order carries over to whoever waited.  *)
(***************************************************************************)

\* A message has a goroutine exactly when it has arrived; one that gave up at
\* its barrier is over.
ArrivalInv ==
  \A m \in Messages :
    IF m <= arrived
    THEN pc[m] # "none" /\ (m \in skipped => pc[m] = "done")
    ELSE pc[m] = "none" /\ replies[m] = 0 /\ m \notin inFlight /\ m \notin skipped

\* rpcHandler.tail is the last lifecycle message that arrived.
TailInv ==
  /\ tail > 0 => isLifecycleMethod(tail)
  /\ \A l \in Messages : l <= arrived /\ isLifecycleMethod(l) => l <= tail

\* A message waits for the last lifecycle message before it.
BarrierInv ==
  \A m \in Messages : m <= arrived =>
    /\ barrier[m] > 0 => isLifecycleMethod(barrier[m])
    /\ \A l \in Messages : l < m /\ isLifecycleMethod(l) => l <= barrier[m]

\* No lifecycle message before m gave up at its barrier.
NoneSkipped(m) == \A l \in skipped : l < m => kind[l] = "feature"

\* OrderedUnlessSkipped, for finished messages too.
OrderInv ==
  \A m \in Messages :
    pc[m] \in {"running", "done"} /\ m \notin skipped /\ NoneSkipped(m)
      => \A l \in Messages : l < m /\ isLifecycleMethod(l) => pc[l] = "done"

IndInv ==
  /\ TypeOK
  /\ ArrivalInv
  /\ TailInv
  /\ BarrierInv
  /\ OrderInv
  /\ AnsweredOnce
-----------------------------------------------------------------------------
\* No message has arrived when the connection is accepted.
LEMMA InitInd == Init => IndInv
  <1> SUFFICES ASSUME Init PROVE IndInv
    OBVIOUS
  <1> USE MaxMessagesNat DEF Messages
  <1>1. TypeOK
    BY DEF Init, TypeOK, Kinds
  <1>2. ArrivalInv /\ TailInv /\ BarrierInv
    BY DEF Init, ArrivalInv, TailInv, BarrierInv
  <1>3. OrderInv /\ AnsweredOnce
    BY DEF Init, OrderInv, AnsweredOnce
  <1> QED
    BY <1>1, <1>2, <1>3, Zenon DEF IndInv

\* handle gives the new message the current tail as its barrier; nothing that
\* arrived before it changes.
LEMMA HandleInd ==
  ASSUME IndInv, NEW k \in Kinds, Handle(k)
  PROVE  IndInv'
  <1> USE MaxMessagesNat DEF IndInv, Messages
  <1> DEFINE n == arrived + 1
  <1>0. /\ n \in Messages /\ arrived' = n /\ arrived \in Nat
        /\ kind' = [kind EXCEPT ![n] = k]
        /\ inFlight' = IF k \in {"call", "feature"} THEN inFlight \cup {n} ELSE inFlight
        /\ barrier' = [barrier EXCEPT ![n] = tail]
        /\ tail' = IF k = "feature" THEN tail ELSE n
        /\ pc' = [pc EXCEPT ![n] = "waiting"]
        /\ UNCHANGED <<canceled, skipped, replies, conn, run>>
    BY DEF Handle, TypeOK
  <1>1. TypeOK'
    BY <1>0 DEF TypeOK
  <1>2. ArrivalInv'
    BY <1>0 DEF ArrivalInv, TypeOK
  <1>3. TailInv'
    BY <1>0 DEF TailInv, TypeOK, isLifecycleMethod, Kinds
  <1>4. BarrierInv'
    <2>1. /\ kind'[n] = k /\ barrier'[n] = tail
          /\ \A m \in Messages \ {n} : kind'[m] = kind[m] /\ barrier'[m] = barrier[m]
      BY <1>0, Zenon DEF TypeOK
    <2>2. tail \in 0..arrived /\ barrier \in [Messages -> 0..MaxMessages]
            /\ \A m \in Messages : barrier[m] < m
      BY Zenon DEF TypeOK
    <2> SUFFICES ASSUME NEW m \in Messages, m <= n
                 PROVE  /\ (barrier[m] > 0 => isLifecycleMethod(barrier[m]))'
                        /\ \A l \in Messages : l < m /\ isLifecycleMethod(l)' => l <= barrier'[m]
      BY <1>0, Zenon DEF BarrierInv
    <2>3. \A l \in Messages : l # n => (isLifecycleMethod(l)' <=> isLifecycleMethod(l))
      BY <2>1, Zenon DEF isLifecycleMethod
    <2>4. CASE m = n
      <3>1. tail > 0 => tail \in Messages /\ tail # n /\ isLifecycleMethod(tail)
        BY <1>0, <2>2 DEF TailInv
      <3>2. \A l \in Messages : l < n /\ isLifecycleMethod(l) => l <= tail
        BY <1>0 DEF TailInv
      <3>3. \A l \in Messages : l < n => l # n
        BY <1>0
      <3> QED
        BY <2>1, <2>3, <2>4, <3>1, <3>2, <3>3, Zenon DEF isLifecycleMethod
    <2>5. CASE m # n
      <3>1. m <= arrived
        BY <1>0, <2>5
      <3>2. /\ barrier[m] > 0 => barrier[m] \in Messages /\ barrier[m] # n
            /\ \A l \in Messages : l < m => l # n
        BY <1>0, <2>2, <3>1
      <3> QED
        BY <2>1, <2>3, <2>5, <3>1, <3>2, Zenon DEF BarrierInv, isLifecycleMethod
    <2> QED
      BY <2>4, <2>5, Zenon
  <1>5. OrderInv'
    <2> SUFFICES ASSUME NEW m \in Messages, pc'[m] \in {"running", "done"}, m \notin skipped,
                        NoneSkipped(m)', NEW l \in Messages, l < m, isLifecycleMethod(l)'
                 PROVE  pc'[l] = "done"
      BY <1>0, Zenon DEF OrderInv
    <2>1. m # n /\ m <= arrived /\ l # n /\ pc[m] \in {"running", "done"}
      BY <1>0 DEF ArrivalInv, TypeOK
    <2>2. NoneSkipped(m) /\ isLifecycleMethod(l)
      BY <1>0, <2>1 DEF NoneSkipped, ArrivalInv, TypeOK, isLifecycleMethod
    <2> QED
      BY <1>0, <2>1, <2>2, Zenon DEF OrderInv, TypeOK
  <1>6. AnsweredOnce'
    BY <1>0 DEF AnsweredOnce, ArrivalInv, TypeOK, isRequest, Kinds
  <1> QED
    BY <1>1, <1>2, <1>3, <1>4, <1>5, <1>6, Zenon

\* A message that goes on or ends keeps the order when its own is given: what
\* was done stays done and nothing else starts.
LEMMA OrderKept ==
  ASSUME IndInv, NEW m \in Messages, NEW p \in {"running", "done"},
         pc' = [pc EXCEPT ![m] = p], pc[m] # "done", kind' = kind,
         skipped \subseteq skipped',
         m \notin skipped' /\ NoneSkipped(m)' =>
           \A l \in Messages : l < m /\ isLifecycleMethod(l) => pc[l] = "done"
  PROVE  OrderInv'
  <1> USE MaxMessagesNat DEF IndInv, Messages
  <1> SUFFICES ASSUME NEW x \in Messages, pc'[x] \in {"running", "done"}, x \notin skipped',
                      NoneSkipped(x)', NEW l \in Messages, l < x, isLifecycleMethod(l)
               PROVE  pc'[l] = "done"
    BY Zenon DEF OrderInv, isLifecycleMethod
  <1>1. NoneSkipped(x) /\ x \notin skipped
    BY Zenon DEF NoneSkipped
  <1>2. pc[l] = "done"
    <2>1. CASE x = m
      BY <2>1, Zenon
    <2>2. CASE x # m
      BY <2>2, <1>1, Zenon DEF OrderInv, TypeOK
    <2> QED
      BY <2>1, <2>2, Zenon
  <1> QED
    BY <1>2, Zenon DEF TypeOK

\* dispatch's deferred calls end a message once: its request leaves the
\* in-flight table and, unless it is exit, gets its one reply.
LEMMA LeaveInd ==
  ASSUME IndInv, NEW m \in Messages, pc[m] \in {"waiting", "running"},
         NEW reply \in BOOLEAN, reply \/ ~isRequest(m), leave(m, reply),
         UNCHANGED <<arrived, kind, tail, barrier, canceled, run>>,
         conn' \in {"open", "closed"}, skipped \subseteq skipped',
         skipped' \subseteq skipped \cup {m}, OrderInv'
  PROVE  IndInv'
  <1> USE MaxMessagesNat DEF IndInv, Messages
  <1>0. /\ m <= arrived
        /\ pc' = [pc EXCEPT ![m] = "done"]
        /\ inFlight' = inFlight \ {m}
        /\ replies' = [replies EXCEPT ![m] = IF isRequest(m) THEN @ + 1 ELSE @]
    BY Zenon DEF leave, ArrivalInv, TypeOK
  <1>1. TypeOK'
    BY <1>0 DEF TypeOK
  <1>2. ArrivalInv'
    BY <1>0, Zenon DEF ArrivalInv, TypeOK
  <1>3. TailInv' /\ BarrierInv'
    BY Zenon DEF TailInv, BarrierInv, isLifecycleMethod
  <1>4. AnsweredOnce'
    BY <1>0 DEF AnsweredOnce, TypeOK, isRequest
  <1> QED
    BY <1>1, <1>2, <1>3, <1>4, Zenon

\* A message that gives up at its barrier owes no order: it is in skipped.
LEMMA CanceledInd ==
  ASSUME IndInv, NEW m \in Messages, dispatchCanceled(m)
  PROVE  IndInv'
  <1>1. OrderInv'
    BY OrderKept, Zenon DEF dispatchCanceled, leave
  <1> QED
    BY <1>1, LeaveInd, Zenon DEF dispatchCanceled, IndInv, TypeOK

\* A message that passes its barrier has every earlier lifecycle message behind
\* it: the barrier is the last of them and, not skipped itself, had the others
\* behind it.
LEMMA BarrierOrders ==
  ASSUME IndInv, NEW m \in Messages, m <= arrived, completed(barrier[m]), NoneSkipped(m),
         NEW l \in Messages, l < m, isLifecycleMethod(l)
  PROVE  pc[l] = "done"
  <1> USE MaxMessagesNat DEF IndInv, Messages
  <1> DEFINE b == barrier[m]
  <1>1. l <= b /\ b \in Messages /\ b < m /\ isLifecycleMethod(b)
    BY DEF BarrierInv, TypeOK
  <1>2. pc[b] = "done"
    BY <1>1 DEF completed
  <1>3. b \notin skipped /\ NoneSkipped(b)
    <2>1. kind[b] # "feature"
      BY <1>1, Zenon DEF isLifecycleMethod
    <2>2. \A j \in Messages : j < b => j < m
      BY <1>1
    <2>3. skipped \subseteq Messages
      BY Zenon DEF TypeOK
    <2> QED
      BY <1>1, <2>1, <2>2, <2>3, Zenon DEF NoneSkipped
  <1> QED
    BY <1>1, <1>2, <1>3 DEF OrderInv

\* rpcHandler.dispatch passes the barrier: unless something was skipped, every
\* lifecycle message before this one has ended.
LEMMA DispatchInd ==
  ASSUME IndInv, NEW m \in Messages, dispatch(m)
  PROVE  IndInv'
  <1> USE MaxMessagesNat DEF IndInv, Messages
  <1>0. m <= arrived
    BY Zenon DEF dispatch, ArrivalInv
  <1>1. NoneSkipped(m) => \A l \in Messages : l < m /\ isLifecycleMethod(l) => pc[l] = "done"
    BY <1>0, BarrierOrders, Zenon DEF dispatch
  <1>2. NoneSkipped(m)' => NoneSkipped(m)
    BY Zenon DEF dispatch, NoneSkipped
  <1>3. CASE kind[m] = "exit"
    <2>1. OrderInv'
      BY <1>1, <1>2, <1>3, OrderKept, Zenon DEF dispatch, leave
    <2> QED
      BY <2>1, <1>3, LeaveInd, Zenon DEF dispatch, isRequest
  <1>4. CASE kind[m] # "exit"
    <2>0. /\ pc[m] = "waiting" /\ pc' = [pc EXCEPT ![m] = "running"]
          /\ UNCHANGED <<arrived, kind, tail, barrier, canceled, skipped, run, inFlight, replies, conn>>
      BY <1>4, Zenon DEF dispatch
    <2>1. OrderInv'
      BY <2>0, <1>1, <1>2, OrderKept, Zenon
    <2>2. TypeOK'
      BY <2>0, Zenon DEF TypeOK
    <2>3. ArrivalInv' /\ TailInv' /\ BarrierInv'
      BY <2>0, Zenon DEF ArrivalInv, TailInv, BarrierInv, isLifecycleMethod, TypeOK
    <2>4. AnsweredOnce'
      BY <2>0 DEF AnsweredOnce, isRequest, TypeOK
    <2> QED
      BY <2>1, <2>2, <2>3, <2>4, Zenon
  <1> QED
    BY <1>3, <1>4, Zenon

\* The handler returns: the message leaves the table and opens its barrier.
LEMMA HandledInd ==
  ASSUME IndInv, NEW m \in Messages, handled(m)
  PROVE  IndInv'
  <1>1. OrderInv'
    BY OrderKept, Zenon DEF handled, leave, IndInv, OrderInv, NoneSkipped
  <1> QED
    BY <1>1, LeaveInd, Zenon DEF handled, IndInv, TypeOK

\* Cancelling, disconnecting and draining move no message.
LEMMA ConnectionInd ==
  ASSUME IndInv,
         \/ \E m \in Messages : cancel(m)
         \/ disconnect \/ stopServing \/ waitForCompletion \/ UNCHANGED vars
  PROVE  IndInv'
  <1> USE DEF IndInv
  <1>0. /\ UNCHANGED <<arrived, kind, tail, barrier, inFlight, pc, skipped, replies>>
        /\ canceled' \subseteq canceled \cup Messages
        /\ conn' \in {"open", "closed"} /\ run' \in {"serving", "draining", "returned"}
    BY Zenon DEF cancel, disconnect, stopServing, waitForCompletion, vars, TypeOK
  <1>1. TypeOK'
    BY <1>0, Zenon DEF TypeOK
  <1>2. ArrivalInv' /\ TailInv' /\ BarrierInv'
    BY <1>0, Zenon DEF ArrivalInv, TailInv, BarrierInv, isLifecycleMethod
  <1>3. OrderInv' /\ AnsweredOnce'
    BY <1>0, Zenon DEF OrderInv, NoneSkipped, AnsweredOnce, isLifecycleMethod, isRequest
  <1> QED
    BY <1>1, <1>2, <1>3, Zenon

\* Reading, dispatching, cancelling and the end of the connection keep the
\* inductive invariant, whatever the number of messages.
THEOREM Inductive == Spec => []IndInv
  <1>1. IndInv /\ [Next]_vars => IndInv'
    BY HandleInd, CanceledInd, DispatchInd, HandledInd, ConnectionInd, Zenon DEF Next
  <1> QED
    BY InitInd, <1>1, PTL DEF Spec
-----------------------------------------------------------------------------
\* A message that runs has every earlier lifecycle message behind it, unless one
\* of them gave up at its barrier: for any number of messages, whatever is
\* cancelled and whenever the connection ends (rpcHandler.dispatch).
THEOREM LifecycleOrder == Spec => []OrderedUnlessSkipped
  <1>1. IndInv => OrderedUnlessSkipped
    <2> SUFFICES ASSUME IndInv, NEW m \in 1..arrived, pc[m] = "running", NoneSkipped(m),
                        NEW l \in 1..(m - 1), isLifecycleMethod(l)
                 PROVE  pc[l] = "done"
      BY Zenon DEF OrderedUnlessSkipped, NoneSkipped, earlierLifecycleDone
    <2> USE MaxMessagesNat DEF IndInv, Messages
    <2>1. m \in Messages /\ l \in Messages /\ l < m
      BY DEF TypeOK
    <2>2. m \notin skipped
      BY <2>1, Zenon DEF ArrivalInv, TypeOK
    <2> QED
      BY <2>1, <2>2, Zenon DEF OrderInv
  <1> QED
    BY Inductive, <1>1, PTL

\* No request is answered twice, none that ended is unanswered, and the
\* in-flight table holds exactly the requests that have not ended.
THEOREM OneReplyEach == Spec => []AnsweredOnce
  <1>1. IndInv => AnsweredOnce
    BY Zenon DEF IndInv
  <1> QED
    BY Inductive, <1>1, PTL
-----------------------------------------------------------------------------
(***************************************************************************)
(* internal/language behind internal/lsp.                                  *)
(*                                                                         *)
(* The inductive invariant.  acquireAnalysis compares identities, never    *)
(* texts, and a snapshot may be compared long after it was taken.  What    *)
(* makes that right is that identities are never reused: one taken earlier *)
(* is an earlier one, or the present one with the present text (Past).     *)
(* That holds of the snapshot a request carries (SnapInv) and of every     *)
(* entry an analysis was begun for (EntryInv); so an entry found under the *)
(* identity of a current snapshot is the current source, and was current   *)
(* during the request that shares it (SinceInv).                           *)
(***************************************************************************)
Ids == ({"overlay"} \X Nat) \cup ({"workspace"} \X Workspaces \X Nat)
Snaps == [id : Ids, text : Nat]
Steps == {"idle", "resolve", "lookup", "acquire", "wait", "check", "send", "done"}
Active == Steps \ {"idle", "done"}
Served == {"wait", "check", "send"}

\* The counters, and the two sources a text comes from.
SourceType ==
  /\ generation \in Nat /\ saves \in Nat /\ texts \in Nat
  /\ overlay # None => overlay.gen \in Nat /\ overlay.text \in Nat
  /\ open \subseteq Workspaces /\ next \in [Workspaces -> Nat]
  /\ saved \in [Workspaces -> [gen : Nat, text : Nat] \cup {None}]

\* The tables of requests and entries.
TableType ==
  /\ entry \in [Requests -> Snaps \cup {None}]
  /\ analysis \in [Requests -> {"none", "running", "ready"}]
  /\ stage \in [Requests -> Steps]
  /\ snap \in [Requests -> Snaps \cup {None}]
  /\ waits \in [Requests -> Requests \cup {None}]
  /\ since \in [Requests -> SUBSET (Snaps \cup {None})]
  /\ cache \in Requests \cup {None}

\* Identities are handed out in order: generation counts the overlays, and
\* nextDocumentGeneration the documents of a workspace.
NumberInv ==
  /\ overlay # None => overlay.gen <= generation
  /\ \A w \in Workspaces : saved[w] # None => saved[w].gen <= next[w]

\* A snapshot taken earlier has the identity of an earlier overlay or saved
\* state, or is the present one.
OfOverlay(s) ==
  \E g \in Nat :
    /\ s.id = <<"overlay", g>> /\ g <= generation
    /\ overlay # None /\ overlay.gen = g => s.text = overlay.text
OfFile(s) ==
  \E w \in Workspaces, g \in Nat :
    /\ s.id = <<"workspace", w, g>> /\ g <= next[w]
    /\ saved[w] # None /\ saved[w].gen = g => s.text = saved[w].text
Past(s) == s \in Snaps /\ (OfOverlay(s) \/ OfFile(s))

\* The snapshot a request carries to acquireAnalysis was taken earlier.
SnapInv == \A r \in Requests : stage[r] = "acquire" => Past(snap[r])

\* So was the one an analysis was begun for.
EntryInv == \A e \in Requests : analysis[e] # "none" => Past(entry[e])

\* A request begins one analysis at most, and nobody shares one not begun.
BegunInv ==
  /\ \A r \in Requests : analysis[r] # "none" => stage[r] \in Served \cup {"done"}
  /\ \A r \in Requests : entry[r] # None => analysis[r] # "none"
  /\ \A r \in Requests : stage[r] \in Served => waits[r] \in Requests /\ analysis[waits[r]] # "none"
  /\ cache # None => analysis[cache] # "none"

\* since holds the present source, and what the request is served.
SinceInv ==
  \A r \in Requests :
    /\ stage[r] \in Active => Current \in since[r]
    /\ stage[r] \in Served => entry[waits[r]] \in since[r]

LanguageInv ==
  SourceType /\ TableType /\ NumberInv /\ SnapInv /\ EntryInv /\ BegunInv /\ SinceInv
-----------------------------------------------------------------------------
(* Snapshots and identities *)

\* LookupDocument finds the document of some workspace.
LEMMA Found ==
  \/ LookupDocument = None
  \/ \E w \in Workspaces : saved[w] # None /\ LookupDocument = Saved(w)
PROOF
  <1> DEFINE found == {w \in Workspaces : Deepest(w) /\ saved[w] # None}
  <1>1. CASE found = {}
    BY <1>1, Zenon DEF LookupDocument
  <1>2. CASE found # {}
    <2>1. (CHOOSE w \in found : TRUE) \in found
      BY <1>2, Zenon
    <2>2. LookupDocument = Saved(CHOOSE w \in found : TRUE)
      BY <1>2, Zenon DEF LookupDocument
    <2>3. QED BY <2>1, <2>2, Zenon
  <1>3. QED BY <1>1, <1>2, Zenon

\* snapshotCurrent compares identities; for a snapshot taken earlier that is to
\* compare snapshots.
LEMMA CurrentByIdentity ==
  ASSUME NEW s, Past(s), SourceType, snapshotCurrent(s)
  PROVE  s = Current
PROOF
  <1>1. Current # None /\ s.id = Current.id
    BY Zenon DEF snapshotCurrent
  <1>2. s = [id |-> s.id, text |-> s.text]
    BY DEF Past, Snaps
  <1>3. CASE overlay # None
    <2>1. Current = Overlay(overlay) /\ s.id = <<"overlay", overlay.gen>>
      BY <1>1, <1>3 DEF Current, Overlay
    <2>2. s.text = overlay.text
      BY <1>3, <2>1 DEF Past, OfOverlay, OfFile
    <2>3. QED BY <1>2, <2>1, <2>2 DEF Overlay
  <1>4. CASE overlay = None
    <2>1. PICK w \in Workspaces : saved[w] # None /\ Current = Saved(w)
      BY <1>1, <1>4, Found, Zenon DEF Current
    <2>2. s.id = <<"workspace", w, saved[w].gen>>
      BY <1>1, <2>1 DEF Saved
    <2>3. s.text = saved[w].text
      BY <2>1, <2>2 DEF Past, OfOverlay, OfFile
    <2>4. QED BY <1>2, <2>1, <2>2, <2>3 DEF Saved
  <1>5. QED BY <1>3, <1>4, Zenon

\* The present sources can be snapshots.
LEMMA PresentIsPast ==
  ASSUME SourceType, NumberInv
  PROVE  /\ overlay # None => Past(Overlay(overlay))
         /\ LookupDocument # None => Past(LookupDocument)
         /\ Current \in Snaps \cup {None}
PROOF
  <1>1. overlay # None => Past(Overlay(overlay))
    BY DEF SourceType, NumberInv, Past, OfOverlay, Overlay, Snaps, Ids
  <1>2. ASSUME NEW w \in Workspaces, saved[w] # None PROVE Past(Saved(w))
    <2>1. saved[w].gen \in Nat /\ saved[w].text \in Nat /\ saved[w].gen <= next[w]
      BY <1>2 DEF SourceType, NumberInv
    <2>2. QED BY <1>2, <2>1 DEF Past, OfFile, Saved, Snaps, Ids
  <1>3. QED BY <1>1, <1>2, Found, Zenon DEF Current, Past

\* A new overlay has a generation no snapshot has.
LEMMA OverlayKeepsPast ==
  ASSUME SourceType, NEW s, Past(s), generation' = generation + 1,
         overlay'.gen = generation + 1, UNCHANGED <<open, next, saved, saves>>
  PROVE  Past(s)'
PROOF
  <1>1. CASE OfOverlay(s)
    BY <1>1 DEF SourceType, OfOverlay, Past
  <1>2. CASE OfFile(s)
    BY <1>2 DEF OfFile, Past
  <1>3. QED BY <1>1, <1>2, Zenon DEF Past

\* A closed document leaves the identities as they were.
LEMMA ClosingKeepsPast ==
  ASSUME NEW s, Past(s), overlay' = None, UNCHANGED <<generation, open, next, saved, saves>>
  PROVE  Past(s)'
PROOF
  BY DEF Past, OfOverlay, OfFile

\* What a workspace step does to the document of any workspace: nothing, or the file
\* is gone, or it gets a generation above those handed out.
LEMMA NewSaved ==
  ASSUME SourceType, NEW x \in Workspaces, save(x)
  PROVE  /\ open' \subseteq Workspaces /\ next' \in [Workspaces -> Nat]
         /\ saved' \in [Workspaces -> [gen : Nat, text : Nat] \cup {None}]
         /\ saves' \in Nat /\ texts' \in Nat
         /\ \A w \in Workspaces :
              \/ next'[w] = next[w] /\ saved'[w] \in {saved[w], None}
              \/ next'[w] = next[w] + 1 /\ saved'[w] = saved[w]
              \/ next'[w] = next[w] + 1 /\ saved'[w].gen = next[w] + 1
PROOF
  <1>1. /\ next \in [Workspaces -> Nat] /\ open \subseteq Workspaces /\ saves \in Nat /\ texts \in Nat
        /\ saved \in [Workspaces -> [gen : Nat, text : Nat] \cup {None}] /\ saves' = saves + 1
        /\ change(x) \/ drop(x) \/ openWorkspace(x) \/ closeWorkspace(x)
    BY Zenon DEF SourceType, save
  <1>2. CASE drop(x) \/ closeWorkspace(x)
    BY <1>1, <1>2 DEF drop, closeWorkspace
  <1>3. CASE change(x)
    BY <1>1, <1>3 DEF change
  <1>4. CASE openWorkspace(x)
    BY <1>1, <1>4 DEF openWorkspace
  <1>5. QED BY <1>1, <1>2, <1>3, <1>4, Zenon

\* A change of the saved file has an identity no snapshot has: the next generation
\* of its workspace.
LEMMA SavingKeepsPast ==
  ASSUME SourceType, NumberInv, NEW s, Past(s), NEW x \in Workspaces, save(x)
  PROVE  Past(s)'
PROOF
  <1>1. UNCHANGED <<overlay, generation>>
    BY Zenon DEF save
  <1>2. CASE OfOverlay(s)
    BY <1>1, <1>2, Zenon DEF OfOverlay, Past, Snaps, Ids
  <1>3. CASE OfFile(s)
    <2>1. PICK w \in Workspaces, g \in Nat :
            /\ s.id = <<"workspace", w, g>> /\ g <= next[w]
            /\ saved[w] # None /\ saved[w].gen = g => s.text = saved[w].text
      BY <1>3, Zenon DEF OfFile
    <2>2. g <= next'[w] /\ (saved'[w] # None /\ saved'[w].gen = g => s.text = saved'[w].text)
      <3>1. /\ next[w] \in Nat
            /\ \/ next'[w] = next[w] /\ saved'[w] \in {saved[w], None}
               \/ next'[w] = next[w] + 1 /\ saved'[w] = saved[w]
               \/ next'[w] = next[w] + 1 /\ saved'[w].gen = next[w] + 1
        BY NewSaved, Zenon DEF SourceType
      <3>2. QED BY <2>1, <3>1
    <2>3. QED BY <2>1, <2>2, Zenon DEF OfFile, Past, Snaps, Ids
  <1>4. QED BY <1>2, <1>3, Zenon DEF Past
-----------------------------------------------------------------------------
(* The steps *)

\* The present source and what may be held of earlier ones follow from the sources alone.
LEMMA SameSources ==
  ASSUME UNCHANGED <<overlay, generation, open, next, saved, saves>>
  PROVE  Current' = Current /\ \A x : Past(x)' <=> Past(x)
PROOF
  <1>1. overlay' = overlay /\ generation' = generation /\ open' = open /\ next' = next /\ saved' = saved /\ saves' = saves
    OBVIOUS
  <1>2. Current' = Current
    BY <1>1, Zenon DEF Current, LookupDocument, Deepest, Overlay, Saved
  <1>3. ASSUME NEW x PROVE Past(x)' <=> Past(x)
    <2>1. (OfOverlay(x)' <=> OfOverlay(x)) /\ (OfFile(x)' <=> OfFile(x))
      BY <1>1, ZenonT(30) DEF OfOverlay, OfFile
    <2>2. QED BY <2>1, ZenonT(30) DEF Past, Snaps, Ids
  <1>4. QED BY <1>2, <1>3, Zenon

\* No document is open and no request has arrived.
LEMMA LanguageInitially == LanguageInit => LanguageInv
PROOF
  <1>1. SUFFICES ASSUME LanguageInit PROVE LanguageInv
    OBVIOUS
  <1>2. SourceType /\ NumberInv
    BY <1>1 DEF LanguageInit, SourceType, NumberInv
  <1>3. TableType
    BY <1>1 DEF LanguageInit, TableType, Steps
  <1>4. SnapInv /\ EntryInv /\ BegunInv /\ SinceInv
    BY <1>1 DEF LanguageInit, SnapInv, EntryInv, BegunInv, SinceInv, Active, Served
  <1>5. QED BY <1>2, <1>3, <1>4, Zenon DEF LanguageInv

\* A step of the editor or of the workspace, seen from the requests: at most one
\* begins, and all that are in progress have seen the new source.
LEMMA SourceStep ==
  ASSUME LanguageInv, SourceType', NumberInv', \A s : Past(s) => Past(s)', observe,
         UNCHANGED <<entry, analysis, snap, waits>>, cache' \in {cache, None},
         NEW R \in SUBSET Requests, \A r \in R : stage[r] = "idle",
         stage' = [r \in Requests |-> IF r \in R THEN "resolve" ELSE stage[r]]
  PROVE  LanguageInv'
PROOF
  <1>1. \A r \in Requests : stage'[r] = stage[r] \/ (stage[r] = "idle" /\ stage'[r] = "resolve")
    BY Zenon
  <1>2. /\ \A r \in Requests : stage'[r] \in {"idle", "done"} => since'[r] = {}
        /\ \A r \in Requests : stage'[r] \notin {"idle", "done"} => since'[r] = since[r] \cup {Current'}
        /\ since' = [r \in Requests |-> since'[r]]
    BY Zenon DEF observe
  <1>3. Current' \in Snaps \cup {None}
    <2>1. (SourceType /\ NumberInv => Current \in Snaps \cup {None})'
      BY PresentIsPast, PTL
    <2>2. QED BY <2>1, Zenon DEF Snaps, Ids
  <1>4. TableType'
    <2>1. stage' \in [Requests -> Steps]
      BY Zenon DEF LanguageInv, TableType, Steps
    <2>2. since' \in [Requests -> SUBSET (Snaps \cup {None})]
      <3>1. \A r \in Requests : since[r] \in SUBSET (Snaps \cup {None})
        BY Zenon DEF LanguageInv, TableType
      <3>2. \A r \in Requests : since'[r] \in SUBSET (Snaps \cup {None})
        BY <1>2, <1>3, <3>1
      <3>3. QED BY <1>2, <3>2, Zenon
    <2>3. QED BY <2>1, <2>2, Zenon DEF LanguageInv, TableType, Snaps, Ids, Steps
  <1>5. SnapInv'
    BY <1>1 DEF LanguageInv, SnapInv
  <1>6. EntryInv'
    BY Zenon DEF LanguageInv, EntryInv
  <1>7. BegunInv'
    BY <1>1 DEF LanguageInv, BegunInv, Served
  <1>8. SinceInv'
    <2>1. SUFFICES ASSUME NEW r \in Requests
                   PROVE  /\ stage'[r] \in Active => Current' \in since'[r]
                          /\ stage'[r] \in Served => entry'[waits'[r]] \in since'[r]
      BY Zenon DEF SinceInv, Active, Served, Steps
    <2>2. stage'[r] \in Active => Current' \in since'[r]
      BY <1>2 DEF Active
    <2>3. stage'[r] \in Served => entry'[waits'[r]] \in since'[r]
      BY <1>1, <1>2 DEF LanguageInv, SinceInv, Served
    <2>4. QED BY <2>2, <2>3
  <1>9. QED BY <1>4, <1>5, <1>6, <1>7, <1>8, Zenon DEF LanguageInv

\* The program counter after begin, as SourceStep wants it.
LEMMA Begun ==
  ASSUME LanguageInv, NEW r \in Requests, NEW k, begin(r, k)
  PROVE  /\ \A q \in {r} : stage[q] = "idle"
         /\ stage' = [q \in Requests |-> IF q \in {r} THEN "resolve" ELSE stage[q]]
         /\ UNCHANGED <<snap, waits>>
PROOF
  BY ZenonT(30) DEF begin, LanguageInv, TableType

\* OpenDocument and ChangeDocument: a new overlay, and publishDiagnosticsAsync.
LEMMA EditStep ==
  ASSUME LanguageInv, NEW r \in Requests, NEW v \in Versions, didOpen(r, v) \/ didChange(r, v)
  PROVE  LanguageInv'
PROOF
  <1>1. /\ generation' = generation + 1 /\ texts' = texts + 1 /\ cache' = None
        /\ overlay' = [gen |-> generation + 1, version |-> v, text |-> texts + 1]
        /\ UNCHANGED <<open, next, saved, saves, entry, analysis>> /\ observe /\ begin(r, "publish")
    BY Zenon DEF didOpen, didChange, OpenDocument, ChangeDocument, fileVars
  <1>2. SourceType' /\ NumberInv'
    BY <1>1 DEF LanguageInv, SourceType, NumberInv
  <1>3. \A s : Past(s) => Past(s)'
    <2>1. overlay'.gen = generation + 1
      BY <1>1
    <2>2. QED BY <1>1, <2>1, OverlayKeepsPast, Zenon DEF LanguageInv
  <1>4. QED BY <1>1, <1>2, <1>3, Begun, SourceStep, Zenon

\* CloseDocument, and a change of the saved file.
LEMMA SourceOnlyStep ==
  ASSUME LanguageInv, CloseDocument \/ \E w \in Workspaces : save(w)
  PROVE  LanguageInv'
PROOF
  <1>1. /\ UNCHANGED <<entry, analysis, snap, waits, stage>> /\ observe /\ cache' \in {cache, None}
    BY Zenon DEF CloseDocument, save, cacheVars, reqVars
  <1>2. /\ stage' = [r \in Requests |-> IF r \in {} THEN "resolve" ELSE stage[r]]
        /\ {} \in SUBSET Requests /\ \A r \in {} : stage[r] = "idle"
    BY <1>1 DEF LanguageInv, TableType
  <1>3. CASE CloseDocument
    <2>1. overlay' = None /\ UNCHANGED <<generation, open, next, saved, saves, texts>>
      BY <1>3, Zenon DEF CloseDocument, fileVars
    <2>2. SourceType' /\ NumberInv'
      BY <2>1, Zenon DEF LanguageInv, SourceType, NumberInv
    <2>3. \A s : Past(s) => Past(s)'
      BY <2>1, ClosingKeepsPast, Zenon
    <2>4. QED BY <1>1, <1>2, <2>2, <2>3, SourceStep, Zenon
  <1>4. CASE \E w \in Workspaces : save(w)
    <2>1. PICK w \in Workspaces : save(w)
      BY <1>4, Zenon
    <2>2. SourceType /\ NumberInv /\ UNCHANGED <<overlay, generation>>
      BY <2>1, Zenon DEF save, LanguageInv
    <2>3. SourceType'
      BY <2>1, <2>2, NewSaved, Zenon DEF SourceType
    <2>4. NumberInv'
      <3>1. \A v \in Workspaces : saved'[v] # None => saved'[v].gen <= next'[v]
        BY <2>1, <2>2, NewSaved DEF SourceType, NumberInv
      <3>2. QED BY <2>2, <3>1, Zenon DEF NumberInv
    <2>5. \A s : Past(s) => Past(s)'
      BY <2>1, <2>2, SavingKeepsPast, Zenon
    <2>6. QED BY <1>1, <1>2, <2>3, <2>4, <2>5, SourceStep, Zenon
  <1>5. QED BY <1>3, <1>4, Zenon

\* A feature request begins.
LEMMA RequestStep ==
  ASSUME LanguageInv, NEW r \in Requests, request(r)
  PROVE  LanguageInv'
PROOF
  <1>1. /\ UNCHANGED <<overlay, generation, open, next, saved, saves, texts, entry, analysis, cache>> /\ observe
        /\ begin(r, "feature")
    BY Zenon DEF request, fileVars, docVars, cacheVars
  <1>2. SourceType' /\ NumberInv'
    BY <1>1, Zenon DEF LanguageInv, SourceType, NumberInv
  <1>3. \A s : Past(s) => Past(s)'
    BY <1>1, SameSources, Zenon
  <1>4. QED BY <1>1, <1>2, <1>3, Begun, SourceStep, Zenon

\* A step of request r that leaves sources and analyses alone.
LEMMA OwnStep ==
  ASSUME LanguageInv, NEW r \in Requests, NEW to \in Steps, NEW s \in Snaps \cup {None},
         stage[r] \in Active, to # "idle", to = "acquire" => Past(s),
         to \in Served => stage[r] \in Served,
         stage' = [stage EXCEPT ![r] = to], snap' = [snap EXCEPT ![r] = s],
         analysis[r] # "none" => to \in Served \cup {"done"},
         UNCHANGED <<overlay, generation, open, next, saved, saves, texts, cache, entry, analysis, waits, since>>
  PROVE  LanguageInv'
PROOF
  <1>1. /\ stage'[r] = to /\ snap'[r] = s
        /\ \A q \in Requests : q # r => stage'[q] = stage[q] /\ snap'[q] = snap[q]
        /\ stage' \in [Requests -> Steps] /\ snap' \in [Requests -> Snaps \cup {None}]
    BY Zenon DEF LanguageInv, TableType
  <1>2. Current' = Current /\ \A x : Past(x)' <=> Past(x)
    BY SameSources, Zenon
  <1>3. SourceType' /\ NumberInv'
    BY Zenon DEF LanguageInv, SourceType, NumberInv
  <1>4. TableType'
    BY <1>1, Zenon DEF LanguageInv, TableType, Snaps, Ids, Steps
  <1>5. SnapInv' /\ EntryInv'
    BY <1>1, <1>2, Zenon DEF LanguageInv, SnapInv, EntryInv
  <1>6. BegunInv'
    <2>1. \A q \in Requests : analysis'[q] # "none" => stage'[q] \in Served \cup {"done"}
      <3>1. SUFFICES ASSUME NEW q \in Requests, analysis[q] # "none"
                     PROVE  stage'[q] \in Served \cup {"done"}
        BY Zenon
      <3>2. stage[q] \in Served \cup {"done"}
        BY <3>1, Zenon DEF LanguageInv, BegunInv
      <3>3. CASE q = r
        BY <1>1, <3>1, <3>3, Zenon
      <3>4. CASE q # r
        BY <1>1, <3>2, <3>4, Zenon
      <3>5. QED BY <3>3, <3>4, Zenon
    <2>2. \A q \in Requests : stage'[q] \in Served => stage[q] \in Served
      BY <1>1, Zenon
    <2>3. QED BY <2>1, <2>2, Zenon DEF LanguageInv, BegunInv, Served
  <1>7. SinceInv'
    <2>1. \A q \in Requests : stage'[q] \in Served => stage[q] \in Served
      BY <1>1, Zenon
    <2>2. \A q \in Requests : stage'[q] \in Active => stage[q] \in Active
      BY <1>1, Zenon
    <2>3. QED BY <1>2, <2>1, <2>2, Zenon DEF LanguageInv, SinceInv, Served, Active, Steps
  <1>8. QED BY <1>3, <1>4, <1>5, <1>6, <1>7, Zenon DEF LanguageInv

\* resolveSnapshot, its lookup in the workspaces, and the end of a request.
LEMMA PlainStep ==
  ASSUME LanguageInv, NEW r \in Requests,
         resolveSnapshot(r) \/ lookup(r) \/ await(r) \/ giveUp(r) \/ IsCurrent(r) \/ sendNotification(r)
  PROVE  LanguageInv'
PROOF
  <1>1. UNCHANGED <<overlay, generation, open, next, saved, saves, texts, cache, entry, analysis, waits, since>>
    BY Zenon DEF resolveSnapshot, lookup, await, giveUp, IsCurrent, sendNotification, fileVars, docVars, cacheVars
  <1>2. /\ snap = [snap EXCEPT ![r] = snap[r]] /\ snap[r] \in Snaps \cup {None}
        /\ analysis[r] # "none" => stage[r] \in Served \cup {"done"}
    BY Zenon DEF LanguageInv, TableType, BegunInv
  <1>3. CASE resolveSnapshot(r) \/ lookup(r)
    <2>1. stage[r] \in {"resolve", "lookup"}
      BY <1>3, Zenon DEF resolveSnapshot, lookup
    <2>2. stage[r] \in Active /\ analysis[r] = "none"
      BY <1>2, <2>1 DEF Active, Served, Steps
    <2>3. /\ "acquire" \in Steps /\ "lookup" \in Steps /\ "done" \in Steps
          /\ \A x \in {"acquire", "lookup", "done"} : x # "idle" /\ x \notin Served
          /\ \A x \in {"lookup", "done"} : x # "acquire"
      BY DEF Steps, Served
    <2>4. \/ \E s : s \in Snaps /\ Past(s) /\ stage' = [stage EXCEPT ![r] = "acquire"] /\ snap' = [snap EXCEPT ![r] = s]
          \/ \E x \in {"lookup", "done"} : stage' = [stage EXCEPT ![r] = x] /\ snap' = snap
      BY <1>3, PresentIsPast, Zenon DEF resolveSnapshot, lookup, Past, LanguageInv
    <2>5. CASE \E s : s \in Snaps /\ Past(s) /\ stage' = [stage EXCEPT ![r] = "acquire"] /\ snap' = [snap EXCEPT ![r] = s]
      BY <1>1, <2>2, <2>3, <2>5, OwnStep, Zenon
    <2>6. CASE \E x \in {"lookup", "done"} : stage' = [stage EXCEPT ![r] = x] /\ snap' = snap
      BY <1>1, <1>2, <2>2, <2>3, <2>6, OwnStep, Zenon
    <2>7. QED BY <2>4, <2>5, <2>6, Zenon
  <1>4. CASE await(r) \/ IsCurrent(r) \/ sendNotification(r) \/ giveUp(r)
    <2>1. /\ snap' = snap /\ stage[r] \in Served \cup {"resolve"}
          /\ \E x \in {"check", "send", "done"} :
               stage' = [stage EXCEPT ![r] = x] /\ (x # "done" => stage[r] \in Served)
      BY <1>4 DEF await, IsCurrent, sendNotification, giveUp, Served
    <2>2. /\ Served \cup {"resolve"} \subseteq Active
          /\ \A x \in {"check", "send", "done"} :
               x \in Steps /\ x # "idle" /\ x # "acquire" /\ x \in Served \cup {"done"} /\ (x \in Served => x # "done")
      BY DEF Active, Served, Steps
    <2>3. QED BY <1>1, <1>2, <2>1, <2>2, OwnStep, Zenon
  <1>5. QED BY <1>3, <1>4, Zenon

\* acquireAnalysis: a snapshot that passes snapshotCurrent is the present source,
\* and so is a cached entry of the same identity.
LEMMA AcquireStep ==
  ASSUME LanguageInv, NEW r \in Requests, acquire(r)
  PROVE  LanguageInv'
PROOF
  <1>1. /\ UNCHANGED <<overlay, generation, open, next, saved, saves, texts, since>> /\ stage[r] = "acquire"
        /\ snap' = [snap EXCEPT ![r] = None]
        /\ Past(snap[r]) /\ snap[r] \in Snaps
    BY Zenon DEF acquire, fileVars, docVars, LanguageInv, SnapInv, Past
  <1>2. analysis[r] = "none" /\ stage[r] \in Active /\ stage[r] \notin Served
    BY <1>1 DEF LanguageInv, BegunInv, Served, Active, Steps
  <1>3. CASE ~snapshotCurrent(snap[r])
    <2>1. /\ stage' = [stage EXCEPT ![r] = "resolve"] /\ UNCHANGED <<waits, cache, entry, analysis>>
      BY <1>3, Zenon DEF acquire, cacheVars
    <2>2. "resolve" \in Steps \ {"idle", "acquire"} /\ "resolve" \notin Served
      BY DEF Steps, Served
    <2>3. QED BY <1>1, <1>2, <2>1, <2>2, OwnStep, Zenon
  <1>4. CASE snapshotCurrent(snap[r])
    <2>1. snap[r] = Current /\ Current # None
      BY <1>1, <1>4, CurrentByIdentity, Zenon DEF LanguageInv, snapshotCurrent
    <2>2. PICK e \in Requests :
            /\ waits' = [waits EXCEPT ![r] = e] /\ stage' = [stage EXCEPT ![r] = "wait"]
            /\ entry'[e] = Current /\ analysis'[e] # "none" /\ cache' = e
            /\ entry' = [entry EXCEPT ![e] = Current]
            /\ \A q \in Requests : q # r => analysis'[q] = analysis[q] /\ entry'[q] = entry[q]
            /\ analysis' \in [Requests -> {"none", "running", "ready"}]
            /\ e # r => analysis'[r] = "none" /\ entry'[r] = entry[r]
      <3>1. CASE cache # None /\ entry[cache].id = snap[r].id
        <4>1. cache \in Requests /\ analysis[cache] # "none" /\ Past(entry[cache])
          BY <3>1, Zenon DEF LanguageInv, TableType, BegunInv, EntryInv
        <4>2. snapshotCurrent(entry[cache])
          BY <1>4, <3>1, Zenon DEF snapshotCurrent
        <4>3. entry[cache] = Current
          BY <4>1, <4>2, CurrentByIdentity, Zenon DEF LanguageInv
        <4>4. /\ waits' = [waits EXCEPT ![r] = cache] /\ stage' = [stage EXCEPT ![r] = "wait"]
              /\ UNCHANGED <<cache, entry, analysis>>
          BY <1>4, <3>1, Zenon DEF acquire, cacheVars
        <4>5. entry' = [entry EXCEPT ![cache] = Current]
          BY <4>1, <4>3, <4>4, Zenon DEF LanguageInv, TableType
        <4>6. QED BY <1>2, <4>1, <4>3, <4>4, <4>5, Zenon DEF LanguageInv, TableType
      <3>2. CASE ~(cache # None /\ entry[cache].id = snap[r].id)
        <4>1. /\ cache' = r /\ entry' = [entry EXCEPT ![r] = Current]
              /\ analysis' = [analysis EXCEPT ![r] = "running"]
              /\ waits' = [waits EXCEPT ![r] = r] /\ stage' = [stage EXCEPT ![r] = "wait"]
          BY <1>4, <2>1, <3>2, Zenon DEF acquire, newEntry
        <4>2. /\ entry'[r] = Current /\ analysis'[r] = "running"
              /\ \A q \in Requests : q # r => analysis'[q] = analysis[q] /\ entry'[q] = entry[q]
              /\ analysis' \in [Requests -> {"none", "running", "ready"}]
          BY <4>1, Zenon DEF LanguageInv, TableType
        <4>3. "running" # "none"
          OBVIOUS
        <4>4. QED BY <4>1, <4>2, <4>3, Zenon
      <3>3. QED BY <3>1, <3>2, Zenon
    <2>3. /\ stage'[r] = "wait" /\ waits'[r] = e
          /\ \A q \in Requests : q # r => stage'[q] = stage[q] /\ waits'[q] = waits[q]
          /\ "wait" \in Served /\ "wait" \in Steps /\ "wait" # "acquire"
      BY <2>2 DEF LanguageInv, TableType, Served, Steps
    <2>16. /\ snap' \in [Requests -> Snaps \cup {None}]
           /\ \A q \in Requests : q # r => snap'[q] = snap[q]
      BY <1>1, Zenon DEF LanguageInv, TableType
    <2>4. Current' = Current /\ \A x : Past(x)' <=> Past(x)
      <3>1. UNCHANGED <<overlay, generation, open, next, saved, saves>>
        BY <1>1, Zenon
      <3>2. QED BY <3>1, SameSources, Zenon
    <2>5. \A q \in Requests : stage[q] \in Served => waits[q] # r /\ waits[q] \in Requests
      BY <1>2, Zenon DEF LanguageInv, BegunInv
    <2>13. \A q \in Requests : q # r => analysis'[q] = analysis[q] /\ entry'[q] = entry[q]
      BY <2>2, Zenon
    <2>14. e # r => analysis'[r] = "none" /\ entry'[r] = entry[r]
      BY <2>2, Zenon
    <2>15. analysis'[e] # "none" /\ entry'[e] = Current /\ cache' = e
      BY <2>2, Zenon
    <2>6. SourceType' /\ NumberInv'
      BY <1>1, Zenon DEF LanguageInv, SourceType, NumberInv
    <2>7. TableType'
      <3>1. stage' \in [Requests -> Steps]
        BY <2>2, <2>3, Zenon DEF LanguageInv, TableType
      <3>2. waits' \in [Requests -> Requests \cup {None}] /\ cache' \in Requests \cup {None}
        BY <2>2, Zenon DEF LanguageInv, TableType
      <3>3. entry' \in [Requests -> Snaps \cup {None}]
        BY <1>1, <2>1, <2>2, Zenon DEF LanguageInv, TableType
      <3>4. QED BY <1>1, <2>2, <2>16, <3>1, <3>2, <3>3, Zenon DEF LanguageInv, TableType, Snaps, Ids, Steps
    <2>8. SnapInv'
      BY <2>3, <2>4, <2>16, Zenon DEF LanguageInv, SnapInv
    <2>9. EntryInv'
      <3>1. Past(Current)
        BY <1>1, <2>1, Zenon
      <3>2. \A q \in Requests : q # e /\ analysis'[q] # "none" => analysis[q] # "none" /\ entry'[q] = entry[q]
        BY <2>13, <2>14
      <3>3. QED BY <2>15, <2>4, <3>1, <3>2, Zenon DEF LanguageInv, EntryInv
    <2>10. BegunInv'
      <3>1. \A q \in Requests : analysis'[q] # "none" => stage'[q] \in Served \cup {"done"}
        <4>1. \A q \in Requests : analysis[q] # "none" => stage[q] \in Served \cup {"done"}
          BY Zenon DEF LanguageInv, BegunInv
        <4>2. QED BY <2>3, <2>13, <4>1
      <3>2. \A q \in Requests : entry'[q] # None => analysis'[q] # "none"
        BY <1>2, <2>13, <2>14, <2>15, Zenon DEF LanguageInv, BegunInv
      <3>3. \A q \in Requests : stage'[q] \in Served => waits'[q] \in Requests /\ analysis'[waits'[q]] # "none"
        <4>1. \A q \in Requests : stage[q] \in Served => analysis[waits[q]] # "none"
          BY Zenon DEF LanguageInv, BegunInv
        <4>2. QED BY <2>3, <2>5, <2>13, <2>15, <4>1
      <3>4. QED BY <2>15, <3>1, <3>2, <3>3, Zenon DEF BegunInv, Served
    <2>11. SinceInv'
      <3>1. Current \in since[r] /\ since' = since
        BY <1>1, <1>2, Zenon DEF LanguageInv, SinceInv
      <3>2. ASSUME NEW q \in Requests, q # r, stage[q] \in Served PROVE entry'[waits[q]] = entry[waits[q]]
        BY <2>2, <2>5, <3>2, Zenon
      <3>3. SUFFICES ASSUME NEW q \in Requests
                     PROVE  /\ stage'[q] \in Active => Current' \in since'[q]
                            /\ stage'[q] \in Served => entry'[waits'[q]] \in since'[q]
        BY Zenon DEF SinceInv, Active, Served, Steps
      <3>4. CASE q = r
        BY <2>3, <2>4, <2>15, <3>1, <3>4
      <3>5. CASE q # r
        <4>1. stage'[q] = stage[q] /\ waits'[q] = waits[q]
          BY <2>3, <3>5, Zenon
        <4>2. /\ stage[q] \in Active => Current \in since[q]
              /\ stage[q] \in Served => entry[waits[q]] \in since[q]
          BY Zenon DEF LanguageInv, SinceInv
        <4>3. QED BY <2>4, <3>1, <3>2, <3>5, <4>1, <4>2
      <3>6. QED BY <3>4, <3>5, Zenon
    <2>12. QED BY <2>6, <2>7, <2>8, <2>9, <2>10, <2>11, Zenon DEF LanguageInv
  <1>5. QED BY <1>3, <1>4, Zenon

\* runAnalysis ends an analysis; its entry stays what it was.
LEMMA AnalysisStep ==
  ASSUME LanguageInv, NEW e \in Requests, runAnalysis(e)
  PROVE  LanguageInv'
PROOF
  <1>1. /\ UNCHANGED <<overlay, generation, open, next, saved, saves, texts, entry, stage, snap, waits, since>>
        /\ cache' \in {cache, None} /\ analysis' = [analysis EXCEPT ![e] = "ready"]
        /\ analysis[e] = "running" /\ "running" # "none" /\ "ready" # "none"
    BY DEF runAnalysis, fileVars, docVars, reqVars
  <1>2. /\ \A q \in Requests : analysis'[q] # "none" <=> analysis[q] # "none"
        /\ analysis' \in [Requests -> {"none", "running", "ready"}]
    BY <1>1, Zenon DEF LanguageInv, TableType
  <1>3. Current' = Current /\ \A x : Past(x)' <=> Past(x)
    <2>1. UNCHANGED <<overlay, generation, open, next, saved, saves>>
      BY <1>1, Zenon
    <2>2. QED BY <2>1, SameSources, Zenon
  <1>4. SourceType' /\ NumberInv'
    BY <1>1, Zenon DEF LanguageInv, SourceType, NumberInv
  <1>5. TableType'
    BY <1>1, <1>2, Zenon DEF LanguageInv, TableType, Snaps, Ids, Steps
  <1>6. SnapInv' /\ EntryInv'
    BY <1>1, <1>2, <1>3, Zenon DEF LanguageInv, SnapInv, EntryInv
  <1>7. BegunInv'
    BY <1>1, <1>2, Zenon DEF LanguageInv, BegunInv, TableType, Served
  <1>8. SinceInv'
    BY <1>1, <1>3, Zenon DEF LanguageInv, SinceInv, Served, Active, Steps
  <1>9. QED BY <1>4, <1>5, <1>6, <1>7, <1>8, Zenon DEF LanguageInv

\* didClose tells the client, or nothing happens.
LEMMA SameStep ==
  ASSUME LanguageInv, clear \/ UNCHANGED languageVars
  PROVE  LanguageInv'
PROOF
  <1>1. UNCHANGED <<overlay, generation, open, next, saved, saves, texts, cache, entry, analysis, stage, snap, waits, since>>
    BY Zenon DEF clear, languageVars, fileVars, docVars, cacheVars, reqVars
  <1>2. Current' = Current /\ \A x : Past(x)' <=> Past(x)
    <2>1. UNCHANGED <<overlay, generation, open, next, saved, saves>>
      BY <1>1, Zenon
    <2>2. QED BY <2>1, SameSources, Zenon
  <1>3. SourceType' /\ NumberInv' /\ TableType'
    BY <1>1, Zenon DEF LanguageInv, SourceType, NumberInv, TableType, Snaps, Ids, Steps
  <1>4. SnapInv' /\ EntryInv' /\ BegunInv'
    BY <1>1, <1>2, Zenon DEF LanguageInv, SnapInv, EntryInv, BegunInv, Served
  <1>5. SinceInv'
    BY <1>1, <1>2, Zenon DEF LanguageInv, SinceInv, Served, Active, Steps
  <1>6. QED BY <1>3, <1>4, <1>5, Zenon DEF LanguageInv

\* Every step keeps the invariant.
LEMMA LanguagePreserved == LanguageInv /\ [LanguageNext]_languageVars => LanguageInv'
PROOF
  <1>1. SUFFICES ASSUME LanguageInv, LanguageNext \/ UNCHANGED languageVars PROVE LanguageInv'
    BY Zenon
  <1>2. QED
    BY <1>1, EditStep, SourceOnlyStep, RequestStep, PlainStep, AcquireStep, AnalysisStep, SameStep, Zenon
       DEF LanguageNext, step

\* The invariant holds in every reachable state of the service.
THEOREM LanguageInductive == LanguageSpec => []LanguageInv
PROOF
  BY LanguageInitially, LanguagePreserved, PTL DEF LanguageSpec

\* A request is served an analysis of a text that was current during it, although
\* it may share an entry that another request began, and no identity is ever given
\* to two texts, for any number of requests, edits and saves.
THEOREM ServedText == LanguageSpec => []ServedItsText
PROOF
  <1>1. LanguageInv => ServedWasCurrent
    BY Zenon DEF LanguageInv, SinceInv, Served, ServedWasCurrent
  <1>2. LanguageInv => IdIdentifiesText
    <2>1. SUFFICES ASSUME LanguageInv, NEW r \in Requests, entry[r] # None, Current # None, entry[r].id = Current.id
                   PROVE  entry[r].text = Current.text
      BY Zenon DEF IdIdentifiesText
    <2>2. Past(entry[r]) /\ SourceType
      BY <2>1, Zenon DEF LanguageInv, BegunInv, EntryInv
    <2>3. QED BY <2>1, <2>2, CurrentByIdentity, Zenon DEF snapshotCurrent
  <1>3. QED BY LanguageInductive, <1>1, <1>2, PTL DEF ServedItsText
=============================================================================
