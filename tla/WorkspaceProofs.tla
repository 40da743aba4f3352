--------------------------- MODULE WorkspaceProofs ---------------------------
(***************************************************************************)
(* Proofs about internal/workspace: the Manager, for any set of Open       *)
(* calls, any set of roots and any number of Clears; and the documents of  *)
(* one workspace, for any finite set of sources, any directories and any   *)
(* number of filesystem changes and selections.                            *)
(***************************************************************************)
EXTENDS WorkspaceManager, WorkspaceDocuments, TLAPS

(***************************************************************************)
(* The manager: its inductive invariant.  RegistrySound says that the      *)
(* loads that count are the registered ones; it is inductive only with the *)
(* converse (OpeningInv: what is registered is a load of this generation   *)
(* that has not ended) and with what a call has made so far at each point  *)
(* of Open and of finishClose (PhaseInv, CloseInv).                        *)
(***************************************************************************)

\* Nothing that Clear abandoned is active.
GenerationInv == \A o \in Opens : entry[o] = "active" => opGen[o] = generation

\* A registered operation is in progress and of the current generation.
OpeningInv ==
  /\ \A r \in Roots : opening[r] # None =>
       /\ open[opening[r]] \in {"load", "commit", "fail"}
       /\ root[opening[r]] = r
       /\ opGen[opening[r]] = generation
  /\ \A o \in Opens : opGen[o] <= generation

\* What an Open call has made when it is at a given point.
PhaseInv ==
  \A o \in Opens :
    /\ o \in opDone => open[o] = "returned"
    /\ open[o] \in {"idle", "find", "wait", "begin", "load"} =>
         watcher[o] = "none" /\ state[o] = "loading"
    /\ open[o] = "commit" => watcher[o] = "open" /\ state[o] = "loading"
    /\ open[o] = "fail" => watcher[o] \in {"none", "closed"} /\ state[o] = "failed" /\ opErr[o] # "none"
    /\ open[o] # "returned" => entry[o] = "none"
    /\ open[o] = "returned" /\ entry[o] = "none" => watcher[o] \in {"none", "closed"}
    /\ entry[o] # "none" => state[o] # "failed" /\ watcher[o] \in {"running", "closed"}

\* Where finishClose stands.
CloseInv ==
  \A o \in Opens :
    /\ closer[o] = "none" <=> entry[o] \in {"none", "active"}
    /\ closer[o] = "done" <=> entry[o] = "gone"
    /\ closer[o] \in {"hooks", "remove", "done"} => watcher[o] = "closed"

\* A call waits for a load of its own root and returns a workspace of it, and a
\* cancellation only for its own context.
AnswerInv ==
  \A o \in Opens :
    /\ waitOp[o] # None => root[waitOp[o]] = root[o]
    /\ open[o] = "wait" => waitOp[o] # None
    /\ result[o] \in Opens => root[result[o]] = root[o]
    /\ opErr[o] = "canceled" => ctx[o]
    /\ result[o] = "canceled" => ctx[o]

IndInv ==
  /\ TypeOK
  /\ RootIndexSound
  /\ GenerationInv
  /\ OpeningInv
  /\ PhaseInv
  /\ CloseInv
  /\ AnswerInv
-----------------------------------------------------------------------------
\* A manager starts empty and no call has been made.
LEMMA InitInd == Init => IndInv
  <1> SUFFICES ASSUME Init PROVE IndInv
    OBVIOUS
  <1>1. TypeOK
    <2>1. panicked \in BOOLEAN /\ ctx \in [Opens -> BOOLEAN]
      BY Zenon DEF Init
    <2> QED
      BY <2>1, MaxClearsNat DEF Init, TypeOK
  <1>2. RootIndexSound /\ GenerationInv /\ OpeningInv
    BY NoneIsNoOpen DEF Init, RootIndexSound, GenerationInv, OpeningInv
  <1>3. PhaseInv /\ CloseInv /\ AnswerInv
    BY NoneIsNoOpen, ErrorsAreNoOpens, Zenon DEF Init, PhaseInv, CloseInv, AnswerInv
  <1> QED
    BY <1>1, <1>2, <1>3, Zenon DEF IndInv

\* A cancelled context touches nothing but its own call.
LEMMA cancelContextInd ==
  ASSUME IndInv, NEW o \in Opens, cancelContext(o)
  PROVE  IndInv'
  <1> USE NoneIsNoOpen DEF IndInv, TypeOK, cancelContext, indexVars, opVars, wsVars
  <1>1. TypeOK'
    BY MaxClearsNat, Zenon
  <1>2. RootIndexSound' /\ GenerationInv'
    BY DEF RootIndexSound, GenerationInv, OpeningInv, PhaseInv
  <1>3. OpeningInv'
    BY Zenon DEF OpeningInv, RootIndexSound, PhaseInv
  <1>4. PhaseInv' /\ CloseInv'
    BY Zenon DEF PhaseInv, CloseInv
  <1>5. AnswerInv'
    BY ErrorsAreNoOpens DEF AnswerInv, OpeningInv, RootIndexSound
  <1> QED
    BY <1>1, <1>2, <1>3, <1>4, <1>5, Zenon

\* A call that begins has made nothing yet.
LEMMA OpenInd ==
  ASSUME IndInv, NEW o \in Opens, Open(o)
  PROVE  IndInv'
  <1> USE NoneIsNoOpen DEF IndInv, TypeOK, Open, return, indexVars, opVars, wsVars
  <1>1. TypeOK'
    BY MaxClearsNat, Zenon
  <1>2. RootIndexSound' /\ GenerationInv'
    BY DEF RootIndexSound, GenerationInv, OpeningInv, PhaseInv
  <1>3. OpeningInv'
    BY DEF OpeningInv, RootIndexSound, PhaseInv
  <1>4. PhaseInv' /\ CloseInv'
    BY DEF PhaseInv, CloseInv
  <1>5. AnswerInv'
    BY ErrorsAreNoOpens DEF AnswerInv, OpeningInv, RootIndexSound
  <1> QED
    BY <1>1, <1>2, <1>3, <1>4, <1>5, Zenon

\* A call returns the workspace the index names, or waits for the registered
\* load of its root.
LEMMA findInd ==
  ASSUME IndInv, NEW o \in Opens, find(o)
  PROVE  IndInv'
  <1> USE NoneIsNoOpen DEF IndInv, TypeOK, find, return, indexVars, opVars, wsVars
  <1>1. TypeOK'
    BY MaxClearsNat
  <1>2. RootIndexSound' /\ GenerationInv'
    BY DEF RootIndexSound, GenerationInv, OpeningInv, PhaseInv
  <1>3. OpeningInv'
    BY DEF OpeningInv, RootIndexSound, PhaseInv
  <1>4. PhaseInv' /\ CloseInv'
    BY DEF PhaseInv, CloseInv
  <1>5. AnswerInv'
    BY ErrorsAreNoOpens DEF AnswerInv, OpeningInv, RootIndexSound
  <1> QED
    BY <1>1, <1>2, <1>3, <1>4, <1>5, Zenon

\* A waiter returns the workspace of its own root, or tries again.
LEMMA waitForOpenInd ==
  ASSUME IndInv, NEW o \in Opens, waitForOpen(o)
  PROVE  IndInv'
  <1> USE NoneIsNoOpen DEF IndInv, TypeOK, waitForOpen, return, indexVars, opVars, wsVars
  <1>1. TypeOK'
    BY MaxClearsNat
  <1>2. RootIndexSound' /\ GenerationInv'
    BY DEF RootIndexSound, GenerationInv, OpeningInv, PhaseInv
  <1>3. OpeningInv'
    BY DEF OpeningInv, RootIndexSound, PhaseInv
  <1>4. PhaseInv' /\ CloseInv'
    BY DEF PhaseInv, CloseInv
  <1>5. AnswerInv'
    BY ErrorsAreNoOpens DEF AnswerInv, OpeningInv, RootIndexSound
  <1> QED
    BY <1>1, <1>2, <1>3, <1>4, <1>5, Zenon

\* A load is registered only for a root that has neither workspace nor load.
LEMMA beginOpenInd ==
  ASSUME IndInv, NEW o \in Opens, beginOpen(o)
  PROVE  IndInv'
  <1> USE NoneIsNoOpen DEF IndInv, TypeOK, beginOpen, wsVars
  <1>1. TypeOK'
    BY MaxClearsNat
  <1>2. RootIndexSound' /\ GenerationInv'
    BY DEF RootIndexSound, GenerationInv, OpeningInv, PhaseInv
  <1>3. OpeningInv'
    BY DEF OpeningInv, RootIndexSound, PhaseInv
  <1>4. PhaseInv' /\ CloseInv'
    BY DEF PhaseInv, CloseInv
  <1>5. AnswerInv'
    BY ErrorsAreNoOpens DEF AnswerInv, OpeningInv, RootIndexSound
  <1> QED
    BY <1>1, <1>2, <1>3, <1>4, <1>5, Zenon

\* A load that fails has closed its watcher.
LEMMA loadInd ==
  ASSUME IndInv, NEW o \in Opens, load(o)
  PROVE  IndInv'
  <1> USE NoneIsNoOpen DEF IndInv, TypeOK, load, indexVars
  <1>1. TypeOK'
    BY MaxClearsNat
  <1>2. RootIndexSound' /\ GenerationInv'
    BY DEF RootIndexSound, GenerationInv, OpeningInv, PhaseInv
  <1>3. OpeningInv'
    BY DEF OpeningInv, RootIndexSound, PhaseInv
  <1>4. PhaseInv' /\ CloseInv'
    BY DEF PhaseInv, CloseInv
  <1>5. AnswerInv'
    BY ErrorsAreNoOpens DEF AnswerInv, OpeningInv, RootIndexSound
  <1> QED
    BY <1>1, <1>2, <1>3, <1>4, <1>5, Zenon

\* A load of this generation is the registered one, so it publishes into a free
\* place of the index; one of an earlier generation publishes nothing.
LEMMA commitInd ==
  ASSUME IndInv, NEW o \in Opens, commit(o)
  PROVE  IndInv'
  <1> USE NoneIsNoOpen DEF IndInv, TypeOK, commit, return
  <1>1. TypeOK'
    <2>1. panicked' \in BOOLEAN
      BY Zenon
    <2>2. CASE opGen[o] = generation
      BY <2>1, <2>2
    <2>3. CASE opGen[o] # generation
      BY <2>1, <2>3
    <2> QED
      BY <2>2, <2>3, Zenon
  <1>2. RootIndexSound' /\ GenerationInv'
    <2>1. ~panicked'
      BY Zenon DEF RootIndexSound, PhaseInv
    <2>2. CASE opGen[o] = generation
      <3>1. opening[root[o]] = o /\ byRoot[root[o]] = None
        BY <2>2, Zenon DEF RootIndexSound
      <3> QED
        BY <2>1, <2>2, <3>1 DEF RootIndexSound, GenerationInv, OpeningInv, PhaseInv
    <2>3. CASE opGen[o] # generation
      BY <2>1, <2>3 DEF RootIndexSound, GenerationInv, OpeningInv, PhaseInv
    <2> QED
      BY <2>2, <2>3, Zenon
  <1>3. OpeningInv'
    BY DEF OpeningInv, RootIndexSound, PhaseInv
  <1>4. PhaseInv' /\ CloseInv'
    BY DEF PhaseInv, CloseInv
  <1>5. AnswerInv'
    BY ErrorsAreNoOpens DEF AnswerInv, OpeningInv, RootIndexSound
  <1> QED
    BY <1>1, <1>2, <1>3, <1>4, <1>5, Zenon

\* A failed load removes no registration but its own.
LEMMA finishOpenInd ==
  ASSUME IndInv, NEW o \in Opens, finishOpen(o)
  PROVE  IndInv'
  <1> USE NoneIsNoOpen DEF IndInv, TypeOK, finishOpen, return, wsVars
  <1>1. TypeOK'
    <2>1. panicked' \in BOOLEAN
      OBVIOUS
    <2> QED
      BY <2>1, MaxClearsNat DEF PhaseInv
  <1>2. RootIndexSound' /\ GenerationInv'
    BY DEF RootIndexSound, GenerationInv, OpeningInv, PhaseInv
  <1>3. OpeningInv'
    BY DEF OpeningInv, RootIndexSound, PhaseInv
  <1>4. PhaseInv' /\ CloseInv'
    BY DEF PhaseInv, CloseInv
  <1>5. AnswerInv'
    BY ErrorsAreNoOpens DEF AnswerInv, PhaseInv
  <1> QED
    BY <1>1, <1>2, <1>3, <1>4, <1>5, Zenon

\* The active workspace is the one its root resolves to, so closing frees it.
LEMMA beginCloseInd ==
  ASSUME IndInv, NEW o \in Opens, beginClose(o)
  PROVE  IndInv'
  <1> USE NoneIsNoOpen DEF IndInv, TypeOK, beginClose, callVars, opVars
  <1>1. TypeOK'
    BY MaxClearsNat, Zenon
  <1>2. RootIndexSound' /\ GenerationInv'
    BY DEF RootIndexSound, GenerationInv, OpeningInv, PhaseInv
  <1>3. OpeningInv'
    BY Zenon DEF OpeningInv, RootIndexSound, PhaseInv
  <1>4. PhaseInv' /\ CloseInv'
    BY DEF PhaseInv, CloseInv
  <1>5. AnswerInv'
    BY ErrorsAreNoOpens, Zenon DEF AnswerInv, OpeningInv, RootIndexSound
  <1> QED
    BY <1>1, <1>2, <1>3, <1>4, <1>5, Zenon

\* finishClose stops the watcher first ...
LEMMA stopWatcherInd ==
  ASSUME IndInv, NEW o \in Opens, stopWatcher(o)
  PROVE  IndInv'
  <1> USE NoneIsNoOpen DEF IndInv, TypeOK, stopWatcher, indexVars, callVars, opVars
  <1>1. TypeOK'
    BY MaxClearsNat, Zenon
  <1>2. RootIndexSound' /\ GenerationInv'
    BY DEF RootIndexSound, GenerationInv, OpeningInv, PhaseInv
  <1>3. OpeningInv'
    BY Zenon DEF OpeningInv, RootIndexSound, PhaseInv
  <1>4. PhaseInv' /\ CloseInv'
    BY DEF PhaseInv, CloseInv
  <1>5. AnswerInv'
    BY ErrorsAreNoOpens, Zenon DEF AnswerInv, OpeningInv, RootIndexSound
  <1> QED
    BY <1>1, <1>2, <1>3, <1>4, <1>5, Zenon

\* ... then closes the workspace ...
LEMMA closeWorkspaceInd ==
  ASSUME IndInv, NEW o \in Opens, closeWorkspace(o)
  PROVE  IndInv'
  <1> USE NoneIsNoOpen DEF IndInv, TypeOK, closeWorkspace, indexVars, callVars, opVars
  <1>1. TypeOK'
    BY MaxClearsNat, Zenon
  <1>2. RootIndexSound' /\ GenerationInv'
    BY DEF RootIndexSound, GenerationInv, OpeningInv, PhaseInv
  <1>3. OpeningInv'
    BY Zenon DEF OpeningInv, RootIndexSound, PhaseInv
  <1>4. PhaseInv' /\ CloseInv'
    BY DEF PhaseInv, CloseInv
  <1>5. AnswerInv'
    BY ErrorsAreNoOpens, Zenon DEF AnswerInv, OpeningInv, RootIndexSound
  <1> QED
    BY <1>1, <1>2, <1>3, <1>4, <1>5, Zenon

\* ... and forgets an entry whose watcher is closed.
LEMMA removeEntryInd ==
  ASSUME IndInv, NEW o \in Opens, removeEntry(o)
  PROVE  IndInv'
  <1> USE NoneIsNoOpen DEF IndInv, TypeOK, removeEntry, indexVars, callVars, opVars
  <1>1. TypeOK'
    BY MaxClearsNat, Zenon
  <1>2. RootIndexSound' /\ GenerationInv'
    BY DEF RootIndexSound, GenerationInv, CloseInv
  <1>3. OpeningInv'
    BY Zenon DEF OpeningInv, RootIndexSound, PhaseInv
  <1>4. PhaseInv' /\ CloseInv'
    BY DEF PhaseInv, CloseInv
  <1>5. AnswerInv'
    BY ErrorsAreNoOpens, Zenon DEF AnswerInv, OpeningInv, RootIndexSound
  <1> QED
    BY <1>1, <1>2, <1>3, <1>4, <1>5, Zenon

\* After Clear no load in progress is of the current generation.
LEMMA ClearInd ==
  ASSUME IndInv, Clear
  PROVE  IndInv'
  <1> USE NoneIsNoOpen DEF IndInv, TypeOK, Clear, callVars, opVars
  <1>1. TypeOK'
    BY MaxClearsNat
  <1>2. RootIndexSound' /\ GenerationInv'
    <2>1. /\ byRoot' = [r \in Roots |-> None] /\ panicked' = panicked
          /\ \A x \in Opens : entry'[x] # "active"
          /\ \A x \in Opens : opGen'[x] # generation'
      BY MaxClearsNat DEF OpeningInv
    <2> QED
      BY <2>1 DEF RootIndexSound, GenerationInv
  <1>3. OpeningInv'
    BY DEF OpeningInv, RootIndexSound, PhaseInv
  <1>4. PhaseInv' /\ CloseInv'
    BY Zenon DEF PhaseInv, CloseInv
  <1>5. AnswerInv'
    BY ErrorsAreNoOpens, Zenon DEF AnswerInv, OpeningInv, RootIndexSound
  <1> QED
    BY <1>1, <1>2, <1>3, <1>4, <1>5, Zenon

\* Opens, loads, closes and Clears keep the inductive invariant, whatever their
\* number and whichever roots they name.
THEOREM Inductive == Spec => []IndInv
  <1>1. ASSUME IndInv, UNCHANGED vars PROVE IndInv'
    <2>1. UNCHANGED <<indexVars, callVars, opVars, wsVars>>
      BY <1>1, Zenon DEF vars
    <2>2. TypeOK'
      BY <1>1, <2>1, Zenon DEF IndInv, TypeOK, indexVars, callVars, opVars, wsVars
    <2>3. RootIndexSound' /\ GenerationInv' /\ OpeningInv'
      BY <1>1, <2>1, Zenon DEF IndInv, RootIndexSound, GenerationInv, OpeningInv, indexVars, callVars, opVars, wsVars
    <2>4. PhaseInv' /\ CloseInv'
      BY <1>1, <2>1, Zenon DEF IndInv, PhaseInv, CloseInv, indexVars, callVars, opVars, wsVars
    <2>5. AnswerInv'
      BY <1>1, <2>1, Zenon DEF IndInv, AnswerInv, indexVars, callVars, opVars, wsVars
    <2> QED BY <2>2, <2>3, <2>4, <2>5, Zenon DEF IndInv
  <1>2. ASSUME IndInv, NEW o \in Opens,
               Open(o) \/ cancelContext(o) \/ openStep(o) \/ beginClose(o) \/ closeStep(o)
        PROVE  IndInv'
    BY <1>2, OpenInd, cancelContextInd, findInd, waitForOpenInd, beginOpenInd, loadInd, commitInd,
       finishOpenInd, beginCloseInd, stopWatcherInd, closeWorkspaceInd, removeEntryInd, Zenon
       DEF openStep, closeStep
  <1>3. IndInv /\ [Next]_vars => IndInv'
    BY <1>1, <1>2, ClearInd, Zenon DEF Next
  <1> QED
    BY InitInd, <1>3, PTL DEF Spec
-----------------------------------------------------------------------------
\* A root never has two workspaces nor two loads that count, nothing that Clear
\* abandoned is published, no done channel is closed twice and no watcher
\* outlives its workspace, for any number of Opens, Closes and Clears.
THEOREM RegistryIsSound == Spec => []RegistrySound
  <1>1. IndInv => NoWatcherLeak
    BY DEF IndInv, TypeOK, NoWatcherLeak, PhaseInv, CloseInv
  <1>2. IndInv => RegistrySound
    BY <1>1, Zenon DEF IndInv, RegistrySound, GenerationInv
  <1> QED
    BY Inductive, <1>2, PTL

\* An Open call that returns a workspace returns one of the root it asked for,
\* although another call may have loaded it; one that returns a cancellation was
\* cancelled itself.
OpenAnswersItsCaller ==
  \A o \in Opens :
    /\ result[o] \in Opens => root[result[o]] = root[o]
    /\ result[o] = "canceled" => ctx[o]

\* Calls that share a load share its workspace and never its cancellation
\* (Manager.Open, waitForOpen).
THEOREM AnswersTheCaller == Spec => []OpenAnswersItsCaller
  <1>1. IndInv => OpenAnswersItsCaller
    BY Zenon DEF IndInv, AnswerInv, OpenAnswersItsCaller
  <1> QED
    BY Inductive, <1>1, PTL
-----------------------------------------------------------------------------
(***************************************************************************)
(* The documents: their inductive invariant.  SettledIsCurrent speaks of   *)
(* the moments when nothing is pending; in between, every source is either *)
(* current or accounted for (ServedInv): an event for it is pending, or    *)
(* the run goroutine is reconciling it.  That an operation publishes only  *)
(* such content rests on what it has listed and read so far                *)
(* (OperationInv), which rests on the order of ReadDir, AddDirectory and   *)
(* the read.                                                               *)
(***************************************************************************)

\* The sources a reconciliation answers for.
scope(o) == IF o.kind = "tree" THEN {f \in Sources : InSubtree(DirOf[f], o.key)} ELSE {o.key}

\* A pending event has f reconciled, whatever becomes of its directory.
Announced(f) ==
  \/ overflow
  \/ <<"source", f>> \in events
  \/ <<"renamed", Root>> \in events \/ <<"renamed", DirOf[f]>> \in events
  \/ <<"gomod", DirOf[f]>> \in events

\* A pending event has f reconciled unless its directory is then gone and unwatched.
Remade(f) == <<"dir", DirOf[f]>> \in events
Pending(f) == Announced(f) \/ Remade(f)

\* The run goroutine is reconciling f.
Covered(f) == op.by = "watch" /\ f \in scope(op)

\* addDirectory deleted the watch of f's directory; the one that did is a caller's and
\* has found nothing to watch instead.
Taken(f) == op # NoOp /\ DirOf[f] \in op.taken
Released(f) == op.by = "client" /\ ~registering /\ Taken(f)

\* The directory of f has an entry in workspaceWatcher.watched, or had one that was
\* deleted; it exists; it is watched.
Held(f) == watched[DirOf[f]] # Absent \/ Taken(f)
Exists(f) == InodeOf(DirOf[f]) # Absent
Watched(f) == Live(DirOf[f])

Justified(d) == \E f \in explicitPaths : DirOf[f] = d

alive == status \in {"opening", "ready"} /\ ~closing
served == status = "ready" /\ ~closing /\ lost = {}

Operations ==
  [by : {"open", "client", "watch"}, kind : {"tree", "document"}, key : Directories \cup Sources,
   explicit : BOOLEAN, pc : {"list", "observe", "read", "discover", "add", "check", "fetch", "commit"},
   walk : SUBSET Directories, at : Directories \cup Sources, entries : SUBSET Sources,
   subs : SUBSET Dirs, listed : SUBSET Sources, kept : SUBSET Directories,
   todo : SUBSET Sources, added : SUBSET Directories, then : {"none", "observe", "discover"},
   seen : Nat, taken : SUBSET Directories, content : [Sources -> Nat]]
Notices == ({"source"} \X Sources) \cup ({"renamed"} \X Directories) \cup ({"gomod", "dir"} \X Dirs)

FileType ==
  /\ inode \in [Dirs -> Nat] /\ gomod \subseteq Dirs /\ text \in [Sources -> Nat] /\ changes \in Nat
  /\ watched \in [Directories -> Nat] /\ closed \in BOOLEAN /\ overflow \in BOOLEAN
  /\ events \subseteq Notices

DocType == explicitPaths \subseteq Sources /\ closing \in BOOLEAN

OpType == op = NoOp \/ op \in Operations

\* Inodes are fresh, a file has a directory, and the root is watched for good.
FilesInv ==
  /\ \A d \in Dirs : inode[d] <= changes + 1
  /\ \A d \in Directories : watched[d] <= changes + 1
  /\ \A f \in Sources : text[f] # Absent => Exists(f)
  /\ watched[Root] = 1

\* When each kind of operation runs, and what it is called for.
StatusInv ==
  /\ closed => closing \/ status = "failed"
  /\ status = "opening" => op.by = "open" /\ ~closing
  /\ op.by = "open" => status = "opening"
  /\ op.by \in {"client", "watch"} => status \in {"ready", "closed"}
  /\ op.by = "watch" => watch = "run"
  /\ watch # "none" => status \in {"ready", "closed"}
  /\ status = "closed" => closing

CallInv ==
  op # NoOp =>
    /\ op.by = "open" => op.kind = "tree" /\ op.key = Root /\ ~op.explicit
    /\ op.by = "client" => op.kind = "document" /\ op.explicit
    /\ op.by = "watch" => ~op.explicit
    /\ IF op.kind = "tree" THEN op.key \in Directories ELSE op.key \in Sources

\* addDirectory has been called by the walk, or for a single source.
walking == op.pc = "observe" \/ (registering /\ op.then = "observe")
locating == op.pc = "fetch" \/ (registering /\ op.then = "discover")

\* Where a walk is: a root that is walked is kept, so that its watch stays.
WalkInv ==
  op # NoOp =>
    /\ op.pc \in {"list", "read"} \/ walking => op.kind = "tree"
    /\ walking => op.at \in Directories \ Excluded /\ op.entries \subseteq InDir(op.at)
    /\ op.kind = "tree" /\ op.key = Root =>
         \/ Root \in op.kept
         \/ op.pc = "list" /\ op.walk = {Root}
         \/ op.pc = "observe" /\ op.at = Root

\* What is left to discover.
TodoInv ==
  op # NoOp =>
    /\ op.kind = "tree" => op.todo \subseteq explicitPaths
    /\ op.kind = "document" => op.todo \subseteq {op.key}
    /\ locating =>
         /\ op.at \in Sources \ op.todo /\ op.content[op.at] = Absent
         /\ IF op.kind = "tree" THEN op.at \in explicitPaths ELSE op.at = op.key
    /\ op.pc = "commit" => op.todo = {}
    /\ \A f \in op.todo : op.content[f] = Absent

\* A single source is discovered once: what was taken was not found.
SingleInv ==
  op # NoOp /\ op.kind = "document" =>
    /\ op.listed = {}
    /\ op.pc = "commit" \/ \A f \in Sources : op.content[f] = Absent
    /\ op.pc \in {"discover", "add", "check"} => op.added = {}
    /\ op.taken = {} \/ registering \/
         (op.pc = "commit" /\ op.added = {} /\ \A f \in Sources : op.content[f] = Absent)

\* addDirectory: the watch of its directory is deleted, and the one it makes is on
\* the directory it has seen, if that is still there.
RegisteringInv ==
  op # NoOp /\ registering =>
    /\ op.then # "none" /\ adding \in op.taken /\ op.seen # Absent /\ op.seen <= changes + 1
    /\ op.kind = "document" => op.taken = {adding}
    /\ op.pc = "check" /\ InodeOf(adding) = op.seen => watched[adding] = op.seen

\* A rollback leaves the root alone; what a selection added is there, and what was
\* taken is gone.
RollbackInv ==
  op # NoOp =>
    /\ Root \notin op.added \cup op.taken
    /\ op.kind = "document" => \A d \in op.added : watched[d] # Absent
    /\ \A d \in op.taken : watched[d] = Absent \/ (op.pc = "check" /\ d = adding)

DocumentInv ==
  /\ IndexFollows
  /\ \A f \in Sources : documents[f] = NoDocument \/ documents[f].text # Absent

\* Who an excluded directory is watched for.
JustifiedInv ==
  status \in {"opening", "ready"} =>
    /\ \A d \in Excluded : watched[d] # Absent => Justified(d) \/ (op # NoOp /\ d \in op.added \cup op.taken)
    /\ op # NoOp => \A d \in Excluded \cap (op.kept \cup op.added \cup op.taken) :
         Justified(d) \/ (op.kind = "document" /\ op.explicit /\ d = DirOf[op.key])

\* A listed source, and one about to be read: changes from now on are announced.
ListedOf(f) ==
  f \in op.listed =>
    /\ DirOf[f] \in op.kept /\ Held(f)
    /\ Pending(f) \/ (Watched(f) /\ text[f] # Absent)
FetchedOf(f) ==
  op.pc = "fetch" /\ op.at = f =>
    /\ DirOf[f] \in op.kept /\ Held(f)
    /\ Pending(f) \/ Watched(f)

\* What was read is still so, or a change is announced.
ReadOf(f) ==
  op.content[f] # Absent =>
    /\ DirOf[f] \in op.kept /\ Held(f)
    /\ Pending(f) \/ (Watched(f) /\ op.content[f] = text[f])

\* A selected source that is dealt with will be tracked.
Dealt(f) ==
  /\ op.pc \in {"discover", "commit"} \/ (locating /\ op.at # f)
  /\ f \in explicitPaths /\ f \in scope(op) /\ f \notin op.todo
SelectedOf(f) ==
  Dealt(f) => \/ Pending(f)
              \/ op.content[f] = text[f] /\ (Exists(f) => Watched(f) /\ DirOf[f] \in op.kept)

\* A selection adds a watch only where the present one is dead, and an event due.
AddedOf(f) ==
  /\ lost = {} /\ op.by = "client" /\ f \in explicitPaths
  /\ DirOf[f] \in op.added \/ (registering /\ DirOf[f] \in op.taken)
  => Pending(f)

OperationOf(f) == ListedOf(f) /\ FetchedOf(f) /\ ReadOf(f) /\ SelectedOf(f) /\ AddedOf(f)
OperationInv == alive /\ op # NoOp => \A f \in Sources : OperationOf(f)

\* What RetainedAreCurrent and AdmittedAreTracked become while events are pending.
CurrentOf(f) ==
  f \in Retained =>
    \/ Covered(f) \/ Announced(f) \/ Released(f)
    \/ Remade(f) /\ Held(f)
    \/ documents[f].text = text[f] /\ Watched(f)
TrackedOf(f) ==
  f \in explicitPaths =>
    \/ Covered(f) \/ Pending(f)
    \/ f \in Retained /\ Released(f)
    \/ documents[f].text = text[f] /\ (Exists(f) => Watched(f))
ServedInv == served => \A f \in Sources : CurrentOf(f) /\ TrackedOf(f)

DocumentsInv ==
  /\ FileType /\ DocType /\ OpType /\ FilesInv /\ StatusInv /\ CallInv /\ WalkInv /\ TodoInv
  /\ SingleInv /\ RegisteringInv /\ RollbackInv /\ DocumentInv /\ JustifiedInv /\ OperationInv /\ ServedInv

\* What a step that ends no operation keeps of f.
Carries(f) ==
  /\ Announced(f) => Announced(f)'
  /\ Remade(f) => Remade(f)'
  /\ Held(f) => Held(f)'
  /\ Watched(f) => Pending(f)' \/ (Watched(f)' /\ text'[f] = text[f])
  /\ (Exists(f) => Watched(f)) =>
       Pending(f)' \/ (text'[f] = text[f] /\ (Exists(f)' => Exists(f) /\ Watched(f)'))
-----------------------------------------------------------------------------
\* NoOp is not an operation: a step of one has its holder.
LEMMA Idle == NoOp.by = "none" /\ NoOp.pc = "none" /\ NoOp' = NoOp /\ NoOp \notin Operations
  BY DEF NoOp, Operations

\* No entry is the least.
LEMMA NoEntry == FileType => Absent <= changes + 1 /\ Absent \in Nat
  BY TreeAssumption DEF FileType

\* Sources are numbers, by which a publication orders what it changes.
LEMMA SourcesOrdered == \A f \in Sources : f <= f
  BY TreeAssumption

\* A number grows by a count that is not zero.
LEMMA CountedAbove == \A n \in Nat, c \in Nat \ {0} : n + c > n
  OBVIOUS

\* A source that is not retained has no content.
LEMMA NotRetained == \A f \in Sources : f \notin Retained => documents[f].text = Absent
  BY DEF Retained, NoDocument

\* What an event on a directory names.
LEMMA DirectoryEvent ==
  ASSUME NEW event \in Notices, event[1] = "dir"
  PROVE  event[2] \in Dirs /\ event = <<"dir", event[2]>>
  BY DEF Notices

\* Notifications only add: one on a watched directory leaves its event or an overflow.
LEMMA NotifyGrows ==
  ASSUME NEW d, NEW e, notify(d, e), overflow \in BOOLEAN
  PROVE  /\ events \subseteq events' /\ events' \subseteq events \cup {e}
         /\ (overflow => overflow') /\ overflow' \in BOOLEAN
         /\ Live(d) => e \in events' \/ overflow'
  <1>1. CASE events' = events \cup {e} /\ UNCHANGED overflow
    BY <1>1, Zenon
  <1>2. CASE overflow' = TRUE /\ UNCHANGED events
    BY <1>2, Zenon
  <1>3. CASE ~Live(d) /\ UNCHANGED <<events, overflow>>
    BY <1>3, Zenon
  <1> QED BY <1>1, <1>2, <1>3, Zenon DEF notify

\* What is pending for a source stays pending while events are only added.
LEMMA EventsGrow ==
  ASSUME NEW f \in Sources, events \subseteq events', overflow => overflow'
  PROVE  (Announced(f) => Announced(f)') /\ (Remade(f) => Remade(f)')
  BY Zenon DEF Announced, Remade

\* A change of a file or of a go.mod reaches whoever has the directory watched.
LEMMA InPlace ==
  ASSUME FileType, FilesInv, UNCHANGED <<inode, watched, closed, op>>, changes' = changes + 1,
         gomod' \subseteq Dirs, text' \in [Sources -> Nat],
         NEW d, NEW e \in Notices, notify(d, e),
         \A f \in Sources : text'[f] = text[f] \/ (Exists(f) /\ (Watched(f) => Pending(f)'))
  PROVE  FileType' /\ FilesInv' /\ \A f \in Sources : Carries(f)
  <1>1. /\ events \subseteq events' /\ events' \subseteq events \cup {e}
        /\ (overflow => overflow') /\ overflow' \in BOOLEAN
    BY NotifyGrows, Zenon DEF FileType
  <1>2. FileType'
    BY <1>1 DEF FileType
  <1>3. ASSUME NEW f \in Sources PROVE Carries(f) /\ (text'[f] # Absent => Exists(f)')
    <2>1. (Announced(f) => Announced(f)') /\ (Remade(f) => Remade(f)')
      BY <1>1, EventsGrow, Zenon
    <2>2. (Exists(f)' <=> Exists(f)) /\ (Watched(f)' <=> Watched(f)) /\ (Held(f)' <=> Held(f))
      BY Zenon DEF Exists, Watched, Held, Taken, NoOp, Live, InodeOf
    <2>3. text'[f] = text[f] \/ (Exists(f) /\ (Watched(f) => Pending(f)'))
      BY Zenon
    <2>4. text[f] # Absent => Exists(f)
      BY Zenon DEF FilesInv
    <2> QED BY <2>1, <2>2, <2>3, <2>4, Zenon DEF Carries
  <1>4. FilesInv'
    <2>1. \A c \in Dirs : inode'[c] <= changes' + 1
      BY DEF FilesInv, FileType
    <2>2. \A c \in Directories : watched'[c] <= changes' + 1
      BY DEF FilesInv, FileType
    <2> QED BY <1>3, <2>1, <2>2, Zenon DEF FilesInv
  <1> QED BY <1>2, <1>3, <1>4, Zenon

\* A write is announced to the watcher of its directory.
LEMMA WriteCarries ==
  ASSUME FileType, FilesInv, op' = op, NEW g \in Sources, NEW t \in Texts, write(g, t)
  PROVE  FileType' /\ FilesInv' /\ \A f \in Sources : Carries(f)
  <1>1. /\ InodeOf(DirOf[g]) # Absent /\ changes' = changes + 1
        /\ text' = [text EXCEPT ![g] = t] /\ t \in Nat
        /\ UNCHANGED <<inode, gomod, watched, closed>>
    BY TreeAssumption, Zenon DEF write, change
  <1>2. notify(DirOf[g], <<"source", g>>) /\ <<"source", g>> \in Notices
    BY Zenon DEF write, Notices
  <1>3. Watched(g) => Pending(g)'
    BY <1>2, NotifyGrows, Zenon DEF FileType, Watched, Pending, Announced
  <1>4. text' \in [Sources -> Nat] /\ \A f \in Sources : f # g => text'[f] = text[f]
    BY <1>1, Zenon DEF FileType
  <1>5. Exists(g)
    BY <1>1, Zenon DEF Exists
  <1>6. \A f \in Sources : text'[f] = text[f] \/ (Exists(f) /\ (Watched(f) => Pending(f)'))
    BY <1>3, <1>4, <1>5, Zenon
  <1>7. gomod' \subseteq Dirs
    BY <1>1, Zenon DEF FileType
  <1> QED BY <1>1, <1>2, <1>4, <1>6, <1>7, InPlace, Zenon

\* So is a removal, also one that is reported as a rename.
LEMMA RemoveCarries ==
  ASSUME FileType, FilesInv, op' = op, NEW g \in Sources, remove(g)
  PROVE  FileType' /\ FilesInv' /\ \A f \in Sources : Carries(f)
  <1>1. /\ text[g] # Absent /\ changes' = changes + 1
        /\ text' = [text EXCEPT ![g] = Absent] /\ Absent \in Nat
        /\ UNCHANGED <<inode, gomod, watched, closed>>
    BY TreeAssumption, Zenon DEF remove, change
  <1>2. PICK e \in {<<"source", g>>, <<"renamed", DirOf[g]>>} : notify(DirOf[g], e)
    BY Zenon DEF remove
  <1>3. e \in Notices
    BY TreeAssumption DEF Notices, Directories
  <1>4. Watched(g) => Pending(g)'
    BY <1>2, NotifyGrows, Zenon DEF FileType, Watched, Pending, Announced
  <1>5. text' \in [Sources -> Nat] /\ \A f \in Sources : f # g => text'[f] = text[f]
    BY <1>1, Zenon DEF FileType
  <1>6. Exists(g)
    BY <1>1, Zenon DEF FilesInv
  <1>7. \A f \in Sources : text'[f] = text[f] \/ (Exists(f) /\ (Watched(f) => Pending(f)'))
    BY <1>4, <1>5, <1>6, Zenon
  <1>8. gomod' \subseteq Dirs
    BY <1>1, Zenon DEF FileType
  <1> QED BY <1>1, <1>2, <1>3, <1>5, <1>7, <1>8, InPlace, Zenon

\* So is a go.mod that comes or goes.
LEMMA ToggleCarries ==
  ASSUME FileType, FilesInv, op' = op, NEW d \in Dirs, toggleModule(d)
  PROVE  FileType' /\ FilesInv' /\ \A f \in Sources : Carries(f)
  <1>1. changes' = changes + 1 /\ UNCHANGED <<inode, text, watched, closed>>
    BY Zenon DEF toggleModule, change
  <1>2. notify(d, <<"gomod", d>>) /\ <<"gomod", d>> \in Notices
    BY Zenon DEF toggleModule, Notices
  <1>3. gomod' \subseteq Dirs
    BY Zenon DEF toggleModule, FileType
  <1>4. text' \in [Sources -> Nat] /\ \A f \in Sources : text'[f] = text[f]
    BY <1>1, Zenon DEF FileType
  <1> QED BY <1>1, <1>2, <1>3, <1>4, InPlace, Zenon

\* A directory comes or goes: the watched root reports it, and whoever is in it
\* has an event pending.
LEMMA DirectoryCarries ==
  ASSUME FileType, FilesInv, UNCHANGED <<watched, closed, op>>, changes' = changes + 1,
         NEW d \in Dirs, NEW n \in Nat, n <= changes' + 1, inode' = [inode EXCEPT ![d] = n],
         gomod' \subseteq Dirs, text' \in [Sources -> Nat],
         \A f \in Sources : IF DirOf[f] = d THEN text'[f] # Absent => n # Absent ELSE text'[f] = text[f],
         NEW e \in {<<"renamed", Root>>, <<"dir", d>>}, notify(Root, e)
  PROVE  FileType' /\ FilesInv' /\ (~closed => \A f \in Sources : Carries(f))
  <1>1. ~closed => Live(Root)
    BY TreeAssumption DEF Live, InodeOf, FilesInv
  <1>2. /\ events \subseteq events' /\ events' \subseteq events \cup {e}
        /\ (overflow => overflow') /\ overflow' \in BOOLEAN
        /\ ~closed => e \in events' \/ overflow'
    BY <1>1, NotifyGrows, Zenon DEF FileType
  <1>3. FileType'
    <2>1. e \in Notices
      BY DEF Notices, Directories
    <2>2. inode' \in [Dirs -> Nat]
      BY Zenon DEF FileType
    <2> QED BY <1>2, <2>1, <2>2 DEF FileType
  <1>4. inode'[d] = n /\ \A c \in Dirs : c # d => inode'[c] = inode[c]
    BY Zenon DEF FileType
  <1>5. ASSUME NEW f \in Sources PROVE (~closed => Carries(f)) /\ (text'[f] # Absent => Exists(f)')
    <2>1. (Announced(f) => Announced(f)') /\ (Remade(f) => Remade(f)')
      BY <1>2, EventsGrow, Zenon
    <2>2. Held(f)' <=> Held(f)
      BY Zenon DEF Held, Taken, NoOp
    <2>3. DirOf[f] \in Directories
      BY TreeAssumption, Zenon DEF Directories
    <2>4. CASE DirOf[f] = d
      <3>1. ~closed => Pending(f)'
        BY <1>2, <2>4, Zenon DEF Pending, Announced, Remade
      <3>2. text'[f] # Absent => Exists(f)'
        BY <1>4, <2>4, TreeAssumption, Zenon DEF Exists, InodeOf
      <3> QED BY <2>1, <2>2, <3>1, <3>2, Zenon DEF Carries
    <2>5. CASE DirOf[f] # d
      <3>1. InodeOf(DirOf[f])' = InodeOf(DirOf[f])
        BY <1>4, <2>3, <2>5, Zenon DEF InodeOf, Directories
      <3>2. (Exists(f)' <=> Exists(f)) /\ (Watched(f)' <=> Watched(f))
        BY <3>1, Zenon DEF Exists, Watched, Live
      <3>3. text'[f] = text[f]
        BY <2>5, Zenon
      <3>4. text[f] # Absent => Exists(f)
        BY Zenon DEF FilesInv
      <3> QED BY <2>1, <2>2, <3>2, <3>3, <3>4, Zenon DEF Carries
    <2> QED BY <2>4, <2>5, Zenon
  <1>6. FilesInv'
    <2>1. \A c \in Dirs : inode'[c] <= changes' + 1
      BY <1>4 DEF FilesInv, FileType
    <2>2. \A c \in Directories : watched'[c] <= changes' + 1
      BY DEF FilesInv, FileType
    <2> QED BY <1>5, <2>1, <2>2, Zenon DEF FilesInv
  <1> QED BY <1>3, <1>5, <1>6, Zenon

\* No filesystem change goes unannounced where the watcher is open.
LEMMA FilesystemCarries ==
  ASSUME FileType, FilesInv, op' = op, filesystem
  PROVE  FileType' /\ FilesInv' /\ (~closed => \A f \in Sources : Carries(f))
  <1>1. CASE \E f \in Sources, t \in Texts : write(f, t)
    BY <1>1, WriteCarries, Zenon
  <1>2. CASE \E f \in Sources : remove(f)
    BY <1>2, RemoveCarries, Zenon
  <1>3. CASE \E d \in Dirs : toggleModule(d)
    BY <1>3, ToggleCarries, Zenon
  <1>4. ASSUME NEW d \in Dirs, NEW full \in BOOLEAN, makeDir(d, full)
        PROVE  FileType' /\ FilesInv' /\ (~closed => \A f \in Sources : Carries(f))
    <2>1. /\ changes' = changes + 1 /\ inode' = [inode EXCEPT ![d] = 1 + changes']
          /\ UNCHANGED <<watched, closed, gomod>> /\ notify(Root, <<"dir", d>>)
          /\ text' = [f \in Sources |-> IF f \in InDir(d) /\ full THEN 1 ELSE text[f]]
      BY <1>4, Zenon DEF makeDir, change
    <2>2. 1 + changes' \in Nat /\ 1 + changes' <= changes' + 1 /\ 1 + changes' # Absent
      BY <2>1, TreeAssumption DEF FileType
    <2>3. gomod' \subseteq Dirs
      BY <2>1, Zenon DEF FileType
    <2>4. text' \in [Sources -> Nat]
      BY <2>1, Zenon DEF FileType
    <2>5. \A f \in Sources : IF DirOf[f] = d THEN text'[f] # Absent => 1 + changes' # Absent
                             ELSE text'[f] = text[f]
      BY <2>1, <2>2, Zenon DEF InDir
    <2> QED BY <2>1, <2>2, <2>3, <2>4, <2>5, DirectoryCarries, Zenon
  <1>5. ASSUME NEW d \in Dirs, removeDir(d)
        PROVE  FileType' /\ FilesInv' /\ (~closed => \A f \in Sources : Carries(f))
    <2>1. /\ changes' = changes + 1 /\ inode' = [inode EXCEPT ![d] = Absent]
          /\ UNCHANGED <<watched, closed>> /\ gomod' = gomod \ {d}
          /\ text' = [f \in Sources |-> IF f \in InDir(d) THEN Absent ELSE text[f]]
      BY <1>5, Zenon DEF removeDir, change
    <2>2. PICK e \in {<<"renamed", Root>>, <<"dir", d>>} : notify(Root, e)
      BY <1>5, Zenon DEF removeDir
    <2>3. Absent \in Nat /\ Absent <= changes' + 1
      BY <2>1, TreeAssumption DEF FileType
    <2>4. gomod' \subseteq Dirs
      BY <2>1, Zenon DEF FileType
    <2>5. text' \in [Sources -> Nat]
      BY <2>1, <2>3, Zenon DEF FileType
    <2>6. \A f \in Sources : IF DirOf[f] = d THEN text'[f] # Absent => Absent # Absent
                             ELSE text'[f] = text[f]
      BY <2>1, Zenon DEF InDir
    <2> QED BY <2>1, <2>2, <2>3, <2>4, <2>5, <2>6, DirectoryCarries, Zenon
  <1> QED BY <1>1, <1>2, <1>3, <1>4, <1>5, Zenon DEF filesystem

\* A directory that is made anew has an inode that was never seen.
LEMMA InodesFresh ==
  ASSUME FileType, FilesInv, filesystem, NEW d \in Directories, NEW n \in Nat, n # Absent, n <= changes + 1,
         InodeOf(d)' = n
  PROVE  InodeOf(d) = n
  <1>1. CASE inode' = inode
    BY <1>1, Zenon DEF InodeOf
  <1>2. ASSUME NEW c \in Dirs, NEW m, m = Absent \/ m = 1 + (changes + 1), inode' = [inode EXCEPT ![c] = m]
        PROVE  InodeOf(d) = n
    <2>1. m # n
      BY <1>2 DEF FileType
    <2>2. d # c
      BY <1>2, <2>1, TreeAssumption, Zenon DEF InodeOf, FileType
    <2> QED BY <1>2, <2>2, Zenon DEF InodeOf, FileType, Directories
  <1>3. CASE \E c \in Dirs, full \in BOOLEAN : makeDir(c, full)
    BY <1>2, <1>3, Zenon DEF makeDir, change
  <1>4. CASE \E c \in Dirs : removeDir(c)
    BY <1>2, <1>4, Zenon DEF removeDir
  <1>5. CASE (\E f \in Sources, t \in Texts : write(f, t)) \/ (\E f \in Sources : remove(f))
             \/ (\E c \in Dirs : toggleModule(c))
    BY <1>1, <1>5, Zenon DEF write, remove, toggleModule
  <1> QED BY <1>3, <1>4, <1>5, Zenon DEF filesystem

\* A served document stays so through a step that carries it.
LEMMA CarriesServed ==
  ASSUME NEW f \in Sources, Carries(f), CurrentOf(f), TrackedOf(f), UNCHANGED <<documents, explicitPaths>>,
         Covered(f) => Covered(f)', Released(f) => Released(f)'
  PROVE  CurrentOf(f)' /\ TrackedOf(f)'
  <1>1. Watched(f) => Held(f)
    BY Zenon DEF Watched, Held, Live
  <1>2. f \in Retained' <=> f \in Retained
    BY Zenon DEF Retained
  <1>3. CurrentOf(f)'
    BY <1>1, <1>2, Zenon DEF CurrentOf, Carries, Pending
  <1>4. TrackedOf(f)'
    BY <1>2, Zenon DEF TrackedOf, Carries, Pending
  <1> QED BY <1>3, <1>4, Zenon

\* The invariant through a filesystem change, between any two steps of the code.
LEMMA FilesystemKeeps ==
  ASSUME DocumentsInv, filesystem, UNCHANGED <<docVars, closing, op, watch, refreshes, lost>>
  PROVE  DocumentsInv'
  <1>1. FileType' /\ FilesInv' /\ (~closed => \A f \in Sources : Carries(f))
    BY FilesystemCarries, Zenon DEF DocumentsInv
  <1>2. UNCHANGED <<watched, closed>>
    BY Zenon DEF filesystem, write, remove, toggleModule, makeDir, removeDir, change
  <1>3. UNCHANGED <<status, documents, explicitPaths, order, nextDocumentGeneration, closing, op, watch, lost>>
    BY Zenon DEF docVars
  <1>4. DocType' /\ OpType' /\ StatusInv' /\ CallInv'
    BY <1>2, <1>3 DEF DocumentsInv, DocType, OpType, StatusInv, CallInv, NoOp, Operations
  <1>5. /\ registering' <=> registering
        /\ walking' <=> walking
        /\ locating' <=> locating
        /\ adding' = adding
    BY <1>3, Zenon DEF registering, walking, locating, adding
  <1>6. WalkInv' /\ TodoInv' /\ SingleInv' /\ RollbackInv'
    BY <1>2, <1>3, <1>5, Zenon DEF DocumentsInv, WalkInv, TodoInv, SingleInv, RollbackInv, NoOp
  <1>7. RegisteringInv'
    <2> SUFFICES ASSUME op # NoOp, registering PROVE RegisteringInv'
      BY <1>3, <1>5, Zenon DEF RegisteringInv, NoOp
    <2>1. /\ op \in Operations /\ op.taken \subseteq Directories /\ op.seen \in Nat
      BY Zenon DEF DocumentsInv, OpType, Operations
    <2>2. /\ op.then # "none" /\ adding \in op.taken /\ op.seen # Absent /\ op.seen <= changes + 1
          /\ op.kind = "document" => op.taken = {adding}
          /\ op.pc = "check" /\ InodeOf(adding) = op.seen => watched[adding] = op.seen
      BY Zenon DEF DocumentsInv, RegisteringInv
    <2>3. InodeOf(adding)' = op.seen => InodeOf(adding) = op.seen
      <3>1. PICK d \in Directories : d = adding
        BY <2>1, <2>2, Zenon
      <3>2. InodeOf(adding)' = InodeOf(d)' /\ InodeOf(adding) = InodeOf(d)
        BY <1>5, <3>1, Zenon DEF InodeOf
      <3>3. InodeOf(d)' = op.seen => InodeOf(d) = op.seen
        BY <2>1, <2>2, InodesFresh, Zenon DEF DocumentsInv
      <3> QED BY <3>2, <3>3, Zenon
    <2>4. changes' = changes + 1
      BY Zenon DEF filesystem, write, remove, toggleModule, makeDir, removeDir, change
    <2>5. op.seen <= changes' + 1
      BY <2>1, <2>2, <2>4 DEF DocumentsInv, FileType
    <2> QED BY <1>2, <1>3, <1>5, <2>2, <2>3, <2>5, Zenon DEF RegisteringInv
  <1>8. DocumentInv'
    BY <1>3, Zenon DEF DocumentsInv, DocumentInv, IndexFollows, Retained
  <1>9. JustifiedInv'
    BY <1>2, <1>3, Zenon DEF DocumentsInv, JustifiedInv, Justified, NoOp
  <1>10. ASSUME alive PROVE \A f \in Sources : Carries(f)
    BY <1>1, <1>10, Zenon DEF DocumentsInv, StatusInv, alive
  <1>11. OperationInv'
    <2> SUFFICES ASSUME alive', op' # NoOp, NEW f \in Sources PROVE OperationOf(f)'
      BY Zenon DEF OperationInv
    <2>1. alive /\ op # NoOp
      BY <1>3 DEF alive
    <2>2. Carries(f) /\ OperationOf(f)
      BY <1>10, <2>1, Zenon DEF DocumentsInv, OperationInv
    <2>3. ListedOf(f)' /\ FetchedOf(f)' /\ ReadOf(f)'
      BY <1>3, <2>2, Zenon DEF OperationOf, ListedOf, FetchedOf, ReadOf, Carries, Pending
    <2>4. SelectedOf(f)'
      <3>1. Dealt(f)' <=> Dealt(f)
        <4>1. f \in scope(op)' <=> f \in scope(op)
          BY <1>3, Zenon DEF scope
        <4> QED BY <1>3, <1>5, <4>1, Zenon DEF Dealt
      <3> QED BY <1>3, <2>2, <3>1, Zenon DEF OperationOf, SelectedOf, Carries, Pending
    <2>5. AddedOf(f)'
      BY <1>3, <1>5, <2>2, Zenon DEF OperationOf, AddedOf, Carries, Pending
    <2> QED BY <2>3, <2>4, <2>5, Zenon DEF OperationOf
  <1>12. ServedInv'
    <2> SUFFICES ASSUME served', NEW f \in Sources PROVE CurrentOf(f)' /\ TrackedOf(f)'
      BY Zenon DEF ServedInv
    <2>1. served /\ alive
      BY <1>3 DEF served, alive
    <2>2. Carries(f) /\ CurrentOf(f) /\ TrackedOf(f)
      BY <1>10, <2>1, Zenon DEF DocumentsInv, ServedInv
    <2>3. Covered(f) => Covered(f)'
      BY <1>3, Zenon DEF Covered, scope
    <2>4. Released(f) => Released(f)'
      BY <1>3, <1>5, Zenon DEF Released, Taken, NoOp
    <2> QED BY <1>3, <2>2, <2>3, <2>4, CarriesServed, Zenon
  <1> QED BY <1>1, <1>4, <1>6, <1>7, <1>8, <1>9, <1>11, <1>12, Zenon DEF DocumentsInv
-----------------------------------------------------------------------------
\* An operation that ends without publishing, and rolls its watches back.
LEMMA FailKeeps ==
  ASSUME DocumentsInv, op # NoOp, fail, opUnchanged
  PROVE  DocumentsInv'
  <1>1. /\ op' = NoOp /\ closed' = (closed \/ op.by = "open") /\ lost \subseteq lost'
        /\ status' = IF op.by = "open" THEN "failed" ELSE status
        /\ UNCHANGED <<documents, explicitPaths, order, nextDocumentGeneration>>
    BY Zenon DEF fail, setFailed
  <1>2. UNCHANGED <<inode, gomod, text, changes, events, overflow, closing, watch>>
    BY Zenon DEF opUnchanged, fileVars
  <1>3. op \in Operations
    BY Zenon DEF DocumentsInv, OpType
  <1> DEFINE rolled == op.added \cup op.taken
  <1>4. op.by \in {"open", "client", "watch"} /\ rolled \subseteq Directories /\ Root \notin rolled
    BY <1>3, Zenon DEF Operations, DocumentsInv, RollbackInv
  <1>5. watched' = [d \in Directories |-> IF d \in rolled THEN Absent ELSE watched[d]]
    BY Zenon DEF fail, removeDirectories
  <1>6. FileType'
    BY <1>1, <1>2, <1>5, TreeAssumption, Zenon DEF DocumentsInv, FileType
  <1>7. DocType' /\ OpType'
    BY <1>1, <1>2, Zenon DEF DocumentsInv, DocType, OpType
  <1>8. FilesInv'
    <2>1. \A d \in Directories : watched'[d] <= changes' + 1
      BY <1>2, <1>5, TreeAssumption DEF DocumentsInv, FilesInv, FileType
    <2>2. watched'[Root] = 1
      BY <1>4, <1>5, Zenon DEF DocumentsInv, FilesInv, Directories
    <2>3. \A f \in Sources : Exists(f)' <=> Exists(f)
      BY <1>2, Zenon DEF Exists, InodeOf
    <2> QED BY <1>2, <2>1, <2>2, <2>3, Zenon DEF DocumentsInv, FilesInv
  <1>9. StatusInv'
    <2>1. op'.by = "none"
      BY <1>1, Zenon DEF NoOp
    <2> QED BY <1>1, <1>2, <1>4, <2>1, Zenon DEF DocumentsInv, StatusInv
  <1>10. lost' = {} => (op.by = "watch" => closing) /\ \A f \in Retained : DirOf[f] \notin rolled
    BY <1>1, Zenon DEF fail, unwatched, Retained
  <1>11. CallInv' /\ WalkInv' /\ TodoInv' /\ SingleInv' /\ RegisteringInv' /\ RollbackInv' /\ OperationInv'
    <2>1. op' = NoOp'
      BY <1>1, Zenon DEF NoOp
    <2> QED BY <2>1, Zenon DEF CallInv, WalkInv, TodoInv, SingleInv, RegisteringInv, RollbackInv, OperationInv
  <1>12. DocumentInv'
    BY <1>1, <1>4, Zenon DEF DocumentsInv, DocumentInv, IndexFollows, Retained, StatusInv
  <1>13. JustifiedInv'
    <2> SUFFICES ASSUME status' \in {"opening", "ready"}
                 PROVE  \A d \in Excluded : watched'[d] # Absent => Justified(d)'
      BY <1>1, Zenon DEF JustifiedInv, NoOp
    <2>1. status \in {"opening", "ready"}
      BY <1>1, Zenon
    <2> TAKE d \in Excluded
    <2> HAVE watched'[d] # Absent
    <2>2. d \in Directories
      BY TreeAssumption, Zenon DEF Directories
    <2>3. d \notin op.added \cup op.taken /\ watched[d] # Absent
      BY <1>5, <2>2, Zenon
    <2>4. Justified(d)
      BY <2>1, <2>3, Zenon DEF DocumentsInv, JustifiedInv
    <2> QED BY <1>1, <2>4, Zenon DEF Justified
  <1>14. ServedInv'
    <2> SUFFICES ASSUME served', NEW f \in Sources PROVE CurrentOf(f)' /\ TrackedOf(f)'
      BY Zenon DEF ServedInv
    <2>1. status = "ready" /\ ~closing /\ lost = {} /\ lost' = {} /\ op.by # "open"
      BY <1>1, <1>2, Zenon DEF served
    <2>2. op.by = "client" /\ (f \in Retained => DirOf[f] \notin rolled)
      BY <1>4, <1>10, <2>1, Zenon
    <2>3. CurrentOf(f) /\ TrackedOf(f) /\ ~Covered(f)
      BY <2>1, <2>2, Zenon DEF DocumentsInv, ServedInv, served, Covered
    <2>4. AddedOf(f)
      BY <2>1, Zenon DEF DocumentsInv, OperationInv, OperationOf, alive
    <2>5. /\ Announced(f)' <=> Announced(f)
          /\ Remade(f)' <=> Remade(f)
          /\ Exists(f)' <=> Exists(f)
      BY <1>2, Zenon DEF Announced, Remade, Exists, InodeOf
    <2>6. DirOf[f] \in Directories
      BY TreeAssumption, Zenon DEF Directories
    <2>7. watched'[DirOf[f]] = watched[DirOf[f]] => (Watched(f)' <=> Watched(f))
      BY <1>1, <1>2, <2>1, <2>6, Zenon DEF Watched, Live, InodeOf
    <2>8. f \in Retained' <=> f \in Retained
      BY <1>1, Zenon DEF Retained
    <2>9. CASE DirOf[f] \notin rolled
      <3>1. watched'[DirOf[f]] = watched[DirOf[f]] /\ ~Taken(f)
        BY <1>5, <2>6, <2>9, Zenon DEF Taken
      <3>2. ~Released(f) /\ (Held(f) => Held(f)')
        BY <3>1, Zenon DEF Released, Held
      <3> QED BY <1>1, <1>2, <2>3, <2>5, <2>7, <2>8, <3>1, <3>2, Zenon DEF CurrentOf, TrackedOf, Pending
    <2>10. CASE DirOf[f] \in rolled
      <3>1. f \notin Retained
        BY <2>2, <2>10, Zenon
      <3>2. CASE DirOf[f] \in op.added \/ registering
        <4>1. f \in explicitPaths => Pending(f)
          BY <2>1, <2>2, <2>4, <2>10, <3>2, Zenon DEF AddedOf
        <4> QED BY <1>1, <2>5, <2>8, <3>1, <4>1, Zenon DEF CurrentOf, TrackedOf, Pending
      <3>3. CASE DirOf[f] \notin op.added /\ ~registering
        <4>1. watched[DirOf[f]] = Absent
          BY <2>10, <3>3, Zenon DEF DocumentsInv, RollbackInv, registering
        <4>2. watched'[DirOf[f]] = watched[DirOf[f]]
          BY <1>5, <2>6, <4>1, Zenon
        <4> QED BY <1>1, <1>2, <2>3, <2>5, <2>7, <2>8, <3>1, <4>2, Zenon DEF CurrentOf, TrackedOf, Pending
      <3> QED BY <3>2, <3>3, Zenon
    <2> QED BY <2>9, <2>10, Zenon
  <1> QED BY <1>6, <1>7, <1>8, <1>9, <1>11, <1>12, <1>13, <1>14, Zenon DEF DocumentsInv
-----------------------------------------------------------------------------
\* A step of an operation: the same call, nothing published.
SameCall ==
  /\ op' \in Operations
  /\ op'.by = op.by /\ op'.kind = op.kind /\ op'.key = op.key /\ op'.explicit = op.explicit

frame ==
  UNCHANGED <<inode, gomod, text, changes, events, overflow, closing, watch, closed, lost,
              status, documents, explicitPaths, order, nextDocumentGeneration>>

\* The registrations an operation goes on with: its own, or with the directory that
\* addDirectory has watched and checked.
resumes(added, taken) ==
  \/ ~registering /\ added = op.added /\ taken = op.taken
  \/ /\ op.pc = "check" /\ InodeOf(adding) = op.seen
     /\ added = op.added \cup {adding} /\ taken = op.taken \ {adding}

\* The operation with them, otherwise as it is.
Resumes(o) ==
  /\ o \in Operations /\ resumes(o.added, o.taken)
  /\ o.by = op.by /\ o.kind = op.kind /\ o.key = op.key /\ o.explicit = op.explicit
  /\ o.walk = op.walk /\ o.at = op.at /\ o.entries = op.entries /\ o.subs = op.subs
  /\ o.listed = op.listed /\ o.kept = op.kept /\ o.todo = op.todo /\ o.content = op.content

\* What a step keeps that publishes nothing and stays within its call.
LEMMA StepKeeps ==
  ASSUME DocumentsInv, op # NoOp, SameCall, frame, FileType', FilesInv',
         \A f \in Sources : Carries(f) /\ (Released(f) => Released(f)'),
         WalkInv', TodoInv', SingleInv', RegisteringInv', RollbackInv', JustifiedInv', OperationInv'
  PROVE  DocumentsInv'
  <1>1. UNCHANGED <<closing, watch, closed, lost, status, documents, explicitPaths, order, nextDocumentGeneration>>
    BY Zenon DEF frame
  <1>2. DocType' /\ OpType'
    BY <1>1, Zenon DEF DocumentsInv, DocType, OpType, SameCall, Operations
  <1>3. StatusInv' /\ CallInv'
    BY <1>1, Zenon DEF DocumentsInv, StatusInv, CallInv, SameCall, NoOp
  <1>4. DocumentInv'
    BY <1>1, Zenon DEF DocumentsInv, DocumentInv, IndexFollows, Retained
  <1>5. ServedInv'
    <2> SUFFICES ASSUME served', NEW f \in Sources PROVE CurrentOf(f)' /\ TrackedOf(f)'
      BY Zenon DEF ServedInv
    <2>1. served
      BY <1>1, Zenon DEF served
    <2>2. Carries(f) /\ CurrentOf(f) /\ TrackedOf(f) /\ (Released(f) => Released(f)')
      BY <2>1, Zenon DEF DocumentsInv, ServedInv
    <2>3. Covered(f) => Covered(f)'
      BY Zenon DEF Covered, scope, SameCall
    <2> QED BY <1>1, <2>2, <2>3, CarriesServed, Zenon
  <1> QED BY <1>2, <1>3, <1>4, <1>5, Zenon DEF DocumentsInv

\* An excluded directory is still watched only for someone when a step keeps, adds or
\* takes one more directory that is not excluded, or has a selected source.
LEMMA JustifiedStep ==
  ASSUME DocumentsInv, op # NoOp, SameCall, frame, NEW d \in Directories,
         d \in Excluded => Justified(d) \/ (op.kind = "document" /\ op.explicit /\ d = DirOf[op.key]),
         \A c \in Excluded : watched'[c] # Absent => watched[c] # Absent \/ c \in op'.added \cup op'.taken,
         op.added \cup op.taken \subseteq op'.added \cup op'.taken,
         op'.added \cup op'.taken \subseteq op.added \cup op.taken \cup {d},
         op'.kept \subseteq op.kept \cup op.taken \cup {Root, d}
  PROVE  JustifiedInv'
  <1>1. UNCHANGED <<status, explicitPaths>> /\ op' # NoOp'
    BY Idle, Zenon DEF frame, SameCall
  <1> SUFFICES ASSUME status' \in {"opening", "ready"}, NEW c \in Excluded
               PROVE  /\ watched'[c] # Absent => Justified(c)' \/ c \in op'.added \cup op'.taken
                      /\ c \in op'.kept \cup op'.added \cup op'.taken =>
                           Justified(c)' \/ (op'.kind = "document" /\ op'.explicit /\ c = DirOf[op'.key])
    BY <1>1, Zenon DEF JustifiedInv
  <1>2. c # Root
    BY TreeAssumption, Zenon
  <1>3. Justified(c)' <=> Justified(c)
    BY <1>1, Zenon DEF Justified
  <1>4. /\ watched[c] # Absent => Justified(c) \/ c \in op.added \cup op.taken
        /\ c \in op.kept \cup op.added \cup op.taken =>
             Justified(c) \/ (op.kind = "document" /\ op.explicit /\ c = DirOf[op.key])
    BY <1>1, Zenon DEF DocumentsInv, JustifiedInv
  <1>5. watched'[c] # Absent => Justified(c)' \/ c \in op'.added \cup op'.taken
    BY <1>3, <1>4, Zenon
  <1>6. c \in op'.kept \cup op'.added \cup op'.taken => c \in op.kept \cup op.added \cup op.taken \cup {d}
    BY <1>2, Zenon
  <1> QED BY <1>3, <1>4, <1>5, <1>6, Zenon DEF SameCall

\* A step carries every source when it leaves the watches alone.
LEMMA PlainCarries ==
  ASSUME DocumentsInv, op # NoOp, SameCall, frame, watched' = watched, resumes(op'.added, op'.taken),
         NEW f \in Sources
  PROVE  /\ Carries(f) /\ (Announced(f)' <=> Announced(f)) /\ (Remade(f)' <=> Remade(f))
         /\ (Held(f) => Held(f)') /\ (Exists(f)' <=> Exists(f)) /\ (Watched(f)' <=> Watched(f))
  <1>1. UNCHANGED <<inode, text, events, overflow, closed>>
    BY Zenon DEF frame
  <1>2. (Announced(f)' <=> Announced(f)) /\ (Remade(f)' <=> Remade(f))
    BY <1>1, Zenon DEF Announced, Remade
  <1>3. (Exists(f)' <=> Exists(f)) /\ (Watched(f)' <=> Watched(f))
    BY <1>1, Zenon DEF Exists, Watched, Live, InodeOf
  <1>4. Held(f) => Held(f)'
    <2>1. op' # NoOp'
      BY Idle, Zenon DEF SameCall
    <2>2. op.pc = "check" /\ InodeOf(adding) = op.seen => watched[adding] # Absent
      BY Zenon DEF DocumentsInv, RegisteringInv, registering
    <2> QED BY <2>1, <2>2, Zenon DEF Held, Taken, resumes
  <1> QED BY <1>1, <1>2, <1>3, <1>4, Zenon DEF Carries, Pending

\* It does when it replaces or deletes the entry of a directory that is not watched.
LEMMA DeadCarries ==
  ASSUME DocumentsInv, op # NoOp, SameCall, frame, NEW d \in Directories, d # Root, ~Live(d),
         watched' \in [Directories -> Nat], watched'[d] <= changes + 1,
         \A c \in Directories : c # d => watched'[c] = watched[c],
         op.taken \subseteq op'.taken, d \in op'.taken
  PROVE  /\ FileType' /\ FilesInv'
         /\ \A f \in Sources :
              /\ Carries(f) /\ (Announced(f)' <=> Announced(f)) /\ (Remade(f)' <=> Remade(f))
              /\ (Exists(f)' <=> Exists(f))
  <1>1. UNCHANGED <<inode, gomod, text, changes, events, overflow, closed>> /\ op' # NoOp'
    BY Idle, Zenon DEF frame, SameCall
  <1>2. FileType'
    BY <1>1, Zenon DEF DocumentsInv, FileType
  <1>3. ASSUME NEW f \in Sources
        PROVE  /\ Carries(f) /\ (Announced(f)' <=> Announced(f)) /\ (Remade(f)' <=> Remade(f))
               /\ (Exists(f)' <=> Exists(f))
    <2>1. (Announced(f)' <=> Announced(f)) /\ (Remade(f)' <=> Remade(f)) /\ (Exists(f)' <=> Exists(f))
      BY <1>1, Zenon DEF Announced, Remade, Exists, InodeOf
    <2>2. DirOf[f] \in Directories
      BY TreeAssumption, Zenon DEF Directories
    <2>3. CASE DirOf[f] = d
      <3>1. ~Watched(f) /\ Held(f)'
        BY <1>1, <2>3, Zenon DEF Watched, Held, Taken
      <3> QED BY <1>1, <2>1, <3>1, Zenon DEF Carries, Pending
    <2>4. CASE DirOf[f] # d
      <3>1. (Watched(f)' <=> Watched(f)) /\ (Held(f) => Held(f)')
        BY <1>1, <2>2, <2>4, Zenon DEF Watched, Live, InodeOf, Held, Taken
      <3> QED BY <1>1, <2>1, <3>1, Zenon DEF Carries, Pending
    <2> QED BY <2>3, <2>4, Zenon
  <1>4. FilesInv'
    <2>1. \A c \in Directories : watched'[c] <= changes' + 1
      BY <1>1, Zenon DEF DocumentsInv, FilesInv
    <2>2. watched'[Root] = 1
      BY Zenon DEF DocumentsInv, FilesInv, Directories
    <2>3. \A f \in Sources : text'[f] # Absent => Exists(f)'
      BY <1>1, <1>3, Zenon DEF DocumentsInv, FilesInv
    <2> QED BY <1>1, <2>1, <2>2, <2>3, Zenon DEF DocumentsInv, FilesInv
  <1> QED BY <1>2, <1>3, <1>4, Zenon

\* A step that leaves the watches alone, with no addDirectory after it.
LEMMA PlainStep ==
  ASSUME DocumentsInv, op # NoOp, frame, watched' = watched, SameCall,
         resumes(op'.added, op'.taken), ~registering',
         NEW d \in Directories, op'.kept \subseteq op.kept \cup op.taken \cup {Root, d},
         d \in Excluded => Justified(d) \/ (op.kind = "document" /\ op.explicit /\ d = DirOf[op.key]),
         WalkInv', TodoInv', SingleInv',
         alive => \A f \in Sources : ListedOf(f)' /\ FetchedOf(f)' /\ ReadOf(f)' /\ SelectedOf(f)'
  PROVE  DocumentsInv'
  <1>1. UNCHANGED <<inode, gomod, text, changes, events, overflow, closing, closed, lost, status, explicitPaths>>
    BY Zenon DEF frame
  <1>2. op' # NoOp'
    BY Idle, Zenon DEF SameCall
  <1>3. \A f \in Sources : Carries(f) /\ (Announced(f)' <=> Announced(f)) /\ (Remade(f)' <=> Remade(f))
    BY PlainCarries, Zenon
  <1>4. FileType'
    BY <1>1, Zenon DEF DocumentsInv, FileType
  <1>5. FilesInv'
    <2>1. \A f \in Sources : Exists(f)' <=> Exists(f)
      BY PlainCarries, Zenon
    <2> QED BY <1>1, <2>1, Zenon DEF DocumentsInv, FilesInv
  <1>6. op.pc = "check" => registering /\ adding \in op.taken /\ op.seen # Absent
                           /\ (InodeOf(adding) = op.seen => watched[adding] = op.seen)
    BY Zenon DEF DocumentsInv, RegisteringInv, registering
  <1>7. RegisteringInv'
    BY Zenon DEF RegisteringInv
  <1>8. RollbackInv'
    <2>1. /\ Root \notin op.added \cup op.taken
          /\ op.kind = "document" => \A c \in op.added : watched[c] # Absent
          /\ \A c \in op.taken : watched[c] = Absent \/ (op.pc = "check" /\ c = adding)
      BY Zenon DEF DocumentsInv, RollbackInv
    <2>2. CASE ~registering /\ op'.added = op.added /\ op'.taken = op.taken
      BY <2>1, <2>2, Zenon DEF RollbackInv, SameCall, registering
    <2>3. CASE /\ op.pc = "check" /\ InodeOf(adding) = op.seen
               /\ op'.added = op.added \cup {adding} /\ op'.taken = op.taken \ {adding}
      BY <1>6, <2>1, <2>3, Zenon DEF RollbackInv, SameCall
    <2> QED BY <2>2, <2>3, Zenon DEF resumes
  <1>9. JustifiedInv'
    <2>1. op'.added \cup op'.taken = op.added \cup op.taken
      BY <1>6, Zenon DEF resumes
    <2> QED BY <2>1, JustifiedStep, Zenon
  <1>10. OperationInv'
    <2> SUFFICES ASSUME alive', NEW f \in Sources PROVE OperationOf(f)'
      BY Zenon DEF OperationInv
    <2>1. alive
      BY <1>1, Zenon DEF alive
    <2>2. AddedOf(f)
      BY <2>1, Zenon DEF DocumentsInv, OperationInv, OperationOf
    <2>3. DirOf[f] \in op'.added => DirOf[f] \in op.added \/ (registering /\ DirOf[f] \in op.taken)
      BY <1>6, Zenon DEF resumes
    <2>4. AddedOf(f)'
      BY <1>1, <1>3, <2>2, <2>3, Zenon DEF AddedOf, Pending, SameCall
    <2> QED BY <2>1, <2>4, Zenon DEF OperationOf
  <1>11. \A f \in Sources : Released(f) => Released(f)'
    BY <1>2, <1>6, Zenon DEF Released, Taken, SameCall, resumes
  <1> QED BY <1>3, <1>4, <1>5, <1>7, <1>8, <1>9, <1>10, <1>11, StepKeeps, Zenon

\* One that keeps no other directory than the root.
LEMMA RootStep ==
  ASSUME DocumentsInv, op # NoOp, frame, watched' = watched, SameCall,
         resumes(op'.added, op'.taken), ~registering', op'.kept \subseteq op.kept \cup {Root},
         WalkInv', TodoInv', SingleInv',
         alive => \A f \in Sources : ListedOf(f)' /\ FetchedOf(f)' /\ ReadOf(f)' /\ SelectedOf(f)'
  PROVE  DocumentsInv'
  <1>1. Root \in Directories /\ Root \notin Excluded
    BY TreeAssumption, Zenon DEF Directories
  <1>2. op'.kept \subseteq op.kept \cup op.taken \cup {Root, Root}
    BY Zenon
  <1> QED BY <1>1, <1>2, PlainStep, Zenon

\* What an operation has listed, read and dealt with stays accounted for through a step
\* that carries the source.
LEMMA CarriesOperation ==
  ASSUME NEW f \in Sources, Carries(f), frame, OperationOf(f), op.kept \subseteq op'.kept
  PROVE  /\ op'.listed \subseteq op.listed => ListedOf(f)'
         /\ op'.content[f] = op.content[f] => ReadOf(f)'
         /\ op'.content[f] = op.content[f] /\ (Dealt(f)' => Dealt(f)) => SelectedOf(f)'
  <1>1. text' = text
    BY Zenon DEF frame
  <1>2. op'.listed \subseteq op.listed => ListedOf(f)'
    BY <1>1, Zenon DEF OperationOf, ListedOf, Carries, Pending
  <1>3. op'.content[f] = op.content[f] => ReadOf(f)'
    BY <1>1, Zenon DEF OperationOf, ReadOf, Carries, Pending
  <1>4. op'.content[f] = op.content[f] /\ (Dealt(f)' => Dealt(f)) => SelectedOf(f)'
    BY <1>1, Zenon DEF OperationOf, SelectedOf, Carries, Pending
  <1> QED BY <1>2, <1>3, <1>4, Zenon

\* ReadDir of a directory: what it returns is looked at only once it is watched.
LEMMA ListKeeps ==
  ASSUME DocumentsInv, list
  PROVE  DocumentsInv'
  <1>1. op # NoOp /\ op \in Operations /\ op.pc = "list" /\ op.kind = "tree" /\ ~registering
    BY Idle, Zenon DEF list, DocumentsInv, OpType, WalkInv, registering
  <1>2. PICK d \in op.walk :
          IF ~validateWorkspaceDirectory(d) THEN step(walked([op EXCEPT !.walk = @ \ {d}]))
          ELSE step([[op EXCEPT !.walk = @ \ {d}] EXCEPT
              !.pc = "observe", !.at = d,
              !.entries = IF containsGoModule(d) THEN {} ELSE {f \in InDir(d) : text[f] # Absent},
              !.subs = IF d = Root THEN {c \in Dirs : validateWorkspaceDirectory(c)} ELSE {}])
    BY Zenon DEF list
  <1>3. frame /\ watched' = watched
    BY <1>2, Zenon DEF step, docVars, list, opUnchanged, fileVars, frame
  <1>4. d \in Directories
    BY <1>1, Zenon DEF Operations
  <1>5. /\ SameCall /\ op'.added = op.added /\ op'.taken = op.taken /\ op'.kept = op.kept /\ op'.listed = op.listed
        /\ op'.todo = op.todo /\ op'.content = op.content /\ op'.walk = op.walk \ {d}
        /\ \/ d # Root /\ op'.pc \in {"list", "read"}
           \/ /\ op'.pc = "observe" /\ op'.at = d /\ d \notin Excluded
              /\ op'.entries \subseteq InDir(d)
    <2>1. CASE ~validateWorkspaceDirectory(d)
      <3>1. op' = walked([op EXCEPT !.walk = @ \ {d}])
        BY <1>2, <2>1, Zenon DEF step
      <3>2. d # Root
        BY <2>1, Zenon DEF validateWorkspaceDirectory
      <3> QED BY <1>1, <3>1, <3>2, Zenon DEF walked, Operations, SameCall
    <2>2. CASE validateWorkspaceDirectory(d)
      <3>1. op' = [[op EXCEPT !.walk = @ \ {d}] EXCEPT
              !.pc = "observe", !.at = d,
              !.entries = IF containsGoModule(d) THEN {} ELSE {f \in InDir(d) : text[f] # Absent},
              !.subs = IF d = Root THEN {c \in Dirs : validateWorkspaceDirectory(c)} ELSE {}]
        BY <1>2, <2>2, Zenon DEF step
      <3>2. d \notin Excluded
        BY <2>2, TreeAssumption, Zenon DEF validateWorkspaceDirectory, isExcludedDirectory
      <3> QED BY <1>1, <1>4, <3>1, <3>2, Zenon DEF Operations, SameCall, InDir
    <2> QED BY <2>1, <2>2, Zenon
  <1>6. op'.pc \in {"list", "read", "observe"} /\ ~registering' /\ ~locating'
    BY <1>5, Zenon DEF registering, locating
  <1>7. resumes(op'.added, op'.taken) /\ SingleInv'
    BY <1>1, <1>5, Zenon DEF resumes, SingleInv, SameCall
  <1>8. WalkInv'
    BY <1>1, <1>4, <1>5, <1>6, Zenon DEF DocumentsInv, WalkInv, SameCall, walking
  <1>9. TodoInv'
    <2>1. explicitPaths' = explicitPaths
      BY <1>3, Zenon DEF frame
    <2> QED BY <1>1, <1>5, <1>6, <2>1, Zenon DEF DocumentsInv, TodoInv, SameCall
  <1>10. ASSUME alive, NEW f \in Sources PROVE ListedOf(f)' /\ FetchedOf(f)' /\ ReadOf(f)' /\ SelectedOf(f)'
    <2>1. Carries(f) /\ OperationOf(f)
      BY <1>1, <1>3, <1>5, <1>7, <1>10, PlainCarries, Zenon DEF DocumentsInv, OperationInv
    <2>2. ListedOf(f)' /\ ReadOf(f)'
      BY <1>3, <1>5, <2>1, CarriesOperation, Zenon
    <2>3. FetchedOf(f)' /\ SelectedOf(f)'
      BY <1>6, Zenon DEF FetchedOf, SelectedOf, Dealt
    <2> QED BY <2>2, <2>3, Zenon
  <1> QED BY <1>1, <1>3, <1>5, <1>6, <1>7, <1>8, <1>9, <1>10, RootStep, Zenon

\* A listed source that is gone empties the operation, or fails one of the root.
LEMMA VanishedKeeps ==
  ASSUME DocumentsInv, op # NoOp, op.kind = "tree", NEW o, Resumes(o), vanished(o), opUnchanged
  PROVE  DocumentsInv'
  <1>1. CASE op.key = Root
    BY <1>1, FailKeeps, Zenon DEF vanished
  <1>2. CASE op.key # Root
    <2> DEFINE none == [f \in Sources |-> Absent]
    <2>1. /\ o \in Operations /\ resumes(o.added, o.taken)
          /\ o.by = op.by /\ o.kind = op.kind /\ o.key = op.key /\ o.explicit = op.explicit
      BY Zenon DEF Resumes
    <2>2. step(advance([o EXCEPT !.walk = {}, !.listed = {}, !.kept = {}, !.content = none,
                                  !.todo = selected(op, none)]))
      BY <1>2, Zenon DEF vanished
    <2>3. frame /\ watched' = watched
      BY <2>2, Zenon DEF step, docVars, opUnchanged, fileVars, frame
    <2>4. selected(op, none) \subseteq explicitPaths /\ explicitPaths \subseteq Sources
      BY Zenon DEF selected, DocumentsInv, DocType
    <2>5. none \in [Sources -> Nat] /\ \A f \in Sources : none[f] = Absent
      BY TreeAssumption, Zenon
    <2>6. op' = advance([o EXCEPT !.walk = {}, !.listed = {}, !.kept = {}, !.content = none,
                                   !.todo = selected(op, none)])
      BY <2>2, Zenon DEF step
    <2> HIDE DEF none
    <2>7. /\ SameCall /\ op'.added = o.added /\ op'.taken = o.taken /\ op'.kept = {} /\ op'.listed = {}
          /\ op'.todo = selected(op, none) /\ op'.content = none /\ op'.pc \in {"commit", "discover"}
          /\ op'.pc = "commit" => op'.todo = {}
      BY <2>1, <2>4, <2>5, <2>6, Zenon DEF advance, Operations, SameCall
    <2>8. ~registering' /\ ~walking' /\ ~locating' /\ SingleInv'
      BY <2>7, Zenon DEF registering, walking, locating, SingleInv, SameCall
    <2>9. WalkInv'
      BY <1>2, <2>7, <2>8, Zenon DEF WalkInv, SameCall
    <2>10. TodoInv'
      <3>1. explicitPaths' = explicitPaths
        BY <2>3, Zenon DEF frame
      <3> QED BY <2>4, <2>5, <2>7, <2>8, <3>1, Zenon DEF TodoInv, SameCall
    <2>11. ASSUME NEW f \in Sources PROVE ListedOf(f)' /\ FetchedOf(f)' /\ ReadOf(f)' /\ SelectedOf(f)'
      <3>1. ListedOf(f)' /\ FetchedOf(f)' /\ ReadOf(f)'
        BY <2>5, <2>7, Zenon DEF ListedOf, FetchedOf, ReadOf
      <3>2. ~Dealt(f)'
        <4>1. explicitPaths' = explicitPaths
          BY <2>3, Zenon DEF frame
        <4>2. f \in scope(op)' => InSubtree(DirOf[f], op.key)
          BY <2>7, Zenon DEF scope, SameCall
        <4> QED BY <2>5, <2>7, <4>1, <4>2, Zenon DEF Dealt, selected
      <3> QED BY <3>1, <3>2, Zenon DEF SelectedOf
    <2>12. resumes(op'.added, op'.taken) /\ op'.kept \subseteq op.kept \cup {Root}
      BY <2>1, <2>7, Zenon
    <2> QED BY <2>3, <2>7, <2>8, <2>9, <2>10, <2>11, <2>12, RootStep, Zenon
  <1> QED BY <1>1, <1>2, Zenon

\* AddDirectory follows ReadDir: a source is listed only below a directory that is
\* watched by then and in which it was seen again.
LEMMA EnterKeeps ==
  ASSUME DocumentsInv, op # NoOp, walking, NEW o, Resumes(o), alive => Live(op.at), enter(o), opUnchanged
  PROVE  DocumentsInv'
  <1>1. /\ op.kind = "tree" /\ op.at \in Directories \ Excluded /\ op.entries \subseteq InDir(op.at)
        /\ op.key = Root => Root \in op.kept \/ op.at = Root
    BY Zenon DEF DocumentsInv, WalkInv, walking, registering
  <1>2. CASE \E f \in o.entries : text[f] = Absent
    BY <1>1, <1>2, VanishedKeeps, Zenon DEF enter
  <1>3. CASE ~\E f \in o.entries : text[f] = Absent
    <2>1. step(walked([o EXCEPT !.kept = @ \cup {o.at}, !.listed = @ \cup o.entries, !.walk = @ \cup o.subs]))
      BY <1>3, Zenon DEF enter
    <2>2. frame /\ watched' = watched
      BY <2>1, Zenon DEF step, docVars, opUnchanged, fileVars, frame
    <2>3. op' = walked([o EXCEPT !.kept = @ \cup {o.at}, !.listed = @ \cup o.entries, !.walk = @ \cup o.subs])
      BY <2>1, Zenon DEF step
    <2>4. /\ o \in Operations /\ resumes(o.added, o.taken) /\ o.at = op.at
          /\ o.by = op.by /\ o.kind = op.kind /\ o.key = op.key /\ o.explicit = op.explicit
          /\ o.entries = op.entries /\ o.listed = op.listed /\ o.kept = op.kept /\ o.todo = op.todo
          /\ o.content = op.content
      BY Zenon DEF Resumes
    <2>5. /\ op' \in Operations /\ op'.added = o.added /\ op'.taken = o.taken
          /\ op'.by = o.by /\ op'.kind = o.kind /\ op'.key = o.key /\ op'.explicit = o.explicit
          /\ op'.kept = o.kept \cup {o.at} /\ op'.listed = o.listed \cup o.entries
          /\ op'.todo = o.todo /\ op'.content = o.content /\ op'.pc \in {"list", "read"}
      <3>1. /\ o.at \in Directories /\ o.kept \cup {o.at} \subseteq Directories
            /\ o.listed \cup o.entries \subseteq Sources /\ o.walk \cup o.subs \subseteq Directories
        BY <1>1, <2>4, Zenon DEF Operations, Directories
      <3> QED BY <2>3, <2>4, <3>1, Zenon DEF walked, Operations
    <2>6. SameCall /\ resumes(op'.added, op'.taken) /\ ~registering' /\ ~walking' /\ ~locating' /\ SingleInv'
      <3>1. ~registering' /\ ~walking' /\ ~locating'
        BY <2>5, Zenon DEF registering, walking, locating
      <3> QED BY <1>1, <2>4, <2>5, <3>1, Zenon DEF SingleInv, SameCall
    <2>7. WalkInv'
      BY <1>1, <2>4, <2>5, <2>6, Zenon DEF WalkInv
    <2>8. TodoInv'
      <3>1. explicitPaths' = explicitPaths
        BY <2>2, Zenon DEF frame
      <3>2. op'.kind = "tree" /\ op'.todo = op.todo /\ op'.content = op.content /\ op'.pc # "commit"
        BY <1>1, <2>4, <2>5, Zenon
      <3> QED BY <1>1, <2>6, <3>1, <3>2, Zenon DEF DocumentsInv, TodoInv
    <2>9. ASSUME alive, NEW f \in Sources PROVE ListedOf(f)' /\ FetchedOf(f)' /\ ReadOf(f)' /\ SelectedOf(f)'
      <3>1. Carries(f) /\ (Held(f) => Held(f)') /\ (Watched(f)' <=> Watched(f))
        BY <2>2, <2>6, PlainCarries, Zenon
      <3>2. OperationOf(f)
        BY <2>9, Zenon DEF DocumentsInv, OperationInv
      <3>3. ReadOf(f)'
        BY <2>2, <2>4, <2>5, <3>1, <3>2, CarriesOperation, Zenon
      <3>4. text' = text
        BY <2>2, Zenon DEF frame
      <3>5. ListedOf(f)'
        <4>1. CASE f \in op.listed
          BY <2>4, <2>5, <3>1, <3>2, <3>4, <4>1, Zenon DEF OperationOf, ListedOf, Carries, Pending
        <4>2. CASE f \in op.entries
          <5>1. DirOf[f] = op.at /\ text[f] # Absent
            BY <1>1, <1>3, <2>4, <4>2, Zenon DEF InDir
          <5>2. Watched(f) /\ Held(f)
            BY <2>9, <5>1, Zenon DEF Watched, Live, Held
          <5> QED BY <2>4, <2>5, <3>1, <3>4, <5>1, <5>2, Zenon DEF ListedOf
        <4>3. CASE f \notin op.listed \cup op.entries
          BY <2>4, <2>5, <4>3, Zenon DEF ListedOf
        <4> QED BY <4>1, <4>2, <4>3, Zenon
      <3>6. FetchedOf(f)' /\ SelectedOf(f)'
        BY <2>5, <2>6, Zenon DEF FetchedOf, SelectedOf, Dealt
      <3> QED BY <3>3, <3>5, <3>6, Zenon
    <2>10. op'.kept \subseteq op.kept \cup op.taken \cup {Root, op.at}
      BY <2>4, <2>5, Zenon
    <2> QED BY <1>1, <2>2, <2>6, <2>7, <2>8, <2>9, <2>10, PlainStep, Zenon
  <1> QED BY <1>2, <1>3, Zenon

\* addDirectory deletes the entry of a directory that is not watched; from then on it
\* is accounted for as taken.
LEMMA UnwatchKeeps ==
  ASSUME DocumentsInv, op # NoOp, NEW o \in Operations, NEW d \in Directories,
         InodeOf(d) # Absent, addsDirectory(d), unwatch(o, d), opUnchanged,
         o.by = op.by, o.kind = op.kind, o.key = op.key, o.explicit = op.explicit,
         o.listed = op.listed, o.content = op.content, o.added = op.added, o.taken = op.taken,
         op.kept \subseteq o.kept, o.kept \subseteq op.kept \cup {Root},
         \/ op.pc = "observe" /\ o = op /\ d = op.at
         \/ op.pc = "discover" /\ o.at \in op.todo /\ o.todo = op.todo \ {o.at} /\ d = DirOf[o.at],
         d \in Excluded => Justified(d) \/ (op.kind = "document" /\ op.explicit /\ d = DirOf[op.key])
  PROVE  DocumentsInv'
  <1>1. frame /\ op' = registration(o, d) /\ watched' = removeDirectories(watched, {d})
    BY Zenon DEF unwatch, docVars, opUnchanged, fileVars, frame
  <1>2. /\ d # Root /\ ~Live(d) /\ InodeOf(d) \in Nat /\ InodeOf(d) <= changes + 1
    BY Zenon DEF DocumentsInv, FileType, FilesInv, InodeOf, Directories, addsDirectory, Live
  <1>3. /\ op' \in Operations /\ op'.pc = "add" /\ op'.then = op.pc /\ op'.seen = InodeOf(d)
        /\ op'.taken = op.taken \cup {d} /\ op'.added = op.added /\ op'.kept = o.kept
        /\ op'.by = op.by /\ op'.kind = op.kind /\ op'.key = op.key /\ op'.explicit = op.explicit
        /\ op'.listed = op.listed /\ op'.content = op.content
        /\ op'.at = o.at /\ op'.entries = o.entries /\ op'.todo = o.todo
    <2>1. op.taken \cup {d} \subseteq Directories /\ op.pc \in {"observe", "discover"}
      BY Zenon DEF Operations
    <2> QED BY <1>1, <1>2, <2>1, ZenonT(40) DEF registration, Operations
  <1>4. /\ ~registering /\ registering' /\ adding' = d
        /\ walking' <=> op.pc = "observe"
        /\ locating' <=> op.pc = "discover"
    BY <1>3, Zenon DEF registering, adding, walking, locating
  <1>5. SameCall /\ op' # NoOp'
    BY <1>3, Idle, Zenon DEF SameCall
  <1>6. /\ watched' \in [Directories -> Nat] /\ watched'[d] = Absent
        /\ \A c \in Directories : c # d => watched'[c] = watched[c]
    BY <1>1, TreeAssumption, Zenon DEF removeDirectories, DocumentsInv, FileType
  <1>7. /\ FileType' /\ FilesInv'
        /\ \A f \in Sources :
             Carries(f) /\ (Announced(f)' <=> Announced(f)) /\ (Remade(f)' <=> Remade(f))
    <2>1. watched'[d] <= changes + 1
      BY <1>6, NoEntry, Zenon DEF DocumentsInv
    <2>2. op.taken \subseteq op'.taken /\ d \in op'.taken
      BY <1>3, Zenon
    <2> QED BY <1>1, <1>2, <1>5, <1>6, <2>1, <2>2, DeadCarries, Zenon
  <1>8. UNCHANGED <<inode, changes, text, status, closing, lost, explicitPaths>>
    BY <1>1, Zenon DEF frame
  <1>9. op.kind = "document" => /\ op.pc = "discover" /\ op.added = {} /\ op.taken = {} /\ op.listed = {}
                                /\ \A f \in Sources : op.content[f] = Absent
    <2>1. op.pc = "observe" => op.kind = "tree"
      BY Zenon DEF DocumentsInv, WalkInv, walking
    <2> QED BY <1>4, <2>1, Zenon DEF DocumentsInv, SingleInv
  <1>10. op.by = "client" => op.kind = "document"
    BY Zenon DEF DocumentsInv, CallInv
  <1>11. WalkInv'
    <2>1. CASE op.pc = "observe"
      BY <1>2, <1>3, <1>4, <2>1, Zenon DEF DocumentsInv, WalkInv, walking
    <2>2. CASE op.pc = "discover"
      BY <1>3, <1>4, <2>2, Zenon DEF DocumentsInv, WalkInv
    <2> QED BY <2>1, <2>2, Zenon
  <1>12. TodoInv'
    <2>1. op.todo \subseteq Sources
      BY Zenon DEF DocumentsInv, OpType, Operations
    <2>2. /\ op.kind = "tree" => op.todo \subseteq explicitPaths
          /\ op.kind = "document" => op.todo \subseteq {op.key}
          /\ \A f \in op.todo : op.content[f] = Absent
      BY Zenon DEF DocumentsInv, TodoInv
    <2>3. op.kind \in {"tree", "document"} /\ op'.pc # "commit"
      BY <1>3, Zenon DEF Operations
    <2>4. CASE op.pc = "observe"
      BY <1>3, <1>4, <1>8, <2>2, <2>3, <2>4 DEF TodoInv
    <2>5. CASE op.pc = "discover" /\ o.at \in op.todo /\ o.todo = op.todo \ {o.at}
      BY <1>3, <1>8, <2>1, <2>2, <2>3, <2>5, Zenon DEF TodoInv
    <2> QED BY <2>4, <2>5, Zenon
  <1>13. SingleInv'
    BY <1>3, <1>4, <1>9, Zenon DEF SingleInv
  <1>14. RegisteringInv'
    <2>1. op'.pc # "check" /\ op'.then # "none" /\ d \in op'.taken /\ (op.kind = "document" => op'.taken = {d})
      BY <1>3, <1>9, Zenon
    <2> QED BY <1>2, <1>3, <1>4, <1>8, <2>1, Zenon DEF RegisteringInv
  <1>15. RollbackInv'
    <2>1. /\ Root \notin op.added \cup op.taken
          /\ \A c \in op.taken : watched[c] = Absent
      BY <1>4, Zenon DEF DocumentsInv, RollbackInv, registering
    <2>2. op.taken \subseteq Directories
      BY <1>3, Zenon DEF DocumentsInv, OpType, Operations
    <2> QED BY <1>2, <1>3, <1>6, <1>9, <2>1, <2>2, Zenon DEF RollbackInv
  <1>16. JustifiedInv'
    <2>1. Excluded \subseteq Directories
      BY TreeAssumption, Zenon DEF Directories
    <2>2. \A c \in Excluded : watched'[c] # Absent => watched[c] # Absent \/ c \in op'.added \cup op'.taken
      BY <1>6, <2>1, Zenon
    <2> QED BY <1>1, <1>3, <1>5, <2>2, JustifiedStep, Zenon
  <1>17. OperationInv'
    <2> SUFFICES ASSUME alive', NEW f \in Sources PROVE OperationOf(f)'
      BY Zenon DEF OperationInv
    <2>1. alive /\ OperationOf(f) /\ Carries(f)
      BY <1>7, <1>8, Zenon DEF alive, DocumentsInv, OperationInv
    <2>2. ListedOf(f)' /\ ReadOf(f)'
      BY <1>1, <1>3, <2>1, CarriesOperation, Zenon
    <2>3. FetchedOf(f)'
      BY <1>3, Zenon DEF FetchedOf
    <2>4. SelectedOf(f)'
      <3>1. f \in scope(op)' <=> f \in scope(op)
        BY <1>3, Zenon DEF scope
      <3>2. Dealt(f)' => Dealt(f)
        BY <1>3, <1>4, <1>8, <3>1, Zenon DEF Dealt
      <3> QED BY <1>1, <1>3, <2>1, <3>2, CarriesOperation, Zenon
    <2>5. AddedOf(f)'
      <3> SUFFICES ASSUME lost = {}, op.by = "client", f \in explicitPaths,
                          DirOf[f] \in op'.added \cup op'.taken
                   PROVE  Pending(f)
        BY <1>3, <1>7, <1>8, Zenon DEF AddedOf, Pending
      <3>1. DirOf[f] = d /\ ~Released(f)
        BY <1>3, <1>9, <1>10, Zenon DEF Released, Taken
      <3>2. Exists(f) /\ ~Watched(f)
        BY <1>2, <3>1, Zenon DEF Exists, Watched
      <3>3. TrackedOf(f) /\ ~Covered(f)
        BY <2>1, Zenon DEF DocumentsInv, StatusInv, ServedInv, served, alive, Covered
      <3> QED BY <3>1, <3>2, <3>3, Zenon DEF TrackedOf
    <2> QED BY <2>2, <2>3, <2>4, <2>5, Zenon DEF OperationOf
  <1>18. \A f \in Sources : ~Released(f)
    BY <1>9, <1>10, Zenon DEF Released, Taken
  <1> QED BY <1>1, <1>5, <1>7, <1>11, <1>12, <1>13, <1>14, <1>15, <1>16, <1>17, <1>18, StepKeeps, Zenon

\* The walk has the directory it listed watched.
LEMMA ObserveKeeps ==
  ASSUME DocumentsInv, observe
  PROVE  DocumentsInv'
  <1>1. /\ op # NoOp /\ op \in Operations /\ op.pc = "observe" /\ walking /\ ~registering
        /\ op.kind = "tree" /\ op.at \in Directories \ Excluded
    BY Idle, Zenon DEF observe, DocumentsInv, OpType, WalkInv, walking, registering
  <1>2. opUnchanged
    BY Zenon DEF observe
  <1>3. Resumes(op)
    BY <1>1, Zenon DEF Resumes, resumes
  <1>4. CASE closed
    BY <1>1, <1>2, <1>4, FailKeeps, Zenon DEF observe
  <1>5. CASE ~closed /\ workspacePathMissing(op.at)
    <2>1. step(walked(op))
      BY <1>5, Zenon DEF observe
    <2>2. frame /\ watched' = watched
      BY <1>2, <2>1, Zenon DEF step, docVars, opUnchanged, fileVars, frame
    <2>3. op' = walked(op)
      BY <2>1, Zenon DEF step
    <2>4. /\ SameCall /\ op'.added = op.added /\ op'.taken = op.taken /\ op'.kept = op.kept
          /\ op'.listed = op.listed /\ op'.todo = op.todo /\ op'.content = op.content
          /\ op'.pc \in {"list", "read"}
      BY <1>1, <2>3, Zenon DEF walked, Operations, SameCall
    <2>5. op.at # Root
      BY <1>5, TreeAssumption DEF workspacePathMissing, InodeOf
    <2>6. ~registering' /\ ~walking' /\ ~locating'
      BY <2>4, Zenon DEF registering, walking, locating
    <2>7. resumes(op'.added, op'.taken) /\ SingleInv'
      BY <1>1, <2>4, Zenon DEF resumes, SingleInv, SameCall
    <2>8. WalkInv'
      BY <1>1, <2>4, <2>5, <2>6, Zenon DEF DocumentsInv, WalkInv, SameCall
    <2>9. TodoInv'
      <3>1. explicitPaths' = explicitPaths
        BY <2>2, Zenon DEF frame
      <3> QED BY <1>1, <2>4, <2>6, <3>1, Zenon DEF DocumentsInv, TodoInv, SameCall
    <2>10. ASSUME alive, NEW f \in Sources PROVE ListedOf(f)' /\ FetchedOf(f)' /\ ReadOf(f)' /\ SelectedOf(f)'
      <3>1. Carries(f) /\ OperationOf(f)
        BY <1>1, <2>2, <2>4, <2>7, <2>10, PlainCarries, Zenon DEF DocumentsInv, OperationInv
      <3>2. ListedOf(f)' /\ ReadOf(f)'
        BY <2>2, <2>4, <3>1, CarriesOperation, Zenon
      <3>3. FetchedOf(f)' /\ SelectedOf(f)'
        BY <2>4, <2>6, Zenon DEF FetchedOf, SelectedOf, Dealt
      <3> QED BY <3>2, <3>3, Zenon
    <2> QED BY <1>1, <2>2, <2>4, <2>6, <2>7, <2>8, <2>9, <2>10, RootStep, Zenon
  <1>6. CASE ~closed /\ ~workspacePathMissing(op.at) /\ addsDirectory(op.at)
    <2>1. unwatch(op, op.at) /\ InodeOf(op.at) # Absent
      BY <1>6, Zenon DEF observe, workspacePathMissing
    <2> QED BY <1>1, <1>2, <1>6, <2>1, UnwatchKeeps, Zenon
  <1>7. CASE ~closed /\ ~workspacePathMissing(op.at) /\ ~addsDirectory(op.at)
    <2>1. enter(op)
      BY <1>7, Zenon DEF observe
    <2>2. Live(op.at)
      BY <1>7, Zenon DEF workspacePathMissing, addsDirectory, Live
    <2> QED BY <1>1, <1>2, <1>3, <2>1, <2>2, EnterKeeps, Zenon
  <1> QED BY <1>4, <1>5, <1>6, <1>7, Zenon

\* The listed sources are read after their directories are watched.
LEMMA ReadKeeps ==
  ASSUME DocumentsInv, read
  PROVE  DocumentsInv'
  <1>1. op # NoOp /\ op \in Operations /\ op.pc = "read" /\ op.kind = "tree" /\ ~registering
    BY Idle, Zenon DEF read, DocumentsInv, OpType, WalkInv, registering
  <1>2. opUnchanged
    BY Zenon DEF read
  <1> DEFINE content == [f \in Sources |-> IF f \in op.listed THEN newDocument(text[f]) ELSE Absent]
  <1>3. CASE vanished(op)
    <2>1. Resumes(op)
      BY <1>1, Zenon DEF Resumes, resumes
    <2> QED BY <1>1, <1>2, <1>3, <2>1, VanishedKeeps, Zenon
  <1>4. CASE step(advance([op EXCEPT !.content = content, !.todo = selected(op, content)]))
    <2>1. frame /\ watched' = watched
      BY <1>2, <1>4, Zenon DEF step, docVars, opUnchanged, fileVars, frame
    <2>2. selected(op, content) \subseteq explicitPaths /\ explicitPaths \subseteq Sources
      BY Zenon DEF selected, DocumentsInv, DocType
    <2>3. /\ content \in [Sources -> Nat]
          /\ \A f \in Sources : content[f] # Absent =>
               f \in op.listed /\ (text[f] # Absent => content[f] = text[f])
      BY TreeAssumption, DocumentsAssumption, Zenon DEF newDocument, DocumentsInv, FileType
    <2>4. op' = advance([op EXCEPT !.content = content, !.todo = selected(op, content)])
      BY <1>4, Zenon DEF step
    <2> HIDE DEF content
    <2>5. /\ SameCall /\ op'.added = op.added /\ op'.taken = op.taken /\ op'.kept = op.kept /\ op'.listed = op.listed
          /\ op'.todo = selected(op, content) /\ op'.content = content /\ op'.pc \in {"commit", "discover"}
          /\ op'.pc = "commit" => op'.todo = {}
      BY <1>1, <2>2, <2>3, <2>4, Zenon DEF advance, Operations, SameCall
    <2>6. ~registering' /\ ~walking' /\ ~locating'
      BY <2>5, Zenon DEF registering, walking, locating
    <2>7. resumes(op'.added, op'.taken) /\ SingleInv'
      BY <1>1, <2>5, Zenon DEF resumes, SingleInv, SameCall
    <2>8. WalkInv'
      BY <1>1, <2>5, <2>6, Zenon DEF DocumentsInv, WalkInv, SameCall
    <2>9. explicitPaths' = explicitPaths /\ text' = text
      BY <2>1, Zenon DEF frame
    <2>10. TodoInv'
      BY <1>1, <2>2, <2>5, <2>6, <2>9, Zenon DEF TodoInv, SameCall, selected
    <2>11. ASSUME alive, NEW f \in Sources PROVE ListedOf(f)' /\ FetchedOf(f)' /\ ReadOf(f)' /\ SelectedOf(f)'
      <3>1. /\ Carries(f) /\ (Announced(f)' <=> Announced(f)) /\ (Remade(f)' <=> Remade(f))
            /\ (Held(f) => Held(f)') /\ (Watched(f)' <=> Watched(f))
        BY <1>1, <2>1, <2>5, <2>7, PlainCarries, Zenon
      <3>2. OperationOf(f)
        BY <1>1, <2>11, Zenon DEF DocumentsInv, OperationInv
      <3>3. ListedOf(f)'
        BY <2>1, <2>5, <3>1, <3>2, CarriesOperation, Zenon
      <3>4. FetchedOf(f)'
        BY <2>5, Zenon DEF FetchedOf
      <3>5. ReadOf(f)'
        BY <2>3, <2>5, <2>9, <3>1, <3>2, Zenon DEF OperationOf, ListedOf, ReadOf, Pending
      <3>6. SelectedOf(f)'
        <4>1. Dealt(f)' => content[f] # Absent
          <5>1. f \in scope(op)' => InSubtree(DirOf[f], op.key)
            BY <1>1, <2>5, Zenon DEF scope, SameCall
          <5> QED BY <2>5, <2>9, <5>1, Zenon DEF Dealt, selected
        <4> QED BY <2>5, <3>5, <4>1, Zenon DEF SelectedOf, ReadOf
      <3> QED BY <3>3, <3>4, <3>5, <3>6, Zenon
    <2> QED BY <1>1, <2>1, <2>5, <2>6, <2>7, <2>8, <2>10, <2>11, RootStep, Zenon
  <1> QED BY <1>3, <1>4, Zenon DEF read

\* A single source is about to be read where its directory is watched.
LEMMA LocateKeeps ==
  ASSUME DocumentsInv, op # NoOp, opUnchanged, NEW f \in Sources, NEW o \in Operations, o.at = f,
         resumes(o.added, o.taken), step(locate(o)), alive => Live(DirOf[f]),
         o.by = op.by, o.kind = op.kind, o.key = op.key, o.explicit = op.explicit,
         o.listed = op.listed, o.content = op.content,
         op.kept \subseteq o.kept, o.kept \subseteq op.kept \cup {Root},
         \/ op.pc = "discover" /\ f \in op.todo /\ o.todo = op.todo \ {f}
         \/ registering /\ op.then = "discover" /\ op.at = f /\ o.todo = op.todo,
         \/ DirOf[f] \in op.taken
         \/ DirOf[f] \in Excluded =>
              Justified(DirOf[f]) \/ (op.kind = "document" /\ op.explicit /\ DirOf[f] = DirOf[op.key])
  PROVE  DocumentsInv'
  <1>1. frame /\ watched' = watched /\ op' = locate(o)
    BY Zenon DEF step, docVars, opUnchanged, fileVars, frame
  <1>2. DirOf[f] \in Directories /\ op \in Operations
    BY TreeAssumption, Zenon DEF Directories, DocumentsInv, OpType
  <1>3. /\ op' \in Operations /\ op'.pc = "fetch" /\ op'.at = f
        /\ op'.added = o.added /\ op'.taken = o.taken /\ op'.kept = o.kept \cup {DirOf[f]}
        /\ op'.by = op.by /\ op'.kind = op.kind /\ op'.key = op.key /\ op'.explicit = op.explicit
        /\ op'.listed = op.listed /\ op'.content = op.content /\ op'.todo = o.todo
    <2>1. o.kept \cup {DirOf[f]} \subseteq Directories
      BY <1>2, Zenon DEF Operations
    <2> QED BY <1>1, <2>1, ZenonT(40) DEF locate, Operations
  <1>4. SameCall /\ ~registering' /\ ~walking' /\ locating' /\ resumes(op'.added, op'.taken)
    BY <1>3, Zenon DEF SameCall, registering, walking, locating
  <1>5. UNCHANGED <<text, explicitPaths>>
    BY <1>1, Zenon DEF frame
  <1>6. WalkInv'
    <2>1. op.kind = "tree" /\ op.key = Root => Root \in op.kept
      BY Zenon DEF DocumentsInv, WalkInv, registering
    <2> QED BY <1>3, <1>4, <2>1, Zenon DEF WalkInv
  <1>7. /\ op.content[f] = Absent /\ f \notin o.todo /\ o.todo \subseteq op.todo
        /\ \A g \in Sources : g \notin o.todo /\ g # f => g \notin op.todo
        /\ IF op.kind = "tree" THEN f \in explicitPaths ELSE f = op.key
    <2>1. CASE op.pc = "discover" /\ f \in op.todo /\ o.todo = op.todo \ {f}
      BY <1>2, <2>1, Zenon DEF DocumentsInv, TodoInv, Operations
    <2>2. CASE registering /\ op.then = "discover" /\ op.at = f /\ o.todo = op.todo
      BY <2>2, Zenon DEF DocumentsInv, TodoInv, locating
    <2> QED BY <2>1, <2>2, Zenon
  <1>8. TodoInv'
    <2>1. /\ op.kind = "tree" => op.todo \subseteq explicitPaths
          /\ op.kind = "document" => op.todo \subseteq {op.key}
          /\ \A g \in op.todo : op.content[g] = Absent
      BY Zenon DEF DocumentsInv, TodoInv
    <2>2. op'.pc # "commit"
      BY <1>3, Zenon
    <2> QED BY <1>3, <1>5, <1>7, <2>1, <2>2, Zenon DEF TodoInv
  <1>9. SingleInv'
    <2> SUFFICES ASSUME op.kind = "document"
                 PROVE  /\ op.listed = {} /\ o.taken = {}
                        /\ \A g \in Sources : op.content[g] = Absent
      BY <1>3, Zenon DEF SingleInv
    <2>1. op.listed = {} /\ (op.pc \in {"discover", "add", "check"} => \A g \in Sources : op.content[g] = Absent)
      BY Zenon DEF DocumentsInv, SingleInv
    <2>2. op.pc \in {"discover", "add", "check"}
      BY Zenon DEF registering
    <2>3. registering => op.taken = {adding}
      BY Zenon DEF DocumentsInv, RegisteringInv
    <2>4. op.pc = "check" => registering
      BY Zenon DEF registering
    <2>5. ~registering => op.taken = {}
      BY <2>2, Zenon DEF DocumentsInv, SingleInv, registering
    <2>6. o.taken = {}
      BY <2>3, <2>4, <2>5, Zenon DEF resumes
    <2> QED BY <2>1, <2>2, <2>6, Zenon
  <1>10. ASSUME alive, NEW g \in Sources PROVE ListedOf(g)' /\ FetchedOf(g)' /\ ReadOf(g)' /\ SelectedOf(g)'
    <2>1. Carries(g) /\ (Held(g) => Held(g)') /\ (Watched(g)' <=> Watched(g)) /\ OperationOf(g)
      BY <1>1, <1>4, <1>10, PlainCarries, Zenon DEF DocumentsInv, OperationInv
    <2>2. op.kept \subseteq op'.kept /\ DirOf[f] \in op'.kept
      BY <1>3, Zenon
    <2>3. ListedOf(g)' /\ ReadOf(g)'
      BY <1>1, <1>3, <2>1, <2>2, CarriesOperation, Zenon
    <2>4. FetchedOf(g)'
      <3>1. g = f => Watched(g) /\ Held(g)
        BY <1>10, Zenon DEF Watched, Held, Live
      <3> QED BY <1>3, <2>1, <2>2, <3>1, Zenon DEF FetchedOf
    <2>5. SelectedOf(g)'
      <3>1. g \in scope(op)' <=> g \in scope(op)
        BY <1>3, Zenon DEF scope
      <3>2. op.pc \in {"discover", "commit"} \/ (locating /\ op.at = f)
        BY Zenon DEF locating
      <3>3. Dealt(g)' => Dealt(g)
        BY <1>3, <1>5, <1>7, <3>1, <3>2, Zenon DEF Dealt
      <3> QED BY <1>1, <1>3, <2>1, <2>2, <3>3, CarriesOperation, Zenon
    <2> QED BY <2>3, <2>4, <2>5, Zenon
  <1>11. PICK d \in Directories :
           /\ op'.kept \subseteq op.kept \cup op.taken \cup {Root, d}
           /\ d \in Excluded => Justified(d) \/ (op.kind = "document" /\ op.explicit /\ d = DirOf[op.key])
    <2>1. CASE DirOf[f] \in op.taken
      <3>1. Root \in Directories /\ Root \notin Excluded
        BY TreeAssumption, Zenon DEF Directories
      <3>2. op'.kept \subseteq op.kept \cup op.taken \cup {Root, Root}
        BY <1>3, <2>1, Zenon
      <3> QED BY <3>1, <3>2, Zenon
    <2>2. CASE DirOf[f] \notin op.taken
      <3>1. op'.kept \subseteq op.kept \cup op.taken \cup {Root, DirOf[f]}
        BY <1>3, Zenon
      <3> QED BY <1>2, <2>2, <3>1, Zenon
    <2> QED BY <2>1, <2>2, Zenon
  <1> QED BY <1>1, <1>4, <1>6, <1>8, <1>9, <1>10, <1>11, PlainStep, Zenon

\* A single source has its directory watched before it is read.
LEMMA DiscoverKeeps ==
  ASSUME DocumentsInv, discover
  PROVE  DocumentsInv'
  <1>1. op # NoOp /\ op \in Operations /\ op.pc = "discover" /\ ~registering
    BY Idle, Zenon DEF discover, DocumentsInv, OpType, registering
  <1>2. opUnchanged
    BY Zenon DEF discover
  <1>3. PICK f \in op.todo :
          LET o == [op EXCEPT !.todo = @ \ {f}, !.kept = @ \cup {Root}]
          IN  IF closed THEN fail
              ELSE IF ~validateDocumentAncestors(f) THEN step(advance(o))
              ELSE IF addsDirectory(DirOf[f]) THEN unwatch([o EXCEPT !.at = f], DirOf[f])
              ELSE step(locate([o EXCEPT !.at = f]))
    BY Zenon DEF discover
  <1>4. f \in Sources /\ DirOf[f] \in Directories /\ op.content[f] = Absent
    BY <1>1, TreeAssumption, Zenon DEF Operations, Directories, DocumentsInv, TodoInv
  <1>5. IF op.kind = "tree" THEN f \in explicitPaths ELSE f = op.key
    BY <1>1, Zenon DEF Operations, DocumentsInv, TodoInv
  <1>6. CASE closed
    BY <1>1, <1>2, <1>3, <1>6, FailKeeps, Zenon
  <1>7. CASE ~closed /\ ~validateDocumentAncestors(f)
    <2>1. step(advance([op EXCEPT !.todo = @ \ {f}, !.kept = @ \cup {Root}]))
      BY <1>3, <1>7, Zenon
    <2>2. frame /\ watched' = watched
      BY <1>2, <2>1, Zenon DEF step, docVars, opUnchanged, fileVars, frame
    <2>3. op' = advance([op EXCEPT !.todo = @ \ {f}, !.kept = @ \cup {Root}])
      BY <2>1, Zenon DEF step
    <2>4. /\ SameCall /\ op'.added = op.added /\ op'.taken = op.taken /\ op'.listed = op.listed
          /\ op'.kept = op.kept \cup {Root}
          /\ op'.todo = op.todo \ {f} /\ op'.content = op.content /\ op'.pc \in {"commit", "discover"}
          /\ op'.pc = "commit" => op'.todo = {}
      <3>1. op.todo \ {f} \subseteq Sources /\ op.kept \cup {Root} \subseteq Directories
        BY <1>1, Zenon DEF Operations, Directories
      <3>2. op' = [op EXCEPT !.todo = op.todo \ {f}, !.kept = op.kept \cup {Root},
                            !.pc = IF op.todo \ {f} = {} THEN "commit" ELSE "discover"]
        BY <1>1, <2>3, Zenon DEF advance, Operations
      <3>3. op'.pc \in {"commit", "discover"} /\ (op'.pc = "commit" => op.todo \ {f} = {})
        BY <1>1, <3>2, Zenon DEF Operations
      <3> QED BY <1>1, <3>1, <3>2, <3>3, ZenonT(40) DEF Operations, SameCall
    <2>5. ~registering' /\ ~walking' /\ ~locating' /\ resumes(op'.added, op'.taken)
      BY <1>1, <2>4, Zenon DEF registering, walking, locating, resumes
    <2>6. WalkInv'
      BY <1>1, <2>4, <2>5, Zenon DEF WalkInv, SameCall
    <2>7. explicitPaths' = explicitPaths /\ text' = text
      BY <2>2, Zenon DEF frame
    <2>8. TodoInv'
      BY <1>1, <2>4, <2>5, <2>7, Zenon DEF DocumentsInv, TodoInv, SameCall
    <2>9. SingleInv'
      <3>1. op.kind = "document" => /\ op.listed = {} /\ op.added = {} /\ op.taken = {}
                                    /\ \A g \in Sources : op.content[g] = Absent
        BY <1>1, Zenon DEF DocumentsInv, SingleInv
      <3> QED BY <2>4, <3>1, Zenon DEF SingleInv, SameCall
    <2>10. f \in explicitPaths => ~Exists(f) /\ text[f] = Absent
      <3>1. f \in explicitPaths => ~Exists(f)
        BY <1>7, Zenon DEF validateDocumentAncestors, Selected, workspacePathMissing, Exists
      <3> QED BY <1>4, <3>1, Zenon DEF DocumentsInv, FilesInv
    <2>11. ASSUME alive, NEW g \in Sources PROVE ListedOf(g)' /\ FetchedOf(g)' /\ ReadOf(g)' /\ SelectedOf(g)'
      <3>1. Carries(g) /\ (Exists(g)' <=> Exists(g)) /\ OperationOf(g)
        BY <1>1, <2>2, <2>4, <2>5, <2>11, PlainCarries, Zenon DEF DocumentsInv, OperationInv
      <3>2. FetchedOf(g)'
        BY <2>4, Zenon DEF FetchedOf
      <3>3. ListedOf(g)' /\ ReadOf(g)'
        BY <2>2, <2>4, <3>1, CarriesOperation, Zenon
      <3>4. SelectedOf(g)'
        <4>1. CASE g = f
          BY <1>4, <2>4, <2>7, <2>10, <3>1, <4>1, Zenon DEF SelectedOf, Dealt
        <4>2. CASE g # f
          <5>1. Dealt(g)' => Dealt(g)
            <6>1. g \in scope(op)' <=> g \in scope(op)
              BY <2>4, Zenon DEF scope, SameCall
            <6> QED BY <1>1, <2>4, <2>7, <4>2, <6>1, Zenon DEF Dealt
          <5> QED BY <2>2, <2>4, <3>1, <5>1, CarriesOperation, Zenon
        <4> QED BY <4>1, <4>2, Zenon
      <3> QED BY <3>2, <3>3, <3>4, Zenon
    <2> QED BY <1>1, <2>2, <2>4, <2>5, <2>6, <2>8, <2>9, <2>11, RootStep, Zenon
  <1>8. CASE ~closed /\ validateDocumentAncestors(f)
    <2> DEFINE o == [[op EXCEPT !.todo = @ \ {f}, !.kept = @ \cup {Root}] EXCEPT !.at = f]
    <2>1. IF addsDirectory(DirOf[f]) THEN unwatch(o, DirOf[f]) ELSE step(locate(o))
      BY <1>3, <1>8, Zenon
    <2>2. /\ o \in Operations /\ o.at = f /\ o.todo = op.todo \ {f} /\ o.kept = op.kept \cup {Root}
          /\ o.by = op.by /\ o.kind = op.kind /\ o.key = op.key /\ o.explicit = op.explicit
          /\ o.listed = op.listed /\ o.content = op.content /\ o.added = op.added /\ o.taken = op.taken
      <3>1. op.todo \ {f} \subseteq Sources /\ op.kept \cup {Root} \subseteq Directories
        BY <1>1, Zenon DEF Operations, Directories
      <3> QED BY <1>1, <1>4, <3>1, ZenonT(40) DEF Operations
    <2> HIDE DEF o
    <2>3. InodeOf(DirOf[f]) # Absent
      BY <1>8, Zenon DEF validateDocumentAncestors, workspacePathMissing
    <2>4. DirOf[f] \in Excluded =>
            Justified(DirOf[f]) \/ (op.kind = "document" /\ op.explicit /\ DirOf[f] = DirOf[op.key])
      <3>1. DirOf[f] \in Excluded => op.explicit \/ f \in explicitPaths
        BY <1>8, Zenon DEF validateDocumentAncestors, isExcludedDirectory, Selected
      <3>2. op.explicit => op.kind = "document"
        BY <1>1, Zenon DEF DocumentsInv, CallInv, Operations
      <3>3. f \in explicitPaths => Justified(DirOf[f])
        BY Zenon DEF Justified
      <3> QED BY <1>5, <3>1, <3>2, <3>3, Zenon
    <2>5. op.kept \subseteq o.kept /\ o.kept \subseteq op.kept \cup {Root}
      BY <2>2, Zenon
    <2>6. CASE addsDirectory(DirOf[f])
      <3>1. unwatch(o, DirOf[f])
        BY <2>1, <2>6, Zenon
      <3>2. op.pc = "discover" /\ o.at \in op.todo /\ o.todo = op.todo \ {o.at} /\ DirOf[f] = DirOf[o.at]
        BY <1>1, <2>2, Zenon
      <3> QED BY <1>1, <1>2, <1>4, <2>2, <2>3, <2>4, <2>5, <2>6, <3>1, <3>2, UnwatchKeeps, Zenon
    <2>7. CASE ~addsDirectory(DirOf[f])
      <3>1. step(locate(o)) /\ Live(DirOf[f])
        BY <1>8, <2>1, <2>3, <2>7, Zenon DEF addsDirectory, Live
      <3>2. resumes(o.added, o.taken)
        BY <1>1, <2>2, Zenon DEF resumes
      <3> QED BY <1>1, <1>2, <1>4, <2>2, <2>4, <2>5, <3>1, <3>2, LocateKeeps, Zenon
    <2> QED BY <2>6, <2>7, Zenon
  <1> QED BY <1>6, <1>7, <1>8, Zenon

\* A source read on its own is current, or its event is pending.
LEMMA FetchKeeps ==
  ASSUME DocumentsInv, fetch
  PROVE  DocumentsInv'
  <1>1. /\ op # NoOp /\ op \in Operations /\ op.pc = "fetch" /\ op.at \in Sources \ op.todo
        /\ locating /\ ~registering
    BY Idle, Zenon DEF fetch, DocumentsInv, OpType, TodoInv, locating, registering
  <1> DEFINE f == op.at
  <1>2. PICK t \in readDiscoveredDocument(f) : step(advance([op EXCEPT !.content[f] = t]))
    BY Zenon DEF fetch
  <1>3. frame /\ watched' = watched
    BY <1>2, Zenon DEF step, docVars, opUnchanged, fileVars, frame, fetch
  <1>4. /\ t = text[f] \/ t = Absent
        /\ t # text[f] => Announced(f) \/ f \notin explicitPaths
    BY Zenon DEF readDiscoveredDocument, Selected, Announced
  <1>5. t \in Nat
    <2>1. text \in [Sources -> Nat]
      BY Zenon DEF DocumentsInv, FileType
    <2>2. text[f] \in Nat /\ Absent \in Nat
      BY <1>1, <2>1, TreeAssumption, Zenon
    <2> QED BY <1>4, <2>2, Zenon
  <1>6. op' = advance([op EXCEPT !.content[f] = t])
    BY <1>2, Zenon DEF step
  <1>7. /\ SameCall /\ op'.added = op.added /\ op'.taken = op.taken /\ op'.kept = op.kept /\ op'.listed = op.listed
        /\ op'.todo = op.todo /\ op'.content = [op.content EXCEPT ![f] = t]
        /\ op'.pc \in {"commit", "discover"}
        /\ op'.pc = "commit" => op'.todo = {}
    BY <1>1, <1>5, <1>6, Zenon DEF advance, Operations, SameCall
  <1>8. op'.content[f] = t /\ \A g \in Sources : g # f => op'.content[g] = op.content[g]
    BY <1>1, <1>7, Zenon DEF Operations
  <1>9. ~registering' /\ ~walking' /\ ~locating' /\ resumes(op'.added, op'.taken)
    BY <1>1, <1>7, Zenon DEF registering, walking, locating, resumes
  <1>10. WalkInv'
    BY <1>1, <1>7, <1>9, Zenon DEF DocumentsInv, WalkInv, SameCall
  <1>11. explicitPaths' = explicitPaths /\ text' = text
    BY <1>3, Zenon DEF frame
  <1>12. TodoInv'
    <2>1. op.todo \subseteq Sources
      BY <1>1, Zenon DEF Operations
    <2> QED BY <1>1, <1>7, <1>8, <1>9, <1>11, <2>1, Zenon DEF DocumentsInv, TodoInv, SameCall
  <1>13. SingleInv'
    <2>1. op.kind = "document" => op.listed = {} /\ op.taken = {} /\ op'.pc = "commit"
      <3>1. op.kind = "document" => op.listed = {} /\ op.taken = {}
        BY <1>1, Zenon DEF DocumentsInv, SingleInv
      <3>2. op.kind = "document" => op.todo = {}
        BY <1>1, Zenon DEF DocumentsInv, TodoInv
      <3>3. op.todo = {} => op'.pc = "commit"
        BY <1>1, <1>6, Zenon DEF advance, Operations
      <3> QED BY <3>1, <3>2, <3>3, Zenon
    <2> QED BY <1>7, <2>1, Zenon DEF SingleInv, SameCall
  <1>14. ASSUME alive, NEW g \in Sources PROVE ListedOf(g)' /\ FetchedOf(g)' /\ ReadOf(g)' /\ SelectedOf(g)'
    <2>1. /\ Carries(g) /\ (Announced(g)' <=> Announced(g)) /\ (Remade(g)' <=> Remade(g))
          /\ (Held(g) => Held(g)') /\ (Watched(g)' <=> Watched(g))
      BY <1>1, <1>3, <1>7, <1>9, PlainCarries, Zenon
    <2>2. OperationOf(g)
      BY <1>1, <1>14, Zenon DEF DocumentsInv, OperationInv
    <2>3. ListedOf(g)'
      BY <1>3, <1>7, <2>1, <2>2, CarriesOperation, Zenon
    <2>4. FetchedOf(g)'
      BY <1>7, Zenon DEF FetchedOf
    <2>5. CASE g # f
      <3>1. Dealt(g)' => Dealt(g)
        <4>1. g \in scope(op)' <=> g \in scope(op)
          BY <1>7, Zenon DEF scope, SameCall
        <4> QED BY <1>1, <1>7, <1>11, <2>5, <4>1, Zenon DEF Dealt
      <3>2. ReadOf(g)' /\ SelectedOf(g)'
        BY <1>3, <1>7, <1>8, <2>1, <2>2, <2>5, <3>1, CarriesOperation, Zenon
      <3> QED BY <2>3, <2>4, <3>2, Zenon
    <2>6. CASE g = f
      <3>1. /\ DirOf[g] \in op'.kept /\ Held(g)'
            /\ Pending(g)' \/ Watched(g)'
        BY <1>1, <1>7, <2>1, <2>2, <2>6, Zenon DEF OperationOf, FetchedOf, Pending
      <3>2. ReadOf(g)'
        BY <1>4, <1>8, <1>11, <2>6, <3>1, Zenon DEF ReadOf
      <3>3. SelectedOf(g)'
        BY <1>4, <1>8, <1>11, <2>1, <2>6, <3>1, Zenon DEF SelectedOf, Dealt, Pending
      <3> QED BY <2>3, <2>4, <3>2, <3>3, Zenon
    <2> QED BY <2>5, <2>6, Zenon
  <1>15. op'.kept \subseteq op.kept \cup {Root}
    BY <1>7, Zenon
  <1> QED BY <1>1, <1>3, <1>7, <1>9, <1>10, <1>12, <1>13, <1>14, <1>15, RootStep, Zenon
-----------------------------------------------------------------------------
\* addDirectory finds the directory gone: it has no entry, and no source exists in it.
LEMMA NotFoundKeeps ==
  ASSUME DocumentsInv, op # NoOp, registering, InodeOf(adding) = Absent, notFound, opUnchanged
  PROVE  DocumentsInv'
  <1>1. /\ op \in Operations /\ op.then \in {"observe", "discover"} /\ adding \in op.taken
        /\ op.pc \notin {"list", "observe", "read", "discover", "fetch", "commit"}
    BY Zenon DEF DocumentsInv, OpType, RegisteringInv, registering, Operations
  <1>2. PICK d : d = adding
    BY Zenon
  <1>3. d \in Directories /\ d # Root /\ d \in op.taken /\ ~Live(d)
    BY <1>1, <1>2, Zenon DEF DocumentsInv, RollbackInv, Operations, Live
  <1>4. frame /\ watched' = removeDirectories(watched, {d})
    BY <1>2, Zenon DEF notFound, docVars, opUnchanged, fileVars, frame
  <1>5. op' = IF op.then = "observe" THEN walked(registered(op)) ELSE advance(registered(op))
    BY Zenon DEF notFound
  <1>6. /\ op' \in Operations
        /\ op'.by = op.by /\ op'.kind = op.kind /\ op'.key = op.key /\ op'.explicit = op.explicit
        /\ op'.added = op.added /\ op'.taken = op.taken /\ op'.kept = op.kept /\ op'.listed = op.listed
        /\ op'.todo = op.todo /\ op'.content = op.content
        /\ op'.pc = IF op.then = "observe" THEN (IF op.walk = {} THEN "read" ELSE "list")
                    ELSE IF op.todo = {} THEN "commit" ELSE "discover"
    <2>1. Absent \in Nat
      BY TreeAssumption
    <2>2. /\ registered(op) \in Operations
          /\ registered(op).by = op.by /\ registered(op).kind = op.kind /\ registered(op).key = op.key
          /\ registered(op).explicit = op.explicit /\ registered(op).added = op.added
          /\ registered(op).taken = op.taken /\ registered(op).kept = op.kept
          /\ registered(op).listed = op.listed /\ registered(op).todo = op.todo
          /\ registered(op).content = op.content /\ registered(op).walk = op.walk
      BY <1>1, <2>1, ZenonT(40) DEF registered, Operations
    <2>3. CASE op.then = "observe"
      BY <1>5, <2>2, <2>3, ZenonT(40) DEF walked, Operations
    <2>4. CASE op.then # "observe"
      BY <1>5, <2>2, <2>4, ZenonT(40) DEF advance, Operations
    <2> QED BY <2>3, <2>4, Zenon
  <1>7. SameCall /\ op' # NoOp'
    BY <1>6, Idle, Zenon DEF SameCall
  <1>8. ~registering' /\ ~walking' /\ ~locating'
    BY <1>6, Zenon DEF registering, walking, locating
  <1>9. /\ watched' \in [Directories -> Nat] /\ watched'[d] = Absent
        /\ \A c \in Directories : c # d => watched'[c] = watched[c]
    <2>1. watched \in [Directories -> Nat] /\ Absent \in Nat
      BY TreeAssumption DEF DocumentsInv, FileType
    <2> QED BY <1>3, <1>4, <2>1, Zenon DEF removeDirectories
  <1>10. /\ FileType' /\ FilesInv'
         /\ \A f \in Sources : /\ Carries(f) /\ (Announced(f)' <=> Announced(f)) /\ (Remade(f)' <=> Remade(f))
                              /\ (Exists(f)' <=> Exists(f))
    <2>1. watched'[d] <= changes + 1
      BY <1>9, NoEntry, Zenon DEF DocumentsInv
    <2> QED BY <1>3, <1>4, <1>6, <1>7, <1>9, <2>1, DeadCarries, Zenon
  <1>11. UNCHANGED <<text, status, closing, lost, explicitPaths>>
    BY <1>4, Zenon DEF frame
  <1>12. op.then = "observe" => op.kind = "tree"
    BY Zenon DEF DocumentsInv, WalkInv, walking
  <1>13. op.then = "discover" =>
           /\ op.at \in Sources \ op.todo /\ op.content[op.at] = Absent /\ DirOf[op.at] = d
           /\ op.kind = "document" => op.todo = {}
    <2>1. op.then = "discover" => DirOf[op.at] = d
      BY <1>2, Zenon DEF adding
    <2> QED BY <2>1, Zenon DEF DocumentsInv, TodoInv, locating
  <1>14. op.kind = "document" => /\ op.added = {} /\ op.listed = {} /\ op'.pc = "commit"
                                 /\ \A f \in Sources : op.content[f] = Absent
    <2>1. op.kind = "document" => /\ op.added = {} /\ op.listed = {}
                                  /\ \A f \in Sources : op.content[f] = Absent
      BY <1>1, Zenon DEF DocumentsInv, SingleInv, registering
    <2> QED BY <1>1, <1>6, <1>12, <1>13, <2>1, Zenon
  <1>15. WalkInv'
    <2>1. op.kind = "tree" /\ op.key = Root => Root \in op.kept
      BY <1>1, Zenon DEF DocumentsInv, WalkInv
    <2>2. op'.pc \in {"list", "read"} => op.kind = "tree"
      BY <1>1, <1>6, <1>12, Zenon
    <2> QED BY <1>6, <1>8, <2>1, <2>2, Zenon DEF WalkInv
  <1>16. TodoInv'
    <2>1. op'.pc = "commit" => op.todo = {}
      BY <1>6, Zenon
    <2>2. /\ op.kind = "tree" => op.todo \subseteq explicitPaths
          /\ op.kind = "document" => op.todo \subseteq {op.key}
          /\ \A f \in op.todo : op.content[f] = Absent
      BY Zenon DEF DocumentsInv, TodoInv
    <2> QED BY <1>6, <1>8, <1>11, <2>1, <2>2, Zenon DEF TodoInv
  <1>17. SingleInv' /\ RegisteringInv'
    BY <1>6, <1>8, <1>14, Zenon DEF SingleInv, RegisteringInv
  <1>18. RollbackInv'
    <2>1. /\ Root \notin op.added \cup op.taken
          /\ \A c \in op.taken : c # d => watched[c] = Absent
      BY <1>2, Zenon DEF DocumentsInv, RollbackInv
    <2>2. op.taken \subseteq Directories
      BY <1>1, Zenon DEF Operations
    <2> QED BY <1>6, <1>9, <1>14, <2>1, <2>2, Zenon DEF RollbackInv
  <1>19. JustifiedInv'
    <2>1. Excluded \subseteq Directories /\ Root \in Directories /\ Root \notin Excluded
      BY TreeAssumption, Zenon DEF Directories
    <2>2. \A c \in Excluded : watched'[c] # Absent => watched[c] # Absent
      BY <1>9, <2>1, Zenon
    <2>3. /\ op'.added \cup op'.taken \subseteq op.added \cup op.taken \cup {Root}
          /\ op'.kept \subseteq op.kept \cup op.taken \cup {Root, Root}
          /\ op.added \cup op.taken \subseteq op'.added \cup op'.taken
      BY <1>6, Zenon
    <2> QED BY <1>4, <1>7, <2>1, <2>2, <2>3, JustifiedStep, Zenon
  <1>20. OperationInv'
    <2> SUFFICES ASSUME alive', NEW f \in Sources PROVE OperationOf(f)'
      BY Zenon DEF OperationInv
    <2>1. alive /\ OperationOf(f) /\ Carries(f) /\ (Exists(f)' <=> Exists(f))
      BY <1>10, <1>11, Zenon DEF alive, DocumentsInv, OperationInv
    <2>2. ListedOf(f)' /\ ReadOf(f)'
      BY <1>4, <1>6, <2>1, CarriesOperation, Zenon
    <2>3. FetchedOf(f)'
      BY <1>6, Zenon DEF FetchedOf
    <2>4. SelectedOf(f)'
      <3>1. f \in scope(op)' <=> f \in scope(op)
        BY <1>6, Zenon DEF scope
      <3>2. CASE op.then = "observe"
        BY <1>6, <1>8, <3>2, Zenon DEF SelectedOf, Dealt
      <3>3. CASE op.then = "discover" /\ op.at # f
        <4>1. Dealt(f)' => Dealt(f)
          BY <1>6, <1>11, <3>1, <3>3, Zenon DEF Dealt, locating
        <4> QED BY <1>4, <1>6, <2>1, <4>1, CarriesOperation, Zenon
      <3>4. CASE op.then = "discover" /\ op.at = f
        <4>1. ~Exists(f) /\ op.content[f] = Absent
          BY <1>2, <1>13, <3>4, Zenon DEF Exists
        <4>2. text[f] = Absent
          BY <4>1, Zenon DEF DocumentsInv, FilesInv
        <4> QED BY <1>6, <1>11, <2>1, <4>1, <4>2, Zenon DEF SelectedOf
      <3> QED BY <1>1, <3>2, <3>3, <3>4, Zenon
    <2>5. AddedOf(f)'
      BY <1>6, <1>8, <1>11, <2>1, Zenon DEF OperationOf, AddedOf, Carries, Pending
    <2> QED BY <2>2, <2>3, <2>4, <2>5, Zenon DEF OperationOf
  <1>21. \A f \in Sources : ~Released(f)
    BY Zenon DEF Released
  <1> QED BY <1>4, <1>7, <1>10, <1>15, <1>16, <1>17, <1>18, <1>19, <1>20, <1>21, StepKeeps, Zenon

\* backend.Add watches the directory that is there, which need not be the one seen.
LEMMA AddKeeps ==
  ASSUME DocumentsInv, add
  PROVE  DocumentsInv'
  <1>1. op # NoOp /\ op \in Operations /\ op.pc = "add" /\ registering /\ opUnchanged
    BY Idle, Zenon DEF add, DocumentsInv, OpType, registering
  <1>2. CASE fail
    BY <1>1, <1>2, FailKeeps, Zenon
  <1>3. CASE workspacePathMissing(adding) /\ notFound
    BY <1>1, <1>3, NotFoundKeeps, Zenon DEF workspacePathMissing
  <1>4. CASE /\ op' = [op EXCEPT !.pc = "check"] /\ watched' = backendAdd(adding)
             /\ UNCHANGED <<closed, lost, docVars>>
    <2>1. op.then # "none" /\ adding \in op.taken /\ op.seen # Absent /\ op.seen <= changes + 1
      BY <1>1, Zenon DEF DocumentsInv, RegisteringInv
    <2>2. PICK d : d = adding
      BY Zenon
    <2>3. d \in Directories /\ d # Root /\ d \in op.taken /\ ~Live(d)
      BY <1>1, <2>1, <2>2, Zenon DEF DocumentsInv, RollbackInv, Operations, Live
    <2>4. frame
      BY <1>1, <1>4, Zenon DEF docVars, opUnchanged, fileVars, frame
    <2>5. /\ op' \in Operations /\ op'.pc = "check" /\ op'.then = op.then /\ op'.seen = op.seen
          /\ op'.by = op.by /\ op'.kind = op.kind /\ op'.key = op.key /\ op'.explicit = op.explicit
          /\ op'.added = op.added /\ op'.taken = op.taken /\ op'.kept = op.kept /\ op'.listed = op.listed
          /\ op'.todo = op.todo /\ op'.content = op.content /\ op'.at = op.at /\ op'.entries = op.entries
      BY <1>1, <1>4, ZenonT(40) DEF Operations
    <2>6. SameCall /\ op' # NoOp' /\ registering' /\ adding' = d
      BY <2>2, <2>5, Idle, Zenon DEF SameCall, registering, adding
    <2>7. (walking' <=> walking) /\ (locating' <=> locating)
      BY <1>1, <2>5, <2>6, Zenon DEF walking, locating
    <2>8. InodeOf(d) \in Nat /\ InodeOf(d) <= changes + 1
      BY <2>3, Zenon DEF DocumentsInv, FileType, FilesInv, InodeOf, Directories
    <2>9. /\ watched' \in [Directories -> Nat] /\ watched'[d] = InodeOf(d)
          /\ \A c \in Directories : c # d => watched'[c] = watched[c]
      BY <1>4, <2>2, <2>3, <2>8, Zenon DEF backendAdd, DocumentsInv, FileType
    <2>10. /\ FileType' /\ FilesInv'
           /\ \A f \in Sources : /\ Carries(f) /\ (Announced(f)' <=> Announced(f))
                                /\ (Remade(f)' <=> Remade(f))
      <3>1. watched'[d] <= changes + 1 /\ op.taken \subseteq op'.taken /\ d \in op'.taken
        BY <2>3, <2>5, <2>8, <2>9, Zenon
      <3> QED BY <1>1, <2>3, <2>4, <2>6, <2>9, <3>1, DeadCarries, Zenon
    <2>11. UNCHANGED <<inode, changes, text, status, closing, lost, explicitPaths>>
      BY <2>4, Zenon DEF frame
    <2>12. WalkInv'
      <3>1. op.kind = "tree" /\ op.key = Root => Root \in op.kept
        BY <1>1, Zenon DEF DocumentsInv, WalkInv
      <3>2. op'.pc \notin {"list", "read"}
        BY <2>5, Zenon
      <3> QED BY <1>1, <2>5, <2>7, <3>1, <3>2, Zenon DEF DocumentsInv, WalkInv
    <2>13. TodoInv'
      <3>1. op'.pc # "commit"
        BY <2>5, Zenon
      <3> QED BY <1>1, <2>5, <2>7, <2>11, <3>1, Zenon DEF DocumentsInv, TodoInv
    <2>14. SingleInv'
      <3>1. op.kind = "document" => /\ op.added = {} /\ op.listed = {}
                                    /\ \A f \in Sources : op.content[f] = Absent
        BY <1>1, Zenon DEF DocumentsInv, SingleInv
      <3> QED BY <2>5, <2>6, <3>1, Zenon DEF SingleInv
    <2>15. RegisteringInv'
      <3>1. InodeOf(d)' = InodeOf(d)
        BY <2>11, Zenon DEF InodeOf
      <3>2. op.kind = "document" => op.taken = {d}
        BY <1>1, <2>2, Zenon DEF DocumentsInv, RegisteringInv
      <3> QED BY <2>1, <2>3, <2>5, <2>6, <2>9, <2>11, <3>1, <3>2, Zenon DEF RegisteringInv
    <2>16. RollbackInv'
      <3>1. /\ Root \notin op.added \cup op.taken /\ \A c \in op.taken : watched[c] = Absent
            /\ op.kind = "document" => op.added = {}
        BY <1>1, Zenon DEF DocumentsInv, RollbackInv, SingleInv
      <3>2. op.taken \subseteq Directories
        BY <1>1, Zenon DEF Operations
      <3> QED BY <2>5, <2>6, <2>9, <3>1, <3>2, Zenon DEF RollbackInv
    <2>17. JustifiedInv'
      <3>1. Excluded \subseteq Directories /\ Root \in Directories /\ Root \notin Excluded
        BY TreeAssumption, Zenon DEF Directories
      <3>2. \A c \in Excluded : watched'[c] # Absent => watched[c] # Absent \/ c \in op'.added \cup op'.taken
        BY <2>3, <2>5, <2>9, <3>1, Zenon
      <3>3. /\ op'.added \cup op'.taken \subseteq op.added \cup op.taken \cup {Root}
            /\ op'.kept \subseteq op.kept \cup op.taken \cup {Root, Root}
            /\ op.added \cup op.taken \subseteq op'.added \cup op'.taken
        BY <2>5, Zenon
      <3> QED BY <1>1, <2>4, <2>6, <3>1, <3>2, <3>3, JustifiedStep, Zenon
    <2>18. OperationInv'
      <3> SUFFICES ASSUME alive', NEW f \in Sources PROVE OperationOf(f)'
        BY Zenon DEF OperationInv
      <3>1. alive /\ OperationOf(f) /\ Carries(f)
        BY <1>1, <2>10, <2>11, Zenon DEF alive, DocumentsInv, OperationInv
      <3>2. Dealt(f)' => Dealt(f)
        <4>1. f \in scope(op)' <=> f \in scope(op)
          BY <2>5, Zenon DEF scope
        <4> QED BY <2>5, <2>7, <2>11, <4>1, Zenon DEF Dealt
      <3>3. ListedOf(f)' /\ ReadOf(f)' /\ SelectedOf(f)'
        BY <2>4, <2>5, <3>1, <3>2, CarriesOperation, Zenon
      <3>4. FetchedOf(f)'
        BY <2>5, Zenon DEF FetchedOf
      <3>5. AddedOf(f)'
        BY <1>1, <2>5, <2>11, <3>1, Zenon DEF OperationOf, AddedOf, Carries, Pending
      <3> QED BY <3>3, <3>4, <3>5, Zenon DEF OperationOf
    <2>19. \A f \in Sources : ~Released(f)
      BY <1>1, Zenon DEF Released
    <2> QED BY <1>1, <2>4, <2>6, <2>10, <2>12, <2>13, <2>14, <2>15, <2>16, <2>17, <2>18, <2>19, StepKeeps, Zenon
  <1> QED BY <1>2, <1>3, <1>4, Zenon DEF add

\* The second Lstat: the operation goes on in a directory that is watched.
LEMMA CheckKeeps ==
  ASSUME DocumentsInv, check
  PROVE  DocumentsInv'
  <1>1. op # NoOp /\ op \in Operations /\ op.pc = "check" /\ registering /\ opUnchanged
    BY Idle, Zenon DEF check, DocumentsInv, OpType, registering
  <1>2. CASE workspacePathMissing(adding)
    BY <1>1, <1>2, NotFoundKeeps, Zenon DEF check, workspacePathMissing
  <1>3. CASE ~workspacePathMissing(adding) /\ InodeOf(adding) # op.seen
    BY <1>1, <1>3, FailKeeps, Zenon DEF check
  <1>4. CASE ~workspacePathMissing(adding) /\ InodeOf(adding) = op.seen
    <2> DEFINE o == [registered(op) EXCEPT !.taken = @ \ {adding}, !.added = @ \cup {adding}]
    <2>1. IF op.then = "observe" THEN enter(o) ELSE step(locate(o))
      BY <1>4, Zenon DEF check
    <2>2. /\ op.then \in {"observe", "discover"} /\ adding \in op.taken
          /\ op.seen # Absent /\ watched[adding] = op.seen
      BY <1>1, <1>4, Zenon DEF DocumentsInv, RegisteringInv, Operations
    <2>3. /\ o \in Operations /\ o.added = op.added \cup {adding} /\ o.taken = op.taken \ {adding}
          /\ o.by = op.by /\ o.kind = op.kind /\ o.key = op.key /\ o.explicit = op.explicit
          /\ o.walk = op.walk /\ o.at = op.at /\ o.entries = op.entries /\ o.subs = op.subs
          /\ o.listed = op.listed /\ o.kept = op.kept /\ o.todo = op.todo /\ o.content = op.content
      <3>1. /\ op.taken \ {adding} \subseteq Directories /\ op.added \cup {adding} \subseteq Directories
            /\ Absent \in Nat
        BY <1>1, <2>2, TreeAssumption, Zenon DEF Operations
      <3> QED BY <1>1, <3>1, ZenonT(40) DEF registered, Operations
    <2> HIDE DEF o
    <2>4. resumes(o.added, o.taken)
      BY <1>1, <1>4, <2>3, Zenon DEF resumes
    <2>5. alive => Live(adding)
      BY <1>4, <2>2, Zenon DEF DocumentsInv, StatusInv, alive, Live
    <2>6. CASE op.then = "observe"
      <3>1. Resumes(o) /\ enter(o)
        BY <2>1, <2>3, <2>4, <2>6, Zenon DEF Resumes
      <3>2. walking /\ adding = op.at
        BY <1>1, <2>6, Zenon DEF walking, adding
      <3> QED BY <1>1, <2>5, <3>1, <3>2, EnterKeeps, Zenon
    <2>7. CASE op.then = "discover"
      <3>1. step(locate(o)) /\ adding = DirOf[op.at]
        BY <2>1, <2>7, Zenon DEF adding
      <3>2. op.at \in Sources
        BY <1>1, <2>7, Zenon DEF DocumentsInv, TodoInv, locating
      <3>3. DirOf[op.at] \in op.taken
        BY <2>2, <3>1, Zenon
      <3>4. op.kept \subseteq o.kept /\ o.kept \subseteq op.kept \cup {Root}
        BY <2>3, Zenon
      <3>5. PICK f \in Sources : f = op.at
        BY <3>2, Zenon
      <3>6. o.at = f /\ (alive => Live(DirOf[f]))
        BY <2>3, <2>5, <3>1, <3>5, Zenon
      <3> QED BY <1>1, <2>3, <2>4, <2>7, <3>1, <3>3, <3>4, <3>5, <3>6, LocateKeeps, Zenon
    <2> QED BY <2>2, <2>6, <2>7, Zenon
  <1> QED BY <1>2, <1>3, <1>4, Zenon

\* applyContent makes the documents of its scope the content that was read, in step
\* with the index, and a changed one gets a generation that was never given out.
LEMMA ContentApplied ==
  ASSUME DocumentsInv, NEW S \in SUBSET Sources, NEW content \in [Sources -> Nat],
         applyContent(S, content)
  PROVE  /\ order' = Retained'
         /\ \A f \in Sources :
              /\ IF f \in S THEN documents'[f].text = content[f] ELSE documents'[f] = documents[f]
              /\ documents'[f] = NoDocument \/ documents'[f].text # Absent
              /\ documents'[f] # documents[f] /\ documents'[f] # NoDocument =>
                   documents'[f].text # documents[f].text
  <1> DEFINE changed == {f \in S : content[f] # Absent /\ ~sameState(f, content[f])}
             gone == {f \in S : content[f] = Absent}
             made(f) == [text |-> content[f], revision |-> documents[f].revision + 1,
                         generation |-> nextDocumentGeneration + Cardinality({g \in changed : g <= f})]
  <1>1. /\ documents' = [f \in Sources |-> CASE f \in gone -> NoDocument
                                             [] f \in changed -> made(f)
                                             [] OTHER -> documents[f]]
        /\ order' = (order \ gone) \cup changed
    BY Zenon DEF applyContent
  <1>2. order = Retained /\ \A f \in Sources : documents[f] = NoDocument \/ documents[f].text # Absent
    BY Zenon DEF DocumentsInv, DocumentInv, IndexFollows
  <1>3. NoDocument.text = Absent
    BY Zenon DEF NoDocument
  <1>4. ASSUME NEW f \in changed
        PROVE  made(f).text = content[f] /\ made(f).text # documents[f].text
    BY Zenon DEF sameState
  <1>5. ASSUME NEW f \in Sources
        PROVE  /\ f \in gone => documents'[f] = NoDocument
               /\ f \in changed => documents'[f] = made(f)
               /\ f \notin gone \cup changed => documents'[f] = documents[f]
    <2>1. ~(f \in gone /\ f \in changed)
      BY Zenon
    <2> HIDE DEF made, gone, changed
    <2> QED BY <1>1, <2>1, Zenon
  <1> HIDE DEF made
  <1>6. ASSUME NEW f \in Sources
        PROVE  /\ IF f \in S THEN documents'[f].text = content[f] ELSE documents'[f] = documents[f]
               /\ documents'[f] = NoDocument \/ documents'[f].text # Absent
               /\ documents'[f] # documents[f] /\ documents'[f] # NoDocument =>
                    documents'[f].text # documents[f].text
               /\ f \in order' <=> documents'[f] # NoDocument
    <2>1. CASE f \in gone
      <3>1. f \in S /\ content[f] = Absent /\ f \notin changed
        BY <2>1, Zenon
      <3>2. f \notin order'
        BY <1>1, <2>1, <3>1, Zenon
      <3> QED BY <1>3, <1>5, <2>1, <3>1, <3>2, Zenon
    <2>2. CASE f \in changed
      <3>1. f \in S /\ content[f] # Absent
        BY <2>2, Zenon
      <3>2. f \in order'
        BY <1>1, <2>2, Zenon
      <3>3. documents'[f] = made(f)
        BY <1>5, <2>2, Zenon
      <3> QED BY <1>3, <1>4, <2>2, <3>1, <3>2, <3>3, Zenon
    <2>3. CASE f \notin gone \cup changed
      <3>1. documents'[f] = documents[f]
        BY <1>5, <2>3, Zenon
      <3>2. f \in S => documents[f].text = content[f]
        BY <2>3, Zenon DEF sameState
      <3>3. f \in order' <=> f \in order
        BY <1>1, <2>3, Zenon
      <3>4. f \in order <=> documents[f] # NoDocument
        BY <1>2, Zenon DEF Retained
      <3> QED BY <1>2, <3>1, <3>2, <3>3, <3>4, Zenon
    <2> QED BY <2>1, <2>2, <2>3, Zenon
  <1>7. order' \subseteq Sources
    <2>1. order \subseteq Sources
      BY <1>2, Zenon DEF Retained
    <2> QED BY <1>1, <2>1, Zenon
  <1>8. order' = Retained'
    <2>1. Retained' = {f \in Sources : documents'[f] # NoDocument}
      BY Zenon DEF Retained, NoDocument
    <2> QED BY <1>6, <1>7, <2>1, Zenon
  <1> QED BY <1>6, <1>8, Zenon

\* An operation that ends by publishing.
LEMMA PublishKeeps ==
  ASSUME DocumentsInv, op \in Operations, alive, op' = NoOp, status' = "ready",
         UNCHANGED <<inode, gomod, text, changes, events, overflow, closed, closing>>,
         explicitPaths' \subseteq Sources,
         NEW S \in SUBSET Sources, applyContent(S, op.content),
         watched' \in [Directories -> Nat], \A d \in Directories : watched'[d] \in {watched[d], Absent},
         watched'[Root] = 1,
         \A d \in Excluded : watched'[d] # Absent => Justified(d)',
         ServedInv'
  PROVE  DocumentsInv'
  <1>1. op.content \in [Sources -> Nat]
    BY Zenon DEF Operations
  <1>2. /\ order' = Retained'
        /\ \A f \in Sources : documents'[f] = NoDocument \/ documents'[f].text # Absent
    BY <1>1, ContentApplied, Zenon
  <1>3. FileType'
    BY Zenon DEF DocumentsInv, FileType
  <1>4. DocType' /\ OpType'
    BY Zenon DEF DocumentsInv, DocType, OpType
  <1>5. FilesInv'
    <2>1. \A d \in Directories : watched'[d] <= changes' + 1
      BY TreeAssumption DEF DocumentsInv, FilesInv, FileType
    <2>2. \A f \in Sources : Exists(f)' <=> Exists(f)
      BY Zenon DEF Exists, InodeOf
    <2> QED BY <2>1, <2>2, Zenon DEF DocumentsInv, FilesInv
  <1>6. StatusInv'
    <2>1. op'.by = "none" /\ ~closed
      BY Zenon DEF NoOp, DocumentsInv, StatusInv, alive
    <2> QED BY <2>1, Zenon DEF StatusInv
  <1>7. CallInv' /\ WalkInv' /\ TodoInv' /\ SingleInv' /\ RegisteringInv' /\ RollbackInv' /\ OperationInv'
    <2>1. op' = NoOp'
      BY Zenon DEF NoOp
    <2> QED BY <2>1, Zenon DEF CallInv, WalkInv, TodoInv, SingleInv, RegisteringInv, RollbackInv, OperationInv
  <1>8. DocumentInv'
    BY <1>2, Zenon DEF DocumentInv, IndexFollows, NoDocument
  <1>9. JustifiedInv'
    BY Zenon DEF JustifiedInv, NoOp
  <1> QED BY <1>3, <1>4, <1>5, <1>6, <1>7, <1>8, <1>9, Zenon DEF DocumentsInv

\* What does not change when only documents and watches do.
LEMMA QuietFiles ==
  ASSUME NEW f \in Sources, UNCHANGED <<inode, text, events, overflow>>
  PROVE  (Announced(f)' <=> Announced(f)) /\ (Remade(f)' <=> Remade(f)) /\ (Exists(f)' <=> Exists(f))
  BY Zenon DEF Announced, Remade, Exists, InodeOf

\* Nor for a directory whose entry stays.
LEMMA SameWatch ==
  ASSUME NEW f \in Sources, UNCHANGED <<inode, closed>>, watched'[DirOf[f]] = watched[DirOf[f]]
  PROVE  (Held(f) /\ ~Taken(f) => Held(f)') /\ (Watched(f)' <=> Watched(f))
  BY Zenon DEF Held, Watched, Live, InodeOf

\* setReady publishes the initial load and starts the watcher.
LEMMA ReadyKeeps ==
  ASSUME DocumentsInv, setReady
  PROVE  DocumentsInv'
  <1>1. /\ op \in Operations /\ op.by = "open" /\ op.pc = "commit" /\ op # NoOp
    BY Idle, Zenon DEF setReady, DocumentsInv, OpType
  <1>2. alive /\ status = "opening"
    BY <1>1, Zenon DEF DocumentsInv, StatusInv, alive
  <1>3. /\ op' = NoOp /\ status' = "ready" /\ applyContent(Sources, op.content)
        /\ lost' = lost \cup unwatched(op.taken)
        /\ UNCHANGED <<inode, gomod, text, changes, events, overflow, watched, closed, closing, explicitPaths>>
    BY Zenon DEF setReady, fileVars, watchVars
  <1>4. explicitPaths = {} /\ explicitPaths' = {}
    BY <1>2, <1>3, Zenon DEF DocumentsInv, DocumentInv, IndexFollows
  <1>5. op.kind = "tree" /\ op.content \in [Sources -> Nat]
    BY <1>1, Zenon DEF DocumentsInv, CallInv, Operations
  <1>6. \A d \in Excluded : watched'[d] # Absent => Justified(d)'
    <2>1. \A d \in Excluded : watched[d] # Absent => Justified(d)
      BY <1>1, <1>2, <1>5, Zenon DEF DocumentsInv, JustifiedInv
    <2> QED BY <1>3, <2>1, Zenon DEF Justified
  <1>7. ServedInv'
    <2> SUFFICES ASSUME served', NEW f \in Sources PROVE CurrentOf(f)' /\ TrackedOf(f)'
      BY Zenon DEF ServedInv
    <2>1. documents'[f].text = op.content[f]
      BY <1>3, <1>5, ContentApplied, Zenon
    <2>2. ReadOf(f)
      BY <1>1, <1>2, Zenon DEF DocumentsInv, OperationInv, OperationOf
    <2>3. documents'[f] = NoDocument \/ documents'[f].text # Absent
      BY <1>3, <1>5, ContentApplied, Zenon
    <2>4. f \in Retained' => op.content[f] # Absent
      BY <2>1, <2>3, Zenon DEF Retained, NoDocument
    <2>5. (Announced(f)' <=> Announced(f)) /\ (Remade(f)' <=> Remade(f))
      BY <1>3, QuietFiles, Zenon
    <2>6. (Held(f) /\ ~Taken(f) => Held(f)') /\ (Watched(f)' <=> Watched(f))
      BY <1>3, SameWatch, Zenon
    <2>7. f \in Retained' => ~Taken(f)
      <3>1. unwatched(op.taken) = {}
        BY <1>3, Zenon DEF served
      <3> QED BY <3>1, Zenon DEF unwatched, Retained, NoDocument, Taken
    <2>8. CurrentOf(f)'
      BY <1>3, <2>1, <2>2, <2>4, <2>5, <2>6, <2>7, Zenon DEF CurrentOf, ReadOf, Pending
    <2> QED BY <1>4, <2>8, Zenon DEF TrackedOf
  <1>8. watched' \in [Directories -> Nat] /\ watched'[Root] = 1
    BY <1>3, Zenon DEF DocumentsInv, FileType, FilesInv
  <1> QED BY <1>1, <1>2, <1>3, <1>4, <1>6, <1>7, <1>8, PublishKeeps, Zenon

\* Where the watches of an operation that publishes stand.
LEMMA Excused ==
  ASSUME DocumentsInv, op # NoOp, alive, NEW d \in Excluded, watched[d] # Absent
  PROVE  \/ Justified(d)
         \/ d \in op.added \cup op.taken /\ op.kind = "document" /\ op.explicit /\ d = DirOf[op.key]
  BY Zenon DEF DocumentsInv, JustifiedInv, alive

\* A subtree is published and its watches replaced by those it has kept.
LEMMA CommitTreeKeeps ==
  ASSUME DocumentsInv, commitTree
  PROVE  DocumentsInv'
  <1>1. op \in Operations /\ op # NoOp /\ op.pc = "commit" /\ op.kind = "tree" /\ op.by # "open"
    BY Idle, Zenon DEF commitTree, DocumentsInv, OpType
  <1>2. opUnchanged
    BY Zenon DEF commitTree
  <1>3. CASE closing
    BY <1>1, <1>2, <1>3, FailKeeps, Zenon DEF commitTree
  <1>4. CASE ~closing
    <2>1. /\ applyContent({f \in Sources : InSubtree(DirOf[f], op.key)}, op.content)
          /\ watched' = ReplaceSubtree(watched, op.key, op.kept) /\ op' = NoOp
          /\ lost' = lost \cup unwatched(op.taken)
          /\ UNCHANGED <<closed, status, explicitPaths>>
      BY <1>4, Zenon DEF commitTree
    <2>2. UNCHANGED <<inode, gomod, text, changes, events, overflow, closing>>
      BY <1>2, Zenon DEF opUnchanged, fileVars
    <2>3. op.by = "watch" /\ op.key \in Directories /\ op.content \in [Sources -> Nat]
      BY <1>1, Zenon DEF DocumentsInv, CallInv, Operations
    <2>4. status = "ready" /\ status' = "ready" /\ alive
      BY <1>4, <2>1, <2>3, Zenon DEF DocumentsInv, StatusInv, alive
    <2>5. watched' = [d \in Directories |->
                        IF d \notin op.kept /\ InSubtree(d, op.key) THEN Absent ELSE watched[d]]
      BY <2>1, Zenon DEF ReplaceSubtree, removeDirectories
    <2>6. /\ watched' \in [Directories -> Nat]
          /\ \A d \in Directories : watched'[d] \in {watched[d], Absent}
      BY <2>5, TreeAssumption, Zenon DEF DocumentsInv, FileType
    <2>7. watched'[Root] = 1
      <3>1. Root \in Directories /\ watched[Root] = 1
        BY Zenon DEF Directories, DocumentsInv, FilesInv
      <3>2. op.key = Root => Root \in op.kept
        BY <1>1, Zenon DEF DocumentsInv, WalkInv
      <3> QED BY <2>5, <3>1, <3>2, Zenon DEF InSubtree
    <2>8. ASSUME NEW d \in Excluded, watched'[d] # Absent PROVE Justified(d)'
      <3>1. d \in Directories
        BY TreeAssumption, Zenon DEF Directories
      <3>2. watched[d] # Absent
        BY <2>6, <2>8, <3>1, Zenon
      <3>3. Justified(d)
        BY <1>1, <2>4, <3>2, Excused, Zenon
      <3> QED BY <2>1, <3>3, Zenon DEF Justified
    <2> DEFINE S == {f \in Sources : InSubtree(DirOf[f], op.key)}
    <2>9. ServedInv'
      <3> SUFFICES ASSUME served', NEW f \in Sources PROVE CurrentOf(f)' /\ TrackedOf(f)'
        BY Zenon DEF ServedInv
      <3>1. lost = {} /\ unwatched(op.taken) = {}
        BY <2>1, Zenon DEF served
      <3>2. CurrentOf(f) /\ TrackedOf(f) /\ ~Released(f)
        BY <1>4, <2>3, <2>4, <3>1, Zenon DEF served, DocumentsInv, ServedInv, Released
      <3>3. f \in Retained' => ~Taken(f)
        BY <3>1, Zenon DEF unwatched, Retained, NoDocument, Taken
      <3>4. ReadOf(f) /\ SelectedOf(f)
        BY <1>1, <2>4, Zenon DEF DocumentsInv, OperationInv, OperationOf
      <3>5. (Announced(f)' <=> Announced(f)) /\ (Remade(f)' <=> Remade(f)) /\ (Exists(f)' <=> Exists(f))
        BY <2>2, QuietFiles, Zenon
      <3>6. DirOf[f] \in Directories
        BY TreeAssumption, Zenon DEF Directories
      <3>7. f \notin S \/ DirOf[f] \in op.kept =>
              (Held(f) /\ ~Taken(f) => Held(f)') /\ (Watched(f)' <=> Watched(f))
        <4>1. f \notin S \/ DirOf[f] \in op.kept => watched'[DirOf[f]] = watched[DirOf[f]]
          BY <2>5, <3>6, Zenon
        <4> QED BY <2>1, <2>2, <4>1, SameWatch, Zenon
      <3>8. /\ IF f \in S THEN documents'[f].text = op.content[f] ELSE documents'[f] = documents[f]
            /\ documents'[f] = NoDocument \/ documents'[f].text # Absent
        BY <2>1, <2>3, ContentApplied, Zenon
      <3>9. f \in scope(op) <=> f \in S
        BY <1>1, Zenon DEF scope
      <3> HIDE DEF S
      <3>10. CASE f \in S
        <4>1. f \in Retained' => op.content[f] # Absent
          BY <3>8, <3>10, Zenon DEF Retained, NoDocument
        <4>2. CurrentOf(f)'
          BY <2>2, <3>3, <3>4, <3>5, <3>7, <3>8, <3>10, <4>1, Zenon DEF CurrentOf, ReadOf, Pending
        <4>3. f \in explicitPaths => Dealt(f)
          BY <1>1, <3>9, <3>10, Zenon DEF Dealt, DocumentsInv, TodoInv
        <4>4. TrackedOf(f)'
          BY <2>1, <2>2, <3>4, <3>5, <3>7, <3>8, <3>10, <4>3, Zenon DEF TrackedOf, SelectedOf, Pending
        <4> QED BY <4>2, <4>4, Zenon
      <3>11. CASE f \notin S
        <4>1. ~Covered(f)
          BY <3>9, <3>11, Zenon DEF Covered
        <4>2. f \in Retained' <=> f \in Retained
          BY <3>8, <3>11, Zenon DEF Retained, NoDocument
        <4>3. CurrentOf(f)'
          BY <2>2, <3>2, <3>3, <3>5, <3>7, <3>8, <3>11, <4>1, <4>2, Zenon DEF CurrentOf
        <4>4. TrackedOf(f)'
          BY <2>1, <2>2, <3>2, <3>5, <3>7, <3>8, <3>11, <4>1, Zenon DEF TrackedOf, Pending
        <4> QED BY <4>3, <4>4, Zenon
      <3> QED BY <3>10, <3>11, Zenon
    <2>10. explicitPaths' \subseteq Sources
      BY <2>1, Zenon DEF DocumentsInv, DocType
    <2>11. S \in SUBSET Sources /\ applyContent(S, op.content)
      BY <2>1, Zenon
    <2> HIDE DEF S
    <2> QED BY <1>1, <2>1, <2>2, <2>4, <2>6, <2>7, <2>8, <2>9, <2>10, <2>11, PublishKeeps, Zenon
  <1> QED BY <1>3, <1>4, Zenon

\* A single source is published; a selection that found nothing is rolled back.
LEMMA CommitDocumentKeeps ==
  ASSUME DocumentsInv, commitDocument
  PROVE  DocumentsInv'
  <1>1. op \in Operations /\ op # NoOp /\ op.pc = "commit" /\ op.kind = "document"
    BY Idle, Zenon DEF commitDocument, DocumentsInv, OpType
  <1>2. opUnchanged
    BY Zenon DEF commitDocument
  <1>3. CASE closing
    BY <1>1, <1>2, <1>3, FailKeeps, Zenon DEF commitDocument
  <1>4. CASE ~closing
    <2> DEFINE f == op.key
               found == op.content[f] # Absent
               committed == found \/ ~op.explicit \/ f \in explicitPaths
    <2>1. /\ applyContent({f}, op.content)
          /\ explicitPaths' = IF found /\ op.explicit THEN explicitPaths \cup {f} ELSE explicitPaths
          /\ watched' = IF committed THEN watched ELSE removeDirectories(watched, op.added)
          /\ lost' = lost \cup unwatched(IF committed THEN op.taken ELSE op.added \cup op.taken)
          /\ op' = NoOp
          /\ UNCHANGED <<closed, status>>
      BY <1>4, Zenon DEF commitDocument
    <2>2. UNCHANGED <<inode, gomod, text, changes, events, overflow, closing>>
      BY <1>2, Zenon DEF opUnchanged, fileVars
    <2>3. f \in Sources /\ op.content \in [Sources -> Nat] /\ op.by \in {"client", "watch"}
      BY <1>1, Zenon DEF DocumentsInv, CallInv, Operations
    <2>4. status = "ready" /\ status' = "ready" /\ alive
      BY <1>4, <2>1, <2>3, Zenon DEF DocumentsInv, StatusInv, alive
    <2>5. /\ explicitPaths \subseteq explicitPaths' /\ explicitPaths' \subseteq Sources
          /\ \A g \in Sources : g # f => (g \in explicitPaths' <=> g \in explicitPaths)
          /\ ~found => explicitPaths' = explicitPaths
          /\ found /\ op.explicit => f \in explicitPaths'
      BY <2>1, <2>3, Zenon DEF DocumentsInv, DocType
    <2>6. /\ documents'[f].text = op.content[f]
          /\ \A g \in Sources : g # f => documents'[g] = documents[g]
          /\ \A g \in Sources : documents'[g] = NoDocument \/ documents'[g].text # Absent
      <3>1. {f} \in SUBSET Sources /\ applyContent({f}, op.content)
        BY <2>1, <2>3, Zenon
      <3>2. \A g \in Sources :
              /\ IF g \in {f} THEN documents'[g].text = op.content[g] ELSE documents'[g] = documents[g]
              /\ documents'[g] = NoDocument \/ documents'[g].text # Absent
        BY <2>3, <3>1, ContentApplied, Zenon
      <3> QED BY <2>3, <3>2, Zenon
    <2>7. Root \notin op.added /\ Root \in Directories /\ watched[Root] = 1 /\ watched \in [Directories -> Nat]
      BY <1>1, Zenon DEF DocumentsInv, RollbackInv, Directories, FilesInv, FileType
    <2>8. ~committed => \A d \in Directories : watched'[d] = IF d \in op.added THEN Absent ELSE watched[d]
      BY <2>1, Zenon DEF removeDirectories
    <2>9. watched' \in [Directories -> Nat]
      BY <2>1, <2>7, TreeAssumption, Zenon DEF removeDirectories
    <2>10. \A d \in Directories : watched'[d] \in {watched[d], Absent}
      BY <2>1, <2>8, Zenon
    <2>11. watched'[Root] = 1
      BY <2>1, <2>7, <2>8, Zenon
    <2>12. ASSUME NEW d \in Excluded, watched'[d] # Absent PROVE Justified(d)'
      <3>1. d \in Directories
        BY TreeAssumption, Zenon DEF Directories
      <3>2. watched[d] # Absent /\ (~committed => d \notin op.added)
        BY <2>8, <2>10, <2>12, <3>1
      <3>3. Justified(d) \/ (d \in op.added /\ op.explicit /\ d = DirOf[f])
        <4>1. d \notin op.taken
          BY <1>1, <3>2, Zenon DEF DocumentsInv, RollbackInv
        <4> QED BY <1>1, <2>4, <3>2, <4>1, Excused, Zenon
      <3>4. Justified(d) => Justified(d)'
        BY <2>5, Zenon DEF Justified
      <3>5. f \in explicitPaths' /\ d = DirOf[f] => Justified(d)'
        BY Zenon DEF Justified
      <3> QED BY <2>5, <3>2, <3>3, <3>4, <3>5, Zenon
    <2>13. ServedInv'
      <3> SUFFICES ASSUME served', NEW g \in Sources PROVE CurrentOf(g)' /\ TrackedOf(g)'
        BY Zenon DEF ServedInv
      <3>1. lost = {} /\ unwatched(IF committed THEN op.taken ELSE op.added \cup op.taken) = {}
        BY <2>1, Zenon DEF served
      <3>2. g \in Retained' => ~Taken(g) /\ (committed \/ DirOf[g] \notin op.added)
        BY <3>1, Zenon DEF unwatched, Retained, NoDocument, Taken
      <3>3. CurrentOf(g) /\ TrackedOf(g)
        BY <1>4, <2>4, <3>1, Zenon DEF served, DocumentsInv, ServedInv
      <3>4. ReadOf(g) /\ SelectedOf(g) /\ AddedOf(g)
        BY <1>1, <2>4, Zenon DEF DocumentsInv, OperationInv, OperationOf
      <3>5. (Announced(g)' <=> Announced(g)) /\ (Remade(g)' <=> Remade(g)) /\ (Exists(g)' <=> Exists(g))
        BY <2>2, QuietFiles, Zenon
      <3>6. DirOf[g] \in Directories
        BY TreeAssumption, Zenon DEF Directories
      <3>7. committed \/ DirOf[g] \notin op.added =>
              (Held(g) /\ ~Taken(g) => Held(g)') /\ (Watched(g)' <=> Watched(g))
        <4>1. committed \/ DirOf[g] \notin op.added => watched'[DirOf[g]] = watched[DirOf[g]]
          BY <2>1, <2>8, <3>6, Zenon
        <4> QED BY <2>1, <2>2, <4>1, SameWatch, Zenon
      <3>8. g \in scope(op) <=> g = f
        BY <1>1, Zenon DEF scope
      <3>9. CASE g = f
        <4>1. g \in Retained' => found
          BY <2>6, <3>9, Zenon DEF Retained, NoDocument
        <4>2. CurrentOf(g)'
          BY <2>2, <2>6, <3>2, <3>4, <3>5, <3>7, <3>9, <4>1, Zenon DEF CurrentOf, ReadOf, Pending
        <4>3. CASE found
          BY <2>2, <2>6, <3>4, <3>5, <3>7, <3>9, <4>2, <4>3, Zenon DEF TrackedOf, ReadOf, Pending
        <4>4. CASE ~found
          <5>1. g \in explicitPaths => Dealt(g)
            BY <1>1, <3>8, <3>9, Zenon DEF Dealt, DocumentsInv, TodoInv
          <5>2. TrackedOf(g)'
            BY <2>2, <2>5, <2>6, <3>4, <3>5, <3>7, <3>9, <4>4, <5>1, Zenon DEF TrackedOf, SelectedOf, Pending
          <5> QED BY <4>2, <5>2, Zenon
        <4> QED BY <4>3, <4>4, Zenon
      <3>10. CASE g # f
        <4>1. ~Covered(g)
          BY <3>8, <3>10, Zenon DEF Covered
        <4>2. g \in Retained' <=> g \in Retained
          BY <2>6, <3>10, Zenon DEF Retained, NoDocument
        <4>3. documents'[g] = documents[g] /\ (g \in explicitPaths' <=> g \in explicitPaths)
          BY <2>5, <2>6, <3>10, Zenon
        <4>4. CASE committed \/ DirOf[g] \notin op.added
          <5>1. CurrentOf(g)'
            BY <2>2, <3>2, <3>3, <3>5, <3>7, <4>1, <4>2, <4>3, <4>4, Zenon DEF CurrentOf, Released
          <5>2. TrackedOf(g)'
            BY <2>2, <3>2, <3>3, <3>5, <3>7, <4>1, <4>2, <4>3, <4>4, Zenon DEF TrackedOf, Pending, Released
          <5> QED BY <5>1, <5>2, Zenon
        <4>5. CASE ~committed /\ DirOf[g] \in op.added
          <5>1. g \notin Retained
            BY <3>2, <4>2, <4>5, Zenon
          <5>2. op.by = "client"
            BY <1>1, <2>3, <4>5, Zenon DEF DocumentsInv, CallInv
          <5>3. g \in explicitPaths => Pending(g)
            BY <3>1, <3>4, <4>5, <5>2, Zenon DEF AddedOf
          <5> QED BY <3>5, <4>2, <4>3, <5>1, <5>3, Zenon DEF CurrentOf, TrackedOf, Pending
        <4> QED BY <4>4, <4>5, Zenon
      <3> QED BY <3>9, <3>10, Zenon
    <2>14. {f} \in SUBSET Sources
      BY <2>3, Zenon
    <2> QED BY <1>1, <2>1, <2>2, <2>4, <2>5, <2>9, <2>10, <2>11, <2>12, <2>13, <2>14, PublishKeeps, Zenon
  <1> QED BY <1>3, <1>4, Zenon
-----------------------------------------------------------------------------
\* An operation takes the gate: of what was pending, it answers for what is taken.
LEMMA BeginKeeps ==
  ASSUME DocumentsInv, op = NoOp, status = "ready", ~closing,
         NEW by \in {"client", "watch"}, NEW kind \in {"tree", "document"}, NEW key, NEW explicit \in BOOLEAN,
         IF kind = "tree" THEN key \in Directories ELSE key \in Sources,
         explicit <=> by = "client", by = "client" => kind = "document", by = "watch" => watch = "run",
         op' = newOp(by, kind, key, explicit),
         UNCHANGED <<inode, gomod, text, changes, watched, closed, status, documents, explicitPaths,
                     order, nextDocumentGeneration, closing, watch, lost>>,
         events' \subseteq events, overflow' \in BOOLEAN,
         \A f \in Sources : Covered(f)' \/
           ((Announced(f) => Announced(f)') /\ (Remade(f) => Remade(f)'))
  PROVE  DocumentsInv'
  <1>1. /\ op'.by = by /\ op'.kind = kind /\ op'.key = key /\ op'.explicit = explicit
        /\ op'.pc = (IF kind = "tree" THEN "list" ELSE "discover")
        /\ op'.walk = (IF kind = "tree" THEN {key} ELSE {})
        /\ op'.todo = (IF kind = "tree" THEN {} ELSE {key})
        /\ op'.listed = {} /\ op'.kept = {} /\ op'.added = {} /\ op'.taken = {}
        /\ op'.content = [f \in Sources |-> Absent]
    BY Zenon DEF newOp
  <1>2. ~registering' /\ ~locating' /\ ~walking'
    BY <1>1, Zenon DEF registering, locating, walking
  <1>3. op' \in Operations
    BY TreeAssumption, Zenon DEF newOp, Operations, Directories
  <1>4. FileType' /\ DocType'
    BY Zenon DEF DocumentsInv, FileType, DocType
  <1>5. OpType'
    BY <1>3, Zenon DEF OpType, Operations
  <1>6. FilesInv'
    BY Zenon DEF DocumentsInv, FilesInv, Exists, InodeOf
  <1>7. StatusInv'
    BY <1>1, Zenon DEF DocumentsInv, StatusInv
  <1>8. CallInv' /\ WalkInv'
    <2>1. CASE kind = "tree"
      <3>1. /\ op'.pc = "list" /\ op'.kind = "tree" /\ op'.walk = {op'.key}
            /\ op'.by = "watch" /\ ~op'.explicit /\ op'.key \in Directories
        BY <1>1, <2>1, Zenon
      <3> QED BY <1>2, <3>1, ZenonT(30) DEF CallInv, WalkInv
    <2>2. CASE kind = "document"
      <3>1. /\ op'.pc = "discover" /\ op'.kind = "document" /\ op'.key \in Sources
            /\ op'.by \in {"client", "watch"} /\ (op'.explicit <=> op'.by = "client")
        BY <1>1, <2>2, Zenon
      <3> QED BY <1>2, <3>1, ZenonT(30) DEF CallInv, WalkInv
    <2> QED BY <2>1, <2>2, Zenon
  <1>9. TodoInv' /\ SingleInv' /\ RegisteringInv' /\ RollbackInv'
    <2>1. \A f \in op'.todo : op'.content[f] = Absent
      <3>1. op'.todo \subseteq Sources
        BY <1>3, Zenon DEF Operations
      <3>2. op'.content = [f \in Sources |-> Absent]
        BY <1>1, Zenon
      <3> QED BY <3>1, <3>2, Zenon
    <2>2. \A f \in Sources : op'.content[f] = Absent
      <3>1. op'.content = [f \in Sources |-> Absent]
        BY <1>1, Zenon
      <3> QED BY <3>1, Zenon
    <2> QED BY <1>1, <1>2, <2>1, <2>2, Zenon DEF TodoInv, SingleInv, RegisteringInv, RollbackInv
  <1>10. DocumentInv'
    BY Zenon DEF DocumentsInv, DocumentInv, IndexFollows, Retained, NoDocument
  <1>11. JustifiedInv'
    <2>1. \A d \in Excluded : watched[d] # Absent => Justified(d)
      BY Zenon DEF DocumentsInv, JustifiedInv
    <2> QED BY <1>1, <2>1, Zenon DEF JustifiedInv, Justified
  <1>12. OperationInv'
    <2> SUFFICES ASSUME NEW f \in Sources PROVE OperationOf(f)'
      BY Zenon DEF OperationInv
    <2>1. op'.content[f] = Absent
      <3>1. op'.content = [g \in Sources |-> Absent]
        BY <1>1, Zenon
      <3> QED BY <3>1, Zenon
    <2>2. ~Dealt(f)'
      BY <1>1, <1>2, Zenon DEF Dealt, scope
    <2> QED BY <1>1, <1>2, <2>1, <2>2, Zenon DEF OperationOf, ListedOf, FetchedOf, ReadOf, SelectedOf, AddedOf
  <1>13. ServedInv'
    <2> SUFFICES ASSUME served', NEW f \in Sources PROVE CurrentOf(f)' /\ TrackedOf(f)'
      BY Zenon DEF ServedInv
    <2>1. CurrentOf(f) /\ TrackedOf(f)
      BY Zenon DEF served, DocumentsInv, ServedInv
    <2>2. ~Covered(f) /\ ~Released(f)
      BY Zenon DEF Covered, Released, NoOp
    <2>3. (Held(f) => Held(f)') /\ (Watched(f)' <=> Watched(f)) /\ (Exists(f)' <=> Exists(f))
      BY Zenon DEF Held, Taken, Watched, Exists, Live, InodeOf
    <2>4. f \in Retained' <=> f \in Retained
      BY Zenon DEF Retained, NoDocument
    <2>5. Covered(f)' \/ ((Announced(f) => Announced(f)') /\ (Remade(f) => Remade(f)'))
      BY Zenon
    <2>6. CurrentOf(f)'
      BY <2>1, <2>2, <2>3, <2>4, <2>5, Zenon DEF CurrentOf
    <2>7. TrackedOf(f)'
      BY <2>1, <2>2, <2>3, <2>5, Zenon DEF TrackedOf, Pending
    <2> QED BY <2>6, <2>7, Zenon
  <1> QED BY <1>4, <1>5, <1>6, <1>7, <1>8, <1>9, <1>10, <1>11, <1>12, <1>13, Zenon DEF DocumentsInv

\* An operation that does not move, where the watches and the directories stay.
LEMMA SameOperation ==
  ASSUME DocumentsInv, UNCHANGED <<op, watched, inode, changes>>
  PROVE  /\ (registering' <=> registering) /\ (locating' <=> locating)
         /\ WalkInv' /\ SingleInv' /\ RegisteringInv' /\ RollbackInv'
         /\ explicitPaths' = explicitPaths => TodoInv'
  <1>1. (registering' <=> registering) /\ (walking' <=> walking) /\ (locating' <=> locating) /\ adding' = adding
    BY Zenon DEF registering, walking, locating, adding
  <1>2. WalkInv' /\ SingleInv'
    BY <1>1, Zenon DEF DocumentsInv, WalkInv, SingleInv, NoOp
  <1>3. RegisteringInv' /\ RollbackInv'
    <2>1. InodeOf(adding)' = InodeOf(adding)
      BY <1>1, Zenon DEF InodeOf
    <2> QED BY <1>1, <2>1, Zenon DEF DocumentsInv, RegisteringInv, RollbackInv, NoOp
  <1>4. explicitPaths' = explicitPaths => TodoInv'
    BY <1>1, Zenon DEF DocumentsInv, TodoInv, NoOp
  <1> QED BY <1>1, <1>2, <1>3, <1>4, Zenon

\* Events are taken and nothing is begun: the workspace is closing, or nobody counts
\* on what is taken.
LEMMA ConsumeKeeps ==
  ASSUME DocumentsInv,
         UNCHANGED <<inode, gomod, text, changes, watched, closed, docVars, closing, op, watch, lost>>,
         events' \subseteq events, overflow' \in BOOLEAN,
         ~closing => \A f \in Sources :
            /\ op # NoOp /\ alive => OperationOf(f)'
            /\ served => CurrentOf(f)' /\ TrackedOf(f)'
  PROVE  DocumentsInv'
  <1>1. UNCHANGED <<status, documents, explicitPaths, order, nextDocumentGeneration>>
    BY Zenon DEF docVars
  <1>2. FileType' /\ DocType'
    BY <1>1, Zenon DEF DocumentsInv, FileType, DocType
  <1>3. OpType' /\ StatusInv' /\ CallInv'
    <2>1. OpType'
      BY <1>1, Zenon DEF DocumentsInv, OpType, NoOp, Operations
    <2> QED BY <1>1, <2>1, Zenon DEF DocumentsInv, StatusInv, CallInv, NoOp
  <1>4. FilesInv'
    BY Zenon DEF DocumentsInv, FilesInv, Exists, InodeOf
  <1>5. WalkInv' /\ TodoInv' /\ SingleInv' /\ RegisteringInv' /\ RollbackInv'
    BY <1>1, SameOperation, Zenon
  <1>6. DocumentInv'
    BY <1>1, Zenon DEF DocumentsInv, DocumentInv, IndexFollows, Retained, NoDocument
  <1>7. JustifiedInv'
    BY <1>1, Zenon DEF DocumentsInv, JustifiedInv, Justified, NoOp
  <1>8. OperationInv'
    BY <1>1, Zenon DEF OperationInv, alive, NoOp
  <1>9. ServedInv'
    BY <1>1, Zenon DEF ServedInv, served
  <1> QED BY <1>2, <1>3, <1>4, <1>5, <1>6, <1>7, <1>8, <1>9, Zenon DEF DocumentsInv

\* RefreshDocument takes the gate.
LEMMA RefreshKeeps ==
  ASSUME DocumentsInv, NEW f \in Sources, RefreshDocument(f)
  PROVE  DocumentsInv'
  <1>1. /\ op = NoOp /\ status = "ready" /\ ~closing /\ op' = newOp("client", "document", f, TRUE)
        /\ UNCHANGED <<inode, gomod, text, changes, watched, closed, status, documents, explicitPaths,
                       order, nextDocumentGeneration, closing, watch, lost, events, overflow>>
    BY Zenon DEF RefreshDocument, begin, fileVars, watchVars, docVars
  <1>2. overflow' \in BOOLEAN
    BY <1>1, Zenon DEF DocumentsInv, FileType
  <1>3. \A g \in Sources : (Announced(g) => Announced(g)') /\ (Remade(g) => Remade(g)')
    BY <1>1, Zenon DEF Announced, Remade
  <1> QED BY <1>1, <1>2, <1>3, BeginKeeps, Zenon

\* An overflow has everything reconciled.
LEMMA ErrorKeeps ==
  ASSUME DocumentsInv, reconcileError
  PROVE  DocumentsInv'
  <1>1. /\ op = NoOp /\ watch = "run" /\ overflow' = FALSE
        /\ op' = IF closing THEN op ELSE newOp("watch", "tree", Root, FALSE)
        /\ UNCHANGED <<inode, gomod, text, changes, watched, closed, status, documents, explicitPaths,
                       order, nextDocumentGeneration, closing, watch, lost, events>>
    BY Zenon DEF reconcileError, begin, fileVars, docVars
  <1>2. CASE closing
    BY <1>1, <1>2, ConsumeKeeps, Zenon DEF docVars
  <1>3. CASE ~closing
    <2>1. status = "ready"
      BY <1>1, <1>3, Zenon DEF DocumentsInv, StatusInv
    <2>2. \A f \in Sources : Covered(f)'
      BY <1>1, <1>3, Zenon DEF Covered, scope, newOp, InSubtree
    <2>3. Root \in Directories
      BY Zenon DEF Directories
    <2> QED BY <1>1, <1>3, <2>1, <2>2, <2>3, BeginKeeps, Zenon
  <1> QED BY <1>2, <1>3, Zenon

\* An event is taken: what it stood for is being reconciled, or it named a directory
\* that is gone, of which nothing is retained that no other event stands for.
LEMMA EventKeeps ==
  ASSUME DocumentsInv, reconcileWatchEvent
  PROVE  DocumentsInv'
  <1>1. PICK event \in events :
          /\ events' = events \ {event}
          /\ IF passedOver(event) THEN ~registering /\ UNCHANGED op
             ELSE /\ op = NoOp
                  /\ begin("watch", IF event[1] = "source" THEN "document" ELSE "tree", event[2], FALSE)
    BY Zenon DEF reconcileWatchEvent
  <1>2. /\ watch = "run" /\ ~closed /\ op.by # "watch"
        /\ UNCHANGED <<inode, gomod, text, changes, watched, closed, status, documents, explicitPaths,
                       order, nextDocumentGeneration, closing, watch, lost, overflow>>
    BY Zenon DEF reconcileWatchEvent, fileVars, docVars
  <1>3. event \in Notices /\ overflow' \in BOOLEAN /\ events' \subseteq events
    BY <1>1, <1>2, Zenon DEF DocumentsInv, FileType
  <1>4. status # "opening"
    BY <1>2, Zenon DEF DocumentsInv, StatusInv
  <1>5. CASE passedOver(event)
    <2> DEFINE d == event[2]
    <2>1. d \in Dirs /\ event = <<"dir", d>>
      BY <1>3, <1>5, DirectoryEvent, Zenon DEF passedOver
    <2>2. inode[d] = Absent /\ watched[d] = Absent
      BY <1>5, <2>1, Zenon DEF passedOver, WatchesSubtree, InSubtree, Directories
    <2>3. ~registering /\ UNCHANGED op
      BY <1>1, <1>5, Zenon
    <2>4. /\ (registering' <=> registering) /\ (locating' <=> locating)
          /\ \A f \in Sources : (Taken(f)' <=> Taken(f)) /\ (Released(f)' <=> Released(f))
      <3>1. (registering' <=> registering) /\ (locating' <=> locating)
        BY <1>2, <2>3, SameOperation, Zenon
      <3> QED BY <2>3, <3>1, Zenon DEF Taken, Released, NoOp
    <2>5. op # NoOp /\ alive => op.by = "client" /\ op.kind = "document"
      <3>1. op # NoOp => op.by \in {"open", "client", "watch"}
        BY Zenon DEF DocumentsInv, OpType, Operations
      <3>2. op.by # "open"
        BY <1>4, Zenon DEF DocumentsInv, StatusInv
      <3> QED BY <1>2, <3>1, <3>2, Zenon DEF DocumentsInv, CallInv
    <2>6. op # NoOp /\ alive /\ op.taken # {} =>
            /\ op.pc = "commit" /\ op.listed = {} /\ op.added = {}
            /\ \A f \in Sources : op.content[f] = Absent
      BY <2>3, <2>5, Zenon DEF DocumentsInv, SingleInv
    <2>7. ASSUME NEW f \in Sources
          PROVE  /\ Announced(f)' <=> Announced(f)
                 /\ DirOf[f] # d => (Remade(f)' <=> Remade(f))
                 /\ DirOf[f] = d => (Held(f) => Taken(f)) /\ ~Exists(f) /\ ~Watched(f) /\ text[f] = Absent
                 /\ (Held(f)' <=> Held(f)) /\ (Watched(f)' <=> Watched(f)) /\ (Exists(f)' <=> Exists(f))
      <3>1. Announced(f)' <=> Announced(f)
        BY <1>1, <1>2, <2>1 DEF Announced
      <3>2. DirOf[f] # d => (Remade(f)' <=> Remade(f))
        BY <1>1, <2>1 DEF Remade
      <3>3. DirOf[f] = d => (Held(f) => Taken(f)) /\ ~Exists(f) /\ ~Watched(f)
        BY <2>1, <2>2, TreeAssumption, Zenon DEF Held, Exists, Watched, Live, InodeOf
      <3>4. ~Exists(f) => text[f] = Absent
        BY Zenon DEF DocumentsInv, FilesInv
      <3>5. (Held(f)' <=> Held(f)) /\ (Watched(f)' <=> Watched(f)) /\ (Exists(f)' <=> Exists(f))
        BY <1>2, <2>4, Zenon DEF Held, Watched, Exists, Live, InodeOf
      <3> QED BY <3>1, <3>2, <3>3, <3>4, <3>5, Zenon
    <2>8. ASSUME NEW f \in Sources, op # NoOp, alive PROVE OperationOf(f)'
      <3>1. OperationOf(f)
        BY <2>8, Zenon DEF DocumentsInv, OperationInv
      <3>2. Dealt(f)' <=> Dealt(f)
        <4>1. f \in scope(op)' <=> f \in scope(op)
          BY <2>3, Zenon DEF scope
        <4> QED BY <1>2, <2>3, <2>4, <4>1, Zenon DEF Dealt
      <3>3. CASE DirOf[f] # d
        <4>1. Pending(f)' <=> Pending(f)
          BY <2>7, <3>3, Zenon DEF Pending
        <4>2. ListedOf(f)' /\ FetchedOf(f)' /\ ReadOf(f)'
          BY <1>2, <2>3, <2>7, <3>1, <4>1, Zenon DEF OperationOf, ListedOf, FetchedOf, ReadOf
        <4>3. SelectedOf(f)' /\ AddedOf(f)'
          BY <1>2, <2>3, <2>4, <2>7, <3>1, <3>2, <4>1, Zenon DEF OperationOf, SelectedOf, AddedOf
        <4> QED BY <4>2, <4>3, Zenon DEF OperationOf
      <3>4. CASE DirOf[f] = d
        <4>1. (Held(f) => Taken(f)) /\ ~Exists(f) /\ text[f] = Absent /\ ~Exists(f)'
          BY <2>7, <3>4, Zenon
        <4>2. f \notin op.listed /\ ~(op.pc = "fetch" /\ op.at = f) /\ op.content[f] = Absent
          <5>1. CASE Taken(f)
            BY <2>6, <2>8, <5>1, Zenon DEF Taken
          <5>2. CASE ~Taken(f)
            BY <3>1, <4>1, <5>2, Zenon DEF OperationOf, ListedOf, FetchedOf, ReadOf
          <5> QED BY <5>1, <5>2, Zenon
        <4>3. DirOf[f] \notin op.added
          BY <2>2, <2>5, <2>8, <3>4, Zenon DEF DocumentsInv, RollbackInv
        <4> QED BY <1>2, <2>3, <2>4, <4>1, <4>2, <4>3, Zenon
              DEF OperationOf, ListedOf, FetchedOf, ReadOf, SelectedOf, AddedOf
      <3> QED BY <3>3, <3>4, Zenon
    <2>9. ASSUME NEW f \in Sources, served PROVE CurrentOf(f)' /\ TrackedOf(f)'
      <3>1. CurrentOf(f) /\ TrackedOf(f) /\ ~Covered(f)
        BY <1>2, <2>9, Zenon DEF DocumentsInv, ServedInv, Covered
      <3>2. f \in Retained' <=> f \in Retained
        BY <1>2, Zenon DEF Retained, NoDocument
      <3>3. DirOf[f] = d /\ Held(f) => Released(f)
        <4>1. alive
          BY <2>9, Zenon DEF served, alive
        <4> QED BY <2>3, <2>5, <2>7, <4>1, Zenon DEF Released, Taken
      <3>4. CurrentOf(f)'
        BY <1>2, <2>4, <2>7, <3>1, <3>2, <3>3, Zenon DEF CurrentOf
      <3>5. CASE DirOf[f] # d
        BY <1>2, <2>4, <2>7, <3>1, <3>2, <3>4, <3>5, Zenon DEF TrackedOf, Pending
      <3>6. CASE DirOf[f] = d
        <4>1. ~Exists(f)' /\ text[f] = Absent /\ ~Watched(f)
          BY <2>7, <3>6, Zenon
        <4>2. f \in Retained => Announced(f)' \/ Released(f)'
          BY <2>4, <2>7, <3>1, <3>3, <3>6, <4>1, Zenon DEF CurrentOf
        <4>3. f \notin Retained => documents[f].text = Absent
          BY NotRetained, Zenon
        <4>4. TrackedOf(f)'
          BY <1>2, <3>2, <4>1, <4>2, <4>3, Zenon DEF TrackedOf, Pending
        <4> QED BY <3>4, <4>4, Zenon
      <3> QED BY <3>5, <3>6, Zenon
    <2> QED BY <1>2, <1>3, <2>3, <2>8, <2>9, ConsumeKeeps, Zenon DEF docVars
  <1>6. CASE ~passedOver(event) /\ closing
    BY <1>1, <1>2, <1>3, <1>6, ConsumeKeeps, Zenon DEF docVars, begin
  <1>7. CASE ~passedOver(event) /\ ~closing
    <2>1. status = "ready"
      BY <1>2, <1>7, Zenon DEF DocumentsInv, StatusInv
    <2> DEFINE kind == IF event[1] = "source" THEN "document" ELSE "tree"
               key == event[2]
    <2>2. op = NoOp /\ op' = newOp("watch", kind, key, FALSE)
      BY <1>1, <1>7, Zenon DEF begin
    <2>3. IF kind = "tree" THEN key \in Directories ELSE key \in Sources
      BY <1>3, Zenon DEF Notices, Directories
    <2>4. ASSUME NEW f \in Sources
          PROVE  Covered(f)' \/ ((Announced(f) => Announced(f)') /\ (Remade(f) => Remade(f)'))
      <3>1. Covered(f)' <=> IF kind = "tree" THEN InSubtree(DirOf[f], key) ELSE f = key
        BY <2>2, Zenon DEF Covered, scope, newOp
      <3>2. CASE Covered(f)'
        BY <3>2, Zenon
      <3>3. CASE ~Covered(f)'
        <4>1. /\ event # <<"source", f>> /\ event # <<"renamed", Root>> /\ event # <<"renamed", DirOf[f]>>
              /\ event # <<"gomod", DirOf[f]>> /\ event # <<"dir", DirOf[f]>>
          BY <3>1, <3>3 DEF InSubtree
        <4> QED BY <1>1, <1>2, <4>1, Zenon DEF Announced, Remade
      <3> QED BY <3>2, <3>3, Zenon
    <2>5. kind \in {"tree", "document"}
      OBVIOUS
    <2> HIDE DEF kind, key
    <2> QED BY <1>2, <1>3, <1>7, <2>1, <2>2, <2>3, <2>4, <2>5, BeginKeeps, Zenon
  <1> QED BY <1>5, <1>6, <1>7, Zenon
-----------------------------------------------------------------------------
\* The run goroutine returns once the watcher is closed.
LEMMA RunDoneKeeps ==
  ASSUME DocumentsInv, runDone
  PROVE  DocumentsInv'
  <1>1. /\ watch = "run" /\ watch' = "done" /\ op.by # "watch" /\ closed
        /\ UNCHANGED <<inode, gomod, text, changes, watched, closed, events, overflow, closing, op, lost>>
        /\ UNCHANGED <<status, documents, explicitPaths, order, nextDocumentGeneration>>
    BY Zenon DEF runDone, fileVars, watchVars, docVars
  <1>2. closing \/ status = "failed"
    BY <1>1, Zenon DEF DocumentsInv, StatusInv
  <1>3. FileType' /\ DocType'
    BY <1>1, Zenon DEF DocumentsInv, FileType, DocType
  <1>4. OpType' /\ StatusInv' /\ CallInv'
    <2>1. OpType'
      BY <1>1, Zenon DEF DocumentsInv, OpType, NoOp, Operations
    <2> QED BY <1>1, <2>1, Zenon DEF DocumentsInv, StatusInv, CallInv, NoOp
  <1>5. FilesInv'
    BY <1>1, Zenon DEF DocumentsInv, FilesInv, Exists, InodeOf
  <1>6. WalkInv' /\ TodoInv' /\ SingleInv' /\ RegisteringInv' /\ RollbackInv'
    BY <1>1, SameOperation, Zenon
  <1>7. DocumentInv'
    BY <1>1, Zenon DEF DocumentsInv, DocumentInv, IndexFollows, Retained, NoDocument
  <1>8. JustifiedInv'
    BY <1>1, Zenon DEF DocumentsInv, JustifiedInv, Justified, NoOp
  <1>9. OperationInv' /\ ServedInv'
    BY <1>1, <1>2, Zenon DEF OperationInv, ServedInv, alive, served
  <1> QED BY <1>3, <1>4, <1>5, <1>6, <1>7, <1>8, <1>9, Zenon DEF DocumentsInv

\* From the mark on, nothing is promised but what the watches stand for.
LEMMA ClosingKeeps ==
  ASSUME DocumentsInv, markClosing \/ closeWatcher
  PROVE  DocumentsInv'
  <1>1. /\ closing' /\ status # "opening" /\ (closed' => closing')
        /\ events' \subseteq events /\ overflow' \in BOOLEAN /\ closed' \in BOOLEAN
        /\ UNCHANGED <<inode, gomod, text, changes, watched, op, watch, lost>>
        /\ UNCHANGED <<status, documents, explicitPaths, order, nextDocumentGeneration>>
    <2>1. CASE markClosing
      BY <2>1, Zenon DEF markClosing, fileVars, watchVars, docVars, DocumentsInv, FileType
    <2>2. CASE closeWatcher
      <3>1. status # "opening"
        BY <2>2, Zenon DEF closeWatcher, DocumentsInv, StatusInv
      <3> QED BY <2>2, <3>1, Zenon DEF closeWatcher, fileVars, docVars
    <2> QED BY <2>1, <2>2, Zenon
  <1>2. closing' \in BOOLEAN
    BY Zenon DEF markClosing, closeWatcher, DocumentsInv, DocType
  <1>3. FileType' /\ DocType'
    BY <1>1, <1>2, Zenon DEF DocumentsInv, FileType, DocType
  <1>4. OpType' /\ StatusInv' /\ CallInv'
    <2>1. OpType'
      BY <1>1, Zenon DEF DocumentsInv, OpType, NoOp, Operations
    <2> QED BY <1>1, <2>1, Zenon DEF DocumentsInv, StatusInv, CallInv, NoOp
  <1>5. FilesInv'
    BY <1>1, Zenon DEF DocumentsInv, FilesInv, Exists, InodeOf
  <1>6. WalkInv' /\ TodoInv' /\ SingleInv' /\ RegisteringInv' /\ RollbackInv'
    BY <1>1, SameOperation, Zenon
  <1>7. DocumentInv'
    BY <1>1, Zenon DEF DocumentsInv, DocumentInv, IndexFollows, Retained, NoDocument
  <1>8. JustifiedInv'
    BY <1>1, Zenon DEF DocumentsInv, JustifiedInv, Justified, NoOp
  <1>9. OperationInv' /\ ServedInv'
    BY <1>1, Zenon DEF OperationInv, ServedInv, alive, served
  <1> QED BY <1>3, <1>4, <1>5, <1>6, <1>7, <1>8, <1>9, Zenon DEF DocumentsInv

\* close releases what is retained, while a caller may still hold the gate.
LEMMA CloseKeeps ==
  ASSUME DocumentsInv, close
  PROVE  DocumentsInv'
  <1>1. /\ closing /\ closed /\ watch = "done" /\ status = "ready" /\ status' = "closed"
        /\ documents' = [f \in Sources |-> NoDocument]
        /\ explicitPaths' = {} /\ order' = {} /\ nextDocumentGeneration' = 0
        /\ UNCHANGED <<inode, gomod, text, changes, watched, closed, events, overflow, closing, op, watch, lost>>
    BY Zenon DEF close, fileVars, watchVars
  <1>2. op.by \notin {"open", "watch"}
    BY <1>1, Zenon DEF DocumentsInv, StatusInv
  <1>3. op # NoOp => op \in Operations /\ op.by = "client" /\ op.kind = "document"
    BY <1>2, Zenon DEF DocumentsInv, OpType, Operations, CallInv
  <1>4. FileType' /\ DocType'
    BY <1>1, Zenon DEF DocumentsInv, FileType, DocType
  <1>5. OpType' /\ StatusInv' /\ CallInv'
    <2>1. OpType'
      BY <1>1, Zenon DEF DocumentsInv, OpType, NoOp, Operations
    <2> QED BY <1>1, <1>2, <2>1, Zenon DEF DocumentsInv, StatusInv, CallInv, NoOp
  <1>6. FilesInv'
    BY <1>1, Zenon DEF DocumentsInv, FilesInv, Exists, InodeOf
  <1>7. WalkInv' /\ SingleInv' /\ RegisteringInv' /\ RollbackInv' /\ (locating' <=> locating)
    BY <1>1, SameOperation, Zenon
  <1>8. TodoInv'
    BY <1>1, <1>3, <1>7, Zenon DEF DocumentsInv, TodoInv, NoOp
  <1>9. DocumentInv'
    BY <1>1, Zenon DEF DocumentInv, IndexFollows, Retained, NoDocument
  <1>10. JustifiedInv' /\ OperationInv' /\ ServedInv'
    BY <1>1, Zenon DEF JustifiedInv, OperationInv, ServedInv, alive, served
  <1> QED BY <1>4, <1>5, <1>6, <1>7, <1>8, <1>9, <1>10, Zenon DEF DocumentsInv

\* The invariant holds when newWorkspace has the root watched.
LEMMA DocumentsInitially == DocumentsInit => DocumentsInv
  <1> SUFFICES ASSUME DocumentsInit PROVE DocumentsInv
    OBVIOUS
  <1>1. /\ inode = [d \in Dirs |-> 1] /\ gomod = {} /\ text \in [Sources -> {Absent, 1}] /\ changes = 0
        /\ watched = [d \in Directories |-> IF d = Root THEN 1 ELSE Absent]
        /\ closed = FALSE /\ events = {} /\ overflow = FALSE
        /\ status = "opening" /\ closing = FALSE /\ documents = [f \in Sources |-> NoDocument]
        /\ explicitPaths = {} /\ order = {} /\ nextDocumentGeneration = 0 /\ watch = "none" /\ lost = {}
    BY Zenon DEF DocumentsInit, InitFiles, InitWatcher
  <1>2. op = newOp("open", "tree", Root, FALSE)
    BY Zenon DEF DocumentsInit
  <1>3. /\ op.by = "open" /\ op.kind = "tree" /\ op.key = Root /\ op.explicit = FALSE /\ op.pc = "list"
        /\ op.walk = {Root} /\ op.todo = {} /\ op.listed = {} /\ op.kept = {} /\ op.added = {}
        /\ op.taken = {}
        /\ op.content = [f \in Sources |-> Absent]
    BY <1>2, Zenon DEF newOp
  <1>4. op \in Operations
    BY <1>2, TreeAssumption, Zenon DEF newOp, Operations, Directories
  <1>5. FileType
    <2>1. Absent \in Nat /\ 1 \in Nat /\ 0 \in Nat
      BY TreeAssumption, Zenon
    <2>2. inode \in [Dirs -> Nat] /\ watched \in [Directories -> Nat] /\ text \in [Sources -> Nat]
      BY <1>1, <2>1, Zenon
    <2> QED BY <1>1, <2>1, <2>2, Zenon DEF FileType
  <1>6. DocType
    BY <1>1, Zenon DEF DocType
  <1>7. OpType
    BY <1>4, Zenon DEF OpType
  <1>8. FilesInv
    <2>1. \A f \in Sources : Exists(f)
      BY <1>1, TreeAssumption DEF Exists, InodeOf, Directories
    <2>2. Root \in Directories /\ watched[Root] = 1
      BY <1>1, Zenon DEF Directories
    <2>3. \A d \in Directories : watched[d] <= changes + 1
      BY <1>1, TreeAssumption
    <2>4. \A d \in Dirs : inode[d] <= changes + 1
      BY <1>1
    <2> QED BY <2>1, <2>2, <2>3, <2>4, Zenon DEF FilesInv
  <1>9. StatusInv /\ CallInv
    BY <1>1, <1>3, Zenon DEF StatusInv, CallInv, Directories
  <1>10. ~registering /\ ~walking /\ ~locating
    BY <1>3, Zenon DEF registering, walking, locating
  <1>11. WalkInv /\ TodoInv /\ SingleInv /\ RegisteringInv /\ RollbackInv
    BY <1>3, <1>10, Zenon DEF WalkInv, TodoInv, SingleInv, RegisteringInv, RollbackInv
  <1>12. DocumentInv
    BY <1>1, Zenon DEF DocumentInv, IndexFollows, Retained
  <1>13. JustifiedInv
    BY <1>1, <1>3, TreeAssumption, Zenon DEF JustifiedInv, Directories
  <1>14. OperationInv
    <2> SUFFICES ASSUME NEW f \in Sources PROVE OperationOf(f)
      BY Zenon DEF OperationInv
    <2>1. op.content[f] = Absent
      BY <1>3, Zenon
    <2> QED BY <1>1, <1>3, <1>10, <2>1, Zenon DEF OperationOf, ListedOf, FetchedOf, ReadOf, SelectedOf, AddedOf, Dealt
  <1>15. ServedInv
    BY <1>1, Zenon DEF ServedInv, served
  <1> QED BY <1>5, <1>6, <1>7, <1>8, <1>9, <1>11, <1>12, <1>13, <1>14, <1>15, Zenon DEF DocumentsInv

\* Every step of the documents keeps the invariant.
LEMMA DocumentsPreserved == DocumentsInv /\ [DocumentsNext]_documentsVars => DocumentsInv'
  <1> SUFFICES ASSUME DocumentsInv, [DocumentsNext]_documentsVars PROVE DocumentsInv'
    OBVIOUS
  <1>1. CASE filesystem /\ UNCHANGED <<docVars, closing, op, watch, refreshes, lost>>
    BY <1>1, FilesystemKeeps, Zenon
  <1>2. CASE list \/ observe \/ read \/ discover \/ add \/ check \/ fetch
    BY <1>2, ListKeeps, ObserveKeeps, ReadKeeps, DiscoverKeeps, AddKeeps, CheckKeeps, FetchKeeps, Zenon
  <1>3. CASE setReady \/ commitTree \/ commitDocument
    BY <1>3, ReadyKeeps, CommitTreeKeeps, CommitDocumentKeeps, Zenon
  <1>4. CASE cancel
    BY <1>4, FailKeeps, Zenon DEF cancel
  <1>5. CASE \E f \in Sources : RefreshDocument(f)
    BY <1>5, RefreshKeeps, Zenon
  <1>6. CASE reconcileWatchEvent \/ reconcileError \/ runDone
    BY <1>6, EventKeeps, ErrorKeeps, RunDoneKeeps, Zenon
  <1>7. CASE markClosing \/ closeWatcher \/ close
    BY <1>7, ClosingKeeps, CloseKeeps, Zenon
  <1>8. CASE UNCHANGED documentsVars
    <2>1. /\ UNCHANGED <<inode, gomod, text, changes, watched, closed, docVars, closing, op, watch, lost>>
          /\ UNCHANGED <<events, overflow, status, documents, explicitPaths>>
      BY <1>8, Zenon DEF documentsVars, fileVars, watchVars, docVars
    <2>2. overflow' \in BOOLEAN
      BY <2>1, Zenon DEF DocumentsInv, FileType
    <2>3. ASSUME NEW f \in Sources
          PROVE  (op # NoOp /\ alive => OperationOf(f)') /\ (served => CurrentOf(f)' /\ TrackedOf(f)')
      <3>1. (registering' <=> registering) /\ (locating' <=> locating)
        BY <2>1, SameOperation, Zenon
      <3>2. (Taken(f)' <=> Taken(f)) /\ (Released(f)' <=> Released(f))
        BY <2>1, <3>1, Zenon DEF Taken, Released, NoOp
      <3>3. /\ (Announced(f)' <=> Announced(f)) /\ (Remade(f)' <=> Remade(f)) /\ (Exists(f)' <=> Exists(f))
            /\ (Held(f)' <=> Held(f)) /\ (Watched(f)' <=> Watched(f))
        <4>1. Held(f)' <=> Held(f)
          BY <2>1, <3>2, Zenon DEF Held
        <4> QED BY <2>1, <4>1, QuietFiles, SameWatch, Zenon
      <3>4. (Covered(f)' <=> Covered(f)) /\ (Dealt(f)' <=> Dealt(f)) /\ (f \in Retained' <=> f \in Retained)
        <4>1. f \in scope(op)' <=> f \in scope(op)
          BY <2>1, Zenon DEF scope
        <4> QED BY <2>1, <3>1, <4>1, Zenon DEF Covered, Dealt, Retained, NoDocument
      <3>5. OperationOf(f) => OperationOf(f)'
        BY <2>1, <3>1, <3>3, <3>4, Zenon DEF OperationOf, ListedOf, FetchedOf, ReadOf, SelectedOf, AddedOf, Pending
      <3>6. CurrentOf(f) /\ TrackedOf(f) => CurrentOf(f)' /\ TrackedOf(f)'
        BY <2>1, <3>2, <3>3, <3>4, Zenon DEF CurrentOf, TrackedOf, Pending
      <3> QED BY <3>5, <3>6, Zenon DEF DocumentsInv, OperationInv, ServedInv
    <2> QED BY <2>1, <2>2, <2>3, ConsumeKeeps, Zenon
  <1> QED BY <1>1, <1>2, <1>3, <1>4, <1>5, <1>6, <1>7, <1>8, Zenon DEF DocumentsNext

\* The inductive invariant of the documents holds, for any tree of sources and any
\* number of changes and selections.
THEOREM DocumentsInductive == DocumentsSpec => []DocumentsInv
  BY DocumentsInitially, DocumentsPreserved, PTL DEF DocumentsSpec

\* Once no event is pending, a retained document is what its file reads and its
\* directory is watched, and a selected source is tracked, whatever happened while it
\* was listed, read, watched and published: SettledIsCurrent.
THEOREM SettledCurrent == DocumentsSpec => []SettledIsCurrent
  <1>1. DocumentsInv => SettledIsCurrent
    <2> SUFFICES ASSUME DocumentsInv, settled, lost = {}
                 PROVE  /\ \A f \in Retained : text[f] = documents[f].text /\ Live(DirOf[f])
                        /\ \A f \in explicitPaths :
                             /\ documents[f].text = text[f]
                             /\ InodeOf(DirOf[f]) # Absent => Live(DirOf[f])
      BY Zenon DEF SettledIsCurrent, RetainedAreCurrent, AdmittedAreTracked
    <2>1. \A f \in Sources : ~Pending(f) /\ ~Covered(f) /\ ~Released(f)
      BY Zenon DEF settled, Pending, Announced, Remade, Covered, Released, NoOp
    <2>2. \A f \in Sources : CurrentOf(f) /\ TrackedOf(f)
      BY Zenon DEF settled, served, DocumentsInv, ServedInv
    <2>3. explicitPaths \subseteq Sources /\ Retained \subseteq Sources
      BY Zenon DEF DocumentsInv, DocType, Retained
    <2> QED BY <2>1, <2>2, <2>3, Zenon DEF CurrentOf, TrackedOf, Pending, Watched, Exists
  <1> QED BY <1>1, DocumentsInductive, PTL

\* The lists name exactly the retained documents, nothing is retained but by a ready
\* workspace, and an excluded directory is watched only for a selected source:
\* RegistrationsFollow.
THEOREM Registrations == DocumentsSpec => []RegistrationsFollow
  <1>1. DocumentsInv => RegistrationsFollow
    BY Zenon DEF DocumentsInv, DocumentInv, JustifiedInv, Justified, RegistrationsFollow, WatchesJustified
  <1> QED BY <1>1, DocumentsInductive, PTL
-----------------------------------------------------------------------------
(***************************************************************************)
(* Document generations.  A publication numbers the documents it changes   *)
(* by counting them, so this part needs the facts about finite sets.       *)
(***************************************************************************)
Counting == INSTANCE FiniteSetTheorems

\* The number of a set of sources is a natural number, and positive when a source is there.
LEMMA Counted ==
  ASSUME NEW T \in SUBSET Sources
  PROVE  Cardinality(T) \in Nat /\ (T # {} => Cardinality(T) # 0)
  <1>1. Counting!IsFiniteSet(Sources)
    BY DocumentsAssumption, Zenon DEF IsFiniteSet, Counting!IsFiniteSet
  <1>2. Counting!IsFiniteSet(T)
    BY <1>1, Counting!FS_Subset, Zenon
  <1>3. Counting!Cardinality(T) \in Nat /\ (T # {} => Counting!Cardinality(T) # 0)
    BY <1>2, Counting!FS_CardinalityType, Counting!FS_EmptySet, Zenon
  <1>4. Cardinality(T) = Counting!Cardinality(T)
    BY Zenon DEF Cardinality, Counting!Cardinality, IsFiniteSet, Counting!IsFiniteSet
  <1> QED BY <1>3, <1>4, Zenon

\* setReadyLocked, commitTree and commitDocument number what they change above every
\* generation given before.
LEMMA ContentNumbered ==
  ASSUME nextDocumentGeneration \in Nat, NEW S \in SUBSET Sources, NEW content, applyContent(S, content)
  PROVE  /\ nextDocumentGeneration' \in Nat
         /\ \A f \in Sources : documents'[f] # documents[f] /\ documents'[f] # NoDocument =>
              documents'[f].generation > nextDocumentGeneration
  <1> DEFINE changed == {f \in S : content[f] # Absent /\ ~sameState(f, content[f])}
             gone == {f \in S : content[f] = Absent}
             before(f) == {g \in changed : g <= f}
             made(f) == [text |-> content[f], revision |-> documents[f].revision + 1,
                         generation |-> nextDocumentGeneration + Cardinality(before(f))]
  <1>1. /\ documents' = [f \in Sources |-> CASE f \in gone -> NoDocument
                                             [] f \in changed -> made(f)
                                             [] OTHER -> documents[f]]
        /\ nextDocumentGeneration' = nextDocumentGeneration + Cardinality(changed)
    BY Zenon DEF applyContent
  <1>2. changed \in SUBSET Sources
    BY Zenon
  <1>3. Cardinality(changed) \in Nat
    BY <1>2, Counted, Zenon
  <1>4. ASSUME NEW f \in Sources, documents'[f] # documents[f], documents'[f] # NoDocument
        PROVE  documents'[f].generation > nextDocumentGeneration
    <2> HIDE DEF made
    <2>1. f \in changed /\ documents'[f] = made(f)
      <3>1. ~(f \in gone /\ f \in changed)
        BY Zenon
      <3> HIDE DEF gone, changed
      <3> QED BY <1>1, <1>4, <3>1, Zenon
    <2>2. before(f) \in SUBSET Sources /\ before(f) # {}
      BY <1>2, <2>1, SourcesOrdered, Zenon
    <2> HIDE DEF changed, before
    <2>3. Cardinality(before(f)) \in Nat \ {0}
      BY <2>2, Counted, Zenon
    <2>4. made(f).generation = nextDocumentGeneration + Cardinality(before(f))
      BY Zenon DEF made
    <2>5. documents'[f].generation = nextDocumentGeneration + Cardinality(before(f))
      BY <2>1, <2>4, Zenon
    <2> QED BY <2>3, <2>5, CountedAbove, Zenon
  <1> HIDE DEF changed
  <1>5. nextDocumentGeneration' \in Nat
    BY <1>1, <1>3
  <1> QED BY <1>4, <1>5, Zenon

\* Every step numbers the documents it changes, and leaves the counter a number.
LEMMA StepNumbered ==
  ASSUME DocumentsInv, nextDocumentGeneration \in Nat, DocumentsNext
  PROVE  /\ nextDocumentGeneration' \in Nat
         /\ status' = "ready" => \A f \in Sources :
              documents'[f] # documents[f] /\ documents'[f] # NoDocument =>
                /\ documents'[f].generation > nextDocumentGeneration
                /\ documents'[f].text # documents[f].text
  <1>1. CASE UNCHANGED <<documents, nextDocumentGeneration>>
    BY <1>1, Zenon
  <1>2. ASSUME op # NoOp, NEW S \in SUBSET Sources, applyContent(S, op.content)
        PROVE  /\ nextDocumentGeneration' \in Nat
               /\ \A f \in Sources : documents'[f] # documents[f] /\ documents'[f] # NoDocument =>
                    /\ documents'[f].generation > nextDocumentGeneration
                    /\ documents'[f].text # documents[f].text
    <2>1. op.content \in [Sources -> Nat]
      BY <1>2, Zenon DEF DocumentsInv, OpType, Operations
    <2> QED BY <1>2, <2>1, ContentApplied, ContentNumbered, Zenon
  <1>3. CASE setReady
    <2>1. op # NoOp /\ applyContent(Sources, op.content)
      BY <1>3, Idle, Zenon DEF setReady
    <2> QED BY <1>2, <2>1, Zenon
  <1>4. CASE commitTree
    <2> DEFINE S == {f \in Sources : InSubtree(DirOf[f], op.key)}
    <2>1. op # NoOp
      BY <1>4, Idle, Zenon DEF commitTree
    <2>2. applyContent(S, op.content) \/ UNCHANGED <<documents, nextDocumentGeneration>>
      BY <1>4, Zenon DEF commitTree, fail
    <2>3. S \in SUBSET Sources
      BY Zenon
    <2> HIDE DEF S
    <2> QED BY <1>1, <1>2, <2>1, <2>2, <2>3, Zenon
  <1>5. CASE commitDocument
    <2>1. op # NoOp /\ op.kind = "document"
      BY <1>5, Idle, Zenon DEF commitDocument
    <2>2. {op.key} \in SUBSET Sources
      BY <2>1, Zenon DEF DocumentsInv, CallInv
    <2>3. applyContent({op.key}, op.content) \/ UNCHANGED <<documents, nextDocumentGeneration>>
      BY <1>5, Zenon DEF commitDocument, fail
    <2> QED BY <1>1, <1>2, <2>1, <2>2, <2>3, Zenon
  <1>6. CASE list \/ fetch
    BY <1>1, <1>6, Zenon DEF list, fetch, step, docVars
  <1>7. CASE observe \/ read
    BY <1>1, <1>7, Zenon DEF observe, read, enter, vanished, unwatch, fail, step, docVars
  <1>8. CASE discover \/ cancel
    BY <1>1, <1>8, Zenon DEF discover, cancel, unwatch, fail, step, docVars
  <1>9. CASE add \/ check
    BY <1>1, <1>9, Zenon DEF add, check, notFound, enter, vanished, fail, step, docVars
  <1>10. CASE (\E f \in Sources : RefreshDocument(f)) \/ reconcileWatchEvent \/ reconcileError
             \/ runDone \/ markClosing \/ closeWatcher
    BY <1>1, <1>10, Zenon DEF RefreshDocument, reconcileWatchEvent, reconcileError, runDone, markClosing,
         closeWatcher, docVars
  <1>11. CASE filesystem /\ UNCHANGED <<docVars, closing, op, watch, refreshes, lost>>
    BY <1>1, <1>11, Zenon DEF docVars
  <1>12. CASE close
    <2>1. status' = "closed" /\ nextDocumentGeneration' = 0
      BY <1>12, Zenon DEF close
    <2> QED BY <2>1, Zenon
  <1> QED BY <1>3, <1>4, <1>5, <1>6, <1>7, <1>8, <1>9, <1>10, <1>11, <1>12, Zenon DEF DocumentsNext

\* A changed document gets a generation greater than any before, and an unchanged one
\* keeps its own: GenerationsNameStates.
THEOREM Generations == DocumentsSpec => GenerationsNameStates
  <1> DEFINE Numbered == nextDocumentGeneration \in Nat
             Named == status = "ready" /\ status' = "ready" => \A f \in Sources :
               documents'[f] # documents[f] /\ documents'[f] # NoDocument =>
                 /\ documents'[f].generation > nextDocumentGeneration
                 /\ documents'[f].text # documents[f].text
  <1>1. DocumentsInit => Numbered
    <2> SUFFICES ASSUME DocumentsInit PROVE nextDocumentGeneration \in Nat
      BY Zenon
    <2>1. nextDocumentGeneration = 0
      BY Zenon DEF DocumentsInit
    <2> QED BY <2>1, Zenon
  <1>2. DocumentsInv /\ Numbered /\ [DocumentsNext]_documentsVars => Numbered'
    <2>1. CASE UNCHANGED documentsVars
      BY <2>1, Zenon DEF documentsVars, docVars
    <2> QED BY <2>1, StepNumbered, Zenon
  <1>3. DocumentsInv /\ Numbered /\ [DocumentsNext]_documentsVars => [Named]_documentsVars
    BY StepNumbered, Zenon
  <1> QED BY <1>1, <1>2, <1>3, DocumentsInductive, PTL DEF DocumentsSpec, GenerationsNameStates
=============================================================================
