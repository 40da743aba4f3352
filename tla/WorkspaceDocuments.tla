------------------------- MODULE WorkspaceDocuments -------------------------
(***************************************************************************)
(* The retained documents of one workspace: the initial load, the watch    *)
(* goroutine that reconciles them with the filesystem, RefreshDocument,    *)
(* and the close (internal/workspace: loader.go, refresh.go,               *)
(* refresh_io.go, watch_registration.go, workspace.go).                    *)
(*                                                                         *)
(* mutationGate admits one reconciliation at a time; op is the one that    *)
(* holds it, with what it has listed, read and watched so far.  The files  *)
(* change between any two of its steps.  Parsing, diagnostics and paths    *)
(* are abstracted to the text of a source.                                 *)
(***************************************************************************)
EXTENDS WorkspaceWatcher, FiniteSets

CONSTANTS Unreadable,        \* the content of newUnreadableDocument
          MaxRefreshes       \* bound: RefreshDocument calls in a behaviour

ASSUME DocumentsAssumption ==
  /\ IsFiniteSet(Sources)
  /\ Unreadable \in Nat /\ Unreadable \notin Texts \cup {Absent} /\ MaxRefreshes \in Nat

VARIABLES
  status,        \* Workspace.state
  closing,       \* Workspace.closing
  documents,     \* Workspace.documents
  explicitPaths, \* Workspace.explicitPaths
  order,         \* Workspace.order and files: the sources they list
  nextDocumentGeneration,
  op,            \* the holder of mutationGate
  watch,         \* the run goroutine
  refreshes,     \* RefreshDocument calls so far
  lost           \* history, how the files can have been lost track of: "error", a
                 \* reconciliation of the watcher failed; "unwatched", an operation
                 \* took the watch of a retained document's directory with it

docVars == <<status, documents, explicitPaths, order, nextDocumentGeneration>>
documentsVars == <<fileVars, watchVars, docVars, closing, op, watch, refreshes, lost>>

NoOp == [by |-> "none", pc |-> "none"]
NoDocument == [text |-> Absent, revision |-> 0, generation |-> 0]
Retained == {f \in Sources : documents[f] # NoDocument}

\* walk: directories still to list; at: the one being walked, or the source being
\* read; entries, subs: what its ReadDir returned; listed: the sources to read;
\* kept: workspaceContent.directories; todo: single sources to discover; added:
\* watchRegistration.added.  While addDirectory runs, then is the step it was called
\* from and seen the inode it found; taken are the directories whose entry it
\* deleted and has not replaced.
newOp(by, kind, key, explicit) ==
  [by |-> by, kind |-> kind, key |-> key, explicit |-> explicit,
   pc |-> IF kind = "tree" THEN "list" ELSE "discover",
   walk |-> IF kind = "tree" THEN {key} ELSE {}, at |-> key, entries |-> {}, subs |-> {},
   listed |-> {}, kept |-> {}, todo |-> IF kind = "tree" THEN {} ELSE {key}, added |-> {},
   then |-> "none", seen |-> Absent, taken |-> {},
   content |-> [f \in Sources |-> Absent]]

DocumentsInit ==
  /\ InitFiles /\ InitWatcher
  /\ status = "opening" /\ closing = FALSE
  /\ documents = [f \in Sources |-> NoDocument]
  /\ explicitPaths = {} /\ order = {} /\ nextDocumentGeneration = 0
  /\ op = newOp("open", "tree", Root, FALSE)
  /\ watch = "none" /\ refreshes = 0 /\ lost = {}
-----------------------------------------------------------------------------
(* Watch registration *)

\* Mutant: an error returns without finishMutation.
FailKeepsGate ==
  /\ op' = [op EXCEPT !.pc = "returned"]
  /\ watched' = removeDirectories(watched, op.added \cup op.taken)
  /\ UNCHANGED <<closed, lost, docVars>>

\* Neither addDirectory, when it fails, nor the rollback restores the watch it
\* replaced, though documents may be retained in that directory.
unwatched(ds) ==
  {r \in {"unwatched"} : \E f \in Sources : documents'[f] # NoDocument /\ DirOf[f] \in ds}

setFailed == status' = IF op.by = "open" THEN "failed" ELSE status

\* The operation ends without having published: the watches it added go.  Nobody
\* retries the watcher.
fail ==
  /\ op' = NoOp
  /\ watched' = removeDirectories(watched, op.added \cup op.taken)
  /\ UNCHANGED <<documents, explicitPaths, order, nextDocumentGeneration>>
  /\ lost' = lost \cup unwatched(op.added \cup op.taken)
                   \cup {r \in {"error"} : op.by = "watch" /\ ~closing}
  /\ closed' = (closed \/ op.by = "open")
  /\ setFailed

step(o) ==
  /\ op' = o
  /\ UNCHANGED <<watched, closed, lost, docVars>>

opUnchanged == UNCHANGED <<fileVars, events, overflow, closing, watch, refreshes>>

\* workspaceWatcher.mu is held from the first Lstat of addDirectory to its return.
registering == op.pc \in {"add", "check"}

\* A caller's context ends, or the watcher's when it is closed.
cancel ==
  /\ op # NoOp /\ ~registering
  /\ op.by = "watch" => closed
  /\ fail
  /\ opUnchanged
-----------------------------------------------------------------------------
(* Loading a subtree *)

validateWorkspaceDirectory(d) == d = Root \/ ~(isExcludedDirectory(d) \/ workspacePathMissing(d))

walked(o) == [o EXCEPT !.pc = IF o.walk = {} THEN "read" ELSE "list"]

\* ReadDir; a pruned or vanished directory has no content, a module boundary is
\* watched and not entered.
list ==
  /\ op.pc = "list"
  /\ \E d \in op.walk :
       LET o == [op EXCEPT !.walk = @ \ {d}] IN
       IF ~validateWorkspaceDirectory(d) THEN step(walked(o))
       ELSE step([o EXCEPT
              !.pc = "observe", !.at = d,
              !.entries = IF containsGoModule(d) THEN {} ELSE {f \in InDir(d) : text[f] # Absent},
              !.subs = IF d = Root THEN {c \in Dirs : validateWorkspaceDirectory(c)} ELSE {}])
  /\ opUnchanged

\* The sources of the subtree that were selected and are not loaded yet.
selected(o, content) ==
  {f \in explicitPaths : InSubtree(DirOf[f], o.key) /\ content[f] = Absent}

advance(o) == [o EXCEPT !.pc = IF o.todo = {} THEN "commit" ELSE "discover"]

\* A listed source has vanished: entry.Info fails, which below the root is taken
\* for the disappearance of the whole subtree.
vanished(o) ==
  IF op.key = Root THEN fail
  ELSE step(advance([o EXCEPT !.walk = {}, !.listed = {}, !.kept = {},
                              !.content = [f \in Sources |-> Absent],
                              !.todo = selected(op, [f \in Sources |-> Absent])]))

\* The walk goes on in the directory it has watched.
enter(o) ==
  IF \E f \in o.entries : text[f] = Absent THEN vanished(o)
  ELSE step(walked([o EXCEPT !.kept = @ \cup {o.at}, !.listed = @ \cup o.entries,
                             !.walk = @ \cup o.subs]))

\* addDirectory, up to the call of the backend: the directory was found, and the
\* watch on another inode under its name is deleted.
registration(o, d) == [o EXCEPT !.pc = "add", !.then = op.pc, !.seen = InodeOf(d),
                                !.taken = @ \cup {d}]

unwatch(o, d) ==
  /\ op' = registration(o, d)
  /\ watched' = removeDirectories(watched, {d})
  /\ UNCHANGED <<closed, lost, docVars>>

\* The directory is watched after it was listed.
observe ==
  /\ op.pc = "observe"
  /\ IF closed THEN fail
     ELSE IF workspacePathMissing(op.at) THEN step(walked(op))
     ELSE IF addsDirectory(op.at) THEN unwatch(op, op.at)
     ELSE enter(op)
  /\ opUnchanged

\* A source that cannot be read is retained, with a diagnostic.
newDocument(t) == IF t = Absent THEN Unreadable ELSE t

\* Every listed source is read, one that is gone by now as unreadable.
read ==
  /\ op.pc = "read"
  /\ \/ (\E f \in op.listed : text[f] = Absent) /\ vanished(op)
     \/ LET content == [f \in Sources |->
               IF f \in op.listed THEN newDocument(text[f]) ELSE Absent]
        IN step(advance([op EXCEPT !.content = content, !.todo = selected(op, content)]))
  /\ opUnchanged
-----------------------------------------------------------------------------
(* Discovering one source *)

Selected(f) == op.explicit \/ f \in explicitPaths

validateDocumentAncestors(f) ==
  ~workspacePathMissing(DirOf[f]) /\ (isExcludedDirectory(DirOf[f]) => Selected(f))

\* The source is read in the directory that is watched now.
locate(o) == [o EXCEPT !.pc = "fetch", !.kept = @ \cup {DirOf[o.at]}]

\* The directory is watched before the source is read.
discover ==
  /\ op.pc = "discover"
  /\ \E f \in op.todo :
       LET d == DirOf[f]
           o == [op EXCEPT !.todo = @ \ {f}, !.kept = @ \cup {Root}]
       IN IF closed THEN fail
          ELSE IF ~validateDocumentAncestors(f) THEN step(advance(o))
          ELSE IF addsDirectory(d) THEN unwatch([o EXCEPT !.at = f], d)
          ELSE step(locate([o EXCEPT !.at = f]))
  /\ opUnchanged

\* What a source can be found to read: one that is replaced while it is opened is
\* not found, and its event is pending.
readDiscoveredDocument(f) ==
  IF containsGoModule(DirOf[f]) /\ ~Selected(f) THEN {Absent}
  ELSE {text[f]} \cup (IF <<"source", f>> \in events THEN {Absent} ELSE {})

fetch ==
  /\ op.pc = "fetch"
  /\ \E t \in readDiscoveredDocument(op.at) : step(advance([op EXCEPT !.content[op.at] = t]))
  /\ opUnchanged
-----------------------------------------------------------------------------
(* addDirectory, from the call of the backend *)

adding == IF op.then = "observe" THEN op.at ELSE DirOf[op.at]

registered(o) == [o EXCEPT !.then = "none", !.seen = Absent]

\* The path is gone: for the walk and for a discovery there is nothing there.
notFound ==
  LET o == registered(op) IN
  /\ op' = IF op.then = "observe" THEN walked(o) ELSE advance(o)
  /\ watched' = removeDirectories(watched, {adding})
  /\ UNCHANGED <<closed, lost, docVars>>

\* backend.Add, which may refuse.
add ==
  /\ op.pc = "add"
  /\ \/ fail
     \/ workspacePathMissing(adding) /\ notFound
     \/ /\ ~workspacePathMissing(adding)
        /\ op' = [op EXCEPT !.pc = "check"]
        /\ watched' = backendAdd(adding)
        /\ UNCHANGED <<closed, lost, docVars>>
  /\ opUnchanged

\* The second Lstat: the watch is on the directory seen before, or it goes.
check ==
  /\ op.pc = "check"
  /\ IF workspacePathMissing(adding) THEN notFound
     ELSE IF InodeOf(adding) # op.seen THEN fail
     ELSE LET o == [registered(op) EXCEPT !.taken = @ \ {adding}, !.added = @ \cup {adding}]
          IN IF op.then = "observe" THEN enter(o) ELSE step(locate(o))
  /\ opUnchanged
-----------------------------------------------------------------------------
(* Publishing *)

sameState(f, t) == documents[f].text = t

\* Mutant: generations are counted per document.
ApplyContentPerPath(scope, content) ==
  /\ documents' = [f \in Sources |->
       IF f \notin scope \/ content[f] = documents[f].text THEN documents[f]
       ELSE IF content[f] = Absent THEN NoDocument
       ELSE [text |-> content[f], revision |-> documents[f].revision + 1,
             generation |-> documents[f].generation + 1]]
  /\ nextDocumentGeneration' = nextDocumentGeneration + 1
  /\ order' = {f \in Sources : documents'[f] # NoDocument}

\* Within scope, the documents become the content; a changed one gets the next
\* generations in path order, and the index follows the membership.
applyContent(scope, content) ==
  LET changed == {f \in scope : content[f] # Absent /\ ~sameState(f, content[f])}
      gone == {f \in scope : content[f] = Absent}
  IN /\ documents' = [f \in Sources |->
            CASE f \in gone -> NoDocument
              [] f \in changed ->
                   [text |-> content[f], revision |-> documents[f].revision + 1,
                    generation |-> nextDocumentGeneration + Cardinality({g \in changed : g <= f})]
              [] OTHER -> documents[f]]
     /\ nextDocumentGeneration' = nextDocumentGeneration + Cardinality(changed)
     /\ order' = (order \ gone) \cup changed

Start == watch' = "run"

\* Opening: the loaded documents are published and the watcher is started.
setReady ==
  /\ op.by = "open" /\ op.pc = "commit"
  /\ applyContent(Sources, op.content)
  /\ lost' = lost \cup unwatched(op.taken)
  /\ status' = "ready" /\ Start /\ op' = NoOp
  /\ UNCHANGED <<fileVars, watchVars, closing, explicitPaths, refreshes>>

commitTree ==
  /\ op.pc = "commit" /\ op.kind = "tree" /\ op.by # "open"
  /\ IF closing THEN fail
     ELSE /\ applyContent({f \in Sources : InSubtree(DirOf[f], op.key)}, op.content)
          /\ watched' = ReplaceSubtree(watched, op.key, op.kept)
          /\ lost' = lost \cup unwatched(op.taken)
          /\ op' = NoOp
          /\ UNCHANGED <<closed, status, explicitPaths>>
  /\ opUnchanged

\* Mutant: the close is not checked again before publishing.
CommitDocumentLate ==
  /\ op.pc = "commit" /\ op.kind = "document"
  /\ applyContent({op.key}, op.content)
  /\ op' = NoOp
  /\ UNCHANGED <<watched, closed, lost, status, explicitPaths>>
  /\ opUnchanged

\* A selection that finds nothing keeps its watches only if it was admitted before.
commitDocument ==
  /\ op.pc = "commit" /\ op.kind = "document"
  /\ IF closing THEN fail
     ELSE LET f == op.key
              found == op.content[f] # Absent
              committed == found \/ ~op.explicit \/ f \in explicitPaths
          IN /\ applyContent({f}, op.content)
             /\ explicitPaths' = IF found /\ op.explicit THEN explicitPaths \cup {f}
                                 ELSE explicitPaths
             /\ watched' = IF committed THEN watched ELSE removeDirectories(watched, op.added)
             /\ lost' = lost \cup unwatched(IF committed THEN op.taken ELSE op.added \cup op.taken)
             /\ op' = NoOp
             /\ UNCHANGED <<closed, status>>
  /\ opUnchanged
-----------------------------------------------------------------------------
(* RefreshDocument, and the run goroutine *)

begin(by, kind, key, explicit) ==
  op' = IF closing THEN op ELSE newOp(by, kind, key, explicit)

RefreshDocument(f) ==
  /\ status = "ready" /\ ~closing /\ op = NoOp
  /\ refreshes < MaxRefreshes
  /\ refreshes' = refreshes + 1
  /\ begin("client", "document", f, TRUE)
  /\ UNCHANGED <<fileVars, watchVars, docVars, closing, watch, lost>>

\* A directory that is gone and not watched is passed over without the gate.
passedOver(event) ==
  event[1] = "dir" /\ inode[event[2]] = Absent /\ ~WatchesSubtree(event[2])

reconcileWatchEvent ==
  /\ watch = "run" /\ ~closed /\ op.by # "watch"
  /\ \E event \in events :
       /\ events' = events \ {event}
       /\ IF passedOver(event) THEN ~registering /\ UNCHANGED op
          ELSE /\ op = NoOp
               /\ begin("watch", IF event[1] = "source" THEN "document" ELSE "tree", event[2], FALSE)
  /\ UNCHANGED <<fileVars, watched, closed, overflow, docVars, closing, watch, refreshes, lost>>

\* An error of the backend reconciles the whole workspace.
reconcileError ==
  /\ watch = "run" /\ ~closed /\ op = NoOp
  /\ overflow /\ overflow' = FALSE
  /\ begin("watch", "tree", Root, FALSE)
  /\ UNCHANGED <<fileVars, watched, closed, events, docVars, closing, watch, refreshes, lost>>

runDone ==
  /\ watch = "run" /\ closed /\ op.by # "watch"
  /\ watch' = "done"
  /\ UNCHANGED <<fileVars, watchVars, docVars, closing, op, refreshes, lost>>
-----------------------------------------------------------------------------
(* Closing *)

markClosing ==
  /\ status = "ready" /\ ~closing
  /\ closing' = TRUE
  /\ UNCHANGED <<fileVars, watchVars, docVars, op, watch, refreshes, lost>>

\* Close of the watcher: the backend is closed and the goroutine told to return.
closeWatcher ==
  /\ closing /\ ~closed /\ ~registering
  /\ closed' = TRUE /\ events' = {} /\ overflow' = FALSE
  /\ UNCHANGED <<fileVars, watched, docVars, closing, op, watch, refreshes, lost>>

\* The goroutine has returned; the retained state is released.
close ==
  /\ closing /\ closed /\ watch = "done" /\ status = "ready"
  /\ status' = "closed"
  /\ documents' = [f \in Sources |-> NoDocument]
  /\ explicitPaths' = {} /\ order' = {} /\ nextDocumentGeneration' = 0
  /\ UNCHANGED <<fileVars, watchVars, closing, op, watch, refreshes, lost>>
-----------------------------------------------------------------------------
reconcile ==
  list \/ observe \/ read \/ discover \/ add \/ check \/ fetch \/ commitTree \/ commitDocument

DocumentsNext ==
  \/ filesystem /\ UNCHANGED <<docVars, closing, op, watch, refreshes, lost>>
  \/ list \/ observe \/ read \/ discover \/ add \/ check \/ fetch
  \/ setReady \/ commitTree \/ commitDocument \/ cancel
  \/ \E f \in Sources : RefreshDocument(f)
  \/ reconcileWatchEvent \/ reconcileError \/ runDone
  \/ markClosing \/ closeWatcher \/ close

DocumentsSpec == DocumentsInit /\ [][DocumentsNext]_documentsVars

\* A reconciliation runs on once it holds the gate, the run goroutine takes what
\* is pending, and a close goes on.  Callers and the filesystem promise nothing.
DocumentsFairness ==
  /\ WF_documentsVars(reconcile \/ setReady)
  /\ WF_documentsVars(reconcileWatchEvent \/ reconcileError \/ runDone)
  /\ WF_documentsVars(closeWatcher)
  /\ WF_documentsVars(close)

FairDocumentsSpec == DocumentsSpec /\ DocumentsFairness
-----------------------------------------------------------------------------
(* Properties *)

\* Nothing is pending: what the workspace retains is what it will go on retaining.
settled == status = "ready" /\ ~closing /\ op = NoOp /\ events = {} /\ ~overflow

\* A retained document is what its file reads once the pending events are handled,
\* and the directory it is in is watched, unless a reconciliation of the watcher
\* failed or an operation took its watch: a pruned subtree or a directory made anew
\* never leaves one that later changes would not reach.
RetainedAreCurrent ==
  settled /\ lost = {} => \A f \in Retained : text[f] = documents[f].text /\ Live(DirOf[f])

\* Changes made while a source is being selected are observed: also where the watch
\* of its directory was rolled back.
ConcurrentChangesObserved ==
  settled /\ "error" \notin lost => \A f \in Retained : text[f] = documents[f].text

\* A selected source stays tracked below an excluded directory or in a module,
\* through deletion, recreation and the reconciliation of its subtree.
AdmittedAreTracked ==
  settled /\ lost = {} => \A f \in explicitPaths :
    /\ documents[f].text = text[f]
    /\ InodeOf(DirOf[f]) # Absent => Live(DirOf[f])

\* What is eligible is retained and what is not is not.
Converges ==
  settled /\ lost = {} => \A f \in Sources :
    LET eligible == f \in explicitPaths \/ DirOf[f] \notin Excluded \cup gomod
    IN documents[f].text = IF eligible THEN text[f] ELSE Absent

\* A failed or cancelled selection leaves no watch behind: an excluded directory
\* is watched only for a source that was admitted below it.
WatchesJustified ==
  op = NoOp /\ status = "ready" => \A d \in Excluded :
    watched[d] # Absent => \E f \in explicitPaths : DirOf[f] = d

\* A generation names one state of one document for good: a changed document gets
\* a greater one than any before, also after deletion, and an unchanged one keeps
\* its own.
GenerationsNameStates ==
  [][status = "ready" /\ status' = "ready" => \A f \in Sources :
       documents'[f] # documents[f] /\ documents'[f] # NoDocument =>
         /\ documents'[f].generation > nextDocumentGeneration
         /\ documents'[f].text # documents[f].text]_documentsVars

\* The lists of files and documents name exactly the retained documents, and a
\* reconciliation that outlives the close publishes nothing.
IndexFollows ==
  /\ order = Retained
  /\ status # "ready" => Retained = {} /\ explicitPaths = {}

\* A close completes: the run goroutine returns also while a caller holds the gate.
CloseCompletes == closing ~> status = "closed"

\* Once the pending events are handled the workspace shows the files: what it
\* retains is current, and what was selected stays tracked.
SettledIsCurrent == RetainedAreCurrent /\ AdmittedAreTracked

\* What is registered follows from what is retained: the lists from the documents,
\* the watches of excluded directories from the selections, and a reconciliation
\* that fails, is cancelled or outlives the close registers nothing.
RegistrationsFollow == IndexFollows /\ WatchesJustified
=============================================================================
