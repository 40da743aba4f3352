-------------------------- MODULE WorkspaceWatcher --------------------------
(***************************************************************************)
(* The filesystem below a workspace root, the fsnotify backend, and        *)
(* internal/workspace/watcher.go, which keeps one watch per directory.     *)
(*                                                                         *)
(* The tree is one level deep: Dirs are the root's directories, of which   *)
(* Excluded have a name that discovery prunes; a source is in the root or  *)
(* in one of them.  A directory that is removed and made again has another *)
(* inode.  Pending events are a set: handling one reads the present state, *)
(* so neither a duplicate nor their order changes what is reached.         *)
(***************************************************************************)
EXTENDS Naturals

CONSTANTS Root, Dirs, Excluded, Sources, DirOf, Texts, Absent,
          MaxChanges         \* bound: filesystem changes in a behaviour

ASSUME TreeAssumption ==
  /\ Root \notin Dirs /\ Excluded \subseteq Dirs
  /\ Sources \subseteq Nat \ {0} /\ DirOf \in [Sources -> Dirs \cup {Root}]
  /\ Texts \subseteq Nat \ {0} /\ Absent = 0
  /\ MaxChanges \in Nat

VARIABLES
  inode,     \* directory -> its inode, Absent if there is none
  gomod,     \* the directories that hold a go.mod
  text,      \* source -> what it reads, Absent if there is no regular file
  changes,   \* how often the filesystem changed
  watched,   \* workspaceWatcher.watched: directory -> the inode watched
  closed,    \* workspaceWatcher.closed, with the backend
  events,    \* pending in backend.Events
  overflow   \* pending in backend.Errors: events were dropped

fileVars == <<inode, gomod, text, changes>>
watchVars == <<watched, closed, events, overflow>>

Directories == Dirs \cup {Root}
InDir(d) == {f \in Sources : DirOf[f] = d}
InodeOf(d) == IF d = Root THEN 1 ELSE inode[d]
InSubtree(d, key) == key = Root \/ d = key

isExcludedDirectory(d) == d \in Excluded
containsGoModule(d) == d \in gomod
workspacePathMissing(d) == InodeOf(d) = Absent
-----------------------------------------------------------------------------
(* The watcher *)

\* newWorkspaceWatcher, and AddDirectory(".") before the load.
InitWatcher ==
  /\ watched = [d \in Directories |-> IF d = Root THEN 1 ELSE Absent]
  /\ closed = FALSE /\ events = {} /\ overflow = FALSE

\* Mutant: a directory watched under its name is not looked at again.
AddsByName(d) == watched[d] = Absent

\* A directory whose path names another inode than the watched one is re-added.
addsDirectory(d) == watched[d] # InodeOf(d)

\* backend.Add watches the inode the path names by then.
backendAdd(d) == [watched EXCEPT ![d] = InodeOf(d)]

removeDirectories(w, ds) == [d \in Directories |-> IF d \in ds THEN Absent ELSE w[d]]

ReplaceSubtree(w, key, keep) ==
  removeDirectories(w, {d \in Directories \ keep : InSubtree(d, key)})

WatchesSubtree(key) == \E d \in Directories : InSubtree(d, key) /\ watched[d] # Absent
-----------------------------------------------------------------------------
(* The filesystem and its notifications *)

\* A watch follows an inode, and dies with it.
Live(d) == ~closed /\ watched[d] # Absent /\ watched[d] = InodeOf(d)

notify(d, event) ==
  \/ Live(d) /\ events' = events \cup {event} /\ UNCHANGED overflow
  \/ Live(d) /\ overflow' = TRUE /\ UNCHANGED events
  \/ ~Live(d) /\ UNCHANGED <<events, overflow>>

change == changes < MaxChanges /\ changes' = changes + 1 /\ UNCHANGED <<watched, closed>>

InitFiles ==
  /\ inode = [d \in Dirs |-> 1] /\ gomod = {}
  /\ text \in [Sources -> {Absent, 1}]
  /\ changes = 0

write(f, t) ==
  /\ InodeOf(DirOf[f]) # Absent /\ t # text[f]
  /\ text' = [text EXCEPT ![f] = t]
  /\ change
  /\ notify(DirOf[f], <<"source", f>>)
  /\ UNCHANGED <<inode, gomod>>

\* Deleted, or renamed out of the workspace.
remove(f) ==
  /\ text[f] # Absent
  /\ text' = [text EXCEPT ![f] = Absent]
  /\ change
  /\ notify(DirOf[f], <<"source", f>>) \/ notify(DirOf[f], <<"renamed", DirOf[f]>>)
  /\ UNCHANGED <<inode, gomod>>

\* go.mod is created or removed.
toggleModule(d) ==
  /\ inode[d] # Absent
  /\ gomod' = IF d \in gomod THEN gomod \ {d} ELSE gomod \cup {d}
  /\ change
  /\ notify(d, <<"gomod", d>>)
  /\ UNCHANGED <<inode, text>>

\* A directory is made, or renamed into the workspace with its sources.
makeDir(d, full) ==
  /\ inode[d] = Absent
  /\ change
  /\ inode' = [inode EXCEPT ![d] = 1 + changes']
  /\ text' = [f \in Sources |-> IF f \in InDir(d) /\ full THEN 1 ELSE text[f]]
  /\ notify(Root, <<"dir", d>>)
  /\ UNCHANGED gomod

\* A directory is removed, or renamed out of the workspace with its sources.
removeDir(d) ==
  /\ inode[d] # Absent
  /\ change
  /\ inode' = [inode EXCEPT ![d] = Absent]
  /\ text' = [f \in Sources |-> IF f \in InDir(d) THEN Absent ELSE text[f]]
  /\ gomod' = gomod \ {d}
  /\ \/ notify(Root, <<"renamed", Root>>)
     \/ /\ d \notin gomod /\ \A f \in InDir(d) : text[f] = Absent
        /\ notify(Root, <<"dir", d>>)

filesystem ==
  \/ \E f \in Sources, t \in Texts : write(f, t)
  \/ \E f \in Sources : remove(f)
  \/ \E d \in Dirs : toggleModule(d)
  \/ \E d \in Dirs, full \in BOOLEAN : makeDir(d, full)
  \/ \E d \in Dirs : removeDir(d)
=============================================================================
