-------------------------- MODULE WorkspaceManager --------------------------
(***************************************************************************)
(* internal/workspace.Manager: Open calls that share one load per root,    *)
(* Close with its hooks, and Clear, which abandons the loads in progress   *)
(* by a generation number.  A workspace, its openOperation, its registry   *)
(* entry and its file watcher are named by the Open call that makes them.  *)
(* A critical section of Manager.mu is one action.                         *)
(***************************************************************************)
EXTENDS Naturals, FiniteSets

CONSTANTS Opens, Roots, None,
          MaxClears   \* bound: calls of Clear in one behaviour

ASSUME NoneIsNoOpen == None \notin Opens
ASSUME ErrorsAreNoOpens == {"err", "canceled"} \cap (Opens \cup {None}) = {}
ASSUME MaxClearsNat == MaxClears \in Nat

VARIABLES
  byRoot,      \* Manager.byRoot: root -> workspace or None
  opening,     \* Manager.opening: root -> operation or None
  generation,  \* Manager.generation
  open,        \* Open: program counter
  root,        \* canonical root of the call
  ctx,         \* the call's context is cancelled
  waitOp,      \* operation the call waits for
  result,      \* what the call returned: workspace, "err", "canceled" or None
  opGen,       \* openOperation.generation
  opErr,       \* openOperation.err: "none", "err", "canceled"
  opDone,      \* operations whose done channel is closed
  panicked,    \* a done channel was closed twice
  state,       \* Workspace.state: "loading", "ready", "failed", "closed"
  watcher,     \* its watcher: "none", "open", "running", "closed"
  entry,       \* byID: "none", "active", "closing", "gone"
  closer       \* finishClose: program counter

indexVars == <<byRoot, opening, generation>>
callVars == <<open, root, ctx, waitOp, result>>
opVars == <<opGen, opErr, opDone, panicked>>
wsVars == <<state, watcher, entry, closer>>
vars == <<indexVars, callVars, opVars, wsVars>>

Init ==
  /\ byRoot = [r \in Roots |-> None]
  /\ opening = [r \in Roots |-> None]
  /\ generation = 0
  /\ open = [o \in Opens |-> "idle"]
  /\ root \in [Opens -> Roots]
  /\ ctx = [o \in Opens |-> FALSE]
  /\ waitOp = [o \in Opens |-> None]
  /\ result = [o \in Opens |-> None]
  /\ opGen = [o \in Opens |-> 0]
  /\ opErr = [o \in Opens |-> "none"]
  /\ opDone = {}
  /\ panicked = FALSE
  /\ state = [o \in Opens |-> "loading"]
  /\ watcher = [o \in Opens |-> "none"]
  /\ entry = [o \in Opens |-> "none"]
  /\ closer = [o \in Opens |-> "none"]
-----------------------------------------------------------------------------
(* Open *)

cancelContext(o) ==
  /\ open[o] \notin {"idle", "returned"}
  /\ ~ctx[o]
  /\ ctx' = [ctx EXCEPT ![o] = TRUE]
  /\ UNCHANGED <<indexVars, open, root, waitOp, result, opVars, wsVars>>

return(o, value) ==
  /\ open' = [open EXCEPT ![o] = "returned"]
  /\ result' = [result EXCEPT ![o] = value]

\* The root is made canonical, or refused.
Open(o) ==
  /\ open[o] = "idle"
  /\ \/ open' = [open EXCEPT ![o] = "find"] /\ UNCHANGED result
     \/ return(o, "err")
  /\ UNCHANGED <<indexVars, root, ctx, waitOp, opVars, wsVars>>

\* The loop's head: the context, then Manager.find; a call that finds neither a
\* workspace nor a load makes a candidate, for which newID may fail.
find(o) ==
  /\ open[o] = "find"
  /\ LET r == root[o] IN
       IF ctx[o] THEN return(o, "canceled") /\ UNCHANGED waitOp
       ELSE IF byRoot[r] # None THEN return(o, byRoot[r]) /\ UNCHANGED waitOp
       ELSE /\ waitOp' = [waitOp EXCEPT ![o] = opening[r]]
            /\ \/ /\ open' = [open EXCEPT ![o] = IF opening[r] # None THEN "wait" ELSE "begin"]
                  /\ UNCHANGED result
               \/ opening[r] = None /\ return(o, "err")
  /\ UNCHANGED <<indexVars, root, ctx, opVars, wsVars>>

\* Mutant: the waiter returns the loader's error, its cancellation included.
WaitForOpenForwards(o) ==
  /\ open[o] = "wait"
  /\ \/ ctx[o] /\ return(o, "canceled")
     \/ /\ waitOp[o] \in opDone
        /\ return(o, IF opErr[waitOp[o]] = "none" THEN waitOp[o] ELSE opErr[waitOp[o]])
  /\ waitOp' = [waitOp EXCEPT ![o] = None]
  /\ UNCHANGED <<indexVars, root, ctx, opVars, wsVars>>

\* waitForOpen and what Open makes of it: another caller's cancellation is not
\* this caller's, so it tries again.
waitForOpen(o) ==
  /\ open[o] = "wait"
  /\ ctx[o] \/ waitOp[o] \in opDone
  /\ IF ctx[o] THEN return(o, "canceled")
     ELSE \/ opErr[waitOp[o]] = "none" /\ return(o, waitOp[o])
          \/ opErr[waitOp[o]] = "err" /\ return(o, "err")
          \/ /\ opErr[waitOp[o]] = "canceled"
             /\ open' = [open EXCEPT ![o] = "find"]
             /\ UNCHANGED result
  /\ waitOp' = [waitOp EXCEPT ![o] = None]
  /\ UNCHANGED <<indexVars, root, ctx, opVars, wsVars>>

\* Register the candidate's load, unless the root got a workspace or a load since.
beginOpen(o) ==
  /\ open[o] = "begin"
  /\ LET r == root[o] IN
       IF byRoot[r] # None \/ opening[r] # None
       THEN open' = [open EXCEPT ![o] = "find"] /\ UNCHANGED <<opening, opGen>>
       ELSE /\ open' = [open EXCEPT ![o] = "load"]
            /\ opening' = [opening EXCEPT ![r] = o]
            /\ opGen' = [opGen EXCEPT ![o] = generation]
  /\ UNCHANGED <<byRoot, generation, root, ctx, waitOp, result, opErr, opDone, panicked, wsVars>>

\* loadAndCommit up to the lock: make the watcher and load, or fail and close
\* the watcher; the error may be a cancellation when the caller gave up.
load(o) ==
  /\ open[o] = "load"
  /\ \/ /\ ~ctx[o]
        /\ watcher' = [watcher EXCEPT ![o] = "open"]
        /\ open' = [open EXCEPT ![o] = "commit"]
        /\ UNCHANGED <<state, opErr>>
     \/ /\ watcher' \in {[watcher EXCEPT ![o] = v] : v \in {"none", "closed"}}
        /\ state' = [state EXCEPT ![o] = "failed"]
        /\ \E e \in {"err"} \cup (IF ctx[o] THEN {"canceled"} ELSE {}) :
             opErr' = [opErr EXCEPT ![o] = e]
        /\ open' = [open EXCEPT ![o] = "fail"]
  /\ UNCHANGED <<indexVars, root, ctx, waitOp, result, opGen, opDone, panicked, entry, closer>>

\* Mutant: the generation is not compared.
CommitStale(o) ==
  /\ open[o] = "commit"
  /\ return(o, o)
  /\ state' = [state EXCEPT ![o] = "ready"]
  /\ watcher' = [watcher EXCEPT ![o] = "running"]
  /\ entry' = [entry EXCEPT ![o] = "active"]
  /\ byRoot' = [byRoot EXCEPT ![root[o]] = o]
  /\ opening' = [opening EXCEPT ![root[o]] = None]
  /\ opDone' = opDone \cup {o}
  /\ UNCHANGED <<generation, root, ctx, waitOp, opGen, opErr, panicked, closer>>

\* loadAndCommit under the lock: publish, unless Clear came in between.
commit(o) ==
  /\ open[o] = "commit"
  /\ IF opGen[o] = generation
     THEN /\ return(o, o)
          /\ state' = [state EXCEPT ![o] = "ready"]
          /\ watcher' = [watcher EXCEPT ![o] = "running"]
          /\ entry' = [entry EXCEPT ![o] = "active"]
          /\ byRoot' = [byRoot EXCEPT ![root[o]] = o]
          /\ opening' = [opening EXCEPT ![root[o]] = None]
          /\ opDone' = opDone \cup {o}
          /\ panicked' = (panicked \/ o \in opDone)
          /\ UNCHANGED opErr
     ELSE /\ open' = [open EXCEPT ![o] = "fail"]
          /\ watcher' = [watcher EXCEPT ![o] = "closed"]
          /\ state' = [state EXCEPT ![o] = "failed"]
          /\ opErr' = [opErr EXCEPT ![o] = "err"]
          /\ UNCHANGED <<result, entry, byRoot, opening, opDone, panicked>>
  /\ UNCHANGED <<generation, root, ctx, waitOp, opGen, closer>>

\* Drop the operation if it is still the registered one, and wake its waiters.
finishOpen(o) ==
  /\ open[o] = "fail"
  /\ opening' = [opening EXCEPT ![root[o]] = IF @ = o THEN None ELSE @]
  /\ opDone' = opDone \cup {o}
  /\ panicked' = (panicked \/ o \in opDone)
  /\ return(o, opErr[o])
  /\ UNCHANGED <<byRoot, generation, root, ctx, waitOp, opGen, opErr, wsVars>>
-----------------------------------------------------------------------------
(* Close and Clear *)

\* The root is free for a new workspace from here on.
beginClose(o) ==
  /\ entry[o] = "active"
  /\ entry' = [entry EXCEPT ![o] = "closing"]
  /\ closer' = [closer EXCEPT ![o] = "watcher"]
  /\ byRoot' = [byRoot EXCEPT ![root[o]] = None]
  /\ UNCHANGED <<opening, generation, callVars, opVars, state, watcher>>

\* finishClose: stop the watcher ...
stopWatcher(o) ==
  /\ closer[o] = "watcher"
  /\ closer' = [closer EXCEPT ![o] = "hooks"]
  /\ watcher' = [watcher EXCEPT ![o] = "closed"]
  /\ UNCHANGED <<indexVars, callVars, opVars, state, entry>>

\* ... run the hooks, whose errors only join the result, release the source
\* state and publish the result ...
closeWorkspace(o) ==
  /\ closer[o] = "hooks"
  /\ closer' = [closer EXCEPT ![o] = "remove"]
  /\ state' = [state EXCEPT ![o] = "closed"]
  /\ UNCHANGED <<indexVars, callVars, opVars, watcher, entry>>

\* ... and only then forget the entry.
removeEntry(o) ==
  /\ closer[o] = "remove"
  /\ closer' = [closer EXCEPT ![o] = "done"]
  /\ entry' = [entry EXCEPT ![o] = "gone"]
  /\ UNCHANGED <<indexVars, callVars, opVars, state, watcher>>

\* Clear takes every entry over and forgets the loads in progress; its wait for
\* each entry is the CloseOperation of Lifecycle.
Clear ==
  /\ generation < MaxClears
  /\ entry' = [o \in Opens |-> IF entry[o] = "active" THEN "closing" ELSE entry[o]]
  /\ closer' = [o \in Opens |-> IF entry[o] = "active" THEN "watcher" ELSE closer[o]]
  /\ byRoot' = [r \in Roots |-> None]
  /\ opening' = [r \in Roots |-> None]
  /\ generation' = generation + 1
  /\ UNCHANGED <<callVars, opVars, state, watcher>>
-----------------------------------------------------------------------------
openStep(o) ==
  find(o) \/ waitForOpen(o) \/ beginOpen(o) \/ load(o) \/ commit(o) \/ finishOpen(o)

closeStep(o) == stopWatcher(o) \/ closeWorkspace(o) \/ removeEntry(o)

Next ==
  \/ \E o \in Opens : Open(o) \/ cancelContext(o) \/ openStep(o) \/ beginClose(o) \/ closeStep(o)
  \/ Clear

Spec == Init /\ [][Next]_vars

\* Calls in progress, loads, hooks and close workers run on.
Fairness == \A o \in Opens : WF_vars(openStep(o)) /\ WF_vars(closeStep(o))

FairSpec == Spec /\ Fairness
-----------------------------------------------------------------------------
(* Properties *)

\* Every variable ranges over the values of the manager's maps and calls.
TypeOK ==
  /\ byRoot \in [Roots -> Opens \cup {None}]
  /\ opening \in [Roots -> Opens \cup {None}]
  /\ generation \in 0..MaxClears
  /\ open \in [Opens -> {"idle", "find", "wait", "begin", "load", "commit", "fail", "returned"}]
  /\ root \in [Opens -> Roots]
  /\ ctx \in [Opens -> BOOLEAN]
  /\ waitOp \in [Opens -> Opens \cup {None}]
  /\ result \in [Opens -> Opens \cup {None, "err", "canceled"}]
  /\ opGen \in [Opens -> 0..MaxClears]
  /\ opErr \in [Opens -> {"none", "err", "canceled"}]
  /\ opDone \subseteq Opens
  /\ panicked \in BOOLEAN
  /\ state \in [Opens -> {"loading", "ready", "failed", "closed"}]
  /\ watcher \in [Opens -> {"none", "open", "running", "closed"}]
  /\ entry \in [Opens -> {"none", "active", "closing", "gone"}]
  /\ closer \in [Opens -> {"none", "watcher", "hooks", "remove", "done"}]

\* A watcher runs only for a workspace that is reachable or being closed, and
\* an Open that failed or a workspace that is gone has none left.
NoWatcherLeak ==
  \A o \in Opens :
    /\ watcher[o] = "running" => entry[o] \in {"active", "closing"}
    /\ watcher[o] = "open" => open[o] = "commit"
    /\ entry[o] = "gone" \/ state[o] = "failed" => watcher[o] \in {"none", "closed"}

\* The root index, the registry and the loads agree: a root resolves to its
\* active workspace and to no other, and a load that may still publish is the
\* registered one of a root that resolves to nothing. So a root never has two
\* workspaces, nor two loads that count. No done channel is closed twice.
RootIndexSound ==
  /\ ~panicked
  /\ \A r \in Roots : byRoot[r] # None => entry[byRoot[r]] = "active" /\ root[byRoot[r]] = r
  /\ \A o \in Opens : entry[o] = "active" => byRoot[root[o]] = o
  /\ \A o \in Opens :
       open[o] \in {"load", "commit"} /\ opGen[o] = generation =>
         opening[root[o]] = o /\ byRoot[root[o]] = None

\* Registry, root index, loads and watchers agree, and nothing that Clear has
\* abandoned is published.
RegistrySound ==
  /\ RootIndexSound /\ NoWatcherLeak
  /\ \A o \in Opens : entry[o] = "active" => opGen[o] = generation

\* Every Open call returns, whoever loads the root and however the load ends, and
\* with a cancellation only if it was cancelled itself; every close that began, by
\* Close or by Clear, ends with the entry forgotten.
OpensReturn ==
  /\ \A o \in Opens :
       open[o] = "find" ~> open[o] = "returned" /\ (result[o] = "canceled" => ctx[o])
  /\ \A o \in Opens : entry[o] = "closing" ~> entry[o] = "gone"
=============================================================================
