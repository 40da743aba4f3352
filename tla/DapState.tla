------------------------------ MODULE DapState ------------------------------
(***************************************************************************)
(* internal/dap: the three tables the adapter keeps between the debugger   *)
(* and the client, as operators on values.                                 *)
(*                                                                         *)
(* A native breakpoint is <<position, generation>>: re-adding a removed    *)
(* position gives it a new native identity.  Its DAP identity is the       *)
(* requested position itself: breakpointIDs.stable allocates one integer   *)
(* per position and never frees it.                                        *)
(*                                                                         *)
(* A handle is <<kind, stop>>, where a "value" is a scope or a variable:   *)
(* the table never reuses an integer, and two handles of one kind issued   *)
(* at one stop answer alike.                                               *)
(***************************************************************************)
EXTENDS Naturals

CONSTANTS None
-----------------------------------------------------------------------------
(* breakpointIDs *)

newBreakpointIDs == [pending |-> 0, active |-> {}, retired |-> {}]

replace(b, results) ==
  [b EXCEPT !.active = results,
            !.retired = (IF b.pending # 0 THEN @ \cup b.active ELSE @) \ results]

\* The DAP identity of a native breakpoint; None is the Go map's zero.
id(b, native) == IF native \in b.active \cup b.retired THEN native[1] ELSE None

commandStarted(b) == [b EXCEPT !.pending = @ + 1]

\* Mutant: any stop releases the retired mappings, not only the last one due.
StoppedClears(b) ==
  [b EXCEPT !.pending = IF @ > 0 THEN @ - 1 ELSE 0, !.retired = {}]

commandStopped(b) ==
  LET left == IF b.pending > 0 THEN b.pending - 1 ELSE 0
  IN [b EXCEPT !.pending = left, !.retired = IF left = 0 THEN {} ELSE @]

finish(b) == newBreakpointIDs
-----------------------------------------------------------------------------
(* handleTable *)

newHandleTable == {}

\* The invalidated handles stay recognisable for an empty answer; none of them
\* reaches the debugger again.
Invalidate(t) == {}

\* Frame, Scope, Variable: allocate under a new integer.
Allocate(t, handle) == t \cup {handle}

\* The status a lookup answers with; a stale and an invalid handle are refused alike.
Current(t, handle) == handle \in t
-----------------------------------------------------------------------------
(* initialStop *)

newInitialStop == [frozen |-> FALSE, bindings |-> {}]

\* initialStop.replace; a missing initialStop is left alone by its callers.
rebind(s, results) == IF s.frozen THEN s ELSE [s EXCEPT !.bindings = results]

\* The bindings resolved to the entry location, under the identities the client
\* has for them.
entryHits(s, AtEntry) == {native \in s.bindings : native[1] \in AtEntry}

\* initialStop.resolve: the reason and hits of the stop, and whether to hide it.
resolve(s, event, stopOnEntry, AtEntry) ==
  LET hits == entryHits(s, AtEntry)
  IN IF event.reason # "entry" THEN [event |-> event, suppress |-> FALSE]
     ELSE IF hits # {}
     THEN [event |-> [event EXCEPT !.reason = "breakpoint", !.hits = hits], suppress |-> FALSE]
     ELSE [event |-> event, suppress |-> ~stopOnEntry]
=============================================================================
