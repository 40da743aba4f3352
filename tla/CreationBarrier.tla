--------------------------- MODULE CreationBarrier ---------------------------
(***************************************************************************)
(* What lifecycle.Gate promises its users, without channels or counters:   *)
(* children enter while the parent is open, one close shuts the door, and  *)
(* a result is published only when the last admitted child creator left.   *)
(***************************************************************************)
CONSTANTS Creators,  \* callers that create children
          Results    \* what a teardown may report

VARIABLES phase,     \* "open", "closing" or "closed"
          inside,    \* the creators admitted and not yet gone
          outcome    \* the published teardown result, once closed

barrierVars == <<phase, inside, outcome>>

BarrierInit ==
  /\ phase = "open"
  /\ inside = {}
  /\ outcome \in Results

Enter(c) ==
  /\ phase = "open"
  /\ c \notin inside
  /\ inside' = inside \cup {c}
  /\ UNCHANGED <<phase, outcome>>

Leave(c) ==
  /\ c \in inside
  /\ inside' = inside \ {c}
  /\ UNCHANGED <<phase, outcome>>

Shut ==
  /\ phase = "open"
  /\ phase' = "closing"
  /\ UNCHANGED <<inside, outcome>>

Publish ==
  /\ phase = "closing"
  /\ inside = {}
  /\ phase' = "closed"
  /\ outcome' \in Results
  /\ UNCHANGED inside

BarrierNext ==
  \/ \E c \in Creators : Enter(c) \/ Leave(c)
  \/ Shut
  \/ Publish

BarrierSpec == BarrierInit /\ [][BarrierNext]_barrierVars
=============================================================================
