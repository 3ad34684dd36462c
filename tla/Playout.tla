------------------------------- MODULE Playout -------------------------------
(***************************************************************************)
(* What the output buffer promises to the player: chunk ids leave in       *)
(* order, each once, and the player waits for a missing id until a chunk   *)
(* at least BuffSize newer has arrived; only then is the id given up.  A   *)
(* chunk that was taken in is played, it is never given up.                *)
(***************************************************************************)
EXTENDS Integers

CONSTANTS BuffSize, Ids

VARIABLES
  next,     \* the id the player waits for, -1 before the first chunk
  pending,  \* ids taken in and not played yet
  played,   \* ids handed to the player
  lost,     \* ids given up
  newest    \* largest id that ever arrived

vars == <<next, pending, played, lost, newest>>

Init ==
  /\ next = -1
  /\ pending = {}
  /\ played = {}
  /\ lost = {}
  /\ newest = -1

\* A chunk arrives, and may be the first one.
Arrive(id) ==
  /\ newest' = IF id > newest THEN id ELSE newest
  /\ next' = IF next = -1 THEN id ELSE next
  /\ UNCHANGED <<pending, played, lost>>

Take(id) ==
  /\ id \notin pending
  /\ next < id /\ id < next + BuffSize
  /\ pending' = pending \union {id}
  /\ UNCHANGED <<next, played, lost, newest>>

\* The awaited id goes out, from the buffer or straight from the network.
Play ==
  /\ next # -1
  /\ played' = played \union {next}
  /\ pending' = pending \ {next}
  /\ next' = next + 1
  /\ UNCHANGED <<lost, newest>>

Lose ==
  /\ next # -1
  /\ next \notin pending
  /\ next + BuffSize <= newest
  /\ lost' = lost \union {next}
  /\ next' = next + 1
  /\ UNCHANGED <<pending, played, newest>>

Next ==
  \/ \E id \in Ids : Arrive(id) \/ Take(id)
  \/ Play
  \/ Lose

Spec == Init /\ [][Next]_vars
=============================================================================
