------------------------------ MODULE LockTable ------------------------------
(***************************************************************************)
(* What chunk locks promise to get_chunks_to_accept: a chunk is locked from*)
(* the moment it is requested until it arrives or Timeout has passed, and  *)
(* while it is locked it is not requested again.                           *)
(***************************************************************************)
EXTENDS Integers

CONSTANTS Chunks, Timeout

VARIABLE age   \* age[c]: how long c has been locked, for the locked chunks

Init == age = [c \in {} |-> 0]

Acquire(c) ==
  /\ c \notin DOMAIN age
  /\ age' = [x \in DOMAIN age \union {c} |-> IF x = c THEN 0 ELSE age[x]]

Release(c) ==
  /\ c \in DOMAIN age
  /\ age' = [x \in DOMAIN age \ {c} |-> age[x]]

\* Time passes; what is older than Timeout now is not locked any more.
Pass ==
  age' = [x \in {y \in DOMAIN age : age[y] < Timeout} |-> age[x] + 1]

Next ==
  \/ \E c \in Chunks : Acquire(c) \/ Release(c)
  \/ Pass

Spec == Init /\ [][Next]_age
=============================================================================
