---------------------------- MODULE OutputBuffer ----------------------------
(***************************************************************************)
(* The reordering output buffer of output-grapes.c: a ring of BuffSize     *)
(* chunks, the chunk with id i in slot i % BuffSize.  output_deliver runs  *)
(* alone; the steps of one call, an iteration of a loop each, follow one   *)
(* another under the control state pc.                                     *)
(*                                                                         *)
(* Playing a chunk stands for the whole of its exit: the chunk_write, which*)
(* the window start_id .. end_id of the command line may suppress, and     *)
(* reg_chunk_playout.                                                      *)
(***************************************************************************)
EXTENDS Integers

CONSTANTS
  BuffSize,  \* buff_size, -o of the command line
  Ids        \* the ids of the chunks that may arrive

ASSUME BuffSizeAssumption == BuffSize \in Nat \ {0}
ASSUME IdsAssumption == Ids \subseteq Nat

VARIABLES
  next_chunk,  \* id the player waits for, -1 at the start
  buff,        \* buff[slot]: id of the chunk stored there, or Free
  pc,          \* where output_deliver stands
  c,           \* id of the chunk being delivered
  i,           \* loop variable: an id in "scroll", a slot in the flushes
  played,      \* ids that left through the player
  lost,        \* ids the player gave up
  newest       \* largest id delivered so far

vars == <<next_chunk, buff, pc, c, i, played, lost, newest>>

Free == -1
Slots == 0 .. BuffSize - 1

\* Fault: the ring is taken to be one slot shorter.
SlotShort(id) == id % (BuffSize - 1)

Slot(id) == id % BuffSize

Init ==
  /\ next_chunk = -1
  /\ buff = [s \in Slots |-> Free]
  /\ pc = "idle"
  /\ c = -1
  /\ i = 0
  /\ played = {}
  /\ lost = {}
  /\ newest = -1

\* Fault: the player starts a ring before the first chunk.
AwaitedBehind(id) == IF next_chunk = -1 THEN id - BuffSize ELSE next_chunk

\* The id the player waits for once a chunk has come.
Awaited(id) == IF next_chunk = -1 THEN id ELSE next_chunk

\* Fault: an id just beyond the ring is taken to fit.
BeyondLate(id) == id > Awaited(id) + BuffSize

\* c->id >= next_chunk + buff_size
Beyond(id) == id >= Awaited(id) + BuffSize

\* Entry of output_deliver: a chunk behind the player is ignored, the first
\* chunk sets where the player starts, a chunk beyond the ring scrolls it.
Deliver(id) ==
  /\ pc = "idle"
  /\ newest' = IF id > newest THEN id ELSE newest
  /\ IF id < next_chunk
     THEN UNCHANGED <<next_chunk, pc, c, i>>
     ELSE /\ c' = id
          /\ next_chunk' = Awaited(id)
          /\ i' = Awaited(id)
          /\ pc' = IF Beyond(id) THEN "scroll" ELSE "place"
  /\ UNCHANGED <<buff, played, lost>>

\* Fault: the slot is not freed.
BufferFreeKeeping(s) ==
  /\ played' = played \union {buff[s]}
  /\ next_chunk' = buff[s] + 1
  /\ UNCHANGED buff

\* buffer_free: play what is in the slot and wait for the id after it.
BufferFree(s) ==
  /\ played' = played \union {buff[s]}
  /\ next_chunk' = buff[s] + 1
  /\ buff' = [buff EXCEPT ![s] = Free]

\* for (i = next_chunk; i <= c->id - buff_size; i++)
Scroll ==
  /\ pc = "scroll"
  /\ i <= c - BuffSize
  /\ i' = i + 1
  /\ \/ /\ buff[Slot(i)] # Free
        /\ BufferFree(Slot(i))
        /\ UNCHANGED lost
     \/ /\ buff[Slot(i)] = Free
        /\ lost' = lost \union {next_chunk}
        /\ next_chunk' = next_chunk + 1
        /\ UNCHANGED <<buff, played>>
  /\ UNCHANGED <<pc, c, newest>>

ScrollDone ==
  /\ pc = "scroll"
  /\ i > c - BuffSize
  /\ pc' = "flush"
  /\ i' = Slot(next_chunk)
  /\ UNCHANGED <<next_chunk, buff, c, played, lost, newest>>

\* An iteration of buffer_flush.  A full turn ends as the loop test does: the
\* slot it started from has been freed.
Flush ==
  /\ pc \in {"flush", "flush_last"}
  /\ buff[i] # Free
  /\ BufferFree(i)
  /\ i' = (i + 1) % BuffSize
  /\ UNCHANGED <<pc, c, lost, newest>>

FlushDone ==
  /\ pc \in {"flush", "flush_last"}
  /\ buff[i] = Free
  /\ pc' = IF pc = "flush" THEN "place" ELSE "idle"
  /\ UNCHANGED <<next_chunk, buff, c, i, played, lost, newest>>

PlayNow ==
  /\ pc = "place"
  /\ c = next_chunk
  /\ played' = played \union {c}
  /\ next_chunk' = next_chunk + 1
  /\ i' = Slot(next_chunk')
  /\ pc' = "flush_last"
  /\ UNCHANGED <<buff, c, lost, newest>>

\* Store the chunk, unless it is there already; "Crap!" and exit(-1) when the
\* slot holds another one.
Store ==
  /\ pc = "place"
  /\ c # next_chunk
  /\ \/ /\ buff[Slot(c)] = Free
        /\ buff' = [buff EXCEPT ![Slot(c)] = c]
        /\ pc' = "idle"
     \/ /\ buff[Slot(c)] # Free
        /\ pc' = IF buff[Slot(c)] = c THEN "idle" ELSE "exit"
        /\ UNCHANGED buff
  /\ UNCHANGED <<next_chunk, c, i, played, lost, newest>>

Next ==
  \/ \E id \in Ids : Deliver(id)
  \/ Scroll
  \/ ScrollDone
  \/ Flush
  \/ FlushDone
  \/ PlayNow
  \/ Store

Spec == Init /\ [][Next]_vars

-----------------------------------------------------------------------------
\* Every variable keeps its type.
TypeOK ==
  /\ next_chunk \in Nat \union {-1}
  /\ buff \in [Slots -> Nat \union {Free}]
  /\ pc \in {"idle", "scroll", "flush", "flush_last", "place", "exit"}
  /\ c \in Nat \union {-1}
  /\ i \in Nat
  /\ played \subseteq Nat
  /\ lost \subseteq Nat
  /\ newest \in Nat \union {-1}

\* "We previously flushed, so we know that c->id is free": the exit(-1) of a slot
\* taken by another chunk is never reached, whatever ids arrive in whatever order.
NeverExits == pc # "exit"

\* Between two calls the ring holds ids strictly between the awaited one and
\* BuffSize beyond it, each in its own slot: nothing playable is left waiting.
RingInWindow ==
  \A s \in Slots : buff[s] # Free =>
    /\ Slot(buff[s]) = s
    /\ buff[s] < next_chunk + BuffSize
    /\ buff[s] >= next_chunk
    /\ pc \in {"idle", "place"} => buff[s] > next_chunk

\* Chunks leave in increasing order and an id given up is never played.
PlaysInOrder ==
  [][\A x \in played' \ played : \A y \in played \union lost : y < x]_vars

\* The buffer keeps the promise of Playout.
Abstract == INSTANCE Playout WITH
              next <- next_chunk,
              pending <- {buff[s] : s \in {t \in Slots : buff[t] # Free}}
ImplementsPlayout == Abstract!Spec
=============================================================================
