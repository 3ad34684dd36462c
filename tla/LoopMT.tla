-------------------------------- MODULE LoopMT --------------------------------
(***************************************************************************)
(* The threaded main loops of loop-mt.c: the threads of a peer (loop) or   *)
(* of the source (source_loop), the two mutexes they take, and what they   *)
(* touch while they hold them.                                             *)
(*                                                                         *)
(* A section is one call that a thread makes between locking and           *)
(* unlocking.  Three things are shared by several threads: the peerset     *)
(* with its records, the chunk buffer, and the counters of measures.c;     *)
(* chunk locks are only used by the receiver, and transactions only under  *)
(* topology_mutex.  Threads sleep or wait for a datagram between sections; *)
(* done is never set.                                                      *)
(***************************************************************************)
EXTENDS Integers, Sequences

VARIABLES
  role,     \* "peer" or "source"
  alto,     \* topology-ALTO.c is linked instead of topology.c
  section,  \* section[t]: what thread t is doing, "none" between sections
  leaving,  \* leaving[t]: the call has returned, t is unlocking
  held,     \* held[t]: how many of its section's mutexes t has locked
  owner     \* owner[m]: the thread that has locked m, or "none"

vars == <<role, alto, section, leaving, held, owner>>

Mutexes == {"topology", "cb"}
Threads == {"receiver", "gossiper", "distributor", "forger"}
Sections == {"update", "signal", "receive", "tick", "distribute", "forge"}

-----------------------------------------------------------------------------
\* A definition whose comment begins with "Fault:" is a variant of the one
\* that follows it, with a bug the properties are expected to reveal.

\* What a thread does: datagrams of three types, and one call for each other.
SectionsOf(t) ==
  CASE t = "receiver"    -> {"update", "signal"} \union
                            (IF role = "peer" THEN {"receive"} ELSE {})
    [] t = "gossiper"    -> {"tick"}
    [] t = "distributor" -> {"distribute"}
    [] t = "forger"      -> IF role = "source" THEN {"forge"} ELSE {}

\* Fault: the distributor does not lock the chunk buffer.
LocksOne(s) ==
  IF s \in {"update", "signal", "tick", "distribute"} THEN <<"topology">> ELSE <<"cb">>

\* Fault: the distributor locks the chunk buffer first.
LocksSwapped(s) ==
  CASE s \in {"update", "signal", "tick"} -> <<"topology">>
    [] s \in {"receive", "forge"}         -> <<"cb">>
    [] s = "distribute"                   -> <<"cb", "topology">>

\* The mutexes of a section, in the order they are locked.
Locks(s) ==
  CASE s \in {"update", "signal", "tick"} -> <<"topology">>
    [] s \in {"receive", "forge"}         -> <<"cb">>
    [] s = "distribute"                   -> <<"topology", "cb">>

Resources == {"peers", "chunks", "measures"}

\* What a section changes: the peers it adds, drops or writes about, the chunks
\* it adds and so evicts, the events it counts.
Writes(s) ==
  CASE s \in {"update", "signal", "tick"} -> {"peers", "measures"}
    [] s = "distribute" -> {"peers"} \union (IF role = "source" THEN {"measures"} ELSE {})
    [] s = "receive"    -> Resources
    [] s = "forge"      -> {"chunks"}

\* What it also reads: buffers to be announced or sent.  The timer's call of
\* update_peers only adds peers, and tells them the buffer map, with ALTO.
Reads(s) ==
  IF s \in {"update", "signal", "distribute"} \/ (s = "tick" /\ alto)
  THEN {"chunks"} ELSE {}

\* Fault: the mutex locked first is unlocked first, and again.
UnlocksFirst(t) == Locks(section[t])[1]

\* The mutex t unlocks next.
Unlocks(t) == Locks(section[t])[held[t]]

\* Is t in the call its section is about?
Inside(t) == section[t] # "none" /\ ~leaving[t] /\ held[t] = Len(Locks(section[t]))

-----------------------------------------------------------------------------
Init ==
  /\ role \in {"peer", "source"} /\ alto \in BOOLEAN
  /\ section = [t \in Threads |-> "none"]
  /\ leaving = [t \in Threads |-> FALSE]
  /\ held = [t \in Threads |-> 0]
  /\ owner = [m \in Mutexes |-> "none"]

\* A datagram arrives, or a sleep ends.
Begin(t) ==
  /\ section[t] = "none"
  /\ \E s \in SectionsOf(t) : section' = [section EXCEPT ![t] = s]
  /\ UNCHANGED <<role, alto, leaving, held, owner>>

\* pthread_mutex_lock
Lock(t) ==
  /\ section[t] # "none" /\ ~leaving[t] /\ held[t] < Len(Locks(section[t]))
  /\ LET m == Locks(section[t])[held[t] + 1]
     IN  owner[m] = "none" /\ owner' = [owner EXCEPT ![m] = t]
  /\ held' = [held EXCEPT ![t] = @ + 1]
  /\ UNCHANGED <<role, alto, section, leaving>>

\* The call returns.
Return(t) ==
  /\ Inside(t)
  /\ leaving' = [leaving EXCEPT ![t] = TRUE]
  /\ UNCHANGED <<role, alto, section, held, owner>>

\* pthread_mutex_unlock; after the last one the thread sleeps or waits.
Unlock(t) ==
  /\ leaving[t]
  /\ owner' = [owner EXCEPT ![Unlocks(t)] = "none"]
  /\ held' = [held EXCEPT ![t] = @ - 1]
  /\ leaving' = [leaving EXCEPT ![t] = held[t] > 1]
  /\ section' = [section EXCEPT ![t] = IF held[t] > 1 THEN @ ELSE "none"]
  /\ UNCHANGED <<role, alto>>

Proceed(t) == Lock(t) \/ Return(t) \/ Unlock(t)

Next == \E t \in Threads : Begin(t) \/ Proceed(t)

\* The system runs every thread that can run; who gets a mutex is its choice.
Fairness == \A t \in Threads : WF_vars(Proceed(t))

Spec == Init /\ [][Next]_vars /\ Fairness

-----------------------------------------------------------------------------
\* t has locked m.
HasLocked(t, m) ==
  section[t] # "none" /\ \E i \in 1 .. held[t] : Locks(section[t])[i] = m

(* Types; and each mutex belongs to the thread that is between its lock and  *)
(* its unlock, so that no thread unlocks another's (loop-mt.c).              *)
TypeOK ==
  /\ role \in {"peer", "source"} /\ alto \in BOOLEAN
  /\ section \in [Threads -> Sections \union {"none"}]
  /\ leaving \in [Threads -> BOOLEAN]
  /\ held \in [Threads -> 0 .. 2]
  /\ owner \in [Mutexes -> Threads \union {"none"}]
  /\ \A t \in Threads :
       /\ section[t] = "none" => held[t] = 0 /\ ~leaving[t]
       /\ section[t] # "none" =>
            section[t] \in SectionsOf(t) /\ held[t] <= Len(Locks(section[t]))
       /\ leaving[t] => held[t] > 0
       /\ \A m \in Mutexes : owner[m] = t <=> HasLocked(t, m)

\* t changes r while u uses it.
Race(t, u, r) ==
  /\ t # u /\ Inside(t) /\ Inside(u)
  /\ r \in Writes(section[t])
  /\ r \in Writes(section[u]) \union Reads(section[u])

(* Where the two mutexes do not keep threads apart: at a peer, an arriving   *)
(* chunk looks up and marks its sender, and is counted, under cb_mutex while *)
(* the timer drops peers and counts them under topology_mutex (and, with     *)
(* ALTO, announces the buffer); at the source, a new chunk evicts one that   *)
(* signalling is sending or announcing under topology_mutex.  Everywhere     *)
(* else, the senders above all, they do (received_chunk, update_peers,       *)
(* reg_neigh_size, add_chunk, send_accepted_chunks).                         *)
OnlyKnownRaces ==
  \A t, u \in Threads, r \in Resources : Race(t, u, r) =>
    \/ /\ role = "peer" /\ {section[t], section[u]} = {"receive", "tick"}
       /\ r = "chunks" => alto
    \/ /\ role = "source" /\ r = "chunks"
       /\ section[t] = "forge" /\ section[u] # "distribute"

(* The chunk buffer is never kept locked: whoever holds cb_mutex does not    *)
(* wait for the other mutex (loop-mt.c).                                     *)
BufferIsReleased == owner["cb"] # "none" ~> owner["cb"] = "none"
=============================================================================
