------------------------------ MODULE ChunkLock ------------------------------
(***************************************************************************)
(* The lock table of chunklock.c: an array of (chunk id, time) in the order*)
(* the locks were taken, grown in steps of Increment.  Timed-out locks stay*)
(* in it until chunk_islocked sweeps them out.                             *)
(*                                                                         *)
(* `Request' is what get_chunks_to_accept does with a chunk it needs; the  *)
(* program never calls chunk_lock without that test.                       *)
(***************************************************************************)
EXTENDS Lists, SequencesExt

CONSTANTS
  Chunks,     \* chunk ids
  Timeout,    \* toutdiff, 2 s
  Increment,  \* LSIZE_INCREMENT, 10
  MaxTime     \* bound: the clock stops there

ASSUME TimeoutAssumption == Timeout \in Nat
ASSUME IncrementAssumption == Increment \in Nat \ {0}
ASSUME MaxTimeAssumption == MaxTime \in Nat

VARIABLES
  locks,  \* locks[1 .. lcount]
  lsize,  \* allocated entries
  now     \* gettimeofday

vars == <<locks, lsize, now>>

\* Fault: the last tick of the timeout is over already.
TimedOutEarly(l) == now >= l.timestamp + Timeout

\* chunk_lock_timed_out
TimedOut(l) == now > l.timestamp + Timeout

\* chunk_locks_cleanup, with chunk_lock_remove closing the gaps.
Cleanup == Kept(locks, {k \in DOMAIN locks : ~TimedOut(locks[k])})

\* Fault: only the newest lock is looked at.
HoldsNewest(list, c) == list # <<>> /\ Last(list).chunkid = c

Holds(list, c) == \E k \in DOMAIN list : list[k].chunkid = c

\* Fault: the table shrinks.
GrownDown(lcount) == IF lcount = lsize THEN lsize - Increment ELSE lsize

\* Fault: the table grows one entry late.
GrownLate(lcount) == IF lcount = lsize + 1 THEN lsize + Increment ELSE lsize

\* locks_init: room for one more entry after lcount of them.
Grown(lcount) == IF lcount = lsize THEN lsize + Increment ELSE lsize

Init ==
  /\ locks = <<>>
  /\ lsize = 0
  /\ now = 0

\* chunk_islocked, which sweeps, and chunk_lock when it says no and _needs says
\* yes.
Request(c) ==
  /\ \/ /\ locks' = Cleanup
        /\ UNCHANGED lsize
     \/ /\ ~Holds(Cleanup, c)
        /\ lsize' = Grown(Len(Cleanup))
        /\ locks' = Append(Cleanup, [chunkid |-> c, timestamp |-> now])
  /\ UNCHANGED now

\* chunk_unlock: the first lock on the chunk, timed out or not.
Unlock(c) ==
  /\ locks' = RemoveFirstMatch(locks, LAMBDA l : l.chunkid = c)
  /\ UNCHANGED <<lsize, now>>

Tick ==
  /\ now < MaxTime
  /\ now' = now + 1
  /\ UNCHANGED <<locks, lsize>>

Next ==
  \/ \E c \in Chunks : Request(c) \/ Unlock(c)
  \/ Tick

Spec == Init /\ [][Next]_vars

-----------------------------------------------------------------------------
\* Every variable keeps its type.
TypeOK ==
  /\ locks \in Seq([chunkid : Chunks, timestamp : 0 .. MaxTime])
  /\ lsize \in Nat
  /\ now \in 0 .. MaxTime

\* No entry is written or moved beyond the allocation: the table grows in time
\* whatever the lazy sweep has left in it.
FitsAllocation == Len(locks) <= lsize

\* chunk_unlock stops at the first lock it finds: that is all of them, because
\* the sweep of chunk_islocked leaves no stale lock in front of a new one.
UnlockReleases ==
  [][\A c \in Chunks : Unlock(c) => \A k \in DOMAIN locks' : locks'[k].chunkid # c]_vars

\* The lazily swept array is the lock table its caller believes in.
Live == {k \in DOMAIN locks : ~TimedOut(locks[k])}
LockOf(c) == locks[CHOOSE k \in Live : locks[k].chunkid = c]
Age == [c \in {locks[k].chunkid : k \in Live} |-> now - LockOf(c).timestamp]
Abstract == INSTANCE LockTable WITH age <- Age
ImplementsLockTable == Abstract!Spec
=============================================================================
