---------------------------- MODULE ChunkLockProofs ----------------------------
(***************************************************************************)
(* That the array of chunklock.c is an exclusive lock table with a timeout *)
(* for any chunks, any timeout, any step the array grows in and any time   *)
(* it runs, and that it is never written beyond its allocation.            *)
(***************************************************************************)
EXTENDS ChunkLock, FiniteSetTheorems, SequenceTheorems, TLAPS

Lock == [chunkid : Chunks, timestamp : 0 .. MaxTime]

\* Locks are in the order of their times, none from the future.
Aged(s, t) ==
  /\ \A j, k \in DOMAIN s : j < k => s[j].timestamp <= s[k].timestamp
  /\ \A k \in DOMAIN s : s[k].timestamp <= t

\* There is one lock on a chunk, live or timed out: chunk_islocked sweeps first.
Exclusive(s) == \A j, k \in DOMAIN s : s[j].chunkid = s[k].chunkid => j = k

\* The inductive invariant.
LockInv ==
  /\ locks \in Seq(Lock)
  /\ lsize \in Nat
  /\ now \in 0 .. MaxTime
  /\ Aged(locks, now)
  /\ Exclusive(locks)
  /\ FitsAllocation

\* The fields of the locks.
LEMMA Fields ==
  ASSUME NEW s \in Seq(Lock)
  PROVE  /\ Len(s) \in Nat /\ DOMAIN s = 1 .. Len(s)
         /\ \A k \in DOMAIN s : s[k] \in Lock /\ s[k].chunkid \in Chunks
                                /\ s[k].timestamp \in Nat
<1>1. /\ Len(s) \in Nat /\ DOMAIN s = 1 .. Len(s)
      /\ \A k \in DOMAIN s : s[k] \in Lock
  OBVIOUS
<1> QED
  BY <1>1, MaxTimeAssumption DEF Lock

-----------------------------------------------------------------------------
\* How many numbers there are from a + 1 to b.
LEMMA Count ==
  ASSUME NEW a \in Nat, NEW b \in Nat, a <= b
  PROVE  IsFiniteSet(a + 1 .. b) /\ Cardinality(a + 1 .. b) = b - a
<1>1. /\ IsFiniteSet(a + 1 .. b)
      /\ Cardinality(a + 1 .. b) = IF a + 1 > b THEN 0 ELSE b - (a + 1) + 1
  BY FS_Interval
<1> QED
  BY <1>1

\* Positions of which each has all those before it are the first ones.
LEMMA FirstPositions ==
  ASSUME NEW L \in Nat, NEW K \in SUBSET (1 .. L),
         \A k \in K : \A j \in 1 .. k : j \in K
  PROVE  \E d \in 0 .. L : K = 1 .. d
<1> DEFINE d == Cardinality(K)
<1>1. ASSUME NEW n \in Nat PROVE IsFiniteSet(1 .. n) /\ Cardinality(1 .. n) = n
  BY Count, 0 + 1 .. n = 1 .. n
<1>2. IsFiniteSet(K) /\ d \in Nat /\ d <= L
  <2>1. IsFiniteSet(1 .. L) /\ Cardinality(1 .. L) = L
    BY <1>1
  <2>2. IsFiniteSet(K) /\ Cardinality(K) <= Cardinality(1 .. L)
    BY <2>1, FS_Subset
  <2> QED
    BY <2>1, <2>2, FS_CardinalityType
<1>3. ASSUME NEW k \in K PROVE k <= d
  <2>1. 1 .. k \subseteq K /\ k \in Nat
    OBVIOUS
  <2>2. Cardinality(1 .. k) = k
    BY <1>1, <2>1
  <2> QED
    BY <1>2, <2>1, <2>2, FS_Subset
<1>4. /\ K \subseteq 1 .. d /\ IsFiniteSet(1 .. d) /\ Cardinality(1 .. d) = d
  BY <1>1, <1>2, <1>3
<1>5. 1 .. d = K
  BY <1>4, FS_Subset
<1> QED
  BY <1>2, <1>5

\* A sweep that keeps the last entries moves them to the front.
LEMMA KeptLast ==
  ASSUME NEW s, NEW d \in Nat, NEW L \in Nat, d <= L
  PROVE  Kept(s, d + 1 .. L) = [i \in 1 .. L - d |-> s[d + i]]
<1>1. Cardinality(d + 1 .. L) = L - d
  BY Count
<1>2. ASSUME NEW i \in 1 .. L - d PROVE Nth(d + 1 .. L, i) = d + i
  <2>1. ASSUME NEW k \in d + 1 .. L PROVE Cardinality({j \in d + 1 .. L : j <= k}) = k - d
    <3>1. k \in Nat /\ d <= k /\ {j \in d + 1 .. L : j <= k} = d + 1 .. k
      OBVIOUS
    <3> QED
      BY <3>1, Count
  <2>2. d + i \in d + 1 .. L /\ \A k \in d + 1 .. L : k - d = i <=> k = d + i
    OBVIOUS
  <2> QED
    BY <2>1, <2>2 DEF Nth
<1> QED
  BY <1>1, <1>2 DEF Kept

\* chunk_locks_cleanup drops the oldest locks, as far as they have timed out.
LEMMA Sweep ==
  ASSUME LockInv
  PROVE  \E d \in 0 .. Len(locks) :
           /\ Cleanup = [i \in 1 .. Len(locks) - d |-> locks[d + i]]
           /\ \A k \in DOMAIN locks : ~TimedOut(locks[k]) <=> k > d
<1> DEFINE L == Len(locks)
           D == {k \in DOMAIN locks : TimedOut(locks[k])}
           K == {k \in DOMAIN locks : ~TimedOut(locks[k])}
<1>1. /\ L \in Nat /\ DOMAIN locks = 1 .. L /\ now \in Int
      /\ \A k \in DOMAIN locks : locks[k].timestamp \in Nat
  BY Fields DEF LockInv
<1>2. \A k \in D : \A j \in 1 .. k : j \in D
  <2> SUFFICES ASSUME NEW k \in D, NEW j \in 1 .. k PROVE j \in D
    OBVIOUS
  <2>1. j \in DOMAIN locks /\ (j < k \/ j = k)
    BY <1>1
  <2>2. locks[j].timestamp <= locks[k].timestamp
    BY <1>1, <2>1 DEF LockInv, Aged
  <2> QED
    BY <1>1, <2>1, <2>2, TimeoutAssumption DEF TimedOut
<1>3. PICK d \in 0 .. L : D = 1 .. d
  <2>1. D \in SUBSET (1 .. L)
    BY <1>1
  <2> HIDE DEF D
  <2> QED
    BY <1>1, <1>2, <2>1, FirstPositions
<1>4. \A k \in DOMAIN locks : ~TimedOut(locks[k]) <=> k > d
  BY <1>1, <1>3
<1>5. K = d + 1 .. L
  BY <1>1, <1>4
<1>6. Cleanup = Kept(locks, K)
  BY DEF Cleanup
<1> HIDE DEF D, K, L
<1>7. Cleanup = [i \in 1 .. L - d |-> locks[d + i]]
  BY <1>1, <1>3, <1>5, <1>6, KeptLast
<1> QED
  BY <1>3, <1>4, <1>7 DEF L

-----------------------------------------------------------------------------
Entries(s) == {s[k] : k \in DOMAIN s}

\* What a sweep keeps: the locks that have not timed out, in their order.
LEMMA SweepStays ==
  ASSUME LockInv
  PROVE  /\ Cleanup \in Seq(Lock) /\ Len(Cleanup) <= Len(locks)
         /\ Aged(Cleanup, now) /\ Exclusive(Cleanup)
         /\ Entries(Cleanup) = {l \in Entries(locks) : ~TimedOut(l)}
<1> DEFINE L == Len(locks)
<1>1. /\ L \in Nat /\ DOMAIN locks = 1 .. L /\ locks \in Seq(Lock)
      /\ Aged(locks, now) /\ Exclusive(locks)
      /\ \A k \in DOMAIN locks : locks[k] \in Lock
  BY Fields DEF LockInv
<1>2. PICK d \in 0 .. L :
        /\ Cleanup = [i \in 1 .. L - d |-> locks[d + i]]
        /\ \A k \in DOMAIN locks : ~TimedOut(locks[k]) <=> k > d
  BY Sweep
<1> HIDE DEF L
<1>3. \A i \in 1 .. L - d : d + i \in DOMAIN locks /\ d + i > d
  BY <1>1, <1>2
<1>4. /\ Cleanup \in Seq(Lock) /\ Len(Cleanup) = L - d /\ DOMAIN Cleanup = 1 .. L - d
      /\ \A i \in 1 .. L - d : Cleanup[i] = locks[d + i]
  BY <1>1, <1>2, <1>3
<1>5. Aged(Cleanup, now)
  <2>1. ASSUME NEW j \in 1 .. L - d, NEW k \in 1 .. L - d, j < k
        PROVE  locks[d + j].timestamp <= locks[d + k].timestamp
    <3>1. d + j \in DOMAIN locks /\ d + k \in DOMAIN locks /\ d + j < d + k
      BY <1>1, <1>2, <1>3, <2>1
    <3> QED
      BY <1>1, <3>1 DEF Aged
  <2>2. \A k \in 1 .. L - d : locks[d + k].timestamp <= now
    BY <1>1, <1>3 DEF Aged
  <2> QED
    BY <1>4, <2>1, <2>2 DEF Aged
<1>6. Exclusive(Cleanup)
  <2>1. ASSUME NEW j \in 1 .. L - d, NEW k \in 1 .. L - d,
               locks[d + j].chunkid = locks[d + k].chunkid
        PROVE  j = k
    <3>1. d + j \in DOMAIN locks /\ d + k \in DOMAIN locks
      BY <1>3
    <3>2. d + j = d + k
      BY <1>1, <2>1, <3>1, Zenon DEF Exclusive
    <3> QED
      BY <3>2
  <2> QED
    BY <1>4, <2>1, Zenon DEF Exclusive
<1>7. Entries(Cleanup) \subseteq {l \in Entries(locks) : ~TimedOut(l)}
  BY <1>2, <1>3, <1>4 DEF Entries
<1>8. ASSUME NEW k \in DOMAIN locks, ~TimedOut(locks[k])
      PROVE  locks[k] \in Entries(Cleanup)
  <2>1. k - d \in 1 .. L - d /\ d + (k - d) = k
    BY <1>1, <1>2, <1>8
  <2> QED
    BY <1>4, <2>1 DEF Entries
<1>9. Entries(Cleanup) = {l \in Entries(locks) : ~TimedOut(l)}
  BY <1>7, <1>8 DEF Entries
<1>10. Len(Cleanup) <= Len(locks)
  BY <1>1, <1>2, <1>4 DEF L
<1> QED
  BY <1>4, <1>5, <1>6, <1>9, <1>10

\* What chunk_lock appends.
LEMMA AppendStays ==
  ASSUME NEW s \in Seq(Lock), NEW t \in 0 .. MaxTime, NEW c \in Chunks,
         Aged(s, t), Exclusive(s), ~Holds(s, c),
         NEW r, r = Append(s, [chunkid |-> c, timestamp |-> t])
  PROVE  /\ r \in Seq(Lock) /\ Len(r) = Len(s) + 1
         /\ Aged(r, t) /\ Exclusive(r)
         /\ Entries(r) = Entries(s) \union {[chunkid |-> c, timestamp |-> t]}
<1> DEFINE new == [chunkid |-> c, timestamp |-> t]
<1>1. new \in Lock /\ new.chunkid = c /\ new.timestamp = t /\ t \in Nat
  BY MaxTimeAssumption DEF Lock
<1> HIDE DEF new
<1>2. r = Append(s, new)
  BY DEF new
<1>3. /\ Len(s) \in Nat /\ DOMAIN s = 1 .. Len(s)
      /\ r \in Seq(Lock) /\ Len(r) = Len(s) + 1 /\ DOMAIN r = 1 .. Len(s) + 1
      /\ r[Len(s) + 1] = new /\ \A k \in 1 .. Len(s) : r[k] = s[k]
  BY <1>1, <1>2
<1>4. Aged(r, t)
  BY <1>1, <1>3 DEF Aged
<1>5. Exclusive(r)
  BY <1>1, <1>3 DEF Exclusive, Holds
<1>6. Entries(r) = Entries(s) \union {new}
  <2>1. Entries(r) \subseteq Entries(s) \union {new}
    BY <1>3 DEF Entries
  <2>2. Entries(s) \subseteq Entries(r)
    BY <1>3 DEF Entries
  <2>3. new \in Entries(r)
    BY <1>3 DEF Entries
  <2> QED
    BY <2>1, <2>2, <2>3
<1> QED
  BY <1>3, <1>4, <1>5, <1>6 DEF new

Unlocked(s, c) == RemoveFirstMatch(s, LAMBDA l : l.chunkid = c)

\* chunk_unlock takes out the lock on the chunk, if there is one.
LEMMA UnlockFact ==
  ASSUME NEW s \in Seq(Lock), NEW c, Exclusive(s)
  PROVE  \/ ~Holds(s, c) /\ Unlocked(s, c) = s
         \/ \E i \in DOMAIN s : s[i].chunkid = c /\ Unlocked(s, c) = RemoveAt(s, i)
<1> DEFINE I == {k \in 1 .. Len(s) : s[k].chunkid = c}
<1>1. DOMAIN s = 1 .. Len(s) /\ Len(s) \in Nat
  OBVIOUS
<1>2. Unlocked(s, c) =
        IF \E k \in 1 .. Len(s) : s[k].chunkid = c
        THEN RemoveAt(s, IF I # {} THEN Min(I) ELSE 0)
        ELSE s
  BY DEF Unlocked, RemoveFirstMatch, SelectInSeq
<1>3. ASSUME NEW i \in I PROVE Min(I) = i
  <2>1. I = {i}
    BY <1>1 DEF Exclusive
  <2> QED
    BY <2>1 DEF Min
<1>4. CASE Holds(s, c)
  <2>1. PICK i \in 1 .. Len(s) : s[i].chunkid = c
    BY <1>1, <1>4 DEF Holds
  <2>2. i \in I /\ I # {}
    BY <2>1
  <2>3. (IF I # {} THEN Min(I) ELSE 0) = i
    BY <1>3, <2>2
  <2> HIDE DEF I
  <2>4. Unlocked(s, c) = RemoveAt(s, i)
    BY <1>2, <2>1, <2>3, Zenon
  <2> QED
    BY <1>1, <2>1, <2>4, Zenon
<1>5. CASE ~Holds(s, c)
  <2>1. ~\E k \in 1 .. Len(s) : s[k].chunkid = c
    BY <1>1, <1>5 DEF Holds
  <2> HIDE DEF I
  <2> QED
    BY <1>2, <1>5, <2>1, Zenon
<1> QED
  BY <1>4, <1>5, Zenon

\* chunk_lock_remove closes the gap.
LEMMA RemoveFact ==
  ASSUME NEW s \in Seq(Lock), NEW i \in DOMAIN s, NEW r, r = RemoveAt(s, i)
  PROVE  /\ r \in Seq(Lock) /\ Len(r) = Len(s) - 1
         /\ \A k \in 1 .. Len(r) : r[k] = IF k < i THEN s[k] ELSE s[k + 1]
<1> DEFINE a == SubSeq(s, 1, i - 1)
           b == SubSeq(s, i + 1, Len(s))
<1>1. r = a \o b /\ i \in 1 .. Len(s) /\ Len(s) \in Nat
  BY DEF RemoveAt
<1>2. /\ a \in Seq(Lock) /\ b \in Seq(Lock) /\ Len(a) = i - 1 /\ Len(b) = Len(s) - i
      /\ \A k \in 1 .. i - 1 : a[k] = s[k]
      /\ \A k \in 1 .. Len(s) - i : b[k] = s[i + k]
  BY SMTT(30)
<1> HIDE DEF a, b
<1>3. /\ a \o b \in Seq(Lock) /\ Len(a \o b) = Len(a) + Len(b)
      /\ \A k \in 1 .. Len(a) + Len(b) :
           (a \o b)[k] = IF k <= Len(a) THEN a[k] ELSE b[k - Len(a)]
  <2>1. a \in Seq(Lock) /\ b \in Seq(Lock)
    BY <1>2
  <2> QED
    BY <2>1, ConcatProperties, Zenon
<1>4. /\ r \in Seq(Lock) /\ Len(r) = Len(a) + Len(b)
      /\ \A k \in 1 .. Len(a) + Len(b) : r[k] = IF k <= Len(a) THEN a[k] ELSE b[k - Len(a)]
  BY <1>1, <1>3, Zenon
<1>5. Len(r) = Len(s) - 1
  BY <1>1, <1>2, <1>4
<1>6. ASSUME NEW k \in 1 .. Len(s) - 1, k < i PROVE r[k] = s[k]
  <2>1. k \in 1 .. i - 1 /\ k <= Len(a) /\ k \in 1 .. Len(a) + Len(b)
    BY <1>1, <1>2, <1>6, SMTT(30)
  <2>2. r[k] = a[k]
    BY <1>4, <2>1, Zenon
  <2> QED
    BY <1>2, <2>1, <2>2, Zenon
<1>7. ASSUME NEW k \in 1 .. Len(s) - 1, ~(k < i) PROVE r[k] = s[k + 1]
  <2>1. /\ k - Len(a) \in 1 .. Len(s) - i /\ i + (k - Len(a)) = k + 1 /\ ~(k <= Len(a))
        /\ k \in 1 .. Len(a) + Len(b)
    <3>1. /\ Len(a) = i - 1 /\ Len(b) = Len(s) - i /\ i \in Nat /\ k \in Nat
          /\ i <= k /\ k <= Len(s) - 1 /\ i >= 1 /\ k >= 1 /\ i <= Len(s)
      BY <1>1, <1>2, <1>7, SMTT(30)
    <3>2. k - Len(a) = k + 1 - i
      BY <3>1
    <3>3. Len(a) + Len(b) = Len(s) - 1
      BY <1>1, <3>1
    <3>4. ~(k <= Len(a))
      BY <3>1
    <3>5. k + 1 - i \in 1 .. Len(s) - i /\ i + (k + 1 - i) = k + 1
      BY <1>1, <3>1, SMTT(30)
    <3>6. k \in 1 .. Len(s) - 1
      BY <1>7
    <3> QED
      BY <3>2, <3>3, <3>4, <3>5, <3>6, Zenon
  <2>2. r[k] = b[k - Len(a)]
    BY <1>4, <2>1
  <2> QED
    BY <1>2, <2>1, <2>2
<1> QED
  BY <1>4, <1>5, <1>6, <1>7

LEMMA RemoveStays ==
  ASSUME NEW s \in Seq(Lock), NEW t \in 0 .. MaxTime, Aged(s, t), Exclusive(s),
         NEW i \in DOMAIN s, NEW r, r = RemoveAt(s, i)
  PROVE  /\ r \in Seq(Lock) /\ Len(r) <= Len(s)
         /\ Aged(r, t) /\ Exclusive(r)
         /\ Entries(r) = {l \in Entries(s) : l.chunkid # s[i].chunkid}
<1> DEFINE f(k) == IF k < i THEN k ELSE k + 1
<1>1. /\ Len(s) \in Nat /\ DOMAIN s = 1 .. Len(s)
      /\ r \in Seq(Lock) /\ Len(r) = Len(s) - 1 /\ DOMAIN r = 1 .. Len(s) - 1
      /\ \A k \in DOMAIN r : r[k] = IF k < i THEN s[k] ELSE s[k + 1]
  <2>1. /\ r \in Seq(Lock) /\ Len(r) = Len(s) - 1
        /\ \A k \in 1 .. Len(r) : r[k] = IF k < i THEN s[k] ELSE s[k + 1]
    BY RemoveFact, Zenon
  <2>2. Len(s) \in Nat /\ DOMAIN s = 1 .. Len(s) /\ DOMAIN r = 1 .. Len(r)
    BY <2>1
  <2>3. DOMAIN r = 1 .. Len(s) - 1
    BY <2>1, <2>2, Zenon
  <2> QED
    BY <2>1, <2>2, <2>3, Zenon
<1>2. /\ \A k \in DOMAIN r : f(k) \in DOMAIN s /\ f(k) # i /\ r[k] = s[f(k)]
      /\ \A j, k \in DOMAIN r : j < k => f(j) < f(k)
      /\ \A j, k \in DOMAIN r : f(j) = f(k) => j = k
  BY <1>1
<1>3. ASSUME NEW k \in DOMAIN s, k # i PROVE \E j \in DOMAIN r : f(j) = k
  <2>1. CASE k < i
    <3>1. k \in DOMAIN r /\ f(k) = k
      BY <1>1, <2>1
    <3> QED
      BY <3>1
  <2>2. CASE k > i
    <3>1. k - 1 \in DOMAIN r /\ f(k - 1) = k
      BY <1>1, <2>2
    <3> QED
      BY <3>1
  <2> QED
    BY <1>1, <1>3, <2>1, <2>2
<1> HIDE DEF f
<1>4. Aged(r, t)
  BY <1>2 DEF Aged
<1>5. Exclusive(r)
  BY <1>2 DEF Exclusive
<1>6. Entries(r) = {l \in Entries(s) : l.chunkid # s[i].chunkid}
  <2>1. ASSUME NEW k \in DOMAIN s PROVE s[k].chunkid # s[i].chunkid <=> k # i
    BY DEF Exclusive
  <2>2. Entries(r) = {s[k] : k \in DOMAIN s \ {i}}
    BY <1>2, <1>3 DEF Entries
  <2> QED
    BY <2>1, <2>2 DEF Entries
<1> QED
  BY <1>1, <1>4, <1>5, <1>6

-----------------------------------------------------------------------------
LEMMA LockInvInit == Init => LockInv
<1> SUFFICES ASSUME Init PROVE LockInv
  OBVIOUS
<1>1. locks = <<>> /\ lsize = 0 /\ now = 0 /\ Len(locks) = 0
  BY DEF Init
<1>2. locks \in Seq(Lock) /\ DOMAIN locks = {}
  BY <1>1
<1> QED
  BY <1>1, <1>2, MaxTimeAssumption DEF LockInv, Aged, Exclusive, FitsAllocation

LEMMA RequestStays ==
  ASSUME LockInv, NEW c \in Chunks, Request(c)
  PROVE  LockInv'
<1> DEFINE s == Cleanup
<1>1. /\ s \in Seq(Lock) /\ Len(s) <= Len(locks) /\ Aged(s, now) /\ Exclusive(s)
      /\ Len(s) \in Nat
  BY SweepStays
<1>2. /\ now' = now /\ now \in 0 .. MaxTime /\ lsize \in Nat /\ Len(locks) <= lsize
      /\ Len(locks) \in Nat
  BY DEF Request, LockInv, FitsAllocation
<1>3. CASE locks' = s /\ lsize' = lsize
  <2> HIDE DEF s
  <2> QED
    BY <1>1, <1>2, <1>3 DEF LockInv, Aged, Exclusive, FitsAllocation
<1>4. CASE /\ ~Holds(s, c)
           /\ lsize' = Grown(Len(s))
           /\ locks' = Append(s, [chunkid |-> c, timestamp |-> now])
  <2> HIDE DEF s
  <2>1. /\ locks' \in Seq(Lock) /\ Len(locks') = Len(s) + 1
        /\ Aged(locks', now) /\ Exclusive(locks')
    BY <1>1, <1>2, <1>4, AppendStays
  <2>2. lsize' \in Nat /\ Len(s) + 1 <= lsize'
    BY <1>1, <1>2, <1>4, IncrementAssumption DEF Grown
  <2> QED
    BY <1>2, <2>1, <2>2 DEF LockInv, Aged, Exclusive, FitsAllocation
<1> QED
  BY <1>3, <1>4 DEF Request

LEMMA UnlockStays ==
  ASSUME LockInv, NEW c \in Chunks, Unlock(c)
  PROVE  /\ LockInv' /\ ~Holds(locks', c)
         /\ Entries(locks') = {l \in Entries(locks) : l.chunkid # c}
<1>1. /\ locks \in Seq(Lock) /\ Aged(locks, now) /\ Exclusive(locks) /\ Len(locks) <= lsize
      /\ now \in 0 .. MaxTime /\ lsize \in Nat /\ Len(locks) \in Nat
      /\ now' = now /\ lsize' = lsize
  BY DEF LockInv, FitsAllocation, Unlock
<1>2. locks' = Unlocked(locks, c)
  BY DEF Unlock, Unlocked
<1>3. \/ ~Holds(locks, c) /\ locks' = locks
      \/ \E i \in DOMAIN locks : locks[i].chunkid = c /\ locks' = RemoveAt(locks, i)
  BY <1>1, <1>2, UnlockFact
<1>4. CASE ~Holds(locks, c) /\ locks' = locks
  <2>1. Entries(locks') = {l \in Entries(locks) : l.chunkid # c}
    BY <1>4 DEF Entries, Holds
  <2> QED
    BY <1>1, <1>4, <2>1 DEF LockInv, FitsAllocation
<1>5. ASSUME NEW i \in DOMAIN locks, locks[i].chunkid = c, locks' = RemoveAt(locks, i)
      PROVE  /\ LockInv' /\ ~Holds(locks', c)
             /\ Entries(locks') = {l \in Entries(locks) : l.chunkid # c}
  <2>1. /\ locks' \in Seq(Lock) /\ Len(locks') <= Len(locks)
        /\ Aged(locks', now) /\ Exclusive(locks')
        /\ Entries(locks') = {l \in Entries(locks) : l.chunkid # locks[i].chunkid}
    BY <1>1, <1>5, RemoveStays, ZenonT(60)
  <2>2. Entries(locks') = {l \in Entries(locks) : l.chunkid # c}
    BY <1>5, <2>1
  <2>3. ~Holds(locks', c)
    BY <2>2 DEF Entries, Holds
  <2>4. Len(locks') \in Nat
    BY <2>1
  <2> QED
    BY <1>1, <2>1, <2>2, <2>3, <2>4 DEF LockInv, Aged, Exclusive, FitsAllocation
<1> QED
  BY <1>3, <1>4, <1>5

LEMMA TickStays ==
  ASSUME LockInv, Tick
  PROVE  LockInv'
<1>1. /\ now' \in 0 .. MaxTime /\ now \in Nat /\ now' = now + 1
      /\ locks' = locks /\ lsize' = lsize
  BY MaxTimeAssumption DEF Tick, LockInv
<1>2. \A k \in DOMAIN locks : locks[k].timestamp \in Nat
  BY Fields DEF LockInv
<1> QED
  BY <1>1, <1>2 DEF LockInv, Aged, Exclusive, FitsAllocation

LEMMA LockInvStep == LockInv /\ [Next]_vars => LockInv'
<1> SUFFICES ASSUME LockInv, [Next]_vars PROVE LockInv'
  OBVIOUS
<1>1. CASE UNCHANGED vars
  BY <1>1 DEF vars, LockInv, Aged, Exclusive, FitsAllocation
<1>2. CASE Next
  BY <1>2, RequestStays, UnlockStays, TickStays DEF Next
<1> QED
  BY <1>1, <1>2

\* The array holds one lock on a chunk, in the order of their times, and has
\* room for them all.
THEOREM Invariance == Spec => []LockInv
<1> QED
  BY LockInvInit, LockInvStep, PTL DEF Spec

\* Every variable keeps its type.
THEOREM TypeCorrect == Spec => []TypeOK
<1>1. LockInv => TypeOK
  BY DEF LockInv, TypeOK, Lock
<1> QED
  BY <1>1, Invariance, PTL

\* chunk_lock and chunk_lock_remove stay within what realloc has returned.
THEOREM StaysAllocated == Spec => []FitsAllocation
<1>1. LockInv => FitsAllocation
  BY DEF LockInv
<1> QED
  BY <1>1, Invariance, PTL

\* chunk_unlock takes out the first lock on the chunk, and leaves none.
THEOREM UnlockIsComplete == Spec => UnlockReleases
<1>1. LockInv /\ [Next]_vars =>
        [\A c \in Chunks : Unlock(c) => \A k \in DOMAIN locks' : locks'[k].chunkid # c]_vars
  BY UnlockStays DEF Holds
<1> QED
  BY <1>1, Invariance, PTL DEF Spec, UnlockReleases

-----------------------------------------------------------------------------
\* The locks of the list s that have not timed out at t.
LiveAt(s, t) == {l \in Entries(s) : ~(t > l.timestamp + Timeout)}

\* The function A holds the ages at t of the locks S.
IsTable(A, S, t) ==
  /\ A = [c \in DOMAIN A |-> A[c]]
  /\ DOMAIN A = {l.chunkid : l \in S}
  /\ \A l \in S : A[l.chunkid] = t - l.timestamp

LEMMA SameTable ==
  ASSUME NEW A, NEW B, NEW S, NEW t, IsTable(A, S, t), IsTable(B, S, t)
  PROVE  A = B
<1>1. DOMAIN A = DOMAIN B /\ \A c \in DOMAIN A : A[c] = B[c]
  BY DEF IsTable
<1> QED
  BY <1>1 DEF IsTable

Without(S, c) == {l \in S : l.chunkid # c}

\* What a new lock adds to the table, what an unlock takes out of it, and what
\* the clock does to it: the steps of LockTable.
LEMMA AcquireTable ==
  ASSUME NEW S, NEW t \in Nat, NEW c, NEW A, IsTable(A, S, t), c \notin DOMAIN A,
         NEW B, IsTable(B, S \union {[chunkid |-> c, timestamp |-> t]}, t)
  PROVE  B = [y \in DOMAIN A \union {c} |-> IF y = c THEN 0 ELSE A[y]]
<1> DEFINE new == [chunkid |-> c, timestamp |-> t]
<1>1. new.chunkid = c /\ t - new.timestamp = 0
  OBVIOUS
<1> HIDE DEF new
<1>2. B = [y \in DOMAIN B |-> B[y]] /\ DOMAIN B = {l.chunkid : l \in S \union {new}}
  BY DEF IsTable, new
<1>3. DOMAIN B = DOMAIN A \union {c}
  BY <1>1, <1>2, ZenonT(60) DEF IsTable
<1>4. B[c] = 0
  BY <1>1 DEF IsTable, new
<1>5. \A l \in S : B[l.chunkid] = A[l.chunkid]
  BY DEF IsTable
<1>6. \A y \in DOMAIN A : B[y] = A[y]
  BY <1>5 DEF IsTable
<1> QED
  BY <1>2, <1>3, <1>4, <1>6

LEMMA ReleaseTable ==
  ASSUME NEW S, NEW t, NEW c, NEW A, IsTable(A, S, t),
         NEW B, IsTable(B, Without(S, c), t)
  PROVE  B = [y \in DOMAIN A \ {c} |-> A[y]]
<1>1. DOMAIN B = DOMAIN A \ {c}
  BY DEF IsTable, Without
<1>2. \A y \in DOMAIN B : B[y] = A[y]
  BY DEF IsTable, Without
<1> QED
  BY <1>1, <1>2 DEF IsTable

LEMMA PassTable ==
  ASSUME NEW t \in Nat, NEW S,
         \A l \in S : l.timestamp \in Nat,
         \A l, m \in S : l.chunkid = m.chunkid => l = m,
         NEW A, IsTable(A, S, t),
         NEW B, IsTable(B, {l \in S : ~(t + 1 > l.timestamp + Timeout)}, t + 1)
  PROVE  B = [y \in {z \in DOMAIN A : A[z] < Timeout} |-> A[y] + 1]
<1>1. \A l \in S : A[l.chunkid] < Timeout <=> ~(t + 1 > l.timestamp + Timeout)
  BY TimeoutAssumption DEF IsTable
<1>2. DOMAIN B = {z \in DOMAIN A : A[z] < Timeout}
  BY <1>1 DEF IsTable
<1>3. \A y \in DOMAIN B : B[y] = A[y] + 1
  BY DEF IsTable
<1> QED
  BY <1>2, <1>3 DEF IsTable

\* The locks on the positions K of s, with their ages at t.
AgesOf(s, K, t) ==
  [c \in {s[k].chunkid : k \in K} |-> t - s[CHOOSE k \in K : s[k].chunkid = c].timestamp]

\* The function ChunkLock!Age computes from an array s of exclusive locks.
LEMMA AgeIsTable ==
  ASSUME NEW s \in Seq(Lock), NEW t, Exclusive(s)
  PROVE  IsTable(AgesOf(s, {k \in DOMAIN s : ~(t > s[k].timestamp + Timeout)}, t),
                 LiveAt(s, t), t)
<1> DEFINE K == {k \in DOMAIN s : ~(t > s[k].timestamp + Timeout)}
           A == AgesOf(s, K, t)
<1>1. DOMAIN A = {l.chunkid : l \in LiveAt(s, t)}
  BY DEF LiveAt, Entries, AgesOf
<1>2. ASSUME NEW k \in K PROVE A[s[k].chunkid] = t - s[k].timestamp
  <2>1. (CHOOSE j \in K : s[j].chunkid = s[k].chunkid) = k
    BY DEF Exclusive
  <2> HIDE DEF K
  <2> QED
    BY <2>1 DEF AgesOf
<1>3. \A l \in LiveAt(s, t) : \E k \in K : l = s[k]
  BY DEF LiveAt, Entries
<1>4. \A l \in LiveAt(s, t) : A[l.chunkid] = t - l.timestamp
  BY <1>2, <1>3
<1>5. A = [c \in DOMAIN A |-> A[c]]
  <2> HIDE DEF K
  <2> QED
    BY DEF AgesOf
<1> QED
  BY <1>1, <1>4, <1>5, Zenon DEF IsTable

LEMMA AgeFact ==
  ASSUME LockInv
  PROVE  IsTable(Age, LiveAt(locks, now), now)
<1>1. Live = {k \in DOMAIN locks : ~(now > locks[k].timestamp + Timeout)}
  BY DEF Live, TimedOut
<1>2. Age = AgesOf(locks, Live, now)
  BY DEF Age, LockOf, AgesOf
<1>3. locks \in Seq(Lock) /\ Exclusive(locks)
  BY DEF LockInv, Exclusive
<1> QED
  BY <1>1, <1>2, <1>3, AgeIsTable, Zenon

LEMMA AgeNext ==
  ASSUME LockInv'
  PROVE  IsTable(Age', LiveAt(locks', now'), now')
<1>1. Live' = {k \in DOMAIN locks' : ~(now' > locks'[k].timestamp + Timeout)}
  BY DEF Live, TimedOut
<1>2. Age' = AgesOf(locks', Live', now')
  BY DEF Age, LockOf, AgesOf
<1>3. locks' \in Seq(Lock) /\ Exclusive(locks')
  BY DEF LockInv, Exclusive
<1> QED
  BY <1>1, <1>2, <1>3, AgeIsTable, Zenon

-----------------------------------------------------------------------------
\* Each operation of chunklock.c is one of LockTable, or leaves its table alone.
LEMMA RequestImplements ==
  ASSUME LockInv, NEW c \in Chunks, Request(c)
  PROVE  Abstract!Acquire(c) \/ Age' = Age
<1> DEFINE S == LiveAt(locks, now)
           new == [chunkid |-> c, timestamp |-> now]
<1>1. /\ IsTable(Age, S, now) /\ IsTable(Age', LiveAt(locks', now), now)
      /\ now \in Nat /\ now \in 0 .. MaxTime
  <2>1. LockInv' /\ now' = now
    BY RequestStays DEF Request
  <2>2. now \in 0 .. MaxTime /\ now \in Nat
    BY MaxTimeAssumption DEF LockInv
  <2> QED
    BY <2>1, <2>2, AgeFact, AgeNext
<1>2. /\ Cleanup \in Seq(Lock) /\ Aged(Cleanup, now) /\ Exclusive(Cleanup)
      /\ Entries(Cleanup) = S
  BY SweepStays DEF LiveAt, TimedOut
<1>3. CASE locks' = Cleanup
  <2>1. LiveAt(locks', now) = S
    BY <1>2, <1>3 DEF LiveAt
  <2> QED
    BY <1>1, <2>1, SameTable
<1>4. CASE /\ ~Holds(Cleanup, c)
           /\ locks' = Append(Cleanup, new)
  <2>1. Entries(locks') = S \union {new}
    BY <1>1, <1>2, <1>4, AppendStays, ZenonT(60)
  <2>2. LiveAt(locks', now) = S \union {new}
    <3>1. ~(now > new.timestamp + Timeout)
      BY <1>1, TimeoutAssumption
    <3> HIDE DEF new
    <3> QED
      BY <2>1, <3>1 DEF LiveAt
  <2>3. c \notin DOMAIN Age
    BY <1>1, <1>2, <1>4 DEF IsTable, Holds, Entries
  <2>4. IsTable(Age', S \union {new}, now)
    BY <1>1, <2>2
  <2> HIDE DEF S
  <2>5. Age' = [y \in DOMAIN Age \union {c} |-> IF y = c THEN 0 ELSE Age[y]]
    BY <1>1, <2>3, <2>4, AcquireTable
  <2> QED
    BY <2>3, <2>5 DEF Abstract!Acquire
<1> QED
  BY <1>3, <1>4 DEF Request

LEMMA UnlockImplements ==
  ASSUME LockInv, NEW c \in Chunks, Unlock(c)
  PROVE  Abstract!Release(c) \/ Age' = Age
<1> DEFINE S == LiveAt(locks, now)
<1>1. /\ LockInv' /\ now' = now
      /\ Entries(locks') = {l \in Entries(locks) : l.chunkid # c}
  BY UnlockStays DEF Unlock
<1>2. LiveAt(locks', now') = Without(S, c)
  BY <1>1 DEF LiveAt, Without
<1>3. IsTable(Age, S, now) /\ IsTable(Age', Without(S, c), now)
  BY <1>1, <1>2, AgeFact, AgeNext
<1> HIDE DEF S
<1>4. CASE c \in DOMAIN Age
  <2>1. Age' = [y \in DOMAIN Age \ {c} |-> Age[y]]
    BY <1>3, ReleaseTable
  <2> QED
    BY <1>4, <2>1 DEF Abstract!Release
<1>5. CASE c \notin DOMAIN Age
  <2>1. Without(S, c) = S
    BY <1>3, <1>5 DEF IsTable, Without
  <2> QED
    BY <1>3, <2>1, SameTable
<1> QED
  BY <1>4, <1>5

LEMMA TickImplements ==
  ASSUME LockInv, Tick
  PROVE  Abstract!Pass
<1> DEFINE S == LiveAt(locks, now)
<1>1. LockInv' /\ locks' = locks /\ now' = now + 1 /\ now \in Nat
  BY TickStays, MaxTimeAssumption DEF Tick, LockInv
<1>2. /\ \A l \in S : l.timestamp \in Nat
      /\ \A l, m \in S : l.chunkid = m.chunkid => l = m
  <2>1. \A k \in DOMAIN locks : locks[k].timestamp \in Nat
    BY Fields DEF LockInv
  <2> QED
    BY <2>1 DEF LiveAt, Entries, LockInv, Exclusive
<1>3. LiveAt(locks', now') = {l \in S : ~(now + 1 > l.timestamp + Timeout)}
  <2>1. \A l \in Entries(locks) : l.timestamp \in Nat
    BY Fields DEF LockInv, Entries
  <2>2. Entries(locks') = Entries(locks)
    BY <1>1 DEF Entries
  <2> QED
    BY <1>1, <2>1, <2>2, TimeoutAssumption DEF LiveAt
<1>4. /\ IsTable(Age, S, now)
      /\ IsTable(Age', {l \in S : ~(now + 1 > l.timestamp + Timeout)}, now + 1)
  BY <1>1, <1>3, AgeFact, AgeNext
<1> HIDE DEF S
<1>5. Age' = [y \in {z \in DOMAIN Age : Age[z] < Timeout} |-> Age[y] + 1]
  BY <1>1, <1>2, <1>4, PassTable
<1> QED
  BY <1>5 DEF Abstract!Pass

\* The array that is swept only when somebody asks is, at every moment, the
\* table of the locks that have not timed out: a locked chunk is not locked
\* again, and it is free as soon as it is unlocked or has timed out.
THEOREM Implementation == Spec => ImplementsLockTable
<1>1. Init => Abstract!Init
  <2> SUFFICES ASSUME Init PROVE Age = [c \in {} |-> 0]
    BY DEF Abstract!Init
  <2>1. Live = {}
    BY DEF Init, Live
  <2> QED
    BY <2>1 DEF Age
<1>2. LockInv /\ [Next]_vars => [Abstract!Next]_Age
  <2> SUFFICES ASSUME LockInv, [Next]_vars PROVE Abstract!Next \/ Age' = Age
    OBVIOUS
  <2>1. CASE UNCHANGED vars
    BY <2>1 DEF vars, Age, Live, LockOf, TimedOut
  <2>2. ASSUME NEW c \in Chunks, Request(c) PROVE Abstract!Next \/ Age' = Age
    BY <2>2, RequestImplements DEF Abstract!Next
  <2>3. ASSUME NEW c \in Chunks, Unlock(c) PROVE Abstract!Next \/ Age' = Age
    BY <2>3, UnlockImplements DEF Abstract!Next
  <2>4. CASE Tick
    BY <2>4, TickImplements DEF Abstract!Next
  <2> QED
    BY <2>1, <2>2, <2>3, <2>4 DEF Next
<1> QED
  BY <1>1, <1>2, Invariance, PTL DEF Spec, ImplementsLockTable, Abstract!Spec
=============================================================================
