--------------------------- MODULE OfferTimerProofs ---------------------------
(***************************************************************************)
(* That rate control keeps the offer period in its bounds, for every       *)
(* limit, rate and initial period, whatever acks and accepts come; and,    *)
(* from the least distance of two offers that follows, that the list of    *)
(* transactions is bounded and its ids do not meet, for every width of the *)
(* counter that has enough ids (EnoughIds).                                *)
(***************************************************************************)
EXTENDS OfferTimer, FiniteSetTheorems, SequenceTheorems, TLAPS

\* The quotient of a conversion to an integer lies between its neighbours.
LEMMA QuotientFact ==
  ASSUME NEW n \in Nat, NEW d \in Nat \ {0}
  PROVE  /\ Quotient(n, d) \in Nat
         /\ Quotient(n, d) * d <= n
         /\ n < (Quotient(n, d) + 1) * d
  BY Z3 DEF Quotient

\* Speeding up never lengthens the period.
LEMMA FasterFact ==
  ASSUME period \in Nat, since \in Never .. PeriodMax, NEW boost \in Nat
  PROVE  Faster(boost) \in Nat /\ Faster(boost) <= period
<1> DEFINE d == DownTime + boost * Dt
           q == Faster(boost)
<1>1. Dt \in Nat
  BY DEF Dt, Never
<1>2. boost * Dt \in Nat
  BY <1>1
<1>3. d \in Nat \ {0} /\ d >= DownTime
  BY <1>2, RateAssumption
<1>4. period * DownTime \in Nat
  BY RateAssumption
<1>5. q \in Nat /\ q * d <= period * DownTime
  BY <1>3, <1>4, QuotientFact DEF Faster
<1>6. q * DownTime <= q * d
  BY <1>3, <1>5, RateAssumption
<1>7. q * DownTime <= period * DownTime
  BY <1>3, <1>4, <1>5, <1>6, RateAssumption
<1>8. q <= period
  BY <1>5, <1>7, RateAssumption
<1> QED
  BY <1>5, <1>8

\* Slowing down never shortens it.
LEMMA SlowerFact ==
  ASSUME period \in Nat, since \in Never .. PeriodMax, NEW boost \in Nat
  PROVE  Slower(boost) \in Nat /\ Slower(boost) >= period
<1> DEFINE n == period * (UpTime + boost * Dt)
           q == Slower(boost)
<1>1. Dt \in Nat
  BY DEF Dt, Never
<1>2. boost * Dt \in Nat
  BY <1>1
<1>3. n \in Nat /\ n >= period * UpTime
  BY <1>2, RateAssumption
<1>4. q \in Nat /\ n < (q + 1) * UpTime
  BY <1>3, QuotientFact, RateAssumption DEF Slower
<1>5. period * UpTime < (q + 1) * UpTime
  BY <1>3, <1>4, RateAssumption
<1>6. period < q + 1
  BY <1>4, <1>5, RateAssumption
<1> QED
  BY <1>4, <1>6

\* The variables of rate control keep their types and the period its bounds.
RateInv ==
  /\ initial \in Initials
  /\ since \in Never .. PeriodMax
  /\ period \in Nat
  /\ PeriodInBounds

LEMMA SpeedUpStays ==
  ASSUME RateInv, NEW b \in Nat \ {0}, NEW p \in SpeedUp(b)
  PROVE  p \in Nat /\ p \in Smaller(PeriodMin, initial) .. Larger(PeriodMax, initial)
<1>1. /\ Faster(1) \in Nat /\ Faster(1) <= period
      /\ Faster(b) \in Nat
  BY FasterFact DEF RateInv
<1>2. PICK f \in Faster(b) .. Faster(1) : p = Larger(PeriodMin, f)
  BY DEF SpeedUp
<1>3. f \in Nat /\ f <= period
  BY <1>1, <1>2 DEF RateInv
<1>4. initial \in Nat
  BY InitialsAssumption DEF RateInv
<1> QED
  BY <1>2, <1>3, <1>4, PeriodAssumption DEF RateInv, PeriodInBounds, Larger, Smaller

LEMMA SlowDownStays ==
  ASSUME RateInv, NEW b \in Nat \ {0}, NEW p \in SlowDown(b)
  PROVE  p \in Nat /\ p \in Smaller(PeriodMin, initial) .. Larger(PeriodMax, initial)
<1>1. /\ Slower(1) \in Nat /\ Slower(1) >= period
      /\ Slower(b) \in Nat
  BY SlowerFact DEF RateInv
<1>2. PICK f \in Slower(1) .. Slower(b) : p = Smaller(PeriodMax, f)
  BY DEF SlowDown
<1>3. f \in Nat /\ f >= period
  BY <1>1, <1>2 DEF RateInv
<1>4. initial \in Nat
  BY InitialsAssumption DEF RateInv
<1> QED
  BY <1>2, <1>3, <1>4, PeriodAssumption DEF RateInv, PeriodInBounds, Larger, Smaller

LEMMA RateInvInit == Init => RateInv
  BY InitialsAssumption, PeriodAssumption
  DEF Init, RInit, RateInv, PeriodInBounds, Never, Larger, Smaller

LEMMA UpdateStays ==
  ASSUME RateInv, NEW acc, UpdatePeriod(acc) PROVE RateInv'
<1>1. /\ initial' = initial
      /\ since' = 0
  BY DEF UpdatePeriod
<1>2. \/ \E b \in Nat \ {0} : period' \in SpeedUp(b)
      \/ \E b \in Nat \ {0} : period' \in SlowDown(b)
  BY RateAssumption DEF UpdatePeriod
<1>3. period' \in Nat /\ period' \in Smaller(PeriodMin, initial) .. Larger(PeriodMax, initial)
  BY <1>2, SpeedUpStays, SlowDownStays
<1> QED
  BY <1>1, <1>3, PeriodAssumption DEF RateInv, PeriodInBounds, Never

LEMMA RateInvStep == RateInv /\ [Next]_vars => RateInv'
<1> SUFFICES ASSUME RateInv, [Next]_vars PROVE RateInv'
  OBVIOUS
<1>1. CASE UNCHANGED <<period, initial, since>>
  BY <1>1 DEF RateInv, PeriodInBounds
<1>2. ASSUME NEW id, AckReceived(id) PROVE RateInv'
  <2>1. CASE UNCHANGED rcVars
    BY <1>1, <2>1 DEF rcVars
  <2>2. CASE Measures(ret') /\ UpdatePeriod(ret')
    BY <2>2, UpdateStays DEF Measures
  <2> QED
    BY <1>2, <2>1, <2>2 DEF AckReceived
<1>3. CASE Tick
  BY <1>3, PeriodAssumption
  DEF Tick, TimePasses, RateInv, PeriodInBounds, Never, Smaller
<1>4. CASE IdleTurn \/ OfferTurn \/ UNCHANGED vars
  BY <1>1, <1>4 DEF IdleTurn, OfferTurn, rcVars, vars
<1>5. ASSUME NEW id, NEW accepted, AcceptReceived(id, accepted) PROVE RateInv'
  BY <1>1, <1>5 DEF AcceptReceived, UpdateOfferAccept
<1> QED
  BY <1>2, <1>3, <1>4, <1>5 DEF Next

\* Whatever the delays of acks and the outcome of offers, the offer period of a
\* peer stays between PERIOD_MIN and PERIOD_MAX, or its initial value.
THEOREM PeriodStaysInBounds == Spec => []PeriodInBounds
<1>1. RateInv => PeriodInBounds
  BY DEF RateInv
<1> QED
  BY <1>1, RateInvInit, RateInvStep, PTL DEF Spec

-----------------------------------------------------------------------------
\* The largest transaction id, 2^16 - 1.
Top == 2^Width - 1

\* The shortest time between two timer instants.
Shortest == Smaller(PeriodMin, initial)

\* There are 2^Width subsets of a set of Width elements, a natural number.
LEMMA TopFact == Top \in Int /\ 2^Width = Top + 1
<1>1. IsFiniteSet(1 .. Width) /\ Cardinality(1 .. Width) = Width
  BY FS_Interval, WidthAssumption
<1>2. IsFiniteSet(SUBSET (1 .. Width)) /\ Cardinality(SUBSET (1 .. Width)) = 2^Width
  BY <1>1, FS_SUBSET
<1>3. 2^Width \in Nat
  BY <1>2, FS_CardinalityType
<1> QED
  BY <1>3 DEF Top

\* The remainders the counter meets.
LEMMA SmallRemainder ==
  ASSUME NEW n \in Nat, NEW d \in Nat, n < d PROVE n % d = n
  OBVIOUS

LEMMA SelfRemainder ==
  ASSUME NEW d \in Nat \ {0} PROVE d % d = 0
  OBVIOUS

\* trans_id runs through the ids from 1 to Top and starts again.
LEMMA NextIdFact ==
  ASSUME NEW t \in 1 .. Top
  PROVE  NextId(t) = IF t = Top THEN 1 ELSE t + 1
<1>1. Top \in Nat /\ Top + 1 \in Nat \ {0} /\ t \in Nat \ {0} /\ 2^Width = Top + 1
  BY TopFact
<1>2. CASE t = Top
  BY <1>1, <1>2, SelfRemainder DEF NextId
<1>3. CASE t # Top
  <2>1. (t + 1) % (Top + 1) = t + 1
    BY <1>1, <1>3, SmallRemainder
  <2> QED
    BY <1>1, <1>3, <2>1 DEF NextId
<1> QED
  BY <1>2, <1>3

\* n offers that are a shortest period apart fit in a lifetime and a stall.
LEMMA FewOffers ==
  ASSUME NEW p \in Nat \ {0}
  PROVE  /\ OffersPerLifetime(p) \in Nat \ {0}
         /\ \A n \in Nat : n * p <= Lifetime + MaxLate => n < OffersPerLifetime(p)
<1> DEFINE x == Lifetime + MaxLate
<1>1. x \in Nat
  BY LifetimeAssumption, TimerAssumption
<1>2. x \div p \in Nat /\ x < (x \div p + 1) * p
  BY <1>1, QuotientFact DEF Quotient
<1>3. ASSUME NEW n \in Nat, n * p <= x PROVE n < x \div p + 1
  <2>1. n * p < (x \div p + 1) * p
    BY <1>1, <1>2, <1>3
  <2> HIDE DEF x
  <2> QED
    BY <1>2, <2>1, Z3
<1> QED
  BY <1>2, <1>3 DEF OffersPerLifetime

\* All of them have different ids.
LEMMA ShortestFact ==
  ASSUME RateInv
  PROVE  /\ Shortest \in Nat \ {0} /\ Shortest <= period
         /\ OffersPerLifetime(Shortest) \in 1 .. Top
<1>1. Shortest \in Nat \ {0} /\ Shortest <= period
  BY InitialsAssumption, PeriodAssumption DEF RateInv, Shortest, PeriodInBounds, Smaller, Larger
<1>2. OffersPerLifetime(Shortest) \in Nat \ {0} /\ OffersPerLifetime(Shortest) < 2^Width
  BY <1>1, FewOffers, EnoughIds DEF RateInv, Shortest
<1> QED
  BY <1>1, <1>2, TopFact

-----------------------------------------------------------------------------
Entry == [id : 1 .. Top, age : 0 .. Lifetime + 1, acc : NoAccept .. AccCap]

\* How many ids were given out after id, when t is the last.
Given(t, id) == IF id <= t THEN t - id ELSE t - id + Top

\* An entry e that has not expired: as many offers followed as fit between it
\* and now, d before the next turn, when offers are p apart.
Paced(e, t, d, p) ==
  /\ (Given(t, e.id) + 1) * p <= e.age + d + MaxLate
  /\ Given(t, e.id) * p <= e.age + MaxLate

\* Every entry that has not expired is paced, and later ones are nearer the head.
Spaced(s, t, d, p) ==
  \A k \in DOMAIN s : ~Expired(s[k]) =>
    /\ Paced(s[k], t, d, p)
    /\ k - 1 <= Given(t, s[k].id)
    /\ \A j \in 1 .. k - 1 : Given(t, s[j].id) < Given(t, s[k].id)

\* The newest entry is the first.
Aged(s) == \A j, k \in DOMAIN s : j < k => s[j].age <= s[k].age

\* The inductive invariant.
ListInv ==
  /\ RateInv
  /\ stl \in Seq(Entry)
  /\ trans_id \in 1 .. Top
  /\ due \in Int /\ -MaxLate <= due /\ due <= Larger(PeriodMax, initial)
  /\ ret \in Missing .. AccCap
  /\ willing \in BOOLEAN
  /\ Aged(stl)
  /\ Spaced(stl, trans_id, due, Shortest)
  /\ ListIsBounded

\* s is what is left of r when entries are taken out, whatever their accept times.
Thinned(s, r) ==
  \E f \in [DOMAIN s -> DOMAIN r] :
    /\ \A k \in DOMAIN s : f[k] >= k /\ s[k].id = r[f[k]].id /\ s[k].age = r[f[k]].age
    /\ \A j, k \in DOMAIN s : j < k => f[j] < f[k]

\* Ids that were given out before an id are behind it.
LEMMA GivenType ==
  ASSUME NEW t \in 1 .. Top, NEW id \in 1 .. Top
  PROVE  Given(t, id) \in Nat
  BY TopFact DEF Given

LEMMA EntryFact ==
  ASSUME NEW s \in Seq(Entry), NEW k \in DOMAIN s
  PROVE  /\ s[k] \in Entry /\ s[k].id \in 1 .. Top /\ s[k].age \in 0 .. Lifetime + 1
         /\ k \in Nat \ {0} /\ k <= Len(s)
<1>1. s[k] \in Entry /\ k \in Nat \ {0} /\ k <= Len(s)
  OBVIOUS
<1> QED
  BY <1>1 DEF Entry

\* Taking entries out disturbs neither the order nor the spacing.
LEMMA ThinnedStays ==
  ASSUME NEW s \in Seq(Entry), NEW r \in Seq(Entry), Thinned(s, r),
         NEW t \in 1 .. Top, NEW d, NEW p
  PROVE  /\ Aged(r) => Aged(s)
         /\ Spaced(r, t, d, p) => Spaced(s, t, d, p)
<1>1. PICK f \in [DOMAIN s -> DOMAIN r] :
        /\ \A k \in DOMAIN s : f[k] >= k /\ s[k].id = r[f[k]].id /\ s[k].age = r[f[k]].age
        /\ \A j, k \in DOMAIN s : j < k => f[j] < f[k]
  BY DEF Thinned
<1>2. DOMAIN s = 1 .. Len(s) /\ DOMAIN r = 1 .. Len(r) /\ Len(s) \in Nat /\ Len(r) \in Nat
  OBVIOUS
<1>3. Aged(r) => Aged(s)
  BY <1>1 DEF Aged
<1>4. ASSUME Spaced(r, t, d, p), NEW k \in DOMAIN s, ~Expired(s[k])
      PROVE  /\ Paced(s[k], t, d, p)
             /\ k - 1 <= Given(t, s[k].id)
             /\ \A j \in 1 .. k - 1 : Given(t, s[j].id) < Given(t, s[k].id)
  <2>1. f[k] \in DOMAIN r /\ ~Expired(r[f[k]])
    BY <1>1, <1>4 DEF Expired
  <2>2. /\ Paced(r[f[k]], t, d, p)
        /\ f[k] - 1 <= Given(t, r[f[k]].id)
        /\ \A j \in 1 .. f[k] - 1 : Given(t, r[j].id) < Given(t, r[f[k]].id)
    BY <1>4, <2>1 DEF Spaced
  <2>3. Paced(s[k], t, d, p)
    BY <1>1, <2>2 DEF Paced
  <2>4. k - 1 <= Given(t, s[k].id)
    <3>1. Given(t, s[k].id) \in Int /\ s[k].id = r[f[k]].id /\ f[k] >= k
      BY <1>1, GivenType, EntryFact
    <3> QED
      BY <1>2, <2>1, <2>2, <3>1
  <2>5. ASSUME NEW j \in 1 .. k - 1
        PROVE  Given(t, s[j].id) < Given(t, s[k].id)
    <3>1. j \in DOMAIN s /\ j < k
      BY <1>2
    <3>2. f[j] \in 1 .. f[k] - 1
      BY <1>1, <1>2, <2>1, <3>1
    <3> QED
      BY <1>1, <2>2, <3>1, <3>2
  <2> QED
    BY <2>3, <2>4, <2>5
<1> QED
  BY <1>3, <1>4 DEF Spaced

-----------------------------------------------------------------------------
\* How many the first n numbers are.
LEMMA Count ==
  ASSUME NEW n \in Nat
  PROVE  IsFiniteSet(1 .. n) /\ Cardinality(1 .. n) = n
<1>1. /\ IsFiniteSet(1 .. n)
      /\ Cardinality(1 .. n) = IF 1 > n THEN 0 ELSE n - 1 + 1
  BY FS_Interval
<1> QED
  BY <1>1

\* Positions of which each has all those before it are the first ones.
LEMMA FirstPositions ==
  ASSUME NEW L \in Nat, NEW K \in SUBSET (1 .. L),
         \A k \in K : \A j \in 1 .. k : j \in K
  PROVE  Cardinality(K) \in 0 .. L /\ K = 1 .. Cardinality(K)
<1>1. IsFiniteSet(K) /\ Cardinality(K) \in Nat /\ Cardinality(K) <= L
  <2>1. IsFiniteSet(K) /\ Cardinality(K) <= L
    <3>1. IsFiniteSet(1 .. L) /\ Cardinality(1 .. L) = L
      BY Count
    <3>2. IsFiniteSet(K) /\ Cardinality(K) <= Cardinality(1 .. L)
      BY <3>1, FS_Subset
    <3> QED
      BY <3>1, <3>2
  <2> QED
    BY <2>1, FS_CardinalityType
<1>2. ASSUME NEW k \in K PROVE k <= Cardinality(K)
  <2>1. 1 .. k \subseteq K /\ k \in Nat
    OBVIOUS
  <2>2. Cardinality(1 .. k) = k
    BY <2>1, Count
  <2> QED
    BY <1>1, <2>1, <2>2, FS_Subset
<1>3. /\ K \subseteq 1 .. Cardinality(K) /\ IsFiniteSet(1 .. Cardinality(K))
      /\ Cardinality(1 .. Cardinality(K)) = Cardinality(K)
  BY <1>1, <1>2, Count
<1>4. 1 .. Cardinality(K) = K
  BY <1>3, FS_Subset
<1> QED
  BY <1>1, <1>4

\* A walk that keeps the first n entries of a list leaves them as they are.
LEMMA KeptFirst ==
  ASSUME NEW n \in Nat, NEW s
  PROVE  Kept(s, 1 .. n) = [i \in 1 .. n |-> s[i]]
<1>1. Cardinality(1 .. n) = n
  BY Count
<1>2. ASSUME NEW i \in 1 .. n PROVE Nth(1 .. n, i) = i
  <2>1. ASSUME NEW k \in 1 .. n PROVE Cardinality({j \in 1 .. n : j <= k}) = k
    <3>1. k \in Nat /\ {j \in 1 .. n : j <= k} = 1 .. k
      OBVIOUS
    <3> QED
      BY <3>1, Count
  <2> QED
    BY <2>1 DEF Nth
<1> QED
  BY <1>1, <1>2 DEF Kept

\* A search finds the first entry, if there is one.
LEMMA FirstFound ==
  ASSUME NEW L \in Nat, NEW I \in SUBSET (1 .. L), I # {}
  PROVE  Min(I) \in I /\ \A i \in I : Min(I) <= i
<1> DEFINE K == {k \in 1 .. L : \A i \in I : k < i}
<1>1. \A k \in K : \A j \in 1 .. k : j \in K
  OBVIOUS
<1>2. PICK d \in 0 .. L : K = 1 .. d
  BY <1>1, FirstPositions
<1>3. d + 1 \in I
  <2>1. d + 1 \in 1 .. L
    <3>1. PICK i \in I : TRUE
      OBVIOUS
    <3>2. i \in 1 .. L /\ i \notin K
      BY <3>1
    <3> QED
      BY <1>2, <3>2
  <2>2. d + 1 \notin K
    BY <1>2
  <2>3. PICK i \in I : i <= d + 1
    BY <2>1, <2>2
  <2>4. i > d
    <3>1. d = 0 \/ d \in K
      BY <1>2
    <3> QED
      BY <3>1
  <2> QED
    BY <2>3, <2>4
<1>4. \A i \in I : d + 1 <= i
  <2>1. d = 0 \/ d \in K
    BY <1>2
  <2> QED
    BY <2>1
<1> QED
  BY <1>3, <1>4 DEF Min

\* Where the walk over the list stops for an id.
LEMMA PositionFact ==
  ASSUME NEW id, stl \in Seq(Entry)
  PROVE  \/ Position(id) = 0
         \/ Position(id) \in DOMAIN stl /\ stl[Position(id)].id = id
<1> DEFINE I == {i \in 1 .. Len(stl) : stl[i].id = id}
<1>1. Position(id) = IF I # {} THEN Min(I) ELSE 0
  BY DEF Position, SelectInSeq
<1>2. I # {} => Min(I) \in I
  <2>1. Len(stl) \in Nat /\ I \in SUBSET (1 .. Len(stl))
    OBVIOUS
  <2> HIDE DEF I
  <2> QED
    BY <2>1, FirstFound
<1> QED
  BY <1>1, <1>2

\* What removing an element leaves.
LEMMA RemoveThins ==
  ASSUME NEW s \in Seq(Entry), NEW i \in DOMAIN s
  PROVE  RemoveAt(s, i) \in Seq(Entry) /\ Thinned(RemoveAt(s, i), s)
         /\ Len(RemoveAt(s, i)) = Len(s) - 1
<1> DEFINE r == RemoveAt(s, i)
           f == [k \in 1 .. Len(r) |-> IF k < i THEN k ELSE k + 1]
<1>1. /\ SubSeq(s, 1, i - 1) \in Seq(Entry) /\ Len(SubSeq(s, 1, i - 1)) = i - 1
      /\ SubSeq(s, i + 1, Len(s)) \in Seq(Entry) /\ Len(SubSeq(s, i + 1, Len(s))) = Len(s) - i
      /\ \A k \in 1 .. i - 1 : SubSeq(s, 1, i - 1)[k] = s[k]
      /\ \A k \in 1 .. Len(s) - i : SubSeq(s, i + 1, Len(s))[k] = s[i + k]
  OBVIOUS
<1>2. /\ r \in Seq(Entry) /\ Len(r) = Len(s) - 1
      /\ \A k \in 1 .. Len(r) : r[k] = IF k < i THEN s[k] ELSE s[k + 1]
  <2> DEFINE a == SubSeq(s, 1, i - 1)
             b == SubSeq(s, i + 1, Len(s))
  <2>1. r = a \o b
    BY DEF RemoveAt
  <2> HIDE DEF a, b, r
  <2>2. /\ a \in Seq(Entry) /\ b \in Seq(Entry) /\ Len(a) = i - 1 /\ Len(b) = Len(s) - i
        /\ \A k \in 1 .. i - 1 : a[k] = s[k]
        /\ \A k \in 1 .. Len(s) - i : b[k] = s[i + k]
    BY <1>1 DEF a, b
  <2>3. /\ r \in Seq(Entry) /\ Len(r) = Len(a) + Len(b)
        /\ \A k \in 1 .. Len(r) : r[k] = IF k <= Len(a) THEN a[k] ELSE b[k - Len(a)]
    <3>1. a \in Seq(Entry) /\ b \in Seq(Entry)
      BY <2>2
    <3>2. /\ a \o b \in Seq(Entry) /\ Len(a \o b) = Len(a) + Len(b)
          /\ \A k \in 1 .. Len(a) + Len(b) :
               (a \o b)[k] = IF k <= Len(a) THEN a[k] ELSE b[k - Len(a)]
      BY <3>1, ConcatProperties, Zenon
    <3> QED
      BY <2>1, <3>2, Zenon
  <2>4. i \in 1 .. Len(s) /\ Len(s) \in Nat
    OBVIOUS
  <2>5. ASSUME NEW k \in 1 .. Len(r), k < i PROVE r[k] = s[k]
    BY <2>2, <2>3, <2>4, <2>5, SMTT(30)
  <2>6. ASSUME NEW k \in 1 .. Len(r), ~(k < i) PROVE r[k] = s[k + 1]
    <3>1. k - Len(a) \in 1 .. Len(s) - i /\ i + (k - Len(a)) = k + 1
      <4>1. Len(a) = i - 1 /\ Len(r) = i - 1 + (Len(s) - i) /\ i \in Int /\ k \in Int
        BY <2>2, <2>3, <2>4
      <4> QED
        BY <2>4, <2>6, <4>1, SMTT(30)
    <3>2. r[k] = b[k - Len(a)]
      BY <2>2, <2>3, <2>4, <2>6
    <3> QED
      BY <2>2, <3>1, <3>2
  <2>7. Len(r) = Len(s) - 1
    BY <2>2, <2>3, <2>4
  <2> QED
    BY <2>3, <2>5, <2>6, <2>7, Zenon
<1> HIDE DEF r
<1>3. DOMAIN r = 1 .. Len(r) /\ DOMAIN s = 1 .. Len(s) /\ Len(s) \in Nat /\ Len(r) \in Nat
  BY <1>2
<1>4. /\ f \in [DOMAIN r -> DOMAIN s]
      /\ \A k \in DOMAIN r : f[k] >= k /\ r[k].id = s[f[k]].id /\ r[k].age = s[f[k]].age
      /\ \A j, k \in DOMAIN r : j < k => f[j] < f[k]
  BY <1>2, <1>3
<1>5. Thinned(r, s)
  BY <1>4 DEF Thinned
<1> QED
  BY <1>2, <1>5 DEF r

\* What an accept leaves of the list is the list, but for one accept time.
LEMMA SameThins ==
  ASSUME NEW s \in Seq(Entry), NEW r \in Seq(Entry), Len(s) = Len(r),
         \A k \in 1 .. Len(s) : s[k].id = r[k].id /\ s[k].age = r[k].age
  PROVE  Thinned(s, r)
<1> DEFINE f == [k \in 1 .. Len(s) |-> k]
<1>1. /\ f \in [DOMAIN s -> DOMAIN r]
      /\ \A k \in DOMAIN s : f[k] >= k /\ s[k].id = r[f[k]].id /\ s[k].age = r[f[k]].age
      /\ \A j, k \in DOMAIN s : j < k => f[j] < f[k]
  OBVIOUS
<1> QED
  BY <1>1 DEF Thinned

\* The walk of check_neighbor_status_list drops the head alone, or all that has
\* expired.
LEMMA PurgeThins ==
  ASSUME NEW s \in Seq(Entry), Aged(s)
  PROVE  /\ Purge(s) \in Seq(Entry) /\ Thinned(Purge(s), s)
         /\ \/ s # <<>> /\ Len(Purge(s)) = Len(s) - 1
            \/ \A k \in 1 .. Len(Purge(s)) : ~Expired(Purge(s)[k])
<1>1. CASE s # <<>> /\ Expired(Head(s))
  <2> DEFINE r == Tail(s)
             f == [k \in 1 .. Len(r) |-> k + 1]
  <2>1. Purge(s) = r
    BY <1>1 DEF Purge
  <2>2. /\ r \in Seq(Entry) /\ Len(r) = Len(s) - 1 /\ Len(s) \in Nat
        /\ \A k \in 1 .. Len(r) : r[k] = s[k + 1]
    BY <1>1, HeadTailProperties
  <2> HIDE DEF r
  <2>3. /\ f \in [DOMAIN r -> DOMAIN s]
        /\ \A k \in DOMAIN r : f[k] >= k /\ r[k].id = s[f[k]].id /\ r[k].age = s[f[k]].age
        /\ \A j, k \in DOMAIN r : j < k => f[j] < f[k]
    BY <2>2
  <2>4. Thinned(r, s)
    BY <2>3 DEF Thinned
  <2> QED
    BY <1>1, <2>1, <2>2, <2>4
<1>2. CASE ~(s # <<>> /\ Expired(Head(s)))
  <2> DEFINE K == {k \in DOMAIN s : ~Expired(s[k])}
             n == Cardinality(K)
             r == [i \in 1 .. n |-> s[i]]
             f == [i \in 1 .. n |-> i]
  <2>1. Len(s) \in Nat /\ DOMAIN s = 1 .. Len(s) /\ \A k \in DOMAIN s : s[k].age \in Int
    BY EntryFact
  <2>2. \A k \in K : \A j \in 1 .. k : j \in K
    <3> SUFFICES ASSUME NEW k \in K, NEW j \in 1 .. k PROVE j \in K
      OBVIOUS
    <3>1. j \in DOMAIN s /\ (j < k \/ j = k)
      BY <2>1
    <3>2. s[j].age <= s[k].age
      BY <2>1, <3>1 DEF Aged
    <3> QED
      BY <2>1, <3>1, <3>2, LifetimeAssumption DEF Expired
  <2>3. n \in 0 .. Len(s) /\ K = 1 .. n
    <3>1. K \in SUBSET (1 .. Len(s))
      BY <2>1
    <3> HIDE DEF K
    <3> QED
      BY <2>1, <2>2, <3>1, FirstPositions
  <2>4. Purge(s) = r
    <3>1. Purge(s) = Kept(s, K)
      BY <1>2 DEF Purge
    <3> HIDE DEF n, K
    <3> QED
      BY <2>3, <3>1, KeptFirst
  <2>5. \A k \in 1 .. n : ~Expired(s[k])
    BY <2>3
  <2> HIDE DEF n, K
  <2>6. r \in Seq(Entry) /\ Len(r) = n /\ DOMAIN r = 1 .. n
    BY <2>1, <2>3
  <2>7. /\ f \in [DOMAIN r -> DOMAIN s]
        /\ \A k \in DOMAIN r : f[k] >= k /\ r[k].id = s[f[k]].id /\ r[k].age = s[f[k]].age
        /\ \A j, k \in DOMAIN r : j < k => f[j] < f[k]
    BY <2>1, <2>3, <2>6
  <2>8. Thinned(r, s)
    BY <2>7 DEF Thinned
  <2> QED
    BY <2>4, <2>5, <2>6, <2>8
<1> QED
  BY <1>1, <1>2

-----------------------------------------------------------------------------
\* An id is one further behind after each new one, as long as they do not meet.
LEMMA GivenNext ==
  ASSUME NEW t \in 1 .. Top, NEW id \in 1 .. Top
  PROVE  /\ NextId(t) \in 1 .. Top
         /\ Given(NextId(t), NextId(t)) = 0
         /\ Given(t, id) + 1 < Top => Given(NextId(t), id) = Given(t, id) + 1
<1>1. Top \in Int
  BY TopFact
<1> QED
  BY <1>1, NextIdFact DEF Given

\* What is paced before a turn of the timer is paced after it.
LEMMA PacedTurn ==
  ASSUME NEW g \in Nat, NEW a \in Nat, NEW d \in Int, NEW p \in Nat \ {0}, NEW q \in Nat,
         p <= q, d <= 0, (g + 1) * p <= a + d + MaxLate
  PROVE  /\ (g + 1) * p <= a + MaxLate
         /\ (g + 1 + 1) * p <= a + (d + q) + MaxLate
<1>1. MaxLate \in Nat /\ (g + 1) * p \in Nat
  BY TimerAssumption
<1>2. (g + 1 + 1) * p = (g + 1) * p + p
  OBVIOUS
<1> QED
  BY <1>1, <1>2

\* An offer is opened in a turn that is not early: its id is not in use.
LEMMA OpenStays ==
  ASSUME NEW r \in Seq(Entry), NEW t \in 1 .. Top, NEW d \in Int, -MaxLate <= d, d <= 0,
         NEW p \in Nat \ {0}, NEW q \in Nat, p <= q, OffersPerLifetime(p) \in 1 .. Top,
         Aged(r), Spaced(r, t, d, p),
         NEW s, s = <<[id |-> NextId(t), age |-> 0, acc |-> NoAccept]>> \o r
  PROVE  /\ s \in Seq(Entry) /\ Len(s) = Len(r) + 1
         /\ Aged(s)
         /\ Spaced(s, NextId(t), d + q, p)
<1> DEFINE new == [id |-> NextId(t), age |-> 0, acc |-> NoAccept]
           u == NextId(t)
<1>1. u \in 1 .. Top /\ Given(u, u) = 0
  BY GivenNext
<1>2. new \in Entry /\ new.id = u /\ new.age = 0
  BY <1>1, LifetimeAssumption, AccCapAssumption DEF Entry, NoAccept
<1> HIDE DEF new
<1>3. /\ s \in Seq(Entry) /\ Len(s) = Len(r) + 1 /\ Len(r) \in Nat
      /\ s[1] = new
      /\ \A k \in 2 .. Len(s) : k - 1 \in DOMAIN r /\ s[k] = r[k - 1]
  <2>1. s = <<new>> \o r
    BY DEF new
  <2> QED
    BY <1>2, <2>1
<1>4. Aged(s)
  <2> SUFFICES ASSUME NEW j \in DOMAIN s, NEW k \in DOMAIN s, j < k
               PROVE  s[j].age <= s[k].age
    BY DEF Aged
  <2>1. k \in 2 .. Len(s) /\ s[k].age \in Nat /\ (j = 1 \/ j \in 2 .. Len(s))
    BY <1>3, EntryFact, SMTT(30)
  <2>2. CASE j = 1
    BY <1>2, <1>3, <2>1, <2>2
  <2>3. CASE j \in 2 .. Len(s)
    BY <1>3, <2>1, <2>3, SMTT(30) DEF Aged
  <2> QED
    BY <2>1, <2>2, <2>3
<1>5. ASSUME NEW i \in DOMAIN r, ~Expired(r[i])
      PROVE  /\ Given(u, r[i].id) = Given(t, r[i].id) + 1
             /\ Given(t, r[i].id) \in Nat
             /\ Paced(r[i], u, d + q, p)
  <2> DEFINE g == Given(t, r[i].id)
             a == r[i].age
  <2>1. r[i].id \in 1 .. Top /\ a \in Nat /\ a <= Lifetime
    BY <1>5, EntryFact, LifetimeAssumption, SMTT(30) DEF Expired
  <2>2. g \in Nat
    BY <2>1, GivenType
  <2>3. (g + 1) * p <= a + d + MaxLate
    BY <1>5 DEF Spaced, Paced
  <2> HIDE DEF g, a
  <2>4. /\ (g + 1) * p <= a + MaxLate
        /\ (g + 1 + 1) * p <= a + (d + q) + MaxLate
    BY <2>1, <2>2, <2>3, PacedTurn
  <2>5. g + 1 < Top
    <3>1. (g + 1) * p <= Lifetime + MaxLate
      <4>1. (g + 1) * p \in Nat
        BY <2>2
      <4> QED
        BY <2>1, <2>4, <4>1, TimerAssumption, LifetimeAssumption
    <3>2. g + 1 < OffersPerLifetime(p)
      BY <2>2, <3>1, FewOffers
    <3> QED
      BY <2>2, <3>2, TopFact
  <2>6. Given(u, r[i].id) = g + 1
    BY <2>1, <2>5, GivenNext DEF g
  <2> QED
    BY <2>2, <2>4, <2>6 DEF Paced, g, a
<1>6. ASSUME NEW k \in DOMAIN s, ~Expired(s[k])
      PROVE  /\ Paced(s[k], u, d + q, p)
             /\ k - 1 <= Given(u, s[k].id)
             /\ \A j \in 1 .. k - 1 : Given(u, s[j].id) < Given(u, s[k].id)
  <2>1. CASE k = 1
    <3>1. s[k].id = u /\ s[k].age = 0
      BY <1>2, <1>3, <2>1
    <3>2. Paced(s[k], u, d + q, p)
      <4>1. (0 + 1) * p <= 0 + (d + q) + MaxLate /\ 0 * p <= 0 + MaxLate
        BY TimerAssumption
      <4> QED
        BY <1>1, <3>1, <4>1 DEF Paced
    <3> QED
      BY <1>1, <2>1, <3>1, <3>2
  <2>2. CASE k # 1
    <3>1. k - 1 \in DOMAIN r /\ s[k] = r[k - 1] /\ k \in 2 .. Len(s)
      BY <1>3, <2>2
    <3>2. /\ Given(u, s[k].id) = Given(t, s[k].id) + 1
          /\ Given(t, s[k].id) \in Nat
          /\ Paced(s[k], u, d + q, p)
      BY <1>5, <1>6, <3>1
    <3>3. /\ k - 1 - 1 <= Given(t, s[k].id)
          /\ \A j \in 1 .. k - 1 - 1 : Given(t, r[j].id) < Given(t, s[k].id)
      BY <1>6, <3>1 DEF Spaced
    <3>4. ASSUME NEW j \in 1 .. k - 1
          PROVE  Given(u, s[j].id) < Given(u, s[k].id)
      <4>1. CASE j = 1
        BY <1>1, <1>2, <1>3, <3>2, <4>1, SMTT(30)
      <4>2. CASE j # 1
        <5>1. j - 1 \in DOMAIN r /\ s[j] = r[j - 1] /\ j - 1 \in 1 .. k - 1 - 1
          BY <1>3, <3>1, <4>2, SMTT(30)
        <5>2. ~Expired(r[j - 1])
          <6>1. r[j - 1].age <= r[k - 1].age
            BY <3>1, <5>1, SMTT(30) DEF Aged
          <6>2. \A i \in DOMAIN r : r[i].age \in Int
            BY EntryFact
          <6> QED
            BY <1>6, <3>1, <5>1, <6>1, <6>2, LifetimeAssumption, SMTT(30) DEF Expired
        <5>3. Given(u, s[j].id) = Given(t, s[j].id) + 1 /\ Given(t, s[j].id) \in Nat
          BY <1>5, <5>1, <5>2
        <5>4. Given(t, s[j].id) < Given(t, s[k].id)
          BY <3>3, <5>1
        <5> QED
          BY <3>2, <5>3, <5>4, SMTT(30)
      <4> QED
        BY <4>1, <4>2
    <3>5. k - 1 <= Given(u, s[k].id)
      BY <3>1, <3>2, <3>3, SMTT(30)
    <3> QED
      BY <3>2, <3>4, <3>5
  <2> QED
    BY <2>1, <2>2
<1> QED
  BY <1>3, <1>4, <1>6 DEF Spaced

\* A turn without an offer only postpones.
LEMMA IdleStays ==
  ASSUME NEW s \in Seq(Entry), NEW t \in 1 .. Top, NEW d \in Int, NEW p \in Nat \ {0},
         NEW q \in Nat, Spaced(s, t, d, p)
  PROVE  Spaced(s, t, d + q, p)
<1>1. ASSUME NEW k \in DOMAIN s, Paced(s[k], t, d, p) PROVE Paced(s[k], t, d + q, p)
  <2>1. Given(t, s[k].id) \in Nat /\ s[k].age \in Nat
    BY EntryFact, GivenType, LifetimeAssumption
  <2>2. (Given(t, s[k].id) + 1) * p \in Nat
    BY <2>1
  <2> QED
    BY <1>1, <2>1, <2>2, TimerAssumption, SMTT(30) DEF Paced
<1> QED
  BY <1>1 DEF Spaced

\* Time passes for the entries and for the timer alike.
LEMMA AgeStays ==
  ASSUME NEW s \in Seq(Entry), NEW t \in 1 .. Top, NEW d \in Int, NEW p \in Nat \ {0},
         Aged(s), Spaced(s, t, d, p),
         NEW r, r = [k \in DOMAIN s |-> Older(s[k])]
  PROVE  /\ r \in Seq(Entry) /\ Len(r) = Len(s)
         /\ Aged(r)
         /\ Spaced(r, t, d - 1, p)
<1>1. ASSUME NEW e \in Entry
      PROVE  /\ Older(e) \in Entry /\ Older(e).id = e.id
             /\ Older(e).age = IF Expired(e) THEN e.age ELSE e.age + 1
  <2> DEFINE a == IF Expired(e) THEN e.age ELSE e.age + 1
             b == IF e.acc = NoAccept \/ e.acc = AccCap THEN e.acc ELSE e.acc + 1
  <2>1. e.age \in 0 .. Lifetime + 1 /\ e.acc \in -1 .. AccCap
    BY DEF Entry, NoAccept
  <2>2. a \in 0 .. Lifetime + 1
    BY <2>1, LifetimeAssumption, SMTT(30) DEF Expired
  <2>3. b \in NoAccept .. AccCap
    BY <2>1, AccCapAssumption DEF NoAccept
  <2>4. Older(e) = [e EXCEPT !.age = a, !.acc = b]
    BY DEF Older
  <2> HIDE DEF a, b
  <2>5. /\ [e EXCEPT !.age = a, !.acc = b] \in Entry
        /\ [e EXCEPT !.age = a, !.acc = b].id = e.id
        /\ [e EXCEPT !.age = a, !.acc = b].age = a
    BY <2>2, <2>3 DEF Entry
  <2> QED
    BY <2>4, <2>5 DEF a
<1>2. /\ DOMAIN r = DOMAIN s /\ DOMAIN s = 1 .. Len(s) /\ Len(s) \in Nat
      /\ \A k \in DOMAIN s : /\ r[k] \in Entry /\ r[k].id = s[k].id
                            /\ s[k].age \in Nat
                            /\ r[k].age = IF Expired(s[k]) THEN s[k].age ELSE s[k].age + 1
  BY <1>1, EntryFact, LifetimeAssumption
<1>3. r \in Seq(Entry) /\ Len(r) = Len(s)
  BY <1>2
<1>4. Aged(r)
  BY <1>2, LifetimeAssumption, SMTT(30) DEF Aged, Expired
<1>5. ASSUME NEW k \in DOMAIN s, ~Expired(r[k])
      PROVE  ~Expired(s[k]) /\ r[k].age = s[k].age + 1
  BY <1>2, <1>5 DEF Expired
<1>6. ASSUME NEW k \in DOMAIN s, ~Expired(r[k]), Paced(s[k], t, d, p)
      PROVE  Paced(r[k], t, d - 1, p)
  <2> DEFINE g == Given(t, s[k].id)
             a == s[k].age
  <2>1. g \in Nat /\ r[k].id = s[k].id
    BY <1>2, <1>6, EntryFact, GivenType
  <2>2. a \in Nat /\ r[k].age = a + 1
    BY <1>2, <1>5, <1>6
  <2>3. (g + 1) * p <= a + d + MaxLate /\ g * p <= a + MaxLate
    BY <1>6 DEF Paced
  <2>4. Paced(r[k], t, d - 1, p) <=> /\ (g + 1) * p <= a + 1 + (d - 1) + MaxLate
                                     /\ g * p <= a + 1 + MaxLate
    BY <2>1, <2>2 DEF Paced
  <2> HIDE DEF g, a
  <2>5. (g + 1) * p \in Nat /\ g * p \in Nat
    BY <2>1
  <2> QED
    BY <2>2, <2>3, <2>4, <2>5, TimerAssumption
<1>7. ASSUME NEW k \in DOMAIN s, ~Expired(r[k])
      PROVE  /\ Paced(r[k], t, d - 1, p)
             /\ k - 1 <= Given(t, r[k].id)
             /\ \A j \in 1 .. k - 1 : Given(t, r[j].id) < Given(t, r[k].id)
  <2>1. /\ Paced(s[k], t, d, p)
        /\ k - 1 <= Given(t, s[k].id)
        /\ \A j \in 1 .. k - 1 : Given(t, s[j].id) < Given(t, s[k].id)
    BY <1>5, <1>7 DEF Spaced
  <2>2. \A j \in 1 .. k - 1 : j \in DOMAIN s
    BY <1>2
  <2> QED
    BY <1>2, <1>6, <1>7, <2>1, <2>2
<1> QED
  BY <1>2, <1>3, <1>4, <1>7 DEF Spaced

\* The list never holds more than the offers of a lifetime and a stall.
LEMMA BoundStays ==
  ASSUME NEW s \in Seq(Entry), NEW r \in Seq(Entry), NEW t \in 1 .. Top,
         NEW d \in Int, d <= 0, NEW p \in Nat \ {0},
         Spaced(r, t, d, p), Len(s) <= OffersPerLifetime(p),
         \/ s # <<>> /\ Len(r) = Len(s) - 1
         \/ \A k \in 1 .. Len(r) : ~Expired(r[k])
  PROVE  Len(r) + 1 <= OffersPerLifetime(p)
<1>1. OffersPerLifetime(p) \in Nat \ {0}
  BY FewOffers
<1>2. CASE Len(r) = Len(s) - 1
  BY <1>1, <1>2
<1>3. CASE Len(r) = 0
  BY <1>1, <1>3
<1>4. CASE Len(r) # 0 /\ \A k \in 1 .. Len(r) : ~Expired(r[k])
  <2> DEFINE n == Len(r)
             g == Given(t, r[n].id)
  <2>1. n \in Nat \ {0} /\ n \in DOMAIN r /\ ~Expired(r[n])
    BY <1>4
  <2>2. /\ (g + 1) * p <= r[n].age + d + MaxLate
        /\ n - 1 <= g
    BY <2>1 DEF Spaced, Paced
  <2>3. r[n].age \in Nat /\ r[n].age <= Lifetime /\ r[n].id \in 1 .. Top
    BY <2>1, EntryFact, LifetimeAssumption DEF Expired
  <2>4. g \in Nat
    BY <2>3, GivenType
  <2> HIDE DEF n, g
  <2>5. (g + 1) * p <= Lifetime + MaxLate
    <3>1. (g + 1) * p \in Nat
      BY <2>4
    <3> QED
      BY <2>2, <2>3, <3>1, LifetimeAssumption, TimerAssumption, SMTT(30)
  <2>6. g + 1 < OffersPerLifetime(p)
    BY <2>4, <2>5, FewOffers
  <2> QED
    BY <1>1, <2>1, <2>2, <2>4, <2>6 DEF n
<1> QED
  BY <1>2, <1>3, <1>4

-----------------------------------------------------------------------------
\* The list is empty at the start and the first turn is due.
LEMMA ListInvInit == Init => ListInv
<1> SUFFICES ASSUME Init PROVE ListInv
  OBVIOUS
<1>1. RateInv
  BY RateInvInit
<1>2. /\ Shortest \in Nat \ {0} /\ OffersPerLifetime(Shortest) \in 1 .. Top /\ Top \in Int
  BY <1>1, ShortestFact, TopFact
<1>3. /\ stl = <<>> /\ trans_id = 1 /\ ret = Missing /\ due = 0 /\ willing = TRUE
      /\ initial \in Nat
  BY InitialsAssumption DEF Init, TInit, RInit
<1>4. stl \in Seq(Entry) /\ Len(stl) = 0 /\ DOMAIN stl = {}
  BY <1>3
<1>5. due \in Int /\ -MaxLate <= due /\ due <= Larger(PeriodMax, initial)
  BY <1>3, TimerAssumption, PeriodAssumption DEF Larger
<1>6. ListIsBounded
  BY <1>2, <1>4 DEF ListIsBounded, Shortest
<1>7. Aged(stl) /\ Spaced(stl, trans_id, due, Shortest)
  BY <1>4 DEF Aged, Spaced
<1> QED
  BY <1>1, <1>2, <1>3, <1>4, <1>5, <1>6, <1>7, AccCapAssumption DEF ListInv, Missing

\* A step that takes entries out of the list, or none, keeps the invariant.
LEMMA ThinningStep ==
  ASSUME ListInv, RateInv', UNCHANGED <<trans_id, due, initial>>,
         stl' \in Seq(Entry), Thinned(stl', stl), Len(stl') <= Len(stl),
         ret' \in Missing .. AccCap, willing' \in BOOLEAN
  PROVE  ListInv'
<1>1. Aged(stl') /\ Spaced(stl', trans_id, due, Shortest)
  BY ThinnedStays DEF ListInv
<1>2. Shortest' = Shortest /\ ListIsBounded'
  <2>1. OffersPerLifetime(Shortest) \in Int /\ Len(stl) \in Int /\ Len(stl') \in Int
    BY ShortestFact DEF ListInv
  <2> QED
    BY <2>1 DEF ListInv, ListIsBounded, Shortest
<1> QED
  BY <1>1, <1>2 DEF ListInv

\* An idle turn, and one that sends an offer, keep the invariant.
LEMMA TurnStep == ASSUME ListInv, IdleTurn \/ OfferTurn PROVE ListInv'
<1> DEFINE p == Shortest
<1>1. /\ RateInv /\ RateInv' /\ stl \in Seq(Entry) /\ trans_id \in 1 .. Top
      /\ due \in Int /\ -MaxLate <= due /\ due <= 0
      /\ ret \in Missing .. AccCap /\ willing \in BOOLEAN
      /\ Aged(stl) /\ Spaced(stl, trans_id, due, p) /\ Len(stl) <= OffersPerLifetime(p)
      /\ due' = due + period /\ UNCHANGED <<rcVars, ret>>
  BY RateInvStep
  DEF ListInv, ListIsBounded, Shortest, Next, IdleTurn, OfferTurn, Rearmed, TransactionCreate
<1>2. /\ p \in Nat \ {0} /\ p <= period /\ period \in Nat
      /\ OffersPerLifetime(p) \in 1 .. Top /\ p' = p
  BY <1>1, ShortestFact DEF RateInv, Shortest, rcVars
<1> HIDE DEF p
<1>3. /\ due' \in Int /\ -MaxLate <= due' /\ due' <= Larger(PeriodMax, initial')
      /\ ret' \in Missing .. AccCap /\ willing' \in BOOLEAN
  <2>1. period <= Larger(PeriodMax, initial) /\ Larger(PeriodMax, initial) \in Int
    BY <1>1, InitialsAssumption, PeriodAssumption
    DEF RateInv, PeriodInBounds, Smaller, Larger
  <2> QED
    BY <1>1, <1>2, <2>1, TimerAssumption DEF rcVars
<1>4. CASE IdleTurn
  <2>1. UNCHANGED <<stl, trans_id>>
    BY <1>4 DEF IdleTurn
  <2>2. Spaced(stl, trans_id, due + period, p)
    BY <1>1, <1>2, IdleStays
  <2>3. Spaced(stl', trans_id', due', p')
    BY <1>1, <1>2, <2>1, <2>2
  <2>4. ListIsBounded'
    BY <1>1, <1>2, <2>1 DEF ListIsBounded, Shortest, p, rcVars
  <2> QED
    BY <1>1, <1>3, <2>1, <2>3, <2>4 DEF ListInv, p
<1>5. CASE OfferTurn
  <2> DEFINE r == Purge(stl)
             new == [id |-> NextId(trans_id), age |-> 0, acc |-> NoAccept]
  <2>1. trans_id' = NextId(trans_id) /\ stl' = <<new>> \o r
    BY <1>5 DEF OfferTurn, TransactionCreate
  <2>2. /\ r \in Seq(Entry) /\ Thinned(r, stl)
        /\ \/ stl # <<>> /\ Len(r) = Len(stl) - 1
           \/ \A k \in 1 .. Len(r) : ~Expired(r[k])
    BY <1>1, PurgeThins
  <2> HIDE DEF r, new
  <2>3. Aged(r) /\ Spaced(r, trans_id, due, p)
    BY <1>1, <2>2, ThinnedStays
  <2>4. /\ stl' \in Seq(Entry) /\ Len(stl') = Len(r) + 1
        /\ Aged(stl')
        /\ Spaced(stl', NextId(trans_id), due + period, p)
    BY <1>1, <1>2, <2>1, <2>2, <2>3, OpenStays DEF new
  <2>5. Spaced(stl', trans_id', due', p') /\ trans_id' \in 1 .. Top
    BY <1>1, <1>2, <2>1, <2>4, GivenNext
  <2>6. Len(stl') <= OffersPerLifetime(p)
    BY <1>1, <1>2, <2>2, <2>3, <2>4, BoundStays
  <2>7. ListIsBounded'
    BY <1>1, <2>6 DEF ListIsBounded, Shortest, p, rcVars
  <2> QED
    BY <1>1, <1>3, <2>4, <2>5, <2>7 DEF ListInv, p
<1> QED
  BY <1>4, <1>5

\* accept_received keeps the invariant.
LEMMA AcceptStep ==
  ASSUME ListInv, NEW id, NEW accepted \in BOOLEAN, AcceptReceived(id, accepted) PROVE ListInv'
<1> DEFINE k == Position(id)
<1>1. /\ stl' = IF k = 0 THEN stl ELSE [stl EXCEPT ![k].acc = 0]
      /\ UNCHANGED <<trans_id, due, ret, period, initial, since>>
      /\ stl \in Seq(Entry) /\ RateInv
  BY DEF AcceptReceived, TransactionRegAccept, UpdateOfferAccept, ListInv
<1>2. k = 0 \/ k \in DOMAIN stl
  BY <1>1, PositionFact
<1> HIDE DEF k
<1>3. RateInv'
  BY <1>1 DEF RateInv, PeriodInBounds
<1>4. willing' \in BOOLEAN /\ ret' \in Missing .. AccCap
  BY <1>1 DEF AcceptReceived, UpdateOfferAccept, ListInv
<1>5. /\ stl' \in Seq(Entry) /\ Len(stl') = Len(stl)
      /\ \A i \in 1 .. Len(stl') : stl'[i].id = stl[i].id /\ stl'[i].age = stl[i].age
  <2>1. CASE k = 0
    BY <1>1, <2>1
  <2>2. CASE k # 0
    <3>1. k \in DOMAIN stl /\ stl' = [stl EXCEPT ![k] = [stl[k] EXCEPT !.acc = 0]]
      BY <1>1, <1>2, <2>2
    <3>2. ASSUME NEW e \in Entry
          PROVE  /\ [e EXCEPT !.acc = 0] \in Entry
                 /\ [e EXCEPT !.acc = 0].id = e.id /\ [e EXCEPT !.acc = 0].age = e.age
      BY AccCapAssumption DEF Entry, NoAccept
    <3>3. stl[k] \in Entry
      BY <1>1, <3>1, EntryFact
    <3> DEFINE new == [stl[k] EXCEPT !.acc = 0]
    <3>4. new \in Entry /\ new.id = stl[k].id /\ new.age = stl[k].age
      BY <3>2, <3>3
    <3>5. stl' = [stl EXCEPT ![k] = new]
      BY <3>1
    <3> HIDE DEF new
    <3> QED
      BY <1>1, <3>1, <3>4, <3>5
  <2> QED
    BY <2>1, <2>2
<1>6. Thinned(stl', stl)
  BY <1>1, <1>5, SameThins
<1>7. Len(stl') <= Len(stl)
  BY <1>1, <1>5
<1> QED
  BY <1>1, <1>3, <1>4, <1>5, <1>6, <1>7, ThinningStep

\* ack_received keeps the invariant.
LEMMA AckStep ==
  ASSUME ListInv, NEW id, AckReceived(id), RateInv' PROVE ListInv'
<1> DEFINE k == Position(id)
<1>1. /\ stl' = IF k = 0 THEN stl ELSE RemoveAt(stl, k)
      /\ ret' = IF k = 0 THEN Missing ELSE stl[k].acc
      /\ UNCHANGED <<trans_id, due>>
      /\ stl \in Seq(Entry) /\ RateInv
  BY DEF AckReceived, TransactionRemove, ListInv
<1>2. k = 0 \/ k \in DOMAIN stl
  BY <1>1, PositionFact
<1> HIDE DEF k
<1>3. initial' = initial /\ willing' \in BOOLEAN
  BY DEF AckReceived, UpdatePeriod, rcVars, ListInv
<1>4. ret' \in Missing .. AccCap
  <2>1. CASE k = 0
    BY <1>1, <2>1, AccCapAssumption DEF Missing
  <2>2. CASE k # 0
    <3>1. stl[k] \in Entry
      BY <1>1, <1>2, <2>2, EntryFact
    <3>2. stl[k].acc \in NoAccept .. AccCap
      BY <3>1 DEF Entry
    <3> QED
      BY <1>1, <2>2, <3>2 DEF Missing, NoAccept
  <2> QED
    BY <2>1, <2>2
<1>5. stl' \in Seq(Entry) /\ Thinned(stl', stl) /\ Len(stl') <= Len(stl)
  <2>1. CASE k = 0
    <3>1. stl' = stl /\ Len(stl) \in Int
      BY <1>1, <2>1
    <3> QED
      BY <1>1, <3>1, SameThins
  <2>2. CASE k # 0
    <3>1. /\ RemoveAt(stl, k) \in Seq(Entry) /\ Thinned(RemoveAt(stl, k), stl)
          /\ Len(RemoveAt(stl, k)) = Len(stl) - 1 /\ Len(stl) \in Nat
      BY <1>1, <1>2, <2>2, RemoveThins
    <3>2. stl' = RemoveAt(stl, k)
      BY <1>1, <2>2
    <3> QED
      BY <3>1, <3>2
  <2> QED
    BY <2>1, <2>2
<1> QED
  BY <1>1, <1>3, <1>4, <1>5, ThinningStep

\* A unit of time keeps the invariant.
LEMMA TickStep == ASSUME ListInv, Tick, RateInv' PROVE ListInv'
<1>1. /\ stl' = [k \in DOMAIN stl |-> Older(stl[k])]
      /\ due' = due - 1 /\ due > -MaxLate /\ UNCHANGED <<trans_id, ret, initial, willing>>
      /\ stl \in Seq(Entry) /\ trans_id \in 1 .. Top /\ due \in Int /\ RateInv
      /\ due <= Larger(PeriodMax, initial)
  BY DEF Tick, TransactionsAge, TimePasses, ListInv
<1>2. Shortest \in Nat \ {0}
  BY <1>1, ShortestFact
<1>3. /\ stl' \in Seq(Entry) /\ Len(stl') = Len(stl)
      /\ Aged(stl')
      /\ Spaced(stl', trans_id, due - 1, Shortest)
  BY <1>1, <1>2, AgeStays DEF ListInv
<1>4. Shortest' = Shortest /\ ListIsBounded'
  BY <1>1, <1>3 DEF ListInv, ListIsBounded, Shortest
<1>5. due' \in Int /\ -MaxLate <= due' /\ due' <= Larger(PeriodMax, initial')
  BY <1>1, InitialsAssumption, PeriodAssumption, TimerAssumption DEF RateInv, Larger
<1> QED
  BY <1>1, <1>3, <1>4, <1>5 DEF ListInv

\* One step keeps the invariant.
LEMMA ListInvStep == ListInv /\ [Next]_vars => ListInv'
<1> SUFFICES ASSUME ListInv, [Next]_vars PROVE ListInv'
  OBVIOUS
<1>1. RateInv'
  BY RateInvStep DEF ListInv
<1>2. CASE IdleTurn \/ OfferTurn
  BY <1>2, TurnStep
<1>3. ASSUME NEW id, NEW accepted \in BOOLEAN, AcceptReceived(id, accepted) PROVE ListInv'
  BY <1>3, AcceptStep
<1>4. ASSUME NEW id, AckReceived(id) PROVE ListInv'
  BY <1>1, <1>4, AckStep
<1>5. CASE Tick
  BY <1>1, <1>5, TickStep
<1>6. CASE UNCHANGED vars
  BY <1>1, <1>6 DEF vars, rcVars, ListInv, ListIsBounded, Shortest
<1> QED
  BY <1>2, <1>3, <1>4, <1>5, <1>6 DEF Next

\* The invariant holds in every reachable state.
THEOREM Invariance == Spec => []ListInv
  BY ListInvInit, ListInvStep, PTL DEF Spec

\* The types of the list, of the counter, which is never 0, of the timer and of
\* rate control, for every width, lifetime, period and stall.
THEOREM TypeCorrect == Spec => []TypeOK
<1>1. ListInv => TypeOK
  <2> SUFFICES ASSUME ListInv PROVE TypeOK
    OBVIOUS
  <2>1. stl \in Seq([id : 0 .. 2^Width - 1, age : 0 .. Lifetime + 1, acc : NoAccept .. AccCap])
    <3>1. Entry \subseteq [id : 0 .. 2^Width - 1, age : 0 .. Lifetime + 1, acc : NoAccept .. AccCap]
      BY TopFact DEF Entry
    <3> DEFINE T == [id : 0 .. 2^Width - 1, age : 0 .. Lifetime + 1, acc : NoAccept .. AccCap]
    <3>2. Entry \subseteq T /\ stl \in Seq(Entry)
      BY <3>1 DEF ListInv
    <3> HIDE DEF T
    <3>3. stl \in Seq(T)
      BY <3>2
    <3> QED
      BY <3>3 DEF T
  <2>2. period \in Nat \ {0}
    BY ShortestFact DEF ListInv, RateInv
  <2>3. due \in -MaxLate .. Larger(PeriodMax, initial)
    BY TimerAssumption, InitialsAssumption, PeriodAssumption DEF ListInv, RateInv, Larger
  <2> QED
    BY <2>1, <2>2, <2>3 DEF TypeOK, ListInv, RateInv, Top
<1> QED
  BY <1>1, Invariance, PTL

\* An accept or an ack that names a transaction younger than the lifetime finds
\* it, and no other one, however often the counter has wrapped.
THEOREM OwnTransaction == Spec => []FindsOwnTransaction
<1>1. ListInv => FindsOwnTransaction
  <2> SUFFICES ASSUME ListInv, NEW k \in DOMAIN stl, ~Expired(stl[k])
               PROVE  Position(stl[k].id) = k
    BY DEF FindsOwnTransaction
  <2> DEFINE I == {i \in 1 .. Len(stl) : stl[i].id = stl[k].id}
  <2>1. /\ stl \in Seq(Entry) /\ trans_id \in 1 .. Top
        /\ \A j \in 1 .. k - 1 :
             Given(trans_id, stl[j].id) < Given(trans_id, stl[k].id)
    BY DEF ListInv, Spaced
  <2>2. k \in I /\ DOMAIN stl = 1 .. Len(stl)
    BY <2>1
  <2>3. \A i \in I : k <= i
    <3> SUFFICES ASSUME NEW i \in I, i < k PROVE FALSE
      BY <2>2
    <3>1. i \in 1 .. k - 1 /\ stl[i].id = stl[k].id
      BY <2>2
    <3>2. Given(trans_id, stl[k].id) \in Nat
      BY <2>1, EntryFact, GivenType
    <3> QED
      BY <2>1, <3>1, <3>2
  <2>4. Position(stl[k].id) = Min(I)
    BY <2>2 DEF Position, SelectInSeq
  <2> HIDE DEF I
  <2>5. I \subseteq Int
    BY DEF I
  <2>6. Min(I) = k
    BY <2>2, <2>3, <2>5 DEF Min
  <2> QED
    BY <2>4, <2>6
<1> QED
  BY <1>1, Invariance, PTL

\* The list of open transactions is bounded by the offers of one lifetime,
\* although acks may never come and a walk may stop at its head.
THEOREM ListStaysBounded == Spec => []ListIsBounded
<1>1. ListInv => ListIsBounded
  BY DEF ListInv
<1> QED
  BY <1>1, Invariance, PTL
=============================================================================
