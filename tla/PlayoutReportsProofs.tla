------------------------- MODULE PlayoutReportsProofs -------------------------
(***************************************************************************)
(* Proofs about the output buffer, for every ring size and for unbounded   *)
(* ids, and about the reports on it, for every set of ids and every start  *)
(* and period of the reports.                                              *)
(***************************************************************************)
EXTENDS PlayoutReports, FiniteSetTheorems, TLAPS

\* The quotient and the remainder of i % buff_size determine the id.
LEMMA DivMod ==
  ASSUME NEW x \in Nat, NEW B \in Nat \ {0}
  PROVE  /\ x \div B \in Int
         /\ x % B \in 0 .. B - 1
         /\ x = B * (x \div B) + (x % B)
  OBVIOUS

\* Two multiples of the ring size less than a ring apart are the same.
LEMMA SameQuotient ==
  ASSUME NEW q \in Int, NEW r \in Int, NEW B \in Nat \ {0},
         B * q - B * r < B, B * r - B * q < B
  PROVE  q = r
  OBVIOUS

\* Any decomposition into a multiple and a slot number gives the slot.
LEMMA ModUnique ==
  ASSUME NEW x \in Nat, NEW B \in Nat \ {0},
         NEW q \in Int, NEW r \in 0 .. B - 1, x = B * q + r
  PROVE  x % B = r
<1> DEFINE u == x \div B
<1>1. u \in Int /\ x % B \in 0 .. B - 1 /\ x = B * u + (x % B)
  BY DivMod
<1> HIDE DEF u
<1>2. B * q \in Int /\ B * u \in Int
  BY <1>1
<1>3. B * u - B * q < B /\ B * q - B * u < B
  BY <1>1, <1>2
<1>4. u = q
  BY <1>1, <1>3, SameQuotient
<1> QED
  BY <1>1, <1>4

\* Ids less than a ring apart have different slots: output_deliver's
\* "we know that c->id is free" and the duplicate test rest on it.
LEMMA SlotInjective ==
  ASSUME NEW x \in Nat, NEW y \in Nat, BuffSize \in Nat \ {0},
         Slot(x) = Slot(y), x - y < BuffSize, y - x < BuffSize
  PROVE  x = y
<1> DEFINE B == BuffSize
           q == x \div B
           r == y \div B
<1>1. /\ q \in Int /\ x = B * q + (x % B)
      /\ r \in Int /\ y = B * r + (y % B)
      /\ x % B \in 0 .. B - 1 /\ x % B = y % B
      /\ B \in Nat \ {0} /\ x - y < B /\ y - x < B
  BY DivMod DEF Slot
<1> HIDE DEF q, r, B
<1>2. B * q \in Int /\ B * r \in Int
  BY <1>1
<1>3. B * q - B * r < B /\ B * r - B * q < B
  BY <1>1, <1>2
<1>4. q = r
  BY <1>1, <1>3, SameQuotient
<1> QED
  BY <1>1, <1>4

\* buffer_flush's i = (i + 1) % buff_size follows next_chunk around the ring.
LEMMA NextSlot ==
  ASSUME NEW x \in Nat, BuffSize \in Nat \ {0}
  PROVE  (Slot(x) + 1) % BuffSize = Slot(x + 1)
<1> DEFINE B == BuffSize
           q == x \div B
           r == x % B
<1>1. q \in Int /\ x = B * q + r /\ r \in 0 .. B - 1 /\ B \in Nat \ {0}
  BY DivMod
<1>2. SUFFICES (r + 1) % B = (x + 1) % B
  BY DEF Slot
<1> HIDE DEF q, r, B
<1>3. CASE r = B - 1
  <2>1. x + 1 = B * (q + 1) + 0
    BY <1>1, <1>3
  <2>2. (x + 1) % B = 0
    BY <2>1, <1>1, ModUnique, q + 1 \in Int, 0 \in 0 .. B - 1
  <2>3. B % B = 0
    BY <1>1, ModUnique, B = B * 1 + 0, 0 \in 0 .. B - 1
  <2> QED
    BY <1>1, <1>3, <2>2, <2>3
<1>4. CASE r < B - 1
  <2>1. x + 1 = B * q + (r + 1) /\ r + 1 \in 0 .. B - 1
    BY <1>1, <1>4
  <2>2. (x + 1) % B = r + 1
    BY <1>1, <2>1, ModUnique, x + 1 \in Nat
  <2>3. (r + 1) % B = r + 1
    BY <1>1, <2>1, ModUnique, r + 1 = B * 0 + (r + 1), r + 1 \in Nat
  <2> QED
    BY <2>2, <2>3
<1> QED
  BY <1>1, <1>3, <1>4

\* A slot number is an index of the ring.
LEMMA SlotInRange ==
  ASSUME NEW x \in Nat, BuffSize \in Nat \ {0}
  PROVE  Slot(x) \in Slots
  BY DivMod DEF Slot, Slots

-----------------------------------------------------------------------------
\* What the local variables of output_deliver say at each point of a call.
CallState ==
  /\ next_chunk = -1 => pc = "idle" /\ \A s \in Slots : buff[s] = Free
  /\ pc # "idle" => c \in Ids /\ c <= newest
  /\ pc \in {"scroll", "flush"} => \A s \in Slots : buff[s] < c
  /\ pc = "scroll" => i = next_chunk /\ next_chunk + BuffSize <= c + 1
  /\ pc \in {"flush", "flush_last"} => i = Slot(next_chunk)
  /\ pc \in {"flush", "place"} => next_chunk <= c /\ c < next_chunk + BuffSize
  /\ \A x \in played \union lost : x < next_chunk

\* The inductive invariant.
IInv == TypeOK /\ NeverExits /\ RingInWindow /\ CallState

\* An empty ring waits for no id.
LEMMA InitIInv == Init => IInv
  BY BuffSizeAssumption
  DEF Init, IInv, TypeOK, NeverExits, RingInWindow, CallState, Free, Slots

\* The slot of the awaited id holds that id or nothing: buffer_flush and the
\* scrolling loop, which test the slot and not the id, play the right chunk.
LEMMA HeadOfRing ==
  ASSUME IInv, next_chunk # -1, buff[Slot(next_chunk)] # Free
  PROVE  buff[Slot(next_chunk)] = next_chunk
<1> DEFINE s == Slot(next_chunk)
<1>1. BuffSize \in Nat \ {0} /\ next_chunk \in Nat
  BY BuffSizeAssumption DEF IInv, TypeOK
<1>2. s \in Slots
  BY <1>1, SlotInRange
<1>3. /\ buff[s] \in Nat
      /\ Slot(buff[s]) = Slot(next_chunk)
      /\ buff[s] < next_chunk + BuffSize
      /\ buff[s] >= next_chunk
  BY <1>2 DEF IInv, TypeOK, RingInWindow
<1>4. buff[s] - next_chunk < BuffSize /\ next_chunk - buff[s] < BuffSize
  BY <1>1, <1>3
<1> QED
  BY <1>1, <1>3, <1>4, SlotInjective

\* What is stored in another slot than that of the awaited id is newer than it.
LEMMA RestOfRing ==
  ASSUME IInv, next_chunk # -1, NEW s \in Slots, buff[s] # Free,
         s # Slot(next_chunk)
  PROVE  buff[s] > next_chunk
<1>1. buff[s] \in Nat /\ next_chunk \in Nat /\ buff[s] >= next_chunk
  BY DEF IInv, TypeOK, RingInWindow
<1>2. buff[s] # next_chunk
  BY DEF IInv, RingInWindow
<1> QED
  BY <1>1, <1>2

\* The entry of output_deliver, with its choice between scrolling and placing.
LEMMA DeliverIInv == ASSUME IInv, NEW id \in Ids, Deliver(id) PROVE IInv'
<1> USE BuffSizeAssumption, IdsAssumption
<1>1. id \in Nat
  OBVIOUS
<1>2. CASE id < next_chunk
  BY <1>1, <1>2
  DEF IInv, TypeOK, NeverExits, RingInWindow, CallState, Deliver, Awaited, Beyond
<1>3. CASE ~(id < next_chunk)
  <2>1. /\ pc = "idle"
        /\ newest' = IF id > newest THEN id ELSE newest
        /\ c' = id
        /\ next_chunk' = IF next_chunk = -1 THEN id ELSE next_chunk
        /\ i' = next_chunk'
        /\ pc' = IF id >= next_chunk' + BuffSize THEN "scroll" ELSE "place"
        /\ UNCHANGED <<buff, played, lost>>
    BY <1>3 DEF Deliver, Awaited, Beyond
  <2>2. next_chunk' \in Nat /\ next_chunk' <= id
    BY <1>1, <1>3, <2>1 DEF IInv, TypeOK
  <2>3. TypeOK'
    BY <1>1, <2>1, <2>2 DEF IInv, TypeOK
  <2>4. NeverExits'
    BY <2>1 DEF NeverExits
  <2>5. RingInWindow'
    <3>1. CASE next_chunk = -1
      BY <2>1, <3>1 DEF IInv, CallState, RingInWindow
    <3>2. CASE next_chunk # -1
      BY <2>1, <3>2 DEF IInv, RingInWindow, TypeOK
    <3> QED
      BY <3>1, <3>2
  <2>6. CallState'
    <3>1. \A s \in Slots : pc' = "scroll" => buff[s] < id
      <4>1. CASE next_chunk = -1
        BY <1>1, <2>1, <4>1 DEF IInv, CallState, Free
      <4>2. CASE next_chunk # -1
        <5> SUFFICES ASSUME NEW s \in Slots, pc' = "scroll" PROVE buff[s] < id
          OBVIOUS
        <5>1. next_chunk + BuffSize <= id /\ next_chunk \in Nat
          BY <1>1, <2>1, <4>2 DEF IInv, TypeOK
        <5>2. CASE buff[s] = Free
          BY <1>1, <5>2 DEF Free
        <5>3. CASE buff[s] # Free
          BY <1>1, <5>1, <5>3 DEF IInv, RingInWindow, TypeOK
        <5> QED
          BY <5>2, <5>3
      <4> QED
        BY <4>1, <4>2
    <3>2. \A x \in played \union lost : x < next_chunk'
      BY <1>1, <2>1 DEF IInv, CallState, TypeOK
    <3>3. c' <= newest'
      BY <1>1, <2>1 DEF IInv, TypeOK
    <3>4. pc' = "place" => next_chunk' <= c' /\ c' < next_chunk' + BuffSize
      BY <1>1, <2>1, <2>2
    <3>5. pc' = "scroll" => i' = next_chunk' /\ next_chunk' + BuffSize <= c' + 1
      BY <1>1, <2>1, <2>2
    <3>6. pc' \in {"scroll", "place"} /\ next_chunk' # -1
      BY <2>1, <2>2
    <3> QED
      BY <2>1, <3>1, <3>2, <3>3, <3>4, <3>5, <3>6 DEF CallState
  <2> QED
    BY <2>3, <2>4, <2>5, <2>6 DEF IInv
<1> QED
  BY <1>2, <1>3

\* What the ring keeps to when the awaited id leaves it or is given up.
LEMMA Advance ==
  ASSUME IInv, next_chunk # -1, next_chunk' = next_chunk + 1,
         \/ buff' = [buff EXCEPT ![Slot(next_chunk)] = Free]
         \/ buff' = buff /\ buff[Slot(next_chunk)] = Free
  PROVE  /\ buff' \in [Slots -> Nat \union {Free}]
         /\ next_chunk' \in Nat
         /\ \A s \in Slots : buff'[s] # Free =>
              /\ buff'[s] = buff[s]
              /\ Slot(buff'[s]) = s
              /\ buff'[s] < next_chunk' + BuffSize
              /\ buff'[s] >= next_chunk'
<1>1. /\ BuffSize \in Nat \ {0} /\ next_chunk \in Nat
      /\ buff \in [Slots -> Nat \union {Free}]
  BY BuffSizeAssumption DEF IInv, TypeOK
<1>2. Slot(next_chunk) \in Slots
  BY <1>1, SlotInRange
<1>3. buff' \in [Slots -> Nat \union {Free}] /\ buff'[Slot(next_chunk)] = Free
  BY <1>1, <1>2
<1>4. ASSUME NEW s \in Slots, buff'[s] # Free
      PROVE  /\ buff'[s] = buff[s]
             /\ Slot(buff'[s]) = s
             /\ buff'[s] < next_chunk' + BuffSize
             /\ buff'[s] >= next_chunk'
  <2>1. s # Slot(next_chunk) /\ buff'[s] = buff[s]
    BY <1>1, <1>3, <1>4
  <2>2. buff[s] > next_chunk /\ buff[s] \in Nat
    BY <1>1, <1>4, <2>1, RestOfRing
  <2>3. Slot(buff[s]) = s /\ buff[s] < next_chunk + BuffSize
    BY <1>4, <2>1 DEF IInv, RingInWindow
  <2> QED
    BY <1>1, <2>1, <2>2, <2>3
<1> QED
  BY <1>1, <1>3, <1>4

\* A turn of the scrolling loop plays or gives up the awaited id.
LEMMA ScrollIInv == ASSUME IInv, Scroll PROVE IInv'
<1>1. /\ pc = "scroll" /\ i = next_chunk /\ next_chunk \in Nat /\ next_chunk # -1
      /\ i <= c - BuffSize /\ i' = i + 1 /\ c \in Nat
      /\ UNCHANGED <<pc, c, newest>>
      /\ BuffSize \in Nat \ {0}
      /\ newest \in Nat \union {-1}
      /\ \A s \in Slots : buff[s] < c
  BY BuffSizeAssumption DEF Scroll, IInv, TypeOK, CallState
<1>2. /\ next_chunk' = next_chunk + 1
      /\ \/ buff' = [buff EXCEPT ![Slot(next_chunk)] = Free]
         \/ buff' = buff /\ buff[Slot(next_chunk)] = Free
      /\ played' \union lost' = played \union lost \union {next_chunk}
  BY <1>1, HeadOfRing DEF Scroll, BufferFree
<1>3. /\ buff' \in [Slots -> Nat \union {Free}]
      /\ next_chunk' \in Nat
      /\ \A s \in Slots : buff'[s] # Free =>
           /\ buff'[s] = buff[s]
           /\ Slot(buff'[s]) = s
           /\ buff'[s] < next_chunk' + BuffSize
           /\ buff'[s] >= next_chunk'
  BY <1>1, <1>2, Advance
<1>4. TypeOK' /\ NeverExits'
  <2>1. played' \subseteq Nat /\ lost' \subseteq Nat
    <3>1. played \union lost \union {next_chunk} \subseteq Nat
      BY <1>1 DEF IInv, TypeOK
    <3> QED
      BY <1>2, <3>1
  <2> QED
    BY <1>1, <1>3, <2>1 DEF IInv, TypeOK, NeverExits
<1>5. RingInWindow'
  BY <1>1, <1>3 DEF RingInWindow
<1>6. \A s \in Slots : buff'[s] < c'
  BY <1>1, <1>3 DEF Free
<1>7. \A x \in played' \union lost' : x < next_chunk'
  <2>1. \A x \in played \union lost : x < next_chunk /\ x \in Nat
    BY DEF IInv, CallState, TypeOK
  <2>2. \A x \in played \union lost \union {next_chunk} : x < next_chunk'
    BY <1>1, <1>2, <2>1
  <2> QED
    BY <1>2, <2>2
<1>8. /\ i' = next_chunk' /\ next_chunk' + BuffSize <= c' + 1
      /\ c' \in Ids /\ c' <= newest'
  BY <1>1, <1>2 DEF IInv, CallState
<1>9. pc' = "scroll" /\ next_chunk' # -1
  BY <1>1, <1>2
<1>10. CallState'
  BY <1>6, <1>7, <1>8, <1>9 DEF CallState
<1> QED
  BY <1>4, <1>5, <1>10 DEF IInv

\* After scrolling the new chunk fits the ring, and the flush starts at its head.
LEMMA ScrollDoneIInv == ASSUME IInv, ScrollDone PROVE IInv'
<1>1. /\ BuffSize \in Nat \ {0} /\ next_chunk \in Nat /\ c \in Nat
      /\ i = next_chunk /\ i > c - BuffSize /\ next_chunk + BuffSize <= c + 1
      /\ Slot(next_chunk) \in Nat
  BY BuffSizeAssumption, SlotInRange
  DEF ScrollDone, IInv, TypeOK, CallState, Slots
<1> QED
  BY <1>1
  DEF ScrollDone, IInv, TypeOK, NeverExits, RingInWindow, CallState

\* A turn of buffer_flush plays the head of the ring.
LEMMA FlushIInv == ASSUME IInv, Flush PROVE IInv'
<1>1. /\ pc \in {"flush", "flush_last"} /\ i = Slot(next_chunk)
      /\ next_chunk \in Nat /\ next_chunk # -1
      /\ UNCHANGED <<pc, c, lost, newest>>
      /\ BuffSize \in Nat \ {0}
      /\ buff[Slot(next_chunk)] # Free
  BY BuffSizeAssumption DEF Flush, IInv, TypeOK, CallState
<1>2. /\ buff[Slot(next_chunk)] = next_chunk
      /\ Slot(next_chunk) \in Slots
      /\ (Slot(next_chunk) + 1) % BuffSize = Slot(next_chunk + 1)
  BY <1>1, HeadOfRing, SlotInRange, NextSlot
<1>3. /\ next_chunk' = next_chunk + 1
      /\ buff' = [buff EXCEPT ![Slot(next_chunk)] = Free]
      /\ played' = played \union {next_chunk}
      /\ i' = Slot(next_chunk')
  BY <1>1, <1>2 DEF Flush, BufferFree
<1>4. /\ buff' \in [Slots -> Nat \union {Free}]
      /\ next_chunk' \in Nat
      /\ \A s \in Slots : buff'[s] # Free =>
           /\ buff'[s] = buff[s]
           /\ Slot(buff'[s]) = s
           /\ buff'[s] < next_chunk' + BuffSize
           /\ buff'[s] >= next_chunk'
  BY <1>1, <1>3, Advance
<1>5. i' \in Nat
  BY <1>1, <1>3, <1>4, SlotInRange DEF Slots
<1>6. TypeOK' /\ NeverExits' /\ RingInWindow'
  BY <1>1, <1>3, <1>4, <1>5 DEF IInv, TypeOK, NeverExits, RingInWindow
<1>7. \A x \in played' \union lost' : x < next_chunk'
  BY <1>1, <1>3 DEF IInv, CallState, TypeOK
<1>8. pc = "flush" =>
        /\ \A s \in Slots : buff'[s] < c'
        /\ next_chunk' <= c' /\ c' < next_chunk' + BuffSize
  <2> SUFFICES ASSUME pc = "flush" PROVE
        /\ \A s \in Slots : buff'[s] < c'
        /\ next_chunk' <= c' /\ c' < next_chunk' + BuffSize
    OBVIOUS
  <2>1. /\ \A s \in Slots : buff[s] < c
        /\ c < next_chunk + BuffSize /\ next_chunk <= c /\ c \in Nat
    BY <1>1 DEF IInv, CallState, TypeOK
  <2>2. next_chunk < c
    BY <1>2, <2>1
  <2>3. \A s \in Slots : buff'[s] < c'
    BY <1>1, <1>4, <2>1 DEF Free
  <2> QED
    BY <1>1, <1>3, <2>1, <2>2, <2>3
<1> QED
  BY <1>1, <1>3, <1>4, <1>6, <1>7, <1>8 DEF IInv, CallState

\* buffer_flush ends with the awaited id missing.
LEMMA FlushDoneIInv == ASSUME IInv, FlushDone PROVE IInv'
<1>1. /\ pc \in {"flush", "flush_last"} /\ i = Slot(next_chunk)
      /\ next_chunk \in Nat /\ next_chunk # -1
      /\ buff[Slot(next_chunk)] = Free
      /\ pc' = IF pc = "flush" THEN "place" ELSE "idle"
      /\ UNCHANGED <<next_chunk, buff, c, i, played, lost, newest>>
  BY DEF FlushDone, IInv, TypeOK, CallState
<1>2. \A s \in Slots : buff[s] # Free => buff[s] > next_chunk
  BY <1>1, RestOfRing
<1>3. TypeOK' /\ NeverExits'
  BY <1>1 DEF IInv, TypeOK, NeverExits
<1>4. RingInWindow'
  BY <1>1, <1>2 DEF IInv, RingInWindow
<1>5. CallState'
  BY <1>1 DEF IInv, CallState
<1> QED
  BY <1>3, <1>4, <1>5 DEF IInv

\* The awaited id is played without being stored.
LEMMA PlayNowIInv == ASSUME IInv, PlayNow PROVE IInv'
<1>1. /\ pc = "place" /\ c = next_chunk /\ next_chunk \in Nat
      /\ played' = played \union {c}
      /\ next_chunk' = next_chunk + 1
      /\ i' = Slot(next_chunk')
      /\ pc' = "flush_last"
      /\ UNCHANGED <<buff, c, lost, newest>>
      /\ BuffSize \in Nat \ {0}
  BY BuffSizeAssumption DEF PlayNow, IInv, TypeOK, CallState
<1>2. i' \in Nat /\ next_chunk' \in Nat
  BY <1>1, SlotInRange DEF Slots
<1>3. TypeOK' /\ NeverExits'
  BY <1>1, <1>2 DEF IInv, TypeOK, NeverExits
<1>4. RingInWindow'
  BY <1>1 DEF IInv, RingInWindow, TypeOK
<1>5. CallState'
  BY <1>1, <1>2 DEF IInv, CallState, TypeOK
<1> QED
  BY <1>3, <1>4, <1>5 DEF IInv

\* The slot of a new chunk is free or holds the same chunk: no exit(-1).
LEMMA StoreIInv == ASSUME IInv, Store PROVE IInv'
<1>1. /\ pc = "place" /\ c # next_chunk /\ next_chunk \in Nat /\ c \in Nat
      /\ next_chunk < c /\ c < next_chunk + BuffSize
      /\ UNCHANGED <<next_chunk, c, i, played, lost, newest>>
      /\ BuffSize \in Nat \ {0}
      /\ buff \in [Slots -> Nat \union {Free}]
  BY BuffSizeAssumption DEF Store, IInv, TypeOK, CallState
<1>2. Slot(c) \in Slots
  BY <1>1, SlotInRange
<1>3. buff[Slot(c)] # Free => buff[Slot(c)] = c
  <2> SUFFICES ASSUME buff[Slot(c)] # Free PROVE buff[Slot(c)] = c
    OBVIOUS
  <2>1. /\ buff[Slot(c)] \in Nat
        /\ Slot(buff[Slot(c)]) = Slot(c)
        /\ buff[Slot(c)] > next_chunk /\ buff[Slot(c)] < next_chunk + BuffSize
    BY <1>1, <1>2 DEF IInv, RingInWindow
  <2>2. buff[Slot(c)] - c < BuffSize /\ c - buff[Slot(c)] < BuffSize
    BY <1>1, <2>1
  <2> QED
    BY <1>1, <2>1, <2>2, SlotInjective
<1>4. pc' = "idle"
  BY <1>3 DEF Store
<1>5. buff' = buff \/ buff' = [buff EXCEPT ![Slot(c)] = c]
  BY DEF Store
<1>6. TypeOK' /\ NeverExits'
  BY <1>1, <1>2, <1>4, <1>5 DEF IInv, TypeOK, NeverExits
<1>7. RingInWindow'
  BY <1>1, <1>2, <1>4, <1>5 DEF IInv, RingInWindow, TypeOK
<1>8. CallState'
  BY <1>1, <1>4 DEF IInv, CallState
<1> QED
  BY <1>6, <1>7, <1>8 DEF IInv

\* One step keeps the inductive invariant.
LEMMA NextIInv == IInv /\ [Next]_vars => IInv'
<1> SUFFICES ASSUME IInv, [Next]_vars PROVE IInv'
  OBVIOUS
<1>1. CASE \E id \in Ids : Deliver(id)
  BY <1>1, DeliverIInv
<1>2. CASE Scroll
  BY <1>2, ScrollIInv
<1>3. CASE ScrollDone
  BY <1>3, ScrollDoneIInv
<1>4. CASE Flush
  BY <1>4, FlushIInv
<1>5. CASE FlushDone
  BY <1>5, FlushDoneIInv
<1>6. CASE PlayNow
  BY <1>6, PlayNowIInv
<1>7. CASE Store
  BY <1>7, StoreIInv
<1>8. CASE UNCHANGED vars
  BY <1>8 DEF vars, IInv, TypeOK, NeverExits, RingInWindow, CallState
<1> QED
  BY <1>1, <1>2, <1>3, <1>4, <1>5, <1>6, <1>7, <1>8 DEF Next

\* The invariant holds in every reachable state.
THEOREM Invariance == Spec => []IInv
  BY InitIInv, NextIInv, PTL DEF Spec

\* The ring's types, for every ring size and every set of ids.
THEOREM TypeCorrect == Spec => []TypeOK
<1>1. IInv => TypeOK
  BY DEF IInv
<1> QED
  BY <1>1, Invariance, PTL

\* output_deliver never meets a slot taken by another chunk and exits.
THEOREM Survives == Spec => []NeverExits
<1>1. IInv => NeverExits
  BY DEF IInv
<1> QED
  BY <1>1, Invariance, PTL

\* Stored chunks are in the window behind the awaited id, each in its slot.
THEOREM RingCorrect == Spec => []RingInWindow
<1>1. IInv => RingInWindow
  BY DEF IInv
<1> QED
  BY <1>1, Invariance, PTL

-----------------------------------------------------------------------------
\* What a step adds to the player's record is the awaited id.
LEMMA AddsAwaited ==
  ASSUME IInv, [Next]_vars, NEW x \in played' \ played
  PROVE  x = next_chunk
<1>1. CASE Scroll
  <2>1. next_chunk # -1 /\ i = next_chunk
    BY <1>1 DEF IInv, CallState, Scroll
  <2> QED
    BY <1>1, <2>1, HeadOfRing DEF Scroll, BufferFree
<1>2. CASE Flush
  <2>1. next_chunk # -1 /\ i = Slot(next_chunk)
    BY <1>2 DEF IInv, CallState, Flush
  <2> QED
    BY <1>2, <2>1, HeadOfRing DEF Flush, BufferFree
<1>3. CASE PlayNow
  BY <1>3 DEF PlayNow
<1>4. CASE played' = played
  BY <1>4
<1> QED
  BY <1>1, <1>2, <1>3, <1>4
  DEF Next, vars, Deliver, ScrollDone, FlushDone, Store

\* The player gets ids in increasing order, never one that was given up.
THEOREM InOrder == Spec => PlaysInOrder
<1>1. IInv /\ [Next]_vars =>
        [\A x \in played' \ played : \A y \in played \union lost : y < x]_vars
  <2> SUFFICES ASSUME IInv, [Next]_vars, NEW x \in played' \ played,
                      NEW y \in played \union lost
               PROVE  y < x
    OBVIOUS
  <2>1. x = next_chunk
    BY AddsAwaited
  <2> QED
    BY <2>1 DEF IInv, CallState
<1> QED
  BY <1>1, Invariance, PTL DEF Spec, PlaysInOrder

-----------------------------------------------------------------------------
\* The chunks the ring holds, which is what Playout calls pending.
Stored == {buff[s] : s \in {t \in Slots : buff[t] # Free}}

\* Playing or giving up the awaited id changes the stored set accordingly.
LEMMA StoredAfterAdvance ==
  ASSUME IInv, next_chunk # -1
  PROVE  /\ /\ buff' = [buff EXCEPT ![Slot(next_chunk)] = Free]
            => Stored' = Stored \ {next_chunk}
         /\ buff[Slot(next_chunk)] = Free => next_chunk \notin Stored
<1>1. /\ next_chunk \in Nat /\ Slot(next_chunk) \in Slots
      /\ buff \in [Slots -> Nat \union {Free}]
      /\ \A s \in Slots : buff[s] # Free => Slot(buff[s]) = s
  BY BuffSizeAssumption, SlotInRange DEF IInv, TypeOK, RingInWindow
<1>2. ASSUME buff' = [buff EXCEPT ![Slot(next_chunk)] = Free]
      PROVE  Stored' = Stored \ {next_chunk}
  <2>1. buff[Slot(next_chunk)] # Free => buff[Slot(next_chunk)] = next_chunk
    BY HeadOfRing
  <2>2. \A s \in Slots : buff'[s] = IF s = Slot(next_chunk) THEN Free ELSE buff[s]
    BY <1>1, <1>2
  <2> QED
    BY <1>1, <2>1, <2>2 DEF Stored
<1>3. ASSUME buff[Slot(next_chunk)] = Free
      PROVE  next_chunk \notin Stored
  BY <1>1, <1>3 DEF Stored
<1> QED
  BY <1>2, <1>3

\* Every step of output_deliver is a step of the promise, or none.
LEMMA StepImplements == IInv /\ [Next]_vars => [Abstract!Next]_(Abstract!vars)
<1> SUFFICES ASSUME IInv, [Next]_vars PROVE [Abstract!Next]_(Abstract!vars)
  OBVIOUS
<1> USE BuffSizeAssumption, IdsAssumption
<1>1. ASSUME NEW id \in Ids, Deliver(id) PROVE Abstract!Arrive(id)
  <2>1. Stored' = Stored
    BY <1>1 DEF Deliver, Stored
  <2>2. id < next_chunk => next_chunk # -1
    BY <1>1
  <2> QED
    BY <1>1, <2>1, <2>2 DEF Deliver, Awaited, Abstract!Arrive, Stored
<1>2. CASE Scroll
  <2>1. /\ next_chunk # -1 /\ i = next_chunk /\ next_chunk \in Nat
        /\ next_chunk + BuffSize <= newest
    BY <1>2 DEF Scroll, IInv, CallState, TypeOK
  <2>2. CASE buff[Slot(next_chunk)] # Free
    <3>1. /\ played' = played \union {next_chunk}
          /\ next_chunk' = next_chunk + 1
          /\ Stored' = Stored \ {next_chunk}
          /\ UNCHANGED <<lost, newest>>
      BY <1>2, <2>1, <2>2, HeadOfRing, StoredAfterAdvance DEF Scroll, BufferFree
    <3> QED
      BY <2>1, <3>1 DEF Abstract!Play, Abstract!Next, Stored
  <2>3. CASE buff[Slot(next_chunk)] = Free
    <3>1. /\ lost' = lost \union {next_chunk}
          /\ next_chunk' = next_chunk + 1
          /\ next_chunk \notin Stored
          /\ Stored' = Stored
          /\ UNCHANGED <<played, newest>>
      BY <1>2, <2>1, <2>3, StoredAfterAdvance DEF Scroll, Stored
    <3> QED
      BY <2>1, <3>1 DEF Abstract!Lose, Abstract!Next, Stored
  <2> QED
    BY <2>2, <2>3
<1>3. CASE Flush
  <2>1. next_chunk # -1 /\ i = Slot(next_chunk)
    BY <1>3 DEF Flush, IInv, CallState
  <2>2. /\ played' = played \union {next_chunk}
        /\ next_chunk' = next_chunk + 1
        /\ Stored' = Stored \ {next_chunk}
        /\ UNCHANGED <<lost, newest>>
    BY <1>3, <2>1, HeadOfRing, StoredAfterAdvance DEF Flush, BufferFree
  <2> QED
    BY <2>1, <2>2 DEF Abstract!Play, Abstract!Next, Stored
<1>4. CASE PlayNow
  <2>1. /\ next_chunk # -1 /\ c = next_chunk
        /\ Stored' = Stored /\ next_chunk \notin Stored
    BY <1>4 DEF PlayNow, IInv, CallState, RingInWindow, Stored, TypeOK
  <2> QED
    BY <1>4, <2>1 DEF PlayNow, Abstract!Play, Abstract!Next, Stored
<1>5. CASE Store
  <2>1. /\ next_chunk < c /\ c < next_chunk + BuffSize
        /\ Slot(c) \in Slots /\ c \in Ids
        /\ buff \in [Slots -> Nat \union {Free}]
        /\ \A s \in Slots : buff[s] # Free => Slot(buff[s]) = s
    BY <1>5, SlotInRange DEF Store, IInv, TypeOK, CallState, RingInWindow
  <2>2. CASE buff[Slot(c)] = Free
    <3>1. /\ buff' = [buff EXCEPT ![Slot(c)] = c]
          /\ UNCHANGED <<next_chunk, played, lost, newest>>
      BY <1>5, <2>2 DEF Store
    <3>2. c \notin Stored
      BY <2>1, <2>2 DEF Stored
    <3>3. \A s \in Slots : buff'[s] = IF s = Slot(c) THEN c ELSE buff[s]
      BY <2>1, <3>1
    <3>4. Stored' = Stored \union {c}
      BY <2>1, <2>2, <3>3, c # Free DEF Stored, Free
    <3>5. PICK id \in Ids : id = c
      BY <2>1
    <3>6. Abstract!Take(id)
      BY <2>1, <3>1, <3>2, <3>4, <3>5 DEF Abstract!Take, Stored
    <3> QED
      BY <3>6 DEF Abstract!Next
  <2>3. CASE buff[Slot(c)] # Free
    BY <1>5, <2>3 DEF Store, Abstract!vars
  <2> QED
    BY <2>2, <2>3
<1>6. CASE ScrollDone \/ FlushDone \/ UNCHANGED vars
  BY <1>6 DEF ScrollDone, FlushDone, vars, Abstract!vars
<1> QED
  BY <1>1, <1>2, <1>3, <1>4, <1>5, <1>6 DEF Next, Abstract!Next

\* The ring keeps what Playout promises: nothing is given up before a chunk a
\* ring newer has arrived, and what was taken in is played.
THEOREM Implements == Spec => ImplementsPlayout
<1>1. Init => Abstract!Init
  BY DEF Init, Abstract!Init
<1> QED
  BY <1>1, StepImplements, Invariance, PTL DEF Spec, ImplementsPlayout, Abstract!Spec

-----------------------------------------------------------------------------
Counts == [chunks : Nat, played : Nat]
Fields == {"chunks", "played"}
Times == Nat \union {Unset}

MTypes ==
  /\ now \in Nat
  /\ tstart \in Times /\ print_tstart \in Times /\ tnext \in Times /\ oldest \in Times
  /\ m \in Counts /\ reported \in Counts /\ early \in Counts /\ owed \in Counts
  /\ reg \in {"none", "call", "printed", "count"}

\* The next report is due PrintDiff after the time it covers begins, and that is
\* the start or the time a report was due; what is counted happened since.
Covered ==
  /\ tstart # Unset => print_tstart # Unset
  /\ tstart = Unset => tnext = Unset
  /\ tstart # Unset /\ tnext = Unset => print_tstart = tstart
  /\ tnext # Unset =>
       tnext = print_tstart + PrintDiff /\ tstart <= print_tstart /\ print_tstart <= now
  /\ oldest # Unset => tnext # Unset /\ oldest >= print_tstart

\* Where a call stands: only a report that is due is made, and what a call owes
\* is one chunk at most.
Within ==
  /\ reg = "none" => owed = Zero
  /\ reg = "printed" => tnext # Unset /\ tnext <= now
  /\ owed.chunks <= 1 /\ owed.played <= 1

MInv == MTypes /\ Covered /\ Within

\* Nothing has happened before the first event.
LEMMA InitMInv == MInit => MInv
  BY DEF MInit, MInv, MTypes, Covered, Within, Counts, Times, Unset, Zero

\* Sums of counters are counters.
LEMMA PlusCounts ==
  ASSUME NEW a \in Counts, NEW b \in Counts
  PROVE  /\ Plus(a, b) \in Counts
         /\ Plus(a, b).chunks = a.chunks + b.chunks
         /\ Plus(a, b).played = a.played + b.played
  BY DEF Counts, Plus

\* Events are counters too.
LEMMA EventsAreCounts == Zero \in Counts /\ PlayedOne \in Counts /\ LostOne \in Counts
  BY DEF Zero, PlayedOne, LostOne, Counts

\* print_every without a report.
LEMMA NoReportMInv == ASSUME MInv, NoReport, UNCHANGED now PROVE MInv'
<1> USE TimesAssumption
<1>1. /\ now' = now /\ tstart' = Start /\ tnext' = Due
      /\ Start <= now /\ Start \in Nat /\ Due \in Nat
      /\ print_tstart' = (IF tstart = Unset THEN Start ELSE print_tstart)
      /\ oldest' = now \/ oldest' = oldest
      /\ UNCHANGED <<m, owed, reported, early>>
      /\ reg' = Counting(owed)
  BY DEF NoReport, MInv, MTypes, Covered, Times, Unset, Start, Due
<1>2. /\ print_tstart' \in Nat /\ tnext' = print_tstart' + PrintDiff
      /\ tstart' <= print_tstart' /\ print_tstart' <= now
  BY <1>1 DEF MInv, MTypes, Covered, Times, Unset, Start, Due
<1>3. oldest' \in Times /\ (oldest' # Unset => oldest' >= print_tstart')
  BY <1>1, <1>2 DEF MInv, MTypes, Covered, Times, Unset, Start, Due
<1>4. MTypes'
  BY <1>1, <1>2, <1>3 DEF MInv, MTypes, Times, Counting
<1>5. Covered' /\ Within'
  BY <1>1, <1>2, <1>3 DEF MInv, MTypes, Covered, Within, Times, Unset, Counting
<1> QED BY <1>4, <1>5 DEF MInv

\* A report and the cleaning after it.
LEMMA PrintMInv == ASSUME MInv, PrintMeasures, UNCHANGED now PROVE MInv'
<1> USE TimesAssumption
<1>1. /\ tstart # Unset /\ tstart' = tstart /\ tnext' = print_tstart + PrintDiff
      /\ tnext' <= now /\ tnext' \in Nat /\ tstart <= print_tstart /\ print_tstart <= now
      /\ UNCHANGED <<now, print_tstart, m, owed, early, oldest>> /\ reg' = "printed"
  BY DEF PrintMeasures, MInv, MTypes, Covered, Times, Unset, Start, Due
<1>2. reported' \in Counts
  BY PlusCounts DEF PrintMeasures, MInv, MTypes
<1>3. MTypes'
  BY <1>1, <1>2 DEF MInv, MTypes, Times
<1> QED BY <1>1, <1>3 DEF MInv, MTypes, Covered, Within, Times, Unset

LEMMA CleanMInv == ASSUME MInv, Clean, UNCHANGED now PROVE MInv'
<1> USE TimesAssumption
<1>1. /\ tnext \in Nat /\ tnext <= now /\ print_tstart' = tnext /\ tnext' = tnext + PrintDiff
      /\ tstart \in Times /\ tstart <= tnext /\ tstart # Unset
      /\ oldest' = now \/ oldest' = Unset
      /\ m' = Zero /\ reg' = Counting(owed)
      /\ UNCHANGED <<now, tstart, owed, reported, early>>
  BY DEF Clean, MInv, MTypes, Covered, Within, Times, Unset
<1>2. MTypes'
  BY <1>1, EventsAreCounts DEF MInv, MTypes, Times, Unset, Counting
<1> QED BY <1>1, <1>2 DEF MInv, MTypes, Covered, Within, Times, Unset, Counting

\* Every step of a reg_ function keeps to it.
LEMMA RegisterMInv == ASSUME MInv, Register PROVE MInv'
<1> USE TimesAssumption
<1>1. CASE Ignore
  <2>1. early' \in Counts /\ Zero \in Counts
    BY <1>1, PlusCounts, EventsAreCounts DEF Ignore, MInv, MTypes
  <2> QED
    BY <1>1, <2>1
    DEF Ignore, Register, MInv, MTypes, Covered, Within, Times, Unset, Start, Zero
<1>2. CASE NoReport
  BY <1>2, NoReportMInv DEF Register
<1>3. CASE PrintMeasures
  BY <1>3, PrintMInv DEF Register
<1>4. CASE Clean
  BY <1>4, CleanMInv DEF Register
<1>5. ASSUME NEW f \in Fields, CleanField(f) PROVE MInv'
  <2>1. m' \in Counts
    BY <1>5 DEF CleanField, MInv, MTypes, Counts, Fields
  <2> QED
    BY <1>5, <2>1 DEF CleanField, Register, MInv, MTypes, Covered, Within, Times
<1>6. ASSUME NEW f \in Fields, CountField(f) PROVE MInv'
  <2>1. m' \in Counts /\ owed' \in Counts /\ owed'.chunks <= 1 /\ owed'.played <= 1
    BY <1>6 DEF CountField, MInv, MTypes, Within, Counts, Fields
  <2>2. reg' = Counting(owed')
    BY <1>6 DEF CountField
  <2> QED
    BY <1>6, <2>1, <2>2
    DEF CountField, Register, MInv, MTypes, Covered, Within, Times, Counting
<1> QED BY <1>1, <1>2, <1>3, <1>4, <1>5, <1>6 DEF Register, Fields

\* A call begins with nothing owed.
LEMMA CallMInv ==
  ASSUME MInv, NEW event \in {Zero, PlayedOne, LostOne}, Call(event)
  PROVE  MInv'
<1>1. event \in Counts /\ event.chunks <= 1 /\ event.played <= 1
  BY EventsAreCounts DEF Zero, PlayedOne, LostOne
<1> QED
  BY <1>1 DEF Call, MInv, MTypes, Covered, Within

-----------------------------------------------------------------------------
\* What the counters hold that no report has told.
Held(f) == IF reg = "printed" THEN 0 ELSE m[f]

\* What was ignored, reported, counted or is owed.
SumOf(f) == early[f] + reported[f] + Held(f) + owed[f]

\* Sums of counters are numbers.
LEMMA SumsAreNat == MInv => SumOf("chunks") \in Nat /\ SumOf("played") \in Nat
  BY DEF MInv, MTypes, Counts, SumOf, Held

\* The event of a call is in that sum,
LEMMA CallAdds ==
  ASSUME MInv, NEW event \in Counts, Call(event)
  PROVE  /\ SumOf("chunks")' = SumOf("chunks") + event.chunks
         /\ SumOf("played")' = SumOf("played") + event.played
<1>1. /\ owed = Zero /\ owed' = event /\ reg = "none" /\ reg' = "call"
      /\ UNCHANGED <<m, early, reported>>
  BY DEF Call, MInv, Within
<1>2. early \in Counts /\ reported \in Counts /\ m \in Counts
  BY DEF MInv, MTypes
<1> QED BY <1>1, <1>2 DEF Counts, SumOf, Held, Zero

\* and the steps of the call keep it.
LEMMA RegisterKeeps ==
  ASSUME MInv, Register
  PROVE  SumOf("chunks")' = SumOf("chunks") /\ SumOf("played")' = SumOf("played")
<1>1. early \in Counts /\ reported \in Counts /\ m \in Counts /\ owed \in Counts
  BY DEF MInv, MTypes
<1> USE <1>1 DEF Counts, SumOf, Held
<1>2. CASE Ignore
  BY <1>2 DEF Ignore, Plus, Zero
<1>3. CASE NoReport
  BY <1>3 DEF NoReport, Counting
<1>4. CASE PrintMeasures
  BY <1>4 DEF PrintMeasures, Plus
<1>5. CASE Clean
  BY <1>5 DEF Clean, Counting, Zero
<1>6. ASSUME NEW f \in Fields, CleanField(f)
      PROVE  SumOf("chunks")' = SumOf("chunks") /\ SumOf("played")' = SumOf("played")
  BY <1>6 DEF CleanField, Fields
<1>7. ASSUME NEW f \in Fields, CountField(f)
      PROVE  SumOf("chunks")' = SumOf("chunks") /\ SumOf("played")' = SumOf("played")
  <2>1. reg = "count" /\ reg' # "printed" /\ UNCHANGED <<early, reported>>
        /\ m' = [m EXCEPT ![f] = m[f] + owed[f]] /\ owed' = [owed EXCEPT ![f] = 0]
    BY <1>7 DEF CountField, Counting
  <2>2. CASE f = "chunks"
    BY <2>1, <2>2
  <2>3. CASE f = "played"
    BY <2>1, <2>3
  <2> QED BY <2>2, <2>3 DEF Fields
<1> QED BY <1>2, <1>3, <1>4, <1>5, <1>6, <1>7 DEF Register, Fields

-----------------------------------------------------------------------------
\* A step of the program is a step of the output buffer or leaves it alone.
LEMMA StepOfBuffer == RNext => [Next]_vars
  BY DEF RNext, Leave, Leaves, Duplicate, Keeps, OtherEvent, Next

\* The output buffer behaves as without reports (output_deliver), so what is proved
\* of it holds here.
THEOREM BufferUnaffected == RSpec => Spec
<1>1. RInit => Init
  BY DEF RInit
<1>2. [RNext]_rvars => [Next]_vars
  BY StepOfBuffer DEF rvars, vars
<1> QED BY <1>1, <1>2, PTL DEF RSpec, Spec

\* Every step is one of a call, ends the program or leaves the reports alone.
LEMMA NextMInv == MInv /\ [RNext]_rvars => MInv'
<1> SUFFICES ASSUME MInv, [RNext]_rvars PROVE MInv'
  OBVIOUS
<1>1. ASSUME NEW event \in {Zero, PlayedOne, LostOne}, Call(event) PROVE MInv'
  BY <1>1, CallMInv
<1>2. ASSUME Register PROVE MInv'
  BY <1>2, RegisterMInv
<1>3. ASSUME TimePasses PROVE MInv'
  BY <1>3 DEF TimePasses, reports, MInv, MTypes, Covered, Within, Times, Unset
<1>4. ASSUME Leave PROVE MInv'
  BY <1>4, PlusCounts DEF Leave, EndMeasures, MInv, MTypes, Covered, Within
<1>5. ASSUME UNCHANGED mvars PROVE MInv'
  BY <1>5 DEF mvars, reports, MInv, MTypes, Covered, Within
<1> QED
  BY <1>1, <1>2, <1>3, <1>4, <1>5 DEF RNext, Leaves, Duplicate, Keeps, OtherEvent, rvars

\* A report covers print_tdiff at least and no event older than its beginning.
THEOREM ReportsHonest == RSpec => ReportsCoverTheirEvents
<1>1. RInit => MInv
  BY InitMInv DEF RInit
<1>2. MInv /\ [RNext]_rvars =>
        [reg = "call" /\ reg' = "printed" =>
           /\ now - print_tstart >= PrintDiff
           /\ oldest # Unset => oldest >= print_tstart]_mvars
  <2> SUFFICES ASSUME MInv, [RNext]_rvars, reg = "call", reg' = "printed"
               PROVE  /\ now - print_tstart >= PrintDiff
                      /\ oldest # Unset => oldest >= print_tstart
    OBVIOUS
  <2>1. Register
    BY DEF RNext, Leave, EndMeasures, Leaves, Duplicate, Keeps, OtherEvent, TimePasses, Call,
           rvars, mvars, reports
  <2>2. now >= Due /\ now >= Start
    BY <2>1 DEF Register, Ignore, NoReport, PrintMeasures, Clean, CleanField, CountField, Counting
  <2> QED
    BY <2>2, TimesAssumption DEF Due, Start, MInv, MTypes, Covered, Times, Unset
<1> QED BY <1>1, <1>2, NextMInv, PTL DEF RSpec, ReportsCoverTheirEvents

-----------------------------------------------------------------------------
\* An id that leaves is the awaited one; it is played or lost.
LEMMA LeavesOne ==
  ASSUME IInv, Scroll \/ Flush \/ PlayNow
  PROVE  /\ next_chunk \in Nat
         /\ \/ played' = played \union {next_chunk} /\ lost' = lost
            \/ played' = played /\ lost' = lost \union {next_chunk}
<1>1. CASE Scroll
  <2>1. next_chunk # -1 /\ i = next_chunk
    BY <1>1 DEF IInv, CallState, Scroll
  <2> QED
    BY <1>1, <2>1, HeadOfRing DEF Scroll, BufferFree, IInv, TypeOK
<1>2. CASE Flush
  <2>1. next_chunk # -1 /\ i = Slot(next_chunk)
    BY <1>2 DEF IInv, CallState, Flush
  <2> QED
    BY <1>2, <2>1, HeadOfRing DEF Flush, BufferFree, IInv, TypeOK
<1>3. CASE PlayNow
  BY <1>3 DEF PlayNow, IInv, TypeOK, CallState
<1> QED BY <1>1, <1>2, <1>3

\* A chunk of the ring, and one that is awaited, are played for the first time.
LEMMA FlushPlays == ASSUME IInv, Flush PROVE played' # played
<1>1. next_chunk # -1 /\ i = Slot(next_chunk)
  BY DEF IInv, CallState, Flush
<1>2. played' = played \union {next_chunk}
  BY <1>1, HeadOfRing DEF Flush, BufferFree
<1>3. next_chunk \notin played
  BY LeavesOne DEF IInv, CallState
<1> QED BY <1>2, <1>3

LEMMA PlayNowPlays == ASSUME IInv, PlayNow PROVE played' # played
<1>1. played' = played \union {next_chunk}
  BY DEF PlayNow
<1>2. next_chunk \notin played
  BY LeavesOne DEF IInv, CallState
<1> QED BY <1>1, <1>2

Finite == IsFiniteSet(played) /\ IsFiniteSet(lost)

RInv == IInv /\ MInv /\ Finite /\ ReportsAddUp

\* How the sizes of played and lost grow when the awaited id leaves.
LEMMA Growth ==
  ASSUME IInv, Finite, Scroll \/ Flush \/ PlayNow
  PROVE  /\ Finite'
         /\ Cardinality(played \union lost)' = Cardinality(played \union lost) + 1
         /\ played' # played => Cardinality(played') = Cardinality(played) + 1
         /\ lost' # lost => played' = played
<1> DEFINE x == next_chunk
<1>1. x \notin played /\ x \notin lost
  BY LeavesOne DEF IInv, CallState
<1>2. \/ played' = played \union {x} /\ lost' = lost
      \/ played' = played /\ lost' = lost \union {x}
  BY LeavesOne
<1>3. /\ IsFiniteSet(played) /\ IsFiniteSet(lost) /\ IsFiniteSet(played \union lost)
      /\ IsFiniteSet(played \union {x}) /\ IsFiniteSet(lost \union {x})
      /\ Cardinality(played \union {x}) = Cardinality(played) + 1
  BY <1>1, FS_AddElement, FS_Union DEF Finite
<1>4. Cardinality((played \union lost) \union {x}) = Cardinality(played \union lost) + 1
  BY <1>1, <1>3, FS_AddElement
<1>5. (played \union lost)' = (played \union lost) \union {x}
  BY <1>2
<1> QED BY <1>1, <1>2, <1>3, <1>4, <1>5 DEF Finite

\* The sum is right when nothing has left.
LEMMA InitRInv == RInit => RInv
<1> SUFFICES ASSUME RInit PROVE RInv
  OBVIOUS
<1>1. IInv /\ MInv
  BY InitIInv, InitMInv DEF RInit
<1>2. /\ played = {} /\ lost = {} /\ m = Zero /\ reported = Zero /\ early = Zero
      /\ owed = Zero /\ reg = "none" /\ left = FALSE
  BY DEF RInit, Init, MInit
<1>3. Finite /\ Cardinality(played) = 0 /\ Cardinality(played \union lost) = 0
  BY <1>2, FS_EmptySet DEF Finite
<1>4. ReportsAddUp
  BY <1>2, <1>3 DEF ReportsAddUp, Plus, Zero
<1> QED BY <1>1, <1>3, <1>4 DEF RInv

\* Two sums of counters are equal field by field.
LEMMA SameCounts ==
  ASSUME NEW a \in Counts, NEW b \in Counts, NEW d \in Counts, NEW g \in Counts, NEW h \in Counts
  PROVE  Plus(Plus(a, b), d) = Plus(g, h) <=>
           /\ a.chunks + b.chunks + d.chunks = g.chunks + h.chunks
           /\ a.played + b.played + d.played = g.played + h.played
  BY DEF Counts, Plus

\* What left the output buffer.
Gone == [chunks |-> Cardinality(played \union lost), played |-> Cardinality(played)]

\* While the program runs, ReportsAddUp is about the sums.
LEMMA SumsAgree ==
  ASSUME MInv, Finite, ~left
  PROVE  ReportsAddUp <=> /\ SumOf("played") = Cardinality(played)
                          /\ SumOf("chunks") = Cardinality(played \union lost)
<1> DEFINE told == IF reg = "printed" THEN reported ELSE Plus(reported, m)
<1>1. /\ early \in Counts /\ reported \in Counts /\ m \in Counts /\ owed \in Counts
      /\ owed.chunks <= 1 /\ owed.played <= 1
  BY DEF MInv, MTypes, Within
<1>2. told \in Counts /\ Zero \in Counts /\ Gone \in Counts
  BY <1>1, PlusCounts, EventsAreCounts, FS_CardinalityType, FS_Union DEF Gone, Counts, Finite
<1>3. ReportsAddUp <=> Plus(Plus(early, told), owed) = Plus(Gone, Zero)
  BY <1>1 DEF ReportsAddUp, Gone
<1>4. /\ told.chunks = reported.chunks + Held("chunks")
      /\ told.played = reported.played + Held("played")
  BY <1>1 DEF Plus, Counts, Held
<1>5. Gone.chunks + Zero.chunks = Gone.chunks /\ Gone.played + Zero.played = Gone.played
  BY <1>2 DEF Counts, Zero
<1> HIDE DEF told
<1>6. ReportsAddUp <=> /\ early.chunks + told.chunks + owed.chunks = Gone.chunks
                       /\ early.played + told.played + owed.played = Gone.played
  BY <1>1, <1>2, <1>3, <1>5, SameCounts
<1>7. /\ SumOf("chunks") = early.chunks + told.chunks + owed.chunks
      /\ SumOf("played") = early.played + told.played + owed.played
  BY <1>1, <1>2, <1>4 DEF SumOf, Held, Counts
<1> QED BY <1>6, <1>7 DEF Gone

\* The same after a step.
LEMMA SumsAgreeNext ==
  ASSUME MInv', Finite', ~left'
  PROVE  ReportsAddUp' <=> /\ SumOf("played")' = Cardinality(played)'
                           /\ SumOf("chunks")' = Cardinality(played \union lost)'
<1> DEFINE told == IF reg' = "printed" THEN reported' ELSE Plus(reported', m')
<1>1. /\ early' \in Counts /\ reported' \in Counts /\ m' \in Counts /\ owed' \in Counts
      /\ owed'.chunks <= 1 /\ owed'.played <= 1
  BY DEF MInv, MTypes, Within
<1>2. told \in Counts /\ Zero \in Counts /\ Gone' \in Counts
  BY <1>1, PlusCounts, EventsAreCounts, FS_CardinalityType, FS_Union DEF Gone, Counts, Finite
<1>3. ReportsAddUp' <=> Plus(Plus(early', told), owed') = Plus(Gone', Zero)
  BY <1>1 DEF ReportsAddUp, Gone
<1>4. /\ told.chunks = reported'.chunks + Held("chunks")'
      /\ told.played = reported'.played + Held("played")'
  BY <1>1 DEF Plus, Counts, Held
<1>5. Gone'.chunks + Zero.chunks = Gone'.chunks /\ Gone'.played + Zero.played = Gone'.played
  BY <1>2 DEF Counts, Zero
<1> HIDE DEF told
<1>6. ReportsAddUp' <=> /\ early'.chunks + told.chunks + owed'.chunks = Gone'.chunks
                        /\ early'.played + told.played + owed'.played = Gone'.played
  BY <1>1, <1>2, <1>3, <1>5, SameCounts
<1>7. /\ SumOf("chunks")' = early'.chunks + told.chunks + owed'.chunks
      /\ SumOf("played")' = early'.played + told.played + owed'.played
  BY <1>1, <1>2, <1>4 DEF SumOf, Held, Counts
<1> QED BY <1>6, <1>7 DEF Gone

\* A last report tells what the counters hold, and what the report before it told
\* a second time when they have not been cleaned.
LEMMA LeaveRInv == ASSUME RInv, Leave, ~left PROVE ReportsAddUp'
<1> DEFINE told == IF reg = "printed" THEN reported ELSE Plus(reported, m)
           again == IF reg = "printed" THEN m ELSE Zero
<1>1. /\ early \in Counts /\ reported \in Counts /\ m \in Counts /\ owed \in Counts
      /\ Zero \in Counts /\ Gone \in Counts
  BY EventsAreCounts, FS_CardinalityType, FS_Union
  DEF RInv, MInv, MTypes, Finite, Gone, Counts
<1>2. /\ reported' = Plus(reported, m) /\ left' = TRUE
      /\ UNCHANGED <<m, reg, owed, early, played, lost>>
  BY DEF Leave, EndMeasures, vars
<1>3. /\ Plus(Plus(early, told), owed) = Plus(Gone, Zero)
      /\ owed.chunks <= 1 /\ owed.played <= 1
  BY DEF RInv, ReportsAddUp, Gone
<1>4. /\ told \in Counts /\ again \in Counts
      /\ reported' \in Counts
      /\ reported'.chunks = told.chunks + again.chunks
      /\ reported'.played = told.played + again.played
  BY <1>1, <1>2, PlusCounts DEF Counts, Zero
<1>5. ReportsAddUp' <=> Plus(Plus(early, reported'), owed) = Plus(Gone, again)
  BY <1>2, <1>3 DEF ReportsAddUp, Gone
<1> HIDE DEF told, again
<1>6. /\ early.chunks + told.chunks + owed.chunks = Gone.chunks + Zero.chunks
      /\ early.played + told.played + owed.played = Gone.played + Zero.played
  BY <1>1, <1>3, <1>4, SameCounts
<1>7. /\ early.chunks + reported'.chunks + owed.chunks = Gone.chunks + again.chunks
      /\ early.played + reported'.played + owed.played = Gone.played + again.played
  BY <1>1, <1>4, <1>6 DEF Counts, Zero
<1> QED BY <1>1, <1>4, <1>5, <1>7, SameCounts

\* The reports grow by what leaves the output buffer.
LEMMA NextRInv == RInv /\ [RNext]_rvars => RInv'
<1> SUFFICES ASSUME RInv, [RNext]_rvars PROVE RInv'
  OBVIOUS
<1>1. IInv' /\ MInv'
  <2>1. [Next]_vars
    BY StepOfBuffer DEF rvars, vars
  <2> QED BY <2>1, NextIInv, NextMInv DEF RInv
<1>2. MInv /\ Finite
  BY DEF RInv
<1>3. ASSUME UNCHANGED <<played, lost, left, early, reported, m, reg, owed>>
      PROVE  Finite' /\ ReportsAddUp'
  BY <1>3 DEF RInv, Finite, ReportsAddUp
<1>4. ASSUME Leaves, ~left, UNCHANGED left PROVE Finite' /\ ReportsAddUp'
  <2>1. Scroll \/ Flush \/ PlayNow
    BY <1>4 DEF Leaves
  <2>2. \/ Call(PlayedOne) /\ played' # played
        \/ Call(LostOne) /\ lost' # lost
    <3>1. ASSUME Flush PROVE played' # played
      BY <3>1, FlushPlays DEF RInv
    <3>2. ASSUME PlayNow PROVE played' # played
      BY <3>2, PlayNowPlays DEF RInv
    <3> QED BY <1>4, <3>1, <3>2 DEF Leaves
  <2>3. /\ Finite'
        /\ Cardinality(played \union lost)' = Cardinality(played \union lost) + 1
        /\ played' # played => Cardinality(played') = Cardinality(played) + 1
        /\ lost' # lost => played' = played
    BY <2>1, Growth DEF RInv
  <2>4. SumOf("played") = Cardinality(played) /\ SumOf("chunks") = Cardinality(played \union lost)
    BY <1>2, <1>4, SumsAgree DEF RInv
  <2>5. MInv /\ MInv' /\ left' = FALSE
    BY <1>1, <1>4 DEF RInv
  <2>6. CASE Call(PlayedOne) /\ played' # played
    <3>1. SumOf("chunks")' = SumOf("chunks") + 1 /\ SumOf("played")' = SumOf("played") + 1
      BY <2>5, <2>6, CallAdds, EventsAreCounts DEF PlayedOne
    <3> QED BY <2>3, <2>4, <2>5, <2>6, <3>1, SumsAgreeNext
  <2>7. CASE Call(LostOne) /\ lost' # lost
    <3>1. /\ SumOf("chunks")' = SumOf("chunks") + 1 /\ SumOf("played")' = SumOf("played") + 0
          /\ SumOf("played") \in Nat
      BY <2>5, <2>7, CallAdds, EventsAreCounts, SumsAreNat DEF LostOne
    <3>2. SumOf("played")' = SumOf("played") /\ Cardinality(played)' = Cardinality(played)
      BY <3>1, <2>3, <2>7
    <3> QED BY <2>3, <2>4, <2>5, <3>1, <3>2, SumsAgreeNext
  <2> QED BY <2>2, <2>3, <2>6, <2>7
<1>5. ASSUME Call(Zero) \/ Register, ~left, UNCHANGED <<played, lost, left>>
      PROVE  Finite' /\ ReportsAddUp'
  <2>1. SumOf("chunks")' = SumOf("chunks") /\ SumOf("played")' = SumOf("played")
    <3>1. CASE Call(Zero)
      <4>1. /\ SumOf("chunks")' = SumOf("chunks") + 0 /\ SumOf("played")' = SumOf("played") + 0
            /\ SumOf("chunks") \in Nat /\ SumOf("played") \in Nat
        BY <1>2, <3>1, CallAdds, EventsAreCounts, SumsAreNat DEF Zero
      <4> QED BY <4>1
    <3>2. CASE Register
      BY <1>2, <3>2, RegisterKeeps
    <3> QED BY <1>5, <3>1, <3>2
  <2>2. SumOf("played") = Cardinality(played) /\ SumOf("chunks") = Cardinality(played \union lost)
    BY <1>2, <1>5, SumsAgree DEF RInv
  <2>3. SumOf("played")' = Cardinality(played)' /\ SumOf("chunks")' = Cardinality(played \union lost)'
    BY <1>5, <2>1, <2>2
  <2>4. Finite' /\ ~left'
    BY <1>2, <1>5 DEF Finite
  <2> QED BY <1>1, <2>3, <2>4, SumsAgreeNext
<1>6. ASSUME Leave, ~left PROVE Finite' /\ ReportsAddUp'
  BY <1>2, <1>6, LeaveRInv DEF Leave, vars, Finite
<1>7. ASSUME Duplicate PROVE Call(Zero) /\ UNCHANGED <<played, lost>>
  BY <1>7 DEF Duplicate, Store
<1>8. ASSUME Keeps PROVE UNCHANGED <<played, lost, early, reported, m, reg, owed>>
  BY <1>8 DEF Keeps, Deliver, ScrollDone, FlushDone, Store, mvars, reports
<1>9. Finite' /\ ReportsAddUp'
  BY <1>3, <1>4, <1>5, <1>6, <1>7, <1>8
  DEF RNext, OtherEvent, TimePasses, reports, vars, mvars, rvars
<1> QED BY <1>1, <1>9 DEF RInv

\* Wherever a signal ends the program, every id that was played or lost is in one
\* report with its outcome, but for the last one and a report being made (leave).
THEOREM ReportsComplete == RSpec => []ReportsAddUp
<1>1. RInv => ReportsAddUp
  BY DEF RInv
<1> QED BY <1>1, InitRInv, NextRInv, PTL DEF RSpec
=============================================================================
