------------------------------ MODULE LoopMTProofs ------------------------------
(***************************************************************************)
(* Proofs about LoopMT: the mutexes, and what they keep apart.             *)
(***************************************************************************)
EXTENDS LoopMT, TLAPS

(* The mutexes of each section (loop-mt.c).                                  *)
LEMMA LocksOf ==
  ASSUME NEW s \in Sections
  PROVE  /\ Locks(s) = IF s = "distribute" THEN <<"topology", "cb">>
                       ELSE IF s \in {"receive", "forge"} THEN <<"cb">> ELSE <<"topology">>
         /\ Len(Locks(s)) = IF s = "distribute" THEN 2 ELSE 1
         /\ \A i \in 1 .. Len(Locks(s)) : Locks(s)[i] \in Mutexes
         /\ \A i, j \in 1 .. Len(Locks(s)) : Locks(s)[i] = Locks(s)[j] => i = j
<1>1. Locks(s) = IF s = "distribute" THEN <<"topology", "cb">>
                 ELSE IF s \in {"receive", "forge"} THEN <<"cb">> ELSE <<"topology">>
  BY DEF Locks, Sections
<1> QED BY <1>1 DEF Mutexes

\* Who has locked what, for one thread.
Owns(t) ==
  /\ section[t] = "none" => held[t] = 0 /\ ~leaving[t]
  /\ section[t] # "none" =>
       section[t] \in SectionsOf(t) /\ held[t] <= Len(Locks(section[t]))
  /\ leaving[t] => held[t] > 0
  /\ \A m \in Mutexes : owner[m] = t <=> HasLocked(t, m)

\* The types alone.
Types ==
  /\ role \in {"peer", "source"} /\ alto \in BOOLEAN
  /\ section \in [Threads -> Sections \union {"none"}]
  /\ leaving \in [Threads -> BOOLEAN]
  /\ held \in [Threads -> 0 .. 2]
  /\ owner \in [Mutexes -> Threads \union {"none"}]

(* TypeOK is the types, and the ownership of each thread.                    *)
LEMMA TypeParts ==
  /\ TypeOK <=> Types /\ \A t \in Threads : Owns(t)
  /\ TypeOK' <=> Types' /\ \A t \in Threads : Owns(t)'
BY DEF TypeOK, Types, Owns

(* Every step of every thread keeps the types and the ownership.             *)
LEMMA TypeStep == TypeOK /\ [Next]_vars => TypeOK'
<1> SUFFICES ASSUME Types, \A t \in Threads : Owns(t), [Next]_vars
             PROVE  Types' /\ \A t \in Threads : Owns(t)'
  BY TypeParts
<1>n. "none" \notin Sections /\ "none" \notin Threads
  BY DEF Sections, Threads
<1>1. ASSUME NEW t \in Threads, Begin(t) PROVE Types' /\ \A u \in Threads : Owns(u)'
  <2>1. PICK s \in SectionsOf(t) : section' = [section EXCEPT ![t] = s]
    BY <1>1 DEF Begin
  <2>2. /\ section[t] = "none" /\ held' = held /\ leaving' = leaving /\ owner' = owner
        /\ role' = role /\ alto' = alto
    BY <1>1 DEF Begin
  <2>3. s \in Sections
    BY DEF SectionsOf, Sections, Threads
  <2>4. Types'
    BY <2>1, <2>2, <2>3 DEF Types
  <2>5. ASSUME NEW u \in Threads PROVE SectionsOf(u)' = SectionsOf(u)
    BY <2>2 DEF SectionsOf
  <2>6. held[t] = 0 /\ ~leaving[t] /\ \A m \in Mutexes : owner[m] # t
    BY <2>2 DEF Owns, HasLocked
  <2>7. section'[t] = s /\ Len(Locks(s)) \in {1, 2}
    BY <2>1, <2>3, LocksOf DEF Types
  <2>8. Owns(t)'
    BY <2>1, <2>2, <2>5, <2>6, <2>7 DEF Owns, HasLocked
  <2>9. ASSUME NEW u \in Threads, u # t PROVE Owns(u)'
    <3>1. section'[u] = section[u]
      BY <2>1, <2>9 DEF Types
    <3>2. Owns(u)
      OBVIOUS
    <3> QED BY <2>2, <2>5, <3>1, <3>2 DEF Owns, HasLocked
  <2> QED BY <2>4, <2>8, <2>9
<1>2. ASSUME NEW t \in Threads, Lock(t) PROVE Types' /\ \A u \in Threads : Owns(u)'
  <2> DEFINE s == section[t]
             n == held[t] + 1
             m == Locks(s)[n]
  <2>1. /\ s \in Sections /\ s \in SectionsOf(t) /\ ~leaving[t] /\ held[t] \in 0 .. 2
        /\ held[t] < Len(Locks(s))
    BY <1>2 DEF Lock, Types, Owns
  <2>2. /\ owner[m] = "none" /\ owner' = [owner EXCEPT ![m] = t]
        /\ held' = [held EXCEPT ![t] = n]
        /\ UNCHANGED <<role, alto, section, leaving>>
    BY <1>2 DEF Lock
  <2>3. n \in 1 .. Len(Locks(s)) /\ m \in Mutexes /\ n \in 0 .. 2
    BY <2>1, LocksOf
  <2>4. Types'
    BY <2>2, <2>3 DEF Types
  <2>5. ASSUME NEW u \in Threads PROVE SectionsOf(u)' = SectionsOf(u)
    BY <2>2 DEF SectionsOf
  <2>6. held'[t] = n /\ owner'[m] = t /\ \A x \in Mutexes : x # m => owner'[x] = owner[x]
    BY <2>2, <2>3 DEF Types
  <2>7. Owns(t)'
    <3>1. ASSUME NEW x \in Mutexes PROVE owner'[x] = t <=> HasLocked(t, x)'
      <4>1. HasLocked(t, x)' <=> \E i \in 1 .. n : Locks(s)[i] = x
        BY <2>1, <2>2, <2>6, <1>n DEF HasLocked
      <4>2. HasLocked(t, x) <=> \E i \in 1 .. held[t] : Locks(s)[i] = x
        BY <2>1, <1>n DEF HasLocked
      <4>3. owner[x] = t <=> HasLocked(t, x)
        BY DEF Owns
      <4>4. (\E i \in 1 .. n : Locks(s)[i] = x) <=>
              ((\E i \in 1 .. held[t] : Locks(s)[i] = x) \/ x = m)
        BY <2>1
      <4> QED BY <4>1, <4>2, <4>3, <4>4, <2>6
    <3>2. n <= Len(Locks(s)) /\ section'[t] = s /\ leaving'[t] = leaving[t]
      BY <2>2, <2>3
    <3> QED BY <3>1, <3>2, <2>1, <2>5, <2>6, <1>n DEF Owns
  <2>8. ASSUME NEW u \in Threads, u # t PROVE Owns(u)'
    <3>1. held'[u] = held[u] /\ section' = section /\ leaving' = leaving
      BY <2>2, <2>8 DEF Types
    <3>2. \A x \in Mutexes : HasLocked(u, x)' <=> HasLocked(u, x)
      BY <3>1 DEF HasLocked
    <3>3. Owns(u)
      OBVIOUS
    <3>4. \A x \in Mutexes : owner'[x] = u <=> owner[x] = u
      BY <2>2, <2>3, <2>6, <2>8, <1>n
    <3> QED BY <2>5, <3>1, <3>2, <3>3, <3>4 DEF Owns
  <2> QED BY <2>4, <2>7, <2>8
<1>3. ASSUME NEW t \in Threads, Return(t) PROVE Types' /\ \A u \in Threads : Owns(u)'
  <2>1. /\ leaving' = [leaving EXCEPT ![t] = TRUE]
        /\ UNCHANGED <<role, alto, section, held, owner>>
        /\ section[t] # "none" /\ held[t] = Len(Locks(section[t]))
    BY <1>3 DEF Return, Inside
  <2>2. held[t] > 0
    <3>1. section[t] \in Sections
      BY <2>1 DEF Types
    <3>2. Len(Locks(section[t])) = 1 \/ Len(Locks(section[t])) = 2
      BY <3>1, LocksOf
    <3>3. held[t] = 1 \/ held[t] = 2
      BY <3>2, <2>1
    <3> QED BY <3>3
  <2>3. Types'
    BY <2>1 DEF Types
  <2>4. ASSUME NEW u \in Threads PROVE Owns(u)'
    <3>1. Owns(u) /\ SectionsOf(u)' = SectionsOf(u)
      BY <2>1 DEF SectionsOf
    <3>2. leaving'[u] = IF u = t THEN TRUE ELSE leaving[u]
      BY <2>1 DEF Types
    <3> QED BY <2>1, <2>2, <3>1, <3>2 DEF Owns, HasLocked
  <2> QED BY <2>3, <2>4
<1>4. ASSUME NEW t \in Threads, Unlock(t) PROVE Types' /\ \A u \in Threads : Owns(u)'
  <2> DEFINE s == section[t]
             n == held[t]
             m == Locks(s)[n]
  <2>1. /\ leaving[t] /\ n > 0 /\ n \in 0 .. 2 /\ s \in Sections /\ s # "none"
        /\ s \in SectionsOf(t) /\ n <= Len(Locks(s))
    BY <1>4 DEF Unlock, Types, Owns
  <2>2. /\ owner' = [owner EXCEPT ![m] = "none"]
        /\ held' = [held EXCEPT ![t] = n - 1]
        /\ leaving' = [leaving EXCEPT ![t] = n > 1]
        /\ section' = [section EXCEPT ![t] = IF n > 1 THEN s ELSE "none"]
        /\ UNCHANGED <<role, alto>>
    BY <1>4 DEF Unlock, Unlocks
  <2>3. n \in 1 .. Len(Locks(s)) /\ m \in Mutexes /\ n - 1 \in 0 .. 2
    BY <2>1, LocksOf
  <2>4. Types'
    BY <2>1, <2>2, <2>3 DEF Types
  <2>5. ASSUME NEW u \in Threads PROVE SectionsOf(u)' = SectionsOf(u)
    BY <2>2 DEF SectionsOf
  <2>6. /\ held'[t] = n - 1 /\ owner'[m] = "none" /\ \A x \in Mutexes : x # m => owner'[x] = owner[x]
        /\ leaving'[t] = (n > 1) /\ section'[t] = IF n > 1 THEN s ELSE "none"
    BY <2>2, <2>3 DEF Types
  <2>o. owner[m] = t
    <3>1. HasLocked(t, m)
      BY <2>1, <2>3 DEF HasLocked
    <3> QED BY <3>1, <2>3 DEF Owns
  <2>7. Owns(t)'
    <3>1. ASSUME NEW x \in Mutexes PROVE owner'[x] = t <=> HasLocked(t, x)'
      <4>1. HasLocked(t, x)' <=> \E i \in 1 .. n - 1 : Locks(s)[i] = x
        BY <2>1, <2>6, <1>n DEF HasLocked
      <4>2. owner[x] = t <=> \E i \in 1 .. n : Locks(s)[i] = x
        BY <2>1 DEF HasLocked, Owns
      <4>3. (\E i \in 1 .. n - 1 : Locks(s)[i] = x) <=>
              ((\E i \in 1 .. n : Locks(s)[i] = x) /\ x # m)
        <5>1. \A i, j \in 1 .. Len(Locks(s)) : Locks(s)[i] = Locks(s)[j] => i = j
          BY <2>1, LocksOf
        <5>2. ASSUME NEW i \in 1 .. n PROVE i \in 1 .. Len(Locks(s)) /\ (i # n => i \in 1 .. n - 1)
          BY <2>3
        <5> QED BY <2>3, <5>1, <5>2
      <4>4. t # "none"
        BY <1>n
      <4> QED BY <4>1, <4>2, <4>3, <4>4, <2>6
    <3>2. CASE n = 1
      <4>1. section'[t] = "none" /\ held'[t] = 0
        BY <3>2, <2>6
      <4>0. ~(n > 1)
        BY <3>2
      <4>2. ~leaving'[t]
        BY <4>0, <2>6, Zenon
      <4> QED BY <3>1, <4>1, <4>2 DEF Owns
    <3>3. CASE n > 1
      <4>1. section'[t] = s /\ held'[t] > 0 /\ held'[t] <= Len(Locks(s))
        BY <3>3, <2>1, <2>3, <2>6
      <4> QED BY <3>1, <4>1, <2>1, <2>5 DEF Owns
    <3> QED BY <3>2, <3>3, <2>1
  <2>8. ASSUME NEW u \in Threads, u # t PROVE Owns(u)'
    <3>1. held'[u] = held[u] /\ section'[u] = section[u] /\ leaving'[u] = leaving[u]
      BY <2>2, <2>8 DEF Types
    <3>2. \A x \in Mutexes : HasLocked(u, x)' <=> HasLocked(u, x)
      BY <3>1 DEF HasLocked
    <3>3. Owns(u)
      OBVIOUS
    <3>4. \A x \in Mutexes : owner'[x] = u <=> owner[x] = u
      BY <2>3, <2>6, <2>8, <2>o, <1>n
    <3> QED BY <2>5, <3>1, <3>2, <3>3, <3>4 DEF Owns
  <2> QED BY <2>4, <2>7, <2>8
<1>5. ASSUME UNCHANGED vars PROVE Types' /\ \A u \in Threads : Owns(u)'
  <2>1. Types'
    BY <1>5 DEF vars, Types
  <2>2. ASSUME NEW u \in Threads PROVE Owns(u)'
    <3>1. Owns(u)
      OBVIOUS
    <3> QED BY <1>5, <3>1, ZenonT(60) DEF vars, Owns, HasLocked, SectionsOf
  <2> QED BY <2>1, <2>2
<1> QED BY <1>1, <1>2, <1>3, <1>4, <1>5 DEF Next, Proceed

(* A mutex belongs to the thread between its lock and its unlock (loop-mt.c).*)
THEOREM TypeCorrect == Spec => []TypeOK
<1>1. Init => TypeOK
  BY DEF Init, TypeOK, HasLocked, Sections, Threads, Mutexes
<1> QED BY <1>1, TypeStep, PTL DEF Spec

(* Two threads inside their calls hold no mutex in common.                   *)
LEMMA Exclusion ==
  ASSUME TypeOK, NEW t \in Threads, NEW u \in Threads, t # u, Inside(t), Inside(u)
  PROVE  /\ section[t] \in SectionsOf(t) /\ section[u] \in SectionsOf(u)
         /\ section[t] \in Sections /\ section[u] \in Sections
         /\ \A i \in 1 .. Len(Locks(section[t])), j \in 1 .. Len(Locks(section[u])) :
              Locks(section[t])[i] # Locks(section[u])[j]
<1>1. /\ section[t] \in Sections /\ section[u] \in Sections
      /\ section[t] \in SectionsOf(t) /\ section[u] \in SectionsOf(u)
      /\ held[t] = Len(Locks(section[t])) /\ held[u] = Len(Locks(section[u]))
      /\ section[t] # "none" /\ section[u] # "none"
  BY DEF Inside, TypeOK
<1>2. ASSUME NEW i \in 1 .. Len(Locks(section[t])), NEW j \in 1 .. Len(Locks(section[u])),
             Locks(section[t])[i] = Locks(section[u])[j]
      PROVE  FALSE
  <2> DEFINE m == Locks(section[t])[i]
  <2>1. m \in Mutexes
    BY <1>1, LocksOf
  <2>2. HasLocked(t, m) /\ HasLocked(u, m)
    BY <1>1, <1>2 DEF HasLocked
  <2>3. owner[m] = t /\ owner[m] = u
    BY <2>1, <2>2 DEF TypeOK
  <2> QED BY <2>3
<1> QED BY <1>1, <1>2

(* The two mutexes keep the threads of a peer or source apart, except for    *)
(* the calls named in OnlyKnownRaces (loop-mt.c).                            *)
THEOREM RacesAreKnown == Spec => []OnlyKnownRaces
<1>1. TypeOK => OnlyKnownRaces
  <2> SUFFICES ASSUME TypeOK, NEW t \in Threads, NEW u \in Threads, NEW r \in Resources,
                      Race(t, u, r)
               PROVE  \/ /\ role = "peer" /\ {section[t], section[u]} = {"receive", "tick"}
                         /\ r = "chunks" => alto
                      \/ /\ role = "source" /\ r = "chunks"
                         /\ section[t] = "forge" /\ section[u] # "distribute"
    BY DEF OnlyKnownRaces
  <2> DEFINE a == section[t]
             b == section[u]
  <2>1. /\ a \in SectionsOf(t) /\ b \in SectionsOf(u) /\ a \in Sections /\ b \in Sections
        /\ \A i \in 1 .. Len(Locks(a)), j \in 1 .. Len(Locks(b)) : Locks(a)[i] # Locks(b)[j]
        /\ t # u /\ r \in Writes(a) /\ r \in Writes(b) \union Reads(b)
    BY Exclusion DEF Race
  <2> HIDE DEF a, b
  <2>2. \/ a \in {"receive", "forge"} /\ b \in {"update", "signal", "tick"}
        \/ b \in {"receive", "forge"} /\ a \in {"update", "signal", "tick"}
    <3>1. ~(a \in {"receive", "forge", "distribute"} /\ b \in {"receive", "forge", "distribute"})
      <4>1. \A s \in {"receive", "forge", "distribute"} :
              s \in Sections /\ \E i \in 1 .. Len(Locks(s)) : Locks(s)[i] = "cb"
        BY LocksOf, SMTT(30) DEF Sections
      <4> QED BY <4>1, <2>1
    <3>2. ~(a \notin {"receive", "forge"} /\ b \notin {"receive", "forge"})
      <4>1. \A s \in Sections \ {"receive", "forge"} :
              \E i \in 1 .. Len(Locks(s)) : Locks(s)[i] = "topology"
        BY LocksOf DEF Sections
      <4> QED BY <4>1, <2>1
    <3> QED BY <3>1, <3>2, <2>1 DEF Sections
  <2>3. /\ a = "receive" \/ b = "receive" => role = "peer"
        /\ a = "forge" \/ b = "forge" => role = "source"
        /\ role \in {"peer", "source"}
        /\ a \in {"update", "signal", "receive"} /\ b \in {"update", "signal", "receive"} => t = u
    BY <2>1 DEF SectionsOf, TypeOK, Threads
  <2>4. ASSUME a = "receive" PROVE b = "tick" /\ role = "peer" /\ (r = "chunks" => alto)
    BY <2>1, <2>2, <2>3, <2>4 DEF Writes, Reads
  <2>5. ASSUME b = "receive" PROVE a = "tick" /\ role = "peer" /\ r # "chunks"
    BY <2>1, <2>2, <2>3, <2>5 DEF Writes, Reads
  <2>6. ASSUME a = "forge" PROVE role = "source" /\ r = "chunks" /\ b # "distribute"
    BY <2>1, <2>2, <2>3, <2>6 DEF Writes
  <2>7. b # "forge"
    BY <2>1, <2>2, <2>3 DEF Writes, Reads
  <2> QED BY <2>2, <2>4, <2>5, <2>6, <2>7 DEF a, b
<1> QED BY <1>1, TypeCorrect, PTL

-----------------------------------------------------------------------------
\* Nothing keeps t from its next step: the call returns, a mutex is unlocked, or
\* the mutex it wants is free.
CanProceed(t) ==
  /\ section[t] # "none"
  /\ \/ leaving[t]
     \/ Inside(t)
     \/ /\ held[t] < Len(Locks(section[t]))
        /\ owner[Locks(section[t])[held[t] + 1]] = "none"

\* Whoever holds the chunk buffer does not wait for anybody.
BufferHolderRuns == owner["cb"] # "none" => CanProceed(owner["cb"])

\* As long as some thread is in a section, one of them can go on.
SomebodyRuns ==
  (\E t \in Threads : section[t] # "none") => \E t \in Threads : CanProceed(t)

(* What the owner of a mutex is doing.                                       *)
LEMMA OwnerFact ==
  ASSUME TypeOK, NEW m \in Mutexes, owner[m] # "none"
  PROVE  /\ owner[m] \in Threads /\ section[owner[m]] \in Sections
         /\ section[owner[m]] # "none"
         /\ held[owner[m]] \in 1 .. Len(Locks(section[owner[m]]))
         /\ \E i \in 1 .. held[owner[m]] : Locks(section[owner[m]])[i] = m
<1> DEFINE t == owner[m]
<1>1. t \in Threads
  BY DEF TypeOK
<1>2. HasLocked(t, m)
  BY <1>1 DEF TypeOK
<1>3. section[t] \in Sections /\ section[t] # "none"
  BY <1>1, <1>2 DEF TypeOK, HasLocked
<1>4. \E i \in 1 .. held[t] : Locks(section[t])[i] = m
  BY <1>2 DEF HasLocked
<1>5. held[t] \in 0 .. 2 /\ held[t] <= Len(Locks(section[t]))
  BY <1>1, <1>3 DEF TypeOK
<1>6. Len(Locks(section[t])) \in Nat
  BY <1>3, LocksOf
<1>7. held[t] \in 1 .. Len(Locks(section[t]))
  BY <1>4, <1>5, <1>6
<1> QED BY <1>1, <1>3, <1>4, <1>7

(* A thread that has all its mutexes runs; the others wait for the next one. *)
LEMMA WaitsOrRuns ==
  ASSUME TypeOK, NEW t \in Threads, section[t] \in Sections, section[t] # "none",
         ~CanProceed(t)
  PROVE  /\ held[t] \in 0 .. Len(Locks(section[t])) - 1
         /\ owner[Locks(section[t])[held[t] + 1]] # "none"
<1>1. held[t] \in 0 .. 2 /\ held[t] <= Len(Locks(section[t])) /\ Len(Locks(section[t])) \in Nat
  BY LocksOf DEF TypeOK
<1>2. ~leaving[t] /\ held[t] # Len(Locks(section[t]))
  BY DEF CanProceed, Inside
<1> QED BY <1>1, <1>2 DEF CanProceed

(* Whoever holds cb_mutex has all the mutexes of its call.                   *)
LEMMA BufferHolder == TypeOK => BufferHolderRuns
<1> SUFFICES ASSUME TypeOK, owner["cb"] # "none", ~CanProceed(owner["cb"]) PROVE FALSE
  BY DEF BufferHolderRuns
<1> DEFINE t == owner["cb"]
           s == section[t]
<1>1. "cb" \in Mutexes
  BY DEF Mutexes
<1>2. /\ t \in Threads /\ s \in Sections /\ s # "none" /\ held[t] \in 1 .. Len(Locks(s))
      /\ \E i \in 1 .. held[t] : Locks(s)[i] = "cb"
  BY <1>1, OwnerFact
<1>3. held[t] \in 0 .. Len(Locks(s)) - 1
  BY <1>2, WaitsOrRuns
<1> HIDE DEF t, s
<1>4. /\ Locks(s) = IF s = "distribute" THEN <<"topology", "cb">>
                    ELSE IF s \in {"receive", "forge"} THEN <<"cb">> ELSE <<"topology">>
      /\ Len(Locks(s)) = IF s = "distribute" THEN 2 ELSE 1
  BY <1>2, LocksOf
<1>5. s = "distribute" /\ held[t] = 1
  BY <1>2, <1>3, <1>4
<1>6. Locks(s)[1] = "topology"
  BY <1>4, <1>5
<1> QED BY <1>2, <1>5, <1>6

(* cb_mutex is only held by threads that wait for nobody (loop-mt.c).        *)
THEOREM BufferHolderGoesOn == Spec => []BufferHolderRuns
BY BufferHolder, TypeCorrect, PTL

(* The threads never all wait for each other's mutexes (loop-mt.c).          *)
THEOREM NoDeadlock == Spec => []SomebodyRuns
<1>1. TypeOK => SomebodyRuns
  <2> SUFFICES ASSUME TypeOK, NEW u \in Threads, section[u] # "none",
                      \A t \in Threads : ~CanProceed(t)
               PROVE  FALSE
    BY DEF SomebodyRuns
  <2>1. "topology" \in Mutexes /\ "cb" \in Mutexes
    BY DEF Mutexes
  <2>2. owner["cb"] = "none"
    <3>1. owner["cb"] # "none" => owner["cb"] \in Threads
      BY <2>1, OwnerFact
    <3> QED BY <3>1, BufferHolder DEF BufferHolderRuns
  <2>3. ASSUME NEW t \in Threads, section[t] # "none"
        PROVE  /\ section[t] \in Sections /\ held[t] = 0
               /\ Locks(section[t])[1] = "topology" /\ owner["topology"] # "none"
    <3> DEFINE s == section[t]
    <3>1. s \in Sections
      BY <2>3 DEF TypeOK
    <3>2. held[t] \in 0 .. Len(Locks(s)) - 1 /\ owner[Locks(s)[held[t] + 1]] # "none"
      BY <2>3, <3>1, WaitsOrRuns
    <3> HIDE DEF s
    <3>3. /\ Locks(s) = IF s = "distribute" THEN <<"topology", "cb">>
                        ELSE IF s \in {"receive", "forge"} THEN <<"cb">> ELSE <<"topology">>
          /\ Len(Locks(s)) = IF s = "distribute" THEN 2 ELSE 1
      BY <3>1, LocksOf
    <3>4. Locks(s)[held[t] + 1] # "cb"
      BY <2>2, <3>2
    <3>5. held[t] = 0 /\ Locks(s)[1] = "topology"
      BY <3>2, <3>3, <3>4
    <3>6. held[t] + 1 = 1
      BY <3>5
    <3> QED BY <3>1, <3>2, <3>5, <3>6 DEF s
  <2>4. owner["topology"] # "none"
    BY <2>3
  <2>5. /\ owner["topology"] \in Threads /\ section[owner["topology"]] # "none"
        /\ held[owner["topology"]] \in 1 .. Len(Locks(section[owner["topology"]]))
    BY <2>1, <2>4, OwnerFact
  <2>6. held[owner["topology"]] = 0
    BY <2>3, <2>5
  <2> QED BY <2>5, <2>6
<1> QED BY <1>1, TypeCorrect, PTL
=============================================================================
