---------------------------- MODULE TopologyProofs ----------------------------
(***************************************************************************)
(* Proofs about Topology, for any number of peers and any number of        *)
(* messages in flight, and about the arrays TopologySelection makes a      *)
(* selection with.                                                         *)
(***************************************************************************)
EXTENDS TopologySelection, FiniteSetTheorems, SequenceTheorems, TLAPS

\* What the explicit messages in flight form; opaque to most steps.
Network == [Peers -> [Peers -> Seq(Requests)]]

(* Send adds to the channels of the sender only (send_topo_msg).             *)
LEMMA SendOthers ==
  ASSUME NEW p \in Peers, NEW c \in Network,
         NEW dropped, NEW adds, NEW removes, NEW q \in Peers, q # p
  PROVE  Send(p, c, dropped, adds, removes)[q] = c[q]
BY DEF Send, Network

(* A peer that is only added is sent one ADD.                                *)
LEMMA SendAdd ==
  ASSUME NEW p \in Peers, NEW c \in Network,
         NEW dropped, NEW adds, NEW removes,
         NEW r \in Peers, r \notin dropped, r \in adds, r \notin removes
  PROVE  Send(p, c, dropped, adds, removes)[p][r] = c[p][r] \o <<"add">>
<1>1. Send(p, c, dropped, adds, removes)[p][r] = c[p][r] \o <<>> \o <<"add">> \o <<>>
  BY DEF Send, Network
<1>2. c[p][r] \in Seq(Requests)
  BY DEF Network
<1>3. c[p][r] \o <<>> \o <<"add">> \o <<>> = c[p][r] \o <<"add">>
  BY <1>2
<1> QED BY <1>1, <1>3

(* A peer that is only removed is sent one REMOVE.                           *)
LEMMA SendRemove ==
  ASSUME NEW p \in Peers, NEW c \in Network,
         NEW dropped, NEW adds, NEW removes,
         NEW r \in Peers, r \notin dropped, r \notin adds, r \in removes
  PROVE  Send(p, c, dropped, adds, removes)[p][r] = c[p][r] \o <<"remove">>
<1>1. Send(p, c, dropped, adds, removes)[p][r] = c[p][r] \o <<>> \o <<>> \o <<"remove">>
  BY DEF Send, Network
<1>2. c[p][r] \in Seq(Requests)
  BY DEF Network
<1>3. c[p][r] \o <<>> \o <<>> \o <<"remove">> = c[p][r] \o <<"remove">>
  BY <1>2
<1> QED BY <1>1, <1>3

(* A peer that is neither dropped, added nor removed is sent nothing.        *)
LEMMA SendNothing ==
  ASSUME NEW p \in Peers, NEW c \in Network,
         NEW dropped, NEW adds, NEW removes,
         NEW r \in Peers, r \notin dropped, r \notin adds, r \notin removes
  PROVE  Send(p, c, dropped, adds, removes)[p][r] = c[p][r]
<1>1. Send(p, c, dropped, adds, removes)[p][r] =
              c[p][r] \o (IF r \in dropped THEN <<"remove">> ELSE <<>>)
                      \o (IF r \in adds THEN <<"add">> ELSE <<>>)
                      \o (IF r \in removes THEN <<"remove">> ELSE <<>>)
  BY DEF Send, Network
<1>2. c[p][r] \in Seq(Requests)
  BY DEF Network
<1>3. c[p][r] \o <<>> \o <<>> \o <<>> = c[p][r]
  BY <1>2
<1> QED BY <1>1, <1>3

(* Send keeps the network well typed.                                        *)
LEMMA SendTyped ==
  ASSUME NEW p \in Peers, NEW c \in Network,
         NEW dropped, NEW adds, NEW removes
  PROVE  Send(p, c, dropped, adds, removes) \in Network
<1> DEFINE Row == [q \in Peers |->
              c[p][q] \o (IF q \in dropped THEN <<"remove">> ELSE <<>>)
                      \o (IF q \in adds THEN <<"add">> ELSE <<>>)
                      \o (IF q \in removes THEN <<"remove">> ELSE <<>>)]
<1>1. <<"remove">> \in Seq(Requests) /\ <<"add">> \in Seq(Requests) /\ <<>> \in Seq(Requests)
  BY DEF Requests
<1>2. Row \in [Peers -> Seq(Requests)]
  <2>1. SUFFICES ASSUME NEW q \in Peers PROVE Row[q] \in Seq(Requests)
    OBVIOUS
  <2>2. c[p][q] \in Seq(Requests)
    BY DEF Network
  <2>3. \A s, t \in Seq(Requests) : s \o t \in Seq(Requests)
    OBVIOUS
  <2> QED BY <1>1, <2>2, <2>3
<1>3. Send(p, c, dropped, adds, removes) = [c EXCEPT ![p] = Row]
  BY DEF Send, Network
<1> QED BY <1>2, <1>3 DEF Network

(* Taking the oldest message leaves the rest of its channel and all others.  *)
LEMMA TakenApplied ==
  ASSUME TypeOK, NEW p \in Peers, NEW q \in Peers, chan[q][p] # <<>>
  PROVE  /\ Taken(p, q) \in Network
         /\ \A x \in Peers, y \in Peers :
              Taken(p, q)[x][y] = IF x = q /\ y = p THEN Tail(chan[x][y]) ELSE chan[x][y]
<1>1. chan[q][p] \in Seq(Requests) /\ Tail(chan[q][p]) \in Seq(Requests)
  BY DEF TypeOK
<1>2. Taken(p, q) = [chan EXCEPT ![q] = [chan[q] EXCEPT ![p] = Tail(chan[q][p])]]
  BY DEF Taken, TypeOK
<1> QED BY <1>1, <1>2, SMTT(30) DEF TypeOK, Network

(* A selection only takes old neighbours and peers of the view.              *)
LEMMA SelectionIsKnown ==
  ASSUME NEW old, NEW view, NEW sel \in SUBSET (old \union view)
  PROVE  ToAdd(old, view, sel) = sel \ old
BY DEF ToAdd

\* A selection of p with the sets it came from named.
Selection(p, c, dropped, view, sel) ==
  LET old == Old(p, dropped)
  IN  /\ dropped \in Dropped(p)
      /\ view \in SUBSET (Peers \ ({p} \union dropped))
      /\ sel \in SUBSET (old \union view)
      /\ MaySelect(Own, old, view, sel)
      /\ nbr' = [nbr EXCEPT ![p] =
                   IF topo_out THEN ((@ \ dropped) \union (sel \ old)) \ (old \ sel)
                              ELSE @ \ dropped]
      /\ chan' = Send(p, c, dropped, IF topo_in THEN sel \ old ELSE {},
                                     IF topo_in THEN old \ sel ELSE {})
      /\ saved' = [saved EXCEPT ![p] = SavedAfter(p, sel)]
      /\ UNCHANGED options

(* The sets exist; the metadata of whoever is added is always in the view.   *)
LEMMA ReselectSelects ==
  ASSUME NEW p \in Peers, NEW c, Reselect(p, c)
  PROVE  \E dropped, view, sel : Selection(p, c, dropped, view, sel)
<1>1. PICK dropped \in Dropped(p) :
        \E view \in SUBSET (Peers \ ({p} \union dropped)) :
          \E sel \in SUBSET (Old(p, dropped) \union view) :
            /\ MaySelect(Own, Old(p, dropped), view, sel)
            /\ nbr' = [nbr EXCEPT ![p] =
                  IF topo_out THEN ((@ \ dropped) \union ToAdd(Old(p, dropped), view, sel))
                                    \ ToRemove(Old(p, dropped), sel)
                             ELSE @ \ dropped]
            /\ chan' = Send(p, c, dropped,
                  IF topo_in THEN ToAdd(Old(p, dropped), view, sel) ELSE {},
                  IF topo_in THEN ToRemove(Old(p, dropped), sel) ELSE {})
            /\ saved' = [saved EXCEPT ![p] = SavedAfter(p, sel)]
            /\ UNCHANGED options
  BY DEF Reselect
<1>2. PICK view \in SUBSET (Peers \ ({p} \union dropped)) :
        \E sel \in SUBSET (Old(p, dropped) \union view) :
          /\ MaySelect(Own, Old(p, dropped), view, sel)
          /\ nbr' = [nbr EXCEPT ![p] =
                IF topo_out THEN ((@ \ dropped) \union ToAdd(Old(p, dropped), view, sel))
                                  \ ToRemove(Old(p, dropped), sel)
                           ELSE @ \ dropped]
          /\ chan' = Send(p, c, dropped,
                IF topo_in THEN ToAdd(Old(p, dropped), view, sel) ELSE {},
                IF topo_in THEN ToRemove(Old(p, dropped), sel) ELSE {})
          /\ saved' = [saved EXCEPT ![p] = SavedAfter(p, sel)]
          /\ UNCHANGED options
  BY <1>1
<1>3. PICK sel \in SUBSET (Old(p, dropped) \union view) :
        /\ MaySelect(Own, Old(p, dropped), view, sel)
        /\ nbr' = [nbr EXCEPT ![p] =
              IF topo_out THEN ((@ \ dropped) \union ToAdd(Old(p, dropped), view, sel))
                                \ ToRemove(Old(p, dropped), sel)
                         ELSE @ \ dropped]
        /\ chan' = Send(p, c, dropped,
              IF topo_in THEN ToAdd(Old(p, dropped), view, sel) ELSE {},
              IF topo_in THEN ToRemove(Old(p, dropped), sel) ELSE {})
        /\ saved' = [saved EXCEPT ![p] = SavedAfter(p, sel)]
        /\ UNCHANGED options
  BY <1>2
<1>4. ToAdd(Old(p, dropped), view, sel) = sel \ Old(p, dropped)
  BY SelectionIsKnown
<1>5. ToRemove(Old(p, dropped), sel) = Old(p, dropped) \ sel
  BY DEF ToRemove
<1>6. Selection(p, c, dropped, view, sel)
  BY <1>3, <1>4, <1>5 DEF Selection
<1> QED BY <1>6

\* What TypeOK says of the options.
OptionsOK ==
  /\ topo_out \in BOOLEAN /\ topo_in \in BOOLEAN /\ silent \in BOOLEAN
  /\ topo_out \/ topo_in

(* The options of the command line never change.                             *)
LEMMA OptionsStep == [Next]_vars => UNCHANGED options
<1>1. ASSUME NEW p \in Peers, NEW c, Reselect(p, c) PROVE UNCHANGED options
  <2>1. PICK dropped, view, sel : Selection(p, c, dropped, view, sel)
    BY <1>1, ReselectSelects
  <2> QED BY <2>1 DEF Selection
<1>2. ASSUME NEW p \in Peers, Tick(p) \/ ReceiveGossip(p) PROVE UNCHANGED options
  BY <1>1, <1>2 DEF Tick, ReceiveGossip
<1>3. ASSUME NEW p \in Peers, NEW q \in Peers,
             ReceiveAdd(p, q) \/ ReceiveRemove(p, q) \/ IgnoreRequest(p, q)
      PROVE  UNCHANGED options
  BY <1>1, <1>3 DEF ReceiveAdd, ReceiveRemove, IgnoreRequest
<1>4. UNCHANGED vars => UNCHANGED options
  BY DEF vars
<1> QED BY <1>2, <1>3, <1>4 DEF Next

(* update_peers keeps the types: peersets, savedids and messages of peers.   *)
LEMMA TypeStep == TypeOK /\ [Next]_vars => TypeOK'
<1> SUFFICES ASSUME TypeOK, [Next]_vars PROVE TypeOK'
  OBVIOUS
<1>c. chan \in Network /\ \A x \in Peers : chan[x][x] = <<>>
  BY DEF TypeOK, Network
<1>p. UNCHANGED options
  BY OptionsStep
<1>o. UNCHANGED options => OptionsOK'
  BY DEF options, OptionsOK, TypeOK
<1>d. \A p \in Peers : \A dropped \in Dropped(p) : dropped \in SUBSET Peers /\ p \notin dropped
  BY DEF Dropped, TypeOK
<1>s. ASSUME NEW p \in Peers, NEW c \in Network,
             \A x \in Peers : c[x][x] = <<>>, Reselect(p, c)
      PROVE  TypeOK'
  <2>1. PICK dropped, view, sel : Selection(p, c, dropped, view, sel)
    BY <1>s, ReselectSelects
  <2>2. sel \in SUBSET Peers /\ p \notin sel /\ Old(p, dropped) \in SUBSET Peers /\ p \notin Old(p, dropped)
    BY <2>1 DEF Selection, Old, TypeOK
  <2>3. /\ chan' \in Network
        /\ \A x \in Peers : chan'[x][x] = <<>>
    <3>1. chan' = Send(p, c, dropped, IF topo_in THEN sel \ Old(p, dropped) ELSE {},
                                      IF topo_in THEN Old(p, dropped) \ sel ELSE {})
      BY <2>1 DEF Selection
    <3>2. p \notin dropped /\ dropped \in SUBSET Peers
      BY <2>1, <1>d DEF Selection
    <3> DEFINE adds == IF topo_in THEN sel \ Old(p, dropped) ELSE {}
               removes == IF topo_in THEN Old(p, dropped) \ sel ELSE {}
    <3>3. /\ p \notin adds /\ p \notin removes
          /\ adds \in SUBSET Peers /\ removes \in SUBSET Peers
      BY <2>2
    <3> HIDE DEF adds, removes
    <3>4. chan' = Send(p, c, dropped, adds, removes)
      BY <3>1 DEF adds, removes
    <3>5. chan'[p][p] = c[p][p]
      BY <3>2, <3>3, <3>4, SendNothing
    <3>6. \A x \in Peers : x # p => chan'[x] = c[x]
      BY <3>2, <3>3, <3>4, SendOthers
    <3> QED BY <3>2, <3>3, <3>4, <3>5, <3>6, <1>s, SendTyped
  <2>4. nbr' \in [Peers -> SUBSET Peers] /\ \A x \in Peers : x \notin nbr'[x]
    BY <2>1, <2>2 DEF Selection, TypeOK
  <2>5. /\ saved' \in [Peers -> SUBSET Peers]
        /\ \A x \in Peers : x \notin saved'[x]
        /\ topo_out => \A x \in Peers : saved'[x] = {}
    BY <2>1, <2>2 DEF Selection, TypeOK, SavedAfter
  <2>6. UNCHANGED options
    BY <2>1 DEF Selection
  <2> QED BY <2>3, <2>4, <2>5, <2>6, <1>o DEF TypeOK, Network, OptionsOK, options
<1>r. ASSUME NEW p \in Peers, NEW c \in Network,
             \A x \in Peers : c[x][x] = <<>>,
             NEW dropped \in Dropped(p), chan' = Send(p, c, dropped, {}, {})
      PROVE  /\ chan' \in Network
             /\ \A x \in Peers : chan'[x][x] = <<>>
  <2> DEFINE none == {}
  <2>0. /\ dropped \in SUBSET Peers /\ p \notin dropped
        /\ none \in SUBSET Peers /\ p \notin none
        /\ chan' = Send(p, c, dropped, none, none)
    BY <1>r, <1>d
  <2> HIDE DEF none
  <2>1. chan'[p][p] = c[p][p]
    BY <2>0, SendNothing
  <2>2. \A x \in Peers : x # p => chan'[x] = c[x]
    BY <2>0, SendOthers
  <2>3. chan' \in Network
    BY <2>0, SendTyped
  <2> QED BY <1>r, <2>1, <2>2, <2>3
<1>t. ASSUME NEW p \in Peers, NEW q \in Peers, chan[q][p] # <<>>
      PROVE  /\ Taken(p, q) \in Network
             /\ \A x \in Peers : Taken(p, q)[x][x] = <<>>
             /\ p # q
  <2>1. p # q
    BY <1>t, <1>c
  <2>2. \A x \in Peers : Taken(p, q)[x][x] = chan[x][x]
    BY <2>1, <1>t, TakenApplied
  <2> QED BY <2>1, <2>2, <1>t, <1>c, TakenApplied
<1>1. ASSUME NEW p \in Peers, Tick(p) PROVE TypeOK'
  <2>1. PICK dropped \in Dropped(p) :
          /\ nbr' = [nbr EXCEPT ![p] = nbr[p] \ dropped]
          /\ chan' = Send(p, chan, dropped, {}, {})
    BY <1>1 DEF Tick
  <2>2. saved' = saved
    BY <1>1 DEF Tick
  <2>3. /\ chan' \in Network
        /\ \A x \in Peers : chan'[x][x] = <<>>
    BY <2>1, <1>c, <1>r
  <2>4. nbr' \in [Peers -> SUBSET Peers] /\ \A x \in Peers : x \notin nbr'[x]
    BY <2>1 DEF TypeOK
  <2> QED BY <2>2, <2>3, <2>4, <1>o, <1>p DEF TypeOK, Network, OptionsOK, options
<1>2. ASSUME NEW p \in Peers, ReceiveGossip(p) PROVE TypeOK'
  BY <1>2, <1>s, <1>c DEF ReceiveGossip
<1>3. ASSUME NEW p \in Peers, NEW q \in Peers, ReceiveAdd(p, q) PROVE TypeOK'
  <2>1. PICK dropped \in Dropped(p) :
          /\ nbr' = [nbr EXCEPT ![p] = (nbr[p] \ dropped) \union {q}]
          /\ chan' = Send(p, Taken(p, q), dropped, {}, {})
    BY <1>3 DEF ReceiveAdd, TypeOK
  <2>2. saved' = saved /\ chan[q][p] # <<>>
    BY <1>3 DEF ReceiveAdd
  <2>3. /\ chan' \in Network
        /\ \A x \in Peers : chan'[x][x] = <<>>
    BY <2>1, <2>2, <1>r, <1>t
  <2>4. nbr' \in [Peers -> SUBSET Peers] /\ \A x \in Peers : x \notin nbr'[x]
    BY <2>1, <2>2, <1>t DEF TypeOK
  <2> QED BY <2>2, <2>3, <2>4, <1>o, <1>p DEF TypeOK, Network, OptionsOK, options
<1>4. ASSUME NEW p \in Peers, NEW q \in Peers, ReceiveRemove(p, q) PROVE TypeOK'
  <2>1. PICK dropped \in Dropped(p) :
          /\ nbr' = [nbr EXCEPT ![p] = (nbr[p] \ dropped) \ {q}]
          /\ chan' = Send(p, Taken(p, q), dropped, {}, {})
    BY <1>4 DEF ReceiveRemove, TypeOK
  <2>2. saved' = saved /\ chan[q][p] # <<>>
    BY <1>4 DEF ReceiveRemove
  <2>3. /\ chan' \in Network
        /\ \A x \in Peers : chan'[x][x] = <<>>
    BY <2>1, <2>2, <1>r, <1>t
  <2>4. nbr' \in [Peers -> SUBSET Peers] /\ \A x \in Peers : x \notin nbr'[x]
    BY <2>1, <2>2, <1>t DEF TypeOK
  <2> QED BY <2>2, <2>3, <2>4, <1>o, <1>p DEF TypeOK, Network, OptionsOK, options
<1>5. ASSUME NEW p \in Peers, NEW q \in Peers, IgnoreRequest(p, q) PROVE TypeOK'
  BY <1>5, <1>s, <1>t DEF IgnoreRequest
<1>6. CASE UNCHANGED vars
  BY <1>6 DEF vars, options, TypeOK
<1> QED BY <1>1, <1>2, <1>3, <1>4, <1>5, <1>6 DEF Next

(* TypeOK holds of every reachable state of update_peers' overlay.           *)
THEOREM TypeCorrect == Spec => []TypeOK
<1>1. Init => TypeOK
  BY DEF Init, TypeOK
<1> QED BY <1>1, TypeStep, PTL DEF Spec

-----------------------------------------------------------------------------
\* What q will think of p's wish once p's messages have arrived: the newest
\* one decides, or what has already arrived when there is none.
Settled(p, q) ==
  LET s == chan[p][q]
  IN  IF s = <<>> THEN p \in nbr[q] <=> q \in saved[p]
                  ELSE s[Len(s)] = "add" <=> q \in saved[p]

\* The inductive invariant behind InLinksAgree.
LinksInv ==
  /\ TypeOK
  /\ ~topo_out /\ ~silent => \A p, q \in Peers : Settled(p, q)

(* The newest message of a channel after one has been put behind it, and     *)
(* after the oldest one has been taken (send_topo_msg, update_peers).        *)
LEMMA NewestMessage ==
  ASSUME NEW s \in Seq(Requests)
  PROVE  /\ \A r \in Requests : s \o <<r>> # <<>> /\ (s \o <<r>>)[Len(s \o <<r>>)] = r
         /\ s # <<>> /\ Tail(s) # <<>> => Tail(s)[Len(Tail(s))] = s[Len(s)]
         /\ s # <<>> /\ Tail(s) = <<>> => Head(s) = s[Len(s)]
<1>1. ASSUME NEW r \in Requests PROVE s \o <<r>> # <<>> /\ (s \o <<r>>)[Len(s \o <<r>>)] = r
  <2>1. Len(s \o <<r>>) = Len(s) + 1 /\ Len(s) \in Nat
    OBVIOUS
  <2> QED BY <2>1
<1>2. ASSUME s # <<>>
      PROVE  /\ Len(s) \in Nat \ {0} /\ Head(s) = s[1] /\ Len(Tail(s)) = Len(s) - 1
             /\ Tail(s) \in Seq(Requests)
             /\ \A i \in 1 .. Len(s) - 1 : Tail(s)[i] = s[i + 1]
  BY <1>2
<1>e. \A t \in Seq(Requests) : t = <<>> <=> Len(t) = 0
  OBVIOUS
<1>3. ASSUME s # <<>>, Tail(s) # <<>> PROVE Tail(s)[Len(Tail(s))] = s[Len(s)]
  <2>2. Len(Tail(s)) # 0
    BY <1>2, <1>3, <1>e
  <2> QED BY <1>2, <1>3, <2>2
<1>4. ASSUME s # <<>>, Tail(s) = <<>> PROVE Head(s) = s[Len(s)]
  <2>1. Len(Tail(s)) = 0
    BY <1>2, <1>4, <1>e
  <2> QED BY <1>2, <1>4, <2>1
<1> QED BY <1>1, <1>3, <1>4

(* In topo_in mode, where nobody falls silent, every step of update_peers    *)
(* keeps the newest message of every channel true to savedids.               *)
LEMMA LinksStep ==
  ASSUME ~topo_out, ~silent, LinksInv, [Next]_vars
  PROVE  \A p, q \in Peers : Settled(p, q)'
<1>c. TypeOK /\ chan \in Network /\ \A x \in Peers : chan[x][x] = <<>>
  BY DEF LinksInv, TypeOK, Network
<1>n. chan \in Network
  BY <1>c
<1>i. \A p, q \in Peers : Settled(p, q)
  BY DEF LinksInv
<1>m. topo_in
  BY DEF LinksInv, TypeOK
<1>d. \A p \in Peers : Dropped(p) = {{}}
  BY DEF Dropped
<1>1. ASSUME NEW p \in Peers, Tick(p) PROVE UNCHANGED <<nbr, saved>> /\ \A x, y \in Peers : chan'[x][y] = chan[x][y]
  <2>1. /\ nbr' = [nbr EXCEPT ![p] = nbr[p] \ {}] /\ saved' = saved
        /\ chan' = Send(p, chan, {}, {}, {})
    BY <1>1, <1>d DEF Tick
  <2>2. nbr' = nbr
    BY <2>1, <1>c DEF TypeOK
  <2> DEFINE none == {}
  <2>3. chan' = Send(p, chan, none, none, none)
    BY <2>1
  <2>4. \A y \in Peers : y \notin none
    OBVIOUS
  <2> HIDE DEF none
  <2>5. \A y \in Peers : chan'[p][y] = chan[p][y]
    BY <2>3, <2>4, <1>n, SendNothing
  <2>6. \A x \in Peers : x # p => chan'[x] = chan[x]
    BY <2>3, <1>n, SendOthers
  <2> QED BY <2>1, <2>2, <2>5, <2>6
<1>t. ASSUME NEW p \in Peers, NEW q \in Peers, chan[q][p] # <<>>,
             chan' = Send(p, Taken(p, q), {}, {}, {})
      PROVE  \A x, y \in Peers :
               chan'[x][y] = IF x = q /\ y = p THEN Tail(chan[x][y]) ELSE chan[x][y]
  <2>1. Taken(p, q) \in Network
    BY <1>t, <1>c, TakenApplied
  <2> DEFINE none == {}
             c == Taken(p, q)
  <2>2. chan' = Send(p, c, none, none, none)
    BY <1>t
  <2>0. \A y \in Peers : y \notin none
    OBVIOUS
  <2>3. c \in Network
    BY <2>1
  <2> HIDE DEF none, c
  <2>4. \A x \in Peers : x # p => chan'[x] = c[x]
    BY <2>2, <2>3, SendOthers
  <2>5. \A y \in Peers : chan'[p][y] = c[p][y]
    BY <2>2, <2>0, <2>3, SendNothing
  <2>6. \A x, y \in Peers : chan'[x][y] = c[x][y]
    BY <2>4, <2>5
  <2> QED BY <2>6, <1>t, <1>c, TakenApplied DEF c
<1>2. ASSUME NEW p \in Peers, NEW q \in Peers, ReceiveAdd(p, q)
      PROVE  \A x, y \in Peers : Settled(x, y)'
  <2>1. /\ chan[q][p] # <<>> /\ Head(chan[q][p]) = "add" /\ saved' = saved
        /\ nbr' = [nbr EXCEPT ![p] = (nbr[p] \ {}) \union {q}]
        /\ chan' = Send(p, Taken(p, q), {}, {}, {})
    BY <1>2, <1>d DEF ReceiveAdd
  <2>2. \A x, y \in Peers : chan'[x][y] = IF x = q /\ y = p THEN Tail(chan[x][y]) ELSE chan[x][y]
    BY <2>1, <1>t
  <2>3. \A x, y \in Peers : x \in nbr'[y] <=> (x \in nbr[y] \/ (x = q /\ y = p))
    BY <2>1, <1>c DEF TypeOK
  <2>4. ASSUME NEW x \in Peers, NEW y \in Peers, ~(x = q /\ y = p) PROVE Settled(x, y)'
    BY <2>1, <2>2, <2>3, <2>4, <1>i DEF Settled
  <2>5. Settled(q, p)'
    <3>1. chan[q][p] \in Seq(Requests) /\ chan'[q][p] = Tail(chan[q][p]) /\ q \in nbr'[p]
      BY <1>n, <2>2, <2>3 DEF Network
    <3>2. chan[q][p][Len(chan[q][p])] = "add" <=> p \in saved[q]
      BY <2>1, <1>i DEF Settled
    <3>3. CASE Tail(chan[q][p]) = <<>>
      BY <3>1, <3>2, <3>3, <2>1, NewestMessage DEF Settled
    <3>4. CASE Tail(chan[q][p]) # <<>>
      BY <3>1, <3>2, <3>4, <2>1, NewestMessage DEF Settled
    <3> QED BY <3>3, <3>4
  <2> QED BY <2>4, <2>5
<1>3. ASSUME NEW p \in Peers, NEW q \in Peers, ReceiveRemove(p, q)
      PROVE  \A x, y \in Peers : Settled(x, y)'
  <2>1. /\ chan[q][p] # <<>> /\ Head(chan[q][p]) = "remove" /\ saved' = saved
        /\ nbr' = [nbr EXCEPT ![p] = (nbr[p] \ {}) \ {q}]
        /\ chan' = Send(p, Taken(p, q), {}, {}, {})
    BY <1>3, <1>d DEF ReceiveRemove
  <2>2. \A x, y \in Peers : chan'[x][y] = IF x = q /\ y = p THEN Tail(chan[x][y]) ELSE chan[x][y]
    BY <2>1, <1>t
  <2>3. \A x, y \in Peers : x \in nbr'[y] <=> (x \in nbr[y] /\ ~(x = q /\ y = p))
    BY <2>1, <1>c DEF TypeOK
  <2>4. ASSUME NEW x \in Peers, NEW y \in Peers, ~(x = q /\ y = p) PROVE Settled(x, y)'
    BY <2>1, <2>2, <2>3, <2>4, <1>i DEF Settled
  <2>5. Settled(q, p)'
    <3>1. chan[q][p] \in Seq(Requests) /\ chan'[q][p] = Tail(chan[q][p]) /\ q \notin nbr'[p]
      BY <1>n, <2>2, <2>3 DEF Network
    <3>2. chan[q][p][Len(chan[q][p])] = "add" <=> p \in saved[q]
      BY <2>1, <1>i DEF Settled
    <3>3. CASE Tail(chan[q][p]) = <<>>
      BY <3>1, <3>2, <3>3, <2>1, NewestMessage DEF Settled
    <3>4. CASE Tail(chan[q][p]) # <<>>
      BY <3>1, <3>2, <3>4, <2>1, NewestMessage DEF Settled
    <3> QED BY <3>3, <3>4
  <2> QED BY <2>4, <2>5
<1>4. ASSUME NEW p \in Peers, ReceiveGossip(p)
      PROVE  \A x, y \in Peers : Settled(x, y)'
  <2>1. PICK dropped, view, sel : Selection(p, chan, dropped, view, sel)
    BY <1>4, ReselectSelects DEF ReceiveGossip
  <2> DEFINE adds == sel \ saved[p]
             removes == saved[p] \ sel
             none == {}
  <2>2. /\ nbr' = [nbr EXCEPT ![p] = nbr[p] \ {}]
        /\ saved' = [saved EXCEPT ![p] = sel]
    BY <2>1, <1>d, <1>m DEF Selection, Old, SavedAfter
  <2>s. chan' = Send(p, chan, none, adds, removes)
    BY <2>1, <1>d, <1>m DEF Selection, Old
  <2>3. nbr' = nbr
    BY <2>2, <1>c DEF TypeOK
  <2>4. \A y \in Peers : y \notin none
    OBVIOUS
  <2>5. /\ \A x \in Peers : x # p => saved'[x] = saved[x]
        /\ saved'[p] = sel
    BY <2>2, <1>c DEF TypeOK
  <2>6. \A y \in Peers : y \in adds <=> (y \in sel /\ y \notin saved[p])
    OBVIOUS
  <2>7. \A y \in Peers : y \in removes <=> (y \notin sel /\ y \in saved[p])
    OBVIOUS
  <2> HIDE DEF adds, removes, none
  <2>o. \A x \in Peers : x # p => chan'[x] = chan[x]
    BY <2>s, <1>n, SendOthers
  <2>8. ASSUME NEW x \in Peers, NEW y \in Peers, x # p PROVE Settled(x, y)'
    <3>1. chan'[x] = chan[x]
      BY <2>o, <2>8
    <3> QED BY <3>1, <2>3, <2>5, <2>8, <1>i DEF Settled
  <2>9. ASSUME NEW y \in Peers PROVE Settled(p, y)'
    <3>0. chan[p][y] \in Seq(Requests)
      BY <1>n DEF Network
    <3>1. CASE y \in adds
      <4>0. y \notin none /\ y \notin removes
        BY <2>4, <2>6, <2>7, <3>1
      <4>1. chan'[p][y] = chan[p][y] \o <<"add">>
        BY <2>s, <4>0, <3>1, <1>n, SendAdd
      <4>2. chan'[p][y] # <<>> /\ chan'[p][y][Len(chan'[p][y])] = "add"
        BY <4>1, <3>0, NewestMessage DEF Requests
      <4> QED BY <4>2, <2>5, <2>6, <3>1 DEF Settled
    <3>2. CASE y \in removes
      <4>0. y \notin none /\ y \notin adds
        BY <2>4, <2>6, <2>7, <3>2
      <4>1. chan'[p][y] = chan[p][y] \o <<"remove">>
        BY <2>s, <4>0, <3>2, <1>n, SendRemove
      <4>2. chan'[p][y] # <<>> /\ chan'[p][y][Len(chan'[p][y])] = "remove"
        BY <4>1, <3>0, NewestMessage DEF Requests
      <4> QED BY <4>2, <2>5, <2>7, <3>2 DEF Settled
    <3>3. CASE y \notin adds /\ y \notin removes
      <4>0. y \notin none
        BY <2>4
      <4>1. chan'[p][y] = chan[p][y]
        BY <2>s, <4>0, <3>3, <1>n, SendNothing
      <4> QED BY <4>1, <2>3, <2>5, <2>6, <2>7, <3>3, <1>i DEF Settled
    <3> QED BY <3>1, <3>2, <3>3
  <2> QED BY <2>8, <2>9
<1>5. ASSUME NEW p \in Peers, NEW q \in Peers PROVE ~IgnoreRequest(p, q)
  BY <1>m DEF IgnoreRequest
<1>6. CASE UNCHANGED vars
  BY <1>6, <1>i DEF vars, options, Settled
<1>7. ASSUME NEW p \in Peers, Tick(p) PROVE \A x, y \in Peers : Settled(x, y)'
  BY <1>1, <1>7, <1>i DEF Settled
<1> QED BY <1>2, <1>3, <1>4, <1>5, <1>6, <1>7 DEF Next

(* Whom a peer asked to push is whom pushes to it, for any number of peers   *)
(* and messages (update_peers with --topo_in).                               *)
THEOREM InLinks == Spec => []InLinksAgree
<1>1. Init => LinksInv
  BY DEF Init, LinksInv, TypeOK, Settled
<1>2. LinksInv /\ [Next]_vars => LinksInv'
  <2> SUFFICES ASSUME LinksInv, [Next]_vars PROVE LinksInv'
    OBVIOUS
  <2>1. topo_out' = topo_out /\ silent' = silent
    BY OptionsStep DEF options
  <2>2. TypeOK'
    BY TypeStep DEF LinksInv
  <2>3. ASSUME ~topo_out, ~silent PROVE \A p, q \in Peers : Settled(p, q)'
    BY <2>3, LinksStep
  <2> QED BY <2>1, <2>2, <2>3 DEF LinksInv
<1>3. LinksInv => InLinksAgree
  BY DEF LinksInv, Settled, InLinksAgree
<1> QED BY <1>1, <1>2, <1>3, PTL DEF Spec

-----------------------------------------------------------------------------
(* Percentages in C's integer arithmetic: monotone, and never more than the  *)
(* whole (keep_size and desired_part of update_peers).                       *)
LEMMA Percentages ==
  /\ \A m \in 0 .. 100, n \in Nat : (m * n) \div 100 \in Nat /\ (m * n) \div 100 <= n
  /\ \A m \in 0 .. 100, a, b \in Nat : a <= b => (m * a) \div 100 <= (m * b) \div 100
<1>1. ASSUME NEW m \in 0 .. 100, NEW n \in Nat PROVE m * n \in Nat /\ m * n <= 100 * n
  <2>1. 100 * n = m * n + (100 - m) * n
    OBVIOUS
  <2>2. m * n \in Nat /\ (100 - m) * n \in Nat
    <3>1. \A i, j \in Nat : i * j \in Nat
      OBVIOUS
    <3> QED BY <3>1
  <2> QED BY <2>1, <2>2
<1>2. ASSUME NEW m \in 0 .. 100, NEW a \in Nat, NEW b \in Nat, a <= b PROVE m * a <= m * b
  <2>1. m * b = m * a + m * (b - a)
    OBVIOUS
  <2>2. m * a \in Nat /\ m * (b - a) \in Nat /\ m * b \in Nat
    <3>1. \A i, j \in Nat : i * j \in Nat
      OBVIOUS
    <3>2. b - a \in Nat /\ m \in Nat
      BY <1>2
    <3> QED BY <3>1, <3>2
  <2> QED BY <2>1, <2>2
<1>3. \A x, y \in Nat : x <= y => x \div 100 <= y \div 100
  OBVIOUS
<1>4. \A x \in Nat : x \div 100 \in Nat /\ (100 * x) \div 100 = x
  OBVIOUS
<1>5. ASSUME NEW m \in 0 .. 100, NEW n \in Nat PROVE (m * n) \div 100 \in Nat /\ (m * n) \div 100 <= n
  <2>1. 100 * n \in Nat
    OBVIOUS
  <2> QED BY <1>1, <1>3, <1>4, <2>1
<1>6. ASSUME NEW m \in 0 .. 100, NEW a \in Nat, NEW b \in Nat, a <= b
      PROVE  (m * a) \div 100 <= (m * b) \div 100
  BY <1>1, <1>2, <1>3, <1>6
<1> QED BY <1>5, <1>6

\* The overlay's own options.
LEMMA OwnFact ==
  /\ Own \in SizeOptions /\ Own.target = Target
  /\ Own.mem = TopoMem /\ Own.alpha = AlphaTarget
BY TargetAssumption, PercentAssumption DEF Own, SizeOptions

(* The three rounds of a selection together stay within the target, or are   *)
(* the kept ones alone.                                                      *)
LEMMA SelectionSize ==
  ASSUME NEW o \in SizeOptions, NEW old, NEW view, NEW sel,
         IsFiniteSet(old), IsFiniteSet(view), MaySelect(o, old, view, sel), o.target # 0
  PROVE  LET kept == Keep(o, Cardinality(old))
         IN  Cardinality(sel) <= IF kept > o.target THEN kept ELSE o.target
<1>o. o.target \in Nat /\ o.mem \in 0 .. 100 /\ o.alpha \in 0 .. 100
  BY DEF SizeOptions
<1> DEFINE k == Keep(o, Cardinality(old))
<1>1. PICK kept \in OfSize(old, k) :
        \E wanted \in SUBSET ((old \union view) \ kept) :
          /\ Cardinality(wanted) <= DesiredPart(o, Cardinality(kept))
          /\ \E rest \in OfSize(((old \union view) \ kept) \ wanted,
                 RestSize(o, Cardinality(kept), Cardinality(wanted),
                          Cardinality(((old \union view) \ kept) \ wanted))) :
               sel = kept \union wanted \union rest
  BY DEF MaySelect
<1>2. PICK wanted \in SUBSET ((old \union view) \ kept) :
          /\ Cardinality(wanted) <= DesiredPart(o, Cardinality(kept))
          /\ \E rest \in OfSize(((old \union view) \ kept) \ wanted,
                 RestSize(o, Cardinality(kept), Cardinality(wanted),
                          Cardinality(((old \union view) \ kept) \ wanted))) :
               sel = kept \union wanted \union rest
  BY <1>1
<1> DEFINE others == ((old \union view) \ kept) \ wanted
<1>3. PICK rest \in OfSize(others, RestSize(o, Cardinality(kept), Cardinality(wanted), Cardinality(others))) :
               sel = kept \union wanted \union rest
  BY <1>2
<1> HIDE DEF others
<1>4. /\ kept \subseteq old /\ Cardinality(kept) = k
      /\ rest \subseteq others
      /\ Cardinality(rest) = RestSize(o, Cardinality(kept), Cardinality(wanted), Cardinality(others))
      /\ wanted \subseteq old \union view
  BY <1>1, <1>2, <1>3 DEF OfSize
<1>5. IsFiniteSet(old \union view) /\ others \subseteq old \union view
  BY FS_Union DEF others
<1>6. IsFiniteSet(kept) /\ IsFiniteSet(wanted) /\ IsFiniteSet(rest) /\ IsFiniteSet(others)
  BY <1>4, <1>5, FS_Subset
<1>7. /\ Cardinality(kept) \in Nat /\ Cardinality(wanted) \in Nat
      /\ Cardinality(rest) \in Nat /\ Cardinality(others) \in Nat
  BY <1>6, FS_CardinalityType
<1>8. IsFiniteSet(kept \union wanted) /\ Cardinality(kept \union wanted) \in Nat
  BY <1>6, FS_Union, FS_CardinalityType
<1>9. /\ Cardinality(kept \union wanted) <= Cardinality(kept) + Cardinality(wanted)
      /\ Cardinality(sel) <= Cardinality(kept \union wanted) + Cardinality(rest)
      /\ Cardinality(sel) \in Nat
  <2>1. Cardinality(kept \union wanted) =
          Cardinality(kept) + Cardinality(wanted) - Cardinality(kept \intersect wanted)
    BY <1>6, FS_Union
  <2>2. Cardinality(sel) = Cardinality(kept \union wanted) + Cardinality(rest)
                             - Cardinality((kept \union wanted) \intersect rest)
    BY <1>3, <1>6, <1>8, FS_Union
  <2>3. Cardinality(kept \intersect wanted) \in Nat /\ Cardinality((kept \union wanted) \intersect rest) \in Nat
    BY <1>6, <1>8, FS_Intersection, FS_CardinalityType
  <2>4. IsFiniteSet(sel)
    BY <1>3, <1>6, <1>8, FS_Union
  <2>5. Cardinality(sel) \in Nat
    BY <2>4, FS_CardinalityType
  <2> QED BY <2>1, <2>2, <2>3, <2>5, <1>7, <1>8
<1> HIDE DEF k
<1>10. Room(o, k) \in Nat /\ (k <= o.target => k + Room(o, k) = o.target) /\ (k > o.target => Room(o, k) = 0)
  BY <1>4, <1>7, <1>o DEF Room
<1>11. Cardinality(wanted) <= Room(o, k)
  <2>1. 100 - o.alpha \in 0 .. 100
    BY <1>o
  <2>2. DesiredPart(o, k) <= Room(o, k) /\ DesiredPart(o, k) \in Nat
    BY <2>1, <1>10, Percentages DEF DesiredPart
  <2> QED BY <2>2, <1>2, <1>4, <1>7, <1>10
<1>12. Cardinality(rest) <= Room(o, k + Cardinality(wanted))
  BY <1>4, <1>7, <1>o DEF RestSize, Room
<1>13. ASSUME k > o.target PROVE Cardinality(sel) <= k
  <2>1. Cardinality(wanted) = 0 /\ Room(o, k + Cardinality(wanted)) = 0
    BY <1>4, <1>7, <1>10, <1>11, <1>13, <1>o DEF Room
  <2> QED BY <2>1, <1>4, <1>7, <1>8, <1>9, <1>12
<1>14. ASSUME k <= o.target PROVE Cardinality(sel) <= o.target
  <2>1. Room(o, k + Cardinality(wanted)) = o.target - (k + Cardinality(wanted))
    BY <1>4, <1>7, <1>10, <1>11, <1>14, <1>o DEF Room
  <2> QED BY <2>1, <1>4, <1>7, <1>8, <1>9, <1>12, <1>o
<1>15. Cardinality(sel) <= IF k > o.target THEN k ELSE o.target
  BY <1>4, <1>7, <1>13, <1>14, <1>o
<1> QED BY <1>15 DEF k

(* The peers p chose are, after a selection, exactly the selected ones.      *)
LEMMA SelectionIsChosen ==
  ASSUME TypeOK, NEW p \in Peers, NEW c, NEW dropped, NEW view, NEW sel,
         Selection(p, c, dropped, view, sel)
  PROVE  /\ Chosen(p)' = sel
         /\ \A x \in Peers : x # p => Chosen(x)' = Chosen(x)
         /\ Old(p, dropped) \subseteq Chosen(p)
         /\ sel \subseteq Peers /\ Chosen(p) \subseteq Peers /\ view \subseteq Peers
<1>1. CASE topo_out
  <2>1. nbr' = [nbr EXCEPT ![p] =
             ((nbr[p] \ dropped) \union (sel \ (nbr[p] \ dropped))) \ ((nbr[p] \ dropped) \ sel)]
    BY <1>1 DEF Selection, Old
  <2>2. nbr'[p] = sel /\ \A x \in Peers : x # p => nbr'[x] = nbr[x]
    BY <2>1 DEF TypeOK
  <2> QED BY <1>1, <2>2 DEF Selection, Old, Chosen, TypeOK, options
<1>2. CASE ~topo_out
  <2>1. saved'[p] = sel /\ \A x \in Peers : x # p => saved'[x] = saved[x]
    BY <1>2 DEF Selection, SavedAfter, TypeOK
  <2> QED BY <1>2, <2>1 DEF Selection, Old, Chosen, TypeOK, options
<1> QED BY <1>1, <1>2

(* The size of what p chose after a selection, in terms of what it had       *)
(* chosen before (update_peers).                                             *)
LEMMA ReselectSize ==
  ASSUME TypeOK, NEW p \in Peers, NEW c, Reselect(p, c), Target # 0
  PROVE  /\ LET kept == Keep(Own, Cardinality(Chosen(p)))
             IN  Cardinality(Chosen(p)') <= IF kept > Target THEN kept ELSE Target
         /\ \A x \in Peers : x # p => Chosen(x)' = Chosen(x)
<1>1. PICK dropped, view, sel : Selection(p, c, dropped, view, sel)
  BY ReselectSelects
<1>2. /\ Chosen(p)' = sel
      /\ \A x \in Peers : x # p => Chosen(x)' = Chosen(x)
      /\ Old(p, dropped) \subseteq Chosen(p)
      /\ sel \subseteq Peers /\ Chosen(p) \subseteq Peers /\ view \subseteq Peers
  BY <1>1, SelectionIsChosen
<1> DEFINE old == Old(p, dropped)
           a == Cardinality(old)
           b == Cardinality(Chosen(p))
<1>3. IsFiniteSet(Chosen(p)) /\ IsFiniteSet(old) /\ IsFiniteSet(view) /\ IsFiniteSet(sel)
  BY <1>2, PeersAssumption, FS_Subset
<1>4. a \in Nat /\ b \in Nat /\ a <= b /\ Cardinality(sel) \in Nat
  BY <1>2, <1>3, FS_Subset, FS_CardinalityType
<1>5. MaySelect(Own, old, view, sel)
  BY <1>1 DEF Selection
<1>6. Cardinality(sel) <= IF Keep(Own, a) > Target THEN Keep(Own, a) ELSE Target
  BY <1>3, <1>5, SelectionSize, OwnFact
<1> HIDE DEF a, b, old
<1>7. Keep(Own, a) \in Nat /\ Keep(Own, b) \in Nat /\ Keep(Own, a) <= Keep(Own, b)
  BY <1>4, Percentages, PercentAssumption, OwnFact, SMTT(30) DEF Keep
<1>8. Cardinality(sel) <= IF Keep(Own, b) > Target THEN Keep(Own, b) ELSE Target
  BY <1>4, <1>6, <1>7, TargetAssumption
<1> QED BY <1>2, <1>8 DEF b

(* A selection drains an overcrowded neighbourhood, for any number of peers, *)
(* target and percentages (update_peers).                                    *)
THEOREM Drains == Spec => SelectionDrains
<1>1. ASSUME TypeOK, Target # 0, NEW p \in Peers, ReceiveGossip(p)
      PROVE  LET kept == Keep(Own, Cardinality(Chosen(p)))
             IN  Cardinality(Chosen(p)') <= IF kept > Target THEN kept ELSE Target
  BY <1>1, ReselectSize DEF ReceiveGossip
<1>2. TypeOK /\ [Next]_vars =>
        [Target # 0 => \A p \in Peers : ReceiveGossip(p) =>
           LET kept == Keep(Own, Cardinality(Chosen(p)))
           IN  Cardinality(Chosen(p)') <= IF kept > Target THEN kept ELSE Target]_vars
  BY <1>1
<1> QED BY <1>2, TypeCorrect, PTL DEF Spec, SelectionDrains

(* Nobody ever chooses more than NEIGHBORHOOD_TARGET_SIZE peers where only   *)
(* the peer itself chooses (update_peers with --topo_out or --topo_in).      *)
THEOREM WithinTarget == Spec => []ChosenWithinTarget
<1> DEFINE Inv == TypeOK /\ ChosenWithinTarget
<1>1. Init => Inv
  <2>1. Init => TypeOK
    BY DEF Init, TypeOK
  <2>2. Init => \A p \in Peers : Chosen(p) = {}
    BY DEF Init, Chosen
  <2> QED BY <2>1, <2>2, FS_EmptySet, TargetAssumption DEF ChosenWithinTarget
<1>2. Inv /\ [Next]_vars => Inv'
  <2> SUFFICES ASSUME TypeOK, ChosenWithinTarget, [Next]_vars, Target # 0, ~(topo_in /\ topo_out)
               PROVE  \A x \in Peers : Cardinality(Chosen(x)') <= Target
    BY TypeStep, OptionsStep DEF ChosenWithinTarget, options
  <2>0. /\ \A x \in Peers : Cardinality(Chosen(x)) <= Target
        /\ \A x \in Peers : IsFiniteSet(Chosen(x)) /\ Cardinality(Chosen(x)) \in Nat
    <3>1. \A x \in Peers : Chosen(x) \subseteq Peers
      BY DEF TypeOK, Chosen
    <3> QED BY <3>1, PeersAssumption, FS_Subset, FS_CardinalityType DEF ChosenWithinTarget
  <2>s. ASSUME NEW p \in Peers, NEW c, Reselect(p, c)
        PROVE  \A x \in Peers : Cardinality(Chosen(x)') <= Target
    <3>1. /\ LET kept == Keep(Own, Cardinality(Chosen(p)))
              IN  Cardinality(Chosen(p)') <= IF kept > Target THEN kept ELSE Target
          /\ \A x \in Peers : x # p => Chosen(x)' = Chosen(x)
      BY <2>s, ReselectSize
    <3>2. Keep(Own, Cardinality(Chosen(p))) <= Cardinality(Chosen(p)) /\ Keep(Own, Cardinality(Chosen(p))) \in Nat
      BY <2>0, Percentages, PercentAssumption, OwnFact DEF Keep
    <3>3. Cardinality(Chosen(p)') <= Target
      BY <3>1, <3>2, <2>0, TargetAssumption
    <3> QED BY <3>1, <3>3, <2>0
  <2>d. ASSUME \A x \in Peers : Chosen(x)' \subseteq Chosen(x)
        PROVE  \A x \in Peers : Cardinality(Chosen(x)') <= Target
    <3> SUFFICES ASSUME NEW x \in Peers PROVE Cardinality(Chosen(x)') <= Target
      OBVIOUS
    <3>1. IsFiniteSet(Chosen(x)') /\ Cardinality(Chosen(x)') <= Cardinality(Chosen(x))
      BY <2>d, <2>0, FS_Subset
    <3>2. Cardinality(Chosen(x)') \in Nat
      BY <3>1, FS_CardinalityType
    <3> QED BY <3>1, <3>2, <2>0, TargetAssumption
  <2>1. ASSUME NEW p \in Peers, Tick(p) PROVE \A x \in Peers : Chosen(x)' \subseteq Chosen(x)
    BY <2>1 DEF Tick, Chosen, TypeOK, options
  <2>2. ASSUME NEW p \in Peers, NEW q \in Peers, ReceiveAdd(p, q) \/ ReceiveRemove(p, q)
        PROVE  \A x \in Peers : Chosen(x)' \subseteq Chosen(x)
    BY <2>2 DEF ReceiveAdd, ReceiveRemove, Chosen, options
  <2>3. ASSUME UNCHANGED vars PROVE \A x \in Peers : Chosen(x)' \subseteq Chosen(x)
    BY <2>3 DEF vars, options, Chosen
  <2>4. ASSUME NEW p \in Peers, ReceiveGossip(p)
        PROVE  \A x \in Peers : Cardinality(Chosen(x)') <= Target
    BY <2>4, <2>s DEF ReceiveGossip
  <2>5. ASSUME NEW p \in Peers, NEW q \in Peers, IgnoreRequest(p, q)
        PROVE  \A x \in Peers : Cardinality(Chosen(x)') <= Target
    BY <2>5, <2>s DEF IgnoreRequest
  <2>6. ASSUME NEW p \in Peers, Tick(p)
        PROVE  \A x \in Peers : Cardinality(Chosen(x)') <= Target
    BY <2>6, <2>1, <2>d
  <2>7. ASSUME NEW p \in Peers, NEW q \in Peers, ReceiveAdd(p, q) \/ ReceiveRemove(p, q)
        PROVE  \A x \in Peers : Cardinality(Chosen(x)') <= Target
    BY <2>7, <2>2, <2>d
  <2>8. UNCHANGED vars => \A x \in Peers : Cardinality(Chosen(x)') <= Target
    BY <2>3, <2>d
  <2>9. Next \/ UNCHANGED vars
    OBVIOUS
  <2> QED BY <2>4, <2>5, <2>6, <2>7, <2>8, <2>9 DEF Next
<1>3. Inv => ChosenWithinTarget
  OBVIOUS
<1> QED BY <1>1, <1>2, <1>3, PTL DEF Spec

-----------------------------------------------------------------------------
(* The arrays of update_peers hold ids without a repetition: each is one of  *)
(* the listings of a set, and each operation makes listings of them.         *)

\* How many the first n numbers are.
LEMMA Count ==
  ASSUME NEW n \in Nat
  PROVE  IsFiniteSet(1 .. n) /\ Cardinality(1 .. n) = n
<1>1. /\ IsFiniteSet(1 .. n)
      /\ Cardinality(1 .. n) = IF 1 > n THEN 0 ELSE n - 1 + 1
  BY FS_Interval
<1> QED
  BY <1>1

\* A listing of a finite set has each of its elements, once.
LEMMA Listing ==
  ASSUME NEW S, IsFiniteSet(S), NEW s \in SetToSeqs(S)
  PROVE  /\ Len(s) = Cardinality(S) /\ Len(s) \in Nat
         /\ s \in [1 .. Len(s) -> S] /\ s \in Seq(S)
         /\ \A i, j \in 1 .. Len(s) : s[i] = s[j] => i = j
         /\ \A x \in S : \E i \in 1 .. Len(s) : s[i] = x
         /\ ToSet(s) = S
<1> DEFINE n == Cardinality(S)
<1>1. n \in Nat
  BY FS_CardinalityType
<1>2. s \in [1 .. n -> S] /\ \A i, j \in 1 .. n : s[i] = s[j] => i = j
  BY DEF SetToSeqs
<1> HIDE DEF n
<1>3. s \in Seq(S) /\ Len(s) = n
  BY <1>1, <1>2
<1>4. s \in Injection(1 .. n, S)
  BY <1>2 DEF Injection, IsInjective
<1>5. s \in Surjection(1 .. n, S)
  BY <1>1, <1>4, Count, FS_Injection DEF n
<1>6. \A x \in S : \E i \in 1 .. n : s[i] = x
  BY <1>5 DEF Surjection
<1>7. ToSet(s) = S
  BY <1>2, <1>6 DEF ToSet
<1> QED
  BY <1>1, <1>2, <1>3, <1>6, <1>7 DEF n

\* What has each element of a set once lists it.
LEMMA IsListing ==
  ASSUME NEW n \in Nat, NEW S, NEW s \in [1 .. n -> S],
         \A i, j \in 1 .. n : s[i] = s[j] => i = j,
         \A x \in S : \E i \in 1 .. n : s[i] = x
  PROVE  IsFiniteSet(S) /\ Cardinality(S) = n /\ s \in SetToSeqs(S)
<1>1. s \in Bijection(1 .. n, S)
  BY DEF Bijection, Injection, Surjection, IsInjective
<1>2. IsFiniteSet(S) /\ Cardinality(S) = n
  BY <1>1, Count, FS_Bijection DEF ExistsBijection
<1> QED
  BY <1>2 DEF SetToSeqs

\* Every finite set has a listing; the gossip layer returns one.
LEMMA ListingExists ==
  ASSUME NEW S, IsFiniteSet(S)
  PROVE  SetToSeq(S) \in SetToSeqs(S)
<1>1. PICK f \in Bijection(1 .. Cardinality(S), S) : TRUE
  BY FS_CardinalityType DEF ExistsBijection
<1>2. f \in [1 .. Cardinality(S) -> S] /\ IsInjective(f)
  BY <1>1 DEF Bijection, Injection
<1>3. SetToSeq(S) \in [1 .. Cardinality(S) -> S] /\ IsInjective(SetToSeq(S))
  BY <1>2 DEF SetToSeq
<1> QED
  BY <1>3 DEF SetToSeqs, IsInjective

\* The i-th smallest of a set of positions: each is one of them, each once.
LEMMA NthFact ==
  ASSUME NEW n \in Nat, NEW K \in SUBSET (1 .. n)
  PROVE  /\ IsFiniteSet(K) /\ Cardinality(K) \in Nat
         /\ \A i \in 1 .. Cardinality(K) :
              Nth(K, i) \in K /\ Cardinality({j \in K : j <= Nth(K, i)}) = i
         /\ \A k \in K : \E i \in 1 .. Cardinality(K) : Nth(K, i) = k
<1> DEFINE Upto(k) == {j \in K : j <= k}
           Rank == [k \in K |-> Cardinality(Upto(k))]
<1>1. IsFiniteSet(K) /\ Cardinality(K) \in Nat
  BY Count, FS_Subset, FS_CardinalityType
<1>2. ASSUME NEW k \in K
      PROVE  IsFiniteSet(Upto(k)) /\ Cardinality(Upto(k)) \in 1 .. Cardinality(K)
  <2>1. IsFiniteSet(Upto(k)) /\ Cardinality(Upto(k)) <= Cardinality(K)
    BY <1>1, FS_Subset
  <2>2. k \in Upto(k)
    OBVIOUS
  <2>3. Cardinality(Upto(k)) \in Nat /\ Cardinality(Upto(k)) # 0
    BY <2>1, <2>2, FS_CardinalityType, FS_EmptySet
  <2> QED
    BY <1>1, <2>1, <2>3
<1>3. ASSUME NEW k \in K, NEW l \in K, k < l
      PROVE  Cardinality(Upto(k)) < Cardinality(Upto(l))
  <2>0. \A j \in K : j \in Nat
    OBVIOUS
  <2>1. Upto(k) \in SUBSET Upto(l) /\ l \in Upto(l) /\ l \notin Upto(k)
    <3>1. \A j \in K : j <= k => j <= l
      BY <1>3, <2>0
    <3>2. l <= l /\ ~(l <= k)
      BY <1>3, <2>0
    <3> QED
      BY <3>1, <3>2, Zenon
  <2>2. /\ Cardinality(Upto(k)) <= Cardinality(Upto(l))
        /\ Cardinality(Upto(l)) # Cardinality(Upto(k))
    BY <1>2, <2>1, FS_Subset
  <2> QED
    BY <1>2, <2>2
<1>4. Rank \in [K -> 1 .. Cardinality(K)] /\ \A k, l \in K : Rank[k] = Rank[l] => k = l
  <2>1. \A k \in K : Rank[k] = Cardinality(Upto(k))
    OBVIOUS
  <2>2. \A k, l \in K : k < l \/ l < k \/ k = l
    OBVIOUS
  <2>3. \A k \in K : Cardinality(Upto(k)) \in 1 .. Cardinality(K)
    BY <1>2
  <2>4. \A k, l \in K : k < l => Cardinality(Upto(k)) < Cardinality(Upto(l))
    BY <1>3
  <2> HIDE DEF Upto
  <2>5. \A k, l \in K : Rank[k] = Rank[l] => k = l
    BY <1>1, <2>1, <2>2, <2>3, <2>4
  <2> QED
    BY <2>3, <2>5
<1>5. Rank \in Injection(K, 1 .. Cardinality(K))
  BY <1>4 DEF Injection, IsInjective
<1>6. Rank \in Surjection(K, 1 .. Cardinality(K))
  BY <1>1, <1>5, Count, FS_Injection
<1>7. \A i \in 1 .. Cardinality(K) : \E k \in K : Cardinality(Upto(k)) = i
  BY <1>6 DEF Surjection
<1>8. \A i \in 1 .. Cardinality(K) : Nth(K, i) \in K /\ Cardinality(Upto(Nth(K, i))) = i
  BY <1>7 DEF Nth
<1>9. ASSUME NEW k \in K PROVE \E i \in 1 .. Cardinality(K) : Nth(K, i) = k
  <2> DEFINE i == Cardinality(Upto(k))
             l == Nth(K, i)
  <2>1. i \in 1 .. Cardinality(K) /\ Rank[k] = i
    BY <1>2
  <2>2. l \in K /\ Rank[l] = i
    BY <1>8, <2>1
  <2>3. l = k
    BY <1>4, <2>1, <2>2
  <2> QED
    BY <2>1, <2>3
<1> QED
  BY <1>1, <1>8, <1>9

\* What is kept of a listing is in its order, from the first on.
LEMMA NthFirst ==
  ASSUME NEW n \in Nat, NEW K \in SUBSET (1 .. n), NEW d \in Nat, 1 .. d \subseteq K
  PROVE  d <= Cardinality(K) /\ \A i \in 1 .. d : Nth(K, i) = i
<1>1. IsFiniteSet(K) /\ Cardinality(K) \in Nat
  BY NthFact
<1>2. d <= Cardinality(K)
  BY <1>1, Count, FS_Subset
<1>3. ASSUME NEW i \in 1 .. d PROVE Nth(K, i) = i
  <2>1. PICK l \in 1 .. Cardinality(K) : Nth(K, l) = i
    BY NthFact
  <2>2. Cardinality({j \in K : j <= i}) = l
    BY <2>1, NthFact
  <2>3. {j \in K : j <= i} = 1 .. i /\ i \in Nat
    <3>1. \A j \in 1 .. i : j \in K /\ j <= i
      OBVIOUS
    <3>2. \A j \in K : j <= i => j \in 1 .. i
      OBVIOUS
    <3>3. {j \in K : j <= i} = 1 .. i
      BY <3>1, <3>2, Zenon
    <3> QED
      BY <3>3
  <2> QED
    BY <2>1, <2>2, <2>3, Count
<1> QED
  BY <1>2, <1>3

\* What is kept of a listing lists what stood there.
LEMMA KeptListing ==
  ASSUME NEW S, IsFiniteSet(S), NEW s \in SetToSeqs(S), NEW K \in SUBSET (1 .. Len(s))
  PROVE  /\ IsFiniteSet({s[k] : k \in K})
         /\ Cardinality({s[k] : k \in K}) = Cardinality(K)
         /\ Kept(s, K) \in SetToSeqs({s[k] : k \in K})
<1> DEFINE T == {s[k] : k \in K}
           t == Kept(s, K)
           n == Cardinality(K)
<1>1. Len(s) \in Nat /\ n \in Nat
  BY Listing, NthFact
<1>2. \A i \in 1 .. n : Nth(K, i) \in K /\ Cardinality({j \in K : j <= Nth(K, i)}) = i
  BY <1>1, NthFact
<1>3. \A k \in K : \E i \in 1 .. n : Nth(K, i) = k
  BY <1>1, NthFact
<1>4. \A i, j \in 1 .. n : Nth(K, i) = Nth(K, j) => i = j
  BY <1>2, Zenon
<1>5. t \in [1 .. n -> T] /\ \A i \in 1 .. n : t[i] = s[Nth(K, i)]
  BY <1>2 DEF Kept
<1>6. \A i, j \in 1 .. n : t[i] = t[j] => i = j
  <2> SUFFICES ASSUME NEW i \in 1 .. n, NEW j \in 1 .. n, t[i] = t[j] PROVE i = j
    OBVIOUS
  <2>1. Nth(K, i) \in 1 .. Len(s) /\ Nth(K, j) \in 1 .. Len(s)
    BY <1>2
  <2>2. s[Nth(K, i)] = s[Nth(K, j)]
    BY <1>5
  <2> QED
    BY <1>4, <2>1, <2>2, Listing, SMTT(30)
<1>7. \A x \in T : \E i \in 1 .. n : t[i] = x
  BY <1>3, <1>5
<1> HIDE DEF T, t, n
<1>8. IsFiniteSet(T) /\ Cardinality(T) = n /\ t \in SetToSeqs(T)
  BY <1>1, <1>5, <1>6, <1>7, IsListing
<1> QED
  BY <1>8 DEF T, t, n

\* The ids of a listing that are in a set, in their order.
LEMMA ThoseListing ==
  ASSUME NEW S, IsFiniteSet(S), NEW s \in SetToSeqs(S), NEW T
  PROVE  /\ IsFiniteSet(S \intersect T)
         /\ Those(s, T) \in SetToSeqs(S \intersect T)
<1> DEFINE K == {k \in DOMAIN s : s[k] \in T}
<1>1. K \in SUBSET (1 .. Len(s))
  BY Listing
<1>2. {s[k] : k \in K} = S \intersect T
  BY Listing DEF ToSet
<1>3. Those(s, T) = Kept(s, K)
  BY DEF Those
<1> HIDE DEF K
<1> QED
  BY <1>1, <1>2, <1>3, KeptListing

\* A prefix of a listing lists a part of the set, and all of it when the
\* listing fits.
LEMMA FirstListing ==
  ASSUME NEW S, IsFiniteSet(S), NEW s \in SetToSeqs(S), NEW n \in Nat
  PROVE  /\ ToSet(First(s, n)) \in SUBSET S
         /\ IsFiniteSet(ToSet(First(s, n)))
         /\ Cardinality(ToSet(First(s, n))) = IF n < Cardinality(S) THEN n ELSE Cardinality(S)
         /\ First(s, n) \in SetToSeqs(ToSet(First(s, n)))
         /\ Cardinality(S) <= n => First(s, n) = s
         /\ \A i \in 1 .. Len(First(s, n)) : First(s, n)[i] = s[i]
<1> DEFINE m == IF n < Len(s) THEN n ELSE Len(s)
           t == First(s, n)
<1>1. s \in Seq(S) /\ Len(s) \in Nat /\ Len(s) = Cardinality(S) /\ m \in 0 .. Len(s)
  BY Listing
<1>2. Min({n, Len(s)}) = m
  BY <1>1 DEF Min
<1>3. t = [i \in 1 .. m |-> s[i]]
  <2>1. t = SubSeq(s, 1, m)
    BY <1>2 DEF First
  <2> HIDE DEF m
  <2> QED
    BY <1>1, <2>1
<1>4. m = Len(s) => t = s
  BY <1>3, Listing
<1> HIDE DEF m, t
<1>5. /\ t \in [1 .. m -> ToSet(t)] /\ t \in Seq(ToSet(t)) /\ Len(t) = m
      /\ \A x \in ToSet(t) : \E i \in 1 .. m : t[i] = x
  BY <1>1, <1>3 DEF ToSet
<1>6. \A i, j \in 1 .. m : t[i] = t[j] => i = j
  BY <1>1, <1>3, Listing
<1>7. ToSet(t) \in SUBSET S
  BY <1>1, <1>3, Listing DEF ToSet
<1>8. IsFiniteSet(ToSet(t)) /\ Cardinality(ToSet(t)) = m /\ t \in SetToSeqs(ToSet(t))
  <2>1. m \in Nat
    BY <1>1
  <2> QED
    BY <2>1, <1>5, <1>6, IsListing
<1> QED
  BY <1>1, <1>3, <1>4, <1>5, <1>7, <1>8 DEF m, t

\* Where the entries of a concatenation come from.
LEMMA ConcatFact ==
  ASSUME NEW S, NEW s \in Seq(S), NEW t \in Seq(S)
  PROVE  /\ s \o t \in [1 .. Len(s) + Len(t) -> S]
         /\ \A i \in 1 .. Len(s) + Len(t) :
              (s \o t)[i] = IF i <= Len(s) THEN s[i] ELSE t[i - Len(s)]
<1>1. s \o t \in Seq(S) /\ Len(s \o t) = Len(s) + Len(t)
  OBVIOUS
<1>2. s \o t \in [1 .. Len(s) + Len(t) -> S]
  BY <1>1, LenProperties
<1>3. \A i \in 1 .. Len(s) + Len(t) :
        (s \o t)[i] = IF i <= Len(s) THEN s[i] ELSE t[i - Len(s)]
  OBVIOUS
<1> QED
  BY <1>2, <1>3

\* Two listings of disjoint sets, one behind the other.
LEMMA ConcatListing ==
  ASSUME NEW S, IsFiniteSet(S), NEW s \in SetToSeqs(S),
         NEW T, IsFiniteSet(T), NEW t \in SetToSeqs(T), S \intersect T = {}
  PROVE  /\ IsFiniteSet(S \union T)
         /\ Cardinality(S \union T) = Cardinality(S) + Cardinality(T)
         /\ s \o t \in SetToSeqs(S \union T)
<1> DEFINE m == Len(s)
           n == Len(t)
           u == s \o t
<1>1. /\ m \in Nat /\ m = Cardinality(S) /\ s \in [1 .. m -> S] /\ s \in Seq(S)
      /\ \A i, j \in 1 .. m : s[i] = s[j] => i = j
      /\ \A x \in S : \E i \in 1 .. m : s[i] = x
  BY Listing
<1>2. /\ n \in Nat /\ n = Cardinality(T) /\ t \in [1 .. n -> T] /\ t \in Seq(T)
      /\ \A i, j \in 1 .. n : t[i] = t[j] => i = j
      /\ \A x \in T : \E i \in 1 .. n : t[i] = x
  BY Listing
<1>3. /\ u \in [1 .. m + n -> S \union T]
      /\ \A i \in 1 .. m + n : u[i] = IF i <= m THEN s[i] ELSE t[i - m]
  <2>1. s \in Seq(S \union T) /\ t \in Seq(S \union T)
    BY <1>1, <1>2
  <2> QED
    BY <2>1, ConcatFact
<1> HIDE DEF m, n, u
<1>4. m + n \in Nat
  BY <1>1, <1>2
<1>5. ASSUME NEW i \in 1 .. m + n
      PROVE  \/ i \in 1 .. m /\ u[i] = s[i] /\ u[i] \in S
             \/ i - m \in 1 .. n /\ u[i] = t[i - m] /\ u[i] \in T
  <2>1. CASE i <= m
    BY <1>1, <1>2, <1>3, <2>1
  <2>2. CASE ~(i <= m)
    <3>1. i - m \in 1 .. n /\ u[i] = t[i - m]
      BY <1>1, <1>2, <1>3, <2>2
    <3> QED
      BY <1>2, <3>1
  <2> QED
    BY <2>1, <2>2
<1>7. ASSUME NEW i \in 1 .. m + n, NEW j \in 1 .. m + n, u[i] = u[j] PROVE i = j
  <2>1. CASE i \in 1 .. m /\ u[i] = s[i] /\ u[i] \in S
    <3>1. j \in 1 .. m /\ u[j] = s[j]
      BY <1>5, <1>7, <2>1
    <3> QED
      BY <1>1, <1>7, <2>1, <3>1
  <2>2. CASE i - m \in 1 .. n /\ u[i] = t[i - m] /\ u[i] \in T
    <3>1. j - m \in 1 .. n /\ u[j] = t[j - m]
      BY <1>5, <1>7, <2>2
    <3>2. i - m = j - m
      BY <1>2, <1>7, <2>2, <3>1
    <3> QED
      BY <1>1, <3>2
  <2> QED
    BY <1>5, <2>1, <2>2
<1>8. ASSUME NEW x \in S \union T PROVE \E i \in 1 .. m + n : u[i] = x
  <2>1. CASE x \in S
    <3>1. PICK i \in 1 .. m : s[i] = x
      BY <1>1, <2>1
    <3>2. i \in 1 .. m + n /\ u[i] = s[i]
      BY <1>1, <1>2, <1>3
    <3> QED
      BY <3>1, <3>2
  <2>2. CASE x \in T
    <3>1. PICK i \in 1 .. n : t[i] = x
      BY <1>2, <2>2
    <3>2. m + i \in 1 .. m + n /\ ~(m + i <= m) /\ (m + i) - m = i
      BY <1>1, <1>2
    <3>3. u[m + i] = t[i]
      BY <1>3, <3>2
    <3> QED
      BY <3>1, <3>2, <3>3
  <2> QED
    BY <2>1, <2>2
<1>9. IsFiniteSet(S \union T) /\ Cardinality(S \union T) = m + n /\ u \in SetToSeqs(S \union T)
  BY <1>3, <1>4, <1>7, <1>8, IsListing
<1> QED
  BY <1>1, <1>2, <1>9 DEF u

\* Some ranking has the elements of B first.
LEMMA RankedFirst ==
  ASSUME NEW S, IsFiniteSet(S), NEW B \in SUBSET S
  PROVE  \E s \in SetToSeqs(S) : \E b \in SetToSeqs(B) :
           \A i \in 1 .. Cardinality(B) : s[i] = b[i]
<1> DEFINE C == S \ B
           b == SetToSeq(B)
           c == SetToSeq(C)
<1>1. IsFiniteSet(B) /\ IsFiniteSet(C)
  BY FS_Subset
<1>3. B \intersect C = {} /\ B \union C = S
  OBVIOUS
<1> HIDE DEF C
<1>2. b \in SetToSeqs(B) /\ c \in SetToSeqs(C)
  BY <1>1, ListingExists
<1> HIDE DEF b, c
<1>4. b \o c \in SetToSeqs(B \union C)
  BY <1>1, <1>2, <1>3, ConcatListing
<1>5. \A i \in 1 .. Cardinality(B) : (b \o c)[i] = b[i]
  <2>1. /\ b \in Seq(S) /\ Len(b) = Cardinality(B) /\ Len(b) \in Nat
        /\ c \in Seq(S) /\ Len(c) \in Nat
    <3>1. B \subseteq S /\ C \subseteq S
      BY <1>3
    <3>2. b \in Seq(B) /\ Len(b) = Cardinality(B) /\ Len(b) \in Nat
      BY <1>1, <1>2, Listing
    <3>3. c \in Seq(C) /\ Len(c) \in Nat
      BY <1>1, <1>2, Listing
    <3> QED
      BY <3>1, <3>2, <3>3
  <2>2. \A i \in 1 .. Len(b) : i \in 1 .. Len(b) + Len(c) /\ i <= Len(b)
    BY <2>1
  <2> QED
    BY <2>1, <2>2, ConcatFact
<1> QED
  BY <1>2, <1>3, <1>4, <1>5

-----------------------------------------------------------------------------
\* nidset_complement, nidset_add, nidset_add_i and nidset_filter do what their
\* names say when the array has room for the result.
LEMMA ComplementListing ==
  ASSUME NEW B \in SUBSET Peers, NEW bs \in SetToSeqs(B), NEW A, NEW as, ToSet(as) = A,
         NEW size \in Nat, Cardinality(B \ A) <= size
  PROVE  IsFiniteSet(B \ A) /\ NidsetComplement(size, bs, as) \in SetToSeqs(B \ A)
<1> DEFINE t == Those(bs, Peers \ A)
<1>1. IsFiniteSet(B) /\ B \intersect (Peers \ A) = B \ A
  BY PeersAssumption, FS_Subset
<1>2. IsFiniteSet(B \ A) /\ t \in SetToSeqs(B \ A)
  BY <1>1, ThoseListing
<1> HIDE DEF t
<1>3. First(t, size) = t
  BY <1>2, FirstListing
<1> QED
  BY <1>2, <1>3 DEF NidsetComplement, t

LEMMA FilterListing ==
  ASSUME NEW B \in SUBSET Peers, NEW bs \in SetToSeqs(B), NEW D,
         NEW size \in Nat, Cardinality(B) <= size
  PROVE  /\ IsFiniteSet(B \intersect D)
         /\ NidsetFilter(size, bs, D) \in SetToSeqs(B \intersect D)
<1>1. IsFiniteSet(B)
  BY PeersAssumption, FS_Subset
<1>2. IsFiniteSet(B \intersect D) /\ Those(bs, D) \in SetToSeqs(B \intersect D)
  BY <1>1, ThoseListing
<1>3. Cardinality(B \intersect D) <= size
  <2>1. Cardinality(B \intersect D) <= Cardinality(B)
    BY <1>1, FS_Subset
  <2> QED
    BY <1>1, <1>2, <2>1, FS_CardinalityType
<1>4. First(Those(bs, D), size) = Those(bs, D)
  BY <1>2, <1>3, FirstListing
<1> QED
  BY <1>2, <1>4 DEF NidsetFilter

LEMMA AddIListing ==
  ASSUME NEW D \in SUBSET Peers, NEW dst \in SetToSeqs(D),
         NEW A \in SUBSET Peers, NEW as \in SetToSeqs(A),
         NEW size \in Nat, Cardinality(D \union A) <= size
  PROVE  NidsetAddI(dst, size, as) \in SetToSeqs(D \union A)
<1>1. IsFiniteSet(D) /\ IsFiniteSet(A) /\ IsFiniteSet(A \ D)
  BY PeersAssumption, FS_Subset
<1>2. Len(dst) = Cardinality(D) /\ Len(dst) \in Nat /\ ToSet(dst) = D
  BY <1>1, Listing
<1>3. D \intersect (A \ D) = {} /\ D \union (A \ D) = D \union A
  OBVIOUS
<1>4. Cardinality(D \union A) = Cardinality(D) + Cardinality(A \ D)
  <2>1. SetToSeq(D) \in SetToSeqs(D) /\ SetToSeq(A \ D) \in SetToSeqs(A \ D)
    BY <1>1, ListingExists
  <2>2. Cardinality(D \union (A \ D)) = Cardinality(D) + Cardinality(A \ D)
    BY <1>1, <1>3, <2>1, ConcatListing
  <2> QED
    BY <1>3, <2>2
<1>5. size - Len(dst) \in Nat /\ Cardinality(A \ D) <= size - Len(dst)
  BY <1>1, <1>2, <1>4, FS_CardinalityType
<1> DEFINE c == NidsetComplement(size - Len(dst), as, dst)
<1>6. c \in SetToSeqs(A \ D)
  BY <1>2, <1>5, ComplementListing
<1> HIDE DEF c
<1>7. dst \o c \in SetToSeqs(D \union (A \ D))
  BY <1>1, <1>3, <1>6, ConcatListing
<1> QED
  BY <1>3, <1>7 DEF NidsetAddI, c

LEMMA AddListing ==
  ASSUME NEW A \in SUBSET Peers, NEW as \in SetToSeqs(A),
         NEW B \in SUBSET Peers, NEW bs \in SetToSeqs(B),
         NEW size \in Nat, Cardinality(A \union B) <= size
  PROVE  NidsetAdd(size, as, bs) \in SetToSeqs(A \union B)
<1>1. IsFiniteSet(A) /\ IsFiniteSet(A \union B)
  BY PeersAssumption, FS_Subset
<1>2. Len(as) = Cardinality(A) /\ Len(as) \in Nat
  BY <1>1, Listing
<1>3. Len(as) <= size
  <2>1. Cardinality(A) <= Cardinality(A \union B) /\ Cardinality(A \union B) \in Nat
    BY <1>1, FS_Subset, FS_CardinalityType
  <2> QED
    BY <1>2, <2>1
<1>4. Min({Len(as), size}) = Len(as)
  BY <1>2, <1>3 DEF Min
<1>5. First(as, Len(as)) = as /\ ~(Len(as) < Len(as))
  <2>1. Cardinality(A) <= Len(as) /\ ~(Len(as) < Len(as))
    BY <1>2
  <2> QED
    BY <2>1, <1>1, <1>2, FirstListing
<1>6. NidsetAdd(size, as, bs) = NidsetAddI(as, size, bs)
  BY <1>4, <1>5 DEF NidsetAdd, NidsetAddI
<1> QED
  BY <1>6, AddIListing

-----------------------------------------------------------------------------
\* The sizes of the three rounds, for any numbers of peers.
LEMMA RoundSizes ==
  ASSUME NEW o \in SizeOptions
  PROVE  /\ \A n \in Nat : Keep(o, n) \in 0 .. n
         /\ \A k \in Nat : DesiredPart(o, k) \in Nat
         /\ \A k, w, m \in Nat : RestSize(o, k, w, m) \in 0 .. m
<1>o. o.target \in Nat /\ o.mem \in 0 .. 100 /\ o.alpha \in 0 .. 100
  BY DEF SizeOptions
<1>1. \A n \in Nat : Room(o, n) \in Nat
  BY <1>o DEF Room
<1>2. \A n \in Nat : Keep(o, n) \in 0 .. n
  BY <1>o, Percentages DEF Keep
<1>3. 100 - o.alpha \in 0 .. 100
  BY <1>o
<1>4. \A k \in Nat : DesiredPart(o, k) \in Nat
  BY <1>1, <1>3, Percentages DEF DesiredPart
<1>5. \A k, w, m \in Nat : RestSize(o, k, w, m) \in 0 .. m
  BY <1>1 DEF RestSize
<1> QED
  BY <1>2, <1>4, <1>5

\* Whom the arrays keep, and whom they take last, from the others in an order.
KeptPeers(o, oldids) == ToSet(First(oldids, Keep(o, Len(oldids))))
RestPeers(o, ranking, K, W, O) ==
  ToSet(First(Those(ranking, O), RestSize(o, Cardinality(K), Cardinality(W), Cardinality(O))))

\* With K kept, W of the desired candidates C are taken, all of them if they fit,
\* and then as many of the others as there shall be, which makes `selecteds'.
Rounded(o, K, C, W, desired, ranking, selecteds) ==
  /\ W \in SUBSET (C \intersect desired)
  /\ Cardinality(W) <= DesiredPart(o, Cardinality(K))
  /\ Cardinality(C \intersect desired) <= DesiredPart(o, Cardinality(K)) => W = C \intersect desired
  /\ RestPeers(o, ranking, K, W, C \ W) \in
       OfSize(C \ W, RestSize(o, Cardinality(K), Cardinality(W), Cardinality(C \ W)))
  /\ selecteds \in SetToSeqs(K \union W \union RestPeers(o, ranking, K, W, C \ W))

(* The three rounds of a selection in the arrays, when they have room for    *)
(* all peers there are.                                                      *)
LEMMA Rounds ==
  ASSUME NEW o \in SizeOptions, NEW old \in SUBSET Peers, NEW view \in SUBSET Peers,
         NEW oldids \in SetToSeqs(old), NEW newids \in SetToSeqs(view),
         NEW desired, NEW r1 \in Rankings, NEW r2 \in Rankings,
         NEW max \in Nat, Cardinality(old \union view) <= max,
         NEW K, K = KeptPeers(o, oldids),
         NEW C, C = (old \union view) \ K
  PROVE  /\ K \in OfSize(old, Keep(o, Cardinality(old)))
         /\ \E W : Rounded(o, K, C, W, desired, r2, Selecteds(o, oldids, newids, desired, r1, r2, max))
<1> DEFINE U          == old \union view
           kept       == First(oldids, Keep(o, Len(oldids)))
           nodeids    == NidsetAdd(max, oldids, newids)
           candidates == NidsetComplement(max, nodeids, kept)
           filtered   == NidsetFilter(max, candidates, desired)
           desireds   == Ranked(filtered, r1)
           wanted     == First(desireds, DesiredPart(o, Len(kept)))
           joined     == NidsetAddI(kept, max, wanted)
           unranked   == NidsetComplement(max, candidates, joined)
           others     == Ranked(unranked, r2)
           rest       == First(others, RestSize(o, Len(kept), Len(joined) - Len(kept), Len(others)))
           selecteds  == NidsetAddI(joined, max, rest)
           W          == ToSet(wanted)
           O          == C \ W
           R          == RestPeers(o, r2, K, W, O)
<1>1. Selecteds(o, oldids, newids, desired, r1, r2, max) = selecteds
  BY DEF Selecteds
<1> HIDE DEF U
<1>2. U \subseteq Peers /\ old \subseteq U /\ view \subseteq U /\ C = U \ K
  BY DEF U
<1>3. \A X \in SUBSET U : /\ X \subseteq Peers /\ IsFiniteSet(X) /\ Cardinality(X) \in Nat
                          /\ Cardinality(X) <= max
  <2> SUFFICES ASSUME NEW X \in SUBSET U
               PROVE  /\ X \subseteq Peers /\ IsFiniteSet(X) /\ Cardinality(X) \in Nat
                      /\ Cardinality(X) <= max
    OBVIOUS
  <2>1. IsFiniteSet(U) /\ X \subseteq Peers /\ IsFiniteSet(X)
    BY <1>2, PeersAssumption, FS_Subset
  <2>2. Cardinality(X) <= Cardinality(U) /\ Cardinality(U) \in Nat /\ Cardinality(X) \in Nat
    BY <2>1, FS_Subset, FS_CardinalityType
  <2> QED
    BY <2>1, <2>2 DEF U
<1>4. /\ K \in SUBSET old /\ K = ToSet(kept) /\ Cardinality(K) = Keep(o, Cardinality(old))
      /\ kept \in SetToSeqs(K)
  <2>1. IsFiniteSet(old) /\ Len(oldids) = Cardinality(old) /\ Len(oldids) \in Nat
    BY <1>2, <1>3, Listing
  <2>2. Keep(o, Len(oldids)) \in 0 .. Len(oldids)
    BY <2>1, RoundSizes
  <2>3. K = ToSet(kept)
    BY DEF KeptPeers
  <2> HIDE DEF kept
  <2>4. /\ ToSet(kept) \in SUBSET old /\ kept \in SetToSeqs(ToSet(kept))
        /\ Cardinality(ToSet(kept)) = Keep(o, Len(oldids))
    BY <2>1, <2>2, FirstListing DEF kept
  <2> QED
    BY <2>1, <2>3, <2>4
<1> HIDE DEF kept
<1>5. K \subseteq U /\ IsFiniteSet(K) /\ Len(kept) = Cardinality(K) /\ Len(kept) \in Nat
  BY <1>2, <1>3, <1>4, Listing
<1>6. nodeids \in SetToSeqs(U)
  BY <1>2, AddListing DEF U
<1> HIDE DEF nodeids
<1>7. C \subseteq U /\ Cardinality(C) <= max /\ candidates \in SetToSeqs(C)
  BY <1>2, <1>3, <1>4, <1>6, ComplementListing
<1> HIDE DEF candidates
<1> DEFINE D == C \intersect desired
<1>8. D \subseteq U /\ IsFiniteSet(D) /\ filtered \in SetToSeqs(D)
  BY <1>2, <1>3, <1>7, FilterListing
<1> HIDE DEF filtered, D
<1>9. desireds \in SetToSeqs(D)
  <2>1. ToSet(filtered) = D /\ Peers \intersect D = D
    BY <1>2, <1>8, Listing
  <2> QED
    BY <2>1, PeersAssumption, ThoseListing DEF Ranked, Rankings
<1> HIDE DEF desireds
<1>10. /\ W \in SUBSET D /\ wanted \in SetToSeqs(W)
       /\ Cardinality(W) <= DesiredPart(o, Cardinality(K))
       /\ Cardinality(D) <= DesiredPart(o, Cardinality(K)) => W = D
  <2>1. DesiredPart(o, Cardinality(K)) \in Nat /\ Cardinality(D) \in Nat
    BY <1>3, <1>5, <1>8, RoundSizes
  <2>2. wanted = First(desireds, DesiredPart(o, Cardinality(K)))
    BY <1>5
  <2>3. ToSet(desireds) = D
    BY <1>8, <1>9, Listing
  <2> HIDE DEF wanted
  <2> QED
    BY <1>8, <1>9, <2>1, <2>2, <2>3, FirstListing
<1> HIDE DEF wanted, W
<1>11. W \subseteq C /\ W \subseteq U /\ K \intersect W = {} /\ O = C \ (K \union W) /\ O \subseteq U
  BY <1>2, <1>7, <1>10 DEF D
<1>12. IsFiniteSet(W) /\ K \union W \subseteq U /\ Cardinality(K \union W) = Cardinality(K) + Cardinality(W)
  <2>1. IsFiniteSet(W) /\ K \union W \subseteq U
    BY <1>3, <1>5, <1>11
  <2>2. wanted \in SetToSeqs(W) /\ kept \in SetToSeqs(K)
    BY <1>4, <1>10
  <2> QED
    BY <1>5, <1>11, <2>1, <2>2, ConcatListing
<1>13. joined \in SetToSeqs(K \union W)
  BY <1>2, <1>3, <1>4, <1>5, <1>10, <1>11, <1>12, AddIListing
<1> HIDE DEF joined
<1>14. Len(joined) - Len(kept) = Cardinality(W) /\ ToSet(joined) = K \union W
  <2>1. IsFiniteSet(K \union W)
    BY <1>3, <1>12
  <2>2. Len(joined) = Cardinality(K \union W) /\ ToSet(joined) = K \union W
    BY <1>13, <2>1, Listing
  <2>3. Cardinality(W) \in Nat
    BY <1>3, <1>11
  <2> QED
    BY <1>5, <1>12, <2>2, <2>3
<1> HIDE DEF O
<1>15. IsFiniteSet(O) /\ Cardinality(O) \in Nat /\ unranked \in SetToSeqs(O)
  <2>1. Cardinality(C \ (K \union W)) <= max /\ C \subseteq Peers
    BY <1>2, <1>3, <1>7, <1>11
  <2>2. unranked \in SetToSeqs(C \ (K \union W))
    BY <1>7, <1>14, <2>1, ComplementListing
  <2> QED
    BY <1>3, <1>11, <2>2
<1> HIDE DEF unranked
<1>16. others = Those(r2, O) /\ others \in SetToSeqs(O)
  <2>1. ToSet(unranked) = O /\ Peers \intersect O = O
    BY <1>2, <1>11, <1>15, Listing
  <2> QED
    BY <2>1, PeersAssumption, ThoseListing DEF Ranked, Rankings
<1> HIDE DEF others
<1> DEFINE n == RestSize(o, Cardinality(K), Cardinality(W), Cardinality(O))
<1>17. R \in OfSize(O, n) /\ rest \in SetToSeqs(R)
  <2>1. n \in 0 .. Cardinality(O)
    BY <1>3, <1>5, <1>11, <1>15, RoundSizes
  <2>2. rest = First(others, n) /\ R = ToSet(rest)
    <3>1. Len(others) = Cardinality(O)
      BY <1>15, <1>16, Listing
    <3>2. rest = First(others, n)
      BY <1>5, <1>14, <3>1
    <3> QED
      BY <1>16, <3>2 DEF RestPeers
  <2> HIDE DEF n, rest, R
  <2>3. R \in SUBSET O /\ rest \in SetToSeqs(R) /\ Cardinality(R) = n
    BY <1>15, <1>16, <2>1, <2>2, FirstListing
  <2> QED
    BY <2>3 DEF OfSize
<1> HIDE DEF rest, R
<1>18. selecteds \in SetToSeqs(K \union W \union R)
  <2>1. R \subseteq U /\ K \union W \union R \subseteq U
    BY <1>11, <1>12, <1>17 DEF OfSize
  <2>2. Cardinality(K \union W \union R) <= max /\ R \subseteq Peers /\ K \union W \subseteq Peers
    BY <1>2, <1>3, <1>12, <2>1
  <2> QED
    BY <1>13, <1>17, <2>2, AddIListing
<1>19. K \in OfSize(old, Keep(o, Cardinality(old)))
  BY <1>4 DEF OfSize
<1> HIDE DEF selecteds
<1>20. Rounded(o, K, C, W, desired, r2, selecteds)
  BY <1>10, <1>17, <1>18 DEF Rounded, D, O, R
<1> QED
  BY <1>1, <1>19, <1>20

\* The arrays have room for all peers there are.
LEMMA RoomForAll ==
  ASSUME NEW old \in SUBSET Peers, NEW view \in SUBSET Peers, NEW unused \in Nat
  PROVE  MaxIds(old, unused, view) \in Nat /\ Cardinality(old \union view) <= MaxIds(old, unused, view)
<1>1. IsFiniteSet(old) /\ IsFiniteSet(view) /\ IsFiniteSet(old \intersect view)
  BY PeersAssumption, FS_Subset
<1>2. /\ Cardinality(old) \in Nat /\ Cardinality(view) \in Nat
      /\ Cardinality(old \intersect view) \in Nat
  BY <1>1, FS_CardinalityType
<1>3. Cardinality(old \union view) =
        Cardinality(old) + Cardinality(view) - Cardinality(old \intersect view)
  BY <1>1, FS_Union
<1> QED
  BY <1>2, <1>3 DEF MaxIds

\* toadds and toremoves name exactly those that are new and those that go.
LEMMA OutcomeFact ==
  ASSUME NEW o \in SizeOptions, NEW old \in SUBSET Peers, NEW view \in SUBSET Peers, NEW sel \in SUBSET (old \union view),
         NEW oldids \in SetToSeqs(old), NEW newids, NEW desired, NEW r1, NEW r2,
         NEW max \in Nat, Cardinality(old \union view) <= max,
         Selecteds(o, oldids, newids, desired, r1, r2, max) \in SetToSeqs(sel)
  PROVE  Outcome(o, oldids, newids, desired, r1, r2, max) =
           <<sel, Cardinality(sel), sel \ old, ToRemove(old, sel)>>
<1> DEFINE s == Selecteds(o, oldids, newids, desired, r1, r2, max)
<1>1. /\ IsFiniteSet(old \union view) /\ IsFiniteSet(old) /\ IsFiniteSet(sel)
      /\ IsFiniteSet(sel \ old) /\ IsFiniteSet(old \ sel) /\ sel \subseteq Peers
  BY PeersAssumption, FS_Subset
<1>2. Cardinality(sel \ old) <= max /\ Cardinality(old \ sel) <= max
  <2>1. /\ Cardinality(sel \ old) <= Cardinality(old \union view)
        /\ Cardinality(old \ sel) <= Cardinality(old \union view)
    BY <1>1, FS_Subset
  <2> QED
    BY <1>1, <2>1, FS_CardinalityType
<1>3. Outcome(o, oldids, newids, desired, r1, r2, max) =
        <<ToSet(s), Len(s), ToSet(ToAdds(s, oldids, max)), ToSet(ToRemoves(s, oldids, max))>>
  BY DEF Outcome
<1> HIDE DEF s
<1>4. s \in SetToSeqs(sel)
  BY DEF s
<1>5. ToSet(s) = sel /\ Len(s) = Cardinality(sel) /\ ToSet(oldids) = old
  BY <1>1, <1>4, Listing
<1>6. ToAdds(s, oldids, max) \in SetToSeqs(sel \ old)
  BY <1>1, <1>2, <1>4, <1>5, ComplementListing DEF ToAdds
<1>7. ToRemoves(s, oldids, max) \in SetToSeqs(old \ sel)
  BY <1>1, <1>2, <1>5, ComplementListing DEF ToRemoves
<1>8. ToSet(ToAdds(s, oldids, max)) = sel \ old /\ ToSet(ToRemoves(s, oldids, max)) = old \ sel
  BY <1>1, <1>6, <1>7, Listing
<1> QED
  BY <1>3, <1>5, <1>8 DEF ToRemove

(* The arrays yield nothing that MaySelect does not allow.                   *)
LEMMA SelectedIsAllowed ==
  ASSUME NEW o \in SizeOptions, NEW old \in SUBSET Peers, NEW view \in SUBSET Peers,
         NEW oldids \in SetToSeqs(old), NEW newids \in SetToSeqs(view),
         NEW desired, NEW r1 \in Rankings, NEW r2 \in Rankings,
         NEW max \in Nat, Cardinality(old \union view) <= max
  PROVE  \E sel \in SUBSET (old \union view) :
           /\ MaySelect(o, old, view, sel)
           /\ Selecteds(o, oldids, newids, desired, r1, r2, max) \in SetToSeqs(sel)
<1> DEFINE K == KeptPeers(o, oldids)
           C == (old \union view) \ K
<1>k. K = KeptPeers(o, oldids) /\ C = (old \union view) \ K
  OBVIOUS
<1> HIDE DEF K, C
<1>1. K \in OfSize(old, Keep(o, Cardinality(old)))
  BY <1>k, Rounds
<1>p. PICK W : Rounded(o, K, C, W, desired, r2, Selecteds(o, oldids, newids, desired, r1, r2, max))
  BY <1>k, Rounds
<1>2. /\ W \subseteq C /\ Cardinality(W) <= DesiredPart(o, Cardinality(K))
      /\ RestPeers(o, r2, K, W, C \ W) \in
           OfSize(C \ W, RestSize(o, Cardinality(K), Cardinality(W), Cardinality(C \ W)))
      /\ Selecteds(o, oldids, newids, desired, r1, r2, max) \in
           SetToSeqs(K \union W \union RestPeers(o, r2, K, W, C \ W))
  BY <1>p DEF Rounded
<1> DEFINE R == RestPeers(o, r2, K, W, C \ W)
           sel == K \union W \union R
<1> HIDE DEF R
<1>3. K \subseteq old /\ W \subseteq C /\ R \subseteq C
  BY <1>1, <1>2 DEF OfSize, R
<1>4. sel \in SUBSET (old \union view)
  BY <1>k, <1>3
<1>5. MaySelect(o, old, view, sel)
  BY <1>k, <1>1, <1>2, <1>3 DEF MaySelect, R
<1> QED
  BY <1>2, <1>4, <1>5 DEF R

\* A listing that begins with a listing of B has B in front.
LEMMA FrontIs ==
  ASSUME NEW S, IsFiniteSet(S), NEW s \in SetToSeqs(S),
         NEW B \in SUBSET S, NEW b \in SetToSeqs(B),
         \A i \in 1 .. Cardinality(B) : s[i] = b[i]
  PROVE  ToSet(First(s, Cardinality(B))) = B
<1> DEFINE n == Cardinality(B)
           t == First(s, n)
<1>1. IsFiniteSet(B) /\ n <= Cardinality(S) /\ n \in Nat /\ Cardinality(S) \in Nat
  BY FS_Subset, FS_CardinalityType
<1>2. Len(b) = n /\ ToSet(b) = B /\ DOMAIN b = 1 .. n
  BY <1>1, Listing
<1> HIDE DEF n
<1>3. /\ IsFiniteSet(ToSet(t)) /\ t \in SetToSeqs(ToSet(t))
      /\ Cardinality(ToSet(t)) = IF n < Cardinality(S) THEN n ELSE Cardinality(S)
      /\ \A i \in 1 .. Len(t) : t[i] = s[i]
  BY <1>1, FirstListing
<1>4. Cardinality(ToSet(t)) = n
  BY <1>1, <1>3
<1> HIDE DEF t
<1>5. Len(t) = n /\ DOMAIN t = 1 .. n
  BY <1>3, <1>4, Listing
<1>6. \A i \in 1 .. n : t[i] = b[i]
  BY <1>3, <1>5 DEF n
<1>7. ToSet(t) = ToSet(b)
  BY <1>2, <1>5, <1>6 DEF ToSet
<1> QED
  BY <1>2, <1>7 DEF n, t

\* So has what is left of it with the elements of a set around B.
LEMMA ThoseFront ==
  ASSUME NEW S, IsFiniteSet(S), NEW s \in SetToSeqs(S),
         NEW O \in SUBSET S, NEW B \in SUBSET O, NEW b \in SetToSeqs(B),
         \A i \in 1 .. Cardinality(B) : s[i] = b[i]
  PROVE  \A i \in 1 .. Cardinality(B) : Those(s, O)[i] = b[i]
<1> DEFINE n == Cardinality(B)
           P == {k \in DOMAIN s : s[k] \in O}
<1>1. IsFiniteSet(B) /\ n <= Cardinality(S) /\ n \in Nat /\ Cardinality(S) \in Nat
  BY FS_Subset, FS_CardinalityType
<1>2. b \in [1 .. n -> B]
  BY DEF SetToSeqs
<1>3. Len(s) = Cardinality(S) /\ DOMAIN s = 1 .. Len(s)
  BY Listing
<1> HIDE DEF n
<1>4. 1 .. n \subseteq P
  <2> SUFFICES ASSUME NEW i \in 1 .. n PROVE i \in P
    OBVIOUS
  <2>1. s[i] = b[i] /\ b[i] \in O
    BY <1>2 DEF n
  <2>2. i \in DOMAIN s
    BY <1>1, <1>3
  <2> QED
    BY <2>1, <2>2
<1>5. P \in SUBSET (1 .. Len(s)) /\ Len(s) \in Nat
  BY <1>1, <1>3
<1>6. Those(s, O) = Kept(s, P)
  BY DEF Those
<1> HIDE DEF P
<1>7. /\ n <= Cardinality(P) /\ Cardinality(P) \in Nat
      /\ \A i \in 1 .. n : Nth(P, i) = i
  BY <1>1, <1>4, <1>5, NthFirst, NthFact
<1>8. ASSUME NEW i \in 1 .. n PROVE Kept(s, P)[i] = b[i]
  <2>1. i \in 1 .. Cardinality(P) /\ Nth(P, i) = i
    BY <1>1, <1>7
  <2>2. Kept(s, P)[i] = s[i]
    BY <2>1 DEF Kept
  <2> QED
    BY <2>2 DEF n
<1> QED
  BY <1>6, <1>8 DEF n

\* Some orders and some desired peers make the arrays yield sel.
MayYield(o, old, view, newids, max, sel) ==
  \E oldids \in SetToSeqs(old), desired \in SUBSET (old \union view),
     r1 \in Rankings, r2 \in Rankings :
       Selecteds(o, oldids, newids, desired, r1, r2, max) \in SetToSeqs(sel)

(* Whatever MaySelect allows the arrays may yield.                           *)
LEMMA AllowedIsSelected ==
  ASSUME NEW o \in SizeOptions, NEW old \in SUBSET Peers, NEW view \in SUBSET Peers,
         NEW newids \in SetToSeqs(view),
         NEW max \in Nat, Cardinality(old \union view) <= max,
         NEW sel \in SUBSET (old \union view), MaySelect(o, old, view, sel)
  PROVE  MayYield(o, old, view, newids, max, sel)
<1>1. PICK K \in OfSize(old, Keep(o, Cardinality(old))) :
        \E W \in SUBSET ((old \union view) \ K) :
          /\ Cardinality(W) <= DesiredPart(o, Cardinality(K))
          /\ \E R \in OfSize(((old \union view) \ K) \ W,
                 RestSize(o, Cardinality(K), Cardinality(W), Cardinality(((old \union view) \ K) \ W))) :
               sel = K \union W \union R
  BY DEF MaySelect
<1> DEFINE C == (old \union view) \ K
<1>2. PICK W \in SUBSET C :
        /\ Cardinality(W) <= DesiredPart(o, Cardinality(K))
        /\ \E R \in OfSize(C \ W, RestSize(o, Cardinality(K), Cardinality(W), Cardinality(C \ W))) :
             sel = K \union W \union R
  BY <1>1
<1> DEFINE O == C \ W
<1>3. PICK R \in OfSize(O, RestSize(o, Cardinality(K), Cardinality(W), Cardinality(O))) :
        sel = K \union W \union R
  BY <1>2
<1>4. K \in SUBSET old /\ Cardinality(K) = Keep(o, Cardinality(old))
  BY <1>1 DEF OfSize
<1>5. /\ R \in SUBSET O /\ O \in SUBSET Peers /\ R \in SUBSET Peers
      /\ Cardinality(R) = RestSize(o, Cardinality(K), Cardinality(W), Cardinality(O))
  BY <1>3 DEF OfSize
<1>6. IsFiniteSet(old) /\ IsFiniteSet(Peers)
  BY PeersAssumption, FS_Subset
<1>7. PICK oldids \in SetToSeqs(old) : \E b \in SetToSeqs(K) :
        \A i \in 1 .. Cardinality(K) : oldids[i] = b[i]
  BY <1>4, <1>6, RankedFirst
<1>8. PICK r2 \in SetToSeqs(Peers) : \E b \in SetToSeqs(R) :
        \A i \in 1 .. Cardinality(R) : r2[i] = b[i]
  BY <1>5, <1>6, RankedFirst
<1> HIDE DEF O, C
<1>9. K = KeptPeers(o, oldids)
  <2>1. ToSet(First(oldids, Cardinality(K))) = K
    BY <1>4, <1>6, <1>7, FrontIs
  <2>2. Len(oldids) = Cardinality(old)
    BY <1>6, Listing
  <2> QED
    BY <1>4, <2>1, <2>2 DEF KeptPeers
<1>10. R = RestPeers(o, r2, K, W, O)
  <2>1. PICK b \in SetToSeqs(R) : \A i \in 1 .. Cardinality(R) : r2[i] = b[i]
    BY <1>8
  <2>2. \A i \in 1 .. Cardinality(R) : Those(r2, O)[i] = b[i]
    BY <1>5, <1>6, <2>1, ThoseFront
  <2>3. IsFiniteSet(O) /\ Those(r2, O) \in SetToSeqs(O)
    <3>1. Peers \intersect O = O
      BY <1>5
    <3> QED
      BY <1>6, <3>1, ThoseListing
  <2>4. ToSet(First(Those(r2, O), Cardinality(R))) = R
    BY <1>5, <2>2, <2>3, FrontIs
  <2> QED
    BY <1>5, <2>4 DEF RestPeers
<1> DEFINE r1 == SetToSeq(Peers)
<1>11. r1 \in Rankings /\ r2 \in Rankings
  BY <1>6, ListingExists DEF Rankings
<1> HIDE DEF r1
<1>12. C \intersect W = W /\ C = (old \union view) \ K
  BY DEF C
<1>13. PICK V : Rounded(o, K, C, V, W, r2, Selecteds(o, oldids, newids, W, r1, r2, max))
  BY <1>9, <1>11, <1>12, Rounds
<1>14. Selecteds(o, oldids, newids, W, r1, r2, max) \in SetToSeqs(sel)
  <2>1. V = W
    BY <1>2, <1>12, <1>13 DEF Rounded
  <2> QED
    BY <1>3, <1>10, <1>13, <2>1 DEF Rounded, O
<1>15. W \in SUBSET (old \union view)
  BY DEF C
<1> QED
  BY <1>11, <1>14, <1>15 DEF MayYield

(* With any options, old peers, view and length of the unused list, the      *)
(* arrays yield exactly the selections Topology allows, without repetition,  *)
(* with whom to add and whom to remove (update_peers, nodeid_set.c).         *)
THEOREM ArraysAreExact ==
  ASSUME NEW o \in SizeOptions, NEW old \in SUBSET Peers, NEW view \in SUBSET Peers, NEW unused \in Nat
  PROVE  Outcomes(o, old, unused, view) = Allowed(o, old, view)
<1> DEFINE max == MaxIds(old, unused, view)
           newids == SetToSeq(view)
<1>1. max \in Nat /\ Cardinality(old \union view) <= max
  BY RoomForAll
<1>2. newids \in SetToSeqs(view)
  BY PeersAssumption, FS_Subset, ListingExists
<1>3. \A x : x \in Outcomes(o, old, unused, view) <=>
        \E oldids \in SetToSeqs(old), desired \in SUBSET (old \union view),
           r1 \in Rankings, r2 \in Rankings :
             x = Outcome(o, oldids, newids, desired, r1, r2, max)
  <2> DEFINE Of(r1, r2) == {Outcome(o, oldids, newids, desired, r1, r2, max) :
                 oldids \in SetToSeqs(old), desired \in SUBSET (old \union view)}
  <2>1. Outcomes(o, old, unused, view) = UNION {Of(r1, r2) : r1 \in Rankings, r2 \in Rankings}
    BY DEF Outcomes
  <2>2. \A x, r1, r2 : x \in Of(r1, r2) <=>
          \E oldids \in SetToSeqs(old), desired \in SUBSET (old \union view) :
            x = Outcome(o, oldids, newids, desired, r1, r2, max)
    OBVIOUS
  <2> HIDE DEF Of
  <2>3. \A x : x \in Outcomes(o, old, unused, view) <=>
          \E r1 \in Rankings, r2 \in Rankings : x \in Of(r1, r2)
    <3>1. \A x, S : x \in UNION S <=> \E T \in S : x \in T
      OBVIOUS
    <3> QED
      BY <2>1, <3>1
  <2> QED
    BY <2>2, <2>3
<1>4. \A x : x \in Allowed(o, old, view) <=>
        \E sel \in SUBSET (old \union view) :
          /\ MaySelect(o, old, view, sel)
          /\ x = <<sel, Cardinality(sel), sel \ old, ToRemove(old, sel)>>
  BY DEF Allowed
<1> HIDE DEF max, newids
<1>o. \A sel \in SUBSET (old \union view), oldids \in SetToSeqs(old) : \A desired, r1, r2 :
        Selecteds(o, oldids, newids, desired, r1, r2, max) \in SetToSeqs(sel) =>
          Outcome(o, oldids, newids, desired, r1, r2, max) =
            <<sel, Cardinality(sel), sel \ old, ToRemove(old, sel)>>
  BY <1>1, OutcomeFact
<1>5. ASSUME NEW x \in Outcomes(o, old, unused, view) PROVE x \in Allowed(o, old, view)
  <2>1. PICK oldids \in SetToSeqs(old), desired \in SUBSET (old \union view),
             r1 \in Rankings, r2 \in Rankings :
               x = Outcome(o, oldids, newids, desired, r1, r2, max)
    BY <1>3
  <2>2. PICK sel \in SUBSET (old \union view) :
          /\ MaySelect(o, old, view, sel)
          /\ Selecteds(o, oldids, newids, desired, r1, r2, max) \in SetToSeqs(sel)
    BY <1>1, <1>2, SelectedIsAllowed
  <2>3. x = <<sel, Cardinality(sel), sel \ old, ToRemove(old, sel)>>
    BY <2>1, <2>2, <1>o
  <2> QED
    BY <1>4, <2>2, <2>3
<1>6. ASSUME NEW x \in Allowed(o, old, view) PROVE x \in Outcomes(o, old, unused, view)
  <2>1. PICK sel \in SUBSET (old \union view) :
          /\ MaySelect(o, old, view, sel)
          /\ x = <<sel, Cardinality(sel), sel \ old, ToRemove(old, sel)>>
    BY <1>4
  <2>2. MayYield(o, old, view, newids, max, sel)
    BY <1>1, <1>2, <2>1, AllowedIsSelected
  <2>3. PICK oldids \in SetToSeqs(old), desired \in SUBSET (old \union view),
             r1 \in Rankings, r2 \in Rankings :
               Selecteds(o, oldids, newids, desired, r1, r2, max) \in SetToSeqs(sel)
    BY <2>2 DEF MayYield
  <2>4. Outcome(o, oldids, newids, desired, r1, r2, max) =
          <<sel, Cardinality(sel), sel \ old, ToRemove(old, sel)>>
    <3>1. sel \in SUBSET (old \union view) /\ oldids \in SetToSeqs(old)
      BY <2>1, <2>3
    <3> QED
      BY <2>3, <3>1, <1>o
  <2> QED
    BY <1>3, <2>1, <2>4
<1> QED
  BY <1>5, <1>6, Zenon

(* A selection never fails: whatever the old peers and the view, there is    *)
(* one of the sizes update_peers asks for.                                   *)
THEOREM SelectionExists ==
  ASSUME NEW o \in SizeOptions, NEW old \in SUBSET Peers, NEW view \in SUBSET Peers
  PROVE  \E sel \in SUBSET (old \union view) : MaySelect(o, old, view, sel)
<1>1. IsFiniteSet(old) /\ IsFiniteSet(view) /\ IsFiniteSet(Peers)
  BY PeersAssumption, FS_Subset
<1>2. /\ SetToSeq(old) \in SetToSeqs(old) /\ SetToSeq(view) \in SetToSeqs(view)
      /\ SetToSeq(Peers) \in Rankings
  BY <1>1, ListingExists DEF Rankings
<1>3. MaxIds(old, 0, view) \in Nat /\ Cardinality(old \union view) <= MaxIds(old, 0, view)
  BY RoomForAll
<1> QED
  BY <1>2, <1>3, SelectedIsAllowed

(* In every state of Topology, with any number of peers and any options, the *)
(* arrays of update_peers are exact.                                         *)
THEOREM Exact == Spec => []SelectionIsExact
<1>1. TypeOK => SelectionIsExact
  <2> SUFFICES ASSUME TypeOK, NEW p \in Peers
               PROVE  Cardinality(IF topo_out THEN saved[p] ELSE nbr[p]) \in ExactWith
    BY DEF SelectionIsExact
  <2> DEFINE X == IF topo_out THEN saved[p] ELSE nbr[p]
  <2>1. X \in SUBSET (Peers \ {p})
    BY DEF TypeOK
  <2> HIDE DEF X
  <2>2. /\ IsFiniteSet(Peers \ {p}) /\ Cardinality(Peers \ {p}) = Cardinality(Peers) - 1
        /\ Cardinality(Peers) \in Nat
    BY PeersAssumption, FS_RemoveElement, FS_CardinalityType
  <2>3. Cardinality(X) \in 0 .. Cardinality(Peers) - 1
    <3>1. IsFiniteSet(X) /\ Cardinality(X) <= Cardinality(Peers \ {p})
      BY <2>1, <2>2, FS_Subset
    <3>2. Cardinality(X) \in Nat
      BY <3>1, FS_CardinalityType
    <3> QED
      BY <2>2, <3>1, <3>2
  <2>4. \A o \in SizeOptions, old, view \in SUBSET Peers :
          Outcomes(o, old, Cardinality(X), view) = Allowed(o, old, view)
    BY <2>3, ArraysAreExact
  <2>5. Cardinality(X) \in ExactWith
    BY <2>3, <2>4, SizesAssumption, OwnFact DEF ExactWith
  <2> QED
    BY <2>5 DEF X
<1> QED BY <1>1, TypeCorrect, PTL
=============================================================================
