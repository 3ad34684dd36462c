------------------------------ MODULE OfferTimer ------------------------------
(***************************************************************************)
(* The offers of one peer in time: the timer of loop() (in source_loop()   *)
(* tnextp), which rate control paces, and the transactions that offers     *)
(* open and acks close, from which rate control takes its measurements.    *)
(*                                                                         *)
(* The timer instant advances by the period at each turn, whenever that    *)
(* turn comes: after a stall the turns that were missed follow at once.    *)
(* A stall, or a run of datagrams, which loop() handles first, lasts at    *)
(* most MaxLate.  The clock does not step back.                            *)
(***************************************************************************)
EXTENDS Transaction, RateControl

CONSTANTS
  Autotune,  \* autotune_period, an option of the command line
  MaxLate    \* bound: how late a turn of the timer may come

ASSUME TimerAssumption == Autotune \in BOOLEAN /\ MaxLate \in Nat /\ AccCap > AccMax

\* Of all offers sent within a lifetime, the first belongs to a timer instant at
\* most MaxLate earlier, and the instants are a shortest period apart.
OffersPerLifetime(p) == (Lifetime + MaxLate) \div p + 1

\* 200 offers a second for 10 s, and any stall of less than five minutes.
ASSUME EnoughIds ==
  \A p \in Initials : OffersPerLifetime(Smaller(PeriodMin, p)) < 2^Width

VARIABLE due  \* tnext - now

vars == <<stl, trans_id, ret, rcVars, due>>

Init ==
  /\ TInit
  /\ RInit
  /\ due = 0

\* Fault: the next turn is a period after this one, which came early.
RearmedEarly == due + period - 1

\* timeradd(&tnext, &period)
Rearmed == due + period

\* A turn of the timeout branch whose send_offer finds nobody to offer to.
IdleTurn ==
  /\ due <= 0
  /\ due' = Rearmed
  /\ UNCHANGED <<stl, trans_id, ret, rcVars>>

\* A turn whose send_offer sends one offer (offer_per_tick).
OfferTurn ==
  /\ due <= 0
  /\ TransactionCreate
  /\ due' = Rearmed
  /\ UNCHANGED rcVars

\* accept_received: rc_reg_accept, send_accepted_chunks.
AcceptReceived(id, accepted) ==
  /\ TransactionRegAccept(id)
  /\ UpdateOfferAccept(accepted)
  /\ UNCHANGED due

\* rc_reg_ack returns early without an accept time.
Measures(t_acc) == t_acc >= 0

\* ack_received: rc_reg_ack, update_acc_to_ack.
AckReceived(id) ==
  /\ TransactionRemove(id)
  /\ IF Measures(ret') /\ Autotune THEN UpdatePeriod(ret') ELSE UNCHANGED rcVars
  /\ UNCHANGED due

Tick ==
  /\ due > -MaxLate
  /\ due' = due - 1
  /\ TransactionsAge
  /\ TimePasses

\* Any id may come in an accept or an ack, 0 in the ack of a pushed chunk.
Next ==
  \/ IdleTurn
  \/ OfferTurn
  \/ \E id \in 0 .. 2^Width - 1 :
       \/ \E accepted \in BOOLEAN : AcceptReceived(id, accepted)
       \/ AckReceived(id)
  \/ Tick

Spec == Init /\ [][Next]_vars

-----------------------------------------------------------------------------
\* Every variable keeps its type, and the next turn is at most a period away.
TypeOK ==
  /\ stl \in Seq([id : 0 .. 2^Width - 1, age : 0 .. Lifetime + 1, acc : NoAccept .. AccCap])
  /\ trans_id \in 1 .. 2^Width - 1
  /\ ret \in Missing .. AccCap
  /\ initial \in Initials
  /\ period \in Nat \ {0}
  /\ since \in Never .. PeriodMax
  /\ willing \in BOOLEAN
  /\ due \in -MaxLate .. Larger(PeriodMax, initial)

\* Offers that are never answered do not pile up, although a walk that stops at
\* the head leaves timed-out elements: the list never holds more than the
\* offers of one lifetime, at the shortest period and after the longest stall.
ListIsBounded == Len(stl) <= OffersPerLifetime(Smaller(PeriodMin, initial))

\* If acks keep coming, in the end none later than acc_to_ack_max after its
\* accept, a peer that was slowed down is back at its initial period time and
\* again: the rounding of update_period does not leave it stuck above.
RecoversSpeed ==
  /\ <>[][\A id \in 0 .. 2^Width - 1 : AckReceived(id) => ret' <= AccMax]_vars
  /\ []<><<\E id \in 0 .. 2^Width - 1 : since > 0 /\ AckReceived(id) /\ ret' >= 0>>_vars
  => []<>(period <= Larger(initial, PeriodMin))
=============================================================================
