----------------------------- MODULE Transaction -----------------------------
(***************************************************************************)
(* The list of open offer transactions of transaction.c: newest first, one *)
(* element per offer, dropped TRANS_ID_MAX_LIFETIME after the offer was    *)
(* sent or when the ack of the chunk comes.  An element is its id, the     *)
(* time since its offer and the time since its last accept.  OfferTimer    *)
(* has the clock and the callers.                                          *)
(***************************************************************************)
EXTENDS Lists, SequencesExt

CONSTANTS
  Width,     \* bits of trans_id, 16 in the code
  Lifetime,  \* TRANS_ID_MAX_LIFETIME
  AccCap     \* bound: times since an accept count up to this

ASSUME WidthAssumption == Width \in Nat \ {0}
ASSUME LifetimeAssumption == Lifetime \in Nat
ASSUME AccCapAssumption == AccCap \in Nat

VARIABLES
  stl,       \* the list
  trans_id,  \* id of the last offer
  ret        \* what the last transaction_remove returned

\* Fault: 0 is not skipped.
NextIdThroughZero(t) == (t + 1) % 2^Width

\* Fault: the counter is a bit too narrow.
NextIdNarrow(t) == LET n == (t + 1) % 2^(Width - 1) IN IF n = 0 THEN 1 ELSE n

\* uint16_t arithmetic, skipping 0.
NextId(t) == LET n == (t + 1) % 2^Width IN IF n = 0 THEN 1 ELSE n

Expired(e) == e.age > Lifetime

\* check_neighbor_status_list: the walk goes on from the removed element's
\* forward pointer, which has just been cleared when that was the head.
Purge(list) ==
  IF list # <<>> /\ Expired(Head(list))
  THEN Tail(list)
  ELSE Kept(list, {k \in DOMAIN list : ~Expired(list[k])})

\* Position of the first element with this id, 0 when there is none.
Position(id) == SelectInSeq(stl, LAMBDA e : e.id = id)

\* transaction_remove returns Missing, -2.0, for an unknown id, and otherwise
\* the time of the accept: NoAccept, -1.0, when there was none.  Here it is the
\* time since the accept, which its only caller makes of it.
Missing == -2
NoAccept == -1

TInit ==
  /\ stl = <<>>
  /\ trans_id = 1
  /\ ret = Missing

\* transaction_create
TransactionCreate ==
  /\ trans_id' = NextId(trans_id)
  /\ stl' = <<[id |-> NextId(trans_id), age |-> 0, acc |-> NoAccept]>> \o Purge(stl)
  /\ UNCHANGED ret

\* transaction_reg_accept
TransactionRegAccept(id) ==
  /\ stl' = IF Position(id) = 0 THEN stl ELSE [stl EXCEPT ![Position(id)].acc = 0]
  /\ UNCHANGED <<trans_id, ret>>

\* transaction_remove
TransactionRemove(id) ==
  LET k == Position(id)
  IN /\ stl' = IF k = 0 THEN stl ELSE RemoveAt(stl, k)
     /\ ret' = IF k = 0 THEN Missing ELSE stl[k].acc
     /\ UNCHANGED trans_id

\* One unit of time passes; ages beyond their limits are alike.
Older(e) ==
  [e EXCEPT !.age = IF Expired(e) THEN @ ELSE @ + 1,
            !.acc = IF @ = NoAccept \/ @ = AccCap THEN @ ELSE @ + 1]

TransactionsAge ==
  /\ stl' = [k \in DOMAIN stl |-> Older(stl[k])]
  /\ UNCHANGED <<trans_id, ret>>

-----------------------------------------------------------------------------
\* An accept or an ack names its transaction by the id alone, and finds it, not
\* another one with the same id, as long as the transaction has not timed out:
\* the counter wraps, and a timed-out element may stay for ever behind it.
FindsOwnTransaction ==
  \A k \in DOMAIN stl : ~Expired(stl[k]) => Position(stl[k].id) = k
=============================================================================
