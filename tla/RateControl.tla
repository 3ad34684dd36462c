----------------------------- MODULE RateControl -----------------------------
(***************************************************************************)
(* ratecontrol.c: the period between two offers follows the time from an   *)
(* accept to the ack of its chunk (queueing at the receiver or on the way) *)
(* and the share of offers that are accepted.  Below the initial period a  *)
(* peer is "fast": it speeds up further while both are good, else it slows *)
(* down towards the initial one; above it is "slow", and slows down more   *)
(* or recovers.                                                            *)
(*                                                                         *)
(* Times are whole units, as the int64_t microseconds of the code are.     *)
(***************************************************************************)
EXTENDS Integers

CONSTANTS
  PeriodMin,  \* PERIOD_MIN, 5 ms
  PeriodMax,  \* PERIOD_MAX, 1 s
  UpTime,     \* 1 / period_change_rate_up, 5 s
  DownTime,   \* 1 / period_change_rate_down, 10 s
  MaxBoost,   \* bound of 1 + |log period - log initial period|
  Initials,   \* the periods a peer may start with, -c
  AccMax      \* acc_to_ack_max

ASSUME PeriodAssumption ==
         PeriodMin \in Nat \ {0} /\ PeriodMax \in Nat /\ PeriodMin <= PeriodMax
ASSUME RateAssumption == UpTime \in Nat \ {0} /\ DownTime \in Nat \ {0} /\ MaxBoost \in Nat \ {0}
ASSUME InitialsAssumption == Initials \subseteq Nat \ {0} /\ AccMax \in Nat

VARIABLES
  period,   \* time between two offers
  initial,  \* period_initial: what it was before the first update
  since,    \* time since the last update, at most PeriodMax; Never at first
  willing   \* offer_accept > offer_accept_min

rcVars == <<period, initial, since, willing>>

Never == -1

Larger(x, y) == IF x > y THEN x ELSE y
Smaller(x, y) == IF x < y THEN x ELSE y

\* dt of update_period.
Dt == IF since = Never THEN period ELSE since

\* Fault: the quotient is rounded up.
QuotientUp(n, d) == (n + d - 1) \div d

\* A positive double becomes an int64_t.
Quotient(n, d) == n \div d

Faster(boost) == Quotient(period * DownTime, DownTime + boost * Dt)
Slower(boost) == Quotient(period * (UpTime + boost * Dt), UpTime)

\* The new period for boosts up to b; they need not be whole.
SpeedUp(b) == {Larger(PeriodMin, p) : p \in Faster(b) .. Faster(1)}

\* Fault: no upper limit.
SlowDownForEver(b) == Slower(1) .. Slower(b)

SlowDown(b) == {Smaller(PeriodMax, p) : p \in Slower(1) .. Slower(b)}

\* update_period, after an ack that came `acc' after its accept.
UpdatePeriod(acc) ==
  /\ period' \in IF period < initial
                 THEN IF willing /\ acc < AccMax THEN SpeedUp(1) ELSE SlowDown(MaxBoost)
                 ELSE IF acc > AccMax THEN SlowDown(1) ELSE SpeedUp(MaxBoost)
  /\ since' = 0
  /\ UNCHANGED <<initial, willing>>

\* update_offer_accept: a smoothed share, which an accept that takes something
\* moves up and one that takes nothing moves down.
UpdateOfferAccept(accepted) ==
  /\ willing' \in IF accepted THEN {willing, TRUE} ELSE {willing, FALSE}
  /\ UNCHANGED <<period, initial, since>>

RInit ==
  /\ initial \in Initials
  /\ period = initial
  /\ since = Never
  /\ willing = TRUE

TimePasses ==
  /\ since' = IF since = Never THEN Never ELSE Smaller(since + 1, PeriodMax)
  /\ UNCHANGED <<period, initial, willing>>

-----------------------------------------------------------------------------
\* However often and with whatever delays acks come, the period stays between
\* 5 ms and 1 s, or its initial value if that was outside: a peer neither
\* floods its neighbours with offers nor stops offering.
PeriodInBounds ==
  period \in Smaller(PeriodMin, initial) .. Larger(PeriodMax, initial)
=============================================================================
