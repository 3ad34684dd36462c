---------------------------- MODULE PlayoutReports ----------------------------
(***************************************************************************)
(* The output buffer and the reports on what it played and lost: for each  *)
(* chunk that leaves reg_chunk_playout is called, and output_deliver goes  *)
(* on when it has returned.  Other parts register their own events         *)
(* meanwhile, which only make a report that is due.  A signal may end the  *)
(* program between any two steps, those of a reg_ function included.       *)
(***************************************************************************)
EXTENDS OutputBuffer, Measures, FiniteSets

VARIABLE left  \* leave has run

rvars == <<vars, mvars, left>>

RInit == Init /\ MInit /\ left = FALSE

\* chunk_write, or the loss of the awaited id, and the call of reg_chunk_playout.
Leaves ==
  \/ Scroll /\ played' # played /\ Call(PlayedOne)
  \/ Scroll /\ lost' # lost /\ Call(LostOne)
  \/ Flush /\ Call(PlayedOne)
  \/ PlayNow /\ Call(PlayedOne)

\* A duplicate is counted for itself only.
Duplicate == Store /\ buff[Slot(c)] = c /\ Call(Zero)

Keeps ==
  /\ reg = "none"
  /\ \/ \E id \in Ids : Deliver(id)
     \/ ScrollDone
     \/ FlushDone
     \/ Store /\ buff[Slot(c)] # c
  /\ UNCHANGED mvars

\* reg_neigh_size, reg_chunk_send, ...: events of the other parts.
OtherEvent == Call(Zero) /\ UNCHANGED vars

\* SIGTERM or SIGINT, anywhere in the program: leave.
Leave ==
  /\ EndMeasures
  /\ left' = TRUE
  /\ UNCHANGED vars

RNext ==
  /\ ~left
  /\ \/ Leave
     \/ /\ UNCHANGED left
        /\ \/ Leaves
           \/ Duplicate
           \/ Keeps
           \/ OtherEvent
           \/ Register /\ UNCHANGED vars
           \/ TimePasses /\ UNCHANGED vars

RSpec == RInit /\ [][RNext]_rvars

-----------------------------------------------------------------------------
(* Each id that was played or lost is in exactly one report, in the counters *)
(* of the next, or still owed by the call of reg_chunk_playout that is under *)
(* way, with its outcome.  So a signal, wherever it hits, leaves at most     *)
(* what is owed for the last chunk out of the reports; and it has something  *)
(* reported twice only between print_measures and clean_measures: what the   *)
(* last report told and has not been cleaned yet (print_every, leave).       *)
ReportsAddUp ==
  LET told  == IF left \/ reg = "printed" THEN reported ELSE Plus(reported, m)
      again == IF left /\ reg = "printed" THEN m ELSE Zero
  IN  /\ Plus(Plus(early, told), owed) =
           Plus([chunks |-> Cardinality(played \union lost), played |-> Cardinality(played)],
                again)
      /\ owed.chunks <= 1 /\ owed.played <= 1
=============================================================================
