------------------------------- MODULE Measures -------------------------------
(***************************************************************************)
(* The periodic reports of measures.c.  Every reg_ function first calls    *)
(* print_every, which makes the report that is due, and then counts its    *)
(* event; nothing is counted for StartDiff after the first call.  A report *)
(* covers the time from print_tstart to the moment it is made.             *)
(*                                                                         *)
(* A signal may end the program anywhere in a call, with a last report of  *)
(* what the counters then hold: a call is taken in the steps it can tell   *)
(* apart, with the place in reg.  The clock is read once a call, by        *)
(* print_every, and never set back; a report is the line it prints.        *)
(*                                                                         *)
(* Only the counters behind the playout ratio are kept: chunks that left   *)
(* the output buffer, and those of them that were played.                  *)
(***************************************************************************)
EXTENDS Integers

CONSTANTS
  StartDiff,  \* tstartdiff
  PrintDiff,  \* print_tdiff
  MaxTime     \* bound: the latest time

ASSUME TimesAssumption ==
  StartDiff \in Nat /\ PrintDiff \in Nat \ {0} /\ MaxTime \in Nat

VARIABLES
  now,           \* the clock
  tstart,        \* when counting starts, Unset before the first event
  print_tstart,  \* the beginning of what the next report covers
  tnext,         \* when the next report is due
  m,             \* the counters: chunks and played
  reg,           \* where a reg_ function stands, "none" when none was called
  owed,          \* what it has still to count
  reported,      \* the sum of the reports so far
  early,         \* what was not counted, before tstart
  oldest         \* when the oldest event in m was registered, Unset if there is none

reports == <<tstart, print_tstart, tnext, m, reg, owed, reported, early, oldest>>
mvars == <<now, reports>>

Unset == -1
Zero == [chunks |-> 0, played |-> 0]
Plus(a, b) == [chunks |-> a.chunks + b.chunks, played |-> a.played + b.played]

\* What reg_chunk_playout adds to the counters, for a chunk played or lost.
PlayedOne == [chunks |-> 1, played |-> 1]
LostOne == [chunks |-> 1, played |-> 0]

MInit ==
  /\ now = 0
  /\ tstart = Unset /\ print_tstart = Unset /\ tnext = Unset
  /\ m = Zero /\ reported = Zero /\ early = Zero
  /\ reg = "none" /\ owed = Zero
  /\ oldest = Unset

\* The first call of print_every sets when counting starts.
Start == IF tstart = Unset THEN now + StartDiff ELSE tstart

\* When the next report is due, from the first call that counts on.
Due == IF tnext = Unset THEN Start + PrintDiff ELSE tnext

\* A call goes on as long as it has something to count.
Counting(rest) == IF rest = Zero THEN "none" ELSE "count"

\* The event has happened and its reg_ function is being called.
Call(event) ==
  /\ reg = "none"
  /\ reg' = "call"
  /\ owed' = event
  /\ UNCHANGED <<now, tstart, print_tstart, tnext, m, reported, early, oldest>>

\* print_every returns false: an event before the start is not counted.
Ignore ==
  /\ reg = "call" /\ now < Start
  /\ reg' = "none"
  /\ early' = Plus(early, owed) /\ owed' = Zero
  /\ tstart' = Start
  /\ print_tstart' = Start
  /\ UNCHANGED <<tnext, m, reported, oldest>>

\* print_every finds no report due.
NoReport ==
  /\ reg = "call" /\ now >= Start /\ now < Due
  /\ reg' = Counting(owed)
  /\ oldest' = IF oldest = Unset /\ owed # Zero THEN now ELSE oldest
  /\ tstart' = Start
  /\ print_tstart' = IF tstart = Unset THEN Start ELSE print_tstart
  /\ tnext' = Due
  /\ UNCHANGED <<m, owed, reported, early>>

\* print_measures.  At most one report is made in a call, however late it is.
PrintMeasures ==
  /\ reg = "call" /\ now >= Start /\ now >= Due
  /\ reg' = "printed"
  /\ reported' = Plus(reported, m)
  /\ tstart' = Start
  /\ tnext' = Due
  /\ UNCHANGED <<print_tstart, m, owed, early, oldest>>

\* Fault: what the next report covers begins when this one is made.
CleanFromNow ==
  /\ reg = "printed"
  /\ reg' = Counting(owed)
  /\ m' = Zero
  /\ oldest' = IF owed # Zero THEN now ELSE Unset
  /\ print_tstart' = now
  /\ tnext' = tnext + PrintDiff
  /\ UNCHANGED <<tstart, owed, reported, early>>

\* Fault: the event is counted before the counters are cleaned.
CleanLate ==
  /\ reg = "printed"
  /\ reg' = "none"
  /\ m' = Zero /\ owed' = Zero
  /\ oldest' = Unset
  /\ print_tstart' = tnext
  /\ tnext' = tnext + PrintDiff
  /\ UNCHANGED <<tstart, reported, early>>

\* clean_measures has come to the end; the event is left for the next report.
Clean ==
  /\ reg = "printed"
  /\ reg' = Counting(owed)
  /\ m' = Zero
  /\ oldest' = IF owed # Zero THEN now ELSE Unset
  /\ print_tstart' = tnext
  /\ tnext' = tnext + PrintDiff
  /\ UNCHANGED <<tstart, owed, reported, early>>

\* A counter is cleaned, or counted in, before another.
CleanField(f) ==
  /\ reg = "printed" /\ m[f] # 0
  /\ m' = [m EXCEPT ![f] = 0]
  /\ UNCHANGED <<tstart, print_tstart, tnext, reg, owed, reported, early, oldest>>

CountField(f) ==
  /\ reg = "count" /\ owed[f] # 0
  /\ m' = [m EXCEPT ![f] = m[f] + owed[f]]
  /\ owed' = [owed EXCEPT ![f] = 0]
  /\ reg' = Counting(owed')
  /\ UNCHANGED <<tstart, print_tstart, tnext, reported, early, oldest>>

\* What a reg_ function does once it has been called.
Register ==
  /\ \/ Ignore \/ NoReport \/ PrintMeasures \/ Clean
     \/ \E f \in {"chunks", "played"} : CleanField(f) \/ CountField(f)
  /\ UNCHANGED now

\* end_measures: a report of what is left, without cleaning.
EndMeasures ==
  /\ reported' = Plus(reported, m)
  /\ UNCHANGED <<now, tstart, print_tstart, tnext, m, reg, owed, early, oldest>>

\* What follows the reading of the clock in a call does not look at it again.
TimePasses ==
  /\ reg \in {"none", "call"}
  /\ now < MaxTime
  /\ now' = now + 1
  /\ UNCHANGED reports

-----------------------------------------------------------------------------
(* A report covers a whole print_tdiff at least, and counts nothing that was *)
(* registered before the time it covers, so that the rates it prints are not *)
(* inflated, however late it and the ones before it were (print_every).      *)
ReportsCoverTheirEvents ==
  [][reg = "call" /\ reg' = "printed" =>
       /\ now - print_tstart >= PrintDiff
       /\ oldest # Unset => oldest >= print_tstart]_mvars
=============================================================================
