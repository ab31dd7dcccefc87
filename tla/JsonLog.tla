------------------------------ MODULE JsonLog -------------------------------
(***************************************************************************)
(* A file of JSON lines, as the audit sinks keep them: its records and     *)
(* whether the last one still lacks its newline.  A line that does not     *)
(* parse is Garbage.                                                       *)
(***************************************************************************)
EXTENDS Naturals, Sequences, SequencesExt

CONSTANTS
  Events,   \* audit events, each sent once
  Garbage   \* a line that is not an event

ASSUME LogAssumption == Garbage \notin Events

Records == Events \cup {Garbage}
Log == [recs : Seq(Records), open : BOOLEAN]
EmptyLog == [recs |-> <<>>, open |-> FALSE]

InLog(log) == ToSet(log.recs) \cap Events

\* A record written after one without its newline makes one line of both.
write_record(log, r) ==
  IF log.open
  THEN [recs |-> Append(Front(log.recs), Garbage), open |-> FALSE]
  ELSE [recs |-> Append(log.recs, r), open |-> FALSE]

\* What a write that failed half way may leave after the file's lines.
TornWrite(log, r) ==
  IF log.open
  THEN {[recs |-> Append(Front(log.recs), Garbage), open |-> TRUE]}
  ELSE {[recs |-> Append(log.recs, r), open |-> TRUE],
        [recs |-> Append(log.recs, Garbage), open |-> TRUE]}
=============================================================================
