------------------------------- MODULE Journal -------------------------------
(***************************************************************************)
(* The append-only ledger of a Journal (journal.py): what an append can    *)
(* leave in the file, and what a reader makes of it.  Bytes without their  *)
(* newline are one line with whatever is appended next, and a line that is *)
(* no JSON is skipped.                                                     *)
(***************************************************************************)
EXTENDS Naturals, Sequences

(* What was written: all of the line, all but its newline, a part of it,   *)
(* nothing.  An append returns only if all of it was; it may raise (in     *)
(* fsync) although all of it was.                                          *)
Leavings == {"line", "unended", "part", "nothing"}

(* The lines that read, and what follows the last newline: nothing, a part *)
(* of a line, or a line that reads as long as nothing is appended to it.   *)
NewLedger == [lines |-> <<>>, tail |-> "none", open |-> <<>>]

Appended(f, event, left) ==
  CASE left = "nothing" -> f
    [] left = "part" -> [lines |-> f.lines, tail |-> "part", open |-> <<>>]
    [] left = "unended" ->
         IF f.tail = "none" THEN [lines |-> f.lines, tail |-> "unended", open |-> <<event>>]
         ELSE [lines |-> f.lines, tail |-> "part", open |-> <<>>]
    [] left = "line" ->
         [lines |-> IF f.tail = "none" THEN Append(f.lines, event) ELSE f.lines,
          tail |-> "none", open |-> <<>>]

(* read_ledger()                                                           *)
ReadLedger(f) == f.lines \o f.open

(* Each append that did not do what it said costs the ledger, or adds to   *)
(* it, one line at most.                                                   *)
OffByOneEach(f, returned, faults) ==
  /\ returned <= Len(ReadLedger(f)) + faults
  /\ Len(ReadLedger(f)) <= returned + faults
=============================================================================
