----------------------------- MODULE NotifyLog -----------------------------
(***************************************************************************)
(* The notification files krd and krssh talk through: krd appends lines,   *)
(* a reader polls.  A file is the sequence of its lines, which are taken   *)
(* to have one length, so that a reader's offset counts lines.  An absent  *)
(* file is an empty one: both sides create it when they open it.           *)
(***************************************************************************)
EXTENDS Integers, Sequences

CONSTANTS
    Sessions,  \* SSH sessions; the prefix of one is the hash of its host's
               \* signature, and names its file
    Empty      \* "": the prefix of the file all sessions share, and the
               \* session ID of a payload that does not parse

ASSUME EmptyAssumption == Empty \notin Sessions

VARIABLE log   \* the notification files

Files == Sessions \cup {Empty}

(* What krd writes: "failed" stands for the texts without a signature      *)
(* (not paired, timed out), "answer" for the ones with an answer of the    *)
(* phone, KILL for REJECTED and HOST_KEY_MISMATCH.  Only krssh interprets  *)
(* KILL and STOP.                                                          *)
Lines == {"requesting", "approve", "failed", "answer", "KILL", "STOP"}

(* A reader is open or not, and at some line of its file.                  *)
Closed == [open |-> FALSE, offset |-> 0]

(* OpenNotificationReader truncates the file and starts at its end.        *)
OpenSeeksFirst(file) == [file |-> <<>>, reader |-> [open |-> TRUE, offset |-> Len(file)]]

OpenReader(file) == [file |-> <<>>, reader |-> [open |-> TRUE, offset |-> 0]]

(* Read: the next line, when the file reaches beyond the offset.  Someone  *)
(* else may have truncated the file meanwhile; the offset stays.           *)
HasLine(file, reader) == reader.open /\ reader.offset < Len(file)

NextLine(file, reader) == file[reader.offset + 1]

(* Whether a reader will come to the lines that are written next.          *)
InStep(file, reader) == reader.open /\ reader.offset <= Len(file)
=============================================================================
