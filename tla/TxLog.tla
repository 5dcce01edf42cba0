------------------------------- MODULE TxLog -------------------------------
(***************************************************************************)
(* The contents of /tx.log and what lib/storage computes from them.        *)
(*                                                                         *)
(* The file is a sequence of lines.  A line is a record: its kind says     *)
(* which writer produced it (a fare line of storage_append_tx or a         *)
(* PENDING_LINK line of storage_append_registration), uid is the card, and *)
(* id numbers the lines in the order they were first written.  The program *)
(* stores no such number: it only tells two lines of one card apart.       *)
(*                                                                         *)
(* Abstracted: the text of a line, so a byte offset at the end of a line   *)
(* is the number of lines before it; and the length of a line, so the      *)
(* payload buffer holds a number of lines, ChunkLines.                     *)
(***************************************************************************)
EXTENDS Integers, Sequences, FiniteSets

CONSTANTS
  Uids,        \* rider cards
  ChunkLines   \* lines that fit one payload (MQTT_PAYLOAD_BUF)

ASSUME ChunkLinesAssumption == ChunkLines \in Nat \ {0}

Kinds == {"tap", "link"}

Record == [id : Nat, kind : Kinds, uid : Uids]

\* The numbers of the lines of a log.
Ids(log) == {log[k].id : k \in DOMAIN log}

\* storage_count_uid_in_tx: the lines whose first field is this card.  A
\* PENDING_LINK line starts with another word, so it never counts.
TapLines(log, u) == {k \in DOMAIN log : log[k].kind = "tap" /\ log[k].uid = u}

CountUid(log, u) == Cardinality(TapLines(log, u))

\* storage_stream_tx_chunk: the longest prefix that fits the payload.
ChunkLen(log) == IF Len(log) <= ChunkLines THEN Len(log) ELSE ChunkLines

\* A mutant: the newest lines first.
LastLines(log, n) == SubSeq(log, Len(log) - n + 1, Len(log))

FirstLines(log, n) == SubSeq(log, 1, n)

\* Mutants: an offset one line short, and a file that is just truncated.
DropLinesButOne(log, n) == SubSeq(log, n, Len(log))
DropEverything(log, n) == <<>>

\* storage_atomic_delete_sent: what is left after the first n lines.
DropLines(log, n) == SubSeq(log, n + 1, Len(log))
=============================================================================
