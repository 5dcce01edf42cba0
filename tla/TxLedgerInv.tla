---------------------------- MODULE TxLedgerInv ----------------------------
(***************************************************************************)
(* The invariants of TxLedger that are inductive: what the proofs carry    *)
(* from step to step, and what TLC checks first.                           *)
(***************************************************************************)
EXTENDS TxLedger

\* A tap under way has a card, and a flush under way has a bearer: without it
\* AppendTx could write a line with no card.
TypeInv ==
  /\ TypeOK
  /\ pc0 # "idle" => rider \in Uids
  /\ pc1 # "idle" => bearer \in Bearers

\* The offset is good wherever it is used.
ChunkInv == TypeInv /\ ChunkIsPrefix

\* Between the remove and the rename there is no /tx.log, and no tap finds
\* room that the renamed file would not have.
LookbackInv ==
  /\ ChunkInv
  /\ pc1 = "rename" => txLog = <<>>
  /\ \A u \in Uids :
       /\ CountUid(txLog, u) <= MaxTapsPerUid
       /\ pc1 = "remove" => CountUid(tempLog, u) <= CountUid(txLog, u)
       /\ pc1 = "rename" => CountUid(tempLog, u) <= MaxTapsPerUid
  /\ pc0 \in {"lines", "append"} => CountUid(Ledger, rider) < MaxTapsPerUid

\* Over a bearer whose wait compares ids: ids on the connection are older than
\* the next one, the message with the current id carries the chunk, and its
\* acknowledgement means that the broker has the chunk.
CurrentMsg == nextMsg[bearer] - 1

AckInv ==
  /\ ChunkInv
  /\ powered =>
       \A b \in Bearers :
         /\ \A msg \in Range(uplink[b]) : msg.id < nextMsg[b]
         /\ \A id \in Range(acks[b]) : id < nextMsg[b]
  /\ powered /\ pc1 = "wait" =>
       /\ \A msg \in Range(uplink[bearer]) : msg.id = CurrentMsg => msg.lines = chunk
       /\ CurrentMsg \in Range(acks[bearer]) => Ids(chunk) \subseteq received
  /\ pc1 \in {"delete", "remove"} => Ids(chunk) \subseteq received
  /\ AckedBeforeDelete

\* The fares of a log are under the cap, and those of the copy under those of
\* the file it replaces.
FareCount(log) == Cardinality({k \in DOMAIN log : log[k].kind = "tap"})

CapInv ==
  /\ LookbackInv
  /\ FareCount(txLog) <= MaxLines
  /\ pc1 = "remove" => FareCount(tempLog) <= FareCount(txLog)
  /\ pc1 = "rename" => FareCount(tempLog) <= MaxLines

\* Lines stand in the order in which they were written, each once, and the
\* copy has none of the chunk; all the others, unless it was cut short.
InOrder(log, next) ==
  /\ \A k \in DOMAIN log : log[k].id \in 1 .. next - 1
  /\ \A j, k \in DOMAIN log : j < k => log[j].id < log[k].id

KeptInv ==
  /\ LookbackInv
  /\ nextId > 0
  /\ InOrder(txLog, nextId)
  /\ pc1 \in {"remove", "rename"} => InOrder(tempLog, nextId)
  /\ pc1 = "remove" =>
       /\ Ids(tempLog) \subseteq Ids(txLog) \ Ids(chunk)
       /\ ~lossy => Ids(tempLog) = Ids(txLog) \ Ids(chunk)
  /\ RecordsKept

\* What is published, on its way or received leaves out no older line that the
\* file still has.
Oldest(batch, log, next) ==
  \A r \in batch : /\ r \in 1 .. next - 1
                   /\ \A i \in Ids(log) : i < r => i \in batch

FrontInv ==
  /\ KeptInv
  /\ Oldest(received, Ledger, nextId)
  /\ \A b \in Bearers :
       \A msg \in Range(uplink[b]) : Oldest(Ids(msg.lines), Ledger, nextId)
  /\ pc1 = "publish" => Oldest(Ids(chunk), Ledger, nextId)

\* Without a fault a connection carries one message or its acknowledgement, and
\* of the lines in the file the broker has at most the chunk, between its
\* receipt and its delete.
OneUnderWay(b, msg) ==
  \/ uplink[b] = <<msg>> /\ acks[b] = <<>>
  \/ uplink[b] = <<>> /\ acks[b] = <<msg.id>>

OnlyTheChunk == received \cap Ids(txLog) \subseteq Ids(chunk)

FaultlessInv ==
  /\ powered /\ redelivered = {}
  /\ \A b \in Bearers :
       b # bearer \/ pc1 \notin {"status", "wait"} => uplink[b] = <<>> /\ acks[b] = <<>>
  /\ pc1 = "status" => OneUnderWay(bearer, [id |-> 0, lines |-> <<>>])
  /\ pc1 = "wait" => /\ OneUnderWay(bearer, [id |-> CurrentMsg, lines |-> chunk])
                     /\ uplink[bearer] # <<>> => received \cap Ids(txLog) = {}
  /\ IF pc1 \in {"wait", "delete", "remove"}
       THEN OnlyTheChunk
       ELSE received \cap Ids(Ledger) = {}

DuplicateInv == FrontInv /\ (faults = 0 => FaultlessInv)

\* One for the run that checks them.
InductiveInvariant == CapInv /\ DuplicateInv /\ AckInv
=============================================================================
