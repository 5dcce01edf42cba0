-------------------------- MODULE TxLedgerProofs --------------------------
(***************************************************************************)
(* Theorems of TxLedger, for every number of cards, records and faults:    *)
(* its types, the chunk that stays a prefix of the file, and the offline   *)
(* tap limit over both bearers; deletion after acknowledgement over Wi-Fi. *)
(***************************************************************************)
EXTENDS TxLedgerInv, TxLogTheorems

---------------------------------------------------------------------------
(* Types. *)

LEMMA TypeInit == Init => TypeInv
<1> SUFFICES ASSUME Init PROVE TypeInv
  OBVIOUS
<1>1. <<>> \in Seq(Record) /\ <<>> \in Seq(Message) /\ <<>> \in Seq(Nat)
  BY EmptySeq
<1>2. /\ nextMsg \in [Bearers -> Nat]
      /\ uplink \in [Bearers -> Seq(Message)]
      /\ acks \in [Bearers -> Seq(Nat)]
  BY <1>1 DEF Init
<1>3. /\ pc0 \in Core0Pcs /\ rider \in Uids \cup {NoUid} /\ pc0 = "idle"
      /\ pc1 \in Core1Pcs /\ bearer \in Bearers \cup {"none"} /\ pc1 = "idle"
  BY DEF Init, Core0Pcs, Core1Pcs
<1>4. /\ synced \in BOOLEAN /\ powered \in BOOLEAN /\ lossy \in BOOLEAN
      /\ nextId \in Nat /\ faults \in Nat
      /\ received \subseteq Nat /\ redelivered \subseteq Nat /\ retired \subseteq Nat
  BY DEF Init
<1>5. txLog \in Seq(Record) /\ tempLog \in Seq(Record) /\ chunk \in Seq(Record)
  BY <1>1 DEF Init
<1>6. QED
  BY <1>2, <1>3, <1>4, <1>5 DEF TypeInv, TypeOK

LEMMA WriteLineType ==
  ASSUME TypeInv, NEW kind \in Kinds, NEW u \in Uids, WriteLine(kind, u)
  PROVE  /\ [id |-> nextId, kind |-> kind, uid |-> u] \in Record
         /\ txLog' \in Seq(Record)
         /\ nextId' \in Nat
<1>1. [id |-> nextId, kind |-> kind, uid |-> u] \in Record
  BY DEF TypeInv, TypeOK, Record
<1>2. QED
  BY <1>1, AppendFacts DEF TypeInv, TypeOK, WriteLine

LEMMA TypeCore0 ==
  ASSUME TypeInv, Core0
  PROVE  TypeInv'
<1> USE DEF TypeInv, TypeOK, Core0Only, core0, core1, net, Core0Pcs, Core0At,
            Fault, TapOver
<1>1. ASSUME NEW u \in Uids, Tap(u) PROVE TypeInv'
  BY <1>1 DEF Tap
<1>2. ASSUME NEW u \in Uids, Register(u) PROVE TypeInv'
  BY <1>2, WriteLineType DEF Register, Kinds
<1>3. CASE CountTaps
  BY <1>3 DEF CountTaps
<1>4. CASE CountTapsTimeout
  BY <1>4 DEF CountTapsTimeout
<1>5. CASE CountLines
  BY <1>5 DEF CountLines
<1>6. CASE CountLinesTimeout
  BY <1>6 DEF CountLinesTimeout
<1>7. CASE AppendTx
  <2>1. CASE Len(txLog) < MaxLines
    BY <1>7, <2>1, WriteLineType DEF AppendTx, Kinds
  <2>2. CASE ~(Len(txLog) < MaxLines)
    BY <1>7, <2>2 DEF AppendTx
  <2>3. QED
    BY <2>1, <2>2
<1>8. CASE AppendRefused
  BY <1>8 DEF AppendRefused
<1>9. QED
  BY <1>1, <1>2, <1>3, <1>4, <1>5, <1>6, <1>7, <1>8 DEF Core0, Core0Step

\* What Core 1's updates of the connections return.
LEMMA ChannelTypes ==
  ASSUME TypeInv
  PROVE  /\ \A b \in Bearers : Len(acks[b]) \in Nat
         /\ \A b \in Bearers : acks[b] # <<>> =>
              [acks EXCEPT ![b] = Tail(@)] \in [Bearers -> Seq(Nat)]
         /\ \A b \in Bearers : uplink[b] # <<>> =>
              [uplink EXCEPT ![b] = Tail(@)] \in [Bearers -> Seq(Message)]
         /\ \A b \in Bearers, n \in Nat : n <= Len(acks[b]) =>
              [acks EXCEPT ![b] = SubSeq(@, n + 1, Len(@))] \in [Bearers -> Seq(Nat)]
         /\ \A b \in Bearers, m \in Message :
              [uplink EXCEPT ![b] = Append(@, m)] \in [Bearers -> Seq(Message)]
         /\ \A b \in Bearers, i \in Nat :
              [acks EXCEPT ![b] = Append(@, i)] \in [Bearers -> Seq(Nat)]
<1> USE DEF TypeInv, TypeOK
<1>1. \A b \in Bearers : acks[b] \in Seq(Nat) /\ uplink[b] \in Seq(Message)
  OBVIOUS
<1>2. \A b \in Bearers : Len(acks[b]) \in Nat
  BY <1>1, LenProperties
<1>3. ASSUME NEW b \in Bearers, acks[b] # <<>>
      PROVE  [acks EXCEPT ![b] = Tail(@)] \in [Bearers -> Seq(Nat)]
  BY <1>1, <1>3, HeadTailProperties
<1>4. ASSUME NEW b \in Bearers, uplink[b] # <<>>
      PROVE  [uplink EXCEPT ![b] = Tail(@)] \in [Bearers -> Seq(Message)]
  BY <1>1, <1>4, HeadTailProperties
<1>5. ASSUME NEW b \in Bearers, NEW n \in Nat, n <= Len(acks[b])
      PROVE  [acks EXCEPT ![b] = SubSeq(@, n + 1, Len(@))] \in [Bearers -> Seq(Nat)]
  <2>1. SubSeq(acks[b], n + 1, Len(acks[b])) \in Seq(Nat)
    BY <1>1, <1>2, ElementOfSeq, SubSeqProperties
  <2>2. QED
    BY <2>1
<1>6. ASSUME NEW b \in Bearers, NEW m \in Message
      PROVE  [uplink EXCEPT ![b] = Append(@, m)] \in [Bearers -> Seq(Message)]
  BY <1>1
<1>7. ASSUME NEW b \in Bearers, NEW i \in Nat
      PROVE  [acks EXCEPT ![b] = Append(@, i)] \in [Bearers -> Seq(Nat)]
  BY <1>1
<1>8. QED
  BY <1>2, <1>3, <1>4, <1>5, <1>6, <1>7
LEMMA TypeCore1 ==
  ASSUME TypeInv, Core1
  PROVE  TypeInv'
<1> USE DEF TypeInv, TypeOK, Core1Only, flash, core0, net, Core0Pcs, Core1Pcs, Core1At
<1>1. CASE OpenGsm
  <2>1. [id |-> 0, lines |-> <<>>] \in Message
    BY DEF Message
  <2>2. uplink' \in [Bearers -> Seq(Message)] /\ acks' \in [Bearers -> Seq(Nat)]
    BY <1>1, <2>1 DEF OpenGsm
  <2>3. QED
    BY <1>1, <2>2 DEF OpenGsm
<1>2. CASE StatusAcked
  BY <1>2, ChannelTypes DEF StatusAcked
<1>3. CASE StatusTimeout
  BY <1>3 DEF StatusTimeout, Overdue, Fault
<1>4. ASSUME NEW b \in Bearers, StreamChunk(b) PROVE TypeInv'
  <2>1. chunk' \in Seq(Record)
    BY <1>4, FirstLinesFacts, ChunkLenRange DEF StreamChunk
  <2>2. QED
    BY <1>4, <2>1 DEF StreamChunk
<1>5. CASE StreamNothing
  BY <1>5 DEF StreamNothing, FlushOver, Fault
<1>6. CASE Publish
  <2>1. bearer \in Bearers /\ nextMsg[bearer] \in Nat
    BY <1>6 DEF Publish
  <2>2. [id |-> nextMsg[bearer], lines |-> chunk] \in Message
    BY <2>1 DEF Message
  <2>3. uplink' \in [Bearers -> Seq(Message)]
    BY <1>6, <2>1, <2>2, ChannelTypes DEF Publish
  <2>4. acks' \in [Bearers -> Seq(Nat)]
    <3>1. PICK n \in 0 .. (IF bearer = "gsm" THEN Len(acks[bearer]) ELSE 0) :
            acks' = [acks EXCEPT ![bearer] = SubSeq(@, n + 1, Len(@))]
      BY <1>6 DEF Publish
    <3>2. n \in Nat /\ n <= Len(acks[bearer])
      BY <2>1, ChannelTypes
    <3>3. QED
      BY <2>1, <3>1, <3>2, ChannelTypes
  <2>5. nextMsg' \in [Bearers -> Nat]
    BY <1>6, <2>1 DEF Publish
  <2>6. QED
    BY <1>6, <2>1, <2>3, <2>4, <2>5 DEF Publish
<1>7. CASE PublishFailed
  BY <1>7 DEF PublishFailed, FlushOver, Fault
<1>8. CASE RecvAck
  BY <1>8, ChannelTypes DEF RecvAck
<1>9. CASE AckTimeout
  BY <1>9 DEF AckTimeout, FlushOver, Overdue, Fault
<1>10. DropLines(txLog, Len(chunk)) \in Seq(Record)
  BY DropLinesType
<1>11. CASE Delete
  <2>1. tempLog' \in Seq(Record)
    BY <1>10, <1>11 DEF Delete
  <2>2. QED
    BY <1>11, <2>1 DEF Delete
<1>12. CASE DeleteShort
  <2>1. PICK n \in 0 .. Len(txLog) - Len(chunk) - 1 :
          tempLog' = FirstLines(DropLines(txLog, Len(chunk)), n)
    BY <1>12 DEF DeleteShort
  <2>2. Len(txLog) \in Nat /\ Len(chunk) \in Nat
    BY LenProperties
  <2>3. Len(chunk) \in 0 .. Len(txLog)
    BY <2>1, <2>2
  <2>4. Len(DropLines(txLog, Len(chunk))) = Len(txLog) - Len(chunk)
    BY <2>3, DropLinesFacts
  <2>5. tempLog' \in Seq(Record)
    BY <1>10, <2>1, <2>2, <2>4, FirstLinesFacts
  <2>6. QED
    BY <1>12, <2>5 DEF DeleteShort, Fault
<1>13. CASE DeleteRefused
  BY <1>13 DEF DeleteRefused, Fault
<1>14. CASE Remove
  <2>1. Ids(chunk) \subseteq Nat
    BY IdsType
  <2>2. txLog' \in Seq(Record) /\ retired' \subseteq Nat
    BY <1>14, <2>1, EmptySeq DEF Remove
  <2>3. QED
    BY <1>14, <2>2 DEF Remove
<1>15. CASE Rename
  BY <1>15, EmptySeq DEF Rename
<1>16. CASE Stamp
  <2>1. synced' \in BOOLEAN
    BY <1>16 DEF Stamp
  <2>2. faults' \in Nat
    BY <1>16 DEF Stamp, Fault
  <2>3. chunk' \in Seq(Record)
    BY <1>16, EmptySeq DEF Stamp, FlushOver
  <2>4. QED
    BY <1>16, <2>1, <2>2, <2>3 DEF Stamp, FlushOver
<1>17. QED
  BY <1>1, <1>2, <1>3, <1>4, <1>5, <1>6, <1>7, <1>8, <1>9, <1>11, <1>12, <1>13,
     <1>14, <1>15, <1>16 DEF Core1, Core1Step

LEMMA TypeEnvironment ==
  ASSUME TypeInv, Environment
  PROVE  TypeInv'
<1> USE DEF TypeInv, TypeOK, NetOnly, flash, core0, core1, net, history,
            Core0Pcs, Core1Pcs, Fault
<1>1. ASSUME NEW b \in Bearers, BrokerRecv(b) PROVE TypeInv'
  <2>1. uplink[b] \in Seq(Message) /\ uplink[b] # <<>>
    BY <1>1 DEF BrokerRecv
  <2>2. Head(uplink[b]) \in Message
    BY <2>1, HeadTailProperties
  <2>3. Head(uplink[b]).id \in Nat /\ Head(uplink[b]).lines \in Seq(Record)
    BY <2>2 DEF Message
  <2>4. Ids(Head(uplink[b]).lines) \subseteq Nat
    BY <2>3, IdsType
  <2>5. /\ received' = received \cup Ids(Head(uplink[b]).lines)
        /\ redelivered' = redelivered \cup (received \cap Ids(Head(uplink[b]).lines))
        /\ acks' = [acks EXCEPT ![b] = Append(@, Head(uplink[b]).id)]
        /\ uplink' = [uplink EXCEPT ![b] = Tail(@)]
    BY <1>1 DEF BrokerRecv
  <2>6. received' \subseteq Nat /\ redelivered' \subseteq Nat
    BY <2>4, <2>5
  <2>7. acks' \in [Bearers -> Seq(Nat)] /\ uplink' \in [Bearers -> Seq(Message)]
    BY <2>1, <2>3, <2>5, ChannelTypes
  <2>8. QED
    BY <1>1, <2>6, <2>7 DEF BrokerRecv
<1>2. ASSUME NEW b \in Bearers, SwallowAck(b) PROVE TypeInv'
  <2>1. acks' \in [Bearers -> Seq(Nat)]
    BY <1>2, ChannelTypes DEF SwallowAck
  <2>2. QED
    BY <1>2, <2>1 DEF SwallowAck
<1>3. ASSUME NEW b \in Bearers, ConnLost(b) PROVE TypeInv'
  BY <1>3, EmptySeq DEF ConnLost
<1>4. CASE PowerLoss
  <2>1. lossy' \in BOOLEAN
    BY <1>4 DEF PowerLoss
  <2>2. chunk' \in Seq(Record)
    BY <1>4, EmptySeq DEF PowerLoss, FlushOver
  <2>3. faults' \in Nat
    BY <1>4 DEF PowerLoss
  <2>4. nextMsg' \in [Bearers -> Nat] /\ powered' \in BOOLEAN
    BY <1>4 DEF PowerLoss
  <2>5. /\ pc0' = "idle" /\ rider' = NoUid
        /\ pc1' = "idle" /\ bearer' = "none"
    BY <1>4 DEF PowerLoss, FlushOver, TapOver
  <2>6. UNCHANGED <<flash, net, nextId, received, redelivered, retired>>
    BY <1>4 DEF PowerLoss
  <2>7. QED
    BY <2>1, <2>2, <2>3, <2>4, <2>5, <2>6
<1>5. CASE Boot
  BY <1>5, EmptySeq DEF Boot
<1>6. CASE SyncComplete
  BY <1>6 DEF SyncComplete
<1>7. QED
  BY <1>1, <1>2, <1>3, <1>4, <1>5, <1>6 DEF Environment

LEMMA TypeStutter ==
  ASSUME TypeInv, UNCHANGED vars
  PROVE  TypeInv'
BY DEF TypeInv, TypeOK, vars, flash, core0, core1, net, history

LEMMA TypeNext ==
  ASSUME TypeInv, [Next]_vars
  PROVE  TypeInv'
BY TypeCore0, TypeCore1, TypeEnvironment, TypeStutter DEF Next

\* Every variable has its type: no line without a card, no offset or message
\* id out of the naturals, whatever the order of the two tasks' steps.
THEOREM TypeCorrect == Spec => []TypeOK
<1>1. Init => TypeInv
  BY TypeInit
<1>2. TypeInv /\ [Next]_vars => TypeInv'
  BY TypeNext
<1>3. TypeInv => TypeOK
  BY DEF TypeInv
<1>4. QED
  BY <1>1, <1>2, <1>3, PTL DEF Spec

---------------------------------------------------------------------------
(* The chunk: one writer appends, the other deletes, and the lock is free  *)
(* between the read of the chunk and its deletion.                         *)

LEMMA ChunkInit == Init => ChunkInv
<1> SUFFICES ASSUME Init PROVE ChunkInv
  OBVIOUS
<1>1. pc1 = "idle"
  BY DEF Init
<1>2. QED
  BY <1>1, TypeInit DEF ChunkInv, ChunkIsPrefix

\* An append beside a flush.
LEMMA ChunkAppend ==
  ASSUME ChunkInv, NEW r \in Record, txLog' = Append(txLog, r), UNCHANGED <<pc1, chunk>>
  PROVE  ChunkIsPrefix'
<1> SUFFICES ASSUME pc1 \in {"publish", "wait", "delete", "remove"}
             PROVE  /\ Len(chunk) <= Len(txLog')
                    /\ chunk = FirstLines(txLog', Len(chunk))
  BY DEF ChunkIsPrefix
<1>1. txLog \in Seq(Record) /\ chunk \in Seq(Record)
  BY DEF ChunkInv, TypeInv, TypeOK
<1>2. Len(chunk) \in 0 .. Len(txLog) /\ chunk = FirstLines(txLog, Len(chunk))
  BY <1>1, LenProperties DEF ChunkInv, ChunkIsPrefix
<1>3. Len(txLog') = Len(txLog) + 1
  BY <1>1, AppendFacts
<1>4. FirstLines(txLog', Len(chunk)) = FirstLines(txLog, Len(chunk))
  BY <1>1, <1>2, FirstLinesOfAppend
<1>5. QED
  BY <1>1, <1>2, <1>3, <1>4, LenProperties

\* Steps that leave the file and the chunk alone, or leave the flush.
LEMMA ChunkFrame ==
  ASSUME ChunkInv,
         \/ pc1' \notin {"publish", "wait", "delete", "remove"}
         \/ /\ pc1 \in {"publish", "wait", "delete", "remove"}
            /\ UNCHANGED <<txLog, chunk>>
         \/ UNCHANGED <<txLog, chunk, pc1>>
  PROVE  ChunkIsPrefix'
BY DEF ChunkInv, ChunkIsPrefix

LEMMA ChunkNext ==
  ASSUME ChunkInv, [Next]_vars
  PROVE  ChunkInv'
<1>1. SUFFICES ChunkIsPrefix'
  BY TypeNext DEF ChunkInv
<1>2. CASE Core0
  <2> USE <1>2 DEF Core0Only, core1
  <2>1. ASSUME NEW u \in Uids, Tap(u) PROVE ChunkIsPrefix'
    BY <2>1, ChunkFrame DEF Tap
  <2>2. ASSUME NEW u \in Uids, Register(u) PROVE ChunkIsPrefix'
    BY <2>2, WriteLineType, ChunkAppend DEF Register, WriteLine, Kinds, ChunkInv
  <2>3. CASE CountTaps \/ CountTapsTimeout
    BY <2>3, ChunkFrame DEF CountTaps, CountTapsTimeout
  <2>4. CASE CountLines \/ CountLinesTimeout
    BY <2>4, ChunkFrame DEF CountLines, CountLinesTimeout
  <2>5. CASE AppendTx
    <3>1. CASE Len(txLog) < MaxLines
      <4>1. rider \in Uids
        BY <2>5 DEF AppendTx, Core0At, ChunkInv, TypeInv
      <4>2. QED
        BY <2>5, <3>1, <4>1, WriteLineType, ChunkAppend
           DEF AppendTx, WriteLine, Kinds, ChunkInv
    <3>2. CASE ~(Len(txLog) < MaxLines)
      BY <2>5, <3>2, ChunkFrame DEF AppendTx
    <3>3. QED
      BY <3>1, <3>2
  <2>6. CASE AppendRefused
    BY <2>6, ChunkFrame DEF AppendRefused
  <2>7. QED
    BY <2>1, <2>2, <2>3, <2>4, <2>5, <2>6 DEF Core0, Core0Step
<1>3. CASE Core1
  <2> USE DEF flash, Core1At, FlushOver
  <2>1. CASE OpenGsm \/ StatusAcked \/ StatusTimeout \/ StreamNothing
    BY <2>1, ChunkFrame DEF OpenGsm, StatusAcked, StatusTimeout, StreamNothing
  <2>2. ASSUME NEW b \in Bearers, StreamChunk(b) PROVE ChunkIsPrefix'
    <3>1. txLog \in Seq(Record) /\ ChunkLen(txLog) \in 0 .. Len(txLog)
      BY ChunkLenRange DEF ChunkInv, TypeInv, TypeOK
    <3>2. chunk' = FirstLines(txLog, ChunkLen(txLog)) /\ UNCHANGED txLog
      BY <2>2 DEF StreamChunk
    <3>3. Len(chunk') = ChunkLen(txLog)
      BY <3>1, <3>2, FirstLinesFacts
    <3>4. QED
      BY <3>1, <3>2, <3>3, LenProperties DEF ChunkIsPrefix
  <2>3. CASE Publish
    BY <2>3, ChunkFrame DEF Publish
  <2>4. CASE PublishFailed \/ AckTimeout \/ DeleteRefused
    BY <2>4, ChunkFrame DEF PublishFailed, AckTimeout, DeleteRefused
  <2>5. CASE RecvAck
    BY <2>5, ChunkFrame DEF RecvAck
  <2>6. CASE Delete \/ DeleteShort
    BY <2>6, ChunkFrame DEF Delete, DeleteShort
  <2>7. CASE Remove \/ Rename \/ Stamp
    BY <2>7, ChunkFrame DEF Remove, Rename, Stamp
  <2>8. QED
    BY <1>3, <2>1, <2>2, <2>3, <2>4, <2>5, <2>6, <2>7 DEF Core1, Core1Step
<1>4. CASE Environment
  <2> USE DEF flash, core1, NetOnly, FlushOver
  <2>1. ASSUME NEW b \in Bearers, BrokerRecv(b) \/ SwallowAck(b) \/ ConnLost(b)
        PROVE  ChunkIsPrefix'
    BY <2>1, ChunkFrame DEF BrokerRecv, SwallowAck, ConnLost
  <2>2. CASE PowerLoss
    BY <2>2, ChunkFrame DEF PowerLoss
  <2>3. CASE Boot \/ SyncComplete
    BY <2>3, ChunkFrame DEF Boot, SyncComplete
  <2>4. QED
    BY <1>4, <2>1, <2>2, <2>3 DEF Environment
<1>5. CASE UNCHANGED vars
  BY <1>5, ChunkFrame DEF vars, flash, core1
<1>6. QED
  BY <1>2, <1>3, <1>4, <1>5 DEF Next

\* The byte offset of a chunk stays good from the moment it is taken, through
\* the publish and the wait without the mutex, to the delete that uses it.
THEOREM ChunkStaysPrefix == Spec => []ChunkIsPrefix
<1>1. Init => ChunkInv
  BY ChunkInit
<1>2. ChunkInv /\ [Next]_vars => ChunkInv'
  BY ChunkNext
<1>3. ChunkInv => ChunkIsPrefix
  BY DEF ChunkInv
<1>4. QED
  BY <1>1, <1>2, <1>3, PTL DEF Spec

---------------------------------------------------------------------------
(* The offline tap limit.                                                  *)

LEMMA CountUidNat ==
  ASSUME TypeInv, NEW u
  PROVE  CountUid(txLog, u) \in Nat /\ CountUid(tempLog, u) \in Nat
BY TapLinesFinite DEF TypeInv, TypeOK

LEMMA LookbackInit == Init => LookbackInv
<1> SUFFICES ASSUME Init PROVE LookbackInv
  OBVIOUS
<1>1. \A u \in Uids : CountUid(txLog, u) = 0
  BY CountUidEmpty DEF Init
<1>2. pc0 = "idle" /\ pc1 = "idle"
  BY DEF Init
<1>3. QED
  BY <1>1, <1>2, ChunkInit, LedgerAssumption DEF LookbackInv

\* Steps that change neither file and keep out of the delete.
LEMMA LookbackFrame ==
  ASSUME LookbackInv, UNCHANGED <<txLog, tempLog>>,
         UNCHANGED pc1 \/ {pc1, pc1'} \cap {"remove", "rename"} = {},
         UNCHANGED <<pc0, rider>> \/ pc0' \notin {"lines", "append"}
                                  \/ CountUid(Ledger, rider') < MaxTapsPerUid,
         ChunkInv'
  PROVE  LookbackInv'
<1>1. (pc1' = "rename" <=> pc1 = "rename") /\ (pc1' = "remove" <=> pc1 = "remove")
  OBVIOUS
<1>2. Ledger' = Ledger
  BY <1>1 DEF Ledger
<1>3. QED
  BY <1>1, <1>2 DEF LookbackInv

LEMMA LookbackNext ==
  ASSUME LookbackInv, [Next]_vars
  PROVE  LookbackInv'
<1> USE DEF Core0At, Core1At
<1>1. ChunkInv /\ TypeInv /\ ChunkInv' /\ TypeInv'
  BY ChunkNext DEF LookbackInv, ChunkInv
<1>2. CASE Core0
  <2> USE <1>1, <1>2 DEF Core0Only, core1
  <2>1. ASSUME NEW u \in Uids, Tap(u) PROVE LookbackInv'
    BY <2>1, LookbackFrame DEF Tap
  <2>2. ASSUME NEW u \in Uids, Register(u) PROVE LookbackInv'
    <3>1. /\ txLog' = Append(txLog, [id |-> nextId, kind |-> "link", uid |-> u])
          /\ [id |-> nextId, kind |-> "link", uid |-> u] \in Record
          /\ LockFree /\ UNCHANGED <<tempLog, pc0, rider, pc1>>
      BY <2>2, WriteLineType DEF Register, WriteLine, Kinds, core0
    <3>2. \A v \in Uids : CountUid(txLog', v) = CountUid(txLog, v)
      BY <3>1, CountUidAppendOther DEF TypeInv, TypeOK
    <3>3. Ledger = txLog /\ Ledger' = txLog'
      BY <3>1 DEF Ledger, LockFree
    <3>4. pc0' \in {"lines", "append"} => rider' \in Uids
      BY DEF TypeInv
    <3>5. QED
      BY <3>1, <3>2, <3>3, <3>4 DEF LookbackInv, LockFree
  <2>3. CASE CountTaps
    <3>1. Ledger = txLog /\ UNCHANGED <<txLog, tempLog, pc1>>
      BY <2>3 DEF CountTaps, LockFree, Ledger
    <3>2. \/ UNCHANGED rider /\ CountUid(txLog, rider) < MaxTapsPerUid
          \/ pc0' = "idle"
      BY <2>3 DEF CountTaps, TapOver
    <3>3. QED
      BY <3>1, <3>2, LookbackFrame
  <2>4. CASE CountTapsTimeout \/ AppendRefused
    BY <2>4, LookbackFrame DEF CountTapsTimeout, AppendRefused, TapOver
  <2>5. CASE CountLines \/ CountLinesTimeout
    <3>1. UNCHANGED <<txLog, tempLog, pc1>> /\ pc0 = "lines"
      BY <2>5 DEF CountLines, CountLinesTimeout
    <3>2. UNCHANGED rider \/ pc0' = "idle"
      BY <2>5 DEF CountLines, CountLinesTimeout, TapOver
    <3>3. CountUid(Ledger, rider) < MaxTapsPerUid
      BY <3>1 DEF LookbackInv
    <3>4. QED
      BY <3>1, <3>2, <3>3, LookbackFrame
  <2>6. CASE AppendTx
    <3>1. /\ LockFree /\ pc0 = "append" /\ pc0' = "idle" /\ rider \in Uids
          /\ UNCHANGED <<tempLog, pc1>>
      BY <2>6 DEF AppendTx, TapOver, TypeInv
    <3>2. CASE Len(txLog) < MaxLines
      <4> DEFINE line == [id |-> nextId, kind |-> "tap", uid |-> rider]
      <4>1. txLog' = Append(txLog, line) /\ line \in Record
        BY <2>6, <3>1, <3>2, WriteLineType DEF AppendTx, WriteLine, Kinds
      <4>2. line.kind = "tap" /\ line.uid = rider
        OBVIOUS
      <4> HIDE DEF line
      <4>3. txLog \in Seq(Record)
        BY DEF TypeInv, TypeOK
      <4>4. CountUid(txLog', rider) = CountUid(txLog, rider) + 1
        BY <4>1, <4>2, <4>3, CountUidAppendTap
      <4>5. CountUid(txLog, rider) < MaxTapsPerUid
        BY <3>1 DEF LookbackInv, Ledger, LockFree
      <4>6. \A v \in Uids \ {rider} : CountUid(txLog', v) = CountUid(txLog, v)
        BY <4>1, <4>2, <4>3, CountUidAppendOther
      <4>7. \A v \in Uids : CountUid(txLog', v) <= MaxTapsPerUid
        BY <4>4, <4>5, <4>6, CountUidNat, LedgerAssumption DEF LookbackInv
      <4>8. QED
        BY <3>1, <4>7 DEF LookbackInv, LockFree
    <3>3. CASE ~(Len(txLog) < MaxLines)
      BY <2>6, <3>1, <3>3, LookbackFrame DEF AppendTx
    <3>4. QED
      BY <3>2, <3>3
  <2>7. QED
    BY <2>1, <2>2, <2>3, <2>4, <2>5, <2>6 DEF Core0, Core0Step
<1>3. CASE Core1
  <2> USE <1>1, <1>3 DEF flash, Core1Only, core0, FlushOver
  <2>1. CASE OpenGsm \/ StatusAcked \/ StatusTimeout \/ StreamNothing
    BY <2>1, LookbackFrame DEF OpenGsm, StatusAcked, StatusTimeout, StreamNothing
  <2>2. ASSUME NEW b \in Bearers, StreamChunk(b) PROVE LookbackInv'
    BY <2>2, LookbackFrame DEF StreamChunk
  <2>3. CASE Publish
    BY <2>3, LookbackFrame DEF Publish
  <2>4. CASE PublishFailed \/ AckTimeout \/ DeleteRefused \/ RecvAck \/ Stamp
    BY <2>4, LookbackFrame DEF PublishFailed, AckTimeout, DeleteRefused, RecvAck, Stamp
  <2>5. CASE Delete \/ DeleteShort
    <3>1. /\ pc1 = "delete" /\ pc1' = "remove"
          /\ UNCHANGED <<txLog, pc0, rider>>
      BY <2>5 DEF Delete, DeleteShort
    <3>2. txLog \in Seq(Record) /\ Len(chunk) \in 0 .. Len(txLog)
      BY <3>1, LenProperties DEF ChunkInv, ChunkIsPrefix, TypeInv, TypeOK
    <3>3. \A u \in Uids : CountUid(DropLines(txLog, Len(chunk)), u) <= CountUid(txLog, u)
      BY <3>2, CountUidDrop
    <3>4. /\ DropLines(txLog, Len(chunk)) \in Seq(Record)
          /\ Len(DropLines(txLog, Len(chunk))) = Len(txLog) - Len(chunk)
      BY <3>2, DropLinesFacts
    <3>5. \A u \in Uids : CountUid(tempLog', u) <= CountUid(txLog, u)
      <4>1. CASE Delete
        BY <3>3, <4>1 DEF Delete
      <4>2. CASE DeleteShort
        <5>1. PICK n \in 0 .. Len(txLog) - Len(chunk) - 1 :
                tempLog' = FirstLines(DropLines(txLog, Len(chunk)), n)
          BY <4>2 DEF DeleteShort
        <5>2. n \in 0 .. Len(DropLines(txLog, Len(chunk)))
          BY <3>2, <3>4, LenProperties
        <5>3. \A u \in Uids : /\ CountUid(tempLog', u) \in Nat
                              /\ CountUid(txLog, u) \in Nat
                              /\ CountUid(DropLines(txLog, Len(chunk)), u) \in Nat
          BY <3>2, <3>4, TapLinesFinite DEF TypeInv, TypeOK
        <5>4. \A u \in Uids :
                CountUid(tempLog', u) <= CountUid(DropLines(txLog, Len(chunk)), u)
          BY <3>4, <5>1, <5>2, CountUidFirst
        <5>5. QED
          BY <3>3, <5>3, <5>4
      <4>3. QED
        BY <2>5, <4>1, <4>2
    <3>6. Ledger' = Ledger
      BY <3>1 DEF Ledger
    <3>7. QED
      BY <3>1, <3>5, <3>6 DEF LookbackInv
  <2>6. CASE Remove
    <3>1. /\ pc1 = "remove" /\ pc1' = "rename" /\ txLog' = <<>>
          /\ UNCHANGED <<tempLog, pc0, rider>>
      BY <2>6 DEF Remove
    <3>2. \A u \in Uids : /\ CountUid(tempLog, u) <= CountUid(txLog, u)
                          /\ CountUid(txLog, u) <= MaxTapsPerUid
      BY <3>1 DEF LookbackInv
    <3>3. \A u \in Uids : /\ CountUid(txLog', u) <= MaxTapsPerUid
                          /\ CountUid(tempLog', u) <= MaxTapsPerUid
      BY <3>1, <3>2, CountUidNat, CountUidEmpty, LedgerAssumption
    <3>4. pc0 \in {"lines", "append"} => CountUid(tempLog, rider) < MaxTapsPerUid
      BY <3>1, <3>2, CountUidNat, LedgerAssumption DEF LookbackInv, Ledger, TypeInv
    <3>5. Ledger' = tempLog
      BY <3>1 DEF Ledger
    <3>6. QED
      BY <3>1, <3>3, <3>4, <3>5 DEF LookbackInv
  <2>7. CASE Rename
    <3>1. /\ pc1 = "rename" /\ pc1' = "stamp" /\ txLog' = tempLog
          /\ UNCHANGED <<pc0, rider>>
      BY <2>7 DEF Rename
    <3>2. Ledger' = Ledger
      BY <3>1 DEF Ledger
    <3>3. QED
      BY <3>1, <3>2 DEF LookbackInv
  <2>8. QED
    BY <2>1, <2>2, <2>3, <2>4, <2>5, <2>6, <2>7 DEF Core1, Core1Step
<1>4. CASE Environment
  <2> USE <1>1, <1>4 DEF flash, core0, core1, NetOnly, TapOver, FlushOver
  <2>1. ASSUME NEW b \in Bearers, BrokerRecv(b) \/ SwallowAck(b) \/ ConnLost(b)
        PROVE  LookbackInv'
    BY <2>1, LookbackFrame DEF BrokerRecv, SwallowAck, ConnLost
  <2>2. CASE PowerLoss
    <3>1. pc0' = "idle" /\ pc1' = "idle" /\ UNCHANGED txLog
      BY <2>2 DEF PowerLoss
    <3>2. QED
      BY <3>1 DEF LookbackInv
  <2>3. CASE Boot \/ SyncComplete
    BY <2>3, LookbackFrame DEF Boot, SyncComplete
  <2>4. QED
    BY <2>1, <2>2, <2>3 DEF Environment
<1>5. CASE UNCHANGED vars
  BY <1>1, <1>5, LookbackFrame DEF vars, flash, core0, core1
<1>6. QED
  BY <1>2, <1>3, <1>4, <1>5 DEF Next

LEMMA LookbackBounds ==
  ASSUME LookbackInv
  PROVE  OfflineTapLimit
BY DEF LookbackInv, OfflineTapLimit, Ledger

\* The file never holds more unsent fares of one card than the limit, over
\* either bearer and through every fault: validation and append take the mutex
\* separately, but Core 0 alone appends and a delete only removes.
THEOREM OfflineTapsBounded == Spec => []OfflineTapLimit
<1>1. Init => LookbackInv
  BY LookbackInit
<1>2. LookbackInv /\ [Next]_vars => LookbackInv'
  BY LookbackNext
<1>3. LookbackInv => OfflineTapLimit
  BY LookbackBounds
<1>4. QED
  BY <1>1, <1>2, <1>3, PTL DEF Spec

---------------------------------------------------------------------------
(* Deletion after acknowledgement, where the wait compares message ids.    *)

LEMMA AckInit == Init => AckInv
<1> SUFFICES ASSUME Init PROVE AckInv
  OBVIOUS
<1>1. \A b \in Bearers : Range(uplink[b]) = {} /\ Range(acks[b]) = {}
  BY RangeEmpty DEF Init
<1>2. pc1 = "idle" /\ retired = {}
  BY DEF Init
<1>3. QED
  BY <1>1, <1>2, ChunkInit DEF AckInv, AckedBeforeDelete

\* Steps that add nothing to a connection, keep what the broker received, and
\* neither start nor end a wait nor delete anything.
LEMMA AckFrame ==
  ASSUME AckInv, ChunkInv',
         UNCHANGED <<powered, nextMsg, retired>>,
         received \subseteq received',
         \A b \in Bearers : /\ Range(uplink'[b]) \subseteq Range(uplink[b])
                            /\ Range(acks'[b]) \subseteq Range(acks[b]),
         \/ UNCHANGED <<pc1, bearer, chunk>>
         \/ pc1' \notin {"wait", "delete", "remove"}
         \/ UNCHANGED <<bearer, chunk>> /\ pc1 = "delete" /\ pc1' = "remove"
  PROVE  AckInv'
<1>1. powered' => \A b \in Bearers :
        /\ \A msg \in Range(uplink'[b]) : msg.id < nextMsg'[b]
        /\ \A id \in Range(acks'[b]) : id < nextMsg'[b]
  BY DEF AckInv
<1>2. powered' /\ pc1' = "wait" =>
        /\ \A msg \in Range(uplink'[bearer']) : msg.id = CurrentMsg' => msg.lines = chunk'
        /\ CurrentMsg' \in Range(acks'[bearer']) => Ids(chunk') \subseteq received'
  <2> SUFFICES ASSUME powered', pc1' = "wait"
               PROVE  /\ \A msg \in Range(uplink'[bearer']) :
                           msg.id = CurrentMsg' => msg.lines = chunk'
                      /\ CurrentMsg' \in Range(acks'[bearer'])
                           => Ids(chunk') \subseteq received'
    OBVIOUS
  <2>1. UNCHANGED <<pc1, bearer, chunk>>
    OBVIOUS
  <2>2. bearer \in Bearers /\ CurrentMsg' = CurrentMsg
    BY <2>1 DEF CurrentMsg, AckInv, ChunkInv, TypeInv
  <2>3. QED
    BY <2>1, <2>2 DEF AckInv
<1>3. pc1' \in {"delete", "remove"} => Ids(chunk') \subseteq received'
  BY DEF AckInv
<1>4. AckedBeforeDelete'
  BY DEF AckInv, AckedBeforeDelete
<1>5. QED
  BY <1>1, <1>2, <1>3, <1>4 DEF AckInv

\* The queues after a receive: what Tail leaves was there before.
LEMMA TailShrinks ==
  ASSUME TypeInv, NEW b \in Bearers, NEW c \in Bearers
  PROVE  /\ acks[b] # <<>> =>
              Range([acks EXCEPT ![b] = Tail(@)][c]) \subseteq Range(acks[c])
         /\ uplink[b] # <<>> =>
              Range([uplink EXCEPT ![b] = Tail(@)][c]) \subseteq Range(uplink[c])
<1>1. acks \in [Bearers -> Seq(Nat)] /\ uplink \in [Bearers -> Seq(Message)]
  BY DEF TypeInv, TypeOK
<1>2. acks[b] # <<>> => Range(Tail(acks[b])) \subseteq Range(acks[b])
  BY <1>1, RangeHeadTail
<1>3. uplink[b] # <<>> => Range(Tail(uplink[b])) \subseteq Range(uplink[b])
  BY <1>1, RangeHeadTail
<1>4. QED
  BY <1>1, <1>2, <1>3

LEMMA QueueIds ==
  ASSUME TypeInv, NEW b \in Bearers
  PROVE  /\ \A msg \in Range(uplink[b]) : msg.id \in Nat
         /\ \A id \in Range(acks[b]) : id \in Nat
<1>1. uplink[b] \in Seq(Message) /\ acks[b] \in Seq(Nat)
  BY DEF TypeInv, TypeOK
<1>2. Range(uplink[b]) \subseteq Message /\ Range(acks[b]) \subseteq Nat
  BY <1>1, RangeType
<1>3. QED
  BY <1>2 DEF Message

LEMMA AckCore1 ==
  ASSUME AckInv, ChunkInv', "gsm" \notin Bearers, Core1
  PROVE  AckInv'
<1> USE DEF Core1At, Core1Only, FlushOver, flash, net
<1>1. TypeInv /\ ChunkInv
  BY DEF AckInv, ChunkInv
<1>2. CASE OpenGsm
  BY <1>2 DEF OpenGsm
<1>3. CASE StatusAcked
  <2>1. bearer \in Bearers /\ acks' = [acks EXCEPT ![bearer] = Tail(@)] /\ acks[bearer] # <<>>
    BY <1>1, <1>3 DEF StatusAcked, TypeInv
  <2>2. \A c \in Bearers : Range(acks'[c]) \subseteq Range(acks[c])
    BY <1>1, <2>1, TailShrinks
  <2>3. QED
    BY <1>3, <2>2, AckFrame DEF StatusAcked
<1>4. CASE StatusTimeout \/ StreamNothing \/ AckTimeout \/ PublishFailed
  <2>1. CASE StatusTimeout \/ StreamNothing \/ AckTimeout
    BY <2>1, AckFrame DEF StatusTimeout, StreamNothing, AckTimeout
  <2>2. CASE PublishFailed
    <3>1. /\ pc1' = "idle" /\ UNCHANGED <<powered, uplink, acks, received, retired>>
          /\ bearer \in Bearers /\ nextMsg' = [nextMsg EXCEPT ![bearer] = @ + 1]
      BY <1>1, <2>2 DEF PublishFailed, TypeInv
    <3>2. \A b \in Bearers :
            /\ nextMsg[b] \in Nat /\ nextMsg'[b] \in Nat /\ nextMsg[b] <= nextMsg'[b]
            /\ \A msg \in Range(uplink[b]) : msg.id \in Nat
            /\ \A id \in Range(acks[b]) : id \in Nat
      <4>1. nextMsg \in [Bearers -> Nat]
        BY <1>1 DEF TypeInv, TypeOK
      <4>2. QED
        BY <1>1, <3>1, <4>1, QueueIds
    <3>3. QED
      BY <3>1, <3>2 DEF AckInv, AckedBeforeDelete
  <2>3. QED
    BY <1>4, <2>1, <2>2
<1>5. ASSUME NEW b \in Bearers, StreamChunk(b) PROVE AckInv'
  BY <1>5, AckFrame DEF StreamChunk
<1>6. CASE Publish
  <2> DEFINE m == [id |-> nextMsg[bearer], lines |-> chunk]
  <2>1. /\ bearer \in Bearers /\ bearer # "gsm" /\ nextMsg[bearer] \in Nat
        /\ m \in Message
    BY <1>1, <1>6 DEF Publish, TypeInv, TypeOK, Message
  <2>2. /\ uplink' = [uplink EXCEPT ![bearer] = Append(@, m)]
        /\ nextMsg' = [nextMsg EXCEPT ![bearer] = @ + 1]
        /\ pc1' = "wait"
        /\ UNCHANGED <<powered, bearer, chunk, received, retired>>
    BY <1>6 DEF Publish
  <2>3. acks' = acks
    <3>1. acks' = [acks EXCEPT ![bearer] = SubSeq(@, 1, Len(@))]
      <4>1. PICK n \in 0 .. (IF bearer = "gsm" THEN Len(acks[bearer]) ELSE 0) :
              acks' = [acks EXCEPT ![bearer] = SubSeq(@, n + 1, Len(@))]
        BY <1>6 DEF Publish
      <4>2. n + 1 = 1
        BY <2>1
      <4>3. QED
        BY <4>1, <4>2
    <3>2. acks \in [Bearers -> Seq(Nat)]
      BY <1>1 DEF TypeInv, TypeOK
    <3>3. SubSeq(acks[bearer], 1, Len(acks[bearer])) = acks[bearer]
      BY <2>1, <3>2, SubSeqFull
    <3>4. QED
      BY <3>1, <3>2, <3>3
  <2>4. /\ m.id = nextMsg[bearer] /\ m.lines = chunk
        /\ uplink \in [Bearers -> Seq(Message)] /\ nextMsg \in [Bearers -> Nat]
    BY <1>1 DEF TypeInv, TypeOK
  <2> HIDE DEF m
  <2>5. Range(uplink'[bearer]) = Range(uplink[bearer]) \cup {m}
    BY <2>1, <2>2, <2>4, RangeAppend
  <2>6. \A b \in Bearers \ {bearer} : uplink'[b] = uplink[b] /\ nextMsg'[b] = nextMsg[b]
    BY <2>2, <2>4
  <2>7. nextMsg'[bearer] = nextMsg[bearer] + 1 /\ CurrentMsg' = nextMsg[bearer]
    BY <2>1, <2>2, <2>4 DEF CurrentMsg
  <2>8. CASE ~powered
    BY <1>6, <2>8 DEF Publish
  <2>9. CASE powered
    <3>1. \A b \in Bearers : /\ \A msg \in Range(uplink[b]) : msg.id < nextMsg[b]
                             /\ \A id \in Range(acks[b]) : id < nextMsg[b]
      BY <2>9 DEF AckInv
    <3>2. \A b \in Bearers : nextMsg[b] \in Nat
      BY <2>4
    <3>3. \A b \in Bearers : /\ \A msg \in Range(uplink[b]) : msg.id \in Nat
                             /\ \A id \in Range(acks[b]) : id \in Nat
      BY <1>1, QueueIds
    <3>4. \A b \in Bearers : /\ \A msg \in Range(uplink'[b]) : msg.id < nextMsg'[b]
                             /\ \A id \in Range(acks'[b]) : id < nextMsg'[b]
      <4>1. \A b \in Bearers \ {bearer} :
              /\ \A msg \in Range(uplink'[b]) : msg.id < nextMsg'[b]
              /\ \A id \in Range(acks'[b]) : id < nextMsg'[b]
        BY <2>3, <2>6, <3>1
      <4>2. \A msg \in Range(uplink'[bearer]) : msg.id < nextMsg'[bearer]
        BY <2>1, <2>4, <2>5, <2>7, <3>1, <3>3
      <4>3. \A id \in Range(acks'[bearer]) : id < nextMsg'[bearer]
        BY <2>1, <2>3, <2>7, <3>1, <3>3
      <4>4. QED
        BY <4>1, <4>2, <4>3
    <3>5. \A msg \in Range(uplink'[bearer']) : msg.id = CurrentMsg' => msg.lines = chunk'
      BY <2>1, <2>2, <2>4, <2>5, <2>7, <3>1, <3>3
    <3>6. CurrentMsg' \notin Range(acks'[bearer'])
      BY <2>1, <2>2, <2>3, <2>7, <3>1, <3>3
    <3>7. QED
      BY <2>2, <3>4, <3>5, <3>6 DEF AckInv, AckedBeforeDelete
  <2>10. QED
    BY <2>8, <2>9
<1>7. CASE RecvAck
  <2>1. /\ powered /\ pc1 = "wait" /\ bearer \in Bearers /\ bearer # "gsm"
        /\ acks[bearer] # <<>> /\ acks' = [acks EXCEPT ![bearer] = Tail(@)]
        /\ UNCHANGED <<powered, bearer, chunk, nextMsg, uplink, received, retired>>
    BY <1>1, <1>7 DEF RecvAck, TypeInv
  <2>2. \A c \in Bearers : Range(acks'[c]) \subseteq Range(acks[c])
    BY <1>1, <2>1, TailShrinks
  <2>3. CASE Acknowledges(Head(acks[bearer]))
    <3>1. acks[bearer] \in Seq(Nat)
      BY <1>1, <2>1 DEF TypeInv, TypeOK
    <3>2. CurrentMsg \in Range(acks[bearer])
      BY <2>1, <2>3, <3>1, RangeHeadTail DEF Acknowledges, CurrentMsg
    <3>3. Ids(chunk) \subseteq received
      BY <2>1, <3>2 DEF AckInv
    <3>4. pc1' = "delete"
      BY <1>7, <2>3 DEF RecvAck
    <3>5. QED
      BY <2>1, <2>2, <3>3, <3>4 DEF AckInv, AckedBeforeDelete
  <2>4. CASE ~Acknowledges(Head(acks[bearer]))
    <3>1. pc1' = pc1
      BY <1>7, <2>1, <2>4 DEF RecvAck
    <3>2. QED
      BY <2>1, <2>2, <3>1, AckFrame
  <2>5. QED
    BY <2>3, <2>4
<1>8. CASE Delete \/ DeleteShort
  BY <1>8, AckFrame DEF Delete, DeleteShort
<1>9. CASE DeleteRefused \/ Rename \/ Stamp
  BY <1>9, AckFrame DEF DeleteRefused, Rename, Stamp
<1>10. CASE Remove
  <2>1. /\ pc1 = "remove" /\ pc1' = "rename" /\ retired' = retired \cup Ids(chunk)
        /\ UNCHANGED <<powered, nextMsg, uplink, acks, received>>
    BY <1>10 DEF Remove
  <2>2. AckedBeforeDelete'
    BY <2>1 DEF AckInv, AckedBeforeDelete
  <2>3. QED
    BY <2>1, <2>2 DEF AckInv
<1>11. QED
  BY <1>2, <1>3, <1>4, <1>5, <1>6, <1>7, <1>8, <1>9, <1>10 DEF Core1, Core1Step

LEMMA AckEnvironment ==
  ASSUME AckInv, ChunkInv', "gsm" \notin Bearers, Environment
  PROVE  AckInv'
<1> USE DEF NetOnly, FlushOver, TapOver, flash, core1, net, history
<1>1. TypeInv /\ ChunkInv
  BY DEF AckInv, ChunkInv
<1>2. ASSUME NEW b \in Bearers, BrokerRecv(b) PROVE AckInv'
  <2> DEFINE msg == Head(uplink[b])
  <2>1. /\ uplink \in [Bearers -> Seq(Message)] /\ acks \in [Bearers -> Seq(Nat)]
        /\ uplink[b] \in Seq(Message) /\ uplink[b] # <<>> /\ acks[b] \in Seq(Nat)
    BY <1>1, <1>2 DEF TypeInv, TypeOK, BrokerRecv
  <2>2. msg \in Range(uplink[b]) /\ msg \in Message /\ msg.id \in Nat
    <3>1. msg \in Range(uplink[b])
      BY <2>1, RangeHeadTail
    <3>2. msg \in Message
      BY <2>1, <3>1, RangeType
    <3>3. QED
      BY <3>1, <3>2 DEF Message
  <2>3. /\ received' = received \cup Ids(msg.lines)
        /\ acks' = [acks EXCEPT ![b] = Append(@, msg.id)]
        /\ uplink' = [uplink EXCEPT ![b] = Tail(@)]
        /\ UNCHANGED <<powered, pc1, bearer, chunk, nextMsg, retired>>
    BY <1>2 DEF BrokerRecv
  <2> HIDE DEF msg
  <2>4. \A c \in Bearers : Range(uplink'[c]) \subseteq Range(uplink[c])
    BY <1>1, <2>1, <2>3, TailShrinks
  <2>5. Range(acks'[b]) = Range(acks[b]) \cup {msg.id}
    <3>1. acks'[b] = Append(acks[b], msg.id)
      BY <2>1, <2>3
    <3>2. QED
      BY <2>1, <2>2, <3>1, RangeAppend
  <2>6. \A c \in Bearers \ {b} : acks'[c] = acks[c]
    BY <2>1, <2>3
  <2>7. powered' => \A c \in Bearers :
          /\ \A m \in Range(uplink'[c]) : m.id < nextMsg'[c]
          /\ \A id \in Range(acks'[c]) : id < nextMsg'[c]
    BY <2>2, <2>3, <2>4, <2>5, <2>6 DEF AckInv
  <2>8. powered' /\ pc1' = "wait" =>
          /\ \A m \in Range(uplink'[bearer']) : m.id = CurrentMsg' => m.lines = chunk'
          /\ CurrentMsg' \in Range(acks'[bearer']) => Ids(chunk') \subseteq received'
    <3> SUFFICES ASSUME powered, pc1 = "wait"
                 PROVE  /\ \A m \in Range(uplink'[bearer]) :
                             m.id = CurrentMsg => m.lines = chunk
                        /\ CurrentMsg \in Range(acks'[bearer])
                             => Ids(chunk) \subseteq received'
      BY <2>3 DEF CurrentMsg
    <3>1. bearer \in Bearers
      BY <1>1 DEF TypeInv
    <3>2. \A m \in Range(uplink[bearer]) : m.id = CurrentMsg => m.lines = chunk
      BY DEF AckInv
    <3>3. CurrentMsg \in Range(acks[bearer]) => Ids(chunk) \subseteq received'
      BY <2>3 DEF AckInv
    <3>4. bearer = b /\ CurrentMsg = msg.id => Ids(chunk) \subseteq received'
      BY <2>2, <2>3, <3>2
    <3>5. QED
      BY <2>4, <2>5, <2>6, <3>1, <3>2, <3>3, <3>4
  <2>9. pc1' \in {"delete", "remove"} => Ids(chunk') \subseteq received'
    BY <2>3 DEF AckInv
  <2>10. AckedBeforeDelete'
    BY <2>3 DEF AckInv, AckedBeforeDelete
  <2>11. QED
    BY <2>7, <2>8, <2>9, <2>10 DEF AckInv
<1>3. ASSUME NEW b \in Bearers, SwallowAck(b) PROVE AckInv'
  <2>1. acks[b] # <<>> /\ acks' = [acks EXCEPT ![b] = Tail(@)]
    BY <1>3 DEF SwallowAck
  <2>2. \A c \in Bearers : Range(acks'[c]) \subseteq Range(acks[c])
    BY <1>1, <2>1, TailShrinks
  <2>3. QED
    BY <1>3, <2>2, AckFrame DEF SwallowAck
<1>4. ASSUME NEW b \in Bearers, ConnLost(b) PROVE AckInv'
  <2>1. /\ uplink' = [uplink EXCEPT ![b] = <<>>]
        /\ acks' = [acks EXCEPT ![b] = <<>>]
    BY <1>4 DEF ConnLost
  <2>2. uplink \in [Bearers -> Seq(Message)] /\ acks \in [Bearers -> Seq(Nat)]
    BY <1>1 DEF TypeInv, TypeOK
  <2>3. \A c \in Bearers : /\ Range(uplink'[c]) \subseteq Range(uplink[c])
                           /\ Range(acks'[c]) \subseteq Range(acks[c])
    BY <2>1, <2>2, RangeEmpty
  <2>4. QED
    BY <1>4, <2>3, AckFrame DEF ConnLost
<1>5. CASE PowerLoss
  <2>1. ~powered' /\ pc1' = "idle" /\ UNCHANGED <<received, retired>>
    BY <1>5 DEF PowerLoss
  <2>2. QED
    BY <2>1 DEF AckInv, AckedBeforeDelete
<1>6. CASE Boot
  <2>1. /\ \A c \in Bearers : uplink'[c] = <<>> /\ acks'[c] = <<>>
        /\ UNCHANGED <<pc1, bearer, chunk, received, retired>>
    BY <1>6 DEF Boot
  <2>2. \A c \in Bearers : Range(uplink'[c]) = {} /\ Range(acks'[c]) = {}
    BY <2>1, RangeEmpty
  <2>3. pc1' = "wait" => bearer' \in Bearers
    BY DEF ChunkInv, TypeInv
  <2>4. QED
    BY <2>1, <2>2, <2>3 DEF AckInv, AckedBeforeDelete
<1>7. CASE SyncComplete
  BY <1>7, AckFrame DEF SyncComplete
<1>8. QED
  BY <1>2, <1>3, <1>4, <1>5, <1>6, <1>7 DEF Environment

LEMMA AckCore0 ==
  ASSUME AckInv, ChunkInv', Core0
  PROVE  AckInv'
<1>1. Core0Only
  BY DEF Core0, Core0Step, Tap, Register, CountTaps, CountTapsTimeout,
         CountLines, CountLinesTimeout, AppendTx, AppendRefused
<1>2. QED
  BY <1>1, AckFrame DEF Core0Only, core1, net

LEMMA AckNext ==
  ASSUME AckInv, "gsm" \notin Bearers, [Next]_vars
  PROVE  AckInv'
<1>1. ChunkInv'
  BY ChunkNext DEF AckInv
<1>2. CASE Core0
  BY <1>1, <1>2, AckCore0
<1>3. CASE Core1
  BY <1>1, <1>3, AckCore1
<1>4. CASE Environment
  BY <1>1, <1>4, AckEnvironment
<1>5. CASE UNCHANGED vars
  BY <1>1, <1>5, AckFrame DEF vars, flash, core1, net, history
<1>6. QED
  BY <1>2, <1>3, <1>4, <1>5 DEF Next

\* Over Wi-Fi no record is deleted from /tx.log before the broker has it,
\* whatever is delayed, lost, swallowed, resent or reset: the wait compares the
\* message id, an id is never reused on a connection, and the chunk whose
\* offset is deleted is the one that the id was published with.
THEOREM DeletedAfterAck ==
  ASSUME "gsm" \notin Bearers
  PROVE  Spec => []AckedBeforeDelete
<1>1. Init => AckInv
  BY AckInit
<1>2. AckInv /\ [Next]_vars => AckInv'
  BY AckNext
<1>3. AckInv => AckedBeforeDelete
  BY DEF AckInv
<1>4. QED
  BY <1>1, <1>2, <1>3, PTL DEF Spec

=============================================================================
