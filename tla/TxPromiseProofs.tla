-------------------------- MODULE TxPromiseProofs --------------------------
(***************************************************************************)
(* Theorems of TxLedger about the records as a whole: the cap on fares,    *)
(* that none is lost or comes back, that they reach the broker oldest      *)
(* first, and that over Wi-Fi the ledger implements StoreForward.          *)
(***************************************************************************)
EXTENDS TxLedgerProofs

---------------------------------------------------------------------------
(* What an append and the copy of a delete do to a log.                    *)

\* The first m lines of those that the delete keeps: all of them, unless the
\* copy was cut short.
Copied(log, n, m) == FirstLines(DropLines(log, n), m)

LEMMA CopiedFacts ==
  ASSUME NEW log \in Seq(Record), NEW n \in 0 .. Len(log), NEW m \in 0 .. Len(log) - n
  PROVE  /\ Copied(log, n, m) \in Seq(Record)
         /\ Len(Copied(log, n, m)) = m
         /\ \A k \in 1 .. m : Copied(log, n, m)[k] = log[k + n]
<1> DEFINE rest == DropLines(log, n)
<1>1. Len(log) \in Nat
  BY LenProperties
<1>2. /\ rest \in Seq(Record) /\ Len(rest) = Len(log) - n
      /\ \A k \in 1 .. Len(log) - n : rest[k] = log[k + n]
  BY DropLinesFacts
<1> HIDE DEF rest
<1>3. /\ FirstLines(rest, m) \in Seq(Record) /\ Len(FirstLines(rest, m)) = m
      /\ \A k \in 1 .. m : FirstLines(rest, m)[k] = rest[k]
  BY <1>2, FirstLinesFacts
<1>4. Copied(log, n, m) = FirstLines(rest, m)
  BY DEF Copied, rest
<1>5. \A k \in 1 .. m : k \in 1 .. Len(log) - n
  BY <1>1
<1>6. \A k \in 1 .. m : FirstLines(rest, m)[k] = log[k + n]
  BY <1>2, <1>3, <1>5
<1>7. QED
  BY <1>3, <1>4, <1>6

LEMMA CopiedWhole ==
  ASSUME NEW log \in Seq(Record), NEW n \in 0 .. Len(log)
  PROVE  DropLines(log, n) = Copied(log, n, Len(log) - n)
<1> DEFINE rest == DropLines(log, n)
           copy == Copied(log, n, Len(log) - n)
<1>1. Len(log) \in Nat
  BY LenProperties
<1>2. /\ rest \in Seq(Record) /\ Len(rest) = Len(log) - n
      /\ \A k \in 1 .. Len(log) - n : rest[k] = log[k + n]
  BY DropLinesFacts
<1>3. /\ copy \in Seq(Record) /\ Len(copy) = Len(log) - n
      /\ \A k \in 1 .. Len(log) - n : copy[k] = log[k + n]
  <2>1. Len(log) - n \in 0 .. Len(log) - n
    BY <1>1
  <2>2. QED
    BY <2>1, CopiedFacts
<1> HIDE DEF rest, copy
<1>4. \A k \in 1 .. Len(rest) : rest[k] = copy[k]
  BY <1>2, <1>3
<1>5. rest = copy
  BY <1>2, <1>3, <1>4, SeqEqual
<1>6. QED
  BY <1>5 DEF rest, copy

FareLines(log) == {k \in DOMAIN log : log[k].kind = "tap"}

LEMMA FareCountFacts ==
  ASSUME NEW log \in Seq(Record)
  PROVE  /\ FareLines(log) \subseteq 1 .. Len(log)
         /\ IsFiniteSet(FareLines(log))
         /\ FareCount(log) = Cardinality(FareLines(log))
         /\ FareCount(log) \in 0 .. Len(log)
<1>1. Len(log) \in Nat /\ FareLines(log) \subseteq 1 .. Len(log)
  BY LenProperties DEF FareLines
<1>2. IsFiniteSet(1 .. Len(log)) /\ Cardinality(1 .. Len(log)) = Len(log)
  <2>1. Len(log) \in Int /\ 1 \in Int
    BY <1>1
  <2>2. /\ IsFiniteSet(1 .. Len(log))
        /\ Cardinality(1 .. Len(log)) = IF 1 > Len(log) THEN 0 ELSE Len(log) - 1 + 1
    BY <2>1, FS_Interval
  <2>3. QED
    BY <1>1, <2>2
<1>3. /\ IsFiniteSet(FareLines(log))
      /\ Cardinality(FareLines(log)) <= Cardinality(1 .. Len(log))
  BY <1>1, <1>2, FS_Subset
<1>4. Cardinality(FareLines(log)) \in Nat
  BY <1>3, FS_CardinalityType
<1>5. FareCount(log) = Cardinality(FareLines(log))
  BY DEF FareCount, FareLines
<1>6. FareCount(log) \in 0 .. Len(log)
  BY <1>1, <1>2, <1>3, <1>4, <1>5
<1>7. QED
  BY <1>1, <1>3, <1>5, <1>6

LEMMA FareCountEmpty == FareCount(<<>>) = 0
<1>1. {k \in DOMAIN <<>> : <<>>[k].kind = "tap"} = {}
  OBVIOUS
<1>2. QED
  BY <1>1, FS_EmptySet DEF FareCount

\* A registration is no fare.
LEMMA FareCountAppendLink ==
  ASSUME NEW log \in Seq(Record), NEW r \in Record, r.kind # "tap"
  PROVE  FareCount(Append(log, r)) = FareCount(log)
<1> DEFINE longer == Append(log, r)
<1>1. Len(log) \in Nat /\ DOMAIN log = 1 .. Len(log)
  BY LenProperties
<1>2. /\ longer \in Seq(Record) /\ Len(longer) = Len(log) + 1
      /\ \A k \in 1 .. Len(log) : longer[k] = log[k]
      /\ longer[Len(log) + 1] = r
  BY AppendFacts
<1> HIDE DEF longer
<1>3. DOMAIN longer = 1 .. Len(log) + 1
  BY <1>2, LenProperties
<1>4. FareLines(longer) = FareLines(log)
  BY <1>1, <1>2, <1>3 DEF FareLines
<1>5. QED
  BY <1>2, <1>4, FareCountFacts DEF longer

LEMMA FareCountCopied ==
  ASSUME NEW log \in Seq(Record), NEW n \in 0 .. Len(log), NEW m \in 0 .. Len(log) - n
  PROVE  FareCount(Copied(log, n, m)) <= FareCount(log)
<1> DEFINE copy == Copied(log, n, m)
           f == [k \in FareLines(copy) |-> k + n]
<1>1. Len(log) \in Nat /\ DOMAIN log = 1 .. Len(log)
  BY LenProperties
<1>2. /\ copy \in Seq(Record) /\ Len(copy) = m
      /\ \A k \in 1 .. m : copy[k] = log[k + n]
  BY CopiedFacts
<1> HIDE DEF copy
<1>3. DOMAIN copy = 1 .. m
  BY <1>2, LenProperties
<1>4. FareLines(copy) \subseteq 1 .. m
  BY <1>3 DEF FareLines
<1>5. \A k \in FareLines(copy) : k + n \in FareLines(log)
  BY <1>1, <1>2, <1>3 DEF FareLines
<1>6. \A j, k \in FareLines(copy) : j + n = k + n => j = k
  BY <1>1, <1>4
<1>7. f \in Injection(FareLines(copy), FareLines(log))
  BY <1>5, <1>6 DEF Injection, IsInjective
<1>8. IsFiniteSet(FareLines(log))
  BY FareCountFacts
<1>9. Cardinality(FareLines(copy)) <= Cardinality(FareLines(log))
  BY <1>7, <1>8, FS_Injection
<1>10. QED
  BY <1>2, <1>9, FareCountFacts DEF copy

LEMMA AppendInOrder ==
  ASSUME NEW log \in Seq(Record), NEW r \in Record, NEW next \in Nat \ {0},
         InOrder(log, next), r.id = next
  PROVE  /\ InOrder(Append(log, r), next + 1)
         /\ Ids(Append(log, r)) = Ids(log) \cup {next}
<1> DEFINE longer == Append(log, r)
<1>1. Len(log) \in Nat /\ DOMAIN log = 1 .. Len(log)
  BY LenProperties
<1>2. /\ longer \in Seq(Record) /\ Len(longer) = Len(log) + 1
      /\ \A k \in 1 .. Len(log) : longer[k] = log[k]
      /\ longer[Len(log) + 1] = r
  BY AppendFacts
<1> HIDE DEF longer
<1>3. DOMAIN longer = 1 .. Len(log) + 1
  BY <1>2, LenProperties
<1>4. \A k \in DOMAIN longer : longer[k].id \in 1 .. next + 1 - 1
  BY <1>1, <1>2, <1>3 DEF InOrder
<1>5. \A j, k \in DOMAIN longer : j < k => longer[j].id < longer[k].id
  BY <1>1, <1>2, <1>3 DEF InOrder
<1>6. Ids(longer) = Ids(log) \cup {next}
  BY <1>1, <1>2, <1>3 DEF Ids
<1>7. QED
  BY <1>4, <1>5, <1>6 DEF InOrder, longer

LEMMA InOrderLater ==
  ASSUME NEW log, NEW next \in Nat, InOrder(log, next)
  PROVE  InOrder(log, next + 1)
BY DEF InOrder

\* The chunk and what the delete keeps part the lines of the file.
LEMMA CopiedInOrder ==
  ASSUME NEW log \in Seq(Record), NEW n \in 0 .. Len(log), NEW m \in 0 .. Len(log) - n,
         NEW next \in Nat, InOrder(log, next)
  PROVE  /\ InOrder(Copied(log, n, m), next)
         /\ Ids(Copied(log, n, m)) \subseteq Ids(log) \ Ids(FirstLines(log, n))
         /\ m = Len(log) - n
              => Ids(Copied(log, n, m)) = Ids(log) \ Ids(FirstLines(log, n))
<1> DEFINE copy == Copied(log, n, m)
           sent == FirstLines(log, n)
<1>1. Len(log) \in Nat /\ DOMAIN log = 1 .. Len(log)
  BY LenProperties
<1>2. /\ copy \in Seq(Record) /\ Len(copy) = m
      /\ \A k \in 1 .. m : copy[k] = log[k + n]
  BY CopiedFacts
<1>3. /\ sent \in Seq(Record) /\ Len(sent) = n
      /\ \A k \in 1 .. n : sent[k] = log[k]
  BY FirstLinesFacts
<1> HIDE DEF copy, sent
<1>4. DOMAIN copy = 1 .. m /\ DOMAIN sent = 1 .. n
  BY <1>2, <1>3, LenProperties
<1>5. InOrder(copy, next)
  <2>1. \A k \in 1 .. m : k + n \in DOMAIN log /\ copy[k].id = log[k + n].id
    BY <1>1, <1>2
  <2>2. \A k \in 1 .. m : copy[k].id \in 1 .. next - 1
    BY <2>1 DEF InOrder
  <2>3. \A j, k \in 1 .. m : j < k => j + n < k + n
    OBVIOUS
  <2>4. \A j, k \in 1 .. m : j < k => copy[j].id < copy[k].id
    BY <2>1, <2>3 DEF InOrder
  <2>5. QED
    BY <1>4, <2>2, <2>4 DEF InOrder
<1>6. \A k \in 1 .. m, j \in 1 .. n : copy[k].id # sent[j].id
  <2> SUFFICES ASSUME NEW k \in 1 .. m, NEW j \in 1 .. n PROVE copy[k].id # sent[j].id
    OBVIOUS
  <2>1. j \in DOMAIN log /\ k + n \in DOMAIN log /\ j < k + n
    BY <1>1
  <2>2. log[j].id < log[k + n].id /\ log[j].id \in 1 .. next - 1
    BY <2>1 DEF InOrder
  <2>3. QED
    BY <1>2, <1>3, <2>2
<1>7. Ids(copy) \subseteq Ids(log) \ Ids(sent)
  <2> SUFFICES ASSUME NEW k \in 1 .. m
               PROVE  copy[k].id \in Ids(log) /\ copy[k].id \notin Ids(sent)
    BY <1>4 DEF Ids
  <2>1. k + n \in DOMAIN log /\ copy[k] = log[k + n]
    BY <1>1, <1>2
  <2>2. copy[k].id \in Ids(log)
    BY <2>1 DEF Ids
  <2>3. QED
    BY <1>4, <1>6, <2>2 DEF Ids
<1>8. ASSUME m = Len(log) - n PROVE Ids(log) \ Ids(sent) \subseteq Ids(copy)
  <2> SUFFICES ASSUME NEW k \in 1 .. Len(log), log[k].id \notin Ids(sent)
               PROVE  log[k].id \in Ids(copy)
    BY <1>1 DEF Ids
  <2>1. k \notin 1 .. n
    BY <1>3, <1>4 DEF Ids
  <2>2. k - n \in 1 .. m /\ (k - n) + n = k
    BY <1>1, <1>8, <2>1
  <2>3. copy[k - n] = log[k]
    BY <1>2, <2>2
  <2>4. QED
    BY <1>4, <2>2, <2>3 DEF Ids
<1>9. QED
  BY <1>5, <1>7, <1>8 DEF copy, sent

\* A chunk leaves out no older line.
LEMMA FirstLinesOldest ==
  ASSUME NEW log \in Seq(Record), NEW n \in 0 .. Len(log), NEW next \in Nat,
         InOrder(log, next)
  PROVE  /\ Oldest(Ids(FirstLines(log, n)), log, next)
         /\ Ids(FirstLines(log, n)) \subseteq Ids(log)
<1> DEFINE sent == FirstLines(log, n)
<1>1. Len(log) \in Nat /\ DOMAIN log = 1 .. Len(log)
  BY LenProperties
<1>2. /\ sent \in Seq(Record) /\ Len(sent) = n
      /\ \A k \in 1 .. n : sent[k] = log[k]
  BY FirstLinesFacts
<1> HIDE DEF sent
<1>3. DOMAIN sent = 1 .. n
  BY <1>2, LenProperties
<1>4. Ids(sent) \subseteq Ids(log)
  BY <1>1, <1>2, <1>3 DEF Ids
<1>5. ASSUME NEW j \in 1 .. n, NEW k \in 1 .. Len(log), log[k].id < sent[j].id
      PROVE  log[k].id \in Ids(sent)
  <2>1. j \in DOMAIN log /\ k \in DOMAIN log /\ sent[j] = log[j]
    BY <1>1, <1>2
  <2>2. ~(j < k) /\ j # k
    BY <1>5, <2>1 DEF InOrder
  <2>3. k \in 1 .. n /\ sent[k] = log[k]
    BY <1>1, <1>2, <2>2
  <2>4. QED
    BY <1>3, <2>3 DEF Ids
<1>6. \A r \in Ids(sent) : r \in 1 .. next - 1
  BY <1>1, <1>4 DEF Ids, InOrder
<1>7. \A r \in Ids(sent) : \A i \in Ids(log) : i < r => i \in Ids(sent)
  BY <1>1, <1>3, <1>5 DEF Ids
<1>8. QED
  BY <1>4, <1>6, <1>7 DEF Oldest, sent

\* Only deletes, and the next record, change the file behind a batch.
LEMMA OldestStays ==
  ASSUME NEW batch, NEW log, NEW other, NEW next \in Nat, NEW later \in {next, next + 1},
         Oldest(batch, log, next), Ids(other) \subseteq Ids(log) \cup {next}
  PROVE  Oldest(batch, other, later)
BY DEF Oldest

LEMMA OldestUnion ==
  ASSUME NEW batch, NEW more, NEW log, NEW next,
         Oldest(batch, log, next), Oldest(more, log, next)
  PROVE  Oldest(batch \cup more, log, next)
BY DEF Oldest

LEMMA NoLines == Ids(<<>>) = {}
BY DEF Ids

---------------------------------------------------------------------------
(* What a step can do to the files: nothing, append a line, or take the    *)
(* delete one call further; or power is lost inside a delete.              *)

FilesKept ==
  /\ UNCHANGED <<txLog, tempLog, nextId, retired, lossy>>
  /\ UNCHANGED pc1 \/ {pc1, pc1'} \cap {"remove", "rename"} = {}
  /\ pc1' = "remove" => UNCHANGED chunk

LineWritten ==
  /\ pc1 \notin {"remove", "rename"}
  /\ \E r \in Record : /\ r.id = nextId /\ txLog' = Append(txLog, r)
                       /\ r.kind = "tap" => Len(txLog) < MaxLines
  /\ nextId' = nextId + 1
  /\ UNCHANGED <<tempLog, retired, lossy, pc1>>

RestCopied ==
  /\ pc1 = "delete" /\ pc1' = "remove"
  /\ \E m \in 0 .. Len(txLog) - Len(chunk) :
       /\ tempLog' = Copied(txLog, Len(chunk), m)
       /\ ~lossy' => ~lossy /\ m = Len(txLog) - Len(chunk)
  /\ UNCHANGED <<txLog, chunk, nextId, retired>>

DeleteTorn ==
  /\ pc1 \in {"remove", "rename"} /\ pc1' = "idle"
  /\ lossy' = (lossy \/ pc1 = "rename")
  /\ UNCHANGED <<txLog, nextId, retired>>

LEMMA FileSteps ==
  ASSUME LookbackInv, [Next]_vars
  PROVE  FilesKept \/ LineWritten \/ RestCopied \/ Remove \/ Rename \/ DeleteTorn
<1> USE DEF Core0At, Core1At
<1>1. ChunkInv /\ TypeInv
  BY DEF LookbackInv, ChunkInv
<1>2. CASE Core0
  <2> USE DEF Core0Only, core1
  <2>1. ASSUME NEW u \in Uids, Tap(u) PROVE FilesKept
    BY <2>1 DEF Tap, FilesKept
  <2>2. ASSUME NEW u \in Uids, Register(u) PROVE LineWritten
    <3> DEFINE line == [id |-> nextId, kind |-> "link", uid |-> u]
    <3>1. /\ txLog' = Append(txLog, line) /\ nextId' = nextId + 1 /\ LockFree
          /\ UNCHANGED <<tempLog, retired, lossy, pc1>>
      BY <2>2 DEF Register, WriteLine
    <3>2. line \in Record
      BY <1>1, <2>2, WriteLineType DEF Register, Kinds
    <3>3. line.id = nextId /\ line.kind # "tap"
      OBVIOUS
    <3> HIDE DEF line
    <3>4. QED
      BY <3>1, <3>2, <3>3 DEF LineWritten, LockFree
  <2>3. CASE CountTaps \/ CountTapsTimeout \/ CountLines \/ CountLinesTimeout
    BY <2>3 DEF CountTaps, CountTapsTimeout, CountLines, CountLinesTimeout, FilesKept
  <2>4. CASE AppendTx
    <3> DEFINE line == [id |-> nextId, kind |-> "tap", uid |-> rider]
    <3>1. /\ LockFree /\ UNCHANGED <<tempLog, retired, lossy, pc1, chunk>>
          /\ \/ /\ Len(txLog) < MaxLines /\ WriteLine("tap", rider)
             \/ UNCHANGED <<txLog, nextId>>
      BY <2>4 DEF AppendTx
    <3>2. rider \in Uids
      BY <1>1, <2>4 DEF AppendTx, TypeInv
    <3>3. CASE Len(txLog) < MaxLines /\ WriteLine("tap", rider)
      <4>1. /\ line \in Record /\ txLog' = Append(txLog, line) /\ nextId' = nextId + 1
            /\ line.id = nextId
        BY <1>1, <3>2, <3>3, WriteLineType DEF WriteLine, Kinds
      <4> HIDE DEF line
      <4>2. QED
        BY <3>1, <3>3, <4>1 DEF LineWritten, LockFree
    <3>4. QED
      BY <3>1, <3>3 DEF FilesKept
  <2>5. CASE AppendRefused
    BY <2>5 DEF AppendRefused, FilesKept
  <2>6. QED
    BY <1>2, <2>1, <2>2, <2>3, <2>4, <2>5 DEF Core0, Core0Step
<1>3. CASE Core1
  <2> USE DEF flash, Core1Only, FlushOver
  <2>1. CASE OpenGsm \/ StatusAcked \/ StatusTimeout \/ StreamNothing
    BY <2>1 DEF OpenGsm, StatusAcked, StatusTimeout, StreamNothing, FilesKept
  <2>2. ASSUME NEW b \in Bearers, StreamChunk(b) PROVE FilesKept
    BY <2>2 DEF StreamChunk, FilesKept
  <2>3. CASE Publish \/ PublishFailed \/ RecvAck \/ AckTimeout
    BY <2>3 DEF Publish, PublishFailed, RecvAck, AckTimeout, FilesKept
  <2>4. CASE DeleteRefused \/ Stamp
    BY <2>4 DEF DeleteRefused, Stamp, FilesKept
  <2>5. CASE Delete \/ DeleteShort
    <3>1. /\ pc1 = "delete" /\ pc1' = "remove"
          /\ UNCHANGED <<txLog, chunk, nextId, retired>>
      BY <2>5 DEF Delete, DeleteShort
    <3>2. /\ txLog \in Seq(Record) /\ Len(txLog) \in Nat
          /\ Len(chunk) \in 0 .. Len(txLog)
      BY <1>1, <3>1, LenProperties DEF ChunkInv, ChunkIsPrefix, TypeInv, TypeOK
    <3>3. CASE Delete
      <4>1. tempLog' = Copied(txLog, Len(chunk), Len(txLog) - Len(chunk))
        BY <3>2, <3>3, CopiedWhole DEF Delete
      <4>2. lossy' = lossy
        BY <3>3 DEF Delete
      <4>3. Len(txLog) - Len(chunk) \in 0 .. Len(txLog) - Len(chunk)
        BY <3>2
      <4>4. QED
        BY <3>1, <4>1, <4>2, <4>3 DEF RestCopied
    <3>4. CASE DeleteShort
      <4>1. PICK n \in 0 .. Len(txLog) - Len(chunk) - 1 :
              tempLog' = FirstLines(DropLines(txLog, Len(chunk)), n)
        BY <3>4 DEF DeleteShort
      <4>2. lossy' /\ n \in 0 .. Len(txLog) - Len(chunk)
        BY <3>2, <3>4 DEF DeleteShort
      <4>3. QED
        BY <3>1, <4>1, <4>2 DEF RestCopied, Copied
    <3>5. QED
      BY <2>5, <3>3, <3>4
  <2>6. QED
    BY <1>3, <2>1, <2>2, <2>3, <2>4, <2>5 DEF Core1, Core1Step
<1>4. CASE Environment
  <2> USE DEF flash, core1, history, NetOnly, FlushOver
  <2>1. ASSUME NEW b \in Bearers, BrokerRecv(b) \/ SwallowAck(b) \/ ConnLost(b)
        PROVE  FilesKept
    BY <2>1 DEF BrokerRecv, SwallowAck, ConnLost, FilesKept
  <2>2. CASE PowerLoss
    <3>1. /\ pc1' = "idle" /\ UNCHANGED <<txLog, tempLog, nextId, retired>>
          /\ lossy' = (lossy \/ pc1 = "rename")
      BY <2>2 DEF PowerLoss
    <3>2. lossy \in BOOLEAN
      BY <1>1 DEF TypeInv, TypeOK
    <3>3. QED
      BY <3>1, <3>2 DEF FilesKept, DeleteTorn
  <2>3. CASE Boot \/ SyncComplete
    BY <2>3 DEF Boot, SyncComplete, FilesKept
  <2>4. QED
    BY <1>4, <2>1, <2>2, <2>3 DEF Environment
<1>5. CASE UNCHANGED vars
  BY <1>5 DEF vars, flash, core1, history, FilesKept
<1>6. QED
  BY <1>2, <1>3, <1>4, <1>5 DEF Next

---------------------------------------------------------------------------
(* The cap on fares.                                                       *)

LEMMA CapInit == Init => CapInv
<1> SUFFICES ASSUME Init PROVE CapInv
  OBVIOUS
<1>1. FareCount(txLog) = 0 /\ pc1 = "idle"
  BY FareCountEmpty DEF Init
<1>2. QED
  BY <1>1, LookbackInit, LedgerAssumption DEF CapInv

LEMMA CapNext ==
  ASSUME CapInv, [Next]_vars
  PROVE  CapInv'
<1>1. LookbackInv /\ LookbackInv'
  BY LookbackNext DEF CapInv
<1>2. /\ txLog \in Seq(Record) /\ tempLog \in Seq(Record)
      /\ txLog' \in Seq(Record) /\ tempLog' \in Seq(Record)
  BY <1>1 DEF LookbackInv, ChunkInv, TypeInv, TypeOK
<1>3. /\ Len(txLog) \in Nat /\ FareCount(txLog) \in Nat /\ FareCount(tempLog) \in Nat
      /\ FareCount(txLog') \in 0 .. Len(txLog')
      /\ MaxLines \in Nat
  BY <1>2, FareCountFacts, LenProperties, LedgerAssumption
<1>4. CASE FilesKept
  BY <1>1, <1>4 DEF FilesKept, CapInv
<1>5. CASE LineWritten
  <2>1. PICK r \in Record : /\ txLog' = Append(txLog, r)
                            /\ r.kind = "tap" => Len(txLog) < MaxLines
    BY <1>5 DEF LineWritten
  <2>2. FareCount(txLog') <= MaxLines
    <3>1. CASE r.kind = "tap"
      <4>1. Len(txLog') = Len(txLog) + 1
        BY <1>2, <2>1, AppendFacts
      <4>2. QED
        BY <1>3, <2>1, <3>1, <4>1
    <3>2. CASE r.kind # "tap"
      BY <1>2, <2>1, <3>2, FareCountAppendLink DEF CapInv
    <3>3. QED
      BY <3>1, <3>2
  <2>3. pc1' \notin {"remove", "rename"}
    BY <1>5 DEF LineWritten
  <2>4. QED
    BY <1>1, <2>2, <2>3 DEF CapInv
<1>6. CASE RestCopied
  <2>1. /\ pc1 = "delete" /\ pc1' = "remove" /\ txLog' = txLog
        /\ \E m \in 0 .. Len(txLog) - Len(chunk) : tempLog' = Copied(txLog, Len(chunk), m)
    BY <1>6 DEF RestCopied
  <2>2. Len(chunk) \in 0 .. Len(txLog)
    BY <1>1, <1>2, <2>1, LenProperties
       DEF LookbackInv, ChunkInv, ChunkIsPrefix, TypeInv, TypeOK
  <2>3. FareCount(tempLog') <= FareCount(txLog)
    BY <1>2, <2>1, <2>2, FareCountCopied
  <2>4. QED
    BY <1>1, <2>1, <2>3 DEF CapInv
<1>7. CASE Remove
  <2>1. /\ pc1 = "remove" /\ pc1' = "rename" /\ txLog' = <<>> /\ tempLog' = tempLog
    BY <1>7 DEF Remove, Core1At
  <2>2. FareCount(tempLog) <= FareCount(txLog) /\ FareCount(txLog) <= MaxLines
    BY <2>1 DEF CapInv
  <2>3. FareCount(txLog') <= MaxLines /\ FareCount(tempLog') <= MaxLines
    BY <1>3, <2>1, <2>2, FareCountEmpty
  <2>4. QED
    BY <1>1, <2>1, <2>3 DEF CapInv
<1>8. CASE Rename
  <2>1. pc1 = "rename" /\ pc1' = "stamp" /\ txLog' = tempLog
    BY <1>8 DEF Rename, Core1At
  <2>2. QED
    BY <1>1, <2>1 DEF CapInv
<1>9. CASE DeleteTorn
  <2>1. pc1' = "idle" /\ txLog' = txLog
    BY <1>9 DEF DeleteTorn
  <2>2. QED
    BY <1>1, <2>1 DEF CapInv
<1>10. QED
  BY <1>1, <1>4, <1>5, <1>6, <1>7, <1>8, <1>9, FileSteps

\* The file never holds more fares than TX_LOG_MAX_LINES, over either bearer and
\* through every fault, also when the check at the tap was refused the lock and
\* passed: storage_append_tx counts again under the lock it appends with.
THEOREM FaresCapped == Spec => []FareCap
<1>1. Init => CapInv
  BY CapInit
<1>2. CapInv /\ [Next]_vars => CapInv'
  BY CapNext
<1>3. CapInv => FareCap
  BY DEF CapInv, FareCap, FareCount, Ledger
<1>4. QED
  BY <1>1, <1>2, <1>3, PTL DEF Spec

---------------------------------------------------------------------------
(* No record is lost, and none comes back.                                 *)

LEMMA KeptInit == Init => KeptInv
<1> SUFFICES ASSUME Init PROVE KeptInv
  OBVIOUS
<1>1. txLog = <<>> /\ nextId = 1 /\ retired = {} /\ pc1 = "idle"
  BY DEF Init
<1>2. InOrder(txLog, nextId)
  BY <1>1 DEF InOrder
<1>3. Ids(Ledger) = {} /\ 1 .. nextId - 1 = {}
  BY <1>1, NoLines DEF Ledger
<1>4. QED
  BY <1>1, <1>2, <1>3, LookbackInit DEF KeptInv, RecordsKept

\* The chunk that is deleted is part of the file.
LEMMA ChunkOfFile ==
  ASSUME KeptInv, pc1 \in {"publish", "wait", "delete", "remove"}
  PROVE  /\ txLog \in Seq(Record) /\ Len(chunk) \in 0 .. Len(txLog)
         /\ chunk = FirstLines(txLog, Len(chunk))
         /\ nextId \in Nat
         /\ Oldest(Ids(chunk), txLog, nextId)
         /\ Ids(chunk) \subseteq Ids(txLog)
<1>1. /\ txLog \in Seq(Record) /\ chunk \in Seq(Record) /\ nextId \in Nat
      /\ InOrder(txLog, nextId)
  BY DEF KeptInv, LookbackInv, ChunkInv, TypeInv, TypeOK
<1>2. Len(chunk) \in 0 .. Len(txLog) /\ chunk = FirstLines(txLog, Len(chunk))
  BY <1>1, LenProperties DEF KeptInv, LookbackInv, ChunkInv, ChunkIsPrefix
<1>3. /\ Oldest(Ids(FirstLines(txLog, Len(chunk))), txLog, nextId)
      /\ Ids(FirstLines(txLog, Len(chunk))) \subseteq Ids(txLog)
  BY <1>1, <1>2, FirstLinesOldest
<1>4. QED
  BY <1>1, <1>2, <1>3

LEMMA KeptNext ==
  ASSUME KeptInv, [Next]_vars
  PROVE  KeptInv'
<1>1. LookbackInv /\ LookbackInv'
  BY LookbackNext DEF KeptInv
<1>2. /\ txLog \in Seq(Record) /\ nextId \in Nat \ {0} /\ lossy \in BOOLEAN
      /\ InOrder(txLog, nextId)
  BY <1>1 DEF KeptInv, LookbackInv, ChunkInv, TypeInv, TypeOK
<1>3. CASE FilesKept
  <2>1. Ledger' = Ledger
    BY <1>3 DEF FilesKept, Ledger
  <2>2. QED
    BY <1>1, <1>3, <2>1 DEF FilesKept, KeptInv, RecordsKept
<1>4. CASE LineWritten
  <2>1. PICK r \in Record : r.id = nextId /\ txLog' = Append(txLog, r)
    BY <1>4 DEF LineWritten
  <2>2. /\ pc1 \notin {"remove", "rename"} /\ nextId' = nextId + 1
        /\ UNCHANGED <<retired, lossy, pc1>>
    BY <1>4 DEF LineWritten
  <2>3. InOrder(txLog', nextId') /\ Ids(txLog') = Ids(txLog) \cup {nextId}
    BY <1>2, <2>1, <2>2, AppendInOrder
  <2>4. Ledger = txLog /\ Ledger' = txLog'
    BY <2>2 DEF Ledger
  <2>5. 1 .. nextId' - 1 = (1 .. nextId - 1) \cup {nextId}
    BY <1>2, <2>2
  <2>6. nextId \notin 1 .. nextId - 1
    BY <1>2
  <2>7. RecordsKept'
    BY <2>2, <2>3, <2>4, <2>5, <2>6 DEF KeptInv, RecordsKept
  <2>8. nextId' > 0
    BY <1>2, <2>2
  <2>9. QED
    BY <1>1, <2>2, <2>3, <2>7, <2>8 DEF KeptInv
<1>5. CASE RestCopied
  <2>1. /\ pc1 = "delete" /\ pc1' = "remove"
        /\ UNCHANGED <<txLog, chunk, nextId, retired>>
    BY <1>5 DEF RestCopied
  <2>2. PICK m \in 0 .. Len(txLog) - Len(chunk) :
          /\ tempLog' = Copied(txLog, Len(chunk), m)
          /\ ~lossy' => ~lossy /\ m = Len(txLog) - Len(chunk)
    BY <1>5 DEF RestCopied
  <2>3. Len(chunk) \in 0 .. Len(txLog) /\ chunk = FirstLines(txLog, Len(chunk))
    BY <2>1, ChunkOfFile
  <2>4. /\ InOrder(tempLog', nextId)
        /\ Ids(tempLog') \subseteq Ids(txLog) \ Ids(chunk)
        /\ m = Len(txLog) - Len(chunk) => Ids(tempLog') = Ids(txLog) \ Ids(chunk)
    BY <1>2, <2>2, <2>3, CopiedInOrder
  <2>5. Ledger' = Ledger
    BY <2>1 DEF Ledger
  <2>6. RecordsKept'
    BY <2>1, <2>2, <2>5 DEF KeptInv, RecordsKept
  <2>7. QED
    BY <1>1, <1>2, <2>1, <2>2, <2>4, <2>6 DEF KeptInv
<1>6. CASE Remove
  <2>1. /\ pc1 = "remove" /\ pc1' = "rename" /\ txLog' = <<>>
        /\ retired' = retired \cup Ids(chunk)
        /\ UNCHANGED <<tempLog, nextId, lossy>>
    BY <1>6 DEF Remove, Core1At, Core1Only
  <2>2. Ledger = txLog /\ Ledger' = tempLog
    BY <2>1 DEF Ledger
  <2>3. Ids(chunk) \subseteq Ids(txLog)
    BY <2>1, ChunkOfFile
  <2>4. RecordsKept'
    BY <2>1, <2>2, <2>3 DEF KeptInv, RecordsKept
  <2>5. InOrder(txLog', nextId')
    BY <2>1 DEF InOrder
  <2>6. QED
    BY <1>1, <2>1, <2>4, <2>5 DEF KeptInv
<1>7. CASE Rename
  <2>1. /\ pc1 = "rename" /\ pc1' = "stamp" /\ txLog' = tempLog
        /\ UNCHANGED <<nextId, retired, lossy>>
    BY <1>7 DEF Rename, Core1At, Core1Only
  <2>2. Ledger' = Ledger
    BY <2>1 DEF Ledger
  <2>3. QED
    BY <1>1, <2>1, <2>2 DEF KeptInv, RecordsKept
<1>8. CASE DeleteTorn
  <2>1. /\ pc1 \in {"remove", "rename"} /\ pc1' = "idle"
        /\ lossy' = (lossy \/ pc1 = "rename")
        /\ UNCHANGED <<txLog, nextId, retired>>
    BY <1>8 DEF DeleteTorn
  <2>2. ~lossy' => Ledger' = Ledger /\ ~lossy
    BY <1>2, <2>1 DEF Ledger
  <2>3. RecordsKept'
    BY <2>1, <2>2 DEF KeptInv, RecordsKept
  <2>4. QED
    BY <1>1, <2>1, <2>3 DEF KeptInv
<1>9. QED
  BY <1>1, <1>3, <1>4, <1>5, <1>6, <1>7, <1>8, FileSteps

\* Unless a delete was torn or its copy cut short, every record is either in the
\* file or was deleted as acknowledged, and no deleted one comes back, for any
\* number of uploads, resets and appends beside them.
THEOREM RecordsAlwaysKept == Spec => []RecordsKept
<1>1. Init => KeptInv
  BY KeptInit
<1>2. KeptInv /\ [Next]_vars => KeptInv'
  BY KeptNext
<1>3. KeptInv => RecordsKept
  BY DEF KeptInv
<1>4. QED
  BY <1>1, <1>2, <1>3, PTL DEF Spec

---------------------------------------------------------------------------
(* The broker is served oldest first.                                      *)

\* Steps that put nothing into the files but the next record.
LEMMA LedgerShrinks ==
  ASSUME KeptInv, [Next]_vars
  PROVE  /\ Ids(Ledger') \subseteq Ids(Ledger) \cup {nextId}
         /\ nextId \in Nat /\ nextId' \in {nextId, nextId + 1}
<1>1. LookbackInv /\ KeptInv'
  BY KeptNext DEF KeptInv
<1>2. /\ txLog \in Seq(Record) /\ nextId \in Nat \ {0} /\ InOrder(txLog, nextId)
  BY <1>1 DEF KeptInv, LookbackInv, ChunkInv, TypeInv, TypeOK
<1>3. CASE FilesKept
  BY <1>2, <1>3 DEF FilesKept, Ledger
<1>4. CASE LineWritten
  <2>1. PICK r \in Record : r.id = nextId /\ txLog' = Append(txLog, r)
    BY <1>4 DEF LineWritten
  <2>2. pc1 \notin {"remove", "rename"} /\ nextId' = nextId + 1 /\ UNCHANGED pc1
    BY <1>4 DEF LineWritten
  <2>3. Ids(txLog') = Ids(txLog) \cup {nextId}
    BY <1>2, <2>1, AppendInOrder
  <2>4. Ledger = txLog /\ Ledger' = txLog'
    BY <2>2 DEF Ledger
  <2>5. QED
    BY <1>2, <2>2, <2>3, <2>4
<1>5. CASE RestCopied
  BY <1>2, <1>5 DEF RestCopied, Ledger
<1>6. CASE Remove
  <2>1. /\ pc1 = "remove" /\ pc1' = "rename" /\ UNCHANGED <<tempLog, nextId>>
    BY <1>6 DEF Remove, Core1At, Core1Only
  <2>2. Ledger = txLog /\ Ledger' = tempLog
    BY <2>1 DEF Ledger
  <2>3. QED
    BY <1>2, <2>1, <2>2 DEF KeptInv
<1>7. CASE Rename
  <2>1. pc1 = "rename" /\ pc1' = "stamp" /\ txLog' = tempLog /\ UNCHANGED nextId
    BY <1>7 DEF Rename, Core1At, Core1Only
  <2>2. Ledger' = Ledger
    BY <2>1 DEF Ledger
  <2>3. QED
    BY <1>2, <2>1, <2>2
<1>8. CASE DeleteTorn
  <2>1. pc1' = "idle" /\ UNCHANGED <<txLog, nextId>> /\ pc1 \in {"remove", "rename"}
    BY <1>8 DEF DeleteTorn
  <2>2. Ledger' = txLog
    BY <2>1 DEF Ledger
  <2>3. pc1 = "rename" => txLog = <<>>
    BY <1>1 DEF LookbackInv
  <2>4. Ids(Ledger') \subseteq Ids(Ledger)
    BY <2>1, <2>2, <2>3, NoLines DEF Ledger
  <2>5. QED
    BY <1>2, <2>1, <2>4
<1>9. QED
  BY <1>1, <1>3, <1>4, <1>5, <1>6, <1>7, <1>8, FileSteps

\* What a step can do to the messages: nothing new, or the chunk is published.
LEMMA MessageSteps ==
  ASSUME TypeInv, [Next]_vars
  PROVE  \A b \in Bearers : \A msg \in Range(uplink'[b]) :
           \/ msg \in Range(uplink[b])
           \/ msg.lines = <<>>
           \/ pc1 = "publish" /\ msg.lines = chunk
<1> DEFINE OK == \A b \in Bearers : \A msg \in Range(uplink'[b]) :
                   \/ msg \in Range(uplink[b])
                   \/ msg.lines = <<>>
                   \/ pc1 = "publish" /\ msg.lines = chunk
<1> SUFFICES OK
  OBVIOUS
<1>1. uplink \in [Bearers -> Seq(Message)]
  BY DEF TypeInv, TypeOK
<1>2. ASSUME UNCHANGED uplink PROVE OK
  BY <1>2
<1>3. CASE Core0
  <2>1. UNCHANGED uplink
    BY <1>3 DEF Core0, Core0Step, Tap, Register, CountTaps, CountTapsTimeout, CountLines,
                CountLinesTimeout, AppendTx, AppendRefused, Core0Only, net
  <2>2. QED
    BY <1>2, <2>1
<1>4. CASE Core1
  <2>1. CASE OpenGsm
    <3> DEFINE status == [id |-> 0, lines |-> <<>>]
    <3>1. uplink' = [uplink EXCEPT !["gsm"] = <<status>>]
      BY <2>1 DEF OpenGsm
    <3>2. Range(<<status>>) = {status} /\ status.lines = <<>>
      BY DEF Range
    <3> HIDE DEF status
    <3>3. QED
      BY <1>1, <3>1, <3>2
  <2>2. CASE Publish
    <3> DEFINE m == [id |-> nextMsg[bearer], lines |-> chunk]
    <3>1. /\ pc1 = "publish" /\ bearer \in Bearers
          /\ uplink' = [uplink EXCEPT ![bearer] = Append(uplink[bearer], m)]
      BY <2>2 DEF Publish, Core1At, TypeInv
    <3>2. m \in Message /\ m.lines = chunk
      BY <3>1 DEF TypeInv, TypeOK, Message
    <3> HIDE DEF m
    <3>3. Range(Append(uplink[bearer], m)) = Range(uplink[bearer]) \cup {m}
      BY <1>1, <3>1, <3>2, RangeAppend
    <3>4. QED
      BY <1>1, <3>1, <3>2, <3>3
  <2>3. CASE StatusAcked \/ StatusTimeout \/ StreamNothing \/ PublishFailed \/ RecvAck
               \/ AckTimeout \/ Delete \/ DeleteShort \/ DeleteRefused \/ Remove
               \/ Rename \/ Stamp
    BY <1>2, <2>3
       DEF StatusAcked, StatusTimeout, StreamNothing, PublishFailed, RecvAck, AckTimeout,
           Delete, DeleteShort, DeleteRefused, Remove, Rename, Stamp, net
  <2>4. ASSUME NEW b \in Bearers, StreamChunk(b) PROVE OK
    BY <1>2, <2>4 DEF StreamChunk, net
  <2>5. QED
    BY <1>4, <2>1, <2>2, <2>3, <2>4 DEF Core1, Core1Step
<1>5. CASE Environment
  <2>1. ASSUME NEW b \in Bearers, BrokerRecv(b) PROVE OK
    <3>1. uplink[b] # <<>> /\ uplink' = [uplink EXCEPT ![b] = Tail(@)]
      BY <2>1 DEF BrokerRecv
    <3>2. \A c \in Bearers : Range(uplink'[c]) \subseteq Range(uplink[c])
      BY <3>1, TailShrinks
    <3>3. QED
      BY <3>2
  <2>2. ASSUME NEW b \in Bearers, SwallowAck(b) PROVE OK
    BY <1>2, <2>2 DEF SwallowAck
  <2>3. ASSUME NEW b \in Bearers, ConnLost(b) PROVE OK
    BY <1>1, <2>3, RangeEmpty DEF ConnLost
  <2>4. CASE PowerLoss \/ SyncComplete
    BY <1>2, <2>4 DEF PowerLoss, SyncComplete, net
  <2>5. CASE Boot
    BY <2>5, RangeEmpty DEF Boot
  <2>6. QED
    BY <1>5, <2>1, <2>2, <2>3, <2>4, <2>5 DEF Environment
<1>6. CASE UNCHANGED vars
  BY <1>2, <1>6 DEF vars, net
<1>7. QED
  BY <1>3, <1>4, <1>5, <1>6 DEF Next

\* The broker receives the oldest message of a connection, or nothing.
LEMMA ReceiveSteps ==
  ASSUME TypeInv, [Next]_vars
  PROVE  \/ UNCHANGED received
         \/ \E b \in Bearers : \E msg \in Range(uplink[b]) :
              /\ received' = received \cup Ids(msg.lines)
              /\ UNCHANGED <<txLog, tempLog, pc1, nextId>>
<1>1. CASE Core0
  BY <1>1 DEF Core0, Core0Step, Tap, Register, CountTaps, CountTapsTimeout, CountLines,
              CountLinesTimeout, AppendTx, AppendRefused, Core0Only
<1>2. CASE Core1
  BY <1>2 DEF Core1, Core1Step, OpenGsm, StreamChunk, Publish, StatusAcked, StatusTimeout,
              StreamNothing, PublishFailed, RecvAck, AckTimeout, Delete, DeleteShort,
              DeleteRefused, Remove, Rename, Stamp, Core1Only
<1>3. CASE Environment
  <2>1. ASSUME NEW b \in Bearers, BrokerRecv(b)
        PROVE  \E msg \in Range(uplink[b]) :
                 /\ received' = received \cup Ids(msg.lines)
                 /\ UNCHANGED <<txLog, tempLog, pc1, nextId>>
    <3>1. /\ uplink[b] # <<>> /\ received' = received \cup Ids(Head(uplink[b]).lines)
          /\ UNCHANGED <<txLog, tempLog, pc1, nextId>>
      BY <2>1 DEF BrokerRecv, NetOnly, flash, core1
    <3>2. uplink[b] \in Seq(Message)
      BY DEF TypeInv, TypeOK
    <3>3. Head(uplink[b]) \in Range(uplink[b])
      BY <3>1, <3>2, RangeHeadTail
    <3>4. QED
      BY <3>1, <3>3
  <2>2. ASSUME NEW b \in Bearers, SwallowAck(b) \/ ConnLost(b) PROVE UNCHANGED received
    BY <2>2 DEF SwallowAck, ConnLost
  <2>3. CASE PowerLoss \/ Boot \/ SyncComplete
    BY <2>3 DEF PowerLoss, Boot, SyncComplete, history
  <2>4. QED
    BY <1>3, <2>1, <2>2, <2>3 DEF Environment
<1>4. CASE UNCHANGED vars
  BY <1>4 DEF vars, history
<1>5. QED
  BY <1>1, <1>2, <1>3, <1>4 DEF Next

\* A publish under way has a chunk that was just read, or the one it had.
LEMMA PublishSteps ==
  ASSUME [Next]_vars, pc1' = "publish"
  PROVE  UNCHANGED <<pc1, chunk>> \/ \E b \in Bearers : StreamChunk(b)
<1>1. CASE Core0
  BY <1>1 DEF Core0, Core0Step, Tap, Register, CountTaps, CountTapsTimeout, CountLines,
              CountLinesTimeout, AppendTx, AppendRefused, Core0Only, core1
<1>2. CASE Core1
  BY <1>2 DEF Core1, Core1Step, OpenGsm, Publish, StatusAcked, StatusTimeout,
              StreamNothing, PublishFailed, RecvAck, AckTimeout, Delete, DeleteShort,
              DeleteRefused, Remove, Rename, Stamp, FlushOver
<1>3. CASE Environment
  BY <1>3 DEF Environment, BrokerRecv, SwallowAck, ConnLost, PowerLoss, Boot, SyncComplete,
              NetOnly, core1, FlushOver
<1>4. CASE UNCHANGED vars
  BY <1>4 DEF vars, core1
<1>5. QED
  BY <1>1, <1>2, <1>3, <1>4 DEF Next

LEMMA FrontInit == Init => FrontInv
<1> SUFFICES ASSUME Init PROVE FrontInv
  OBVIOUS
<1>1. /\ received = {} /\ pc1 = "idle"
      /\ \A b \in Bearers : Range(uplink[b]) = {}
  BY RangeEmpty DEF Init
<1>2. QED
  BY <1>1, KeptInit DEF FrontInv, Oldest

LEMMA FrontNext ==
  ASSUME FrontInv, [Next]_vars
  PROVE  FrontInv'
<1>1. KeptInv /\ KeptInv' /\ TypeInv
  BY KeptNext DEF FrontInv, KeptInv, LookbackInv, ChunkInv
<1>2. /\ Ids(Ledger') \subseteq Ids(Ledger) \cup {nextId}
      /\ nextId \in Nat /\ nextId' \in {nextId, nextId + 1}
  BY <1>1, LedgerShrinks
<1>3. Oldest(received', Ledger', nextId')
  <2>1. CASE UNCHANGED received
    <3>1. Oldest(received, Ledger, nextId)
      BY DEF FrontInv
    <3>2. QED
      BY <1>2, <2>1, <3>1, OldestStays
  <2>2. ASSUME NEW b \in Bearers, NEW msg \in Range(uplink[b]),
               received' = received \cup Ids(msg.lines),
               UNCHANGED <<txLog, tempLog, pc1, nextId>>
        PROVE  Oldest(received', Ledger', nextId')
    <3>1. Ledger' = Ledger
      BY <2>2 DEF Ledger
    <3>2. Oldest(received, Ledger, nextId) /\ Oldest(Ids(msg.lines), Ledger, nextId)
      BY DEF FrontInv
    <3>3. QED
      BY <2>2, <3>1, <3>2, OldestUnion
  <2>3. QED
    BY <1>1, <2>1, <2>2, ReceiveSteps
<1>4. pc1 = "publish" => Oldest(Ids(chunk), Ledger', nextId')
  BY <1>2, OldestStays DEF FrontInv
<1>5. ASSUME NEW b \in Bearers, NEW msg \in Range(uplink'[b])
      PROVE  Oldest(Ids(msg.lines), Ledger', nextId')
  <2>1. CASE msg \in Range(uplink[b])
    <3>1. Oldest(Ids(msg.lines), Ledger, nextId)
      BY <2>1 DEF FrontInv
    <3>2. QED
      BY <1>2, <3>1, OldestStays
  <2>2. CASE msg.lines = <<>>
    BY <2>2, NoLines DEF Oldest
  <2>3. QED
    BY <1>1, <1>4, <1>5, <2>1, <2>2, MessageSteps
<1>6. ASSUME pc1' = "publish" PROVE Oldest(Ids(chunk'), Ledger', nextId')
  <2>1. CASE UNCHANGED <<pc1, chunk>>
    BY <1>4, <1>6, <2>1
  <2>2. ASSUME NEW b \in Bearers, StreamChunk(b)
        PROVE  Oldest(Ids(chunk'), Ledger', nextId')
    <3>1. /\ chunk' = FirstLines(txLog, ChunkLen(txLog))
          /\ UNCHANGED <<txLog, nextId>>
      BY <2>2 DEF StreamChunk, flash, Core1Only
    <3>2. /\ txLog \in Seq(Record) /\ InOrder(txLog, nextId)
          /\ ChunkLen(txLog) \in 0 .. Len(txLog)
      BY <1>1, ChunkLenRange DEF TypeInv, TypeOK, KeptInv
    <3>3. Oldest(Ids(chunk'), txLog, nextId)
      BY <1>2, <3>1, <3>2, FirstLinesOldest
    <3>4. Ledger' = txLog'
      BY <1>6 DEF Ledger
    <3>5. QED
      BY <3>1, <3>3, <3>4
  <2>3. QED
    BY <1>6, <2>1, <2>2, PublishSteps
<1>7. QED
  BY <1>1, <1>3, <1>5, <1>6 DEF FrontInv

\* The broker never holds a record while an older one that is still in the file
\* has not reached it, over both bearers: the chunk is the front of the file, and
\* nothing is ever put before it.
THEOREM ReceivedOldestFirst == Spec => []OldestFirst
<1>1. Init => FrontInv
  BY FrontInit
<1>2. FrontInv /\ [Next]_vars => FrontInv'
  BY FrontNext
<1>3. FrontInv => OldestFirst
  BY DEF FrontInv, Oldest, OldestFirst
<1>4. QED
  BY <1>1, <1>2, <1>3, PTL DEF Spec

---------------------------------------------------------------------------
(* A record is sent twice only after a fault.                              *)

\* Steps that are not faults leave the budget alone.
LEMMA FaultSteps ==
  ASSUME [Next]_vars
  PROVE  faults' \in {faults, faults + 1}
<1>1. CASE Core0
  BY <1>1 DEF Core0, Core0Step, Tap, Register, CountTaps, CountTapsTimeout, CountLines,
              CountLinesTimeout, AppendTx, AppendRefused, Fault
<1>2. CASE Core1
  BY <1>2 DEF Core1, Core1Step, OpenGsm, StreamChunk, Publish, StatusAcked, StatusTimeout,
              StreamNothing, PublishFailed, RecvAck, AckTimeout, Delete, DeleteShort,
              DeleteRefused, Remove, Rename, Stamp, Fault, Overdue
<1>3. CASE Environment
  BY <1>3 DEF Environment, BrokerRecv, SwallowAck, ConnLost, PowerLoss, Boot,
              SyncComplete, Fault, history
<1>4. CASE UNCHANGED vars
  BY <1>4 DEF vars, history
<1>5. QED
  BY <1>1, <1>2, <1>3, <1>4 DEF Next

LEMMA DuplicateInit == Init => DuplicateInv
<1> SUFFICES ASSUME Init PROVE DuplicateInv
  OBVIOUS
<1>1. FaultlessInv
  BY DEF Init, FaultlessInv, Ledger
<1>2. QED
  BY <1>1, FrontInit DEF DuplicateInv

\* Of Core 0's steps only an append matters, and its record is new.
LEMMA FaultlessCore0 ==
  ASSUME FrontInv, FaultlessInv, Core0
  PROVE  FaultlessInv'
<1>1. UNCHANGED <<powered, redelivered, received, uplink, acks, pc1, bearer, chunk, nextMsg,
                  tempLog>>
  BY DEF Core0, Core0Step, Tap, Register, CountTaps, CountTapsTimeout, CountLines,
         CountLinesTimeout, AppendTx, AppendRefused, Core0Only, net, core1
<1>2. received \cap Ids(txLog') = received \cap Ids(txLog)
  <2>1. KeptInv /\ LookbackInv /\ Core0 => [Next]_vars
    BY DEF FrontInv, KeptInv, Next
  <2>2. CASE UNCHANGED txLog
    BY <2>2
  <2>3. CASE LineWritten
    <3>1. PICK r \in Record : r.id = nextId /\ txLog' = Append(txLog, r)
      BY <2>3 DEF LineWritten
    <3>2. txLog \in Seq(Record) /\ nextId \in Nat \ {0} /\ InOrder(txLog, nextId)
      BY DEF FrontInv, KeptInv, LookbackInv, ChunkInv, TypeInv, TypeOK
    <3>3. Ids(txLog') = Ids(txLog) \cup {nextId}
      BY <3>1, <3>2, AppendInOrder
    <3>4. nextId \notin received
      BY <3>2 DEF FrontInv, Oldest
    <3>5. QED
      BY <3>3, <3>4
  <2>4. LookbackInv /\ [Next]_vars
    BY <2>1 DEF FrontInv, KeptInv, Next
  <2>5. CASE FilesKept \/ RestCopied \/ DeleteTorn
    BY <2>2, <2>5 DEF FilesKept, RestCopied, DeleteTorn
  <2>6. CASE Remove \/ Rename
    BY <1>1, <2>6 DEF Remove, Rename, Core1At
  <2>7. QED
    BY <2>3, <2>4, <2>5, <2>6, FileSteps
<1>3. pc1 = "rename" => Ledger' = Ledger
  BY <1>1 DEF Ledger
<1>4. pc1 # "rename" => Ledger' = txLog' /\ Ledger = txLog
  BY <1>1 DEF Ledger
<1>5. received \cap Ids(Ledger') = received \cap Ids(Ledger)
  BY <1>2, <1>3, <1>4
<1>6. QED
  BY <1>1, <1>2, <1>5 DEF FaultlessInv, OneUnderWay, OnlyTheChunk, CurrentMsg

\* What is under way is not settled.
LEMMA UnderWayNotSettled ==
  ASSUME NEW msg, OneUnderWay(bearer, msg)
  PROVE  ~Settled(msg.id)
<1>1. CASE uplink[bearer] = <<msg>>
  <2>1. msg \in Range(uplink[bearer])
    BY <1>1 DEF Range
  <2>2. QED
    BY <2>1 DEF Settled
<1>2. CASE acks[bearer] = <<msg.id>>
  <2>1. msg.id \in Range(acks[bearer])
    BY <1>2 DEF Range
  <2>2. QED
    BY <2>1 DEF Settled
<1>3. QED
  BY <1>1, <1>2 DEF OneUnderWay

LEMMA FaultlessCore1 ==
  ASSUME FrontInv, FaultlessInv, Core1, faults = 0, faults' = 0
  PROVE  FaultlessInv'
<1> USE DEF Core1At, Core1Only, flash, net, FlushOver
<1>1. /\ TypeInv /\ KeptInv
      /\ uplink \in [Bearers -> Seq(Message)] /\ acks \in [Bearers -> Seq(Nat)]
      /\ nextMsg \in [Bearers -> Nat]
      /\ pc1 # "idle" => bearer \in Bearers
  BY DEF FrontInv, KeptInv, LookbackInv, ChunkInv, TypeInv, TypeOK
<1>2. \A kind : ~Fault(kind)
  BY DEF Fault
<1>3. UNCHANGED <<powered, redelivered, received>>
  BY DEF Core1, Core1Step, OpenGsm, StreamChunk, Publish, StatusAcked, StatusTimeout,
         StreamNothing, PublishFailed, RecvAck, AckTimeout, Delete, DeleteShort,
         DeleteRefused, Remove, Rename, Stamp
<1>4. CASE OpenGsm
  <2> DEFINE status == [id |-> 0, lines |-> <<>>]
  <2>1. /\ pc1 = "idle" /\ pc1' = "status" /\ bearer' = "gsm" /\ "gsm" \in Bearers
        /\ uplink' = [uplink EXCEPT !["gsm"] = <<status>>]
        /\ acks' = [acks EXCEPT !["gsm"] = <<>>]
        /\ UNCHANGED <<txLog, tempLog>>
    BY <1>4 DEF OpenGsm
  <2>2. OneUnderWay("gsm", status)'
    BY <1>1, <2>1 DEF OneUnderWay
  <2>3. \A b \in Bearers \ {"gsm"} : uplink'[b] = <<>> /\ acks'[b] = <<>>
    BY <1>1, <2>1 DEF FaultlessInv
  <2> HIDE DEF status
  <2>4. received' \cap Ids(Ledger') = {}
    BY <1>3, <2>1 DEF FaultlessInv, Ledger
  <2>5. QED
    BY <1>3, <2>1, <2>2, <2>3, <2>4 DEF FaultlessInv, status
<1>5. CASE StatusAcked
  <2>1. /\ pc1 = "status" /\ pc1' = "stream" /\ bearer \in Bearers /\ bearer' = bearer
        /\ acks[bearer] # <<>> /\ acks' = [acks EXCEPT ![bearer] = Tail(@)]
        /\ UNCHANGED <<txLog, tempLog, uplink>>
    BY <1>1, <1>5 DEF StatusAcked
  <2>2. uplink[bearer] = <<>> /\ acks[bearer] = <<0>>
    BY <2>1 DEF FaultlessInv, OneUnderWay
  <2>3. acks'[bearer] = <<>>
    BY <1>1, <2>1, <2>2
  <2>4. \A b \in Bearers : uplink'[b] = <<>> /\ acks'[b] = <<>>
    BY <1>1, <2>1, <2>2, <2>3 DEF FaultlessInv
  <2>5. received' \cap Ids(Ledger') = {}
    BY <1>3, <2>1 DEF FaultlessInv, Ledger
  <2>6. QED
    BY <1>3, <2>1, <2>4, <2>5 DEF FaultlessInv
<1>6. CASE StatusTimeout
  <2>1. pc1 = "status" /\ bearer \in Bearers /\ Settled(0)
    BY <1>1, <1>2, <1>6 DEF StatusTimeout, Overdue
  <2>2. OneUnderWay(bearer, [id |-> 0, lines |-> <<>>])
    BY <2>1 DEF FaultlessInv
  <2>3. ~Settled([id |-> 0, lines |-> <<>>].id)
    BY <2>2, UnderWayNotSettled
  <2>4. QED
    BY <2>1, <2>3
<1>7. ASSUME NEW b \in Bearers, StreamChunk(b) PROVE FaultlessInv'
  <2>1. /\ pc1 \in {"idle", "stream"} /\ pc1' = "publish"
        /\ UNCHANGED <<txLog, tempLog, uplink, acks>>
    BY <1>7 DEF StreamChunk
  <2>2. QED
    BY <1>3, <2>1 DEF FaultlessInv, Ledger
<1>8. CASE StreamNothing \/ Stamp
  <2>1. /\ pc1 \in {"stream", "stamp"} /\ pc1' = "idle"
        /\ UNCHANGED <<txLog, tempLog, uplink, acks>>
    BY <1>8 DEF StreamNothing, Stamp
  <2>2. QED
    BY <1>3, <2>1 DEF FaultlessInv, Ledger
<1>9. CASE Publish
  <2> DEFINE m == [id |-> nextMsg[bearer], lines |-> chunk]
  <2>1. /\ pc1 = "publish" /\ pc1' = "wait" /\ bearer \in Bearers
        /\ uplink' = [uplink EXCEPT ![bearer] = Append(@, m)]
        /\ nextMsg' = [nextMsg EXCEPT ![bearer] = @ + 1]
        /\ UNCHANGED <<txLog, tempLog, bearer, chunk>>
    BY <1>1, <1>9 DEF Publish
  <2>2. \A b \in Bearers : uplink[b] = <<>> /\ acks[b] = <<>>
    BY <2>1 DEF FaultlessInv
  <2>3. acks' = acks
    <3>1. PICK n \in 0 .. (IF bearer = "gsm" THEN Len(acks[bearer]) ELSE 0) :
            acks' = [acks EXCEPT ![bearer] = SubSeq(@, n + 1, Len(@))]
      BY <1>9 DEF Publish
    <3>2. acks[bearer] = <<>> /\ Len(acks[bearer]) = 0 /\ n = 0
      BY <2>1, <2>2, <3>1
    <3>3. SubSeq(acks[bearer], n + 1, Len(acks[bearer])) = acks[bearer]
      BY <3>2
    <3>4. QED
      BY <1>1, <3>1, <3>3
  <2>4. uplink'[bearer] = <<m>> /\ \A b \in Bearers \ {bearer} : uplink'[b] = <<>>
    <3> HIDE DEF m
    <3>1. Append(uplink[bearer], m) = <<m>>
      <4>1. uplink[bearer] = <<>>
        BY <2>1, <2>2
      <4>2. Append(<<>>, m) = <<m>>
        OBVIOUS
      <4>3. QED
        BY <4>1, <4>2
    <3>2. uplink' = [uplink EXCEPT ![bearer] = Append(uplink[bearer], m)]
      BY <2>1
    <3>3. uplink' = [uplink EXCEPT ![bearer] = <<m>>]
      BY <3>1, <3>2
    <3>4. bearer \in DOMAIN uplink /\ DOMAIN uplink = Bearers
      BY <1>1, <2>1
    <3>5. uplink'[bearer] = <<m>>
      BY <3>3, <3>4
    <3>6. \A b \in Bearers \ {bearer} : uplink'[b] = uplink[b]
      BY <3>3, <3>4
    <3>7. QED
      BY <2>2, <3>5, <3>6
  <2>5. CurrentMsg' = nextMsg[bearer]
    BY <1>1, <2>1 DEF CurrentMsg
  <2>6. OneUnderWay(bearer, [id |-> CurrentMsg, lines |-> chunk])'
    BY <2>1, <2>2, <2>3, <2>4, <2>5 DEF OneUnderWay
  <2>7. received' \cap Ids(txLog') = {}
    BY <1>3, <2>1 DEF FaultlessInv, Ledger
  <2>8. \A b \in Bearers \ {bearer'} : uplink'[b] = <<>> /\ acks'[b] = <<>>
    BY <2>1, <2>2, <2>3, <2>4
  <2>9. powered' /\ redelivered' = {}
    BY <1>3 DEF FaultlessInv
  <2> HIDE DEF m
  <2>10. QED
    BY <2>1, <2>6, <2>7, <2>8, <2>9 DEF FaultlessInv, OnlyTheChunk
<1>10. CASE RecvAck
  <2>1. /\ pc1 = "wait" /\ bearer \in Bearers /\ acks[bearer] # <<>>
        /\ acks' = [acks EXCEPT ![bearer] = Tail(@)]
        /\ pc1' = IF Acknowledges(Head(acks[bearer])) THEN "delete" ELSE "wait"
        /\ UNCHANGED <<txLog, tempLog, uplink, bearer, chunk, nextMsg>>
    BY <1>1, <1>10 DEF RecvAck
  <2>2. uplink[bearer] = <<>> /\ acks[bearer] = <<CurrentMsg>>
    BY <2>1 DEF FaultlessInv, OneUnderWay
  <2>3. pc1' = "delete"
    BY <2>1, <2>2 DEF Acknowledges, CurrentMsg
  <2>4. acks'[bearer] = <<>>
    BY <1>1, <2>1, <2>2
  <2>5. \A b \in Bearers : uplink'[b] = <<>> /\ acks'[b] = <<>>
    BY <1>1, <2>1, <2>2, <2>4 DEF FaultlessInv
  <2>6. OnlyTheChunk'
    BY <1>3, <2>1 DEF FaultlessInv, OnlyTheChunk
  <2>7. QED
    BY <1>3, <2>3, <2>5, <2>6 DEF FaultlessInv
<1>11. CASE AckTimeout
  <2>1. pc1 = "wait" /\ bearer \in Bearers /\ Settled(CurrentMsg)
    BY <1>1, <1>2, <1>11 DEF AckTimeout, Overdue, CurrentMsg
  <2>2. OneUnderWay(bearer, [id |-> CurrentMsg, lines |-> chunk])
    BY <2>1 DEF FaultlessInv
  <2>3. ~Settled([id |-> CurrentMsg, lines |-> chunk].id)
    BY <2>2, UnderWayNotSettled
  <2>4. QED
    BY <2>1, <2>3
<1>12. CASE Delete
  <2>1. /\ pc1 = "delete" /\ pc1' = "remove"
        /\ UNCHANGED <<txLog, uplink, acks, chunk, bearer>>
    BY <1>12 DEF Delete
  <2>2. QED
    BY <1>3, <2>1 DEF FaultlessInv, OnlyTheChunk
<1>13. CASE Remove
  <2>1. /\ pc1 = "remove" /\ pc1' = "rename" /\ UNCHANGED <<tempLog, uplink, acks, bearer>>
    BY <1>13 DEF Remove
  <2>2. Ids(tempLog) \subseteq Ids(txLog) \ Ids(chunk) /\ Ledger' = tempLog
    BY <1>1, <2>1 DEF KeptInv, Ledger
  <2>3. OnlyTheChunk
    BY <2>1 DEF FaultlessInv
  <2>4. received' \cap Ids(Ledger') = {}
    BY <1>3, <2>2, <2>3 DEF OnlyTheChunk
  <2>5. QED
    BY <1>3, <2>1, <2>4 DEF FaultlessInv
<1>14. CASE Rename
  <2>1. /\ pc1 = "rename" /\ pc1' = "stamp" /\ txLog' = tempLog
        /\ UNCHANGED <<uplink, acks, bearer>>
    BY <1>14 DEF Rename
  <2>2. Ledger' = Ledger
    BY <2>1 DEF Ledger
  <2>3. QED
    BY <1>3, <2>1, <2>2 DEF FaultlessInv
<1>15. CASE PublishFailed \/ DeleteShort \/ DeleteRefused
  BY <1>2, <1>15 DEF PublishFailed, DeleteShort, DeleteRefused
<1>16. QED
  BY <1>4, <1>5, <1>6, <1>7, <1>8, <1>9, <1>10, <1>11, <1>12, <1>13, <1>14, <1>15
     DEF Core1, Core1Step

LEMMA FaultlessEnvironment ==
  ASSUME FrontInv, FaultlessInv, Environment, faults = 0, faults' = 0
  PROVE  FaultlessInv'
<1> USE DEF NetOnly, flash, core1, net, history
<1>1. /\ uplink \in [Bearers -> Seq(Message)] /\ acks \in [Bearers -> Seq(Nat)]
      /\ pc1 # "idle" => bearer \in Bearers
  BY DEF FrontInv, KeptInv, LookbackInv, ChunkInv, TypeInv, TypeOK
<1>2. \A kind : ~Fault(kind)
  BY DEF Fault
<1>3. ASSUME NEW b \in Bearers, BrokerRecv(b) PROVE FaultlessInv'
  <2> DEFINE msg == Head(uplink[b])
  <2>1. /\ uplink[b] # <<>>
        /\ received' = received \cup Ids(msg.lines)
        /\ redelivered' = redelivered \cup (received \cap Ids(msg.lines))
        /\ acks' = [acks EXCEPT ![b] = Append(@, msg.id)]
        /\ uplink' = [uplink EXCEPT ![b] = Tail(@)]
        /\ UNCHANGED <<txLog, tempLog, powered, pc1, bearer, chunk, nextMsg>>
    BY <1>3 DEF BrokerRecv
  <2> HIDE DEF msg
  <2>2. b = bearer /\ pc1 \in {"status", "wait"}
    BY <2>1 DEF FaultlessInv
  <2>3. \A c \in Bearers \ {b} : uplink'[c] = <<>> /\ acks'[c] = <<>>
    BY <1>1, <2>1, <2>2 DEF FaultlessInv
  <2>4. CASE pc1 = "status"
    <3>1. uplink[b] = <<[id |-> 0, lines |-> <<>>]>> /\ acks[b] = <<>>
      BY <2>1, <2>2, <2>4 DEF FaultlessInv, OneUnderWay
    <3>2. msg.id = 0 /\ msg.lines = <<>> /\ Tail(uplink[b]) = <<>>
      BY <3>1 DEF msg
    <3>3. uplink'[b] = <<>> /\ acks'[b] = <<0>>
      BY <1>1, <2>1, <3>1, <3>2
    <3>4. received' = received /\ redelivered' = redelivered
      BY <2>1, <3>2, NoLines
    <3>5. OneUnderWay(bearer, [id |-> 0, lines |-> <<>>])'
      BY <2>1, <2>2, <3>3 DEF OneUnderWay
    <3>6. Ledger' = Ledger
      BY <2>1 DEF Ledger
    <3>7. QED
      BY <2>1, <2>2, <2>3, <2>4, <3>4, <3>5, <3>6 DEF FaultlessInv
  <2>5. CASE pc1 = "wait"
    <3>1. uplink[b] = <<[id |-> CurrentMsg, lines |-> chunk]>> /\ acks[b] = <<>>
      BY <2>1, <2>2, <2>5 DEF FaultlessInv, OneUnderWay
    <3>2. msg.id = CurrentMsg /\ msg.lines = chunk /\ Tail(uplink[b]) = <<>>
      BY <3>1 DEF msg
    <3>3. uplink'[b] = <<>> /\ acks'[b] = <<CurrentMsg>>
      BY <1>1, <2>1, <3>1, <3>2
    <3>4. received \cap Ids(txLog) = {}
      BY <2>1, <2>2, <2>5 DEF FaultlessInv
    <3>5. Ids(chunk) \subseteq Ids(txLog)
      BY <2>5, ChunkOfFile DEF FrontInv
    <3>6. redelivered' = redelivered /\ received' = received \cup Ids(chunk)
      BY <2>1, <3>2, <3>4, <3>5
    <3>7. OnlyTheChunk'
      BY <2>1, <3>4, <3>6 DEF OnlyTheChunk
    <3>8. CurrentMsg' = CurrentMsg
      BY <2>1 DEF CurrentMsg
    <3>9. OneUnderWay(bearer, [id |-> CurrentMsg, lines |-> chunk])'
      BY <2>1, <2>2, <3>3, <3>8 DEF OneUnderWay
    <3>10. QED
      BY <2>1, <2>2, <2>3, <2>5, <3>3, <3>6, <3>7, <3>9 DEF FaultlessInv
  <2>6. QED
    BY <2>2, <2>4, <2>5
<1>4. ASSUME NEW b \in Bearers, SwallowAck(b) \/ ConnLost(b) PROVE FALSE
  BY <1>2, <1>4 DEF SwallowAck, ConnLost
<1>5. CASE PowerLoss \/ Boot
  BY <1>2, <1>5 DEF PowerLoss, Boot, FaultlessInv
<1>6. CASE SyncComplete
  <2>1. UNCHANGED <<txLog, tempLog, powered, core1, uplink, acks, received, redelivered>>
    BY <1>6 DEF SyncComplete
  <2>2. QED
    BY <2>1 DEF FaultlessInv, OneUnderWay, OnlyTheChunk, CurrentMsg, Ledger
<1>7. QED
  BY <1>3, <1>4, <1>5, <1>6 DEF Environment

LEMMA DuplicateNext ==
  ASSUME DuplicateInv, [Next]_vars
  PROVE  DuplicateInv'
<1>1. FrontInv /\ FrontInv'
  BY FrontNext DEF DuplicateInv
<1>2. SUFFICES ASSUME faults' = 0 PROVE FaultlessInv'
  BY <1>1 DEF DuplicateInv
<1>3. faults \in Nat
  BY <1>1 DEF FrontInv, KeptInv, LookbackInv, ChunkInv, TypeInv, TypeOK
<1>4. faults = 0 /\ FaultlessInv
  BY <1>2, <1>3, FaultSteps DEF DuplicateInv
<1>5. CASE UNCHANGED vars
  BY <1>4, <1>5 DEF vars, flash, core1, net, history, FaultlessInv, OneUnderWay,
                    OnlyTheChunk, CurrentMsg, Ledger
<1>6. QED
  BY <1>1, <1>2, <1>4, <1>5, FaultlessCore0, FaultlessCore1, FaultlessEnvironment DEF Next

\* No record is sent again unless there was a fault: the wait outlasts what is
\* under way, and a chunk that the broker has is deleted before the next is read.
THEOREM DuplicatesNeedFault == Spec => []DuplicateNeedsFault
<1>1. Init => DuplicateInv
  BY DuplicateInit
<1>2. DuplicateInv /\ [Next]_vars => DuplicateInv'
  BY DuplicateNext
<1>3. DuplicateInv => DuplicateNeedsFault
  <2>1. DuplicateInv => faults \in Nat
    BY DEF DuplicateInv, FrontInv, KeptInv, LookbackInv, ChunkInv, TypeInv, TypeOK
  <2>2. DuplicateInv /\ faults = 0 => redelivered = {}
    BY DEF DuplicateInv, FaultlessInv
  <2>3. QED
    BY <2>1, <2>2 DEF DuplicateNeedsFault
<1>4. QED
  BY <1>1, <1>2, <1>3, PTL DEF Spec

---------------------------------------------------------------------------
(* The refinement.                                                         *)

PromiseInv == FrontInv /\ AckInv /\ ~lossy

LEMMA LossyOnlyByDelete ==
  ASSUME [Next]_vars, "tear" \notin Faults, "short" \notin Faults, ~lossy
  PROVE  ~lossy'
<1>1. CASE Core0
  BY <1>1 DEF Core0, Core0Step, Tap, Register, CountTaps, CountTapsTimeout, CountLines,
              CountLinesTimeout, AppendTx, AppendRefused, Core0Only
<1>2. CASE Core1
  BY <1>2 DEF Core1, Core1Step, OpenGsm, StreamChunk, Publish, StatusAcked, StatusTimeout,
              StreamNothing, PublishFailed, RecvAck, AckTimeout, Delete, DeleteShort,
              DeleteRefused, Remove, Rename, Stamp, Fault
<1>3. CASE Environment
  <2>1. CASE PowerLoss
    BY <2>1 DEF PowerLoss, Fault
  <2>2. QED
    BY <1>3, <2>1 DEF Environment, BrokerRecv, SwallowAck, ConnLost, Boot, SyncComplete,
                      NetOnly, history
<1>4. CASE UNCHANGED vars
  BY <1>4 DEF vars, history
<1>5. QED
  BY <1>1, <1>2, <1>3, <1>4 DEF Next

\* A record on its way is in the file or was deleted, and then received.
LEMMA SentIsReceivable ==
  ASSUME PromiseInv, NEW b \in Bearers, NEW msg \in Range(uplink[b])
  PROVE  /\ Ids(msg.lines) \subseteq Ids(Ledger) \cup received
         /\ \A r \in Ids(msg.lines), i \in Ids(Ledger) : i < r => i \in Ids(msg.lines)
<1>1. Oldest(Ids(msg.lines), Ledger, nextId)
  BY DEF PromiseInv, FrontInv
<1>2. 1 .. nextId - 1 = retired \cup Ids(Ledger) /\ retired \subseteq received
  BY DEF PromiseInv, FrontInv, KeptInv, RecordsKept, AckInv, AckedBeforeDelete
<1>3. QED
  BY <1>1, <1>2 DEF Oldest

LEMMA PromiseStep ==
  ASSUME PromiseInv, PromiseInv', [Next]_vars
  PROVE  [StoreAndForward!Next]_(StoreAndForward!abstractVars)
<1> USE DEF StoreAndForward!abstractVars
<1>1. KeptInv /\ LookbackInv /\ TypeInv /\ ~lossy /\ ~lossy'
  BY DEF PromiseInv, FrontInv, KeptInv, LookbackInv, ChunkInv
<1>2. ASSUME NEW b \in Bearers, NEW msg \in Range(uplink[b]),
             received' = received \cup Ids(msg.lines),
             UNCHANGED <<txLog, tempLog, pc1, nextId>>
      PROVE  StoreAndForward!Receive
  <2> DEFINE batch == Ids(msg.lines) \cap Ids(Ledger)
  <2>1. received' = received \cup batch
    BY <1>2, SentIsReceivable
  <2>2. StoreAndForward!OldestOf(batch, received)
    BY SentIsReceivable DEF StoreAndForward!OldestOf
  <2>3. Ledger' = Ledger
    BY <1>2 DEF Ledger
  <2>4. batch \in SUBSET Ids(Ledger)
    OBVIOUS
  <2> HIDE DEF batch
  <2>5. QED
    BY <1>2, <2>1, <2>2, <2>3, <2>4 DEF StoreAndForward!Receive
<1>3. ASSUME UNCHANGED received, FilesKept \/ RestCopied \/ Rename \/ DeleteTorn
      PROVE  UNCHANGED <<Ids(Ledger), received, nextId>>
  <2>1. CASE FilesKept
    BY <1>3, <2>1 DEF FilesKept, Ledger
  <2>2. CASE RestCopied
    BY <1>3, <2>2 DEF RestCopied, Ledger
  <2>3. CASE Rename
    BY <1>3, <2>3 DEF Rename, Ledger, Core1At, Core1Only
  <2>4. CASE DeleteTorn
    BY <1>1, <1>3, <2>4 DEF DeleteTorn, Ledger
  <2>5. QED
    BY <1>3, <2>1, <2>2, <2>3, <2>4
<1>4. ASSUME UNCHANGED received, LineWritten PROVE StoreAndForward!Write
  <2>1. PICK r \in Record : r.id = nextId /\ txLog' = Append(txLog, r)
    BY <1>4 DEF LineWritten
  <2>2. pc1 # "rename" /\ pc1' # "rename" /\ nextId' = nextId + 1
    BY <1>4 DEF LineWritten
  <2>3. txLog \in Seq(Record) /\ nextId \in Nat \ {0} /\ InOrder(txLog, nextId)
    BY <1>1 DEF KeptInv, TypeInv, TypeOK
  <2>4. Ids(txLog') = Ids(txLog) \cup {nextId}
    BY <2>1, <2>3, AppendInOrder
  <2>5. QED
    BY <1>4, <2>2, <2>4 DEF StoreAndForward!Write, Ledger
<1>5. ASSUME UNCHANGED received, Remove PROVE StoreAndForward!Forget
  <2>1. /\ pc1 = "remove" /\ pc1' = "rename" /\ UNCHANGED <<tempLog, nextId>>
    BY <1>5 DEF Remove, Core1At, Core1Only
  <2>2. Ledger = txLog /\ Ledger' = tempLog
    BY <2>1 DEF Ledger
  <2>3. Ids(tempLog) = Ids(txLog) \ Ids(chunk)
    BY <1>1, <2>1 DEF KeptInv
  <2>4. Ids(chunk) \subseteq Ids(txLog) /\ Oldest(Ids(chunk), txLog, nextId)
    BY <1>1, <2>1, ChunkOfFile
  <2>5. Ids(chunk) \subseteq received
    BY <2>1 DEF PromiseInv, AckInv
  <2>6. StoreAndForward!OldestOf(Ids(chunk), {})
    BY <2>2, <2>4 DEF StoreAndForward!OldestOf, Oldest
  <2>7. Ids(chunk) \in SUBSET (Ids(Ledger) \cap received)
    BY <2>2, <2>4, <2>5
  <2>8. QED
    BY <1>5, <2>1, <2>2, <2>3, <2>6, <2>7 DEF StoreAndForward!Forget
<1>6. CASE UNCHANGED received
  BY <1>1, <1>3, <1>4, <1>5, <1>6, FileSteps DEF StoreAndForward!Next
<1>7. QED
  BY <1>1, <1>2, <1>6, ReceiveSteps DEF StoreAndForward!Next

\* Over Wi-Fi, if no delete is torn and no copy cut short, the files, tasks and
\* connections implement the promise of src/README.md: records are written one
\* after the other, reach the broker oldest first, and are forgotten, oldest
\* first, only when the broker has them, whatever is lost, late or repeated.
THEOREM KeepsPromise ==
  ASSUME "gsm" \notin Bearers, "tear" \notin Faults, "short" \notin Faults
  PROVE  Spec => ImplementsStoreForward
<1>1. Init => PromiseInv /\ StoreAndForward!Init
  <2> SUFFICES ASSUME Init PROVE PromiseInv /\ StoreAndForward!Init
    OBVIOUS
  <2>1. ~lossy /\ Ids(Ledger) = {} /\ received = {} /\ nextId = 1
    BY NoLines DEF Init, Ledger
  <2>2. QED
    BY <2>1, FrontInit, AckInit DEF PromiseInv, StoreAndForward!Init
<1>2. PromiseInv /\ [Next]_vars => PromiseInv'
  BY FrontNext, AckNext, LossyOnlyByDelete DEF PromiseInv
<1>3. PromiseInv /\ PromiseInv' /\ [Next]_vars
        => [StoreAndForward!Next]_(StoreAndForward!abstractVars)
  BY PromiseStep
<1>4. QED
  BY <1>1, <1>2, <1>3, PTL DEF Spec, ImplementsStoreForward, StoreAndForward!Spec

\* What the invariants of the proofs say together, over Wi-Fi.
THEOREM InvariantHolds ==
  ASSUME "gsm" \notin Bearers
  PROVE  Spec => []InductiveInvariant
<1>1. Init => InductiveInvariant
  BY CapInit, DuplicateInit, AckInit DEF InductiveInvariant
<1>2. InductiveInvariant /\ [Next]_vars => InductiveInvariant'
  BY CapNext, DuplicateNext, AckNext DEF InductiveInvariant
<1>3. QED
  BY <1>1, <1>2, PTL DEF Spec
=============================================================================
