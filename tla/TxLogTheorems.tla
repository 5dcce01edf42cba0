--------------------------- MODULE TxLogTheorems ---------------------------
(***************************************************************************)
(* Facts about the log operators of TxLog: what a prefix, a drop and an    *)
(* append return, and what each does to the number of fares of a card.     *)
(***************************************************************************)
EXTENDS TxLog, SequenceTheorems, FunctionTheorems, FiniteSetTheorems, TLAPS

\* The bytes of a chunk are the first lines of the file, unchanged.
LEMMA FirstLinesFacts ==
  ASSUME NEW log \in Seq(Record), NEW n \in 0 .. Len(log)
  PROVE  /\ FirstLines(log, n) \in Seq(Record)
         /\ Len(FirstLines(log, n)) = n
         /\ \A k \in 1 .. n : FirstLines(log, n)[k] = log[k]
<1>1. \A k \in 1 .. n : log[k] \in Record
  BY ElementOfSeq
<1>2. QED
  BY <1>1, SubSeqProperties, LenProperties DEF FirstLines

\* The copy of the delete keeps the lines after the offset, unchanged.
LEMMA DropLinesFacts ==
  ASSUME NEW log \in Seq(Record), NEW n \in 0 .. Len(log)
  PROVE  /\ DropLines(log, n) \in Seq(Record)
         /\ Len(DropLines(log, n)) = Len(log) - n
         /\ \A k \in 1 .. Len(log) - n : DropLines(log, n)[k] = log[k + n]
<1>1. Len(log) \in Nat
  BY LenProperties
<1>2. \A k \in n + 1 .. Len(log) : log[k] \in Record
  BY <1>1, ElementOfSeq
<1>3. /\ SubSeq(log, n + 1, Len(log)) \in Seq(Record)
      /\ Len(SubSeq(log, n + 1, Len(log))) =
           IF n + 1 <= Len(log) THEN Len(log) - (n + 1) + 1 ELSE 0
      /\ \A k \in 1 .. Len(log) - (n + 1) + 1 :
           SubSeq(log, n + 1, Len(log))[k] = log[n + 1 + k - 1]
  BY <1>1, <1>2, SubSeqProperties
<1>4. \A k \in 1 .. Len(log) - n : n + 1 + k - 1 = k + n
  BY <1>1
<1>5. QED
  BY <1>1, <1>3, <1>4 DEF DropLines

LEMMA IdsType ==
  ASSUME NEW log \in Seq(Record)
  PROVE  Ids(log) \subseteq Nat
<1>1. \A k \in DOMAIN log : log[k] \in Record
  BY ElementOfSeq, LenProperties
<1>2. QED
  BY <1>1 DEF Ids, Record

\* A drop is a log whatever the offset.
LEMMA DropLinesType ==
  ASSUME NEW log \in Seq(Record), NEW n \in Nat
  PROVE  DropLines(log, n) \in Seq(Record)
<1>1. \A k \in n + 1 .. Len(log) : log[k] \in Record
  BY ElementOfSeq, LenProperties
<1>2. QED
  BY <1>1, SubSeqProperties, LenProperties DEF DropLines

\* What a Core 0 append does to the file.
LEMMA AppendFacts ==
  ASSUME NEW S, NEW log \in Seq(S), NEW r \in S
  PROVE  /\ Append(log, r) \in Seq(S)
         /\ Len(Append(log, r)) = Len(log) + 1
         /\ \A k \in 1 .. Len(log) : Append(log, r)[k] = log[k]
         /\ Append(log, r)[Len(log) + 1] = r
OBVIOUS

\* An append leaves every prefix of the file as it was.
LEMMA FirstLinesOfAppend ==
  ASSUME NEW log \in Seq(Record), NEW r \in Record, NEW n \in 0 .. Len(log)
  PROVE  FirstLines(Append(log, r), n) = FirstLines(log, n)
<1> DEFINE longer == Append(log, r)
<1>1. Len(log) \in Nat
  BY LenProperties
<1>2. /\ longer \in Seq(Record) /\ Len(longer) = Len(log) + 1
      /\ \A k \in 1 .. Len(log) : longer[k] = log[k]
  BY AppendFacts
<1> HIDE DEF longer
<1>3. n \in 0 .. Len(longer)
  BY <1>1, <1>2
<1>4. /\ FirstLines(longer, n) \in Seq(Record) /\ Len(FirstLines(longer, n)) = n
      /\ \A k \in 1 .. n : FirstLines(longer, n)[k] = longer[k]
  BY <1>2, <1>3, FirstLinesFacts
<1>5. /\ FirstLines(log, n) \in Seq(Record) /\ Len(FirstLines(log, n)) = n
      /\ \A k \in 1 .. n : FirstLines(log, n)[k] = log[k]
  BY FirstLinesFacts
<1>6. \A k \in 1 .. n : FirstLines(longer, n)[k] = FirstLines(log, n)[k]
  BY <1>1, <1>2, <1>4, <1>5
<1>7. FirstLines(longer, n) = FirstLines(log, n)
  BY <1>4, <1>5, <1>6, SeqEqual
<1>8. QED
  BY <1>7 DEF longer

\* The chunk that was sent is a prefix of the file.
LEMMA ChunkLenRange ==
  ASSUME NEW log \in Seq(Record)
  PROVE  ChunkLen(log) \in 0 .. Len(log)
BY ChunkLinesAssumption, LenProperties DEF ChunkLen

---------------------------------------------------------------------------
(* The elements of a queue. *)

LEMMA RangeEmpty == Range(<<>>) = {}
BY DEF Range

LEMMA RangeType ==
  ASSUME NEW S, NEW s \in Seq(S)
  PROVE  Range(s) \subseteq S
<1>1. \A k \in DOMAIN s : s[k] \in S
  BY ElementOfSeq, LenProperties
<1>2. QED
  BY <1>1 DEF Range

LEMMA RangeAppend ==
  ASSUME NEW S, NEW s \in Seq(S), NEW e \in S
  PROVE  Range(Append(s, e)) = Range(s) \cup {e}
<1> DEFINE longer == Append(s, e)
<1>1. Len(s) \in Nat /\ DOMAIN s = 1 .. Len(s)
  BY LenProperties
<1>2. /\ longer \in Seq(S) /\ Len(longer) = Len(s) + 1
      /\ \A k \in 1 .. Len(s) : longer[k] = s[k]
      /\ longer[Len(s) + 1] = e
  BY AppendFacts
<1> HIDE DEF longer
<1>3. DOMAIN longer = 1 .. Len(s) + 1
  BY <1>2, LenProperties
<1>4. Range(longer) = Range(s) \cup {e}
  BY <1>1, <1>2, <1>3 DEF Range
<1>5. QED
  BY <1>4 DEF longer

LEMMA RangeHeadTail ==
  ASSUME NEW S, NEW s \in Seq(S), s # <<>>
  PROVE  Head(s) \in Range(s) /\ Range(Tail(s)) \subseteq Range(s)
<1>1. Len(s) \in Nat \ {0} /\ DOMAIN s = 1 .. Len(s)
  BY EmptySeq, LenProperties
<1>2. /\ Tail(s) \in Seq(S) /\ Len(Tail(s)) = Len(s) - 1
      /\ \A k \in 1 .. Len(Tail(s)) : Tail(s)[k] = s[k + 1]
  BY HeadTailProperties
<1>3. DOMAIN Tail(s) = 1 .. Len(s) - 1
  BY <1>2, LenProperties
<1>4. Range(Tail(s)) \subseteq Range(s)
  BY <1>1, <1>2, <1>3 DEF Range
<1>5. Head(s) = s[1]
  OBVIOUS
<1>6. QED
  BY <1>1, <1>4, <1>5 DEF Range

---------------------------------------------------------------------------
(* The offline lookback: how many fares of a card a log holds. *)

LEMMA TapLinesFinite ==
  ASSUME NEW log \in Seq(Record), NEW u
  PROVE  /\ TapLines(log, u) \subseteq 1 .. Len(log)
         /\ IsFiniteSet(TapLines(log, u))
         /\ CountUid(log, u) \in Nat
<1>1. TapLines(log, u) \subseteq 1 .. Len(log)
  BY LenProperties DEF TapLines
<1>2. Len(log) \in Int /\ 1 \in Int
  BY LenProperties
<1>3. IsFiniteSet(1 .. Len(log))
  BY <1>2, FS_Interval
<1>4. IsFiniteSet(TapLines(log, u))
  BY <1>1, <1>3, FS_Subset
<1>5. QED
  BY <1>1, <1>4, FS_CardinalityType DEF CountUid

LEMMA CountUidEmpty ==
  ASSUME NEW u
  PROVE  CountUid(<<>>, u) = 0
<1>1. TapLines(<<>>, u) = {}
  BY DEF TapLines
<1>2. QED
  BY <1>1, FS_EmptySet DEF CountUid

\* A registration, or a fare of another card, does not count.
LEMMA CountUidAppendOther ==
  ASSUME NEW log \in Seq(Record), NEW r \in Record, NEW u,
         ~(r.kind = "tap" /\ r.uid = u)
  PROVE  CountUid(Append(log, r), u) = CountUid(log, u)
<1> DEFINE longer == Append(log, r)
<1>1. Len(log) \in Nat /\ DOMAIN log = 1 .. Len(log)
  BY LenProperties
<1>2. /\ longer \in Seq(Record) /\ Len(longer) = Len(log) + 1
      /\ \A k \in 1 .. Len(log) : longer[k] = log[k]
      /\ longer[Len(log) + 1] = r
  BY AppendFacts
<1> HIDE DEF longer
<1>3. DOMAIN longer = 1 .. Len(log) + 1
  BY <1>2, LenProperties
<1>4. TapLines(longer, u) = TapLines(log, u)
  BY <1>1, <1>2, <1>3 DEF TapLines
<1>5. QED
  BY <1>4 DEF CountUid, longer

\* A fare counts once.
LEMMA CountUidAppendTap ==
  ASSUME NEW log \in Seq(Record), NEW r \in Record,
         r.kind = "tap"
  PROVE  CountUid(Append(log, r), r.uid) = CountUid(log, r.uid) + 1
<1> DEFINE longer == Append(log, r)
           u == r.uid
<1>1. Len(log) \in Nat /\ DOMAIN log = 1 .. Len(log)
  BY LenProperties
<1>2. /\ longer \in Seq(Record) /\ Len(longer) = Len(log) + 1
      /\ \A k \in 1 .. Len(log) : longer[k] = log[k]
      /\ longer[Len(log) + 1] = r
  BY AppendFacts
<1> HIDE DEF longer
<1>3. DOMAIN longer = 1 .. Len(log) + 1
  BY <1>2, LenProperties
<1>4. TapLines(longer, u) = TapLines(log, u) \cup {Len(log) + 1}
  BY <1>1, <1>2, <1>3 DEF TapLines
<1>5. TapLines(log, u) \subseteq 1 .. Len(log) /\ IsFiniteSet(TapLines(log, u))
  BY TapLinesFinite
<1>6. Len(log) + 1 \notin TapLines(log, u)
  BY <1>1, <1>5
<1>7. Cardinality(TapLines(longer, u)) = Cardinality(TapLines(log, u)) + 1
  BY <1>4, <1>5, <1>6, FS_AddElement
<1>8. QED
  BY <1>7 DEF CountUid, longer

\* Deleting what was sent never raises a card's count.
LEMMA CountUidDrop ==
  ASSUME NEW log \in Seq(Record), NEW n \in 0 .. Len(log), NEW u
  PROVE  CountUid(DropLines(log, n), u) <= CountUid(log, u)
<1> DEFINE rest == DropLines(log, n)
           f == [k \in TapLines(rest, u) |-> k + n]
<1>1. Len(log) \in Nat /\ DOMAIN log = 1 .. Len(log)
  BY LenProperties
<1>2. /\ rest \in Seq(Record) /\ Len(rest) = Len(log) - n
      /\ \A k \in 1 .. Len(log) - n : rest[k] = log[k + n]
  BY DropLinesFacts
<1> HIDE DEF rest
<1>3. DOMAIN rest = 1 .. Len(log) - n
  BY <1>2, LenProperties
<1>4. TapLines(rest, u) \subseteq 1 .. Len(log) - n
  BY <1>3 DEF TapLines
<1>5. \A k \in TapLines(rest, u) : k + n \in TapLines(log, u)
  BY <1>1, <1>2, <1>3 DEF TapLines
<1>6. \A j, k \in TapLines(rest, u) : j + n = k + n => j = k
  BY <1>1, <1>4
<1>7. f \in Injection(TapLines(rest, u), TapLines(log, u))
  BY <1>5, <1>6 DEF Injection, IsInjective
<1>8. IsFiniteSet(TapLines(log, u))
  BY TapLinesFinite
<1>9. Cardinality(TapLines(rest, u)) <= Cardinality(TapLines(log, u))
  BY <1>7, <1>8, FS_Injection
<1>10. QED
  BY <1>9 DEF CountUid, rest

\* Nor does a copy that was cut short.
LEMMA CountUidFirst ==
  ASSUME NEW log \in Seq(Record), NEW n \in 0 .. Len(log), NEW u
  PROVE  CountUid(FirstLines(log, n), u) <= CountUid(log, u)
<1> DEFINE short == FirstLines(log, n)
<1>1. Len(log) \in Nat /\ DOMAIN log = 1 .. Len(log)
  BY LenProperties
<1>2. /\ short \in Seq(Record) /\ Len(short) = n
      /\ \A k \in 1 .. n : short[k] = log[k]
  BY FirstLinesFacts
<1> HIDE DEF short
<1>3. DOMAIN short = 1 .. n
  BY <1>2, LenProperties
<1>4. TapLines(short, u) \subseteq TapLines(log, u)
  BY <1>1, <1>2, <1>3 DEF TapLines
<1>5. IsFiniteSet(TapLines(log, u))
  BY TapLinesFinite
<1>6. Cardinality(TapLines(short, u)) <= Cardinality(TapLines(log, u))
  BY <1>4, <1>5, FS_Subset
<1>7. QED
  BY <1>6 DEF CountUid, short
=============================================================================
