---------------------------- MODULE ReaderProofs ----------------------------
(***************************************************************************)
(* Theorems of FrontEnd about the card reader: a card is charged once for  *)
(* each visit, and a read is one card's, whose UID the driver put together *)
(* from the bits of all that answered.                                     *)
(***************************************************************************)
EXTENDS FrontEnd, TLAPS, FiniteSetTheorems, SequenceTheorems

\* A step of one device leaves the others alone.
LEMMA DeviceStep ==
  ASSUME [Next]_vars
  PROVE  /\ CR_Next \/ UNCHANGED CR_vars
         /\ KP_Next \/ UNCHANGED KP_vars
         /\ LC_Next \/ UNCHANGED LC_vars
         /\ WD_Next \/ UNCHANGED WD_vars
BY DEF Next, Only, vars

---------------------------------------------------------------------------
(* A card left on the reader.                                              *)

Asleep == {"off", "halt"}

\* The driver's record has its step and a level that exists.
DriverInv == "pc" \in DOMAIN reader /\ "lvl" \in DOMAIN reader /\ reader.lvl \in 1 .. 3

\* A card that may not be read is asleep or not there, or has just been read and
\* waits for its HLTA; and only cards on the reader are awake.
VisitInv ==
  /\ DriverInv
  /\ DOMAIN card = Cards
  /\ \A c \in Cards : c \in fresh \/ card[c] \in Asleep
                                  \/ (card[c] = "active" /\ reader.pc = "halt")
  /\ \A c \in Cards : card[c] # "off" => c \in near

LEMMA ReadyIsAwake == \A l \in 1 .. 3 : Ready[l] \notin Asleep \cup {"active"}
BY DEF Ready, Asleep

LEMMA LevelsBounded == \A c \in Cards : Levels(c) \in 1 .. 3
<1> SUFFICES ASSUME NEW c \in Cards PROVE Levels(c) \in 1 .. 3
  OBVIOUS
<1>1. Len(UidOf[c]) \in {4, 7, 10}
  BY CardAssumption
<1>2. 3 \div 3 = 1 /\ 6 \div 3 = 2 /\ 9 \div 3 = 3
  OBVIOUS
<1>3. CASE Len(UidOf[c]) = 4
  BY <1>2, <1>3 DEF Levels
<1>4. CASE Len(UidOf[c]) = 7
  BY <1>2, <1>4 DEF Levels
<1>5. CASE Len(UidOf[c]) = 10
  BY <1>2, <1>5 DEF Levels
<1>6. QED
  BY <1>1, <1>3, <1>4, <1>5

\* What the frames do to a card: none wakes a card that sleeps, and only SELECT
\* makes one active, which was ready.
LEMMA RequestedCards ==
  /\ DOMAIN Requested = Cards
  /\ \A c \in Cards : card[c] \in Asleep => Requested[c] = card[c]
  /\ \A c \in Cards : Requested[c] # "off" => card[c] # "off"
<1>1. \A c \in Cards :
        Requested[c] = CASE card[c] = "idle" -> Ready[1]
                         [] card[c] \in {"off", "halt"} -> card[c]
                         [] OTHER -> "idle"
  BY DEF Requested
<1>2. \A c \in Cards : card[c] \in Asleep => card[c] # "idle"
  BY DEF Asleep
<1>3. \A c \in Cards : card[c] \in Asleep => Requested[c] = card[c]
  BY <1>1, <1>2, Zenon DEF Asleep
<1>4. QED
  BY <1>3 DEF Requested, Asleep

LEMMA SelectedCards ==
  ASSUME NEW l \in 1 .. 3, NEW known
  PROVE  /\ DOMAIN Selected(l, known) = Cards /\ DOMAIN Dropped(l, known) = Cards
         /\ \A c \in Cards :
              /\ card[c] \in Asleep => /\ Dropped(l, known)[c] = card[c]
                                       /\ Selected(l, known)[c] = card[c]
              /\ Selected(l, known)[c] # "off" => card[c] # "off"
              /\ Dropped(l, known)[c] # "off" => card[c] # "off"
              /\ Selected(l, known)[c] = "active" => c \in Addressed(l, known)
<1>1. \A c \in Addressed(l, known) : c \in Cards /\ card[c] \notin Asleep
  BY ReadyIsAwake DEF Addressed
<1>2. \A c \in Cards :
        Dropped(l, known)[c] = IF card[c] \in Asleep \/ c \in Addressed(l, known)
                                 THEN card[c] ELSE "idle"
  BY DEF Dropped, Asleep
<1>3. \A c \in Cards :
        Selected(l, known)[c] =
          IF c \in Addressed(l, known)
            THEN IF l < Levels(c) THEN Ready[l + 1] ELSE "active"
            ELSE Dropped(l, known)[c]
  BY DEF Selected
<1>4. \A c \in Cards : card[c] \in Asleep => card[c] # "active"
  BY DEF Asleep
<1>5. \A c \in Cards : card[c] = "off" => card[c] \in Asleep
  BY DEF Asleep
<1>6. QED
  BY <1>1, <1>2, <1>3, <1>4, <1>5 DEF Selected, Dropped

\* Cards that lose their power, or get it back: all near may be read.
LEMMA PoweredVisits ==
  ASSUME DriverInv', NEW on, card' = Powered(on), fresh' = near, near' = near
  PROVE  VisitInv'
<1>1. \A c \in Cards : card'[c] # "off" => c \in near
  BY DEF Powered
<1>2. \A c \in Cards : c \in fresh' \/ card'[c] \in Asleep
  BY <1>1 DEF Asleep
<1>3. DOMAIN card' = Cards
  BY DEF Powered
<1>4. QED
  BY <1>1, <1>2, <1>3 DEF VisitInv, Asleep

\* A frame of the driver: sleeping cards sleep on, and none becomes active unless
\* the driver has read it.
LEMMA FrameKeepsVisits ==
  ASSUME VisitInv, DriverInv', reader.pc # "halt", UNCHANGED <<near, fresh>>,
         DOMAIN card' = Cards,
         \A c \in Cards : /\ card[c] \in Asleep => card'[c] = card[c]
                          /\ card'[c] # "off" => card[c] # "off"
  PROVE  VisitInv'
BY DEF VisitInv, Asleep

LEMMA VisitNext ==
  ASSUME VisitInv, CR_Next
  PROVE  /\ VisitInv'
         /\ ReadsCard => \A c \in Cards : card'[c] = "active" => c \in fresh
<1> USE DEF Step, GiveUp, At
<1>0. /\ "pc" \in DOMAIN reader /\ "lvl" \in DOMAIN reader /\ reader.lvl \in 1 .. 3
      /\ DOMAIN card = Cards
  BY DEF VisitInv, DriverInv
<1>1. ASSUME NEW pc, Step(pc) PROVE DriverInv' /\ reader'.pc = pc
  BY <1>0, <1>1 DEF DriverInv
<1>2. ASSUME GiveUp PROVE DriverInv' /\ reader'.pc = "tick"
  BY <1>2 DEF DriverInv
<1>3. CASE Request
  <2>1. /\ reader.pc = "request" /\ UNCHANGED <<near, fresh>>
        /\ card' = Requested \/ card' = card
        /\ Step("select") \/ GiveUp
    BY <1>3 DEF Request
  <2>2. DriverInv' /\ reader'.pc # "halt"
    BY <1>1, <1>2, <2>1
  <2>3. DOMAIN card' = Cards
        /\ \A c \in Cards : /\ card[c] \in Asleep => card'[c] = card[c]
                            /\ card'[c] # "off" => card[c] # "off"
    BY <1>0, <2>1, RequestedCards
  <2>4. QED
    BY <2>1, <2>2, <2>3, FrameKeepsVisits DEF ReadsCard
<1>4. CASE Spoilt
  <2>1. /\ reader.pc \in {"request", "select"} /\ UNCHANGED <<near, fresh>>
        /\ \/ card' \in {card, Requested}
           \/ card' \in {Dropped(reader.lvl, reader.known), Selected(reader.lvl, reader.known)}
        /\ Step("select") \/ GiveUp
    BY <1>4 DEF Spoilt
  <2>2. DriverInv' /\ reader'.pc # "halt"
    BY <1>1, <1>2, <2>1
  <2>3. DOMAIN card' = Cards
        /\ \A c \in Cards : /\ card[c] \in Asleep => card'[c] = card[c]
                            /\ card'[c] # "off" => card[c] # "off"
    BY <1>0, <2>1, RequestedCards, SelectedCards
  <2>4. QED
    BY <2>1, <2>2, <2>3, FrameKeepsVisits DEF ReadsCard
<1>5. CASE Anticollision \/ ShortAnswer
  <2>1. /\ reader.pc = "select" /\ UNCHANGED <<near, fresh>>
        /\ card' \in {card, Dropped(reader.lvl, reader.known)}
        /\ GiveUp \/ \E bits : reader' = [reader EXCEPT !.known = bits]
    BY <1>5 DEF Anticollision, ShortAnswer
  <2>2. DriverInv' /\ reader'.pc # "halt"
    BY <1>0, <1>2, <2>1 DEF DriverInv
  <2>3. DOMAIN card' = Cards
        /\ \A c \in Cards : /\ card[c] \in Asleep => card'[c] = card[c]
                            /\ card'[c] # "off" => card[c] # "off"
    BY <1>0, <2>1, SelectedCards
  <2>4. QED
    BY <2>1, <2>2, <2>3, FrameKeepsVisits DEF ReadsCard
<1>6. CASE Select
  <2> DEFINE l  == reader.lvl
             cs == Addressed(l, reader.known)
  <2>1. /\ reader.pc = "select" /\ near' = near
        /\ card' \in {card, Selected(l, reader.known)}
        /\ \/ GiveUp /\ fresh' = fresh
           \/ /\ GoesOn(cs, l) /\ fresh' = fresh
              /\ \E uid : reader' = [pc |-> "select", lvl |-> l + 1, known |-> <<>>, uid |-> uid]
           \/ /\ fresh' = fresh \ cs /\ CanSend /\ ~GoesOn(cs, l)
              /\ \E uid : CardSerialRead(uid)
    BY <1>6 DEF Select
  <2>2. /\ DOMAIN card' = Cards
        /\ \A c \in Cards : /\ card[c] \in Asleep => card'[c] = card[c]
                            /\ card'[c] # "off" => card[c] # "off"
    BY <1>0, <2>1, SelectedCards
  <2>3. CASE GiveUp /\ fresh' = fresh
    <3>1. DriverInv' /\ reader'.pc = "tick"
      BY <1>2, <2>3
    <3>2. QED
      BY <2>1, <2>2, <2>3, <3>1, FrameKeepsVisits DEF ReadsCard
  <2>4. CASE GoesOn(cs, l) /\ fresh' = fresh
             /\ \E uid : reader' = [pc |-> "select", lvl |-> l + 1, known |-> <<>>, uid |-> uid]
    <3>1. l + 1 \in 1 .. 3
      BY <1>0, <2>4, LevelsBounded DEF GoesOn, Addressed
    <3>2. DriverInv' /\ reader'.pc = "select"
      BY <2>4, <3>1 DEF DriverInv
    <3>3. QED
      BY <2>1, <2>2, <2>4, <3>2, FrameKeepsVisits DEF ReadsCard
  <2>5. CASE fresh' = fresh \ cs /\ CanSend /\ ~GoesOn(cs, l) /\ \E uid : CardSerialRead(uid)
    <3>1. DriverInv' /\ reader'.pc = "halt"
      BY <1>0, <2>5 DEF DriverInv, CardSerialRead
    <3>2. card' = Selected(l, reader.known)
      BY <1>6, <2>1, <2>5, <3>1 DEF Select
    <3>3. \A c \in cs : c \in Cards /\ card'[c] = "active" /\ c \in fresh
      BY <1>0, <2>1, <2>5, <3>2, ReadyIsAwake DEF GoesOn, Selected, Addressed, VisitInv
    <3>4. \A c \in Cards : card'[c] = "active" => c \in cs
      BY <1>0, <3>2, SelectedCards
    <3>5. \A c \in Cards : c \in fresh' \/ card'[c] \in Asleep \/ card'[c] = "active"
      BY <2>1, <2>2, <2>5, <3>3 DEF VisitInv
    <3>6. VisitInv'
      BY <2>1, <2>2, <3>1, <3>5 DEF VisitInv
    <3>7. QED
      BY <3>3, <3>4, <3>6
  <2>6. QED
    BY <2>1, <2>3, <2>4, <2>5
<1>7. CASE Halt
  <2>1. reader.pc = "halt" /\ near' = near /\ DriverInv' /\ reader'.pc = "tick"
    BY <1>2, <1>7 DEF Halt
  <2>2. CASE HaltHeard
    BY <2>1, <2>2 DEF HaltHeard, Halted, VisitInv, Asleep, ReadsCard
  <2>3. CASE HaltUnheard
    BY <2>1, <2>3 DEF HaltUnheard, VisitInv, ReadsCard
  <2>4. QED
    BY <1>7, <2>2, <2>3 DEF Halt
<1>8. CASE NoTick \/ Tick
  <2>1. /\ reader.pc = "tick" /\ UNCHANGED <<near, fresh, card>>
        /\ Step("request") \/ Step("recover")
    BY <1>8 DEF NoTick, Tick
  <2>2. DriverInv' /\ reader'.pc # "halt"
    BY <1>1, <2>1
  <2>3. QED
    BY <1>0, <2>1, <2>2, FrameKeepsVisits DEF ReadsCard
<1>9. CASE Recover
  <2>1. /\ reader.pc = "recover" /\ Step("request") /\ near' = near
        /\ \/ card' = card /\ fresh' = fresh
           \/ card' = Powered(TRUE) /\ fresh' = near
    BY <1>9 DEF Recover, Initialise, WriteRegister
  <2>2. DriverInv' /\ reader'.pc = "request"
    BY <1>1, <2>1
  <2>3. CASE card' = card /\ fresh' = fresh
    BY <1>0, <2>1, <2>2, <2>3, FrameKeepsVisits DEF ReadsCard
  <2>4. CASE card' = Powered(TRUE) /\ fresh' = near
    BY <2>1, <2>2, <2>4, PoweredVisits DEF ReadsCard
  <2>5. QED
    BY <2>1, <2>3, <2>4
<1>10. ASSUME NEW d \in Cards, PutDown(d) \/ TakeAway(d)
       PROVE  VisitInv' /\ reader' = reader
  BY <1>0, <1>10 DEF PutDown, TakeAway, VisitInv, DriverInv, Asleep
<1>11. CASE BusLost
  <2>1. /\ UNCHANGED <<near, reader>>
        /\ \/ UNCHANGED <<card, fresh>>
           \/ card' = Powered(FALSE) /\ fresh' = near
    BY <1>11 DEF BusLost
  <2>2. CASE UNCHANGED <<card, fresh>>
    BY <2>1, <2>2 DEF VisitInv, DriverInv, ReadsCard
  <2>3. CASE card' = Powered(FALSE) /\ fresh' = near
    BY <1>0, <2>1, <2>3, PoweredVisits DEF DriverInv, ReadsCard
  <2>4. QED
    BY <2>1, <2>2, <2>3
<1>12. CASE BusBack
  BY <1>12 DEF BusBack, VisitInv, DriverInv, ReadsCard
<1>13. QED
  BY <1>3, <1>4, <1>5, <1>6, <1>7, <1>8, <1>9, <1>10, <1>11, <1>12 DEF CR_Next, Reader, ReadsCard

\* rfid_poll and PICC_HaltA: for every set of cards with any UIDs, a card left on
\* the reader is read a second time only after it missed its HLTA or the field
\* went away, whatever the air spoils and however often the chip is reset.
THEOREM ReadOnce == Spec => ReadOncePerVisit
<1>1. Init => VisitInv
  BY DEF Init, CR_Init, At, VisitInv, DriverInv, Asleep
<1>2. VisitInv /\ [Next]_vars => VisitInv'
  <2> SUFFICES ASSUME VisitInv, [Next]_vars PROVE VisitInv'
    OBVIOUS
  <2>1. CASE CR_Next
    BY <2>1, VisitNext
  <2>2. CASE UNCHANGED CR_vars
    BY <2>2 DEF CR_vars, VisitInv, DriverInv
  <2>3. QED
    BY <2>1, <2>2, DeviceStep
<1>3. VisitInv /\ [Next]_vars =>
        [ReadsCard => \A c \in Cards : card'[c] = "active" => c \in fresh]_CR_vars
  BY DeviceStep, VisitNext
<1>4. QED
  BY <1>1, <1>2, <1>3, PTL DEF Spec, ReadOncePerVisit
---------------------------------------------------------------------------
(* What the reader reads.                                                  *)

\* A byte is the sum of its bits.
LEMMA ByteOfBits ==
  ASSUME NEW b \in 0 .. 255
  PROVE  b = ((b \div 1) % 2) + 2 * ((b \div 2) % 2) + 4 * ((b \div 4) % 2)
             + 8 * ((b \div 8) % 2) + 16 * ((b \div 16) % 2) + 32 * ((b \div 32) % 2)
             + 64 * ((b \div 64) % 2) + 128 * ((b \div 128) % 2)
OBVIOUS

Bytes4 == [1 .. 4 -> 0 .. 255]

\* Bit 8(k - 1) + j of four bytes.
LEMMA BitAt ==
  ASSUME NEW bytes \in Bytes4, NEW k \in 1 .. 4, NEW j \in 1 .. 8
  PROVE  BitsOf(bytes)[8 * (k - 1) + j] = (bytes[k] \div Weight[j]) % 2
<1>1. /\ 8 * (k - 1) + j \in 1 .. 32
      /\ ((8 * (k - 1) + j - 1) \div 8) + 1 = k /\ ((8 * (k - 1) + j - 1) % 8) + 1 = j
  OBVIOUS
<1>2. QED
  BY <1>1 DEF BitsOf

LEMMA BitsAreBits ==
  ASSUME NEW bytes \in Bytes4
  PROVE  BitsOf(bytes) \in [1 .. 32 -> 0 .. 1]
<1>1. \A b \in 0 .. 255, w \in {1, 2, 4, 8, 16, 32, 64, 128} : (b \div w) % 2 \in 0 .. 1
  OBVIOUS
<1>2. \A i \in 1 .. 32 : ((i - 1) \div 8) + 1 \in 1 .. 4 /\ ((i - 1) % 8) + 1 \in 1 .. 8
  OBVIOUS
<1>3. \A j \in 1 .. 8 : Weight[j] \in {1, 2, 4, 8, 16, 32, 64, 128}
  BY DEF Weight
<1>4. ASSUME NEW i \in 1 .. 32
      PROVE  (bytes[((i - 1) \div 8) + 1] \div Weight[((i - 1) % 8) + 1]) % 2 \in 0 .. 1
  <2> DEFINE k == ((i - 1) \div 8) + 1
             j == ((i - 1) % 8) + 1
  <2>1. k \in 1 .. 4 /\ j \in 1 .. 8
    BY <1>2
  <2> HIDE DEF k, j
  <2>2. bytes[k] \in 0 .. 255 /\ Weight[j] \in {1, 2, 4, 8, 16, 32, 64, 128}
    BY <1>3, <2>1 DEF Bytes4
  <2>3. (bytes[k] \div Weight[j]) % 2 \in 0 .. 1
    BY <1>1, <2>2
  <2>4. QED
    BY <2>3 DEF k, j
<1>5. QED
  BY <1>4 DEF BitsOf

\* The driver gets the bytes that the card sent.
LEMMA BytesBack ==
  ASSUME NEW bytes \in Bytes4
  PROVE  BytesOf(BitsOf(bytes)) = bytes
<1> DEFINE bits == BitsOf(bytes)
<1>1. ASSUME NEW k \in 1 .. 4
      PROVE  BytesOf(bits)[k] = bytes[k]
  <2> DEFINE b == 8 * (k - 1)
  <2>1. \A j \in 1 .. 8 : bits[b + j] = (bytes[k] \div Weight[j]) % 2
    BY BitAt
  <2>2. /\ bits[b + 1] = (bytes[k] \div 1) % 2  /\ bits[b + 2] = (bytes[k] \div 2) % 2
        /\ bits[b + 3] = (bytes[k] \div 4) % 2  /\ bits[b + 4] = (bytes[k] \div 8) % 2
        /\ bits[b + 5] = (bytes[k] \div 16) % 2 /\ bits[b + 6] = (bytes[k] \div 32) % 2
        /\ bits[b + 7] = (bytes[k] \div 64) % 2 /\ bits[b + 8] = (bytes[k] \div 128) % 2
    BY <2>1 DEF Weight
  <2> HIDE DEF bits
  <2>3. BytesOf(bits)[k] = bits[b+1] + 2*bits[b+2] + 4*bits[b+3] + 8*bits[b+4]
                             + 16*bits[b+5] + 32*bits[b+6] + 64*bits[b+7] + 128*bits[b+8]
    BY DEF BytesOf
  <2>4. bytes[k] \in 0 .. 255
    BY DEF Bytes4
  <2> HIDE DEF b
  <2>5. QED
    BY <2>2, <2>3, <2>4, ByteOfBits
<1> HIDE DEF bits
<1>2. DOMAIN BytesOf(bits) = 1 .. 4 /\ BytesOf(bits) = [k \in 1 .. 4 |-> BytesOf(bits)[k]]
  BY DEF BytesOf
<1>3. bytes = [k \in 1 .. 4 |-> bytes[k]]
  BY DEF Bytes4
<1>4. QED
  BY <1>1, <1>2, <1>3 DEF bits

LEMMA UidLength ==
  ASSUME NEW c \in Cards
  PROVE  /\ UidOf[c] \in Seq(0 .. 255) /\ Levels(c) \in 1 .. 3
         /\ Len(UidOf[c]) = 3 * Levels(c) + 1
         /\ Levels(c) # 3 => UidOf[c][3 * Levels(c) - 2] # CT
<1>1. /\ UidOf[c] \in Seq(0 .. 255) /\ Len(UidOf[c]) \in {4, 7, 10}
      /\ Len(UidOf[c]) # 10 => UidOf[c][Len(UidOf[c]) - 3] # CT
  BY CardAssumption
<1>2. 3 \div 3 = 1 /\ 6 \div 3 = 2 /\ 9 \div 3 = 3
  OBVIOUS
<1>3. CASE Len(UidOf[c]) = 4
  BY <1>1, <1>2, <1>3 DEF Levels
<1>4. CASE Len(UidOf[c]) = 7
  BY <1>1, <1>2, <1>4 DEF Levels
<1>5. CASE Len(UidOf[c]) = 10
  BY <1>1, <1>2, <1>5 DEF Levels
<1>6. QED
  BY <1>1, <1>3, <1>4, <1>5

\* The part of the UID that level l has.
Part(c, l) == SubSeq(UidOf[c], 3 * l - 2, 3 * l)

LEMMA PartOf ==
  ASSUME NEW S, NEW s \in Seq(S), NEW m \in Nat, NEW n \in Nat, 1 <= m, m <= n, n <= Len(s)
  PROVE  /\ SubSeq(s, m, n) \in Seq(S) /\ Len(SubSeq(s, m, n)) = n - m + 1
         /\ \A i \in 1 .. n - m + 1 : SubSeq(s, m, n)[i] = s[m + i - 1]
<1>1. Len(s) \in Nat
  BY LenProperties
<1>2. \A i \in m .. n : s[i] \in S
  BY <1>1, ElementOfSeq
<1>3. QED
  BY <1>2, SubSeqProperties

LEMMA FourBytes ==
  ASSUME NEW s \in Seq(0 .. 255), Len(s) = 4
  PROVE  s \in Bytes4
BY LenProperties DEF Bytes4

LEMMA TagInFront ==
  ASSUME NEW p \in Seq(0 .. 255), Len(p) = 3
  PROVE  /\ <<CT>> \o p \in Seq(0 .. 255) /\ Len(<<CT>> \o p) = 4 /\ (<<CT>> \o p)[1] = CT
         /\ Tail(<<CT>> \o p) = p
<1>1. CT \in 0 .. 255
  BY DEF CT
<1>2. p = [i \in 1 .. 3 |-> p[i]]
  BY LenProperties
<1>3. QED
  BY <1>1, <1>2

LEMMA LevelBytes ==
  ASSUME NEW c \in Cards, NEW l \in 1 .. 3, l <= Levels(c)
  PROVE  /\ AtLevel(c, l) \in Bytes4 /\ AtLevel(c, l) \in Seq(0 .. 255) /\ Len(AtLevel(c, l)) = 4
         /\ l < Levels(c) => AtLevel(c, l)[1] = CT /\ Tail(AtLevel(c, l)) = Part(c, l)
         /\ l = Levels(c) => AtLevel(c, l) = SubSeq(UidOf[c], 3 * l - 2, 3 * l + 1)
         /\ l = Levels(c) /\ l # 3 => AtLevel(c, l)[1] # CT
<1> DEFINE u == UidOf[c]
           n == Levels(c)
<1>1. u \in Seq(0 .. 255) /\ n \in 1 .. 3 /\ Len(u) = 3 * n + 1 /\ (n # 3 => u[3 * n - 2] # CT)
  BY UidLength
<1>2. AtLevel(c, l) = IF l < n THEN <<CT>> \o Part(c, l) ELSE SubSeq(u, 3 * l - 2, 3 * l + 1)
  BY DEF AtLevel, Part
<1>3. Part(c, l) = SubSeq(u, 3 * l - 2, 3 * l)
  BY DEF Part
<1>4. CT \in 0 .. 255
  BY DEF CT
<1> HIDE DEF u, n
<1>5. CASE l < n
  <2> DEFINE i == 3 * l - 2
             j == 3 * l
  <2>1. /\ i \in Nat /\ j \in Nat /\ 1 <= i /\ i <= j /\ j <= Len(u) /\ j - i + 1 = 3
    BY <1>1, <1>5
  <2> HIDE DEF i, j
  <2>2. SubSeq(u, i, j) \in Seq(0 .. 255) /\ Len(SubSeq(u, i, j)) = 3
    BY <1>1, <2>1, PartOf, ZenonT(30)
  <2>3. Part(c, l) \in Seq(0 .. 255) /\ Len(Part(c, l)) = 3
    BY <1>3, <2>2 DEF i, j
  <2>4. /\ AtLevel(c, l) \in Seq(0 .. 255) /\ Len(AtLevel(c, l)) = 4 /\ AtLevel(c, l)[1] = CT
        /\ Tail(AtLevel(c, l)) = Part(c, l)
    BY <1>2, <1>5, <2>3, TagInFront
  <2>5. QED
    BY <1>1, <1>5, <2>4, FourBytes DEF n
<1>6. CASE l = n
  <2> DEFINE i == 3 * l - 2
             j == 3 * l + 1
  <2>1. /\ i \in Nat /\ j \in Nat /\ 1 <= i /\ i <= j /\ j <= Len(u) /\ j - i + 1 = 4
        /\ 1 \in 1 .. 4 /\ i + 1 - 1 = i /\ ~(l < n) /\ i = 3 * n - 2
    BY <1>1, <1>6
  <2> HIDE DEF i, j
  <2>0. /\ u \in Seq(0 .. 255) /\ i \in Nat /\ j \in Nat /\ 1 <= i /\ i <= j /\ j <= Len(u)
    BY <1>1, <2>1
  <2>2. SubSeq(u, i, j) \in Seq(0 .. 255) /\ Len(SubSeq(u, i, j)) = 4
    <3>1. SubSeq(u, i, j) \in Seq(0 .. 255) /\ Len(SubSeq(u, i, j)) = j - i + 1
      BY <2>0, PartOf, ZenonT(30)
    <3>2. QED
      BY <2>1, <3>1
  <2>3. SubSeq(u, i, j)[1] = u[i]
    <3>1. \A k \in 1 .. j - i + 1 : SubSeq(u, i, j)[k] = u[i + k - 1]
      BY <2>0, PartOf
    <3>2. 1 \in 1 .. j - i + 1
      BY <2>1
    <3>3. QED
      BY <2>1, <3>1, <3>2
  <2>4. AtLevel(c, l) = SubSeq(u, i, j)
    BY <1>2, <2>1 DEF i, j
  <2>5. n # 3 => u[i] # CT
    BY <1>1, <2>1
  <2>6. AtLevel(c, l) \in Bytes4
    BY <2>2, <2>4, FourBytes
  <2>7. AtLevel(c, l) = SubSeq(UidOf[c], 3 * l - 2, 3 * l + 1)
    BY <2>4 DEF i, j, u
  <2>8. ~(l < Levels(c))
    BY <2>1 DEF n
  <2>9. QED
    BY <1>6, <2>2, <2>3, <2>4, <2>5, <2>6, <2>7, <2>8
<1>7. QED
  BY <1>1, <1>5, <1>6 DEF n

Pcs == {"tick", "recover", "request", "select", "halt"}

\* The driver's record; and what makes a level's answers those of one card: in the
\* middle of a selection only cards of this level are ready, and the UID bytes
\* copied so far are theirs.
DriverTyped ==
  /\ reader \in [pc : Pcs, lvl : 1 .. 3, known : Seq(0 .. 1), uid : Seq(0 .. 255)]
  /\ reader.pc \in {"tick", "recover", "request"} => reader = At(reader.pc)
  /\ reader.pc = "select" => Len(reader.known) <= 32 /\ Len(reader.uid) = 3 * (reader.lvl - 1)
  /\ reader.pc = "halt" => reader.known = <<>> /\ Len(reader.uid) \in {4, 7, 9, 10}

Selecting == reader.lvl > 1 \/ reader.known # <<>>

SelectInv ==
  /\ DriverTyped
  /\ card \in [Cards -> CardStates]
  /\ \A c \in Cards, k \in 1 .. 3 : card[c] = Ready[k] => k <= Levels(c)
  /\ reader.pc = "select" =>
       /\ Selecting => \A c \in Cards, k \in 1 .. 3 : card[c] = Ready[k] => k = reader.lvl
       /\ \A c \in Cards : card[c] = Ready[reader.lvl] =>
                             reader.uid = SubSeq(UidOf[c], 1, 3 * (reader.lvl - 1))

LEMMA ReadyStates ==
  /\ \A k \in 1 .. 3 : Ready[k] \in CardStates /\ Ready[k] \notin {"off", "idle", "active", "halt"}
  /\ \A k, l \in 1 .. 3 : Ready[k] = Ready[l] => k = l
BY DEF Ready, CardStates

\* No card turns ready but at level one, and the driver does not select.
LEMMA NotSelecting ==
  ASSUME SelectInv, DriverTyped', card' \in [Cards -> CardStates],
         \A c \in Cards, k \in 1 .. 3 : card'[c] = Ready[k] => card[c] = Ready[k] \/ k = 1,
         reader'.pc = "select" => reader' = At("select")
  PROVE  SelectInv'
<1>1. \A c \in Cards, k \in 1 .. 3 : card'[c] = Ready[k] => k <= Levels(c)
  BY UidLength DEF SelectInv
<1>2. CASE reader'.pc # "select"
  BY <1>1, <1>2 DEF SelectInv
<1>3. CASE reader' = At("select")
  <2>1. reader'.lvl = 1 /\ reader'.known = <<>> /\ reader'.uid = <<>> /\ 3 * (1 - 1) = 0
    BY <1>3 DEF At
  <2>2. \A c \in Cards : SubSeq(UidOf[c], 1, 0) = <<>>
    BY SubSeqEmpty
  <2>3. QED
    BY <1>1, <2>1, <2>2 DEF SelectInv, Selecting
<1>4. QED
  BY <1>2, <1>3

\* What people and the power do to the cards.
LEMMA FewerReady ==
  ASSUME SelectInv, reader' = reader, card' \in [Cards -> CardStates],
         \A c \in Cards, k \in 1 .. 3 : card'[c] = Ready[k] => card[c] = Ready[k]
  PROVE  SelectInv'
<1>1. DriverTyped' /\ Selecting' = Selecting
  BY DEF SelectInv, DriverTyped, Selecting
<1>2. \A c \in Cards, k \in 1 .. 3 : card'[c] = Ready[k] => k <= Levels(c)
  BY DEF SelectInv
<1>3. ASSUME reader.pc = "select"
      PROVE  /\ Selecting => \A c \in Cards, k \in 1 .. 3 : card'[c] = Ready[k] => k = reader.lvl
             /\ \A c \in Cards : card'[c] = Ready[reader.lvl] =>
                             reader.uid = SubSeq(UidOf[c], 1, 3 * (reader.lvl - 1))
  BY <1>3 DEF SelectInv, DriverTyped
<1>4. QED
  BY <1>1, <1>2, <1>3 DEF SelectInv

\* What the frames leave ready.
LEMMA FramesReady ==
  ASSUME SelectInv, NEW l \in 1 .. 3, NEW known
  PROVE  /\ Requested \in [Cards -> CardStates] /\ Halted \in [Cards -> CardStates]
         /\ Dropped(l, known) \in [Cards -> CardStates]
         /\ Selected(l, known) \in [Cards -> CardStates]
         /\ \A on \in BOOLEAN : Powered(on) \in [Cards -> CardStates]
         /\ \A c \in Cards, k \in 1 .. 3 :
              /\ Requested[c] = Ready[k] => k = 1
              /\ Halted[c] # Ready[k] /\ \A on \in BOOLEAN : Powered(on)[c] # Ready[k]
              /\ Dropped(l, known)[c] = Ready[k] => card[c] = Ready[k] /\ k = l
              /\ Selected(l, known)[c] = Ready[k] =>
                   c \in Addressed(l, known) /\ l < Levels(c) /\ k = l + 1
<1>0. card \in [Cards -> CardStates] /\ \A c \in Cards : Levels(c) \in 1 .. 3
  BY UidLength DEF SelectInv
<1>1. \A s \in CardStates : s \in {"off", "idle", "active", "halt", Ready[1], Ready[2], Ready[3]}
  BY DEF CardStates
<1>2. {"off", "idle", "active", "halt"} \subseteq CardStates
  BY DEF CardStates
<1>3. ASSUME NEW c \in Cards
      PROVE  /\ Requested[c] \in CardStates /\ \A k \in 1 .. 3 : Requested[c] = Ready[k] => k = 1
  <2>1. Requested[c] \in {Ready[1], "idle", "off", "halt"}
    BY <1>0, <1>1 DEF Requested
  <2>2. QED
    BY <1>2, <2>1, ReadyStates
<1>4. ASSUME NEW c \in Cards
      PROVE  Halted[c] \in CardStates /\ \A k \in 1 .. 3 : Halted[c] # Ready[k]
  BY <1>2, ReadyStates DEF Halted
<1>5. ASSUME NEW c \in Cards, NEW on \in BOOLEAN
      PROVE  Powered(on)[c] \in CardStates /\ \A k \in 1 .. 3 : Powered(on)[c] # Ready[k]
  BY <1>2, ReadyStates DEF Powered
<1>6. ASSUME NEW c \in Cards
      PROVE  /\ Dropped(l, known)[c] \in CardStates
             /\ \A k \in 1 .. 3 : Dropped(l, known)[c] = Ready[k] => card[c] = Ready[k] /\ k = l
  <2>1. \/ Dropped(l, known)[c] \in {"idle", "off", "halt"}
        \/ Dropped(l, known)[c] = Ready[l] /\ card[c] = Ready[l]
    BY DEF Dropped, Addressed
  <2>2. QED
    BY <1>2, <2>1, ReadyStates
<1>7. ASSUME NEW c \in Cards
      PROVE  /\ Selected(l, known)[c] \in CardStates
             /\ \A k \in 1 .. 3 : Selected(l, known)[c] = Ready[k] =>
                  c \in Addressed(l, known) /\ l < Levels(c) /\ k = l + 1
  <2>1. CASE c \in Addressed(l, known) /\ l < Levels(c)
    <3>1. l + 1 \in 1 .. 3 /\ Selected(l, known)[c] = Ready[l + 1]
      BY <1>0, <2>1 DEF Selected
    <3>2. QED
      BY <2>1, <3>1, ReadyStates
  <2>2. CASE c \in Addressed(l, known) /\ ~(l < Levels(c))
    <3>1. Selected(l, known)[c] = "active"
      BY <2>2 DEF Selected
    <3>2. QED
      BY <1>2, <3>1, ReadyStates
  <2>3. CASE c \notin Addressed(l, known)
    <3>1. Selected(l, known)[c] \in {"idle", "off", "halt"}
      BY <2>3 DEF Selected, Dropped
    <3>2. QED
      BY <1>2, <3>1, ReadyStates
  <2>4. QED
    BY <2>1, <2>2, <2>3
<1>8. /\ Requested \in [Cards -> CardStates] /\ Halted \in [Cards -> CardStates]
      /\ Dropped(l, known) \in [Cards -> CardStates]
  BY <1>3, <1>4, <1>6 DEF Requested, Halted, Dropped
<1>9. Selected(l, known) \in [Cards -> CardStates]
  BY <1>7 DEF Selected
<1>10. \A on \in BOOLEAN : Powered(on) \in [Cards -> CardStates]
  BY <1>5 DEF Powered
<1>11. QED
  BY <1>3, <1>4, <1>5, <1>6, <1>7, <1>8, <1>9, <1>10

LEMMA ThirtyTwo ==
  ASSUME NEW S, NEW f \in [1 .. 32 -> S]
  PROVE  f \in Seq(S) /\ Len(f) = 32
<1>1. f \in Seq(S)
  BY SeqDef
<1>2. DOMAIN f = 1 .. Len(f) /\ Len(f) \in Nat
  BY <1>1, LenProperties
<1>3. QED
  BY <1>1, <1>2

\* The bits of a level are the level's.
LEMMA LevelBits ==
  ASSUME NEW c \in Cards, NEW l \in 1 .. 3, l <= Levels(c)
  PROVE  /\ SentBits[c][l] = BitsOf(AtLevel(c, l)) /\ SentBits[c][l] \in Seq(0 .. 1)
         /\ Len(SentBits[c][l]) = 32 /\ SubSeq(SentBits[c][l], 1, 32) = SentBits[c][l]
<1>1. Levels(c) \in 1 .. 3 /\ l \in 1 .. Levels(c)
  BY UidLength
<1>2. SentBits[c][l] = BitsOf(AtLevel(c, l))
  BY <1>1 DEF SentBits
<1>3. SentBits[c][l] \in [1 .. 32 -> 0 .. 1]
  <2>1. AtLevel(c, l) \in Bytes4
    BY LevelBytes
  <2>2. QED
    BY <1>2, <2>1, BitsAreBits
<1>4. SentBits[c][l] \in Seq(0 .. 1) /\ Len(SentBits[c][l]) = 32
  BY <1>3, ThirtyTwo
<1>5. SubSeq(SentBits[c][l], 1, Len(SentBits[c][l])) = SentBits[c][l]
  BY <1>4, SubSeqFull
<1>6. QED
  BY <1>2, <1>4, <1>5

\* With all 32 bits known, the cards addressed are those that sent them.
LEMMA AddressedBytes ==
  ASSUME SelectInv, NEW l \in 1 .. 3, NEW known, Len(known) = 32, NEW c \in Addressed(l, known)
  PROVE  /\ c \in Cards /\ card[c] = Ready[l] /\ l <= Levels(c)
         /\ BytesOf(known) = AtLevel(c, l)
<1>1. c \in Cards /\ card[c] = Ready[l] /\ SubSeq(SentBits[c][l], 1, 32) = known
  BY DEF Addressed
<1>2. l <= Levels(c)
  BY <1>1 DEF SelectInv
<1>3. known = BitsOf(AtLevel(c, l))
  BY <1>1, <1>2, LevelBits
<1>4. QED
  BY <1>1, <1>2, <1>3, LevelBytes, BytesBack

\* The tag tells whether a UID goes on, the same for all of them.
LEMMA AllGoOn ==
  ASSUME SelectInv, NEW l \in 1 .. 3, NEW known, Len(known) = 32, NEW c \in Addressed(l, known),
         NEW d \in Addressed(l, known), l < Levels(c)
  PROVE  l < Levels(d)
<1>1. /\ c \in Cards /\ l <= Levels(c) /\ BytesOf(known) = AtLevel(c, l)
      /\ d \in Cards /\ l <= Levels(d) /\ BytesOf(known) = AtLevel(d, l)
  BY AddressedBytes
<1>2. Levels(c) \in 1 .. 3 /\ Levels(d) \in 1 .. 3
  BY <1>1, UidLength
<1>3. AtLevel(c, l)[1] = CT
  BY <1>1, LevelBytes
<1>4. l = Levels(d) /\ l # 3 => AtLevel(d, l)[1] # CT
  BY <1>1, LevelBytes
<1>5. QED
  BY <1>1, <1>2, <1>3, <1>4

LEMMA UidSplit ==
  ASSUME NEW c \in Cards, NEW l \in 1 .. 3, l <= Levels(c)
  PROVE  /\ SubSeq(UidOf[c], 1, 3 * (l - 1)) \o Part(c, l) = SubSeq(UidOf[c], 1, 3 * l)
         /\ l = Levels(c) => SubSeq(UidOf[c], 1, 3 * (l - 1)) \o AtLevel(c, l) = UidOf[c]
<1> DEFINE u == UidOf[c]
           k == 3 * (l - 1)
           n == 3 * l
<1>1. u \in Seq(0 .. 255) /\ Len(u) = 3 * Levels(c) + 1 /\ Levels(c) \in 1 .. 3
  BY UidLength
<1>2. /\ k \in Nat /\ k \in 0 .. Len(u) /\ k \in 1 - 1 .. Len(u) /\ n \in k .. Len(u)
      /\ 1 \in 1 .. Len(u) + 1 /\ k + 1 = 3 * l - 2 /\ Len(u) \in k .. Len(u)
      /\ l = Levels(c) => 3 * l + 1 = Len(u)
  BY <1>1
<1>3. AtLevel(c, l) = IF l < Levels(c) THEN <<CT>> \o Part(c, l)
                      ELSE SubSeq(u, 3 * l - 2, 3 * l + 1)
  BY DEF AtLevel, Part
<1>4. Part(c, l) = SubSeq(u, k + 1, n)
  BY <1>2 DEF Part
<1>5. l = Levels(c) => AtLevel(c, l) = SubSeq(u, k + 1, Len(u))
  <2> SUFFICES ASSUME l = Levels(c) PROVE AtLevel(c, l) = SubSeq(u, k + 1, Len(u))
    OBVIOUS
  <2>1. ~(l < Levels(c))
    BY <1>1
  <2> HIDE DEF u, k
  <2>2. AtLevel(c, l) = SubSeq(u, 3 * l - 2, 3 * l + 1)
    BY <1>3, <2>1, Zenon
  <2>3. QED
    BY <1>2, <2>2
<1> HIDE DEF u, k, n
<1>6. SubSeq(u, 1, k) \o SubSeq(u, k + 1, n) = SubSeq(u, 1, n)
  BY <1>1, <1>2, ConcatAdjacentSubSeq
<1>7. SubSeq(u, 1, k) \o SubSeq(u, k + 1, Len(u)) = SubSeq(u, 1, Len(u))
  BY <1>1, <1>2, ConcatAdjacentSubSeq
<1>8. SubSeq(u, 1, Len(u)) = u
  BY <1>1, SubSeqFull
<1>9. QED
  BY <1>4, <1>5, <1>6, <1>7, <1>8 DEF u, k, n

\* Two cards that answer alike at their last level have the same UID.
LEMMA OneAddressed ==
  ASSUME SelectInv, reader.pc = "select", Len(reader.known) = 32,
         NEW c \in Addressed(reader.lvl, reader.known),
         NEW d \in Addressed(reader.lvl, reader.known),
         ~(reader.lvl < Levels(c)), ~(reader.lvl < Levels(d))
  PROVE  c = d
<1> DEFINE l == reader.lvl
<1>1. l \in 1 .. 3
  BY DEF SelectInv, DriverTyped
<1>2. /\ c \in Cards /\ card[c] = Ready[l] /\ l <= Levels(c)
      /\ d \in Cards /\ card[d] = Ready[l] /\ l <= Levels(d)
      /\ BytesOf(reader.known) = AtLevel(c, l) /\ BytesOf(reader.known) = AtLevel(d, l)
  BY <1>1, AddressedBytes
<1>3. /\ reader.uid = SubSeq(UidOf[c], 1, 3 * (l - 1))
      /\ reader.uid = SubSeq(UidOf[d], 1, 3 * (l - 1))
  BY <1>2 DEF SelectInv
<1>4. Levels(c) \in 1 .. 3 /\ Levels(d) \in 1 .. 3
  BY <1>2, UidLength
<1>5. l = Levels(c) /\ l = Levels(d)
  BY <1>1, <1>2, <1>4
<1>6. UidOf[c] = reader.uid \o AtLevel(c, l) /\ UidOf[d] = reader.uid \o AtLevel(d, l)
  BY <1>1, <1>2, <1>3, <1>5, UidSplit
<1>7. AtLevel(c, l) = AtLevel(d, l)
  BY <1>2
<1>8. UidOf[c] = UidOf[d]
  BY <1>6, <1>7
<1>9. QED
  BY <1>2, <1>8, CardAssumption

\* PICC_Select copies the bytes of a level behind those of the levels before.
LEMMA CopiedBytes ==
  ASSUME NEW c \in Cards, NEW l \in 1 .. 3, l <= Levels(c),
         NEW uid \in Seq(0 .. 255), uid = SubSeq(UidOf[c], 1, 3 * (l - 1))
  PROVE  /\ Copied(uid, AtLevel(c, l)) \in Seq(0 .. 255)
         /\ l < Levels(c) => Copied(uid, AtLevel(c, l)) = SubSeq(UidOf[c], 1, 3 * l)
         /\ l = Levels(c) /\ l # 3 => Copied(uid, AtLevel(c, l)) = UidOf[c]
<1> DEFINE b == AtLevel(c, l)
<1>1. /\ b \in Seq(0 .. 255) /\ Len(b) = 4
      /\ l < Levels(c) => b[1] = CT /\ Tail(b) = Part(c, l)
      /\ l = Levels(c) /\ l # 3 => b[1] # CT
  BY LevelBytes
<1>2. /\ uid \o Part(c, l) = SubSeq(UidOf[c], 1, 3 * l)
      /\ l = Levels(c) => uid \o b = UidOf[c]
  BY UidSplit
<1>3. Levels(c) \in 1 .. 3
  BY UidLength
<1> HIDE DEF b
<1>4. Tail(b) \in Seq(0 .. 255) /\ Len(Tail(b)) = 3
  <2>1. b # <<>>
    <3>1. Len(<<>>) # 4
      OBVIOUS
    <3>2. QED
      BY <1>1, <3>1, Zenon
  <2>2. QED
    BY <1>1, <2>1, HeadTailProperties
<1>5. Copied(uid, b) = uid \o (IF b[1] = CT THEN Tail(b) ELSE b)
  BY DEF Copied
<1>6. Copied(uid, b) = uid \o Tail(b) \/ Copied(uid, b) = uid \o b
  BY <1>5
<1>7. uid \o Tail(b) \in Seq(0 .. 255) /\ uid \o b \in Seq(0 .. 255)
  BY <1>1, <1>4, ConcatProperties
<1>8. l < Levels(c) => Copied(uid, b) = SubSeq(UidOf[c], 1, 3 * l)
  BY <1>1, <1>2, <1>5
<1>9. l = Levels(c) /\ l # 3 => Copied(uid, b) = UidOf[c]
  BY <1>1, <1>2, <1>5
<1>10. QED
  BY <1>6, <1>7, <1>8, <1>9 DEF b

LEMMA CopiedBehind ==
  ASSUME NEW uid \in Seq(0 .. 255), NEW b \in Seq(0 .. 255), Len(b) = 4
  PROVE  \E rest \in Seq(0 .. 255) : Len(rest) \in {3, 4} /\ Copied(uid, b) = uid \o rest
<1>1. b # <<>>
  <2>1. Len(<<>>) # 4
    OBVIOUS
  <2>2. QED
    BY <2>1, Zenon
<1>2. Tail(b) \in Seq(0 .. 255) /\ Len(Tail(b)) = 3
  BY <1>1, HeadTailProperties
<1>3. CASE b[1] = CT
  BY <1>2, <1>3 DEF Copied
<1>4. CASE b[1] # CT
  BY <1>4 DEF Copied
<1>5. QED
  BY <1>3, <1>4

\* The anticollision loop knows bits, and 32 at most.
LEMMA ResolvedBits ==
  ASSUME NEW l \in 1 .. 3, NEW cs \in SUBSET Cards, cs # {}, \A c \in cs : l <= Levels(c)
  PROVE  Resolved(cs, l) \in Seq(0 .. 1) /\ Len(Resolved(cs, l)) <= 32
<1> DEFINE agree(m) == \A c, d \in cs : SubSeq(SentBits[c][l], 1, m) = SubSeq(SentBits[d][l], 1, m)
           ms   == {m \in 1 .. 32 : agree(m)}
           n    == Cardinality(ms)
           bits == SentBits[CHOOSE c \in cs : TRUE][l]
<1>1. Resolved(cs, l) = IF n = 32 THEN bits ELSE Append(SubSeq(bits, 1, n), 1)
  BY DEF Resolved
<1>2. n \in 0 .. 32
  <2>1. IsFiniteSet(1 .. 32) /\ Cardinality(1 .. 32) = 32
    <3>1. 1 \in Int /\ 32 \in Int /\ ~(1 > 32) /\ 32 - 1 + 1 = 32
      OBVIOUS
    <3>2. IsFiniteSet(1 .. 32) /\ Cardinality(1 .. 32) = IF 1 > 32 THEN 0 ELSE 32 - 1 + 1
      BY <3>1, FS_Interval
    <3>3. QED
      BY <3>1, <3>2
  <2>2. ms \in SUBSET (1 .. 32)
    OBVIOUS
  <2> HIDE DEF ms
  <2>3. IsFiniteSet(ms) /\ Cardinality(ms) <= 32
    BY <2>1, <2>2, FS_Subset
  <2>4. Cardinality(ms) \in Nat
    BY <2>3, FS_CardinalityType
  <2>5. QED
    BY <2>3, <2>4
<1>3. bits \in Seq(0 .. 1) /\ Len(bits) = 32
  <2>1. (CHOOSE c \in cs : TRUE) \in cs
    OBVIOUS
  <2>2. QED
    BY <2>1, LevelBits
<1> HIDE DEF n, bits
<1>4. CASE n = 32
  <2>1. Resolved(cs, l) = bits
    BY <1>1, <1>4, Zenon
  <2>2. 32 <= 32
    OBVIOUS
  <2>3. QED
    BY <1>3, <2>1, <2>2, Zenon
<1>5. CASE n # 32
  <2>1. SubSeq(bits, 1, n) \in Seq(0 .. 1) /\ Len(SubSeq(bits, 1, n)) = n
    <3>1. \A i \in 1 .. n : bits[i] \in 0 .. 1
      <4>1. \A i \in 1 .. n : i \in 1 .. Len(bits)
        BY <1>2, <1>3
      <4>2. QED
        BY <1>3, <4>1, ElementOfSeq
    <3>2. 1 \in Int /\ n \in Int /\ (IF 1 <= n THEN n - 1 + 1 ELSE 0) = n
      BY <1>2
    <3>3. QED
      BY <3>1, <3>2, SubSeqProperties
  <2>2. Resolved(cs, l) = Append(SubSeq(bits, 1, n), 1)
    BY <1>1, <1>5
  <2> DEFINE s == SubSeq(bits, 1, n)
  <2> HIDE DEF s
  <2>3. Append(s, 1) \in Seq(0 .. 1) /\ Len(Append(s, 1)) = Len(s) + 1
    BY <2>1 DEF s
  <2>4. QED
    BY <1>2, <1>5, <2>1, <2>2, <2>3 DEF s
<1>6. QED
  BY <1>4, <1>5

\* Outside a selection the record is At's.
LEMMA AtTyped ==
  ASSUME NEW pc \in {"tick", "recover", "request", "select"}, reader' = At(pc)
  PROVE  DriverTyped' /\ reader'.pc = pc /\ (reader'.pc = "select" => reader' = At("select"))
<1>1. <<>> \in Seq(0 .. 1) /\ <<>> \in Seq(0 .. 255) /\ Len(<<>>) = 0 /\ 1 \in 1 .. 3
  OBVIOUS
<1>2. QED
  BY <1>1 DEF DriverTyped, At, Pcs

\* A selection goes on: the cards that stay ready are those addressed.
LEMMA SelectingNext ==
  ASSUME SelectInv, reader.pc = "select", card' = Dropped(reader.lvl, reader.known),
         NEW bits \in Seq(0 .. 1), Len(bits) <= 32, reader' = [reader EXCEPT !.known = bits]
  PROVE  SelectInv'
<1>1. /\ DriverTyped' /\ reader'.lvl = reader.lvl /\ reader'.uid = reader.uid
      /\ reader.lvl \in 1 .. 3
      /\ reader'.pc = "select"
  BY DEF SelectInv, DriverTyped
<1>2. /\ card' \in [Cards -> CardStates]
      /\ \A c \in Cards, k \in 1 .. 3 : card'[c] = Ready[k] => card[c] = Ready[k] /\ k = reader.lvl
  BY <1>1, FramesReady
<1>3. \A c \in Cards, k \in 1 .. 3 : card'[c] = Ready[k] => k <= Levels(c)
  BY <1>2 DEF SelectInv
<1>4. \A c \in Cards : card'[c] = Ready[reader.lvl] =>
                         reader.uid = SubSeq(UidOf[c], 1, 3 * (reader.lvl - 1))
  BY <1>1, <1>2 DEF SelectInv
<1>5. QED
  BY <1>1, <1>2, <1>3, <1>4 DEF SelectInv

\* The outcome that PICC_Select promises.
OneSelected ==
  \E c \in Cards :
    /\ card'[c] = "active" /\ Uid4(reader'.uid) = Uid4(UidOf[c])
    /\ \A d \in Cards \ {c} : card'[d] \in {"off", "idle", "halt"}

LEMMA FirstFour ==
  ASSUME NEW s \in Seq(0 .. 255), Len(s) = 6, NEW t \in Seq(0 .. 255)
  PROVE  Uid4(s \o t) = Uid4(s)
<1>1. 1 \in 1 .. Len(s) /\ 4 \in 1 .. Len(s)
  OBVIOUS
<1>2. QED
  BY <1>1, SubSeqOfConcat1 DEF Uid4

LEMMA SelectNext ==
  ASSUME SelectInv, Select
  PROVE  SelectInv' /\ (ReadsCard => OneSelected)
<1> DEFINE l   == reader.lvl
           cs  == Addressed(l, reader.known)
           uid == Copied(reader.uid, BytesOf(reader.known))
<1>1. /\ reader.pc = "select" /\ Len(reader.known) = 32 /\ l \in 1 .. 3 /\ DriverTyped
      /\ reader.uid \in Seq(0 .. 255) /\ Len(reader.uid) = 3 * (l - 1)
  BY DEF Select, SelectInv, DriverTyped
<1>2. /\ card' = IF CanSend THEN Selected(l, reader.known) ELSE card
      /\ IF ~CanSend \/ cs = {} THEN GiveUp
         ELSE IF GoesOn(cs, l)
         THEN reader' = [pc |-> "select", lvl |-> l + 1, known |-> <<>>, uid |-> uid]
         ELSE CardSerialRead(uid)
  BY DEF Select
<1>3. Selecting
  <2>1. Len(<<>>) # 32
    OBVIOUS
  <2>2. QED
    BY <1>1, <2>1, Zenon DEF Selecting
<1>4. \A c \in Cards, k \in 1 .. 3 : card[c] = Ready[k] => k = l
  BY <1>1, <1>3 DEF SelectInv
<1>5. \A c \in cs : /\ c \in Cards /\ card[c] = Ready[l] /\ l <= Levels(c) /\ Levels(c) \in 1 .. 3
                    /\ BytesOf(reader.known) = AtLevel(c, l)
                    /\ reader.uid = SubSeq(UidOf[c], 1, 3 * (l - 1))
  <2> TAKE c \in cs
  <2>1. c \in Cards /\ card[c] = Ready[l] /\ l <= Levels(c) /\ BytesOf(reader.known) = AtLevel(c, l)
    BY <1>1, AddressedBytes
  <2>2. reader.uid = SubSeq(UidOf[c], 1, 3 * (l - 1))
    BY <1>1, <2>1 DEF SelectInv
  <2>3. QED
    BY <2>1, <2>2, UidLength
<1> HIDE DEF l, cs, uid
<1>6. CASE ~CanSend \/ cs = {}
  <2>1. reader' = At("tick")
    BY <1>2, <1>6 DEF GiveUp
  <2>2. DriverTyped' /\ reader'.pc = "tick"
    BY <2>1, AtTyped
  <2>3. /\ Selected(l, reader.known) \in [Cards -> CardStates]
        /\ \A c \in Cards, k \in 1 .. 3 :
             Selected(l, reader.known)[c] = Ready[k] => c \in cs /\ l < Levels(c) /\ k = l + 1
    BY <1>1, FramesReady DEF cs
  <2>4. CASE ~CanSend
    <3>1. card' = card
      BY <1>2, <2>4
    <3>2. QED
      BY <2>2, <3>1, NotSelecting DEF ReadsCard, SelectInv
  <2>5. CASE CanSend /\ cs = {}
    <3>1. /\ card' \in [Cards -> CardStates]
          /\ \A c \in Cards, k \in 1 .. 3 : card'[c] # Ready[k]
      BY <1>2, <2>3, <2>5
    <3>2. QED
      BY <2>2, <3>1, NotSelecting DEF ReadsCard
  <2>6. QED
    BY <1>6, <2>4, <2>5
<1>7. CASE CanSend /\ cs # {} /\ GoesOn(cs, l)
  <2>1. /\ reader' = [pc |-> "select", lvl |-> l + 1, known |-> <<>>, uid |-> uid]
        /\ card' = Selected(l, reader.known)
    BY <1>2, <1>7
  <2>2. PICK c \in cs : l < Levels(c)
    BY <1>7 DEF GoesOn
  <2>3. \A d \in cs : l < Levels(d)
    BY <1>1, <2>2, AllGoOn DEF cs
  <2>4. \A d \in cs : uid = SubSeq(UidOf[d], 1, 3 * l)
    <3> TAKE d \in cs
    <3>1. /\ d \in Cards /\ l <= Levels(d) /\ l < Levels(d) /\ BytesOf(reader.known) = AtLevel(d, l)
          /\ reader.uid = SubSeq(UidOf[d], 1, 3 * (l - 1))
      BY <1>5, <2>3
    <3>2. Copied(reader.uid, AtLevel(d, l)) = SubSeq(UidOf[d], 1, 3 * l)
      BY <1>1, <3>1, CopiedBytes, ZenonT(30)
    <3>3. QED
      BY <3>1, <3>2 DEF uid
  <2>5. /\ card' \in [Cards -> CardStates]
        /\ \A d \in Cards, k \in 1 .. 3 : card'[d] = Ready[k] => d \in cs /\ k = l + 1
    BY <1>1, <2>1, FramesReady DEF cs
  <2>6. l + 1 \in 1 .. 3 /\ (l + 1) - 1 = l
    BY <1>1, <1>5, <2>2
  <2>7. uid \in Seq(0 .. 255) /\ Len(uid) = 3 * l
    <3>1. UidOf[c] \in Seq(0 .. 255) /\ Len(UidOf[c]) = 3 * Levels(c) + 1 /\ Levels(c) \in 1 .. 3
      BY <1>5, UidLength
    <3> DEFINE n == 3 * l
               m == 1
    <3>2. n \in Nat /\ m \in Nat /\ 1 <= m /\ m <= n /\ n <= Len(UidOf[c]) /\ n - m + 1 = n
      BY <1>1, <2>2, <3>1
    <3> HIDE DEF n, m
    <3>3. SubSeq(UidOf[c], m, n) \in Seq(0 .. 255) /\ Len(SubSeq(UidOf[c], m, n)) = n
      BY <3>1, <3>2, PartOf, ZenonT(30)
    <3>4. QED
      BY <2>4, <3>3 DEF n, m
  <2>8. DriverTyped'
    <3>1. <<>> \in Seq(0 .. 1) /\ Len(<<>>) = 0 /\ "select" \in Pcs
      BY DEF Pcs
    <3>2. /\ reader'.pc = "select" /\ reader'.lvl = l + 1
          /\ reader'.known = <<>> /\ reader'.uid = uid
          /\ reader' \in [pc : Pcs, lvl : 1 .. 3, known : Seq(0 .. 1), uid : Seq(0 .. 255)]
      BY <2>1, <2>6, <2>7, <3>1
    <3>3. QED
      BY <2>6, <2>7, <3>1, <3>2 DEF DriverTyped
  <2>9. reader'.pc = "select" /\ reader'.lvl = l + 1 /\ reader'.uid = uid
    BY <2>1
  <2>10. \A d \in Cards, k \in 1 .. 3 : card'[d] = Ready[k] => k <= Levels(d)
    <3> TAKE d \in Cards, k \in 1 .. 3
    <3> HAVE card'[d] = Ready[k]
    <3>1. d \in cs /\ k = l + 1
      BY <2>5
    <3>2. l < Levels(d) /\ Levels(d) \in 1 .. 3
      BY <1>5, <2>3, <3>1
    <3>3. QED
      BY <1>1, <3>1, <3>2
  <2>11. \A d \in Cards : card'[d] = Ready[l + 1] => uid = SubSeq(UidOf[d], 1, 3 * ((l + 1) - 1))
    BY <2>4, <2>5, <2>6
  <2>12. QED
    BY <2>5, <2>8, <2>9, <2>10, <2>11 DEF SelectInv, ReadsCard
<1>8. CASE CanSend /\ cs # {} /\ ~GoesOn(cs, l)
  <2>1. reader' = [reader EXCEPT !.pc = "halt", !.known = <<>>, !.uid = uid]
        /\ card' = Selected(l, reader.known)
    BY <1>2, <1>8 DEF CardSerialRead
  <2>2. \A d \in cs : ~(l < Levels(d)) /\ l = Levels(d)
    BY <1>1, <1>5, <1>8 DEF GoesOn
  <2>3. PICK c \in cs : TRUE
    BY <1>8
  <2>4. \A d \in cs : d = c
    BY <1>1, <2>2, OneAddressed DEF cs, l
  <2>5. /\ card' \in [Cards -> CardStates]
        /\ \A d \in Cards, k \in 1 .. 3 : card'[d] # Ready[k]
    BY <1>1, <2>1, <2>2, FramesReady DEF cs
  <2>6. /\ uid \in Seq(0 .. 255) /\ (l # 3 => uid = UidOf[c])
        /\ l = 3 => \E rest \in Seq(0 .. 255) : Len(rest) \in {3, 4} /\ uid = reader.uid \o rest
    <3>1. /\ c \in Cards /\ l <= Levels(c) /\ l = Levels(c) /\ BytesOf(reader.known) = AtLevel(c, l)
          /\ reader.uid = SubSeq(UidOf[c], 1, 3 * (l - 1))
      BY <1>5, <2>2
    <3>2. /\ Copied(reader.uid, AtLevel(c, l)) \in Seq(0 .. 255)
          /\ l # 3 => Copied(reader.uid, AtLevel(c, l)) = UidOf[c]
      BY <1>1, <3>1, CopiedBytes, ZenonT(30)
    <3>3. ASSUME l = 3
          PROVE  \E rest \in Seq(0 .. 255) :
                   Len(rest) \in {3, 4} /\ Copied(reader.uid, AtLevel(c, l)) = reader.uid \o rest
      <4>1. AtLevel(c, l) \in Seq(0 .. 255) /\ Len(AtLevel(c, l)) = 4
        BY <1>1, <3>1, LevelBytes
      <4>2. QED
        BY <1>1, <4>1, CopiedBehind
    <3>4. QED
      BY <3>1, <3>2, <3>3 DEF uid
  <2>7. UidOf[c] \in Seq(0 .. 255) /\ Len(UidOf[c]) = 3 * l + 1
    BY <1>5, <2>2, UidLength
  <2>8. Len(uid) \in {4, 7, 9, 10} /\ Uid4(uid) = Uid4(UidOf[c])
    <3>1. CASE l # 3
      <4>1. uid = UidOf[c]
        BY <2>6, <3>1
      <4>2. 3 * l + 1 \in {4, 7, 9, 10}
        BY <1>1, <3>1
      <4>3. QED
        BY <2>7, <4>1, <4>2
    <3>2. CASE l = 3
      <4>1. PICK rest \in Seq(0 .. 255) : Len(rest) \in {3, 4} /\ uid = reader.uid \o rest
        BY <2>6, <3>2
      <4>2. Len(reader.uid) = 6
        BY <1>1, <3>2
      <4>3. Len(uid) = 6 + Len(rest) /\ Uid4(uid) = Uid4(reader.uid)
        <5>1. Len(reader.uid \o rest) = Len(reader.uid) + Len(rest)
          BY <1>1, <4>1, ConcatProperties
        <5>2. Uid4(reader.uid \o rest) = Uid4(reader.uid)
          BY <1>1, <4>1, <4>2, FirstFour
        <5>3. QED
          BY <4>1, <4>2, <5>1, <5>2
      <4>4. UidOf[c] = reader.uid \o AtLevel(c, l)
        BY <1>1, <1>5, <2>2, UidSplit, ZenonT(30)
      <4>5. AtLevel(c, l) \in Seq(0 .. 255)
        BY <1>1, <1>5, LevelBytes
      <4>6. Uid4(UidOf[c]) = Uid4(reader.uid)
        BY <1>1, <4>2, <4>4, <4>5, FirstFour
      <4>7. QED
        <5>1. Len(uid) \in {9, 10}
          <6>1. \A x \in {3, 4} : 6 + x \in {9, 10}
            OBVIOUS
          <6>2. QED
            BY <4>1, <4>3, <6>1, Zenon
        <5>2. Uid4(uid) = Uid4(UidOf[c])
          BY <4>3, <4>6
        <5>3. QED
          BY <5>1, <5>2
    <3>3. QED
      BY <3>1, <3>2
  <2>9. /\ reader'.pc = "halt" /\ reader'.known = <<>> /\ reader'.uid = uid /\ DriverTyped'
    <3>1. <<>> \in Seq(0 .. 1) /\ "halt" \in Pcs
      BY DEF Pcs
    <3>2. /\ reader'.pc = "halt" /\ reader'.known = <<>> /\ reader'.uid = uid
          /\ reader' \in [pc : Pcs, lvl : 1 .. 3, known : Seq(0 .. 1), uid : Seq(0 .. 255)]
      BY <1>1, <2>1, <2>6, <3>1 DEF DriverTyped
    <3>3. QED
      BY <2>8, <3>2 DEF DriverTyped
  <2>10. SelectInv'
    BY <2>5, <2>9, NotSelecting
  <2>11. card'[c] = "active"
    BY <1>5, <2>1, <2>2 DEF Selected, cs
  <2>12. \A d \in Cards : d \notin cs => card'[d] \in {"off", "idle", "halt"}
    BY <2>1 DEF Selected, Dropped, cs
  <2>13. OneSelected
    BY <1>5, <2>4, <2>8, <2>9, <2>11, <2>12 DEF OneSelected
  <2>14. QED
    BY <2>10, <2>13
<1>9. QED
  BY <1>6, <1>7, <1>8
LEMMA StepTyped ==
  ASSUME SelectInv, NEW from \in {"tick", "recover", "request"}, reader.pc = from,
         NEW pc \in {"tick", "recover", "request", "select"}, Step(pc)
  PROVE  reader' = At(pc)
<1>1. reader = At(from)
  BY DEF SelectInv, DriverTyped
<1>2. QED
  BY <1>1 DEF Step, At

LEMMA RequestNext ==
  ASSUME SelectInv, Request
  PROVE  SelectInv' /\ (ReadsCard => OneSelected)
<1>1. \/ reader' = At("select")
      \/ reader' = At("tick")
  BY StepTyped DEF Request, GiveUp
<1>2. DriverTyped' /\ reader'.pc # "halt" /\ (reader'.pc = "select" => reader' = At("select"))
  <2>1. CASE reader' = At("select")
    BY <2>1, AtTyped
  <2>2. CASE reader' = At("tick")
    BY <2>2, AtTyped
  <2>3. QED
    BY <1>1, <2>1, <2>2
<1>3. /\ card' \in [Cards -> CardStates]
      /\ \A c \in Cards, k \in 1 .. 3 : card'[c] = Ready[k] => card[c] = Ready[k] \/ k = 1
  <2>1. 1 \in 1 .. 3
    OBVIOUS
  <2>2. /\ Requested \in [Cards -> CardStates]
        /\ \A c \in Cards, k \in 1 .. 3 : Requested[c] = Ready[k] => k = 1
    BY <2>1, FramesReady
  <2>3. card' = Requested \/ card' = card
    BY DEF Request
  <2>4. QED
    BY <2>2, <2>3 DEF SelectInv
<1>4. QED
  BY <1>2, <1>3, NotSelecting DEF ReadsCard

LEMMA SpoiltNext ==
  ASSUME SelectInv, Spoilt
  PROVE  SelectInv' /\ (ReadsCard => OneSelected)
<1>1. /\ reader.pc \in {"request", "select"}
      /\ \/ card' = card
         \/ card' = Requested /\ reader.pc = "request"
         \/ card' = Dropped(reader.lvl, reader.known)
         \/ card' = Selected(reader.lvl, reader.known)
      /\ reader' = At("tick") \/ (reader.pc = "request" /\ Step("select"))
  BY DEF Spoilt, GiveUp
<1>2. reader' = At("tick") \/ (reader.pc = "request" /\ reader' = At("select"))
  BY <1>1, StepTyped
<1>3. DriverTyped' /\ reader'.pc # "halt" /\ (reader'.pc = "select" => reader' = At("select"))
  <2>1. CASE reader' = At("select")
    BY <2>1, AtTyped
  <2>2. CASE reader' = At("tick")
    BY <2>2, AtTyped
  <2>3. QED
    BY <1>2, <2>1, <2>2
<1>4. reader.lvl \in 1 .. 3
  BY DEF SelectInv, DriverTyped
<1>5. CASE card' # Selected(reader.lvl, reader.known)
  <2>1. card' = card \/ card' = Requested \/ card' = Dropped(reader.lvl, reader.known)
    BY <1>1, <1>5
  <2>2. /\ Requested \in [Cards -> CardStates]
        /\ Dropped(reader.lvl, reader.known) \in [Cards -> CardStates]
        /\ \A c \in Cards, k \in 1 .. 3 :
             /\ Requested[c] = Ready[k] => k = 1
             /\ Dropped(reader.lvl, reader.known)[c] = Ready[k] => card[c] = Ready[k]
    BY <1>4, FramesReady
  <2>3. /\ card' \in [Cards -> CardStates]
        /\ \A c \in Cards, k \in 1 .. 3 : card'[c] = Ready[k] => card[c] = Ready[k] \/ k = 1
    BY <2>1, <2>2 DEF SelectInv
  <2>4. QED
    BY <1>3, <2>3, NotSelecting DEF ReadsCard
<1>6. CASE card' = Selected(reader.lvl, reader.known) /\ reader' = At("tick")
  <2>1. /\ card' \in [Cards -> CardStates]
        /\ \A c \in Cards, k \in 1 .. 3 :
             card'[c] = Ready[k] => reader.lvl < Levels(c) /\ k = reader.lvl + 1
    BY <1>4, <1>6, FramesReady
  <2>2. \A c \in Cards, k \in 1 .. 3 : card'[c] = Ready[k] => k <= Levels(c)
    <3> TAKE c \in Cards, k \in 1 .. 3
    <3> HAVE card'[c] = Ready[k]
    <3>1. reader.lvl < Levels(c) /\ k = reader.lvl + 1 /\ Levels(c) \in 1 .. 3
      BY <2>1, UidLength
    <3>2. QED
      BY <1>4, <3>1
  <2>3. reader'.pc = "tick"
    BY <1>6 DEF At
  <2>4. QED
    BY <1>3, <2>1, <2>2, <2>3 DEF SelectInv, ReadsCard
<1>7. CASE card' = Selected(reader.lvl, reader.known) /\ reader' = At("select")
  <2>1. /\ reader.pc = "request" /\ reader = At("request")
        /\ card' = card \/ card' = Requested \/ card' = Dropped(reader.lvl, reader.known)
           \/ card' = Selected(reader.lvl, reader.known)
    <3>1. At("select") # At("tick")
      BY DEF At
    <3>2. reader.pc = "request"
      BY <1>2, <1>7, <3>1
    <3>3. QED
      BY <1>1, <3>2 DEF SelectInv, DriverTyped
  <2>2. card' = card \/ card' = Requested
    BY <1>1, <2>1 DEF Spoilt
  <2>3. 1 \in 1 .. 3
    OBVIOUS
  <2>4. /\ Requested \in [Cards -> CardStates]
        /\ \A c \in Cards, k \in 1 .. 3 : Requested[c] = Ready[k] => k = 1
    BY <2>3, FramesReady
  <2>5. /\ card' \in [Cards -> CardStates]
        /\ \A c \in Cards, k \in 1 .. 3 : card'[c] = Ready[k] => card[c] = Ready[k] \/ k = 1
    BY <2>2, <2>4 DEF SelectInv
  <2>6. QED
    BY <1>3, <2>5, NotSelecting DEF ReadsCard
<1>8. QED
  BY <1>2, <1>5, <1>6, <1>7

LEMMA AddressedLevels ==
  ASSUME SelectInv, NEW l \in 1 .. 3, NEW known
  PROVE  Addressed(l, known) \in SUBSET Cards /\ \A c \in Addressed(l, known) : l <= Levels(c)
BY DEF Addressed, SelectInv

LEMMA AnticollisionNext ==
  ASSUME SelectInv, Anticollision
  PROVE  SelectInv' /\ (ReadsCard => OneSelected)
<1> DEFINE cs == Addressed(reader.lvl, reader.known)
<1>1. /\ reader.pc = "select" /\ reader.lvl \in 1 .. 3
      /\ card' = IF CanSend THEN Dropped(reader.lvl, reader.known) ELSE card
      /\ IF CanSend /\ cs # {}
         THEN reader' = [reader EXCEPT !.known = Resolved(cs, reader.lvl)]
         ELSE reader' = At("tick")
      /\ DriverTyped
  BY DEF Anticollision, SelectInv, DriverTyped, GiveUp
<1>2. cs \in SUBSET Cards /\ \A c \in cs : reader.lvl <= Levels(c)
  BY <1>1, AddressedLevels
<1> HIDE DEF cs
<1>3. CASE CanSend /\ cs # {}
  <2> DEFINE bits == Resolved(cs, reader.lvl)
  <2>1. bits \in Seq(0 .. 1) /\ Len(bits) <= 32
    BY <1>1, <1>2, <1>3, ResolvedBits
  <2>2. card' = Dropped(reader.lvl, reader.known) /\ reader' = [reader EXCEPT !.known = bits]
    BY <1>1, <1>3
  <2> HIDE DEF bits
  <2>3. SelectInv'
    BY <1>1, <2>1, <2>2, SelectingNext
  <2>4. reader'.pc # "halt"
    BY <1>1, <2>2 DEF DriverTyped
  <2>5. QED
    BY <2>3, <2>4 DEF ReadsCard
<1>4. CASE ~(CanSend /\ cs # {})
  <2>1. reader' = At("tick")
    BY <1>1, <1>4
  <2>2. DriverTyped' /\ reader'.pc = "tick"
    BY <2>1, AtTyped
  <2>3. /\ Dropped(reader.lvl, reader.known) \in [Cards -> CardStates]
        /\ \A c \in Cards, k \in 1 .. 3 :
             Dropped(reader.lvl, reader.known)[c] = Ready[k] => card[c] = Ready[k]
    BY <1>1, FramesReady
  <2>4. /\ card' \in [Cards -> CardStates]
        /\ \A c \in Cards, k \in 1 .. 3 : card'[c] = Ready[k] => card[c] = Ready[k]
    <3>1. card' = card \/ card' = Dropped(reader.lvl, reader.known)
      BY <1>1
    <3>2. QED
      BY <2>3, <3>1 DEF SelectInv
  <2>5. QED
    BY <2>2, <2>4, NotSelecting DEF ReadsCard
<1>5. QED
  BY <1>3, <1>4

LEMMA CutBits ==
  ASSUME NEW S, NEW s \in Seq(S), Len(s) = 32, NEW t \in Seq(S), Len(t) = 32, NEW n \in 1 .. 31
  PROVE  SubSeq(s, 1, n) \o SubSeq(t, n + 1, 32) \in Seq(S)
         /\ Len(SubSeq(s, 1, n) \o SubSeq(t, n + 1, 32)) = 32
<1> DEFINE i == 1
           j == n
           m == n + 1
           e == 32
<1>1. /\ i \in Nat /\ j \in Nat /\ 1 <= i /\ i <= j /\ j <= 32
      /\ m \in Nat /\ e \in Nat /\ 1 <= m /\ m <= e /\ e <= 32
      /\ (j - i + 1) + (e - m + 1) = 32
  OBVIOUS
<1> DEFINE a == SubSeq(s, i, j)
           b == SubSeq(t, m, e)
<1> HIDE DEF i, j, m, e
<1>2. j <= Len(s) /\ e <= Len(t)
  BY <1>1
<1>3. a \in Seq(S) /\ Len(a) = j - i + 1
  BY <1>1, <1>2, PartOf, ZenonT(30)
<1>4. b \in Seq(S) /\ Len(b) = e - m + 1
  BY <1>1, <1>2, PartOf, ZenonT(30)
<1> HIDE DEF a, b
<1>5. a \o b \in Seq(S) /\ Len(a \o b) = Len(a) + Len(b)
  BY <1>3, <1>4, ConcatProperties
<1>6. a \o b \in Seq(S) /\ Len(a \o b) = 32
  BY <1>1, <1>3, <1>4, <1>5
<1>7. QED
  BY <1>6 DEF a, b, i, j, m, e

LEMMA ShortAnswerNext ==
  ASSUME SelectInv, ShortAnswer
  PROVE  SelectInv' /\ (ReadsCard => OneSelected)
<1> DEFINE cs   == Addressed(reader.lvl, reader.known)
           full == Resolved(cs, reader.lvl)
<1>1. /\ reader.pc = "select" /\ reader.lvl \in 1 .. 3 /\ DriverTyped
      /\ card' = Dropped(reader.lvl, reader.known) /\ cs # {} /\ Len(full) = 32
  BY DEF ShortAnswer, SelectInv, DriverTyped
<1>2. PICK d \in Cards, n \in {8, 16, 24} :
        reader' = [reader EXCEPT !.known = SubSeq(full, 1, n) \o SubSeq(SentBits[d][1], n + 1, 32)]
  BY DEF ShortAnswer
<1>3. cs \in SUBSET Cards /\ \A c \in cs : reader.lvl <= Levels(c)
  BY <1>1, AddressedLevels
<1> HIDE DEF cs
<1>4. full \in Seq(0 .. 1)
  BY <1>1, <1>3, ResolvedBits
<1>5. SentBits[d][1] \in Seq(0 .. 1) /\ Len(SentBits[d][1]) = 32
  <2>1. 1 \in 1 .. 3 /\ 1 <= Levels(d)
    BY UidLength
  <2>2. QED
    BY <2>1, LevelBits
<1> HIDE DEF full
<1> DEFINE other == SentBits[d][1]
<1> HIDE DEF other
<1> DEFINE bits == SubSeq(full, 1, n) \o SubSeq(other, n + 1, 32)
<1>6. bits \in Seq(0 .. 1) /\ Len(bits) = 32
  <2>1. Len(full) = 32 /\ Len(other) = 32 /\ other \in Seq(0 .. 1) /\ n \in 1 .. 31
    BY <1>1, <1>5 DEF other
  <2>2. QED
    BY <1>4, <2>1, CutBits
<1>7. reader' = [reader EXCEPT !.known = bits]
  BY <1>2 DEF other
<1> HIDE DEF bits
<1>8. Len(bits) <= 32
  BY <1>6
<1>9. SelectInv'
  BY <1>1, <1>6, <1>7, <1>8, SelectingNext
<1>10. reader'.pc # "halt"
  BY <1>1, <1>7 DEF DriverTyped
<1>11. QED
  BY <1>9, <1>10 DEF ReadsCard

\* Steps that leave no card ready, or those that were.
LEMMA ReaderQuiet ==
  ASSUME SelectInv, Halt \/ NoTick \/ Tick \/ Recover
  PROVE  SelectInv' /\ (ReadsCard => OneSelected)
<1>1. reader' = At("tick") \/ reader' = At("request") \/ reader' = At("recover")
  BY StepTyped DEF Halt, NoTick, Tick, Recover, GiveUp
<1>2. DriverTyped' /\ reader'.pc # "halt" /\ reader'.pc # "select"
  <2>1. CASE reader' = At("tick")
    BY <2>1, AtTyped
  <2>2. CASE reader' = At("request")
    BY <2>2, AtTyped
  <2>3. CASE reader' = At("recover")
    BY <2>3, AtTyped
  <2>4. QED
    BY <1>1, <2>1, <2>2, <2>3
<1>3. card' = card \/ card' = Halted \/ card' = Powered(TRUE)
  BY DEF Halt, HaltHeard, HaltUnheard, NoTick, Tick, Recover, Initialise, WriteRegister
<1>4. /\ card' \in [Cards -> CardStates]
      /\ \A c \in Cards, k \in 1 .. 3 : card'[c] = Ready[k] => card[c] = Ready[k]
  <2>1. 1 \in 1 .. 3
    OBVIOUS
  <2>2. /\ Halted \in [Cards -> CardStates] /\ Powered(TRUE) \in [Cards -> CardStates]
        /\ \A c \in Cards, k \in 1 .. 3 : Halted[c] # Ready[k] /\ Powered(TRUE)[c] # Ready[k]
    BY <2>1, FramesReady
  <2>3. QED
    BY <1>3, <2>2 DEF SelectInv
<1>5. QED
  BY <1>2, <1>4, NotSelecting DEF ReadsCard

LEMMA PeopleNext ==
  ASSUME SelectInv, BusLost \/ BusBack \/ \E c \in Cards : PutDown(c) \/ TakeAway(c)
  PROVE  SelectInv' /\ (ReadsCard => OneSelected)
<1>1. reader' = reader
  BY DEF BusLost, BusBack, PutDown, TakeAway
<1>2. /\ card' \in [Cards -> CardStates]
      /\ \A c \in Cards, k \in 1 .. 3 : card'[c] = Ready[k] => card[c] = Ready[k]
  <2>1. CASE card' = card
    BY <2>1 DEF SelectInv
  <2>2. CASE card' = Powered(FALSE)
    <3>1. 1 \in 1 .. 3
      OBVIOUS
    <3>2. QED
      BY <2>2, <3>1, FramesReady, ZenonT(30)
  <2>3. ASSUME NEW c \in Cards, NEW s \in {"idle", "off"}, card' = [card EXCEPT ![c] = s]
        PROVE  /\ card' \in [Cards -> CardStates]
               /\ \A d \in Cards, k \in 1 .. 3 : card'[d] = Ready[k] => card[d] = Ready[k]
    <3>1. s \in CardStates /\ \A k \in 1 .. 3 : s # Ready[k]
      BY ReadyStates DEF CardStates
    <3>2. \A d \in Cards : card'[d] = s \/ card'[d] = card[d]
      BY <2>3 DEF SelectInv
    <3>3. QED
      BY <2>3, <3>1, <3>2 DEF SelectInv
  <2>4. \/ card' = card \/ card' = Powered(FALSE)
        \/ \E c \in Cards, s \in {"idle", "off"} : card' = [card EXCEPT ![c] = s]
    BY DEF BusLost, BusBack, PutDown, TakeAway
  <2>5. QED
    BY <2>1, <2>2, <2>3, <2>4
<1>3. QED
  BY <1>1, <1>2, FewerReady DEF ReadsCard

LEMMA SelectStep ==
  ASSUME SelectInv, CR_Next
  PROVE  SelectInv' /\ (ReadsCard => OneSelected)
BY RequestNext, SpoiltNext, AnticollisionNext, ShortAnswerNext, SelectNext, ReaderQuiet, PeopleNext
   DEF CR_Next, Reader

SelectionStep ==
  [ReadsCard => \E c \in Cards :
     /\ card'[c] = "active"
     /\ Uid4(reader'.uid) = Uid4(UidOf[c])
     /\ \A d \in Cards \ {c} : card'[d] \in {"off", "idle", "halt"}]_CR_vars

LEMMA SelectStart ==
  ASSUME CR_Init
  PROVE  SelectInv
<1>1. reader = At("tick") /\ \A c \in Cards : card[c] = "off"
  BY DEF CR_Init
<1>2. DriverTyped /\ reader.pc = "tick"
  <2>1. <<>> \in Seq(0 .. 1) /\ <<>> \in Seq(0 .. 255) /\ Len(<<>>) = 0 /\ 1 \in 1 .. 3
    OBVIOUS
  <2>2. QED
    BY <1>1, <2>1 DEF DriverTyped, At, Pcs
<1>3. card \in [Cards -> CardStates]
  BY DEF CR_Init, CardStates
<1>4. QED
  BY <1>1, <1>2, <1>3, ReadyStates DEF SelectInv

LEMMA SelectStays == UNCHANGED CR_vars => (SelectInv => SelectInv')
BY DEF CR_vars, SelectInv, DriverTyped, Selecting

\* PICC_Select and rfid_poll: for every set of cards with UIDs of any of the three
\* sizes and in any order of collisions, lost frames and cut answers, a read ends
\* with one card active, the others out of the way, and the UID is that card's.
THEOREM ReadsOneCard == Spec => SelectsOne
<1>1. Init => SelectInv
  BY SelectStart DEF Init
<1>2. SelectInv /\ [Next]_vars => SelectInv' /\ SelectionStep
  <2> SUFFICES ASSUME SelectInv, [Next]_vars PROVE SelectInv' /\ SelectionStep
    OBVIOUS
  <2>1. CASE CR_Next
    BY <2>1, SelectStep DEF OneSelected, SelectionStep
  <2>2. CASE UNCHANGED CR_vars
    BY <2>2, SelectStays DEF SelectionStep
  <2>3. QED
    BY <2>1, <2>2, DeviceStep
<1>3. QED
  BY <1>1, <1>2, PTL DEF Spec, SelectsOne, SelectionStep

---------------------------------------------------------------------------
(* Types of the reader.                                                    *)

\* What the driver's invariants leave open: the watchdog's counter, the history
\* and the budget.
WatchTyped ==
  /\ near \subseteq Cards /\ fresh \subseteq near
  /\ bus \in BOOLEAN /\ field \in BOOLEAN
  /\ dog \in [failures : 0 .. CountTo - 1, faulted : BOOLEAN, alerted : BOOLEAN]
  /\ budget \in [moves : 0 .. MaxMoves, faults : 0 .. MaxFaults]

LEMMA CountedWraps == \A n \in 0 .. CountTo - 1 : Counted(n) \in 0 .. CountTo - 1
BY BoundAssumption DEF Counted

LEMMA FaultTyped ==
  ASSUME budget \in [moves : 0 .. MaxMoves, faults : 0 .. MaxFaults], Fault
  PROVE  budget' \in [moves : 0 .. MaxMoves, faults : 0 .. MaxFaults]
BY BoundAssumption DEF Fault

LEMMA AliveTyped ==
  ASSUME dog \in [failures : 0 .. CountTo - 1, faulted : BOOLEAN, alerted : BOOLEAN]
  PROVE  /\ MarkActivity \in [failures : 0 .. CountTo - 1, faulted : BOOLEAN, alerted : BOOLEAN]
         /\ Alive => dog' \in [failures : 0 .. CountTo - 1, faulted : BOOLEAN, alerted : BOOLEAN]
<1>1. 0 \in 0 .. CountTo - 1
  BY BoundAssumption
<1>2. MarkActivity \in [failures : 0 .. CountTo - 1, faulted : BOOLEAN, alerted : BOOLEAN]
  BY <1>1 DEF MarkActivity
<1>3. (MarkActivity.alerted /\ Alert(TRUE)) \in BOOLEAN
  BY DEF Alert
<1>4. QED
  BY <1>2, <1>3 DEF Alive

LEMMA WatchNext ==
  ASSUME WatchTyped, VisitInv, CR_Next
  PROVE  WatchTyped'
<1>1. CASE Request
  BY <1>1 DEF Request, WatchTyped
<1>2. CASE Anticollision
  BY <1>2 DEF Anticollision, WatchTyped
<1>3. CASE Select
  BY <1>3, AliveTyped DEF Select, WatchTyped
<1>4. CASE Halt
  <2>1. \A c \in Cards : card[c] = "active" => c \in near
    BY DEF VisitInv
  <2>2. QED
    BY <1>4, <2>1, FaultTyped DEF Halt, HaltHeard, HaltUnheard, WatchTyped
<1>5. CASE Recover
  <2>1. bus' = bus /\ near' = near /\ budget' = budget
        /\ field' \in {field, TRUE} /\ fresh' \in {fresh, near}
    BY <1>5 DEF Recover, Initialise, WriteRegister
  <2>2. dog' \in [failures : 0 .. CountTo - 1, faulted : BOOLEAN, alerted : BOOLEAN]
    <3>1. CASE Healthy
      BY <1>5, <3>1, AliveTyped DEF Recover, WatchTyped
    <3>2. CASE ~Healthy
      <4> DEFINE n == Counted(dog.failures)
      <4>1. n \in 0 .. CountTo - 1
        BY CountedWraps DEF WatchTyped
      <4>2. dog' = [failures |-> n, faulted |-> dog.faulted \/ n >= 3, alerted |-> Alert(FALSE)]
        BY <1>5, <3>2 DEF Recover
      <4> HIDE DEF n
      <4>3. (dog.faulted \/ n >= 3) \in BOOLEAN /\ Alert(FALSE) \in BOOLEAN
        BY DEF Alert
      <4>4. QED
        BY <4>1, <4>2, <4>3
    <3>3. QED
      BY <3>1, <3>2
  <2>3. QED
    BY <2>1, <2>2 DEF WatchTyped
<1>6. CASE NoTick
  BY <1>6 DEF NoTick, WatchTyped
<1>7. CASE Tick
  BY <1>7, AliveTyped DEF Tick, WatchTyped
<1>8. CASE Spoilt
  BY <1>8, FaultTyped DEF Spoilt, WatchTyped
<1>9. CASE ShortAnswer
  BY <1>9, FaultTyped DEF ShortAnswer, WatchTyped
<1>10. CASE BusLost
  BY <1>10, FaultTyped DEF BusLost, WatchTyped
<1>11. CASE BusBack
  BY <1>11 DEF BusBack, WatchTyped
<1>12. ASSUME NEW c \in Cards, PutDown(c) \/ TakeAway(c)
       PROVE  WatchTyped'
  <2>1. budget' \in [moves : 0 .. MaxMoves, faults : 0 .. MaxFaults]
    BY <1>12, BoundAssumption DEF PutDown, TakeAway, WatchTyped
  <2>2. QED
    BY <1>12, <2>1 DEF PutDown, TakeAway, WatchTyped
<1>13. QED
  BY <1>1, <1>2, <1>3, <1>4, <1>5, <1>6, <1>7, <1>8, <1>9, <1>10, <1>11, <1>12 DEF CR_Next, Reader

\* The state of the reader, its chip and its cards keeps its type: the driver never
\* knows more than 32 bits of a level, and a UID has one of the lengths that the
\* bytes of one to three levels add up to.
LEMMA ReaderTyped == SelectInv /\ WatchTyped => CR_TypeOK
<1> SUFFICES ASSUME SelectInv, WatchTyped PROVE CR_TypeOK
  OBVIOUS
<1>1. /\ reader.pc \in Pcs /\ reader.lvl \in 1 .. 3 /\ card \in [Cards -> CardStates]
  BY DEF SelectInv, DriverTyped
<1>2. Len(reader.known) <= 32 /\ Len(reader.uid) \in {0, 3, 4, 6, 7, 9, 10}
  <2>1. Len(<<>>) = 0 /\ 0 <= 32 /\ \A l \in 1 .. 3 : 3 * (l - 1) \in {0, 3, 6}
    OBVIOUS
  <2>2. CASE reader.pc \in {"tick", "recover", "request"}
    <3>1. reader.known = <<>> /\ reader.uid = <<>>
      BY <2>2 DEF SelectInv, DriverTyped, At
    <3>2. QED
      BY <2>1, <3>1
  <2>3. CASE reader.pc = "select"
    <3>1. Len(reader.known) <= 32 /\ Len(reader.uid) = 3 * (reader.lvl - 1)
      BY <2>3 DEF SelectInv, DriverTyped
    <3>2. QED
      BY <1>1, <2>1, <3>1
  <2>4. CASE reader.pc = "halt"
    <3>1. reader.known = <<>> /\ Len(reader.uid) \in {4, 7, 9, 10}
      BY <2>4 DEF SelectInv, DriverTyped
    <3>2. QED
      BY <2>1, <3>1
  <2>5. QED
    BY <1>1, <2>2, <2>3, <2>4 DEF Pcs
<1>3. QED
  BY <1>1, <1>2 DEF WatchTyped, CR_TypeOK, Pcs

=============================================================================
