--------------------------- MODULE SyncTaskProofs ---------------------------
(***************************************************************************)
(* Theorems of SyncTask: a forced mode is obeyed, AUTO is not hasty, every *)
(* variable keeps its type, what the Wi-Fi wait takes for an               *)
(* acknowledgement is one, and what the client reads as a downlink is one. *)
(***************************************************************************)
EXTENDS SyncTask, SequenceTheorems, TLAPS

\* What every step but ReadMode and a restart keeps.
SameMode == mode' = mode

\* Where Core 1 goes while a pass lasts: into a bearer only through ReadMode.
InWifi == {"wifi", "connack", "flush", "stall", "wait", "acked", "ota"} \cup LoopPcs

\* A step of Core 1 within a pass over Wi-Fi.
LEMMA WifiStepStays ==
  ASSUME WifiStep \/ ConnackTimeout \/ ReadTimeout \/ AckTimeout, back \in LoopPcs
  PROVE  \/ Restarted
         \/ mode' = mode /\ pc \in InWifi /\ pc' \in InWifi \cup {"poll"} /\ back' \in LoopPcs
<1> USE DEF InWifi, LoopPcs, To, Core1At
<1>1. \A p \in LoopPcs : AfterLoop(p) \in {"flush", "wait", "poll"}
  BY DEF AfterLoop
<1>2. CASE WifiConnected \/ WifiDial \/ WifiRefused \/ ConnackRead \/ ConnackTimeout
  BY <1>2 DEF WifiConnected, WifiDial, WifiRefused, ConnackRead, ConnackTimeout,
              WifiRest, WifiFailed
<1>3. CASE LoopPing \/ LoopReturn
  BY <1>1, <1>3 DEF LoopPing, LoopReturn, LoopRest
<1>4. ASSUME NEW p \in LoopPcs, ReadPacket(p) \/ OtaBegins(p) \/ ReadBadLength(p)
      PROVE  mode' = mode /\ pc' \in InWifi \cup {"poll"} /\ back' \in LoopPcs
  BY <1>1, <1>4 DEF ReadPacket, OtaBegins, ReadBadLength, LoopRest
<1>5. CASE LoopRead
  <2>1. pc \in LoopPcs
    BY <1>5 DEF LoopRead
  <2>2. CASE ReadPacket(pc) \/ OtaBegins(pc) \/ ReadBadLength(pc)
    BY <1>4, <2>1, <2>2
  <2>3. CASE ~(ReadPacket(pc) \/ OtaBegins(pc) \/ ReadBadLength(pc))
    BY <1>5, <2>1, <2>3 DEF LoopRead, LoopRest
  <2>4. QED
    BY <2>2, <2>3, <2>1
<1>6. CASE StallEnds \/ OtaWithout
  BY <1>4, <1>6 DEF StallEnds, OtaWithout
<1>7. CASE ReadTimeout \/ OtaAlone
  BY <1>1, <1>7 DEF ReadTimeout, OtaAlone, LoopRest
<1>8. CASE OtaDone
  BY <1>8 DEF OtaDone
<1>9. CASE Flush \/ NoFlush \/ WaitRaw \/ WaitTurn \/ AckTimeout \/ Acked
  BY <1>9 DEF Flush, NoFlush, WaitRaw, WaitTurn, AckTimeout, Acked, FlushRest
<1>10. QED
  BY <1>2, <1>3, <1>5, <1>6, <1>7, <1>8, <1>9 DEF WifiStep

\* Nobody but Core 1 moves Core 1, a loss of power excepted.
LEMMA OthersStay ==
  ASSUME Environment \/ Broker \/ BrokerCloses \/ TimePasses
  PROVE  Restarted \/ UNCHANGED <<core1, wifiBad, gsmBad>>
BY DEF Environment, Tap, KeyRead, KeyWrite, WifiComes, WifiGoes, GsmChange, PowerLoss,
       SendDownlink, Broker, BrokerCloses, TimePasses, OthersOnly, NetRest, BrokerRest

---------------------------------------------------------------------------
\* The mode that a pass has read, and where it may go with it.
ModeInv == ModeObeyed /\ back \in LoopPcs

LEMMA ModeInvNext == ModeInv /\ [Next]_vars => ModeInv'
<1> SUFFICES ASSUME ModeInv, [Next]_vars PROVE ModeInv'
  OBVIOUS
<1> USE DEF ModeInv, ModeObeyed
<1>1. CASE Restarted
  BY <1>1 DEF Restarted, LoopPcs
<1>2. CASE TakeTrigger
  BY <1>2 DEF TakeTrigger, Core1At, To
<1>3. CASE ReadMode
  <2>1. /\ mode' = netMode /\ cur' = Forced(netMode) /\ back' = back
        /\ pc' = CASE cur' = "wifi" /\ (sync' \/ ~Connected) -> "wifi"
                   [] cur' = "gsm" /\ sync' -> "gsm"
                   [] OTHER -> "poll"
    BY <1>3 DEF ReadMode, To
  <2>2. CASE netMode = 1
    BY <2>1, <2>2 DEF Forced
  <2>3. CASE netMode = 2
    BY <2>1, <2>3 DEF Forced
  <2>4. CASE netMode \notin {1, 2}
    BY <2>1, <2>4
  <2>5. QED
    BY <2>2, <2>3, <2>4
<1>4. CASE WifiStep \/ ConnackTimeout \/ ReadTimeout \/ AckTimeout
  BY <1>1, <1>4, WifiStepStays DEF InWifi, LoopPcs
<1>5. CASE GsmStep
  BY <1>5 DEF GsmStep, GsmSession, GsmFailed, GsmRest, To
<1>6. CASE Environment \/ Broker \/ BrokerCloses \/ TimePasses
  BY <1>1, <1>6, OthersStay DEF core1
<1>7. CASE UNCHANGED vars
  BY <1>7 DEF vars, core1
<1>8. QED
  BY <1>2, <1>3, <1>4, <1>5, <1>6, <1>7 DEF Next, Core1Step

\* sync_task: a pass that read NET_MODE_WIFI makes no GSM session, and one that
\* read NET_MODE_GSM does not touch Wi-Fi, whatever arrives meanwhile.
THEOREM ModeAlwaysObeyed == Spec => []ModeObeyed
<1>1. Init => ModeInv
  BY DEF Init, ModeInv, ModeObeyed, LoopPcs
<1>2. ModeInv => ModeObeyed
  BY DEF ModeInv
<1>3. QED
  BY <1>1, <1>2, ModeInvNext, PTL DEF Spec

---------------------------------------------------------------------------
\* The counters never run ahead of the failures in a row, and once they are past
\* the limit so are the failures: a counter that wrapped is behind.
CountersInv ==
  /\ back \in LoopPcs /\ cur \in {"wifi", "gsm"}
  /\ wifiFails \in 0 .. FailWrap - 1 /\ gsmFails \in 0 .. FailWrap - 1
  /\ wifiBad \in 0 .. WifiLimit /\ gsmBad \in 0 .. GsmLimit
  /\ wifiBad < WifiLimit => wifiFails <= wifiBad
  /\ gsmBad < GsmLimit => gsmFails <= gsmBad

Counters == <<wifiFails, gsmFails, wifiBad, gsmBad>>

\* One more failure, counted modulo the width and up to the limit.
LEMMA CountedOn ==
  ASSUME NEW limit \in 1 .. FailWrap - 1, NEW fails \in 0 .. FailWrap - 1,
         NEW bad \in 0 .. limit, bad < limit => fails <= bad
  PROVE  LET next == (fails + 1) % FailWrap
             more == Capped(bad, limit)
         IN  /\ next \in 0 .. FailWrap - 1 /\ more \in 0 .. limit
             /\ more < limit => next <= more
             /\ next >= limit => bad + 1 >= limit
<1>1. FailWrap \in Nat /\ FailWrap > 1
  BY SyncAssumption
<1>2. (fails + 1) % FailWrap = IF fails + 1 = FailWrap THEN 0 ELSE fails + 1
  BY <1>1
<1>3. QED
  BY <1>1, <1>2 DEF Capped

\* A failed connection, in whatever mode.
LEMMA WifiFailedCounts ==
  ASSUME CountersInv, WifiFailed, back' \in LoopPcs
  PROVE  /\ CountersInv'
         /\ cur' # cur => cur = "wifi" /\ wifiBad + 1 >= WifiLimit
<1>1. /\ wifiFails' = (wifiFails + 1) % FailWrap /\ wifiBad' = Capped(wifiBad, WifiLimit)
      /\ IF wifiFails' >= WifiLimit /\ mode = 0
           THEN cur' = "gsm" /\ gsmFails' = 0 /\ gsmBad' = 0
           ELSE UNCHANGED <<cur, gsmFails, gsmBad>>
  BY DEF WifiFailed
<1>2. /\ wifiFails' \in 0 .. FailWrap - 1 /\ wifiBad' \in 0 .. WifiLimit
      /\ wifiBad' < WifiLimit => wifiFails' <= wifiBad'
      /\ wifiFails' >= WifiLimit => wifiBad + 1 >= WifiLimit
  BY <1>1, CountedOn, SyncAssumption DEF CountersInv
<1>3. /\ gsmFails' \in 0 .. FailWrap - 1 /\ gsmBad' \in 0 .. GsmLimit
      /\ gsmBad' < GsmLimit => gsmFails' <= gsmBad'
      /\ cur' \in {"wifi", "gsm"}
  BY <1>1, SyncAssumption DEF CountersInv
<1>4. cur' # cur => cur = "wifi" /\ wifiBad + 1 >= WifiLimit
  BY <1>1, <1>2 DEF CountersInv
<1>5. QED
  BY <1>2, <1>3, <1>4 DEF CountersInv

\* A failed GSM session.
LEMMA GsmFailedCounts ==
  ASSUME CountersInv, GsmFailed
  PROVE  /\ CountersInv'
         /\ cur' # cur => cur = "gsm" /\ gsmBad + 1 >= GsmLimit
<1>1. /\ gsmFails' = (gsmFails + 1) % FailWrap /\ gsmBad' = Capped(gsmBad, GsmLimit)
      /\ IF gsmFails' >= GsmLimit /\ mode = 0
           THEN cur' = "wifi" /\ wifiFails' = 0 /\ wifiBad' = 0
           ELSE UNCHANGED <<cur, wifiFails, wifiBad>>
      /\ back' = back
  BY DEF GsmFailed
<1>2. /\ gsmFails' \in 0 .. FailWrap - 1 /\ gsmBad' \in 0 .. GsmLimit
      /\ gsmBad' < GsmLimit => gsmFails' <= gsmBad'
      /\ gsmFails' >= GsmLimit => gsmBad + 1 >= GsmLimit
  BY <1>1, CountedOn, SyncAssumption DEF CountersInv
<1>3. /\ wifiFails' \in 0 .. FailWrap - 1 /\ wifiBad' \in 0 .. WifiLimit
      /\ wifiBad' < WifiLimit => wifiFails' <= wifiBad'
      /\ cur' \in {"wifi", "gsm"}
  BY <1>1, SyncAssumption DEF CountersInv
<1>4. cur' # cur => cur = "gsm" /\ gsmBad + 1 >= GsmLimit
  BY <1>1, <1>2 DEF CountersInv
<1>5. QED
  BY <1>1, <1>2, <1>3, <1>4 DEF CountersInv

\* What is kept when a bearer works, or is left for a flip by the mode.
LEMMA CountersKept ==
  ASSUME CountersInv, back' \in LoopPcs, cur' \in {"wifi", "gsm"},
         UNCHANGED <<wifiFails, wifiBad>> \/ (wifiFails' = 0 /\ wifiBad' = 0),
         UNCHANGED <<gsmFails, gsmBad>> \/ (gsmFails' = 0 /\ gsmBad' = 0)
  PROVE  CountersInv'
BY SyncAssumption DEF CountersInv

\* What a step does to the counters, and when it leaves a bearer.
CountStep ==
  /\ CountersInv'
  /\ pc \in {"wifi", "connack", "gsm"} /\ cur' # cur /\ ~Restarted =>
       IF cur = "wifi" THEN wifiBad + 1 >= WifiLimit ELSE gsmBad + 1 >= GsmLimit

LEMMA CountersNext == CountersInv /\ [Next]_vars => CountStep
<1> SUFFICES ASSUME CountersInv, [Next]_vars PROVE CountStep
  OBVIOUS
<1>0. back \in LoopPcs /\ cur \in {"wifi", "gsm"}
  BY DEF CountersInv
<1>1. CASE Restarted
  <2>1. CountersInv'
    BY <1>1, CountersKept DEF Restarted, LoopPcs
  <2>2. QED
    BY <1>1, <2>1 DEF CountStep
<1>2. ASSUME UNCHANGED <<cur, wifiFails, wifiBad, gsmFails, gsmBad>>, back' \in LoopPcs
      PROVE  CountStep
  BY <1>0, <1>2, CountersKept DEF CountStep
<1>3. ASSUME UNCHANGED <<cur, back, gsmFails, gsmBad>>, wifiFails' = 0, wifiBad' = 0
      PROVE  CountStep
  BY <1>0, <1>3, CountersKept DEF CountStep
<1>4. CASE TakeTrigger
  BY <1>0, <1>2, <1>4 DEF TakeTrigger, Core1Only
<1>5. CASE ReadMode
  <2>1. /\ pc = "mode" /\ back' = back /\ cur' \in {cur, "wifi", "gsm"}
        /\ UNCHANGED <<wifiFails, wifiBad, gsmFails, gsmBad>>
    BY <1>5, Zenon DEF ReadMode, Core1At, Forced
  <2>2. QED
    BY <1>0, <2>1, CountersKept DEF CountStep
<1>6. CASE WifiConnected \/ ConnackRead
  BY <1>3, <1>6 DEF WifiConnected, ConnackRead, WifiWorks, WifiRest
<1>7. CASE WifiRefused \/ ConnackTimeout
  <2>1. WifiFailed /\ back' = back
    BY <1>7 DEF WifiRefused, ConnackTimeout, WifiRest
  <2>2. QED
    BY <1>0, <2>1, WifiFailedCounts DEF CountStep
<1>8. CASE WifiDial
  BY <1>0, <1>2, <1>8 DEF WifiDial, WifiRest
<1>9. CASE WifiStep \/ ReadTimeout \/ AckTimeout
  <2>1. Restarted \/ back' \in LoopPcs
    BY <1>0, <1>9, WifiStepStays
  <2>2. ASSUME LoopRest PROVE UNCHANGED <<cur, wifiFails, wifiBad, gsmFails, gsmBad>>
    BY <2>2 DEF LoopRest
  <2>3. ASSUME FlushRest PROVE UNCHANGED <<cur, wifiFails, wifiBad, gsmFails, gsmBad>>
    BY <2>3 DEF FlushRest
  <2>4. \/ WifiConnected \/ ConnackRead \/ WifiRefused \/ WifiDial \/ Restarted
        \/ LoopRest \/ FlushRest
    BY <1>9, Zenon
       DEF WifiStep, LoopPing, LoopReturn, LoopRead, StallEnds, OtaDone, OtaWithout, OtaAlone,
           ReadPacket, OtaBegins, ReadBadLength, ReadTimeout, AckTimeout,
           Flush, NoFlush, WaitRaw, WaitTurn, Acked
  <2>5. QED
    BY <1>1, <1>2, <1>6, <1>7, <1>8, <2>1, <2>2, <2>3, <2>4
<1>10. CASE GsmSession
  <2>1. /\ gsmFails' = 0 /\ gsmBad' = 0
        /\ UNCHANGED <<cur, back, wifiFails, wifiBad>>
    BY <1>10 DEF GsmSession, GsmRest
  <2>2. QED
    BY <1>0, <2>1, CountersKept DEF CountStep
<1>11. CASE GsmFailed
  BY <1>11, GsmFailedCounts DEF CountStep
<1>12. CASE Environment \/ Broker \/ BrokerCloses \/ TimePasses
  BY <1>0, <1>1, <1>2, <1>12, OthersStay DEF core1
<1>13. CASE UNCHANGED vars
  BY <1>0, <1>2, <1>13 DEF vars, core1, history
<1>14. QED
  BY <1>4, <1>5, <1>7, <1>9, <1>10, <1>11, <1>12, <1>13 DEF Next, Core1Step, GsmStep

\* sync_task: in AUTO, Core 1 leaves a bearer only after WifiLimit or GsmLimit
\* failures in a row, for every limit and width, though the counters wrap and
\* also count in the forced modes.
THEOREM FlipsAreEarned == Spec => FlipIsEarned
<1>1. Init => CountersInv
  BY SyncAssumption DEF Init, CountersInv, LoopPcs
<1>2. CountersInv /\ [Next]_vars => CountersInv'
  BY CountersNext DEF CountStep
<1>3. CountersInv /\ [Next]_vars =>
        [ mode = 0 /\ pc \in {"wifi", "connack", "gsm"} /\ cur' # cur /\ ~Restarted =>
            IF cur = "wifi" THEN wifiBad + 1 >= WifiLimit
                            ELSE gsmBad + 1 >= GsmLimit ]_vars
  BY CountersNext DEF CountStep
<1>4. QED
  BY <1>1, <1>2, <1>3, PTL DEF Spec, FlipIsEarned

---------------------------------------------------------------------------
(* The bytes from the broker, and what a step does to the connection. *)

LEMMA ByteArithmetic ==
  /\ \A x \in Byte : x % 128 \in Nat
  /\ \A x, y \in Byte : x * 256 + y \in Nat
BY DEF Byte

LEMMA PacketEndType ==
  ASSUME NEW s \in Seq(Byte), HasLength(s)
  PROVE  PacketEnd(s) \in Nat
<1>1. LengthEnd(s) \in LengthEnds(s)
  BY DEF HasLength, LengthEnd
<1>2. LengthEnd(s) \in 2 .. 5 /\ LengthEnd(s) <= Len(s)
  BY <1>1 DEF LengthEnds
<1>3. \A k \in 2 .. 5 : k <= LengthEnd(s) => s[k] % 128 \in Nat
  <2> TAKE k \in 2 .. 5
  <2> HAVE k <= LengthEnd(s)
  <2>1. k \in 1 .. Len(s)
    BY <1>2
  <2>2. s[k] \in Byte
    BY <2>1, ElementOfSeq
  <2>3. QED
    BY <2>2, ByteArithmetic
<1> DEFINE digit(k, weight) == IF k <= LengthEnd(s) THEN (s[k] % 128) * weight ELSE 0
<1>4. /\ digit(2, 1) \in Nat /\ digit(3, 128) \in Nat
      /\ digit(4, 16384) \in Nat /\ digit(5, 2097152) \in Nat
  BY <1>3
<1>5. QED
  BY <1>2, <1>4 DEF PacketEnd

\* What is left when the first bytes are read.
LEMMA CutBytes ==
  ASSUME NEW s \in Seq(Byte), NEW k \in Nat
  PROVE  /\ SubSeq(s, k + 1, Len(s)) \in Seq(Byte)
         /\ Len(SubSeq(s, k + 1, Len(s))) = IF k <= Len(s) THEN Len(s) - k ELSE 0
         /\ \A i \in 1 .. Len(s) - k : SubSeq(s, k + 1, Len(s))[i] = s[i + k]
OBVIOUS

LEMMA PacketBytes ==
  ASSUME NEW s \in Seq(Byte), HasPacket(s)
  PROVE  /\ PacketEnd(s) \in Nat /\ Packet(s) \in Seq(Byte)
         /\ After(s) = SubSeq(s, PacketEnd(s) + 1, Len(s))
<1>1. PacketEnd(s) \in Nat /\ PacketEnd(s) <= Len(s)
  BY PacketEndType DEF HasPacket
<1>2. QED
  BY <1>1 DEF Packet, After

\* A PUBLISH whose lengths are sound has an identifier.
LEMMA SoundHasId ==
  ASSUME NEW p \in Seq(Byte), IsSound(p), IsQos1(p)
  PROVE  IdOf(p) \in Nat
<1>1. \A i \in 1 .. Len(p) : p[i] \in Byte
  BY ElementOfSeq
<1>2. 3 \in 1 .. Len(p) /\ 4 \in 1 .. Len(p)
  BY DEF IsSound
<1>3. TopicLen(p) \in Nat
  BY <1>1, <1>2, ByteArithmetic DEF TopicLen
<1>4. TopicLen(p) + 6 <= Len(p)
  BY <1>3 DEF IsSound, IdLen
<1>5. TopicLen(p) + 5 \in 1 .. Len(p) /\ TopicLen(p) + 6 \in 1 .. Len(p)
  BY <1>3, <1>4
<1>6. QED
  BY <1>1, <1>5, ByteArithmetic DEF IdOf

LEMMA BrokerBytes ==
  /\ Connack \in Seq(Byte) /\ Pingresp \in Seq(Byte)
  /\ \A id \in Byte : Suback(id) \in Seq(Byte) /\ Puback(id) \in Seq(Byte)
  /\ \A id \in Byte, t \in Texts : Downlink(id, t) \in Seq(Byte)
<1>1. /\ Connack \in Seq(Byte) /\ Pingresp \in Seq(Byte)
      /\ \A id \in Byte : Suback(id) \in Seq(Byte) /\ Puback(id) \in Seq(Byte)
  BY DEF Connack, Pingresp, Suback, Puback, Byte
<1>2. ASSUME NEW id \in Byte, NEW t \in Texts
      PROVE  Downlink(id, t) \in Seq(Byte)
  <2>1. t \in Seq(1 .. 127) /\ Len(t) \in Nat /\ Len(t) + 5 < 128
    BY MqttAssumption
  <2>2. t \in Seq(Byte)
    <3>1. \A i \in 1 .. Len(t) : t[i] \in Byte
      BY <2>1, ElementOfSeq DEF Byte
    <3>2. QED
      BY <2>1, <3>1
  <2>3. \A n \in Nat : n + 5 < 128 => n + 5 \in Byte
    BY DEF Byte
  <2>4. 50 \in Byte /\ 0 \in Byte /\ 1 \in Byte /\ 99 \in Byte
    BY DEF Byte
  <2>5. <<50, Len(t) + 5, 0, 1, 99, 0, id>> \in Seq(Byte)
    BY <2>1, <2>3, <2>4
  <2>6. QED
    BY <2>2, <2>5 DEF Downlink
<1>3. QED
  BY <1>1, <1>2

LEMMA ClientPackets ==
  /\ \A k \in {"CONNECT", "STATUS", "PINGREQ", "PINGRESP", "DISCONNECT"} : [type |-> k] \in Packets
  /\ \A id \in Byte : [type |-> "PUBLISH", id |-> id] \in Packets
  /\ \A id \in Nat : [type |-> "PUBACK", id |-> id] \in Packets
  /\ Subscription \in Packets
BY DEF Packets, Subscription, Byte

LEMMA NothingOnLink == <<>> \in Seq(Packets) /\ <<>> \in Seq(Byte)
OBVIOUS

LEMMA ReplyBytes ==
  ASSUME NEW p \in Packets
  PROVE  ReplyTo(p) \in Seq(Byte)
<1>1. p.type \in {"SUBSCRIBE", "PUBLISH"} => p.id \in Byte
  BY DEF Packets
<1>2. QED
  BY <1>1, BrokerBytes DEF ReplyTo

LEMMA IdsFitByte == MsgIds \subseteq Byte /\ 1 \in MsgIds
BY MqttAssumption DEF Byte

\* Why a connection is closed.
Reasons == {"disconnected", "lost", "timeout"}

\* Every step does one of these to the connection.
LEMMA LinkSteps ==
  ASSUME [Next]_vars
  PROVE  \/ UNCHANGED link
         \/ Dial \/ Accept \/ Ping \/ ReadNothing \/ LinkReset
         \/ \E why \in Reasons : Closed(why)
         \/ Connected /\ HasPacket(stream) /\ ReadReply(Packet(stream))
         \/ Flush \/ WaitRaw
         \/ Broker \/ KeepAlivePasses
         \/ \E t \in Texts : SendDownlink(t)
<1>0. "lost" \in Reasons /\ "timeout" \in Reasons /\ "disconnected" \in Reasons
  BY DEF Reasons
<1> DEFINE Reads == \/ UNCHANGED link \/ \E why \in Reasons : Closed(why)
                    \/ Connected /\ HasPacket(stream) /\ ReadReply(Packet(stream))
<1>1. ASSUME NEW from, ReadPacket(from) \/ OtaBegins(from) \/ ReadBadLength(from)
      PROVE  Reads
  BY <1>0, <1>1 DEF ReadPacket, OtaBegins, ReadBadLength
<1>2. CASE TakeTrigger \/ ReadMode
  BY <1>2 DEF TakeTrigger, ReadMode
<1>3. CASE WifiConnected \/ WifiDial \/ WifiRefused \/ ConnackRead \/ ConnackTimeout
  BY <1>0, <1>3 DEF WifiConnected, WifiDial, WifiRefused, ConnackRead, ConnackTimeout
<1>4. CASE LoopPing \/ LoopReturn
  BY <1>4 DEF LoopPing, LoopReturn
<1>5. CASE LoopRead
  <2>1. Reads
    BY <1>1, <1>5 DEF LoopRead
  <2>2. QED
    BY <2>1
<1>6. CASE StallEnds \/ OtaWithout
  <2>1. Reads
    BY <1>1, <1>6 DEF StallEnds, OtaWithout
  <2>2. QED
    BY <2>1
<1>7. CASE OtaDone \/ OtaAlone \/ ReadTimeout
  BY <1>7 DEF OtaDone, OtaAlone, ReadTimeout, Restarted
<1>8. CASE Flush \/ NoFlush \/ WaitRaw \/ WaitTurn \/ Acked \/ AckTimeout
  BY <1>8 DEF NoFlush, WaitTurn, Acked, AckTimeout
<1>9. CASE GsmStep
  BY <1>0, <1>9 DEF GsmStep, GsmSession, GsmFailed
<1>10. CASE Tap \/ KeyRead \/ KeyWrite \/ WifiComes \/ WifiGoes \/ GsmChange \/ PowerLoss
  BY <1>0, <1>10 DEF Tap, KeyRead, KeyWrite, WifiComes, WifiGoes, GsmChange, PowerLoss, Restarted
<1>11. CASE Broker \/ BrokerCloses \/ TimePasses \/ \E t \in Texts : SendDownlink(t)
  BY <1>0, <1>11 DEF BrokerCloses, BrokerDrops, TimePasses
<1>12. CASE UNCHANGED vars
  BY <1>12 DEF vars
<1>13. QED
  BY <1>2, <1>3, <1>4, <1>5, <1>6, <1>7, <1>8, <1>9, <1>10, <1>11, <1>12
     DEF Next, Core1Step, WifiStep, Environment

---------------------------------------------------------------------------
(* Types. *)

\* Lines are on their way only in a PUBACK wait, and every downlink was an event.
RoomInv ==
  /\ chunk # 0 => \/ pc \in {"wait", "waitloop", "acked"}
                  \/ pc \in {"stall", "ota"} /\ back = "waitloop"
  /\ Len(texts) <= events

TypeInv == TypeOK /\ CountersInv /\ RoomInv

\* The parts of LinkTypeOK.
FlagTypes ==
  /\ tcp \in BOOLEAN /\ session \in States
  /\ pinged \in BOOLEAN /\ quietIn \in BOOLEAN /\ quietOut \in BOOLEAN
  /\ silent \in 0 .. 2
  /\ session = "connected" => tcp

QueueTypes ==
  /\ up \in Seq(Packets) /\ stream \in Seq(Byte)
  /\ ~tcp => up = <<>> /\ stream = <<>>

LEMMA LinkTypeParts ==
  /\ LinkTypeOK <=> FlagTypes /\ QueueTypes
  /\ LinkTypeOK' <=> FlagTypes' /\ QueueTypes'
BY DEF LinkTypeOK, FlagTypes, QueueTypes

LEMMA TextsCounted ==
  ASSUME TypeInv, NEW t \in Texts, SendDownlink(t)
  PROVE  /\ texts' = Append(texts, t) /\ texts' \in Seq(Texts)
         /\ Len(texts') \in 1 .. events' /\ Len(texts') \in Byte
         /\ events' \in 0 .. MaxEvents
<1>1. /\ texts' = Append(texts, t) /\ events' = events + 1 /\ events < MaxEvents
      /\ texts \in Seq(Texts) /\ Len(texts) <= events /\ events \in 0 .. MaxEvents
  BY DEF SendDownlink, Event, TypeInv, TypeOK, RoomInv
<1>2. Len(texts') = Len(texts) + 1 /\ texts' \in Seq(Texts) /\ Len(texts) \in Nat
  BY <1>1
<1>3. \A n, e \in Nat : n <= e /\ e < MaxEvents => /\ n + 1 \in 1 .. e + 1 /\ n + 1 \in Byte
                                                 /\ e + 1 \in 0 .. MaxEvents
  BY SyncAssumption DEF Byte
<1>4. events \in Nat
  BY <1>1
<1>5. QED
  BY <1>1, <1>2, <1>3, <1>4

LEMMA FlagTypeNext ==
  ASSUME FlagTypes, QueueTypes, [Next]_vars
  PROVE  FlagTypes'
<1> USE DEF FlagTypes
<1>1. CASE UNCHANGED link \/ Flush \/ WaitRaw \/ ReadNothing \/ \E t \in Texts : SendDownlink(t)
  BY <1>1 DEF link, Flush, WaitRaw, ReadNothing, SendDownlink
<1>2. CASE Dial \/ LinkReset
  <2>1. /\ session' = "disconnected" /\ silent' = 0 /\ tcp' \in BOOLEAN
        /\ pinged' \in BOOLEAN /\ quietIn' \in BOOLEAN /\ quietOut' \in BOOLEAN
    BY <1>2 DEF Dial, LinkReset
  <2>2. silent' \in 0 .. 2 /\ session' \in States /\ session' # "connected"
    BY <2>1 DEF States
  <2>3. QED
    BY <2>1, <2>2, Zenon
<1>3. CASE Accept
  <2>1. stream # <<>>
    <3>1. Answered(stream) # <<>>
      BY <1>3 DEF Accept, Connack
    <3>2. HasPacket(stream)
      BY <3>1 DEF Answered
    <3>3. QED
      BY <3>2 DEF HasPacket, HasLength, LengthEnds
  <2>2. tcp
    BY <2>1 DEF QueueTypes
  <2>3. QED
    BY <1>3, <2>2 DEF Accept, States
<1>4. CASE \E why \in Reasons : Closed(why)
  BY <1>4 DEF Closed, Reasons, States
<1>5. CASE Ping
  BY <1>5 DEF Ping, Closed, Connected, States
<1>6. CASE Connected /\ HasPacket(stream) /\ ReadReply(Packet(stream))
  BY <1>6 DEF ReadReply
<1>7. CASE Broker \/ KeepAlivePasses
  <2>1. /\ UNCHANGED <<tcp, session, pinged>>
        /\ quietIn' \in BOOLEAN /\ quietOut' \in BOOLEAN
        /\ silent' = 0 \/ silent' = silent \/ (silent < 2 /\ silent' = silent + 1)
    <3>1. CASE Broker
      BY <3>1 DEF Broker, BrokerReads
    <3>2. CASE KeepAlivePasses
      BY <3>2 DEF KeepAlivePasses
    <3>3. QED
      BY <1>7, <3>1, <3>2
  <2>2. silent' \in 0 .. 2
    BY <2>1
  <2>3. QED
    BY <2>1, <2>2
<1>8. QED
  BY <1>1, <1>2, <1>3, <1>4, <1>5, <1>6, <1>7, LinkSteps

LEMMA QueueTypeNext ==
  ASSUME TypeInv, [Next]_vars
  PROVE  QueueTypes'
<1>1. FlagTypes /\ QueueTypes /\ up \in Seq(Packets) /\ stream \in Seq(Byte)
  BY LinkTypeParts DEF TypeInv, TypeOK, QueueTypes
<1> USE DEF QueueTypes
<1>2. CASE UNCHANGED link
  BY <1>1, <1>2 DEF link
<1>3. CASE Dial
  <2>1. <<[type |-> "CONNECT"]>> \in Seq(Packets)
    BY ClientPackets
  <2>2. QED
    BY <1>3, <2>1, NothingOnLink DEF Dial
<1>4. CASE Accept
  <2>1. Answered(stream) # <<>>
    BY <1>4 DEF Accept, Connack
  <2>2. HasPacket(stream)
    BY <2>1 DEF Answered
  <2>3. stream # <<>>
    BY <2>2 DEF HasPacket, HasLength, LengthEnds
  <2>4. tcp /\ tcp' = tcp
    BY <1>1, <1>4, <2>3 DEF Accept
  <2>5. stream' \in Seq(Byte)
    BY <1>1, <1>4, <2>2, PacketBytes, CutBytes DEF Accept
  <2>6. <<Status, Subscription>> \in Seq(Packets)
    BY ClientPackets DEF Status
  <2>7. up' \in Seq(Packets)
    BY <1>1, <1>4, <2>6 DEF Accept
  <2>8. QED
    BY <2>4, <2>5, <2>7
<1>5. CASE LinkReset \/ \E why \in Reasons : Closed(why)
  BY <1>5, NothingOnLink DEF LinkReset, Closed
<1>6. CASE Ping
  <2>1. CASE pinged
    BY <1>6, <2>1, NothingOnLink DEF Ping, Closed
  <2>2. CASE ~pinged
    <3>1. up' = Append(up, [type |-> "PINGREQ"]) /\ stream' = stream /\ tcp /\ tcp' = tcp
      BY <1>6, <2>2 DEF Ping, Sent, Connected
    <3>2. QED
      BY <1>1, <3>1, ClientPackets
  <2>3. QED
    BY <2>1, <2>2
<1>7. CASE ReadNothing
  BY <1>1, <1>7, NothingOnLink DEF ReadNothing
<1>8. CASE KeepAlivePasses
  BY <1>1, <1>8 DEF KeepAlivePasses
<1>9. CASE Connected /\ HasPacket(stream) /\ ReadReply(Packet(stream))
  <2> DEFINE p == Packet(stream)
             puback == [type |-> "PUBACK", id |-> IF IsSound(p) THEN IdOf(p) ELSE 0]
  <2>1. stream' \in Seq(Byte) /\ p \in Seq(Byte)
    BY <1>1, <1>9, PacketBytes, CutBytes DEF ReadReply
  <2>2. IsQos1(p) => puback \in Packets
    BY <2>1, SoundHasId, ClientPackets
  <2>3. tcp /\ tcp' = tcp
    BY <1>9 DEF ReadReply, Connected
  <2> HIDE DEF p, puback
  <2>4. \/ up' = up
        \/ up' = Append(up, puback) /\ IsQos1(p)
        \/ up' = Append(up, [type |-> "PINGRESP"])
    BY <1>9 DEF ReadReply, Sent, p, puback
  <2>5. \A packet \in Packets : Append(up, packet) \in Seq(Packets)
    BY <1>1
  <2>6. up' \in Seq(Packets)
    BY <1>1, <2>2, <2>4, <2>5, ClientPackets, Zenon
  <2>7. QED
    BY <2>1, <2>3, <2>6
<1>10. CASE Flush
  <2>1. [type |-> "PUBLISH", id |-> msgId] \in Packets
    BY IdsFitByte, ClientPackets DEF TypeInv, TypeOK
  <2>2. /\ tcp' = tcp /\ stream' = stream
        /\ up' = up \/ (tcp /\ up' = Append(up, [type |-> "PUBLISH", id |-> msgId]))
    <3>1. tcp' = tcp /\ stream' = stream
      BY <1>10 DEF Flush
    <3>2. CASE fill > 0 /\ tcp
      BY <1>10, <3>1, <3>2 DEF Flush, Sent
    <3>3. CASE fill > 0 /\ ~tcp
      BY <1>10, <3>1, <3>3 DEF Flush
    <3>4. CASE ~(fill > 0)
      BY <1>10, <3>1, <3>4 DEF Flush
    <3>5. QED
      BY <3>2, <3>3, <3>4
  <2>3. up' \in Seq(Packets)
    BY <1>1, <2>1, <2>2
  <2>4. QED
    BY <1>1, <2>2, <2>3
<1>11. CASE WaitRaw
  <2>1. stream' = SubSeq(stream, 5, Len(stream)) /\ tcp' = tcp /\ up' = up /\ Len(stream) >= 4
    BY <1>11 DEF WaitRaw
  <2>2. stream' \in Seq(Byte) /\ stream # <<>>
    BY <1>1, <2>1
  <2>3. QED
    BY <1>1, <2>1, <2>2
<1>12. CASE Broker
  <2>1. tcp /\ tcp' = tcp /\ stream' = stream \o ReplyTo(Head(up)) /\ up' = Tail(up) /\ up # <<>>
    BY <1>12 DEF Broker, BrokerReads
  <2>2. Head(up) \in Packets /\ up' \in Seq(Packets)
    BY <1>1, <2>1
  <2>3. stream' \in Seq(Byte)
    BY <1>1, <2>1, <2>2, ReplyBytes
  <2>4. QED
    BY <2>1, <2>2, <2>3
<1>13. CASE \E t \in Texts : SendDownlink(t)
  <2>1. PICK t \in Texts : SendDownlink(t)
    BY <1>13
  <2>2. Downlink(Len(texts'), t) \in Seq(Byte)
    BY <2>1, TextsCounted, BrokerBytes
  <2>3. tcp /\ tcp' = tcp /\ up' = up /\ stream' = stream \o Downlink(Len(texts'), t)
    BY <2>1 DEF SendDownlink, Connected
  <2>4. QED
    BY <1>1, <2>2, <2>3
<1>14. QED
  BY <1>2, <1>3, <1>4, <1>5, <1>6, <1>7, <1>8, <1>9, <1>10, <1>11, <1>12, <1>13, LinkSteps


ModeTypes == netMode \in Modes /\ keyMode \in Modes \cup {NoMode} /\ mode \in Modes

FlowTypes ==
  /\ notified \in BOOLEAN /\ sync \in BOOLEAN
  /\ wifi \in BOOLEAN /\ gsm \in BOOLEAN /\ subscribed \in BOOLEAN
  /\ delivered \in BOOLEAN

CountTypes ==
  /\ fill \in Nat /\ chunk \in 0 .. fill /\ msgId \in MsgIds
  /\ events \in 0 .. MaxEvents
  /\ pc \in Pcs

DownlinkTypes == texts \in Seq(Texts) /\ applied \subseteq Nat

LEMMA TypeInvParts ==
  /\ TypeInv <=> /\ LinkTypeOK /\ ModeTypes /\ FlowTypes /\ CountTypes /\ DownlinkTypes
                 /\ CountersInv /\ RoomInv
  /\ TypeInv' <=> /\ LinkTypeOK' /\ ModeTypes' /\ FlowTypes' /\ CountTypes' /\ DownlinkTypes'
                  /\ CountersInv' /\ RoomInv'
BY DEF TypeInv, TypeOK, ModeTypes, FlowTypes, CountTypes, DownlinkTypes, CountersInv

\* A flag is kept, set or cleared.
LEMMA FlowTypeNext ==
  ASSUME FlowTypes, [Next]_vars
  PROVE  FlowTypes'
<1> USE DEF FlowTypes, Core1Only, net
<1>1. ASSUME NEW from, ReadPacket(from) \/ OtaBegins(from) \/ ReadBadLength(from)
      PROVE  FlowTypes'
  BY <1>1 DEF ReadPacket, OtaBegins, ReadBadLength, LoopRest
<1>2. CASE TakeTrigger
  BY <1>2 DEF TakeTrigger
<1>3. CASE ReadMode
  BY <1>3 DEF ReadMode
<1>4. CASE WifiConnected \/ WifiDial \/ WifiRefused \/ ConnackRead \/ ConnackTimeout
  BY <1>4 DEF WifiConnected, WifiDial, WifiRefused, ConnackRead, ConnackTimeout, WifiRest
<1>5. CASE LoopPing \/ LoopReturn
  BY <1>5 DEF LoopPing, LoopReturn, LoopRest
<1>6. CASE LoopRead
  BY <1>1, <1>6 DEF LoopRead, LoopRest
<1>7. CASE StallEnds \/ OtaWithout
  BY <1>1, <1>7 DEF StallEnds, OtaWithout
<1>8. CASE ReadTimeout \/ OtaAlone
  BY <1>8 DEF ReadTimeout, OtaAlone, LoopRest
<1>9. CASE OtaDone \/ PowerLoss
  BY <1>9 DEF OtaDone, PowerLoss, Restarted
<1>10. CASE Flush
  BY <1>10 DEF Flush, FlushRest
<1>11. CASE WaitRaw
  BY <1>11 DEF WaitRaw, FlushRest
<1>12. CASE NoFlush \/ WaitTurn \/ AckTimeout \/ Acked
  BY <1>12 DEF NoFlush, WaitTurn, AckTimeout, Acked, FlushRest
<1>13. CASE GsmStep
  BY <1>13 DEF GsmStep, GsmSession, GsmFailed, GsmRest
<1>14. CASE Tap \/ KeyRead \/ KeyWrite
  BY <1>14 DEF Tap, KeyRead, KeyWrite, OthersOnly, core1, shared
<1>15. CASE WifiComes \/ WifiGoes \/ GsmChange
  BY <1>15 DEF WifiComes, WifiGoes, GsmChange, NetRest, OthersOnly, core1
<1>16. CASE Broker
  BY <1>16 DEF Broker, BrokerRest, OthersOnly, core1, shared
<1>17. CASE BrokerCloses \/ TimePasses \/ \E t \in Texts : SendDownlink(t)
  BY <1>17 DEF BrokerCloses, TimePasses, SendDownlink, BrokerRest, OthersOnly, core1, shared
<1>18. CASE UNCHANGED vars
  BY <1>18 DEF vars, core1, shared, history
<1>19. QED
  BY <1>2, <1>3, <1>4, <1>5, <1>6, <1>7, <1>8, <1>9, <1>10, <1>11, <1>12, <1>13, <1>14, <1>15,
     <1>16, <1>17, <1>18 DEF Next, Core1Step, WifiStep, Environment

\* Key A and the downlink write a mode; a pass reads one.
LEMMA ModeTypeNext ==
  ASSUME ModeTypes, [Next]_vars
  PROVE  ModeTypes'
<1> USE DEF ModeTypes, Core1Only, core0
<1>1. ASSUME NEW p, Apply(p)
      PROVE  netMode' \in Modes
  <2>1. CASE IsSound(p) /\ TextOf(p) \in { <<78, 48 + m>> : m \in Modes }
    <3>1. PICK m \in Modes : TextOf(p) = <<78, 48 + m>>
      BY <2>1
    <3>2. netMode' = TextOf(p)[2] - 48
      BY <1>1, <2>1 DEF Apply
    <3>3. m \in Nat /\ TextOf(p)[2] = 48 + m
      BY <3>1 DEF Modes
    <3>4. netMode' = m
      BY <3>2, <3>3
    <3>5. QED
      BY <3>4
  <2>2. CASE ~(IsSound(p) /\ TextOf(p) \in { <<78, 48 + m>> : m \in Modes })
    BY <1>1, <2>2 DEF Apply
  <2>3. QED
    BY <2>1, <2>2
<1>2. ASSUME NEW from, ReadPacket(from) \/ OtaBegins(from) \/ ReadBadLength(from)
      PROVE  ModeTypes'
  <2>1. UNCHANGED <<keyMode, mode>> /\ (netMode' = netMode \/ \E p : Apply(p))
    BY <1>2 DEF ReadPacket, OtaBegins, ReadBadLength, LoopRest
  <2>2. QED
    BY <1>1, <2>1
<1>3. CASE TakeTrigger \/ ReadMode
  BY <1>3 DEF TakeTrigger, ReadMode
<1>4. CASE WifiConnected \/ WifiDial \/ WifiRefused \/ ConnackRead \/ ConnackTimeout
  BY <1>4 DEF WifiConnected, WifiDial, WifiRefused, ConnackRead, ConnackTimeout, WifiRest
<1>5. CASE LoopPing \/ LoopReturn \/ ReadTimeout \/ OtaAlone
  BY <1>5 DEF LoopPing, LoopReturn, ReadTimeout, OtaAlone, LoopRest
<1>6. CASE LoopRead
  BY <1>2, <1>6 DEF LoopRead, LoopRest
<1>7. CASE StallEnds \/ OtaWithout
  BY <1>2, <1>7 DEF StallEnds, OtaWithout
<1>8. CASE OtaDone \/ PowerLoss
  BY <1>8 DEF OtaDone, PowerLoss, Restarted, Modes
<1>9. CASE Flush \/ WaitRaw \/ NoFlush \/ WaitTurn \/ AckTimeout \/ Acked
  BY <1>9 DEF Flush, WaitRaw, NoFlush, WaitTurn, AckTimeout, Acked, FlushRest
<1>10. CASE GsmStep
  BY <1>10 DEF GsmStep, GsmSession, GsmFailed, GsmRest
<1>11. CASE Tap \/ KeyRead
  BY <1>11 DEF Tap, KeyRead, OthersOnly, core1, shared
<1>12. CASE KeyWrite
  <2>1. keyMode \in 0 .. 2 /\ netMode' = (keyMode + 1) % 3 /\ keyMode' = NoMode /\ mode' = mode
    BY <1>12 DEF KeyWrite, OthersOnly, core1, Modes, NoMode
  <2>2. \A k \in 0 .. 2 : (k + 1) % 3 \in 0 .. 2
    OBVIOUS
  <2>3. QED
    BY <2>1, <2>2 DEF Modes
<1>13. CASE WifiComes \/ WifiGoes \/ GsmChange
  BY <1>13 DEF WifiComes, WifiGoes, GsmChange, NetRest, OthersOnly, core1
<1>14. CASE Broker \/ BrokerCloses \/ TimePasses \/ \E t \in Texts : SendDownlink(t)
  BY <1>14 DEF Broker, BrokerCloses, TimePasses, SendDownlink, BrokerRest, OthersOnly, core1, shared
<1>15. CASE UNCHANGED vars
  BY <1>15 DEF vars, core1, shared
<1>16. QED
  BY <1>3, <1>4, <1>5, <1>6, <1>7, <1>8, <1>9, <1>10, <1>11, <1>12, <1>13, <1>14, <1>15
     DEF Next, Core1Step, WifiStep, Environment


\* Where Core 1 is in the loop of PubSubClient decides where it goes on.
LEMMA AfterLoopPc ==
  ASSUME NEW p \in LoopPcs
  PROVE  AfterLoop(p) \in Pcs /\ (AfterLoop(p) = "wait" <=> p = "waitloop")
BY DEF AfterLoop, LoopPcs, Pcs

\* Lines on their way, and the place in the pass that goes with them.
Carrying == pc \in {"wait", "waitloop", "acked"} \/ (pc \in {"stall", "ota"} /\ back = "waitloop")

LEMMA CountTypeNext ==
  ASSUME TypeInv, [Next]_vars
  PROVE  CountTypes' /\ (chunk' # 0 => Carrying')
<1>0. /\ fill \in Nat /\ chunk \in 0 .. fill /\ msgId \in MsgIds /\ events \in 0 .. MaxEvents
      /\ pc \in Pcs /\ back \in LoopPcs /\ (chunk # 0 => Carrying) /\ MaxEvents \in Nat
  BY TypeInvParts, SyncAssumption DEF CountTypes, RoomInv, CountersInv, Carrying, Byte
<1> USE DEF CountTypes, Carrying
<1>1. Event => events' \in 0 .. MaxEvents
  BY <1>0 DEF Event
<1>2. ASSUME NEW from \in LoopPcs, pc = from \/ (pc \in {"stall", "ota"} /\ back = from),
             ReadPacket(from) \/ OtaBegins(from) \/ ReadBadLength(from)
      PROVE  CountTypes' /\ (chunk' # 0 => Carrying')
  <2>1. UNCHANGED <<fill, chunk, msgId, events>>
    BY <1>2 DEF ReadPacket, OtaBegins, ReadBadLength, LoopRest
  <2>2. pc' = AfterLoop(from) \/ (pc' = "ota" /\ back' = from)
    BY <1>2 DEF ReadPacket, OtaBegins, ReadBadLength, To
  <2>3. chunk # 0 => from = "waitloop"
    BY <1>0, <1>2 DEF LoopPcs
  <2>4. pc' \in Pcs
    BY <2>2, AfterLoopPc DEF Pcs
  <2>5. QED
    BY <1>0, <2>1, <2>2, <2>3, <2>4, AfterLoopPc
<1>3. CASE TakeTrigger \/ ReadMode
  <2>1. UNCHANGED <<fill, chunk, msgId, events>> /\ pc \in {"poll", "mode"}
        /\ pc' \in {"mode", "wifi", "gsm", "poll"}
    BY <1>3 DEF TakeTrigger, ReadMode, Core1At, To
  <2>2. QED
    BY <1>0, <2>1 DEF Pcs
<1>4. CASE WifiConnected \/ WifiDial \/ WifiRefused \/ ConnackRead \/ ConnackTimeout
  <2>1. UNCHANGED <<fill, chunk, msgId>> /\ pc \in {"wifi", "connack"}
        /\ pc' \in {"loop1", "connack", "poll"} /\ (events' = events \/ Event)
    BY <1>4 DEF WifiConnected, WifiDial, WifiRefused, ConnackRead, ConnackTimeout, WifiRest,
                Core1At, To, WifiFailed, NoAccessPoint, HeapShort
  <2>2. QED
    BY <1>0, <1>1, <2>1 DEF Pcs, LoopPcs
<1>5. CASE LoopPing
  BY <1>0, <1>5 DEF LoopPing, LoopRest
<1>6. CASE LoopReturn
  <2>1. UNCHANGED <<fill, chunk, msgId, events>> /\ pc \in LoopPcs /\ pc' = AfterLoop(pc)
    BY <1>6 DEF LoopReturn, LoopRest, To
  <2>2. QED
    BY <1>0, <2>1, AfterLoopPc DEF LoopPcs
<1>7. CASE LoopRead
  <2>1. pc \in LoopPcs
    BY <1>7 DEF LoopRead
  <2>2. CASE ReadPacket(pc) \/ OtaBegins(pc) \/ ReadBadLength(pc)
    BY <1>2, <2>1, <2>2
  <2>3. CASE ~(ReadPacket(pc) \/ OtaBegins(pc) \/ ReadBadLength(pc))
    <3>1. pc' = "stall" /\ back' = pc /\ UNCHANGED <<fill, chunk, msgId, events>>
      BY <1>7, <2>3 DEF LoopRead, LoopRest
    <3>2. QED
      BY <1>0, <2>1, <3>1 DEF Pcs, LoopPcs
  <2>4. QED
    BY <2>2, <2>3
<1>8. CASE StallEnds \/ OtaWithout
  <2>1. pc \in {"stall", "ota"} /\ (ReadPacket(back) \/ OtaBegins(back) \/ ReadBadLength(back))
    BY <1>8 DEF StallEnds, OtaWithout, Core1At
  <2>2. QED
    BY <1>0, <1>2, <2>1
<1>9. CASE ReadTimeout \/ OtaAlone
  <2>1. UNCHANGED <<fill, chunk, msgId>> /\ pc \in {"stall", "ota"} /\ pc' = AfterLoop(back)
        /\ (events' = events \/ Event)
    BY <1>9 DEF ReadTimeout, OtaAlone, LoopRest, Core1At, To
  <2>2. QED
    BY <1>0, <1>1, <2>1, AfterLoopPc
<1>10. CASE OtaDone \/ PowerLoss
  <2>1. fill' = fill /\ chunk' = 0 /\ msgId' = 1 /\ pc' = "poll" /\ (events' = events \/ Event)
    BY <1>10 DEF OtaDone, PowerLoss, Restarted
  <2>2. QED
    BY <1>0, <1>1, <2>1, IdsFitByte DEF Pcs
<1>11. CASE Flush
  <2>1. /\ pc = "flush" /\ fill' = fill /\ events' = events
        /\ msgId' \in {msgId, NextMsgId(msgId)}
    BY <1>11 DEF Flush, Core1At
  <2>2. (chunk' = chunk /\ pc' = "loop2") \/ (chunk' = fill /\ pc' = "wait")
    BY <1>11, Zenon DEF Flush, To
  <2>3. chunk = 0
    BY <1>0, <2>1
  <2>4. msgId' \in MsgIds
    BY <1>0, <2>1, IdsFitByte DEF NextMsgId
  <2>5. QED
    BY <1>0, <2>1, <2>2, <2>3, <2>4 DEF Pcs, LoopPcs
<1>12. CASE WaitRaw \/ NoFlush \/ WaitTurn
  <2>1. UNCHANGED <<fill, chunk, msgId>> /\ pc \in {"wait", "flush"} /\ (events' = events \/ Event)
        /\ pc' \in {"acked", "waitloop", "loop2"} /\ (pc = "wait" => pc' # "loop2")
    BY <1>12 DEF WaitRaw, NoFlush, WaitTurn, FlushRest, Core1At, To
  <2>2. QED
    BY <1>0, <1>1, <2>1 DEF Pcs, LoopPcs
<1>13. CASE AckTimeout \/ Acked
  <2>1. /\ chunk' = 0 /\ pc' = "loop2" /\ msgId' = msgId /\ fill' \in {fill, fill - chunk}
        /\ (events' = events \/ Event)
    BY <1>13 DEF AckTimeout, Acked, FlushRest, To
  <2>2. QED
    BY <1>0, <1>1, <2>1 DEF Pcs, LoopPcs
<1>14. CASE GsmStep
  <2>1. /\ pc = "gsm" /\ pc' = "poll" /\ UNCHANGED <<chunk, msgId>> /\ fill' \in {fill, 0}
        /\ (events' = events \/ Event)
    BY <1>14 DEF GsmStep, GsmSession, GsmFailed, GsmRest, Core1At, To
  <2>2. chunk = 0
    BY <1>0, <2>1
  <2>3. QED
    BY <1>0, <1>1, <2>1, <2>2 DEF Pcs
<1>15. CASE Environment \/ Broker \/ BrokerCloses \/ TimePasses
  <2>1. CASE PowerLoss
    BY <1>10, <2>1
  <2>2. CASE ~PowerLoss
    <3>1. UNCHANGED core1 /\ (events' = events \/ Event)
      BY <1>15, <2>2
         DEF Environment, Tap, KeyRead, KeyWrite, WifiComes, WifiGoes, GsmChange, SendDownlink,
             Broker, BrokerCloses, TimePasses, NetRest, BrokerRest, OthersOnly
    <3>2. fill' = fill \/ fill' = fill + 1
      BY <1>15, <2>2
         DEF Environment, Tap, KeyRead, KeyWrite, WifiComes, WifiGoes, GsmChange, SendDownlink,
             Broker, BrokerCloses, TimePasses, NetRest, BrokerRest, shared
    <3>3. UNCHANGED <<pc, back, msgId, chunk>>
      BY <3>1 DEF core1
    <3>4. QED
      BY <1>0, <1>1, <3>1, <3>2, <3>3
  <2>3. QED
    BY <2>1, <2>2
<1>16. CASE UNCHANGED vars
  BY <1>0, <1>16 DEF vars, core1, shared
<1>17. QED
  BY <1>3, <1>4, <1>5, <1>6, <1>7, <1>8, <1>9, <1>10, <1>11, <1>12, <1>13, <1>14, <1>15, <1>16
     DEF Next, Core1Step, WifiStep

\* The identifiers applied are those of packets that have one.
LEMMA AppliedType ==
  ASSUME NEW p \in Seq(Byte), applied \subseteq Nat
  PROVE  AppliedWith(p) \subseteq Nat
BY SoundHasId DEF AppliedWith

\* Downlinks are applied only by a step that takes the packet from the stream, or
\* ends with a restart.
ReadsOne ==
  \/ applied' = applied
  \/ /\ HasPacket(stream) /\ applied' = AppliedWith(Packet(stream))
     /\ stream' = After(stream) \/ stream' = <<>>

LEMMA DownlinksRead ==
  ASSUME [Next]_vars
  PROVE  ReadsOne
<1> USE DEF ReadsOne
<1>1. ASSUME NEW from, ReadPacket(from) \/ OtaBegins(from) \/ ReadBadLength(from)
      PROVE  ReadsOne
  BY <1>1 DEF ReadPacket, OtaBegins, ReadBadLength, ReadReply, Apply
<1>2. CASE LoopRead
  BY <1>1, <1>2 DEF LoopRead
<1>3. CASE StallEnds \/ OtaWithout
  BY <1>1, <1>3 DEF StallEnds, OtaWithout
<1>4. CASE OtaDone
  BY <1>4 DEF OtaDone, Restarted, LinkReset
<1>5. CASE TakeTrigger \/ ReadMode \/ ConnackTimeout \/ ReadTimeout \/ AckTimeout
  BY <1>5 DEF TakeTrigger, ReadMode, ConnackTimeout, ReadTimeout, AckTimeout, WifiRest, FlushRest
<1>6. CASE WifiConnected \/ WifiDial \/ WifiRefused \/ ConnackRead \/ LoopPing \/ LoopReturn
           \/ OtaAlone
  BY <1>6 DEF WifiConnected, WifiDial, WifiRefused, ConnackRead, LoopPing, LoopReturn, OtaAlone,
              WifiRest
<1>7. CASE Flush \/ NoFlush \/ WaitRaw \/ WaitTurn \/ Acked \/ GsmStep
  BY <1>7 DEF Flush, NoFlush, WaitRaw, WaitTurn, Acked, GsmStep, GsmSession, GsmFailed, GsmRest,
              FlushRest
<1>8. CASE Environment \/ Broker \/ BrokerCloses \/ TimePasses
  BY <1>8 DEF Environment, Tap, KeyRead, KeyWrite, WifiComes, WifiGoes, GsmChange, PowerLoss,
              SendDownlink,
              Broker, BrokerCloses, TimePasses, NetRest, BrokerRest, OthersOnly
<1>9. CASE UNCHANGED vars
  BY <1>9 DEF vars, history
<1>10. QED
  BY <1>2, <1>3, <1>4, <1>5, <1>6, <1>7, <1>8, <1>9 DEF Next, Core1Step, WifiStep

LEMMA TextsKept ==
  ASSUME [Next]_vars, ~\E t \in Texts : SendDownlink(t)
  PROVE  texts' = texts
<1>1. ASSUME NEW from, ReadPacket(from) \/ OtaBegins(from) \/ ReadBadLength(from)
      PROVE  texts' = texts
  BY <1>1 DEF ReadPacket, OtaBegins, ReadBadLength, Core1Only
<1>2. CASE LoopRead \/ StallEnds \/ OtaWithout
  BY <1>1, <1>2 DEF LoopRead, StallEnds, OtaWithout, Core1Only
<1>3. CASE WifiStep \/ ConnackTimeout \/ ReadTimeout \/ AckTimeout
  BY <1>2, <1>3
     DEF WifiStep, WifiConnected, WifiDial, WifiRefused, ConnackRead, LoopPing, LoopReturn,
         OtaDone, OtaAlone, Flush, NoFlush, WaitRaw, WaitTurn, Acked, ConnackTimeout,
         ReadTimeout, AckTimeout, Restarted, Core1Only
<1>4. CASE TakeTrigger \/ ReadMode \/ GsmStep
  BY <1>4 DEF TakeTrigger, ReadMode, GsmStep, GsmSession, GsmFailed, Core1Only
<1>5. CASE Environment \/ Broker \/ BrokerCloses \/ TimePasses
  BY <1>5
     DEF Environment, Tap, KeyRead, KeyWrite, WifiComes, WifiGoes, GsmChange, PowerLoss,
         Restarted,
         Broker, BrokerCloses, TimePasses, NetRest, BrokerRest
<1>6. CASE UNCHANGED vars
  BY <1>6 DEF vars, history
<1>7. QED
  BY <1>3, <1>4, <1>5, <1>6 DEF Next, Core1Step

LEMMA DownlinkTypeNext ==
  ASSUME TypeInv, [Next]_vars
  PROVE  DownlinkTypes' /\ Len(texts') <= events'
<1>0. /\ stream \in Seq(Byte) /\ texts \in Seq(Texts) /\ applied \subseteq Nat
      /\ Len(texts) <= events /\ events \in Nat /\ Len(texts) \in Nat
  BY DEF TypeInv, TypeOK, LinkTypeOK, RoomInv
<1> USE DEF DownlinkTypes
<1>1. applied' \subseteq Nat
  BY <1>0, DownlinksRead, PacketBytes, AppliedType DEF ReadsOne
<1>2. CASE \E t \in Texts : SendDownlink(t)
  BY <1>1, <1>2, TextsCounted
<1>3. CASE ~\E t \in Texts : SendDownlink(t)
  <2>1. texts' = texts
    BY <1>3, TextsKept
  <2>2. events' = events \/ events' = events + 1
    <3>1. ASSUME NEW from, ReadPacket(from) \/ OtaBegins(from) \/ ReadBadLength(from)
          PROVE  events' = events
      BY <3>1 DEF ReadPacket, OtaBegins, ReadBadLength
    <3>2. CASE LoopRead \/ StallEnds \/ OtaWithout
      BY <3>1, <3>2 DEF LoopRead, StallEnds, OtaWithout
    <3>3. CASE WifiStep \/ ConnackTimeout \/ ReadTimeout \/ AckTimeout
      BY <3>2, <3>3
         DEF WifiStep, WifiConnected, WifiDial, WifiRefused, ConnackRead, LoopPing, LoopReturn,
             OtaDone, OtaAlone, Flush, NoFlush, WaitRaw, WaitTurn, Acked, ConnackTimeout,
             ReadTimeout, AckTimeout, NoAccessPoint, HeapShort, Event
    <3>4. CASE TakeTrigger \/ ReadMode \/ GsmStep
      BY <3>4 DEF TakeTrigger, ReadMode, GsmStep, GsmSession, GsmFailed, Event
    <3>5. CASE Environment \/ Broker \/ BrokerCloses \/ TimePasses
      BY <3>5
         DEF Environment, Tap, KeyRead, KeyWrite, WifiComes, WifiGoes, GsmChange, PowerLoss,
             SendDownlink, Broker, BrokerCloses, TimePasses, Event
    <3>6. CASE UNCHANGED vars
      BY <3>6 DEF vars
    <3>7. QED
      BY <3>3, <3>4, <3>5, <3>6 DEF Next, Core1Step
  <2>3. QED
    BY <1>0, <1>1, <2>1, <2>2
<1>4. QED
  BY <1>2, <1>3

LEMMA TypeInvNext == TypeInv /\ [Next]_vars => TypeInv'
<1> SUFFICES ASSUME TypeInv, [Next]_vars PROVE TypeInv'
  OBVIOUS
<1>1. FlagTypes /\ QueueTypes /\ ModeTypes /\ FlowTypes /\ CountersInv
  BY LinkTypeParts, TypeInvParts
<1>2. LinkTypeOK'
  BY <1>1, FlagTypeNext, QueueTypeNext, LinkTypeParts
<1>3. CountersInv'
  BY <1>1, CountersNext DEF CountStep
<1>4. RoomInv'
  BY CountTypeNext, DownlinkTypeNext DEF RoomInv, Carrying
<1>5. QED
  BY <1>1, <1>2, <1>3, <1>4, ModeTypeNext, FlowTypeNext, CountTypeNext, DownlinkTypeNext,
     TypeInvParts

LEMMA TypeInvInit == Init => TypeInv
<1> SUFFICES ASSUME Init PROVE TypeInv
  OBVIOUS
<1>1. LinkTypeOK
  <2>1. QueueTypes
    BY NothingOnLink DEF Init, LinkInit, QueueTypes
  <2>2. FlagTypes
    <3>1. session \in States /\ session # "connected"
      BY DEF Init, LinkInit, States
    <3>2. silent \in 0 .. 2
      BY DEF Init, LinkInit
    <3>3. /\ tcp \in BOOLEAN /\ pinged \in BOOLEAN
          /\ quietIn \in BOOLEAN /\ quietOut \in BOOLEAN
      BY Zenon DEF Init, LinkInit
    <3>4. QED
      BY <3>1, <3>2, <3>3, Zenon DEF FlagTypes
  <2>3. QED
    BY <2>1, <2>2, LinkTypeParts
<1>2. ModeTypes /\ FlowTypes
  <2>1. ModeTypes
    BY DEF Init, ModeTypes, Modes
  <2>2. FlowTypes
    BY DEF Init, FlowTypes
  <2>3. QED
    BY <2>1, <2>2
<1>3. CountTypes
  BY IdsFitByte, SyncAssumption DEF Init, CountTypes, Pcs, Byte
<1>4. DownlinkTypes /\ RoomInv
  BY DEF Init, DownlinkTypes, RoomInv
<1>5. CountersInv
  BY SyncAssumption DEF Init, CountersInv, LoopPcs
<1>6. QED
  BY <1>1, <1>2, <1>3, <1>4, <1>5, TypeInvParts

\* PubSubClient and sync_task: for all texts of downlinks and identifiers, and
\* whatever garbage the four-byte reads make of the stream, every variable keeps
\* its type: an identifier and a mode are read only where a packet has them.
THEOREM LinkTypes == Spec => []TypeOK
<1>1. TypeInv => TypeOK
  BY DEF TypeInv
<1>2. QED
  BY <1>1, TypeInvInit, TypeInvNext, PTL DEF Spec

---------------------------------------------------------------------------
(* What is outstanding: messages on the way to the broker, and bytes that a  *)
(* PUBACK wait would take for an acknowledgement.                            *)

AckAt(s, i) == s[i] \in 64 .. 79 /\ s[i + 1] = 2 /\ s[i + 2] = 0

Acks(s)      == {i \in 1 .. Len(s) - 3 : AckAt(s, i)}
CutShort(s)  == Len(s) >= 3 /\ AckAt(s, Len(s) - 2)
Published(q) == {j \in 1 .. Len(q) : q[j].type = "PUBLISH"}

Nothing(s, q)  == Acks(s) = {} /\ Published(q) = {}
Answers(s, c)  == \E i \in Acks(s) : s[i + 3] = c
Outgoing(q, c) == \E j \in Published(q) : q[j].id = c

\* How many messages were published since the one with this identifier, when c
\* is the present one, as long as the identifiers have not come round.
LastId     == CHOOSE n \in MsgIds : n + 1 \notin MsgIds
Age(id, c) == IF id <= c THEN c - id ELSE c + LastId - id

\* Only the broker's acknowledgements look like one, and no byte is missing at
\* the end that could make one.
Genuine(s, q) ==
  /\ ~CutShort(s)
  /\ \A i \in Acks(s) : s[i] = 64 /\ s[i + 3] \in MsgIds
  /\ \A j \in Published(q) : q[j].id \in MsgIds

\* The outstanding messages are the last ones published, in their order.
InOrder(s, q, c) ==
  /\ \A i, k \in Acks(s) : i < k => Age(s[i + 3], c) > Age(s[k + 3], c)
  /\ \A i \in Acks(s), j \in Published(q) : Age(s[i + 3], c) > Age(q[j].id, c)
  /\ \A j, k \in Published(q) : j < k => Age(q[j].id, c) > Age(q[k].id, c)
  /\ ~Nothing(s, q) => Answers(s, c) \/ Outgoing(q, c)

\* At most n of them.
AtMost(s, q, c, n) ==
  /\ \A i \in Acks(s) : Age(s[i + 3], c) < n
  /\ \A j \in Published(q) : Age(q[j].id, c) < n

Backlog(s, q, c, n) == Genuine(s, q) /\ InOrder(s, q, c) /\ AtMost(s, q, c, n)

\* Each of them but the present one was given up at the cost of an event, and
\* the line that the present one carries was one more.
InWait == pc \in {"wait", "waitloop"} \/ (pc \in {"stall", "ota"} /\ back = "waitloop")
Paid   == IF InWait THEN events ELSE events - 1

AckInv ==
  /\ Backlog(stream, up, CurrentId, Paid)
  /\ Answers(stream, CurrentId) => delivered
  /\ pc = "acked" => delivered /\ Nothing(stream, up)
  /\ fill > 0 => events > 0

LEMMA Identifiers ==
  /\ LastId \in Nat \ {0} /\ MsgIds = 1 .. LastId
  /\ \A id, c \in MsgIds : Age(id, c) \in Nat /\ Age(id, c) < LastId /\ (Age(id, c) = 0 <=> id = c)
<1>1. PICK n \in 1 .. 255 : MsgIds = 1 .. n
  BY MqttAssumption
<1>2. LastId = n
  <2>1. n \in MsgIds /\ n + 1 \notin MsgIds
    BY <1>1
  <2>2. LastId \in MsgIds /\ LastId + 1 \notin MsgIds
    BY <2>1 DEF LastId
  <2>3. QED
    BY <1>1, <2>2
<1>3. QED
  BY <1>1, <1>2 DEF Age

LEMMA CurrentIds ==
  ASSUME msgId \in MsgIds
  PROVE  CurrentId \in MsgIds /\ CurrentId = IF msgId = 1 THEN LastId ELSE msgId - 1
<1>1. CurrentId = IF msgId = 1 THEN LastId ELSE msgId - 1
  BY DEF CurrentId, LastId
<1>2. LastId \in Nat \ {0} /\ MsgIds = 1 .. LastId
  BY Identifiers
<1>3. QED
  BY <1>1, <1>2

\* What is left of the stream when k bytes were read.
Rest(s, k) == SubSeq(s, k + 1, Len(s))

\* Reading from the front shows no acknowledgement that was not there.
LEMMA CutAcks ==
  ASSUME NEW s \in Seq(Byte), NEW k \in Nat, NEW t, t = Rest(s, k)
  PROVE  /\ \A i \in Acks(t) : i + k \in Acks(s) /\ t[i] = s[i + k] /\ t[i + 3] = s[i + k + 3]
         /\ \A i \in Acks(s) : i > k => i - k \in Acks(t) /\ t[i - k + 3] = s[i + 3]
         /\ CutShort(t) => CutShort(s)
<1>0. /\ Len(s) \in Nat
      /\ Len(t) = IF k <= Len(s) THEN Len(s) - k ELSE 0
      /\ \A i \in 1 .. Len(s) - k : t[i] = s[i + k]
  BY CutBytes DEF Rest
<1>1. CASE k > Len(s)
  <2>1. Len(t) = 0
    BY <1>0, <1>1
  <2>2. QED
    BY <1>1, <2>1 DEF Acks, CutShort
<1>2. CASE k <= Len(s)
  <2>1. Len(t) = Len(s) - k /\ Len(s) \in Nat /\ \A i \in 1 .. Len(s) - k : t[i] = s[i + k]
    BY <1>0, <1>2
  <2>2. ASSUME NEW i \in 1 .. Len(t) - 2
        PROVE  t[i] = s[i + k] /\ (AckAt(t, i) <=> AckAt(s, i + k))
    <3>1. i \in 1 .. Len(s) - k /\ i + 1 \in 1 .. Len(s) - k /\ i + 2 \in 1 .. Len(s) - k
      BY <2>1
    <3>2. t[i] = s[i + k] /\ t[i + 1] = s[(i + 1) + k] /\ t[i + 2] = s[(i + 2) + k]
      BY <2>1, <3>1
    <3>3. (i + 1) + k = (i + k) + 1 /\ (i + 2) + k = (i + k) + 2
      BY <3>1
    <3>4. QED
      BY <3>2, <3>3 DEF AckAt
  <2>3. ASSUME NEW i \in Acks(t)
        PROVE  i + k \in Acks(s) /\ t[i] = s[i + k] /\ t[i + 3] = s[i + k + 3]
    <3>1. i \in 1 .. Len(t) - 3 /\ AckAt(t, i)
      BY DEF Acks
    <3>2. i \in 1 .. Len(t) - 2 /\ i + 3 \in 1 .. Len(s) - k /\ i + k \in 1 .. Len(s) - 3
          /\ (i + 3) + k = i + k + 3
      BY <2>1, <3>1
    <3>3. QED
      BY <2>1, <2>2, <3>1, <3>2 DEF Acks
  <2>4. ASSUME NEW i \in Acks(s), i > k
        PROVE  i - k \in Acks(t) /\ t[i - k + 3] = s[i + 3]
    <3>1. i \in 1 .. Len(s) - 3 /\ AckAt(s, i)
      BY DEF Acks
    <3>2. i - k \in 1 .. Len(t) - 3 /\ i - k \in 1 .. Len(t) - 2 /\ (i - k) + k = i
          /\ i - k + 3 \in 1 .. Len(s) - k /\ (i - k + 3) + k = i + 3
      BY <2>1, <2>4, <3>1
    <3>3. QED
      BY <2>1, <2>2, <3>1, <3>2 DEF Acks
  <2>5. CutShort(t) => CutShort(s)
    <3>1. Len(t) >= 3 => Len(t) - 2 \in 1 .. Len(t) - 2 /\ (Len(t) - 2) + k = Len(s) - 2
      BY <2>1
    <3>2. QED
      BY <2>1, <2>2, <3>1 DEF CutShort
  <2>6. QED
    BY <2>3, <2>4, <2>5
<1>3. k > Len(s) \/ k <= Len(s)
  BY <1>0
<1>4. QED
  BY <1>1, <1>2, <1>3, Zenon

\* A packet whose first byte cannot be the second or third of an acknowledgement.
Whole(r) == r # <<>> /\ r[1] \notin {0, 2} /\ ~CutShort(r)

LEMMA JoinAcks ==
  ASSUME NEW s \in Seq(Byte), NEW r \in Seq(Byte), ~CutShort(s), Whole(r)
  PROVE  LET t == s \o r
         IN  /\ ~CutShort(t)
             /\ \A i \in Acks(s) : i \in Acks(t) /\ t[i] = s[i] /\ t[i + 3] = s[i + 3]
             /\ \A i \in Acks(r) : Len(s) + i \in Acks(t)
             /\ \A i \in Acks(t) : i \in Acks(s) \/ \E k \in Acks(r) : i = Len(s) + k
<1> DEFINE t == s \o r
<1>1. /\ Len(s) \in Nat /\ Len(r) \in Nat \ {0} /\ Len(t) = Len(s) + Len(r)
      /\ \A i \in 1 .. Len(s) : t[i] = s[i]
      /\ \A i \in 1 .. Len(r) : t[Len(s) + i] = r[i]
  BY DEF Whole
<1> HIDE DEF t
<1>2. ASSUME NEW i \in 1 .. Len(s) - 2
      PROVE  t[i] = s[i] /\ (AckAt(t, i) <=> AckAt(s, i))
  <2>1. i \in 1 .. Len(s) /\ i + 1 \in 1 .. Len(s) /\ i + 2 \in 1 .. Len(s)
    BY <1>1
  <2>2. QED
    BY <1>1, <2>1 DEF AckAt
<1>3. ASSUME NEW k \in 1 .. Len(r) - 2
      PROVE  t[Len(s) + k] = r[k] /\ (AckAt(t, Len(s) + k) <=> AckAt(r, k))
  <2>1. k \in 1 .. Len(r) /\ k + 1 \in 1 .. Len(r) /\ k + 2 \in 1 .. Len(r)
    BY <1>1
  <2>2. Len(s) + k + 1 = Len(s) + (k + 1) /\ Len(s) + k + 2 = Len(s) + (k + 2)
    BY <1>1
  <2>3. QED
    BY <1>1, <2>1, <2>2 DEF AckAt
\* An acknowledgement does not begin in one packet and end in the next.
<1>4. ASSUME NEW i \in Nat, i > 0, i > Len(s) - 2, i <= Len(s), i + 2 <= Len(t)
      PROVE  ~AckAt(t, i)
  <2>1. t[Len(s) + 1] = r[1] /\ r[1] # 0 /\ r[1] # 2
    BY <1>1 DEF Whole
  <2>2. Len(s) \in Nat
    BY <1>1
  <2>3. i + 1 = Len(s) + 1 \/ i + 2 = Len(s) + 1
    BY <1>4, <2>2
  <2>4. QED
    BY <2>1, <2>3 DEF AckAt
<1>5. ASSUME CutShort(t)
      PROVE  FALSE
  <2>1. Len(t) - 2 \in Nat /\ Len(t) - 2 > 0 /\ AckAt(t, Len(t) - 2)
    BY <1>1, <1>5 DEF CutShort
  <2>2. Len(t) - 2 > Len(s)
    BY <1>1, <1>4, <2>1
  <2>3. Len(r) - 2 \in 1 .. Len(r) - 2 /\ Len(s) + (Len(r) - 2) = Len(t) - 2 /\ Len(r) >= 3
    BY <1>1, <2>2
  <2>4. AckAt(r, Len(r) - 2)
    BY <1>3, <2>1, <2>3
  <2>5. QED
    BY <2>3, <2>4 DEF Whole, CutShort
<1>6. ASSUME NEW i \in Acks(s)
      PROVE  i \in Acks(t) /\ t[i] = s[i] /\ t[i + 3] = s[i + 3]
  <2>1. i \in 1 .. Len(s) - 3 /\ AckAt(s, i)
    BY DEF Acks
  <2>2. i \in 1 .. Len(s) - 2 /\ i + 3 \in 1 .. Len(s) /\ i \in 1 .. Len(t) - 3
    BY <1>1, <2>1
  <2>3. QED
    BY <1>1, <1>2, <2>1, <2>2 DEF Acks
<1>7. ASSUME NEW i \in Acks(r)
      PROVE  Len(s) + i \in Acks(t)
  <2>1. i \in 1 .. Len(r) - 3 /\ AckAt(r, i)
    BY DEF Acks
  <2>2. i \in 1 .. Len(r) - 2 /\ Len(s) + i \in 1 .. Len(t) - 3
    BY <1>1, <2>1
  <2>3. QED
    BY <1>3, <2>1, <2>2 DEF Acks
<1>8. ASSUME NEW i \in Acks(t)
      PROVE  i \in Acks(s) \/ \E k \in Acks(r) : i = Len(s) + k
  <2>1. i \in 1 .. Len(t) - 3 /\ AckAt(t, i)
    BY DEF Acks
  <2>2. CASE i > Len(s)
    <3>1. i - Len(s) \in 1 .. Len(r) - 3 /\ i - Len(s) \in 1 .. Len(r) - 2
          /\ Len(s) + (i - Len(s)) = i
      BY <1>1, <2>1, <2>2
    <3>2. i - Len(s) \in Acks(r)
      BY <1>3, <2>1, <3>1 DEF Acks
    <3>3. QED
      BY <3>1, <3>2
  <2>3. CASE i <= Len(s)
    <3>1. i <= Len(s) - 2
      <4>1. i \in Nat /\ i > 0 /\ i + 2 <= Len(t) /\ Len(s) \in Nat
        BY <1>1, <2>1
      <4>2. i > Len(s) - 2 => ~AckAt(t, i)
        BY <1>4, <2>3, <4>1
      <4>3. QED
        BY <2>1, <4>1, <4>2
    <3>2. AckAt(s, i) /\ i \in 1 .. Len(s) - 2
      BY <1>1, <1>2, <2>1, <3>1
    <3>3. i # Len(s) - 2
      BY <1>1, <3>2 DEF CutShort
    <3>4. i \in 1 .. Len(s) - 3
      BY <1>1, <3>1, <3>2, <3>3
    <3>5. QED
      BY <3>2, <3>4 DEF Acks
  <2>4. i > Len(s) \/ i <= Len(s)
    BY <1>1, <2>1
  <2>5. QED
    BY <2>2, <2>3, <2>4, Zenon
<1>9. QED
  BY <1>5, <1>6, <1>7, <1>8 DEF t

\* None of the broker's packets but a PUBACK holds something like one.
LEMMA WholePackets ==
  /\ Whole(Connack) /\ Acks(Connack) = {}
  /\ Whole(Pingresp) /\ Acks(Pingresp) = {}
  /\ \A id \in Byte : Whole(Suback(id)) /\ Acks(Suback(id)) = {}
  /\ \A id \in MsgIds : /\ Whole(Puback(id)) /\ Acks(Puback(id)) = {1}
                        /\ Puback(id)[1] = 64 /\ Puback(id)[4] = id
  /\ \A id \in 1 .. 255, t \in Texts : Whole(Downlink(id, t)) /\ Acks(Downlink(id, t)) = {}
<1>1. /\ Whole(Connack) /\ Acks(Connack) = {}
      /\ Whole(Pingresp) /\ Acks(Pingresp) = {}
  BY DEF Connack, Pingresp, Whole, CutShort, Acks, AckAt
<1>2. ASSUME NEW id \in Byte
      PROVE  Whole(Suback(id)) /\ Acks(Suback(id)) = {}
  BY DEF Suback, Whole, CutShort, Acks, AckAt
<1>3. ASSUME NEW id \in MsgIds
      PROVE  /\ Whole(Puback(id)) /\ Acks(Puback(id)) = {1}
             /\ Puback(id)[1] = 64 /\ Puback(id)[4] = id
  BY DEF Puback, Whole, CutShort, Acks, AckAt
<1>4. ASSUME NEW id \in 1 .. 255, NEW text \in Texts
      PROVE  Whole(Downlink(id, text)) /\ Acks(Downlink(id, text)) = {}
  <2> DEFINE head == <<50, Len(text) + 5, 0, 1, 99, 0, id>>
             d    == Downlink(id, text)
  <2>1. text \in Seq(1 .. 127) /\ Len(text) \in Nat
    BY MqttAssumption
  <2>2. \A i \in 1 .. Len(text) : text[i] \in 1 .. 127
    BY <2>1, ElementOfSeq
  <2>3. d = head \o text /\ Len(head) = 7
    BY DEF Downlink
  <2>4. /\ Len(d) = 7 + Len(text)
        /\ d[1] = 50 /\ d[2] = Len(text) + 5 /\ d[3] = 0 /\ d[4] = 1 /\ d[5] = 99 /\ d[6] = 0
        /\ d[7] = id
        /\ \A i \in 8 .. Len(d) : d[i] = text[i - 7]
    BY <2>1, <2>3
  <2> HIDE DEF d
  <2>5. \A i \in 7 .. Len(d) : d[i] # 0
    <3> TAKE i \in 7 .. Len(d)
    <3>1. CASE i = 7
      <4>1. d[7] = id /\ id # 0
        BY <2>4
      <4>2. QED
        BY <3>1, <4>1
    <3>2. CASE i # 7
      <4>1. i \in 8 .. Len(d) /\ i - 7 \in 1 .. Len(text)
        BY <2>1, <2>4, <3>2
      <4>2. d[i] = text[i - 7]
        BY <2>4, <4>1
      <4>3. text[i - 7] \in 1 .. 127
        BY <2>2, <4>1
      <4>4. \A x \in 1 .. 127 : x # 0
        OBVIOUS
      <4>5. QED
        BY <4>2, <4>3, <4>4, Zenon
    <3>3. QED
      BY <3>1, <3>2
  <2>6. ASSUME NEW i \in 1 .. Len(d) - 2, AckAt(d, i)
        PROVE  FALSE
    <3>1. d[i + 2] = 0 /\ d[i] \in 64 .. 79 /\ i + 2 \in 3 .. Len(d)
      BY <2>1, <2>4, <2>6 DEF AckAt
    <3>2. i + 2 < 7
      <4> DEFINE j == i + 2
      <4>1. d[j] = 0 /\ j \in 3 .. Len(d)
        BY <3>1
      <4> HIDE DEF j
      <4>2. j \notin 7 .. Len(d)
        BY <2>5, <4>1
      <4>3. j < 7
        BY <2>1, <4>1, <4>2
      <4>4. QED
        BY <4>3 DEF j
    <3>3. i \in {1, 2, 3, 4}
      BY <3>1, <3>2
    <3>4. d[3] = 0 /\ d[4] = 1 /\ d[5] = 99 /\ d[1] = 50
      BY <2>4
    <3>5. d[2 + 2] # 0 /\ d[3 + 2] # 0 /\ ~(d[1] \in 64 .. 79) /\ ~(d[4] \in 64 .. 79)
      BY <3>4
    <3>6. i # 1 /\ i # 2 /\ i # 3 /\ i # 4
      BY <3>1, <3>5, Zenon
    <3>7. QED
      BY <3>3, <3>6
  <2>7. Acks(d) = {} /\ ~CutShort(d)
    BY <2>1, <2>4, <2>6 DEF Acks, CutShort
  <2>8. d # <<>> /\ d[1] \notin {0, 2}
    BY <2>1, <2>4
  <2>9. QED
    BY <2>7, <2>8 DEF Whole, d
<1>5. QED
  BY <1>1, <1>2, <1>3, <1>4


LEMMA PublishedSame ==
  ASSUME NEW q \in Seq(Packets), NEW r \in Seq(Packets), Published(r) = {}
  PROVE  /\ Published(q \o r) = Published(q)
         /\ \A j \in Published(q) : (q \o r)[j] = q[j]
<1>1. /\ Len(q) \in Nat /\ Len(r) \in Nat /\ Len(q \o r) = Len(q) + Len(r)
      /\ \A j \in 1 .. Len(q) : (q \o r)[j] = q[j]
      /\ \A j \in 1 .. Len(r) : (q \o r)[Len(q) + j] = r[j]
  OBVIOUS
<1>2. ASSUME NEW j \in Published(q)
      PROVE  j \in Published(q \o r) /\ (q \o r)[j] = q[j]
  <2>1. j \in 1 .. Len(q) /\ q[j].type = "PUBLISH"
    BY DEF Published
  <2>2. j \in 1 .. Len(q \o r) /\ (q \o r)[j] = q[j]
    BY <1>1, <2>1
  <2>3. QED
    BY <2>1, <2>2 DEF Published
<1>3. ASSUME NEW j \in Published(q \o r)
      PROVE  j \in Published(q)
  <2>1. j \in 1 .. Len(q \o r) /\ (q \o r)[j].type = "PUBLISH"
    BY DEF Published
  <2>2. CASE j <= Len(q)
    <3>1. j \in 1 .. Len(q) /\ (q \o r)[j] = q[j]
      BY <1>1, <2>1, <2>2
    <3>2. QED
      BY <2>1, <3>1 DEF Published
  <2>3. CASE j > Len(q)
    <3>1. j - Len(q) \in 1 .. Len(r) /\ Len(q) + (j - Len(q)) = j
      BY <1>1, <2>1, <2>3
    <3>2. r[j - Len(q)].type = "PUBLISH"
      BY <1>1, <2>1, <3>1
    <3>3. j - Len(q) \in Published(r)
      BY <3>1, <3>2 DEF Published
    <3>4. QED
      BY <3>3
  <2>4. QED
    BY <1>1, <2>1, <2>2, <2>3
<1>4. QED
  BY <1>2, <1>3

LEMMA TailPublished ==
  ASSUME NEW q \in Seq(Packets), q # <<>>
  PROVE  /\ \A j \in Published(Tail(q)) : j + 1 \in Published(q) /\ Tail(q)[j] = q[j + 1]
         /\ \A j \in Published(q) : j # 1 => j - 1 \in Published(Tail(q)) /\ Tail(q)[j - 1] = q[j]
         /\ 1 \in Published(q) <=> Head(q).type = "PUBLISH"
         /\ Head(q) = q[1]
<1>1. /\ Len(q) \in Nat /\ Len(q) >= 1 /\ Len(Tail(q)) = Len(q) - 1
      /\ \A j \in 1 .. Len(q) - 1 : Tail(q)[j] = q[j + 1]
      /\ Head(q) = q[1]
  OBVIOUS
<1>2. ASSUME NEW j \in Published(Tail(q))
      PROVE  j + 1 \in Published(q) /\ Tail(q)[j] = q[j + 1]
  <2>1. j \in 1 .. Len(q) - 1 /\ Tail(q)[j].type = "PUBLISH"
    BY <1>1 DEF Published
  <2>2. j + 1 \in 1 .. Len(q) /\ Tail(q)[j] = q[j + 1]
    BY <1>1, <2>1
  <2>3. QED
    BY <2>1, <2>2 DEF Published
<1>3. ASSUME NEW j \in Published(q), j # 1
      PROVE  j - 1 \in Published(Tail(q)) /\ Tail(q)[j - 1] = q[j]
  <2>1. j \in 1 .. Len(q) /\ q[j].type = "PUBLISH"
    BY DEF Published
  <2>2. j - 1 \in 1 .. Len(q) - 1 /\ (j - 1) + 1 = j
    BY <1>1, <1>3, <2>1
  <2>3. Tail(q)[j - 1] = q[j]
    BY <1>1, <2>2
  <2>4. QED
    BY <1>1, <2>1, <2>2, <2>3 DEF Published
<1>4. 1 \in Published(q) <=> Head(q).type = "PUBLISH"
  BY <1>1 DEF Published
<1>5. QED
  BY <1>1, <1>2, <1>3, <1>4

---------------------------------------------------------------------------
(* How the backlog changes. *)

LEMMA NoBacklog ==
  ASSUME NEW c \in MsgIds, NEW n
  PROVE  Backlog(<<>>, <<>>, c, n) /\ Nothing(<<>>, <<>>)
<1>1. Acks(<<>>) = {} /\ Published(<<>>) = {} /\ ~CutShort(<<>>)
  BY DEF Acks, Published, CutShort
<1>2. QED
  BY <1>1 DEF Backlog, Genuine, InOrder, AtMost, Nothing

\* More room.
LEMMA BacklogLater ==
  ASSUME NEW s, NEW q, NEW c \in MsgIds, NEW m \in Int, NEW n \in Int, Backlog(s, q, c, m), m <= n
  PROVE  Backlog(s, q, c, n)
<1>1. /\ \A i \in Acks(s) : Age(s[i + 3], c) \in Nat
      /\ \A j \in Published(q) : Age(q[j].id, c) \in Nat
  BY Identifiers DEF Backlog, Genuine
<1>2. AtMost(s, q, c, n)
  BY <1>1 DEF Backlog, AtMost
<1>3. QED
  BY <1>2 DEF Backlog

\* Core 1 reads, and sends what is no PUBLISH.
LEMMA BacklogRead ==
  ASSUME NEW s \in Seq(Byte), NEW q \in Seq(Packets), NEW c \in MsgIds, NEW n,
         NEW k \in Nat, NEW r \in Seq(Packets), Published(r) = {}, Backlog(s, q, c, n),
         NEW t, t = Rest(s, k)
  PROVE  /\ Backlog(t, q \o r, c, n)
         /\ Answers(t, c) => Answers(s, c)
         /\ Nothing(s, q) => Nothing(t, q \o r)
<1> DEFINE p == q \o r
<1>1. Published(p) = Published(q) /\ \A j \in Published(q) : p[j] = q[j]
  BY PublishedSame
<1>2. /\ \A i \in Acks(t) : i + k \in Acks(s) /\ t[i] = s[i + k] /\ t[i + 3] = s[i + k + 3]
      /\ \A i \in Acks(s) : i > k => i - k \in Acks(t) /\ t[i - k + 3] = s[i + 3]
      /\ CutShort(t) => CutShort(s)
      /\ \A i \in Acks(t) : i \in Nat
      /\ \A i \in Acks(s) : i \in Nat
  <2>1. /\ \A i \in Acks(t) : i \in Nat
        /\ \A i \in Acks(s) : i \in Nat
    BY DEF Acks
  <2>2. /\ \A i \in Acks(t) : i + k \in Acks(s) /\ t[i] = s[i + k] /\ t[i + 3] = s[i + k + 3]
        /\ \A i \in Acks(s) : i > k => i - k \in Acks(t) /\ t[i - k + 3] = s[i + 3]
        /\ CutShort(t) => CutShort(s)
    BY CutAcks
  <2>3. QED
    BY <2>1, <2>2, Zenon
<1> HIDE DEF p
<1>3. Genuine(s, q) /\ InOrder(s, q, c) /\ AtMost(s, q, c, n)
  BY DEF Backlog
<1>4. Genuine(t, p) /\ AtMost(t, p, c, n)
  BY <1>1, <1>2, <1>3 DEF Genuine, AtMost
<1>5. InOrder(t, p, c)
  <2>1. \A i, l \in Acks(t) : i < l => Age(t[i + 3], c) > Age(t[l + 3], c)
    <3> SUFFICES ASSUME NEW i \in Acks(t), NEW l \in Acks(t), i < l
                 PROVE  Age(t[i + 3], c) > Age(t[l + 3], c)
      OBVIOUS
    <3>1. i + k < l + k /\ i + k \in Acks(s) /\ l + k \in Acks(s)
      BY <1>2
    <3>2. Age(s[i + k + 3], c) > Age(s[l + k + 3], c)
      BY <1>3, <3>1 DEF InOrder
    <3>3. QED
      BY <1>2, <3>2
  <2>2. \A i \in Acks(t), j \in Published(p) : Age(t[i + 3], c) > Age(p[j].id, c)
    <3> TAKE i \in Acks(t), j \in Published(p)
    <3>1. Age(s[i + k + 3], c) > Age(q[j].id, c)
      BY <1>1, <1>2, <1>3 DEF InOrder
    <3>2. QED
      BY <1>1, <1>2, <3>1
  <2>3. \A j, l \in Published(p) : j < l => Age(p[j].id, c) > Age(p[l].id, c)
    BY <1>1, <1>3 DEF InOrder
  <2>4. ASSUME ~Nothing(t, p)
        PROVE  Answers(t, c) \/ Outgoing(p, c)
    <3>1. ~Nothing(s, q)
      BY <1>1, <1>2, <2>4 DEF Nothing
    <3>2. CASE Outgoing(q, c)
      BY <1>1, <3>2 DEF Outgoing
    <3>3. CASE Answers(s, c)
      <4>1. PICK i \in Acks(s) : s[i + 3] = c
        BY <3>3 DEF Answers
      <4>2. CASE i > k
        BY <1>2, <4>1, <4>2 DEF Answers
      <4>3. CASE ~(i > k)
        <5>1. Age(c, c) = 0
          BY Identifiers, Zenon
        <5>2. \A x \in MsgIds : ~(Age(c, c) > Age(x, c))
          <6> TAKE x \in MsgIds
          <6>1. Age(x, c) \in Nat
            BY Identifiers, Zenon
          <6>2. QED
            BY <5>1, <6>1
        <5>3. \A l \in Acks(t) : FALSE
          <6> TAKE l \in Acks(t)
          <6>1. l + k \in Acks(s) /\ i < l + k
            <7>1. l \in Nat /\ l > 0 /\ i \in Nat
              BY <1>2 DEF Acks
            <7>2. QED
              BY <1>2, <4>3, <7>1
          <6>2. Age(c, c) > Age(s[l + k + 3], c)
            BY <1>3, <4>1, <6>1 DEF InOrder
          <6>3. QED
            BY <1>3, <5>2, <6>1, <6>2 DEF Genuine
        <5>4. \A j \in Published(q) : FALSE
          BY <1>3, <4>1, <5>2 DEF InOrder, Genuine
        <5>5. QED
          BY <1>1, <2>4, <5>3, <5>4 DEF Nothing
      <4>4. QED
        BY <4>2, <4>3
    <3>4. QED
      BY <1>3, <3>1, <3>2, <3>3 DEF InOrder
  <2>5. QED
    BY <2>1, <2>2, <2>3, <2>4 DEF InOrder
<1>6. Answers(t, c) => Answers(s, c)
  BY <1>2 DEF Answers
<1>7. Nothing(s, q) => Nothing(t, p)
  BY <1>1, <1>2 DEF Nothing
<1>8. QED
  BY <1>4, <1>5, <1>6, <1>7 DEF Backlog, p

\* The broker sends a packet without an acknowledgement.
LEMMA BacklogHears ==
  ASSUME NEW s \in Seq(Byte), NEW q, NEW c \in MsgIds, NEW n, Backlog(s, q, c, n),
         NEW r \in Seq(Byte), Whole(r), Acks(r) = {}
  PROVE  /\ Backlog(s \o r, q, c, n)
         /\ Answers(s \o r, c) => Answers(s, c)
         /\ Nothing(s, q) => Nothing(s \o r, q)
<1> DEFINE t == s \o r
<1>1. ~CutShort(s)
  BY DEF Backlog, Genuine
<1>2. /\ ~CutShort(t) /\ Acks(t) = Acks(s)
      /\ \A i \in Acks(s) : t[i] = s[i] /\ t[i + 3] = s[i + 3]
  <2>1. /\ ~CutShort(t)
        /\ \A i \in Acks(s) : i \in Acks(t) /\ t[i] = s[i] /\ t[i + 3] = s[i + 3]
        /\ \A i \in Acks(t) : i \in Acks(s) \/ \E k \in Acks(r) : i = Len(s) + k
    BY <1>1, JoinAcks, Zenon
  <2>2. QED
    BY <2>1
<1> HIDE DEF t
<1>3. Genuine(t, q) /\ InOrder(t, q, c) /\ AtMost(t, q, c, n)
  BY <1>2 DEF Backlog, Genuine, InOrder, AtMost, Nothing, Answers
<1>4. QED
  BY <1>2, <1>3 DEF Backlog, Answers, Nothing, t

\* The broker takes what is no PUBLISH.
LEMMA BacklogTaken ==
  ASSUME NEW s, NEW q \in Seq(Packets), q # <<>>, NEW c \in MsgIds, NEW n, Backlog(s, q, c, n),
         Head(q).type # "PUBLISH"
  PROVE  Backlog(s, Tail(q), c, n) /\ (Nothing(s, q) => Nothing(s, Tail(q)))
<1> DEFINE p == Tail(q)
<1>1. /\ \A j \in Published(p) : j + 1 \in Published(q) /\ p[j] = q[j + 1]
      /\ \A j \in Published(q) : j - 1 \in Published(p) /\ p[j - 1] = q[j]
      /\ \A j \in Published(p) : j \in Nat
      /\ \A j \in Published(q) : j \in Nat
  <2>1. /\ \A j \in Published(p) : j \in Nat
        /\ \A j \in Published(q) : j \in Nat
    BY DEF Published
  <2>2. QED
    BY <2>1, TailPublished
<1> HIDE DEF p
<1>2. Genuine(s, p) /\ AtMost(s, p, c, n)
  BY <1>1 DEF Backlog, Genuine, AtMost
<1>3. \A j, l \in Published(p) : j < l => Age(p[j].id, c) > Age(p[l].id, c)
  <2> TAKE j, l \in Published(p)
  <2> HAVE j < l
  <2>1. j + 1 < l + 1 /\ j + 1 \in Published(q) /\ l + 1 \in Published(q)
    BY <1>1
  <2>2. Age(q[j + 1].id, c) > Age(q[l + 1].id, c)
    BY <2>1 DEF Backlog, InOrder
  <2>3. QED
    BY <1>1, <2>2
<1>4. InOrder(s, p, c)
  <2>1. \A i \in Acks(s), j \in Published(p) : Age(s[i + 3], c) > Age(p[j].id, c)
    BY <1>1 DEF Backlog, InOrder
  <2>2. Outgoing(q, c) => Outgoing(p, c)
    BY <1>1 DEF Outgoing
  <2>3. Nothing(s, q) => Nothing(s, p)
    BY <1>1 DEF Nothing
  <2>4. ~Nothing(s, p) => ~Nothing(s, q)
    BY <1>1 DEF Nothing
  <2>5. QED
    BY <1>3, <2>1, <2>2, <2>4 DEF Backlog, InOrder
<1>5. Nothing(s, q) => Nothing(s, p)
  BY <1>1 DEF Nothing
<1>6. QED
  BY <1>2, <1>4, <1>5 DEF Backlog, p

\* ... and when it is a PUBACK, the end is the only new place.
LEMMA JoinPuback ==
  ASSUME NEW s \in Seq(Byte), ~CutShort(s), NEW id \in MsgIds, NEW t, t = s \o Puback(id)
  PROVE  /\ ~CutShort(t)
         /\ Len(s) + 1 \in Acks(t) /\ t[Len(s) + 1] = 64 /\ t[Len(s) + 4] = id
         /\ \A i \in Acks(s) : i \in Acks(t) /\ t[i] = s[i] /\ t[i + 3] = s[i + 3]
         /\ \A i \in Acks(t) : i = Len(s) + 1 \/ i \in Acks(s)
<1> DEFINE r == Puback(id)
<1>1. r \in Seq(Byte) /\ Whole(r) /\ Acks(r) = {1} /\ r[1] = 64 /\ r[4] = id
  BY IdsFitByte, BrokerBytes, WholePackets
<1>2. t[Len(s) + 1] = 64 /\ t[Len(s) + 4] = id
  <2>1. /\ Len(s) \in Nat /\ Len(r) = 4
        /\ \A i \in 1 .. 4 : t[Len(s) + i] = r[i]
    BY <1>1 DEF Puback
  <2> HIDE DEF r
  <2>2. 1 \in 1 .. 4 /\ 4 \in 1 .. 4
    OBVIOUS
  <2>3. QED
    BY <1>1, <2>1, <2>2
<1> HIDE DEF r
<1> DEFINE u == s \o r
<1>3. /\ ~CutShort(u)
      /\ \A i \in Acks(s) : i \in Acks(u) /\ u[i] = s[i] /\ u[i + 3] = s[i + 3]
      /\ \A i \in Acks(r) : Len(s) + i \in Acks(u)
      /\ \A i \in Acks(u) : i \in Acks(s) \/ \E k \in Acks(r) : i = Len(s) + k
  BY <1>1, JoinAcks
<1>4. t = u
  BY DEF r
<1> HIDE DEF u
<1>5. Len(s) + 1 \in Acks(t)
  BY <1>1, <1>3, <1>4
<1>6. \A i \in Acks(t) : i = Len(s) + 1 \/ i \in Acks(s)
  BY <1>1, <1>3, <1>4
<1>7. QED
  BY <1>2, <1>3, <1>4, <1>5, <1>6

\* The broker takes a PUBLISH and acknowledges it: the message keeps its place.
LEMMA BacklogMoves ==
  ASSUME NEW s \in Seq(Byte), NEW q \in Seq(Packets), q # <<>>, NEW c \in MsgIds, NEW n,
         Backlog(s, q, c, n), Head(q).type = "PUBLISH"
  PROVE  /\ Backlog(s \o Puback(Head(q).id), Tail(q), c, n)
         /\ Answers(s \o Puback(Head(q).id), c) => Answers(s, c) \/ Head(q).id = c
         /\ ~Nothing(s, q)
<1> DEFINE p  == Tail(q)
           id == Head(q).id
           t  == s \o Puback(id)
           new == Len(s) + 1
<1>1. /\ \A j \in Published(p) : j + 1 \in Published(q) /\ p[j] = q[j + 1]
      /\ \A j \in Published(q) : j # 1 => j - 1 \in Published(p) /\ p[j - 1] = q[j]
      /\ 1 \in Published(q) /\ q[1].id = id
      /\ \A j \in Published(p) : j \in Nat /\ j > 0
      /\ \A j \in Published(q) : j \in Nat
  <2>1. /\ \A j \in Published(p) : j \in Nat /\ j > 0
        /\ \A j \in Published(q) : j \in Nat
    BY DEF Published
  <2>2. QED
    BY <2>1, TailPublished
<1>2. id \in MsgIds /\ id \in Byte /\ ~CutShort(s)
  BY <1>1, IdsFitByte DEF Backlog, Genuine
<1> HIDE DEF id
<1>3. /\ ~CutShort(t)
      /\ new \in Acks(t) /\ t[new] = 64 /\ t[new + 3] = id
      /\ \A i \in Acks(s) : i \in Acks(t) /\ t[i] = s[i] /\ t[i + 3] = s[i + 3] /\ i < new
      /\ \A i \in Acks(t) : i = new \/ i \in Acks(s)
  <2>1. /\ ~CutShort(t)
        /\ Len(s) + 1 \in Acks(t) /\ t[Len(s) + 1] = 64 /\ t[Len(s) + 4] = id
        /\ \A i \in Acks(s) : i \in Acks(t) /\ t[i] = s[i] /\ t[i + 3] = s[i + 3]
        /\ \A i \in Acks(t) : i = Len(s) + 1 \/ i \in Acks(s)
    BY <1>2, JoinPuback, Zenon
  <2>2. \A i \in Acks(s) : i < new
    BY DEF Acks
  <2>3. new + 3 = Len(s) + 4
    OBVIOUS
  <2> HIDE DEF t
  <2>4. QED
    BY <2>1, <2>2, <2>3, Zenon
<1>4. \A i \in Acks(s) : i \in Nat
  BY DEF Acks
<1>5. new \in Nat
  OBVIOUS
<1> HIDE DEF p, t, new, id
<1>6. Genuine(s, q) /\ InOrder(s, q, c) /\ AtMost(s, q, c, n)
  BY DEF Backlog
<1>7. Genuine(t, p) /\ AtMost(t, p, c, n)
  BY <1>1, <1>2, <1>3, <1>6 DEF Genuine, AtMost
<1>8. InOrder(t, p, c)
  <2>1. \A i, l \in Acks(t) : i < l => Age(t[i + 3], c) > Age(t[l + 3], c)
    <3> TAKE i, l \in Acks(t)
    <3> HAVE i < l
    <3>1. i # new
      BY <1>3, <1>4, <1>5
    <3>2. CASE l = new
      BY <1>1, <1>3, <1>6, <3>1, <3>2 DEF InOrder
    <3>3. CASE l # new
      BY <1>3, <1>6, <3>1, <3>3 DEF InOrder
    <3>4. QED
      BY <3>2, <3>3
  <2>2. \A i \in Acks(t), j \in Published(p) : Age(t[i + 3], c) > Age(p[j].id, c)
    <3> TAKE i \in Acks(t), j \in Published(p)
    <3>1. j + 1 \in Published(q) /\ p[j] = q[j + 1] /\ 1 < j + 1
      BY <1>1
    <3>2. CASE i = new
      <4>1. Age(q[1].id, c) > Age(q[j + 1].id, c)
        BY <1>1, <1>6, <3>1 DEF InOrder
      <4>2. QED
        BY <1>1, <1>3, <3>1, <3>2, <4>1
    <3>3. CASE i # new
      BY <1>3, <1>6, <3>1, <3>3 DEF InOrder
    <3>4. QED
      BY <3>2, <3>3
  <2>3. \A j, l \in Published(p) : j < l => Age(p[j].id, c) > Age(p[l].id, c)
    <3> TAKE j, l \in Published(p)
    <3> HAVE j < l
    <3>1. j + 1 < l + 1 /\ j + 1 \in Published(q) /\ l + 1 \in Published(q)
      BY <1>1
    <3>2. Age(q[j + 1].id, c) > Age(q[l + 1].id, c)
      BY <1>6, <3>1 DEF InOrder
    <3>3. QED
      BY <1>1, <3>2
  <2>4. Answers(t, c) \/ Outgoing(p, c)
    <3>1. Answers(s, c) \/ Outgoing(q, c)
      BY <1>1, <1>6 DEF InOrder, Nothing
    <3>2. CASE Answers(s, c)
      BY <1>3, <3>2 DEF Answers
    <3>3. CASE Outgoing(q, c)
      <4>1. PICK j \in Published(q) : q[j].id = c
        BY <3>3 DEF Outgoing
      <4>2. CASE j = 1
        BY <1>1, <1>3, <4>1, <4>2 DEF Answers
      <4>3. CASE j # 1
        BY <1>1, <4>1, <4>3 DEF Outgoing
      <4>4. QED
        BY <4>2, <4>3
    <3>4. QED
      BY <3>1, <3>2, <3>3
  <2>5. QED
    BY <2>1, <2>2, <2>3, <2>4 DEF InOrder
<1>9. Answers(t, c) => Answers(s, c) \/ id = c
  BY <1>3 DEF Answers
<1>10. ~Nothing(s, q)
  BY <1>1 DEF Nothing
<1>11. QED
  BY <1>7, <1>8, <1>9, <1>10 DEF Backlog, p, t, id

\* A new message: all others are one older.
LEMMA BacklogGrows ==
  ASSUME NEW s, NEW q \in Seq(Packets), NEW c \in MsgIds, NEW n \in Nat, n < LastId,
         Backlog(s, q, c, n), NEW new \in MsgIds, c = IF new = 1 THEN LastId ELSE new - 1
  PROVE  /\ Backlog(s, Append(q, [type |-> "PUBLISH", id |-> new]), new, n + 1)
         /\ ~Answers(s, new)
<1> DEFINE m == [type |-> "PUBLISH", id |-> new]
           p == Append(q, m)
           last == Len(q) + 1
<1>1. /\ last \in Published(p) /\ p[last] = m /\ m.id = new
      /\ \A j \in Published(q) : j \in Published(p) /\ p[j] = q[j] /\ j < last /\ j \in Nat
      /\ \A j \in Published(p) : (j = last \/ j \in Published(q)) /\ j <= last /\ j \in Nat
      /\ last \in Nat
  <2>1. /\ Len(q) \in Nat /\ Len(p) = last /\ p[last] = m
        /\ \A j \in 1 .. Len(q) : p[j] = q[j]
    OBVIOUS
  <2>2. m.type = "PUBLISH" /\ m.id = new
    OBVIOUS
  <2> HIDE DEF p, m
  <2>3. ASSUME NEW j \in Published(q)
        PROVE  j \in Published(p) /\ p[j] = q[j] /\ j < last /\ j \in Nat
    <3>1. j \in 1 .. Len(q) /\ q[j].type = "PUBLISH"
      BY DEF Published
    <3>2. j \in 1 .. Len(p) /\ p[j] = q[j]
      BY <2>1, <3>1
    <3>3. QED
      BY <2>1, <3>1, <3>2 DEF Published
  <2>4. ASSUME NEW j \in Published(p)
        PROVE  (j = last \/ j \in Published(q)) /\ j <= last /\ j \in Nat
    <3>1. j \in 1 .. last /\ p[j].type = "PUBLISH"
      BY <2>1 DEF Published
    <3>2. CASE j = last
      BY <2>1, <3>2
    <3>3. CASE j # last
      <4>1. j \in 1 .. Len(q)
        BY <2>1, <3>1, <3>3
      <4>2. QED
        BY <2>1, <3>1, <4>1 DEF Published
    <3>4. QED
      BY <3>2, <3>3
  <2>5. last \in Published(p)
    BY <2>1, <2>2 DEF Published
  <2>6. QED
    BY <2>1, <2>2, <2>3, <2>4, <2>5
<1> HIDE DEF p, m, last
<1>2. Genuine(s, q) /\ InOrder(s, q, c) /\ AtMost(s, q, c, n)
  BY DEF Backlog
<1>3. \A id \in MsgIds : Age(id, c) < n => Age(id, new) = Age(id, c) + 1 /\ id # new
  <2> TAKE id \in MsgIds
  <2> HAVE Age(id, c) < n
  <2>1. LastId \in Nat \ {0} /\ id \in 1 .. LastId /\ c \in 1 .. LastId /\ new \in 1 .. LastId
    BY Identifiers
  <2>2. Age(id, c) = IF id <= c THEN c - id ELSE c + LastId - id
    BY DEF Age
  <2>3. Age(id, new) = IF id <= new THEN new - id ELSE new + LastId - id
    BY DEF Age
  <2>4. QED
    BY <2>1, <2>2, <2>3
<1>4. Age(new, new) = 0
  BY Identifiers
<1>5. /\ \A i \in Acks(s) : /\ s[i + 3] \in MsgIds /\ s[i + 3] # new
                            /\ Age(s[i + 3], new) = Age(s[i + 3], c) + 1
                            /\ Age(s[i + 3], c) < n /\ Age(s[i + 3], c) \in Nat
      /\ \A j \in Published(q) : /\ Age(q[j].id, new) = Age(q[j].id, c) + 1
                                 /\ Age(q[j].id, c) < n /\ Age(q[j].id, c) \in Nat
  BY <1>2, <1>3, Identifiers DEF Genuine, AtMost
<1>6. Genuine(s, p)
  BY <1>1, <1>2 DEF Genuine
<1>7. AtMost(s, p, new, n + 1)
  <2>1. \A i \in Acks(s) : Age(s[i + 3], new) < n + 1
    BY <1>5
  <2>2. \A j \in Published(p) : Age(p[j].id, new) < n + 1
    <3> TAKE j \in Published(p)
    <3>1. CASE j = last
      BY <1>1, <1>4, <3>1
    <3>2. CASE j # last
      <4>1. j \in Published(q) /\ p[j] = q[j]
        BY <1>1, <3>2
      <4>2. Age(q[j].id, new) = Age(q[j].id, c) + 1
            /\ Age(q[j].id, c) < n /\ Age(q[j].id, c) \in Nat
        BY <1>5, <4>1
      <4>3. QED
        BY <4>1, <4>2
    <3>3. QED
      BY <3>1, <3>2
  <2>3. QED
    BY <2>1, <2>2 DEF AtMost
<1>8. InOrder(s, p, new)
  <2>1. \A i, k \in Acks(s) : i < k => Age(s[i + 3], new) > Age(s[k + 3], new)
    <3> TAKE i, k \in Acks(s)
    <3> HAVE i < k
    <3>1. Age(s[i + 3], c) > Age(s[k + 3], c)
      BY <1>2 DEF InOrder
    <3>2. QED
      BY <1>5, <3>1
  <2>2. \A i \in Acks(s), j \in Published(p) : Age(s[i + 3], new) > Age(p[j].id, new)
    <3> TAKE i \in Acks(s), j \in Published(p)
    <3>1. CASE j = last
      BY <1>1, <1>4, <1>5, <3>1
    <3>2. CASE j # last
      <4>1. j \in Published(q) /\ p[j] = q[j]
        BY <1>1, <3>2
      <4>2. Age(s[i + 3], c) > Age(q[j].id, c)
        BY <1>2, <4>1 DEF InOrder
      <4>3. QED
        BY <1>5, <4>1, <4>2
    <3>3. QED
      BY <3>1, <3>2
  <2>3. \A j, k \in Published(p) : j < k => Age(p[j].id, new) > Age(p[k].id, new)
    <3> TAKE j, k \in Published(p)
    <3> HAVE j < k
    <3>1. j \in Published(q) /\ p[j] = q[j]
      <4>1. j # last
        BY <1>1
      <4>2. QED
        BY <1>1, <4>1
    <3>2. CASE k = last
      <4>1. Age(q[j].id, new) = Age(q[j].id, c) + 1 /\ Age(q[j].id, c) \in Nat
        BY <1>5, <3>1
      <4>2. QED
        BY <1>1, <1>4, <3>1, <3>2, <4>1
    <3>3. CASE k # last
      <4>1. k \in Published(q) /\ p[k] = q[k]
        BY <1>1, <3>3
      <4>2. Age(q[j].id, c) > Age(q[k].id, c)
        BY <1>2, <3>1, <4>1 DEF InOrder
      <4>3. QED
        BY <1>5, <3>1, <4>1, <4>2
    <3>4. QED
      BY <3>2, <3>3
  <2>4. Outgoing(p, new)
    BY <1>1 DEF Outgoing
  <2>5. QED
    BY <2>1, <2>2, <2>3, <2>4 DEF InOrder
<1>9. ~Answers(s, new)
  BY <1>5 DEF Answers
<1>10. QED
  BY <1>6, <1>7, <1>8, <1>9 DEF Backlog, p, m

---------------------------------------------------------------------------
(* What the steps do to it. *)

\* Without anything outstanding there is nothing to say.
LEMMA NothingLeft ==
  ASSUME NEW s, NEW q, NEW c, NEW n, ~CutShort(s), Nothing(s, q)
  PROVE  Backlog(s, q, c, n) /\ ~Answers(s, c)
BY DEF Backlog, Genuine, InOrder, AtMost, Nothing, Answers

\* The answer to the present message is the last thing outstanding.
LEMMA LastAnswer ==
  ASSUME NEW s, NEW q, NEW c \in MsgIds, Genuine(s, q), InOrder(s, q, c),
         NEW i \in Acks(s), s[i + 3] = c
  PROVE  Published(q) = {} /\ \A k \in Acks(s) : ~(i < k)
<1>1. \A x \in MsgIds : ~(Age(c, c) > Age(x, c))
  <2>1. Age(c, c) = 0
    BY Identifiers
  <2>2. QED
    BY <2>1, Identifiers
<1>2. QED
  BY <1>1 DEF Genuine, InOrder

\* What becomes of the backlog when nothing new is published or acknowledged.
Keeps ==
  /\ Backlog(stream', up', CurrentId, Paid)
  /\ Answers(stream', CurrentId) => Answers(stream, CurrentId)
  /\ Nothing(stream, up) => Nothing(stream', up')

LEMMA KeepsAfterReading ==
  ASSUME TypeInv, AckInv, NEW k \in Nat, NEW r \in Seq(Packets), Published(r) = {},
         stream' = Rest(stream, k), up' = up \o r
  PROVE  Keeps
<1>1. stream \in Seq(Byte) /\ up \in Seq(Packets) /\ CurrentId \in MsgIds
  BY CurrentIds DEF TypeInv, TypeOK, LinkTypeOK
<1>2. Backlog(stream, up, CurrentId, Paid)
  BY DEF AckInv
<1>3. /\ Backlog(stream', up \o r, CurrentId, Paid)
      /\ Answers(stream', CurrentId) => Answers(stream, CurrentId)
      /\ Nothing(stream, up) => Nothing(stream', up \o r)
  BY <1>1, <1>2, BacklogRead, Zenon
<1>4. QED
  BY <1>3, Zenon DEF Keeps

\* Not PUBLISHes, as the client sends them.
LEMMA OtherPackets ==
  /\ <<>> \in Seq(Packets) /\ Published(<<>>) = {}
  /\ \A p \in Packets : p.type # "PUBLISH" => <<p>> \in Seq(Packets) /\ Published(<<p>>) = {}
  /\ <<Status, Subscription>> \in Seq(Packets) /\ Published(<<Status, Subscription>>) = {}
<1>1. <<>> \in Seq(Packets) /\ Published(<<>>) = {}
  BY DEF Published
<1>2. ASSUME NEW p \in Packets, p.type # "PUBLISH"
      PROVE  <<p>> \in Seq(Packets) /\ Published(<<p>>) = {}
  BY <1>2 DEF Published
<1>3. <<Status, Subscription>> \in Seq(Packets) /\ Published(<<Status, Subscription>>) = {}
  <2>1. Status \in Packets /\ Status.type # "PUBLISH"
    BY ClientPackets DEF Status
  <2>2. Subscription \in Packets /\ Subscription.type # "PUBLISH"
    BY ClientPackets DEF Subscription
  <2>3. QED
    BY <2>1, <2>2 DEF Published
<1>4. QED
  BY <1>1, <1>2, <1>3

LEMMA LinkKeeps ==
  ASSUME TypeInv, AckInv,
         \/ UNCHANGED link
         \/ Dial \/ Accept \/ Ping \/ ReadNothing \/ LinkReset
         \/ \E why \in Reasons : Closed(why)
         \/ Connected /\ HasPacket(stream) /\ ReadReply(Packet(stream))
         \/ KeepAlivePasses
         \/ \E t \in Texts : SendDownlink(t)
  PROVE  Keeps
<1>1. /\ stream \in Seq(Byte) /\ up \in Seq(Packets) /\ CurrentId \in MsgIds
      /\ Len(stream) \in Nat
  BY CurrentIds DEF TypeInv, TypeOK, LinkTypeOK
<1>2. Backlog(stream, up, CurrentId, Paid)
  BY DEF AckInv
<1>3. ASSUME stream' = stream, up' = up
      PROVE  Keeps
  BY <1>2, <1>3, Zenon DEF Keeps
<1>4. ASSUME stream' = <<>>, Published(up') = {}
      PROVE  Keeps
  <2>1. ~CutShort(stream') /\ Nothing(stream', up')
    BY <1>4 DEF CutShort, Nothing, Acks
  <2>2. QED
    BY <2>1, NothingLeft DEF Keeps
<1>5. CASE UNCHANGED link \/ KeepAlivePasses
  BY <1>3, <1>5 DEF link, KeepAlivePasses
<1>6. CASE Dial
  <2>1. Published(<<[type |-> "CONNECT"]>>) = {}
    BY DEF Published
  <2>2. QED
    BY <1>4, <1>6, <2>1 DEF Dial
<1>7. CASE LinkReset \/ \E why \in Reasons : Closed(why)
  <2>1. stream' = <<>> /\ up' = <<>>
    BY <1>7 DEF LinkReset, Closed
  <2>2. QED
    BY <1>4, <2>1, OtherPackets
<1>8. CASE Accept
  <2>1. HasPacket(stream)
    BY <1>8 DEF Accept, Answered, Connack
  <2>2. stream' = Rest(stream, PacketEnd(stream)) /\ up' = up \o <<Status, Subscription>>
    BY <1>8 DEF Accept, After, Rest
  <2>3. QED
    BY <1>1, <2>1, <2>2, PacketBytes, KeepsAfterReading, OtherPackets
<1>9. CASE Ping
  <2>1. CASE pinged
    <3>1. stream' = <<>> /\ up' = <<>>
      BY <1>9, <2>1 DEF Ping, Closed
    <3>2. QED
      BY <1>4, <3>1, OtherPackets
  <2>2. CASE ~pinged
    <3> DEFINE p == [type |-> "PINGREQ"]
    <3>1. stream' = stream /\ up' = Append(up, p)
      BY <1>9, <2>2 DEF Ping, Sent
    <3>2. p \in Packets /\ p.type # "PUBLISH"
      BY ClientPackets
    <3> HIDE DEF p
    <3>3. Rest(stream, 0) = stream /\ Append(up, p) = up \o <<p>>
      BY <1>1, <3>2 DEF Rest
    <3>4. <<p>> \in Seq(Packets) /\ Published(<<p>>) = {}
      BY <3>2, OtherPackets
    <3>5. stream' = Rest(stream, 0) /\ up' = up \o <<p>>
      BY <3>1, <3>3, Zenon
    <3>6. 0 \in Nat
      OBVIOUS
    <3>7. QED
      BY <3>4, <3>5, <3>6, KeepsAfterReading
  <2>3. QED
    BY <2>1, <2>2
<1>10. CASE ReadNothing
  <2>1. stream' = <<>> /\ up' = up
    BY <1>10 DEF ReadNothing
  <2>2. Rest(stream, Len(stream)) = <<>> /\ up \o <<>> = up
    BY <1>1 DEF Rest
  <2>3. stream' = Rest(stream, Len(stream)) /\ up' = up \o <<>>
    BY <2>1, <2>2, Zenon
  <2>4. QED
    BY <1>1, <2>3, KeepsAfterReading, OtherPackets
<1>11. CASE Connected /\ HasPacket(stream) /\ ReadReply(Packet(stream))
  <2> DEFINE p == Packet(stream)
             puback == [type |-> "PUBACK", id |-> IF IsSound(p) THEN IdOf(p) ELSE 0]
             pong   == [type |-> "PINGRESP"]
  <2>1. PacketEnd(stream) \in Nat /\ p \in Seq(Byte)
    BY <1>1, <1>11, PacketBytes
  <2>2. IsQos1(p) => puback \in Packets
    BY <2>1, SoundHasId, ClientPackets
  <2>3. pong \in Packets
    BY ClientPackets
  <2>4. puback.type # "PUBLISH" /\ pong.type # "PUBLISH"
    OBVIOUS
  <2>5. stream' = Rest(stream, PacketEnd(stream))
    BY <1>11 DEF ReadReply, After, Rest
  <2> HIDE DEF p, puback, pong
  <2>6. \/ up' = up
        \/ up' = Append(up, puback) /\ IsQos1(p)
        \/ up' = Append(up, pong)
    BY <1>11 DEF ReadReply, Sent, p, puback, pong
  <2>7. \A x : Append(up, x) = up \o <<x>>
    BY <1>1
  <2>8. up \o <<>> = up
    BY <1>1
  <2>9. \E r \in Seq(Packets) : Published(r) = {} /\ up' = up \o r
    <3>1. CASE up' = up
      BY <2>8, <3>1, OtherPackets
    <3>2. CASE up' = Append(up, puback) /\ IsQos1(p)
      BY <2>2, <2>4, <2>7, <3>2, OtherPackets
    <3>3. CASE up' = Append(up, pong)
      BY <2>3, <2>4, <2>7, <3>3, OtherPackets
    <3>4. QED
      BY <2>6, <3>1, <3>2, <3>3
  <2>10. QED
    BY <2>1, <2>5, <2>9, KeepsAfterReading
<1>12. CASE \E t \in Texts : SendDownlink(t)
  <2>1. PICK t \in Texts : SendDownlink(t)
    BY <1>12
  <2> DEFINE d == Downlink(Len(texts'), t)
  <2>2. stream' = stream \o d /\ up' = up
    BY <2>1 DEF SendDownlink
  <2>3. Len(texts') \in Byte /\ Len(texts') \in 1 .. 255
    BY <2>1, TextsCounted DEF Byte
  <2>4. d \in Seq(Byte) /\ Whole(d) /\ Acks(d) = {}
    BY <2>3, BrokerBytes, WholePackets
  <2> HIDE DEF d
  <2>5. /\ Backlog(stream \o d, up, CurrentId, Paid)
        /\ Answers(stream \o d, CurrentId) => Answers(stream, CurrentId)
        /\ Nothing(stream, up) => Nothing(stream \o d, up)
    BY <1>1, <1>2, <2>4, BacklogHears
  <2>6. QED
    BY <2>2, <2>5, Zenon DEF Keeps
<1>13. QED
  BY <1>5, <1>6, <1>7, <1>8, <1>9, <1>10, <1>11, <1>12

\* Other than in the steps below, no message is published, given up or
\* acknowledged, and a line is an event.
Ordinary ==
  /\ msgId' = msgId /\ (InWait' <=> InWait) /\ (pc' = "acked" <=> pc = "acked")
  /\ events <= events' /\ (fill' > 0 => fill > 0 \/ events' > 0)

LEMMA OrdinarySteps ==
  ASSUME TypeInv, [Next]_vars
  PROVE  \/ Flush \/ WaitRaw \/ AckTimeout \/ Acked
         \/ Restarted /\ events <= events'
         \/ Ordinary /\ (Broker \/ delivered' = delivered)
<1> DEFINE Quietly == Ordinary /\ delivered' = delivered
<1>0. /\ fill \in Nat /\ events \in Nat /\ back \in LoopPcs
      /\ \A e \in {events, events + 1} : events <= e /\ (e = events + 1 => e > 0)
  BY DEF TypeInv, TypeOK
<1> USE DEF Ordinary, InWait
<1>1. Event => events' = events + 1
  BY DEF Event
<1>2. ASSUME NEW from \in LoopPcs, pc = from \/ (pc \in {"stall", "ota"} /\ back = from),
             \/ ReadPacket(from) \/ OtaBegins(from) \/ ReadBadLength(from)
      PROVE  Quietly
  <2>1. UNCHANGED <<fill, msgId, events, delivered>>
    BY <1>2 DEF ReadPacket, OtaBegins, ReadBadLength, LoopRest
  <2>2. \/ pc' = AfterLoop(from) \/ (pc' = "ota" /\ back' = from)
    BY <1>2 DEF ReadPacket, OtaBegins, ReadBadLength, To
  <2>3. AfterLoop(from) = IF from = "loop1" THEN "flush"
                          ELSE IF from = "waitloop" THEN "wait" ELSE "poll"
    BY DEF AfterLoop, LoopPcs
  <2>4. (InWait' <=> InWait) /\ pc' # "acked" /\ pc # "acked"
    BY <1>2, <2>2, <2>3 DEF LoopPcs
  <2>5. QED
    BY <1>0, <2>1, <2>4
<1>3. CASE TakeTrigger \/ ReadMode
  <2>1. UNCHANGED <<fill, msgId, events, delivered>> /\ pc \in {"poll", "mode"}
        /\ pc' \in {"mode", "wifi", "gsm", "poll"}
    BY <1>3 DEF TakeTrigger, ReadMode, Core1At, To
  <2>2. QED
    BY <1>0, <2>1
<1>4. CASE WifiConnected \/ WifiDial \/ WifiRefused \/ ConnackRead \/ ConnackTimeout
  <2>1. UNCHANGED <<fill, msgId, delivered>> /\ pc \in {"wifi", "connack"}
        /\ pc' \in {"loop1", "connack", "poll"} /\ (events' = events \/ Event)
    BY <1>4 DEF WifiConnected, WifiDial, WifiRefused, ConnackRead, ConnackTimeout, WifiRest,
                Core1At, To, WifiFailed, NoAccessPoint, HeapShort
  <2>2. QED
    BY <1>0, <1>1, <2>1
<1>5. CASE LoopPing
  BY <1>0, <1>5 DEF LoopPing, LoopRest
<1>6. CASE LoopReturn
  <2>1. UNCHANGED <<fill, msgId, events, delivered>> /\ pc \in LoopPcs /\ pc' = AfterLoop(pc)
    BY <1>6 DEF LoopReturn, LoopRest, To
  <2>2. AfterLoop(pc) = IF pc = "loop1" THEN "flush" ELSE IF pc = "waitloop" THEN "wait" ELSE "poll"
    BY <2>1 DEF AfterLoop, LoopPcs
  <2>3. QED
    BY <1>0, <2>1, <2>2 DEF LoopPcs
<1>7. CASE LoopRead
  <2>1. pc \in LoopPcs
    BY <1>7 DEF LoopRead
  <2>2. CASE ReadPacket(pc) \/ OtaBegins(pc) \/ ReadBadLength(pc)
    BY <1>2, <2>1, <2>2
  <2>3. CASE ~(ReadPacket(pc) \/ OtaBegins(pc) \/ ReadBadLength(pc))
    <3>1. pc' = "stall" /\ back' = pc /\ UNCHANGED <<fill, msgId, events, delivered>>
      BY <1>7, <2>3 DEF LoopRead, LoopRest
    <3>2. QED
      BY <1>0, <2>1, <3>1 DEF LoopPcs
  <2>4. QED
    BY <2>2, <2>3
<1>8. CASE StallEnds \/ OtaWithout
  <2>1. pc \in {"stall", "ota"} /\ (ReadPacket(back) \/ OtaBegins(back) \/ ReadBadLength(back))
    BY <1>8 DEF StallEnds, OtaWithout, Core1At
  <2>2. QED
    BY <1>0, <1>2, <2>1
<1>9. CASE ReadTimeout \/ OtaAlone
  <2>1. UNCHANGED <<fill, msgId, delivered, back>> /\ pc \in {"stall", "ota"}
        /\ pc' = AfterLoop(back) /\ (events' = events \/ Event)
    BY <1>9 DEF ReadTimeout, OtaAlone, LoopRest, Core1At, To
  <2>2. AfterLoop(back) = IF back = "loop1" THEN "flush"
                          ELSE IF back = "waitloop" THEN "wait" ELSE "poll"
    BY <1>0 DEF AfterLoop, LoopPcs
  <2>3. QED
    BY <1>0, <1>1, <2>1, <2>2
<1>10. CASE OtaDone \/ PowerLoss
  <2>1. Restarted /\ (events' = events \/ Event)
    BY <1>10 DEF OtaDone, PowerLoss
  <2>2. QED
    BY <1>0, <1>1, <2>1
<1>11. CASE NoFlush \/ WaitTurn
  <2>1. UNCHANGED <<fill, msgId, delivered>> /\ (events' = events \/ Event)
        /\ ((pc = "wait" /\ pc' = "waitloop") \/ (pc = "flush" /\ pc' = "loop2"))
    BY <1>11 DEF NoFlush, WaitTurn, FlushRest, Core1At, To
  <2>2. QED
    BY <1>0, <1>1, <2>1
<1>12. CASE GsmStep
  <2>1. /\ pc = "gsm" /\ pc' = "poll" /\ UNCHANGED <<msgId, delivered>> /\ fill' \in {fill, 0}
        /\ (events' = events \/ Event)
    BY <1>12 DEF GsmStep, GsmSession, GsmFailed, GsmRest, Core1At, To
  <2>2. QED
    BY <1>0, <1>1, <2>1
<1>13. CASE Tap
  <2>1. Event /\ UNCHANGED <<core1, delivered>>
    BY <1>13 DEF Tap, OthersOnly
  <2>2. QED
    BY <1>0, <1>1, <2>1 DEF core1
<1>14. CASE \/ KeyRead \/ KeyWrite \/ WifiComes \/ WifiGoes \/ GsmChange
            \/ (\E t \in Texts : SendDownlink(t)) \/ Broker \/ BrokerCloses \/ TimePasses
  <2>1. UNCHANGED core1 /\ fill' = fill /\ (Broker \/ delivered' = delivered)
    BY <1>14
       DEF KeyRead, KeyWrite, WifiComes, WifiGoes, GsmChange, SendDownlink,
           BrokerCloses, TimePasses, Broker, NetRest, BrokerRest, OthersOnly, shared
  <2>2. events' = events \/ Event
    BY <1>14
       DEF KeyRead, KeyWrite, WifiComes, WifiGoes, GsmChange, SendDownlink,
           BrokerCloses, TimePasses, Broker
  <2>3. QED
    BY <1>0, <1>1, <2>1, <2>2 DEF core1
<1>15. CASE UNCHANGED vars
  <2>1. UNCHANGED core1 /\ fill' = fill /\ delivered' = delivered /\ events' = events
    BY <1>15 DEF vars, shared, history
  <2>2. QED
    BY <1>0, <2>1 DEF core1
<1>16. QED
  BY <1>3, <1>4, <1>5, <1>6, <1>7, <1>8, <1>9, <1>10, <1>11, <1>12, <1>13, <1>14, <1>15
     DEF Next, Core1Step, WifiStep, Environment

\* The identifiers do not come round within the events.
LEMMA RoomForIds ==
  ASSUME TypeInv, MaxEvents \in MsgIds
  PROVE  events \in Nat /\ events <= LastId /\ Paid \in Int
<1>1. events \in 0 .. MaxEvents /\ MaxEvents \in 1 .. LastId /\ LastId \in Nat
  BY Identifiers DEF TypeInv, TypeOK
<1>2. QED
  BY <1>1 DEF Paid

LEMMA PaidLater ==
  ASSUME TypeInv, TypeInv', Ordinary
  PROVE  Paid \in Int /\ Paid' \in Int /\ Paid <= Paid'
<1>0. InWait' <=> InWait
  BY DEF Ordinary
<1>1. events \in Nat /\ events' \in Nat /\ events <= events'
  BY SyncAssumption DEF TypeInv, TypeOK, Byte, Ordinary
<1>2. CASE InWait
  <2>1. Paid = events /\ Paid' = events'
    BY <1>0, <1>2, Zenon DEF Paid
  <2>2. QED
    BY <1>1, <2>1
<1>3. CASE ~InWait
  <2>1. Paid = events - 1 /\ Paid' = events' - 1
    BY <1>0, <1>3, Zenon DEF Paid
  <2>2. \A e, f \in Nat : e <= f => e - 1 \in Int /\ f - 1 \in Int /\ e - 1 <= f - 1
    OBVIOUS
  <2>3. events - 1 \in Int /\ events' - 1 \in Int /\ events - 1 <= events' - 1
    BY <1>1, <2>2
  <2>4. QED
    BY <2>1, <2>3, Zenon
<1>4. QED
  BY <1>2, <1>3

LEMMA AckInvOrdinary ==
  ASSUME TypeInv, TypeInv', AckInv, Ordinary, delivered' = delivered, Keeps
  PROVE  AckInv'
<1>1. CurrentId \in MsgIds /\ CurrentId' = CurrentId
  BY CurrentIds DEF TypeInv, TypeOK, Ordinary, CurrentId
<1>2. Paid \in Int /\ Paid' \in Int /\ Paid <= Paid'
  BY PaidLater
<1>3. Backlog(stream', up', CurrentId, Paid')
  BY <1>1, <1>2, BacklogLater DEF Keeps
<1>4. Answers(stream', CurrentId) => delivered'
  BY DEF AckInv, Keeps
<1>5. pc' = "acked" => delivered' /\ Nothing(stream', up')
  BY DEF AckInv, Keeps, Ordinary
<1>6. fill' > 0 => events' > 0
  <2>1. events \in Nat /\ events' \in Nat
    BY SyncAssumption DEF TypeInv, TypeOK, Byte
  <2>2. QED
    BY <2>1 DEF AckInv, Ordinary
<1>7. QED
  BY <1>1, <1>3, <1>4, <1>5, <1>6, Zenon DEF AckInv

LEMMA AckInvBroker ==
  ASSUME TypeInv, TypeInv', AckInv, Ordinary, Broker
  PROVE  AckInv'
<1> DEFINE p == Head(up)
<1>1. /\ stream \in Seq(Byte) /\ up \in Seq(Packets) /\ CurrentId \in MsgIds
      /\ up # <<>> /\ stream' = stream \o ReplyTo(p) /\ up' = Tail(up)
      /\ delivered' = (delivered \/ p = [type |-> "PUBLISH", id |-> CurrentId])
  BY CurrentIds DEF TypeInv, TypeOK, LinkTypeOK, Broker, BrokerReads
<1>2. p \in Packets /\ Tail(up) \in Seq(Packets)
  BY <1>1
<1>3. Backlog(stream, up, CurrentId, Paid) /\ Genuine(stream, up)
  BY DEF AckInv, Backlog
<1>4. CASE p.type # "PUBLISH"
  <2>1. \/ ReplyTo(p) = <<>>
        \/ ReplyTo(p) = Connack \/ ReplyTo(p) = Pingresp
        \/ p.id \in Byte /\ ReplyTo(p) = Suback(p.id)
    BY <1>2, <1>4 DEF ReplyTo, Packets
  <2>2. /\ Backlog(stream, Tail(up), CurrentId, Paid)
        /\ Nothing(stream, up) => Nothing(stream, Tail(up))
    BY <1>1, <1>3, <1>4, BacklogTaken
  <2> DEFINE r == ReplyTo(p)
  <2>3. r = <<>> \/ (r \in Seq(Byte) /\ Whole(r) /\ Acks(r) = {})
    BY <2>1, WholePackets, BrokerBytes
  <2> HIDE DEF r
  <2>4. Keeps /\ (delivered => delivered')
    <3>1. CASE r = <<>>
      <4>1. stream \o <<>> = stream
        BY <1>1
      <4>2. stream' = stream
        BY <1>1, <3>1, <4>1 DEF r
      <4>3. QED
        BY <1>1, <2>2, <4>2, Zenon DEF Keeps
    <3>2. CASE r \in Seq(Byte) /\ Whole(r) /\ Acks(r) = {}
      <4>1. /\ Backlog(stream \o r, Tail(up), CurrentId, Paid)
            /\ Answers(stream \o r, CurrentId) => Answers(stream, CurrentId)
            /\ Nothing(stream, Tail(up)) => Nothing(stream \o r, Tail(up))
        BY <1>1, <2>2, <3>2, BacklogHears
      <4>2. stream' = stream \o r
        BY <1>1 DEF r
      <4>3. QED
        BY <1>1, <2>2, <4>1, <4>2, Zenon DEF Keeps
    <3>3. QED
      BY <2>3, <3>1, <3>2
  <2>5. p # [type |-> "PUBLISH", id |-> CurrentId]
    BY <1>4
  <2>6. delivered' = delivered
    BY <1>1, <2>5, Zenon DEF TypeInv, TypeOK
  <2>7. QED
    BY <2>4, <2>6, AckInvOrdinary
<1>5. CASE p.type = "PUBLISH"
  <2> DEFINE id == p.id
  <2>1. id \in MsgIds
    <3>1. 1 \in Published(up) /\ up[1] = p
      BY <1>1, <1>5, TailPublished
    <3>2. QED
      BY <1>3, <3>1 DEF Genuine
  <2>2. ReplyTo(p) = Puback(id)
    BY <1>5 DEF ReplyTo
  <2>3. /\ Backlog(stream \o Puback(id), Tail(up), CurrentId, Paid)
        /\ Answers(stream \o Puback(id), CurrentId) => Answers(stream, CurrentId) \/ id = CurrentId
        /\ ~Nothing(stream, up)
    BY <1>1, <1>3, <1>5, BacklogMoves
  <2>4. id = CurrentId => p = [type |-> "PUBLISH", id |-> CurrentId]
    BY <1>2, <1>5 DEF Packets
  <2> HIDE DEF id, p
  <2>5. Backlog(stream', up', CurrentId, Paid)
    BY <1>1, <2>2, <2>3, Zenon
  <2>6. Answers(stream', CurrentId) => delivered'
    BY <1>1, <2>2, <2>3, <2>4, Zenon DEF AckInv
  <2>7. CurrentId' = CurrentId
    BY DEF Ordinary, CurrentId
  <2>8. Paid \in Int /\ Paid' \in Int /\ Paid <= Paid'
    BY PaidLater
  <2>9. Backlog(stream', up', CurrentId, Paid')
    BY <1>1, <2>5, <2>8, BacklogLater
  <2>10. pc' # "acked"
    BY <2>3 DEF AckInv, Ordinary
  <2>11. fill' > 0 => events' > 0
    <3>1. events \in Nat /\ events' \in Nat
      BY SyncAssumption DEF TypeInv, TypeOK, Byte
    <3>2. QED
      BY <3>1 DEF AckInv, Ordinary
  <2>12. QED
    BY <2>6, <2>7, <2>9, <2>10, <2>11, Zenon DEF AckInv
<1>6. QED
  BY <1>4, <1>5

LEMMA AckInvRestarted ==
  ASSUME TypeInv, TypeInv', AckInv, Restarted, events <= events'
  PROVE  AckInv'
<1>1. stream' = <<>> /\ up' = <<>> /\ pc' = "poll" /\ fill' = fill
  BY DEF Restarted, LinkReset
<1>2. ~CutShort(stream') /\ Nothing(stream', up')
  BY <1>1 DEF CutShort, Nothing, Acks, Published
<1>3. Backlog(stream', up', CurrentId', Paid') /\ ~Answers(stream', CurrentId')
  BY <1>2, NothingLeft, Zenon
<1>4. fill' > 0 => events' > 0
  <2>1. events \in Nat /\ events' \in Nat
    BY SyncAssumption DEF TypeInv, TypeOK, Byte
  <2>2. QED
    BY <1>1, <2>1 DEF AckInv
<1>5. pc' # "acked"
  BY <1>1
<1>6. QED
  BY <1>3, <1>4, <1>5, Zenon DEF AckInv

LEMMA AckInvFlush ==
  ASSUME TypeInv, TypeInv', AckInv, MaxEvents \in MsgIds, Flush
  PROVE  AckInv'
<1>1. /\ stream \in Seq(Byte) /\ up \in Seq(Packets) /\ CurrentId \in MsgIds /\ msgId \in MsgIds
      /\ ~tcp => up = <<>> /\ stream = <<>>
      /\ Backlog(stream, up, CurrentId, Paid) /\ fill \in Nat
      /\ stream' = stream /\ fill' = fill /\ events' = events /\ pc = "flush"
  BY CurrentIds DEF TypeInv, TypeOK, LinkTypeOK, AckInv, Flush, Core1At
<1>2. events \in Nat /\ events <= LastId /\ (fill > 0 => events > 0)
  BY RoomForIds DEF AckInv
<1>3. Paid = events - 1
  BY <1>1 DEF Paid, InWait
<1>4. CASE ~(fill > 0)
  <2>1. up' = up /\ msgId' = msgId /\ pc' = "loop2" /\ ~(fill' > 0)
    BY <1>1, <1>4 DEF Flush, To
  <2>2. delivered' = delivered
    BY <1>4, Zenon DEF Flush
  <2>3. CurrentId' = CurrentId
    BY <2>1 DEF CurrentId
  <2>4. Paid' = Paid
    BY <1>1, <1>3, <2>1 DEF Paid, InWait
  <2>5. Answers(stream, CurrentId) => delivered
    BY DEF AckInv
  <2>6. pc' # "acked"
    BY <2>1
  <2>7. QED
    BY <1>1, <2>1, <2>2, <2>3, <2>4, <2>5, <2>6, Zenon DEF AckInv
<1>5. CASE fill > 0 /\ ~tcp
  <2>1. up' = <<>> /\ stream' = <<>> /\ pc' = "loop2" /\ fill' > 0 /\ events' > 0
    BY <1>1, <1>2, <1>5 DEF Flush, To
  <2>2. ~CutShort(stream') /\ Nothing(stream', up')
    BY <2>1 DEF CutShort, Nothing, Acks, Published
  <2>3. Backlog(stream', up', CurrentId', Paid') /\ ~Answers(stream', CurrentId')
    BY <2>2, NothingLeft, Zenon
  <2>4. pc' # "acked"
    BY <2>1
  <2>5. QED
    BY <2>1, <2>3, <2>4, Zenon DEF AckInv
<1>6. CASE fill > 0 /\ tcp
  <2>1. /\ up' = Append(up, [type |-> "PUBLISH", id |-> msgId]) /\ msgId' = NextMsgId(msgId)
        /\ pc' = "wait"
    BY <1>6 DEF Flush, Sent, To
  <2>2. CurrentId = IF msgId = 1 THEN LastId ELSE msgId - 1
    BY <1>1, CurrentIds
  <2>3. CurrentId' = msgId
    <3>1. msgId' \in MsgIds => CurrentId' = IF msgId' = 1 THEN LastId ELSE msgId' - 1
      BY DEF CurrentId, LastId
    <3>2. LastId \in Nat \ {0} /\ MsgIds = 1 .. LastId
      BY Identifiers
    <3>3. msgId' = IF msgId + 1 \in MsgIds THEN msgId + 1 ELSE 1
      BY <2>1 DEF NextMsgId
    <3>4. QED
      BY <1>1, <3>1, <3>2, <3>3
  <2>4. Paid' = (events - 1) + 1
    BY <1>1, <1>2, <2>1 DEF Paid, InWait
  <2>5. events - 1 \in Nat /\ events - 1 < LastId
    BY <1>2, <1>6, Identifiers
  <2>6. Backlog(stream, up, CurrentId, events - 1)
    BY <1>1, <1>3
  <2>7. /\ Backlog(stream, Append(up, [type |-> "PUBLISH", id |-> msgId]), msgId, (events - 1) + 1)
        /\ ~Answers(stream, msgId)
    BY <1>1, <2>2, <2>5, <2>6, BacklogGrows
  <2>8. fill' > 0 => events' > 0
    BY <1>1, <1>2
  <2>9. pc' # "acked"
    BY <2>1
  <2>10. QED
    BY <1>1, <2>1, <2>3, <2>4, <2>7, <2>8, <2>9, Zenon DEF AckInv
<1>7. QED
  BY <1>4, <1>5, <1>6


\* The bytes that the wait takes for an acknowledgement are one, of the message
\* that the broker has; and nothing else is outstanding then.
LEMMA AckInvWait ==
  ASSUME TypeInv, TypeInv', AckInv, MaxEvents \in MsgIds, WaitRaw
  PROVE  AckInv'
<1>1. /\ stream \in Seq(Byte) /\ up \in Seq(Packets) /\ CurrentId \in MsgIds
      /\ Len(stream) >= 4 /\ Len(stream) \in Nat
      /\ Backlog(stream, up, CurrentId, Paid)
      /\ up' = up /\ stream' = Rest(stream, 4) /\ fill' = fill /\ events' = events
      /\ pc = "wait" /\ pc' = IF IsAck(SubSeq(stream, 1, 4)) THEN "acked" ELSE "waitloop"
  BY CurrentIds DEF TypeInv, TypeOK, LinkTypeOK, AckInv, WaitRaw, Core1At, To, Rest
<1>2. delivered' = delivered /\ msgId' = msgId
  BY DEF WaitRaw
<1>3. CurrentId' = CurrentId
  BY <1>2 DEF CurrentId
<1>4. Keeps
  <2>1. up \o <<>> = up
    BY <1>1
  <2>2. up' = up \o <<>>
    BY <1>1, <2>1, Zenon
  <2>3. 4 \in Nat
    OBVIOUS
  <2>4. QED
    BY <1>1, <2>2, <2>3, OtherPackets, KeepsAfterReading
<1>5. fill' > 0 => events' > 0
  BY <1>1 DEF AckInv
<1>6. Answers(stream', CurrentId) => delivered'
  BY <1>2, <1>4 DEF Keeps, AckInv
<1>7. CASE ~IsAck(SubSeq(stream, 1, 4))
  <2>1. pc' = "waitloop" /\ pc' # "acked"
    BY <1>1, <1>7
  <2>2. Paid' = Paid
    BY <1>1, <2>1 DEF Paid, InWait
  <2>3. Backlog(stream', up', CurrentId, Paid)
    BY <1>4 DEF Keeps
  <2>4. QED
    BY <1>3, <1>5, <1>6, <2>1, <2>2, <2>3, Zenon DEF AckInv
<1>8. CASE IsAck(SubSeq(stream, 1, 4))
  <2>1. /\ \A i \in 1 .. 4 : SubSeq(stream, 1, 4)[i] = stream[i] /\ stream[i] \in Byte
    BY <1>1, ElementOfSeq
  <2>2. /\ stream[1] \in 64 .. 79 /\ stream[2] = 2
        /\ stream[3] * 256 + stream[4] = CurrentId
    BY <1>8, <2>1 DEF IsAck
  <2>3. \A x, y, c \in Byte : x * 256 + y = c => x = 0 /\ y = c
    BY DEF Byte
  <2>4. stream[3] = 0 /\ stream[4] = CurrentId
    BY <1>1, <2>1, <2>2, <2>3, IdsFitByte
  <2>5. 1 \in Acks(stream) /\ stream[1 + 3] = CurrentId
    BY <1>1, <2>2, <2>4 DEF Acks, AckAt
  <2>6. delivered'
    BY <1>2, <2>5 DEF AckInv, Answers
  <2>7. Published(up) = {} /\ \A k \in Acks(stream) : ~(1 < k)
    BY <1>1, <2>5, LastAnswer DEF Backlog
  <2>8. ~CutShort(stream') /\ Acks(stream') = {}
    <3>1. /\ \A i \in Acks(stream') : i + 4 \in Acks(stream)
          /\ CutShort(stream') => CutShort(stream)
      BY <1>1, CutAcks
    <3>2. \A i \in Acks(stream') : i \in Nat
      BY DEF Acks
    <3>3. \A i \in Nat : 1 < i + 4
      OBVIOUS
    <3>4. QED
      BY <1>1, <2>7, <3>1, <3>2, <3>3 DEF Backlog, Genuine
  <2>9. Nothing(stream', up')
    BY <1>1, <2>7, <2>8 DEF Nothing
  <2>10. Backlog(stream', up', CurrentId, Paid')
    BY <2>8, <2>9, NothingLeft, Zenon
  <2>11. QED
    BY <1>3, <1>5, <1>6, <2>6, <2>9, <2>10, Zenon DEF AckInv
<1>9. QED
  BY <1>7, <1>8

\* A wait that is given up costs an event, or leaves nothing behind.
LEMMA AckInvTimeout ==
  ASSUME TypeInv, TypeInv', AckInv, MaxEvents \in MsgIds, AckTimeout
  PROVE  AckInv'
<1>1. /\ stream \in Seq(Byte) /\ up \in Seq(Packets) /\ CurrentId \in MsgIds
      /\ Backlog(stream, up, CurrentId, Paid)
      /\ up' = up /\ stream' = stream /\ fill' = fill
      /\ pc = "wait" /\ pc' = "loop2"
      /\ IF AckComing THEN Event ELSE events' = events
  BY CurrentIds DEF TypeInv, TypeOK, LinkTypeOK, AckInv, AckTimeout, Core1At, To, link
<1>2. delivered' = delivered /\ msgId' = msgId
  BY DEF AckTimeout
<1>3. CurrentId' = CurrentId
  BY <1>2 DEF CurrentId
<1>4. events \in Nat /\ events' \in Nat
  BY SyncAssumption DEF TypeInv, TypeOK, Byte
<1>5. fill' > 0 => events' > 0
  BY <1>1, <1>4 DEF AckInv, Event
<1>6. (Answers(stream', CurrentId) => delivered') /\ pc' # "acked"
  BY <1>1, <1>2 DEF AckInv
<1>7. Backlog(stream', up', CurrentId, Paid')
  <2>1. CASE AckComing
    <3>1. Paid = events /\ Paid' = events
      BY <1>1, <1>4, <2>1 DEF Paid, InWait, Event
    <3>2. QED
      BY <1>1, <3>1
  <2>2. CASE ~AckComing
    <3>1. ~Outgoing(up, CurrentId)
      <4>1. SUFFICES ASSUME NEW j \in Published(up), up[j].id = CurrentId PROVE FALSE
        BY DEF Outgoing
      <4>2. j \in 1 .. Len(up) /\ up[j].type = "PUBLISH"
        BY DEF Published
      <4>3. up[j] \in Packets
        BY <1>1, <4>2
      <4>4. up[j] = [type |-> "PUBLISH", id |-> CurrentId]
        BY <4>1, <4>2, <4>3 DEF Packets
      <4>5. up[j] \in Range(up)
        BY <1>1, <4>2 DEF Range
      <4>6. QED
        BY <2>2, <4>4, <4>5 DEF AckComing
    <3>2. ~Answers(stream, CurrentId)
      <4>1. SUFFICES ASSUME NEW i \in Acks(stream), stream[i + 3] = CurrentId PROVE FALSE
        BY DEF Answers
      <4>2. i \in 1 .. Len(stream) - 3 /\ stream[i + 1] = 2 /\ stream[i + 2] = 0 /\ stream[i] = 64
        BY <1>1 DEF Acks, AckAt, Backlog, Genuine
      <4>3. /\ SubSeq(stream, i, i + 3) \in Seq(Byte)
            /\ Len(SubSeq(stream, i, i + 3)) = 4
            /\ \A k \in 1 .. 4 : SubSeq(stream, i, i + 3)[k] = stream[i + k - 1]
        BY <1>1, <4>2
      <4>4. SubSeq(stream, i, i + 3) = Puback(CurrentId)
        <5> DEFINE four == SubSeq(stream, i, i + 3)
        <5> HIDE DEF four
        <5>1. i + 1 - 1 = i /\ i + 2 - 1 = i + 1 /\ i + 3 - 1 = i + 2 /\ i + 4 - 1 = i + 3
          BY <4>2
        <5>2. four[1] = 64 /\ four[2] = 2 /\ four[3] = 0 /\ four[4] = CurrentId
          BY <4>1, <4>2, <4>3, <5>1 DEF four
        <5>3. four = Puback(CurrentId)
          <6>1. four \in Seq(Byte) /\ Len(four) = 4
            BY <4>3 DEF four
          <6>2. QED
            BY <5>2, <6>1 DEF Puback
        <5>4. QED
          BY <5>3 DEF four
      <4>5. QED
        BY <2>2, <4>2, <4>4 DEF AckComing
    <3>3. Nothing(stream, up) /\ ~CutShort(stream)
      BY <1>1, <3>1, <3>2 DEF Backlog, InOrder, Genuine
    <3>4. QED
      BY <1>1, <3>3, NothingLeft
  <2>3. QED
    BY <2>1, <2>2
<1>8. QED
  BY <1>3, <1>5, <1>6, <1>7, Zenon DEF AckInv

LEMMA AckInvAcked ==
  ASSUME TypeInv, TypeInv', AckInv, Acked
  PROVE  AckInv'
<1>1. /\ up' = up /\ stream' = stream /\ events' = events /\ fill' = fill - chunk
      /\ pc = "acked" /\ pc' = "loop2"
      /\ fill \in Nat /\ chunk \in 0 .. fill
  BY DEF TypeInv, TypeOK, Acked, Core1At, To, link
<1>2. Nothing(stream', up') /\ ~CutShort(stream')
  BY <1>1 DEF AckInv, Backlog, Genuine
<1>3. Backlog(stream', up', CurrentId', Paid') /\ ~Answers(stream', CurrentId')
  BY <1>2, NothingLeft, Zenon
<1>4. fill' > 0 => events' > 0
  BY <1>1 DEF AckInv
<1>5. pc' # "acked"
  BY <1>1
<1>6. QED
  BY <1>3, <1>4, <1>5, Zenon DEF AckInv

LEMMA AckInvNext ==
  MaxEvents \in MsgIds => (TypeInv /\ TypeInv' /\ AckInv /\ [Next]_vars => AckInv')
<1> SUFFICES ASSUME MaxEvents \in MsgIds, TypeInv, TypeInv', AckInv, [Next]_vars
             PROVE  AckInv'
  OBVIOUS
<1>1. CASE Flush
  BY <1>1, AckInvFlush
<1>2. CASE WaitRaw
  BY <1>2, AckInvWait
<1>3. CASE AckTimeout \/ Acked
  BY <1>3, AckInvTimeout, AckInvAcked
<1>4. CASE Restarted /\ events <= events'
  BY <1>4, AckInvRestarted
<1>5. CASE Ordinary /\ Broker
  BY <1>5, AckInvBroker
<1>6. CASE Ordinary /\ delivered' = delivered
  <2>1. Keeps \/ Flush \/ WaitRaw \/ Broker
    BY LinkKeeps, LinkSteps
  <2>2. QED
    BY <1>1, <1>2, <1>5, <1>6, <2>1, AckInvOrdinary
<1>7. QED
  BY <1>1, <1>2, <1>3, <1>4, <1>5, <1>6, OrdinarySteps

LEMMA AckInvInit == Init => AckInv
<1> SUFFICES ASSUME Init PROVE AckInv
  OBVIOUS
<1>1. stream = <<>> /\ up = <<>> /\ pc = "poll" /\ fill = 0
  BY DEF Init, LinkInit
<1>2. ~CutShort(stream) /\ Nothing(stream, up)
  BY <1>1 DEF CutShort, Nothing, Acks, Published
<1>3. QED
  BY <1>1, <1>2, NothingLeft DEF AckInv

\* _wifi_wait_for_puback takes four bytes at a time, in or out of step with the
\* packets, and knows an acknowledgement by them: what it takes for one is one,
\* and its message has arrived.  As long as fewer messages than identifiers can
\* be given up: after 65535 of them an old acknowledgement would pass for a new
\* one.
THEOREM AcksAreReal ==
  ASSUME MaxEvents \in MsgIds
  PROVE  Spec => []AckIsReal
<1>1. TypeInv /\ AckInv => AckIsReal
  BY DEF AckInv, AckIsReal
<1>2. TypeInv /\ AckInv /\ [Next]_vars => (TypeInv /\ AckInv)'
  BY TypeInvNext, AckInvNext
<1>3. Init => TypeInv /\ AckInv
  BY TypeInvInit, AckInvInit
<1>4. QED
  BY <1>1, <1>2, <1>3, PTL DEF Spec
---------------------------------------------------------------------------
(* What readPacket could take for a downlink, at any byte of the stream.     *)

\* A PUBLISH of less than 128 bytes whose topic has less than 256.
PublishAt(s, i) == s[i] \in 48 .. 63 /\ s[i + 1] < 128 /\ s[i + 2] = 0

Starts(s)    == {i \in 1 .. Len(s) - 3 : PublishAt(s, i)}
OpenEnd(s)   == Len(s) >= 3 /\ PublishAt(s, Len(s) - 2)
Number(s, i) == s[i + 6]

\* The whole packet d stands in s, from i on.
Spells(s, i, d) ==
  /\ i + (Len(d) - 1) <= Len(s)
  /\ \A k \in 1 .. Len(d) : s[(i - 1) + k] = d[k]

AsSent(ts, n) == Downlink(n, ts[n])

\* Wherever a downlink seems to start, one does; they come in the order sent, after
\* those applied.
Numbered(s, ts, done) ==
  /\ ~OpenEnd(s)
  /\ \A i \in Starts(s) : Number(s, i) \in DOMAIN ts /\ Spells(s, i, AsSent(ts, Number(s, i)))
  /\ \A i, k \in Starts(s) : i < k => Number(s, i) < Number(s, k)
  /\ \A i \in Starts(s), j \in done : j < Number(s, i)

OrderInv == Numbered(stream, texts, applied) /\ applied \subseteq DOMAIN texts

\* A downlink, byte by byte.
IsDownlink(d, n, text) ==
  /\ Len(text) \in Nat /\ Len(text) + 5 < 128
  /\ Len(d) = 7 + Len(text)
  /\ d[1] = 50 /\ d[2] = Len(text) + 5 /\ d[3] = 0 /\ d[4] = 1 /\ d[5] = 99 /\ d[6] = 0
  /\ d[7] = n
  /\ \A i \in 1 .. Len(text) : d[7 + i] = text[i] /\ text[i] \in 1 .. 127

LEMMA DownlinkBytes ==
  ASSUME NEW n, NEW text \in Texts
  PROVE  IsDownlink(Downlink(n, text), n, text)
<1> DEFINE head == <<50, Len(text) + 5, 0, 1, 99, 0, n>>
           d    == Downlink(n, text)
<1>1. text \in Seq(1 .. 127) /\ Len(text) \in Nat /\ Len(text) + 5 < 128
  BY MqttAssumption
<1>2. \A i \in 1 .. Len(text) : text[i] \in 1 .. 127
  BY <1>1, ElementOfSeq
<1>3. d = head \o text /\ Len(head) = 7
  BY DEF Downlink
<1>4. /\ Len(d) = 7 + Len(text)
      /\ d[1] = 50 /\ d[2] = Len(text) + 5 /\ d[3] = 0 /\ d[4] = 1 /\ d[5] = 99 /\ d[6] = 0
      /\ d[7] = n
      /\ \A i \in 1 .. Len(text) : d[7 + i] = text[i]
  BY <1>1, <1>3
<1> HIDE DEF d
<1>5. IsDownlink(d, n, text)
  BY <1>1, <1>2, <1>4 DEF IsDownlink
<1>6. QED
  BY <1>5 DEF d

LEMMA RestBytes ==
  ASSUME NEW s \in Seq(Byte), NEW k \in Nat
  PROVE  /\ Rest(s, k) \in Seq(Byte) /\ Len(s) \in Nat /\ Len(Rest(s, k)) \in Nat
         /\ Len(Rest(s, k)) = IF k <= Len(s) THEN Len(s) - k ELSE 0
         /\ \A i \in 1 .. Len(s) - k : Rest(s, k)[i] = s[i + k]
<1>1. Rest(s, k) \in Seq(Byte) /\ Len(s) \in Nat /\ Len(Rest(s, k)) \in Nat
  BY CutBytes DEF Rest
<1>2. QED
  BY <1>1, CutBytes DEF Rest

\* Reading from the front shows no start that was not there.
LEMMA CutStarts ==
  ASSUME NEW s \in Seq(Byte), NEW k \in Nat, NEW t, t = Rest(s, k)
  PROVE  /\ \A i \in Starts(t) : i + k \in Starts(s)
         /\ \A i \in Starts(t) : i + 6 <= Len(t) <=> (i + k) + 6 <= Len(s)
         /\ \A i \in Starts(t) : (i + k) + 6 <= Len(s) => Number(t, i) = Number(s, i + k)
         /\ OpenEnd(t) => OpenEnd(s)
<1>0. /\ Len(s) \in Nat
      /\ Len(t) = IF k <= Len(s) THEN Len(s) - k ELSE 0
      /\ \A i \in 1 .. Len(s) - k : t[i] = s[i + k]
  BY RestBytes
<1>1. CASE k > Len(s)
  <2>1. Len(t) = 0
    BY <1>0, <1>1
  <2>2. QED
    BY <1>1, <2>1 DEF Starts, OpenEnd
<1>2. CASE k <= Len(s)
  <2>1. Len(t) = Len(s) - k /\ Len(s) \in Nat /\ \A i \in 1 .. Len(s) - k : t[i] = s[i + k]
    BY <1>0, <1>2
  <2>2. ASSUME NEW i \in 1 .. Len(t) - 2
        PROVE  PublishAt(t, i) <=> PublishAt(s, i + k)
    <3>1. i \in 1 .. Len(s) - k /\ i + 1 \in 1 .. Len(s) - k /\ i + 2 \in 1 .. Len(s) - k
      BY <2>1
    <3>2. t[i] = s[i + k] /\ t[i + 1] = s[(i + 1) + k] /\ t[i + 2] = s[(i + 2) + k]
      BY <2>1, <3>1
    <3>3. (i + 1) + k = (i + k) + 1 /\ (i + 2) + k = (i + k) + 2
      BY <3>1
    <3>4. QED
      BY <3>2, <3>3 DEF PublishAt
  <2>3. ASSUME NEW i \in Starts(t)
        PROVE  /\ i + k \in Starts(s)
               /\ i + 6 <= Len(t) <=> (i + k) + 6 <= Len(s)
               /\ (i + k) + 6 <= Len(s) => Number(t, i) = Number(s, i + k)
    <3>1. i \in 1 .. Len(t) - 3 /\ PublishAt(t, i)
      BY DEF Starts
    <3>2. i \in 1 .. Len(t) - 2 /\ i + k \in 1 .. Len(s) - 3 /\ (i + 6) + k = (i + k) + 6
          /\ (i + 6 <= Len(t) <=> (i + k) + 6 <= Len(s))
          /\ ((i + k) + 6 <= Len(s) => i + 6 \in 1 .. Len(s) - k)
      BY <2>1, <3>1
    <3>3. QED
      BY <2>1, <2>2, <3>1, <3>2 DEF Starts, Number
  <2>4. OpenEnd(t) => OpenEnd(s)
    <3>1. Len(t) >= 3 => Len(t) - 2 \in 1 .. Len(t) - 2 /\ (Len(t) - 2) + k = Len(s) - 2
                         /\ Len(s) >= 3
      BY <2>1
    <3>2. QED
      BY <2>1, <2>2, <3>1 DEF OpenEnd
  <2>5. QED
    BY <2>3, <2>4
<1>3. k > Len(s) \/ k <= Len(s)
  BY <1>0
<1>4. QED
  BY <1>1, <1>2, <1>3, Zenon

LEMMA CutSpells ==
  ASSUME NEW s \in Seq(Byte), NEW k \in Nat, NEW t, t = Rest(s, k),
         NEW i \in Nat, i > 0, i + 3 <= Len(t), NEW d, Len(d) \in Nat, Spells(s, i + k, d)
  PROVE  Spells(t, i, d)
<1>1. /\ Len(s) \in Nat
      /\ Len(t) = IF k <= Len(s) THEN Len(s) - k ELSE 0
      /\ \A j \in 1 .. Len(s) - k : t[j] = s[j + k]
  BY RestBytes
<1>2. Len(t) = Len(s) - k
  BY <1>1
<1>3. (i + k) + (Len(d) - 1) <= Len(s) /\ \A j \in 1 .. Len(d) : s[((i + k) - 1) + j] = d[j]
  BY DEF Spells
<1>4. ASSUME NEW j \in 1 .. Len(d)
      PROVE  t[(i - 1) + j] = d[j]
  <2>1. (i - 1) + j \in 1 .. Len(s) - k /\ ((i - 1) + j) + k = ((i + k) - 1) + j
    BY <1>1, <1>3
  <2>2. QED
    BY <1>1, <1>3, <2>1
<1>5. i + (Len(d) - 1) <= Len(t)
  BY <1>1, <1>2, <1>3
<1>6. QED
  BY <1>4, <1>5 DEF Spells

\* ts is a list of downlinks.
LEMMA SentLength ==
  ASSUME NEW ts \in Seq(Texts), NEW n \in DOMAIN ts
  PROVE  /\ ts[n] \in Texts /\ Len(AsSent(ts, n)) \in Nat /\ Len(AsSent(ts, n)) >= 7
<1>1. ts[n] \in Texts
  BY ElementOfSeq
<1>2. QED
  BY <1>1, DownlinkBytes DEF AsSent, IsDownlink

\* A start in the rest is one of the whole, with the same downlink.
LEMMA StartCut ==
  ASSUME NEW s \in Seq(Byte), NEW k \in Nat, NEW ts \in Seq(Texts), NEW done,
         Numbered(s, ts, done), NEW i \in Starts(Rest(s, k))
  PROVE  LET t == Rest(s, k)
         IN  /\ i \in Nat /\ i > 0
             /\ i + k \in Starts(s) /\ Number(t, i) = Number(s, i + k)
             /\ Number(t, i) \in DOMAIN ts /\ Spells(t, i, AsSent(ts, Number(t, i)))
<1> DEFINE t == Rest(s, k)
<1>1. Len(s) \in Nat /\ Len(t) \in Nat
  BY RestBytes
<1>2. i \in Nat /\ i > 0 /\ i + 3 <= Len(t)
  BY <1>1 DEF Starts
<1>3. i + k \in Starts(s)
  BY CutStarts
<1> DEFINE n == Number(s, i + k)
           d == AsSent(ts, n)
<1>4. n \in DOMAIN ts /\ Spells(s, i + k, d)
  BY <1>3 DEF Numbered
<1> HIDE DEF n
<1>5. Len(d) \in Nat /\ Len(d) >= 7
  BY <1>4, SentLength
<1> HIDE DEF d
<1>6. (i + k) + (Len(d) - 1) <= Len(s)
  BY <1>4 DEF Spells
<1>7. (i + k) + 6 <= Len(s)
  BY <1>1, <1>2, <1>5, <1>6
<1>8. Number(t, i) = Number(s, i + k)
  BY <1>7, CutStarts
<1>9. Spells(t, i, d)
  BY <1>2, <1>4, <1>5, CutSpells
<1>10. QED
  BY <1>2, <1>3, <1>4, <1>8, <1>9 DEF n, d

LEMMA NumberedCut ==
  ASSUME NEW s \in Seq(Byte), NEW k \in Nat, NEW ts \in Seq(Texts), NEW done,
         Numbered(s, ts, done)
  PROVE  Numbered(Rest(s, k), ts, done)
<1> DEFINE t == Rest(s, k)
<1>1. ~OpenEnd(t)
  BY CutStarts DEF Numbered
<1>2. \A i \in Starts(t) : /\ i \in Nat /\ i + k \in Starts(s)
                           /\ Number(t, i) = Number(s, i + k)
                           /\ Number(t, i) \in DOMAIN ts
                           /\ Spells(t, i, AsSent(ts, Number(t, i)))
  BY StartCut
<1> HIDE DEF t
<1>3. ASSUME NEW i \in Starts(t), NEW j \in Starts(t), i < j
      PROVE  Number(t, i) < Number(t, j)
  <2>1. i + k \in Starts(s) /\ j + k \in Starts(s) /\ i + k < j + k
    BY <1>2, <1>3
  <2>2. Number(s, i + k) < Number(s, j + k)
    BY <2>1 DEF Numbered
  <2>3. QED
    BY <1>2, <2>2
<1>4. ASSUME NEW i \in Starts(t), NEW j \in done
      PROVE  j < Number(t, i)
  BY <1>2 DEF Numbered
<1>5. Numbered(t, ts, done)
  BY <1>1, <1>2, <1>3, <1>4 DEF Numbered
<1>6. QED
  BY <1>5 DEF t

\* A packet whose first two bytes are not the second and third of such a start.
Firm(r) == Len(r) >= 2 /\ r[1] # 0 /\ (r[1] < 128 => r[2] # 0) /\ ~OpenEnd(r)

LEMMA JoinStarts ==
  ASSUME NEW s \in Seq(Byte), NEW r \in Seq(Byte), ~OpenEnd(s), Firm(r)
  PROVE  LET t == s \o r
         IN  /\ ~OpenEnd(t)
             /\ \A i \in Starts(t) : i \in Starts(s) \/ \E k \in Starts(r) : i = Len(s) + k
             /\ \A i \in 1 .. Len(s) : t[i] = s[i]
             /\ \A i \in 1 .. Len(r) : t[Len(s) + i] = r[i]
             /\ Len(t) = Len(s) + Len(r) /\ Len(s) \in Nat /\ Len(r) \in Nat
<1> DEFINE t == s \o r
<1>1. /\ Len(s) \in Nat /\ Len(r) \in Nat \ {0, 1} /\ Len(t) = Len(s) + Len(r)
      /\ \A i \in 1 .. Len(s) : t[i] = s[i]
      /\ \A i \in 1 .. Len(r) : t[Len(s) + i] = r[i]
  BY DEF Firm
<1> HIDE DEF t
<1>2. ASSUME NEW i \in 1 .. Len(s) - 2
      PROVE  PublishAt(t, i) <=> PublishAt(s, i)
  <2>1. i \in 1 .. Len(s) /\ i + 1 \in 1 .. Len(s) /\ i + 2 \in 1 .. Len(s)
    BY <1>1
  <2>2. QED
    BY <1>1, <2>1 DEF PublishAt
<1>3. ASSUME NEW k \in 1 .. Len(r) - 2
      PROVE  PublishAt(t, Len(s) + k) <=> PublishAt(r, k)
  <2>1. k \in 1 .. Len(r) /\ k + 1 \in 1 .. Len(r) /\ k + 2 \in 1 .. Len(r)
    BY <1>1
  <2>2. Len(s) + k + 1 = Len(s) + (k + 1) /\ Len(s) + k + 2 = Len(s) + (k + 2)
    BY <1>1
  <2>3. /\ t[Len(s) + k] = r[k]
        /\ t[Len(s) + k + 1] = r[k + 1] /\ t[Len(s) + k + 2] = r[k + 2]
    BY <1>1, <2>1, <2>2, Zenon
  <2>4. QED
    BY <2>3 DEF PublishAt
\* None begins in one packet and ends in the next.
<1>4. ASSUME NEW i \in Nat, i > 0, i > Len(s) - 2, i <= Len(s), i + 2 <= Len(t)
      PROVE  ~PublishAt(t, i)
  <2>1. /\ t[Len(s) + 1] = r[1] /\ t[Len(s) + 2] = r[2]
        /\ r[1] # 0 /\ (r[1] < 128 => r[2] # 0)
    BY <1>1 DEF Firm
  <2>2. Len(s) \in Nat
    BY <1>1
  <2>3. \/ i + 2 = Len(s) + 1
        \/ i + 1 = Len(s) + 1 /\ i + 2 = Len(s) + 2
    BY <1>4, <2>2
  <2>4. QED
    BY <2>1, <2>3 DEF PublishAt
<1>5. ASSUME OpenEnd(t)
      PROVE  FALSE
  <2>1. Len(t) - 2 \in Nat /\ Len(t) - 2 > 0 /\ PublishAt(t, Len(t) - 2)
    BY <1>1, <1>5 DEF OpenEnd
  <2>2. Len(t) - 2 > Len(s)
    BY <1>1, <1>4, <2>1
  <2>3. Len(r) - 2 \in 1 .. Len(r) - 2 /\ Len(s) + (Len(r) - 2) = Len(t) - 2 /\ Len(r) >= 3
    BY <1>1, <2>2
  <2>4. PublishAt(r, Len(r) - 2)
    BY <1>3, <2>1, <2>3
  <2>5. QED
    BY <2>3, <2>4 DEF Firm, OpenEnd
<1>6. ASSUME NEW i \in Starts(t)
      PROVE  i \in Starts(s) \/ \E k \in Starts(r) : i = Len(s) + k
  <2>1. i \in 1 .. Len(t) - 3 /\ PublishAt(t, i)
    BY DEF Starts
  <2>2. CASE i > Len(s)
    <3>1. i - Len(s) \in 1 .. Len(r) - 3 /\ i - Len(s) \in 1 .. Len(r) - 2
          /\ Len(s) + (i - Len(s)) = i
      BY <1>1, <2>1, <2>2
    <3>2. i - Len(s) \in Starts(r)
      BY <1>3, <2>1, <3>1 DEF Starts
    <3>3. QED
      BY <3>1, <3>2
  <2>3. CASE i <= Len(s)
    <3>1. i <= Len(s) - 2
      <4>1. i \in Nat /\ i > 0 /\ i + 2 <= Len(t) /\ Len(s) \in Nat
        BY <1>1, <2>1
      <4>2. i > Len(s) - 2 => ~PublishAt(t, i)
        BY <1>4, <2>3, <4>1
      <4>3. QED
        BY <2>1, <4>1, <4>2
    <3>2. PublishAt(s, i) /\ i \in 1 .. Len(s) - 2
      BY <1>1, <1>2, <2>1, <3>1
    <3>3. i # Len(s) - 2
      BY <1>1, <3>2 DEF OpenEnd
    <3>4. i \in 1 .. Len(s) - 3
      BY <1>1, <3>1, <3>2, <3>3
    <3>5. QED
      BY <3>2, <3>4 DEF Starts
  <2>4. i > Len(s) \/ i <= Len(s)
    BY <1>1, <2>1
  <2>5. QED
    BY <2>2, <2>3, <2>4, Zenon
<1>7. QED
  BY <1>1, <1>5, <1>6 DEF t

\* In a downlink only its first byte is such a start; in the broker's other packets none.
LEMMA DownlinkFirm ==
  ASSUME NEW n \in 1 .. 255, NEW text \in Texts
  PROVE  Firm(Downlink(n, text)) /\ \A i \in Starts(Downlink(n, text)) : i = 1
<1> DEFINE d == Downlink(n, text)
<1>0. IsDownlink(d, n, text)
  BY DownlinkBytes
<1> HIDE DEF d
<1>1. /\ Len(text) \in Nat /\ Len(text) + 5 < 128
      /\ Len(d) = 7 + Len(text)
      /\ d[1] = 50 /\ d[2] = Len(text) + 5 /\ d[3] = 0 /\ d[4] = 1 /\ d[5] = 99 /\ d[6] = 0
      /\ d[7] = n
      /\ \A i \in 1 .. Len(text) : d[7 + i] = text[i] /\ text[i] \in 1 .. 127
  BY <1>0 DEF IsDownlink
<1>2. Len(d) \in Nat /\ Len(d) >= 7 /\ Len(d) - 7 = Len(text)
  BY <1>1
<1>3. ASSUME NEW j \in 7 .. Len(d)
      PROVE  d[j] # 0
  <2>0. n # 0
    OBVIOUS
  <2>1. CASE j = 7
    BY <1>1, <2>0, <2>1, Zenon
  <2>2. CASE j # 7
    <3>1. j - 7 \in 1 .. Len(text) /\ 7 + (j - 7) = j
      BY <1>1, <1>2, <2>2
    <3>2. d[j] = text[j - 7] /\ text[j - 7] \in 1 .. 127
      BY <1>1, <3>1
    <3>3. \A x \in 1 .. 127 : x # 0
      OBVIOUS
    <3>4. QED
      BY <3>2, <3>3, Zenon
  <2>3. QED
    BY <2>1, <2>2
<1>4. ASSUME NEW i \in 1 .. Len(d) - 2, PublishAt(d, i)
      PROVE  i = 1
  <2>1. d[i] \in 48 .. 63 /\ d[i + 2] = 0 /\ i + 2 \in 3 .. Len(d)
    BY <1>2, <1>4 DEF PublishAt
  <2>2. i + 2 < 7
    <3> DEFINE j == i + 2
    <3>1. d[j] = 0 /\ j \in 3 .. Len(d)
      BY <2>1
    <3> HIDE DEF j
    <3>2. j \notin 7 .. Len(d)
      BY <1>3, <3>1
    <3>3. j < 7
      BY <1>2, <3>1, <3>2
    <3>4. QED
      BY <3>3 DEF j
  <2>3. i \in {1, 2, 3, 4}
    BY <2>1, <2>2
  <2>4. d[2 + 2] # 0 /\ d[3 + 2] # 0 /\ ~(d[4] \in 48 .. 63)
    BY <1>1
  <2>5. i # 2 /\ i # 3 /\ i # 4
    BY <2>1, <2>4, Zenon
  <2>6. QED
    BY <2>3, <2>5
<1>5. ~OpenEnd(d)
  <2>1. Len(d) - 2 \in 1 .. Len(d) - 2 /\ Len(d) - 2 # 1
    BY <1>2
  <2>2. QED
    BY <1>4, <2>1 DEF OpenEnd
<1>6. Firm(d)
  <2>1. Len(d) >= 2 /\ d[1] # 0 /\ d[2] # 0
    BY <1>1, <1>2
  <2>2. QED
    BY <1>5, <2>1 DEF Firm
<1>7. \A i \in Starts(d) : i \in 1 .. Len(d) - 2 /\ PublishAt(d, i)
  BY <1>2 DEF Starts
<1>8. QED
  BY <1>4, <1>6, <1>7 DEF d

LEMMA OthersFirm ==
  /\ Firm(Connack) /\ Starts(Connack) = {}
  /\ Firm(Pingresp) /\ Starts(Pingresp) = {}
  /\ \A id \in Byte : /\ Firm(Suback(id)) /\ Starts(Suback(id)) = {}
                      /\ Firm(Puback(id)) /\ Starts(Puback(id)) = {}
<1>1. /\ Firm(Connack) /\ Starts(Connack) = {}
      /\ Firm(Pingresp) /\ Starts(Pingresp) = {}
  BY DEF Connack, Pingresp, Firm, OpenEnd, Starts, PublishAt
<1>2. ASSUME NEW id \in Byte
      PROVE  Firm(Suback(id)) /\ Starts(Suback(id)) = {}
  BY DEF Suback, Firm, OpenEnd, Starts, PublishAt
<1>3. ASSUME NEW id \in Byte
      PROVE  Firm(Puback(id)) /\ Starts(Puback(id)) = {}
  BY DEF Puback, Firm, OpenEnd, Starts, PublishAt
<1>4. QED
  BY <1>1, <1>2, <1>3

---------------------------------------------------------------------------
(* The order of the downlinks is kept by every step. *)

LEMMA NumberedNothing ==
  ASSUME NEW ts, NEW done
  PROVE  Numbered(<<>>, ts, done)
<1>1. Starts(<<>>) = {} /\ ~OpenEnd(<<>>)
  BY DEF Starts, OpenEnd
<1>2. QED
  BY <1>1 DEF Numbered

\* What follows in the stream does not disturb the downlinks in it.
LEMMA StartKept ==
  ASSUME NEW s \in Seq(Byte), NEW r \in Seq(Byte), NEW ts \in Seq(Texts), NEW done,
         Numbered(s, ts, done), NEW i \in Starts(s)
  PROVE  /\ Number(s, i) \in DOMAIN ts
         /\ Number(s \o r, i) = Number(s, i)
         /\ Spells(s \o r, i, AsSent(ts, Number(s, i)))
<1> DEFINE t == s \o r
           n == Number(s, i)
           d == AsSent(ts, n)
<1>1. /\ Len(s) \in Nat /\ Len(t) \in Nat /\ Len(s) <= Len(t)
      /\ \A k \in 1 .. Len(s) : t[k] = s[k]
  OBVIOUS
<1>2. n \in DOMAIN ts /\ Spells(s, i, d)
  BY DEF Numbered
<1> HIDE DEF t, n
<1>3. Len(d) \in Nat /\ Len(d) >= 7
  BY <1>2, SentLength
<1> HIDE DEF d
<1>4. i \in Nat /\ i > 0
  BY <1>1 DEF Starts
<1>5. i + (Len(d) - 1) <= Len(s) /\ \A k \in 1 .. Len(d) : s[(i - 1) + k] = d[k]
  BY <1>2 DEF Spells
<1>6. i + 6 \in 1 .. Len(s) /\ i + (Len(d) - 1) <= Len(t)
  BY <1>1, <1>3, <1>4, <1>5
<1>7. Number(t, i) = Number(s, i)
  BY <1>1, <1>6 DEF Number
<1>8. ASSUME NEW k \in 1 .. Len(d)
      PROVE  t[(i - 1) + k] = d[k]
  <2>1. (i - 1) + k \in 1 .. Len(s)
    BY <1>1, <1>3, <1>4, <1>5
  <2>2. QED
    BY <1>1, <1>5, <2>1
<1>9. Spells(t, i, d)
  BY <1>6, <1>8 DEF Spells
<1>10. QED
  BY <1>2, <1>7, <1>9 DEF t, n, d

LEMMA NumberedPlain ==
  ASSUME NEW s \in Seq(Byte), NEW r \in Seq(Byte), NEW ts \in Seq(Texts), NEW done,
         Numbered(s, ts, done), Firm(r), Starts(r) = {}
  PROVE  Numbered(s \o r, ts, done)
<1>1. ~OpenEnd(s)
  BY DEF Numbered
<1>2. ~OpenEnd(s \o r) /\ \A i \in Starts(s \o r) : i \in Starts(s)
  BY <1>1, JoinStarts
<1>3. \A i \in Starts(s) : /\ Number(s, i) \in DOMAIN ts
                           /\ Number(s \o r, i) = Number(s, i)
                           /\ Spells(s \o r, i, AsSent(ts, Number(s, i)))
  BY StartKept
<1>4. /\ \A i, k \in Starts(s) : i < k => Number(s, i) < Number(s, k)
      /\ \A i \in Starts(s), j \in done : j < Number(s, i)
  BY DEF Numbered
<1>5. QED
  BY <1>2, <1>3, <1>4 DEF Numbered

LEMMA NumberedSend ==
  ASSUME NEW s \in Seq(Byte), NEW ts \in Seq(Texts), NEW text \in Texts,
         NEW done, done \subseteq DOMAIN ts,
         Numbered(s, ts, done), Len(Append(ts, text)) \in Byte
  PROVE  Numbered(s \o Downlink(Len(Append(ts, text)), text), Append(ts, text), done)
<1> DEFINE more == Append(ts, text)
           n    == Len(more)
           d    == Downlink(n, text)
           t    == s \o d
<1>1. /\ Len(ts) \in Nat /\ n = Len(ts) + 1 /\ more[n] = text
      /\ n \in DOMAIN more /\ DOMAIN ts = 1 .. Len(ts)
      /\ \A m \in DOMAIN ts : m \in DOMAIN more /\ more[m] = ts[m]
  OBVIOUS
<1>2. n \in Byte /\ n \in 1 .. 255
  BY <1>1 DEF Byte
<1> HIDE DEF more
<1> HIDE DEF n
<1>3. d \in Seq(Byte) /\ Firm(d) /\ (\A i \in Starts(d) : i = 1) /\ IsDownlink(d, n, text)
  BY <1>2, BrokerBytes, DownlinkFirm, DownlinkBytes
<1>4. d = AsSent(more, n)
  BY <1>1 DEF AsSent
<1> HIDE DEF d
<1>5. ~OpenEnd(s)
  BY DEF Numbered
<1>6. /\ ~OpenEnd(t)
      /\ \A i \in Starts(t) : i \in Starts(s) \/ \E k \in Starts(d) : i = Len(s) + k
      /\ \A i \in 1 .. Len(d) : t[Len(s) + i] = d[i]
      /\ Len(t) = Len(s) + Len(d) /\ Len(s) \in Nat /\ Len(d) \in Nat
  BY <1>3, <1>5, JoinStarts
<1> DEFINE new == Len(s) + 1
<1>7. \A i \in Starts(t) : i \in Starts(s) \/ i = new
  BY <1>3, <1>6
<1>8. ASSUME NEW i \in Starts(s)
      PROVE  /\ i \in Nat /\ i < new
             /\ Number(t, i) = Number(s, i) /\ Number(t, i) \in DOMAIN ts
             /\ Number(t, i) \in DOMAIN more /\ Number(t, i) < n
             /\ Spells(t, i, AsSent(more, Number(t, i)))
  <2>1. /\ Number(s, i) \in DOMAIN ts
        /\ Number(t, i) = Number(s, i)
        /\ Spells(t, i, AsSent(ts, Number(s, i)))
    BY <1>3, StartKept
  <2>2. AsSent(more, Number(s, i)) = AsSent(ts, Number(s, i))
    BY <1>1, <2>1 DEF AsSent
  <2>3. i \in Nat /\ i < new
    BY <1>6 DEF Starts
  <2>4. \A m \in DOMAIN ts : m < n
    BY <1>1
  <2>5. QED
    BY <1>1, <2>1, <2>2, <2>3, <2>4
<1>9. Number(t, new) = n /\ Spells(t, new, AsSent(more, n))
  <2>1. Len(d) >= 7 /\ d[7] = n
    BY <1>3, <1>6 DEF IsDownlink
  <2>2. 7 \in 1 .. Len(d) /\ new + 6 = Len(s) + 7 /\ new - 1 = Len(s)
        /\ new + (Len(d) - 1) <= Len(t)
    BY <1>6, <2>1
  <2>3. Number(t, new) = n
    BY <1>6, <2>1, <2>2 DEF Number
  <2>4. \A k \in 1 .. Len(d) : t[(new - 1) + k] = d[k]
    BY <1>6, <2>2
  <2>5. Spells(t, new, d)
    BY <2>2, <2>4 DEF Spells
  <2>6. QED
    BY <1>4, <2>3, <2>5
<1> HIDE DEF new, t
<1>10. \A i \in Starts(t) : /\ Number(t, i) \in DOMAIN more
                            /\ Spells(t, i, AsSent(more, Number(t, i)))
  BY <1>1, <1>7, <1>8, <1>9
<1>11. ASSUME NEW i \in Starts(t), NEW k \in Starts(t), i < k
       PROVE  Number(t, i) < Number(t, k)
  <2>1. CASE i \in Starts(s) /\ k \in Starts(s)
    <3>1. Number(s, i) < Number(s, k)
      BY <1>11, <2>1 DEF Numbered
    <3>2. QED
      BY <1>8, <2>1, <3>1
  <2>2. CASE i \in Starts(s) /\ k = new
    BY <1>8, <1>9, <2>2
  <2>3. i # new
    <3>1. \A j \in Starts(s) : j \in Nat /\ j < new
      BY <1>8
    <3>2. new \in Nat
      BY <1>6 DEF new
    <3>3. QED
      BY <1>7, <1>11, <3>1, <3>2
  <2>4. QED
    BY <1>7, <2>1, <2>2, <2>3
<1>12. ASSUME NEW i \in Starts(t), NEW j \in done
       PROVE  j < Number(t, i)
  <2>1. CASE i \in Starts(s)
    BY <1>8, <2>1 DEF Numbered
  <2>2. CASE i = new
    BY <1>1, <1>9, <2>2
  <2>3. QED
    BY <1>7, <2>1, <2>2
<1>13. Numbered(t, more, done)
  BY <1>6, <1>10, <1>11, <1>12 DEF Numbered
<1>14. QED
  BY <1>13 DEF t, d, n, more

\* A packet of less than 128 bytes.
LEMMA ShortPacket ==
  ASSUME NEW s \in Seq(Byte), HasPacket(s), IsSound(Packet(s))
  PROVE  /\ PacketEnd(s) = s[2] + 2 /\ PacketEnd(s) \in 4 .. 129 /\ PacketEnd(s) <= Len(s)
         /\ s[2] < 128
         /\ Packet(s) \in Seq(Byte) /\ Len(Packet(s)) = PacketEnd(s)
         /\ \A i \in 1 .. PacketEnd(s) : Packet(s)[i] = s[i] /\ s[i] \in Byte
<1> DEFINE e == PacketEnd(s)
           p == Packet(s)
<1>1. e \in Nat /\ e <= Len(s) /\ Len(s) \in Nat /\ p \in Seq(Byte) /\ HasLength(s)
      /\ p = SubSeq(s, 1, e)
  BY PacketEndType, PacketBytes DEF HasPacket, Packet
<1>2. \A i \in 1 .. Len(s) : s[i] \in Byte
  BY ElementOfSeq
<1>3. Len(p) >= 4 /\ p[2] < 128
  BY DEF IsSound
<1> HIDE DEF e, p
<1>4. Len(p) = e /\ \A i \in 1 .. e : p[i] = s[i]
  BY <1>1
<1>5. s[2] < 128 /\ s[2] \in Nat /\ e >= 4 /\ 2 \in 2 .. 5 /\ 2 <= Len(s)
  <2>1. 2 \in 1 .. e /\ 2 \in 1 .. Len(s)
    BY <1>1, <1>3, <1>4
  <2>2. s[2] \in Byte /\ p[2] = s[2]
    BY <1>2, <1>4, <2>1
  <2>3. \A x \in Byte : x \in Nat
    BY DEF Byte
  <2>4. s[2] < 128 /\ s[2] \in Nat
    BY <1>3, <2>2, <2>3, Zenon
  <2>5. e >= 4 /\ 2 <= Len(s) /\ 2 \in 2 .. 5
    BY <1>1, <1>3, <1>4
  <2>6. QED
    BY <2>4, <2>5
<1>6. LengthEnd(s) = 2
  <2>1. LengthEnd(s) \in LengthEnds(s)
    BY <1>1 DEF HasLength, LengthEnd
  <2>2. LengthEnd(s) \in 2 .. 5 /\ \A j \in 2 .. LengthEnd(s) - 1 : s[j] >= 128
    BY <2>1 DEF LengthEnds
  <2>3. ~(s[2] >= 128)
    BY <1>5
  <2>4. QED
    BY <2>2, <2>3
<1>7. e = s[2] + 2
  <2>1. (s[2] % 128) * 1 = s[2]
    BY <1>5
  <2>2. QED
    BY <1>5, <1>6, <2>1 DEF e, PacketEnd
<1>8. e \in 4 .. 129
  <2>1. \A x \in Nat : x < 128 /\ x + 2 >= 4 => x + 2 \in 4 .. 129
    OBVIOUS
  <2>2. QED
    BY <1>5, <1>7, <2>1, Zenon
<1>9. \A i \in 1 .. e : s[i] \in Byte
  BY <1>1, <1>2
<1>10. QED
  BY <1>1, <1>4, <1>5, <1>7, <1>8, <1>9 DEF e, p

\* A QoS 1 PUBLISH with sound lengths, at the front: it begins with such a start.
LEMMA SoundStarts ==
  ASSUME NEW s \in Seq(Byte), HasPacket(s), IsSound(Packet(s)), IsQos1(Packet(s))
  PROVE  1 \in Starts(s)
<1> DEFINE e == PacketEnd(s)
           p == Packet(s)
<1>1. /\ e \in 4 .. 129 /\ e <= Len(s) /\ s[2] < 128 /\ Len(s) \in Nat
      /\ Len(p) = e /\ \A i \in 1 .. e : p[i] = s[i] /\ s[i] \in Byte
  BY ShortPacket
<1>2. p[1] \div 16 = 3 /\ 4 + TopicLen(p) + 2 <= Len(p)
  BY DEF IsQos1, IsPublish, PacketType, IsSound, IdLen
<1> HIDE DEF e, p
<1>3. /\ p[1] = s[1] /\ p[3] = s[3] /\ p[4] = s[4]
      /\ s[1] \in Byte /\ s[3] \in Byte /\ s[4] \in Byte
  <2>1. 1 \in 1 .. e /\ 3 \in 1 .. e /\ 4 \in 1 .. e
    BY <1>1
  <2>2. QED
    BY <1>1, <2>1, Zenon
<1>4. \A x \in Byte : x \div 16 = 3 => x \in 48 .. 63
  BY DEF Byte
<1>5. \A x, y \in Byte : 4 + (x * 256 + y) + 2 <= 129 => x = 0
  BY DEF Byte
<1>6. s[1] \in 48 .. 63
  BY <1>2, <1>3, <1>4
<1>7. 4 + (s[3] * 256 + s[4]) + 2 <= 129
  <2>1. \A x, y \in Byte : x * 256 + y \in Nat
    BY DEF Byte
  <2>2. s[3] * 256 + s[4] \in Nat
    BY <1>3, <2>1
  <2>3. TopicLen(p) = s[3] * 256 + s[4]
    BY <1>3 DEF TopicLen
  <2> DEFINE len == s[3] * 256 + s[4]
  <2> HIDE DEF len
  <2>4. len \in Nat /\ TopicLen(p) = len
    BY <2>2, <2>3 DEF len
  <2>5. 4 + len + 2 <= 129
    BY <1>1, <1>2, <2>4
  <2>6. QED
    BY <2>5 DEF len
<1>8. s[3] = 0
  BY <1>3, <1>5, <1>7
<1>9. PublishAt(s, 1)
  BY <1>1, <1>6, <1>8 DEF PublishAt
<1>10. 1 \in 1 .. Len(s) - 3
  BY <1>1
<1>11. QED
  BY <1>9, <1>10 DEF Starts

\* The front packet is the downlink that its number says.
LEMMA FrontDownlink ==
  ASSUME NEW s \in Seq(Byte), NEW n \in Byte, NEW text \in Texts,
         Spells(s, 1, Downlink(n, text)), HasPacket(s), IsSound(Packet(s)), IsQos1(Packet(s))
  PROVE  IdOf(Packet(s)) = n /\ TextOf(Packet(s)) = text
<1> DEFINE d == Downlink(n, text)
           e == PacketEnd(s)
           p == Packet(s)
<1>1. /\ e = s[2] + 2 /\ e \in 4 .. 129 /\ e <= Len(s) /\ p \in Seq(Byte)
      /\ Len(p) = e /\ \A i \in 1 .. e : p[i] = s[i]
  BY ShortPacket
<1>2. IsDownlink(d, n, text)
  BY DownlinkBytes
<1>3. \A k \in 1 .. Len(d) : s[(1 - 1) + k] = d[k]
  BY DEF Spells
<1>4. IdLen(p) = 2
  BY DEF IdLen
<1> HIDE DEF d, e, p
<1>5. /\ Len(text) \in Nat /\ Len(d) = 7 + Len(text)
      /\ d[2] = Len(text) + 5 /\ d[3] = 0 /\ d[4] = 1 /\ d[6] = 0 /\ d[7] = n
      /\ \A i \in 1 .. Len(text) : d[7 + i] = text[i]
  BY <1>2 DEF IsDownlink
<1>6. \A k \in 1 .. Len(d) : s[k] = d[k]
  <2> TAKE k \in 1 .. Len(d)
  <2>1. (1 - 1) + k = k
    BY <1>5
  <2>2. QED
    BY <1>3, <2>1
<1>7. e = Len(d) /\ e \in Nat /\ Len(d) >= 7
  <2>1. 2 \in 1 .. Len(d)
    BY <1>5
  <2>2. QED
    BY <1>1, <1>5, <1>6, <2>1
<1>8. \A k \in 1 .. e : p[k] = d[k]
  BY <1>1, <1>6, <1>7
<1>9. p[3] = 0 /\ p[4] = 1 /\ p[6] = 0 /\ p[7] = n
  <2>1. 3 \in 1 .. e /\ 4 \in 1 .. e /\ 6 \in 1 .. e /\ 7 \in 1 .. e
    BY <1>7
  <2>2. QED
    BY <1>5, <1>8, <2>1, Zenon
<1>10. TopicLen(p) = 1
  BY <1>9 DEF TopicLen
<1>11. IdOf(p) = n
  <2>1. n \in Nat
    BY DEF Byte
  <2>2. 1 + 5 = 6 /\ 1 + 6 = 7 /\ 0 * 256 + n = n
    BY <2>1
  <2>3. QED
    BY <1>9, <1>10, <2>2, Zenon DEF IdOf
<1>12. TextOf(p) = text
  <2> DEFINE u == SubSeq(p, 8, Len(p))
  <2>1. /\ Len(p) = 7 + Len(text)
        /\ \A i \in 1 .. Len(text) : p[7 + i] = text[i]
    <3>1. \A i \in 1 .. Len(text) : 7 + i \in 1 .. e
      BY <1>5, <1>7
    <3>2. QED
      BY <1>1, <1>5, <1>7, <1>8, <3>1
  <2>2. TextOf(p) = u
    <3>1. 1 + 2 + 5 = 8
      OBVIOUS
    <3>2. QED
      BY <1>4, <1>10, <3>1 DEF TextOf
  <2>3. u \in Seq(Byte) /\ Len(u) = Len(text) /\ \A i \in 1 .. Len(text) : u[i] = p[7 + i]
    BY <1>1, <1>5, <2>1
  <2> HIDE DEF u
  <2>4. text \in Seq(1 .. 127)
    BY MqttAssumption
  <2>5. \A i \in 1 .. Len(text) : u[i] = text[i]
    BY <2>1, <2>3
  <2>6. u = text
    BY <2>3, <2>4, <2>5
  <2>7. QED
    BY <2>2, <2>6
<1>13. QED
  BY <1>11, <1>12 DEF p

\* Reading a downlink: the next of those sent, and what is left comes after it.
LEMMA NumberedRead ==
  ASSUME NEW s \in Seq(Byte), NEW ts \in Seq(Texts), Len(ts) \in Byte,
         NEW done, Numbered(s, ts, done),
         HasPacket(s), IsSound(Packet(s)), IsQos1(Packet(s))
  PROVE  LET n == IdOf(Packet(s))
         IN  /\ n \in DOMAIN ts /\ ts[n] = TextOf(Packet(s)) /\ \A j \in done : j < n
             /\ Numbered(After(s), ts, done \cup {n})
<1> DEFINE n == Number(s, 1)
           k == PacketEnd(s)
           t == Rest(s, k)
<1>1. 1 \in Starts(s)
  BY SoundStarts
<1>2. n \in DOMAIN ts /\ Spells(s, 1, Downlink(n, ts[n])) /\ \A j \in done : j < n
  BY <1>1 DEF Numbered, AsSent
<1>3. n \in Byte /\ ts[n] \in Texts
  <2>1. \A l \in Byte : \A m \in 1 .. l : m \in Byte
    BY DEF Byte
  <2>2. QED
    BY <1>2, <2>1, ElementOfSeq
<1>4. IdOf(Packet(s)) = n /\ TextOf(Packet(s)) = ts[n]
  BY <1>2, <1>3, FrontDownlink
<1>5. k \in Nat /\ k > 0 /\ After(s) = t
  <2>1. k \in 4 .. 129
    BY ShortPacket
  <2>2. After(s) = t
    BY PacketBytes DEF Rest
  <2> HIDE DEF k
  <2>3. k \in Nat /\ k > 0
    BY <2>1
  <2>4. QED
    BY <2>2, <2>3
<1>6. Numbered(t, ts, done) /\ \A i \in Starts(t) : i \in Nat /\ i > 0 /\ i + k \in Starts(s)
                                                  /\ Number(t, i) = Number(s, i + k)
  BY <1>5, NumberedCut, StartCut
<1>7. \A i \in Starts(t), j \in done \cup {n} : j < Number(t, i)
  <2> SUFFICES ASSUME NEW i \in Starts(t), NEW j \in done \cup {n} PROVE j < Number(t, i)
    OBVIOUS
  <2>1. CASE j \in done
    BY <1>6, <2>1 DEF Numbered
  <2>2. CASE j = n
    <3>1. i + k \in Starts(s) /\ 1 < i + k /\ Number(t, i) = Number(s, i + k)
      BY <1>5, <1>6
    <3>2. n < Number(s, i + k)
      BY <1>1, <3>1 DEF Numbered
    <3>3. QED
      BY <2>2, <3>1, <3>2
  <2>3. QED
    BY <2>1, <2>2
<1>8. Numbered(t, ts, done \cup {n})
  BY <1>6, <1>7 DEF Numbered
<1>9. QED
  BY <1>2, <1>4, <1>5, <1>8

\* What a step that applies nothing, and sends no downlink, may do to the stream.
StreamStep ==
  \/ stream' = stream \/ stream' = <<>>
  \/ \E k \in Nat : stream' = Rest(stream, k)
  \/ \E p \in Packets : stream' = stream \o ReplyTo(p)

LEMMA StreamSteps ==
  ASSUME TypeInv, [Next]_vars, ~\E t \in Texts : SendDownlink(t)
  PROVE  StreamStep
<1> USE DEF StreamStep
<1>1. stream \in Seq(Byte) /\ up \in Seq(Packets)
  BY DEF TypeInv, TypeOK, LinkTypeOK
<1>2. CASE UNCHANGED link \/ Dial \/ ReadNothing \/ LinkReset \/ \E why \in Reasons : Closed(why)
  BY <1>2 DEF link, Dial, ReadNothing, LinkReset, Closed
<1>3. CASE Flush \/ KeepAlivePasses \/ Ping
  BY <1>3 DEF Flush, KeepAlivePasses, Ping, Closed
<1>4. ASSUME HasPacket(stream), stream' = After(stream)
      PROVE  StreamStep
  BY <1>1, <1>4, PacketBytes DEF Rest
<1>5. CASE Accept
  <2>1. HasPacket(stream)
    BY <1>5 DEF Accept, Answered, Connack
  <2>2. QED
    BY <1>4, <1>5, <2>1 DEF Accept
<1>6. CASE Connected /\ HasPacket(stream) /\ ReadReply(Packet(stream))
  BY <1>4, <1>6 DEF ReadReply
<1>7. CASE WaitRaw
  <2>1. stream' = Rest(stream, 4)
    BY <1>7 DEF WaitRaw, Rest
  <2>2. QED
    BY <2>1
<1>8. CASE Broker
  <2>1. Head(up) \in Packets
    BY <1>1, <1>8 DEF Broker, BrokerReads
  <2>2. QED
    BY <1>8, <2>1 DEF Broker, BrokerReads
<1>9. QED
  BY <1>2, <1>3, <1>5, <1>6, <1>7, <1>8, LinkSteps

LEMMA RepliesFirm ==
  ASSUME NEW p \in Packets
  PROVE  /\ ReplyTo(p) \in Seq(Byte)
         /\ ReplyTo(p) = <<>> \/ (Firm(ReplyTo(p)) /\ Starts(ReplyTo(p)) = {})
<1>1. p.type \in {"SUBSCRIBE", "PUBLISH"} => p.id \in Byte
  BY DEF Packets
<1>2. QED
  BY <1>1, ReplyBytes, OthersFirm DEF ReplyTo

LEMMA NumberedStep ==
  ASSUME stream \in Seq(Byte), texts \in Seq(Texts), NEW done, Numbered(stream, texts, done),
         StreamStep
  PROVE  Numbered(stream', texts, done)
<1>1. CASE stream' = stream \/ stream' = <<>>
  BY <1>1, NumberedNothing
<1>2. CASE \E k \in Nat : stream' = Rest(stream, k)
  BY <1>2, NumberedCut
<1>3. CASE \E p \in Packets : stream' = stream \o ReplyTo(p)
  <2>1. PICK p \in Packets : stream' = stream \o ReplyTo(p)
    BY <1>3
  <2> DEFINE r == ReplyTo(p)
  <2>2. r \in Seq(Byte) /\ (r = <<>> \/ (Firm(r) /\ Starts(r) = {}))
    BY RepliesFirm
  <2> HIDE DEF r
  <2>3. CASE r = <<>>
    <3>1. stream \o <<>> = stream
      OBVIOUS
    <3>2. stream' = stream
      BY <2>1, <2>3, <3>1 DEF r
    <3>3. QED
      BY <3>2
  <2>4. CASE Firm(r) /\ Starts(r) = {}
    <3>1. Numbered(stream \o r, texts, done)
      BY <2>2, <2>4, NumberedPlain
    <3>2. QED
      BY <2>1, <3>1 DEF r
  <2>5. QED
    BY <2>2, <2>3, <2>4
<1>4. QED
  BY <1>1, <1>2, <1>3 DEF StreamStep

\* What DownlinksInOrder says of a step.
OrderStep ==
  \A i \in applied' \ applied :
    /\ i \in DOMAIN texts /\ \A j \in applied : j < i
    /\ texts[i] = TextOf(Packet(stream))

LEMMA OrderInvNext ==
  ASSUME TypeInv, OrderInv, [Next]_vars
  PROVE  OrderInv' /\ OrderStep
<1>1. /\ stream \in Seq(Byte) /\ texts \in Seq(Texts) /\ Len(texts) \in Byte
      /\ Numbered(stream, texts, applied) /\ applied \subseteq DOMAIN texts
  <2>1. /\ stream \in Seq(Byte) /\ texts \in Seq(Texts) /\ Len(texts) \in Nat
        /\ Len(texts) <= events /\ events \in 0 .. MaxEvents
    BY DEF TypeInv, TypeOK, LinkTypeOK, RoomInv
  <2>2. \A n \in Nat : \A e \in 0 .. MaxEvents : n <= e => n \in Byte
    BY SyncAssumption DEF Byte
  <2>3. QED
    BY <2>1, <2>2 DEF OrderInv
<1>2. CASE \E t \in Texts : SendDownlink(t)
  <2>1. PICK t \in Texts : SendDownlink(t)
    BY <1>2
  <2>2. /\ texts' = Append(texts, t) /\ Len(texts') \in Byte
        /\ stream' = stream \o Downlink(Len(texts'), t)
        /\ applied' = applied
    BY <2>1, TextsCounted DEF SendDownlink, BrokerRest, OthersOnly
  <2>3. Numbered(stream \o Downlink(Len(Append(texts, t)), t), Append(texts, t), applied)
    BY <1>1, <2>2, NumberedSend
  <2>4. applied \subseteq DOMAIN Append(texts, t)
    BY <1>1
  <2>5. QED
    BY <2>2, <2>3, <2>4 DEF OrderInv, OrderStep
<1>3. CASE ~\E t \in Texts : SendDownlink(t)
  <2>1. texts' = texts
    BY <1>3, TextsKept
  <2>2. CASE applied' = applied
    <3>1. Numbered(stream', texts, applied)
      BY <1>1, <1>3, StreamSteps, NumberedStep
    <3>2. QED
      BY <1>1, <2>1, <2>2, <3>1 DEF OrderInv, OrderStep
  <2>3. CASE /\ HasPacket(stream) /\ applied' = AppliedWith(Packet(stream))
             /\ stream' = After(stream) \/ stream' = <<>>
             /\ applied' # applied
    <3> DEFINE n == IdOf(Packet(stream))
    <3>1. IsSound(Packet(stream)) /\ IsQos1(Packet(stream)) /\ applied' = applied \cup {n}
      BY <2>3 DEF AppliedWith
    <3>2. /\ n \in DOMAIN texts /\ texts[n] = TextOf(Packet(stream)) /\ \A j \in applied : j < n
          /\ Numbered(After(stream), texts, applied \cup {n})
      BY <1>1, <2>3, <3>1, NumberedRead
    <3> HIDE DEF n
    <3>3. Numbered(stream', texts, applied')
      BY <2>3, <3>1, <3>2, NumberedNothing
    <3>4. OrderStep
      BY <3>1, <3>2 DEF OrderStep
    <3>5. QED
      BY <1>1, <2>1, <3>1, <3>2, <3>3, <3>4 DEF OrderInv
  <2>4. QED
    BY <2>2, <2>3, DownlinksRead DEF ReadsOne
<1>4. QED
  BY <1>2, <1>3

LEMMA OrderInvInit == Init => OrderInv
<1> SUFFICES ASSUME Init PROVE OrderInv
  OBVIOUS
<1>1. stream = <<>> /\ applied = {}
  BY DEF Init, LinkInit
<1>2. QED
  BY <1>1, NumberedNothing DEF OrderInv

\* readPacket and sync_process_downlink: wherever the four-byte reads of the PUBACK
\* wait have cut the stream, what is read as a downlink is one that was sent, whole,
\* and later than those applied; no rest of a packet, and no piece of two, is taken
\* for one.  Restarts and reads given up half way only lose downlinks.
THEOREM DownlinksStayInOrder == Spec => DownlinksInOrder
<1>1. Init => TypeInv /\ OrderInv
  BY TypeInvInit, OrderInvInit
<1>2. TypeInv /\ OrderInv /\ [Next]_vars => (TypeInv /\ OrderInv)'
  BY TypeInvNext, OrderInvNext
<1>3. TypeInv /\ OrderInv /\ [Next]_vars =>
        [ \A i \in applied' \ applied :
            /\ i \in DOMAIN texts /\ \A j \in applied : j < i
            /\ texts[i] = TextOf(Packet(stream)) ]_vars
  BY OrderInvNext DEF OrderStep
<1>4. QED
  BY <1>1, <1>2, <1>3, PTL DEF Spec, DownlinksInOrder
=============================================================================
