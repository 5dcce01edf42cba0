---------------------------- MODULE MqttClient ----------------------------
(***************************************************************************)
(* The MQTT connection over Wi-Fi: PubSubClient at one end of a byte       *)
(* stream, the broker at the other.  What the broker sends is modelled     *)
(* byte by byte, because two readers share it: PubSubClient::readPacket    *)
(* and the four-byte reads of _wifi_wait_for_puback (SyncTask).            *)
(*                                                                         *)
(* The operators here are the pieces of PubSubClient that SyncTask calls;  *)
(* they say what becomes of the variables below.  Simplifications:         *)
(*  - what the client sends is a queue of packets, written at once;        *)
(*  - topics have one character, and a downlink is short enough for one    *)
(*    length byte; identifiers of the broker fit one byte too;             *)
(*  - the reasons of a lost connection are told apart only where the code  *)
(*    does.                                                                *)
(***************************************************************************)
EXTENDS Naturals, Sequences, SequencesExt

CONSTANTS
  MsgIds,   \* 1 .. the last value of the 16-bit packet identifiers
  Texts     \* the texts of downlinks, as byte sequences

ASSUME MqttAssumption ==
  /\ \E n \in 1 .. 255 : MsgIds = 1 .. n
  /\ \A t \in Texts : t \in Seq(1 .. 127) /\ Len(t) + 5 < 128

VARIABLES
  tcp,         \* the connection is up
  session,     \* _state: "connected", or why not
  up,          \* packets on the way to the broker
  stream,      \* bytes from the broker that nobody has read
  pinged,      \* pingOutstanding
  quietIn,     \* keepAlive has passed since lastInActivity
  quietOut,    \* ... since lastOutActivity
  silent       \* keepAlives since the broker last heard the client, 2 at most

Byte == 0 .. 255

link == <<tcp, session, up, stream, pinged, quietIn, quietOut, silent>>

Packets ==
  [type : {"CONNECT", "STATUS", "PINGREQ", "PINGRESP", "DISCONNECT"}]
    \cup [type : {"SUBSCRIBE", "PUBLISH"}, id : Byte]
    \cup [type : {"PUBACK"}, id : Nat]

\* _state, as far as the code tells the reasons apart.
States == {"disconnected", "connected", "lost", "timeout"}

LinkTypeOK ==
  /\ tcp \in BOOLEAN
  /\ session \in States
  /\ up \in Seq(Packets) /\ stream \in Seq(Byte)
  /\ pinged \in BOOLEAN /\ quietIn \in BOOLEAN /\ quietOut \in BOOLEAN
  /\ silent \in 0 .. 2
  /\ ~tcp => up = <<>> /\ stream = <<>>
  /\ session = "connected" => tcp

LinkInit ==
  /\ tcp = FALSE /\ session = "disconnected"
  /\ up = <<>> /\ stream = <<>>
  /\ pinged = FALSE /\ quietIn = FALSE /\ quietOut = FALSE /\ silent = 0

\* The terminal restarts: a new object, and the broker's end is dead.
LinkReset ==
  /\ tcp' = FALSE /\ session' = "disconnected"
  /\ up' = <<>> /\ stream' = <<>>
  /\ pinged' = FALSE /\ quietIn' = FALSE /\ quietOut' = FALSE /\ silent' = 0

---------------------------------------------------------------------------
\* Packets of the broker, as bytes.

Connack     == <<32, 2, 0, 0>>
Pingresp    == <<208, 0>>
Suback(id)  == <<144, 3, 0, id, 1>>
Puback(id)  == <<64, 2, 0, id>>
Downlink(id, text) == <<50, Len(text) + 5, 0, 1, 99, 0, id>> \o text

\* readPacket: a type, a length of up to four bytes of seven bits, and as many
\* bytes as it says.
LengthEnds(s) == { k \in 2 .. 5 : k <= Len(s) /\ s[k] < 128
                                  /\ \A j \in 2 .. k - 1 : s[j] >= 128 }
HasLength(s)  == LengthEnds(s) # {}
LengthEnd(s)  == CHOOSE k \in LengthEnds(s) : TRUE
BadLength(s)  == Len(s) >= 5 /\ \A j \in 2 .. 5 : s[j] >= 128

PacketEnd(s) ==
  LET digit(k, weight) == IF k <= LengthEnd(s) THEN (s[k] % 128) * weight ELSE 0
  IN  LengthEnd(s) + digit(2, 1) + digit(3, 128) + digit(4, 16384) + digit(5, 2097152)

HasPacket(s) == HasLength(s) /\ Len(s) >= PacketEnd(s)
Packet(s)    == SubSeq(s, 1, PacketEnd(s))
After(s)     == SubSeq(s, PacketEnd(s) + 1, Len(s))

PacketType(p) == p[1] \div 16

\* A PUBLISH: topic, identifier (QoS 1 only) and text by the lengths that the
\* packet gives.  What is no PUBLISH, but is read as one, may give lengths
\* beyond its end.
IsPublish(p)  == PacketType(p) = 3
IsQos1(p)     == IsPublish(p) /\ (p[1] % 8) \div 2 = 1
TopicLen(p)   == p[3] * 256 + p[4]
\* A mutant: the identifier is taken for text.
NoIdLen(p)    == 0
IdLen(p)      == IF IsQos1(p) THEN 2 ELSE 0
IsSound(p)    == p[2] < 128 /\ Len(p) >= 4 /\ 4 + TopicLen(p) + IdLen(p) <= Len(p)
TextOf(p)     == SubSeq(p, TopicLen(p) + IdLen(p) + 5, Len(p))
IdOf(p)       == p[TopicLen(p) + 5] * 256 + p[TopicLen(p) + 6]

---------------------------------------------------------------------------
\* The client.

Connected == tcp /\ session = "connected"

\* The connection closes, by either side: nothing on it is read any more.
Closed(why) ==
  /\ tcp' = FALSE /\ session' = why /\ up' = <<>> /\ stream' = <<>>
  /\ UNCHANGED <<pinged, quietIn, quietOut, silent>>

\* connect: a new TCP connection, and CONNECT on it, with a clean session.
Dial ==
  /\ ~Connected
  /\ tcp' = TRUE /\ session' = "disconnected"
  /\ up' = <<[type |-> "CONNECT"]>> /\ stream' = <<>>
  /\ quietIn' = FALSE /\ quietOut' = FALSE /\ silent' = 0
  /\ UNCHANGED pinged

\* connect, once there are bytes: a CONNACK, or the connection is closed.
Answered(s) == IF HasPacket(s) THEN Packet(s) ELSE <<>>

\* The status message, QoS 0; and the subscription, which has the second
\* identifier, as connect sets nextMsgId to 1.
Status       == [type |-> "STATUS"]
Subscription == [type |-> "SUBSCRIBE", id |-> 2]

\* Both follow at once (_mqtt_connect_wifi).
Accept ==
  /\ Answered(stream) = Connack
  /\ session' = "connected"
  /\ stream' = After(stream)
  /\ up' = up \o <<Status, Subscription>>
  /\ pinged' = FALSE /\ quietIn' = FALSE /\ quietOut' = FALSE
  /\ UNCHANGED <<tcp, silent>>

\* write: a packet of the client.
Sent(p) == up' = Append(up, p)

\* loop, first half: nothing said or heard for a keepAlive.
Quiet == quietIn \/ quietOut

Ping ==
  /\ Connected /\ Quiet
  /\ IF pinged
       THEN Closed("timeout")
       ELSE /\ Sent([type |-> "PINGREQ"]) /\ pinged' = TRUE
            /\ quietIn' = FALSE /\ quietOut' = FALSE
            /\ UNCHANGED <<tcp, session, stream, silent>>

\* loop, second half: one packet.  The callback of a downlink is SyncTask's.
ReadReply(p) ==
  /\ stream' = After(stream) /\ quietIn' = FALSE
  /\ CASE IsQos1(p) ->
            /\ quietOut' = FALSE /\ UNCHANGED pinged
            /\ Sent([type |-> "PUBACK", id |-> IF IsSound(p) THEN IdOf(p) ELSE 0])
       [] PacketType(p) = 12 ->
            Sent([type |-> "PINGRESP"]) /\ UNCHANGED <<pinged, quietOut>>
       [] PacketType(p) = 13 ->
            pinged' = FALSE /\ UNCHANGED <<up, quietOut>>
       [] OTHER -> UNCHANGED <<up, pinged, quietOut>>
  /\ UNCHANGED <<tcp, session, silent>>

\* readByte gave up in the middle of a packet: what was read is gone.
ReadNothing ==
  /\ stream' = <<>>
  /\ UNCHANGED <<tcp, session, up, pinged, quietIn, quietOut, silent>>

---------------------------------------------------------------------------
\* The broker and the network.

\* The broker's answer to the first packet on its way.
ReplyTo(p) ==
  CASE p.type = "CONNECT"   -> Connack
    [] p.type = "SUBSCRIBE" -> Suback(p.id)
    [] p.type = "PUBLISH"   -> Puback(p.id)
    [] p.type = "PINGREQ"   -> Pingresp
    [] OTHER                -> <<>>

BrokerReads ==
  /\ tcp /\ up # <<>>
  /\ stream' = stream \o ReplyTo(Head(up)) /\ up' = Tail(up)
  /\ silent' = 0
  /\ UNCHANGED <<tcp, session, pinged, quietIn, quietOut>>

\* One and a half keepAlives without a packet: the broker closes.
BrokerDrops == tcp /\ silent = 2 /\ Closed("lost")

KeepAlivePasses ==
  /\ quietIn' = TRUE /\ quietOut' = TRUE
  /\ silent' = IF tcp /\ silent < 2 THEN silent + 1 ELSE silent
  /\ UNCHANGED <<tcp, session, up, stream, pinged>>
=============================================================================
