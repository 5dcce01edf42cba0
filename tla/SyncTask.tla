----------------------------- MODULE SyncTask -----------------------------
(***************************************************************************)
(* The loop of sync_task (Core 1): which bearer a pass uses, the MQTT      *)
(* session over Wi-Fi with its PUBACK wait, the failure counters, the net  *)
(* mode, and the downlinks that arrive on the way.  TxLedger has the log   *)
(* line by line; here it is the number of lines.                           *)
(*                                                                         *)
(* A step is one call that reads or writes shared state, the connection or *)
(* the stream.  Simplifications:                                           *)
(*  - time passes in keepAlives (15 s), only while Core 1 waits; the other *)
(*    time-outs are guards on what can still come;                         *)
(*  - a GSM session is one step: the AT dialogue works or fails, and the   *)
(*    lines are acknowledged or not;                                       *)
(*  - SYNC_INTERVAL_MS may have passed at any pass.                        *)
(***************************************************************************)
EXTENDS MqttClient

CONSTANTS
  WifiLimit,    \* wifi_fails at which AUTO flips to GSM, 6
  GsmLimit,     \* gsm_fails at which AUTO flips back, 3
  FailWrap,     \* 256, the width of both counters
  MaxEvents     \* bound: taps, downlinks, presses of key A, times that Wi-Fi or
                \* GSM come or go, late and bunched answers, heap refusals and
                \* losses of power, together

ASSUME SyncAssumption ==
  /\ WifiLimit \in 1 .. FailWrap - 1 /\ GsmLimit \in 1 .. FailWrap - 1
  /\ FailWrap \in Nat
  /\ MaxEvents \in Byte

Modes  == 0 .. 2   \* NET_MODE_AUTO, NET_MODE_WIFI, NET_MODE_GSM
NoMode == 3

VARIABLES
  netMode,    \* netmode.dat
  keyMode,    \* the mode that key A has read and not yet replaced
  notified,   \* the task notification
  fill,       \* lines of tx.log
  \* Core 1
  pc, back, cur, mode, sync, wifiFails, gsmFails, msgId, chunk,
  \* the networks and the broker's side
  wifi, gsm, subscribed,
  \* history: the program keeps none of these
  delivered,  \* the broker has the message that Core 1 waits for
  wifiBad,    \* Wi-Fi failures in a row, in AUTO's present stay on Wi-Fi or before
  gsmBad,     \* GSM failures in a row
  texts,      \* the downlinks sent to the subscribed client
  applied,    \* the identifiers of those processed
  events

core0   == <<keyMode>>
shared  == <<netMode, notified, fill>>
core1   == <<pc, back, cur, mode, sync, wifiFails, gsmFails, msgId, chunk>>
net     == <<wifi, gsm, subscribed>>
history == <<delivered, wifiBad, gsmBad, texts, applied>>
vars    == <<link, core0, shared, core1, net, history, events>>

LoopPcs == {"loop1", "waitloop", "loop2"}
Pcs == LoopPcs \cup {"poll", "mode", "wifi", "connack", "flush", "stall", "wait",
                     "acked", "ota", "gsm"}

TypeOK ==
  /\ LinkTypeOK
  /\ netMode \in Modes /\ keyMode \in Modes \cup {NoMode}
  /\ notified \in BOOLEAN /\ fill \in Nat
  /\ pc \in Pcs /\ back \in LoopPcs /\ cur \in {"wifi", "gsm"} /\ mode \in Modes
  /\ sync \in BOOLEAN
  /\ wifiFails \in 0 .. FailWrap - 1 /\ gsmFails \in 0 .. FailWrap - 1
  /\ msgId \in MsgIds /\ chunk \in 0 .. fill
  /\ wifi \in BOOLEAN /\ gsm \in BOOLEAN /\ subscribed \in BOOLEAN
  /\ delivered \in BOOLEAN
  /\ wifiBad \in 0 .. WifiLimit /\ gsmBad \in 0 .. GsmLimit
  /\ texts \in Seq(Texts) /\ applied \subseteq Nat
  /\ events \in 0 .. MaxEvents

Init ==
  /\ LinkInit
  /\ netMode = 0 /\ keyMode = NoMode
  /\ notified = FALSE /\ fill = 0
  /\ pc = "poll" /\ back = "loop1" /\ cur = "wifi" /\ mode = 0
  /\ sync = FALSE
  /\ wifiFails = 0 /\ gsmFails = 0 /\ msgId = 1 /\ chunk = 0
  /\ wifi \in BOOLEAN /\ gsm \in BOOLEAN /\ subscribed = FALSE
  /\ delivered = FALSE /\ wifiBad = 0 /\ gsmBad = 0
  /\ texts = <<>> /\ applied = {}
  /\ events = 0

\* The budget of what need not happen.
Event == events < MaxEvents /\ events' = events + 1

Core1At(p) == pc = p
Core1Only  == UNCHANGED <<netMode, core0, net, texts>>
To(p)      == pc' = p

---------------------------------------------------------------------------
\* A pass of the loop: trigger, interval, lines and mode decide what it does.

\* A mutant: the first pass decides for good.
ForcedOnce(m) == cur

Forced(m) == CASE m = 1 -> "wifi" [] m = 2 -> "gsm" [] OTHER -> cur

\* Otherwise a pass changes nothing, and is left out.
HasWork ==
  \/ notified \/ fill > 0 \/ Forced(netMode) # cur
  \/ (cur = "wifi" /\ ~Connected)

TakeTrigger ==
  /\ Core1At("poll")
  /\ sync' \in {TRUE, notified} /\ (sync' \/ HasWork)
  /\ notified' = FALSE
  /\ To("mode")
  /\ Core1Only
  /\ UNCHANGED <<link, fill, back, cur, mode, wifiFails, gsmFails,
                 msgId, chunk, delivered, wifiBad, gsmBad, applied, events>>

ReadMode ==
  /\ Core1At("mode")
  /\ sync' = (sync \/ fill > 0) /\ mode' = netMode /\ cur' = Forced(netMode)
  /\ To(CASE cur' = "wifi" /\ (sync' \/ ~Connected) -> "wifi"
           [] cur' = "gsm" /\ sync' -> "gsm"
           [] OTHER -> "poll")
  /\ Core1Only
  /\ UNCHANGED <<link, notified, fill, back, wifiFails, gsmFails,
                 msgId, chunk, delivered, wifiBad, gsmBad, applied, events>>

---------------------------------------------------------------------------
\* Wi-Fi: connect.

WifiRest == UNCHANGED <<notified, fill, back, mode, sync, msgId,
                        chunk, delivered, applied>>

\* A mutant: only a flip clears the counter.
WifiWorksUncounted == UNCHANGED wifiFails /\ wifiBad' = 0

WifiWorks == wifiFails' = 0 /\ wifiBad' = 0

\* The history counts up to the limit.
Capped(n, limit) == IF n < limit THEN n + 1 ELSE n

\* A mutant: AUTO stays on Wi-Fi.
WifiFailedStays ==
  /\ wifiFails' = (wifiFails + 1) % FailWrap /\ wifiBad' = Capped(wifiBad, WifiLimit)
  /\ UNCHANGED <<cur, gsmFails, gsmBad>>
  /\ To("poll")

WifiFailed ==
  /\ wifiFails' = (wifiFails + 1) % FailWrap /\ wifiBad' = Capped(wifiBad, WifiLimit)
  /\ IF wifiFails' >= WifiLimit /\ mode = 0
       THEN cur' = "gsm" /\ gsmFails' = 0 /\ gsmBad' = 0
       ELSE UNCHANGED <<cur, gsmFails, gsmBad>>
  /\ To("poll")

WifiConnected ==
  /\ Core1At("wifi") /\ Connected
  /\ WifiWorks /\ To("loop1")
  /\ Core1Only /\ WifiRest /\ UNCHANGED <<link, cur, gsmFails, gsmBad, events>>

WifiDial ==
  /\ Core1At("wifi") /\ ~Connected /\ wifi
  /\ Dial
  /\ To("connack")
  /\ Core1Only /\ WifiRest
  /\ UNCHANGED <<cur, wifiFails, gsmFails, wifiBad, gsmBad, events>>

NoAccessPoint == ~wifi /\ UNCHANGED events

\* Too little heap for TLS.
HeapShort == Event

WifiRefused ==
  /\ Core1At("wifi") /\ ~Connected
  /\ NoAccessPoint \/ HeapShort
  /\ WifiFailed
  /\ Core1Only /\ WifiRest /\ UNCHANGED link

ConnackRead ==
  /\ Core1At("connack") /\ Accept
  /\ WifiWorks /\ To("loop1")
  /\ Core1Only /\ WifiRest /\ UNCHANGED <<cur, gsmFails, gsmBad, events>>

ConnackTimeout ==
  /\ Core1At("connack")
  /\ \/ ~tcp /\ UNCHANGED events
     \/ Event
  /\ Closed("timeout")
  /\ WifiFailed
  /\ Core1Only /\ WifiRest

---------------------------------------------------------------------------
\* Wi-Fi: s_mqtt.loop(), before and after the flush and inside the PUBACK wait.

LoopRest == UNCHANGED <<notified, fill, cur, mode, sync, wifiFails,
                        gsmFails, msgId, chunk, delivered, wifiBad, gsmBad>>

AfterLoop(p) == CASE p = "loop1" -> "flush" [] p = "waitloop" -> "wait" [] p = "loop2" -> "poll"

LoopPing ==
  /\ pc \in LoopPcs /\ Ping
  /\ Core1Only /\ LoopRest /\ UNCHANGED <<pc, back, applied, events>>

LoopReturn ==
  /\ pc \in LoopPcs
  /\ ~Connected \/ (~Quiet /\ stream = <<>>)
  /\ To(AfterLoop(pc))
  /\ Core1Only /\ LoopRest /\ UNCHANGED <<link, back, applied, events>>

\* sync_process_downlink; SYS:NET is the text <<78, 48 + mode>>.  Garbage that
\* lies about its lengths leads to reads beyond the buffer; here it is dropped.
AppliedWith(p) == IF IsSound(p) /\ IsQos1(p) THEN applied \cup {IdOf(p)} ELSE applied

Apply(p) ==
  /\ applied' = AppliedWith(p)
  /\ netMode' = IF IsSound(p) /\ TextOf(p) \in { <<78, 48 + m>> : m \in Modes }
                  THEN TextOf(p)[2] - 48
                  ELSE netMode

\* SYS:OTA, the text <<79>>: the callback runs the update before it returns.
IsOta(p) == IsPublish(p) /\ IsSound(p) /\ TextOf(p) = <<79>>

OtaBegins(from) ==
  /\ Connected /\ HasPacket(stream) /\ IsOta(Packet(stream))
  /\ pc' = "ota" /\ back' = from
  /\ Core1Only /\ LoopRest /\ UNCHANGED <<link, applied, events>>

ReadPacket(from) ==
  /\ Connected /\ HasPacket(stream) /\ (IsOta(Packet(stream)) => pc = "ota")
  /\ LET p == Packet(stream)
     IN  /\ ReadReply(p)
         /\ IF IsPublish(p) THEN Apply(p) ELSE UNCHANGED <<applied, netMode>>
  /\ To(AfterLoop(from))
  /\ LoopRest /\ UNCHANGED <<core0, net, texts, back, events>>

\* Four length bytes and still no end: the connection is closed.
ReadBadLength(from) ==
  /\ Connected /\ ~HasPacket(stream) /\ BadLength(stream)
  /\ Closed("disconnected")
  /\ To(AfterLoop(from))
  /\ Core1Only /\ LoopRest /\ UNCHANGED <<back, applied, events>>

LoopRead ==
  /\ pc \in LoopPcs /\ ~Quiet /\ stream # <<>>
  /\ \/ ReadPacket(pc)
     \/ OtaBegins(pc)
     \/ ReadBadLength(pc)
     \/ /\ Connected /\ ~HasPacket(stream) /\ ~BadLength(stream)
        /\ pc' = "stall" /\ back' = pc
        /\ Core1Only /\ LoopRest /\ UNCHANGED <<link, applied, events>>

\* The rest of a packet that has begun is waited for, byte by byte.
StallEnds ==
  /\ Core1At("stall")
  /\ ReadPacket(back) \/ OtaBegins(back) \/ ReadBadLength(back)

ReadTimeout ==
  /\ Core1At("stall") /\ ~HasPacket(stream)
  /\ \/ up = <<>> /\ UNCHANGED events
     \/ up # <<>> /\ Event
  /\ ReadNothing
  /\ To(AfterLoop(back))
  /\ Core1Only /\ LoopRest /\ UNCHANGED <<back, applied>>

---------------------------------------------------------------------------
\* Restarts, and the firmware update that ends with one.

\* What is in RAM is as at boot, what is in a file stays, and so does history.
Restarted ==
  /\ LinkReset
  /\ keyMode' = NoMode /\ notified' = FALSE
  /\ pc' = "poll" /\ back' = "loop1" /\ cur' = "wifi" /\ mode' = 0
  /\ sync' = FALSE
  /\ wifiFails' = 0 /\ gsmFails' = 0 /\ msgId' = 1 /\ chunk' = 0
  /\ delivered' = FALSE /\ wifiBad' = 0 /\ gsmBad' = 0
  /\ UNCHANGED <<netMode, fill, net, texts>>

PowerLoss == Event /\ Restarted /\ UNCHANGED applied

\* _handle_ota restarts inside s_mqtt.loop(): the downlink is never acknowledged.
OtaDone ==
  /\ Core1At("ota") /\ wifi
  /\ applied' = IF HasPacket(stream) THEN AppliedWith(Packet(stream)) ELSE applied
  /\ Restarted
  /\ UNCHANGED events

\* Heap or Wi-Fi are short, the server has no update, or it breaks off.
OtaWithout == Core1At("ota") /\ ReadPacket(back)

\* The connection was lost on the way.
OtaAlone ==
  /\ Core1At("ota") /\ ~Connected
  /\ To(AfterLoop(back))
  /\ Core1Only /\ LoopRest /\ UNCHANGED <<link, back, applied, events>>

---------------------------------------------------------------------------
\* Wi-Fi: flush and PUBACK wait.

FlushRest == UNCHANGED <<notified, back, cur, mode, sync, wifiFails,
                         gsmFails, wifiBad, gsmBad, applied>>

\* A mutant: the identifier 0 is not skipped.
NextMsgIdZero(id) == IF id + 1 \in MsgIds THEN id + 1 ELSE 0

NextMsgId(id) == IF id + 1 \in MsgIds THEN id + 1 ELSE 1

\* The write goes past PubSubClient, which does not count it as activity.
Flush ==
  /\ Core1At("flush") /\ sync
  /\ IF fill > 0
       THEN /\ msgId' = NextMsgId(msgId) /\ delivered' = FALSE
            /\ IF tcp
                 THEN /\ Sent([type |-> "PUBLISH", id |-> msgId])
                      /\ chunk' = fill /\ To("wait")
                 ELSE UNCHANGED <<up, chunk>> /\ To("loop2")
       ELSE UNCHANGED <<msgId, delivered, up, chunk>> /\ To("loop2")
  /\ Core1Only /\ FlushRest
  /\ UNCHANGED <<tcp, session, stream, pinged, quietIn, quietOut, silent, fill,
                 events>>

NoFlush ==
  /\ Core1At("flush") /\ ~sync
  /\ To("loop2")
  /\ Core1Only /\ FlushRest
  /\ UNCHANGED <<link, fill, msgId, chunk, delivered, events>>

\* The message just published.
CurrentId == IF msgId = 1 THEN CHOOSE n \in MsgIds : n + 1 \notin MsgIds ELSE msgId - 1

\* A mutant: any PUBACK will do.
IsAckAny(four) == four[1] \in 64 .. 79 /\ four[2] = 2

IsAck(four) ==
  four[1] \in 64 .. 79 /\ four[2] = 2 /\ four[3] * 256 + four[4] = CurrentId

\* Four bytes, whatever they are.
WaitRaw ==
  /\ Core1At("wait") /\ Len(stream) >= 4
  /\ To(IF IsAck(SubSeq(stream, 1, 4)) THEN "acked" ELSE "waitloop")
  /\ stream' = SubSeq(stream, 5, Len(stream))
  /\ Core1Only /\ FlushRest
  /\ UNCHANGED <<tcp, session, up, pinged, quietIn, quietOut, silent, fill, msgId,
                 chunk, delivered, events>>

\* Fewer than four bytes: s_mqtt.loop() has its turn.  With none it finds
\* nothing, unless the answer arrives between the two looks.
WaitTurn ==
  /\ Core1At("wait") /\ Len(stream) < 4
  /\ IF Connected /\ (stream # <<>> \/ Quiet) THEN UNCHANGED events ELSE Event
  /\ To("waitloop")
  /\ Core1Only /\ FlushRest
  /\ UNCHANGED <<link, fill, msgId, chunk, delivered>>

AckComing ==
  \/ [type |-> "PUBLISH", id |-> CurrentId] \in Range(up)
  \/ \E i \in 1 .. Len(stream) - 3 : SubSeq(stream, i, i + 3) = Puback(CurrentId)

AckTimeout ==
  /\ Core1At("wait")
  /\ IF AckComing THEN Event ELSE UNCHANGED events
  /\ chunk' = 0 /\ To("loop2")
  /\ Core1Only /\ FlushRest /\ UNCHANGED <<link, fill, msgId, delivered>>

Acked ==
  /\ Core1At("acked")
  /\ fill' = fill - chunk /\ chunk' = 0 /\ To("loop2")
  /\ Core1Only /\ FlushRest /\ UNCHANGED <<link, msgId, delivered, events>>

---------------------------------------------------------------------------
\* GSM: a session from wake to sleep.

GsmRest == UNCHANGED <<notified, back, mode, sync, wifiFails, msgId,
                       delivered, applied>>

\* The same client identifier: the broker closes what is left of the Wi-Fi session.
GsmSession ==
  /\ Core1At("gsm") /\ gsm
  /\ gsmFails' = 0 /\ gsmBad' = 0
  /\ IF tcp THEN Closed("lost") ELSE UNCHANGED link
  /\ \/ fill' = 0 /\ UNCHANGED events
     \/ Event /\ UNCHANGED fill
  /\ To("poll")
  /\ Core1Only /\ GsmRest /\ UNCHANGED <<cur, chunk, wifiBad>>

GsmFailed ==
  /\ Core1At("gsm")
  /\ IF gsm THEN Event ELSE UNCHANGED events
  /\ gsmFails' = (gsmFails + 1) % FailWrap /\ gsmBad' = Capped(gsmBad, GsmLimit)
  /\ IF gsmFails' >= GsmLimit /\ mode = 0
       THEN cur' = "wifi" /\ wifiFails' = 0 /\ wifiBad' = 0
       ELSE UNCHANGED <<cur, wifiFails, wifiBad>>
  /\ To("poll")
  /\ Core1Only
  /\ UNCHANGED <<link, notified, fill, back, mode, sync, msgId, chunk,
                 delivered, applied>>

---------------------------------------------------------------------------
\* Core 0, the networks, the backend and time.

OthersOnly == UNCHANGED <<core1, wifiBad, gsmBad, applied>>

Tap ==
  /\ Event
  /\ fill' = fill + 1 /\ notified' = TRUE
  /\ OthersOnly
  /\ UNCHANGED <<link, netMode, keyMode, net, delivered, texts>>

\* sm_cycle_net_mode reads the file, then writes it.
KeyRead ==
  /\ keyMode = NoMode /\ Event
  /\ keyMode' = netMode
  /\ OthersOnly /\ UNCHANGED <<link, shared, net, delivered, texts>>

KeyWrite ==
  /\ keyMode # NoMode
  /\ netMode' = (keyMode + 1) % 3 /\ keyMode' = NoMode
  /\ OthersOnly
  /\ UNCHANGED <<link, notified, fill, net, delivered, texts, events>>

NetRest == OthersOnly /\ UNCHANGED <<netMode, fill, core0, subscribed, delivered,
                                       texts>>

\* An address obtained triggers a sync.
WifiComes ==
  /\ ~wifi /\ Event /\ wifi' = TRUE /\ notified' = TRUE
  /\ NetRest /\ UNCHANGED <<link, gsm>>

WifiGoes ==
  /\ wifi /\ Event /\ wifi' = FALSE
  /\ IF tcp THEN Closed("lost") ELSE UNCHANGED link
  /\ NetRest /\ UNCHANGED <<notified, gsm>>

GsmChange ==
  /\ Event /\ gsm' = ~gsm
  /\ NetRest /\ UNCHANGED <<link, notified, wifi>>

BrokerRest == OthersOnly /\ UNCHANGED <<shared, core0, wifi, gsm>>

\* Core 1 has nothing to do, or waits for bytes.
Waiting ==
  \/ pc = "wait" /\ Len(stream) < 4
  \/ pc = "stall" /\ ~HasPacket(stream)
  \/ pc = "ota"
  \/ pc = "poll" /\ ~HasWork

\* Answers reach a client that reads one by one, or, if the network delays the
\* first, together.
Bunched == HasPacket(stream) /\ ~(pc = "poll" /\ ~HasWork)

Broker ==
  /\ BrokerReads
  /\ IF Bunched /\ ReplyTo(Head(up)) # <<>> THEN Event ELSE UNCHANGED events
  /\ subscribed' = CASE Head(up).type = "CONNECT"   -> FALSE
                     [] Head(up).type = "SUBSCRIBE" -> TRUE
                     [] OTHER                       -> subscribed
  /\ delivered' = (delivered \/ Head(up) = [type |-> "PUBLISH", id |-> CurrentId])
  /\ BrokerRest /\ UNCHANGED texts

BrokerCloses ==
  /\ BrokerDrops
  /\ BrokerRest /\ UNCHANGED <<subscribed, delivered, texts, events>>

SendDownlink(t) ==
  /\ Connected /\ subscribed /\ Event
  /\ texts' = Append(texts, t)
  /\ stream' = stream \o Downlink(Len(texts'), t)
  /\ BrokerRest
  /\ UNCHANGED <<tcp, session, up, pinged, quietIn, quietOut, silent, subscribed,
                 delivered>>

\* A stalled read (15 s) takes a keepAlive; the PUBACK wait (8 s) adds another
\* only by bad luck.  What is on its way to the broker takes less.
TimePasses ==
  /\ Waiting /\ tcp /\ up = <<>> /\ KeepAlivePasses
  /\ IF pc = "poll" \/ (pc = "stall" /\ silent = 0) THEN UNCHANGED events ELSE Event
  /\ OthersOnly /\ UNCHANGED <<shared, core0, net, delivered, texts>>

---------------------------------------------------------------------------
WifiStep ==
  \/ WifiConnected \/ WifiDial \/ WifiRefused \/ ConnackRead
  \/ LoopPing \/ LoopReturn \/ LoopRead \/ StallEnds
  \/ OtaDone \/ OtaWithout \/ OtaAlone
  \/ Flush \/ NoFlush \/ WaitRaw \/ WaitTurn \/ Acked

GsmStep == GsmSession \/ GsmFailed

Core1Step == TakeTrigger \/ ReadMode \/ WifiStep \/ GsmStep

Environment ==
  \/ Tap \/ KeyRead \/ KeyWrite
  \/ WifiComes \/ WifiGoes \/ GsmChange \/ PowerLoss
  \/ \E t \in Texts : SendDownlink(t)

Next ==
  \/ Core1Step \/ ConnackTimeout \/ ReadTimeout \/ AckTimeout
  \/ Environment
  \/ Broker \/ BrokerCloses \/ TimePasses

Spec == Init /\ [][Next]_vars

\* Core 1 runs, its time-outs come (the turns of a PUBACK wait share one
\* deadline: strong fairness), the broker answers and gives up silent clients,
\* Core 0 finishes what it began, and time passes.
FairSpec ==
  /\ Spec
  /\ WF_vars(Core1Step) /\ WF_vars(ConnackTimeout) /\ WF_vars(ReadTimeout)
  /\ SF_vars(AckTimeout) /\ WF_vars(KeyWrite)
  /\ WF_vars(Broker) /\ WF_vars(BrokerCloses)
  /\ WF_vars(TimePasses)

---------------------------------------------------------------------------
\* Properties.

\* A line is deleted only when the broker has the message that carried it,
\* though the wait reads the stream in pieces of four bytes, in or out of step
\* with the packets (_wifi_wait_for_puback).
AckIsReal == pc = "acked" => delivered

\* AUTO leaves a bearer only after so many failures in a row: neither the wrap
\* of the counters nor what they counted in a forced mode makes it hasty
\* (sync_task); a restart begins with Wi-Fi.
FlipIsEarned ==
  [][ mode = 0 /\ pc \in {"wifi", "connack", "gsm"} /\ cur' # cur /\ ~Restarted =>
        IF cur = "wifi" THEN wifiBad + 1 >= WifiLimit ELSE gsmBad + 1 >= GsmLimit ]_vars

\* A forced mode is obeyed by the whole pass that read it.
ModeObeyed ==
  /\ mode = 1 => pc # "gsm"
  /\ mode = 2 => pc \in {"poll", "mode", "gsm"}

\* Downlinks are applied as they were sent, each at most once and in order, wherever
\* the PUBACK wait, which takes four bytes at a time, cuts the packets of the
\* stream: no rest of one is ever taken for a downlink (readPacket,
\* sync_process_downlink).
DownlinksInOrder ==
  [][ \A i \in applied' \ applied :
        /\ i \in DOMAIN texts /\ \A j \in applied : j < i
        /\ texts[i] = TextOf(Packet(stream)) ]_vars

\* Lines leave the terminal once a bearer that the mode allows stays usable,
\* through failovers, cut packets, stalled reads and pings that meet the wait.
Usable ==
  CASE netMode = 1 -> wifi
    [] netMode = 2 -> gsm
    [] OTHER       -> wifi \/ gsm

LinesLeave == <>[]Usable => (fill > 0 ~> fill = 0)

\* Downlinks are applied as soon as they arrive (src/README.md).
DownlinkApplied == \A i \in 1 .. MaxEvents : i \in DOMAIN texts ~> i \in applied
=============================================================================
