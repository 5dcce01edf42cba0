----------------------------- MODULE TxLedger -----------------------------
(***************************************************************************)
(* The life of a line of /tx.log, from the tap that writes it to the       *)
(* delete that follows its PUBACK: Core 0 (rfid_ui_task, src/main.cpp),    *)
(* Core 1 (sync_task, lib/sync), the flash they share (lib/storage) and    *)
(* the broker.                                                             *)
(*                                                                         *)
(* One step is one critical section of the storage mutex, or one call that *)
(* sends or receives.  The delete holds the mutex over three file-system   *)
(* calls, and power may go between any two of them, so it has a step each. *)
(*                                                                         *)
(* Simplifications:                                                        *)
(*  - a tap starts here after auth_validate_tap's sync, whitelist and      *)
(*    blacklist checks; of these only "sync.dat is not 0" is kept;         *)
(*  - when Core 1 uses which bearer (failover) is not decided here;        *)
(*  - LittleFS commits an append at close, and remove and rename are each  *)
(*    atomic;                                                              *)
(*  - a lock timeout and a missing headroom both leave the file alone, and *)
(*    are one fault, "lock"; an open that fails is not modelled;           *)
(*  - message ids do not wrap (65536 publishes outlive a connection).      *)
(***************************************************************************)
EXTENDS TxLog, Functions

CONSTANTS
  NoUid,         \* no card is being processed
  MaxTapsPerUid, \* MAX_OFFLINE_TAPS_PER_UID
  MaxLines,      \* TX_LOG_MAX_LINES
  Bearers,       \* the bearers in use, of "wifi" and "gsm"
  Faults,        \* the kinds of fault that may happen
  MaxRecords,    \* bound: records ever written
  MaxFaults      \* bound: faults in a behaviour

AllFaults == {"net", "lock", "power", "tear", "short"}

ASSUME LedgerAssumption ==
  /\ NoUid \notin Uids
  /\ MaxTapsPerUid \in Nat
  /\ MaxLines \in Nat
  /\ Bearers \subseteq {"wifi", "gsm"}
  /\ Faults \subseteq AllFaults
  /\ MaxRecords \in Nat
  /\ MaxFaults \in Nat

VARIABLES
  \* flash
  txLog,       \* /tx.log, <<>> also while there is no such file
  tempLog,     \* the temporary file of the delete
  synced,      \* sync.dat holds something other than 0
  \* Core 0
  powered, pc0, rider,
  \* Core 1
  pc1, bearer, chunk, nextMsg,
  \* the connections
  uplink, acks,
  \* history: the program keeps none of these
  nextId,      \* the number of the next record
  received,    \* records the broker has received
  redelivered, \* ... and received again
  retired,     \* records deleted as acknowledged
  faults,      \* faults so far
  lossy        \* power was lost inside a delete, or a copy was short

flash   == <<txLog, tempLog, synced>>
core0   == <<pc0, rider>>
core1   == <<pc1, bearer, chunk, nextMsg>>
net     == <<uplink, acks>>
history == <<nextId, received, redelivered, retired, faults, lossy>>
vars    == <<flash, powered, core0, core1, net, history>>

Message == [id : Nat, lines : Seq(Record)]

Core0Pcs == {"idle", "count", "lines", "append"}
Core1Pcs == {"idle", "status", "stream", "publish", "wait",
             "delete", "remove", "rename", "stamp"}

TypeOK ==
  /\ txLog \in Seq(Record) /\ tempLog \in Seq(Record)
  /\ synced \in BOOLEAN /\ powered \in BOOLEAN
  /\ pc0 \in Core0Pcs /\ rider \in Uids \cup {NoUid}
  /\ pc1 \in Core1Pcs /\ bearer \in Bearers \cup {"none"}
  /\ chunk \in Seq(Record)
  /\ nextMsg \in [Bearers -> Nat]
  /\ uplink \in [Bearers -> Seq(Message)]
  /\ acks \in [Bearers -> Seq(Nat)]
  /\ nextId \in Nat
  /\ received \subseteq Nat /\ redelivered \subseteq Nat /\ retired \subseteq Nat
  /\ faults \in Nat /\ lossy \in BOOLEAN

\* A terminal out of the box, or one whose sync.dat survived its last reset.
Init ==
  /\ txLog = <<>> /\ tempLog = <<>>
  /\ synced \in BOOLEAN
  /\ powered = TRUE
  /\ pc0 = "idle" /\ rider = NoUid
  /\ pc1 = "idle" /\ bearer = "none" /\ chunk = <<>>
  /\ nextMsg = [b \in Bearers |-> 1]
  /\ uplink = [b \in Bearers |-> <<>>]
  /\ acks = [b \in Bearers |-> <<>>]
  /\ nextId = 1
  /\ received = {} /\ redelivered = {} /\ retired = {}
  /\ faults = 0 /\ lossy = FALSE

\* The environment's budget: a fault of this kind may happen here.
Fault(kind) == kind \in Faults /\ faults < MaxFaults /\ faults' = faults + 1

\* The file that holds the unsent lines: between the remove and the rename
\* of a delete that is the temporary one.
Ledger == IF pc1 = "rename" THEN tempLog ELSE txLog

---------------------------------------------------------------------------
\* Core 0: a rider's tap and a registration.

\* A mutant: appends that do not take the mutex.
NoMutex == TRUE

\* Core 1 has the storage mutex over the three file-system calls of a delete.
LockFree == pc1 \notin {"remove", "rename"}

Core0At(pc) == powered /\ pc0 = pc

Core0Only == UNCHANGED <<tempLog, synced, powered, core1, net,
                         received, redelivered, retired, lossy>>

\* A card that passed the checks made before the offline lookback.
Tap(u) ==
  /\ Core0At("idle") /\ synced /\ nextId <= MaxRecords
  /\ pc0' = "count" /\ rider' = u
  /\ Core0Only /\ UNCHANGED <<txLog, nextId, faults>>

\* The tap ends without a line: denied, or an error is shown.
TapOver == pc0' = "idle" /\ rider' = NoUid

CountTaps ==
  /\ Core0At("count") /\ LockFree
  /\ IF CountUid(txLog, rider) < MaxTapsPerUid
       THEN pc0' = "lines" /\ UNCHANGED rider
       ELSE TapOver
  /\ Core0Only /\ UNCHANGED <<txLog, nextId, faults>>

\* A mutant: -1 read as a count below the limit.
CountTapsUnchecked ==
  /\ Core0At("count") /\ Fault("lock")
  /\ pc0' = "lines"
  /\ Core0Only /\ UNCHANGED <<txLog, rider, nextId>>

\* -1 from storage_count_uid_in_tx rejects the tap.
CountTapsTimeout ==
  /\ Core0At("count") /\ Fault("lock")
  /\ TapOver
  /\ Core0Only /\ UNCHANGED <<txLog, nextId>>

\* A mutant: the buffer of the card is cleared too early.
CountLinesClearsUid ==
  /\ Core0At("lines") /\ LockFree /\ Len(txLog) < MaxLines
  /\ pc0' = "append" /\ rider' = NoUid
  /\ Core0Only /\ UNCHANGED <<txLog, nextId, faults>>

CountLines ==
  /\ Core0At("lines") /\ LockFree
  /\ IF Len(txLog) < MaxLines THEN pc0' = "append" /\ UNCHANGED rider ELSE TapOver
  /\ Core0Only /\ UNCHANGED <<txLog, nextId, faults>>

\* -1 from storage_get_tx_line_count is below the cap: the tap goes on.
CountLinesTimeout ==
  /\ Core0At("lines") /\ Fault("lock")
  /\ pc0' = "append"
  /\ Core0Only /\ UNCHANGED <<txLog, rider, nextId>>

\* A mutant: a full log drops its oldest line.
WriteLineRotating(kind, u) ==
  /\ txLog' = Append(IF Len(txLog) < MaxLines THEN txLog ELSE Tail(txLog),
                     [id |-> nextId, kind |-> kind, uid |-> u])
  /\ nextId' = nextId + 1

WriteLine(kind, u) ==
  /\ txLog' = Append(txLog, [id |-> nextId, kind |-> kind, uid |-> u])
  /\ nextId' = nextId + 1

\* A mutant: trusts the count made before.
AppendTxUncounted ==
  /\ Core0At("append") /\ LockFree
  /\ WriteLine("tap", rider)
  /\ TapOver
  /\ Core0Only /\ UNCHANGED faults

\* storage_append_tx counts the lines again under its own lock.
AppendTx ==
  /\ Core0At("append") /\ LockFree
  /\ IF Len(txLog) < MaxLines THEN WriteLine("tap", rider) ELSE UNCHANGED <<txLog, nextId>>
  /\ TapOver
  /\ Core0Only /\ UNCHANGED faults

AppendRefused ==
  /\ Core0At("append") /\ Fault("lock")
  /\ TapOver
  /\ Core0Only /\ UNCHANGED <<txLog, nextId>>

\* storage_append_registration has no line cap and no lookback.
Register(u) ==
  /\ Core0At("idle") /\ LockFree /\ nextId <= MaxRecords
  /\ WriteLine("link", u)
  /\ Core0Only /\ UNCHANGED <<core0, faults>>

Core0Step ==
  \/ CountTaps \/ CountTapsTimeout
  \/ CountLines \/ CountLinesTimeout
  \/ AppendTx \/ AppendRefused

Core0 == (\E u \in Uids : Tap(u) \/ Register(u)) \/ Core0Step

---------------------------------------------------------------------------
\* Core 1: a flush of the log over either bearer.

Core1At(pc) == powered /\ pc1 = pc

Core1Only == UNCHANGED <<powered, core0, nextId, received, redelivered>>

FlushOver == pc1' = "idle" /\ bearer' = "none" /\ chunk' = <<>>

\* The GSM session: wake, GPRS, TCP and CONNECT, then the status message,
\* whose QoS-1 id is 0 and whose result is ignored.  Connections are fresh.
OpenGsm ==
  /\ Core1At("idle") /\ "gsm" \in Bearers
  /\ pc1' = "status" /\ bearer' = "gsm"
  /\ uplink' = [uplink EXCEPT !["gsm"] = <<[id |-> 0, lines |-> <<>>]>>]
  /\ acks' = [acks EXCEPT !["gsm"] = <<>>]
  /\ Core1Only /\ UNCHANGED <<flash, chunk, nextMsg, retired, faults, lossy>>

\* Nothing with this id is on its way to or from the broker.
Settled(id) ==
  /\ \A msg \in Range(uplink[bearer]) : msg.id # id
  /\ id \notin Range(acks[bearer])

\* The eight seconds of a wait are long: what is under way arrives in time,
\* or the network is at fault.
Overdue(id) == IF Settled(id) THEN UNCHANGED faults ELSE Fault("net")

StatusAcked ==
  /\ Core1At("status") /\ acks[bearer] # <<>>
  /\ acks' = [acks EXCEPT ![bearer] = Tail(@)]
  /\ pc1' = "stream"
  /\ Core1Only /\ UNCHANGED <<flash, bearer, chunk, nextMsg, uplink, retired, faults, lossy>>

StatusTimeout ==
  /\ Core1At("status") /\ Overdue(0)
  /\ pc1' = "stream"
  /\ Core1Only /\ UNCHANGED <<flash, bearer, chunk, nextMsg, net, retired, lossy>>

\* A mutant: waits until the payload is full.
StreamFullChunk(b) ==
  /\ Core1At(IF b = "wifi" THEN "idle" ELSE "stream")
  /\ Len(txLog) >= ChunkLines
  /\ chunk' = FirstLines(txLog, ChunkLines)
  /\ pc1' = "publish" /\ bearer' = b
  /\ Core1Only /\ UNCHANGED <<flash, nextMsg, net, retired, faults, lossy>>

\* storage_stream_tx_chunk.  Over Wi-Fi the connection is already up.
StreamChunk(b) ==
  /\ Core1At(IF b = "wifi" THEN "idle" ELSE "stream")
  /\ txLog # <<>>
  /\ chunk' = FirstLines(txLog, ChunkLen(txLog))
  /\ pc1' = "publish" /\ bearer' = b
  /\ Core1Only /\ UNCHANGED <<flash, nextMsg, net, retired, faults, lossy>>

\* No line to send, or no lock: the GSM session ends.
StreamNothing ==
  /\ Core1At("stream")
  /\ IF txLog = <<>> THEN UNCHANGED faults ELSE Fault("lock")
  /\ FlushOver
  /\ Core1Only /\ UNCHANGED <<flash, nextMsg, net, retired, lossy>>

\* The QoS-1 publish.  The AT dialogue of a GSM send first discards what the
\* modem has already received: some of the acknowledgements that came back.
Publish ==
  /\ Core1At("publish")
  /\ uplink' = [uplink EXCEPT ![bearer] =
                  Append(@, [id |-> nextMsg[bearer], lines |-> chunk])]
  /\ \E n \in 0 .. (IF bearer = "gsm" THEN Len(acks[bearer]) ELSE 0) :
       acks' = [acks EXCEPT ![bearer] = SubSeq(@, n + 1, Len(@))]
  /\ nextMsg' = [nextMsg EXCEPT ![bearer] = @ + 1]
  /\ pc1' = "wait"
  /\ Core1Only /\ UNCHANGED <<flash, bearer, chunk, retired, faults, lossy>>

PublishFailed ==
  /\ Core1At("publish") /\ Fault("net")
  /\ nextMsg' = [nextMsg EXCEPT ![bearer] = @ + 1]
  /\ FlushOver
  /\ Core1Only /\ UNCHANGED <<flash, net, retired, lossy>>

\* A mutant: the Wi-Fi path takes any PUBACK too.
AcknowledgesAny(id) == TRUE

\* _wifi_wait_for_puback compares the id; _mqtt_publish_gsm takes any PUBACK.
Acknowledges(id) == bearer = "gsm" \/ id = nextMsg[bearer] - 1

RecvAck ==
  /\ Core1At("wait") /\ acks[bearer] # <<>>
  /\ acks' = [acks EXCEPT ![bearer] = Tail(@)]
  /\ pc1' = IF Acknowledges(Head(acks[bearer])) THEN "delete" ELSE "wait"
  /\ Core1Only /\ UNCHANGED <<flash, bearer, chunk, nextMsg, uplink, retired, faults, lossy>>

AckTimeout ==
  /\ Core1At("wait") /\ Overdue(nextMsg[bearer] - 1)
  /\ FlushOver
  /\ Core1Only /\ UNCHANGED <<flash, nextMsg, net, retired, lossy>>

\* storage_atomic_delete_sent, first part: copy the lines that were not sent.
Delete ==
  /\ Core1At("delete")
  /\ tempLog' = DropLines(txLog, Len(chunk))
  /\ pc1' = "remove"
  /\ Core1Only
  /\ UNCHANGED <<txLog, synced, bearer, chunk, nextMsg, net, retired, faults, lossy>>

\* The copy does not look at how much was written: a full flash cuts it short.
DeleteShort ==
  /\ Core1At("delete") /\ Fault("short")
  /\ \E n \in 0 .. Len(txLog) - Len(chunk) - 1 :
       tempLog' = FirstLines(DropLines(txLog, Len(chunk)), n)
  /\ lossy' = TRUE
  /\ pc1' = "remove"
  /\ Core1Only /\ UNCHANGED <<txLog, synced, bearer, chunk, nextMsg, net, retired>>

\* The caller ignores the result and stamps sync.dat all the same.
DeleteRefused ==
  /\ Core1At("delete") /\ Fault("lock")
  /\ pc1' = "stamp"
  /\ Core1Only /\ UNCHANGED <<flash, bearer, chunk, nextMsg, net, retired, lossy>>

Remove ==
  /\ Core1At("remove")
  /\ txLog' = <<>>
  /\ retired' = retired \cup Ids(chunk)
  /\ pc1' = "rename"
  /\ Core1Only /\ UNCHANGED <<tempLog, synced, bearer, chunk, nextMsg, net, faults, lossy>>

Rename ==
  /\ Core1At("rename")
  /\ txLog' = tempLog /\ tempLog' = <<>>
  /\ pc1' = "stamp"
  /\ Core1Only /\ UNCHANGED <<synced, bearer, chunk, nextMsg, net, retired, faults, lossy>>

Stamp ==
  /\ Core1At("stamp")
  /\ \/ synced' = TRUE /\ UNCHANGED faults
     \/ Fault("lock") /\ UNCHANGED synced
  /\ FlushOver
  /\ Core1Only /\ UNCHANGED <<txLog, tempLog, nextMsg, net, retired, lossy>>

Core1Step ==
  \/ StatusAcked \/ StatusTimeout
  \/ (\E b \in Bearers : StreamChunk(b)) \/ StreamNothing
  \/ Publish \/ PublishFailed \/ RecvAck \/ AckTimeout
  \/ Delete \/ DeleteShort \/ DeleteRefused
  \/ Remove \/ Rename \/ Stamp

Core1 == OpenGsm \/ Core1Step

---------------------------------------------------------------------------
\* The broker, the network and the supply.

NetOnly == UNCHANGED <<flash, powered, core0, core1, nextId, retired, lossy>>

\* The broker takes the oldest message of a connection and acknowledges it.
BrokerRecv(b) ==
  /\ uplink[b] # <<>>
  /\ LET msg == Head(uplink[b])
     IN /\ received' = received \cup Ids(msg.lines)
        /\ redelivered' = redelivered \cup (received \cap Ids(msg.lines))
        /\ acks' = [acks EXCEPT ![b] = Append(@, msg.id)]
  /\ uplink' = [uplink EXCEPT ![b] = Tail(@)]
  /\ NetOnly /\ UNCHANGED faults

\* s_mqtt.loop(), or a read of the AT dialogue, eats an acknowledgement.
SwallowAck(b) ==
  /\ acks[b] # <<>> /\ Fault("net")
  /\ acks' = [acks EXCEPT ![b] = Tail(@)]
  /\ NetOnly /\ UNCHANGED <<uplink, received, redelivered>>

ConnLost(b) ==
  /\ uplink[b] # <<>> \/ acks[b] # <<>>
  /\ Fault("net")
  /\ uplink' = [uplink EXCEPT ![b] = <<>>]
  /\ acks' = [acks EXCEPT ![b] = <<>>]
  /\ NetOnly /\ UNCHANGED <<received, redelivered>>

\* A brown-out, a watchdog reset or the restart after an OTA update.  What was
\* sent may still reach the broker.
PowerLoss ==
  /\ powered
  /\ Fault(IF pc1 = "rename" THEN "tear" ELSE "power")
  /\ lossy' = (lossy \/ pc1 = "rename")
  /\ powered' = FALSE
  /\ TapOver /\ FlushOver
  /\ nextMsg' = [b \in Bearers |-> 1]
  /\ UNCHANGED <<flash, net, nextId, received, redelivered, retired>>

\* storage_init creates a missing /tx.log empty and never reads a temporary
\* file; the connections are new.
Boot ==
  /\ ~powered
  /\ powered' = TRUE
  /\ uplink' = [b \in Bearers |-> <<>>]
  /\ acks' = [b \in Bearers |-> <<>>]
  /\ UNCHANGED <<txLog, tempLog, synced, core0, core1, history>>

\* SYS:SYNC_COMPLETE arrives on Core 1's MQTT loop, which also runs while it
\* waits for a PUBACK.
SyncComplete ==
  /\ \/ Core1At("idle") /\ "wifi" \in Bearers
     \/ Core1At("wait") /\ bearer = "wifi"
  /\ synced' = TRUE
  /\ UNCHANGED <<txLog, tempLog, powered, core0, core1, net, history>>

Environment ==
  \/ (\E b \in Bearers : BrokerRecv(b) \/ SwallowAck(b) \/ ConnLost(b))
  \/ PowerLoss \/ Boot \/ SyncComplete

Next == Core0 \/ Core1 \/ Environment

Spec == Init /\ [][Next]_vars

\* The scheduler runs both tasks, the network delivers and a reset terminal
\* boots.  Nothing makes a rider tap, and every fault may fail to happen.
Fairness ==
  /\ WF_vars(Core0Step)
  /\ WF_vars(Core1Step)
  /\ \A b \in Bearers : WF_vars(BrokerRecv(b))
  /\ WF_vars(Boot)

FairSpec == Spec /\ Fairness

---------------------------------------------------------------------------
(* What is checked. *)

\* The anti-passback rule: whatever the uploads, refusals, resets and resends
\* in between, the file never holds more unsent fares of one card than
\* MAX_OFFLINE_TAPS_PER_UID, although validation and append lock separately.
OfflineTapLimit == \A u \in Uids : CountUid(Ledger, u) <= MaxTapsPerUid

\* The hard cap of the log, as far as fares go: storage_append_tx's own count
\* keeps it even when the check before it failed on the lock and passed.
FareCap == Cardinality({k \in DOMAIN Ledger : Ledger[k].kind = "tap"}) <= MaxLines

\* The offset taken when a chunk was read is still good when it is used after
\* the PUBACK, the mutex having been free in between: the lines before it are
\* still exactly the lines that were sent.
ChunkIsPrefix ==
  pc1 \in {"publish", "wait", "delete", "remove"} =>
    /\ Len(chunk) <= Len(txLog)
    /\ chunk = FirstLines(txLog, Len(chunk))

\* README: no deletion until the backend has acknowledged receipt.
AckedBeforeDelete == retired \subseteq received

\* Unless power goes inside a delete or a copy is short, a record is in the
\* file or was deleted as acknowledged: none is dropped by a rewrite that runs
\* beside appends, and none that was deleted comes back.
RecordsKept ==
  ~lossy => /\ 1 .. nextId - 1 = retired \cup Ids(Ledger)
            /\ retired \cap Ids(Ledger) = {}

\* The broker gets the records oldest first: it never holds a record while an
\* older one that is still in the file has not reached it.
OldestFirst ==
  \A r \in received : \A i \in Ids(Ledger) : i < r => i \in received

\* Only a fault makes the terminal send a record again.
DuplicateNeedsFault == redelivered # {} => faults > 0

\* A record that was written is received by the broker and leaves the file,
\* whatever finite number of timeouts, losses, refusals and resets happens.
Drains ==
  \A i \in 1 .. MaxRecords :
    i \in Ids(Ledger) ~> (i \in received /\ i \notin Ids(Ledger))

\* README, "Interrupted sync": old records remain queued until an ACK.
NoRecordLost == 1 .. nextId - 1 \subseteq received \cup Ids(Ledger)

\* The ledger, the broker and everything between them implement the store and
\* forward promise: the file holds the pending records, a broker's receive is
\* Receive, the remove of a delete is Forget, and all the rest is invisible.
\* True over Wi-Fi while no delete is torn and no copy is cut short.
StoreAndForward ==
  INSTANCE StoreForward WITH pending <- Ids(Ledger), next <- nextId

ImplementsStoreForward == StoreAndForward!Spec

=============================================================================
