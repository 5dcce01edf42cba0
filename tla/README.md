# Formal models of C-TRANSIT

TLA+ models of the C-TRANSIT fare terminal (`src/`): what its two tasks do to the
files they share, to the network and to the devices of the passenger, and what of
the promises in `src/README.md` holds under interleavings, late or lost
acknowledgements, refused writes, noise and resets.

## 1. The system

An ESP32 terminal on a bus. Riders tap cards, drivers and admins log in with a
card and a PIN, fares and registrations are appended to a file on LittleFS, and
a background task uploads that file to an MQTT broker over Wi-Fi or GSM and
deletes what was acknowledged. Two FreeRTOS tasks run for ever:

- **Core 0**, `rfid_ui_task` (`src/src/main.cpp`): card, keypad, screen, state
  machine. The only task that appends to `/tx.log` and (after `setup`) the only
  caller of `sm_transition`.
- **Core 1**, `sync_task` (`src/lib/sync/sync.cpp`): connection, upload,
  downlink commands. The only task that deletes from `/tx.log`.

They share the files (one mutex, taken for at most 3 s), the flag `s_running`,
a task notification, and the net mode file (no mutex). Everything in RAM is
lost at a reset (watchdog, brown-out, OTA), everything in flash is kept.

### Inventory

| Component | State | Operations | Interacts by | Hard | Correct when |
|---|---|---|---|---|---|
| Transaction log (`lib/storage`) | `/tx.log`, temporary file | append fare, append registration, count card, count lines, read chunk, delete chunk, boot repair | mutex; Core 0 appends, Core 1 deletes | offset used long after it was read; remove + rename under power loss; short copies | offset stays good, nothing lost or revived, caps hold |
| Upload (`lib/sync`, both flush functions) | payload, message ids, connection | chunk, publish, wait for PUBACK, delete, stamp `sync.dat` | broker; log | late, lost and swallowed PUBACKs, retries, failover | no delete before the ACK, oldest first, everything drains |
| Bearer selection (`sync_task`) | bearer, failure counters, net mode file | connect, fail over, forced mode | notification, Core 0 key A, downlink | counters that wrap and carry over, two unlocked writers of the mode | the mode read is obeyed, flips are earned, lines leave |
| MQTT over Wi-Fi (PubSubClient) | session, stream, ping | connect, loop, readPacket, publish, subscribe | broker; the PUBACK wait reads the same stream | frames out of step, keepAlive against long idle times | an ACK is real, downlinks whole and in order |
| Downlink (`sync_process_downlink`) | policy files, fare, net mode, `sync.dat` | ADD, REM, SYS lists, FARE, NET, OTA, SYNC_COMPLETE | runs inside `s_mqtt.loop` on Core 1 | torn rewrites; readers between two entries; restart from inside the callback | the lists say what was sent |
| Policy files (`lib/storage`, `lib/auth`) | whitelist, blacklist, drivers, admins, fare | find, upsert, remove, ingest, PIN lookup | mutex; Core 0 reads | one temporary file for all lists; one section per lookup | revoked stays revoked, a verdict is one the lists gave |
| Fare acceptance (`auth`, `transaction`, `main`) | none of its own | kill switch, lists, lookback, caps, append | all of storage | checks in separate sections; error values that pass | no card over its offline limit, no fare after three hours |
| State machine, session (`lib/statemachine`, `main`) | state, driver, `sess.dat` | login, logout, lockdown, release, cold sync, boot recovery | storage, notification | resets, failed session writes, a release that looks at one reason | closed shifts stay closed, waits end |
| Clock (`lib/transaction`) | uptime | timestamp, stamp of `sync.dat` | auth, release, sync | uptime restarts at a reset | the three-hour rule holds |
| OTA update (`lib/sync`) | | check, download, restart | Wi-Fi, MQTT callback | the command that restarts is never acknowledged | no line is lost with it |
| RFID reader (`lib/rfid`, MFRC522) | chip registers, fault counter, notice | request, anticollision, select, halt, watchdog tick, recovery | SPI; `rfid_ui_task` | several cards, cut answers, a HLTA nobody checks, dead wires | one card, the right UID, once a visit; a dead reader is reported |
| Keypad, PIN (`lib/keypad`, Keypad library) | key list, entry buffer | scan, get key, read PIN | `rfid_ui_task` | keys held over handlers, ghosts, shared hold timer | each press reported once at most, no key blocks the pad |
| Display (`lib/display`, LiquidCrystal_I2C) | nibbles to send | init, messages, indicators | I2C expander | half a byte off after a restart | the screen shows what was asked for |
| Power (`lib/power`) | task watchdog | feed, panic | both cores | waits that add up, a spin of 15 s | only a hang resets |
| LEDs, buzzer, serial log | | output | | | only their delays are modelled |

`PROJECT.json` lists the components with what each has in the models, and every
hazard at its line with the properties that cover it.

## 2. Modules

| Module | What it is |
|---|---|
| `TxLog` | The log as a sequence of records, and what `lib/storage` computes from it: card count, chunk, rest after a delete. |
| `TxLedger` | Core 0's appends, Core 1's flush, flash, connections, broker, resets: the life of a record. |
| `StoreForward` | The abstract promise: written, received oldest first, forgotten only once received. |
| `TxLedgerInv` | The invariants of `TxLedger` that the proofs need. |
| `TxLogTheorems` | Lemmas about the operators of `TxLog` and about queues. |
| `TxLedgerProofs`, `TxPromiseProofs` | Theorems of `TxLedger`: types, offset, offline taps, acknowledgements; and caps, nothing lost, order, duplicates, the promise. |
| `Terminal` | State machine, handlers of Core 0, session file, clock and kill switch, and of Core 1 what releases a lockdown. |
| `TerminalInv`, `TerminalProofs` | The inductive invariants and theorems of `Terminal`. |
| `PolicyFiles` | The four lists and the fare, rewritten by downlinks and looked up by taps, logins and the cold sync. |
| `PolicyFilesProofs` | Its theorems: types, what the lists and the lookups say, a lost list is noticed. |
| `MqttClient` | PubSubClient's end of the byte stream from the broker, and the broker. |
| `SyncTask` | The loop of Core 1 on top of it: bearer, connection, PUBACK wait, downlinks, OTA. |
| `SyncTaskProofs` | Its theorems: the mode is obeyed, flips are earned, types, acknowledgements are real, downlinks whole and in order. |
| `CardReader` | MFRC522 driver, `rfid_poll`, RFID watchdog, and the cards. |
| `KeypadScan` | Key matrix, Keypad library, and the loops that poll it. |
| `Lcd` | Display functions, LCD driver and the controller behind the expander. |
| `TaskWatchdog` | How long the watched tasks go without feeding the watchdog. |
| `FrontEnd` | The composition of the last four. |
| `ReaderProofs` | Its theorems about the reader: one card is selected, and read once. |
| `FrontEndProofs` | Its other theorems: keys reported once, the watchdog fed, the screen right, types. |
| `MCTxLedger`, `MCTerminal`, `MCPolicyFiles`, `MCSyncTask`, `MCFrontEnd` | Instances for TLC. |

`TxLedger`, `Terminal`, `PolicyFiles` and `SyncTask` look at the same two tasks
from four sides and share no variable: the first has the lines of the log and no
states, the second the states and the number of lines (`fill`), the third the
entries of the lists, the fourth the bytes of the connection. What one leaves
out is nondeterministic there: `Terminal` lets a sync end or fail, `PolicyFiles`
lets any downlink arrive, `TxLedger` lets any PUBACK be late.

### TxLedger and the code

A step is one critical section of the mutex, or one call that sends or receives.
`storage_atomic_delete_sent` is three steps (`Delete` copies, `Remove`,
`Rename`) with the mutex held (`LockFree` is false), because power may go
between them. `pc0` and `pc1` say how far each task is.

- A rider's tap: `Tap` (the list checks are passed), `CountTaps` and
  `CountLines` (`auth_validate_tap`, steps 4 and 5), `AppendTx`
  (`storage_append_tx`, which counts again). Lock timeouts have the code's
  effect: -1 from the card count rejects, -1 from the line count passes.
- `Register`: `storage_append_registration`, with no cap.
- A flush: `StreamChunk`, `Publish`, `RecvAck` or `AckTimeout`, `Delete`,
  `Remove`, `Rename`, `Stamp`. Over GSM a session starts with `OpenGsm` and the
  status message (`StatusAcked`, `StatusTimeout`), and `Publish` may discard
  acknowledgements that the modem already has. `Acknowledges` is the
  difference between the bearers: Wi-Fi compares the id, GSM does not.
- The chunk's offset is the number of lines of `chunk`: bytes become lines
  because a chunk always ends at the end of a line.
- `Ledger` is the file with the unsent lines: `/tx.log`, or the temporary file
  between remove and rename.
- `PowerLoss` resets RAM, keeps flash and what is in flight; `Boot` creates
  `/tx.log` if there is none and starts on new connections.
- `nextId`, `received`, `redelivered`, `retired`, `faults` and `lossy` are
  history: the code keeps none of them and no guard reads them, except that
  `nextId` and `faults` carry the bounds.

Faults have kinds, and each instance says which may happen: `net` (message or
acknowledgement lost, late, or eaten by another reader of the stream), `lock`
(lock timeout or no headroom), `power` (reset anywhere but between remove and
rename), `tear` (reset there), `short` (copy cut short by a full flash). An
acknowledgement wait may time out freely only if nothing with its id is under
way: otherwise the time-out is a `net` fault.

### Terminal and the code

`state` is `s_state`, `driver` is `s_drv`, `sess` and `syncTs` are `sess.dat` and
`sync.dat`, `due` is the notification or the five-minute interval, and
`pc1 # "idle"` is `s_running`. `pc0` says how far a handler of `rfid_ui_task` has
come; a step is one critical section of the storage mutex with the transition
that follows it, or one thing a person does (`Person`).

- `ToOfflineLocked`, `ToReady`, `ToLockdown` and `Show` are `sm_transition` for
  the states it is called with, the session write included. `SaveSession` may
  fail (`write`), and as in the code nobody looks.
- The refresh is four steps in the order of the code: capacity, release, and the
  two lists of the cold sync, which are read one after the other.
- Login reads the staff files twice, when the card is tapped and after the PIN;
  `ListUpdate` may change them in between. A lock timeout on `drv.dat` makes a
  driver who is also an admin an admin.
- A tap: `CheckSync` (kill switch), `CheckLists`, `CheckRoom`, `RecordFare`, and
  the hold of the result that ends in another session write (`TapOver`).
- `Reset` is power loss and boot in one: flash stays, the uptime starts again, any
  time may have passed, `sm_init` resumes the session and the cold-start guard of
  `setup` overrules it.
- The clock counts units (an hour, say) modulo `ClockWrap`. `Tick` waits until
  what takes seconds is done (`Settled`), except for a PIN prompt. This keeps a
  unit from passing inside a tap or a flush, and lets every refresh see the
  stamp of a flush that ended in the same unit.
- `age`, `steady`, `shift`, `lockedFor`, `unsaved` are history; `refreshed` is used
  by `Settled` only.

Its faults are `lock`, `write` and `power`; they may happen any number of times.

### PolicyFiles and the code

`files` are `wl.dat`, `bl.dat`, `drv.dat`, `adm.dat`. A command (`ADD`, `REM`) rewrites
its list entry by entry into the one temporary file (`Copy`:
`_upsert_uid_entry`, `_remove_uid_entry`), removes the list (`Remove`) and renames
(`Rename`), with the mutex held over all three (`LockFree`). A `SYS` list does the
same for each entry under one lock (`batch`); it adds to the list and replaces nothing.
`told` is the history of what the commands carried out say, `seen` and `fareSeen`
what `told` said of the card since its lookup began.

Lookups are one critical section each: `CheckWhitelist`, `CheckBlacklist`, `ReadFare`
for a rider (`auth_validate_tap`, `transaction_record`), `CheckDriver`,
`CheckAdmin`, `TypePin`, `VerifyPin` for staff. `CheckColdWl` and `CheckColdDr` read
the two sizes without the mutex, as `run_ui_refresh` does. A reset between
remove and rename is `tear`, one elsewhere `power`; `short` is a copy cut by a full
flash, `lock` a lock refused. `Removed` keeps the entries
of the other cards (`Others`), each at the place that its `Rank` among them gives: what
the loop of `_remove_uid_entry` writes, in a form the proofs can use without
induction. The seeds have no card twice, as those in `src/data`.

### MqttClient, SyncTask and the code

`stream` holds the bytes that the broker has sent and nobody has read, because
two readers share them: `PubSubClient::readPacket` and the four-byte reads of
`_wifi_wait_for_puback`. What the client sends is whole packets. `MqttClient` has
the pieces of PubSubClient (`Dial` and `Accept` are `connect`, `Ping` and
`ReadReply` are `loop`, `ReadNothing` a `readByte` that gave up) and the broker;
`SyncTask` says when they are called. Message ids and the texts of downlinks are
one-byte counts and ASCII, so that no text holds a zero (`MqttAssumption`): a topic or a
command never does.

- `TakeTrigger`, `ReadMode`: notification, interval and mode file at the head of
  the loop. `notified` is overwritten like the FreeRTOS value.
- `WifiDial`, `ConnackRead`, `WifiRefused`, `ConnackTimeout`: `_mqtt_connect_wifi`, then
  `WifiWorks` or `WifiFailed`, the counter `% FailWrap` as `uint8_t` is.
- `LoopPing`, `LoopRead`, `LoopReturn`, `StallEnds`, `ReadTimeout`: one `s_mqtt.loop()`,
  which three places call (`loop1`, `waitloop`, `loop2`).
- `Flush`, `WaitRaw`, `WaitTurn`, `AckTimeout`, `Acked`: the flush with its wait.
- `OtaBegins` and the three ways it ends; `PowerLoss`; a GSM session in one step.
- `KeyRead`, `KeyWrite`: `sm_cycle_net_mode`, which reads the mode, shows it for 3.5 s
  (its comment says 1.5), and writes.

What the model makes plain, beyond its properties: the SUBACK (5 bytes) that follows
each connect shifts the four-byte reads, so that the first flush after a connect
usually stalls for PubSubClient's 15 s and is sent again; keepAlive is
PubSubClient's 15 s, as the 60 of `config.h` are used on GSM only; a GSM session
takes over the client id of a Wi-Fi session; a mode forced to GSM cannot be undone
by a downlink, which only Wi-Fi brings; and AUTO on GSM returns to Wi-Fi only when
GSM fails.

### FrontEnd and the code

`rfid_ui_task` makes each call into a device to the end before the next, and the
devices share neither a bus (SPI, GPIO, I2C) nor a variable. `FrontEnd` therefore
explores each with the others at rest; its initial state says which.

- `CardReader`: `Request`, `Anticollision`, `Select`, `Halt` are a frame on the air and its
  answer (`PICC_RequestA`, the inner and outer loop of `PICC_Select`, `PICC_HaltA`),
  `Tick` and `Recover` are `rfid_watchdog_tick`. Cards follow ISO 14443-3: idle, ready at a
  level, active, halted. `Spoilt`, `ShortAnswer`, `HaltUnheard` are noise, `BusLost`
  dead wires or a dip of the supply. `fresh` is history: which cards may be read. Two
  cards with the same first four UID bytes are one card to the terminal
  (`rfid.cpp` 99–107). `CardAssumption` has ISO's rule that a level's own bytes do not begin
  with the cascade tag; a dip between two watchdog ticks leaves a reader that is deaf
  and that the watchdog calls healthy, until the wires fail visibly.
- `KeypadScan`: `Poll` is a `keypad_get_key` that scans, `Updated` is
  `Keypad::updateList`, `NextState` `nextKeyState`, `Ghosted` the fourth corner of a
  matrix without diodes. Only slot 0 is reported, so a key pressed while another is
  listed is lost; and a key held when a prompt starts is typed into it.
- `Lcd`: a step is a nibble (`write4bits`); the controller takes it for a byte or for half
  of one. `Restart` may come between any two.
- `TaskWatchdog`: a pass of `rfid_ui_task` is the list of what it waits for, in half
  seconds. For the second watched task, `loop()` of Core 1, `Spins` is PubSubClient
  waiting for a byte at a higher priority.

## 3. Runs

| Run | Checks | Bounds | Shows |
|---|---|---|---|
| `ledger_both` | types, `FareCap`, `OfflineTapLimit`, `ChunkIsPrefix`, `RecordsKept`, `OldestFirst`, `DuplicateNeedsFault` | 2 riders (symmetric), 4 records, 2 lines a chunk, limit 2, cap 3, 2 faults of every kind, both bearers | upload beside taps and registrations, failover with messages of both connections in flight |
| `ledger_promise` | `InductiveInvariant`, `ImplementsStoreForward`, `Drains` | 1 rider, 3 records, Wi-Fi, 3 faults of `net`, `lock`, `power` | the code implements the promise, and every record is delivered and deleted |
| `gsm_ack` | `AckedBeforeDelete`, violated | 1 rider, 2 records, 1 `net` fault | finding 1 |
| `torn_delete` | `NoRecordLost`, violated | 1 rider, 2 records, 1 `tear` | finding 2 |
| `terminal` | types, `SessionAgrees`, `ShiftStaysClosed`, `FareInWindow`, `DenialIsDue`, `StaleLockdownHolds`, `TerminalInvariant` | 2 staff cards, one of an admin, time-out 1, clock of 3, cap 1, all faults | sessions and kill switch through every handler |
| `terminal_live` | `LockdownEnds`, `ColdSyncEnds` | 1 staff card in both lists, time-out 2, clock of 4, no faults, network up and down | neither wait is for ever |
| `kill_switch` | `KillSwitch`, violated | 1 driver, resets | finding 3 |
| `closed_shift` | `ClosedShift`, violated | 1 driver, resets, failed writes | finding 4 |
| `policy` | types, `OneEntryPerCard`, `ListsAsTold`, `VerdictIsCurrent`, `LoginIsCurrent`, `LostListHoldsService` | 2 cards, 2 PINs, 3 downlinks, 2 faults of every kind, lists as delivered | lookups beside rewrites, revocation, lost lists |
| `link` | types, `AckIsReal`, `ModeObeyed`, `FlipIsEarned`, `DownlinksInOrder`, `LinesLeave` | 3 message ids, limits 2, counters modulo 3, downlinks NET and OTA, 3 events | two readers of one stream, bearers that come and go, resets |
| `idle_downlink` | `DownlinkApplied`, violated | as `link`, 1 event | finding 5 |
| `front` | types, `SelectsOne`, `ReadOncePerVisit`, `EveryCardIsRead`, `AlertFollowsReader`, `ReportsArePresses`, `KeysAreHeard`, `Shown`, `Fed` | 4 cards (UIDs of 4, 7, 4, 10 bytes), 3 moves, 2 faults, counter modulo 5; 2 by 2 keys, list of 2, PIN of 2, 3 presses; 4 columns, 2 messages, 1 restart, 1 glitch; watchdog in half seconds as configured | the four devices |

The bounds are small but reach what matters.

- Ledger: a chunk shorter than the log, so a delete leaves lines; a record appended
  at every point of a flush; a second and a third attempt after a late
  acknowledgement; a log at its cap with a registration on top; a second card,
  so that one card's count is not the length of the log.
- `Terminal`: the time-out and the clock are a few units, since what matters is that
  the time offline can be below, at and beyond the time-out, and that the clock
  can start again below the stamp. Nothing but the log (`MaxFill`) is bounded, in
  particular not the number of resets, logins or faults.
- `PolicyFiles`: a list rewritten while another is looked up, a card changed twice
  during one lookup, a torn rewrite repaired by a later message, and a second
  fault on the way there.
- `SyncTask`: `MaxEvents` counts what need not happen (taps, downlinks, presses of key A,
  bearers that come or go, late or bunched answers, heap refusals, resets); retries,
  reconnects and time-outs are not bounded. With three events at most two answers
  are late, so three ids suffice. The counters wrap after one failure more than
  the limit, which is the hardest case.
- `FrontEnd`: the UIDs collide in the last bit of a level, in their size and with a
  common first level. `HoldMax`, half a second, is an assumption and not a bound of the
  code: nothing limits how long Core 1 takes to rewrite a list. Eight waits of a second and the feedback would exceed the 15 s,
  so the claim of `Fed` is about a Core 1 that keeps the mutex no longer.

`CHECK_DEADLOCK FALSE` (ledger runs, `policy`, `front`): once the records, downlinks,
cards or keys of the bound are used up, the system has nothing left to do.

### Fairness

`ledger_promise`: weak fairness of a task's steps: both tasks run at all times on their
own core and neither waits without a time-out inside a flush or a tap. Weak
fairness of `BrokerRecv`: an intact connection delivers. Weak fairness of `Boot`. None
for taps, registrations, GSM sessions or any fault. The number of faults is
finite, which is the assumption "the network works again at some time";
without it nothing can be delivered.

`terminal_live`: weak fairness of the steps of both tasks, as above. None for what
people, the backend or the network do: the two properties say "once the
network stays". The release and the cold sync are only looked at while no sync
runs; that a refresh meets such a moment follows from the order of things
inside a unit of the clock (`Settled`): the refresh comes every 0.5 s, and a Core 1
with nothing to send is idle for minutes.

`link`, `idle_downlink`: weak fairness of Core 1's steps, of its time-outs
(`ConnackTimeout`, `ReadTimeout`), of the broker's answers and of its closing a silent
client, of the write that key A has begun, and of time. Strong fairness of
`AckTimeout`: the turns of one PUBACK wait share a deadline of 8 s, so the wait
cannot go round for ever. None for taps, bearers, downlinks or GSM successes
against failures: `LinesLeave` is about a bearer that stays usable. A ping answer
in front of the PUBACK (`Bunched`) is an event, hence assumed to happen finitely often.

`front`: weak fairness of the driver's steps; strong fairness of `Tick`, since
`RFID_WATCHDOG_MS` passes again and again, and of `Poll`, since each loop that polls
goes round. None for people, noise and wires.

### Findings

1. **GSM deletes on any PUBACK** (`gsm_ack`). `_mqtt_publish_gsm` waits for the
   bytes 40 02 and drops the id, and the status message before it also asks for
   a PUBACK, whose wait may time out. Its late PUBACK acknowledges the fares.
   `src/README.md` 220 "must not delete a transaction ... until the backend has
   acknowledged the publish". `AckIsReal` shows that the Wi-Fi wait, though it reads
   in pieces of four bytes in or out of step, is never fooled by the broker's answers.
2. **A reset inside the delete loses the unsent lines** (`torn_delete`): between
   remove and rename they exist only in the temporary file, and boot creates an
   empty log. `src/README.md`, Failure Handling, "Old tx records remain queued until a
   successful ACK". `RecordsKept` shows that this window and a short copy are the
   only ways to lose a record that no PUBACK covered.
3. **A reset switches the kill switch off** (`kill_switch`). `transaction_set_rtc`
   has no caller, so time is uptime; after a reset it is below `sync.dat`, and the
   time offline counts as 0. `config.h` 95 "3-hour kill switch".
   `FareInWindow` shows that a restart of the clock is the only way, and
   `DenialIsDue` that the error is never in the other direction.
4. **A failed write at logout reopens the shift** (`closed_shift`).
   `statemachine.cpp` 74 "prevents WDT recovery resuming a closed shift".
   `ShiftStaysClosed` shows that it takes a failed write.
5. **A downlink to an idle terminal is lost** (`idle_downlink`). With nothing to send,
   `sync_task` polls the connection every five minutes, against a keepAlive of 15 s and
   a clean session: the broker drops the client and the downlink with it.
   `src/README.md` 15 "as soon as they arrive".

Two observations that are not runs. A lockdown for a full log is released by the
refresh that entered it, as the release looks only at the age of `sync.dat`; fares
stay refused, because the tap counts the lines again, and `StaleLockdownHolds` shows
that a lockdown by the kill switch does wait. A `SYS` list is merged into the list,
while `src/README.md` 292–295 says "Overwrites"; `ListsAsTold` is about what the code
does. Duplicates are not a finding: the upload is at-least-once, and
`DuplicateNeedsFault` says a record is sent twice only after a fault.

## 4. Proofs

Checked by TLAPS for all values of the constants. Every safety property that a
passing run checks is a theorem; `PROJECT.json` lists them.

Of `TxLedger`, for any number of riders, lines, records, faults
(`LedgerAssumption`, `ChunkLinesAssumption`):

- `TypeCorrect`: not inductive alone: `AppendTx` writes `rider`, so `TypeInv` adds that
  a tap under way has a card, and a flush a bearer.
- `ChunkStaysPrefix`, over `ChunkInv`. An append keeps every prefix
  (`FirstLinesOfAppend`), a delete ends the flush.
- `OfflineTapsBounded`, over `LookbackInv`. The strengthening: the count found by
  `CountTaps` is still below the limit when `AppendTx` runs, also if a delete, torn or
  short, ran in between; the copy holds no more fares of a card than the file
  (`CountUidDrop`, an injection that shifts positions, and `CountUidFirst`); and
  `/tx.log` is empty between remove and rename.
- `FaresCapped`, over `CapInv`: the same argument for all fares, which survives registrations
  and the second count in `AppendTx`.
- `RecordsAlwaysKept`, over `KeptInv`: ids in the file are in order and are those written
  and not retired; the copy is the file minus the chunk, unless it was cut short. The lemma
  `FileSteps` says once what a step can do to the two files (nothing, append, copy,
  remove, rename, tear), and the proofs go through that list.
- `ReceivedOldestFirst`, over `FrontInv`: what is in flight on either connection, and the
  chunk, is a batch closed under "older and not yet received" (`Oldest`), through
  failover.
- `DuplicatesNeedFault`, over `FaultlessInv`: before the first fault there is one message or
  its acknowledgement under way, and the broker has nothing of the log but the
  chunk.
- `DeletedAfterAck`: if GSM is not used, a line is deleted only after the broker has it,
  over `AckInv`: ids on a connection are below the next one, the message with the
  current id carries the chunk, and its acknowledgement means the broker has
  the chunk. `gsm_ack` shows that the assumption cannot be dropped.
- `KeepsPromise`: `Spec => ImplementsStoreForward`, if GSM is not used and no delete is torn
  or short; `gsm_ack` and `torn_delete` show why. Each step maps to `Write`, `Receive`,
  `Forget` or a stutter, by the invariants above.
- `InvariantHolds`: the conjunction that `ledger_promise` checks.

Of `Terminal`, for every staff list, time-out, clock and set of faults
(`TerminalAssumption`):

- `HandlerInv`: types, and which state goes with which step of a handler. Every
  other invariant needs it: without it a cold-sync step could log a serving
  driver out.
- `FaresInWindow`, `DenialsAreDue`, `StaleLockdownsHold`, over `ClockInv`: the clock
  minus `sync.dat` never exceeds the time really passed, and equals it (up to
  `TooOld`) until the clock restarts; a terminal that was never stamped is as old
  as can be.
- `SessionFileAgrees`, `ClosedShiftsStayClosed`, over `SessionInv`: unless a write
  failed, `sess.dat` holds the driver on shift or nobody, also in the cold sync,
  where nobody serves but a reset would resume. `TerminalInvariantHolds` joins both.

Of the other modules:

Of `PolicyFiles`, for all cards, PINs, fares, seeds, downlinks and faults
(`PolicyAssumption`), over `PolicyInv`, the types and these three:

- `LostInv` gives `LostListsHoldService`: a list lost and not written since is empty,
  whatever is removed from it meanwhile; the copy under way is empty unless the command
  adds; and the step between the two reads of the cold sync knows that the whitelist
  was there.
- `ListsInv` gives `NoCardTwice` and `ListsSayWhatTold`: between remove and rename the
  temporary file is what the list was with the command carried out, so the rename
  makes true what `told` then says. `RewrittenFacts` says what a rewrite does to the entry
  of each card; that `Removed` is again a list, with no other entry lost, is a bijection
  between positions (`RanksNumber`, `RemovedFacts`).
- `LookupInv` gives `VerdictsAreCurrent` and `LoginsAreCurrent`: what a lookup has found so far
  was said at some time since it began (`seen`), list by list, and only the staff card
  that was found is asked for a PIN.

Of `SyncTask`, for every limit, width, text and number of events (`MqttAssumption`,
`SyncAssumption`):

- `LinkTypes`, over `TypeInv`: lines are under way only inside a PUBACK wait, and every
  downlink was an event, so its number is a byte (`RoomInv`).
- `FlipsAreEarned`, over `CountersInv`, and `ModeAlwaysObeyed`, over `ModeInv`: below the limit
  a counter is at most the failures in a row, and beyond it so are those; a wrapped
  counter is behind. A pass that read a forced mode is in no step of the other bearer.
- `AcksAreReal`, if there are fewer events than message ids (`MaxEvents \in MsgIds`; the
  code has 65 535 ids), over `AckInv`: wherever the four bytes 40 02 00 id can be cut from
  the stream, in step or not, they are a PUBACK that the broker sent (`Genuine`); the
  PUBACKs and the publishes on their way are in order of age (`InOrder`), and each of
  the older ones was given up at the cost of an event (`AtMost`), so none has come round
  to the present id. The lemmas about `Acks` say at which places of a joined, cut or read stream
  a PUBACK can be seen. Without the hypothesis an id would come round while its last
  PUBACK was still on its way.
- `DownlinksStayInOrder`, over `OrderInv`: at whatever byte of the stream a short PUBLISH seems
  to begin (`Starts`), a downlink that was sent stands there whole, and from front to back
  their numbers rise above those applied (`Numbered`). Reading any number of bytes shows
  no start that was not there (`NumberedCut`), and none begins in what is left and ends
  in what the broker sends next, since none of its packets begins as such a start goes on
  (`Firm`, `JoinStarts`). A PUBLISH read with sound lengths begins with such a start
  (`SoundStarts`), so it is the downlink that its number says (`FrontDownlink`).

Of `FrontEnd`:

- `ReadOnce`, over `VisitInv`, for any cards: a card that may not be read is asleep or waits
  for its HLTA, and no frame wakes it (`RequestedCards`, `SelectedCards`).
- `ReadsOneCard`, over `SelectInv`, for any cards that keep `CardAssumption`: once a level has a
  bit known or a level is behind it, only cards of that level are ready, and the bytes
  copied are theirs. The bits of a level determine its four bytes (`BytesBack`), a level that goes on is told from a last one by the
  cascade tag, so the cards that answer a SELECT of all 32 bits either all go on to the
  next level or have the same UID, and are one card (`AllGoOn`, `OneAddressed`).
- `ReportsAlwaysPresses`, over `PressInv`, for any matrix and list length: a key that is down
  and was reported is still on the list as pressed, so a scan cannot put it in slot 0
  again (`ScannedSlots`, `NextStateOf`).
- `TasksAreFed`, over `FedInv`, if the longest path through the handlers (`Longest`, counted in
  the sections that wait for the mutex and the delays) is below the time-out, and
  PubSubClient's is at most one half second more than it: what is left of a pass, from
  the time unfed so far, never reaches the time-out (`Within`). The first hypothesis
  is where `HoldMax` enters; as configured, 27 half seconds are below 30.
- `ScreenShows`, over `ShownInv`: while the wires are fine there is a run of the controller
  (`Leads`) that takes it from its present state through the nibbles still to be sent to
  the screen asked for. That there is one from any state it may be found in is
  `InitWorks`: the three 3s of `begin` leave it in step whatever it took the first for
  (`WakeUpWorks`). Texts of any length need no induction, as `Printed` says in one
  formula what the first k characters do.
- `FrontEndTypes`: the types of the four devices, from `SelectInv`, `PressInv` and
  `ShownInv`.

Only model-checked:

- Liveness (`Drains`, `LockdownEnds`, `ColdSyncEnds`, `LinesLeave`, `EveryCardIsRead`,
  `AlertFollowsReader`, `KeysAreHeard`), which is beyond the prover.

## 5. Not modelled

- Real time beyond `TaskWatchdog`: elsewhere a limit is "may time out".
- The text of lines and packets: `strtok`, the 511 bytes that a downlink is cut to, the
  2048 of PubSubClient's buffer; garbage read as a PUBLISH with lengths beyond its end.
- A file that does not open and a rename that fails.
- The AT dialogue with the modem: a session works or fails as a whole.
- OTA download and flash write, serial log, LED levels, brown-out registers.
- MIFARE authentication, read and write, the LCD's cursor and custom characters, and
  those parts of PubSubClient that the terminal does not call.
- The wrap of the 16-bit message ids in `TxLedger`; `SyncTask` has it.
- LittleFS and FreeRTOS themselves.

The four views of the two tasks are not composed: a policy list rewritten during a
flush of the log, say, meets it only in the mutex, and both models let a lock be
refused at any time.

## 6. Plan

Done: the ledger with its promise and proofs; the terminal with its proofs; policy
files; the sync loop with the byte stream; the devices; theorems of each, so that every
safety property of a passing run is one. Left, in order of worth:

1. The AT dialogue of a GSM session (echoes, prompts, late answers), in place of one step.
2. The cut of long downlinks, composed with `PolicyFiles`.
