----------------------------- MODULE Terminal -----------------------------
(***************************************************************************)
(* The terminal as its driver and its riders see it: the state machine     *)
(* (lib/statemachine), the handlers of rfid_ui_task (src/main.cpp), the    *)
(* checks of lib/auth, the session and sync.dat in flash, the uptime clock *)
(* of lib/transaction, and of Core 1 what releases a lockdown.             *)
(*                                                                         *)
(* One step of Core 0 is one critical section of the storage mutex with    *)
(* the transition it leads to, or one thing a person does.                 *)
(*                                                                         *)
(* Simplifications:                                                        *)
(*  - /tx.log is its number of lines (TxLedger has the lines);             *)
(*  - of the lists only what the states depend on is kept: whether wl.dat  *)
(*    is empty, and who is in drv.dat; adm.dat does not change;            *)
(*  - the clock counts units longer than a tap, a refresh or a flush, and  *)
(*    sync.dat is 0 only if it was never stamped (a stamp in the second    *)
(*    in which millis() wraps, which writes 0, is not modelled);           *)
(*  - key A and the net mode are not modelled.                             *)
(***************************************************************************)
EXTENDS Integers

CONSTANTS
  Staff,        \* cards that a staff list may hold
  Admins,       \* adm.dat
  NoStaff,      \* "NONE", or no card
  SyncTimeout,  \* SYNC_TIMEOUT_SECONDS
  ClockWrap,    \* millis() / 1000 starts again after this
  MaxLines,     \* TX_LOG_MAX_LINES
  Faults,       \* the kinds of fault that may happen
  MaxFill       \* bound: lines in the log, registrations beyond the cap included

ASSUME TerminalAssumption ==
  /\ Admins \subseteq Staff /\ NoStaff \notin Staff
  /\ SyncTimeout \in Nat /\ ClockWrap \in Nat \ {0}
  /\ MaxLines \in Nat /\ MaxFill \in Nat
  /\ Faults \subseteq {"lock", "write", "power"}

VARIABLES
  \* flash
  sess,      \* the driver of the active session in sess.dat, NoStaff if none
  syncTs,    \* sync.dat
  fill,      \* lines in /tx.log
  wl, drv,   \* wl.dat is not empty; the drivers in drv.dat
  \* Core 0
  state, driver, pc0, card, file,
  \* Core 1
  pc1, due,  \* due: a notification, or the five minutes, are pending
  \* the world
  now, online,
  \* history: the program keeps none of these
  age,       \* units since sync.dat was stamped, up to TooOld
  steady,    \* the clock has not restarted since
  shift,     \* the driver who gave a PIN and has not been logged out
  lockedFor, \* why the last lockdown was decided, until the next stamp
  unsaved,   \* a session write failed
  refreshed  \* a refresh has looked at the lockdown since anything changed

flash == <<sess, syncTs, fill, wl, drv>>
core0 == <<state, driver, pc0, card, file>>
vars  == <<flash, core0, pc1, due, now, online,
           age, steady, shift, lockedFor, unsaved, refreshed>>

Serving == {"READY", "PROCESSING", "APPROVED", "DENIED", "HARD_LOCKDOWN"}
States  == Serving \cup {"OFFLINE_LOCKED", "DRIVER_LOGIN", "REGISTER_MODE", "COLD_SYNC"}
Core0Pcs == {"idle", "cap", "release", "cold", "coldDrivers",
             "driver", "admin", "pin", "verify", "logout",
             "sync", "lists", "room", "append", "hold", "deny", "link", "ask"}
TooOld == SyncTimeout + 1

FlagsOK ==
  /\ wl \in BOOLEAN /\ due \in BOOLEAN /\ online \in BOOLEAN
  /\ steady \in BOOLEAN /\ unsaved \in BOOLEAN /\ refreshed \in BOOLEAN

TypeOK ==
  /\ FlagsOK
  /\ sess \in Staff \cup {NoStaff} /\ syncTs \in 0 .. ClockWrap
  /\ fill \in Nat /\ drv \subseteq Staff
  /\ state \in States /\ driver \in Staff \cup {NoStaff}
  /\ pc0 \in Core0Pcs /\ card \in Staff \cup {NoStaff}
  /\ file \in {"drv", "adm", "none"}
  /\ pc1 \in {"idle", "flush", "stamp"}
  /\ now \in 1 .. ClockWrap
  /\ age \in 0 .. TooOld
  /\ shift \in Staff \cup {NoStaff}
  /\ lockedFor \in {"none", "full", "stale", "error"}

Fault(kind) == kind \in Faults

---------------------------------------------------------------------------
\* sm_transition, for each state it is called with.  Each sets the state, the
\* driver and the session; lockedFor and shift are kept beside them.

\* The result of storage_write_session is ignored everywhere.
SaveSession(d) ==
  \/ sess' = d /\ UNCHANGED unsaved
  \/ Fault("write") /\ unsaved' = TRUE /\ UNCHANGED sess

\* sm_set_driver_uid: nobody, or the driver the session is written for.
SetDriverUid(d) == driver' = d

Keep == UNCHANGED <<driver, shift, sess, unsaved>>

\* A transition that only changes what is shown.
Show(s) == state' = s /\ Keep

\* A mutant: logs out in RAM only.
ToOfflineLockedUnsaved ==
  /\ state' = "OFFLINE_LOCKED" /\ SetDriverUid(NoStaff) /\ shift' = NoStaff
  /\ UNCHANGED <<sess, unsaved>>

ToOfflineLocked ==
  /\ state' = "OFFLINE_LOCKED" /\ SetDriverUid(NoStaff) /\ shift' = NoStaff
  /\ SaveSession(NoStaff)

\* A mutant: the session of a login is not saved.
ToReadyUnsaved(d) ==
  /\ state' = "READY" /\ SetDriverUid(d)
  /\ UNCHANGED <<sess, unsaved>>

ToReady(d) ==
  /\ state' = "READY" /\ SetDriverUid(d)
  /\ SaveSession(d)

ToLockdown == state' = "HARD_LOCKDOWN" /\ due' = TRUE /\ Keep

---------------------------------------------------------------------------
\* Boot.

\* setup: the session decides, then an empty list overrules it.
BootState(d) ==
  IF ~wl \/ drv = {} THEN "COLD_SYNC"
  ELSE IF d = NoStaff THEN "OFFLINE_LOCKED" ELSE "READY"

Init ==
  /\ sess = NoStaff /\ syncTs = 0 /\ fill = 0
  /\ wl \in BOOLEAN /\ drv \in SUBSET Staff
  /\ state = BootState(NoStaff) /\ driver = NoStaff
  /\ pc0 = "idle" /\ card = NoStaff /\ file = "none"
  /\ pc1 = "idle" /\ due = FALSE
  /\ now = 1 /\ online \in BOOLEAN
  /\ age = TooOld /\ steady = FALSE
  /\ shift = NoStaff /\ lockedFor = "none"
  /\ unsaved = FALSE /\ refreshed = FALSE

\* storage_read_session: "1,UID", or "0,NONE" as at the first boot.
ReadSession == sess

\* Power comes back, or the watchdog fires: flash survives, the uptime does
\* not.  sm_init resumes the session of sess.dat and writes it again.
Reset ==
  /\ Fault("power")
  /\ SetDriverUid(ReadSession) /\ state' = BootState(ReadSession)
  /\ IF ReadSession = NoStaff
       THEN shift' = NoStaff /\ UNCHANGED <<sess, unsaved>>
       ELSE SaveSession(ReadSession) /\ UNCHANGED shift
  /\ pc0' = "idle" /\ card' = NoStaff /\ file' = "none"
  /\ pc1' = "idle" /\ due' = FALSE
  /\ now' = 1 /\ steady' = FALSE /\ age' \in age .. TooOld
  /\ lockedFor' = "none" /\ refreshed' = FALSE
  /\ UNCHANGED <<syncTs, fill, wl, drv, online>>

---------------------------------------------------------------------------
\* Core 0.

At(pc) == pc0 = pc
Goto(pc) == pc0' = pc
NoCard == card' = NoStaff /\ file' = "none"
SameCard == UNCHANGED <<card, file>>

\* What no step of Core 0 changes.
Core0Only == UNCHANGED <<syncTs, wl, drv, pc1, now, online, age, steady>>

\* A mutant: unsigned subtraction without the test for now > last.
OfflineWrapping == (now + ClockWrap - syncTs) % ClockWrap

\* The time since the last sync, as both users of sync.dat compute it.
Offline == IF now > syncTs THEN now - syncTs ELSE 0

Running == pc1 # "idle"

\* The states in which the refresh does more than animate the display.
HasRefresh == state \in {"READY", "HARD_LOCKDOWN", "COLD_SYNC"}

\* The 500 ms refresh: capacity, lockdown release, cold sync, in this order.
Refresh ==
  /\ At("idle") /\ HasRefresh /\ Goto("cap")
  /\ SameCard /\ Keep /\ Core0Only /\ UNCHANGED <<state, fill, due, lockedFor, refreshed>>

\* -1 for a lock timeout is below the cap.
CheckCapacity ==
  /\ At("cap") /\ Goto("release")
  /\ \/ state = "READY" /\ fill >= MaxLines /\ ToLockdown /\ lockedFor' = "full"
     \/ (state # "READY" \/ fill < MaxLines \/ Fault("lock"))
          /\ Show(state) /\ UNCHANGED <<due, lockedFor>>
  /\ SameCard /\ Core0Only /\ UNCHANGED <<fill, refreshed>>

\* A mutant: any sync.dat that was ever written releases the terminal.
ReleasableOnceSynced == state = "HARD_LOCKDOWN" /\ ~Running /\ syncTs # 0

Releasable ==
  /\ state = "HARD_LOCKDOWN" /\ ~Running
  /\ syncTs # 0 /\ Offline < SyncTimeout

\* check_lockdown_release: why the lockdown was entered does not matter.
CheckRelease ==
  /\ At("release") /\ Goto("cold")
  /\ \/ Releasable /\ ToReady(driver) /\ UNCHANGED shift
     \/ (~Releasable \/ Fault("lock")) /\ Show(state)
  /\ refreshed' = TRUE
  /\ SameCard /\ Core0Only /\ UNCHANGED <<fill, due, lockedFor>>

\* A mutant: the two lists are looked at only while a sync is running.
CheckColdWhileRunning ==
  /\ At("cold")
  /\ Goto(IF state = "COLD_SYNC" /\ Running /\ wl THEN "coldDrivers" ELSE "idle")
  /\ SameCard /\ Keep /\ Core0Only /\ UNCHANGED <<state, fill, due, lockedFor, refreshed>>

\* Only between two syncs; wl.dat first.
CheckCold ==
  /\ At("cold")
  /\ Goto(IF state = "COLD_SYNC" /\ ~Running /\ wl THEN "coldDrivers" ELSE "idle")
  /\ SameCard /\ Keep /\ Core0Only /\ UNCHANGED <<state, fill, due, lockedFor, refreshed>>

CheckColdDrivers ==
  /\ At("coldDrivers") /\ Goto("idle")
  /\ IF drv # {} THEN ToOfflineLocked ELSE Show(state)
  /\ SameCard /\ Core0Only /\ UNCHANGED <<fill, due, lockedFor, refreshed>>

\* --- Login.

StaffTap(c) ==
  /\ At("idle") /\ state = "OFFLINE_LOCKED"
  /\ Goto("driver") /\ card' = c /\ UNCHANGED file
  /\ Keep /\ Core0Only /\ UNCHANGED <<state, fill, due, lockedFor, refreshed>>

Prompt(f) == Goto("pin") /\ file' = f /\ UNCHANGED card /\ Show("DRIVER_LOGIN")

\* auth_check_staff_uid looks into drv.dat and then into adm.dat.
LookupDriver ==
  /\ At("driver")
  /\ \/ card \in drv /\ Prompt("drv")
     \/ (card \notin drv \/ Fault("lock")) /\ Goto("admin") /\ SameCard /\ Show(state)
  /\ Core0Only /\ UNCHANGED <<fill, due, lockedFor, refreshed>>

LookupAdmin ==
  /\ At("admin")
  /\ \/ card \in Admins /\ Prompt("adm")
     \/ (card \notin Admins \/ Fault("lock")) /\ Goto("idle") /\ NoCard /\ Show(state)
  /\ Core0Only /\ UNCHANGED <<fill, due, lockedFor, refreshed>>

\* keypad_read_pin returns when four digits are in, or on '*'.
EnterPin ==
  /\ At("pin") /\ Goto("verify")
  /\ SameCard /\ Keep /\ Core0Only /\ UNCHANGED <<state, fill, due, lockedFor, refreshed>>

CancelPin ==
  /\ At("pin") /\ Goto("idle") /\ NoCard /\ ToOfflineLocked
  /\ Core0Only /\ UNCHANGED <<fill, due, lockedFor, refreshed>>

\* The PIN is right: auth_verify_pin finds the card in the file again.
LoginDriver ==
  /\ At("verify") /\ file = "drv" /\ card \in drv
  /\ Goto("idle") /\ NoCard
  /\ ToReady(card) /\ shift' = card
  /\ Core0Only /\ UNCHANGED <<fill, due, lockedFor, refreshed>>

\* An admin registers cards; sess.dat is not written.
LoginAdmin ==
  /\ At("verify") /\ file = "adm"
  /\ Goto("idle") /\ NoCard
  /\ state' = "REGISTER_MODE" /\ SetDriverUid(card)
  /\ Core0Only /\ UNCHANGED <<shift, sess, unsaved, fill, due, lockedFor, refreshed>>

\* A wrong PIN, a card that is gone from the file, or a lock timeout.
LoginFailed ==
  /\ At("verify") /\ Goto("idle") /\ NoCard /\ ToOfflineLocked
  /\ Core0Only /\ UNCHANGED <<fill, due, lockedFor, refreshed>>

\* '#': a sync is triggered and the session is written before the transition
\* writes it again.
Logout ==
  /\ \/ At("idle") /\ state \in {"READY", "REGISTER_MODE"}
     \/ At("ask")
  /\ Goto("logout") /\ due' = TRUE
  /\ SaveSession(NoStaff)
  /\ SameCard /\ Core0Only
  /\ UNCHANGED <<state, driver, shift, fill, lockedFor, refreshed>>

LoggedOut ==
  /\ At("logout") /\ Goto("idle") /\ ToOfflineLocked
  /\ SameCard /\ Core0Only /\ UNCHANGED <<fill, due, lockedFor, refreshed>>

\* --- A rider's tap.

RiderTap ==
  /\ At("idle") /\ state = "READY"
  /\ Goto("sync") /\ Show("PROCESSING")
  /\ SameCard /\ Core0Only /\ UNCHANGED <<fill, due, lockedFor, refreshed>>

\* A mutant: any terminal that ever synced is let through.
CheckSyncOnce ==
  /\ At("sync")
  /\ IF syncTs # 0
       THEN Goto("lists") /\ Show(state) /\ UNCHANGED lockedFor
       ELSE Goto("deny") /\ Show("DENIED") /\ lockedFor' = "stale"
  /\ SameCard /\ Core0Only /\ UNCHANGED <<fill, due, refreshed>>

\* The kill switch: auth_validate_tap, step 1.
CheckSync ==
  /\ At("sync")
  /\ IF syncTs # 0 /\ Offline <= SyncTimeout
       THEN Goto("lists") /\ Show(state) /\ UNCHANGED lockedFor
       ELSE Goto("deny") /\ Show("DENIED") /\ lockedFor' = "stale"
  /\ SameCard /\ Core0Only /\ UNCHANGED <<fill, due, refreshed>>

\* A sync.dat that cannot be read is 0.
CheckSyncTimeout ==
  /\ At("sync") /\ Fault("lock")
  /\ Goto("deny") /\ Show("DENIED") /\ lockedFor' = "error"
  /\ SameCard /\ Core0Only /\ UNCHANGED <<fill, due, refreshed>>

Deny ==
  /\ At("deny") /\ Goto("idle") /\ ToLockdown
  /\ SameCard /\ Core0Only /\ UNCHANGED <<fill, lockedFor, refreshed>>

\* Lists and lookback: passed, refused, or an error with no state of its own.
CheckLists ==
  /\ At("lists")
  /\ \/ Goto("room") /\ Show(state)
     \/ Goto("hold") /\ Show("DENIED")
     \/ Fault("lock") /\ Goto("hold") /\ Show(state)
  /\ SameCard /\ Core0Only /\ UNCHANGED <<fill, due, lockedFor, refreshed>>

LogFull == Goto("idle") /\ ToLockdown /\ lockedFor' = "full"

CheckRoom ==
  /\ At("room")
  /\ \/ fill >= MaxLines /\ LogFull
     \/ (fill < MaxLines \/ Fault("lock"))
          /\ Goto("append") /\ Show(state) /\ UNCHANGED <<due, lockedFor>>
  /\ SameCard /\ Core0Only /\ UNCHANGED <<fill, refreshed>>

RecordFare ==
  /\ At("append")
  /\ \/ /\ fill < MaxLines /\ fill' = fill + 1
        /\ Goto("hold") /\ Show("APPROVED") /\ due' = TRUE /\ UNCHANGED lockedFor
     \/ fill >= MaxLines /\ LogFull /\ UNCHANGED fill
     \/ Fault("lock") /\ Goto("hold") /\ Show(state) /\ UNCHANGED <<fill, due, lockedFor>>
  /\ SameCard /\ Core0Only /\ UNCHANGED refreshed

\* The result has been on the display for LCD_RESULT_MS.
TapOver ==
  /\ At("hold") /\ Goto("idle") /\ ToReady(driver) /\ UNCHANGED shift
  /\ SameCard /\ Core0Only /\ UNCHANGED <<fill, due, lockedFor, refreshed>>

\* --- Registration.

RegisterTap ==
  /\ At("idle") /\ state = "REGISTER_MODE" /\ fill < MaxFill
  /\ Goto("link")
  /\ SameCard /\ Keep /\ Core0Only /\ UNCHANGED <<state, fill, due, lockedFor, refreshed>>

\* A card that is linked already, or one whose link is written.  There is no
\* cap, and whether the write worked is not looked at.
Link ==
  /\ At("link")
  /\ \/ wl /\ Goto("idle") /\ UNCHANGED <<fill, due>>
     \/ Goto("ask") /\ due' = TRUE /\ fill' = fill + 1
     \/ Fault("lock") /\ Goto("ask") /\ due' = TRUE /\ UNCHANGED fill
  /\ SameCard /\ Keep /\ Core0Only /\ UNCHANGED <<state, lockedFor, refreshed>>

\* 1, or else 0 or thirty seconds ('#' is Logout).
NextCard ==
  /\ At("ask") /\ Goto("idle")
  /\ Show(state) \/ ToOfflineLocked
  /\ SameCard /\ Core0Only /\ UNCHANGED <<fill, due, lockedFor, refreshed>>

Person ==
  \/ (\E c \in Staff : StaffTap(c)) \/ EnterPin \/ CancelPin
  \/ Logout \/ RiderTap \/ RegisterTap

Core0Step ==
  \/ Refresh \/ CheckCapacity \/ CheckRelease \/ CheckCold \/ CheckColdDrivers
  \/ LookupDriver \/ LookupAdmin \/ LoginDriver \/ LoginAdmin \/ LoginFailed
  \/ LoggedOut \/ CheckSync \/ CheckSyncTimeout \/ Deny
  \/ CheckLists \/ CheckRoom \/ RecordFare \/ TapOver \/ Link \/ NextCard

---------------------------------------------------------------------------
\* Core 1, as far as Core 0 notices.

Core1Only == UNCHANGED <<sess, core0, now, shift, unsaved>>

\* s_running is set once Wi-Fi is connected, but before a GSM attempt; a Wi-Fi
\* attempt without a network ends here, its trigger used up.
SyncBegin ==
  /\ pc1 = "idle" /\ (due \/ fill > 0)
  /\ pc1' = "flush" \/ (~online /\ pc1' = "idle")
  /\ due' = FALSE /\ refreshed' = FALSE
  /\ Core1Only /\ UNCHANGED <<syncTs, fill, wl, drv, online, age, steady, lockedFor>>

\* Nothing to send, or the attempt fails before the PUBACK.
SyncNothing ==
  /\ pc1 = "flush" /\ (fill = 0 \/ ~online \/ Fault("lock"))
  /\ pc1' = "idle" /\ refreshed' = FALSE
  /\ Core1Only /\ UNCHANGED <<syncTs, fill, wl, drv, due, online, age, steady, lockedFor>>

\* A chunk is acknowledged and deleted, or the delete cannot have the lock.
Deliver ==
  /\ pc1 = "flush" /\ online /\ fill > 0
  /\ fill' \in 0 .. fill - 1 \/ (Fault("lock") /\ fill' = fill)
  /\ pc1' = "stamp"
  /\ Core1Only
  /\ UNCHANGED <<syncTs, wl, drv, due, online, age, steady, lockedFor, refreshed>>

\* A mutant: sync.dat is not written.
WriteSyncTsNever == UNCHANGED <<syncTs, age, steady, lockedFor>>

WriteSyncTs ==
  \/ syncTs' = now /\ age' = 0 /\ steady' = TRUE /\ lockedFor' = "none"
  \/ Fault("lock") /\ UNCHANGED <<syncTs, age, steady, lockedFor>>

Stamp ==
  /\ pc1 = "stamp" /\ pc1' = "idle" /\ refreshed' = FALSE
  /\ WriteSyncTs
  /\ Core1Only /\ UNCHANGED <<fill, wl, drv, due, online>>

\* SYS:SYNC_COMPLETE, in s_mqtt.loop.
SyncComplete ==
  /\ online /\ pc1 \in {"idle", "flush"}
  /\ WriteSyncTs
  /\ refreshed' = FALSE
  /\ Core1Only /\ UNCHANGED <<fill, wl, drv, pc1, due, online>>

\* Any command on a list that the states depend on.
ListUpdate ==
  /\ online /\ pc1 \in {"idle", "flush"}
  /\ wl' \in BOOLEAN /\ drv' \in SUBSET Staff
  /\ refreshed' = FALSE
  /\ Core1Only /\ UNCHANGED <<syncTs, fill, pc1, due, online, age, steady, lockedFor>>

Core1Step == SyncBegin \/ SyncNothing \/ Deliver \/ Stamp

---------------------------------------------------------------------------
\* Time and the network.

\* Nothing that takes milliseconds or seconds is left undone when a unit of
\* the clock is over; only a PIN prompt lasts as long as it likes.
Settled ==
  /\ pc1 = "idle" /\ ~due /\ (fill = 0 \/ ~online)
  /\ \/ At("pin")
     \/ At("idle") /\ (HasRefresh => refreshed)

\* A mutant: the clock does not wrap.
AfterUnwrapped(t) == t + 1

After(t) == IF t = ClockWrap THEN 1 ELSE t + 1

\* A unit passes; the five minutes between two syncs are over.
Tick ==
  /\ Settled
  /\ now' = After(now)
  /\ steady' = (steady /\ now # ClockWrap)
  /\ age' = IF age = TooOld THEN age ELSE age + 1
  /\ due' = TRUE /\ refreshed' = FALSE
  /\ UNCHANGED <<flash, core0, pc1, online, shift, lockedFor, unsaved>>

\* A new IP address triggers a sync.
NetUp ==
  /\ ~online /\ online' = TRUE /\ due' = TRUE
  /\ UNCHANGED <<flash, core0, pc1, now, age, steady, shift, lockedFor, unsaved, refreshed>>

NetDown ==
  /\ online /\ online' = FALSE
  /\ UNCHANGED <<flash, core0, pc1, due, now, age, steady, shift, lockedFor, unsaved, refreshed>>

Next ==
  \/ Person \/ Core0Step
  \/ Core1Step \/ SyncComplete \/ ListUpdate
  \/ Reset \/ Tick \/ NetUp \/ NetDown

Spec == Init /\ [][Next]_vars

\* Both tasks run.  Nobody has to tap, to type a PIN or to press a key, the
\* backend has to send nothing, and the network may stay away.
Fairness == WF_vars(Core0Step) /\ WF_vars(Core1Step)

FairSpec == Spec /\ Fairness

---------------------------------------------------------------------------
(* What is checked. *)

\* The session file and the state agree through every handler: a driver who is
\* serving can be resumed after a reset, and nobody else can, neither an admin
\* in register mode nor a driver who has left.  (A failed write is another
\* matter; between the two writes of a logout the file is ahead.)
SessionAgrees ==
  ~unsaved =>
    /\ state \in Serving /\ pc0 # "logout" => sess = driver
    /\ state \in {"OFFLINE_LOCKED", "DRIVER_LOGIN", "REGISTER_MODE"} => sess = NoStaff

\* Whoever fares are booked to has given a driver's PIN and has not been
\* logged out since, whatever resets happen, unless a session write failed.
ShiftStaysClosed ==
  ~unsaved /\ state \in Serving => driver # NoStaff /\ driver = shift

\* While the clock has not restarted, no fare gets past the kill switch later
\* than SYNC_TIMEOUT_SECONDS after the last sync.
FareInWindow ==
  pc0 \in {"lists", "room", "append"} /\ steady => age <= SyncTimeout

\* A rider is turned away for want of a sync only when there has been none for
\* SYNC_TIMEOUT_SECONDS, also after resets and wraps of the clock.
DenialIsDue == lockedFor = "stale" => age > SyncTimeout

\* A lockdown by the kill switch is not left before sync.dat is stamped, other
\* than by a restart of the clock.
StaleLockdownHolds ==
  lockedFor = "stale" /\ (steady \/ syncTs = 0) =>
    state = "HARD_LOCKDOWN" \/ pc0 = "deny"

\* A terminal that is locked down and has lines to send serves again once the
\* network stays.
LockdownEnds ==
  <>[]online => (state = "HARD_LOCKDOWN" /\ fill > 0 ~> state # "HARD_LOCKDOWN")

\* A terminal that waits for its lists stops waiting when they are there to
\* stay and the network is.
ColdSyncEnds ==
  <>[](online /\ wl /\ drv # {}) => <>[](state # "COLD_SYNC")

\* statemachine.cpp, sm_driver_logout: the session is cleared, which "prevents
\* WDT recovery resuming a closed shift".
ClosedShift == state \in Serving => driver = shift

\* config.h and auth.cpp, the 3-hour kill switch: no fare later than that.
KillSwitch == pc0 \in {"lists", "room", "append"} => age <= SyncTimeout

=============================================================================
