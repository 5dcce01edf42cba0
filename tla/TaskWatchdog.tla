----------------------------- MODULE TaskWatchdog -----------------------------
(***************************************************************************)
(* The task watchdog (lib/power) and how long the two tasks it watches go  *)
(* without feeding it: rfid_ui_task on Core 0, and Arduino's loop() on     *)
(* Core 1, below sync_task.  Time passes in half seconds; what takes less  *)
(* than a tenth is left out, every longer delay is rounded up.             *)
(*                                                                         *)
(* A pass of rfid_ui_task is the list of what it waits for: a path through *)
(* the handlers, as                                                        *)
(*    "beat"    half a second of vTaskDelay                                *)
(*    "fed"     half a second that feeds the watchdog meanwhile            *)
(*    "lock"    the storage mutex                                          *)
(*    "prompt"  keys, as long as people take, with the watchdog fed        *)
(* The two tasks are looked at one at a time, as neither waits for the     *)
(* other.                                                                  *)
(***************************************************************************)
EXTENDS Naturals, Sequences

CONSTANTS
  WdtTimeout,     \* WDT_TIMEOUT_SECONDS, in half seconds
  SocketTimeout,  \* PubSubClient's socketTimeout
  LockTimeout,    \* the three seconds of _lock
  HoldMax         \* bound: how long Core 1 keeps the storage mutex

\* The loop of a failed boot, which feeds every five seconds, is fast enough.
ASSUME WatchdogAssumption ==
  /\ WdtTimeout \in Nat /\ WdtTimeout >= 10
  /\ SocketTimeout \in Nat /\ LockTimeout \in Nat /\ HoldMax \in Nat

VARIABLES
  watched,   \* which of the two tasks
  agenda,      \* what is left of rfid_ui_task's pass
  unfed,     \* half seconds since the watched task fed the watchdog
  spin,      \* half seconds that sync_task has been waiting for a byte
  booted     \* boot_hardware was successful

WD_vars == <<watched, agenda, unfed, spin, booted>>

Waits == {"beat", "fed", "lock", "prompt"}

WD_TypeOK ==
  /\ watched \in {"rfid_ui", "loop"}
  /\ agenda \in Seq(Waits)
  /\ unfed \in 0 .. WdtTimeout + LockTimeout
  /\ spin \in 0 .. SocketTimeout
  /\ booted \in BOOLEAN

\* boot_hardware: the reader and the file system have to be there.
BootHardware == \E rfid, storage \in BOOLEAN : booted' = (rfid /\ storage)

\* power_init: both tasks are watched from here on, if both exist.
WD_Init ==
  /\ watched \in {"rfid_ui", "loop"}
  /\ agenda = <<>> /\ unfed = 0 /\ spin = 0
  /\ booted \in BOOLEAN

-----------------------------------------------------------------------------
(* The paths through the handlers.                                         *)

Times(n, wait) == [i \in 1 .. n |-> wait]

FeedbackApproved == Times(4, "beat")
FeedbackRejected == Times(4, "beat")
FeedbackOtp      == Times(2, "beat")
FeedbackLockdown == Times(3, "beat")

UiDelay(n) == Times(n, "fed")

ReadPinUnfed == Times(WdtTimeout, "beat")   \* a mutant
ReadPin == <<"prompt">>
AddNext == <<"prompt">>

WriteSession    == Times(1, "lock")
ToReady         == WriteSession
ToOfflineLocked == WriteSession
DriverLogout    == WriteSession \o ToOfflineLocked
CycleNetMode    == FeedbackApproved \o Times(3, "beat")

\* The refresh: capacity, then release.
Refresh == {<<>>, <<"lock">>, <<"lock">> \o FeedbackLockdown, <<"lock">> \o ToReady}

\* '#' and 'A' do something.
ModeKeypad == {<<>>, DriverLogout, CycleNetMode}
Keypress   == {<<>>} \cup ModeKeypad

\* The reader's watchdog: healthy, recovered, or dead with the fault notice.
RfidTick == {<<>>, <<"beat">>, <<"beat">> \o FeedbackRejected}

\* Two lists are searched, or one for a driver; the PIN is looked up.
AfterPin ==
  {UiDelay(2) \o ToOfflineLocked,
   <<"lock">> \o ToReady,
   <<"lock">>,
   <<"lock">> \o FeedbackRejected \o UiDelay(4) \o ToOfflineLocked,
   <<"lock">> \o FeedbackRejected \o ToOfflineLocked}

LoginTap ==
  {Times(2, "lock") \o FeedbackRejected \o after : after \in {<<>>, UiDelay(4)}}
    \cup UNION {{Times(n, "lock") \o ReadPin \o after : after \in AfterPin} : n \in 1 .. 2}

\* Five sections check a fare, two more record it; any of them may end it.
Checks == 5
RecordLocks == Checks + 2

FareTap ==
  {Times(n, "lock") \o FeedbackRejected \o UiDelay(4) \o ToReady : n \in 1 .. RecordLocks}
    \cup {Times(RecordLocks, "lock") \o FeedbackApproved \o UiDelay(4) \o ToReady,
          <<"lock">> \o FeedbackRejected \o UiDelay(4) \o FeedbackLockdown}
    \cup {Times(n, "lock") \o FeedbackLockdown : n \in {Checks, RecordLocks}}

CardTap ==
  {<<"lock">> \o FeedbackRejected \o UiDelay(4)}
    \cup {<<"lock">> \o FeedbackOtp \o <<"lock">> \o UiDelay(10) \o AddNext \o after :
            after \in {<<>>, DriverLogout, ToOfflineLocked}}

Tapped == {<<>>, FeedbackRejected} \cup LoginTap \cup FareTap \cup CardTap

-----------------------------------------------------------------------------
(* Core 0.  The parts of a pass are put together whatever the state is;    *)
(* the states would forbid some.                                           *)

Pass ==
  /\ watched = "rfid_ui" /\ booted /\ agenda = <<>>
  /\ unfed' = 0
  /\ \E refresh \in Refresh, key \in Keypress, tick \in RfidTick, tap \in Tapped :
       agenda' = refresh \o key \o tick \o tap
  /\ UNCHANGED <<watched, spin, booted>>

TakesLock ==
  /\ unfed < WdtTimeout
  /\ agenda # <<>> /\ Head(agenda) = "lock"
  /\ \E wait \in 0 .. HoldMax : wait <= LockTimeout /\ unfed' = unfed + wait
  /\ agenda' = Tail(agenda)
  /\ UNCHANGED <<watched, spin, booted>>

Delays ==
  /\ unfed < WdtTimeout
  /\ agenda # <<>> /\ Head(agenda) # "lock"
  /\ unfed' = IF Head(agenda) = "beat" THEN unfed + 1 ELSE 0
  /\ agenda' = Tail(agenda)
  /\ UNCHANGED <<watched, spin, booted>>

-----------------------------------------------------------------------------
(* Core 1.  loop() has a lower priority than sync_task: it runs while that *)
(* one sleeps, but not while PubSubClient spins for a byte, where yield    *)
(* lets no lower priority run.                                             *)

\* loop feeds every second, the loop of a failed boot every five.
Period == IF booted THEN 2 ELSE 10

LoopTurn ==
  /\ watched = "loop" /\ spin = 0
  /\ unfed' = (unfed + 1) % Period
  /\ UNCHANGED <<watched, agenda, spin, booted>>

Spins ==
  /\ watched = "loop" /\ booted
  /\ unfed < WdtTimeout /\ spin < SocketTimeout
  /\ spin' = spin + 1 /\ unfed' = unfed + 1
  /\ UNCHANGED <<watched, agenda, booted>>

\* The byte is there, or the time is over.
SpinEnds ==
  /\ watched = "loop" /\ spin > 0 /\ unfed < WdtTimeout
  /\ spin' = 0 /\ unfed' = 0
  /\ UNCHANGED <<watched, agenda, booted>>

-----------------------------------------------------------------------------
\* The watchdog panics: the terminal boots again.
WdtReset ==
  /\ unfed >= WdtTimeout
  /\ agenda' = <<>> /\ unfed' = 0 /\ spin' = 0
  /\ BootHardware
  /\ UNCHANGED watched

WD_Next == Pass \/ TakesLock \/ Delays \/ LoopTurn \/ Spins \/ SpinEnds \/ WdtReset

-----------------------------------------------------------------------------
\* "If the code freezes for 15s, reboot" (power.cpp), and only then: on no path
\* through the handlers does rfid_ui_task go so long without feeding the watchdog,
\* as long as Core 1 keeps the mutex no longer than HoldMax at a time; and loop
\* does only when PubSubClient waits for a byte to within a second of its time-out.
Fed ==
  unfed >= WdtTimeout =>
    watched = "loop" /\ unfed <= spin + 1 /\ spin + 2 >= SocketTimeout

=============================================================================
