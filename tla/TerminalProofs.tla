-------------------------- MODULE TerminalProofs --------------------------
(***************************************************************************)
(* Theorems of Terminal, for every staff list, time-out, width of the      *)
(* clock and size of the log, and for every combination of faults.         *)
(*                                                                         *)
(* The flags are proved on their own: they are values of variables as well *)
(* as formulas, and one prover is good at each.                            *)
(***************************************************************************)
EXTENDS TerminalInv, TLAPS

---------------------------------------------------------------------------
(* Types, and the state that goes with each step of a handler. *)

LEMMA FlagsInit == Init => FlagsOK
  BY DEF Init, FlagsOK

LEMMA FlagsNext ==
  ASSUME FlagsOK, [Next]_vars
  PROVE  FlagsOK'
<1> USE DEF FlagsOK, Keep, Show, SetDriverUid, SaveSession, ToReady, ToLockdown, ToOfflineLocked,
            Core0Only, Core1Only, flash
<1>1. ASSUME NEW c \in Staff, StaffTap(c) PROVE FlagsOK'
  BY Zenon, <1>1 DEF StaffTap
<1>2. CASE EnterPin
  BY Zenon, <1>2 DEF EnterPin
<1>3. CASE CancelPin
  BY Zenon, <1>3 DEF CancelPin
<1>4. CASE Logout
  BY Zenon, <1>4 DEF Logout
<1>5. CASE RiderTap
  BY Zenon, <1>5 DEF RiderTap
<1>6. CASE RegisterTap
  BY Zenon, <1>6 DEF RegisterTap
<1>7. CASE Refresh
  BY Zenon, <1>7 DEF Refresh, HasRefresh
<1>8. CASE CheckCapacity
  BY Zenon, <1>8 DEF CheckCapacity
<1>9. CASE CheckRelease
  BY Zenon, <1>9 DEF CheckRelease, Releasable
<1>10. CASE CheckCold
  BY Zenon, <1>10 DEF CheckCold
<1>11. CASE CheckColdDrivers
  BY Zenon, <1>11 DEF CheckColdDrivers
<1>12. CASE LookupDriver
  BY Zenon, <1>12 DEF LookupDriver, Prompt
<1>13. CASE LookupAdmin
  BY Zenon, <1>13 DEF LookupAdmin, Prompt
<1>14. CASE LoginDriver
  BY Zenon, <1>14 DEF LoginDriver
<1>15. CASE LoginAdmin
  BY Zenon, <1>15 DEF LoginAdmin
<1>16. CASE LoginFailed
  BY Zenon, <1>16 DEF LoginFailed
<1>17. CASE LoggedOut
  BY Zenon, <1>17 DEF LoggedOut
<1>18. CASE CheckSync
  BY Zenon, <1>18 DEF CheckSync, Offline
<1>19. CASE CheckSyncTimeout
  BY Zenon, <1>19 DEF CheckSyncTimeout
<1>20. CASE Deny
  BY Zenon, <1>20 DEF Deny
<1>21. CASE CheckLists
  BY Zenon, <1>21 DEF CheckLists
<1>22. CASE CheckRoom
  BY Zenon, <1>22 DEF CheckRoom, LogFull
<1>23. CASE RecordFare
  BY Zenon, <1>23 DEF RecordFare, LogFull
<1>24. CASE TapOver
  BY Zenon, <1>24 DEF TapOver
<1>25. CASE Link
  BY Zenon, <1>25 DEF Link
<1>26. CASE NextCard
  BY Zenon, <1>26 DEF NextCard
<1>27. CASE SyncBegin
  BY Zenon, <1>27 DEF SyncBegin
<1>28. CASE SyncNothing
  BY Zenon, <1>28 DEF SyncNothing
<1>29. CASE Deliver
  BY Zenon, <1>29 DEF Deliver
<1>30. CASE Stamp
  BY Zenon, <1>30 DEF Stamp, WriteSyncTs
<1>31. CASE SyncComplete
  BY Zenon, <1>31 DEF SyncComplete, WriteSyncTs
<1>32. CASE ListUpdate
  BY Zenon, <1>32 DEF ListUpdate
<1>33. CASE Reset
  BY Zenon, <1>33 DEF Reset, ReadSession, BootState
<1>34. CASE Tick
  BY Zenon, <1>34 DEF Tick, After, Settled
<1>35. CASE NetUp
  BY Zenon, <1>35 DEF NetUp
<1>36. CASE NetDown
  BY Zenon, <1>36 DEF NetDown
<1>37. CASE UNCHANGED vars
  BY Zenon, <1>37 DEF vars, flash, core0
<1>38. QED
  BY Zenon, <1>1, <1>2, <1>3, <1>4, <1>5, <1>6, <1>7, <1>8, <1>9, <1>10, <1>11,
     <1>12, <1>13, <1>14, <1>15, <1>16, <1>17, <1>18, <1>19, <1>20, <1>21,
     <1>22, <1>23, <1>24, <1>25, <1>26, <1>27, <1>28, <1>29, <1>30, <1>31,
     <1>32, <1>33, <1>34, <1>35, <1>36, <1>37
     DEF Next, Person, Core0Step, Core1Step

LEMMA HandlerInit == Init => HandlerInv
  BY FlagsInit, TerminalAssumption
  DEF Init, HandlerInv, TypeOK, BootState, HandlerState, States, Serving, Core0Pcs, TooOld

LEMMA HandlerNext ==
  ASSUME HandlerInv, [Next]_vars
  PROVE  HandlerInv'
<1>0. FlagsOK'
  BY FlagsNext DEF HandlerInv, TypeOK
<1> USE TerminalAssumption, <1>0
        DEF HandlerInv, TypeOK, HandlerState, States, Serving, Core0Pcs, TooOld,
            At, Goto, Keep, Show, SaveSession, SetDriverUid, ToReady, ToLockdown, ToOfflineLocked,
            NoCard, SameCard, Core0Only, Core1Only, core0, flash
<1>1. ASSUME NEW c \in Staff, StaffTap(c) PROVE HandlerInv'
  BY <1>1 DEF StaffTap
<1>2. CASE EnterPin
  BY <1>2 DEF EnterPin
<1>3. CASE CancelPin
  BY <1>3 DEF CancelPin
<1>4. CASE Logout
  BY <1>4 DEF Logout
<1>5. CASE RiderTap
  BY <1>5 DEF RiderTap
<1>6. CASE RegisterTap
  BY <1>6 DEF RegisterTap
<1>7. CASE Refresh
  BY <1>7 DEF Refresh, HasRefresh
<1>8. CASE CheckCapacity
  BY <1>8 DEF CheckCapacity
<1>9. CASE CheckRelease
  BY <1>9 DEF CheckRelease, Releasable
<1>10. CASE CheckCold
  BY <1>10 DEF CheckCold
<1>11. CASE CheckColdDrivers
  BY <1>11 DEF CheckColdDrivers
<1>12. CASE LookupDriver
  BY <1>12 DEF LookupDriver, Prompt
<1>13. CASE LookupAdmin
  BY <1>13 DEF LookupAdmin, Prompt
<1>14. CASE LoginDriver
  BY <1>14 DEF LoginDriver
<1>15. CASE LoginAdmin
  BY <1>15 DEF LoginAdmin
<1>16. CASE LoginFailed
  BY <1>16 DEF LoginFailed
<1>17. CASE LoggedOut
  BY <1>17 DEF LoggedOut
<1>18. CASE CheckSync
  BY <1>18 DEF CheckSync, Offline
<1>19. CASE CheckSyncTimeout
  BY <1>19 DEF CheckSyncTimeout
<1>20. CASE Deny
  BY <1>20 DEF Deny
<1>21. CASE CheckLists
  BY <1>21 DEF CheckLists
<1>22. CASE CheckRoom
  BY <1>22 DEF CheckRoom, LogFull
<1>23. CASE RecordFare
  BY <1>23 DEF RecordFare, LogFull
<1>24. CASE TapOver
  BY <1>24 DEF TapOver
<1>25. CASE Link
  BY <1>25 DEF Link
<1>26. CASE NextCard
  BY <1>26 DEF NextCard
<1>27. CASE SyncBegin
  BY <1>27 DEF SyncBegin
<1>28. CASE SyncNothing
  BY <1>28 DEF SyncNothing
<1>29. CASE Deliver
  BY <1>29 DEF Deliver
<1>30. CASE Stamp
  BY <1>30 DEF Stamp, WriteSyncTs
<1>31. CASE SyncComplete
  BY <1>31 DEF SyncComplete, WriteSyncTs
<1>32. CASE ListUpdate
  BY <1>32 DEF ListUpdate
<1>33. CASE Reset
  BY <1>33 DEF Reset, ReadSession, BootState
<1>34. CASE Tick
  BY <1>34 DEF Tick, After, Settled
<1>35. CASE NetUp
  BY <1>35 DEF NetUp
<1>36. CASE NetDown
  BY <1>36 DEF NetDown
<1>37. CASE UNCHANGED vars
  BY <1>37 DEF vars, flash, core0
<1>38. QED
  BY <1>1, <1>2, <1>3, <1>4, <1>5, <1>6, <1>7, <1>8, <1>9, <1>10, <1>11,
     <1>12, <1>13, <1>14, <1>15, <1>16, <1>17, <1>18, <1>19, <1>20, <1>21,
     <1>22, <1>23, <1>24, <1>25, <1>26, <1>27, <1>28, <1>29, <1>30, <1>31,
     <1>32, <1>33, <1>34, <1>35, <1>36, <1>37
     DEF Next, Person, Core0Step, Core1Step

---------------------------------------------------------------------------
(* The clock and the kill switch. *)

LEMMA ClockInit == Init => ClockInv
  BY HandlerInit, TerminalAssumption
  DEF Init, ClockInv, HandlerInv, TypeOK, TooOld, FareInWindow, DenialIsDue, StaleLockdownHolds

\* A stamp either does everything or nothing.
LEMMA StampWhole ==
  ASSUME WriteSyncTs
  PROVE  \/ syncTs' = now /\ age' = 0 /\ lockedFor' = "none"
         \/ UNCHANGED <<syncTs, age, steady, lockedFor>>
  BY Zenon DEF WriteSyncTs

LEMMA ClockRestarts ==
  ASSUME FlagsOK, Tick
  PROVE  steady' => steady /\ now # ClockWrap
  BY Zenon DEF FlagsOK, Tick

LEMMA ClockNext ==
  ASSUME ClockInv, [Next]_vars
  PROVE  ClockInv'
<1>0. HandlerInv'
  BY HandlerNext DEF ClockInv
<1> USE TerminalAssumption, <1>0
        DEF ClockInv, HandlerInv, TypeOK, HandlerState, TooOld,
            FareInWindow, DenialIsDue, StaleLockdownHolds,
            At, Goto, Keep, Show, SetDriverUid, ToReady, ToLockdown, ToOfflineLocked,
            Core0Only, Core1Only, core0, flash
<1>1. ASSUME NEW c \in Staff, StaffTap(c) PROVE ClockInv'
  BY <1>1 DEF StaffTap
<1>2. CASE EnterPin
  BY <1>2 DEF EnterPin
<1>3. CASE CancelPin
  BY <1>3 DEF CancelPin
<1>4. CASE Logout
  BY <1>4 DEF Logout
<1>5. CASE RiderTap
  BY <1>5 DEF RiderTap
<1>6. CASE RegisterTap
  BY <1>6 DEF RegisterTap
<1>7. CASE Refresh
  BY <1>7 DEF Refresh, HasRefresh
<1>8. CASE CheckCapacity
  BY <1>8 DEF CheckCapacity
<1>9. CASE CheckRelease
  BY <1>9 DEF CheckRelease, Releasable, Offline, Running
<1>10. CASE CheckCold
  BY <1>10 DEF CheckCold
<1>11. CASE CheckColdDrivers
  BY <1>11 DEF CheckColdDrivers
<1>12. CASE LookupDriver
  BY <1>12 DEF LookupDriver, Prompt
<1>13. CASE LookupAdmin
  BY <1>13 DEF LookupAdmin, Prompt
<1>14. CASE LoginDriver
  BY <1>14 DEF LoginDriver
<1>15. CASE LoginAdmin
  BY <1>15 DEF LoginAdmin
<1>16. CASE LoginFailed
  BY <1>16 DEF LoginFailed
<1>17. CASE LoggedOut
  BY <1>17 DEF LoggedOut
<1>18. CASE CheckSync
  BY <1>18 DEF CheckSync, Offline
<1>19. CASE CheckSyncTimeout
  BY <1>19 DEF CheckSyncTimeout
<1>20. CASE Deny
  BY <1>20 DEF Deny
<1>21. CASE CheckLists
  BY <1>21 DEF CheckLists
<1>22. CASE CheckRoom
  BY <1>22 DEF CheckRoom, LogFull
<1>23. CASE RecordFare
  BY <1>23 DEF RecordFare, LogFull
<1>24. CASE TapOver
  BY <1>24 DEF TapOver
<1>25. CASE Link
  BY <1>25 DEF Link
<1>26. CASE NextCard
  BY <1>26 DEF NextCard
<1>27. CASE SyncBegin
  BY <1>27 DEF SyncBegin
<1>28. CASE SyncNothing
  BY <1>28 DEF SyncNothing
<1>29. CASE Deliver
  BY <1>29 DEF Deliver
<1>30. CASE Stamp
  <2>1. UNCHANGED <<core0, now>>
    BY <1>30 DEF Stamp
  <2>2. CASE syncTs' = now /\ age' = 0 /\ lockedFor' = "none"
    BY <2>1, <2>2
  <2>3. CASE UNCHANGED <<syncTs, age, steady, lockedFor>>
    BY <2>1, <2>3
  <2>4. QED
    BY <1>30, <2>2, <2>3, StampWhole DEF Stamp
<1>31. CASE SyncComplete
  <2>1. UNCHANGED <<core0, now>>
    BY <1>31 DEF SyncComplete
  <2>2. CASE syncTs' = now /\ age' = 0 /\ lockedFor' = "none"
    BY <2>1, <2>2
  <2>3. CASE UNCHANGED <<syncTs, age, steady, lockedFor>>
    BY <2>1, <2>3
  <2>4. QED
    BY <1>31, <2>2, <2>3, StampWhole DEF SyncComplete
<1>32. CASE ListUpdate
  BY <1>32 DEF ListUpdate
<1>33. CASE Reset
  BY <1>33 DEF Reset, ReadSession, BootState
<1>34. CASE Tick
  <2>1. steady' => steady /\ now # ClockWrap
    BY <1>34, ClockRestarts
  <2>2. /\ now' = After(now) /\ age' = IF age = TooOld THEN age ELSE age + 1
        /\ UNCHANGED <<syncTs, state, pc0, lockedFor>>
        /\ pc0 \in {"pin", "idle"}
    BY <1>34 DEF Tick, Settled
  <2>3. QED
    BY <2>1, <2>2 DEF After
<1>35. CASE NetUp
  BY <1>35 DEF NetUp
<1>36. CASE NetDown
  BY <1>36 DEF NetDown
<1>37. CASE UNCHANGED vars
  BY <1>37 DEF vars, flash, core0
<1>38. QED
  BY <1>1, <1>2, <1>3, <1>4, <1>5, <1>6, <1>7, <1>8, <1>9, <1>10, <1>11,
     <1>12, <1>13, <1>14, <1>15, <1>16, <1>17, <1>18, <1>19, <1>20, <1>21,
     <1>22, <1>23, <1>24, <1>25, <1>26, <1>27, <1>28, <1>29, <1>30, <1>31,
     <1>32, <1>33, <1>34, <1>35, <1>36, <1>37
     DEF Next, Person, Core0Step, Core1Step

---------------------------------------------------------------------------
(* The session file and the shift. *)

LEMMA SessionInit == Init => SessionInv
  BY HandlerInit, TerminalAssumption
  DEF Init, SessionInv, SessionAgrees, ShiftStaysClosed, BootState, Serving

LEMMA SessionNext ==
  ASSUME SessionInv, [Next]_vars
  PROVE  SessionInv'
<1>0. HandlerInv'
  BY HandlerNext DEF SessionInv
<1> USE TerminalAssumption, <1>0
        DEF SessionInv, HandlerInv, TypeOK, HandlerState, SessionAgrees, ShiftStaysClosed, Serving,
            At, Goto, Keep, Show, SaveSession, SetDriverUid, ToReady, ToLockdown, ToOfflineLocked,
            Core0Only, Core1Only, core0, flash
<1>1. ASSUME NEW c \in Staff, StaffTap(c) PROVE SessionInv'
  BY <1>1 DEF StaffTap
<1>2. CASE EnterPin
  BY <1>2 DEF EnterPin
<1>3. CASE CancelPin
  BY <1>3 DEF CancelPin
<1>4. CASE Logout
  BY <1>4 DEF Logout
<1>5. CASE RiderTap
  BY <1>5 DEF RiderTap
<1>6. CASE RegisterTap
  BY <1>6 DEF RegisterTap
<1>7. CASE Refresh
  BY <1>7 DEF Refresh, HasRefresh
<1>8. CASE CheckCapacity
  BY <1>8 DEF CheckCapacity
<1>9. CASE CheckRelease
  BY <1>9 DEF CheckRelease, Releasable
<1>10. CASE CheckCold
  BY <1>10 DEF CheckCold
<1>11. CASE CheckColdDrivers
  BY <1>11 DEF CheckColdDrivers
<1>12. CASE LookupDriver
  BY <1>12 DEF LookupDriver, Prompt
<1>13. CASE LookupAdmin
  BY <1>13 DEF LookupAdmin, Prompt
<1>14. CASE LoginDriver
  BY <1>14 DEF LoginDriver
<1>15. CASE LoginAdmin
  BY <1>15 DEF LoginAdmin
<1>16. CASE LoginFailed
  BY <1>16 DEF LoginFailed
<1>17. CASE LoggedOut
  BY <1>17 DEF LoggedOut
<1>18. CASE CheckSync
  BY <1>18 DEF CheckSync, Offline
<1>19. CASE CheckSyncTimeout
  BY <1>19 DEF CheckSyncTimeout
<1>20. CASE Deny
  BY <1>20 DEF Deny
<1>21. CASE CheckLists
  BY <1>21 DEF CheckLists
<1>22. CASE CheckRoom
  BY <1>22 DEF CheckRoom, LogFull
<1>23. CASE RecordFare
  BY <1>23 DEF RecordFare, LogFull
<1>24. CASE TapOver
  BY <1>24 DEF TapOver
<1>25. CASE Link
  BY <1>25 DEF Link
<1>26. CASE NextCard
  BY <1>26 DEF NextCard
<1>27. CASE SyncBegin
  BY <1>27 DEF SyncBegin
<1>28. CASE SyncNothing
  BY <1>28 DEF SyncNothing
<1>29. CASE Deliver
  BY <1>29 DEF Deliver
<1>30. CASE Stamp
  BY <1>30 DEF Stamp, WriteSyncTs
<1>31. CASE SyncComplete
  BY <1>31 DEF SyncComplete, WriteSyncTs
<1>32. CASE ListUpdate
  BY <1>32 DEF ListUpdate
<1>33. CASE Reset
  BY <1>33 DEF Reset, ReadSession, BootState
<1>34. CASE Tick
  BY <1>34 DEF Tick, After, Settled
<1>35. CASE NetUp
  BY <1>35 DEF NetUp
<1>36. CASE NetDown
  BY <1>36 DEF NetDown
<1>37. CASE UNCHANGED vars
  BY <1>37 DEF vars, flash, core0
<1>38. QED
  BY <1>1, <1>2, <1>3, <1>4, <1>5, <1>6, <1>7, <1>8, <1>9, <1>10, <1>11,
     <1>12, <1>13, <1>14, <1>15, <1>16, <1>17, <1>18, <1>19, <1>20, <1>21,
     <1>22, <1>23, <1>24, <1>25, <1>26, <1>27, <1>28, <1>29, <1>30, <1>31,
     <1>32, <1>33, <1>34, <1>35, <1>36, <1>37
     DEF Next, Person, Core0Step, Core1Step

---------------------------------------------------------------------------
(* Theorems. *)

LEMMA ClockAlways == Spec => []ClockInv
<1>1. Init => ClockInv
  BY ClockInit
<1>2. ClockInv /\ [Next]_vars => ClockInv'
  BY ClockNext
<1>3. QED
  BY <1>1, <1>2, PTL DEF Spec

LEMMA SessionAlways == Spec => []SessionInv
<1>1. Init => SessionInv
  BY SessionInit
<1>2. SessionInv /\ [Next]_vars => SessionInv'
  BY SessionNext
<1>3. QED
  BY <1>1, <1>2, PTL DEF Spec

\* Every variable keeps its type: no handler leaves a state, a session or a
\* clock that the next boot or refresh has no case for.
THEOREM TerminalTypeCorrect == Spec => []TypeOK
<1>1. ClockInv => TypeOK
  BY DEF ClockInv, HandlerInv
<1>2. QED
  BY <1>1, ClockAlways, PTL

\* The strengthening the theorems below rest on holds through every boot, tap,
\* PIN, downlink, sync and reset: what a handler knows of its session and of
\* the clock is still so at its next step.
THEOREM TerminalInvariantHolds == Spec => []TerminalInvariant
<1>1. ClockInv /\ SessionInv => TerminalInvariant
  BY DEF TerminalInvariant
<1>2. QED
  BY <1>1, ClockAlways, SessionAlways, PTL

\* auth_validate_tap: until the clock restarts, no fare gets past the kill
\* switch later than the time-out after the last sync.
THEOREM FaresInWindow == Spec => []FareInWindow
<1>1. ClockInv => FareInWindow
  BY DEF ClockInv
<1>2. QED
  BY <1>1, ClockAlways, PTL

\* auth_validate_tap: a rider is denied for want of a sync only when the last
\* one is longer ago than the time-out, however often the clock restarted.
THEOREM DenialsAreDue == Spec => []DenialIsDue
<1>1. ClockInv => DenialIsDue
  BY DEF ClockInv
<1>2. QED
  BY <1>1, ClockAlways, PTL

\* check_lockdown_release: a lockdown by the kill switch lasts until
\* sync.dat is stamped or the clock restarts.
THEOREM StaleLockdownsHold == Spec => []StaleLockdownHolds
<1>1. ClockInv => StaleLockdownHolds
  BY DEF ClockInv
<1>2. QED
  BY <1>1, ClockAlways, PTL

\* sm_transition and sm_init: unless a write failed, sess.dat holds the driver
\* while one is serving, and nobody while nobody is.
THEOREM SessionFileAgrees == Spec => []SessionAgrees
<1>1. SessionInv => SessionAgrees
  BY DEF SessionInv
<1>2. QED
  BY <1>1, SessionAlways, PTL

\* sm_init and sm_driver_logout: unless a session write failed, fares are only
\* booked to a driver who gave a PIN and has not been logged out, through
\* any number of resets.
THEOREM ClosedShiftsStayClosed == Spec => []ShiftStaysClosed
<1>1. SessionInv => ShiftStaysClosed
  BY DEF SessionInv
<1>2. QED
  BY <1>1, SessionAlways, PTL
=============================================================================
