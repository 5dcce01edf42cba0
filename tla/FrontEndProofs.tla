--------------------------- MODULE FrontEndProofs ---------------------------
(***************************************************************************)
(* Theorems of FrontEnd: a key is reported once for each press, the        *)
(* watched tasks feed their watchdog in time, and the screen shows what    *)
(* the program asked for; the types of all four devices.                   *)
(***************************************************************************)
EXTENDS ReaderProofs

---------------------------------------------------------------------------
(* The keypad.                                                             *)

\* The library's list, and: a key that is down and was reported is still on it,
\* as pressed.
PressInv ==
  /\ list \in [1 .. ListMax -> Slot] /\ down \subseteq Keys
  /\ \A k \in down \ unread : \E i \in 1 .. ListMax :
       list[i].code = k /\ list[i].state \in {"PRESSED", "HOLD"}

\* A key on the list keeps its place; only an idle one turns pressed, and a closed
\* one that is pressed stays so.
LEMMA NextStateOf ==
  ASSUME NEW key \in Slot, NEW closed \in BOOLEAN, NEW late \in BOOLEAN
  PROVE  LET next == NextState(key, closed, late)
         IN  /\ next \in Slot /\ next.code = key.code
             /\ next.state = "PRESSED" /\ next.changed => key.state = "IDLE"
             /\ closed /\ key.state \in {"PRESSED", "HOLD"} => next.state \in {"PRESSED", "HOLD"}
<1> DEFINE next == NextState(key, closed, late)
           Kept == [key EXCEPT !.changed = FALSE]
<1>1. key.state \in {"IDLE", "PRESSED", "HOLD", "RELEASED"}
  BY DEF Slot, KeyStates
<1>2. CASE key.state = "IDLE"
  <2>1. next \in {Moved(key, "PRESSED"), Kept}
    BY <1>2, Zenon DEF NextState
  <2>2. QED
    BY <1>2, <2>1 DEF Moved, Slot, KeyStates
<1>3. CASE key.state = "PRESSED"
  <2>1. next = IF late THEN Moved(key, "HOLD") ELSE IF closed THEN Kept ELSE Moved(key, "RELEASED")
    BY <1>3, Zenon DEF NextState
  <2>2. QED
    BY <1>3, <2>1 DEF Moved, Slot, KeyStates
<1>4. CASE key.state = "HOLD"
  <2>1. next = IF closed THEN Kept ELSE Moved(key, "RELEASED")
    BY <1>4, Zenon DEF NextState
  <2>2. QED
    BY <1>4, <2>1 DEF Moved, Slot, KeyStates
<1>5. CASE key.state = "RELEASED"
  <2>1. next = Moved(key, "IDLE")
    BY <1>5, Zenon DEF NextState
  <2>2. QED
    BY <1>5, <2>1 DEF Moved, Slot, KeyStates
<1>6. QED
  BY <1>1, <1>2, <1>3, <1>4, <1>5

\* Before a scan, a slot that has a key has it in a state other than idle.
LEMMA ClearedSlots ==
  ASSUME list \in [1 .. ListMax -> Slot]
  PROVE  /\ Cleared(list) \in [1 .. ListMax -> Slot]
         /\ \A i \in 1 .. ListMax :
              /\ Cleared(list)[i].code # NoKey =>
                   Cleared(list)[i] = list[i] /\ list[i].state # "IDLE"
              /\ list[i].state # "IDLE" => Cleared(list)[i] = list[i]
BY DEF Cleared, Free, Slot, KeyStates

\* One scan of the matrix, slot by slot.
LEMMA ScannedSlots ==
  ASSUME NEW old \in [1 .. ListMax -> Slot], NEW closed \in SUBSET Keys, Updated(old, closed),
         NEW i \in 1 .. ListMax
  PROVE  IF old[i].code # NoKey
           THEN \E shut, late \in BOOLEAN : /\ shut <=> old[i].code \in closed
                                            /\ list'[i] = NextState(old[i], shut, late)
           ELSE \/ list'[i] = Free
                \/ \E k \in closed : /\ FindInList(old, k) = {}
                                    /\ list'[i] = Moved([Free EXCEPT !.code = k], "PRESSED")
<1> DEFINE missing == {k \in closed : FindInList(old, k) = {}}
           free    == FindInList(old, NoKey)
           rank(k) == Cardinality({m \in missing : Before(m, k)})
           added   == {k \in missing : rank(k) < Cardinality(free)}
           late(k) == long /\ \A m \in added : ~Before(m, k)
           newIn   == {k \in added : rank(k) = Cardinality({j \in free : j < i})}
<1>1. list'[i] = IF i \notin free
                   THEN NextState(old[i], old[i].code \in closed, late(old[i].code))
                   ELSE IF newIn = {} THEN Free
                   ELSE Moved([Free EXCEPT !.code = CHOOSE k \in newIn : TRUE], "PRESSED")
  BY DEF Updated
<1>2. i \in free <=> old[i].code = NoKey
  BY DEF FindInList
<1>3. newIn \subseteq missing
  OBVIOUS
<1>4. late(old[i].code) \in BOOLEAN
  OBVIOUS
<1>5. CASE i \notin free
  <2> DEFINE shut == old[i].code \in closed
             held == late(old[i].code)
  <2>1. list'[i] = NextState(old[i], shut, held)
    BY <1>1, <1>5, Zenon
  <2>2. shut \in BOOLEAN /\ held \in BOOLEAN
    BY <1>4
  <2>3. old[i].code # NoKey /\ (shut <=> old[i].code \in closed)
    BY <1>2, <1>5
  <2> HIDE DEF shut, held
  <2>4. QED
    BY <2>1, <2>2, <2>3, Zenon
<1>6. CASE i \in free /\ newIn = {}
  BY <1>1, <1>2, <1>6, Zenon
<1>7. CASE i \in free /\ newIn # {}
  <2> DEFINE k == CHOOSE k \in newIn : TRUE
  <2>1. k \in newIn
    BY <1>7
  <2>2. k \in closed /\ FindInList(old, k) = {}
    BY <1>3, <2>1
  <2>3. list'[i] = Moved([Free EXCEPT !.code = k], "PRESSED")
    BY <1>1, <1>7, Zenon
  <2>4. QED
    BY <1>2, <1>7, <2>2, <2>3
<1>8. QED
  BY <1>5, <1>6, <1>7

LEMMA PollReports ==
  ASSUME PressInv, Poll
  PROVE  /\ PressInv'
         /\ \A k \in Keys : Hit(list') = k => k \in unread \cup Ghosted
<1> DEFINE old == Cleared(list)
<1>1. /\ Updated(old, Sensed) /\ unread' = unread \ {Hit(list')} /\ down' = down
  BY DEF Poll
<1>2. /\ old \in [1 .. ListMax -> Slot]
      /\ \A i \in 1 .. ListMax :
           /\ old[i].code # NoKey => old[i] = list[i] /\ list[i].state # "IDLE"
           /\ list[i].state # "IDLE" => old[i] = list[i]
  BY ClearedSlots DEF PressInv
<1>3. Sensed \in SUBSET Keys /\ NoKey \notin Keys /\ 1 \in 1 .. ListMax
  BY KeypadAssumption DEF PressInv, Sensed, Ghosted
<1> HIDE DEF old
<1>4. \A i \in 1 .. ListMax :
        IF old[i].code # NoKey
          THEN \E shut, late \in BOOLEAN : /\ shut <=> old[i].code \in Sensed
                                           /\ list'[i] = NextState(old[i], shut, late)
          ELSE \/ list'[i] = Free
               \/ \E k \in Sensed : /\ FindInList(old, k) = {}
                                   /\ list'[i] = Moved([Free EXCEPT !.code = k], "PRESSED")
  BY <1>1, <1>2, <1>3, ScannedSlots
<1>5. Free \in Slot /\ \A k \in Keys : Moved([Free EXCEPT !.code = k], "PRESSED") \in Slot
  BY DEF Free, Slot, KeyStates, Moved
<1>6. \A i \in 1 .. ListMax : list'[i] \in Slot
  <2> TAKE i \in 1 .. ListMax
  <2>1. old[i] \in Slot
    BY <1>2
  <2>2. \A shut, late \in BOOLEAN : NextState(old[i], shut, late) \in Slot
    BY <2>1, NextStateOf
  <2>3. QED
    BY <1>3, <1>4, <1>5, <2>2
<1>7. list' \in [1 .. ListMax -> Slot]
  <2>1. list' = [i \in 1 .. ListMax |-> list'[i]]
    BY <1>1 DEF Updated
  <2>2. QED
    BY <1>6, <2>1
<1>8. ASSUME NEW k \in Keys, NEW i \in 1 .. ListMax,
             list[i].code = k, list[i].state \in {"PRESSED", "HOLD"}
      PROVE  old[i] = list[i] /\ FindInList(old, k) # {}
  <2>1. old[i] = list[i]
    BY <1>2, <1>8
  <2>2. i \in FindInList(old, k)
    BY <1>8, <2>1 DEF FindInList
  <2>3. QED
    BY <2>1, <2>2
<1>9. ASSUME NEW k \in Keys, Hit(list') = k
      PROVE  k \in unread \cup Ghosted
  <2>1. list'[1].state = "PRESSED" /\ list'[1].changed /\ list'[1].code = k
    BY <1>3, <1>9 DEF Hit
  <2>2. old[1].code = NoKey
    <3> SUFFICES ASSUME old[1].code # NoKey PROVE FALSE
      OBVIOUS
    <3>1. old[1] \in Slot
      BY <1>2, <1>3
    <3>2. PICK shut, late \in BOOLEAN : list'[1] = NextState(old[1], shut, late)
      BY <1>3, <1>4
    <3>3. old[1].state = "IDLE"
      BY <2>1, <3>1, <3>2, NextStateOf
    <3>4. QED
      BY <1>2, <1>3, <3>3
  <2>3. list'[1] # Free
    BY <2>1 DEF Free
  <2>4. k \in Sensed /\ FindInList(old, k) = {}
    <3>1. PICK m \in Sensed : /\ FindInList(old, m) = {}
                              /\ list'[1] = Moved([Free EXCEPT !.code = m], "PRESSED")
      BY <1>3, <1>4, <2>2, <2>3
    <3>2. list'[1].code = m
      BY <3>1 DEF Moved, Free
    <3>3. QED
      BY <2>1, <3>1, <3>2
  <2>5. CASE k \in down /\ k \notin unread
    <3>1. PICK i \in 1 .. ListMax : list[i].code = k /\ list[i].state \in {"PRESSED", "HOLD"}
      BY <2>5 DEF PressInv
    <3>2. QED
      BY <1>8, <2>4, <3>1
  <2>6. QED
    BY <2>4, <2>5 DEF Sensed
<1>10. ASSUME NEW k \in down', k \notin unread'
       PROVE  \E i \in 1 .. ListMax :
                list'[i].code = k /\ list'[i].state \in {"PRESSED", "HOLD"}
  <2>1. k \in Keys /\ k \in down
    BY <1>1, <1>10 DEF PressInv
  <2>2. CASE k = Hit(list')
    BY <1>3, <2>1, <2>2 DEF Hit
  <2>3. CASE k \notin unread
    <3>1. PICK i \in 1 .. ListMax : list[i].code = k /\ list[i].state \in {"PRESSED", "HOLD"}
      BY <2>1, <2>3 DEF PressInv
    <3>2. old[i] = list[i] /\ old[i].code = k /\ old[i] \in Slot /\ k \in Sensed
      BY <1>2, <1>8, <2>1, <3>1 DEF Sensed
    <3>3. PICK shut, late \in BOOLEAN : shut /\ list'[i] = NextState(old[i], shut, late)
      BY <1>3, <1>4, <2>1, <3>2
    <3>4. list'[i].code = k /\ list'[i].state \in {"PRESSED", "HOLD"}
      <4>1. shut = TRUE
        BY <3>3
      <4>2. list'[i] = NextState(old[i], TRUE, late) /\ late \in BOOLEAN
        BY <3>3, <4>1
      <4>3. /\ NextState(old[i], TRUE, late).code = old[i].code
            /\ NextState(old[i], TRUE, late).state \in {"PRESSED", "HOLD"}
        BY <3>1, <3>2, <4>2, NextStateOf, ZenonT(30)
      <4>4. QED
        BY <3>2, <4>2, <4>3
    <3>5. QED
      BY <3>4
  <2>4. QED
    BY <1>1, <1>10, <2>2, <2>3
<1>11. QED
  BY <1>1, <1>7, <1>9, <1>10 DEF PressInv

LEMMA PressNext ==
  ASSUME PressInv, KP_Next \/ UNCHANGED KP_vars
  PROVE  /\ PressInv'
         /\ \/ list' = list
            \/ \A k \in Keys : Hit(list') = k => k \in unread \cup Ghosted
<1>1. CASE Poll
  BY <1>1, PollReports
<1>2. CASE \E k \in Keys : Press(k) \/ Release(k)
  BY <1>2 DEF Press, Release, PressInv
<1>3. CASE StaffTap \/ RiderTap \/ Handled \/ AddTimeout \/ HoldTime \/ UNCHANGED KP_vars
  BY <1>3 DEF StaffTap, RiderTap, Handled, AddTimeout, Moves, HoldTime, KP_vars, PressInv
<1>4. QED
  BY <1>1, <1>2, <1>3 DEF KP_Next

\* keypad_get_key: for every matrix, list length and order of presses and
\* releases, a key that no three others close is reported once for each time it
\* was pressed, however long nobody polls.
THEOREM ReportsAlwaysPresses == Spec => ReportsArePresses
<1>1. Init => PressInv
  BY DEF Init, KP_Init, NoKeys, Free, Slot, KeyStates, PressInv
<1>2. PressInv /\ [Next]_vars => PressInv'
  BY PressNext, DeviceStep
<1>3. PressInv /\ [Next]_vars =>
        [\A k \in Keys : Hit(list) # k /\ Hit(list') = k => k \in unread \cup Ghosted]_KP_vars
  <2> SUFFICES ASSUME PressInv, [Next]_vars
               PROVE  [\A k \in Keys : Hit(list) # k /\ Hit(list') = k
                                           => k \in unread \cup Ghosted]_KP_vars
    OBVIOUS
  <2>1. CASE list' = list
    BY <2>1
  <2>2. CASE \A k \in Keys : Hit(list') = k => k \in unread \cup Ghosted
    BY <2>2
  <2>3. QED
    BY PressNext, <2>1, <2>2, DeviceStep
<1>4. QED
  BY <1>1, <1>2, <1>3, PTL DEF Spec, ReportsArePresses

---------------------------------------------------------------------------
(* The watchdog. *)

\* The most that may have gone unfed after a wait, with x before.
After1(wait, x) == CASE wait = "beat" -> x + 1
                     [] wait = "lock" -> x + HoldMax
                     [] OTHER         -> 0

\* Starting with a unfed, the waits of s stay below the time-out, and end with b
\* at most.
Within(s, a, b) ==
  /\ s \in Seq(Waits)
  /\ \E c \in [0 .. Len(s) -> 0 .. WdtTimeout - 1] :
       /\ a <= c[0] /\ c[Len(s)] <= b
       /\ \A i \in 1 .. Len(s) : After1(s[i], c[i - 1]) <= c[i]

LEMMA AfterGrows ==
  ASSUME NEW wait \in Waits, NEW x \in Nat, NEW y \in Nat, x <= y
  PROVE  After1(wait, x) \in Nat /\ After1(wait, x) <= After1(wait, y)
BY WatchdogAssumption DEF After1, Waits

LEMMA WithinNothing ==
  ASSUME NEW a \in 0 .. WdtTimeout - 1, NEW b \in Nat, a <= b
  PROVE  Within(<<>>, a, b)
<1> DEFINE c == [i \in 0 .. 0 |-> a]
<1>1. c \in [0 .. Len(<<>>) -> 0 .. WdtTimeout - 1] /\ a <= c[0] /\ c[Len(<<>>)] <= b
  OBVIOUS
<1>2. \A i \in 1 .. Len(<<>>) : FALSE
  OBVIOUS
<1>3. <<>> \in Seq(Waits)
  OBVIOUS
<1> HIDE DEF c
<1>4. QED
  BY <1>1, <1>2, <1>3 DEF Within

LEMMA WithinTimes ==
  ASSUME NEW n \in Nat, NEW wait \in Waits, NEW a \in 0 .. WdtTimeout - 1,
         NEW b \in 0 .. WdtTimeout - 1,
         NEW c \in [0 .. n -> 0 .. WdtTimeout - 1], a <= c[0], c[n] <= b,
         \A i \in 1 .. n : After1(wait, c[i - 1]) <= c[i]
  PROVE  Within(Times(n, wait), a, b)
<1> DEFINE s == Times(n, wait)
<1>1. s \in Seq(Waits) /\ Len(s) = n /\ \A i \in 1 .. n : s[i] = wait
  BY DEF Times
<1> HIDE DEF s
<1>2. QED
  BY <1>1 DEF Within, s

LEMMA WithinBeats ==
  ASSUME NEW n \in Nat, NEW a \in Nat, NEW b \in 0 .. WdtTimeout - 1, a + n <= b
  PROVE  Within(Times(n, "beat"), a, b)
<1> DEFINE c == [i \in 0 .. n |-> a + i]
<1>1. /\ c \in [0 .. n -> 0 .. WdtTimeout - 1] /\ a <= c[0] /\ c[n] <= b
      /\ a \in 0 .. WdtTimeout - 1
  BY WatchdogAssumption
<1>2. \A i \in 1 .. n : c[i - 1] + 1 <= c[i]
  OBVIOUS
<1> HIDE DEF c
<1>3. "beat" \in Waits /\ \A i \in 1 .. n : After1("beat", c[i - 1]) <= c[i]
  BY <1>2 DEF Waits, After1
<1>4. QED
  BY <1>1, <1>3, WithinTimes

LEMMA WithinLocks ==
  ASSUME NEW n \in 0 .. 7, NEW a \in Nat, NEW b \in 0 .. WdtTimeout - 1, a + n * HoldMax <= b
  PROVE  Within(Times(n, "lock"), a, b)
<1> DEFINE c == [i \in 0 .. n |-> a + i * HoldMax]
<1>1. HoldMax \in Nat /\ WdtTimeout \in Nat
  BY WatchdogAssumption
<1>2. \A i \in 0 .. n : i * HoldMax \in Nat /\ i * HoldMax <= n * HoldMax
  <2>1. \A k, i \in 0 .. 7 : i <= k => i * HoldMax \in Nat /\ i * HoldMax <= k * HoldMax
    BY <1>1
  <2>2. QED
    BY <2>1
<1>3. \A i \in 1 .. n : i * HoldMax = (i - 1) * HoldMax + HoldMax
  BY <1>1
<1>4. /\ c \in [0 .. n -> 0 .. WdtTimeout - 1] /\ a <= c[0] /\ c[n] <= b
      /\ a \in 0 .. WdtTimeout - 1
  BY <1>1, <1>2
<1>5. \A i \in 1 .. n : c[i - 1] + HoldMax <= c[i]
  BY <1>1, <1>2, <1>3
<1> HIDE DEF c
<1>6. "lock" \in Waits /\ \A i \in 1 .. n : After1("lock", c[i - 1]) <= c[i]
  BY <1>5 DEF Waits, After1
<1>7. n \in Nat
  OBVIOUS
<1>8. QED
  BY <1>4, <1>6, <1>7, WithinTimes

LEMMA WithinFed ==
  ASSUME NEW n \in Nat \ {0}, NEW wait \in {"fed", "prompt"}, NEW a \in 0 .. WdtTimeout - 1,
         NEW b \in 0 .. WdtTimeout - 1
  PROVE  Within(Times(n, wait), a, b)
<1> DEFINE c == [i \in 0 .. n |-> IF i = 0 THEN a ELSE 0]
<1>1. /\ c \in [0 .. n -> 0 .. WdtTimeout - 1] /\ a <= c[0] /\ c[n] <= b
      /\ \A i \in 1 .. n : 0 <= c[i]
  BY WatchdogAssumption
<1> HIDE DEF c
<1>2. wait \in Waits /\ \A i \in 1 .. n : After1(wait, c[i - 1]) <= c[i]
  BY <1>1 DEF Waits, After1
<1>3. QED
  BY <1>1, <1>2, WithinTimes

LEMMA WithinJoin ==
  ASSUME NEW s, NEW t, NEW a \in Nat, NEW b \in Nat, NEW d \in Nat, Within(s, a, b), Within(t, b, d)
  PROVE  Within(s \o t, a, d)
<1>1. PICK c \in [0 .. Len(s) -> 0 .. WdtTimeout - 1] :
        /\ a <= c[0] /\ c[Len(s)] <= b
        /\ \A i \in 1 .. Len(s) : After1(s[i], c[i - 1]) <= c[i]
  BY DEF Within
<1>2. PICK e \in [0 .. Len(t) -> 0 .. WdtTimeout - 1] :
        /\ b <= e[0] /\ e[Len(t)] <= d
        /\ \A i \in 1 .. Len(t) : After1(t[i], e[i - 1]) <= e[i]
  BY DEF Within
<1> DEFINE u == s \o t
           j == [i \in 0 .. Len(u) |-> IF i <= Len(s) THEN c[i] ELSE e[i - Len(s)]]
<1>3. s \in Seq(Waits) /\ t \in Seq(Waits) /\ Len(s) \in Nat /\ Len(t) \in Nat
  BY DEF Within
<1>4. /\ u \in Seq(Waits) /\ Len(u) = Len(s) + Len(t)
      /\ \A i \in 1 .. Len(s) : u[i] = s[i]
      /\ \A i \in Len(s) + 1 .. Len(u) : u[i] = t[i - Len(s)]
  BY <1>3
<1> HIDE DEF u
<1>5. /\ j \in [0 .. Len(u) -> 0 .. WdtTimeout - 1]
      /\ \A i \in 0 .. Len(s) : j[i] = c[i]
      /\ \A i \in Len(s) + 1 .. Len(u) : j[i] = e[i - Len(s)]
  BY <1>3, <1>4
<1> HIDE DEF j
<1>6. a <= j[0]
  BY <1>1, <1>3, <1>5
<1>7. j[Len(u)] <= d
  <2>1. CASE Len(t) = 0
    <3>1. j[Len(u)] = c[Len(s)] /\ c[Len(s)] \in Nat /\ e[0] \in Nat /\ e[0] <= d
      BY <1>2, <1>3, <1>4, <1>5, <2>1
    <3>2. QED
      BY <1>1, <1>2, <3>1
  <2>2. CASE Len(t) # 0
    <3>1. Len(u) \in Len(s) + 1 .. Len(u) /\ Len(u) - Len(s) = Len(t)
      BY <1>3, <1>4, <2>2
    <3>2. j[Len(u)] = e[Len(t)]
      BY <1>5, <3>1
    <3>3. QED
      BY <1>2, <3>2
  <2>3. QED
    BY <2>1, <2>2
<1>8. ASSUME NEW i \in 1 .. Len(u)
      PROVE  After1(u[i], j[i - 1]) <= j[i]
  <2>1. CASE i <= Len(s)
    <3>1. i \in 1 .. Len(s) /\ i \in 0 .. Len(s) /\ i - 1 \in 0 .. Len(s)
      BY <1>3, <2>1
    <3>2. QED
      BY <1>1, <1>4, <1>5, <3>1
  <2>2. CASE i = Len(s) + 1
    <3>1. i \in Len(s) + 1 .. Len(u) /\ i - Len(s) = 1 /\ i - 1 = Len(s) /\ 1 \in 1 .. Len(t)
          /\ Len(s) \in 0 .. Len(s) /\ 0 \in 0 .. Len(t)
      BY <1>3, <1>4, <2>2
    <3>2. u[i] = t[1] /\ j[i] = e[1] /\ j[i - 1] = c[Len(s)]
      BY <1>4, <1>5, <3>1
    <3>3. t[1] \in Waits /\ c[Len(s)] \in Nat /\ e[0] \in Nat /\ e[1] \in Nat
      <4>1. t[1] \in Waits
        BY <1>3, <3>1
      <4>2. 0 .. WdtTimeout - 1 \subseteq Nat /\ 1 \in 0 .. Len(t)
        BY <1>3, <3>1
      <4>3. c[Len(s)] \in 0 .. WdtTimeout - 1
        BY <1>1, <3>1
      <4>4. e[0] \in 0 .. WdtTimeout - 1 /\ e[1] \in 0 .. WdtTimeout - 1
        BY <1>2, <3>1, <4>2
      <4>5. QED
        BY <4>1, <4>2, <4>3, <4>4
    <3>4. c[Len(s)] <= e[0]
      BY <1>1, <1>2, <3>3
    <3>5. After1(t[1], c[Len(s)]) <= After1(t[1], e[0]) /\ After1(t[1], c[Len(s)]) \in Nat
          /\ After1(t[1], e[0]) \in Nat
      <4>1. /\ After1(t[1], c[Len(s)]) \in Nat
            /\ After1(t[1], c[Len(s)]) <= After1(t[1], e[0])
        BY <3>3, <3>4, AfterGrows
      <4>2. e[0] <= e[0]
        BY <3>3
      <4>3. After1(t[1], e[0]) \in Nat
        BY <3>3, <4>2, AfterGrows
      <4>4. QED
        BY <4>1, <4>3
    <3>6. After1(t[1], e[0]) <= e[1]
      <4>1. After1(t[1], e[1 - 1]) <= e[1]
        BY <1>2, <3>1
      <4>2. 1 - 1 = 0
        OBVIOUS
      <4>3. QED
        BY <4>1, <4>2
    <3>7. QED
      BY <3>2, <3>3, <3>5, <3>6
  <2>3. CASE i > Len(s) + 1
    <3>1. /\ i \in Len(s) + 1 .. Len(u) /\ i - 1 \in Len(s) + 1 .. Len(u)
          /\ i - Len(s) \in 1 .. Len(t) /\ (i - 1) - Len(s) = (i - Len(s)) - 1
      BY <1>3, <1>4, <2>3
    <3>2. u[i] = t[i - Len(s)] /\ j[i] = e[i - Len(s)] /\ j[i - 1] = e[(i - Len(s)) - 1]
      BY <1>4, <1>5, <3>1
    <3>3. QED
      BY <1>2, <3>1, <3>2
  <2>4. QED
    BY <1>3, <2>1, <2>2, <2>3
<1>9. QED
  BY <1>4, <1>5, <1>6, <1>7, <1>8 DEF Within, u

\* One wait more is over.
LEMMA WithinTail ==
  ASSUME NEW s, NEW a \in Nat, NEW b \in Nat, Within(s, a, b), s # <<>>,
         NEW x \in Nat, x <= After1(Head(s), a)
  PROVE  Within(Tail(s), x, b)
<1>1. PICK c \in [0 .. Len(s) -> 0 .. WdtTimeout - 1] :
        /\ a <= c[0] /\ c[Len(s)] <= b
        /\ \A i \in 1 .. Len(s) : After1(s[i], c[i - 1]) <= c[i]
  BY DEF Within
<1>2. s \in Seq(Waits) /\ Len(s) \in Nat /\ Len(s) >= 1
  BY DEF Within
<1>3. /\ Tail(s) \in Seq(Waits) /\ Len(Tail(s)) = Len(s) - 1
      /\ \A i \in 1 .. Len(s) - 1 : Tail(s)[i] = s[i + 1]
      /\ Head(s) = s[1] /\ s[1] \in Waits
  BY <1>2
<1> DEFINE t == Tail(s)
           e == [i \in 0 .. Len(t) |-> c[i + 1]]
<1>4. \A i \in 0 .. Len(s) - 1 : i + 1 \in 0 .. Len(s)
  BY <1>2
<1>5. /\ e \in [0 .. Len(t) -> 0 .. WdtTimeout - 1]
      /\ \A i \in 0 .. Len(s) - 1 : e[i] = c[i + 1]
  BY <1>3, <1>4
<1>6. 0 \in 0 .. Len(s) - 1 /\ Len(s) - 1 \in 0 .. Len(s) - 1 /\ 0 \in 0 .. Len(s)
      /\ 1 \in 1 .. Len(s) /\ 1 \in 0 .. Len(s)
  BY <1>2
<1> HIDE DEF t, e
<1>7. x <= e[0]
  <2>1. c[0] \in 0 .. WdtTimeout - 1 /\ c[1] \in 0 .. WdtTimeout - 1
    BY <1>1, <1>6
  <2>2. c[0] \in Nat /\ c[1] \in Nat
    BY <2>1
  <2>3. After1(s[1], c[1 - 1]) <= c[1]
    BY <1>1, <1>6
  <2>4. After1(s[1], c[0]) <= c[1]
    BY <2>3
  <2>5. After1(s[1], a) \in Nat /\ After1(s[1], a) <= After1(s[1], c[0])
    BY <1>1, <1>3, <2>2, AfterGrows
  <2>6. After1(s[1], c[0]) \in Nat
    BY <1>3, <2>2, AfterGrows
  <2>7. x <= c[1]
    BY <1>3, <2>2, <2>4, <2>5, <2>6
  <2>8. e[0] = c[1]
    BY <1>5, <1>6
  <2>9. QED
    BY <2>7, <2>8
<1>8. e[Len(t)] <= b
  <2>1. e[Len(s) - 1] = c[(Len(s) - 1) + 1] /\ (Len(s) - 1) + 1 = Len(s)
    BY <1>2, <1>5, <1>6
  <2>2. QED
    BY <1>1, <1>3, <2>1 DEF t
<1>9. ASSUME NEW i \in 1 .. Len(t)
      PROVE  After1(t[i], e[i - 1]) <= e[i]
  <2>1. /\ i \in 1 .. Len(s) - 1 /\ i \in 0 .. Len(s) - 1 /\ i - 1 \in 0 .. Len(s) - 1
        /\ i + 1 \in 1 .. Len(s) /\ (i - 1) + 1 = (i + 1) - 1
    BY <1>2, <1>3 DEF t
  <2>2. t[i] = s[i + 1] /\ e[i] = c[i + 1] /\ e[i - 1] = c[(i + 1) - 1]
    BY <1>3, <1>5, <2>1 DEF t
  <2>3. QED
    BY <1>1, <2>1, <2>2
<1>10. QED
  BY <1>3, <1>5, <1>7, <1>8, <1>9 DEF Within, t

\* Nothing waited for has let the watchdog bite.
LEMMA WithinBites ==
  ASSUME NEW s, NEW a \in Nat, NEW b \in Nat, Within(s, a, b)
  PROVE  a < WdtTimeout
<1>1. PICK c \in [0 .. Len(s) -> 0 .. WdtTimeout - 1] : a <= c[0]
  BY DEF Within
<1>2. s \in Seq(Waits)
  BY DEF Within
<1>3. c[0] \in 0 .. WdtTimeout - 1 /\ WdtTimeout \in Nat
  BY <1>1, <1>2, WatchdogAssumption
<1>4. QED
  BY <1>1, <1>3

LEMMA OneWait == \A wait \in Waits : <<wait>> = Times(1, wait)
BY DEF Times

LEMMA WithinLock ==
  ASSUME NEW a \in Nat, NEW b \in 0 .. WdtTimeout - 1, a + HoldMax <= b
  PROVE  Within(<<"lock">>, a, b) /\ Within(Times(1, "lock"), a, b)
<1>1. HoldMax \in Nat /\ 1 * HoldMax = HoldMax /\ 1 \in 0 .. 7
  BY WatchdogAssumption
<1>2. a + 1 * HoldMax <= b
  BY <1>1
<1>3. Within(Times(1, "lock"), a, b)
  BY <1>1, <1>2, WithinLocks
<1>4. <<"lock">> = Times(1, "lock")
  BY OneWait DEF Waits
<1>5. QED
  BY <1>3, <1>4

LEMMA WithinPrompt ==
  ASSUME NEW a \in 0 .. WdtTimeout - 1, NEW b \in 0 .. WdtTimeout - 1
  PROVE  Within(<<"prompt">>, a, b)
<1>1. Within(Times(1, "prompt"), a, b)
  BY WithinFed
<1>2. <<"prompt">> = Times(1, "prompt")
  BY OneWait DEF Waits
<1>3. QED
  BY <1>1, <1>2

\* A logout writes the session twice.
LEMMA WithinLogout ==
  ASSUME NEW a \in Nat, NEW b \in 0 .. WdtTimeout - 1, a + 2 * HoldMax <= b
  PROVE  Within(DriverLogout, a, b) /\ Within(<<"lock">> \o ToReady, a, b)
<1>1. /\ HoldMax \in Nat /\ WdtTimeout \in Nat /\ a + HoldMax \in 0 .. WdtTimeout - 1
      /\ (a + HoldMax) + HoldMax <= b
  BY WatchdogAssumption
<1> DEFINE m == a + HoldMax
<1>2. m \in Nat /\ m \in 0 .. WdtTimeout - 1 /\ b \in Nat /\ m + HoldMax <= b /\ a + HoldMax <= m
  BY <1>1
<1> HIDE DEF m
<1>3. /\ Within(<<"lock">>, a, m) /\ Within(Times(1, "lock"), a, m)
      /\ Within(Times(1, "lock"), m, b)
  BY <1>2, WithinLock
<1>4. QED
  BY <1>2, <1>3, WithinJoin DEF DriverLogout, ToReady, ToOfflineLocked, WriteSession

Longer(x, y) == IF x >= y THEN x ELSE y

LEMMA LongerIs ==
  ASSUME NEW x \in Nat, NEW y \in Nat
  PROVE  Longer(x, y) \in Nat /\ x <= Longer(x, y) /\ y <= Longer(x, y)
BY DEF Longer

\* The longest of each part of a pass.
LongestRefresh == Longer(3 + HoldMax, 2 * HoldMax)
LongestKey     == Longer(7, 2 * HoldMax)
LongestTap     == 4 + RecordLocks * HoldMax

LEMMA WithinRefresh ==
  ASSUME NEW s \in Refresh, NEW a \in Nat, NEW b \in 0 .. WdtTimeout - 1,
         a + LongestRefresh <= b
  PROVE  Within(s, a, b)
<1>1. HoldMax \in Nat /\ WdtTimeout \in Nat /\ 3 + HoldMax \in Nat /\ 2 * HoldMax \in Nat
  BY WatchdogAssumption
<1>2. LongestRefresh \in Nat /\ 3 + HoldMax <= LongestRefresh /\ 2 * HoldMax <= LongestRefresh
  BY <1>1, LongerIs DEF LongestRefresh
<1>3. /\ a \in 0 .. WdtTimeout - 1 /\ b \in Nat /\ a <= b /\ a + HoldMax <= b
      /\ a + 2 * HoldMax <= b /\ a + HoldMax + 3 <= b
      /\ a + HoldMax \in 0 .. WdtTimeout - 1 /\ a + HoldMax \in Nat
      /\ a + HoldMax <= a + HoldMax
  BY <1>1, <1>2
<1>4. CASE s = <<>>
  BY <1>3, <1>4, WithinNothing
<1>5. CASE s = <<"lock">>
  BY <1>3, <1>5, WithinLock
<1>6. CASE s = <<"lock">> \o FeedbackLockdown
  <2>1. Within(<<"lock">>, a, a + HoldMax)
    BY <1>3, WithinLock
  <2>2. Within(Times(3, "beat"), a + HoldMax, b)
    BY <1>3, WithinBeats
  <2>3. QED
    BY <1>3, <1>6, <2>1, <2>2, WithinJoin DEF FeedbackLockdown
<1>7. CASE s = <<"lock">> \o ToReady
  BY <1>3, <1>7, WithinLogout
<1>8. QED
  BY <1>4, <1>5, <1>6, <1>7 DEF Refresh

LEMMA WithinKeypress ==
  ASSUME NEW s \in Keypress, NEW a \in Nat, NEW b \in 0 .. WdtTimeout - 1, a + LongestKey <= b
  PROVE  Within(s, a, b)
<1>1. HoldMax \in Nat /\ WdtTimeout \in Nat /\ 7 \in Nat /\ 2 * HoldMax \in Nat
  BY WatchdogAssumption
<1>2. LongestKey \in Nat /\ 7 <= LongestKey /\ 2 * HoldMax <= LongestKey
  BY <1>1, LongerIs DEF LongestKey
<1>3. /\ a \in 0 .. WdtTimeout - 1 /\ b \in Nat /\ a <= b /\ a + 2 * HoldMax <= b
      /\ a + 4 \in 0 .. WdtTimeout - 1 /\ a + 4 \in Nat /\ (a + 4) + 3 <= b /\ a + 4 <= a + 4
  BY <1>1, <1>2
<1>4. CASE s = <<>>
  BY <1>3, <1>4, WithinNothing
<1>5. CASE s = DriverLogout
  BY <1>3, <1>5, WithinLogout
<1>6. CASE s = CycleNetMode
  <2>1. Within(Times(4, "beat"), a, a + 4) /\ Within(Times(3, "beat"), a + 4, b)
    BY <1>3, WithinBeats
  <2>2. QED
    BY <1>3, <1>6, <2>1, WithinJoin DEF CycleNetMode, FeedbackApproved
<1>7. QED
  BY <1>4, <1>5, <1>6 DEF Keypress, ModeKeypad

LEMMA WithinTick ==
  ASSUME NEW s \in RfidTick, NEW a \in Nat, NEW b \in 0 .. WdtTimeout - 1, a + 5 <= b
  PROVE  Within(s, a, b)
<1>1. WdtTimeout \in Nat
  BY WatchdogAssumption
<1>2. /\ a \in 0 .. WdtTimeout - 1 /\ b \in Nat /\ a <= b /\ a + 1 <= b
      /\ a + 1 \in 0 .. WdtTimeout - 1 /\ a + 1 \in Nat /\ (a + 1) + 4 <= b /\ a + 1 <= a + 1
  BY <1>1
<1>3. <<"beat">> = Times(1, "beat")
  BY OneWait DEF Waits
<1>4. CASE s = <<>>
  BY <1>2, <1>4, WithinNothing
<1>5. CASE s = <<"beat">>
  BY <1>2, <1>3, <1>5, WithinBeats
<1>6. CASE s = <<"beat">> \o FeedbackRejected
  <2>1. Within(<<"beat">>, a, a + 1) /\ Within(Times(4, "beat"), a + 1, b)
    BY <1>2, <1>3, WithinBeats
  <2>2. QED
    BY <1>2, <1>6, <2>1, WithinJoin DEF FeedbackRejected
<1>7. QED
  BY <1>4, <1>5, <1>6 DEF RfidTick

LEMMA WithinJoin3 ==
  ASSUME NEW s, NEW t, NEW u, NEW a \in Nat, NEW b \in Nat, NEW c \in Nat, NEW d \in Nat,
         Within(s, a, b), Within(t, b, c), Within(u, c, d)
  PROVE  Within(s \o t \o u, a, d)
<1>1. Within(s \o t, a, c)
  BY WithinJoin
<1>2. QED
  BY <1>1, WithinJoin

LEMMA WithinJoin4 ==
  ASSUME NEW s, NEW t, NEW u, NEW v, NEW a \in Nat, NEW b \in Nat, NEW c \in Nat, NEW d \in Nat,
         NEW e \in Nat, Within(s, a, b), Within(t, b, c), Within(u, c, d), Within(v, d, e)
  PROVE  Within(s \o t \o u \o v, a, e)
<1>1. Within(s \o t \o u, a, d)
  BY WithinJoin3
<1>2. QED
  BY <1>1, WithinJoin

\* What the taps have in common, for a start at a that leaves them time until b.
TapTime(a, b) ==
  /\ a \in Nat /\ b \in 0 .. WdtTimeout - 1 /\ a + LongestTap <= b

LEMMA TapTimes ==
  ASSUME NEW a, NEW b, TapTime(a, b)
  PROVE  /\ HoldMax \in Nat /\ b \in Nat /\ a \in Nat /\ a \in 0 .. WdtTimeout - 1
         /\ b \in 0 .. WdtTimeout - 1 /\ 0 \in 0 .. WdtTimeout - 1 /\ 0 \in Nat
         /\ a + (4 + 7 * HoldMax) <= b
         /\ HoldMax \in 0 .. WdtTimeout - 1 /\ HoldMax + 4 \in 0 .. WdtTimeout - 1
<1>1. RecordLocks = 7
  BY DEF RecordLocks, Checks
<1>2. HoldMax \in Nat /\ WdtTimeout \in Nat /\ 7 * HoldMax \in Nat /\ HoldMax <= 7 * HoldMax
  BY WatchdogAssumption
<1>3. a \in Nat /\ b \in 0 .. WdtTimeout - 1 /\ a + (4 + 7 * HoldMax) <= b
  BY <1>1 DEF TapTime, LongestTap
<1>4. QED
  BY <1>2, <1>3

\* Up to seven sections of the mutex, and half as many beats as a notice has.
LEMMA WithinSections ==
  ASSUME NEW a, NEW b, TapTime(a, b), NEW n \in 1 .. 7
  PROVE  \E m \in Nat : /\ Within(Times(n, "lock"), a, m) /\ m \in 0 .. WdtTimeout - 1
                        /\ m + 4 <= b
<1>1. \A k \in 1 .. 7, h \in Nat : k * h \in Nat /\ k * h <= 7 * h
  OBVIOUS
<1>2. n * HoldMax \in Nat /\ n * HoldMax <= 7 * HoldMax /\ 7 * HoldMax \in Nat
  BY <1>1, TapTimes
<1>3. \A x, y, h, k, w \in Nat :
        (x + (4 + k) <= y /\ h <= k /\ y <= w - 1) =>
          x + h \in 0 .. w - 1 /\ (x + h) + 4 <= y
  OBVIOUS
<1> DEFINE m == a + n * HoldMax
<1>4. m \in Nat /\ m \in 0 .. WdtTimeout - 1 /\ m + 4 <= b
  BY <1>2, <1>3, TapTimes, WatchdogAssumption
<1>5. a + n * HoldMax <= m
  BY <1>4
<1> HIDE DEF m
<1>6. Within(Times(n, "lock"), a, m)
  BY <1>4, <1>5, WithinLocks, TapTimes
<1>7. QED
  BY <1>4, <1>6

\* From a fed watchdog, and with nothing left.
LEMMA TapRests ==
  ASSUME NEW a, NEW b, TapTime(a, b)
  PROVE  /\ Within(<<"lock">>, 0, b) /\ Within(ToReady, 0, b) /\ Within(ToOfflineLocked, 0, b)
         /\ Within(DriverLogout, 0, b) /\ Within(<<"lock">> \o ToReady, 0, b)
         /\ Within(<<>>, 0, b) /\ Within(<<>>, b, b) /\ Within(FeedbackLockdown, 0, b)
         /\ \A n \in {2, 4, 10} : Within(UiDelay(n), b, 0) /\ Within(UiDelay(n), b, b)
                                  /\ Within(UiDelay(n), 0, 0)
<1>1. 0 + HoldMax <= b /\ 0 + 2 * HoldMax <= b /\ 0 + 3 <= b /\ 0 <= b /\ b <= b
  BY TapTimes
<1>2. Within(<<"lock">>, 0, b) /\ Within(Times(1, "lock"), 0, b)
  BY <1>1, TapTimes, WithinLock
<1>3. Within(DriverLogout, 0, b) /\ Within(<<"lock">> \o ToReady, 0, b)
  BY <1>1, TapTimes, WithinLogout
<1>4. Within(<<>>, 0, b) /\ Within(<<>>, b, b)
  BY <1>1, TapTimes, WithinNothing
<1>5. Within(FeedbackLockdown, 0, b)
  BY <1>1, TapTimes, WithinBeats DEF FeedbackLockdown
<1>6. \A n \in {2, 4, 10} : Within(UiDelay(n), b, 0) /\ Within(UiDelay(n), b, b)
                            /\ Within(UiDelay(n), 0, 0)
  BY TapTimes, WithinFed DEF UiDelay
<1>7. QED
  BY <1>2, <1>3, <1>4, <1>5, <1>6 DEF ToReady, ToOfflineLocked, WriteSession

LEMMA WithinLoginTap ==
  ASSUME NEW s \in LoginTap, NEW a, NEW b, TapTime(a, b)
  PROVE  Within(s, a, b)
<1>1. ASSUME NEW after \in {<<>>, UiDelay(4)}, s = Times(2, "lock") \o FeedbackRejected \o after
      PROVE  Within(s, a, b)
  <2>1. PICK m \in Nat : /\ Within(Times(2, "lock"), a, m) /\ m \in 0 .. WdtTimeout - 1
                         /\ m + 4 <= b
    BY WithinSections
  <2>2. Within(FeedbackRejected, m, b)
    BY <2>1, TapTimes, WithinBeats DEF FeedbackRejected
  <2>3. Within(after, b, b)
    BY TapRests
  <2>4. QED
    BY <1>1, <2>1, <2>2, <2>3, TapTimes, WithinJoin3
<1>2. ASSUME NEW after, Within(after, 0, b), NEW n \in 1 .. 2,
             s = Times(n, "lock") \o ReadPin \o after
      PROVE  Within(s, a, b)
  <2>1. PICK m \in Nat : Within(Times(n, "lock"), a, m) /\ m \in 0 .. WdtTimeout - 1
    BY WithinSections
  <2>2. Within(ReadPin, m, 0)
    BY <2>1, TapTimes, WithinPrompt DEF ReadPin
  <2>3. QED
    BY <1>2, <2>1, <2>2, TapTimes, WithinJoin3
<1>3. 0 + HoldMax <= HoldMax /\ HoldMax + 4 <= HoldMax + 4 /\ HoldMax + 4 \in Nat
      /\ (HoldMax + 4) + HoldMax <= b /\ HoldMax + 4 <= b
  BY TapTimes
<1>4. Within(<<"lock">>, 0, HoldMax) /\ Within(FeedbackRejected, HoldMax, HoldMax + 4)
      /\ Within(FeedbackRejected, HoldMax, b) /\ Within(ToOfflineLocked, HoldMax + 4, b)
  BY <1>3, TapTimes, WithinLock, WithinBeats DEF FeedbackRejected, ToOfflineLocked, WriteSession
<1>5. Within(UiDelay(2) \o ToOfflineLocked, 0, b)
  BY TapRests, TapTimes, WithinJoin
<1>6. Within(<<"lock">> \o FeedbackRejected \o UiDelay(4) \o ToOfflineLocked, 0, b)
  BY <1>4, TapRests, TapTimes, WithinJoin4
<1>7. Within(<<"lock">> \o FeedbackRejected \o ToOfflineLocked, 0, b)
  BY <1>3, <1>4, TapTimes, WithinJoin3
<1>8. Within(<<"lock">> \o ToReady, 0, b) /\ Within(<<"lock">>, 0, b)
  BY TapRests
<1>9. \/ \E after \in {<<>>, UiDelay(4)} : s = Times(2, "lock") \o FeedbackRejected \o after
      \/ \E n \in 1 .. 2 : \E after \in AfterPin : s = Times(n, "lock") \o ReadPin \o after
  BY Zenon DEF LoginTap
<1>10. CASE \E after \in {<<>>, UiDelay(4)} : s = Times(2, "lock") \o FeedbackRejected \o after
  BY <1>1, <1>10, Zenon
<1>11. CASE \E n \in 1 .. 2 : \E after :
              Within(after, 0, b) /\ s = Times(n, "lock") \o ReadPin \o after
  BY <1>2, <1>11, Zenon
<1>12. \A after \in AfterPin : Within(after, 0, b)
  BY <1>5, <1>6, <1>7, <1>8 DEF AfterPin
<1>13. QED
  BY <1>9, <1>10, <1>11, <1>12, Zenon

LEMMA WithinFareTap ==
  ASSUME NEW s \in FareTap, NEW a, NEW b, TapTime(a, b)
  PROVE  Within(s, a, b)
<1>1. RecordLocks = 7 /\ Checks = 5
  BY DEF RecordLocks, Checks
<1>2. ASSUME NEW n \in 1 .. 7,
             s = Times(n, "lock") \o Times(4, "beat") \o UiDelay(4) \o ToReady
      PROVE  Within(s, a, b)
  <2>1. PICK m \in Nat : /\ Within(Times(n, "lock"), a, m) /\ m \in 0 .. WdtTimeout - 1
                         /\ m + 4 <= b
    BY WithinSections
  <2>2. Within(Times(4, "beat"), m, b)
    BY <2>1, TapTimes, WithinBeats
  <2>3. Within(UiDelay(4), b, 0) /\ Within(ToReady, 0, b)
    BY TapRests
  <2>4. QED
    BY <1>2, <2>1, <2>2, <2>3, TapTimes, WithinJoin4
<1>3. ASSUME NEW n \in 1 .. 7, s = Times(n, "lock") \o FeedbackLockdown
      PROVE  Within(s, a, b)
  <2>1. PICK m \in Nat : /\ Within(Times(n, "lock"), a, m) /\ m \in 0 .. WdtTimeout - 1
                         /\ m + 4 <= b
    BY WithinSections
  <2>2. m + 3 <= b
    BY <2>1, TapTimes
  <2>3. Within(FeedbackLockdown, m, b)
    BY <2>1, <2>2, TapTimes, WithinBeats DEF FeedbackLockdown
  <2>4. QED
    BY <1>3, <2>1, <2>3, TapTimes, WithinJoin
<1>4. ASSUME s = <<"lock">> \o FeedbackRejected \o UiDelay(4) \o FeedbackLockdown
      PROVE  Within(s, a, b)
  <2>1. PICK m \in Nat : /\ Within(Times(1, "lock"), a, m) /\ m \in 0 .. WdtTimeout - 1
                         /\ m + 4 <= b
    BY WithinSections
  <2>2. Within(FeedbackRejected, m, b) /\ <<"lock">> = Times(1, "lock")
    BY <2>1, TapTimes, WithinBeats, OneWait DEF FeedbackRejected, Waits
  <2>3. Within(UiDelay(4), b, 0) /\ Within(FeedbackLockdown, 0, b)
    BY TapRests
  <2>4. QED
    BY <1>4, <2>1, <2>2, <2>3, TapTimes, WithinJoin4
<1>5. \/ \E n \in 1 .. RecordLocks :
           s = Times(n, "lock") \o FeedbackRejected \o UiDelay(4) \o ToReady
      \/ s = Times(RecordLocks, "lock") \o FeedbackApproved \o UiDelay(4) \o ToReady
      \/ s = <<"lock">> \o FeedbackRejected \o UiDelay(4) \o FeedbackLockdown
      \/ \E n \in {Checks, RecordLocks} : s = Times(n, "lock") \o FeedbackLockdown
  BY Zenon DEF FareTap
<1>6. CASE \E n \in 1 .. RecordLocks :
             s = Times(n, "lock") \o FeedbackRejected \o UiDelay(4) \o ToReady
  BY <1>1, <1>2, <1>6 DEF FeedbackRejected
<1>7. CASE s = Times(RecordLocks, "lock") \o FeedbackApproved \o UiDelay(4) \o ToReady
  <2>1. 7 \in 1 .. 7
    OBVIOUS
  <2>2. QED
    BY <1>1, <1>2, <1>7, <2>1 DEF FeedbackApproved
<1>8. CASE \E n \in {Checks, RecordLocks} : s = Times(n, "lock") \o FeedbackLockdown
  <2>1. 5 \in 1 .. 7 /\ 7 \in 1 .. 7
    OBVIOUS
  <2>2. QED
    BY <1>1, <1>3, <1>8, <2>1, Zenon
<1>9. QED
  BY <1>4, <1>5, <1>6, <1>7, <1>8

LEMMA WithinCardTap ==
  ASSUME NEW s \in CardTap, NEW a, NEW b, TapTime(a, b)
  PROVE  Within(s, a, b)
<1> DEFINE x == a + HoldMax
           y == (a + HoldMax) + 2
           z == ((a + HoldMax) + 2) + HoldMax
<1>1. /\ x \in 0 .. WdtTimeout - 1 /\ y \in 0 .. WdtTimeout - 1 /\ z \in 0 .. WdtTimeout - 1
      /\ a + HoldMax <= x /\ x + 2 <= y /\ y + HoldMax <= z /\ x + 4 <= b
      /\ x \in Nat /\ y \in Nat /\ z \in Nat
  BY TapTimes, WatchdogAssumption
<1> HIDE DEF x, y, z
<1>2. Within(<<"lock">>, a, x) /\ Within(<<"lock">>, y, z)
  BY <1>1, TapTimes, WithinLock
<1>3. Within(FeedbackRejected, x, b) /\ Within(FeedbackOtp, x, y)
  BY <1>1, TapTimes, WithinBeats DEF FeedbackRejected, FeedbackOtp
<1>4. CASE s = <<"lock">> \o FeedbackRejected \o UiDelay(4)
  <2>1. Within(UiDelay(4), b, b)
    BY TapRests
  <2>2. QED
    BY <1>1, <1>2, <1>3, <1>4, <2>1, TapTimes, WithinJoin3
<1>5. ASSUME NEW after \in {<<>>, DriverLogout, ToOfflineLocked},
             s = <<"lock">> \o FeedbackOtp \o <<"lock">> \o UiDelay(10) \o AddNext \o after
      PROVE  Within(s, a, b)
  <2>1. Within(UiDelay(10), z, 0) /\ Within(AddNext, 0, 0)
    BY <1>1, TapTimes, WithinFed, WithinPrompt DEF UiDelay, AddNext
  <2>2. Within(<<"lock">> \o FeedbackOtp \o <<"lock">> \o UiDelay(10), a, 0)
    BY <1>1, <1>2, <1>3, <2>1, TapTimes, WithinJoin4
  <2>3. Within(after, 0, b)
    BY TapRests
  <2>4. QED
    BY <1>5, <2>1, <2>2, <2>3, TapTimes, WithinJoin3
<1>6. QED
  BY <1>4, <1>5 DEF CardTap

LEMMA WithinTapped ==
  ASSUME NEW s \in Tapped, NEW a, NEW b, TapTime(a, b)
  PROVE  Within(s, a, b)
<1>1. CASE s = <<>>
  <2>1. a <= b
    BY TapTimes
  <2>2. QED
    BY <1>1, <2>1, TapTimes, WithinNothing
<1>2. CASE s = FeedbackRejected
  <2>1. a + 4 <= b
    BY TapTimes
  <2>2. QED
    BY <1>2, <2>1, TapTimes, WithinBeats DEF FeedbackRejected
<1>3. QED
  BY <1>1, <1>2, WithinLoginTap, WithinFareTap, WithinCardTap DEF Tapped

\* The longest that a pass may leave the watchdog unfed.
Longest == LongestRefresh + LongestKey + 5 + LongestTap

LEMMA WithinPass ==
  ASSUME Longest < WdtTimeout, NEW refresh \in Refresh, NEW key \in Keypress,
         NEW tick \in RfidTick, NEW tap \in Tapped
  PROVE  Within(refresh \o key \o tick \o tap, 0, WdtTimeout - 1)
<1>1. /\ HoldMax \in Nat /\ 3 + HoldMax \in Nat /\ 2 * HoldMax \in Nat /\ 7 \in Nat
      /\ WdtTimeout \in Nat /\ 7 * HoldMax \in Nat
  BY WatchdogAssumption
<1>2. LongestRefresh \in Nat /\ LongestKey \in Nat
  BY <1>1, LongerIs DEF LongestRefresh, LongestKey
<1>3. RecordLocks = 7
  BY DEF RecordLocks, Checks
<1>4. LongestTap \in Nat
  BY <1>1, <1>3 DEF LongestTap
<1> DEFINE x == LongestRefresh
           y == LongestRefresh + LongestKey
           z == LongestRefresh + LongestKey + 5
           e == WdtTimeout - 1
<1>5. /\ x \in Nat /\ y \in Nat /\ z \in Nat /\ e \in Nat
      /\ x \in 0 .. WdtTimeout - 1 /\ y \in 0 .. WdtTimeout - 1 /\ z \in 0 .. WdtTimeout - 1
      /\ e \in 0 .. WdtTimeout - 1
      /\ 0 + LongestRefresh <= x /\ x + LongestKey <= y /\ y + 5 <= z /\ z + LongestTap <= e
  BY <1>1, <1>2, <1>4 DEF Longest
<1> HIDE DEF x, y, z, e
<1>6. Within(refresh, 0, x) /\ Within(key, x, y) /\ Within(tick, y, z)
  BY <1>5, WithinRefresh, WithinKeypress, WithinTick
<1>7. Within(tap, z, e)
  BY <1>5, WithinTapped DEF TapTime
<1>8. Within(refresh \o key \o tick \o tap, 0, e)
  BY <1>5, <1>6, <1>7, WithinJoin4
<1>9. QED
  BY <1>8 DEF e

\* rfid_ui_task is in time for the rest of its pass; loop has missed no more than
\* a turn, but for the half seconds that sync_task spins.
FedInv ==
  /\ watched \in {"rfid_ui", "loop"} /\ booted \in BOOLEAN /\ unfed \in Nat
  /\ watched = "rfid_ui" => Within(agenda, unfed, WdtTimeout - 1)
  /\ watched = "loop" =>
       /\ agenda = <<>> /\ spin \in 0 .. SocketTimeout
       /\ spin = 0 => unfed < Period
       /\ spin > 0 => unfed <= spin + 1

LEMMA FedNext ==
  ASSUME Longest < WdtTimeout, FedInv, WD_Next
  PROVE  FedInv'
<1>0. /\ WdtTimeout \in Nat /\ WdtTimeout >= 10 /\ SocketTimeout \in Nat /\ HoldMax \in Nat
      /\ 0 \in 0 .. WdtTimeout - 1 /\ WdtTimeout - 1 \in Nat /\ 0 <= WdtTimeout - 1
  BY WatchdogAssumption
<1>1. CASE Pass
  <2>1. Within(agenda', 0, WdtTimeout - 1)
    BY <1>1, WithinPass DEF Pass
  <2>2. QED
    BY <1>1, <2>1 DEF Pass, FedInv
<1>2. CASE TakesLock
  <2>1. CASE watched = "rfid_ui"
    <3>1. PICK wait \in 0 .. HoldMax : unfed' = unfed + wait
      BY <1>2 DEF TakesLock
    <3>2. unfed' \in Nat /\ unfed' <= After1(Head(agenda), unfed)
      BY <1>0, <1>2, <3>1 DEF TakesLock, After1, FedInv
    <3>3. Within(agenda', unfed', WdtTimeout - 1)
      BY <1>0, <1>2, <2>1, <3>2, WithinTail DEF TakesLock, FedInv
    <3>4. QED
      BY <1>2, <2>1, <3>2, <3>3 DEF TakesLock, FedInv
  <2>2. QED
    BY <1>2, <2>1 DEF TakesLock, FedInv
<1>3. CASE Delays
  <2>1. CASE watched = "rfid_ui"
    <3>1. unfed' \in Nat /\ unfed' <= After1(Head(agenda), unfed)
      BY <1>0, <1>3 DEF Delays, After1, FedInv
    <3>2. Within(agenda', unfed', WdtTimeout - 1)
      BY <1>0, <1>3, <2>1, <3>1, WithinTail DEF Delays, FedInv
    <3>3. QED
      BY <1>3, <2>1, <3>1, <3>2 DEF Delays, FedInv
  <2>2. QED
    BY <1>3, <2>1 DEF Delays, FedInv
<1>4. CASE LoopTurn
  <2>1. Period' = Period /\ Period \in Nat /\ Period > 0
    BY <1>4 DEF LoopTurn, Period, FedInv
  <2>2. \A u, p \in Nat : p > 0 => (u + 1) % p \in Nat /\ (u + 1) % p < p
    OBVIOUS
  <2>3. unfed' \in Nat /\ unfed' < Period'
    BY <1>4, <2>1, <2>2 DEF LoopTurn, FedInv
  <2>4. QED
    BY <1>4, <2>3 DEF LoopTurn, FedInv
<1>5. CASE Spins
  BY <1>0, <1>5 DEF Spins, FedInv, Period
<1>6. CASE SpinEnds
  BY <1>0, <1>6 DEF SpinEnds, FedInv, Period
<1>7. CASE WdtReset
  <2>1. Within(<<>>, 0, WdtTimeout - 1)
    BY <1>0, WithinNothing
  <2>2. QED
    BY <1>0, <1>7, <2>1 DEF WdtReset, BootHardware, FedInv, Period
<1>8. QED
  BY <1>1, <1>2, <1>3, <1>4, <1>5, <1>6, <1>7 DEF WD_Next

\* The thirty half seconds of WDT_TIMEOUT_SECONDS are enough: if the longest pass
\* through the handlers of rfid_ui_task is shorter, the task watchdog never bites it,
\* and bites loop only while PubSubClient spins for a byte.
THEOREM TasksAreFed ==
  ASSUME Longest < WdtTimeout, SocketTimeout <= WdtTimeout + 1
  PROVE  Spec => []Fed
<1>0. WdtTimeout \in Nat /\ WdtTimeout >= 10 /\ SocketTimeout \in Nat
  BY WatchdogAssumption
<1>1. Init => FedInv
  <2>1. Within(<<>>, 0, WdtTimeout - 1)
    BY <1>0, WithinNothing
  <2>2. QED
    BY <1>0, <2>1 DEF Init, WD_Init, FedInv, Period
<1>2. FedInv /\ [Next]_vars => FedInv'
  <2> SUFFICES ASSUME FedInv, [Next]_vars PROVE FedInv'
    OBVIOUS
  <2>1. CASE WD_Next
    BY <2>1, FedNext
  <2>2. CASE UNCHANGED WD_vars
    BY <2>2 DEF WD_vars, FedInv, Period
  <2>3. QED
    BY <2>1, <2>2, DeviceStep
<1>3. FedInv => Fed
  <2> SUFFICES ASSUME FedInv, unfed >= WdtTimeout
               PROVE  watched = "loop" /\ unfed <= spin + 1 /\ spin + 2 >= SocketTimeout
    BY DEF Fed
  <2>1. watched = "loop"
    BY <1>0, WithinBites DEF FedInv
  <2>2. spin \in Nat /\ spin > 0
    BY <1>0, <2>1 DEF FedInv, Period
  <2>3. QED
    BY <1>0, <2>1, <2>2 DEF FedInv
<1>4. QED
  BY <1>1, <1>2, <1>3, PTL DEF Spec

---------------------------------------------------------------------------
(* The display.                                                            *)

Nibs == (0 .. 1) \X (0 .. 15)

Halves == {NoNibble} \cup {<<n>> : n \in Nibs}
Pictures == [Cells -> 0 .. 255]

\* The controller holds half a byte in four-bit mode only.
LcdStates ==
  {l \in [wide : BOOLEAN, held : Halves, twoLines : BOOLEAN, on : BOOLEAN, forward : BOOLEAN,
          shifted : BOOLEAN, cgram : BOOLEAN, addr : 0 .. 127, cells : Pictures] :
     l.wide => l.held = NoNibble}

LEMMA NoHalf == NoNibble \in Halves
BY DEF Halves

Whole(l) == ~l.wide /\ l.held = NoNibble

Bits8 == {1, 2, 4, 8, 16, 32, 64, 128}

LEMMA HighestBitIs ==
  ASSUME NEW byte \in 0 .. 255, NEW b \in Bits8, b <= byte, byte < 2 * b
  PROVE  HighestBit(byte) = b
<1>1. \A c \in Bits8 : c <= byte /\ byte < 2 * c => c = b
  BY DEF Bits8
<1>2. b \in {c \in Bits8 : c <= byte /\ byte < 2 * c}
  OBVIOUS
<1>3. QED
  BY <1>1, <1>2 DEF HighestBit, Bits8

LEMMA HighestBitIn ==
  ASSUME NEW byte \in 1 .. 255
  PROVE  HighestBit(byte) \in Bits8 /\ HighestBit(byte) <= byte /\ byte < 2 * HighestBit(byte)
<1>1. \E b \in Bits8 : b <= byte /\ byte < 2 * b
  BY DEF Bits8
<1>2. QED
  BY <1>1 DEF HighestBit, Bits8

LEMMA StateFields ==
  ASSUME NEW l \in LcdStates
  PROVE  /\ l.wide \in BOOLEAN /\ l.twoLines \in BOOLEAN /\ l.on \in BOOLEAN
         /\ l.forward \in BOOLEAN /\ l.shifted \in BOOLEAN /\ l.cgram \in BOOLEAN
         /\ l.addr \in 0 .. 127 /\ l.cells \in Pictures
         /\ l.held \in Halves /\ (l.wide => l.held = NoNibble)
BY DEF LcdStates

LEMMA EmptyTyped == Empty \in Pictures
BY DEF Empty, Blank, Pictures

LEMMA PowerOnTyped == PowerOn \in LcdStates
BY EmptyTyped, NoHalf DEF PowerOn, LcdStates

LEMMA CursorTyped ==
  ASSUME NEW l \in LcdStates, NEW forward \in BOOLEAN
  PROVE  CursorMoved(l, forward) \in LcdStates /\ CursorMoved(l, forward).held = l.held
         /\ CursorMoved(l, forward).wide = l.wide
<1>1. \A a \in 0 .. 127 : (a + 1) % 128 \in 0 .. 127 /\ (a + 127) % 128 \in 0 .. 127
  OBVIOUS
<1>2. l.addr \in 0 .. 127
  BY StateFields
<1> DEFINE a == (IF forward THEN l.addr + 1 ELSE l.addr + 127) % 128
<1>3. a \in 0 .. 127
  BY <1>1, <1>2
<1>4. CursorMoved(l, forward) = [l EXCEPT !.addr = a]
  BY DEF CursorMoved
<1> HIDE DEF a
<1>5. QED
  BY <1>3, <1>4 DEF LcdStates

LEMMA WrittenTyped ==
  ASSUME NEW l \in LcdStates, NEW byte \in 0 .. 255
  PROVE  Written(l, byte) \in LcdStates /\ Written(l, byte).held = l.held
         /\ Written(l, byte).wide = l.wide
<1> DEFINE m == CursorMoved(l, l.forward)
           cs == [cell \in Cells |-> IF ~l.cgram /\ AddressOf(cell) = l.addr
                                     THEN byte ELSE m.cells[cell]]
<1>1. m \in LcdStates /\ m.held = l.held /\ m.wide = l.wide
  BY StateFields, CursorTyped
<1>2. Written(l, byte) = [m EXCEPT !.cells = cs]
  BY DEF Written
<1> HIDE DEF m
<1>3. m.cells \in Pictures
  BY <1>1, StateFields
<1>4. cs \in Pictures
  BY <1>3 DEF Pictures
<1> HIDE DEF cs
<1>5. QED
  BY <1>1, <1>2, <1>4 DEF LcdStates

LEMMA HomedTyped ==
  ASSUME NEW l \in LcdStates
  PROVE  Homed(l) \in LcdStates /\ Homed(l).held = l.held
<1>1. Homed(l) = [l EXCEPT !.addr = 0, !.cgram = FALSE, !.shifted = FALSE] /\ 0 \in 0 .. 127
  BY DEF Homed
<1> DEFINE r == Homed(l)
<1> HIDE DEF r
<1>2. r = [l EXCEPT !.addr = 0, !.cgram = FALSE, !.shifted = FALSE]
  BY <1>1 DEF r
<1>3. r \in LcdStates /\ r.held = l.held
  BY <1>1, <1>2 DEF LcdStates
<1>4. QED
  BY <1>3 DEF r

\* An instruction leaves the controller between two bytes; only one that sets the
\* function changes the width.
LEMMA InstructedTyped ==
  ASSUME NEW l \in LcdStates, NEW byte \in 0 .. 255, l.held = NoNibble
  PROVE  Instructed(l, byte) \in LcdStates /\ Instructed(l, byte).held = NoNibble
<1>1. CASE byte = 0
  BY <1>1 DEF Instructed
<1>2. CASE byte # 0
  <2> DEFINE op == HighestBit(byte)
  <2>1. op \in Bits8 /\ op <= byte /\ byte < 2 * op
    BY <1>2, HighestBitIn
  <2>2. \A bit \in Nat : Has(byte, bit) \in BOOLEAN
    BY DEF Has
  <2>3. /\ LCD.clearDisplay = 1 /\ LCD.returnHome = 2 /\ LCD.entryModeSet = 4
        /\ LCD.displayControl = 8 /\ LCD.cursorShift = 16 /\ LCD.functionSet = 32
        /\ LCD.setCgramAddr = 64 /\ LCD.setDdramAddr = 128
        /\ LCD.entryLeft = 2 /\ LCD.entryShift = 1 /\ LCD.displayOn = 4 /\ LCD.displayMove = 8
        /\ LCD.moveRight = 4 /\ LCD.eightBit = 16 /\ LCD.twoLine = 8
    BY DEF LCD
  <2>4. Instructed(l, byte) =
          CASE op = 1   -> [Homed(l) EXCEPT !.forward = TRUE, !.cells = Empty]
            [] op = 2   -> Homed(l)
            [] op = 4   -> [l EXCEPT !.forward = Has(byte, 2), !.shifted = @ \/ Has(byte, 1)]
            [] op = 8   -> [l EXCEPT !.on = Has(byte, 4)]
            [] op = 16  -> IF Has(byte, 8) THEN [l EXCEPT !.shifted = TRUE]
                                           ELSE CursorMoved(l, Has(byte, 4))
            [] op = 32  -> [l EXCEPT !.wide = Has(byte, 16), !.twoLines = Has(byte, 8)]
            [] op = 64  -> [l EXCEPT !.cgram = TRUE]
            [] op = 128 -> [l EXCEPT !.addr = byte - op, !.cgram = FALSE]
    BY <1>2, <2>3 DEF Instructed
  <2> DEFINE r == Instructed(l, byte)
             ok == r \in LcdStates /\ r.held = NoNibble
  <2> HIDE DEF op
  <2>5. CASE op = 1
    <3>1. r = [Homed(l) EXCEPT !.forward = TRUE, !.cells = Empty]
      BY <2>4, <2>5
    <3> DEFINE h == Homed(l)
    <3>2. h \in LcdStates /\ h.held = NoNibble
      BY HomedTyped
    <3> HIDE DEF h, r
    <3>3. r = [h EXCEPT !.forward = TRUE, !.cells = Empty]
      BY <3>1 DEF h
    <3>4. ok
      BY <3>2, <3>3, EmptyTyped DEF LcdStates
    <3>5. QED
      BY <3>4 DEF r
  <2>6. CASE op = 2
    BY <2>4, <2>6, HomedTyped
  <2>7. CASE op = 4
    <3>1. r = [l EXCEPT !.forward = Has(byte, 2), !.shifted = l.shifted \/ Has(byte, 1)]
      BY <2>4, <2>7
    <3>2. Has(byte, 2) \in BOOLEAN /\ (l.shifted \/ Has(byte, 1)) \in BOOLEAN
      BY <2>2
    <3> HIDE DEF r
    <3>3. ok
      BY <3>1, <3>2, ZenonT(30) DEF LcdStates
    <3>4. QED
      BY <3>3 DEF r
  <2>8. CASE op = 8
    <3>1. r = [l EXCEPT !.on = Has(byte, 4)]
      BY <2>4, <2>8
    <3>2. Has(byte, 4) \in BOOLEAN
      BY <2>2
    <3> HIDE DEF r
    <3>3. ok
      BY <3>1, <3>2 DEF LcdStates
    <3>4. QED
      BY <3>3 DEF r
  <2>9. CASE op = 16
    <3>1. r = [l EXCEPT !.shifted = TRUE] \/ r = CursorMoved(l, Has(byte, 4))
      BY <2>4, <2>9
    <3>2. [l EXCEPT !.shifted = TRUE] \in LcdStates /\ [l EXCEPT !.shifted = TRUE].held = NoNibble
      BY DEF LcdStates
    <3>3. CursorMoved(l, Has(byte, 4)) \in LcdStates /\ CursorMoved(l, Has(byte, 4)).held = NoNibble
      BY <2>2, CursorTyped
    <3>4. QED
      BY <3>1, <3>2, <3>3
  <2>10. CASE op = 32
    <3>1. r = [l EXCEPT !.wide = Has(byte, 16), !.twoLines = Has(byte, 8)]
      BY <2>4, <2>10
    <3>2. Has(byte, 16) \in BOOLEAN /\ Has(byte, 8) \in BOOLEAN
      BY <2>2
    <3> HIDE DEF r
    <3>3. ok
      BY <3>1, <3>2 DEF LcdStates
    <3>4. QED
      BY <3>3 DEF r
  <2>11. CASE op = 64
    <3>1. r = [l EXCEPT !.cgram = TRUE]
      BY <2>4, <2>11
    <3> HIDE DEF r
    <3>2. ok
      BY <3>1 DEF LcdStates
    <3>3. QED
      BY <3>2 DEF r
  <2>12. CASE op = 128
    <3>1. r = [l EXCEPT !.addr = byte - op, !.cgram = FALSE]
      BY <2>4, <2>12
    <3>2. byte - op \in 0 .. 127
      BY <2>1, <2>12
    <3> DEFINE a == byte - op
    <3> HIDE DEF r, a
    <3>3. ok
      BY <3>1, <3>2 DEF LcdStates, a
    <3>4. QED
      BY <3>3 DEF r
  <2>13. QED
    BY <2>1, <2>5, <2>6, <2>7, <2>8, <2>9, <2>10, <2>11, <2>12 DEF Bits8
<1>3. QED
  BY <1>1, <1>2

LEMMA LatchedTyped ==
  ASSUME NEW l \in LcdStates, NEW nib \in Nibs
  PROVE  Latched(l, nib) \in LcdStates
<1>1. nib[1] \in 0 .. 1 /\ nib[2] \in 0 .. 15
  BY DEF Nibs
<1>2. ASSUME NEW m \in LcdStates, m.held = NoNibble, NEW byte \in 0 .. 255
      PROVE  Executed(m, nib[1], byte) \in LcdStates
  BY <1>2, WrittenTyped, InstructedTyped DEF Executed
<1>3. CASE l.wide
  <2>1. 16 * nib[2] + 15 \in 0 .. 255 /\ l.held = NoNibble
    BY <1>1, <1>3, StateFields
  <2>2. QED
    BY <1>2, <1>3, <2>1 DEF Latched
<1>4. CASE ~l.wide /\ l.held = NoNibble
  <2>1. Latched(l, nib) = [l EXCEPT !.held = <<nib>>]
    BY <1>4 DEF Latched
  <2>2. <<nib>> \in Halves
    BY DEF Halves
  <2>3. QED
    BY <1>4, <2>1, <2>2 DEF LcdStates
<1>5. CASE ~l.wide /\ l.held # NoNibble
  <2>1. PICK n \in Nibs : l.held = <<n>>
    BY <1>5, StateFields DEF Halves
  <2>2. n[2] \in 0 .. 15 /\ l.held[1] = n
    BY <2>1 DEF Nibs
  <2> DEFINE m == [l EXCEPT !.held = NoNibble]
             byte == 16 * l.held[1][2] + nib[2]
  <2>3. m \in LcdStates /\ m.held = NoNibble
    BY NoHalf DEF LcdStates
  <2>4. byte \in 0 .. 255
    BY <1>1, <2>2
  <2>5. Latched(l, nib) = Executed(m, nib[1], byte)
    BY <1>5 DEF Latched
  <2> HIDE DEF m, byte
  <2>6. QED
    BY <1>2, <2>3, <2>4, <2>5
<1>6. QED
  BY <1>3, <1>4, <1>5, StateFields

\* The nibbles of s take the controller from l to r.
Leads(l, s, r) ==
  /\ s \in Seq(Nibs)
  /\ \E c \in [0 .. Len(s) -> LcdStates] :
       /\ c[0] = l /\ c[Len(s)] = r
       /\ \A i \in 1 .. Len(s) : c[i] = Latched(c[i - 1], s[i])

LEMMA LeadsNowhere ==
  ASSUME NEW l \in LcdStates
  PROVE  Leads(l, <<>>, l)
<1> DEFINE c == [i \in 0 .. 0 |-> l]
<1>1. c \in [0 .. Len(<<>>) -> LcdStates] /\ c[0] = l /\ c[Len(<<>>)] = l
  OBVIOUS
<1>2. \A i \in 1 .. Len(<<>>) : FALSE
  OBVIOUS
<1>3. <<>> \in Seq(Nibs)
  OBVIOUS
<1> HIDE DEF c
<1>4. QED
  BY <1>1, <1>2, <1>3 DEF Leads

LEMMA LeadsEnd ==
  ASSUME NEW l, NEW r, Leads(l, <<>>, r)
  PROVE  r = l
<1>1. Len(<<>>) = 0
  OBVIOUS
<1>2. QED
  BY <1>1 DEF Leads

LEMMA LeadsOne ==
  ASSUME NEW l \in LcdStates, NEW nib \in Nibs
  PROVE  Leads(l, <<nib>>, Latched(l, nib))
<1> DEFINE s == <<nib>>
           c == [i \in 0 .. 1 |-> IF i = 0 THEN l ELSE Latched(l, nib)]
<1>1. s \in Seq(Nibs) /\ Len(s) = 1 /\ s[1] = nib
  OBVIOUS
<1>2. Latched(l, nib) \in LcdStates
  BY LatchedTyped
<1>3. c \in [0 .. 1 -> LcdStates] /\ c[0] = l /\ c[1] = Latched(l, nib)
  BY <1>2
<1> HIDE DEF s, c
<1>4. \A i \in 1 .. Len(s) : c[i] = Latched(c[i - 1], s[i])
  <2> TAKE i \in 1 .. Len(s)
  <2>1. i = 1 /\ i - 1 = 0
    BY <1>1
  <2>2. QED
    BY <1>1, <1>3, <2>1
<1>5. QED
  BY <1>1, <1>3, <1>4 DEF Leads, s

LEMMA LeadsJoin ==
  ASSUME NEW l, NEW m, NEW r, NEW s, NEW t, Leads(l, s, m), Leads(m, t, r)
  PROVE  Leads(l, s \o t, r)
<1>1. PICK c \in [0 .. Len(s) -> LcdStates] :
        /\ c[0] = l /\ c[Len(s)] = m
        /\ \A i \in 1 .. Len(s) : c[i] = Latched(c[i - 1], s[i])
  BY DEF Leads
<1>2. PICK e \in [0 .. Len(t) -> LcdStates] :
        /\ e[0] = m /\ e[Len(t)] = r
        /\ \A i \in 1 .. Len(t) : e[i] = Latched(e[i - 1], t[i])
  BY DEF Leads
<1> DEFINE u == s \o t
           j == [i \in 0 .. Len(u) |-> IF i <= Len(s) THEN c[i] ELSE e[i - Len(s)]]
<1>3. s \in Seq(Nibs) /\ t \in Seq(Nibs) /\ Len(s) \in Nat /\ Len(t) \in Nat
  BY DEF Leads
<1>4. /\ u \in Seq(Nibs) /\ Len(u) = Len(s) + Len(t)
      /\ \A i \in 1 .. Len(s) : u[i] = s[i]
      /\ \A i \in Len(s) + 1 .. Len(u) : u[i] = t[i - Len(s)]
  BY <1>3
<1> HIDE DEF u
<1>5. /\ j \in [0 .. Len(u) -> LcdStates]
      /\ \A i \in 0 .. Len(s) : j[i] = c[i]
      /\ \A i \in Len(s) + 1 .. Len(u) : j[i] = e[i - Len(s)]
  BY <1>3, <1>4
<1> HIDE DEF j
<1>6. j[0] = l
  BY <1>1, <1>3, <1>5
<1>7. j[Len(u)] = r
  <2>1. CASE Len(t) = 0
    BY <1>1, <1>2, <1>3, <1>4, <1>5, <2>1
  <2>2. CASE Len(t) # 0
    <3>1. Len(u) \in Len(s) + 1 .. Len(u) /\ Len(u) - Len(s) = Len(t)
      BY <1>3, <1>4, <2>2
    <3>2. QED
      BY <1>2, <1>5, <3>1
  <2>3. QED
    BY <2>1, <2>2
<1>8. ASSUME NEW i \in 1 .. Len(u)
      PROVE  j[i] = Latched(j[i - 1], u[i])
  <2>1. CASE i <= Len(s)
    <3>1. i \in 1 .. Len(s) /\ i \in 0 .. Len(s) /\ i - 1 \in 0 .. Len(s)
      BY <1>3, <2>1
    <3>2. QED
      BY <1>1, <1>4, <1>5, <3>1
  <2>2. CASE i = Len(s) + 1
    <3>1. i \in Len(s) + 1 .. Len(u) /\ i - Len(s) = 1 /\ i - 1 = Len(s) /\ 1 \in 1 .. Len(t)
          /\ Len(s) \in 0 .. Len(s)
      BY <1>3, <1>4, <2>2
    <3>2. u[i] = t[1] /\ j[i] = e[1] /\ j[i - 1] = c[Len(s)]
      BY <1>4, <1>5, <3>1
    <3>3. e[1] = Latched(e[1 - 1], t[1]) /\ 1 - 1 = 0
      BY <1>2, <3>1
    <3>4. QED
      BY <1>1, <1>2, <3>2, <3>3
  <2>3. CASE i > Len(s) + 1
    <3>1. /\ i \in Len(s) + 1 .. Len(u) /\ i - 1 \in Len(s) + 1 .. Len(u)
          /\ i - Len(s) \in 1 .. Len(t) /\ (i - 1) - Len(s) = (i - Len(s)) - 1
      BY <1>3, <1>4, <2>3
    <3>2. u[i] = t[i - Len(s)] /\ j[i] = e[i - Len(s)] /\ j[i - 1] = e[(i - Len(s)) - 1]
      BY <1>4, <1>5, <3>1
    <3>3. QED
      BY <1>2, <3>1, <3>2
  <2>4. QED
    BY <1>3, <2>1, <2>2, <2>3
<1>9. QED
  BY <1>4, <1>5, <1>6, <1>7, <1>8 DEF Leads, u

\* One nibble later.
LEMMA LeadsTail ==
  ASSUME NEW l, NEW r, NEW s, Leads(l, s, r), s # <<>>
  PROVE  Leads(Latched(l, Head(s)), Tail(s), r)
<1>1. PICK c \in [0 .. Len(s) -> LcdStates] :
        /\ c[0] = l /\ c[Len(s)] = r
        /\ \A i \in 1 .. Len(s) : c[i] = Latched(c[i - 1], s[i])
  BY DEF Leads
<1>2. s \in Seq(Nibs) /\ Len(s) \in Nat /\ Len(s) >= 1
  BY DEF Leads
<1>3. /\ Tail(s) \in Seq(Nibs) /\ Len(Tail(s)) = Len(s) - 1
      /\ \A i \in 1 .. Len(s) - 1 : Tail(s)[i] = s[i + 1]
      /\ Head(s) = s[1]
  BY <1>2
<1> DEFINE t == Tail(s)
           e == [i \in 0 .. Len(t) |-> c[i + 1]]
<1>4. \A i \in 0 .. Len(s) - 1 : i + 1 \in 0 .. Len(s)
  BY <1>2
<1>5. /\ e \in [0 .. Len(t) -> LcdStates]
      /\ \A i \in 0 .. Len(s) - 1 : e[i] = c[i + 1]
  BY <1>3, <1>4
<1>6. 0 \in 0 .. Len(s) - 1 /\ Len(s) - 1 \in 0 .. Len(s) - 1 /\ 1 \in 1 .. Len(s)
  BY <1>2
<1> HIDE DEF t, e
<1>7. e[0] = Latched(l, Head(s))
  <2>1. e[0] = c[0 + 1] /\ 0 + 1 = 1
    BY <1>5, <1>6
  <2>2. c[1] = Latched(c[1 - 1], s[1]) /\ 1 - 1 = 0
    BY <1>1, <1>6
  <2>3. QED
    BY <1>1, <1>3, <2>1, <2>2
<1>8. e[Len(t)] = r
  <2>1. e[Len(s) - 1] = c[(Len(s) - 1) + 1] /\ (Len(s) - 1) + 1 = Len(s)
    BY <1>2, <1>5, <1>6, SMTT(30)
  <2>2. QED
    BY <1>1, <1>3, <2>1 DEF t
<1>9. ASSUME NEW i \in 1 .. Len(t)
      PROVE  e[i] = Latched(e[i - 1], t[i])
  <2>1. /\ i \in 1 .. Len(s) - 1 /\ i \in 0 .. Len(s) - 1 /\ i - 1 \in 0 .. Len(s) - 1
        /\ i + 1 \in 1 .. Len(s) /\ (i - 1) + 1 = (i + 1) - 1
    BY <1>2, <1>3 DEF t
  <2>2. t[i] = s[i + 1] /\ e[i] = c[i + 1] /\ e[i - 1] = c[(i + 1) - 1]
    BY <1>3, <1>5, <2>1 DEF t
  <2>3. QED
    BY <1>1, <2>1, <2>2
<1>10. QED
  BY <1>3, <1>5, <1>7, <1>8, <1>9 DEF Leads, t

LEMMA PairJoined == \A a, b \in Nibs : <<a>> \o <<b>> = <<a, b>>
<1>1. ASSUME NEW a \in Nibs, NEW b \in Nibs
      PROVE  <<a>> \o <<b>> = <<a, b>>
  <2> DEFINE u == <<a>> \o <<b>>
  <2>1. <<a>> \in Seq(Nibs) /\ <<b>> \in Seq(Nibs) /\ Len(<<a>>) = 1 /\ Len(<<b>>) = 1
    OBVIOUS
  <2>2. u \in Seq(Nibs) /\ Len(u) = 2 /\ u[1] = a /\ u[2] = b
    BY <2>1
  <2> HIDE DEF u
  <2>3. u = <<a, b>>
    BY <2>2
  <2>4. QED
    BY <2>3 DEF u
<1>2. QED
  BY <1>1

LEMMA LeadsTwo ==
  ASSUME NEW l \in LcdStates, NEW a \in Nibs, NEW b \in Nibs
  PROVE  Leads(l, <<a, b>>, Latched(Latched(l, a), b))
<1>1. Latched(l, a) \in LcdStates
  BY LatchedTyped
<1>2. Leads(l, <<a>>, Latched(l, a)) /\ Leads(Latched(l, a), <<b>>, Latched(Latched(l, a), b))
  BY <1>1, LeadsOne
<1>3. <<a>> \o <<b>> = <<a, b>>
  BY PairJoined
<1>4. QED
  BY <1>2, <1>3, LeadsJoin

\* The two halves of a byte.
High(byte, rs) == <<rs, byte \div 16>>
Low(byte, rs) == <<rs, byte % 16>>
Holds(l, nib) == [l EXCEPT !.held = <<nib>>]

LEMMA TwoHalves ==
  ASSUME NEW l \in LcdStates, Whole(l), NEW byte \in 0 .. 255, NEW rs \in 0 .. 1
  PROVE  /\ High(byte, rs) \in Nibs /\ Low(byte, rs) \in Nibs
         /\ Latched(l, High(byte, rs)) = Holds(l, High(byte, rs))
         /\ Holds(l, High(byte, rs)) \in LcdStates
         /\ Latched(Holds(l, High(byte, rs)), Low(byte, rs)) = Executed(l, rs, byte)
<1> DEFINE hi == High(byte, rs)
           lo == Low(byte, rs)
<1>1. /\ byte \div 16 \in 0 .. 15 /\ byte % 16 \in 0 .. 15
      /\ 16 * (byte \div 16) + (byte % 16) = byte
  OBVIOUS
<1>2. hi \in Nibs /\ lo \in Nibs /\ hi[2] = byte \div 16 /\ lo[2] = byte % 16 /\ lo[1] = rs
  BY <1>1 DEF Nibs, High, Low
<1> HIDE DEF hi, lo
<1> DEFINE m == [l EXCEPT !.held = <<hi>>]
<1>3. Latched(l, hi) = m
  BY DEF Latched, Whole
<1>4. m.held = <<hi>> /\ m.wide = FALSE /\ [m EXCEPT !.held = NoNibble] = l
  <2>1. l.held = NoNibble /\ l.wide = FALSE
    BY StateFields DEF Whole
  <2>2. QED
    BY <2>1 DEF LcdStates
<1>5. m \in LcdStates
  BY <1>2, <1>3, LatchedTyped
<1> HIDE DEF m
<1>6. Latched(m, lo) = Executed(l, rs, byte)
  <2>1. m.held # NoNibble /\ m.held[1] = hi
    BY <1>4 DEF NoNibble
  <2>2. Latched(m, lo) = Executed([m EXCEPT !.held = NoNibble], lo[1], 16 * m.held[1][2] + lo[2])
    BY <1>4, <2>1 DEF Latched
  <2>3. 16 * m.held[1][2] + lo[2] = byte
    BY <1>1, <1>2, <2>1
  <2>4. QED
    BY <1>2, <1>4, <2>2, <2>3
<1>7. QED
  BY <1>2, <1>3, <1>5, <1>6 DEF m, hi, lo, Holds

\* A byte that is sent whole is executed.
LEMMA LeadsByte ==
  ASSUME NEW l \in LcdStates, Whole(l), NEW byte \in 0 .. 255, NEW rs \in 0 .. 1
  PROVE  Leads(l, Send(byte, rs), Executed(l, rs, byte))
<1> DEFINE hi == High(byte, rs)
           lo == Low(byte, rs)
<1>1. Send(byte, rs) = <<hi, lo>>
  BY DEF Send, High, Low
<1>2. /\ hi \in Nibs /\ lo \in Nibs
      /\ Latched(l, hi) = Holds(l, hi)
      /\ Latched(Holds(l, hi), lo) = Executed(l, rs, byte)
  BY TwoHalves
<1> HIDE DEF hi, lo
<1>3. Leads(l, <<hi, lo>>, Latched(Latched(l, hi), lo))
  BY <1>2, LeadsTwo
<1>4. QED
  BY <1>1, <1>2, <1>3

LEMMA LeadsCommand ==
  ASSUME NEW l \in LcdStates, Whole(l), NEW byte \in 0 .. 255
  PROVE  Leads(l, Command(byte), Instructed(l, byte))
<1>1. 0 \in 0 .. 1
  OBVIOUS
<1>2. Executed(l, 0, byte) = Instructed(l, byte)
  BY DEF Executed
<1>3. QED
  BY <1>1, <1>2, LeadsByte DEF Command

LEMMA TheCommands ==
  /\ LCD.clearDisplay = 1 /\ LCD.returnHome = 2 /\ LCD.entryModeSet = 4
  /\ LCD.displayControl = 8 /\ LCD.cursorShift = 16 /\ LCD.functionSet = 32
  /\ LCD.setCgramAddr = 64 /\ LCD.setDdramAddr = 128
  /\ LCD.entryLeft = 2 /\ LCD.entryShift = 1 /\ LCD.displayOn = 4 /\ LCD.displayMove = 8
  /\ LCD.moveRight = 4 /\ LCD.eightBit = 16 /\ LCD.twoLine = 8
BY DEF LCD

\* Instructions by their highest bit.
LEMMA AddressSet ==
  ASSUME NEW l, NEW byte \in 128 .. 255
  PROVE  Instructed(l, byte) = [l EXCEPT !.addr = byte - 128, !.cgram = FALSE]
<1>1. byte \in 0 .. 255 /\ byte # 0 /\ 128 \in Bits8 /\ 128 <= byte /\ byte < 2 * 128
  BY DEF Bits8
<1>2. HighestBit(byte) = 128
  BY <1>1, HighestBitIs
<1>3. QED
  BY <1>1, <1>2, TheCommands DEF Instructed

LEMMA FunctionSet ==
  ASSUME NEW l, NEW byte \in 32 .. 63
  PROVE  Instructed(l, byte) = [l EXCEPT !.wide = Has(byte, 16), !.twoLines = Has(byte, 8)]
<1>1. byte \in 0 .. 255 /\ byte # 0 /\ 32 \in Bits8 /\ 32 <= byte /\ byte < 2 * 32
  BY DEF Bits8
<1>2. HighestBit(byte) = 32
  BY <1>1, HighestBitIs
<1>3. QED
  BY <1>1, <1>2, TheCommands DEF Instructed

LEMMA DisplayControlled ==
  ASSUME NEW l, NEW byte \in 8 .. 15
  PROVE  Instructed(l, byte) = [l EXCEPT !.on = Has(byte, 4)]
<1>1. byte \in 0 .. 255 /\ byte # 0 /\ 8 \in Bits8 /\ 8 <= byte /\ byte < 2 * 8
  BY DEF Bits8
<1>2. HighestBit(byte) = 8
  BY <1>1, HighestBitIs
<1>3. QED
  BY <1>1, <1>2, TheCommands DEF Instructed

LEMMA EntryModeSet ==
  ASSUME NEW l, NEW byte \in 4 .. 7
  PROVE  Instructed(l, byte) =
           [l EXCEPT !.forward = Has(byte, 2), !.shifted = l.shifted \/ Has(byte, 1)]
<1>1. byte \in 0 .. 255 /\ byte # 0 /\ 4 \in Bits8 /\ 4 <= byte /\ byte < 2 * 4
  BY DEF Bits8
<1>2. HighestBit(byte) = 4
  BY <1>1, HighestBitIs
<1>3. QED
  BY <1>1, <1>2, TheCommands DEF Instructed

LEMMA HomeReturned ==
  ASSUME NEW l, NEW byte \in 2 .. 3
  PROVE  Instructed(l, byte) = Homed(l)
<1>1. byte \in 0 .. 255 /\ byte # 0 /\ 2 \in Bits8 /\ 2 <= byte /\ byte < 2 * 2
  BY DEF Bits8
<1>2. HighestBit(byte) = 2
  BY <1>1, HighestBitIs
<1>3. QED
  BY <1>1, <1>2, TheCommands DEF Instructed

LEMMA DisplayCleared ==
  ASSUME NEW l, NEW byte \in 1 .. 1
  PROVE  Instructed(l, byte) = [Homed(l) EXCEPT !.forward = TRUE, !.cells = Empty]
<1>1. byte \in 0 .. 255 /\ byte # 0 /\ 1 \in Bits8 /\ 1 <= byte /\ byte < 2 * 1
  BY DEF Bits8
<1>2. HighestBit(byte) = 1
  BY <1>1, HighestBitIs
<1>3. QED
  BY <1>1, <1>2, TheCommands DEF Instructed

\* What begin makes of the bytes it sends.
LEMMA TheBytes ==
  ASSUME NEW l
  PROVE  /\ Instructed(l, 63) = [l EXCEPT !.wide = TRUE, !.twoLines = TRUE]
         /\ Instructed(l, 51) = [l EXCEPT !.wide = TRUE, !.twoLines = FALSE]
         /\ Instructed(l, 47) = [l EXCEPT !.wide = FALSE, !.twoLines = TRUE]
         /\ Instructed(l, 40) = [l EXCEPT !.wide = FALSE, !.twoLines = TRUE]
         /\ Instructed(l, 12) = [l EXCEPT !.on = TRUE]
         /\ Instructed(l, 6) = [l EXCEPT !.forward = TRUE, !.shifted = l.shifted \/ FALSE]
         /\ Instructed(l, 2) = Homed(l)
         /\ Instructed(l, 1) = [Homed(l) EXCEPT !.forward = TRUE, !.cells = Empty]
<1>1. /\ Has(63, 16) = TRUE /\ Has(63, 8) = TRUE /\ Has(51, 16) = TRUE /\ Has(51, 8) = FALSE
      /\ Has(47, 16) = FALSE /\ Has(47, 8) = TRUE /\ Has(40, 16) = FALSE /\ Has(40, 8) = TRUE
      /\ Has(12, 4) = TRUE /\ Has(6, 2) = TRUE /\ Has(6, 1) = FALSE
  BY DEF Has
<1>2. /\ 63 \in 32 .. 63 /\ 51 \in 32 .. 63 /\ 47 \in 32 .. 63 /\ 40 \in 32 .. 63
      /\ 12 \in 8 .. 15 /\ 6 \in 4 .. 7 /\ 2 \in 2 .. 3 /\ 1 \in 1 .. 1
  OBVIOUS
<1>3. /\ Instructed(l, 63) = [l EXCEPT !.wide = Has(63, 16), !.twoLines = Has(63, 8)]
      /\ Instructed(l, 51) = [l EXCEPT !.wide = Has(51, 16), !.twoLines = Has(51, 8)]
      /\ Instructed(l, 47) = [l EXCEPT !.wide = Has(47, 16), !.twoLines = Has(47, 8)]
      /\ Instructed(l, 40) = [l EXCEPT !.wide = Has(40, 16), !.twoLines = Has(40, 8)]
  BY <1>2, FunctionSet
<1>4. /\ Instructed(l, 12) = [l EXCEPT !.on = Has(12, 4)]
      /\ Instructed(l, 6) = [l EXCEPT !.forward = Has(6, 2), !.shifted = l.shifted \/ Has(6, 1)]
  BY <1>2, DisplayControlled, EntryModeSet
<1>5. /\ Instructed(l, 2) = Homed(l)
      /\ Instructed(l, 1) = [Homed(l) EXCEPT !.forward = TRUE, !.cells = Empty]
  BY <1>2, HomeReturned, DisplayCleared
<1>6. QED
  BY <1>1, <1>3, <1>4, <1>5, ZenonT(30)

Three == <<0, 3>>
Two   == <<0, 2>>

\* The nibbles of begin: 0x3 to a controller with eight bits, with four and none
\* held, and with four and half a byte held.
LEMMA ThreeTwo ==
  ASSUME NEW l \in LcdStates
  PROVE  /\ Three \in Nibs /\ Two \in Nibs
         /\ Latched(l, Three) \in LcdStates /\ Latched(l, Two) \in LcdStates
         /\ l.wide => Latched(l, Three).wide /\ Whole(Latched(l, Two))
         /\ Whole(l) => Latched(Latched(l, Three), Three).wide
         /\ Latched(l, Three).wide \/ Whole(Latched(l, Three)) \/ Whole(l)
<1>1. Three \in Nibs /\ Two \in Nibs /\ Three[1] = 0 /\ Three[2] = 3 /\ Two[1] = 0 /\ Two[2] = 2
  BY DEF Three, Two, Nibs
<1>2. Latched(l, Three) \in LcdStates /\ Latched(l, Two) \in LcdStates
  BY <1>1, LatchedTyped
<1>3. ASSUME l.wide
      PROVE  Latched(l, Three).wide /\ Whole(Latched(l, Two))
  <2>1. 16 * 3 + 15 = 63 /\ 16 * 2 + 15 = 47
    OBVIOUS
  <2>2. Latched(l, Three) = Instructed(l, 63) /\ Latched(l, Two) = Instructed(l, 47)
    BY <1>1, <1>3, <2>1 DEF Latched, Executed
  <2>3. l.held = NoNibble
    BY <1>3, StateFields
  <2>4. [l EXCEPT !.wide = TRUE, !.twoLines = TRUE].wide
    BY DEF LcdStates
  <2>5. /\ ~[l EXCEPT !.wide = FALSE, !.twoLines = TRUE].wide
        /\ [l EXCEPT !.wide = FALSE, !.twoLines = TRUE].held = NoNibble
    BY <2>3 DEF LcdStates
  <2>6. QED
    BY <2>2, <2>4, <2>5, TheBytes DEF Whole
<1>4. ASSUME Whole(l)
      PROVE  Latched(Latched(l, Three), Three).wide
  <2> DEFINE m == [l EXCEPT !.held = <<Three>>]
  <2>1. Latched(l, Three) = m
    BY <1>4 DEF Latched, Whole
  <2>2. m.held = <<Three>> /\ ~m.wide /\ m.held # NoNibble /\ m.held[1] = Three
    BY <1>4 DEF LcdStates, Whole, NoNibble
  <2> DEFINE n == [m EXCEPT !.held = NoNibble]
  <2>3. n \in LcdStates
    BY NoHalf DEF LcdStates
  <2>4. 16 * 3 + 3 = 51
    OBVIOUS
  <2> HIDE DEF m
  <2>5. Latched(m, Three) = Executed(n, Three[1], 16 * m.held[1][2] + Three[2])
    BY <2>2 DEF Latched
  <2>6. Latched(m, Three) = Instructed(n, 51)
    BY <1>1, <2>2, <2>4, <2>5 DEF Executed
  <2> HIDE DEF n
  <2>7. [n EXCEPT !.wide = TRUE, !.twoLines = FALSE].wide
    BY <2>3 DEF LcdStates
  <2>8. QED
    BY <2>1, <2>6, <2>7, TheBytes
<1>5. Latched(l, Three).wide \/ Whole(Latched(l, Three)) \/ Whole(l)
  <2>1. CASE l.wide \/ Whole(l)
    BY <1>3, <2>1
  <2>2. CASE ~l.wide /\ ~Whole(l)
    <3>1. PICK n \in Nibs : l.held = <<n>>
      BY <2>2, StateFields DEF Whole, Halves
    <3>2. n[2] \in 0 .. 15 /\ l.held[1] = n /\ l.held # NoNibble
      BY <2>2, <3>1 DEF Nibs, Whole
    <3> DEFINE m == [l EXCEPT !.held = NoNibble]
               byte == 16 * l.held[1][2] + Three[2]
    <3>3. m \in LcdStates /\ m.held = NoNibble
      BY NoHalf DEF LcdStates
    <3>4. byte \in 0 .. 255
      BY <1>1, <3>2
    <3>5. Latched(l, Three) = Executed(m, Three[1], byte)
      BY <2>2, <3>2 DEF Latched, Whole
    <3> HIDE DEF m, byte
    <3>6. Latched(l, Three) = Instructed(m, byte)
      BY <1>1, <3>5 DEF Executed
    <3>7. Instructed(m, byte).held = NoNibble
      BY <3>3, <3>4, InstructedTyped
    <3>8. Latched(l, Three).held = NoNibble
      BY <3>6, <3>7
    <3>9. QED
      BY <1>2, <3>8, StateFields DEF Whole
  <2>3. QED
    BY <2>1, <2>2
<1>6. QED
  BY <1>1, <1>2, <1>3, <1>4, <1>5

\* begin finds four bits and no half byte from whatever state the controller is in.
LEMMA WakeUpWorks ==
  ASSUME NEW l \in LcdStates
  PROVE  \E m \in LcdStates : Whole(m) /\ Leads(l, WakeUp, m)
<1> DEFINE a == Latched(l, Three)
           b == Latched(a, Three)
           d == Latched(b, Three)
           m == Latched(d, Two)
<1>1. a \in LcdStates
  BY ThreeTwo
<1>2. b \in LcdStates
  BY <1>1, ThreeTwo
<1>3. d \in LcdStates
  BY <1>2, ThreeTwo
<1>4. m \in LcdStates
  BY <1>3, ThreeTwo
<1>5. d.wide
  <2>1. l.wide => a.wide
    BY ThreeTwo
  <2>2. (a.wide => b.wide) /\ (Whole(a) => d.wide)
    BY <1>1, ThreeTwo
  <2>3. b.wide => d.wide
    BY <1>2, ThreeTwo
  <2>4. Whole(l) => b.wide
    BY ThreeTwo
  <2>5. a.wide \/ Whole(a) \/ Whole(l)
    BY ThreeTwo
  <2>6. QED
    BY <2>2, <2>3, <2>4, <2>5
<1>6. Whole(m)
  BY <1>3, <1>5, ThreeTwo
<1>7. Three \in Nibs /\ Two \in Nibs
  BY ThreeTwo
<1>8. Leads(l, <<Three, Three>>, b) /\ Leads(b, <<Three, Two>>, m)
  BY <1>2, <1>7, LeadsTwo
<1>9. WakeUp = <<Three, Three>> \o <<Three, Two>>
  BY DEF WakeUp, Three, Two
<1> HIDE DEF a, b, d, m
<1>10. Leads(l, WakeUp, m)
  BY <1>8, <1>9, LeadsJoin
<1>11. QED
  BY <1>4, <1>6, <1>10

\* The screen is on and shows w, and the controller waits for a byte.
Good(l, w) ==
  /\ l \in LcdStates /\ Whole(l)
  /\ l.twoLines /\ l.on /\ ~l.shifted /\ l.forward
  /\ l.cells = w

LEMMA LeadsBegin ==
  ASSUME NEW l \in LcdStates, Whole(l), NEW byte \in {40, 12, 6, 2, 1}
  PROVE  /\ Instructed(l, byte) \in LcdStates /\ Whole(Instructed(l, byte))
         /\ Leads(l, Command(byte), Instructed(l, byte))
         /\ byte = 40 => Instructed(l, byte).twoLines
         /\ byte # 40 => Instructed(l, byte).twoLines = l.twoLines
         /\ byte = 12 => Instructed(l, byte).on
         /\ byte # 12 => Instructed(l, byte).on = l.on
         /\ byte = 1 => LET r == Instructed(l, byte)
                        IN  ~r.shifted /\ r.forward /\ r.cells = Empty
<1> DEFINE r == Instructed(l, byte)
<1>1. byte \in 0 .. 255 /\ l.held = NoNibble /\ ~l.wide
  BY DEF Whole
<1>2. r \in LcdStates /\ r.held = NoNibble /\ Leads(l, Command(byte), r)
  BY <1>1, InstructedTyped, LeadsCommand
<1>3. \/ byte = 40 /\ r = [l EXCEPT !.wide = FALSE, !.twoLines = TRUE]
      \/ byte = 12 /\ r = [l EXCEPT !.on = TRUE]
      \/ byte = 6 /\ r = [l EXCEPT !.forward = TRUE, !.shifted = l.shifted \/ FALSE]
      \/ byte = 2 /\ r = [l EXCEPT !.addr = 0, !.cgram = FALSE, !.shifted = FALSE]
      \/ byte = 1 /\ r = [[l EXCEPT !.addr = 0, !.cgram = FALSE, !.shifted = FALSE]
                            EXCEPT !.forward = TRUE, !.cells = Empty]
  BY TheBytes, ZenonT(30) DEF Homed
<1> DEFINE x == l.shifted \/ FALSE
<1> HIDE DEF r, x
<1>4. /\ ~r.wide
      /\ byte = 40 => r.twoLines
      /\ byte # 40 => r.twoLines = l.twoLines
      /\ byte = 12 => r.on
      /\ byte # 12 => r.on = l.on
      /\ byte = 1 => ~r.shifted /\ r.forward /\ r.cells = Empty
  <2>1. CASE byte = 40
    <3>1. r = [l EXCEPT !.wide = FALSE, !.twoLines = TRUE]
      BY <1>3, <2>1
    <3>2. QED
      BY <1>1, <2>1, <3>1 DEF LcdStates
  <2>2. CASE byte = 12
    <3>1. r = [l EXCEPT !.on = TRUE]
      BY <1>3, <2>2
    <3>2. QED
      BY <1>1, <2>2, <3>1 DEF LcdStates
  <2>3. CASE byte = 6
    <3>1. r = [l EXCEPT !.forward = TRUE, !.shifted = x]
      BY <1>3, <2>3 DEF x
    <3>2. QED
      BY <1>1, <2>3, <3>1 DEF LcdStates
  <2>4. CASE byte = 2
    <3>1. r = [l EXCEPT !.addr = 0, !.cgram = FALSE, !.shifted = FALSE]
      BY <1>3, <2>4
    <3>2. QED
      BY <1>1, <2>4, <3>1 DEF LcdStates
  <2>5. CASE byte = 1
    <3>1. r = [[l EXCEPT !.addr = 0, !.cgram = FALSE, !.shifted = FALSE]
                 EXCEPT !.forward = TRUE, !.cells = Empty]
      BY <1>3, <2>5
    <3>2. QED
      BY <1>1, <2>5, <3>1 DEF LcdStates
  <2>6. QED
    BY <2>1, <2>2, <2>3, <2>4, <2>5
<1>5. QED
  BY <1>2, <1>4 DEF r, Whole

\* display_init: from any state of the controller to an empty screen that is on.
LEMMA InitWorks ==
  ASSUME NEW l \in LcdStates
  PROVE  \E r : Leads(l, DisplayInit, r) /\ Good(r, Empty)
<1>1. PICK m \in LcdStates : Whole(m) /\ Leads(l, WakeUp, m)
  BY WakeUpWorks
<1> DEFINE a == Instructed(m, 40)
           b == Instructed(a, 12)
           c == Instructed(b, 1)
           d == Instructed(c, 6)
           e == Instructed(d, 2)
           r == Instructed(e, 1)
<1>2. a \in LcdStates /\ Whole(a) /\ Leads(m, Command(40), a) /\ a.twoLines
  BY <1>1, LeadsBegin
<1> HIDE DEF a
<1>3. b \in LcdStates /\ Whole(b) /\ Leads(a, Command(12), b) /\ b.twoLines /\ b.on
  BY <1>2, LeadsBegin
<1> HIDE DEF b
<1>4. c \in LcdStates /\ Whole(c) /\ Leads(b, Command(1), c) /\ c.twoLines /\ c.on
  BY <1>3, LeadsBegin
<1> HIDE DEF c
<1>5. d \in LcdStates /\ Whole(d) /\ Leads(c, Command(6), d) /\ d.twoLines /\ d.on
  BY <1>4, LeadsBegin
<1> HIDE DEF d
<1>6. e \in LcdStates /\ Whole(e) /\ Leads(d, Command(2), e) /\ e.twoLines /\ e.on
  BY <1>5, LeadsBegin
<1> HIDE DEF e
<1>7. r \in LcdStates /\ Whole(r) /\ Leads(e, Command(1), r) /\ r.twoLines /\ r.on
      /\ ~r.shifted /\ r.forward /\ r.cells = Empty
  BY <1>6, LeadsBegin
<1> HIDE DEF r
<1>8. /\ Function = Command(40) /\ Display = Command(12) /\ Clear = Command(1)
      /\ Entry = Command(6) /\ Home = Command(2)
  BY TheCommands DEF Function, Display, Clear, Entry, Home
<1>9. DisplayInit = WakeUp \o Command(40) \o Command(12) \o Command(1) \o Command(6)
                      \o Command(2) \o Command(1)
  BY <1>8 DEF DisplayInit, Begin
<1>10. Leads(l, WakeUp \o Command(40), a)
  BY <1>1, <1>2, LeadsJoin
<1>11. Leads(l, WakeUp \o Command(40) \o Command(12), b)
  BY <1>3, <1>10, LeadsJoin
<1>12. Leads(l, WakeUp \o Command(40) \o Command(12) \o Command(1), c)
  BY <1>4, <1>11, LeadsJoin
<1>13. Leads(l, WakeUp \o Command(40) \o Command(12) \o Command(1) \o Command(6), d)
  BY <1>5, <1>12, LeadsJoin
<1>14. Leads(l, WakeUp \o Command(40) \o Command(12) \o Command(1) \o Command(6) \o Command(2), e)
  BY <1>6, <1>13, LeadsJoin
<1>15. Leads(l, DisplayInit, r)
  BY <1>7, <1>9, <1>14, LeadsJoin
<1>16. QED
  BY <1>7, <1>15 DEF Good

LEMMA AddressIn ==
  ASSUME NEW cell \in Cells
  PROVE  /\ cell[1] \in 0 .. 1 /\ cell[2] \in 0 .. Columns - 1 /\ Columns \in 3 .. 40
         /\ cell[1] = 0 => AddressOf(cell) = cell[2]
         /\ cell[1] = 1 => AddressOf(cell) = cell[2] + 64
         /\ AddressOf(cell) \in 0 .. 127
<1>1. cell[1] \in 0 .. 1 /\ cell[2] \in 0 .. Columns - 1 /\ Columns \in 3 .. 40
  BY LcdAssumption DEF Cells
<1>2. /\ cell[1] = 0 => AddressOf(cell) = cell[2]
      /\ cell[1] = 1 => AddressOf(cell) = cell[2] + 64
  BY <1>1 DEF AddressOf, RowOffset
<1>3. QED
  BY <1>1, <1>2

\* k characters of a text are written from the address on.
Printed(l, text, k) ==
  [l EXCEPT !.addr = l.addr + k,
            !.cells = [cell \in Cells |->
               IF l.addr <= AddressOf(cell) /\ AddressOf(cell) < l.addr + k
               THEN text[AddressOf(cell) - l.addr + 1] ELSE l.cells[cell]]]

Printable(l, text) ==
  /\ l \in LcdStates /\ Whole(l) /\ l.forward /\ ~l.cgram
  /\ text \in Seq(0 .. 255) /\ l.addr + Len(text) <= 127

LEMMA PrintedTyped ==
  ASSUME NEW l, NEW text, Printable(l, text), NEW k \in 0 .. Len(text)
  PROVE  /\ Printed(l, text, k) \in LcdStates /\ Whole(Printed(l, text, k))
         /\ Printed(l, text, k).addr = l.addr + k
         /\ Printed(l, text, k).forward /\ ~Printed(l, text, k).cgram
<1> DEFINE a == l.addr + k
           w == [cell \in Cells |->
                   IF l.addr <= AddressOf(cell) /\ AddressOf(cell) < l.addr + k
                   THEN text[AddressOf(cell) - l.addr + 1] ELSE l.cells[cell]]
           r == Printed(l, text, k)
<1>1. /\ l \in LcdStates /\ l.addr \in 0 .. 127 /\ l.cells \in Pictures /\ Len(text) \in Nat
      /\ text \in Seq(0 .. 255) /\ l.addr + Len(text) <= 127 /\ l.held = NoNibble /\ ~l.wide
      /\ l.forward /\ ~l.cgram
  BY StateFields DEF Printable, Whole
<1>2. l.addr \in Nat /\ Len(text) \in Nat /\ l.addr + Len(text) <= 127 /\ a \in 0 .. 127
  <2>1. \A s, n, j \in Nat : s + n <= 127 /\ j <= n => s + j \in 0 .. 127
    OBVIOUS
  <2>2. \A n \in Nat : \A j \in 0 .. n : j \in Nat /\ j <= n
    OBVIOUS
  <2>3. \A s \in 0 .. 127 : s \in Nat
    OBVIOUS
  <2>4. QED
    BY <1>1, <2>1, <2>2, <2>3, Zenon
<1>3. w \in Pictures
  <2>1. ASSUME NEW cell \in Cells, l.addr <= AddressOf(cell), AddressOf(cell) < l.addr + k
        PROVE  text[AddressOf(cell) - l.addr + 1] \in 0 .. 255
    <3> DEFINE i == AddressOf(cell) - l.addr + 1
    <3>1. i \in 1 .. Len(text)
      <4>1. \A s, n, x \in Nat : \A j \in 0 .. n : s <= x /\ x < s + j => x - s + 1 \in 1 .. n
        OBVIOUS
      <4>2. \A x \in 0 .. 127 : x \in Nat
        OBVIOUS
      <4>3. AddressOf(cell) \in Nat
        BY <4>2, AddressIn
      <4>4. QED
        BY <1>2, <2>1, <4>1, <4>3, Zenon
    <3> HIDE DEF i
    <3>2. text[i] \in 0 .. 255
      BY <1>1, <3>1, ElementOfSeq
    <3>3. QED
      BY <3>2 DEF i
  <2>2. QED
    BY <1>1, <2>1 DEF Pictures
<1>4. r = [l EXCEPT !.addr = a, !.cells = w]
  BY DEF Printed
<1> HIDE DEF a, w, r
<1>5. /\ r \in LcdStates /\ r.held = NoNibble /\ ~r.wide /\ r.addr = a /\ r.forward /\ ~r.cgram
  BY <1>1, <1>2, <1>3, <1>4 DEF LcdStates
<1>6. QED
  BY <1>5 DEF r, a, Whole

LEMMA SameState ==
  ASSUME NEW l \in LcdStates, NEW a, NEW w
  PROVE  /\ [l EXCEPT !.addr = l.addr, !.cells = l.cells] = l
         /\ \A b, v : [[l EXCEPT !.addr = a, !.cells = w] EXCEPT !.addr = b, !.cells = v]
                        = [l EXCEPT !.addr = b, !.cells = v]
BY DEF LcdStates

LEMMA PrintedNothing ==
  ASSUME NEW l, NEW text, Printable(l, text)
  PROVE  Printed(l, text, 0) = l
<1>1. l \in LcdStates /\ l.addr \in 0 .. 127 /\ l.cells \in Pictures
  BY StateFields DEF Printable
<1> DEFINE w == [cell \in Cells |->
                   IF l.addr <= AddressOf(cell) /\ AddressOf(cell) < l.addr + 0
                   THEN text[AddressOf(cell) - l.addr + 1] ELSE l.cells[cell]]
<1>2. \A cell \in Cells : ~(l.addr <= AddressOf(cell) /\ AddressOf(cell) < l.addr + 0)
  BY <1>1, AddressIn
<1>3. w = [cell \in Cells |-> l.cells[cell]]
  BY <1>2
<1>4. w = l.cells
  BY <1>1, <1>3 DEF Pictures
<1>5. l.addr + 0 = l.addr
  BY <1>1
<1>6. Printed(l, text, 0) = [l EXCEPT !.addr = l.addr + 0, !.cells = w]
  BY DEF Printed
<1> HIDE DEF w
<1>7. QED
  BY <1>1, <1>4, <1>5, <1>6, SameState

LEMMA PrintedNext ==
  ASSUME NEW l, NEW text, Printable(l, text), NEW k \in 0 .. Len(text) - 1
  PROVE  Executed(Printed(l, text, k), 1, text[k + 1]) = Printed(l, text, k + 1)
<1>1. /\ l \in LcdStates /\ l.addr \in 0 .. 127 /\ l.cells \in Pictures /\ Len(text) \in Nat
      /\ l.addr + Len(text) <= 127
  BY StateFields DEF Printable
<1> DEFINE p == Printed(l, text, k)
           w(n) == [cell \in Cells |->
                   IF l.addr <= AddressOf(cell) /\ AddressOf(cell) < l.addr + n
                   THEN text[AddressOf(cell) - l.addr + 1] ELSE l.cells[cell]]
           a == l.addr + k
           v == [cell \in Cells |-> IF AddressOf(cell) = a THEN text[k + 1] ELSE w(k)[cell]]
<1>2. /\ k \in 0 .. Len(text) /\ k \in Nat /\ l.addr \in Nat
      /\ (a + 1) % 128 = l.addr + (k + 1) /\ a \in 0 .. 127
  <2>1. \A n \in Nat : \A j \in 0 .. n - 1 : j \in 0 .. n /\ j \in Nat /\ j + 1 <= n
    OBVIOUS
  <2>2. \A s, n, j \in Nat :
          s + n <= 127 /\ j + 1 <= n => ((s + j) + 1) % 128 = s + (j + 1) /\ s + j \in 0 .. 127
    OBVIOUS
  <2>3. \A s \in 0 .. 127 : s \in Nat
    OBVIOUS
  <2>4. QED
    BY <1>1, <2>1, <2>2, <2>3, Zenon
<1>3. p = [l EXCEPT !.addr = a, !.cells = w(k)]
  BY DEF Printed
<1>4. p \in LcdStates /\ p.addr = a /\ p.forward /\ ~p.cgram
  BY <1>2, PrintedTyped
<1>5. p.cells = w(k)
  <2> DEFINE x == w(k)
  <2> HIDE DEF x, a
  <2>1. [l EXCEPT !.addr = a, !.cells = x].cells = x
    BY <1>1 DEF LcdStates
  <2>2. QED
    BY <1>3, <2>1 DEF x
<1>6. v = w(k + 1)
  <2>1. ASSUME NEW cell \in Cells
        PROVE  v[cell] = w(k + 1)[cell]
    <3>1. AddressOf(cell) \in 0 .. 127
      BY AddressIn
    <3> DEFINE x == AddressOf(cell)
    <3>2. /\ v[cell] = IF x = a THEN text[k + 1]
                       ELSE IF l.addr <= x /\ x < l.addr + k THEN text[x - l.addr + 1]
                       ELSE l.cells[cell]
          /\ w(k + 1)[cell] = IF l.addr <= x /\ x < l.addr + (k + 1) THEN text[x - l.addr + 1]
                              ELSE l.cells[cell]
      OBVIOUS
    <3> HIDE DEF v, w, x
    <3>3. CASE x = a
      <4>1. \A s, j \in Nat :
              s <= s + j /\ s + j < s + (j + 1) /\ (s + j) - s + 1 = j + 1
        OBVIOUS
      <4>2. l.addr <= x /\ x < l.addr + (k + 1) /\ x - l.addr + 1 = k + 1
        BY <1>2, <3>3, <4>1, Zenon
      <4>3. QED
        BY <3>2, <3>3, <4>2
    <3>4. CASE x # a
      <4>1. \A s, j \in Nat, y \in 0 .. 127 :
              y # s + j => ((s <= y /\ y < s + j) <=> (s <= y /\ y < s + (j + 1)))
        OBVIOUS
      <4>2. (l.addr <= x /\ x < l.addr + k) <=> (l.addr <= x /\ x < l.addr + (k + 1))
        BY <1>2, <3>1, <3>4, <4>1, Zenon DEF x
      <4>3. QED
        BY <3>2, <3>4, <4>2
    <3>5. QED
      BY <3>3, <3>4
  <2>2. v = [cell \in Cells |-> v[cell]] /\ w(k + 1) = [cell \in Cells |-> w(k + 1)[cell]]
    OBVIOUS
  <2> HIDE DEF v, w
  <2>3. QED
    BY <2>1, <2>2
<1>7. Executed(p, 1, text[k + 1]) = [p EXCEPT !.addr = (a + 1) % 128, !.cells = v]
  <2>1. Executed(p, 1, text[k + 1]) = Written(p, text[k + 1])
    BY DEF Executed
  <2> DEFINE byte == text[k + 1]
             m    == CursorMoved(p, p.forward)
             u    == [cell \in Cells |-> IF ~p.cgram /\ AddressOf(cell) = p.addr
                                         THEN byte ELSE m.cells[cell]]
             j    == (a + 1) % 128
  <2>2. Written(p, byte) = [m EXCEPT !.cells = u]
    BY DEF Written
  <2> HIDE DEF p
  <2>3. m = [p EXCEPT !.addr = j]
    BY <1>4 DEF CursorMoved
  <2> HIDE DEF j
  <2>4. m.cells = p.cells
    BY <1>4, <2>3 DEF LcdStates
  <2>5. u = v
    <3>1. \A cell \in Cells : u[cell] = v[cell]
      BY <1>4, <1>5, <2>4
    <3>2. QED
      BY <3>1
  <2> HIDE DEF u, v, m, byte
  <2>6. [[p EXCEPT !.addr = j] EXCEPT !.cells = v] = [p EXCEPT !.addr = j, !.cells = v]
    BY <1>4 DEF LcdStates
  <2>7. QED
    BY <2>1, <2>2, <2>3, <2>5, <2>6 DEF j, byte
<1>8. Printed(l, text, k + 1) = [l EXCEPT !.addr = l.addr + (k + 1), !.cells = w(k + 1)]
  BY DEF Printed
<1> DEFINE x == w(k)
           b == l.addr + (k + 1)
<1>9. p = [l EXCEPT !.addr = a, !.cells = x]
  BY <1>3
<1> HIDE DEF p, v, w, a, x, b
<1>10. [p EXCEPT !.addr = b, !.cells = v] = [l EXCEPT !.addr = b, !.cells = v]
  <2>1. \A y, z : [[l EXCEPT !.addr = a, !.cells = x] EXCEPT !.addr = y, !.cells = z]
                    = [l EXCEPT !.addr = y, !.cells = z]
    BY <1>1, SameState, ZenonT(30)
  <2>2. QED
    BY <1>9, <2>1, Zenon
<1>11. Executed(p, 1, text[k + 1]) = [p EXCEPT !.addr = b, !.cells = v]
  BY <1>2, <1>7 DEF b
<1>12. QED
  BY <1>6, <1>8, <1>10, <1>11 DEF p, b

LEMMA FunctionSeq ==
  ASSUME NEW S, NEW n \in Nat, NEW f \in [1 .. n -> S]
  PROVE  f \in Seq(S) /\ Len(f) = n
<1>1. f \in Seq(S)
  BY SeqDef
<1>2. DOMAIN f = 1 .. Len(f) /\ Len(f) \in Nat
  BY <1>1, LenProperties
<1>3. QED
  BY <1>1, <1>2

\* A text that is sent is printed.
LEMMA LeadsText ==
  ASSUME NEW l, NEW text, Printable(l, text)
  PROVE  Leads(l, Characters(text), Printed(l, text, Len(text)))
<1> DEFINE n     == Len(text)
           s     == Characters(text)
           hi(j) == High(text[j], 1)
           lo(j) == Low(text[j], 1)
           p(k)  == Printed(l, text, k)
           h(k)  == Holds(p(k), hi(k + 1))
           c     == [i \in 0 .. 2 * n |-> IF i % 2 = 0 THEN p(i \div 2) ELSE h(i \div 2)]
<1>1. n \in Nat /\ 2 * n \in Nat /\ \A j \in 1 .. n : text[j] \in 0 .. 255
  <2>1. text \in Seq(0 .. 255)
    BY DEF Printable
  <2>2. n \in Nat /\ \A j \in 1 .. n : text[j] \in 0 .. 255
    BY <2>1, LenProperties, ElementOfSeq
  <2>3. QED
    BY <2>2
<1>2. ASSUME NEW k \in 0 .. n - 1
      PROVE  /\ hi(k + 1) \in Nibs /\ lo(k + 1) \in Nibs
             /\ p(k) \in LcdStates /\ h(k) \in LcdStates /\ p(k + 1) \in LcdStates
             /\ Latched(p(k), hi(k + 1)) = h(k) /\ Latched(h(k), lo(k + 1)) = p(k + 1)
  <2>1. k \in 0 .. n /\ k + 1 \in 0 .. n /\ k + 1 \in 1 .. n /\ 1 \in 0 .. 1
    BY <1>1
  <2>2. p(k) \in LcdStates /\ Whole(p(k)) /\ p(k + 1) \in LcdStates
    BY <2>1, PrintedTyped
  <2>3. text[k + 1] \in 0 .. 255
    BY <1>1, <2>1
  <2>4. Executed(p(k), 1, text[k + 1]) = p(k + 1)
    BY PrintedNext
  <2> DEFINE q == p(k)
             byte == text[k + 1]
             r == p(k + 1)
             x == hi(k + 1)
             y == lo(k + 1)
  <2>5. x = High(byte, 1) /\ y = Low(byte, 1) /\ h(k) = Holds(q, x)
    OBVIOUS
  <2>6. /\ q \in LcdStates /\ Whole(q) /\ byte \in 0 .. 255 /\ Executed(q, 1, byte) = r
        /\ r \in LcdStates
    BY <2>2, <2>3, <2>4
  <2> HIDE DEF q, byte, r, x, y, h
  <2>7. /\ High(byte, 1) \in Nibs /\ Low(byte, 1) \in Nibs
        /\ Latched(q, High(byte, 1)) = Holds(q, High(byte, 1))
        /\ Holds(q, High(byte, 1)) \in LcdStates
        /\ Latched(Holds(q, High(byte, 1)), Low(byte, 1)) = Executed(q, 1, byte)
    BY <2>1, <2>6, TwoHalves
  <2>8. x \in Nibs /\ y \in Nibs /\ q \in LcdStates /\ h(k) \in LcdStates /\ r \in LcdStates
        /\ Latched(q, x) = h(k) /\ Latched(h(k), y) = r
    BY <2>5, <2>6, <2>7
  <2>9. QED
    BY <2>8 DEF q, r, x, y
<1>3. \A i \in 1 .. 2 * n : \E k \in 0 .. n - 1 : i = 2 * k + 1 \/ i = 2 * k + 2
  <2> TAKE i \in 1 .. 2 * n
  <2>1. (i - 1) \div 2 \in 0 .. n - 1
        /\ (i = 2 * ((i - 1) \div 2) + 1 \/ i = 2 * ((i - 1) \div 2) + 2)
    BY <1>1
  <2>2. QED
    BY <2>1
<1>4. ASSUME NEW k \in 0 .. n - 1
      PROVE  /\ 2 * k + 1 \in 1 .. 2 * n /\ 2 * k + 2 \in 1 .. 2 * n
             /\ s[2 * k + 1] = hi(k + 1) /\ s[2 * k + 2] = lo(k + 1)
             /\ c[2 * k] = p(k) /\ c[2 * k + 1] = h(k) /\ c[2 * k + 2] = p(k + 1)
  <2>1. /\ 2 * k + 1 \in 1 .. 2 * n /\ 2 * k + 2 \in 1 .. 2 * n
        /\ 2 * k \in 0 .. 2 * n /\ 2 * k + 1 \in 0 .. 2 * n /\ 2 * k + 2 \in 0 .. 2 * n
    BY <1>1
  <2>2. /\ (2 * k) % 2 = 0 /\ (2 * k + 1) % 2 = 1 /\ (2 * k + 2) % 2 = 0
        /\ (2 * k) \div 2 = k /\ (2 * k + 1) \div 2 = k /\ (2 * k + 2) \div 2 = k + 1
        /\ ((2 * k + 1) + 1) \div 2 = k + 1 /\ ((2 * k + 2) + 1) \div 2 = k + 1
    BY <1>1
  <2>3. c[2 * k] = p(k) /\ c[2 * k + 1] = h(k) /\ c[2 * k + 2] = p(k + 1)
    <3> HIDE DEF p, h
    <3>1. /\ c[2 * k] = IF (2 * k) % 2 = 0 THEN p((2 * k) \div 2) ELSE h((2 * k) \div 2)
          /\ c[2 * k + 1] = IF (2 * k + 1) % 2 = 0 THEN p((2 * k + 1) \div 2)
                                                   ELSE h((2 * k + 1) \div 2)
          /\ c[2 * k + 2] = IF (2 * k + 2) % 2 = 0 THEN p((2 * k + 2) \div 2)
                                                   ELSE h((2 * k + 2) \div 2)
      BY <2>1
    <3>2. QED
      BY <2>2, <3>1
  <2>4. s[2 * k + 1] = Send(text[k + 1], 1)[1] /\ s[2 * k + 2] = Send(text[k + 1], 1)[2]
    <3> DEFINE f(i, j) == Send(text[j], 1)[IF i % 2 = 1 THEN 1 ELSE 2]
    <3>1. \A i \in 1 .. 2 * n : s[i] = f(i, (i + 1) \div 2)
      BY DEF Characters
    <3>2. s[2 * k + 1] = f(2 * k + 1, ((2 * k + 1) + 1) \div 2)
          /\ s[2 * k + 2] = f(2 * k + 2, ((2 * k + 2) + 1) \div 2)
      BY <2>1, <3>1
    <3>3. s[2 * k + 1] = f(2 * k + 1, k + 1) /\ s[2 * k + 2] = f(2 * k + 2, k + 1)
      BY <2>2, <3>2
    <3>4. QED
      BY <2>2, <3>3
  <2>5. Send(text[k + 1], 1)[1] = hi(k + 1) /\ Send(text[k + 1], 1)[2] = lo(k + 1)
    BY DEF Send, High, Low
  <2>6. QED
    BY <2>1, <2>3, <2>4, <2>5
<1>5. s \in Seq(Nibs) /\ Len(s) = 2 * n
  <2>1. DOMAIN s = 1 .. 2 * n /\ s = [i \in 1 .. 2 * n |-> s[i]]
    BY DEF Characters
  <2>2. \A i \in 1 .. 2 * n : s[i] \in Nibs
    <3> TAKE i \in 1 .. 2 * n
    <3>1. PICK k \in 0 .. n - 1 : i = 2 * k + 1 \/ i = 2 * k + 2
      BY <1>3
    <3>2. hi(k + 1) \in Nibs /\ lo(k + 1) \in Nibs
      BY <1>2
    <3>3. s[2 * k + 1] = hi(k + 1) /\ s[2 * k + 2] = lo(k + 1)
      BY <1>4
    <3> HIDE DEF s, hi, lo
    <3>4. QED
      BY <3>1, <3>2, <3>3
  <2> HIDE DEF s
  <2>3. s \in [1 .. 2 * n -> Nibs]
    BY <2>1, <2>2
  <2> DEFINE m == 2 * n
  <2>4. m \in Nat /\ s \in [1 .. m -> Nibs]
    BY <1>1, <2>3
  <2> HIDE DEF m
  <2>5. s \in Seq(Nibs) /\ Len(s) = m
    BY <2>4, FunctionSeq
  <2>6. QED
    BY <2>5 DEF m
<1>6. 0 \in 0 .. 2 * n /\ n \in 0 .. n /\ 2 * n \in 0 .. 2 * n /\ 0 % 2 = 0 /\ 0 \div 2 = 0
      /\ (2 * n) % 2 = 0 /\ (2 * n) \div 2 = n
  BY <1>1
<1>7. c[0] = l /\ c[2 * n] = p(n) /\ p(0) = l
  BY <1>6, PrintedNothing
<1>8. c \in [0 .. 2 * n -> LcdStates]
  <2>1. ASSUME NEW i \in 0 .. 2 * n
        PROVE  c[i] \in LcdStates
    <3>1. CASE i = 0
      BY <1>7, <3>1 DEF Printable
    <3>2. CASE i # 0
      <4>1. i \in 1 .. 2 * n
        BY <1>1, <3>2
      <4>2. PICK k \in 0 .. n - 1 : i = 2 * k + 1 \/ i = 2 * k + 2
        BY <1>3, <4>1
      <4>3. h(k) \in LcdStates /\ p(k + 1) \in LcdStates
        BY <1>2
      <4>4. c[2 * k + 1] = h(k) /\ c[2 * k + 2] = p(k + 1)
        BY <1>4
      <4> HIDE DEF c, p, h
      <4>5. QED
        BY <4>2, <4>3, <4>4
    <3>3. QED
      BY <3>1, <3>2
  <2>2. c = [i \in 0 .. 2 * n |-> c[i]]
    OBVIOUS
  <2> HIDE DEF c
  <2>3. QED
    BY <2>1, <2>2
<1>9. ASSUME NEW i \in 1 .. 2 * n
      PROVE  c[i] = Latched(c[i - 1], s[i])
  <2>1. PICK k \in 0 .. n - 1 : i = 2 * k + 1 \/ i = 2 * k + 2
    BY <1>3
  <2>2. Latched(p(k), hi(k + 1)) = h(k) /\ Latched(h(k), lo(k + 1)) = p(k + 1)
    BY <1>2
  <2>3. /\ s[2 * k + 1] = hi(k + 1) /\ s[2 * k + 2] = lo(k + 1)
        /\ c[2 * k] = p(k) /\ c[2 * k + 1] = h(k) /\ c[2 * k + 2] = p(k + 1)
    BY <1>4
  <2>4. (2 * k + 1) - 1 = 2 * k /\ (2 * k + 2) - 1 = 2 * k + 1
    OBVIOUS
  <2> HIDE DEF c, s, p, h, hi, lo
  <2>5. QED
    BY <2>1, <2>2, <2>3, <2>4
<1> HIDE DEF c, s
<1>10. Leads(l, s, p(n))
  <2>1. /\ c \in [0 .. Len(s) -> LcdStates] /\ c[0] = l /\ c[Len(s)] = p(n)
        /\ \A i \in 1 .. Len(s) : c[i] = Latched(c[i - 1], s[i])
    BY <1>5, <1>7, <1>8, <1>9
  <2> HIDE DEF p, n
  <2>2. QED
    BY <1>5, <2>1 DEF Leads
<1>11. QED
  BY <1>10 DEF s

LEMMA PrintedFields ==
  ASSUME NEW l \in LcdStates, NEW text, NEW k
  PROVE  /\ Printed(l, text, k).twoLines = l.twoLines /\ Printed(l, text, k).on = l.on
         /\ Printed(l, text, k).shifted = l.shifted
         /\ Printed(l, text, k).cells =
              [cell \in Cells |->
                 IF l.addr <= AddressOf(cell) /\ AddressOf(cell) < l.addr + k
                 THEN text[AddressOf(cell) - l.addr + 1] ELSE l.cells[cell]]
<1> DEFINE a == l.addr + k
           w == [cell \in Cells |->
                   IF l.addr <= AddressOf(cell) /\ AddressOf(cell) < l.addr + k
                   THEN text[AddressOf(cell) - l.addr + 1] ELSE l.cells[cell]]
           r == Printed(l, text, k)
<1>1. r = [l EXCEPT !.addr = a, !.cells = w]
  BY DEF Printed
<1> HIDE DEF a, w, r
<1>2. r.twoLines = l.twoLines /\ r.on = l.on /\ r.shifted = l.shifted /\ r.cells = w
  BY <1>1 DEF LcdStates
<1>3. QED
  BY <1>2 DEF r, w

LEMMA LeadsCursor ==
  ASSUME NEW l, NEW w, Good(l, w), NEW col \in 0 .. Columns - 1, NEW row \in 0 .. 1
  PROVE  \E m : /\ Leads(l, SetCursor(col, row), m) /\ Good(m, w)
                /\ m.addr = col + RowOffset[row + 1] /\ ~m.cgram
<1> DEFINE a == col + RowOffset[row + 1]
           byte == 128 + a
           m == Instructed(l, byte)
<1>1. a \in 0 .. 127 /\ byte \in 128 .. 255 /\ byte \in 0 .. 255 /\ byte - 128 = a
      /\ 128 + col + RowOffset[row + 1] = byte
  <2>1. Columns \in 3 .. 40 /\ RowOffset[row + 1] \in {0, 64}
    BY LcdAssumption DEF RowOffset
  <2> DEFINE j == RowOffset[row + 1]
  <2> HIDE DEF j
  <2>2. j = 0 \/ j = 64
    BY <2>1 DEF j
  <2>3. col \in 0 .. 39
    BY <2>1
  <2>4. /\ col + j \in 0 .. 127 /\ 128 + (col + j) \in 128 .. 255
        /\ 128 + (col + j) \in 0 .. 255
        /\ (128 + (col + j)) - 128 = col + j /\ 128 + col + j = 128 + (col + j)
    BY <2>2, <2>3
  <2>5. QED
    BY <2>4 DEF j
<1>2. SetCursor(col, row) = Command(byte)
  BY <1>1, TheCommands DEF SetCursor
<1>3. /\ l \in LcdStates /\ Whole(l) /\ l.held = NoNibble /\ ~l.wide
      /\ l.twoLines /\ l.on /\ ~l.shifted /\ l.forward /\ l.cells = w
  BY DEF Good, Whole
<1> HIDE DEF a, byte
<1>4. m = [l EXCEPT !.addr = byte - 128, !.cgram = FALSE]
  BY <1>1, AddressSet
<1>5. Leads(l, SetCursor(col, row), m) /\ m \in LcdStates /\ m.held = NoNibble
  BY <1>1, <1>2, <1>3, LeadsCommand, InstructedTyped
<1> HIDE DEF m
<1>6. m = [l EXCEPT !.addr = a, !.cgram = FALSE]
  BY <1>1, <1>4
<1>7. /\ ~m.wide /\ m.twoLines /\ m.on /\ ~m.shifted /\ m.forward /\ m.cells = w /\ m.addr = a
      /\ ~m.cgram
  BY <1>3, <1>6 DEF LcdStates
<1>8. QED
  BY <1>5, <1>7 DEF Good, Whole, a

LEMMA LeadsChar ==
  ASSUME NEW l, NEW w, Good(l, w), ~l.cgram, NEW byte \in 0 .. 255
  PROVE  \E r : /\ Leads(l, Send(byte, 1), r)
                /\ Good(r, [cell \in Cells |-> IF AddressOf(cell) = l.addr THEN byte
                                               ELSE w[cell]])
<1> DEFINE r == Written(l, byte)
           m == CursorMoved(l, l.forward)
           j == (l.addr + 1) % 128
           u == [cell \in Cells |-> IF ~l.cgram /\ AddressOf(cell) = l.addr
                                    THEN byte ELSE m.cells[cell]]
           v == [cell \in Cells |-> IF AddressOf(cell) = l.addr THEN byte ELSE w[cell]]
<1>1. /\ l \in LcdStates /\ Whole(l) /\ l.held = NoNibble /\ ~l.wide
      /\ l.twoLines /\ l.on /\ ~l.shifted /\ l.forward /\ l.cells = w
  BY DEF Good, Whole
<1>2. Leads(l, Send(byte, 1), r)
  <2>1. 1 \in 0 .. 1 /\ Executed(l, 1, byte) = r
    BY DEF Executed
  <2>2. QED
    BY <1>1, <2>1, LeadsByte
<1>3. r \in LcdStates /\ r.held = NoNibble /\ ~r.wide
  BY <1>1, WrittenTyped, ZenonT(30)
<1>4. r = [m EXCEPT !.cells = u]
  BY DEF Written
<1>5. m = [l EXCEPT !.addr = j]
  BY <1>1 DEF CursorMoved
<1> HIDE DEF m, j, r
<1>6. m.cells = w
  BY <1>1, <1>5 DEF LcdStates
<1>7. u = v
  <2>1. \A cell \in Cells : u[cell] = v[cell]
    BY <1>6
  <2>2. QED
    BY <2>1
<1> HIDE DEF u, v
<1>8. r.twoLines /\ r.on /\ ~r.shifted /\ r.forward /\ r.cells = v
  BY <1>1, <1>4, <1>5, <1>7 DEF LcdStates
<1>9. QED
  BY <1>2, <1>3, <1>8 DEF Good, Whole, v

\* A text in a row, and the rest of the screen stays.
WithRow(w, row, text) ==
  [cell \in Cells |-> IF cell[1] = row THEN Padded(text)[cell[2] + 1] ELSE w[cell]]

LEMMA LeadsPad ==
  ASSUME NEW l, NEW w, Good(l, w), NEW row \in 0 .. 1, NEW text \in Seq(0 .. 255)
  PROVE  \E r : Leads(l, Pad(row, text), r) /\ Good(r, WithRow(w, row, text))
<1>1. Columns \in 3 .. 40 /\ 0 \in 0 .. Columns - 1 /\ Columns \in Nat
  BY LcdAssumption
<1>2. PICK m : /\ Leads(l, SetCursor(0, row), m) /\ Good(m, w)
               /\ m.addr = 0 + RowOffset[row + 1] /\ ~m.cgram
  BY <1>1, LeadsCursor
<1> DEFINE p == Padded(text)
<1>3. p \in Seq(0 .. 255) /\ Len(p) = Columns
  <2>1. ASSUME NEW i \in 1 .. Columns
        PROVE  p[i] \in 0 .. 255
    <3>1. CASE i <= Len(text)
      <4>1. i \in 1 .. Len(text)
        BY <1>1, <3>1, LenProperties
      <4>2. text[i] \in 0 .. 255
        BY <4>1, ElementOfSeq
      <4>3. QED
        BY <3>1, <4>2 DEF Padded
    <3>2. CASE ~(i <= Len(text))
      BY <3>2 DEF Padded, Blank
    <3>3. QED
      BY <3>1, <3>2
  <2>2. p \in [1 .. Columns -> 0 .. 255]
    BY <2>1 DEF Padded
  <2> HIDE DEF p
  <2>3. QED
    BY <1>1, <2>2, FunctionSeq
<1>4. m.addr \in {0, 64} /\ (row = 0 => m.addr = 0) /\ (row = 1 => m.addr = 64)
  BY <1>2 DEF RowOffset
<1> HIDE DEF p
<1>5. Printable(m, p) /\ Columns \in 0 .. Len(p)
  <2>1. \A n \in 3 .. 40 : \A a \in {0, 64} : a + n <= 127 /\ n \in 0 .. n
    OBVIOUS
  <2>2. m.addr + Columns <= 127 /\ Columns \in 0 .. Columns
    BY <1>1, <1>4, <2>1, Zenon
  <2>3. m.addr + Len(p) <= 127 /\ Columns \in 0 .. Len(p)
    BY <1>3, <2>2, Zenon
  <2>4. QED
    BY <1>2, <1>3, <2>3 DEF Printable, Good
<1> DEFINE r == Printed(m, p, Columns)
<1>6. Leads(m, Characters(p), r)
  BY <1>3, <1>5, LeadsText
<1>7. Leads(l, Pad(row, text), r)
  BY <1>2, <1>6, LeadsJoin DEF Pad, p
<1>8. r \in LcdStates /\ Whole(r) /\ r.forward
  BY <1>5, PrintedTyped
<1> DEFINE v == [cell \in Cells |->
                   IF m.addr <= AddressOf(cell) /\ AddressOf(cell) < m.addr + Columns
                   THEN p[AddressOf(cell) - m.addr + 1] ELSE m.cells[cell]]
<1>9. r.twoLines = m.twoLines /\ r.on = m.on /\ r.shifted = m.shifted /\ r.cells = v
  <2>1. m \in LcdStates
    BY <1>2 DEF Good
  <2>2. QED
    BY <2>1, PrintedFields
<1>10. v = WithRow(w, row, text)
  <2>1. ASSUME NEW cell \in Cells
        PROVE  v[cell] = WithRow(w, row, text)[cell]
    <3> DEFINE a == AddressOf(cell)
    <3>1. /\ cell[1] \in 0 .. 1 /\ cell[2] \in 0 .. Columns - 1 /\ a \in 0 .. 127
          /\ cell[1] = 0 => a = cell[2]
          /\ cell[1] = 1 => a = cell[2] + 64
      BY AddressIn
    <3>2. v[cell] = IF m.addr <= a /\ a < m.addr + Columns
                    THEN p[a - m.addr + 1] ELSE w[cell]
      BY <1>2 DEF Good
    <3>3. WithRow(w, row, text)[cell] = IF cell[1] = row THEN p[cell[2] + 1] ELSE w[cell]
      BY DEF WithRow, p
    <3> HIDE DEF a, v
    <3>4. CASE cell[1] = row
      <4>1. m.addr <= a /\ a < m.addr + Columns /\ a - m.addr + 1 = cell[2] + 1
        BY <1>1, <1>4, <3>1, <3>4
      <4>2. v[cell] = p[cell[2] + 1]
        BY <3>2, <4>1
      <4>3. QED
        BY <3>3, <3>4, <4>2
    <3>5. CASE cell[1] # row
      <4>1. ~(m.addr <= a /\ a < m.addr + Columns)
        BY <1>1, <1>4, <3>1, <3>5
      <4>2. QED
        BY <3>2, <3>3, <3>5, <4>1
    <3>6. QED
      BY <3>4, <3>5
  <2>2. /\ v = [cell \in Cells |-> v[cell]]
        /\ WithRow(w, row, text) = [cell \in Cells |-> WithRow(w, row, text)[cell]]
    BY DEF WithRow
  <2> HIDE DEF v
  <2>3. QED
    BY <2>1, <2>2
<1> HIDE DEF r, v
<1>11. Good(r, WithRow(w, row, text))
  BY <1>2, <1>8, <1>9, <1>10 DEF Good
<1>12. QED
  BY <1>7, <1>11

\* A sign in the first row.
LEMMA LeadsSign ==
  ASSUME NEW l, NEW w \in Pictures, Good(l, w), NEW col \in 0 .. Columns - 1, NEW byte \in 0 .. 255
  PROVE  \E m, r : /\ Leads(l, SetCursor(col, 0), m) /\ Leads(m, Send(byte, 1), r)
                   /\ Good(r, [w EXCEPT ![<<0, col>>] = byte])
<1>1. 0 \in 0 .. 1 /\ Columns \in 3 .. 40
  BY LcdAssumption
<1>2. PICK m : /\ Leads(l, SetCursor(col, 0), m) /\ Good(m, w)
               /\ m.addr = col + RowOffset[0 + 1] /\ ~m.cgram
  BY <1>1, LeadsCursor
<1>3. m.addr = col
  BY <1>1, <1>2 DEF RowOffset
<1> DEFINE v == [cell \in Cells |-> IF AddressOf(cell) = m.addr THEN byte ELSE w[cell]]
           u == [w EXCEPT ![<<0, col>>] = byte]
<1>4. PICK r : Leads(m, Send(byte, 1), r) /\ Good(r, v)
  BY <1>2, LeadsChar
<1>5. v = u
  <2>1. ASSUME NEW cell \in Cells
        PROVE  v[cell] = u[cell]
    <3>1. /\ cell[1] \in 0 .. 1 /\ cell[2] \in 0 .. Columns - 1
          /\ cell[1] = 0 => AddressOf(cell) = cell[2]
          /\ cell[1] = 1 => AddressOf(cell) = cell[2] + 64
      BY AddressIn
    <3>2. cell = <<cell[1], cell[2]>>
      BY DEF Cells
    <3>3. AddressOf(cell) = col <=> cell = <<0, col>>
      <4>1. CASE cell[1] = 0
        BY <3>1, <3>2, <4>1
      <4>2. CASE cell[1] = 1
        <5>1. AddressOf(cell) # col /\ cell # <<0, col>>
          BY <1>1, <3>1, <4>2
        <5>2. QED
          BY <5>1
      <4>3. QED
        BY <3>1, <4>1, <4>2
    <3>4. u[cell] = IF cell = <<0, col>> THEN byte ELSE w[cell]
      BY DEF Pictures
    <3>5. QED
      BY <1>3, <3>3, <3>4
  <2>2. v = [cell \in Cells |-> v[cell]] /\ u = [cell \in Cells |-> u[cell]]
    BY DEF Pictures
  <2> HIDE DEF u, v
  <2>3. QED
    BY <2>1, <2>2
<1>6. QED
  BY <1>2, <1>4, <1>5

\* While the wires are fine, what is still to be sent takes the controller to the
\* screen that the program asked for.
ShownInv ==
  /\ lcd \in LcdStates /\ todo \in Seq(Nibs) /\ want \in Pictures /\ intact \in BOOLEAN
  /\ intact => \E r : Leads(lcd, todo, r) /\ Good(r, want)

LEMMA ShownStart == LC_Init => ShownInv
<1> SUFFICES ASSUME LC_Init PROVE ShownInv
  OBVIOUS
<1>1. PICK r : Leads(PowerOn, DisplayInit, r) /\ Good(r, Empty)
  BY PowerOnTyped, InitWorks
<1>2. QED
  BY <1>1, PowerOnTyped, EmptyTyped DEF LC_Init, ShownInv, Leads

LEMMA MessageShown ==
  ASSUME NEW l, NEW w \in Pictures, Good(l, w), NEW m \in Messages
  PROVE  \E r : /\ Leads(l, Pad(0, m[1]) \o Pad(1, m[2]), r)
                /\ Good(r, [cell \in Cells |-> Padded(m[cell[1] + 1])[cell[2] + 1]])
<1>1. m[1] \in Seq(0 .. 255) /\ m[2] \in Seq(0 .. 255)
  BY LcdAssumption
<1>2. 0 \in 0 .. 1 /\ 1 \in 0 .. 1
  OBVIOUS
<1>3. PICK p : Leads(l, Pad(0, m[1]), p) /\ Good(p, WithRow(w, 0, m[1]))
  BY <1>1, <1>2, LeadsPad
<1>4. PICK r : Leads(p, Pad(1, m[2]), r) /\ Good(r, WithRow(WithRow(w, 0, m[1]), 1, m[2]))
  BY <1>1, <1>2, <1>3, LeadsPad
<1>5. Leads(l, Pad(0, m[1]) \o Pad(1, m[2]), r)
  BY <1>3, <1>4, LeadsJoin
<1> DEFINE u == WithRow(WithRow(w, 0, m[1]), 1, m[2])
           v == [cell \in Cells |-> Padded(m[cell[1] + 1])[cell[2] + 1]]
<1>6. u = v
  <2>1. ASSUME NEW cell \in Cells
        PROVE  u[cell] = v[cell]
    <3>1. cell[1] \in 0 .. 1
      BY AddressIn
    <3>2. u[cell] = IF cell[1] = 1 THEN Padded(m[2])[cell[2] + 1]
                    ELSE IF cell[1] = 0 THEN Padded(m[1])[cell[2] + 1] ELSE w[cell]
      BY DEF WithRow
    <3>3. v[cell] = Padded(m[cell[1] + 1])[cell[2] + 1]
      OBVIOUS
    <3> HIDE DEF u, v
    <3>4. CASE cell[1] = 0
      <4>1. cell[1] + 1 = 1
        BY <3>4
      <4>2. QED
        BY <3>2, <3>3, <3>4, <4>1
    <3>5. CASE cell[1] = 1
      <4>1. cell[1] + 1 = 2
        BY <3>5
      <4>2. QED
        BY <3>2, <3>3, <3>5, <4>1
    <3>6. QED
      BY <3>1, <3>4, <3>5
  <2>2. u = [cell \in Cells |-> u[cell]] /\ v = [cell \in Cells |-> v[cell]]
    BY DEF WithRow
  <2> HIDE DEF u, v
  <2>3. QED
    BY <2>1, <2>2
<1>7. QED
  BY <1>4, <1>5, <1>6

LEMMA MessageTyped ==
  ASSUME NEW m \in Messages
  PROVE  [cell \in Cells |-> Padded(m[cell[1] + 1])[cell[2] + 1]] \in Pictures
         /\ Pad(0, m[1]) \o Pad(1, m[2]) \in Seq(Nibs)
<1>1. PICK l : Good(l, Empty)
  BY PowerOnTyped, InitWorks
<1>2. PICK r : /\ Leads(l, Pad(0, m[1]) \o Pad(1, m[2]), r)
               /\ Good(r, [cell \in Cells |-> Padded(m[cell[1] + 1])[cell[2] + 1]])
  BY <1>1, EmptyTyped, MessageShown
<1>3. r \in LcdStates /\ r.cells = [cell \in Cells |-> Padded(m[cell[1] + 1])[cell[2] + 1]]
  BY <1>2 DEF Good
<1>4. r.cells \in Pictures
  BY <1>3, StateFields
<1>5. QED
  BY <1>2, <1>3, <1>4 DEF Leads

SignsSent(up, dn) ==
  SetCursor(Columns - 2, 0) \o Send(Sign(up, dn)[1], 1)
    \o SetCursor(Columns - 1, 0) \o Send(Sign(up, dn)[2], 1)

SignsWanted(w, up, dn) ==
  [w EXCEPT ![<<0, Columns - 2>>] = Sign(up, dn)[1], ![<<0, Columns - 1>>] = Sign(up, dn)[2]]

LEMMA SignsShown ==
  ASSUME NEW l, NEW w \in Pictures, Good(l, w), NEW up \in BOOLEAN, NEW dn \in BOOLEAN
  PROVE  \E r : Leads(l, SignsSent(up, dn), r) /\ Good(r, SignsWanted(w, up, dn))
<1> DEFINE x == Sign(up, dn)[1]
           y == Sign(up, dn)[2]
           i == Columns - 2
           j == Columns - 1
           v == [w EXCEPT ![<<0, i>>] = x]
<1>1. x \in 0 .. 255 /\ y \in 0 .. 255
  BY DEF Sign, Blank
<1>2. i \in 0 .. Columns - 1 /\ j \in 0 .. Columns - 1
  BY LcdAssumption
<1> HIDE DEF x, y, i, j
<1>3. PICK a, b : /\ Leads(l, SetCursor(i, 0), a) /\ Leads(a, Send(x, 1), b)
                  /\ Good(b, v)
  BY <1>1, <1>2, LeadsSign
<1>4. v \in Pictures
  BY <1>1 DEF Pictures
<1> DEFINE u == [v EXCEPT ![<<0, j>>] = y]
<1> HIDE DEF v
<1>5. PICK d, r : /\ Leads(b, SetCursor(j, 0), d) /\ Leads(d, Send(y, 1), r)
                  /\ Good(r, u)
  BY <1>1, <1>2, <1>3, <1>4, LeadsSign
<1>6. Leads(l, SetCursor(i, 0) \o Send(x, 1), b)
  BY <1>3, LeadsJoin
<1>7. Leads(l, SetCursor(i, 0) \o Send(x, 1) \o SetCursor(j, 0), d)
  BY <1>5, <1>6, LeadsJoin
<1>8. Leads(l, SetCursor(i, 0) \o Send(x, 1) \o SetCursor(j, 0) \o Send(y, 1), r)
  BY <1>5, <1>7, LeadsJoin
<1>9. SignsSent(up, dn) = SetCursor(i, 0) \o Send(x, 1) \o SetCursor(j, 0) \o Send(y, 1)
  BY DEF SignsSent, i, j, x, y
<1>10. u = SignsWanted(w, up, dn)
  BY DEF SignsWanted, u, v, i, j, x, y
<1>11. QED
  BY <1>5, <1>8, <1>9, <1>10

LEMMA SignsTyped ==
  ASSUME NEW w \in Pictures, NEW up \in BOOLEAN, NEW dn \in BOOLEAN
  PROVE  SignsWanted(w, up, dn) \in Pictures /\ SignsSent(up, dn) \in Seq(Nibs)
<1>1. PICK l : Good(l, Empty)
  BY PowerOnTyped, InitWorks
<1>2. SignsSent(up, dn) \in Seq(Nibs)
  BY <1>1, EmptyTyped, SignsShown DEF Leads
<1>3. Sign(up, dn)[1] \in 0 .. 255 /\ Sign(up, dn)[2] \in 0 .. 255
  BY DEF Sign, Blank
<1>4. SignsWanted(w, up, dn) \in Pictures
  BY <1>3 DEF SignsWanted, Pictures
<1>5. QED
  BY <1>2, <1>4

LEMMA ShownNext ==
  ASSUME ShownInv, LC_Next
  PROVE  ShownInv'
<1>1. lcd \in LcdStates /\ todo \in Seq(Nibs) /\ want \in Pictures /\ intact \in BOOLEAN
  BY DEF ShownInv
<1>2. CASE Nibble
  <2>1. /\ todo # <<>> /\ lcd' = Latched(lcd, Head(todo)) /\ todo' = Tail(todo)
        /\ want' = want /\ intact' = intact
    BY <1>2 DEF Nibble
  <2>2. Head(todo) \in Nibs /\ Tail(todo) \in Seq(Nibs)
    BY <1>1, <2>1
  <2>3. lcd' \in LcdStates
    BY <1>1, <2>1, <2>2, LatchedTyped
  <2>4. ASSUME intact
        PROVE  \E r : Leads(lcd', todo', r) /\ Good(r, want)
    <3>1. PICK r : Leads(lcd, todo, r) /\ Good(r, want)
      BY <2>4 DEF ShownInv
    <3>2. Leads(lcd', todo', r)
      BY <2>1, <3>1, LeadsTail
    <3>3. QED
      BY <3>1, <3>2
  <2>5. QED
    BY <1>1, <2>1, <2>2, <2>3, <2>4 DEF ShownInv
<1>3. CASE NibbleSpoilt
  <2>1. /\ todo # <<>> /\ todo' = Tail(todo) /\ want' = want /\ intact' = FALSE
        /\ lcd' = lcd \/ (Len(todo) > 1 /\ lcd' = Latched(lcd, todo[2]))
    BY <1>3 DEF NibbleSpoilt
  <2>2. Tail(todo) \in Seq(Nibs) /\ (Len(todo) > 1 => todo[2] \in Nibs)
    BY <1>1, <2>1
  <2>3. lcd' \in LcdStates
    BY <1>1, <2>1, <2>2, LatchedTyped
  <2>4. QED
    BY <1>1, <2>1, <2>2, <2>3 DEF ShownInv
<1>4. CASE LcdPowerDip
  BY <1>1, <1>4, PowerOnTyped DEF LcdPowerDip, ShownInv
<1>5. CASE Restart
  <2>1. lcd' = lcd /\ todo' = DisplayInit /\ want' = Empty /\ intact' = TRUE
    BY <1>5 DEF Restart
  <2>2. PICK r : Leads(lcd, DisplayInit, r) /\ Good(r, Empty)
    BY <1>1, InitWorks
  <2>3. QED
    BY <1>1, <2>1, <2>2, EmptyTyped DEF ShownInv, Leads
<1>6. ASSUME todo = <<>>, intact
      PROVE  Good(lcd, want)
  BY <1>6, LeadsEnd DEF ShownInv
<1>7. ASSUME NEW m \in Messages, ShowMessage(m)
      PROVE  ShownInv'
  <2> DEFINE s == Pad(0, m[1]) \o Pad(1, m[2])
             w == [cell \in Cells |-> Padded(m[cell[1] + 1])[cell[2] + 1]]
  <2>1. todo = <<>> /\ lcd' = lcd /\ todo' = s /\ want' = w /\ intact' = intact
    BY <1>7 DEF ShowMessage
  <2>2. s \in Seq(Nibs) /\ w \in Pictures
    BY MessageTyped
  <2>3. intact => \E r : Leads(lcd, s, r) /\ Good(r, w)
    BY <1>1, <1>6, <2>1, MessageShown
  <2> HIDE DEF s, w
  <2>4. QED
    BY <1>1, <2>1, <2>2, <2>3 DEF ShownInv
<1>8. ASSUME NEW up \in BOOLEAN, NEW dn \in BOOLEAN, SyncIndicators(up, dn)
      PROVE  ShownInv'
  <2>1. todo = <<>> /\ lcd' = lcd /\ todo' = SignsSent(up, dn) /\ intact' = intact
        /\ want' = SignsWanted(want, up, dn)
    BY <1>8 DEF SyncIndicators, SignsSent, SignsWanted
  <2>2. SignsSent(up, dn) \in Seq(Nibs) /\ SignsWanted(want, up, dn) \in Pictures
    BY <1>1, SignsTyped
  <2>3. intact => \E r : Leads(lcd, SignsSent(up, dn), r) /\ Good(r, SignsWanted(want, up, dn))
    BY <1>1, <1>6, <2>1, SignsShown
  <2>4. QED
    BY <1>1, <2>1, <2>2, <2>3 DEF ShownInv
<1>9. QED
  BY <1>2, <1>3, <1>4, <1>5, <1>7, <1>8 DEF LC_Next, RunUiRefresh

\* begin, send and _pad: from whatever state a start of the terminal finds the
\* display in, and for all texts and widths, the screen shows what the program
\* asked for once everything is sent, unless the wires or the supply failed since.
THEOREM ScreenShows == Spec => []Shown
<1>1. Init => ShownInv
  BY ShownStart DEF Init
<1>2. ShownInv /\ [Next]_vars => ShownInv'
  <2> SUFFICES ASSUME ShownInv, [Next]_vars PROVE ShownInv'
    OBVIOUS
  <2>1. CASE LC_Next
    BY <2>1, ShownNext
  <2>2. CASE UNCHANGED LC_vars
    BY <2>2 DEF LC_vars, ShownInv
  <2>3. QED
    BY <2>1, <2>2, DeviceStep
<1>3. ShownInv => Shown
  <2> SUFFICES ASSUME ShownInv, todo = <<>>, intact
               PROVE  /\ ~lcd.wide /\ lcd.held = NoNibble
                      /\ lcd.twoLines /\ lcd.on /\ ~lcd.shifted
                      /\ lcd.cells = want
    BY DEF Shown
  <2>1. Good(lcd, want)
    BY LeadsEnd DEF ShownInv
  <2>2. QED
    BY <2>1 DEF Good, Whole
<1>4. QED
  BY <1>1, <1>2, <1>3, PTL DEF Spec

---------------------------------------------------------------------------
(* Types.                                                                  *)

LEMMA DisplayTyped == ShownInv => LC_TypeOK
<1> SUFFICES ASSUME ShownInv PROVE LC_TypeOK
  OBVIOUS
<1>1. /\ lcd \in LcdStates /\ todo \in Seq((0 .. 1) \X (0 .. 15)) /\ want \in [Cells -> 0 .. 255]
      /\ intact \in BOOLEAN
  BY DEF ShownInv, Nibs, Pictures
<1>2. \A x \in Halves : x \in Seq((0 .. 1) \X (0 .. 15)) /\ Len(x) <= 1
  <2> TAKE x \in Halves
  <2>1. CASE x = <<>>
    BY <2>1
  <2>2. ASSUME NEW n \in (0 .. 1) \X (0 .. 15), x = <<n>>
        PROVE  x \in Seq((0 .. 1) \X (0 .. 15)) /\ Len(x) <= 1
    BY <2>2
  <2>3. QED
    BY <2>1, <2>2 DEF Halves, Nibs, NoNibble
<1> DEFINE S == Seq((0 .. 1) \X (0 .. 15))
<1> HIDE DEF S
<1>3. lcd \in [wide : BOOLEAN, held : S, twoLines : BOOLEAN, on : BOOLEAN, forward : BOOLEAN,
               shifted : BOOLEAN, cgram : BOOLEAN, addr : 0 .. 127, cells : Pictures]
  <2>1. \A x \in Halves : x \in S
    BY <1>2 DEF S
  <2>2. QED
    BY <1>1, <2>1 DEF LcdStates
<1>4. Len(lcd.held) <= 1
  BY <1>1, <1>2, StateFields
<1>5. QED
  BY <1>1, <1>3, <1>4 DEF LC_TypeOK, S, Pictures

\* Who polls the keypad, and how far a PIN has come.
KeysTyped ==
  /\ long \in BOOLEAN
  /\ mode \in {"locked", "pin", "ride", "busy", "add"}
  /\ entered \in 0 .. PinLen - 1
  /\ unread \subseteq Keys
  /\ presses \in 0 .. MaxPresses

LEMMA UsedTyped ==
  ASSUME KeysTyped, NEW key, Used(key)
  PROVE  mode' \in {"locked", "pin", "ride", "busy", "add"} /\ entered' \in 0 .. PinLen - 1
<1>1. /\ 0 \in 0 .. PinLen - 1 /\ entered \in 0 .. PinLen - 1
      /\ entered + 1 # PinLen => entered + 1 \in 0 .. PinLen - 1
      /\ mode \in {"locked", "pin", "ride", "busy", "add"}
  BY KeypadAssumption DEF KeysTyped
<1>2. \/ mode' = "locked" /\ entered' \in {0, entered}
      \/ mode' \in {"ride", "locked"} /\ entered' \in {0, entered}
      \/ ~LastDigit /\ entered' = entered + 1 /\ mode' = mode
      \/ mode' = mode /\ entered' = entered
  <2>1. CASE mode = "pin" /\ key = "*"
    BY <2>1 DEF Used
  <2>2. CASE mode = "pin" /\ key # "*" /\ key \in Digits /\ LastDigit
    BY <2>2 DEF Used
  <2>3. CASE mode = "pin" /\ key # "*" /\ key \in Digits /\ ~LastDigit
    BY <2>3 DEF Used
  <2>4. CASE mode = "pin" /\ key # "*" /\ key \notin Digits
    BY <2>4 DEF Used
  <2>5. CASE mode # "pin"
    BY <2>5 DEF Used
  <2>6. QED
    BY <2>1, <2>2, <2>3, <2>4, <2>5
<1>3. QED
  BY <1>1, <1>2 DEF LastDigit

LEMMA KeysNext ==
  ASSUME KeysTyped, KP_Next
  PROVE  KeysTyped'
<1>1. CASE Poll
  <2>1. long' \in BOOLEAN
    BY <1>1 DEF Poll, Updated
  <2>2. unread' \subseteq Keys /\ presses' = presses
    BY <1>1 DEF Poll, KeysTyped
  <2>3. mode' \in {"locked", "pin", "ride", "busy", "add"} /\ entered' \in 0 .. PinLen - 1
    <3>1. CASE Hit(list') = NoKey
      BY <1>1, <3>1 DEF Poll, KeysTyped
    <3>2. CASE Hit(list') # NoKey
      BY <1>1, <3>2, UsedTyped DEF Poll
    <3>3. QED
      BY <3>1, <3>2
  <2>4. QED
    BY <2>1, <2>2, <2>3 DEF KeysTyped
<1>2. CASE StaffTap \/ RiderTap \/ Handled \/ AddTimeout \/ HoldTime
  BY <1>2 DEF StaffTap, RiderTap, Handled, AddTimeout, Moves, HoldTime, KeysTyped
<1>3. ASSUME NEW k \in Keys, Press(k) \/ Release(k)
      PROVE  KeysTyped'
  BY <1>3, KeypadAssumption DEF Press, Release, KeysTyped
<1>4. QED
  BY <1>1, <1>2, <1>3 DEF KP_Next

\* A pass is made of the four waits.
LEMMA WaitsJoin ==
  ASSUME NEW s \in Seq(Waits), NEW t \in Seq(Waits)
  PROVE  s \o t \in Seq(Waits)
OBVIOUS

LEMMA WaitsTimes ==
  ASSUME NEW n \in Nat, NEW wait \in Waits
  PROVE  Times(n, wait) \in Seq(Waits)
<1>1. Times(n, wait) \in [1 .. n -> Waits]
  BY DEF Times
<1>2. QED
  BY <1>1, FunctionSeq

LEMMA WaitsOf ==
  /\ <<>> \in Seq(Waits) /\ <<"lock">> \in Seq(Waits) /\ <<"beat">> \in Seq(Waits)
  /\ ReadPin \in Seq(Waits) /\ AddNext \in Seq(Waits)
  /\ FeedbackApproved \in Seq(Waits) /\ FeedbackRejected \in Seq(Waits)
  /\ FeedbackOtp \in Seq(Waits) /\ FeedbackLockdown \in Seq(Waits)
  /\ WriteSession \in Seq(Waits) /\ ToReady \in Seq(Waits) /\ ToOfflineLocked \in Seq(Waits)
  /\ DriverLogout \in Seq(Waits) /\ CycleNetMode \in Seq(Waits)
  /\ \A n \in Nat : UiDelay(n) \in Seq(Waits) /\ Times(n, "lock") \in Seq(Waits)
<1>1. {"beat", "fed", "lock", "prompt"} \subseteq Waits
  BY DEF Waits
<1>2. \A n \in Nat : /\ Times(n, "beat") \in Seq(Waits) /\ Times(n, "fed") \in Seq(Waits)
                     /\ Times(n, "lock") \in Seq(Waits)
  BY <1>1, WaitsTimes
<1>3. /\ <<>> \in Seq(Waits) /\ <<"lock">> \in Seq(Waits) /\ <<"beat">> \in Seq(Waits)
      /\ <<"prompt">> \in Seq(Waits)
  BY <1>1
<1>4. 1 \in Nat /\ 2 \in Nat /\ 3 \in Nat /\ 4 \in Nat
  OBVIOUS
<1>5. /\ FeedbackApproved \in Seq(Waits) /\ FeedbackRejected \in Seq(Waits)
      /\ FeedbackOtp \in Seq(Waits) /\ FeedbackLockdown \in Seq(Waits)
      /\ WriteSession \in Seq(Waits)
  BY <1>2, <1>4
     DEF FeedbackApproved, FeedbackRejected, FeedbackOtp, FeedbackLockdown, WriteSession
<1>6. ToReady \in Seq(Waits) /\ ToOfflineLocked \in Seq(Waits)
  BY <1>5 DEF ToReady, ToOfflineLocked
<1>7. DriverLogout \in Seq(Waits)
  BY <1>5, <1>6, WaitsJoin DEF DriverLogout
<1>8. CycleNetMode \in Seq(Waits)
  BY <1>2, <1>4, <1>5, WaitsJoin DEF CycleNetMode
<1>9. QED
  BY <1>2, <1>3, <1>5, <1>6, <1>7, <1>8 DEF ReadPin, AddNext, UiDelay

LEMMA WaitsOfPass ==
  /\ \A s \in Refresh : s \in Seq(Waits)
  /\ \A s \in Keypress : s \in Seq(Waits)
  /\ \A s \in RfidTick : s \in Seq(Waits)
  /\ \A s \in Tapped : s \in Seq(Waits)
<1>0. \A s, t \in Seq(Waits) : s \o t \in Seq(Waits)
  BY WaitsJoin
<1>1. \A s \in Refresh : s \in Seq(Waits)
  BY <1>0, WaitsOf, ZenonT(30) DEF Refresh
<1>2. \A s \in Keypress : s \in Seq(Waits)
  BY WaitsOf DEF Keypress, ModeKeypad
<1>3. \A s \in RfidTick : s \in Seq(Waits)
  BY <1>0, WaitsOf DEF RfidTick
<1>4. \A n \in Nat : /\ UiDelay(n) \in Seq(Waits) /\ Times(n, "lock") \in Seq(Waits)
                     /\ Times(n, "lock") \o FeedbackRejected \in Seq(Waits)
                     /\ Times(n, "lock") \o FeedbackLockdown \in Seq(Waits)
                     /\ Times(n, "lock") \o ReadPin \in Seq(Waits)
                     /\ Times(n, "lock") \o FeedbackApproved \in Seq(Waits)
  BY <1>0, WaitsOf
<1>5. 2 \in Nat /\ 4 \in Nat /\ 10 \in Nat /\ RecordLocks \in Nat /\ Checks \in Nat
      /\ (\A n \in 1 .. 2 : n \in Nat) /\ (\A n \in 1 .. RecordLocks : n \in Nat)
  BY DEF RecordLocks, Checks
<1>6. <<"lock">> \o FeedbackRejected \in Seq(Waits) /\ <<"lock">> \o FeedbackOtp \in Seq(Waits)
  BY <1>0, WaitsOf
<1>7. \A s \in LoginTap : s \in Seq(Waits)
  <2>1. \A s \in AfterPin : s \in Seq(Waits)
    <3>1. /\ UiDelay(2) \o ToOfflineLocked \in Seq(Waits) /\ <<"lock">> \o ToReady \in Seq(Waits)
          /\ <<"lock">> \o FeedbackRejected \o UiDelay(4) \o ToOfflineLocked \in Seq(Waits)
          /\ <<"lock">> \o FeedbackRejected \o ToOfflineLocked \in Seq(Waits)
      BY <1>0, <1>4, <1>5, <1>6, WaitsOf
    <3>2. QED
      BY <3>1, WaitsOf DEF AfterPin
  <2>2. \A after \in {<<>>, UiDelay(4)} :
          Times(2, "lock") \o FeedbackRejected \o after \in Seq(Waits)
    BY <1>0, <1>4, <1>5, WaitsOf
  <2>3. \A n \in 1 .. 2 : \A after \in AfterPin :
          Times(n, "lock") \o ReadPin \o after \in Seq(Waits)
    BY <1>0, <1>4, <1>5, <2>1
  <2> TAKE s \in LoginTap
  <2>4. \/ \E after \in {<<>>, UiDelay(4)} : s = Times(2, "lock") \o FeedbackRejected \o after
        \/ \E n \in 1 .. 2 : \E after \in AfterPin : s = Times(n, "lock") \o ReadPin \o after
    BY Zenon DEF LoginTap
  <2>5. QED
    BY <2>2, <2>3, <2>4, Zenon
<1>8. \A s \in FareTap : s \in Seq(Waits)
  <2>1. \A n \in Nat : /\ Times(n, "lock") \o FeedbackRejected \o UiDelay(4) \in Seq(Waits)
                       /\ Times(n, "lock") \o FeedbackApproved \o UiDelay(4) \in Seq(Waits)
    BY <1>0, <1>4, <1>5
  <2>2. \A n \in Nat :
          /\ Times(n, "lock") \o FeedbackRejected \o UiDelay(4) \o ToReady \in Seq(Waits)
          /\ Times(n, "lock") \o FeedbackApproved \o UiDelay(4) \o ToReady \in Seq(Waits)
    BY <1>0, <2>1, WaitsOf
  <2>3. <<"lock">> \o FeedbackRejected \o UiDelay(4) \in Seq(Waits)
    BY <1>0, <1>4, <1>5, <1>6
  <2>4. <<"lock">> \o FeedbackRejected \o UiDelay(4) \o FeedbackLockdown \in Seq(Waits)
    BY <1>0, <2>3, WaitsOf
  <2> TAKE s \in FareTap
  <2>5. \/ \E n \in 1 .. RecordLocks :
             s = Times(n, "lock") \o FeedbackRejected \o UiDelay(4) \o ToReady
        \/ s = Times(RecordLocks, "lock") \o FeedbackApproved \o UiDelay(4) \o ToReady
        \/ s = <<"lock">> \o FeedbackRejected \o UiDelay(4) \o FeedbackLockdown
        \/ \E n \in {Checks, RecordLocks} : s = Times(n, "lock") \o FeedbackLockdown
    BY Zenon DEF FareTap
  <2>6. \A n \in {Checks, RecordLocks} : n \in Nat
    BY <1>5, Zenon
  <2>7. QED
    BY <1>4, <1>5, <2>2, <2>4, <2>5, <2>6, Zenon
<1>9. \A s \in CardTap : s \in Seq(Waits)
  <2>1. <<"lock">> \o FeedbackRejected \o UiDelay(4) \in Seq(Waits)
    BY <1>0, <1>4, <1>5, <1>6
  <2>2. <<"lock">> \o FeedbackOtp \o <<"lock">> \o UiDelay(10) \in Seq(Waits)
    BY <1>0, <1>4, <1>5, <1>6, WaitsOf
  <2>3. <<"lock">> \o FeedbackOtp \o <<"lock">> \o UiDelay(10) \o AddNext \in Seq(Waits)
    BY <1>0, <2>2, WaitsOf
  <2>4. \A after \in {<<>>, DriverLogout, ToOfflineLocked} :
          <<"lock">> \o FeedbackOtp \o <<"lock">> \o UiDelay(10) \o AddNext \o after \in Seq(Waits)
    BY <1>0, <2>3, WaitsOf
  <2>5. QED
    BY <2>1, <2>4 DEF CardTap
<1>10. QED
  BY <1>1, <1>2, <1>3, <1>7, <1>8, <1>9, WaitsOf DEF Tapped

LEMMA WatchdogNext ==
  ASSUME WD_TypeOK, WD_Next
  PROVE  WD_TypeOK'
<1>0. /\ WdtTimeout \in Nat /\ WdtTimeout >= 10 /\ SocketTimeout \in Nat /\ LockTimeout \in Nat
      /\ 0 \in 0 .. WdtTimeout + LockTimeout /\ 0 \in 0 .. SocketTimeout /\ <<>> \in Seq(Waits)
  BY WatchdogAssumption
<1>1. CASE Pass
  <2>1. PICK refresh \in Refresh, key \in Keypress, tick \in RfidTick, tap \in Tapped :
          agenda' = refresh \o key \o tick \o tap
    BY <1>1 DEF Pass
  <2>2. refresh \in Seq(Waits) /\ key \in Seq(Waits) /\ tick \in Seq(Waits) /\ tap \in Seq(Waits)
    BY WaitsOfPass
  <2>3. agenda' \in Seq(Waits)
    BY <2>1, <2>2, WaitsJoin
  <2>4. QED
    BY <1>0, <1>1, <2>3 DEF Pass, WD_TypeOK
<1>2. CASE TakesLock \/ Delays
  <2>1. agenda # <<>> /\ agenda' = Tail(agenda) /\ agenda \in Seq(Waits)
    BY <1>2 DEF TakesLock, Delays, WD_TypeOK
  <2>2. agenda' \in Seq(Waits)
    BY <2>1
  <2>3. unfed \in Nat /\ unfed < WdtTimeout
    BY <1>0, <1>2 DEF TakesLock, Delays, WD_TypeOK
  <2>4. unfed' \in 0 .. WdtTimeout + LockTimeout
    <3>1. CASE TakesLock
      <4>1. PICK wait \in 0 .. HoldMax : wait <= LockTimeout /\ unfed' = unfed + wait
        BY <3>1 DEF TakesLock
      <4>2. wait \in Nat
        BY WatchdogAssumption
      <4>3. QED
        BY <1>0, <2>3, <4>1, <4>2
    <3>2. CASE Delays
      <4>1. unfed' = unfed + 1 \/ unfed' = 0
        BY <3>2 DEF Delays
      <4>2. unfed + 1 \in 0 .. WdtTimeout + LockTimeout
        BY <1>0, <2>3
      <4>3. QED
        BY <1>0, <4>1, <4>2
    <3>3. QED
      BY <1>2, <3>1, <3>2
  <2>5. QED
    BY <1>2, <2>2, <2>4 DEF TakesLock, Delays, WD_TypeOK
<1>3. CASE LoopTurn
  <2>1. Period \in Nat /\ Period > 0 /\ Period <= 10
    BY DEF Period
  <2>2. \A u, p \in Nat : p > 0 => (u + 1) % p \in Nat /\ (u + 1) % p < p
    OBVIOUS
  <2>3. unfed' \in Nat /\ unfed' < Period
    BY <1>0, <1>3, <2>1, <2>2 DEF LoopTurn, WD_TypeOK
  <2>4. unfed' \in 0 .. WdtTimeout + LockTimeout
    BY <1>0, <2>1, <2>3
  <2>5. QED
    BY <1>3, <2>4 DEF LoopTurn, WD_TypeOK
<1>4. CASE Spins
  BY <1>0, <1>4 DEF Spins, WD_TypeOK
<1>5. CASE SpinEnds
  BY <1>0, <1>5 DEF SpinEnds, WD_TypeOK
<1>6. CASE WdtReset
  BY <1>0, <1>6 DEF WdtReset, BootHardware, WD_TypeOK
<1>7. QED
  BY <1>1, <1>2, <1>3, <1>4, <1>5, <1>6 DEF WD_Next

LEMMA TypesStart == Init => VisitInv /\ SelectInv /\ WatchTyped /\ PressInv /\ KeysTyped
                            /\ ShownInv /\ WD_TypeOK
<1> SUFFICES ASSUME Init
             PROVE  VisitInv /\ SelectInv /\ WatchTyped /\ PressInv /\ KeysTyped
                    /\ ShownInv /\ WD_TypeOK
  OBVIOUS
<1>1. VisitInv
  BY DEF Init, CR_Init, At, VisitInv, DriverInv, Asleep
<1>2. SelectInv
  BY SelectStart DEF Init
<1>3. WatchTyped
  BY BoundAssumption DEF Init, CR_Init, WatchTyped
<1>4. PressInv
  BY DEF Init, KP_Init, NoKeys, Free, Slot, KeyStates, PressInv
<1>5. KeysTyped
  <2>1. 0 \in 0 .. PinLen - 1 /\ 0 \in 0 .. MaxPresses
    BY KeypadAssumption
  <2>2. QED
    BY <2>1 DEF Init, KP_Init, KeysTyped
<1>6. ShownInv
  BY ShownStart DEF Init
<1>7. WD_TypeOK
  BY WatchdogAssumption DEF Init, WD_Init, WD_TypeOK
<1>8. QED
  BY <1>1, <1>2, <1>3, <1>4, <1>5, <1>6, <1>7

\* All four devices keep the types of their state, whatever cards, keys, messages
\* and time-outs there are: no counter leaves its range, the driver's buffers hold
\* at most a level's bits and the ten bytes of a UID, the controller half a byte.
THEOREM FrontEndTypes == Spec => []TypeOK
<1>1. Init => VisitInv /\ SelectInv /\ WatchTyped /\ PressInv /\ KeysTyped /\ ShownInv /\ WD_TypeOK
  BY TypesStart
<1>2. VisitInv /\ SelectInv /\ WatchTyped /\ [Next]_vars => VisitInv' /\ SelectInv' /\ WatchTyped'
  <2> SUFFICES ASSUME VisitInv, SelectInv, WatchTyped, [Next]_vars
               PROVE  VisitInv' /\ SelectInv' /\ WatchTyped'
    OBVIOUS
  <2>1. CASE CR_Next
    BY <2>1, VisitNext, SelectStep, WatchNext
  <2>2. CASE UNCHANGED CR_vars
    <3>1. VisitInv' /\ WatchTyped'
      BY <2>2 DEF CR_vars, VisitInv, DriverInv, WatchTyped
    <3>2. QED
      BY <2>2, <3>1, SelectStays
  <2>3. QED
    BY <2>1, <2>2, DeviceStep
<1>3. PressInv /\ KeysTyped /\ [Next]_vars => PressInv' /\ KeysTyped'
  <2> SUFFICES ASSUME PressInv, KeysTyped, [Next]_vars PROVE PressInv' /\ KeysTyped'
    OBVIOUS
  <2>1. PressInv'
    BY PressNext, DeviceStep
  <2>2. CASE KP_Next
    BY <2>1, <2>2, KeysNext
  <2>3. CASE UNCHANGED KP_vars
    BY <2>1, <2>3 DEF KP_vars, KeysTyped
  <2>4. QED
    BY <2>2, <2>3, DeviceStep
<1>4. ShownInv /\ [Next]_vars => ShownInv'
  <2> SUFFICES ASSUME ShownInv, [Next]_vars PROVE ShownInv'
    OBVIOUS
  <2>1. CASE LC_Next
    BY <2>1, ShownNext
  <2>2. CASE UNCHANGED LC_vars
    BY <2>2 DEF LC_vars, ShownInv
  <2>3. QED
    BY <2>1, <2>2, DeviceStep
<1>5. WD_TypeOK /\ [Next]_vars => WD_TypeOK'
  <2> SUFFICES ASSUME WD_TypeOK, [Next]_vars PROVE WD_TypeOK'
    OBVIOUS
  <2>1. CASE WD_Next
    BY <2>1, WatchdogNext
  <2>2. CASE UNCHANGED WD_vars
    BY <2>2 DEF WD_vars, WD_TypeOK
  <2>3. QED
    BY <2>1, <2>2, DeviceStep
<1>6. SelectInv /\ WatchTyped /\ PressInv /\ KeysTyped /\ ShownInv /\ WD_TypeOK => TypeOK
  BY ReaderTyped, DisplayTyped DEF PressInv, KeysTyped, KP_TypeOK, TypeOK
<1>7. QED
  BY <1>1, <1>2, <1>3, <1>4, <1>5, <1>6, PTL DEF Spec

=============================================================================
