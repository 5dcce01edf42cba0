------------------------------ MODULE KeypadScan ------------------------------
(***************************************************************************)
(* The keypad: the matrix, the Keypad library's list of active keys, and   *)
(* the places that ask it for a key (keypad_read_pin, the ride loop, the   *)
(* ADD NEXT question).  One poll is one keypad_get_key() that scans: the   *)
(* library does so at most every 50 ms.  Keys are <<row, column>>.         *)
(***************************************************************************)
EXTENDS Naturals, Sequences, FiniteSets

CONSTANTS
  Rows, Cols,   \* the matrix is 0..Rows-1 by 0..Cols-1 (4 by 4)
  KeyAt,        \* KEYPAD_MAP: what is printed on the keys
  Digits,       \* '0' to '9'
  ListMax,      \* LIST_MAX: slots of the list (10)
  PinLen,       \* the digits of a PIN (4)
  NoKey,        \* no key
  MaxPresses    \* bound: how often a key is pressed

Keys == (0..Rows-1) \X (0..Cols-1)

ASSUME KeypadAssumption == /\ Rows \in Nat \ {0} /\ Cols \in Nat \ {0}
                           /\ NoKey \notin Keys
                           /\ ListMax \in Nat \ {0}
                           /\ PinLen \in Nat \ {0}
                           /\ MaxPresses \in Nat

VARIABLES
  down,      \* the keys that are down
  list,      \* key[LIST_MAX]: code, state, stateChanged of each slot
  long,      \* more than holdTime (500 ms) since holdTimer was set
  mode,      \* who polls: "pin", "ride", "add"; or nobody: "locked", "busy"
  entered,   \* the digits keypad_read_pin has stored
  unread,    \* history: the keys pressed and not reported since
  presses    \* presses so far

KP_vars == <<down, list, long, mode, entered, unread, presses>>

KeyStates == {"IDLE", "PRESSED", "HOLD", "RELEASED"}
Slot == [code : Keys \cup {NoKey}, state : KeyStates, changed : BOOLEAN]
Free == [code |-> NoKey, state |-> "IDLE", changed |-> FALSE]

\* Keypad's constructor: ten new Keys.
NoKeys == [i \in 1..ListMax |-> Free]

Polled == mode \in {"pin", "ride", "add"}

KP_TypeOK ==
  /\ down \subseteq Keys
  /\ list \in [1..ListMax -> Slot]
  /\ long \in BOOLEAN
  /\ mode \in {"locked", "pin", "ride", "busy", "add"}
  /\ entered \in 0..PinLen - 1
  /\ unread \subseteq Keys
  /\ presses \in 0..MaxPresses

KP_Init ==
  /\ down = {}
  /\ list = NoKeys
  /\ long = FALSE
  /\ mode = "locked"
  /\ entered = 0
  /\ unread = {}
  /\ presses = 0

-----------------------------------------------------------------------------
(* The library.                                                            *)

\* The matrix has no diodes: three keys down at the corners of a rectangle close
\* the fourth (longer ways round take five keys).
Ghosted == {k \in Keys \ down : \E r \in 0..Rows-1, c \in 0..Cols-1 :
              {<<r, k[2]>>, <<r, c>>, <<k[1], c>>} \subseteq down}
Sensed == down \cup Ghosted

Moved(key, state) == [key EXCEPT !.state = state, !.changed = TRUE]

\* nextKeyState; holdTimer is one for all keys, so a new press puts it off.
NextStateRepeats(key, closed, late) ==
  CASE key.state = "PRESSED" /\ late -> Moved(key, "PRESSED")
    [] key.state = "PRESSED" /\ ~late /\ ~closed -> Moved(key, "RELEASED")
    [] key.state = "RELEASED" -> Moved(key, "IDLE")
    [] OTHER -> [key EXCEPT !.changed = FALSE]

NextState(key, closed, late) ==
  CASE key.state = "IDLE" /\ closed -> Moved(key, "PRESSED")
    [] key.state = "PRESSED" /\ late -> Moved(key, "HOLD")
    [] key.state = "PRESSED" /\ ~late /\ ~closed -> Moved(key, "RELEASED")
    [] key.state = "HOLD" /\ ~closed -> Moved(key, "RELEASED")
    [] key.state = "RELEASED" -> Moved(key, "IDLE")
    [] OTHER -> [key EXCEPT !.changed = FALSE]

ClearedNot(l) == l
Cleared(l) == [i \in 1..ListMax |-> IF l[i].state = "IDLE" THEN Free ELSE l[i]]

\* updateList goes through the keys row by row: one that is on the list moves on,
\* a closed one that is not takes the next free slot, or none.
Before(k, m) == k[1] < m[1] \/ (k[1] = m[1] /\ k[2] < m[2])

FindInList(l, code) == {i \in 1..ListMax : l[i].code = code}

Updated(old, closed) ==
  LET missing == {k \in closed : FindInList(old, k) = {}}
      free   == FindInList(old, NoKey)
      rank(k) == Cardinality({m \in missing : Before(m, k)})
      added  == {k \in missing : rank(k) < Cardinality(free)}
      late(k) == long /\ \A m \in added : ~Before(m, k)
      newIn(i) == {k \in added : rank(k) = Cardinality({j \in free : j < i})}
  IN  /\ list' = [i \in 1..ListMax |->
           IF i \notin free THEN NextState(old[i], old[i].code \in closed, late(old[i].code))
           ELSE IF newIn(i) = {} THEN Free
           ELSE Moved([Free EXCEPT !.code = CHOOSE k \in newIn(i) : TRUE], "PRESSED")]
      /\ long' = (long /\ added = {})

\* getKey reports slot 0 (here 1), and only when it has just been pressed.
Hit(l) == IF l[1].state = "PRESSED" /\ l[1].changed THEN l[1].code ELSE NoKey

-----------------------------------------------------------------------------
(* The callers.                                                            *)

\* keypad_read_pin stores a digit, and returns when it has PinLen of them.
LastDigitLate == entered + 1 > PinLen
LastDigit == entered + 1 = PinLen

\* What the caller does with a key: the PIN is checked elsewhere and opens the
\* session or does not; '#' logs out; ADD NEXT wants a '1' or a '0'.
Used(key) ==
  CASE mode = "pin" /\ key = "*" -> mode' = "locked" /\ entered' = 0
    [] mode = "pin" /\ key \in Digits /\ LastDigit ->
         mode' \in {"ride", "locked"} /\ entered' = 0
    [] mode = "pin" /\ key \in Digits /\ ~LastDigit ->
         entered' = entered + 1 /\ UNCHANGED mode
    [] mode \in {"ride", "add"} /\ key = "#" -> mode' = "locked" /\ UNCHANGED entered
    [] mode = "add" /\ key = "0" -> mode' = "locked" /\ UNCHANGED entered
    [] mode = "add" /\ key = "1" -> mode' = "ride" /\ UNCHANGED entered
    [] OTHER -> UNCHANGED <<mode, entered>>

Poll ==
  /\ Polled
  /\ Updated(Cleared(list), Sensed)
  /\ IF Hit(list') = NoKey THEN UNCHANGED <<mode, entered>> ELSE Used(KeyAt[Hit(list')])
  /\ unread' = unread \ {Hit(list')}
  /\ UNCHANGED <<down, presses>>

Moves(from, to) == mode = from /\ mode' = to
                   /\ UNCHANGED <<down, list, long, entered, unread, presses>>

StaffTap == Moves("locked", "pin")
RiderTap == Moves("ride", "busy")
Handled == Moves("busy", "ride") \/ Moves("busy", "add")
AddTimeout == Moves("add", "locked")

\* Half a second since the last new key; of no interest with no key PRESSED.
HoldTime == /\ ~long /\ \E i \in 1..ListMax : list[i].state = "PRESSED"
            /\ long' = TRUE
            /\ UNCHANGED <<down, list, mode, entered, unread, presses>>

Press(k) == /\ k \notin down /\ presses < MaxPresses
            /\ down' = down \cup {k}
            /\ unread' = unread \cup {k}
            /\ presses' = presses + 1
            /\ UNCHANGED <<list, long, mode, entered>>

Release(k) == /\ k \in down
              /\ down' = down \ {k}
              /\ UNCHANGED <<list, long, mode, entered, unread, presses>>

-----------------------------------------------------------------------------
KP_Next ==
  \/ Poll \/ StaffTap \/ RiderTap \/ Handled \/ AddTimeout \/ HoldTime
  \/ \E k \in Keys : Press(k) \/ Release(k)

\* Every loop that polls goes round, also when handlers come in between.
KP_Fairness == SF_KP_vars(Poll)

KP_Spec == KP_Init /\ [][KP_Next]_KP_vars /\ KP_Fairness

-----------------------------------------------------------------------------
(* Properties.                                                             *)

\* A key is reported once for each time somebody pressed it, however long it is
\* held, in whatever order keys go down and up, and however long nobody polls;
\* only a key closed by three others comes without a press (Keypad::getKey).
ReportsArePresses ==
  [][\A k \in Keys : Hit(list) # k /\ Hit(list') = k => k \in unread \cup Ghosted]_KP_vars

\* Once all keys are up the list empties, so no old key blocks slot 0; and a key
\* pressed while the list is empty is reported if it alone stays down and
\* somebody polls (Keypad::updateList).
KeysAreHeard ==
  LET empty == \A i \in 1..ListMax : list[i].code = NoKey
  IN  /\ <>[](down = {}) /\ []<>Polled => <>[]empty
      /\ \A k \in Keys : (empty /\ down = {k} /\ k \in unread /\ Polled)
                           ~> (k \notin unread \/ down # {k} \/ ~Polled)

=============================================================================
