------------------------------ MODULE CardReader ------------------------------
(***************************************************************************)
(* The card reader: the MFRC522 driver, rfid_poll and its watchdog         *)
(* (lib/rfid/rfid.cpp, the reader's part of rfid_ui_task), and the cards   *)
(* in front of it (ISO 14443-3, external).  One step of the driver is one  *)
(* frame on the air and the answer to it.  A card is off, idle, active,    *)
(* halted, or ready at the cascade level whose UID bytes it answers with;  *)
(* bits are numbered in the order they are sent, 1 to 32 per level.        *)
(***************************************************************************)
EXTENDS Naturals, Sequences, FiniteSets

CONSTANTS
  Cards,       \* the cards people carry
  UidOf,       \* their UIDs: 4, 7 or 10 bytes
  CountTo,     \* the watchdog's failure counter wraps here (256)
  MaxMoves,    \* bound: how often a card is put down or taken away
  MaxFaults    \* bound: frames lost or spoilt, wires and supplies that fail

CT == 136      \* the cascade tag, 0x88: more UID bytes follow at the next level

\* The last four bytes of a UID never start with the cascade tag (ISO 14443-3 says
\* so of UIDs of four and of seven bytes), and no two cards have the same UID.
ASSUME CardAssumption ==
  /\ \A c \in Cards :
       /\ UidOf[c] \in Seq(0..255)
       /\ Len(UidOf[c]) \in {4, 7, 10}
       /\ Len(UidOf[c]) # 10 => UidOf[c][Len(UidOf[c]) - 3] # CT
  /\ \A c, d \in Cards : UidOf[c] = UidOf[d] => c = d

ASSUME BoundAssumption == /\ CountTo \in Nat /\ CountTo > 3
                          /\ MaxMoves \in Nat
                          /\ MaxFaults \in Nat

VARIABLES
  near,      \* the cards on the reader
  card,      \* the protocol state of each card
  bus,       \* the reader's registers answer (SPI wires and supply are fine)
  field,     \* the reader is initialised and its antenna is on
  reader,    \* the driver: step, cascade level, known bits, UID bytes copied
  dog,       \* the watchdog: failures, faulted; and main's s_rfid_fault_alerted
  fresh,     \* history: the cards that may be read: put down, not put to sleep
  budget     \* moves and faults left

CR_vars == <<near, card, bus, field, reader, dog, fresh, budget>>

\* How many cascade levels the UID of c takes, and the four bytes it sends at l.
Levels(c) == (Len(UidOf[c]) - 1) \div 3

\* SAK: the UID of the selected card goes on.
GoesOn(cs, l) == \E c \in cs : l < Levels(c)

AtLevel(c, l) == IF l < Levels(c) THEN <<CT>> \o SubSeq(UidOf[c], 3*l - 2, 3*l)
                                  ELSE SubSeq(UidOf[c], 3*l - 2, 3*l + 1)

Weight == <<1, 2, 4, 8, 16, 32, 64, 128>>

BitsOf(bytes) ==
  [i \in 1..32 |-> (bytes[((i - 1) \div 8) + 1] \div Weight[((i - 1) % 8) + 1]) % 2]

\* The 32 bits every card sends at each of its levels.
SentBits == [c \in Cards |-> [l \in 1..Levels(c) |-> BitsOf(AtLevel(c, l))]]

BytesOf(bits) ==
  LET byte(k) == LET b == 8 * (k - 1)
                 IN bits[b+1] + 2*bits[b+2] + 4*bits[b+3] + 8*bits[b+4]
                    + 16*bits[b+5] + 32*bits[b+6] + 64*bits[b+7] + 128*bits[b+8]
  IN  [k \in 1..4 |-> byte(k)]

Uid4(uid) == SubSeq(uid, 1, 4)

Ready == <<"ready1", "ready2", "ready3">>
CardStates == {"off", "idle", "active", "halt"} \cup {Ready[l] : l \in 1..3}
At(pc) == [pc |-> pc, lvl |-> 1, known |-> <<>>, uid |-> <<>>]

CR_TypeOK ==
  /\ near \subseteq Cards
  /\ card \in [Cards -> CardStates]
  /\ bus \in BOOLEAN
  /\ field \in BOOLEAN
  /\ reader.pc \in {"tick", "recover", "request", "select", "halt"}
  /\ reader.lvl \in 1..3
  /\ Len(reader.known) <= 32
  /\ Len(reader.uid) \in {0, 3, 4, 6, 7, 9, 10}
  /\ dog.failures \in 0..CountTo - 1
  /\ dog.faulted \in BOOLEAN
  /\ dog.alerted \in BOOLEAN
  /\ fresh \subseteq near
  /\ budget.moves \in 0..MaxMoves
  /\ budget.faults \in 0..MaxFaults

CR_Init ==
  /\ near = {}
  /\ card = [c \in Cards |-> "off"]
  /\ bus = TRUE
  /\ field = TRUE
  /\ reader = At("tick")
  /\ dog = [failures |-> 0, faulted |-> FALSE, alerted |-> FALSE]
  /\ fresh = {}
  /\ budget = [moves |-> MaxMoves, faults |-> MaxFaults]

-----------------------------------------------------------------------------
(* The chip and the air.                                                   *)

Version == 146     \* 0x92, MFRC522 version 2.0

\* PCD_ReadRegister: what may be read; on dead wires it is what they float to.
ReadRegister(value) == IF bus THEN {value} ELSE {0, 255}

\* PCD_WriteRegister: a write that does not arrive is not noticed.
WriteRegister(old, new) == IF bus THEN new ELSE old

\* A frame goes out when the chip gets the StartSend bit (PCD_SetRegisterBitMask)
\* and its antenna is on.
StartSend == WriteRegister(FALSE, TRUE)
CanSend == StartSend /\ field

Step(pc) == reader' = [reader EXCEPT !.pc = pc]
GiveUp == reader' = At("tick")

\* Every card near has lost its power and starts again when the field is there.
Powered(on) == [c \in Cards |-> IF c \in near /\ on THEN "idle" ELSE "off"]

\* PCD_Reset and PCD_Init: the reset switches the antenna off, then registers and
\* antenna are set.
Initialise ==
  /\ field' = WriteRegister(field, TRUE)
  /\ card'  = WriteRegister(card, Powered(TRUE))
  /\ fresh' = WriteRegister(fresh, near)

\* REQA: an idle card answers and is ready at level one, a halted one sleeps on,
\* and one that was in the middle of something goes back to idle.
Requested == [c \in Cards |-> CASE card[c] = "idle" -> Ready[1]
                                [] card[c] \in {"off", "halt"} -> card[c]
                                [] OTHER -> "idle"]

\* SELECT or ANTICOLLISION at level l with the first bits known: the cards that
\* have those bits stay, the others go back to idle.
Addressed(l, known) ==
  {c \in Cards : /\ card[c] = Ready[l]
                /\ SubSeq(SentBits[c][l], 1, Len(known)) = known}

Dropped(l, known) ==
  [c \in Cards |-> IF card[c] \in {"off", "halt"} \/ c \in Addressed(l, known)
                   THEN card[c] ELSE "idle"]

\* A selected card is active, or ready at the next level if its UID goes on.
Selected(l, known) ==
  [c \in Cards |-> IF c \in Addressed(l, known)
                   THEN IF l < Levels(c) THEN Ready[l + 1] ELSE "active"
                   ELSE Dropped(l, known)[c]]

\* HLTA puts the active card to sleep; any other card takes it as an error.
HaltLost == card
Halted == [c \in Cards |-> IF card[c] = "active" THEN "halt"
                           ELSE IF card[c] \in {"off", "halt"} THEN card[c] ELSE "idle"]

\* The fault of this step, if the budget allows one.
Fault == /\ budget.faults > 0
         /\ budget' = [budget EXCEPT !.faults = @ - 1]

-----------------------------------------------------------------------------
(* The driver.                                                             *)

\* PICC_RequestA's status; PICC_IsNewCardPresent takes a collision for a card.
Statuses == {"ok", "error", "collision", "timeout", "noRoom", "internalError",
             "invalid", "crcWrong", "nack"}

StatusOf(answers) == CASE answers = {} -> "timeout"
                       [] Cardinality(answers) = 1 -> "ok"
                       [] OTHER -> "collision"
IsPresentOnlyOk(status) == status = "ok"
IsPresent(status) == status \in {"ok", "collision"}

\* The ATQA tells the UID's size, so two sizes at once collide.
RequestA == IF CanSend THEN StatusOf({Levels(c) : c \in {d \in Cards : card[d] = "idle"}})
                       ELSE "timeout"

Request ==
  /\ reader.pc = "request"
  /\ card' = IF CanSend THEN Requested ELSE card
  /\ IF IsPresent(RequestA) THEN Step("select") ELSE GiveUp
  /\ UNCHANGED <<near, bus, field, dog, fresh, budget>>

\* The driver's frame is lost, or the answer is and the driver's checks of the
\* error register, the length and the CRC say so: rfid_poll reports no card, but
\* noise that looks like a collision of two ATQAs is taken for a card.
Spoilt ==
  /\ reader.pc \in {"request", "select"}
  /\ CanSend
  /\ Fault
  /\ \/ UNCHANGED card
     \/ card' = IF reader.pc = "request" THEN Requested
                ELSE IF Len(reader.known) < 32 THEN Dropped(reader.lvl, reader.known)
                ELSE Selected(reader.lvl, reader.known)
  /\ \E status \in Statuses \ {"ok"} :
       IF reader.pc = "request" /\ IsPresent(status) THEN Step("select") ELSE GiveUp
  /\ UNCHANGED <<near, bus, field, dog, fresh>>

\* What the anticollision loop knows after the answers of the cards in cs: all
\* 32 bits if they agree, else the bits before the first collision and a one.
Resolved(cs, l) ==
  LET agree(n) == \A c, d \in cs : SubSeq(SentBits[c][l], 1, n)
                                     = SubSeq(SentBits[d][l], 1, n)
      n == Cardinality({m \in 1..32 : agree(m)})
      bits == SentBits[CHOOSE c \in cs : TRUE][l]
  IN  IF n = 32 THEN bits ELSE Append(SubSeq(bits, 1, n), 1)

Anticollision ==
  /\ reader.pc = "select" /\ Len(reader.known) < 32
  /\ LET cs == Addressed(reader.lvl, reader.known)
     IN  IF CanSend /\ cs # {}
         THEN reader' = [reader EXCEPT !.known = Resolved(cs, reader.lvl)]
         ELSE GiveUp
  /\ card' = IF CanSend THEN Dropped(reader.lvl, reader.known) ELSE card
  /\ UNCHANGED <<near, bus, field, dog, fresh, budget>>

\* An answer cut short passes: PICC_Select does not look at its length, and the
\* bytes that are missing are what an earlier card left on the stack.
ShortAnswer ==
  /\ reader.pc = "select" /\ Len(reader.known) < 32
  /\ CanSend
  /\ Addressed(reader.lvl, reader.known) # {}
  /\ Fault
  /\ LET full == Resolved(Addressed(reader.lvl, reader.known), reader.lvl)
     IN  /\ Len(full) = 32
         /\ \E d \in Cards, n \in {8, 16, 24} :
              /\ n >= Len(reader.known)
              /\ reader' = [reader EXCEPT !.known =
                   SubSeq(full, 1, n) \o SubSeq(SentBits[d][1], n + 1, 32)]
  /\ card' = Dropped(reader.lvl, reader.known)
  /\ UNCHANGED <<near, bus, field, dog, fresh>>

\* The UID bytes of a level: all four, or the three behind the cascade tag.
CopiedWithTag(uid, bytes) == uid \o (IF bytes[1] = CT THEN SubSeq(bytes, 1, 3) ELSE bytes)
Copied(uid, bytes) == uid \o (IF bytes[1] = CT THEN Tail(bytes) ELSE bytes)

\* rfid_mark_activity, and what the watchdog does when the chip answers.
MarkActivity == [dog EXCEPT !.failures = 0, !.faulted = FALSE]

\* PICC_ReadCardSerial is done: uid is whole.
CardSerialRead(uid) == reader' = [reader EXCEPT !.pc = "halt", !.known = <<>>, !.uid = uid]

\* SELECT: no card has these bits, or the SAK tells whether the UID goes on.  A
\* whole UID is a read card, and its first bytes go to main.
Select ==
  /\ reader.pc = "select" /\ Len(reader.known) = 32
  /\ LET l    == reader.lvl
         cs   == Addressed(l, reader.known)
         uid  == Copied(reader.uid, BytesOf(reader.known))
     IN  /\ card' = IF CanSend THEN Selected(l, reader.known) ELSE card
         /\ IF ~CanSend \/ cs = {} THEN GiveUp /\ UNCHANGED <<dog, fresh>>
            ELSE IF GoesOn(cs, l)
            THEN /\ reader' = [pc |-> "select", lvl |-> l + 1, known |-> <<>>, uid |-> uid]
                 /\ UNCHANGED <<dog, fresh>>
            ELSE /\ CardSerialRead(uid)
                 /\ dog' = MarkActivity
                 /\ fresh' = fresh \ cs
  /\ UNCHANGED <<near, bus, field, budget>>

\* PICC_HaltA.
HaltHeard ==
  /\ CanSend
  /\ card' = Halted
  /\ UNCHANGED <<fresh, budget>>

\* The frame is lost, or there is none as the CRC coprocessor did not finish.
\* rfid_poll ignores the result: the card stays active, and the next REQA but one
\* wakes it for another read.
HaltUnheard ==
  /\ IF CanSend THEN Fault ELSE UNCHANGED budget
  /\ fresh' = fresh \cup {c \in Cards : card[c] = "active"}
  /\ UNCHANGED card

Halt ==
  /\ reader.pc = "halt"
  /\ HaltHeard \/ HaltUnheard
  /\ GiveUp
  /\ UNCHANGED <<near, bus, field, dog>>

-----------------------------------------------------------------------------
(* The watchdog: main runs it every RFID_WATCHDOG_MS.                      *)

NoTick == reader.pc = "tick" /\ Step("request")
          /\ UNCHANGED <<near, card, bus, field, dog, fresh, budget>>

AlertStays(ok) == TRUE
Alert(ok) == ~ok

\* The version register reads like one.
IsHealthy(v) == v \notin {0, 255, 136}
Healthy == \A v \in ReadRegister(Version) : IsHealthy(v)

\* The watchdog returns TRUE.
Alive == dog' = [MarkActivity EXCEPT !.alerted = @ /\ Alert(TRUE)]

\* rfid_watchdog_tick reads the version register ...
Tick ==
  /\ reader.pc = "tick"
  /\ IF Healthy
     THEN Alive /\ Step("request")
     ELSE UNCHANGED dog /\ Step("recover")
  /\ UNCHANGED <<near, card, bus, field, fresh, budget>>

CountedPast(n) == n + 1
Counted(n) == (n + 1) % CountTo

\* ... and if it is dead, resets and initialises the chip and reads it again.
Recover ==
  /\ reader.pc = "recover"
  /\ IF Healthy
     THEN Alive
     ELSE LET n == Counted(dog.failures)
          IN  dog' = [failures |-> n, faulted |-> dog.faulted \/ n >= 3,
                      alerted |-> Alert(FALSE)]
  /\ Initialise
  /\ Step("request")
  /\ UNCHANGED <<near, bus, budget>>

-----------------------------------------------------------------------------
(* The people and the hardware.                                            *)

PutDown(c) ==
  /\ c \notin near
  /\ budget.moves > 0
  /\ budget' = [budget EXCEPT !.moves = @ - 1]
  /\ near' = near \cup {c}
  /\ card' = [card EXCEPT ![c] = IF field THEN "idle" ELSE "off"]
  /\ fresh' = fresh \cup {c}
  /\ UNCHANGED <<bus, field, reader, dog>>

TakeAway(c) ==
  /\ c \in near
  /\ budget.moves > 0
  /\ budget' = [budget EXCEPT !.moves = @ - 1]
  /\ near' = near \ {c}
  /\ card' = [card EXCEPT ![c] = "off"]
  /\ fresh' = fresh \ {c}
  /\ UNCHANGED <<bus, field, reader, dog>>

\* A wire comes loose; or the supply dips, and the chip forgets its registers.
BusLost ==
  /\ bus /\ Fault
  /\ bus' = FALSE
  /\ \/ UNCHANGED <<field, card, fresh>>
     \/ field' = FALSE /\ card' = Powered(FALSE) /\ fresh' = near
  /\ UNCHANGED <<near, reader, dog>>

BusBack == ~bus /\ bus' = TRUE
           /\ UNCHANGED <<near, card, field, reader, dog, fresh, budget>>

-----------------------------------------------------------------------------
Reader == Request \/ Anticollision \/ Select \/ Halt \/ Recover \/ NoTick \/ Tick

CR_Next ==
  \/ Reader \/ Spoilt \/ ShortAnswer \/ BusLost \/ BusBack
  \/ \E c \in Cards : PutDown(c) \/ TakeAway(c)

\* The loop goes round; RFID_WATCHDOG_MS passes again and again.
CR_Fairness == WF_CR_vars(Reader) /\ SF_CR_vars(Tick)

CR_Spec == CR_Init /\ [][CR_Next]_CR_vars /\ CR_Fairness

-----------------------------------------------------------------------------
(* Properties.                                                             *)

\* A card is read: the driver has a whole UID and goes on to halt the card.
ReadsCard == reader.pc # "halt" /\ reader'.pc = "halt"

\* However many cards are on the reader, and whatever the air spoils, a read
\* ends with exactly one card active, every other one out of the way, and the
\* UID main gets is that card's: SELECT confirms what the anticollision loop
\* put together from collisions and cut answers (PICC_Select, rfid_poll).
SelectsOne ==
  [][ReadsCard => \E c \in Cards :
        /\ card'[c] = "active"
        /\ Uid4(reader'.uid) = Uid4(UidOf[c])
        /\ \A d \in Cards \ {c} : card'[d] \in {"off", "idle", "halt"}]_CR_vars

\* A card left on the reader is charged once: it is read again only after it
\* missed the HLTA or the field went away (rfid_poll's PICC_HaltA).
ReadOncePerVisit ==
  [][ReadsCard => \A c \in Cards : card'[c] = "active" => c \in fresh]_CR_vars

\* A card left on a reader that works is read, with others beside it or not.
EveryCardIsRead ==
  \A c \in Cards : <>[](c \in near /\ bus /\ field) => <>[](c \notin fresh)

\* The fault notice comes up when the reader stays dead and ends when it works
\* (rfid_watchdog_tick and s_rfid_fault_alerted in rfid_ui_task).
AlertFollowsReader ==
  /\ <>[](~bus) => <>[](dog.alerted)
  /\ <>[]bus => <>[](~dog.alerted)

=============================================================================
