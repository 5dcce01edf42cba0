---------------------------------- MODULE Lcd ----------------------------------
(***************************************************************************)
(* The display: lib/display, the LiquidCrystal_I2C driver, and the HD44780 *)
(* behind an I2C expander (external).  The bus has four data lines, so the *)
(* driver sends every byte as two nibbles, and nothing tells the           *)
(* controller which half it gets: a nibble that goes missing, or a restart *)
(* of the terminal between two nibbles, leaves it half a byte off.  One    *)
(* step of the driver is one nibble (write4bits).                          *)
(***************************************************************************)
EXTENDS Naturals, Sequences

CONSTANTS
  Columns,     \* LCD_COLS (16)
  Messages,    \* pairs of texts (byte codes), as display_show_* are given them
  MaxShows,    \* bound: messages and indicator updates
  MaxResets,   \* bound: restarts of the terminal
  MaxGlitches  \* bound: faults of the wires and of the display's supply

ASSUME LcdAssumption ==
  /\ Columns \in 3..40
  /\ \A m \in Messages : m \in (Seq(0..255) \X Seq(0..255))
  /\ {MaxShows, MaxResets, MaxGlitches} \subseteq Nat

VARIABLES
  lcd,      \* the controller
  todo,     \* the nibbles the driver has still to send
  want,     \* what the program has asked for: the visible cells
  intact,   \* history: nothing went wrong on the wires since the terminal started
  used      \* the bounds used up

LC_vars == <<lcd, todo, want, intact, used>>

Blank == 32
Cells == (0..1) \X (0..Columns - 1)
Empty == [cell \in Cells |-> Blank]
RowOffset == <<0, 64>>      \* row_offsets: 0x00, 0x40
NoNibble == <<>>

\* The commands and the flags that go with them (LiquidCrystal_I2C.h).
LCD == [clearDisplay |-> 1, returnHome |-> 2,
        entryModeSet |-> 4, entryLeft |-> 2, entryShift |-> 1,
        displayControl |-> 8, displayOn |-> 4,
        cursorShift |-> 16, displayMove |-> 8, moveRight |-> 4,
        functionSet |-> 32, eightBit |-> 16, twoLine |-> 8,
        setCgramAddr |-> 64, setDdramAddr |-> 128]

\* DDRAM addresses run over both lines; only the visible ones are kept.
AddressOf(cell) == cell[2] + RowOffset[cell[1] + 1]

LC_TypeOK ==
  /\ lcd \in [wide : BOOLEAN, held : Seq((0..1) \X (0..15)), twoLines : BOOLEAN,
              on : BOOLEAN, forward : BOOLEAN, shifted : BOOLEAN, cgram : BOOLEAN,
              addr : 0..127, cells : [Cells -> 0..255]]
  /\ Len(lcd.held) <= 1
  /\ todo \in Seq((0..1) \X (0..15))
  /\ want \in [Cells -> 0..255]
  /\ intact \in BOOLEAN

-----------------------------------------------------------------------------
(* The controller.                                                         *)

PowerOn == [wide |-> TRUE, held |-> NoNibble, twoLines |-> FALSE, on |-> FALSE,
            forward |-> TRUE, shifted |-> FALSE, cgram |-> FALSE,
            addr |-> 0, cells |-> Empty]

Has(byte, bit) == (byte \div bit) % 2 = 1

CursorMoved(l, forward) == [l EXCEPT !.addr = (IF forward THEN @ + 1 ELSE @ + 127) % 128]

\* A character goes where the address counter is, and the counter moves.
Written(l, byte) ==
  [CursorMoved(l, l.forward) EXCEPT
     !.cells = [cell \in Cells |-> IF ~l.cgram /\ AddressOf(cell) = l.addr
                                   THEN byte ELSE @[cell]]]

\* An instruction is told by its highest bit, and the bits below are its flags.
HighestBit(byte) == CHOOSE b \in {1, 2, 4, 8, 16, 32, 64, 128} : b <= byte /\ byte < 2 * b

Homed(l) == [l EXCEPT !.addr = 0, !.cgram = FALSE, !.shifted = FALSE]

Instructed(l, byte) ==
  IF byte = 0 THEN l
  ELSE LET op == HighestBit(byte)
       IN  CASE op = LCD.clearDisplay   -> [Homed(l) EXCEPT !.forward = TRUE, !.cells = Empty]
             [] op = LCD.returnHome     -> Homed(l)
             [] op = LCD.entryModeSet   -> [l EXCEPT !.forward = Has(byte, LCD.entryLeft),
                                                     !.shifted = @ \/ Has(byte, LCD.entryShift)]
             [] op = LCD.displayControl -> [l EXCEPT !.on = Has(byte, LCD.displayOn)]
             [] op = LCD.cursorShift    -> IF Has(byte, LCD.displayMove)
                                           THEN [l EXCEPT !.shifted = TRUE]
                                           ELSE CursorMoved(l, Has(byte, LCD.moveRight))
             [] op = LCD.functionSet    -> [l EXCEPT !.wide = Has(byte, LCD.eightBit),
                                                     !.twoLines = Has(byte, LCD.twoLine)]
             [] op = LCD.setCgramAddr   -> [l EXCEPT !.cgram = TRUE]
             [] op = LCD.setDdramAddr   -> [l EXCEPT !.addr = byte - op, !.cgram = FALSE]

Executed(l, rs, byte) == IF rs = 1 THEN Written(l, byte) ELSE Instructed(l, byte)

\* A nibble arrives: eight-bit mode takes it for a whole byte (the low lines are
\* not connected, and pulled up), four-bit mode for half of one.
Latched(l, nib) ==
  IF l.wide THEN Executed(l, nib[1], 16 * nib[2] + 15)
  ELSE IF l.held = NoNibble THEN [l EXCEPT !.held = <<nib>>]
  ELSE Executed([l EXCEPT !.held = NoNibble], nib[1], 16 * l.held[1][2] + nib[2])

-----------------------------------------------------------------------------
(* The driver.                                                             *)

\* send: the high half first.
Send(byte, rs) == << <<rs, byte \div 16>>, <<rs, byte % 16>> >>
Command(byte) == Send(byte, 0)
SetCursor(col, row) == Command(LCD.setDdramAddr + col + RowOffset[row + 1])
Characters(text) ==
  [k \in 1..2 * Len(text) |-> Send(text[(k + 1) \div 2], 1)[IF k % 2 = 1 THEN 1 ELSE 2]]

\* begin: three times 0x3 to find the eight-bit mode from wherever the controller
\* is, then 0x2 for four bits.
WakeUpTwice == << <<0, 3>>, <<0, 3>>, <<0, 2>> >>
WakeUp == << <<0, 3>>, <<0, 3>>, <<0, 3>>, <<0, 2>> >>

Clear    == Command(LCD.clearDisplay)
Home     == Command(LCD.returnHome)
Display  == Command(LCD.displayControl + LCD.displayOn)
Function == Command(LCD.functionSet + LCD.twoLine)
Entry    == Command(LCD.entryModeSet + LCD.entryLeft)
Begin    == WakeUp \o Function \o Display \o Clear \o Entry \o Home

\* display_init: begin, and the screen is cleared once more.
DisplayInit == Begin \o Clear

\* _pad: a text cut to the columns, or filled up with blanks.
Padded(text) == [i \in 1..Columns |-> IF i <= Len(text) THEN text[i] ELSE Blank]
Pad(row, text) == SetCursor(0, row) \o Characters(Padded(text))

Sign(up, dn) == <<IF up THEN 94 ELSE Blank, IF dn THEN 118 ELSE Blank>>

LC_Init ==
  /\ lcd = PowerOn
  /\ todo = DisplayInit
  /\ want = Empty
  /\ intact = TRUE
  /\ used = [shows |-> 0, resets |-> 0, glitches |-> 0]

Counts(what, max) == used[what] < max /\ used' = [used EXCEPT ![what] = @ + 1]

\* display_show_2line, display_show_status, the prompts: both rows.
ShowMessage(m) ==
  /\ todo = <<>>
  /\ Counts("shows", MaxShows)
  /\ todo' = Pad(0, m[1]) \o Pad(1, m[2])
  /\ want' = [cell \in Cells |-> Padded(m[cell[1] + 1])[cell[2] + 1]]
  /\ UNCHANGED <<lcd, intact>>

\* display_set_sync_indicators: the last two columns of the first row.
SyncIndicators(up, dn) ==
  /\ todo = <<>>
  /\ Counts("shows", MaxShows)
  /\ todo' = SetCursor(Columns - 2, 0) \o Send(Sign(up, dn)[1], 1)
                \o SetCursor(Columns - 1, 0) \o Send(Sign(up, dn)[2], 1)
  /\ want' = [want EXCEPT ![<<0, Columns - 2>>] = Sign(up, dn)[1],
                          ![<<0, Columns - 1>>] = Sign(up, dn)[2]]
  /\ UNCHANGED <<lcd, intact>>

\* run_ui_refresh: whether a line went up or came down a moment ago.
RunUiRefresh == \E up, dn \in BOOLEAN : SyncIndicators(up, dn)

Nibble ==
  /\ todo # <<>>
  /\ lcd' = Latched(lcd, Head(todo))
  /\ todo' = Tail(todo)
  /\ UNCHANGED <<want, intact, used>>

\* One of the three I2C writes of a nibble fails, and nobody looks at the result
\* of endTransmission: no enable pulse, or one that ends with the next nibble on
\* the lines.
NibbleSpoilt ==
  /\ todo # <<>>
  /\ Counts("glitches", MaxGlitches)
  /\ \/ UNCHANGED lcd
     \/ Len(todo) > 1 /\ lcd' = Latched(lcd, todo[2])
  /\ todo' = Tail(todo)
  /\ intact' = FALSE
  /\ UNCHANGED want

\* The display's supply dips: the controller starts anew and nobody notices.
LcdPowerDip ==
  /\ Counts("glitches", MaxGlitches)
  /\ lcd' = PowerOn
  /\ intact' = FALSE
  /\ UNCHANGED <<todo, want>>

\* The terminal restarts, between any two nibbles; the display keeps its state.
Restart ==
  /\ Counts("resets", MaxResets)
  /\ todo' = DisplayInit
  /\ want' = Empty
  /\ intact' = TRUE
  /\ UNCHANGED lcd

-----------------------------------------------------------------------------
LC_Next ==
  \/ Nibble \/ NibbleSpoilt \/ LcdPowerDip \/ Restart
  \/ \E m \in Messages : ShowMessage(m)
  \/ RunUiRefresh

LC_Spec == LC_Init /\ [][LC_Next]_LC_vars

-----------------------------------------------------------------------------
(* Property.                                                               *)

\* If the wires have been fine since the terminal started, the screen shows what
\* the program asked for, whatever state the start found the display in: half a
\* byte off, shifted, switched off or waiting for eight bits (begin, send, _pad).
Shown ==
  todo = <<>> /\ intact =>
    /\ ~lcd.wide /\ lcd.held = NoNibble
    /\ lcd.twoLines /\ lcd.on /\ ~lcd.shifted
    /\ lcd.cells = want

=============================================================================
