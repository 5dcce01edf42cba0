---------------------------- MODULE PolicyFiles ----------------------------
(***************************************************************************)
(* The policy lists on flash (wl.dat, bl.dat, drv.dat, adm.dat) and the    *)
(* fare: Core 1 rewrites them entry by entry as downlink commands arrive   *)
(* (sync_process_downlink, lib/storage), Core 0 looks cards up in them one *)
(* list at a time (lib/auth), and power may go at any point.               *)
(*                                                                         *)
(* A step is one critical section of the storage mutex, except that the    *)
(* rewrite of a list holds the mutex over three steps: the copy to the     *)
(* temporary file, the remove and the rename.                              *)
(*                                                                         *)
(* Simplifications:                                                        *)
(*  - a downlink is the list of its commands, each with the fields that    *)
(*    the parser finds in it; unknown lists and actions are left out, and  *)
(*    so is a message without commands, which changes nothing;             *)
(*  - sync, offline count and log space of a tap are left to TxLedger and  *)
(*    Terminal, the states of the terminal too, but for the cold sync;     *)
(*  - a refused lock and a missing headroom are one fault, "lock"; an open *)
(*    or a rename that fails is not modelled.                              *)
(***************************************************************************)
EXTENDS Naturals, Sequences, FiniteSets

CONSTANTS
  Cards,        \* the cards, by UID
  Pins,         \* the PINs that staff may have or type
  NoPin,        \* an entry "UID" without ",PIN"
  Absent,       \* the value of a card that a list has no entry for
  NoFile,       \* a list that is not there
  NoCard,       \* no card is being processed
  Fares,        \* amounts of SYS:FARE, and 0
  DefaultFare,  \* DEFAULT_FARE_AMOUNT
  Seed,         \* the lists the terminal was delivered with
  Downlinks,    \* the messages the backend may send
  Faults,       \* the kinds of fault that may happen
  MaxDownlinks, \* bound: messages sent
  MaxFaults     \* bound: faults in a behaviour

Lists == {"WL", "BL", "DR", "AD"}
Entry == [uid : Cards, pin : Pins \cup {NoPin}]
Edit  == [act : {"ADD", "REM"}, list : Lists, entry : Entry]

\* No card has two entries.
OneEach(file) == \A i, j \in DOMAIN file : file[i].uid = file[j].uid => i = j

ASSUME PolicyAssumption ==
  /\ NoPin \notin Pins /\ Absent \notin Pins \cup {NoPin}
  /\ NoFile \notin Seq(Entry) /\ NoCard \notin Cards
  /\ Fares \subseteq Nat /\ 0 \in Fares /\ DefaultFare \in Fares \ {0}
  /\ Seed \in [Lists -> Seq(Entry)] /\ \A l \in Lists : OneEach(Seed[l])
  /\ \A m \in Downlinks :
       \/ m \in [kind : {"list", "edits"}, edits : Seq(Edit) \ {<<>>}]
       \/ m \in [kind : {"fare"}, amount : Fares]
  /\ Faults \subseteq {"lock", "power", "tear", "short"}
  /\ MaxDownlinks \in Nat /\ MaxFaults \in Nat

VARIABLES
  \* flash
  files,     \* the four lists, each a sequence of entries or NoFile
  tempFile,  \* what the temporary file holds
  fare,      \* the amount in syscfg.dat
  powered,
  \* Core 1
  pc1, todo, batch,
  \* Core 0
  pc0, card, role, typed, cold, outcome, charged,
  \* history: the program keeps none of these
  told,      \* each list as the commands carried out describe it
  seen,      \* what told said of the card since its lookup began
  fareSeen,  \* the fares since the lookup began, the default after a refused lock
  unfilled,  \* lists lost to a torn rewrite and not written since
  lossy,     \* a rewrite was torn, or its copy cut short
  sent, faults

flash   == <<files, tempFile, fare>>
core1   == <<pc1, todo, batch>>
core0   == <<pc0, card, role, typed, cold, outcome, charged>>
seens   == <<seen, fareSeen>>
history == <<told, seens, unfilled, lossy>>
bounds  == <<sent, faults>>
vars    == <<flash, powered, core1, core0, history, bounds>>

Core0Pcs == {"idle", "wl", "bl", "fare", "driver", "admin", "prompt", "pin", "colddr"}
Core1Pcs == {"idle", "fare", "ingest", "entry", "edit", "remove", "rename"}
Outcomes == {"none", "accepted", "invalid", "blocked", "error", "notstaff",
             "loggedin", "wrongpin", "autherror"}
Values   == Pins \cup {NoPin, Absent}

\* Types; a rewrite under way has a command, and a lookup has a card.
TypeOK ==
  /\ files \in [Lists -> Seq(Entry) \cup {NoFile}] /\ tempFile \in Seq(Entry)
  /\ fare \in Fares /\ powered \in BOOLEAN
  /\ pc1 \in Core1Pcs /\ todo \in Seq(Edit) /\ batch \in BOOLEAN
  /\ pc0 \in Core0Pcs /\ card \in Cards \cup {NoCard} /\ role \in Lists
  /\ typed \in Pins \cup {NoPin}
  /\ cold \in BOOLEAN /\ outcome \in Outcomes /\ charged \in Fares
  /\ told \in [Lists -> [Cards -> Values]]
  /\ seen \in [Lists -> SUBSET Values] /\ fareSeen \subseteq Fares
  /\ unfilled \subseteq Lists /\ lossy \in BOOLEAN
  /\ sent \in Nat /\ faults \in Nat
  /\ pc1 \in {"entry", "edit", "remove", "rename"} => todo # <<>>
  /\ pc0 \notin {"idle", "colddr"} => card # NoCard

\* The environment's budget: a fault of this kind may happen here.
Fault(kind) == kind \in Faults /\ faults < MaxFaults /\ faults' = faults + 1

---------------------------------------------------------------------------
\* What lib/storage computes from the text of a list.

HasUid(file, u) == \E i \in DOMAIN file : file[i].uid = u

\* The first entry of the card decides.
FirstOf(positions) == CHOOSE i \in positions : \A j \in positions : i <= j

ValueOf(file, u) ==
  IF HasUid(file, u) THEN file[FirstOf({i \in DOMAIN file : file[i].uid = u})].pin ELSE Absent

\* A PIN lookup passes over entries without a comma.
PinOf(file, u) ==
  LET withPin == {i \in DOMAIN file : file[i].uid = u /\ file[i].pin # NoPin}
  IN  IF withPin # {} THEN file[FirstOf(withPin)].pin ELSE NoPin

\* A mutant: entries are appended, an older one of the card stays.
UpsertedAtEnd(file, e) == Append(file, e)

Upserted(file, e) ==
  IF HasUid(file, e.uid)
    THEN [i \in DOMAIN file |-> IF file[i].uid = e.uid THEN e ELSE file[i]]
    ELSE Append(file, e)

\* The entries of the other cards, in their order.
Others(file, u) == {i \in DOMAIN file : file[i].uid # u}
Rank(kept, i)   == Cardinality({j \in kept : j <= i})

Removed(file, u) ==
  LET kept == Others(file, u)
  IN  [k \in 1 .. Cardinality(kept) |-> file[CHOOSE i \in kept : Rank(kept, i) = k]]

\* A mutant: the temporary file is opened to append.
RewrittenOnTop(file, edit) ==
  tempFile \o IF edit.act = "ADD" THEN Upserted(file, edit.entry)
              ELSE Removed(file, edit.entry.uid)

Rewritten(file, edit) ==
  IF edit.act = "ADD" THEN Upserted(file, edit.entry) ELSE Removed(file, edit.entry.uid)

\* SYS lists carry "UID,PIN"; an ADD command keeps the 8 characters of the UID.
Parsed(m) ==
  IF m.kind = "list" THEN m.edits
  ELSE [i \in DOMAIN m.edits |-> [m.edits[i] EXCEPT !.entry.pin = NoPin]]

Table(file) == [u \in Cards |-> ValueOf(file, u)]
NoEntries   == [u \in Cards |-> Absent]

\* A list that cannot be opened has no entries.
Opened(l) == IF files[l] = NoFile THEN <<>> ELSE files[l]

\* Empty or missing: all that storage_get_file_size tells.
IsEmpty(l) == Opened(l) = <<>>

---------------------------------------------------------------------------
\* Boot and power.

\* A mutant: the cold-start guard looks at the whitelist only.
ColdStartWl(f) == f["WL"] = <<>>

ColdStart(f) == f["WL"] = <<>> \/ f["DR"] = <<>>

Init ==
  /\ files = Seed /\ tempFile = <<>> /\ fare = DefaultFare /\ powered = TRUE
  /\ pc1 = "idle" /\ todo = <<>> /\ batch = FALSE
  /\ pc0 = "idle" /\ card = NoCard /\ role = "DR" /\ typed = NoPin
  /\ cold = ColdStart(Seed) /\ outcome = "none" /\ charged = 0
  /\ told = [l \in Lists |-> Table(Seed[l])]
  /\ seen = [l \in Lists |-> {}] /\ fareSeen = {}
  /\ unfilled = {} /\ lossy = FALSE
  /\ sent = 0 /\ faults = 0

\* Only a loss between the remove and the rename takes a list with it.
PowerLoss ==
  /\ powered
  /\ IF pc1 = "rename"
       THEN /\ Fault("tear")
            /\ lossy' = TRUE /\ unfilled' = unfilled \cup {Head(todo).list}
       ELSE Fault("power") /\ UNCHANGED <<lossy, unfilled>>
  /\ powered' = FALSE
  /\ pc1' = "idle" /\ todo' = <<>> /\ batch' = FALSE
  /\ pc0' = "idle" /\ card' = NoCard /\ typed' = NoPin /\ outcome' = "none"
  /\ charged' = 0
  /\ UNCHANGED <<flash, role, cold, told, seens, sent>>

Boot ==
  /\ ~powered
  /\ powered' = TRUE
  /\ files' = [l \in Lists |-> Opened(l)]
  /\ fare' = IF fare = 0 THEN DefaultFare ELSE fare
  /\ cold' = ColdStart(files')
  /\ UNCHANGED <<tempFile, core1, pc0, card, role, typed, outcome, charged,
                 history, bounds>>

---------------------------------------------------------------------------
\* Core 1: the downlink.

\* A mutant: lookups that do not take the mutex.
NoMutex == TRUE

\* Core 1 has the mutex over a rewrite, and over all the rewrites of a SYS list.
LockFree == pc1 \notin {"entry", "remove", "rename"}

\* A command finds no lock within three seconds, or no headroom on the flash.
Refused == Fault("lock")

Core1At(pc) == powered /\ pc1 = pc
Core1Only   == UNCHANGED <<powered, core0, fareSeen>>
NoListWritten == UNCHANGED <<files, told, seen, unfilled>>

Downlink(m) ==
  /\ Core1At("idle") /\ sent < MaxDownlinks
  /\ sent' = sent + 1
  /\ \/ /\ m.kind = "list" /\ pc1' = "ingest"
        /\ todo' = Parsed(m) /\ batch' = TRUE
     \/ /\ m.kind = "edits" /\ pc1' = "edit"
        /\ todo' = Parsed(m) /\ batch' = FALSE
  /\ Core1Only /\ NoListWritten /\ UNCHANGED <<tempFile, fare, lossy, faults>>

SetFare(m) ==
  /\ Core1At("idle") /\ m.kind = "fare" /\ sent < MaxDownlinks
  /\ sent' = sent + 1
  /\ \/ /\ LockFree /\ fare' = m.amount
        /\ fareSeen' = fareSeen \cup {m.amount} /\ UNCHANGED faults
     \/ Refused /\ UNCHANGED <<fare, fareSeen>>
  /\ NoListWritten /\ UNCHANGED <<powered, core0, core1, tempFile, lossy>>

\* One lock for the whole list, and nothing of it if that is refused.
TakeBatchLock ==
  /\ Core1At("ingest")
  /\ \/ pc1' = "entry" /\ UNCHANGED <<todo, faults>>
     \/ Refused /\ pc1' = "idle" /\ todo' = <<>>
  /\ Core1Only /\ NoListWritten /\ UNCHANGED <<tempFile, fare, batch, lossy, sent>>

\* A mutant: the end of the commands is not seen.
NextEditAlways ==
  /\ todo' = Tail(todo)
  /\ pc1' = IF batch THEN "entry" ELSE "edit"

\* The command at the head is done or dropped: the next one.
NextEdit ==
  /\ todo' = Tail(todo)
  /\ pc1' = IF Tail(todo) = <<>> THEN "idle" ELSE IF batch THEN "entry" ELSE "edit"

\* The list is copied with the change to the temporary file, which is created
\* anew.  The writes of the copy are not checked.
Copy ==
  /\ powered /\ pc1 \in {"entry", "edit"}
  /\ LET edit == Head(todo)
         full == Rewritten(Opened(edit.list), edit)
     IN  \/ tempFile' = full /\ UNCHANGED <<lossy, faults>>
         \/ /\ Fault("short") /\ full # <<>>
            /\ tempFile' = SubSeq(full, 1, Len(full) - 1)
            /\ lossy' = TRUE
  /\ pc1' = "remove"
  /\ Core1Only /\ NoListWritten /\ UNCHANGED <<fare, todo, batch, sent>>

EditRefused ==
  /\ Core1At("edit") /\ Refused
  /\ NextEdit
  /\ Core1Only /\ NoListWritten /\ UNCHANGED <<tempFile, fare, batch, lossy, sent>>

\* From here on lookups can only find the new list: the command counts as
\* carried out.
Remove ==
  /\ Core1At("remove")
  /\ LET edit == Head(todo)
         l    == edit.list
         u    == edit.entry.uid
         v    == IF edit.act = "ADD" THEN edit.entry.pin ELSE Absent
     IN  /\ files' = [files EXCEPT ![l] = NoFile]
         /\ told' = [told EXCEPT ![l][u] = v]
         /\ seen' = IF u = card THEN [seen EXCEPT ![l] = @ \cup {v}] ELSE seen
         /\ unfilled' = IF edit.act = "ADD" THEN unfilled \ {l} ELSE unfilled
  /\ pc1' = "rename"
  /\ Core1Only /\ UNCHANGED <<tempFile, fare, todo, batch, lossy, bounds>>

Rename ==
  /\ Core1At("rename")
  /\ files' = [files EXCEPT ![Head(todo).list] = tempFile]
  /\ NextEdit
  /\ Core1Only
  /\ UNCHANGED <<tempFile, fare, batch, told, seen, unfilled, lossy, bounds>>

---------------------------------------------------------------------------
\* Core 0: lookups.

Core0At(pc) == powered /\ pc0 = pc
Core0Only   == UNCHANGED <<flash, powered, core1, told, unfilled, lossy, sent>>

\* A lookup starts: remember what the lists say from here on.
Watch(u) ==
  /\ seen' = [l \in Lists |-> {told[l][u]}]
  /\ fareSeen' = {fare}

\* A lookup of one list: what it finds, or a lock refused.
Lookup(from, found, missing, error) ==
  /\ Core0At(from)
  /\ \/ LockFree /\ found /\ UNCHANGED faults
     \/ LockFree /\ missing /\ UNCHANGED faults
     \/ Fault("lock") /\ error
  /\ Core0Only /\ UNCHANGED <<typed, cold, seens>>

Show(o) == pc0' = "idle" /\ outcome' = o /\ UNCHANGED <<card, role, charged>>
Go(pc)  == pc0' = pc /\ UNCHANGED <<card, role, outcome, charged>>

TapCard(u, pc) ==
  /\ Core0At("idle") /\ ~cold
  /\ pc0' = pc /\ card' = u /\ outcome' = "none" /\ charged' = 0 /\ typed' = NoPin
  /\ Watch(u)
  /\ Core0Only /\ UNCHANGED <<role, cold, faults>>

RiderTap(u) == TapCard(u, "wl")
StaffTap(u) == TapCard(u, "driver")

\* The whitelist, then the blacklist, each in a section of its own.
CheckWhitelist ==
  Lookup("wl", HasUid(Opened("WL"), card) /\ Go("bl"),
               ~HasUid(Opened("WL"), card) /\ Show("invalid"),
               Show("error"))

CheckBlacklist ==
  Lookup("bl", HasUid(Opened("BL"), card) /\ Show("blocked"),
               ~HasUid(Opened("BL"), card) /\ Go("fare"),
               Show("error"))

\* The default on a refused lock.
ReadFare ==
  /\ Core0At("fare")
  /\ \/ LockFree /\ charged' = fare /\ UNCHANGED <<faults, fareSeen>>
     \/ Fault("lock") /\ charged' = DefaultFare /\ fareSeen' = fareSeen \cup {DefaultFare}
  /\ pc0' = "idle" /\ outcome' = "accepted"
  /\ Core0Only /\ UNCHANGED <<card, role, typed, cold, seen>>

\* drv.dat first; a refused lock there still tries adm.dat, and only spoils a
\* "not staff".
CheckDriver ==
  Lookup("driver", HasUid(Opened("DR"), card) /\ role' = "DR" /\ pc0' = "prompt"
                     /\ UNCHANGED <<card, outcome, charged>>,
                   ~HasUid(Opened("DR"), card) /\ Go("admin"),
                   pc0' = "admin" /\ outcome' = "error" /\ UNCHANGED <<card, role, charged>>)

CheckAdmin ==
  Lookup("admin", HasUid(Opened("AD"), card) /\ role' = "AD" /\ pc0' = "prompt"
                    /\ outcome' = "none" /\ UNCHANGED <<card, charged>>,
                  /\ ~HasUid(Opened("AD"), card)
                  /\ Show(IF outcome = "error" THEN "error" ELSE "notstaff"),
                  Show("error"))

\* The PIN is typed, however long that takes; from here on it counts what the
\* list says.
TypePin(p) ==
  /\ Core0At("prompt")
  /\ typed' = p /\ pc0' = "pin" /\ Watch(card)
  /\ Core0Only /\ UNCHANGED <<card, role, cold, outcome, charged, faults>>

CancelPin ==
  /\ Core0At("prompt")
  /\ pc0' = "idle"
  /\ Core0Only /\ UNCHANGED <<card, role, typed, cold, outcome, charged, seens, faults>>

\* A mutant: the PIN is looked up in adm.dat whatever the role.
VerifyPinInAdmins ==
  LET stored == PinOf(Opened("AD"), card)
  IN  Lookup("pin", /\ stored # NoPin
                    /\ Show(IF stored = typed THEN "loggedin" ELSE "wrongpin"),
                    stored = NoPin /\ Show("autherror"),
                    Show("autherror"))

\* An entry without a PIN is not a wrong PIN but an error.
VerifyPin ==
  LET stored == PinOf(Opened(role), card)
  IN  Lookup("pin", /\ stored # NoPin
                    /\ Show(IF stored = typed THEN "loggedin" ELSE "wrongpin"),
                    stored = NoPin /\ Show("autherror"),
                    Show("autherror"))

\* The end of the cold sync: two sizes, read one after the other and without
\* the mutex.
CheckColdWl ==
  /\ Core0At("idle") /\ cold /\ ~IsEmpty("WL")
  /\ pc0' = "colddr"
  /\ Core0Only /\ UNCHANGED <<card, role, typed, cold, outcome, charged, seens, faults>>

CheckColdDr ==
  /\ Core0At("colddr")
  /\ pc0' = "idle" /\ cold' = IsEmpty("DR")
  /\ Core0Only /\ UNCHANGED <<card, role, typed, outcome, charged, seens, faults>>

---------------------------------------------------------------------------
Core1 == TakeBatchLock \/ Copy \/ EditRefused \/ Remove \/ Rename

Core0 ==
  \/ CheckWhitelist \/ CheckBlacklist \/ ReadFare
  \/ CheckDriver \/ CheckAdmin \/ VerifyPin
  \/ CheckColdWl \/ CheckColdDr

Backend == \E m \in Downlinks : Downlink(m) \/ SetFare(m)

Person ==
  \/ \E u \in Cards : RiderTap(u) \/ StaffTap(u)
  \/ \E p \in Pins : TypePin(p)
  \/ CancelPin

Next == Core1 \/ Core0 \/ Backend \/ Person \/ PowerLoss \/ Boot

Spec == Init /\ [][Next]_vars

---------------------------------------------------------------------------
\* Properties.

\* What a list holds for the next lookup: between the remove and the rename of
\* a rewrite that is the temporary file.
Current(l) == IF powered /\ files[l] = NoFile THEN tempFile ELSE Opened(l)

\* At no time does a list have two entries of one card: a second one would
\* survive a change of the first (_upsert_uid_entry), and a PIN that was
\* replaced would still log in.
OneEntryPerCard == \A l \in Lists : OneEach(Current(l))

\* Unless a rewrite was torn or cut short, the file says of every card what
\* the commands carried out say, whatever was refused and wherever power was
\* lost: revoked cards stay revoked, and no other card is disturbed, though all
\* lists are rewritten through one temporary file.
ListsAsTold == ~lossy => \A l \in Lists : Table(Current(l)) = told[l]

\* A rider's verdict (auth_validate_tap, transaction_record) is one that the
\* lists gave at some time since the card was tapped: no card is refused or
\* passed because a rewrite was under way, and the amount is the fare of
\* that time, or the default if the lock was refused.
VerdictIsCurrent ==
  ~lossy =>
    /\ outcome = "accepted" => /\ seen["WL"] # {Absent} /\ Absent \in seen["BL"]
                              /\ charged \in fareSeen
    /\ outcome = "invalid" => Absent \in seen["WL"]
    /\ outcome = "blocked" => seen["BL"] # {Absent}

\* A login (auth_check_staff_uid, auth_verify_pin) goes by what the list says
\* after the PIN was typed: a PIN changed, or a card removed, while the prompt
\* waited does not log in.  A wrong PIN and "not staff" are not due to a
\* rewrite either.
LoginIsCurrent ==
  ~lossy =>
    /\ outcome = "loggedin" => typed \in seen[role]
    /\ outcome = "wrongpin" => seen[role] \cap (Pins \ {typed}) # {}
    /\ outcome = "autherror" /\ faults = 0 => seen[role] \cap {NoPin, Absent} # {}
    /\ outcome = "notstaff" => Absent \in seen["DR"] /\ Absent \in seen["AD"]

\* A whitelist or a list of drivers lost to a torn rewrite is noticed: the
\* terminal serves nobody until the backend has written to it (cold-start
\* guard of setup, cold sync check of rfid_ui_task).  The blacklist has no
\* such guard.
LostListHoldsService ==
  powered /\ unfilled \cap {"WL", "DR"} # {} => cold
=============================================================================
