-------------------------- MODULE PolicyFilesProofs --------------------------
(***************************************************************************)
(* Theorems of PolicyFiles, all from one inductive invariant, PolicyInv:   *)
(* no list has a card twice, every list says what the commands carried     *)
(* out say, a verdict on a card or a PIN is one that was right while the   *)
(* card was looked up, and a lost whitelist or list of drivers keeps the   *)
(* terminal from serving.                                                  *)
(***************************************************************************)
EXTENDS PolicyFiles, SequenceTheorems, FunctionTheorems, FiniteSetTheorems, TLAPS

Rewriting == {"ingest", "entry", "edit", "remove", "rename"}

\* The commands under way, and the list that the first of them changes.
TodoInv ==
  /\ todo \in Seq(Edit) /\ pc1 \in Core1Pcs
  /\ pc1 \in Rewriting => powered /\ todo # <<>>
  /\ DOMAIN files = Lists
  /\ pc1 = "rename" => files[Head(todo).list] = NoFile

\* A list that was lost and not written since is empty, and stays so unless a
\* command adds to it.
EmptyInv ==
  /\ unfilled \subseteq Lists
  /\ \A l \in unfilled : Opened(l) = <<>>
  /\ pc1 \in {"remove", "rename"} /\ Head(todo).list \in unfilled =>
       Head(todo).act = "ADD" \/ tempFile = <<>>
  /\ pc1 = "rename" /\ Head(todo).act = "ADD" => Head(todo).list \notin unfilled

\* The cold sync ends only when both lists have something in them.
LostInv ==
  /\ TodoInv
  /\ EmptyInv
  /\ LostListHoldsService
  /\ pc0 = "colddr" => "WL" \notin unfilled

---------------------------------------------------------------------------
(* What the operators on the text of a list return. *)

\* The ranks number the positions that are kept, without gaps.
LEMMA RanksNumber ==
  ASSUME NEW n \in Nat, NEW kept \in SUBSET (1 .. n)
  PROVE  /\ Cardinality(kept) \in Nat
         /\ \A i \in kept : Rank(kept, i) \in 1 .. Cardinality(kept)
         /\ \A i, j \in kept : Rank(kept, i) = Rank(kept, j) => i = j
         /\ \A k \in 1 .. Cardinality(kept) : \E i \in kept : Rank(kept, i) = k
<1> DEFINE upTo(i) == {j \in kept : j <= i}
           f == [i \in kept |-> Rank(kept, i)]
<1>1. IsFiniteSet(kept)
  <2>1. IsFiniteSet(1 .. n)
    BY FS_Interval
  <2>2. QED
    BY <2>1, FS_Subset
<1>2. Cardinality(kept) \in Nat
  BY <1>1, FS_CardinalityType
<1>3. \A i \in kept : /\ IsFiniteSet(upTo(i)) /\ Rank(kept, i) \in Nat
                      /\ Rank(kept, i) <= Cardinality(kept)
  <2> TAKE i \in kept
  <2>1. upTo(i) \in SUBSET kept
    OBVIOUS
  <2>2. IsFiniteSet(upTo(i)) /\ Cardinality(upTo(i)) <= Cardinality(kept)
    BY <1>1, <2>1, FS_Subset
  <2>3. Cardinality(upTo(i)) \in Nat
    BY <2>2, FS_CardinalityType
  <2>4. QED
    BY <2>2, <2>3 DEF Rank
<1>4. \A i \in kept : Rank(kept, i) # 0
  <2> TAKE i \in kept
  <2>1. i \in upTo(i)
    OBVIOUS
  <2>2. Cardinality(upTo(i)) # 0
    BY <1>3, <2>1, FS_EmptySet
  <2>3. QED
    BY <2>2 DEF Rank
<1>5. \A i \in kept : Rank(kept, i) \in 1 .. Cardinality(kept)
  <2> TAKE i \in kept
  <2>1. /\ Rank(kept, i) \in Nat /\ Rank(kept, i) # 0
        /\ Rank(kept, i) <= Cardinality(kept)
    BY <1>3, <1>4
  <2>2. QED
    BY <1>2, <2>1
<1>6. \A i, j \in kept : i < j => Rank(kept, i) # Rank(kept, j)
  <2> TAKE i, j \in kept
  <2> HAVE i < j
  <2>1. upTo(i) \in SUBSET upTo(j) /\ j \in upTo(j) /\ j \notin upTo(i)
    <3>1. i \in Nat /\ j \in Nat /\ \A k \in kept : k \in Nat
      OBVIOUS
    <3>2. \A k \in upTo(i) : k \in upTo(j)
      BY <3>1
    <3>3. j \in upTo(j)
      BY <3>1
    <3>4. j \notin upTo(i)
      BY <3>1
    <3>5. QED
      BY <3>2, <3>3, <3>4
  <2>2. Cardinality(upTo(j)) # Cardinality(upTo(i))
    BY <1>3, <2>1, FS_Subset
  <2>3. QED
    BY <2>2 DEF Rank
<1>7. \A i, j \in kept : Rank(kept, i) = Rank(kept, j) => i = j
  <2>1. \A i, j \in kept : i < j \/ j < i \/ i = j
    OBVIOUS
  <2>2. QED
    BY <1>6, <2>1
<1>8. \A k \in 1 .. Cardinality(kept) : \E i \in kept : Rank(kept, i) = k
  <2>1. f \in [kept -> 1 .. Cardinality(kept)]
    BY <1>5
  <2>2. f \in Injection(kept, 1 .. Cardinality(kept))
    BY <1>7, <2>1 DEF Injection, IsInjective
  <2>3. /\ IsFiniteSet(1 .. Cardinality(kept))
        /\ Cardinality(1 .. Cardinality(kept)) = Cardinality(kept)
    BY <1>2, FS_Interval
  <2>4. f \in Surjection(kept, 1 .. Cardinality(kept))
    BY <2>2, <2>3, FS_Injection
  <2>5. QED
    BY <2>4 DEF Surjection
<1>9. QED
  BY <1>2, <1>5, <1>7, <1>8

\* What is left after a removal: the entries of the other cards, each once.
LEMMA RemovedFacts ==
  ASSUME NEW file \in Seq(Entry), NEW u
  PROVE  /\ Removed(file, u) \in Seq(Entry)
         /\ \A k \in DOMAIN Removed(file, u) :
              \E i \in Others(file, u) : Removed(file, u)[k] = file[i]
         /\ \A i \in Others(file, u) :
              \E k \in DOMAIN Removed(file, u) : Removed(file, u)[k] = file[i]
         /\ OneEach(file) => OneEach(Removed(file, u))
<1> DEFINE kept == Others(file, u)
           n == Cardinality(kept)
           from(k) == CHOOSE i \in kept : Rank(kept, i) = k
           rest == [k \in 1 .. n |-> file[from(k)]]
<1>1. Removed(file, u) = rest
  BY DEF Removed
<1>2. kept \in SUBSET (1 .. Len(file)) /\ Len(file) \in Nat
  BY LenProperties DEF Others
<1> HIDE DEF kept
<1>3. /\ n \in Nat
      /\ \A i \in kept : Rank(kept, i) \in 1 .. n
      /\ \A i, j \in kept : Rank(kept, i) = Rank(kept, j) => i = j
      /\ \A k \in 1 .. n : \E i \in kept : Rank(kept, i) = k
  BY <1>2, RanksNumber
<1> HIDE DEF n
<1>4. \A k \in 1 .. n : from(k) \in kept /\ Rank(kept, from(k)) = k
  BY <1>3
<1>5. \A i \in kept : Rank(kept, i) \in 1 .. n /\ from(Rank(kept, i)) = i
  BY <1>3, <1>4
<1> HIDE DEF from
<1>6. \A k \in 1 .. n : rest[k] = file[from(k)] /\ rest[k] \in Entry
  BY <1>2, <1>4, ElementOfSeq
<1>7. rest \in Seq(Entry) /\ DOMAIN rest = 1 .. n
  <2>1. rest \in [1 .. n -> Entry]
    BY <1>6
  <2>2. QED
    BY <1>3, <2>1
<1>8. ASSUME OneEach(file), NEW k \in 1 .. n, NEW l \in 1 .. n, rest[k].uid = rest[l].uid
      PROVE  k = l
  <2>1. from(k) \in DOMAIN file /\ from(l) \in DOMAIN file
    BY <1>2, <1>4, LenProperties
  <2>2. from(k) = from(l)
    BY <1>6, <1>8, <2>1 DEF OneEach
  <2>3. QED
    BY <1>4, <2>2
<1>9. OneEach(file) => OneEach(rest)
  BY <1>7, <1>8 DEF OneEach
<1>10. \A k \in DOMAIN rest : \E i \in kept : rest[k] = file[i]
  BY <1>4, <1>6, <1>7
<1>11. \A i \in kept : \E k \in DOMAIN rest : rest[k] = file[i]
  BY <1>5, <1>6, <1>7
<1>12. QED
  BY <1>1, <1>7, <1>9, <1>10, <1>11 DEF kept

\* With one entry per card, the value of a card is what its entry says.
LEMMA ValueOfEntry ==
  ASSUME NEW file \in Seq(Entry), OneEach(file), NEW i \in DOMAIN file
  PROVE  /\ ValueOf(file, file[i].uid) = file[i].pin
         /\ file[i].pin # NoPin => PinOf(file, file[i].uid) = file[i].pin
         /\ file[i].pin = NoPin => PinOf(file, file[i].uid) = NoPin
<1> DEFINE u == file[i].uid
<1>1. i \in Nat
  BY LenProperties
<1>2. FirstOf({i}) = i
  BY <1>1 DEF FirstOf
<1>3. {j \in DOMAIN file : file[j].uid = u} = {i}
  BY DEF OneEach
<1>4. HasUid(file, u)
  BY DEF HasUid
<1>5. ValueOf(file, u) = file[i].pin
  BY <1>2, <1>3, <1>4 DEF ValueOf
<1>6. {j \in DOMAIN file : file[j].uid = u /\ file[j].pin # NoPin}
        = IF file[i].pin # NoPin THEN {i} ELSE {}
  BY DEF OneEach
<1>7. PinOf(file, u) = IF file[i].pin # NoPin THEN file[i].pin ELSE NoPin
  BY <1>2, <1>6 DEF PinOf
<1>8. QED
  BY <1>5, <1>7

\* A card is listed if and only if it has a value.
LEMMA ListedHasValue ==
  ASSUME NEW file \in Seq(Entry), OneEach(file), NEW u
  PROVE  /\ HasUid(file, u) <=> ValueOf(file, u) # Absent
         /\ HasUid(file, u) => ValueOf(file, u) \in Pins \cup {NoPin}
         /\ PinOf(file, u) = IF ValueOf(file, u) \in Pins THEN ValueOf(file, u) ELSE NoPin
<1>1. CASE HasUid(file, u)
  <2>1. PICK i \in DOMAIN file : file[i].uid = u
    BY <1>1 DEF HasUid
  <2>2. file[i] \in Entry
    BY ElementOfSeq, LenProperties
  <2>3. ValueOf(file, u) = file[i].pin /\ file[i].pin \in Pins \cup {NoPin}
    BY <2>1, <2>2, ValueOfEntry DEF Entry
  <2>4. file[i].pin # Absent /\ NoPin \notin Pins
    BY <2>3, PolicyAssumption
  <2>5. PinOf(file, u) = IF file[i].pin \in Pins THEN file[i].pin ELSE NoPin
    BY <2>1, <2>3, <2>4, ValueOfEntry
  <2>6. QED
    BY <1>1, <2>3, <2>4, <2>5
<1>2. CASE ~HasUid(file, u)
  <2>1. ValueOf(file, u) = Absent
    BY <1>2 DEF ValueOf
  <2>2. {j \in DOMAIN file : file[j].uid = u /\ file[j].pin # NoPin} = {}
    BY <1>2 DEF HasUid
  <2>3. PinOf(file, u) = NoPin
    BY <2>2 DEF PinOf
  <2>4. QED
    BY <1>2, <2>1, <2>3, PolicyAssumption
<1>3. QED
  BY <1>1, <1>2

LEMMA TableType ==
  ASSUME NEW file \in Seq(Entry), OneEach(file)
  PROVE  Table(file) \in [Cards -> Values]
<1>1. \A u \in Cards : ValueOf(file, u) \in Values
  BY ListedHasValue DEF Values
<1>2. QED
  BY <1>1 DEF Table

\* Taking a card out changes the value of that card only.
LEMMA RemovedTable ==
  ASSUME NEW file \in Seq(Entry), OneEach(file), NEW u \in Cards
  PROVE  Table(Removed(file, u)) = [Table(file) EXCEPT ![u] = Absent]
<1> DEFINE rest == Removed(file, u)
<1>1. /\ rest \in Seq(Entry) /\ OneEach(rest)
      /\ \A k \in DOMAIN rest : \E i \in Others(file, u) : rest[k] = file[i]
      /\ \A i \in Others(file, u) : \E k \in DOMAIN rest : rest[k] = file[i]
  BY RemovedFacts
<1> HIDE DEF rest
<1>2. ~HasUid(rest, u)
  BY <1>1 DEF HasUid, Others
<1>3. ASSUME NEW w \in Cards \ {u}
      PROVE  ValueOf(rest, w) = ValueOf(file, w)
  <2>1. CASE HasUid(file, w)
    <3>1. PICK i \in DOMAIN file : file[i].uid = w
      BY <2>1 DEF HasUid
    <3>2. PICK k \in DOMAIN rest : rest[k] = file[i]
      BY <1>1, <3>1 DEF Others
    <3>3. ValueOf(rest, w) = rest[k].pin /\ ValueOf(file, w) = file[i].pin
      BY <1>1, <3>1, <3>2, ValueOfEntry
    <3>4. QED
      BY <3>2, <3>3
  <2>2. CASE ~HasUid(file, w)
    <3>1. ~HasUid(rest, w)
      BY <1>1, <2>2 DEF HasUid, Others
    <3>2. QED
      BY <2>2, <3>1 DEF ValueOf
  <2>3. QED
    BY <2>1, <2>2
<1>4. ValueOf(rest, u) = Absent
  BY <1>2 DEF ValueOf
<1>5. Table(rest) = [Table(file) EXCEPT ![u] = Absent]
  BY <1>3, <1>4 DEF Table
<1>6. QED
  BY <1>5 DEF rest

\* Writing an entry changes the value of its card only.
LEMMA UpsertedFacts ==
  ASSUME NEW file \in Seq(Entry), OneEach(file), NEW e \in Entry
  PROVE  /\ Upserted(file, e) \in Seq(Entry) /\ Upserted(file, e) # <<>>
         /\ OneEach(Upserted(file, e))
         /\ Table(Upserted(file, e)) = [Table(file) EXCEPT ![e.uid] = e.pin]
<1> DEFINE new == Upserted(file, e)
<1>1. Len(file) \in Nat /\ DOMAIN file = 1 .. Len(file) /\ e.uid \in Cards
  BY LenProperties DEF Entry
<1>2. /\ new \in Seq(Entry) /\ new # <<>> /\ OneEach(new)
      /\ \E k \in DOMAIN new : new[k] = e
      /\ \A i \in DOMAIN file : file[i].uid # e.uid =>
           i \in DOMAIN new /\ new[i] = file[i]
      /\ \A k \in DOMAIN new : new[k] # e => k \in DOMAIN file /\ new[k] = file[k]
  <2>1. CASE HasUid(file, e.uid)
    <3>1. new = [i \in DOMAIN file |-> IF file[i].uid = e.uid THEN e ELSE file[i]]
      BY <2>1 DEF Upserted
    <3>2. \A i \in DOMAIN file : file[i] \in Entry
      BY <1>1, ElementOfSeq
    <3>3. new \in [1 .. Len(file) -> Entry]
      BY <1>1, <3>1, <3>2
    <3>4. new \in Seq(Entry) /\ DOMAIN new = DOMAIN file
      BY <1>1, <3>3
    <3>5. PICK i \in DOMAIN file : file[i].uid = e.uid
      BY <2>1 DEF HasUid
    <3>6. new # <<>>
      BY <3>4, <3>5
    <3>7. \A k \in DOMAIN file : new[k].uid = file[k].uid
      BY <3>1
    <3>8. OneEach(new)
      BY <3>4, <3>7 DEF OneEach
    <3>9. new[i] = e
      BY <3>1, <3>5
    <3> HIDE DEF new
    <3>10. QED
      BY <3>1, <3>4, <3>5, <3>6, <3>8, <3>9
  <2>2. CASE ~HasUid(file, e.uid)
    <3>1. new = Append(file, e)
      BY <2>2 DEF Upserted
    <3>2. /\ new \in Seq(Entry) /\ new # <<>> /\ Len(new) = Len(file) + 1
          /\ \A i \in 1 .. Len(file) : new[i] = file[i]
          /\ new[Len(file) + 1] = e
      BY <3>1, AppendProperties
    <3> HIDE DEF new
    <3>3. DOMAIN new = 1 .. Len(file) + 1
      BY <3>2, LenProperties
    <3>4. \A i \in DOMAIN file : file[i].uid # e.uid
      BY <2>2 DEF HasUid
    <3>5. OneEach(new)
      <4> SUFFICES ASSUME NEW j \in DOMAIN new, NEW k \in DOMAIN new, new[j].uid = new[k].uid
                   PROVE  j = k
        BY DEF OneEach
      <4>1. CASE j \in DOMAIN file /\ k \in DOMAIN file
        BY <1>1, <3>2, <4>1 DEF OneEach
      <4>2. CASE j \notin DOMAIN file \/ k \notin DOMAIN file
        BY <1>1, <3>2, <3>3, <3>4, <4>2
      <4>3. QED
        BY <4>1, <4>2
    <3>6. QED
      BY <1>1, <3>2, <3>3, <3>5
  <2>3. QED
    BY <2>1, <2>2
<1> HIDE DEF new
<1>3. ValueOf(new, e.uid) = e.pin
  BY <1>2, ValueOfEntry
<1>4. ASSUME NEW w \in Cards, w # e.uid
      PROVE  ValueOf(new, w) = ValueOf(file, w)
  <2>1. CASE HasUid(file, w)
    <3>1. PICK i \in DOMAIN file : file[i].uid = w
      BY <2>1 DEF HasUid
    <3>2. i \in DOMAIN new /\ new[i] = file[i]
      BY <1>2, <1>4, <3>1
    <3>3. QED
      BY <1>2, <3>1, <3>2, ValueOfEntry
  <2>2. CASE ~HasUid(file, w)
    <3>1. ~HasUid(new, w)
      BY <1>2, <1>4, <2>2 DEF HasUid
    <3>2. QED
      BY <2>2, <3>1 DEF ValueOf
  <2>3. QED
    BY <2>1, <2>2
<1>5. Table(new) = [Table(file) EXCEPT ![e.uid] = e.pin]
  BY <1>1, <1>3, <1>4 DEF Table
<1>6. QED
  BY <1>2, <1>5 DEF new

\* A copy cut short has one entry per card still.
LEMMA ShortenedFacts ==
  ASSUME NEW file \in Seq(Entry), file # <<>>
  PROVE  /\ SubSeq(file, 1, Len(file) - 1) \in Seq(Entry)
         /\ OneEach(file) => OneEach(SubSeq(file, 1, Len(file) - 1))
<1> DEFINE short == SubSeq(file, 1, Len(file) - 1)
<1>1. Len(file) \in Nat \ {0} /\ DOMAIN file = 1 .. Len(file)
  BY LenProperties, EmptySeq
<1>2. \A i \in 1 .. Len(file) - 1 : file[i] \in Entry
  BY <1>1, ElementOfSeq
<1>3. /\ short \in Seq(Entry) /\ Len(short) = Len(file) - 1
      /\ \A i \in 1 .. Len(file) - 1 : short[i] = file[i]
  <2> DEFINE n == Len(file) - 1
  <2>1. n \in Nat /\ short = SubSeq(file, 1, n) /\ n < Len(file)
    BY <1>1
  <2> HIDE DEF n, short
  <2>2. SubSeq(file, 1, n) \in Seq(Entry) /\ Len(SubSeq(file, 1, n)) = n
    BY <1>2, <2>1
  <2>3. \A i \in 1 .. n : SubSeq(file, 1, n)[i] = file[i]
    BY <1>1, <2>1
  <2>4. QED
    BY <2>1, <2>2, <2>3 DEF n
<1> HIDE DEF short
<1>4. DOMAIN short = 1 .. Len(file) - 1
  BY <1>3, LenProperties
<1>5. OneEach(file) => OneEach(short)
  BY <1>1, <1>3, <1>4 DEF OneEach
<1>6. QED
  BY <1>3, <1>5 DEF short

---------------------------------------------------------------------------
(* What the lists hold. *)

\* What the command at the head makes of its card.
NewValue(edit) == IF edit.act = "ADD" THEN edit.entry.pin ELSE Absent

\* A list is away only between the remove and the rename, or it is lost.
AwayInv ==
  \A l \in Lists : files[l] = NoFile =>
    IF powered THEN pc1 = "rename" /\ l = Head(todo).list ELSE lossy

OneEachInv ==
  /\ \A l \in Lists : OneEach(Opened(l))
  /\ pc1 \in {"remove", "rename"} => OneEach(tempFile)

\* The file that is to replace a list already says what the command at the
\* head will have made of it.
ToldInv ==
  ~lossy =>
    /\ \A l \in Lists : files[l] # NoFile => Table(files[l]) = told[l]
    /\ pc1 = "remove" =>
         LET edit == Head(todo)
         IN  Table(tempFile) = [told[edit.list] EXCEPT ![edit.entry.uid] = NewValue(edit)]
    /\ pc1 = "rename" => Table(tempFile) = told[Head(todo).list]

ListsInv == AwayInv /\ OneEachInv /\ ToldInv

(* What a lookup has seen. *)

Listed(l)   == seen[l] \ {Absent} # {}
Unlisted(l) == Absent \in seen[l]

\* Whatever changes while a card is looked up is noted.
WatchInv ==
  /\ card # NoCard => fare \in fareSeen /\ \A l \in Lists : told[l][card] \in seen[l]
  /\ ~powered => card = NoCard /\ outcome = "none" /\ pc0 = "idle"

\* How far the lookup has come.
ProgressInv ==
  /\ pc0 \in {"wl", "bl", "fare", "driver", "prompt", "pin"} => outcome = "none"
  /\ pc0 = "admin" => outcome \in {"none", "error"}
  /\ pc0 = "pin" => typed \in Pins
  /\ ~lossy =>
       /\ pc0 \in {"bl", "fare"} => Listed("WL")
       /\ pc0 = "fare" => Unlisted("BL")
       /\ pc0 = "admin" /\ outcome = "none" => Unlisted("DR")

\* What its end says.
OutcomeInv ==
  ~lossy =>
    /\ outcome = "accepted" => Listed("WL") /\ Unlisted("BL") /\ charged \in fareSeen
    /\ outcome = "invalid"  => Unlisted("WL")
    /\ outcome = "blocked"  => Listed("BL")
    /\ outcome = "loggedin" => typed \in seen[role]
    /\ outcome = "wrongpin" => seen[role] \cap (Pins \ {typed}) # {}
    /\ outcome = "autherror" /\ faults = 0 => seen[role] \cap {NoPin, Absent} # {}
    /\ outcome = "notstaff" => Unlisted("DR") /\ Unlisted("AD")

LookupInv == WatchInv /\ ProgressInv /\ OutcomeInv

---------------------------------------------------------------------------
LEMMA EmptyList == <<>> # NoFile
<1>1. NoFile \notin Seq(Entry)
  BY PolicyAssumption
<1>2. <<>> \in Seq(Entry)
  OBVIOUS
<1>3. QED
  BY <1>1, <1>2

\* Taking a card out of an empty list leaves it empty.
LEMMA RemovedFromEmpty == \A u : Removed(<<>>, u) = <<>>
<1> TAKE u
<1>1. Others(<<>>, u) = {}
  BY DEF Others
<1>2. Cardinality({}) = 0 /\ 1 .. 0 = {}
  BY FS_EmptySet
<1>3. Removed(<<>>, u) = [k \in {} |-> <<>>[CHOOSE i \in {} : Rank({}, i) = k]]
  BY <1>1, <1>2 DEF Removed
<1>4. QED
  BY <1>3

LEMMA ParsedEdits ==
  ASSUME NEW m \in Downlinks, m.kind \in {"list", "edits"}
  PROVE  Parsed(m) \in Seq(Edit) /\ Parsed(m) # <<>>
<1>1. m.edits \in Seq(Edit) /\ m.edits # <<>>
  BY PolicyAssumption
<1>2. CASE m.kind = "list"
  BY <1>1, <1>2 DEF Parsed
<1>3. CASE m.kind # "list"
  <2>1. Parsed(m) = [i \in DOMAIN m.edits |-> [m.edits[i] EXCEPT !.entry.pin = NoPin]]
    BY <1>3 DEF Parsed
  <2>2. DOMAIN m.edits = 1 .. Len(m.edits) /\ Len(m.edits) \in Nat /\ Len(m.edits) # 0
    BY <1>1
  <2>3. \A i \in DOMAIN m.edits : [m.edits[i] EXCEPT !.entry.pin = NoPin] \in Edit
    <3> TAKE i \in DOMAIN m.edits
    <3>1. m.edits[i] \in Edit
      BY <1>1, <2>2
    <3>2. QED
      BY <3>1 DEF Edit, Entry
  <2>4. Parsed(m) \in [1 .. Len(m.edits) -> Edit]
    BY <2>1, <2>2, <2>3
  <2>5. Parsed(m) \in Seq(Edit) /\ Len(Parsed(m)) = Len(m.edits)
    BY <2>2, <2>4
  <2>6. QED
    BY <2>2, <2>5
<1>4. QED
  BY <1>2, <1>3

\* The command at the head is done with.
LEMMA NextEditTodo ==
  ASSUME todo \in Seq(Edit), todo # <<>>, NextEdit
  PROVE  /\ todo' \in Seq(Edit) /\ pc1' \in {"idle", "entry", "edit"}
         /\ pc1' # "idle" => todo' # <<>>
BY DEF NextEdit

---------------------------------------------------------------------------
\* Steps that write no list and lose none.
LEMMA NoListTouched ==
  ASSUME LostInv, UNCHANGED <<files, unfilled, tempFile>>, TodoInv',
         UNCHANGED todo \/ pc1' \notin {"remove", "rename"},
         pc1' \in {"remove", "rename"} => pc1' = pc1,
         LostListHoldsService', pc0' = "colddr" => pc0 = "colddr" \/ "WL" \notin unfilled
  PROVE  LostInv'
BY DEF LostInv, EmptyInv, Opened

LEMMA Core0Next ==
  ASSUME LostInv, Core0 \/ Person
  PROVE  LostInv'
<1>1. UNCHANGED <<files, tempFile, powered, pc1, todo, unfilled>>
  BY DEF Core0, Person, CheckWhitelist, CheckBlacklist, ReadFare, CheckDriver, CheckAdmin,
         VerifyPin, CheckColdWl, CheckColdDr, RiderTap, StaffTap, TapCard, TypePin, CancelPin,
         Lookup, Core0Only, flash, core1
<1>2. TodoInv'
  BY <1>1 DEF LostInv, TodoInv
<1>3. CASE CheckColdDr
  <2>1. pc0 = "colddr" /\ pc0' = "idle" /\ cold' = IsEmpty("DR")
    BY <1>3 DEF CheckColdDr, Core0At
  <2>2. "WL" \notin unfilled /\ ("DR" \in unfilled => IsEmpty("DR"))
    BY <2>1 DEF LostInv, EmptyInv, IsEmpty
  <2>3. LostListHoldsService'
    BY <1>1, <2>1, <2>2 DEF LostListHoldsService
  <2>4. QED
    BY <1>1, <1>2, <2>1, <2>3, NoListTouched
<1>4. CASE CheckColdWl
  <2>1. cold' = cold /\ "WL" \notin unfilled
    BY <1>4 DEF CheckColdWl, IsEmpty, LostInv, EmptyInv
  <2>2. LostListHoldsService'
    BY <1>1, <2>1 DEF LostInv, LostListHoldsService
  <2>3. QED
    BY <1>1, <1>2, <2>1, <2>2, NoListTouched
<1>5. CASE ~CheckColdWl /\ ~CheckColdDr
  <2>1. cold' = cold /\ pc0' # "colddr"
    BY <1>5 DEF Core0, Person, CheckWhitelist, CheckBlacklist, ReadFare, CheckDriver, CheckAdmin,
                VerifyPin, RiderTap, StaffTap, TapCard, TypePin, CancelPin, Lookup, Show, Go
  <2>2. LostListHoldsService'
    BY <1>1, <2>1 DEF LostInv, LostListHoldsService
  <2>3. QED
    BY <1>1, <1>2, <2>1, <2>2, NoListTouched
<1>6. QED
  BY <1>3, <1>4, <1>5

\* Core 1 and the backend while no list is written.
LEMMA QuietCore1Next ==
  ASSUME LostInv,
         TakeBatchLock \/ EditRefused \/ \E m \in Downlinks : Downlink(m) \/ SetFare(m)
  PROVE  LostInv'
<1>1. UNCHANGED <<files, tempFile, powered, pc0, cold, unfilled>>
  BY DEF TakeBatchLock, EditRefused, Downlink, SetFare, Core1Only, NoListWritten, core0
<1>2. TodoInv' /\ pc1' \notin {"remove", "rename"}
  <2>1. CASE TakeBatchLock
    <3>1. /\ powered /\ pc1 = "ingest"
          /\ \/ pc1' = "entry" /\ todo' = todo
             \/ pc1' = "idle" /\ todo' = <<>>
      BY <2>1 DEF TakeBatchLock, Core1At
    <3>2. <<>> \in Seq(Edit) /\ todo \in Seq(Edit) /\ todo # <<>>
      BY <3>1 DEF LostInv, TodoInv, Rewriting
    <3>3. QED
      BY <1>1, <3>1, <3>2 DEF LostInv, TodoInv, Core1Pcs, Rewriting
  <2>2. CASE EditRefused
    <3>1. powered /\ pc1 = "edit" /\ NextEdit
      BY <2>2 DEF EditRefused, Core1At
    <3>2. /\ todo' \in Seq(Edit) /\ pc1' \in {"idle", "entry", "edit"}
          /\ pc1' # "idle" => todo' # <<>>
      BY <3>1, NextEditTodo DEF LostInv, TodoInv, Rewriting
    <3>3. QED
      BY <1>1, <3>1, <3>2 DEF LostInv, TodoInv, Core1Pcs, Rewriting
  <2>3. ASSUME NEW m \in Downlinks, Downlink(m)
        PROVE  TodoInv' /\ pc1' \notin {"remove", "rename"}
    <3>1. /\ powered /\ m.kind \in {"list", "edits"}
          /\ todo' = Parsed(m) /\ pc1' \in {"ingest", "edit"}
      BY <2>3 DEF Downlink, Core1At
    <3>2. todo' \in Seq(Edit) /\ todo' # <<>>
      BY <3>1, ParsedEdits
    <3>3. QED
      BY <1>1, <3>1, <3>2 DEF LostInv, TodoInv, Core1Pcs
  <2>4. ASSUME NEW m \in Downlinks, SetFare(m)
        PROVE  TodoInv' /\ pc1' \notin {"remove", "rename"}
    BY <1>1, <2>4 DEF SetFare, Core1At, core1, LostInv, TodoInv
  <2>5. QED
    BY <2>1, <2>2, <2>3, <2>4
<1>3. LostListHoldsService'
  BY <1>1 DEF LostInv, LostListHoldsService
<1>4. QED
  BY <1>1, <1>2, <1>3, NoListTouched
\* A rewrite: the copy of an empty list is empty unless the command adds.
LEMMA CopyNext ==
  ASSUME LostInv, Copy
  PROVE  LostInv'
<1> DEFINE edit == Head(todo)
           full == Rewritten(Opened(edit.list), edit)
<1>1. /\ powered /\ pc1 \in {"entry", "edit"} /\ pc1' = "remove"
      /\ UNCHANGED <<files, powered, pc0, cold, unfilled, todo>>
      /\ tempFile' = full \/ (full # <<>> /\ tempFile' = SubSeq(full, 1, Len(full) - 1))
  BY DEF Copy, Core1Only, NoListWritten, core0
<1>2. TodoInv'
  BY <1>1 DEF LostInv, TodoInv, Core1Pcs, Rewriting
<1>3. edit.list \in unfilled => edit.act = "ADD" \/ tempFile' = <<>>
  <2> SUFFICES ASSUME edit.list \in unfilled, edit.act # "ADD" PROVE tempFile' = <<>>
    OBVIOUS
  <2>1. Opened(edit.list) = <<>>
    BY DEF LostInv, EmptyInv
  <2>2. full = <<>>
    BY <2>1, RemovedFromEmpty DEF Rewritten
  <2>3. QED
    BY <1>1, <2>2
<1>4. EmptyInv'
  BY <1>1, <1>3 DEF LostInv, EmptyInv, Opened
<1>5. LostListHoldsService' /\ (pc0' = "colddr" => "WL" \notin unfilled')
  BY <1>1 DEF LostInv, LostListHoldsService
<1>6. QED
  BY <1>2, <1>4, <1>5 DEF LostInv

LEMMA RemoveNext ==
  ASSUME LostInv, Remove
  PROVE  LostInv'
<1> DEFINE l == Head(todo).list
<1>1. /\ powered /\ pc1 = "remove" /\ pc1' = "rename"
      /\ files' = [files EXCEPT ![l] = NoFile]
      /\ unfilled' = IF Head(todo).act = "ADD" THEN unfilled \ {l} ELSE unfilled
      /\ UNCHANGED <<powered, pc0, cold, todo, tempFile>>
  BY DEF Remove, Core1At, Core1Only, core0
<1>2. todo \in Seq(Edit) /\ todo # <<>> /\ DOMAIN files = Lists
  BY <1>1 DEF LostInv, TodoInv, Rewriting
<1>3. l \in Lists
  <2>1. Head(todo) \in Edit
    BY <1>2
  <2>2. QED
    BY <2>1 DEF Edit
<1> HIDE DEF l
<1>4. files'[l] = NoFile /\ DOMAIN files' = Lists
      /\ \A k \in Lists \ {l} : files'[k] = files[k]
  BY <1>1, <1>2, <1>3
<1>5. TodoInv'
  BY <1>1, <1>2, <1>4 DEF TodoInv, Core1Pcs, Rewriting, l
<1>6. unfilled' \subseteq unfilled /\ \A k \in unfilled' : k \in Lists /\ Opened(k) = <<>>
  BY <1>1 DEF LostInv, EmptyInv
<1>7. \A k \in unfilled' : Opened(k)' = <<>>
  BY <1>4, <1>6 DEF Opened
<1>8. Head(todo') = Head(todo) /\ tempFile' = tempFile
  BY <1>1
<1>9. /\ l \in unfilled' => tempFile' = <<>>
      /\ Head(todo).act = "ADD" => l \notin unfilled'
  BY <1>1, <1>6, <1>8 DEF LostInv, EmptyInv, l
<1>10. EmptyInv'
  BY <1>1, <1>6, <1>7, <1>8, <1>9 DEF EmptyInv, l
<1>11. LostListHoldsService' /\ (pc0' = "colddr" => "WL" \notin unfilled')
  BY <1>1, <1>6 DEF LostInv, LostListHoldsService
<1>12. QED
  BY <1>5, <1>10, <1>11 DEF LostInv

LEMMA RenameNext ==
  ASSUME LostInv, Rename
  PROVE  LostInv'
<1> DEFINE l == Head(todo).list
<1>1. /\ powered /\ pc1 = "rename" /\ NextEdit
      /\ files' = [files EXCEPT ![l] = tempFile]
      /\ UNCHANGED <<powered, pc0, cold, unfilled, tempFile>>
  BY DEF Rename, Core1At, Core1Only, core0
<1>2. todo \in Seq(Edit) /\ todo # <<>> /\ DOMAIN files = Lists
  BY <1>1 DEF LostInv, TodoInv, Rewriting
<1>3. /\ todo' \in Seq(Edit) /\ pc1' \in {"idle", "entry", "edit"}
      /\ pc1' # "idle" => todo' # <<>>
  BY <1>1, <1>2, NextEditTodo
<1>4. TodoInv'
  BY <1>1, <1>2, <1>3 DEF TodoInv, Core1Pcs, Rewriting
<1>5. l \in unfilled => tempFile = <<>>
  BY <1>1 DEF LostInv, EmptyInv
<1>6. \A k \in unfilled : Opened(k) = <<>> /\ k \in Lists
  BY DEF LostInv, EmptyInv
<1> HIDE DEF l
<1>7. \A k \in unfilled : Opened(k)' = <<>>
  BY <1>1, <1>2, <1>5, <1>6 DEF Opened
<1>8. EmptyInv'
  BY <1>1, <1>3, <1>6, <1>7 DEF EmptyInv
<1>9. LostListHoldsService' /\ (pc0' = "colddr" => "WL" \notin unfilled')
  BY <1>1 DEF LostInv, LostListHoldsService
<1>10. QED
  BY <1>4, <1>8, <1>9 DEF LostInv

LEMMA PowerLossNext ==
  ASSUME LostInv, PowerLoss
  PROVE  LostInv'
<1>1. /\ powered' = FALSE /\ pc1' = "idle" /\ pc0' = "idle" /\ todo' = <<>>
      /\ UNCHANGED <<files, tempFile>>
      /\ \/ pc1 = "rename" /\ unfilled' = unfilled \cup {Head(todo).list}
         \/ unfilled' = unfilled
  BY DEF PowerLoss, flash
<1>2. TodoInv'
  BY <1>1 DEF LostInv, TodoInv, Core1Pcs, Rewriting
<1>3. \A l \in unfilled : l \in Lists /\ Opened(l) = <<>>
  BY DEF LostInv, EmptyInv
<1>4. pc1 = "rename" => Head(todo).list \in Lists /\ Opened(Head(todo).list) = <<>>
  <2> SUFFICES ASSUME pc1 = "rename"
               PROVE  Head(todo).list \in Lists /\ Opened(Head(todo).list) = <<>>
    OBVIOUS
  <2>1. todo \in Seq(Edit) /\ todo # <<>> /\ files[Head(todo).list] = NoFile
    BY DEF LostInv, TodoInv, Rewriting
  <2>2. Head(todo) \in Edit
    BY <2>1
  <2>3. QED
    BY <2>1, <2>2 DEF Edit, Opened
<1>5. \A l \in unfilled' : l \in Lists /\ Opened(l)' = <<>>
  BY <1>1, <1>3, <1>4 DEF Opened
<1>6. EmptyInv' /\ LostListHoldsService'
  BY <1>1, <1>5 DEF EmptyInv, LostListHoldsService
<1>7. QED
  BY <1>1, <1>2, <1>6 DEF LostInv

LEMMA BootNext ==
  ASSUME LostInv, Boot
  PROVE  LostInv'
<1>1. /\ files' = [l \in Lists |-> Opened(l)] /\ cold' = ColdStart(files')
      /\ UNCHANGED <<tempFile, pc0, pc1, todo, unfilled>>
  BY DEF Boot, core1, history
<1>2. \A l \in unfilled' : l \in Lists /\ files'[l] = <<>> /\ Opened(l)' = <<>>
  BY <1>1, EmptyList DEF LostInv, EmptyInv, Opened
<1>3. pc1 \notin Rewriting
  BY DEF Boot, LostInv, TodoInv
<1>4. TodoInv'
  BY <1>1, <1>3 DEF LostInv, TodoInv, Rewriting
<1>5. EmptyInv'
  BY <1>1, <1>2, <1>3 DEF EmptyInv, Rewriting
<1>6. LostListHoldsService'
  BY <1>1, <1>2 DEF LostListHoldsService, ColdStart
<1>7. QED
  BY <1>1, <1>4, <1>5, <1>6 DEF LostInv

---------------------------------------------------------------------------
(* Types. *)

FlashTypes ==
  /\ files \in [Lists -> Seq(Entry) \cup {NoFile}] /\ tempFile \in Seq(Entry)
  /\ fare \in Fares /\ powered \in BOOLEAN

Core1Types ==
  /\ pc1 \in Core1Pcs /\ todo \in Seq(Edit) /\ batch \in BOOLEAN
  /\ pc1 \in {"entry", "edit", "remove", "rename"} => todo # <<>>

Core0Types ==
  /\ pc0 \in Core0Pcs /\ card \in Cards \cup {NoCard} /\ role \in Lists
  /\ typed \in Pins \cup {NoPin}
  /\ cold \in BOOLEAN /\ outcome \in Outcomes /\ charged \in Fares
  /\ pc0 \notin {"idle", "colddr"} => card # NoCard

HistoryTypes ==
  /\ told \in [Lists -> [Cards -> Values]]
  /\ seen \in [Lists -> SUBSET Values] /\ fareSeen \subseteq Fares
  /\ unfilled \subseteq Lists /\ lossy \in BOOLEAN
  /\ sent \in Nat /\ faults \in Nat

LEMMA TypeParts == TypeOK <=> FlashTypes /\ Core1Types /\ Core0Types /\ HistoryTypes
BY DEF TypeOK, FlashTypes, Core1Types, Core0Types, HistoryTypes

\* The command at the head, and the list that it changes.
LEMMA HeadEdit ==
  ASSUME todo \in Seq(Edit), todo # <<>>
  PROVE  LET edit == Head(todo)
         IN  /\ edit \in Edit /\ edit.list \in Lists /\ edit.act \in {"ADD", "REM"}
             /\ edit.entry \in Entry /\ edit.entry.uid \in Cards
             /\ edit.entry.pin \in Pins \cup {NoPin}
<1>1. Head(todo) \in Edit
  BY HeadTailProperties
<1>2. QED
  BY <1>1 DEF Edit, Entry

LEMMA OpenedType ==
  ASSUME FlashTypes, NEW l \in Lists
  PROVE  Opened(l) \in Seq(Entry) /\ (files[l] # NoFile => Opened(l) = files[l])
BY DEF FlashTypes, Opened

\* The copy of a list with one command carried out.
LEMMA RewrittenType ==
  ASSUME NEW file \in Seq(Entry), NEW edit \in Edit
  PROVE  Rewritten(file, edit) \in Seq(Entry)
<1>1. edit.entry \in Entry
  BY DEF Edit
<1>2. Removed(file, edit.entry.uid) \in Seq(Entry)
  BY RemovedFacts
<1>3. Upserted(file, edit.entry) \in Seq(Entry)
  <2>1. CASE HasUid(file, edit.entry.uid)
    <3>1. \A i \in 1 .. Len(file) : file[i] \in Entry
      BY ElementOfSeq
    <3>2. Len(file) \in Nat /\ DOMAIN file = 1 .. Len(file)
      BY LenProperties
    <3>3. [i \in DOMAIN file |-> IF file[i].uid = edit.entry.uid THEN edit.entry ELSE file[i]]
            \in [1 .. Len(file) -> Entry]
      BY <1>1, <3>1, <3>2
    <3>4. QED
      BY <2>1, <3>2, <3>3 DEF Upserted
  <2>2. CASE ~HasUid(file, edit.entry.uid)
    BY <1>1, <2>2, AppendProperties DEF Upserted
  <2>3. QED
    BY <2>1, <2>2
<1>4. QED
  BY <1>2, <1>3 DEF Rewritten

LEMMA FaultType == \A kind : faults \in Nat /\ Fault(kind) => faults' \in Nat /\ faults' # 0
BY DEF Fault

LEMMA Core0TypeNext ==
  ASSUME TypeOK, Core0 \/ Person
  PROVE  TypeOK'
<1> USE DEF Core0Types, Outcomes, Core0Pcs, Core0At
<1>1. FlashTypes /\ Core1Types /\ Core0Types /\ HistoryTypes
  BY TypeParts
<1>2. UNCHANGED <<flash, powered, core1, told, unfilled, lossy, sent>>
  BY DEF Core0, Person, CheckWhitelist, CheckBlacklist, ReadFare, CheckDriver, CheckAdmin,
         VerifyPin, CheckColdWl, CheckColdDr, RiderTap, StaffTap, TapCard, TypePin, CancelPin,
         Lookup, Core0Only
<1>3. FlashTypes' /\ Core1Types'
  BY <1>1, <1>2 DEF FlashTypes, Core1Types, flash, core1
<1>4. ASSUME NEW u \in Cards, Watch(u)
      PROVE  seen' \in [Lists -> SUBSET Values] /\ fareSeen' \subseteq Fares
  BY <1>1, <1>4 DEF Watch, HistoryTypes, FlashTypes
<1>5. CASE \E u \in Cards : RiderTap(u) \/ StaffTap(u)
  <2>1. PICK u \in Cards : Watch(u) /\ pc0' \in {"wl", "driver"} /\ card' = u /\ outcome' = "none"
                           /\ charged' = 0 /\ typed' = NoPin /\ UNCHANGED <<role, cold, faults>>
    BY <1>5 DEF RiderTap, StaffTap, TapCard
  <2>2. 0 \in Fares /\ NoCard \notin Cards
    BY PolicyAssumption
  <2>3. Core0Types'
    BY <1>1, <2>1, <2>2
  <2>4. HistoryTypes'
    BY <1>1, <1>2, <1>4, <2>1 DEF HistoryTypes
  <2>5. QED
    BY <1>3, <2>3, <2>4, TypeParts, PTL
<1>6. CASE \E p \in Pins : TypePin(p)
  <2>1. PICK p \in Pins : pc0 = "prompt" /\ typed' = p /\ pc0' = "pin" /\ Watch(card)
                          /\ UNCHANGED <<card, role, cold, outcome, charged, faults>>
    BY <1>6 DEF TypePin
  <2>2. card \in Cards
    BY <1>1, <2>1
  <2>3. Core0Types'
    BY <1>1, <2>1, <2>2
  <2>4. HistoryTypes'
    BY <1>1, <1>2, <1>4, <2>1, <2>2 DEF HistoryTypes
  <2>5. QED
    BY <1>3, <2>3, <2>4, TypeParts, PTL
<1>7. CASE ReadFare
  <2>1. /\ charged' \in {fare, DefaultFare} /\ pc0' = "idle" /\ outcome' = "accepted"
        /\ UNCHANGED <<card, role, typed, cold, seen>>
        /\ fareSeen' \in {fareSeen, fareSeen \cup {DefaultFare}}
        /\ faults' = faults \/ Fault("lock")
    BY <1>7 DEF ReadFare
  <2>2. DefaultFare \in Fares
    BY PolicyAssumption
  <2>3. Core0Types'
    BY <1>1, <2>1, <2>2 DEF FlashTypes
  <2>4. HistoryTypes'
    BY <1>1, <1>2, <2>1, <2>2, FaultType DEF HistoryTypes
  <2>5. QED
    BY <1>3, <2>3, <2>4, TypeParts, PTL
<1>8. CASE \/ CheckWhitelist \/ CheckBlacklist \/ CheckDriver \/ CheckAdmin \/ VerifyPin
           \/ CheckColdWl \/ CheckColdDr \/ CancelPin
  <2>1. /\ UNCHANGED <<card, typed, charged, seens>>
        /\ faults' = faults \/ Fault("lock")
    BY <1>8 DEF CheckWhitelist, CheckBlacklist, CheckDriver, CheckAdmin, VerifyPin, CheckColdWl,
                CheckColdDr, CancelPin, Lookup, Show, Go
  <2>2. HistoryTypes'
    BY <1>1, <1>2, <2>1, FaultType DEF HistoryTypes, seens
  <2>3. cold' \in BOOLEAN /\ role' \in Lists /\ outcome' \in Outcomes
    BY <1>1, <1>8
       DEF CheckWhitelist, CheckBlacklist, CheckDriver, CheckAdmin, VerifyPin, CheckColdWl,
           CheckColdDr, CancelPin, Lookup, Show, Go, Lists, IsEmpty
  <2>4. pc0' \in {"idle", "colddr"} \/ (pc0' \in Core0Pcs /\ pc0 \notin {"idle", "colddr"})
    BY <1>8 DEF CheckWhitelist, CheckBlacklist, CheckDriver, CheckAdmin, VerifyPin, CheckColdWl,
                CheckColdDr, CancelPin, Lookup, Show, Go
  <2>5. Core0Types'
    BY <1>1, <2>1, <2>3, <2>4
  <2>6. QED
    BY <1>3, <2>2, <2>5, TypeParts, PTL
<1>9. QED
  BY <1>5, <1>6, <1>7, <1>8 DEF Core0, Person

\* Steps of Core 1 and of the backend leave Core 0 where it is.
LEMMA Core1TypeNext ==
  ASSUME TypeOK, TodoInv', Core1 \/ Backend
  PROVE  TypeOK'
<1>1. FlashTypes /\ Core1Types /\ Core0Types /\ HistoryTypes
  BY TypeParts
<1>2. UNCHANGED <<powered, core0>> /\ (faults' = faults \/ Fault("lock") \/ Fault("short"))
      /\ sent' \in {sent, sent + 1}
  BY DEF Core1, Backend, TakeBatchLock, Copy, EditRefused, Remove, Rename, Downlink, SetFare,
         Core1Only, Refused, bounds
<1>3. Core0Types'
  BY <1>1, <1>2 DEF Core0Types, core0
<1>4. batch' \in BOOLEAN
  BY <1>1 DEF Core1Types, Core1, Backend, TakeBatchLock, Copy, EditRefused, Remove, Rename,
              Downlink, SetFare, core1
<1>5. Core1Types'
  BY <1>4 DEF TodoInv, Core1Types, Rewriting
<1>6. CASE Remove
  <2>1. pc1 = "remove" /\ todo \in Seq(Edit) /\ todo # <<>>
    BY <1>1, <1>6 DEF Remove, Core1At, Core1Types
  <2> DEFINE l == Head(todo).list
             u == Head(todo).entry.uid
             v == IF Head(todo).act = "ADD" THEN Head(todo).entry.pin ELSE Absent
  <2>2. l \in Lists /\ u \in Cards /\ v \in Values
    BY <2>1, HeadEdit DEF Values
  <2>3. /\ files' = [files EXCEPT ![l] = NoFile] /\ told' = [told EXCEPT ![l][u] = v]
        /\ seen' = IF u = card THEN [seen EXCEPT ![l] = @ \cup {v}] ELSE seen
        /\ unfilled' \subseteq unfilled
        /\ UNCHANGED <<tempFile, fare, fareSeen, lossy, sent, faults>>
    BY <1>6 DEF Remove, Core1Only, bounds
  <2> HIDE DEF l, u, v
  <2>4. FlashTypes'
    BY <1>1, <1>2, <2>2, <2>3 DEF FlashTypes
  <2>5. HistoryTypes'
    BY <1>1, <2>2, <2>3 DEF HistoryTypes
  <2>6. QED
    BY <1>3, <1>5, <2>4, <2>5, TypeParts, PTL
<1>7. CASE Rename
  <2>1. /\ files' = [files EXCEPT ![Head(todo).list] = tempFile]
        /\ UNCHANGED <<tempFile, fare, told, seen, fareSeen, unfilled, lossy, sent, faults>>
    BY <1>7 DEF Rename, Core1Only, bounds
  <2>2. FlashTypes'
    BY <1>1, <1>2, <2>1 DEF FlashTypes
  <2>3. HistoryTypes'
    BY <1>1, <2>1 DEF HistoryTypes
  <2>4. QED
    BY <1>3, <1>5, <2>2, <2>3, TypeParts, PTL
<1>8. CASE Copy
  <2>1. pc1 \in {"entry", "edit"} /\ todo \in Seq(Edit) /\ todo # <<>>
    BY <1>1, <1>8 DEF Copy, Core1Types
  <2> DEFINE full == Rewritten(Opened(Head(todo).list), Head(todo))
  <2>2. full \in Seq(Entry)
    BY <1>1, <2>1, HeadEdit, OpenedType, RewrittenType
  <2>3. /\ tempFile' = full \/ (full # <<>> /\ tempFile' = SubSeq(full, 1, Len(full) - 1))
        /\ lossy' \in {lossy, TRUE}
        /\ UNCHANGED <<files, fare, told, seen, fareSeen, unfilled, sent>>
    BY <1>8 DEF Copy, Core1Only, NoListWritten
  <2> HIDE DEF full
  <2>4. tempFile' \in Seq(Entry)
    BY <2>2, <2>3, ShortenedFacts
  <2>5. FlashTypes'
    BY <1>1, <1>2, <2>3, <2>4 DEF FlashTypes
  <2>6. HistoryTypes'
    BY <1>1, <1>2, <2>3, FaultType DEF HistoryTypes
  <2>7. QED
    BY <1>3, <1>5, <2>5, <2>6, TypeParts, PTL
<1>9. CASE TakeBatchLock \/ EditRefused \/ Backend
  <2>1. /\ UNCHANGED <<files, tempFile, told, seen, unfilled, lossy>>
        /\ \/ fare' = fare /\ fareSeen' = fareSeen
           \/ \E m \in Downlinks : m.kind = "fare" /\ fare' = m.amount
                                   /\ fareSeen' = fareSeen \cup {m.amount}
    BY <1>9 DEF TakeBatchLock, EditRefused, Backend, Downlink, SetFare, Core1Only, NoListWritten
  <2>2. \A m \in Downlinks : m.kind = "fare" => m.amount \in Fares
    BY PolicyAssumption
  <2>3. fare' \in Fares /\ fareSeen' \subseteq Fares
    BY <1>1, <2>1, <2>2 DEF FlashTypes, HistoryTypes
  <2>4. FlashTypes'
    BY <1>1, <1>2, <2>1, <2>3 DEF FlashTypes
  <2>5. HistoryTypes'
    BY <1>1, <1>2, <2>1, <2>3, FaultType DEF HistoryTypes
  <2>6. QED
    BY <1>3, <1>5, <2>4, <2>5, TypeParts, PTL
<1>10. QED
  BY <1>6, <1>7, <1>8, <1>9 DEF Core1

LEMMA PowerTypeNext ==
  ASSUME TypeOK, TodoInv, TodoInv', PowerLoss \/ Boot
  PROVE  TypeOK'
<1>1. FlashTypes /\ Core1Types /\ Core0Types /\ HistoryTypes
  BY TypeParts
<1>2. 0 \in Fares /\ DefaultFare \in Fares
  BY PolicyAssumption
<1>3. CASE PowerLoss
  <2>1. /\ powered' = FALSE /\ batch' = FALSE
        /\ pc0' = "idle" /\ card' = NoCard /\ typed' = NoPin /\ outcome' = "none"
        /\ charged' = 0
        /\ UNCHANGED <<flash, role, cold, told, seens, sent>>
    BY <1>3 DEF PowerLoss
  <2>2. /\ lossy' \in {lossy, TRUE} /\ (Fault("tear") \/ Fault("power"))
        /\ unfilled' = unfilled \/ (pc1 = "rename" /\ unfilled' = unfilled \cup {Head(todo).list})
    BY <1>3 DEF PowerLoss
  <2>3. unfilled' \subseteq Lists
    BY <1>1, <2>2, HeadEdit DEF Core1Types, HistoryTypes
  <2>4. FlashTypes' /\ Core0Types'
    BY <1>1, <1>2, <2>1 DEF FlashTypes, Core0Types, flash, Core0Pcs, Outcomes
  <2>5. Core1Types'
    BY <2>1 DEF Core1Types, TodoInv, Rewriting
  <2>6. HistoryTypes'
    BY <1>1, <2>1, <2>2, <2>3, FaultType DEF HistoryTypes, seens
  <2>7. QED
    BY <2>4, <2>5, <2>6, TypeParts, PTL
<1>4. CASE Boot
  <2>1. /\ powered' = TRUE /\ files' = [l \in Lists |-> Opened(l)]
        /\ fare' \in {fare, DefaultFare} /\ cold' = ColdStart(files')
        /\ UNCHANGED <<tempFile, core1, pc0, card, role, typed, outcome, charged,
                       history, bounds>>
    BY <1>4 DEF Boot
  <2>2. FlashTypes'
    BY <1>1, <1>2, <2>1, OpenedType DEF FlashTypes
  <2>3. Core0Types'
    BY <1>1, <2>1 DEF Core0Types, ColdStart
  <2>4. Core1Types' /\ HistoryTypes'
    BY <1>1, <2>1 DEF Core1Types, HistoryTypes, core1, history, seens, bounds
  <2>5. QED
    BY <2>2, <2>3, <2>4, TypeParts, PTL
<1>5. QED
  BY <1>3, <1>4

\* The list that a command reads has one entry per card, and the copy of it
\* says what the command makes of them.
LEMMA RewrittenFacts ==
  ASSUME NEW file \in Seq(Entry), OneEach(file), NEW edit \in Edit
  PROVE  /\ OneEach(Rewritten(file, edit))
         /\ Table(Rewritten(file, edit)) =
              [Table(file) EXCEPT ![edit.entry.uid] = NewValue(edit)]
<1>1. edit.entry \in Entry /\ edit.entry.uid \in Cards
  BY DEF Edit, Entry
<1>2. CASE edit.act = "ADD"
  BY <1>1, <1>2, UpsertedFacts DEF Rewritten, NewValue
<1>3. CASE edit.act # "ADD"
  BY <1>1, <1>3, RemovedFacts, RemovedTable DEF Rewritten, NewValue
<1>4. QED
  BY <1>2, <1>3

\* Steps that leave the lists, the temporary file and what was told alone.
LEMMA ListsFrame ==
  ASSUME ListsInv, UNCHANGED <<files, tempFile, powered, told, lossy>>,
         (pc1' = pc1 /\ todo' = todo) \/ (pc1 # "rename" /\ pc1' \notin {"remove", "rename"})
  PROVE  ListsInv'
<1>1. AwayInv'
  BY DEF ListsInv, AwayInv
<1>2. OneEachInv'
  BY DEF ListsInv, OneEachInv, Opened
<1>3. ToldInv'
  BY DEF ListsInv, ToldInv, Table, NewValue
<1>4. QED
  BY <1>1, <1>2, <1>3 DEF ListsInv

LEMMA CopyLists ==
  ASSUME TypeOK, ListsInv, Copy
  PROVE  ListsInv'
<1> DEFINE edit == Head(todo)
           full == Rewritten(Opened(edit.list), edit)
<1>1. /\ powered /\ pc1 \in {"entry", "edit"} /\ pc1' = "remove" /\ todo' = todo
      /\ UNCHANGED <<files, powered, told>>
      /\ \/ tempFile' = full /\ lossy' = lossy
         \/ full # <<>> /\ tempFile' = SubSeq(full, 1, Len(full) - 1) /\ lossy' = TRUE
  BY DEF Copy, Core1Only, NoListWritten
<1>2. todo \in Seq(Edit) /\ todo # <<>> /\ FlashTypes
  BY <1>1, TypeParts DEF Core1Types
<1>3. edit \in Edit /\ edit.list \in Lists
  BY <1>2, HeadEdit
<1>4. files[edit.list] # NoFile
  BY <1>1, <1>3 DEF ListsInv, AwayInv
<1>5. Opened(edit.list) = files[edit.list] /\ files[edit.list] \in Seq(Entry)
  BY <1>2, <1>3, <1>4, OpenedType
<1>6. OneEach(files[edit.list])
  BY <1>3, <1>5 DEF ListsInv, OneEachInv
<1>7. /\ full \in Seq(Entry) /\ OneEach(full)
      /\ Table(full) = [Table(files[edit.list]) EXCEPT ![edit.entry.uid] = NewValue(edit)]
  BY <1>3, <1>5, <1>6, RewrittenFacts, RewrittenType
<1>8. AwayInv'
  BY <1>1 DEF ListsInv, AwayInv
<1> HIDE DEF full
<1>9. OneEach(tempFile')
  BY <1>1, <1>7, ShortenedFacts
<1>10. OneEachInv'
  BY <1>1, <1>9 DEF ListsInv, OneEachInv, Opened
<1>11. ASSUME ~lossy'
       PROVE  /\ Table(tempFile') = [told[edit.list] EXCEPT ![edit.entry.uid] = NewValue(edit)]
              /\ \A l \in Lists : files[l] # NoFile => Table(files[l]) = told[l]
  <2>1. ~lossy /\ tempFile' = full
    BY <1>1, <1>11
  <2>2. \A l \in Lists : files[l] # NoFile => Table(files[l]) = told[l]
    BY <2>1 DEF ListsInv, ToldInv
  <2>3. QED
    BY <1>3, <1>4, <1>7, <2>1, <2>2
<1>12. ToldInv'
  BY <1>1, <1>11 DEF ToldInv, Table, NewValue
<1>13. QED
  BY <1>8, <1>10, <1>12 DEF ListsInv

LEMMA RemoveLists ==
  ASSUME TypeOK, ListsInv, Remove
  PROVE  ListsInv'
<1> DEFINE l == Head(todo).list
           u == Head(todo).entry.uid
           v == NewValue(Head(todo))
<1>1. /\ powered /\ pc1 = "remove" /\ pc1' = "rename" /\ todo' = todo
      /\ files' = [files EXCEPT ![l] = NoFile] /\ told' = [told EXCEPT ![l][u] = v]
      /\ UNCHANGED <<tempFile, powered, lossy>>
  BY DEF Remove, Core1At, Core1Only, NewValue
<1>2. /\ todo \in Seq(Edit) /\ todo # <<>>
      /\ files \in [Lists -> Seq(Entry) \cup {NoFile}] /\ told \in [Lists -> [Cards -> Values]]
  BY <1>1, TypeParts DEF Core1Types, FlashTypes, HistoryTypes
<1>3. l \in Lists /\ u \in Cards
  BY <1>2, HeadEdit
<1>4. ~lossy => Table(tempFile) = [told[l] EXCEPT ![u] = v]
  BY <1>1 DEF ListsInv, ToldInv
<1>5. l = Head(todo').list
  BY <1>1
<1> HIDE DEF l, u, v
<1>6. files'[l] = NoFile /\ \A k \in Lists \ {l} : files'[k] = files[k] /\ told'[k] = told[k]
  BY <1>1, <1>2, <1>3
<1>7. told'[l] = [told[l] EXCEPT ![u] = v]
  BY <1>1, <1>2, <1>3
<1>8. AwayInv'
  BY <1>1, <1>5, <1>6 DEF ListsInv, AwayInv
<1>9. \A k \in Lists : Opened(k)' = IF k = l THEN <<>> ELSE Opened(k)
  BY <1>6 DEF Opened
<1>10. OneEachInv'
  BY <1>1, <1>9 DEF ListsInv, OneEachInv, OneEach
<1>11. ASSUME ~lossy, NEW k \in Lists, files'[k] # NoFile
       PROVE  Table(files'[k]) = told'[k]
  BY <1>6, <1>11 DEF ListsInv, ToldInv
<1>12. ToldInv'
  BY <1>1, <1>4, <1>5, <1>7, <1>11 DEF ToldInv, Table
<1>13. QED
  BY <1>8, <1>10, <1>12 DEF ListsInv

LEMMA RenameLists ==
  ASSUME TypeOK, ListsInv, Rename
  PROVE  ListsInv'
<1> DEFINE l == Head(todo).list
<1>1. /\ powered /\ pc1 = "rename" /\ NextEdit
      /\ files' = [files EXCEPT ![l] = tempFile]
      /\ UNCHANGED <<tempFile, powered, told, lossy>>
  BY DEF Rename, Core1At, Core1Only
<1>2. /\ todo \in Seq(Edit) /\ todo # <<>> /\ tempFile # NoFile
      /\ files \in [Lists -> Seq(Entry) \cup {NoFile}]
  BY <1>1, TypeParts, PolicyAssumption DEF Core1Types, FlashTypes
<1>3. l \in Lists
  BY <1>2, HeadEdit
<1>4. pc1' \in {"idle", "entry", "edit"}
  BY <1>1 DEF NextEdit
<1>5. \A k \in Lists : files[k] = NoFile => k = l
  BY <1>1 DEF ListsInv, AwayInv
<1>6. OneEach(tempFile) /\ (~lossy => Table(tempFile) = told[l])
  BY <1>1 DEF ListsInv, OneEachInv, ToldInv
<1> HIDE DEF l
<1>7. files'[l] = tempFile /\ \A k \in Lists \ {l} : files'[k] = files[k] /\ files[k] # NoFile
  BY <1>1, <1>2, <1>3, <1>5
<1>8. AwayInv'
  BY <1>2, <1>7 DEF AwayInv
<1>9. \A k \in Lists : Opened(k)' = IF k = l THEN tempFile ELSE Opened(k)
  BY <1>2, <1>7 DEF Opened
<1>10. OneEachInv'
  BY <1>4, <1>6, <1>9 DEF ListsInv, OneEachInv
<1>11. ASSUME ~lossy, NEW k \in Lists
       PROVE  Table(files'[k]) = told[k]
  BY <1>6, <1>7, <1>11 DEF ListsInv, ToldInv
<1>12. ToldInv'
  BY <1>1, <1>4, <1>11 DEF ToldInv, Table
<1>13. QED
  BY <1>8, <1>10, <1>12 DEF ListsInv

LEMMA PowerLists ==
  ASSUME TypeOK, TodoInv, ListsInv, PowerLoss \/ Boot
  PROVE  ListsInv'
<1>1. CASE PowerLoss
  <2>1. /\ powered /\ powered' = FALSE /\ pc1' = "idle" /\ lossy' = (lossy \/ pc1 = "rename")
        /\ UNCHANGED <<files, tempFile, told>>
    BY <1>1, TypeParts DEF PowerLoss, flash, HistoryTypes
  <2>2. AwayInv'
    BY <2>1 DEF ListsInv, AwayInv
  <2>3. OneEachInv'
    BY <2>1 DEF ListsInv, OneEachInv, Opened
  <2>4. ToldInv'
    BY <2>1 DEF ListsInv, ToldInv, Table
  <2>5. QED
    BY <2>2, <2>3, <2>4 DEF ListsInv
<1>2. CASE Boot
  <2>1. /\ ~powered /\ powered' = TRUE /\ files' = [l \in Lists |-> Opened(l)]
        /\ UNCHANGED <<tempFile, told, lossy, pc1>>
    BY <1>2 DEF Boot, core1, history
  <2>2. \A l \in Lists : Opened(l) # NoFile
    BY TypeParts, OpenedType, PolicyAssumption
  <2>3. \A l \in Lists : Opened(l)' = Opened(l)
    BY <2>1, <2>2 DEF Opened
  <2>4. pc1 \notin Rewriting
    BY <2>1 DEF TodoInv
  <2>5. AwayInv'
    BY <2>1, <2>2 DEF AwayInv
  <2>6. OneEachInv'
    BY <2>1, <2>3, <2>4 DEF ListsInv, OneEachInv, Rewriting
  <2>7. ASSUME ~lossy, NEW l \in Lists
        PROVE  Table(files'[l]) = told[l]
    <3>1. files[l] # NoFile
      BY <2>1, <2>7 DEF ListsInv, AwayInv
    <3>2. files'[l] = files[l]
      BY <2>1, <3>1 DEF Opened
    <3>3. QED
      BY <2>7, <3>1, <3>2 DEF ListsInv, ToldInv
  <2>8. ToldInv'
    BY <2>1, <2>4, <2>7 DEF ToldInv, Table, Rewriting
  <2>9. QED
    BY <2>5, <2>6, <2>8 DEF ListsInv
<1>3. QED
  BY <1>1, <1>2

LEMMA ListsNext ==
  ASSUME TypeOK, TodoInv, ListsInv, [Next]_vars
  PROVE  ListsInv'
<1>1. CASE Core0 \/ Person
  <2>1. UNCHANGED <<files, tempFile, powered, told, lossy, pc1, todo>>
    BY <1>1 DEF Core0, Person, CheckWhitelist, CheckBlacklist, ReadFare, CheckDriver, CheckAdmin,
                VerifyPin, CheckColdWl, CheckColdDr, RiderTap, StaffTap, TapCard, TypePin,
                CancelPin, Lookup, Core0Only, flash, core1
  <2>2. QED
    BY <2>1, ListsFrame
<1>2. CASE TakeBatchLock \/ EditRefused \/ Backend
  <2>1. /\ UNCHANGED <<files, tempFile, powered, told, lossy>>
        /\ (pc1' = pc1 /\ todo' = todo) \/ (pc1 # "rename" /\ pc1' \notin {"remove", "rename"})
    BY <1>2 DEF TakeBatchLock, EditRefused, Backend, Downlink, SetFare, Core1Only, NoListWritten,
                Core1At, NextEdit, core1
  <2>2. QED
    BY <2>1, ListsFrame
<1>3. CASE UNCHANGED vars
  BY <1>3, ListsFrame DEF vars, flash, core1, history
<1>4. QED
  BY <1>1, <1>2, <1>3, CopyLists, RemoveLists, RenameLists, PowerLists DEF Next, Core1

---------------------------------------------------------------------------
(* Lookups. *)

\* What a lookup finds while no list is being rewritten is what the commands
\* carried out say.
LEMMA WhatLookupFinds ==
  ASSUME TypeOK, ListsInv, WatchInv, powered, LockFree, ~lossy, card # NoCard, NEW l \in Lists
  PROVE  /\ HasUid(Opened(l), card) => Listed(l)
         /\ ~HasUid(Opened(l), card) => Unlisted(l)
         /\ LET stored == PinOf(Opened(l), card)
            IN  IF stored # NoPin THEN stored \in seen[l] \cap Pins
                ELSE seen[l] \cap {NoPin, Absent} # {}
<1>1. card \in Cards /\ FlashTypes
  BY TypeParts DEF Core0Types
<1>2. files[l] # NoFile
  BY DEF ListsInv, AwayInv, LockFree
<1>3. Opened(l) = files[l] /\ Opened(l) \in Seq(Entry) /\ OneEach(Opened(l))
  BY <1>1, <1>2, OpenedType DEF ListsInv, OneEachInv
<1>4. told[l][card] = ValueOf(Opened(l), card)
  <2>1. told[l] = Table(Opened(l))
    BY <1>2, <1>3 DEF ListsInv, ToldInv
  <2>2. Table(Opened(l))[card] = ValueOf(Opened(l), card)
    BY <1>1 DEF Table
  <2>3. QED
    BY <2>1, <2>2
<1>5. ValueOf(Opened(l), card) \in seen[l]
  BY <1>4 DEF WatchInv
<1>6. /\ HasUid(Opened(l), card) <=> ValueOf(Opened(l), card) # Absent
      /\ HasUid(Opened(l), card) => ValueOf(Opened(l), card) \in Pins \cup {NoPin}
      /\ PinOf(Opened(l), card) = IF ValueOf(Opened(l), card) \in Pins
                                    THEN ValueOf(Opened(l), card) ELSE NoPin
  BY <1>3, ListedHasValue
<1>7. NoPin \notin Pins
  BY PolicyAssumption
<1>8. HasUid(Opened(l), card) => Listed(l)
  BY <1>5, <1>6 DEF Listed
<1>9. ~HasUid(Opened(l), card) => Unlisted(l)
  BY <1>5, <1>6 DEF Unlisted
<1>10. CASE ValueOf(Opened(l), card) \in Pins
  BY <1>5, <1>6, <1>7, <1>8, <1>9, <1>10
<1>11. CASE ValueOf(Opened(l), card) \notin Pins
  <2>1. PinOf(Opened(l), card) = NoPin
    BY <1>6, <1>11
  <2>2. ValueOf(Opened(l), card) \in {NoPin, Absent}
    BY <1>6, <1>11
  <2>3. seen[l] \cap {NoPin, Absent} # {}
    BY <1>5, <2>2
  <2>4. QED
    BY <1>8, <1>9, <2>1, <2>3
<1>12. QED
  BY <1>10, <1>11

\* Whatever Core 1 does, what was seen stays seen.
LEMMA SeenGrows ==
  ASSUME LookupInv, UNCHANGED <<powered, core0>>, lossy => lossy',
         faults' = faults \/ faults' # 0,
         \A l \in Lists : seen[l] \subseteq seen'[l], fareSeen \subseteq fareSeen', WatchInv',
         role \in Lists
  PROVE  LookupInv'
<1>1. \A l \in Lists : (Listed(l) => Listed(l)') /\ (Unlisted(l) => Unlisted(l)')
  BY DEF Listed, Unlisted
<1>2. ProgressInv'
  <2>1. UNCHANGED <<pc0, outcome, typed>>
    BY DEF core0
  <2>2. "WL" \in Lists /\ "BL" \in Lists /\ "DR" \in Lists
    BY DEF Lists
  <2>3. QED
    BY <1>1, <2>1, <2>2 DEF LookupInv, ProgressInv
<1>3. OutcomeInv'
  <2> SUFFICES ASSUME ~lossy' PROVE OutcomeInv'
    BY DEF OutcomeInv
  <2>1. ~lossy /\ UNCHANGED <<outcome, typed, role, charged>>
    BY DEF core0
  <2>2. {"WL", "BL", "DR", "AD"} \subseteq Lists
    BY DEF Lists
  <2>3. /\ outcome' = "accepted" => Listed("WL")' /\ Unlisted("BL")' /\ charged' \in fareSeen'
        /\ outcome' = "invalid"  => Unlisted("WL")'
        /\ outcome' = "blocked"  => Listed("BL")'
        /\ outcome' = "notstaff" => Unlisted("DR")' /\ Unlisted("AD")'
    BY <1>1, <2>1, <2>2 DEF LookupInv, OutcomeInv
  <2>4. seen[role] \subseteq seen'[role]
    OBVIOUS
  <2>5. /\ outcome' = "loggedin" => typed' \in seen'[role']
        /\ outcome' = "wrongpin" => seen'[role'] \cap (Pins \ {typed'}) # {}
        /\ outcome' = "autherror" /\ faults' = 0 => seen'[role'] \cap {NoPin, Absent} # {}
    BY <2>1, <2>4 DEF LookupInv, OutcomeInv
  <2>6. QED
    BY <2>3, <2>5 DEF OutcomeInv
<1>4. QED
  BY <1>2, <1>3 DEF LookupInv

LEMMA Core1Lookups ==
  ASSUME TypeOK, LookupInv, Core1 \/ Backend
  PROVE  LookupInv'
<1>0. FlashTypes /\ Core1Types /\ Core0Types /\ HistoryTypes
  BY TypeParts
<1>1. UNCHANGED <<powered, core0>> /\ (faults' = faults \/ Fault("lock") \/ Fault("short"))
      /\ lossy' \in {lossy, TRUE}
  BY DEF Core1, Backend, TakeBatchLock, Copy, EditRefused, Remove, Rename, Downlink, SetFare,
         Core1Only, Refused, bounds
<1>2. faults' = faults \/ faults' # 0
  BY <1>0, <1>1, FaultType DEF HistoryTypes
<1>3. /\ role \in Lists /\ card' = card /\ outcome' = outcome /\ pc0' = pc0
      /\ UNCHANGED <<powered, core0>> /\ (lossy => lossy')
  <2>1. lossy => lossy'
    BY <1>1
  <2>2. QED
    BY <1>0, <1>1, <2>1 DEF Core0Types, core0
<1>4. CASE Remove
  <2> DEFINE l == Head(todo).list
             u == Head(todo).entry.uid
             v == IF Head(todo).act = "ADD" THEN Head(todo).entry.pin ELSE Absent
  <2>1. /\ told' = [told EXCEPT ![l][u] = v]
        /\ seen' = IF u = card THEN [seen EXCEPT ![l] = @ \cup {v}] ELSE seen
        /\ UNCHANGED <<fare, fareSeen>>
    BY <1>4 DEF Remove, Core1Only
  <2>2. l \in Lists /\ u \in Cards
    BY <1>0, <1>4, HeadEdit DEF Core1Types, Remove, Core1At
  <2> HIDE DEF l, u, v
  <2>3. \A k \in Lists : seen[k] \subseteq seen'[k]
    BY <1>0, <2>1, <2>2 DEF HistoryTypes
  <2>4. ASSUME card # NoCard, NEW k \in Lists
        PROVE  told'[k][card] \in seen'[k]
    <3>1. told[k][card] \in seen[k] /\ card \in Cards
      BY <1>0, <2>4 DEF LookupInv, WatchInv, Core0Types
    <3>2. CASE k = l /\ card = u
      BY <1>0, <2>1, <2>2, <3>2 DEF HistoryTypes
    <3>3. CASE ~(k = l /\ card = u)
      <4>1. told'[k][card] = told[k][card]
        BY <1>0, <2>1, <2>2, <3>1, <3>3 DEF HistoryTypes
      <4>2. QED
        BY <2>3, <3>1, <4>1
    <3>4. QED
      BY <3>2, <3>3
  <2>5. WatchInv'
    BY <1>1, <1>3, <2>1, <2>4 DEF LookupInv, WatchInv
  <2>6. fareSeen \subseteq fareSeen'
    BY <2>1
  <2>7. QED
    BY <1>2, <1>3, <2>3, <2>5, <2>6, SeenGrows
<1>5. CASE ~Remove
  <2>1. /\ UNCHANGED <<told, seen>>
        /\ \/ fare' = fare /\ fareSeen' = fareSeen
           \/ fare' \in fareSeen' /\ fareSeen \subseteq fareSeen'
    BY <1>5 DEF Core1, Backend, TakeBatchLock, Copy, EditRefused, Rename, Downlink, SetFare,
                Core1Only, NoListWritten
  <2>2. WatchInv'
    BY <1>1, <1>3, <2>1 DEF LookupInv, WatchInv
  <2>3. fareSeen \subseteq fareSeen' /\ \A k \in Lists : seen[k] \subseteq seen'[k]
    BY <2>1
  <2>4. QED
    BY <1>2, <1>3, <2>2, <2>3, SeenGrows
<1>6. QED
  BY <1>4, <1>5

LEMMA PowerLookups ==
  ASSUME LookupInv, PowerLoss \/ Boot
  PROVE  LookupInv'
<1>1. CASE PowerLoss
  <2>1. /\ pc0' = "idle" /\ card' = NoCard /\ outcome' = "none"
    BY <1>1 DEF PowerLoss
  <2>2. QED
    BY <2>1 DEF LookupInv, WatchInv, ProgressInv, OutcomeInv
<1>2. CASE Boot
  <2>1. /\ ~powered /\ powered' = TRUE
        /\ UNCHANGED <<pc0, card, outcome>>
    BY <1>2 DEF Boot
  <2>2. card = NoCard /\ outcome = "none" /\ pc0 = "idle"
    BY <2>1 DEF LookupInv, WatchInv
  <2>3. QED
    BY <2>1, <2>2 DEF LookupInv, WatchInv, ProgressInv, OutcomeInv
<1>3. QED
  BY <1>1, <1>2

\* A lookup begins: a card is laid on, or a PIN was typed.
LEMMA LookupBegins ==
  ASSUME TypeOK, LookupInv, Person
  PROVE  LookupInv'
<1>1. /\ powered /\ UNCHANGED <<powered, fare, told, lossy>>
  BY DEF Person, RiderTap, StaffTap, TapCard, TypePin, CancelPin, Core0Only, Core0At, flash
<1>2. CASE \E u \in Cards : RiderTap(u) \/ StaffTap(u)
  <2>1. PICK u \in Cards : Watch(u) /\ pc0' \in {"wl", "driver"} /\ card' = u /\ outcome' = "none"
    BY <1>2 DEF RiderTap, StaffTap, TapCard
  <2>2. WatchInv'
    BY <1>1, <2>1 DEF WatchInv, Watch
  <2>3. ProgressInv' /\ OutcomeInv'
    BY <2>1 DEF ProgressInv, OutcomeInv
  <2>4. QED
    BY <2>2, <2>3 DEF LookupInv
<1>3. CASE \E p \in Pins : TypePin(p)
  <2>1. PICK p \in Pins : /\ pc0 = "prompt" /\ typed' = p /\ pc0' = "pin" /\ Watch(card)
                          /\ card' = card /\ outcome' = outcome
    BY <1>3 DEF TypePin, Core0At
  <2>2. WatchInv'
    BY <1>1, <2>1 DEF WatchInv, Watch
  <2>3. outcome = "none"
    BY <2>1 DEF LookupInv, ProgressInv
  <2>4. ProgressInv' /\ OutcomeInv'
    BY <2>1, <2>3 DEF ProgressInv, OutcomeInv
  <2>5. QED
    BY <2>2, <2>4 DEF LookupInv
<1>4. CASE CancelPin
  <2>1. /\ pc0 = "prompt" /\ pc0' = "idle"
        /\ UNCHANGED <<card, outcome, seen, fareSeen>>
    BY <1>4 DEF CancelPin, Core0At, seens
  <2>2. outcome = "none"
    BY <2>1 DEF LookupInv, ProgressInv
  <2>3. QED
    BY <1>1, <2>1, <2>2 DEF LookupInv, WatchInv, ProgressInv, OutcomeInv
<1>5. QED
  BY <1>2, <1>3, <1>4 DEF Person

\* A step of a lookup that goes on, or ends with this outcome.
LEMMA LookupStep ==
  ASSUME LookupInv, powered, UNCHANGED <<powered, fare, told, lossy, card, seen>>,
         fareSeen \subseteq fareSeen', ProgressInv', OutcomeInv'
  PROVE  LookupInv'
BY DEF LookupInv, WatchInv

LEMMA LookupGoesOn ==
  ASSUME TypeOK, ListsInv, LookupInv, Core0
  PROVE  LookupInv'
<1> USE DEF Core0At
<1>1. /\ powered /\ UNCHANGED <<powered, fare, told, lossy, card, seen>>
      /\ fareSeen \subseteq fareSeen'
  BY DEF Core0, CheckWhitelist, CheckBlacklist, ReadFare, CheckDriver, CheckAdmin, VerifyPin,
         CheckColdWl, CheckColdDr, Lookup, Core0Only, Show, Go, flash, seens
<1>2. /\ pc0 \notin {"idle", "colddr"} => card # NoCard
      /\ role \in Lists /\ Lists = {"WL", "BL", "DR", "AD"} /\ faults \in Nat
  BY TypeParts DEF Core0Types, HistoryTypes, Lists
<1>3. \A l \in Lists : (Listed(l)' <=> Listed(l)) /\ (Unlisted(l)' <=> Unlisted(l))
  BY <1>1 DEF Listed, Unlisted
<1>4. ProgressInv /\ OutcomeInv /\ WatchInv
  BY DEF LookupInv
<1>5. ASSUME LockFree, ~lossy, card # NoCard, NEW l \in Lists
      PROVE  /\ HasUid(Opened(l), card) => Listed(l)
             /\ ~HasUid(Opened(l), card) => Unlisted(l)
             /\ LET stored == PinOf(Opened(l), card)
                IN  IF stored # NoPin THEN stored \in seen[l] \cap Pins
                    ELSE seen[l] \cap {NoPin, Absent} # {}
  BY <1>1, <1>4, <1>5, WhatLookupFinds
<1>6. CASE CheckWhitelist
  <2>1. pc0 = "wl" /\ outcome = "none"
    BY <1>4, <1>6 DEF CheckWhitelist, Lookup, ProgressInv
  <2>2. \/ LockFree /\ HasUid(Opened("WL"), card) /\ pc0' = "bl" /\ outcome' = "none"
        \/ LockFree /\ ~HasUid(Opened("WL"), card) /\ pc0' = "idle" /\ outcome' = "invalid"
        \/ pc0' = "idle" /\ outcome' = "error"
    BY <1>6, <2>1 DEF CheckWhitelist, Lookup, Show, Go
  <2>3. ~lossy => (pc0' = "bl" => Listed("WL")) /\ (outcome' = "invalid" => Unlisted("WL"))
    BY <1>2, <1>5, <2>1, <2>2
  <2>4. ProgressInv' /\ OutcomeInv'
    BY <1>1, <1>2, <1>3, <2>2, <2>3 DEF ProgressInv, OutcomeInv
  <2>5. QED
    BY <1>1, <2>4, LookupStep
<1>7. CASE CheckBlacklist
  <2>1. pc0 = "bl" /\ outcome = "none" /\ (~lossy => Listed("WL"))
    BY <1>4, <1>7 DEF CheckBlacklist, Lookup, ProgressInv
  <2>2. \/ LockFree /\ HasUid(Opened("BL"), card) /\ pc0' = "idle" /\ outcome' = "blocked"
        \/ LockFree /\ ~HasUid(Opened("BL"), card) /\ pc0' = "fare" /\ outcome' = "none"
        \/ pc0' = "idle" /\ outcome' = "error"
    BY <1>7, <2>1 DEF CheckBlacklist, Lookup, Show, Go
  <2>3. ~lossy => (pc0' = "fare" => Unlisted("BL")) /\ (outcome' = "blocked" => Listed("BL"))
    BY <1>2, <1>5, <2>1, <2>2
  <2>4. ProgressInv' /\ OutcomeInv'
    BY <1>1, <1>2, <1>3, <2>1, <2>2, <2>3 DEF ProgressInv, OutcomeInv
  <2>5. QED
    BY <1>1, <2>4, LookupStep
<1>8. CASE ReadFare
  <2>1. pc0 = "fare" /\ (~lossy => Listed("WL") /\ Unlisted("BL"))
    BY <1>4, <1>8 DEF ReadFare, ProgressInv
  <2>2. fare \in fareSeen
    BY <1>2, <1>4, <2>1 DEF WatchInv
  <2>3. pc0' = "idle" /\ outcome' = "accepted" /\ charged' \in fareSeen'
    BY <1>8, <2>2 DEF ReadFare
  <2>4. ProgressInv' /\ OutcomeInv'
    BY <1>1, <1>2, <1>3, <2>1, <2>3 DEF ProgressInv, OutcomeInv
  <2>5. QED
    BY <1>1, <2>4, LookupStep
<1>9. CASE CheckDriver
  <2>1. pc0 = "driver" /\ outcome = "none"
    BY <1>4, <1>9 DEF CheckDriver, Lookup, ProgressInv
  <2>2. \/ pc0' = "prompt" /\ outcome' = "none"
        \/ LockFree /\ ~HasUid(Opened("DR"), card) /\ pc0' = "admin" /\ outcome' = "none"
        \/ pc0' = "admin" /\ outcome' = "error"
    BY <1>9, <2>1 DEF CheckDriver, Lookup, Go
  <2>3. ~lossy /\ pc0' = "admin" /\ outcome' = "none" => Unlisted("DR")
    BY <1>2, <1>5, <2>1, <2>2
  <2>4. ProgressInv' /\ OutcomeInv'
    BY <1>1, <1>2, <1>3, <2>2, <2>3 DEF ProgressInv, OutcomeInv
  <2>5. QED
    BY <1>1, <2>4, LookupStep
<1>10. CASE CheckAdmin
  <2>1. /\ pc0 = "admin" /\ outcome \in {"none", "error"}
        /\ ~lossy /\ outcome = "none" => Unlisted("DR")
    BY <1>4, <1>10 DEF CheckAdmin, Lookup, ProgressInv
  <2>2. \/ pc0' = "prompt" /\ outcome' = "none"
        \/ /\ LockFree /\ ~HasUid(Opened("AD"), card) /\ pc0' = "idle"
           /\ outcome' = IF outcome = "error" THEN "error" ELSE "notstaff"
        \/ pc0' = "idle" /\ outcome' = "error"
    BY <1>10 DEF CheckAdmin, Lookup, Show
  <2>3. ~lossy /\ outcome' = "notstaff" => Unlisted("DR") /\ Unlisted("AD")
    BY <1>2, <1>5, <2>1, <2>2
  <2>4. ProgressInv' /\ OutcomeInv'
    BY <1>1, <1>2, <1>3, <2>2, <2>3 DEF ProgressInv, OutcomeInv
  <2>5. QED
    BY <1>1, <2>4, LookupStep
<1>11. CASE VerifyPin
  <2> DEFINE stored == PinOf(Opened(role), card)
  <2>1. pc0 = "pin" /\ typed \in Pins
    BY <1>4, <1>11 DEF VerifyPin, Lookup, ProgressInv
  <2>2. /\ pc0' = "idle" /\ role' = role /\ typed' = typed
        /\ \/ /\ LockFree /\ stored # NoPin
              /\ outcome' = IF stored = typed THEN "loggedin" ELSE "wrongpin"
           \/ LockFree /\ stored = NoPin /\ outcome' = "autherror"
           \/ Fault("lock") /\ outcome' = "autherror"
    BY <1>11 DEF VerifyPin, Lookup, Show
  <2>3. Fault("lock") => faults' # 0
    BY <1>2, FaultType
  <2>4. ~lossy => /\ outcome' = "loggedin" => typed \in seen[role]
                  /\ outcome' = "wrongpin" => seen[role] \cap (Pins \ {typed}) # {}
                  /\ outcome' = "autherror" /\ faults' = 0 => seen[role] \cap {NoPin, Absent} # {}
    <3> HIDE DEF stored
    <3>1. LockFree /\ ~lossy => IF stored # NoPin THEN stored \in seen[role] \cap Pins
                                ELSE seen[role] \cap {NoPin, Absent} # {}
      BY <1>2, <1>5, <2>1 DEF stored
    <3>2. QED
      BY <2>2, <2>3, <3>1
  <2>5. outcome' \in {"loggedin", "wrongpin", "autherror"}
    BY <2>2
  <2>6. ProgressInv'
    BY <2>2 DEF ProgressInv
  <2>7. OutcomeInv'
    BY <1>1, <2>2, <2>4, <2>5 DEF OutcomeInv
  <2>8. QED
    BY <1>1, <2>6, <2>7, LookupStep
<1>12. CASE CheckColdWl \/ CheckColdDr
  <2>1. /\ pc0' \in {"idle", "colddr"}
        /\ UNCHANGED <<outcome, charged, role, typed, fareSeen, faults>>
    BY <1>12 DEF CheckColdWl, CheckColdDr, seens
  <2>2. ProgressInv'
    BY <2>1 DEF ProgressInv
  <2>3. OutcomeInv'
    BY <1>1, <1>2, <1>3, <1>4, <2>1 DEF OutcomeInv
  <2>4. QED
    BY <1>1, <2>2, <2>3, LookupStep
<1>13. QED
  BY <1>6, <1>7, <1>8, <1>9, <1>10, <1>11, <1>12 DEF Core0

---------------------------------------------------------------------------
(* The theorems. *)

\* Files, commands and lookups together.
PolicyInv == TypeOK /\ LostInv /\ ListsInv /\ LookupInv

LEMMA PolicyInvInit == Init => PolicyInv
<1> SUFFICES ASSUME Init PROVE PolicyInv
  OBVIOUS
<1>1. /\ DOMAIN Seed = Lists /\ 0 \in Fares /\ DefaultFare \in Fares
      /\ \A l \in Lists : Seed[l] \in Seq(Entry) /\ OneEach(Seed[l]) /\ Seed[l] # NoFile
  BY PolicyAssumption
<1>2. <<>> \in Seq(Edit) /\ <<>> \in Seq(Entry)
  OBVIOUS
<1>3. told \in [Lists -> [Cards -> Values]]
  BY <1>1, TableType DEF Init
<1>4. TypeOK
  BY <1>1, <1>2, <1>3, PolicyAssumption
     DEF Init, TypeOK, Core0Pcs, Core1Pcs, Outcomes, Lists, ColdStart
<1>5. LostInv
  BY <1>1, <1>2 DEF Init, LostInv, TodoInv, EmptyInv, LostListHoldsService, Core1Pcs, Rewriting
<1>6. \A l \in Lists : Opened(l) = Seed[l] /\ files[l] # NoFile /\ told[l] = Table(Seed[l])
  BY <1>1 DEF Init, Opened
<1>7. ListsInv
  BY <1>1, <1>6 DEF Init, ListsInv, AwayInv, OneEachInv, ToldInv
<1>8. LookupInv
  BY DEF Init, LookupInv, WatchInv, ProgressInv, OutcomeInv
<1>9. QED
  BY <1>4, <1>5, <1>7, <1>8 DEF PolicyInv

LEMMA LostNext == LostInv /\ [Next]_vars => LostInv'
<1> SUFFICES ASSUME LostInv, [Next]_vars PROVE LostInv'
  OBVIOUS
<1>1. CASE UNCHANGED vars
  BY <1>1 DEF vars, flash, core0, core1, history, LostInv, TodoInv, EmptyInv, Opened,
              LostListHoldsService
<1>2. CASE Core1
  BY <1>2, QuietCore1Next, CopyNext, RemoveNext, RenameNext DEF Core1
<1>3. CASE Backend
  BY <1>3, QuietCore1Next DEF Backend
<1>4. QED
  BY <1>1, <1>2, <1>3, Core0Next, PowerLossNext, BootNext DEF Next

LEMMA PolicyInvNext == PolicyInv /\ [Next]_vars => PolicyInv'
<1> SUFFICES ASSUME PolicyInv, [Next]_vars PROVE PolicyInv'
  OBVIOUS
<1> USE DEF PolicyInv
<1>1. LostInv' /\ TodoInv /\ TodoInv'
  BY LostNext DEF LostInv
<1>2. ListsInv'
  BY <1>1, ListsNext
<1>3. CASE UNCHANGED vars
  <2>1. TypeOK'
    BY <1>3 DEF TypeOK, vars, flash, core0, core1, history, seens, bounds
  <2>2. LookupInv'
    BY <1>3 DEF LookupInv, WatchInv, ProgressInv, OutcomeInv, Listed, Unlisted, vars, flash, core0,
                history, seens, bounds
  <2>3. QED
    BY <1>1, <1>2, <2>1, <2>2
<1>4. CASE Core0 \/ Person
  BY <1>1, <1>2, <1>4, Core0TypeNext, LookupGoesOn, LookupBegins
<1>5. CASE Core1 \/ Backend
  BY <1>1, <1>2, <1>5, Core1TypeNext, Core1Lookups
<1>6. CASE PowerLoss \/ Boot
  BY <1>1, <1>2, <1>6, PowerTypeNext, PowerLookups
<1>7. QED
  BY <1>3, <1>4, <1>5, <1>6 DEF Next

LEMMA PolicyInvHolds == Spec => []PolicyInv
BY PolicyInvInit, PolicyInvNext, PTL DEF Spec

\* Every list stays a sequence of entries, a rewrite under way has its command
\* and a lookup its card, for all lists, cards and downlinks.
THEOREM PolicyTypes == Spec => []TypeOK
<1>1. PolicyInv => TypeOK
  BY DEF PolicyInv
<1>2. QED
  BY <1>1, PolicyInvHolds, PTL

\* cold-start guard of setup, cold sync check of rfid_ui_task: for all lists,
\* cards and downlinks, and every loss of power, a whitelist or a list of drivers
\* that was lost keeps the terminal from serving until the backend has written
\* to it.
THEOREM LostListsHoldService == Spec => []LostListHoldsService
<1>1. PolicyInv => LostListHoldsService
  BY DEF PolicyInv, LostInv
<1>2. QED
  BY <1>1, PolicyInvHolds, PTL

\* _upsert_uid_entry, storage_remove_uid: whatever commands arrive and wherever
\* power is lost, no list ever has two entries of one card, so that a change of
\* a PIN or a revocation leaves nothing behind.
THEOREM NoCardTwice == Spec => []OneEntryPerCard
<1>1. PolicyInv => OneEntryPerCard
  <2> SUFFICES ASSUME PolicyInv, NEW l \in Lists PROVE OneEach(Current(l))
    BY DEF OneEntryPerCard
  <2>1. OneEach(Opened(l)) /\ (pc1 = "rename" => OneEach(tempFile))
    BY DEF PolicyInv, ListsInv, OneEachInv
  <2>2. powered /\ files[l] = NoFile => pc1 = "rename"
    BY DEF PolicyInv, ListsInv, AwayInv
  <2>3. QED
    BY <2>1, <2>2 DEF Current
<1>2. QED
  BY <1>1, PolicyInvHolds, PTL

\* storage_append_uid, storage_remove_uid, storage_ingest_chunk: for all lists
\* and downlinks, unless a rewrite was torn or cut short, every list says of
\* every card what the commands carried out say.
THEOREM ListsSayWhatTold == Spec => []ListsAsTold
<1>1. PolicyInv => ListsAsTold
  <2> SUFFICES ASSUME PolicyInv, ~lossy, NEW l \in Lists PROVE Table(Current(l)) = told[l]
    BY DEF ListsAsTold
  <2>1. CASE files[l] = NoFile
    <3>1. powered /\ pc1 = "rename" /\ l = Head(todo).list
      BY <2>1 DEF PolicyInv, ListsInv, AwayInv
    <3>2. Current(l) = tempFile
      BY <2>1, <3>1 DEF Current
    <3>3. QED
      BY <3>1, <3>2 DEF PolicyInv, ListsInv, ToldInv
  <2>2. CASE files[l] # NoFile
    <3>1. Current(l) = files[l]
      BY <2>2 DEF Current, Opened
    <3>2. QED
      BY <2>2, <3>1 DEF PolicyInv, ListsInv, ToldInv
  <2>3. QED
    BY <2>1, <2>2
<1>2. QED
  BY <1>1, PolicyInvHolds, PTL

\* auth_validate_tap, transaction_record: for all lists and downlinks, a rider's
\* verdict and fare are ones that were right at some time since the tap, although
\* each list is looked up in a section of its own.
THEOREM VerdictsAreCurrent == Spec => []VerdictIsCurrent
<1>1. PolicyInv => VerdictIsCurrent
  BY DEF PolicyInv, LookupInv, OutcomeInv, Listed, Unlisted, VerdictIsCurrent
<1>2. QED
  BY <1>1, PolicyInvHolds, PTL

\* auth_check_staff_uid, auth_verify_pin: for all lists and downlinks, a login
\* goes by what the list says after the PIN was typed, however long the prompt
\* waited.
THEOREM LoginsAreCurrent == Spec => []LoginIsCurrent
<1>1. PolicyInv => LoginIsCurrent
  BY DEF PolicyInv, LookupInv, OutcomeInv, Unlisted, LoginIsCurrent
<1>2. QED
  BY <1>1, PolicyInvHolds, PTL
=============================================================================
