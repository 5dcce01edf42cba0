--------------------------- MODULE StoreForward ---------------------------
(***************************************************************************)
(* What the terminal promises of its transaction log, with no file, no     *)
(* message and no task in it: records are written one after the other,     *)
(* reach the backend oldest first, and are forgotten, oldest first, only   *)
(* when the backend has them.  (src/README.md, "Preserve ordering" and     *)
(* "Acknowledge-before-delete policy".)                                    *)
(***************************************************************************)
EXTENDS Integers

VARIABLES
  pending,   \* the records the terminal still keeps
  received,  \* the records the backend has
  next       \* the number of the next record

abstractVars == <<pending, received, next>>

Init == pending = {} /\ received = {} /\ next = 1

Write ==
  /\ pending' = pending \cup {next}
  /\ next' = next + 1
  /\ UNCHANGED received

\* A batch in which no record is missing between the oldest and the newest.
OldestOf(batch, done) ==
  \A i \in batch : \A j \in pending : j < i => j \in batch \cup done

Receive ==
  \E batch \in SUBSET pending :
    /\ OldestOf(batch, received)
    /\ received' = received \cup batch
    /\ UNCHANGED <<pending, next>>

Forget ==
  \E batch \in SUBSET (pending \cap received) :
    /\ OldestOf(batch, {})
    /\ pending' = pending \ batch
    /\ UNCHANGED <<received, next>>

Next == Write \/ Receive \/ Forget

Spec == Init /\ [][Next]_abstractVars

\* No record is lost: it is still kept, or the backend has it.
NothingLost == 1 .. next - 1 \subseteq pending \cup received
=============================================================================
