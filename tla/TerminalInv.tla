---------------------------- MODULE TerminalInv ----------------------------
(***************************************************************************)
(* The invariants of Terminal that are inductive: what the proofs carry    *)
(* from step to step, and what TLC checks first.                           *)
(***************************************************************************)
EXTENDS Terminal

\* How far a handler has come goes with a state, and a login with a card.
HandlerState ==
  /\ pc0 = "idle" => state \in {"READY", "HARD_LOCKDOWN", "COLD_SYNC",
                               "OFFLINE_LOCKED", "REGISTER_MODE"}
  /\ pc0 \in {"cap", "release", "cold"} => state \in {"READY", "HARD_LOCKDOWN", "COLD_SYNC"}
  /\ pc0 = "coldDrivers" => state = "COLD_SYNC"
  /\ pc0 \in {"driver", "admin"} => state = "OFFLINE_LOCKED"
  /\ pc0 \in {"pin", "verify"} => state = "DRIVER_LOGIN"
  /\ pc0 = "logout" => state \in {"READY", "REGISTER_MODE"}
  /\ pc0 \in {"sync", "lists", "room", "append"} => state = "PROCESSING"
  /\ pc0 = "hold" => state \in {"PROCESSING", "APPROVED", "DENIED"}
  /\ pc0 = "deny" => state = "DENIED"
  /\ pc0 \in {"link", "ask"} => state = "REGISTER_MODE"

HandlerInv ==
  /\ TypeOK
  /\ HandlerState
  /\ pc0 \in {"driver", "admin", "pin", "verify"} => card \in Staff

\* The clock never shows more than has passed since sync.dat was stamped, and
\* shows exactly that until it restarts.
ClockInv ==
  /\ HandlerInv
  /\ syncTs = 0 => age = TooOld /\ ~steady
  /\ now - syncTs <= age \/ age = TooOld
  /\ steady => /\ syncTs <= now
               /\ age = IF now - syncTs < TooOld THEN now - syncTs ELSE TooOld
  /\ FareInWindow
  /\ DenialIsDue
  /\ StaleLockdownHolds

\* The session file holds nobody but the driver on shift, also while the
\* terminal waits for its lists and nobody serves.
SessionInv ==
  /\ HandlerInv
  /\ SessionAgrees
  /\ ShiftStaysClosed
  /\ ~unsaved =>
       /\ sess # NoStaff => sess = shift
       /\ pc0 = "logout" => sess = NoStaff

\* One for the run that checks them.
TerminalInvariant == ClockInv /\ SessionInv
=============================================================================
