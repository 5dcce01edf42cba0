------------------------------- MODULE FrontEnd -------------------------------
(***************************************************************************)
(* The passenger's side of Core 0: card reader, keypad and display, and    *)
(* the watchdog over the task that drives them.  It makes each call to the *)
(* end before the next, and the devices share neither a bus (SPI, GPIO,    *)
(* I2C) nor a variable; what one of them does is therefore explored with   *)
(* the others at rest, and the initial state says which one it is.         *)
(***************************************************************************)
EXTENDS CardReader, KeypadScan, Lcd, TaskWatchdog

VARIABLE device

vars == <<device, CR_vars, KP_vars, LC_vars, WD_vars>>

TypeOK == CR_TypeOK /\ KP_TypeOK /\ LC_TypeOK /\ WD_TypeOK

Init ==
  /\ device \in {"reader", "keypad", "display", "watchdog"}
  /\ CR_Init
  /\ KP_Init
  /\ LC_Init
  /\ WD_Init /\ (device # "watchdog" => watched = "loop" /\ booted)

Only(name, action, others) == device = name /\ action /\ UNCHANGED <<device, others>>

Next ==
  \/ Only("reader", CR_Next, <<KP_vars, LC_vars, WD_vars>>)
  \/ Only("keypad", KP_Next, <<CR_vars, LC_vars, WD_vars>>)
  \/ Only("display", LC_Next, <<CR_vars, KP_vars, WD_vars>>)
  \/ Only("watchdog", WD_Next, <<CR_vars, KP_vars, LC_vars>>)

Fairness ==
  /\ WF_vars(Only("reader", Reader, <<KP_vars, LC_vars, WD_vars>>))
  /\ SF_vars(Only("reader", Tick, <<KP_vars, LC_vars, WD_vars>>))
  /\ SF_vars(Only("keypad", Poll, <<CR_vars, LC_vars, WD_vars>>))

Spec == Init /\ [][Next]_vars /\ Fairness

=============================================================================
