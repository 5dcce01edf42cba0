---------------------------- MODULE MCTerminal ----------------------------
\* Instances of Terminal for TLC: a driver and an admin who may drive too.
EXTENDS TerminalInv

CONSTANTS s1, s2
=============================================================================
