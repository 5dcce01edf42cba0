--------------------------- MODULE MCPolicyFiles ---------------------------
\* Instance of PolicyFiles for TLC: the terminal as delivered (src/data), with
\* one card in three lists, and a second card.
EXTENDS PolicyFiles

CONSTANTS c1, c2, p1, p2

Key(u)    == [uid |-> u, pin |-> NoPin]
Staff(u, p) == [uid |-> u, pin |-> p]

McSeed == [WL |-> <<Key(c1)>>, BL |-> <<>>,
           DR |-> <<Staff(c1, p1)>>, AD |-> <<Staff(c1, p1)>>]

Do(act, list, entry) == [act |-> act, list |-> list, entry |-> entry]
SysList(edits)       == [kind |-> "list", edits |-> edits]
Commands(edits)      == [kind |-> "edits", edits |-> edits]

\* Both forms for every list, a card moved between lists, a PIN replaced, a PIN
\* lost to ADD, and a list emptied.
McDownlinks ==
  { SysList(<<Do("ADD", "WL", Key(c2)), Do("ADD", "WL", Key(c1))>>),
    SysList(<<Do("ADD", "BL", Key(c1))>>),
    SysList(<<Do("ADD", "DR", Staff(c1, p2)), Do("ADD", "DR", Staff(c2, p1))>>),
    Commands(<<Do("REM", "WL", Key(c1)), Do("ADD", "BL", Key(c1))>>),
    Commands(<<Do("REM", "BL", Key(c1)), Do("ADD", "WL", Key(c1))>>),
    Commands(<<Do("ADD", "DR", Staff(c1, p2)), Do("REM", "AD", Key(c1))>>),
    [kind |-> "fare", amount |-> 0] }
=============================================================================
