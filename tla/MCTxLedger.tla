---------------------------- MODULE MCTxLedger ----------------------------
\* Instances of TxLedger for TLC.
EXTENDS TxLedgerInv, TLC

CONSTANTS r1, r2

\* Rider cards are interchangeable.  Used in safety runs only.
RiderSymmetry == Permutations(Uids)
=============================================================================
