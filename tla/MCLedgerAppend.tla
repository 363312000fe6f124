--------------------------- MODULE MCLedgerAppend ---------------------------
\* Small instances of LedgerAppend: see the README for the bounds.
EXTENDS LedgerAppend, TLC

Symmetric == Permutations(Proc) \cup Permutations(Body)
=============================================================================
