--------------------------- MODULE MCLedgerReader ---------------------------
\* Small instance of LedgerReader: see the README for the bounds.
EXTENDS LedgerReader, TLC

Symmetric == Permutations(Proc) \cup Permutations(Body)
=============================================================================
