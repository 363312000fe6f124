---------------------------- MODULE MCClaimLock ----------------------------
\* Small instances of ClaimLock: see the README for the bounds.
EXTENDS ClaimLock, TLC

CONSTANTS source, report    \* a file of the project, PR_EVIDENCE.md

MCFile   == {source, report}
MCScopes == {{source}, {source, report}}

Symmetric == Permutations(Session)
=============================================================================
