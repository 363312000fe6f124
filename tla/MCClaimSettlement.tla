-------------------------- MODULE MCClaimSettlement --------------------------
\* Small instances of ClaimSettlement: see the README for the bounds.
EXTENDS ClaimSettlement, TLC

Symmetric == Permutations(Proc) \cup Permutations(ClaimId)
=============================================================================
