------------------------- MODULE MCSessionLifecycle -------------------------
\* Small instances of SessionLifecycle: see the README for the bounds.
EXTENDS SessionLifecycle, TLC

Symmetric == Permutations(Proc)
=============================================================================
