--------------------------- MODULE MCHooksInstall ---------------------------
\* A small instance of HooksInstall: see the README for the bounds.
EXTENDS HooksInstall, TLC

Symmetry == Permutations(Other)
=============================================================================
