----------------------------- MODULE MCBundles -----------------------------
\* A small instance of Bundles: see the README for the bounds.
EXTENDS Bundles, TLC
=============================================================================
