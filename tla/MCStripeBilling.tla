--------------------------- MODULE MCStripeBilling ---------------------------
EXTENDS StripeBilling, TLC
Sym == Permutations(Hooks)
=============================================================================
