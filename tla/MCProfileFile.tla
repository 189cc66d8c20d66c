----------------------------- MODULE MCProfileFile -----------------------------
EXTENDS ProfileFile, TLC

Sym == Permutations(Contents) \cup Permutations(Consoles)
============================================================================
