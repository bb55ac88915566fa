---------------------------- MODULE MCRateLimit ----------------------------
EXTENDS RateLimit, TLC

Symmetry == Permutations(Client)
=============================================================================
