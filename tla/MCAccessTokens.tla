---------------------------- MODULE MCAccessTokens ----------------------------
EXTENDS AccessTokens, TLC

Symmetry == Permutations(Token) \cup Permutations(Req)
=============================================================================
