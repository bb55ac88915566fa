----------------------------- MODULE MCAccounts -----------------------------
EXTENDS Accounts, TLC

Symmetry == Permutations(User) \cup Permutations(Address) \cup Permutations(Req)
=============================================================================
