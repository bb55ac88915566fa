------------------------------ MODULE MCPaging ------------------------------
EXTENDS Paging, TLC

Symmetry == Permutations(Event) \cup Permutations(Client)
=============================================================================
