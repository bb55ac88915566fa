---------------------------- MODULE MCInference ----------------------------
EXTENDS Inference, TLC

Symmetry == Permutations(User) \cup Permutations(Session) \cup Permutations(Event)
                \cup Permutations(Model) \cup Permutations(Req)
=============================================================================
