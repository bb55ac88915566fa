----------------------------- MODULE MCEventBus -----------------------------
EXTENDS EventBus, TLC

Symmetry == Permutations(Handler) \cup Permutations(Publisher)
=============================================================================
