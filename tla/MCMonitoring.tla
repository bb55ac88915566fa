---------------------------- MODULE MCMonitoring ----------------------------
EXTENDS Monitoring, TLC

Symmetry == Permutations(Event) \cup Permutations(Reader)
=============================================================================
