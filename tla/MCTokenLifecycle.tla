-------------------------- MODULE MCTokenLifecycle --------------------------
\* TokenLifecycle on small sets: model values that TLC may permute.
EXTENDS TokenLifecycle, TLC

Symmetry == Permutations(Token) \cup Permutations(Req)

\* What TLC takes for a state: nothing in it depends on the answers that were given, nor,
\* but for ForceRelogin and FewStaleSessions, on the version of the password compared.
Seen == <<stores, parent, session, faults, [r \in Req |-> [req[r] EXCEPT !.reply = "none", !.ver = 0]]>>
=============================================================================
