--------------------------- MODULE MCAccessControl ---------------------------
\* AccessControl on short strings: a scope "l" or "c", a colon, a verb "r" or "w".
EXTENDS AccessControl, TLC

\* "*", "l:r", "l:w", "l:*", "l*", "l:r*", ":*", "*:r"
MCGrant == {<<"*">>, <<"l", ":", "r">>, <<"l", ":", "w">>, <<"l", ":", "*">>, <<"l", "*">>,
            <<"l", ":", "r", "*">>, <<":", "*">>, <<"*", ":", "r">>}
\* "l:r" for llm:read, "c:w" for config:write
MCWanted == {<<"l", ":", "r">>, <<"c", ":", "w">>}

Symmetry == Permutations(User) \cup Permutations(Role) \cup Permutations(Req)
=============================================================================
