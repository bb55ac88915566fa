---------------------------- MODULE SessionChains ----------------------------
(***************************************************************************)
(* What refresh-token rotation promises: a login opens a session, a        *)
(* session is carried by one token at a time, a rotation replaces that     *)
(* token by one that was never used before, and a session that has ended   *)
(* never comes back.  Nothing is said of stores, requests or clocks.       *)
(***************************************************************************)
CONSTANTS Token, NoToken

VARIABLES
    used,    \* tokens that have ever been issued
    phase,   \* per session, named by the token its login issued
    carrier  \* the token that carries the session, if one does

chainVars == <<used, phase, carrier>>

Phase == {"unborn", "live", "rotating", "ended"}

ChainsTypeOK ==
    /\ used \subseteq Token
    /\ phase \in [Token -> Phase]
    /\ carrier \in [Token -> Token \cup {NoToken}]

ChainsInit ==
    /\ used = {}
    /\ phase = [s \in Token |-> "unborn"]
    /\ carrier = [s \in Token |-> NoToken]

Open(s) ==
    /\ s \in Token \ used
    /\ phase[s] = "unborn"
    /\ used' = used \cup {s}
    /\ phase' = [phase EXCEPT ![s] = "live"]
    /\ carrier' = [carrier EXCEPT ![s] = s]

Spend(s) ==
    /\ phase[s] = "live"
    /\ phase' = [phase EXCEPT ![s] = "rotating"]
    /\ carrier' = [carrier EXCEPT ![s] = NoToken]
    /\ UNCHANGED used

\* mutant: a token that was issued before may come back
MintAgain(s, t) ==
    /\ phase[s] = "rotating"
    /\ t \in Token
    /\ phase' = [phase EXCEPT ![s] = "live"]
    /\ carrier' = [carrier EXCEPT ![s] = t]
    /\ used' = used \cup {t}

Mint(s, t) ==
    /\ phase[s] = "rotating"
    /\ t \in Token \ used
    /\ phase' = [phase EXCEPT ![s] = "live"]
    /\ carrier' = [carrier EXCEPT ![s] = t]
    /\ used' = used \cup {t}

\* Any set of sessions may end together: a sweep of a user's tokens, a crash.
End(S) ==
    /\ \A s \in S : phase[s] \in {"live", "rotating"}
    /\ phase' = [s \in Token |-> IF s \in S THEN "ended" ELSE phase[s]]
    /\ carrier' = [s \in Token |-> IF s \in S THEN NoToken ELSE carrier[s]]
    /\ UNCHANGED used

ChainsNext ==
    \/ \E S \in SUBSET Token : End(S)
    \/ \E s \in Token : Open(s) \/ Spend(s) \/ (\E t \in Token : Mint(s, t))

ChainsSpec == ChainsInit /\ [][ChainsNext]_chainVars

\* No token carries two sessions, and none carries a session that is not live.
OneSessionPerToken ==
    /\ \A s \in Token : phase[s] = "live" <=> carrier[s] # NoToken
    /\ \A s, t \in Token : carrier[s] = carrier[t] /\ carrier[s] # NoToken => s = t

\* A token that has stopped carrying its session never carries one again.
NeverReused == [][\A s \in Token : carrier'[s] # carrier[s] => carrier'[s] \notin used]_chainVars
=============================================================================
