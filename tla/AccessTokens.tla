----------------------------- MODULE AccessTokens -----------------------------
(***************************************************************************)
(* TokenLifecycle with the access tokens that login and refresh hand out   *)
(* beside a refresh token, and that the router asks for in front of logout *)
(* and change-password.  An access token is looked up nowhere: it is valid *)
(* until it expires, whatever has become of its session.                   *)
(*                                                                         *)
(* It is signed before the row is inserted in a login, and after it in a   *)
(* refresh; in both cases others may come in between.                      *)
(***************************************************************************)
EXTENDS TokenLifecycle

CONSTANTS
    AccessTTL,  \* cfg.JWT.AccessTTL
    MaxFlight   \* assumed: ticks between the insertion of a row by a refresh and the signing

ASSUME AccessTTLAssumption == AccessTTL \in Nat \ {0}
ASSUME MaxFlightAssumption == MaxFlight \in Nat

VARIABLES
    access,   \* when the access token expires that was handed out with a refresh token;
              \* 0 where none was
    drafts,   \* per login in progress: when the access token expires that it has signed
    unsigned, \* per goroutine: the refresh token it has inserted and has to sign for
    inserted, \* per goroutine: when it did
    ended     \* history: the time at which a session was over, or Never

accessVars == <<access, drafts, unsigned, inserted, ended>>
allVars == <<vars, accessVars>>

Never == MaxTime + 1

AccessTypeOK ==
    /\ access \in [Token -> Nat]
    /\ drafts \in [Req -> Nat]
    /\ unsigned \in [Req -> Token \cup {NoToken}]
    /\ inserted \in [Req -> Nat]
    /\ ended \in [Token -> Nat]

AccessInit ==
    /\ Init
    /\ access = [t \in Token |-> 0]
    /\ drafts = [r \in Req |-> 0]
    /\ unsigned = [r \in Req |-> NoToken]
    /\ inserted = [r \in Req |-> 0]
    /\ ended = [s \in Token |-> Never]

\* Whoever was handed an access token was handed its refresh token with it.
Usable == {t \in known : access[t] # 0}
\* ParseAccess: a token is refused at the moment it expires.
Authenticates(t) == clock < access[t]
Authenticated(u) == \E t \in Usable : table[t].user = u /\ Authenticates(t)

\* A session is over that has no live row, and that no refresh holds the spent token of.
\* A refresh that has inserted the successor, and has not signed yet, keeps nothing open.
Over(s) == PhaseOf(s) = "ended"

\* Of every step: a session that is over for the first time gets its time.
Observe == ended' = [s \in Token |-> IF ended[s] = Never /\ Over(s)' THEN clock' ELSE ended[s]]

-----------------------------------------------------------------------------
\* mutant: signed for as long as the refresh token lives
ExpiryOfRefresh == clock + AccessTTL + RefreshTTL
\* GenerateAccess
Expiry == clock + AccessTTL

\* Auth refuses whoever presents no access token or one that has expired.
AuthRefuses(r) ==
    /\ req[r].pc = "idle" /\ Answer(r, "unauthorized")
    /\ UNCHANGED <<stores, history, faults>>

\* The router: logout and change-password are behind Auth; the account that changes is the
\* one of the access token, while a logout may be of any refresh token.
Admit(r) ==
    /\ unsigned[r] = NoToken
    /\ \/ AuthRefuses(r)
       \/ \E u \in User : LoginFind(r, u) \/ (Authenticated(u) /\ ChangeFind(r, u))
       \/ \E t \in Usable \cup {NoToken} :
             RefreshIsRevoked(r, t) \/ ((\E u \in User : Authenticated(u)) /\ LogoutStart(r, t))
    /\ UNCHANGED <<access, drafts, unsigned, inserted>>

LoginSign(r) ==
    /\ LoginRoles(r)
    /\ drafts' = [drafts EXCEPT ![r] = IF req'[r].pc = "login_create" THEN Expiry ELSE 0]
    /\ UNCHANGED <<access, unsigned, inserted>>

\* The answer of a login, where there is one, carries both tokens.
LoginAnswer(r) ==
    /\ LoginCreate(r)
    /\ access' = [t \in Token |-> IF t \in known' \ known THEN drafts[r] ELSE access[t]]
    /\ drafts' = [drafts EXCEPT ![r] = 0]
    /\ UNCHANGED <<unsigned, inserted>>

RefreshInsert(r) ==
    /\ RefreshCreate(r)
    /\ unsigned' = [unsigned EXCEPT ![r] = IF known' = known THEN NoToken
                                           ELSE CHOOSE t \in known' : t \notin known]
    /\ inserted' = [inserted EXCEPT ![r] = clock]
    /\ UNCHANGED <<access, drafts>>

\* The row is there when GenerateAccess fails, and its token is lost.
SignFails(r) == Fault /\ Answer(r, "internal") /\ UNCHANGED <<stores, history>>

RefreshAnswer(r) ==
    /\ unsigned[r] # NoToken
    /\ \/ access' = [access EXCEPT ![unsigned[r]] = Expiry] /\ UNCHANGED vars
       \/ SignFails(r) /\ UNCHANGED access
    /\ unsigned' = [unsigned EXCEPT ![r] = NoToken]
    /\ UNCHANGED <<drafts, inserted>>

Others(r) ==
    /\ \/ RefreshFind(r) \/ RefreshSync(r) \/ RefreshRoles(r) \/ RefreshRevoke(r) \/ RefreshBlacklist(r)
       \/ LogoutFind(r) \/ LogoutRevoke(r) \/ LogoutBlacklist(r)
       \/ ChangeUpdate(r) \/ ChangeRevokeAll(r)
    /\ UNCHANGED <<access, drafts, unsigned, inserted>>

Proceed(r) == LoginSign(r) \/ LoginAnswer(r) \/ RefreshInsert(r) \/ RefreshAnswer(r) \/ Others(r)

Crash ==
    /\ Restart
    /\ drafts' = [r \in Req |-> 0] /\ unsigned' = [r \in Req |-> NoToken]
    /\ UNCHANGED <<access, inserted>>

\* MaxFlight: no refresh that has inserted its row takes longer than that to sign.
InTime == \A r \in Req : unsigned[r] # NoToken => clock < inserted[r] + MaxFlight

World ==
    /\ (Tick /\ InTime) \/ RedisDown \/ RedisUp
    /\ UNCHANGED <<access, drafts, unsigned, inserted>>

AccessNext ==
    /\ (\E r \in Req : Admit(r) \/ Proceed(r)) \/ Crash \/ World
    /\ Observe

AccessSpec == AccessInit /\ [][AccessNext]_allVars

-----------------------------------------------------------------------------
\* Property

\* A change of password can end a session while a refresh that has inserted its live row has
\* yet to sign (refresh.go:106-111; a logout cannot name that row yet), and it signs all the
\* same.  But what a session has handed out is worthless AccessTTL after that moment, however
\* it ended, and no login or refresh signs for it any later.
AccessFades ==
    \A t \in Token : access[t] # 0 /\ ended[session[t]] # Never =>
        access[t] <= ended[session[t]] + MaxFlight + AccessTTL
=============================================================================
