--------------------------- MODULE TokenLifecycle ---------------------------
(***************************************************************************)
(* Refresh tokens: POST /auth/login, /auth/refresh, /auth/logout and       *)
(* /auth/change-password, over the Postgres table refresh_tokens and the   *)
(* Redis blacklist.                                                        *)
(*                                                                         *)
(* A member of Req is a server goroutine; it serves one request at a time, *)
(* and every store access of a use case is one step, so requests           *)
(* interleave where the code may be preempted.  A token stands for the     *)
(* opaque value, its hash and its row id, which name each other uniquely.  *)
(* The clock is read in the same step as the store access next to it.      *)
(***************************************************************************)
EXTENDS Integers, FiniteSets

CONSTANTS
    User,        \* accounts
    Token,       \* refresh tokens that can ever be generated
    Req,         \* goroutines serving requests
    NoToken,     \* no token; presented by a client, a value never issued
    NoUser,
    NoRow,       \* the table has no row for this token
    RefreshTTL,  \* cfg.JWT.RefreshTTL
    MaxTime,     \* bound: the clock stops here
    MaxVersion,  \* bound: password hashes stored per user
    MaxFaults    \* bound: failed store calls, Redis outages and crashes

ASSUME TTLAssumption == RefreshTTL \in Nat \ {0}
ASSUME BoundsAssumption == MaxTime \in Nat /\ MaxVersion \in Nat /\ MaxFaults \in Nat
ASSUME NoTokenAssumption == NoToken \notin Token
ASSUME ReqAssumption == IsFiniteSet(Req) /\ Req # {}

\* A row of refresh_tokens, as far as the use cases read it.
Row == [user : User, expires : Nat, revoked : BOOLEAN]
ASSUME NoRowAssumption == NoRow \notin Row

VARIABLES
    passwd,     \* users.password_hash: the n-th bcrypt hash stored for the user
    table,      \* refresh_tokens
    black,      \* Redis keys mf:revoked:<hash>: the time the key expires, 0 if none
    redisUp,    \* Redis answers commands
    client,     \* the server holds a Redis client: Ping worked when it started
    clock,
    req,        \* per goroutine: what it serves, where it is, what it has read
    known,      \* tokens some client was given in a response
    parent,     \* history: the token that was spent to mint this one
    session,    \* history: the login token this one stems from
    authVersion,\* history: the password hash the session's login was checked against
    faults      \* how many faults have happened

stores  == <<passwd, table, black, redisUp, client, clock, known>>
history == <<parent, session, authVersion>>
vars    == <<stores, history, req, faults>>

Reply == {"none", "ok", "unauthorized", "internal", "not_found", "bad_request"}
PC == {"idle",
       "login_roles", "login_create",
       "refresh_find", "refresh_sync", "refresh_roles", "refresh_revoke",
       "refresh_black", "refresh_create",
       "logout_find", "logout_revoke", "logout_black",
       "change_update", "change_revoke_all"}

\* tok: the presented token; user: the account found; at: the captured `now`;
\* ver: the password hash that was compared; reply: the last answer given.
Request == [pc : PC, tok : Token \cup {NoToken}, user : User \cup {NoUser},
            at : Nat, ver : Nat, reply : Reply]

Idle(code) == [pc |-> "idle", tok |-> NoToken, user |-> NoUser,
               at |-> 0, ver |-> 0, reply |-> code]

TypeOK ==
    /\ passwd \in [User -> Nat]
    /\ table \in [Token -> Row \cup {NoRow}]
    /\ black \in [Token -> Nat]
    /\ redisUp \in BOOLEAN
    /\ client \in BOOLEAN
    /\ clock \in Nat
    /\ req \in [Req -> Request]
    /\ known \subseteq Token
    /\ parent \in [Token -> Token \cup {NoToken}]
    /\ session \in [Token -> Token \cup {NoToken}]
    /\ authVersion \in [Token -> Nat]
    /\ faults \in Nat

Init ==
    /\ passwd = [u \in User |-> 1]
    /\ table = [t \in Token |-> NoRow]
    /\ black = [t \in Token |-> 0]
    /\ redisUp \in BOOLEAN
    /\ client = redisUp
    /\ clock = 0
    /\ req = [r \in Req |-> Idle("none")]
    /\ known = {}
    /\ parent = [t \in Token |-> NoToken]
    /\ session = [t \in Token |-> NoToken]
    /\ authVersion = [t \in Token |-> 0]
    /\ faults = 0

-----------------------------------------------------------------------------
\* Reading the state

Rows == {t \in Token : table[t] # NoRow}
Live(t) == t \in Rows /\ ~table[t].revoked
Revoked(t) == t \in Rows /\ table[t].revoked
Blacklisted(t) == t \in Token /\ clock < black[t]
IsLongExpired(row, now) == now > row.expires + RefreshTTL    \* mutant: wrong bound
IsExpired(row, now) == now > row.expires
RemainingLifetime(row, now) == IF row.expires < now THEN 0 ELSE row.expires - now

\* A refresh that has spent its token and has yet to insert the successor.
Rotating(r) == req[r].pc \in {"refresh_black", "refresh_create"}

\* Bound: a request that may insert a row starts only while a token is left for it.
Inserting == {"login_roles", "login_create", "refresh_find", "refresh_roles",
              "refresh_revoke", "refresh_black", "refresh_create"}
RoomForToken ==
    Cardinality({r \in Req : req[r].pc \in Inserting}) < Cardinality(Token \ Rows)

\* Bound: the same for the hashes that change-password requests will store.
RoomForHash(u) ==
    passwd[u] + Cardinality({r \in Req : req[r].pc = "change_update" /\ req[r].user = u})
        < MaxVersion

-----------------------------------------------------------------------------
\* Pieces of a step

Become(r, q) == req' = [req EXCEPT ![r] = q]
Answer(r, code) == Become(r, Idle(code))
Begin(r, label, t, u, ver) ==
    Become(r, [pc |-> label, tok |-> t, user |-> u, at |-> 0, ver |-> ver, reply |-> "none"])
Goto(r, label) == Become(r, [req[r] EXCEPT !.pc = label])

NoFault == UNCHANGED faults
Fault == faults < MaxFaults /\ faults' = faults + 1

KeepHistory == UNCHANGED history

\* Rows that UPDATE ... WHERE id = $1 AND revoked_at IS NULL finds.
RowsAffectedAnyway(t) == 1                          \* mutant: condition dropped
RowsAffected(t) == IF Revoked(t) THEN 0 ELSE 1

\* UPDATE ... SET revoked_at = now() WHERE id = $1 AND revoked_at IS NULL
MarkRevoked(t) == table' = [table EXCEPT ![t].revoked = TRUE]

\* mutant: only rows that have expired are swept
MarkExpiredRevoked(u) ==
    table' = [t \in Token |-> IF t \in Rows /\ table[t].user = u /\ table[t].expires < clock
                              THEN [table[t] EXCEPT !.revoked = TRUE]
                              ELSE table[t]]
\* UPDATE ... SET revoked_at = now() WHERE user_id = $1 AND revoked_at IS NULL
MarkAllRevoked(u) ==
    table' = [t \in Token |-> IF t \in Rows /\ table[t].user = u
                              THEN [table[t] EXCEPT !.revoked = TRUE]
                              ELSE table[t]]

\* INSERT INTO refresh_tokens: t is a fresh random value.
Insert(t, u, now, p, ver) ==
    /\ t \in Token \ Rows
    /\ table' = [table EXCEPT ![t] =
                    [user |-> u, expires |-> now + RefreshTTL, revoked |-> FALSE]]
    /\ parent' = [parent EXCEPT ![t] = p]
    /\ session' = [session EXCEPT ![t] = IF p = NoToken THEN t ELSE session[p]]
    /\ authVersion' = [authVersion EXCEPT ![t] = ver]

\* mutant: the lifetime is taken for an absolute time
BlacklistRevokeAt(t, ttl) ==
    black' = IF client /\ redisUp /\ ttl > 0 THEN [black EXCEPT ![t] = ttl] ELSE black
\* TokenBlacklist.Revoke, whose error every caller drops: SET key "1" EX ttl.
BlacklistRevoke(t, ttl) ==
    black' = IF client /\ redisUp /\ ttl > 0
             THEN [black EXCEPT ![t] = clock + ttl] ELSE black

-----------------------------------------------------------------------------
\* LoginUseCase.Execute

\* FindByEmail, and the password compared with the hash that was read.
LoginFind(r, u) ==
    /\ req[r].pc = "idle"
    /\ RoomForToken
    /\ \/ Fault /\ Answer(r, "internal")
       \/ NoFault /\ Answer(r, "unauthorized")      \* unknown email, wrong password
       \/ NoFault /\ Begin(r, "login_roles", NoToken, u, passwd[u])
    /\ UNCHANGED stores /\ KeepHistory

LoginRoles(r) ==
    /\ req[r].pc = "login_roles"
    /\ \/ Fault /\ Answer(r, "internal")
       \/ NoFault /\ Goto(r, "login_create")
    /\ UNCHANGED stores /\ KeepHistory

\* Create; everything after it is local.  The insert may fail, or take effect
\* although an error comes back.
LoginCreate(r) ==
    /\ req[r].pc = "login_create"
    /\ \/ /\ Fault /\ Answer(r, "internal")
          /\ UNCHANGED <<table, known>> /\ KeepHistory
       \/ \E t \in Token :
             /\ Insert(t, req[r].user, clock, NoToken, req[r].ver)
             /\ \/ Fault /\ Answer(r, "internal") /\ UNCHANGED known
                \/ NoFault /\ Answer(r, "ok") /\ known' = known \cup {t}
    /\ UNCHANGED <<passwd, black, redisUp, client, clock>>

-----------------------------------------------------------------------------
\* RefreshUseCase.Execute

RefreshIsRevoked(r, t) ==
    /\ req[r].pc = "idle"
    /\ RoomForToken
    /\ \/ ~client /\ Answer(r, "internal")
       \/ client /\ ~redisUp /\ Answer(r, "internal")
       \/ client /\ redisUp /\ Blacklisted(t) /\ Answer(r, "unauthorized")
       \/ client /\ redisUp /\ ~Blacklisted(t) /\ Begin(r, "refresh_find", t, NoUser, 0)
    /\ UNCHANGED stores /\ NoFault /\ KeepHistory

\* FindByHash, then IsExpired and IsRevoked on the row that was read, at `now`.
RefreshFind(r) ==
    LET t == req[r].tok IN
    /\ req[r].pc = "refresh_find"
    /\ \/ Fault /\ Answer(r, "internal")
       \/ NoFault /\ t \notin Rows /\ Answer(r, "unauthorized")
       \/ NoFault /\ t \in Rows /\ IsExpired(table[t], clock) /\ Answer(r, "unauthorized")
       \/ /\ NoFault /\ t \in Rows /\ ~IsExpired(table[t], clock)
          /\ Become(r, [req[r] EXCEPT !.pc = IF Revoked(t) THEN "refresh_sync" ELSE "refresh_roles",
                                      !.user = table[t].user,
                                      !.at = clock])
    /\ UNCHANGED stores /\ KeepHistory

\* The row was revoked but the blacklist did not know: sync it and reject.
RefreshSync(r) ==
    /\ req[r].pc = "refresh_sync"
    /\ BlacklistRevoke(req[r].tok, RemainingLifetime(table[req[r].tok], req[r].at))
    /\ Answer(r, "unauthorized")
    /\ UNCHANGED <<passwd, table, redisUp, client, clock, known>> /\ NoFault /\ KeepHistory

\* mutant: the blacklist is written before the table
RefreshRolesBlacklists(r) ==
    /\ req[r].pc = "refresh_roles"
    /\ Goto(r, "refresh_revoke")
    /\ BlacklistRevoke(req[r].tok, RemainingLifetime(table[req[r].tok], req[r].at))
    /\ UNCHANGED <<passwd, table, redisUp, client, clock, known>> /\ NoFault /\ KeepHistory

RefreshRoles(r) ==
    /\ req[r].pc = "refresh_roles"
    /\ \/ Fault /\ Answer(r, "internal")
       \/ NoFault /\ Goto(r, "refresh_revoke")
    /\ UNCHANGED stores /\ KeepHistory

\* Revoke returns NOT_FOUND when no row was updated, and Execute returns it as is.
RefreshRevoke(r) ==
    LET t == req[r].tok IN
    /\ req[r].pc = "refresh_revoke"
    /\ \/ /\ Fault /\ Answer(r, "internal")
          /\ UNCHANGED table \/ MarkRevoked(t)
       \/ /\ NoFault /\ RowsAffected(t) = 0 /\ Answer(r, "not_found")
          /\ UNCHANGED table
       \/ /\ NoFault /\ RowsAffected(t) = 1 /\ Goto(r, "refresh_black")
          /\ MarkRevoked(t)
    /\ UNCHANGED <<passwd, black, redisUp, client, clock, known>> /\ KeepHistory

RefreshBlacklist(r) ==
    /\ req[r].pc = "refresh_black"
    /\ BlacklistRevoke(req[r].tok, RemainingLifetime(table[req[r].tok], req[r].at))
    /\ Goto(r, "refresh_create")
    /\ UNCHANGED <<passwd, table, redisUp, client, clock, known>> /\ NoFault /\ KeepHistory

\* The successor expires RefreshTTL after the `now` captured before the revocation.
RefreshCreate(r) ==
    LET p == req[r].tok IN
    /\ req[r].pc = "refresh_create"
    /\ \/ /\ Fault /\ Answer(r, "internal")
          /\ UNCHANGED <<table, known>> /\ KeepHistory
       \/ \E t \in Token :
             /\ Insert(t, req[r].user, req[r].at, p, authVersion[p])
             /\ \/ Fault /\ Answer(r, "internal") /\ UNCHANGED known
                \/ NoFault /\ Answer(r, "ok") /\ known' = known \cup {t}
    /\ UNCHANGED <<passwd, black, redisUp, client, clock>>

-----------------------------------------------------------------------------
\* LogoutUseCase.Execute

LogoutStart(r, t) ==
    /\ req[r].pc = "idle"
    /\ Begin(r, "logout_find", t, NoUser, 0)
    /\ UNCHANGED stores /\ NoFault /\ KeepHistory

LogoutFind(r) ==
    /\ req[r].pc = "logout_find"
    /\ \/ Fault /\ Answer(r, "internal")
       \/ NoFault /\ req[r].tok \notin Rows /\ Answer(r, "ok")
       \/ NoFault /\ req[r].tok \in Rows /\ Goto(r, "logout_revoke")
    /\ UNCHANGED stores /\ KeepHistory

\* mutant: logout leaves the table to the blacklist
LogoutSkipsRevoke(r) ==
    /\ req[r].pc = "logout_revoke"
    /\ Goto(r, "logout_black")
    /\ UNCHANGED stores /\ NoFault /\ KeepHistory

\* The error of Revoke is dropped, whether nothing was updated or the call failed.
LogoutRevoke(r) ==
    /\ req[r].pc = "logout_revoke"
    /\ Goto(r, "logout_black")
    /\ \/ Fault /\ UNCHANGED table
       \/ MarkRevoked(req[r].tok) /\ NoFault
    /\ UNCHANGED <<passwd, black, redisUp, client, clock, known>> /\ KeepHistory

LogoutBlacklist(r) ==
    /\ req[r].pc = "logout_black"
    /\ BlacklistRevoke(req[r].tok, RemainingLifetime(table[req[r].tok], clock))
    /\ Answer(r, "ok")
    /\ UNCHANGED <<passwd, table, redisUp, client, clock, known>> /\ NoFault /\ KeepHistory

-----------------------------------------------------------------------------
\* ChangePasswordUseCase.Execute

\* FindByID, the current password compared, and the new one refused if it is the same or
\* longer than bcrypt takes.
ChangeFind(r, u) ==
    /\ req[r].pc = "idle"
    /\ RoomForHash(u)
    /\ \/ Fault /\ Answer(r, "internal")
       \/ NoFault /\ Answer(r, "unauthorized")
       \/ NoFault /\ Answer(r, "bad_request")
       \/ NoFault /\ Answer(r, "internal")          \* GenerateFromPassword
       \/ NoFault /\ Begin(r, "change_update", NoToken, u, 0)
    /\ UNCHANGED stores /\ KeepHistory

ChangeUpdate(r) ==
    LET StoreHash == passwd' = [passwd EXCEPT ![req[r].user] = @ + 1] IN
    /\ req[r].pc = "change_update"
    /\ \/ Fault /\ Answer(r, "internal") /\ (UNCHANGED passwd \/ StoreHash)
       \/ NoFault /\ Goto(r, "change_revoke_all") /\ StoreHash
    /\ UNCHANGED <<table, black, redisUp, client, clock, known>> /\ KeepHistory

ChangeRevokeAll(r) ==
    /\ req[r].pc = "change_revoke_all"
    /\ \/ Fault /\ Answer(r, "internal") /\ UNCHANGED table
       \/ /\ MarkAllRevoked(req[r].user)
          /\ \/ Fault /\ Answer(r, "internal")
             \/ NoFault /\ Answer(r, "ok")
    /\ UNCHANGED <<passwd, black, redisUp, client, clock, known>> /\ KeepHistory

-----------------------------------------------------------------------------
\* Time, Redis and the server process

Tick ==
    /\ clock < MaxTime
    /\ clock' = clock + 1
    /\ UNCHANGED <<passwd, table, black, redisUp, client, known, req, faults>> /\ KeepHistory

RedisDown ==
    /\ redisUp /\ Fault
    /\ redisUp' = FALSE
    /\ UNCHANGED <<passwd, table, black, client, clock, known, req>> /\ KeepHistory

\* Redis comes back, with its keys or empty.
RedisUp ==
    /\ ~redisUp
    /\ redisUp' = TRUE
    /\ black' \in {black, [t \in Token |-> 0]}
    /\ UNCHANGED <<passwd, table, client, clock, known, req, faults>> /\ KeepHistory

\* The server dies with the requests it was serving, and main() runs again.
Restart ==
    /\ Fault
    /\ req' = [r \in Req |-> Idle("none")]
    /\ client' = redisUp
    /\ UNCHANGED <<passwd, table, black, redisUp, clock, known>> /\ KeepHistory

Advance(r) ==
    \/ LoginRoles(r) \/ LoginCreate(r)
    \/ RefreshFind(r) \/ RefreshSync(r) \/ RefreshRoles(r)
    \/ RefreshRevoke(r) \/ RefreshBlacklist(r) \/ RefreshCreate(r)
    \/ LogoutFind(r) \/ LogoutRevoke(r) \/ LogoutBlacklist(r)
    \/ ChangeUpdate(r) \/ ChangeRevokeAll(r)

Start(r) ==
    \/ \E u \in User : LoginFind(r, u) \/ ChangeFind(r, u)
    \/ \E t \in known \cup {NoToken} : RefreshIsRevoked(r, t) \/ LogoutStart(r, t)

Next ==
    \/ \E r \in Req : Start(r) \/ Advance(r)
    \/ Tick \/ RedisDown \/ RedisUp \/ Restart

Spec == Init /\ [][Next]_vars

-----------------------------------------------------------------------------
\* Properties, and the invariants their proofs rest on

\* A login session is carried by at most one live token, and by none while a
\* refresh holds its spent token: the conditional UPDATE of
\* RefreshTokenRepository.Revoke never lets one session become two.
OneLivePerSession ==
    /\ \A t, s \in Token : Live(t) /\ Live(s) /\ session[t] = session[s] => t = s
    /\ \A r \in Req, t \in Token :
          Rotating(r) /\ Live(t) => session[t] # session[req[r].tok]
    /\ \A q, r \in Req :
          Rotating(q) /\ Rotating(r) /\ session[req[q].tok] = session[req[r].tok] => q = r

\* What a request in progress knows: the account it found is one, and the token it
\* goes on about has a row, which is that account's.
Deciding == {"refresh_sync", "refresh_roles", "refresh_revoke",
             "refresh_black", "refresh_create"}
LocalOK(q) ==
    /\ q.pc \in {"login_roles", "login_create", "change_update", "change_revoke_all"}
          => q.user \in User
    /\ q.pc \in Deciding => q.tok \in Rows /\ q.user = table[q.tok].user
    /\ q.pc \in {"logout_revoke", "logout_black"} => q.tok \in Rows
LocalsOK == \A r \in Req : LocalOK(req[r])

\* The ghosts describe the table: only rows have a session, and it and the parent
\* are rows; a parent has been revoked and is no longer being rotated.
HistoryOK ==
    /\ \A t \in Token \ Rows : session[t] = NoToken /\ parent[t] = NoToken
    /\ \A t \in Rows : session[t] \in Rows
    /\ \A t \in Rows : parent[t] # NoToken => Revoked(parent[t])
    /\ \A t \in Rows, r \in Req : Rotating(r) => parent[t] # req[r].tok

\* A refresh that goes on to mint has revoked the token it was given.
RotatingSpent == \A r \in Req : Rotating(r) => Revoked(req[r].tok)

\* A token is exchanged for at most one successor, ever, however many refreshes
\* present it and whichever store call fails in between (refresh.go:89-106).
SingleSuccessor ==
    \A t, s \in Token : parent[t] # NoToken /\ parent[t] = parent[s] => t = s

\* A successor's lifetime is counted from a moment at which its parent had not
\* expired, however slow the refresh: refresh.go:68 captures `now` once.
MintedInTime ==
    \A t \in Rows : parent[t] # NoToken =>
        table[t].expires <= table[parent[t]].expires + RefreshTTL

\* As long as nothing has failed, Redis knows every token that a refresh or a logout has
\* revoked until the moment it expires, whenever the lifetime of the entry was computed,
\* unless a request is about to write the entry (refresh.go:92, logout.go:39).  The sweep
\* of a change of password writes none, and at the moment of expiry, when IsExpired still
\* lets the token through, none is left: there it is revoked_at alone that protects it.
Pending(t) == \E r \in Req : req[r].tok = t /\ req[r].pc \in {"refresh_black", "logout_black"}
BlacklistComplete ==
    faults = 0 /\ client =>
        \A t \in Token : Revoked(t) /\ passwd[table[t].user] = 1 /\ clock < table[t].expires =>
            Blacklisted(t) \/ Pending(t)

\* Without faults the blacklist never runs ahead of Postgres: a token that Redis
\* rejects is revoked in the table as well, so losing Redis revives nothing.
BlacklistOnlyRevoked == faults = 0 => \A t \in Token : Blacklisted(t) => Revoked(t)

\* Live tokens of a session whose login was checked against a replaced password.
Stale(u) == {t \in Rows : Live(t) /\ table[t].user = u /\ authVersion[t] < passwd[u]}
Changing(u) == \E r \in Req : req[r].pc = "change_revoke_all" /\ req[r].user = u

\* Once a password change is over that met no fault, the sessions that survive it come from requests
\* in flight when RevokeAllForUser ran: fewer than there are goroutines.
FewStaleSessions ==
    faults = 0 =>
        \A u \in User : ~Changing(u) => Cardinality(Stale(u)) < Cardinality(Req)

\* change_password.go:47 "Revoke all refresh tokens -- force re-login on all
\* devices": after a change every live session has logged in with the new password.
ForceRelogin == \A u \in User : ~Changing(u) => Stale(u) = {}

\* Goroutine r answers code in this step, having been at one of the labels.
Replies(r, labels, code) == req[r].pc \in labels /\ req'[r] = Idle(code)

\* A logout that answers success and met no fault has revoked the presented token in
\* Postgres (logout.go:34-41, which drops the errors of Revoke).
LogoutRevokes ==
    [][\A r \in Req : Replies(r, {"logout_find", "logout_revoke", "logout_black"}, "ok")
                       /\ req[r].tok \in Rows /\ faults' = 0 => Revoked(req[r].tok)]_vars

\* The sessions of the table, seen as SessionChains sees them.
Carriers(s) == {t \in Token : Live(t) /\ session[t] = s}
IsRotating(s) == \E r \in Req : Rotating(r) /\ session[req[r].tok] = s
PhaseOf(s) ==
    IF Carriers(s) # {} THEN "live"
    ELSE IF IsRotating(s) THEN "rotating"
    ELSE IF \E t \in Token : session[t] = s THEN "ended" ELSE "unborn"
CarrierOf(s) == IF Carriers(s) = {} THEN NoToken ELSE CHOOSE t \in Carriers(s) : TRUE

Phases == [s \in Token |-> PhaseOf(s)]
CarriedBy == [s \in Token |-> CarrierOf(s)]

Chains == INSTANCE SessionChains WITH used <- Rows, phase <- Phases, carrier <- CarriedBy

\* The use cases implement the promise: each of their steps opens, spends, mints or
\* ends sessions, or changes nothing a client could tell.
ImplementsChains == Chains!ChainsSpec
=============================================================================
