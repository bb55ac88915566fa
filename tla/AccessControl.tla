---------------------------- MODULE AccessControl ----------------------------
(***************************************************************************)
(* Who is let through to an admin route: the roles in user_roles, the      *)
(* access tokens that login and refresh sign with a copy of them, the      *)
(* permissions in roles, the copy of those that PermissionResolver holds,  *)
(* and the middleware Auth and RequirePermission, which look at the two    *)
(* copies only.                                                            *)
(*                                                                         *)
(* Time is counted in ticks, and only as far as it matters: a token has    *)
(* ticks left, a request in flight and a role that was taken away have an  *)
(* age.  Tokens are stateless and outlive the process.                     *)
(***************************************************************************)
EXTENDS Integers, SequencesExt

CONSTANTS
    User,
    Role,         \* rows of roles
    Char,         \* what permissions are written in
    Grant,        \* strings that the table gives to roles: any, its column is jsonb
    Wanted,       \* strings that routes ask for, "config:write" and "llm:read"
    Req,          \* goroutines serving requests
    None,         \* no user
    AccessTTL,    \* ticks an access token is valid
    MaxFlight,    \* assumed: ticks between reading roles and signing them
    MaxGrant,     \* bound: permissions of a role
    MaxFaults     \* bound: failed store calls and failed loads

ASSUME AccessBounds == /\ AccessTTL \in Nat \ {0} /\ MaxFlight \in Nat
                       /\ MaxGrant \in Nat /\ MaxFaults \in Nat
ASSUME NoneIsNobody == None \notin User

ASSUME PermissionsAreStrings == Grant \subseteq Seq(Char) /\ Wanted \subseteq Seq(Char)

Grants == {G \in SUBSET Grant : Cardinality(G) <= MaxGrant}

\* Ticks after which a role that was taken away must be of no more use.
Gone == MaxFlight + AccessTTL

VARIABLES
    granted,      \* user_roles
    permissions,  \* column permissions of roles
    cache,        \* PermissionResolver.cache
    loaded,       \* Refresh succeeded when the server started
    tokens,       \* access tokens that have not expired
    req,          \* per goroutine: what it serves, and the last answer it gave
    since,        \* history: ticks since the user last had the role, at most Gone
    atStart,      \* history: the permissions when the server started
    faults

vars == <<granted, permissions, cache, loaded, tokens, req, since, atStart, faults>>

AccessToken == [user : User, roles : SUBSET Role, left : 1..AccessTTL]
Reply == {"none", "ok", "unauthorized", "forbidden", "internal"}
\* age: ticks since the roles were read.
Request == [pc : {"idle", "sign"}, user : User \cup {None}, roles : SUBSET Role,
            age : 0..MaxFlight, reply : Reply]
Idle(code) == [pc |-> "idle", user |-> None, roles |-> {}, age |-> 0, reply |-> code]

NoPermissions == [role \in Role |-> {}]

TypeOK ==
    /\ granted \in [User -> SUBSET Role]
    /\ permissions \in [Role -> SUBSET Grant]
    /\ cache \in [Role -> SUBSET Grant]
    /\ loaded \in BOOLEAN
    /\ tokens \subseteq AccessToken
    /\ req \in [Req -> Request]
    /\ since \in [User -> [Role -> 0..Gone]]
    /\ atStart \in [Role -> SUBSET Grant]
    /\ faults \in Nat

-----------------------------------------------------------------------------
\* mutant: whatever the last character is, the rest is taken for a prefix
MatchesAnyPrefix(g, want) ==
    \/ g = <<"*">> \/ g = want
    \/ Len(g) >= 2 /\ Front(g) # <<":">> /\ IsPrefix(Front(g), want)

\* matchPermission and isPrefixWildcard: a "*" counts only at the end of what was granted,
\* behind any prefix but ":".
Matches(g, want) ==
    \/ g = <<"*">> \/ g = want
    \/ /\ Len(g) >= 2 /\ Last(g) = "*"
       /\ Front(g) # <<":">> /\ IsPrefix(Front(g), want)

\* PermissionResolver.PermissionsForRoles
PermissionsForRoles(table, roles) == UNION {table[role] : role \in roles}

\* PermissionResolver.Refresh into a new resolver, whose failure is only logged.
Load(table) ==
    \/ cache' = table /\ loaded' = TRUE /\ UNCHANGED faults
    \/ faults < MaxFaults /\ faults' = faults + 1 /\ cache' = NoPermissions /\ loaded' = FALSE

\* The database as migrations and scripts/seed.go leave it, then the first start.
Init ==
    /\ granted = [u \in User |-> {}]
    /\ permissions \in [Role -> Grants]
    /\ \/ cache = permissions /\ loaded = TRUE /\ faults = 0
       \/ MaxFaults > 0 /\ cache = NoPermissions /\ loaded = FALSE /\ faults = 1
    /\ tokens = {}
    /\ req = [r \in Req |-> Idle("none")]
    /\ since = [u \in User |-> [role \in Role |-> Gone]]
    /\ atStart = permissions

-----------------------------------------------------------------------------
\* login and refresh

Become(r, q) == req' = [req EXCEPT ![r] = q]
Answer(r, code) == Become(r, Idle(code))
KeepStores == UNCHANGED <<granted, permissions, cache, loaded, since, atStart>>

\* mutant: refresh copies the roles of the token it replaces
ReadRolesOfToken(r, u) ==
    /\ req[r].pc = "idle"
    /\ \E R \in {granted[u]} \cup {t.roles : t \in {x \in tokens : x.user = u}} :
          Become(r, [Idle("none") EXCEPT !.pc = "sign", !.user = u, !.roles = R])
    /\ KeepStores /\ UNCHANGED <<tokens, faults>>

\* RoleRepository.FindByUserID
ReadRoles(r, u) ==
    /\ req[r].pc = "idle"
    /\ \/ faults < MaxFaults /\ faults' = faults + 1 /\ Answer(r, "internal")
       \/ /\ UNCHANGED faults
          /\ Become(r, [Idle("none") EXCEPT !.pc = "sign", !.user = u, !.roles = granted[u]])
    /\ KeepStores /\ UNCHANGED tokens

\* JWTService.GenerateAccess, or an error of the store calls before it.
GenerateAccess(r) ==
    /\ req[r].pc = "sign"
    /\ \/ /\ UNCHANGED faults /\ Answer(r, "ok")
          /\ tokens' = tokens \cup {[user |-> req[r].user, roles |-> req[r].roles, left |-> AccessTTL]}
       \/ faults < MaxFaults /\ faults' = faults + 1 /\ Answer(r, "internal") /\ UNCHANGED tokens
    /\ KeepStores

-----------------------------------------------------------------------------
\* Auth, then RequirePermission, on a token that has not expired

Allowed(t, want) == \E g \in PermissionsForRoles(cache, t.roles) : Matches(g, want)

RequirePermission(r, t, want) ==
    /\ req[r].pc = "idle" /\ t \in tokens
    /\ \/ Allowed(t, want) /\ Answer(r, "ok")
       \/ ~Allowed(t, want) /\ Answer(r, "forbidden")
    /\ KeepStores /\ UNCHANGED <<tokens, faults>>

\* Auth on a token that has.
RejectExpired(r) ==
    /\ req[r].pc = "idle" /\ Answer(r, "unauthorized")
    /\ KeepStores /\ UNCHANGED <<tokens, faults>>

-----------------------------------------------------------------------------
\* The operator of the database, time and the process

GrantRole(u, role) ==
    /\ role \notin granted[u]
    /\ granted' = [granted EXCEPT ![u] = @ \cup {role}]
    /\ since' = [since EXCEPT ![u][role] = 0]
    /\ UNCHANGED <<permissions, cache, loaded, tokens, req, atStart, faults>>

RevokeRole(u, role) ==
    /\ role \in granted[u]
    /\ granted' = [granted EXCEPT ![u] = @ \ {role}]
    /\ UNCHANGED <<permissions, cache, loaded, tokens, req, since, atStart, faults>>

\* Bound: once between two starts.
SetPermissions(role, G) ==
    /\ permissions = atStart
    /\ G # permissions[role]
    /\ permissions' = [permissions EXCEPT ![role] = G]
    /\ UNCHANGED <<granted, cache, loaded, tokens, req, since, atStart, faults>>

Tick ==
    /\ \A r \in Req : req[r].pc = "sign" => req[r].age < MaxFlight
    /\ req' = [r \in Req |-> IF req[r].pc = "sign" THEN [req[r] EXCEPT !.age = @ + 1] ELSE req[r]]
    /\ tokens' = {[t EXCEPT !.left = @ - 1] : t \in {x \in tokens : x.left > 1}}
    /\ since' = [u \in User |-> [role \in Role |->
                    IF role \in granted[u] THEN 0
                    ELSE IF since[u][role] < Gone THEN since[u][role] + 1 ELSE Gone]]
    /\ UNCHANGED <<granted, permissions, cache, loaded, atStart, faults>>

Restart ==
    /\ Load(permissions)
    /\ req' = [r \in Req |-> Idle("none")]
    /\ atStart' = permissions
    /\ UNCHANGED <<granted, permissions, tokens, since>>

Next ==
    \/ \E r \in Req : \/ \E u \in User : ReadRoles(r, u)
                      \/ GenerateAccess(r)
                      \/ \E t \in tokens, want \in Wanted : RequirePermission(r, t, want)
                      \/ RejectExpired(r)
    \/ \E u \in User, role \in Role : GrantRole(u, role) \/ RevokeRole(u, role)
    \/ \E role \in Role, G \in Grants : SetPermissions(role, G)
    \/ Tick \/ Restart

Spec == Init /\ [][Next]_vars

-----------------------------------------------------------------------------
\* Properties

\* A role that was taken away is in no valid token once a request's flight and a
\* token's lifetime have passed, however often the session was refreshed meanwhile:
\* refresh.go:78 reads the roles anew.
RevokedRoleFades == \A t \in tokens : \A role \in t.roles : since[t.user][role] < Gone

\* What a granted string stands for: itself, or with a "*" at its end whatever begins so.
Covers(g, want) == g = want \/ \E n \in 0..Len(want) : g = SubSeq(want, 1, n) \o <<"*">>

\* Who is let through to a route (rbac.go:24-60) has a role, or had it within Gone, to which
\* the table gave what the route asks for when the server started: two copies lie between
\* the database and the decision, one in the token and one in the process, and neither adds
\* to it, whatever is changed in the database meanwhile and whether loading succeeded.
LetThroughIsBacked ==
    [][\A r \in Req, t \in tokens, want \in Wanted :
          RequirePermission(r, t, want) /\ req'[r].reply = "ok" =>
             \E role \in Role : /\ since[t.user][role] < Gone
                                /\ \E g \in atStart[role] : Covers(g, want)]_vars
=============================================================================
