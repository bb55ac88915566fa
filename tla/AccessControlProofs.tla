------------------------- MODULE AccessControlProofs -------------------------
(***************************************************************************)
(* Theorems about AccessControl, for every set of users, roles, strings    *)
(* that are granted and goroutines and every lifetime of a token.          *)
(***************************************************************************)
EXTENDS AccessControl, TLAPS

-----------------------------------------------------------------------------
\* The inductive invariant

HasIsFresh == \A u \in User : \A role \in granted[u] : since[u][role] = 0

\* A copy of a role is not older than the copy of the roles it is in.
SigningIsFresh ==
    \A r \in Req : req[r].pc = "sign" =>
        req[r].user \in User /\ \A role \in req[r].roles : since[req[r].user][role] <= req[r].age
TokensAreFresh ==
    \A t \in tokens : \A role \in t.roles : since[t.user][role] <= Gone - t.left

\* The process knows what the table said when it started, or nothing.
CacheIsLoaded == \A role \in Role : cache[role] \subseteq atStart[role]

IInv == TypeOK /\ HasIsFresh /\ SigningIsFresh /\ TokensAreFresh /\ CacheIsLoaded

LEMMA GoneIsNat == Gone \in Nat /\ AccessTTL \in Nat /\ MaxFlight \in Nat /\ AccessTTL >= 1
BY AccessBounds DEF Gone

LEMMA GrantsAreGrants == \A G \in Grants : G \subseteq Grant
BY DEF Grants

LEMMA IdleTyped ==
    ASSUME NEW code \in Reply
    PROVE  Idle(code) \in Request /\ Idle(code).pc = "idle"
BY GoneIsNat DEF Idle, Request

LEMMA InitInvariant == Init => IInv
<1> SUFFICES ASSUME Init PROVE IInv
  OBVIOUS
<1>1. Idle("none") \in Request /\ Idle("none").pc = "idle"
  BY IdleTyped DEF Reply
<1>2. permissions \in [Role -> SUBSET Grant] /\ NoPermissions \in [Role -> SUBSET Grant]
  <2>1. permissions \in [Role -> Grants]
    BY DEF Init
  <2>2. \A role \in Role : permissions[role] \in Grants /\ permissions[role] \in SUBSET Grant
    BY <2>1, GrantsAreGrants
  <2>3. permissions \in [Role -> SUBSET Grant]
    BY <2>1, <2>2
  <2> QED BY <2>3 DEF NoPermissions
<1>3. TypeOK
  <2>1. cache \in [Role -> SUBSET Grant] /\ loaded \in BOOLEAN /\ faults \in Nat
    <3>1. CASE cache = permissions /\ loaded = TRUE /\ faults = 0
      BY <1>2, <3>1
    <3>2. CASE cache = NoPermissions /\ loaded = FALSE /\ faults = 1
      <4>1. cache \in [Role -> SUBSET Grant]
        BY <1>2, <3>2
      <4>2. loaded \in BOOLEAN
        BY <3>2
      <4> QED BY <3>2, <4>1, <4>2
    <3> QED BY <3>1, <3>2 DEF Init
  <2>2. since \in [User -> [Role -> 0..Gone]]
    BY GoneIsNat DEF Init
  <2> QED BY <1>1, <1>2, <2>1, <2>2 DEF Init, TypeOK
<1>4. HasIsFresh /\ SigningIsFresh /\ TokensAreFresh
  BY <1>1 DEF Init, HasIsFresh, SigningIsFresh, TokensAreFresh
<1>5. CacheIsLoaded
  BY DEF Init, CacheIsLoaded, NoPermissions
<1> QED BY <1>3, <1>4, <1>5 DEF IInv

-----------------------------------------------------------------------------
\* Requests

\* A step of a request that issues no token.
LEMMA RequestStep ==
    ASSUME IInv, KeepStores, UNCHANGED tokens, faults' \in Nat,
           NEW r \in Req, NEW q \in Request, Become(r, q),
           q.pc = "sign" => q.user \in User /\ q.roles = granted[q.user] /\ q.age = 0
    PROVE  IInv'
<1>1. req' \in [Req -> Request] /\ \A x \in Req : req'[x] = IF x = r THEN q ELSE req[x]
  BY DEF IInv, TypeOK, Become
<1>2. TypeOK'
  BY <1>1 DEF IInv, TypeOK, KeepStores
<1>3. q.pc = "sign" => \A role \in q.roles : since[q.user][role] <= q.age
  BY DEF IInv, HasIsFresh
<1>4. SigningIsFresh'
  BY <1>1, <1>3 DEF IInv, SigningIsFresh, KeepStores
<1> QED
  BY <1>2, <1>4 DEF IInv, HasIsFresh, TokensAreFresh, CacheIsLoaded, KeepStores

LEMMA ReadRolesStep ==
    ASSUME IInv, NEW r \in Req, NEW u \in User, ReadRoles(r, u)
    PROVE  IInv'
<1>1. KeepStores /\ UNCHANGED tokens /\ faults' \in Nat
  BY DEF ReadRoles, IInv, TypeOK
<1>2. CASE Answer(r, "internal")
  <2>1. Idle("internal") \in Request /\ Idle("internal").pc = "idle"
    BY IdleTyped DEF Reply
  <2> QED BY <1>1, <1>2, <2>1, RequestStep DEF Answer
<1> DEFINE q == [Idle("none") EXCEPT !.pc = "sign", !.user = u, !.roles = granted[u]]
<1>3. CASE Become(r, q)
  <2>1. Idle("none") \in Request /\ Idle("none").age = 0
    BY IdleTyped DEF Reply, Idle
  <2>2. granted[u] \in SUBSET Role
    BY DEF IInv, TypeOK
  <2>3. q \in Request /\ q.user = u /\ q.roles = granted[u] /\ q.age = 0
    BY <2>1, <2>2 DEF Request
  <2> HIDE DEF q
  <2> QED BY <1>1, <1>3, <2>3, RequestStep
<1> QED BY <1>2, <1>3 DEF ReadRoles

LEMMA GenerateAccessStep ==
    ASSUME IInv, NEW r \in Req, GenerateAccess(r)
    PROVE  IInv'
<1>1. KeepStores /\ faults' \in Nat /\ req[r].pc = "sign"
  BY DEF GenerateAccess, IInv, TypeOK
<1>2. CASE Answer(r, "internal") /\ UNCHANGED tokens
  <2>1. Idle("internal") \in Request /\ Idle("internal").pc = "idle"
    BY IdleTyped DEF Reply
  <2> QED BY <1>1, <1>2, <2>1, RequestStep DEF Answer
<1> DEFINE t == [user |-> req[r].user, roles |-> req[r].roles, left |-> AccessTTL]
<1>3. CASE Answer(r, "ok") /\ tokens' = tokens \cup {t}
  <2>1. /\ req[r] \in Request /\ req[r].user \in User
        /\ \A role \in req[r].roles : since[req[r].user][role] <= req[r].age
    BY <1>1 DEF IInv, TypeOK, SigningIsFresh
  <2>2. /\ t.user = req[r].user /\ t.roles = req[r].roles /\ t.left = AccessTTL
        /\ t \in AccessToken
    BY <2>1, GoneIsNat DEF AccessToken, Request
  <2> HIDE DEF t
  <2>3. Idle("ok") \in Request /\ Idle("ok").pc = "idle"
    BY IdleTyped DEF Reply
  <2>4. req' \in [Req -> Request] /\ \A x \in Req : req'[x].pc = "sign" => req'[x] = req[x]
    BY <1>3, <2>3 DEF Answer, Become, IInv, TypeOK
  <2>5. TypeOK'
    BY <1>1, <1>3, <2>2, <2>4 DEF IInv, TypeOK, KeepStores
  <2>6. ASSUME NEW role \in t.roles
        PROVE  since[t.user][role] <= Gone - t.left
    <3>1. role \in Role /\ since[t.user][role] \in 0..Gone /\ req[r].age \in 0..MaxFlight
      BY <2>1, <2>2, <2>6 DEF IInv, TypeOK, Request
    <3>2. since[t.user][role] <= req[r].age
      BY <2>1, <2>2, <2>6
    <3> QED BY <2>2, <3>1, <3>2, GoneIsNat DEF Gone
  <2>7. TokensAreFresh'
    BY <1>1, <1>3, <2>6 DEF IInv, TokensAreFresh, KeepStores
  <2>8. SigningIsFresh'
    BY <1>1, <2>4 DEF IInv, SigningIsFresh, KeepStores
  <2> QED BY <1>1, <2>5, <2>7, <2>8 DEF IInv, HasIsFresh, CacheIsLoaded, KeepStores
<1> QED BY <1>2, <1>3 DEF GenerateAccess

LEMMA AdminRouteStep ==
    ASSUME IInv, NEW r \in Req,
           \/ \E t \in tokens, want \in Wanted : RequirePermission(r, t, want)
           \/ RejectExpired(r)
    PROVE  IInv'
<1>1. PICK code \in Reply : Answer(r, code)
  BY DEF RequirePermission, RejectExpired, Reply
<1>2. KeepStores /\ UNCHANGED tokens /\ faults' \in Nat
  BY DEF RequirePermission, RejectExpired, IInv, TypeOK
<1>3. Idle(code) \in Request /\ Idle(code).pc = "idle"
  BY IdleTyped
<1> QED BY <1>1, <1>2, <1>3, RequestStep DEF Answer

-----------------------------------------------------------------------------
\* The operator of the database, time and the process

LEMMA GrantRoleStep ==
    ASSUME IInv, NEW u \in User, NEW role \in Role, GrantRole(u, role)
    PROVE  IInv'
<1>1. /\ granted' \in [User -> SUBSET Role] /\ since' \in [User -> [Role -> 0..Gone]]
      /\ UNCHANGED <<permissions, cache, loaded, tokens, req, atStart, faults>>
  <2>1. granted' \in [User -> SUBSET Role]
    BY DEF GrantRole, IInv, TypeOK
  <2>2. since[u] \in [Role -> 0..Gone] /\ 0 \in 0..Gone
    BY GoneIsNat DEF IInv, TypeOK
  <2>3. [since[u] EXCEPT ![role] = 0] \in [Role -> 0..Gone]
    BY <2>2
  <2>4. since' = [since EXCEPT ![u] = [since[u] EXCEPT ![role] = 0]]
    BY DEF GrantRole
  <2>5. since' \in [User -> [Role -> 0..Gone]]
    BY <2>3, <2>4 DEF IInv, TypeOK
  <2> QED BY <2>1, <2>5 DEF GrantRole
<1>2. \A v \in User : granted'[v] = IF v = u THEN granted[v] \cup {role} ELSE granted[v]
  BY DEF GrantRole, IInv, TypeOK
<1>3. \A v \in User, x \in Role :
          since'[v][x] = IF v = u /\ x = role THEN 0 ELSE since[v][x]
  BY DEF GrantRole, IInv, TypeOK
<1>4. \A v \in User, x \in Role : since[v][x] \in Nat /\ since'[v][x] <= since[v][x]
  BY <1>3 DEF IInv, TypeOK
<1>5. TypeOK'
  BY <1>1 DEF IInv, TypeOK
<1>6. HasIsFresh'
  <2>1. \A v \in User : granted[v] \subseteq Role
    BY DEF IInv, TypeOK
  <2>2. \A v \in User : \A x \in granted'[v] : x \in Role /\ since'[v][x] = 0
    <3> SUFFICES ASSUME NEW v \in User, NEW x \in granted'[v]
                 PROVE  x \in Role /\ since'[v][x] = 0
      OBVIOUS
    <3>1. x \in granted[v] \/ (v = u /\ x = role)
      BY <1>2
    <3>2. x \in granted[v] => since[v][x] = 0
      BY DEF IInv, HasIsFresh
    <3>3. x \in Role
      BY <2>1, <3>1
    <3> QED BY <1>3, <3>1, <3>2, <3>3
  <2> QED BY <2>2 DEF HasIsFresh
<1>7. SigningIsFresh'
  <2> SUFFICES ASSUME NEW r \in Req, req[r].pc = "sign"
               PROVE  req[r].user \in User
                      /\ \A x \in req[r].roles : since'[req[r].user][x] <= req[r].age
    BY <1>1 DEF SigningIsFresh
  <2>1. req[r].user \in User /\ \A x \in req[r].roles : since[req[r].user][x] <= req[r].age
    BY DEF IInv, SigningIsFresh
  <2>2. req[r].roles \subseteq Role /\ req[r].age \in Nat
    BY GoneIsNat DEF IInv, TypeOK, Request
  <2>3. \A x \in Role : since[req[r].user][x] \in Nat /\ since'[req[r].user][x] \in Nat
    BY <1>1, <2>1 DEF IInv, TypeOK
  <2> QED BY <1>4, <2>1, <2>2, <2>3
<1>8. TokensAreFresh'
  <2> SUFFICES ASSUME NEW t \in tokens, NEW x \in t.roles
               PROVE  since'[t.user][x] <= Gone - t.left
    BY <1>1 DEF TokensAreFresh
  <2>1. since[t.user][x] <= Gone - t.left
    BY DEF IInv, TokensAreFresh
  <2>2. t.user \in User /\ x \in Role /\ t.left \in Nat
    BY GoneIsNat DEF IInv, TypeOK, AccessToken
  <2>3. since'[t.user][x] \in Nat /\ since[t.user][x] \in Nat
    BY <1>1, <2>2 DEF IInv, TypeOK
  <2> QED BY <1>4, <2>1, <2>2, <2>3, GoneIsNat
<1> QED BY <1>1, <1>5, <1>6, <1>7, <1>8 DEF IInv, CacheIsLoaded

LEMMA RevokeRoleStep ==
    ASSUME IInv, NEW u \in User, NEW role \in Role, RevokeRole(u, role)
    PROVE  IInv'
<1>1. /\ granted' \in [User -> SUBSET Role]
      /\ \A v \in User : granted'[v] \subseteq granted[v]
  BY DEF RevokeRole, IInv, TypeOK
<1>2. TypeOK'
  BY <1>1 DEF RevokeRole, IInv, TypeOK
<1> QED
  BY <1>1, <1>2 DEF RevokeRole, IInv, HasIsFresh, SigningIsFresh, TokensAreFresh, CacheIsLoaded

LEMMA SetPermissionsStep ==
    ASSUME IInv, NEW role \in Role, NEW G \in Grants, SetPermissions(role, G)
    PROVE  IInv'
<1>1. permissions' \in [Role -> SUBSET Grant]
  BY GrantsAreGrants DEF SetPermissions, IInv, TypeOK
<1>2. TypeOK'
  BY <1>1 DEF SetPermissions, IInv, TypeOK
<1> QED
  BY <1>1, <1>2
  DEF SetPermissions, IInv, HasIsFresh, SigningIsFresh, TokensAreFresh, CacheIsLoaded

LEMMA TickStep ==
    ASSUME IInv, Tick
    PROVE  IInv'
<1>1. /\ UNCHANGED <<granted, permissions, cache, loaded, atStart, faults>>
      /\ \A r \in Req : req'[r] = IF req[r].pc = "sign" THEN [req[r] EXCEPT !.age = @ + 1]
                                                        ELSE req[r]
  BY DEF Tick
<1>2. \A r \in Req : req[r] \in Request /\ req[r].age \in Nat
  BY GoneIsNat DEF IInv, TypeOK, Request
<1>3. \A r \in Req : req[r].pc = "sign" => req[r].age + 1 \in 0..MaxFlight
  BY <1>2, GoneIsNat DEF Tick
<1>4. req' \in [Req -> Request]
  <2>1. \A r \in Req : req'[r] \in Request
    BY <1>1, <1>2, <1>3 DEF Request
  <2> QED BY <2>1 DEF Tick
<1>5. /\ since' \in [User -> [Role -> 0..Gone]]
      /\ \A u \in User, role \in Role :
            since'[u][role] = IF role \in granted[u] THEN 0
                              ELSE IF since[u][role] < Gone THEN since[u][role] + 1 ELSE Gone
  <2>1. \A u \in User, role \in Role : since[u][role] \in 0..Gone
    BY DEF IInv, TypeOK
  <2> QED BY <2>1, GoneIsNat DEF Tick
<1>6. \A u \in User, role \in Role :
          since[u][role] \in Nat /\ since'[u][role] \in Nat /\ since'[u][role] <= since[u][role] + 1
  <2>1. \A u \in User, role \in Role : since[u][role] \in 0..Gone
    BY DEF IInv, TypeOK
  <2> QED BY <1>5, <2>1, GoneIsNat
<1>7. ASSUME NEW t \in tokens'
      PROVE  t \in AccessToken /\ \A role \in t.roles : since'[t.user][role] <= Gone - t.left
  <2>1. PICK x \in tokens : x.left > 1 /\ t = [x EXCEPT !.left = @ - 1]
    BY <1>7 DEF Tick
  <2>2. x \in AccessToken /\ x.left \in 1..AccessTTL /\ x.roles \subseteq Role /\ x.user \in User
    BY DEF IInv, TypeOK, AccessToken
  <2>3. /\ t.left = x.left - 1 /\ t.user = x.user /\ t.roles = x.roles
        /\ t \in AccessToken
    BY <2>1, <2>2, GoneIsNat DEF AccessToken
  <2>4. ASSUME NEW role \in t.roles
        PROVE  since'[t.user][role] <= Gone - t.left
    <3>1. since[x.user][role] <= Gone - x.left
      BY <2>3, <2>4 DEF IInv, TokensAreFresh
    <3>2. since'[x.user][role] <= since[x.user][role] + 1
          /\ since'[x.user][role] \in Nat /\ since[x.user][role] \in Nat
      BY <1>6, <2>2, <2>3, <2>4
    <3> QED BY <2>2, <2>3, <3>1, <3>2, GoneIsNat
  <2> QED BY <2>3, <2>4
<1>8. TypeOK'
  <2>1. tokens' \subseteq AccessToken
    BY <1>7
  <2> QED BY <1>1, <1>4, <1>5, <2>1 DEF IInv, TypeOK
<1>9. HasIsFresh'
  BY <1>1, <1>5 DEF IInv, TypeOK, HasIsFresh
<1>10. TokensAreFresh'
  BY <1>7 DEF TokensAreFresh
<1>11. SigningIsFresh'
  <2> SUFFICES ASSUME NEW r \in Req, req'[r].pc = "sign"
               PROVE  req'[r].user \in User
                      /\ \A role \in req'[r].roles : since'[req'[r].user][role] <= req'[r].age
    BY DEF SigningIsFresh
  <2>1. req[r].pc = "sign"
    BY <1>1
  <2>2. /\ req'[r].user = req[r].user /\ req'[r].roles = req[r].roles
        /\ req'[r].age = req[r].age + 1
    BY <1>1, <1>2, <2>1 DEF Request
  <2>3. req[r].user \in User /\ \A role \in req[r].roles : since[req[r].user][role] <= req[r].age
    BY <2>1 DEF IInv, SigningIsFresh
  <2>4. req[r].roles \subseteq Role /\ req[r].age \in Nat
    BY <1>2 DEF Request
  <2> QED BY <1>6, <2>2, <2>3, <2>4
<1> QED BY <1>1, <1>8, <1>9, <1>10, <1>11 DEF IInv, CacheIsLoaded

LEMMA RestartStep ==
    ASSUME IInv, Restart
    PROVE  IInv'
<1>1. Idle("none") \in Request /\ Idle("none").pc = "idle"
  BY IdleTyped DEF Reply
<1>2. req' \in [Req -> Request] /\ \A r \in Req : req'[r].pc = "idle"
  BY <1>1 DEF Restart
<1>3. /\ cache' \in [Role -> SUBSET Grant] /\ loaded' \in BOOLEAN /\ faults' \in Nat
      /\ \A role \in Role : cache'[role] \subseteq permissions[role]
  <2>1. permissions \in [Role -> SUBSET Grant] /\ faults \in Nat /\ Load(permissions)
    BY DEF Restart, IInv, TypeOK
  <2>2. CASE cache' = permissions /\ loaded' = TRUE /\ UNCHANGED faults
    BY <2>1, <2>2
  <2>3. CASE faults' = faults + 1 /\ cache' = NoPermissions /\ loaded' = FALSE
    <3>1. cache' = [role \in Role |-> {}]
      BY <2>3 DEF NoPermissions
    <3>2. cache' \in [Role -> SUBSET Grant] /\ \A role \in Role : cache'[role] = {}
      BY <3>1
    <3>3. loaded' \in BOOLEAN
      BY <2>3
    <3>4. faults' \in Nat
      BY <2>1, <2>3
    <3> QED BY <3>2, <3>3, <3>4
  <2> QED BY <2>1, <2>2, <2>3 DEF Load
<1>4. TypeOK'
  BY <1>2, <1>3 DEF Restart, IInv, TypeOK
<1> QED
  BY <1>2, <1>3, <1>4
  DEF Restart, IInv, HasIsFresh, SigningIsFresh, TokensAreFresh, CacheIsLoaded

LEMMA NextStep ==
    ASSUME IInv, [Next]_vars
    PROVE  IInv'
<1>1. CASE Next
  BY <1>1, ReadRolesStep, GenerateAccessStep, AdminRouteStep, GrantRoleStep, RevokeRoleStep,
     SetPermissionsStep, TickStep, RestartStep DEF Next
<1>2. CASE UNCHANGED vars
  BY <1>2 DEF vars, IInv, TypeOK, HasIsFresh, SigningIsFresh, TokensAreFresh, CacheIsLoaded
<1> QED BY <1>1, <1>2

LEMMA InvariantHolds == Spec => []IInv
<1>1. Init => IInv
  BY InitInvariant
<1>2. IInv /\ [Next]_vars => IInv'
  BY NextStep
<1> QED BY <1>1, <1>2, PTL DEF Spec

-----------------------------------------------------------------------------
\* The theorems

\* Type correctness of the tables, the copies and the requests.
THEOREM TypeCorrect == Spec => []TypeOK
<1>1. IInv => TypeOK
  BY DEF IInv
<1> QED BY <1>1, InvariantHolds, PTL

LEMMA FreshFades == IInv => RevokedRoleFades
<1> SUFFICES ASSUME IInv, NEW t \in tokens, NEW role \in t.roles
             PROVE  since[t.user][role] < Gone
  BY DEF RevokedRoleFades
<1>1. since[t.user][role] <= Gone - t.left
  BY DEF IInv, TokensAreFresh
<1>2. t.left \in 1..AccessTTL /\ since[t.user][role] \in 0..Gone
  BY DEF IInv, TypeOK, AccessToken
<1> QED BY <1>1, <1>2, GoneIsNat

\* A revoked role is in no valid token after one flight and one lifetime: refresh.go:78
\* reads the roles anew, and what it signs expires.
THEOREM RevokedRoleFadesHolds == Spec => []RevokedRoleFades
BY FreshFades, InvariantHolds, PTL

\* What matchPermission accepts is the granted string itself, or begins with what stands
\* before the "*" at its end.
LEMMA MatchesCovers ==
    ASSUME NEW g \in Grant, NEW want \in Wanted, Matches(g, want)
    PROVE  Covers(g, want)
<1>1. g \in Seq(Char) /\ want \in Seq(Char) /\ Len(g) \in Nat /\ Len(want) \in Nat
  BY PermissionsAreStrings
<1>2. CASE g = <<"*">>
  <2>1. SubSeq(want, 1, 0) = << >> /\ 0 \in 0..Len(want)
    BY <1>1
  <2>2. << >> \o <<"*">> = <<"*">>
    OBVIOUS
  <2> QED BY <1>2, <2>1, <2>2 DEF Covers
<1>3. CASE g = want
  BY <1>3 DEF Covers
<1>4. CASE Len(g) >= 2 /\ Last(g) = "*" /\ IsPrefix(Front(g), want)
  <2>1. PICK n \in Nat : n = Len(g) - 1
    BY <1>1, <1>4
  <2>2. PICK f \in Seq(Char) : f = Front(g) /\ f = SubSeq(g, 1, n) /\ Len(f) = n
    <3>1. Front(g) = SubSeq(g, 1, n)
      BY <2>1 DEF Front
    <3>2. SubSeq(g, 1, n) \in Seq(Char) /\ Len(SubSeq(g, 1, n)) = n
      BY <1>1, <1>4, <2>1
    <3> QED BY <3>1, <3>2
  <2>3. n \in 0..Len(want) /\ SubSeq(want, 1, n) = f
    <3>1. Len(f) <= Len(want) /\ SubSeq(f, 1, Len(f)) = SubSeq(want, 1, Len(f))
      BY <1>4, <2>2 DEF IsPrefix
    <3>2. SubSeq(f, 1, Len(f)) = f
      BY <2>2
    <3> QED BY <1>1, <2>1, <2>2, <3>1, <3>2
  <2>4. g = f \o <<"*">>
    <3>1. g[n + 1] = "*" /\ Len(g) = n + 1
      BY <1>1, <1>4, <2>1 DEF Last
    <3>2. \A i \in 1..n : f[i] = g[i]
      BY <1>1, <2>1, <2>2, <3>1
    <3>3. "*" \in Char
      BY <1>1, <3>1, <2>1
    <3>4. PICK h \in Seq(Char) : h = f \o <<"*">>
      <4>1. f \in Seq(Char) /\ <<"*">> \in Seq(Char)
        BY <3>3
      <4>2. f \o <<"*">> \in Seq(Char)
        BY <4>1
      <4> QED BY <4>2
    <3>5. Len(h) = n + 1
      BY <2>1, <2>2, <3>4
    <3>6. \A i \in 1..n + 1 : h[i] = g[i]
      BY <2>1, <2>2, <3>1, <3>2, <3>4
    <3> QED BY <1>1, <3>1, <3>4, <3>5, <3>6
  <2> QED BY <2>3, <2>4 DEF Covers
<1> QED BY <1>2, <1>3, <1>4 DEF Matches

\* The action of LetThroughIsBacked.
Backed ==
    \A r \in Req, t \in tokens, want \in Wanted :
        RequirePermission(r, t, want) /\ req'[r].reply = "ok" =>
           \E role \in Role : /\ since[t.user][role] < Gone
                              /\ \E g \in atStart[role] : Covers(g, want)

LEMMA AllowedIsBacked == IInv => Backed
<1> SUFFICES ASSUME IInv, NEW r \in Req, NEW t \in tokens, NEW want \in Wanted,
                    RequirePermission(r, t, want), req'[r].reply = "ok"
             PROVE  \E role \in Role : /\ since[t.user][role] < Gone
                                       /\ \E g \in atStart[role] : Covers(g, want)
  BY DEF Backed
<1>1. Allowed(t, want)
  <2>1. CASE Answer(r, "forbidden")
    BY <2>1 DEF Answer, Become, Idle, IInv, TypeOK
  <2> QED BY <2>1 DEF RequirePermission
<1>2. PICK role \in t.roles : \E g \in cache[role] : Matches(g, want)
  BY <1>1 DEF Allowed, PermissionsForRoles
<1>3. role \in Role
  BY DEF IInv, TypeOK, AccessToken
<1>4. \E g \in atStart[role] : Matches(g, want) /\ g \in Grant
  BY <1>2, <1>3 DEF IInv, CacheIsLoaded, TypeOK
<1>5. since[t.user][role] < Gone
  BY FreshFades DEF RevokedRoleFades
<1> QED BY <1>3, <1>4, <1>5, MatchesCovers

\* Nobody is let through to an admin route but by a role they have, or had no longer ago
\* than a flight and a lifetime, to which the table gave what the route asks for when the
\* server started.
THEOREM LetThroughIsBackedHolds == Spec => LetThroughIsBacked
<1>1. IInv /\ [Next]_vars => [Backed]_vars
  BY AllowedIsBacked
<1> QED BY <1>1, InvariantHolds, PTL DEF Spec, LetThroughIsBacked, Backed
=============================================================================
