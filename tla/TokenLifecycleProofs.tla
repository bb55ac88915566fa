------------------------ MODULE TokenLifecycleProofs ------------------------
(***************************************************************************)
(* Theorems about TokenLifecycle, and in the last part about AccessTokens, *)
(* for every set of users, tokens and goroutines, all lifetimes and every  *)
(* bound.                                                                  *)
(***************************************************************************)
EXTENDS AccessTokens, FiniteSetTheorems, TLAPS

-----------------------------------------------------------------------------
\* How a step changes the table and one request

\* A row, once inserted, keeps its place and its user.
TableGrows == \A t \in Rows : t \in Rows' /\ table'[t].user = table[t].user

LEMMA InitTypes == Init => TypeOK /\ LocalsOK
BY DEF Init, TypeOK, LocalsOK, LocalOK, Idle, Request, PC, Reply, Deciding

LEMMA RevokeTable ==
    ASSUME TypeOK, NEW t \in Rows, MarkRevoked(t)
    PROVE  /\ table' \in [Token -> Row \cup {NoRow}]
           /\ TableGrows
           /\ Rows' = Rows
           /\ \A s \in Token : Live(s)' <=> Live(s) /\ s # t
           /\ \A s \in Token : Revoked(s)' <=> Revoked(s) \/ s = t
<1>1. table[t] \in Row /\ [table[t] EXCEPT !.revoked = TRUE] \in Row
  BY NoRowAssumption DEF TypeOK, Rows, Row
<1>2. table' = [table EXCEPT ![t] = [table[t] EXCEPT !.revoked = TRUE]]
  BY DEF MarkRevoked
<1> QED BY <1>1, <1>2, NoRowAssumption DEF TypeOK, TableGrows, Rows, Row, Live, Revoked

LEMMA RevokeAllTable ==
    ASSUME TypeOK, NEW u \in User, MarkAllRevoked(u)
    PROVE  /\ table' \in [Token -> Row \cup {NoRow}]
           /\ TableGrows
           /\ Rows' = Rows
           /\ \A s \in Token : Live(s)' => Live(s)
           /\ \A s \in Token : Revoked(s) => Revoked(s)'
<1>1. \A t \in Rows : table[t] \in Row /\ [table[t] EXCEPT !.revoked = TRUE] \in Row
  BY NoRowAssumption DEF TypeOK, Rows, Row
<1> QED BY <1>1, NoRowAssumption DEF MarkAllRevoked, TypeOK, TableGrows, Rows, Row, Live, Revoked

LEMMA InsertTable ==
    ASSUME TypeOK, NEW t \in Token, NEW u \in User, NEW now \in Nat,
           NEW p \in Token \cup {NoToken}, NEW ver \in Nat, Insert(t, u, now, p, ver)
    PROVE  /\ t \in Token \ Rows
           /\ table' \in [Token -> Row \cup {NoRow}]
           /\ TableGrows
           /\ Rows' = Rows \cup {t}
           /\ \A s \in Token : Live(s)' <=> Live(s) \/ s = t
           /\ \A s \in Token : Revoked(s)' <=> Revoked(s)
           /\ parent' \in [Token -> Token \cup {NoToken}]
           /\ session' \in [Token -> Token \cup {NoToken}]
           /\ authVersion' \in [Token -> Nat]
<1> DEFINE new == [user |-> u, expires |-> now + RefreshTTL, revoked |-> FALSE]
<1>0. now + RefreshTTL \in Nat
  BY TTLAssumption
<1>1. new \in Row
  BY <1>0 DEF Row
<1>2. table' = [table EXCEPT ![t] = new] /\ t \in Token \ Rows
  BY DEF Insert
<1> HIDE DEF new
<1>3. ~new.revoked /\ new # NoRow
  BY <1>1, NoRowAssumption DEF new
<1>4. (IF p = NoToken THEN t ELSE session[p]) \in Token \cup {NoToken}
  BY DEF TypeOK
<1>5. /\ parent' \in [Token -> Token \cup {NoToken}]
      /\ session' \in [Token -> Token \cup {NoToken}]
      /\ authVersion' \in [Token -> Nat]
  BY <1>4 DEF Insert, TypeOK
<1> QED BY <1>1, <1>2, <1>3, <1>5 DEF TypeOK, TableGrows, Rows, Live, Revoked

\* One request moves to q; the others keep what they know of a table that grows.
LEMMA BecomeKeepsLocals ==
    ASSUME TypeOK, LocalsOK, TableGrows, NEW r \in Req, NEW q \in Request,
           Become(r, q),
           /\ q.pc \in {"login_roles", "login_create", "change_update", "change_revoke_all"}
                 => q.user \in User
           /\ q.pc \in Deciding => q.tok \in Rows /\ q.user = table[q.tok].user
           /\ q.pc \in {"logout_revoke", "logout_black"} => q.tok \in Rows
    PROVE  req' \in [Req -> Request] /\ LocalsOK'
<1>1. req' \in [Req -> Request] /\ \A x \in Req : req'[x] = IF x = r THEN q ELSE req[x]
  BY DEF TypeOK, Become
<1>2. \A t \in Rows : t \in Rows' /\ table'[t].user = table[t].user
  BY DEF TableGrows
<1>3. ASSUME NEW x \in Req
      PROVE  LocalOK(req[x])'
  BY <1>1, <1>2 DEF LocalsOK, LocalOK
<1> QED BY <1>1, <1>3 DEF LocalsOK

LEMMA AnswerKeepsLocals ==
    ASSUME TypeOK, LocalsOK, TableGrows, NEW r \in Req, NEW code \in Reply, Answer(r, code)
    PROVE  req' \in [Req -> Request] /\ LocalsOK'
<1>1. Idle(code) \in Request /\ Idle(code).pc = "idle"
  BY DEF Idle, Request, PC
<1> QED BY <1>1, BecomeKeepsLocals DEF Answer, Deciding

\* A request goes on to a label that asks for no more than the one it was at.
LEMMA GotoKeepsLocals ==
    ASSUME TypeOK, LocalsOK, TableGrows, NEW r \in Req, NEW label \in PC, Goto(r, label),
           \/ /\ req[r].pc \in {"login_roles", "login_create", "change_update"}
              /\ label \in {"login_create", "change_revoke_all"}
           \/ req[r].pc \in Deciding /\ label \in Deciding
           \/ req[r].tok \in Rows /\ label \in {"logout_revoke", "logout_black"}
    PROVE  req' \in [Req -> Request] /\ LocalsOK'
<1> DEFINE q == [req[r] EXCEPT !.pc = label]
<1>1. q \in Request /\ q.pc = label /\ q.tok = req[r].tok /\ q.user = req[r].user
  BY DEF TypeOK, Request
<1>2. Become(r, q)
  BY DEF Goto
<1>3. LocalOK(req[r])
  BY DEF LocalsOK
<1> HIDE DEF q
<1> QED BY <1>1, <1>2, <1>3, BecomeKeepsLocals DEF LocalOK, Deciding

LEMMA BeginKeepsLocals ==
    ASSUME TypeOK, LocalsOK, TableGrows, NEW r \in Req,
           NEW t \in Token \cup {NoToken}, NEW u \in User \cup {NoUser}, NEW ver \in Nat,
           \/ Begin(r, "login_roles", t, u, ver) /\ u \in User
           \/ Begin(r, "change_update", t, u, ver) /\ u \in User
           \/ Begin(r, "refresh_find", t, u, ver)
           \/ Begin(r, "logout_find", t, u, ver)
    PROVE  req' \in [Req -> Request] /\ LocalsOK'
<1> DEFINE q(l) == [pc |-> l, tok |-> t, user |-> u, at |-> 0, ver |-> ver, reply |-> "none"]
<1>1. \A l \in PC : q(l) \in Request /\ q(l).pc = l /\ q(l).user = u
  BY DEF Request, Reply
<1>2. PICK l \in {"login_roles", "change_update", "refresh_find", "logout_find"} :
          Become(r, q(l)) /\ (l \in {"login_roles", "change_update"} => u \in User)
  BY DEF Begin
<1> HIDE DEF q
<1> QED BY <1>1, <1>2, BecomeKeepsLocals DEF PC, Deciding

LEMMA SameTable ==
    ASSUME UNCHANGED table
    PROVE  TableGrows /\ Rows' = Rows
BY DEF TableGrows, Rows

-----------------------------------------------------------------------------
\* Type correctness, one lemma per use case

LEMMA LoginTypes ==
    ASSUME TypeOK, LocalsOK, NEW r \in Req,
           (\E u \in User : LoginFind(r, u)) \/ LoginRoles(r) \/ LoginCreate(r)
    PROVE  TypeOK' /\ LocalsOK'
<1>1. ASSUME NEW u \in User, LoginFind(r, u)
      PROVE  TypeOK' /\ LocalsOK'
  <2>1. TableGrows
    BY <1>1, SameTable DEF LoginFind, stores
  <2>2. passwd[u] \in Nat
    BY DEF TypeOK
  <2>3. req' \in [Req -> Request] /\ LocalsOK'
    BY <1>1, <2>1, <2>2, BeginKeepsLocals, AnswerKeepsLocals DEF LoginFind, Reply
  <2> QED BY <1>1, <2>3 DEF LoginFind, TypeOK, stores, history, KeepHistory, Fault, NoFault
<1>2. CASE LoginRoles(r)
  <2>1. TableGrows
    BY <1>2, SameTable DEF LoginRoles, stores
  <2>2. req' \in [Req -> Request] /\ LocalsOK'
    BY <1>2, <2>1, GotoKeepsLocals, AnswerKeepsLocals DEF LoginRoles, Reply, PC
  <2> QED BY <1>2, <2>2 DEF LoginRoles, TypeOK, stores, history, KeepHistory, Fault, NoFault
<1>3. CASE LoginCreate(r)
  <2>1. req[r].user \in User /\ req[r].ver \in Nat /\ clock \in Nat
    BY <1>3 DEF LoginCreate, TypeOK, LocalsOK, LocalOK, Request
  <2>2. CASE UNCHANGED table /\ KeepHistory /\ UNCHANGED known /\ Answer(r, "internal")
    <3>1. TableGrows
      BY <2>2, SameTable
    <3>2. req' \in [Req -> Request] /\ LocalsOK'
      BY <2>2, <3>1, AnswerKeepsLocals DEF Reply
    <3> QED BY <1>3, <2>2, <3>2 DEF LoginCreate, TypeOK, history, KeepHistory, Fault, NoFault
  <2>3. CASE \E t \in Token :
               /\ Insert(t, req[r].user, clock, NoToken, req[r].ver)
               /\ Answer(r, "internal") \/ Answer(r, "ok")
               /\ known' \in {known, known \cup {t}}
    <3>1. PICK t \in Token :
             /\ Insert(t, req[r].user, clock, NoToken, req[r].ver)
             /\ Answer(r, "internal") \/ Answer(r, "ok")
             /\ known' \in {known, known \cup {t}}
      BY <2>3
    <3>2. /\ table' \in [Token -> Row \cup {NoRow}]
          /\ TableGrows
          /\ parent' \in [Token -> Token \cup {NoToken}]
          /\ session' \in [Token -> Token \cup {NoToken}]
          /\ authVersion' \in [Token -> Nat]
      BY <2>1, <3>1, InsertTable
    <3>3. req' \in [Req -> Request] /\ LocalsOK'
      BY <3>1, <3>2, AnswerKeepsLocals DEF Reply
    <3> QED BY <1>3, <3>1, <3>2, <3>3 DEF LoginCreate, TypeOK, Fault, NoFault
  <2> QED BY <1>3, <2>2, <2>3 DEF LoginCreate
<1> QED BY <1>1, <1>2, <1>3

LEMMA BlacklistTypes ==
    ASSUME TypeOK, NEW t \in Rows, NEW now \in Nat,
           BlacklistRevoke(t, RemainingLifetime(table[t], now))
    PROVE  black' \in [Token -> Nat]
<1>1. table[t].expires \in Nat
  BY DEF TypeOK, Rows, Row
<1>2. RemainingLifetime(table[t], now) \in Nat
  BY <1>1 DEF RemainingLifetime
<1>3. clock + RemainingLifetime(table[t], now) \in Nat
  BY <1>2 DEF TypeOK
<1> QED BY <1>3 DEF BlacklistRevoke, TypeOK

LEMMA RefreshReadTypes ==
    ASSUME TypeOK, LocalsOK, NEW r \in Req, NEW t \in known \cup {NoToken},
           RefreshIsRevoked(r, t) \/ RefreshFind(r) \/ RefreshRoles(r)
    PROVE  TypeOK' /\ LocalsOK'
<1>1. UNCHANGED stores /\ KeepHistory /\ (Fault \/ NoFault)
  BY DEF RefreshIsRevoked, RefreshFind, RefreshRoles
<1>2. TableGrows
  BY <1>1, SameTable DEF stores
<1>3. RefreshIsRevoked(r, t) => req' \in [Req -> Request] /\ LocalsOK'
  <2>1. t \in Token \cup {NoToken}
    BY DEF TypeOK
  <2> QED BY <1>2, <2>1, BeginKeepsLocals, AnswerKeepsLocals DEF RefreshIsRevoked, Reply
<1>4. ASSUME RefreshFind(r)
      PROVE  req' \in [Req -> Request] /\ LocalsOK'
  <2> DEFINE f == req[r].tok
             l == IF Revoked(f) THEN "refresh_sync" ELSE "refresh_roles"
             q == [req[r] EXCEPT !.pc = l, !.user = table[f].user, !.at = clock]
  <2>1. CASE f \in Rows /\ Become(r, q)
    <3>1. table[f].user \in User
      BY <2>1 DEF TypeOK, Rows, Row
    <3>2. l \in {"refresh_sync", "refresh_roles"}
      OBVIOUS
    <3>3. q \in Request /\ q.pc = l /\ q.tok = f /\ q.user = table[f].user
      BY <3>1, <3>2 DEF TypeOK, Request, PC
    <3> HIDE DEF q, l
    <3> QED BY <1>2, <2>1, <3>2, <3>3, BecomeKeepsLocals DEF Deciding
  <2>2. CASE Answer(r, "internal") \/ Answer(r, "unauthorized")
    BY <1>2, <2>2, AnswerKeepsLocals DEF Reply
  <2> QED BY <1>4, <2>1, <2>2 DEF RefreshFind
<1>5. RefreshRoles(r) => req' \in [Req -> Request] /\ LocalsOK'
  BY <1>2, GotoKeepsLocals, AnswerKeepsLocals DEF RefreshRoles, Reply, PC, Deciding
<1>6. req' \in [Req -> Request] /\ LocalsOK'
  BY <1>3, <1>4, <1>5
<1> QED BY <1>1, <1>6 DEF TypeOK, stores, history, KeepHistory, Fault, NoFault

LEMMA RefreshWriteTypes ==
    ASSUME TypeOK, LocalsOK, NEW r \in Req,
           RefreshSync(r) \/ RefreshRevoke(r) \/ RefreshBlacklist(r) \/ RefreshCreate(r)
    PROVE  TypeOK' /\ LocalsOK'
<1> DEFINE f == req[r].tok
<1>1. /\ f \in Rows /\ f \in Token /\ req[r].pc \in Deciding
      /\ req[r].user \in User /\ req[r].at \in Nat
  <2>1. f \in Rows /\ req[r].user = table[f].user /\ req[r].pc \in Deciding
    BY DEF LocalsOK, LocalOK, Deciding, RefreshSync, RefreshRevoke, RefreshBlacklist, RefreshCreate
  <2> QED BY <2>1 DEF TypeOK, Request, Rows, Row
<1>2. CASE RefreshSync(r) \/ RefreshBlacklist(r)
  <2>1. UNCHANGED table /\ BlacklistRevoke(f, RemainingLifetime(table[f], req[r].at))
    BY <1>2 DEF RefreshSync, RefreshBlacklist
  <2>2. TableGrows /\ black' \in [Token -> Nat]
    BY <1>1, <2>1, SameTable, BlacklistTypes
  <2>3. req' \in [Req -> Request] /\ LocalsOK'
    BY <1>1, <1>2, <2>2, GotoKeepsLocals, AnswerKeepsLocals
       DEF RefreshSync, RefreshBlacklist, Reply, PC, Deciding
  <2> QED BY <1>2, <2>2, <2>3
          DEF RefreshSync, RefreshBlacklist, TypeOK, history, KeepHistory, Fault, NoFault
<1>3. CASE RefreshRevoke(r)
  <2>1. UNCHANGED table \/ MarkRevoked(f)
    BY <1>3 DEF RefreshRevoke
  <2>2. TableGrows /\ table' \in [Token -> Row \cup {NoRow}]
    BY <1>1, <2>1, SameTable, RevokeTable DEF TypeOK
  <2>3. req' \in [Req -> Request] /\ LocalsOK'
    BY <1>1, <1>3, <2>2, GotoKeepsLocals, AnswerKeepsLocals DEF RefreshRevoke, Reply, PC, Deciding
  <2> QED BY <1>3, <2>2, <2>3 DEF RefreshRevoke, TypeOK, history, KeepHistory, Fault, NoFault
<1>4. CASE RefreshCreate(r)
  <2>1. CASE UNCHANGED table /\ KeepHistory /\ UNCHANGED known /\ Answer(r, "internal")
    <3>1. req' \in [Req -> Request] /\ LocalsOK'
      BY <2>1, SameTable, AnswerKeepsLocals DEF Reply
    <3> QED BY <1>4, <2>1, <3>1 DEF RefreshCreate, TypeOK, history, KeepHistory, Fault, NoFault
  <2>2. CASE \E t \in Token :
               /\ Insert(t, req[r].user, req[r].at, f, authVersion[f])
               /\ Answer(r, "internal") \/ Answer(r, "ok")
               /\ known' \in {known, known \cup {t}}
    <3>1. PICK t \in Token :
             /\ Insert(t, req[r].user, req[r].at, f, authVersion[f])
             /\ Answer(r, "internal") \/ Answer(r, "ok")
             /\ known' \in {known, known \cup {t}}
      BY <2>2
    <3>2. authVersion[f] \in Nat
      BY <1>1 DEF TypeOK
    <3>3. /\ table' \in [Token -> Row \cup {NoRow}]
          /\ TableGrows
          /\ parent' \in [Token -> Token \cup {NoToken}]
          /\ session' \in [Token -> Token \cup {NoToken}]
          /\ authVersion' \in [Token -> Nat]
      BY <1>1, <3>1, <3>2, InsertTable
    <3>4. req' \in [Req -> Request] /\ LocalsOK'
      BY <3>1, <3>3, AnswerKeepsLocals DEF Reply
    <3> QED BY <1>4, <3>1, <3>3, <3>4 DEF RefreshCreate, TypeOK, Fault, NoFault
  <2> QED BY <1>4, <2>1, <2>2 DEF RefreshCreate
<1> QED BY <1>2, <1>3, <1>4

LEMMA LogoutTypes ==
    ASSUME TypeOK, LocalsOK, NEW r \in Req, NEW t \in known \cup {NoToken},
           LogoutStart(r, t) \/ LogoutFind(r) \/ LogoutRevoke(r) \/ LogoutBlacklist(r)
    PROVE  TypeOK' /\ LocalsOK'
<1>1. CASE LogoutStart(r, t)
  <2>1. t \in Token \cup {NoToken}
    BY DEF TypeOK
  <2>2. req' \in [Req -> Request] /\ LocalsOK'
    BY <1>1, <2>1, SameTable, BeginKeepsLocals DEF LogoutStart, stores
  <2> QED BY <1>1, <2>2 DEF LogoutStart, TypeOK, stores, history, KeepHistory, NoFault
<1>2. CASE LogoutFind(r)
  <2>1. req' \in [Req -> Request] /\ LocalsOK'
    BY <1>2, SameTable, GotoKeepsLocals, AnswerKeepsLocals DEF LogoutFind, stores, Reply, PC
  <2> QED BY <1>2, <2>1 DEF LogoutFind, TypeOK, stores, history, KeepHistory, Fault, NoFault
<1>3. ASSUME LogoutRevoke(r) \/ LogoutBlacklist(r)
      PROVE  req[r].tok \in Rows
  BY <1>3 DEF LocalsOK, LocalOK, LogoutRevoke, LogoutBlacklist
<1>4. CASE LogoutRevoke(r)
  <2>1. TableGrows /\ table' \in [Token -> Row \cup {NoRow}]
    BY <1>3, <1>4, SameTable, RevokeTable DEF LogoutRevoke, TypeOK
  <2>2. req' \in [Req -> Request] /\ LocalsOK'
    BY <1>3, <1>4, <2>1, GotoKeepsLocals DEF LogoutRevoke, PC
  <2> QED BY <1>4, <2>1, <2>2 DEF LogoutRevoke, TypeOK, history, KeepHistory, Fault, NoFault
<1>5. CASE LogoutBlacklist(r)
  <2>1. black' \in [Token -> Nat]
    BY <1>3, <1>5, BlacklistTypes DEF LogoutBlacklist, TypeOK
  <2>2. req' \in [Req -> Request] /\ LocalsOK'
    BY <1>5, SameTable, AnswerKeepsLocals DEF LogoutBlacklist, Reply
  <2> QED BY <1>5, <2>1, <2>2 DEF LogoutBlacklist, TypeOK, history, KeepHistory, NoFault
<1> QED BY <1>1, <1>2, <1>4, <1>5

LEMMA ChangeTypes ==
    ASSUME TypeOK, LocalsOK, NEW r \in Req,
           (\E u \in User : ChangeFind(r, u)) \/ ChangeUpdate(r) \/ ChangeRevokeAll(r)
    PROVE  TypeOK' /\ LocalsOK'
<1>1. ASSUME NEW u \in User, ChangeFind(r, u)
      PROVE  TypeOK' /\ LocalsOK'
  <2>1. req' \in [Req -> Request] /\ LocalsOK'
    BY <1>1, SameTable, BeginKeepsLocals, AnswerKeepsLocals DEF ChangeFind, stores, Reply
  <2> QED BY <1>1, <2>1 DEF ChangeFind, TypeOK, stores, history, KeepHistory, Fault, NoFault
<1>2. CASE ChangeUpdate(r)
  <2>1. passwd' \in [User -> Nat]
    BY <1>2 DEF ChangeUpdate, TypeOK
  <2>2. req' \in [Req -> Request] /\ LocalsOK'
    BY <1>2, SameTable, GotoKeepsLocals, AnswerKeepsLocals DEF ChangeUpdate, Reply, PC
  <2> QED BY <1>2, <2>1, <2>2 DEF ChangeUpdate, TypeOK, history, KeepHistory, Fault, NoFault
<1>3. CASE ChangeRevokeAll(r)
  <2>1. req[r].user \in User
    BY <1>3 DEF ChangeRevokeAll, LocalsOK, LocalOK
  <2>2. TableGrows /\ table' \in [Token -> Row \cup {NoRow}]
    BY <1>3, <2>1, SameTable, RevokeAllTable DEF ChangeRevokeAll, TypeOK
  <2>3. req' \in [Req -> Request] /\ LocalsOK'
    BY <1>3, <2>2, AnswerKeepsLocals DEF ChangeRevokeAll, Reply
  <2> QED BY <1>3, <2>2, <2>3 DEF ChangeRevokeAll, TypeOK, history, KeepHistory, Fault, NoFault
<1> QED BY <1>1, <1>2, <1>3

LEMMA EnvironmentTypes ==
    ASSUME TypeOK, LocalsOK, Tick \/ RedisDown \/ RedisUp \/ Restart
    PROVE  TypeOK' /\ LocalsOK'
<1>1. CASE Tick \/ RedisDown \/ RedisUp
  <2>1. UNCHANGED <<table, req>>
    BY <1>1 DEF Tick, RedisDown, RedisUp
  <2>2. LocalsOK'
    BY <2>1 DEF LocalsOK, LocalOK, Rows
  <2>3. black' \in [Token -> Nat]
    BY <1>1 DEF Tick, RedisDown, RedisUp, TypeOK
  <2>4. redisUp' \in BOOLEAN
    <3>1. redisUp' = redisUp \/ redisUp' = TRUE \/ redisUp' = FALSE
      BY <1>1 DEF Tick, RedisDown, RedisUp
    <3> QED BY <3>1 DEF TypeOK
  <2>5. clock' \in Nat /\ faults' \in Nat
    BY <1>1 DEF Tick, RedisDown, RedisUp, TypeOK, Fault
  <2>6. UNCHANGED <<passwd, client, known, parent, session, authVersion>>
    BY <1>1 DEF Tick, RedisDown, RedisUp, KeepHistory, history
  <2> QED BY <2>1, <2>2, <2>3, <2>4, <2>5, <2>6 DEF TypeOK
<1>2. CASE Restart
  <2>1. Idle("none") \in Request /\ Idle("none").pc = "idle"
    BY DEF Idle, Request, PC, Reply
  <2> QED BY <1>2, <2>1 DEF Restart, TypeOK, LocalsOK, LocalOK, Deciding, history, KeepHistory, Fault
<1> QED BY <1>1, <1>2

LEMMA NextTypes == TypeOK /\ LocalsOK /\ [Next]_vars => TypeOK' /\ LocalsOK'
<1> SUFFICES ASSUME TypeOK, LocalsOK, [Next]_vars
             PROVE  TypeOK' /\ LocalsOK'
  OBVIOUS
<1>1. CASE UNCHANGED vars
  BY <1>1 DEF vars, stores, history, TypeOK, LocalsOK, LocalOK, Rows
<1>2. ASSUME NEW r \in Req, Start(r)
      PROVE  TypeOK' /\ LocalsOK'
  BY <1>2, LoginTypes, ChangeTypes, RefreshReadTypes, LogoutTypes DEF Start
<1>3. ASSUME NEW r \in Req, Advance(r)
      PROVE  TypeOK' /\ LocalsOK'
  <2>1. CASE LoginRoles(r) \/ LoginCreate(r) \/ ChangeUpdate(r) \/ ChangeRevokeAll(r)
    BY <2>1, LoginTypes, ChangeTypes
  <2>2. CASE RefreshFind(r) \/ RefreshRoles(r) \/ LogoutFind(r) \/ LogoutRevoke(r) \/ LogoutBlacklist(r)
    BY <2>2, RefreshReadTypes, LogoutTypes
  <2>3. CASE RefreshSync(r) \/ RefreshRevoke(r) \/ RefreshBlacklist(r) \/ RefreshCreate(r)
    BY <2>3, RefreshWriteTypes
  <2> QED BY <1>3, <2>1, <2>2, <2>3 DEF Advance
<1>4. CASE Tick \/ RedisDown \/ RedisUp \/ Restart
  BY <1>4, EnvironmentTypes
<1> QED BY <1>1, <1>2, <1>3, <1>4 DEF Next

\* Every variable keeps its type, and a request in progress names rows and users
\* that exist: no use case dereferences a row it has not found.
THEOREM TypeCorrect == Spec => [](TypeOK /\ LocalsOK)
<1>1. Init => TypeOK /\ LocalsOK
  BY InitTypes
<1>2. TypeOK /\ LocalsOK /\ [Next]_vars => TypeOK' /\ LocalsOK'
  BY NextTypes
<1> QED BY <1>1, <1>2, PTL DEF Spec

-----------------------------------------------------------------------------
\* Sessions.  Every step has one of three effects on them.

\* Tokens may die and rotations may be given up; nothing is issued.
Shrinks ==
    /\ Rows' = Rows /\ session' = session /\ parent' = parent
    /\ \A t \in Token : Live(t)' => Live(t)
    /\ \A t \in Token : Revoked(t) => Revoked(t)'
    /\ \A q \in Req : Rotating(q)' => Rotating(q) /\ req'[q].tok = req[q].tok

\* Goroutine r spends its live token and from then on rotates it.
Spends(r) ==
    /\ Rows' = Rows /\ session' = session /\ parent' = parent
    /\ req[r].tok \in Token /\ Live(req[r].tok)
    /\ \A t \in Token : Live(t)' <=> Live(t) /\ t # req[r].tok
    /\ \A t \in Token : Revoked(t)' <=> Revoked(t) \/ t = req[r].tok
    /\ Rotating(r)' /\ req'[r].tok = req[r].tok
    /\ \A q \in Req \ {r} : req'[q] = req[q]

\* Goroutine r issues the fresh token t: by a login, or for the token it rotates.
Issues(r, t, p) ==
    /\ t \in Token \ Rows /\ Rows' = Rows \cup {t}
    /\ IF p = NoToken THEN ~Rotating(r) ELSE Rotating(r) /\ p = req[r].tok
    /\ \A x \in Token : Live(x)' <=> Live(x) \/ x = t
    /\ \A x \in Token : Revoked(x)' <=> Revoked(x)
    /\ \A x \in Token : parent'[x] = IF x = t THEN p ELSE parent[x]
    /\ \A x \in Token : session'[x] = IF x # t THEN session[x]
                                    ELSE IF p = NoToken THEN t ELSE session[p]
    /\ ~Rotating(r)'
    /\ \A q \in Req \ {r} : req'[q] = req[q]

Effect ==
    \/ Shrinks
    \/ \E r \in Req : Spends(r)
    \/ \E r \in Req, t \in Token, p \in Token \cup {NoToken} : Issues(r, t, p)

SessionInv == HistoryOK /\ RotatingSpent /\ OneLivePerSession /\ SingleSuccessor

LEMMA RowsAreTokens == Rows \subseteq Token
BY DEF Rows

LEMMA ShrinksKeeps ==
    ASSUME SessionInv, Shrinks
    PROVE  SessionInv'
<1>1. HistoryOK'
  BY RowsAreTokens DEF SessionInv, HistoryOK, Shrinks, Revoked
<1>2. RotatingSpent'
  BY RowsAreTokens DEF SessionInv, RotatingSpent, Shrinks, Revoked
<1>3. OneLivePerSession'
  BY DEF SessionInv, OneLivePerSession, Shrinks
<1>4. SingleSuccessor'
  BY DEF SessionInv, SingleSuccessor, Shrinks
<1> QED BY <1>1, <1>2, <1>3, <1>4 DEF SessionInv

LEMMA SpendsKeeps ==
    ASSUME SessionInv, NEW r \in Req, Spends(r)
    PROVE  SessionInv'
<1> DEFINE f == req[r].tok
<1>0. \A q \in Req \ {r} : Rotating(q)' <=> Rotating(q)
  BY DEF Spends, Rotating
<1>1. HistoryOK'
  <2>1. \A t \in Rows : parent[t] # f
    BY NoTokenAssumption DEF SessionInv, HistoryOK, Spends, Live, Revoked
  <2>2. \A t \in Token \ Rows' : session'[t] = NoToken /\ parent'[t] = NoToken
    BY DEF SessionInv, HistoryOK, Spends
  <2>3. \A t \in Rows' : session'[t] \in Rows'
    BY DEF SessionInv, HistoryOK, Spends
  <2>4. \A t \in Rows' : parent'[t] # NoToken => Revoked(parent[t])'
    BY RowsAreTokens DEF SessionInv, HistoryOK, Spends, Revoked
  <2>5. ASSUME NEW t \in Rows', NEW q \in Req, Rotating(q)'
        PROVE  parent'[t] # req'[q].tok
    BY <1>0, <2>1, <2>5 DEF SessionInv, HistoryOK, Spends
  <2> QED BY <2>2, <2>3, <2>4, <2>5 DEF HistoryOK, Revoked
<1>2. RotatingSpent'
  BY <1>0, RowsAreTokens DEF SessionInv, RotatingSpent, Spends, Revoked
<1>3. OneLivePerSession'
  BY <1>0 DEF SessionInv, OneLivePerSession, Spends
<1>4. SingleSuccessor'
  BY DEF SessionInv, SingleSuccessor, Spends
<1> QED BY <1>1, <1>2, <1>3, <1>4 DEF SessionInv

LEMMA IssuesKeeps ==
    ASSUME SessionInv, NEW r \in Req, NEW t \in Token, NEW p \in Token \cup {NoToken},
           Issues(r, t, p)
    PROVE  SessionInv'
<1>0. \A q \in Req : Rotating(q)' => q # r /\ Rotating(q) /\ req'[q].tok = req[q].tok
  BY DEF Issues, Rotating
<1>1. \A q \in Req : Rotating(q) => req[q].tok \in Rows /\ session[req[q].tok] \in Rows
  BY DEF SessionInv, RotatingSpent, HistoryOK, Revoked, Rows
<1>2. p # NoToken => Rotating(r) /\ p = req[r].tok /\ p \in Rows /\ session[p] \in Rows /\ Revoked(p)
  BY <1>1 DEF Issues, SessionInv, RotatingSpent
<1>3. \A x \in Rows : x # t /\ x \in Token /\ session[x] \in Rows /\ session[x] # t
  BY DEF Issues, SessionInv, HistoryOK, Rows
<1>4. \A x \in Token : Live(x) => x \in Rows
  BY DEF Live
<1>5. RotatingSpent'
  BY <1>0, <1>1, <1>3 DEF SessionInv, RotatingSpent, Issues
<1>6. OneLivePerSession'
  <2>1. ASSUME NEW x \in Token, NEW y \in Token, Live(x)', Live(y)', session'[x] = session'[y]
        PROVE  x = y
    BY <1>2, <1>3, <1>4, <2>1 DEF SessionInv, OneLivePerSession, Issues
  <2>2. ASSUME NEW q \in Req, NEW x \in Token, Rotating(q)', Live(x)'
        PROVE  session'[x] # session'[req'[q].tok]
    BY <1>0, <1>1, <1>2, <1>3, <1>4, <2>2 DEF SessionInv, OneLivePerSession, Issues
  <2>3. ASSUME NEW q \in Req, NEW o \in Req, Rotating(q)', Rotating(o)',
               session'[req'[q].tok] = session'[req'[o].tok]
        PROVE  q = o
    BY <1>0, <1>1, <1>3, <2>3 DEF SessionInv, OneLivePerSession, Issues
  <2> QED BY <2>1, <2>2, <2>3 DEF OneLivePerSession
<1>7. HistoryOK'
  <2>1. \A x \in Token \ Rows' : session'[x] = NoToken /\ parent'[x] = NoToken
    BY DEF SessionInv, HistoryOK, Issues
  <2>2. \A x \in Rows' : session'[x] \in Rows'
    BY <1>2, <1>3 DEF Issues
  <2>3. \A x \in Rows' : parent'[x] # NoToken => Revoked(parent[x])'
    BY <1>2, <1>3, RowsAreTokens DEF SessionInv, HistoryOK, Issues, Revoked
  <2>4. ASSUME NEW x \in Rows', NEW q \in Req, Rotating(q)'
        PROVE  parent'[x] # req'[q].tok
    BY <1>0, <1>1, <1>2, <1>3, <2>4, NoTokenAssumption
       DEF SessionInv, HistoryOK, OneLivePerSession, Issues
  <2> QED BY <2>1, <2>2, <2>3, <2>4 DEF HistoryOK, Revoked
<1>8. SingleSuccessor'
  <2>1. ASSUME NEW x \in Token, NEW y \in Token, parent'[x] # NoToken, parent'[x] = parent'[y]
        PROVE  x = y
    BY <1>2, <2>1 DEF SessionInv, SingleSuccessor, HistoryOK, Issues
  <2> QED BY <2>1 DEF SingleSuccessor
<1> QED BY <1>5, <1>6, <1>7, <1>8 DEF SessionInv

\* A goroutine that goes where nothing is rotated, over a table that only loses
\* live tokens.
LEMMA ShrinkingStep ==
    ASSUME TypeOK, NEW r \in Req, NEW q \in Request, Become(r, q), KeepHistory,
           \/ q.pc \notin {"refresh_black", "refresh_create"}
           \/ Rotating(r) /\ q.tok = req[r].tok,
           \/ UNCHANGED table
           \/ \E t \in Rows : MarkRevoked(t)
           \/ \E u \in User : MarkAllRevoked(u)
    PROVE  Shrinks
<1>1. \A x \in Req : Rotating(x)' => Rotating(x) /\ req'[x].tok = req[x].tok
  BY DEF TypeOK, Become, Rotating
<1>2. /\ Rows' = Rows
      /\ \A t \in Token : Live(t)' => Live(t)
      /\ \A t \in Token : Revoked(t) => Revoked(t)'
  <2>1. CASE UNCHANGED table
    BY <2>1 DEF Rows, Live, Revoked
  <2>2. CASE \E t \in Rows : MarkRevoked(t)
    BY <2>2, RevokeTable
  <2>3. CASE \E u \in User : MarkAllRevoked(u)
    BY <2>3, RevokeAllTable
  <2> QED BY <2>1, <2>2, <2>3
<1> QED BY <1>1, <1>2 DEF Shrinks, KeepHistory, history

LEMMA AnswerShrinks ==
    ASSUME TypeOK, NEW r \in Req, NEW code \in Reply, Answer(r, code), KeepHistory,
           \/ UNCHANGED table
           \/ \E t \in Rows : MarkRevoked(t)
           \/ \E u \in User : MarkAllRevoked(u)
    PROVE  Shrinks
<1>1. Idle(code) \in Request /\ Idle(code).pc = "idle"
  BY DEF Idle, Request, PC
<1> QED BY <1>1, ShrinkingStep DEF Answer

LEMMA GotoShrinks ==
    ASSUME TypeOK, NEW r \in Req, NEW label \in PC, Goto(r, label), KeepHistory,
           label \in {"refresh_black", "refresh_create"} => Rotating(r),
           UNCHANGED table \/ (\E t \in Rows : MarkRevoked(t))
    PROVE  Shrinks
<1> DEFINE q == [req[r] EXCEPT !.pc = label]
<1>1. q \in Request /\ q.pc = label /\ q.tok = req[r].tok
  BY DEF TypeOK, Request
<1>2. Become(r, q)
  BY DEF Goto
<1> HIDE DEF q
<1> QED BY <1>1, <1>2, ShrinkingStep

LEMMA StartShrinks ==
    ASSUME TypeOK, NEW r \in Req, Start(r)
    PROVE  Shrinks
<1>1. KeepHistory /\ UNCHANGED table
  BY DEF Start, LoginFind, ChangeFind, RefreshIsRevoked, LogoutStart, stores
<1>2. CASE \E code \in Reply : Answer(r, code)
  BY <1>1, <1>2, AnswerShrinks
<1>3. CASE \E l \in {"login_roles", "change_update", "refresh_find", "logout_find"},
             t \in Token \cup {NoToken}, u \in User \cup {NoUser}, v \in Nat : Begin(r, l, t, u, v)
  <2>1. PICK l \in {"login_roles", "change_update", "refresh_find", "logout_find"},
             t \in Token \cup {NoToken}, u \in User \cup {NoUser}, v \in Nat : Begin(r, l, t, u, v)
    BY <1>3
  <2> DEFINE q == [pc |-> l, tok |-> t, user |-> u, at |-> 0, ver |-> v, reply |-> "none"]
  <2>2. q \in Request /\ q.pc \notin {"refresh_black", "refresh_create"}
    BY DEF Request, PC, Reply
  <2>3. Become(r, q)
    BY <2>1 DEF Begin
  <2> HIDE DEF q
  <2> QED BY <1>1, <2>2, <2>3, ShrinkingStep
<1>4. known \cup {NoToken} \subseteq Token \cup {NoToken} /\ \A u \in User : passwd[u] \in Nat
  BY DEF TypeOK
<1>5. ASSUME NEW u \in User, LoginFind(r, u)
      PROVE  Shrinks
  <2>1. \/ Answer(r, "internal") \/ Answer(r, "unauthorized")
        \/ Begin(r, "login_roles", NoToken, u, passwd[u])
    BY <1>5 DEF LoginFind
  <2> QED BY <2>1, <1>2, <1>3, <1>4 DEF Reply
<1>6. ASSUME NEW u \in User, ChangeFind(r, u)
      PROVE  Shrinks
  <2>1. \/ Answer(r, "internal") \/ Answer(r, "unauthorized") \/ Answer(r, "bad_request")
        \/ Begin(r, "change_update", NoToken, u, 0)
    BY <1>6 DEF ChangeFind
  <2> QED BY <2>1, <1>2, <1>3 DEF Reply
<1>7. ASSUME NEW t \in known \cup {NoToken}, RefreshIsRevoked(r, t) \/ LogoutStart(r, t)
      PROVE  Shrinks
  <2>1. \/ Answer(r, "internal") \/ Answer(r, "unauthorized")
        \/ Begin(r, "refresh_find", t, NoUser, 0) \/ Begin(r, "logout_find", t, NoUser, 0)
    BY <1>7 DEF RefreshIsRevoked, LogoutStart
  <2> QED BY <2>1, <1>2, <1>3, <1>4 DEF Reply
<1> QED BY <1>5, <1>6, <1>7 DEF Start

LEMMA IssueEffect ==
    ASSUME TypeOK, NEW r \in Req, NEW t \in Token, NEW u \in User, NEW now \in Nat,
           NEW p \in Token \cup {NoToken}, NEW ver \in Nat,
           Insert(t, u, now, p, ver), NEW code \in Reply, Answer(r, code),
           IF p = NoToken THEN ~Rotating(r) ELSE Rotating(r) /\ p = req[r].tok
    PROVE  Issues(r, t, p)
<1>1. /\ t \in Token \ Rows /\ Rows' = Rows \cup {t}
      /\ \A x \in Token : Live(x)' <=> Live(x) \/ x = t
      /\ \A x \in Token : Revoked(x)' <=> Revoked(x)
  BY InsertTable
<1>2. /\ \A x \in Token : parent'[x] = IF x = t THEN p ELSE parent[x]
      /\ \A x \in Token : session'[x] = IF x # t THEN session[x]
                                      ELSE IF p = NoToken THEN t ELSE session[p]
  BY DEF Insert, TypeOK
<1>3. ~Rotating(r)' /\ \A q \in Req \ {r} : req'[q] = req[q]
  BY DEF Answer, Become, Idle, Rotating, TypeOK
<1> QED BY <1>1, <1>2, <1>3 DEF Issues

LEMMA AdvanceEffect ==
    ASSUME TypeOK, LocalsOK, NEW r \in Req, Advance(r)
    PROVE  Effect
<1> DEFINE f == req[r].tok
<1>1. ASSUME req[r].pc \in Deciding \cup {"logout_revoke", "logout_black"}
      PROVE  f \in Rows /\ f \in Token
  BY <1>1 DEF LocalsOK, LocalOK, Rows
<1>2. CASE LoginRoles(r) \/ RefreshRoles(r) \/ LogoutFind(r) \/ ChangeUpdate(r)
  BY <1>2, AnswerShrinks, GotoShrinks
     DEF LoginRoles, RefreshRoles, LogoutFind, ChangeUpdate, stores, Reply, PC, Effect
<1>3. CASE RefreshFind(r)
  <2>1. CASE Answer(r, "internal") \/ Answer(r, "unauthorized")
    BY <1>3, <2>1, AnswerShrinks DEF RefreshFind, stores, Reply, Effect
  <2> DEFINE l == IF Revoked(f) THEN "refresh_sync" ELSE "refresh_roles"
             q == [req[r] EXCEPT !.pc = l, !.user = table[f].user, !.at = clock]
  <2>2. CASE f \in Rows /\ Become(r, q)
    <3>1. table[f].user \in User /\ l \in {"refresh_sync", "refresh_roles"}
      BY <2>2 DEF TypeOK, Rows, Row
    <3>2. q \in Request /\ q.pc = l
      BY <3>1 DEF TypeOK, Request, PC
    <3>3. KeepHistory /\ UNCHANGED table
      BY <1>3 DEF RefreshFind, stores
    <3> HIDE DEF q, l
    <3> QED BY <2>2, <3>1, <3>2, <3>3, ShrinkingStep DEF Effect
  <2> QED BY <1>3, <2>1, <2>2 DEF RefreshFind
<1>4. CASE RefreshSync(r) \/ RefreshBlacklist(r) \/ LogoutBlacklist(r)
  BY <1>4, AnswerShrinks, GotoShrinks
     DEF RefreshSync, RefreshBlacklist, LogoutBlacklist, Rotating, Reply, PC, Effect
<1>5. CASE LogoutRevoke(r)
  BY <1>1, <1>5, GotoShrinks DEF LogoutRevoke, PC, Effect
<1>6. CASE ChangeRevokeAll(r)
  <2>1. req[r].user \in User
    BY <1>6 DEF ChangeRevokeAll, LocalsOK, LocalOK
  <2> QED BY <1>6, <2>1, AnswerShrinks DEF ChangeRevokeAll, Reply, Effect
<1>7. CASE RefreshRevoke(r)
  <2>1. f \in Rows /\ f \in Token
    BY <1>1, <1>7 DEF RefreshRevoke, Deciding
  <2>2. CASE (Answer(r, "internal") \/ Answer(r, "not_found")) /\ (UNCHANGED table \/ MarkRevoked(f))
    BY <1>7, <2>1, <2>2, AnswerShrinks DEF RefreshRevoke, Reply, Effect
  <2>3. CASE ~Revoked(f) /\ Goto(r, "refresh_black") /\ MarkRevoked(f)
    <3>1. /\ Rows' = Rows
          /\ \A s \in Token : Live(s)' <=> Live(s) /\ s # f
          /\ \A s \in Token : Revoked(s)' <=> Revoked(s) \/ s = f
      BY <2>1, <2>3, RevokeTable
    <3>2. Live(f)
      BY <2>1, <2>3 DEF Live, Revoked
    <3>3. /\ Rotating(r)' /\ req'[r].tok = f
          /\ \A q \in Req \ {r} : req'[q] = req[q]
      BY <2>3 DEF Goto, Become, Rotating, TypeOK, Request
    <3>4. KeepHistory
      BY <1>7 DEF RefreshRevoke
    <3> QED BY <2>1, <3>1, <3>2, <3>3, <3>4 DEF Spends, Effect, KeepHistory, history
  <2> QED BY <1>7, <2>2, <2>3 DEF RefreshRevoke, RowsAffected
<1>8. CASE LoginCreate(r)
  <2>1. req[r].user \in User /\ req[r].ver \in Nat /\ clock \in Nat
    BY <1>8 DEF LoginCreate, TypeOK, LocalsOK, LocalOK, Request
  <2>0. ~Rotating(r)
    BY <1>8 DEF LoginCreate, Rotating
  <2>2. CASE UNCHANGED table /\ KeepHistory /\ Answer(r, "internal")
    BY <2>2, AnswerShrinks DEF Reply, Effect
  <2>3. CASE \E t \in Token :
               /\ Insert(t, req[r].user, clock, NoToken, req[r].ver)
               /\ Answer(r, "internal") \/ Answer(r, "ok")
    BY <2>0, <2>1, <2>3, IssueEffect DEF Reply, Effect
  <2> QED BY <1>8, <2>2, <2>3 DEF LoginCreate
<1>9. CASE RefreshCreate(r)
  <2>1. /\ f \in Token /\ Rotating(r) /\ req[r].user \in User
        /\ req[r].at \in Nat /\ authVersion[f] \in Nat
    <3>1. f \in Rows /\ f \in Token /\ req[r].user = table[f].user
      BY <1>9 DEF RefreshCreate, LocalsOK, LocalOK, Deciding, Rows
    <3> QED BY <1>9, <3>1 DEF RefreshCreate, TypeOK, Request, Rows, Row, Rotating
  <2>2. CASE UNCHANGED table /\ KeepHistory /\ Answer(r, "internal")
    BY <2>2, AnswerShrinks DEF Reply, Effect
  <2>3. CASE \E t \in Token :
               /\ Insert(t, req[r].user, req[r].at, f, authVersion[f])
               /\ Answer(r, "internal") \/ Answer(r, "ok")
    BY <2>1, <2>3, NoTokenAssumption, IssueEffect DEF Reply, Effect
  <2> QED BY <1>9, <2>2, <2>3 DEF RefreshCreate
<1> QED BY <1>2, <1>3, <1>4, <1>5, <1>6, <1>7, <1>8, <1>9 DEF Advance

LEMMA NextEffect ==
    ASSUME TypeOK, LocalsOK, [Next]_vars
    PROVE  Effect
<1>1. CASE UNCHANGED vars
  BY <1>1 DEF vars, stores, history, Effect, Shrinks, Rows, Live, Revoked, Rotating
<1>2. CASE Tick \/ RedisDown \/ RedisUp
  BY <1>2 DEF Tick, RedisDown, RedisUp, KeepHistory, history, Effect, Shrinks, Rows, Live,
              Revoked, Rotating
<1>3. CASE Restart
  <2>1. \A q \in Req : ~Rotating(q)'
    BY <1>3 DEF Restart, Idle, Rotating
  <2> QED BY <1>3, <2>1 DEF Restart, KeepHistory, history, Effect, Shrinks, Rows, Live, Revoked
<1>4. CASE \E r \in Req : Start(r) \/ Advance(r)
  BY <1>4, StartShrinks, AdvanceEffect DEF Effect
<1> QED BY <1>1, <1>2, <1>3, <1>4 DEF Next

LEMMA SessionInvInductive ==
    /\ Init => SessionInv
    /\ TypeOK /\ LocalsOK /\ SessionInv /\ [Next]_vars => SessionInv'
<1>1. Init => SessionInv
  BY NoRowAssumption DEF Init, SessionInv, HistoryOK, RotatingSpent, OneLivePerSession,
                         SingleSuccessor, Live, Rows, Rotating, Idle
<1>2. TypeOK /\ LocalsOK /\ SessionInv /\ [Next]_vars => SessionInv'
  BY NextEffect, ShrinksKeeps, SpendsKeeps, IssuesKeeps DEF Effect
<1> QED BY <1>1, <1>2

\* A login session never becomes two: at every moment at most one live token carries
\* it, and none while a refresh that has spent its token is about to mint the next.
THEOREM OneLivePerSessionHolds == Spec => []OneLivePerSession
<1>1. Init => TypeOK /\ LocalsOK /\ SessionInv
  BY InitTypes, SessionInvInductive
<1>2. TypeOK /\ LocalsOK /\ SessionInv /\ [Next]_vars => (TypeOK /\ LocalsOK /\ SessionInv)'
  BY NextTypes, SessionInvInductive
<1>3. SessionInv => OneLivePerSession
  BY DEF SessionInv
<1> QED BY <1>1, <1>2, <1>3, PTL DEF Spec

\* No token is ever exchanged twice, whatever crashes, failed calls and concurrent
\* refreshes of the same token there were.
THEOREM SingleSuccessorHolds == Spec => []SingleSuccessor
<1>1. Init => TypeOK /\ LocalsOK /\ SessionInv
  BY InitTypes, SessionInvInductive
<1>2. TypeOK /\ LocalsOK /\ SessionInv /\ [Next]_vars => (TypeOK /\ LocalsOK /\ SessionInv)'
  BY NextTypes, SessionInvInductive
<1>3. SessionInv => SingleSuccessor
  BY DEF SessionInv
<1> QED BY <1>1, <1>2, <1>3, PTL DEF Spec

-----------------------------------------------------------------------------
\* Refinement: each effect is a step of SessionChains

LEMMA OneOf == \A x : (CHOOSE y \in {x} : TRUE) = x
OBVIOUS

LEMMA InitRefines == Init => Chains!ChainsInit
<1> SUFFICES ASSUME Init
             PROVE  Chains!ChainsInit
  OBVIOUS
<1>1. Rows = {}
  BY DEF Init, Rows
<1>2. \A s \in Token : Carriers(s) = {}
  BY <1>1 DEF Carriers, Live
<1>3. \A s \in Token : ~IsRotating(s) /\ ~\E t \in Token : session[t] = s
  BY NoTokenAssumption DEF Init, IsRotating, Rotating, Idle
<1>4. \A s \in Token : PhaseOf(s) = "unborn" /\ CarrierOf(s) = NoToken
  BY <1>2, <1>3 DEF PhaseOf, CarrierOf
<1> QED BY <1>1, <1>4 DEF Chains!ChainsInit, Phases, CarriedBy

LEMMA ShrinksRefines ==
    ASSUME SessionInv, Shrinks
    PROVE  Chains!ChainsNext
<1> DEFINE S == {s \in Token : PhaseOf(s) \in {"live", "rotating"} /\ PhaseOf(s)' = "ended"}
<1>1. ASSUME NEW s \in Token
      PROVE  /\ Carriers(s)' \subseteq Carriers(s)
             /\ \A x, y \in Carriers(s) : x = y
             /\ Carriers(s) # {} => ~IsRotating(s)
             /\ IsRotating(s)' => IsRotating(s)
             /\ (\E t \in Token : session'[t] = s) <=> (\E t \in Token : session[t] = s)
             /\ IsRotating(s) => \E t \in Token : session[t] = s
  BY RowsAreTokens
     DEF SessionInv, OneLivePerSession, RotatingSpent, Revoked, Shrinks, Carriers, IsRotating
<1>2. ASSUME NEW s \in Token, s \in S
      PROVE  CarrierOf(s)' = NoToken /\ PhaseOf(s)' = "ended"
  BY <1>2 DEF PhaseOf, CarrierOf
<1>3. ASSUME NEW s \in Token, s \notin S
      PROVE  CarrierOf(s)' = CarrierOf(s) /\ PhaseOf(s)' = PhaseOf(s)
  <2>1. Carriers(s)' = Carriers(s)
    BY <1>1, <1>3 DEF PhaseOf, Carriers
  <2>2. PhaseOf(s)' = PhaseOf(s)
    BY <1>1, <1>3, <2>1 DEF PhaseOf
  <2> QED BY <2>1, <2>2 DEF CarrierOf
<1>4. Rows' = Rows
  BY DEF Shrinks
<1>5. Chains!End(S)
  BY <1>2, <1>3, <1>4 DEF Chains!End, Phases, CarriedBy
<1> QED BY <1>5 DEF Chains!ChainsNext

LEMMA SpendsRefines ==
    ASSUME SessionInv, NEW r \in Req, Spends(r)
    PROVE  Chains!ChainsNext
<1>a. PICK f \in Token : f = req[r].tok /\ f \in Rows
  BY DEF Spends, Live
<1>b. PICK o \in Token : o = session[f]
  BY <1>a, RowsAreTokens DEF SessionInv, HistoryOK
<1>1. f \in Carriers(o)
  BY <1>a, <1>b DEF Spends, Carriers
<1>2. Carriers(o) = {f} /\ Carriers(o)' = {}
  BY <1>a, <1>1 DEF SessionInv, OneLivePerSession, Spends, Carriers
<1>3. IsRotating(o)'
  BY <1>a, <1>b DEF Spends, IsRotating
<1>4. ASSUME NEW s \in Token, s # o
      PROVE  /\ Carriers(s)' = Carriers(s)
             /\ IsRotating(s)' <=> IsRotating(s)
             /\ (\E t \in Token : session'[t] = s) <=> (\E t \in Token : session[t] = s)
  <2>1. Carriers(s)' = Carriers(s)
    BY <1>a, <1>b, <1>4 DEF Spends, Carriers
  <2>2. IsRotating(s)' <=> IsRotating(s)
    <3>1. \A q \in Req \ {r} : (Rotating(q)' <=> Rotating(q)) /\ req'[q].tok = req[q].tok
      BY DEF Spends, Rotating
    <3>2. session[req[r].tok] # s /\ session'[req'[r].tok] # s
      BY <1>a, <1>b, <1>4 DEF Spends
    <3> QED BY <3>1, <3>2 DEF Spends, IsRotating
  <2> QED BY <2>1, <2>2 DEF Spends
<1>5. PhaseOf(o) = "live" /\ PhaseOf(o)' = "rotating" /\ CarrierOf(o)' = NoToken
  BY <1>2, <1>3 DEF PhaseOf, CarrierOf
<1>6. ASSUME NEW s \in Token, s # o
      PROVE  PhaseOf(s)' = PhaseOf(s) /\ CarrierOf(s)' = CarrierOf(s)
  <2>1. PhaseOf(s)' = PhaseOf(s)
    BY <1>4, <1>6 DEF PhaseOf
  <2>2. Carriers(s)' = Carriers(s)
    BY <1>4, <1>6
  <2>3. CarrierOf(s)' = CarrierOf(s)
    BY <2>2 DEF CarrierOf
  <2> QED BY <2>1, <2>3
<1>7. Rows' = Rows
  BY DEF Spends
<1>8. Chains!Spend(o)
  BY <1>1, <1>5, <1>6, <1>7 DEF Chains!Spend, Phases, CarriedBy
<1> QED BY <1>1, <1>8 DEF Chains!ChainsNext

LEMMA IssuesRefines ==
    ASSUME SessionInv, NEW r \in Req, NEW t \in Token, NEW p \in Token \cup {NoToken},
           Issues(r, t, p)
    PROVE  Chains!ChainsNext
<1>1. \A x \in Rows : x # t /\ x \in Token /\ session[x] \in Rows
  BY RowsAreTokens DEF Issues, SessionInv, HistoryOK
<1>2. p # NoToken => p \in Rows /\ Rotating(r) /\ p = req[r].tok
  BY DEF Issues, SessionInv, RotatingSpent, Revoked
<1>3. \A q \in Req : Rotating(q)' <=> q # r /\ Rotating(q)
  BY DEF Issues, Rotating
<1>4. \A q \in Req : Rotating(q) => req[q].tok \in Rows
  BY DEF SessionInv, RotatingSpent, Revoked
<1>5. \A q \in Req : q # r => req'[q] = req[q]
  BY DEF Issues
<1>6. PICK o \in Token : o = IF p = NoToken THEN t ELSE session[p]
  BY <1>1, <1>2
<1>7. Carriers(o) = {} /\ Carriers(o)' = {t}
  <2>1. \A x \in Token : Live(x) => session[x] # o
    <3>1. CASE p = NoToken
      BY <1>1, <1>6, <3>1 DEF Issues, Live
    <3>2. CASE p # NoToken
      BY <1>2, <1>6, <3>2 DEF SessionInv, OneLivePerSession
    <3> QED BY <3>1, <3>2
  <2> QED BY <1>6, <2>1 DEF Carriers, Issues
<1>8. ASSUME NEW s \in Token, s # o
      PROVE  /\ Carriers(s)' = Carriers(s)
             /\ IsRotating(s)' <=> IsRotating(s)
             /\ (\E x \in Token : session'[x] = s) <=> (\E x \in Token : session[x] = s)
  <2>1. session'[t] = o /\ session[t] = NoToken
    BY <1>6 DEF Issues, SessionInv, HistoryOK
  <2>2. \A x \in Token : x # t => session'[x] = session[x]
    BY DEF Issues
  <2>3. Carriers(s)' = Carriers(s)
    BY <1>8, <2>1, <2>2, NoTokenAssumption DEF Issues, Carriers
  <2>4. \A q \in Req : Rotating(q) /\ q # r => session'[req'[q].tok] = session[req[q].tok]
    BY <1>1, <1>4, <1>5, <2>2
  <2>5. Rotating(r) => session[req[r].tok] = o
    BY <1>2, <1>6 DEF Issues
  <2>6. IsRotating(s)' <=> IsRotating(s)
    BY <1>3, <1>8, <2>4, <2>5 DEF IsRotating
  <2> QED BY <1>8, <2>1, <2>2, <2>3, <2>6, NoTokenAssumption
<1>9. PhaseOf(o)' = "live" /\ CarrierOf(o)' = t
  BY <1>7, OneOf DEF PhaseOf, CarrierOf
<1>10. ASSUME NEW s \in Token, s # o
      PROVE  PhaseOf(s)' = PhaseOf(s) /\ CarrierOf(s)' = CarrierOf(s)
  <2>1. PhaseOf(s)' = PhaseOf(s)
    BY <1>8, <1>10 DEF PhaseOf
  <2>2. Carriers(s)' = Carriers(s)
    BY <1>8, <1>10
  <2>3. CarrierOf(s)' = CarrierOf(s)
    BY <2>2 DEF CarrierOf
  <2> QED BY <2>1, <2>3
<1>11. t \in Token \ Rows /\ Rows' = Rows \cup {t}
  BY DEF Issues
<1>12. CASE p = NoToken
  <2>1. \A x \in Token : session[x] # t
    BY <1>1, NoTokenAssumption DEF SessionInv, HistoryOK, Issues
  <2>2. ~IsRotating(t)
    BY <1>1, <1>4, <2>1 DEF IsRotating
  <2>3. PhaseOf(t) = "unborn"
    BY <1>6, <1>7, <1>12, <2>1, <2>2 DEF PhaseOf
  <2>4. Chains!Open(t)
    BY <1>6, <1>9, <1>10, <1>11, <1>12, <2>3 DEF Chains!Open, Phases, CarriedBy
  <2> QED BY <2>4 DEF Chains!ChainsNext
<1>13. CASE p # NoToken
  <2>1. IsRotating(o)
    BY <1>2, <1>6, <1>13 DEF IsRotating
  <2>2. PhaseOf(o) = "rotating"
    BY <1>7, <2>1 DEF PhaseOf
  <2>3. Chains!Mint(o, t)
    BY <1>6, <1>9, <1>10, <1>11, <2>2 DEF Chains!Mint, Phases, CarriedBy
  <2> QED BY <1>6, <2>3 DEF Chains!ChainsNext
<1> QED BY <1>12, <1>13

\* The use cases implement SessionChains: seen by session, whatever the requests,
\* faults and crashes do is to open, spend, mint or end sessions, in the order the
\* promise allows.
THEOREM TokenLifecycleImplementsChains == Spec => ImplementsChains
<1>1. Init => Chains!ChainsInit /\ TypeOK /\ LocalsOK /\ SessionInv
  BY InitRefines, InitTypes, SessionInvInductive
<1>2. TypeOK /\ LocalsOK /\ SessionInv /\ [Next]_vars => (TypeOK /\ LocalsOK /\ SessionInv)'
  BY NextTypes, SessionInvInductive
<1>3. TypeOK /\ LocalsOK /\ SessionInv /\ [Next]_vars => [Chains!ChainsNext]_(Chains!chainVars)
  BY NextEffect, ShrinksRefines, SpendsRefines, IssuesRefines DEF Effect
<1> QED BY <1>1, <1>2, <1>3, PTL DEF Spec, ImplementsChains, Chains!ChainsSpec

-----------------------------------------------------------------------------
\* What a client may rely on follows from SessionChains alone, and so holds of every
\* program that implements it.

\* Carriers have been issued.
CarrierUsed == \A s \in Token : CarriedBy[s] # NoToken => CarriedBy[s] \in Rows

ChainsInv == Chains!ChainsTypeOK /\ CarrierUsed /\ Chains!OneSessionPerToken

LEMMA ChainsInvInit == Chains!ChainsInit => ChainsInv
BY NoTokenAssumption
   DEF Chains!ChainsInit, ChainsInv, Chains!ChainsTypeOK, Chains!Phase, CarrierUsed, Chains!OneSessionPerToken

LEMMA ChainsInvNext == ChainsInv /\ [Chains!ChainsNext]_(Chains!chainVars) => ChainsInv'
<1> SUFFICES ASSUME ChainsInv, [Chains!ChainsNext]_(Chains!chainVars)
             PROVE  ChainsInv'
  OBVIOUS
<1> USE NoTokenAssumption DEF ChainsInv, Chains!ChainsTypeOK, CarrierUsed, Chains!OneSessionPerToken
<1>1. ASSUME NEW s \in Token, Chains!Open(s)
      PROVE  ChainsInv'
  BY <1>1 DEF Chains!Open, Chains!Phase
<1>2. ASSUME NEW s \in Token, Chains!Spend(s)
      PROVE  ChainsInv'
  BY <1>2 DEF Chains!Spend, Chains!Phase
<1>3. ASSUME NEW s \in Token, NEW t \in Token, Chains!Mint(s, t)
      PROVE  ChainsInv'
  BY <1>3 DEF Chains!Mint, Chains!Phase
<1>4. ASSUME NEW S \in SUBSET Token, Chains!End(S)
      PROVE  ChainsInv'
  BY <1>4 DEF Chains!End, Chains!Phase
<1>5. CASE UNCHANGED Chains!chainVars
  BY <1>5 DEF Chains!chainVars
<1> QED BY <1>1, <1>2, <1>3, <1>4, <1>5 DEF Chains!ChainsNext

\* A live session has one carrier and no two sessions share it: what rotation
\* (refresh.go:88-108) is there to keep.
THEOREM ChainsOneSessionPerToken == Chains!ChainsSpec => []Chains!OneSessionPerToken
<1>1. ChainsInv => Chains!OneSessionPerToken
  BY DEF ChainsInv
<1> QED BY <1>1, ChainsInvInit, ChainsInvNext, PTL DEF Chains!ChainsSpec

\* A refresh token that was replaced is never accepted as a session's token again.
THEOREM ChainsNeverReused == Chains!ChainsSpec => Chains!NeverReused
<1>1. ChainsInv /\ [Chains!ChainsNext]_(Chains!chainVars)
        => [\A s \in Token : CarriedBy'[s] # CarriedBy[s] => CarriedBy'[s] \notin Rows]_(Chains!chainVars)
  <2> SUFFICES ASSUME ChainsInv, Chains!ChainsNext, NEW s \in Token, CarriedBy'[s] # CarriedBy[s]
               PROVE  CarriedBy'[s] \notin Rows
    BY DEF Chains!chainVars
  <2> USE NoTokenAssumption DEF ChainsInv, Chains!ChainsTypeOK
  <2>1. CASE \E x \in Token : Chains!Open(x)
    BY <2>1 DEF Chains!Open
  <2>2. CASE \E x \in Token : Chains!Spend(x)
    BY <2>2 DEF Chains!Spend
  <2>3. CASE \E x \in Token, t \in Token : Chains!Mint(x, t)
    BY <2>3 DEF Chains!Mint
  <2>4. CASE \E S \in SUBSET Token : Chains!End(S)
    BY <2>4 DEF Chains!End
  <2> QED BY <2>1, <2>2, <2>3, <2>4 DEF Chains!ChainsNext
<1> QED BY <1>1, ChainsInvInit, ChainsInvNext, PTL DEF Chains!ChainsSpec, Chains!NeverReused

\* So they hold of the use cases.
THEOREM SessionsAreCarried == Spec => []Chains!OneSessionPerToken /\ Chains!NeverReused
BY TokenLifecycleImplementsChains, ChainsOneSessionPerToken, ChainsNeverReused DEF ImplementsChains

-----------------------------------------------------------------------------
\* Lifetimes and the blacklist

\* A request that has found its row has read the clock at a moment at which the row had
\* not expired.
TimesOK ==
    \A r \in Req : req[r].pc \in Deciding =>
        req[r].at <= clock /\ req[r].at <= table[req[r].tok].expires

\* Goroutine r is about to write its token to the blacklist, and nothing has failed that
\* would let a token be blacklisted that the table holds live.
Settled(r) ==
    \/ req[r].pc \in {"refresh_sync", "refresh_black"}
    \/ req[r].pc = "logout_black" /\ faults = 0
SettledSpent == \A r \in Req : Settled(r) => Revoked(req[r].tok)

\* An entry of the blacklist lasts at least until the token it names expires.
BlacklistOutlivesToken ==
    \A t \in Token : black[t] # 0 => t \in Rows /\ black[t] >= table[t].expires

TimeInv == TimesOK /\ SettledSpent /\ MintedInTime /\ BlacklistOutlivesToken /\ BlacklistOnlyRevoked

\* What a step does to them: rows keep their expiry and stay revoked,
Keeps ==
    /\ clock <= clock' /\ faults <= faults'
    /\ \A t \in Rows : /\ t \in Rows' /\ table'[t].expires = table[t].expires
                       /\ table[t].revoked => table'[t].revoked
\* the blacklist grows by a token that may be in it,
Blackens ==
    \A t \in Token :
        \/ black'[t] \in {black[t], 0}
        \/ /\ t \in Rows /\ table[t].expires <= black'[t]
           /\ faults = 0 => Revoked(t)
\* a new row comes without a parent or expires in time,
Mints ==
    \A t \in Rows' :
        \/ t \in Rows /\ parent'[t] = parent[t]
        \/ parent'[t] # NoToken =>
              /\ parent'[t] \in Rows
              /\ table'[t].expires <= table[parent'[t]].expires + RefreshTTL
\* and a request goes on with the row and the time it had, or has just found them.
Times(r) ==
    req'[r].pc \in Deciding =>
        \/ req[r].pc \in Deciding /\ req'[r].tok = req[r].tok /\ req'[r].at = req[r].at
        \/ req'[r].tok \in Rows /\ req'[r].at = clock /\ clock <= table[req'[r].tok].expires
Settles(r) == Settled(r)' => (Settled(r) /\ req'[r].tok = req[r].tok) \/ Revoked(req[r].tok)'
Ages == Keeps /\ Blackens /\ Mints /\ \A r \in Req : Times(r) /\ Settles(r)

LEMMA AgesKeep ==
    ASSUME TypeOK, TypeOK', LocalsOK, SessionInv, TimeInv, Ages
    PROVE  TimeInv'
<1>1. /\ clock \in Nat /\ clock' \in Nat /\ faults \in Nat /\ faults' \in Nat /\ RefreshTTL \in Nat
      /\ black \in [Token -> Nat] /\ black' \in [Token -> Nat]
      /\ clock <= clock' /\ faults <= faults' /\ Rows \subseteq Token /\ Rows' \subseteq Token
  BY TTLAssumption DEF TypeOK, Ages, Keeps, Rows
<1>2. \A t \in Rows : table[t].expires \in Nat
  BY DEF TypeOK, Rows, Row
<1>3. \A t \in Rows : t \in Rows' /\ table'[t].expires = table[t].expires
  BY DEF Ages, Keeps
<1>4. \A t \in Token : Revoked(t) => Revoked(t)'
  BY DEF Ages, Keeps, Revoked
<1>5. TimesOK'
  <2>1. ASSUME NEW r \in Req, req'[r].pc \in Deciding
        PROVE  req'[r].at <= clock' /\ req'[r].at <= table'[req'[r].tok].expires
    <3>1. CASE req[r].pc \in Deciding /\ req'[r].tok = req[r].tok /\ req'[r].at = req[r].at
      <4>1. req[r].tok \in Rows
        BY <3>1 DEF LocalsOK, LocalOK
      <4>2. req[r].at <= clock /\ req[r].at <= table[req[r].tok].expires /\ req[r].at \in Nat
        BY <3>1 DEF TimeInv, TimesOK, TypeOK, Request
      <4> QED BY <1>1, <1>3, <3>1, <4>1, <4>2
    <3>2. CASE req'[r].tok \in Rows /\ req'[r].at = clock /\ clock <= table[req'[r].tok].expires
      BY <1>1, <1>3, <3>2
    <3> QED BY <2>1, <3>1, <3>2 DEF Ages, Times
  <2> QED BY <2>1 DEF TimesOK
<1>6. SettledSpent'
  <2>1. ASSUME NEW r \in Req, Settled(r)'
        PROVE  Revoked(req[r].tok)'
    <3>1. CASE Settled(r) /\ req'[r].tok = req[r].tok
      <4>1. Revoked(req[r].tok) /\ req[r].tok \in Token
        BY <3>1 DEF TimeInv, SettledSpent, Revoked, Rows
      <4> QED BY <1>4, <3>1, <4>1 DEF Ages, Keeps, Revoked
    <3> QED BY <2>1, <3>1 DEF Ages, Settles
  <2> QED BY <2>1 DEF SettledSpent
<1>7. MintedInTime'
  <2>1. ASSUME NEW t \in Rows', parent'[t] # NoToken
        PROVE  table'[t].expires <= table'[parent'[t]].expires + RefreshTTL
    <3>1. CASE t \in Rows /\ parent'[t] = parent[t]
      <4>1. parent[t] \in Rows
        BY <2>1, <3>1 DEF SessionInv, HistoryOK, Revoked
      <4> QED BY <1>3, <2>1, <3>1, <4>1 DEF TimeInv, MintedInTime
    <3>2. CASE parent'[t] \in Rows /\ table'[t].expires <= table[parent'[t]].expires + RefreshTTL
      BY <1>3, <3>2
    <3> QED BY <2>1, <3>1, <3>2 DEF Ages, Mints
  <2> QED BY <2>1 DEF MintedInTime
<1>8. BlacklistOutlivesToken'
  <2>1. ASSUME NEW t \in Token, black'[t] # 0
        PROVE  t \in Rows' /\ black'[t] >= table'[t].expires
    <3>1. CASE black'[t] = black[t]
      BY <1>1, <1>3, <2>1, <3>1 DEF TimeInv, BlacklistOutlivesToken
    <3>2. CASE t \in Rows /\ table[t].expires <= black'[t]
      BY <1>1, <1>2, <1>3, <3>2
    <3> QED BY <2>1, <3>1, <3>2 DEF Ages, Blackens
  <2> QED BY <2>1 DEF BlacklistOutlivesToken
<1>9. BlacklistOnlyRevoked'
  <2>1. ASSUME faults' = 0, NEW t \in Token, clock' < black'[t]
        PROVE  Revoked(t)'
    <3>1. faults = 0
      BY <1>1, <2>1
    <3>2. black[t] \in Nat /\ black'[t] \in Nat
      BY <1>1
    <3>3. CASE black'[t] = black[t]
      <4>1. clock < black[t]
        BY <1>1, <2>1, <3>2, <3>3
      <4> QED BY <1>4, <3>1, <4>1 DEF TimeInv, BlacklistOnlyRevoked, Blacklisted
    <3>4. black'[t] # 0
      BY <1>1, <2>1, <3>2
    <3> QED BY <1>4, <3>1, <3>3, <3>4 DEF Ages, Blackens
  <2> QED BY <2>1 DEF BlacklistOnlyRevoked, Blacklisted
<1> QED BY <1>5, <1>6, <1>7, <1>8, <1>9 DEF TimeInv

\* The table as it is, or with rows revoked.
LEMMA KeptTable ==
    ASSUME TypeOK, clock <= clock', faults <= faults', UNCHANGED parent,
           \/ UNCHANGED table
           \/ \E t \in Rows : MarkRevoked(t)
           \/ \E u \in User : MarkAllRevoked(u)
    PROVE  Keeps /\ Mints
<1>1. CASE UNCHANGED table
  BY <1>1 DEF Keeps, Mints, Rows
<1>2. ASSUME NEW t \in Rows, MarkRevoked(t)
      PROVE  Keeps /\ Mints
  <2>1. Rows' = Rows
    BY <1>2, RevokeTable
  <2>2. \A x \in Rows : x \in Token /\ table[x] \in Row
    BY DEF TypeOK, Rows
  <2>3. \A x \in Rows : /\ table'[x].expires = table[x].expires
                        /\ table[x].revoked => table'[x].revoked
    BY <1>2, <2>2 DEF MarkRevoked, TypeOK, Row
  <2> QED BY <2>1, <2>3 DEF Keeps, Mints
<1>3. ASSUME NEW u \in User, MarkAllRevoked(u)
      PROVE  Keeps /\ Mints
  <2>1. Rows' = Rows
    BY <1>3, RevokeAllTable
  <2>2. \A x \in Rows : x \in Token /\ table[x] \in Row
    BY DEF TypeOK, Rows
  <2>3. \A x \in Rows : /\ table'[x].expires = table[x].expires
                        /\ table[x].revoked => table'[x].revoked
    BY <1>3, <2>2 DEF MarkAllRevoked, Row
  <2> QED BY <2>1, <2>3 DEF Keeps, Mints
<1> QED BY <1>1, <1>2, <1>3

\* Goroutine r moves to q; the others stay.
LEMMA OneMoves ==
    ASSUME TypeOK, TypeOK', Keeps, NEW r \in Req, NEW q \in Request, Become(r, q),
           q.pc \in Deciding =>
              \/ req[r].pc \in Deciding /\ q.tok = req[r].tok /\ q.at = req[r].at
              \/ q.tok \in Rows /\ q.at = clock /\ clock <= table[q.tok].expires,
           q.pc \in {"refresh_sync", "refresh_black"} \/ (q.pc = "logout_black" /\ faults' = 0)
              => q.tok \in Rows' /\ table'[q.tok].revoked
    PROVE  \A x \in Req : Times(x) /\ Settles(x)
<1>1. /\ req'[r] = q
      /\ \A x \in Req \ {r} : req'[x] = req[x]
  BY DEF Become, TypeOK
<1>2. faults' = 0 => faults = 0
  BY DEF Keeps, TypeOK
<1>3. Times(r) /\ Settles(r)
  BY <1>1 DEF Times, Settles, Settled, Revoked, Rows
<1>4. ASSUME NEW x \in Req \ {r}
      PROVE  Times(x) /\ Settles(x)
  BY <1>1, <1>2 DEF Times, Settles, Settled
<1> QED BY <1>3, <1>4

LEMMA AnswerMoves ==
    ASSUME TypeOK, TypeOK', Keeps, NEW r \in Req, NEW code \in Reply, Answer(r, code)
    PROVE  \A x \in Req : Times(x) /\ Settles(x)
<1>1. Idle(code) \in Request /\ Idle(code).pc = "idle"
  BY DEF Idle, Request, PC
<1> QED BY <1>1, OneMoves DEF Answer, Deciding

\* Within a refresh nothing is read again, and nothing is promised before the revocation.
LEMMA GotoMoves ==
    ASSUME TypeOK, TypeOK', Keeps, NEW r \in Req, NEW label \in PC, Goto(r, label),
           label \in Deciding => req[r].pc \in Deciding,
           label \in {"refresh_sync", "refresh_black"} \/ (label = "logout_black" /\ faults' = 0)
              => req[r].tok \in Rows' /\ table'[req[r].tok].revoked
    PROVE  \A x \in Req : Times(x) /\ Settles(x)
<1> DEFINE q == [req[r] EXCEPT !.pc = label]
<1>1. q \in Request /\ q.pc = label /\ q.tok = req[r].tok /\ q.at = req[r].at
  <2>1. req[r] \in Request
    BY DEF TypeOK
  <2> QED BY <2>1 DEF Request
<1>2. Become(r, q)
  BY DEF Goto
<1> HIDE DEF q
<1> QED BY <1>1, <1>2, OneMoves

LEMMA BeginMoves ==
    ASSUME TypeOK, TypeOK', Keeps, NEW r \in Req,
           NEW label \in {"login_roles", "refresh_find", "logout_find", "change_update"},
           NEW t \in Token \cup {NoToken}, NEW u \in User \cup {NoUser}, NEW ver \in Nat,
           Begin(r, label, t, u, ver)
    PROVE  \A x \in Req : Times(x) /\ Settles(x)
<1> DEFINE q == [pc |-> label, tok |-> t, user |-> u, at |-> 0, ver |-> ver, reply |-> "none"]
<1>1. q \in Request /\ q.pc = label
  BY DEF Request, PC, Reply
<1>2. Become(r, q)
  BY DEF Begin
<1> HIDE DEF q
<1> QED BY <1>1, <1>2, OneMoves DEF Deciding

\* Steps that write no store.
LEMMA ReadingAges ==
    ASSUME TypeOK, TypeOK', LocalsOK, NEW r \in Req, UNCHANGED stores, KeepHistory, Fault \/ NoFault,
           \/ \E code \in Reply : Answer(r, code)
           \/ \E label \in {"login_roles", "refresh_find", "logout_find", "change_update"},
                 t \in Token \cup {NoToken}, u \in User \cup {NoUser}, ver \in Nat :
                    Begin(r, label, t, u, ver)
           \/ LoginRoles(r) \/ RefreshRoles(r) \/ LogoutFind(r) \/ RefreshFind(r)
    PROVE  Ages
<1>1. clock <= clock' /\ faults <= faults' /\ UNCHANGED <<parent, table, black>>
  BY DEF stores, KeepHistory, history, Fault, NoFault, TypeOK
<1>2. Keeps /\ Mints /\ Blackens
  BY <1>1, KeptTable DEF Blackens
<1>3. CASE LoginRoles(r) \/ RefreshRoles(r) \/ LogoutFind(r)
  BY <1>2, <1>3, AnswerMoves, GotoMoves
  DEF LoginRoles, RefreshRoles, LogoutFind, Reply, PC, Deciding, Ages
<1>4. CASE RefreshFind(r)
  <2> DEFINE f == req[r].tok
             l == IF Revoked(f) THEN "refresh_sync" ELSE "refresh_roles"
             q == [req[r] EXCEPT !.pc = l, !.user = table[f].user, !.at = clock]
  <2>1. CASE f \in Rows /\ ~IsExpired(table[f], clock) /\ Become(r, q)
    <3>1. table[f].user \in User /\ table[f].expires \in Nat /\ clock \in Nat
      BY <2>1 DEF TypeOK, Rows, Row
    <3>2. l \in {"refresh_sync", "refresh_roles"} /\ (l = "refresh_sync" => table[f].revoked)
      BY DEF Revoked
    <3>3. q \in Request /\ q.pc = l /\ q.tok = f /\ q.at = clock
      <4>1. req[r] \in Request /\ l \in PC
        BY <3>2 DEF TypeOK, PC
      <4> HIDE DEF l
      <4> QED BY <3>1, <4>1 DEF Request
    <3>4. f \in Rows' /\ clock <= table[f].expires
      BY <1>1, <2>1, <3>1 DEF IsExpired, Rows
    <3> HIDE DEF q, l
    <3> QED BY <1>1, <1>2, <2>1, <3>2, <3>3, <3>4, OneMoves DEF Ages
  <2>2. CASE Answer(r, "internal") \/ Answer(r, "unauthorized")
    BY <1>2, <2>2, AnswerMoves DEF Reply, Ages
  <2> QED BY <1>4, <2>1, <2>2 DEF RefreshFind
<1>5. CASE (\E code \in Reply : Answer(r, code)) \/
           (\E label \in {"login_roles", "refresh_find", "logout_find", "change_update"},
               t \in Token \cup {NoToken}, u \in User \cup {NoUser}, ver \in Nat :
                  Begin(r, label, t, u, ver))
  BY <1>2, <1>5, AnswerMoves, BeginMoves DEF Ages
<1> QED BY <1>3, <1>4, <1>5

\* An entry for the row's remaining lifetime, counted from a moment that has passed, lasts
\* at least as long as the row.
LEMMA BlacklistAges ==
    ASSUME TypeOK, NEW t \in Rows, NEW now \in Nat, now <= clock,
           BlacklistRevoke(t, RemainingLifetime(table[t], now)), faults = 0 => Revoked(t)
    PROVE  Blackens
<1>1. table[t].expires \in Nat /\ clock \in Nat /\ black \in [Token -> Nat] /\ t \in Token
  BY DEF TypeOK, Rows, Row
<1>2. RemainingLifetime(table[t], now) > 0 =>
         table[t].expires <= clock + RemainingLifetime(table[t], now)
  BY <1>1 DEF RemainingLifetime
<1> DEFINE ttl == RemainingLifetime(table[t], now)
<1>3. \A x \in Token : black'[x] = black[x] \/ (x = t /\ black'[x] = clock + ttl /\ ttl > 0)
  BY <1>1 DEF BlacklistRevoke
<1> HIDE DEF ttl
<1> QED BY <1>2, <1>3 DEF Blackens, ttl

LEMMA BlacklistStepAges ==
    ASSUME TypeOK, TypeOK', LocalsOK, SessionInv, TimeInv, NEW r \in Req,
           RefreshSync(r) \/ RefreshBlacklist(r) \/ LogoutBlacklist(r)
    PROVE  Ages
<1> DEFINE f == req[r].tok
<1>1. f \in Rows /\ req[r].at \in Nat /\ clock \in Nat /\ faults \in Nat
  BY DEF RefreshSync, RefreshBlacklist, LogoutBlacklist, LocalsOK, LocalOK, Deciding, TypeOK, Request
<1>2. UNCHANGED <<table, parent, clock, faults>>
  BY DEF RefreshSync, RefreshBlacklist, LogoutBlacklist, NoFault, KeepHistory, history
<1>3. Keeps /\ Mints
  BY <1>1, <1>2, KeptTable
<1>4. faults = 0 => Revoked(f)
  BY DEF RefreshSync, RefreshBlacklist, LogoutBlacklist, TimeInv, SettledSpent, Settled
<1>5. Blackens
  <2>1. CASE RefreshSync(r) \/ RefreshBlacklist(r)
    <3>1. req[r].at <= clock
      BY <2>1 DEF RefreshSync, RefreshBlacklist, TimeInv, TimesOK, Deciding
    <3> QED BY <1>1, <1>4, <2>1, <3>1, BlacklistAges DEF RefreshSync, RefreshBlacklist
  <2>2. CASE LogoutBlacklist(r)
    BY <1>1, <1>4, <2>2, BlacklistAges DEF LogoutBlacklist
  <2> QED BY <2>1, <2>2
<1>6. \A x \in Req : Times(x) /\ Settles(x)
  BY <1>3, AnswerMoves, GotoMoves
  DEF RefreshSync, RefreshBlacklist, LogoutBlacklist, Reply, PC, Deciding
<1> QED BY <1>3, <1>5, <1>6 DEF Ages

\* Steps that revoke, or store a password.
LEMMA RevokingAges ==
    ASSUME TypeOK, TypeOK', LocalsOK, NEW r \in Req,
           RefreshRevoke(r) \/ LogoutRevoke(r) \/ ChangeUpdate(r) \/ ChangeRevokeAll(r)
    PROVE  Ages
<1> DEFINE f == req[r].tok
<1>1. /\ clock <= clock' /\ faults <= faults' /\ faults \in Nat /\ (Fault => faults' # 0)
      /\ UNCHANGED <<parent, black>>
  BY DEF RefreshRevoke, LogoutRevoke, ChangeUpdate, ChangeRevokeAll, KeepHistory, history, Fault, NoFault,
         TypeOK
<1>2. RefreshRevoke(r) \/ LogoutRevoke(r) => f \in Rows
  BY DEF RefreshRevoke, LogoutRevoke, LocalsOK, LocalOK, Deciding
<1>3. ChangeRevokeAll(r) => req[r].user \in User
  BY DEF ChangeRevokeAll, LocalsOK, LocalOK
<1>4. \/ UNCHANGED table
      \/ \E t \in Rows : MarkRevoked(t)
      \/ \E u \in User : MarkAllRevoked(u)
  BY <1>2, <1>3 DEF RefreshRevoke, LogoutRevoke, ChangeUpdate, ChangeRevokeAll
<1>5. Keeps /\ Mints /\ Blackens
  BY <1>1, <1>4, KeptTable DEF Blackens
<1>6. f \in Rows /\ MarkRevoked(f) => f \in Rows' /\ table'[f].revoked
  BY RevokeTable DEF Revoked, Rows
<1>7. CASE RefreshRevoke(r)
  BY <1>2, <1>5, <1>6, <1>7, AnswerMoves, GotoMoves DEF RefreshRevoke, Reply, PC, Deciding, Ages
<1>8. CASE LogoutRevoke(r)
  <2>1. /\ Goto(r, "logout_black") /\ "logout_black" \in PC \ Deciding
        /\ faults' = 0 => f \in Rows' /\ table'[f].revoked
    BY <1>1, <1>2, <1>6, <1>8 DEF LogoutRevoke, PC, Deciding
  <2> QED BY <1>5, <2>1, GotoMoves DEF Ages
<1>9. CASE ChangeUpdate(r) \/ ChangeRevokeAll(r)
  BY <1>5, <1>9, AnswerMoves, GotoMoves DEF ChangeUpdate, ChangeRevokeAll, Reply, PC, Deciding, Ages
<1> QED BY <1>7, <1>8, <1>9

LEMMA InsertingAges ==
    ASSUME TypeOK, TypeOK', LocalsOK, TimeInv, NEW r \in Req, LoginCreate(r) \/ RefreshCreate(r)
    PROVE  Ages
<1> DEFINE p == req[r].tok
<1>1. /\ clock <= clock' /\ faults <= faults' /\ UNCHANGED black /\ clock \in Nat
      /\ Answer(r, "internal") \/ Answer(r, "ok")
  BY DEF LoginCreate, RefreshCreate, Fault, NoFault, TypeOK
<1>2. Blackens
  BY <1>1 DEF Blackens
<1>3. req[r].user \in User /\ req[r].at \in Nat /\ req[r].ver \in Nat
  <2>1. CASE LoginCreate(r)
    BY <2>1 DEF LoginCreate, LocalsOK, LocalOK, TypeOK, Request
  <2>2. CASE RefreshCreate(r)
    <3>1. p \in Rows /\ req[r].user = table[p].user
      BY <2>2 DEF RefreshCreate, LocalsOK, LocalOK, Deciding
    <3> QED BY <3>1 DEF TypeOK, Request, Rows, Row
  <2> QED BY <2>1, <2>2
<1>4. CASE UNCHANGED table /\ KeepHistory
  <2>1. Keeps /\ Mints
    BY <1>1, <1>4, KeptTable DEF KeepHistory, history
  <2> QED BY <1>1, <1>2, <2>1, AnswerMoves DEF Reply, Ages
<1>5. ASSUME NEW t \in Token, NEW now \in Nat, NEW o \in Token \cup {NoToken}, NEW ver \in Nat,
             Insert(t, req[r].user, now, o, ver),
             o # NoToken => o \in Rows /\ now <= table[o].expires
      PROVE  Ages
  <2>1. /\ t \in Token \ Rows /\ Rows' = Rows \cup {t}
        /\ \A x \in Rows : table'[x] = table[x] /\ parent'[x] = parent[x]
        /\ parent'[t] = o /\ table'[t].expires = now + RefreshTTL
    <3>1. t \in Token \ Rows /\ Rows' = Rows \cup {t}
      BY <1>3, <1>5, InsertTable
    <3> QED BY <1>5, <3>1 DEF Insert, TypeOK, Rows
  <2>2. Keeps
    BY <1>1, <2>1 DEF Keeps
  <2>3. o # NoToken => table'[t].expires <= table[o].expires + RefreshTTL
    <3>1. o # NoToken => table[o].expires \in Nat
      BY <1>5 DEF TypeOK, Rows, Row
    <3> QED BY <1>5, <2>1, <3>1, TTLAssumption
  <2>4. Mints
    BY <1>5, <2>1, <2>3 DEF Mints
  <2> QED BY <1>1, <1>2, <2>2, <2>4, AnswerMoves DEF Reply, Ages
<1>6. CASE LoginCreate(r)
  BY <1>1, <1>3, <1>4, <1>5, <1>6 DEF LoginCreate
<1>7. CASE RefreshCreate(r)
  <2>1. /\ p \in Rows /\ p \in Token /\ authVersion[p] \in Nat
        /\ req[r].at <= table[p].expires
    BY <1>7 DEF RefreshCreate, LocalsOK, LocalOK, TimeInv, TimesOK, Deciding, TypeOK, Rows
  <2> QED BY <1>3, <1>4, <1>5, <1>7, <2>1 DEF RefreshCreate
<1> QED BY <1>6, <1>7

LEMMA WorldAges ==
    ASSUME TypeOK, TypeOK', Tick \/ RedisDown \/ RedisUp \/ Restart
    PROVE  Ages
<1>1. /\ clock <= clock' /\ faults <= faults' /\ UNCHANGED <<table, parent>>
      /\ \A t \in Token : black'[t] \in {black[t], 0}
  BY DEF Tick, RedisDown, RedisUp, Restart, KeepHistory, history, Fault, TypeOK
<1>2. Keeps /\ Mints /\ Blackens
  BY <1>1, KeptTable DEF Blackens
<1>3. CASE UNCHANGED req
  BY <1>1, <1>2, <1>3 DEF Ages, Keeps, Times, Settles, Settled, TypeOK
<1>4. CASE Restart
  <2>1. \A x \in Req : req'[x].pc = "idle"
    BY <1>4 DEF Restart, Idle
  <2> QED BY <1>2, <2>1 DEF Ages, Times, Settles, Settled, Deciding
<1> QED BY <1>3, <1>4 DEF Tick, RedisDown, RedisUp

LEMMA NextAges ==
    ASSUME TypeOK, TypeOK', LocalsOK, SessionInv, TimeInv, Next
    PROVE  Ages
<1>1. ASSUME NEW r \in Req, Start(r)
      PROVE  Ages
  <2>1. known \cup {NoToken} \subseteq Token \cup {NoToken} /\ passwd \in [User -> Nat] /\ 0 \in Nat
    BY DEF TypeOK
  <2>2. UNCHANGED stores /\ KeepHistory /\ (Fault \/ NoFault)
    BY <1>1 DEF Start, LoginFind, ChangeFind, RefreshIsRevoked, LogoutStart
  <2>3. \/ \E code \in Reply : Answer(r, code)
        \/ \E label \in {"login_roles", "refresh_find", "logout_find", "change_update"},
              t \in Token \cup {NoToken}, u \in User \cup {NoUser}, ver \in Nat :
                 Begin(r, label, t, u, ver)
    BY <1>1, <2>1 DEF Start, LoginFind, ChangeFind, RefreshIsRevoked, LogoutStart, Reply
  <2> QED BY <2>2, <2>3, ReadingAges
<1>2. ASSUME NEW r \in Req, Advance(r)
      PROVE  Ages
  <2>1. CASE LoginRoles(r) \/ RefreshRoles(r) \/ LogoutFind(r) \/ RefreshFind(r)
    BY <2>1, ReadingAges DEF LoginRoles, RefreshRoles, LogoutFind, RefreshFind
  <2> QED BY <1>2, <2>1, BlacklistStepAges, RevokingAges, InsertingAges DEF Advance
<1> QED BY <1>1, <1>2, WorldAges DEF Next

LEMMA TimeInvInductive ==
    /\ Init => TimeInv
    /\ TypeOK /\ LocalsOK /\ SessionInv /\ TimeInv /\ [Next]_vars => TimeInv'
<1>1. Init => TimeInv
  BY DEF Init, TimeInv, TimesOK, SettledSpent, Settled, MintedInTime, BlacklistOutlivesToken,
         BlacklistOnlyRevoked, Blacklisted, Rows, Idle, Deciding
<1>2. TypeOK /\ LocalsOK /\ SessionInv /\ TimeInv /\ Next => TimeInv'
  BY NextTypes, NextAges, AgesKeep
<1>3. TimeInv /\ UNCHANGED vars => TimeInv'
  BY DEF vars, stores, history, TimeInv, TimesOK, SettledSpent, Settled, MintedInTime,
         BlacklistOutlivesToken, BlacklistOnlyRevoked, Blacklisted, Revoked, Rows
<1> QED BY <1>1, <1>2, <1>3

LEMMA TimeInvHolds == Spec => []TimeInv
<1>1. Init => TypeOK /\ LocalsOK /\ SessionInv /\ TimeInv
  BY InitTypes, SessionInvInductive, TimeInvInductive
<1>2. TypeOK /\ LocalsOK /\ SessionInv /\ TimeInv /\ [Next]_vars
         => (TypeOK /\ LocalsOK /\ SessionInv /\ TimeInv)'
  BY NextTypes, SessionInvInductive, TimeInvInductive
<1> QED BY <1>1, <1>2, PTL DEF Spec

\* However slowly a refresh proceeds, the successor's lifetime is counted from a moment at
\* which its parent had not expired.
THEOREM MintedInTimeHolds == Spec => []MintedInTime
BY TimeInvHolds, PTL DEF TimeInv

\* As long as nothing has failed, what Redis rejects is revoked in the table.
THEOREM BlacklistOnlyRevokedHolds == Spec => []BlacklistOnlyRevoked
BY TimeInvHolds, PTL DEF TimeInv

LEMMA OneAtATime ==
    ASSUME TypeOK, NEW q \in Req, Start(q) \/ Advance(q)
    PROVE  \A x \in Req \ {q} : req'[x] = req[x]
<1>1. \E rec : Become(q, rec)
  BY DEF Start, Advance, LoginFind, LoginRoles, LoginCreate, RefreshIsRevoked, RefreshFind, RefreshSync,
         RefreshRoles, RefreshRevoke, RefreshBlacklist, RefreshCreate, LogoutStart, LogoutFind, LogoutRevoke,
         LogoutBlacklist, ChangeFind, ChangeUpdate, ChangeRevokeAll, Answer, Begin, Goto
<1> QED BY <1>1 DEF Become, TypeOK

LEMMA LogoutStep ==
    ASSUME TypeOK, TypeOK', TimeInv, [Next]_vars, NEW r \in Req,
           Replies(r, {"logout_find", "logout_revoke", "logout_black"}, "ok"),
           req[r].tok \in Rows, faults' = 0
    PROVE  Revoked(req[r].tok)
<1>1. req[r].pc \in {"logout_find", "logout_revoke", "logout_black"} /\ req'[r] # req[r]
      /\ req'[r].pc = "idle" /\ req'[r].reply = "ok"
  BY DEF Replies, Idle
<1>2. Start(r) \/ Advance(r)
  <2>1. ~UNCHANGED vars /\ ~Tick /\ ~RedisDown /\ ~RedisUp
    BY <1>1 DEF vars, Tick, RedisDown, RedisUp
  <2>2. ~Restart
    BY <1>1 DEF Restart, Idle
  <2> QED BY <1>1, <2>1, <2>2, OneAtATime DEF Next
<1>3. LogoutFind(r) \/ LogoutRevoke(r) \/ LogoutBlacklist(r)
  BY <1>1, <1>2
  DEF Start, Advance, LoginFind, LoginRoles, LoginCreate, RefreshIsRevoked, RefreshFind, RefreshSync,
      RefreshRoles, RefreshRevoke, RefreshBlacklist, RefreshCreate, LogoutStart, ChangeFind, ChangeUpdate,
      ChangeRevokeAll
<1>4. LogoutBlacklist(r)
  <2>1. ~LogoutFind(r)
    <3>1. /\ ~Answer(r, "internal")
          /\ ~Goto(r, "logout_revoke")
      BY <1>1 DEF Answer, Goto, Become, Idle, TypeOK, Request
    <3> QED BY <3>1 DEF LogoutFind
  <2>2. ~LogoutRevoke(r)
    BY <1>1 DEF LogoutRevoke, Goto, Become, TypeOK, Request
  <2> QED BY <1>3, <2>1, <2>2
<1> QED BY <1>4 DEF LogoutBlacklist, NoFault, TimeInv, SettledSpent, Settled

\* Who is told that the logout succeeded, and nothing has failed, holds a revoked token.
THEOREM LogoutRevokesHolds == Spec => LogoutRevokes
<1>1. Spec => []TypeOK
  BY TypeCorrect, PTL
<1>2. TypeOK /\ TypeOK' /\ TimeInv /\ [Next]_vars =>
         [\A r \in Req : Replies(r, {"logout_find", "logout_revoke", "logout_black"}, "ok")
                         /\ req[r].tok \in Rows /\ faults' = 0 => Revoked(req[r].tok)]_vars
  BY LogoutStep
<1> QED BY <1>1, <1>2, TimeInvHolds, PTL DEF Spec, LogoutRevokes

-----------------------------------------------------------------------------
\* Sessions that survive a change of password: rows, and goroutines about to insert one

\* Request q will insert a row that is u's and stale, unless it gives up.
Late(q, u) ==
    /\ q.user = u
    /\ \/ q.pc \in {"login_roles", "login_create"} /\ q.ver < passwd[u]
       \/ q.pc \in {"refresh_black", "refresh_create"} /\ authVersion[q.tok] < passwd[u]
InFlight(u) == {r \in Req : Late(req[r], u)}

\* Together they are fewer than there are goroutines: the one that swept the table is not
\* among those in flight, and each of the others leaves at most one stale row.
Few(S, F) == IsFiniteSet(S) /\ F \subseteq Req /\ Cardinality(S) + Cardinality(F) < Cardinality(Req)
FewInv == faults = 0 => \A u \in User : ~Changing(u) => Few(Stale(u), InFlight(u))

\* What a step does to the rows and the requests of u.
Eases(u) == Stale(u)' \subseteq Stale(u) /\ InFlight(u)' \subseteq InFlight(u)
Withdraws(r, t, u) ==
    /\ t \in Stale(u) /\ Stale(u)' \subseteq Stale(u) \ {t}
    /\ InFlight(u)' \subseteq InFlight(u) \cup {r}
Lands(r, t, u) ==
    /\ r \in InFlight(u) /\ InFlight(u)' \subseteq InFlight(u) \ {r}
    /\ Stale(u)' \subseteq Stale(u) \cup {t}
Sweeps(r, u) == Stale(u)' = {} /\ InFlight(u)' \subseteq Req \ {r}

Turns(u) ==
    \/ \E r \in Req : Sweeps(r, u)
    \/ ~Changing(u) /\ Eases(u)
    \/ ~Changing(u) /\ \E r \in Req, t \in Token : Withdraws(r, t, u) \/ Lands(r, t, u)

LEMMA FewSubsets ==
    ASSUME NEW S, NEW F, Few(S, F), NEW T, NEW G, T \subseteq S, G \subseteq F
    PROVE  Few(T, G)
<1>1. IsFiniteSet(F) /\ IsFiniteSet(S) /\ G \subseteq Req /\ IsFiniteSet(Req)
  BY ReqAssumption, FS_Subset DEF Few
<1>2. /\ IsFiniteSet(T) /\ Cardinality(T) <= Cardinality(S)
      /\ IsFiniteSet(G) /\ Cardinality(G) <= Cardinality(F)
  BY <1>1, FS_Subset
<1>3. /\ Cardinality(S) \in Nat /\ Cardinality(F) \in Nat /\ Cardinality(Req) \in Nat
      /\ Cardinality(T) \in Nat /\ Cardinality(G) \in Nat
  BY <1>1, <1>2, FS_CardinalityType
<1> QED BY <1>1, <1>2, <1>3 DEF Few

\* One of them more and one of the others less.
LEMMA FewTraded ==
    ASSUME NEW S, NEW F, Few(S, F), NEW x, NEW r \in Req
    PROVE  /\ x \in S => Few(S \ {x}, F \cup {r})
           /\ r \in F => Few(S \cup {x}, F \ {r})
<1>1. IsFiniteSet(F) /\ IsFiniteSet(S) /\ IsFiniteSet(Req)
  BY ReqAssumption, FS_Subset DEF Few
<1>2. Cardinality(S) \in Nat /\ Cardinality(F) \in Nat /\ Cardinality(Req) \in Nat
  BY <1>1, FS_CardinalityType
<1>3. /\ IsFiniteSet(F \cup {r}) /\ Cardinality(F \cup {r}) <= Cardinality(F) + 1
      /\ IsFiniteSet(S \cup {x}) /\ Cardinality(S \cup {x}) <= Cardinality(S) + 1
  <2>1. /\ IsFiniteSet(F \cup {r})
        /\ Cardinality(F \cup {r}) = Cardinality(F) \/ Cardinality(F \cup {r}) = Cardinality(F) + 1
    BY <1>1, FS_AddElement
  <2>2. /\ IsFiniteSet(S \cup {x})
        /\ Cardinality(S \cup {x}) = Cardinality(S) \/ Cardinality(S \cup {x}) = Cardinality(S) + 1
    BY <1>1, FS_AddElement
  <2> QED BY <1>2, <2>1, <2>2
<1>4. /\ IsFiniteSet(S \ {x}) /\ (x \in S => Cardinality(S \ {x}) = Cardinality(S) - 1)
      /\ IsFiniteSet(F \ {r}) /\ (r \in F => Cardinality(F \ {r}) = Cardinality(F) - 1)
  BY <1>1, <1>2, FS_RemoveElement
<1>5. /\ Cardinality(F \cup {r}) \in Nat /\ Cardinality(S \cup {x}) \in Nat
      /\ Cardinality(S \ {x}) \in Nat /\ Cardinality(F \ {r}) \in Nat
  BY <1>3, <1>4, FS_CardinalityType
<1>6. F \cup {r} \subseteq Req /\ F \ {r} \subseteq Req
  BY DEF Few
<1> QED BY <1>2, <1>3, <1>4, <1>5, <1>6 DEF Few

LEMMA FewSwept ==
    ASSUME NEW r \in Req, NEW F, F \subseteq Req \ {r}
    PROVE  Few({}, F)
<1>1. /\ IsFiniteSet(Req) /\ Cardinality(Req) \in Nat
      /\ IsFiniteSet(Req \ {r}) /\ Cardinality(Req \ {r}) = Cardinality(Req) - 1
  BY ReqAssumption, FS_CardinalityType, FS_RemoveElement
<1>2. IsFiniteSet(F) /\ Cardinality(F) <= Cardinality(Req \ {r}) /\ Cardinality(F) \in Nat
  BY <1>1, FS_Subset, FS_CardinalityType
<1>3. IsFiniteSet({}) /\ Cardinality({}) = 0
  BY FS_EmptySet
<1> QED BY <1>1, <1>2, <1>3 DEF Few

LEMMA TurnsKeep ==
    ASSUME NEW u \in User, Turns(u), ~Changing(u) => Few(Stale(u), InFlight(u))
    PROVE  Few(Stale(u), InFlight(u))'
<1>1. CASE \E r \in Req : Sweeps(r, u)
  BY <1>1, FewSwept DEF Sweeps
<1>2. CASE ~Changing(u) /\ Eases(u)
  BY <1>2, FewSubsets DEF Eases
<1>3. ASSUME ~Changing(u), NEW r \in Req, NEW t \in Token, Withdraws(r, t, u)
      PROVE  Few(Stale(u), InFlight(u))'
  <2>1. Few(Stale(u) \ {t}, InFlight(u) \cup {r})
    BY <1>3, FewTraded DEF Withdraws
  <2> QED BY <1>3, <2>1, FewSubsets DEF Withdraws
<1>4. ASSUME ~Changing(u), NEW r \in Req, NEW t \in Token, Lands(r, t, u)
      PROVE  Few(Stale(u), InFlight(u))'
  <2>1. Few(Stale(u) \cup {t}, InFlight(u) \ {r})
    BY <1>4, FewTraded DEF Lands
  <2> QED BY <1>4, <2>1, FewSubsets DEF Lands
<1> QED BY <1>1, <1>2, <1>3, <1>4 DEF Turns

LEMMA FewerStale ==
    ASSUME TypeOK, NEW u \in User, passwd'[u] = passwd[u], UNCHANGED authVersion,
           \/ UNCHANGED table
           \/ \E t \in Rows : MarkRevoked(t)
           \/ \E v \in User : MarkAllRevoked(v)
    PROVE  Stale(u)' \subseteq Stale(u)
<1>1. TableGrows /\ Rows' = Rows /\ \A s \in Token : Live(s)' => Live(s)
  BY RevokeTable, RevokeAllTable DEF TableGrows, Rows, Live
<1> QED BY <1>1, RowsAreTokens DEF TableGrows, Stale

\* Goroutine r moves to q: what that says of the requests in flight.
LEMMA OneTurns ==
    ASSUME TypeOK, LocalsOK, NEW r \in Req, NEW q \in Request, Become(r, q), NEW u \in User,
           passwd'[u] = passwd[u], \A x \in Rows : authVersion'[x] = authVersion[x],
           q.pc \in {"refresh_black", "refresh_create"} => q.tok \in Rows
    PROVE  /\ InFlight(u)' \subseteq InFlight(u) \cup {r}
           /\ (Late(q, u) => Late(req[r], u)) => InFlight(u)' \subseteq InFlight(u)
           /\ ~Late(q, u) => InFlight(u)' \subseteq InFlight(u) \ {r}
           /\ req[r].pc # "change_revoke_all" /\ Changing(u) => Changing(u)'
<1>1. /\ req'[r] = q
      /\ \A x \in Req \ {r} : req'[x] = req[x]
  BY DEF Become, TypeOK
<1>2. Late(req[r], u)' <=> Late(q, u)
  BY <1>1 DEF Late
<1>3. ASSUME NEW x \in Req \ {r}
      PROVE  Late(req[x], u)' <=> Late(req[x], u)
  <2>1. req[x].pc \in {"refresh_black", "refresh_create"} => req[x].tok \in Rows
    BY DEF LocalsOK, LocalOK, Deciding
  <2> QED BY <1>1, <2>1 DEF Late
<1>4. req[r].pc # "change_revoke_all" /\ Changing(u) => Changing(u)'
  BY <1>1 DEF Changing
<1> QED BY <1>2, <1>3, <1>4 DEF InFlight

\* A goroutine that goes where it is no later than it was.
LEMMA EasingStep ==
    ASSUME TypeOK, LocalsOK, NEW r \in Req, NEW q \in Request, Become(r, q), NEW u \in User,
           passwd'[u] = passwd[u], UNCHANGED authVersion, Late(q, u) => Late(req[r], u),
           q.pc \in {"refresh_black", "refresh_create"} => q.tok \in Rows,
           \/ UNCHANGED table
           \/ \E t \in Rows : MarkRevoked(t)
           \/ \E v \in User : MarkAllRevoked(v),
           req[r].pc # "change_revoke_all" \/ ~Changing(u), ~Changing(u)'
    PROVE  Turns(u)
<1>1. Stale(u)' \subseteq Stale(u)
  BY FewerStale
<1>2. \A x \in Rows : authVersion'[x] = authVersion[x]
  OBVIOUS
<1>3. InFlight(u)' \subseteq InFlight(u) /\ ~Changing(u)
  BY <1>2, OneTurns
<1> QED BY <1>1, <1>3 DEF Turns, Eases

LEMMA AnswerTurns ==
    ASSUME TypeOK, LocalsOK, NEW r \in Req, NEW code \in Reply, Answer(r, code), NEW u \in User,
           passwd'[u] = passwd[u], UNCHANGED authVersion,
           \/ UNCHANGED table
           \/ \E t \in Rows : MarkRevoked(t)
           \/ \E v \in User : MarkAllRevoked(v),
           req[r].pc # "change_revoke_all" \/ ~Changing(u), ~Changing(u)'
    PROVE  Turns(u)
<1>1. Idle(code) \in Request /\ Idle(code).pc = "idle"
  BY DEF Idle, Request, PC
<1>2. ~Late(Idle(code), u)
  BY <1>1 DEF Late
<1> QED BY <1>1, <1>2, EasingStep DEF Answer

LEMMA GotoTurns ==
    ASSUME TypeOK, LocalsOK, NEW r \in Req, NEW label \in PC, Goto(r, label), NEW u \in User,
           passwd'[u] = passwd[u], UNCHANGED authVersion,
           \/ label \notin {"login_roles", "login_create", "refresh_black", "refresh_create"}
           \/ label = "login_create" /\ req[r].pc = "login_roles"
           \/ label = "refresh_create" /\ req[r].pc = "refresh_black",
           UNCHANGED table \/ (\E t \in Rows : MarkRevoked(t)),
           req[r].pc # "change_revoke_all", ~Changing(u)'
    PROVE  Turns(u)
<1> DEFINE q == [req[r] EXCEPT !.pc = label]
<1>1. /\ q \in Request /\ q.pc = label
      /\ q.tok = req[r].tok /\ q.user = req[r].user /\ q.ver = req[r].ver
  <2>1. req[r] \in Request
    BY DEF TypeOK
  <2> QED BY <2>1 DEF Request
<1>2. Become(r, q)
  BY DEF Goto
<1> HIDE DEF q
<1>3. Late(q, u) => Late(req[r], u)
  BY <1>1 DEF Late
<1>4. q.pc \in {"refresh_black", "refresh_create"} => q.tok \in Rows
  BY <1>1 DEF LocalsOK, LocalOK, Deciding
<1> QED BY <1>1, <1>2, <1>3, <1>4, EasingStep

LEMMA StartTurns ==
    ASSUME TypeOK, LocalsOK, NEW r \in Req, Start(r), NEW u \in User, ~Changing(u)'
    PROVE  Turns(u)
<1>1. UNCHANGED <<passwd, table, authVersion>> /\ req[r].pc = "idle"
  BY DEF Start, LoginFind, ChangeFind, RefreshIsRevoked, LogoutStart, stores, KeepHistory, history
<1>2. CASE \E code \in Reply : Answer(r, code)
  BY <1>1, <1>2, AnswerTurns
<1>3. ASSUME NEW l \in {"login_roles", "change_update", "refresh_find", "logout_find"},
             NEW t \in Token \cup {NoToken}, NEW v \in User \cup {NoUser}, NEW ver \in Nat,
             Begin(r, l, t, v, ver), l = "login_roles" => v \in User /\ ver = passwd[v]
      PROVE  Turns(u)
  <2> DEFINE q == [pc |-> l, tok |-> t, user |-> v, at |-> 0, ver |-> ver, reply |-> "none"]
  <2>1. /\ q \in Request /\ q.pc \notin {"refresh_black", "refresh_create", "login_create"}
        /\ q.pc = l /\ q.user = v /\ q.ver = ver
    BY DEF Request, PC, Reply
  <2>2. Become(r, q)
    BY <1>3 DEF Begin
  <2> HIDE DEF q
  <2>3. passwd[u] \in Nat
    BY DEF TypeOK
  <2>4. ~Late(q, u)
    BY <1>3, <2>1, <2>3 DEF Late
  <2> QED BY <1>1, <2>1, <2>2, <2>4, EasingStep
<1>4. known \cup {NoToken} \subseteq Token \cup {NoToken} /\ \A v \in User : passwd[v] \in Nat
  BY DEF TypeOK
<1>5. ASSUME NEW v \in User, LoginFind(r, v) \/ ChangeFind(r, v)
      PROVE  Turns(u)
  <2>1. \/ Answer(r, "internal") \/ Answer(r, "unauthorized") \/ Answer(r, "bad_request")
        \/ Begin(r, "login_roles", NoToken, v, passwd[v])
        \/ Begin(r, "change_update", NoToken, v, 0)
    BY <1>5 DEF LoginFind, ChangeFind
  <2> QED BY <1>2, <1>3, <1>4, <2>1 DEF Reply
<1>6. ASSUME NEW t \in known \cup {NoToken}, RefreshIsRevoked(r, t) \/ LogoutStart(r, t)
      PROVE  Turns(u)
  <2>1. \/ Answer(r, "internal") \/ Answer(r, "unauthorized")
        \/ Begin(r, "refresh_find", t, NoUser, 0) \/ Begin(r, "logout_find", t, NoUser, 0)
    BY <1>6 DEF RefreshIsRevoked, LogoutStart
  <2> QED BY <1>2, <1>3, <1>4, <2>1 DEF Reply
<1> QED BY <1>5, <1>6 DEF Start

\* A row is inserted: stale only if goroutine r was known to be late.
LEMMA InsertTurns ==
    ASSUME TypeOK, LocalsOK, NEW r \in Req, NEW t \in Token, NEW v \in User, NEW now \in Nat,
           NEW p \in Token \cup {NoToken}, NEW ver \in Nat, Insert(t, v, now, p, ver),
           NEW code \in Reply, Answer(r, code), NEW u \in User, passwd'[u] = passwd[u],
           v = u /\ ver < passwd[u] => r \in InFlight(u),
           req[r].pc # "change_revoke_all", ~Changing(u)'
    PROVE  Turns(u)
<1>1. /\ t \in Token \ Rows /\ TableGrows /\ Rows' = Rows \cup {t}
      /\ \A s \in Token : Live(s)' <=> Live(s) \/ s = t
  BY InsertTable
<1>2. /\ authVersion'[t] = ver /\ table'[t].user = v
      /\ \A x \in Rows : authVersion'[x] = authVersion[x]
  BY <1>1 DEF Insert, TypeOK, Rows
<1>3. /\ Stale(u)' \subseteq Stale(u) \cup {t}
      /\ ~(v = u /\ ver < passwd[u]) => Stale(u)' \subseteq Stale(u)
  BY <1>1, <1>2, RowsAreTokens DEF Stale, TableGrows
<1>4. Idle(code) \in Request /\ Idle(code).pc = "idle"
  BY DEF Idle, Request, PC
<1>5. ~Late(Idle(code), u)
  BY <1>4 DEF Late
<1>6. InFlight(u)' \subseteq InFlight(u) \ {r} /\ ~Changing(u)
  BY <1>2, <1>4, <1>5, OneTurns DEF Answer
<1> QED BY <1>3, <1>6 DEF Turns, Eases, Lands

LEMMA IssuingTurns ==
    ASSUME TypeOK, LocalsOK, NEW r \in Req, LoginCreate(r) \/ RefreshCreate(r),
           NEW u \in User, ~Changing(u)'
    PROVE  Turns(u)
<1> DEFINE f == req[r].tok
<1>1. /\ passwd' = passwd /\ req[r].pc \in {"login_create", "refresh_create"}
      /\ req[r].ver \in Nat /\ req[r].at \in Nat /\ clock \in Nat
      /\ "internal" \in Reply /\ "ok" \in Reply
  BY DEF LoginCreate, RefreshCreate, TypeOK, Request, Reply
<1>2. CASE UNCHANGED table /\ KeepHistory /\ Answer(r, "internal")
  BY <1>1, <1>2, AnswerTurns DEF KeepHistory, history
<1>3. ASSUME LoginCreate(r), NEW t \in Token, Insert(t, req[r].user, clock, NoToken, req[r].ver),
             NEW code \in {"internal", "ok"}, Answer(r, code)
      PROVE  Turns(u)
  <2>1. req[r].user \in User
    BY <1>3 DEF LoginCreate, LocalsOK, LocalOK
  <2>2. req[r].user = u /\ req[r].ver < passwd[u] => r \in InFlight(u)
    BY <1>3 DEF LoginCreate, InFlight, Late
  <2> QED BY <1>1, <1>3, <2>1, <2>2, InsertTurns
<1>4. ASSUME RefreshCreate(r), NEW t \in Token, Insert(t, req[r].user, req[r].at, f, authVersion[f]),
             NEW code \in {"internal", "ok"}, Answer(r, code)
      PROVE  Turns(u)
  <2>1. /\ f \in Token /\ req[r].user \in User /\ authVersion[f] \in Nat
    <3>1. f \in Rows /\ f \in Token /\ req[r].user = table[f].user
      BY <1>4 DEF RefreshCreate, LocalsOK, LocalOK, Deciding, Rows
    <3> QED BY <3>1 DEF TypeOK, Rows, Row
  <2>2. req[r].user = u /\ authVersion[f] < passwd[u] => r \in InFlight(u)
    BY <1>4 DEF RefreshCreate, InFlight, Late
  <2> QED BY <1>1, <1>4, <2>1, <2>2, InsertTurns
<1> QED BY <1>2, <1>3, <1>4 DEF LoginCreate, RefreshCreate

LEMMA RevokeTurns ==
    ASSUME TypeOK, LocalsOK, NEW r \in Req, RefreshRevoke(r), NEW u \in User, ~Changing(u)'
    PROVE  Turns(u)
<1> DEFINE f == req[r].tok
           q == [req[r] EXCEPT !.pc = "refresh_black"]
<1>1. /\ f \in Rows /\ f \in Token /\ req[r].user = table[f].user /\ req[r].pc = "refresh_revoke"
      /\ UNCHANGED <<passwd, authVersion>>
  BY DEF RefreshRevoke, LocalsOK, LocalOK, Deciding, Rows, KeepHistory, history
<1>2. CASE (Answer(r, "internal") \/ Answer(r, "not_found")) /\ (UNCHANGED table \/ MarkRevoked(f))
  BY <1>1, <1>2, AnswerTurns DEF Reply
<1>3. CASE ~Revoked(f) /\ Goto(r, "refresh_black") /\ MarkRevoked(f)
  <2>1. /\ q \in Request /\ q.pc = "refresh_black" /\ q.tok = f /\ q.user = req[r].user
    <3>1. req[r] \in Request
      BY DEF TypeOK
    <3> QED BY <3>1 DEF Request, PC
  <2>2. Become(r, q)
    BY <1>3 DEF Goto
  <2> HIDE DEF q
  <2>3. InFlight(u)' \subseteq InFlight(u) \cup {r} /\ ~Changing(u)
    BY <1>1, <2>1, <2>2, OneTurns
  <2>4. Stale(u)' \subseteq Stale(u)
    BY <1>1, <1>3, FewerStale
  <2>5. f \notin Stale(u)'
    BY <1>1, <1>3, RevokeTable DEF Stale
  <2>6. Late(q, u) => f \in Stale(u)
    BY <1>1, <1>3, <2>1 DEF Late, Stale, Live, Revoked
  <2>7. CASE f \in Stale(u)
    BY <1>1, <2>3, <2>4, <2>5, <2>7 DEF Turns, Withdraws
  <2>8. CASE ~Late(q, u)
    BY <1>1, <1>3, <2>1, <2>2, <2>8, EasingStep
  <2> QED BY <2>6, <2>7, <2>8
<1> QED BY <1>2, <1>3 DEF RefreshRevoke, RowsAffected

\* The sweep, and who is about to make it.
LEMMA ChangeTurns ==
    ASSUME TypeOK, LocalsOK, NEW r \in Req, ChangeUpdate(r) \/ ChangeRevokeAll(r), faults' = 0,
           NEW u \in User, ~Changing(u)'
    PROVE  Turns(u)
<1>1. ~Fault /\ UNCHANGED authVersion
  BY DEF Fault, TypeOK, ChangeUpdate, ChangeRevokeAll, KeepHistory, history
<1>2. req[r].user \in User
  BY DEF ChangeUpdate, ChangeRevokeAll, LocalsOK, LocalOK
<1>3. CASE ChangeUpdate(r)
  <2>1. /\ req[r].pc = "change_update" /\ Goto(r, "change_revoke_all") /\ UNCHANGED table
        /\ passwd' = [passwd EXCEPT ![req[r].user] = @ + 1]
    BY <1>1, <1>3 DEF ChangeUpdate
  <2>2. req'[r].pc = "change_revoke_all" /\ req'[r].user = req[r].user
    BY <2>1 DEF Goto, Become, TypeOK, Request
  <2>3. req[r].user # u
    BY <2>2 DEF Changing
  <2>4. passwd'[u] = passwd[u]
    BY <2>1, <2>3 DEF TypeOK
  <2> QED BY <1>1, <2>1, <2>4, GotoTurns DEF PC
<1>4. CASE ChangeRevokeAll(r)
  <2>1. /\ req[r].pc = "change_revoke_all" /\ Answer(r, "ok") /\ UNCHANGED passwd
        /\ MarkAllRevoked(req[r].user)
    BY <1>1, <1>4 DEF ChangeRevokeAll
  <2>2. CASE req[r].user = u
    <3>1. Stale(u)' = {}
      <4>1. Rows' = Rows /\ Rows \subseteq Token
        BY <1>2, <2>1, RevokeAllTable, RowsAreTokens
      <4>2. \A t \in Rows : table[t] \in Row
        BY DEF TypeOK, Rows
      <4>3. \A t \in Rows : table'[t].user = u => table'[t].revoked
        BY <2>1, <2>2, <4>1, <4>2 DEF MarkAllRevoked, Row
      <4> QED BY <4>1, <4>3 DEF Stale, Live
    <3>2. InFlight(u)' \subseteq Req \ {r}
      BY <2>1 DEF Answer, Become, Idle, InFlight, Late, TypeOK
    <3> QED BY <3>1, <3>2 DEF Turns, Sweeps
  <2>3. CASE req[r].user # u
    <3>1. ~Changing(u)
      BY <2>1, <2>3 DEF Changing, Answer, Become, TypeOK
    <3> QED BY <1>1, <1>2, <2>1, <3>1, AnswerTurns DEF Reply
  <2> QED BY <2>2, <2>3
<1> QED BY <1>3, <1>4

LEMMA AdvanceTurns ==
    ASSUME TypeOK, LocalsOK, NEW r \in Req, Advance(r), faults' = 0, NEW u \in User, ~Changing(u)'
    PROVE  Turns(u)
<1> DEFINE f == req[r].tok
<1>1. CASE LoginRoles(r) \/ RefreshRoles(r) \/ LogoutFind(r)
  BY <1>1, AnswerTurns, GotoTurns
     DEF LoginRoles, RefreshRoles, LogoutFind, stores, KeepHistory, history, Reply, PC
<1>2. CASE RefreshSync(r) \/ RefreshBlacklist(r) \/ LogoutBlacklist(r)
  BY <1>2, AnswerTurns, GotoTurns
     DEF RefreshSync, RefreshBlacklist, LogoutBlacklist, KeepHistory, history, Reply, PC
<1>3. CASE LogoutRevoke(r)
  <2>1. f \in Rows
    BY <1>3 DEF LogoutRevoke, LocalsOK, LocalOK
  <2> QED BY <1>3, <2>1, GotoTurns DEF LogoutRevoke, KeepHistory, history, PC
<1>4. CASE RefreshFind(r)
  <2>1. UNCHANGED <<passwd, table, authVersion>> /\ req[r].pc = "refresh_find"
    BY <1>4 DEF RefreshFind, stores, KeepHistory, history
  <2>2. CASE Answer(r, "internal") \/ Answer(r, "unauthorized")
    BY <2>1, <2>2, AnswerTurns DEF Reply
  <2> DEFINE l == IF Revoked(f) THEN "refresh_sync" ELSE "refresh_roles"
             q == [req[r] EXCEPT !.pc = l, !.user = table[f].user, !.at = clock]
  <2>3. CASE f \in Rows /\ Become(r, q)
    <3>1. table[f].user \in User /\ l \in {"refresh_sync", "refresh_roles"} /\ clock \in Nat
      BY <2>3 DEF TypeOK, Rows, Row
    <3>2. q \in Request /\ q.pc = l
      <4>1. req[r] \in Request /\ l \in PC
        BY <3>1 DEF TypeOK, PC
      <4> HIDE DEF l
      <4> QED BY <3>1, <4>1 DEF Request
    <3> HIDE DEF q, l
    <3>3. ~Late(q, u) /\ q.pc \notin {"refresh_black", "refresh_create"}
      BY <3>1, <3>2 DEF Late
    <3> QED BY <2>1, <2>3, <3>2, <3>3, EasingStep
  <2> QED BY <1>4, <2>2, <2>3 DEF RefreshFind
<1> QED BY <1>1, <1>2, <1>3, <1>4, IssuingTurns, RevokeTurns, ChangeTurns DEF Advance

LEMMA WorldTurns ==
    ASSUME TypeOK, Tick \/ RedisDown \/ RedisUp \/ Restart \/ UNCHANGED vars, faults' = 0,
           NEW u \in User, ~Changing(u)'
    PROVE  Turns(u)
<1>1. ~Fault
  BY DEF Fault, TypeOK
<1>2. UNCHANGED <<passwd, table, authVersion, req>>
  BY <1>1 DEF Tick, RedisDown, RedisUp, Restart, vars, stores, history, KeepHistory
<1>3. Stale(u)' = Stale(u) /\ InFlight(u)' = InFlight(u) /\ (Changing(u)' <=> Changing(u))
  BY <1>2 DEF Stale, InFlight, Late, Changing, Rows, Live
<1> QED BY <1>3 DEF Turns, Eases

LEMMA FaultsAreCounted ==
    ASSUME TypeOK, [Next]_vars, faults' = 0
    PROVE  faults = 0
<1>1. ASSUME NEW r \in Req, Start(r) \/ Advance(r)
      PROVE  Fault \/ NoFault
  BY <1>1
  DEF Start, Advance, LoginFind, LoginRoles, LoginCreate, RefreshIsRevoked, RefreshFind, RefreshSync,
      RefreshRoles, RefreshRevoke, RefreshBlacklist, RefreshCreate, LogoutStart, LogoutFind, LogoutRevoke,
      LogoutBlacklist, ChangeFind, ChangeUpdate, ChangeRevokeAll
<1>2. Fault \/ NoFault
  BY <1>1 DEF Next, Tick, RedisDown, RedisUp, Restart, vars, NoFault
<1> QED BY <1>2 DEF Fault, NoFault, TypeOK

LEMMA FewInvInductive ==
    /\ Init => FewInv
    /\ TypeOK /\ LocalsOK /\ FewInv /\ [Next]_vars => FewInv'
<1>1. ASSUME Init, NEW u \in User
      PROVE  Few(Stale(u), InFlight(u))
  <2>1. PICK r \in Req : TRUE
    BY ReqAssumption
  <2>2. Stale(u) = {} /\ InFlight(u) \subseteq Req \ {r}
    BY <1>1 DEF Init, Stale, Rows, InFlight, Late, Idle
  <2> QED BY <2>2, FewSwept
<1>2. ASSUME TypeOK, LocalsOK, FewInv, [Next]_vars, faults' = 0, NEW u \in User, ~Changing(u)'
      PROVE  Few(Stale(u), InFlight(u))'
  <2>1. Turns(u)
    BY <1>2, StartTurns, AdvanceTurns, WorldTurns DEF Next
  <2>2. faults = 0
    BY <1>2, FaultsAreCounted
  <2> QED BY <1>2, <2>1, <2>2, TurnsKeep DEF FewInv
<1> QED BY <1>1, <1>2 DEF FewInv

LEMMA FewInvImplies == FewInv => FewStaleSessions
<1> SUFFICES ASSUME FewInv, faults = 0, NEW u \in User, ~Changing(u)
             PROVE  Cardinality(Stale(u)) < Cardinality(Req)
  BY DEF FewStaleSessions
<1>1. Few(Stale(u), InFlight(u))
  BY DEF FewInv
<1>2. IsFiniteSet(InFlight(u))
  BY <1>1, ReqAssumption, FS_Subset DEF Few
<1>3. Cardinality(Stale(u)) \in Nat /\ Cardinality(InFlight(u)) \in Nat /\ Cardinality(Req) \in Nat
  BY <1>1, <1>2, ReqAssumption, FS_CardinalityType DEF Few
<1> QED BY <1>1, <1>3 DEF Few

\* However many logins and refreshes were in flight when a change of password swept the
\* table, fewer stale sessions survive it than there are goroutines, as long as nothing fails.
THEOREM FewStaleSessionsHolds == Spec => []FewStaleSessions
<1>1. Init => TypeOK /\ LocalsOK /\ FewInv
  BY InitTypes, FewInvInductive
<1>2. TypeOK /\ LocalsOK /\ FewInv /\ [Next]_vars => (TypeOK /\ LocalsOK /\ FewInv)'
  BY NextTypes, FewInvInductive
<1> QED BY <1>1, <1>2, FewInvImplies, PTL DEF Spec

-----------------------------------------------------------------------------
\* What is missing from the blacklist

\* As long as nothing has failed, a Redis that was there at the start is there; and who has
\* stored a password has moved on from the first.
Undisturbed ==
    /\ faults = 0 /\ client => redisUp
    /\ \A u \in User : passwd[u] >= 1
    /\ \A r \in Req : req[r].pc = "change_revoke_all" => passwd[req[r].user] > 1

\* A step of a request or of the world in which nothing fails.
Calm == /\ faults = 0 /\ faults' = 0 /\ client /\ client' /\ redisUp
        /\ NoFault /\ ~Fault

LEMMA UndisturbedInductive ==
    /\ Init => Undisturbed
    /\ TypeOK /\ TypeOK' /\ LocalsOK /\ LocalsOK' /\ Undisturbed /\ [Next]_vars => Undisturbed'
<1>1. Init => Undisturbed
  BY DEF Init, Undisturbed, Idle
<1>2. ASSUME TypeOK, TypeOK', LocalsOK, LocalsOK', Undisturbed, [Next]_vars
      PROVE  Undisturbed'
  <2>1. /\ passwd \in [User -> Nat] /\ passwd' \in [User -> Nat]
        /\ req \in [Req -> Request] /\ faults \in Nat
    BY <1>2 DEF TypeOK
  <2>2. faults' = 0 /\ client' => redisUp'
    <3>1. ASSUME NEW r \in Req, Start(r) \/ Advance(r)
          PROVE  UNCHANGED <<client, redisUp>>
      BY <3>1
      DEF Start, Advance, LoginFind, LoginRoles, LoginCreate, RefreshIsRevoked, RefreshFind,
          RefreshSync, RefreshRoles, RefreshRevoke, RefreshBlacklist, RefreshCreate, LogoutStart,
          LogoutFind, LogoutRevoke, LogoutBlacklist, ChangeFind, ChangeUpdate, ChangeRevokeAll, stores
    <3>2. Tick \/ UNCHANGED vars => UNCHANGED <<client, redisUp>>
      BY DEF Tick, vars, stores
    <3>3. RedisDown \/ Restart => faults' # 0
      BY <2>1 DEF RedisDown, Restart, Fault
    <3>4. RedisUp => redisUp'
      BY DEF RedisUp
    <3>5. faults' = 0 => faults = 0
      BY <1>2, FaultsAreCounted
    <3> QED BY <1>2, <3>1, <3>2, <3>3, <3>4, <3>5 DEF Undisturbed, Next
  <2>3. \A u \in User : passwd[u] <= passwd'[u]
    <3>1. ASSUME NEW r \in Req, ChangeUpdate(r)
          PROVE  \A u \in User : passwd[u] <= passwd'[u]
      BY <2>1, <3>1 DEF ChangeUpdate
    <3>2. CASE ~ \E r \in Req : ChangeUpdate(r)
      <4>1. UNCHANGED passwd
        BY <1>2, <3>2
        DEF Next, Start, Advance, LoginFind, LoginRoles, LoginCreate, RefreshIsRevoked, RefreshFind,
            RefreshSync, RefreshRoles, RefreshRevoke, RefreshBlacklist, RefreshCreate, LogoutStart,
            LogoutFind, LogoutRevoke, LogoutBlacklist, ChangeFind, ChangeRevokeAll, Tick, RedisDown,
            RedisUp, Restart, vars, stores
      <4> QED BY <2>1, <4>1
    <3> QED BY <3>1, <3>2
  <2>4. ASSUME NEW x \in Req, req'[x].pc = "change_revoke_all"
        PROVE  /\ req'[x].user \in User
               /\ \/ req'[x] = req[x]
                  \/ passwd'[req'[x].user] > passwd[req'[x].user]
    <3>1. req'[x].user \in User
      BY <1>2, <2>4 DEF LocalsOK, LocalOK
    <3>2. ASSUME NEW r \in Req, Start(r) \/ Advance(r), ~ChangeUpdate(r)
          PROVE  req'[x] = req[x]
      <4>1. /\ \A code : Answer(r, code) => req'[r].pc = "idle"
            /\ \A label : Goto(r, label) => req'[r].pc = label
            /\ \A label, t, u, ver : Begin(r, label, t, u, ver) => req'[r].pc = label
        BY <2>1 DEF Answer, Goto, Begin, Become, Idle, Request
      <4>2. RefreshFind(r) => req'[r].pc \in {"idle", "refresh_sync", "refresh_roles"}
        BY <2>1, <4>1 DEF RefreshFind, Become, Request
      <4>3. req'[r].pc # "change_revoke_all"
        BY <3>2, <4>1, <4>2
        DEF Start, Advance, LoginFind, LoginRoles, LoginCreate, RefreshIsRevoked, RefreshSync,
            RefreshRoles, RefreshRevoke, RefreshBlacklist, RefreshCreate, LogoutStart, LogoutFind,
            LogoutRevoke, LogoutBlacklist, ChangeFind, ChangeRevokeAll
      <4>4. \E q : Become(r, q)
        BY <3>2
        DEF Start, Advance, LoginFind, LoginRoles, LoginCreate, RefreshIsRevoked, RefreshFind,
            RefreshSync, RefreshRoles, RefreshRevoke, RefreshBlacklist, RefreshCreate, LogoutStart,
            LogoutFind, LogoutRevoke, LogoutBlacklist, ChangeFind, ChangeRevokeAll, Answer, Goto, Begin
      <4> QED BY <2>1, <2>4, <4>3, <4>4 DEF Become
    <3>3. ASSUME NEW r \in Req, ChangeUpdate(r)
          PROVE  req'[x] = req[x] \/ passwd'[req'[x].user] > passwd[req'[x].user]
      <4>1. CASE x = r /\ Goto(r, "change_revoke_all")
        <5>1. req'[x].user = req[r].user /\ req[r] \in Request
          BY <2>1, <4>1 DEF Goto, Become, Request
        <5> QED BY <2>1, <2>4, <3>1, <3>3, <4>1, <5>1 DEF ChangeUpdate, Answer, Become, Idle, Fault, NoFault
      <4>2. CASE x # r \/ Answer(r, "internal")
        BY <2>1, <2>4, <3>3, <4>2 DEF ChangeUpdate, Answer, Goto, Become, Idle
      <4> QED BY <3>3, <4>1, <4>2 DEF ChangeUpdate
    <3>4. CASE Tick \/ RedisDown \/ RedisUp \/ Restart \/ UNCHANGED vars
      <4>1. Restart => req'[x].pc = "idle"
        BY DEF Restart, Idle
      <4>2. UNCHANGED req
        BY <2>4, <3>4, <4>1 DEF Tick, RedisDown, RedisUp, vars
      <4> QED BY <3>1, <4>2
    <3> QED BY <1>2, <3>1, <3>2, <3>3, <3>4 DEF Next
  <2>5. ASSUME NEW x \in Req, req'[x].pc = "change_revoke_all"
        PROVE  passwd'[req'[x].user] > 1
    <3>1. req'[x].user \in User /\ passwd[req'[x].user] >= 1
      BY <1>2, <2>4, <2>5 DEF Undisturbed
    <3>2. CASE req'[x] = req[x]
      BY <1>2, <2>1, <2>3, <2>5, <3>1, <3>2 DEF Undisturbed
    <3>3. CASE passwd'[req'[x].user] > passwd[req'[x].user]
      BY <2>1, <3>1, <3>3
    <3> QED BY <2>4, <2>5, <3>2, <3>3
  <2>6. \A u \in User : passwd'[u] >= 1
    BY <1>2, <2>1, <2>3 DEF Undisturbed
  <2> QED BY <2>2, <2>5, <2>6 DEF Undisturbed
<1> QED BY <1>1, <1>2

\* What keeps the blacklist complete: who revokes a token goes on to write its entry, or has
\* stored a password; who has to write one writes it, unless the token has expired; and
\* an entry is replaced by one that holds.
LEMMA CompleteKept ==
    ASSUME TypeOK, TypeOK', TimeInv', Undisturbed, BlacklistComplete, Calm, clock <= clock',
           TableGrows, \A t \in Rows : table'[t].expires = table[t].expires,
           \A u \in User : passwd[u] <= passwd'[u],
           \A t \in Token : Revoked(t)' => Revoked(t) \/ Pending(t)' \/ passwd'[table'[t].user] > 1,
           \A t \in Token : Pending(t) => Pending(t)' \/ Blacklisted(t)' \/ table'[t].expires <= clock',
           \A t \in Token : black'[t] = black[t] \/ clock' < black'[t]
    PROVE  BlacklistComplete'
<1>1. /\ clock \in Nat /\ clock' \in Nat /\ black \in [Token -> Nat] /\ black' \in [Token -> Nat]
      /\ passwd \in [User -> Nat] /\ passwd' \in [User -> Nat]
  BY DEF TypeOK
<1>2. SUFFICES ASSUME NEW t \in Token, Revoked(t)', passwd'[table'[t].user] = 1,
                      clock' < table'[t].expires
               PROVE  Blacklisted(t)' \/ Pending(t)'
  BY DEF BlacklistComplete
<1>3. CASE Revoked(t)
  <2>1. /\ t \in Rows /\ table'[t].user = table[t].user /\ table'[t].expires = table[t].expires
        /\ table[t].user \in User /\ table[t].expires \in Nat
    BY <1>3 DEF Revoked, TableGrows, Rows, TypeOK, Row
  <2>2. passwd[table[t].user] = 1 /\ clock < table[t].expires
    BY <1>1, <1>2, <2>1 DEF Undisturbed
  <2>3. CASE Blacklisted(t)
    <3>1. clock < black[t] /\ black[t] # 0
      BY <1>1, <2>3 DEF Blacklisted
    <3>2. black'[t] = black[t] => table'[t].expires <= black'[t]
      BY <1>1, <2>1, <3>1 DEF TimeInv, BlacklistOutlivesToken
    <3> QED BY <1>1, <1>2, <2>1, <3>2 DEF Blacklisted
  <2>4. CASE Pending(t)
    BY <1>1, <1>2, <2>1, <2>4
  <2> QED BY <1>3, <2>2, <2>3, <2>4 DEF BlacklistComplete, Calm
<1> QED BY <1>1, <1>2, <1>3

\* Whoever has an entry to write still has, but for the goroutine that moves.
LEMMA StillPending ==
    ASSUME TypeOK, NEW r \in Req, NEW q, Become(r, q)
    PROVE  \A t \in Token : Pending(t) =>
              Pending(t)' \/ (req[r].tok = t /\ req[r].pc \in {"refresh_black", "logout_black"})
BY DEF Pending, Become, TypeOK

\* Steps that write no store but the passwords, and those of the world.
LEMMA ReadingComplete ==
    ASSUME TypeOK, TypeOK', LocalsOK, TimeInv', Undisturbed, BlacklistComplete, Calm,
           NEW r \in Req,
           \/ Start(r) \/ LoginRoles(r) \/ RefreshRoles(r) \/ LogoutFind(r) \/ RefreshFind(r)
           \/ ChangeUpdate(r)
    PROVE  BlacklistComplete'
<1>1. /\ req[r].pc \notin {"refresh_black", "logout_black"} /\ \E q : Become(r, q)
      /\ UNCHANGED <<table, black, clock>> /\ clock \in Nat
  BY DEF Start, LoginFind, ChangeFind, RefreshIsRevoked, LogoutStart, LoginRoles, RefreshRoles,
         LogoutFind, RefreshFind, ChangeUpdate, Answer, Begin, Goto, stores, TypeOK
<1>2. TableGrows /\ \A t \in Token : Revoked(t)' => Revoked(t)
  BY <1>1 DEF TableGrows, Revoked, Rows
<1>3. \A t \in Token : Pending(t) => Pending(t)'
  BY <1>1, StillPending
<1>4. \A u \in User : passwd[u] <= passwd'[u]
  <2>1. passwd \in [User -> Nat]
    BY DEF TypeOK
  <2> QED BY <2>1 DEF Start, LoginFind, ChangeFind, RefreshIsRevoked, LogoutStart, LoginRoles,
                      RefreshRoles, LogoutFind, RefreshFind, ChangeUpdate, stores
<1> QED BY <1>1, <1>2, <1>3, <1>4, CompleteKept

LEMMA WorldComplete ==
    ASSUME TypeOK, TypeOK', TimeInv', Undisturbed, BlacklistComplete, Calm,
           Tick \/ RedisDown \/ RedisUp \/ Restart
    PROVE  BlacklistComplete'
<1>1. /\ clock <= clock' /\ UNCHANGED <<passwd, table, black, req>>
  <2>1. Tick
    BY DEF RedisDown, RedisUp, Restart, Calm
  <2> QED BY <2>1 DEF Tick, TypeOK
<1>2. TableGrows /\ \A t \in Token : Revoked(t)' => Revoked(t)
  BY <1>1 DEF TableGrows, Revoked, Rows
<1>3. \A t \in Token : Pending(t) => Pending(t)'
  BY <1>1 DEF Pending
<1>4. \A u \in User : passwd[u] <= passwd'[u]
  BY <1>1 DEF TypeOK
<1> QED BY <1>1, <1>2, <1>3, <1>4, CompleteKept

\* The entry lasts as long as the row has left, counted from now or from earlier.
LEMMA WritingComplete ==
    ASSUME TypeOK, TypeOK', LocalsOK, TimeInv, TimeInv', Undisturbed, BlacklistComplete, Calm,
           NEW r \in Req, RefreshSync(r) \/ RefreshBlacklist(r) \/ LogoutBlacklist(r)
    PROVE  BlacklistComplete'
<1> DEFINE f == req[r].tok
           now == IF LogoutBlacklist(r) THEN clock ELSE req[r].at
           ttl == RemainingLifetime(table[f], now)
<1>1. f \in Rows /\ f \in Token /\ req[r].at \in Nat /\ clock \in Nat /\ table[f].expires \in Nat
      /\ black \in [Token -> Nat]
  <2>1. f \in Rows /\ f \in Token
    BY DEF RefreshSync, RefreshBlacklist, LogoutBlacklist, LocalsOK, LocalOK, Deciding, Rows
  <2> QED BY <2>1 DEF TypeOK, Request, Rows, Row
<1>2. /\ UNCHANGED <<passwd, table, clock>> /\ \E q : Become(r, q)
      /\ BlacklistRevoke(f, ttl)
  BY DEF RefreshSync, RefreshBlacklist, LogoutBlacklist, Answer, Goto
<1>3. now \in Nat /\ now <= clock
  BY <1>1 DEF RefreshSync, RefreshBlacklist, TimeInv, TimesOK, Deciding
<1>4. ttl \in Int /\ (ttl <= 0 => table[f].expires <= clock)
  <2> HIDE DEF now
  <2> QED BY <1>1, <1>3 DEF RemainingLifetime
<1> HIDE DEF now, ttl
<1>5. \A t \in Token : black'[t] = black[t] \/ clock < black'[t]
  BY <1>1, <1>2, <1>4 DEF BlacklistRevoke
<1>6. clock < black'[f] \/ table[f].expires <= clock
  BY <1>1, <1>2, <1>4 DEF BlacklistRevoke, Calm
<1>7. TableGrows /\ \A t \in Token : Revoked(t)' => Revoked(t)
  BY <1>2 DEF TableGrows, Revoked, Rows
<1>8. \A t \in Token : Pending(t) => Pending(t)' \/ Blacklisted(t)' \/ table'[t].expires <= clock'
  BY <1>1, <1>2, <1>6, StillPending DEF Blacklisted
<1>9. \A u \in User : passwd[u] <= passwd'[u]
  BY <1>2 DEF TypeOK
<1> QED BY <1>1, <1>2, <1>5, <1>7, <1>8, <1>9, CompleteKept

LEMMA RevokingComplete ==
    ASSUME TypeOK, TypeOK', LocalsOK, TimeInv', Undisturbed, BlacklistComplete, Calm,
           NEW r \in Req, RefreshRevoke(r) \/ LogoutRevoke(r) \/ ChangeRevokeAll(r)
    PROVE  BlacklistComplete'
<1> DEFINE f == req[r].tok
<1>1. /\ UNCHANGED <<passwd, black, clock, parent, faults>> /\ \E q : Become(r, q)
      /\ req[r].pc \notin {"refresh_black", "logout_black"} /\ clock \in Nat /\ faults \in Nat
  BY DEF RefreshRevoke, LogoutRevoke, ChangeRevokeAll, Answer, Goto, TypeOK, Calm, KeepHistory, history,
         NoFault
<1>2. \A t \in Token : Pending(t) => Pending(t)'
  BY <1>1, StillPending
<1>3. \A u \in User : passwd[u] <= passwd'[u]
  BY <1>1 DEF TypeOK
<1>a. clock <= clock' /\ \A t \in Token : black'[t] = black[t] \/ clock' < black'[t]
  BY <1>1
<1>4. \A t \in Rows : t \in Token /\ table[t] \in Row
  BY DEF Rows, TypeOK
<1>5. CASE UNCHANGED table
  <2>1. TableGrows /\ \A t \in Token : Revoked(t)' => Revoked(t)
    BY <1>5 DEF TableGrows, Revoked, Rows
  <2> QED BY <1>1, <1>2, <1>3, <1>5, <2>1, CompleteKept
<1>6. CASE f \in Rows /\ MarkRevoked(f) /\ (Goto(r, "refresh_black") \/ Goto(r, "logout_black"))
  <2>1. TableGrows /\ \A t \in Rows : table'[t].expires = table[t].expires
    <3>1. clock <= clock' /\ faults <= faults' /\ UNCHANGED parent
      BY <1>1
    <3>2. Keeps
      BY <1>6, <3>1, KeptTable
    <3>3. TableGrows
      BY <1>6, RevokeTable
    <3> QED BY <3>2, <3>3 DEF Keeps
  <2>2. \A t \in Token : Revoked(t)' => Revoked(t) \/ t = f
    BY <1>4, <1>6, RevokeTable
  <2>3. req'[r].tok = f /\ req'[r].pc \in {"refresh_black", "logout_black"}
    <3>1. req[r] \in Request /\ req \in [Req -> Request]
      BY DEF TypeOK
    <3> QED BY <1>6, <3>1 DEF Goto, Become, Request
  <2>4. \A t \in Token : Revoked(t)' => Revoked(t) \/ Pending(t)'
    BY <2>2, <2>3 DEF Pending
  <2> QED BY <1>2, <1>3, <1>a, <2>1, <2>4, CompleteKept
<1>7. CASE ChangeRevokeAll(r) /\ MarkAllRevoked(req[r].user)
  <2>1. req[r].user \in User /\ passwd'[req[r].user] > 1
    BY <1>1, <1>7 DEF ChangeRevokeAll, LocalsOK, LocalOK, Undisturbed
  <2>2. TableGrows /\ \A t \in Rows : table'[t].expires = table[t].expires
    BY <1>4, <1>7, <2>1, RevokeAllTable DEF MarkAllRevoked, TypeOK, Row
  <2>3. \A t \in Token : Revoked(t)' => Revoked(t) \/ table'[t].user = req[r].user
    BY <1>4, <1>7 DEF MarkAllRevoked, Revoked, Rows, Row
  <2> QED BY <1>2, <1>3, <1>a, <2>1, <2>2, <2>3, CompleteKept
<1>8. RefreshRevoke(r) \/ LogoutRevoke(r) => f \in Rows
  BY DEF RefreshRevoke, LogoutRevoke, LocalsOK, LocalOK, Deciding
<1> QED BY <1>5, <1>6, <1>7, <1>8 DEF RefreshRevoke, LogoutRevoke, ChangeRevokeAll, Calm

LEMMA InsertingComplete ==
    ASSUME TypeOK, TypeOK', LocalsOK, TimeInv', Undisturbed, BlacklistComplete, Calm,
           NEW r \in Req, LoginCreate(r) \/ RefreshCreate(r)
    PROVE  BlacklistComplete'
<1>1. /\ UNCHANGED <<passwd, black, clock>> /\ \E q : Become(r, q)
      /\ req[r].pc \notin {"refresh_black", "logout_black"} /\ clock \in Nat
  BY DEF LoginCreate, RefreshCreate, Answer, TypeOK
<1>2. \A t \in Token : Pending(t) => Pending(t)'
  BY <1>1, StillPending
<1>3. \A u \in User : passwd[u] <= passwd'[u]
  BY <1>1 DEF TypeOK
<1>4. PICK n \in Token, now \in Nat : \E p, v : Insert(n, req[r].user, now, p, v)
  BY DEF LoginCreate, RefreshCreate, Calm, TypeOK, Request
<1>5. /\ n \notin Rows /\ \A t \in Token \ {n} : table'[t] = table[t]
      /\ table'[n] = [user |-> req[r].user, expires |-> now + RefreshTTL, revoked |-> FALSE]
  BY <1>4 DEF Insert, TypeOK
<1>6. TableGrows /\ \A t \in Rows : table'[t].expires = table[t].expires
  BY <1>5 DEF TableGrows, Rows
<1>7. \A t \in Token : Revoked(t)' => Revoked(t)
  BY <1>5 DEF Revoked, Rows
<1> QED BY <1>1, <1>2, <1>3, <1>6, <1>7, CompleteKept

LEMMA CompleteStep ==
    ASSUME TypeOK, TypeOK', LocalsOK, TimeInv, TimeInv', Undisturbed, Undisturbed',
           BlacklistComplete, [Next]_vars
    PROVE  BlacklistComplete'
<1>1. SUFFICES ASSUME faults' = 0, client'
               PROVE  BlacklistComplete'
  BY DEF BlacklistComplete
<1>2. faults = 0 /\ ~Fault /\ NoFault
  BY <1>1, FaultsAreCounted DEF Fault, NoFault, TypeOK
<1>3. client /\ redisUp
  <2>1. client
    BY <1>1, <1>2
    DEF Next, Start, Advance, LoginFind, LoginRoles, LoginCreate, RefreshIsRevoked, RefreshFind,
        RefreshSync, RefreshRoles, RefreshRevoke, RefreshBlacklist, RefreshCreate, LogoutStart,
        LogoutFind, LogoutRevoke, LogoutBlacklist, ChangeFind, ChangeUpdate, ChangeRevokeAll,
        Tick, RedisDown, RedisUp, Restart, vars, stores
  <2> QED BY <1>2, <2>1 DEF Undisturbed
<1>4. Calm
  BY <1>1, <1>2, <1>3 DEF Calm
<1>5. CASE UNCHANGED vars
  BY <1>5 DEF vars, stores, BlacklistComplete, Revoked, Blacklisted, Pending, Rows
<1>6. ASSUME NEW r \in Req, Start(r) \/ Advance(r)
      PROVE  BlacklistComplete'
  BY <1>4, <1>6, ReadingComplete, WritingComplete, RevokingComplete, InsertingComplete DEF Advance
<1> QED BY <1>4, <1>5, <1>6, WorldComplete DEF Next

\* As long as nothing has failed, what a refresh or a logout has revoked is on the blacklist
\* until it expires, or about to be.
THEOREM BlacklistCompleteHolds == Spec => []BlacklistComplete
<1>1. Init => TypeOK /\ LocalsOK /\ SessionInv /\ TimeInv /\ Undisturbed /\ BlacklistComplete
  <2>1. Init => BlacklistComplete
    BY DEF Init, BlacklistComplete, Revoked, Rows
  <2> QED BY <2>1, InitTypes, SessionInvInductive, TimeInvInductive, UndisturbedInductive
<1>2. TypeOK /\ LocalsOK /\ SessionInv /\ TimeInv /\ Undisturbed /\ BlacklistComplete /\ [Next]_vars
         => (TypeOK /\ LocalsOK /\ SessionInv /\ TimeInv /\ Undisturbed /\ BlacklistComplete)'
  <2> SUFFICES ASSUME TypeOK, LocalsOK, SessionInv, TimeInv, Undisturbed, BlacklistComplete,
                      [Next]_vars
               PROVE  (TypeOK /\ LocalsOK /\ SessionInv /\ TimeInv /\ Undisturbed /\ BlacklistComplete)'
    OBVIOUS
  <2>1. TypeOK' /\ LocalsOK' /\ SessionInv' /\ TimeInv'
    BY NextTypes, SessionInvInductive, TimeInvInductive
  <2>2. Undisturbed'
    BY <2>1, UndisturbedInductive
  <2> QED BY <2>1, <2>2, CompleteStep
<1> QED BY <1>1, <1>2, PTL DEF Spec

-----------------------------------------------------------------------------
(***************************************************************************)
(* AccessTokens.  What is shown above of a step of TokenLifecycle is       *)
(* reused: a step here is one of those, or a refusal by Auth, or it leaves *)
(* those variables alone.                                                  *)
(***************************************************************************)

\* The inductive invariant

\* What was handed out belongs to a row, and outlives now by at most AccessTTL.
HandedOut ==
    \A t \in Token : access[t] # 0 => t \in Rows /\ access[t] <= clock + AccessTTL
\* So does what is signed.  What has yet to be was inserted at most MaxFlight ago, into a
\* session that was not over then.
Signing ==
    \A r \in Req :
        /\ drafts[r] <= clock + AccessTTL
        /\ unsigned[r] # NoToken =>
              /\ unsigned[r] \in Rows
              /\ inserted[r] <= clock /\ clock <= inserted[r] + MaxFlight
              /\ ended[session[unsigned[r]]] # Never => inserted[r] <= ended[session[unsigned[r]]]
\* A session is over for good.
EndedForGood == \A s \in Token : ended[s] # Never => Over(s)

AccessInv == AccessTypeOK /\ HandedOut /\ Signing /\ EndedForGood /\ AccessFades
Tables == TypeOK /\ LocalsOK /\ SessionInv

-----------------------------------------------------------------------------
\* The steps on refresh tokens

\* Auth refuses, or a refresh cannot sign: an answer that is not "ok" and writes no store.
Refuses(r) == AuthRefuses(r) \/ SignFails(r)

LEMMA Refusal ==
    ASSUME TypeOK, NEW r \in Req, Refuses(r)
    PROVE  /\ \E code \in Reply \ {"ok"} : Answer(r, code)
           /\ UNCHANGED stores /\ KeepHistory /\ UNCHANGED table
           /\ faults' \in Nat /\ (Fault \/ NoFault)
BY DEF Refuses, AuthRefuses, SignFails, Reply, stores, KeepHistory, Fault, NoFault, TypeOK

LEMMA RefusalEffect ==
    ASSUME TypeOK, LocalsOK, NEW r \in Req, Refuses(r)
    PROVE  TypeOK' /\ LocalsOK' /\ Shrinks
<1>1. PICK code \in Reply : Answer(r, code)
  BY Refusal
<1>2. req' \in [Req -> Request] /\ LocalsOK'
  BY <1>1, Refusal, SameTable, AnswerKeepsLocals
<1>3. TypeOK'
  BY <1>2, Refusal DEF TypeOK, stores, KeepHistory, history, Rows
<1>4. Shrinks
  BY <1>1, Refusal, AnswerShrinks
<1> QED BY <1>2, <1>3, <1>4

\* Seen without access tokens, a step is a step of TokenLifecycle or a refusal.
LEMMA StepOfTokens ==
    ASSUME [AccessNext]_allVars
    PROVE  [Next]_vars \/ \E r \in Req : Refuses(r)
<1>1. CASE UNCHANGED allVars
  BY <1>1 DEF allVars
<1>2. ASSUME NEW r \in Req, Admit(r)
      PROVE  Next \/ Refuses(r)
  BY <1>2 DEF Admit, Usable, Next, Start, Refuses
<1>3. ASSUME NEW r \in Req, Proceed(r)
      PROVE  [Next]_vars \/ Refuses(r)
  BY <1>3 DEF Proceed, LoginSign, LoginAnswer, RefreshInsert, RefreshAnswer, Others, Next, Advance,
              Refuses
<1>4. CASE Crash \/ World
  BY <1>4 DEF Crash, World, Next
<1> QED BY <1>1, <1>2, <1>3, <1>4 DEF AccessNext

LEMMA TablesKept ==
    ASSUME Tables, [AccessNext]_allVars
    PROVE  Tables' /\ Effect
<1>1. TypeOK' /\ LocalsOK' /\ Effect
  BY StepOfTokens, NextTypes, NextEffect, RefusalEffect DEF Tables, Effect
<1>2. SessionInv'
  BY <1>1, ShrinksKeeps, SpendsKeeps, IssuesKeeps DEF Tables, Effect
<1> QED BY <1>1, <1>2 DEF Tables

\* Rows stay, in their sessions.
LEMMA SessionsStay ==
    ASSUME SessionInv, Effect
    PROVE  Rows \subseteq Rows' /\ \A t \in Rows : session'[t] = session[t]
BY RowsAreTokens DEF Effect, Shrinks, Spends, Issues

\* A session that has ended has a row, its login.
LEMMA EndedHasRow ==
    ASSUME SessionInv, NEW s \in Token, PhaseOf(s) = "ended"
    PROVE  s \in Rows
<1>1. PICK t \in Token : session[t] = s
  BY DEF PhaseOf
<1>2. t \in Rows
  BY <1>1, NoTokenAssumption DEF SessionInv, HistoryOK
<1> QED BY <1>1, <1>2 DEF SessionInv, HistoryOK

LEMMA EndedStaysEnded ==
    ASSUME SessionInv, Effect, NEW s \in Token, PhaseOf(s) = "ended"
    PROVE  PhaseOf(s)' = "ended"
<1>1. /\ \A t \in Token : ~(Live(t) /\ session[t] = s)
      /\ \A q \in Req : ~(Rotating(q) /\ session[req[q].tok] = s)
      /\ \E t \in Token : session[t] = s
  BY DEF PhaseOf, Carriers, IsRotating
<1>2. SUFFICES /\ \A t \in Token : ~(Live(t)' /\ session'[t] = s)
               /\ \A q \in Req : ~(Rotating(q)' /\ session'[req'[q].tok] = s)
               /\ \E t \in Token : session'[t] = s
  BY DEF PhaseOf, Carriers, IsRotating
<1>3. CASE Shrinks
  BY <1>1, <1>3 DEF Shrinks
<1>4. ASSUME NEW r \in Req, Spends(r)
      PROVE  /\ \A t \in Token : ~(Live(t)' /\ session'[t] = s)
             /\ \A q \in Req : ~(Rotating(q)' /\ session'[req'[q].tok] = s)
             /\ \E t \in Token : session'[t] = s
  <2>1. \A q \in Req \ {r} : Rotating(q)' <=> Rotating(q)
    BY <1>4 DEF Spends, Rotating
  <2> QED BY <1>1, <1>4, <2>1 DEF Spends
<1>5. ASSUME NEW r \in Req, NEW n \in Token, NEW p \in Token \cup {NoToken}, Issues(r, n, p)
      PROVE  /\ \A t \in Token : ~(Live(t)' /\ session'[t] = s)
             /\ \A q \in Req : ~(Rotating(q)' /\ session'[req'[q].tok] = s)
             /\ \E t \in Token : session'[t] = s
  <2>1. s \in Rows /\ n \notin Rows
    BY <1>5, EndedHasRow DEF Issues
  <2>2. session'[n] # s
    BY <1>1, <1>5, <2>1 DEF Issues
  <2>3. \A t \in Token \ {n} : session'[t] = session[t] /\ (Live(t)' <=> Live(t))
    BY <1>5 DEF Issues
  <2>4. \A q \in Req : Rotating(q)' => Rotating(q) /\ req'[q] = req[q]
    BY <1>5 DEF Issues, Rotating
  <2>5. \A q \in Req : Rotating(q) => req[q].tok \in Rows
    BY DEF SessionInv, RotatingSpent, Revoked
  <2>6. \A t \in Token : ~(Live(t)' /\ session'[t] = s)
    BY <1>1, <2>2, <2>3
  <2>7. \A q \in Req : ~(Rotating(q)' /\ session'[req'[q].tok] = s)
    BY <1>1, <2>1, <2>3, <2>4, <2>5, RowsAreTokens
  <2>8. \E t \in Token : session'[t] = s
    <3>1. PICK t \in Token : session[t] = s
      BY <1>1
    <3>2. t # n
      BY <3>1, <2>1, NoTokenAssumption DEF SessionInv, HistoryOK
    <3> QED BY <3>1, <3>2, <2>3
  <2> QED BY <2>6, <2>7, <2>8
<1> QED BY <1>3, <1>4, <1>5 DEF Effect

-----------------------------------------------------------------------------
\* What a step does to access tokens

Grants ==
    /\ clock <= clock'
    /\ access' \in [Token -> Nat]
    /\ drafts' \in [Req -> Nat]
    /\ unsigned' \in [Req -> Token \cup {NoToken}]
    /\ inserted' \in [Req -> Nat]
    /\ \A r \in Req : drafts'[r] \in {drafts[r], 0, clock + AccessTTL}
    /\ \A t \in Token :
          \/ access'[t] = access[t]
          \/ t \in Rows' \ Rows /\ session'[t] = t /\ \E r \in Req : access'[t] = drafts[r]
          \/ (\E r \in Req : t = unsigned[r]) /\ access'[t] = clock + AccessTTL
    /\ \A r \in Req :
          \/ unsigned'[r] = NoToken
          \/ /\ unsigned'[r] = unsigned[r] /\ inserted'[r] = inserted[r]
             /\ clock' = clock \/ clock' <= inserted[r] + MaxFlight
          \/ /\ unsigned'[r] \in Rows' \ Rows
             /\ inserted'[r] = clock /\ clock' = clock
             /\ \E s \in Token : IsRotating(s) /\ session'[unsigned'[r]] = s

LEMMA OverStaysOver ==
    ASSUME Tables, Effect, NEW s \in Token, Over(s)
    PROVE  Over(s)'
BY EndedStaysEnded DEF Tables, Over

LEMMA GrantsKeep ==
    ASSUME Tables, Tables', AccessInv, Effect, Grants, Observe
    PROVE  AccessInv'
<1>1. clock \in Nat /\ clock' \in Nat /\ AccessTTL \in Nat /\ Never \in Nat
      /\ MaxFlight \in Nat
  BY AccessTTLAssumption, MaxFlightAssumption, BoundsAssumption DEF Tables, TypeOK, Never
<1>2. /\ access \in [Token -> Nat] /\ drafts \in [Req -> Nat] /\ ended \in [Token -> Nat]
      /\ unsigned \in [Req -> Token \cup {NoToken}] /\ inserted \in [Req -> Nat]
  BY DEF AccessInv, AccessTypeOK
<1>3. /\ ended' \in [Token -> Nat]
      /\ \A s \in Token : ended'[s] = IF ended[s] = Never /\ Over(s)' THEN clock' ELSE ended[s]
  BY <1>1, <1>2 DEF Observe
<1>4. AccessTypeOK'
  BY <1>3 DEF AccessTypeOK, Grants
<1>5. Rows \subseteq Rows' /\ \A t \in Rows : session'[t] = session[t]
  BY SessionsStay DEF Tables
<1>6. Signing'
  <2>1. ASSUME NEW r \in Req
        PROVE  drafts'[r] <= clock' + AccessTTL
    <3>1. drafts[r] <= clock + AccessTTL /\ drafts[r] \in Nat
      BY <1>2 DEF AccessInv, Signing
    <3> QED BY <1>1, <3>1 DEF Grants
  <2>2. ASSUME NEW r \in Req, unsigned'[r] # NoToken
        PROVE  /\ unsigned'[r] \in Rows'
               /\ inserted'[r] <= clock' /\ clock' <= inserted'[r] + MaxFlight
               /\ ended'[session'[unsigned'[r]]] # Never =>
                     inserted'[r] <= ended'[session'[unsigned'[r]]]
    <3>1. PICK s \in Token : s = session'[unsigned'[r]]
      <4>1. unsigned'[r] \in Rows'
        BY <1>5, <2>2 DEF Grants, AccessInv, Signing
      <4>2. HistoryOK'
        BY DEF Tables, SessionInv
      <4> QED BY <4>1, <4>2 DEF HistoryOK, Rows
    <3>2. CASE /\ unsigned'[r] = unsigned[r] /\ inserted'[r] = inserted[r]
               /\ clock' = clock \/ clock' <= inserted[r] + MaxFlight
      <4>1. /\ unsigned[r] \in Rows /\ inserted[r] \in Nat
            /\ inserted[r] <= clock /\ clock <= inserted[r] + MaxFlight
            /\ ended[session[unsigned[r]]] # Never => inserted[r] <= ended[session[unsigned[r]]]
        BY <1>2, <2>2, <3>2 DEF AccessInv, Signing
      <4>2. session[unsigned[r]] = s
        BY <1>5, <3>1, <3>2, <4>1
      <4>3. clock <= clock'
        BY DEF Grants
      <4>4. unsigned'[r] \in Rows' /\ inserted'[r] <= clock' /\ clock' <= inserted'[r] + MaxFlight
        BY <1>1, <1>5, <3>2, <4>1, <4>3
      <4>5. ended'[s] # Never => inserted'[r] <= ended'[s]
        BY <1>1, <1>3, <3>2, <4>1, <4>2, <4>4
      <4> QED BY <3>1, <4>4, <4>5
    <3>3. CASE /\ unsigned'[r] \in Rows' \ Rows
               /\ inserted'[r] = clock /\ clock' = clock
               /\ \E o \in Token : IsRotating(o) /\ session'[unsigned'[r]] = o
      <4>1. ended[s] = Never
        BY <3>1, <3>3 DEF AccessInv, EndedForGood, Over, PhaseOf
      <4>2. ended'[s] # Never => inserted'[r] <= ended'[s]
        BY <1>1, <1>3, <3>3, <4>1
      <4> QED BY <1>1, <3>1, <3>3, <4>2
    <3> QED BY <2>2, <3>2, <3>3 DEF Grants
  <2> QED BY <2>1, <2>2 DEF Signing
<1>7. HandedOut'
  <2>1. ASSUME NEW t \in Token, access'[t] # 0
        PROVE  t \in Rows' /\ access'[t] <= clock' + AccessTTL
    <3>1. CASE access'[t] = access[t]
      <4>1. t \in Rows /\ access[t] <= clock + AccessTTL /\ access[t] \in Nat
        BY <1>2, <2>1, <3>1 DEF AccessInv, HandedOut
      <4> QED BY <1>1, <1>5, <3>1, <4>1 DEF Grants
    <3>2. CASE t \in Rows' /\ \E r \in Req : access'[t] = drafts[r]
      <4>1. PICK r \in Req : access'[t] = drafts[r]
        BY <3>2
      <4>2. drafts[r] <= clock + AccessTTL /\ drafts[r] \in Nat
        BY <1>2 DEF AccessInv, Signing
      <4> QED BY <1>1, <3>2, <4>1, <4>2 DEF Grants
    <3>3. CASE (\E r \in Req : t = unsigned[r]) /\ access'[t] = clock + AccessTTL
      <4>1. t \in Rows
        BY <3>3, NoTokenAssumption DEF AccessInv, Signing
      <4> QED BY <1>1, <1>5, <3>3, <4>1 DEF Grants
    <3> QED BY <3>1, <3>2, <3>3 DEF Grants
  <2> QED BY <2>1 DEF HandedOut
<1>8. EndedForGood'
  <2>1. ASSUME NEW s \in Token, ended'[s] # Never
        PROVE  Over(s)'
    <3>1. CASE ended[s] = Never
      BY <1>3, <2>1, <3>1
    <3>2. CASE ended[s] # Never
      BY <3>2, OverStaysOver DEF AccessInv, EndedForGood
    <3> QED BY <3>1, <3>2
  <2> QED BY <2>1 DEF EndedForGood, Never
<1>9. AccessFades'
  <2>1. ASSUME NEW t \in Token, access'[t] # 0, ended'[session'[t]] # Never
        PROVE  access'[t] <= ended'[session'[t]] + MaxFlight + AccessTTL
    <3>1. t \in Rows' /\ access'[t] <= clock' + AccessTTL
      BY <1>7, <2>1 DEF HandedOut
    <3>2. PICK s \in Token : s = session'[t]
      <4>1. HistoryOK'
        BY DEF Tables, SessionInv
      <4>2. session'[t] \in Rows'
        BY <3>1, <4>1 DEF HistoryOK
      <4> QED BY <4>2 DEF Rows
    <3>3. CASE ended[s] = Never
      <4>1. ended'[s] = clock'
        BY <1>3, <2>1, <3>2, <3>3
      <4>2. access'[t] \in Nat
        BY DEF Grants
      <4> QED BY <1>1, <3>1, <3>2, <4>1, <4>2
    <3>4. CASE ended[s] # Never
      <4>1. ended'[s] = ended[s] /\ Over(s) /\ PhaseOf(s) = "ended"
        BY <1>3, <3>4 DEF AccessInv, EndedForGood, Over
      <4>2. s \in Rows
        BY <4>1, EndedHasRow DEF Tables
      <4>3. CASE access'[t] = access[t]
        <5>1. t \in Rows
          BY <2>1, <4>3 DEF AccessInv, HandedOut
        <5>2. session[t] = s
          BY <1>5, <3>2, <5>1
        <5> QED BY <2>1, <3>2, <3>4, <4>1, <4>3, <5>2 DEF AccessInv, AccessFades
      <4>4. CASE t \in Rows' \ Rows /\ session'[t] = t
        BY <3>2, <4>2, <4>4
      <4>5. CASE (\E r \in Req : t = unsigned[r]) /\ access'[t] = clock + AccessTTL
        <5>1. PICK r \in Req : t = unsigned[r] /\ unsigned[r] # NoToken
          BY <4>5, NoTokenAssumption
        <5>2. /\ t \in Rows /\ inserted[r] \in Nat /\ clock <= inserted[r] + MaxFlight
              /\ ended[session[t]] # Never => inserted[r] <= ended[session[t]]
          BY <1>2, <5>1 DEF AccessInv, Signing
        <5>3. session[t] = s
          BY <1>5, <3>2, <5>2
        <5>4. inserted[r] <= ended[s] /\ ended[s] \in Nat
          BY <1>2, <3>4, <5>2, <5>3
        <5> QED BY <1>1, <3>2, <4>1, <4>5, <5>2, <5>4
      <4> QED BY <4>3, <4>4, <4>5 DEF Grants
    <3> QED BY <3>3, <3>4
  <2> QED BY <2>1 DEF AccessFades, Never
<1> QED BY <1>4, <1>6, <1>7, <1>8, <1>9 DEF AccessInv

\* Steps that sign nothing and forget nothing.
LEMMA QuietGrants ==
    ASSUME TypeOK, AccessTypeOK, UNCHANGED <<access, drafts, unsigned, inserted>>,
           clock' = clock \/ (clock' = clock + 1 /\ InTime)
    PROVE  Grants
<1>1. clock \in Nat /\ MaxFlight \in Nat /\ inserted \in [Req -> Nat]
  BY MaxFlightAssumption DEF TypeOK, AccessTypeOK
<1>2. \A r \in Req : unsigned[r] # NoToken => clock' = clock \/ clock' <= inserted[r] + MaxFlight
  BY <1>1 DEF InTime
<1> QED BY <1>1, <1>2 DEF AccessTypeOK, Grants

LEMMA AdmitGrants ==
    ASSUME TypeOK, AccessTypeOK, NEW r \in Req, Admit(r)
    PROVE  Grants
<1>1. UNCHANGED clock
  BY DEF Admit, AuthRefuses, LoginFind, ChangeFind, RefreshIsRevoked, LogoutStart, stores
<1> QED BY <1>1, QuietGrants DEF Admit, TypeOK

LEMMA OthersGrants ==
    ASSUME TypeOK, AccessTypeOK, NEW r \in Req, Others(r)
    PROVE  Grants
<1>1. UNCHANGED clock
  BY DEF Others, RefreshFind, RefreshSync, RefreshRoles, RefreshRevoke, RefreshBlacklist,
         LogoutFind, LogoutRevoke, LogoutBlacklist, ChangeUpdate, ChangeRevokeAll, stores
<1> QED BY <1>1, QuietGrants DEF Others, TypeOK

LEMMA LoginSignGrants ==
    ASSUME TypeOK, AccessTypeOK, NEW r \in Req, LoginSign(r)
    PROVE  Grants
<1>1. UNCHANGED <<clock, access, unsigned, inserted>> /\ clock + AccessTTL \in Nat
  BY AccessTTLAssumption DEF LoginSign, LoginRoles, stores, TypeOK
<1>2. /\ drafts' \in [Req -> Nat]
      /\ \A q \in Req : drafts'[q] \in {drafts[q], 0, clock + AccessTTL}
  BY <1>1 DEF LoginSign, Expiry, AccessTypeOK
<1> QED BY <1>1, <1>2 DEF Grants, AccessTypeOK, TypeOK

\* An answer that hands out a token has inserted its row in this step, as a session of its own.
LEMMA LoginAnswerGrants ==
    ASSUME TypeOK, LocalsOK, AccessTypeOK, NEW r \in Req, LoginAnswer(r)
    PROVE  Grants
<1>1. UNCHANGED <<clock, unsigned, inserted>> /\ req[r].user \in User /\ req[r].ver \in Nat /\ clock \in Nat
  BY DEF LoginAnswer, LoginCreate, TypeOK, LocalsOK, LocalOK, Request
<1>2. /\ drafts' \in [Req -> Nat]
      /\ \A q \in Req : drafts'[q] \in {drafts[q], 0}
  BY DEF LoginAnswer, AccessTypeOK
<1>3. /\ access' \in [Token -> Nat]
      /\ \A t \in Token : access'[t] = IF t \in known' \ known THEN drafts[r] ELSE access[t]
  BY DEF LoginAnswer, AccessTypeOK
<1>4. ASSUME NEW t \in Token, t \in known' \ known
      PROVE  t \in Rows' \ Rows /\ session'[t] = t
  <2>1. PICK n \in Token : /\ Insert(n, req[r].user, clock, NoToken, req[r].ver)
                           /\ known' \in {known, known \cup {n}}
    BY <1>4 DEF LoginAnswer, LoginCreate
  <2>2. n = t
    BY <1>4, <2>1
  <2>3. n \in Token \ Rows /\ Rows' = Rows \cup {n}
    BY <1>1, <2>1, InsertTable
  <2>4. session'[n] = n
    BY <2>1 DEF Insert, TypeOK
  <2> QED BY <2>2, <2>3, <2>4
<1> QED BY <1>1, <1>2, <1>3, <1>4 DEF Grants, AccessTypeOK, TypeOK

\* A refresh that has inserted a row holds the spent token of that session until then.
LEMMA RefreshInsertGrants ==
    ASSUME TypeOK, LocalsOK, SessionInv, AccessTypeOK, NEW r \in Req, RefreshInsert(r)
    PROVE  Grants
<1> DEFINE p == req[r].tok
<1>1. UNCHANGED <<clock, access, drafts>> /\ clock \in Nat
  BY DEF RefreshInsert, RefreshCreate, TypeOK
<1>2. /\ p \in Rows /\ p \in Token /\ req[r].user \in User /\ req[r].at \in Nat
      /\ authVersion[p] \in Nat /\ Rotating(r)
  <2>1. p \in Rows /\ p \in Token /\ req[r].user = table[p].user
    BY DEF RefreshInsert, RefreshCreate, LocalsOK, LocalOK, Deciding, Rows
  <2> QED BY <2>1 DEF RefreshInsert, RefreshCreate, TypeOK, Request, Rows, Row, Rotating
<1>a. /\ inserted' \in [Req -> Nat]
      /\ \A q \in Req : inserted'[q] = IF q = r THEN clock ELSE inserted[q]
  BY <1>1 DEF RefreshInsert, AccessTypeOK
<1>3. PICK s \in Token : s = session[p]
  BY <1>2 DEF SessionInv, HistoryOK, Rows
<1>4. IsRotating(s)
  BY <1>2, <1>3 DEF IsRotating
<1>5. CASE known' = known
  <2>1. unsigned' = [unsigned EXCEPT ![r] = NoToken]
    BY <1>5 DEF RefreshInsert
  <2> QED BY <1>1, <1>a, <2>1 DEF Grants, AccessTypeOK
<1>6. CASE known' # known
  <2>1. PICK n \in Token : /\ Insert(n, req[r].user, req[r].at, p, authVersion[p])
                           /\ known' = known \cup {n}
    BY <1>6 DEF RefreshInsert, RefreshCreate
  <2>2. n \notin known /\ \A t : t \in known' /\ t \notin known <=> t = n
    BY <1>6, <2>1
  <2>3. (CHOOSE t \in known' : t \notin known) = n
    BY <2>2
  <2>4. unsigned' = [unsigned EXCEPT ![r] = n]
    BY <1>6, <2>3 DEF RefreshInsert
  <2>5. n \in Token \ Rows /\ Rows' = Rows \cup {n}
    BY <1>2, <2>1, InsertTable
  <2>6. session'[n] = s
    BY <1>2, <1>3, <2>1, NoTokenAssumption DEF Insert, TypeOK
  <2>7. /\ unsigned' \in [Req -> Token \cup {NoToken}]
        /\ \A q \in Req : unsigned'[q] = IF q = r THEN n ELSE unsigned[q]
    BY <2>4 DEF AccessTypeOK
  <2> QED BY <1>1, <1>a, <1>4, <2>5, <2>6, <2>7 DEF Grants, AccessTypeOK
<1> QED BY <1>5, <1>6

LEMMA RefreshAnswerGrants ==
    ASSUME TypeOK, AccessTypeOK, NEW r \in Req, RefreshAnswer(r)
    PROVE  Grants
<1>1. UNCHANGED <<clock, drafts, inserted>> /\ clock + AccessTTL \in Nat /\ unsigned[r] \in Token
  BY AccessTTLAssumption DEF RefreshAnswer, SignFails, vars, stores, TypeOK, AccessTypeOK
<1>2. /\ access' \in [Token -> Nat]
      /\ \A t \in Token :
            \/ access'[t] = access[t]
            \/ t = unsigned[r] /\ access'[t] = clock + AccessTTL
  <2>1. CASE UNCHANGED access
    BY <2>1 DEF AccessTypeOK
  <2>2. CASE access' = [access EXCEPT ![unsigned[r]] = clock + AccessTTL]
    BY <1>1, <2>2 DEF AccessTypeOK
  <2> QED BY <2>1, <2>2 DEF RefreshAnswer, Expiry
<1>3. /\ unsigned' \in [Req -> Token \cup {NoToken}]
      /\ \A q \in Req : unsigned'[q] \in {unsigned[q], NoToken}
  BY DEF RefreshAnswer, AccessTypeOK
<1> QED BY <1>1, <1>2, <1>3 DEF Grants, AccessTypeOK, TypeOK

LEMMA WorldGrants ==
    ASSUME TypeOK, AccessTypeOK, Crash \/ World
    PROVE  Grants
<1>1. CASE Crash
  BY <1>1 DEF Crash, Restart, Grants, AccessTypeOK, TypeOK
<1>2. CASE World
  BY <1>2, QuietGrants DEF World, Tick, RedisDown, RedisUp
<1> QED BY <1>1, <1>2

LEMMA StepGrants ==
    ASSUME Tables, AccessInv, AccessNext
    PROVE  Grants /\ Observe
<1>1. /\ TypeOK /\ LocalsOK /\ SessionInv /\ AccessTypeOK
  BY DEF Tables, AccessInv
<1> QED BY <1>1, AdmitGrants, OthersGrants, LoginSignGrants, LoginAnswerGrants,
           RefreshInsertGrants, RefreshAnswerGrants, WorldGrants DEF AccessNext, Proceed

-----------------------------------------------------------------------------
\* The invariant, and what follows from it

LEMMA AccessInitInv == AccessInit => Tables /\ AccessInv
<1> SUFFICES ASSUME AccessInit
             PROVE  Tables /\ AccessInv
  OBVIOUS
<1>1. Tables
  BY InitTypes, SessionInvInductive DEF AccessInit, Tables
<1>2. Never \in Nat /\ clock = 0 /\ AccessTTL \in Nat
  BY BoundsAssumption, AccessTTLAssumption DEF Never, AccessInit, Init
<1> QED BY <1>1, <1>2 DEF AccessInit, AccessInv, AccessTypeOK, HandedOut, Signing, EndedForGood,
                          AccessFades, Never

LEMMA AccessInvInductive == Tables /\ AccessInv /\ [AccessNext]_allVars => (Tables /\ AccessInv)'
<1> SUFFICES ASSUME Tables, AccessInv, [AccessNext]_allVars
             PROVE  Tables' /\ AccessInv'
  OBVIOUS
<1>1. Tables' /\ Effect
  BY TablesKept
<1>2. CASE AccessNext
  BY <1>1, <1>2, StepGrants, GrantsKeep
<1>3. CASE UNCHANGED allVars
  <2>1. UNCHANGED <<req, table, session, clock, access, drafts, unsigned, inserted, ended>>
    BY <1>3 DEF allVars, vars, stores, history, accessVars
  <2>2. AccessTypeOK' /\ HandedOut' /\ Signing'
    BY <2>1 DEF AccessInv, AccessTypeOK, HandedOut, Signing, Rows, Never
  <2>3. ASSUME NEW s \in Token
        PROVE  Over(s)' <=> Over(s)
    BY <2>1 DEF Over, PhaseOf, Carriers, IsRotating, Rotating, Live, Rows
  <2>4. EndedForGood'
    BY <2>1, <2>3 DEF AccessInv, EndedForGood, Never
  <2>5. AccessFades'
    BY <2>1 DEF AccessInv, AccessFades, Never
  <2> QED BY <1>1, <2>2, <2>4, <2>5 DEF AccessInv
<1> QED BY <1>2, <1>3

\* Every variable of the use cases and of the access tokens keeps its type.
THEOREM AccessTypeCorrect == AccessSpec => [](TypeOK /\ AccessTypeOK)
<1>1. Tables /\ AccessInv => TypeOK /\ AccessTypeOK
  BY DEF Tables, AccessInv
<1> QED BY <1>1, AccessInitInv, AccessInvInductive, PTL DEF AccessSpec

\* Once a session is over, what it has handed out is good for AccessTTL more, and what a
\* refresh was about to sign for it for the time that took besides.
THEOREM AccessFadesHolds == AccessSpec => []AccessFades
<1>1. AccessInv => AccessFades
  BY DEF AccessInv
<1> QED BY <1>1, AccessInitInv, AccessInvInductive, PTL DEF AccessSpec

\* Behind the router, too, a login session never becomes two.
THEOREM OneLivePerSessionBehindRouter == AccessSpec => []OneLivePerSession
<1>1. Tables => OneLivePerSession
  BY DEF Tables, SessionInv
<1> QED BY <1>1, AccessInitInv, AccessInvInductive, PTL DEF AccessSpec

LEMMA TimesKept ==
    ASSUME Tables, Tables', TimeInv, [AccessNext]_allVars
    PROVE  TimeInv'
<1>1. TypeOK /\ TypeOK' /\ LocalsOK /\ SessionInv
  BY DEF Tables
<1>2. ASSUME NEW r \in Req, Refuses(r)
      PROVE  TimeInv'
  <2>1. Ages
    BY <1>1, <1>2, Refusal, ReadingAges
  <2> QED BY <1>1, <2>1, AgesKeep
<1> QED BY <1>1, <1>2, StepOfTokens, TimeInvInductive

\* Behind the router, too, what Redis rejects is revoked in the table while nothing has
\* failed, and an entry outlives its token.
THEOREM BlacklistBehindRouter == AccessSpec => [](BlacklistOnlyRevoked /\ BlacklistOutlivesToken)
<1>1. AccessInit => Tables /\ AccessInv /\ TimeInv
  BY AccessInitInv, TimeInvInductive DEF AccessInit
<1>2. Tables /\ AccessInv /\ TimeInv /\ [AccessNext]_allVars => (Tables /\ AccessInv /\ TimeInv)'
  BY AccessInvInductive, TimesKept
<1>3. TimeInv => BlacklistOnlyRevoked /\ BlacklistOutlivesToken
  BY DEF TimeInv
<1> QED BY <1>1, <1>2, <1>3, PTL DEF AccessSpec

LEMMA FewKept ==
    ASSUME Tables, FewInv, [AccessNext]_allVars
    PROVE  FewInv'
<1>1. TypeOK /\ LocalsOK
  BY DEF Tables
<1>2. ASSUME NEW r \in Req, Refuses(r), faults' = 0, NEW u \in User, ~Changing(u)'
      PROVE  Few(Stale(u), InFlight(u))'
  <2>1. /\ Answer(r, "unauthorized") /\ "unauthorized" \in Reply /\ req[r].pc = "idle"
        /\ UNCHANGED <<passwd, table, authVersion, faults>>
    BY <1>1, <1>2 DEF Refuses, AuthRefuses, SignFails, Fault, TypeOK, Reply, stores, history
  <2>2. Turns(u)
    BY <1>1, <1>2, <2>1, AnswerTurns
  <2> QED BY <1>2, <2>1, <2>2, TurnsKeep DEF FewInv
<1>3. (\E r \in Req : Refuses(r)) => FewInv'
  BY <1>2 DEF FewInv
<1> QED BY <1>1, <1>3, StepOfTokens, FewInvInductive

\* Behind the router, too, fewer stale sessions survive a change of password than there are
\* goroutines, as long as nothing fails.
THEOREM FewStaleBehindRouter == AccessSpec => []FewStaleSessions
<1>1. AccessInit => Tables /\ AccessInv /\ FewInv
  BY AccessInitInv, FewInvInductive DEF AccessInit
<1>2. Tables /\ AccessInv /\ FewInv /\ [AccessNext]_allVars => (Tables /\ AccessInv /\ FewInv)'
  BY AccessInvInductive, FewKept
<1> QED BY <1>1, <1>2, FewInvImplies, PTL DEF AccessSpec

LEMMA LogoutStepBehindRouter ==
    ASSUME Tables, Tables', TimeInv, [AccessNext]_allVars, NEW r \in Req,
           Replies(r, {"logout_find", "logout_revoke", "logout_black"}, "ok"),
           req[r].tok \in Rows, faults' = 0
    PROVE  Revoked(req[r].tok)
<1>1. TypeOK /\ TypeOK'
  BY DEF Tables
<1>2. ASSUME NEW q \in Req, Refuses(q)
      PROVE  FALSE
  <2>1. PICK code \in Reply \ {"ok"} : Answer(q, code)
    BY <1>1, <1>2, Refusal
  <2>2. /\ req'[q].reply # "ok" /\ \A x \in Req \ {q} : req'[x] = req[x]
    BY <1>1, <2>1 DEF Answer, Become, Idle, TypeOK
  <2>3. req[r].pc # req'[r].pc /\ req'[r].reply = "ok"
    BY DEF Replies, Idle
  <2> QED BY <2>2, <2>3
<1> QED BY <1>1, <1>2, StepOfTokens, LogoutStep

\* Behind the router, too, who is told that the logout succeeded holds a revoked token.
THEOREM LogoutRevokesBehindRouter == AccessSpec => LogoutRevokes
<1>1. AccessInit => Tables /\ AccessInv /\ TimeInv
  BY AccessInitInv, TimeInvInductive DEF AccessInit
<1>2. Tables /\ AccessInv /\ TimeInv /\ [AccessNext]_allVars => (Tables /\ AccessInv /\ TimeInv)'
  BY AccessInvInductive, TimesKept
<1>3. Tables /\ Tables' /\ TimeInv /\ [AccessNext]_allVars =>
         [\A r \in Req : Replies(r, {"logout_find", "logout_revoke", "logout_black"}, "ok")
                         /\ req[r].tok \in Rows /\ faults' = 0 => Revoked(req[r].tok)]_vars
  BY LogoutStepBehindRouter
<1> QED BY <1>1, <1>2, <1>3, PTL DEF AccessSpec, LogoutRevokes
=============================================================================
