---------------------------- MODULE AccountsProofs ----------------------------
(***************************************************************************)
(* Theorems about Accounts, for every set of rows, addresses and           *)
(* goroutines and every number of faults.                                  *)
(***************************************************************************)
EXTENDS Accounts, TLAPS

-----------------------------------------------------------------------------
\* The inductive invariant

\* Only normalised emails are stored or about to be.
Normal(e) == e \in Email /\ ~e.capitals

NormalEmails == \A u \in User : Known(u) => Normal(email[u])

LocalOK(q) ==
    /\ q.pc \in {"register_find", "register_create"} => Normal(q.email) /\ q.user = None
    /\ q.pc = "update_email" => Normal(q.email) /\ Known(q.user)
    /\ q.pc \in {"register_role", "register_assign"} => Known(q.user)

LocalsOK == \A r \in Req : LocalOK(req[r])

IInv == TypeOK /\ NormalEmails /\ LocalsOK /\ OneAccountPerAddress /\ WelcomedHaveRole

\* The action of ConflictIsReal.
RealConflict ==
    \A r \in Req :
        LET q == req[r] IN
        q.pc # "idle" /\ req'[r] = Idle("conflict") =>
           \E v \in User \ {q.user} : Known(v) /\ email[v].address = q.email.address

\* An account is not removed.
AccountsStay == \A u \in User : Known(u) => email'[u] # None

LEMMA IdleTyped ==
    ASSUME NEW code \in Reply
    PROVE  /\ Idle(code) \in Request /\ Idle(code).pc = "idle" /\ Idle(code).reply = code
           /\ Idle(code).user = None
BY DEF Idle, Request, PC

LEMMA InitInvariant == Init => IInv
<1> SUFFICES ASSUME Init PROVE IInv
  OBVIOUS
<1>1. /\ Idle("none") \in Request /\ Idle("none").pc = "idle"
      /\ Idle("none").reply = "none"
  BY IdleTyped DEF Reply
<1>2. TypeOK
  BY <1>1 DEF Init, TypeOK
<1>3. LocalsOK
  BY <1>1 DEF Init, LocalsOK, LocalOK
<1>4. NormalEmails /\ OneAccountPerAddress /\ WelcomedHaveRole
  BY DEF Init, NormalEmails, OneAccountPerAddress, WelcomedHaveRole, Known
<1> QED BY <1>2, <1>3, <1>4 DEF IInv

-----------------------------------------------------------------------------
\* How a step changes one request

\* What the other goroutines know stays true while no account is removed.
LEMMA LocalsStay ==
    ASSUME IInv, AccountsStay, NoFault \/ Fault,
           NEW r \in Req, NEW q \in Request, Become(r, q), LocalOK(q)'
    PROVE  req' \in [Req -> Request] /\ LocalsOK' /\ faults' \in Nat
<1>1. req' \in [Req -> Request] /\ \A x \in Req : req'[x] = IF x = r THEN q ELSE req[x]
  BY DEF IInv, TypeOK, Become
<1>2. faults' \in Nat
  <2>1. faults \in Nat
    BY DEF IInv, TypeOK
  <2> QED BY <2>1 DEF NoFault, Fault
<1>3. ASSUME NEW x \in Req
      PROVE  LocalOK(req[x])'
  <2>1. CASE x = r
    BY <1>1, <2>1
  <2>2. CASE x # r
    <3>1. req'[x] = req[x] /\ LocalOK(req[x])
      BY <1>1, <2>2 DEF IInv, LocalsOK
    <3> QED BY <3>1, <1>2 DEF LocalOK, Known, AccountsStay, Normal
  <2> QED BY <2>1, <2>2
<1> QED BY <1>1, <1>2, <1>3 DEF LocalsOK

\* Only the goroutine that steps can be given an answer.
LEMMA OneConflict ==
    ASSUME IInv, NEW r \in Req, NEW q \in Request, Become(r, q),
           q = Idle("conflict") =>
              \E v \in User \ {req[r].user} : Known(v) /\ email[v].address = req[r].email.address
    PROVE  RealConflict
<1>1. Idle("conflict").pc = "idle"
  BY IdleTyped DEF Reply
<1>2. \A x \in Req : req'[x] = IF x = r THEN q ELSE req[x]
  BY DEF IInv, TypeOK, Become
<1> QED BY <1>1, <1>2 DEF RealConflict

\* A step that changes nothing but a request.
LEMMA QuietStep ==
    ASSUME IInv, UNCHANGED tables, KeepHistory, NoFault \/ Fault,
           NEW r \in Req, NEW q \in Request, Become(r, q), LocalOK(q)'
    PROVE  IInv'
<1>1. AccountsStay
  BY DEF AccountsStay, tables, Known
<1>2. req' \in [Req -> Request] /\ LocalsOK' /\ faults' \in Nat
  BY <1>1, LocalsStay
<1>3. TypeOK'
  BY <1>2 DEF IInv, TypeOK, tables, KeepHistory
<1>4. NormalEmails' /\ OneAccountPerAddress' /\ WelcomedHaveRole'
  BY DEF IInv, NormalEmails, OneAccountPerAddress, WelcomedHaveRole, Known, tables, KeepHistory
<1> QED BY <1>2, <1>3, <1>4 DEF IInv

\* An answer other than CONFLICT.
LEMMA QuietAnswer ==
    ASSUME IInv, UNCHANGED tables, KeepHistory, NEW r \in Req, NEW code \in Reply \ {"conflict"},
           Answer(r, code), Fault \/ NoFault
    PROVE  IInv' /\ RealConflict
<1> DEFINE q == Idle(code)
<1>1. q \in Request /\ q.pc = "idle" /\ q.reply = code
  BY IdleTyped
<1>2. q # Idle("conflict")
  BY <1>1, IdleTyped DEF Reply
<1>3. Become(r, q)
  BY DEF Answer
<1> HIDE DEF q
<1>4. LocalOK(q)'
  BY <1>1 DEF LocalOK
<1> QED BY <1>1, <1>2, <1>3, <1>4, QuietStep, OneConflict

\* The answer CONFLICT.
LEMMA ConflictAnswer ==
    ASSUME IInv, UNCHANGED tables, KeepHistory, NEW r \in Req, Answer(r, "conflict"), NoFault,
           req[r].pc \in {"register_find", "register_create", "update_email"},
           Taken(req[r].email, req[r].user)
    PROVE  IInv' /\ RealConflict
<1> DEFINE q == Idle("conflict")
<1>1. q \in Request /\ q.pc = "idle" /\ q.reply = "conflict"
  BY IdleTyped DEF Reply
<1>2. LocalOK(q)'
  BY <1>1 DEF LocalOK
<1>3. Become(r, q)
  BY DEF Answer
<1> HIDE DEF q
<1>4. Normal(req[r].email)
  BY DEF IInv, LocalsOK, LocalOK
<1>5. \E v \in User \ {req[r].user} : Known(v) /\ email[v].address = req[r].email.address
  BY <1>4, NoneIsNoEmail DEF Taken, Known, Normal
<1> QED BY <1>1, <1>2, <1>3, <1>5, QuietStep, OneConflict

-----------------------------------------------------------------------------
\* Registration

LEMMA NormaliseIsNormal ==
    ASSUME NEW e \in Email
    PROVE  Normal(Normalise(e))
BY DEF Normal, Normalise, Email

LEMMA StartStep ==
    ASSUME IInv, NEW r \in Req, Start(r)
    PROVE  IInv' /\ RealConflict
<1>1. Idle("none") \in Request /\ Idle("none").user = None /\ Idle("none").reply = "none"
  BY IdleTyped DEF Reply
<1>2. ASSUME NEW e \in Email, NEW long \in BOOLEAN, RegisterStart(r, e, long)
      PROVE  IInv' /\ RealConflict
  <2> DEFINE q == [Idle("none") EXCEPT !.pc = "register_find", !.email = Normalise(e),
                                       !.longPassword = long]
  <2>1. Normal(Normalise(e)) /\ Normalise(e) \in Email
    BY NormaliseIsNormal DEF Normal
  <2>2. /\ q \in Request /\ q.pc = "register_find" /\ q.email = Normalise(e) /\ q.user = None
        /\ q.reply = "none"
    BY <1>1, <2>1 DEF Request, PC
  <2>3. Become(r, q) /\ UNCHANGED tables /\ KeepHistory /\ NoFault
    BY <1>2 DEF RegisterStart
  <2>4. q # Idle("conflict")
    BY <2>2, IdleTyped DEF Reply
  <2> HIDE DEF q
  <2>5. LocalOK(q)'
    BY <2>1, <2>2 DEF LocalOK, Normal
  <2> QED BY <2>2, <2>3, <2>4, <2>5, QuietStep, OneConflict
<1>3. ASSUME NEW e \in Email, NEW u \in User, UpdateStart(r, u, e)
      PROVE  IInv' /\ RealConflict
  <2> DEFINE q == [Idle("none") EXCEPT !.pc = "update_email", !.user = u,
                                       !.email = Normalise(e)]
  <2>1. Normal(Normalise(e)) /\ Normalise(e) \in Email
    BY NormaliseIsNormal DEF Normal
  <2>2. /\ q \in Request /\ q.pc = "update_email" /\ q.email = Normalise(e) /\ q.user = u
        /\ q.reply = "none"
    BY <1>1, <2>1 DEF Request, PC
  <2>3. Become(r, q) /\ UNCHANGED tables /\ KeepHistory /\ NoFault /\ Known(u)
    BY <1>3 DEF UpdateStart
  <2>4. q # Idle("conflict")
    BY <2>2, IdleTyped DEF Reply
  <2> HIDE DEF q
  <2>5. LocalOK(q)'
    BY <2>1, <2>2, <2>3 DEF LocalOK, Normal, Known, tables
  <2> QED BY <2>2, <2>3, <2>4, <2>5, QuietStep, OneConflict
<1> QED BY <1>2, <1>3 DEF Start

\* A goroutine goes on to the next store access with what it has.
LEMMA GotoStep ==
    ASSUME IInv, UNCHANGED tables, KeepHistory, NoFault, NEW r \in Req, NEW label \in PC,
           label # "idle", Goto(r, label), LocalOK([req[r] EXCEPT !.pc = label])
    PROVE  IInv' /\ RealConflict
<1>1. [req[r] EXCEPT !.pc = label] \in Request /\ [req[r] EXCEPT !.pc = label].pc = label
  BY DEF IInv, TypeOK, Request
<1>2. PICK q \in Request : Become(r, q) /\ LocalOK(q) /\ q.pc = label
  BY <1>1 DEF Goto
<1>3. q # Idle("conflict")
  BY <1>2, IdleTyped DEF Reply
<1>4. LocalOK(q)'
  BY <1>2 DEF LocalOK, Known, tables, NoFault, Normal
<1> QED BY <1>2, <1>3, <1>4, QuietStep, OneConflict

LEMMA RegisterFindStep ==
    ASSUME IInv, NEW r \in Req, RegisterFind(r)
    PROVE  IInv' /\ RealConflict
<1>1. /\ UNCHANGED tables /\ KeepHistory /\ req[r].pc = "register_find" /\ req[r] \in Request
  BY DEF RegisterFind, IInv, TypeOK
<1>2. /\ req[r].user = None /\ Normal(req[r].email)
  BY <1>1 DEF IInv, LocalsOK, LocalOK
<1>3. CASE Fault /\ Answer(r, "internal")
  BY <1>1, <1>3, QuietAnswer DEF Reply
<1>4. CASE NoFault /\ Taken(req[r].email, None) /\ Answer(r, "conflict")
  BY <1>1, <1>4, <1>2, ConflictAnswer
<1>5. CASE NoFault /\ Answer(r, "hash_password")
  BY <1>1, <1>5, QuietAnswer DEF Reply
<1>6. CASE NoFault /\ Goto(r, "register_create")
  <2>1. LocalOK([req[r] EXCEPT !.pc = "register_create"])
    BY <1>1, <1>2 DEF LocalOK, Request
  <2> QED BY <1>1, <1>6, <2>1, GotoStep DEF PC
<1> QED BY <1>3, <1>4, <1>5, <1>6 DEF RegisterFind

\* The address of the email that u is given is that of no other account.
LEMMA WriteEmail ==
    ASSUME IInv, NEW u \in User, NEW e, Normal(e), ~Taken(e, u),
           email' = [email EXCEPT ![u] = e], UNCHANGED <<hasRole, welcomed, excused>>
    PROVE  /\ email' \in [User -> Email \cup {None}] /\ AccountsStay /\ email'[u] # None
           /\ NormalEmails' /\ OneAccountPerAddress' /\ WelcomedHaveRole'
<1>1. e \in Email /\ e # None /\ ~e.capitals
  BY NoneIsNoEmail DEF Normal
<1>2. /\ email' \in [User -> Email \cup {None}]
      /\ \A v \in User : email'[v] = IF v = u THEN e ELSE email[v]
  BY <1>1 DEF IInv, TypeOK
<1>3. AccountsStay /\ email'[u] # None
  BY <1>1, <1>2 DEF AccountsStay, Known
<1>4. NormalEmails'
  BY <1>1, <1>2 DEF IInv, NormalEmails, Known, Normal
<1>5. \A v \in User : v # u /\ Known(v) => email[v].address # e.address
  <2> SUFFICES ASSUME NEW v \in User, v # u, Known(v), email[v].address = e.address
               PROVE  FALSE
    OBVIOUS
  <2>1. email[v] \in Email /\ ~email[v].capitals
    BY DEF IInv, NormalEmails, Normal
  <2>2. email[v].capitals = e.capitals
    BY <1>1, <2>1 DEF Email
  <2>3. email[v] = e
    BY <1>1, <2>1, <2>2 DEF Email
  <2> QED BY <2>3 DEF Taken
<1>6. OneAccountPerAddress'
  BY <1>2, <1>5 DEF IInv, OneAccountPerAddress, Known
<1>7. WelcomedHaveRole'
  BY <1>3 DEF IInv, WelcomedHaveRole, AccountsStay, Known
<1> QED BY <1>2, <1>3, <1>4, <1>6, <1>7

\* A step that stores an email and leaves the request r with q.
LEMMA WriteStep ==
    ASSUME IInv, NEW u \in User, NEW e, Normal(e), ~Taken(e, u),
           email' = [email EXCEPT ![u] = e], UNCHANGED <<hasRole, seeded>>, KeepHistory,
           NoFault \/ Fault, NEW r \in Req, NEW q \in Request, Become(r, q),
           \/ q.pc \in {"register_role", "update_roles"} /\ q.user = u
           \/ q.pc = "idle",
           q # Idle("conflict")
    PROVE  IInv' /\ RealConflict
<1>1. /\ email' \in [User -> Email \cup {None}] /\ AccountsStay /\ email'[u] # None
      /\ NormalEmails' /\ OneAccountPerAddress' /\ WelcomedHaveRole'
  BY WriteEmail DEF KeepHistory
<1>2. LocalOK(q)'
  BY <1>1 DEF LocalOK, Known
<1>3. req' \in [Req -> Request] /\ LocalsOK' /\ faults' \in Nat
  BY <1>1, <1>2, LocalsStay
<1>4. TypeOK'
  BY <1>1, <1>3 DEF IInv, TypeOK, KeepHistory
<1> QED BY <1>1, <1>3, <1>4, OneConflict DEF IInv

\* The error of a write that took effect.
LEMMA LostWriteStep ==
    ASSUME IInv, NEW u \in User, NEW e, Normal(e), ~Taken(e, u),
           email' = [email EXCEPT ![u] = e], UNCHANGED <<hasRole, seeded>>, KeepHistory,
           Fault, NEW r \in Req, Answer(r, "internal")
    PROVE  IInv' /\ RealConflict
<1>1. Idle("internal") \in Request /\ Idle("internal").pc = "idle"
  BY IdleTyped DEF Reply
<1>2. Idle("internal") # Idle("conflict")
  BY IdleTyped DEF Reply
<1> QED BY <1>1, <1>2, WriteStep DEF Answer

LEMMA RegisterCreateStep ==
    ASSUME IInv, NEW r \in Req, RegisterCreate(r)
    PROVE  IInv' /\ RealConflict
<1>1. /\ UNCHANGED <<hasRole, seeded>> /\ KeepHistory /\ req[r].pc = "register_create"
      /\ req[r].user = None /\ Normal(req[r].email) /\ req[r] \in Request
  BY DEF RegisterCreate, IInv, LocalsOK, LocalOK, TypeOK
<1>2. CASE Fault /\ Answer(r, "internal") /\ UNCHANGED email
  BY <1>1, <1>2, QuietAnswer DEF Reply, tables
<1>3. CASE NoFault /\ Taken(req[r].email, None) /\ Answer(r, "conflict") /\ UNCHANGED email
  BY <1>1, <1>3, ConflictAnswer DEF tables
<1>4. ASSUME ~Taken(req[r].email, None), NEW u \in User,
             email' = [email EXCEPT ![u] = req[r].email],
             \/ Fault /\ Answer(r, "internal")
             \/ NoFault /\ Become(r, [req[r] EXCEPT !.pc = "register_role", !.user = u])
      PROVE  IInv' /\ RealConflict
  <2>1. ~Taken(req[r].email, u)
    BY <1>4, NoneIsNoEmail DEF Taken
  <2>2. CASE Fault /\ Answer(r, "internal")
    BY <1>1, <1>4, <2>1, <2>2, LostWriteStep
  <2>3. CASE NoFault /\ Become(r, [req[r] EXCEPT !.pc = "register_role", !.user = u])
    <3> DEFINE q == [req[r] EXCEPT !.pc = "register_role", !.user = u]
    <3>1. /\ q \in Request /\ q.pc = "register_role" /\ q.user = u
          /\ q.reply = req[r].reply
      BY <1>1 DEF Request, PC
    <3>2. q # Idle("conflict")
      BY <3>1, IdleTyped DEF Reply
    <3>3. Become(r, q)
      BY <2>3
    <3> HIDE DEF q
    <3> QED BY <1>1, <1>4, <2>1, <2>3, <3>1, <3>2, <3>3, WriteStep
  <2> QED BY <1>4, <2>2, <2>3
<1> QED BY <1>2, <1>3, <1>4 DEF RegisterCreate

\* The answer that welcomes a user.
LEMMA WelcomeStep ==
    ASSUME IInv, NEW r \in Req, Welcome(r), UNCHANGED <<email, seeded>>, NoFault \/ Fault,
           Known(req[r].user),
           hasRole' \in {hasRole, hasRole \cup {req[r].user}},
           excused' \in {excused, excused \cup {req[r].user}},
           req[r].user \in hasRole' \cup excused'
    PROVE  IInv' /\ RealConflict
<1> DEFINE u == req[r].user
<1>1. u \in User
  BY DEF Known
<1>2. Idle("ok") \in Request /\ Idle("ok").pc = "idle" /\ Idle("ok").reply = "ok"
  BY IdleTyped DEF Reply
<1>3. Idle("ok") # Idle("conflict")
  BY IdleTyped DEF Reply
<1>4. Become(r, Idle("ok")) /\ welcomed' = welcomed \cup {u}
  BY DEF Welcome, Answer
<1>5. AccountsStay
  BY DEF AccountsStay, Known
<1>6. LocalOK(Idle("ok"))'
  BY <1>2 DEF LocalOK
<1>7. req' \in [Req -> Request] /\ LocalsOK' /\ faults' \in Nat
  BY <1>2, <1>4, <1>5, <1>6, LocalsStay
<1>8. hasRole' \subseteq User /\ excused' \subseteq User /\ welcomed' \subseteq User
  BY <1>1, <1>4 DEF IInv, TypeOK
<1>9. TypeOK'
  BY <1>7, <1>8 DEF IInv, TypeOK
<1>10. NormalEmails' /\ OneAccountPerAddress'
  BY DEF IInv, NormalEmails, OneAccountPerAddress, Known
<1>11. hasRole \subseteq hasRole' /\ excused \subseteq excused'
  OBVIOUS
<1>12. WelcomedHaveRole'
  BY <1>4, <1>11 DEF IInv, WelcomedHaveRole, Known
<1> QED BY <1>2, <1>3, <1>4, <1>7, <1>9, <1>10, <1>12, OneConflict DEF IInv

LEMMA RegisterRoleStep ==
    ASSUME IInv, NEW r \in Req, RegisterRole(r)
    PROVE  IInv' /\ RealConflict
<1>1. /\ UNCHANGED tables /\ req[r].pc = "register_role" /\ Known(req[r].user)
      /\ req[r] \in Request
  BY DEF RegisterRole, IInv, LocalsOK, LocalOK, TypeOK
<1>2. CASE (Fault \/ NoFault) /\ Welcome(r) /\ Excuse(r)
  BY <1>1, <1>2, WelcomeStep DEF Excuse, tables
<1>3. CASE NoFault /\ Goto(r, "register_assign") /\ KeepHistory
  <2>1. LocalOK([req[r] EXCEPT !.pc = "register_assign"])
    BY <1>1 DEF LocalOK, Request
  <2> QED BY <1>1, <1>3, <2>1, GotoStep DEF PC
<1> QED BY <1>2, <1>3 DEF RegisterRole

LEMMA RegisterAssignStep ==
    ASSUME IInv, NEW r \in Req, RegisterAssign(r)
    PROVE  IInv' /\ RealConflict
<1>1. Welcome(r) /\ UNCHANGED <<email, seeded>> /\ Known(req[r].user)
  BY DEF RegisterAssign, IInv, LocalsOK, LocalOK
<1>2. CASE Fault /\ Excuse(r) /\ hasRole' \in {hasRole, hasRole \cup {req[r].user}}
  BY <1>1, <1>2, WelcomeStep DEF Excuse
<1>3. CASE NoFault /\ hasRole' = hasRole \cup {req[r].user} /\ UNCHANGED excused
  BY <1>1, <1>3, WelcomeStep
<1> QED BY <1>2, <1>3 DEF RegisterAssign

-----------------------------------------------------------------------------
\* The other steps

LEMMA UpdateEmailStep ==
    ASSUME IInv, NEW r \in Req, UpdateEmail(r)
    PROVE  IInv' /\ RealConflict
<1> DEFINE u == req[r].user
           e == req[r].email
<1>1. /\ UNCHANGED <<hasRole, seeded>> /\ KeepHistory /\ req[r].pc = "update_email"
      /\ u \in User /\ Normal(e) /\ req[r] \in Request
  BY DEF UpdateEmail, IInv, LocalsOK, LocalOK, TypeOK, Known
<1>2. CASE Fault /\ Answer(r, "internal") /\ UNCHANGED email
  BY <1>1, <1>2, QuietAnswer DEF Reply, tables
<1>3. CASE Fault /\ ~Taken(e, u) /\ Answer(r, "internal") /\ email' = [email EXCEPT ![u] = e]
  BY <1>1, <1>3, LostWriteStep
<1>4. CASE NoFault /\ Taken(e, u) /\ Answer(r, "conflict") /\ UNCHANGED email
  BY <1>1, <1>4, ConflictAnswer DEF tables
<1>5. CASE NoFault /\ ~Taken(e, u) /\ Goto(r, "update_roles") /\ email' = [email EXCEPT ![u] = e]
  <2> DEFINE q == [req[r] EXCEPT !.pc = "update_roles"]
  <2>1. q \in Request /\ q.pc = "update_roles" /\ q.user = u /\ q.reply = req[r].reply
    BY <1>1 DEF Request, PC
  <2>2. q # Idle("conflict")
    BY <2>1, IdleTyped DEF Reply
  <2>3. Become(r, q)
    BY <1>5 DEF Goto
  <2> HIDE DEF q
  <2> QED BY <1>1, <1>5, <2>1, <2>2, <2>3, WriteStep
<1> QED BY <1>2, <1>3, <1>4, <1>5 DEF UpdateEmail

LEMMA UpdateRolesStep ==
    ASSUME IInv, NEW r \in Req, UpdateRoles(r)
    PROVE  IInv' /\ RealConflict
BY QuietAnswer DEF UpdateRoles, Reply

LEMMA SeedStep ==
    ASSUME IInv, Seed
    PROVE  IInv' /\ RealConflict
<1>1. TypeOK'
  BY DEF Seed, IInv, TypeOK, KeepHistory
<1>2. LocalsOK'
  BY DEF Seed, IInv, LocalsOK, LocalOK, Known, Normal
<1>3. NormalEmails' /\ OneAccountPerAddress' /\ WelcomedHaveRole'
  BY DEF Seed, IInv, NormalEmails, OneAccountPerAddress, WelcomedHaveRole, Known, KeepHistory
<1>4. RealConflict
  BY IdleTyped DEF Seed, RealConflict, Reply
<1> QED BY <1>1, <1>2, <1>3, <1>4 DEF IInv

LEMMA RestartStep ==
    ASSUME IInv, Restart
    PROVE  IInv' /\ RealConflict
<1>1. /\ Idle("none") \in Request /\ Idle("none").pc = "idle"
      /\ Idle("none").reply = "none" /\ Idle("conflict").reply = "conflict"
  BY IdleTyped DEF Reply
<1>2. /\ req' \in [Req -> Request]
      /\ \A r \in Req : /\ req'[r].pc = "idle" /\ req'[r].reply = "none"
                        /\ req'[r] # Idle("conflict")
  BY <1>1 DEF Restart
<1>3. TypeOK'
  BY <1>2 DEF Restart, IInv, TypeOK, tables, KeepHistory, Fault
<1>4. LocalsOK' /\ RealConflict
  BY <1>2 DEF LocalsOK, LocalOK, RealConflict
<1>5. NormalEmails' /\ OneAccountPerAddress' /\ WelcomedHaveRole'
  BY DEF Restart, IInv, NormalEmails, OneAccountPerAddress, WelcomedHaveRole, Known, tables,
         KeepHistory
<1> QED BY <1>3, <1>4, <1>5 DEF IInv

LEMMA NextStep ==
    ASSUME IInv, [Next]_vars
    PROVE  IInv' /\ (Next => RealConflict)
<1>1. CASE Next
  BY <1>1, StartStep, RegisterFindStep, RegisterCreateStep, RegisterRoleStep,
     RegisterAssignStep, UpdateEmailStep, UpdateRolesStep, SeedStep, RestartStep
  DEF Next, Advance
<1>2. CASE UNCHANGED vars
  <2>1. IInv'
    BY <1>2 DEF vars, tables, IInv, TypeOK, LocalsOK, LocalOK, Normal, NormalEmails,
                OneAccountPerAddress, WelcomedHaveRole, Known
  <2>2. RealConflict
    BY <1>2, IdleTyped DEF vars, RealConflict, Reply
  <2> QED BY <2>1, <2>2
<1> QED BY <1>1, <1>2

-----------------------------------------------------------------------------
\* What is answered 500

\* The action of RacesAreConflicts.
RealFailure ==
    \A r \in Req :
        /\ faults' = 0 /\ req[r].pc # "idle"
        /\ req'[r] \in {Idle("internal"), Idle("hash_password")}
        => req[r].longPassword

Failed(q) == q \in {Idle("internal"), Idle("hash_password")}

LEMMA FailedIsIdle ==
    /\ \A q : Failed(q) => q.pc = "idle" /\ q.reply \in {"internal", "hash_password"}
    /\ \A code \in {"none", "ok", "conflict"} : ~Failed(Idle(code))
BY IdleTyped DEF Failed, Reply

\* A request given q is answered 500 only if q says so.
LEMMA OneFailure ==
    ASSUME IInv, NEW s \in Req, NEW q, Become(s, q), NEW r \in Req,
           req[r].pc # "idle", Failed(req'[r])
    PROVE  r = s /\ Failed(q)
<1>1. \A x \in Req : req'[x] = IF x = s THEN q ELSE req[x]
  BY DEF IInv, TypeOK, Become
<1>2. ~Failed(req[r])
  BY FailedIsIdle
<1> QED BY <1>1, <1>2

\* A goroutine that goes on to the next store access answers nothing.
LEMMA GotoFailsNot ==
    ASSUME IInv, NEW s \in Req, NEW label, label # "idle", Goto(s, label), NEW r \in Req,
           req[r].pc # "idle", Failed(req'[r])
    PROVE  FALSE
<1>1. [req[s] EXCEPT !.pc = label].pc = label
  BY DEF IInv, TypeOK, Request
<1>2. Failed([req[s] EXCEPT !.pc = label])
  BY OneFailure DEF Goto
<1> QED BY <1>1, <1>2, FailedIsIdle

\* Nor does a goroutine that answers something else.
LEMMA AnswerFailsNot ==
    ASSUME IInv, NEW s \in Req, NEW code \in {"none", "ok", "conflict"}, Answer(s, code),
           NEW r \in Req, req[r].pc # "idle", Failed(req'[r])
    PROVE  FALSE
BY OneFailure, FailedIsIdle DEF Answer

LEMMA OnlyLongPasswords ==
    ASSUME IInv, [Next]_vars
    PROVE  [RealFailure]_vars
<1> SUFFICES ASSUME Next, faults' = 0, NEW r \in Req, req[r].pc # "idle", Failed(req'[r])
             PROVE  req[r].longPassword
  BY DEF RealFailure, Failed
<1>0. ~Fault
  BY DEF Fault, IInv, TypeOK
<1>1. ASSUME NEW s \in Req, Start(s)
      PROVE  FALSE
  <2>1. req[s].pc = "idle"
    BY <1>1 DEF Start, RegisterStart, UpdateStart
  <2>2. PICK q : Become(s, q)
    BY <1>1 DEF Start, RegisterStart, UpdateStart
  <2> QED BY <2>1, <2>2, OneFailure
<1>2. ASSUME NEW s \in Req, RegisterFind(s)
      PROVE  req[r].longPassword
  <2>1. CASE Answer(s, "conflict")
    BY <2>1, AnswerFailsNot
  <2>2. CASE req[s].longPassword /\ Answer(s, "hash_password")
    BY <2>2, OneFailure DEF Answer
  <2>3. CASE Goto(s, "register_create")
    BY <2>3, GotoFailsNot
  <2> QED BY <1>0, <1>2, <2>1, <2>2, <2>3 DEF RegisterFind
<1>3. ASSUME NEW s \in Req, RegisterCreate(s)
      PROVE  FALSE
  <2>1. CASE Answer(s, "conflict")
    BY <2>1, AnswerFailsNot
  <2>2. ASSUME NEW u \in User, Become(s, [req[s] EXCEPT !.pc = "register_role", !.user = u])
        PROVE  FALSE
    <3>1. [req[s] EXCEPT !.pc = "register_role", !.user = u].pc = "register_role"
      BY DEF IInv, TypeOK, Request
    <3>2. Failed([req[s] EXCEPT !.pc = "register_role", !.user = u])
      BY <2>2, OneFailure
    <3> QED BY <3>1, <3>2, FailedIsIdle
  <2> QED BY <1>0, <1>3, <2>1, <2>2 DEF RegisterCreate
<1>4. ASSUME NEW s \in Req, RegisterRole(s) \/ RegisterAssign(s)
      PROVE  FALSE
  <2>1. Answer(s, "ok") \/ Goto(s, "register_assign")
    BY <1>4 DEF RegisterRole, RegisterAssign, Welcome
  <2> QED BY <2>1, AnswerFailsNot, GotoFailsNot
<1>5. ASSUME NEW s \in Req, UpdateEmail(s) \/ UpdateRoles(s)
      PROVE  FALSE
  <2>1. Answer(s, "conflict") \/ Answer(s, "ok") \/ Goto(s, "update_roles")
    BY <1>0, <1>5 DEF UpdateEmail, UpdateRoles
  <2> QED BY <2>1, AnswerFailsNot, GotoFailsNot
<1>6. CASE Seed
  BY <1>6, FailedIsIdle DEF Seed
<1> QED BY <1>0, <1>1, <1>2, <1>3, <1>4, <1>5, <1>6 DEF Next, Advance, Restart

LEMMA InvariantHolds == Spec => []IInv
<1>1. Init => IInv
  BY InitInvariant
<1>2. IInv /\ [Next]_vars => IInv'
  BY NextStep
<1> QED BY <1>1, <1>2, PTL DEF Spec

-----------------------------------------------------------------------------
\* The theorems

\* Type correctness of the tables and the requests.
THEOREM TypeCorrect == Spec => []TypeOK
<1>1. IInv => TypeOK
  BY DEF IInv
<1> QED BY <1>1, InvariantHolds, PTL

\* No address has two accounts: whatever register.go and update_me.go store is
\* normalised, and the UNIQUE on users.email does the rest.
THEOREM OneAccountPerAddressHolds == Spec => []OneAccountPerAddress
<1>1. IInv => OneAccountPerAddress
  BY DEF IInv
<1> QED BY <1>1, InvariantHolds, PTL

\* Without a fault only a registration whose password is too long for bcrypt is answered
\* 500: every violation of UNIQUE becomes CONFLICT.
THEOREM RacesAreConflictsHold == Spec => RacesAreConflicts
<1>1. IInv /\ [Next]_vars => [RealFailure]_vars
  BY OnlyLongPasswords DEF RealFailure
<1> QED BY <1>1, InvariantHolds, PTL DEF Spec, RacesAreConflicts, RealFailure

\* Whoever is welcomed has the role "user", or it was looked up or assigned in vain.
THEOREM WelcomedHaveRoleHolds == Spec => []WelcomedHaveRole
<1>1. IInv => WelcomedHaveRole
  BY DEF IInv
<1> QED BY <1>1, InvariantHolds, PTL

\* CONFLICT is answered only while another account has the address.
THEOREM ConflictIsRealHolds == Spec => ConflictIsReal
<1>1. IInv /\ [Next]_vars => [RealConflict]_vars
  BY NextStep
<1> QED BY <1>1, InvariantHolds, PTL DEF Spec, ConflictIsReal, RealConflict
=============================================================================
