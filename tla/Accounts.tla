------------------------------- MODULE Accounts -------------------------------
(***************************************************************************)
(* Accounts: POST /auth/register and PUT /me over the tables users and     *)
(* user_roles.                                                             *)
(*                                                                         *)
(* A member of Req is a server goroutine; every store access is one step.  *)
(* An email is an address and the way it is spelled.  Requests arrive with *)
(* emails the validator accepts and with passwords of the length it        *)
(* allows.  GET /me reads and changes nothing.                             *)
(***************************************************************************)
EXTENDS Integers, FiniteSets

CONSTANTS
    User,       \* rows of users that can ever be inserted
    Address,    \* addresses, whatever their spelling
    Req,        \* goroutines serving requests
    None,       \* no row; no user or email
    MaxFaults   \* bound: failed store calls and restarts

Email == [address : Address, capitals : BOOLEAN]

ASSUME AccountsBounds == MaxFaults \in Nat
ASSUME NoneIsNoEmail == None \notin Email /\ None \notin User

VARIABLES
    email,     \* column email of users, None where there is no row
    hasRole,   \* users that user_roles gives the role "user"
    seeded,    \* the role "user" is in roles
    req,       \* per goroutine: what it serves, where it is, the last answer it gave
    welcomed,  \* history: users whose registration was answered 201
    excused,   \* history: users whose role was looked up or assigned in vain
    faults

tables == <<email, hasRole, seeded>>
vars   == <<tables, req, welcomed, excused, faults>>

\* "internal": a store call failed; "hash_password": bcrypt refused.  Both are a 500.
Reply == {"none", "ok", "conflict", "not_found", "internal", "hash_password"}
PC == {"idle", "register_find", "register_create", "register_role", "register_assign",
       "update_email", "update_roles"}
Request == [pc : PC, user : User \cup {None}, email : Email \cup {None},
            longPassword : BOOLEAN, reply : Reply]

Idle(code) == [pc |-> "idle", user |-> None, email |-> None, longPassword |-> FALSE,
               reply |-> code]

TypeOK ==
    /\ email \in [User -> Email \cup {None}]
    /\ hasRole \subseteq User
    /\ seeded \in BOOLEAN
    /\ req \in [Req -> Request]
    /\ welcomed \subseteq User
    /\ excused \subseteq User
    /\ faults \in Nat

Init ==
    /\ email = [u \in User |-> None]
    /\ hasRole = {}
    /\ seeded \in BOOLEAN
    /\ req = [r \in Req |-> Idle("none")]
    /\ welcomed = {}
    /\ excused = {}
    /\ faults = 0

-----------------------------------------------------------------------------
\* Pieces of a step

Known(u) == u \in User /\ email[u] # None
\* UNIQUE on users.email compares the stored text; a row never conflicts with itself.
Taken(e, u) == \E v \in User \ {u} : email[v] = e

\* mutant: the email is stored as it was sent
NormaliseNot(e) == e
\* strings.TrimSpace(strings.ToLower(email))
Normalise(e) == [e EXCEPT !.capitals = FALSE]

Become(r, q) == req' = [req EXCEPT ![r] = q]
Answer(r, code) == Become(r, Idle(code))
Goto(r, label) == Become(r, [req[r] EXCEPT !.pc = label])
NoFault == UNCHANGED faults
Fault == faults < MaxFaults /\ faults' = faults + 1
KeepHistory == UNCHANGED <<welcomed, excused>>

-----------------------------------------------------------------------------
\* RegisterUseCase.Execute

\* Bound: a registration starts only while a row is left for it.
RegisterStart(r, e, long) ==
    /\ req[r].pc = "idle"
    /\ Cardinality({q \in Req : req[q].pc \in {"register_find", "register_create"}})
          < Cardinality({u \in User : email[u] = None})
    /\ Become(r, [Idle("none") EXCEPT !.pc = "register_find", !.email = Normalise(e),
                                      !.longPassword = long])
    /\ UNCHANGED tables /\ KeepHistory /\ NoFault

\* mutant: whatever the lookup returns is taken for an account that exists
RegisterFindAnyError(r) ==
    /\ req[r].pc = "register_find"
    /\ \/ Fault /\ Answer(r, "conflict")
       \/ NoFault /\ Taken(req[r].email, None) /\ Answer(r, "conflict")
       \/ NoFault /\ ~Taken(req[r].email, None) /\ Goto(r, "register_create")
    /\ UNCHANGED tables /\ KeepHistory

\* FindByEmail, of whose errors only NOT_FOUND goes on; then bcrypt, which takes no
\* more than 72 bytes.
RegisterFind(r) ==
    /\ req[r].pc = "register_find"
    /\ \/ Fault /\ Answer(r, "internal")
       \/ NoFault /\ Taken(req[r].email, None) /\ Answer(r, "conflict")
       \/ /\ NoFault /\ ~Taken(req[r].email, None)
          /\ IF req[r].longPassword THEN Answer(r, "hash_password") ELSE Goto(r, "register_create")
    /\ UNCHANGED tables /\ KeepHistory

\* mutant: a violation of UNIQUE is an error like any other
RegisterCreateUnmapped(r) ==
    /\ req[r].pc = "register_create"
    /\ \/ Taken(req[r].email, None) /\ Answer(r, "internal") /\ UNCHANGED email
       \/ /\ ~Taken(req[r].email, None)
          /\ \E u \in User : /\ email[u] = None
                             /\ email' = [email EXCEPT ![u] = req[r].email]
                             /\ Become(r, [req[r] EXCEPT !.pc = "register_role", !.user = u])
    /\ UNCHANGED <<hasRole, seeded>> /\ KeepHistory /\ NoFault

\* UserRepository.Create, which turns a violation of UNIQUE into CONFLICT; the insert
\* may take effect although an error comes back.
RegisterCreate(r) ==
    /\ req[r].pc = "register_create"
    /\ \/ Fault /\ Answer(r, "internal") /\ UNCHANGED email
       \/ NoFault /\ Taken(req[r].email, None) /\ Answer(r, "conflict") /\ UNCHANGED email
       \/ /\ ~Taken(req[r].email, None)
          /\ \E u \in User :
                /\ email[u] = None
                /\ email' = [email EXCEPT ![u] = req[r].email]
                /\ \/ Fault /\ Answer(r, "internal")
                   \/ NoFault /\ Become(r, [req[r] EXCEPT !.pc = "register_role", !.user = u])
    /\ UNCHANGED <<hasRole, seeded>> /\ KeepHistory

Welcome(r) == Answer(r, "ok") /\ welcomed' = welcomed \cup {req[r].user}
Excuse(r) == excused' = excused \cup {req[r].user}

\* RoleRepository.FindByName: an error of any kind means the role is not assigned.
RegisterRole(r) ==
    /\ req[r].pc = "register_role"
    /\ \/ Fault /\ Welcome(r) /\ Excuse(r)
       \/ NoFault /\ ~seeded /\ Welcome(r) /\ Excuse(r)
       \/ NoFault /\ seeded /\ Goto(r, "register_assign") /\ KeepHistory
    /\ UNCHANGED tables

\* mutant: the answer goes out although the role is not assigned
RegisterAssignNothing(r) ==
    /\ req[r].pc = "register_assign"
    /\ Welcome(r)
    /\ UNCHANGED <<tables, excused>> /\ NoFault

\* RoleRepository.AssignToUser, whose error is dropped.
RegisterAssign(r) ==
    /\ req[r].pc = "register_assign"
    /\ \/ Fault /\ Excuse(r) /\ hasRole' \in {hasRole, hasRole \cup {req[r].user}}
       \/ NoFault /\ hasRole' = hasRole \cup {req[r].user} /\ UNCHANGED excused
    /\ Welcome(r)
    /\ UNCHANGED <<email, seeded>>

-----------------------------------------------------------------------------
\* UpdateMeUseCase.Execute

\* u has an access token, so it has an account; accounts are never deleted.
UpdateStart(r, u, e) ==
    /\ req[r].pc = "idle" /\ Known(u)
    /\ Become(r, [Idle("none") EXCEPT !.pc = "update_email", !.user = u, !.email = Normalise(e)])
    /\ UNCHANGED tables /\ KeepHistory /\ NoFault

\* mutant: first look whether the email is in use, by whomever
UpdateEmailLooks(r) ==
    /\ req[r].pc = "update_email"
    /\ \/ Taken(req[r].email, None) /\ Answer(r, "conflict") /\ UNCHANGED email
       \/ /\ ~Taken(req[r].email, None) /\ Goto(r, "update_roles")
          /\ email' = [email EXCEPT ![req[r].user] = req[r].email]
    /\ UNCHANGED <<hasRole, seeded>> /\ KeepHistory /\ NoFault

\* UserRepository.UpdateEmail.  No row is not possible here.
UpdateEmail(r) ==
    LET u == req[r].user
        Write == email' = [email EXCEPT ![u] = req[r].email]
    IN
    /\ req[r].pc = "update_email"
    /\ \/ Fault /\ Answer(r, "internal") /\ UNCHANGED email
       \/ Fault /\ ~Taken(req[r].email, u) /\ Answer(r, "internal") /\ Write
       \/ NoFault /\ Taken(req[r].email, u) /\ Answer(r, "conflict") /\ UNCHANGED email
       \/ NoFault /\ ~Taken(req[r].email, u) /\ Goto(r, "update_roles") /\ Write
    /\ UNCHANGED <<hasRole, seeded>> /\ KeepHistory

\* RoleRepository.FindByUserID: if it fails, so does the request, the email changed.
UpdateRoles(r) ==
    /\ req[r].pc = "update_roles"
    /\ \/ Fault /\ Answer(r, "internal")
       \/ NoFault /\ Answer(r, "ok")
    /\ UNCHANGED tables /\ KeepHistory

-----------------------------------------------------------------------------
\* scripts/seed.go is run, before or after the server has been started.
Seed ==
    /\ ~seeded /\ seeded' = TRUE
    /\ UNCHANGED <<email, hasRole, req, faults>> /\ KeepHistory

Restart ==
    /\ Fault
    /\ req' = [r \in Req |-> Idle("none")]
    /\ UNCHANGED tables /\ KeepHistory

Start(r) ==
    \E e \in Email :
        (\E long \in BOOLEAN : RegisterStart(r, e, long)) \/ (\E u \in User : UpdateStart(r, u, e))

Advance(r) ==
    \/ RegisterFind(r) \/ RegisterCreate(r) \/ RegisterRole(r) \/ RegisterAssign(r)
    \/ UpdateEmail(r) \/ UpdateRoles(r)

Next == (\E r \in Req : Start(r) \/ Advance(r)) \/ Seed \/ Restart

Spec == Init /\ [][Next]_vars

-----------------------------------------------------------------------------
\* Properties

\* Two accounts never have the same address in two spellings: what register.go and
\* update_me.go write is normalised, so that the UNIQUE on users.email means addresses.
OneAccountPerAddress ==
    \A u, v \in User :
        Known(u) /\ Known(v) /\ email[u].address = email[v].address => u = v

\* CONFLICT is answered only while an account has the address that was asked for:
\* never because a lookup failed, and never to a user who keeps the address they have,
\* as one does who repeats an update whose answer was lost.
ConflictIsReal ==
    [][\A r \in Req :
          LET q == req[r] IN
          q.pc # "idle" /\ req'[r] = Idle("conflict") =>
             \E v \in User \ {q.user} : Known(v) /\ email[v].address = q.email.address]_vars

\* Requests that race for an address are answered CONFLICT, not 500 (user_repository.go:36
\* and 80): without a fault a 500 is the answer to a password that bcrypt refuses
\* (register.go:41-44) and to nothing else, so never to an update.
RacesAreConflicts ==
    [][\A r \in Req :
          /\ faults' = 0 /\ req[r].pc # "idle"
          /\ req'[r] \in {Idle("internal"), Idle("hash_password")}
          => req[r].longPassword]_vars

\* A user who was welcomed has the role "user", unless looking it up or assigning it
\* failed: "Non-fatal - login returns empty roles if this fails" (register.go:51).
WelcomedHaveRole == \A u \in welcomed : Known(u) /\ u \in hasRole \cup excused
=============================================================================
