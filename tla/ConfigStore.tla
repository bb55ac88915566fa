------------------------------ MODULE ConfigStore ------------------------------
(***************************************************************************)
(* The app configuration: one document in one row of app_config, read by   *)
(* every client (GET /api/v1/config), replaced as a whole by admins (PUT   *)
(* /api/v1/admin/config), and written by the scripts of a deployment,      *)
(* which are run again and again.                                          *)
(*                                                                         *)
(* A PUT is two store calls, the upsert and the read it answers with.      *)
(***************************************************************************)
EXTENDS Naturals

CONSTANTS
    Req,       \* server goroutines
    Form,      \* the documents that admins send and the handler lets pass
    Shipped,   \* the document of migration 00002
    Default,   \* the document of model.Default, which the seed script inserts
    NoTable,   \* what is stored before the migration
    None,      \* no document
    MaxFaults  \* failures of Postgres in a behaviour

VARIABLES
    row,     \* the row 'app'
    call,    \* per goroutine: the request it serves, with the answer once there is one
    last,    \* history: the document that was saved last
    faults   \* failures that are left

vars == <<row, call, last, faults>>

Document == Form \cup {Shipped, Default}
Pending == {"get", "upsert", "read_back"}
Answer == {"ok", "bad_request", "internal"}
\* form is the body of a PUT.  mark is history: whether the PUT has saved its form, and
\* whether another document has been saved since.
Call == [pc : {"idle"} \cup Pending \cup Answer, form : Form \cup {None}, shown : Document \cup {None},
         mark : {"unsaved", "saved", "overtaken"}]

TypeOK ==
    /\ row \in Document \cup {NoTable}
    /\ call \in [Req -> Call]
    /\ last \in Form \cup {None}
    /\ faults \in 0..MaxFaults

Begun(pc, form) == [pc |-> pc, form |-> form, shown |-> None, mark |-> "unsaved"]

Init ==
    /\ row = NoTable
    /\ call = [r \in Req |-> Begun("idle", None)]
    /\ last = None
    /\ faults = MaxFaults

Busy(r) == call[r].pc \in Pending

-----------------------------------------------------------------------------
\* Requests

Begin(r, c) ==
    /\ call[r].pc = "idle" /\ call' = [call EXCEPT ![r] = c]
    /\ UNCHANGED <<row, last, faults>>

GetConfig(r) == Begin(r, Begun("get", None))
Update(r, form) == Begin(r, Begun("upsert", form))
\* The body is no document, or a limit is not positive.
Refuse(r) == Begin(r, Begun("bad_request", None))

\* The answer is sent.
Done(r) ==
    /\ call[r].pc \in Answer /\ call' = [call EXCEPT ![r] = Begun("idle", None)]
    /\ UNCHANGED <<row, last, faults>>

\* r has saved its form and comes to pc: who had saved before is overtaken.
Saved(r, pc) ==
    /\ last' = call[r].form
    /\ call' = [q \in Req |->
                  IF q = r THEN [call[r] EXCEPT !.pc = pc, !.mark = "saved"]
                  ELSE IF call[q].mark = "saved" THEN [call[q] EXCEPT !.mark = "overtaken"] ELSE call[q]]

\* mutant: the statement of the seed script, ON CONFLICT DO NOTHING
UpsertInsertsOnly(r) ==
    /\ call[r].pc = "upsert" /\ row # NoTable
    /\ Saved(r, "read_back")
    /\ UNCHANGED <<row, faults>>

Upsert(r) ==
    /\ call[r].pc = "upsert" /\ row # NoTable
    /\ row' = call[r].form /\ Saved(r, "read_back")
    /\ UNCHANGED faults

\* The connection breaks after the row was written.
UpsertUnheard(r) ==
    /\ call[r].pc = "upsert" /\ row # NoTable
    /\ row' = call[r].form /\ Saved(r, "internal")
    /\ faults > 0 /\ faults' = faults - 1

\* Repository.Get, for a GET and for the answer to a PUT.
Read(r) ==
    /\ call[r].pc \in {"get", "read_back"} /\ row # NoTable
    /\ call' = [call EXCEPT ![r] = [@ EXCEPT !.pc = "ok", !.shown = row]]
    /\ UNCHANGED <<row, last, faults>>

\* A store call fails without an effect.
Fail(r) ==
    /\ Busy(r)
    /\ call' = [call EXCEPT ![r].pc = "internal"]
    /\ UNCHANGED <<row, last>>

\* There is no table, or no connection since the pool is closed.  A table without the row,
\* for which Repository.Get has a NOT_FOUND, does not come about: the migration makes both,
\* and nothing deletes the row.
Impossible(r) == Fail(r) /\ UNCHANGED faults
Break(r) == faults > 0 /\ faults' = faults - 1 /\ Fail(r)

-----------------------------------------------------------------------------
\* Deployment

\* mutant: the migration drops and makes the table again
MigrateAfresh == row' = Shipped /\ UNCHANGED <<call, last, faults>>

\* goose up: 00002 makes the table and inserts the row, once.  00008, which would replace
\* the model, has no "+goose Up" line and is refused, now and every other time.
Migrate ==
    /\ row' = IF row = NoTable THEN Shipped ELSE row
    /\ UNCHANGED <<call, last, faults>>

\* mutant: the seed script saves as the server does
SeedUpserts == row # NoTable /\ row' = Default /\ UNCHANGED <<call, last, faults>>

\* scripts/seed.go: ON CONFLICT DO NOTHING, and the row is there since the migration.
Seed == row # NoTable /\ UNCHANGED vars

Deploy == Migrate \/ Seed

Next ==
    \/ \E r \in Req : \/ GetConfig(r) \/ (\E form \in Form : Update(r, form)) \/ Refuse(r) \/ Done(r)
                      \/ Upsert(r) \/ UpsertUnheard(r) \/ Read(r) \/ Impossible(r) \/ Break(r)
    \/ Deploy

Spec == Init /\ [][Next]_vars

-----------------------------------------------------------------------------
\* Properties

\* A PUT that is answered with a document is answered with its own, unless another one was
\* saved in between (update_config.go:23-26 reads the row again).
OwnUnlessOvertaken ==
    \A r \in Req : call[r].pc = "ok" /\ call[r].form # None =>
        call[r].shown = call[r].form \/ call[r].mark = "overtaken"

\* What was saved last is what is stored: no deployment that runs its scripts again, and no
\* request that fails, takes an admin's document away.
LastSaveStands == last # None => row = last
=============================================================================
