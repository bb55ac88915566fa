------------------------------ MODULE Inference ------------------------------
(***************************************************************************)
(* Recording of browser-side inference: POST /llm/sessions,                *)
(* /llm/sessions/{id}/events and /llm/sessions/{id}/score, over the tables *)
(* llm_sessions, inference_events and decision_scores and the Prometheus   *)
(* counters the use cases increment.                                       *)
(*                                                                         *)
(* A member of Req is a server goroutine; every store access is one step.  *)
(* The publications on the event bus reach no subscriber and change        *)
(* nothing; token counts go the way of the event they come with.           *)
(***************************************************************************)
EXTENDS Integers, FiniteSets

CONSTANTS
    User,          \* accounts, as the access token names them
    Session,       \* rows of llm_sessions that can ever be inserted
    Event,         \* rows of inference_events that can ever be inserted
    Model,         \* model ids
    Req,           \* goroutines serving requests
    None,          \* no row; no user, session, event or model
    MaxComposite,  \* a composite score is one of 0..MaxComposite
    MaxFaults      \* bound: failed store calls and crashes

SessionRow == [user : User, model : Model]
EventRow == [session : Session, user : User, failed : BOOLEAN]
ScoreRow == [safetyFlag : BOOLEAN, composite : 0..MaxComposite]

ASSUME InferenceBounds == MaxComposite \in Nat /\ MaxFaults \in Nat
ASSUME FiniteAssumption == IsFiniteSet(Event) /\ IsFiniteSet(Req)
ASSUME NoneIsNone == None \notin User \cup Session \cup Event \cup Model
                                   \cup SessionRow \cup EventRow \cup ScoreRow

VARIABLES
    sessions,  \* llm_sessions
    events,    \* inference_events
    scores,    \* decision_scores, by the event_id, which is UNIQUE
    counters,  \* Prometheus: llm_events_total and llm_decision_score_sum, by model
    req,       \* per goroutine: what it serves, where it is, what it has read
    scorer,    \* history: who recorded the score of an event
    acked,     \* history: how often a score of the event was answered 201
    faults

tables == <<sessions, events, scores>>
vars   == <<tables, counters, req, scorer, acked, faults>>

Reply == {"none", "created", "forbidden", "not_found", "conflict", "internal"}
PC == {"idle", "session_create", "event_find", "event_create", "event_count",
       "score_find", "score_event", "score_create", "score_count"}

\* event: the event to insert or to score; model: the model of the session found.
Request == [pc : PC, user : User \cup {None}, session : Session \cup {None},
            event : Event \cup {None}, model : Model \cup {None},
            failed : BOOLEAN, safetyFlag : BOOLEAN, composite : 0..MaxComposite,
            reply : Reply]

Idle(code) == [pc |-> "idle", user |-> None, session |-> None, event |-> None,
               model |-> None, failed |-> FALSE, safetyFlag |-> FALSE,
               composite |-> 0, reply |-> code]

TypeOK ==
    /\ sessions \in [Session -> SessionRow \cup {None}]
    /\ events \in [Event -> EventRow \cup {None}]
    /\ scores \in [Event -> ScoreRow \cup {None}]
    /\ counters \in [Model -> [ok : Nat, error : Nat, score : Nat]]
    /\ req \in [Req -> Request]
    /\ scorer \in [Event -> User \cup {None}]
    /\ acked \in [Event -> Nat]
    /\ faults \in Nat

NoCounts == [m \in Model |-> [ok |-> 0, error |-> 0, score |-> 0]]

Init ==
    /\ sessions = [s \in Session |-> None]
    /\ events = [e \in Event |-> None]
    /\ scores = [e \in Event |-> None]
    /\ counters = NoCounts
    /\ req = [r \in Req |-> Idle("none")]
    /\ scorer = [e \in Event |-> None]
    /\ acked = [e \in Event |-> 0]
    /\ faults = 0

-----------------------------------------------------------------------------
\* Reading the tables

HasSession(s) == s \in Session /\ sessions[s] # None
HasEvent(e) == e \in Event /\ events[e] # None
Scored(e) == e \in Event /\ scores[e] # None
ModelOf(e) == sessions[events[e].session].model

\* Bound: a request that inserts a row starts only while an id is left for it.
Free(table, inserting) ==
    Cardinality({r \in Req : req[r].pc \in inserting})
        < Cardinality({k \in DOMAIN table : table[k] = None})

-----------------------------------------------------------------------------
\* Pieces of a step

Become(r, q) == req' = [req EXCEPT ![r] = q]
Answer(r, code) == Become(r, Idle(code))
Goto(r, label) == Become(r, [req[r] EXCEPT !.pc = label])
NoFault == UNCHANGED faults
Fault == faults < MaxFaults /\ faults' = faults + 1
KeepHistory == UNCHANGED <<scorer, acked>>

\* mutant: ownership is not looked at
FindAnySession(r, next) ==
    LET s == req[r].session IN
    \/ NoFault /\ ~HasSession(s) /\ Answer(r, "not_found")
    \/ /\ NoFault /\ HasSession(s)
       /\ Become(r, [req[r] EXCEPT !.pc = next, !.model = sessions[s].model])
\* SessionRepository.FindByID and the comparison of its owner with the requester.
FindOwnSession(r, next) ==
    LET s == req[r].session IN
    \/ Fault /\ Answer(r, "internal")
    \/ NoFault /\ ~HasSession(s) /\ Answer(r, "not_found")
    \/ NoFault /\ HasSession(s) /\ sessions[s].user # req[r].user /\ Answer(r, "forbidden")
    \/ /\ NoFault /\ HasSession(s) /\ sessions[s].user = req[r].user
       /\ Become(r, [req[r] EXCEPT !.pc = next, !.model = sessions[s].model])

-----------------------------------------------------------------------------
\* CreateSessionUseCase.Execute: the only store access is Create.

CreateSessionStart(r, u, m) ==
    /\ req[r].pc = "idle" /\ Free(sessions, {"session_create"})
    /\ Become(r, [Idle("none") EXCEPT !.pc = "session_create", !.user = u, !.model = m])
    /\ UNCHANGED <<tables, counters>> /\ KeepHistory /\ NoFault

CreateSession(r) ==
    LET InsertSession == \E s \in Session :
            /\ sessions[s] = None
            /\ sessions' = [sessions EXCEPT ![s] = [user |-> req[r].user, model |-> req[r].model]]
    IN
    /\ req[r].pc = "session_create"
    /\ \/ Fault /\ Answer(r, "internal") /\ (UNCHANGED sessions \/ InsertSession)
       \/ NoFault /\ Answer(r, "created") /\ InsertSession
    /\ UNCHANGED <<events, scores, counters>> /\ KeepHistory

-----------------------------------------------------------------------------
\* RecordEventUseCase.Execute

RecordEventStart(r, u, s, failed) ==
    /\ req[r].pc = "idle" /\ Free(events, {"event_find", "event_create"})
    /\ Become(r, [Idle("none") EXCEPT !.pc = "event_find", !.user = u, !.session = s,
                                      !.failed = failed])
    /\ UNCHANGED <<tables, counters>> /\ KeepHistory /\ NoFault

RecordEventFind(r) ==
    /\ req[r].pc = "event_find"
    /\ FindOwnSession(r, "event_create")
    /\ UNCHANGED <<tables, counters>> /\ KeepHistory

\* An id that was never used is inserted; the insert may take effect although an
\* error comes back.
RecordEventCreate(r) ==
    /\ req[r].pc = "event_create"
    /\ \/ Fault /\ Answer(r, "internal") /\ UNCHANGED events
       \/ \E e \in Event :
             /\ events[e] = None
             /\ events' = [events EXCEPT ![e] = [session |-> req[r].session,
                               user |-> req[r].user, failed |-> req[r].failed]]
             /\ \/ Fault /\ Answer(r, "internal")
                \/ NoFault /\ Become(r, [req[r] EXCEPT !.pc = "event_count", !.event = e])
    /\ UNCHANGED <<sessions, scores, counters>> /\ KeepHistory

RecordEventCount(r) ==
    /\ req[r].pc = "event_count"
    /\ counters' = IF req[r].failed THEN [counters EXCEPT ![req[r].model].error = @ + 1]
                                    ELSE [counters EXCEPT ![req[r].model].ok = @ + 1]
    /\ Answer(r, "created")
    /\ UNCHANGED tables /\ KeepHistory /\ NoFault

-----------------------------------------------------------------------------
\* RecordScoreUseCase.Execute

RecordScoreStart(r, u, s, e, flag, composite) ==
    /\ req[r].pc = "idle"
    /\ Become(r, [Idle("none") EXCEPT !.pc = "score_find", !.user = u, !.session = s,
                     !.event = e, !.safetyFlag = flag, !.composite = composite])
    /\ UNCHANGED <<tables, counters>> /\ KeepHistory /\ NoFault

RecordScoreFind(r) ==
    /\ req[r].pc = "score_find"
    /\ FindOwnSession(r, "score_event")
    /\ UNCHANGED <<tables, counters>> /\ KeepHistory

\* mutant: the event may be of any session
RecordScoreAnyEvent(r) ==
    /\ req[r].pc = "score_event"
    /\ \/ ~HasEvent(req[r].event) /\ Answer(r, "not_found")
       \/ HasEvent(req[r].event) /\ Goto(r, "score_create")
    /\ UNCHANGED <<tables, counters>> /\ KeepHistory /\ NoFault

\* EventRepository.FindByID, of which every error is answered NOT_FOUND; then the
\* composite of a flagged score becomes 0.
RecordScoreEvent(r) ==
    LET e == req[r].event IN
    /\ req[r].pc = "score_event"
    /\ \/ Fault /\ Answer(r, "not_found")
       \/ NoFault /\ ~HasEvent(e) /\ Answer(r, "not_found")
       \/ NoFault /\ HasEvent(e) /\ events[e].session # req[r].session /\ Answer(r, "not_found")
       \/ /\ NoFault /\ HasEvent(e) /\ events[e].session = req[r].session
          /\ Become(r, [req[r] EXCEPT !.pc = "score_create",
                                      !.composite = IF req[r].safetyFlag THEN 0 ELSE @])
    /\ UNCHANGED <<tables, counters>> /\ KeepHistory

InsertScore(r) ==
    /\ scores' = [scores EXCEPT ![req[r].event] =
                     [safetyFlag |-> req[r].safetyFlag, composite |-> req[r].composite]]
    /\ scorer' = [scorer EXCEPT ![req[r].event] = req[r].user]

\* mutant: a second score replaces the first
RecordScoreUpsert(r) ==
    /\ req[r].pc = "score_create"
    /\ InsertScore(r) /\ Goto(r, "score_count")
    /\ UNCHANGED <<sessions, events, counters, acked>> /\ NoFault

\* mutant: the counter moves with the insert, whether it succeeds or not
RecordScoreCountsFirst(r) ==
    /\ req[r].pc = "score_create"
    /\ counters' = [counters EXCEPT ![req[r].model].score = @ + req[r].composite]
    /\ \/ Scored(req[r].event) /\ Answer(r, "conflict") /\ UNCHANGED <<scores, scorer>>
       \/ ~Scored(req[r].event) /\ Goto(r, "score_count") /\ InsertScore(r)
    /\ UNCHANGED <<sessions, events, acked>> /\ NoFault

\* ScoreRepository.Create: the UNIQUE event_id turns a second insert into CONFLICT.
RecordScoreCreate(r) ==
    /\ req[r].pc = "score_create"
    /\ \/ Fault /\ Answer(r, "internal") /\ UNCHANGED <<scores, scorer>>
       \/ NoFault /\ Scored(req[r].event) /\ Answer(r, "conflict") /\ UNCHANGED <<scores, scorer>>
       \/ /\ ~Scored(req[r].event) /\ InsertScore(r)
          /\ \/ Fault /\ Answer(r, "internal")
             \/ NoFault /\ Goto(r, "score_count")
    /\ UNCHANGED <<sessions, events, counters, acked>>

RecordScoreCount(r) ==
    /\ req[r].pc = "score_count"
    /\ counters' = [counters EXCEPT ![req[r].model].score = @ + req[r].composite]
    /\ acked' = [acked EXCEPT ![req[r].event] = @ + 1]
    /\ Answer(r, "created")
    /\ UNCHANGED <<tables, scorer>> /\ NoFault

-----------------------------------------------------------------------------
\* The process dies: the requests and the counters, which live in it, are gone.
Restart ==
    /\ Fault
    /\ req' = [r \in Req |-> Idle("none")]
    /\ counters' = NoCounts
    /\ UNCHANGED tables /\ KeepHistory

Start(r) ==
    \/ \E u \in User, m \in Model : CreateSessionStart(r, u, m)
    \/ \E u \in User, s \in Session, f \in BOOLEAN : RecordEventStart(r, u, s, f)
    \/ \E u \in User, s \in Session, e \in Event, f \in BOOLEAN, c \in 0..MaxComposite :
          RecordScoreStart(r, u, s, e, f, c)

Advance(r) ==
    \/ CreateSession(r)
    \/ RecordEventFind(r) \/ RecordEventCreate(r) \/ RecordEventCount(r)
    \/ RecordScoreFind(r) \/ RecordScoreEvent(r) \/ RecordScoreCreate(r) \/ RecordScoreCount(r)

Next == (\E r \in Req : Start(r) \/ Advance(r)) \/ Restart

Spec == Init /\ [][Next]_vars

-----------------------------------------------------------------------------
\* Properties

\* The user_id stored with an event is the owner of its session, and the score of an
\* event was recorded by that owner: record_event.go and record_score.go look at the
\* session they were given, record_score.go also at the session of the event.
RecordedByOwner ==
    /\ \A e \in Event : HasEvent(e) =>
          HasSession(events[e].session) /\ events[e].user = sessions[events[e].session].user
    /\ \A e \in Event : Scored(e) => HasEvent(e) /\ scorer[e] = events[e].user

\* However many requests score one event, at most one of them is answered 201, also
\* across crashes and lost answers (e2e.sh:478-484 sends two in sequence).
OneScoreAcknowledged ==
    /\ \A e \in Event : acked[e] <= 1 /\ (acked[e] = 1 => Scored(e))
    /\ \A r \in Req : req[r].pc = "score_count" =>
          Scored(req[r].event) /\ acked[req[r].event] = 0
    /\ \A q, r \in Req : req[q].pc = "score_count" /\ req[r].pc = "score_count"
                         /\ req[q].event = req[r].event => q = r

\* The first score stands: no later request, retry or restart changes it, and a row of
\* a session or an event is never changed either.
FirstScoreStands ==
    [][/\ \A e \in Event : (Scored(e) => scores'[e] = scores[e])
                        /\ (HasEvent(e) => events'[e] = events[e])
       /\ \A s \in Session : HasSession(s) => sessions'[s] = sessions[s]]_vars

Failed(m) == {e \in Event : HasEvent(e) /\ ModelOf(e) = m /\ events[e].failed}
Succeeded(m) == {e \in Event : HasEvent(e) /\ ModelOf(e) = m /\ ~events[e].failed}

\* The composites of a model, point by point: their sum is the number of points.
Points(m) == {p \in Event \X (1..MaxComposite) :
                 Scored(p[1]) /\ ModelOf(p[1]) = m /\ p[2] <= scores[p[1]].composite}
CompositeSum(m) == Cardinality(Points(m))

Counting == \E r \in Req : req[r].pc \in {"event_count", "score_count"}

\* What Prometheus shows of a model never exceeds what the tables hold of it, since a
\* counter moves after its insert, for the model of the session the event is in; and
\* without faults it is what they hold, except while somebody is about to count.
CountersFollow ==
    \A m \in Model :
        /\ counters[m].ok <= Cardinality(Succeeded(m))
        /\ counters[m].error <= Cardinality(Failed(m))
        /\ counters[m].score <= CompositeSum(m)
        /\ faults = 0 /\ ~Counting =>
              counters[m] = [ok |-> Cardinality(Succeeded(m)), error |-> Cardinality(Failed(m)),
                             score |-> CompositeSum(m)]
=============================================================================
