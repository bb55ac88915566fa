--------------------------- MODULE InferenceProofs ---------------------------
(***************************************************************************)
(* Theorems about Inference, for every set of users, sessions, events and  *)
(* goroutines and every bound.                                             *)
(***************************************************************************)
EXTENDS Inference, FiniteSetTheorems, TLAPS

-----------------------------------------------------------------------------
\* The inductive invariant

\* What a goroutine knows once it has looked at its session.
OwnSession(q) ==
    /\ HasSession(q.session) /\ sessions[q.session].user = q.user
    /\ q.user \in User /\ q.model \in Model /\ q.model = sessions[q.session].model

LocalOK(q) ==
    /\ q.pc = "session_create" => q.user \in User /\ q.model \in Model
    /\ q.pc \in {"event_find", "score_find"} => q.user \in User
    /\ q.pc \in {"event_create", "score_event", "score_create"} => OwnSession(q)
    /\ q.pc \in {"event_count", "score_count"} => q.model \in Model
    /\ q.pc \in {"score_find", "score_event", "score_create", "score_count"} => q.event \in Event
    /\ q.pc = "score_create" => HasEvent(q.event) /\ events[q.event].user = q.user
                                /\ events[q.event].session = q.session

LocalsOK == \A r \in Req : LocalOK(req[r])

IInv == TypeOK /\ LocalsOK /\ RecordedByOwner /\ OneScoreAcknowledged

-----------------------------------------------------------------------------
\* How a step changes the tables and one request

\* No row changes once it is there: the action of FirstScoreStands.
RowsStand ==
    /\ \A e \in Event : (Scored(e) => scores'[e] = scores[e])
                     /\ (HasEvent(e) => events'[e] = events[e])
    /\ \A s \in Session : HasSession(s) => sessions'[s] = sessions[s]

LEMMA IdleTyped ==
    ASSUME NEW code \in Reply
    PROVE  Idle(code) \in Request /\ Idle(code).pc = "idle"
BY InferenceBounds DEF Idle, Request, PC

LEMMA InitInvariant == Init => IInv
<1> SUFFICES ASSUME Init PROVE IInv
  OBVIOUS
<1>1. Idle("none") \in Request /\ Idle("none").pc = "idle"
  BY IdleTyped DEF Reply
<1>2. TypeOK
  BY <1>1 DEF Init, TypeOK, NoCounts
<1>3. LocalsOK
  BY <1>1 DEF Init, LocalsOK, LocalOK
<1>4. RecordedByOwner
  BY DEF Init, RecordedByOwner, HasEvent, Scored
<1>5. OneScoreAcknowledged
  BY <1>1 DEF Init, OneScoreAcknowledged
<1> QED BY <1>2, <1>3, <1>4, <1>5 DEF IInv

LEMMA SameTables ==
    ASSUME UNCHANGED tables
    PROVE  RowsStand
BY DEF tables, RowsStand

\* What the other goroutines know stays true of tables whose rows stand.
LEMMA LocalsStay ==
    ASSUME TypeOK, LocalsOK, RowsStand, NEW r \in Req, NEW q \in Request, Become(r, q), LocalOK(q)'
    PROVE  req' \in [Req -> Request] /\ LocalsOK'
<1>1. req' \in [Req -> Request] /\ \A x \in Req : req'[x] = IF x = r THEN q ELSE req[x]
  BY DEF TypeOK, Become
<1>2. /\ \A s \in Session : HasSession(s) => sessions'[s] = sessions[s]
      /\ \A e \in Event : HasEvent(e) => events'[e] = events[e]
  BY DEF RowsStand
<1>3. ASSUME NEW x \in Req
      PROVE  LocalOK(req[x])'
  <2>1. CASE x = r
    BY <1>1, <2>1
  <2>2. CASE x # r
    <3>1. req'[x] = req[x] /\ LocalOK(req[x])
      BY <1>1, <2>2 DEF LocalsOK
    <3> QED BY <3>1, <1>2 DEF LocalOK, OwnSession, HasSession, HasEvent
  <2> QED BY <2>1, <2>2
<1> QED BY <1>1, <1>3 DEF LocalsOK

\* A step that leaves the tables alone, other than the one that acknowledges a score.
LEMMA QuietStep ==
    ASSUME IInv, UNCHANGED tables, KeepHistory,
           counters' \in [Model -> [ok : Nat, error : Nat, score : Nat]], faults' \in Nat,
           NEW r \in Req, NEW q \in Request, Become(r, q), LocalOK(q), q.pc # "score_count"
    PROVE  IInv' /\ RowsStand
<1>1. RowsStand
  BY SameTables
<1>2. LocalOK(q)'
  BY DEF LocalOK, OwnSession, HasSession, HasEvent, tables
<1>3. req' \in [Req -> Request] /\ LocalsOK'
  BY <1>1, <1>2, LocalsStay DEF IInv
<1>4. TypeOK'
  BY <1>3 DEF IInv, TypeOK, tables, KeepHistory
<1>5. RecordedByOwner'
  BY DEF IInv, RecordedByOwner, tables, KeepHistory, HasEvent, HasSession, Scored
<1>6. \A x \in Req : req'[x].pc = "score_count" => req'[x] = req[x]
  BY DEF Become, IInv, TypeOK
<1>7. OneScoreAcknowledged'
  BY <1>6 DEF IInv, OneScoreAcknowledged, tables, KeepHistory, Scored
<1> QED BY <1>1, <1>3, <1>4, <1>5, <1>7 DEF IInv

LEMMA FaultTyped ==
    ASSUME TypeOK, NoFault \/ Fault
    PROVE  faults' \in Nat
BY DEF TypeOK, NoFault, Fault

\* A request is answered and nothing is written.
LEMMA QuietAnswer ==
    ASSUME IInv, UNCHANGED tables, KeepHistory, NoFault \/ Fault,
           counters' \in [Model -> [ok : Nat, error : Nat, score : Nat]],
           NEW r \in Req, NEW code \in Reply, Answer(r, code)
    PROVE  IInv' /\ RowsStand
<1>1. Idle(code) \in Request /\ LocalOK(Idle(code)) /\ Idle(code).pc # "score_count"
  BY IdleTyped DEF LocalOK
<1>2. faults' \in Nat
  BY FaultTyped DEF IInv
<1> QED BY <1>1, <1>2, QuietStep DEF Answer
-----------------------------------------------------------------------------
\* Steps that only read

LEMMA FindOwnSessionStep ==
    ASSUME IInv, NEW r \in Req, NEW next \in {"event_create", "score_event"},
           FindOwnSession(r, next), UNCHANGED <<tables, counters>>, KeepHistory,
           req[r].user \in User, next = "score_event" => req[r].event \in Event
    PROVE  IInv' /\ RowsStand
<1> DEFINE s == req[r].session
           q == [req[r] EXCEPT !.pc = next, !.model = sessions[s].model]
<1>0. /\ counters' \in [Model -> [ok : Nat, error : Nat, score : Nat]]
      /\ faults' \in Nat /\ (NoFault \/ Fault)
  BY FaultTyped DEF IInv, TypeOK, FindOwnSession
<1>1. CASE \E code \in {"internal", "not_found", "forbidden"} : Answer(r, code)
  BY <1>0, <1>1, QuietAnswer DEF Reply
<1>2. CASE HasSession(s) /\ sessions[s].user = req[r].user /\ Become(r, q)
  <2>1. sessions[s] \in SessionRow /\ sessions[s].model \in Model
    BY <1>2 DEF HasSession, IInv, TypeOK, SessionRow
  <2>2. /\ q \in Request /\ q.pc = next /\ q.session = s /\ q.user = req[r].user
        /\ q.event = req[r].event /\ q.model = sessions[s].model
    BY <2>1 DEF IInv, TypeOK, Request, PC
  <2> HIDE DEF q
  <2>3. LocalOK(q) /\ q.pc # "score_count"
    BY <1>2, <2>1, <2>2 DEF LocalOK, OwnSession
  <2> QED BY <1>0, <1>2, <2>2, <2>3, QuietStep
<1> QED BY <1>1, <1>2 DEF FindOwnSession

LEMMA StartStep ==
    ASSUME IInv, NEW r \in Req, Start(r)
    PROVE  IInv' /\ RowsStand
<1>0. counters \in [Model -> [ok : Nat, error : Nat, score : Nat]] /\ faults \in Nat
  BY DEF IInv, TypeOK
<1>4. Idle("none") \in Request
  BY IdleTyped DEF Reply
<1>1. ASSUME NEW u \in User, NEW m \in Model, CreateSessionStart(r, u, m)
      PROVE  IInv' /\ RowsStand
  <2> DEFINE q == [Idle("none") EXCEPT !.pc = "session_create", !.user = u, !.model = m]
  <2>1. q \in Request /\ q.pc = "session_create" /\ q.user = u /\ q.model = m
    BY <1>4 DEF Request, PC
  <2>2. Become(r, q) /\ UNCHANGED <<tables, counters>> /\ KeepHistory /\ NoFault
    BY <1>1 DEF CreateSessionStart
  <2> HIDE DEF q
  <2> QED BY <1>0, <2>1, <2>2, QuietStep DEF LocalOK, NoFault
<1>2. ASSUME NEW u \in User, NEW s \in Session, NEW f \in BOOLEAN, RecordEventStart(r, u, s, f)
      PROVE  IInv' /\ RowsStand
  <2> DEFINE q == [Idle("none") EXCEPT !.pc = "event_find", !.user = u, !.session = s,
                                       !.failed = f]
  <2>1. q \in Request /\ q.pc = "event_find" /\ q.user = u
    BY <1>4 DEF Request, PC
  <2>2. Become(r, q) /\ UNCHANGED <<tables, counters>> /\ KeepHistory /\ NoFault
    BY <1>2 DEF RecordEventStart
  <2> HIDE DEF q
  <2> QED BY <1>0, <2>1, <2>2, QuietStep DEF LocalOK, NoFault
<1>3. ASSUME NEW u \in User, NEW s \in Session, NEW e \in Event, NEW f \in BOOLEAN,
             NEW c \in 0..MaxComposite, RecordScoreStart(r, u, s, e, f, c)
      PROVE  IInv' /\ RowsStand
  <2> DEFINE q == [Idle("none") EXCEPT !.pc = "score_find", !.user = u, !.session = s,
                       !.event = e, !.safetyFlag = f, !.composite = c]
  <2>1. q \in Request /\ q.pc = "score_find" /\ q.user = u /\ q.event = e
    BY <1>4 DEF Request, PC
  <2>2. Become(r, q) /\ UNCHANGED <<tables, counters>> /\ KeepHistory /\ NoFault
    BY <1>3 DEF RecordScoreStart
  <2> HIDE DEF q
  <2> QED BY <1>0, <2>1, <2>2, QuietStep DEF LocalOK, NoFault
<1> QED BY <1>1, <1>2, <1>3 DEF Start

LEMMA RecordScoreEventStep ==
    ASSUME IInv, NEW r \in Req, RecordScoreEvent(r)
    PROVE  IInv' /\ RowsStand
<1> DEFINE e == req[r].event
           q == [req[r] EXCEPT !.pc = "score_create",
                               !.composite = IF req[r].safetyFlag THEN 0 ELSE @]
<1>0. /\ counters' \in [Model -> [ok : Nat, error : Nat, score : Nat]]
      /\ faults' \in Nat /\ (NoFault \/ Fault) /\ UNCHANGED tables /\ KeepHistory
  BY FaultTyped DEF IInv, TypeOK, RecordScoreEvent
<1>1. CASE Answer(r, "not_found")
  BY <1>0, <1>1, QuietAnswer DEF Reply
<1>2. CASE HasEvent(e) /\ events[e].session = req[r].session /\ Become(r, q)
  <2>1. OwnSession(req[r]) /\ e \in Event
    BY DEF RecordScoreEvent, IInv, LocalsOK, LocalOK
  <2>2. /\ q \in Request /\ q.pc = "score_create" /\ q.session = req[r].session
        /\ q.user = req[r].user /\ q.event = e /\ q.model = req[r].model
    <3>1. req[r] \in Request
      BY DEF IInv, TypeOK
    <3>2. (IF req[r].safetyFlag THEN 0 ELSE req[r].composite) \in 0..MaxComposite
      BY <3>1, InferenceBounds DEF Request
    <3> QED BY <3>1, <3>2 DEF Request, PC
  <2> HIDE DEF q
  <2>3. events[e].user = req[r].user
    BY <1>2, <2>1 DEF IInv, RecordedByOwner, OwnSession
  <2>4. LocalOK(q) /\ q.pc # "score_count"
    BY <1>2, <2>1, <2>2, <2>3 DEF LocalOK, OwnSession
  <2> QED BY <1>0, <1>2, <2>2, <2>4, QuietStep
<1> QED BY <1>1, <1>2 DEF RecordScoreEvent

LEMMA RecordEventCountStep ==
    ASSUME IInv, NEW r \in Req, RecordEventCount(r)
    PROVE  IInv' /\ RowsStand
<1>1. req[r].model \in Model
  BY DEF RecordEventCount, IInv, LocalsOK, LocalOK
<1>2. counters' \in [Model -> [ok : Nat, error : Nat, score : Nat]]
  BY <1>1 DEF RecordEventCount, IInv, TypeOK
<1> QED BY <1>2, QuietAnswer DEF RecordEventCount, Reply

-----------------------------------------------------------------------------
\* Steps that insert a row or acknowledge one

LEMMA CreateSessionStep ==
    ASSUME IInv, NEW r \in Req, CreateSession(r)
    PROVE  IInv' /\ RowsStand
<1>0. /\ counters' \in [Model -> [ok : Nat, error : Nat, score : Nat]]
      /\ faults' \in Nat /\ (NoFault \/ Fault)
      /\ UNCHANGED <<events, scores, counters>> /\ KeepHistory
  BY FaultTyped DEF IInv, TypeOK, CreateSession
<1>1. PICK code \in {"internal", "created"} : Answer(r, code)
  BY DEF CreateSession
<1>2. CASE UNCHANGED sessions
  BY <1>0, <1>1, <1>2, QuietAnswer DEF Reply, tables
<1>3. ASSUME NEW s \in Session, sessions[s] = None,
             sessions' = [sessions EXCEPT ![s] = [user |-> req[r].user, model |-> req[r].model]]
      PROVE  IInv' /\ RowsStand
  <2>1. req[r].user \in User /\ req[r].model \in Model
    BY DEF CreateSession, IInv, LocalsOK, LocalOK
  <2>2. sessions' \in [Session -> SessionRow \cup {None}]
    BY <1>3, <2>1 DEF IInv, TypeOK, SessionRow
  <2>3. RowsStand
    BY <1>0, <1>3 DEF RowsStand, HasSession, IInv, TypeOK
  <2>4. Idle(code) \in Request /\ Idle(code).pc = "idle"
    BY IdleTyped DEF Reply
  <2>5. LocalOK(Idle(code))'
    BY <2>4 DEF LocalOK
  <2>6. req' \in [Req -> Request] /\ LocalsOK'
    BY <1>1, <2>3, <2>4, <2>5, LocalsStay DEF Answer, IInv
  <2>7. TypeOK'
    BY <1>0, <2>2, <2>6 DEF IInv, TypeOK, KeepHistory
  <2>8. RecordedByOwner'
    BY <1>0, <2>3 DEF IInv, RecordedByOwner, RowsStand, HasEvent, HasSession, Scored, KeepHistory
  <2>9. \A x \in Req : req'[x].pc = "score_count" => req'[x] = req[x]
    BY <1>1, <2>4 DEF Answer, Become, IInv, TypeOK
  <2>10. OneScoreAcknowledged'
    BY <1>0, <2>9 DEF IInv, OneScoreAcknowledged, KeepHistory, Scored
  <2> QED BY <2>3, <2>6, <2>7, <2>8, <2>10 DEF IInv
<1> QED BY <1>2, <1>3 DEF CreateSession

LEMMA RecordEventCreateStep ==
    ASSUME IInv, NEW r \in Req, RecordEventCreate(r)
    PROVE  IInv' /\ RowsStand
<1>0. /\ counters' \in [Model -> [ok : Nat, error : Nat, score : Nat]]
      /\ faults' \in Nat /\ (NoFault \/ Fault)
      /\ UNCHANGED <<sessions, scores, counters>> /\ KeepHistory
  BY FaultTyped DEF IInv, TypeOK, RecordEventCreate
<1>1. OwnSession(req[r]) /\ req[r].session \in Session
  BY DEF RecordEventCreate, IInv, LocalsOK, LocalOK, OwnSession, HasSession
<1>2. CASE Answer(r, "internal") /\ UNCHANGED events
  BY <1>0, <1>2, QuietAnswer DEF Reply, tables
<1>3. ASSUME NEW e \in Event, events[e] = None,
             events' = [events EXCEPT ![e] = [session |-> req[r].session,
                            user |-> req[r].user, failed |-> req[r].failed]],
             NEW q \in Request, Become(r, q), q.pc \in {"idle", "event_count"},
             q.pc = "event_count" => q.model \in Model
      PROVE  IInv' /\ RowsStand
  <2>1. [session |-> req[r].session, user |-> req[r].user, failed |-> req[r].failed] \in EventRow
    BY <1>1 DEF OwnSession, IInv, TypeOK, Request, EventRow
  <2>2. events' \in [Event -> EventRow \cup {None}]
    BY <1>3, <2>1 DEF IInv, TypeOK
  <2>3. RowsStand
    BY <1>0, <1>3 DEF RowsStand, HasEvent, IInv, TypeOK
  <2>4. LocalOK(q)'
    BY <1>3 DEF LocalOK
  <2>5. req' \in [Req -> Request] /\ LocalsOK'
    BY <1>3, <2>3, <2>4, LocalsStay DEF IInv
  <2>6. TypeOK'
    BY <1>0, <2>2, <2>5 DEF IInv, TypeOK, KeepHistory
  <2>7. \A x \in Event : x # e => events'[x] = events[x]
    BY <1>3 DEF IInv, TypeOK
  <2>8. events'[e].session = req[r].session /\ events'[e].user = req[r].user
    BY <1>3 DEF IInv, TypeOK
  <2>9. ~Scored(e)
    BY <1>3 DEF IInv, RecordedByOwner, HasEvent
  <2>10. RecordedByOwner'
    BY <1>0, <1>1, <2>7, <2>8, <2>9
    DEF IInv, RecordedByOwner, HasEvent, HasSession, Scored, OwnSession, KeepHistory
  <2>11. \A x \in Req : req'[x].pc = "score_count" => req'[x] = req[x]
    BY <1>3 DEF Become, IInv, TypeOK
  <2>12. OneScoreAcknowledged'
    BY <1>0, <2>11 DEF IInv, OneScoreAcknowledged, KeepHistory, Scored
  <2> QED BY <2>3, <2>5, <2>6, <2>10, <2>12 DEF IInv
<1>4. ASSUME NEW e \in Event, events[e] = None,
             events' = [events EXCEPT ![e] = [session |-> req[r].session,
                            user |-> req[r].user, failed |-> req[r].failed]],
             \/ Answer(r, "internal")
             \/ Become(r, [req[r] EXCEPT !.pc = "event_count", !.event = e])
      PROVE  IInv' /\ RowsStand
  <2>1. CASE Answer(r, "internal")
    <3>1. Idle("internal") \in Request /\ Idle("internal").pc = "idle"
      BY IdleTyped DEF Reply
    <3> QED BY <1>3, <1>4, <2>1, <3>1 DEF Answer
  <2>2. CASE Become(r, [req[r] EXCEPT !.pc = "event_count", !.event = e])
    <3> DEFINE q == [req[r] EXCEPT !.pc = "event_count", !.event = e]
    <3>1. q \in Request /\ q.pc = "event_count" /\ q.model = req[r].model
      BY DEF IInv, TypeOK, Request, PC
    <3>2. q.model \in Model
      BY <1>1, <3>1 DEF OwnSession
    <3> HIDE DEF q
    <3> QED BY <1>3, <1>4, <2>2, <3>1, <3>2 DEF q
  <2> QED BY <1>4, <2>1, <2>2
<1> QED BY <1>2, <1>4 DEF RecordEventCreate

-----------------------------------------------------------------------------
\* The steps of a score

\* The insert of a score: the goroutine goes on to answer 201, or is answered with a lost error.
LEMMA InsertScoreStep ==
    ASSUME IInv, NEW r \in Req, req[r].pc = "score_create", ~Scored(req[r].event),
           InsertScore(r), UNCHANGED <<sessions, events, counters, acked>>,
           NEW q \in Request, Become(r, q), faults' \in Nat, q.pc \in {"idle", "score_count"},
           q.pc = "score_count" => q.event = req[r].event /\ q.model = req[r].model
    PROVE  IInv' /\ RowsStand
<1> DEFINE e == req[r].event
<1>1. OwnSession(req[r]) /\ e \in Event /\ HasEvent(e) /\ events[e].user = req[r].user
  BY DEF IInv, LocalsOK, LocalOK
<1>2. req[r].user \in User /\ req[r].model \in Model
  BY <1>1 DEF OwnSession
<1>3. /\ scores' = [scores EXCEPT ![e] = [safetyFlag |-> req[r].safetyFlag,
                                          composite |-> req[r].composite]]
      /\ scorer' = [scorer EXCEPT ![e] = req[r].user]
  BY DEF InsertScore
<1>4. [safetyFlag |-> req[r].safetyFlag, composite |-> req[r].composite] \in ScoreRow
  BY DEF IInv, TypeOK, Request, ScoreRow
<1>5. /\ scores' \in [Event -> ScoreRow \cup {None}] /\ scorer' \in [Event -> User \cup {None}]
      /\ \A f \in Event : f # e => scores'[f] = scores[f] /\ scorer'[f] = scorer[f]
      /\ scores'[e] # None /\ scorer'[e] = req[r].user
  BY <1>1, <1>2, <1>3, <1>4, NoneIsNone DEF IInv, TypeOK
<1>6. RowsStand
  BY <1>1, <1>5 DEF RowsStand, Scored
<1>7. LocalOK(q)'
  BY <1>1, <1>2 DEF LocalOK
<1>8. req' \in [Req -> Request] /\ LocalsOK'
  BY <1>6, <1>7, LocalsStay DEF IInv
<1>9. TypeOK'
  BY <1>5, <1>8 DEF IInv, TypeOK
<1>10. RecordedByOwner'
  BY <1>1, <1>5 DEF IInv, RecordedByOwner, HasEvent, HasSession, Scored
<1>11. /\ \A x \in Req : x # r => req'[x] = req[x]
       /\ req'[r] = q
  BY DEF Become, IInv, TypeOK
<1>12. \A x \in Req : req[x].pc = "score_count" => req[x].event # e
  BY <1>1 DEF IInv, OneScoreAcknowledged
<1>13. acked[e] = 0
  <2>1. acked[e] \in Nat
    BY <1>1 DEF IInv, TypeOK
  <2>2. acked[e] <= 1 /\ acked[e] # 1
    BY <1>1 DEF IInv, OneScoreAcknowledged
  <2> QED BY <2>1, <2>2
<1>14. \A f \in Event : Scored(f) => Scored(f)'
  BY <1>6, <1>5 DEF Scored
<1>15. /\ \A f \in Event : acked'[f] <= 1 /\ (acked'[f] = 1 => Scored(f)')
       /\ \A x \in Req : req'[x].pc = "score_count" =>
              Scored(req[x].event)' /\ acked'[req'[x].event] = 0
       /\ \A x, y \in Req : req'[x].pc = "score_count" /\ req'[y].pc = "score_count"
                            /\ req'[x].event = req'[y].event => x = y
  BY <1>1, <1>5, <1>11, <1>12, <1>13, <1>14 DEF IInv, OneScoreAcknowledged, Scored
<1>16. OneScoreAcknowledged'
  BY <1>15 DEF OneScoreAcknowledged
<1> QED BY <1>6, <1>8, <1>9, <1>10, <1>16 DEF IInv

LEMMA RecordScoreCreateStep ==
    ASSUME IInv, NEW r \in Req, RecordScoreCreate(r)
    PROVE  IInv' /\ RowsStand
<1>0. /\ req[r].pc = "score_create" /\ UNCHANGED <<sessions, events, counters, acked>>
      /\ counters' \in [Model -> [ok : Nat, error : Nat, score : Nat]]
      /\ NoFault \/ Fault => faults' \in Nat
  BY FaultTyped DEF IInv, TypeOK, RecordScoreCreate
<1>1. ASSUME NEW code \in Reply, Answer(r, code), UNCHANGED <<scores, scorer>>, NoFault \/ Fault
      PROVE  IInv' /\ RowsStand
  BY <1>0, <1>1, QuietAnswer DEF tables, KeepHistory
<1>2. CASE ~Scored(req[r].event) /\ InsertScore(r) /\ Fault /\ Answer(r, "internal")
  <2>1. Idle("internal") \in Request /\ Idle("internal").pc = "idle"
    BY IdleTyped DEF Reply
  <2> QED BY <1>0, <1>2, <2>1, InsertScoreStep DEF Answer
<1>3. CASE ~Scored(req[r].event) /\ InsertScore(r) /\ NoFault /\ Goto(r, "score_count")
  <2> DEFINE q == [req[r] EXCEPT !.pc = "score_count"]
  <2>1. /\ q \in Request /\ q.pc = "score_count" /\ q.event = req[r].event
        /\ q.model = req[r].model
    BY DEF IInv, TypeOK, Request, PC
  <2>2. Become(r, q)
    BY <1>3 DEF Goto
  <2> HIDE DEF q
  <2> QED BY <1>0, <1>3, <2>1, <2>2, InsertScoreStep
<1> QED BY <1>1, <1>2, <1>3 DEF RecordScoreCreate, Reply

LEMMA RecordScoreCountStep ==
    ASSUME IInv, NEW r \in Req, RecordScoreCount(r)
    PROVE  IInv' /\ RowsStand
<1> DEFINE e == req[r].event
<1>1. /\ e \in Event /\ req[r].model \in Model /\ Scored(e) /\ acked[e] = 0
      /\ req[r].pc = "score_count" /\ req[r].composite \in Nat
  BY InferenceBounds DEF RecordScoreCount, IInv, LocalsOK, LocalOK, OneScoreAcknowledged, TypeOK, Request
<1>2. counters' \in [Model -> [ok : Nat, error : Nat, score : Nat]]
  BY <1>1 DEF RecordScoreCount, IInv, TypeOK
<1>3. RowsStand
  BY SameTables DEF RecordScoreCount
<1>4. Idle("created") \in Request /\ Idle("created").pc = "idle"
  BY IdleTyped DEF Reply
<1>5. LocalOK(Idle("created"))'
  BY <1>4 DEF LocalOK
<1>6. req' \in [Req -> Request] /\ LocalsOK'
  BY <1>3, <1>4, <1>5, LocalsStay DEF RecordScoreCount, Answer, IInv
<1>7. /\ acked' \in [Event -> Nat] /\ acked'[e] = 1
      /\ \A f \in Event : f # e => acked'[f] = acked[f]
  BY <1>1 DEF RecordScoreCount, IInv, TypeOK
<1>8. TypeOK'
  BY <1>2, <1>6, <1>7 DEF RecordScoreCount, IInv, TypeOK, tables, NoFault
<1>9. RecordedByOwner'
  BY DEF RecordScoreCount, IInv, RecordedByOwner, tables, HasEvent, HasSession, Scored
<1>10. /\ \A x \in Req : req'[x].pc = "score_count" => x # r /\ req'[x] = req[x]
       /\ UNCHANGED scores
  BY <1>4 DEF RecordScoreCount, Answer, Become, IInv, TypeOK, tables
<1>11. \A x \in Req : req'[x].pc = "score_count" => req[x].event \in Event /\ req[x].event # e
  BY <1>1, <1>10 DEF IInv, OneScoreAcknowledged, Scored
<1>12. OneScoreAcknowledged'
  BY <1>1, <1>7, <1>10, <1>11 DEF IInv, OneScoreAcknowledged, Scored
<1> QED BY <1>3, <1>6, <1>8, <1>9, <1>12 DEF IInv

-----------------------------------------------------------------------------
\* Every step

LEMMA RestartStep ==
    ASSUME IInv, Restart
    PROVE  IInv' /\ RowsStand
<1>1. Idle("none") \in Request /\ Idle("none").pc = "idle"
  BY IdleTyped DEF Reply
<1>2. req' \in [Req -> Request] /\ \A r \in Req : req'[r].pc = "idle"
  BY <1>1 DEF Restart
<1>3. TypeOK'
  BY <1>2 DEF Restart, IInv, TypeOK, tables, KeepHistory, NoCounts, Fault
<1>4. LocalsOK'
  BY <1>2 DEF LocalsOK, LocalOK
<1>5. RecordedByOwner'
  BY DEF Restart, IInv, RecordedByOwner, tables, KeepHistory, HasEvent, HasSession, Scored
<1>6. OneScoreAcknowledged'
  BY <1>2 DEF Restart, IInv, OneScoreAcknowledged, tables, KeepHistory, Scored
<1>7. RowsStand
  BY SameTables DEF Restart
<1> QED BY <1>3, <1>4, <1>5, <1>6, <1>7 DEF IInv

LEMMA AdvanceStep ==
    ASSUME IInv, NEW r \in Req, Advance(r)
    PROVE  IInv' /\ RowsStand
<1>1. CASE RecordEventFind(r)
  <2>1. req[r].user \in User
    BY <1>1 DEF RecordEventFind, IInv, LocalsOK, LocalOK
  <2> QED BY <1>1, <2>1, FindOwnSessionStep DEF RecordEventFind
<1>2. CASE RecordScoreFind(r)
  <2>1. req[r].user \in User /\ req[r].event \in Event
    BY <1>2 DEF RecordScoreFind, IInv, LocalsOK, LocalOK
  <2> QED BY <1>2, <2>1, FindOwnSessionStep DEF RecordScoreFind
<1> QED
  BY <1>1, <1>2, CreateSessionStep, RecordEventCreateStep, RecordEventCountStep,
     RecordScoreEventStep, RecordScoreCreateStep, RecordScoreCountStep DEF Advance

LEMMA NextStep ==
    ASSUME IInv, [Next]_vars
    PROVE  IInv' /\ (Next => RowsStand)
<1>1. CASE Next
  BY <1>1, StartStep, AdvanceStep, RestartStep DEF Next
<1>2. CASE UNCHANGED vars
  <2>1. RowsStand
    BY <1>2 DEF vars, tables, RowsStand
  <2>2. IInv'
    BY <1>2 DEF vars, tables, IInv, TypeOK, LocalsOK, LocalOK, OwnSession, HasSession, HasEvent,
                RecordedByOwner, Scored, OneScoreAcknowledged
  <2> QED BY <2>1, <2>2
<1> QED BY <1>1, <1>2

LEMMA InvariantHolds == Spec => []IInv
<1>1. Init => IInv
  BY InitInvariant
<1>2. IInv /\ [Next]_vars => IInv'
  BY NextStep
<1> QED BY <1>1, <1>2, PTL DEF Spec

-----------------------------------------------------------------------------
\* The counters and the rows

\* c has been counted, W is about to be, S are the rows; nothing is counted twice, and
\* with nothing lost everything is.
Balanced(c, W, S, lost) ==
    /\ c + Cardinality(W) <= Cardinality(S)
    /\ lost = 0 => c + Cardinality(W) = Cardinality(S)

Status(q) == IF q.failed THEN "error" ELSE "ok"

ToCount(m, status) ==
    {r \in Req : req[r].pc = "event_count" /\ req[r].model = m /\ Status(req[r]) = status}

PointsToCount(m) ==
    {p \in Req \X (1..MaxComposite) :
        req[p[1]].pc = "score_count" /\ req[p[1]].model = m /\ p[2] <= req[p[1]].composite}

CountersOK ==
    \A m \in Model :
        /\ Balanced(counters[m].ok, ToCount(m, "ok"), Succeeded(m), faults)
        /\ Balanced(counters[m].error, ToCount(m, "error"), Failed(m), faults)
        /\ Balanced(counters[m].score, PointsToCount(m), Points(m), faults)

LEMMA LedgersFinite ==
    ASSUME NEW m
    PROVE  /\ \A f : IsFiniteSet(ToCount(m, f))
           /\ IsFiniteSet(PointsToCount(m)) /\ IsFiniteSet(Points(m))
           /\ IsFiniteSet(Succeeded(m)) /\ IsFiniteSet(Failed(m))
<1>1. IsFiniteSet(1..MaxComposite)
  BY FS_Interval, InferenceBounds
<1>2. IsFiniteSet(Event \X (1..MaxComposite)) /\ IsFiniteSet(Req \X (1..MaxComposite))
  BY <1>1, FS_Product, FiniteAssumption
<1>3. /\ \A f : ToCount(m, f) \in SUBSET Req
      /\ PointsToCount(m) \in SUBSET (Req \X (1..MaxComposite))
      /\ Points(m) \in SUBSET (Event \X (1..MaxComposite))
      /\ Succeeded(m) \in SUBSET Event /\ Failed(m) \in SUBSET Event
  BY DEF ToCount, PointsToCount, Points, Succeeded, Failed
<1> QED BY <1>2, <1>3, FS_Subset, FiniteAssumption

LEMMA LedgersFiniteNext ==
    ASSUME NEW m
    PROVE  /\ \A f : IsFiniteSet(ToCount(m, f)')
           /\ IsFiniteSet(PointsToCount(m)') /\ IsFiniteSet(Points(m)')
           /\ IsFiniteSet(Succeeded(m)') /\ IsFiniteSet(Failed(m)')
<1>1. IsFiniteSet(1..MaxComposite)
  BY FS_Interval, InferenceBounds
<1>2. IsFiniteSet(Event \X (1..MaxComposite)) /\ IsFiniteSet(Req \X (1..MaxComposite))
  BY <1>1, FS_Product, FiniteAssumption
<1>3. /\ \A f : ToCount(m, f)' \in SUBSET Req
      /\ PointsToCount(m)' \in SUBSET (Req \X (1..MaxComposite))
      /\ Points(m)' \in SUBSET (Event \X (1..MaxComposite))
      /\ Succeeded(m)' \in SUBSET Event /\ Failed(m)' \in SUBSET Event
  BY DEF ToCount, PointsToCount, Points, Succeeded, Failed
<1> QED BY <1>2, <1>3, FS_Subset, FiniteAssumption

\* Rows A are inserted, and B are as many still to be counted.
LEMMA BalancedInsert ==
    ASSUME NEW c \in Nat, NEW W, NEW S, NEW A, NEW B, NEW lost, Balanced(c, W, S, lost),
           IsFiniteSet(W), IsFiniteSet(S), IsFiniteSet(A), IsFiniteSet(B),
           A \cap S = {}, B \cap W = {}, Cardinality(A) = Cardinality(B)
    PROVE  Balanced(c, W \cup B, S \cup A, lost)
<1>1. /\ Cardinality(W \cup B) = Cardinality(W) + Cardinality(B)
      /\ Cardinality(S \cup A) = Cardinality(S) + Cardinality(A)
  <2>1. W \cap B = {} /\ S \cap A = {}
    OBVIOUS
  <2>2. /\ Cardinality(W \cup B) = Cardinality(W) + Cardinality(B) - Cardinality(W \cap B)
        /\ Cardinality(S \cup A) = Cardinality(S) + Cardinality(A) - Cardinality(S \cap A)
    BY FS_Union
  <2>3. Cardinality(W \cap B) = 0 /\ Cardinality(S \cap A) = 0
    BY <2>1, FS_EmptySet
  <2>4. /\ Cardinality(W) \in Nat /\ Cardinality(S) \in Nat
        /\ Cardinality(A) \in Nat /\ Cardinality(B) \in Nat
    BY FS_CardinalityType
  <2> QED BY <2>2, <2>3, <2>4
<1>2. Cardinality(W) \in Nat /\ Cardinality(S) \in Nat /\ Cardinality(A) \in Nat
  BY FS_CardinalityType
<1> QED BY <1>1, <1>2 DEF Balanced

\* B is counted.
LEMMA BalancedCount ==
    ASSUME NEW c \in Nat, NEW W, NEW S, NEW B, NEW n, NEW lost, Balanced(c, W, S, lost),
           IsFiniteSet(W), IsFiniteSet(S), B \subseteq W, n = Cardinality(B)
    PROVE  Balanced(c + n, W \ B, S, lost)
<1>1. W \cap B = B /\ IsFiniteSet(B)
  BY FS_Subset
<1>2. Cardinality(W \ B) = Cardinality(W) - n
  BY <1>1, FS_Difference
<1>3. Cardinality(W) \in Nat /\ Cardinality(S) \in Nat /\ n \in Nat
  BY <1>1, FS_CardinalityType
<1> QED BY <1>2, <1>3 DEF Balanced

\* After a fault, the counters may lag behind for good.
LEMMA BalancedLoss ==
    ASSUME NEW c \in Nat, NEW W, NEW S, NEW T, NEW lost, Balanced(c, W, S, lost),
           IsFiniteSet(W), IsFiniteSet(T), S \subseteq T, NEW more, more # 0
    PROVE  Balanced(c, W, T, more)
<1>1. IsFiniteSet(S) /\ Cardinality(S) <= Cardinality(T)
  BY FS_Subset
<1>2. Cardinality(W) \in Nat /\ Cardinality(S) \in Nat /\ Cardinality(T) \in Nat
  BY <1>1, FS_CardinalityType
<1> QED BY <1>1, <1>2 DEF Balanced

LEMMA CountersTyped ==
    ASSUME TypeOK, NEW m \in Model
    PROVE  counters[m].ok \in Nat /\ counters[m].error \in Nat /\ counters[m].score \in Nat
BY DEF TypeOK

\* Rows that stand stay where they are counted.
LEMMA RowsStayCounted ==
    ASSUME IInv, RowsStand, NEW m
    PROVE  /\ Succeeded(m) \subseteq Succeeded(m)' /\ Failed(m) \subseteq Failed(m)'
           /\ Points(m) \subseteq Points(m)'
<1>1. ASSUME NEW e \in Event, HasEvent(e)
      PROVE  HasEvent(e)' /\ events'[e] = events[e] /\ ModelOf(e)' = ModelOf(e)
  BY <1>1 DEF RowsStand, IInv, RecordedByOwner, HasEvent, HasSession, ModelOf
<1>2. ASSUME NEW e \in Event, Scored(e)
      PROVE  Scored(e)' /\ scores'[e] = scores[e] /\ HasEvent(e)
  BY <1>2 DEF RowsStand, IInv, RecordedByOwner, Scored
<1> QED BY <1>1, <1>2 DEF Succeeded, Failed, Points

\* And no row of an event is counted anew unless it was inserted.
LEMMA RowsUnchanged ==
    ASSUME IInv, RowsStand, NEW m
    PROVE  /\ UNCHANGED events => Succeeded(m)' = Succeeded(m) /\ Failed(m)' = Failed(m)
           /\ UNCHANGED scores => Points(m)' = Points(m)
<1>1. ASSUME NEW e \in Event, HasEvent(e)
      PROVE  events'[e] = events[e] /\ ModelOf(e)' = ModelOf(e)
  BY <1>1 DEF RowsStand, IInv, RecordedByOwner, HasEvent, HasSession, ModelOf
<1>2. ASSUME UNCHANGED events
      PROVE  Succeeded(m)' = Succeeded(m) /\ Failed(m)' = Failed(m)
  BY <1>1, <1>2 DEF Succeeded, Failed, HasEvent
<1>3. ASSUME UNCHANGED scores
      PROVE  Points(m)' = Points(m)
  <2>1. \A e \in Event : (Scored(e)' <=> Scored(e)) /\ (Scored(e) => HasEvent(e))
    BY <1>3 DEF Scored, IInv, RecordedByOwner
  <2> QED BY <1>1, <1>3, <2>1 DEF Points
<1> QED BY <1>2, <1>3

\* A goroutine that counts nothing, before and after its step, changes nothing of what
\* there is to count.
LEMMA NothingToCount ==
    ASSUME NEW r \in Req, \A x \in Req : x # r => req'[x] = req[x],
           req[r].pc \notin {"event_count", "score_count"},
           req'[r].pc \notin {"event_count", "score_count"}, NEW m
    PROVE  /\ \A f : ToCount(m, f)' = ToCount(m, f)
           /\ PointsToCount(m)' = PointsToCount(m)
<1>1. ASSUME NEW x \in Req
      PROVE  /\ req'[x].pc = "event_count" <=> req[x].pc = "event_count"
             /\ req'[x].pc = "score_count" <=> req[x].pc = "score_count"
             /\ req[x].pc \in {"event_count", "score_count"} => req'[x] = req[x]
  OBVIOUS
<1> QED BY <1>1 DEF ToCount, PointsToCount

\* A step that counts nothing and inserts nothing, or that fails.
LEMMA QuietLedger ==
    ASSUME IInv, CountersOK, RowsStand, UNCHANGED counters,
           NEW r \in Req, \A x \in Req : x # r => req'[x] = req[x],
           req[r].pc \notin {"event_count", "score_count"},
           req'[r].pc \notin {"event_count", "score_count"},
           \/ NoFault /\ UNCHANGED <<events, scores>>
           \/ Fault
    PROVE  CountersOK'
<1> SUFFICES ASSUME NEW m \in Model
             PROVE  /\ Balanced(counters[m].ok, ToCount(m, "ok")', Succeeded(m)', faults')
                    /\ Balanced(counters[m].error, ToCount(m, "error")', Failed(m)', faults')
                    /\ Balanced(counters[m].score, PointsToCount(m)', Points(m)', faults')
  BY DEF CountersOK
<1>1. /\ ToCount(m, "ok")' = ToCount(m, "ok") /\ ToCount(m, "error")' = ToCount(m, "error")
      /\ PointsToCount(m)' = PointsToCount(m)
  BY NothingToCount
<1>2. /\ Balanced(counters[m].ok, ToCount(m, "ok"), Succeeded(m), faults)
      /\ Balanced(counters[m].error, ToCount(m, "error"), Failed(m), faults)
      /\ Balanced(counters[m].score, PointsToCount(m), Points(m), faults)
  BY DEF CountersOK
<1>3. CASE NoFault /\ UNCHANGED <<events, scores>>
  BY <1>1, <1>2, <1>3, RowsUnchanged DEF NoFault
<1>4. CASE Fault
  <2>1. faults' # 0
    BY <1>4 DEF Fault, IInv, TypeOK
  <2>2. /\ Succeeded(m) \subseteq Succeeded(m)' /\ Failed(m) \subseteq Failed(m)'
        /\ Points(m) \subseteq Points(m)'
    BY RowsStayCounted
  <2>3. counters[m].ok \in Nat /\ counters[m].error \in Nat /\ counters[m].score \in Nat
    BY CountersTyped DEF IInv
  <2>4. /\ Balanced(counters[m].ok, ToCount(m, "ok"), Succeeded(m)', faults')
        /\ Balanced(counters[m].error, ToCount(m, "error"), Failed(m)', faults')
        /\ Balanced(counters[m].score, PointsToCount(m), Points(m)', faults')
    BY <1>2, <2>1, <2>2, <2>3, BalancedLoss, LedgersFinite, LedgersFiniteNext
  <2> QED BY <1>1, <2>1, <2>4
<1> QED BY <1>3, <1>4

LEMMA StartLedger ==
    ASSUME IInv, CountersOK, NEW r \in Req, Start(r)
    PROVE  CountersOK'
<1>1. RowsStand
  BY StartStep
<1>2. req[r].pc = "idle" /\ UNCHANGED <<tables, counters>> /\ NoFault
  BY DEF Start, CreateSessionStart, RecordEventStart, RecordScoreStart
<1>3. \A x \in Req : x # r => req'[x] = req[x]
  BY DEF Start, CreateSessionStart, RecordEventStart, RecordScoreStart, Become, IInv, TypeOK
<1>4. req'[r].pc \in {"session_create", "event_find", "score_find"}
  <2>1. ASSUME NEW u \in User, NEW m \in Model, CreateSessionStart(r, u, m)
        PROVE  req'[r].pc = "session_create"
    BY <2>1 DEF CreateSessionStart, Idle, Become, IInv, TypeOK
  <2>2. ASSUME NEW u \in User, NEW s \in Session, NEW f \in BOOLEAN, RecordEventStart(r, u, s, f)
        PROVE  req'[r].pc = "event_find"
    BY <2>2 DEF RecordEventStart, Idle, Become, IInv, TypeOK
  <2>3. ASSUME NEW u \in User, NEW s \in Session, NEW e \in Event, NEW f \in BOOLEAN,
               NEW c \in 0..MaxComposite, RecordScoreStart(r, u, s, e, f, c)
        PROVE  req'[r].pc = "score_find"
    BY <2>3 DEF RecordScoreStart, Idle, Become, IInv, TypeOK
  <2> QED BY <2>1, <2>2, <2>3 DEF Start
<1> QED BY <1>1, <1>2, <1>3, <1>4, QuietLedger DEF tables

\* The lookups, whatever they find, and the insert of a session.
LEMMA LookupLedger ==
    ASSUME IInv, CountersOK, NEW r \in Req,
           \/ CreateSession(r) \/ RecordEventFind(r) \/ RecordScoreFind(r) \/ RecordScoreEvent(r)
    PROVE  CountersOK'
<1>1. RowsStand
  BY AdvanceStep DEF Advance
<1>2. /\ req[r].pc \in {"session_create", "event_find", "score_find", "score_event"}
      /\ UNCHANGED <<events, scores, counters>> /\ (NoFault \/ Fault)
  BY DEF CreateSession, RecordEventFind, RecordScoreFind, RecordScoreEvent, FindOwnSession, tables
<1>3. \A x \in Req : x # r => req'[x] = req[x]
  BY DEF CreateSession, RecordEventFind, RecordScoreFind, RecordScoreEvent, FindOwnSession,
         Answer, Become, IInv, TypeOK
<1>4. req'[r].pc \in {"idle", "event_create", "score_event", "score_create"}
  <2>1. req[r] \in Request /\ req \in [Req -> Request]
    BY DEF IInv, TypeOK
  <2>2. ASSUME NEW code, Answer(r, code)
        PROVE  req'[r].pc = "idle"
    BY <2>1, <2>2 DEF Answer, Idle, Become
  <2>3. ASSUME NEW next, FindOwnSession(r, next)
        PROVE  req'[r].pc \in {"idle", next}
    <3>1. CASE \E code : Answer(r, code)
      BY <2>2, <3>1
    <3>2. CASE Become(r, [req[r] EXCEPT !.pc = next, !.model = sessions[req[r].session].model])
      BY <2>1, <3>2 DEF Request, Become
    <3> QED BY <2>3, <3>1, <3>2 DEF FindOwnSession
  <2>4. ASSUME RecordScoreEvent(r)
        PROVE  req'[r].pc \in {"idle", "score_create"}
    <3>1. CASE Answer(r, "not_found")
      BY <2>2, <3>1
    <3>2. CASE Become(r, [req[r] EXCEPT !.pc = "score_create",
                                        !.composite = IF req[r].safetyFlag THEN 0 ELSE @])
      BY <2>1, <3>2 DEF Request, Become
    <3> QED BY <2>4, <3>1, <3>2 DEF RecordScoreEvent
  <2> QED BY <2>2, <2>3, <2>4 DEF CreateSession, RecordEventFind, RecordScoreFind
<1> QED BY <1>1, <1>2, <1>3, <1>4, QuietLedger

\* An event that is inserted is one to count, of the model of its session.
LEMMA EventInserted ==
    ASSUME IInv, CountersOK, RowsStand, NEW r \in Req, req[r].pc = "event_create",
           NEW e \in Event, events[e] = None,
           events' = [events EXCEPT ![e] = [session |-> req[r].session,
                          user |-> req[r].user, failed |-> req[r].failed]],
           Become(r, [req[r] EXCEPT !.pc = "event_count", !.event = e]),
           UNCHANGED <<sessions, scores, counters, faults>>
    PROVE  CountersOK'
<1> DEFINE A(m, f) == IF req[r].model = m /\ Status(req[r]) = f THEN {e} ELSE {}
           B(m, f) == IF req[r].model = m /\ Status(req[r]) = f THEN {r} ELSE {}
<1> SUFFICES ASSUME NEW m \in Model
             PROVE  /\ Balanced(counters[m].ok, ToCount(m, "ok")', Succeeded(m)', faults)
                    /\ Balanced(counters[m].error, ToCount(m, "error")', Failed(m)', faults)
                    /\ Balanced(counters[m].score, PointsToCount(m)', Points(m)', faults)
  BY DEF CountersOK
<1>1. /\ OwnSession(req[r]) /\ req[r] \in Request /\ req[r].failed \in BOOLEAN
  BY DEF IInv, LocalsOK, LocalOK, TypeOK, Request
<1>2. /\ req'[r].pc = "event_count" /\ req'[r].model = req[r].model
      /\ req'[r].failed = req[r].failed
      /\ \A x \in Req : x # r => req'[x] = req[x]
  BY <1>1 DEF Become, IInv, TypeOK, Request
<1>3. ASSUME NEW f \in {"ok", "error"}
      PROVE  ToCount(m, f)' = ToCount(m, f) \cup B(m, f) /\ B(m, f) \cap ToCount(m, f) = {}
  BY <1>2 DEF ToCount, Status
<1>4. PointsToCount(m)' = PointsToCount(m) /\ Points(m)' = Points(m)
  <2>1. \A x \in Req : /\ req'[x].pc = "score_count" <=> req[x].pc = "score_count"
                       /\ req[x].pc = "score_count" => req'[x] = req[x]
    BY <1>2
  <2> QED BY <2>1, RowsUnchanged DEF PointsToCount
<1>5. /\ ~HasEvent(e) /\ HasEvent(e)' /\ ModelOf(e)' = req[r].model
      /\ events'[e].failed = req[r].failed
      /\ \A x \in Event : x # e => events'[x] = events[x]
  <2>1. /\ events'[e] = [session |-> req[r].session, user |-> req[r].user, failed |-> req[r].failed]
        /\ \A x \in Event : x # e => events'[x] = events[x]
    BY DEF IInv, TypeOK
  <2>2. events'[e] \in EventRow
    BY <1>1, <2>1 DEF OwnSession, HasSession, EventRow
  <2> QED BY <1>1, <2>1, <2>2, NoneIsNone DEF HasEvent, ModelOf, OwnSession
<1>6. ASSUME NEW x \in Event, x # e
      PROVE  (HasEvent(x)' <=> HasEvent(x)) /\ events'[x] = events[x] /\ ModelOf(x)' = ModelOf(x)
  BY <1>5, <1>6 DEF HasEvent, ModelOf
<1>7. /\ Succeeded(m)' = Succeeded(m) \cup A(m, "ok") /\ A(m, "ok") \cap Succeeded(m) = {}
      /\ Failed(m)' = Failed(m) \cup A(m, "error") /\ A(m, "error") \cap Failed(m) = {}
  BY <1>1, <1>5, <1>6 DEF Succeeded, Failed, Status
<1>8. \A f : /\ IsFiniteSet(A(m, f)) /\ IsFiniteSet(B(m, f))
             /\ Cardinality(A(m, f)) = Cardinality(B(m, f))
  BY FS_Singleton, FS_EmptySet
<1>9. counters[m].ok \in Nat /\ counters[m].error \in Nat
  BY CountersTyped DEF IInv
<1> HIDE DEF A, B
<1>10. Balanced(counters[m].ok, ToCount(m, "ok") \cup B(m, "ok"), Succeeded(m) \cup A(m, "ok"), faults)
  BY <1>3, <1>7, <1>8, <1>9, BalancedInsert, LedgersFinite DEF CountersOK
<1>11. Balanced(counters[m].error, ToCount(m, "error") \cup B(m, "error"), Failed(m) \cup A(m, "error"), faults)
  BY <1>3, <1>7, <1>8, <1>9, BalancedInsert, LedgersFinite DEF CountersOK
<1> QED BY <1>3, <1>4, <1>7, <1>10, <1>11 DEF CountersOK

LEMMA EventCreateLedger ==
    ASSUME IInv, CountersOK, NEW r \in Req, RecordEventCreate(r)
    PROVE  CountersOK'
<1>1. RowsStand /\ req[r].pc = "event_create" /\ UNCHANGED <<sessions, scores, counters>>
  BY RecordEventCreateStep DEF RecordEventCreate
<1>2. CASE Fault /\ Answer(r, "internal")
  <2>1. req'[r].pc = "idle" /\ \A x \in Req : x # r => req'[x] = req[x]
    BY <1>2 DEF Answer, Idle, Become, IInv, TypeOK
  <2> QED BY <1>1, <1>2, <2>1, QuietLedger
<1>3. CASE \E e \in Event :
             /\ events[e] = None
             /\ events' = [events EXCEPT ![e] = [session |-> req[r].session,
                               user |-> req[r].user, failed |-> req[r].failed]]
             /\ NoFault /\ Become(r, [req[r] EXCEPT !.pc = "event_count", !.event = e])
  BY <1>1, <1>3, EventInserted DEF NoFault
<1> QED BY <1>2, <1>3 DEF RecordEventCreate

LEMMA PointsOf ==
    ASSUME NEW x, NEW n \in Nat
    PROVE  IsFiniteSet({x} \X (1..n)) /\ Cardinality({x} \X (1..n)) = n
<1>1. IsFiniteSet({x}) /\ Cardinality({x}) = 1
  BY FS_Singleton
<1>2. IsFiniteSet(1..n) /\ Cardinality(1..n) = n
  BY FS_Interval
<1>3. /\ IsFiniteSet({x} \X (1..n))
      /\ Cardinality({x} \X (1..n)) = Cardinality({x}) * Cardinality(1..n)
  BY <1>1, <1>2, FS_Product
<1> QED BY <1>1, <1>2, <1>3

\* A score that is inserted has its points to count, for the model of its event.
LEMMA ScoreInserted ==
    ASSUME IInv, CountersOK, RowsStand, NEW r \in Req, req[r].pc = "score_create",
           ~Scored(req[r].event), InsertScore(r), Goto(r, "score_count"),
           UNCHANGED <<sessions, events, counters, faults>>
    PROVE  CountersOK'
<1> PICK e \in Event, n \in 0..MaxComposite : e = req[r].event /\ n = req[r].composite
  BY DEF IInv, LocalsOK, LocalOK, TypeOK, Request
<1> DEFINE A(m) == IF req[r].model = m THEN {e} \X (1..n) ELSE {}
           B(m) == IF req[r].model = m THEN {r} \X (1..n) ELSE {}
<1> SUFFICES ASSUME NEW m \in Model
             PROVE  /\ Balanced(counters[m].ok, ToCount(m, "ok")', Succeeded(m)', faults)
                    /\ Balanced(counters[m].error, ToCount(m, "error")', Failed(m)', faults)
                    /\ Balanced(counters[m].score, PointsToCount(m)', Points(m)', faults)
  BY DEF CountersOK
<1>1. /\ OwnSession(req[r]) /\ req[r] \in Request /\ n \in Nat
      /\ HasEvent(e) /\ ModelOf(e) = req[r].model
  BY InferenceBounds DEF IInv, LocalsOK, LocalOK, TypeOK, OwnSession, ModelOf
<1>2. /\ req'[r].pc = "score_count" /\ req'[r].model = req[r].model /\ req'[r].composite = n
      /\ \A x \in Req : x # r => req'[x] = req[x]
  BY <1>1 DEF Goto, Become, IInv, TypeOK, Request
<1>3. /\ ToCount(m, "ok")' = ToCount(m, "ok") /\ ToCount(m, "error")' = ToCount(m, "error")
      /\ Succeeded(m)' = Succeeded(m) /\ Failed(m)' = Failed(m)
  <2>1. \A x \in Req : /\ req'[x].pc = "event_count" <=> req[x].pc = "event_count"
                       /\ req[x].pc = "event_count" => req'[x] = req[x]
    BY <1>2
  <2> QED BY <2>1, RowsUnchanged DEF ToCount
<1>4. PointsToCount(m)' = PointsToCount(m) \cup B(m) /\ B(m) \cap PointsToCount(m) = {}
  <2>1. \A p \in Req \X (1..MaxComposite) :
           p \in PointsToCount(m)' <=> p \in PointsToCount(m) \/ p \in B(m)
    BY <1>1, <1>2, InferenceBounds DEF PointsToCount
  <2>2. B(m) \subseteq Req \X (1..MaxComposite)
    BY <1>1, InferenceBounds
  <2>3. B(m) \cap PointsToCount(m) = {}
    BY DEF PointsToCount
  <2> QED BY <2>1, <2>2, <2>3 DEF PointsToCount
<1>5. Points(m)' = Points(m) \cup A(m) /\ A(m) \cap Points(m) = {}
  <2>1. /\ scores'[e].composite = n /\ Scored(e)'
        /\ \A x \in Event : x # e => scores'[x] = scores[x]
    <3>1. /\ scores'[e] = [safetyFlag |-> req[r].safetyFlag, composite |-> n]
          /\ \A x \in Event : x # e => scores'[x] = scores[x]
      BY <1>1 DEF InsertScore, IInv, TypeOK
    <3>2. scores'[e] \in ScoreRow
      BY <1>1, <3>1 DEF ScoreRow, Request
    <3> QED BY <1>1, <3>1, <3>2, NoneIsNone DEF Scored
  <2>2. ModelOf(e)' = ModelOf(e) /\ \A x \in Event : ModelOf(x)' = ModelOf(x)
    BY DEF ModelOf
  <2>3. \A x \in Event : x # e => (Scored(x)' <=> Scored(x))
    BY <2>1 DEF Scored
  <2>4. \A p \in Event \X (1..MaxComposite) : p \in Points(m)' <=> p \in Points(m) \/ p \in A(m)
    BY <1>1, <2>1, <2>2, <2>3, InferenceBounds DEF Points
  <2>5. A(m) \subseteq Event \X (1..MaxComposite)
    BY <1>1, InferenceBounds
  <2>6. A(m) \cap Points(m) = {}
    BY DEF Points
  <2> QED BY <2>4, <2>5, <2>6 DEF Points
<1>6. IsFiniteSet(A(m)) /\ IsFiniteSet(B(m)) /\ Cardinality(A(m)) = Cardinality(B(m))
  <2>1. IsFiniteSet({e} \X (1..n)) /\ IsFiniteSet({r} \X (1..n)) /\ IsFiniteSet({})
    BY <1>1, PointsOf, FS_EmptySet
  <2>2. Cardinality({e} \X (1..n)) = n /\ Cardinality({r} \X (1..n)) = n
    BY <1>1, PointsOf, Zenon
  <2> QED BY <2>1, <2>2
<1>7. counters[m].score \in Nat
  BY CountersTyped DEF IInv
<1> HIDE DEF A, B
<1>8. Balanced(counters[m].score, PointsToCount(m) \cup B(m), Points(m) \cup A(m), faults)
  BY <1>4, <1>5, <1>6, <1>7, BalancedInsert, LedgersFinite DEF CountersOK
<1> QED BY <1>3, <1>4, <1>5, <1>8 DEF CountersOK

LEMMA ScoreCreateLedger ==
    ASSUME IInv, CountersOK, NEW r \in Req, RecordScoreCreate(r)
    PROVE  CountersOK'
<1>1. RowsStand /\ req[r].pc = "score_create" /\ UNCHANGED <<sessions, events, counters>>
  BY RecordScoreCreateStep DEF RecordScoreCreate
<1>2. ASSUME NEW code, Answer(r, code)
      PROVE  req'[r].pc = "idle" /\ \A x \in Req : x # r => req'[x] = req[x]
  BY <1>2 DEF Answer, Idle, Become, IInv, TypeOK
<1>3. CASE /\ Answer(r, "internal") \/ Answer(r, "conflict")
           /\ Fault \/ (NoFault /\ UNCHANGED scores)
  BY <1>1, <1>2, <1>3, QuietLedger
<1>4. CASE ~Scored(req[r].event) /\ InsertScore(r) /\ NoFault /\ Goto(r, "score_count")
  BY <1>1, <1>4, ScoreInserted DEF NoFault
<1>5. \/ /\ Answer(r, "internal") \/ Answer(r, "conflict")
         /\ Fault \/ (NoFault /\ UNCHANGED scores)
      \/ ~Scored(req[r].event) /\ InsertScore(r) /\ NoFault /\ Goto(r, "score_count")
  BY DEF RecordScoreCreate
<1> QED BY <1>3, <1>4, <1>5

LEMMA EventCountLedger ==
    ASSUME IInv, CountersOK, NEW r \in Req, RecordEventCount(r)
    PROVE  CountersOK'
<1> DEFINE B(m, f) == IF req[r].model = m /\ Status(req[r]) = f THEN {r} ELSE {}
<1> SUFFICES ASSUME NEW m \in Model
             PROVE  /\ Balanced(counters'[m].ok, ToCount(m, "ok")', Succeeded(m)', faults')
                    /\ Balanced(counters'[m].error, ToCount(m, "error")', Failed(m)', faults')
                    /\ Balanced(counters'[m].score, PointsToCount(m)', Points(m)', faults')
  BY DEF CountersOK
<1>1. /\ req[r].pc = "event_count" /\ req[r].failed \in BOOLEAN /\ RowsStand
      /\ UNCHANGED <<events, scores, faults>>
  BY SameTables DEF RecordEventCount, IInv, TypeOK, Request, tables, NoFault
<1>2. req'[r].pc = "idle" /\ \A x \in Req : x # r => req'[x] = req[x]
  BY DEF RecordEventCount, Answer, Idle, Become, IInv, TypeOK
<1>3. /\ Succeeded(m)' = Succeeded(m) /\ Failed(m)' = Failed(m) /\ Points(m)' = Points(m)
      /\ PointsToCount(m)' = PointsToCount(m)
  <2>1. \A x \in Req : /\ req'[x].pc = "score_count" <=> req[x].pc = "score_count"
                       /\ req[x].pc = "score_count" => req'[x] = req[x]
    BY <1>1, <1>2
  <2> QED BY <1>1, <2>1, RowsUnchanged DEF PointsToCount
<1>4. ASSUME NEW f \in {"ok", "error"}
      PROVE  ToCount(m, f)' = ToCount(m, f) \ B(m, f) /\ B(m, f) \subseteq ToCount(m, f)
  BY <1>1, <1>2 DEF ToCount, Status
<1>5. \A f : Cardinality(B(m, f)) = IF req[r].model = m /\ Status(req[r]) = f THEN 1 ELSE 0
  BY FS_Singleton, FS_EmptySet
<1>6. counters[m].ok \in Nat /\ counters[m].error \in Nat
  BY CountersTyped DEF IInv
<1>7. /\ counters'[m].ok = counters[m].ok + Cardinality(B(m, "ok"))
      /\ counters'[m].error = counters[m].error + Cardinality(B(m, "error"))
      /\ counters'[m].score = counters[m].score
  <2>1. req[r].model \in Model /\ counters[m] \in [ok : Nat, error : Nat, score : Nat]
    BY <1>1 DEF IInv, LocalsOK, LocalOK, TypeOK
  <2>2. CASE req[r].model # m
    <3>1. counters'[m] = counters[m]
      BY <2>1, <2>2 DEF RecordEventCount, IInv, TypeOK
    <3> QED BY <1>5, <1>6, <2>1, <2>2, <3>1
  <2>3. CASE req[r].model = m /\ req[r].failed
    <3>1. counters'[m] = [counters[m] EXCEPT !.error = @ + 1]
      BY <2>1, <2>3 DEF RecordEventCount, IInv, TypeOK
    <3>2. Cardinality(B(m, "ok")) = 0 /\ Cardinality(B(m, "error")) = 1
      BY <1>5, <2>3 DEF Status
    <3> QED BY <1>6, <2>1, <3>1, <3>2
  <2>4. CASE req[r].model = m /\ ~req[r].failed
    <3>1. counters'[m] = [counters[m] EXCEPT !.ok = @ + 1]
      BY <2>1, <2>4 DEF RecordEventCount, IInv, TypeOK
    <3>2. Cardinality(B(m, "ok")) = 1 /\ Cardinality(B(m, "error")) = 0
      BY <1>5, <2>4 DEF Status
    <3> QED BY <1>6, <2>1, <3>1, <3>2
  <2> QED BY <1>1, <2>2, <2>3, <2>4
<1> HIDE DEF B
<1>8. Balanced(counters[m].ok + Cardinality(B(m, "ok")), ToCount(m, "ok") \ B(m, "ok"),
               Succeeded(m), faults)
  BY <1>4, <1>6, BalancedCount, LedgersFinite DEF CountersOK
<1>9. Balanced(counters[m].error + Cardinality(B(m, "error")), ToCount(m, "error") \ B(m, "error"),
               Failed(m), faults)
  BY <1>4, <1>6, BalancedCount, LedgersFinite DEF CountersOK
<1> QED BY <1>1, <1>3, <1>4, <1>7, <1>8, <1>9 DEF CountersOK

LEMMA ScoreCountLedger ==
    ASSUME IInv, CountersOK, NEW r \in Req, RecordScoreCount(r)
    PROVE  CountersOK'
<1> DEFINE n == req[r].composite
           B(m) == IF req[r].model = m THEN {r} \X (1..n) ELSE {}
<1> SUFFICES ASSUME NEW m \in Model
             PROVE  /\ Balanced(counters'[m].ok, ToCount(m, "ok")', Succeeded(m)', faults')
                    /\ Balanced(counters'[m].error, ToCount(m, "error")', Failed(m)', faults')
                    /\ Balanced(counters'[m].score, PointsToCount(m)', Points(m)', faults')
  BY DEF CountersOK
<1>1. /\ req[r].pc = "score_count" /\ n \in 0..MaxComposite /\ RowsStand
      /\ UNCHANGED <<events, scores, faults>>
  BY SameTables DEF RecordScoreCount, IInv, TypeOK, Request, tables, NoFault
<1>2. req'[r].pc = "idle" /\ \A x \in Req : x # r => req'[x] = req[x]
  BY DEF RecordScoreCount, Answer, Idle, Become, IInv, TypeOK
<1>3. /\ Succeeded(m)' = Succeeded(m) /\ Failed(m)' = Failed(m) /\ Points(m)' = Points(m)
      /\ ToCount(m, "ok")' = ToCount(m, "ok") /\ ToCount(m, "error")' = ToCount(m, "error")
  <2>1. \A x \in Req : /\ req'[x].pc = "event_count" <=> req[x].pc = "event_count"
                       /\ req[x].pc = "event_count" => req'[x] = req[x]
    BY <1>1, <1>2
  <2> QED BY <1>1, <2>1, RowsUnchanged DEF ToCount
<1>4. PointsToCount(m)' = PointsToCount(m) \ B(m) /\ B(m) \subseteq PointsToCount(m)
  <2>1. \A p \in Req \X (1..MaxComposite) :
           p \in PointsToCount(m)' <=> p \in PointsToCount(m) /\ p \notin B(m)
    BY <1>1, <1>2, InferenceBounds DEF PointsToCount
  <2>2. B(m) \subseteq PointsToCount(m)
    BY <1>1, InferenceBounds DEF PointsToCount
  <2> QED BY <2>1, <2>2 DEF PointsToCount
<1>5. Cardinality(B(m)) = IF req[r].model = m THEN n ELSE 0
  <2>1. Cardinality({r} \X (1..n)) = n
    <3>1. n \in Nat
      BY <1>1, InferenceBounds
    <3> QED BY <3>1, PointsOf, Zenon
  <2>2. Cardinality({}) = 0
    BY FS_EmptySet
  <2> QED BY <2>1, <2>2
<1>6. counters[m].score \in Nat
  BY CountersTyped DEF IInv
<1>7. /\ counters'[m].ok = counters[m].ok /\ counters'[m].error = counters[m].error
      /\ counters'[m].score = counters[m].score + Cardinality(B(m))
  BY <1>1, <1>5, <1>6, InferenceBounds DEF RecordScoreCount, IInv, TypeOK
<1> HIDE DEF B
<1>8. Balanced(counters[m].score + Cardinality(B(m)), PointsToCount(m) \ B(m), Points(m), faults)
  BY <1>4, <1>6, BalancedCount, LedgersFinite DEF CountersOK
<1> QED BY <1>1, <1>3, <1>4, <1>7, <1>8 DEF CountersOK

\* A crash takes the counters with it, and what was about to be counted.
LEMMA RestartLedger ==
    ASSUME IInv, Restart
    PROVE  CountersOK'
<1> SUFFICES ASSUME NEW m \in Model
             PROVE  /\ Balanced(counters'[m].ok, ToCount(m, "ok")', Succeeded(m)', faults')
                    /\ Balanced(counters'[m].error, ToCount(m, "error")', Failed(m)', faults')
                    /\ Balanced(counters'[m].score, PointsToCount(m)', Points(m)', faults')
  BY DEF CountersOK
<1>1. /\ faults' # 0 /\ counters'[m].ok = 0 /\ counters'[m].error = 0 /\ counters'[m].score = 0
      /\ \A r \in Req : req'[r].pc = "idle"
  BY DEF Restart, Fault, NoCounts, Idle, IInv, TypeOK
<1>2. ToCount(m, "ok")' = {} /\ ToCount(m, "error")' = {} /\ PointsToCount(m)' = {}
  BY <1>1 DEF ToCount, PointsToCount
<1>3. /\ Cardinality(Succeeded(m)') \in Nat /\ Cardinality(Failed(m)') \in Nat
      /\ Cardinality(Points(m)') \in Nat
  BY LedgersFiniteNext, FS_CardinalityType
<1>4. Cardinality(ToCount(m, "ok")') = 0 /\ Cardinality(ToCount(m, "error")') = 0
      /\ Cardinality(PointsToCount(m)') = 0
  BY <1>2, FS_EmptySet
<1> QED BY <1>1, <1>3, <1>4 DEF Balanced

LEMMA InitLedger == Init => CountersOK
<1> SUFFICES ASSUME Init, NEW m \in Model
             PROVE  /\ Balanced(counters[m].ok, ToCount(m, "ok"), Succeeded(m), faults)
                    /\ Balanced(counters[m].error, ToCount(m, "error"), Failed(m), faults)
                    /\ Balanced(counters[m].score, PointsToCount(m), Points(m), faults)
  BY DEF CountersOK
<1>1. /\ counters[m].ok = 0 /\ counters[m].error = 0 /\ counters[m].score = 0
      /\ ToCount(m, "ok") = {} /\ ToCount(m, "error") = {} /\ PointsToCount(m) = {}
      /\ Succeeded(m) = {} /\ Failed(m) = {} /\ Points(m) = {}
  BY DEF Init, NoCounts, Idle, ToCount, PointsToCount, Succeeded, Failed, Points, HasEvent, Scored
<1> QED BY <1>1, FS_EmptySet DEF Balanced

LEMMA LedgerStep ==
    ASSUME IInv, CountersOK, [Next]_vars
    PROVE  CountersOK'
<1>1. CASE UNCHANGED vars
  BY <1>1 DEF vars, tables, CountersOK, ToCount, PointsToCount, Succeeded, Failed, Points,
              HasEvent, Scored, ModelOf
<1>2. ASSUME NEW r \in Req, Advance(r)
      PROVE  CountersOK'
  BY <1>2, LookupLedger, EventCreateLedger, EventCountLedger, ScoreCreateLedger, ScoreCountLedger
  DEF Advance
<1> QED BY <1>1, <1>2, StartLedger, RestartLedger DEF Next

-----------------------------------------------------------------------------
\* The theorems

\* Type correctness of the tables, the counters and the requests.
THEOREM TypeCorrect == Spec => []TypeOK
<1>1. IInv => TypeOK
  BY DEF IInv
<1> QED BY <1>1, InvariantHolds, PTL

\* Whatever is recorded, events and scores alike, was recorded by the owner of the session:
\* record_event.go and record_score.go compare owners before they insert.
THEOREM RecordedByOwnerHolds == Spec => []RecordedByOwner
<1>1. IInv => RecordedByOwner
  BY DEF IInv
<1> QED BY <1>1, InvariantHolds, PTL

\* At most one request to score an event is ever answered 201, through lost answers and
\* restarts: the UNIQUE event_id of llm_score lets one insert through.
THEOREM OneScoreAcknowledgedHolds == Spec => []OneScoreAcknowledged
<1>1. IInv => OneScoreAcknowledged
  BY DEF IInv
<1> QED BY <1>1, InvariantHolds, PTL

\* No step of the program changes a row of a session, an event or a score.
THEOREM FirstScoreStandsHolds == Spec => FirstScoreStands
<1>1. IInv /\ [Next]_vars => [RowsStand]_vars
  BY NextStep
<1> QED BY <1>1, InvariantHolds, PTL DEF Spec, FirstScoreStands, RowsStand
\* What Prometheus shows of a model is never more than what the tables hold of it, and
\* without faults exactly that but for what is about to be counted: record_event.go and
\* record_score.go move a counter after their insert, by the model of the session that
\* they looked up, and the event is one of that session.
THEOREM CountersFollowHolds == Spec => []CountersFollow
<1>1. ASSUME IInv, CountersOK
      PROVE  CountersFollow
  <2> SUFFICES ASSUME NEW m \in Model
               PROVE  /\ counters[m].ok <= Cardinality(Succeeded(m))
                      /\ counters[m].error <= Cardinality(Failed(m))
                      /\ counters[m].score <= CompositeSum(m)
                      /\ faults = 0 /\ ~Counting =>
                            counters[m] = [ok |-> Cardinality(Succeeded(m)),
                                           error |-> Cardinality(Failed(m)),
                                           score |-> CompositeSum(m)]
    BY DEF CountersFollow
  <2>1. /\ Balanced(counters[m].ok, ToCount(m, "ok"), Succeeded(m), faults)
        /\ Balanced(counters[m].error, ToCount(m, "error"), Failed(m), faults)
        /\ Balanced(counters[m].score, PointsToCount(m), Points(m), faults)
    BY <1>1 DEF CountersOK
  <2>2. /\ Cardinality(ToCount(m, "ok")) \in Nat /\ Cardinality(ToCount(m, "error")) \in Nat
        /\ Cardinality(PointsToCount(m)) \in Nat /\ Cardinality(Points(m)) \in Nat
        /\ Cardinality(Succeeded(m)) \in Nat /\ Cardinality(Failed(m)) \in Nat
    BY LedgersFinite, FS_CardinalityType
  <2>3. /\ counters[m] \in [ok : Nat, error : Nat, score : Nat]
        /\ counters[m].ok \in Nat /\ counters[m].error \in Nat /\ counters[m].score \in Nat
    BY <1>1 DEF IInv, TypeOK
  <2>4. /\ counters[m].ok <= Cardinality(Succeeded(m))
        /\ counters[m].error <= Cardinality(Failed(m))
        /\ counters[m].score <= Cardinality(Points(m))
    BY <2>1, <2>2, <2>3 DEF Balanced
  <2>5. ASSUME faults = 0, ~Counting
        PROVE  /\ counters[m].ok = Cardinality(Succeeded(m))
               /\ counters[m].error = Cardinality(Failed(m))
               /\ counters[m].score = Cardinality(Points(m))
    <3>1. ToCount(m, "ok") = {} /\ ToCount(m, "error") = {} /\ PointsToCount(m) = {}
      BY <2>5 DEF Counting, ToCount, PointsToCount
    <3>2. Cardinality({}) = 0
      BY FS_EmptySet
    <3> QED BY <2>1, <2>2, <2>3, <2>5, <3>1, <3>2 DEF Balanced
  <2> QED BY <2>3, <2>4, <2>5 DEF CompositeSum
<1> QED BY <1>1, InitLedger, LedgerStep, InvariantHolds, PTL DEF Spec
=============================================================================
