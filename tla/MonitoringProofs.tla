--------------------------- MODULE MonitoringProofs ---------------------------
(***************************************************************************)
(* Theorems about Monitoring, for every set of events, models, filters and *)
(* goroutines, every lifetime and every number of faults.                  *)
(***************************************************************************)
EXTENDS Monitoring, TLAPS

-----------------------------------------------------------------------------
\* The inductive invariant

BornInThePast == \A e \in Event : e \in Recorded => rows[e].born <= clock

\* A report that was begun at time `start` counts every event of the filter f older than that.
CountsBefore(f, start, report) ==
    \A e \in Event : Selects(f, e) /\ rows[e].born < start => e \in report.totals

\* What a report holds once the first, the second and the third query has run.
AfterTotals(q) ==
    /\ CountsBefore(q.filter, q.now, q.report)
    /\ q.report.totals \subseteq Recorded /\ q.report.scored \subseteq q.report.totals \cap scored
AfterScores(report) == report.scored \subseteq report.scores
AfterByModel(report) == report.totals \subseteq report.byModel

LocalOK(q) ==
    /\ q.pc # "idle" => q.filter \in Filter /\ q.now <= clock
    /\ q.pc \in {"scores", "by_model", "store"} => AfterTotals(q)
    /\ q.pc = "scores" => q.report.scored \subseteq Selected(q.filter) \cap scored
    /\ q.pc \in {"by_model", "store"} => AfterScores(q.report)
    /\ q.pc = "store" => AfterByModel(q.report)

\* An entry that expires at x was begun TTL before.
EntryOK(f) ==
    LET x == cache[f] IN
    x # NoEntry =>
        /\ x.expiresAt <= clock + TTL
        /\ \A e \in Event : Selects(f, e) /\ rows[e].born + TTL < x.expiresAt => e \in x.data.totals
        /\ AfterScores(x.data) /\ AfterByModel(x.data)

LocalsOK == \A r \in Reader : LocalOK(req[r])
EntriesOK == \A f \in Filter : EntryOK(f)

IInv == TypeOK /\ BornInThePast /\ LocalsOK /\ EntriesOK

LEMMA TTLIsPositive == TTL \in Nat /\ TTL >= 1
BY MonitoringBounds

LEMMA IdleTyped ==
    ASSUME NEW code \in Reply
    PROVE  Idle(code) \in Request /\ Idle(code).pc = "idle" /\ Idle(code).report = EmptyReport
BY DEF Idle, Request, PC, EmptyReport, Report

LEMMA InitInvariant == Init => IInv
<1> SUFFICES ASSUME Init PROVE IInv
  OBVIOUS
<1>1. Idle("none") \in Request /\ Idle("none").pc = "idle"
  BY IdleTyped DEF Reply
<1>2. TypeOK
  BY <1>1 DEF Init, TypeOK, EmptyCache
<1>3. BornInThePast
  BY DEF Init, BornInThePast, Recorded
<1>4. LocalsOK
  BY <1>1 DEF Init, LocalsOK, LocalOK
<1>5. EntriesOK
  BY DEF Init, EntriesOK, EntryOK, EmptyCache
<1> QED BY <1>2, <1>3, <1>4, <1>5 DEF IInv

-----------------------------------------------------------------------------
\* Steps of a request

LEMMA FaultTyped ==
    ASSUME TypeOK, NoFault \/ Fault
    PROVE  faults' \in Nat
BY DEF TypeOK, NoFault, Fault

\* A step that changes a request and, at most, the cache.
LEMMA RequestStep ==
    ASSUME IInv, KeepRows, UNCHANGED clock, NoFault \/ Fault,
           NEW r \in Reader, NEW q \in Request, Become(r, q), LocalOK(q),
           cache' \in [Filter -> Entry \cup {NoEntry}], EntriesOK'
    PROVE  IInv'
<1>1. req' \in [Reader -> Request] /\ \A x \in Reader : req'[x] = IF x = r THEN q ELSE req[x]
  BY DEF IInv, TypeOK, Become
<1>2. TypeOK'
  BY <1>1, FaultTyped DEF IInv, TypeOK, KeepRows
<1>3. BornInThePast'
  BY DEF IInv, BornInThePast, Recorded, KeepRows
<1>4. \A x \in Reader : LocalOK(req'[x])
  BY <1>1 DEF IInv, LocalsOK
<1>5. LocalsOK'
  BY <1>4 DEF LocalsOK, LocalOK, AfterTotals, AfterScores, AfterByModel, CountsBefore,
              Selects, Selected, Recorded, KeepRows
<1> QED BY <1>2, <1>3, <1>5 DEF IInv

LEMMA SameCache ==
    ASSUME IInv, KeepRows, UNCHANGED <<cache, clock>>
    PROVE  cache' \in [Filter -> Entry \cup {NoEntry}] /\ EntriesOK'
BY DEF IInv, TypeOK, EntriesOK, EntryOK, AfterScores, AfterByModel, Selects, Recorded, KeepRows

LEMMA AnswerStep ==
    ASSUME IInv, KeepRows, UNCHANGED <<cache, clock>>, NoFault \/ Fault,
           NEW r \in Reader, NEW code \in Reply, Answer(r, code)
    PROVE  IInv'
<1>1. Idle(code) \in Request /\ LocalOK(Idle(code))
  BY IdleTyped DEF LocalOK
<1> QED BY <1>1, RequestStep, SameCache DEF Answer

LEMMA GetReportStep ==
    ASSUME IInv, NEW r \in Reader, NEW f \in Filter, GetReport(r, f)
    PROVE  IInv'
<1>1. KeepRows /\ UNCHANGED <<cache, clock>> /\ NoFault
  BY DEF GetReport
<1>2. CASE Answer(r, "ok")
  BY <1>1, <1>2, AnswerStep DEF Reply
<1> DEFINE q == [Idle("none") EXCEPT !.pc = "totals", !.filter = f, !.now = clock]
<1>3. CASE Become(r, q)
  <2>1. Idle("none") \in Request /\ clock \in Nat
    BY IdleTyped DEF Reply, IInv, TypeOK
  <2>2. q \in Request /\ q.pc = "totals" /\ q.filter = f /\ q.now = clock
    BY <2>1 DEF Request, PC
  <2> HIDE DEF q
  <2>3. LocalOK(q)
    BY <2>1, <2>2 DEF LocalOK
  <2> QED BY <1>1, <1>3, <2>2, <2>3, RequestStep, SameCache
<1> QED BY <1>2, <1>3 DEF GetReport

LEMMA QueryTotalsStep ==
    ASSUME IInv, NEW r \in Reader, QueryTotals(r)
    PROVE  IInv'
<1> DEFINE E == Selected(req[r].filter)
           q == [req[r] EXCEPT !.pc = "scores", !.report.totals = E,
                               !.report.scored = E \cap scored]
<1>1. /\ KeepRows /\ UNCHANGED <<cache, clock>> /\ req[r].pc = "totals" /\ req[r] \in Request
      /\ NoFault \/ Fault
  BY DEF QueryTotals, IInv, TypeOK
<1>2. CASE Answer(r, "internal")
  BY <1>1, <1>2, AnswerStep DEF Reply
<1>3. CASE Become(r, q)
  <2>1. E \subseteq Event /\ E \subseteq Recorded
    BY DEF Selected, Selects
  <2>2. req[r].report \in Report
    BY <1>1 DEF Request
  <2>3. [req[r].report EXCEPT !.totals = E, !.scored = E \cap scored] \in Report
    BY <2>1, <2>2 DEF Report
  <2>4. /\ q \in Request /\ q.pc = "scores" /\ q.filter = req[r].filter /\ q.now = req[r].now
        /\ q.report.totals = E /\ q.report.scored = E \cap scored
    BY <1>1, <2>2, <2>3 DEF Request, PC, Report
  <2>5. req[r].filter \in Filter /\ req[r].now <= clock
    BY <1>1 DEF IInv, LocalsOK, LocalOK
  <2> HIDE DEF q
  <2>6. CountsBefore(q.filter, q.now, q.report)
    BY <2>4 DEF CountsBefore, Selected
  <2>7. LocalOK(q)
    BY <2>1, <2>4, <2>5, <2>6 DEF LocalOK, AfterTotals
  <2> QED BY <1>1, <1>3, <2>4, <2>7, RequestStep, SameCache
<1> QED BY <1>2, <1>3 DEF QueryTotals

LEMMA QueryScoresStep ==
    ASSUME IInv, NEW r \in Reader, QueryScores(r)
    PROVE  IInv'
<1> DEFINE S == Selected(req[r].filter) \cap scored
           q == [req[r] EXCEPT !.pc = "by_model", !.report.scores = S]
<1>1. /\ KeepRows /\ UNCHANGED <<cache, clock>> /\ req[r].pc = "scores" /\ req[r] \in Request
      /\ NoFault \/ Fault
  BY DEF QueryScores, IInv, TypeOK
<1>2. CASE Answer(r, "internal")
  BY <1>1, <1>2, AnswerStep DEF Reply
<1>3. CASE Become(r, q)
  <2>1. S \subseteq Event
    BY DEF Selected
  <2>2. req[r].report \in Report
    BY <1>1 DEF Request
  <2>3. [req[r].report EXCEPT !.scores = S] \in Report
    BY <2>1, <2>2 DEF Report
  <2>4. /\ q \in Request /\ q.pc = "by_model" /\ q.filter = req[r].filter /\ q.now = req[r].now
        /\ q.report.totals = req[r].report.totals /\ q.report.scored = req[r].report.scored
        /\ q.report.scores = S
    BY <1>1, <2>2, <2>3 DEF Request, PC, Report
  <2>5. /\ req[r].filter \in Filter /\ req[r].now <= clock /\ AfterTotals(req[r])
        /\ req[r].report.scored \subseteq S
    BY <1>1 DEF IInv, LocalsOK, LocalOK
  <2> HIDE DEF q
  <2>6. AfterTotals(q)
    BY <2>4, <2>5 DEF AfterTotals, CountsBefore
  <2>7. LocalOK(q)
    BY <2>4, <2>5, <2>6 DEF LocalOK, AfterScores
  <2> QED BY <1>1, <1>3, <2>4, <2>7, RequestStep, SameCache
<1> QED BY <1>2, <1>3 DEF QueryScores

LEMMA QueryByModelStep ==
    ASSUME IInv, NEW r \in Reader, QueryByModel(r)
    PROVE  IInv'
<1> DEFINE q == [req[r] EXCEPT !.pc = "store", !.report.byModel = Recorded]
<1>1. /\ KeepRows /\ UNCHANGED <<cache, clock>> /\ req[r].pc = "by_model" /\ req[r] \in Request
      /\ NoFault \/ Fault
  BY DEF QueryByModel, IInv, TypeOK
<1>2. CASE Answer(r, "internal")
  BY <1>1, <1>2, AnswerStep DEF Reply
<1>3. CASE Become(r, q)
  <2>1. Recorded \subseteq Event
    BY DEF Recorded
  <2>2. req[r].report \in Report
    BY <1>1 DEF Request
  <2>3. [req[r].report EXCEPT !.byModel = Recorded] \in Report
    BY <2>1, <2>2 DEF Report
  <2>4. /\ q \in Request /\ q.pc = "store" /\ q.filter = req[r].filter /\ q.now = req[r].now
        /\ q.report.totals = req[r].report.totals /\ q.report.scored = req[r].report.scored
        /\ q.report.scores = req[r].report.scores /\ q.report.byModel = Recorded
    BY <1>1, <2>2, <2>3 DEF Request, PC, Report
  <2>5. /\ req[r].filter \in Filter /\ req[r].now <= clock /\ AfterTotals(req[r])
        /\ AfterScores(req[r].report)
    BY <1>1 DEF IInv, LocalsOK, LocalOK
  <2> HIDE DEF q
  <2>6. AfterTotals(q) /\ AfterScores(q.report) /\ AfterByModel(q.report)
    BY <2>4, <2>5 DEF AfterTotals, CountsBefore, AfterScores, AfterByModel
  <2>7. LocalOK(q)
    BY <2>4, <2>5, <2>6 DEF LocalOK
  <2> QED BY <1>1, <1>3, <2>4, <2>7, RequestStep, SameCache
<1> QED BY <1>2, <1>3 DEF QueryByModel

LEMMA StoreStep ==
    ASSUME IInv, NEW r \in Reader, Store(r)
    PROVE  IInv'
<1> DEFINE f == req[r].filter
           x == [data |-> req[r].report, expiresAt |-> req[r].now + TTL]
<1>1. /\ KeepRows /\ UNCHANGED clock /\ NoFault /\ Answer(r, "ok") /\ req[r].pc = "store"
      /\ cache' = [cache EXCEPT ![f] = x] /\ req[r] \in Request
  BY DEF Store, IInv, TypeOK
<1>2. /\ f \in Filter /\ req[r].now <= clock /\ AfterTotals(req[r]) /\ AfterScores(req[r].report)
      /\ AfterByModel(req[r].report)
  BY <1>1 DEF IInv, LocalsOK, LocalOK
<1>3. x \in Entry /\ x.data = req[r].report /\ x.expiresAt = req[r].now + TTL /\ req[r].now \in Nat
  BY <1>1, TTLIsPositive DEF Entry, Request
<1> HIDE DEF x
<1>4. cache' \in [Filter -> Entry \cup {NoEntry}]
  BY <1>1, <1>3 DEF IInv, TypeOK
<1>5. \A g \in Filter : cache'[g] = IF g = f THEN x ELSE cache[g]
  BY <1>1 DEF IInv, TypeOK
<1>6. \A e \in Event : Selects(f, e) /\ rows[e].born + TTL < x.expiresAt => e \in x.data.totals
  <2> SUFFICES ASSUME NEW e \in Event, Selects(f, e), rows[e].born + TTL < x.expiresAt
               PROVE  e \in x.data.totals
    OBVIOUS
  <2>1. rows[e].born \in Nat
    BY DEF Selects, Recorded, IInv, TypeOK, Row
  <2>2. rows[e].born < req[r].now
    BY <1>3, <2>1, TTLIsPositive
  <2> QED BY <1>2, <1>3, <2>2 DEF AfterTotals, CountsBefore
<1>7. ASSUME NEW g \in Filter
      PROVE  EntryOK(g)'
  <2>1. CASE g = f
    <3>1. x.expiresAt <= clock + TTL
      BY <1>2, <1>3, TTLIsPositive DEF IInv, TypeOK
    <3> QED
      BY <1>1, <1>2, <1>3, <1>5, <1>6, <2>1, <3>1
      DEF EntryOK, Selects, Recorded, AfterScores, AfterByModel, KeepRows
  <2>2. CASE g # f
    <3>1. cache'[g] = cache[g] /\ EntryOK(g)
      BY <1>5, <2>2 DEF IInv, EntriesOK
    <3> QED BY <1>1, <3>1 DEF EntryOK, Selects, Recorded, AfterScores, AfterByModel, KeepRows
  <2> QED BY <2>1, <2>2
<1>8. EntriesOK'
  BY <1>7 DEF EntriesOK
<1>9. Idle("ok") \in Request /\ LocalOK(Idle("ok"))
  BY IdleTyped DEF LocalOK, Reply
<1> QED BY <1>1, <1>4, <1>8, <1>9, RequestStep DEF Answer

-----------------------------------------------------------------------------
\* The tables, time and the process

\* No report has begun, and no entry was begun, after the clock.
LEMMA InsertEventStep ==
    ASSUME IInv, NEW e \in Event, NEW m \in Model, NEW l \in Latency, InsertEvent(e, m, l)
    PROVE  IInv'
<1> DEFINE row == [model |-> m, latency |-> l, born |-> clock]
<1>1. rows[e] = NoRow /\ rows' = [rows EXCEPT ![e] = row] /\ UNCHANGED <<scored, cache, clock, req, faults>>
  BY DEF InsertEvent
<1>2. row \in Row /\ row # NoRow /\ row.born = clock /\ clock \in Nat
  BY NothingAssumption DEF Row, IInv, TypeOK
<1> HIDE DEF row
<1>3. /\ rows' \in [Event -> Row \cup {NoRow}]
      /\ \A d \in Event : rows'[d] = IF d = e THEN row ELSE rows[d]
  BY <1>1, <1>2 DEF IInv, TypeOK
<1>4. Recorded' = Recorded \cup {e} /\ e \notin Recorded
  BY <1>1, <1>2, <1>3 DEF Recorded
<1>5. TypeOK'
  BY <1>1, <1>3 DEF IInv, TypeOK
<1>6. BornInThePast'
  BY <1>1, <1>2, <1>3, <1>4 DEF IInv, BornInThePast
<1>7. ASSUME NEW r \in Reader
      PROVE  LocalOK(req[r])'
  <2> DEFINE q == req[r]
  <2>1. LocalOK(q) /\ q.now \in Nat /\ req'[r] = q
    BY <1>1 DEF IInv, LocalsOK, TypeOK, Request
  <2>2. q.pc # "idle" /\ CountsBefore(q.filter, q.now, q.report)
           => CountsBefore(q.filter, q.now, q.report)'
    <3> SUFFICES ASSUME q.now <= clock, CountsBefore(q.filter, q.now, q.report),
                        NEW d \in Event, Selects(q.filter, d)', rows'[d].born < q.now
                 PROVE  d \in q.report.totals
      BY <1>1, <2>1 DEF LocalOK, CountsBefore
    <3>1. d # e
      BY <1>2, <1>3, <2>1
    <3>2. Selects(q.filter, d) /\ rows[d].born < q.now
      BY <1>1, <1>3, <1>4, <3>1 DEF Selects
    <3> QED BY <3>2 DEF CountsBefore
  <2>3. AfterTotals(q) /\ q.pc # "idle" => AfterTotals(q)'
    BY <1>1, <1>4, <2>2 DEF AfterTotals
  <2>4. Selected(q.filter) \subseteq Selected(q.filter)'
    BY <1>1, <1>3, <1>4 DEF Selected, Selects
  <2> QED BY <1>1, <2>1, <2>3, <2>4 DEF LocalOK, AfterScores, AfterByModel
<1>8. ASSUME NEW f \in Filter
      PROVE  EntryOK(f)'
  <2> DEFINE x == cache[f]
  <2>1. EntryOK(f) /\ cache'[f] = x
    BY <1>1 DEF IInv, EntriesOK
  <2>2. CASE x = NoEntry
    BY <2>1, <2>2 DEF EntryOK
  <2>3. CASE x # NoEntry
    <3>1. x \in Entry /\ x.expiresAt \in Nat
      BY <2>3 DEF IInv, TypeOK, Entry
    <3>2. x.expiresAt <= clock + TTL
      BY <2>1, <2>3 DEF EntryOK
    <3>3. ASSUME NEW d \in Event, Selects(f, d)', rows'[d].born + TTL < x.expiresAt
          PROVE  d \in x.data.totals
      <4>1. d # e
        BY <1>2, <1>3, <3>1, <3>2, <3>3, TTLIsPositive
      <4>2. Selects(f, d) /\ rows[d].born + TTL < x.expiresAt
        BY <1>3, <1>4, <3>3, <4>1 DEF Selects
      <4> QED BY <2>1, <2>3, <4>2 DEF EntryOK
    <3> QED BY <1>1, <2>1, <2>3, <3>2, <3>3 DEF EntryOK, AfterScores, AfterByModel
  <2> QED BY <2>2, <2>3
<1> QED BY <1>5, <1>6, <1>7, <1>8 DEF IInv, LocalsOK, EntriesOK

\* A step of the tables and the clock that leaves the events, requests and entries alone.
LEMMA LaterStep ==
    ASSUME IInv, UNCHANGED <<rows, cache, req, faults>>,
           scored' \subseteq Event, scored \subseteq scored', clock' \in Nat, clock <= clock'
    PROVE  IInv'
<1>1. TypeOK'
  BY DEF IInv, TypeOK
<1>2. clock \in Nat
  BY DEF IInv, TypeOK
<1>3. BornInThePast'
  <2>1. \A e \in Recorded : rows[e].born \in Nat
    BY DEF Recorded, IInv, TypeOK, Row
  <2> QED BY <1>2, <2>1 DEF IInv, BornInThePast, Recorded
<1>4. ASSUME NEW r \in Reader
      PROVE  LocalOK(req[r])'
  <2> DEFINE q == req[r]
  <2>1. LocalOK(q) /\ q.now \in Nat /\ req'[r] = q
    BY DEF IInv, LocalsOK, TypeOK, Request
  <2>2. q.now <= clock => q.now <= clock'
    BY <1>2, <2>1
  <2>3. AfterTotals(q) => AfterTotals(q)'
    BY <2>1 DEF AfterTotals, CountsBefore, Selects, Recorded
  <2>4. Selected(q.filter)' = Selected(q.filter)
    BY <2>1 DEF Selected, Selects, Recorded
  <2> QED BY <2>1, <2>2, <2>3, <2>4 DEF LocalOK, AfterScores, AfterByModel
<1>5. ASSUME NEW f \in Filter
      PROVE  EntryOK(f)'
  <2>1. cache[f] # NoEntry => cache[f].expiresAt \in Nat
    BY DEF IInv, TypeOK, Entry
  <2>2. cache[f] # NoEntry => cache[f].expiresAt <= clock' + TTL
    BY <1>2, <2>1, TTLIsPositive DEF IInv, EntriesOK, EntryOK
  <2>3. EntryOK(f)
    BY DEF IInv, EntriesOK
  <2> QED BY <2>2, <2>3 DEF EntryOK, Selects, Recorded, AfterScores, AfterByModel
<1> QED BY <1>1, <1>3, <1>4, <1>5 DEF IInv, LocalsOK, EntriesOK

LEMMA RestartStep ==
    ASSUME IInv, Restart
    PROVE  IInv'
<1>1. Idle("none") \in Request /\ Idle("none").pc = "idle"
  BY IdleTyped DEF Reply
<1>2. req' \in [Reader -> Request] /\ \A r \in Reader : req'[r].pc = "idle"
  BY <1>1 DEF Restart
<1>3. cache' \in [Filter -> Entry \cup {NoEntry}] /\ \A f \in Filter : cache'[f] = NoEntry
  BY DEF Restart, EmptyCache
<1>4. TypeOK'
  BY <1>2, <1>3, FaultTyped DEF Restart, IInv, TypeOK
<1>5. BornInThePast'
  BY DEF Restart, IInv, BornInThePast, Recorded
<1>6. LocalsOK' /\ EntriesOK'
  BY <1>2, <1>3 DEF LocalsOK, LocalOK, EntriesOK, EntryOK
<1> QED BY <1>4, <1>5, <1>6 DEF IInv

LEMMA NextStep ==
    ASSUME IInv, [Next]_vars
    PROVE  IInv'
<1>1. CASE \E r \in Reader : (\E f \in Filter : GetReport(r, f)) \/ Advance(r)
  BY <1>1, GetReportStep, QueryTotalsStep, QueryScoresStep, QueryByModelStep, StoreStep
  DEF Advance
<1>2. CASE \E e \in Event : \E m \in Model, l \in Latency : InsertEvent(e, m, l)
  BY <1>2, InsertEventStep
<1>3. ASSUME NEW e \in Event, InsertScore(e)
      PROVE  IInv'
  <2>1. scored' = scored \cup {e} /\ UNCHANGED <<rows, cache, clock, req, faults>>
    BY <1>3 DEF InsertScore
  <2> QED BY <2>1, LaterStep DEF IInv, TypeOK
<1>4. CASE Tick
  <2>1. clock' = clock + 1 /\ clock \in Nat /\ UNCHANGED <<rows, scored, cache, req, faults>>
    BY <1>4 DEF Tick, IInv, TypeOK
  <2> QED BY <2>1, LaterStep DEF IInv, TypeOK
<1>5. CASE Restart
  BY <1>5, RestartStep
<1>6. CASE UNCHANGED vars
  <2>1. clock \in Nat /\ UNCHANGED <<rows, scored, cache, clock, req, faults>>
    BY <1>6 DEF vars, IInv, TypeOK
  <2> QED BY <2>1, LaterStep DEF IInv, TypeOK
<1> QED BY <1>1, <1>2, <1>3, <1>4, <1>5, <1>6 DEF Next

LEMMA InvariantHolds == Spec => []IInv
<1>1. Init => IInv
  BY InitInvariant
<1>2. IInv /\ [Next]_vars => IInv'
  BY NextStep
<1> QED BY <1>1, <1>2, PTL DEF Spec

-----------------------------------------------------------------------------
\* The theorems

\* Type correctness of the tables, the cache and the requests.
THEOREM TypeCorrect == Spec => []TypeOK
<1>1. IInv => TypeOK
  BY DEF IInv
<1> QED BY <1>1, InvariantHolds, PTL

LEMMA DeliveriesAreFresh == IInv => StaleAtMostTTL
<1> SUFFICES ASSUME IInv, NEW d \in Deliveries, NEW e \in Event,
                    Selects(d.filter, e), rows[e].born + TTL <= d.now
             PROVE  e \in d.report.totals
  BY DEF StaleAtMostTTL
<1>1. rows[e].born \in Nat
  BY DEF Selects, Recorded, IInv, TypeOK, Row
<1>2. ASSUME NEW r \in Reader, req[r].pc = "store",
             d = [filter |-> req[r].filter, now |-> req[r].now, report |-> req[r].report]
      PROVE  e \in d.report.totals
  <2>1. AfterTotals(req[r]) /\ req[r].now \in Nat
    BY <1>2 DEF IInv, LocalsOK, LocalOK, TypeOK, Request
  <2>2. rows[e].born < req[r].now
    BY <1>1, <1>2, <2>1, TTLIsPositive
  <2> QED BY <1>2, <2>1, <2>2 DEF AfterTotals, CountsBefore
<1>3. ASSUME NEW f \in Hits, d = [filter |-> f, now |-> clock, report |-> cache[f].data]
      PROVE  e \in d.report.totals
  <2>1. f \in Filter /\ cache[f] # NoEntry /\ clock < cache[f].expiresAt
    BY <1>3 DEF Hits
  <2>2. clock \in Nat /\ cache[f].expiresAt \in Nat
    BY <2>1 DEF IInv, TypeOK, Entry
  <2>3. rows[e].born + TTL < cache[f].expiresAt
    BY <1>1, <1>3, <2>1, <2>2, TTLIsPositive
  <2> QED BY <1>3, <2>1, <2>3 DEF IInv, EntriesOK, EntryOK
<1> QED BY <1>2, <1>3 DEF Deliveries

\* A cached report is never older than its lifetime, counted from the request that had it
\* made, whatever fills overwrite one another: monitoring_cache.go takes `now` before the
\* queries run.
THEOREM StaleAtMostTTLHolds == Spec => []StaleAtMostTTL
BY DeliveriesAreFresh, InvariantHolds, PTL

LEMMA DeliveriesAreOrdered == IInv => PartsInOrder
<1> SUFFICES ASSUME IInv, NEW d \in Deliveries
             PROVE  AfterScores(d.report) /\ AfterByModel(d.report)
  BY DEF PartsInOrder, AfterScores, AfterByModel
<1>1. ASSUME NEW r \in Reader, req[r].pc = "store",
             d = [filter |-> req[r].filter, now |-> req[r].now, report |-> req[r].report]
      PROVE  AfterScores(d.report) /\ AfterByModel(d.report)
  BY <1>1 DEF IInv, LocalsOK, LocalOK
<1>2. ASSUME NEW f \in Hits, d = [filter |-> f, now |-> clock, report |-> cache[f].data]
      PROVE  AfterScores(d.report) /\ AfterByModel(d.report)
  BY <1>2 DEF Hits, IInv, EntriesOK, EntryOK
<1> QED BY <1>1, <1>2 DEF Deliveries

\* The three queries of a report see the tables in their order.
THEOREM PartsInOrderHolds == Spec => []PartsInOrder
BY DeliveriesAreOrdered, InvariantHolds, PTL
=============================================================================
