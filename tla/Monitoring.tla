----------------------------- MODULE Monitoring -----------------------------
(***************************************************************************)
(* GET /llm/monitoring: MonitoringRepository.GetReport, three queries over *)
(* inference_events and decision_scores run one after the other with no    *)
(* transaction, behind CachedMonitoringRepository, a map of reports with   *)
(* expiry times.                                                           *)
(*                                                                         *)
(* A report is kept as the sets of rows each query aggregated; of the      *)
(* aggregates only the percentiles are computed, because the driver may    *)
(* refuse them.  Rows are inserted by the recording use cases at any       *)
(* moment and are never changed.                                           *)
(***************************************************************************)
EXTENDS Integers, FiniteSets

CONSTANTS
    Event,      \* inference events that can ever be recorded
    Model,      \* model ids
    AnyModel,   \* the filter without a model id
    Filter,     \* the filters that are asked for: models or AnyModel
    Latency,    \* latencies a client may report
    Reader,     \* goroutines serving the endpoint
    NoRow, NoEntry,
    TTL,        \* lifetime of a cached report
    MaxTime,    \* bound: the clock stops here
    MaxFaults   \* bound: failed queries and restarts

ASSUME MonitoringBounds == TTL \in Nat \ {0} /\ MaxTime \in Nat /\ MaxFaults \in Nat
ASSUME LatencyAssumption == Latency \subseteq Nat
ASSUME FilterAssumption == AnyModel \notin Model /\ Filter \subseteq Model \cup {AnyModel}

\* Every filter names the same window, from a day before all rows to one that is yet to
\* come; the default window ends at the nanosecond of the request and is never asked for
\* twice, so it never hits.

\* What the queries aggregated: totals and scored from the first, scores from the
\* second, byModel from the third, whose groups are of all models.
Report == [totals : SUBSET Event, scored : SUBSET Event,
           scores : SUBSET Event, byModel : SUBSET Event]
EmptyReport == [totals |-> {}, scored |-> {}, scores |-> {}, byModel |-> {}]

Row == [model : Model, latency : Latency, born : Nat]
Entry == [data : Report, expiresAt : Nat]
ASSUME NothingAssumption == NoRow \notin Row /\ NoEntry \notin Entry

VARIABLES
    rows,     \* inference_events joined with llm_sessions; born: when it was committed
    scored,   \* events that have a row in decision_scores
    cache,    \* CachedMonitoringRepository.cache
    clock,
    req,      \* per goroutine: the request it serves, and the last status it gave
    faults

vars == <<rows, scored, cache, clock, req, faults>>

Reply == {"none", "ok", "internal"}
PC == {"idle", "totals", "scores", "by_model", "store"}
\* now: time.Now() taken on entry of the cached GetReport.
Request == [pc : PC, filter : Filter \cup {AnyModel}, now : Nat, report : Report, reply : Reply]

TypeOK ==
    /\ rows \in [Event -> Row \cup {NoRow}]
    /\ scored \subseteq Event
    /\ cache \in [Filter -> Entry \cup {NoEntry}]
    /\ clock \in Nat
    /\ req \in [Reader -> Request]
    /\ faults \in Nat

Idle(code) == [pc |-> "idle", filter |-> AnyModel, now |-> 0, report |-> EmptyReport,
               reply |-> code]
EmptyCache == [f \in Filter |-> NoEntry]

Init ==
    /\ rows = [e \in Event |-> NoRow]
    /\ scored = {}
    /\ cache = EmptyCache
    /\ clock = 0
    /\ req = [r \in Reader |-> Idle("none")]
    /\ faults = 0

-----------------------------------------------------------------------------
\* PERCENTILE_CONT and the driver

Recorded == {e \in Event : rows[e] # NoRow}
Selects(f, e) == e \in Recorded /\ f \in {rows[e].model, AnyModel}
Selected(f) == {e \in Event : Selects(f, e)}

\* The latency at place i, counted from 0, of the rows of E in ascending order.
At(E, i) ==
    CHOOSE l \in Latency :
        /\ Cardinality({e \in E : rows[e].latency < l}) <= i
        /\ i < Cardinality({e \in E : rows[e].latency <= l})

\* 100 times PERCENTILE_CONT(p/100): linear between the two places around
\* p/100 * (n - 1); COALESCE makes it 0 when there is no row.
Percentile100(E, p) ==
    LET place == p * (Cardinality(E) - 1)
        below == At(E, place \div 100)
        above == At(E, (place + 99) \div 100)
    IN IF E = {} THEN 0 ELSE 100 * below + (place % 100) * (above - below)

\* The result is a double precision and is scanned into an int: pgx refuses a value
\* with a fraction.
ScansIntoInt(E, p) == Percentile100(E, p) % 100 = 0

-----------------------------------------------------------------------------
\* Pieces of a step

Become(r, q) == req' = [req EXCEPT ![r] = q]
NoFault == UNCHANGED faults
Fault == faults < MaxFaults /\ faults' = faults + 1
Answer(r, code) == Become(r, Idle(code))
KeepRows == UNCHANGED <<rows, scored>>

\* The filters whose entry is there and has not expired.  The key of an entry is a hash of
\* the filter, which names it uniquely.
Hits == {f \in Filter : cache[f] # NoEntry /\ clock < cache[f].expiresAt}

-----------------------------------------------------------------------------
\* CachedMonitoringRepository.GetReport

\* The entry is read under the lock and compared with the `now` taken before.
GetReport(r, f) ==
    /\ req[r].pc = "idle"
    /\ \/ f \in Hits /\ Answer(r, "ok")
       \/ f \notin Hits /\ Become(r, [Idle("none") EXCEPT !.pc = "totals", !.filter = f, !.now = clock])
    /\ KeepRows /\ UNCHANGED <<cache, clock>> /\ NoFault

QueryTotals(r) ==
    LET E == Selected(req[r].filter) IN
    /\ req[r].pc = "totals"
    /\ \/ Fault /\ Answer(r, "internal")
       \/ NoFault /\ ~(ScansIntoInt(E, 50) /\ ScansIntoInt(E, 95)) /\ Answer(r, "internal")
       \/ /\ NoFault /\ ScansIntoInt(E, 50) /\ ScansIntoInt(E, 95)
          /\ Become(r, [req[r] EXCEPT !.pc = "scores", !.report.totals = E,
                                      !.report.scored = E \cap scored])
    /\ KeepRows /\ UNCHANGED <<cache, clock>>

QueryScores(r) ==
    /\ req[r].pc = "scores"
    /\ \/ Fault /\ Answer(r, "internal")
       \/ /\ NoFault
          /\ Become(r, [req[r] EXCEPT !.pc = "by_model",
                                      !.report.scores = Selected(req[r].filter) \cap scored])
    /\ KeepRows /\ UNCHANGED <<cache, clock>>

\* mutant: events without a score are lost in the join
QueryByModelJoined(r) ==
    /\ req[r].pc = "by_model"
    /\ Become(r, [req[r] EXCEPT !.pc = "store", !.report.byModel = Recorded \cap scored])
    /\ KeepRows /\ UNCHANGED <<cache, clock>> /\ NoFault

\* The groups are not restricted to the model of the filter.
QueryByModel(r) ==
    LET Scans == \A m \in Model : ScansIntoInt(Selected(m), 50) IN
    /\ req[r].pc = "by_model"
    /\ \/ Fault /\ Answer(r, "internal")
       \/ NoFault /\ ~Scans /\ Answer(r, "internal")
       \/ NoFault /\ Scans /\ Become(r, [req[r] EXCEPT !.pc = "store", !.report.byModel = Recorded])
    /\ KeepRows /\ UNCHANGED <<cache, clock>>

\* mutant: the lifetime is counted from when the report is stored
StoreFromNow(r) ==
    /\ req[r].pc = "store"
    /\ cache' = [cache EXCEPT ![req[r].filter] =
                    [data |-> req[r].report, expiresAt |-> clock + TTL]]
    /\ Answer(r, "ok")
    /\ KeepRows /\ UNCHANGED clock /\ NoFault

\* The entry replaces what another request may have stored meanwhile.
Store(r) ==
    /\ req[r].pc = "store"
    /\ cache' = [cache EXCEPT ![req[r].filter] =
                    [data |-> req[r].report, expiresAt |-> req[r].now + TTL]]
    /\ Answer(r, "ok")
    /\ KeepRows /\ UNCHANGED clock /\ NoFault

-----------------------------------------------------------------------------
\* The recording use cases, time and the process

InsertEvent(e, m, l) ==
    /\ rows[e] = NoRow
    /\ rows' = [rows EXCEPT ![e] = [model |-> m, latency |-> l, born |-> clock]]
    /\ UNCHANGED <<scored, cache, clock, req, faults>>

InsertScore(e) ==
    /\ e \in Recorded \ scored
    /\ scored' = scored \cup {e}
    /\ UNCHANGED <<rows, cache, clock, req, faults>>

Tick ==
    /\ clock < MaxTime
    /\ clock' = clock + 1
    /\ UNCHANGED <<rows, scored, cache, req, faults>>

Restart ==
    /\ Fault
    /\ cache' = EmptyCache
    /\ req' = [r \in Reader |-> Idle("none")]
    /\ UNCHANGED <<rows, scored, clock>>

Advance(r) == QueryTotals(r) \/ QueryScores(r) \/ QueryByModel(r) \/ Store(r)

Next ==
    \/ \E r \in Reader : (\E f \in Filter : GetReport(r, f)) \/ Advance(r)
    \/ \E e \in Event : (\E m \in Model, l \in Latency : InsertEvent(e, m, l)) \/ InsertScore(e)
    \/ Tick \/ Restart

Spec == Init /\ [][Next]_vars

-----------------------------------------------------------------------------
\* Properties

\* The reports that can go out now, each with what was asked for and when: those that
\* a request has just put together, and the entries that are hit.
Deliveries ==
    {[filter |-> req[r].filter, now |-> req[r].now, report |-> req[r].report] :
        r \in {q \in Reader : req[q].pc = "store"}}
    \cup {[filter |-> f, now |-> clock, report |-> cache[f].data] : f \in Hits}

\* A report that goes out counts every event that was committed TTL before it was
\* asked for, although slow fills may overwrite the entries of later ones
\* (monitoring_cache.go:37 and 61).
StaleAtMostTTL ==
    \A d \in Deliveries, e \in Event :
        Selects(d.filter, e) /\ rows[e].born + TTL <= d.now => e \in d.report.totals

\* The queries see the tables at three moments, in order: what the totals count, the
\* averages and the breakdown by model count too (monitoring_repository.go:42-132).
PartsInOrder ==
    \A d \in Deliveries :
        /\ d.report.scored \subseteq d.report.scores
        /\ d.report.totals \subseteq d.report.byModel

\* The admin's request is answered 200 (e2e.sh:538 "GET /llm/monitoring as admin ->
\* 200"), unless a query fails.
AdminIsAnswered == faults = 0 => \A r \in Reader : req[r].reply # "internal"
=============================================================================
