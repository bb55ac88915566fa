-------------------------------- MODULE Paging --------------------------------
(***************************************************************************)
(* GET /llm/sessions/{id}/events: pagination.Parse, ListEventsUseCase and  *)
(* EventRepository.ListBySession, for the owner of one session, and a      *)
(* client that walks through the pages while events are being recorded.    *)
(***************************************************************************)
EXTENDS Integers, FiniteSets

CONSTANTS
    Event,         \* events of the session that can ever be recorded
    NoRow,
    Client,        \* clients walking through the list
    MaxPage,       \* pagination.MaxPage, 1_000_000
    MaxLimit,      \* the largest limit, 100
    DefaultLimit,  \* of this route, 20
    PageParams,    \* what a client may send as page to begin with; 0: nothing or no number
    LimitParams,   \* likewise as limit
    MaxTime        \* bound: created_at is one of 0..MaxTime

ASSUME PagingAssumption ==
    /\ MaxPage \in Nat \ {0} /\ MaxLimit \in Nat \ {0} /\ DefaultLimit \in 1..MaxLimit
    /\ PageParams \subseteq Nat /\ LimitParams \subseteq Nat /\ MaxTime \in Nat
\* Assumed: no session has more events than there are pages, so that a list can be walked
\* to its end whatever the limit.
ASSUME ListFits == IsFiniteSet(Event) /\ Cardinality(Event) <= MaxPage
ASSUME NoRowAssumption == NoRow \notin Nat

VARIABLES
    rows,  \* created_at of the events of the session, NoRow where there is none yet
    walk   \* per client: where it is in the list, and what it has seen

vars == <<rows, walk>>

Recorded == {e \in Event : rows[e] # NoRow}

-----------------------------------------------------------------------------
\* pagination.go

\* atoiSafe: a number beyond 100 times MaxPage counts as none.
AtoiSafe(n) == IF n > MaxPage * 100 THEN 0 ELSE n

\* mutant: a page beyond the last possible one is taken as it is
ParsePageUnclamped(n) == IF AtoiSafe(n) > 0 THEN AtoiSafe(n) ELSE 1
\* mutant: the parameter is not looked at
ParsePageFirst(n) == 1
ParsePage(n) ==
    LET page == IF AtoiSafe(n) > 0 THEN AtoiSafe(n) ELSE 1
    IN IF page > MaxPage THEN MaxPage ELSE page

ParseLimit(n) == IF AtoiSafe(n) \in 1..MaxLimit THEN AtoiSafe(n) ELSE DefaultLimit

\* mutant: pages counted from 0
OffsetFromZero(page, limit) == page * limit
Offset(page, limit) == (page - 1) * limit

-----------------------------------------------------------------------------
\* EventRepository.ListBySession

At(t) == {e \in Recorded : rows[e] = t}
\* How many events come before those of time t: "ORDER BY created_at DESC".
Before(t) == Cardinality({e \in Recorded : rows[e] > t})

\* How many of the places offset .. offset + limit - 1 are those of events of time t.
Places(t, limit, offset) ==
    LET first == IF Before(t) > offset THEN Before(t) ELSE offset
        last == IF Before(t) + Cardinality(At(t)) < offset + limit
                THEN Before(t) + Cardinality(At(t)) ELSE offset + limit
    IN IF last > first THEN last - first ELSE 0

\* The sets of events that may be returned: which of the events of one time come on
\* which page is up to the database, anew in each query.
Pages(limit, offset) ==
    {P \in SUBSET Recorded : \A t \in {rows[e] : e \in Recorded} :
        Cardinality(P \cap At(t)) = Places(t, limit, offset)}

\* COUNT(*) OVER () is a column of the rows: without a row there is no count.
Total(P) == IF P = {} THEN 0 ELSE Cardinality(Recorded)

-----------------------------------------------------------------------------
\* The client

\* pageParam: the page asked for next; page, limit, total: of the last answer; start: what
\* was recorded when the walk began, seen: what it has been shown.
Walk == [state : {"idle", "walking", "done"}, first : Nat, pageParam : Nat, limitParam : Nat,
         page : 0..MaxPage, limit : 0..MaxLimit, total : Nat, start : SUBSET Event, seen : SUBSET Event]

Rest == [state |-> "idle", first |-> 0, pageParam |-> 0, limitParam |-> 0, page |-> 0,
         limit |-> 0, total |-> 0, start |-> {}, seen |-> {}]

Unanswered(w) == w.page = 0 /\ w.limit = 0 /\ w.state # "done"

\* Every answer has its page and its limit within their bounds, from 1, whatever is asked
\* for, so that no offset is negative or overflows and no query fetches more than MaxLimit
\* rows.
TypeOK ==
    /\ rows \in [Event -> (0..MaxTime) \cup {NoRow}]
    /\ walk \in [Client -> Walk]
    /\ \A c \in Client : \/ Unanswered(walk[c])
                         \/ walk[c].page \in 1..MaxPage /\ walk[c].limit \in 1..MaxLimit

Init ==
    /\ rows \in [Event -> (0..MaxTime) \cup {NoRow}]
    /\ walk = [c \in Client |-> Rest]

Begin(c, pageParam, limitParam) ==
    /\ walk[c].state = "idle"
    /\ walk' = [walk EXCEPT ![c] = [Rest EXCEPT !.state = "walking", !.first = pageParam,
                    !.pageParam = pageParam, !.limitParam = limitParam, !.start = Recorded]]
    /\ UNCHANGED rows

\* ListEvents.  The client goes on to the next page until page * limit reaches the total.
ListEvents(c) ==
    LET w == walk[c]
        page == ParsePage(w.pageParam)
        limit == ParseLimit(w.limitParam)
    IN
    /\ w.state = "walking"
    /\ \E P \in Pages(limit, Offset(page, limit)) :
          walk' = [walk EXCEPT ![c] =
             [w EXCEPT !.page = page, !.limit = limit, !.total = Total(P), !.seen = @ \cup P,
                       !.pageParam = page + 1,
                       !.state = IF page * limit >= Total(P) THEN "done" ELSE "walking"]]
    /\ UNCHANGED rows

\* RecordEvent: created_at is taken before the insert, so it may be older than that of
\* rows which are there already.
RecordEvent(e, t) ==
    /\ rows[e] = NoRow
    /\ rows' = [rows EXCEPT ![e] = t]
    /\ UNCHANGED walk

Finished == /\ \A c \in Client : walk[c].state = "done"
            /\ UNCHANGED vars

Next ==
    \/ \E c \in Client : \/ \E p \in PageParams, l \in LimitParams : Begin(c, p, l)
                         \/ ListEvents(c)
    \/ \E e \in Event, t \in 0..MaxTime : RecordEvent(e, t)
    \/ Finished

Spec == Init /\ [][Next]_vars
\* A client that has begun goes on.
FairSpec == Spec /\ \A c \in Client : WF_vars(ListEvents(c))

-----------------------------------------------------------------------------
\* Properties

FirstPage(c) == ParsePage(walk[c].first) = 1
Unique(e) == At(rows[e]) = {e}

\* A client that has walked from the first page to the end has seen every event that was
\* there when it began, whatever was recorded meanwhile, with an older created_at too:
\* inserts only push events to later pages (event_repository.go:50-51).  Events that
\* share their created_at with another are excepted.
WalkSeesAll ==
    \A c \in Client :
        walk[c].state = "done" /\ FirstPage(c) =>
            \A e \in walk[c].start : Unique(e) => e \in walk[c].seen

\* Every walk comes to its end: the total that is compared with page * limit cannot run
\* away from it for ever.
WalkEnds == \A c \in Client : (walk[c].state = "walking") ~> (walk[c].state = "done")
=============================================================================
