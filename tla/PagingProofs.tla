---------------------------- MODULE PagingProofs ----------------------------
(***************************************************************************)
(* Theorems about Paging, for every number of events, clients and pages,   *)
(* every limit and all times of creation.                                  *)
(***************************************************************************)
EXTENDS Paging, FiniteSetTheorems, WellFoundedInduction, TLAPS

-----------------------------------------------------------------------------
\* Finite sets of numbers

IsSmallest(X, F) == X \in F /\ \A Y \in F : Y \subseteq X => Y = X

LEMMA Smallest ==
    ASSUME NEW S, IsFiniteSet(S), NEW F, F \in SUBSET SUBSET S, F # {}
    PROVE  \E X : IsSmallest(X, F)
<1>1. F \subseteq FiniteSubsetsOf(S)
  BY FS_FiniteSubsetsOfFinite
<1>2. \E X \in F : \A Y \in F : ~ (<<Y, X>> \in StrictSubsetOrdering(S))
  BY <1>1, FS_StrictSubsetOrderingWellFounded, WFMin
<1> QED BY <1>2 DEF StrictSubsetOrdering, IsSmallest

Under(T, n) == {m \in T : m < n}
Above(T, n) == {m \in T : m > n}

LEMMA Least ==
    ASSUME NEW T, T \subseteq Int, IsFiniteSet(T), T # {}
    PROVE  \E x \in T : \A y \in T : x <= y
<1> DEFINE F == {Under(T, n) : n \in T}
<1>1. F \in SUBSET SUBSET T /\ F # {}
  BY DEF Under
<1>2. PICK X : IsSmallest(X, F)
  <2> HIDE DEF F
  <2> QED BY <1>1, Smallest, Zenon
<1>3. PICK x \in T : \A y \in T : Under(T, y) \subseteq Under(T, x) => Under(T, y) = Under(T, x)
  BY <1>2 DEF IsSmallest
<1>4. ASSUME NEW y \in T, y < x
      PROVE  FALSE
  <2>1. x \in Int /\ y \in Int /\ \A m \in T : m \in Int
    OBVIOUS
  <2>2. ASSUME NEW m \in Under(T, y)
        PROVE  m \in Under(T, x)
    BY <1>4, <2>1 DEF Under
  <2>3. y \in Under(T, x) /\ y \notin Under(T, y)
    BY <1>4, <2>1 DEF Under
  <2> QED BY <1>3, <2>2, <2>3
<1>5. \A y \in T : x <= y
  <2>1. \A y \in T : x \in Int /\ y \in Int /\ ~(y < x)
    BY <1>4
  <2> QED BY <2>1
<1> QED BY <1>5

LEMMA Greatest ==
    ASSUME NEW T, T \subseteq Int, IsFiniteSet(T), T # {}
    PROVE  \E x \in T : \A y \in T : y <= x
<1> DEFINE F == {Above(T, n) : n \in T}
<1>1. F \in SUBSET SUBSET T /\ F # {}
  BY DEF Above
<1>2. PICK X : IsSmallest(X, F)
  <2> HIDE DEF F
  <2> QED BY <1>1, Smallest, Zenon
<1>3. PICK x \in T : \A y \in T : Above(T, y) \subseteq Above(T, x) => Above(T, y) = Above(T, x)
  BY <1>2 DEF IsSmallest
<1>4. ASSUME NEW y \in T, y > x
      PROVE  FALSE
  <2>1. x \in Int /\ y \in Int /\ \A m \in T : m \in Int
    OBVIOUS
  <2>2. ASSUME NEW m \in Above(T, y)
        PROVE  m \in Above(T, x)
    BY <1>4, <2>1 DEF Above
  <2>3. y \in Above(T, x) /\ y \notin Above(T, y)
    BY <1>4, <2>1 DEF Above
  <2> QED BY <1>3, <2>2, <2>3
<1>5. \A y \in T : y <= x
  <2>1. \A y \in T : x \in Int /\ y \in Int /\ ~(y > x)
    BY <1>4
  <2> QED BY <2>1
<1> QED BY <1>5

-----------------------------------------------------------------------------
\* Pages and limits

LEMMA Parsed ==
    ASSUME NEW n \in Nat
    PROVE  /\ ParsePage(n) \in 1..MaxPage
           /\ ParseLimit(n) \in 1..MaxLimit
           /\ n \in 1..MaxPage => ParsePage(n) = n
BY PagingAssumption DEF ParsePage, ParseLimit, AtoiSafe

LEMMA Product ==
    ASSUME NEW page \in Nat, NEW limit \in Nat \ {0}
    PROVE  /\ page * limit \in Nat
           /\ page <= page * limit
           /\ Offset(page + 1, limit) = page * limit
           /\ Offset(1, limit) = 0
           /\ page * limit = Offset(page, limit) + limit
<1>1. page * limit \in Nat /\ page <= page * limit
  BY Z3
<1>2. page * limit = (page - 1) * limit + limit
  BY Z3
<1>3. (page + 1) - 1 = page /\ (1 - 1) * limit = 0
  OBVIOUS
<1> QED BY <1>1, <1>2, <1>3 DEF Offset

-----------------------------------------------------------------------------
\* The places of the list

Newer(t) == {e \in Recorded : rows[e] > t}

LEMMA Counts ==
    ASSUME TypeOK
    PROVE  /\ IsFiniteSet(Recorded) /\ Cardinality(Recorded) \in Nat
           /\ Cardinality(Recorded) <= MaxPage
           /\ \A e \in Recorded : e \in Event /\ rows[e] \in 0..MaxTime
           /\ \A t \in Int : /\ IsFiniteSet(Newer(t)) /\ IsFiniteSet(At(t))
                             /\ Before(t) = Cardinality(Newer(t))
                             /\ Before(t) \in Nat /\ Cardinality(At(t)) \in Nat
<1>1. Recorded \subseteq Event /\ \A e \in Recorded : e \in Event /\ rows[e] \in 0..MaxTime
  BY DEF Recorded, TypeOK
<1>2. /\ IsFiniteSet(Recorded) /\ Cardinality(Recorded) <= Cardinality(Event)
      /\ Cardinality(Recorded) \in Nat /\ Cardinality(Event) \in Nat
  BY <1>1, ListFits, FS_Subset, FS_CardinalityType
<1>3. ASSUME NEW t \in Int
      PROVE  /\ IsFiniteSet(Newer(t)) /\ IsFiniteSet(At(t))
             /\ Before(t) = Cardinality(Newer(t))
             /\ Before(t) \in Nat /\ Cardinality(At(t)) \in Nat
  <2>1. Newer(t) \subseteq Recorded /\ At(t) \subseteq Recorded
    BY DEF Newer, At
  <2>2. IsFiniteSet(Newer(t)) /\ IsFiniteSet(At(t))
    BY <1>2, <2>1, FS_Subset
  <2> QED BY <2>2, FS_CardinalityType DEF Before, Newer
<1> QED BY <1>1, <1>2, <1>3, ListFits, PagingAssumption

\* Where an event stands that shares its time with no other, and that it stands somewhere.
LEMMA Places1 ==
    ASSUME TypeOK, NEW e \in Recorded
    PROVE  /\ rows[e] \in Nat /\ Cardinality(At(rows[e])) >= 1
           /\ Before(rows[e]) < Cardinality(Recorded)
<1>1. rows[e] \in Nat
  BY Counts
<1>2. {e} \subseteq At(rows[e]) /\ Newer(rows[e]) \subseteq Recorded \ {e}
  BY <1>1 DEF At, Newer
<1>3. Cardinality({e}) = 1 /\ IsFiniteSet({e})
  BY FS_Singleton
<1>4. Cardinality(At(rows[e])) >= 1
  BY <1>1, <1>2, <1>3, Counts, FS_Subset
<1>5. /\ IsFiniteSet(Recorded \ {e})
      /\ Cardinality(Recorded \ {e}) = Cardinality(Recorded) - 1
  BY Counts, FS_RemoveElement
<1>6. Before(rows[e]) <= Cardinality(Recorded \ {e})
  BY <1>1, <1>2, <1>5, Counts, FS_Subset
<1> QED BY <1>1, <1>4, <1>5, <1>6, Counts

\* Places are taken without a gap: up to that of any event, each is of some time.
LEMMA NoGap ==
    ASSUME TypeOK, NEW o \in Nat, NEW e \in Recorded, Before(rows[e]) >= o
    PROVE  \E x \in Recorded : /\ Before(rows[x]) <= o
                               /\ o < Before(rows[x]) + Cardinality(At(rows[x]))
<1> DEFINE T == {rows[x] : x \in Recorded}
           Reaching == {t \in T : Before(t) + Cardinality(At(t)) > o}
<1>1. IsFiniteSet(T) /\ T \subseteq Int
  <2>1. T \subseteq 0..MaxTime /\ T \subseteq Int
    BY Counts
  <2>2. IsFiniteSet(0..MaxTime)
    BY PagingAssumption, FS_Interval
  <2> QED BY <2>1, <2>2, FS_Subset
<1>2. rows[e] \in Reaching
  <2>1. rows[e] \in T
    OBVIOUS
  <2>2. /\ Before(rows[e]) \in Nat /\ Cardinality(At(rows[e])) \in Nat
        /\ Cardinality(At(rows[e])) >= 1
    BY Counts, Places1
  <2>3. Before(rows[e]) + Cardinality(At(rows[e])) > o
    BY <2>2
  <2> QED BY <2>1, <2>3
<1>3. Reaching \subseteq T /\ Reaching \subseteq Int /\ IsFiniteSet(Reaching)
  BY <1>1, FS_Subset
<1>4. PICK t \in Reaching : \A y \in Reaching : y <= t
  <2> HIDE DEF Reaching
  <2> QED BY <1>2, <1>3, Greatest
<1>5. PICK x \in Recorded : rows[x] = t
  BY <1>3
<1>6. t \in Int /\ Before(t) \in Nat /\ Cardinality(At(t)) \in Nat
  BY <1>3, Counts
<1>7. ASSUME Before(t) > o
      PROVE  FALSE
  <2> DEFINE Later == {y \in T : y > t}
  <2>1. Newer(t) # {}
    BY <1>6, <1>7, Counts, FS_EmptySet
  <2>2. Later \subseteq Int /\ IsFiniteSet(Later) /\ Later # {}
    <3>1. Later # {}
      BY <2>1 DEF Newer
    <3> QED BY <1>1, <3>1, FS_Subset
  <2>3. PICK s \in Later : \A y \in Later : s <= y
    <3> HIDE DEF Later
    <3> QED BY <2>2, Least
  <2>4. s \in T /\ s \in Int /\ s > t
    BY <2>2, <2>3
  <2>5. \A y \in Recorded : rows[y] \in Int /\ (rows[y] > t <=> rows[y] > s \/ rows[y] = s)
    <3>1. \A y \in Recorded : rows[y] \in T /\ rows[y] \in Int
      BY <1>1
    <3>2. \A y \in Recorded : rows[y] > t => s <= rows[y]
      BY <2>3, <3>1
    <3> QED BY <1>6, <2>4, <3>1, <3>2
  <2>6. Newer(t) = Newer(s) \cup At(s) /\ Newer(s) \cap At(s) = {}
    BY <2>4, <2>5 DEF Newer, At
  <2>7. /\ IsFiniteSet(Newer(s)) /\ IsFiniteSet(At(s)) /\ Before(s) = Cardinality(Newer(s))
        /\ Before(s) \in Nat /\ Cardinality(At(s)) \in Nat /\ Before(t) = Cardinality(Newer(t))
    BY <1>6, <2>4, Counts
  <2>8. /\ Cardinality(Newer(s) \cup At(s))
              = Cardinality(Newer(s)) + Cardinality(At(s)) - Cardinality(Newer(s) \cap At(s))
        /\ Cardinality({}) = 0
    BY <2>7, FS_Union, FS_EmptySet
  <2>9. Before(s) + Cardinality(At(s)) > o
    <3>1. Before(t) = Before(s) + Cardinality(At(s)) - 0
      BY <2>6, <2>7, <2>8, Zenon
    <3> QED BY <1>6, <1>7, <2>7, <3>1
  <2>10. s \in Reaching
    BY <2>4, <2>9
  <2>11. s <= t
    BY <1>4, <2>10
  <2> QED BY <1>6, <2>4, <2>11
<1>8. Before(t) + Cardinality(At(t)) > o
  BY <1>4
<1> HIDE DEF T, Reaching
<1>9. Before(t) <= o
  BY <1>6, <1>7
<1> QED BY <1>5, <1>6, <1>8, <1>9

LEMMA PageNotEmpty ==
    ASSUME TypeOK, NEW limit \in Nat \ {0}, NEW o \in Nat, NEW P \in Pages(limit, o),
           NEW e \in Recorded, Before(rows[e]) >= o
    PROVE  P # {}
<1>1. PICK x \in Recorded : /\ Before(rows[x]) <= o
                           /\ o < Before(rows[x]) + Cardinality(At(rows[x]))
  BY NoGap
<1> DEFINE t == rows[x]
<1>2. Before(t) \in Nat /\ Cardinality(At(t)) \in Nat
  BY Counts
<1>3. Cardinality(P \cap At(t)) = Places(t, limit, o)
  BY DEF Pages
<1> HIDE DEF t
<1>4. Places(t, limit, o) > 0
  BY <1>1, <1>2 DEF Places, t
<1>5. Cardinality({}) = 0
  BY FS_EmptySet
<1>6. ASSUME P = {}
      PROVE  FALSE
  <2>1. P \cap At(t) = {}
    BY <1>6
  <2> QED BY <1>3, <1>4, <1>5, <2>1
<1> QED BY <1>6

LEMMA PageHasPlace ==
    ASSUME TypeOK, NEW limit \in Nat \ {0}, NEW o \in Nat, NEW P \in Pages(limit, o),
           NEW e \in Recorded, Unique(e), Before(rows[e]) >= o, Before(rows[e]) < o + limit
    PROVE  e \in P
<1> DEFINE t == rows[e]
<1>1. Before(t) \in Nat
  BY Counts
<1>2. At(t) = {e} /\ Cardinality(At(t)) = 1
  BY FS_Singleton DEF Unique
<1>3. Cardinality(P \cap At(t)) = Places(t, limit, o)
  BY DEF Pages
<1> HIDE DEF t
<1>4. Places(t, limit, o) = 1
  <2>1. Before(t) >= o /\ Before(t) < o + limit
    BY DEF t
  <2> QED BY <1>1, <1>2, <2>1 DEF Places
<1>5. Cardinality({}) = 0
  BY FS_EmptySet
<1>6. ASSUME e \notin P
      PROVE  FALSE
  <2>1. P \cap At(t) = {}
    BY <1>2, <1>6
  <2> QED BY <1>3, <1>4, <1>5, <2>1
<1> QED BY <1>6

-----------------------------------------------------------------------------
\* The inductive invariant

\* An event that was there when the walk began has been shown, or its place is on the page
\* asked for next or behind it.
NothingPassed(c) ==
    LET w == walk[c] IN
    \A e \in w.start : Unique(e) =>
        e \in w.seen \/ Before(rows[e]) >= Offset(ParsePage(w.pageParam), ParseLimit(w.limitParam))

WalkInv ==
    \A c \in Client : /\ walk[c].start \subseteq Recorded
                      /\ walk[c].state = "walking" /\ FirstPage(c) => NothingPassed(c)

IInv == TypeOK /\ WalkInv /\ WalkSeesAll

LEMMA InitInv == Init => IInv
<1> SUFFICES ASSUME Init
             PROVE  IInv
  OBVIOUS
<1>1. Rest \in Walk /\ Rest.state = "idle" /\ Rest.start = {} /\ Unanswered(Rest)
  BY PagingAssumption DEF Rest, Walk, Unanswered
<1>2. \A c \in Client : walk[c] = Rest
  BY DEF Init
<1>3. TypeOK
  BY <1>1, <1>2 DEF Init, TypeOK
<1> QED BY <1>1, <1>2, <1>3 DEF IInv, WalkInv, WalkSeesAll

\* A client that begins on the first page has passed nothing.
LEMMA BeginKeeps ==
    ASSUME IInv, NEW c \in Client, NEW p \in PageParams, NEW l \in LimitParams, Begin(c, p, l)
    PROVE  IInv'
<1> DEFINE w == [Rest EXCEPT !.state = "walking", !.first = p, !.pageParam = p, !.limitParam = l,
                             !.start = Recorded]
<1>1. p \in Nat /\ l \in Nat /\ Recorded \subseteq Event
  BY PagingAssumption DEF Recorded
<1>2. /\ w \in Walk /\ w.state = "walking" /\ w.first = p /\ w.pageParam = p
      /\ w.limitParam = l /\ w.start = Recorded /\ w.seen = {} /\ Unanswered(w)
  <2>1. Rest \in Walk /\ Rest.seen = {} /\ Rest.page = 0 /\ Rest.limit = 0
    BY PagingAssumption DEF Rest, Walk
  <2> QED BY <1>1, <2>1 DEF Walk, Unanswered
<1>3. walk' = [walk EXCEPT ![c] = w] /\ rows' = rows
  BY DEF Begin
<1> HIDE DEF w
<1>4. walk'[c] = w /\ \A d \in Client \ {c} : walk'[d] = walk[d]
  BY <1>3 DEF IInv, TypeOK
<1>5. TypeOK'
  BY <1>2, <1>3, <1>4 DEF IInv, TypeOK, Unanswered
<1>6. WalkInv'
  <2>1. ASSUME NEW d \in Client
        PROVE  walk'[d].start \subseteq Recorded'
    BY <1>2, <1>3, <1>4 DEF IInv, WalkInv, Recorded
  <2>2. ASSUME NEW d \in Client \ {c}, walk'[d].state = "walking", FirstPage(d)'
        PROVE  NothingPassed(d)'
    BY <1>3, <1>4, <2>2 DEF IInv, WalkInv, FirstPage, NothingPassed, Unique, At, Before, Recorded
  <2>3. ASSUME FirstPage(c)'
        PROVE  NothingPassed(c)'
    <3>1. ParsePage(p) = 1 /\ ParseLimit(l) \in Nat \ {0}
      BY <1>1, <1>2, <1>4, <2>3, Parsed DEF FirstPage
    <3>2. Offset(ParsePage(p), ParseLimit(l)) = 0
      BY <3>1, Product
    <3>3. \A e \in Recorded : Before(rows[e]) \in Nat
      BY Counts DEF IInv
    <3>4. \A e \in Recorded : Before(rows[e])' >= 0
      BY <1>3, <3>3 DEF Before, Recorded
    <3> QED BY <1>2, <1>3, <1>4, <3>2, <3>4 DEF NothingPassed
  <2> QED BY <2>1, <2>2, <2>3 DEF WalkInv
<1>7. WalkSeesAll'
  BY <1>2, <1>3, <1>4 DEF IInv, WalkSeesAll, FirstPage, Unique, At, Recorded
<1> QED BY <1>5, <1>6, <1>7 DEF IInv

\* What a page does not show stands behind it; and on the last page it shows everything.
LEMMA PageShows ==
    ASSUME TypeOK, NEW page \in 1..MaxPage, NEW limit \in 1..MaxLimit,
           NEW P \in Pages(limit, Offset(page, limit)),
           NEW e \in Recorded, Unique(e), Before(rows[e]) >= Offset(page, limit), e \notin P
    PROVE  Before(rows[e]) >= page * limit /\ page * limit < Total(P)
<1>1. page \in Nat /\ limit \in Nat \ {0} /\ page - 1 \in Nat
  BY PagingAssumption
<1>2. /\ page * limit \in Nat /\ page * limit = Offset(page, limit) + limit
      /\ Offset(page, limit) \in Nat
  <2>1. (page - 1) * limit \in Nat
    BY <1>1, Product
  <2> QED BY <1>1, <2>1, Product DEF Offset
<1> DEFINE o == Offset(page, limit)
<1> HIDE DEF o
<1>3. o \in Nat /\ P \in Pages(limit, o) /\ Before(rows[e]) >= o /\ page * limit = o + limit
  BY <1>2 DEF o
<1>4. Before(rows[e]) \in Nat
  BY Counts
<1>5. Before(rows[e]) >= page * limit
  <2>1. ~(Before(rows[e]) < o + limit)
    BY <1>1, <1>3, PageHasPlace
  <2> QED BY <1>1, <1>3, <1>4, <2>1
<1>6. P # {} /\ Before(rows[e]) < Cardinality(Recorded)
  BY <1>1, <1>3, PageNotEmpty, Places1
<1>7. page * limit < Total(P)
  BY <1>2, <1>4, <1>5, <1>6, Counts DEF Total
<1> QED BY <1>5, <1>7

LEMMA ListKeeps ==
    ASSUME IInv, NEW c \in Client, ListEvents(c)
    PROVE  IInv'
<1> DEFINE v == walk[c]
           page == ParsePage(v.pageParam)
           limit == ParseLimit(v.limitParam)
<1>1. v \in Walk /\ v.state = "walking" /\ rows' = rows /\ TypeOK
  BY DEF ListEvents, IInv, TypeOK
<1>2. page \in 1..MaxPage /\ limit \in 1..MaxLimit
  BY <1>1, Parsed DEF Walk
<1>3. PICK P \in Pages(limit, Offset(page, limit)) :
         walk' = [walk EXCEPT ![c] =
             [v EXCEPT !.page = page, !.limit = limit, !.total = Total(P), !.seen = @ \cup P,
                       !.pageParam = page + 1,
                       !.state = IF page * limit >= Total(P) THEN "done" ELSE "walking"]]
  BY DEF ListEvents
<1> DEFINE w == [v EXCEPT !.page = page, !.limit = limit, !.total = Total(P), !.seen = @ \cup P,
                          !.pageParam = page + 1,
                          !.state = IF page * limit >= Total(P) THEN "done" ELSE "walking"]
<1>4. P \subseteq Event /\ Total(P) \in Nat /\ Total(P) <= MaxPage /\ page + 1 \in Nat
  <2>1. P \subseteq Recorded /\ Recorded \subseteq Event
    BY DEF Pages, Recorded
  <2> QED BY <1>1, <1>2, <2>1, Counts, PagingAssumption DEF Total
<1> HIDE DEF page, limit
<1>5. /\ w \in Walk /\ w.first = v.first /\ w.start = v.start /\ w.limitParam = v.limitParam
      /\ w.pageParam = page + 1 /\ w.seen = v.seen \cup P
      /\ w.page \in 1..MaxPage /\ w.limit \in 1..MaxLimit
      /\ w.state = IF page * limit >= Total(P) THEN "done" ELSE "walking"
  <2>1. page \in 0..MaxPage /\ limit \in 0..MaxLimit /\ v.seen \cup P \in SUBSET Event
    BY <1>1, <1>2, <1>4 DEF Walk
  <2> HIDE DEF v
  <2> QED BY <1>1, <1>2, <1>4, <2>1 DEF Walk
<1>6. walk'[c] = w /\ \A d \in Client \ {c} : walk'[d] = walk[d]
  BY <1>1, <1>3 DEF TypeOK
<1>7. TypeOK'
  BY <1>1, <1>3, <1>5, <1>6 DEF TypeOK, Unanswered
<1> HIDE DEF w
<1>8. Recorded' = Recorded /\ \A e \in Event : Unique(e)' <=> Unique(e)
  BY <1>1 DEF Recorded, Unique, At
<1>9. \A e \in Event : Before(rows[e])' = Before(rows[e])
  BY <1>1 DEF Recorded, Before
<1>10. v.start \subseteq Recorded /\ Recorded \subseteq Event
  BY DEF IInv, WalkInv, Recorded
<1>11. ASSUME FirstPage(c)', NEW e \in v.start, Unique(e), e \notin w.seen
       PROVE  Before(rows[e]) >= page * limit /\ page * limit < Total(P)
  <2>1. e \notin v.seen /\ e \notin P /\ e \in Recorded
    BY <1>5, <1>10, <1>11
  <2>2. FirstPage(c)
    BY <1>5, <1>6, <1>11 DEF FirstPage
  <2>3. Before(rows[e]) >= Offset(page, limit)
    BY <1>1, <1>11, <2>1, <2>2 DEF IInv, WalkInv, NothingPassed, page, limit
  <2> QED BY <1>1, <1>2, <1>11, <2>1, <2>3, PageShows
<1>12. WalkInv'
  <2>1. ASSUME NEW d \in Client
        PROVE  walk'[d].start \subseteq Recorded'
    BY <1>5, <1>6, <1>8, <1>10 DEF IInv, WalkInv
  <2>2. ASSUME NEW d \in Client \ {c}, walk'[d].state = "walking", FirstPage(d)'
        PROVE  NothingPassed(d)'
    BY <1>6, <1>8, <1>9, <1>10, <2>2, <2>1 DEF IInv, WalkInv, FirstPage, NothingPassed
  <2>3. ASSUME walk'[c].state = "walking", FirstPage(c)'
        PROVE  NothingPassed(c)'
    <3>1. page * limit < Total(P)
      <4>1. page * limit \in Nat
        BY <1>2, Product, PagingAssumption
      <4> QED BY <1>4, <1>5, <1>6, <2>3, <4>1
    <3>2. page <= page * limit /\ page * limit \in Nat /\ Offset(page + 1, limit) = page * limit
      BY <1>2, Product, PagingAssumption
    <3>3. page + 1 \in 1..MaxPage
      BY <1>2, <1>4, <3>1, <3>2, PagingAssumption
    <3>4. ParsePage(page + 1) = page + 1
      BY <3>3, Parsed
    <3>5. Offset(ParsePage(w.pageParam), ParseLimit(w.limitParam)) = page * limit
      BY <1>5, <3>2, <3>4 DEF limit
    <3> QED BY <1>5, <1>6, <1>8, <1>9, <1>10, <1>11, <2>3, <3>5 DEF NothingPassed
  <2> QED BY <2>1, <2>2, <2>3 DEF WalkInv
<1>13. WalkSeesAll'
  <2>1. ASSUME NEW d \in Client \ {c}, walk'[d].state = "done", FirstPage(d)',
               NEW e \in walk'[d].start, Unique(e)'
        PROVE  e \in walk'[d].seen
    <3>1. e \in Event
      BY <1>6, <1>10 DEF IInv, WalkInv
    <3> QED BY <1>6, <1>8, <2>1, <3>1 DEF IInv, WalkSeesAll, FirstPage
  <2>2. ASSUME walk'[c].state = "done", FirstPage(c)', NEW e \in walk'[c].start, Unique(e)',
               e \notin walk'[c].seen
        PROVE  FALSE
    <3>1. e \in v.start /\ Unique(e) /\ e \notin w.seen
      BY <1>5, <1>6, <1>8, <1>10, <2>2
    <3>2. page * limit < Total(P)
      BY <1>11, <2>2, <3>1
    <3>4. page * limit \in Nat
      BY <1>2, Product, PagingAssumption
    <3>3. page * limit >= Total(P)
      BY <1>5, <1>6, <2>2
    <3> QED BY <1>4, <3>2, <3>3, <3>4
  <2> QED BY <2>1, <2>2 DEF WalkSeesAll
<1> QED BY <1>7, <1>12, <1>13 DEF IInv

\* Inserts only push events to later places.
LEMMA RecordKeeps ==
    ASSUME IInv, NEW e \in Event, NEW t \in 0..MaxTime, RecordEvent(e, t)
    PROVE  IInv'
<1>1. /\ walk' = walk /\ rows[e] = NoRow /\ rows'[e] = t
      /\ \A x \in Event \ {e} : rows'[x] = rows[x]
  BY DEF RecordEvent, IInv, TypeOK
<1>2. TypeOK' /\ TypeOK
  BY DEF RecordEvent, IInv, TypeOK, Unanswered
<1>3. /\ \A x \in Recorded : x \in Event /\ x # e /\ rows'[x] = rows[x]
      /\ Recorded \subseteq Recorded'
  BY <1>1 DEF Recorded
<1>4. ASSUME NEW x \in Recorded
      PROVE  /\ Unique(x)' => Unique(x)
             /\ Before(rows[x])' >= Before(rows[x]) /\ Before(rows[x])' \in Nat
  <2>1. rows[x] \in Int /\ rows'[x] = rows[x]
    BY <1>2, <1>3, Counts
  <2>2. At(rows[x]) \subseteq At(rows[x])' /\ x \in At(rows[x])
    BY <1>3, <2>1 DEF At
  <2>3. Newer(rows[x]) \subseteq Newer(rows[x])'
    BY <1>3, <2>1 DEF Newer
  <2>4. Before(rows[x]) = Cardinality(Newer(rows[x]))
    BY <1>2, <2>1, Counts
  <2>5. Before(rows[x])' = Cardinality(Newer(rows[x])') /\ IsFiniteSet(Newer(rows[x])')
    <3>1. Newer(rows[x])' \subseteq Event
      BY DEF Newer, Recorded
    <3> QED BY <3>1, ListFits, FS_Subset DEF Before, Newer
  <2>6. /\ Cardinality(Newer(rows[x])) <= Cardinality(Newer(rows[x])')
        /\ Cardinality(Newer(rows[x])) \in Nat /\ Cardinality(Newer(rows[x])') \in Nat
    BY <2>3, <2>5, FS_Subset, FS_CardinalityType
  <2> QED BY <2>2, <2>4, <2>5, <2>6 DEF Unique
<1>5. WalkInv'
  <2>1. ASSUME NEW c \in Client, walk'[c].state = "walking", FirstPage(c)'
        PROVE  NothingPassed(c)'
    <3> DEFINE o == Offset(ParsePage(walk[c].pageParam), ParseLimit(walk[c].limitParam))
    <3>1. walk[c].start \subseteq Recorded /\ walk[c] \in Walk
      BY <1>2 DEF IInv, WalkInv, TypeOK
    <3>2. NothingPassed(c)
      BY <1>1, <2>1 DEF IInv, WalkInv, FirstPage
    <3>3. o \in Int
      <4>1. ParsePage(walk[c].pageParam) \in Int /\ ParseLimit(walk[c].limitParam) \in Int
        BY <3>1, Parsed, PagingAssumption DEF Walk
      <4> QED BY <4>1 DEF Offset
    <3>4. \A x \in walk[c].start : Unique(x) => x \in walk[c].seen \/ Before(rows[x]) >= o
      BY <3>2 DEF NothingPassed
    <3> HIDE DEF o
    <3>5. ASSUME NEW x \in walk[c].start, Unique(x)', x \notin walk[c].seen
          PROVE  Before(rows[x])' >= o
      <4>1. x \in Recorded /\ Unique(x) /\ Before(rows[x])' >= Before(rows[x]) /\ Before(rows[x]) >= o
        BY <1>4, <3>1, <3>4, <3>5
      <4>2. Before(rows[x]) \in Nat
        BY <1>2, <4>1, Counts
      <4> QED BY <1>4, <3>3, <4>1, <4>2
    <3> QED BY <1>1, <3>5 DEF NothingPassed, o
  <2> QED BY <1>1, <1>3, <2>1 DEF IInv, WalkInv
<1>6. WalkSeesAll'
  <2>1. ASSUME NEW c \in Client, walk[c].state = "done", FirstPage(c),
               NEW x \in walk[c].start, Unique(x)'
        PROVE  x \in walk[c].seen
    <3>1. x \in Recorded
      BY DEF IInv, WalkInv
    <3>2. Unique(x)
      BY <1>4, <2>1, <3>1
    <3> QED BY <2>1, <3>2 DEF IInv, WalkSeesAll
  <2> QED BY <1>1, <2>1 DEF WalkSeesAll, FirstPage
<1> QED BY <1>2, <1>5, <1>6 DEF IInv

LEMMA NextKeeps == IInv /\ [Next]_vars => IInv'
<1>1. ASSUME IInv, UNCHANGED vars
      PROVE  IInv'
  BY <1>1 DEF vars, IInv, TypeOK, WalkInv, WalkSeesAll, NothingPassed, FirstPage, Unique, At, Before,
              Recorded, Unanswered
<1> QED BY <1>1, BeginKeeps, ListKeeps, RecordKeeps DEF Next, Finished

\* What is asked for as a page or a limit, however large, absent or no number, is brought
\* within its bounds, and so is what a client has been told.
THEOREM TypeCorrect == Spec => []TypeOK
<1>1. IInv => TypeOK
  BY DEF IInv
<1> QED BY <1>1, InitInv, NextKeeps, PTL DEF Spec

\* Whoever walks the list from its first page to its end has been shown every event that
\* was there at the beginning, for all limits and whatever is recorded meanwhile.
THEOREM WalkSeesAllHolds == Spec => []WalkSeesAll
<1>1. IInv => WalkSeesAll
  BY DEF IInv
<1> QED BY <1>1, InitInv, NextKeeps, PTL DEF Spec
=============================================================================
