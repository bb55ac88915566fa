------------------------------ MODULE RateLimit ------------------------------
(***************************************************************************)
(* The fixed-window rate limiter of one route: middleware.RateLimit, the   *)
(* Lua script it runs in Redis, and the key functions of the router.       *)
(*                                                                         *)
(* Time is counted in ticks; a Redis key is kept with the ticks it has     *)
(* left.  The script is atomic, and nothing else touches its keys, so a    *)
(* request is one step.  A count above the limit is kept as Limit + 1:     *)
(* no decision tells larger counts apart.                                  *)
(***************************************************************************)
EXTENDS Integers, FiniteSets

CONSTANTS
    Client,    \* what a body or a token names: an email, a refresh or an access token
    Address,   \* the IP address requests without a usable body come from
    Limit,     \* requests per window
    Window,    \* ticks a window lasts
    MaxFaults  \* bound: outages of Redis and calls of the script that return an error

ASSUME RateLimitBounds == Limit \in Nat \ {0} /\ Window \in Nat \ {0} /\ MaxFaults \in Nat
ASSUME AddressAssumption == Address \notin Client

Key == Client \cup {Address}
Recent == 0..(Window - 1)
Over == Limit + 1

VARIABLES
    count,    \* Redis mf:rl:<key>, 0 if there is no such key
    left,     \* ticks the key has left, 0 if there is none
    client,   \* the server holds a Redis client: Ping worked when it started
    redisUp,  \* Redis answers
    passed,   \* history: requests let through, by key and by how many ticks ago
    faults

vars == <<count, left, client, redisUp, passed, faults>>

TypeOK ==
    /\ count \in [Key -> 0..Over]
    /\ left \in [Key -> 0..Window]
    /\ client \in BOOLEAN
    /\ redisUp \in BOOLEAN
    /\ passed \in [Key -> [Recent -> Nat]]
    /\ faults \in Nat
    /\ \A k \in Key : count[k] = 0 <=> left[k] = 0

Init ==
    /\ count = [k \in Key |-> 0]
    /\ left = [k \in Key |-> 0]
    /\ redisUp \in BOOLEAN
    /\ client = redisUp
    /\ passed = [k \in Key |-> [i \in Recent |-> 0]]
    /\ faults = 0

-----------------------------------------------------------------------------
\* loginRateKey, registerRateKey, refreshRateKey read 512 bytes of the body.  What is
\* cut off there is no JSON any more, so the address becomes the key.
Bodies == {"short", "long"}
KeyOf(c, body) == IF body = "short" THEN c ELSE Address

\* mutant: the key is never given a time to live
RunScriptForever(k) ==
    /\ count' = [count EXCEPT ![k] = IF @ = Over THEN Over ELSE @ + 1]
    /\ UNCHANGED left
\* mutant: every request pushes the expiry back
RunScriptSliding(k) ==
    /\ count' = [count EXCEPT ![k] = IF @ = Over THEN Over ELSE @ + 1]
    /\ left' = [left EXCEPT ![k] = Window]
\* INCR, PEXPIRE when the count has become 1.
RunScript(k) ==
    /\ count' = [count EXCEPT ![k] = IF @ = Over THEN Over ELSE @ + 1]
    /\ left' = [left EXCEPT ![k] = IF count[k] = 0 THEN Window ELSE @]

\* mutant: one request too many
AllowsOneMore(current) == current <= Limit + 1
\* mutant: one request too few
AllowsOneLess(current) == current < Limit
Allows(current) == current <= Limit

LetThrough(k) == passed' = [passed EXCEPT ![k][0] = @ + 1]
Reject == UNCHANGED passed

\* RateLimit: without a client, or when the script fails, the request is let through; it
\* may have been counted although an error comes back.  Bound: without Redis no more than
\* Limit + 1 in a tick.
Serve(c, body) ==
    LET k == KeyOf(c, body)
        works == client /\ redisUp
    IN
    /\ \/ /\ works /\ RunScript(k) /\ (IF Allows(count'[k]) THEN LetThrough(k) ELSE Reject)
          /\ UNCHANGED faults
       \/ /\ works /\ faults < MaxFaults /\ faults' = faults + 1
          /\ LetThrough(k) /\ (RunScript(k) \/ UNCHANGED <<count, left>>)
       \/ /\ ~works /\ passed[k][0] <= Limit
          /\ LetThrough(k) /\ UNCHANGED <<count, left, faults>>
    /\ UNCHANGED <<client, redisUp>>

\* A key is gone when its time is up.
Tick ==
    /\ left' = [k \in Key |-> IF left[k] = 0 THEN 0 ELSE left[k] - 1]
    /\ count' = [k \in Key |-> IF left[k] <= 1 THEN 0 ELSE count[k]]
    /\ passed' = [k \in Key |-> [i \in Recent |-> IF i = 0 THEN 0 ELSE passed[k][i - 1]]]
    /\ UNCHANGED <<client, redisUp, faults>>

RedisDown ==
    /\ redisUp /\ faults < MaxFaults
    /\ redisUp' = FALSE /\ faults' = faults + 1
    /\ UNCHANGED <<count, left, client, passed>>

\* Redis comes back, with its keys or empty.
RedisUp ==
    /\ ~redisUp /\ redisUp' = TRUE
    /\ \/ UNCHANGED <<count, left>>
       \/ count' = [k \in Key |-> 0] /\ left' = [k \in Key |-> 0]
    /\ UNCHANGED <<client, passed, faults>>

Next ==
    \/ \E c \in Client, body \in Bodies : Serve(c, body)
    \/ Tick \/ RedisDown \/ RedisUp

Spec == Init /\ [][Next]_vars
\* Time passes.
FairSpec == Spec /\ WF_vars(Tick)

-----------------------------------------------------------------------------
\* Properties

\* A request let through is <<i, n>>: the n-th of those i ticks ago.
Passes(k) == UNION {{i} \X (1..passed[k][i]) : i \in Recent}
PassedLately(k) == Cardinality(Passes(k))
AlwaysUp == client /\ faults = 0

\* In any stretch of time as long as a window, a key is let through at most twice the
\* limit, and within one tick at most the limit, as long as Redis works: windows begin
\* with a request and not on the clock (rate_limit.go:26-29).
BurstBound ==
    AlwaysUp => \A k \in Key : PassedLately(k) <= 2 * Limit /\ passed[k][0] <= Limit

\* Nobody is rejected who has not been let through Limit times within the last window:
\* rejected requests are counted, but do not prolong the window.
RejectedOnlyOverLimit ==
    [][\A c \in Client, body \in Bodies :
          AlwaysUp /\ Serve(c, body) /\ passed' = passed
             => PassedLately(KeyOf(c, body)) >= Limit]_vars

\* A key over its limit gets through again, however often it is asked for meanwhile.
NeverLockedOut == \A k \in Key : count[k] >= Limit ~> count[k] < Limit
=============================================================================
