---------------------------- MODULE ServerLifecycle ----------------------------
(***************************************************************************)
(* The life of the process, cmd/server/main.go: main opens the stores,     *)
(* starts the listener in a goroutine, asks for signals, waits for one,    *)
(* shuts the HTTP server down with a deadline and returns, whereupon the   *)
(* deferred calls close Redis and the connection pool, while handlers, a   *)
(* goroutine each, make their store calls with connections of the pool.    *)
(*                                                                         *)
(* A handler holds no connection while it asks for another.                *)
(***************************************************************************)
EXTENDS Integers, FiniteSets

CONSTANTS
    Req,       \* connections on which a request may be in progress
    MaxConns,  \* pgxpool MaxConns
    MaxCalls,  \* store calls of a handler, at most
    Grace      \* ticks of the deadline of Shutdown, 15 seconds

ASSUME LifecycleAssumption == MaxConns \in Nat \ {0} /\ MaxCalls \in Nat /\ Grace \in Nat

VARIABLES
    main,       \* where the main goroutine is
    notified,   \* signal.Notify has been called: signals go to the channel
    listener,   \* the goroutine of ListenAndServe
    grace,      \* ticks left of the deadline
    redis,      \* the Redis client; "none" also when the first Ping failed
    pool,       \* the connection pool
    req,        \* per connection: the request in progress
    denied      \* history: requests a store call of which was refused by a closed pool

vars == <<main, notified, listener, grace, redis, pool, req, denied>>

Starting == {"load_config", "open_pool", "dial_redis", "load_permissions", "serve", "notify"}
Stopping == {"close_redis", "close_pool", "drain_pool", "exited"}
MainPC == Starting \cup {"wait_signal", "shutdown", "died"} \cup Stopping
Store == {"none", "open", "closed"}
\* A handler runs, waits for a connection of the pool, or uses one.
State == {"idle", "running", "acquiring", "querying", "killed"}
Request == [state : State, calls : 0..MaxCalls]

TypeOK ==
    /\ main \in MainPC
    /\ notified \in BOOLEAN
    /\ listener \in {"none", "starting", "open", "closed"}
    /\ grace \in 0..Grace
    /\ redis \in Store
    /\ pool \in Store
    /\ req \in [Req -> Request]
    /\ denied \subseteq Req

Init ==
    /\ main = "load_config" /\ notified = FALSE
    /\ listener = "none"
    /\ grace = Grace
    /\ redis = "none" /\ pool = "none"
    /\ req = [r \in Req |-> [state |-> "idle", calls |-> 0]]
    /\ denied = {}

Active(r) == req[r].state \in {"running", "acquiring", "querying"}
Ended == main \in {"exited", "died"}
InUse == {r \in Req : req[r].state = "querying"}

-----------------------------------------------------------------------------
\* Handlers

SetState(r, s) == req' = [req EXCEPT ![r].state = s]
KeepMain == UNCHANGED <<main, notified, listener, grace, redis, pool>>

Accept(r, calls) ==
    /\ listener = "open" /\ ~Ended /\ req[r].state = "idle"
    /\ req' = [req EXCEPT ![r] = [state |-> "running", calls |-> calls]]
    /\ denied' = denied \ {r}
    /\ KeepMain

CallStore(r) ==
    /\ req[r].state = "running" /\ req[r].calls > 0 /\ ~Ended
    /\ req' = [req EXCEPT ![r] = [state |-> "acquiring", calls |-> @.calls - 1]]
    /\ UNCHANGED denied /\ KeepMain

Acquire(r) ==
    /\ req[r].state = "acquiring" /\ pool = "open" /\ Cardinality(InUse) < MaxConns
    /\ SetState(r, "querying")
    /\ UNCHANGED denied /\ KeepMain

\* The pool is closed: the call fails, and the handler answers with an error, or drops it
\* and goes on to its next call.
AcquireFails(r) ==
    /\ req[r].state = "acquiring" /\ pool = "closed" /\ ~Ended
    /\ \E calls \in {0, req[r].calls} :
          req' = [req EXCEPT ![r] = [state |-> "running", calls |-> calls]]
    /\ denied' = denied \cup {r}
    /\ KeepMain

\* mutant: the rows of a query are not closed
ReleaseNot(r) ==
    /\ req[r].state = "querying" /\ ~Ended
    /\ IF req[r].calls > 0 THEN req' = [req EXCEPT ![r] = [state |-> "querying", calls |-> @.calls - 1]]
                           ELSE UNCHANGED req
    /\ UNCHANGED denied /\ KeepMain

Release(r) ==
    /\ req[r].state = "querying" /\ ~Ended
    /\ SetState(r, "running")
    /\ UNCHANGED denied /\ KeepMain

\* A handler may return before its last call, when one has failed.
Answer(r) ==
    /\ req[r].state = "running" /\ ~Ended
    /\ SetState(r, "idle")
    /\ UNCHANGED denied /\ KeepMain

-----------------------------------------------------------------------------
\* main

KeepRequests == UNCHANGED <<req, denied>>
Kill == req' = [r \in Req |-> IF Active(r) THEN [req[r] EXCEPT !.state = "killed"] ELSE req[r]]

\* main gets on from one of its places to another.
Go(from, to) == main = from /\ main' = to
Die == ~Ended /\ main' = "died" /\ Kill

\* config.Load: a variable that is required is not set, or the DSN is none.
LoadConfig ==
    /\ main = "load_config" /\ main' \in {"open_pool", "died"}
    /\ UNCHANGED <<notified, listener, grace, redis, pool>> /\ KeepRequests

\* NewPool pings, and closes the pool again when that fails.
OpenPool ==
    /\ \/ Go("open_pool", "dial_redis") /\ pool' = "open"
       \/ Go("open_pool", "died") /\ UNCHANGED pool
    /\ UNCHANGED <<notified, listener, grace, redis>> /\ KeepRequests

\* NewClient pings; without Redis the server goes on.
DialRedis ==
    /\ Go("dial_redis", "load_permissions") /\ redis' \in {"none", "open"}
    /\ UNCHANGED <<notified, listener, grace, pool>> /\ KeepRequests

\* What Refresh loads or fails to load is the matter of AccessControl.
LoadPermissions ==
    /\ Go("load_permissions", "serve")
    /\ UNCHANGED <<notified, listener, grace, redis, pool>> /\ KeepRequests

Serve ==
    /\ Go("serve", "notify") /\ listener' = "starting"
    /\ UNCHANGED <<notified, grace, redis, pool>> /\ KeepRequests

Notify ==
    /\ Go("notify", "wait_signal") /\ notified' = TRUE
    /\ UNCHANGED <<listener, grace, redis, pool>> /\ KeepRequests

Listen ==
    /\ listener = "starting" /\ ~Ended /\ listener' = "open"
    /\ UNCHANGED <<main, notified, grace, redis, pool>> /\ KeepRequests

\* ListenAndServe returns an error, of Listen or of a later Accept: os.Exit(1), with no
\* deferred call.
ListenFails ==
    /\ listener \in {"starting", "open"} /\ Die
    /\ UNCHANGED <<notified, listener, grace, redis, pool, denied>>

\* A signal that nobody asked for yet ends the process, and the requests that the
\* listener has accepted before main came to signal.Notify.
SignalKills ==
    /\ ~notified /\ Die
    /\ UNCHANGED <<notified, listener, grace, redis, pool, denied>>

\* Further signals are caught and not looked at.  Shutdown also keeps a listener from
\* opening.
Signal ==
    /\ Go("wait_signal", "shutdown") /\ listener' = "closed"
    /\ UNCHANGED <<notified, grace, redis, pool>> /\ KeepRequests

\* mutant: main returns as soon as the listener is closed
ShutdownAtOnce ==
    /\ Go("shutdown", "close_redis")
    /\ UNCHANGED <<notified, listener, grace, redis, pool>> /\ KeepRequests

\* Server.Shutdown returns when no connection is in use, or when its time is up.
Shutdown ==
    /\ Go("shutdown", "close_redis")
    /\ grace = 0 \/ \A r \in Req : ~Active(r)
    /\ UNCHANGED <<notified, listener, grace, redis, pool>> /\ KeepRequests

\* Deferred only where there is a client.
CloseRedis ==
    /\ Go("close_redis", "close_pool")
    /\ redis' = IF redis = "open" THEN "closed" ELSE redis
    /\ UNCHANGED <<notified, listener, grace, pool>> /\ KeepRequests

\* Pool.Close hands out no more connections and waits for those that are out.
ClosePool ==
    /\ Go("close_pool", "drain_pool") /\ pool' = "closed"
    /\ UNCHANGED <<notified, listener, grace, redis>> /\ KeepRequests

Exit ==
    /\ Go("drain_pool", "exited") /\ InUse = {}
    /\ Kill
    /\ UNCHANGED <<notified, listener, grace, redis, pool, denied>>

Tick ==
    /\ main = "shutdown" /\ grace > 0
    /\ grace' = grace - 1
    /\ UNCHANGED <<main, notified, listener, redis, pool>> /\ KeepRequests

Startup == LoadConfig \/ OpenPool \/ DialRedis \/ LoadPermissions \/ Serve \/ Notify
Main == Startup \/ Shutdown \/ CloseRedis \/ ClosePool \/ Exit

Next ==
    \/ \E r \in Req :
          \/ \E calls \in 0..MaxCalls : Accept(r, calls)
          \/ CallStore(r) \/ Acquire(r) \/ AcquireFails(r) \/ Release(r) \/ Answer(r)
    \/ Main \/ Listen \/ ListenFails \/ SignalKills \/ Signal \/ Tick
    \/ Ended /\ UNCHANGED vars

Spec == Init /\ [][Next]_vars

-----------------------------------------------------------------------------
\* Properties

\* A store is closed, a store call refused, or a request killed only after the grace
\* period has run out over requests in progress: who is done within 15 seconds is served
\* in full (main.go:150-155).  But for a process that ends before it comes to Shutdown: by
\* a signal that main has not asked for yet, or by an error of the listener.
GraceIsGiven ==
    /\ "closed" \in {redis, pool} => grace = 0 \/ \A r \in Req : ~Active(r)
    /\ denied # {} => grace = 0
    /\ main # "died" /\ (\E r \in Req : req[r].state = "killed") => grace = 0

\* A signal ends the process, also when handlers are stuck behind one another in the pool.
SignalEnds == main = "shutdown" ~> main = "exited"

\* A request in progress comes to its end: handlers never wait for each other's
\* connections, however small the pool is.
RequestsEnd == \A r \in Req : Active(r) ~> ~Active(r)
=============================================================================
