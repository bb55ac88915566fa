# masterfabric_backend in TLA+

Models, model-checking configurations and machine-checked proofs for the server in this repository: a Go HTTP
API over Postgres and Redis that signs users in, lets browsers record the inferences they run, and gives
administrators a monitoring report and a configuration document. Paths below are relative to the repository;
`iam/`, `llm/` and `config/` stand for `internal/application/<name>/usecase/`.

    tlc -workers 2 -config TokenFaults.cfg MCTokenLifecycle.tla     # one run
    tlapm InferenceProofs.tla                                       # one proof module

`PROJECT.json` lists the runs, the source lines every definition stands for, the mutants that show each
property can fail, the hazards and the theorems.

## 1. Inventory

One process serves HTTP. net/http starts a goroutine per connection; a handler decodes and validates the body,
calls one use case, and the use case makes store calls one after the other. **No use case opens a
transaction**: every statement is its own transaction, and whatever is read by one may have changed when the
next runs. That, the two stores (Postgres and Redis) written one after the other, and the copies of data that
live elsewhere (roles in tokens, permissions and reports in memory) are what makes this program hard to test.

| component | state | operations | talks to |
|---|---|---|---|
| refresh tokens (`iam/login, refresh, logout, change_password`) | `refresh_tokens`, `users.password_hash`, Redis `mf:revoked:*` | login, refresh (rotation), logout, change password | bcrypt, JWT service, accounts' tables |
| accounts (`iam/register, update_me, me`) | `users.email`, `user_roles`, `roles` | register, change of email | bcrypt, event bus |
| access control (`middleware/auth, rbac`, JWT service, permission resolver) | signed access tokens, the resolver's map | sign, verify, load permissions at startup, match a permission | tables `roles`, `user_roles` |
| inference recording (`llm/create_session, record_event, record_score`) | `llm_sessions`, `inference_events`, `decision_scores`, two Prometheus counters | create a session, record an event, score an event | event bus, telemetry |
| monitoring report (`monitoring_repository`, `monitoring_cache`) | map of reports with expiry times under an RWMutex | get a report (three queries, or a hit) | the tables above |
| event listing (`llm/list_events`, `pagination`) | none; the client's place in the list | one page and its total | `inference_events` |
| rate limiting (`middleware/rate_limit`, router) | Redis `mf:rl:*` counters with expiry | count and let through or reject | in front of login, register, refresh, record event |
| event bus (`shared/events/bus.go`) | handlers per topic under an RWMutex | Publish, Subscribe | use cases publish; nobody subscribes yet |
| server lifecycle (`cmd/server/main.go`, `shared/config`) | main goroutine, listener, pool, Redis client | startup, signal, graceful shutdown, deferred closes | everything |
| app config (`config/get_config, update_config`, migrations 00002 and 00008, `scripts/seed.go`) | one row of `app_config` | read, upsert, migrate, seed | the pool |
| reads, HTTP plumbing, health, telemetry | none of their own | | not modelled, section 8 |

Hard behaviours and what must hold, per component:

* **Refresh tokens.** Two refreshes with one token; a password change or a logout between the steps of a
  refresh; a crash or a failed call after the old token was revoked and before the new one was inserted; Redis
  away, restarted empty, or absent since startup; a token that expires while it is being refreshed. A session
  must stay one session, a token must be exchanged at most once, what Redis rejects must be rejected by the
  table too. The access tokens handed out beside them are looked up nowhere: they must be worthless soon after
  their session is over.
* **Accounts.** Registrations and changes of email race for one address in several spellings; an insert takes
  effect although its error comes back; the role is assigned by calls whose errors are dropped. One account
  per address; a race is a 409 and never a 500; a 409 has a reason.
* **Access control.** Roles are copied when a token is signed and looked up nowhere else; permissions are
  copied at startup. A revoked role must fade within a bounded time, and nobody may pass who has no role that
  carries what is asked.
* **Inference recording.** Two scores for one event; events of other people's sessions; counters that are
  moved in another system after the insert. Owner-only rows, one score, counters never ahead of the rows.
* **Monitoring.** Three queries at three moments; slow fills that overwrite the entries of faster ones;
  percentiles that are not whole. A report must not be staler than its lifetime, and its parts must be
  ordered.
* **Event listing.** The list grows at both ends between two pages. A walk from the first page must show every
  event that was there when it began (but for events of one moment, which may change places), and must end.
* **Rate limiting.** Windows that begin with a request, rejected requests that are counted, Redis outages.
  Bursts are bounded, nobody is rejected too early, nobody is locked out.
* **Event bus.** Handlers that fail, that subscribe others, writers that hold up readers. No lost
  subscription, no lost failure, no deadlock.
* **Lifecycle.** The signal under requests that wait for a small pool; the deadline; the moment between the
  start of the listener and `signal.Notify`. Whoever is done in time is served in full; the process ends.
* **App config.** Two administrators save whole documents over one another, and a PUT answers with what it
  reads again; migrations and the seed script run at every deployment beside it; a shutdown between the two
  store calls of a PUT. The last document saved stands, and is acknowledged.

## 2. Modules

| module | models | runs | proofs |
|---|---|---|---|
| `TokenLifecycle` | refresh tokens | token_faults, token_force_relogin | `TokenLifecycleProofs` |
| `AccessTokens` | refresh tokens together with access tokens | token_requests | `TokenLifecycleProofs` |
| `SessionChains` | what rotation promises, abstractly | as `ImplementsChains` in token_faults | `TokenLifecycleProofs` |
| `Accounts` | accounts | accounts | `AccountsProofs` |
| `AccessControl` | access control | access_control | `AccessControlProofs` |
| `Inference` | inference recording | inference | `InferenceProofs` |
| `Monitoring` | monitoring report | monitoring, monitoring_admin | `MonitoringProofs` |
| `Paging` | event listing | paging | `PagingProofs` |
| `RateLimit` | rate limiting | rate_limit | `PlatformProofs` |
| `EventBus` | event bus | event_bus | `PlatformProofs` |
| `ServerLifecycle` | server lifecycle | as part of lifecycle | in `ConfigServiceProofs` |
| `ConfigStore` | app config and the scripts of a deployment | as part of lifecycle | in `ConfigServiceProofs` |
| `ConfigService` | `ServerLifecycle` and `ConfigStore` composed | lifecycle | `ConfigServiceProofs` |

`MC<Module>` extends a module with its symmetry set; the `.cfg` files give the constants their values.
Operators marked "mutant" in a module are plausible mistakes (a dropped guard, a swapped order);
`PROJECT.json` pairs each with the property that notices it. They are part of no specification.

### How the models are written

A member of `Req` (or `Reader`) is a server goroutine. `req[r]` holds where it is (`pc`, named for the store
call that comes next), what it has read, and, when it is idle, the last answer it gave. **Every store call is
one action**, so a step is exactly what Postgres or Redis makes atomic, and everything can happen between two
steps. What Go computes between two store calls belongs to the action of the first. Names, emails, hashes and
payloads are members of small sets; HTTP decoding, wording and logging are left out.

Failures are actions, not assumptions. A store call has up to three outcomes: it works, it fails, or it *takes
effect although an error comes back* (the connection broke before the answer). `Restart` is a crash:
goroutines and memory are gone, tables stay. `MaxFaults` bounds how many of these happen in one behaviour.
Variables marked "history" are read by no action: they remember what properties speak of.

**TokenLifecycle.** A token stands for its opaque value, its hash and its row. Actions follow the use cases:
`LoginFind`, `LoginRoles`, `LoginCreate`; `RefreshIsRevoked` (Redis), `RefreshFind`, `RefreshSync` (the row is
revoked but Redis did not know: write it there), `RefreshRoles`, `RefreshRevoke` (`UPDATE ... WHERE revoked_at
IS NULL`, whose loser is told NOT_FOUND), `RefreshBlacklist`, `RefreshCreate`; `LogoutStart` ...
`LogoutBlacklist`; `ChangeFind`, `ChangeUpdate`, `ChangeRevokeAll`. `Tick` moves the clock,
`RedisDown`/`RedisUp` an outage after which Redis has its keys or none. A server that finds no Redis at
startup runs without a client until it is restarted (`client`). History: `parent` and `session` chain tokens
to the login they stem from, `authVersion` is the password a session was opened with.

**AccessTokens** extends `TokenLifecycle` with the second token that login and refresh hand out. A login signs
before it inserts the row (`LoginSign`, `LoginAnswer`), a refresh after (`RefreshInsert`, `RefreshAnswer`), and
everything may come in between. `Admit` is the router: logout and change-password are let through with an
access token that has not expired, whoever's refresh token the logout names, and `AuthRefuses` is what happens
without one. `ended` remembers when a session was over for the first time: no live row, and nobody about to
insert one (`Over`). A refresh that has inserted the row and has not signed yet keeps nothing open: a change of
password in between ends the session, and the refresh signs for it all the same. `MaxFlight` says how long it
may take to do so (`InTime`); `SignFails` is a signature that fails, by which the row's token is lost.

**SessionChains** is the abstract specification: a session is unborn, live, rotating or ended; a live session
is carried by one token; rotation puts a never-used token in its place. Stores, requests and clocks do not
exist there. The refinement mapping (`Chains` in TokenLifecycle) takes the live rows of a login's chain as the
carrier and a goroutine between `RefreshRevoke` and `RefreshCreate` as the rotation.

**Accounts.** An email is an address and whether it is spelled with capitals; `Normalise` is `ToLower` and
`TrimSpace`. The UNIQUE constraint compares the stored spelling. A registration is four store calls, of which
the last two may fail without the client being told; `excused` remembers when. `Seed` is the script that
creates the role, run before or after the first registrations.

**AccessControl.** `ReadRoles` and `GenerateAccess` are the end of login and refresh; `RequirePermission` is
`Auth` followed by the RBAC middleware; `GrantRole`, `RevokeRole` and `SetPermissions` are an administrator
with a database client, the only way these tables change. Time is relative (`left`, `age`, `since`), so the
state space is finite without a clock bound. Permissions are strings, as sequences of characters, for the
column `roles.permissions` is jsonb and may hold any. `Matches` is `matchPermission` with `isPrefixWildcard` as
coded; `Covers` says what a granted string stands for, without reference to how that is found out. `atStart`
remembers the permissions the server started with, which are those it decides by until it is restarted.

**Inference.** `FindOwnSession` is shared by events and scores. A score is `RecordScoreFind`,
`RecordScoreEvent`, `RecordScoreCreate`, `RecordScoreCount`; the composite of a score with a safety flag
becomes 0 on the way. Counters are in memory and zeroed by `Restart`.

**Monitoring.** A report is kept as the sets of rows each of its queries counted, which is what staleness and
consistency are about. The percentiles are computed (`Percentile100`, in hundredths), since whether they are
whole decides between a report and a 500. The `now` of a fill is taken on entry, as in the code, and decides
when the entry expires.

**Paging.** `created_at` decides the order, newest first; rows can be recorded with an older one. A page reads
its rows and its total in one statement, so a page beyond the end has total 0.

**RateLimit.** `RunScript` is the Lua script: INCR, and PEXPIRE when the count is 1. `KeyOf` is what the key
functions read: a body longer than 512 bytes is cut and no longer parses, so the client's address becomes the
key. `passed` remembers who was let through when.

**EventBus.** The RWMutex as Go implements it: one writer at a time is let in front of new readers and waits
for the old ones to leave. A goroutine per handler, the WaitGroup, and handlers that may call `Subscribe`
themselves. Its specification is called `BusSpec` (`BusInit`, `BusNext`, `BusTypeOK`), so that one module of
proofs can extend it together with `RateLimit`.

**ServerLifecycle.** main is a chain of steps: load the environment, open the pool, dial Redis, load the
permissions, start the listener's goroutine, ask for signals, wait; then shut down with the deadline, close
Redis, close the pool (which waits for connections in use), exit. Handlers take and return connections of the
pool. A failed start, `ListenFails` and `SignalKills` (a signal nobody asked for yet) end the process at once,
without the deferred calls.

**ConfigStore.** A document is one value: it is replaced as a whole. A PUT is `Upsert` and `Read`, each of
which can fail, and `UpsertUnheard` is an upsert that took effect and failed. `Migrate` makes the row once;
`Seed` is ON CONFLICT DO NOTHING on a row that is there. `mark` remembers whether a PUT has saved and whether
it was overtaken.

**ConfigService** extends the first and takes an instance of the second. A statement of `ConfigStore` runs
where a handler of `ServerLifecycle` gives its connection back (`Releases`), a statement on a closed pool is
`Refused`, other routes are handlers of which `ConfigStore` knows nothing (`OtherRoute`), and deployments
(`Deploys`) run whether the server is up or not.

## 3. Runs

A run takes between a few seconds and two minutes.

| run | bounds | shows |
|---|---|---|
| token_faults | 1 user, 3 tokens, 2 passwords, 2 goroutines, lifetime 1, clock 0..2, 1 fault | `OneLivePerSession`, `SingleSuccessor`, `MintedInTime`, `BlacklistComplete`, and that the use cases implement `SessionChains` |
| token_requests | the same with 2 tokens, access tokens of lifetime 1, flight 1 | `BlacklistOnlyRevoked`, `FewStaleSessions`, `LogoutRevokes` (of behaviours without a fault), `AccessFades` |
| token_force_relogin | 3 tokens, 2 passwords, no fault | violation: section 6 |
| accounts | 3 rows, 2 addresses in 2 spellings, 3 goroutines, 1 fault | `OneAccountPerAddress`, `RacesAreConflicts`, `WelcomedHaveRole`, `ConflictIsReal` |
| access_control | 1 user, 1 role given at most one of 8 strings (wildcards behind every kind of prefix), 2 routes, 2 goroutines, lifetime 2, flight 1, 1 fault | `RevokedRoleFades`, `LetThroughIsBacked` |
| inference | 2 users, 2 sessions, 1 event, 2 models, 2 goroutines, 1 fault | `RecordedByOwner`, `OneScoreAcknowledged`, `CountersFollow`, `FirstScoreStands` |
| monitoring | 2 events, 2 models, 2 latencies, 2 readers of one filter, lifetime 1, 1 fault | `StaleAtMostTTL`, `PartsInOrder` |
| monitoring_admin | 2 events, 1 reader, no fault | violation: section 6 |
| paging | 4 events, limits up to 2, pages and limits at and beyond their bounds, 1 client, fair | `WalkSeesAll`, `WalkEnds` |
| rate_limit | 1 client and the address, limit 2, window 3, 1 fault (an outage, or a script that fails, counted or not), fair | `BurstBound`, `RejectedOnlyOverLimit`, `NeverLockedOut` |
| event_bus | 2 handlers, 2 publishers, fair | `PublishWaitsForAll`, `NoSubscriptionLost`, `PublishReturns` |
| lifecycle | 2 requests on a pool of 1, up to 2 store calls each, 2 documents, grace 1, 1 fault, fair | `GraceIsGiven`, `SignalEnds`, `RequestsEnd`, `OwnUnlessOvertaken`, `LastSaveStands`, `SavedIsAcknowledged` |

The type invariants of Paging, RateLimit and EventBus are checked in their runs, where they say more than
types, and proved; those of the other modules are proved (section 5) and in no run. `SessionChains` is checked
through the refinement. token_faults takes two states for one that differ only in the last answers given, the
password version that a request compared, and `authVersion` (`VIEW Seen` in `MCTokenLifecycle`): no action
reads the answers, the version goes nowhere but into `authVersion`, and none of its properties speaks of them.

**Why the bounds are enough.** Every race in these use cases is between two requests, because a request shares
with the others only rows, and a row is decided by one conditional statement: two goroutines give every order
of two requests, and a goroutine serves any number of them in sequence, so "a request, then two that race" is
included. Three tokens are a login, its successor and a second login or a second rotation, the first case
where one session could become two. In token_requests two tokens are a login and its successor, and the clock
reaches the moment at which what was signed last expires. In access_control the strings granted include those
on which the code goes beyond its comment or falls short of it ("l*", "l:r*", ":*", "*:r"); one role is enough
to be granted, taken away and changed at every point, and two, which mean no more than two chances
(`PermissionsForRoles` is a union), are left to the proof. Three rows of accounts are two that race and one
whose address is contested. One fault per behaviour is every single failure at every point, including the
crash between any two store calls; two faults are covered by the proofs, which do not bound them. Times of 0
and 1 beyond a lifetime reach `now = ExpiresAt`, its neighbours and a request begun before and ended after it.
What a bound might hide is closed by the theorems of section 5 where there are any, which hold of all values.

Bounds that are guards in the modules, and therefore named there: `RoomForToken`, `RoomForHash`, `Free` and
the guard of `RegisterStart` (a request that inserts starts only while an id is left for it), `MaxTime`,
`MaxFaults`, `MaxVersion`, `MaxGrant`, one change of permissions between two restarts, and, without Redis, one
request more than the limit per tick.

**Fairness.** Weak fairness per goroutine and step: the Go scheduler runs a goroutine that can run, and every
store call ends, for the handlers' contexts and the drivers' timeouts end it. A request that nobody sends is
not assumed to be sent, a signal neither, Redis is not assumed to come back, a handler of the bus is assumed
to return. `Tick` is weakly fair where a deadline or an expiry is what ends a wait. The one strong fairness is
`Acquires` in ConfigService: pgxpool queues waiting handlers in order (a weighted semaphore), so one that
waits is served though the connection is handed to others in between; weak fairness would allow overtaking
forever. In Paging, the client goes on with its walk; recording of events is not fair and need not stop.

## 4. Assumptions

Each is an `ASSUME` or is said here. Statements at READ COMMITTED are atomic and see what was committed before
them. Random values never repeat. Postgres does not lose what it has committed. One server process. Clocks of
Go, Postgres and Redis agree. Lifetimes and the size of the pool are positive: `config.Load` enforces no
range, so this is asked of whoever sets the environment. In AccessControl a request takes at most `MaxFlight`
between reading roles and signing them, in AccessTokens a refresh as much between inserting its row and
signing; in Paging (`ListFits`) no session has more events than there are pages. Where proofs count, what is
counted is finite: goroutines (of which there is at least one) in TokenLifecycle, goroutines and events in
Inference, the events of Paging, the handlers of EventBus. All of these are finite in a process that runs.

## 5. Proofs

TLAPS checks these for all values of the constants: any number of users, tokens, goroutines, rows and faults.
A theorem named after a property is that property of the section above.

* **TokenLifecycleProofs**: `TypeCorrect`, `OneLivePerSessionHolds`, `SingleSuccessorHolds`,
  `TokenLifecycleImplementsChains`, `MintedInTimeHolds`, `BlacklistCompleteHolds`,
  `BlacklistOnlyRevokedHolds`, `LogoutRevokesHolds`. One live token per session is not inductive: a step can
  only be shown to keep it when what the requests in progress know is known too. The invariant adds `LocalsOK`
  (their token has a row, of the account they found), `RotatingSpent` (whoever is about to mint has revoked
  what it was given: this is where the conditional UPDATE enters), and `HistoryOK`. The argument: every step
  of the program either only takes liveness away from rows (`Shrinks`), or spends one token and begins a
  rotation (`Spends`), or inserts one row (`Issues`); each kind keeps the invariant and maps to an abstract
  step of SessionChains, so that the twenty-odd actions are looked at once. Lifetimes need a second invariant
  (`TimeInv`): the moment a refresh has captured lies in the past and before the expiry of the row it read
  (`TimesOK`), and whoever is about to write to the blacklist holds a revoked token (`SettledSpent`). A step
  keeps it because rows never change their expiry and are never un-revoked (`Keeps`). An entry of the blacklist
  that is there lasts until the expiry of its token (`BlacklistOutlivesToken`). That none is missing needs also
  that Redis is up as long as nothing has failed, and that whoever sweeps has stored a password
  (`Undisturbed`): who revokes one token goes on to write its entry, and who writes it late, after the token
  has expired, writes nothing and owes nothing.
* **TokenLifecycleProofs**, of the abstract promise: `ChainsOneSessionPerToken`, `ChainsNeverReused` have the
  two consequences a reader wants of SessionChains, and `SessionsAreCarried` carries them over to the program
  by the refinement.
* **TokenLifecycleProofs**, of sessions that survive a change of password: `FewStaleSessionsHolds`. How many
  there are is decided by two sets, the stale rows and the requests in flight that will insert one (`Late`),
  and neither bound is inductive alone. `FewInv` counts them together: fewer than there are goroutines. When
  a sweep ends there is no stale row, and the goroutine that swept is not in flight; from then on a request
  that lands turns one of the second set into one of the first, a rotation takes a row out and puts itself in,
  and no other step adds to either (`Turns`).
* **TokenLifecycleProofs**, of AccessTokens: `AccessTypeCorrect`, `AccessFadesHolds`,
  `OneLivePerSessionBehindRouter`, `BlacklistBehindRouter`, `FewStaleBehindRouter`,
  `LogoutRevokesBehindRouter`. A step of AccessTokens is one of TokenLifecycle, or a refusal by Auth, or
  leaves its variables alone (`StepOfTokens`), so the invariants above carry over; the runs check the last
  three in this composition. That access tokens fade needs that a
  session which is over stays so (`EndedForGood`): nobody can insert a row for it any more, since that takes a
  rotation in progress, which an ended session has not. What is left to sign for it was inserted before it
  ended, and at most `MaxFlight` ago (`Signing`), so that flight and lifetime add up here as well.
* **InferenceProofs**: `TypeCorrect`, `RecordedByOwnerHolds`, `OneScoreAcknowledgedHolds`,
  `FirstScoreStandsHolds`. The invariant adds what a goroutine keeps of its checks (`OwnSession`, and that the
  event it scores is the requester's); this stays true while it waits because no step changes a row
  (`RowsStand`), which is at once the fourth theorem. `CountersFollowHolds` keeps a ledger per counter
  (`CountersOK`): what has been counted and what a goroutine is about to count are together at most the rows,
  and exactly the rows as long as nothing has failed. Sums of scores are sizes of sets of points there
  (`CompositeSum`), since nothing can be proved here of a fold.
* **AccountsProofs**: `TypeCorrect`, `OneAccountPerAddressHolds`, `RacesAreConflictsHold`,
  `WelcomedHaveRoleHolds`, `ConflictIsRealHolds`. The invariant adds that only normalised emails are stored or
  about to be stored, without which UNIQUE would say nothing of addresses. `RacesAreConflictsHold` goes through
  every answer of every step (`OnlyLongPasswords`): without a fault a 500 leaves one place only, bcrypt's
  refusal of a long password.
* **AccessControlProofs**: `TypeCorrect`, `RevokedRoleFadesHolds`, `LetThroughIsBackedHolds`. The bound is not
  inductive either: the invariant says of every copy of a role that it is not older than the copy it is part
  of (`SigningIsFresh`, `TokensAreFresh`), so that flight and lifetime add up; and that the resolver knows no
  permission the table did not have at startup (`CacheIsLoaded`). `MatchesCovers` shows of all strings that
  what `matchPermission` accepts is covered by what was granted.
* **MonitoringProofs**: `TypeCorrect`, `StaleAtMostTTLHolds`, `PartsInOrderHolds`. The invariant says of a
  fill in progress, and of an entry, that it counts every event older than the moment it was begun; the moment
  of an entry is its expiry less the lifetime.
* **PagingProofs**: `TypeCorrect`, `WalkSeesAllHolds`. The invariant says of a walk that an event it has not
  seen is not behind it: its place is on the page asked for next, or later (`NothingPassed`). It is kept when
  an event is recorded, for that moves others only to later places; and when a page is read, for places have
  no gaps (`NoGap`): a page that shows nothing, or falls short of the total, has nothing after it. That a
  finite set of places has a least and a greatest member is proved by well-founded descent along strict
  subsets (`Least`, `Greatest`). Where pages are clamped (`pagination.go:41`), `ListFits` is needed: a longer
  list would send the walk back to page 1.
* **PlatformProofs**, of RateLimit: `TypeCorrect`, `BurstBoundHolds`, `RejectedOnlyOverLimitHolds`. What a key
  was let through is a set of pairs of a time and a number, cut by the beginning of its window: inside are as
  many as the count says, up to the limit, and of what came before at most one limit is still recent
  (`KeyOK`). A tick moves every pair by one, and when it ends a window the inside becomes what came before.
* **PlatformProofs**, of EventBus: `BusTypeCorrect`, `NoSubscriptionLostHolds`, `PublishWaitsForAllHolds`,
  `LockHeldBrieflyHolds`. The slice holds exactly those whose append is done, once (`SliceOK`), which is
  where the lock enters. Per publication: what was read contains whoever was subscribed at the call
  (`ReadOK`), goroutines were started for the places before the next (`StartedOK`), the WaitGroup is the
  number of those that have not returned (`WaitGroupOK`), and the result is computed when there are none
  (`ReturnOK`). The last theorem is why a handler may subscribe another: no publication has the lock while its
  handlers run.
* **ConfigServiceProofs**, first part, of ServerLifecycle: `TypeCorrect`, `GraceIsGivenHolds`. The invariant
  says what each side of the return from `Shutdown` guarantees: before it, the stores are open and nothing has
  been refused (`StoresOpen`); after it, nobody listens and either nothing is in progress or the grace period
  is over (`ShutdownOver`). The listener is not there before main is ready (`ListenerInTime`), and a signal
  kills only a main that has not asked for it (`NotifiedInTime`). So a refusal implies that the deadline has
  passed, and so does a killed request, unless the process died before it came to `Shutdown` (`KilledLate`).
* **ConfigServiceProofs**, second part: `ServiceIsLifecycle`, `ServiceIsConfigStore`: the composition is a
  server of ServerLifecycle and a store of ConfigStore, step for step, hence `ServiceGivesGrace`.
  `OwnUnlessOvertakenHolds` and `LastSaveStandsHolds` are proved of the store (`CallOK`: as long as a PUT is
  not overtaken, the row is what it saved). `SavedIsAcknowledgedHolds` needs both parts: a PUT between its two
  calls is refused only by a closed pool, which the lifecycle closes only when the grace period is over.

Only model-checked: liveness (`WalkEnds`, `NeverLockedOut`, `PublishReturns`, `SignalEnds`,
`RequestsEnd`), since fairness is out of the prover's reach. Every invariant and every action
property that a run expects to hold has its theorem. The two violations of section 6 are counterexamples, and
need no more than their run.

## 6. Where the repository disagrees with itself

Two disagreements have a run whose expected result is a counterexample.

* **token_force_relogin.** `change_password.go:47` says "Revoke all refresh tokens — force re-login on all
  devices". `RevokeAllForUser` revokes the rows that exist then. A login that compared the old hash, or a
  refresh that spent its token, before the sweep inserts a live row after it. `FewStaleSessions` says how far
  this goes: fewer sessions than there are goroutines.
* **monitoring_admin.** The report scans `PERCENTILE_CONT`, a double precision, into an int. With latencies 0
  and 1 the median is 0.5, which pgx refuses, and the administrator is answered 500 where `scripts/e2e.sh:538`
  expects 200.

Others were met while reading. They have no run of their own; the models follow the code.

* `logout.go:35` drops the error of `Revoke`: logout answers success while the token stays live in the table.
  `LogoutRevokes` therefore speaks of behaviours without a fault.
* `refresh.go:89`: of two refreshes with one token the loser is answered 404, for Revoke returns NOT_FOUND;
  `scripts/e2e.sh:202` expects 401 of a token used twice, and gets it when the two come one after the other.
* `token_blacklist.go:44`: without a Redis client every refresh is a 500 until the server is restarted, although
  `main.go:51` logs that it continues without Redis. No property covers this: that a refresh fails for good is
  what the code does, in every behaviour that starts without Redis.
* `router.go:199` limits events per token; `router.go:106` says per user. A refresh begins a new allowance.
* `router.go:130` hands on a body cut to 512 bytes, so a longer valid body is refused as malformed
  (`router.go:123` says the body is restored).
* `register.go:41`: bcrypt refuses more than 72 bytes, `user_dto.go:11` allows 128: such a registration is a
  500.
* `rbac.go:64-74` accepts a `*` behind any prefix but `:`, so that `ll*` or `llm:r*` open `llm:read`;
  `rbac.go:19-23` lists "*", `org:*`, `*:read` and exact matches as the forms. And `*:read` matches nothing but
  itself, though `rbac.go:22` and `:63` list it. `LetThroughIsBacked` follows the code: what it promises is that
  whatever was let through begins like something granted. The first difference lets through only what whoever
  wrote the row spelled out, the second denies.
* `permission_resolver.go:11` and `main.go:73`: permissions are loaded once; if that fails the server serves
  on and every admin route is closed.
* `pagination.go:41`: a page beyond 100 times `MaxPage` becomes page 1 rather than the last one.
* `monitoring_cache.go:61`: entries are replaced and never removed; every default window has a key of its own,
  so the map grows.
* Events with equal `created_at` have no order of their own and may change places between two pages. `Paging`
  therefore lets the order of equals be any.
* `00008_update_webllm_model.sql` has no `-- +goose Up` and updates a column `config` of `app_config`, which
  `00002` calls `value`. goose refuses such a file, so the migration to the new model never takes effect; the
  seed script does not help, for it leaves an existing row alone. `ConfigStore` has no step for it.
* `get_config.go:23` answers a default document when the repository returns none; the repository returns
  NOT_FOUND instead, so a table without the row is a 404. `ConfigStore` has no such answer: the migration that
  makes the table makes the row, and nothing deletes it.
* `README.md:107` and `:109` list defaults for `DATABASE_DSN` and `JWT_SECRET` ("startup warns if default");
  `config.go:70` and `:79` end the process when one of them is not set, and nothing warns.
* `health_handler.go:52`: `/health/ready` answers 200 also when it says "unready".
* `main.go:137` starts the listener before `main.go:146` asks for signals: a signal in between ends the
  process without a shutdown, with whatever it has accepted, and so does an error of the listener
  (`main.go:139`). `GraceIsGiven` therefore excuses a process that `died` before it came to `Shutdown`.
* `refresh_token_repository.go:95`: the list of sessions is the newest 50 rows, revoked ones and rotated ones
  included, so a live session may not be in it.
* `role.go` has a second matcher of permissions beside the one of `rbac.go`, which nothing calls.
* A handler of the event bus that panics ends the process: the recover middleware does not reach its
  goroutine.

## 7. Plan

Done, in the order in which it was planned: the token lifecycle and its abstract specification; inference and
monitoring; accounts and access control; rate limits and paging; the event bus and the lifecycle; the proofs
listed in section 5.

Then: the app config with the scripts of a deployment (`ConfigStore`), its composition with the server process
(`ConfigService`), startup and early signals (`ServerLifecycle`), the access tokens in front of and behind the
token use cases (`AccessTokens`), and the proofs about them; lifetimes and the blacklist (`TimeInv`).

Last: the proofs of what had only been checked, which count: `FewStaleSessions`, `CountersFollow`,
`BurstBound`, `WalkSeesAll`, and the safety of `EventBus`.

To come:

1. Rate limits in front of login and refresh, with the body that the key functions hand on.
2. The lifecycle around the token use cases: what the deadline of a shutdown does to a rotation, beyond the
   crash that `Restart` makes of it now.
3. Abstract specifications for the limiter and the report cache, in the way of `SessionChains`.

## 8. Not modelled

* **Reads** (`list_models`, `get_session`, `list_sessions`, `me`) are single queries or constants and change
  no state (the read of the app config is in `ConfigStore`); the ownership check of `get_session` is the one
  in `FindOwnSession`.
* **HTTP plumbing** (CORS, request ids, recover, decoding, the mapping of errors to a status) has no state.
  The models use the domain's error codes for answers.
* **Environment**: that a required variable is missing is a failure of the startup (`LoadConfig`); what the
  others say are constants of the models.
* **Health, telemetry, logging**: answered from outside or write-only; the counters kept beside rows are in
  `Inference`.
* **Cryptography**: a signature verifies exactly what the server signed; bcrypt compares equal exactly the
  password it was given.
* **Migrations, seed and scripts** run outside the server; the constraints they create are in the modules
  whose tables they constrain, what they do to `app_config` is `Migrate` and `Seed` of `ConfigStore`, and the
  seed of roles is an action of `Accounts`.
