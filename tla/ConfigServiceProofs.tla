-------------------------- MODULE ConfigServiceProofs --------------------------
(***************************************************************************)
(* Theorems about ServerLifecycle, for every number of requests, every     *)
(* size of the pool and every grace period; and about ConfigService, which *)
(* is that server and the store of ConfigStore at once, so that what is    *)
(* proved of the first holds of it, and what admins may rely on.           *)
(***************************************************************************)
EXTENDS ConfigService, TLAPS

-----------------------------------------------------------------------------
\* ServerLifecycle: the inductive invariant

\* Nothing is in progress, or the deadline has passed.
Drained == grace = 0 \/ \A r \in Req : ~Active(r)

Before == Starting \cup {"wait_signal", "shutdown"}

\* No store is closed, and no request has been refused, until main returns from Shutdown.
StoresOpen == main \in Before \cup {"died"} => redis # "closed" /\ pool # "closed" /\ denied = {}
\* From then on there is nothing to wait for, and no new request comes.
ShutdownOver == main \in Stopping => Drained
\* The listener is there between its start and the signal; no request is before it.
ListenerInTime ==
    /\ main \in Starting \ {"notify"} => listener = "none"
    /\ listener \in {"starting", "open"} => main \in {"notify", "wait_signal", "died"}
    /\ listener \in {"none", "starting"} => \A r \in Req : ~Active(r)
\* Whoever is killed by a signal is killed before main asked for signals.
NotifiedInTime == ~notified => main \in Starting \cup {"died"}
\* Requests are killed by the end of the process, all of them.
KilledAtEnd ==
    \A r \in Req : (Ended => ~Active(r)) /\ (~Ended => req[r].state # "killed")
KilledLate == main # "died" /\ (\E r \in Req : req[r].state = "killed") => grace = 0
DeniedLate == denied # {} => grace = 0

IInv ==
    /\ TypeOK /\ StoresOpen /\ ShutdownOver /\ ListenerInTime /\ NotifiedInTime
    /\ KilledAtEnd /\ KilledLate /\ DeniedLate

LEMMA InitInvariant == Init => IInv
<1> SUFFICES ASSUME Init PROVE IInv
  OBVIOUS
<1>1. TypeOK
  <2>1. [state |-> "idle", calls |-> 0] \in Request
    BY LifecycleAssumption DEF State, Request
  <2>2. main \in MainPC /\ redis \in Store /\ pool \in Store
    BY DEF Init, MainPC, Starting, Store
  <2>3. grace \in 0..Grace
    BY LifecycleAssumption DEF Init
  <2> QED BY <2>1, <2>2, <2>3 DEF Init, TypeOK
<1>2. StoresOpen /\ ShutdownOver /\ ListenerInTime /\ NotifiedInTime
  BY DEF Init, StoresOpen, ShutdownOver, ListenerInTime, NotifiedInTime, Drained, Starting, Stopping, Active
<1>3. KilledAtEnd /\ KilledLate /\ DeniedLate
  BY DEF Init, KilledAtEnd, KilledLate, DeniedLate, Ended
<1> QED BY <1>1, <1>2, <1>3 DEF IInv

LEMMA InvariantGivesGrace == IInv => GraceIsGiven
<1>1. ASSUME IInv, "closed" \in {redis, pool}
      PROVE  grace = 0 \/ \A r \in Req : ~Active(r)
  BY <1>1 DEF IInv, TypeOK, MainPC, StoresOpen, ShutdownOver, Drained, Before
<1> QED BY <1>1 DEF IInv, KilledLate, DeniedLate, GraceIsGiven

-----------------------------------------------------------------------------
\* Requests

\* A request moves from one state to another that is no death; only one in progress does
\* unless the listener accepts, and only one in progress is refused.
LEMMA RequestStep ==
    ASSUME IInv, KeepMain, ~Ended, NEW r \in Req, NEW q \in Request,
           req' = [req EXCEPT ![r] = q], q.state # "killed",
           Active(r) \/ listener = "open",
           \/ denied' \subseteq denied
           \/ denied' = denied \cup {r} /\ Active(r) /\ pool = "closed"
    PROVE  IInv'
<1>1. /\ req' \in [Req -> Request]
      /\ \A x \in Req : req'[x] = IF x = r THEN q ELSE req[x]
  BY DEF IInv, TypeOK
<1>2. denied' \subseteq Req
  BY DEF IInv, TypeOK
<1>3. TypeOK'
  BY <1>1, <1>2 DEF IInv, TypeOK, KeepMain
<1>4. main \in Stopping => grace = 0 \/ ~Active(r)
  BY DEF IInv, ShutdownOver, Drained
<1>5. denied' # {} => grace = 0
  <2>1. CASE denied' \subseteq denied
    BY <2>1 DEF IInv, DeniedLate
  <2>2. CASE Active(r) /\ pool = "closed"
    BY <1>4, <2>2 DEF IInv, StoresOpen, TypeOK, MainPC, Before
  <2> QED BY <2>1, <2>2
<1>6. StoresOpen'
  <2>1. main \in Before \cup {"died"} => denied' = {}
    BY DEF IInv, StoresOpen
  <2> QED BY <2>1 DEF IInv, StoresOpen, KeepMain
<1>7. listener \notin {"none", "starting"}
  BY DEF IInv, ListenerInTime
<1>8. ShutdownOver' /\ ListenerInTime' /\ NotifiedInTime'
  <2>1. main \in Stopping => grace = 0
    BY <1>4 DEF IInv, ListenerInTime, Stopping
  <2> QED BY <1>7, <2>1 DEF IInv, ShutdownOver, Drained, ListenerInTime, NotifiedInTime, KeepMain
<1>9. KilledAtEnd' /\ KilledLate'
  BY <1>1 DEF IInv, KilledAtEnd, KilledLate, Ended, KeepMain
<1> QED BY <1>3, <1>5, <1>6, <1>8, <1>9 DEF IInv, DeniedLate, KeepMain

LEMMA HandlerStep ==
    ASSUME IInv, NEW r \in Req,
           \/ \E calls \in 0..MaxCalls : Accept(r, calls)
           \/ CallStore(r) \/ Acquire(r) \/ AcquireFails(r) \/ Release(r) \/ Answer(r)
    PROVE  IInv'
<1>1. req[r] \in Request /\ req[r].calls \in 0..MaxCalls /\ MaxCalls \in Nat
  BY LifecycleAssumption DEF IInv, TypeOK, Request
<1>2. ASSUME NEW calls \in 0..MaxCalls, Accept(r, calls)
      PROVE  IInv'
  <2>1. [state |-> "running", calls |-> calls] \in Request
    BY DEF Request, State
  <2> QED BY <1>2, <2>1, RequestStep DEF Accept
<1>3. CASE CallStore(r)
  <2>1. /\ req[r].calls - 1 \in 0..MaxCalls /\ Active(r) /\ KeepMain /\ ~Ended /\ UNCHANGED denied
        /\ req' = [req EXCEPT ![r] = [state |-> "acquiring", calls |-> req[r].calls - 1]]
    BY <1>1, <1>3 DEF CallStore, Active
  <2>2. [state |-> "acquiring", calls |-> req[r].calls - 1] \in Request
    BY <2>1 DEF Request, State
  <2> QED BY <2>1, <2>2, RequestStep
<1>4. ASSUME NEW s \in State \ {"killed"}, SetState(r, s), KeepMain, Active(r), ~Ended,
             UNCHANGED denied
      PROVE  IInv'
  <2>1. [req[r] EXCEPT !.state = s] \in Request /\ [req[r] EXCEPT !.state = s].state = s
    BY <1>1 DEF Request
  <2> QED BY <1>4, <2>1, RequestStep DEF SetState
<1>5. CASE Acquire(r)
  <2>1. ~Ended
    BY <1>5 DEF Acquire, Active, IInv, KilledAtEnd
  <2> QED BY <1>4, <1>5, <2>1 DEF Acquire, Active, State
<1>6. CASE AcquireFails(r)
  <2>1. PICK calls \in {0, req[r].calls} :
           req' = [req EXCEPT ![r] = [state |-> "running", calls |-> calls]]
    BY <1>6 DEF AcquireFails
  <2>2. [state |-> "running", calls |-> calls] \in Request
    BY <1>1 DEF Request, State
  <2> QED BY <1>6, <2>1, <2>2, RequestStep DEF AcquireFails, Active
<1>7. CASE Release(r)
  BY <1>4, <1>7 DEF Release, Active, State
<1>8. CASE Answer(r)
  BY <1>4, <1>8 DEF Answer, Active, State
<1> QED BY <1>2, <1>3, <1>5, <1>6, <1>7, <1>8

-----------------------------------------------------------------------------
\* main

\* main goes on within the life of the process, and no request changes.
LEMMA MainStep ==
    ASSUME IInv, KeepRequests, ~Ended, main' \in MainPC \ {"exited", "died"}, notified' \in BOOLEAN,
           notified => notified', grace' \in 0..grace, redis' \in Store, pool' \in Store,
           listener' \in {"none", "starting", "open", "closed"},
           StoresOpen', ShutdownOver', ListenerInTime', NotifiedInTime'
    PROVE  IInv'
<1>1. grace \in 0..Grace /\ Grace \in Nat
  BY LifecycleAssumption DEF IInv, TypeOK
<1>2. grace' \in 0..Grace /\ (grace = 0 => grace' = 0)
  BY <1>1
<1>3. TypeOK'
  BY <1>2 DEF IInv, TypeOK, KeepRequests
<1>4. KilledAtEnd' /\ KilledLate'
  BY DEF IInv, KilledAtEnd, KilledLate, Ended, KeepRequests
<1>5. DeniedLate'
  BY <1>2 DEF IInv, DeniedLate, KeepRequests
<1> QED BY <1>3, <1>4, <1>5 DEF IInv

\* Until the listener is started nothing can go wrong but the start itself, which leaves
\* nothing behind.
LEMMA StartupStep ==
    ASSUME IInv, Startup \/ Listen
    PROVE  IInv'
<1> USE DEF IInv, StoresOpen, ShutdownOver, ListenerInTime, NotifiedInTime, Before, Starting, Stopping,
            KeepRequests, Go, Ended
<1>1. grace \in 0..grace /\ TypeOK
  BY LifecycleAssumption DEF TypeOK
<1>2. ~Ended /\ UNCHANGED <<grace, req, denied>>
  BY DEF Startup, Listen, LoadConfig, OpenPool, DialRedis, LoadPermissions, Serve, Notify
<1>3. \A r \in Req : Active(r)' <=> Active(r)
  BY <1>2 DEF Active
<1>4. CASE main' = "died"
  <2>1. main \in {"load_config", "open_pool"} /\ UNCHANGED <<notified, listener, redis, pool>>
    BY <1>4 DEF Startup, Listen, LoadConfig, OpenPool, DialRedis, LoadPermissions, Serve, Notify
  <2>2. TypeOK' /\ StoresOpen' /\ ShutdownOver' /\ NotifiedInTime' /\ DeniedLate'
    BY <1>1, <1>2, <1>4, <2>1 DEF TypeOK, MainPC, DeniedLate
  <2>3. ListenerInTime' /\ \A r \in Req : ~Active(r)'
    BY <1>1, <1>2, <1>3, <1>4, <2>1 DEF TypeOK
  <2>4. KilledAtEnd' /\ KilledLate'
    BY <1>1, <1>2, <1>4, <2>1, <2>3 DEF KilledAtEnd, KilledLate
  <2> QED BY <2>2, <2>3, <2>4
<1>5. ASSUME main' # "died"
      PROVE  IInv'
  <2>1. /\ main' \in MainPC \ {"exited", "died"} /\ notified' \in BOOLEAN /\ (notified => notified')
        /\ redis' \in Store /\ pool' \in Store
        /\ listener' \in {"none", "starting", "open", "closed"}
    BY <1>1, <1>2, <1>5
    DEF Startup, Listen, LoadConfig, OpenPool, DialRedis, LoadPermissions, Serve, Notify, TypeOK, MainPC, Store
  <2>2. StoresOpen' /\ ShutdownOver' /\ NotifiedInTime'
    BY <1>1, <1>2, <1>5 DEF Startup, Listen, LoadConfig, OpenPool, DialRedis, LoadPermissions, Serve, Notify
  <2>3. ListenerInTime'
    BY <1>1, <1>2, <1>3, <1>5
    DEF Startup, Listen, LoadConfig, OpenPool, DialRedis, LoadPermissions, Serve, Notify, TypeOK
  <2> QED BY <1>1, <1>2, <2>1, <2>2, <2>3, MainStep
<1> QED BY <1>4, <1>5

LEMMA ShutdownStep ==
    ASSUME IInv, Signal \/ Shutdown \/ CloseRedis \/ ClosePool \/ Tick
    PROVE  IInv'
<1> USE DEF StoresOpen, ShutdownOver, ListenerInTime, NotifiedInTime, Before, Starting, Stopping,
            KeepRequests, Go
<1>1. /\ grace \in 0..Grace /\ grace \in 0..grace /\ Grace \in Nat /\ TypeOK
      /\ StoresOpen /\ ShutdownOver /\ ListenerInTime /\ NotifiedInTime
  BY LifecycleAssumption DEF IInv, TypeOK
<1>2. grace' \in 0..grace /\ UNCHANGED req
  BY <1>1 DEF Signal, Shutdown, CloseRedis, ClosePool, Tick
<1>3. \A r \in Req : Active(r)' <=> Active(r)
  BY <1>2 DEF Active
<1>4. /\ ~Ended /\ main' \in MainPC \ {"exited", "died"} /\ notified' \in BOOLEAN /\ (notified => notified')
      /\ redis' \in Store /\ pool' \in Store
      /\ listener' \in {"none", "starting", "open", "closed"} /\ KeepRequests
  BY <1>1 DEF Signal, Shutdown, CloseRedis, ClosePool, Tick, TypeOK, MainPC, Store, Ended
<1>5. StoresOpen' /\ NotifiedInTime'
  BY <1>1, <1>4 DEF Signal, Shutdown, CloseRedis, ClosePool, Tick, Ended
<1>6. ShutdownOver'
  BY <1>1, <1>3, <1>4 DEF Signal, Shutdown, CloseRedis, ClosePool, Tick, Drained, Ended
<1>7. ListenerInTime'
  BY <1>1, <1>3 DEF Signal, Shutdown, CloseRedis, ClosePool, Tick
<1> QED BY <1>2, <1>4, <1>5, <1>6, <1>7, MainStep

\* The process ends, and every request in progress with it.
LEMMA EndStep ==
    ASSUME IInv, Exit \/ ListenFails \/ SignalKills
    PROVE  IInv'
<1>1. /\ \A r \in Req : req'[r] = IF Active(r) THEN [req[r] EXCEPT !.state = "killed"] ELSE req[r]
      /\ req' \in [Req -> Request]
  <2>1. \A r \in Req : req[r] \in Request /\ [req[r] EXCEPT !.state = "killed"] \in Request
    BY DEF IInv, TypeOK, Request, State
  <2>2. req' = [r \in Req |-> IF Active(r) THEN [req[r] EXCEPT !.state = "killed"] ELSE req[r]]
    BY DEF Exit, ListenFails, SignalKills, Die, Kill
  <2>3. \A r \in Req : (IF Active(r) THEN [req[r] EXCEPT !.state = "killed"] ELSE req[r]) \in Request
    BY <2>1
  <2> QED BY <2>2, <2>3
<1>2. \A r \in Req : req'[r].state \notin {"running", "acquiring", "querying"}
  BY <1>1 DEF Active, IInv, TypeOK, Request
<1>3. /\ UNCHANGED <<notified, listener, grace, redis, pool, denied>>
      /\ main' \in {"exited", "died"} /\ ~Ended
      /\ main' = "exited" => main \in Stopping
      /\ main' = "died" => main \in Before
  BY DEF Exit, ListenFails, SignalKills, Die, Go, Ended, IInv, ListenerInTime, NotifiedInTime, Before, Starting,
         Stopping
<1>4. TypeOK'
  BY <1>1, <1>3 DEF IInv, TypeOK, MainPC, Stopping
<1>5. StoresOpen' /\ ShutdownOver' /\ NotifiedInTime'
  BY <1>2, <1>3 DEF IInv, StoresOpen, ShutdownOver, NotifiedInTime, Drained, Before, Starting, Stopping, Active
<1>6. ListenerInTime'
  BY <1>2, <1>3 DEF IInv, ListenerInTime, Starting, Stopping, Active
<1>7. KilledAtEnd'
  BY <1>2, <1>3 DEF KilledAtEnd, Ended, Active
<1>8. KilledLate'
  <2>1. main' = "died" \/ grace = 0 \/ \A r \in Req : ~Active(r)
    BY DEF Exit, ListenFails, SignalKills, Die, Go, IInv, ShutdownOver, Drained, Stopping
  <2>2. CASE \A r \in Req : ~Active(r)
    BY <1>1, <1>3, <2>2 DEF IInv, KilledAtEnd, KilledLate
  <2> QED BY <1>3, <2>1, <2>2 DEF KilledLate
<1> QED BY <1>3, <1>4, <1>5, <1>6, <1>7, <1>8 DEF IInv, DeniedLate

LEMMA NextStep ==
    ASSUME IInv, [Next]_vars
    PROVE  IInv'
<1>1. CASE UNCHANGED vars
  BY <1>1
  DEF vars, IInv, TypeOK, StoresOpen, ShutdownOver, ListenerInTime, NotifiedInTime, Drained, KilledAtEnd, Ended,
      Active, KilledLate, DeniedLate
<1>2. CASE Next
  <2>1. CASE Ended /\ UNCHANGED vars
    BY <1>1, <2>1
  <2> QED BY <1>2, <2>1, HandlerStep, StartupStep, ShutdownStep, EndStep DEF Next, Main
<1> QED BY <1>1, <1>2

LEMMA InvariantHolds == Spec => []IInv
<1>1. Init => IInv
  BY InitInvariant
<1>2. IInv /\ [Next]_vars => IInv'
  BY NextStep
<1> QED BY <1>1, <1>2, PTL DEF Spec

-----------------------------------------------------------------------------
\* ServerLifecycle: the theorems

\* Type correctness of the process and its requests.
THEOREM TypeCorrect == Spec => []TypeOK
<1>1. IInv => TypeOK
  BY DEF IInv
<1> QED BY <1>1, InvariantHolds, PTL

\* No store is closed, no store call refused and no request killed by a signal before the
\* grace period has run out, whatever the pool's size: main returns from Shutdown first.
THEOREM GraceIsGivenHolds == Spec => []GraceIsGiven
BY InvariantGivesGrace, InvariantHolds, PTL
-----------------------------------------------------------------------------
\* The composition implements its parts

LEMMA ServiceStep ==
    ASSUME [ServiceNext]_service
    PROVE  [Next]_vars /\ [Config!Next]_store
<1>1. CASE UNCHANGED service
  BY <1>1 DEF service, store, Config!vars
<1>2. ASSUME NEW r \in Req, Handler(r)
      PROVE  [Next]_vars /\ [Config!Next]_store
  <2>1. 0 \in 0..MaxCalls /\ 1 \in 0..MaxCalls /\ 2 \in 0..MaxCalls
    BY LifecycleAssumption, ConfigAssumption
  <2>2. Next
    BY <1>2, <2>1
    DEF Handler, AcceptGet, AcceptPut, AcceptBad, AcceptOther, Calls, Acquires, Refused, Releases, Answers, Next
  <2>3. [Config!Next]_store
    BY <1>2
    DEF Handler, AcceptGet, AcceptPut, AcceptBad, AcceptOther, Calls, Acquires, Refused, Releases, Answers,
        OtherRoute, Config!Next
  <2> QED BY <2>2, <2>3
<1>3. CASE Process
  BY <1>3 DEF Process, Next
<1>4. CASE Deploys
  BY <1>4 DEF Deploys, Config!Next
<1>5. CASE Ended /\ UNCHANGED service
  BY <1>1, <1>5
<1> QED BY <1>1, <1>2, <1>3, <1>4, <1>5 DEF ServiceNext

\* The server with its configuration behaves as ServerLifecycle says.
THEOREM ServiceIsLifecycle == ServiceSpec => Spec
<1>1. ServiceInit => Init
  BY DEF ServiceInit
<1> QED BY <1>1, ServiceStep, PTL DEF ServiceSpec, Spec

\* So the handlers of the configuration, too, keep their stores for the grace period.
THEOREM ServiceGivesGrace == ServiceSpec => []GraceIsGiven
BY ServiceIsLifecycle, GraceIsGivenHolds, PTL

\* The configuration behaves as ConfigStore says, also while the server starts and stops.
THEOREM ServiceIsConfigStore == ServiceSpec => Config!Spec
<1>1. ServiceInit => Config!Init
  BY DEF ServiceInit
<1>2. store = Config!vars
  BY DEF store, Config!vars
<1>3. [ServiceNext]_service => [Config!Next]_Config!vars
  BY <1>2, ServiceStep DEF store, Config!vars
<1> QED BY <1>1, <1>3, PTL DEF ServiceSpec, Config!Spec

-----------------------------------------------------------------------------
\* The document

\* What a request in progress knows of the row.
CallOK(c) ==
    /\ c.pc = "get" => c.form = None
    /\ c.pc = "upsert" => c.form # None /\ c.mark = "unsaved"
    /\ c.pc = "read_back" => c.form # None /\ c.mark # "unsaved"
    /\ c.mark = "saved" => c.form # None /\ row = c.form
    /\ c.mark = "overtaken" => last # None
    /\ c.pc = "ok" /\ c.form # None => c.shown = c.form \/ c.mark = "overtaken"

StoreInv == Config!TypeOK /\ LastSaveStands /\ \A r \in Req : CallOK(call[r])

\* A request that changes nothing but itself.
LEMMA OwnStep ==
    ASSUME StoreInv, NEW r \in Req, NEW c \in Config!Call, CallOK(c),
           call' = [call EXCEPT ![r] = c], UNCHANGED <<row, last>>, faults' \in 0..MaxFaults
    PROVE  StoreInv'
<1>1. /\ call' \in [Req -> Config!Call]
      /\ \A q \in Req : call'[q] = IF q = r THEN c ELSE call[q]
  BY DEF StoreInv, Config!TypeOK
<1>2. Config!TypeOK' /\ LastSaveStands'
  BY <1>1 DEF StoreInv, Config!TypeOK, LastSaveStands, Config!LastSaveStands, Config!Document
<1>3. ASSUME NEW q \in Req
      PROVE  CallOK(call[q])'
  BY <1>1 DEF StoreInv, CallOK
<1> QED BY <1>2, <1>3 DEF StoreInv

LEMMA SaveStep ==
    ASSUME StoreInv, NEW r \in Req, NEW pc \in {"read_back", "internal"}, call[r].pc = "upsert",
           row' = call[r].form, Config!Saved(r, pc), faults' \in 0..MaxFaults
    PROVE  StoreInv'
<1>1. /\ call \in [Req -> Config!Call]
      /\ call[r].form \in Form /\ call[r].form # None /\ None \notin Form /\ call[r].mark = "unsaved"
  BY ConfigAssumption DEF StoreInv, CallOK, Config!TypeOK, Config!Call
<1>2. ASSUME NEW q \in Req
      PROVE  call'[q] \in Config!Call /\ CallOK(call[q])'
  <2>1. call[q] \in Config!Call /\ CallOK(call[q])
    BY <1>1 DEF StoreInv
  <2>2. call'[q] = IF q = r THEN [call[r] EXCEPT !.pc = pc, !.mark = "saved"]
                   ELSE IF call[q].mark = "saved" THEN [call[q] EXCEPT !.mark = "overtaken"] ELSE call[q]
    BY DEF Config!Saved
  <2>3. last' = call[r].form /\ row' = call[r].form
    BY DEF Config!Saved
  <2>4. CASE q = r
    <3>1. call'[q] = [call[r] EXCEPT !.pc = pc, !.mark = "saved"]
      BY <2>2, <2>4
    <3>2. call'[q] \in Config!Call
      BY <2>1, <2>4, <3>1 DEF Config!Call, Config!Pending, Config!Answer
    <3>3. /\ call'[q].pc = pc /\ call'[q].form = call[r].form
          /\ call'[q].mark = "saved"
      BY <2>1, <2>4, <3>1 DEF Config!Call
    <3> QED BY <1>1, <2>3, <3>2, <3>3 DEF CallOK
  <2>5. CASE q # r /\ call[q].mark = "saved"
    <3>1. call'[q] = [call[q] EXCEPT !.mark = "overtaken"]
      BY <2>2, <2>5
    <3>2. call'[q] \in Config!Call
      BY <2>1, <3>1 DEF Config!Call
    <3>3. /\ call'[q].pc = call[q].pc /\ call'[q].form = call[q].form
          /\ call'[q].mark = "overtaken"
      BY <2>1, <3>1 DEF Config!Call
    <3> QED BY <1>1, <2>1, <2>3, <2>5, <3>2, <3>3 DEF CallOK
  <2>6. CASE q # r /\ call[q].mark # "saved"
    BY <1>1, <2>1, <2>2, <2>3, <2>6 DEF CallOK
  <2> QED BY <2>4, <2>5, <2>6
<1>3. Config!TypeOK' /\ LastSaveStands'
  <2>1. call' \in [Req -> Config!Call]
    BY <1>2 DEF Config!Saved
  <2> QED BY <1>1, <2>1 DEF Config!TypeOK, Config!Saved, Config!Document, LastSaveStands, Config!LastSaveStands
<1> QED BY <1>2, <1>3 DEF StoreInv

LEMMA InitStore == Config!Init => StoreInv
<1> SUFFICES ASSUME Config!Init PROVE StoreInv
  OBVIOUS
<1>1. Config!Begun("idle", None) \in Config!Call /\ CallOK(Config!Begun("idle", None))
  BY DEF Config!Begun, Config!Call, CallOK
<1>2. Config!TypeOK /\ LastSaveStands
  BY <1>1, ConfigAssumption DEF Config!Init, Config!TypeOK, LastSaveStands, Config!LastSaveStands
<1> QED BY <1>1, <1>2 DEF Config!Init, StoreInv

LEMMA StoreStep ==
    ASSUME StoreInv, [Config!Next]_store
    PROVE  StoreInv'
<1>1. /\ MaxFaults \in Nat /\ faults \in 0..MaxFaults /\ call \in [Req -> Config!Call]
      /\ row \in Config!Document \cup {NoTable}
  BY ConfigAssumption DEF StoreInv, Config!TypeOK
<1>2. CASE UNCHANGED store
  BY <1>2
  DEF store, StoreInv, Config!TypeOK, Config!Document, LastSaveStands, Config!LastSaveStands, CallOK
<1>3. ASSUME NEW r \in Req, NEW pc \in {"get", "upsert", "bad_request", "idle"}, NEW form \in Form \cup {None},
             pc = "get" => form = None, pc = "upsert" => form # None,
             call' = [call EXCEPT ![r] = Config!Begun(pc, form)], UNCHANGED <<row, last, faults>>
      PROVE  StoreInv'
  <2>1. Config!Begun(pc, form) \in Config!Call /\ CallOK(Config!Begun(pc, form))
    BY <1>3 DEF Config!Begun, Config!Call, Config!Pending, Config!Answer, CallOK
  <2> QED BY <1>1, <1>3, <2>1, OwnStep
<1>4. ASSUME NEW r \in Req, Config!GetConfig(r) \/ Config!Refuse(r) \/ Config!Done(r)
      PROVE  StoreInv'
  BY <1>3, <1>4 DEF Config!GetConfig, Config!Refuse, Config!Done, Config!Begin
<1>5. ASSUME NEW r \in Req, NEW form \in Form, Config!Update(r, form)
      PROVE  StoreInv'
  <2>1. form # None
    BY ConfigAssumption
  <2> QED BY <1>3, <1>5, <2>1 DEF Config!Update, Config!Begin
<1>6. ASSUME NEW r \in Req, Config!Upsert(r) \/ Config!UpsertUnheard(r)
      PROVE  StoreInv'
  <2>1. faults' \in 0..MaxFaults
    BY <1>1, <1>6 DEF Config!Upsert, Config!UpsertUnheard
  <2> QED BY <1>6, <2>1, SaveStep DEF Config!Upsert, Config!UpsertUnheard
<1>7. ASSUME NEW r \in Req, Config!Read(r)
      PROVE  StoreInv'
  <2> DEFINE c == [call[r] EXCEPT !.pc = "ok", !.shown = row]
  <2>1. call[r] \in Config!Call /\ CallOK(call[r]) /\ row \in Config!Document
    BY <1>1, <1>7 DEF StoreInv, Config!Read
  <2>2. c \in Config!Call
    BY <2>1 DEF Config!Call, Config!Answer
  <2>3. c.pc = "ok" /\ c.form = call[r].form /\ c.mark = call[r].mark /\ c.shown = row
    BY <2>1 DEF Config!Call
  <2>4. CallOK(c)
    BY <1>7, <2>1, <2>3 DEF Config!Read, CallOK, Config!Call
  <2>5. call' = [call EXCEPT ![r] = c] /\ UNCHANGED <<row, last, faults>>
    BY <1>7 DEF Config!Read
  <2> QED BY <1>1, <2>2, <2>4, <2>5, OwnStep
<1>8. ASSUME NEW r \in Req, Config!Impossible(r) \/ Config!Break(r)
      PROVE  StoreInv'
  <2> DEFINE c == [call[r] EXCEPT !.pc = "internal"]
  <2>1. call[r] \in Config!Call /\ CallOK(call[r])
    BY <1>1 DEF StoreInv
  <2>2. c \in Config!Call
    BY <2>1 DEF Config!Call, Config!Answer
  <2>3. c.pc = "internal" /\ c.form = call[r].form /\ c.mark = call[r].mark
    BY <2>1 DEF Config!Call
  <2>4. CallOK(c)
    BY <2>1, <2>3 DEF CallOK
  <2>5. call' = [call EXCEPT ![r] = c] /\ UNCHANGED <<row, last>>
    BY <1>8 DEF Config!Impossible, Config!Break, Config!Fail
  <2>6. faults' \in 0..MaxFaults
    BY <1>1, <1>8 DEF Config!Impossible, Config!Break
  <2> QED BY <2>2, <2>4, <2>5, <2>6, OwnStep
<1>9. CASE Config!Deploy
  <2>1. UNCHANGED <<call, last, faults>> /\ (row' = row \/ (row = NoTable /\ row' = Shipped))
    BY <1>9 DEF Config!Deploy, Config!Migrate, Config!Seed, Config!vars
  <2>2. CASE row = NoTable /\ row' = Shipped
    <3>1. last = None
      BY <2>2, ConfigAssumption DEF StoreInv, Config!TypeOK, LastSaveStands, Config!LastSaveStands
    <3>2. \A r \in Req : call[r].mark # "saved"
      BY <2>2, ConfigAssumption DEF StoreInv, CallOK, Config!TypeOK, Config!Call
    <3> QED BY <2>1, <2>2, <3>1, <3>2
            DEF StoreInv, CallOK, Config!TypeOK, Config!Document, LastSaveStands, Config!LastSaveStands
  <2> QED BY <1>2, <2>1, <2>2 DEF store
<1> QED BY <1>2, <1>4, <1>5, <1>6, <1>7, <1>8, <1>9 DEF Config!Next

LEMMA StoreInvariantHolds == ServiceSpec => []StoreInv
<1>1. ServiceInit => StoreInv
  BY InitStore DEF ServiceInit
<1>2. StoreInv /\ [ServiceNext]_service => StoreInv'
  BY ServiceStep, StoreStep
<1> QED BY <1>1, <1>2, PTL DEF ServiceSpec

\* A PUT that is answered with a document is answered with its own, unless another one was
\* saved in between.
THEOREM OwnUnlessOvertakenHolds == ServiceSpec => []OwnUnlessOvertaken
<1>1. StoreInv => OwnUnlessOvertaken
  BY DEF StoreInv, CallOK, OwnUnlessOvertaken, Config!OwnUnlessOvertaken
<1> QED BY <1>1, StoreInvariantHolds, PTL

\* What was saved last is what is stored, however often migrations and seeds are run.
THEOREM LastSaveStandsHolds == ServiceSpec => []LastSaveStands
<1>1. StoreInv => LastSaveStands
  BY DEF StoreInv
<1> QED BY <1>1, StoreInvariantHolds, PTL

-----------------------------------------------------------------------------
\* The answer

ServiceInv == IInv /\ StoreInv /\ SavedIsAcknowledged

LEMMA AcknowledgedStep ==
    ASSUME ServiceInv, [ServiceNext]_service
    PROVE  SavedIsAcknowledged'
<1>1. /\ grace \in Nat /\ faults \in 0..MaxFaults /\ MaxFaults \in Nat
      /\ call \in [Req -> Config!Call]
  BY LifecycleAssumption, ConfigAssumption DEF ServiceInv, IInv, TypeOK, StoreInv, Config!TypeOK
\* The grace period does not begin again.
<1>2. grace = 0 => grace' = 0
  <2>1. UNCHANGED grace \/ Tick
    BY DEF ServiceNext, service, vars, Handler, AcceptGet, AcceptPut, AcceptBad, AcceptOther, Calls, Acquires,
           Refused, Releases, Answers, Accept, CallStore, Acquire, AcquireFails, Release, Answer, KeepMain,
           Process, Main, Startup, LoadConfig, OpenPool, DialRedis, LoadPermissions, Serve, Notify, Shutdown,
           CloseRedis, ClosePool, Exit, Listen, ListenFails, SignalKills, Signal, Deploys
  <2> QED BY <1>1, <2>1 DEF Tick
<1>3. [Config!Next]_store
  BY ServiceStep
<1>4. faults < MaxFaults => faults' < MaxFaults
  <2>1. CASE UNCHANGED faults
    BY <2>1
  <2>2. ASSUME NEW r \in Req, Config!UpsertUnheard(r) \/ Config!Break(r)
        PROVE  faults' < MaxFaults
    BY <1>1, <2>2 DEF Config!UpsertUnheard, Config!Break
  <2>3. UNCHANGED faults \/ \E r \in Req : Config!UpsertUnheard(r) \/ Config!Break(r)
    BY <1>3 DEF store, Config!Next, Config!GetConfig, Config!Update, Config!Refuse, Config!Done, Config!Begin,
      Config!Upsert, Config!Read, Config!Impossible, Config!Deploy, Config!Migrate, Config!Seed, Config!vars
  <2> QED BY <2>1, <2>2, <2>3
<1> DEFINE Told(c) == c.pc = "internal" /\ c.mark # "unsaved"
<1>5. SUFFICES ASSUME NEW q \in Req
               PROVE  grace' = 0 \/ faults' < MaxFaults \/ (Told(call'[q]) => Told(call[q]))
  BY <1>2, <1>4 DEF ServiceInv, SavedIsAcknowledged
<1>6. CASE UNCHANGED call
  BY <1>6
<1>7. ASSUME NEW r \in Req, NEW pc, NEW form, call' = [call EXCEPT ![r] = Config!Begun(pc, form)]
      PROVE  Told(call'[q]) => Told(call[q])
  BY <1>1, <1>7 DEF Config!Begun
<1>8. ASSUME NEW r \in Req, Refused(r), Config!Impossible(r)
      PROVE  grace' = 0
  <2>1. pool = "closed" /\ Active(r)
    BY <1>8 DEF Refused, AcquireFails, Active
  <2>2. grace = 0
    BY <2>1, InvariantGivesGrace DEF ServiceInv, GraceIsGiven
  <2> QED BY <1>2, <2>2
<1>9. ASSUME NEW r \in Req, row = NoTable, Config!Impossible(r)
      PROVE  Told(call'[q]) => Told(call[q])
  <2>1. call[r].mark = "unsaved"
    BY <1>1, <1>9, ConfigAssumption
    DEF ServiceInv, StoreInv, CallOK, Config!TypeOK, Config!Call, LastSaveStands, Config!LastSaveStands
  <2>2. call' = [call EXCEPT ![r] = [call[r] EXCEPT !.pc = "internal"]]
    BY <1>9 DEF Config!Impossible, Config!Fail
  <2>3. [call[r] EXCEPT !.pc = "internal"].mark = "unsaved"
    BY <1>1, <2>1 DEF Config!Call
  <2> QED BY <1>1, <2>2, <2>3
<1>10. ASSUME NEW r \in Req, Config!UpsertUnheard(r) \/ Config!Break(r)
       PROVE  faults' < MaxFaults
  BY <1>1, <1>10 DEF Config!UpsertUnheard, Config!Break
<1>11. ASSUME NEW r \in Req, Config!Upsert(r)
       PROVE  Told(call'[q]) => Told(call[q])
  <2>1. call'[q] = IF q = r THEN [call[r] EXCEPT !.pc = "read_back", !.mark = "saved"]
                   ELSE IF call[q].mark = "saved" THEN [call[q] EXCEPT !.mark = "overtaken"] ELSE call[q]
    BY <1>11 DEF Config!Upsert, Config!Saved
  <2>2. call[q] \in Config!Call
    BY <1>1
  <2> QED BY <2>1, <2>2 DEF Config!Call
<1>12. ASSUME NEW r \in Req, Config!Read(r)
       PROVE  Told(call'[q]) => Told(call[q])
  <2>1. call'[q] = IF q = r THEN [call[r] EXCEPT !.pc = "ok", !.shown = row] ELSE call[q]
    BY <1>1, <1>12 DEF Config!Read
  <2>2. call[q] \in Config!Call
    BY <1>1
  <2> QED BY <2>1, <2>2 DEF Config!Call
<1>13. ASSUME NEW r \in Req, Handler(r)
       PROVE  grace' = 0 \/ faults' < MaxFaults \/ (Told(call'[q]) => Told(call[q]))
  <2>1. CASE AcceptGet(r) \/ AcceptPut(r) \/ AcceptBad(r)
    BY <1>7, <2>1
    DEF AcceptGet, AcceptPut, AcceptBad, Config!GetConfig, Config!Update, Config!Refuse, Config!Begin
  <2>2. CASE AcceptOther(r) \/ Calls(r) \/ Acquires(r)
    BY <1>6, <2>2 DEF AcceptOther, Calls, Acquires, store
  <2>3. CASE Refused(r)
    BY <1>6, <1>8, <2>3 DEF Refused, OtherRoute, store
  <2>4. CASE Releases(r)
    BY <1>6, <1>9, <1>10, <1>11, <1>12, <2>4 DEF Releases, OtherRoute, store
  <2>5. CASE Answers(r)
    BY <1>6, <1>7, <2>5 DEF Answers, OtherRoute, Config!Done, store
  <2> QED BY <1>13, <2>1, <2>2, <2>3, <2>4, <2>5 DEF Handler
<1>14. CASE Process \/ Deploys \/ UNCHANGED service
  BY <1>6, <1>14 DEF Process, Deploys, service, store, Config!Deploy, Config!Migrate, Config!Seed, Config!vars
<1> QED BY <1>13, <1>14 DEF ServiceNext

\* A PUT that has saved is told so, but where Postgres failed, or where the server ran out
\* of its grace period: for a shutdown closes the pool only then (IInv).
THEOREM SavedIsAcknowledgedHolds == ServiceSpec => []SavedIsAcknowledged
<1>1. ServiceInit => ServiceInv
  <2>1. ServiceInit => SavedIsAcknowledged
    BY DEF ServiceInit, Config!Init, Config!Begun, SavedIsAcknowledged
  <2> QED BY <2>1, InitInvariant, InitStore DEF ServiceInit, ServiceInv
<1>2. ServiceInv /\ [ServiceNext]_service => ServiceInv'
  BY ServiceStep, NextStep, StoreStep, AcknowledgedStep DEF ServiceInv
<1>3. ServiceInv => SavedIsAcknowledged
  BY DEF ServiceInv
<1> QED BY <1>1, <1>2, <1>3, PTL DEF ServiceSpec
=============================================================================
