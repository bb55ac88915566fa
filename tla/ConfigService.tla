----------------------------- MODULE ConfigService -----------------------------
(***************************************************************************)
(* ServerLifecycle and ConfigStore together: the requests for the          *)
(* configuration are requests of the server, their statements run on       *)
(* connections of its pool, and the process that serves them starts and    *)
(* is shut down.  Scripts of a deployment run beside it.                   *)
(***************************************************************************)
EXTENDS ServerLifecycle

\* See ConfigStore.
CONSTANTS Form, Shipped, Default, NoTable, None, MaxFaults

ASSUME ConfigAssumption ==
    /\ MaxFaults \in Nat /\ MaxCalls >= 2
    /\ NoTable \notin Form \cup {Shipped, Default, None} /\ None \notin Form \cup {Shipped, Default}

VARIABLES row, call, last, faults

Config == INSTANCE ConfigStore

store == <<row, call, last, faults>>
service == <<vars, store>>

ServiceInit == Init /\ Config!Init

-----------------------------------------------------------------------------
\* The handlers

\* The router hands a request to its handler, which decodes the body.
AcceptGet(r) == Accept(r, 1) /\ Config!GetConfig(r)
AcceptPut(r) == Accept(r, 2) /\ \E form \in Form : Config!Update(r, form)
AcceptBad(r) == Accept(r, 0) /\ Config!Refuse(r)
AcceptOther(r) == (\E calls \in 0..MaxCalls : Accept(r, calls)) /\ UNCHANGED store

\* A handler of another route, of which ConfigStore knows nothing.
OtherRoute(r) == call[r].pc = "idle" /\ UNCHANGED store

\* A handler of another route calls as it likes, that of the configuration until it has
\* its answer.
Calls(r) == CallStore(r) /\ (call[r].pc = "idle" \/ Config!Busy(r)) /\ UNCHANGED store
Acquires(r) == Acquire(r) /\ UNCHANGED store

Refused(r) ==
    /\ AcquireFails(r)
    /\ OtherRoute(r) \/ Config!Impossible(r)

\* The statement has run, and the connection goes back to the pool.
Releases(r) ==
    /\ Release(r)
    /\ \/ OtherRoute(r)
       \/ Config!Upsert(r) \/ Config!UpsertUnheard(r) \/ Config!Read(r)
       \/ row = NoTable /\ Config!Impossible(r)
       \/ Config!Break(r)

Answers(r) == Answer(r) /\ (OtherRoute(r) \/ Config!Done(r))

Handler(r) ==
    \/ AcceptGet(r) \/ AcceptPut(r) \/ AcceptBad(r) \/ AcceptOther(r)
    \/ Calls(r) \/ Acquires(r) \/ Refused(r) \/ Releases(r) \/ Answers(r)

Process == (Main \/ Listen \/ ListenFails \/ SignalKills \/ Signal \/ Tick) /\ UNCHANGED store

Deploys == Config!Deploy /\ UNCHANGED vars

ServiceNext ==
    \/ \E r \in Req : Handler(r)
    \/ Process \/ Deploys
    \/ Ended /\ UNCHANGED service

ServiceSpec == ServiceInit /\ [][ServiceNext]_service
\* Goroutines are scheduled, store calls end, time passes, and the pool serves those who
\* wait in order.  Nobody has to send a signal.
FairServiceSpec ==
    /\ ServiceSpec
    /\ \A r \in Req : /\ WF_service(Calls(r)) /\ WF_service(Refused(r)) /\ WF_service(Releases(r))
                      /\ WF_service(Answers(r)) /\ SF_service(Acquires(r))
    /\ WF_service(Main /\ UNCHANGED store) /\ WF_service(Tick /\ UNCHANGED store)

-----------------------------------------------------------------------------
\* Properties

\* See ConfigStore.
OwnUnlessOvertaken == Config!OwnUnlessOvertaken
LastSaveStands == Config!LastSaveStands

\* An admin who is told that saving failed has not saved, but where Postgres failed or the
\* server was stopped after its grace period: a shutdown does not come between the two
\* store calls of a PUT, however many wait for the pool.
SavedIsAcknowledged ==
    \A r \in Req : call[r].pc = "internal" /\ call[r].mark # "unsaved" => faults < MaxFaults \/ grace = 0
=============================================================================
