------------------------------- MODULE EventBus -------------------------------
(***************************************************************************)
(* The in-process event bus, internal/shared/events/bus.go, for one topic: *)
(* Publish and Subscribe over a slice of handlers under a sync.RWMutex,    *)
(* with a goroutine per handler and a WaitGroup.                           *)
(*                                                                         *)
(* The server publishes and nobody subscribes yet, so what handlers do is  *)
(* what the type Handler lets them: return an error or none, and before    *)
(* that call back into the bus.                                            *)
(***************************************************************************)
EXTENDS Integers, Sequences, FiniteSets, SequencesExt

CONSTANTS
    Handler,     \* handlers, each of which is subscribed at most once
    Publisher,   \* goroutines that publish one event each
    Nobody       \* no goroutine

\* Who can hold or wait for the lock: a publisher, or whoever subscribes a handler.
Thread == Publisher \cup Handler
ASSUME NobodyAssumption == Nobody \notin Thread
ASSUME ThreadAssumption == Publisher \cap Handler = {}
ASSUME HandlerAssumption == IsFiniteSet(Handler)

Place == 1..Cardinality(Handler)
Outcome == {"nil", "error"}

VARIABLES
    handlers,  \* handlers[topic]
    readers,   \* threads that hold the RWMutex for reading
    writer,    \* the thread that holds it for writing, or will when the readers have left:
               \* new readers wait behind it
    sub,       \* per handler: where its subscription is
    pub,       \* per publisher: where Publish is, what it has read, its WaitGroup
    run,       \* per publisher and place of its slice: the goroutine of that handler
    errs,      \* per publisher: what the handlers returned
    before     \* history: what was subscribed when Publish was called

busVars == <<handlers, readers, writer, sub, pub, run, errs, before>>

SubState == {"none", "lock", "append", "unlock", "done"}
RunState == {"none", "running", "subscribing", "done"}
Publication == [pc : {"idle", "rlock", "read", "spawn", "wait", "done"},
                hs : Seq(Handler), next : Nat, wg : Nat, result : Outcome \cup {"none"}]
\* calls: the handler whose subscription the goroutine has asked for.
Goroutine == [state : RunState, calls : Handler \cup {Nobody}]

BusTypeOK ==
    /\ handlers \in Seq(Handler)
    /\ readers \subseteq Publisher
    /\ writer \in Handler \cup {Nobody}
    /\ sub \in [Handler -> SubState]
    /\ pub \in [Publisher -> Publication]
    /\ run \in [Publisher -> [Place -> Goroutine]]
    /\ errs \in [Publisher -> [Place -> Outcome]]
    /\ before \in [Publisher -> SUBSET Handler]

BusInit ==
    /\ handlers = <<>>
    /\ readers = {} /\ writer = Nobody
    /\ sub = [h \in Handler |-> "none"]
    /\ pub = [p \in Publisher |-> [pc |-> "idle", hs |-> <<>>, next |-> 1, wg |-> 0, result |-> "none"]]
    /\ run = [p \in Publisher |-> [i \in Place |-> [state |-> "none", calls |-> Nobody]]]
    /\ errs = [p \in Publisher |-> [i \in Place |-> "nil"]]
    /\ before = [p \in Publisher |-> {}]

-----------------------------------------------------------------------------
\* sync.RWMutex

CanRLock == writer = Nobody
\* One writer at a time is let in front of new readers, and then waits for the old ones.
CanLock == writer = Nobody

-----------------------------------------------------------------------------
\* Subscribe, called with handler h by anybody: at any time from outside, or by the
\* goroutine of a handler that is running.

SubscribeCall(h) == sub[h] = "none" /\ sub' = [sub EXCEPT ![h] = "lock"]

SubscribeFromOutside(h) ==
    /\ SubscribeCall(h)
    /\ UNCHANGED <<handlers, readers, writer, pub, run, errs, before>>

SubscribeLock(h) ==
    /\ sub[h] = "lock" /\ CanLock
    /\ writer' = h
    /\ sub' = [sub EXCEPT ![h] = "append"]
    /\ UNCHANGED <<handlers, readers, pub, run, errs, before>>

\* mutant: the topic's slice is started anew
SubscribeReplaces(h) ==
    /\ sub[h] = "append" /\ readers = {}
    /\ handlers' = <<h>>
    /\ sub' = [sub EXCEPT ![h] = "unlock"]
    /\ UNCHANGED <<readers, writer, pub, run, errs, before>>

SubscribeAppend(h) ==
    /\ sub[h] = "append" /\ readers = {}
    /\ handlers' = Append(handlers, h)
    /\ sub' = [sub EXCEPT ![h] = "unlock"]
    /\ UNCHANGED <<readers, writer, pub, run, errs, before>>

SubscribeUnlock(h) ==
    /\ sub[h] = "unlock"
    /\ writer' = Nobody
    /\ sub' = [sub EXCEPT ![h] = "done"]
    /\ UNCHANGED <<handlers, readers, pub, run, errs, before>>

-----------------------------------------------------------------------------
\* Publish

KeepLock == UNCHANGED <<handlers, readers, writer, sub>>

PublishCall(p) ==
    /\ pub[p].pc = "idle"
    /\ pub' = [pub EXCEPT ![p].pc = "rlock"]
    /\ before' = [before EXCEPT ![p] = {h \in Handler : sub[h] = "done"}]
    /\ KeepLock /\ UNCHANGED <<run, errs>>

PublishRLock(p) ==
    /\ pub[p].pc = "rlock" /\ CanRLock
    /\ readers' = readers \cup {p}
    /\ pub' = [pub EXCEPT ![p].pc = "read"]
    /\ UNCHANGED <<handlers, writer, sub, run, errs, before>>

\* mutant: an event that nobody has subscribed to is held back
PublishReadRetries(p) ==
    /\ pub[p].pc = "read"
    /\ pub' = [pub EXCEPT ![p].pc = IF handlers = <<>> THEN "rlock" ELSE "spawn", ![p].hs = handlers]
    /\ readers' = readers \ {p}
    /\ UNCHANGED <<handlers, writer, sub, run, errs, before>>

PublishRead(p) ==
    /\ pub[p].pc = "read"
    /\ pub' = [pub EXCEPT ![p].pc = "spawn", ![p].hs = handlers]
    /\ readers' = readers \ {p}
    /\ UNCHANGED <<handlers, writer, sub, run, errs, before>>

\* mutant: the goroutine is started but not added to the WaitGroup
PublishSpawnUncounted(p) ==
    LET i == pub[p].next IN
    /\ pub[p].pc = "spawn" /\ i <= Len(pub[p].hs)
    /\ run' = [run EXCEPT ![p][i].state = "running"]
    /\ pub' = [pub EXCEPT ![p].next = i + 1]
    /\ KeepLock /\ UNCHANGED <<errs, before>>

PublishSpawn(p) ==
    LET i == pub[p].next IN
    /\ pub[p].pc = "spawn" /\ i <= Len(pub[p].hs)
    /\ run' = [run EXCEPT ![p][i].state = "running"]
    /\ pub' = [pub EXCEPT ![p].next = i + 1, ![p].wg = @ + 1]
    /\ KeepLock /\ UNCHANGED <<errs, before>>

PublishSpawned(p) ==
    /\ pub[p].pc = "spawn" /\ pub[p].next > Len(pub[p].hs)
    /\ pub' = [pub EXCEPT ![p].pc = "wait"]
    /\ KeepLock /\ UNCHANGED <<run, errs, before>>

\* mutant: an error only counts if every handler failed
ResultIfAll(p) == IF \E i \in 1..Len(pub[p].hs) : errs[p][i] = "nil" THEN "nil" ELSE "error"
\* The loop over errs.
Result(p) == IF \E i \in 1..Len(pub[p].hs) : errs[p][i] = "error" THEN "error" ELSE "nil"

PublishReturn(p) ==
    /\ pub[p].pc = "wait" /\ pub[p].wg = 0
    /\ pub' = [pub EXCEPT ![p].pc = "done", ![p].result = Result(p)]
    /\ KeepLock /\ UNCHANGED <<run, errs, before>>

-----------------------------------------------------------------------------
\* The goroutine of a handler

\* The handler calls Subscribe, and goes on when that has returned.
RunSubscribes(p, i, h) ==
    /\ run[p][i].state = "running" /\ run[p][i].calls = Nobody
    /\ SubscribeCall(h)
    /\ run' = [run EXCEPT ![p][i] = [state |-> "subscribing", calls |-> h]]
    /\ UNCHANGED <<handlers, readers, writer, pub, errs, before>>

RunSubscribed(p, i) ==
    /\ run[p][i].state = "subscribing" /\ sub[run[p][i].calls] = "done"
    /\ run' = [run EXCEPT ![p][i].state = "running"]
    /\ KeepLock /\ UNCHANGED <<pub, errs, before>>

RunReturns(p, i, outcome) ==
    /\ run[p][i].state = "running"
    /\ run' = [run EXCEPT ![p][i].state = "done"]
    /\ errs' = [errs EXCEPT ![p][i] = outcome]
    /\ pub' = [pub EXCEPT ![p].wg = @ - 1]
    /\ KeepLock /\ UNCHANGED before

-----------------------------------------------------------------------------
Subscribing(h) == SubscribeLock(h) \/ SubscribeAppend(h) \/ SubscribeUnlock(h)
Publishing(p) ==
    PublishRLock(p) \/ PublishRead(p) \/ PublishSpawn(p) \/ PublishSpawned(p) \/ PublishReturn(p)
Running(p, i) == RunSubscribed(p, i) \/ (\E outcome \in Outcome : RunReturns(p, i, outcome))

\* All events are published and all handlers that are being subscribed are.
Quiet == (\A p \in Publisher : pub[p].pc = "done") /\ (\A h \in Handler : sub[h] = "done")

BusNext ==
    \/ \E h \in Handler : SubscribeFromOutside(h) \/ Subscribing(h)
    \/ \E p \in Publisher :
          \/ PublishCall(p) \/ Publishing(p)
          \/ \E i \in Place : Running(p, i) \/ (\E h \in Handler : RunSubscribes(p, i, h))
    \/ Quiet /\ UNCHANGED busVars

BusSpec == BusInit /\ [][BusNext]_busVars
\* Goroutines are scheduled, and handlers return.
FairBusSpec ==
    /\ BusSpec
    /\ \A h \in Handler : WF_busVars(Subscribing(h))
    /\ \A p \in Publisher : WF_busVars(Publishing(p))
    /\ \A p \in Publisher, i \in Place : WF_busVars(Running(p, i))

-----------------------------------------------------------------------------
\* Properties

\* When Publish returns, every handler that was subscribed before it was called has
\* returned, and so has every other it started; its result is an error if and only if
\* one of them failed.  No handler outlives the request whose context it was given.
PublishWaitsForAll ==
    \A p \in Publisher : pub[p].pc = "done" =>
        /\ before[p] \subseteq ToSet(pub[p].hs)
        /\ \A i \in 1..Len(pub[p].hs) : run[p][i].state = "done"
        /\ pub[p].result = "error" <=> \E i \in 1..Len(pub[p].hs) : errs[p][i] = "error"

\* No subscription is lost and none is taken twice, whoever subscribes at the same time.
NoSubscriptionLost ==
    /\ \A h \in Handler : sub[h] = "done" => h \in ToSet(handlers)
    /\ IsInjective(handlers)

\* Publish returns, also if its handlers subscribe others while they run.
PublishReturns == \A p \in Publisher : pub[p].pc = "rlock" ~> pub[p].pc = "done"
=============================================================================
