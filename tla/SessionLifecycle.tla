-------------------------- MODULE SessionLifecycle --------------------------
(***************************************************************************)
(* The session lifecycle of src/modules/session/session.service.ts over    *)
(* the engine contract its whatsapp-web.js adapter keeps                   *)
(* (src/engine/adapters/whatsapp-web-js.adapter.ts).                       *)
(*                                                                         *)
(* Node runs one synchronous segment at a time.  A call of the service is  *)
(* therefore a sequence of segments cut at its awaits, and an action is    *)
(* one whole segment: call[c] holds what the call keeps in locals between  *)
(* two of them.  start(), stop() and delete() are calls of the HTTP API    *)
(* (forceKill() has the segments of stop(), with the forced teardown in    *)
(* place of the graceful one: one kind stands for both), "reconnect" is    *)
(* executeReconnect() run by its timer.                                    *)
(* Between any two segments engines fire events, timers fire, a teardown   *)
(* hangs past its deadline, and the process may drain, crash and boot.     *)
(*                                                                         *)
(* Row writes take effect in the order they are issued (one data source    *)
(* connection); DbFails lets the two whose failure has a handler fail.     *)
(***************************************************************************)
EXTENDS Naturals, FiniteSets

CONSTANTS
  Sessions,       \* session ids
  MaxEngines,     \* bound on engine launches: an instance is never used twice
  Calls,          \* calls in flight at once
  None,           \* "no engine", "no reconnect state"
  MaxAttempts,    \* state.maxAttempts, after resolveReconnectConfig
  MaxConcurrent,  \* resolveMaxConcurrentSessions
  MaxCrashes,     \* bound on crashes and exits of the process
  DbFails         \* may a start's first write and a delete's transaction fail?

Engines == 1 .. MaxEngines

VARIABLES
  status,        \* the session row's status; "deleted" once the row is gone
  engines,       \* SessionService.engines
  initializing,  \* SessionService.initializingSessions
  stopping,      \* SessionService.stoppingSessions
  reconnect,     \* SessionService.reconnectStates
  lastError,     \* has SessionService.sessionErrors an entry?
  engine,        \* the adapters' own state
  call,          \* the calls in flight
  process,       \* "up", "draining", "destroying", "down"
  crashes        \* how often the process has gone down

maps == <<engines, initializing, stopping, reconnect, lastError>>
vars == <<status, maps, engine, call, process, crashes>>

-----------------------------------------------------------------------------
(* State *)

Status == {"created", "initializing", "qr_ready", "authenticating", "ready",
           "disconnected", "failed", "deleted"}

\* The statuses onModuleInit resets: no engine runs right after a boot.
ActiveStatus == {"ready", "initializing", "qr_ready", "authenticating"}

EngineStatus == Status \ {"created", "deleted"}

\* init: the promise of initialize(); client: this.client and its teardown;
\* st: this.status; qr: a qrcode.toDataURL() is being awaited.
EngineState ==
  [owner : Sessions \cup {None}, init : {"none", "pending", "ok", "err"},
   client : {"none", "open", "closing", "gone"}, st : EngineStatus, qr : BOOLEAN]

Unborn == [owner |-> None, init |-> "none", client |-> "none",
           st |-> "disconnected", qr |-> FALSE]

ReconnectState == [attempts : 0 .. MaxAttempts, armed : BOOLEAN]

Kinds == {"start", "stop", "delete", "reconnect"}

PCs == {"found", "hook", "launch", "init", "timeout", "threw", "reap", "retire",
        "retiring", "leave", "swap", "closing", "deleting", "purge"}

CallState == [kind : Kinds, s : Sessions, pc : PCs, e : Engines \cup {None}]

\* None is told apart from everything it stands beside.
ASSUME SessionAssumption ==
  /\ MaxEngines \in Nat
  /\ MaxAttempts \in Nat
  /\ MaxConcurrent \in Nat \ {0}
  /\ MaxCrashes \in Nat
  /\ DbFails \in BOOLEAN
  /\ None \notin Engines \cup Sessions \cup Calls
  /\ \A r \in ReconnectState : r # None
  /\ \A r \in CallState : r # None

\* A start() between its reservation and its finally.
Starting(c) == call[c] # None /\ call[c].kind = "start" /\ call[c].pc # "found"

Init ==
  /\ status = [s \in Sessions |-> "created"]
  /\ engines = [s \in Sessions |-> None]
  /\ initializing = {}
  /\ stopping = {}
  /\ reconnect = [s \in Sessions |-> None]
  /\ lastError = [s \in Sessions |-> FALSE]
  /\ engine = [e \in Engines |-> Unborn]
  /\ call = [c \in Calls |-> None]
  /\ process = "up"
  /\ crashes = 0

-----------------------------------------------------------------------------
(* Helpers *)

\* An UPDATE of a deleted row matches nothing.
SetStatus(s, v) == IF status[s] = "deleted" THEN status ELSE [status EXCEPT ![s] = v]

\* Mutant of Live: a callback without its isLiveEngine() guard.
LiveUnguarded(e) == engine[e].owner # None

\* isLiveEngine: events of any other engine are ignored.
Live(e) == engine[e].owner # None /\ engines[engine[e].owner] = e

\* beginClientTeardown(): nothing to do while (or once) there is no client.
Torn(r) == IF r.client \in {"open", "closing"}
             THEN [r EXCEPT !.client = "closing", !.st = "disconnected"]
             ELSE r

\* An adapter taken off the map: no callback is heard again, so of its state
\* only the client still matters.
Silent(r) == [r EXCEPT !.st = "disconnected", !.qr = FALSE]

\* this.engines.delete(s); evictAndForceDestroy() also tears the adapter down.
Evict(s, destroy) ==
  /\ engines' = [engines EXCEPT ![s] = None]
  /\ engine' = IF engines[s] = None THEN engine
               ELSE [engine EXCEPT ![engines[s]] = IF destroy THEN Torn(Silent(@)) ELSE Silent(@)]

\* Teardown of the registered engine e of s: the adapter reports DISCONNECTED
\* from inside, while e is still live.
TearDownLive(s, e) ==
  /\ engine' = [engine EXCEPT ![e] = Torn(@)]
  /\ status' = IF Torn(engine[e]).st # engine[e].st
                 THEN SetStatus(s, "disconnected") ELSE status

Go(c, pc, e) == call' = [call EXCEPT ![c].pc = pc, ![c].e = e]
Return(c) == call' = [call EXCEPT ![c] = None]
At(c, kinds, pc) == call[c] # None /\ call[c].kind \in kinds /\ call[c].pc = pc

\* An engine is left beyond those that calls on their way to create one will take.
EngineLeft ==
  Cardinality({e \in Engines : engine[e] = Unborn}) >
    Cardinality({c \in Calls : \/ At(c, {"start"}, "found")
                               \/ At(c, {"start"}, "hook")
                               \/ At(c, {"reconnect"}, "swap")})

\* The first segment of initializeEngine(): create and register the engine,
\* forget the last failure, write INITIALIZING.
CreateEngine(c, s) ==
  \E e \in Engines :
    /\ engine[e] = Unborn /\ \A d \in Engines : d < e => engine[d] # Unborn
    /\ engine' = [d \in Engines |-> IF d = e THEN [Unborn EXCEPT !.owner = s]
                                    ELSE IF d = engines[s] THEN Silent(engine[d])
                                    ELSE engine[d]]
    /\ engines' = [engines EXCEPT ![s] = e]
    /\ lastError' = [lastError EXCEPT ![s] = FALSE]
    /\ status' = SetStatus(s, "initializing")
    /\ call' = [call EXCEPT ![c] = [kind |-> IF call[c] = None THEN "reconnect" ELSE call[c].kind,
                                    s |-> s, pc |-> "launch", e |-> e]]

\* Mutant of MayReconnect: no look at isShuttingDown().
MayReconnectInDrain(s) == reconnect[s] # None

\* scheduleReconnect() returns at once in a drain and without a state.
MayReconnect(s) == process = "up" /\ reconnect[s] # None

Exhausted(r) == r.attempts >= MaxAttempts

\* scheduleReconnect(), after the row was written v by the caller.
ScheduleReconnect(s, v) ==
  LET r == reconnect[s] IN
  \/ /\ ~MayReconnect(s)
     /\ status' = SetStatus(s, v)
     /\ UNCHANGED <<reconnect, lastError>>
  \/ /\ MayReconnect(s) /\ Exhausted(r)
     /\ lastError' = [lastError EXCEPT ![s] = TRUE]
     /\ status' = SetStatus(s, "failed")
     /\ UNCHANGED reconnect
  \/ /\ MayReconnect(s) /\ ~Exhausted(r)
     /\ reconnect' = [reconnect EXCEPT ![s] = [attempts |-> r.attempts + 1, armed |-> TRUE]]
     /\ status' = SetStatus(s, v)
     /\ UNCHANGED lastError

-----------------------------------------------------------------------------
(* start() *)

\* A call of the API begins by reading the row; without one it answers 404.
Request(c, k, s) ==
  /\ process # "down"
  /\ call[c] = None
  /\ status[s] # "deleted"
  /\ k = "start" => EngineLeft
  /\ call' = [call EXCEPT ![c] = [kind |-> k, s |-> s, pc |-> "found", e |-> None]]
  /\ UNCHANGED <<status, maps, engine, process, crashes>>

\* Sessions that count against the cap, each once.
Active == {s \in Sessions : engines[s] # None} \cup initializing

\* Mutant of Admissible: the cap is off by one.
AdmissibleOneMore(s) ==
  /\ engines[s] = None
  /\ s \notin initializing
  /\ Cardinality(Active) <= MaxConcurrent

\* Mutant of Admissible: only registered engines are looked at.
AdmissibleUnreserved(s) ==
  /\ engines[s] = None
  /\ Cardinality({r \in Sessions : engines[r] # None}) < MaxConcurrent

\* The synchronous check: already started, already starting, cap reached.
Admissible(s) ==
  /\ engines[s] = None
  /\ s \notin initializing
  /\ Cardinality(Active) < MaxConcurrent

StartReserve(c) ==
  /\ At(c, {"start"}, "found")
  /\ LET s == call[c].s IN
       \/ /\ ~Admissible(s)
          /\ Return(c)
          /\ UNCHANGED maps
       \/ /\ Admissible(s)
          /\ initializing' = initializing \cup {s}
          /\ stopping' = stopping \ {s}
          /\ reconnect' = [reconnect EXCEPT ![s] = None]
          /\ Go(c, "hook", None)
          /\ UNCHANGED <<engines, lastError>>
  /\ UNCHANGED <<status, engine, process, crashes>>

\* After the session:starting hook.
StartLaunch(c) ==
  /\ At(c, {"start"}, "hook")
  /\ LET s == call[c].s IN
       /\ reconnect' = [reconnect EXCEPT ![s] = [attempts |-> 0, armed |-> FALSE]]
       /\ CreateEngine(c, s)
  /\ UNCHANGED <<initializing, stopping, process, crashes>>

\* engine.initialize(): the adapter reports INITIALIZING at once.
LaunchEngine(c) ==
  /\ At(c, {"start", "reconnect"}, "launch")
  /\ LET e == call[c].e IN
       /\ engine' = [engine EXCEPT ![e].init = "pending", ![e].st = "initializing"]
       /\ status' = IF Live(e) THEN SetStatus(engine[e].owner, "initializing") ELSE status
       /\ Go(c, "init", e)
  /\ UNCHANGED <<maps, process, crashes>>

\* The awaited INITIALIZING write is rejected (though the row may have it).
LaunchFails(c) ==
  /\ DbFails
  /\ At(c, {"start", "reconnect"}, "launch")
  /\ Go(c, "threw", call[c].e)
  /\ UNCHANGED <<status, maps, engine, process, crashes>>

\* The deadline of the race: the map entry goes first, whatever it is by now.
InitTimeout(c) ==
  /\ At(c, {"start", "reconnect"}, "init")
  /\ LET e == call[c].e
         s == call[c].s IN
       /\ engine[e].init = "pending"
       /\ lastError' = [lastError EXCEPT ![s] = TRUE]
       /\ engines' = [engines EXCEPT ![s] = None]
       /\ engine' = [d \in Engines |->
                       LET r == IF d = engines[s] THEN Silent(engine[d]) ELSE engine[d]
                       IN  IF d = e THEN Torn(r) ELSE r]
       /\ Go(c, "timeout", e)
  /\ UNCHANGED <<status, initializing, stopping, reconnect, process, crashes>>

\* Mutant of TimeoutReaped: the row keeps its INITIALIZING.
TimeoutReapedUnwritten(c) ==
  /\ At(c, {"start", "reconnect"}, "timeout")
  /\ Go(c, "threw", call[c].e)
  /\ UNCHANGED <<status, maps, engine, process, crashes>>

\* The forced teardown returned, or hung for ten seconds.
TimeoutReaped(c) ==
  /\ At(c, {"start", "reconnect"}, "timeout")
  /\ status' = SetStatus(call[c].s, "disconnected")
  /\ Go(c, "threw", call[c].e)
  /\ UNCHANGED <<maps, engine, process, crashes>>

\* initializeEngine() rejected: the engine's own rejection, or the deadline's.
InitThrew(c, k) ==
  \/ At(c, {k}, "init") /\ engine[call[c].e].init = "err"
  \/ At(c, {k}, "threw")

\* start()'s catch takes whatever engine the map holds, then the finally runs.
StartCatch(c) ==
  /\ InitThrew(c, "start")
  /\ LET s == call[c].s
         orphan == engines[s] IN
       \/ /\ orphan = None
          /\ initializing' = initializing \ {s}
          /\ Return(c)
          /\ UNCHANGED <<engines, lastError, engine>>
       \/ /\ orphan # None
          /\ Evict(s, TRUE)
          /\ lastError' = [lastError EXCEPT ![s] = TRUE]
          /\ Go(c, "reap", orphan)
          /\ UNCHANGED initializing
  /\ UNCHANGED <<status, stopping, reconnect, process, crashes>>

StartReaped(c) ==
  /\ At(c, {"start"}, "reap")
  /\ status' = SetStatus(call[c].s, "failed")
  /\ Go(c, "leave", None)
  /\ UNCHANGED <<maps, engine, process, crashes>>

\* Mutant of IsSessionRetired: only a removed row counts.
IsRowRemoved(s) == status[s] = "deleted"

\* isSessionRetired(): the stop mark, then the row.
IsSessionRetired(s) == s \in stopping \/ status[s] = "deleted"

\* initialize() resolved.
InitReturned(c) ==
  /\ At(c, {"start", "reconnect"}, "init")
  /\ engine[call[c].e].init = "ok"
  /\ LET s == call[c].s IN
       \/ /\ IsSessionRetired(s)
          /\ Go(c, "retire", call[c].e)
       \/ /\ ~IsSessionRetired(s)
          /\ Go(c, "leave", None)
  /\ UNCHANGED <<status, maps, engine, process, crashes>>

\* A retired session: tear down the engine the map holds, if any.
Retire(c) ==
  /\ At(c, {"start", "reconnect"}, "retire")
  /\ LET s == call[c].s
         resurrected == engines[s] IN
       \/ /\ resurrected = None
          /\ Go(c, "leave", None)
          /\ UNCHANGED <<status, engine>>
       \/ /\ resurrected # None
          /\ TearDownLive(s, resurrected)
          /\ Go(c, "retiring", resurrected)
  /\ UNCHANGED <<maps, process, crashes>>

Retired(c) ==
  /\ At(c, {"start", "reconnect"}, "retiring")
  /\ Evict(call[c].s, FALSE)
  /\ Go(c, "leave", None)
  /\ UNCHANGED <<status, initializing, stopping, reconnect, lastError, process, crashes>>

\* Mutant of Leave: no finally, the reservation outlives the call.
LeaveReserved(c) ==
  /\ At(c, {"start", "reconnect"}, "leave")
  /\ Return(c)
  /\ UNCHANGED <<status, maps, engine, process, crashes>>

\* Mutant of Leave: a reconnect gives back a reservation it never took.
LeaveReleasesAny(c) ==
  /\ At(c, {"start", "reconnect"}, "leave")
  /\ initializing' = initializing \ {call[c].s}
  /\ Return(c)
  /\ UNCHANGED <<status, engines, stopping, reconnect, lastError, engine, process, crashes>>

\* start()'s finally; executeReconnect() has none.
Leave(c) ==
  /\ At(c, {"start", "reconnect"}, "leave")
  /\ initializing' = IF call[c].kind = "start" THEN initializing \ {call[c].s} ELSE initializing
  /\ Return(c)
  /\ UNCHANGED <<status, engines, stopping, reconnect, lastError, engine, process, crashes>>

-----------------------------------------------------------------------------
(* executeReconnect() *)

\* The timer fires.  A stop mark ends the attempt; otherwise the old engine is
\* torn down first, or there is none and the new one is created at once.
ReconnectFire(c, s) ==
  /\ call[c] = None
  /\ reconnect[s] # None /\ reconnect[s].armed
  /\ reconnect' = [reconnect EXCEPT ![s].armed = FALSE]
  /\ \/ /\ s \in stopping
        /\ UNCHANGED <<status, engines, lastError, engine, call>>
     \/ /\ s \notin stopping
        /\ EngineLeft
        /\ engines[s] # None
        /\ TearDownLive(s, engines[s])
        /\ call' = [call EXCEPT ![c] = [kind |-> "reconnect", s |-> s,
                                        pc |-> "swap", e |-> engines[s]]]
        /\ UNCHANGED <<engines, lastError>>
     \/ /\ s \notin stopping
        /\ EngineLeft
        /\ engines[s] = None
        /\ CreateEngine(c, s)
  /\ UNCHANGED <<initializing, stopping, process, crashes>>

\* The teardown returned or hung: the entry is deleted and, in the same
\* segment, initializeEngine() registers the next engine.
ReconnectSwap(c) ==
  /\ At(c, {"reconnect"}, "swap")
  /\ CreateEngine(c, call[c].s)
  /\ UNCHANGED <<initializing, stopping, reconnect, process, crashes>>

\* The catch evicts whatever engine the map holds and schedules another attempt.
ReconnectCatch(c) ==
  /\ InitThrew(c, "reconnect")
  /\ Evict(call[c].s, TRUE)
  /\ ScheduleReconnect(call[c].s, status[call[c].s])
  /\ Return(c)
  /\ UNCHANGED <<initializing, stopping, process, crashes>>

-----------------------------------------------------------------------------
(* stop(), forceKill() and delete() *)

\* The common head: mark, cancel the reconnect, tear the engine down.
Mark(c) ==
  /\ At(c, {"stop", "delete"}, "found")
  /\ LET s == call[c].s IN
       /\ stopping' = stopping \cup {s}
       /\ reconnect' = [reconnect EXCEPT ![s] = None]
       /\ \/ /\ engines[s] # None
             /\ TearDownLive(s, engines[s])
             /\ Go(c, "closing", engines[s])
          \/ /\ engines[s] = None /\ call[c].kind = "delete"
             /\ Go(c, "deleting", None)
             /\ UNCHANGED <<status, engine>>
          \/ /\ engines[s] = None /\ call[c].kind # "delete"
             /\ status' = SetStatus(s, "disconnected")
             /\ Return(c)
             /\ UNCHANGED engine
  /\ UNCHANGED <<engines, initializing, lastError, process, crashes>>

\* stop()'s tail, once the teardown returned or hung.
Stopped(c) ==
  /\ At(c, {"stop"}, "closing")
  /\ Evict(call[c].s, FALSE)
  /\ status' = SetStatus(call[c].s, "disconnected")
  /\ Return(c)
  /\ UNCHANGED <<initializing, stopping, reconnect, lastError, process, crashes>>

\* delete(): the entry goes, then the session:deleted hook is awaited.
DeleteEvicted(c) ==
  /\ At(c, {"delete"}, "closing")
  /\ Evict(call[c].s, FALSE)
  /\ Go(c, "deleting", None)
  /\ UNCHANGED <<status, initializing, stopping, reconnect, lastError, process, crashes>>

\* The transaction removes the row and its children, or fails and removes nothing.
DeleteRow(c) ==
  /\ At(c, {"delete"}, "deleting")
  /\ \/ status' = [status EXCEPT ![call[c].s] = "deleted"]
     \/ DbFails /\ UNCHANGED status
  /\ Go(c, "purge", None)
  /\ UNCHANGED <<maps, engine, process, crashes>>

\* delete()'s finally.
DeleteFinally(c) ==
  /\ At(c, {"delete"}, "purge")
  /\ stopping' = stopping \ {call[c].s}
  /\ lastError' = [lastError EXCEPT ![call[c].s] = FALSE]
  /\ Return(c)
  /\ UNCHANGED <<status, engines, initializing, reconnect, engine, process, crashes>>

-----------------------------------------------------------------------------
(* The engine: the adapter's events and the callbacks they run *)

\* Every callback begins with isLiveEngine(), so the events of an engine that is
\* not registered change nothing and are left out.
Hears(e) == Live(e) /\ engine[e].client \in {"open", "closing"}

\* An adapter status change that only reports itself.
Report(e, v) == status' = SetStatus(engine[e].owner, v)

\* Mutant of Fail: the reason is not recorded.
FailUnexplained(e) ==
  LET s == engine[e].owner IN
  /\ status' = SetStatus(s, "failed")
  /\ reconnect' = [reconnect EXCEPT ![s] = None]
  /\ engines' = [engines EXCEPT ![s] = None]
  /\ UNCHANGED lastError

\* setStatus(FAILED) and onError: terminal, the engine is evicted and killed.
Fail(e) ==
  LET s == engine[e].owner IN
  /\ status' = SetStatus(s, "failed")
  /\ lastError' = [lastError EXCEPT ![s] = TRUE]
  /\ reconnect' = [reconnect EXCEPT ![s] = None]
  /\ engines' = [engines EXCEPT ![s] = None]

\* setStatus(DISCONNECTED) and onDisconnected.
Drop(e, client) ==
  /\ engine' = [engine EXCEPT ![e].st = "disconnected", ![e].client = client]
  /\ ScheduleReconnect(engine[e].owner, "disconnected")

\* initialize() gets past its own awaits and constructs the client.
ClientBuilt(e) ==
  /\ engine[e].init = "pending" /\ engine[e].client = "none"
  /\ engine' = [engine EXCEPT ![e].client = "open"]
  /\ UNCHANGED <<status, maps>>

\* initialize() settles; past the deadline nobody hears of it.
Awaited(e) == \E c \in Calls : call[c] # None /\ call[c].pc = "init" /\ call[c].e = e

InitOk(e) ==
  /\ engine[e].init = "pending" /\ engine[e].client # "none"
  /\ Awaited(e)
  /\ engine' = [engine EXCEPT ![e].init = "ok"]
  /\ UNCHANGED <<status, maps>>

InitFails(e) ==
  /\ engine[e].init = "pending"
  /\ Awaited(e)
  /\ IF Live(e)
       THEN /\ Fail(e)
            /\ engine' = [engine EXCEPT ![e] = Torn(Silent([@ EXCEPT !.init = "err"]))]
       ELSE /\ engine' = [engine EXCEPT ![e].init = "err"]
            /\ UNCHANGED <<status, lastError, reconnect, engines>>
  /\ UNCHANGED <<initializing, stopping>>

\* A QR arrives and is rendered; the guards are read before the await only.
QrArrives(e) ==
  /\ Hears(e) /\ engine[e].client = "open"
  /\ engine[e].st # "failed" /\ ~engine[e].qr
  /\ engine' = [engine EXCEPT ![e].qr = TRUE]
  /\ UNCHANGED <<status, maps>>

QrRendered(e) ==
  /\ Live(e) /\ engine[e].qr
  /\ engine' = [engine EXCEPT ![e].qr = FALSE, ![e].st = "qr_ready"]
  /\ Report(e, "qr_ready")
  /\ UNCHANGED maps

Authenticated(e) ==
  /\ Hears(e) /\ engine[e].client = "open"
  /\ engine[e].st \notin {"authenticating", "ready", "failed"}
  /\ engine' = [engine EXCEPT ![e].st = "authenticating"]
  /\ Report(e, "authenticating")
  /\ UNCHANGED maps

\* markReadyFromClientInfo() and onReady.
Ready(e) ==
  LET s == engine[e].owner IN
  /\ Hears(e)
  /\ engine[e].st \notin {"ready", "disconnected", "failed"}
  /\ engine' = [engine EXCEPT ![e].st = "ready"]
  /\ Report(e, "ready")
  /\ lastError' = [lastError EXCEPT ![s] = FALSE]
  /\ reconnect' = IF reconnect[s] = None THEN reconnect
                  ELSE [reconnect EXCEPT ![s].attempts = 0]
  /\ UNCHANGED <<engines, initializing, stopping>>

Disconnected(e) ==
  /\ Hears(e)
  /\ Drop(e, engine[e].client)
  /\ UNCHANGED <<engines, initializing, stopping>>

AuthFailure(e) ==
  /\ Hears(e)
  /\ Fail(e)
  /\ engine' = [engine EXCEPT ![e] = Torn(Silent(@))]
  /\ UNCHANGED <<initializing, stopping>>

\* recoverFromStuckAuth(): the client is dropped, so later teardowns do nothing.
StuckAuth(e) ==
  /\ Hears(e) /\ engine[e].client = "open"
  /\ engine[e].st = "authenticating"
  /\ Drop(e, "gone")
  /\ UNCHANGED <<engines, initializing, stopping>>

\* client.destroy() completes; after an eviction it makes no difference when.
ClientGone(e) ==
  /\ Live(e) /\ engine[e].client = "closing"
  /\ engine' = [engine EXCEPT ![e].client = "gone"]
  /\ UNCHANGED <<status, maps>>

EngineStep(e) ==
  /\ \/ ClientBuilt(e) \/ InitOk(e) \/ InitFails(e) \/ QrArrives(e) \/ QrRendered(e)
     \/ Authenticated(e) \/ Ready(e) \/ Disconnected(e) \/ AuthFailure(e)
     \/ StuckAuth(e) \/ ClientGone(e)
  /\ UNCHANGED <<call, process, crashes>>

-----------------------------------------------------------------------------
(* The process *)

\* SIGTERM or an admin restart: markShuttingDown().
Drain ==
  /\ process = "up" /\ crashes < MaxCrashes
  /\ process' = "draining"
  /\ UNCHANGED <<status, maps, engine, call, crashes>>

\* onModuleDestroy(): forget the reconnects, tear every registered engine down.
\* Its engines.clear() is taken with the exit that follows it.
ModuleDestroy ==
  /\ process = "draining"
  /\ process' = "destroying"
  /\ reconnect' = [s \in Sessions |-> None]
  /\ engine' = [e \in Engines |-> IF Live(e) THEN Torn(engine[e]) ELSE engine[e]]
  /\ status' = [s \in Sessions |->
                  IF engines[s] # None /\ engine'[engines[s]].st # engine[engines[s]].st
                    THEN SetStatus(s, "disconnected")[s] ELSE status[s]]
  /\ UNCHANGED <<engines, initializing, stopping, lastError, call, crashes>>

\* The process exits or crashes: every map, call and engine is gone, the rows stay.
Exit ==
  /\ process # "down" /\ crashes < MaxCrashes
  /\ process' = "down"
  /\ crashes' = crashes + 1
  /\ engines' = [s \in Sessions |-> None]
  /\ initializing' = {}
  /\ stopping' = {}
  /\ reconnect' = [s \in Sessions |-> None]
  /\ lastError' = [s \in Sessions |-> FALSE]
  /\ engine' = [e \in Engines |-> IF engine[e] = Unborn THEN Unborn
                                  ELSE [Unborn EXCEPT !.owner = engine[e].owner, !.client = "gone"]]
  /\ call' = [c \in Calls |-> None]
  /\ UNCHANGED status

\* onModuleInit().
Boot ==
  /\ process = "down"
  /\ process' = "up"
  /\ status' = [s \in Sessions |-> IF status[s] \in ActiveStatus THEN "disconnected" ELSE status[s]]
  /\ UNCHANGED <<maps, engine, call, crashes>>

-----------------------------------------------------------------------------
(* Specification *)

\* The segments of a call in flight.
CallStep(c) ==
  \/ StartReserve(c) \/ StartLaunch(c) \/ LaunchEngine(c) \/ LaunchFails(c)
  \/ InitTimeout(c)
  \/ TimeoutReaped(c) \/ StartCatch(c) \/ StartReaped(c) \/ InitReturned(c)
  \/ Retire(c) \/ Retired(c) \/ Leave(c) \/ ReconnectSwap(c) \/ ReconnectCatch(c)
  \/ Mark(c) \/ Stopped(c) \/ DeleteEvicted(c) \/ DeleteRow(c) \/ DeleteFinally(c)

Next ==
  \/ \E c \in Calls, k \in Kinds \ {"reconnect"}, s \in Sessions : Request(c, k, s)
  \/ \E c \in Calls, s \in Sessions : ReconnectFire(c, s)
  \/ \E c \in Calls : CallStep(c)
  \/ \E e \in Engines : EngineStep(e)
  \/ Drain \/ ModuleDestroy \/ Exit \/ Boot

\* The event loop runs every continuation: a started call never stalls, because
\* each of its awaits settles or is cut by a deadline.
Fairness == \A c \in Calls : WF_vars(CallStep(c))

Spec == Init /\ [][Next]_vars
FairSpec == Spec /\ Fairness

-----------------------------------------------------------------------------
(* Properties *)

\* Type correctness of the maps, the rows, the calls and the adapters; the
\* reconnect counter never passes its limit.
TypeOK ==
  /\ status \in [Sessions -> Status]
  /\ engines \in [Sessions -> Engines \cup {None}]
  /\ initializing \subseteq Sessions
  /\ stopping \subseteq Sessions
  /\ reconnect \in [Sessions -> ReconnectState \cup {None}]
  /\ lastError \in [Sessions -> BOOLEAN]
  /\ engine \in [Engines -> EngineState]
  /\ call \in [Calls -> CallState \cup {None}]
  /\ process \in {"up", "draining", "destroying", "down"}
  /\ crashes \in 0 .. MaxCrashes

\* At most one start() per session is between its reservation and its finally,
\* and initializingSessions is exactly the set of their sessions: no path out of
\* start() leaks a reservation ("already starting" forever) or drops another's.
StartExclusive ==
  /\ initializing = {call[c].s : c \in {c \in Calls : Starting(c)}}
  /\ \A c, d \in Calls : Starting(c) /\ Starting(d) /\ call[c].s = call[d].s => c = d

\* The call that reserved s, as the lock of StartLock sees it.
holder == [s \in Sessions |->
             IF \E c \in Calls : Starting(c) /\ call[c].s = s
               THEN CHOOSE c \in Calls : Starting(c) /\ call[c].s = s ELSE None]
Lock == INSTANCE StartLock

\* start() implements one lock per session: it is acquired when free, released
\* by the call that took it, and freed by nothing else but the process's exit.
StartLockSpec == Lock!Spec

Busy(s) == \E c \in Calls : call[c] # None /\ call[c].s = s

\* A row that says an engine is coming up has one: it is registered, or a call in
\* flight or an armed timer will bring the row on.  The statuses a late QR can
\* bring back during a teardown (see QrRendered) are left out.
NoPhantomSession ==
  \A s \in Sessions :
    status[s] \in {"initializing", "authenticating"} /\ process = "up" =>
      \/ engines[s] # None
      \/ Busy(s)
      \/ reconnect[s] # None /\ reconnect[s].armed

\* A FAILED row comes with the reason the dashboard shows, while the process lives.
FailedExplained ==
  \A s \in Sessions : status[s] = "failed" /\ crashes = 0 => lastError[s] \/ Busy(s)

\* Between calls the row says what the registered engine says; it may say FAILED
\* of a disconnected one whose reconnects are used up.
RowTracksEngine ==
  \A s \in Sessions :
    engines[s] # None /\ ~Busy(s) /\ status[s] # "deleted" =>
      \/ status[s] = engine[engines[s]].st
      \/ status[s] = "failed" /\ engine[engines[s]].st = "disconnected"

\* MAX_CONCURRENT_SESSIONS bounds the sessions that hold or reserve an engine.
CapRespected == Cardinality(Active) <= MaxConcurrent

\* Once teardown has begun no reconnect timer is armed: nothing launches a
\* browser that races it.
DrainQuiet ==
  process = "destroying" => \A s \in Sessions : reconnect[s] = None \/ ~reconnect[s].armed

\* A session that is stopped and not started again ends with no registered
\* engine, whatever start or reconnect was in flight when it was stopped.
StopSettles ==
  \A s \in Sessions : <>[](s \in stopping) => <>[](engines[s] = None)

\* A start() that reserved its session lets it go again.
ReservationReleased ==
  \A s \in Sessions : s \in initializing ~> s \notin initializing

\* What isSessionRetired() is there for: a session that must stay down has no
\* client running once its calls are over.
RetiredRunsNothing ==
  \A e \in Engines :
    LET s == engine[e].owner IN
    engine[e].client = "open" /\ (s \in stopping \/ status[s] = "deleted") => Busy(s)

\* A session marked FAILED can be started again.
FailedCanRestart ==
  \A s \in Sessions : status[s] = "failed" /\ ~Busy(s) => engines[s] = None
=============================================================================
