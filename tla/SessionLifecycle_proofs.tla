---------------------- MODULE SessionLifecycle_proofs -----------------------
(***************************************************************************)
(* Theorems about the session lifecycle, for any sessions, any calls in    *)
(* flight, any number of engines and any limits.                           *)
(***************************************************************************)
EXTENDS SessionLifecycle, FiniteSetTheorems, TLAPS

-----------------------------------------------------------------------------
(* Lemmas about the helpers *)

Statuses == [Sessions -> Status]
EngineStates == [Engines -> EngineState]
CallStates == [Calls -> CallState \cup {None}]
EngineIds == Engines \cup {None}

\* Writing a status keeps the rows well formed.
LEMMA SetStatusType ==
  ASSUME status \in Statuses, NEW s, NEW v \in Status
  PROVE  SetStatus(s, v) \in Statuses
  BY DEF Statuses, SetStatus

\* A client teardown maps an adapter state to an adapter state.
LEMMA TornType ==
  ASSUME NEW r \in EngineState
  PROVE  Torn(r) \in EngineState
  BY DEF Torn, EngineState, EngineStatus, Status

\* So does taking the adapter off the map.
LEMMA SilentType ==
  ASSUME NEW r \in EngineState
  PROVE  Silent(r) \in EngineState
  BY DEF Silent, EngineState, EngineStatus, Status

\* An engine instance is a number, so None is not one.
LEMMA NoneIsNoEngine == None \notin Engines /\ None \notin Sessions
  BY SessionAssumption

\* A call in flight is well formed.
LEMMA InFlight ==
  ASSUME TypeOK, NEW c \in Calls, call[c] # None
  PROVE  /\ call[c] \in CallState
         /\ call[c].s \in Sessions
         /\ call[c].e \in EngineIds
         /\ call[c].kind \in Kinds
         /\ call[c].pc \in PCs
  BY DEF TypeOK, CallState, EngineIds

\* So it stays when it moves on,
LEMMA GoType ==
  ASSUME TypeOK, NEW c \in Calls, call[c] # None,
         NEW pc \in PCs, NEW e \in EngineIds, Go(c, pc, e)
  PROVE  call' \in CallStates
<1>1. [call[c] EXCEPT !.pc = pc, !.e = e] \in CallState
  BY InFlight DEF CallState, EngineIds
<1>2. QED
  BY <1>1 DEF TypeOK, Go, CallStates

\* and the others when it returns.
LEMMA ReturnType ==
  ASSUME TypeOK, NEW c \in Calls, Return(c)
  PROVE  call' \in CallStates
  BY DEF TypeOK, Return, CallStates

\* Evicting an entry keeps the map and the adapters well formed.
LEMMA EvictType ==
  ASSUME TypeOK, NEW s \in Sessions, NEW destroy \in BOOLEAN, Evict(s, destroy)
  PROVE  /\ engines' \in [Sessions -> EngineIds]
         /\ engine' \in EngineStates
<1>1. engines' \in [Sessions -> EngineIds]
  BY DEF TypeOK, Evict, EngineIds
<1>2. CASE engines[s] = None
  BY <1>1, <1>2 DEF TypeOK, Evict, EngineStates
<1>3. CASE engines[s] # None
  <2>1. engines[s] \in Engines
    BY <1>3 DEF TypeOK
  <2>2. engine[engines[s]] \in EngineState
    BY <2>1 DEF TypeOK
  <2>3. Silent(engine[engines[s]]) \in EngineState
    BY <2>2, SilentType
  <2>4. Torn(Silent(engine[engines[s]])) \in EngineState
    BY <2>3, TornType
  <2>5. engine' \in EngineStates
    BY <1>3, <2>1, <2>3, <2>4 DEF TypeOK, Evict, EngineStates
  <2>6. QED
    BY <1>1, <2>5
<1>4. QED
  BY <1>2, <1>3

\* So does tearing a registered engine down, and the rows with them.
LEMMA TearDownType ==
  ASSUME TypeOK, NEW s \in Sessions, NEW e \in Engines, TearDownLive(s, e)
  PROVE  /\ engine' \in EngineStates
         /\ status' \in Statuses
<1>1. Torn(engine[e]) \in EngineState
  BY TornType DEF TypeOK
<1>2. "disconnected" \in Status
  BY DEF Status
<1>3. SetStatus(s, "disconnected") \in Statuses
  BY <1>2, SetStatusType DEF TypeOK, Statuses
<1>4. QED
  BY <1>1, <1>3 DEF TypeOK, TearDownLive, EngineStates, Statuses

\* The first segment of initializeEngine().
LEMMA CreateEngineType ==
  ASSUME TypeOK, NEW c \in Calls, NEW s \in Sessions, CreateEngine(c, s)
  PROVE  /\ engine' \in EngineStates
         /\ engines' \in [Sessions -> EngineIds]
         /\ lastError' \in [Sessions -> BOOLEAN]
         /\ status' \in Statuses
         /\ call' \in CallStates
<1>1. PICK e \in Engines :
         /\ engine' = [d \in Engines |-> IF d = e THEN [Unborn EXCEPT !.owner = s]
                                         ELSE IF d = engines[s] THEN Silent(engine[d])
                                         ELSE engine[d]]
         /\ engines' = [engines EXCEPT ![s] = e]
         /\ lastError' = [lastError EXCEPT ![s] = FALSE]
         /\ status' = SetStatus(s, "initializing")
         /\ call' = [call EXCEPT ![c] =
                       [kind |-> IF call[c] = None THEN "reconnect" ELSE call[c].kind,
                        s |-> s, pc |-> "launch", e |-> e]]
  BY DEF CreateEngine
<1>2. engine' \in EngineStates
  <2>1. [Unborn EXCEPT !.owner = s] \in EngineState
    BY DEF Unborn, EngineState, EngineStatus, Status
  <2>2. \A d \in Engines : engine[d] \in EngineState /\ Silent(engine[d]) \in EngineState
    BY SilentType DEF TypeOK
  <2>3. QED
    BY <1>1, <2>1, <2>2 DEF EngineStates
<1>3. engines' \in [Sessions -> EngineIds] /\ lastError' \in [Sessions -> BOOLEAN]
  BY <1>1 DEF TypeOK, EngineIds
<1>4. status' \in Statuses
  <2>1. "initializing" \in Status
    BY DEF Status
  <2>2. QED
    BY <1>1, <2>1, SetStatusType DEF TypeOK, Statuses
<1>5. call' \in CallStates
  <2>1. (IF call[c] = None THEN "reconnect" ELSE call[c].kind) \in Kinds
    BY InFlight DEF Kinds
  <2>2. "launch" \in PCs
    BY DEF PCs
  <2>3. [kind |-> IF call[c] = None THEN "reconnect" ELSE call[c].kind,
         s |-> s, pc |-> "launch", e |-> e] \in CallState
    BY <2>1, <2>2 DEF CallState
  <2>4. QED
    BY <1>1, <2>3 DEF TypeOK, CallStates
<1>6. QED
  BY <1>2, <1>3, <1>4, <1>5

\* The attempts of a reconnect never pass their limit.
LEMMA ScheduleReconnectType ==
  ASSUME TypeOK, NEW s \in Sessions, NEW v \in Status, ScheduleReconnect(s, v)
  PROVE  /\ reconnect' \in [Sessions -> ReconnectState \cup {None}]
         /\ lastError' \in [Sessions -> BOOLEAN]
         /\ status' \in Statuses
<1>1. SetStatus(s, v) \in Statuses /\ SetStatus(s, "failed") \in Statuses
  <2>1. "failed" \in Status
    BY DEF Status
  <2>2. QED
    BY <2>1, SetStatusType DEF TypeOK, Statuses
<1>2. CASE ~MayReconnect(s)
  BY <1>1, <1>2 DEF ScheduleReconnect, TypeOK
<1>3. CASE MayReconnect(s) /\ Exhausted(reconnect[s])
  BY <1>1, <1>3 DEF ScheduleReconnect, TypeOK
<1>4. CASE MayReconnect(s) /\ ~Exhausted(reconnect[s])
  <2>1. reconnect[s] \in ReconnectState
    BY <1>4 DEF MayReconnect, TypeOK
  <2>2. reconnect[s].attempts + 1 \in 0 .. MaxAttempts
    BY <1>4, <2>1, SessionAssumption DEF Exhausted, ReconnectState
  <2>3. [attempts |-> reconnect[s].attempts + 1, armed |-> TRUE] \in ReconnectState
    BY <2>2 DEF ReconnectState
  <2>4. QED
    BY <1>1, <1>4, <2>3 DEF ScheduleReconnect, TypeOK
<1>5. QED
  BY <1>2, <1>3, <1>4

\* A terminal failure of an engine.
LEMMA FailType ==
  ASSUME TypeOK, NEW e \in Engines, engine[e].owner \in Sessions, Fail(e)
  PROVE  /\ status' \in Statuses
         /\ lastError' \in [Sessions -> BOOLEAN]
         /\ reconnect' \in [Sessions -> ReconnectState \cup {None}]
         /\ engines' \in [Sessions -> EngineIds]
<1>1. "failed" \in Status
  BY DEF Status
<1>2. SetStatus(engine[e].owner, "failed") \in Statuses
  BY <1>1, SetStatusType DEF TypeOK, Statuses
<1>3. QED
  BY <1>2 DEF Fail, TypeOK, EngineIds

-----------------------------------------------------------------------------
(* Type correctness *)

\* The initial state is well formed.
LEMMA TypeInit == Init => TypeOK
<1> SUFFICES ASSUME Init PROVE TypeOK
  OBVIOUS
<1>1. Unborn \in EngineState
  BY DEF Unborn, EngineState, EngineStatus, Status
<1>2. "created" \in Status
  BY DEF Status
<1>3. QED
  BY <1>1, <1>2, SessionAssumption DEF Init, TypeOK

\* Every segment of a call keeps the state well formed.
LEMMA TypeCallStep ==
  ASSUME TypeOK, NEW c \in Calls, CallStep(c)
  PROVE  TypeOK'
<1> DEFINE s == call[c].s
           e == call[c].e
<1> USE DEF maps, At
<1>0. /\ TRUE \in BOOLEAN /\ FALSE \in BOOLEAN
      /\ {"initializing", "disconnected", "failed", "deleted"} \subseteq Status
      /\ PCs = {"found", "hook", "launch", "init", "timeout", "threw", "reap", "retire",
                "retiring", "leave", "swap", "closing", "deleting", "purge"}
      /\ None \in EngineIds
  BY DEF Status, PCs, EngineIds
<1>1. CASE StartReserve(c)
  <2>1. call[c] # None /\ s \in Sessions
    BY <1>1, InFlight DEF StartReserve
  <2>2. call' \in CallStates
    BY <1>0, <1>1, <2>1, GoType, ReturnType DEF StartReserve
  <2>3. QED
    BY <1>1, <2>1, <2>2 DEF StartReserve, TypeOK, CallStates
<1>2. CASE StartLaunch(c)
  <2>1. call[c] # None /\ s \in Sessions
    BY <1>2, InFlight DEF StartLaunch
  <2>2. /\ CreateEngine(c, s)
        /\ reconnect' = [reconnect EXCEPT ![s] = [attempts |-> 0, armed |-> FALSE]]
    BY <1>2 DEF StartLaunch
  <2>3. [attempts |-> 0, armed |-> FALSE] \in ReconnectState
    BY SessionAssumption DEF ReconnectState
  <2>4. QED
    BY <1>2, <2>1, <2>2, <2>3, CreateEngineType
    DEF StartLaunch, TypeOK, CallStates, EngineIds, EngineStates, Statuses
<1>3. CASE LaunchEngine(c)
  <2>1. call[c] # None /\ e \in EngineIds
    BY <1>3, InFlight DEF LaunchEngine
  <2>2. Go(c, "init", e)
    BY <1>3 DEF LaunchEngine
  <2>3. call' \in CallStates
    BY <1>0, <2>1, <2>2, GoType
  <2>4. engine' \in EngineStates
    <3>1. \A r \in EngineState :
            [r EXCEPT !.init = "pending", !.st = "initializing"] \in EngineState
      BY DEF EngineState, EngineStatus, Status
    <3>2. engine' = [engine EXCEPT ![e].init = "pending", ![e].st = "initializing"]
      BY <1>3 DEF LaunchEngine
    <3>3. QED
      BY <3>1, <3>2 DEF TypeOK, EngineStates
  <2>5. status' \in Statuses
    <3>1. "initializing" \in Status /\ status \in Statuses
      BY <1>0 DEF TypeOK, Statuses
    <3>2. \A r : SetStatus(r, "initializing") \in Statuses
      BY <3>1, SetStatusType
    <3>3. QED
      BY <1>3, <3>1, <3>2 DEF LaunchEngine
  <2>6. QED
    BY <1>3, <2>3, <2>4, <2>5 DEF LaunchEngine, TypeOK, CallStates, EngineStates, Statuses
<1>4. CASE LaunchFails(c)
  <2>1. call' \in CallStates
    BY <1>0, <1>4, InFlight, GoType DEF LaunchFails
  <2>2. QED
    BY <1>4, <2>1 DEF LaunchFails, TypeOK, CallStates
<1>5. CASE InitTimeout(c)
  <2>1. call[c] # None /\ s \in Sessions /\ e \in EngineIds
    BY <1>5, InFlight DEF InitTimeout
  <2>2. call' \in CallStates
    BY <1>0, <1>5, <2>1, GoType DEF InitTimeout
  <2>3. engine' \in EngineStates
    <3>1. \A d \in Engines : engine[d] \in EngineState /\ Silent(engine[d]) \in EngineState
      BY SilentType DEF TypeOK
    <3>2. \A d \in Engines : /\ Torn(engine[d]) \in EngineState
                            /\ Torn(Silent(engine[d])) \in EngineState
      BY <3>1, TornType
    <3>3. engine' = [d \in Engines |->
                       LET r == IF d = engines[s] THEN Silent(engine[d]) ELSE engine[d]
                       IN  IF d = e THEN Torn(r) ELSE r]
      BY <1>5 DEF InitTimeout
    <3>4. QED
      BY <3>1, <3>2, <3>3 DEF EngineStates
  <2>4. QED
    BY <1>5, <2>1, <2>2, <2>3 DEF InitTimeout, TypeOK, CallStates, EngineStates
<1>6. CASE TimeoutReaped(c)
  <2>1. call[c] # None /\ s \in Sessions /\ e \in EngineIds
    BY <1>6, InFlight DEF TimeoutReaped
  <2>2. call' \in CallStates /\ status' \in Statuses
    BY <1>0, <1>6, <2>1, GoType, SetStatusType DEF TimeoutReaped, TypeOK, Statuses
  <2>3. QED
    BY <1>6, <2>2 DEF TimeoutReaped, TypeOK, CallStates, Statuses
<1>7. CASE StartCatch(c)
  <2>1. call[c] # None /\ s \in Sessions
    BY <1>7, InFlight DEF StartCatch, InitThrew
  <2>2. CASE engines[s] = None
    BY <1>7, <2>1, <2>2, ReturnType DEF StartCatch, TypeOK, CallStates
  <2>3. CASE engines[s] # None
    <3>1. engines[s] \in EngineIds
      BY <2>1 DEF TypeOK, EngineIds
    <3>2. Evict(s, TRUE) /\ Go(c, "reap", engines[s])
      BY <1>7, <2>3 DEF StartCatch
    <3>3. call' \in CallStates
      BY <1>0, <2>1, <3>1, <3>2, GoType
    <3>4. QED
      BY <1>7, <2>1, <2>3, <3>2, <3>3, EvictType
      DEF StartCatch, TypeOK, CallStates, EngineIds, EngineStates
  <2>4. QED
    BY <2>2, <2>3
<1>8. CASE StartReaped(c)
  <2>1. call[c] # None /\ s \in Sessions
    BY <1>8, InFlight DEF StartReaped
  <2>2. call' \in CallStates /\ status' \in Statuses
    BY <1>0, <1>8, <2>1, GoType, SetStatusType DEF StartReaped, TypeOK, Statuses
  <2>3. QED
    BY <1>8, <2>2 DEF StartReaped, TypeOK, CallStates, Statuses
<1>9. CASE InitReturned(c)
  <2>1. call[c] # None /\ e \in EngineIds
    BY <1>9, InFlight DEF InitReturned
  <2>2. call' \in CallStates
    BY <1>0, <1>9, <2>1, GoType DEF InitReturned
  <2>3. QED
    BY <1>9, <2>2 DEF InitReturned, TypeOK, CallStates
<1>10. CASE Retire(c)
  <2>1. call[c] # None /\ s \in Sessions /\ engines[s] \in EngineIds
    BY <1>10, InFlight DEF Retire, TypeOK, EngineIds
  <2>2. call' \in CallStates
    BY <1>0, <1>10, <2>1, GoType DEF Retire
  <2>3. engine' \in EngineStates /\ status' \in Statuses
    BY <1>10, <2>1, TearDownType DEF Retire, TypeOK, EngineStates, Statuses, EngineIds
  <2>4. QED
    BY <1>10, <2>2, <2>3 DEF Retire, TypeOK, CallStates, EngineStates, Statuses
<1>11. CASE Retired(c)
  <2>1. call[c] # None /\ s \in Sessions
    BY <1>11, InFlight DEF Retired
  <2>2. call' \in CallStates
    BY <1>0, <1>11, <2>1, GoType DEF Retired
  <2>3. engines' \in [Sessions -> EngineIds] /\ engine' \in EngineStates
    BY <1>0, <1>11, <2>1, EvictType DEF Retired
  <2>4. QED
    BY <1>11, <2>2, <2>3 DEF Retired, TypeOK, CallStates, EngineStates, EngineIds
<1>12. CASE Leave(c)
  BY <1>12, ReturnType DEF Leave, TypeOK, CallStates
<1>13. CASE ReconnectSwap(c)
  BY <1>13, InFlight, CreateEngineType
  DEF ReconnectSwap, TypeOK, CallStates, EngineIds, EngineStates, Statuses
<1>14. CASE ReconnectCatch(c)
  <2>1. call[c] # None /\ s \in Sessions /\ status[s] \in Status
    BY <1>14, InFlight DEF ReconnectCatch, InitThrew, TypeOK
  <2>2. Evict(s, TRUE) /\ ScheduleReconnect(s, status[s]) /\ Return(c)
    BY <1>14 DEF ReconnectCatch
  <2>3. QED
    BY <1>14, <2>1, <2>2, EvictType, ScheduleReconnectType, ReturnType
    DEF ReconnectCatch, TypeOK, CallStates, EngineIds, EngineStates, Statuses
<1>15. CASE Mark(c)
  <2>1. call[c] # None /\ s \in Sessions /\ engines[s] \in EngineIds
    BY <1>15, InFlight DEF Mark, TypeOK, EngineIds
  <2>2. call' \in CallStates
    BY <1>0, <1>15, <2>1, GoType, ReturnType DEF Mark
  <2>3. engine' \in EngineStates /\ status' \in Statuses
    BY <1>0, <1>15, <2>1, TearDownType, SetStatusType
    DEF Mark, TypeOK, EngineStates, Statuses, EngineIds
  <2>4. QED
    BY <1>15, <2>1, <2>2, <2>3 DEF Mark, TypeOK, CallStates, EngineStates, Statuses
<1>16. CASE Stopped(c)
  <2>1. s \in Sessions /\ Evict(s, FALSE) /\ Return(c)
    BY <1>16, InFlight DEF Stopped
  <2>2. status' \in Statuses
    BY <1>0, <1>16, <2>1, SetStatusType DEF Stopped, TypeOK, Statuses
  <2>3. QED
    BY <1>0, <1>16, <2>1, <2>2, EvictType, ReturnType
    DEF Stopped, TypeOK, CallStates, EngineIds, EngineStates, Statuses
<1>17. CASE DeleteEvicted(c)
  <2>1. call[c] # None /\ s \in Sessions /\ Evict(s, FALSE) /\ Go(c, "deleting", None)
    BY <1>17, InFlight DEF DeleteEvicted
  <2>2. call' \in CallStates
    BY <1>0, <2>1, GoType
  <2>3. QED
    BY <1>0, <1>17, <2>1, <2>2, EvictType
    DEF DeleteEvicted, TypeOK, CallStates, EngineIds, EngineStates
<1>18. CASE DeleteRow(c)
  <2>1. call[c] # None /\ Go(c, "purge", None)
    BY <1>18 DEF DeleteRow
  <2>2. call' \in CallStates
    BY <1>0, <2>1, GoType
  <2>3. QED
    BY <1>0, <1>18, <2>2 DEF DeleteRow, TypeOK, CallStates
<1>19. CASE DeleteFinally(c)
  BY <1>19, ReturnType DEF DeleteFinally, TypeOK, CallStates
<1>20. QED
  BY <1>1, <1>2, <1>3, <1>4, <1>5, <1>6, <1>7, <1>8, <1>9, <1>10, <1>11, <1>12, <1>13,
     <1>14, <1>15, <1>16, <1>17, <1>18, <1>19 DEF CallStep

\* Every event of an engine keeps the state well formed.
LEMMA TypeEngineStep ==
  ASSUME TypeOK, NEW e \in Engines, EngineStep(e)
  PROVE  TypeOK'
<1> DEFINE s == engine[e].owner
<1> USE DEF maps, Hears, Live
<1>0. /\ engine[e] \in EngineState
      /\ s # None => s \in Sessions
      /\ {"qr_ready", "authenticating", "ready", "disconnected"} \subseteq Status
      /\ UNCHANGED <<call, process, crashes>>
  BY DEF TypeOK, EngineState, Status, EngineStep
<1>1. CASE ClientBuilt(e)
  BY <1>0, <1>1 DEF ClientBuilt, TypeOK, EngineState
<1>2. CASE InitOk(e)
  BY <1>0, <1>2 DEF InitOk, TypeOK, EngineState
<1>3. CASE InitFails(e)
  <2>1. [engine[e] EXCEPT !.init = "err"] \in EngineState
    BY <1>0 DEF EngineState
  <2>2. Torn(Silent([engine[e] EXCEPT !.init = "err"])) \in EngineState
    BY <2>1, SilentType, TornType
  <2>3. engine' \in EngineStates
    BY <1>3, <2>1, <2>2 DEF InitFails, TypeOK, EngineStates
  <2>4. QED
    BY <1>0, <1>3, <2>3, FailType
    DEF InitFails, TypeOK, EngineStates, EngineIds, Statuses
<1>4. CASE QrArrives(e)
  BY <1>0, <1>4 DEF QrArrives, TypeOK, EngineState
<1>5. CASE QrRendered(e)
  <2>1. status' \in Statuses
    BY <1>0, <1>5, SetStatusType DEF QrRendered, Report, TypeOK, Statuses
  <2>2. [engine[e] EXCEPT !.qr = FALSE, !.st = "qr_ready"] \in EngineState
    BY <1>0 DEF EngineState, EngineStatus, Status
  <2>3. QED
    BY <1>0, <1>5, <2>1, <2>2 DEF QrRendered, TypeOK, Statuses
<1>6. CASE Authenticated(e)
  <2>1. status' \in Statuses
    BY <1>0, <1>6, SetStatusType DEF Authenticated, Report, TypeOK, Statuses
  <2>2. [engine[e] EXCEPT !.st = "authenticating"] \in EngineState
    BY <1>0 DEF EngineState, EngineStatus, Status
  <2>3. QED
    BY <1>0, <1>6, <2>1, <2>2 DEF Authenticated, TypeOK, Statuses
<1>7. CASE Ready(e)
  <2>1. status' \in Statuses
    BY <1>0, <1>7, SetStatusType DEF Ready, Report, TypeOK, Statuses
  <2>2. [engine[e] EXCEPT !.st = "ready"] \in EngineState
    BY <1>0 DEF EngineState, EngineStatus, Status
  <2>3. reconnect' \in [Sessions -> ReconnectState \cup {None}]
    <3>1. reconnect[s] # None => [reconnect[s] EXCEPT !.attempts = 0] \in ReconnectState
      BY <1>0, <1>7, SessionAssumption DEF Ready, TypeOK, ReconnectState
    <3>2. QED
      BY <1>0, <1>7, <3>1 DEF Ready, TypeOK
  <2>4. QED
    BY <1>0, <1>7, <2>1, <2>2, <2>3 DEF Ready, TypeOK, Statuses
<1>8. CASE Disconnected(e)
  <2>1. [engine[e] EXCEPT !.st = "disconnected", !.client = engine[e].client] \in EngineState
    BY <1>0 DEF EngineState, EngineStatus, Status
  <2>2. engine' \in EngineStates
    BY <1>8, <2>1 DEF Disconnected, Drop, TypeOK, EngineStates
  <2>3. QED
    BY <1>0, <1>8, <2>2, ScheduleReconnectType
    DEF Disconnected, Drop, TypeOK, EngineStates, Statuses
<1>9. CASE AuthFailure(e)
  <2>1. Torn(Silent(engine[e])) \in EngineState
    BY <1>0, SilentType, TornType
  <2>2. QED
    BY <1>0, <1>9, <2>1, FailType DEF AuthFailure, TypeOK, EngineIds, Statuses
<1>10. CASE StuckAuth(e)
  <2>1. [engine[e] EXCEPT !.st = "disconnected", !.client = "gone"] \in EngineState
    BY <1>0 DEF EngineState, EngineStatus, Status
  <2>2. engine' \in EngineStates
    BY <1>10, <2>1 DEF StuckAuth, Drop, TypeOK, EngineStates
  <2>3. QED
    BY <1>0, <1>10, <2>2, ScheduleReconnectType
    DEF StuckAuth, Drop, TypeOK, EngineStates, Statuses
<1>11. CASE ClientGone(e)
  BY <1>0, <1>11 DEF ClientGone, TypeOK, EngineState
<1>12. QED
  BY <1>1, <1>2, <1>3, <1>4, <1>5, <1>6, <1>7, <1>8, <1>9, <1>10, <1>11 DEF EngineStep

\* Every step keeps the state well formed.
LEMMA TypeStep ==
  ASSUME TypeOK, [Next]_vars
  PROVE  TypeOK'
<1> USE DEF maps
<1>1. ASSUME NEW c \in Calls, NEW k \in Kinds \ {"reconnect"}, NEW s \in Sessions,
             Request(c, k, s)
      PROVE  TypeOK'
  <2>1. [kind |-> k, s |-> s, pc |-> "found", e |-> None] \in CallState
    BY DEF CallState, PCs
  <2>2. QED
    BY <1>1, <2>1 DEF Request, TypeOK
<1>2. ASSUME NEW c \in Calls, NEW s \in Sessions, ReconnectFire(c, s)
      PROVE  TypeOK'
  <2>1. reconnect' \in [Sessions -> ReconnectState \cup {None}]
    <3>1. [reconnect[s] EXCEPT !.armed = FALSE] \in ReconnectState
      BY <1>2 DEF ReconnectFire, TypeOK, ReconnectState
    <3>2. QED
      BY <1>2, <3>1 DEF ReconnectFire, TypeOK
  <2>2. CASE s \in stopping
    BY <1>2, <2>1, <2>2 DEF ReconnectFire, TypeOK
  <2>3. CASE s \notin stopping /\ engines[s] # None
    <3>1. engines[s] \in Engines /\ TearDownLive(s, engines[s])
      BY <1>2, <2>3 DEF ReconnectFire, TypeOK
    <3>2. [kind |-> "reconnect", s |-> s, pc |-> "swap", e |-> engines[s]] \in CallState
      BY <3>1 DEF CallState, Kinds, PCs
    <3>3. QED
      BY <1>2, <2>1, <2>3, <3>1, <3>2, TearDownType
      DEF ReconnectFire, TypeOK, EngineStates, Statuses
  <2>4. CASE s \notin stopping /\ engines[s] = None
    <3>1. CreateEngine(c, s)
      BY <1>2, <2>4 DEF ReconnectFire
    <3>2. QED
      BY <1>2, <2>1, <3>1, CreateEngineType
      DEF ReconnectFire, TypeOK, EngineStates, EngineIds, CallStates, Statuses
  <2>5. QED
    BY <2>2, <2>3, <2>4
<1>3. CASE Drain
  BY <1>3 DEF Drain, TypeOK
<1>4. CASE ModuleDestroy
  <2>1. engine' \in EngineStates
    <3>1. \A e \in Engines : Torn(engine[e]) \in EngineState
      BY TornType DEF TypeOK
    <3>2. QED
      BY <1>4, <3>1 DEF ModuleDestroy, TypeOK, EngineStates
  <2>2. status' \in Statuses
    <3>1. \A s \in Sessions : SetStatus(s, "disconnected")[s] \in Status
      BY DEF SetStatus, TypeOK, Status
    <3>2. QED
      BY <1>4, <3>1 DEF ModuleDestroy, TypeOK, Statuses
  <2>3. QED
    BY <1>4, <2>1, <2>2 DEF ModuleDestroy, TypeOK, EngineStates, Statuses
<1>5. CASE Exit
  <2>1. \A o : o \in Sessions \cup {None} =>
            [Unborn EXCEPT !.owner = o, !.client = "gone"] \in EngineState
    BY DEF Unborn, EngineState, EngineStatus, Status
  <2>2. Unborn \in EngineState
    BY DEF Unborn, EngineState, EngineStatus, Status
  <2>3. \A e \in Engines : engine[e].owner \in Sessions \cup {None}
    BY DEF TypeOK, EngineState
  <2>4. engine' \in EngineStates
    BY <1>5, <2>1, <2>2, <2>3 DEF Exit, EngineStates
  <2>5. crashes' \in 0 .. MaxCrashes
    <3>1. crashes < MaxCrashes /\ crashes' = crashes + 1
      BY <1>5 DEF Exit
    <3>2. crashes \in 0 .. MaxCrashes /\ MaxCrashes \in Nat
      BY SessionAssumption DEF TypeOK
    <3>3. QED
      BY <3>1, <3>2
  <2>6. QED
    BY <1>5, <2>4, <2>5 DEF Exit, TypeOK, EngineStates
<1>6. CASE Boot
  BY <1>6 DEF Boot, TypeOK, Status
<1>7. CASE UNCHANGED vars
  BY <1>7 DEF vars, TypeOK
<1>8. QED
  BY <1>1, <1>2, <1>3, <1>4, <1>5, <1>6, <1>7, TypeCallStep, TypeEngineStep DEF Next

\* The maps, rows, calls and adapters stay well formed, and the reconnect
\* counter within its limit.
THEOREM TypeCorrect == Spec => []TypeOK
  BY TypeInit, TypeStep, PTL DEF Spec

-----------------------------------------------------------------------------
(* The reservation of start() *)

\* The state v of a call holds a reservation of session s.
Reserves(v, s) == v # None /\ v.kind = "start" /\ v.pc # "found" /\ v.s = s

\* StartExclusive in these words: s is reserved exactly if one call reserves it.
LEMMA ReservationIff ==
  ASSUME TypeOK
  PROVE  StartExclusive <=>
           /\ \A s : s \in initializing <=> \E c \in Calls : Reserves(call[c], s)
           /\ \A s : \A c, d \in Calls : Reserves(call[c], s) /\ Reserves(call[d], s) => c = d
  BY DEF StartExclusive, Starting, Reserves

\* The same of the next state.
LEMMA ReservationIffNext ==
  ASSUME TypeOK'
  PROVE  StartExclusive' <=>
           /\ \A s : s \in initializing' <=> \E c \in Calls : Reserves(call'[c], s)
           /\ \A s : \A c, d \in Calls : Reserves(call'[c], s) /\ Reserves(call'[d], s) => c = d
  BY DEF StartExclusive, Starting, Reserves

\* What a step may do to the reservations: nothing, take a free one for a call
\* that holds none, give one back, or lose all of them.
Keeps == /\ initializing' = initializing
         /\ \A c \in Calls : \A s : Reserves(call'[c], s) <=> Reserves(call[c], s)

Takes(c, s) ==
  /\ s \notin initializing /\ initializing' = initializing \cup {s}
  /\ \A r : ~Reserves(call[c], r)
  /\ \A r : Reserves(call'[c], r) <=> r = s
  /\ \A d \in Calls \ {c} : call'[d] = call[d]

Frees(c, s) ==
  /\ Reserves(call[c], s) /\ initializing' = initializing \ {s}
  /\ \A r : ~Reserves(call'[c], r)
  /\ \A d \in Calls \ {c} : call'[d] = call[d]

Drops == initializing' = {} /\ \A c \in Calls : call'[c] = None

\* A call that moves on keeps its reservation, past the first segment.
LEMMA GoKeeps ==
  ASSUME TypeOK, NEW c \in Calls, call[c] # None,
         call[c].kind # "start" \/ call[c].pc # "found",
         NEW pc \in PCs \ {"found"}, NEW e \in EngineIds, Go(c, pc, e),
         initializing' = initializing
  PROVE  Keeps
<1>1. \A d \in Calls \ {c} : call'[d] = call[d]
  BY DEF TypeOK, Go
<1>2. /\ call'[c] \in CallState
      /\ call'[c].kind = call[c].kind /\ call'[c].s = call[c].s /\ call'[c].pc = pc
  BY InFlight DEF TypeOK, Go, CallState, EngineIds
<1>3. call'[c] # None
  BY <1>2, SessionAssumption
<1>4. QED
  BY <1>1, <1>2, <1>3 DEF Keeps, Reserves

\* So does the first segment of initializeEngine().
LEMMA CreateEngineKeeps ==
  ASSUME TypeOK, NEW c \in Calls, NEW s \in Sessions, CreateEngine(c, s),
         call[c] # None => call[c].pc # "found" /\ call[c].s = s,
         initializing' = initializing
  PROVE  Keeps
<1>1. PICK e \in Engines :
         call' = [call EXCEPT ![c] =
                   [kind |-> IF call[c] = None THEN "reconnect" ELSE call[c].kind,
                    s |-> s, pc |-> "launch", e |-> e]]
  BY DEF CreateEngine
<1>2. \A d \in Calls \ {c} : call'[d] = call[d]
  BY <1>1 DEF TypeOK
<1>3. call'[c] # None
  <2>1. call'[c] \in CallState
    BY <1>1, InFlight DEF TypeOK, CallState, Kinds, PCs
  <2>2. QED
    BY <2>1, SessionAssumption
<1>4. /\ call'[c].kind = IF call[c] = None THEN "reconnect" ELSE call[c].kind
      /\ call'[c].s = s /\ call'[c].pc = "launch"
  BY <1>1 DEF TypeOK
<1>5. QED
  BY <1>2, <1>3, <1>4 DEF Keeps, Reserves

\* A call that returns without a reservation changes none,
LEMMA ReturnKeeps ==
  ASSUME TypeOK, NEW c \in Calls, Return(c), \A s : ~Reserves(call[c], s),
         initializing' = initializing
  PROVE  Keeps
  BY DEF TypeOK, Return, Keeps, Reserves

\* and one that holds a reservation gives it back.
LEMMA ReturnFrees ==
  ASSUME TypeOK, NEW c \in Calls, Return(c), Reserves(call[c], call[c].s),
         initializing' = initializing \ {call[c].s}
  PROVE  Frees(c, call[c].s)
  BY DEF TypeOK, Return, Frees, Reserves

\* Every segment of a call does one of the four.
LEMMA CallStepReserves ==
  ASSUME TypeOK, NEW c \in Calls, CallStep(c)
  PROVE  \/ Keeps
         \/ Takes(c, call[c].s)
         \/ Frees(c, call[c].s)
<1> DEFINE s == call[c].s
<1> USE DEF maps, At
<1>0. /\ PCs = {"found", "hook", "launch", "init", "timeout", "threw", "reap", "retire",
                "retiring", "leave", "swap", "closing", "deleting", "purge"}
      /\ None \in EngineIds
  BY DEF PCs, EngineIds
<1>a. call[c] # None
  BY DEF CallStep, StartReserve, StartLaunch, LaunchEngine, LaunchFails, InitTimeout,
         TimeoutReaped, StartCatch, InitThrew, StartReaped, InitReturned, Retire, Retired,
         Leave, ReconnectSwap, ReconnectCatch, Mark, Stopped, DeleteEvicted, DeleteRow,
         DeleteFinally
<1>b. /\ s \in Sessions /\ call[c].e \in EngineIds /\ engines[s] \in EngineIds
      /\ call[c] \in CallState
  BY <1>a, InFlight DEF TypeOK, EngineIds
<1>1. CASE StartReserve(c)
  <2>1. \A r : ~Reserves(call[c], r)
    BY <1>1 DEF StartReserve, Reserves
  <2>2. CASE Admissible(s)
    <3>1. Go(c, "hook", None) /\ initializing' = initializing \cup {s} /\ s \notin initializing
      BY <1>1, <2>2 DEF StartReserve, Admissible
    <3>2. \A d \in Calls \ {c} : call'[d] = call[d]
      BY <3>1 DEF TypeOK, Go
    <3>3. /\ call'[c] \in CallState
          /\ call'[c].kind = "start" /\ call'[c].s = s /\ call'[c].pc = "hook"
      BY <1>0, <1>1, <1>b, <3>1 DEF StartReserve, TypeOK, Go, CallState, EngineIds
    <3>4. call'[c] # None
      BY <3>3, SessionAssumption
    <3>5. Takes(c, s)
      BY <2>1, <3>1, <3>2, <3>3, <3>4 DEF Takes, Reserves
    <3>6. QED
      BY <3>5
  <2>3. CASE ~Admissible(s)
    BY <1>1, <2>1, <2>3, ReturnKeeps DEF StartReserve
  <2>4. QED
    BY <2>2, <2>3
<1>2. CASE StartLaunch(c)
  BY <1>2, <1>b, CreateEngineKeeps DEF StartLaunch
<1>3. CASE LaunchEngine(c)
  <2>1. Go(c, "init", call[c].e) /\ initializing' = initializing /\ call[c].pc # "found"
    BY <1>3 DEF LaunchEngine
  <2>2. QED
    BY <1>0, <1>a, <1>b, <2>1, GoKeeps
<1>4. CASE LaunchFails(c)
  BY <1>0, <1>4, <1>a, <1>b, GoKeeps DEF LaunchFails
<1>5. CASE InitTimeout(c)
  <2>1. Go(c, "timeout", call[c].e) /\ initializing' = initializing /\ call[c].pc # "found"
    BY <1>5 DEF InitTimeout
  <2>2. QED
    BY <1>0, <1>a, <1>b, <2>1, GoKeeps
<1>6. CASE TimeoutReaped(c)
  BY <1>0, <1>6, <1>a, <1>b, GoKeeps DEF TimeoutReaped
<1>7. CASE StartCatch(c)
  <2>1. Reserves(call[c], s) /\ call[c].pc # "found"
    BY <1>7 DEF StartCatch, InitThrew, Reserves
  <2>2. CASE engines[s] = None
    BY <1>7, <2>1, <2>2, ReturnFrees DEF StartCatch
  <2>3. CASE engines[s] # None
    <3>1. Go(c, "reap", engines[s]) /\ initializing' = initializing
      BY <1>7, <2>3 DEF StartCatch
    <3>2. QED
      BY <1>0, <1>a, <1>b, <2>1, <3>1, GoKeeps
  <2>4. QED
    BY <2>2, <2>3
<1>8. CASE StartReaped(c)
  BY <1>0, <1>8, <1>a, <1>b, GoKeeps DEF StartReaped
<1>9. CASE InitReturned(c)
  <2>1. /\ Go(c, "retire", call[c].e) \/ Go(c, "leave", None)
        /\ initializing' = initializing /\ call[c].pc # "found"
    BY <1>9 DEF InitReturned
  <2>2. QED
    BY <1>0, <1>a, <1>b, <2>1, GoKeeps
<1>10. CASE Retire(c)
  <2>1. /\ Go(c, "retiring", engines[s]) \/ Go(c, "leave", None)
        /\ initializing' = initializing /\ call[c].pc # "found"
    BY <1>10 DEF Retire
  <2>2. QED
    BY <1>0, <1>a, <1>b, <2>1, GoKeeps
<1>11. CASE Retired(c)
  BY <1>0, <1>11, <1>a, <1>b, GoKeeps DEF Retired
<1>12. CASE Leave(c)
  <2>1. CASE call[c].kind = "start"
    BY <1>12, <2>1, ReturnFrees DEF Leave, Reserves
  <2>2. CASE call[c].kind # "start"
    BY <1>12, <2>2, ReturnKeeps DEF Leave, Reserves
  <2>3. QED
    BY <2>1, <2>2
<1>13. CASE ReconnectSwap(c)
  BY <1>13, <1>b, CreateEngineKeeps DEF ReconnectSwap
<1>14. CASE ReconnectCatch(c)
  BY <1>14, ReturnKeeps DEF ReconnectCatch, InitThrew, Reserves
<1>15. CASE Mark(c)
  <2>1. call[c].kind # "start" /\ initializing' = initializing
    BY <1>15 DEF Mark
  <2>2. Go(c, "closing", engines[s]) \/ Go(c, "deleting", None) \/ Return(c)
    BY <1>15 DEF Mark
  <2>3. QED
    BY <1>0, <1>a, <1>b, <2>1, <2>2, GoKeeps, ReturnKeeps DEF Reserves
<1>16. CASE Stopped(c)
  BY <1>16, ReturnKeeps DEF Stopped, Reserves
<1>17. CASE DeleteEvicted(c)
  BY <1>0, <1>17, <1>a, <1>b, GoKeeps DEF DeleteEvicted
<1>18. CASE DeleteRow(c)
  BY <1>0, <1>18, <1>a, <1>b, GoKeeps DEF DeleteRow
<1>19. CASE DeleteFinally(c)
  BY <1>19, ReturnKeeps DEF DeleteFinally, Reserves
<1>20. QED
  BY <1>1, <1>2, <1>3, <1>4, <1>5, <1>6, <1>7, <1>8, <1>9, <1>10, <1>11, <1>12, <1>13,
     <1>14, <1>15, <1>16, <1>17, <1>18, <1>19 DEF CallStep

\* So does every step; only a segment takes or gives back a reservation.
LEMMA StepReserves ==
  ASSUME TypeOK, [Next]_vars
  PROVE  \/ Keeps
         \/ Drops
         \/ \E c \in Calls, s \in Sessions : Takes(c, s) \/ Frees(c, s)
<1> USE DEF maps
<1>1. ASSUME NEW c \in Calls, NEW k \in Kinds \ {"reconnect"}, NEW s \in Sessions,
             Request(c, k, s)
      PROVE  Keeps
  <2>1. call[c] = None /\ initializing' = initializing
    BY <1>1 DEF Request
  <2>2. call' = [call EXCEPT ![c] = [kind |-> k, s |-> s, pc |-> "found", e |-> None]]
    BY <1>1 DEF Request
  <2>3. QED
    BY <2>1, <2>2 DEF TypeOK, Keeps, Reserves
<1>2. ASSUME NEW c \in Calls, NEW s \in Sessions, ReconnectFire(c, s)
      PROVE  Keeps
  <2>1. call[c] = None /\ initializing' = initializing
    BY <1>2 DEF ReconnectFire
  <2>2. CASE s \in stopping
    BY <1>2, <2>1, <2>2 DEF ReconnectFire, Keeps
  <2>3. CASE s \notin stopping /\ engines[s] # None
    <3>1. call' = [call EXCEPT ![c] = [kind |-> "reconnect", s |-> s,
                                      pc |-> "swap", e |-> engines[s]]]
      BY <1>2, <2>3 DEF ReconnectFire
    <3>2. QED
      BY <2>1, <3>1 DEF TypeOK, Keeps, Reserves
  <2>4. CASE s \notin stopping /\ engines[s] = None
    <3>1. CreateEngine(c, s)
      BY <1>2, <2>4 DEF ReconnectFire
    <3>2. QED
      BY <2>1, <3>1, CreateEngineKeeps
  <2>5. QED
    BY <2>2, <2>3, <2>4
<1>3. ASSUME NEW e \in Engines, EngineStep(e)
      PROVE  Keeps
  <2>1. UNCHANGED <<call, initializing>>
    BY <1>3 DEF EngineStep, ClientBuilt, InitOk, InitFails, QrArrives, QrRendered,
                Authenticated, Ready, Disconnected, AuthFailure, StuckAuth, ClientGone
  <2>2. QED
    BY <2>1 DEF Keeps
<1>4. CASE Drain \/ ModuleDestroy \/ Boot \/ UNCHANGED vars
  BY <1>4 DEF Drain, ModuleDestroy, Boot, vars, Keeps
<1>5. CASE Exit
  BY <1>5 DEF Exit, Drops
<1>6. ASSUME NEW c \in Calls, CallStep(c)
      PROVE  Keeps \/ \E s \in Sessions : Takes(c, s) \/ Frees(c, s)
  <2>1. CASE Keeps
    BY <2>1
  <2>2. CASE Takes(c, call[c].s)
    <3>1. call[c].s \in Sessions
      BY <2>2, TypeStep DEF Takes, TypeOK
    <3>2. QED
      BY <2>2, <3>1
  <2>3. CASE Frees(c, call[c].s)
    <3>1. call[c].s \in Sessions
      BY <2>3, InFlight DEF Frees, Reserves
    <3>2. QED
      BY <2>3, <3>1
  <2>4. QED
    BY <1>6, <2>1, <2>2, <2>3, CallStepReserves
<1>7. QED
  BY <1>1, <1>2, <1>3, <1>4, <1>5, <1>6 DEF Next

\* Each of the four preserves the match between reservations and calls.
LEMMA ExclusiveStep ==
  ASSUME TypeOK, StartExclusive, [Next]_vars
  PROVE  StartExclusive'
<1> DEFINE Match == \A s : s \in initializing <=> \E c \in Calls : Reserves(call[c], s)
           Alone == \A s : \A c, d \in Calls :
                      Reserves(call[c], s) /\ Reserves(call[d], s) => c = d
<1>1. TypeOK'
  BY TypeStep
<1>2. Match /\ Alone
  BY ReservationIff
<1>3. CASE Keeps
  <2>1. Match' /\ Alone'
    BY <1>2, <1>3 DEF Keeps
  <2>2. QED
    BY <1>1, <2>1, ReservationIffNext
<1>4. CASE Drops
  <2>1. Match' /\ Alone'
    BY <1>4 DEF Drops, Reserves
  <2>2. QED
    BY <1>1, <2>1, ReservationIffNext
<1>5. ASSUME NEW c \in Calls, NEW s \in Sessions, Takes(c, s)
      PROVE  StartExclusive'
  <2>1. Match' /\ Alone'
    BY <1>2, <1>5 DEF Takes
  <2>2. QED
    BY <1>1, <2>1, ReservationIffNext
<1>6. ASSUME NEW c \in Calls, NEW s \in Sessions, Frees(c, s)
      PROVE  StartExclusive'
  <2>1. \A r : r # s => ~Reserves(call[c], r)
    BY <1>6 DEF Frees, Reserves
  <2>2. Match' /\ Alone'
    BY <1>2, <1>6, <2>1 DEF Frees
  <2>3. QED
    BY <1>1, <2>2, ReservationIffNext
<1>7. QED
  BY <1>3, <1>4, <1>5, <1>6, StepReserves

\* No start() leaks its reservation or drops another's, and no two of one
\* session are under way at once.
THEOREM StartsExclusive == Spec => []StartExclusive
<1>1. Init => StartExclusive
  BY DEF Init, StartExclusive, Starting
<1>2. QED
  BY <1>1, TypeInit, TypeStep, ExclusiveStep, PTL DEF Spec

-----------------------------------------------------------------------------
(* start() implements a lock per session *)

\* The holder of a session is the one call that reserves it.
LEMMA HolderIsReserver ==
  ASSUME TypeOK, StartExclusive
  PROVE  \A s \in Sessions :
           /\ \A c \in Calls : Reserves(call[c], s) => holder[s] = c
           /\ (\A c \in Calls : ~Reserves(call[c], s)) => holder[s] = None
<1>1. \A s : \A c, d \in Calls : Reserves(call[c], s) /\ Reserves(call[d], s) => c = d
  BY ReservationIff
<1>2. holder = [s \in Sessions |->
                  IF \E c \in Calls : Reserves(call[c], s)
                    THEN CHOOSE c \in Calls : Reserves(call[c], s) ELSE None]
  BY DEF holder, Starting, Reserves
<1>3. QED
  BY <1>1, <1>2

\* The same of the next state.
LEMMA HolderIsReserverNext ==
  ASSUME TypeOK', StartExclusive'
  PROVE  \A s \in Sessions :
           /\ \A c \in Calls : Reserves(call'[c], s) => holder'[s] = c
           /\ (\A c \in Calls : ~Reserves(call'[c], s)) => holder'[s] = None
<1>1. \A s : \A c, d \in Calls : Reserves(call'[c], s) /\ Reserves(call'[d], s) => c = d
  BY ReservationIffNext
<1>2. holder' = [s \in Sessions |->
                   IF \E c \in Calls : Reserves(call'[c], s)
                     THEN CHOOSE c \in Calls : Reserves(call'[c], s) ELSE None]
  BY DEF holder, Starting, Reserves
<1>3. QED
  BY <1>1, <1>2

\* Every step of the lifecycle is a step of the lock or leaves it alone.
LEMMA LockStep ==
  ASSUME TypeOK, StartExclusive, [Next]_vars
  PROVE  [Lock!Next]_holder
<1>1. TypeOK' /\ StartExclusive'
  BY TypeStep, ExclusiveStep
<1>2. PICK h, n :
        /\ h = holder /\ n = holder'
        /\ \A s \in Sessions, c \in Calls : Reserves(call[c], s) => h[s] = c
        /\ \A s \in Sessions : h[s] = None \/ \E c \in Calls : Reserves(call[c], s)
        /\ \A s \in Sessions, c \in Calls : Reserves(call'[c], s) => n[s] = c
        /\ \A s \in Sessions : n[s] = None \/ \E c \in Calls : Reserves(call'[c], s)
  BY <1>1, HolderIsReserver, HolderIsReserverNext
<1>3. h = [s \in Sessions |-> h[s]] /\ n = [s \in Sessions |-> n[s]]
  BY <1>2 DEF holder
<1>4. CASE Keeps
  <2>1. \A s \in Sessions : n[s] = h[s]
    BY <1>2, <1>4 DEF Keeps
  <2>2. QED
    BY <1>2, <1>3, <2>1
<1>5. CASE Drops
  <2>1. \A s \in Sessions : n[s] = None
    BY <1>2, <1>5 DEF Drops, Reserves
  <2>2. Lock!Exit
    BY <1>2, <1>3, <2>1 DEF Lock!Exit
  <2>3. QED
    BY <2>2 DEF Lock!Next
<1>6. ASSUME NEW c \in Calls, NEW s \in Sessions, Takes(c, s)
      PROVE  Lock!Next
  <2>1. h[s] = None
    BY <1>2, <1>6, ReservationIff DEF Takes
  <2>2. \A r \in Sessions : h[r] # c
    BY <1>2, <1>6, SessionAssumption DEF Takes
  <2>3. n[s] = c
    BY <1>2, <1>6 DEF Takes
  <2>4. \A r \in Sessions \ {s} : n[r] = h[r]
    BY <1>2, <1>6 DEF Takes
  <2>5. Lock!Acquire(c, s)
    BY <1>2, <1>3, <2>1, <2>2, <2>3, <2>4 DEF Lock!Acquire
  <2>6. QED
    BY <2>5 DEF Lock!Next
<1>7. ASSUME NEW c \in Calls, NEW s \in Sessions, Frees(c, s)
      PROVE  Lock!Next
  <2>1. h[s] = c
    BY <1>2, <1>7 DEF Frees
  <2>2. n[s] = None
    BY <1>2, <1>7, ReservationIff DEF Frees
  <2>3. \A r \in Sessions \ {s} : n[r] = h[r]
    <3>1. \A r \in Sessions \ {s} : ~Reserves(call[c], r)
      BY <1>7 DEF Frees, Reserves
    <3>2. QED
      BY <1>2, <1>7, <3>1 DEF Frees
  <2>4. Lock!Release(c, s)
    BY <1>2, <1>3, <2>1, <2>2, <2>3 DEF Lock!Release
  <2>5. QED
    BY <2>4 DEF Lock!Next
<1>8. QED
  BY <1>4, <1>5, <1>6, <1>7, StepReserves

\* The reservation of start() is a lock: each session is acquired when free,
\* and released by the call that took it or by the exit of the process.
THEOREM LockImplemented == Spec => StartLockSpec
<1>1. Init => Lock!Init
  BY DEF Init, Lock!Init, holder, Starting
<1>2. Init => StartExclusive
  BY DEF Init, StartExclusive, Starting
<1>3. QED
  BY <1>1, <1>2, TypeInit, TypeStep, ExclusiveStep, LockStep, PTL
  DEF Spec, StartLockSpec, Lock!Spec

-----------------------------------------------------------------------------
(* A draining process *)

\* Only scheduleReconnect() arms a timer, and not in a drain.
LEMMA ArmsOnlyUp ==
  ASSUME TypeOK, NEW s \in Sessions, NEW v, ScheduleReconnect(s, v), process # "up"
  PROVE  UNCHANGED reconnect
  BY DEF ScheduleReconnect, MayReconnect

\* Once teardown has begun no step arms one.
LEMMA DrainStep ==
  ASSUME TypeOK, DrainQuiet, [Next]_vars
  PROVE  DrainQuiet'
<1> USE DEF maps
<1>1. ASSUME process = "destroying", UNCHANGED <<process, reconnect>>
      PROVE  DrainQuiet'
  BY <1>1 DEF DrainQuiet
<1>2. ASSUME process' # "destroying"
      PROVE  DrainQuiet'
  BY <1>2 DEF DrainQuiet
<1>3. ASSUME NEW s \in Sessions, process = "destroying", process' = process,
             reconnect' = [reconnect EXCEPT ![s] = None]
      PROVE  DrainQuiet'
  BY <1>3 DEF DrainQuiet, TypeOK
<1>4. ASSUME NEW c \in Calls, CallStep(c), process = "destroying"
      PROVE  DrainQuiet'
  <2>1. process' = process
    BY <1>4 DEF CallStep, StartReserve, StartLaunch, LaunchEngine, LaunchFails, InitTimeout,
         TimeoutReaped, StartCatch, StartReaped, InitReturned, Retire, Retired, Leave,
         ReconnectSwap, ReconnectCatch, Mark, Stopped, DeleteEvicted, DeleteRow, DeleteFinally
  <2>2. call[c] # None
    BY <1>4 DEF At, CallStep, StartReserve, StartLaunch, LaunchEngine, LaunchFails,
         InitTimeout, TimeoutReaped, StartCatch, InitThrew, StartReaped, InitReturned, Retire,
         Retired, Leave, ReconnectSwap, ReconnectCatch, Mark, Stopped, DeleteEvicted,
         DeleteRow, DeleteFinally
  <2>3. call[c].s \in Sessions
    BY <2>2, InFlight
  <2>4. CASE StartReserve(c)
    <3>1. UNCHANGED reconnect \/ reconnect' = [reconnect EXCEPT ![call[c].s] = None]
      BY <2>4 DEF StartReserve
    <3>2. QED
      BY <1>1, <1>3, <1>4, <2>1, <2>3, <3>1
  <2>5. CASE StartLaunch(c)
    <3>1. reconnect' = [reconnect EXCEPT ![call[c].s] = [attempts |-> 0, armed |-> FALSE]]
      BY <2>5 DEF StartLaunch
    <3>2. QED
      BY <1>4, <2>1, <2>3, <3>1 DEF DrainQuiet, TypeOK
  <2>6. CASE ReconnectCatch(c)
    <3>1. UNCHANGED reconnect
      BY <1>4, <2>3, <2>6, ArmsOnlyUp DEF ReconnectCatch
    <3>2. QED
      BY <1>1, <1>4, <2>1, <3>1
  <2>7. CASE Mark(c)
    BY <1>3, <1>4, <2>1, <2>3, <2>7 DEF Mark
  <2>8. CASE ~(StartReserve(c) \/ StartLaunch(c) \/ ReconnectCatch(c) \/ Mark(c))
    <3>1. UNCHANGED reconnect
      BY <1>4, <2>8 DEF CallStep, LaunchEngine, LaunchFails, InitTimeout, TimeoutReaped,
           StartCatch, StartReaped, InitReturned, Retire, Retired, Leave, ReconnectSwap,
           Stopped, DeleteEvicted, DeleteRow, DeleteFinally
    <3>2. QED
      BY <1>1, <1>4, <2>1, <3>1
  <2>9. QED
    BY <2>4, <2>5, <2>6, <2>7, <2>8
<1>5. ASSUME NEW e \in Engines, EngineStep(e), process = "destroying"
      PROVE  DrainQuiet'
  <2>1. process' = process
    BY <1>5 DEF EngineStep
  <2>2. CASE ClientBuilt(e) \/ InitOk(e) \/ QrArrives(e) \/ QrRendered(e)
             \/ Authenticated(e) \/ ClientGone(e)
    BY <1>1, <1>5, <2>1, <2>2
    DEF ClientBuilt, InitOk, QrArrives, QrRendered, Authenticated, ClientGone
  <2>3. CASE Ready(e)
    <3>1. engine[e].owner \in Sessions
      BY <2>3 DEF Ready, Hears, Live, TypeOK, EngineState
    <3>2. UNCHANGED reconnect \/
          reconnect' = [reconnect EXCEPT ![engine[e].owner].attempts = 0]
      BY <2>3 DEF Ready
    <3>3. reconnect[engine[e].owner] # None =>
            [reconnect[engine[e].owner] EXCEPT !.attempts = 0].armed =
              reconnect[engine[e].owner].armed
      BY <3>1 DEF TypeOK, ReconnectState
    <3>4. QED
      BY <1>1, <1>5, <2>1, <2>3, <3>1, <3>2, <3>3 DEF Ready, DrainQuiet, TypeOK
  <2>4. CASE InitFails(e) \/ AuthFailure(e)
    <3>1. UNCHANGED reconnect \/ (Fail(e) /\ Live(e))
      BY <2>4 DEF InitFails, AuthFailure, Hears
    <3>2. Live(e) => engine[e].owner \in Sessions
      BY DEF Live, TypeOK, EngineState
    <3>3. QED
      BY <1>1, <1>3, <1>5, <2>1, <3>1, <3>2 DEF Fail
  <2>5. CASE Disconnected(e) \/ StuckAuth(e)
    <3>1. engine[e].owner \in Sessions
      BY <2>5 DEF Disconnected, StuckAuth, Hears, Live, TypeOK, EngineState
    <3>2. UNCHANGED reconnect
      BY <1>5, <2>5, <3>1, ArmsOnlyUp DEF Disconnected, StuckAuth, Drop
    <3>3. QED
      BY <1>1, <1>5, <2>1, <3>2
  <2>6. QED
    BY <1>5, <2>2, <2>3, <2>4, <2>5 DEF EngineStep
<1>6. ASSUME NEW c \in Calls, NEW s \in Sessions, ReconnectFire(c, s), process = "destroying"
      PROVE  DrainQuiet'
  BY <1>6 DEF ReconnectFire, DrainQuiet
<1>7. ASSUME NEW c \in Calls, NEW k \in Kinds, NEW s \in Sessions, Request(c, k, s),
             process = "destroying"
      PROVE  DrainQuiet'
  BY <1>1, <1>7 DEF Request
<1>8. CASE ModuleDestroy
  BY <1>8 DEF ModuleDestroy, DrainQuiet
<1>9. CASE Drain \/ Exit \/ Boot \/ UNCHANGED vars
  BY <1>2, <1>9 DEF Drain, Exit, Boot, vars, DrainQuiet
<1>10. CASE process # "destroying" /\ process' = "destroying"
  <2>1. \A c \in Calls, s \in Sessions :
          /\ ~ReconnectFire(c, s)
          /\ \A k \in Kinds : ~Request(c, k, s)
    BY <1>10 DEF ReconnectFire, Request
  <2>2. \A c \in Calls : ~CallStep(c)
    BY <1>10 DEF CallStep, StartReserve, StartLaunch, LaunchEngine, LaunchFails, InitTimeout,
         TimeoutReaped, StartCatch, StartReaped, InitReturned, Retire, Retired, Leave,
         ReconnectSwap, ReconnectCatch, Mark, Stopped, DeleteEvicted, DeleteRow, DeleteFinally
  <2>3. \A e \in Engines : ~EngineStep(e)
    BY <1>10 DEF EngineStep
  <2>4. QED
    BY <1>8, <1>9, <2>1, <2>2, <2>3 DEF Next
<1>11. QED
  BY <1>2, <1>4, <1>5, <1>6, <1>7, <1>8, <1>9, <1>10 DEF Next

\* Nothing relaunches an engine behind the teardown of a stopping process.
THEOREM DrainsQuietly == Spec => []DrainQuiet
<1>1. Init => DrainQuiet
  BY DEF Init, DrainQuiet
<1>2. QED
  BY <1>1, TypeInit, TypeStep, DrainStep, PTL DEF Spec
-----------------------------------------------------------------------------
(* The invariant of a configuration without automatic reconnects *)

\* The statuses of an engine that is on its way up.
Coming == {"initializing", "authenticating"}

\* Without automatic reconnects no timer is armed and no call of one runs.
NoReconnects ==
  /\ \A s \in Sessions : reconnect[s] # None => ~reconnect[s].armed
  /\ \A c \in Calls : call[c] # None => call[c].kind # "reconnect"

\* A process that is down has no maps and no calls.
DownIsEmpty ==
  process = "down" =>
    /\ crashes > 0
    /\ \A s \in Sessions : engines[s] = None
    /\ \A c \in Calls : call[c] = None

\* A call of s is at pc.
SomeAt(kind, s, pcs) ==
  \E c \in Calls : call[c] # None /\ call[c].kind = kind /\ call[c].s = s /\ call[c].pc \in pcs

\* The registered engine of s is its own and its adapter is coherent: a client
\* that is closing or gone is on its way nowhere, and a start that resolved has one.
AdapterKept(s) ==
  engines[s] # None =>
    /\ engine[engines[s]].owner = s
    /\ engine[engines[s]].client \in {"closing", "gone"} => engine[engines[s]].st \notin Coming
    /\ engine[engines[s]].init = "ok" => engine[engines[s]].client # "none"

\* The start() of s run by c, and what the map holds meanwhile.
StartKept(c, s) ==
  /\ call[c].pc \in {"launch", "init", "timeout", "threw"} =>
       call[c].e \in Engines /\ engine[call[c].e].owner = s
  /\ call[c].pc = "launch" =>
       engine[call[c].e].client = "none" /\ engine[call[c].e].init = "none"
  /\ call[c].pc = "reap" /\ ~DbFails => status[s] = "deleted" \/ lastError[s]
  /\ engines[s] # None =>
       /\ call[c].pc \in {"launch", "init", "threw", "retire", "retiring", "leave"}
       /\ call[c].pc # "leave" => call[c].e = engines[s]
       /\ call[c].pc = "retire" => engine[engines[s]].client # "none"
       /\ call[c].pc = "retiring" => engine[engines[s]].client \in {"closing", "gone"}

\* The row agrees with the adapter, but for the segments between creating an
\* engine and its first report.
RowKept(s) ==
  engines[s] # None /\ status[s] # "deleted" =>
    \/ status[s] = engine[engines[s]].st
    \/ status[s] = "failed" /\ engine[engines[s]].st = "disconnected"
    \/ SomeAt("start", s, {"launch", "threw"})

\* A row left on its way up without an engine is brought on by the very call
\* that took the engine away.
ComingKept(s) ==
  status[s] \in Coming /\ engines[s] = None /\ process # "down" =>
    \/ SomeAt("start", s, {"timeout", "reap"})
    \/ SomeAt("delete", s, {"deleting"})

\* A failure keeps its reason; only delete() drops it, once the row is gone.
ReasonKept(s) ==
  /\ status[s] = "failed" /\ crashes = 0 => lastError[s]
  /\ SomeAt("delete", s, {"purge"}) => status[s] = "deleted"

SessionKept(s) ==
  /\ AdapterKept(s)
  /\ \A c \in Calls : Reserves(call[c], s) => StartKept(c, s)
  /\ RowKept(s)
  /\ ~DbFails => ComingKept(s) /\ ReasonKept(s)

SteadyInv ==
  /\ NoReconnects
  /\ DownIsEmpty
  /\ \A s \in Sessions : SessionKept(s)

\* The invariant the safety properties follow from when MaxAttempts = 0.
SteadyIInv == TypeOK /\ StartExclusive /\ SteadyInv

\* A step that changes nothing that belongs to another session than s.
Elsewhere(s) ==
  /\ process' = process /\ crashes' = crashes
  /\ \A r \in Sessions \ {s} :
       status'[r] = status[r] /\ engines'[r] = engines[r] /\ lastError'[r] = lastError[r]
  /\ \A d \in Engines : engine[d].owner \in Sessions \ {s} => engine'[d] = engine[d]
  /\ \A c \in Calls : \/ call'[c] = call[c]
                      \/ /\ call[c] = None \/ call[c].s = s
                         /\ call'[c] = None \/ call'[c].s = s

\* It leaves the calls of the other sessions as they are,
LEMMA ElsewhereCalls ==
  ASSUME NEW s, Elsewhere(s), NEW c \in Calls, NEW r, r # s
  PROVE  /\ call[c] # None /\ call[c].s = r => call'[c] = call[c]
         /\ call'[c] # None /\ call'[c].s = r => call'[c] = call[c]
  BY DEF Elsewhere

\* and what is known of those sessions.
LEMMA ElsewhereKept ==
  ASSUME TypeOK, NEW s, Elsewhere(s),
         NEW r \in Sessions \ {s}, SessionKept(r)
  PROVE  SessionKept(r)'
<1>1. /\ status'[r] = status[r] /\ engines'[r] = engines[r] /\ lastError'[r] = lastError[r]
      /\ process' = process /\ crashes' = crashes
  BY DEF Elsewhere
<1>2. \A d \in Engines : engine[d].owner = r => engine'[d] = engine[d]
  BY DEF Elsewhere
<1>3. engines[r] # None => engine'[engines[r]] = engine[engines[r]]
  BY <1>2 DEF SessionKept, AdapterKept, TypeOK
<1>4. \A kind, pcs : SomeAt(kind, r, pcs)' <=> SomeAt(kind, r, pcs)
  BY ElsewhereCalls DEF SomeAt
<1>5. AdapterKept(r)' /\ RowKept(r)'
  BY <1>1, <1>3, <1>4 DEF SessionKept, AdapterKept, RowKept
<1>6. ASSUME ~DbFails PROVE ComingKept(r)' /\ ReasonKept(r)'
  BY <1>1, <1>4, <1>6 DEF SessionKept, ComingKept, ReasonKept
<1>7. ASSUME NEW c \in Calls, Reserves(call'[c], r)
      PROVE  StartKept(c, r)'
  <2>1. call'[c] = call[c]
    BY <1>7, ElsewhereCalls DEF Reserves
  <2>2. StartKept(c, r)
    BY <1>7, <2>1 DEF SessionKept
  <2>3. \A d \in Engines : engine[d].owner = r => engine'[d] = engine[d]
    BY <1>2
  <2>4. call[c].pc \in {"launch", "init", "timeout", "threw"} =>
          call[c].e \in Engines /\ engine'[call[c].e] = engine[call[c].e]
    BY <2>2, <2>3 DEF StartKept
  <2>5. QED
    BY <1>1, <1>3, <2>1, <2>2, <2>4 DEF StartKept
<1>8. QED
  BY <1>5, <1>6, <1>7 DEF SessionKept

\* A call that moves on changes its place and its engine only,
LEMMA GoMoves ==
  ASSUME TypeOK, NEW c \in Calls, call[c] # None,
         NEW pc \in PCs, NEW e \in EngineIds, Go(c, pc, e)
  PROVE  /\ call'[c] # None /\ call'[c].kind = call[c].kind /\ call'[c].s = call[c].s
         /\ call'[c].pc = pc /\ call'[c].e = e
         /\ \A d \in Calls \ {c} : call'[d] = call[d]
<1>1. /\ call'[c] = [call[c] EXCEPT !.pc = pc, !.e = e]
      /\ \A d \in Calls \ {c} : call'[d] = call[d]
  BY DEF Go, TypeOK
<1>2. call[c] \in CallState
  BY InFlight
<1>3. call'[c] \in CallState
  BY <1>1, <1>2 DEF CallState, EngineIds
<1>4. call'[c] # None
  BY <1>3, SessionAssumption
<1>5. QED
  BY <1>1, <1>2, <1>4 DEF CallState

\* and one that returns is gone.
LEMMA ReturnMoves ==
  ASSUME TypeOK, NEW c \in Calls, Return(c)
  PROVE  call'[c] = None /\ \A d \in Calls \ {c} : call'[d] = call[d]
  BY DEF Return, TypeOK

\* A write reaches the row of its session, unless it is gone.
LEMMA SetStatusAt ==
  ASSUME TypeOK, NEW s \in Sessions, NEW v, status' = SetStatus(s, v)
  PROVE  /\ status[s] = "deleted" => status'[s] = "deleted"
         /\ status[s] # "deleted" => status'[s] = v
         /\ \A r \in Sessions \ {s} : status'[r] = status[r]
  BY DEF SetStatus, TypeOK

\* What a teardown changes of an adapter, field by field,
LEMMA TornFields ==
  ASSUME NEW r \in EngineState
  PROVE  /\ Torn(r).owner = r.owner /\ Torn(r).init = r.init
         /\ r.client \in {"open", "closing"} =>
              Torn(r).client = "closing" /\ Torn(r).st = "disconnected"
         /\ r.client \notin {"open", "closing"} => Torn(r) = r
  BY DEF Torn, EngineState

\* and what an eviction does.
LEMMA SilentFields ==
  ASSUME NEW r \in EngineState
  PROVE  /\ Silent(r).owner = r.owner /\ Silent(r).init = r.init
         /\ Silent(r).client = r.client
  BY DEF Silent, EngineState

\* The session of a call in flight, when nothing else of it moves: what holds of
\* its adapter still does.
LEMMA AdapterStays ==
  ASSUME NEW s, AdapterKept(s), engines'[s] = engines[s],
         engines[s] # None => engine'[engines[s]] = engine[engines[s]]
  PROVE  AdapterKept(s)'
  BY DEF AdapterKept

\* A segment that leaves the adapters and their map alone touches its own
\* session only.
LEMMA OwnCallOnly ==
  ASSUME NEW c \in Calls, call[c] # None, UNCHANGED <<engine, engines, process, crashes>>,
         \A d \in Calls \ {c} : call'[d] = call[d],
         call'[c] = None \/ call'[c].s = call[c].s,
         \A r \in Sessions \ {call[c].s} : status'[r] = status[r] /\ lastError'[r] = lastError[r]
  PROVE  Elsewhere(call[c].s)
  BY DEF Elsewhere

\* A start() that reserves its session, or is refused.
LEMMA StartReserveKept ==
  ASSUME SteadyIInv, NEW c \in Calls, NEW s \in Sessions, call[c].s = s, StartReserve(c)
  PROVE  Elsewhere(s) /\ SessionKept(s)'
<1>0. /\ TypeOK /\ call[c] # None /\ SessionKept(s)
      /\ call[c].kind = "start" /\ call[c].pc = "found"
  BY InFlight DEF StartReserve, At, SteadyIInv, SteadyInv
<1>1. UNCHANGED <<status, engine, engines, lastError, process, crashes>>
  BY DEF StartReserve, maps
<1>2. /\ \A d \in Calls \ {c} : call'[d] = call[d]
      /\ \/ call'[c] = None
         \/ /\ engines[s] = None
            /\ call'[c] # None /\ call'[c].s = s /\ call'[c].pc = "hook"
            /\ call'[c].kind = "start"
  <2>1. CASE Return(c)
    BY <1>0, <2>1, ReturnMoves
  <2>2. CASE Admissible(s) /\ Go(c, "hook", None)
    <3>1. "hook" \in PCs /\ None \in EngineIds
      BY DEF PCs, EngineIds
    <3>2. QED
      BY <1>0, <2>2, <3>1, GoMoves DEF Admissible
  <2>3. QED
    BY <2>1, <2>2 DEF StartReserve
<1>3. Elsewhere(s)
  BY <1>0, <1>1, <1>2, OwnCallOnly
<1>4. AdapterKept(s)'
  BY <1>0, <1>1, AdapterStays DEF SessionKept
<1>5. \A kind \in Kinds : \A pcs :
        SomeAt(kind, s, pcs) /\ "found" \notin pcs => SomeAt(kind, s, pcs)'
  BY <1>0, <1>2 DEF SomeAt
<1>6. RowKept(s)'
  BY <1>0, <1>1, <1>5 DEF SessionKept, RowKept, Kinds
<1>7. ASSUME ~DbFails PROVE ComingKept(s)' /\ ReasonKept(s)'
  <2>1. SomeAt("delete", s, {"purge"})' => SomeAt("delete", s, {"purge"})
    BY <1>0, <1>2 DEF SomeAt
  <2>2. QED
    BY <1>0, <1>1, <1>5, <1>7, <2>1 DEF SessionKept, ComingKept, ReasonKept, Kinds
<1>8. ASSUME NEW d \in Calls, Reserves(call'[d], s) PROVE StartKept(d, s)'
  BY <1>0, <1>1, <1>2, <1>8 DEF SessionKept, StartKept, Reserves
<1>9. QED
  BY <1>3, <1>4, <1>6, <1>7, <1>8 DEF SessionKept

\* Without reconnects about, the calls that share segments with one are starts.
LEMMA OnlyStarts ==
  ASSUME SteadyIInv, NEW c \in Calls, NEW pc, At(c, {"start", "reconnect"}, pc), pc # "found"
  PROVE  /\ call[c] # None /\ call[c].kind = "start" /\ call[c].pc = pc
         /\ \A d \in Calls \ {c} : ~Reserves(call[d], call[c].s)
<1>1. call[c] # None /\ call[c].kind = "start" /\ call[c].pc = pc
  BY DEF At, SteadyIInv, SteadyInv, NoReconnects
<1>2. QED
  BY <1>1, ReservationIff DEF SteadyIInv, Reserves

\* The first write of a start() that fails: its engine stays on the map until the catch.
LEMMA LaunchFailsKept ==
  ASSUME SteadyIInv, NEW c \in Calls, NEW s \in Sessions, call[c].s = s, LaunchFails(c)
  PROVE  Elsewhere(s) /\ SessionKept(s)'
<1>0. /\ TypeOK /\ SessionKept(s) /\ call[c] # None
      /\ call[c].kind = "start" /\ call[c].pc = "launch"
      /\ \A d \in Calls \ {c} : ~Reserves(call[d], s)
  BY OnlyStarts DEF LaunchFails, SteadyIInv, SteadyInv
<1>1. UNCHANGED <<status, engine, engines, lastError, process, crashes>>
  BY DEF LaunchFails, maps
<1>2. /\ call'[c] # None /\ call'[c].kind = "start" /\ call'[c].s = s
      /\ call'[c].pc = "threw" /\ call'[c].e = call[c].e
      /\ \A d \in Calls \ {c} : call'[d] = call[d]
  <2>1. "threw" \in PCs /\ call[c].e \in EngineIds
    BY <1>0, InFlight DEF PCs
  <2>2. QED
    BY <1>0, <2>1, GoMoves DEF LaunchFails
<1>3. Elsewhere(s)
  BY <1>0, <1>1, <1>2, OwnCallOnly
<1>4. AdapterKept(s)'
  BY <1>0, <1>1, AdapterStays DEF SessionKept
<1>5. RowKept(s)'
  BY <1>2 DEF RowKept, SomeAt
<1>6. ASSUME ~DbFails PROVE ComingKept(s)' /\ ReasonKept(s)'
  <2>1. /\ \A pcs : SomeAt("delete", s, pcs)' <=> SomeAt("delete", s, pcs)
        /\ ~SomeAt("start", s, {"timeout", "reap"})
    BY <1>0, <1>2 DEF SomeAt, Reserves
  <2>2. QED
    BY <1>0, <1>1, <1>6, <2>1 DEF SessionKept, ComingKept, ReasonKept
<1>7. ASSUME NEW d \in Calls, Reserves(call'[d], s) PROVE StartKept(d, s)'
  <2>1. d = c
    BY <1>0, <1>2, <1>7
  <2>2. StartKept(c, s)
    BY <1>0 DEF SessionKept, Reserves
  <2>3. QED
    BY <1>0, <1>1, <1>2, <2>1, <2>2 DEF StartKept
<1>8. QED
  BY <1>3, <1>4, <1>5, <1>6, <1>7 DEF SessionKept

\* Past the deadline the map holds nothing: the row is written DISCONNECTED.
LEMMA TimeoutReapedKept ==
  ASSUME SteadyIInv, NEW c \in Calls, NEW s \in Sessions, call[c].s = s, TimeoutReaped(c)
  PROVE  Elsewhere(s) /\ SessionKept(s)'
<1>0. /\ TypeOK /\ SessionKept(s) /\ call[c] # None
      /\ call[c].kind = "start" /\ call[c].pc = "timeout"
      /\ \A d \in Calls \ {c} : ~Reserves(call[d], s)
  BY OnlyStarts DEF TimeoutReaped, SteadyIInv, SteadyInv
<1>1. UNCHANGED <<engine, engines, lastError, process, crashes>>
  BY DEF TimeoutReaped, maps
<1>2. /\ call'[c] # None /\ call'[c].kind = "start" /\ call'[c].s = s
      /\ call'[c].pc = "threw" /\ call'[c].e = call[c].e
      /\ \A d \in Calls \ {c} : call'[d] = call[d]
  <2>1. "threw" \in PCs /\ call[c].e \in EngineIds
    BY <1>0, InFlight DEF PCs
  <2>2. QED
    BY <1>0, <2>1, GoMoves DEF TimeoutReaped
<1>3. /\ status[s] = "deleted" => status'[s] = "deleted"
      /\ status[s] # "deleted" => status'[s] = "disconnected"
      /\ \A r \in Sessions \ {s} : status'[r] = status[r]
  BY <1>0, SetStatusAt DEF TimeoutReaped
<1>4. StartKept(c, s) /\ engines[s] = None
  BY <1>0 DEF SessionKept, StartKept, Reserves
<1>5. Elsewhere(s)
  BY <1>0, <1>1, <1>2, <1>3, OwnCallOnly
<1>6. AdapterKept(s)' /\ RowKept(s)'
  BY <1>1, <1>4 DEF AdapterKept, RowKept
<1>7. ASSUME ~DbFails PROVE ComingKept(s)' /\ ReasonKept(s)'
  <2>1. \A pcs : SomeAt("delete", s, pcs)' <=> SomeAt("delete", s, pcs)
    BY <1>0, <1>2 DEF SomeAt
  <2>2. QED
    BY <1>0, <1>3, <1>7, <2>1 DEF SessionKept, ComingKept, ReasonKept, Coming
<1>8. ASSUME NEW d \in Calls, Reserves(call'[d], s) PROVE StartKept(d, s)'
  <2>1. d = c
    BY <1>0, <1>2, <1>8
  <2>2. QED
    BY <1>0, <1>1, <1>2, <1>4, <2>1 DEF StartKept
<1>9. QED
  BY <1>5, <1>6, <1>7, <1>8 DEF SessionKept

\* The catch of start() writes FAILED, with the reason it recorded.
LEMMA StartReapedKept ==
  ASSUME SteadyIInv, NEW c \in Calls, NEW s \in Sessions, call[c].s = s, StartReaped(c)
  PROVE  Elsewhere(s) /\ SessionKept(s)'
<1>0. /\ TypeOK /\ SessionKept(s) /\ call[c] # None
      /\ call[c].kind = "start" /\ call[c].pc = "reap"
      /\ \A d \in Calls \ {c} : ~Reserves(call[d], s)
  BY OnlyStarts DEF StartReaped, At, SteadyIInv, SteadyInv
<1>1. UNCHANGED <<engine, engines, lastError, process, crashes>>
  BY DEF StartReaped, maps
<1>2. /\ call'[c] # None /\ call'[c].kind = "start" /\ call'[c].s = s
      /\ call'[c].pc = "leave"
      /\ \A d \in Calls \ {c} : call'[d] = call[d]
  <2>1. "leave" \in PCs /\ None \in EngineIds
    BY DEF PCs, EngineIds
  <2>2. QED
    BY <1>0, <2>1, GoMoves DEF StartReaped
<1>3. /\ status[s] = "deleted" => status'[s] = "deleted"
      /\ status[s] # "deleted" => status'[s] = "failed"
      /\ \A r \in Sessions \ {s} : status'[r] = status[r]
  BY <1>0, SetStatusAt DEF StartReaped
<1>4. StartKept(c, s) /\ engines[s] = None
  BY <1>0 DEF SessionKept, StartKept, Reserves
<1>5. Elsewhere(s)
  BY <1>0, <1>1, <1>2, <1>3, OwnCallOnly
<1>6. AdapterKept(s)' /\ RowKept(s)'
  BY <1>1, <1>4 DEF AdapterKept, RowKept
<1>7. ASSUME ~DbFails PROVE ComingKept(s)' /\ ReasonKept(s)'
  <2>1. \A pcs : SomeAt("delete", s, pcs)' <=> SomeAt("delete", s, pcs)
    BY <1>0, <1>2 DEF SomeAt
  <2>2. status[s] = "deleted" \/ lastError[s]
    BY <1>0, <1>4, <1>7 DEF StartKept
  <2>3. QED
    BY <1>0, <1>1, <1>3, <1>7, <2>1, <2>2 DEF SessionKept, ComingKept, ReasonKept, Coming
<1>8. ASSUME NEW d \in Calls, Reserves(call'[d], s) PROVE StartKept(d, s)'
  <2>1. d = c
    BY <1>0, <1>2, <1>8
  <2>2. QED
    BY <1>1, <1>2, <1>4, <2>1 DEF StartKept
<1>9. QED
  BY <1>5, <1>6, <1>7, <1>8 DEF SessionKept

\* initialize() resolved, so the engine has a client.
LEMMA InitReturnedKept ==
  ASSUME SteadyIInv, NEW c \in Calls, NEW s \in Sessions, call[c].s = s, InitReturned(c)
  PROVE  Elsewhere(s) /\ SessionKept(s)'
<1>0. /\ TypeOK /\ SessionKept(s) /\ call[c] # None
      /\ call[c].kind = "start" /\ call[c].pc = "init"
      /\ \A d \in Calls \ {c} : ~Reserves(call[d], s)
  BY OnlyStarts DEF InitReturned, SteadyIInv, SteadyInv
<1>1. UNCHANGED <<status, engine, engines, lastError, process, crashes>>
  BY DEF InitReturned, maps
<1>2. /\ call'[c] # None /\ call'[c].kind = "start" /\ call'[c].s = s
      /\ \/ call'[c].pc = "leave"
         \/ call'[c].pc = "retire" /\ call'[c].e = call[c].e
      /\ \A d \in Calls \ {c} : call'[d] = call[d]
  <2>1. {"leave", "retire"} \subseteq PCs /\ {call[c].e, None} \subseteq EngineIds
    BY <1>0, InFlight DEF PCs, EngineIds
  <2>2. Go(c, "retire", call[c].e) \/ Go(c, "leave", None)
    BY DEF InitReturned
  <2>3. QED
    BY <1>0, <2>1, <2>2, GoMoves
<1>3. Elsewhere(s)
  BY <1>0, <1>1, <1>2, OwnCallOnly
<1>4. AdapterKept(s)'
  BY <1>0, <1>1, AdapterStays DEF SessionKept
<1>5. ~SomeAt("start", s, {"launch", "threw", "timeout", "reap"})
  BY <1>0 DEF SomeAt, Reserves
<1>6. RowKept(s)'
  BY <1>0, <1>1, <1>5 DEF SessionKept, RowKept, SomeAt
<1>7. ASSUME ~DbFails PROVE ComingKept(s)' /\ ReasonKept(s)'
  <2>1. /\ \A pcs : SomeAt("delete", s, pcs)' <=> SomeAt("delete", s, pcs)
        /\ ~SomeAt("start", s, {"timeout", "reap"})
    BY <1>0, <1>2, <1>5 DEF SomeAt
  <2>2. QED
    BY <1>0, <1>1, <1>7, <2>1 DEF SessionKept, ComingKept, ReasonKept
<1>8. ASSUME NEW d \in Calls, Reserves(call'[d], s) PROVE StartKept(d, s)'
  <2>1. d = c
    BY <1>0, <1>2, <1>8
  <2>2. StartKept(c, s) /\ AdapterKept(s)
    BY <1>0 DEF SessionKept, Reserves
  <2>3. engines[s] # None => call[c].e = engines[s] /\ engine[engines[s]].client # "none"
    BY <1>0, <2>2 DEF StartKept, AdapterKept, InitReturned
  <2>4. QED
    BY <1>1, <1>2, <2>1, <2>2, <2>3 DEF StartKept
<1>9. QED
  BY <1>3, <1>4, <1>6, <1>7, <1>8 DEF SessionKept

\* The finally of start().
LEMMA LeaveKept ==
  ASSUME SteadyIInv, NEW c \in Calls, NEW s \in Sessions, call[c].s = s, Leave(c)
  PROVE  Elsewhere(s) /\ SessionKept(s)'
<1>0. /\ TypeOK /\ SessionKept(s) /\ call[c] # None
      /\ call[c].kind = "start" /\ call[c].pc = "leave"
      /\ \A d \in Calls \ {c} : ~Reserves(call[d], s)
  BY OnlyStarts DEF Leave, SteadyIInv, SteadyInv
<1>1. UNCHANGED <<status, engine, engines, lastError, process, crashes>>
  BY DEF Leave
<1>2. call'[c] = None /\ \A d \in Calls \ {c} : call'[d] = call[d]
  BY <1>0, ReturnMoves DEF Leave
<1>3. Elsewhere(s)
  BY <1>0, <1>1, <1>2, OwnCallOnly
<1>4. AdapterKept(s)'
  BY <1>0, <1>1, AdapterStays DEF SessionKept
<1>5. \A pcs : /\ SomeAt("delete", s, pcs)' <=> SomeAt("delete", s, pcs)
               /\ "leave" \notin pcs /\ "found" \notin pcs => ~SomeAt("start", s, pcs)
  BY <1>0, <1>2 DEF SomeAt, Reserves
<1>6. RowKept(s)'
  BY <1>0, <1>1, <1>5 DEF SessionKept, RowKept
<1>7. ASSUME ~DbFails PROVE ComingKept(s)' /\ ReasonKept(s)'
  BY <1>0, <1>1, <1>5, <1>7 DEF SessionKept, ComingKept, ReasonKept
<1>8. \A d \in Calls : ~Reserves(call'[d], s)
  BY <1>0, <1>2 DEF Reserves
<1>9. QED
  BY <1>3, <1>4, <1>6, <1>7, <1>8 DEF SessionKept

\* What a teardown does to the session s and its registered engine.
TornDown(s) ==
  /\ engines[s] # None /\ engines'[s] = engines[s]
  /\ engine'[engines[s]].owner = engine[engines[s]].owner
  /\ engine'[engines[s]].init = engine[engines[s]].init
  /\ status'[s] = "deleted" <=> status[s] = "deleted"
  /\ engine[engines[s]].client \in {"open", "closing"} =>
       /\ engine'[engines[s]].client = "closing" /\ engine'[engines[s]].st = "disconnected"
       /\ \/ status'[s] \in {"disconnected", "deleted"}
          \/ status'[s] = status[s] /\ engine[engines[s]].st = "disconnected"
  /\ engine[engines[s]].client \notin {"open", "closing"} =>
       engine'[engines[s]] = engine[engines[s]] /\ status'[s] = status[s]

\* TearDownLive() does just that,
LEMMA TearDownAt ==
  ASSUME TypeOK, NEW s \in Sessions, engines[s] # None, AdapterKept(s),
         TearDownLive(s, engines[s]), engines' = engines
  PROVE  /\ TornDown(s)
         /\ \A r \in Sessions \ {s} : status'[r] = status[r]
         /\ \A d \in Engines : engine[d].owner \in Sessions \ {s} => engine'[d] = engine[d]
<1> DEFINE e == engines[s]
<1>1. e \in Engines /\ engine[e] \in EngineState /\ engine[e].owner = s
  BY DEF TypeOK, AdapterKept
<1>2. engine'[e] = Torn(engine[e]) /\ \A d \in Engines \ {e} : engine'[d] = engine[d]
  BY <1>1 DEF TearDownLive, TypeOK
<1>3. status' = IF Torn(engine[e]).st # engine[e].st
                  THEN SetStatus(s, "disconnected") ELSE status
  BY DEF TearDownLive
<1>4. /\ \A r \in Sessions \ {s} : status'[r] = status[r]
      /\ status[s] = "deleted" => status'[s] = "deleted"
      /\ status[s] # "deleted" /\ Torn(engine[e]).st # engine[e].st =>
           status'[s] = "disconnected"
      /\ Torn(engine[e]).st = engine[e].st => status'[s] = status[s]
  BY <1>3, SetStatusAt
<1>5. TornDown(s)
  <2>1. /\ engine'[e].owner = engine[e].owner /\ engine'[e].init = engine[e].init
        /\ engine[e].client \in {"open", "closing"} =>
             engine'[e].client = "closing" /\ engine'[e].st = "disconnected"
        /\ engine[e].client \notin {"open", "closing"} => engine'[e] = engine[e]
    BY <1>1, <1>2, TornFields
  <2>2. /\ status[s] = "deleted" => status'[s] = "deleted"
        /\ status[s] # "deleted" /\ engine'[e].st # engine[e].st => status'[s] = "disconnected"
        /\ engine'[e].st = engine[e].st => status'[s] = status[s]
    BY <1>2, <1>4
  <2>3. QED
    BY <2>1, <2>2 DEF TornDown
<1>6. QED
  BY <1>1, <1>2, <1>4, <1>5

\* It keeps the row and the adapter of s coherent.
LEMMA TornDownKept ==
  ASSUME NEW s, AdapterKept(s), RowKept(s), TornDown(s),
         SomeAt("start", s, {"launch", "threw"}) => SomeAt("start", s, {"launch", "threw"})'
  PROVE  /\ AdapterKept(s)' /\ RowKept(s)'
         /\ engines'[s] # None
         /\ status'[s] = "failed" => status[s] = "failed"
<1>1. AdapterKept(s)'
  BY DEF AdapterKept, TornDown, Coming
<1>2. RowKept(s)'
  <2>1. CASE engine[engines[s]].client \in {"open", "closing"}
    BY <2>1 DEF RowKept, TornDown
  <2>2. CASE engine[engines[s]].client \notin {"open", "closing"}
    BY <2>2 DEF RowKept, TornDown
  <2>3. QED
    BY <2>1, <2>2
<1>3. QED
  BY <1>1, <1>2 DEF TornDown

\* What an eviction does to the session s and to the adapters.
Evicted(s) ==
  /\ engines'[s] = None
  /\ \A r \in Sessions \ {s} : engines'[r] = engines[r]
  /\ \A d \in Engines : /\ engine'[d].owner = engine[d].owner /\ engine'[d].init = engine[d].init
                        /\ engine[d].client = "none" => engine'[d].client = "none"
                        /\ engine[d].owner # s => engine'[d] = engine[d]

\* Evict() does just that.
LEMMA EvictAt ==
  ASSUME TypeOK, NEW s \in Sessions, AdapterKept(s), NEW destroy \in BOOLEAN, Evict(s, destroy)
  PROVE  Evicted(s)
<1>1. engines'[s] = None /\ \A r \in Sessions \ {s} : engines'[r] = engines[r]
  BY DEF Evict, TypeOK
<1>2. CASE engines[s] = None
  BY <1>1, <1>2 DEF Evict, Evicted
<1>3. CASE engines[s] # None
  <2> DEFINE e == engines[s]
  <2>1. e \in Engines /\ engine[e] \in EngineState /\ engine[e].owner = s
    BY <1>3 DEF TypeOK, AdapterKept
  <2>2. /\ engine'[e] = Torn(Silent(engine[e])) \/ engine'[e] = Silent(engine[e])
        /\ \A d \in Engines \ {e} : engine'[d] = engine[d]
    BY <1>3, <2>1 DEF Evict, TypeOK
  <2>3. Silent(engine[e]) \in EngineState
    BY <2>1, SilentType
  <2>4. /\ engine'[e].owner = engine[e].owner /\ engine'[e].init = engine[e].init
        /\ engine[e].client = "none" => engine'[e].client = "none"
    BY <2>1, <2>2, <2>3, SilentFields, TornFields
  <2>5. QED
    BY <1>1, <2>1, <2>2, <2>4 DEF Evicted
<1>4. QED
  BY <1>2, <1>3

\* It leaves nothing to say of the row, and less of a start() of s.
LEMMA EvictedKept ==
  ASSUME TypeOK, NEW s \in Sessions, Evicted(s)
  PROVE  /\ AdapterKept(s)' /\ RowKept(s)'
         /\ \A c \in Calls :
              /\ StartKept(c, s) /\ call'[c] = call[c] /\ call[c].pc # "reap"
                 => StartKept(c, s)'
              /\ StartKept(c, s) /\ call'[c] = call[c] /\ lastError'[s] = lastError[s]
                 /\ (status[s] = "deleted" => status'[s] = "deleted")
                 => StartKept(c, s)'
  BY DEF Evicted, AdapterKept, RowKept, StartKept

\* A segment that evicts touches its own session only.
LEMMA EvictOnly ==
  ASSUME NEW c \in Calls, call[c] # None, Evicted(call[c].s), UNCHANGED <<process, crashes>>,
         \A d \in Calls \ {c} : call'[d] = call[d],
         call'[c] = None \/ call'[c].s = call[c].s,
         \A r \in Sessions \ {call[c].s} : status'[r] = status[r] /\ lastError'[r] = lastError[r]
  PROVE  Elsewhere(call[c].s)
  BY DEF Elsewhere, Evicted

\* A retired session: its engine is torn down, and its row follows.
LEMMA RetireKept ==
  ASSUME SteadyIInv, NEW c \in Calls, NEW s \in Sessions, call[c].s = s, Retire(c)
  PROVE  Elsewhere(s) /\ SessionKept(s)'
<1>0. /\ TypeOK /\ SessionKept(s) /\ call[c] # None
      /\ call[c].kind = "start" /\ call[c].pc = "retire"
      /\ \A d \in Calls \ {c} : ~Reserves(call[d], s)
  BY OnlyStarts DEF Retire, SteadyIInv, SteadyInv
<1>1. UNCHANGED <<engines, lastError, process, crashes>>
  BY DEF Retire, maps
<1>2. AdapterKept(s) /\ RowKept(s) /\ StartKept(c, s)
  BY <1>0 DEF SessionKept, Reserves
<1>3. ~SomeAt("start", s, {"launch", "threw"}) /\ ~SomeAt("start", s, {"timeout", "reap"})
  BY <1>0 DEF SomeAt, Reserves
<1>4. CASE engines[s] = None
  <2>1. UNCHANGED <<status, engine>>
    BY <1>4 DEF Retire
  <2>2. /\ call'[c] # None /\ call'[c].kind = "start" /\ call'[c].s = s
        /\ call'[c].pc = "leave"
        /\ \A d \in Calls \ {c} : call'[d] = call[d]
    <3>1. "leave" \in PCs /\ None \in EngineIds
      BY DEF PCs, EngineIds
    <3>2. QED
      BY <1>0, <1>4, <3>1, GoMoves DEF Retire
  <2>3. Elsewhere(s)
    BY <1>0, <1>1, <2>1, <2>2, OwnCallOnly
  <2>4. AdapterKept(s)' /\ RowKept(s)'
    BY <1>1, <1>4 DEF AdapterKept, RowKept
  <2>5. ASSUME ~DbFails PROVE ComingKept(s)' /\ ReasonKept(s)'
    <3>1. \A pcs : SomeAt("delete", s, pcs)' <=> SomeAt("delete", s, pcs)
      BY <1>0, <2>2 DEF SomeAt
    <3>2. QED
      BY <1>0, <1>1, <1>3, <2>1, <2>5, <3>1 DEF SessionKept, ComingKept, ReasonKept
  <2>6. ASSUME NEW d \in Calls, Reserves(call'[d], s) PROVE StartKept(d, s)'
    <3>1. d = c
      BY <1>0, <2>2, <2>6
    <3>2. QED
      BY <1>1, <1>4, <2>2, <3>1 DEF StartKept
  <2>7. QED
    BY <2>3, <2>4, <2>5, <2>6 DEF SessionKept
<1>5. CASE engines[s] # None
  <2>1. TearDownLive(s, engines[s])
    BY <1>5 DEF Retire
  <2>2. /\ TornDown(s)
        /\ \A r \in Sessions \ {s} : status'[r] = status[r]
        /\ \A d \in Engines : engine[d].owner \in Sessions \ {s} => engine'[d] = engine[d]
    BY <1>0, <1>1, <1>2, <1>5, <2>1, TearDownAt
  <2>3. /\ call'[c] # None /\ call'[c].kind = "start" /\ call'[c].s = s
        /\ call'[c].pc = "retiring" /\ call'[c].e = engines[s]
        /\ \A d \in Calls \ {c} : call'[d] = call[d]
    <3>1. "retiring" \in PCs /\ engines[s] \in EngineIds
      BY <1>0 DEF PCs, EngineIds, TypeOK
    <3>2. QED
      BY <1>0, <1>5, <3>1, GoMoves DEF Retire
  <2>4. Elsewhere(s)
    BY <1>0, <1>1, <2>2, <2>3 DEF Elsewhere
  <2>5. /\ AdapterKept(s)' /\ RowKept(s)' /\ engines'[s] # None
        /\ status'[s] = "failed" => status[s] = "failed"
    BY <1>2, <1>3, <2>2, TornDownKept
  <2>6. ASSUME ~DbFails PROVE ComingKept(s)' /\ ReasonKept(s)'
    <3>1. \A pcs : SomeAt("delete", s, pcs)' <=> SomeAt("delete", s, pcs)
      BY <1>0, <2>3 DEF SomeAt
    <3>2. QED
      BY <1>0, <1>1, <2>2, <2>5, <2>6, <3>1 DEF SessionKept, ComingKept, ReasonKept, TornDown
  <2>7. ASSUME NEW d \in Calls, Reserves(call'[d], s) PROVE StartKept(d, s)'
    <3>1. d = c
      BY <1>0, <2>3, <2>7
    <3>2. engine'[engines[s]].client \in {"closing", "gone"}
      <4>1. engine[engines[s]] \in EngineState /\ engine[engines[s]].client # "none"
        BY <1>0, <1>2, <1>5 DEF StartKept, TypeOK
      <4>2. engine[engines[s]].client \in {"open", "closing", "gone"}
        BY <4>1 DEF EngineState
      <4>3. QED
        BY <2>2, <4>2 DEF TornDown
    <3>3. QED
      BY <1>1, <2>3, <3>1, <3>2 DEF StartKept
  <2>8. QED
    BY <2>4, <2>5, <2>6, <2>7 DEF SessionKept
<1>6. QED
  BY <1>4, <1>5

\* The engine evicted here is on its way nowhere, so neither is the row.
LEMMA RetiredKept ==
  ASSUME SteadyIInv, NEW c \in Calls, NEW s \in Sessions, call[c].s = s, Retired(c)
  PROVE  Elsewhere(s) /\ SessionKept(s)'
<1>0. /\ TypeOK /\ SessionKept(s) /\ call[c] # None
      /\ call[c].kind = "start" /\ call[c].pc = "retiring"
      /\ \A d \in Calls \ {c} : ~Reserves(call[d], s)
  BY OnlyStarts DEF Retired, SteadyIInv, SteadyInv
<1>1. UNCHANGED <<status, lastError, process, crashes>>
  BY DEF Retired
<1>2. AdapterKept(s) /\ RowKept(s) /\ StartKept(c, s)
  BY <1>0 DEF SessionKept, Reserves
<1>3. ~SomeAt("start", s, {"launch", "threw"}) /\ ~SomeAt("start", s, {"timeout", "reap"})
  BY <1>0 DEF SomeAt, Reserves
<1>4. /\ call'[c] # None /\ call'[c].kind = "start" /\ call'[c].s = s
      /\ call'[c].pc = "leave"
      /\ \A d \in Calls \ {c} : call'[d] = call[d]
  <2>1. "leave" \in PCs /\ None \in EngineIds
    BY DEF PCs, EngineIds
  <2>2. QED
    BY <1>0, <2>1, GoMoves DEF Retired
<1>5. Evicted(s)
  BY <1>0, <1>2, EvictAt DEF Retired
<1>6. Elsewhere(s)
  BY <1>0, <1>1, <1>4, <1>5, EvictOnly
<1>7. AdapterKept(s)' /\ RowKept(s)'
  BY <1>0, <1>5, EvictedKept
<1>8. ASSUME ~DbFails PROVE ComingKept(s)' /\ ReasonKept(s)'
  <2>1. \A pcs : SomeAt("delete", s, pcs)' <=> SomeAt("delete", s, pcs)
    BY <1>0, <1>4 DEF SomeAt
  <2>2. engines[s] # None => status[s] \notin Coming
    BY <1>0, <1>2, <1>3 DEF AdapterKept, RowKept, StartKept, Coming
  <2>3. QED
    BY <1>0, <1>1, <1>3, <1>8, <2>1, <2>2 DEF SessionKept, ComingKept, ReasonKept
<1>9. ASSUME NEW d \in Calls, Reserves(call'[d], s) PROVE StartKept(d, s)'
  <2>1. d = c
    BY <1>0, <1>4, <1>9
  <2>2. QED
    BY <1>4, <1>5, <2>1 DEF StartKept, Evicted
<1>10. QED
  BY <1>6, <1>7, <1>8, <1>9 DEF SessionKept

\* The catch of start() evicts and records the reason.
LEMMA StartCatchKept ==
  ASSUME SteadyIInv, NEW c \in Calls, NEW s \in Sessions, call[c].s = s, StartCatch(c)
  PROVE  Elsewhere(s) /\ SessionKept(s)'
<1>0. /\ TypeOK /\ SessionKept(s) /\ call[c] # None
      /\ call[c].kind = "start" /\ call[c].pc \in {"init", "threw"}
      /\ \A d \in Calls \ {c} : ~Reserves(call[d], s)
  <2>1. /\ TypeOK /\ SessionKept(s) /\ call[c] # None
        /\ call[c].kind = "start" /\ call[c].pc \in {"init", "threw"}
    BY DEF StartCatch, InitThrew, At, SteadyIInv, SteadyInv
  <2>2. QED
    BY <2>1, ReservationIff DEF SteadyIInv, Reserves
<1>1. UNCHANGED <<status, process, crashes>>
  BY DEF StartCatch
<1>2. AdapterKept(s) /\ RowKept(s) /\ StartKept(c, s)
  BY <1>0 DEF SessionKept, Reserves
<1>3. ~SomeAt("start", s, {"timeout", "reap"})
  BY <1>0 DEF SomeAt, Reserves
<1>4. CASE engines[s] = None
  <2>1. UNCHANGED <<engines, lastError, engine>> /\ Return(c)
    BY <1>4 DEF StartCatch
  <2>2. call'[c] = None /\ \A d \in Calls \ {c} : call'[d] = call[d]
    BY <1>0, <2>1, ReturnMoves
  <2>3. Elsewhere(s)
    BY <1>0, <1>1, <2>1, <2>2, OwnCallOnly
  <2>4. AdapterKept(s)' /\ RowKept(s)'
    BY <1>4, <2>1 DEF AdapterKept, RowKept
  <2>5. ASSUME ~DbFails PROVE ComingKept(s)' /\ ReasonKept(s)'
    <3>1. \A pcs : SomeAt("delete", s, pcs)' <=> SomeAt("delete", s, pcs)
      BY <1>0, <2>2 DEF SomeAt
    <3>2. QED
      BY <1>0, <1>1, <1>3, <2>1, <2>5, <3>1 DEF SessionKept, ComingKept, ReasonKept
  <2>6. \A d \in Calls : ~Reserves(call'[d], s)
    BY <1>0, <2>2 DEF Reserves
  <2>7. QED
    BY <2>3, <2>4, <2>5, <2>6 DEF SessionKept
<1>5. CASE engines[s] # None
  <2>1. Evict(s, TRUE) /\ Go(c, "reap", engines[s]) /\ lastError' = [lastError EXCEPT ![s] = TRUE]
    BY <1>5 DEF StartCatch
  <2>2. Evicted(s)
    BY <1>0, <1>2, <2>1, EvictAt
  <2>3. /\ call'[c] # None /\ call'[c].kind = "start" /\ call'[c].s = s
        /\ call'[c].pc = "reap"
        /\ \A d \in Calls \ {c} : call'[d] = call[d]
    <3>1. "reap" \in PCs /\ engines[s] \in EngineIds
      BY <1>0 DEF PCs, EngineIds, TypeOK
    <3>2. QED
      BY <1>0, <2>1, <3>1, GoMoves
  <2>4. lastError'[s] /\ \A r \in Sessions \ {s} : lastError'[r] = lastError[r]
    BY <1>0, <2>1 DEF TypeOK
  <2>5. Elsewhere(s)
    BY <1>0, <1>1, <2>2, <2>3, <2>4, EvictOnly
  <2>6. AdapterKept(s)' /\ RowKept(s)'
    BY <1>0, <2>2, EvictedKept
  <2>7. ASSUME ~DbFails PROVE ComingKept(s)' /\ ReasonKept(s)'
    <3>1. SomeAt("start", s, {"timeout", "reap"})'
      BY <2>3 DEF SomeAt
    <3>2. SomeAt("delete", s, {"purge"})' <=> SomeAt("delete", s, {"purge"})
      BY <1>0, <2>3 DEF SomeAt
    <3>3. QED
      BY <1>0, <1>1, <2>4, <2>7, <3>1, <3>2 DEF SessionKept, ComingKept, ReasonKept
  <2>8. ASSUME NEW d \in Calls, Reserves(call'[d], s) PROVE StartKept(d, s)'
    <3>1. d = c
      BY <1>0, <2>3, <2>8
    <3>2. QED
      BY <2>2, <2>3, <2>4, <3>1 DEF StartKept, Evicted
  <2>9. QED
    BY <2>5, <2>6, <2>7, <2>8 DEF SessionKept
<1>6. QED
  BY <1>4, <1>5

\* The deadline evicts; the row is left to the segment that follows.
LEMMA InitTimeoutKept ==
  ASSUME SteadyIInv, NEW c \in Calls, NEW s \in Sessions, call[c].s = s, InitTimeout(c)
  PROVE  Elsewhere(s) /\ SessionKept(s)'
<1>0. /\ TypeOK /\ SessionKept(s) /\ call[c] # None
      /\ call[c].kind = "start" /\ call[c].pc = "init"
      /\ \A d \in Calls \ {c} : ~Reserves(call[d], s)
  BY OnlyStarts DEF InitTimeout, SteadyIInv, SteadyInv
<1>1. UNCHANGED <<status, process, crashes>>
  BY DEF InitTimeout
<1>2. AdapterKept(s) /\ StartKept(c, s)
  BY <1>0 DEF SessionKept, Reserves
<1>3. PICK e \in Engines : e = call[c].e /\ engine[e].owner = s
  BY <1>0, <1>2 DEF StartKept
<1>4. /\ call'[c] # None /\ call'[c].kind = "start" /\ call'[c].s = s
      /\ call'[c].pc = "timeout" /\ call'[c].e = e
      /\ \A d \in Calls \ {c} : call'[d] = call[d]
  <2>1. "timeout" \in PCs /\ e \in EngineIds
    BY DEF PCs, EngineIds
  <2>2. Go(c, "timeout", e)
    BY <1>3 DEF InitTimeout
  <2>3. QED
    BY <1>0, <1>3, <2>1, <2>2, GoMoves
<1>5. lastError'[s] /\ \A r \in Sessions \ {s} : lastError'[r] = lastError[r]
  BY <1>0 DEF InitTimeout, TypeOK
<1>6. Evicted(s)
  <2>1. engines'[s] = None /\ \A r \in Sessions \ {s} : engines'[r] = engines[r]
    BY <1>0 DEF InitTimeout, TypeOK
  <2>2. engines[s] \in {None, e}
    BY <1>0, <1>2, <1>3 DEF StartKept
  <2>3. \A d \in Engines \ {e} : engine'[d] = engine[d]
    BY <1>3, <2>2, NoneIsNoEngine DEF InitTimeout
  <2>4. engine'[e] \in {Torn(engine[e]), Torn(Silent(engine[e]))}
    BY <1>3 DEF InitTimeout
  <2>5. engine[e] \in EngineState /\ Silent(engine[e]) \in EngineState
    BY <1>0, SilentType DEF TypeOK
  <2>6. /\ engine'[e].owner = engine[e].owner /\ engine'[e].init = engine[e].init
        /\ engine[e].client = "none" => engine'[e].client = "none"
    BY <2>4, <2>5, SilentFields, TornFields
  <2>7. QED
    BY <1>3, <2>1, <2>3, <2>6 DEF Evicted
<1>7. Elsewhere(s)
  BY <1>0, <1>1, <1>4, <1>5, <1>6, EvictOnly
<1>8. AdapterKept(s)' /\ RowKept(s)'
  BY <1>0, <1>6, EvictedKept
<1>9. ASSUME ~DbFails PROVE ComingKept(s)' /\ ReasonKept(s)'
  <2>1. SomeAt("start", s, {"timeout", "reap"})'
    BY <1>4 DEF SomeAt
  <2>2. SomeAt("delete", s, {"purge"})' <=> SomeAt("delete", s, {"purge"})
    BY <1>0, <1>4 DEF SomeAt
  <2>3. QED
    BY <1>0, <1>1, <1>5, <1>9, <2>1, <2>2 DEF SessionKept, ComingKept, ReasonKept
<1>10. ASSUME NEW d \in Calls, Reserves(call'[d], s) PROVE StartKept(d, s)'
  <2>1. d = c
    BY <1>0, <1>4, <1>10
  <2>2. QED
    BY <1>3, <1>4, <1>6, <2>1 DEF StartKept, Evicted
<1>11. QED
  BY <1>7, <1>8, <1>9, <1>10 DEF SessionKept

\* The engine start() creates was no session\'s.
LEMMA StartLaunchKept ==
  ASSUME SteadyIInv, NEW c \in Calls, NEW s \in Sessions, call[c].s = s, StartLaunch(c)
  PROVE  Elsewhere(s) /\ SessionKept(s)'
<1>0. /\ TypeOK /\ SessionKept(s) /\ call[c] # None
      /\ call[c].kind = "start" /\ call[c].pc = "hook"
      /\ \A d \in Calls \ {c} : ~Reserves(call[d], s)
  BY OnlyStarts DEF StartLaunch, At, SteadyIInv, SteadyInv
<1>1. UNCHANGED <<process, crashes>> /\ CreateEngine(c, s)
  BY DEF StartLaunch
<1>2. engines[s] = None
  BY <1>0 DEF SessionKept, StartKept, Reserves
<1>3. PICK e \in Engines :
        /\ engine[e] = Unborn
        /\ engine' = [d \in Engines |-> IF d = e THEN [Unborn EXCEPT !.owner = s]
                                        ELSE IF d = engines[s] THEN Silent(engine[d])
                                        ELSE engine[d]]
        /\ engines' = [engines EXCEPT ![s] = e]
        /\ lastError' = [lastError EXCEPT ![s] = FALSE]
        /\ status' = SetStatus(s, "initializing")
        /\ call' = [call EXCEPT ![c] =
                      [kind |-> IF call[c] = None THEN "reconnect" ELSE call[c].kind,
                       s |-> s, pc |-> "launch", e |-> e]]
  BY <1>1 DEF CreateEngine
<1>4. /\ \A d \in Engines \ {e} : engine'[d] = engine[d]
      /\ engine[e].owner = None
      /\ engine'[e].owner = s /\ engine'[e].client = "none" /\ engine'[e].init = "none"
  <2>1. engine'[e] = [Unborn EXCEPT !.owner = s] /\ \A d \in Engines \ {e} : engine'[d] = engine[d]
    BY <1>2, <1>3, NoneIsNoEngine
  <2>2. QED
    BY <1>3, <2>1 DEF Unborn
<1>5. /\ engines'[s] = e /\ engines'[s] # None
      /\ \A r \in Sessions \ {s} : engines'[r] = engines[r] /\ lastError'[r] = lastError[r]
  BY <1>0, <1>3, NoneIsNoEngine DEF TypeOK
<1>6. /\ status[s] = "deleted" => status'[s] = "deleted"
      /\ status[s] # "deleted" => status'[s] = "initializing"
      /\ \A r \in Sessions \ {s} : status'[r] = status[r]
  BY <1>0, <1>3, SetStatusAt
<1>7. /\ call'[c] # None /\ call'[c].kind = "start" /\ call'[c].s = s
      /\ call'[c].pc = "launch" /\ call'[c].e = e
      /\ \A d \in Calls \ {c} : call'[d] = call[d]
  <2>1. call' = [call EXCEPT ![c] = [kind |-> "start", s |-> s, pc |-> "launch", e |-> e]]
    BY <1>0, <1>3
  <2>2. [kind |-> "start", s |-> s, pc |-> "launch", e |-> e] \in CallState
    BY DEF CallState, Kinds, PCs
  <2>3. QED
    BY <1>0, <2>1, <2>2, SessionAssumption DEF TypeOK
<1>8. Elsewhere(s)
  BY <1>0, <1>1, <1>4, <1>5, <1>6, <1>7, NoneIsNoEngine DEF Elsewhere
<1>9. AdapterKept(s)' /\ RowKept(s)'
  <2>1. SomeAt("start", s, {"launch", "threw"})'
    BY <1>7 DEF SomeAt
  <2>2. QED
    BY <1>4, <1>5, <2>1 DEF AdapterKept, RowKept
<1>10. ASSUME ~DbFails PROVE ComingKept(s)' /\ ReasonKept(s)'
  <2>1. SomeAt("delete", s, {"purge"})' <=> SomeAt("delete", s, {"purge"})
    BY <1>0, <1>7 DEF SomeAt
  <2>2. QED
    BY <1>0, <1>5, <1>6, <1>10, <2>1 DEF SessionKept, ComingKept, ReasonKept
<1>11. ASSUME NEW d \in Calls, Reserves(call'[d], s) PROVE StartKept(d, s)'
  <2>1. d = c
    BY <1>0, <1>7, <1>11
  <2>2. QED
    BY <1>4, <1>5, <1>7, <2>1 DEF StartKept
<1>12. QED
  BY <1>8, <1>9, <1>10, <1>11 DEF SessionKept

\* The first report of the engine brings row and adapter together.
LEMMA LaunchEngineKept ==
  ASSUME SteadyIInv, NEW c \in Calls, NEW s \in Sessions, call[c].s = s, LaunchEngine(c)
  PROVE  Elsewhere(s) /\ SessionKept(s)'
<1>0. /\ TypeOK /\ SessionKept(s) /\ call[c] # None
      /\ call[c].kind = "start" /\ call[c].pc = "launch"
      /\ \A d \in Calls \ {c} : ~Reserves(call[d], s)
  BY OnlyStarts DEF LaunchEngine, SteadyIInv, SteadyInv
<1>1. UNCHANGED <<engines, lastError, process, crashes>>
  BY DEF LaunchEngine, maps
<1>2. AdapterKept(s) /\ StartKept(c, s)
  BY <1>0 DEF SessionKept, Reserves
<1>3. PICK e \in Engines : /\ e = call[c].e /\ engine[e].owner = s
                           /\ engine[e].client = "none"
  BY <1>0, <1>2 DEF StartKept
<1>4. /\ \A d \in Engines \ {e} : engine'[d] = engine[d]
      /\ engine'[e].owner = s /\ engine'[e].client = "none"
      /\ engine'[e].init = "pending" /\ engine'[e].st = "initializing"
  <2>1. engine' = [engine EXCEPT ![e].init = "pending", ![e].st = "initializing"]
    BY <1>3 DEF LaunchEngine
  <2>2. engine[e] \in EngineState
    BY <1>0 DEF TypeOK
  <2>3. /\ \A d \in Engines \ {e} : engine'[d] = engine[d]
        /\ engine'[e] = [engine[e] EXCEPT !.init = "pending", !.st = "initializing"]
    BY <1>0, <2>1 DEF TypeOK
  <2>4. QED
    BY <1>3, <2>2, <2>3 DEF EngineState
<1>5. engines[s] \in {None, e} /\ (Live(e) <=> engines[s] = e)
  BY <1>0, <1>2, <1>3, NoneIsNoEngine DEF StartKept, Live
<1>6. /\ engines[s] = None => status' = status
      /\ status[s] = "deleted" => status'[s] = "deleted"
      /\ engines[s] = e /\ status[s] # "deleted" => status'[s] = "initializing"
      /\ \A r \in Sessions \ {s} : status'[r] = status[r]
  <2>1. CASE engines[s] = e
    <3>1. status' = SetStatus(s, "initializing")
      BY <1>3, <1>5, <2>1 DEF LaunchEngine
    <3>2. QED
      BY <1>0, <2>1, <3>1, SetStatusAt, NoneIsNoEngine
  <2>2. CASE engines[s] = None
    <3>1. status' = status
      BY <1>3, <1>5, <2>2, NoneIsNoEngine DEF LaunchEngine
    <3>2. QED
      BY <2>2, <3>1, NoneIsNoEngine
  <2>3. QED
    BY <1>5, <2>1, <2>2
<1>7. /\ call'[c] # None /\ call'[c].kind = "start" /\ call'[c].s = s
      /\ call'[c].pc = "init" /\ call'[c].e = e
      /\ \A d \in Calls \ {c} : call'[d] = call[d]
  <2>1. "init" \in PCs /\ e \in EngineIds
    BY DEF PCs, EngineIds
  <2>2. Go(c, "init", e)
    BY <1>3 DEF LaunchEngine
  <2>3. QED
    BY <1>0, <2>1, <2>2, GoMoves
<1>8. Elsewhere(s)
  BY <1>0, <1>1, <1>3, <1>4, <1>6, <1>7 DEF Elsewhere
<1>9. AdapterKept(s)' /\ RowKept(s)'
  <2>1. CASE engines[s] = None
    BY <1>1, <2>1 DEF AdapterKept, RowKept
  <2>2. CASE engines[s] = e
    BY <1>1, <1>4, <1>6, <2>2 DEF AdapterKept, RowKept
  <2>3. QED
    BY <1>5, <2>1, <2>2
<1>10. ASSUME ~DbFails PROVE ComingKept(s)' /\ ReasonKept(s)'
  <2>1. /\ \A pcs : SomeAt("delete", s, pcs)' <=> SomeAt("delete", s, pcs)
        /\ ~SomeAt("start", s, {"timeout", "reap"})
    BY <1>0, <1>7 DEF SomeAt, Reserves
  <2>2. ComingKept(s) /\ ReasonKept(s)
    BY <1>0, <1>10 DEF SessionKept
  <2>3. CASE engines[s] = None
    BY <1>1, <1>6, <2>1, <2>2, <2>3 DEF ComingKept, ReasonKept
  <2>4. CASE engines[s] = e
    BY <1>1, <1>6, <2>1, <2>2, <2>4, NoneIsNoEngine DEF ComingKept, ReasonKept
  <2>5. QED
    BY <1>5, <2>3, <2>4
<1>11. ASSUME NEW d \in Calls, Reserves(call'[d], s) PROVE StartKept(d, s)'
  <2>1. d = c
    BY <1>0, <1>7, <1>11
  <2>2. QED
    BY <1>1, <1>4, <1>5, <1>7, <2>1 DEF StartKept
<1>12. QED
  BY <1>8, <1>9, <1>10, <1>11 DEF SessionKept

\* A new call has done nothing yet.
LEMMA RequestKept ==
  ASSUME SteadyIInv, NEW c \in Calls, NEW k \in Kinds \ {"reconnect"}, NEW s \in Sessions,
         Request(c, k, s)
  PROVE  Elsewhere(s) /\ SessionKept(s)'
<1>0. TypeOK /\ SessionKept(s) /\ call[c] = None
  BY DEF Request, SteadyIInv, SteadyInv
<1>1. UNCHANGED <<status, engine, engines, lastError, process, crashes>>
  BY DEF Request, maps
<1>2. /\ call'[c].s = s /\ call'[c].pc = "found"
      /\ \A d \in Calls \ {c} : call'[d] = call[d]
  BY <1>0 DEF Request, TypeOK
<1>3. Elsewhere(s)
  BY <1>0, <1>1, <1>2 DEF Elsewhere
<1>4. AdapterKept(s)'
  BY <1>0, <1>1, AdapterStays DEF SessionKept
<1>5. \A kind, pcs : "found" \notin pcs => (SomeAt(kind, s, pcs)' <=> SomeAt(kind, s, pcs))
  BY <1>0, <1>2 DEF SomeAt
<1>6. RowKept(s)'
  BY <1>0, <1>1, <1>5 DEF SessionKept, RowKept
<1>7. ASSUME ~DbFails PROVE ComingKept(s)' /\ ReasonKept(s)'
  BY <1>0, <1>1, <1>5, <1>7 DEF SessionKept, ComingKept, ReasonKept
<1>8. ASSUME NEW d \in Calls, Reserves(call'[d], s) PROVE StartKept(d, s)'
  BY <1>0, <1>1, <1>2, <1>8 DEF SessionKept, StartKept, Reserves
<1>9. QED
  BY <1>3, <1>4, <1>6, <1>7, <1>8 DEF SessionKept

\* A call that is not a start leaves the starts where they are.
LEMMA StartsStay ==
  ASSUME NEW c \in Calls, call[c].kind # "start",
         \A d \in Calls \ {c} : call'[d] = call[d],
         call'[c] = None \/ call'[c].kind = call[c].kind, NEW s
  PROVE  /\ \A pcs : SomeAt("start", s, pcs) => SomeAt("start", s, pcs)'
         /\ \A d \in Calls : Reserves(call'[d], s) =>
              d # c /\ call'[d] = call[d] /\ Reserves(call[d], s)
  BY DEF SomeAt, Reserves

\* The common head of stop() and delete(), over a start() or without one.
LEMMA MarkKept ==
  ASSUME SteadyIInv, NEW c \in Calls, NEW s \in Sessions, call[c].s = s, Mark(c)
  PROVE  Elsewhere(s) /\ SessionKept(s)'
<1>0. /\ TypeOK /\ SessionKept(s) /\ call[c] # None
      /\ call[c].kind \in {"stop", "delete"} /\ call[c].pc = "found"
  BY DEF Mark, At, SteadyIInv, SteadyInv
<1>1. UNCHANGED <<engines, lastError, process, crashes>>
  BY DEF Mark
<1>2. AdapterKept(s) /\ RowKept(s)
  BY <1>0 DEF SessionKept
<1>typed. {"closing", "deleting"} \subseteq PCs /\ {None, engines[s]} \subseteq EngineIds
  BY <1>0 DEF PCs, EngineIds, TypeOK
<1>3. CASE engines[s] # None
  <2>1. TearDownLive(s, engines[s]) /\ Go(c, "closing", engines[s])
    BY <1>3 DEF Mark
  <2>2. /\ TornDown(s)
        /\ \A r \in Sessions \ {s} : status'[r] = status[r]
        /\ \A d \in Engines : engine[d].owner \in Sessions \ {s} => engine'[d] = engine[d]
    BY <1>0, <1>1, <1>2, <1>3, <2>1, TearDownAt
  <2>3. /\ call'[c] # None /\ call'[c].kind = call[c].kind /\ call'[c].s = s
        /\ call'[c].pc = "closing"
        /\ \A d \in Calls \ {c} : call'[d] = call[d]
    BY <1>0, <1>typed, <2>1, GoMoves
  <2>4. Elsewhere(s)
    BY <1>0, <1>1, <2>2, <2>3 DEF Elsewhere
  <2>5. /\ \A pcs : SomeAt("start", s, pcs) => SomeAt("start", s, pcs)'
        /\ \A d \in Calls : Reserves(call'[d], s) => call'[d] = call[d] /\ Reserves(call[d], s)
    BY <1>0, <2>3, StartsStay
  <2>6. /\ AdapterKept(s)' /\ RowKept(s)' /\ engines'[s] # None
        /\ status'[s] = "failed" => status[s] = "failed"
    BY <1>2, <2>2, <2>5, TornDownKept
  <2>7. ASSUME ~DbFails PROVE ComingKept(s)' /\ ReasonKept(s)'
    <3>1. SomeAt("delete", s, {"purge"})' <=> SomeAt("delete", s, {"purge"})
      BY <1>0, <2>3 DEF SomeAt
    <3>2. QED
      BY <1>0, <1>1, <2>2, <2>6, <2>7, <3>1 DEF SessionKept, ComingKept, ReasonKept, TornDown
  <2>8. ASSUME NEW d \in Calls, Reserves(call'[d], s) PROVE StartKept(d, s)'
    <3>1. call'[d] = call[d] /\ StartKept(d, s)
      BY <1>0, <2>5, <2>8 DEF SessionKept
    <3>2. call[d].pc # "leave" => call[d].e = engines[s]
      BY <1>3, <3>1 DEF StartKept
    <3>3. QED
      BY <1>1, <1>3, <2>2, <3>1, <3>2 DEF StartKept, TornDown
  <2>9. QED
    BY <2>4, <2>6, <2>7, <2>8 DEF SessionKept
<1>4. CASE engines[s] = None
  <2>1. UNCHANGED engine /\ (\/ Go(c, "deleting", None) /\ UNCHANGED status
                             \/ Return(c) /\ status' = SetStatus(s, "disconnected"))
    BY <1>4 DEF Mark
  <2>2. /\ \/ call'[c] = None
           \/ call'[c].kind = call[c].kind /\ call'[c].s = s /\ call'[c].pc = "deleting"
        /\ \A d \in Calls \ {c} : call'[d] = call[d]
    BY <1>0, <1>typed, <2>1, GoMoves, ReturnMoves
  <2>3. /\ status[s] = "deleted" => status'[s] = "deleted"
        /\ status'[s] # status[s] => status'[s] = "disconnected"
        /\ \A r \in Sessions \ {s} : status'[r] = status[r]
    BY <1>0, <2>1, SetStatusAt
  <2>4. Elsewhere(s)
    BY <1>0, <1>1, <2>1, <2>2, <2>3, OwnCallOnly
  <2>5. /\ \A pcs : SomeAt("start", s, pcs) => SomeAt("start", s, pcs)'
        /\ \A d \in Calls : Reserves(call'[d], s) => call'[d] = call[d] /\ Reserves(call[d], s)
    BY <1>0, <2>2, StartsStay
  <2>6. AdapterKept(s)' /\ RowKept(s)'
    BY <1>1, <1>4 DEF AdapterKept, RowKept
  <2>7. ASSUME ~DbFails PROVE ComingKept(s)' /\ ReasonKept(s)'
    <3>1. /\ SomeAt("delete", s, {"deleting"}) => SomeAt("delete", s, {"deleting"})'
          /\ SomeAt("delete", s, {"purge"})' => SomeAt("delete", s, {"purge"})
      BY <1>0, <2>2 DEF SomeAt
    <3>2. QED
      BY <1>0, <1>1, <2>3, <2>5, <2>7, <3>1 DEF SessionKept, ComingKept, ReasonKept, Coming
  <2>8. ASSUME NEW d \in Calls, Reserves(call'[d], s) PROVE StartKept(d, s)'
    <3>1. call'[d] = call[d] /\ StartKept(d, s)
      BY <1>0, <2>5, <2>8 DEF SessionKept
    <3>2. QED
      BY <1>1, <1>4, <2>1, <2>3, <3>1 DEF StartKept
  <2>9. QED
    BY <2>4, <2>6, <2>7, <2>8 DEF SessionKept
<1>5. QED
  BY <1>3, <1>4

\* The tail of stop().
LEMMA StoppedKept ==
  ASSUME SteadyIInv, NEW c \in Calls, NEW s \in Sessions, call[c].s = s, Stopped(c)
  PROVE  Elsewhere(s) /\ SessionKept(s)'
<1>0. /\ TypeOK /\ SessionKept(s) /\ AdapterKept(s) /\ call[c] # None
      /\ call[c].kind = "stop"
  BY DEF Stopped, At, SteadyIInv, SteadyInv, SessionKept
<1>1. UNCHANGED <<lastError, process, crashes>>
  BY DEF Stopped
<1>2. call'[c] = None /\ \A d \in Calls \ {c} : call'[d] = call[d]
  BY <1>0, ReturnMoves DEF Stopped
<1>3. Evicted(s)
  BY <1>0, EvictAt DEF Stopped
<1>4. /\ status[s] = "deleted" => status'[s] = "deleted"
      /\ status[s] # "deleted" => status'[s] = "disconnected"
      /\ \A r \in Sessions \ {s} : status'[r] = status[r]
  BY <1>0, SetStatusAt DEF Stopped
<1>5. Elsewhere(s)
  BY <1>0, <1>1, <1>2, <1>3, <1>4, EvictOnly
<1>6. \A d \in Calls : Reserves(call'[d], s) => call'[d] = call[d] /\ Reserves(call[d], s)
  BY <1>0, <1>2, StartsStay
<1>7. ASSUME ~DbFails PROVE ComingKept(s)' /\ ReasonKept(s)'
  <2>1. SomeAt("delete", s, {"purge"})' => SomeAt("delete", s, {"purge"})
    BY <1>0, <1>2 DEF SomeAt
  <2>2. QED
    BY <1>0, <1>4, <1>7, <2>1 DEF SessionKept, ComingKept, ReasonKept, Coming
<1>8. ASSUME NEW d \in Calls, Reserves(call'[d], s) PROVE StartKept(d, s)'
  BY <1>0, <1>1, <1>3, <1>4, <1>6, <1>8, EvictedKept DEF SessionKept
<1>9. AdapterKept(s)' /\ RowKept(s)'
  BY <1>0, <1>3, EvictedKept
<1>10. QED
  BY <1>5, <1>7, <1>8, <1>9 DEF SessionKept

\* delete() takes the engine away and the row will follow.
LEMMA DeleteEvictedKept ==
  ASSUME SteadyIInv, NEW c \in Calls, NEW s \in Sessions, call[c].s = s, DeleteEvicted(c)
  PROVE  Elsewhere(s) /\ SessionKept(s)'
<1>0. /\ TypeOK /\ SessionKept(s) /\ AdapterKept(s) /\ call[c] # None
      /\ call[c].kind = "delete" /\ call[c].pc = "closing"
  BY DEF DeleteEvicted, At, SteadyIInv, SteadyInv, SessionKept
<1>1. UNCHANGED <<status, lastError, process, crashes>>
  BY DEF DeleteEvicted
<1>2. /\ call'[c] # None /\ call'[c].kind = "delete" /\ call'[c].s = s
      /\ call'[c].pc = "deleting"
      /\ \A d \in Calls \ {c} : call'[d] = call[d]
  <2>1. "deleting" \in PCs /\ None \in EngineIds
    BY DEF PCs, EngineIds
  <2>2. QED
    BY <1>0, <2>1, GoMoves DEF DeleteEvicted
<1>3. Evicted(s)
  BY <1>0, EvictAt DEF DeleteEvicted
<1>4. Elsewhere(s)
  BY <1>0, <1>1, <1>2, <1>3, EvictOnly
<1>5. \A d \in Calls : Reserves(call'[d], s) => call'[d] = call[d] /\ Reserves(call[d], s)
  BY <1>0, <1>2, StartsStay
<1>6. ASSUME ~DbFails PROVE ComingKept(s)' /\ ReasonKept(s)'
  <2>1. /\ SomeAt("delete", s, {"deleting"})'
        /\ SomeAt("delete", s, {"purge"})' => SomeAt("delete", s, {"purge"})
    BY <1>0, <1>2 DEF SomeAt
  <2>2. QED
    BY <1>0, <1>1, <1>6, <2>1 DEF SessionKept, ComingKept, ReasonKept
<1>7. ASSUME NEW d \in Calls, Reserves(call'[d], s) PROVE StartKept(d, s)'
  BY <1>0, <1>1, <1>3, <1>5, <1>7, EvictedKept DEF SessionKept
<1>8. AdapterKept(s)' /\ RowKept(s)'
  BY <1>0, <1>3, EvictedKept
<1>9. QED
  BY <1>4, <1>6, <1>7, <1>8 DEF SessionKept

\* The transaction of delete().
LEMMA DeleteRowKept ==
  ASSUME SteadyIInv, NEW c \in Calls, NEW s \in Sessions, call[c].s = s, DeleteRow(c)
  PROVE  Elsewhere(s) /\ SessionKept(s)'
<1>0. /\ TypeOK /\ SessionKept(s) /\ call[c] # None
      /\ call[c].kind = "delete" /\ call[c].pc = "deleting"
  BY DEF DeleteRow, At, SteadyIInv, SteadyInv
<1>1. UNCHANGED <<engine, engines, lastError, process, crashes>>
  BY DEF DeleteRow, maps
<1>2. /\ \/ status'[s] = "deleted"
         \/ DbFails /\ status'[s] = status[s]
      /\ \A r \in Sessions \ {s} : status'[r] = status[r]
  BY <1>0 DEF DeleteRow, TypeOK
<1>3. /\ call'[c] # None /\ call'[c].kind = "delete" /\ call'[c].s = s
      /\ call'[c].pc = "purge"
      /\ \A d \in Calls \ {c} : call'[d] = call[d]
  <2>1. "purge" \in PCs /\ None \in EngineIds
    BY DEF PCs, EngineIds
  <2>2. QED
    BY <1>0, <2>1, GoMoves DEF DeleteRow
<1>4. Elsewhere(s)
  BY <1>0, <1>1, <1>2, <1>3, OwnCallOnly
<1>5. AdapterKept(s)'
  BY <1>0, <1>1, AdapterStays DEF SessionKept
<1>6. /\ \A pcs : SomeAt("start", s, pcs) => SomeAt("start", s, pcs)'
      /\ \A d \in Calls : Reserves(call'[d], s) => call'[d] = call[d] /\ Reserves(call[d], s)
  BY <1>0, <1>3, StartsStay
<1>7. RowKept(s)'
  BY <1>0, <1>1, <1>2, <1>6 DEF SessionKept, RowKept
<1>8. ASSUME ~DbFails PROVE ComingKept(s)' /\ ReasonKept(s)'
  BY <1>2, <1>8 DEF ComingKept, ReasonKept, Coming
<1>9. ASSUME NEW d \in Calls, Reserves(call'[d], s) PROVE StartKept(d, s)'
  <2>1. call'[d] = call[d] /\ StartKept(d, s)
    BY <1>0, <1>6, <1>9 DEF SessionKept
  <2>2. QED
    BY <1>1, <1>2, <2>1 DEF StartKept
<1>10. QED
  BY <1>4, <1>5, <1>7, <1>8, <1>9 DEF SessionKept

\* The finally of delete() drops the reason with the row.
LEMMA DeleteFinallyKept ==
  ASSUME SteadyIInv, NEW c \in Calls, NEW s \in Sessions, call[c].s = s, DeleteFinally(c)
  PROVE  Elsewhere(s) /\ SessionKept(s)'
<1>0. /\ TypeOK /\ SessionKept(s) /\ call[c] # None
      /\ call[c].kind = "delete" /\ call[c].pc = "purge"
  BY DEF DeleteFinally, At, SteadyIInv, SteadyInv
<1>1. UNCHANGED <<status, engine, engines, process, crashes>>
  BY DEF DeleteFinally
<1>2. call'[c] = None /\ \A d \in Calls \ {c} : call'[d] = call[d]
  BY <1>0, ReturnMoves DEF DeleteFinally
<1>3. \A r \in Sessions \ {s} : lastError'[r] = lastError[r]
  BY <1>0 DEF DeleteFinally, TypeOK
<1>4. Elsewhere(s)
  BY <1>0, <1>1, <1>2, <1>3, OwnCallOnly
<1>5. AdapterKept(s)'
  BY <1>0, <1>1, AdapterStays DEF SessionKept
<1>6. /\ \A pcs : SomeAt("start", s, pcs) => SomeAt("start", s, pcs)'
      /\ \A d \in Calls : Reserves(call'[d], s) => call'[d] = call[d] /\ Reserves(call[d], s)
  BY <1>0, <1>2, StartsStay
<1>7. RowKept(s)'
  BY <1>0, <1>1, <1>6 DEF SessionKept, RowKept
<1>8. ~DbFails => status[s] = "deleted"
  BY <1>0 DEF SessionKept, ReasonKept, SomeAt
<1>9. ASSUME ~DbFails PROVE ComingKept(s)' /\ ReasonKept(s)'
  BY <1>1, <1>8, <1>9 DEF ComingKept, ReasonKept, Coming
<1>10. ASSUME NEW d \in Calls, Reserves(call'[d], s) PROVE StartKept(d, s)'
  <2>1. call'[d] = call[d] /\ StartKept(d, s)
    BY <1>0, <1>6, <1>10 DEF SessionKept
  <2>2. QED
    BY <1>1, <1>8, <2>1 DEF StartKept
<1>11. QED
  BY <1>4, <1>5, <1>7, <1>9, <1>10 DEF SessionKept

\* No segment of a call disturbs its session or touches another.
LEMMA CallStepKept ==
  ASSUME SteadyIInv, NEW c \in Calls, CallStep(c)
  PROVE  \E s \in Sessions : Elsewhere(s) /\ SessionKept(s)'
<1>1. call[c] # None /\ call[c].kind # "reconnect"
  <2>1. call[c] # None
    BY DEF At, CallStep, StartReserve, StartLaunch, LaunchEngine, LaunchFails, InitTimeout,
           TimeoutReaped, StartCatch, InitThrew, StartReaped, InitReturned, Retire, Retired,
           Leave, ReconnectSwap, ReconnectCatch, Mark, Stopped, DeleteEvicted, DeleteRow,
           DeleteFinally
  <2>2. QED
    BY <2>1 DEF SteadyIInv, SteadyInv, NoReconnects
<1>2. PICK s \in Sessions : s = call[c].s
  BY <1>1, InFlight DEF SteadyIInv
<1>3. ~ReconnectSwap(c) /\ ~ReconnectCatch(c)
  BY <1>1 DEF ReconnectSwap, ReconnectCatch, InitThrew, At
<1>4. QED
  BY <1>2, <1>3, StartReserveKept, StartLaunchKept, LaunchEngineKept, LaunchFailsKept,
     InitTimeoutKept, TimeoutReapedKept, StartCatchKept, StartReapedKept, InitReturnedKept,
     RetireKept, RetiredKept, LeaveKept, MarkKept, StoppedKept, DeleteEvictedKept,
     DeleteRowKept, DeleteFinallyKept DEF CallStep

\* What an event may do to the session s and to the adapter e, while e stays where
\* it is: the row and the adapter move together, and a failure has its reason.
EventOf(e, s) ==
  /\ \A r \in Sessions : engines'[r] = engines[r]
  /\ \A d \in Engines \ {e} : engine'[d] = engine[d]
  /\ engine'[e].owner = s
  /\ engine[e].init = "none" =>
       engine'[e].init = "none" /\ (engine[e].client = "none" => engine'[e].client = "none")
  /\ engine'[e].init = "ok" => engine'[e].client # "none"
  /\ engine[e].client # "none" => engine'[e].client # "none"
  /\ engine[e].client \in {"closing", "gone"} => engine'[e].client \in {"closing", "gone"}
  /\ status[s] = "deleted" => status'[s] = "deleted"
  /\ \/ /\ status'[s] = status[s] /\ lastError'[s] = lastError[s]
        /\ engines[s] = e => /\ engine'[e].st = engine[e].st
                             /\ engine'[e].client \in {"closing", "gone"} =>
                                  engine[e].client \in {"closing", "gone"}
     \/ /\ engines[s] = e
        /\ engine'[e].client \in {"closing", "gone"} => engine'[e].st \notin Coming
        /\ \/ status'[s] = "deleted"
           \/ status'[s] = engine'[e].st /\ status'[s] # "failed"
           \/ status'[s] = "failed" /\ engine'[e].st = "disconnected" /\ lastError'[s]
  /\ \A r \in Sessions \ {s} : status'[r] = status[r] /\ lastError'[r] = lastError[r]
  /\ UNCHANGED <<call, process, crashes>>

\* Such an event leaves the session of e coherent and the others alone.
LEMMA EventKept ==
  ASSUME SteadyIInv, NEW e \in Engines, NEW s, engine[e].owner = s, EventOf(e, s)
  PROVE  Elsewhere(s) /\ (s \in Sessions => SessionKept(s)')
<1>1. Elsewhere(s)
  BY DEF Elsewhere, EventOf
<1>2. SUFFICES ASSUME s \in Sessions PROVE SessionKept(s)'
  BY <1>1
<1>3. TypeOK /\ SessionKept(s)
  BY <1>2 DEF SteadyIInv, SteadyInv
<1>4. AdapterKept(s) /\ RowKept(s) /\ engines'[s] = engines[s]
  BY <1>2, <1>3 DEF SessionKept, EventOf
<1>5. engines[s] # None /\ engines[s] # e => engine'[engines[s]] = engine[engines[s]]
  BY <1>2, <1>3 DEF EventOf, TypeOK
<1>6. \A kind, pcs : SomeAt(kind, s, pcs)' <=> SomeAt(kind, s, pcs)
  BY DEF SomeAt, EventOf
<1>7. CASE engines[s] # e
  <2>1. status'[s] = status[s] /\ lastError'[s] = lastError[s]
    BY <1>7 DEF EventOf
  <2>2. AdapterKept(s)' /\ RowKept(s)'
    BY <1>4, <1>5, <1>6, <1>7, <2>1 DEF AdapterKept, RowKept
  <2>3. ASSUME ~DbFails PROVE ComingKept(s)' /\ ReasonKept(s)'
    BY <1>3, <1>4, <1>6, <2>1, <2>3 DEF SessionKept, ComingKept, ReasonKept, EventOf
  <2>4. ASSUME NEW d \in Calls, Reserves(call'[d], s) PROVE StartKept(d, s)'
    <3>1. call'[d] = call[d] /\ StartKept(d, s)
      BY <1>3, <2>4 DEF SessionKept, EventOf
    <3>2. call[d].pc \in {"launch", "init", "timeout", "threw"} =>
            call'[d].e \in Engines /\ engine'[call'[d].e].owner = s
      BY <3>1 DEF StartKept, EventOf
    <3>3. call[d].pc = "launch" =>
            engine'[call'[d].e].client = "none" /\ engine'[call'[d].e].init = "none"
      BY <3>1 DEF StartKept, EventOf
    <3>4. QED
      BY <1>4, <1>5, <1>7, <2>1, <3>1, <3>2, <3>3 DEF StartKept
  <2>5. QED
    BY <2>2, <2>3, <2>4 DEF SessionKept
<1>8. CASE engines[s] = e
  <2>1. e # None
    BY NoneIsNoEngine
  <2>2. AdapterKept(s)'
    BY <1>4, <1>8 DEF AdapterKept, EventOf
  <2>3. RowKept(s)'
    BY <1>4, <1>6, <1>8, <2>1 DEF RowKept, EventOf
  <2>4. ASSUME ~DbFails PROVE ComingKept(s)' /\ ReasonKept(s)'
    <3>1. ReasonKept(s)
      BY <1>3, <2>4 DEF SessionKept
    <3>2. status'[s] = "failed" /\ crashes' = 0 => lastError'[s]
      BY <3>1 DEF ReasonKept, EventOf
    <3>3. SomeAt("delete", s, {"purge"})' => status'[s] = "deleted"
      BY <1>6, <3>1 DEF ReasonKept, EventOf
    <3>4. QED
      BY <1>4, <1>8, <2>1, <3>2, <3>3 DEF ComingKept, ReasonKept
  <2>5. ASSUME NEW d \in Calls, Reserves(call'[d], s) PROVE StartKept(d, s)'
    <3>1. call'[d] = call[d] /\ StartKept(d, s)
      BY <1>3, <2>5 DEF SessionKept, EventOf
    <3>2. call[d].pc # "leave" => call[d].e = e
      BY <1>8, <2>1, <3>1 DEF StartKept
    <3>3. QED
      BY <1>4, <1>8, <2>1, <3>1, <3>2 DEF StartKept, EventOf
  <2>6. QED
    BY <2>2, <2>3, <2>4, <2>5 DEF SessionKept
<1>9. QED
  BY <1>7, <1>8

\* A terminal failure of the registered engine e of s.
LEMMA FailKept ==
  ASSUME SteadyIInv, NEW e \in Engines, NEW s \in Sessions, engine[e].owner = s, engines[s] = e,
         Fail(e), UNCHANGED <<call, process, crashes>>,
         engine[e].init # "none" \/ engine[e].client # "none",
         \A d \in Engines \ {e} : engine'[d] = engine[d], engine'[e].owner = s
  PROVE  Elsewhere(s) /\ SessionKept(s)'
<1>1. TypeOK /\ SessionKept(s) /\ e # None
  BY NoneIsNoEngine DEF SteadyIInv, SteadyInv
<1>2. /\ status[s] = "deleted" => status'[s] = "deleted"
      /\ status[s] # "deleted" => status'[s] = "failed"
      /\ \A r \in Sessions \ {s} : status'[r] = status[r]
  BY <1>1, SetStatusAt DEF Fail
<1>3. /\ lastError'[s] /\ engines'[s] = None
      /\ \A r \in Sessions \ {s} : lastError'[r] = lastError[r] /\ engines'[r] = engines[r]
  BY <1>1 DEF Fail, TypeOK
<1>4. Elsewhere(s)
  BY <1>2, <1>3 DEF Elsewhere
<1>5. AdapterKept(s)' /\ RowKept(s)'
  BY <1>3 DEF AdapterKept, RowKept
<1>6. ASSUME ~DbFails PROVE ComingKept(s)' /\ ReasonKept(s)'
  <2>1. \A kind, pcs : SomeAt(kind, s, pcs)' <=> SomeAt(kind, s, pcs)
    BY DEF SomeAt
  <2>2. QED
    BY <1>1, <1>2, <1>3, <1>6, <2>1 DEF SessionKept, ComingKept, ReasonKept, Coming
<1>7. ASSUME NEW d \in Calls, Reserves(call'[d], s) PROVE StartKept(d, s)'
  <2>1. call'[d] = call[d] /\ StartKept(d, s)
    BY <1>1, <1>7 DEF SessionKept
  <2>2. call[d].pc # "launch"
    BY <1>1, <2>1 DEF StartKept
  <2>3. QED
    BY <1>3, <2>1, <2>2 DEF StartKept
<1>8. QED
  BY <1>4, <1>5, <1>6, <1>7 DEF SessionKept

\* With no attempts to spend, scheduleReconnect() gives up at once, or does nothing.
LEMMA NoAttempts ==
  ASSUME MaxAttempts = 0, TypeOK, NEW s \in Sessions, ScheduleReconnect(s, "disconnected")
  PROVE  /\ UNCHANGED reconnect
         /\ status[s] = "deleted" => status'[s] = "deleted"
         /\ \/ status'[s] \in {"deleted", "disconnected"}
            \/ status'[s] = "failed" /\ lastError'[s]
         /\ \A r \in Sessions \ {s} : status'[r] = status[r] /\ lastError'[r] = lastError[r]
<1>1. MayReconnect(s) => Exhausted(reconnect[s])
  BY DEF MayReconnect, Exhausted, TypeOK, ReconnectState
<1>2. CASE ~MayReconnect(s)
  <2>1. status' = SetStatus(s, "disconnected") /\ UNCHANGED <<reconnect, lastError>>
    BY <1>2 DEF ScheduleReconnect
  <2>2. QED
    BY <2>1, SetStatusAt
<1>3. CASE MayReconnect(s)
  <2>1. /\ status' = SetStatus(s, "failed") /\ UNCHANGED reconnect
        /\ lastError' = [lastError EXCEPT ![s] = TRUE]
    BY <1>1, <1>3 DEF ScheduleReconnect
  <2>2. lastError'[s] /\ \A r \in Sessions \ {s} : lastError'[r] = lastError[r]
    BY <2>1 DEF TypeOK
  <2>3. QED
    BY <2>1, <2>2, SetStatusAt
<1>4. QED
  BY <1>2, <1>3

\* An event that is not terminal.
LEMMA EventStep ==
  ASSUME MaxAttempts = 0, SteadyIInv, NEW e \in Engines, EngineStep(e),
         ~AuthFailure(e), ~(InitFails(e) /\ Live(e))
  PROVE  EventOf(e, engine[e].owner)
<1> DEFINE s == engine[e].owner
<1>0. TypeOK /\ engine[e] \in EngineState
  BY DEF SteadyIInv, TypeOK
<1>1. UNCHANGED <<call, process, crashes>>
  BY DEF EngineStep
<1>2. Live(e) => s \in Sessions /\ engines[s] = e
  BY <1>0 DEF Live, EngineState
<1>3. s \in Sessions /\ engines[s] = e => AdapterKept(s) /\ e # None
  BY NoneIsNoEngine DEF SteadyIInv, SteadyInv, SessionKept
<1>4. CASE ClientBuilt(e)
  <2>1. /\ engine'[e] = [engine[e] EXCEPT !.client = "open"]
        /\ \A d \in Engines \ {e} : engine'[d] = engine[d]
        /\ UNCHANGED <<status, engines, lastError>> /\ engine[e].init = "pending"
        /\ engine[e].client = "none"
    BY <1>0, <1>4 DEF ClientBuilt, maps, TypeOK
  <2>2. /\ engine'[e].owner = s /\ engine'[e].client = "open" /\ engine'[e].st = engine[e].st
        /\ engine'[e].init = engine[e].init
    BY <1>0, <2>1 DEF EngineState
  <2>3. QED
    BY <1>1, <2>1, <2>2 DEF EventOf
<1>5. CASE InitOk(e)
  <2>1. /\ engine'[e] = [engine[e] EXCEPT !.init = "ok"]
        /\ \A d \in Engines \ {e} : engine'[d] = engine[d]
        /\ UNCHANGED <<status, engines, lastError>> /\ engine[e].init = "pending"
        /\ engine[e].client # "none"
    BY <1>0, <1>5 DEF InitOk, maps, TypeOK
  <2>2. /\ engine'[e].owner = s /\ engine'[e].client = engine[e].client
        /\ engine'[e].st = engine[e].st /\ engine'[e].init = "ok"
    BY <1>0, <2>1 DEF EngineState
  <2>3. QED
    BY <1>1, <2>1, <2>2 DEF EventOf
<1>6. CASE InitFails(e)
  <2>1. /\ engine'[e] = [engine[e] EXCEPT !.init = "err"]
        /\ \A d \in Engines \ {e} : engine'[d] = engine[d]
        /\ UNCHANGED <<status, engines, lastError>> /\ engine[e].init = "pending"
    BY <1>0, <1>6 DEF InitFails, TypeOK
  <2>2. /\ engine'[e].owner = s /\ engine'[e].client = engine[e].client
        /\ engine'[e].st = engine[e].st /\ engine'[e].init = "err"
    BY <1>0, <2>1 DEF EngineState
  <2>3. QED
    BY <1>1, <2>1, <2>2 DEF EventOf
<1>7. CASE QrArrives(e)
  <2>1. /\ engine'[e] = [engine[e] EXCEPT !.qr = TRUE]
        /\ \A d \in Engines \ {e} : engine'[d] = engine[d]
        /\ UNCHANGED <<status, engines, lastError>>
    BY <1>0, <1>7 DEF QrArrives, maps, TypeOK
  <2>2. /\ engine'[e].owner = s /\ engine'[e].client = engine[e].client
        /\ engine'[e].st = engine[e].st /\ engine'[e].init = engine[e].init
        /\ engine[e].client = "open"
    BY <1>0, <1>7, <2>1 DEF EngineState, QrArrives
  <2>3. QED
    BY <1>1, <2>1, <2>2 DEF EventOf
<1>8. CASE QrRendered(e)
  <2>1. /\ engine'[e] = [engine[e] EXCEPT !.qr = FALSE, !.st = "qr_ready"]
        /\ \A d \in Engines \ {e} : engine'[d] = engine[d]
        /\ UNCHANGED <<engines, lastError>> /\ status' = SetStatus(s, "qr_ready")
    BY <1>0, <1>8 DEF QrRendered, Report, maps, TypeOK
  <2>2. /\ engine'[e].owner = s /\ engine'[e].client = engine[e].client
        /\ engine'[e].st = "qr_ready" /\ engine'[e].init = engine[e].init
    BY <1>0, <2>1 DEF EngineState
  <2>3. s \in Sessions /\ engines[s] = e
    BY <1>2, <1>8 DEF QrRendered
  <2>4. /\ status[s] = "deleted" => status'[s] = "deleted"
        /\ status[s] # "deleted" => status'[s] = "qr_ready"
        /\ \A r \in Sessions \ {s} : status'[r] = status[r]
    BY <1>0, <2>1, <2>3, SetStatusAt
  <2>5. AdapterKept(s) /\ e # None
    BY <1>3, <2>3
  <2>6. QED
    BY <1>1, <2>1, <2>2, <2>3, <2>4, <2>5 DEF EventOf, AdapterKept, Coming
<1>9. CASE Authenticated(e)
  <2>1. /\ engine'[e] = [engine[e] EXCEPT !.st = "authenticating"]
        /\ \A d \in Engines \ {e} : engine'[d] = engine[d]
        /\ UNCHANGED <<engines, lastError>> /\ status' = SetStatus(s, "authenticating")
        /\ engine[e].client = "open"
    BY <1>0, <1>9 DEF Authenticated, Report, maps, TypeOK
  <2>2. /\ engine'[e].owner = s /\ engine'[e].client = "open"
        /\ engine'[e].st = "authenticating" /\ engine'[e].init = engine[e].init
    BY <1>0, <2>1 DEF EngineState
  <2>3. s \in Sessions /\ engines[s] = e
    BY <1>2, <1>9 DEF Authenticated, Hears
  <2>4. /\ status[s] = "deleted" => status'[s] = "deleted"
        /\ status[s] # "deleted" => status'[s] = "authenticating"
        /\ \A r \in Sessions \ {s} : status'[r] = status[r]
    BY <1>0, <2>1, <2>3, SetStatusAt
  <2>5. QED
    BY <1>1, <2>1, <2>2, <2>3, <2>4 DEF EventOf
<1>10. CASE Ready(e)
  <2>1. /\ engine'[e] = [engine[e] EXCEPT !.st = "ready"]
        /\ \A d \in Engines \ {e} : engine'[d] = engine[d]
        /\ UNCHANGED engines /\ status' = SetStatus(s, "ready")
        /\ lastError' = [lastError EXCEPT ![s] = FALSE]
        /\ engine[e].client \in {"open", "closing"}
    BY <1>0, <1>10 DEF Ready, Hears, Report, TypeOK
  <2>2. /\ engine'[e].owner = s /\ engine'[e].client = engine[e].client
        /\ engine'[e].st = "ready" /\ engine'[e].init = engine[e].init
    BY <1>0, <2>1 DEF EngineState
  <2>3. s \in Sessions /\ engines[s] = e
    BY <1>2, <1>10 DEF Ready, Hears
  <2>4. /\ status[s] = "deleted" => status'[s] = "deleted"
        /\ status[s] # "deleted" => status'[s] = "ready"
        /\ \A r \in Sessions \ {s} : status'[r] = status[r]
    BY <1>0, <2>1, <2>3, SetStatusAt
  <2>5. \A r \in Sessions \ {s} : lastError'[r] = lastError[r]
    BY <1>0, <2>1, <2>3 DEF TypeOK
  <2>6. QED
    BY <1>1, <2>1, <2>2, <2>3, <2>4, <2>5 DEF EventOf, Coming
<1>11. CASE Disconnected(e) \/ StuckAuth(e)
  <2>1. PICK v : /\ engine'[e] = [engine[e] EXCEPT !.st = "disconnected", !.client = v]
                 /\ \A d \in Engines \ {e} : engine'[d] = engine[d]
                 /\ UNCHANGED engines /\ ScheduleReconnect(s, "disconnected")
                 /\ engine[e].client \in {"open", "closing"}
                 /\ v = engine[e].client \/ v = "gone"
    BY <1>0, <1>11 DEF Disconnected, StuckAuth, Hears, Drop, TypeOK
  <2>2. /\ engine'[e].owner = s /\ engine'[e].client = v
        /\ engine'[e].st = "disconnected" /\ engine'[e].init = engine[e].init
    BY <1>0, <2>1 DEF EngineState
  <2>3. s \in Sessions /\ engines[s] = e
    BY <1>2, <1>11 DEF Disconnected, StuckAuth, Hears
  <2>4. /\ status[s] = "deleted" => status'[s] = "deleted"
        /\ \/ status'[s] \in {"deleted", "disconnected"}
           \/ status'[s] = "failed" /\ lastError'[s]
        /\ \A r \in Sessions \ {s} : status'[r] = status[r] /\ lastError'[r] = lastError[r]
    BY <1>0, <2>1, <2>3, NoAttempts
  <2>5. v \in {"open", "closing", "gone"}
    BY <2>1
  <2>6. engine[e].client \in {"closing", "gone"} => v \in {"closing", "gone"}
    BY <2>1
  <2>7. QED
    BY <1>1, <2>1, <2>2, <2>3, <2>4, <2>5, <2>6 DEF EventOf, Coming
<1>12. CASE ClientGone(e)
  <2>1. /\ engine'[e] = [engine[e] EXCEPT !.client = "gone"]
        /\ \A d \in Engines \ {e} : engine'[d] = engine[d]
        /\ UNCHANGED <<status, engines, lastError>> /\ engine[e].client = "closing"
    BY <1>0, <1>12 DEF ClientGone, maps, TypeOK
  <2>2. /\ engine'[e].owner = s /\ engine'[e].client = "gone"
        /\ engine'[e].st = engine[e].st /\ engine'[e].init = engine[e].init
    BY <1>0, <2>1 DEF EngineState
  <2>3. QED
    BY <1>1, <2>1, <2>2 DEF EventOf
<1>13. QED
  BY <1>4, <1>5, <1>6, <1>7, <1>8, <1>9, <1>10, <1>11, <1>12 DEF EngineStep

\* No event disturbs the session of its engine or touches another.
LEMMA EngineStepKept ==
  ASSUME MaxAttempts = 0, SteadyIInv, NEW e \in Engines, EngineStep(e)
  PROVE  \E s : Elsewhere(s) /\ (s \in Sessions => SessionKept(s)')
<1>1. PICK s : s = engine[e].owner
  OBVIOUS
<1>2. TypeOK /\ engine[e] \in EngineState
  BY DEF SteadyIInv, TypeOK
<1>3. CASE AuthFailure(e) \/ (InitFails(e) /\ Live(e))
  <2>1. s \in Sessions /\ engines[s] = e
    BY <1>1, <1>2, <1>3 DEF AuthFailure, Hears, Live, EngineState
  <2>2. Fail(e) /\ UNCHANGED <<call, process, crashes>>
    BY <1>3 DEF AuthFailure, InitFails, EngineStep
  <2>3. engine[e].init # "none" \/ engine[e].client # "none"
    BY <1>3 DEF AuthFailure, InitFails, Hears
  <2>4. PICK r : /\ r \in EngineState /\ r.owner = s
                 /\ engine'[e] = Torn(Silent(r))
                 /\ \A d \in Engines \ {e} : engine'[d] = engine[d]
    <3>1. [engine[e] EXCEPT !.init = "err"] \in EngineState
      BY <1>2 DEF EngineState
    <3>2. [engine[e] EXCEPT !.init = "err"].owner = s
      BY <1>1, <1>2 DEF EngineState
    <3>3. CASE AuthFailure(e)
      BY <1>1, <1>2, <3>3 DEF AuthFailure, TypeOK
    <3>4. CASE InitFails(e) /\ Live(e)
      BY <1>2, <3>1, <3>2, <3>4 DEF InitFails, TypeOK
    <3>5. QED
      BY <1>3, <3>3, <3>4
  <2>5. engine'[e].owner = s
    BY <2>4, SilentType, SilentFields, TornFields
  <2>6. QED
    BY <1>1, <2>1, <2>2, <2>3, <2>4, <2>5, FailKept
<1>4. CASE ~AuthFailure(e) /\ ~(InitFails(e) /\ Live(e))
  BY <1>1, <1>4, EventStep, EventKept
<1>5. QED
  BY <1>3, <1>4

\* A segment keeps the kind of its call, or ends it.
LEMMA KindStays ==
  ASSUME TypeOK, NEW c \in Calls, CallStep(c)
  PROVE  /\ call[c] # None /\ process' = process
         /\ \A d \in Calls \ {c} : call'[d] = call[d]
         /\ call'[c] = None \/ call'[c].kind = call[c].kind
<1> USE DEF At
<1>1. call[c] # None
  BY DEF CallStep, StartReserve, StartLaunch, LaunchEngine, LaunchFails, InitTimeout,
         TimeoutReaped, StartCatch, InitThrew, StartReaped, InitReturned, Retire, Retired,
         Leave, ReconnectSwap, ReconnectCatch, Mark, Stopped, DeleteEvicted, DeleteRow,
         DeleteFinally
<1>2. process' = process
  BY DEF CallStep, StartReserve, StartLaunch, LaunchEngine, LaunchFails, InitTimeout,
         TimeoutReaped, StartCatch, InitThrew, StartReaped, InitReturned, Retire, Retired,
         Leave, ReconnectSwap, ReconnectCatch, Mark, Stopped, DeleteEvicted, DeleteRow,
         DeleteFinally
<1>3. CASE CreateEngine(c, call[c].s)
  <2>1. PICK e \in Engines :
          call' = [call EXCEPT ![c] =
                    [kind |-> IF call[c] = None THEN "reconnect" ELSE call[c].kind,
                     s |-> call[c].s, pc |-> "launch", e |-> e]]
    BY <1>3 DEF CreateEngine
  <2>2. QED
    BY <1>1, <1>2, <2>1 DEF TypeOK
<1>4. CASE Return(c)
  BY <1>1, <1>2, <1>4, ReturnMoves
<1>5. ASSUME NEW pc, NEW e, Go(c, pc, e)
      PROVE  /\ \A d \in Calls \ {c} : call'[d] = call[d]
             /\ call'[c].kind = call[c].kind
  <2>1. /\ call'[c] = [call[c] EXCEPT !.pc = pc, !.e = e]
        /\ \A d \in Calls \ {c} : call'[d] = call[d]
    BY <1>5 DEF Go, TypeOK
  <2>2. call[c] \in CallState
    BY <1>1, InFlight
  <2>3. QED
    BY <2>1, <2>2 DEF CallState
<1>6. \/ CreateEngine(c, call[c].s)
      \/ Return(c)
      \/ \E pc, e : Go(c, pc, e)
  <2>1. CASE StartReserve(c)
    BY <2>1 DEF StartReserve
  <2>2. CASE StartLaunch(c) \/ ReconnectSwap(c)
    BY <2>2 DEF StartLaunch, ReconnectSwap
  <2>3. CASE LaunchEngine(c) \/ LaunchFails(c) \/ InitTimeout(c) \/ TimeoutReaped(c)
    BY <2>3 DEF LaunchEngine, LaunchFails, InitTimeout, TimeoutReaped
  <2>4. CASE StartCatch(c) \/ StartReaped(c) \/ InitReturned(c)
    BY <2>4 DEF StartCatch, StartReaped, InitReturned
  <2>5. CASE Retire(c) \/ Retired(c) \/ Leave(c) \/ ReconnectCatch(c)
    BY <2>5 DEF Retire, Retired, Leave, ReconnectCatch
  <2>6. CASE Mark(c)
    BY <2>6 DEF Mark
  <2>7. CASE Stopped(c) \/ DeleteEvicted(c) \/ DeleteRow(c) \/ DeleteFinally(c)
    BY <2>7 DEF Stopped, DeleteEvicted, DeleteRow, DeleteFinally
  <2>8. QED
    BY <2>1, <2>2, <2>3, <2>4, <2>5, <2>6, <2>7 DEF CallStep
<1>7. QED
  BY <1>1, <1>2, <1>3, <1>4, <1>5, <1>6

\* With no attempts to spend no timer is ever armed: not by a call,
LEMMA CallArmsNone ==
  ASSUME SteadyIInv, NEW c \in Calls, CallStep(c)
  PROVE  NoReconnects'
<1>1. /\ TypeOK /\ NoReconnects /\ call[c] # None
      /\ \A d \in Calls \ {c} : call'[d] = call[d]
      /\ call'[c] = None \/ call'[c].kind = call[c].kind
  BY KindStays DEF SteadyIInv, SteadyInv
<1>2. call[c].s \in Sessions /\ ~ReconnectCatch(c) /\ ~ReconnectSwap(c)
  BY <1>1, InFlight DEF NoReconnects, ReconnectCatch, ReconnectSwap, InitThrew, At
<1>3. \/ UNCHANGED reconnect
      \/ reconnect' = [reconnect EXCEPT ![call[c].s] = None]
      \/ reconnect' = [reconnect EXCEPT ![call[c].s] = [attempts |-> 0, armed |-> FALSE]]
  BY <1>2 DEF CallStep, StartReserve, StartLaunch, LaunchEngine, LaunchFails, InitTimeout,
         TimeoutReaped, StartCatch, StartReaped, InitReturned, Retire, Retired,
         Leave, Mark, Stopped, DeleteEvicted, DeleteRow, DeleteFinally, maps
<1>4. \A s \in Sessions : reconnect'[s] # None => ~reconnect'[s].armed
  <2>1. [attempts |-> 0, armed |-> FALSE].armed = FALSE
    OBVIOUS
  <2>2. QED
    BY <1>1, <1>2, <1>3, <2>1 DEF NoReconnects, TypeOK
<1>5. QED
  BY <1>1, <1>4 DEF NoReconnects

\* and not by an event.
LEMMA EventArmsNone ==
  ASSUME MaxAttempts = 0, SteadyIInv, NEW e \in Engines, EngineStep(e)
  PROVE  NoReconnects'
<1> DEFINE s == engine[e].owner
<1>1. TypeOK /\ NoReconnects /\ UNCHANGED call
  BY DEF SteadyIInv, SteadyInv, EngineStep
<1>2. Live(e) => s \in Sessions
  BY <1>1 DEF Live, TypeOK, EngineState
<1>3. \/ UNCHANGED reconnect
      \/ s \in Sessions /\ reconnect' = [reconnect EXCEPT ![s] = None]
      \/ /\ s \in Sessions /\ reconnect[s] # None
         /\ reconnect' = [reconnect EXCEPT ![s].attempts = 0]
  <2>1. CASE ClientBuilt(e) \/ InitOk(e) \/ QrArrives(e) \/ QrRendered(e)
             \/ Authenticated(e) \/ ClientGone(e)
    BY <2>1 DEF ClientBuilt, InitOk, QrArrives, QrRendered, Authenticated, ClientGone, maps
  <2>2. CASE InitFails(e) \/ AuthFailure(e)
    BY <1>2, <2>2 DEF InitFails, AuthFailure, Hears, Fail
  <2>3. CASE Ready(e)
    BY <1>2, <2>3 DEF Ready, Hears
  <2>4. CASE Disconnected(e) \/ StuckAuth(e)
    BY <1>1, <1>2, <2>4, NoAttempts DEF Disconnected, StuckAuth, Hears, Drop
  <2>5. QED
    BY <2>1, <2>2, <2>3, <2>4 DEF EngineStep
<1>4. \A r \in Sessions : reconnect'[r] # None => ~reconnect'[r].armed
  <2>1. reconnect[s] # None /\ s \in Sessions =>
          [reconnect[s] EXCEPT !.attempts = 0].armed = reconnect[s].armed
    BY <1>1 DEF TypeOK, ReconnectState
  <2>2. QED
    BY <1>1, <1>3, <2>1 DEF NoReconnects, TypeOK
<1>5. QED
  BY <1>1, <1>4 DEF NoReconnects

\* The teardown of a stopping process keeps every session coherent.
LEMMA ModuleDestroyKept ==
  ASSUME SteadyIInv, NEW s \in Sessions, ModuleDestroy
  PROVE  SessionKept(s)'
<1>1. TypeOK /\ SessionKept(s) /\ AdapterKept(s) /\ RowKept(s)
  BY DEF SteadyIInv, SteadyInv, SessionKept
<1>2. UNCHANGED <<engines, lastError, call, crashes>> /\ process' = "destroying" /\ process = "draining"
  BY DEF ModuleDestroy
<1>3. \A d \in Engines : engine[d] \in EngineState
                         /\ (engine'[d] = engine[d] \/ engine'[d] = Torn(engine[d]))
  BY <1>1 DEF ModuleDestroy, TypeOK
<1>4. \A kind, pcs : SomeAt(kind, s, pcs)' <=> SomeAt(kind, s, pcs)
  BY <1>2 DEF SomeAt
<1>5. \A d \in Engines : /\ engine'[d].owner = engine[d].owner /\ engine'[d].init = engine[d].init
                         /\ engine[d].client = "none" => engine'[d].client = "none"
  BY <1>3, TornFields
<1>6. CASE engines[s] # None
  <2>1. /\ engines[s] \in Engines /\ engine[engines[s]] \in EngineState
        /\ engine'[engines[s]] = Torn(engine[engines[s]])
    <3>1. engines[s] \in Engines /\ engine[engines[s]].owner = s
      BY <1>1, <1>6 DEF AdapterKept, TypeOK
    <3>2. Live(engines[s])
      BY <3>1, NoneIsNoEngine DEF Live
    <3>3. QED
      BY <1>1, <3>1, <3>2 DEF ModuleDestroy, TypeOK
  <2>2. status'[s] = IF engine'[engines[s]].st # engine[engines[s]].st
                       THEN SetStatus(s, "disconnected")[s] ELSE status[s]
    BY <1>6 DEF ModuleDestroy
  <2>3. SetStatus(s, "disconnected")[s] = IF status[s] = "deleted" THEN "deleted" ELSE "disconnected"
    BY <1>1 DEF SetStatus, TypeOK
  <2>4. TornDown(s)
    <3>1. /\ engine'[engines[s]].owner = engine[engines[s]].owner
          /\ engine'[engines[s]].init = engine[engines[s]].init
          /\ engine[engines[s]].client \in {"open", "closing"} =>
               engine'[engines[s]].client = "closing" /\ engine'[engines[s]].st = "disconnected"
          /\ engine[engines[s]].client \notin {"open", "closing"} =>
               engine'[engines[s]] = engine[engines[s]]
      BY <2>1, TornFields
    <3>2. QED
      BY <1>2, <1>6, <2>2, <2>3, <3>1 DEF TornDown
  <2>5. /\ AdapterKept(s)' /\ RowKept(s)'
        /\ status'[s] = "failed" => status[s] = "failed"
    BY <1>1, <1>4, <2>4, TornDownKept
  <2>6. ASSUME ~DbFails PROVE ComingKept(s)' /\ ReasonKept(s)'
    BY <1>1, <1>2, <1>4, <1>6, <2>4, <2>5, <2>6 DEF SessionKept, ComingKept, ReasonKept, TornDown
  <2>7. ASSUME NEW c \in Calls, Reserves(call'[c], s) PROVE StartKept(c, s)'
    <3>1. call'[c] = call[c] /\ StartKept(c, s)
      BY <1>1, <1>2, <2>7 DEF SessionKept
    <3>2. call[c].pc # "leave" => call[c].e = engines[s]
      BY <1>6, <3>1 DEF StartKept
    <3>3. QED
      BY <1>2, <1>6, <2>4, <3>1, <3>2 DEF StartKept, TornDown
  <2>8. QED
    BY <2>5, <2>6, <2>7 DEF SessionKept
<1>7. CASE engines[s] = None
  <2>1. status'[s] = status[s]
    BY <1>7 DEF ModuleDestroy
  <2>2. AdapterKept(s)' /\ RowKept(s)'
    BY <1>2, <1>7 DEF AdapterKept, RowKept
  <2>3. ASSUME ~DbFails PROVE ComingKept(s)' /\ ReasonKept(s)'
    BY <1>1, <1>2, <1>4, <2>1, <2>3 DEF SessionKept, ComingKept, ReasonKept
  <2>4. ASSUME NEW c \in Calls, Reserves(call'[c], s) PROVE StartKept(c, s)'
    <3>1. call'[c] = call[c] /\ StartKept(c, s)
      BY <1>1, <1>2, <2>4 DEF SessionKept
    <3>2. QED
      BY <1>2, <1>5, <1>7, <2>1, <3>1 DEF StartKept
  <2>5. QED
    BY <2>2, <2>3, <2>4 DEF SessionKept
<1>8. QED
  BY <1>6, <1>7

\* An exit leaves no session an engine or a call.
LEMMA ExitKept ==
  ASSUME SteadyIInv, NEW s \in Sessions, Exit
  PROVE  SessionKept(s)'
<1>1. /\ \A c \in Calls : call'[c] = None
      /\ engines'[s] = None /\ process' = "down"
  BY DEF Exit
<1>2. crashes' # 0
  <2>1. crashes \in 0 .. MaxCrashes
    BY DEF SteadyIInv, TypeOK
  <2>2. crashes' = crashes + 1
    BY DEF Exit
  <2>3. QED
    BY <2>1, <2>2, SessionAssumption
<1>3. \A kind, pcs : ~SomeAt(kind, s, pcs)'
  BY <1>1 DEF SomeAt
<1>4. QED
  BY <1>1, <1>2, <1>3 DEF SessionKept, AdapterKept, RowKept, ComingKept, ReasonKept, Reserves

\* A boot writes the rows that claimed an engine.
LEMMA BootKept ==
  ASSUME SteadyIInv, NEW s \in Sessions, Boot
  PROVE  SessionKept(s)'
<1>1. /\ UNCHANGED <<engines, call, crashes>>
      /\ status'[s] \notin Coming
      /\ crashes > 0 /\ engines[s] = None /\ \A c \in Calls : call[c] = None
  BY DEF Boot, SteadyIInv, SteadyInv, DownIsEmpty, ActiveStatus, Coming, maps
<1>2. \A kind, pcs : ~SomeAt(kind, s, pcs)'
  BY <1>1 DEF SomeAt
<1>3. crashes' # 0
  BY <1>1 DEF SteadyIInv, TypeOK
<1>4. QED
  BY <1>1, <1>2, <1>3 DEF SessionKept, AdapterKept, RowKept, ComingKept, ReasonKept, Reserves

\* A process that is down stays empty until it boots.
LEMMA DownStep ==
  ASSUME MaxAttempts = 0, SteadyIInv, [Next]_vars
  PROVE  DownIsEmpty'
<1>1. TypeOK /\ NoReconnects /\ DownIsEmpty
  BY DEF SteadyIInv, SteadyInv
<1>2. ASSUME NEW c \in Calls, CallStep(c)
      PROVE  process' # "down"
  BY <1>1, <1>2, KindStays DEF DownIsEmpty
<1>3. ASSUME NEW e \in Engines, EngineStep(e), process' = "down"
      PROVE  DownIsEmpty'
  <2>1. UNCHANGED <<call, process, crashes>>
    BY <1>3 DEF EngineStep
  <2>2. ~Live(e)
    BY <1>1, <1>3, <2>1, NoneIsNoEngine DEF DownIsEmpty, Live, TypeOK, EngineState
  <2>3. EventOf(e, engine[e].owner)
    BY <1>3, <2>2, EventStep DEF AuthFailure, Hears
  <2>4. QED
    BY <1>1, <1>3, <2>1, <2>3 DEF DownIsEmpty, EventOf
<1>4. ASSUME NEW c \in Calls, NEW s \in Sessions, ReconnectFire(c, s)
      PROVE  FALSE
  BY <1>1, <1>4 DEF ReconnectFire, NoReconnects
<1>5. CASE Exit
  <2>1. crashes \in 0 .. MaxCrashes
    BY <1>1 DEF TypeOK
  <2>2. crashes' = crashes + 1
    BY <1>5 DEF Exit
  <2>3. crashes' > 0
    BY <2>1, <2>2, SessionAssumption
  <2>4. QED
    BY <1>5, <2>3 DEF Exit, DownIsEmpty
<1>6. ASSUME NEW c \in Calls, NEW k \in Kinds, NEW s \in Sessions, Request(c, k, s)
      PROVE  process' # "down"
  BY <1>6 DEF Request
<1>7. CASE Drain \/ ModuleDestroy \/ Boot
  BY <1>7 DEF Drain, ModuleDestroy, Boot, DownIsEmpty
<1>8. CASE UNCHANGED vars
  BY <1>1, <1>8 DEF vars, maps, DownIsEmpty
<1>9. QED
  BY <1>2, <1>3, <1>4, <1>5, <1>6, <1>7, <1>8 DEF Next, DownIsEmpty

\* Every step keeps timers and reconnects away.
LEMMA QuietStep ==
  ASSUME MaxAttempts = 0, SteadyIInv, [Next]_vars
  PROVE  NoReconnects'
<1>1. TypeOK /\ NoReconnects
  BY DEF SteadyIInv, SteadyInv
<1>2. ASSUME NEW c \in Calls, NEW s \in Sessions, ReconnectFire(c, s)
      PROVE  FALSE
  BY <1>1, <1>2 DEF ReconnectFire, NoReconnects
<1>3. ASSUME NEW c \in Calls, NEW k \in Kinds \ {"reconnect"}, NEW s \in Sessions,
             Request(c, k, s)
      PROVE  NoReconnects'
  <2>1. /\ UNCHANGED reconnect /\ call'[c].kind = k
        /\ \A d \in Calls \ {c} : call'[d] = call[d]
    BY <1>1, <1>3 DEF Request, maps, TypeOK
  <2>2. QED
    BY <1>1, <2>1 DEF NoReconnects
<1>4. CASE ModuleDestroy \/ Exit
  BY <1>1, <1>4 DEF ModuleDestroy, Exit, NoReconnects
<1>5. CASE Drain \/ Boot \/ UNCHANGED vars
  BY <1>1, <1>5 DEF Drain, Boot, vars, maps, NoReconnects
<1>6. QED
  BY <1>2, <1>3, <1>4, <1>5, CallArmsNone, EventArmsNone DEF Next

\* Every step keeps every session coherent.
LEMMA SessionsStep ==
  ASSUME MaxAttempts = 0, SteadyIInv, [Next]_vars, NEW s \in Sessions
  PROVE  SessionKept(s)'
<1>1. TypeOK /\ NoReconnects /\ \A r \in Sessions : SessionKept(r)
  BY DEF SteadyIInv, SteadyInv
<1>2. ASSUME NEW r, Elsewhere(r), r \in Sessions => SessionKept(r)'
      PROVE  SessionKept(s)'
  BY <1>1, <1>2, ElsewhereKept
<1>3. ASSUME NEW c \in Calls, NEW r \in Sessions, ReconnectFire(c, r)
      PROVE  FALSE
  BY <1>1, <1>3 DEF ReconnectFire, NoReconnects
<1>4. ASSUME NEW c \in Calls, NEW k \in Kinds \ {"reconnect"}, NEW r \in Sessions,
             Request(c, k, r)
      PROVE  SessionKept(s)'
  BY <1>2, <1>4, RequestKept
<1>5. ASSUME NEW c \in Calls, CallStep(c)
      PROVE  SessionKept(s)'
  BY <1>2, <1>5, CallStepKept
<1>6. ASSUME NEW e \in Engines, EngineStep(e)
      PROVE  SessionKept(s)'
  BY <1>2, <1>6, EngineStepKept
<1>7. CASE Drain \/ UNCHANGED vars
  <2>1. /\ UNCHANGED <<status, engines, engine, lastError, call, crashes>>
        /\ process' # "down" => process # "down"
    BY <1>7 DEF Drain, vars, maps
  <2>2. \A kind, pcs : SomeAt(kind, s, pcs)' <=> SomeAt(kind, s, pcs)
    BY <2>1 DEF SomeAt
  <2>3. AdapterKept(s)' /\ RowKept(s)'
    BY <1>1, <2>1, <2>2 DEF SessionKept, AdapterKept, RowKept
  <2>4. ASSUME ~DbFails PROVE ComingKept(s)' /\ ReasonKept(s)'
    BY <1>1, <2>1, <2>2, <2>4 DEF SessionKept, ComingKept, ReasonKept
  <2>5. ASSUME NEW c \in Calls, Reserves(call'[c], s) PROVE StartKept(c, s)'
    BY <1>1, <2>1, <2>5 DEF SessionKept, StartKept
  <2>6. QED
    BY <2>3, <2>4, <2>5 DEF SessionKept
<1>8. QED
  BY <1>3, <1>4, <1>5, <1>6, <1>7, ModuleDestroyKept, ExitKept, BootKept DEF Next

\* Without automatic reconnects the whole invariant holds.
LEMMA SteadyInvariant ==
  ASSUME MaxAttempts = 0
  PROVE  Spec => []SteadyIInv
<1>1. Init => SteadyIInv
  <2> SUFFICES ASSUME Init PROVE SteadyIInv
    OBVIOUS
  <2>1. StartExclusive
    BY DEF Init, StartExclusive, Starting
  <2>2. NoReconnects /\ DownIsEmpty
    BY DEF Init, NoReconnects, DownIsEmpty
  <2>3. ASSUME NEW s \in Sessions PROVE SessionKept(s)
    <3>1. \A kind, pcs : ~SomeAt(kind, s, pcs)
      BY DEF Init, SomeAt
    <3>2. QED
      BY <3>1 DEF Init, SessionKept, AdapterKept, RowKept, ComingKept, ReasonKept,
                  Reserves, Coming
  <2>4. QED
    BY <2>1, <2>2, <2>3, TypeInit DEF SteadyIInv, SteadyInv
<1>2. SteadyIInv /\ [Next]_vars => SteadyIInv'
  <2> SUFFICES ASSUME SteadyIInv, [Next]_vars PROVE SteadyIInv'
    OBVIOUS
  <2>1. TypeOK' /\ StartExclusive'
    BY TypeStep, ExclusiveStep DEF SteadyIInv
  <2>2. QED
    BY <2>1, QuietStep, DownStep, SessionsStep DEF SteadyIInv, SteadyInv
<1>3. QED
  BY <1>1, <1>2, PTL DEF Spec

\* A call of s in the sense of the properties.
LEMMA SomeAtIsBusy ==
  ASSUME NEW kind, NEW s, NEW pcs, SomeAt(kind, s, pcs)
  PROVE  Busy(s)
  BY DEF SomeAt, Busy

\* Without automatic reconnects the row of a session with a registered engine
\* says, between calls, what the engine says, or FAILED of a disconnected one.
THEOREM RowsTrackEngines ==
  ASSUME MaxAttempts = 0
  PROVE  Spec => []RowTracksEngine
<1>1. SteadyIInv => RowTracksEngine
  BY SomeAtIsBusy DEF SteadyIInv, SteadyInv, SessionKept, RowKept, RowTracksEngine
<1>2. QED
  BY <1>1, SteadyInvariant, PTL

\* Without automatic reconnects, and while delete()'s transaction succeeds, a row
\* that says an engine is coming up has one, or a call that will bring it on.
THEOREM NoPhantoms ==
  ASSUME MaxAttempts = 0, ~DbFails
  PROVE  Spec => []NoPhantomSession
<1>1. SteadyIInv => NoPhantomSession
  BY SomeAtIsBusy DEF SteadyIInv, SteadyInv, SessionKept, ComingKept, Coming, NoPhantomSession
<1>2. QED
  BY <1>1, SteadyInvariant, PTL

\* Under the same conditions a FAILED row comes with its reason.
THEOREM FailuresExplained ==
  ASSUME MaxAttempts = 0, ~DbFails
  PROVE  Spec => []FailedExplained
<1>1. SteadyIInv => FailedExplained
  BY DEF SteadyIInv, SteadyInv, SessionKept, ReasonKept, FailedExplained
<1>2. QED
  BY <1>1, SteadyInvariant, PTL

-----------------------------------------------------------------------------
(* The cap on concurrent sessions *)

\* The cap, with what Cardinality needs to be counted.
CapKept == IsFiniteSet(Active) /\ Cardinality(Active) <= MaxConcurrent

\* Without reconnects a session gets an engine only under its reservation.
LEMMA EnginesUnderReservation ==
  ASSUME MaxAttempts = 0, SteadyIInv, [Next]_vars, NEW s \in Sessions, engines'[s] # None
  PROVE  s \in Active
<1>1. TypeOK /\ NoReconnects /\ StartExclusive
  BY DEF SteadyIInv, SteadyInv
<1>2. SUFFICES ASSUME engines[s] = None PROVE s \in initializing
  BY DEF Active
<1>3. ASSUME NEW c \in Calls, NEW r \in Sessions, ReconnectFire(c, r)
      PROVE  FALSE
  BY <1>1, <1>3 DEF ReconnectFire, NoReconnects
<1>4. ASSUME NEW c \in Calls, CallStep(c)
      PROVE  s \in initializing
  <2>1. call[c] # None /\ call[c].kind # "reconnect"
    BY <1>1, <1>4, KindStays DEF NoReconnects
  <2>2. call[c].s \in Sessions
    BY <1>1, <2>1, InFlight
  <2>3. ~ReconnectSwap(c) /\ ~ReconnectCatch(c)
    BY <2>1 DEF ReconnectSwap, ReconnectCatch, InitThrew, At
  <2>4. CASE StartLaunch(c)
    <3>1. \A r \in Sessions \ {call[c].s} : engines'[r] = engines[r]
      BY <1>1, <2>2, <2>4 DEF StartLaunch, CreateEngine, TypeOK
    <3>2. s = call[c].s
      BY <1>2, <3>1
    <3>3. Reserves(call[c], s)
      BY <2>4, <3>2 DEF StartLaunch, At, Reserves
    <3>4. QED
      BY <1>1, <3>3, ReservationIff
  <2>5. CASE ~StartLaunch(c)
    <3>1. UNCHANGED engines \/ engines' = [engines EXCEPT ![call[c].s] = None]
      BY <1>4, <2>3, <2>5 DEF CallStep, StartReserve, LaunchEngine, LaunchFails, InitTimeout,
         TimeoutReaped, StartCatch, StartReaped, InitReturned, Retire, Retired,
         Leave, Mark, Stopped, DeleteEvicted, DeleteRow, DeleteFinally, Evict, maps
    <3>2. engines'[s] = None
      BY <1>1, <1>2, <2>2, <3>1 DEF TypeOK
    <3>3. QED
      BY <3>2
  <2>6. QED
    BY <2>4, <2>5
<1>5. ASSUME NEW e \in Engines, EngineStep(e)
      PROVE  engines'[s] = None
  <2>1. CASE AuthFailure(e) \/ (InitFails(e) /\ Live(e))
    <3>1. engines' = [engines EXCEPT ![engine[e].owner] = None]
      BY <2>1 DEF AuthFailure, InitFails, Fail
    <3>2. QED
      BY <1>1, <1>2, <3>1 DEF TypeOK
  <2>2. CASE ~AuthFailure(e) /\ ~(InitFails(e) /\ Live(e))
    BY <1>2, <1>5, <2>2, EventStep DEF EventOf
  <2>3. QED
    BY <2>1, <2>2
<1>6. ASSUME NEW c \in Calls, NEW k \in Kinds, NEW r \in Sessions, Request(c, k, r)
      PROVE  engines'[s] = None
  BY <1>2, <1>6 DEF Request, maps
<1>7. CASE Drain \/ ModuleDestroy \/ Exit \/ Boot \/ UNCHANGED vars
  BY <1>2, <1>7 DEF Drain, ModuleDestroy, Exit, Boot, vars, maps
<1>8. QED
  BY <1>3, <1>4, <1>5, <1>6, <1>7 DEF Next

\* Only StartReserve adds a session, below the cap.
LEMMA CapStep ==
  ASSUME MaxAttempts = 0, SteadyIInv, [Next]_vars, CapKept
  PROVE  CapKept'
<1>1. TypeOK /\ MaxConcurrent \in Nat
  BY SessionAssumption DEF SteadyIInv
<1>2. \A s \in Sessions : engines'[s] # None => s \in Active
  BY EnginesUnderReservation
<1>3. ASSUME initializing' \subseteq initializing
      PROVE  CapKept'
  <2>1. Active' \subseteq Active
    BY <1>2, <1>3 DEF Active
  <2>2. IsFiniteSet(Active') /\ Cardinality(Active') <= Cardinality(Active)
    BY <2>1, FS_Subset DEF CapKept
  <2>3. Cardinality(Active) \in Nat /\ Cardinality(Active') \in Nat
    BY <2>2, FS_CardinalityType DEF CapKept
  <2>4. QED
    BY <1>1, <2>2, <2>3 DEF CapKept
<1>4. ASSUME NEW c \in Calls, StartReserve(c)
      PROVE  CapKept'
  <2>1. call[c].s \in Sessions /\ UNCHANGED engines
    BY <1>1, <1>4, InFlight DEF StartReserve, At, maps
  <2>2. CASE initializing' = initializing \cup {call[c].s} /\ Admissible(call[c].s)
    <3>1. Active' = Active \cup {call[c].s} /\ call[c].s \notin Active
      BY <2>1, <2>2 DEF Active, Admissible
    <3>2. IsFiniteSet(Active') /\ Cardinality(Active') = Cardinality(Active) + 1
      BY <3>1, FS_AddElement DEF CapKept
    <3>3. Cardinality(Active) \in Nat /\ Cardinality(Active) < MaxConcurrent
      BY <2>2, FS_CardinalityType DEF CapKept, Admissible
    <3>4. QED
      BY <1>1, <3>2, <3>3 DEF CapKept
  <2>3. CASE initializing' = initializing
    BY <1>3, <2>3
  <2>4. QED
    BY <1>4, <2>2, <2>3 DEF StartReserve, maps
<1>5. ASSUME NEW c \in Calls, CallStep(c), ~StartReserve(c)
      PROVE  initializing' \subseteq initializing
  BY <1>5 DEF CallStep, StartLaunch, LaunchEngine, LaunchFails, InitTimeout, TimeoutReaped,
       StartCatch, StartReaped, InitReturned, Retire, Retired, Leave, ReconnectSwap,
       ReconnectCatch, Mark, Stopped, DeleteEvicted, DeleteRow, DeleteFinally, maps
<1>6. ASSUME NEW e \in Engines, EngineStep(e)
      PROVE  initializing' = initializing
  BY <1>6 DEF EngineStep, ClientBuilt, InitOk, InitFails, QrArrives, QrRendered,
              Authenticated, Ready, Disconnected, AuthFailure, StuckAuth, ClientGone, maps
<1>7. ASSUME NEW c \in Calls, NEW s \in Sessions,
             ReconnectFire(c, s) \/ \E k \in Kinds : Request(c, k, s)
      PROVE  initializing' = initializing
  BY <1>7 DEF ReconnectFire, Request, maps
<1>8. CASE Drain \/ ModuleDestroy \/ Exit \/ Boot \/ UNCHANGED vars
  <2>1. initializing' \subseteq initializing
    BY <1>8 DEF Drain, ModuleDestroy, Exit, Boot, vars, maps
  <2>2. QED
    BY <1>3, <2>1
<1>9. QED
  BY <1>3, <1>4, <1>5, <1>6, <1>7, <1>8 DEF Next

\* Without automatic reconnects the sessions that hold or reserve an engine
\* never outnumber MAX_CONCURRENT_SESSIONS.
THEOREM CapHolds ==
  ASSUME MaxAttempts = 0
  PROVE  Spec => []CapRespected
<1>1. Init => CapKept
  <2> SUFFICES ASSUME Init PROVE CapKept
    OBVIOUS
  <2>1. Active = {}
    BY DEF Init, Active
  <2>2. QED
    BY <2>1, FS_EmptySet, SessionAssumption DEF CapKept
<1>2. SteadyIInv /\ CapKept /\ [Next]_vars => CapKept'
  BY CapStep
<1>3. CapKept => CapRespected
  BY DEF CapKept, CapRespected
<1>4. QED
  BY <1>1, <1>2, <1>3, SteadyInvariant, PTL DEF Spec

=============================================================================
