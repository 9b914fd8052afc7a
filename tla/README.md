# Verification of the FloorLingo server

FloorLingo is a NestJS server that runs WhatsApp sessions in headless browsers
and offers them over HTTP: sessions are started and stopped, messages are sent
one by one or in batches, events go out to webhooks and plugins, and providers'
deliveries come in through an ingress route to sandboxed plugins. It is one Node
process over one database, with an optional Redis queue. Concurrency is
therefore not between threads but between *segments*: a handler runs without
interruption up to its next `await`, and anything may happen before it resumes.
Most of what can go wrong is state that was read before an `await` and is used
after it, a finish that arrives late, and a process that dies in between.

This directory holds TLA+ modules that model that, TLC configurations that check
them on small instances, and TLAPS proofs for instances of any size.

## 1. The system

| component | state it keeps | operations | hard behaviour | what makes it correct |
|---|---|---|---|---|
| **session lifecycle** `modules/session/session.service.ts` | the session row's status; maps `engines`, `initializingSessions`, `stoppingSessions`, `reconnectStates`, `sessionErrors` | start, stop, forceKill, delete, executeReconnect, engine callbacks, boot, drain | calls of one session overlap at every await; a deadline of a minute or more races `initialize()`; late events of replaced engines | one start at a time, the cap, rows that agree with engines, stopped sessions stay down |
| **whatsapp-web.js adapter** `engine/adapters/whatsapp-web-js.adapter.ts` | client, status, QR, watchdog | initialize, disconnect, forceDestroy, client events | teardown before the client exists; a QR rendered after teardown; recovery that drops the client | every client that was launched is torn down |
| **shutdown** `common/services/shutdown.service.ts` | the drain flag | shutdown, isShuttingDown | a reconnect racing the exit | nothing is launched while engines are torn down |
| **bulk batches** `modules/message/bulk-*.ts` | `message_batches` rows, `processingBatches`, `inFlightBatches` | createBatch, processBatch, cancelBatch, boot sweep | worker and cancel each save a whole stale copy | exact counter, complete batches, cancels that stop, no orphan |
| **ingress delivery** `modules/integration`, `modules/queue` | `ingress_events`, dead letters, the BullMQ queue, ordering lanes | handle, enqueue, process, redrive | at-least-once through Redis outages, stalls and crashes | order per conversation; a recorded delivery never vanishes |
| **webhook delivery** `modules/webhook`, `queue/processors/webhook.processor.ts` | webhooks, failure rows, the limiter's slots and waiters, the BullMQ queue | update, delete, dispatch, deliver, process | queue or direct, each with retries; a refused `add()` that reached Redis; a slot handed on; stalls | an event delivered, on its way, or given up at a place that can be named |
| **plugin loader, sandbox, hooks** `core/plugins`, `core/hooks`, `modules/plugins` | plugin status and version, worker hosts, hook shims, search provider, pending calls, operation chains | install, enable, disable, update, uninstall, dispatchHook | operations overlap; a worker crashes, hangs or answers late; an update is rolled back | one worker, found by whoever must end it; registrations that go with it; calls that settle once |
| **message store** `modules/message`, callbacks of `session.service.ts` | `messages` rows, per-message reaction chains | send, message_create, onMessage, history import, acknowledge, revoke, react, delete | four writers of one table; an acknowledgement overtakes the insert | one row per message, statuses that do not go back, one dispatch |
| **Baileys adapter and stores** `engine/adapters/baileys*` | socket, flags, timer, attempts, own-send marks | initialize, connect, disconnect, logout, send | a teardown while `connectInner()` waits; the echo of an own send before, while or after the send returns | no socket without an owner, no adapter without a way on |
| **translate** `modules/translate` | promise chain, breaker, rate and pace; candidates, memory, glossary, overrides | onMessage, translate, send; scan, approve, dismiss, suggest | models and sends of any length; reviews of one row overlap; files and rows written apart | order of replies, a breaker that is right, approvals that last |
| **gateway and dashboard chat** `modules/events`, `dashboard/src` | sockets and rooms; the page's cached thread | connect, subscribe, emit; fetch, send, merge | events, responses and fetches in any order; a connection that drops | one bubble per message, no gap after a reconnect |
| **auth, audit** | key rows | validate | a whole row saved after an await | no edit undone |
| endpoints that read or forward, settings, search queries, storage, cache, infra, docker, MCP, dashboard pages, SDKs | little or none that spans two calls | | | |

How they interact. HTTP controllers call the session service; it creates an
adapter through the engine factory, registers it in `engines` and hands it
callbacks, which are closures over the *engine instance* and begin with
`isLiveEngine()`. Adapters call back at any time, from inside `disconnect()` too.
Message and bulk services read the engine from the session service. Callbacks
fan out to webhooks, hooks and the gateway. Ingress has its own controller; it
records a delivery in the database, adds a job to Redis (or dispatches inline),
and the worker, which runs in the same process, dispatches to a plugin host under
an in-memory lock per conversation. Webhooks go the other way: an event is matched
against the table, passes a limiter, and is queued or posted directly. Translation is
a hook on incoming messages that answers through the message service. The dashboard
reads rows over HTTP and hears the same events over a socket.

`PROJECT.json` lists every component with its status and every hazard at the line
where it bites; a hazard without a property says why.

## 2. Modules

    SessionLifecycle --INSTANCE--> StartLock            MCSession    SessionLifecycle_proofs
    BulkBatch                                           MCBulk       BulkBatch_proofs
    IngressDelivery --INSTANCE ... WITH--> Carriage     MCIngress    IngressDelivery_proofs
    WebhookDelivery --INSTANCE ... WITH--> Carriage     MCWebhook    WebhookDelivery_proofs
    PluginHost                                          MCPlugin     PluginHost_proofs
    Translation                                         MCTranslate  Translation_proofs
    MessageStore -----+                                              MessageStore_proofs
    PhraseReview -----+-- EXTENDS --> MCServices                     Services_proofs
    BaileysConnection +                                              Services_proofs
    ChatThread -------+                                 MCChat       Services_proofs

The components do not share state that any checked property speaks of: a batch sees
only whether the engine is there (`EngineMissing` / `EnginePresent` may happen at any
time, whatever the session does), a plugin, for ingress, is a dispatch that succeeds,
fails or times out, a hook, for everybody, an await that ends. They are kept apart for
that reason. `ChatThread` is the exception: it composes the server's side of a chat
(send pipeline, callbacks, gateway) with the page's.

`MCServices` extends four modules and checks them in one run. They share no variable; a
behaviour picks one in its initial state (`followed`) and the other three never move, so
the states are the sum of the four and not their product. Because they are extended
together, and three of them proved about together, their definitions have names of their
own (`ChatInit`, `ConnectionInit`, ...).

The convention in all of them: **an action is one synchronous segment**, from an
`await` to the next, with everything the segment changes; what a call keeps in
local variables across an await is a record (`call[c]`, `mem[b]`, `cancel[c]`,
`work[j]`) with a `pc` naming where it waits.

### SessionLifecycle

| model | code |
|---|---|
| `status[s]` | `session.status`; `"deleted"` once the row is gone (an UPDATE then matches nothing) |
| `engines`, `initializing`, `stopping`, `reconnect`, `lastError` | the maps of `SessionService` of nearly the same names |
| `engine[e]` | one adapter *instance*: `init` is its `initialize()` promise, `client` its browser, `st` its own status, `qr` a QR being rendered |
| `call[c]` | a start, stop, delete or reconnect in flight |
| `process` | up, draining (`markShuttingDown`), destroying (`onModuleDestroy` has run), down |
| `StartReserve`, `StartLaunch`, `LaunchEngine`, `InitTimeout`, `TimeoutReaped`, `StartCatch`, `StartReaped`, `InitReturned`, `Retire`, `Retired`, `Leave` | `start()` and `initializeEngine()`, cut at the awaits |
| `ReconnectFire`, `ReconnectSwap`, `ReconnectCatch` | `executeReconnect()` |
| `Mark`, `Stopped`, `DeleteEvicted`, `DeleteRow`, `DeleteFinally` | `stop()`, `forceKill()`, `delete()` |
| `EngineStep(e)` | the adapter's events *with* the callback each runs: `Ready` is `markReadyFromClientInfo` and `onReady`, `Disconnected` is the status change, `onDisconnected` and `scheduleReconnect`, and so on |
| `Drain`, `ModuleDestroy`, `Exit`, `Boot` | shutdown, crash, `onModuleInit` |

Helpers carry the code's own names where it has them. `Torn` is
`beginClientTeardown()`, with the early return when there is no client;
`Evict` is `evictAndForceDestroy()` or the plain deletion; `Silent` drops the part
of an evicted adapter that no callback can report any more.

`StartLock` is the abstract promise of the reservation: one lock per session,
acquired when free, released by the call that took it, freed by nothing but the
exit of the process. `holder` is the refinement mapping: the call between its
reservation and its `finally`.

### BulkBatch

`row` is the table; `mem[b]` is the worker's copy of its row, `cancel[c].copy` the
cancelling call's. Both `save()` the whole copy, so each may undo the other:
that is the point of the module. `worker[b]` walks through `processBatch()` and
`executeBatch()`; `flag` is `processingBatches`. `delivered` and `acked` are history:
what WhatsApp accepted, and how much of it when a cancel first answered. A send that
is rejected may have gone out (an error or a timeout after WhatsApp took it): `ItemFails`
counts it as failed, as the code does, and `delivered` may grow all the same.
`cancelBatch()` is two segments, `CancelLower` for the flag and `CancelSave` for the row.
A message is reduced to "sent" or "failed"; the gate, template expansion, the
random delay and the stop-on-error option are kept as far as they steer the loop.

### IngressDelivery

`events` is the deduplication table, `dlq` the dead letters, `job` the queue in
Redis: these survive a crash. `call` (requests and redrives), `work` (the
processor, per job) and `tails` (`KeyedAsyncLock.tails`) do not. A delivery is
what the deduplication key tells apart (plugin, instance, id), while `deliveryId`
is unique within an instance only: the queue's job id is that bare id. `handled`
and `lost` are history: what a plugin handled, and what was given up at one of
four known places. `work[j].prev` is the promise a job is chained on; `ahead` is
history, who entered its lane before it and has not settled.

BullMQ is outside the repository and modelled from its use: an id is taken once
while the queue remembers it, a free slot takes a waiting job, a failed attempt
waits again until `attempts`, a job whose worker vanished is handed out once more
and then failed, finished ids are forgotten. An `add()` that rejects may have
reached Redis.

### WebhookDelivery and Carriage

`task[d]` is `deliverToWebhook()` of one event for one webhook, with the attempt it is
at; `active` and `waiters` are the `ConcurrencyLimiter`, whose slot goes from hand to
hand without being counted again. `job` and `work` are the queue and its worker, as in
ingress. `edit[w]` is the copy `update()` holds between its read and its save.
`HookManager.execute()` never rejects, so hooks only take time; `webhook:before` may stop
a delivery. A POST that fails may have been received all the same. `accepted` is what
receivers took, `waived` what ended at one of five known places.

`Carriage` is the abstract promise: what is taken is delivered or given up, only what
was taken is, and in the end everything is one or the other. It is instantiated with
`taken <- asked`, `delivered <- accepted`, `given <- failures \cup waived`;
`CarrierSpec` is its whole specification, the liveness included. `IngressDelivery` is
a carrier too (`taken <- events`, `delivered <- handled`, `given <- lost`), of which only the
safety part holds and is proved (`CarrierSafe`): a failed delivery waits in its dead letter
until somebody redrives it.

### PluginHost

One installed plugin. `op[c]` is an operator's request, `chain` the per-plugin chain of
`PluginsService`; `sandboxHosts` is the loader's entry, `host[h]` what has become of each
worker ever created. An update is a disable, a swap of directories, an enable, and on
failure the same backwards (`phase`). Workers subscribe, register, answer late or exit
at any time. `req` are hook calls: `gate` is the wait of the shim between the lookup of
the host (`HookFires`) and the dispatch to it (`DispatchHook`), which may find that host
replaced; `waiter` is the pending entry, `owed` whether the worker will still answer.

### MessageStore

`rows` are two slots per message: the pipeline's row and the callbacks' row, kept apart
by the unique index (`Taken`) once both have WhatsApp's id. `send`, `creating`, `fired`,
`hooks`, `history` and `ack` say where each writer waits; `chain[i]` is the chain of
reactions of one message, sent or received. A reaction reads the whole row, waits, and
writes its reactions back and nothing else (`ReactionWrites`; its mutant saves the row as
it was read, and undoes an acknowledgement in between). `excused` is history: why a row may legitimately differ (a
refused write, an id the engine did not return).

### Translation and PhraseReview

`queue` is the promise chain, its head the running task; `listed` is the model list as the
task read it, `picked` the places in it that the breaker left, `left` those the loop has
not come to; `breaker` and `pace` hold what is left of each deadline, and `Tick`
lets time pass. A saved list may be empty: `updateConfig()` takes an empty model name and
the loop drops it. `arrived`, `answered`, `tried` and `calls` are history. `PhraseReview` has the two tables and three files behind the glossary;
requests that wait for the database are records (`request[r]`) with the rows they read,
commands typed in a chat are synchronous.

### BaileysConnection

Sockets are numbered; `sock` is the adapter's, `open` those that are up. `connecting`
covers the awaits of `connectInner()`, `timer` the reconnect. `post[p]` is a send,
`marks` the ids of own sends, `created` counts `message_create` callbacks. The `notify`
echo (`Notified`) may come at any time after the message was handed over, also while
`sendMessage` is still awaited and its id not yet marked; marking a send evicts any of
the marks before it, as if a minute had passed. `missed` is history: the sends whose mark
the echo came too early for, or too late.

### ChatThread

`db` and `known` are what a fetch reads, in that order and with anything between;
`wire` are events on their way; `room` is the subscription, from the socket's connect over
the awaited key check to the join. `thread` is the cache entry, bubbles that have either
the page's temporary id or WhatsApp's. An acknowledgement has any status, `failed` and a
lower one included, and is emitted whether or not the row took it; `message.sent` is
emitted again each time the engine fires (`told` bounds both). Each of the two requests of
a fetch may be rejected: one counts as empty (`lost`), both make the query throw and run
again once, or keep what it has (`FetchThrows`).

## 3. What is checked

All runs are exhaustive. `CHECK_DEADLOCK FALSE` everywhere: with its bounded
engines, batches, redrives and crashes every model comes to rest, as the real
process does when nobody calls it.

| run | instance | distinct states | what it shows |
|---|---|---|---|
| MCSessionSteady | 2 sessions, 1 slot, 2 calls, 2 engines, no reconnects | 1 191 551 | `NoPhantomSession`: no row claims a session is coming up when nothing works on it. `FailedExplained`: a FAILED row has its reason. `RowTracksEngine`: between calls row and engine agree. `CapRespected`: the limit holds |
| MCSessionExit | 1 session, 2 calls, 2 engines, 1 reconnect, failing writes, drain, crash | 1 028 463 | `StartExclusive`: one start past its reservation. `DrainQuiet`: no reconnect armed during the teardown |
| MCSessionLive | as above without crash or failing writes, fair | 282 857 | `StartLockSpec`: the reservation is a lock. `StopSettles`, `ReservationReleased` |
| MCBulk | 1 batch of 3 messages, 2 cancels, failing sends of which WhatsApp took some, failing saves, 1 crash, fair | 337 037 | `InFlightExact`, `CompletedIsComplete`, `NoOrphan`, `BatchSettles` |
| MCIngress | 2 deliveries with one id for 2 instances, 2 requests, 1 dead letter, 2 redrives, 1 crash, 1 outage | 1 509 940 | `LaneInOrder`, `GivenUpKnowingly` |
| MCIngressLive | 3 jobs of one lane, 2 slots, 2 attempts, 1 lost result, fair | 78 376 | `JobSettles` |
| MCWebhook | 1 event for 2 webhooks, 1 slot, 2 attempts, an edit and a deletion, 1 fault, 1 crash, queue on or off, fair | 392 490 | `SlotsExact`: the limiter counts who is in. `EndedKnowingly`: no event ends untraced. `PostsBounded`: retries of both paths. `CarrierSpec`: the refinement |
| MCPlugin | 2 operations, 6 workers, 2 hook calls, 1 crash, fair | 481 289 | `OneWorker`, `EnabledIsLive`, `RegistrationsOwned`, `VersionsAgree`, `InFlightExact`, `OperationsEnd` |
| MCTranslate | 2 texts, a voice note, 3 models of which 1 has no endpoint, a list that may be edited once, to an empty one too, fair | 153 147 | `RepliesInOrder`, `BreakerSound`, `EndsUnlessHung` |
| MCServices | messages: 1 send or 1 inbound message, 2 people, 3 reactions, 2 refused writes; phrases: 2 phrases, 2 words, 1 group, 3 requests, 1 crash; Baileys: 2 attempts, 4 sockets, 2 sends; chat: 1 message out or 1 in, 1 drop, 3 events of the message | 1 041 899 | `OneRowPerSend`, `AcksReflected`, `DispatchedOnce`, `ReactionsInOrder`, `NoOrphanEvents`; `ApprovalNotLost`, `ReviewedOnce`; `ConnectionSound`, `OwnSendOnce`; `OneBubble`, `TicksForward` |

Two more runs each check one claim of the repository that its code does not keep
(section 5). Type invariants stand in the modules as `TypeOK` (`StoreTypeOK` in
`MessageStore`); those of sessions, batches, ingress, webhooks, plugins, the Baileys
adapter and the message store are proved, as are those of the chat thread and of
translation but for the rate limiter's `hits` (section 4).

Several properties name exceptions, because the code has them. A reader should know
them as well as the property:

* `EndedKnowingly` / `CarrierSpec`: a failed lookup of the webhooks, a plugin's
  `webhook:before` (or a payload that cannot be serialised), a failure row that cannot
  be written, a crash on the direct path, a second stall.
* `GivenUpKnowingly` counts as known what the code loses: a crash between the
  deduplication row and the queue, and the collision of two instances' ids, are two of its
  four places. It would catch neither; claims 5 and 6 of section 5 state them.
* `StopSettles` is about sessions that carry the mark of a stop; a reconnect that overlaps
  a `delete()` is in the model and no property speaks of it.
* `CompletedIsComplete` does not say that every message counted as failed stayed unsent:
  what WhatsApp took is at least what the row counts as sent, and at most that and the
  failed ones.
* `PostsBounded` counts the first POST among retryCount, as the code does (claim 8).
* `OwnSendOnce` allows two dispatches of a send whose echo came before `sendMessage`
  returned, or after its mark was evicted (claim 7).
* `OneRowPerSend`: a refused write, an id the engine did not return, an engine that threw
  after sending. `NoOrphanEvents`: a send in flight and a history import may leave a
  row of a deleted session. `ReactionsInOrder`: a reaction before the row exists is lost.
* `DispatchedOnce`: a refused insert is dispatched twice; a history import that comes
  first, a plugin, or a retired engine suppress the dispatch.
* `ApprovalNotLost` speaks of candidates. Approving a sentence of the memory marks first
  and writes later: there a crash loses the term.
* `OneBubble`, `TicksForward`: a fetch that saw the row before it had WhatsApp's id, and
  one that lands after the acknowledgement it did not see.
* `BreakerSound`: a message is given up without a model having been called if the list is
  empty or no entry picked from it has an endpoint.
* `EndsUnlessHung`: sends have no deadline; one that never returns holds the chain.

### Why these bounds

* *Calls = 2.* Every hazard listed for sessions, redrives and cancels is between
  two actors (start and stop, start and reconnect, worker and cancel, two
  redrives). Reconnects take a slot too, so a start, a reconnect and the events
  of both engines overlap.
* *MaxEngines = 2.* One engine that is replaced and one that replaces it: late
  events, stale map entries and the catch that finds a foreign engine need two.
  `EngineLeft` keeps calls that will create an engine from running out of them, so
  the bound never blocks a call half way (the liveness run depends on it).
* *MaxAttempts 0 or 1.* Zero is the configuration with reconnects exhausted at
  once, one has both a retry and an exhaustion.
* *Sessions = 1*, except in MCSessionSteady: calls of different sessions meet only at
  the cap.
* *Total = 3, SaveEvery = 10.* Items 0 and 2 save progress (the first and the last
  of a batch), item 1 does not: all three kinds of step occur. One batch, since
  batches meet only in the counter, which the proof covers for any number.
* *Deliveries.* Two that collide in the queue for safety, three of one lane with
  two slots for order and liveness (a running job, a chained job, a waiting job).
  `MCIngress` has one dead-letter row; a second would need another redrive to
  matter, and the proof covers any number.
* *Webhooks.* Two deliveries meet in the limiter, one slot makes one of them wait;
  retryCount 2 has a retry and a last attempt. One webhook is edited and deleted.
* *Plugin.* Two operations overlap in every pair of kinds; six workers are enough for
  two updates with rollback (`WorkersLeft` keeps an operation from running out of them).
* *Translate.* Two texts have an order, the voice note overtakes them or not; the rate
  limit is one less than the messages, so the last may be refused. Three model lists: a
  primary and a fallback, a primary and a fallback without endpoint, and none. Window and cooldown are two
  ticks, so that one may expire between two calls or not.
* *MCServices* has a CONSTRAINT. `Bounded` drops behaviours that combine what rarely
  meets: a send and an inbound message in one (they have different ids, hence different
  rows), overrides and suggestions together with three requests over two phrases, an
  outgoing and an incoming message in one chat thread. It constrains nothing in the
  Baileys adapter.
  Two sends over Baileys are enough for one to evict the mark of the other. Three events of
  an outgoing message are an echo, its replay and an acknowledgement, or any two
  acknowledgements beside an echo; a behaviour has a dropped connection or all three. A
  send meets one reaction and no refused write, or refused writes only; an inbound message
  meets three reactions and refused writes together.
* *Symmetry* is over calls (and sessions) that are interchangeable, and over the people
  who react, in safety runs only.

### Fairness

Session and bulk: a call's or worker's next segment is weakly fair, because each
await settles (database, hook) or is cut by a deadline in the code (initialisation
timeout, teardown timeout, the sandbox's dispatch timeout). Engine events are not
fair: a browser may stay silent for ever. Ingress adds that the queue hands a
waiting job to a free slot and checks for stalled jobs, and that a supervisor
starts the process again; redrives and deliveries arrive at will. Nothing is
assumed about an action that an operator or a provider takes.

Webhooks: requests end (`WEBHOOK_TIMEOUT`), timers fire, the queue hands out and looks
for stalled jobs. Plugins: lifecycle and hook calls time out, a terminated worker exits;
a worker need not subscribe, answer or crash. Translation: the clock ticks and model
calls have deadlines; a send returns, fails, or goes into `"hung"`, which is a state of
its own. `MessageStore`, `PhraseReview`, `BaileysConnection` and `ChatThread` are checked for
safety only.

`StopSettles` needs exactly that: the check after `initialize()` must come to run
for a start that was in flight when the session was stopped.

## 4. What is proved

Every safety invariant and every action property of the passing runs is a theorem. The
proofs hold for any number of sessions, calls, engines,
batches, messages, cancels, deliveries, instances, lanes, rows, slots, attempts,
crashes, outages, workers, sockets, sends, reactions, phrases, reviewers, models, edits of
the model list, bubbles and dropped connections. What they
assume of the constants is named in each module (`SessionAssumption`, `BatchAssumption`,
`IngressAssumption`, `WebhookAssumption`, `PluginAssumption`, `StoreAssumption`, and
`ModelAssumption`, `MessageAssumption` and `TimeAssumption` of `Translation`;
`BaileysConnection`, `PhraseReview` and `ChatThread` assume nothing) and evaluated by TLC: bounds are
natural numbers, `None` differs from what it stands beside, a batch saves at some
interval and a webhook is tried at least once, deliveries are determined by instance and
id, WhatsApp ids of messages sent and received differ, a message is a text or a voice note, saved lists
are lists of model entries. Four theorems about sessions also
assume a configuration, as part of their statement. Each inductive invariant was an
invariant of a TLC run before it was proved.

**SessionLifecycle_proofs.** `TypeCorrect` is inductive. `StartsExclusive` is
inductive over it: a start enters only when its session is not in
`initializing`, and each exit removes exactly its own; the proof goes action by
action, and most actions leave the starts alone (a lemma of its own).
`LockImplemented` shows `Spec => StartLockSpec` through `holder`: given
exclusiveness, the `CHOOSE` in `holder` has one candidate, so a reservation is an
`Acquire`, each of the exits a `Release`, the exit of the process an `Exit` and
everything else a stutter. `DrainsQuietly` follows from types and the guard of
`scheduleReconnect`.

`RowsTrackEngines`, `NoPhantoms`, `FailuresExplained` and `CapHolds` are about the
configuration with automatic reconnects off (`MaxAttempts = 0`, a value
session-runtime.config.ts:34-37 admits and `MCSessionSteady` checks); the second and third
also need `~DbFails`: the first write of a start and the transaction of `delete()` succeed. Outside them the
properties are false of the code, not merely unproved, and TLC shows it: with a reconnect
two engines can be registered beyond the cap, a row can stay at INITIALIZING without an
engine, and a reconnect's engine can clear `lastError` under the reap of a start; a
refused `delete()` leaves a row whose maps are gone. Their invariant, `SteadyInv`, ties
row, map, adapter and call together, session by session: the registered engine belongs
to the session and its adapter is coherent (`AdapterKept`); a start that is past its
reservation finds in the map its own engine or none (`StartKept`, where exclusiveness
enters); row and adapter agree but between the creation of an engine and its first
report (`RowKept`); a row on its way up without an engine has the very call that took the
engine away (`ComingKept`); a failure keeps its reason (`ReasonKept`). `Elsewhere(s)`
reduces each action to the one session it touches. `CapHolds` counts on top of it: with
no reconnects an engine appears only under a reservation, which the cap admits one by one.

**BulkBatch_proofs.** `InFlightExact` is nearly inductive (a cardinality argument
per step). `CompletedIsComplete` is not: it needs `BatchInv`, that the worker's *copy*
brackets what was delivered at every point of the loop (`CopyOK`: at least what it counts
as sent, at most that and what it counts as failed), so that what `Finish` saves is true whatever a cancel wrote over the row in between. The worker
must have begun from a row nobody had counted in: a cancel can save a row that its
worker has yet to read, and `CancelInv` says that its copy is then as fresh as the
row that was inserted. The conjunction `IInv` is preserved by every step, and gives
`BulkTypeCorrect`, `BulkInFlightExact` and `CompletedMeansComplete`. `NobodyOrphaned`
adds `Orphanless`: a worker about to end has left its row in another status, a cancel only
ever saves CANCELLED, and a process that is down has no worker to lose.

**IngressDelivery_proofs.** `LanesInOrder`: a lane is a chain. `ChainInv` says that
whoever waits, waits for the job right ahead of it, whose own `ahead` set is one
smaller, and `TailInv` that the map entry is the last of the chain, or that there
is none when the lane is empty. Deleting the entry only when it is one's own is
what preserves `TailInv`. `Accounted`: an invariant stating that each recorded
delivery leaves a trace is not inductive, since a redrive retires a row while the
trace may be the very job it replays. `Backed(d, n)` therefore asks for a trace
*beyond row n*: a job that is not about to be given up, a later row, or the
plugin. Rows are written in order (`RowsInv`), so a dead letter written for a
replay always comes after the row it replays; `RetireInv` says the row a redrive
is about to retire is backed, `FinishedInv` the same of the row a finished job
replayed, and `EventInv` the claim itself. `DeliveriesAreCarried` is the refinement of the
abstract carrier: what requests, jobs and dead letters carry was recorded (`Known`), so that
a plugin receives nothing, and nothing is given up, that is not in `ingress_events`. TLC
agrees on the instance of `MCIngress`, with `PROPERTY CarrierSafe` in its configuration.

**WebhookDelivery_proofs.** `SlotsExact` needs that the waiters are distinct and are the
parked deliveries (`SlotsInv`), since a slot that is handed on is not counted again.
`PostsBounded` and `EndedKnowingly` come from one invariant per delivery: the attempt the
direct path is at *is* the number of its posts (`TaskOK`); an attempt of the worker
that has posted but is not counted yet (`Underway`) makes up the difference between the
queue's count and the posts, across stalls (`JobOK`); and what was asked is accepted,
recorded, waived or carried (`TraceOK`), where both paths are under way only after a
refused call of Redis. `WebhooksAreCarried` is the safety part of the refinement: with
`TraceOK` each action is a step of `Carriage` or leaves its variables alone.

**PluginHost_proofs.** The argument is a chain: only its head runs (`Serial`), so what is
true between operations (`IdleKept`: the map holds the worker of an enabled plugin and
nothing else) is what the next operation starts from, and `OpKept` carries it from segment
to segment: the one worker that may be alive is the operation's own, the map holds it
until a catch, a disable or its crash, and a hook shim belongs to the map's worker, or to
the one the operation is about to drop. `PackageKept` says whose backup may be on disk.
None of `OneWorker`, `EnabledIsLive`, `RegistrationsOwned` and `VersionsAgree` is inductive
without the others. `InFlightExact` is a cardinality argument over the pending calls.

**MessageStore_proofs.** The invariant is per WhatsApp id (`IdOK`), and a step moves one
id (`Still`, `StillKept`). The pipeline's row gets its name by its last write and only
while there is no other row of the id (`OwnOK`), which is what makes the unique index
hold (`StoreTypeCorrect`); `SendOK` says at each point of the pipeline what it has left in
the table, or what excuses it, and gives `OneRowEach`. `AcksStay`: `KeptOK` follows a kept
acknowledgement from the pipeline's row to the callbacks' and through every conditional
UPDATE, whose failure to match is itself evidence that the row is further on
(`CoversElse`), and past every reaction to the message: one that read the row before the
acknowledgement writes after it, and leaves the status alone. `DispatchesOnce` needs that a dispatched message is in the table unless
its insert was refused, and the converse. `ReactionsOrdered`: what the row shows, with
the reactions that wait applied in their order, is what everybody reacted last; so for
each person with nothing waiting the row is right, the last one waiting of each person is
the latest, and only the head of the chain has read, and read what the row still shows
(`ReactOK`). `NoOrphans` is in `EventOK`.

**Services_proofs.** Three components that are checked together, each with its own
invariant.

*The Baileys connection.* `ConnectionSound` becomes inductive with `TornDown`: once the
adapter is torn down it stays closed on purpose, with no timer, and a connect still
waiting will find the flag; and with every socket but its own detached before the next
one is made. `OwnSendOnce` needs, per send (`PostInv`), that an id is marked before the adapter
maps the send, so that of mapping and notification only one fires unless the send is in
`missed`, and that no send is notified or mapped twice.

*The review of phrases.* `ApprovalNotLost` and `ReviewedOnce` with `RequestInv`: a request
that is about to mark rows has written all of them to the glossary. `adopted` only grows,
and an update that asks for the status `new` takes a row out of the queue once.

*The chat thread.* `OneBubble` and `TicksForward` rest on `ChatInv`: rows and bubbles hold at
most one entry of a message under WhatsApp's id (`OneNamed`, of the table, of the thread,
and of what a fetch that is under way has read); a bubble under the page's temporary id is
of a send that has not been answered, and one under the row's own id is of a message that
is in `blind`, the exception (`BubblesKept`). What must be shown to keep it is every writer
of the thread: the merge of a fetch, that of an event, the placeholder, its
reconciliation. So all bubbles of an answered send are under one id, hence one bubble. An
event, acknowledgement or replayed echo, moves the bubble it finds only to a status that
may follow (`Follows`: a later tick, or a failure of what nobody has received), or adds one
(`TickedKeeps`), and a
response drops no bubble that has WhatsApp's id (`EndsSteps`): that is `TicksForward`.

**Translation_proofs.** A chain of promises has one task at work, its head (`ChainKept`), whatever
is running, failing or hung. `RepliesInOrder` speaks of positions in `arrived` and needs the
order of what is *still waiting*: `OrderKept` says that the texts answered, followed by those
in the chain, are in the order they arrived. A text that is refused by the rate limiter or
given up leaves a gap and no inversion; a voice note joins when its transcript is there and
is in no order with the texts. `BreakerSound` needs `BreakerKept`: an open breaker's
remaining cooldown and the time since its last failure add up to `Cooldown`, so a breaker
that is open was tripped less than a cooldown ago; and `LoopKept`: the entries the loop has
passed without calling anything had no endpoint, and picking from a list leaves something
unless the list is empty, which is what the fallback to all entries is for.

Only model-checked:

* liveness (`StopSettles`, `ReservationReleased`, `BatchSettles`, `JobSettles`,
  `OperationsEnd`, `EndsUnlessHung` and the liveness of `CarrierSpec`), because the prover
  does not reason about `ENABLED` and fairness;
* the type of the rate limiter's `hits`: `SelectSeq` is recursive, and what it returns for
  every sequence takes an induction over data. No theorem depends on it.

## 5. Where the code and its documents disagree

Two are runs that TLC must find violated; `PROJECT.json` quotes the lines.

1. **MCSessionRetired** `RetiredRunsNothing`. `beginClientTeardown()` returns at once
   while there is no client. A stop, delete or timeout that lands before
   `initialize()` has built one tears nothing down; `initialize()` then builds the
   client and launches a browser that no map entry refers to.
2. **MCChatGap** `GapRefreshed`. After a reconnect the chat page refetches its thread as
   soon as the socket connects and subscribes after that; the gateway joins the room
   after an awaited check of the key. A message stored after the refetch has read and
   before the join is neither fetched nor pushed, and the cache never goes stale.

Six more claims are definitions in the modules, each with the claim in its comment,
that a configuration can name as an invariant to get the counterexample:

3. `FailedCanRestart` (SessionLifecycle). When the reconnect attempts run out the row
   says FAILED and the user is told to restart (session.service.ts:1194), but the dead
   engine stays registered, so `start()` refuses until somebody stops the session.
4. `CancelStopsSending` (BulkBatch). A cancel saved between the insert of a batch and the
   first read of its worker is overwritten with PROCESSING, and all messages go out
   (docs/06-api-specification.md:1362).
5. `RecordedIsDurable` (IngressDelivery). The deduplication row is called the durability
   handle (docs/25-integration-fabric.md:107), but nothing reads it back: a crash before
   the job is added loses the delivery, and the retry is answered as a duplicate.
6. `InstancesApart` (IngressDelivery). The queue's job id is the provider's delivery id
   alone: with nothing failing, a second instance's delivery of the same id is taken for
   the first one and never dispatched (docs/25-integration-fabric.md:148).
7. `EchoNeverTwice` (BaileysConnection). The adapter skips the `notify` echo of an own send
   "so the own-send doesn't emit twice" (baileys.adapter.ts:939-942), even "if it races in
   mid-map" (baileys-send.ts:112-113), and evicts marks after a minute, which "never drops
   a live echo" (baileys.adapter.ts:1221-1222). An echo that arrives while `sendMessage` is
   still awaited finds no mark and fires, and `emitOwnSendEcho()` fires again.
8. `RetriesAsDocumented` (WebhookDelivery). `retryCount` is the "Number of retry attempts on
   failure" (webhook.dto.ts:99; likewise docs/06-api-specification.md:3022 and 3089). The
   direct path and the queue's `attempts` count the first POST (webhook-delivery.ts:114,
   webhook-dispatch.ts:106): 1 means no retry. Line 4701 of the same document says, as the
   code does, that the number of attempts comes from it.

## 6. What is not modelled, and why

* **Inside the modelled components.** Webhook, hook and gateway emissions of the
  session callbacks, statistics, QR and pairing-code reads, message and group
  callbacks (no effect on the state modelled). `forceKill()` has the segments of
  `stop()` and is not a kind of its own. `recoverFromStuckAuth()` is one step, and
  the events of a client its adapter has abandoned are left out. Engines are not
  reused; timers have no durations, they may fire at any time. Writes to one row
  take effect in the order they were issued. Ingress checks that return before
  any state changes (challenge, size, signature, preflight) and the retention job
  are left out, as is BullMQ's refusal of a custom id with a colon: an `add()` may
  reject at any time within the bound on outages.
* **NoPhantomSession is checked and proved with reconnects off.** Two overlapping reconnects can
  leave a row at INITIALIZING without an engine; no comment or document says what
  it should be, so it is a hazard and not a finding.
* **Webhooks.** Filters, headers, signatures, the test endpoint. A concurrent edit lost
  to another's stale copy is in the model, without a property: nothing says which wins.
* **Plugins.** The disables of `onModuleDestroy()`, which bypass the chain; configuration and
  session setters; capability calls; webhook, search and health calls, which share the
  table of pending calls with hooks. A process killed in the middle of an update leaves
  only the backup directory, which boot skips (`VersionsAgree` excepts crashes). The order
  of handlers, and that `runHandlers()` walks a live array.
* **Messages.** What each kind of message calls, quoted bodies, edits, stars, statistics.
* **Translate.** Detection, prompts, which text is an exact hit (one that equals its source
  is answered with silence), profiles, the daily digest (stamped after it
  is sent: a crash between sends it twice), usage counts, and the files' contents: a
  write that is cut short falls back to an empty file.
* **Baileys.** The auth directory and its asynchronous wipe, history, names, contacts,
  groups, channels.
* **Chat.** Revocations, reactions, media, threads that are not open. At the gateway a socket
  that disconnects during the awaited key check stays tracked.
* **Auth.** `validateApiKey()` saves a row it read before an await: a concurrent edit may be
  lost. Not modelled.
* **Other components**: see the table in section 1 and `PROJECT.json`. Endpoints that
  forward one call or read one table have no state that two calls share. Text
  processing, signatures and address arithmetic are pure functions over bytes. Most of
  the repository's lines are of these kinds, of user interface and of generated types.

## 7. Plan

Done: ten component modules, two abstract specifications, the second of them implemented
by two components, eight proof modules.

1. `SessionLifecycle`: `forceKill` as a call of its own, the start that catches a foreign
   engine, the overlap of two reconnects, and what of `SteadyInv` survives reconnects.
2. `BaileysConnection` and the whatsapp-web.js part of `SessionLifecycle` as refinements of
   one abstract engine, whose events the session service listens to.
3. `PluginHost`: the other kinds of dispatch, shutdown; `IngressDelivery`'s `Handled` and
   `DispatchFails` as its abstraction.
4. Auth and the throttler, conversation mapping, retention, the chat profiles.

## 8. Running it

    tlc -workers 2 -config MCSessionSteady.cfg MCSession
    tlapm SessionLifecycle_proofs.tla

Each configuration names its module by its prefix; MCChatGap goes with MCChat.
The definitions introduced as "Mutant of" another are plausible bugs in it; with one
put in the place of the original, the property listed for it in `PROJECT.json` fails.
