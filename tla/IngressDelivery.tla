--------------------------- MODULE IngressDelivery ---------------------------
(***************************************************************************)
(* The way of a provider's delivery from the ingress route to a plugin:    *)
(* src/modules/integration (handle, enqueue, dead letters, redrive, the    *)
(* ordering lock) and the worker src/modules/queue/processors/             *)
(* ingress.processor.ts.                                                   *)
(*                                                                         *)
(* One action is one segment between two awaits.  call[c] is a request: a  *)
(* live delivery past its checks, or redriveInstance().  work[j] is the    *)
(* worker's process() of job j.  job is the BullMQ queue in Redis, outside *)
(* the repository: it survives the process, takes an id once, hands a job  *)
(* to a free worker, and hands a job whose worker vanished to another one, *)
(* once.  Payloads, signatures, acks and the throttler are left out.       *)
(***************************************************************************)
EXTENDS Naturals, FiniteSets

CONSTANTS
  Deliveries,         \* what ingress_events tells apart: plugin, instance and id
  Instances,          \* plugin instances
  instanceOf,         \* the instance of a delivery
  DeliveryIds,        \* values of providerDeliveryId
  deliveryId,         \* the id of a delivery, unique within its instance only
  Conversations,      \* values of orderingKeyFor
  orderingKeyFor,     \* the conversation of a delivery
  Calls,              \* requests in flight at once
  None,
  MaxRows,            \* bound on dead-letter rows ever written
  MaxAttempts,        \* resolveIngressJobOptions().attempts
  WorkerConcurrency,  \* ingressWorkerConcurrency()
  MaxRedrives,        \* bound on calls of redriveInstance
  MaxCrashes,         \* bound on crashes of the process
  MaxOutages,         \* bound on failing calls of Redis: an add, or the report of a result
  DbFails             \* may saving or updating a dead-letter row fail?

Rows == 1 .. MaxRows

\* A live job is named after its delivery's id, a replay after its row.
JobIds == DeliveryIds \cup Rows

VARIABLES
  events,    \* ingress_events: the deliveries recorded
  dlq,       \* integration_delivery_failures
  job,       \* the ingress queue
  call,      \* the requests in flight
  work,      \* IngressProcessor.process() per job
  tails,     \* KeyedAsyncLock.tails
  handled,   \* history: deliveries a plugin has handled
  lost,      \* history: deliveries given up at one of four known places
  queueEnabled,  \* config queue.enabled
  up,        \* is the process running?
  redrives, crashes, outages

store == <<events, dlq, job>>
memory == <<call, work, tails>>
bounds == <<queueEnabled, redrives, crashes, outages>>
vars == <<store, memory, handled, lost, bounds, up>>

-----------------------------------------------------------------------------
(* State *)

RowState == [d : Deliveries, redriven : BOOLEAN]

\* "waiting" stands for delayed too, "finished" for completed and failed;
\* stalls: how often its worker vanished.
JobState == [d : Deliveries, st : {"waiting", "active", "finished"},
             attempts : 0 .. MaxAttempts, stalls : 0 .. 1]

\* A redrive keeps its snapshot of rows in todo; row and d are the current one.
CallState ==
  [kind : {"live", "redrive"}, d : Deliveries \cup {None}, row : Rows \cup {None},
   todo : SUBSET Rows, pc : {"enqueue", "dispatching", "letter", "next", "retire"}]

\* prev: the promise it is chained on; ahead (history): who entered its lane
\* before it and has yet to settle.
WorkState == [pc : {"lock", "dispatching", "bury", "throw", "ok"},
              prev : JobIds \cup {None}, ahead : SUBSET JobIds]

ASSUME IngressAssumption ==
  /\ orderingKeyFor \in [Deliveries -> Conversations]
  /\ instanceOf \in [Deliveries -> Instances]
  /\ deliveryId \in [Deliveries -> DeliveryIds]
  /\ \A d, e \in Deliveries :
       instanceOf[d] = instanceOf[e] /\ deliveryId[d] = deliveryId[e] => d = e
  /\ MaxRows \in Nat /\ MaxRedrives \in Nat
  /\ MaxCrashes \in Nat /\ MaxOutages \in Nat
  /\ MaxAttempts \in Nat \ {0} /\ WorkerConcurrency \in Nat \ {0}
  /\ DbFails \in BOOLEAN
  /\ DeliveryIds \cap Rows = {}
  /\ None \notin JobIds /\ None \notin Deliveries
  /\ \A r \in RowState : r # None
  /\ \A r \in JobState : r # None
  /\ \A r \in CallState : r # None
  /\ \A r \in WorkState : r # None

Init ==
  /\ events = {} /\ handled = {} /\ lost = {}
  /\ dlq = [r \in Rows |-> None]
  /\ job = [j \in JobIds |-> None]
  /\ call = [c \in Calls |-> None]
  /\ work = [j \in JobIds |-> None]
  /\ tails = [k \in Conversations |-> None]
  /\ queueEnabled \in BOOLEAN
  /\ up = TRUE /\ redrives = 0 /\ crashes = 0 /\ outages = 0

At(c, pc) == call[c] # None /\ call[c].pc = pc

Working(j, pc) == work[j] # None /\ work[j].pc = pc

Unfinished(j) == job[j] # None /\ job[j].st \in {"waiting", "active"}

KeyOf(j) == orderingKeyFor[job[j].d]

Outage == outages < MaxOutages /\ outages' = outages + 1

Active == {j \in JobIds : job[j] # None /\ job[j].st = "active"}

-----------------------------------------------------------------------------
(* Dead letters *)

\* repo.save of a new row; rows are numbered in the order they are written.
SaveRow(d) ==
  \E r \in Rows :
    /\ dlq[r] = None
    /\ \A q \in 1 .. r - 1 : dlq[q] # None
    /\ dlq' = [dlq EXCEPT ![r] = [d |-> d, redriven |-> FALSE]]
    /\ lost' = lost

\* A row that cannot be written leaves nothing to redrive.
SaveFails(d) == DbFails /\ lost' = lost \cup {d} /\ dlq' = dlq

-----------------------------------------------------------------------------
(* A live delivery: IngressService.handle past its checks *)

\* recordOrSkip inserts it; a delivery already in events is a duplicate, acked
\* without a trace.
Record(c, d) ==
  /\ up /\ call[c] = None /\ d \notin events
  /\ events' = events \cup {d}
  /\ call' = [call EXCEPT ![c] = [kind |-> "live", d |-> d, row |-> None,
                                  todo |-> {}, pc |-> "enqueue"]]
  /\ UNCHANGED <<dlq, job, work, tails, handled, lost, bounds, up>>

-----------------------------------------------------------------------------
(* IngressEnqueueService.enqueue, of a live delivery or of a replay *)

JobId(r) == IF r.row = None THEN deliveryId[r.d] ELSE r.row

\* queue.add: an id the queue still knows is taken for the same job,
Added(r) ==
  IF job[JobId(r)] = None
    THEN [job EXCEPT ![JobId(r)] = [d |-> r.d, st |-> "waiting", attempts |-> 0, stalls |-> 0]]
    ELSE job

\* even when it is another instance's.
Absorbed(r) == {d \in {r.d} : job[JobId(r)] # None /\ job[JobId(r)].d # d}

\* What a caller does with an outcome other than "failed": a live delivery is
\* done, a redrive retires the row.
Accepted(r) == IF r.kind = "live" THEN None ELSE [r EXCEPT !.pc = "retire"]

\* Mutant of Swallowed: a redrive retires the row whatever the outcome.
SwallowedRetires(r) == [r EXCEPT !.pc = IF r.kind = "live" THEN "letter" ELSE "retire"]

\* What it does with "failed": a live delivery writes a dead letter (the wrapper
\* in integration.module.ts), a redrive leaves the row as it is.
Swallowed(r) == [r EXCEPT !.pc = IF r.kind = "live" THEN "letter" ELSE "next"]

QueueAdd(c) ==
  /\ queueEnabled /\ At(c, "enqueue")
  /\ job' = Added(call[c])
  /\ lost' = lost \cup Absorbed(call[c])
  /\ call' = [call EXCEPT ![c] = Accepted(call[c])]
  /\ UNCHANGED <<events, dlq, work, tails, handled, bounds, up>>

\* Without a queue, or when add() rejects (it may have reached Redis all the
\* same), the plugin is called inline, outside the ordering lock.
DispatchInline(c) ==
  /\ At(c, "enqueue")
  /\ \/ ~queueEnabled /\ UNCHANGED <<job, outages>>
     \/ queueEnabled /\ Outage /\ job' \in {job, Added(call[c])}
  /\ call' = [call EXCEPT ![c].pc = "dispatching"]
  /\ UNCHANGED <<events, dlq, work, tails, handled, lost, queueEnabled, up, redrives, crashes>>

InlineHandled(c) ==
  /\ At(c, "dispatching")
  /\ handled' = handled \cup {call[c].d}
  /\ call' = [call EXCEPT ![c] = Accepted(call[c])]
  /\ UNCHANGED <<store, work, tails, lost, bounds, up>>

\* No live worker, a failing handler, or the 504 of INGRESS_DISPATCH_TIMEOUT_MS.
InlineFails(c) ==
  /\ At(c, "dispatching")
  /\ call' = [call EXCEPT ![c] = Swallowed(call[c])]
  /\ UNCHANGED <<store, work, tails, handled, lost, bounds, up>>

DeadLetter(c) ==
  /\ At(c, "letter")
  /\ SaveRow(call[c].d) \/ SaveFails(call[c].d)
  /\ call' = [call EXCEPT ![c] = None]
  /\ UNCHANGED <<events, job, work, tails, handled, bounds, up>>

-----------------------------------------------------------------------------
(* RedriveService.redriveInstance *)

\* repo.find: the rows of an instance still to be redriven.
ToRedrive(i) ==
  {r \in Rows : dlq[r] # None /\ ~dlq[r].redriven /\ instanceOf[dlq[r].d] = i}

Redrive(c) ==
  /\ up /\ call[c] = None /\ redrives < MaxRedrives
  /\ \E i \in Instances :
       call' = [call EXCEPT ![c] = [kind |-> "redrive", d |-> None, row |-> None,
                                    todo |-> ToRedrive(i), pc |-> "next"]]
  /\ redrives' = redrives + 1
  /\ UNCHANGED <<store, work, tails, handled, lost, queueEnabled, up, crashes, outages>>

\* The loop: the next row of the snapshot, or the end.
RedriveNext(c) ==
  /\ At(c, "next")
  /\ \/ /\ call[c].todo = {}
        /\ call' = [call EXCEPT ![c] = None]
     \/ \E r \in call[c].todo :
          call' = [call EXCEPT ![c] = [call[c] EXCEPT !.d = dlq[r].d, !.row = r,
                                         !.todo = call[c].todo \ {r}, !.pc = "enqueue"]]
  /\ UNCHANGED <<store, work, tails, handled, lost, bounds, up>>

\* repo.update({redriven: true}); its failure ends the call.
Retire(c) ==
  /\ At(c, "retire")
  /\ \/ /\ dlq' = [dlq EXCEPT ![call[c].row].redriven = TRUE]
        /\ call' = [call EXCEPT ![c].pc = "next"]
     \/ DbFails /\ dlq' = dlq /\ call' = [call EXCEPT ![c] = None]
  /\ UNCHANGED <<events, job, work, tails, handled, lost, bounds, up>>

-----------------------------------------------------------------------------
(* IngressProcessor.process under KeyedAsyncLock *)

\* In the lane of k: chained, or running.
Lane(k) == {j \in JobIds : /\ \/ Working(j, "lock")
                              \/ Working(j, "dispatching")
                           /\ KeyOf(j) = k}

\* A worker slot takes the job, and lock.run() chains it on the lane's tail.
Take(j) ==
  /\ up /\ job[j] # None /\ job[j].st = "waiting"
  /\ Cardinality(Active) < WorkerConcurrency
  /\ job' = [job EXCEPT ![j].st = "active"]
  /\ work' = [work EXCEPT ![j] = [pc |-> "lock", prev |-> tails[KeyOf(j)],
                                  ahead |-> Lane(KeyOf(j))]]
  /\ tails' = [tails EXCEPT ![KeyOf(j)] = j]
  /\ UNCHANGED <<events, dlq, call, handled, lost, bounds, up>>

\* prev has settled, or there was none.
StartDispatch(j) ==
  /\ Working(j, "lock") /\ work[j].prev = None
  /\ work' = [work EXCEPT ![j].pc = "dispatching"]
  /\ UNCHANGED <<store, call, tails, handled, lost, bounds, up>>

\* Mutant of Released: the next in the lane waits for a promise that never settles.
ReleasedAlone(j, pc) ==
  [work EXCEPT ![j] = [@ EXCEPT !.pc = pc, !.prev = None, !.ahead = {}]]

\* The promise of j settles: process() goes on at pc, the one chained on it may
\* start.
Released(j, pc) ==
  [i \in JobIds |->
     IF i = j THEN [work[j] EXCEPT !.pc = pc, !.prev = None, !.ahead = {}]
     ELSE IF work[i] = None THEN None
     ELSE [work[i] EXCEPT !.prev = IF @ = j THEN None ELSE @, !.ahead = @ \ {j}]]

\* Mutant of Cleared: the map entry goes whoever the tail is.
ClearedAnyway(j) == [tails EXCEPT ![KeyOf(j)] = None]

\* The map entry goes only when j is still the tail.
Cleared(j) ==
  IF tails[KeyOf(j)] = j THEN [tails EXCEPT ![KeyOf(j)] = None] ELSE tails

Handled(j) ==
  /\ Working(j, "dispatching")
  /\ handled' = handled \cup {job[j].d}
  /\ work' = Released(j, "ok")
  /\ tails' = Cleared(j)
  /\ UNCHANGED <<store, call, lost, bounds, up>>

IsFinalAttempt(j) == job[j].attempts + 1 >= MaxAttempts

DispatchFails(j) ==
  /\ Working(j, "dispatching")
  /\ work' = Released(j, IF IsFinalAttempt(j) THEN "bury" ELSE "throw")
  /\ tails' = Cleared(j)
  /\ UNCHANGED <<store, call, handled, lost, bounds, up>>

\* The dead letter of a final attempt; process() throws after it, or because of it.
Bury(j) ==
  /\ Working(j, "bury")
  /\ SaveRow(job[j].d) \/ SaveFails(job[j].d)
  /\ work' = [work EXCEPT ![j].pc = "throw"]
  /\ UNCHANGED <<events, job, call, tails, handled, bounds, up>>

-----------------------------------------------------------------------------
(* The queue's side of a job: BullMQ, external *)

\* The result reaches Redis: another attempt, or the end.
Reported(j) ==
  LET n == job[j].attempts + 1
      st == IF work[j].pc = "ok" \/ n >= MaxAttempts THEN "finished" ELSE "waiting"
  IN  [job EXCEPT ![j].st = st, ![j].attempts = n]

\* A result that does not reach Redis leaves the job active with no worker.
Finish(j) ==
  /\ Working(j, "ok") \/ Working(j, "throw")
  /\ \/ job' = Reported(j) /\ outages' = outages
     \/ Outage /\ job' = job
  /\ work' = [work EXCEPT ![j] = None]
  /\ UNCHANGED <<events, dlq, call, tails, handled, lost, queueEnabled, up, redrives, crashes>>

\* A job whose worker vanished is handed out again once; the second time it
\* fails, and nobody writes its dead letter.
Stalled(j) ==
  /\ up /\ job[j] # None /\ job[j].st = "active" /\ work[j] = None
  /\ IF job[j].stalls = 0
       THEN job' = [job EXCEPT ![j].st = "waiting", ![j].stalls = 1] /\ lost' = lost
       ELSE job' = [job EXCEPT ![j].st = "finished"] /\ lost' = lost \cup {job[j].d}
  /\ UNCHANGED <<events, dlq, memory, handled, bounds, up>>

\* removeOnComplete, removeOnFail: the queue forgets the id.
Forget(j) ==
  /\ job[j] # None /\ job[j].st = "finished"
  /\ job' = [job EXCEPT ![j] = None]
  /\ UNCHANGED <<events, dlq, memory, handled, lost, bounds, up>>

-----------------------------------------------------------------------------
(* The process *)

\* Requests, workers and lanes are memory.
Crash ==
  /\ up /\ crashes < MaxCrashes
  /\ up' = FALSE /\ crashes' = crashes + 1
  /\ call' = [c \in Calls |-> None]
  /\ work' = [j \in JobIds |-> None]
  /\ tails' = [k \in Conversations |-> None]
  /\ lost' = lost \cup {call[c].d : c \in {c \in Calls : call[c] # None /\ call[c].kind = "live"}}
  /\ UNCHANGED <<store, handled, queueEnabled, redrives, outages>>

Boot ==
  /\ ~up /\ up' = TRUE
  /\ UNCHANGED <<store, memory, handled, lost, bounds>>

Enqueue(c) == QueueAdd(c) \/ DispatchInline(c) \/ InlineHandled(c) \/ InlineFails(c) \/ DeadLetter(c)

Process(j) == StartDispatch(j) \/ Handled(j) \/ DispatchFails(j) \/ Bury(j) \/ Finish(j)

Next ==
  \/ \E c \in Calls : \/ \E d \in Deliveries : Record(c, d)
                      \/ Enqueue(c) \/ Redrive(c) \/ RedriveNext(c) \/ Retire(c)
  \/ \E j \in JobIds : Take(j) \/ Process(j) \/ Stalled(j) \/ Forget(j)
  \/ Crash \/ Boot

Spec == Init /\ [][Next]_vars

\* Awaits resume, a dispatch answers or times out, the queue hands out what
\* waits and checks for stalled jobs, and the process is started again.
Fairness ==
  /\ \A c \in Calls : WF_vars(Enqueue(c) \/ RedriveNext(c) \/ Retire(c))
  /\ \A j \in JobIds : WF_vars(Take(j) \/ Process(j) \/ Stalled(j))
  /\ WF_vars(Boot)

FairSpec == Spec /\ Fairness

-----------------------------------------------------------------------------
(* Properties *)

\* Type correctness of the tables, the queue, the requests, the workers and the
\* lanes: a dead letter names its delivery, a job never runs past its attempts.
TypeOK ==
  /\ events \subseteq Deliveries /\ handled \subseteq Deliveries /\ lost \subseteq Deliveries
  /\ dlq \in [Rows -> RowState \cup {None}]
  /\ job \in [JobIds -> JobState \cup {None}]
  /\ call \in [Calls -> CallState \cup {None}]
  /\ work \in [JobIds -> WorkState \cup {None}]
  /\ tails \in [Conversations -> JobIds \cup {None}]
  /\ queueEnabled \in BOOLEAN /\ up \in BOOLEAN
  /\ redrives \in 0 .. MaxRedrives
  /\ crashes \in 0 .. MaxCrashes /\ outages \in 0 .. MaxOutages

\* Within a conversation the worker dispatches one job at a time, in the order
\* in which the jobs reached it, through retries, stalls and crashes: whoever
\* dispatches, nobody who entered the lane before it has yet to settle
\* (KeyedAsyncLock.run, its clean-up included).
LaneInOrder == \A j \in JobIds : Working(j, "dispatching") => work[j].ahead = {}

Live(d) == \E c \in Calls : call[c] # None /\ call[c].kind = "live" /\ call[c].d = d

Queued(d) == \E j \in JobIds : Unfinished(j) /\ job[j].d = d

Redrivable(d) == \E r \in Rows : dlq[r] # None /\ dlq[r].d = d /\ ~dlq[r].redriven

AccountedFor(d) == d \in handled \/ Live(d) \/ Queued(d) \/ Redrivable(d)

\* A recorded delivery is handled, or is carried by a request, a job or a row
\* that can still be redriven; four places give one up, and no fifth: a crash under
\* its request, a dead letter that cannot be saved, a second stall, a job id that
\* another instance has taken.
GivenUpKnowingly == \A d \in events \ lost : AccountedFor(d)

\* The way of a delivery is a carrier: what is recorded is taken, a plugin that has handled
\* it has received it.
Carrier == INSTANCE Carriage WITH taken <- events, delivered <- handled, given <- lost

\* Only what was recorded is ever handled or given up, one step at a time: no request, job,
\* dead letter or replay brings a plugin anything that is not in ingress_events.
CarrierSafe == Carrier!Safe

\* "The dedup row already persisted is the durability handle": what is recorded
\* outlives the process, so a crash alone loses nothing.
RecordedIsDurable == \A d \in events : AccountedFor(d)

\* "Every ingress artifact is scoped by instance": while nothing fails, no
\* instance takes a delivery from another.
InstancesApart ==
  ~DbFails /\ crashes = 0 /\ outages = 0 => \A d \in events : AccountedFor(d)

\* A job the queue has accepted ends, handled or failed, whatever its plugin does
\* and however full the worker is.
JobSettles == \A j \in JobIds : Unfinished(j) ~> ~Unfinished(j)

=============================================================================
