--------------------------- MODULE WebhookDelivery ---------------------------
(***************************************************************************)
(* Events on their way to webhooks: dispatch() of modules/webhook/webhook. *)
(* service.ts, webhook-dispatch.ts, webhook-delivery.ts and the worker     *)
(* queue/processors/webhook.processor.ts.                                  *)
(*                                                                         *)
(* One action is one segment between two awaits.  A delivery is one event  *)
(* for one webhook.  task[d] is deliverToWebhook() of d under the limiter, *)
(* work[d] the worker's process().  job is the BullMQ queue in Redis,      *)
(* outside the repository.  HookManager.execute never rejects, so a hook   *)
(* is an await that ends; payloads, headers and signatures are left out,   *)
(* up to a payload that JSON.stringify refuses.                            *)
(***************************************************************************)
EXTENDS Naturals, Sequences, FiniteSets

CONSTANTS
  Events,             \* occurrences of events
  Webhooks,           \* rows the webhooks table may hold
  Deliveries,         \* an event for a webhook whose filters it passes
  eventOf, webhookOf, \* the two of a delivery
  None,
  RetryCount,         \* webhook.retryCount, 0 .. 5
  DispatchConcurrency,  \* webhook.dispatchConcurrency
  WorkerConcurrency,  \* webhookWorkerConcurrency()
  MaxCrashes,         \* bound on crashes of the process
  MaxFaults,          \* bound on failing calls of Redis and of the database
  Edited              \* bound: the webhooks update() and delete() are called for

VARIABLES
  webhook,    \* the webhooks table: is a row there, and active?
  edit,       \* update() in flight: the copy it will save
  active,     \* ConcurrencyLimiter.active
  waiters,    \* ConcurrencyLimiter.waiters
  task,       \* deliverToWebhook() per delivery
  job,        \* the webhook queue
  work,       \* WebhookProcessor.process() per job
  failures,   \* webhook_delivery_failures, by delivery
  asked,      \* history: deliveries dispatched
  accepted,   \* history: deliveries a receiver took, answered or not
  posted,     \* history: POSTs of the direct path
  processed,  \* history: POSTs of the queue's worker
  waived,     \* history: deliveries ended with neither, at a known place
  queueEnabled, up, crashes, faults

table == <<webhook, edit>>
limiter == <<active, waiters>>
history == <<asked, accepted, posted, processed, waived>>
vars == <<table, limiter, task, job, work, failures, history, queueEnabled, up, crashes, faults>>

-----------------------------------------------------------------------------
(* State *)

\* "leaving": the last hooks of the delivery, before its slot is given on.
TaskPc == {"parked", "before", "add", "post", "mark", "backoff", "record", "leaving"}

\* One attempt is made even for a retryCount of 0.
Attempts == IF RetryCount = 0 THEN 1 ELSE RetryCount

TaskState == [pc : TaskPc, attempt : 1 .. Attempts]

\* "waiting" stands for delayed too, "finished" for completed and failed.
JobState == [st : {"waiting", "active", "finished"}, attempts : 0 .. Attempts, stalls : 0 .. 1]

WorkPc == {"post", "mark", "record", "throw", "ok"}

Row == {"active", "inactive"}

ASSUME WebhookAssumption ==
  /\ eventOf \in [Deliveries -> Events] /\ webhookOf \in [Deliveries -> Webhooks]
  /\ IsFiniteSet(Deliveries)
  /\ RetryCount \in Nat /\ MaxCrashes \in Nat /\ MaxFaults \in Nat
  /\ Edited \subseteq Webhooks
  /\ DispatchConcurrency \in Nat \ {0} /\ WorkerConcurrency \in Nat \ {0}
  /\ None \notin Deliveries /\ None \notin Row /\ None \notin WorkPc
  /\ None \notin TaskState /\ None \notin JobState

Init ==
  /\ webhook = [w \in Webhooks |-> "active"] /\ edit = [w \in Webhooks |-> None]
  /\ active = 0 /\ waiters = <<>>
  /\ task = [d \in Deliveries |-> None]
  /\ job = [d \in Deliveries |-> None]
  /\ work = [d \in Deliveries |-> None]
  /\ failures = {} /\ asked = {} /\ accepted = {} /\ waived = {}
  /\ posted = [d \in Deliveries |-> 0] /\ processed = [d \in Deliveries |-> 0]
  /\ queueEnabled \in BOOLEAN /\ up = TRUE /\ crashes = 0 /\ faults = 0

At(d, pc) == task[d] # None /\ task[d].pc = pc

Working(d, pc) == work[d] = pc

Unfinished(d) == job[d] # None /\ job[d].st # "finished"

Goto(d, pc) == task' = [task EXCEPT ![d].pc = pc]

Fault == faults < MaxFaults /\ faults' = faults + 1

-----------------------------------------------------------------------------
(* WebhookService.update and delete *)

\* findOne, then assertSafeFetchUrl: the copy is held over an await.
EditBegins(w) ==
  /\ up /\ webhook[w] # None /\ edit[w] = None
  /\ \E r \in Row : edit' = [edit EXCEPT ![w] = r]
  /\ UNCHANGED <<webhook, limiter, task, job, work, failures, history, queueEnabled, up, crashes, faults>>

\* save() writes the copy, inserting a row that has gone.
EditSaves(w) ==
  /\ edit[w] # None
  /\ webhook' = [webhook EXCEPT ![w] = edit[w]]
  /\ edit' = [edit EXCEPT ![w] = None]
  /\ UNCHANGED <<limiter, task, job, work, failures, history, queueEnabled, up, crashes, faults>>

Delete(w) ==
  /\ up /\ webhook[w] # None
  /\ webhook' = [webhook EXCEPT ![w] = None]
  /\ UNCHANGED <<edit, limiter, task, job, work, failures, history, queueEnabled, up, crashes, faults>>

-----------------------------------------------------------------------------
(* WebhookService.dispatch and its ConcurrencyLimiter *)

Entry(pc) == [pc |-> pc, attempt |-> 1]

Matching(e) == {d \in Deliveries : eventOf[d] = e /\ webhook[webhookOf[d]] = "active"}

Orders(S) == {s \in [1 .. Cardinality(S) -> S] : \A i, j \in DOMAIN s : s[i] = s[j] => i = j}

Free == DispatchConcurrency - active

\* find, then run() for each match: the first take the free slots, the rest park.
Dispatch(e) ==
  /\ up /\ \A d \in asked : eventOf[d] # e
  /\ Matching(e) # {}
  /\ \E s \in Orders(Matching(e)) :
       LET k == IF Len(s) <= Free THEN Len(s) ELSE Free IN
       /\ active' = active + k
       /\ waiters' = waiters \o SubSeq(s, k + 1, Len(s))
       /\ task' = [d \in Deliveries |->
                     IF d \notin Matching(e) THEN task[d]
                     ELSE IF \E i \in 1 .. k : s[i] = d THEN Entry("before") ELSE Entry("parked")]
  /\ asked' = asked \cup Matching(e)
  /\ UNCHANGED <<table, job, work, failures, accepted, posted, processed, waived, queueEnabled, up, crashes, faults>>

\* The lookup fails: the event reaches no webhook.
DispatchLookupFails(e) ==
  /\ up /\ Fault /\ \A d \in asked : eventOf[d] # e
  /\ asked' = asked \cup Matching(e) /\ waived' = waived \cup Matching(e)
  /\ UNCHANGED <<table, limiter, task, job, work, failures, accepted, posted, processed, queueEnabled, up, crashes>>

\* Mutant of Leave: the slot is freed and handed on at once.
LeaveTwice(d) ==
  /\ active' = active - 1
  /\ IF waiters = <<>>
       THEN task' = [task EXCEPT ![d] = None] /\ waiters' = waiters
       ELSE /\ task' = [task EXCEPT ![d] = None, ![Head(waiters)] = Entry("before")]
            /\ waiters' = Tail(waiters)

\* The finally of run(): the slot is handed to the first waiter, or freed.
Leave(d) ==
  IF waiters = <<>>
    THEN active' = active - 1 /\ task' = [task EXCEPT ![d] = None] /\ waiters' = waiters
    ELSE /\ task' = [task EXCEPT ![d] = None, ![Head(waiters)] = Entry("before")]
         /\ waiters' = Tail(waiters) /\ active' = active

Leaving(d) ==
  /\ At(d, "leaving")
  /\ Leave(d)
  /\ UNCHANGED <<table, job, work, failures, history, queueEnabled, up, crashes, faults>>

-----------------------------------------------------------------------------
(* deliverToWebhook *)

\* webhook:before lets the payload through,
BeforeContinues(d) ==
  /\ At(d, "before")
  /\ Goto(d, IF queueEnabled THEN "add" ELSE "post")
  /\ UNCHANGED <<table, limiter, job, work, failures, history, queueEnabled, up, crashes, faults>>

\* cancels it, or spoils it: JSON.stringify then throws on either path, ahead
\* of the retries and of the failure row.
BeforeWaives(d) ==
  /\ At(d, "before")
  /\ Goto(d, "leaving")
  /\ waived' = waived \cup {d}
  /\ UNCHANGED <<table, limiter, job, work, failures, asked, accepted, posted, processed, queueEnabled, up, crashes, faults>>

Queued(d) == [job EXCEPT ![d] = [st |-> "waiting", attempts |-> 0, stalls |-> 0]]

QueueAdd(d) ==
  /\ At(d, "add")
  /\ job' = Queued(d)
  /\ Goto(d, "leaving")
  /\ UNCHANGED <<table, limiter, work, failures, history, queueEnabled, up, crashes, faults>>

\* Mutant of AddRejected: the catch only reports.
AddRejectedUnsent(d) == Goto(d, "leaving")

AddRejected(d) == Goto(d, "post")

\* add() rejects, though it may have reached Redis: the direct path takes over.
QueueAddFails(d) ==
  /\ At(d, "add") /\ Fault
  /\ job' \in {job, Queued(d)}
  /\ AddRejected(d)
  /\ UNCHANGED <<table, limiter, work, failures, history, queueEnabled, up, crashes>>

-----------------------------------------------------------------------------
(* deliverWebhookDirect *)

PostSucceeds(d) ==
  /\ At(d, "post")
  /\ posted' = [posted EXCEPT ![d] = @ + 1] /\ accepted' = accepted \cup {d}
  /\ Goto(d, "mark")
  /\ UNCHANGED <<table, limiter, job, work, failures, asked, processed, waived, queueEnabled, up, crashes, faults>>

\* Mutant of MayRetry: one attempt too many.
MayRetryOnceMore(d) == task[d].attempt <= RetryCount

MayRetry(d) == task[d].attempt < RetryCount

\* The catch of an attempt.
Caught(d) == Goto(d, IF MayRetry(d) THEN "backoff" ELSE "record")

\* Refused, or answered too late: then the receiver has it all the same.
PostFails(d) ==
  /\ At(d, "post")
  /\ posted' = [posted EXCEPT ![d] = @ + 1] /\ accepted' \in {accepted, accepted \cup {d}}
  /\ Caught(d)
  /\ UNCHANGED <<table, limiter, job, work, failures, asked, processed, waived, queueEnabled, up, crashes, faults>>

\* lastTriggeredAt; when its update fails, a delivered event is tried again.
Mark(d) ==
  /\ At(d, "mark")
  /\ \/ Goto(d, "leaving") /\ faults' = faults
     \/ Fault /\ Caught(d)
  /\ UNCHANGED <<table, limiter, job, work, failures, history, queueEnabled, up, crashes>>

Backoff(d) ==
  /\ At(d, "backoff")
  /\ task' = [task EXCEPT ![d] = [pc |-> "post", attempt |-> @.attempt + 1]]
  /\ UNCHANGED <<table, limiter, job, work, failures, history, queueEnabled, up, crashes, faults>>

\* recordWebhookDeliveryFailure, which swallows its own failure.
RecordFailure(d) ==
  \/ failures' = failures \cup {d} /\ UNCHANGED <<waived, faults>>
  \/ Fault /\ waived' = waived \cup {d} /\ failures' = failures

Record(d) ==
  /\ At(d, "record")
  /\ RecordFailure(d)
  /\ Goto(d, "leaving")
  /\ UNCHANGED <<table, limiter, job, work, asked, accepted, posted, processed, queueEnabled, up, crashes>>

-----------------------------------------------------------------------------
(* WebhookProcessor.process *)

Active == {d \in Deliveries : job[d] # None /\ job[d].st = "active"}

Take(d) ==
  /\ up /\ job[d] # None /\ job[d].st = "waiting"
  /\ Cardinality(Active) < WorkerConcurrency
  /\ job' = [job EXCEPT ![d].st = "active"] /\ work' = [work EXCEPT ![d] = "post"]
  /\ UNCHANGED <<table, limiter, task, failures, history, queueEnabled, up, crashes, faults>>

\* Mutant of IsFinalAttempt: attemptsMade is taken for the number of this attempt.
IsFinalAttemptLate(d) == job[d].attempts >= RetryCount

IsFinalAttempt(d) == job[d].attempts + 1 >= RetryCount

WorkCaught(d) == work' = [work EXCEPT ![d] = IF IsFinalAttempt(d) THEN "record" ELSE "throw"]

WorkPosts(d) ==
  /\ Working(d, "post")
  /\ processed' = [processed EXCEPT ![d] = @ + 1]
  /\ \/ accepted' = accepted \cup {d} /\ work' = [work EXCEPT ![d] = "mark"]
     \/ accepted' \in {accepted, accepted \cup {d}} /\ WorkCaught(d)
  /\ UNCHANGED <<table, limiter, task, job, failures, asked, posted, waived, queueEnabled, up, crashes, faults>>

WorkMarks(d) ==
  /\ Working(d, "mark")
  /\ \/ work' = [work EXCEPT ![d] = "ok"] /\ faults' = faults
     \/ Fault /\ WorkCaught(d)
  /\ UNCHANGED <<table, limiter, task, job, failures, history, queueEnabled, up, crashes>>

\* The error hook and the failure row of a final attempt.
WorkRecords(d) ==
  /\ Working(d, "record")
  /\ RecordFailure(d)
  /\ work' = [work EXCEPT ![d] = "throw"]
  /\ UNCHANGED <<table, limiter, task, job, asked, accepted, posted, processed, queueEnabled, up, crashes>>

\* The queue's side (external): another attempt, or the end.
Reported(d) ==
  LET n == job[d].attempts + 1
      st == IF work[d] = "ok" \/ n >= RetryCount THEN "finished" ELSE "waiting"
  IN  [job EXCEPT ![d].st = st, ![d].attempts = n]

\* A result that does not reach Redis leaves the job active with no worker.
WorkEnds(d) ==
  /\ Working(d, "ok") \/ Working(d, "throw")
  /\ \/ job' = Reported(d) /\ faults' = faults
     \/ Fault /\ job' = job
  /\ work' = [work EXCEPT ![d] = None]
  /\ UNCHANGED <<table, limiter, task, failures, history, queueEnabled, up, crashes>>

\* A job whose worker vanished is handed out again once; the second time it
\* fails, and process() never hears of it.
Stalled(d) ==
  /\ up /\ job[d] # None /\ job[d].st = "active" /\ work[d] = None
  /\ IF job[d].stalls = 0
       THEN job' = [job EXCEPT ![d] = [st |-> "waiting", attempts |-> @.attempts, stalls |-> 1]] /\ waived' = waived
       ELSE job' = [job EXCEPT ![d].st = "finished"] /\ waived' = waived \cup {d}
  /\ UNCHANGED <<table, limiter, task, work, failures, asked, accepted, posted, processed, queueEnabled, up, crashes, faults>>

-----------------------------------------------------------------------------
(* The process *)

\* In flight, and nowhere else.
OnlyHere == {d \in Deliveries : task[d] # None /\ task[d].pc # "leaving" /\ ~Unfinished(d)}

Crash ==
  /\ up /\ crashes < MaxCrashes
  /\ up' = FALSE /\ crashes' = crashes + 1
  /\ edit' = [w \in Webhooks |-> None]
  /\ active' = 0 /\ waiters' = <<>>
  /\ task' = [d \in Deliveries |-> None] /\ work' = [d \in Deliveries |-> None]
  /\ waived' = waived \cup OnlyHere
  /\ UNCHANGED <<webhook, job, failures, asked, accepted, posted, processed, queueEnabled, faults>>

Boot ==
  /\ ~up /\ up' = TRUE
  /\ UNCHANGED <<table, limiter, task, job, work, failures, history, queueEnabled, crashes, faults>>

Direct(d) == PostSucceeds(d) \/ PostFails(d) \/ Mark(d) \/ Backoff(d) \/ Record(d)

Deliver(d) ==
  \/ BeforeContinues(d) \/ BeforeWaives(d) \/ QueueAdd(d) \/ QueueAddFails(d)
  \/ Direct(d) \/ Leaving(d)

Process(d) == WorkPosts(d) \/ WorkMarks(d) \/ WorkRecords(d) \/ WorkEnds(d)

Next ==
  \/ \E w \in Edited : EditBegins(w) \/ EditSaves(w) \/ Delete(w)
  \/ \E e \in Events : Dispatch(e) \/ DispatchLookupFails(e)
  \/ \E d \in Deliveries : Deliver(d) \/ Take(d) \/ Process(d) \/ Stalled(d)
  \/ Crash \/ Boot

Spec == Init /\ [][Next]_vars

\* Hooks and requests end (WEBHOOK_TIMEOUT), timers fire, the queue hands out
\* what waits and looks for stalled jobs, the process is started again.
Fairness ==
  /\ \A d \in Deliveries : WF_vars(Deliver(d)) /\ WF_vars(Take(d) \/ Process(d) \/ Stalled(d))
  /\ WF_vars(Boot)

FairSpec == Spec /\ Fairness

-----------------------------------------------------------------------------
(* Properties *)

\* Type correctness: attempts stay within retryCount, a waiter is a delivery.
TypeOK ==
  /\ webhook \in [Webhooks -> Row \cup {None}] /\ edit \in [Webhooks -> Row \cup {None}]
  /\ active \in 0 .. DispatchConcurrency /\ waiters \in Seq(Deliveries)
  /\ task \in [Deliveries -> TaskState \cup {None}]
  /\ job \in [Deliveries -> JobState \cup {None}]
  /\ work \in [Deliveries -> WorkPc \cup {None}]
  /\ failures \subseteq Deliveries /\ asked \subseteq Deliveries
  /\ accepted \subseteq Deliveries /\ waived \subseteq Deliveries
  /\ posted \in [Deliveries -> Nat] /\ processed \in [Deliveries -> Nat]
  /\ queueEnabled \in BOOLEAN /\ up \in BOOLEAN
  /\ crashes \in 0 .. MaxCrashes /\ faults \in 0 .. MaxFaults

Admitted == {d \in Deliveries : task[d] # None /\ task[d].pc # "parked"}

Parked == {d \in Deliveries : At(d, "parked")}

\* The limiter counts exactly the deliveries it has let in, never more than its
\* limit, keeps nobody waiting while a slot is free, and has each parked
\* delivery in its queue once (ConcurrencyLimiter.run's hand-over of slots).
SlotsExact ==
  /\ active = Cardinality(Admitted) /\ active <= DispatchConcurrency
  /\ waiters # <<>> => active = DispatchConcurrency
  /\ {waiters[i] : i \in DOMAIN waiters} = Parked
  /\ Len(waiters) = Cardinality(Parked)

Carried(d) == (task[d] # None /\ task[d].pc # "leaving") \/ Unfinished(d)

\* No event is dropped without a trace: what was dispatched reached its
\* receiver, is on its way, left a failure row, or ended at one of five places:
\* a failed lookup, webhook:before, a row that cannot be written, a crash in the
\* direct path, a second stall.
EndedKnowingly == asked \subseteq accepted \cup failures \cup waived \cup {d \in Deliveries : Carried(d)}

Stalls(d) == IF job[d] = None THEN 0 ELSE job[d].stalls

\* Each path POSTs retryCount times at most, the first POST counted, once for 0, and
\* once more for a worker that vanished; both paths run only after a call of Redis failed.
PostsBounded ==
  \A d \in Deliveries :
    /\ posted[d] <= Attempts
    /\ processed[d] <= Attempts + Stalls(d)
    /\ posted[d] > 0 /\ processed[d] > 0 => faults > 0

\* What webhook.dto.ts:99 says of retryCount, "Number of retry attempts on failure": the
\* first POST is not one of them. The code counts it, so TLC refutes this.
RetriesAsDocumented == \A d \in failures : posted[d] + processed[d] > RetryCount

Carrier == INSTANCE Carriage WITH taken <- asked, delivered <- accepted,
                                   given <- failures \cup waived

\* Webhook delivery implements the abstract carrier: it delivers only what was
\* dispatched, and settles every delivery.
CarrierSpec == Carrier!Spec

=============================================================================
