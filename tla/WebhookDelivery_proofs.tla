------------------------ MODULE WebhookDelivery_proofs ------------------------
(***************************************************************************)
(* Theorems about the webhook deliveries, for any events, webhooks, retry  *)
(* counts, limits, faults and crashes.  Two arguments carry them.  A slot  *)
(* of the limiter is owned by whoever is admitted and passed on, never     *)
(* freed and taken again, so its count is a cardinality.  And for each     *)
(* delivery the posts of either path are tied to the attempt that path has *)
(* reached, so that it ends in time and only after it left a trace.        *)
(***************************************************************************)
EXTENDS WebhookDelivery, FiniteSetTheorems, SequenceTheorems, TLAPS

-----------------------------------------------------------------------------
(* The inductive invariant *)

\* Points of deliverToWebhook() before either path, and within the direct one.
Early == {"parked", "before", "add"}
Tried == {"mark", "backoff", "record"}

\* The limiter: each waiter waits once.
SlotsInv ==
  /\ active = Cardinality(Admitted) /\ active <= DispatchConcurrency
  /\ waiters # <<>> => active = DispatchConcurrency
  /\ \A i, j \in 1 .. Len(waiters) : waiters[i] = waiters[j] => i = j
  /\ \A d \in Deliveries : At(d, "parked") <=> \E i \in 1 .. Len(waiters) : waiters[i] = d

\* The direct path: the attempt it is at is the number of its posts.
TaskOK(d) ==
  task[d] # None =>
    /\ d \in asked
    /\ task[d].pc \in Early => job[d] = None /\ posted[d] = 0
    /\ task[d].pc \in Early => task[d].attempt = 1
    /\ task[d].pc = "post" => posted[d] = task[d].attempt - 1
    /\ task[d].pc \in Tried => posted[d] = task[d].attempt
    /\ task[d].pc = "backoff" => task[d].attempt < RetryCount
    /\ task[d].pc = "mark" => d \in accepted

\* An attempt of the worker that has posted and is not counted yet.
Underway(d) == IF job[d].st = "active" /\ work[d] # "post" THEN 1 ELSE 0

\* The worker's path, likewise.
JobOK(d) ==
  /\ job[d] = None => work[d] = None /\ processed[d] = 0
  /\ job[d] # None =>
       /\ d \in asked
       /\ work[d] # None => job[d].st = "active"
       /\ job[d].st # "finished" =>
            job[d].attempts < Attempts /\ processed[d] <= job[d].attempts + job[d].stalls + Underway(d)
       /\ processed[d] <= Attempts + job[d].stalls
       /\ work[d] \in {"mark", "ok"} => d \in accepted
       /\ work[d] = "throw" => job[d].attempts + 1 < RetryCount \/ d \in failures \cup waived

\* What has become of the delivery.
Traced(d) == d \in accepted \cup failures \cup waived \/ Carried(d)

TraceOK(d) ==
  /\ posted[d] <= Attempts
  /\ IF d \in asked THEN Traced(d) ELSE posted[d] = 0
  /\ job[d] # None /\ (posted[d] > 0 \/ At(d, "post")) => faults > 0

DeliveryInv(d) == TaskOK(d) /\ JobOK(d) /\ TraceOK(d)

IInv == TypeOK /\ SlotsInv /\ \A d \in Deliveries : DeliveryInv(d)

-----------------------------------------------------------------------------
(* Lemmas *)

\* The bounds are numbers, and there is an attempt to be made.
LEMMA Bounds ==
  /\ RetryCount \in Nat /\ Attempts \in Nat \ {0} /\ RetryCount <= Attempts
  /\ DispatchConcurrency \in Nat /\ MaxFaults \in Nat /\ MaxCrashes \in Nat
  /\ None \notin TaskState /\ None \notin JobState /\ None \notin WorkPc /\ None \notin Row
  /\ IsFiniteSet(Deliveries)
BY WebhookAssumption DEF Attempts

\* A set of deliveries is finite.
LEMMA SetsAreFinite ==
  /\ IsFiniteSet(Admitted) /\ Cardinality(Admitted) \in Nat
  /\ IsFiniteSet(Admitted') /\ Cardinality(Admitted') \in Nat
<1>1. Admitted \in SUBSET Deliveries /\ Admitted' \in SUBSET Deliveries
  BY DEF Admitted
<1> QED
  BY <1>1, Bounds, FS_Subset, FS_CardinalityType

\* A delivery that goes on under its slot leaves the limiter exact.
LEMMA SlotsKept ==
  ASSUME TypeOK, SlotsInv, NEW d \in Deliveries, task[d] # None, task[d].pc # "parked",
         NEW t \in TaskState, t.pc # "parked", task' = [task EXCEPT ![d] = t],
         UNCHANGED limiter
  PROVE  SlotsInv'
<1>1. t # None  BY Bounds
<1>2. \A x \in Deliveries : task'[x] = IF x = d THEN t ELSE task[x]  BY DEF TypeOK
<1>3. Admitted' = Admitted  BY <1>1, <1>2 DEF Admitted
<1>4. \A x \in Deliveries : At(x, "parked")' <=> At(x, "parked")  BY <1>1, <1>2 DEF At
<1> QED  BY <1>3, <1>4 DEF SlotsInv, limiter

\* A delivery keeps its invariant while another one moves: histories only grow.
LEMMA OtherDelivery ==
  ASSUME IInv, NEW x \in Deliveries,
         task'[x] = task[x], job'[x] = job[x], work'[x] = work[x],
         posted'[x] = posted[x], processed'[x] = processed[x],
         x \in asked' <=> x \in asked,
         accepted \subseteq accepted', failures \subseteq failures', waived \subseteq waived',
         faults' \in Nat, faults <= faults'
  PROVE  DeliveryInv(x)'
<1>1. DeliveryInv(x) /\ faults \in Nat /\ job' [x] = job[x]
  BY Bounds DEF IInv, TypeOK
<1>2. TaskOK(x)'  BY <1>1 DEF DeliveryInv, TaskOK
<1>3. JobOK(x)'  BY <1>1 DEF DeliveryInv, JobOK, Underway
<1>4. Carried(x)' <=> Carried(x)  BY DEF Carried, Unfinished
<1>5. At(x, "post")' <=> At(x, "post")  BY DEF At
<1>6. TraceOK(x)'  BY <1>1, <1>4, <1>5 DEF DeliveryInv, TraceOK, Traced
<1> QED  BY <1>2, <1>3, <1>6 DEF DeliveryInv

\* A step of the direct path that keeps its slot.
LEMMA TaskMoves ==
  ASSUME IInv, NEW d \in Deliveries, task[d] # None, task[d].pc # "parked",
         NEW t \in TaskState, t.pc # "parked", task' = [task EXCEPT ![d] = t],
         NEW j \in JobState \cup {None}, job' = [job EXCEPT ![d] = j],
         NEW n \in Nat, posted' = [posted EXCEPT ![d] = n],
         accepted' \in {accepted, accepted \cup {d}}, failures' \in {failures, failures \cup {d}},
         waived' \in {waived, waived \cup {d}}, faults' \in {faults, faults + 1}, faults' <= MaxFaults,
         UNCHANGED <<table, limiter, work, processed, asked, queueEnabled, up, crashes>>,
         DeliveryInv(d)'
  PROVE  IInv'
<1>1. TypeOK /\ SlotsInv /\ faults \in Nat  BY Bounds DEF IInv, TypeOK
<1>2. faults' \in 0 .. MaxFaults /\ faults' \in Nat /\ faults <= faults'
  BY <1>1, Bounds
<1>3. TypeOK'  BY <1>1, <1>2 DEF TypeOK, table, limiter
<1>4. SlotsInv'  BY <1>1, SlotsKept
<1>5. \A x \in Deliveries \ {d} : DeliveryInv(x)'
  BY <1>1, <1>2, OtherDelivery DEF TypeOK
<1> QED  BY <1>3, <1>4, <1>5 DEF IInv

\* A step of the queue or its worker.
LEMMA JobMoves ==
  ASSUME IInv, NEW d \in Deliveries,
         NEW j \in JobState \cup {None}, job' = [job EXCEPT ![d] = j],
         NEW w \in WorkPc \cup {None}, work' = [work EXCEPT ![d] = w],
         NEW n \in Nat, processed' = [processed EXCEPT ![d] = n],
         accepted' \in {accepted, accepted \cup {d}}, failures' \in {failures, failures \cup {d}},
         waived' \in {waived, waived \cup {d}}, faults' \in {faults, faults + 1}, faults' <= MaxFaults,
         UNCHANGED <<table, limiter, task, posted, asked, queueEnabled, up, crashes>>,
         DeliveryInv(d)'
  PROVE  IInv'
<1>1. TypeOK /\ SlotsInv /\ faults \in Nat  BY Bounds DEF IInv, TypeOK
<1>2. faults' \in 0 .. MaxFaults /\ faults' \in Nat /\ faults <= faults'
  BY <1>1, Bounds
<1>3. TypeOK'  BY <1>1, <1>2 DEF TypeOK, table, limiter
<1>4. SlotsInv'  BY <1>1 DEF SlotsInv, limiter, Admitted, At
<1>5. \A x \in Deliveries \ {d} : DeliveryInv(x)'
  BY <1>1, <1>2, OtherDelivery DEF TypeOK
<1> QED  BY <1>3, <1>4, <1>5 DEF IInv

-----------------------------------------------------------------------------
(* deliverToWebhook *)

\* Going on to another point keeps the attempt.
LEMMA Gone ==
  ASSUME TypeOK, NEW d \in Deliveries, task[d] # None, NEW pc \in TaskPc, Goto(d, pc)
  PROVE  \E t \in TaskState :
           /\ t.pc = pc /\ t.attempt = task[d].attempt /\ t # None
           /\ task' = [task EXCEPT ![d] = t] /\ task'[d] = t
<1> DEFINE t == [task[d] EXCEPT !.pc = pc]
<1>1. task[d] \in TaskState  BY DEF TypeOK
<1>2. t \in TaskState /\ t.pc = pc /\ t.attempt = task[d].attempt
  BY <1>1 DEF TaskState
<1>3. t # None  BY <1>2, Bounds
<1>4. task' = [task EXCEPT ![d] = t] /\ task'[d] = t  BY DEF TypeOK, Goto
<1> QED  BY <1>2, <1>3, <1>4

\* webhook:before, and the queue's answer to an add().
LEMMA EarlyKeeps ==
  ASSUME IInv, NEW d \in Deliveries,
         BeforeContinues(d) \/ BeforeWaives(d) \/ QueueAdd(d) \/ QueueAddFails(d)
  PROVE  IInv'
<1>1. TypeOK /\ DeliveryInv(d)  BY DEF IInv
<1>2. /\ posted[d] \in Nat /\ posted = [posted EXCEPT ![d] = posted[d]] /\ faults \in Nat
      /\ job[d] \in JobState \cup {None} /\ job = [job EXCEPT ![d] = job[d]] /\ faults <= MaxFaults
  BY <1>1, Bounds DEF TypeOK
<1>3. task[d] # None /\ task[d].pc \in {"before", "add"}
  BY DEF BeforeContinues, BeforeWaives, QueueAdd, QueueAddFails, At
<1>4. /\ job[d] = None /\ work[d] = None /\ posted[d] = 0 /\ processed[d] = 0
      /\ task[d].attempt = 1 /\ d \in asked
  BY <1>1, <1>3 DEF DeliveryInv, TaskOK, JobOK, Early
<1>5. Goto(d, "add") \/ Goto(d, "post") \/ Goto(d, "leaving")
  BY DEF BeforeContinues, BeforeWaives, QueueAdd, QueueAddFails, AddRejected
<1>6. PICK pc \in {"add", "post", "leaving"} : Goto(d, pc)  BY <1>5
<1>7. PICK t \in TaskState : /\ t.pc = pc /\ t.attempt = 1 /\ t # None
                             /\ task' = [task EXCEPT ![d] = t] /\ task'[d] = t
  BY <1>1, <1>3, <1>4, <1>6, Gone DEF TaskPc
<1> DEFINE q == [st |-> "waiting", attempts |-> 0, stalls |-> 0]
<1>8. q \in JobState /\ q # None /\ q.st = "waiting" /\ q.attempts = 0 /\ q.stalls = 0
  BY Bounds DEF JobState
<1> HIDE DEF q
<1>9. CASE BeforeContinues(d)
  <2>1. pc # "leaving"  BY <1>1, <1>3, <1>7, <1>9 DEF BeforeContinues, Goto, TypeOK, TaskState
  <2>2. UNCHANGED <<table, limiter, job, work, failures, history, faults, queueEnabled, up, crashes>>
    BY <1>9 DEF BeforeContinues
  <2>3. DeliveryInv(d)'
    BY <1>1, <1>2, <1>4, <1>7, <2>1, <2>2, Bounds
    DEF history, DeliveryInv, TaskOK, JobOK, TraceOK, Traced, Carried, Unfinished, At, Early, Tried
  <2> QED  BY <1>2, <1>3, <1>7, <2>2, <2>3, TaskMoves DEF history
<1>10. CASE BeforeWaives(d)
  <2>1. pc = "leaving"  BY <1>1, <1>3, <1>7, <1>10 DEF BeforeWaives, Goto, TypeOK, TaskState
  <2>2. /\ UNCHANGED <<table, limiter, job, work, failures, asked, accepted, posted, processed, faults>>
        /\ waived' = waived \cup {d} /\ UNCHANGED <<queueEnabled, up, crashes>>
    BY <1>10 DEF BeforeWaives
  <2>3. DeliveryInv(d)'
    BY <1>1, <1>2, <1>4, <1>7, <2>1, <2>2, Bounds
    DEF DeliveryInv, TaskOK, JobOK, TraceOK, Traced, Carried, Unfinished, At, Early, Tried
  <2> QED  BY <1>2, <1>3, <1>7, <2>1, <2>2, <2>3, TaskMoves
<1>11. CASE QueueAdd(d)
  <2>1. pc = "leaving"  BY <1>1, <1>3, <1>7, <1>11 DEF QueueAdd, Goto, TypeOK, TaskState
  <2>2. /\ UNCHANGED <<table, limiter, work, failures, history, faults, queueEnabled, up, crashes>>
        /\ job' = [job EXCEPT ![d] = q] /\ job'[d] = q
    BY <1>1, <1>11 DEF q, QueueAdd, Queued, TypeOK
  <2>a. /\ work'[d] = None /\ processed'[d] = 0 /\ posted'[d] = 0 /\ asked' = asked /\ 0 <= Attempts
        /\ 0 < Attempts
    BY <1>4, <2>2, Bounds DEF history
  <2>b. TaskOK(d)'  BY <1>4, <1>7, <2>1, <2>a DEF TaskOK, Early, Tried
  <2>c. JobOK(d)'
    <3>1. job'[d].st = "waiting" /\ job'[d].attempts = 0 /\ job'[d].stalls = 0  BY <1>8, <2>2
    <3> QED  BY <1>4, <2>a, <3>1, Bounds DEF JobOK, Underway, WorkPc
  <2>d. TraceOK(d)'
    BY <1>7, <1>8, <2>1, <2>2, <2>a DEF TraceOK, Traced, Carried, Unfinished, At
  <2>3. DeliveryInv(d)'  BY <2>b, <2>c, <2>d DEF DeliveryInv
  <2> QED  BY <1>2, <1>3, <1>7, <1>8, <2>1, <2>2, <2>3, TaskMoves DEF history
<1>12. CASE QueueAddFails(d)
  <2>1. pc = "post"  BY <1>1, <1>3, <1>7, <1>12 DEF QueueAddFails, AddRejected, Goto, TypeOK, TaskState
  <2>2. /\ UNCHANGED <<table, limiter, work, failures, history, queueEnabled, up, crashes>>
        /\ faults' = faults + 1 /\ faults' <= MaxFaults /\ faults' > 0
    BY <1>2, <1>12, Bounds DEF QueueAddFails, Fault
  <2>3. PICK j \in {None, q} : job' = [job EXCEPT ![d] = j] /\ job'[d] = j
    BY <1>1, <1>2, <1>4, <1>12 DEF q, QueueAddFails, Queued, TypeOK
  <2>a. /\ work'[d] = None /\ processed'[d] = 0 /\ posted'[d] = 0 /\ asked' = asked /\ 0 <= Attempts
        /\ 0 < Attempts
    BY <1>4, <2>2, Bounds DEF history
  <2>b. TaskOK(d)'  BY <1>4, <1>7, <2>1, <2>a DEF TaskOK, Early, Tried
  <2>c. JobOK(d)'
    <3>1. job'[d] # None => job'[d].st = "waiting" /\ job'[d].attempts = 0 /\ job'[d].stalls = 0
      BY <1>8, <2>3
    <3> QED  BY <1>4, <2>a, <3>1, Bounds DEF JobOK, Underway, WorkPc
  <2>d. TraceOK(d)'
    BY <1>4, <1>7, <2>1, <2>2, <2>a DEF TraceOK, Traced, Carried, At
  <2>4. DeliveryInv(d)'  BY <2>b, <2>c, <2>d DEF DeliveryInv
  <2> QED  BY <1>2, <1>3, <1>7, <1>8, <2>1, <2>2, <2>3, <2>4, TaskMoves DEF history
<1> QED  BY <1>9, <1>10, <1>11, <1>12

-----------------------------------------------------------------------------
(* deliverWebhookDirect *)

\* The worker's path of a delivery does not notice the direct one.
LEMMA JobKept ==
  ASSUME IInv, NEW x \in Deliveries, x \in asked' <=> x \in asked,
         job'[x] = job[x], work'[x] = work[x], processed'[x] = processed[x],
         accepted \subseteq accepted', failures \subseteq failures', waived \subseteq waived'
  PROVE  JobOK(x)'
<1>1. JobOK(x)  BY DEF IInv, DeliveryInv
<1> QED  BY <1>1 DEF JobOK, Underway

\* An attempt posts, and is answered or not.
LEMMA PostKeeps ==
  ASSUME IInv, NEW d \in Deliveries, PostSucceeds(d) \/ PostFails(d)
  PROVE  IInv'
<1>1. /\ TypeOK /\ TaskOK(d) /\ TraceOK(d)
      /\ task[d] # None /\ task[d].pc = "post" /\ task[d] \in TaskState
  BY DEF IInv, DeliveryInv, TypeOK, PostSucceeds, PostFails, At
<1>2. /\ d \in asked /\ posted[d] = task[d].attempt - 1 /\ task[d].attempt \in 1 .. Attempts
      /\ job[d] # None => faults > 0
  BY <1>1 DEF TaskOK, TraceOK, At, TaskState
<1>3. /\ posted' = [posted EXCEPT ![d] = posted[d] + 1] /\ posted[d] + 1 = task[d].attempt
      /\ posted'[d] = task[d].attempt /\ posted[d] + 1 \in Nat
      /\ accepted' \in {accepted, accepted \cup {d}}
      /\ UNCHANGED <<table, limiter, job, work, failures, asked, processed, waived, queueEnabled,
                     up, crashes, faults>>
  BY <1>1, <1>2, Bounds DEF PostSucceeds, PostFails, TypeOK
<1>4. /\ faults \in Nat /\ faults <= MaxFaults /\ job[d] \in JobState \cup {None}
      /\ job = [job EXCEPT ![d] = job[d]]
  BY <1>1, Bounds DEF TypeOK
<1>5. PICK pc \in Tried : /\ Goto(d, pc)
                          /\ pc = "mark" => accepted' = accepted \cup {d}
                          /\ pc = "backoff" => task[d].attempt < RetryCount
  BY DEF PostSucceeds, PostFails, Caught, MayRetry, Tried
<1>6. PICK t \in TaskState : /\ t.pc = pc /\ t.attempt = task[d].attempt /\ t # None
                             /\ task' = [task EXCEPT ![d] = t] /\ task'[d] = t
  <2>1. pc \in TaskPc  BY <1>5 DEF TaskPc, Tried
  <2> QED  BY <1>1, <1>5, <2>1, Gone
<1>7. JobOK(d)'
  <2>1. accepted \subseteq accepted' /\ failures' = failures /\ waived' = waived  BY <1>3
  <2> QED  BY <1>3, <2>1, JobKept
<1>8. TaskOK(d)'  BY <1>2, <1>3, <1>5, <1>6 DEF TaskOK, Early, Tried
<1>9. TraceOK(d)'
  BY <1>2, <1>3, <1>5, <1>6 DEF TraceOK, Traced, Carried, At, Tried
<1> QED  BY <1>1, <1>3, <1>4, <1>5, <1>6, <1>7, <1>8, <1>9, TaskMoves DEF DeliveryInv, Tried

\* What follows an attempt: the mark, the pause, the failure row.
LEMMA AfterPostKeeps ==
  ASSUME IInv, NEW d \in Deliveries, Mark(d) \/ Backoff(d) \/ Record(d)
  PROVE  IInv'
<1>1. /\ TypeOK /\ TaskOK(d) /\ TraceOK(d)
      /\ task[d] # None /\ task[d].pc \in Tried /\ task[d] \in TaskState
  BY DEF IInv, DeliveryInv, TypeOK, Mark, Backoff, Record, At, Tried
<1>2. /\ d \in asked /\ posted[d] = task[d].attempt /\ task[d].attempt \in 1 .. Attempts
      /\ job[d] # None => faults > 0
      /\ posted[d] \in Nat /\ posted = [posted EXCEPT ![d] = posted[d]] /\ faults \in Nat
      /\ job[d] \in JobState \cup {None} /\ job = [job EXCEPT ![d] = job[d]] /\ faults <= MaxFaults
  BY <1>1, Bounds DEF TaskOK, TraceOK, At, TaskState, TypeOK
<1>3. CASE Mark(d)
  <2>1. task[d].pc = "mark" /\ d \in accepted  BY <1>1, <1>3 DEF Mark, At, TaskOK
  <2>2. PICK pc \in {"leaving", "backoff", "record"} :
          Goto(d, pc) /\ (pc = "backoff" => task[d].attempt < RetryCount)
    BY <1>3 DEF Mark, Caught, MayRetry
  <2>3. PICK t \in TaskState : /\ t.pc = pc /\ t.attempt = task[d].attempt /\ t # None
                               /\ task' = [task EXCEPT ![d] = t] /\ task'[d] = t
    BY <1>1, <2>2, Gone DEF TaskPc
  <2>4. /\ faults' \in {faults, faults + 1} /\ faults' <= MaxFaults /\ faults <= faults'
        /\ UNCHANGED <<table, limiter, job, work, failures, history, queueEnabled, up, crashes>>
    BY <1>2, <1>3, Bounds DEF Mark, Fault
  <2>5. JobOK(d)'  BY <2>4, JobKept DEF history
  <2>6. TaskOK(d)'  BY <1>2, <2>2, <2>3, <2>4 DEF TaskOK, Early, Tried, history
  <2>7. TraceOK(d)'
    BY <1>2, <2>1, <2>4 DEF TraceOK, Traced, history
  <2> QED  BY <1>1, <1>2, <2>1, <2>2, <2>3, <2>4, <2>5, <2>6, <2>7, TaskMoves DEF DeliveryInv, history
<1>4. CASE Backoff(d)
  <2> DEFINE t == [pc |-> "post", attempt |-> task[d].attempt + 1]
  <2>1. task[d].pc = "backoff" /\ task[d].attempt < RetryCount  BY <1>1, <1>4 DEF Backoff, At, TaskOK
  <2>2. t \in TaskState /\ t # None /\ t.pc = "post" /\ t.attempt = task[d].attempt + 1
    BY <1>2, <2>1, Bounds DEF TaskState, TaskPc
  <2>3. task' = [task EXCEPT ![d] = t] /\ task'[d] = t  BY <1>1, <1>4 DEF Backoff, TypeOK
  <2>4. UNCHANGED <<table, limiter, job, work, failures, history, faults, queueEnabled, up, crashes>>
    BY <1>4 DEF Backoff
  <2> HIDE DEF t
  <2>5. JobOK(d)'  BY <2>4, JobKept DEF history
  <2>6. TaskOK(d)'  BY <1>2, <2>2, <2>3, <2>4 DEF TaskOK, Early, Tried, history
  <2>7. TraceOK(d)'
    BY <1>2, <2>2, <2>3, <2>4 DEF TraceOK, Traced, Carried, history
  <2> QED  BY <1>1, <1>2, <2>1, <2>2, <2>3, <2>4, <2>5, <2>6, <2>7, TaskMoves DEF DeliveryInv, history
<1>5. CASE Record(d)
  <2>1. Goto(d, "leaving")  BY <1>5 DEF Record
  <2>2. PICK t \in TaskState : /\ t.pc = "leaving" /\ t.attempt = task[d].attempt /\ t # None
                               /\ task' = [task EXCEPT ![d] = t] /\ task'[d] = t
    BY <1>1, <2>1, Gone DEF TaskPc
  <2>3. /\ \/ failures' = failures \cup {d} /\ waived' = waived
           \/ waived' = waived \cup {d} /\ failures' = failures
        /\ faults' \in {faults, faults + 1} /\ faults' <= MaxFaults /\ faults <= faults'
        /\ UNCHANGED <<table, limiter, job, work, asked, accepted, posted, processed, queueEnabled,
                       up, crashes>>
    BY <1>2, <1>5, Bounds DEF Record, RecordFailure, Fault
  <2>4. JobOK(d)'  BY <2>3, JobKept
  <2>5. TaskOK(d)'  BY <1>2, <2>2, <2>3 DEF TaskOK, Early, Tried
  <2>6. TraceOK(d)'  BY <1>2, <2>3 DEF TraceOK, Traced
  <2>7. failures' \in {failures, failures \cup {d}} /\ waived' \in {waived, waived \cup {d}}
    BY <2>3
  <2> QED  BY <1>1, <1>2, <2>2, <2>3, <2>4, <2>5, <2>6, <2>7, TaskMoves DEF DeliveryInv, Tried
<1> QED  BY <1>3, <1>4, <1>5

-----------------------------------------------------------------------------
(* The queue and its worker *)

\* A step on a job of the queue leaves the direct path of its delivery alone.
LEMMA WorkMoves ==
  ASSUME IInv, NEW d \in Deliveries, job[d] # None,
         NEW j \in JobState, job' = [job EXCEPT ![d] = j],
         NEW w \in WorkPc \cup {None}, work' = [work EXCEPT ![d] = w],
         NEW n \in Nat, processed' = [processed EXCEPT ![d] = n],
         accepted' \in {accepted, accepted \cup {d}}, failures' \in {failures, failures \cup {d}},
         waived' \in {waived, waived \cup {d}}, faults' \in {faults, faults + 1}, faults' <= MaxFaults,
         UNCHANGED <<table, limiter, task, posted, asked, queueEnabled, up, crashes>>,
         JobOK(d)',
         j.st # "finished" \/ d \in accepted' \cup failures' \cup waived'
  PROVE  IInv'
<1>1. TypeOK /\ TaskOK(d) /\ JobOK(d) /\ TraceOK(d) /\ faults \in Nat
  BY Bounds DEF IInv, DeliveryInv, TypeOK
<1>2. j # None /\ job'[d] = j  BY <1>1, Bounds DEF TypeOK
<1>3. TaskOK(d)'  BY <1>1 DEF TaskOK
<1>4. Traced(d)'  BY <1>2 DEF Traced, Carried, Unfinished
<1>5. job[d] # None /\ (posted[d] > 0 \/ At(d, "post")) => faults' > 0
  BY <1>1 DEF TraceOK
<1>6. TraceOK(d)'
  BY <1>1, <1>4, <1>5 DEF TraceOK, At, JobOK
<1> QED  BY <1>3, <1>6, JobMoves DEF DeliveryInv

\* What the invariants say of a job.
LEMMA JobFacts ==
  ASSUME IInv, NEW d \in Deliveries, job[d] # None
  PROVE  /\ job[d] \in JobState /\ job = [job EXCEPT ![d] = job[d]] /\ d \in asked
         /\ job[d].st \in {"waiting", "active", "finished"}
         /\ job[d].attempts \in 0 .. Attempts /\ job[d].stalls \in 0 .. 1
         /\ processed[d] \in Nat /\ processed = [processed EXCEPT ![d] = processed[d]]
         /\ work[d] \in WorkPc \cup {None} /\ work = [work EXCEPT ![d] = work[d]]
         /\ faults \in Nat /\ faults <= MaxFaults
         /\ processed[d] <= Attempts + job[d].stalls
         /\ work[d] # None => job[d].st = "active"
         /\ job[d].st # "finished" =>
              job[d].attempts < Attempts /\ processed[d] <= job[d].attempts + job[d].stalls + Underway(d)
         /\ work[d] \in {"mark", "ok"} => d \in accepted
         /\ work[d] = "throw" => job[d].attempts + 1 < RetryCount \/ d \in failures \cup waived
<1>1. TypeOK /\ JobOK(d)  BY DEF IInv, DeliveryInv
<1>2. job[d] \in JobState  BY <1>1 DEF TypeOK
<1>3. /\ job[d].st \in {"waiting", "active", "finished"}
      /\ job[d].attempts \in 0 .. Attempts /\ job[d].stalls \in 0 .. 1
  BY <1>2 DEF JobState
<1>4. /\ job = [job EXCEPT ![d] = job[d]] /\ processed = [processed EXCEPT ![d] = processed[d]]
      /\ work = [work EXCEPT ![d] = work[d]] /\ processed[d] \in Nat
      /\ work[d] \in WorkPc \cup {None} /\ faults \in Nat /\ faults <= MaxFaults
  BY <1>1, Bounds DEF TypeOK
<1> QED  BY <1>1, <1>2, <1>3, <1>4 DEF JobOK

\* A free slot takes a waiting job.
LEMMA TakeKeeps ==
  ASSUME IInv, NEW d \in Deliveries, Take(d)
  PROVE  IInv'
<1> DEFINE j == [job[d] EXCEPT !.st = "active"]
<1>1. /\ job[d] # None /\ job[d].st = "waiting" /\ job' = [job EXCEPT ![d] = j]
      /\ work' = [work EXCEPT ![d] = "post"]
      /\ UNCHANGED <<table, limiter, task, failures, history, queueEnabled, up, crashes, faults>>
  BY DEF Take
<1>2. /\ j \in JobState /\ j.st = "active" /\ j.attempts = job[d].attempts /\ j.stalls = job[d].stalls
  BY <1>1, JobFacts DEF JobState
<1> HIDE DEF j
<1>3. job'[d] = j /\ work'[d] = "post" /\ "post" \in WorkPc
  BY <1>1 DEF IInv, TypeOK, WorkPc
<1>4. Underway(d) = 0 /\ Underway(d)' = 0  BY <1>1, <1>2, <1>3 DEF Underway
<1>5. JobOK(d)'
  BY <1>1, <1>2, <1>3, <1>4, JobFacts, Bounds DEF JobOK, history
<1> QED  BY <1>1, <1>2, <1>3, <1>5, JobFacts, WorkMoves DEF history

\* process() makes its attempt, marks it and records the last failure.
LEMMA ProcessKeeps ==
  ASSUME IInv, NEW d \in Deliveries, WorkPosts(d) \/ WorkMarks(d) \/ WorkRecords(d)
  PROVE  IInv'
<1>1. /\ work[d] \in {"post", "mark", "record"} /\ job[d] # None /\ job[d].st = "active"
  <2>1. work[d] \in {"post", "mark", "record"}
    BY DEF WorkPosts, WorkMarks, WorkRecords, Working
  <2>2. work[d] # None  BY <2>1, Bounds DEF WorkPc
  <2> QED  BY <2>1, <2>2, JobFacts DEF IInv, DeliveryInv, JobOK
<1>2. UNCHANGED <<table, limiter, task, job, posted, asked, queueEnabled, up, crashes>>
  BY DEF WorkPosts, WorkMarks, WorkRecords, history
<1>3. PICK w \in WorkPc : work' = [work EXCEPT ![d] = w] /\ work'[d] = w
  <2>1. PICK w \in WorkPc : work' = [work EXCEPT ![d] = w]
    BY DEF WorkPosts, WorkMarks, WorkRecords, WorkCaught, WorkPc
  <2> QED  BY <2>1 DEF IInv, TypeOK
<1>4. w # None /\ None \notin {"post", "mark", "record", "throw", "ok"}  BY Bounds DEF WorkPc
<1>5. IsFinalAttempt(d) \/ job[d].attempts + 1 < RetryCount
  BY <1>1, JobFacts, Bounds DEF IsFinalAttempt
<1>6. CASE WorkPosts(d)
  <2>1. work[d] = "post" /\ Underway(d) = 0  BY <1>6 DEF WorkPosts, Working, Underway
  <2>2. /\ processed' = [processed EXCEPT ![d] = processed[d] + 1] /\ processed'[d] = processed[d] + 1
        /\ processed[d] + 1 \in Nat /\ accepted' \in {accepted, accepted \cup {d}}
        /\ UNCHANGED <<failures, waived, faults>>
    BY <1>1, <1>6, JobFacts DEF WorkPosts, IInv, TypeOK
  <2>3. w \in {"mark", "record", "throw"}
    BY <1>3, <1>6 DEF WorkPosts, WorkCaught, IInv, TypeOK
  <2>4. w = "mark" => d \in accepted'
    BY <1>3, <1>6 DEF WorkPosts, WorkCaught, IInv, TypeOK
  <2>5. w = "throw" => job[d].attempts + 1 < RetryCount
    BY <1>3, <1>5, <1>6 DEF WorkPosts, WorkCaught, IInv, TypeOK
  <2>6. Underway(d)' = 1  BY <1>1, <1>2, <1>3, <2>3 DEF Underway
  <2>7. processed[d] + 1 <= job[d].attempts + job[d].stalls + 1
    BY <1>1, <2>1, JobFacts, Bounds
  <2>8. processed[d] + 1 <= Attempts + job[d].stalls
    BY <1>1, <2>7, JobFacts, Bounds
  <2>9. JobOK(d)'
    BY <1>1, <1>2, <1>3, <1>4, <2>2, <2>3, <2>4, <2>5, <2>6, <2>7, <2>8, JobFacts DEF JobOK
  <2> QED  BY <1>1, <1>2, <1>3, <2>2, <2>9, JobFacts, WorkMoves
<1>7. CASE WorkMarks(d)
  <2>1. work[d] = "mark" /\ Underway(d) = 1 /\ d \in accepted
    BY <1>1, <1>7, JobFacts DEF WorkMarks, Working, Underway
  <2>2. /\ UNCHANGED <<failures, history>> /\ faults' \in {faults, faults + 1} /\ faults' <= MaxFaults
    BY <1>1, <1>7, JobFacts, Bounds DEF WorkMarks, Fault
  <2>3. /\ w \in {"ok", "record", "throw"}
        /\ w = "throw" => job[d].attempts + 1 < RetryCount
    BY <1>3, <1>5, <1>7 DEF WorkMarks, WorkCaught, IInv, TypeOK
  <2>4. Underway(d)' = 1  BY <1>1, <1>2, <1>3, <2>3 DEF Underway
  <2>5. JobOK(d)'
    BY <1>1, <1>2, <1>3, <1>4, <2>1, <2>2, <2>3, <2>4, JobFacts DEF JobOK, history
  <2> QED  BY <1>1, <1>2, <1>3, <2>2, <2>5, JobFacts, WorkMoves DEF history
<1>8. CASE WorkRecords(d)
  <2>1. work[d] = "record" /\ Underway(d) = 1  BY <1>1, <1>8 DEF WorkRecords, Working, Underway
  <2>2. /\ UNCHANGED <<accepted, processed>> /\ faults' \in {faults, faults + 1} /\ faults' <= MaxFaults
        /\ failures' \in {failures, failures \cup {d}} /\ waived' \in {waived, waived \cup {d}}
        /\ d \in failures' \cup waived'
    BY <1>1, <1>8, JobFacts, Bounds DEF WorkRecords, RecordFailure, Fault
  <2>3. w = "throw"  BY <1>3, <1>8 DEF WorkRecords, IInv, TypeOK
  <2>4. Underway(d)' = 1  BY <1>1, <1>2, <1>3, <2>3 DEF Underway
  <2>5. JobOK(d)'
    BY <1>1, <1>2, <1>3, <1>4, <2>1, <2>2, <2>3, <2>4, JobFacts DEF JobOK
  <2> QED  BY <1>1, <1>2, <1>3, <2>2, <2>5, JobFacts, WorkMoves
<1> QED  BY <1>6, <1>7, <1>8

\* The result of an attempt reaches the queue, or it does not.
LEMMA EndsKeeps ==
  ASSUME IInv, NEW d \in Deliveries, WorkEnds(d)
  PROVE  IInv'
<1>1. /\ work[d] \in {"ok", "throw"} /\ job[d] # None /\ job[d].st = "active"
  <2>1. work[d] \in {"ok", "throw"}  BY DEF WorkEnds, Working
  <2>2. work[d] # None  BY <2>1, Bounds DEF WorkPc
  <2> QED  BY <2>1, <2>2, JobFacts DEF IInv, DeliveryInv, JobOK
<1>2. /\ UNCHANGED <<table, limiter, task, posted, asked, queueEnabled, up, crashes>>
      /\ UNCHANGED <<processed, accepted, failures, waived>> /\ work' = [work EXCEPT ![d] = None]
  BY DEF WorkEnds, history
<1>3. work'[d] = None /\ None \notin {"post", "mark", "record", "throw", "ok"}
  BY <1>2, Bounds DEF WorkPc, IInv, TypeOK
<1>4. Underway(d) = 1  BY <1>1 DEF Underway
<1>5. CASE job' = Reported(d) /\ faults' = faults
  <2> DEFINE n == job[d].attempts + 1
             st == IF work[d] = "ok" \/ n >= RetryCount THEN "finished" ELSE "waiting"
             j == [job[d] EXCEPT !.st = st, !.attempts = n]
  <2>1. n \in 0 .. Attempts  BY <1>1, JobFacts, Bounds
  <2>2. st \in {"finished", "waiting"} /\ (st = "waiting" => n < RetryCount)
    BY <1>1, <2>1, JobFacts, Bounds
  <2>3. job' = [job EXCEPT ![d] = j]  BY <1>1, <1>5, JobFacts DEF Reported, JobState
  <2>4. j \in JobState /\ j.st = st /\ j.attempts = n /\ j.stalls = job[d].stalls
    BY <1>1, <2>1, <2>2, JobFacts DEF JobState
  <2>5. st = "finished" => d \in accepted \cup failures \cup waived
    BY <1>1, JobFacts, Bounds
  <2> HIDE DEF j
  <2>6. job'[d] = j /\ j # None  BY <2>3, <2>4, Bounds DEF IInv, TypeOK
  <2>7. Underway(d)' = 0  BY <2>2, <2>4, <2>6 DEF Underway
  <2>8. JobOK(d)'
    BY <1>1, <1>2, <1>3, <1>4, <2>1, <2>2, <2>4, <2>6, <2>7, JobFacts, Bounds DEF JobOK
  <2>9. j.st # "finished" \/ d \in accepted' \cup failures' \cup waived'
    BY <1>2, <2>4, <2>5
  <2> QED  BY <1>1, <1>2, <1>5, <2>3, <2>4, <2>8, <2>9, JobFacts, WorkMoves
<1>6. CASE Fault /\ job' = job
  <2>1. faults' \in {faults, faults + 1} /\ faults' <= MaxFaults
    BY <1>1, <1>6, JobFacts, Bounds DEF Fault
  <2>2. Underway(d)' = 1  BY <1>1, <1>3, <1>6 DEF Underway
  <2>3. JobOK(d)'  BY <1>1, <1>2, <1>3, <1>4, <1>6, <2>2, JobFacts DEF JobOK
  <2> QED  BY <1>1, <1>2, <1>6, <2>1, <2>3, JobFacts, WorkMoves
<1> QED  BY <1>5, <1>6 DEF WorkEnds

\* A stalled job is handed out once more, and failed the second time.
LEMMA StalledKeeps ==
  ASSUME IInv, NEW d \in Deliveries, Stalled(d)
  PROVE  IInv'
<1>1. /\ job[d] # None /\ job[d].st = "active" /\ work[d] = None
      /\ UNCHANGED <<table, limiter, task, work, failures, asked, accepted, posted, processed,
                     queueEnabled, up, crashes, faults>>
  BY DEF Stalled
<1>2. None \notin {"post", "mark", "record", "throw", "ok"}  BY Bounds DEF WorkPc
<1>3. Underway(d) = 1  BY <1>1, <1>2 DEF Underway
<1>4. CASE job[d].stalls = 0
  <2> DEFINE j == [st |-> "waiting", attempts |-> job[d].attempts, stalls |-> 1]
  <2>1. job' = [job EXCEPT ![d] = j] /\ waived' = waived  BY <1>4 DEF Stalled
  <2>2. j \in JobState /\ j.st = "waiting" /\ j.attempts = job[d].attempts /\ j.stalls = 1
    BY <1>1, JobFacts DEF JobState
  <2> HIDE DEF j
  <2>3. job'[d] = j /\ j # None  BY <2>1, <2>2, Bounds DEF IInv, TypeOK
  <2>4. Underway(d)' = 0  BY <2>2, <2>3 DEF Underway
  <2>5. JobOK(d)'
    BY <1>1, <1>2, <1>3, <1>4, <2>1, <2>2, <2>3, <2>4, JobFacts, Bounds DEF JobOK
  <2> QED  BY <1>1, <2>1, <2>2, <2>5, JobFacts, WorkMoves
<1>5. CASE job[d].stalls # 0
  <2> DEFINE j == [job[d] EXCEPT !.st = "finished"]
  <2>1. job' = [job EXCEPT ![d] = j] /\ waived' = waived \cup {d}
    BY <1>1, <1>5, JobFacts DEF Stalled, JobState
  <2>2. j \in JobState /\ j.st = "finished" /\ j.attempts = job[d].attempts /\ j.stalls = job[d].stalls
    BY <1>1, JobFacts DEF JobState
  <2> HIDE DEF j
  <2>3. job'[d] = j /\ j # None  BY <2>1, <2>2, Bounds DEF IInv, TypeOK
  <2>4. JobOK(d)'
    BY <1>1, <1>2, <2>1, <2>2, <2>3, JobFacts, Bounds DEF JobOK
  <2> QED  BY <1>1, <2>1, <2>2, <2>4, JobFacts, WorkMoves
<1> QED  BY <1>4, <1>5

-----------------------------------------------------------------------------
(* The limiter *)

\* A waiter is parked, and a parked delivery waits somewhere in the queue.
LEMMA Waiters ==
  ASSUME TypeOK, SlotsInv
  PROVE  /\ Len(waiters) \in Nat /\ active \in Nat
         /\ \A i \in 1 .. Len(waiters) : waiters[i] \in Deliveries /\ At(waiters[i], "parked")
<1>1. waiters \in Seq(Deliveries)  BY DEF TypeOK
<1>2. Len(waiters) \in Nat  BY <1>1, LenProperties
<1>3. \A i \in 1 .. Len(waiters) : waiters[i] \in Deliveries  BY <1>1, ElementOfSeq
<1> QED  BY <1>2, <1>3, Bounds DEF SlotsInv, TypeOK

\* A slot that nobody waits for is freed.
LEMMA SlotFreed ==
  ASSUME IInv, NEW d \in Deliveries, At(d, "leaving"), waiters = <<>>, Leave(d)
  PROVE  SlotsInv' /\ active' \in 0 .. DispatchConcurrency
<1>1. TypeOK /\ SlotsInv  BY DEF IInv
<1>2. active' = active - 1 /\ waiters' = waiters /\ task' = [task EXCEPT ![d] = None]
  BY DEF Leave
<1>3. \A x \in Deliveries : task'[x] = IF x = d THEN None ELSE task[x]  BY <1>1, <1>2 DEF TypeOK
<1>4. d \in Admitted /\ Admitted' = Admitted \ {d}  BY <1>3 DEF Admitted, At
<1>5. Cardinality(Admitted') = Cardinality(Admitted) - 1
  BY <1>4, SetsAreFinite, FS_RemoveElement
<1>6. \A x \in Deliveries : At(x, "parked")' <=> At(x, "parked")  BY <1>3 DEF At
<1>7. active' \in Nat /\ active' = Cardinality(Admitted') /\ active' <= DispatchConcurrency
  BY <1>1, <1>2, <1>5, SetsAreFinite, Bounds DEF SlotsInv
<1> QED  BY <1>1, <1>2, <1>6, <1>7, Bounds DEF SlotsInv

\* A slot that somebody waits for goes to the first who does, and is not counted again.
LEMMA SlotPassed ==
  ASSUME IInv, NEW d \in Deliveries, At(d, "leaving"), waiters # <<>>, Leave(d)
  PROVE  /\ SlotsInv' /\ waiters' \in Seq(Deliveries)
         /\ Head(waiters) \in Deliveries /\ At(Head(waiters), "parked")
<1> DEFINE h == Head(waiters)
<1>1. TypeOK /\ SlotsInv /\ waiters \in Seq(Deliveries)  BY DEF IInv, TypeOK
<1>2. /\ Len(waiters) \in Nat \ {0} /\ waiters[1] = h /\ Tail(waiters) \in Seq(Deliveries)
      /\ Len(Tail(waiters)) = Len(waiters) - 1
      /\ \A i \in 1 .. Len(Tail(waiters)) : Tail(waiters)[i] = waiters[i + 1]
  BY <1>1, EmptySeq, HeadTailProperties
<1>3. h \in Deliveries /\ At(h, "parked") /\ h # d
  <2>1. 1 \in 1 .. Len(waiters)  BY <1>2
  <2> QED  BY <1>1, <1>2, <2>1, Waiters DEF At
<1>4. /\ task' = [task EXCEPT ![d] = None, ![h] = Entry("before")]
      /\ waiters' = Tail(waiters) /\ active' = active
  BY DEF Leave
<1> HIDE DEF h
<1>5. Entry("before") # None /\ Entry("before").pc = "before"
  <2>1. Entry("before") \in TaskState  BY Bounds DEF Entry, TaskState, TaskPc
  <2> QED  BY <2>1, Bounds DEF Entry
<1>6. \A x \in Deliveries : task'[x] = IF x = h THEN Entry("before") ELSE IF x = d THEN None ELSE task[x]
  BY <1>1, <1>3, <1>4 DEF TypeOK
<1>7. Admitted' = (Admitted \ {d}) \cup {h} /\ d \in Admitted /\ h \notin Admitted
  BY <1>3, <1>5, <1>6 DEF Admitted, At
<1>8. Cardinality(Admitted') = Cardinality(Admitted)
  <2>1. IsFiniteSet(Admitted \ {d}) /\ Cardinality(Admitted \ {d}) = Cardinality(Admitted) - 1
    BY <1>7, SetsAreFinite, FS_RemoveElement
  <2>2. Cardinality((Admitted \ {d}) \cup {h}) = Cardinality(Admitted \ {d}) + 1
    BY <1>7, <2>1, FS_AddElement
  <2> QED  BY <1>7, <2>1, <2>2, SetsAreFinite
<1>9. \A i, j \in 1 .. Len(waiters') : waiters'[i] = waiters'[j] => i = j
  BY <1>1, <1>2, <1>4 DEF SlotsInv
<1>10. ASSUME NEW x \in Deliveries
       PROVE  At(x, "parked")' <=> \E i \in 1 .. Len(waiters') : waiters'[i] = x
  <2>1. At(x, "parked")' <=> x # h /\ At(x, "parked")
    BY <1>3, <1>5, <1>6 DEF At
  <2>2. ASSUME x # h, At(x, "parked")  PROVE \E i \in 1 .. Len(waiters') : waiters'[i] = x
    <3>1. PICK i \in 1 .. Len(waiters) : waiters[i] = x  BY <1>1, <2>2 DEF SlotsInv
    <3>2. i # 1  BY <1>2, <2>2, <3>1
    <3>3. i - 1 \in 1 .. Len(waiters') /\ waiters'[i - 1] = x  BY <1>2, <1>4, <3>1, <3>2
    <3> QED  BY <3>3
  <2>3. ASSUME NEW i \in 1 .. Len(waiters'), waiters'[i] = x  PROVE x # h /\ At(x, "parked")
    <3>1. i + 1 \in 1 .. Len(waiters) /\ waiters[i + 1] = x /\ i + 1 # 1 /\ 1 \in 1 .. Len(waiters)
      BY <1>2, <1>4, <2>3
    <3>2. At(x, "parked")  BY <1>1, <3>1, Waiters
    <3> QED  BY <1>1, <1>2, <3>1, <3>2 DEF SlotsInv
  <2> QED  BY <2>1, <2>2, <2>3
<1>11. waiters' # <<>> => active' = DispatchConcurrency  BY <1>1, <1>4 DEF SlotsInv
<1> QED  BY <1>1, <1>2, <1>3, <1>4, <1>8, <1>9, <1>10, <1>11 DEF SlotsInv, h

\* The finally of run().
LEMMA LeavingKeeps ==
  ASSUME IInv, NEW d \in Deliveries, Leaving(d)
  PROVE  IInv'
<1>1. /\ TypeOK /\ At(d, "leaving") /\ Leave(d) /\ DeliveryInv(d)
      /\ UNCHANGED <<table, job, work, failures, history, queueEnabled, up, crashes, faults>>
  BY DEF IInv, Leaving
<1>2. faults \in Nat /\ faults' \in Nat /\ faults <= faults'  BY <1>1, Bounds DEF TypeOK
<1>3. ASSUME task'[d] = None  PROVE DeliveryInv(d)'
  <2>1. TaskOK(d)'  BY <1>3 DEF TaskOK
  <2>2. JobOK(d)'  BY <1>1, JobKept DEF history
  <2>3. Carried(d) => Carried(d)'  BY <1>1 DEF Carried, Unfinished, At
  <2>4. TraceOK(d)'
    BY <1>1, <1>3, <2>3 DEF DeliveryInv, TraceOK, Traced, At, history
  <2> QED  BY <2>1, <2>2, <2>4 DEF DeliveryInv
<1>4. CASE waiters = <<>>
  <2>1. task' = [task EXCEPT ![d] = None] /\ waiters' = waiters  BY <1>1, <1>4 DEF Leave
  <2>2. SlotsInv' /\ active' \in 0 .. DispatchConcurrency  BY <1>1, <1>4, SlotFreed
  <2>3. task' \in [Deliveries -> TaskState \cup {None}] /\ task'[d] = None
        /\ \A x \in Deliveries \ {d} : task'[x] = task[x]
    BY <1>1, <2>1 DEF TypeOK
  <2>4. TypeOK'  BY <1>1, <2>1, <2>2, <2>3 DEF TypeOK, table, history
  <2>5. \A x \in Deliveries \ {d} : DeliveryInv(x)'  BY <1>1, <1>2, <2>3, OtherDelivery DEF history
  <2> QED  BY <1>3, <2>2, <2>3, <2>4, <2>5 DEF IInv
<1>5. CASE waiters # <<>>
  <2> PICK h \in Deliveries : h = Head(waiters)
    BY <1>1, <1>5, SlotPassed
  <2> DEFINE t == Entry("before")
  <2>1. task' = [task EXCEPT ![d] = None, ![h] = t] /\ active' = active  BY <1>1, <1>5 DEF Leave
  <2>2. SlotsInv' /\ waiters' \in Seq(Deliveries) /\ h \in Deliveries /\ At(h, "parked")
    BY <1>1, <1>5, SlotPassed
  <2>3. t \in TaskState /\ t # None /\ t.pc = "before" /\ t.attempt = 1
    <3>1. t \in TaskState  BY Bounds DEF Entry, TaskState, TaskPc
    <3> QED  BY <3>1, Bounds DEF Entry
  <2> HIDE DEF t
  <2>4. h # d  BY <1>1, <2>2 DEF At
  <2>5. /\ task' \in [Deliveries -> TaskState \cup {None}] /\ task'[d] = None /\ task'[h] = t
        /\ \A x \in Deliveries \ {d, h} : task'[x] = task[x]
    BY <1>1, <2>1, <2>2, <2>3, <2>4 DEF TypeOK
  <2>6. TypeOK'  BY <1>1, <2>1, <2>2, <2>5 DEF TypeOK, table, history
  <2>7. \A x \in Deliveries \ {d, h} : DeliveryInv(x)'
    BY <1>1, <1>2, <2>5, OtherDelivery DEF history
  <2>8. DeliveryInv(h)'
    <3>1. TaskOK(h) /\ JobOK(h) /\ TraceOK(h)  BY <2>2 DEF IInv, DeliveryInv
    <3>2. h \in asked /\ job[h] = None /\ posted[h] = 0  BY <2>2, <3>1 DEF At, TaskOK, Early
    <3>3. TaskOK(h)'  BY <1>1, <2>3, <2>5, <3>2 DEF TaskOK, Early, Tried, history
    <3>4. JobOK(h)'  BY <1>1, <2>2, JobKept DEF history
    <3>5. TraceOK(h)'
      BY <1>1, <2>3, <2>5, <3>1, <3>2 DEF TraceOK, Traced, Carried, history
    <3> QED  BY <3>3, <3>4, <3>5 DEF DeliveryInv
  <2> QED  BY <1>3, <2>2, <2>5, <2>6, <2>7, <2>8 DEF IInv
<1> QED  BY <1>4, <1>5
-----------------------------------------------------------------------------
(* WebhookService.dispatch *)

\* The first n of a sequence without repetitions are n things.
LEMMA Prefix ==
  ASSUME NEW n \in Nat, NEW s, \A i, j \in 1 .. n : s[i] = s[j] => i = j
  PROVE  /\ IsFiniteSet({s[i] : i \in 1 .. n})
         /\ Cardinality({s[i] : i \in 1 .. n}) = n
<1> DEFINE S == {s[i] : i \in 1 .. n}
           f == [i \in 1 .. n |-> s[i]]
<1>1. f \in Injection(1 .. n, S) /\ f \in Surjection(1 .. n, S)
  BY DEF Injection, IsInjective, Surjection
<1>2. IsFiniteSet(1 .. n) /\ Cardinality(1 .. n) = n  BY FS_Interval
<1>3. ExistsBijection(1 .. n, S)  BY <1>1 DEF ExistsBijection, Bijection
<1> QED  BY <1>2, <1>3, FS_Bijection

\* An order of a set visits each of its members once.
LEMMA OrderVisits ==
  ASSUME NEW S \in SUBSET Deliveries, NEW s \in Orders(S)
  PROVE  /\ s \in Seq(S) /\ s \in Seq(Deliveries)
         /\ Len(s) = Cardinality(S) /\ Len(s) \in Nat
         /\ \A i, j \in 1 .. Len(s) : s[i] = s[j] => i = j
         /\ \A d \in S : \E i \in 1 .. Len(s) : s[i] = d
<1>1. IsFiniteSet(S) /\ Cardinality(S) \in Nat  BY Bounds, FS_Subset, FS_CardinalityType
<1> DEFINE n == Cardinality(S)
<1>2. s \in [1 .. n -> S] /\ \A i, j \in 1 .. n : s[i] = s[j] => i = j  BY DEF Orders
<1>3. s \in Seq(S) /\ s \in Seq(Deliveries) /\ Len(s) = n
  BY <1>1, <1>2, LenProperties
<1>4. s \in Injection(1 .. n, S)  BY <1>2 DEF Injection, IsInjective
<1>5. Cardinality(1 .. n) = n  BY <1>1, FS_Interval
<1>6. s \in Surjection(1 .. n, S)  BY <1>1, <1>4, <1>5, FS_Injection
<1> QED  BY <1>1, <1>2, <1>3, <1>6 DEF Surjection

\* An event not dispatched yet has no delivery anywhere.
LEMMA Fresh ==
  ASSUME IInv, NEW e, \A d \in asked : eventOf[d] # e, NEW d \in Matching(e)
  PROVE  /\ d \in Deliveries /\ d \notin asked /\ task[d] = None /\ job[d] = None
         /\ work[d] = None /\ posted[d] = 0 /\ processed[d] = 0
<1>1. d \in Deliveries /\ d \notin asked  BY DEF Matching
<1>2. TaskOK(d) /\ JobOK(d) /\ TraceOK(d)  BY <1>1 DEF IInv, DeliveryInv
<1> QED  BY <1>1, <1>2 DEF TaskOK, JobOK, TraceOK

\* The queue of the limiter, extended by those that found no slot.
LEMMA Queueing ==
  ASSUME NEW w \in Seq(Deliveries), NEW s \in Seq(Deliveries), NEW k \in 0 .. Len(s)
  PROVE  LET v == w \o SubSeq(s, k + 1, Len(s)) IN
         /\ v \in Seq(Deliveries) /\ Len(v) = Len(w) + (Len(s) - k)
         /\ \A i \in 1 .. Len(v) : v[i] = IF i <= Len(w) THEN w[i] ELSE s[i - Len(w) + k]
<1> DEFINE n == Len(s)
           q == SubSeq(s, k + 1, n)
<1>1. n \in Nat /\ Len(w) \in Nat /\ k \in Nat /\ k <= n  BY LenProperties
<1>2. \A i \in k + 1 .. n : s[i] \in Deliveries
  BY <1>1, ElementOfSeq
<1>3. /\ q \in Seq(Deliveries) /\ Len(q) = n - k
      /\ \A i \in 1 .. n - k : q[i] = s[k + i]
  <2>1. k + 1 \in Int /\ n \in Int  BY <1>1
  <2>2. /\ q \in Seq(Deliveries) /\ Len(q) = IF k + 1 <= n THEN n - (k + 1) + 1 ELSE 0
        /\ \A i \in 1 .. n - (k + 1) + 1 : q[i] = s[(k + 1) + i - 1]
    BY <1>2, <2>1, SubSeqProperties
  <2> HIDE DEF q, n
  <2>3. n - (k + 1) + 1 = n - k /\ (k + 1 <= n \/ n - k = 0)  BY <1>1
  <2>4. Len(q) = n - k
    <3>1. CASE k + 1 <= n  BY <2>2, <2>3, <3>1
    <3>2. CASE ~(k + 1 <= n)  BY <2>2, <2>3, <3>2
    <3> QED  BY <3>1, <3>2
  <2>5. ASSUME NEW i \in 1 .. n - k  PROVE q[i] = s[k + i]
    <3>1. (k + 1) + i - 1 = k + i  BY <1>1
    <3>2. q[i] = s[(k + 1) + i - 1]  BY <2>2, <2>3
    <3> QED  BY <3>1, <3>2
  <2> QED  BY <2>2, <2>4, <2>5
<1> HIDE DEF q
<1> DEFINE v == w \o q
<1>4. /\ v \in Seq(Deliveries) /\ Len(v) = Len(w) + Len(q)
      /\ \A i \in 1 .. Len(w) + Len(q) : v[i] = IF i <= Len(w) THEN w[i] ELSE q[i - Len(w)]
  BY <1>3, ConcatProperties
<1> HIDE DEF v
<1>5. ASSUME NEW i \in 1 .. Len(v), ~(i <= Len(w))  PROVE v[i] = s[i - Len(w) + k]
  <2>1. i - Len(w) \in 1 .. n - k  BY <1>1, <1>3, <1>4, <1>5
  <2>2. v[i] = q[i - Len(w)] /\ q[i - Len(w)] = s[k + (i - Len(w))]  BY <1>3, <1>4, <1>5, <2>1
  <2>3. k + (i - Len(w)) = i - Len(w) + k  BY <1>1, <2>1
  <2> QED  BY <2>2, <2>3
<1>6. Len(v) = Len(w) + (n - k)  BY <1>3, <1>4
<1>7. /\ v \in Seq(Deliveries) /\ Len(v) = Len(w) + (n - k)
      /\ \A i \in 1 .. Len(v) : v[i] = IF i <= Len(w) THEN w[i] ELSE s[i - Len(w) + k]
  BY <1>4, <1>5, <1>6
<1> QED  BY <1>7 DEF v, q
\* What dispatch() does to the limiter: the first k of s are let in, the others queue.
Admission(M, s, k) ==
  /\ k \in Nat /\ k <= Len(s) /\ active' = active + k /\ active' <= DispatchConcurrency
  /\ (k = Len(s) \/ active' = DispatchConcurrency)
  /\ waiters' = waiters \o SubSeq(s, k + 1, Len(s))
  /\ \A d \in Deliveries \ M : task'[d] = task[d]
  /\ \A d \in M : (\E i \in 1 .. k : s[i] = d) => task'[d] = Entry("before")
  /\ \A d \in M : ~(\E i \in 1 .. k : s[i] = d) => task'[d] = Entry("parked")

LEMMA Admits ==
  ASSUME IInv, NEW e, Dispatch(e)
  PROVE  \E s \in Orders(Matching(e)) : \E k \in Nat : Admission(Matching(e), s, k)
<1> DEFINE M == Matching(e)
<1>1. PICK s \in Orders(M) :
        LET k == IF Len(s) <= Free THEN Len(s) ELSE Free IN
        /\ active' = active + k
        /\ waiters' = waiters \o SubSeq(s, k + 1, Len(s))
        /\ task' = [d \in Deliveries |->
                      IF d \notin M THEN task[d]
                      ELSE IF \E i \in 1 .. k : s[i] = d THEN Entry("before") ELSE Entry("parked")]
  BY DEF Dispatch
<1>2. Len(s) \in Nat /\ M \subseteq Deliveries  BY OrderVisits DEF Matching
<1>3. active \in Nat /\ active <= DispatchConcurrency /\ Free \in Nat /\ active + Free = DispatchConcurrency
  BY Bounds DEF IInv, TypeOK, Free
<1> DEFINE k == IF Len(s) <= Free THEN Len(s) ELSE Free
<1>4. k \in Nat /\ k <= Len(s) /\ k <= Free /\ (k = Len(s) \/ k = Free)  BY <1>2, <1>3
<1>5. active' = active + k /\ waiters' = waiters \o SubSeq(s, k + 1, Len(s))
  BY <1>1
<1>6. task' = [d \in Deliveries |->
                 IF d \notin M THEN task[d]
                 ELSE IF \E i \in 1 .. k : s[i] = d THEN Entry("before") ELSE Entry("parked")]
  BY <1>1
<1> HIDE DEF k, M
<1>7. active' <= DispatchConcurrency /\ (k = Len(s) \/ active' = DispatchConcurrency)
  BY <1>3, <1>4, <1>5, Bounds
<1>8. /\ \A d \in Deliveries \ M : task'[d] = task[d]
      /\ \A d \in M : (\E i \in 1 .. k : s[i] = d) => task'[d] = Entry("before")
      /\ \A d \in M : ~(\E i \in 1 .. k : s[i] = d) => task'[d] = Entry("parked")
  BY <1>2, <1>6
<1>9. Admission(M, s, k)  BY <1>4, <1>5, <1>7, <1>8 DEF Admission
<1> QED  BY <1>4, <1>9 DEF M

\* The two ways into the limiter.
LEMMA Entries ==
  /\ Entry("before") \in TaskState /\ Entry("before").pc = "before" /\ Entry("before").attempt = 1
  /\ Entry("parked") \in TaskState /\ Entry("parked").pc = "parked" /\ Entry("parked").attempt = 1
  /\ Entry("before") # None /\ Entry("parked") # None
<1>1. Entry("before") \in TaskState /\ Entry("parked") \in TaskState
  BY Bounds DEF Entry, TaskState, TaskPc
<1> QED  BY <1>1, Bounds DEF Entry

\* A dispatch leaves the limiter exact.
LEMMA AdmitsExactly ==
  ASSUME IInv, NEW e, Dispatch(e)
  PROVE  SlotsInv' /\ waiters' \in Seq(Deliveries) /\ active' \in 0 .. DispatchConcurrency
<1> PICK M : M = Matching(e)  OBVIOUS
<1>a. PICK s \in Orders(M), k \in Nat : Admission(M, s, k)  BY Admits
<1>1. /\ k \in Nat /\ k <= Len(s) /\ active' = active + k /\ active' <= DispatchConcurrency
      /\ (k = Len(s) \/ active' = DispatchConcurrency)
  BY <1>a DEF Admission
<1>b. /\ \A d \in Deliveries \ M : task'[d] = task[d]
      /\ \A d \in M : (\E i \in 1 .. k : s[i] = d) => task'[d] = Entry("before")
      /\ \A d \in M : ~(\E i \in 1 .. k : s[i] = d) => task'[d] = Entry("parked")
  BY <1>a DEF Admission
<1>c. waiters' = waiters \o SubSeq(s, k + 1, Len(s))  BY <1>a DEF Admission
<1>2. M \in SUBSET Deliveries /\ \A d \in asked : eventOf[d] # e  BY DEF Matching, Dispatch
<1>3. \A d \in M : task[d] = None  BY <1>2, Fresh
<1>4. /\ s \in Seq(M) /\ s \in Seq(Deliveries) /\ Len(s) \in Nat
      /\ \A i, j \in 1 .. Len(s) : s[i] = s[j] => i = j
      /\ \A d \in M : \E i \in 1 .. Len(s) : s[i] = d
  BY <1>2, OrderVisits
<1>5. \A i \in 1 .. Len(s) : s[i] \in M  BY <1>4, ElementOfSeq
<1>6. /\ SlotsInv /\ TypeOK /\ waiters \in Seq(Deliveries) /\ Len(waiters) \in Nat /\ active \in Nat
      /\ \A i \in 1 .. Len(waiters) : waiters[i] \in Deliveries /\ At(waiters[i], "parked")
  BY Waiters DEF IInv, TypeOK
<1>d. k \in Nat /\ (\A i \in 1 .. k : i \in 1 .. Len(s))  BY <1>1, <1>4
<1> DEFINE T == {s[i] : i \in 1 .. k}
<1>7. IsFiniteSet(T) /\ Cardinality(T) = k
  <2>1. \A i, j \in 1 .. k : s[i] = s[j] => i = j  BY <1>4, <1>d
  <2> QED  BY <1>d, <2>1, Prefix
<1>8. T \subseteq M /\ Admitted \cap T = {} /\ Admitted' = Admitted \cup T
  <2>1. T \subseteq M  BY <1>d, <1>5
  <2>2. Admitted \cap T = {}  BY <1>3, <2>1 DEF Admitted
  <2>3. \A d \in Deliveries : d \in M => (d \in T <=> \E i \in 1 .. k : s[i] = d)  OBVIOUS
  <2>4. \A d \in Deliveries : (task'[d] # None /\ task'[d].pc # "parked") <=> (d \in Admitted \/ d \in T)
    BY <1>b, <1>3, <2>1, <2>3, Entries DEF Admitted
  <2> QED  BY <1>2, <2>1, <2>2, <2>4 DEF Admitted
<1>9. Cardinality(Admitted') = Cardinality(Admitted) + k
  <2>1. Cardinality(Admitted \cup T) = Cardinality(Admitted) + Cardinality(T) - Cardinality(Admitted \cap T)
    BY <1>7, SetsAreFinite, FS_Union
  <2>2. Cardinality(Admitted \cap T) = 0  BY <1>8, FS_EmptySet
  <2> QED  BY <1>7, <1>8, <1>d, <2>1, <2>2, SetsAreFinite
<1>10. /\ waiters' \in Seq(Deliveries) /\ Len(waiters') = Len(waiters) + (Len(s) - k)
       /\ \A i \in 1 .. Len(waiters') :
            waiters'[i] = IF i <= Len(waiters) THEN waiters[i] ELSE s[i - Len(waiters) + k]
  <2>1. k \in 0 .. Len(s)  BY <1>1, <1>4
  <2> DEFINE v == waiters \o SubSeq(s, k + 1, Len(s))
  <2>2. /\ v \in Seq(Deliveries) /\ Len(v) = Len(waiters) + (Len(s) - k)
        /\ \A i \in 1 .. Len(v) : v[i] = IF i <= Len(waiters) THEN waiters[i] ELSE s[i - Len(waiters) + k]
    <3>1. waiters \in Seq(Deliveries) /\ s \in Seq(Deliveries)  BY <1>4, <1>6
    <3> QED  BY <2>1, <3>1, Queueing
  <2>3. waiters' = v  BY <1>c
  <2> HIDE DEF v
  <2> QED  BY <2>2, <2>3
<1> DEFINE old == 1 .. Len(waiters)
<1>e. \A i \in old : i \in 1 .. Len(waiters') /\ waiters'[i] = waiters[i] /\ waiters'[i] \notin M
  <2>1. \A i \in old : i \in 1 .. Len(waiters') /\ i <= Len(waiters)  BY <1>1, <1>4, <1>6, <1>10
  <2> QED  BY <1>3, <1>6, <1>10, <2>1 DEF At
<1>11. ASSUME NEW i \in 1 .. Len(waiters'), i \notin old
       PROVE  \E j \in 1 .. Len(s) : j = i - Len(waiters) + k /\ j > k /\ waiters'[i] = s[j]
  <2> DEFINE j == i - Len(waiters) + k
  <2>1. j \in 1 .. Len(s) /\ j > k /\ ~(i <= Len(waiters))
    <3>1. /\ Len(waiters) \in Nat /\ Len(s) \in Nat /\ k \in Nat /\ k <= Len(s)
          /\ Len(waiters') = Len(waiters) + (Len(s) - k)
      BY <1>1, <1>4, <1>6, <1>10
    <3>2. i \in Nat /\ i <= Len(waiters') /\ i > Len(waiters)  BY <1>11, <3>1
    <3> QED  BY <3>1, <3>2
  <2>2. waiters'[i] = s[j]  BY <1>10, <1>11, <2>1
  <2> QED  BY <2>1, <2>2
<1>12. ASSUME NEW i \in 1 .. Len(waiters'), NEW j \in 1 .. Len(waiters'), waiters'[i] = waiters'[j]
       PROVE  i = j
  <2>1. CASE i \in old /\ j \in old  BY <1>6, <1>12, <1>e, <2>1 DEF SlotsInv
  <2>2. CASE i \notin old /\ j \notin old
    <3>1. i - Len(waiters) + k = j - Len(waiters) + k  BY <1>4, <1>11, <1>12, <2>2
    <3> QED  BY <1>d, <1>6, <3>1
  <2>3. \A x \in 1 .. Len(waiters') : x \notin old => waiters'[x] \in M  BY <1>5, <1>11
  <2> QED  BY <1>12, <1>e, <2>1, <2>2, <2>3
<1>13. ASSUME NEW d \in Deliveries
       PROVE  At(d, "parked")' <=> \E i \in 1 .. Len(waiters') : waiters'[i] = d
  <2>1. CASE d \notin M
    <3>1. At(d, "parked")' <=> At(d, "parked")  BY <1>b, <2>1 DEF At
    <3>2. At(d, "parked") <=> \E i \in old : waiters[i] = d  BY <1>6 DEF SlotsInv
    <3>3. \A i \in 1 .. Len(waiters') : waiters'[i] = d => i \in old  BY <1>5, <1>11, <2>1
    <3> QED  BY <1>e, <3>1, <3>2, <3>3
  <2>2. CASE d \in M
    <3>1. At(d, "parked")' <=> d \notin T  BY <1>b, <2>2, Entries DEF At
    <3>2. PICK j \in 1 .. Len(s) : s[j] = d  BY <1>4, <2>2
    <3>3. d \in T <=> j \in 1 .. k  BY <1>4, <1>d, <3>2
    <3>4. CASE j \in 1 .. k
      <4>1. ASSUME NEW i \in 1 .. Len(waiters')  PROVE waiters'[i] # d
        <5>1. CASE i \in old  BY <1>e, <2>2, <5>1
        <5>2. CASE i \notin old
          <6>1. PICK x \in 1 .. Len(s) : x > k /\ waiters'[i] = s[x]  BY <1>11, <5>2
          <6>2. x # j  BY <1>d, <3>4, <6>1
          <6> QED  BY <1>4, <3>2, <6>1, <6>2
        <5> QED  BY <5>1, <5>2
      <4> QED  BY <3>1, <3>3, <3>4, <4>1
    <3>5. CASE j \notin 1 .. k
      <4>1. j \in Nat /\ j > k /\ j <= Len(s)  BY <1>4, <1>d, <3>5
      <4> PICK i : i = j - k + Len(waiters)  OBVIOUS
      <4>2. i \in 1 .. Len(waiters') /\ i \notin old /\ i - Len(waiters) + k = j
        BY <1>4, <1>d, <1>6, <1>10, <4>1
      <4>3. waiters'[i] = d  BY <1>11, <3>2, <4>2
      <4> QED  BY <3>1, <3>3, <3>5, <4>2, <4>3
    <3> QED  BY <3>4, <3>5
  <2> QED  BY <2>1, <2>2
<1>14. waiters' # <<>> => active' = DispatchConcurrency
  <2>1. ASSUME waiters' # <<>>, k = Len(s)  PROVE active' = DispatchConcurrency
    <3>1. Len(waiters') = Len(waiters) /\ Len(waiters') # 0
      BY <1>1, <1>4, <1>6, <1>10, <2>1, EmptySeq
    <3>2. waiters # <<>>  BY <1>6, <3>1, EmptySeq
    <3>3. active = DispatchConcurrency  BY <1>6, <3>2 DEF SlotsInv
    <3> QED  BY <1>1, <1>6, <3>3, Bounds
  <2> QED  BY <1>1, <2>1
<1>15. active' = Cardinality(Admitted') /\ active' \in 0 .. DispatchConcurrency
  BY <1>1, <1>6, <1>9, Bounds DEF SlotsInv
<1> QED  BY <1>1, <1>10, <1>12, <1>13, <1>14, <1>15 DEF SlotsInv

\* A dispatch starts the deliveries of its event, and touches no other.
LEMMA DispatchKeeps ==
  ASSUME IInv, NEW e, Dispatch(e)
  PROVE  IInv'
<1>1. /\ SlotsInv' /\ waiters' \in Seq(Deliveries) /\ active' \in 0 .. DispatchConcurrency
  BY AdmitsExactly
<1> PICK M : M = Matching(e)  OBVIOUS
<1>2. /\ M \in SUBSET Deliveries /\ \A d \in asked : eventOf[d] # e
      /\ asked' = asked \cup M
      /\ UNCHANGED <<table, job, work, failures, accepted, posted, processed, waived, queueEnabled,
                     up, crashes, faults>>
  BY DEF Matching, Dispatch
<1>3. TypeOK /\ faults \in Nat  BY Bounds DEF IInv, TypeOK
<1>4. /\ \A d \in Deliveries \ M : task'[d] = task[d]
      /\ \A d \in M : task'[d] \in {Entry("before"), Entry("parked")}
      /\ DOMAIN task' = Deliveries /\ task' = [d \in Deliveries |-> task'[d]]
  <2>1. /\ \A d \in Deliveries \ M : task'[d] = task[d]
        /\ \A d \in M : task'[d] \in {Entry("before"), Entry("parked")}
    <3>1. PICK s \in Orders(M), k \in Nat : Admission(M, s, k)  BY Admits
    <3> QED  BY <3>1 DEF Admission
  <2>2. DOMAIN task' = Deliveries /\ task' = [d \in Deliveries |-> task'[d]]
    BY DEF Dispatch
  <2> QED  BY <2>1, <2>2
<1>5. task' \in [Deliveries -> TaskState \cup {None}]
  <2>1. \A d \in Deliveries : task'[d] \in TaskState \cup {None}  BY <1>3, <1>4, Entries DEF TypeOK
  <2> QED  BY <1>4, <2>1
<1>6. TypeOK'  BY <1>1, <1>2, <1>3, <1>5 DEF TypeOK, table
<1>7. \A d \in Deliveries \ M : DeliveryInv(d)'
  BY <1>2, <1>3, <1>4, OtherDelivery
<1>8. ASSUME NEW d \in M  PROVE DeliveryInv(d)'
  <2>1. /\ d \in Deliveries /\ job[d] = None /\ work[d] = None /\ posted[d] = 0 /\ processed[d] = 0
    BY <1>2, Fresh
  <2>2. /\ task'[d] # None /\ task'[d].pc \in {"before", "parked"} /\ task'[d].attempt = 1 /\ d \in asked'
    BY <1>2, <1>4, Entries
  <2>3. TaskOK(d)'  BY <1>2, <2>1, <2>2 DEF TaskOK, Early, Tried
  <2>4. JobOK(d)'  BY <1>2, <2>1 DEF JobOK
  <2>5. TraceOK(d)'  BY <1>2, <2>1, <2>2, Bounds DEF TraceOK, Traced, Carried
  <2> QED  BY <2>3, <2>4, <2>5 DEF DeliveryInv
<1> QED  BY <1>1, <1>2, <1>6, <1>7, <1>8 DEF IInv
\* A failed lookup takes the deliveries of the event and gives them up at once.
LEMMA LookupKeeps ==
  ASSUME IInv, NEW e, DispatchLookupFails(e)
  PROVE  IInv'
<1> PICK M : M = Matching(e)  OBVIOUS
<1>1. /\ M \in SUBSET Deliveries /\ \A d \in asked : eventOf[d] # e
      /\ asked' = asked \cup M /\ waived' = waived \cup M
      /\ UNCHANGED <<table, limiter, task, job, work, failures, accepted, posted, processed,
                     queueEnabled, up, crashes>>
  BY DEF DispatchLookupFails, Matching
<1>2. TypeOK /\ SlotsInv  BY DEF IInv
<1>3. faults \in Nat /\ faults' \in 0 .. MaxFaults /\ faults <= faults'
  BY <1>2, Bounds DEF DispatchLookupFails, Fault, TypeOK
<1>4. TypeOK'  BY <1>1, <1>2, <1>3 DEF TypeOK, table, limiter
<1>5. SlotsInv'  BY <1>1, <1>2 DEF SlotsInv, limiter, Admitted, At
<1>6. ASSUME NEW d \in Deliveries \ M  PROVE DeliveryInv(d)'
  <2>1. /\ d \in asked' <=> d \in asked
        /\ accepted \subseteq accepted' /\ failures \subseteq failures' /\ waived \subseteq waived'
    BY <1>1
  <2> QED  BY <1>1, <1>3, <2>1, OtherDelivery
<1>7. ASSUME NEW d \in M  PROVE DeliveryInv(d)'
  <2>1. /\ task'[d] = None /\ job'[d] = None /\ work'[d] = None /\ posted'[d] = 0 /\ processed'[d] = 0
    BY <1>1, Fresh
  <2>2. TaskOK(d)' /\ JobOK(d)'  BY <2>1 DEF TaskOK, JobOK
  <2>3. TraceOK(d)'  BY <1>1, <2>1, Bounds DEF TraceOK, Traced, At
  <2> QED  BY <2>2, <2>3 DEF DeliveryInv
<1> QED  BY <1>4, <1>5, <1>6, <1>7 DEF IInv

-----------------------------------------------------------------------------
(* The webhooks table, the process, every step *)

\* Nothing a delivery or the limiter is about changes.
LEMMA Bystander ==
  ASSUME IInv, TypeOK',
         UNCHANGED <<limiter, task, job, work, failures, history, faults>>
  PROVE  IInv'
<1>1. TypeOK /\ SlotsInv /\ faults \in Nat /\ faults <= faults  BY Bounds DEF IInv, TypeOK
<1>2. SlotsInv'  BY <1>1 DEF SlotsInv, limiter, Admitted, At
<1>3. \A d \in Deliveries : DeliveryInv(d)'
  BY <1>1, OtherDelivery DEF history
<1> QED  BY <1>2, <1>3 DEF IInv

\* update() and delete() of a webhook.
LEMMA TableKeeps ==
  ASSUME IInv, NEW w \in Edited, EditBegins(w) \/ EditSaves(w) \/ Delete(w)
  PROVE  IInv'
<1>1. w \in Webhooks  BY WebhookAssumption
<1>2. /\ UNCHANGED <<limiter, task, job, work, failures, history, faults>>
      /\ UNCHANGED <<queueEnabled, up, crashes>>
  BY DEF EditBegins, EditSaves, Delete
<1>3. webhook' \in [Webhooks -> Row \cup {None}] /\ edit' \in [Webhooks -> Row \cup {None}]
  BY <1>1 DEF IInv, TypeOK, EditBegins, EditSaves, Delete
<1>4. TypeOK'  BY <1>2, <1>3 DEF IInv, TypeOK, limiter, history
<1> QED  BY <1>2, <1>4, Bystander

\* A crash empties the limiter, and waives what was in flight nowhere else.
LEMMA CrashKeeps ==
  ASSUME IInv, Crash
  PROVE  IInv'
<1>1. /\ TypeOK
      /\ up' = FALSE /\ crashes' = crashes + 1 /\ crashes < MaxCrashes
      /\ edit' = [w \in Webhooks |-> None] /\ active' = 0 /\ waiters' = <<>>
      /\ task' = [d \in Deliveries |-> None] /\ work' = [d \in Deliveries |-> None]
      /\ waived' = waived \cup OnlyHere
      /\ UNCHANGED <<webhook, job, failures, asked, accepted, posted, processed, queueEnabled, faults>>
  BY DEF IInv, Crash
<1>2. crashes' \in 0 .. MaxCrashes  BY <1>1, Bounds DEF TypeOK
<1>3. waiters' \in Seq(Deliveries) /\ Len(waiters') = 0  BY <1>1, EmptySeq
<1>4. TypeOK'
  <2>1. active' \in 0 .. DispatchConcurrency  BY <1>1, Bounds
  <2>2. waived' \subseteq Deliveries  BY <1>1 DEF TypeOK, OnlyHere
  <2> QED  BY <1>1, <1>2, <1>3, <2>1, <2>2 DEF TypeOK
<1>5. SlotsInv'
  <2>1. Admitted' = {}  BY <1>1 DEF Admitted
  <2>2. \A d \in Deliveries : ~At(d, "parked")'  BY <1>1 DEF At
  <2> QED  BY <1>1, <1>3, <2>1, <2>2, FS_EmptySet, Bounds DEF SlotsInv
<1>6. ASSUME NEW d \in Deliveries  PROVE DeliveryInv(d)'
  <2>1. TaskOK(d) /\ JobOK(d) /\ TraceOK(d)  BY DEF IInv, DeliveryInv
  <2>2. TaskOK(d)'  BY <1>1 DEF TaskOK
  <2>3. None \notin {"post", "mark", "record", "throw", "ok"}  BY Bounds DEF WorkPc
  <2>4. JobOK(d)'
    <3>1. CASE job[d] = None  BY <1>1, <2>1, <3>1 DEF JobOK
    <3>2. CASE job[d] # None
      <4>1. Underway(d)' >= Underway(d) /\ Underway(d)' \in 0 .. 1 /\ Underway(d) \in 0 .. 1
        BY <1>1, <2>3 DEF Underway
      <4>2. job[d].st # "finished" => processed[d] <= job[d].attempts + job[d].stalls + Underway(d)'
        BY <2>1, <3>2, <4>1, JobFacts, Bounds
      <4> QED  BY <1>1, <2>1, <2>3, <3>2, <4>2, JobFacts DEF JobOK
    <3> QED  BY <3>1, <3>2
  <2>5. Carried(d) => Carried(d)' \/ d \in waived'
    BY <1>1 DEF Carried, OnlyHere, Unfinished
  <2>6. TraceOK(d)'  BY <1>1, <2>1, <2>5 DEF TraceOK, Traced, At
  <2> QED  BY <2>2, <2>4, <2>6 DEF DeliveryInv
<1> QED  BY <1>4, <1>5, <1>6 DEF IInv

\* The invariant holds of the start,
LEMMA WebhookInit == Init => IInv
<1> SUFFICES ASSUME Init PROVE IInv  OBVIOUS
<1>1. TypeOK  BY Bounds, EmptySeq DEF Init, TypeOK, Row
<1>2. SlotsInv
  <2>1. Admitted = {}  BY DEF Init, Admitted
  <2>2. \A d \in Deliveries : ~At(d, "parked")  BY DEF Init, At
  <2>3. Len(waiters) = 0  BY EmptySeq DEF Init
  <2> QED  BY <2>1, <2>2, <2>3, FS_EmptySet, Bounds DEF SlotsInv, Init
<1>3. \A d \in Deliveries : DeliveryInv(d)
  BY Bounds DEF Init, DeliveryInv, TaskOK, JobOK, TraceOK, At
<1> QED  BY <1>1, <1>2, <1>3 DEF IInv

\* and of every step: one case per handler.
LEMMA WebhookStep ==
  ASSUME IInv, [Next]_vars
  PROVE  IInv'
<1>1. CASE UNCHANGED vars
  <2>1. TypeOK'  BY <1>1 DEF IInv, TypeOK, vars, table, limiter, history
  <2> QED  BY <1>1, <2>1, Bystander DEF vars
<1>2. ASSUME NEW w \in Edited, EditBegins(w) \/ EditSaves(w) \/ Delete(w)  PROVE IInv'
  BY <1>2, TableKeeps
<1>3. ASSUME NEW e \in Events, Dispatch(e) \/ DispatchLookupFails(e)  PROVE IInv'
  BY <1>3, DispatchKeeps, LookupKeeps
<1>4. ASSUME NEW d \in Deliveries, Deliver(d)  PROVE IInv'
  BY <1>4, EarlyKeeps, PostKeeps, AfterPostKeeps, LeavingKeeps DEF Deliver, Direct
<1>5. ASSUME NEW d \in Deliveries, Take(d) \/ Process(d) \/ Stalled(d)  PROVE IInv'
  BY <1>5, TakeKeeps, ProcessKeeps, EndsKeeps, StalledKeeps DEF Process
<1>6. CASE Crash  BY <1>6, CrashKeeps
<1>7. CASE Boot
  <2>1. /\ UNCHANGED <<limiter, task, job, work, failures, history, faults>>
        /\ UNCHANGED <<table, queueEnabled, crashes>> /\ up' = TRUE
    BY <1>7 DEF Boot
  <2>2. TypeOK'  BY <2>1 DEF IInv, TypeOK, table, limiter, history
  <2> QED  BY <2>1, <2>2, Bystander
<1> QED  BY <1>1, <1>2, <1>3, <1>4, <1>5, <1>6, <1>7 DEF Next

-----------------------------------------------------------------------------
(* Theorems *)

\* Attempts, stalls, posts and slots stay within their bounds, and a waiter of
\* the limiter is a delivery: TypeOK, for all retry counts, limits and faults.
THEOREM WebhookTypeCorrect == Spec => []TypeOK
<1>1. IInv => TypeOK  BY DEF IInv
<1> QED  BY <1>1, WebhookInit, WebhookStep, PTL DEF Spec

\* ConcurrencyLimiter counts exactly the deliveries it has let in, never exceeds
\* its limit, and has each parked delivery in its queue exactly once: no slot
\* leaks and none is handed to two, whatever order deliveries end in.
THEOREM SlotsExactly == Spec => []SlotsExact
<1>1. IInv => SlotsExact
  <2> SUFFICES ASSUME IInv PROVE SlotsExact  OBVIOUS
  <2>1. /\ TypeOK /\ SlotsInv /\ waiters \in Seq(Deliveries) /\ Len(waiters) \in Nat
        /\ DOMAIN waiters = 1 .. Len(waiters)
        /\ \A i \in 1 .. Len(waiters) : waiters[i] \in Deliveries /\ At(waiters[i], "parked")
    BY Waiters, LenProperties DEF IInv, TypeOK
  <2>2. {waiters[i] : i \in 1 .. Len(waiters)} = Parked
    BY <2>1 DEF SlotsInv, Parked
  <2>3. \A i, j \in 1 .. Len(waiters) : waiters[i] = waiters[j] => i = j  BY <2>1 DEF SlotsInv
  <2>n. PICK n \in Nat : n = Len(waiters)  BY <2>1
  <2>4. PICK s : s = waiters  OBVIOUS
  <2> DEFINE T == {s[i] : i \in 1 .. n}
  <2>5. IsFiniteSet(T) /\ Cardinality(T) = n
    <3>1. \A i, j \in 1 .. n : s[i] = s[j] => i = j  BY <2>3, <2>4, <2>n
    <3> QED  BY <3>1, Prefix
  <2>6. T = {waiters[i] : i \in 1 .. Len(waiters)} /\ n = Len(waiters)  BY <2>4, <2>n
  <2> QED  BY <2>1, <2>2, <2>5, <2>6 DEF SlotsInv, SlotsExact
<1> QED  BY <1>1, WebhookInit, WebhookStep, PTL DEF Spec

\* A dispatched delivery reached its receiver, is carried by a task or a job, left
\* a failure row, or was given up at one of five known places.
THEOREM DispatchedAccounted == Spec => []EndedKnowingly
<1>1. IInv => EndedKnowingly
  BY DEF IInv, TypeOK, DeliveryInv, TraceOK, Traced, EndedKnowingly
<1> QED  BY <1>1, WebhookInit, WebhookStep, PTL DEF Spec

\* Neither path POSTs a delivery more often than retryCount allows, stalls apart,
\* and both POST it only after a call of Redis failed.
THEOREM PostsWithinRetries == Spec => []PostsBounded
<1>1. IInv => PostsBounded
  <2> SUFFICES ASSUME IInv, NEW d \in Deliveries
               PROVE  /\ posted[d] <= Attempts
                      /\ processed[d] <= Attempts + Stalls(d)
                      /\ posted[d] > 0 /\ processed[d] > 0 => faults > 0
    BY DEF PostsBounded
  <2>1. JobOK(d) /\ TraceOK(d) /\ posted[d] \in Nat /\ processed[d] \in Nat
    BY DEF IInv, TypeOK, DeliveryInv
  <2>2. job[d] = None => processed[d] = 0 /\ Stalls(d) = 0  BY <2>1 DEF JobOK, Stalls
  <2>3. job[d] # None => processed[d] <= Attempts + Stalls(d)  BY <2>1 DEF JobOK, Stalls
  <2> QED  BY <2>1, <2>2, <2>3, Bounds DEF TraceOK
<1> QED  BY <1>1, WebhookInit, WebhookStep, PTL DEF Spec

-----------------------------------------------------------------------------
(* Webhook delivery implements the abstract carrier *)

\* A step that gives up what it has, or had just taken, and hands nothing over.
LEMMA GivesUp ==
  ASSUME IInv, TypeOK', NEW S \in SUBSET Deliveries, S \subseteq asked',
         asked \subseteq asked', accepted' = accepted,
         failures' \cup waived' = failures \cup waived \cup S
  PROVE  [Carrier!Next]_Carrier!vars
<1>1. asked' \subseteq Deliveries  BY DEF TypeOK
<1>2. Carrier!GiveUp(S)  BY <1>1 DEF Carrier!GiveUp
<1> QED  BY <1>2 DEF Carrier!Next

\* A step that hands over one delivery, which was taken.
LEMMA HandsOver ==
  ASSUME IInv, NEW d \in Deliveries, d \in asked,
         accepted' \in {accepted, accepted \cup {d}},
         UNCHANGED <<asked, failures, waived>>
  PROVE  [Carrier!Next]_Carrier!vars
<1>1. CASE accepted' = accepted  BY <1>1 DEF Carrier!vars
<1>2. CASE accepted' = accepted \cup {d}
  <2>1. Carrier!Deliver(d)  BY <1>2 DEF Carrier!Deliver
  <2>2. {d} \in SUBSET Deliveries /\ d \in {d}  OBVIOUS
  <2> QED  BY <2>1, <2>2 DEF Carrier!Next
<1> QED  BY <1>1, <1>2

\* A task or a job is of a delivery that was dispatched.
LEMMA OfTheAsked ==
  ASSUME IInv, NEW d \in Deliveries, task[d] # None \/ job[d] # None \/ work[d] # None
  PROVE  d \in asked
BY DEF IInv, DeliveryInv, TaskOK, JobOK

\* A handler that may record a failure or waive, and posts nothing.
LEMMA GivesUpOne ==
  ASSUME IInv, IInv', NEW d \in Deliveries, d \in asked, UNCHANGED <<asked, accepted>>,
         failures' \in {failures, failures \cup {d}}, waived' \in {waived, waived \cup {d}}
  PROVE  [Carrier!Next]_Carrier!vars
<1>1. TypeOK'  BY DEF IInv
<1>2. CASE failures' = failures /\ waived' = waived  BY <1>2 DEF Carrier!vars
<1>3. CASE failures' \cup waived' = failures \cup waived \cup {d}
  <2>1. {d} \in SUBSET Deliveries /\ {d} \subseteq asked' /\ asked \subseteq asked'  OBVIOUS
  <2> QED  BY <1>1, <1>3, <2>1, GivesUp
<1> QED  BY <1>2, <1>3

LEMMA CarrierStep ==
  ASSUME IInv, IInv', [Next]_vars
  PROVE  [Carrier!Next]_Carrier!vars
<1>1. CASE UNCHANGED <<asked, accepted, failures, waived>>  BY <1>1 DEF Carrier!vars
<1>2. ASSUME UNCHANGED vars \/ (\E w \in Edited : EditBegins(w) \/ EditSaves(w) \/ Delete(w)) \/ Boot
      PROVE  UNCHANGED <<asked, accepted, failures, waived>>
  BY <1>2 DEF vars, history, EditBegins, EditSaves, Delete, Boot
<1>3. ASSUME NEW e \in Events, Dispatch(e)  PROVE [Carrier!Next]_Carrier!vars
  <2>1. Matching(e) \in SUBSET Deliveries  BY DEF Matching
  <2>2. Carrier!Take(Matching(e))  BY <1>3 DEF Dispatch, Carrier!Take
  <2> QED  BY <2>1, <2>2 DEF Carrier!Next
<1>4. ASSUME NEW e \in Events, DispatchLookupFails(e)  PROVE [Carrier!Next]_Carrier!vars
  <2>1. Matching(e) \in SUBSET Deliveries /\ TypeOK'  BY DEF Matching, IInv
  <2>2. /\ asked' = asked \cup Matching(e) /\ waived' = waived \cup Matching(e)
        /\ UNCHANGED <<accepted, failures>>
    BY <1>4 DEF DispatchLookupFails
  <2>3. failures' \cup waived' = failures \cup waived \cup Matching(e)  BY <2>2
  <2> QED  BY <2>1, <2>2, <2>3, GivesUp
<1>5. ASSUME NEW d \in Deliveries, Deliver(d)  PROVE [Carrier!Next]_Carrier!vars
  <2>1. d \in asked
    BY <1>5, OfTheAsked DEF Deliver, Direct, BeforeContinues, BeforeWaives, QueueAdd, QueueAddFails,
       PostSucceeds, PostFails, Mark, Backoff, Record, Leaving, At
  <2>2. CASE PostSucceeds(d) \/ PostFails(d)
    BY <2>1, <2>2, HandsOver DEF PostSucceeds, PostFails
  <2>3. CASE BeforeWaives(d) \/ Record(d)
    BY <2>1, <2>3, GivesUpOne DEF BeforeWaives, Record, RecordFailure
  <2>4. CASE BeforeContinues(d) \/ QueueAdd(d) \/ QueueAddFails(d) \/ Mark(d) \/ Backoff(d) \/ Leaving(d)
    BY <1>1, <2>4 DEF BeforeContinues, QueueAdd, QueueAddFails, Mark, Backoff, Leaving, history
  <2> QED  BY <1>5, <2>2, <2>3, <2>4 DEF Deliver, Direct
<1>6. ASSUME NEW d \in Deliveries, Take(d) \/ Process(d) \/ Stalled(d)
      PROVE  [Carrier!Next]_Carrier!vars
  <2>1. None \notin {"post", "mark", "record", "throw", "ok"}  BY Bounds DEF WorkPc
  <2>2. d \in asked
    BY <1>6, <2>1, OfTheAsked DEF Take, Process, Stalled, WorkPosts, WorkMarks, WorkRecords, WorkEnds, Working
  <2>3. CASE WorkPosts(d)  BY <2>2, <2>3, HandsOver DEF WorkPosts
  <2>4. CASE WorkRecords(d) \/ Stalled(d)
    BY <2>2, <2>4, GivesUpOne DEF WorkRecords, RecordFailure, Stalled
  <2>5. CASE Take(d) \/ WorkMarks(d) \/ WorkEnds(d)
    BY <1>1, <2>5 DEF Take, WorkMarks, WorkEnds, history
  <2> QED  BY <1>6, <2>3, <2>4, <2>5 DEF Process
<1>7. CASE Crash
  <2>1. OnlyHere \in SUBSET Deliveries /\ TypeOK'  BY DEF OnlyHere, IInv
  <2>2. UNCHANGED <<asked, accepted, failures>> /\ waived' = waived \cup OnlyHere  BY <1>7 DEF Crash
  <2>3. OnlyHere \subseteq asked'
    <3>1. \A d \in OnlyHere : d \in Deliveries /\ task[d] # None  BY DEF OnlyHere
    <3>2. \A d \in OnlyHere : d \in asked  BY <3>1, OfTheAsked
    <3> QED  BY <2>2, <3>2
  <2>4. failures' \cup waived' = failures \cup waived \cup OnlyHere  BY <2>2
  <2> QED  BY <2>1, <2>2, <2>3, <2>4, GivesUp
<1> QED  BY <1>1, <1>2, <1>3, <1>4, <1>5, <1>6, <1>7 DEF Next

\* dispatch() takes, a POST that reaches the receiver hands over, and only the
\* named places give up: the delivery of webhooks is a carrier, its liveness
\* (a property of the run) left aside.
THEOREM WebhooksAreCarried == Spec => Carrier!Safe
<1>1. Init => Carrier!Init  BY DEF Init, Carrier!Init
<1> QED  BY <1>1, WebhookInit, WebhookStep, CarrierStep, PTL DEF Spec, Carrier!Safe

=============================================================================
