----------------------- MODULE IngressDelivery_proofs -----------------------
(***************************************************************************)
(* Proofs about ingress deliveries: the lane of a conversation, and the    *)
(* account of where a recorded delivery can be.                            *)
(***************************************************************************)
EXTENDS IngressDelivery, TLAPS

-----------------------------------------------------------------------------
(* The inductive invariant *)

\* A row of the table lies below every free one.
RowsInv == \A r \in Rows : dlq[r] # None => \A q \in 1 .. r - 1 : dlq[q] # None

\* A request carries a delivery, a redrive the row it was read from.
CallInv ==
  \A c \in Calls : call[c] # None =>
    IF call[c].kind = "live"
      THEN /\ call[c].d \in Deliveries /\ call[c].row = None
           /\ call[c].pc \in {"enqueue", "dispatching", "letter"}
      ELSE /\ call[c].pc # "letter"
           /\ \A r \in call[c].todo : dlq[r] # None
           /\ call[c].pc # "next" =>
                /\ call[c].row \in Rows
                /\ dlq[call[c].row] # None
                /\ dlq[call[c].row].d = call[c].d

\* A job is named after the id of its delivery, or is of the delivery of the row
\* it is named after.
JobInv ==
  \A j \in JobIds : job[j] # None =>
    /\ j \in DeliveryIds => deliveryId[job[j].d] = j
    /\ j \in Rows => dlq[j] # None /\ dlq[j].d = job[j].d
    /\ job[j].st # "finished" => job[j].attempts < MaxAttempts

\* Only an active job has a worker.
WorkInv == \A j \in JobIds : work[j] # None => job[j] # None /\ job[j].st = "active"

InLane(j) == Working(j, "lock") \/ Working(j, "dispatching")

\* A lane is a chain: whoever waits, waits for the one right ahead of it.
ChainInv ==
  \A j \in JobIds : InLane(j) =>
    /\ work[j].prev = None => work[j].ahead = {}
    /\ \A p \in JobIds : work[j].prev = p =>
         /\ InLane(p) /\ KeyOf(p) = KeyOf(j)
         /\ work[j].ahead = work[p].ahead \cup {p}
    /\ Working(j, "dispatching") => work[j].prev = None

\* The tail of a lane is its last entrant, and a lane without one is empty.
TailInv ==
  \A k \in Conversations :
    /\ tails[k] = None => Lane(k) = {}
    /\ \A t \in JobIds : tails[k] = t => /\ t \in Lane(k)
                                         /\ Lane(k) = work[t].ahead \cup {t}

LaneInv == WorkInv /\ ChainInv /\ TailInv

\* Process() has given up on the last attempt: all that is left is to say so.
GivenUp(j) == Working(j, "throw") /\ IsFinalAttempt(j)

\* A job that will still be dispatched, or has been handled.
Carried(d) == \E j \in JobIds : Unfinished(j) /\ job[j].d = d /\ ~GivenUp(j)

\* Without row n and the rows before it, delivery d is accounted for.
Backed(d, n) ==
  \/ d \in handled \cup lost
  \/ Carried(d)
  \/ \E q \in Rows : q > n /\ dlq[q] # None /\ dlq[q].d = d /\ ~dlq[q].redriven

\* The row a job replays; 0 for the job of a live delivery.
RowOf(j) == IF j \in Rows THEN j ELSE 0

\* The row a job or a request is about to let go of is not the last trace of its
\* delivery: only a later row, a job or the plugin may stand in for it.
RetireInv ==
  \A c \in Calls : \A d \in Deliveries : \A r \in Rows :
    At(c, "retire") /\ call[c].d = d /\ call[c].row = r => Backed(d, r)

FinishedInv ==
  \A j \in JobIds : \A d \in Deliveries : job[j] # None /\ job[j].d = d =>
    /\ job[j].st = "finished" => Backed(d, RowOf(j))
    /\ GivenUp(j) => Backed(d, RowOf(j))
    /\ Working(j, "ok") => d \in handled

EventInv == \A d \in events : Live(d) \/ Backed(d, 0)

TraceInv == RowsInv /\ CallInv /\ JobInv /\ RetireInv /\ FinishedInv /\ EventInv

IInv == TypeOK /\ LaneInv /\ TraceInv

-----------------------------------------------------------------------------
(* Types *)

Facts == TypeOK /\ LaneInv /\ RowsInv /\ CallInv /\ JobInv

\* None is not an entry of any table.
LEMMA Nothing ==
  /\ None \notin JobIds /\ None \notin Deliveries /\ None \notin Rows
  /\ None \notin RowState /\ None \notin JobState
  /\ None \notin CallState /\ None \notin WorkState
  BY IngressAssumption DEF JobIds

\* What the tables hold.
LEMMA Entries ==
  ASSUME TypeOK
  PROVE  /\ \A r \in Rows : dlq[r] # None => dlq[r] \in RowState
         /\ \A j \in JobIds : job[j] # None => job[j] \in JobState
         /\ \A c \in Calls : call[c] # None => call[c] \in CallState
         /\ \A j \in JobIds : work[j] # None => work[j] \in WorkState
  BY DEF TypeOK

\* A saved row is a row; nothing else in the table moves.
LEMMA SaveType ==
  ASSUME TypeOK, NEW d \in Deliveries, SaveRow(d) \/ SaveFails(d)
  PROVE  /\ dlq' \in [Rows -> RowState \cup {None}]
         /\ lost' \subseteq Deliveries
         /\ lost \subseteq lost'
         /\ \A r \in Rows : dlq[r] # None => dlq'[r] = dlq[r]
<1>1. CASE SaveRow(d)
  <2>1. PICK r \in Rows : /\ dlq[r] = None
                          /\ dlq' = [dlq EXCEPT ![r] = [d |-> d, redriven |-> FALSE]]
                          /\ lost' = lost
    BY <1>1 DEF SaveRow
  <2>2. [d |-> d, redriven |-> FALSE] \in RowState
    BY DEF RowState
  <2>3. QED
    BY <2>1, <2>2 DEF TypeOK
<1>2. CASE SaveFails(d)
  BY <1>2 DEF SaveFails, TypeOK
<1>3. QED
  BY <1>1, <1>2

\* The initial state.
LEMMA IngressInit == Init => IInv
<1> SUFFICES ASSUME Init PROVE IInv
  OBVIOUS
<1> USE DEF Init
<1>1. TypeOK
  BY IngressAssumption DEF TypeOK
<1>2. LaneInv
  BY Nothing DEF LaneInv, WorkInv, ChainInv, TailInv, Lane, InLane, Working
<1>3. TraceInv
  BY DEF TraceInv, RowsInv, CallInv, JobInv, RetireInv, FinishedInv, EventInv, At
<1>4. QED
  BY <1>1, <1>2, <1>3 DEF IInv

\* A live delivery.
LEMMA RecordType ==
  ASSUME Facts, NEW c \in Calls, NEW d \in Deliveries, Record(c, d)
  PROVE  TypeOK'
<1>1. [kind |-> "live", d |-> d, row |-> None, todo |-> {}, pc |-> "enqueue"] \in CallState
  BY DEF CallState
<1>2. QED
  BY <1>1 DEF Facts, TypeOK, Record, bounds

\* What the queue makes of an add.
LEMMA AddedType ==
  ASSUME TypeOK, NEW r \in CallState, r.d \in Deliveries
  PROVE  /\ Added(r) \in [JobIds -> JobState \cup {None}]
         /\ JobId(r) \in JobIds
<1>1. JobId(r) \in JobIds
  BY IngressAssumption DEF JobId, JobIds, CallState
<1>2. [d |-> r.d, st |-> "waiting", attempts |-> 0, stalls |-> 0] \in JobState
  BY IngressAssumption DEF JobState
<1>3. QED
  BY <1>1, <1>2 DEF Added, TypeOK

\* A request between two of its steps is of a delivery.
LEMMA CallOf ==
  ASSUME Facts, NEW c \in Calls, call[c] # None
  PROVE  /\ call[c] \in CallState
         /\ call[c].kind \in {"live", "redrive"}
         /\ call[c].pc # "next" => call[c].d \in Deliveries
         /\ call[c].kind = "live" => /\ call[c].row = None
                                     /\ call[c].d \in Deliveries
                                     /\ call[c].pc \in {"enqueue", "dispatching", "letter"}
         /\ call[c].kind = "redrive" /\ call[c].pc # "next" =>
              /\ call[c].row \in Rows
              /\ dlq[call[c].row] # None
              /\ dlq[call[c].row].d = call[c].d
<1>1. call[c] \in CallState
  BY Entries DEF Facts
<1>2. call[c].kind \in {"live", "redrive"}
  BY <1>1 DEF CallState
<1>3. \A r \in Rows : dlq[r] # None => dlq[r].d \in Deliveries
  BY Entries DEF Facts, RowState
<1>4. QED
  BY <1>1, <1>2, <1>3 DEF Facts, CallInv

\* Where a request goes once its delivery is queued, handled or swallowed.
LEMMA NextPlace ==
  ASSUME NEW r \in CallState
  PROVE  /\ Accepted(r) \in CallState \cup {None}
         /\ Swallowed(r) \in CallState
         /\ [r EXCEPT !.pc = "dispatching"] \in CallState
         /\ [r EXCEPT !.pc = "next"] \in CallState
  BY DEF Accepted, Swallowed, CallState

\* The steps of a request keep the types.
LEMMA RequestType ==
  ASSUME Facts, NEW c \in Calls,
         Enqueue(c) \/ Redrive(c) \/ RedriveNext(c) \/ Retire(c)
  PROVE  TypeOK'
<1> USE DEF bounds, store, memory
<1>1. CASE QueueAdd(c)
  <2>1. call[c] # None /\ call[c].pc = "enqueue"
    BY <1>1 DEF QueueAdd, At
  <2>2. call[c] \in CallState /\ call[c].d \in Deliveries
    BY <2>1, CallOf
  <2>3. Added(call[c]) \in [JobIds -> JobState \cup {None}]
    BY <2>2, AddedType DEF Facts
  <2>4. Accepted(call[c]) \in CallState \cup {None}
    BY <2>2, NextPlace
  <2>5. lost' \subseteq Deliveries
    BY <1>1, <2>2 DEF QueueAdd, Absorbed, Facts, TypeOK
  <2>6. QED
    BY <1>1, <2>3, <2>4, <2>5 DEF QueueAdd, Facts, TypeOK
<1>2. CASE DispatchInline(c)
  <2>1. call[c] # None /\ call[c].pc = "enqueue"
    BY <1>2 DEF DispatchInline, At
  <2>2. call[c] \in CallState /\ call[c].d \in Deliveries
    BY <2>1, CallOf
  <2>3. Added(call[c]) \in [JobIds -> JobState \cup {None}]
    BY <2>2, AddedType DEF Facts
  <2>4. [call[c] EXCEPT !.pc = "dispatching"] \in CallState
    BY <2>2, NextPlace
  <2>5. call' \in [Calls -> CallState \cup {None}]
    BY <1>2, <2>4 DEF DispatchInline, Facts, TypeOK
  <2>6. job' \in [JobIds -> JobState \cup {None}]
    BY <1>2, <2>3 DEF DispatchInline, Facts, TypeOK
  <2>7. outages' \in 0 .. MaxOutages
    BY <1>2, IngressAssumption DEF DispatchInline, Outage, Facts, TypeOK
  <2>8. QED
    BY <1>2, <2>5, <2>6, <2>7 DEF DispatchInline, Facts, TypeOK
<1>3. CASE InlineHandled(c)
  <2>1. call[c] # None /\ call[c].pc = "dispatching"
    BY <1>3 DEF InlineHandled, At
  <2>2. call[c] \in CallState /\ call[c].d \in Deliveries
    BY <2>1, CallOf
  <2>3. Accepted(call[c]) \in CallState \cup {None}
    BY <2>2, NextPlace
  <2>4. QED
    BY <1>3, <2>2, <2>3 DEF InlineHandled, Facts, TypeOK
<1>4. CASE InlineFails(c)
  <2>1. call[c] # None
    BY <1>4 DEF InlineFails, At
  <2>2. Swallowed(call[c]) \in CallState
    BY <2>1, CallOf, NextPlace
  <2>3. QED
    BY <1>4, <2>2 DEF InlineFails, Facts, TypeOK
<1>5. CASE DeadLetter(c)
  <2>1. call[c] # None /\ call[c].pc = "letter"
    BY <1>5 DEF DeadLetter, At
  <2>2. call[c].d \in Deliveries
    BY <2>1, CallOf
  <2>3. dlq' \in [Rows -> RowState \cup {None}] /\ lost' \subseteq Deliveries
    BY <1>5, <2>2, SaveType DEF DeadLetter, Facts
  <2>4. QED
    BY <1>5, <2>3 DEF DeadLetter, Facts, TypeOK
<1>6. CASE Redrive(c)
  <2>1. \A i \in Instances : [kind |-> "redrive", d |-> None, row |-> None,
                               todo |-> ToRedrive(i), pc |-> "next"] \in CallState
    BY DEF CallState, ToRedrive
  <2>2. redrives' \in 0 .. MaxRedrives
    BY <1>6, IngressAssumption DEF Redrive, Facts, TypeOK
  <2>3. call' \in [Calls -> CallState \cup {None}]
    BY <1>6, <2>1 DEF Redrive, Facts, TypeOK
  <2>4. QED
    BY <1>6, <2>2, <2>3 DEF Redrive, Facts, TypeOK
<1>7. CASE RedriveNext(c)
  <2>1. call[c] # None /\ call[c].pc = "next"
    BY <1>7 DEF RedriveNext, At
  <2>2. call[c] \in CallState /\ call[c].kind = "redrive"
    BY <2>1, CallOf
  <2>3. \A r \in call[c].todo : r \in Rows /\ dlq[r].d \in Deliveries
    BY <2>1, <2>2, Entries DEF Facts, CallInv, CallState, RowState
  <2> DEFINE next(r) == [call[c] EXCEPT !.d = dlq[r].d, !.row = r,
                                   !.todo = call[c].todo \ {r}, !.pc = "enqueue"]
  <2>4. \A r \in call[c].todo : next(r) \in CallState
    BY <2>2, <2>3 DEF CallState
  <2>a. \/ call' = [call EXCEPT ![c] = None]
        \/ \E r \in call[c].todo : call' = [call EXCEPT ![c] = next(r)]
    BY <1>7 DEF RedriveNext
  <2>5. call' \in [Calls -> CallState \cup {None}]
    <3> HIDE DEF next
    <3> QED
      BY <2>4, <2>a DEF Facts, TypeOK
  <2>6. QED
    BY <1>7, <2>5 DEF RedriveNext, Facts, TypeOK
<1>8. CASE Retire(c)
  <2>1. call[c] # None /\ call[c].pc = "retire"
    BY <1>8 DEF Retire, At
  <2>2. /\ call[c] \in CallState /\ call[c].row \in Rows
        /\ dlq[call[c].row] \in RowState
    BY <2>1, CallOf, Entries DEF Facts
  <2>3. [call[c] EXCEPT !.pc = "next"] \in CallState
    BY <2>2, NextPlace
  <2>4. [dlq[call[c].row] EXCEPT !.redriven = TRUE] \in RowState
    BY <2>2 DEF RowState
  <2>5. call' \in [Calls -> CallState \cup {None}]
    BY <1>8, <2>3 DEF Retire, Facts, TypeOK
  <2>6. dlq' \in [Rows -> RowState \cup {None}]
    BY <1>8, <2>2, <2>4 DEF Retire, Facts, TypeOK
  <2>7. QED
    BY <1>8, <2>5, <2>6 DEF Retire, Facts, TypeOK
<1>9. QED
  BY <1>1, <1>2, <1>3, <1>4, <1>5, <1>6, <1>7, <1>8 DEF Enqueue

\* A job in the hands of a worker is active, and has a conversation.
LEMMA WorkOf ==
  ASSUME Facts, NEW j \in JobIds, work[j] # None
  PROVE  /\ work[j] \in WorkState
         /\ job[j] # None /\ job[j] \in JobState
         /\ job[j].st = "active" /\ job[j].d \in Deliveries
         /\ job[j].attempts \in Nat /\ job[j].attempts < MaxAttempts
         /\ KeyOf(j) \in Conversations
<1>1. work[j] \in WorkState /\ job[j] # None /\ job[j] \in JobState /\ job[j].st = "active"
  BY Entries DEF Facts, LaneInv, WorkInv
<1>2. job[j].d \in Deliveries /\ job[j].attempts \in 0 .. MaxAttempts
  BY <1>1 DEF JobState
<1>3. job[j].attempts < MaxAttempts
  BY <1>1 DEF Facts, JobInv
<1>4. KeyOf(j) \in Conversations
  BY <1>2, IngressAssumption DEF KeyOf
<1>5. QED
  BY <1>1, <1>2, <1>3, <1>4, IngressAssumption

\* What settling does to the workers and the tails.
LEMMA SettleType ==
  ASSUME Facts, NEW j \in JobIds, work[j] # None,
         NEW pc \in {"lock", "dispatching", "bury", "throw", "ok"}
  PROVE  /\ Released(j, pc) \in [JobIds -> WorkState \cup {None}]
         /\ Cleared(j) \in [Conversations -> JobIds \cup {None}]
<1>1. [work[j] EXCEPT !.pc = pc, !.prev = None, !.ahead = {}] \in WorkState
  BY WorkOf DEF WorkState
<1>2. \A i \in JobIds : work[i] # None =>
        [work[i] EXCEPT !.prev = IF @ = j THEN None ELSE @, !.ahead = @ \ {j}] \in WorkState
  BY WorkOf DEF WorkState
<1>3. QED
  BY <1>1, <1>2 DEF Released, Cleared, Facts, TypeOK

\* The worker and the queue keep the types.
LEMMA JobType ==
  ASSUME Facts, NEW j \in JobIds,
         Take(j) \/ Process(j) \/ Stalled(j) \/ Forget(j)
  PROVE  TypeOK'
<1> USE DEF bounds, store, memory
<1>1. CASE Take(j)
  <2>1. job[j] \in JobState
    BY <1>1, Entries DEF Take, Facts
  <2>2. [job[j] EXCEPT !.st = "active"] \in JobState
    BY <2>1 DEF JobState
  <2>3. KeyOf(j) \in Conversations
    BY <2>1, IngressAssumption DEF KeyOf, JobState
  <2>4. Lane(KeyOf(j)) \subseteq JobIds
    BY DEF Lane
  <2>5. [pc |-> "lock", prev |-> tails[KeyOf(j)], ahead |-> Lane(KeyOf(j))] \in WorkState
    BY <2>3, <2>4 DEF WorkState, Facts, TypeOK
  <2>6. QED
    BY <1>1, <2>2, <2>3, <2>5 DEF Take, Facts, TypeOK
<1>2. CASE StartDispatch(j)
  <2>1. [work[j] EXCEPT !.pc = "dispatching"] \in WorkState
    BY <1>2, WorkOf DEF StartDispatch, Working, WorkState
  <2>2. QED
    BY <1>2, <2>1 DEF StartDispatch, Facts, TypeOK
<1>3. CASE Handled(j)
  <2>1. work[j] # None
    BY <1>3 DEF Handled, Working
  <2>2. QED
    BY <1>3, <2>1, WorkOf, SettleType DEF Handled, Facts, TypeOK
<1>4. CASE DispatchFails(j)
  <2>1. work[j] # None
    BY <1>4 DEF DispatchFails, Working
  <2>2. QED
    BY <1>4, <2>1, WorkOf, SettleType DEF DispatchFails, Facts, TypeOK
<1>5. CASE Bury(j)
  <2>1. work[j] # None
    BY <1>5 DEF Bury, Working
  <2>2. dlq' \in [Rows -> RowState \cup {None}] /\ lost' \subseteq Deliveries
    BY <1>5, <2>1, WorkOf, SaveType DEF Bury, Facts
  <2>3. [work[j] EXCEPT !.pc = "throw"] \in WorkState
    BY <2>1, WorkOf DEF WorkState
  <2>4. QED
    BY <1>5, <2>2, <2>3 DEF Bury, Facts, TypeOK
<1>6. CASE Finish(j)
  <2>1. work[j] # None
    BY <1>6 DEF Finish, Working
  <2>2. job[j] \in JobState /\ job[j].attempts + 1 \in 0 .. MaxAttempts
    BY <2>1, WorkOf, IngressAssumption
  <2>3. \A st \in {"waiting", "active", "finished"} :
          [job[j] EXCEPT !.st = st, !.attempts = job[j].attempts + 1] \in JobState
    BY <2>2 DEF JobState
  <2>4. Reported(j) \in [JobIds -> JobState \cup {None}]
    BY <2>2, <2>3 DEF Reported, Facts, TypeOK
  <2>5. job' \in [JobIds -> JobState \cup {None}]
    BY <1>6, <2>4 DEF Finish, Facts, TypeOK
  <2>6. outages' \in 0 .. MaxOutages
    BY <1>6, IngressAssumption DEF Finish, Outage, Facts, TypeOK
  <2>7. QED
    BY <1>6, <2>5, <2>6 DEF Finish, Facts, TypeOK
<1>7. CASE Stalled(j)
  <2>1. job[j] \in JobState
    BY <1>7, Entries DEF Stalled, Facts
  <2> DEFINE again == [job[j] EXCEPT !.st = "waiting", !.stalls = 1]
             over == [job[j] EXCEPT !.st = "finished"]
  <2>a. 1 \in 0 .. 1
    OBVIOUS
  <2>b. again \in JobState
    BY <2>1, <2>a DEF JobState
  <2>c. over \in JobState
    BY <2>1 DEF JobState
  <2>2. again \in JobState /\ over \in JobState /\ job[j].d \in Deliveries
    BY <2>1, <2>b, <2>c DEF JobState
  <2>3. job' \in [JobIds -> JobState \cup {None}]
    BY <1>7, <2>2 DEF Stalled, Facts, TypeOK
  <2>4. QED
    BY <1>7, <2>2, <2>3 DEF Stalled, Facts, TypeOK
<1>8. CASE Forget(j)
  BY <1>8 DEF Forget, Facts, TypeOK
<1>9. QED
  BY <1>1, <1>2, <1>3, <1>4, <1>5, <1>6, <1>7, <1>8 DEF Process

\* So do a crash and a boot.
LEMMA ProcessType ==
  ASSUME Facts, Crash \/ Boot
  PROVE  TypeOK'
<1> USE DEF bounds, store, memory
<1>1. CASE Crash
  <2>1. \A c \in Calls : call[c] # None /\ call[c].kind = "live" => call[c].d \in Deliveries
    BY CallOf
  <2>2. lost' \subseteq Deliveries
    BY <1>1, <2>1 DEF Crash, Facts, TypeOK
  <2>3. crashes' \in 0 .. MaxCrashes
    BY <1>1, IngressAssumption DEF Crash, Facts, TypeOK
  <2>4. QED
    BY <1>1, <2>2, <2>3 DEF Crash, Facts, TypeOK
<1>2. CASE Boot
  BY <1>2 DEF Boot, Facts, TypeOK
<1>3. QED
  BY <1>1, <1>2

-----------------------------------------------------------------------------
(* Lanes *)

\* The lane of k holds the jobs of k that are in a lane.
LEMMA LaneOf ==
  ASSUME NEW k, NEW j \in JobIds
  PROVE  j \in Lane(k) <=> InLane(j) /\ KeyOf(j) = k
  BY DEF Lane, InLane

\* A step that settles nobody and lets nobody in keeps the lanes.
LEMMA LaneSame ==
  ASSUME ChainInv, TailInv, tails' = tails,
         \A j \in JobIds : InLane(j)' <=> InLane(j),
         \A j \in JobIds : InLane(j) =>
           /\ work'[j].prev = work[j].prev
           /\ work'[j].ahead = work[j].ahead
           /\ KeyOf(j)' = KeyOf(j),
         \A j \in JobIds : Working(j, "dispatching")' => InLane(j) /\ work[j].prev = None
  PROVE  ChainInv' /\ TailInv'
<1>1. ASSUME NEW j \in JobIds, InLane(j)'
      PROVE  /\ work'[j].prev = None => work'[j].ahead = {}
             /\ \A p \in JobIds : work'[j].prev = p =>
                  /\ InLane(p)' /\ KeyOf(p)' = KeyOf(j)'
                  /\ work'[j].ahead = work'[p].ahead \cup {p}
             /\ Working(j, "dispatching")' => work'[j].prev = None
  <2>1. /\ InLane(j) /\ work'[j].prev = work[j].prev /\ work'[j].ahead = work[j].ahead
        /\ KeyOf(j)' = KeyOf(j)
    BY <1>1
  <2>2. \A p \in JobIds : work[j].prev = p =>
          /\ InLane(p) /\ KeyOf(p) = KeyOf(j)
          /\ work[j].ahead = work[p].ahead \cup {p}
    BY <2>1 DEF ChainInv
  <2>3. work[j].prev = None => work[j].ahead = {}
    BY <2>1 DEF ChainInv
  <2>4. QED
    BY <2>1, <2>2, <2>3
<1>2. \A k : Lane(k)' = Lane(k)
  BY DEF Lane, InLane
<1>3. \A k \in Conversations, t \in JobIds : tails[k] = t =>
        InLane(t) /\ work'[t].ahead = work[t].ahead
  BY LaneOf DEF TailInv
<1>4. TailInv'
  BY <1>2, <1>3 DEF TailInv
<1>5. ChainInv'
  BY <1>1 DEF ChainInv
<1>6. QED
  BY <1>4, <1>5

\* The last entrant of a lane has everybody else in it ahead of it.
LEMMA TakeLane ==
  ASSUME Facts, NEW j \in JobIds, Take(j)
  PROVE  LaneInv'
<1> DEFINE k == KeyOf(j)
<1>1. /\ job[j] # None /\ job[j] \in JobState /\ job[j].st = "waiting"
      /\ k \in Conversations
  BY Entries, IngressAssumption DEF Take, Facts, JobState, KeyOf
<1>2. work[j] = None
  BY <1>1 DEF Facts, LaneInv, WorkInv
<1>3. \A i \in JobIds : i # j => work'[i] = work[i] /\ job'[i] = job[i]
  BY DEF Take, Facts, TypeOK
<1>4. /\ work'[j] # None /\ work'[j].pc = "lock" /\ work'[j].prev = tails[k]
      /\ work'[j].ahead = Lane(k)
  <2>1. work'[j] = [pc |-> "lock", prev |-> tails[k], ahead |-> Lane(k)]
    BY DEF Take, Facts, TypeOK
  <2>2. Lane(k) \subseteq JobIds /\ tails[k] \in JobIds \cup {None}
    BY <1>1 DEF Lane, Facts, TypeOK
  <2>3. work'[j] \in WorkState
    BY <2>1, <2>2 DEF WorkState
  <2>4. QED
    BY <2>1, <2>3, Nothing
<1>5. job'[j] # None /\ job'[j].st = "active" /\ job'[j].d = job[j].d
  <2>1. job'[j] = [job[j] EXCEPT !.st = "active"]
    BY DEF Take, Facts, TypeOK
  <2>2. job'[j] \in JobState
    BY <2>1, <1>1 DEF JobState
  <2>3. QED
    BY <2>1, <2>2, <1>1, Nothing DEF JobState
<1>6. \A i \in JobIds : KeyOf(i)' = KeyOf(i)
  BY <1>3, <1>5 DEF KeyOf
<1>7. \A i \in JobIds : i # j => (InLane(i)' <=> InLane(i))
  BY <1>3 DEF InLane, Working
<1>8. ~InLane(j) /\ InLane(j)' /\ ~Working(j, "dispatching")'
  BY <1>2, <1>4 DEF InLane, Working
<1>9. ASSUME NEW m
      PROVE  Lane(m)' = IF m = KeyOf(j) THEN Lane(m) \cup {j} ELSE Lane(m)
  BY <1>6, <1>7, <1>8 DEF Lane, InLane
<1>10. /\ tails'[k] = j
       /\ \A m \in Conversations : m # k => tails'[m] = tails[m]
  BY <1>1 DEF Take, Facts, TypeOK
<1>11. WorkInv'
  BY <1>3, <1>5 DEF WorkInv, Facts, LaneInv
<1>12. /\ tails[k] = None => Lane(k) = {}
       /\ \A t \in JobIds : tails[k] = t =>
            /\ InLane(t) /\ KeyOf(t) = k /\ t # j
            /\ Lane(k) = work[t].ahead \cup {t}
  BY <1>1, <1>8, LaneOf DEF Facts, LaneInv, TailInv
<1>13. ASSUME NEW i \in JobIds, InLane(i)'
       PROVE  /\ work'[i].prev = None => work'[i].ahead = {}
              /\ \A p \in JobIds : work'[i].prev = p =>
                   /\ InLane(p)' /\ KeyOf(p)' = KeyOf(i)'
                   /\ work'[i].ahead = work'[p].ahead \cup {p}
              /\ Working(i, "dispatching")' => work'[i].prev = None
  <2>1. CASE i = j
    <3>1. ASSUME NEW p \in JobIds, work'[i].prev = p
          PROVE  /\ InLane(p)' /\ KeyOf(p)' = KeyOf(i)'
                 /\ work'[i].ahead = work'[p].ahead \cup {p}
      <4>1. tails[k] = p
        BY <2>1, <3>1, <1>4
      <4>2. InLane(p) /\ KeyOf(p) = k /\ p # j /\ Lane(k) = work[p].ahead \cup {p}
        BY <4>1, <1>12
      <4>3. QED
        BY <2>1, <4>2, <1>3, <1>4, <1>6, <1>7
    <3>2. work'[i].prev = None => work'[i].ahead = {}
      BY <2>1, <1>4, <1>12
    <3>3. QED
      BY <2>1, <3>1, <3>2, <1>8
  <2>2. CASE i # j
    <3>1. InLane(i) /\ work'[i] = work[i]
      BY <2>2, <1>13, <1>3, <1>7
    <3>2. /\ work[i].prev = None => work[i].ahead = {}
          /\ \A p \in JobIds : work[i].prev = p =>
               /\ InLane(p) /\ KeyOf(p) = KeyOf(i)
               /\ work[i].ahead = work[p].ahead \cup {p}
          /\ Working(i, "dispatching") => work[i].prev = None
      BY <3>1 DEF Facts, LaneInv, ChainInv
    <3>3. \A p \in JobIds : work[i].prev = p =>
            /\ p # j /\ InLane(p)' /\ work'[p] = work[p] /\ KeyOf(p)' = KeyOf(i)'
      BY <3>2, <1>3, <1>6, <1>7, <1>8
    <3>4. Working(i, "dispatching")' => Working(i, "dispatching")
      BY <3>1 DEF Working
    <3>5. QED
      BY <3>1, <3>2, <3>3, <3>4
  <2>3. QED
    BY <2>1, <2>2
<1>14. ASSUME NEW m \in Conversations
       PROVE  /\ tails'[m] = None => Lane(m)' = {}
              /\ \A t \in JobIds : tails'[m] = t => /\ t \in Lane(m)'
                                                    /\ Lane(m)' = work'[t].ahead \cup {t}
  <2>1. CASE m = k
    <3>1. Lane(m)' = Lane(k) \cup {j}
      BY <2>1, <1>9
    <3>2. tails'[m] = j /\ j # None
      BY <2>1, <1>10, Nothing
    <3>3. work'[j].ahead = Lane(k)
      BY <1>4
    <3> HIDE DEF k
    <3>4. QED
      BY <3>1, <3>2, <3>3
  <2>2. CASE m # k
    <3>1. tails'[m] = tails[m] /\ Lane(m)' = Lane(m)
      BY <2>2, <1>9, <1>10
    <3>2. \A t \in JobIds : tails[m] = t => InLane(t) /\ t # j
      BY <1>8, LaneOf DEF Facts, LaneInv, TailInv
    <3>3. \A t \in JobIds : tails[m] = t => work'[t] = work[t]
      BY <3>2, <1>3
    <3>4. QED
      BY <3>1, <3>3 DEF Facts, LaneInv, TailInv
  <2>3. QED
    BY <2>1, <2>2
<1>15. ChainInv'
  BY <1>13 DEF ChainInv
<1>16. TailInv'
  BY <1>14 DEF TailInv
<1>17. QED
  BY <1>11, <1>15, <1>16 DEF LaneInv

\* Settling takes the head off a lane: whoever was chained on it is the new one.
LEMMA SettleLane ==
  ASSUME Facts, NEW j \in JobIds, Handled(j) \/ DispatchFails(j)
  PROVE  LaneInv'
<1>1. Working(j, "dispatching") /\ work[j] # None /\ tails' = Cleared(j) /\ job' = job
  BY DEF Handled, DispatchFails, Working, store
<1>2. PICK pc \in {"bury", "throw", "ok"} : work' = Released(j, pc)
  BY DEF Handled, DispatchFails
<1>3. InLane(j) /\ work[j].prev = None /\ work[j].ahead = {}
  BY <1>1 DEF InLane, Facts, LaneInv, ChainInv
<1>4. work[j] \in WorkState /\ KeyOf(j) \in Conversations
  BY <1>1, WorkOf
<1>5. /\ work'[j] # None /\ work'[j].pc = pc
      /\ ~InLane(j)'
  <2>1. work'[j] = [work[j] EXCEPT !.pc = pc, !.prev = None, !.ahead = {}]
    BY <1>2 DEF Released
  <2>2. work'[j] \in WorkState /\ work'[j].pc = pc
    BY <2>1, <1>4 DEF WorkState
  <2>3. QED
    BY <2>2, Nothing DEF InLane, Working
<1>6. ASSUME NEW i \in JobIds, i # j, work[i] # None
      PROVE  /\ work'[i] # None
             /\ work'[i].pc = work[i].pc
             /\ work'[i].prev = IF work[i].prev = j THEN None ELSE work[i].prev
             /\ work'[i].ahead = work[i].ahead \ {j}
  <2>1. work'[i] = [work[i] EXCEPT !.prev = IF work[i].prev = j THEN None ELSE work[i].prev,
                                   !.ahead = work[i].ahead \ {j}]
    BY <1>2, <1>6 DEF Released
  <2>2. work[i] \in WorkState
    BY <1>6, Entries DEF Facts
  <2>3. work'[i] \in WorkState
    BY <2>1, <2>2 DEF WorkState
  <2>4. QED
    BY <2>1, <2>2, <2>3, Nothing DEF WorkState
<1>7. \A i \in JobIds : i # j /\ work[i] = None => work'[i] = None
  BY <1>2 DEF Released
<1>8. \A i \in JobIds : i # j => (InLane(i)' <=> InLane(i))
  BY <1>6, <1>7 DEF InLane, Working
<1>9. \A i \in JobIds : KeyOf(i)' = KeyOf(i)
  BY <1>1 DEF KeyOf
<1>10. ASSUME NEW m PROVE Lane(m)' = Lane(m) \ {j}
  BY <1>5, <1>8, <1>9 DEF Lane, InLane
<1>11. WorkInv'
  BY <1>1, <1>7 DEF WorkInv, Facts, LaneInv
<1>12. ASSUME NEW i \in JobIds, InLane(i)'
       PROVE  /\ work'[i].prev = None => work'[i].ahead = {}
              /\ \A p \in JobIds : work'[i].prev = p =>
                   /\ InLane(p)' /\ KeyOf(p)' = KeyOf(i)'
                   /\ work'[i].ahead = work'[p].ahead \cup {p}
              /\ Working(i, "dispatching")' => work'[i].prev = None
  <2>1. i # j /\ InLane(i) /\ work[i] # None
    BY <1>5, <1>8, <1>12 DEF InLane, Working
  <2>2. /\ work'[i].pc = work[i].pc
        /\ work'[i].prev = IF work[i].prev = j THEN None ELSE work[i].prev
        /\ work'[i].ahead = work[i].ahead \ {j}
    BY <2>1, <1>6
  <2>3. /\ work[i].prev = None => work[i].ahead = {}
        /\ \A p \in JobIds : work[i].prev = p =>
             /\ InLane(p) /\ KeyOf(p) = KeyOf(i)
             /\ work[i].ahead = work[p].ahead \cup {p}
        /\ Working(i, "dispatching") => work[i].prev = None
    BY <2>1 DEF Facts, LaneInv, ChainInv
  <2>4. work'[i].prev = None => work'[i].ahead = {}
    BY <2>2, <2>3, <1>3
  <2>5. ASSUME NEW p \in JobIds, work'[i].prev = p
        PROVE  /\ InLane(p)' /\ KeyOf(p)' = KeyOf(i)'
               /\ work'[i].ahead = work'[p].ahead \cup {p}
    <3>1. p # j /\ work[i].prev = p
      BY <2>2, <2>5, Nothing
    <3>2. InLane(p) /\ KeyOf(p) = KeyOf(i) /\ work[i].ahead = work[p].ahead \cup {p}
      BY <3>1, <2>3
    <3>3. work[p] # None
      BY <3>2 DEF InLane, Working
    <3>4. work'[p].ahead = work[p].ahead \ {j}
      BY <3>1, <3>3, <1>6
    <3>5. QED
      BY <3>1, <3>2, <3>4, <2>2, <1>8, <1>9
  <2>6. Working(i, "dispatching")' => work'[i].prev = None
    BY <2>1, <2>2, <2>3, Nothing DEF Working
  <2>7. QED
    BY <2>4, <2>5, <2>6
<1>13. ASSUME NEW m \in Conversations
       PROVE  /\ tails'[m] = None => Lane(m)' = {}
              /\ \A t \in JobIds : tails'[m] = t => /\ t \in Lane(m)'
                                                    /\ Lane(m)' = work'[t].ahead \cup {t}
  <2>1. /\ tails[m] = None => Lane(m) = {}
        /\ \A t \in JobIds : tails[m] = t => t \in Lane(m) /\ Lane(m) = work[t].ahead \cup {t}
    BY DEF Facts, LaneInv, TailInv
  <2>2. CASE tails[m] = j
    <3>1. m = KeyOf(j) /\ Lane(m) = {j}
      BY <2>1, <2>2, <1>3, LaneOf
    <3>2. tails'[m] = None
      BY <3>1, <2>2, <1>1, <1>4 DEF Cleared, Facts, TypeOK
    <3>3. QED
      BY <3>1, <3>2, <1>10, Nothing
  <2>3. CASE tails[m] # j
    <3>1. tails'[m] = tails[m]
      BY <2>3, <1>1, <1>4 DEF Cleared, Facts, TypeOK
    <3>2. ASSUME NEW t \in JobIds, tails[m] = t
          PROVE  t \in Lane(m)' /\ Lane(m)' = work'[t].ahead \cup {t}
      <4>1. t # j /\ t \in Lane(m) /\ Lane(m) = work[t].ahead \cup {t}
        BY <2>1, <2>3, <3>2
      <4>2. work[t] # None
        BY <4>1, LaneOf DEF InLane, Working
      <4>3. work'[t].ahead = work[t].ahead \ {j}
        BY <4>1, <4>2, <1>6
      <4>4. QED
        BY <4>1, <4>3, <1>10
    <3>3. QED
      BY <3>1, <3>2, <2>1, <1>10
  <2>4. QED
    BY <2>2, <2>3
<1>14. ChainInv'
  BY <1>12 DEF ChainInv
<1>15. TailInv'
  BY <1>13 DEF TailInv
<1>16. QED
  BY <1>11, <1>14, <1>15 DEF LaneInv

\* A step that leaves the workers alone, and their jobs, keeps the lanes.
LEMMA LaneIdle ==
  ASSUME LaneInv, work' = work, tails' = tails,
         \A j \in JobIds : work[j] # None => job'[j] = job[j]
  PROVE  LaneInv'
<1>1. \A j \in JobIds : /\ InLane(j)' <=> InLane(j)
                        /\ Working(j, "dispatching")' <=> Working(j, "dispatching")
  BY DEF InLane, Working
<1>2. \A j \in JobIds : InLane(j) => KeyOf(j)' = KeyOf(j)
  BY DEF InLane, Working, KeyOf
<1>3. \A j \in JobIds : Working(j, "dispatching") => InLane(j) /\ work[j].prev = None
  BY DEF LaneInv, ChainInv, InLane
<1>4. ChainInv' /\ TailInv'
  BY <1>1, <1>2, <1>3, LaneSame DEF LaneInv
<1>5. WorkInv'
  BY DEF LaneInv, WorkInv
<1>6. QED
  BY <1>4, <1>5 DEF LaneInv

\* What an add leaves alone.
LEMMA AddedElse ==
  ASSUME TypeOK, NEW r \in CallState, r.d \in Deliveries
  PROVE  \A j \in JobIds : job[j] # None => Added(r)[j] = job[j]
  BY AddedType DEF Added, TypeOK

\* Every step of a request,
LEMMA RequestLane ==
  ASSUME Facts, NEW c \in Calls,
         \/ \E d \in Deliveries : Record(c, d)
         \/ Enqueue(c) \/ Redrive(c) \/ RedriveNext(c) \/ Retire(c)
  PROVE  LaneInv'
<1>1. work' = work /\ tails' = tails
  BY DEF Record, Enqueue, QueueAdd, DispatchInline, InlineHandled, InlineFails, DeadLetter,
         Redrive, RedriveNext, Retire, store
<1>2. job' = job \/ (At(c, "enqueue") /\ job' = Added(call[c]))
  BY DEF Record, Enqueue, QueueAdd, DispatchInline, InlineHandled, InlineFails, DeadLetter,
         Redrive, RedriveNext, Retire, store
<1>3. At(c, "enqueue") => \A j \in JobIds : job[j] # None => Added(call[c])[j] = job[j]
  BY CallOf, AddedElse DEF At, Facts
<1>4. \A j \in JobIds : work[j] # None => job[j] # None
  BY DEF Facts, LaneInv, WorkInv
<1>5. \A j \in JobIds : work[j] # None => job'[j] = job[j]
  BY <1>2, <1>3, <1>4
<1>6. QED
  BY <1>1, <1>5, LaneIdle DEF Facts

\* of a worker or the queue,
LEMMA JobLane ==
  ASSUME Facts, NEW j \in JobIds,
         Take(j) \/ Process(j) \/ Stalled(j) \/ Forget(j)
  PROVE  LaneInv'
<1>1. CASE Take(j)
  BY <1>1, TakeLane
<1>2. CASE Handled(j) \/ DispatchFails(j)
  BY <1>2, SettleLane
<1>3. CASE StartDispatch(j)
  <2>1. /\ work[j] # None /\ work[j] \in WorkState /\ work[j].pc = "lock" /\ work[j].prev = None
        /\ work' = [work EXCEPT ![j].pc = "dispatching"]
        /\ tails' = tails /\ job' = job
    BY <1>3, WorkOf DEF StartDispatch, Working, store
  <2>2. /\ work'[j] # None /\ work'[j].pc = "dispatching"
        /\ work'[j].prev = work[j].prev /\ work'[j].ahead = work[j].ahead
    <3>1. work'[j] = [work[j] EXCEPT !.pc = "dispatching"]
      BY <2>1 DEF Facts, TypeOK
    <3>2. work'[j] \in WorkState
      BY <2>1, <3>1 DEF WorkState
    <3>3. QED
      BY <2>1, <3>1, <3>2, Nothing DEF WorkState
  <2>3. \A i \in JobIds : i # j => work'[i] = work[i]
    BY <2>1 DEF Facts, TypeOK
  <2>4. \A i \in JobIds : InLane(i)' <=> InLane(i)
    BY <2>1, <2>2, <2>3 DEF InLane, Working
  <2>5. \A i \in JobIds : InLane(i) => /\ work'[i].prev = work[i].prev
                                       /\ work'[i].ahead = work[i].ahead
                                       /\ KeyOf(i)' = KeyOf(i)
    BY <2>1, <2>2, <2>3 DEF KeyOf
  <2>6. \A i \in JobIds : Working(i, "dispatching")' => InLane(i) /\ work[i].prev = None
    <3>1. \A i \in JobIds : Working(i, "dispatching") => InLane(i) /\ work[i].prev = None
      BY DEF Facts, LaneInv, ChainInv, InLane
    <3>2. QED
      BY <3>1, <2>1, <2>3 DEF InLane, Working
  <2>7. ChainInv' /\ TailInv'
    BY <2>1, <2>4, <2>5, <2>6, LaneSame DEF Facts, LaneInv
  <2>8. WorkInv'
    BY <2>1, <2>3 DEF Facts, LaneInv, WorkInv
  <2>9. QED
    BY <2>7, <2>8 DEF LaneInv
<1>4. CASE Bury(j) \/ Finish(j)
  <2>1. /\ work[j] # None /\ work[j].pc \in {"bury", "ok", "throw"} /\ tails' = tails
        /\ \A i \in JobIds : i # j => work'[i] = work[i] /\ job'[i] = job[i]
    BY <1>4 DEF Bury, Finish, Working, Reported, Facts, TypeOK
  <2>2. work'[j] = None \/ work'[j].pc = "throw"
    <3>1. CASE Bury(j)
      <4>1. work'[j] = [work[j] EXCEPT !.pc = "throw"]
        BY <3>1 DEF Bury, Facts, TypeOK
      <4>2. QED
        BY <4>1, <2>1, WorkOf DEF WorkState
    <3>2. CASE Finish(j)
      BY <3>2 DEF Finish, Facts, TypeOK
    <3>3. QED
      BY <1>4, <3>1, <3>2
  <2>3. ~InLane(j) /\ ~InLane(j)' /\ ~Working(j, "dispatching")'
    BY <2>1, <2>2 DEF InLane, Working
  <2>4. \A i \in JobIds : /\ InLane(i)' <=> InLane(i)
                          /\ Working(i, "dispatching")' => Working(i, "dispatching")
    BY <2>1, <2>3 DEF InLane, Working
  <2>5. \A i \in JobIds : InLane(i) => /\ work'[i] = work[i] /\ KeyOf(i)' = KeyOf(i)
    BY <2>1, <2>3 DEF KeyOf
  <2>6. \A i \in JobIds : Working(i, "dispatching") => InLane(i) /\ work[i].prev = None
    BY DEF Facts, LaneInv, ChainInv, InLane
  <2>7. ChainInv' /\ TailInv'
    BY <2>1, <2>4, <2>5, <2>6, LaneSame DEF Facts, LaneInv
  <2>8. work'[j] # None => job' = job
    BY <1>4 DEF Bury, Finish, Facts, TypeOK
  <2>9. WorkInv'
    BY <2>1, <2>8 DEF Facts, LaneInv, WorkInv
  <2>10. QED
    BY <2>7, <2>9 DEF LaneInv
<1>5. CASE Stalled(j) \/ Forget(j)
  <2>1. /\ work' = work /\ tails' = tails
        /\ \A i \in JobIds : i # j => job'[i] = job[i]
    BY <1>5 DEF Stalled, Forget, memory, Facts, TypeOK
  <2>2. work[j] = None
    BY <1>5 DEF Stalled, Forget, Facts, LaneInv, WorkInv
  <2>3. QED
    BY <2>1, <2>2, LaneIdle DEF Facts
<1>6. QED
  BY <1>1, <1>2, <1>3, <1>4, <1>5 DEF Process

\* and of the process.
LEMMA ProcessLane ==
  ASSUME Facts, Crash \/ Boot
  PROVE  LaneInv'
<1>1. CASE Crash
  BY <1>1, Nothing DEF Crash, LaneInv, WorkInv, ChainInv, TailInv, Lane, InLane, Working
<1>2. CASE Boot
  BY <1>2, LaneIdle DEF Boot, Facts, memory, store
<1>3. QED
  BY <1>1, <1>2

-----------------------------------------------------------------------------
(* Rows, requests and jobs *)

\* No row is ever taken back, or becomes another delivery's.
RowsKept == \A r \in Rows : dlq[r] # None => dlq'[r] # None /\ dlq'[r].d = dlq[r].d

\* A new dead letter comes after every other; a save that fails gives up the
\* delivery.
Recorded(d) ==
  \/ d \in lost'
  \/ \E q \in Rows : /\ dlq[q] = None /\ dlq'[q] # None
                     /\ dlq'[q].d = d /\ ~dlq'[q].redriven
                     /\ \A n \in Rows : dlq[n] # None => q > n

\* What SaveRow and SaveFails do to the rows.
LEMMA SaveEffect ==
  ASSUME Facts, NEW d \in Deliveries, SaveRow(d) \/ SaveFails(d)
  PROVE  /\ RowsInv' /\ RowsKept /\ Recorded(d)
         /\ \A r \in Rows : dlq[r] # None => dlq'[r] = dlq[r]
         /\ lost \subseteq lost'
<1>1. CASE SaveRow(d)
  <2>1. PICK q \in Rows : /\ dlq[q] = None
                          /\ \A r \in 1 .. q - 1 : dlq[r] # None
                          /\ dlq' = [dlq EXCEPT ![q] = [d |-> d, redriven |-> FALSE]]
                          /\ lost' = lost
    BY <1>1 DEF SaveRow
  <2>2. dlq'[q] = [d |-> d, redriven |-> FALSE]
    BY <2>1 DEF Facts, TypeOK
  <2>3. dlq'[q] \in RowState /\ dlq'[q].d = d /\ ~dlq'[q].redriven
    BY <2>2 DEF RowState
  <2>4. \A r \in Rows : r # q => dlq'[r] = dlq[r]
    BY <2>1 DEF Facts, TypeOK
  <2>5. \A n \in Rows : dlq[n] # None => q > n
    <3>1. SUFFICES ASSUME NEW n \in Rows, dlq[n] # None, ~(q > n) PROVE FALSE
      OBVIOUS
    <3>2. q \in 1 .. n - 1
      BY <2>1, <3>1, IngressAssumption DEF Rows
    <3>3. QED
      BY <2>1, <3>1, <3>2 DEF Facts, RowsInv
  <2>6. dlq'[q] # None
    BY <2>3, Nothing
  <2>7. Recorded(d)
    BY <2>1, <2>3, <2>5, <2>6 DEF Recorded
  <2>8. \A r \in Rows : dlq[r] # None => dlq'[r] = dlq[r]
    BY <2>1, <2>4
  <2>9. RowsInv'
    <3>1. SUFFICES ASSUME NEW r \in Rows, dlq'[r] # None, NEW p \in 1 .. r - 1
                   PROVE  dlq'[p] # None
      BY DEF RowsInv
    <3>2. p \in Rows
      BY <3>1, IngressAssumption DEF Rows
    <3>3. dlq[p] # None \/ p = q
      <4>1. CASE r = q
        BY <4>1, <2>1
      <4>2. CASE r # q
        BY <4>2, <3>1, <2>4 DEF Facts, RowsInv
      <4>3. QED
        BY <4>1, <4>2
    <3>4. QED
      BY <3>2, <3>3, <2>6, <2>8
  <2>10. QED
    BY <2>1, <2>7, <2>8, <2>9 DEF RowsKept
<1>2. CASE SaveFails(d)
  BY <1>2 DEF SaveFails, Recorded, RowsKept, RowsInv, Facts
<1>3. QED
  BY <1>1, <1>2

\* Rows stay, and stay below the free ones, in every step of a request
LEMMA RequestRows ==
  ASSUME Facts, NEW c \in Calls,
         \/ \E d \in Deliveries : Record(c, d)
         \/ Enqueue(c) \/ Redrive(c) \/ RedriveNext(c) \/ Retire(c)
  PROVE  RowsInv' /\ RowsKept
<1>1. CASE DeadLetter(c)
  <2>1. call[c] # None /\ call[c].pc = "letter"
    BY <1>1 DEF DeadLetter, At
  <2>2. QED
    BY <1>1, <2>1, CallOf, SaveEffect DEF DeadLetter
<1>2. CASE Retire(c)
  <2>1. call[c] # None /\ call[c].pc = "retire"
    BY <1>2 DEF Retire, At
  <2>2. call[c].row \in Rows /\ dlq[call[c].row] \in RowState
    BY <2>1, CallOf, Entries DEF Facts
  <2>3. \A r \in Rows : r # call[c].row => dlq'[r] = dlq[r]
    BY <1>2 DEF Retire, Facts, TypeOK
  <2>4. \/ dlq'[call[c].row] = dlq[call[c].row]
        \/ dlq'[call[c].row] = [dlq[call[c].row] EXCEPT !.redriven = TRUE]
    BY <1>2, <2>2 DEF Retire, Facts, TypeOK
  <2>5. dlq'[call[c].row] \in RowState /\ dlq'[call[c].row].d = dlq[call[c].row].d
    BY <2>2, <2>4 DEF RowState
  <2>6. \A r \in Rows : dlq'[r] # None <=> dlq[r] # None
    BY <2>2, <2>3, <2>5, Nothing
  <2>7. RowsKept
    BY <2>3, <2>5, <2>6 DEF RowsKept
  <2>8. \A r \in Rows : \A q \in 1 .. r - 1 : q \in Rows
    BY IngressAssumption DEF Rows
  <2>9. RowsInv'
    BY <2>6, <2>8 DEF Facts, RowsInv
  <2>10. QED
    BY <2>7, <2>9
<1>3. CASE ~DeadLetter(c) /\ ~Retire(c)
  <2>1. dlq' = dlq
    BY <1>3 DEF Record, Enqueue, QueueAdd, DispatchInline, InlineHandled, InlineFails,
                Redrive, RedriveNext, store
  <2>2. QED
    BY <2>1 DEF RowsKept, RowsInv, Facts
<1>4. QED
  BY <1>1, <1>2, <1>3

\* and in every other.
LEMMA JobRows ==
  ASSUME Facts, NEW j \in JobIds,
         Take(j) \/ Process(j) \/ Stalled(j) \/ Forget(j)
  PROVE  RowsInv' /\ RowsKept
<1>1. CASE Bury(j)
  <2>1. job[j].d \in Deliveries
    BY <1>1, WorkOf DEF Bury, Working
  <2>2. QED
    BY <1>1, <2>1, SaveEffect DEF Bury
<1>2. CASE ~Bury(j)
  <2>1. dlq' = dlq
    BY <1>2 DEF Take, Process, StartDispatch, Handled, DispatchFails, Finish, Stalled, Forget, store
  <2>2. QED
    BY <2>1 DEF RowsKept, RowsInv, Facts
<1>3. QED
  BY <1>1, <1>2

\* What CallInv says of one request.
CallOK(r) ==
  IF r.kind = "live"
    THEN /\ r.d \in Deliveries /\ r.row = None
         /\ r.pc \in {"enqueue", "dispatching", "letter"}
    ELSE /\ r.pc # "letter"
         /\ \A q \in r.todo : dlq[q] # None
         /\ r.pc # "next" => r.row \in Rows /\ dlq[r.row] # None /\ dlq[r.row].d = r.d

\* A request that is in order stays so while its rows are kept.
LEMMA CallsKept ==
  ASSUME Facts, RowsKept, NEW c \in Calls, NEW x,
         call' = [call EXCEPT ![c] = x],
         x # None => x \in CallState /\ CallOK(x)
  PROVE  CallInv'
<1>1. ASSUME NEW r \in CallState, CallOK(r) PROVE CallOK(r)'
  <2>1. r.todo \subseteq Rows
    BY DEF CallState
  <2>2. QED
    BY <1>1, <2>1 DEF CallOK, RowsKept
<1>2. \A b \in Calls : call[b] # None => call[b] \in CallState /\ CallOK(call[b])
  BY Entries DEF Facts, CallInv, CallOK
<1>3. \A b \in Calls : call'[b] = IF b = c THEN x ELSE call[b]
  BY DEF Facts, TypeOK
<1>4. ASSUME NEW b \in Calls, call'[b] # None
      PROVE  \E r \in CallState : r = call'[b] /\ CallOK(r)'
  <2>1. PICK r : r = call'[b]
    OBVIOUS
  <2>2. r \in CallState /\ CallOK(r)
    BY <2>1, <1>2, <1>3, <1>4
  <2>3. QED
    BY <2>1, <2>2, <1>1
<1>5. ASSUME NEW b \in Calls, call'[b] # None
      PROVE  CallOK(call[b])'
  <2>1. PICK r \in CallState : r = call'[b] /\ CallOK(r)'
    BY <1>4, <1>5
  <2>2. QED
    BY <2>1 DEF CallOK
<1>6. QED
  BY <1>5 DEF CallInv, CallOK

\* Where a request goes next is in order.
LEMMA NextOK ==
  ASSUME NEW r \in CallState, CallOK(r)
  PROVE  /\ r.pc \in {"enqueue", "dispatching"} =>
              /\ Accepted(r) # None => Accepted(r) \in CallState /\ CallOK(Accepted(r))
              /\ Swallowed(r) \in CallState /\ CallOK(Swallowed(r))
              /\ [r EXCEPT !.pc = "dispatching"] \in CallState
              /\ CallOK([r EXCEPT !.pc = "dispatching"])
         /\ r.pc = "retire" => /\ [r EXCEPT !.pc = "next"] \in CallState
                               /\ CallOK([r EXCEPT !.pc = "next"])
<1>1. r.kind \in {"live", "redrive"}
  BY DEF CallState
<1>2. CASE r.kind = "live"
  <2>1. /\ [r EXCEPT !.pc = "letter"] \in CallState
        /\ [r EXCEPT !.pc = "dispatching"] \in CallState
    BY DEF CallState
  <2>2. QED
    BY <1>2, <2>1 DEF Accepted, Swallowed, CallOK, CallState
<1>3. CASE r.kind = "redrive"
  <2>1. \A pc \in {"retire", "next", "dispatching"} : [r EXCEPT !.pc = pc] \in CallState
    BY DEF CallState
  <2>2. QED
    BY <1>3, <2>1 DEF Accepted, Swallowed, CallOK, CallState
<1>4. QED
  BY <1>1, <1>2, <1>3

\* Requests stay in order in every step of one
LEMMA RequestCalls ==
  ASSUME Facts, NEW c \in Calls,
         \/ \E d \in Deliveries : Record(c, d)
         \/ Enqueue(c) \/ Redrive(c) \/ RedriveNext(c) \/ Retire(c)
  PROVE  CallInv'
<1>1. RowsKept
  BY RequestRows
<1>2. call[c] # None => call[c] \in CallState /\ CallOK(call[c])
  BY Entries DEF Facts, CallInv, CallOK
<1>3. ASSUME NEW d \in Deliveries, Record(c, d) PROVE CallInv'
  <2> DEFINE x == [kind |-> "live", d |-> d, row |-> None, todo |-> {}, pc |-> "enqueue"]
  <2>1. x \in CallState /\ CallOK(x)
    BY DEF CallState, CallOK
  <2>2. call' = [call EXCEPT ![c] = x]
    BY <1>3 DEF Record
  <2> HIDE DEF x
  <2>3. QED
    BY <1>1, <2>1, <2>2, CallsKept
<1>4. CASE QueueAdd(c)
  <2>1. call' = [call EXCEPT ![c] = Accepted(call[c])] /\ call[c] # None /\ call[c].pc = "enqueue"
    BY <1>4 DEF QueueAdd, At
  <2>2. QED
    BY <1>1, <1>2, <2>1, NextOK, CallsKept
<1>5. CASE DispatchInline(c)
  <2>1. /\ call' = [call EXCEPT ![c] = [call[c] EXCEPT !.pc = "dispatching"]]
        /\ call[c] # None /\ call[c].pc = "enqueue"
    BY <1>5 DEF DispatchInline, At
  <2>2. [call[c] EXCEPT !.pc = "dispatching"] \in CallState
        /\ CallOK([call[c] EXCEPT !.pc = "dispatching"])
    BY <1>2, <2>1, NextOK
  <2>3. QED
    BY <1>1, <2>1, <2>2, CallsKept
<1>6. CASE InlineHandled(c)
  <2>1. call' = [call EXCEPT ![c] = Accepted(call[c])] /\ call[c] # None /\ call[c].pc = "dispatching"
    BY <1>6 DEF InlineHandled, At
  <2>2. QED
    BY <1>1, <1>2, <2>1, NextOK, CallsKept
<1>7. CASE InlineFails(c)
  <2>1. call' = [call EXCEPT ![c] = Swallowed(call[c])] /\ call[c] # None /\ call[c].pc = "dispatching"
    BY <1>7 DEF InlineFails, At
  <2>2. QED
    BY <1>1, <1>2, <2>1, NextOK, CallsKept
<1>8. CASE DeadLetter(c)
  BY <1>1, <1>8, CallsKept DEF DeadLetter
<1>9. CASE Redrive(c)
  <2> DEFINE x(i) == [kind |-> "redrive", d |-> None, row |-> None,
                      todo |-> ToRedrive(i), pc |-> "next"]
  <2>1. \A i \in Instances : x(i) \in CallState /\ CallOK(x(i))
    BY DEF CallState, CallOK, ToRedrive
  <2>2. PICK i \in Instances : call' = [call EXCEPT ![c] = x(i)]
    BY <1>9 DEF Redrive
  <2> HIDE DEF x
  <2>3. QED
    BY <1>1, <2>1, <2>2, CallsKept
<1>10. CASE RedriveNext(c)
  <2> DEFINE next(r) == [call[c] EXCEPT !.d = dlq[r].d, !.row = r,
                                        !.todo = call[c].todo \ {r}, !.pc = "enqueue"]
  <2>1. call[c] # None /\ call[c].pc = "next" /\ call[c].kind = "redrive"
    <3>1. call[c] # None /\ call[c].pc = "next"
      BY <1>10 DEF RedriveNext, At
    <3>2. QED
      BY <3>1, CallOf
  <2>2. \/ call' = [call EXCEPT ![c] = None]
        \/ \E r \in call[c].todo : call' = [call EXCEPT ![c] = next(r)]
    BY <1>10 DEF RedriveNext
  <2>3. ASSUME NEW r \in call[c].todo PROVE next(r) \in CallState /\ CallOK(next(r))
    <3>1. r \in Rows /\ dlq[r] # None /\ dlq[r].d \in Deliveries
      BY <1>2, <2>1, Entries DEF CallOK, CallState, Facts, RowState
    <3>2. next(r) \in CallState
      BY <1>2, <2>1, <3>1 DEF CallState
    <3>3. /\ next(r).kind = "redrive" /\ next(r).pc = "enqueue" /\ next(r).row = r
          /\ next(r).d = dlq[r].d /\ next(r).todo \subseteq call[c].todo
      BY <1>2, <2>1 DEF CallState
    <3> HIDE DEF next
    <3>4. CallOK(next(r))
      BY <1>2, <2>1, <3>1, <3>3 DEF CallOK
    <3>5. QED
      BY <3>2, <3>4
  <2> HIDE DEF next
  <2>4. CASE call' = [call EXCEPT ![c] = None]
    BY <1>1, <2>4, CallsKept
  <2>5. ASSUME NEW r \in call[c].todo, call' = [call EXCEPT ![c] = next(r)] PROVE CallInv'
    BY <1>1, <2>3, <2>5, CallsKept
  <2>6. QED
    BY <2>2, <2>4, <2>5
<1>11. CASE Retire(c)
  <2>1. /\ \/ call' = [call EXCEPT ![c] = [call[c] EXCEPT !.pc = "next"]]
           \/ call' = [call EXCEPT ![c] = None]
        /\ call[c] # None /\ call[c].pc = "retire"
    BY <1>11 DEF Retire, At
  <2>2. [call[c] EXCEPT !.pc = "next"] \in CallState /\ CallOK([call[c] EXCEPT !.pc = "next"])
    BY <1>2, <2>1, NextOK
  <2>3. QED
    BY <1>1, <2>1, <2>2, CallsKept
<1>12. QED
  BY <1>3, <1>4, <1>5, <1>6, <1>7, <1>8, <1>9, <1>10, <1>11 DEF Enqueue

\* and in every other.
LEMMA OtherCalls ==
  ASSUME Facts, RowsKept,
         \/ \E j \in JobIds : Take(j) \/ Process(j) \/ Stalled(j) \/ Forget(j)
         \/ Crash \/ Boot
  PROVE  CallInv'
<1>1. CASE Crash
  BY <1>1 DEF Crash, CallInv
<1>2. CASE ~Crash
  <2>1. call' = call
    BY <1>2 DEF Take, Process, StartDispatch, Handled, DispatchFails, Bury, Finish, Stalled,
                Forget, Boot, memory
  <2>2. CASE Calls = {}
    BY <2>2 DEF CallInv
  <2>3. ASSUME NEW c \in Calls PROVE CallInv'
    <3>1. call' = [call EXCEPT ![c] = call[c]]
      BY <2>1 DEF Facts, TypeOK
    <3>2. call[c] # None => call[c] \in CallState /\ CallOK(call[c])
      BY Entries DEF Facts, CallInv, CallOK
    <3>3. QED
      BY <3>1, <3>2, CallsKept
  <2>4. QED
    BY <2>2, <2>3
<1>3. QED
  BY <1>1, <1>2

\* A job stays the one its name says, whatever happens to its attempts.
LEMMA JobsKept ==
  ASSUME Facts, RowsKept,
         \A i \in JobIds : job'[i] # None =>
           \/ /\ job[i] # None /\ job'[i].d = job[i].d
              /\ job'[i].st # "finished" => job'[i].attempts < MaxAttempts
           \/ /\ job'[i].attempts < MaxAttempts
              /\ i \in DeliveryIds => deliveryId[job'[i].d] = i
              /\ i \in Rows => dlq[i] # None /\ dlq[i].d = job'[i].d
  PROVE  JobInv'
  BY DEF JobInv, Facts, RowsKept

\* No step of a request makes a job another delivery's,
LEMMA RequestJobs ==
  ASSUME Facts, NEW c \in Calls,
         \/ \E d \in Deliveries : Record(c, d)
         \/ Enqueue(c) \/ Redrive(c) \/ RedriveNext(c) \/ Retire(c)
  PROVE  JobInv'
<1>1. RowsKept
  BY RequestRows
<1>2. CASE job' = job
  BY <1>1, <1>2, JobsKept DEF Facts, JobInv
<1>3. CASE At(c, "enqueue") /\ job' = Added(call[c])
  <2>1. /\ call[c] \in CallState /\ call[c].d \in Deliveries
        /\ call[c].kind \in {"live", "redrive"}
        /\ call[c].kind = "live" => call[c].row = None
        /\ call[c].kind = "redrive" => /\ call[c].row \in Rows /\ dlq[call[c].row] # None
                                       /\ dlq[call[c].row].d = call[c].d
    BY <1>3, CallOf DEF At
  <2> DEFINE i == JobId(call[c])
             new == [d |-> call[c].d, st |-> "waiting", attempts |-> 0, stalls |-> 0]
  <2>2. /\ i \in JobIds
        /\ i \in DeliveryIds => deliveryId[call[c].d] = i
        /\ i \in Rows => dlq[i] # None /\ dlq[i].d = call[c].d
    BY <2>1, IngressAssumption, Nothing DEF JobId, JobIds
  <2>3. job[i] # None => job' = job
    BY <1>3 DEF Added
  <2>4. job[i] = None => job' = [job EXCEPT ![i] = new]
    BY <1>3 DEF Added
  <2>5. new.d = call[c].d /\ new.attempts = 0 /\ 0 < MaxAttempts
    BY IngressAssumption
  <2> HIDE DEF i, new
  <2>6. CASE job[i] = None
    <3>1. job'[i] = new /\ \A h \in JobIds : h # i => job'[h] = job[h]
      BY <2>2, <2>4, <2>6 DEF Facts, TypeOK
    <3>2. \A h \in JobIds : h # i /\ job[h] # None =>
            (job[h].st # "finished" => job[h].attempts < MaxAttempts)
      BY DEF Facts, JobInv
    <3>3. QED
      BY <1>1, <2>2, <2>5, <3>1, <3>2, JobsKept
  <2>7. QED
    BY <2>3, <2>6, <1>2
<1>4. QED
  BY <1>2, <1>3 DEF Record, Enqueue, QueueAdd, DispatchInline, InlineHandled, InlineFails, DeadLetter,
         Redrive, RedriveNext, Retire, store

\* and no other step does.
LEMMA OtherJobs ==
  ASSUME Facts, RowsKept,
         \/ \E j \in JobIds : Take(j) \/ Process(j) \/ Stalled(j) \/ Forget(j)
         \/ Crash \/ Boot
  PROVE  JobInv'
<1>1. CASE job' = job
  BY <1>1, JobsKept DEF Facts, JobInv
<1>2. \A i \in JobIds : job[i] # None /\ job[i].st # "finished" => job[i].attempts < MaxAttempts
  BY DEF Facts, JobInv
<1>3. ASSUME NEW j \in JobIds, Take(j) \/ Finish(j) \/ Stalled(j) \/ Forget(j), job' # job
      PROVE  JobInv'
  <2>1. job[j] # None /\ job[j] \in JobState
    BY <1>3, WorkOf, Entries DEF Take, Finish, Stalled, Forget, Working, Facts
  <2>2. \A i \in JobIds : i # j => job'[i] = job[i]
    BY <1>3 DEF Take, Finish, Reported, Stalled, Forget, Facts, TypeOK
  <2>3. job'[j] # None => /\ job'[j].d = job[j].d
                          /\ job'[j].st # "finished" => job'[j].attempts < MaxAttempts
    <3>1. CASE Take(j)
      <4>1. job'[j] = [job[j] EXCEPT !.st = "active"] /\ job[j].st = "waiting"
        BY <3>1 DEF Take, Facts, TypeOK
      <4>2. QED
        BY <4>1, <2>1, <1>2 DEF JobState
    <3>2. CASE Finish(j)
      <4>1. /\ work[j] # None /\ job[j].attempts \in Nat /\ MaxAttempts \in Nat
        BY <3>2, WorkOf, IngressAssumption DEF Finish, Working
      <4> DEFINE st == IF work[j].pc = "ok" \/ job[j].attempts + 1 >= MaxAttempts
                         THEN "finished" ELSE "waiting"
      <4>2. job'[j] = [job[j] EXCEPT !.st = st, !.attempts = job[j].attempts + 1]
        BY <3>2, <1>3, <2>1 DEF Finish, Reported, Facts, TypeOK
      <4>3. job'[j].d = job[j].d /\ job'[j].st = st /\ job'[j].attempts = job[j].attempts + 1
        BY <4>2, <2>1 DEF JobState
      <4>4. QED
        BY <4>1, <4>3
    <3>3. CASE Stalled(j)
      <4>1. \/ job'[j] = [job[j] EXCEPT !.st = "waiting", !.stalls = 1] /\ job[j].st = "active"
            \/ job'[j] = [job[j] EXCEPT !.st = "finished"]
        BY <3>3 DEF Stalled, Facts, TypeOK
      <4>2. QED
        BY <4>1, <2>1, <1>2 DEF JobState
    <3>4. CASE Forget(j)
      BY <3>4 DEF Forget, Facts, TypeOK
    <3>5. QED
      BY <1>3, <3>1, <3>2, <3>3, <3>4
  <2>4. QED
    BY <2>1, <2>2, <2>3, <1>2, JobsKept
<1>4. QED
  BY <1>1, <1>3 DEF Process, StartDispatch, Handled, DispatchFails, Bury, Crash, Boot, store

\* The rows outside requests and jobs.
LEMMA ProcessRows ==
  ASSUME Facts, Crash \/ Boot
  PROVE  RowsInv' /\ RowsKept
<1>1. dlq' = dlq
  BY DEF Crash, Boot, store
<1>2. QED
  BY <1>1 DEF RowsKept, RowsInv, Facts

\* Every step keeps what the lanes, the rows, the requests and the jobs are.
LEMMA FactsStep == Facts /\ [Next]_vars => Facts'
<1> SUFFICES ASSUME Facts, [Next]_vars PROVE Facts'
  OBVIOUS
<1>1. ASSUME NEW c \in Calls,
             \/ \E d \in Deliveries : Record(c, d)
             \/ Enqueue(c) \/ Redrive(c) \/ RedriveNext(c) \/ Retire(c)
      PROVE  Facts'
  <2>1. TypeOK'
    BY <1>1, RecordType, RequestType
  <2>2. LaneInv' /\ RowsInv' /\ CallInv' /\ JobInv'
    BY <1>1, RequestLane, RequestRows, RequestCalls, RequestJobs
  <2>3. QED
    BY <2>1, <2>2 DEF Facts
<1>2. ASSUME NEW j \in JobIds, Take(j) \/ Process(j) \/ Stalled(j) \/ Forget(j)
      PROVE  Facts'
  <2>1. TypeOK' /\ LaneInv' /\ RowsInv' /\ RowsKept
    BY <1>2, JobType, JobLane, JobRows
  <2>2. CallInv' /\ JobInv'
    BY <1>2, <2>1, OtherCalls, OtherJobs
  <2>3. QED
    BY <2>1, <2>2 DEF Facts
<1>3. CASE Crash \/ Boot
  <2>1. TypeOK' /\ LaneInv' /\ RowsInv' /\ RowsKept
    BY <1>3, ProcessType, ProcessLane, ProcessRows
  <2>2. CallInv' /\ JobInv'
    BY <1>3, <2>1, OtherCalls, OtherJobs
  <2>3. QED
    BY <2>1, <2>2 DEF Facts
<1>4. CASE UNCHANGED vars
  BY <1>4 DEF vars, store, memory, bounds, Facts, TypeOK, LaneInv, WorkInv, ChainInv, TailInv,
              RowsInv, CallInv, JobInv, InLane, Lane, Working, KeyOf
<1>5. QED
  BY <1>1, <1>2, <1>3, <1>4 DEF Next

-----------------------------------------------------------------------------
(* The trace of a delivery *)

\* A job that carries its delivery goes on carrying it, or something else does.
Stays(i) ==
  Unfinished(i) /\ ~GivenUp(i) =>
    \/ Unfinished(i)' /\ job'[i].d = job[i].d /\ ~GivenUp(i)'
    \/ job[i].d \in handled' \cup lost'
    \/ Recorded(job[i].d)

\* 0, or a row of the table.
Place(n) == n = 0 \/ (n \in Rows /\ dlq[n] # None)

\* A dead letter written now counts behind every row there was.
LEMMA RecordedBacks ==
  ASSUME NEW d, NEW n, Place(n), Recorded(d)
  PROVE  Backed(d, n)'
<1>1. CASE d \in lost'
  BY <1>1 DEF Backed
<1>2. ASSUME NEW q \in Rows, dlq'[q] # None, dlq'[q].d = d, ~dlq'[q].redriven,
             \A r \in Rows : dlq[r] # None => q > r
      PROVE  Backed(d, n)'
  <2>1. q > n
    BY <1>2, IngressAssumption DEF Place, Rows
  <2>2. QED
    BY <1>2, <2>1 DEF Backed
<1>3. QED
  BY <1>1, <1>2 DEF Recorded

\* What keeps a delivery accounted for.
LEMMA Keeps ==
  ASSUME handled \subseteq handled', lost \subseteq lost',
         \A i \in JobIds : Stays(i),
         NEW d, NEW n, Place(n), Backed(d, n),
         \A r \in Rows : r > n /\ dlq[r] # None /\ dlq[r].d = d /\ ~dlq[r].redriven =>
           dlq'[r] = dlq[r] \/ Backed(d, n)'
  PROVE  Backed(d, n)'
<1>1. CASE d \in handled \cup lost
  BY <1>1 DEF Backed
<1>2. ASSUME NEW i \in JobIds, Unfinished(i), job[i].d = d, ~GivenUp(i)
      PROVE  Backed(d, n)'
  <2>1. CASE Unfinished(i)' /\ job'[i].d = job[i].d /\ ~GivenUp(i)'
    BY <1>2, <2>1 DEF Backed, Carried
  <2>2. CASE job[i].d \in handled' \cup lost'
    BY <1>2, <2>2 DEF Backed
  <2>3. CASE Recorded(job[i].d)
    BY <1>2, <2>3, RecordedBacks
  <2>4. QED
    BY <1>2, <2>1, <2>2, <2>3 DEF Stays
<1>3. ASSUME NEW q \in Rows, q > n, dlq[q] # None, dlq[q].d = d, ~dlq[q].redriven
      PROVE  Backed(d, n)'
  BY <1>3 DEF Backed
<1>4. QED
  BY <1>1, <1>2, <1>3 DEF Backed, Carried

\* No step of a request takes a delivery off a job,
LEMMA RequestStays ==
  ASSUME Facts, NEW c \in Calls,
         \/ \E d \in Deliveries : Record(c, d)
         \/ Enqueue(c) \/ Redrive(c) \/ RedriveNext(c) \/ Retire(c)
  PROVE  /\ \A i \in JobIds : job[i] # None => job'[i] = job[i]
         /\ work' = work
         /\ \A i \in JobIds : Stays(i)
<1>1. work' = work
  BY DEF Record, Enqueue, QueueAdd, DispatchInline, InlineHandled, InlineFails, DeadLetter,
         Redrive, RedriveNext, Retire, store
<1>2. job' = job \/ (At(c, "enqueue") /\ job' = Added(call[c]))
  BY DEF Record, Enqueue, QueueAdd, DispatchInline, InlineHandled, InlineFails, DeadLetter,
         Redrive, RedriveNext, Retire, store
<1>3. At(c, "enqueue") => \A i \in JobIds : job[i] # None => Added(call[c])[i] = job[i]
  BY CallOf, AddedElse DEF At, Facts
<1>4. \A i \in JobIds : job[i] # None => job'[i] = job[i]
  BY <1>2, <1>3
<1>5. QED
  BY <1>1, <1>4 DEF Stays, Unfinished, GivenUp, Working, IsFinalAttempt

\* Nor does a step of one job touch another but to let it go on.
LEMMA JobOthers ==
  ASSUME Facts, NEW j \in JobIds,
         Take(j) \/ Process(j) \/ Stalled(j) \/ Forget(j),
         NEW i \in JobIds, i # j
  PROVE  /\ job'[i] = job[i]
         /\ work'[i] # None => work[i] # None /\ work'[i].pc = work[i].pc
<1>1. job'[i] = job[i]
  BY DEF Take, Process, StartDispatch, Handled, DispatchFails, Bury, Finish, Reported,
         Stalled, Forget, store, Facts, TypeOK
<1>2. CASE Handled(j) \/ DispatchFails(j)
  <2>1. PICK pc \in {"bury", "throw", "ok"} : work' = Released(j, pc)
    BY <1>2 DEF Handled, DispatchFails
  <2>2. work'[i] = IF work[i] = None THEN None
                   ELSE [work[i] EXCEPT !.prev = IF work[i].prev = j THEN None ELSE work[i].prev,
                                        !.ahead = work[i].ahead \ {j}]
    BY <2>1 DEF Released
  <2>3. QED
    BY <1>1, <2>2, WorkOf DEF WorkState
<1>3. CASE ~(Handled(j) \/ DispatchFails(j))
  <2>1. work'[i] = work[i]
    BY <1>3 DEF Take, Process, StartDispatch, Bury, Finish, Stalled, Forget, memory,
                Facts, TypeOK
  <2>2. QED
    BY <1>1, <2>1
<1>4. QED
  BY <1>2, <1>3

\* A job gives its delivery up only when it leaves a trace.
LEMMA JobStays ==
  ASSUME Facts, FinishedInv, NEW j \in JobIds,
         Take(j) \/ Process(j) \/ Stalled(j) \/ Forget(j)
  PROVE  \A i \in JobIds : Stays(i)
<1>1. ASSUME NEW i \in JobIds, i # j PROVE Stays(i)
  <2>1. job'[i] = job[i] /\ (work'[i] # None => work[i] # None /\ work'[i].pc = work[i].pc)
    BY <1>1, JobOthers
  <2>2. GivenUp(i)' => GivenUp(i)
    BY <2>1 DEF GivenUp, Working, IsFinalAttempt
  <2>3. QED
    BY <2>1, <2>2 DEF Stays, Unfinished
<1>2. Stays(j)
  <2>1. CASE Take(j)
    <3>1. /\ work'[j] = [pc |-> "lock", prev |-> tails[KeyOf(j)], ahead |-> Lane(KeyOf(j))]
          /\ job[j] # None /\ job[j] \in JobState
          /\ job'[j] = [job[j] EXCEPT !.st = "active"]
      BY <2>1, Entries DEF Take, Facts, TypeOK
    <3>2. work'[j].pc = "lock" /\ job'[j].st = "active" /\ job'[j].d = job[j].d /\ job'[j] # None
      BY <3>1, Nothing DEF JobState
    <3>3. QED
      BY <3>2 DEF Stays, Unfinished, GivenUp, Working
  <2>2. CASE StartDispatch(j)
    <3>1. work[j] \in WorkState /\ work' = [work EXCEPT ![j].pc = "dispatching"] /\ job' = job
      BY <2>2, WorkOf DEF StartDispatch, Working, store
    <3>2. work'[j].pc = "dispatching"
      BY <3>1 DEF WorkState, Facts, TypeOK
    <3>3. QED
      BY <3>1, <3>2 DEF Stays, Unfinished, GivenUp, Working
  <2>3. CASE Handled(j)
    BY <2>3 DEF Handled, Stays
  <2>4. CASE DispatchFails(j)
    <3>1. work[j] \in WorkState /\ job' = job
      BY <2>4, WorkOf DEF DispatchFails, Working, store
    <3> DEFINE pc == IF IsFinalAttempt(j) THEN "bury" ELSE "throw"
    <3>2. work'[j] = [work[j] EXCEPT !.pc = pc, !.prev = None, !.ahead = {}]
      BY <2>4 DEF DispatchFails, Released
    <3>3. work'[j].pc = pc
      BY <3>1, <3>2 DEF WorkState
    <3>4. QED
      BY <3>1, <3>3 DEF Stays, Unfinished, GivenUp, Working, IsFinalAttempt
  <2>5. CASE Bury(j)
    <3>1. job[j].d \in Deliveries
      BY <2>5, WorkOf DEF Bury, Working
    <3>2. Recorded(job[j].d)
      BY <2>5, <3>1, SaveEffect DEF Bury
    <3>3. QED
      BY <3>2 DEF Stays
  <2>6. CASE Finish(j)
    <3>1. /\ work[j] # None /\ work[j].pc \in {"ok", "throw"} /\ job[j] # None
          /\ work'[j] = None
      BY <2>6, WorkOf DEF Finish, Working, Facts, TypeOK
    <3>2. CASE job' = job
      BY <3>1, <3>2 DEF Stays, Unfinished, GivenUp, Working
    <3>3. CASE work[j].pc = "ok"
      <4>1. Working(j, "ok") /\ job[j].d \in Deliveries
        BY <3>1, <3>3, WorkOf DEF Working
      <4>2. job[j].d \in handled
        BY <3>1, <4>1 DEF FinishedInv
      <4>3. QED
        BY <2>6, <4>2 DEF Stays, Finish
    <3>4. CASE work[j].pc = "throw" /\ job' = Reported(j)
      <4>1. CASE IsFinalAttempt(j)
        BY <3>1, <3>4, <4>1 DEF Stays, GivenUp, Working
      <4>2. CASE ~IsFinalAttempt(j)
        <5>1. job'[j] = [job[j] EXCEPT !.st = "waiting", !.attempts = job[j].attempts + 1]
          BY <3>4, <4>2, WorkOf DEF Reported, IsFinalAttempt, Facts, TypeOK
        <5>2. job'[j].st = "waiting" /\ job'[j].d = job[j].d /\ job[j] \in JobState
          BY <3>1, <5>1, WorkOf DEF JobState
        <5>3. job'[j] # None
          <6>1. job[j].attempts + 1 \in 0 .. MaxAttempts
            BY <3>1, WorkOf, IngressAssumption
          <6>2. job'[j] \in JobState
            BY <5>1, <5>2, <6>1 DEF JobState
          <6>3. QED
            BY <6>2, Nothing
        <5>4. QED
          BY <3>1, <5>2, <5>3 DEF Stays, Unfinished, GivenUp, Working
      <4>3. QED
        BY <4>1, <4>2
    <3>5. QED
      BY <2>6, <3>1, <3>2, <3>3, <3>4 DEF Finish
  <2>7. CASE Stalled(j)
    <3>1. work[j] = None /\ work' = work /\ job[j] # None /\ job[j] \in JobState
      BY <2>7, Entries DEF Stalled, memory, Facts
    <3>2. CASE job[j].stalls = 0
      <4>1. job'[j] = [job[j] EXCEPT !.st = "waiting", !.stalls = 1]
        BY <2>7, <3>2 DEF Stalled, Facts, TypeOK
      <4>2. job'[j].st = "waiting" /\ job'[j].d = job[j].d
        BY <3>1, <4>1 DEF JobState
      <4>3. job'[j] # None
        <5>1. 1 \in 0 .. 1
          OBVIOUS
        <5>2. job'[j] = [d |-> job[j].d, st |-> "waiting", attempts |-> job[j].attempts, stalls |-> 1]
          BY <3>1, <4>1 DEF JobState
        <5>3. job[j].d \in Deliveries /\ job[j].attempts \in 0 .. MaxAttempts
          BY <3>1 DEF JobState
        <5>4. job'[j] \in JobState
          BY <5>1, <5>2, <5>3 DEF JobState
        <5>5. QED
          BY <5>4, Nothing
      <4>4. QED
        BY <3>1, <4>2, <4>3 DEF Stays, Unfinished, GivenUp, Working
    <3>3. CASE job[j].stalls # 0
      BY <2>7, <3>3 DEF Stalled, Stays
    <3>4. QED
      BY <3>2, <3>3
  <2>8. CASE Forget(j)
    BY <2>8 DEF Forget, Stays, Unfinished
  <2>9. QED
    BY <2>1, <2>2, <2>3, <2>4, <2>5, <2>6, <2>7, <2>8 DEF Process
<1>3. QED
  BY <1>1, <1>2

\* A crash takes no job away.
LEMMA ProcessStays ==
  ASSUME Facts, Crash \/ Boot
  PROVE  \A i \in JobIds : Stays(i)
  BY DEF Crash, Boot, memory, store, Stays, Unfinished, GivenUp, Working, IsFinalAttempt

\* What accounts for a delivery goes on doing so when a request takes a step,
LEMMA RequestKeeps ==
  ASSUME Facts, RetireInv, NEW c \in Calls,
         \/ \E e \in Deliveries : Record(c, e)
         \/ Enqueue(c) \/ Redrive(c) \/ RedriveNext(c) \/ Retire(c),
         NEW d, NEW n, Place(n), Backed(d, n)
  PROVE  Backed(d, n)'
<1>1. \A i \in JobIds : Stays(i)
  BY RequestStays
<1>2. CASE Retire(c)
  <2>1. handled' = handled /\ lost' = lost
    BY <1>2 DEF Retire
  <2>2. call[c] # None /\ call[c].pc = "retire"
    BY <1>2 DEF Retire, At
  <2>3. PICK r \in Rows : r = call[c].row /\ dlq[r] # None /\ dlq[r].d = call[c].d
    BY <2>2, CallOf DEF Facts, CallInv
  <2>4. \A q \in Rows : q # r => dlq'[q] = dlq[q]
    BY <1>2, <2>3 DEF Retire, Facts, TypeOK
  <2>5. ASSUME r > n, dlq[r].d = d PROVE Backed(d, n)'
    <3>1. d \in Deliveries
      BY <2>2, <2>3, <2>5, CallOf
    <3>2. Backed(d, r)
      BY <2>2, <2>3, <2>5, <3>1 DEF RetireInv, At
    <3>3. \A q \in Rows : q > r => dlq'[q] = dlq[q]
      BY <2>4, IngressAssumption DEF Rows
    <3>4. Place(r)
      BY <2>3 DEF Place
    <3>5. Backed(d, r)'
      BY <1>1, <2>1, <3>2, <3>3, <3>4, Keeps
    <3>6. \A q \in Rows : q > r => q > n
      BY <2>5, IngressAssumption DEF Rows, Place
    <3>7. QED
      BY <3>5, <3>6 DEF Backed
  <2>6. QED
    BY <1>1, <2>1, <2>4, <2>5, Keeps
<1>3. CASE ~Retire(c)
  <2>1. handled \subseteq handled'
    BY <1>3 DEF Record, Enqueue, QueueAdd, DispatchInline, InlineHandled, InlineFails, DeadLetter,
                Redrive, RedriveNext
  <2>2. lost \subseteq lost' /\ \A r \in Rows : dlq[r] # None => dlq'[r] = dlq[r]
    <3>1. CASE DeadLetter(c)
      <4>1. call[c].d \in Deliveries
        BY <3>1, CallOf DEF DeadLetter, At
      <4>2. QED
        BY <3>1, <4>1, SaveEffect DEF DeadLetter
    <3>2. CASE ~DeadLetter(c)
      BY <1>3, <3>2 DEF Record, Enqueue, QueueAdd, DispatchInline, InlineHandled, InlineFails,
                  Redrive, RedriveNext, store
    <3>3. QED
      BY <3>1, <3>2
  <2>3. QED
    BY <1>1, <2>1, <2>2, Keeps
<1>4. QED
  BY <1>2, <1>3

\* when a worker or the queue does,
LEMMA JobKeeps ==
  ASSUME Facts, FinishedInv, NEW j \in JobIds,
         Take(j) \/ Process(j) \/ Stalled(j) \/ Forget(j),
         NEW d, NEW n, Place(n), Backed(d, n)
  PROVE  Backed(d, n)'
<1>1. \A i \in JobIds : Stays(i)
  BY JobStays
<1>2. handled \subseteq handled'
  BY DEF Take, Process, StartDispatch, Handled, DispatchFails, Bury, Finish, Stalled, Forget
<1>3. lost \subseteq lost' /\ \A r \in Rows : dlq[r] # None => dlq'[r] = dlq[r]
  <2>1. CASE Bury(j)
    <3>1. job[j].d \in Deliveries
      BY <2>1, WorkOf DEF Bury, Working
    <3>2. QED
      BY <2>1, <3>1, SaveEffect DEF Bury
  <2>2. CASE ~Bury(j)
    BY <2>2 DEF Take, Process, StartDispatch, Handled, DispatchFails, Finish, Stalled, Forget, store
  <2>3. QED
    BY <2>1, <2>2
<1>4. QED
  BY <1>1, <1>2, <1>3, Keeps

\* and when the process stops or starts.
LEMMA ProcessKeeps ==
  ASSUME Facts, Crash \/ Boot, NEW d, NEW n, Place(n), Backed(d, n)
  PROVE  Backed(d, n)'
<1>1. \A i \in JobIds : Stays(i)
  BY ProcessStays
<1>2. handled' = handled /\ lost \subseteq lost' /\ dlq' = dlq
  BY DEF Crash, Boot, store
<1>3. QED
  BY <1>1, <1>2, Keeps

\* The row a job replays exists.
LEMMA RowOfPlace ==
  ASSUME Facts, NEW j \in JobIds, job[j] # None
  PROVE  Place(RowOf(j))
  BY DEF Facts, JobInv, RowOf, Place

\* Whatever the queue makes of an add, the delivery is accounted for without the
\* row that is being replayed.
LEMMA AddedBacks ==
  ASSUME Facts, RetireInv, FinishedInv, NEW c \in Calls, QueueAdd(c),
         NEW d, d = call[c].d, NEW n, n = IF call[c].kind = "live" THEN 0 ELSE call[c].row
  PROVE  Backed(d, n)'
<1>1. call[c] # None /\ call[c].pc = "enqueue" /\ job' = Added(call[c]) /\ work' = work
  BY DEF QueueAdd, At
<1>2. /\ call[c] \in CallState /\ call[c].kind \in {"live", "redrive"} /\ d \in Deliveries
      /\ call[c].kind = "live" => call[c].row = None
      /\ call[c].kind = "redrive" => /\ call[c].row \in Rows /\ dlq[call[c].row] # None
                                     /\ dlq[call[c].row].d = d
  BY <1>1, CallOf
<1>3. PICK i \in JobIds : i = JobId(call[c])
  BY <1>2, AddedType DEF Facts
<1>4. RowOf(i) = n /\ Place(n)
  BY <1>2, <1>3, IngressAssumption, Nothing DEF JobId, RowOf, Place
<1>5. CASE job[i] = None
  <2>1. job'[i] = [d |-> d, st |-> "waiting", attempts |-> 0, stalls |-> 0]
    BY <1>1, <1>3, <1>5 DEF Added, Facts, TypeOK
  <2>2. job'[i].d = d /\ job'[i].st = "waiting"
    BY <2>1
  <2>3. job'[i] # None
    <3>1. job'[i] \in JobState
      BY <1>2, <2>1, IngressAssumption DEF JobState
    <3>2. QED
      BY <3>1, Nothing
  <2>4. work'[i] = None
    BY <1>1, <1>5 DEF Facts, LaneInv, WorkInv
  <2>5. QED
    BY <2>2, <2>3, <2>4 DEF Backed, Carried, Unfinished, GivenUp, Working
<1>6. CASE job[i] # None
  <2>a. CASE job[i].d # d
    BY <1>3, <1>6, <2>a DEF QueueAdd, Absorbed, Backed
  <2>1. SUFFICES ASSUME job[i].d = d PROVE Backed(d, n)'
    BY <2>a
  <2>2. Unfinished(i) \/ job[i].st = "finished"
    <3>1. job[i] \in JobState
      BY <1>6, Entries DEF Facts
    <3>2. QED
      BY <1>6, <3>1 DEF JobState, Unfinished
  <2>3. Backed(d, n)
    <3>1. CASE Unfinished(i) /\ ~GivenUp(i)
      BY <2>1, <3>1 DEF Backed, Carried
    <3>2. CASE ~(Unfinished(i) /\ ~GivenUp(i))
      <4>1. GivenUp(i) \/ job[i].st = "finished"
        BY <2>2, <3>2
      <4>2. Backed(d, RowOf(i))
        BY <1>2, <1>6, <2>1, <4>1 DEF FinishedInv
      <4>3. QED
        BY <1>4, <4>2
    <3>3. QED
      BY <3>1, <3>2
  <2>4. QED
    BY <1>4, <2>3, RequestKeeps DEF Enqueue
<1>7. QED
  BY <1>5, <1>6

\* A request that is about to retire a row has just queued or handled its
\* delivery; the others are as they were.
LEMMA RetireStarts ==
  ASSUME Facts, NEW c \in Calls,
         \/ \E e \in Deliveries : Record(c, e)
         \/ Enqueue(c) \/ Redrive(c) \/ RedriveNext(c) \/ Retire(c),
         At(c, "retire")'
  PROVE  /\ QueueAdd(c) \/ InlineHandled(c)
         /\ call[c].kind = "redrive"
         /\ call'[c].d = call[c].d /\ call'[c].row = call[c].row
<1>1. call[c] # None => call[c] \in CallState /\ call[c].kind \in {"live", "redrive"}
  BY CallOf
<1>2. call'[c] # None /\ call'[c].pc = "retire"
  BY DEF At
<1>3. CASE QueueAdd(c) \/ InlineHandled(c)
  <2>1. call[c] # None /\ call'[c] = Accepted(call[c])
    BY <1>3 DEF QueueAdd, InlineHandled, At, Facts, TypeOK
  <2>2. QED
    BY <1>1, <1>2, <1>3, <2>1 DEF Accepted, CallState
<1>4. ASSUME NEW e \in Deliveries, Record(c, e) PROVE FALSE
  <2>1. call'[c] = [kind |-> "live", d |-> e, row |-> None, todo |-> {}, pc |-> "enqueue"]
    BY <1>4 DEF Record, Facts, TypeOK
  <2>2. QED
    BY <1>2, <2>1
<1>5. CASE DispatchInline(c)
  <2>1. call[c] # None /\ call'[c] = [call[c] EXCEPT !.pc = "dispatching"]
    BY <1>5 DEF DispatchInline, At, Facts, TypeOK
  <2>2. QED
    BY <1>1, <1>2, <2>1 DEF CallState
<1>6. CASE InlineFails(c)
  <2>1. call[c] # None /\ call'[c] = Swallowed(call[c])
    BY <1>6 DEF InlineFails, At, Facts, TypeOK
  <2>2. QED
    BY <1>1, <1>2, <2>1 DEF Swallowed, CallState
<1>7. CASE DeadLetter(c)
  BY <1>2, <1>7 DEF DeadLetter, Facts, TypeOK
<1>8. CASE Redrive(c)
  <2>1. PICK i \in Instances :
          call'[c] = [kind |-> "redrive", d |-> None, row |-> None,
                      todo |-> ToRedrive(i), pc |-> "next"]
    BY <1>8 DEF Redrive, Facts, TypeOK
  <2>2. QED
    BY <1>2, <2>1
<1>9. CASE RedriveNext(c)
  <2>1. call[c] # None
    BY <1>9 DEF RedriveNext, At
  <2> DEFINE next(r) == [call[c] EXCEPT !.d = dlq[r].d, !.row = r,
                                        !.todo = call[c].todo \ {r}, !.pc = "enqueue"]
  <2>2. \A r \in call[c].todo : next(r).pc = "enqueue"
    BY <1>1, <2>1 DEF CallState
  <2>3. \/ call' = [call EXCEPT ![c] = None]
        \/ \E r \in call[c].todo : call' = [call EXCEPT ![c] = next(r)]
    BY <1>9 DEF RedriveNext
  <2> HIDE DEF next
  <2>4. QED
    BY <1>2, <2>2, <2>3 DEF Facts, TypeOK
<1>10. CASE Retire(c)
  <2>1. call[c] # None /\ (call'[c] = [call[c] EXCEPT !.pc = "next"] \/ call'[c] = None)
    BY <1>10 DEF Retire, At, Facts, TypeOK
  <2>2. QED
    BY <1>1, <1>2, <2>1 DEF CallState
<1>11. QED
  BY <1>3, <1>4, <1>5, <1>6, <1>7, <1>8, <1>9, <1>10 DEF Enqueue

\* A step of one request leaves the others alone.
LEMMA OtherRequests ==
  ASSUME Facts, NEW c \in Calls,
         \/ \E e \in Deliveries : Record(c, e)
         \/ Enqueue(c) \/ Redrive(c) \/ RedriveNext(c) \/ Retire(c),
         NEW b \in Calls, b # c
  PROVE  call'[b] = call[b]
  BY DEF Record, Enqueue, QueueAdd, DispatchInline, InlineHandled, InlineFails, DeadLetter,
         Redrive, RedriveNext, Retire, Facts, TypeOK

\* The trace of a delivery survives every step of a request:
LEMMA RequestRetire ==
  ASSUME IInv, NEW c \in Calls,
         \/ \E e \in Deliveries : Record(c, e)
         \/ Enqueue(c) \/ Redrive(c) \/ RedriveNext(c) \/ Retire(c)
  PROVE  RetireInv'
<1> USE DEF IInv, TraceInv
<1>a. Facts
  BY DEF Facts
<1>1. SUFFICES ASSUME NEW b \in Calls, NEW d \in Deliveries, NEW r \in Rows,
                      At(b, "retire")', call'[b].d = d, call'[b].row = r
               PROVE  Backed(d, r)'
  BY DEF RetireInv
<1>2. CASE b # c
  <2>1. call'[b] = call[b]
    BY <1>a, <1>2, OtherRequests
  <2>2. call[b] # None /\ call[b].pc = "retire" /\ call[b].d = d /\ call[b].row = r
    BY <1>1, <2>1 DEF At
  <2>3. Place(r)
    BY <1>a, <2>2, CallOf DEF Place
  <2>4. Backed(d, r)
    BY <2>2 DEF RetireInv, At
  <2>5. QED
    BY <1>a, <2>3, <2>4, RequestKeeps
<1>3. CASE b = c
  <2>1. /\ QueueAdd(c) \/ InlineHandled(c)
        /\ call[c].kind = "redrive" /\ call[c].d = d /\ call[c].row = r
    BY <1>a, <1>1, <1>3, RetireStarts
  <2>2. CASE QueueAdd(c)
    BY <1>a, <2>1, <2>2, AddedBacks
  <2>3. CASE InlineHandled(c)
    BY <2>1, <2>3 DEF InlineHandled, Backed
  <2>4. QED
    BY <2>1, <2>2, <2>3
<1>4. QED
  BY <1>2, <1>3

\* A request takes no finished job's last trace away.
LEMMA RequestFinished ==
  ASSUME IInv, NEW c \in Calls,
         \/ \E e \in Deliveries : Record(c, e)
         \/ Enqueue(c) \/ Redrive(c) \/ RedriveNext(c) \/ Retire(c)
  PROVE  FinishedInv'
<1> USE DEF IInv, TraceInv
<1>a. Facts
  BY DEF Facts
<1>1. SUFFICES ASSUME NEW j \in JobIds, NEW d \in Deliveries, job'[j] # None, job'[j].d = d
               PROVE  /\ job'[j].st = "finished" => Backed(d, RowOf(j))'
                      /\ GivenUp(j)' => Backed(d, RowOf(j))'
                      /\ Working(j, "ok")' => d \in handled'
  BY DEF FinishedInv
<1>2. work' = work /\ handled \subseteq handled'
  BY DEF Record, Enqueue, QueueAdd, DispatchInline, InlineHandled, InlineFails, DeadLetter,
         Redrive, RedriveNext, Retire, store
<1>3. CASE job[j] # None
  <2>1. job'[j] = job[j]
    BY <1>a, <1>3, RequestStays
  <2>2. GivenUp(j)' => GivenUp(j)
    BY <1>2, <2>1 DEF GivenUp, Working, IsFinalAttempt
  <2>3. job[j].st = "finished" \/ GivenUp(j) => Backed(d, RowOf(j))
    BY <1>1, <1>3, <2>1 DEF FinishedInv
  <2>4. Place(RowOf(j))
    BY <1>a, <1>3, RowOfPlace
  <2>5. Backed(d, RowOf(j)) => Backed(d, RowOf(j))'
    <3> DEFINE n == RowOf(j)
    <3>1. Backed(d, n) /\ Place(n) => Backed(d, n)'
      <4> HIDE DEF n
      <4> QED
        BY <1>a, RequestKeeps
    <3>2. QED
      BY <2>4, <3>1
  <2>6. Working(j, "ok") => d \in handled
    BY <1>1, <1>3, <2>1 DEF FinishedInv
  <2>7. Working(j, "ok")' => Working(j, "ok")
    BY <1>2 DEF Working
  <2>8. QED
    BY <1>2, <2>1, <2>2, <2>3, <2>5, <2>6, <2>7
<1>4. CASE job[j] = None
  <2>1. work'[j] = None
    BY <1>2, <1>4 DEF LaneInv, WorkInv
  <2>2. job' = Added(call[c]) /\ At(c, "enqueue")
    BY <1>1, <1>4 DEF Record, Enqueue, QueueAdd, DispatchInline, InlineHandled, InlineFails,
         DeadLetter, Redrive, RedriveNext, Retire, store
  <2> DEFINE i == JobId(call[c])
             new == [d |-> call[c].d, st |-> "waiting", attempts |-> 0, stalls |-> 0]
  <2>3. job' = job \/ job' = [job EXCEPT ![i] = new]
    BY <2>2 DEF Added
  <2>4. new.st = "waiting"
    OBVIOUS
  <2> HIDE DEF i, new
  <2>5. job'[j].st = "waiting"
    BY <1>1, <1>4, <2>3, <2>4 DEF TypeOK
  <2>6. QED
    BY <2>1, <2>5 DEF GivenUp, Working
<1>5. QED
  BY <1>3, <1>4

\* A request hands its delivery over before it lets go of it.
LEMMA RequestEvents ==
  ASSUME IInv, NEW c \in Calls,
         \/ \E e \in Deliveries : Record(c, e)
         \/ Enqueue(c) \/ Redrive(c) \/ RedriveNext(c) \/ Retire(c)
  PROVE  EventInv'
<1> USE DEF IInv, TraceInv
<1>a. Facts
  BY DEF Facts
<1>1. SUFFICES ASSUME NEW d \in Deliveries, d \in events' PROVE Live(d)' \/ Backed(d, 0)'
  <2>1. events' \subseteq Deliveries
    BY <1>a, FactsStep DEF Next, Facts, TypeOK
  <2>2. QED
    BY <1>1, <2>1 DEF EventInv
<1>2. CASE Backed(d, 0)
  BY <1>a, <1>2, RequestKeeps DEF Place
<1>3. ASSUME NEW b \in Calls, b # c, call[b] # None, call[b].kind = "live", call[b].d = d
      PROVE  Live(d)'
  BY <1>a, <1>3, OtherRequests DEF Live
<1>4. CASE call[c] # None /\ call[c].kind = "live" /\ call[c].d = d
  <2>1. /\ call[c] \in CallState /\ call[c].row = None
        /\ call[c].pc \in {"enqueue", "dispatching", "letter"}
    BY <1>a, <1>4, CallOf
  <2>2. CASE QueueAdd(c)
    BY <1>a, <1>4, <2>2, AddedBacks
  <2>3. CASE InlineHandled(c)
    BY <1>4, <2>3 DEF InlineHandled, Backed
  <2>4. CASE DeadLetter(c)
    <3>1. Recorded(d)
      BY <1>a, <1>4, <2>4, SaveEffect DEF DeadLetter
    <3>2. QED
      BY <3>1, RecordedBacks DEF Place
  <2>5. CASE DispatchInline(c)
    <3>1. call'[c] = [call[c] EXCEPT !.pc = "dispatching"]
      BY <2>5 DEF DispatchInline, TypeOK
    <3>2. call'[c] \in CallState /\ call'[c].kind = "live" /\ call'[c].d = d
      BY <1>4, <2>1, <3>1 DEF CallState
    <3>3. QED
      BY <3>2, Nothing DEF Live
  <2>6. CASE InlineFails(c)
    <3>1. call'[c] = Swallowed(call[c])
      BY <2>6 DEF InlineFails, TypeOK
    <3>2. call'[c] \in CallState /\ call'[c].kind = "live" /\ call'[c].d = d
      BY <1>4, <2>1, <3>1 DEF CallState, Swallowed
    <3>3. QED
      BY <3>2, Nothing DEF Live
  <2>7. ~(\E e \in Deliveries : Record(c, e)) /\ ~Redrive(c) /\ ~RedriveNext(c) /\ ~Retire(c)
    BY <1>4, <2>1 DEF Record, Redrive, RedriveNext, Retire, At
  <2>8. QED
    BY <2>2, <2>3, <2>4, <2>5, <2>6, <2>7 DEF Enqueue
<1>5. CASE d \notin events
  <2>1. PICK e \in Deliveries : Record(c, e)
    BY <1>1, <1>5 DEF Enqueue, QueueAdd, DispatchInline, InlineHandled, InlineFails, DeadLetter,
                      Redrive, RedriveNext, Retire, store
  <2>2. d = e
    BY <1>1, <1>5, <2>1 DEF Record
  <2> DEFINE x == [kind |-> "live", d |-> d, row |-> None, todo |-> {}, pc |-> "enqueue"]
  <2>3. x \in CallState /\ x.kind = "live" /\ x.d = d
    BY DEF CallState
  <2>4. call'[c] = x
    BY <2>1, <2>2 DEF Record, TypeOK
  <2> HIDE DEF x
  <2>5. QED
    BY <2>3, <2>4, Nothing DEF Live
<1>6. QED
  BY <1>2, <1>3, <1>4, <1>5 DEF EventInv, Live

\* every step of a worker or of the queue:
LEMMA JobTrace ==
  ASSUME IInv, NEW j \in JobIds,
         Take(j) \/ Process(j) \/ Stalled(j) \/ Forget(j)
  PROVE  RetireInv' /\ EventInv'
<1> USE DEF IInv, TraceInv
<1>a. Facts
  BY DEF Facts
<1>1. call' = call /\ events' = events
  BY DEF Take, Process, StartDispatch, Handled, DispatchFails, Bury, Finish, Stalled, Forget,
         store, memory
<1>2. ASSUME NEW b \in Calls, NEW d \in Deliveries, NEW r \in Rows,
             At(b, "retire")', call'[b].d = d, call'[b].row = r
      PROVE  Backed(d, r)'
  <2>1. call[b] # None /\ call[b].pc = "retire" /\ call[b].d = d /\ call[b].row = r
    BY <1>1, <1>2 DEF At
  <2>2. Backed(d, r)
    BY <2>1 DEF RetireInv, At
  <2>3. Place(r)
    BY <1>a, <2>1, CallOf DEF Place
  <2>4. QED
    BY <1>a, <2>2, <2>3, JobKeeps
<1>3. ASSUME NEW d \in events' PROVE Live(d)' \/ Backed(d, 0)'
  <2>1. Live(d) \/ Backed(d, 0)
    BY <1>1, <1>3 DEF EventInv
  <2>2. Live(d) => Live(d)'
    BY <1>1 DEF Live
  <2>3. Backed(d, 0) => Backed(d, 0)'
    BY <1>a, JobKeeps DEF Place
  <2>4. QED
    BY <2>1, <2>2, <2>3
<1>4. QED
  BY <1>2, <1>3 DEF RetireInv, EventInv

\* A job that ends leaves a trace of its delivery, or the delivery was given up.
LEMMA JobFinished ==
  ASSUME IInv, NEW j \in JobIds,
         Take(j) \/ Process(j) \/ Stalled(j) \/ Forget(j)
  PROVE  FinishedInv'
<1> USE DEF IInv, TraceInv
<1>a. Facts
  BY DEF Facts
<1>1. SUFFICES ASSUME NEW i \in JobIds, NEW d \in Deliveries, NEW n, n = RowOf(i),
                      job'[i] # None, job'[i].d = d
               PROVE  /\ job'[i].st = "finished" => Backed(d, n)'
                      /\ GivenUp(i)' => Backed(d, n)'
                      /\ Working(i, "ok")' => d \in handled'
  BY DEF FinishedInv
<1>2. handled \subseteq handled'
  BY DEF Take, Process, StartDispatch, Handled, DispatchFails, Bury, Finish, Stalled, Forget
<1>3. job[i] # None => Place(n)
  BY <1>a, <1>1, RowOfPlace
<1>4. job[i] # None /\ job[i].d = d => /\ job[i].st = "finished" => Backed(d, n)
                                       /\ GivenUp(i) => Backed(d, n)
                                       /\ Working(i, "ok") => d \in handled
  BY <1>1 DEF FinishedInv
<1>5. job[i] # None /\ Backed(d, n) => Backed(d, n)'
  BY <1>a, <1>3, JobKeeps
<1>6. CASE i # j
  <2>1. job'[i] = job[i]
    BY <1>a, <1>6, JobOthers
  <2>2. work'[i] # None => work[i] # None /\ work'[i].pc = work[i].pc
    BY <1>a, <1>6, JobOthers
  <2>3. (GivenUp(i)' => GivenUp(i)) /\ (Working(i, "ok")' => Working(i, "ok"))
    BY <2>1, <2>2 DEF GivenUp, Working, IsFinalAttempt
  <2>4. QED
    BY <1>1, <1>2, <1>4, <1>5, <2>1, <2>3
<1>7. CASE i = j
  <2>1. CASE Take(j)
    <3>1. /\ work'[j] = [pc |-> "lock", prev |-> tails[KeyOf(j)], ahead |-> Lane(KeyOf(j))]
          /\ job[j] # None /\ job[j] \in JobState
          /\ job'[j] = [job[j] EXCEPT !.st = "active"]
      BY <2>1, Entries DEF Take, TypeOK
    <3>2. work'[j].pc = "lock" /\ job'[j].st = "active"
      BY <3>1 DEF JobState
    <3>3. QED
      BY <1>7, <3>2 DEF GivenUp, Working
  <2>2. CASE StartDispatch(j) \/ Handled(j) \/ DispatchFails(j) \/ Bury(j)
    <3>1. work[j] \in WorkState /\ job' = job /\ job[j].st = "active" /\ job[j] # None
      BY <1>a, <2>2, WorkOf DEF StartDispatch, Handled, DispatchFails, Bury, Working, store
    <3>2. CASE StartDispatch(j)
      <4>1. work'[j] = [work[j] EXCEPT !.pc = "dispatching"]
        BY <3>2 DEF StartDispatch, TypeOK
      <4>2. work'[j].pc = "dispatching"
        BY <3>1, <4>1 DEF WorkState
      <4>3. QED
        BY <1>7, <3>1, <4>2 DEF GivenUp, Working
    <3>3. CASE Handled(j)
      <4>1. work'[j] = [work[j] EXCEPT !.pc = "ok", !.prev = None, !.ahead = {}]
        BY <3>3 DEF Handled, Released
      <4>2. work'[j].pc = "ok" /\ job[j].d \in handled'
        BY <3>1, <3>3, <4>1 DEF WorkState, Handled
      <4>3. QED
        BY <1>1, <1>7, <3>1, <4>2 DEF GivenUp, Working
    <3>4. CASE DispatchFails(j)
      <4> DEFINE pc == IF IsFinalAttempt(j) THEN "bury" ELSE "throw"
      <4>1. work'[j] = [work[j] EXCEPT !.pc = pc, !.prev = None, !.ahead = {}]
        BY <3>4 DEF DispatchFails, Released
      <4>2. work'[j].pc = pc
        BY <3>1, <4>1 DEF WorkState
      <4>3. QED
        BY <1>7, <3>1, <4>2 DEF GivenUp, Working, IsFinalAttempt
    <3>5. CASE Bury(j)
      <4>1. Recorded(d)
        BY <1>a, <1>1, <1>7, <3>1, <3>5, SaveEffect DEF Bury
      <4>2. Backed(d, n)'
        BY <1>3, <1>7, <3>1, <4>1, RecordedBacks
      <4>3. work'[j] = [work[j] EXCEPT !.pc = "throw"]
        BY <3>5 DEF Bury, TypeOK
      <4>4. work'[j].pc = "throw"
        BY <3>1, <4>3 DEF WorkState
      <4>5. QED
        BY <1>7, <3>1, <4>2, <4>4 DEF Working
    <3>6. QED
      BY <2>2, <3>2, <3>3, <3>4, <3>5
  <2>3. CASE Finish(j)
    <3>1. /\ work[j] # None /\ work[j].pc \in {"ok", "throw"} /\ work'[j] = None
          /\ job[j] # None /\ job[j] \in JobState /\ job[j].st = "active" /\ handled' = handled
      BY <1>a, <2>3, WorkOf DEF Finish, Working, TypeOK
    <3>2. ~GivenUp(i)' /\ ~Working(i, "ok")'
      BY <1>7, <3>1 DEF GivenUp, Working
    <3>3. CASE job' = job
      BY <1>7, <3>1, <3>2, <3>3
    <3>4. CASE job' = Reported(j) /\ job'[j].st = "finished"
      <4> DEFINE st == IF work[j].pc = "ok" \/ job[j].attempts + 1 >= MaxAttempts
                         THEN "finished" ELSE "waiting"
      <4>1. job'[j] = [job[j] EXCEPT !.st = st, !.attempts = job[j].attempts + 1]
        BY <3>1, <3>4 DEF Reported, TypeOK
      <4>2. job'[j].d = job[j].d /\ job'[j].st = st
        BY <3>1, <4>1 DEF JobState
      <4>3. Working(j, "ok") \/ GivenUp(j)
        BY <3>1, <3>4, <4>2 DEF Working, GivenUp, IsFinalAttempt
      <4>4. Backed(d, n)'
        BY <1>1, <1>2, <1>4, <1>5, <1>7, <3>1, <4>2, <4>3 DEF Backed
      <4>5. QED
        BY <3>2, <4>4
    <3>5. QED
      BY <1>7, <2>3, <3>2, <3>3, <3>4 DEF Finish
  <2>4. CASE Stalled(j)
    <3>1. work[j] = None /\ work' = work /\ job[j] # None /\ job[j] \in JobState
      BY <2>4, Entries DEF Stalled, memory
    <3>2. ~GivenUp(i)' /\ ~Working(i, "ok")'
      BY <1>7, <3>1 DEF GivenUp, Working
    <3>3. CASE job[j].stalls = 0
      <4>1. job'[j] = [job[j] EXCEPT !.st = "waiting", !.stalls = 1]
        BY <2>4, <3>3 DEF Stalled, TypeOK
      <4>2. job'[j].st = "waiting"
        BY <3>1, <4>1 DEF JobState
      <4>3. QED
        BY <1>7, <3>2, <4>2
    <3>4. CASE job[j].stalls # 0
      <4>1. job'[j] = [job[j] EXCEPT !.st = "finished"] /\ job[j].d \in lost'
        BY <2>4, <3>4 DEF Stalled, TypeOK
      <4>2. job'[j].d = job[j].d
        BY <3>1, <4>1 DEF JobState
      <4>3. QED
        BY <1>1, <1>7, <3>2, <4>1, <4>2 DEF Backed
    <3>5. QED
      BY <3>3, <3>4
  <2>5. CASE Forget(j)
    BY <1>1, <1>7, <2>5 DEF Forget, TypeOK
  <2>6. QED
    BY <2>1, <2>2, <2>3, <2>4, <2>5 DEF Process
<1>8. QED
  BY <1>6, <1>7

\* a crash, and a start.
LEMMA ProcessTrace ==
  ASSUME IInv, Crash \/ Boot
  PROVE  RetireInv' /\ FinishedInv' /\ EventInv'
<1> USE DEF IInv, TraceInv
<1>a. Facts
  BY DEF Facts
<1>1. ASSUME NEW j \in JobIds, NEW d \in Deliveries, NEW n, n = RowOf(j),
             job'[j] # None, job'[j].d = d
      PROVE  /\ job'[j].st = "finished" => Backed(d, n)'
             /\ GivenUp(j)' => Backed(d, n)'
             /\ Working(j, "ok")' => d \in handled'
  <2>1. job' = job /\ handled' = handled /\ (work'[j] = None \/ work' = work)
    BY DEF Crash, Boot, store, memory
  <2>2. (GivenUp(j)' => GivenUp(j)) /\ (Working(j, "ok")' => Working(j, "ok"))
    BY <2>1 DEF GivenUp, Working, IsFinalAttempt
  <2>3. /\ job[j].st = "finished" => Backed(d, n)
        /\ GivenUp(j) => Backed(d, n)
        /\ Working(j, "ok") => d \in handled
    BY <1>1, <2>1 DEF FinishedInv
  <2>4. Place(n)
    BY <1>a, <1>1, <2>1, RowOfPlace
  <2>5. Backed(d, n) => Backed(d, n)'
    BY <1>a, <2>4, ProcessKeeps
  <2>6. QED
    BY <2>1, <2>2, <2>3, <2>5
<1>2. FinishedInv'
  BY <1>1 DEF FinishedInv
<1>3. ASSUME NEW b \in Calls, NEW d \in Deliveries, NEW r \in Rows,
             At(b, "retire")', call'[b].d = d, call'[b].row = r
      PROVE  Backed(d, r)'
  <2>1. call' = call
    BY <1>3 DEF At, Crash, Boot, memory
  <2>2. call[b] # None /\ call[b].pc = "retire" /\ call[b].d = d /\ call[b].row = r
    BY <1>3, <2>1 DEF At
  <2>3. Backed(d, r) /\ Place(r)
    BY <1>a, <2>2, CallOf DEF RetireInv, At, Place
  <2>4. QED
    BY <1>a, <2>3, ProcessKeeps
<1>4. ASSUME NEW d \in events' PROVE Live(d)' \/ Backed(d, 0)'
  <2>1. Live(d) \/ Backed(d, 0)
    BY <1>4 DEF EventInv, Crash, Boot, store
  <2>2. Live(d) => Live(d)' \/ d \in lost'
    BY DEF Live, Crash, Boot, memory
  <2>3. Backed(d, 0) => Backed(d, 0)'
    BY <1>a, ProcessKeeps DEF Place
  <2>4. QED
    BY <2>1, <2>2, <2>3 DEF Backed
<1>5. QED
  BY <1>2, <1>3, <1>4 DEF RetireInv, EventInv

\* The whole invariant is inductive.
LEMMA IngressStep == IInv /\ [Next]_vars => IInv'
<1> SUFFICES ASSUME IInv, [Next]_vars PROVE IInv'
  OBVIOUS
<1>1. Facts'
  BY FactsStep DEF IInv, TraceInv, Facts
<1>2. RetireInv' /\ FinishedInv' /\ EventInv'
  <2>1. CASE UNCHANGED vars
    BY <2>1 DEF IInv, TraceInv, vars, store, memory, bounds, RetireInv, FinishedInv, EventInv,
                Live, Backed, Carried, Unfinished, GivenUp, Working, At, IsFinalAttempt
  <2>2. CASE Next
    BY <2>2, RequestRetire, RequestFinished, RequestEvents, JobTrace, JobFinished, ProcessTrace
       DEF Next
  <2>3. QED
    BY <2>1, <2>2
<1>3. QED
  BY <1>1, <1>2 DEF IInv, TraceInv, Facts

-----------------------------------------------------------------------------
(* Theorems *)

\* Every table holds what it is declared to, whatever the plugin, the queue and
\* the database do: TypeOK, for every number of deliveries, rows and attempts.
THEOREM IngressTypeCorrect == Spec => []TypeOK
<1>1. Init => Facts
  BY IngressInit DEF IInv, TraceInv, Facts
<1>2. Facts => TypeOK
  BY DEF Facts
<1>3. QED
  BY <1>1, <1>2, FactsStep, PTL DEF Spec

\* The worker dispatches the jobs of a conversation one at a time, in the order
\* in which they reached KeyedAsyncLock.run.
THEOREM LanesInOrder == Spec => []LaneInOrder
<1>1. Init => Facts
  BY IngressInit DEF IInv, TraceInv, Facts
<1>2. Facts => LaneInOrder
  BY DEF Facts, LaneInv, ChainInv, InLane, LaneInOrder
<1>3. QED
  BY <1>1, <1>2, FactsStep, PTL DEF Spec

\* A recorded delivery is handled, carried by a request, a job or a row that can
\* be redriven, or was given up at one of four known places, however often
\* deliveries are retried, redriven, dead-lettered and interrupted.
THEOREM Accounted == Spec => []GivenUpKnowingly
<1>1. IInv => GivenUpKnowingly
  <2> SUFFICES ASSUME IInv, NEW d \in events \ lost
               PROVE  AccountedFor(d)
    BY DEF GivenUpKnowingly
  <2>1. Live(d) \/ Backed(d, 0)
    BY DEF IInv, TraceInv, EventInv
  <2>2. QED
    BY <2>1 DEF Backed, Carried, AccountedFor, Queued, Redrivable
<1>2. QED
  BY <1>1, IngressInit, IngressStep, PTL DEF Spec

-----------------------------------------------------------------------------
(* The abstract carrier                                                    *)

\* Requests, rows and jobs are of deliveries that were recorded.
RowsKnown == \A r \in Rows : dlq[r] # None => dlq[r].d \in events
JobsKnown == \A j \in JobIds : job[j] # None => job[j].d \in events
LiveKnown == \A c \in Calls : call[c] # None /\ call[c].kind = "live" => call[c].d \in events

Known == RowsKnown /\ JobsKnown /\ LiveKnown

\* A request between two of its steps, live or a redrive, is of a recorded delivery.
LEMMA CallKnown ==
  ASSUME Facts, Known, NEW c \in Calls, call[c] # None, call[c].pc # "next"
  PROVE  call[c].d \in events
<1>1. CASE call[c].kind = "live"
  BY <1>1 DEF Known, LiveKnown
<1>2. CASE call[c].kind = "redrive"
  BY <1>2, CallOf DEF Known, RowsKnown
<1>3. QED
  BY <1>1, <1>2, CallOf

\* A new dead letter is of the recorded delivery it is written for.
LEMMA SaveKnown ==
  ASSUME Facts, Known, NEW d \in events, events' = events, SaveRow(d) \/ SaveFails(d)
  PROVE  RowsKnown'
<1>1. CASE SaveRow(d)
  <2>1. PICK q \in Rows : dlq' = [dlq EXCEPT ![q] = [d |-> d, redriven |-> FALSE]]
    BY <1>1 DEF SaveRow
  <2>2. dlq'[q].d = d /\ \A r \in Rows : r # q => dlq'[r] = dlq[r]
    BY <2>1 DEF Facts, TypeOK
  <2>3. QED
    BY <2>2 DEF Known, RowsKnown
<1>2. CASE SaveFails(d)
  BY <1>2 DEF SaveFails, Known, RowsKnown
<1>3. QED
  BY <1>1, <1>2

\* What the queue takes is of the recorded delivery of the request.
LEMMA AddKnown ==
  ASSUME Facts, Known, NEW c \in Calls, At(c, "enqueue"), events' = events,
         job' \in {job, Added(call[c])}
  PROVE  JobsKnown'
<1>1. call[c].d \in events
  BY CallKnown DEF At
<1>2. CASE job' = job
  BY <1>2 DEF Known, JobsKnown
<1>3. CASE job' = [job EXCEPT ![JobId(call[c])] =
                     [d |-> call[c].d, st |-> "waiting", attempts |-> 0, stalls |-> 0]]
  <2> DEFINE new == [d |-> call[c].d, st |-> "waiting", attempts |-> 0, stalls |-> 0]
  <2>1. new.d = call[c].d
    OBVIOUS
  <2>2. \A j \in JobIds : job'[j] \in {job[j], new}
    BY <1>3 DEF Facts, TypeOK
  <2> HIDE DEF new
  <2>3. QED
    BY <1>1, <2>1, <2>2 DEF Known, JobsKnown
<1>4. QED
  BY <1>2, <1>3 DEF Added

\* The steps of a request.
LEMMA RequestKnown ==
  ASSUME Facts, Known, NEW c \in Calls,
         \/ \E d \in Deliveries : Record(c, d)
         \/ Enqueue(c) \/ Redrive(c) \/ RedriveNext(c) \/ Retire(c)
  PROVE  Known'
<1>1. events \subseteq events'
  BY DEF Record, Enqueue, QueueAdd, DispatchInline, InlineHandled, InlineFails, DeadLetter,
         Redrive, RedriveNext, Retire, store
<1>2. RowsKnown'
  <2>1. CASE DeadLetter(c)
    <3>1. call[c].d \in events
      BY <2>1, CallKnown DEF DeadLetter, At
    <3>2. QED
      BY <2>1, <3>1, SaveKnown DEF DeadLetter
  <2>2. CASE Retire(c)
    <3>1. call[c] # None /\ call[c].pc = "retire"
      BY <2>2 DEF Retire, At
    <3>2. call[c].row \in Rows /\ dlq[call[c].row] \in RowState
      BY <3>1, CallOf, Entries DEF Facts
    <3>3. \/ dlq' = dlq
          \/ dlq' = [dlq EXCEPT ![call[c].row] = [@ EXCEPT !.redriven = TRUE]]
      BY <2>2 DEF Retire
    <3>4. \A r \in Rows : dlq'[r] # None => dlq[r] # None /\ dlq'[r].d = dlq[r].d
      BY <3>2, <3>3, Nothing DEF Facts, TypeOK, RowState
    <3>5. QED
      BY <1>1, <3>4 DEF Known, RowsKnown
  <2>3. CASE ~DeadLetter(c) /\ ~Retire(c)
    <3>1. dlq' = dlq
      BY <2>3 DEF Record, Enqueue, QueueAdd, DispatchInline, InlineHandled, InlineFails,
                  Redrive, RedriveNext, store
    <3>2. QED
      BY <1>1, <3>1 DEF Known, RowsKnown
  <2>4. QED
    BY <2>1, <2>2, <2>3
<1>3. JobsKnown'
  <2>1. CASE QueueAdd(c) \/ DispatchInline(c)
    BY <2>1, AddKnown DEF QueueAdd, DispatchInline
  <2>2. CASE ~QueueAdd(c) /\ ~DispatchInline(c)
    <3>1. job' = job
      BY <2>2 DEF Record, Enqueue, InlineHandled, InlineFails, DeadLetter, Redrive, RedriveNext,
                  Retire, store
    <3>2. QED
      BY <1>1, <3>1 DEF Known, JobsKnown
  <2>3. QED
    BY <2>1, <2>2
<1>4. LiveKnown'
  <2> SUFFICES ASSUME NEW b \in Calls, call'[b] # None, call'[b].kind = "live"
               PROVE  call'[b].d \in events'
    BY DEF LiveKnown
  <2>1. CASE b # c
    <3>1. call'[b] = call[b]
      BY <2>1 DEF Record, Enqueue, QueueAdd, DispatchInline, InlineHandled, InlineFails, DeadLetter,
                  Redrive, RedriveNext, Retire, Facts, TypeOK
    <3>2. QED
      BY <1>1, <3>1 DEF Known, LiveKnown
  <2>2. CASE b = c
    <3>1. ASSUME NEW d \in Deliveries, Record(c, d)  PROVE call'[c].d \in events'
      BY <3>1 DEF Record, Facts, TypeOK
    <3>2. CASE Enqueue(c)
      <4>1. call[c] # None /\ call[c] \in CallState /\ call[c].pc # "next"
        BY <3>2, CallOf DEF Enqueue, QueueAdd, DispatchInline, InlineHandled, InlineFails, DeadLetter, At
      <4>2. \/ call'[c] \in {None, Accepted(call[c]), Swallowed(call[c])}
            \/ call'[c] = [call[c] EXCEPT !.pc = "dispatching"]
        BY <3>2 DEF Enqueue, QueueAdd, DispatchInline, InlineHandled, InlineFails, DeadLetter,
                    Facts, TypeOK
      <4>3. call'[c].d = call[c].d
        BY <2>2, <4>1, <4>2 DEF Accepted, Swallowed, CallState
      <4>4. QED
        BY <1>1, <2>2, <4>1, <4>3, CallKnown
    <3>3. CASE Redrive(c)
      BY <2>2, <3>3 DEF Redrive, Facts, TypeOK
    <3>4. CASE RedriveNext(c) \/ Retire(c)
      <4>1. /\ call[c] # None /\ call[c] \in CallState
            /\ call[c].pc \notin {"enqueue", "dispatching", "letter"}
        BY <3>4, CallOf DEF RedriveNext, Retire, At
      <4>2. call[c].kind = "redrive"
        BY <4>1, CallOf
      <4>3. \/ call'[c] = None
            \/ \E r \in call[c].todo :
                 call'[c] = [call[c] EXCEPT !.d = dlq[r].d, !.row = r,
                                            !.todo = call[c].todo \ {r}, !.pc = "enqueue"]
            \/ call'[c] = [call[c] EXCEPT !.pc = "next"]
        BY <3>4 DEF RedriveNext, Retire, Facts, TypeOK
      <4>4. call'[c].kind = "redrive"
        BY <2>2, <4>1, <4>2, <4>3 DEF CallState
      <4>5. QED
        BY <2>2, <4>4
    <3>5. QED
      BY <2>2, <3>1, <3>2, <3>3, <3>4
  <2>3. QED
    BY <2>1, <2>2
<1>5. QED
  BY <1>2, <1>3, <1>4 DEF Known

\* The steps of the worker and the queue, and the process.
LEMMA JobKnown ==
  ASSUME Facts, Known,
         \/ \E j \in JobIds : Take(j) \/ Process(j) \/ Stalled(j) \/ Forget(j)
         \/ Crash \/ Boot
  PROVE  Known'
<1>1. events' = events
  BY DEF Take, Process, StartDispatch, Handled, DispatchFails, Bury, Finish, Stalled, Forget,
         Crash, Boot, store
<1>2. RowsKnown'
  <2>1. ASSUME NEW j \in JobIds, Bury(j)  PROVE RowsKnown'
    <3>1. job[j] # None
      BY <2>1, WorkOf DEF Bury, Working
    <3>2. job[j].d \in events
      BY <3>1 DEF Known, JobsKnown
    <3>3. QED
      BY <1>1, <2>1, <3>2, SaveKnown DEF Bury
  <2>2. CASE \A j \in JobIds : ~Bury(j)
    <3>1. dlq' = dlq
      BY <2>2 DEF Take, Process, StartDispatch, Handled, DispatchFails, Finish, Stalled, Forget,
                  Crash, Boot, store
    <3>2. QED
      BY <1>1, <3>1 DEF Known, RowsKnown
  <2>3. QED
    BY <2>1, <2>2
<1>3. JobsKnown'
  <2>1. ASSUME NEW j \in JobIds, Take(j) \/ Finish(j) \/ Stalled(j) \/ Forget(j)
        PROVE  JobsKnown'
    <3>1. job[j] # None /\ job[j] \in JobState
      BY <2>1, WorkOf, Entries DEF Take, Finish, Stalled, Forget, Working, Facts
    <3>2. \A i \in JobIds : i # j => job'[i] = job[i]
      BY <2>1 DEF Take, Finish, Reported, Stalled, Forget, Facts, TypeOK
    <3>3. job'[j] # None => job'[j].d = job[j].d
      BY <2>1, <3>1 DEF Take, Finish, Reported, Stalled, Forget, Facts, TypeOK, JobState
    <3>4. QED
      BY <1>1, <3>1, <3>2, <3>3 DEF Known, JobsKnown
  <2>2. CASE job' = job
    BY <1>1, <2>2 DEF Known, JobsKnown
  <2>3. QED
    BY <2>1, <2>2 DEF Process, StartDispatch, Handled, DispatchFails, Bury, Crash, Boot, store
<1>4. LiveKnown'
  <2>1. call' = call \/ \A c \in Calls : call'[c] = None
    BY DEF Take, Process, StartDispatch, Handled, DispatchFails, Bury, Finish, Stalled, Forget,
           Crash, Boot, memory
  <2>2. QED
    BY <1>1, <2>1 DEF Known, LiveKnown
<1>5. QED
  BY <1>2, <1>3, <1>4 DEF Known

\* Every step.
LEMMA KnownStep == Facts /\ Known /\ [Next]_vars => Known'
<1>1. ASSUME Known, UNCHANGED vars  PROVE Known'
  BY <1>1 DEF vars, store, memory, Known, RowsKnown, JobsKnown, LiveKnown
<1>2. QED
  BY <1>1, RequestKnown, JobKnown DEF Next

\* A step that gives up deliveries that were recorded.
LEMMA GivesUp ==
  ASSUME TypeOK', NEW S \in SUBSET events, events' = events,
         handled' = handled, lost' = lost \cup S
  PROVE  Carrier!Next
<1>1. Carrier!GiveUp(S) /\ S \in SUBSET Deliveries
  BY DEF TypeOK, Carrier!GiveUp
<1>2. QED
  BY <1>1 DEF Carrier!Next

\* A step that hands one recorded delivery to its plugin.
LEMMA HandsOver ==
  ASSUME TypeOK, NEW d \in events, UNCHANGED <<events, lost>>, handled' = handled \cup {d}
  PROVE  Carrier!Next
<1>1. Carrier!Deliver(d) /\ {d} \in SUBSET Deliveries /\ d \in {d}
  BY DEF TypeOK, Carrier!Deliver
<1>2. QED
  BY <1>1 DEF Carrier!Next

\* A dead letter is written, or cannot be and its delivery is given up.
LEMMA SavesOrGivesUp ==
  ASSUME TypeOK', NEW d \in events, SaveRow(d) \/ SaveFails(d), UNCHANGED <<events, handled>>
  PROVE  Carrier!Next
<1>1. lost' = lost \cup {} \/ lost' = lost \cup {d}
  BY DEF SaveRow, SaveFails
<1>2. {} \in SUBSET events /\ {d} \in SUBSET events
  OBVIOUS
<1>3. QED
  BY <1>1, <1>2, GivesUp

\* A step of the fabric is a step of the carrier, or leaves what it speaks of alone.
LEMMA CarrierStep == Facts /\ Facts' /\ Known /\ [Next]_vars => [Carrier!Next]_Carrier!vars
<1> SUFFICES ASSUME Facts, Facts', Known, [Next]_vars  PROVE [Carrier!Next]_Carrier!vars
  OBVIOUS
<1> USE DEF Facts
<1>1. CASE UNCHANGED <<events, handled, lost>>
  BY <1>1 DEF Carrier!vars
<1>2. ASSUME NEW c \in Calls, NEW d \in Deliveries, Record(c, d)  PROVE Carrier!Next
  <2>1. Carrier!Take({d}) /\ {d} \in SUBSET Deliveries
    BY <1>2 DEF Record, Carrier!Take
  <2>2. QED
    BY <2>1 DEF Carrier!Next
<1>3. ASSUME NEW c \in Calls, QueueAdd(c)  PROVE Carrier!Next
  <2>1. call[c].d \in events
    BY <1>3, CallKnown DEF QueueAdd, At
  <2>2. Absorbed(call[c]) \in SUBSET events
    BY <2>1 DEF Absorbed
  <2>3. QED
    BY <1>3, <2>2, GivesUp DEF QueueAdd
<1>4. ASSUME NEW c \in Calls, InlineHandled(c)  PROVE Carrier!Next
  <2>1. call[c].d \in events
    BY <1>4, CallKnown DEF InlineHandled, At
  <2>2. QED
    BY <1>4, <2>1, HandsOver DEF InlineHandled, store
<1>5. ASSUME NEW c \in Calls, DeadLetter(c)  PROVE Carrier!Next
  <2>1. call[c].d \in events
    BY <1>5, CallKnown DEF DeadLetter, At
  <2>2. QED
    BY <1>5, <2>1, SavesOrGivesUp DEF DeadLetter
<1>6. ASSUME NEW j \in JobIds, Handled(j) \/ Bury(j) \/ Stalled(j)  PROVE Carrier!Next
  <2>1. job[j] # None
    BY <1>6, WorkOf DEF Handled, Bury, Stalled, Working
  <2>2. job[j].d \in events
    BY <2>1 DEF Known, JobsKnown
  <2>3. CASE Handled(j)
    BY <2>2, <2>3, HandsOver DEF Handled, store
  <2>4. CASE Bury(j)
    BY <2>2, <2>4, SavesOrGivesUp DEF Bury
  <2>5. CASE Stalled(j)
    <3>1. {} \in SUBSET events /\ {job[j].d} \in SUBSET events
      BY <2>2
    <3>2. lost' = lost \cup {} \/ lost' = lost \cup {job[j].d}
      BY <2>5 DEF Stalled
    <3>3. QED
      BY <2>5, <3>1, <3>2, GivesUp DEF Stalled
  <2>6. QED
    BY <1>6, <2>3, <2>4, <2>5
<1>7. CASE Crash
  <2> DEFINE S == {call[c].d : c \in {c \in Calls : call[c] # None /\ call[c].kind = "live"}}
  <2>1. S \in SUBSET events
    BY DEF Known, LiveKnown
  <2>2. events' = events /\ handled' = handled /\ lost' = lost \cup S
    BY <1>7 DEF Crash, store
  <2>3. QED
    BY <2>1, <2>2, GivesUp
<1>8. ASSUME NEW c \in Calls,
             DispatchInline(c) \/ InlineFails(c) \/ Redrive(c) \/ RedriveNext(c) \/ Retire(c)
      PROVE  UNCHANGED <<events, handled, lost>>
  BY <1>8 DEF DispatchInline, InlineFails, Redrive, RedriveNext, Retire, store
<1>9. ASSUME NEW j \in JobIds,
             Take(j) \/ StartDispatch(j) \/ DispatchFails(j) \/ Finish(j) \/ Forget(j)
      PROVE  UNCHANGED <<events, handled, lost>>
  BY <1>9 DEF Take, StartDispatch, DispatchFails, Finish, Forget, store
<1>10. CASE Boot \/ UNCHANGED vars
  BY <1>1, <1>10 DEF Boot, vars, store
<1>11. QED
  BY <1>1, <1>2, <1>3, <1>4, <1>5, <1>6, <1>7, <1>8, <1>9, <1>10 DEF Next, Enqueue, Process

\* The fabric implements the safety part of the abstract carrier: only what was recorded in
\* ingress_events is ever handled or given up, through retries, redrives, stalls and crashes.
THEOREM DeliveriesAreCarried == Spec => CarrierSafe
<1>1. Init => Carrier!Init /\ Facts /\ Known
  <2>1. Init => Carrier!Init
    BY DEF Init, Carrier!Init
  <2>2. Init => Known
    BY DEF Init, Known, RowsKnown, JobsKnown, LiveKnown
  <2>3. QED
    BY <2>1, <2>2, IngressInit DEF IInv, TraceInv, Facts
<1>2. QED
  BY <1>1, FactsStep, KnownStep, CarrierStep, PTL DEF Spec, CarrierSafe, Carrier!Safe
=============================================================================
