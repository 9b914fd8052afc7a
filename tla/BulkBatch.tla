------------------------------ MODULE BulkBatch ------------------------------
(***************************************************************************)
(* Bulk sends: src/modules/message/bulk-message.service.ts and the loop of *)
(* bulk-batch-processor.ts.                                                *)
(*                                                                         *)
(* createBatch() writes the row and starts its worker, processBatch();     *)
(* cancelBatch() runs beside it.  Both keep a copy of the row across their *)
(* awaits and save() the whole copy, so each can undo what the other wrote *)
(* in between: mem[b] is the worker's copy, cancel[c].copy the one of a    *)
(* cancelling call.  The only state they share in memory is the flag of    *)
(* processingBatches.  Message contents are left out: of an item only      *)
(* matters whether it is sent.                                             *)
(***************************************************************************)
EXTENDS Integers, FiniteSets

CONSTANTS
  Batches,     \* batch rows
  Total,       \* messages per batch
  SaveEvery,   \* progress is saved at every index divisible by this: 10
  MaxBatches,  \* resolveMaxConcurrentBatches; 0 is no limit
  Cancels,     \* cancelBatch() calls in flight at once
  None,        \* no row, no entry, no call
  MaxCrashes,  \* bound on crashes of the process
  DbFails      \* may a save() be rejected?

VARIABLES
  row,       \* the message_batches table
  worker,    \* where processBatch() is, for each batch
  mem,       \* the worker's copy of its row
  flag,      \* processingBatches: TRUE, FALSE or no entry
  inFlight,  \* inFlightBatches
  cancel,    \* the cancelBatch() calls
  up,        \* is the process running?
  crashes,   \* how often it has crashed
  delivered, \* history: messages WhatsApp took, whatever it answered
  acked      \* history: delivered when a cancel of the batch first succeeded

volatile == <<worker, mem, flag, inFlight, cancel>>
vars == <<row, volatile, up, crashes, delivered, acked>>

-----------------------------------------------------------------------------
(* State *)

Status == {"pending", "processing", "completed", "cancelled", "failed"}

Row == [status : Status, sent : 0 .. Total, failed : 0 .. Total, pending : -Total .. Total,
        cancelled : -Total .. Total, index : 0 .. Total, stopOnError : BOOLEAN]

\* stopped: stoppedOnError; seen: cancelledByDb.
Copy == [row : Row, stopped : BOOLEAN, seen : BOOLEAN]

PCs == {"none", "created", "loaded", "started", "head", "item", "reread", "save",
        "last", "finish", "closing", "rejecting", "done", "rejected"}

\* Inside the try of processBatch(), and anywhere before its end.
InTry == PCs \ {"none", "created", "loaded", "done", "rejected"}
Alive == PCs \ {"none", "done", "rejected"}

\* None is told apart from everything it stands beside.
ASSUME BatchAssumption ==
  /\ IsFiniteSet(Batches)
  /\ Total \in Nat \ {0} /\ SaveEvery \in Nat \ {0} /\ MaxBatches \in Nat
  /\ MaxCrashes \in Nat /\ DbFails \in BOOLEAN
  /\ None \notin BOOLEAN /\ None \notin 0 .. Total
  /\ \A r \in Row : r # None
  /\ \A b \in Batches, r \in Row, l \in BOOLEAN : [b |-> b, copy |-> r, lowered |-> l] # None

Init ==
  /\ row = [b \in Batches |-> None]
  /\ worker = [b \in Batches |-> "none"]
  /\ mem = [b \in Batches |-> None]
  /\ flag = [b \in Batches |-> None]
  /\ inFlight = 0
  /\ cancel = [c \in Cancels |-> None]
  /\ up = TRUE
  /\ crashes = 0
  /\ delivered = [b \in Batches |-> 0]
  /\ acked = [b \in Batches |-> None]

Go(b, pc) == worker' = [worker EXCEPT ![b] = pc]

\* save() of r over the row of b and on to pc, or its rejection, which ends the worker.
SaveThen(b, r, pc) ==
  \/ row' = [row EXCEPT ![b] = r] /\ Go(b, pc)
  \/ DbFails /\ UNCHANGED row /\ Go(b, "rejecting")

-----------------------------------------------------------------------------
(* createBatch() *)

\* The engine is there and the id is new; the cap is read and the row is saved.
CreateBatch(b, stop) ==
  /\ up /\ worker[b] = "none" /\ row[b] = None
  /\ MaxBatches > 0 => inFlight < MaxBatches
  /\ row' = [row EXCEPT ![b] = [status |-> "pending", sent |-> 0, failed |-> 0,
                                pending |-> Total, cancelled |-> 0, index |-> 0,
                                stopOnError |-> stop]]
  /\ Go(b, "created")
  /\ UNCHANGED <<mem, flag, inFlight, cancel, up, crashes, delivered, acked>>

-----------------------------------------------------------------------------
(* processBatch() and executeBatch() *)

\* findOne(): the copy the worker keeps.
Load(b) ==
  /\ worker[b] = "created"
  /\ mem' = [mem EXCEPT ![b] = [row |-> row[b], stopped |-> FALSE, seen |-> FALSE]]
  /\ Go(b, "loaded")
  /\ UNCHANGED <<row, flag, inFlight, cancel, delivered, acked>>

\* The flag is set, the batch counts as in flight and its row says PROCESSING.
Begin(b) ==
  /\ worker[b] = "loaded"
  /\ flag' = [flag EXCEPT ![b] = TRUE]
  /\ inFlight' = inFlight + 1
  /\ mem' = [mem EXCEPT ![b].row.status = "processing"]
  /\ SaveThen(b, mem'[b].row, "started")
  /\ UNCHANGED <<cancel, delivered, acked>>

\* Mutant of EngineMissing: the early return skips the finally.
EngineMissingLeaks(b) ==
  /\ worker[b] = "started"
  /\ mem' = [mem EXCEPT ![b].row.status = "failed"]
  /\ SaveThen(b, mem'[b].row, "done")
  /\ UNCHANGED <<flag, inFlight, cancel, delivered, acked>>

\* Mutant of EngineMissing: the early return leaves the row as it is.
EngineMissingUnsaved(b) ==
  /\ worker[b] = "started"
  /\ Go(b, "closing")
  /\ UNCHANGED <<row, mem, flag, inFlight, cancel, delivered, acked>>

\* The session's engine is gone by now: FAILED, early return.
EngineMissing(b) ==
  /\ worker[b] = "started"
  /\ mem' = [mem EXCEPT ![b].row.status = "failed"]
  /\ SaveThen(b, mem'[b].row, "closing")
  /\ UNCHANGED <<flag, inFlight, cancel, delivered, acked>>

EnginePresent(b) ==
  /\ worker[b] = "started"
  /\ Go(b, "head")
  /\ UNCHANGED <<row, mem, flag, inFlight, cancel, delivered, acked>>

\* The head of the loop: done, cancelled, or on to the next item.
Head(b) ==
  /\ worker[b] = "head"
  /\ Go(b, IF mem[b].row.index = Total \/ flag[b] # TRUE THEN "last" ELSE "item")
  /\ UNCHANGED <<row, mem, flag, inFlight, cancel, delivered, acked>>

\* Is progress saved after the item at this index?
Cadence(i) == i % SaveEvery = 0 \/ i = Total - 1

AfterItem(i) == IF Cadence(i) THEN "reread" ELSE "head"

\* The gate lets the item through and the engine sends it.
ItemSent(b) ==
  /\ worker[b] = "item"
  /\ LET r == mem[b].row IN
       /\ mem' = [mem EXCEPT ![b].row = [r EXCEPT !.sent = @ + 1, !.pending = @ - 1,
                                                  !.index = @ + 1]]
       /\ Go(b, AfterItem(r.index))
  /\ delivered' = [delivered EXCEPT ![b] = @ + 1]
  /\ UNCHANGED <<row, flag, inFlight, cancel, acked>>

\* The gate blocks the item, or the send is rejected: which does not say that
\* WhatsApp did not take the message, the answer alone may have been lost.
ItemFails(b) ==
  /\ worker[b] = "item"
  /\ \E taken \in {0, 1} : delivered' = [delivered EXCEPT ![b] = @ + taken]
  /\ LET r == [mem[b].row EXCEPT !.failed = @ + 1, !.pending = @ - 1] IN
       \/ /\ r.stopOnError
          /\ mem' = [mem EXCEPT ![b].row = [r EXCEPT !.status = "failed"], ![b].stopped = TRUE]
          /\ Go(b, "last")
       \/ /\ ~r.stopOnError
          /\ mem' = [mem EXCEPT ![b].row = [r EXCEPT !.index = @ + 1]]
          /\ Go(b, AfterItem(r.index))
  /\ UNCHANGED <<row, flag, inFlight, cancel, acked>>

\* The status is read again before progress is saved.
Reread(b) ==
  /\ worker[b] = "reread"
  /\ mem' = [mem EXCEPT ![b].seen = row[b].status = "cancelled"]
  /\ Go(b, IF row[b].status = "cancelled" THEN "finish" ELSE "save")
  /\ UNCHANGED <<row, flag, inFlight, cancel, delivered, acked>>

SaveProgress(b) ==
  /\ worker[b] = "save"
  /\ SaveThen(b, mem[b].row, "head")
  /\ UNCHANGED <<mem, flag, inFlight, cancel, delivered, acked>>

\* Out of the loop: the status is read once more.
LastRead(b) ==
  /\ worker[b] = "last"
  /\ mem' = [mem EXCEPT ![b].seen = row[b].status = "cancelled"]
  /\ Go(b, "finish")
  /\ UNCHANGED <<row, flag, inFlight, cancel, delivered, acked>>

\* Mutant of ResolveFinalBatchStatus: the cancellation does not take precedence.
ResolveIgnoringCancel(cancelled, stopped, r) ==
  IF stopped \/ (r.failed > 0 /\ r.sent = 0) THEN "failed" ELSE "completed"

ResolveFinalBatchStatus(cancelled, stopped, r) ==
  IF cancelled THEN "cancelled"
  ELSE IF stopped \/ (r.failed > 0 /\ r.sent = 0) THEN "failed" ELSE "completed"

\* What cancelling makes of the counters.
Cancelled(r) == [r EXCEPT !.status = "cancelled", !.cancelled = r.pending, !.pending = 0]

\* The terminal status is resolved and saved.
Finish(b) ==
  /\ worker[b] = "finish"
  /\ LET m == mem[b]
         gone == m.seen \/ flag[b] # TRUE
         end == ResolveFinalBatchStatus(gone, m.stopped, m.row)
         r == [IF gone THEN Cancelled(m.row) ELSE m.row EXCEPT !.status = end]
     IN /\ mem' = [mem EXCEPT ![b].row = r]
        /\ SaveThen(b, r, "closing")
  /\ UNCHANGED <<flag, inFlight, cancel, delivered, acked>>

\* The finally; a rejection is then logged and forgotten.
Close(b) ==
  /\ worker[b] \in {"closing", "rejecting"}
  /\ inFlight' = inFlight - 1
  /\ flag' = [flag EXCEPT ![b] = None]
  /\ mem' = [mem EXCEPT ![b] = None]
  /\ Go(b, IF worker[b] = "closing" THEN "done" ELSE "rejected")
  /\ UNCHANGED <<row, cancel, delivered, acked>>

WorkerStep(b) ==
  /\ \/ Load(b) \/ Begin(b) \/ EngineMissing(b) \/ EnginePresent(b) \/ Head(b)
     \/ ItemSent(b) \/ ItemFails(b) \/ Reread(b) \/ SaveProgress(b) \/ LastRead(b)
     \/ Finish(b) \/ Close(b)
  /\ UNCHANGED <<up, crashes>>

-----------------------------------------------------------------------------
(* cancelBatch() *)

\* The row is read; a completed or cancelled batch is refused.
CancelRead(c, b) ==
  /\ up /\ cancel[c] = None
  /\ row[b] # None /\ row[b].status \notin {"completed", "cancelled"}
  /\ cancel' = [cancel EXCEPT ![c] = [b |-> b, copy |-> row[b], lowered |-> FALSE]]
  /\ UNCHANGED <<row, worker, mem, flag, inFlight, up, crashes, delivered, acked>>

\* The flag is lowered, whether or not a worker is there to see it.
CancelLower(c) ==
  /\ cancel[c] # None /\ ~cancel[c].lowered
  /\ flag' = [flag EXCEPT ![cancel[c].b] = FALSE]
  /\ cancel' = [cancel EXCEPT ![c].lowered = TRUE]
  /\ UNCHANGED <<row, worker, mem, inFlight, up, crashes, delivered, acked>>

\* The copy is saved as CANCELLED.
CancelSave(c) ==
  /\ cancel[c] # None /\ cancel[c].lowered
  /\ LET b == cancel[c].b IN
       \/ /\ row' = [row EXCEPT ![b] = Cancelled(cancel[c].copy)]
          /\ acked' = [acked EXCEPT ![b] = IF @ = None THEN delivered[b] ELSE @]
       \/ /\ DbFails
          /\ UNCHANGED <<row, acked>>
  /\ cancel' = [cancel EXCEPT ![c] = None]
  /\ UNCHANGED <<worker, mem, flag, inFlight, up, crashes, delivered>>

-----------------------------------------------------------------------------
(* The process *)

\* Everything but the rows is lost, and with it every worker.
Crash ==
  /\ up /\ crashes < MaxCrashes
  /\ up' = FALSE
  /\ crashes' = crashes + 1
  /\ worker' = [b \in Batches |-> IF worker[b] = "none" THEN "none" ELSE "done"]
  /\ mem' = [b \in Batches |-> None]
  /\ flag' = [b \in Batches |-> None]
  /\ inFlight' = 0
  /\ cancel' = [c \in Cancels |-> None]
  /\ UNCHANGED <<row, delivered, acked>>

\* Mutant of Boot: orphaned batches are not looked for.
BootWithoutSweep ==
  /\ ~up
  /\ up' = TRUE
  /\ UNCHANGED <<row, volatile, crashes, delivered, acked>>

\* onApplicationBootstrap(): what still says PROCESSING belongs to no worker.
Boot ==
  /\ ~up
  /\ up' = TRUE
  /\ row' = [b \in Batches |-> IF row[b] # None /\ row[b].status = "processing"
                                 THEN [row[b] EXCEPT !.status = "failed"] ELSE row[b]]
  /\ UNCHANGED <<volatile, crashes, delivered, acked>>

-----------------------------------------------------------------------------
(* Specification *)

Next ==
  \/ \E b \in Batches, stop \in BOOLEAN : CreateBatch(b, stop)
  \/ \E b \in Batches : WorkerStep(b)
  \/ \E c \in Cancels, b \in Batches : CancelRead(c, b)
  \/ \E c \in Cancels : CancelLower(c) \/ CancelSave(c)
  \/ Crash \/ Boot

\* Continuations run: saves, reads, sends and hooks settle, and a sleep ends.
Fairness == \A b \in Batches : WF_vars(WorkerStep(b))

Spec == Init /\ [][Next]_vars
FairSpec == Spec /\ Fairness

-----------------------------------------------------------------------------
(* Properties *)

\* Type correctness; the counters of a row stay within the batch's size.
TypeOK ==
  /\ row \in [Batches -> Row \cup {None}]
  /\ worker \in [Batches -> PCs]
  /\ mem \in [Batches -> Copy \cup {None}]
  /\ flag \in [Batches -> BOOLEAN \cup {None}]
  /\ inFlight \in 0 .. Cardinality(Batches)
  /\ cancel \in [Cancels -> [b : Batches, copy : Row, lowered : BOOLEAN] \cup {None}]
  /\ up \in BOOLEAN /\ crashes \in 0 .. MaxCrashes
  /\ delivered \in [Batches -> 0 .. Total]
  /\ acked \in [Batches -> 0 .. Total \cup {None}]

\* The in-flight count is the number of workers inside processBatch(): every
\* exit path, the early return and a rejected save included, gives its slot back.
InFlightExact == inFlight = Cardinality({b \in Batches : worker[b] \in InTry})

\* A batch reported COMPLETED attempted every message: those it counts as sent
\* WhatsApp took, any other it took is counted as failed (a send that was rejected
\* after all), and none failed if it was to stop on one: whatever a cancel or a
\* restart did meanwhile.
CompletedIsComplete ==
  \A b \in Batches : row[b] # None /\ row[b].status = "completed" =>
    /\ row[b].sent <= delivered[b] /\ delivered[b] <= row[b].sent + row[b].failed
    /\ row[b].sent + row[b].failed = Total
    /\ row[b].stopOnError => row[b].failed = 0

\* A row that says PROCESSING has a worker, or its worker could not save it: a
\* restart leaves no batch running for ever.
NoOrphan ==
  \A b \in Batches : up /\ row[b] # None /\ row[b].status = "processing" =>
    worker[b] \in Alive \cup {"rejected"}

\* A created batch comes to a terminal status, whatever its items and cancels
\* do, unless a save is rejected or the process dies (no boot sweeps PENDING).
BatchSettles ==
  \A b \in Batches :
    row[b] # None ~>
      \/ row[b] # None /\ row[b].status \in {"completed", "cancelled", "failed"}
      \/ worker[b] = "rejected" \/ crashes > 0

\* Once a cancel has succeeded, at most the message under way is still sent.
CancelStopsSending ==
  \A b \in Batches : acked[b] # None => delivered[b] <= acked[b] + 1
=============================================================================
