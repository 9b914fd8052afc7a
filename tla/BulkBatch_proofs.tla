-------------------------- MODULE BulkBatch_proofs ---------------------------
(***************************************************************************)
(* Theorems about bulk batches, for any batches, any batch size and any    *)
(* number of cancels.  The worker's copy of its row is the row's truth:    *)
(* its counters add up to its index, and what WhatsApp took lies between   *)
(* its sent count and all it attempted, so what Finish saves does too.     *)
(***************************************************************************)
EXTENDS BulkBatch, FiniteSetTheorems, TLAPS

-----------------------------------------------------------------------------
(* The inductive invariant *)

\* The worker holds a copy, and still relies on it.
Holding == Alive \ {"created"}
Using == Holding \ {"closing", "rejecting"}

\* A row no worker has written yet.
Fresh(r) == r.sent = 0 /\ r.failed = 0 /\ r.index = 0 /\ r.pending \in {0, Total}

\* The worker's copy m, at pc, with d messages delivered and the flag f.
CopyOK(m, pc, d, f) ==
  LET r == m.row
  IN /\ r.status # "completed"
     /\ r.sent <= d /\ d <= r.sent + r.failed
     /\ r.sent + r.failed = IF m.stopped THEN r.index + 1 ELSE r.index
     /\ r.pending + r.sent + r.failed \in {0, Total}
     /\ ~m.stopped => (r.stopOnError => r.failed = 0)
     /\ m.stopped => r.index < Total /\ pc \in {"last", "finish"}
     /\ m.seen => pc = "finish"
     /\ pc \in {"loaded", "started"} => Fresh(r)
     /\ pc = "item" => r.index < Total
     /\ pc \in {"last", "finish"} /\ ~m.stopped /\ ~m.seen => r.index = Total \/ f # TRUE

\* What COMPLETED means of a row r with d messages delivered.
RowOK(r, pc, d) ==
  r.status = "completed" =>
    /\ pc \in {"closing", "done"}
    /\ r.sent <= d /\ d <= r.sent + r.failed
    /\ r.sent + r.failed = Total
    /\ r.stopOnError => r.failed = 0

BatchInv(b) ==
  /\ row[b] = None <=> worker[b] = "none"
  /\ worker[b] \in {"none", "created"} => delivered[b] = 0
  /\ worker[b] = "created" => Fresh(row[b])
  /\ worker[b] \in Holding => mem[b] \in Copy
  /\ worker[b] \in Using => CopyOK(mem[b], worker[b], delivered[b], flag[b])
  /\ row[b] # None => RowOK(row[b], worker[b], delivered[b])

CancelInv(c) ==
  cancel[c] # None =>
    /\ row[cancel[c].b] # None
    /\ worker[cancel[c].b] = "created" => Fresh(cancel[c].copy)

IInv ==
  /\ TypeOK
  /\ InFlightExact
  /\ \A b \in Batches : BatchInv(b)
  /\ \A c \in Cancels : CancelInv(c)

-----------------------------------------------------------------------------
(* In-flight batches *)

Inside == {b \in Batches : worker[b] \in InTry}

\* A worker that enters or leaves the try is counted, one that stays is not.
LEMMA CountMoves ==
  ASSUME worker \in [Batches -> PCs], InFlightExact,
         NEW b \in Batches, NEW pc \in PCs, Go(b, pc),
         inFlight' = inFlight + (IF pc \in InTry THEN 1 ELSE 0)
                              - (IF worker[b] \in InTry THEN 1 ELSE 0)
  PROVE  InFlightExact' /\ inFlight' \in 0 .. Cardinality(Batches)
<1>1. /\ IsFiniteSet(Batches) /\ Inside \in SUBSET Batches /\ Inside' \in SUBSET Batches
  BY BatchAssumption DEF Inside
<1>2. /\ IsFiniteSet(Inside) /\ Cardinality(Inside) \in Nat
      /\ IsFiniteSet(Inside') /\ Cardinality(Inside') \in Nat
      /\ Cardinality(Inside') <= Cardinality(Batches) /\ Cardinality(Batches) \in Nat
  BY <1>1, FS_Subset, FS_CardinalityType
<1>3. inFlight = Cardinality(Inside)
  BY DEF InFlightExact, Inside
<1>4. Inside' = IF pc \in InTry THEN Inside \cup {b} ELSE Inside \ {b}
  BY DEF Inside, Go
<1>5. Cardinality(Inside \cup {b}) = IF b \in Inside THEN Cardinality(Inside)
                                                    ELSE Cardinality(Inside) + 1
  BY <1>2, FS_AddElement
<1>6. Cardinality(Inside \ {b}) = IF b \in Inside THEN Cardinality(Inside) - 1
                                                 ELSE Cardinality(Inside)
  BY <1>2, FS_RemoveElement
<1>7. b \in Inside <=> worker[b] \in InTry
  BY DEF Inside
<1>8. inFlight' = Cardinality(Inside')
  BY <1>2, <1>3, <1>4, <1>5, <1>6, <1>7
<1>9. QED
  BY <1>2, <1>8 DEF InFlightExact, Inside

-----------------------------------------------------------------------------
(* The worker *)

Inc(pc) == IF pc \in InTry THEN 1 ELSE 0

\* A worker moves on to pc with the copy m, having written r.
LEMMA WorkerMoves ==
  ASSUME IInv, NEW b \in Batches, worker[b] # "none",
         NEW m \in Copy \cup {None}, NEW pc \in PCs \ {"none", "created"}, NEW r \in Row,
         NEW f \in BOOLEAN \cup {None}, NEW d \in 0 .. Total,
         row' = [row EXCEPT ![b] = r], Go(b, pc), mem' = [mem EXCEPT ![b] = m],
         flag' = [flag EXCEPT ![b] = f], delivered' = [delivered EXCEPT ![b] = d],
         inFlight' = inFlight + Inc(pc) - Inc(worker[b]),
         UNCHANGED <<cancel, acked, up, crashes>>,
         pc \in Holding => m \in Copy,
         pc \in Using => CopyOK(m, pc, d, f),
         RowOK(r, pc, d)
  PROVE  IInv'
<1>1. InFlightExact' /\ inFlight' \in 0 .. Cardinality(Batches)
  <2>1. inFlight' = inFlight + (IF pc \in InTry THEN 1 ELSE 0)
                             - (IF worker[b] \in InTry THEN 1 ELSE 0)
    BY DEF Inc
  <2>2. worker \in [Batches -> PCs] /\ InFlightExact
    BY DEF IInv, TypeOK
  <2>3. QED
    BY <2>1, <2>2, CountMoves
<1>2. TypeOK'
  BY <1>1 DEF IInv, TypeOK, Go
<1>3. ASSUME NEW x \in Batches
      PROVE  BatchInv(x)'
  <2>1. CASE x = b
    <3>1. /\ row'[b] = r /\ worker'[b] = pc /\ mem'[b] = m /\ flag'[b] = f /\ delivered'[b] = d
      BY DEF IInv, TypeOK, Go
    <3>2. r # None
      BY BatchAssumption
    <3>3. QED
      BY <2>1, <3>1, <3>2 DEF BatchInv
  <2>2. CASE x # b
    <3>1. /\ row'[x] = row[x] /\ worker'[x] = worker[x] /\ mem'[x] = mem[x]
          /\ flag'[x] = flag[x] /\ delivered'[x] = delivered[x]
      BY <2>2 DEF IInv, TypeOK, Go
    <3>2. BatchInv(x)
      BY DEF IInv
    <3>3. QED
      BY <3>1, <3>2 DEF BatchInv
  <2>3. QED
    BY <2>1, <2>2
<1>4. ASSUME NEW c \in Cancels
      PROVE  CancelInv(c)'
  <2>1. r # None
    BY BatchAssumption
  <2>2. QED
    BY <2>1 DEF IInv, TypeOK, CancelInv, Go
<1>5. QED
  BY <1>1, <1>2, <1>3, <1>4 DEF IInv

\* What the invariant says of a batch with a worker.
LEMMA WorkerFacts ==
  ASSUME IInv, NEW b \in Batches, worker[b] # "none"
  PROVE  /\ row[b] \in Row /\ flag[b] \in BOOLEAN \cup {None} /\ delivered[b] \in 0 .. Total
         /\ RowOK(row[b], worker[b], delivered[b])
         /\ worker[b] = "created" => Fresh(row[b]) /\ delivered[b] = 0
         /\ worker[b] \in Holding => mem[b] \in Copy
         /\ worker[b] \in Using => CopyOK(mem[b], worker[b], delivered[b], flag[b])
         /\ row = [row EXCEPT ![b] = row[b]] /\ mem = [mem EXCEPT ![b] = mem[b]]
         /\ flag = [flag EXCEPT ![b] = flag[b]]
         /\ delivered = [delivered EXCEPT ![b] = delivered[b]]
         /\ inFlight \in Nat
<1>1. BatchInv(b) /\ TypeOK
  BY DEF IInv
<1>2. inFlight \in Nat
  <2>1. Cardinality(Batches) \in Nat
    BY BatchAssumption, FS_CardinalityType
  <2>2. QED
    BY <1>1, <2>1 DEF TypeOK
<1>3. QED
  BY <1>1, <1>2 DEF BatchInv, TypeOK

\* A worker saves its copy n and moves on to pc, or its save is rejected.
LEMMA WorkerSaves ==
  ASSUME IInv, NEW b \in Batches, worker[b] \in Using, NEW n \in Copy,
         NEW pc \in {"started", "head", "closing"}, NEW f \in BOOLEAN \cup {None},
         SaveThen(b, n.row, pc), mem' = [mem EXCEPT ![b] = n],
         flag' = [flag EXCEPT ![b] = f], inFlight' = inFlight + 1 - Inc(worker[b]),
         UNCHANGED <<cancel, delivered, acked, up, crashes>>,
         pc \in Using => CopyOK(n, pc, delivered[b], f),
         RowOK(n.row, pc, delivered[b])
  PROVE  IInv'
<1> USE DEF Inc, InTry, Holding, Using, Alive, PCs
<1>1. /\ worker[b] # "none" /\ n.row \in Row
      /\ delivered[b] \in 0 .. Total /\ row[b] \in Row
      /\ row = [row EXCEPT ![b] = row[b]]
      /\ delivered' = [delivered EXCEPT ![b] = delivered[b]]
  BY WorkerFacts DEF Copy
<1>2. CASE row' = [row EXCEPT ![b] = n.row] /\ Go(b, pc)
  <2>1. inFlight' = inFlight + Inc(pc) - Inc(worker[b])
    OBVIOUS
  <2>2. QED
    BY <1>1, <1>2, <2>1, WorkerMoves
<1>3. CASE UNCHANGED row /\ Go(b, "rejecting")
  <2>1. inFlight' = inFlight + Inc("rejecting") - Inc(worker[b])
    OBVIOUS
  <2>2. RowOK(row[b], "rejecting", delivered[b])
    BY WorkerFacts DEF RowOK
  <2>3. row' = [row EXCEPT ![b] = row[b]]
    BY <1>1, <1>3
  <2>4. QED
    BY <1>1, <1>3, <2>1, <2>2, <2>3, WorkerMoves
<1>4. QED
  BY <1>2, <1>3 DEF SaveThen

\* The counters at the point where an item is tried: there is room for one more.
LEMMA ItemFacts ==
  ASSUME NEW m \in Copy, NEW d \in 0 .. Total, NEW f, CopyOK(m, "item", d, f)
  PROVE  LET r == m.row
         IN /\ d + 1 \in 0 .. Total /\ r.sent <= d /\ d <= r.sent + r.failed /\ r.sent \in Nat /\ r.failed \in Nat
            /\ r.pending \in Int /\ r.index \in Nat /\ r.index < Total
            /\ ~m.stopped /\ ~m.seen /\ r.sent + r.failed = r.index
            /\ r.pending + r.sent + r.failed \in {0, Total}
            /\ r.stopOnError => r.failed = 0
            /\ r.sent + 1 \in 0 .. Total /\ r.failed + 1 \in 0 .. Total
            /\ r.pending - 1 \in -Total .. Total /\ r.index + 1 \in 0 .. Total
<1> DEFINE r == m.row
<1>1. Total \in Nat /\ Total > 0
  BY BatchAssumption
<1>2. /\ r.sent \in 0 .. Total /\ r.failed \in 0 .. Total /\ r.index \in 0 .. Total
      /\ r.pending \in -Total .. Total
  BY DEF Copy, Row
<1>3. /\ r.sent <= d /\ d <= r.sent + r.failed /\ ~m.stopped /\ ~m.seen /\ r.index < Total /\ r.sent + r.failed = r.index
      /\ r.pending + r.sent + r.failed \in {0, Total}
      /\ r.stopOnError => r.failed = 0
  BY DEF CopyOK
<1> HIDE DEF r
<1>4. /\ r.sent \in Nat /\ r.failed \in Nat /\ r.pending \in Int /\ r.index \in Nat
  BY <1>1, <1>2
<1>d. d + 1 \in 0 .. Total
  BY <1>1, <1>3, <1>4
<1>5. /\ r.sent + 1 \in 0 .. Total /\ r.failed + 1 \in 0 .. Total
      /\ r.index + 1 \in 0 .. Total
  BY <1>1, <1>3, <1>4
<1>6. r.pending - 1 \in -Total .. Total
  BY <1>1, <1>2, <1>3, <1>4
<1>7. QED
  BY <1>3, <1>4, <1>5, <1>6, <1>d DEF r

\* Cancelling a row leaves a row.
LEMMA CancelledRow ==
  ASSUME NEW r \in Row
  PROVE  Cancelled(r) \in Row /\ Cancelled(r).status = "cancelled"
<1>1. Total \in Nat
  BY BatchAssumption
<1>2. r.pending \in -Total .. Total /\ 0 \in -Total .. Total
  BY <1>1 DEF Row
<1>3. QED
  BY <1>2 DEF Row, Status, Cancelled

\* Every segment of a worker preserves the invariant.
LEMMA WorkerStepInv ==
  ASSUME IInv, NEW b \in Batches, WorkerStep(b)
  PROVE  IInv'
<1> DEFINE m == mem[b]
           r == mem[b].row
           d == delivered[b]
           f == flag[b]
<1>0. worker[b] # "none" /\ UNCHANGED <<acked, up, crashes>>
  BY DEF WorkerStep, Load, Begin, EngineMissing, EnginePresent, Head, ItemSent, ItemFails,
         Reread, SaveProgress, LastRead, Finish, Close
<1>a. /\ row[b] \in Row /\ f \in BOOLEAN \cup {None} /\ d \in 0 .. Total
      /\ RowOK(row[b], worker[b], d)
      /\ worker[b] = "created" => Fresh(row[b]) /\ d = 0
      /\ worker[b] \in Holding => m \in Copy
      /\ worker[b] \in Using => CopyOK(m, worker[b], d, f)
      /\ row = [row EXCEPT ![b] = row[b]] /\ mem = [mem EXCEPT ![b] = m]
      /\ flag = [flag EXCEPT ![b] = f] /\ delivered = [delivered EXCEPT ![b] = d]
      /\ inFlight \in Nat
  BY <1>0, WorkerFacts
<1>b. Total \in Nat \ {0}
  BY BatchAssumption
<1>i. ASSUME NEW n \in Copy, NEW pc \in Using \ {"loaded"}, NEW e \in 0 .. Total,
             CopyOK(n, pc, e, f), delivered' = [delivered EXCEPT ![b] = e],
             worker[b] \in Using \ {"loaded"}, Go(b, pc), mem' = [mem EXCEPT ![b] = n],
             UNCHANGED <<row, flag, inFlight, cancel>>
      PROVE  IInv'
  <2>1. RowOK(row[b], pc, e)
    BY <1>a, <1>i DEF RowOK, Using, Holding, Alive, PCs
  <2>2. inFlight' = inFlight + Inc(pc) - Inc(worker[b])
    BY <1>a, <1>i DEF Inc, InTry, Using, Holding, Alive, PCs
  <2>3. pc \in PCs \ {"none", "created"}
    BY DEF Using, Holding, Alive, PCs
  <2>4. /\ row' = [row EXCEPT ![b] = row[b]] /\ flag' = [flag EXCEPT ![b] = f]
    BY <1>a, <1>i
  <2>5. QED
    BY <1>0, <1>a, <1>i, <2>1, <2>2, <2>3, <2>4, WorkerMoves
<1>c. ASSUME NEW n \in Copy, NEW pc \in Using \ {"loaded"}, CopyOK(n, pc, d, f),
             worker[b] \in Using \ {"loaded"}, Go(b, pc), mem' = [mem EXCEPT ![b] = n],
             UNCHANGED <<row, flag, inFlight, cancel, delivered>>
      PROVE  IInv'
  BY <1>a, <1>c, <1>i
<1> USE DEF Holding, Using, Alive, PCs
<1>1. CASE Load(b)
  <2> DEFINE n == [row |-> row[b], stopped |-> FALSE, seen |-> FALSE]
  <2>1. n \in Copy /\ CopyOK(n, "loaded", d, f)
    BY <1>1, <1>a, <1>b DEF Load, Copy, Row, CopyOK, RowOK, Fresh
  <2>2. RowOK(row[b], "loaded", d)
    BY <1>1, <1>a DEF Load, RowOK
  <2>3. /\ row' = [row EXCEPT ![b] = row[b]] /\ Go(b, "loaded") /\ mem' = [mem EXCEPT ![b] = n]
        /\ flag' = [flag EXCEPT ![b] = f] /\ delivered' = [delivered EXCEPT ![b] = d]
        /\ UNCHANGED cancel
    BY <1>1, <1>a DEF Load
  <2>4. inFlight' = inFlight + Inc("loaded") - Inc(worker[b])
    BY <1>1, <1>a DEF Load, Inc, InTry
  <2>5. QED
    BY <1>0, <1>a, <2>1, <2>2, <2>3, <2>4, WorkerMoves
<1>2. CASE Begin(b)
  <2> DEFINE n == [m EXCEPT !.row.status = "processing"]
  <2>1. /\ n \in Copy /\ CopyOK(n, "started", d, TRUE) /\ RowOK(n.row, "started", d)
    BY <1>2, <1>a, <1>b DEF Begin, Copy, Row, Status, CopyOK, RowOK, Fresh
  <2>2. mem' = [mem EXCEPT ![b] = n] /\ mem'[b] = n
    BY <1>2, <1>a DEF Begin, IInv, TypeOK
  <2> HIDE DEF n
  <2>3. SaveThen(b, n.row, "started")
    BY <1>2, <2>2 DEF Begin, SaveThen
  <2>4. /\ worker[b] \in Using /\ inFlight' = inFlight + 1 - Inc(worker[b])
        /\ flag' = [flag EXCEPT ![b] = TRUE] /\ UNCHANGED <<cancel, delivered>>
    BY <1>2, <1>a DEF Begin, Inc, InTry
  <2>5. QED
    BY <1>0, <2>1, <2>2, <2>3, <2>4, WorkerSaves
<1>3. CASE EngineMissing(b)
  <2> DEFINE n == [m EXCEPT !.row.status = "failed"]
  <2>1. /\ n \in Copy /\ RowOK(n.row, "closing", d)
    BY <1>3, <1>a, <1>b DEF EngineMissing, Copy, Row, Status, RowOK
  <2>2. mem' = [mem EXCEPT ![b] = n] /\ mem'[b] = n
    BY <1>3, <1>a DEF EngineMissing, IInv, TypeOK
  <2> HIDE DEF n
  <2>3. SaveThen(b, n.row, "closing")
    BY <1>3, <2>2 DEF EngineMissing, SaveThen
  <2>4. /\ worker[b] \in Using /\ inFlight' = inFlight + 1 - Inc(worker[b])
        /\ flag' = [flag EXCEPT ![b] = f] /\ UNCHANGED <<cancel, delivered>>
    BY <1>3, <1>a DEF EngineMissing, Inc, InTry
  <2>5. QED
    BY <1>0, <1>a, <2>1, <2>2, <2>3, <2>4, WorkerSaves
<1>4. CASE EnginePresent(b)
  <2>1. CopyOK(m, "head", d, f)
    BY <1>4, <1>a DEF EnginePresent, CopyOK
  <2>2. QED
    BY <1>4, <1>a, <1>c, <2>1 DEF EnginePresent
<1>5. CASE Head(b)
  <2>1. CASE r.index = Total \/ f # TRUE
    <3>1. CopyOK(m, "last", d, f)
      BY <1>5, <1>a, <2>1 DEF Head, CopyOK
    <3>2. Go(b, "last")
      BY <1>5, <2>1 DEF Head
    <3>3. QED
      BY <1>5, <1>a, <1>c, <3>1, <3>2 DEF Head
  <2>2. CASE ~(r.index = Total \/ f # TRUE)
    <3>1. CopyOK(m, "item", d, f)
      <4>1. m \in Copy /\ CopyOK(m, "head", d, f)
        BY <1>5, <1>a DEF Head
      <4>2. r.index < Total
        <5>1. r.index \in 0 .. Total
          BY <4>1 DEF Copy, Row
        <5>2. r.index # Total
          BY <2>2
        <5>3. QED
          BY <1>b, <5>1, <5>2
      <4>3. QED
        BY <4>1, <4>2 DEF CopyOK
    <3>2. Go(b, "item")
      BY <1>5, <2>2 DEF Head
    <3>3. QED
      BY <1>5, <1>a, <1>c, <3>1, <3>2 DEF Head
  <2>3. QED
    BY <2>1, <2>2
<1>6. CASE ItemSent(b)
  <2> DEFINE n == [m EXCEPT !.row = [r EXCEPT !.sent = @ + 1, !.pending = @ - 1,
                                              !.index = @ + 1]]
             pc == AfterItem(r.index)
  <2>1. m \in Copy /\ r \in Row /\ d \in 0 .. Total /\ CopyOK(m, "item", d, f)
    BY <1>6, <1>a DEF ItemSent, Copy
  <2>2. d + 1 \in 0 .. Total /\ pc \in {"reread", "head"}
    <3>1. d + 1 \in 0 .. Total
      BY <2>1, ItemFacts
    <3>2. QED
      BY <3>1 DEF AfterItem
  <2>3. n \in Copy /\ CopyOK(n, pc, d + 1, f)
    <3>1. /\ n.row.sent = r.sent + 1 /\ n.row.failed = r.failed
          /\ n.row.pending = r.pending - 1 /\ n.row.index = r.index + 1
          /\ n.row.status = r.status /\ n.row.stopOnError = r.stopOnError
          /\ n.stopped = m.stopped /\ n.seen = m.seen
      BY <2>1 DEF Copy, Row
    <3>2. /\ r.sent + 1 \in 0 .. Total /\ r.pending - 1 \in -Total .. Total
          /\ r.index + 1 \in 0 .. Total
      BY <2>1, ItemFacts
    <3>3. n \in Copy
      BY <2>1, <3>2 DEF Copy, Row
    <3> HIDE DEF n
    <3>4. /\ n.row.sent <= d + 1 /\ d + 1 <= n.row.sent + n.row.failed
          /\ n.row.sent + n.row.failed = n.row.index
          /\ n.row.pending + n.row.sent + n.row.failed \in {0, Total}
          /\ ~n.stopped /\ ~n.seen /\ (n.row.stopOnError => n.row.failed = 0)
      <4>1. /\ r.sent <= d /\ d <= r.sent + r.failed /\ r.sent \in Nat /\ r.failed \in Nat
            /\ r.pending \in Int /\ r.index \in Nat /\ r.sent + r.failed = r.index
            /\ r.pending + r.sent + r.failed \in {0, Total}
            /\ ~m.stopped /\ ~m.seen /\ (r.stopOnError => r.failed = 0)
        BY <2>1, ItemFacts
      <4>2. n.row.pending + n.row.sent + n.row.failed = r.pending + r.sent + r.failed
        <5>1. r.sent \in Int /\ r.failed \in Int /\ r.pending \in Int
          BY <4>1
        <5>2. (r.pending - 1) + (r.sent + 1) + r.failed = r.pending + r.sent + r.failed
          BY <5>1
        <5>3. QED
          BY <3>1, <5>2
      <4>3. /\ n.row.sent <= d + 1 /\ d + 1 <= n.row.sent + n.row.failed
            /\ n.row.sent + n.row.failed = n.row.index
        BY <2>1, <3>1, <4>1
      <4>4. QED
        BY <3>1, <4>1, <4>2, <4>3
    <3>5. n.row.status # "completed"
      BY <2>1, <3>1 DEF CopyOK
    <3>6. QED
      BY <2>2, <3>3, <3>4, <3>5 DEF CopyOK
  <2>4. /\ mem' = [mem EXCEPT ![b] = n] /\ Go(b, pc)
        /\ delivered' = [delivered EXCEPT ![b] = d + 1]
        /\ row' = [row EXCEPT ![b] = row[b]] /\ flag' = [flag EXCEPT ![b] = f]
        /\ UNCHANGED <<inFlight, cancel>>
    BY <1>6, <1>a DEF ItemSent
  <2>5. inFlight' = inFlight + Inc(pc) - Inc(worker[b])
    BY <1>6, <1>a, <2>2, <2>4 DEF ItemSent, Inc, InTry
  <2>6. RowOK(row[b], pc, d + 1)
    BY <1>6, <1>a DEF ItemSent, RowOK
  <2>7. QED
    BY <1>0, <1>a, <2>2, <2>3, <2>4, <2>5, <2>6, WorkerMoves
<1>7. CASE ItemFails(b)
  <2> DEFINE q == [r EXCEPT !.failed = @ + 1, !.pending = @ - 1]
  <2>1. m \in Copy /\ r \in Row /\ d \in 0 .. Total /\ CopyOK(m, "item", d, f)
    BY <1>7, <1>a DEF ItemFails, Copy
  <2>2. q.stopOnError = r.stopOnError /\ q.index = r.index
    BY <2>1 DEF Row
  <2>t. PICK taken \in {0, 1} : delivered' = [delivered EXCEPT ![b] = @ + taken]
    BY <1>7 DEF ItemFails
  <2> DEFINE e == d + taken
  <2>e. delivered' = [delivered EXCEPT ![b] = e] /\ e \in {d, d + 1} /\ e \in 0 .. Total
    <3>1. d + 1 \in 0 .. Total
      BY <2>1, ItemFacts
    <3>2. e \in {d, d + 1}
      BY <2>1, <2>t
    <3>3. delivered' = [delivered EXCEPT ![b] = e]
      BY <2>t
    <3>4. QED
      BY <2>1, <3>1, <3>2, <3>3
  <2> HIDE DEF e
  <2>f. worker[b] \in Using \ {"loaded"} /\ UNCHANGED <<row, flag, inFlight, cancel>>
    BY <1>7 DEF ItemFails, Using, Holding, Alive, PCs
  <2>3. CASE r.stopOnError
    <3> DEFINE n == [m EXCEPT !.row = [q EXCEPT !.status = "failed"], !.stopped = TRUE]
    <3>1. n \in Copy /\ CopyOK(n, "last", e, f)
      <4>1. /\ n.row.sent = r.sent /\ n.row.failed = r.failed + 1
            /\ n.row.pending = r.pending - 1 /\ n.row.index = r.index
            /\ n.row.status = "failed" /\ n.stopped = TRUE /\ n.seen = m.seen
        BY <2>1 DEF Copy, Row
      <4>2. /\ r.failed + 1 \in 0 .. Total /\ r.pending - 1 \in -Total .. Total
        BY <2>1, ItemFacts
      <4>3. n \in Copy
        BY <2>1, <4>2 DEF Copy, Row, Status
      <4> HIDE DEF n
      <4>4. /\ n.row.sent <= e /\ e <= n.row.sent + n.row.failed
            /\ n.row.sent + n.row.failed = n.row.index + 1
            /\ n.row.pending + n.row.sent + n.row.failed \in {0, Total}
            /\ n.row.index < Total
        BY <2>1, <2>e, <4>1, ItemFacts
      <4>5. ~n.seen
        BY <2>1, <4>1 DEF CopyOK
      <4>6. QED
        BY <4>1, <4>3, <4>4, <4>5 DEF CopyOK
    <3>2. mem' = [mem EXCEPT ![b] = n] /\ Go(b, "last")
      BY <1>7, <2>2, <2>3 DEF ItemFails
    <3> HIDE DEF n
    <3>3. QED
      BY <1>i, <2>e, <2>f, <3>1, <3>2 DEF Using, Holding, Alive, PCs
  <2>4. CASE ~r.stopOnError
    <3> DEFINE n == [m EXCEPT !.row = [q EXCEPT !.index = @ + 1]]
               pc == AfterItem(q.index)
    <3>1. pc \in {"reread", "head"}
      BY DEF AfterItem
    <3>2. n \in Copy /\ CopyOK(n, pc, e, f)
      <4>1. /\ n.row.sent = r.sent /\ n.row.failed = r.failed + 1
            /\ n.row.pending = r.pending - 1 /\ n.row.index = r.index + 1
            /\ n.row.status = r.status /\ n.row.stopOnError = r.stopOnError
            /\ n.stopped = m.stopped /\ n.seen = m.seen
        BY <2>1 DEF Copy, Row
      <4>2. /\ r.failed + 1 \in 0 .. Total /\ r.pending - 1 \in -Total .. Total
            /\ r.index + 1 \in 0 .. Total
        BY <2>1, ItemFacts
      <4>3. n \in Copy
        BY <2>1, <4>2 DEF Copy, Row
      <4> HIDE DEF n
      <4>f. /\ r.sent <= d /\ d <= r.sent + r.failed /\ r.sent \in Nat /\ r.failed \in Nat /\ r.pending \in Int
            /\ r.index \in Nat /\ r.sent + r.failed = r.index
            /\ r.pending + r.sent + r.failed \in {0, Total}
            /\ ~m.stopped /\ ~m.seen
        BY <2>1, ItemFacts
      <4>4. /\ n.row.sent <= e /\ e <= n.row.sent + n.row.failed
            /\ n.row.sent + n.row.failed = n.row.index
            /\ n.row.pending + n.row.sent + n.row.failed \in {0, Total}
            /\ ~n.stopped /\ ~n.seen /\ ~n.row.stopOnError
        <5>1. n.row.sent + n.row.failed = n.row.index  BY <4>1, <4>f
        <5>2. n.row.pending + n.row.sent + n.row.failed = r.pending + r.sent + r.failed
          BY <4>1, <4>f
        <5>3. n.row.sent <= e /\ e <= n.row.sent + n.row.failed
          BY <2>1, <2>e, <4>1, <4>f
        <5> QED  BY <2>4, <4>1, <4>f, <5>1, <5>2, <5>3
      <4>5. n.row.status # "completed"
        BY <2>1, <4>1 DEF CopyOK
      <4>6. QED
        BY <3>1, <4>3, <4>4, <4>5 DEF CopyOK
    <3>3. mem' = [mem EXCEPT ![b] = n] /\ Go(b, pc)
      BY <1>7, <2>2, <2>4 DEF ItemFails
    <3> HIDE DEF n, pc
    <3>4. QED
      BY <1>i, <2>e, <2>f, <3>1, <3>2, <3>3 DEF Using, Holding, Alive, PCs
  <2>5. QED
    BY <2>3, <2>4
<1>8. CASE Reread(b)
  <2> DEFINE n == [m EXCEPT !.seen = row[b].status = "cancelled"]
  <2>1. m \in Copy /\ CopyOK(m, "reread", d, f)
    BY <1>8, <1>a DEF Reread
  <2>2. /\ n \in Copy /\ n.row = r /\ n.stopped = m.stopped
        /\ n.seen = (row[b].status = "cancelled")
    BY <2>1 DEF Copy
  <2>3. /\ row[b].status = "cancelled" => CopyOK(n, "finish", d, f)
        /\ row[b].status # "cancelled" => CopyOK(n, "save", d, f)
    <3> HIDE DEF n
    <3>1. QED
      BY <2>1, <2>2 DEF CopyOK
  <2>4. QED
    BY <1>8, <1>a, <1>c, <2>2, <2>3 DEF Reread
<1>9. CASE SaveProgress(b)
  <2>1. m \in Copy /\ CopyOK(m, "head", d, f) /\ RowOK(m.row, "head", d)
    BY <1>9, <1>a DEF SaveProgress, CopyOK, RowOK
  <2>2. /\ mem' = [mem EXCEPT ![b] = m] /\ flag' = [flag EXCEPT ![b] = f]
        /\ SaveThen(b, m.row, "head") /\ UNCHANGED <<cancel, delivered>>
    BY <1>9, <1>a DEF SaveProgress
  <2>3. worker[b] \in Using /\ inFlight' = inFlight + 1 - Inc(worker[b])
    BY <1>9, <1>a DEF SaveProgress, Inc, InTry
  <2>4. QED
    BY <1>0, <1>a, <2>1, <2>2, <2>3, WorkerSaves
<1>10. CASE LastRead(b)
  <2> DEFINE n == [m EXCEPT !.seen = row[b].status = "cancelled"]
  <2>1. m \in Copy /\ CopyOK(m, "last", d, f)
    BY <1>10, <1>a DEF LastRead
  <2>2. n \in Copy /\ CopyOK(n, "finish", d, f)
    <3>1. n \in Copy /\ n.row = r /\ n.stopped = m.stopped
      BY <2>1 DEF Copy
    <3>2. ~m.stopped => m.seen \/ r.index = Total \/ f # TRUE
      BY <2>1 DEF CopyOK
    <3> HIDE DEF n
    <3>3. QED
      BY <2>1, <3>1, <3>2 DEF CopyOK
  <2>3. QED
    BY <1>10, <1>a, <1>c, <2>2 DEF LastRead
<1>11. CASE Finish(b)
  <2> DEFINE gone == m.seen \/ f # TRUE
             end == ResolveFinalBatchStatus(gone, m.stopped, r)
             q == [IF gone THEN Cancelled(r) ELSE r EXCEPT !.status = end]
             n == [m EXCEPT !.row = q]
  <2>1. m \in Copy /\ r \in Row /\ CopyOK(m, "finish", d, f)
    BY <1>11, <1>a DEF Finish, Copy
  <2>2. end \in Status
    BY DEF ResolveFinalBatchStatus, Status
  <2>3. q \in Row /\ q.status = end
    <3>1. CASE gone
      <4>1. Cancelled(r) \in Row
        BY <2>1, CancelledRow
      <4>2. q = [Cancelled(r) EXCEPT !.status = end]
        BY <3>1
      <4>3. QED
        BY <2>2, <4>1, <4>2 DEF Row
    <3>2. CASE ~gone
      <4>1. q = [r EXCEPT !.status = end]
        BY <3>2
      <4>2. QED
        BY <2>1, <2>2, <4>1 DEF Row
    <3>3. QED
      BY <3>1, <3>2
  <2>4. RowOK(q, "closing", d)
    <3>1. q.status = end
      BY <2>3
    <3>2. CASE gone
      <4>1. end = "cancelled"
        BY <3>2 DEF ResolveFinalBatchStatus
      <4>2. QED
        BY <3>1, <4>1 DEF RowOK
    <3>3. CASE ~gone
      <4>1. q.sent = r.sent /\ q.failed = r.failed /\ q.stopOnError = r.stopOnError
        BY <2>1, <3>3 DEF Row
      <4>2. end = "completed" => ~m.stopped
        BY <3>3 DEF ResolveFinalBatchStatus
      <4>3. QED
        BY <2>1, <3>1, <3>3, <4>1, <4>2 DEF RowOK, CopyOK
    <3>4. QED
      BY <3>2, <3>3
  <2>5. n \in Copy /\ n.row = q
    BY <2>1, <2>3 DEF Copy
  <2>6. /\ mem' = [mem EXCEPT ![b] = n] /\ flag' = [flag EXCEPT ![b] = f]
        /\ SaveThen(b, q, "closing") /\ UNCHANGED <<cancel, delivered>>
    BY <1>11, <1>a DEF Finish
  <2>7. worker[b] \in Using /\ inFlight' = inFlight + 1 - Inc(worker[b])
    BY <1>11, <1>a DEF Finish, Inc, InTry
  <2> HIDE DEF n, q
  <2>8. QED
    BY <1>0, <1>a, <2>4, <2>5, <2>6, <2>7, WorkerSaves
<1>12. CASE Close(b)
  <2> DEFINE pc == IF worker[b] = "closing" THEN "done" ELSE "rejected"
  <2>1. RowOK(row[b], pc, d)
    BY <1>12, <1>a DEF Close, RowOK
  <2>2. inFlight' = inFlight + Inc(pc) - Inc(worker[b])
    BY <1>12, <1>a DEF Close, Inc, InTry
  <2>3. /\ row' = [row EXCEPT ![b] = row[b]] /\ Go(b, pc) /\ mem' = [mem EXCEPT ![b] = None]
        /\ flag' = [flag EXCEPT ![b] = None] /\ delivered' = [delivered EXCEPT ![b] = d]
        /\ UNCHANGED cancel
    BY <1>12, <1>a DEF Close
  <2>4. QED
    BY <1>0, <1>a, <2>1, <2>2, <2>3, WorkerMoves
<1>13. QED
  BY <1>1, <1>2, <1>3, <1>4, <1>5, <1>6, <1>7, <1>8, <1>9, <1>10, <1>11, <1>12
  DEF WorkerStep

-----------------------------------------------------------------------------
(* The other actors *)

\* The shared state of a batch that no action but its own touches.
Same(x) ==
  /\ row'[x] = row[x] /\ worker'[x] = worker[x] /\ mem'[x] = mem[x]
  /\ flag'[x] = flag[x] /\ delivered'[x] = delivered[x]

\* A batch is none of another one's business.
LEMMA OtherBatch ==
  ASSUME IInv, NEW x \in Batches, Same(x)
  PROVE  BatchInv(x)'
BY DEF IInv, BatchInv, Same

\* A batch is created where there is none.
LEMMA CreateInv ==
  ASSUME IInv, NEW b \in Batches, NEW stop \in BOOLEAN, CreateBatch(b, stop)
  PROVE  IInv'
<1> DEFINE n == [status |-> "pending", sent |-> 0, failed |-> 0, pending |-> Total,
                 cancelled |-> 0, index |-> 0, stopOnError |-> stop]
<1>1. /\ n \in Row /\ Fresh(n) /\ n.status = "pending" /\ n # None
  <2>1. Total \in Nat
    BY BatchAssumption
  <2>2. 0 \in 0 .. Total /\ 0 \in -Total .. Total /\ Total \in -Total .. Total
    BY <2>1
  <2>3. n \in Row
    BY <2>2 DEF Row, Status
  <2>4. Fresh(n)
    BY DEF Fresh
  <2>5. QED
    BY <2>3, <2>4, BatchAssumption
<1>2. /\ worker[b] = "none" /\ row[b] = None /\ row' = [row EXCEPT ![b] = n]
      /\ Go(b, "created") /\ UNCHANGED <<mem, flag, inFlight, cancel, up, crashes, delivered, acked>>
  BY DEF CreateBatch
<1> HIDE DEF n
<1>3. InFlightExact' /\ inFlight' \in 0 .. Cardinality(Batches)
  <2>1. worker \in [Batches -> PCs] /\ InFlightExact /\ inFlight \in Nat
    <3>1. Cardinality(Batches) \in Nat
      BY BatchAssumption, FS_CardinalityType
    <3>2. QED
      BY <3>1 DEF IInv, TypeOK
  <2>2. "created" \in PCs /\ "created" \notin InTry /\ worker[b] \notin InTry
    BY <1>2 DEF PCs, InTry
  <2>3. inFlight' = inFlight + (IF "created" \in InTry THEN 1 ELSE 0)
                             - (IF worker[b] \in InTry THEN 1 ELSE 0)
    BY <1>2, <2>1, <2>2
  <2>4. QED
    BY <1>2, <2>1, <2>2, <2>3, CountMoves
<1>4. TypeOK'
  BY <1>1, <1>2, <1>3 DEF IInv, TypeOK, Go, PCs
<1>5. ASSUME NEW x \in Batches
      PROVE  BatchInv(x)'
  <2>1. CASE x = b
    <3>1. row'[b] = n /\ worker'[b] = "created" /\ delivered'[b] = delivered[b]
      BY <1>2 DEF IInv, TypeOK, Go
    <3>2. delivered[b] = 0
      BY <1>2 DEF IInv, BatchInv
    <3>3. QED
      BY <1>1, <2>1, <3>1, <3>2 DEF BatchInv, RowOK, Holding, Using, Alive, PCs
  <2>2. CASE x # b
    <3>1. Same(x)
      BY <1>2, <2>2 DEF IInv, TypeOK, Go, Same
    <3>2. QED
      BY <3>1, OtherBatch
  <2>3. QED
    BY <2>1, <2>2
<1>6. ASSUME NEW c \in Cancels
      PROVE  CancelInv(c)'
  <2>1. CASE cancel[c] = None
    BY <1>2, <2>1 DEF CancelInv
  <2>2. CASE cancel[c] # None
    <3>1. cancel[c].b \in Batches /\ row[cancel[c].b] # None
      BY <2>2 DEF IInv, TypeOK, CancelInv
    <3>2. cancel[c].b # b
      BY <1>2, <3>1
    <3>3. QED
      BY <1>2, <3>1, <3>2 DEF IInv, TypeOK, CancelInv, Go
  <2>3. QED
    BY <2>1, <2>2
<1>7. QED
  BY <1>3, <1>4, <1>5, <1>6 DEF IInv

\* A cancel reads a row.
LEMMA CancelReadInv ==
  ASSUME IInv, NEW c \in Cancels, NEW b \in Batches, CancelRead(c, b)
  PROVE  IInv'
<1> DEFINE n == [b |-> b, copy |-> row[b], lowered |-> FALSE]
<1>1. /\ row[b] # None /\ cancel' = [cancel EXCEPT ![c] = n]
      /\ UNCHANGED <<row, worker, mem, flag, inFlight, up, crashes, delivered, acked>>
  BY DEF CancelRead
<1>2. n \in [b : Batches, copy : Row, lowered : BOOLEAN] /\ n.b = b /\ n.copy = row[b]
  BY <1>1 DEF IInv, TypeOK
<1> HIDE DEF n
<1>3. TypeOK'
  BY <1>1, <1>2 DEF IInv, TypeOK
<1>4. InFlightExact'
  BY <1>1 DEF IInv, InFlightExact
<1>5. \A x \in Batches : BatchInv(x)'
  BY <1>1, OtherBatch DEF Same
<1>6. ASSUME NEW x \in Cancels
      PROVE  CancelInv(x)'
  <2>1. CASE x = c
    <3>1. cancel'[c] = n
      BY <1>1 DEF IInv, TypeOK
    <3>2. worker[b] = "created" => Fresh(row[b])
      BY DEF IInv, BatchInv
    <3>3. QED
      BY <1>1, <1>2, <2>1, <3>1, <3>2 DEF CancelInv
  <2>2. CASE x # c
    BY <1>1, <2>2 DEF IInv, TypeOK, CancelInv
  <2>3. QED
    BY <2>1, <2>2
<1>7. QED
  BY <1>3, <1>4, <1>5, <1>6 DEF IInv

\* A cancel lowers the flag: a worker that holds a copy only leaves its loop by it.
LEMMA CancelLowerInv ==
  ASSUME IInv, NEW c \in Cancels, CancelLower(c)
  PROVE  IInv'
<1> DEFINE b == cancel[c].b
           n == [cancel[c] EXCEPT !.lowered = TRUE]
<1>1. /\ cancel[c] # None /\ cancel[c] \in [b : Batches, copy : Row, lowered : BOOLEAN]
      /\ b \in Batches
  BY DEF CancelLower, IInv, TypeOK
<1>2. /\ n \in [b : Batches, copy : Row, lowered : BOOLEAN]
      /\ n.b = b /\ n.copy = cancel[c].copy
  BY <1>1
<1>3. /\ flag' = [flag EXCEPT ![b] = FALSE] /\ cancel' = [cancel EXCEPT ![c] = n]
      /\ UNCHANGED <<row, worker, mem, inFlight, up, crashes, delivered, acked>>
  BY DEF CancelLower
<1> HIDE DEF b, n
<1>4. TypeOK'
  BY <1>1, <1>2, <1>3 DEF IInv, TypeOK
<1>5. InFlightExact'
  BY <1>3 DEF IInv, InFlightExact
<1>6. ASSUME NEW x \in Batches
      PROVE  BatchInv(x)'
  <2>1. CASE x = b
    <3>1. BatchInv(b)
      BY <1>1 DEF IInv
    <3>2. /\ worker'[b] = worker[b] /\ mem'[b] = mem[b] /\ delivered'[b] = delivered[b]
          /\ row'[b] = row[b] /\ flag'[b] = FALSE
      BY <1>1, <1>3 DEF IInv, TypeOK
    <3>3. worker[b] \in Using => CopyOK(mem[b], worker[b], delivered[b], FALSE)
      BY <3>1 DEF BatchInv, CopyOK
    <3>4. QED
      BY <2>1, <3>1, <3>2, <3>3 DEF BatchInv
  <2>2. CASE x # b
    <3>1. Same(x)
      BY <1>3, <2>2 DEF IInv, TypeOK, Same
    <3>2. QED
      BY <3>1, OtherBatch
  <2>3. QED
    BY <2>1, <2>2
<1>7. ASSUME NEW x \in Cancels
      PROVE  CancelInv(x)'
  <2>1. CancelInv(x) /\ CancelInv(c)
    BY DEF IInv
  <2>2. CASE x = c
    <3>1. cancel'[c] = n
      BY <1>3 DEF IInv, TypeOK
    <3>2. QED
      BY <1>1, <1>2, <1>3, <2>1, <2>2, <3>1 DEF CancelInv, b
  <2>3. CASE x # c
    BY <1>3, <2>1, <2>3 DEF IInv, TypeOK, CancelInv
  <2>4. QED
    BY <2>2, <2>3
<1>8. QED
  BY <1>4, <1>5, <1>6, <1>7 DEF IInv

\* A cancel saves its copy, or is rejected: it only makes the
\* row CANCELLED, of which COMPLETED asks nothing.
LEMMA CancelSaveInv ==
  ASSUME IInv, NEW c \in Cancels, CancelSave(c)
  PROVE  IInv'
<1> DEFINE b == cancel[c].b
           n == Cancelled(cancel[c].copy)
<1>1. /\ cancel[c] # None /\ b \in Batches /\ cancel[c].copy \in Row /\ row[b] # None
      /\ worker[b] = "created" => Fresh(cancel[c].copy)
  BY DEF CancelSave, IInv, TypeOK, CancelInv
<1>2. n \in Row /\ n.status = "cancelled" /\ n # None
  BY <1>1, CancelledRow, BatchAssumption
<1>3. worker[b] = "created" => Fresh(n)
  <2>1. SUFFICES ASSUME worker[b] = "created"
                 PROVE  Fresh(n)
    OBVIOUS
  <2>2. Fresh(cancel[c].copy)
    BY <1>1, <2>1
  <2>3. /\ n.sent = cancel[c].copy.sent /\ n.failed = cancel[c].copy.failed
        /\ n.index = cancel[c].copy.index /\ n.pending = 0
    BY <1>1 DEF Cancelled, Row
  <2>4. QED
    BY <2>2, <2>3 DEF Fresh
<1>4. /\ \/ row' = [row EXCEPT ![b] = n]
            /\ acked' = [acked EXCEPT ![b] = IF @ = None THEN delivered[b] ELSE @]
         \/ UNCHANGED <<row, acked>>
      /\ cancel' = [cancel EXCEPT ![c] = None]
      /\ UNCHANGED <<worker, mem, flag, inFlight, up, crashes, delivered>>
  BY DEF CancelSave
<1> HIDE DEF b, n
<1>5. row' = [row EXCEPT ![b] = n] \/ row' = row
  BY <1>4
<1>6. /\ row' \in [Batches -> Row \cup {None}]
      /\ \A x \in Batches : row'[x] = None <=> row[x] = None
      /\ row'[b] \in {n, row[b]} /\ \A x \in Batches \ {b} : row'[x] = row[x]
  BY <1>1, <1>2, <1>5 DEF IInv, TypeOK
<1>7. acked' \in [Batches -> 0 .. Total \cup {None}]
  <2>1. acked \in [Batches -> 0 .. Total \cup {None}] /\ delivered \in [Batches -> 0 .. Total]
    BY DEF IInv, TypeOK
  <2>2. QED
    BY <1>1, <1>4, <2>1
<1>8. TypeOK'
  BY <1>1, <1>4, <1>6, <1>7 DEF IInv, TypeOK
<1>9. InFlightExact'
  BY <1>4 DEF IInv, InFlightExact
<1>10. ASSUME NEW x \in Batches
       PROVE  BatchInv(x)'
  <2>1. CASE x = b
    <3>1. BatchInv(b)
      BY <1>1 DEF IInv
    <3>2. /\ worker'[b] = worker[b] /\ mem'[b] = mem[b] /\ delivered'[b] = delivered[b]
          /\ flag'[b] = flag[b]
      BY <1>1, <1>4 DEF IInv, TypeOK
    <3>3. row'[b] # None => RowOK(row'[b], worker[b], delivered[b])
      BY <1>2, <1>6, <3>1 DEF BatchInv, RowOK
    <3>4. worker[b] = "created" => Fresh(row'[b])
      BY <1>3, <1>6, <3>1 DEF BatchInv
    <3>5. row'[b] = None <=> worker[b] = "none"
      BY <1>1, <1>6, <3>1 DEF BatchInv
    <3>6. QED
      BY <2>1, <3>1, <3>2, <3>3, <3>4, <3>5 DEF BatchInv
  <2>2. CASE x # b
    <3>1. Same(x)
      BY <1>4, <1>6, <2>2 DEF IInv, TypeOK, Same
    <3>2. QED
      BY <3>1, OtherBatch
  <2>3. QED
    BY <2>1, <2>2
<1>11. ASSUME NEW x \in Cancels
       PROVE  CancelInv(x)'
  <2>1. CASE x = c
    BY <1>4, <2>1 DEF IInv, TypeOK, CancelInv
  <2>2. CASE x # c
    <3>1. cancel'[x] = cancel[x] /\ UNCHANGED worker
      BY <1>4, <2>2 DEF IInv, TypeOK
    <3>2. cancel[x] # None => cancel[x].b \in Batches
      BY DEF IInv, TypeOK
    <3>3. CancelInv(x)
      BY DEF IInv
    <3>4. QED
      BY <1>6, <3>1, <3>2, <3>3 DEF CancelInv
  <2>3. QED
    BY <2>1, <2>2
<1>12. QED
  BY <1>8, <1>9, <1>10, <1>11 DEF IInv

\* A crash ends every worker and every cancel; the rows stay as they are.
LEMMA CrashInv ==
  ASSUME IInv, Crash
  PROVE  IInv'
<1>1. /\ worker' = [b \in Batches |-> IF worker[b] = "none" THEN "none" ELSE "done"]
      /\ mem' = [b \in Batches |-> None] /\ flag' = [b \in Batches |-> None]
      /\ inFlight' = 0 /\ cancel' = [c \in Cancels |-> None]
      /\ UNCHANGED <<row, delivered, acked>>
  BY DEF Crash
<1>2. IsFiniteSet(Batches) /\ Cardinality(Batches) \in Nat
  BY BatchAssumption, FS_CardinalityType
<1>3. up' \in BOOLEAN /\ crashes' \in 0 .. MaxCrashes
  <2>1. crashes \in 0 .. MaxCrashes /\ MaxCrashes \in Nat
    BY BatchAssumption DEF IInv, TypeOK
  <2>2. up' = FALSE /\ crashes < MaxCrashes /\ crashes' = crashes + 1
    BY DEF Crash
  <2>3. crashes' \in 0 .. MaxCrashes
    BY <2>1, <2>2
  <2>4. QED
    BY <2>2, <2>3
<1>4. TypeOK'
  BY <1>1, <1>2, <1>3 DEF IInv, TypeOK, PCs
<1>5. InFlightExact'
  <2>1. {b \in Batches : worker'[b] \in InTry} = {}
    BY <1>1 DEF InTry, PCs
  <2>2. QED
    BY <1>1, <2>1, FS_EmptySet DEF InFlightExact
<1>6. ASSUME NEW x \in Batches
      PROVE  BatchInv(x)'
  <2>1. BatchInv(x)
    BY DEF IInv
  <2>2. /\ worker'[x] = IF worker[x] = "none" THEN "none" ELSE "done"
        /\ row'[x] = row[x] /\ delivered'[x] = delivered[x]
    BY <1>1
  <2>3. worker'[x] \notin Holding /\ worker'[x] \notin Using /\ worker'[x] # "created"
    BY <2>2 DEF Holding, Using, Alive, PCs
  <2>4. row'[x] # None => RowOK(row'[x], worker'[x], delivered'[x])
    BY <2>1, <2>2 DEF BatchInv, RowOK
  <2>5. /\ row'[x] = None <=> worker'[x] = "none"
        /\ worker'[x] \in {"none", "created"} => delivered'[x] = 0
    BY <2>1, <2>2 DEF BatchInv
  <2>6. QED
    BY <2>3, <2>4, <2>5 DEF BatchInv
<1>7. ASSUME NEW x \in Cancels
      PROVE  CancelInv(x)'
  BY <1>1 DEF CancelInv
<1>8. QED
  BY <1>4, <1>5, <1>6, <1>7 DEF IInv

\* The boot writes FAILED over rows that say PROCESSING, and nothing else.
LEMMA BootInv ==
  ASSUME IInv, Boot
  PROVE  IInv'
<1> DEFINE Swept(r) == [r EXCEPT !.status = "failed"]
<1>1. /\ row' = [b \in Batches |-> IF row[b] # None /\ row[b].status = "processing"
                                       THEN Swept(row[b]) ELSE row[b]]
      /\ up' = TRUE /\ UNCHANGED <<volatile, crashes, delivered, acked>>
  BY DEF Boot
<1>2. \A r \in Row : /\ Swept(r) \in Row /\ Swept(r).status = "failed"
                     /\ Fresh(r) => Fresh(Swept(r))
  BY DEF Row, Status, Fresh
<1> HIDE DEF Swept
<1>3. \A r \in Row : Swept(r) # None
  BY <1>2, BatchAssumption
<1>4. row \in [Batches -> Row \cup {None}]
  BY DEF IInv, TypeOK
<1>5. ASSUME NEW x \in Batches
      PROVE  /\ row'[x] \in Row \cup {None} /\ (row'[x] = None <=> row[x] = None)
             /\ row'[x] = row[x] \/ (row[x] \in Row /\ row'[x] = Swept(row[x]))
  <2>1. CASE row[x] # None /\ row[x].status = "processing"
    <3>1. row[x] \in Row /\ row'[x] = Swept(row[x])
      BY <1>1, <1>4, <2>1
    <3>2. QED
      BY <1>2, <1>3, <2>1, <3>1
  <2>2. CASE ~(row[x] # None /\ row[x].status = "processing")
    BY <1>1, <1>4, <2>2
  <2>3. QED
    BY <2>1, <2>2
<1>6. row' \in [Batches -> Row \cup {None}]
  BY <1>1, <1>5
<1>7. TypeOK' /\ InFlightExact'
  BY <1>1, <1>6 DEF IInv, TypeOK, InFlightExact, volatile
<1>8. ASSUME NEW x \in Batches
      PROVE  BatchInv(x)'
  <2>1. BatchInv(x)
    BY DEF IInv
  <2>2. /\ worker'[x] = worker[x] /\ mem'[x] = mem[x] /\ flag'[x] = flag[x]
        /\ delivered'[x] = delivered[x]
    BY <1>1 DEF volatile
  <2>3. row'[x] # None => RowOK(row'[x], worker[x], delivered[x])
    BY <1>2, <1>5, <2>1 DEF BatchInv, RowOK
  <2>4. worker[x] = "created" => Fresh(row'[x])
    BY <1>2, <1>5, <2>1 DEF BatchInv
  <2>5. QED
    BY <1>5, <2>1, <2>2, <2>3, <2>4 DEF BatchInv
<1>9. ASSUME NEW c \in Cancels
      PROVE  CancelInv(c)'
  <2>1. UNCHANGED <<cancel, worker>> /\ CancelInv(c)
    BY <1>1 DEF volatile, IInv
  <2>2. cancel[c] # None => cancel[c].b \in Batches
    BY DEF IInv, TypeOK
  <2>3. QED
    BY <1>5, <2>1, <2>2 DEF CancelInv
<1>10. QED
  BY <1>7, <1>8, <1>9 DEF IInv

-----------------------------------------------------------------------------
(* The invariant over a behaviour *)

\* The invariant holds when no batch has been created.
LEMMA BulkInit == Init => IInv
<1> SUFFICES ASSUME Init
             PROVE  IInv
  OBVIOUS
<1>1. IsFiniteSet(Batches) /\ Cardinality(Batches) \in Nat /\ Total \in Nat /\ MaxCrashes \in Nat
  BY BatchAssumption, FS_CardinalityType
<1>2. TypeOK
  BY <1>1 DEF Init, TypeOK, PCs
<1>3. InFlightExact
  <2>1. {b \in Batches : worker[b] \in InTry} = {}
    BY DEF Init, InTry, PCs
  <2>2. QED
    BY <2>1, FS_EmptySet DEF Init, InFlightExact
<1>4. \A b \in Batches : BatchInv(b)
  BY DEF Init, BatchInv, Holding, Using, Alive, PCs
<1>5. \A c \in Cancels : CancelInv(c)
  BY DEF Init, CancelInv
<1>6. QED
  BY <1>2, <1>3, <1>4, <1>5 DEF IInv

\* The invariant is preserved by every step.
LEMMA BulkStep == IInv /\ [Next]_vars => IInv'
<1> SUFFICES ASSUME IInv, [Next]_vars
             PROVE  IInv'
  OBVIOUS
<1>1. CASE UNCHANGED vars
  <2>1. TypeOK' /\ InFlightExact'
    BY <1>1 DEF vars, volatile, IInv, TypeOK, InFlightExact
  <2>2. \A b \in Batches : BatchInv(b)'
    BY <1>1, OtherBatch DEF vars, volatile, Same
  <2>3. \A c \in Cancels : CancelInv(c)'
    BY <1>1 DEF vars, volatile, IInv, CancelInv
  <2>4. QED
    BY <2>1, <2>2, <2>3 DEF IInv
<1>2. CASE \E b \in Batches, stop \in BOOLEAN : CreateBatch(b, stop)
  BY <1>2, CreateInv
<1>3. CASE \E b \in Batches : WorkerStep(b)
  BY <1>3, WorkerStepInv
<1>4. CASE \E c \in Cancels, b \in Batches : CancelRead(c, b)
  BY <1>4, CancelReadInv
<1>5. CASE \E c \in Cancels : CancelLower(c) \/ CancelSave(c)
  BY <1>5, CancelLowerInv, CancelSaveInv
<1>6. CASE Crash
  BY <1>6, CrashInv
<1>7. CASE Boot
  BY <1>7, BootInv
<1>8. QED
  BY <1>1, <1>2, <1>3, <1>4, <1>5, <1>6, <1>7 DEF Next

\* The invariant says what the properties ask.
LEMMA BulkSafe == IInv => TypeOK /\ InFlightExact /\ CompletedIsComplete
<1> SUFFICES ASSUME IInv
             PROVE  TypeOK /\ InFlightExact /\ CompletedIsComplete
  OBVIOUS
<1>1. TypeOK /\ InFlightExact
  BY DEF IInv
<1>2. CompletedIsComplete
  BY DEF IInv, BatchInv, RowOK, CompletedIsComplete
<1>3. QED
  BY <1>1, <1>2

-----------------------------------------------------------------------------
(* No batch runs for ever *)

\* A worker that ended in a running process left its row in another status, as
\* does one about to end; a process that is down runs none.
Orphanless(b) ==
  /\ worker[b] = "closing" => row[b].status # "processing"
  /\ worker[b] = "done" /\ up => row[b].status # "processing"
  /\ ~up => worker[b] \in {"none", "done"}

\* A step that leaves row and worker of a batch alone, or only cancels the row.
LEMMA OrphanlessKept ==
  ASSUME NEW b \in Batches, Orphanless(b), worker'[b] = worker[b], up' = up,
         row'[b] = row[b] \/ row'[b].status # "processing"
  PROVE  Orphanless(b)'
BY DEF Orphanless

\* The ends of processBatch() save FAILED or the resolved status first.
LEMMA WorkerOrphanless ==
  ASSUME IInv, \A x \in Batches : Orphanless(x), NEW b \in Batches, WorkerStep(b)
  PROVE  \A x \in Batches : Orphanless(x)'
<1>1. TypeOK /\ Orphanless(b) /\ BatchInv(b) /\ UNCHANGED <<up, crashes>>
  BY DEF IInv, WorkerStep
<1>2. worker[b] \in Alive
  BY DEF WorkerStep, Load, Begin, EngineMissing, EnginePresent, Head, ItemSent, ItemFails, Reread,
         SaveProgress, LastRead, Finish, Close, Alive, PCs
<1>3. up /\ up'
  BY <1>1, <1>2 DEF Orphanless, TypeOK, Alive, PCs
<1>4. \A x \in Batches \ {b} : worker'[x] = worker[x] /\ row'[x] = row[x]
  BY <1>1 DEF TypeOK, WorkerStep, Load, Begin, EngineMissing, EnginePresent, Head, ItemSent, ItemFails,
     Reread, SaveProgress, LastRead, Finish, Close, SaveThen, Go
<1>5. Orphanless(b)'
  <2>1. CASE Load(b) \/ Begin(b) \/ EnginePresent(b) \/ Head(b) \/ ItemSent(b) \/ ItemFails(b)
             \/ Reread(b) \/ SaveProgress(b) \/ LastRead(b)
    <3>1. worker'[b] \notin {"closing", "done"}
      BY <1>1, <2>1 DEF TypeOK, Load, Begin, EnginePresent, Head, ItemSent, ItemFails, Reread,
         SaveProgress, LastRead, SaveThen, Go, AfterItem
    <3>2. QED
      BY <1>3, <3>1 DEF Orphanless
  <2>2. ASSUME NEW r \in Row, r.status # "processing", SaveThen(b, r, "closing")
        PROVE  Orphanless(b)'
    BY <1>1, <1>3, <2>2 DEF TypeOK, Orphanless, SaveThen, Go
  <2>3. CASE EngineMissing(b)
    <3>1. mem[b] \in Copy /\ mem[b].row \in Row
      BY <1>1, <2>3 DEF EngineMissing, BatchInv, Holding, Alive, PCs, Copy
    <3>2. mem'[b].row = [mem[b].row EXCEPT !.status = "failed"]
      BY <1>1, <2>3, <3>1 DEF TypeOK, EngineMissing, Copy
    <3>3. mem'[b].row \in Row /\ mem'[b].row.status = "failed"
      BY <3>1, <3>2 DEF Row, Status
    <3>4. QED
      BY <2>2, <2>3, <3>3 DEF EngineMissing
  <2>4. CASE Finish(b)
    <3>1. mem[b] \in Copy /\ mem[b].row \in Row
      BY <1>1, <2>4 DEF Finish, BatchInv, Holding, Alive, PCs, Copy
    <3> DEFINE gone == mem[b].seen \/ flag[b] # TRUE
               end == ResolveFinalBatchStatus(gone, mem[b].stopped, mem[b].row)
               q == IF gone THEN Cancelled(mem[b].row) ELSE mem[b].row
               r == [q EXCEPT !.status = end]
    <3>2. SaveThen(b, r, "closing")
      BY <2>4 DEF Finish
    <3>3. q \in Row /\ end \in {"cancelled", "failed", "completed"}
      BY <3>1, CancelledRow DEF ResolveFinalBatchStatus
    <3>4. r \in Row /\ r.status = end
      BY <3>3 DEF Row, Status
    <3>5. QED
      BY <2>2, <3>2, <3>3, <3>4
  <2>5. CASE Close(b)
    <3>1. /\ row' = row /\ worker'[b] \in {"done", "rejected"}
          /\ worker'[b] = "done" => worker[b] = "closing"
      BY <1>1, <2>5 DEF TypeOK, Close, Go
    <3>2. QED
      BY <1>1, <1>3, <3>1 DEF Orphanless
  <2>6. QED
    BY <2>1, <2>3, <2>4, <2>5 DEF WorkerStep
<1>6. QED
  BY <1>1, <1>4, <1>5, OrphanlessKept

\* Every step leaves every batch without an orphan, the sweep at boot included.
LEMMA OrphanlessStep ==
  ASSUME IInv, \A x \in Batches : Orphanless(x), [Next]_vars
  PROVE  \A x \in Batches : Orphanless(x)'
<1>1. TypeOK
  BY DEF IInv
<1>2. CASE UNCHANGED vars
  BY <1>2, OrphanlessKept DEF vars, volatile
<1>3. ASSUME NEW b \in Batches, NEW stop \in BOOLEAN, CreateBatch(b, stop)
      PROVE  \A x \in Batches : Orphanless(x)'
  <2>1. /\ up' = up /\ up /\ worker'[b] = "created"
        /\ \A x \in Batches \ {b} : worker'[x] = worker[x] /\ row'[x] = row[x]
    BY <1>1, <1>3 DEF TypeOK, CreateBatch, Go
  <2>2. QED
    BY <2>1, OrphanlessKept DEF Orphanless
<1>4. ASSUME NEW b \in Batches, WorkerStep(b)
      PROVE  \A x \in Batches : Orphanless(x)'
  BY <1>4, WorkerOrphanless
<1>5. ASSUME NEW c \in Cancels, NEW b \in Batches, CancelRead(c, b)
      PROVE  \A x \in Batches : Orphanless(x)'
  BY <1>5, OrphanlessKept DEF CancelRead
<1>6. ASSUME NEW c \in Cancels, CancelSave(c)
      PROVE  \A x \in Batches : Orphanless(x)'
  <2>1. cancel[c] # None /\ cancel[c].b \in Batches /\ cancel[c].copy \in Row
    BY <1>1, <1>6 DEF TypeOK, CancelSave
  <2>2. Cancelled(cancel[c].copy).status = "cancelled"
    BY <2>1, CancelledRow
  <2>3. row' = row \/ row' = [row EXCEPT ![cancel[c].b] = Cancelled(cancel[c].copy)]
    BY <1>6 DEF CancelSave
  <2>4. \A x \in Batches : row'[x] = row[x] \/ row'[x].status # "processing"
    BY <1>1, <2>1, <2>2, <2>3 DEF TypeOK
  <2>5. UNCHANGED <<worker, up>>
    BY <1>6 DEF CancelSave
  <2>6. QED
    BY <2>4, <2>5, OrphanlessKept
<1>l. ASSUME NEW c \in Cancels, CancelLower(c)
      PROVE  \A x \in Batches : Orphanless(x)'
  BY <1>l, OrphanlessKept DEF CancelLower
<1>7. CASE Crash
  <2>1. up' = FALSE /\ \A x \in Batches : worker'[x] \in {"none", "done"}
    BY <1>7 DEF Crash
  <2>2. QED
    BY <2>1 DEF Orphanless
<1>8. CASE Boot
  <2>1. /\ UNCHANGED worker /\ ~up
        /\ row' = [b \in Batches |-> IF row[b] # None /\ row[b].status = "processing"
                                       THEN [row[b] EXCEPT !.status = "failed"] ELSE row[b]]
    BY <1>8 DEF Boot, volatile
  <2>2. ASSUME NEW x \in Batches, worker[x] = "done"
        PROVE  row'[x].status # "processing"
    <3>1. row[x] # None /\ row[x] \in Row
      BY <1>1, <2>2 DEF IInv, BatchInv, TypeOK
    <3>2. CASE row[x].status = "processing"
      BY <2>1, <3>1, <3>2 DEF Row
    <3>3. CASE row[x].status # "processing"
      BY <2>1, <3>3
    <3>4. QED
      BY <3>2, <3>3
  <2>3. QED
    BY <2>1, <2>2, <1>8 DEF Orphanless, Boot
<1>9. QED
  BY <1>2, <1>3, <1>4, <1>5, <1>6, <1>l, <1>7, <1>8 DEF Next

-----------------------------------------------------------------------------
(* Theorems *)

\* The rows, the workers and the counters stay in their ranges: no counter of a
\* row leaves the batch's size, whoever saves which copy when.
THEOREM BulkTypeCorrect == Spec => []TypeOK
<1>1. Spec => []IInv
  BY BulkInit, BulkStep, PTL DEF Spec
<1>2. QED
  BY <1>1, BulkSafe, PTL

\* inFlightBatches is the number of workers inside processBatch(): the finally
\* runs on every exit, so the admission cap is never worn down by a leak.
THEOREM BulkInFlightExact == Spec => []InFlightExact
<1>1. Spec => []IInv
  BY BulkInit, BulkStep, PTL DEF Spec
<1>2. QED
  BY <1>1, BulkSafe, PTL

\* COMPLETED is never reported of a batch that skipped a message, counts as sent one
\* WhatsApp did not take, or leaves out one it did take, also where the send was
\* rejected after all: for any number of cancels, crashes and lost saves.
THEOREM CompletedMeansComplete == Spec => []CompletedIsComplete
<1>1. Spec => []IInv
  BY BulkInit, BulkStep, PTL DEF Spec
<1>2. QED
  BY <1>1, BulkSafe, PTL

\* A row that says PROCESSING has a worker that will write it again, or one whose
\* save was rejected: neither a cancel nor a restart leaves a batch running for
\* ever with nobody to end it.
THEOREM NobodyOrphaned == Spec => []NoOrphan
<1>1. Init => \A b \in Batches : Orphanless(b)
  BY DEF Init, Orphanless
<1>2. IInv /\ (\A b \in Batches : Orphanless(b)) /\ [Next]_vars => (\A b \in Batches : Orphanless(b))'
  BY OrphanlessStep
<1>3. IInv /\ (\A b \in Batches : Orphanless(b)) => NoOrphan
  BY DEF IInv, TypeOK, BatchInv, NoOrphan, Orphanless, Alive, PCs
<1>4. QED
  BY <1>1, <1>2, <1>3, BulkInit, BulkStep, PTL DEF Spec

=============================================================================
