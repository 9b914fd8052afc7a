------------------------- MODULE MessageStore_proofs -------------------------
(***************************************************************************)
(* Theorems about the messages of one session, for any sends, inbound      *)
(* messages, people, firings, reactions and refused writes.  Each id has   *)
(* two places in the table, the pipeline's row and the callbacks' row; the *)
(* invariant of an id says what each writer may count on to find there.    *)
(* What happens to one id leaves every other alone (Still).                *)
(***************************************************************************)
EXTENDS MessageStore, FiniteSetTheorems, SequenceTheorems, TLAPS

-----------------------------------------------------------------------------
(* The inductive invariant *)

Own(n) == <<"own", n>>
Event(i) == <<"event", i>>

\* The pipeline's row carries WhatsApp's id.
Named(n) == Stored(Own(n)) /\ rows[Own(n)].id = <<n>>

Emoji == {"none", "like"}
Statuses == {"pending", "sent"} \cup Acks
Writers == {"send", "created", "received", "history"}
Reasons == {"id", "threw", "write", "stopped", "retired", "history", "early"}
Points == {"idle", "finding", "inserting", "sending", "named", "unnamed", "twin", "failing", "done"}
Reactions == [Senders -> Emoji]

RowState == [by : Writers, id : {<<>>} \cup {<<i>> : i \in Ids}, status : Statuses,
             blank : BOOLEAN, reactions : Reactions]
Link == [from : Senders, emoji : Emoji, read : {<<>>} \cup {<<row>> : row \in RowState}]

TypeInv ==
  /\ rows \in [Slots -> RowState \cup {NoRow}]
  /\ send \in [Sends -> Points] /\ engineHas \subseteq Sends
  /\ creating \in [Sends -> {"none", "hook", "done"}]
  /\ fired \in [Inbound -> Nat] /\ hooks \in [Inbound -> Nat]
  /\ ack \in [Sends -> [Acks -> {"none", "waiting", "kept", "lost"}]]
  /\ chain \in [Ids -> Seq(Link)]
  /\ live \in BOOLEAN /\ gone \in BOOLEAN /\ (gone => ~live)
  /\ faults \in 0 .. MaxFaults
  /\ dispatched \in [Ids -> Nat]
  /\ latest \in [Ids -> Reactions]
  /\ excused \in [Ids -> SUBSET Reasons]

\* The callbacks' row.
EventOK(i) ==
  Stored(Event(i)) =>
    /\ rows[Event(i)].id = <<i>>
    /\ rows[Event(i)].by \in {"created", "received", "history"}
    /\ gone => rows[Event(i)].by = "history"

\* The pipeline's row: it is named by the last write, and only while there is no other; until
\* then no reaction finds it.
OwnOK(n) ==
  /\ Stored(Own(n)) => rows[Own(n)].by = "send" /\ rows[Own(n)].id \in {<<>>, <<n>>}
  /\ Stored(Own(n)) /\ ~Named(n) => rows[Own(n)].reactions = NoReactions
  /\ Named(n) => send[n] = "done" /\ ~Stored(Event(n))

\* Where the send is, what it has left behind, and what excuses it.
Waits == {"sending", "named", "unnamed", "twin"}

SendOK(n) ==
  /\ send[n] \in {"idle", "finding", "inserting"} => ~Stored(Own(n)) /\ n \notin engineHas
  /\ live /\ send[n] \in Waits => Stored(Own(n))
  /\ live /\ send[n] = "twin" => Stored(Event(n))
  /\ send[n] = "unnamed" => "id" \in excused[n]
  /\ send[n] = "failing" /\ n \in engineHas => "threw" \in excused[n]
  /\ (send[n] = "done" /\ n \in engineHas /\ live /\ excused[n] \cap {"id", "threw", "write"} = {})
       => Named(n) \/ (~Stored(Own(n)) /\ Stored(Event(n)))

\* An acknowledgement that was kept shows in the row, whoever wrote it.
KeptOK(n) ==
  live => \A a \in Acks : ack[n][a] = "kept" =>
            \/ Named(n) /\ Covers(rows[Own(n)].status, a)
            \/ Stored(Event(n)) /\ Covers(rows[Event(n)].status, a)

\* A message that was dispatched is in the table unless its insert was refused; one
\* that is in the table was dispatched or imported.
DispatchOK(i) ==
  /\ dispatched[i] > 1 => "write" \in excused[i]
  /\ live /\ dispatched[i] > 0 /\ "write" \notin excused[i] => Stored(Event(i))
  /\ Stored(Event(i)) => dispatched[i] > 0 \/ "history" \in excused[i]
  /\ (fired[i] > 0 /\ hooks[i] = 0 /\ dispatched[i] = 0)
       => excused[i] \cap {"stopped", "retired", "history"} # {}

\* The message has a row under its id, and what that shows of the reactions.
Here(i) == Stored(Event(i)) \/ (i \in Sends /\ Named(i))
Shown(i) == IF Stored(Event(i)) THEN rows[Event(i)].reactions
            ELSE IF i \in Sends /\ Named(i) THEN rows[Own(i)].reactions
            ELSE NoReactions

\* Nobody else's reaction is waiting behind the k-th.
LastOf(i, k) == \A j \in DOMAIN chain[i] : j > k => chain[i][j].from # chain[i][k].from

\* The row, with the reactions that wait applied in their order, shows the latest ones;
\* only the first of them may have been read, and what it read has not changed since.
ReactOK(i) ==
  (live /\ excused[i] \cap {"early", "write"} = {}) =>
    /\ \A p \in Senders :
         (\A k \in DOMAIN chain[i] : chain[i][k].from # p) => Shown(i)[p] = latest[i][p]
    /\ \A k \in DOMAIN chain[i] : LastOf(i, k) => chain[i][k].emoji = latest[i][chain[i][k].from]
    /\ \A k \in DOMAIN chain[i] :
         chain[i][k].read # <<>> => k = 1 /\ Here(i) /\ chain[i][k].read[1].reactions = Shown(i)

IdOK(i) ==
  /\ EventOK(i) /\ ReactOK(i)
  /\ i \in Sends => OwnOK(i) /\ SendOK(i) /\ KeptOK(i)
  /\ i \in Inbound => DispatchOK(i)

IInv == TypeInv /\ \A i \in Ids : IdOK(i)

-----------------------------------------------------------------------------
(* The table *)

LEMMA Apart ==
  /\ \A n \in Sends : n \notin Inbound
  /\ Sends \subseteq Ids /\ Inbound \subseteq Ids
  /\ \A i \in Ids : i \in Sends \/ i \in Inbound
  /\ MaxFaults \in Nat
BY StoreAssumption DEF Ids

\* Every slot is one of the two places of an id.
LEMMA SlotsAre ==
  /\ \A n \in Sends : Own(n) \in Slots
  /\ \A i \in Ids : Event(i) \in Slots
  /\ \A k \in Slots : (\E n \in Sends : k = Own(n)) \/ (\E i \in Ids : k = Event(i))
  /\ \A n, m : Own(n) = Own(m) => n = m
  /\ \A i, j : Event(i) = Event(j) => i = j
  /\ \A n, i : Own(n) # Event(i)
BY DEF Slots, Own, Event

LEMMA NoRowIsNone ==
  NoRow \notin RowState
<1> SUFFICES ASSUME NoRow \in RowState  PROVE FALSE
  OBVIOUS
<1>1. NoRow.by \in Writers  BY DEF RowState
<1>2. NoRow.by = "nobody"  BY DEF NoRow
<1> QED  BY <1>1, <1>2 DEF Writers

LEMMA RowType ==
  ASSUME NEW by \in Writers, NEW id \in {<<>>} \cup {<<i>> : i \in Ids}, NEW status \in Statuses
  PROVE  /\ Row(by, id, status) \in RowState /\ Row(by, id, status) # NoRow
         /\ Row(by, id, status).by = by /\ Row(by, id, status).id = id
         /\ Row(by, id, status).status = status /\ Row(by, id, status).reactions = NoReactions
<1>1. NoReactions \in Reactions  BY DEF NoReactions, Reactions, Emoji
<1>2. Row(by, id, status) \in RowState  BY <1>1 DEF Row, RowState
<1> QED  BY <1>2, NoRowIsNone DEF Row

LEMMA StoredType ==
  ASSUME TypeInv, NEW k \in Slots, Stored(k)
  PROVE  rows[k] \in RowState
BY DEF TypeInv, Stored

\* The pipeline's row of a send is written, nothing else.
LEMMA OwnWritten ==
  ASSUME TypeInv, NEW n \in Sends, NEW v \in RowState \cup {NoRow},
         rows' = [rows EXCEPT ![<<"own", n>>] = v]
  PROVE  /\ rows' \in [Slots -> RowState \cup {NoRow}]
         /\ rows'[Own(n)] = v
         /\ \A m \in Sends : m # n => rows'[Own(m)] = rows[Own(m)]
         /\ \A i \in Ids : rows'[Event(i)] = rows[Event(i)]
<1>1. rows \in [Slots -> RowState \cup {NoRow}]  BY DEF TypeInv
<1>2. rows' = [rows EXCEPT ![Own(n)] = v]  BY DEF Own
<1>3. \A k \in Slots : rows'[k] = IF k = Own(n) THEN v ELSE rows[k]  BY <1>1, <1>2
<1>4. rows' \in [Slots -> RowState \cup {NoRow}]  BY <1>1, <1>2
<1> QED  BY <1>3, <1>4, SlotsAre

\* A callback writes its row of an id, nothing else.
LEMMA EventWritten ==
  ASSUME TypeInv, NEW i \in Ids, NEW by \in Writers, Insert(i, by)
  PROVE  /\ rows' \in [Slots -> RowState \cup {NoRow}]
         /\ Stored(Event(i))' /\ rows'[Event(i)].by = by /\ rows'[Event(i)].id = <<i>>
         /\ rows'[Event(i)].reactions = NoReactions
         /\ \A m \in Sends : rows'[Own(m)] = rows[Own(m)]
         /\ \A j \in Ids : j # i => rows'[Event(j)] = rows[Event(j)]
<1>1. rows \in [Slots -> RowState \cup {NoRow}]  BY DEF TypeInv
<1> DEFINE v == Row(by, <<i>>, "sent")
<1>2. rows' = [rows EXCEPT ![Event(i)] = v]  BY DEF Insert, Event
<1>3. /\ v \in RowState /\ v # NoRow /\ v.by = by /\ v.id = <<i>> /\ v.reactions = NoReactions
  BY RowType DEF Statuses
<1> HIDE DEF v
<1>4. \A k \in Slots : rows'[k] = IF k = Event(i) THEN v ELSE rows[k]  BY <1>1, <1>2
<1>5. rows' \in [Slots -> RowState \cup {NoRow}]  BY <1>1, <1>2, <1>3
<1>6. rows'[Event(i)] = v  BY <1>4, SlotsAre
<1> QED  BY <1>3, <1>4, <1>5, <1>6, SlotsAre DEF Stored

\* Where the rows of an id can stand.
LEMMA HoldersAre ==
  ASSUME IInv, NEW i \in Ids
  PROVE  /\ \A k : k \in Holders(i) <=> \/ k = Event(i) /\ Stored(Event(i))
                                        \/ i \in Sends /\ k = Own(i) /\ Named(i)
         /\ Taken(i) <=> Stored(Event(i)) \/ (i \in Sends /\ Named(i))
<1>1. ASSUME NEW j \in Ids, Stored(Event(j))  PROVE rows[Event(j)].id = <<j>>
  BY <1>1 DEF IInv, IdOK, EventOK
<1>2. ASSUME NEW n \in Sends, Stored(Own(n))  PROVE rows[Own(n)].id \in {<<>>, <<n>>}
  BY <1>2, Apart DEF IInv, IdOK, OwnOK
<1>3. \A x, y : <<x>> = <<y>> => x = y  OBVIOUS
<1>4. \A x : <<x>> # <<>>  OBVIOUS
<1>5. ASSUME NEW k \in Holders(i)
      PROVE  \/ k = Event(i) /\ Stored(Event(i))
             \/ i \in Sends /\ k = Own(i) /\ Named(i)
  <2>1. k \in Slots /\ Stored(k) /\ rows[k].id = <<i>>  BY <1>5 DEF Holders
  <2>2. ASSUME NEW n \in Sends, k = Own(n)  PROVE i \in Sends /\ k = Own(i) /\ Named(i)
    <3>1. rows[Own(n)].id \in {<<>>, <<n>>} /\ rows[Own(n)].id = <<i>>  BY <1>2, <2>1, <2>2
    <3>2. n = i  BY <1>3, <1>4, <3>1
    <3> QED  BY <2>1, <2>2, <3>2 DEF Named
  <2>3. ASSUME NEW j \in Ids, k = Event(j)  PROVE k = Event(i) /\ Stored(Event(i))
    <3>1. <<j>> = <<i>>  BY <1>1, <2>1, <2>3
    <3>2. j = i  BY <1>3, <3>1
    <3> QED  BY <2>1, <2>3, <3>2
  <2> QED  BY <2>1, <2>2, <2>3, SlotsAre
<1>6. Stored(Event(i)) => Event(i) \in Holders(i)  BY <1>1, SlotsAre DEF Holders
<1>7. i \in Sends /\ Named(i) => Own(i) \in Holders(i)  BY SlotsAre DEF Holders, Named
<1> QED  BY <1>5, <1>6, <1>7 DEF Taken

-----------------------------------------------------------------------------
(* What happens to one id leaves the others alone *)

Still(j) ==
  /\ live' => live
  /\ gone' = gone
  /\ rows'[Event(j)] = rows[Event(j)] /\ excused'[j] = excused[j] /\ dispatched'[j] = dispatched[j]
  /\ j \in Sends => /\ rows'[Own(j)] = rows[Own(j)] /\ send'[j] = send[j] /\ ack'[j] = ack[j]
                    /\ j \in engineHas' <=> j \in engineHas
  /\ j \in Inbound => fired'[j] = fired[j] /\ hooks'[j] = hooks[j]
  /\ chain'[j] = chain[j] /\ latest'[j] = latest[j]

\* Reactions wait as before, the row shows the same of them, excuses only grow.
LEMMA ReactStays ==
  ASSUME NEW i, ReactOK(i), live' => live, chain'[i] = chain[i], latest'[i] = latest[i],
         excused[i] \subseteq excused'[i], Shown(i)' = Shown(i), Here(i) => Here(i)'
  PROVE  ReactOK(i)'
<1>1. \A k : LastOf(i, k)' <=> LastOf(i, k)  BY DEF LastOf
<1>2. SUFFICES ASSUME live, excused[i] \cap {"early", "write"} = {}  PROVE ReactOK(i)'
  BY DEF ReactOK
<1> QED  BY <1>1, <1>2 DEF ReactOK

LEMMA StillKept ==
  ASSUME NEW j \in Ids, IdOK(j), Still(j)
  PROVE  IdOK(j)'
<1>1. Stored(Event(j))' <=> Stored(Event(j))  BY DEF Still, Stored
<1>2. EventOK(j)'  BY <1>1 DEF IdOK, EventOK, Still
<1>3. j \in Sends => (Stored(Own(j))' <=> Stored(Own(j))) /\ (Named(j)' <=> Named(j))
  BY DEF Still, Stored, Named
<1>4. ASSUME j \in Sends  PROVE OwnOK(j)' /\ SendOK(j)' /\ KeptOK(j)'
  <2>1. OwnOK(j)'  BY <1>1, <1>3, <1>4 DEF IdOK, OwnOK, Still
  <2>2. SendOK(j)'  BY <1>1, <1>3, <1>4 DEF IdOK, SendOK, Still
  <2>3. KeptOK(j)'  BY <1>1, <1>3, <1>4 DEF IdOK, KeptOK, Still
  <2> QED  BY <2>1, <2>2, <2>3
<1>5. ASSUME j \in Inbound  PROVE DispatchOK(j)'
  BY <1>1, <1>5 DEF IdOK, DispatchOK, Still
<1>6. ReactOK(j)'
  <2>1. Shown(j)' = Shown(j) /\ (Here(j) => Here(j)')  BY <1>1, <1>3 DEF Shown, Here, Still
  <2> QED  BY <2>1, ReactStays DEF IdOK, Still
<1> QED  BY <1>2, <1>4, <1>5, <1>6 DEF IdOK

-----------------------------------------------------------------------------
(* The send pipeline *)

LEMMA FaultType ==
  ASSUME TypeInv, Fault \/ NoFault
  PROVE  faults' \in 0 .. MaxFaults
BY Apart DEF TypeInv, Fault, NoFault

LEMMA ExcuseType ==
  ASSUME TypeInv, NEW i \in Ids, NEW why \in Reasons, Excuse(i, why)
  PROVE  /\ excused' \in [Ids -> SUBSET Reasons]
         /\ excused'[i] = excused[i] \cup {why}
         /\ \A j \in Ids : j # i => excused'[j] = excused[j]
BY DEF TypeInv, Excuse

LEMMA AllStill ==
  ASSUME IInv, TypeInv', \A j \in Ids : Still(j)
  PROVE  IInv'
BY StillKept DEF IInv

LEMMA SendMoved ==
  ASSUME IInv, NEW n \in Sends, TypeInv', EventOK(n)', OwnOK(n)', SendOK(n)', KeptOK(n)',
         ReactOK(n)', \A j \in Ids : j # n => Still(j)
  PROVE  IInv'
<1>1. IdOK(n)'  BY Apart DEF IdOK
<1>2. \A j \in Ids : IdOK(j)'  BY <1>1, StillKept DEF IInv
<1> QED  BY <1>2 DEF IInv

\* What holds of a send before it moves.
LEMMA SendIs ==
  ASSUME IInv, NEW n \in Sends
  PROVE  /\ n \in Ids /\ n \notin Inbound
         /\ EventOK(n) /\ OwnOK(n) /\ SendOK(n) /\ KeptOK(n) /\ ReactOK(n)
BY Apart DEF IInv, IdOK

LEMMA GoesType ==
  ASSUME TypeInv, NEW n \in Sends, NEW pc \in Points, Goes(n, pc)
  PROVE  /\ send' \in [Sends -> Points] /\ send'[n] = pc
         /\ \A m \in Sends : m # n => send'[m] = send[m]
BY DEF TypeInv, Goes

\* The pipeline moves without touching the table.
LEMMA QuietSend ==
  ASSUME IInv, NEW n \in Sends, NEW pc \in Points, send[n] # "done", Goes(n, pc),
         excused' \in [Ids -> SUBSET Reasons], \A j \in Ids : j # n => excused'[j] = excused[j],
         excused[n] \subseteq excused'[n], faults' \in 0 .. MaxFaults,
         UNCHANGED <<rows, engineHas, creating, fired, hooks, ack, chain, live, gone, dispatched, latest>>,
         SendOK(n)'
  PROVE  IInv'
<1>1. TypeInv  BY DEF IInv
<1>2. send' \in [Sends -> Points] /\ \A m \in Sends : m # n => send'[m] = send[m]
  BY <1>1, GoesType
<1>3. TypeInv'  BY <1>1, <1>2 DEF TypeInv
<1>4. /\ Stored(Own(n))' <=> Stored(Own(n))
      /\ Stored(Event(n))' <=> Stored(Event(n))
      /\ Named(n)' <=> Named(n)
  BY DEF Stored, Named
<1>5. EventOK(n)'  BY <1>4, SendIs DEF EventOK
<1>6. OwnOK(n)'  BY <1>4, SendIs DEF OwnOK
<1>7. KeptOK(n)'  BY <1>4, SendIs DEF KeptOK
<1>8. \A j \in Ids : j # n => Still(j)  BY <1>2 DEF Still
<1>9. ReactOK(n)'
  <2>1. Shown(n)' = Shown(n) /\ (Here(n) => Here(n)')  BY <1>4 DEF Shown, Here
  <2> QED  BY <2>1, SendIs, ReactStays
<1> QED  BY <1>3, <1>5, <1>6, <1>7, <1>8, <1>9, SendMoved

LEMMA GateKept ==
  ASSUME IInv, NEW n \in Sends, Gate(n)
  PROVE  IInv'
<1>1. TypeInv /\ send[n] = "idle"  BY DEF IInv, Gate, At
<1>2. PICK pc \in {"done", "finding"} : Goes(n, pc)  BY DEF Gate
<1>3. send'[n] = pc /\ pc \in Points  BY <1>1, <1>2, GoesType DEF Points
<1>4. UNCHANGED <<rows, engineHas, creating, fired, hooks, ack, chain, live, gone, faults, dispatched,
                  latest, excused>>
  BY DEF Gate
<1>5. SendOK(n)'  BY <1>1, <1>3, <1>4, SendIs DEF SendOK, Stored, Named, Waits
<1> QED  BY <1>1, <1>2, <1>3, <1>4, <1>5, QuietSend DEF TypeInv

LEMMA FindSessionKept ==
  ASSUME IInv, NEW n \in Sends, FindSession(n)
  PROVE  IInv'
<1>1. TypeInv /\ send[n] = "finding"  BY DEF IInv, FindSession, At
<1>2. PICK pc \in {"done", "inserting"} : Goes(n, pc)  BY DEF FindSession
<1>3. send'[n] = pc /\ pc \in Points  BY <1>1, <1>2, GoesType DEF Points
<1>4. UNCHANGED <<rows, engineHas, creating, fired, hooks, ack, chain, live, gone, faults, dispatched,
                  latest, excused>>
  BY DEF FindSession
<1>5. SendOK(n)'  BY <1>1, <1>3, <1>4, SendIs DEF SendOK, Stored, Named, Waits
<1> QED  BY <1>1, <1>2, <1>3, <1>4, <1>5, QuietSend DEF TypeInv

LEMMA EngineReturnsKept ==
  ASSUME IInv, NEW n \in Sends, EngineReturns(n)
  PROVE  IInv'
<1>1. TypeInv /\ send[n] = "sending" /\ n \in engineHas  BY DEF IInv, EngineReturns, At
<1>2. PICK pc \in {"named", "unnamed"} :
        Goes(n, pc) /\ (IF pc = "named" THEN UNCHANGED excused ELSE Excuse(n, "id"))
  BY DEF EngineReturns
<1>3. send'[n] = pc /\ pc \in Points  BY <1>1, <1>2, GoesType DEF Points
<1>4. UNCHANGED <<rows, engineHas, creating, fired, hooks, ack, chain, live, gone, faults, dispatched,
                  latest>>
  BY DEF EngineReturns
<1>5. /\ excused' \in [Ids -> SUBSET Reasons] /\ \A j \in Ids : j # n => excused'[j] = excused[j]
      /\ excused[n] \subseteq excused'[n]
      /\ pc = "unnamed" => "id" \in excused'[n]
  BY <1>1, <1>2, SendIs, ExcuseType DEF TypeInv, Reasons
<1>6. SendOK(n)'  BY <1>1, <1>3, <1>4, <1>5, SendIs DEF SendOK, Stored, Named, Waits
<1> QED  BY <1>1, <1>2, <1>3, <1>4, <1>5, <1>6, QuietSend DEF TypeInv

LEMMA EngineThrowsKept ==
  ASSUME IInv, NEW n \in Sends, EngineThrows(n)
  PROVE  IInv'
<1>1. /\ TypeInv /\ send[n] = "sending" /\ Goes(n, "failing")
      /\ IF n \in engineHas THEN Excuse(n, "threw") ELSE UNCHANGED excused
      /\ UNCHANGED <<rows, engineHas, creating, fired, hooks, ack, chain, live, gone, faults, dispatched,
                     latest>>
  BY DEF IInv, EngineThrows, At
<1>2. send'[n] = "failing" /\ "failing" \in Points  BY <1>1, GoesType DEF Points
<1>3. /\ excused' \in [Ids -> SUBSET Reasons] /\ \A j \in Ids : j # n => excused'[j] = excused[j]
      /\ excused[n] \subseteq excused'[n]
      /\ n \in engineHas => "threw" \in excused'[n]
  BY <1>1, SendIs, ExcuseType DEF TypeInv, Reasons
<1>4. SendOK(n)'  BY <1>1, <1>2, <1>3, SendIs DEF SendOK, Stored, Named, Waits
<1> QED  BY <1>1, <1>2, <1>3, <1>4, QuietSend DEF TypeInv

LEMMA EngineAcceptsKept ==
  ASSUME IInv, NEW n \in Sends, EngineAccepts(n)
  PROVE  IInv'
<1>1. /\ TypeInv /\ send[n] = "sending" /\ engineHas' = engineHas \cup {n}
      /\ UNCHANGED <<rows, send, creating, fired, hooks, ack, chain, live, gone, faults, dispatched,
                     latest, excused>>
  BY DEF IInv, EngineAccepts, At
<1>2. TypeInv'  BY <1>1 DEF TypeInv
<1>3. EventOK(n)' /\ OwnOK(n)' /\ KeptOK(n)'
  BY <1>1, SendIs DEF EventOK, OwnOK, KeptOK, Named, Stored
<1>4. SendOK(n)'  BY <1>1, SendIs DEF SendOK, Stored, Named, Waits
<1>5. \A j \in Ids : j # n => Still(j)  BY <1>1 DEF Still
<1>6. ReactOK(n)'
  <2>1. Shown(n)' = Shown(n) /\ (Here(n) => Here(n)')  BY <1>1 DEF Shown, Here, Stored, Named
  <2> QED  BY <1>1, <2>1, SendIs, ReactStays
<1> QED  BY <1>2, <1>3, <1>4, <1>5, <1>6, SendMoved

\* The pipeline writes its row, or deletes it.
LEMMA OwnMoved ==
  ASSUME IInv, NEW n \in Sends, NEW pc \in Points, send[n] # "done", Goes(n, pc),
         NEW v \in RowState \cup {NoRow}, rows' = [rows EXCEPT ![<<"own", n>>] = v],
         v # NoRow => v.by = "send" /\ v.id \in {<<>>, <<n>>} /\ v.reactions = NoReactions,
         v # NoRow /\ v.id = <<n>> => pc = "done" /\ ~Stored(Event(n)),
         faults' \in 0 .. MaxFaults,
         UNCHANGED <<engineHas, creating, fired, hooks, ack, chain, live, gone, dispatched, latest, excused>>,
         SendOK(n)'
  PROVE  IInv'
<1>1. TypeInv  BY DEF IInv
<1>2. /\ rows' \in [Slots -> RowState \cup {NoRow}] /\ rows'[Own(n)] = v
      /\ \A m \in Sends : m # n => rows'[Own(m)] = rows[Own(m)]
      /\ \A i \in Ids : rows'[Event(i)] = rows[Event(i)]
  BY <1>1, OwnWritten
<1>3. /\ send' \in [Sends -> Points] /\ send'[n] = pc
      /\ \A m \in Sends : m # n => send'[m] = send[m]
  BY <1>1, GoesType
<1>4. TypeInv'  BY <1>1, <1>2, <1>3 DEF TypeInv
<1>5. /\ Stored(Event(n))' <=> Stored(Event(n))
      /\ Stored(Own(n))' <=> v # NoRow
      /\ rows'[Event(n)] = rows[Event(n)]
  BY <1>2, SendIs DEF Stored
<1>6. EventOK(n)'  BY <1>5, SendIs DEF EventOK
<1>7. OwnOK(n)'  BY <1>2, <1>3, <1>5 DEF OwnOK, Named
<1>8. KeptOK(n)'
  <2>1. ~Named(n)  BY SendIs DEF OwnOK
  <2> QED  BY <1>5, <2>1, SendIs DEF KeptOK
<1>9. \A j \in Ids : j # n => Still(j)  BY <1>2, <1>3 DEF Still
<1>10. ReactOK(n)'
  <2>1. ~Named(n)  BY SendIs DEF OwnOK
  <2>2. Named(n)' => rows'[Own(n)].reactions = NoReactions  BY <1>2, <1>5 DEF Named
  <2>3. Shown(n)' = Shown(n) /\ (Here(n) => Here(n)')  BY <1>5, <2>1, <2>2 DEF Shown, Here
  <2> QED  BY <2>3, SendIs, ReactStays
<1> QED  BY <1>4, <1>6, <1>7, <1>8, <1>9, <1>10, SendMoved

LEMMA InsertPendingKept ==
  ASSUME IInv, NEW n \in Sends, InsertPending(n)
  PROVE  IInv'
<1>1. /\ TypeInv /\ send[n] = "inserting"
      /\ UNCHANGED <<engineHas, creating, fired, hooks, ack, chain, live, gone, dispatched, latest, excused>>
  BY DEF IInv, InsertPending, At
<1>2. n \notin engineHas  BY <1>1, SendIs DEF SendOK
<1>3. faults' \in 0 .. MaxFaults  BY <1>1, FaultType DEF InsertPending
<1>4. CASE Goes(n, "done") /\ UNCHANGED rows
  <2>1. send'[n] = "done" /\ "done" \in Points  BY <1>1, <1>4, GoesType DEF Points
  <2>2. SendOK(n)'  BY <1>1, <1>2, <2>1 DEF SendOK, Waits
  <2> QED  BY <1>1, <1>3, <1>4, <2>1, <2>2, QuietSend DEF TypeInv
<1>5. CASE /\ Goes(n, "sending")
           /\ rows' = [rows EXCEPT ![<<"own", n>>] = Row("send", <<>>, "pending")]
  <2> DEFINE v == Row("send", <<>>, "pending")
  <2>1. v \in RowState /\ v # NoRow /\ v.by = "send" /\ v.id = <<>> /\ v.reactions = NoReactions
    BY RowType DEF Writers, Statuses
  <2>2. rows' = [rows EXCEPT ![<<"own", n>>] = v]  BY <1>5
  <2> HIDE DEF v
  <2>3. rows'[Own(n)] = v  BY <1>1, <2>1, <2>2, OwnWritten
  <2>4. send'[n] = "sending" /\ "sending" \in Points  BY <1>1, <1>5, GoesType DEF Points
  <2>5. <<>> # <<n>>  OBVIOUS
  <2>6. SendOK(n)'  BY <2>1, <2>3, <2>4 DEF SendOK, Stored
  <2> QED  BY <1>1, <1>3, <1>5, <2>1, <2>2, <2>4, <2>5, <2>6, OwnMoved
<1> QED  BY <1>4, <1>5 DEF InsertPending

\* save() writes the whole row, with WhatsApp's id or without.
LEMMA SavedIs ==
  ASSUME IInv, NEW n \in Sends, NEW id \in {<<>>, <<n>>}, NEW status \in Statuses, SaveOwn(n, id, status),
         send[n] # "done"
  PROVE  \E v \in RowState : /\ rows' = [rows EXCEPT ![<<"own", n>>] = v]
                             /\ v # NoRow /\ v.by = "send" /\ v.id = id /\ v.reactions = NoReactions
<1>1. id \in {<<>>} \cup {<<i>> : i \in Ids} /\ "send" \in Writers  BY Apart DEF Writers
<1>2. CASE rows[<<"own", n>>] = NoRow
  <2> DEFINE v == Row("send", id, status)
  <2>1. rows' = [rows EXCEPT ![<<"own", n>>] = v]  BY <1>2 DEF SaveOwn
  <2>2. v \in RowState /\ v # NoRow /\ v.by = "send" /\ v.id = id /\ v.reactions = NoReactions
    BY <1>1, RowType
  <2> HIDE DEF v
  <2> QED  BY <2>1, <2>2
<1>3. CASE rows[<<"own", n>>] # NoRow
  <2> DEFINE r == rows[<<"own", n>>]
             v == [r EXCEPT !.id = id, !.status = status]
  <2>1. rows' = [rows EXCEPT ![<<"own", n>>] = v]  BY <1>3 DEF SaveOwn
  <2>2. r \in RowState /\ r.by = "send" /\ r.reactions = NoReactions
    BY <1>3, SendIs, StoredType, SlotsAre DEF IInv, OwnOK, Stored, Own
  <2>3. v \in RowState /\ v.by = "send" /\ v.id = id /\ v.reactions = NoReactions
    BY <1>1, <2>2 DEF RowState
  <2> QED  BY <2>1, <2>3, NoRowIsNone
<1> QED  BY <1>2, <1>3

LEMMA PersistSentKept ==
  ASSUME IInv, NEW n \in Sends, PersistSent(n)
  PROVE  IInv'
<1>1. /\ TypeInv /\ send[n] \in {"named", "unnamed"}
      /\ UNCHANGED <<engineHas, creating, fired, hooks, ack, chain, live, gone, dispatched, latest>>
  BY DEF IInv, PersistSent
<1> DEFINE id == IF At(n, "named") THEN <<n>> ELSE <<>>
<1>2. faults' \in 0 .. MaxFaults  BY <1>1, FaultType DEF PersistSent
<1>3. ~Named(n) /\ (send[n] = "unnamed" => "id" \in excused[n])  BY <1>1, SendIs DEF OwnOK, SendOK
<1>4. Taken(n) <=> Stored(Event(n))  BY <1>3, HoldersAre, SendIs
<1>5. CASE /\ id # <<>> /\ Taken(n) /\ Goes(n, "twin") /\ UNCHANGED <<rows, excused>>
  <2>1. send'[n] = "twin" /\ "twin" \in Points  BY <1>1, <1>5, GoesType DEF Points
  <2>2. SendOK(n)'  BY <1>1, <1>4, <1>5, <2>1, SendIs DEF SendOK, Stored, Waits
  <2> QED  BY <1>1, <1>2, <1>5, <2>1, <2>2, QuietSend DEF TypeInv
<1>6. CASE /\ id = <<>> \/ ~Taken(n)
           /\ SaveOwn(n, id, "sent") /\ Goes(n, "done") /\ UNCHANGED excused
  <2>1. id \in {<<>>, <<n>>} /\ "sent" \in Statuses  BY DEF Statuses
  <2>2. <<>> # <<n>>  OBVIOUS
  <2>3. send[n] = "unnamed" \/ id = <<n>>  BY <1>1 DEF At
  <2>4. id = <<n>> => ~Stored(Event(n))  BY <1>4, <1>6, <2>2
  <2> HIDE DEF id
  <2>5. PICK v \in RowState : /\ rows' = [rows EXCEPT ![<<"own", n>>] = v]
                              /\ v # NoRow /\ v.by = "send" /\ v.id = id /\ v.reactions = NoReactions
    BY <1>1, <1>6, <2>1, SavedIs
  <2>6. rows'[Own(n)] = v  BY <1>1, <2>5, OwnWritten
  <2>7. send'[n] = "done" /\ "done" \in Points  BY <1>1, <1>6, GoesType DEF Points
  <2>8. SendOK(n)'
    BY <1>1, <1>3, <1>6, <2>3, <2>5, <2>6, <2>7 DEF SendOK, Named, Stored, Waits
  <2> QED  BY <1>1, <1>2, <1>6, <2>1, <2>4, <2>5, <2>7, <2>8, OwnMoved
<1>7. CASE Excuse(n, "write") /\ Goes(n, "done") /\ UNCHANGED rows
  <2>1. send'[n] = "done" /\ "done" \in Points  BY <1>1, <1>7, GoesType DEF Points
  <2>2. /\ excused' \in [Ids -> SUBSET Reasons] /\ \A j \in Ids : j # n => excused'[j] = excused[j]
        /\ "write" \in excused'[n] /\ excused[n] \subseteq excused'[n]
    BY <1>1, <1>7, SendIs, ExcuseType DEF Reasons
  <2>3. SendOK(n)'  BY <2>1, <2>2 DEF SendOK, Waits
  <2> QED  BY <1>1, <1>2, <1>7, <2>1, <2>2, <2>3, QuietSend
<1> QED  BY <1>5, <1>6, <1>7 DEF PersistSent

LEMMA TwinDropped ==
  ASSUME IInv, NEW n \in Sends, DropTwin(n)
  PROVE  IInv'
<1>1. /\ TypeInv /\ send[n] = "twin" /\ Goes(n, "done")
      /\ UNCHANGED <<engineHas, creating, fired, hooks, ack, chain, live, gone, dispatched, latest>>
  BY DEF IInv, DropTwin, At
<1>2. faults' \in 0 .. MaxFaults  BY <1>1, FaultType DEF DropTwin
<1>3. send'[n] = "done" /\ "done" \in Points  BY <1>1, GoesType DEF Points
<1>4. CASE rows' = [rows EXCEPT ![<<"own", n>>] = NoRow] /\ UNCHANGED excused
  <2>1. rows'[Own(n)] = NoRow /\ rows'[Event(n)] = rows[Event(n)]  BY <1>1, <1>4, OwnWritten, SendIs
  <2>2. SendOK(n)'  BY <1>1, <1>3, <2>1, SendIs DEF SendOK, Stored, Waits
  <2> QED  BY <1>1, <1>2, <1>3, <1>4, <2>2, OwnMoved
<1>5. CASE Excuse(n, "write") /\ UNCHANGED rows
  <2>1. /\ excused' \in [Ids -> SUBSET Reasons] /\ \A j \in Ids : j # n => excused'[j] = excused[j]
        /\ "write" \in excused'[n] /\ excused[n] \subseteq excused'[n]
    BY <1>1, <1>5, SendIs, ExcuseType DEF Reasons
  <2>2. SendOK(n)'  BY <1>3, <2>1 DEF SendOK, Waits
  <2> QED  BY <1>1, <1>2, <1>3, <1>5, <2>1, <2>2, QuietSend
<1> QED  BY <1>4, <1>5 DEF DropTwin

LEMMA SaveFailedKept ==
  ASSUME IInv, NEW n \in Sends, SaveFailed(n)
  PROVE  IInv'
<1>1. /\ TypeInv /\ send[n] = "failing" /\ Goes(n, "done")
      /\ UNCHANGED <<engineHas, creating, fired, hooks, ack, chain, live, gone, dispatched, latest>>
  BY DEF IInv, SaveFailed, At
<1>2. faults' \in 0 .. MaxFaults  BY <1>1, FaultType DEF SaveFailed
<1>3. send'[n] = "done" /\ "done" \in Points  BY <1>1, GoesType DEF Points
<1>4. n \in engineHas => "threw" \in excused[n]  BY <1>1, SendIs DEF SendOK
<1>5. CASE SaveOwn(n, <<>>, "failed") /\ UNCHANGED excused
  <2>1. <<>> # <<n>> /\ "failed" \in Statuses  BY DEF Statuses, Acks
  <2>2. PICK v \in RowState : /\ rows' = [rows EXCEPT ![<<"own", n>>] = v]
                              /\ v # NoRow /\ v.by = "send" /\ v.id = <<>> /\ v.reactions = NoReactions
    BY <1>1, <1>5, <2>1, SavedIs
  <2>3. SendOK(n)'  BY <1>1, <1>3, <1>4, <1>5 DEF SendOK, Waits
  <2> QED  BY <1>1, <1>2, <1>3, <1>5, <2>1, <2>2, <2>3, OwnMoved
<1>6. CASE Excuse(n, "write") /\ UNCHANGED rows
  <2>1. /\ excused' \in [Ids -> SUBSET Reasons] /\ \A j \in Ids : j # n => excused'[j] = excused[j]
        /\ "write" \in excused'[n] /\ excused[n] \subseteq excused'[n]
    BY <1>1, <1>6, SendIs, ExcuseType DEF Reasons
  <2>2. SendOK(n)'  BY <1>3, <2>1 DEF SendOK, Waits
  <2> QED  BY <1>1, <1>2, <1>3, <1>6, <2>1, <2>2, QuietSend
<1> QED  BY <1>5, <1>6 DEF SaveFailed

-----------------------------------------------------------------------------
(* Acknowledgements *)

LEMMA CreateFiresKept ==
  ASSUME IInv, NEW n \in Sends, CreateFires(n)
  PROVE  IInv'
<1>1. /\ creating' = [creating EXCEPT ![n] = "hook"]
      /\ UNCHANGED <<rows, send, engineHas, fired, hooks, ack, chain, live, gone, faults, dispatched,
                     latest, excused>>
  BY DEF CreateFires
<1>2. TypeInv'  BY <1>1 DEF IInv, TypeInv
<1>3. \A j \in Ids : Still(j)  BY <1>1 DEF Still
<1> QED  BY <1>2, <1>3, AllStill

\* A status that an acknowledgement takes forward covers what it covered.
LEMMA CoversGrows ==
  ASSUME NEW status \in Statuses, NEW a \in Acks, NEW b \in Acks,
         status \in AckStatusTransitionFrom(a), Covers(status, b)
  PROVE  Covers(a, b)
BY DEF Statuses, Acks, AckStatusTransitionFrom, Covers

\* One that it does not match is further on already.
LEMMA CoversElse ==
  ASSUME NEW status \in Statuses, NEW a \in Acks, status \notin AckStatusTransitionFrom(a)
  PROVE  Covers(status, a)
BY DEF Statuses, Acks, AckStatusTransitionFrom, Covers

LEMMA AdvanceKept ==
  ASSUME IInv, NEW n \in Sends, NEW a \in Acks, NEW unmatched \in {"waiting", "kept", "lost"},
         unmatched = "kept" => Taken(n), Advance(n, a, unmatched),
         UNCHANGED <<send, engineHas, creating, fired, hooks, chain, live, gone, dispatched, latest, excused>>
  PROVE  IInv'
<1> DEFINE hit == {k \in Holders(n) : rows[k].status \in AckStatusTransitionFrom(a)}
           outcome == IF hit # {} THEN "kept" ELSE unmatched
<1>1. TypeInv  BY DEF IInv
<1>2. faults' \in 0 .. MaxFaults  BY <1>1, FaultType DEF Advance
<1>3. CASE ack' = [ack EXCEPT ![n][a] = "lost"] /\ UNCHANGED rows
  <2>1. /\ ack' \in [Sends -> [Acks -> {"none", "waiting", "kept", "lost"}]]
        /\ \A b \in Acks : ack'[n][b] = "kept" => ack[n][b] = "kept"
        /\ \A m \in Sends : m # n => ack'[m] = ack[m]
    BY <1>1, <1>3 DEF TypeInv
  <2>2. TypeInv'  BY <1>1, <1>2, <1>3, <2>1 DEF TypeInv
  <2>3. EventOK(n)' /\ OwnOK(n)' /\ SendOK(n)'
    BY <1>3, SendIs DEF EventOK, OwnOK, SendOK, Named, Stored
  <2>4. KeptOK(n)'  BY <1>3, <2>1, SendIs DEF KeptOK, Named, Stored
  <2>5. \A j \in Ids : j # n => Still(j)  BY <1>3, <2>1 DEF Still
  <2>6. ReactOK(n)'
    <3>1. Shown(n)' = Shown(n) /\ (Here(n) => Here(n)')  BY <1>3 DEF Shown, Here, Stored, Named
    <3> QED  BY <3>1, SendIs, ReactStays
  <2> QED  BY <2>2, <2>3, <2>4, <2>5, <2>6, SendMoved
<1>4. CASE /\ rows' = [k \in Slots |-> IF k \in hit THEN [rows[k] EXCEPT !.status = a] ELSE rows[k]]
           /\ ack' = [ack EXCEPT ![n][a] = outcome]
  <2>1. \A k \in hit : k \in Slots /\ Stored(k) /\ k \in {Own(n), Event(n)}
    BY HoldersAre, SendIs DEF Holders
  <2>2. ASSUME NEW k \in hit
        PROVE  /\ rows'[k] \in RowState /\ rows'[k] # NoRow /\ rows'[k].status = a
               /\ rows'[k].by = rows[k].by /\ rows'[k].id = rows[k].id
               /\ rows'[k].reactions = rows[k].reactions
    <3>1. rows[k] \in RowState  BY <1>1, <2>1, StoredType
    <3>2. rows'[k] = [rows[k] EXCEPT !.status = a]  BY <1>4, <2>1
    <3>3. a \in Statuses  BY DEF Statuses
    <3>4. rows'[k] \in RowState  BY <3>1, <3>2, <3>3 DEF RowState
    <3> QED  BY <3>1, <3>2, <3>4, NoRowIsNone DEF RowState
  <2>3. \A k \in Slots : k \notin hit => rows'[k] = rows[k]  BY <1>4
  <2> HIDE DEF hit
  <2>4. rows' \in [Slots -> RowState \cup {NoRow}]
    <3>1. \A k \in Slots : rows'[k] \in RowState \cup {NoRow}  BY <1>1, <2>2, <2>3 DEF TypeInv
    <3> QED  BY <1>4, <3>1
  <2>5. \A k \in Slots : /\ Stored(k)' <=> Stored(k)
                         /\ Stored(k) => /\ rows'[k].by = rows[k].by /\ rows'[k].id = rows[k].id
                                         /\ rows'[k].reactions = rows[k].reactions
    BY <2>1, <2>2, <2>3 DEF Stored
  <2>6. outcome \in {"waiting", "kept", "lost"}  OBVIOUS
  <2>7. /\ ack' \in [Sends -> [Acks -> {"none", "waiting", "kept", "lost"}]]
        /\ \A b \in Acks : ack'[n][b] = IF b = a THEN outcome ELSE ack[n][b]
        /\ \A m \in Sends : m # n => ack'[m] = ack[m]
    BY <1>1, <1>4, <2>6 DEF TypeInv
  <2>8. TypeInv'  BY <1>1, <1>2, <2>4, <2>7 DEF TypeInv
  <2>9. /\ Stored(Own(n))' <=> Stored(Own(n))
        /\ Stored(Event(n))' <=> Stored(Event(n))
        /\ Named(n)' <=> Named(n)
    BY <2>5, SlotsAre, SendIs DEF Named
  <2>10. EventOK(n)' /\ OwnOK(n)' /\ SendOK(n)'
    <3>1. EventOK(n)'  BY <2>5, <2>9, SlotsAre, SendIs DEF EventOK
    <3>2. OwnOK(n)'  BY <2>5, <2>9, SlotsAre, SendIs DEF OwnOK
    <3>3. SendOK(n)'  BY <2>9, SendIs DEF SendOK
    <3> QED  BY <3>1, <3>2, <3>3
  <2>11. KeptOK(n)'
    <3>1. SUFFICES ASSUME live, NEW b \in Acks, ack'[n][b] = "kept"
                   PROVE  \E k \in Holders(n) : Covers(rows'[k].status, b)
      <4>1. \A k \in Holders(n) : \/ k = Event(n) /\ Stored(Event(n))
                                  \/ k = Own(n) /\ Named(n)
        BY HoldersAre, SendIs
      <4> QED  BY <2>9, <3>1, <4>1 DEF KeptOK
    <3>2. \A k \in Holders(n) : k \in Slots /\ rows[k] \in RowState /\ rows[k].status \in Statuses
      <4>1. \A k \in Holders(n) : k \in Slots /\ Stored(k)  BY DEF Holders
      <4> QED  BY <1>1, <4>1, StoredType DEF RowState
    <3>3. ASSUME NEW k \in Holders(n), Covers(rows[k].status, b)  PROVE Covers(rows'[k].status, b)
      <4>1. CASE k \in hit
        <5>1. rows[k].status \in AckStatusTransitionFrom(a)  BY <4>1 DEF hit
        <5> QED  BY <2>2, <3>2, <3>3, <4>1, <5>1, CoversGrows
      <4>2. CASE k \notin hit  BY <2>3, <3>2, <3>3, <4>2
      <4> QED  BY <4>1, <4>2
    <3>4. CASE ack[n][b] = "kept"
      <4>1. \E k \in Holders(n) : Covers(rows[k].status, b)
        BY <3>1, <3>4, HoldersAre, SendIs DEF KeptOK
      <4> QED  BY <3>3, <4>1
    <3>5. CASE b = a /\ hit # {}
      <4>1. PICK k \in hit : TRUE  BY <3>5
      <4>2. k \in Holders(n) /\ rows'[k].status = a  BY <2>2, <4>1 DEF hit
      <4> QED  BY <3>5, <4>2 DEF Covers
    <3>6. CASE b = a /\ hit = {} /\ unmatched = "kept"
      <4>1. PICK k \in Holders(n) : TRUE  BY <3>6 DEF Taken
      <4>2. rows[k].status \notin AckStatusTransitionFrom(a)  BY <3>6, <4>1 DEF hit
      <4>3. Covers(rows[k].status, a)  BY <3>2, <4>1, <4>2, CoversElse
      <4> QED  BY <3>3, <3>6, <4>1, <4>3
    <3> QED  BY <2>7, <3>1, <3>4, <3>5, <3>6
  <2>12. ASSUME NEW j \in Ids, j # n  PROVE Still(j)
    <3>1. rows'[Event(j)] = rows[Event(j)]  BY <2>1, <2>3, <2>12, SlotsAre
    <3>2. j \in Sends => rows'[Own(j)] = rows[Own(j)]  BY <2>1, <2>3, <2>12, SlotsAre
    <3> QED  BY <2>7, <2>12, <3>1, <3>2 DEF Still
  <2>13. ReactOK(n)'
    <3>1. Shown(n)' = Shown(n) /\ (Here(n) => Here(n)')
      BY <2>5, <2>9, SlotsAre, SendIs DEF Shown, Here, Named
    <3> QED  BY <3>1, SendIs, ReactStays
  <2> QED  BY <2>8, <2>10, <2>11, <2>12, <2>13, SendMoved
<1> QED  BY <1>3, <1>4 DEF Advance

LEMMA AckKept ==
  ASSUME IInv, NEW n \in Sends, NEW a \in Acks, AckFires(n, a) \/ AckRetries(n, a)
  PROVE  IInv'
<1>1. UNCHANGED <<send, engineHas, creating, fired, hooks, chain, live, gone, dispatched, latest, excused>>
  BY DEF AckFires, AckRetries
<1>2. CASE Advance(n, a, "waiting")  BY <1>1, <1>2, AdvanceKept
<1>3. CASE Advance(n, a, IF Taken(n) THEN "kept" ELSE "lost")
  <2> DEFINE u == IF Taken(n) THEN "kept" ELSE "lost"
  <2>1. u \in {"waiting", "kept", "lost"} /\ (u = "kept" => Taken(n)) /\ Advance(n, a, u)  BY <1>3
  <2> HIDE DEF u
  <2> QED  BY <1>1, <2>1, AdvanceKept
<1> QED  BY <1>2, <1>3 DEF AckFires, AckRetries

-----------------------------------------------------------------------------
(* The callbacks and the import *)

\* What holds of an inbound message before it moves.
LEMMA InboundIs ==
  ASSUME IInv, NEW i \in Inbound
  PROVE  i \in Ids /\ i \notin Sends /\ EventOK(i) /\ DispatchOK(i) /\ ReactOK(i)
BY Apart DEF IInv, IdOK

LEMMA InboundMoved ==
  ASSUME IInv, NEW i \in Inbound, TypeInv', EventOK(i)', DispatchOK(i)', ReactOK(i)',
         \A j \in Ids : j # i => Still(j)
  PROVE  IInv'
<1>1. IdOK(i)'  BY Apart DEF IdOK
<1>2. \A j \in Ids : IdOK(j)'  BY <1>1, StillKept DEF IInv
<1> QED  BY <1>2 DEF IInv

\* A send keeps its invariant when its rows stay and its excuses grow.
LEMMA SendStays ==
  ASSUME IInv, NEW n \in Sends, UNCHANGED <<rows, send, engineHas, ack, chain, latest, live, gone>>,
         excused[n] \subseteq excused'[n]
  PROVE  EventOK(n)' /\ OwnOK(n)' /\ SendOK(n)' /\ KeptOK(n)' /\ ReactOK(n)'
<1>1. /\ Stored(Own(n))' <=> Stored(Own(n))
      /\ Stored(Event(n))' <=> Stored(Event(n))
      /\ Named(n)' <=> Named(n)
  BY DEF Stored, Named
<1>2. EventOK(n)' /\ OwnOK(n)' /\ KeptOK(n)'  BY <1>1, SendIs DEF EventOK, OwnOK, KeptOK
<1>3. SendOK(n)'  BY <1>1, SendIs DEF SendOK
<1>4. ReactOK(n)'
  <2>1. Shown(n)' = Shown(n) /\ (Here(n) => Here(n)')  BY <1>1 DEF Shown, Here
  <2> QED  BY <2>1, SendIs, ReactStays
<1> QED  BY <1>2, <1>3, <1>4

\* A row that a callback inserts is the only one of its id.
LEMMA SendInserted ==
  ASSUME IInv, NEW n \in Sends, NEW by \in Writers, Insert(n, by), ~Taken(n),
         by \in {"created", "history"}, gone => by = "history",
         UNCHANGED <<send, engineHas, ack, chain, latest, live, gone>>, excused[n] \subseteq excused'[n]
  PROVE  EventOK(n)' /\ OwnOK(n)' /\ SendOK(n)' /\ KeptOK(n)' /\ ReactOK(n)'
<1>1. /\ Stored(Event(n))' /\ rows'[Event(n)].by = by /\ rows'[Event(n)].id = <<n>>
      /\ rows'[Event(n)].reactions = NoReactions
      /\ rows'[Own(n)] = rows[Own(n)]
  BY SendIs, EventWritten DEF IInv
<1>2. ~Named(n) /\ ~Stored(Event(n))  BY SendIs, HoldersAre
<1>3. (Stored(Own(n))' <=> Stored(Own(n))) /\ ~Named(n)'  BY <1>1, <1>2 DEF Stored, Named
<1>4. EventOK(n)'  BY <1>1 DEF EventOK
<1>5. OwnOK(n)'  BY <1>1, <1>2, <1>3, SendIs DEF OwnOK
<1>6. SendOK(n)'  BY <1>1, <1>2, <1>3, SendIs DEF SendOK
<1>7. KeptOK(n)'  BY <1>1, <1>2, SendIs DEF KeptOK
<1>8. ReactOK(n)'
  <2>1. Shown(n)' = Shown(n) /\ (Here(n) => Here(n)')  BY <1>1, <1>2 DEF Shown, Here
  <2> QED  BY <2>1, SendIs, ReactStays
<1> QED  BY <1>4, <1>5, <1>6, <1>7, <1>8

\* No reaction has been read before the row stood in the table.
LEMMA InboundInserted ==
  ASSUME IInv, NEW i \in Inbound, NEW by \in Writers, Insert(i, by), ~Taken(i),
         by \in {"received", "history"}, gone => by = "history",
         UNCHANGED <<chain, latest, live, gone>>, excused[i] \subseteq excused'[i]
  PROVE  EventOK(i)' /\ ReactOK(i)'
<1>1. /\ Stored(Event(i))' /\ rows'[Event(i)].by = by /\ rows'[Event(i)].id = <<i>>
      /\ rows'[Event(i)].reactions = NoReactions
  BY InboundIs, EventWritten DEF IInv
<1>2. ~Stored(Event(i))  BY InboundIs, HoldersAre
<1>3. EventOK(i)'  BY <1>1 DEF EventOK
<1>4. Shown(i)' = Shown(i) /\ Here(i)'  BY <1>1, <1>2, InboundIs DEF Shown, Here
<1>5. ReactOK(i)'  BY <1>4, InboundIs, ReactStays
<1> QED  BY <1>3, <1>5

\* A message keeps what it shows when its row stays and its excuses grow.
LEMMA InboundStays ==
  ASSUME IInv, NEW i \in Inbound, UNCHANGED <<rows, chain, latest, live, gone>>,
         excused[i] \subseteq excused'[i]
  PROVE  EventOK(i)' /\ ReactOK(i)' /\ (Stored(Event(i))' <=> Stored(Event(i)))
<1>1. Stored(Event(i))' <=> Stored(Event(i))  BY DEF Stored
<1>2. Shown(i)' = Shown(i) /\ (Here(i) => Here(i)')  BY <1>1, InboundIs DEF Shown, Here
<1>3. EventOK(i)'  BY <1>1, InboundIs DEF EventOK
<1>4. ReactOK(i)'  BY <1>2, InboundIs, ReactStays
<1> QED  BY <1>1, <1>3, <1>4

\* What an insert or none leaves of the other ids.
LEMMA OthersStill ==
  ASSUME IInv, NEW i \in Ids, NEW by \in Writers, UNCHANGED rows \/ Insert(i, by),
         UNCHANGED <<send, engineHas, ack, chain, latest, live, gone>>,
         \A j \in Ids : j # i => excused'[j] = excused[j] /\ dispatched'[j] = dispatched[j],
         \A j \in Inbound : j # i => fired'[j] = fired[j] /\ hooks'[j] = hooks[j]
  PROVE  /\ \A j \in Ids : j # i => Still(j)
         /\ rows' \in [Slots -> RowState \cup {NoRow}]
<1>1. rows' \in [Slots -> RowState \cup {NoRow}]  BY EventWritten DEF IInv, TypeInv
<1>2. ASSUME NEW j \in Ids, j # i
      PROVE  /\ rows'[Event(j)] = rows[Event(j)]
             /\ j \in Sends => rows'[Own(j)] = rows[Own(j)]
  BY <1>2, EventWritten DEF IInv
<1> QED  BY <1>1, <1>2 DEF Still

LEMMA CreateStoresKept ==
  ASSUME IInv, NEW n \in Sends, CreateStores(n)
  PROVE  IInv'
<1>1. /\ TypeInv /\ n \in Ids
      /\ creating' = [creating EXCEPT ![n] = "done"]
      /\ UNCHANGED <<send, engineHas, fired, hooks, ack, chain, live, gone, latest>>
  BY SendIs DEF IInv, CreateStores
<1>2. faults' \in 0 .. MaxFaults  BY <1>1, FaultType DEF CreateStores
<1>3. \/ excused' = excused
      \/ Excuse(n, "stopped")
      \/ Excuse(n, "write")
  BY DEF CreateStores
<1>4. /\ excused' \in [Ids -> SUBSET Reasons] /\ excused[n] \subseteq excused'[n]
      /\ \A j \in Ids : j # n => excused'[j] = excused[j]
  BY <1>1, <1>3, ExcuseType DEF TypeInv, Reasons
<1>5. dispatched' = dispatched \/ dispatched' = [dispatched EXCEPT ![n] = @ + 1]
  BY DEF CreateStores
<1>6. /\ dispatched' \in [Ids -> Nat]
      /\ \A j \in Ids : j # n => dispatched'[j] = dispatched[j]
  BY <1>1, <1>5 DEF TypeInv
<1>7. UNCHANGED rows \/ (live /\ ~Taken(n) /\ Insert(n, "created"))
  BY DEF CreateStores, StillLive
<1>8. /\ \A j \in Ids : j # n => Still(j)
      /\ rows' \in [Slots -> RowState \cup {NoRow}]
  BY <1>1, <1>4, <1>6, <1>7, OthersStill DEF Writers
<1>9. creating' \in [Sends -> {"none", "hook", "done"}]  BY <1>1 DEF TypeInv
<1>10. TypeInv'  BY <1>1, <1>2, <1>4, <1>6, <1>8, <1>9 DEF TypeInv
<1>11. CASE UNCHANGED rows
  BY <1>1, <1>4, <1>8, <1>10, <1>11, SendStays, SendMoved
<1>12. CASE live /\ ~Taken(n) /\ Insert(n, "created")
  <2>1. "created" \in Writers /\ ~gone  BY <1>1, <1>12 DEF Writers, TypeInv
  <2>2. EventOK(n)' /\ OwnOK(n)' /\ SendOK(n)' /\ KeptOK(n)' /\ ReactOK(n)'
    BY <1>1, <1>4, <1>12, <2>1, SendInserted
  <2> QED  BY <1>8, <1>10, <2>2, SendMoved
<1> QED  BY <1>7, <1>11, <1>12

LEMMA MessageFiresKept ==
  ASSUME IInv, NEW i \in Inbound, MessageFires(i)
  PROVE  IInv'
<1>1. /\ TypeInv /\ i \in Ids
      /\ fired' = [fired EXCEPT ![i] = @ + 1] /\ hooks' = [hooks EXCEPT ![i] = @ + 1]
      /\ UNCHANGED <<rows, send, engineHas, creating, ack, chain, live, gone, faults, dispatched, latest,
                     excused>>
  BY InboundIs DEF IInv, MessageFires
<1>2. /\ fired' \in [Inbound -> Nat] /\ hooks' \in [Inbound -> Nat] /\ hooks'[i] > 0
      /\ \A j \in Inbound : j # i => fired'[j] = fired[j] /\ hooks'[j] = hooks[j]
  BY <1>1 DEF TypeInv
<1>3. TypeInv'  BY <1>1, <1>2 DEF TypeInv
<1>4. EventOK(i)' /\ ReactOK(i)' /\ (Stored(Event(i))' <=> Stored(Event(i)))  BY <1>1, InboundStays
<1>5. DispatchOK(i)'  BY <1>1, <1>2, <1>4, InboundIs DEF DispatchOK
<1>6. \A j \in Ids : j # i => Still(j)  BY <1>1, <1>2 DEF Still
<1> QED  BY <1>3, <1>4, <1>5, <1>6, InboundMoved

LEMMA MessageStoresKept ==
  ASSUME IInv, NEW i \in Inbound, MessageStores(i)
  PROVE  IInv'
<1>1. /\ TypeInv /\ i \in Ids /\ hooks[i] > 0
      /\ hooks' = [hooks EXCEPT ![i] = @ - 1]
      /\ UNCHANGED <<send, engineHas, creating, fired, ack, chain, live, gone, latest>>
  BY InboundIs DEF IInv, MessageStores
<1>2. faults' \in 0 .. MaxFaults  BY <1>1, FaultType DEF MessageStores
<1>3. Taken(i) <=> Stored(Event(i))  BY InboundIs, HoldersAre
<1>4. PICK more \in {0, 1} :
        /\ dispatched' = [dispatched EXCEPT ![i] = @ + more]
        /\ \/ /\ more = 0 /\ UNCHANGED rows
              /\ \/ Excuse(i, "stopped") \/ Excuse(i, "retired")
                 \/ Taken(i) /\ UNCHANGED excused
           \/ /\ more = 1 /\ live /\ ~Taken(i)
              /\ \/ Insert(i, "received") /\ UNCHANGED excused
                 \/ UNCHANGED rows /\ Excuse(i, "write")
  <2>1. CASE /\ UNCHANGED <<rows, dispatched>>
             /\ \/ Excuse(i, "stopped") \/ Excuse(i, "retired")
                \/ Taken(i) /\ UNCHANGED excused
    <3>1. dispatched' = [dispatched EXCEPT ![i] = @ + 0]  BY <1>1, <2>1 DEF TypeInv
    <3> QED  BY <2>1, <3>1
  <2>2. CASE /\ live /\ ~Taken(i) /\ dispatched' = [dispatched EXCEPT ![i] = @ + 1]
             /\ \/ Insert(i, "received") /\ UNCHANGED excused
                \/ UNCHANGED rows /\ Excuse(i, "write")
    BY <2>2
  <2> QED  BY <2>1, <2>2 DEF MessageStores, StillLive, Duplicate
<1>5. /\ excused' \in [Ids -> SUBSET Reasons] /\ excused[i] \subseteq excused'[i]
      /\ \A j \in Ids : j # i => excused'[j] = excused[j]
  BY <1>1, <1>4, ExcuseType DEF TypeInv, Reasons
<1>6. /\ dispatched' \in [Ids -> Nat] /\ dispatched'[i] = dispatched[i] + more
      /\ \A j \in Ids : j # i => dispatched'[j] = dispatched[j]
  BY <1>1, <1>4 DEF TypeInv
<1>7. /\ hooks' \in [Inbound -> Nat]
      /\ \A j \in Inbound : j # i => hooks'[j] = hooks[j]
  BY <1>1 DEF TypeInv
<1>8. /\ \A j \in Ids : j # i => Still(j)
      /\ rows' \in [Slots -> RowState \cup {NoRow}]
  BY <1>1, <1>4, <1>5, <1>6, <1>7, OthersStill DEF Writers
<1>9. TypeInv'  BY <1>1, <1>2, <1>5, <1>6, <1>7, <1>8 DEF TypeInv
<1>10. CASE more = 0
  <2>1. EventOK(i)' /\ ReactOK(i)' /\ (Stored(Event(i))' <=> Stored(Event(i)))
    BY <1>1, <1>4, <1>5, <1>10, InboundStays
  <2>2. dispatched'[i] = dispatched[i]  BY <1>1, <1>6, <1>10 DEF TypeInv
  <2>3. \/ Stored(Event(i))
        \/ excused'[i] \cap {"stopped", "retired", "history"} # {}
    BY <1>1, <1>3, <1>4, <1>10, ExcuseType DEF Reasons
  <2>4. DispatchOK(i)'  BY <1>1, <1>5, <2>1, <2>2, <2>3, InboundIs DEF DispatchOK, TypeInv
  <2> QED  BY <1>8, <1>9, <2>1, <2>4, InboundMoved
<1>11. CASE more = 1
  <2>1. live /\ ~gone /\ ~Stored(Event(i)) /\ ~Taken(i)  BY <1>1, <1>3, <1>4, <1>11 DEF TypeInv
  <2>2. dispatched'[i] = dispatched[i] + 1 /\ dispatched[i] \in Nat  BY <1>1, <1>6, <1>11 DEF TypeInv
  <2>3. dispatched[i] > 0 => "write" \in excused[i]  BY <2>1, InboundIs DEF DispatchOK
  <2>4. CASE Insert(i, "received") /\ UNCHANGED excused
    <3>1. "received" \in Writers  BY DEF Writers
    <3>2. EventOK(i)' /\ ReactOK(i)'  BY <1>1, <1>5, <2>1, <2>4, <3>1, InboundInserted
    <3>3. Stored(Event(i))'  BY <1>1, <2>4, <3>1, EventWritten
    <3>4. DispatchOK(i)'  BY <2>2, <2>3, <2>4, <3>3 DEF DispatchOK
    <3> QED  BY <1>8, <1>9, <3>2, <3>4, InboundMoved
  <2>5. CASE UNCHANGED rows /\ Excuse(i, "write")
    <3>1. EventOK(i)' /\ ReactOK(i)' /\ (Stored(Event(i))' <=> Stored(Event(i)))
      BY <1>1, <1>5, <2>5, InboundStays
    <3>2. "write" \in excused'[i]  BY <1>1, <2>5, ExcuseType DEF Reasons
    <3>3. DispatchOK(i)'  BY <2>2, <3>2 DEF DispatchOK
    <3> QED  BY <1>8, <1>9, <3>1, <3>3, InboundMoved
  <2> QED  BY <1>4, <1>11, <2>4, <2>5
<1> QED  BY <1>10, <1>11
LEMMA HistoryReadsKept ==
  ASSUME IInv, NEW i \in Ids, HistoryReads(i)
  PROVE  IInv'
<1>1. UNCHANGED <<rows, send, engineHas, creating, fired, hooks, ack, chain, live, gone, faults,
                  dispatched, latest, excused>>
  BY DEF HistoryReads
<1>2. TypeInv'  BY <1>1 DEF IInv, TypeInv
<1>3. \A j \in Ids : Still(j)  BY <1>1 DEF Still
<1> QED  BY <1>2, <1>3, AllStill

LEMMA HistoryWritesKept ==
  ASSUME IInv, NEW i \in Ids, HistoryWrites(i)
  PROVE  IInv'
<1>1. /\ TypeInv
      /\ UNCHANGED <<send, engineHas, creating, fired, hooks, ack, chain, live, gone, dispatched, latest>>
  BY DEF IInv, HistoryWrites
<1>2. faults' \in 0 .. MaxFaults  BY <1>1, FaultType DEF HistoryWrites
<1>3. \/ UNCHANGED <<rows, excused>>
      \/ ~Taken(i) /\ Insert(i, "history") /\ Excuse(i, "history")
  BY DEF HistoryWrites
<1>4. CASE UNCHANGED <<rows, excused>>
  <2>1. TypeInv'  BY <1>1, <1>2, <1>4 DEF TypeInv
  <2>2. \A j \in Ids : Still(j)  BY <1>1, <1>4 DEF Still
  <2> QED  BY <2>1, <2>2, AllStill
<1>5. CASE ~Taken(i) /\ Insert(i, "history") /\ Excuse(i, "history")
  <2>1. "history" \in Writers /\ "history" \in Reasons  BY DEF Writers, Reasons
  <2>2. /\ excused' \in [Ids -> SUBSET Reasons] /\ excused'[i] = excused[i] \cup {"history"}
        /\ \A j \in Ids : j # i => excused'[j] = excused[j]
    BY <1>1, <1>5, <2>1, ExcuseType
  <2>3. /\ \A j \in Ids : j # i => Still(j)
        /\ rows' \in [Slots -> RowState \cup {NoRow}]
    BY <1>1, <1>5, <2>1, <2>2, OthersStill
  <2>4. TypeInv'  BY <1>1, <1>2, <2>2, <2>3 DEF TypeInv
  <2>5. CASE i \in Sends
    <3>1. EventOK(i)' /\ OwnOK(i)' /\ SendOK(i)' /\ KeptOK(i)' /\ ReactOK(i)'
      BY <1>1, <1>5, <2>1, <2>2, <2>5, SendInserted
    <3> QED  BY <2>3, <2>4, <2>5, <3>1, SendMoved
  <2>6. CASE i \in Inbound
    <3>1. EventOK(i)' /\ ReactOK(i)'
      BY <1>1, <1>5, <2>1, <2>2, <2>6, InboundInserted
    <3>2. Stored(Event(i))'  BY <1>1, <1>5, <2>1, EventWritten
    <3>3. DispatchOK(i)'  BY <1>1, <2>2, <2>6, <3>2, InboundIs DEF DispatchOK
    <3> QED  BY <2>3, <2>4, <2>6, <3>1, <3>3, InboundMoved
  <2> QED  BY <2>5, <2>6, Apart
<1> QED  BY <1>3, <1>4, <1>5

-----------------------------------------------------------------------------
(* Revocation and reactions *)

\* The rows of an id are changed, but not who wrote them, for what, and how far it is.
LEMMA HoldersChanged ==
  ASSUME IInv, NEW i \in Ids, UNCHANGED <<send, engineHas, fired, hooks, ack, live, gone, dispatched>>,
         \A h \in Slots : h \notin Holders(i) => rows'[h] = rows[h],
         \A h \in Holders(i) : /\ rows'[h] \in RowState /\ rows'[h].by = rows[h].by
                               /\ rows'[h].id = rows[h].id /\ rows'[h].status = rows[h].status,
         \A j \in Ids : j # i => excused'[j] = excused[j],
         \A j \in Ids : j # i => chain'[j] = chain[j] /\ latest'[j] = latest[j],
         excused[i] \subseteq excused'[i]
  PROVE  /\ \A j \in Ids : j # i => Still(j)
         /\ Stored(Event(i))' <=> Stored(Event(i))
         /\ i \in Sends => (Named(i)' <=> Named(i))
         /\ EventOK(i)'
         /\ i \in Sends => OwnOK(i)' /\ SendOK(i)' /\ KeptOK(i)'
         /\ i \in Inbound => DispatchOK(i)'
<1>1. \A h \in Slots : /\ Stored(h)' <=> Stored(h)
                       /\ Stored(h) => /\ rows'[h].by = rows[h].by /\ rows'[h].id = rows[h].id
                                       /\ rows'[h].status = rows[h].status
  <2>1. \A h \in Holders(i) : Stored(h)'  BY NoRowIsNone DEF Stored
  <2>2. \A h \in Holders(i) : Stored(h)  BY DEF Holders
  <2>3. \A h \in Slots : h \notin Holders(i) => (Stored(h)' <=> Stored(h))  BY DEF Stored
  <2> QED  BY <2>1, <2>2, <2>3
<1>2. ASSUME NEW j \in Ids, j # i  PROVE Still(j)
  <2>1. Event(j) \in Slots /\ Event(j) \notin Holders(i)  BY <1>2, SlotsAre, HoldersAre
  <2>2. j \in Sends => Own(j) \in Slots /\ Own(j) \notin Holders(i)  BY <1>2, SlotsAre, HoldersAre
  <2>3. rows'[Event(j)] = rows[Event(j)] /\ (j \in Sends => rows'[Own(j)] = rows[Own(j)])
    BY <2>1, <2>2
  <2> QED  BY <1>2, <2>3 DEF Still
<1>3. IdOK(i)  BY DEF IInv
<1>4. /\ Event(i) \in Slots
      /\ i \in Sends => Own(i) \in Slots
  BY SlotsAre
<1>5. EventOK(i)'  BY <1>1, <1>3, <1>4 DEF IdOK, EventOK
<1>6. ASSUME i \in Sends  PROVE OwnOK(i)' /\ SendOK(i)' /\ KeptOK(i)'
  <2>1. /\ Stored(Own(i))' <=> Stored(Own(i))
        /\ Stored(Event(i))' <=> Stored(Event(i))
        /\ Named(i)' <=> Named(i)
    BY <1>1, <1>4, <1>6 DEF Named
  <2>2. OwnOK(i)'
    <3>1. ~Named(i) => rows'[Own(i)] = rows[Own(i)]  BY <1>4, <1>6, HoldersAre, SlotsAre
    <3> QED  BY <1>1, <1>3, <1>4, <1>6, <2>1, <3>1 DEF IdOK, OwnOK
  <2>3. SendOK(i)'  BY <1>3, <1>6, <2>1 DEF IdOK, SendOK
  <2>4. KeptOK(i)'
    <3>1. Named(i) => rows'[Own(i)].status = rows[Own(i)].status  BY <1>1, <1>4, <1>6 DEF Named
    <3>2. Stored(Event(i)) => rows'[Event(i)].status = rows[Event(i)].status  BY <1>1, <1>4
    <3> QED  BY <1>3, <1>6, <2>1, <3>1, <3>2 DEF IdOK, KeptOK
  <2> QED  BY <2>2, <2>3, <2>4
<1>7. ASSUME i \in Inbound  PROVE DispatchOK(i)'
  BY <1>1, <1>3, <1>4, <1>7 DEF IdOK, DispatchOK
<1>8. i \in Sends => (Named(i)' <=> Named(i))  BY <1>1, <1>4 DEF Named
<1> QED  BY <1>1, <1>2, <1>4, <1>5, <1>6, <1>7, <1>8

LEMMA HolderType ==
  ASSUME IInv, NEW i \in Ids, NEW h \in Holders(i)
  PROVE  h \in Slots /\ Stored(h) /\ rows[h] \in RowState
BY StoredType DEF IInv, Holders

\* Whichever row the message has, it is the one that shows its reactions.
LEMMA ShownBy ==
  ASSUME IInv, NEW i \in Ids, NEW h \in Holders(i)
  PROVE  /\ Here(i) /\ Shown(i) = rows[h].reactions
         /\ (Stored(Event(i))' <=> Stored(Event(i))) /\ (i \in Sends => (Named(i)' <=> Named(i)))
              => Shown(i)' = rows'[h].reactions /\ Here(i)'
<1>1. \/ h = Event(i) /\ Stored(Event(i))
      \/ i \in Sends /\ h = Own(i) /\ Named(i)
  BY HoldersAre
<1>2. i \in Sends /\ Named(i) => ~Stored(Event(i))  BY SendIs DEF OwnOK
<1> QED  BY <1>1, <1>2 DEF Here, Shown

LEMMA HereHolds ==
  ASSUME IInv, NEW i \in Ids, Here(i)
  PROVE  \E h \in Holders(i) : TRUE
BY HoldersAre DEF Here

LEMMA IdMoved ==
  ASSUME IInv, NEW i \in Ids, TypeInv', EventOK(i)', ReactOK(i)',
         i \in Sends => OwnOK(i)' /\ SendOK(i)' /\ KeptOK(i)',
         i \in Inbound => DispatchOK(i)', \A j \in Ids : j # i => Still(j)
  PROVE  IInv'
<1>1. IdOK(i)'  BY DEF IdOK
<1>2. \A j \in Ids : IdOK(j)'  BY <1>1, StillKept DEF IInv
<1> QED  BY <1>2 DEF IInv

LEMMA RevokedKept ==
  ASSUME IInv, NEW i \in Ids, Revoked(i)
  PROVE  IInv'
<1>1. /\ TypeInv /\ Taken(i)
      /\ rows' = [k \in Slots |-> IF k \in Holders(i) THEN [rows[k] EXCEPT !.blank = TRUE] ELSE rows[k]]
      /\ UNCHANGED <<send, engineHas, creating, fired, hooks, ack, chain, live, gone, faults, dispatched,
                     latest, excused>>
  BY DEF IInv, Revoked
<1>2. \A h \in Slots : h \notin Holders(i) => rows'[h] = rows[h]  BY <1>1
<1>3. ASSUME NEW h \in Holders(i)
      PROVE  /\ rows'[h] \in RowState /\ rows'[h].by = rows[h].by /\ rows'[h].id = rows[h].id
             /\ rows'[h].status = rows[h].status /\ rows'[h].reactions = rows[h].reactions
  <2>1. h \in Slots /\ rows[h] \in RowState  BY HolderType
  <2>2. rows'[h] = [rows[h] EXCEPT !.blank = TRUE]  BY <1>1, <2>1
  <2> QED  BY <2>1, <2>2 DEF RowState
<1>4. rows' \in [Slots -> RowState \cup {NoRow}]
  <2>1. \A h \in Slots : rows'[h] \in RowState \cup {NoRow}  BY <1>1, <1>2, <1>3 DEF TypeInv
  <2> QED  BY <1>1, <2>1
<1>5. TypeInv'  BY <1>1, <1>4 DEF TypeInv
<1>6. /\ \A j \in Ids : j # i => Still(j)
      /\ Stored(Event(i))' <=> Stored(Event(i))
      /\ i \in Sends => (Named(i)' <=> Named(i))
      /\ EventOK(i)'
      /\ i \in Sends => OwnOK(i)' /\ SendOK(i)' /\ KeptOK(i)'
      /\ i \in Inbound => DispatchOK(i)'
  BY <1>1, <1>2, <1>3, HoldersChanged
<1>7. ReactOK(i)'
  <2>1. PICK h \in Holders(i) : TRUE  BY <1>1 DEF Taken
  <2>2. Shown(i)' = Shown(i) /\ Here(i)'  BY <1>3, <1>6, <2>1, ShownBy
  <2>3. ReactOK(i)  BY DEF IInv, IdOK
  <2> QED  BY <1>1, <2>2, <2>3, ReactStays
<1> QED  BY <1>5, <1>6, <1>7, IdMoved

\* A step that touches no row leaves all but the reactions as it was.
LEMMA RestStays ==
  ASSUME IInv, NEW i \in Ids, UNCHANGED <<rows, send, engineHas, fired, hooks, ack, live, gone, dispatched>>,
         \A j \in Ids : j # i => /\ excused'[j] = excused[j]
                                 /\ chain'[j] = chain[j] /\ latest'[j] = latest[j],
         excused[i] \subseteq excused'[i]
  PROVE  /\ \A j \in Ids : j # i => Still(j)
         /\ EventOK(i)'
         /\ i \in Sends => OwnOK(i)' /\ SendOK(i)' /\ KeptOK(i)'
         /\ i \in Inbound => DispatchOK(i)'
         /\ Shown(i)' = Shown(i) /\ (Here(i)' <=> Here(i))
<1>1. \A h \in Holders(i) : rows[h] \in RowState  BY HolderType
<1>2. Shown(i)' = Shown(i) /\ (Here(i)' <=> Here(i))  BY DEF Shown, Here, Stored, Named
<1> QED  BY <1>1, <1>2, HoldersChanged

LEMMA ReactionFiresKept ==
  ASSUME IInv, NEW i \in Ids, NEW p \in Senders, NEW e \in Emoji, ReactionFires(i, p, e)
  PROVE  IInv'
<1> DEFINE c == chain[i]
           r == [from |-> p, emoji |-> e, read |-> <<>>]
<1>1. /\ TypeInv
      /\ chain' = [chain EXCEPT ![i] = Append(c, r)]
      /\ latest' = [latest EXCEPT ![i][p] = e]
      /\ UNCHANGED <<rows, send, engineHas, creating, fired, hooks, ack, live, gone, faults, dispatched,
                     excused>>
  BY DEF IInv, ReactionFires
<1>2. c \in Seq(Link) /\ r \in Link  BY <1>1 DEF TypeInv, Link
<1>3. r.from = p /\ r.emoji = e /\ r.read = <<>>  OBVIOUS
<1> HIDE DEF r
<1>4. /\ Append(c, r) \in Seq(Link) /\ Len(c) \in Nat
      /\ DOMAIN c = 1 .. Len(c) /\ DOMAIN Append(c, r) = 1 .. Len(c) + 1
      /\ \A k \in 1 .. Len(c) : Append(c, r)[k] = c[k]
      /\ Append(c, r)[Len(c) + 1] = r
  BY <1>2
<1>5. /\ chain' \in [Ids -> Seq(Link)] /\ chain'[i] = Append(c, r)
      /\ \A j \in Ids : j # i => chain'[j] = chain[j]
  BY <1>1, <1>4 DEF TypeInv
<1>6. /\ latest' \in [Ids -> Reactions]
      /\ \A q \in Senders : latest'[i][q] = IF q = p THEN e ELSE latest[i][q]
      /\ \A j \in Ids : j # i => latest'[j] = latest[j]
  BY <1>1 DEF TypeInv, Reactions
<1>7. TypeInv'  BY <1>1, <1>5, <1>6 DEF TypeInv
<1>8. /\ \A j \in Ids : j # i => Still(j)
      /\ EventOK(i)'
      /\ i \in Sends => OwnOK(i)' /\ SendOK(i)' /\ KeptOK(i)'
      /\ i \in Inbound => DispatchOK(i)'
      /\ Shown(i)' = Shown(i) /\ (Here(i)' <=> Here(i))
  BY <1>1, <1>5, <1>6, RestStays
<1>9. ReactOK(i)'
  <2>1. SUFFICES ASSUME live, excused[i] \cap {"early", "write"} = {}
                 PROVE  /\ \A q \in Senders :
                             (\A k \in DOMAIN chain'[i] : chain'[i][k].from # q) => Shown(i)[q] = latest'[i][q]
                        /\ \A k \in DOMAIN chain'[i] :
                             LastOf(i, k)' => chain'[i][k].emoji = latest'[i][chain'[i][k].from]
                        /\ \A k \in DOMAIN chain'[i] : chain'[i][k].read # <<>> =>
                             k = 1 /\ Here(i) /\ chain'[i][k].read[1].reactions = Shown(i)
    BY <1>1, <1>8 DEF ReactOK
  <2>2. ReactOK(i)  BY DEF IInv, IdOK
  <2>3. ASSUME NEW q \in Senders, \A k \in DOMAIN chain'[i] : chain'[i][k].from # q
        PROVE  Shown(i)[q] = latest'[i][q]
    <3>1. q # p  BY <1>3, <1>4, <1>5, <2>3
    <3>2. \A k \in DOMAIN c : c[k].from # q  BY <1>4, <1>5, <2>3
    <3> QED  BY <1>6, <2>1, <2>2, <3>1, <3>2 DEF ReactOK
  <2>4. ASSUME NEW k \in DOMAIN chain'[i], LastOf(i, k)'
        PROVE  chain'[i][k].emoji = latest'[i][chain'[i][k].from]
    <3>1. CASE k = Len(c) + 1  BY <1>3, <1>4, <1>5, <1>6, <3>1
    <3>2. CASE k \in 1 .. Len(c)
      <4>1. chain'[i][k] = c[k]  BY <1>4, <1>5, <3>2
      <4>2. \A j \in DOMAIN chain'[i] : j > k => chain'[i][j].from # c[k].from
        BY <2>4, <4>1 DEF LastOf
      <4>3. c[k].from # p  BY <1>3, <1>4, <1>5, <3>2, <4>2
      <4>4. LastOf(i, k)  BY <1>4, <1>5, <4>2 DEF LastOf
      <4>5. c[k].emoji = latest[i][c[k].from]  BY <1>4, <2>1, <2>2, <3>2, <4>4 DEF ReactOK
      <4>6. c[k].from \in Senders
        <5>1. c[k] \in Link  BY <1>2, <1>4, <3>2
        <5> QED  BY <5>1 DEF Link
      <4> QED  BY <1>6, <4>1, <4>3, <4>5, <4>6
    <3> QED  BY <1>4, <1>5, <2>4, <3>1, <3>2
  <2>5. ASSUME NEW k \in DOMAIN chain'[i], chain'[i][k].read # <<>>
        PROVE  k = 1 /\ Here(i) /\ chain'[i][k].read[1].reactions = Shown(i)
    <3>1. k \in 1 .. Len(c)  BY <1>3, <1>4, <1>5, <2>5
    <3>2. chain'[i][k] = c[k]  BY <1>4, <1>5, <3>1
    <3> QED  BY <1>4, <2>1, <2>2, <2>5, <3>1, <3>2 DEF ReactOK
  <2> QED  BY <2>3, <2>4, <2>5
<1> QED  BY <1>7, <1>8, <1>9, IdMoved

\* One reaction leaves the chain; the ones behind it move up.
LEMMA SettledIs ==
  ASSUME TypeInv, NEW i \in Ids, NEW k \in DOMAIN chain[i], Settled(i, k)
  PROVE  /\ chain' \in [Ids -> Seq(Link)]
         /\ \A j \in Ids : j # i => chain'[j] = chain[j]
         /\ k = 1 => /\ DOMAIN chain'[i] = 1 .. Len(chain[i]) - 1
                     /\ \A j \in 1 .. Len(chain[i]) - 1 : chain'[i][j] = chain[i][j + 1]
<1> DEFINE c == chain[i]
<1>1. c \in Seq(Link) /\ Len(c) \in Nat /\ DOMAIN c = 1 .. Len(c) /\ k \in 1 .. Len(c)  BY DEF TypeInv
<1> DEFINE s == SubSeq(c, 1, k - 1)
           t == SubSeq(c, k + 1, Len(c))
<1>2. s \in Seq(Link)
  <2>1. \A j \in 1 .. k - 1 : c[j] \in Link  BY <1>1
  <2> QED  BY <1>1, <2>1, SubSeqProperties
<1>3. /\ t \in Seq(Link) /\ Len(t) = Len(c) - k
      /\ \A j \in 1 .. Len(c) - k : t[j] = c[k + j]
  <2>1. t \in Seq(Link)  BY <1>1, SubSeqProperties
  <2>2. Len(t) = Len(c) - k
    <3>1. CASE k = Len(c)  BY <1>1, <3>1, SubSeqProperties
    <3>2. CASE k < Len(c)  BY <1>1, <3>2, SubSeqProperties
    <3> QED  BY <1>1, <3>1, <3>2
  <2>3. \A j \in 1 .. Len(c) - k : t[j] = c[k + 1 + j - 1]  BY <1>1, <2>2, SubSeqProperties
  <2>4. \A j \in 1 .. Len(c) - k : k + 1 + j - 1 = k + j  BY <1>1
  <2> QED  BY <2>1, <2>2, <2>3, <2>4
<1>4. k = 1 => s = <<>>  BY <1>1, SubSeqEmpty
<1> HIDE DEF s, t
<1>5. s \o t \in Seq(Link)  BY <1>2, <1>3
<1>6. k = 1 => s \o t = t  BY <1>3, <1>4, ConcatEmptySeq
<1>7. chain' = [chain EXCEPT ![i] = s \o t]  BY DEF Settled, s, t
<1>8. /\ chain' \in [Ids -> Seq(Link)] /\ chain'[i] = s \o t
      /\ \A j \in Ids : j # i => chain'[j] = chain[j]
  BY <1>5, <1>7 DEF TypeInv
<1>9. ASSUME k = 1
      PROVE  /\ DOMAIN chain'[i] = 1 .. Len(c) - 1
             /\ \A j \in 1 .. Len(c) - 1 : chain'[i][j] = c[j + 1]
  <2>1. chain'[i] = t /\ DOMAIN t = 1 .. Len(c) - 1  BY <1>3, <1>6, <1>8, <1>9
  <2>2. \A j \in 1 .. Len(c) - 1 : 1 + j = j + 1  BY <1>1
  <2> QED  BY <1>3, <1>9, <2>1, <2>2
<1> QED  BY <1>8, <1>9

LEMMA ReactionReadsKept ==
  ASSUME IInv, NEW i \in Ids, NEW k \in Nat, ReactionReads(i, k)
  PROVE  IInv'
<1>1. /\ TypeInv /\ k \in DOMAIN chain[i] /\ k = 1
      /\ UNCHANGED <<rows, send, engineHas, creating, fired, hooks, ack, live, gone, faults, dispatched,
                     latest>>
  BY DEF IInv, ReactionReads, Turn
<1>2. CASE Settled(i, k) /\ Excuse(i, "early")
  <2>1. "early" \in Reasons  BY DEF Reasons
  <2>2. /\ excused' \in [Ids -> SUBSET Reasons] /\ excused'[i] = excused[i] \cup {"early"}
        /\ \A j \in Ids : j # i => excused'[j] = excused[j]
    BY <1>1, <1>2, <2>1, ExcuseType
  <2>3. /\ chain' \in [Ids -> Seq(Link)]
        /\ \A j \in Ids : j # i => chain'[j] = chain[j]
    BY <1>1, <1>2, SettledIs
  <2>4. TypeInv'  BY <1>1, <2>2, <2>3 DEF TypeInv
  <2>5. ReactOK(i)'  BY <2>2 DEF ReactOK
  <2> QED  BY <1>1, <2>2, <2>3, <2>4, <2>5, RestStays, IdMoved
<1>3. ASSUME UNCHANGED excused, NEW h \in Holders(i),
             chain' = [chain EXCEPT ![i][k].read = <<rows[h]>>]
      PROVE  IInv'
  <2> DEFINE c == chain[i]
             v == <<rows[h]>>
  <2>1. Here(i) /\ Shown(i) = rows[h].reactions  BY <1>3, ShownBy
  <2>2. v # <<>> /\ v[1].reactions = Shown(i)  BY <2>1
  <2>3. v \in {<<row>> : row \in RowState}  BY <1>3, HolderType
  <2> HIDE DEF v
  <2>4. c \in Seq(Link) /\ Len(c) \in Nat /\ DOMAIN c = 1 .. Len(c) /\ c[k] \in Link  BY <1>1 DEF TypeInv
  <2> DEFINE d == [c EXCEPT ![k].read = v]
  <2>5. /\ d \in Seq(Link) /\ DOMAIN d = DOMAIN c
        /\ \A j \in DOMAIN c : d[j].from = c[j].from /\ d[j].emoji = c[j].emoji
        /\ \A j \in DOMAIN c : d[j].read = IF j = k THEN v ELSE c[j].read
    <3>1. [c[k] EXCEPT !.read = v] \in Link  BY <2>3, <2>4 DEF Link
    <3>2. d = [c EXCEPT ![k] = [c[k] EXCEPT !.read = v]]  OBVIOUS
    <3>3. d \in Seq(Link) /\ DOMAIN d = DOMAIN c  BY <1>1, <2>4, <3>1, <3>2, ExceptSeq
    <3>4. \A j \in DOMAIN c : d[j] = IF j = k THEN [c[k] EXCEPT !.read = v] ELSE c[j]
      BY <1>1, <2>4, <3>2
    <3>5. c[k] = [from |-> c[k].from, emoji |-> c[k].emoji, read |-> c[k].read]  BY <2>4 DEF Link
    <3>6. LET w == [c[k] EXCEPT !.read = v]
          IN  w.from = c[k].from /\ w.emoji = c[k].emoji /\ w.read = v
      BY <3>5
    <3> QED  BY <3>3, <3>4, <3>6
  <2>6. chain' = [chain EXCEPT ![i] = d]  BY <1>3 DEF v
  <2> HIDE DEF d
  <2>7. /\ chain' \in [Ids -> Seq(Link)] /\ chain'[i] = d
        /\ \A j \in Ids : j # i => chain'[j] = chain[j]
    BY <1>1, <2>5, <2>6 DEF TypeInv
  <2>8. TypeInv'  BY <1>1, <1>3, <2>7 DEF TypeInv
  <2>9. /\ \A j \in Ids : j # i => Still(j)
        /\ EventOK(i)'
        /\ i \in Sends => OwnOK(i)' /\ SendOK(i)' /\ KeptOK(i)'
        /\ i \in Inbound => DispatchOK(i)'
        /\ Shown(i)' = Shown(i) /\ (Here(i)' <=> Here(i))
    BY <1>1, <1>3, <2>7, RestStays
  <2>10. \A j \in DOMAIN c : LastOf(i, j)' <=> LastOf(i, j)  BY <2>5, <2>7 DEF LastOf
  <2>11. ReactOK(i)'
    <3>1. /\ Shown(i)' = Shown(i) /\ (Here(i)' <=> Here(i))
          /\ chain'[i] = d /\ latest' = latest /\ live' = live /\ excused' = excused
      BY <1>1, <1>3, <2>7, <2>9
    <3>2. SUFFICES ASSUME live, excused[i] \cap {"early", "write"} = {}
          PROVE  /\ \A q \in Senders : (\A j \in DOMAIN d : d[j].from # q) => Shown(i)[q] = latest[i][q]
                 /\ \A j \in DOMAIN d : LastOf(i, j)' => d[j].emoji = latest[i][d[j].from]
                 /\ \A j \in DOMAIN d : d[j].read # <<>> =>
                        j = 1 /\ Here(i) /\ d[j].read[1].reactions = Shown(i)
      BY <3>1 DEF ReactOK
    <3>3. ReactOK(i)  BY DEF IInv, IdOK
    <3>4. \A q \in Senders : (\A j \in DOMAIN d : d[j].from # q) => Shown(i)[q] = latest[i][q]
      BY <2>5, <3>2, <3>3 DEF ReactOK
    <3>5. \A j \in DOMAIN d : LastOf(i, j)' => d[j].emoji = latest[i][d[j].from]
      BY <2>5, <2>10, <3>2, <3>3 DEF ReactOK
    <3>6. ASSUME NEW j \in DOMAIN d, d[j].read # <<>>
          PROVE  j = 1 /\ Here(i) /\ d[j].read[1].reactions = Shown(i)
      <4>1. CASE j = k  BY <1>1, <2>1, <2>2, <2>5, <4>1
      <4>2. CASE j # k
        <5>1. j \in DOMAIN c /\ d[j].read = c[j].read  BY <2>5, <4>2
        <5> QED  BY <3>2, <3>3, <3>6, <5>1 DEF ReactOK
      <4> QED  BY <4>1, <4>2
    <3> QED  BY <3>4, <3>5, <3>6
  <2> QED  BY <2>8, <2>9, <2>11, IdMoved
<1> QED
  <2>1. CASE /\ UNCHANGED excused
             /\ \E h \in Holders(i) : chain' = [chain EXCEPT ![i][k].read = <<rows[h]>>]
    BY <1>3, <2>1
  <2> QED  BY <1>2, <2>1 DEF ReactionReads

LEMMA ReactionWritesKept ==
  ASSUME IInv, NEW i \in Ids, NEW k \in Nat, ReactionWrites(i, k)
  PROVE  IInv'
<1> DEFINE c == chain[i]
           f == With(c[k])
<1>1. /\ TypeInv /\ k \in DOMAIN c /\ c[k].read # <<>> /\ Settled(i, k)
      /\ UNCHANGED <<send, engineHas, creating, fired, hooks, ack, live, gone, dispatched, latest>>
  BY DEF IInv, ReactionWrites, Applied
<1>2. faults' \in 0 .. MaxFaults  BY <1>1, FaultType DEF ReactionWrites, Applied
<1>3. /\ chain' \in [Ids -> Seq(Link)]
      /\ \A j \in Ids : j # i => chain'[j] = chain[j]
      /\ k = 1 => /\ DOMAIN chain'[i] = 1 .. Len(c) - 1
                  /\ \A j \in 1 .. Len(c) - 1 : chain'[i][j] = c[j + 1]
  BY <1>1, SettledIs
<1>4. c \in Seq(Link) /\ Len(c) \in Nat /\ DOMAIN c = 1 .. Len(c)  BY <1>1 DEF TypeInv
<1>5. c[k] \in Link  BY <1>1, <1>4
<1>6. /\ c[k].read[1].reactions \in Reactions /\ f \in Reactions
      /\ \A p \in Senders : f[p] = IF p = c[k].from THEN c[k].emoji ELSE c[k].read[1].reactions[p]
  <2>1. c[k].from \in Senders /\ c[k].emoji \in Emoji  BY <1>5 DEF Link
  <2>2. c[k].read \in {<<row>> : row \in RowState}  BY <1>1, <1>5 DEF Link
  <2>3. c[k].read[1].reactions \in Reactions  BY <2>2 DEF RowState
  <2> QED  BY <2>1, <2>3 DEF Reactions, With
<1>7. CASE Excuse(i, "write") /\ UNCHANGED rows
  <2>1. "write" \in Reasons  BY DEF Reasons
  <2>2. /\ excused' \in [Ids -> SUBSET Reasons] /\ excused'[i] = excused[i] \cup {"write"}
        /\ \A j \in Ids : j # i => excused'[j] = excused[j]
    BY <1>1, <1>7, <2>1, ExcuseType
  <2>3. TypeInv'  BY <1>1, <1>2, <1>3, <1>7, <2>2 DEF TypeInv
  <2>4. ReactOK(i)'  BY <2>2 DEF ReactOK
  <2> QED  BY <1>1, <1>3, <1>7, <2>2, <2>3, <2>4, RestStays, IdMoved
<1>8. CASE /\ UNCHANGED excused
           /\ rows' = [h \in Slots |-> IF h \in Holders(i) THEN [rows[h] EXCEPT !.reactions = f]
                                                           ELSE rows[h]]
  <2> HIDE DEF f
  <2>1. \A h \in Slots : h \notin Holders(i) => rows'[h] = rows[h]  BY <1>8
  <2>2. ASSUME NEW h \in Holders(i)
        PROVE  /\ rows'[h] \in RowState /\ rows'[h].by = rows[h].by /\ rows'[h].id = rows[h].id
               /\ rows'[h].status = rows[h].status /\ rows'[h].reactions = f
    <3>1. h \in Slots /\ rows[h] \in RowState  BY <1>1, HolderType
    <3>2. rows'[h] = [rows[h] EXCEPT !.reactions = f]  BY <1>8, <3>1
    <3> QED  BY <1>6, <3>1, <3>2 DEF RowState
  <2>3. rows' \in [Slots -> RowState \cup {NoRow}]
    <3>1. \A h \in Slots : rows'[h] \in RowState \cup {NoRow}  BY <1>1, <2>1, <2>2 DEF TypeInv
    <3> QED  BY <1>8, <3>1
  <2>4. TypeInv'  BY <1>1, <1>2, <1>3, <1>8, <2>3 DEF TypeInv
  <2>5. /\ \A j \in Ids : j # i => Still(j)
        /\ Stored(Event(i))' <=> Stored(Event(i))
        /\ i \in Sends => (Named(i)' <=> Named(i))
        /\ EventOK(i)'
        /\ i \in Sends => OwnOK(i)' /\ SendOK(i)' /\ KeptOK(i)'
        /\ i \in Inbound => DispatchOK(i)'
    BY <1>1, <1>3, <1>8, <2>1, <2>2, HoldersChanged
  <2>6. ReactOK(i)'
    <3>1. SUFFICES ASSUME live, excused[i] \cap {"early", "write"} = {}  PROVE ReactOK(i)'
      BY <1>1, <1>8 DEF ReactOK
    <3>2. ReactOK(i)  BY DEF IInv, IdOK
    <3>3. k = 1 /\ Here(i) /\ c[1].read[1].reactions = Shown(i)
      BY <1>1, <3>1, <3>2 DEF ReactOK
    <3>4. \A p \in Senders : f[p] = IF p = c[1].from THEN c[1].emoji ELSE Shown(i)[p]
      BY <1>6, <3>3
    <3>5. Shown(i)' = f
      <4>1. PICK h \in Holders(i) : TRUE  BY <3>3, HereHolds
      <4> QED  BY <2>2, <2>5, <4>1, ShownBy
    <3>6. /\ DOMAIN chain'[i] = 1 .. Len(c) - 1
          /\ \A j \in 1 .. Len(c) - 1 : j + 1 \in DOMAIN c /\ chain'[i][j] = c[j + 1]
      BY <1>3, <1>4, <3>3
    <3>7. ASSUME NEW p \in Senders, \A j \in DOMAIN chain'[i] : chain'[i][j].from # p
          PROVE  Shown(i)'[p] = latest'[i][p]
      <4>1. \A j \in DOMAIN c : j > 1 => c[j].from # p
        <5>1. SUFFICES ASSUME NEW j \in DOMAIN c, j > 1  PROVE c[j].from # p
          OBVIOUS
        <5>2. j - 1 \in 1 .. Len(c) - 1 /\ (j - 1) + 1 = j  BY <1>4, <5>1
        <5>3. chain'[i][j - 1] = c[j] /\ j - 1 \in DOMAIN chain'[i]  BY <3>6, <5>2
        <5> QED  BY <3>7, <5>3
      <4>2. CASE p = c[1].from
        <5>1. LastOf(i, 1)  BY <4>1, <4>2 DEF LastOf
        <5>2. c[1].emoji = latest[i][p]  BY <1>1, <3>1, <3>2, <3>3, <4>2, <5>1 DEF ReactOK
        <5> QED  BY <1>1, <3>4, <3>5, <4>2, <5>2
      <4>3. CASE p # c[1].from
        <5>1. \A j \in DOMAIN c : c[j].from # p
          <6>1. \A j \in DOMAIN c : j = 1 \/ j > 1  BY <1>4
          <6> QED  BY <4>1, <4>3, <6>1
        <5>2. Shown(i)[p] = latest[i][p]  BY <3>1, <3>2, <5>1 DEF ReactOK
        <5> QED  BY <1>1, <3>4, <3>5, <4>3, <5>2
      <4> QED  BY <4>2, <4>3
    <3>8. ASSUME NEW j \in DOMAIN chain'[i], LastOf(i, j)'
          PROVE  chain'[i][j].emoji = latest'[i][chain'[i][j].from]
      <4>1. j \in 1 .. Len(c) - 1 /\ j + 1 \in DOMAIN c /\ chain'[i][j] = c[j + 1]  BY <3>6
      <4>2. LastOf(i, j + 1)
        <5>1. SUFFICES ASSUME NEW m \in DOMAIN c, m > j + 1  PROVE c[m].from # c[j + 1].from
          BY DEF LastOf
        <5>2. m - 1 \in 1 .. Len(c) - 1 /\ m - 1 > j /\ (m - 1) + 1 = m  BY <1>4, <4>1, <5>1
        <5>3. chain'[i][m - 1].from # chain'[i][j].from  BY <3>6, <3>8, <5>2 DEF LastOf
        <5>4. chain'[i][m - 1] = c[m]  BY <3>6, <5>2
        <5> QED  BY <4>1, <5>3, <5>4
      <4>3. c[j + 1].emoji = latest[i][c[j + 1].from]  BY <3>1, <3>2, <4>1, <4>2 DEF ReactOK
      <4> QED  BY <1>1, <4>1, <4>3
    <3>9. ASSUME NEW j \in DOMAIN chain'[i]  PROVE chain'[i][j].read = <<>>
      <4>1. j \in 1 .. Len(c) - 1 /\ j + 1 \in DOMAIN c /\ chain'[i][j] = c[j + 1]  BY <3>6
      <4>2. c[j + 1].read # <<>> => j + 1 = 1  BY <3>1, <3>2, <4>1 DEF ReactOK
      <4> QED  BY <1>4, <4>1, <4>2
    <3> QED  BY <3>7, <3>8, <3>9 DEF ReactOK
  <2> QED  BY <2>4, <2>5, <2>6, IdMoved
<1> QED  BY <1>7, <1>8 DEF ReactionWrites, Applied

-----------------------------------------------------------------------------
(* The deletion of the session *)

LEMMA EngineEvictedKept ==
  ASSUME IInv, EngineEvicted
  PROVE  IInv'
<1>1. /\ live' = FALSE
      /\ UNCHANGED <<rows, send, engineHas, creating, fired, hooks, ack, chain, gone, faults, dispatched,
                     latest, excused>>
  BY DEF EngineEvicted
<1>2. TypeInv'  BY <1>1 DEF IInv, TypeInv
<1>3. \A j \in Ids : Still(j)  BY <1>1 DEF Still
<1> QED  BY <1>2, <1>3, AllStill

LEMMA RowsDeletedKept ==
  ASSUME IInv, RowsDeleted
  PROVE  IInv'
<1>1. /\ TypeInv /\ ~live /\ gone' = TRUE /\ rows' = [k \in Slots |-> NoRow]
      /\ UNCHANGED <<send, engineHas, creating, fired, hooks, ack, chain, live, faults, dispatched,
                     latest, excused>>
  BY DEF IInv, RowsDeleted
<1>2. rows' \in [Slots -> RowState \cup {NoRow}] /\ ~live'  BY <1>1
<1>3. TypeInv'  BY <1>1, <1>2 DEF TypeInv
<1>4. ASSUME NEW j \in Ids  PROVE IdOK(j)'
  <2>1. IdOK(j)  BY DEF IInv
  <2>2. ~Stored(Event(j))' /\ (j \in Sends => ~Stored(Own(j))')  BY <1>1, SlotsAre DEF Stored
  <2>3. EventOK(j)'  BY <2>2 DEF EventOK
  <2>4. ASSUME j \in Sends  PROVE OwnOK(j)' /\ SendOK(j)' /\ KeptOK(j)'
    <3>1. SendOK(j)'  BY <1>1, <1>2, <2>1, <2>2, <2>4 DEF IdOK, SendOK
    <3> QED  BY <1>2, <2>2, <2>4, <3>1 DEF OwnOK, KeptOK, Named
  <2>5. ASSUME j \in Inbound  PROVE DispatchOK(j)'
    BY <1>1, <1>2, <2>1, <2>2, <2>5 DEF IdOK, DispatchOK
  <2>6. ReactOK(j)'  BY <1>2 DEF ReactOK
  <2> QED  BY <2>3, <2>4, <2>5, <2>6 DEF IdOK
<1> QED  BY <1>3, <1>4 DEF IInv

-----------------------------------------------------------------------------
(* The invariant *)

LEMMA InitHolds ==
  ASSUME StoreInit
  PROVE  IInv
<1>1. NoReactions \in Reactions  BY DEF NoReactions, Reactions, Emoji
<1>2. TypeInv
  <2>1. /\ rows \in [Slots -> RowState \cup {NoRow}]
        /\ send \in [Sends -> Points] /\ engineHas \subseteq Sends
        /\ creating \in [Sends -> {"none", "hook", "done"}]
        /\ fired \in [Inbound -> Nat] /\ hooks \in [Inbound -> Nat]
        /\ ack \in [Sends -> [Acks -> {"none", "waiting", "kept", "lost"}]]
    BY DEF StoreInit, Points
  <2>2. chain \in [Ids -> Seq(Link)]  BY DEF StoreInit
  <2>3. faults \in 0 .. MaxFaults  BY Apart DEF StoreInit
  <2>4. dispatched \in [Ids -> Nat] /\ latest \in [Ids -> Reactions] /\ excused \in [Ids -> SUBSET Reasons]
    BY <1>1 DEF StoreInit
  <2> QED  BY <2>1, <2>2, <2>3, <2>4 DEF TypeInv, StoreInit
<1>3. ASSUME NEW i \in Ids  PROVE IdOK(i)
  <2>1. ~Stored(Event(i)) /\ (i \in Sends => ~Stored(Own(i)))  BY SlotsAre DEF StoreInit, Stored
  <2>2. EventOK(i)  BY <2>1 DEF EventOK
  <2>3. ASSUME i \in Sends  PROVE OwnOK(i) /\ SendOK(i) /\ KeptOK(i)
    <3>1. send[i] = "idle" /\ engineHas = {} /\ \A a \in Acks : ack[i][a] = "none"
      BY <2>3 DEF StoreInit
    <3> QED  BY <2>1, <2>3, <3>1 DEF OwnOK, SendOK, KeptOK, Named, Waits
  <2>4. ASSUME i \in Inbound  PROVE DispatchOK(i)
    <3>1. dispatched[i] = 0 /\ fired[i] = 0  BY <2>4, <1>3 DEF StoreInit
    <3> QED  BY <2>1, <3>1 DEF DispatchOK
  <2>5. ReactOK(i)
    <3>1. chain[i] = <<>> /\ latest[i] = NoReactions  BY <1>3 DEF StoreInit
    <3>2. Shown(i) = NoReactions /\ DOMAIN chain[i] = {}  BY <2>1, <3>1 DEF Shown, Named
    <3> QED  BY <3>1, <3>2 DEF ReactOK
  <2> QED  BY <2>2, <2>3, <2>4, <2>5 DEF IdOK
<1> QED  BY <1>2, <1>3 DEF IInv

LEMMA StepKept ==
  ASSUME IInv, [StoreNext]_storeVars
  PROVE  IInv'
<1>1. ASSUME NEW n \in Sends, Pipeline(n)  PROVE IInv'
  BY <1>1, GateKept, FindSessionKept, InsertPendingKept, EngineAcceptsKept, EngineReturnsKept,
     EngineThrowsKept, PersistSentKept, TwinDropped, SaveFailedKept, CreateFiresKept, CreateStoresKept,
     AckKept DEF Pipeline
<1>2. ASSUME NEW i \in Inbound, MessageFires(i) \/ MessageStores(i)  PROVE IInv'
  BY <1>2, MessageFiresKept, MessageStoresKept
<1>3. ASSUME NEW i \in Ids, HistoryReads(i) \/ HistoryWrites(i) \/ Revoked(i) \/ Reaction(i)
      PROVE  IInv'
  <2>1. CASE HistoryReads(i) \/ HistoryWrites(i) \/ Revoked(i)
    BY <2>1, HistoryReadsKept, HistoryWritesKept, RevokedKept
  <2>2. ASSUME NEW p \in Senders, NEW e \in {"none", "like"}, ReactionFires(i, p, e)  PROVE IInv'
    BY <2>2, ReactionFiresKept DEF Emoji
  <2>3. ASSUME NEW k \in 1 .. MaxReactions, ReactionReads(i, k) \/ ReactionWrites(i, k)  PROVE IInv'
    <3>1. k \in DOMAIN chain[i]  BY <2>3 DEF ReactionReads, ReactionWrites, Applied
    <3>2. chain[i] \in Seq(Link)  BY DEF IInv, TypeInv
    <3>3. k \in Nat  BY <3>1, <3>2
    <3> QED  BY <2>3, <3>3, ReactionReadsKept, ReactionWritesKept
  <2> QED  BY <1>3, <2>1, <2>2, <2>3 DEF Reaction
<1>4. CASE UNCHANGED storeVars
  <2>1. TypeInv'  BY <1>4 DEF IInv, TypeInv, storeVars
  <2>2. \A j \in Ids : Still(j)  BY <1>4 DEF Still, storeVars
  <2> QED  BY <2>1, <2>2, AllStill
<1> QED  BY <1>1, <1>2, <1>3, <1>4, EngineEvictedKept, RowsDeletedKept DEF StoreNext

LEMMA StoreInvariant == StoreSpec => []IInv
<1>1. StoreInit => IInv  BY InitHolds
<1>2. IInv /\ [StoreNext]_storeVars => IInv'  BY StepKept
<1> QED  BY <1>1, <1>2, PTL DEF StoreSpec

-----------------------------------------------------------------------------
(* Theorems *)

\* However the writers of a message overlap, the table holds one row of its id at most:
\* what @Unique(sessionId, waMessageId) promises, and what every lookup by id assumes.
THEOREM StoreTypeCorrect == StoreSpec => []StoreTypeOK
<1>1. IInv => StoreTypeOK
  <2> SUFFICES ASSUME IInv  PROVE StoreTypeOK
    OBVIOUS
  <2>1. TypeInv  BY DEF IInv
  <2>2. ASSUME NEW k \in Slots, Stored(k)
        PROVE  /\ rows[k].by \in (IF k[1] = "own" THEN {"send"} ELSE {"created", "received", "history"})
               /\ rows[k].id \in {<<>>, <<k[2]>>}
               /\ rows[k].status \in {"pending", "sent"} \cup Acks
    <3>1. rows[k].status \in Statuses  BY <2>1, <2>2, StoredType DEF RowState
    <3>2. ASSUME NEW n \in Sends, k = Own(n)
          PROVE  k[1] = "own" /\ k[2] = n /\ rows[k].by = "send" /\ rows[k].id \in {<<>>, <<n>>}
      BY <2>2, <3>2, SendIs DEF OwnOK, Own
    <3>3. ASSUME NEW i \in Ids, k = Event(i)
          PROVE  /\ k[1] # "own" /\ k[2] = i /\ rows[k].id = <<i>>
                 /\ rows[k].by \in {"created", "received", "history"}
      BY <2>2, <3>3 DEF IInv, IdOK, EventOK, Event
    <3> QED  BY <3>1, <3>2, <3>3, SlotsAre DEF Statuses
  <2>3. ASSUME NEW i \in Ids  PROVE Cardinality(Holders(i)) <= 1
    <3>1. \A k \in Holders(i) : \/ k = Event(i) /\ Stored(Event(i))
                                \/ i \in Sends /\ k = Own(i) /\ Named(i)
      BY HoldersAre
    <3>2. i \in Sends /\ Named(i) => ~Stored(Event(i))  BY SendIs DEF OwnOK
    <3>3. Holders(i) = {} \/ Holders(i) = {Event(i)} \/ Holders(i) = {Own(i)}  BY <3>1, <3>2
    <3>4. Cardinality({}) = 0  BY FS_EmptySet
    <3>5. Cardinality({Event(i)}) = 1 /\ Cardinality({Own(i)}) = 1  BY FS_Singleton
    <3> QED  BY <3>3, <3>4, <3>5
  <2> QED  BY <2>1, <2>2, <2>3 DEF StoreTypeOK, TypeInv
<1> QED  BY <1>1, StoreInvariant, PTL

\* A message the engine took and the pipeline and message_create are through with stands
\* in the table exactly once, whichever of them, or an import, wrote it first.
THEOREM OneRowEach == StoreSpec => []OneRowPerSend
<1>1. IInv => OneRowPerSend
  <2> SUFFICES ASSUME IInv, NEW n \in Sends, n \in engineHas, live, send[n] = "done",
                      excused[n] \cap {"id", "threw", "write"} = {}
               PROVE  Cardinality({k \in {<<"own", n>>, <<"event", n>>} : Stored(k)}) = 1
    BY DEF OneRowPerSend, At
  <2> DEFINE R == {k \in {<<"own", n>>, <<"event", n>>} : Stored(k)}
  <2>1. Named(n) \/ (~Stored(Own(n)) /\ Stored(Event(n)))  BY SendIs DEF SendOK
  <2>2. Named(n) => Stored(Own(n)) /\ ~Stored(Event(n))  BY SendIs DEF OwnOK, Named
  <2>3. R = {Own(n)} \/ R = {Event(n)}  BY <2>1, <2>2 DEF Own, Event
  <2> QED  BY <2>3, FS_Singleton
<1> QED  BY <1>1, StoreInvariant, PTL

\* No late acknowledgement, save of the pipeline, duplicate row or reaction, which reads the
\* row before the acknowledgement and writes after it, takes back the status an applied
\* acknowledgement has shown.
THEOREM AcksStay == StoreSpec => []AcksReflected
<1>1. IInv => AcksReflected
  <2> SUFFICES ASSUME IInv, live, NEW n \in Sends, NEW a \in Acks, ack[n][a] = "kept"
               PROVE  \E k \in Holders(n) : Covers(rows[k].status, a)
    BY DEF AcksReflected
  <2>1. \/ Named(n) /\ Covers(rows[Own(n)].status, a)
        \/ Stored(Event(n)) /\ Covers(rows[Event(n)].status, a)
    BY SendIs DEF KeptOK
  <2> QED  BY <2>1, SendIs, HoldersAre
<1> QED  BY <1>1, StoreInvariant, PTL

\* However often the engine fires a message and however the handlers overlap, it is
\* dispatched once: never twice without a refused insert, never not at all without a cause.
THEOREM DispatchesOnce == StoreSpec => []DispatchedOnce
<1>1. IInv => DispatchedOnce
  BY InboundIs DEF DispatchedOnce, DispatchOK
<1> QED  BY <1>1, StoreInvariant, PTL

\* Once its reactions have settled a message, ours or another's, shows the last one of every
\* person, though each is a read, a wait and a write, for any number of reactions.
THEOREM ReactionsOrdered == StoreSpec => []ReactionsInOrder
<1>1. IInv => ReactionsInOrder
  <2> SUFFICES ASSUME IInv, NEW i \in Ids, chain[i] = <<>>, live,
                      excused[i] \cap {"early", "write"} = {}, NEW k \in Holders(i)
               PROVE  rows[k].reactions = latest[i]
    BY DEF ReactionsInOrder
  <2>1. ReactOK(i)  BY DEF IInv, IdOK
  <2>2. rows[k].reactions \in Reactions /\ latest[i] \in Reactions
    BY HolderType DEF IInv, TypeInv, RowState
  <2>3. DOMAIN chain[i] = {}  OBVIOUS
  <2>4. \A p \in Senders : Shown(i)[p] = latest[i][p]  BY <2>1, <2>3 DEF ReactOK
  <2>5. Shown(i) = rows[k].reactions  BY ShownBy
  <2> QED  BY <2>2, <2>4, <2>5 DEF Reactions
<1> QED  BY <1>1, StoreInvariant, PTL

\* After the rows of a deleted session are gone no late callback stores a message of it.
THEOREM NoOrphans == StoreSpec => []NoOrphanEvents
<1>1. IInv => NoOrphanEvents
  <2> SUFFICES ASSUME IInv, gone, NEW k \in Slots, Stored(k)
               PROVE  rows[k].by \in {"send", "history"}
    BY DEF NoOrphanEvents
  <2>1. ASSUME NEW n \in Sends, k = Own(n)  PROVE rows[k].by = "send"  BY <2>1, SendIs DEF OwnOK
  <2>2. ASSUME NEW i \in Ids, k = Event(i)  PROVE rows[k].by = "history"
    BY <2>2 DEF IInv, IdOK, EventOK
  <2> QED  BY <2>1, <2>2, SlotsAre
<1> QED  BY <1>1, StoreInvariant, PTL

=============================================================================
