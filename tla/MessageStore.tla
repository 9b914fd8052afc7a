---------------------------- MODULE MessageStore ----------------------------
(***************************************************************************)
(* The messages table of one session and everything that writes to it: the *)
(* send pipeline, the engine's message, message_create, ack, revoke and    *)
(* reaction callbacks, the history import and the deletion of the session. *)
(* UNIQUE(sessionId, waMessageId) is what keeps the writers apart.         *)
(***************************************************************************)
EXTENDS Naturals, Sequences, FiniteSets

CONSTANTS Sends,        \* sends asked over HTTP; a send's WhatsApp id is itself
          Inbound,      \* WhatsApp ids of messages others wrote
          Senders,      \* people who react
          MaxFires,     \* bound: how often the engine fires `message` for one id
          MaxReactions, \* bound: reactions to one message
          MaxFaults     \* bound: writes the database refuses

ASSUME StoreAssumption == Sends \cap Inbound = {} /\ MaxFaults \in Nat

Ids == Sends \cup Inbound
Acks == {"delivered", "read", "failed"}
NoRow == [by |-> "nobody"]
NoReactions == [p \in Senders |-> "none"]

VARIABLES rows,       \* the table: the pipeline's row and the callbacks' row of an id
          send,       \* where a send waits
          engineHas,  \* ids WhatsApp has accepted
          creating,   \* message_create of a send: none, hook, done
          fired, hooks, \* `message` of an inbound id: times fired, handlers in the hook
          history,    \* the import of an id: none, unseen, done
          ack,        \* an acknowledgement of a send: none, waiting, and its outcome
          chain,      \* reactionChains: reactions of a message that have not settled
          live, gone, \* the engine is registered; the session's rows are deleted
          faults,
          reacted,    \* how many reactions a message has had
          dispatched, latest, excused \* history: dispatches, last reactions, known losses

storeVars == <<rows, send, engineHas, creating, fired, hooks, history, ack, chain,
               live, gone, faults, reacted, dispatched, latest, excused>>

Slots == ({"own"} \X Sends) \cup ({"event"} \X Ids)
Row(by, id, status) ==
    [by |-> by, id |-> id, status |-> status, blank |-> FALSE, reactions |-> NoReactions]

StoreInit == /\ rows = [k \in Slots |-> NoRow]
             /\ send = [n \in Sends |-> "idle"]
             /\ engineHas = {}
             /\ creating = [n \in Sends |-> "none"]
             /\ fired = [i \in Inbound |-> 0] /\ hooks = [i \in Inbound |-> 0]
             /\ history = [i \in Ids |-> "none"]
             /\ ack = [n \in Sends |-> [a \in Acks |-> "none"]]
             /\ chain = [i \in Ids |-> <<>>]
             /\ live = TRUE /\ gone = FALSE
             /\ faults = 0
             /\ reacted = [i \in Ids |-> 0]
             /\ dispatched = [i \in Ids |-> 0]
             /\ latest = [i \in Ids |-> NoReactions]
             /\ excused = [i \in Ids |-> {}]

-----------------------------------------------------------------------------
(* The table.                                                              *)

Stored(k) == rows[k] # NoRow
Holders(i) == {k \in Slots : Stored(k) /\ rows[k].id = <<i>>}
Taken(i) == Holders(i) # {}

\* isUniqueConstraintError tells a lost race from a write that simply failed.
Fault == faults < MaxFaults /\ faults' = faults + 1
NoFault == UNCHANGED faults

\* WhatsApp has the message, and the engine may speak of it.
OnWhatsApp(i) == i \in Inbound \cup engineHas

Excuse(i, why) == excused' = [excused EXCEPT ![i] = @ \cup {why}]
At(n, pc) == send[n] = pc
Goes(n, pc) == send' = [send EXCEPT ![n] = pc]

-----------------------------------------------------------------------------
(* The send pipeline: gate, PENDING row, engine, SENT or FAILED.           *)

\* A plugin may block the send, a payload may be refused, the engine may be absent.
Gate(n) == /\ At(n, "idle")
           /\ \/ Goes(n, "done")
              \/ live /\ Goes(n, "finding")
           /\ UNCHANGED <<reacted, rows, engineHas, creating, fired, hooks, history, ack, chain,
                          live, gone, faults, dispatched, latest, excused>>

\* saveOutgoingMessage() looks the session up before it inserts.
FindSession(n) == /\ At(n, "finding")
                  /\ Goes(n, IF gone THEN "done" ELSE "inserting")
                  /\ UNCHANGED <<reacted, rows, engineHas, creating, fired, hooks, history, ack, chain,
                                 live, gone, faults, dispatched, latest, excused>>

InsertPending(n) ==
    /\ At(n, "inserting")
    /\ \/ /\ NoFault /\ Goes(n, "sending")
          /\ rows' = [rows EXCEPT ![<<"own", n>>] = Row("send", <<>>, "pending")]
       \/ Fault /\ Goes(n, "done") /\ UNCHANGED rows
    /\ UNCHANGED <<reacted, engineHas, creating, fired, hooks, history, ack, chain,
                   live, gone, dispatched, latest, excused>>

\* External: WhatsApp takes the message; from here message_create and acks may come.
EngineAccepts(n) == /\ At(n, "sending") /\ n \notin engineHas /\ live
                    /\ engineHas' = engineHas \cup {n}
                    /\ UNCHANGED <<reacted, rows, send, creating, fired, hooks, history, ack, chain,
                                   live, gone, faults, dispatched, latest, excused>>

\* The engine's promise: an id, no id (a forward that could not find its copy), or an error.
EngineReturns(n) == /\ At(n, "sending") /\ n \in engineHas
                    /\ \/ Goes(n, "named") /\ UNCHANGED excused
                       \/ Goes(n, "unnamed") /\ Excuse(n, "id")
                    /\ UNCHANGED <<reacted, rows, engineHas, creating, fired, hooks, history, ack, chain,
                                   live, gone, faults, dispatched, latest>>

EngineThrows(n) == /\ At(n, "sending") /\ Goes(n, "failing")
                   /\ IF n \in engineHas THEN Excuse(n, "threw") ELSE UNCHANGED excused
                   /\ UNCHANGED <<reacted, rows, engineHas, creating, fired, hooks, history, ack, chain,
                                  live, gone, faults, dispatched, latest>>

\* save() of an entity: the row again, inserted if it has been deleted meanwhile.
SaveOwn(n, id, status) ==
    rows' = [rows EXCEPT ![<<"own", n>>] =
                IF @ = NoRow THEN Row("send", id, status)
                             ELSE [@ EXCEPT !.id = id, !.status = status]]

\* persistSentState(): a failed write is logged and the send still succeeds.
PersistSent(n) ==
    /\ send[n] \in {"named", "unnamed"}
    /\ LET id == IF At(n, "named") THEN <<n>> ELSE <<>> IN
       \/ /\ NoFault /\ id # <<>> /\ Taken(n)
          /\ Goes(n, "twin") /\ UNCHANGED <<rows, excused>>
       \/ /\ NoFault /\ (id = <<>> \/ ~Taken(n))
          /\ SaveOwn(n, id, "sent")
          /\ Goes(n, "done") /\ UNCHANGED excused
       \/ Fault /\ Excuse(n, "write") /\ Goes(n, "done") /\ UNCHANGED rows
    /\ UNCHANGED <<reacted, engineHas, creating, fired, hooks, history, ack, chain,
                   live, gone, dispatched, latest>>

\* Mutant of DropTwin: the pending row is left beside message_create's.
DropTwinKept(n) ==
    /\ At(n, "twin") /\ Goes(n, "done") /\ NoFault
    /\ UNCHANGED <<rows, reacted, engineHas, creating, fired, hooks, history, ack, chain,
                   live, gone, dispatched, latest, excused>>

\* The race with message_create was lost: our PENDING row goes, its row is the copy.
DropTwin(n) ==
    /\ At(n, "twin") /\ Goes(n, "done")
    /\ \/ NoFault /\ rows' = [rows EXCEPT ![<<"own", n>>] = NoRow] /\ UNCHANGED excused
       \/ Fault /\ Excuse(n, "write") /\ UNCHANGED rows
    /\ UNCHANGED <<reacted, engineHas, creating, fired, hooks, history, ack, chain,
                   live, gone, dispatched, latest>>

\* failSend(): the FAILED row, then the message:failed hook and the error.
SaveFailed(n) ==
    /\ At(n, "failing") /\ Goes(n, "done")
    /\ \/ NoFault /\ SaveOwn(n, <<>>, "failed") /\ UNCHANGED excused
       \/ Fault /\ Excuse(n, "write") /\ UNCHANGED rows
    /\ UNCHANGED <<reacted, engineHas, creating, fired, hooks, history, ack, chain,
                   live, gone, dispatched, latest>>

-----------------------------------------------------------------------------
(* The engine's callbacks. Each begins with isLiveEngine().                *)

CreateFires(n) ==
    /\ n \in engineHas /\ creating[n] = "none" /\ live
    /\ creating' = [creating EXCEPT ![n] = "hook"]
    /\ UNCHANGED <<reacted, rows, send, engineHas, fired, hooks, history, ack, chain,
                   live, gone, faults, dispatched, latest, excused>>

\* Mutant of StillLive: the check before the hook is thought to be enough.
StillLiveAssumed == TRUE

\* The liveness check again after the hook: no row for a session that is gone.
StillLive == live

Insert(i, by) == rows' = [rows EXCEPT ![<<"event", i>>] = Row(by, <<i>>, "sent")]

\* message_create after its hook: dispatched whether or not the row was needed.
CreateStores(n) ==
    /\ creating[n] = "hook"
    /\ creating' = [creating EXCEPT ![n] = "done"]
    /\ \/ /\ Excuse(n, "stopped") /\ NoFault /\ UNCHANGED <<rows, dispatched>>
       \/ /\ dispatched' = [dispatched EXCEPT ![n] = @ + 1]
          /\ \/ StillLive /\ ~Taken(n) /\ Insert(n, "created") /\ NoFault /\ UNCHANGED excused
             \/ StillLive /\ ~Taken(n) /\ Fault /\ Excuse(n, "write") /\ UNCHANGED rows
             \/ (~StillLive \/ Taken(n)) /\ NoFault /\ UNCHANGED <<rows, excused>>
    /\ UNCHANGED <<reacted, send, engineHas, fired, hooks, history, ack, chain, live, gone, latest>>

\* The engine may fire `message` twice for one message.
MessageFires(i) ==
    /\ fired[i] < MaxFires /\ live
    /\ fired' = [fired EXCEPT ![i] = @ + 1] /\ hooks' = [hooks EXCEPT ![i] = @ + 1]
    /\ UNCHANGED <<reacted, rows, send, engineHas, creating, history, ack, chain,
                   live, gone, faults, dispatched, latest, excused>>

\* Mutant of Duplicate: save() merges into the row where insert() throws.
DuplicateMerged(i) == FALSE

\* The unique insert decides which firing is the message; a refused write still dispatches.
Duplicate(i) == Taken(i)

MessageStores(i) ==
    /\ hooks[i] > 0
    /\ hooks' = [hooks EXCEPT ![i] = @ - 1]
    /\ \/ Excuse(i, "stopped") /\ NoFault /\ UNCHANGED <<rows, dispatched>>
       \/ ~StillLive /\ Excuse(i, "retired") /\ NoFault /\ UNCHANGED <<rows, dispatched>>
       \/ StillLive /\ Duplicate(i) /\ NoFault /\ UNCHANGED <<rows, dispatched, excused>>
       \/ /\ StillLive /\ ~Duplicate(i)
          /\ dispatched' = [dispatched EXCEPT ![i] = @ + 1]
          /\ \/ Insert(i, "received") /\ NoFault /\ UNCHANGED excused
             \/ Fault /\ Excuse(i, "write") /\ UNCHANGED rows
    /\ UNCHANGED <<reacted, send, engineHas, creating, fired, history, ack, chain, live, gone, latest>>

\* persistHistoryMessages(): what is stored is skipped, the rest inserted or ignored.
HistoryReads(i) ==
    /\ history[i] = "none" /\ live /\ OnWhatsApp(i)
    /\ history' = [history EXCEPT ![i] = IF Taken(i) THEN "done" ELSE "unseen"]
    /\ UNCHANGED <<reacted, rows, send, engineHas, creating, fired, hooks, ack, chain,
                   live, gone, faults, dispatched, latest, excused>>

HistoryWrites(i) ==
    /\ history[i] = "unseen"
    /\ history' = [history EXCEPT ![i] = "done"]
    /\ \/ NoFault /\ ~Taken(i) /\ Insert(i, "history")
          /\ Excuse(i, "history")
       \/ NoFault /\ Taken(i) /\ UNCHANGED <<rows, excused>>
       \/ Fault /\ UNCHANGED <<rows, excused>>
    /\ UNCHANGED <<reacted, send, engineHas, creating, fired, hooks, ack, chain,
                   live, gone, dispatched, latest>>

-----------------------------------------------------------------------------
(* Acknowledgements: forward only, looked up twice.                        *)

AckStatusTransitionFrom(a) ==
    IF a = "read" THEN {"pending", "sent", "delivered"} ELSE {"pending", "sent"}

\* One conditional UPDATE; the second look is the last one.
Advance(n, a, unmatched) ==
    LET hit == {k \in Holders(n) : rows[k].status \in AckStatusTransitionFrom(a)}
        outcome == IF hit # {} THEN "kept" ELSE unmatched IN
    \/ /\ NoFault
       /\ rows' = [k \in Slots |-> IF k \in hit THEN [rows[k] EXCEPT !.status = a] ELSE rows[k]]
       /\ ack' = [ack EXCEPT ![n][a] = outcome]
    \/ Fault /\ ack' = [ack EXCEPT ![n][a] = "lost"] /\ UNCHANGED rows

AckFires(n, a) == /\ n \in engineHas /\ live /\ ack[n][a] = "none"
                  /\ Advance(n, a, "waiting")
                  /\ UNCHANGED <<reacted, send, engineHas, creating, fired, hooks, history, chain,
                                 live, gone, dispatched, latest, excused>>

AckRetries(n, a) == /\ ack[n][a] = "waiting"
                    /\ Advance(n, a, IF Taken(n) THEN "kept" ELSE "lost")
                    /\ UNCHANGED <<reacted, send, engineHas, creating, fired, hooks, history, chain,
                                   live, gone, dispatched, latest, excused>>

-----------------------------------------------------------------------------
(* Revocation and reactions.                                               *)

\* The other side's revoke, and deleteMessage() after the engine's answer: blank the row.
Revoked(i) == /\ live /\ OnWhatsApp(i)
              /\ Taken(i) /\ \E k \in Holders(i) : ~rows[k].blank
              /\ rows' = [k \in Slots |-> IF k \in Holders(i) THEN [rows[k] EXCEPT !.blank = TRUE]
                                                             ELSE rows[k]]
              /\ UNCHANGED <<reacted, send, engineHas, creating, fired, hooks, history, ack, chain,
                             live, gone, faults, dispatched, latest, excused>>

\* Each reaction is chained on the one before it, whoever wrote the message.
ReactionFires(i, p, e) ==
    /\ live /\ OnWhatsApp(i) /\ reacted[i] < MaxReactions
    /\ reacted' = [reacted EXCEPT ![i] = @ + 1]
    /\ chain' = [chain EXCEPT ![i] = Append(@, [from |-> p, emoji |-> e, read |-> <<>>])]
    /\ latest' = [latest EXCEPT ![i][p] = e]
    /\ UNCHANGED <<rows, send, engineHas, creating, fired, hooks, history, ack,
                   live, gone, faults, dispatched, excused>>

\* Mutant of Turn: reactions are applied as they come.
TurnOfAny(i, k) == k \in DOMAIN chain[i]

Turn(i, k) == k = 1

Settled(i, k) ==
    chain' = [chain EXCEPT ![i] = SubSeq(@, 1, k - 1) \o SubSeq(@, k + 1, Len(@))]

\* applyReaction(): the whole row is read, its reactions are changed in memory.
ReactionReads(i, k) ==
    /\ k \in DOMAIN chain[i] /\ Turn(i, k) /\ chain[i][k].read = <<>>
    /\ \/ /\ Taken(i) /\ UNCHANGED excused
          /\ \E h \in Holders(i) : chain' = [chain EXCEPT ![i][k].read = <<rows[h]>>]
       \/ ~Taken(i) /\ Settled(i, k) /\ Excuse(i, "early")
    /\ UNCHANGED <<reacted, rows, send, engineHas, creating, fired, hooks, history, ack,
                   live, gone, faults, dispatched, latest>>

\* The reaction r settles when the rows of its message have become what Written makes of them.
Applied(i, k, Written(_)) ==
    /\ k \in DOMAIN chain[i] /\ chain[i][k].read # <<>>
    /\ Settled(i, k)
    /\ \/ /\ NoFault /\ UNCHANGED excused
          /\ rows' = [h \in Slots |-> IF h \in Holders(i) THEN Written(rows[h]) ELSE rows[h]]
       \/ Fault /\ Excuse(i, "write") /\ UNCHANGED rows
    /\ UNCHANGED <<reacted, send, engineHas, creating, fired, hooks, history, ack,
                   live, gone, dispatched, latest>>

With(r) == [r.read[1].reactions EXCEPT ![r.from] = r.emoji]

\* Mutant of ReactionWrites: save() writes the whole row back as it was read.
ReactionWritesRow(i, k) ==
    LET r == chain[i][k]
        Whole(row) == [r.read[1] EXCEPT !.reactions = With(r)]
    IN Applied(i, k, Whole)

\* Only the reactions are written back.
ReactionWrites(i, k) ==
    LET r == chain[i][k]
        Scoped(row) == [row EXCEPT !.reactions = With(r)]
    IN Applied(i, k, Scoped)

-----------------------------------------------------------------------------
(* delete() of the session: the engine first, its rows after a hook.       *)

EngineEvicted == /\ live /\ live' = FALSE
                 /\ UNCHANGED <<reacted, rows, send, engineHas, creating, fired, hooks, history, ack, chain,
                                gone, faults, dispatched, latest, excused>>

RowsDeleted == /\ ~live /\ ~gone /\ gone' = TRUE
               /\ rows' = [k \in Slots |-> NoRow]
               /\ UNCHANGED <<reacted, send, engineHas, creating, fired, hooks, history, ack, chain,
                              live, faults, dispatched, latest, excused>>

Pipeline(n) == \/ Gate(n) \/ FindSession(n) \/ InsertPending(n)
               \/ EngineAccepts(n) \/ EngineReturns(n) \/ EngineThrows(n)
               \/ PersistSent(n) \/ DropTwin(n) \/ SaveFailed(n)
               \/ CreateFires(n) \/ CreateStores(n)
               \/ \E a \in Acks : AckFires(n, a) \/ AckRetries(n, a)

Reaction(i) == \/ \E p \in Senders, e \in {"none", "like"} : ReactionFires(i, p, e)
               \/ \E k \in 1 .. MaxReactions : ReactionReads(i, k) \/ ReactionWrites(i, k)

StoreNext == \/ \E n \in Sends : Pipeline(n)
             \/ \E i \in Inbound : MessageFires(i) \/ MessageStores(i)
             \/ \E i \in Ids : HistoryReads(i) \/ HistoryWrites(i) \/ Revoked(i) \/ Reaction(i)
             \/ EngineEvicted \/ RowsDeleted

-----------------------------------------------------------------------------
(* Properties.                                                             *)

\* The table holds rows of known writers; the pipeline's own row is unnamed until it is sent.
StoreTypeOK ==
    /\ \A k \in Slots : Stored(k) =>
          /\ rows[k].by \in (IF k[1] = "own" THEN {"send"} ELSE {"created", "received", "history"})
          /\ rows[k].id \in {<<>>, <<k[2]>>}
          /\ rows[k].status \in {"pending", "sent"} \cup Acks
    /\ \A i \in Ids : Cardinality(Holders(i)) <= 1
    /\ faults \in 0 .. MaxFaults

\* A message the engine took, once the pipeline and message_create are through with it,
\* stands in the table exactly once, whichever of the two, or a history import, came first
\* - unless a write was refused, the engine lost its id or threw after sending it.
OneRowPerSend ==
    \A n \in Sends :
        (/\ n \in engineHas /\ live /\ At(n, "done") /\ creating[n] = "done"
         /\ excused[n] \cap {"id", "threw", "write"} = {})
        => Cardinality({k \in {<<"own", n>>, <<"event", n>>} : Stored(k)}) = 1

\* An acknowledgement that was applied, or found its row already further on, stays
\* reflected: no late acknowledgement, no save of the pipeline and no reaction, which reads the
\* row, waits and writes, takes the status back.
Covers(status, a) == \/ status = a
                     \/ a = "delivered" /\ status \in {"read", "failed"}
                     \/ a = "read" /\ status = "failed"
                     \/ a = "failed" /\ status \in {"delivered", "read"}
AcksReflected ==
    live => \A n \in Sends, a \in Acks :
                ack[n][a] = "kept" => \E k \in Holders(n) : Covers(rows[k].status, a)

\* An inbound message is dispatched once, however often the engine fires it and however
\* the handlers overlap: twice only after a refused insert, and never only when a plugin
\* stopped it, the engine was retired or a history import stored it first.
DispatchedOnce ==
    \A i \in Inbound :
        /\ dispatched[i] > 1 => "write" \in excused[i]
        /\ (fired[i] > 0 /\ hooks[i] = 0 /\ dispatched[i] = 0)
             => excused[i] \cap {"stopped", "retired", "history"} # {}

\* Once a message's reactions have settled its row shows the last one of every person,
\* in the order they arrived, though each is a read, a wait and a write, and the row may be the
\* pipeline's, message_create's, the engine's or an import's.
ReactionsInOrder ==
    \A i \in Ids :
        (chain[i] = <<>> /\ live /\ excused[i] \cap {"early", "write"} = {})
        => \A k \in Holders(i) : rows[k].reactions = latest[i]

\* After the rows of a deleted session are gone no late callback stores a message of it;
\* only a send in flight or a history import can leave a row nobody will delete.
NoOrphanEvents ==
    gone => \A k \in Slots : Stored(k) => rows[k].by \in {"send", "history"}

StoreSpec == StoreInit /\ [][StoreNext]_storeVars
=============================================================================
