------------------------------ MODULE ChatThread ------------------------------
(***************************************************************************)
(* One chat open in the dashboard: the messages the server stores, the     *)
(* events it pushes to a subscribed socket, and the cached thread that     *)
(* fetches, events and the optimistic send all write to.                   *)
(***************************************************************************)
EXTENDS Naturals, Sequences, FiniteSets

CONSTANTS Out,      \* messages sent from this page
          In,       \* messages received
          MaxDrops, \* bound: disconnections
          MaxTold   \* bound: events emitted for each message sent

Messages == Out \cup In
Delivery == <<"pending", "sent", "delivered", "read">>
Rank(s) == CHOOSE k \in 1 .. 4 : Delivery[k] = s
DeliveryStatus == {"pending", "sent", "delivered", "read", "failed"}

\* A stored message or a bubble: its id is the page's own, the row's, or WhatsApp's.
Bubbles == [m : Messages, id : {"temp", "uuid", "wa"}, status : DeliveryStatus]
Bubble(m, id, status) == [m |-> m, id |-> id, status |-> status]

\* A cache entry and what a fetch has read are sequences of at most one set; lost counts the
\* requests of the fetch that were rejected.
Unopened == <<>>
NoFetch == [on |-> FALSE, db |-> <<>>, history |-> <<>>, lost |-> 0]
Begun == [NoFetch EXCEPT !.on = TRUE]

VARIABLES db,        \* messages of this chat: rows stored
          known,     \* messages the engine's history has
          sending,   \* the server's side of each send
          told,      \* counter of the bound: message.sent and message.ack events emitted
          wire,      \* events on their way to the page
          link,      \* the page's socket
          room,      \* its subscription at the gateway
          keyed,     \* handleConnection() has stored the key
          gap,       \* wasDisconnected
          thread,    \* the cache entry: bubbles
          fetch,     \* queryFn at work, and what it has read
          ask,       \* the page's side of each send
          drops,     \* counter of the bound
          blind,     \* history: sends a landed fetch has seen without WhatsApp's id
          renewed    \* history: a reconnect has invalidated the thread, no request was rejected since

server == <<db, known, sending, told>>
socket == <<link, room, keyed, gap, drops>>
page == <<socket, renewed>>
chatVars == <<db, known, sending, told, wire, link, room, keyed, gap, thread, fetch,
              ask, drops, blind, renewed>>

ChatInit == /\ db = {} /\ known = {}
            /\ sending = [m \in Out |-> "idle"] /\ told = [m \in Out |-> 0]
            /\ wire = <<>>
            /\ link = "down" /\ room = "none" /\ keyed = FALSE /\ gap = FALSE
            /\ thread = Unopened /\ fetch = NoFetch
            /\ ask = [m \in Out |-> "idle"]
            /\ drops = 0 /\ blind = {} /\ renewed = FALSE

-----------------------------------------------------------------------------
(* The server.                                                             *)

Named(rows, m) == {r \in rows : r.m = m /\ r.id = "wa"}

\* emitToRooms(): a socket outside the room hears nothing.
Emit(event) == wire' = IF room = "joined" THEN Append(wire, event) ELSE wire

RowStored(m) == /\ sending[m] = "asked"
                /\ sending' = [sending EXCEPT ![m] = "stored"]
                /\ db' = db \cup {Bubble(m, "uuid", "pending")}
                /\ UNCHANGED <<known, told, wire, page, thread, fetch, ask, blind>>

WhatsAppTakes(m) == /\ sending[m] = "stored"
                    /\ sending' = [sending EXCEPT ![m] = "accepted"]
                    /\ known' = known \cup {m}
                    /\ UNCHANGED <<db, told, wire, page, thread, fetch, ask, blind>>

SendThrows(m) == /\ sending[m] = "stored"
                 /\ sending' = [sending EXCEPT ![m] = "threw"]
                 /\ db' = (db \ {Bubble(m, "uuid", "pending")}) \cup {Bubble(m, "uuid", "failed")}
                 /\ known' \in {known, known \cup {m}}
                 /\ UNCHANGED <<told, wire, page, thread, fetch, ask, blind>>

\* persistSentState(): the row of an echo that came first stays, the pending one goes.
SentSaved(m) ==
    /\ sending[m] = "accepted"
    /\ sending' = [sending EXCEPT ![m] = "saved"]
    /\ db' = (db \ {Bubble(m, "uuid", "pending")}) \cup
             (IF Named(db, m) = {} THEN {Bubble(m, "wa", "sent")} ELSE {})
    /\ UNCHANGED <<known, told, wire, page, thread, fetch, ask, blind>>

Tells(m) == told[m] < MaxTold /\ told' = [told EXCEPT ![m] = @ + 1]

\* onMessageCreate, which an engine may fire again: one row, an event each time.
Echoes(m) ==
    /\ m \in known \cap Out /\ Tells(m)
    /\ db' = IF Named(db, m) = {} THEN db \cup {Bubble(m, "wa", "sent")} ELSE db
    /\ Emit([m |-> m, status |-> "sent", ack |-> FALSE])
    /\ UNCHANGED <<known, sending, page, thread, fetch, ask, blind>>

\* The row takes delivered, read and failed, from the statuses before them.
RowTakes(status) == CASE status = "read" -> {"pending", "sent", "delivered"}
                      [] status \in {"delivered", "failed"} -> {"pending", "sent"}
                      [] OTHER -> {}

\* onMessageAck: any status, in any order; the row only advances (its races are MessageStore's),
\* the event is emitted all the same.
Acked(m, status) ==
    /\ m \in known \cap Out /\ Tells(m)
    /\ db' = {IF r \in Named(db, m) /\ r.status \in RowTakes(status)
              THEN [r EXCEPT !.status = status] ELSE r : r \in db}
    /\ Emit([m |-> m, status |-> status, ack |-> TRUE])
    /\ UNCHANGED <<known, sending, page, thread, fetch, ask, blind>>

Received(m) == /\ m \in In \ known /\ known' = known \cup {m}
               /\ UNCHANGED <<db, sending, told, wire, page, thread, fetch, ask, blind>>

\* onMessage: stored, then emitted.
InboundStored(m) == /\ m \in In \cap known /\ Named(db, m) = {}
                    /\ db' = db \cup {Bubble(m, "wa", "sent")}
                    /\ Emit([m |-> m, status |-> "sent", ack |-> FALSE])
                    /\ UNCHANGED <<known, sending, told, page, thread, fetch, ask, blind>>

-----------------------------------------------------------------------------
(* The socket.                                                             *)

\* A fetch in flight is cancelled and restarted when the cache has data.
Invalidated == IF thread = Unopened THEN fetch ELSE Begun

\* nextReconnectState() sees a connect after a gap; the subscription leaves after that.
Connects == /\ link = "down" /\ link' = "up"
            /\ room' = "asked" /\ keyed' = FALSE
            /\ gap' = FALSE
            /\ fetch' = IF gap THEN Invalidated ELSE fetch
            /\ renewed' = (renewed \/ (gap /\ thread # Unopened))
            /\ UNCHANGED <<server, wire, thread, ask, drops, blind>>

Dropped(to) == /\ link = "up" /\ link' = to
               /\ room' = "none" /\ keyed' = FALSE /\ wire' = <<>> /\ gap' = TRUE
               /\ UNCHANGED <<server, thread, fetch, ask, blind, renewed>>

Disconnects == drops < MaxDrops /\ drops' = drops + 1 /\ Dropped("down")

\* handleConnection(), after validateApiKey().
Keyed == /\ link = "up" /\ ~keyed /\ keyed' = TRUE
         /\ UNCHANGED <<server, wire, link, room, gap, thread, fetch, ask, drops, blind,
                        renewed>>

\* handleSubscribe(): asks for the key again before it joins.
SubscribeChecks == /\ room = "asked" /\ keyed /\ room' = "checking"
                   /\ UNCHANGED <<server, wire, link, keyed, gap, thread, fetch, ask, drops, blind,
                                  renewed>>

\* A subscription that overtakes handleConnection() has no key. A client that the
\* server has disconnected does not come back.
SubscribeRefused == /\ room = "asked" /\ ~keyed
                    /\ Dropped("gone") /\ UNCHANGED drops

Joins == /\ room = "checking" /\ room' = "joined"
         /\ UNCHANGED <<server, wire, link, keyed, gap, thread, fetch, ask, drops, blind,
                        renewed>>

-----------------------------------------------------------------------------
(* The page.                                                               *)

ThreadOpens == /\ thread = Unopened /\ ~fetch.on
               /\ fetch' = Begun
               /\ UNCHANGED <<server, wire, page, thread, ask, blind>>

\* The two requests of queryFn, each answered or rejected; a rejected one counts as empty.
FetchReadsDb == /\ fetch.on /\ fetch.db = <<>>
                /\ \/ fetch' = [fetch EXCEPT !.db = <<db>>]
                   \/ fetch' = [fetch EXCEPT !.db = <<{}>>, !.lost = @ + 1]
                /\ UNCHANGED <<server, wire, page, thread, ask, blind>>

FetchReadsHistory == /\ fetch.on /\ fetch.history = <<>>
                     /\ \/ fetch' = [fetch EXCEPT !.history = <<known>>]
                        \/ fetch' = [fetch EXCEPT !.history = <<{}>>, !.lost = @ + 1]
                     /\ UNCHANGED <<server, wire, page, thread, ask, blind>>

FetchAnswered == fetch.db # <<>> /\ fetch.history # <<>>

\* Both rejected: the query keeps the data it has and runs queryFn again, but once.
FetchThrows == /\ FetchAnswered /\ fetch.lost = 2
               /\ fetch' \in {Begun, NoFetch}
               /\ renewed' = FALSE
               /\ UNCHANGED <<server, wire, socket, thread, ask, blind>>

\* mergeChatMessages(): the stored row wins over the engine's, which counts as read.
MergeChatMessages(rows, history) ==
    rows \cup {Bubble(m, "wa", "read") : m \in {n \in history : Named(rows, n) = {}}}

FetchLands == /\ FetchAnswered /\ fetch.lost < 2
              /\ thread' = <<MergeChatMessages(fetch.db[1], fetch.history[1])>>
              /\ blind' = blind \cup {r.m : r \in {s \in fetch.db[1] : s.id = "uuid"}}
              /\ fetch' = NoFetch
              /\ renewed' = (renewed /\ fetch.lost = 0)
              /\ UNCHANGED <<server, wire, socket, ask>>

\* Mutant of MergeDeliveryStatus: the status that came last.
MergeDeliveryStatusLast(current, incoming) == incoming

\* A failed bubble stays failed, and one the other side has received cannot fail any more.
MergeDeliveryStatus(current, incoming) ==
    IF current = "failed" THEN "failed"
    ELSE IF incoming = "failed" THEN IF current \in {"pending", "sent"} THEN "failed" ELSE current
    ELSE IF Rank(incoming) >= Rank(current) THEN incoming ELSE current

Slice == IF thread = Unopened THEN {} ELSE thread[1]

\* mergeOrAppend() and the tick of an acknowledgement: nothing without a cache entry.
Merged(event) ==
    IF thread = Unopened THEN thread
    ELSE <<{IF r \in Named(Slice, event.m)
            THEN [r EXCEPT !.status = MergeDeliveryStatus(r.status, event.status)]
            ELSE r : r \in Slice}
           \cup (IF event.ack \/ Named(Slice, event.m) # {} THEN {}
                 ELSE {Bubble(event.m, "wa", event.status)})>>

EventArrives == /\ wire # <<>> /\ wire' = Tail(wire)
                /\ thread' = Merged(Head(wire))
                /\ UNCHANGED <<server, page, fetch, ask, blind>>

\* handleSend(): a placeholder under an id of the page's own, one send at a time.
SendBegins(m) == /\ ask[m] = "idle" /\ \A n \in Out : ask[n] # "waiting"
                 /\ fetch.on \/ thread # Unopened
                 /\ thread' = IF thread = Unopened THEN thread
                              ELSE <<Slice \cup {Bubble(m, "temp", "pending")}>>
                 /\ ask' = [ask EXCEPT ![m] = "waiting"]
                 /\ sending' = [sending EXCEPT ![m] = "asked"]
                 /\ UNCHANGED <<db, known, told, wire, page, fetch, blind>>

Placeholder(m) == {r \in Slice : r.m = m /\ r.id = "temp"}

\* Mutant of Reconciled: the placeholder is renamed although the echo is there.
ReconciledTwice(m) ==
    (Slice \ Placeholder(m)) \cup {Bubble(m, "wa", "sent") : r \in Placeholder(m)}

\* The race guard: an echo that came first makes the placeholder superfluous. The response
\* creates the cache entry if it comes before the first fetch lands.
Reconciled(m) ==
    (Slice \ Placeholder(m)) \cup
    (IF Named(Slice, m) # {} THEN {} ELSE {Bubble(m, "wa", "sent") : r \in Placeholder(m)})

Answered(m) == /\ ask[m] = "waiting" /\ sending[m] = "saved"
               /\ thread' = <<Reconciled(m)>>
               /\ ask' = [ask EXCEPT ![m] = "done"]
               /\ UNCHANGED <<server, wire, page, fetch, blind>>

\* An error response, or the connection breaks with the request at any point.
Fails(m) == /\ ask[m] = "waiting"
            /\ thread' = <<(Slice \ Placeholder(m)) \cup
                           {Bubble(m, "temp", "failed") : r \in Placeholder(m)}>>
            /\ ask' = [ask EXCEPT ![m] = "failed"]
            /\ UNCHANGED <<server, wire, page, fetch, blind>>

-----------------------------------------------------------------------------
OfSend(m) == \/ RowStored(m) \/ WhatsAppTakes(m) \/ SendThrows(m) \/ SentSaved(m)
             \/ Echoes(m) \/ SendBegins(m) \/ Answered(m) \/ Fails(m)
             \/ \E status \in DeliveryStatus : Acked(m, status)

ChatNext == \/ \E m \in Out : OfSend(m)
            \/ \E m \in In : Received(m) \/ InboundStored(m)
            \/ Connects \/ Disconnects \/ Keyed
            \/ SubscribeChecks \/ SubscribeRefused \/ Joins
            \/ ThreadOpens \/ FetchReadsDb \/ FetchReadsHistory \/ FetchThrows \/ FetchLands
            \/ EventArrives

ChatSpec == ChatInit /\ [][ChatNext]_chatVars

-----------------------------------------------------------------------------
(* Properties.                                                             *)

\* A message whose send was answered has one bubble, in whichever order the response, the
\* echo and a fetch came. A fetch that saw the row before it had WhatsApp's id is the exception.
OneBubble ==
    \A m \in Out : ask[m] = "done" /\ m \notin blind
                      => Cardinality({r \in Slice : r.m = m}) <= 1

\* s may turn into t: a later tick, or a failure of what nobody has received yet.
Follows(s, t) ==
    \/ t = s
    \/ t = "failed" /\ s \in {"pending", "sent"}
    \/ s # "failed" /\ t # "failed" /\ Rank(t) >= Rank(s)

\* Ticks only advance, a failure is final and comes before a delivery or not at all, whatever the
\* order of acknowledgements and however often message.sent is replayed, except when a fetch
\* lands with what it read before them.
TicksForward ==
    [][\/ fetch.on /\ ~fetch'.on
       \/ \A r \in Slice : r.id = "wa" =>
             \E s \in Named(Slice', r.m) : Follows(r.status, s.status)]_chatVars

\* After a reconnect that invalidated the thread, once the page is subscribed and idle again and
\* no request was rejected, the thread shows every message that is stored.
GapRefreshed ==
    renewed /\ room = "joined" /\ wire = <<>> /\ ~fetch.on
       => \A m \in In : Named(db, m) # {} => Named(Slice, m) # {}
=============================================================================
