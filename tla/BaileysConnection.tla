-------------------------- MODULE BaileysConnection ---------------------------
(***************************************************************************)
(* One BaileysAdapter: its socket through drops, reconnects with a budget, *)
(* logout and teardown, and the echo of messages it sends itself, which    *)
(* Baileys may report a second time.                                       *)
(***************************************************************************)
EXTENDS Naturals, FiniteSets

CONSTANTS MaxAttempts,  \* MAX_RECONNECT_ATTEMPTS
          MaxSockets,   \* bound: sockets created
          Posts         \* messages sent through the API

VARIABLES status,      \* status
          begun,       \* initialize() was called
          intentional, \* intentionalClose
          connecting,  \* connectInner() is between its awaits
          timer,       \* reconnectTimer is armed
          attempts,    \* reconnectAttempts
          sock,        \* sock: its number, 0 for null
          open,        \* sockets whose connection is up or coming up
          made,        \* sockets created so far
          rendering,   \* QR images being rendered
          leaving,     \* logout() awaits the server
          ended,       \* disconnect(), destroy() or the teardown of logout() is done
          post,        \* each send: where it is
          marks,       \* echoedOwnSendIds
          notified,    \* sends Baileys has echoed as 'notify'
          created,     \* history: times onMessageCreate fired for each send
          missed       \* history: sends whose echo comes before their mark or after it was evicted

life == <<status, begun, intentional, connecting, timer, attempts, sock, open, made,
          rendering, leaving, ended>>
posting == <<post, marks, notified, created, missed>>
baileysVars == <<status, begun, intentional, connecting, timer, attempts, sock, open, made,
                 rendering, leaving, ended, post, marks, notified, created, missed>>

ConnectionInit ==
    /\ status = "disconnected" /\ begun = FALSE /\ intentional = FALSE
    /\ connecting = FALSE /\ timer = FALSE /\ attempts = 0
    /\ sock = 0 /\ open = {} /\ made = 0
    /\ rendering = FALSE /\ leaving = FALSE /\ ended = FALSE
    /\ post = [p \in Posts |-> "idle"] /\ marks = {} /\ notified = {}
    /\ created = [p \in Posts |-> 0] /\ missed = {}

-----------------------------------------------------------------------------
(* Connecting.                                                             *)

Starts == connecting' = TRUE /\ status' = "initializing"

\* The session service initialises an adapter once; another start builds another adapter.
Initialize == /\ ~begun /\ begun' = TRUE
              /\ Starts
              /\ UNCHANGED <<intentional, timer, attempts, sock, open, made, rendering,
                             leaving, ended, posting>>

\* Mutant of MayConnect: a stop during the awaits goes unnoticed.
MayConnectAnyway == TRUE

\* The resurrect-after-stop guard, after the last await.
MayConnect == ~intentional

\* connectInner(): the socket before is detached and ended. The new one reports "connecting"
\* at once, which finds the status it asks for.
Loaded == /\ connecting /\ connecting' = FALSE
          /\ IF MayConnect
             THEN /\ made < MaxSockets /\ made' = made + 1
                  /\ sock' = made + 1
                  /\ open' = (open \ {sock}) \cup {made + 1}
             ELSE UNCHANGED <<made, sock, open>>
          /\ UNCHANGED <<status, begun, intentional, timer, attempts, rendering, leaving, ended,
                         posting>>

\* Auth state or version cannot be read: failed, even if a stop came meanwhile.
LoadFails == /\ connecting /\ connecting' = FALSE /\ status' = "failed"
             /\ UNCHANGED <<begun, intentional, timer, attempts, sock, open, made, rendering,
                            leaving, ended, posting>>

-----------------------------------------------------------------------------
(* connection.update                                                       *)

Opens(s) == /\ s \in open
            /\ attempts' = 0 /\ status' = "ready"
            /\ UNCHANGED <<begun, intentional, connecting, timer, sock, open, made, rendering,
                           leaving, ended, posting>>

Shows(s) == /\ s \in open /\ status # "ready" /\ rendering' = TRUE
            /\ UNCHANGED <<status, begun, intentional, connecting, timer, attempts, sock, open,
                           made, leaving, ended, posting>>

\* handleQrCode(): asks for nothing when the image is there.
QrRendered == /\ rendering /\ rendering' = FALSE /\ status' = "qr_ready"
              /\ UNCHANGED <<begun, intentional, connecting, timer, attempts, sock, open, made,
                             leaving, ended, posting>>

\* classifyClose(), in its order.
ClassifyClose(loggedOut) ==
    IF intentional THEN "intentional"
    ELSE IF loggedOut THEN "logged-out"
    ELSE IF attempts >= MaxAttempts THEN "exhausted"
    ELSE "reconnect"

Closes(s, loggedOut) ==
    /\ s \in open /\ open' = open \ {s}
    /\ LET kind == ClassifyClose(loggedOut) IN
       /\ status' = CASE kind \in {"intentional", "logged-out"} -> "disconnected"
                      [] kind = "exhausted" -> "failed"
                      [] OTHER -> status
       /\ sock' = IF kind = "logged-out" THEN 0 ELSE sock
       /\ attempts' = IF kind = "reconnect" THEN attempts + 1 ELSE attempts
       /\ timer' = (timer \/ kind = "reconnect")
    /\ UNCHANGED <<begun, intentional, connecting, made, rendering, leaving, ended, posting>>

\* connect() while another one is in flight would do nothing.
TimerFires == /\ timer /\ timer' = FALSE
              /\ IF intentional \/ connecting THEN UNCHANGED <<connecting, status>> ELSE Starts
              /\ UNCHANGED <<begun, intentional, attempts, sock, open, made, rendering, leaving,
                             ended, posting>>

-----------------------------------------------------------------------------
(* Teardown.                                                               *)

\* disconnect() and destroy(): ending the socket reports its close at once, as intended.
Disconnect == /\ begun
              /\ intentional' = TRUE /\ timer' = FALSE
              /\ open' = open \ {sock} /\ sock' = 0
              /\ status' = "disconnected" /\ ended' = TRUE
              /\ UNCHANGED <<begun, connecting, attempts, made, rendering, leaving, posting>>

Logout == /\ begun /\ ~leaving
          /\ intentional' = TRUE /\ timer' = FALSE /\ leaving' = TRUE
          /\ UNCHANGED <<status, begun, connecting, attempts, sock, open, made, rendering,
                         ended, posting>>

\* The server answers, or the socket is ended; then the auth dir and the store are wiped.
LoggedOut == /\ leaving /\ leaving' = FALSE
             /\ open' = open \ {sock} /\ sock' = 0
             /\ status' = "disconnected" /\ ended' = TRUE
             /\ UNCHANGED <<begun, intentional, connecting, timer, attempts, made, rendering,
                            posting>>

-----------------------------------------------------------------------------
(* Own messages.                                                           *)

\* ensureReady()
PostBegins(p) == /\ post[p] = "idle" /\ status = "ready" /\ sock # 0
                 /\ post' = [post EXCEPT ![p] = "sending"]
                 /\ UNCHANGED <<life, marks, notified, created, missed>>

SendRejected(p) == /\ post[p] = "sending" /\ post' = [post EXCEPT ![p] = "failed"]
                   /\ UNCHANGED <<life, marks, notified, created, missed>>

Fires(p) == created' = [created EXCEPT ![p] = @ + 1]

\* Mutant of SendReturns: the id is registered when the message has been mapped.
SendReturnsUnmarked(p) == /\ post[p] = "sending" /\ post' = [post EXCEPT ![p] = "mapping"]
                          /\ UNCHANGED <<life, marks, notified, created, missed>>

\* emitOwnSendEcho(): the id first, then the awaits; marks older than a minute are evicted.
SendReturns(p) == /\ post[p] = "sending" /\ post' = [post EXCEPT ![p] = "mapping"]
                  /\ \E old \in SUBSET marks :
                       /\ marks' = (marks \ old) \cup {p}
                       /\ missed' = missed \cup old
                  /\ UNCHANGED <<life, notified, created>>

EchoMapped(p) == /\ post[p] = "mapping" /\ post' = [post EXCEPT ![p] = "done"]
                 /\ Fires(p)
                 /\ UNCHANGED <<life, marks, notified, missed>>

\* Mapping fails: the send has succeeded all the same.
EchoLost(p) == /\ post[p] = "mapping" /\ post' = [post EXCEPT ![p] = "done"]
               /\ UNCHANGED <<life, marks, notified, created, missed>>

\* An 'append' upsert of an own message is skipped; a 'notify' one unless it is marked. It comes
\* once, at any time after the message was handed over, also while the send is still awaited.
Notified(p) == /\ post[p] # "idle" /\ p \notin notified /\ sock \in open
               /\ notified' = notified \cup {p}
               /\ missed' = IF post[p] = "sending" THEN missed \cup {p} ELSE missed
               /\ IF p \in marks THEN marks' = marks \ {p} /\ UNCHANGED created
                  ELSE UNCHANGED marks /\ Fires(p)
               /\ UNCHANGED <<life, post>>

-----------------------------------------------------------------------------
Update(s) == Opens(s) \/ Shows(s) \/ \E loggedOut \in BOOLEAN : Closes(s, loggedOut)

Post(p) == \/ PostBegins(p) \/ SendRejected(p) \/ SendReturns(p)
           \/ EchoMapped(p) \/ EchoLost(p) \/ Notified(p)

ConnectionNext ==
    \/ Initialize \/ Loaded \/ LoadFails
    \/ \E s \in 1 .. MaxSockets : Update(s)
    \/ QrRendered \/ TimerFires
    \/ Disconnect \/ Logout \/ LoggedOut
    \/ \E p \in Posts : Post(p)

ConnectionSpec == ConnectionInit /\ [][ConnectionNext]_baileysVars

-----------------------------------------------------------------------------
(* Properties.                                                             *)

Statuses == {"disconnected", "initializing", "qr_ready", "ready", "failed"}

\* Flags, counters and the steps of each send have the values declared for them.
TypeOK == /\ status \in Statuses
          /\ begun \in BOOLEAN /\ intentional \in BOOLEAN /\ connecting \in BOOLEAN
          /\ timer \in BOOLEAN /\ rendering \in BOOLEAN /\ leaving \in BOOLEAN /\ ended \in BOOLEAN
          /\ attempts \in Nat /\ made \in Nat /\ sock \in Nat
          /\ open \subseteq Nat \ {0}
          /\ post \in [Posts -> {"idle", "sending", "mapping", "done", "failed"}]
          /\ marks \subseteq Posts /\ notified \subseteq Posts /\ missed \subseteq Posts
          /\ created \in [Posts -> Nat]

\* The adapter owns every socket that is up, and has none once it was torn down, also when the
\* teardown came while connectInner() was waiting.
SocketOwned == open \subseteq {sock} /\ (ended => open = {})

\* An adapter that reports itself starting or ready has a socket, a timer or a connect at work:
\* however often the connection drops, a reconnect follows or the status says that none will.
NotStranded ==
    status \in {"initializing", "ready"} => sock \in open \/ timer \/ connecting \/ leaving

ConnectionSound == SocketOwned /\ NotStranded

\* message.sent is dispatched once for a message sent through the API, whether Baileys echoes it
\* before or after the message has been mapped; twice at most if the echo came before the send
\* had returned, or a minute and another send later.
OwnSendOnce == \A p \in Posts : created[p] <= IF p \in missed THEN 2 ELSE 1

\* A claim of the comments (see the README): the echo of an own send never dispatches again.
EchoNeverTwice == \A p \in Posts : created[p] <= 1
=============================================================================
