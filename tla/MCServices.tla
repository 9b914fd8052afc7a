----------------------------- MODULE MCServices ------------------------------
(***************************************************************************)
(* Four components that share no state, checked in one run: a behaviour    *)
(* follows one of them, the others stay in their initial state.            *)
(***************************************************************************)
EXTENDS PhraseReview, BaileysConnection, MessageStore, ChatThread, TLC

CONSTANTS p1, p2

VARIABLE followed   \* the component this behaviour follows

servicesVars == <<followed, storeVars, reviewVars, baileysVars, chatVars>>

ServicesInit == /\ followed \in {"messages", "phrases", "baileys", "chat"}
                /\ StoreInit /\ Init /\ ConnectionInit /\ ChatInit

ServicesNext ==
    \/ followed = "messages" /\ StoreNext /\ UNCHANGED <<followed, reviewVars, baileysVars, chatVars>>
    \/ followed = "phrases" /\ Next /\ UNCHANGED <<followed, storeVars, baileysVars, chatVars>>
    \/ followed = "baileys" /\ ConnectionNext /\ UNCHANGED <<followed, storeVars, reviewVars, chatVars>>
    \/ followed = "chat" /\ ChatNext /\ UNCHANGED <<followed, storeVars, reviewVars, baileysVars>>

ServicesSpec == ServicesInit /\ [][ServicesNext]_servicesVars

-----------------------------------------------------------------------------
(* Bounds: rows of different ids and phrases of different terms rarely     *)
(* meet, and a behaviour need not use all of them.                         *)

\* One inbound message with its reactions, or one send with a reaction at most; the more
\* reactions, the fewer refused writes.
OneMessage ==
    \/ /\ \A n \in Sends : send[n] = "idle" /\ history[n] = "none"
       /\ \A i \in Inbound : reacted[i] + faults <= 3
    \/ /\ \A i \in Inbound : fired[i] = 0 /\ history[i] = "none" /\ reacted[i] = 0
       /\ \A n \in Sends : reacted[n] = 0 \/ reacted[n] + faults <= 1

\* Requests about two phrases, or at most two requests and everything else about one phrase.
OnePhrase ==
    \/ /\ layer = [g \in Groups |-> NoLayer] /\ suggested = {}
       /\ sentence = [p \in Phrases |-> None] /\ down = 0
       /\ \A p \in Phrases : shared[p] # None => candidate[p].status # None
       /\ \A w \in Words : reverse[w] # None => candidate[reverse[w]].status # None
    \/ /\ candidate[p2].status = None /\ shared[p2] = None
       /\ sentence[p2] = None
       /\ (\A s \in suggested : s.p = p1)
       /\ (\A g \in Groups : layer[g].zh[p2] = None)
       /\ asked <= 2

\* A message sent from the page, or one received; a disconnection, or all the events of a send.
OneBubbleEach ==
    /\ known \cap In = {} \/ \A m \in Out : sending[m] = "idle"
    /\ drops = 0 \/ \A m \in Out : told[m] < MaxTold

Bounded == OneMessage /\ OnePhrase /\ OneBubbleEach

\* People who react are told apart by what they do alone.
SomePeople == Permutations(Senders)
=============================================================================
