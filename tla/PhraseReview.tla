----------------------------- MODULE PhraseReview -----------------------------
(***************************************************************************)
(* How a term gets into the shared glossary and out of it: candidates that *)
(* a scan proposes and administrators review over the dashboard or by      *)
(* direct message, sentences of the translation memory, suggestions and    *)
(* group overrides typed in a chat. Candidates and sentences live in       *)
(* SQLite behind awaits, the glossary in files written synchronously.      *)
(***************************************************************************)
EXTENDS Naturals, Sequences, FiniteSets

CONSTANTS Phrases,     \* Chinese terms
          Words,       \* Vietnamese terms
          Groups,      \* chats that may override a term
          Reviewers,   \* requests at work: scans, approvals, dismissals, revocations
          MaxRequests, \* bound: requests in all
          MaxCrashes   \* bound: crashes of the process

None == "none"

VARIABLES candidate,   \* phrase_candidates: status and proposed translation of each phrase
          sentence,    \* translation_memory: status of each source
          shared,      \* glossary zh -> vi
          reverse,     \* glossary vi -> zh
          layer,       \* OverrideLayer: zh -> vi and vi -> zh of each group
          suggested,   \* suggestions waiting for an administrator
          request,     \* what a request is at, and the rows it read
          asked, down, \* counters of the bounds
          adopted, reviews \* history: phrases ever written to shared; reviews logged

reviewVars == <<candidate, sentence, shared, reverse, layer, suggested, request,
                asked, down, adopted, reviews>>

Idle == [at |-> "idle", rows |-> <<>>]
NoLayer == [zh |-> [p \in Phrases |-> None], vi |-> [w \in Words |-> None]]
Unreviewed == {p \in Phrases : candidate[p].status = "new"}

Init == /\ candidate = [p \in Phrases |-> [status |-> None, vi |-> None]]
        /\ sentence = [p \in Phrases |-> None]
        /\ shared = [p \in Phrases |-> None] /\ reverse = [w \in Words |-> None]
        /\ layer = [g \in Groups |-> NoLayer]
        /\ suggested = {}
        /\ request = [r \in Reviewers |-> Idle]
        /\ asked = 0 /\ down = 0
        /\ adopted = {} /\ reviews = [p \in Phrases |-> 0]

-----------------------------------------------------------------------------
(* The glossary.                                                           *)

\* pruneRedundant(): an override that says what the shared glossary says is none.
Pruned(pairs) ==
    LET same(g, p) == \E r \in pairs : r.p = p /\ layer[g].zh[p] = r.vi IN
    [g \in Groups |->
        [zh |-> [p \in Phrases |-> IF same(g, p) THEN None ELSE layer[g].zh[p]],
         vi |-> [w \in Words |->
                    IF \E r \in pairs : r.vi = w /\ same(g, r.p) /\ layer[g].vi[w] = r.p
                    THEN None ELSE layer[g].vi[w]]]]

\* addMany(): both directions, one write, then the overrides.
Add(pairs) ==
    LET word(p) == (CHOOSE r \in pairs : r.p = p).vi IN
    /\ shared' = [p \in Phrases |-> IF \E r \in pairs : r.p = p THEN word(p) ELSE shared[p]]
    /\ \E last \in [{r.vi : r \in pairs} -> {r.p : r \in pairs}] :
          /\ \A w \in DOMAIN last : [p |-> last[w], vi |-> w] \in pairs
          /\ reverse' = [w \in Words |-> IF w \in DOMAIN last THEN last[w] ELSE reverse[w]]
    /\ layer' = Pruned(pairs)
    /\ adopted' = adopted \cup {r.p : r \in pairs}

\* remove(): every pairing with the term on either side.
Removed(t) ==
    /\ shared' = [p \in Phrases |-> IF p = t \/ shared[p] = t THEN None ELSE shared[p]]
    /\ reverse' = [w \in Words |-> IF w = t \/ reverse[w] = t THEN None ELSE reverse[w]]

Known(t) == \/ \E p \in Phrases : shared[p] # None /\ (p = t \/ shared[p] = t)
            \/ \E w \in Words : reverse[w] # None /\ (w = t \/ reverse[w] = t)

-----------------------------------------------------------------------------
(* Requests that wait for the database.                                    *)

Begins(r, req) == /\ request[r] = Idle /\ asked < MaxRequests
                  /\ asked' = asked + 1
                  /\ request' = [request EXCEPT ![r] = req]

Turns(r, at) == request' = [request EXCEPT ![r].at = at]
Ends(r) == request' = [request EXCEPT ![r] = Idle]
Rows(r) == {request[r].rows[k] : k \in DOMAIN request[r].rows}

\* scanPhrases(): phrases already in the glossary are left out, then the model is asked.
ScanMines(r) == /\ \E p \in Phrases, w \in Words :
                      /\ shared[p] = None
                      /\ Begins(r, [at |-> "mined", rows |-> <<[p |-> p, vi |-> w]>>])
                /\ UNCHANGED <<candidate, sentence, shared, reverse, layer, suggested, down,
                               adopted, reviews>>

\* upsert(): never revives a reviewed row.
Upserts(r) == /\ request[r].at = "mined"
              /\ \E x \in Rows(r) :
                    candidate' = [candidate EXCEPT ![x.p] =
                        IF @.status \in {None, "new"} THEN [status |-> "new", vi |-> x.vi] ELSE @]
              /\ Ends(r)
              /\ UNCHANGED <<sentence, shared, reverse, layer, suggested, asked, down,
                             adopted, reviews>>

\* peek() of one row, or pendingAbove() of those over a threshold (counts are not modelled).
ApprovalReads(r) == /\ \E s \in (SUBSET Unreviewed) \ {{}} :
                         /\ IsFiniteSet(s)
                         /\ \E rows \in [1 .. Cardinality(s) -> s] :
                            /\ {rows[k] : k \in DOMAIN rows} = s
                            /\ Begins(r, [at |-> "approving",
                                          rows |-> [k \in DOMAIN rows |->
                                                      [p |-> rows[k], vi |-> candidate[rows[k]].vi]]])
                    /\ UNCHANGED <<candidate, sentence, shared, reverse, layer, suggested, down,
                                   adopted, reviews>>

\* A review by direct message may correct the translation it approves.
Corrected(x) == {x} \cup {[p |-> x.p, vi |-> w] : w \in Words}

\* Mutant of ApprovalWrites: rows are marked first, the glossary is to follow.
ApprovalWritesLast(r) == /\ request[r].at = "approving" /\ Turns(r, "marking")
                         /\ UNCHANGED <<candidate, sentence, shared, reverse, layer, suggested,
                                        asked, down, adopted, reviews>>

\* The glossary first: if the process dies here the rows come back for review.
ApprovalWrites(r) ==
    /\ request[r].at = "approving" /\ Turns(r, "marking")
    /\ \/ Add(Rows(r))
       \/ Len(request[r].rows) = 1 /\ \E x \in Corrected(request[r].rows[1]) : Add({x})
    /\ UNCHANGED <<candidate, sentence, suggested, asked, down, reviews>>

\* Mutant of Moves: the update does not ask for the status.
MovesAny(p) == TRUE

\* UPDATE ... WHERE status = 'new': an event, best effort, for each row this call moved.
Moves(p) == candidate[p].status = "new"

Marked(p, status) ==
    /\ candidate' = [candidate EXCEPT ![p].status = IF Moves(p) THEN status ELSE @]
    /\ \/ Moves(p) /\ reviews' = [reviews EXCEPT ![p] = @ + 1]
       \/ UNCHANGED reviews

\* markApproved(), a row at a time.
ApprovalMarks(r) ==
    /\ request[r].at = "marking"
    /\ Marked(Head(request[r].rows).p, "approved")
    /\ IF Len(request[r].rows) = 1 THEN Ends(r)
       ELSE request' = [request EXCEPT ![r].rows = Tail(@)]
    /\ UNCHANGED <<sentence, shared, reverse, layer, suggested, asked, down, adopted>>

DismissReads(r) == /\ \E p \in Unreviewed :
                         Begins(r, [at |-> "dismissing", rows |-> <<[p |-> p, vi |-> None]>>])
                   /\ UNCHANGED <<candidate, sentence, shared, reverse, layer, suggested, down,
                                  adopted, reviews>>

DismissMarks(r) == /\ request[r].at = "dismissing"
                   /\ Marked(request[r].rows[1].p, "dismissed") /\ Ends(r)
                   /\ UNCHANGED <<sentence, shared, reverse, layer, suggested, asked, down, adopted>>

-----------------------------------------------------------------------------
(* The translation memory.                                                 *)

\* record(): a repeated sentence keeps its status.
Recorded(p) == /\ sentence[p] = None
               /\ sentence' = [sentence EXCEPT ![p] = "new"]
               /\ UNCHANGED <<candidate, shared, reverse, layer, suggested, request,
                              asked, down, adopted, reviews>>

\* takeForApproval() marks first, whatever the status was.
SentenceTaken(r) == /\ \E p \in Phrases, w \in Words :
                          /\ sentence[p] # None
                          /\ Begins(r, [at |-> "taken", rows |-> <<[p |-> p, vi |-> w]>>])
                          /\ sentence' = [sentence EXCEPT ![p] = "approved"]
                    /\ UNCHANGED <<candidate, shared, reverse, layer, suggested, down,
                                   adopted, reviews>>

SentenceAdded(r) == /\ request[r].at = "taken"
                    /\ Add(Rows(r)) /\ Ends(r)
                    /\ UNCHANGED <<candidate, sentence, suggested, asked, down, reviews>>

SentenceDismissed(p) == /\ sentence[p] \in {"new", "approved"}
                        /\ sentence' = [sentence EXCEPT ![p] = "dismissed"]
                        /\ UNCHANGED <<candidate, shared, reverse, layer, suggested, request,
                                       asked, down, adopted, reviews>>

-----------------------------------------------------------------------------
(* Chat commands and the dashboard: synchronous.                           *)

\* /g global, /g add, the dashboard.
TermAdded(p, w) == /\ Add({[p |-> p, vi |-> w]})
                   /\ UNCHANGED <<candidate, sentence, suggested, request, asked, down, reviews>>

\* /g gdel, /g del, and removeGlossaryTerm(), whose revocation is logged later.
TermRemoved(t) == /\ Known(t) /\ Removed(t)
                  /\ UNCHANGED <<candidate, sentence, layer, suggested, request, asked, down,
                                 adopted, reviews>>

\* classifyWrite(): another word than the shared one is an override of the group that said it.
Overridden(g, p, w) ==
    /\ shared[p] \notin {None, w}
    /\ layer' = [layer EXCEPT ![g].zh[p] = w, ![g].vi[w] = p]
    /\ UNCHANGED <<candidate, sentence, shared, reverse, suggested, request, asked, down,
                   adopted, reviews>>

OverrideRemoved(g, t) ==
    /\ layer' = [layer EXCEPT ![g] =
          [zh |-> [p \in Phrases |-> IF p = t \/ @.zh[p] = t THEN None ELSE @.zh[p]],
           vi |-> [w \in Words |-> IF w = t \/ @.vi[w] = t THEN None ELSE @.vi[w]]]]
    /\ layer' # layer
    /\ UNCHANGED <<candidate, sentence, shared, reverse, suggested, request, asked, down,
                   adopted, reviews>>

Suggested(p, w) == /\ shared[p] # w /\ [p |-> p, vi |-> w] \notin suggested
                   /\ suggested' = suggested \cup {[p |-> p, vi |-> w]}
                   /\ UNCHANGED <<candidate, sentence, shared, reverse, layer, request,
                                  asked, down, adopted, reviews>>

SuggestionApproved(s) == /\ s \in suggested /\ suggested' = suggested \ {s}
                         /\ Add({s})
                         /\ UNCHANGED <<candidate, sentence, request, asked, down, reviews>>

SuggestionRejected(s) == /\ s \in suggested /\ suggested' = suggested \ {s}
                         /\ UNCHANGED <<candidate, sentence, shared, reverse, layer, request,
                                        asked, down, adopted, reviews>>

-----------------------------------------------------------------------------
\* The process dies: requests are gone. Between its two files an approved suggestion is, too.
Crash == /\ down < MaxCrashes /\ down' = down + 1
         /\ request' = [r \in Reviewers |-> Idle]
         /\ \/ UNCHANGED suggested
            \/ \E s \in suggested : suggested' = suggested \ {s}
         /\ UNCHANGED <<candidate, sentence, shared, reverse, layer, asked, adopted, reviews>>

Requests(r) == \/ ScanMines(r) \/ Upserts(r)
               \/ ApprovalReads(r) \/ ApprovalWrites(r) \/ ApprovalMarks(r)
               \/ DismissReads(r) \/ DismissMarks(r)
               \/ SentenceTaken(r) \/ SentenceAdded(r)

Commands(p, w) == \/ TermAdded(p, w) \/ Suggested(p, w)
                  \/ SuggestionApproved([p |-> p, vi |-> w])
                  \/ SuggestionRejected([p |-> p, vi |-> w])
                  \/ \E g \in Groups : Overridden(g, p, w)

Next == \/ \E r \in Reviewers : Requests(r)
        \/ \E p \in Phrases : Recorded(p) \/ SentenceDismissed(p)
        \/ \E p \in Phrases, w \in Words : Commands(p, w)
        \/ \E t \in Phrases \cup Words :
              TermRemoved(t) \/ \E g \in Groups : OverrideRemoved(g, t)
        \/ Crash

-----------------------------------------------------------------------------
(* Properties.                                                             *)

\* A candidate counts as approved only once its term has been written to the glossary,
\* whenever the process dies and whoever else reviews the same row meanwhile.
ApprovalNotLost == \A p \in Phrases : candidate[p].status = "approved" => p \in adopted

\* Of overlapping approvals, bulk approvals and dismissals of one row at most one is logged,
\* and none of a row still in the queue: the revocation rate is computed over these events.
ReviewedOnce ==
    \A p \in Phrases : reviews[p] <= (IF candidate[p].status \in {None, "new"} THEN 0 ELSE 1)

Spec == Init /\ [][Next]_reviewVars
=============================================================================
