---------------------------- MODULE Services_proofs ----------------------------
(***************************************************************************)
(* Theorems about three of the components that MCServices checks in one    *)
(* run, each with its own specification: the review of phrases, the        *)
(* Baileys adapter and the chat thread.                                    *)
(***************************************************************************)
EXTENDS PhraseReview, BaileysConnection, ChatThread, FiniteSetTheorems, SequenceTheorems, TLAPS

-----------------------------------------------------------------------------
(***************************************************************************)
(* The review of phrase candidates, for any phrases, words and requests.   *)
(* A request that is about to mark its rows has written them to the        *)
(* glossary, and a phrase once written stays in the history of adopted     *)
(* ones; a row counts as reviewed exactly when an update has taken it out  *)
(* of the queue, which no later update does again.                         *)
(***************************************************************************)
(* The inductive invariant *)

Pairs == [p : Phrases, vi : Words \cup {None}]

ReviewTypeInv ==
  /\ candidate \in [Phrases -> [status : {None, "new", "approved", "dismissed"},
                                vi : Words \cup {None}]]
  /\ request \in [Reviewers -> [at : {"idle", "mined", "approving", "marking", "dismissing", "taken"},
                                rows : Seq(Pairs)]]
  /\ reviews \in [Phrases -> Nat]

\* A request that reviews has rows, and has written them before it marks any.
RequestInv(r) ==
  /\ request[r].at \in {"approving", "marking", "dismissing"} => request[r].rows # <<>>
  /\ request[r].at = "marking" =>
        \A k \in DOMAIN request[r].rows : request[r].rows[k].p \in adopted

ReviewInv ==
  /\ ReviewTypeInv
  /\ \A r \in Reviewers : RequestInv(r)
  /\ ApprovalNotLost
  /\ ReviewedOnce

\* Nothing has been proposed or asked.
LEMMA InitReview == Init => ReviewInv
<1> SUFFICES ASSUME Init  PROVE ReviewInv
  OBVIOUS
<1>1. <<>> \in Seq(Pairs)  BY EmptySeq
<1>2. ReviewTypeInv  BY <1>1 DEF Init, ReviewTypeInv, Idle
<1>3. \A r \in Reviewers : RequestInv(r)  BY DEF Init, RequestInv, Idle
<1>4. ApprovalNotLost /\ ReviewedOnce  BY DEF Init, ApprovalNotLost, ReviewedOnce, None
<1> QED  BY <1>2, <1>3, <1>4 DEF ReviewInv

-----------------------------------------------------------------------------
(* Steps that leave the queue alone *)

\* A term once adopted stays adopted, whatever is written.
LEMMA AddAdopts ==
  ASSUME NEW pairs, Add(pairs)
  PROVE  adopted \subseteq adopted' /\ \A x \in pairs : x.p \in adopted'
BY DEF Add

\* A step that touches neither rows nor requests keeps the invariant.
LEMMA AsideKeeps ==
  ASSUME ReviewInv, UNCHANGED <<candidate, request, reviews>>, adopted \subseteq adopted'
  PROVE  ReviewInv'
<1>1. ReviewTypeInv'  BY DEF ReviewInv, ReviewTypeInv
<1>2. ASSUME NEW r \in Reviewers  PROVE RequestInv(r)'  BY DEF ReviewInv, RequestInv
<1>3. ApprovalNotLost' /\ ReviewedOnce'  BY DEF ReviewInv, ApprovalNotLost, ReviewedOnce
<1> QED  BY <1>1, <1>2, <1>3 DEF ReviewInv

\* Chat commands, the dashboard and the translation memory do.
LEMMA CommandsKeep ==
  ASSUME ReviewInv, NEW p \in Phrases, NEW w \in Words, Commands(p, w)
  PROVE  ReviewInv'
<1>1. UNCHANGED <<candidate, request, reviews>> /\ adopted \subseteq adopted'
  <2>1. CASE TermAdded(p, w)  BY <2>1, AddAdopts DEF TermAdded
  <2>2. CASE Suggested(p, w)  BY <2>2 DEF Suggested
  <2>3. CASE SuggestionApproved([p |-> p, vi |-> w])  BY <2>3, AddAdopts DEF SuggestionApproved
  <2>4. CASE SuggestionRejected([p |-> p, vi |-> w])  BY <2>4 DEF SuggestionRejected
  <2>5. ASSUME NEW g \in Groups, Overridden(g, p, w)
        PROVE  UNCHANGED <<candidate, request, reviews>> /\ adopted \subseteq adopted'
    BY <2>5 DEF Overridden
  <2> QED  BY <2>1, <2>2, <2>3, <2>4, <2>5 DEF Commands
<1> QED  BY <1>1, AsideKeeps

-----------------------------------------------------------------------------
(* Steps of a request *)

\* A request that begins with rows of the right kind, and marks nothing yet.
LEMMA BeginsKeeps ==
  ASSUME ReviewInv, NEW r \in Reviewers, NEW req, Begins(r, req),
         req \in [at : {"mined", "approving", "dismissing", "taken"}, rows : Seq(Pairs)],
         req.rows # <<>>, UNCHANGED <<candidate, adopted, reviews>>
  PROVE  ReviewInv'
<1>1. request' = [request EXCEPT ![r] = req]  BY DEF Begins
<1>2. ReviewTypeInv'  BY <1>1 DEF ReviewInv, ReviewTypeInv
<1>3. ASSUME NEW q \in Reviewers  PROVE RequestInv(q)'
  BY <1>1 DEF ReviewInv, ReviewTypeInv, RequestInv
<1>4. ApprovalNotLost' /\ ReviewedOnce'  BY DEF ReviewInv, ApprovalNotLost, ReviewedOnce
<1> QED  BY <1>2, <1>3, <1>4 DEF ReviewInv

\* A function on 1 .. n is a sequence.
LEMMA FunctionIsSeq ==
  ASSUME NEW S, NEW n \in Nat, NEW f \in [1 .. n -> S]
  PROVE  f \in Seq(S)
<1>1. f = [i \in 1 .. n |-> f[i]] /\ \A i \in 1 .. n : f[i] \in S  OBVIOUS
<1>2. [i \in 1 .. n |-> f[i]] \in Seq(S)  BY <1>1
<1> QED  BY <1>1, <1>2

\* The first row of a sequence, and those that follow it.
LEMMA RowsFollow ==
  ASSUME NEW S, NEW s \in Seq(S), s # <<>>
  PROVE  /\ Head(s) = s[1] /\ 1 \in DOMAIN s /\ s[1] \in S
         /\ Tail(s) \in Seq(S) /\ Len(s) # 1 => Tail(s) # <<>>
         /\ \A k \in DOMAIN Tail(s) : k + 1 \in DOMAIN s /\ Tail(s)[k] = s[k + 1]
<1>1. Len(s) \in Nat \ {0}  BY EmptySeq
<1>2. DOMAIN s = 1 .. Len(s) /\ 1 \in 1 .. Len(s)  BY <1>1, LenProperties
<1>3. /\ Head(s) \in S /\ Tail(s) \in Seq(S) /\ Len(Tail(s)) = Len(s) - 1
      /\ \A k \in 1 .. Len(Tail(s)) : Tail(s)[k] = s[k + 1]
  BY HeadTailProperties
<1>4. DOMAIN Tail(s) = 1 .. Len(Tail(s))  BY <1>3, LenProperties
<1>5. Len(s) # 1 => Tail(s) # <<>>
  <2>1. Len(s) # 1 => Len(Tail(s)) # 0  BY <1>1, <1>3
  <2>2. Len(<<>>) = 0  OBVIOUS
  <2> QED  BY <2>1, <2>2, Zenon
<1>6. Head(s) = s[1] /\ s[1] \in S  BY <1>2, ElementOfSeq
<1> QED  BY <1>1, <1>2, <1>3, <1>4, <1>5, <1>6

\* One row is a sequence of rows.
LEMMA OneRow ==
  ASSUME NEW x \in Pairs
  PROVE  <<x>> \in Seq(Pairs) /\ <<x>> # <<>>
OBVIOUS

\* Scans, dismissals and approvals of sentences begin with one row.
LEMMA ReadsKeep ==
  ASSUME ReviewInv, NEW r \in Reviewers, ScanMines(r) \/ DismissReads(r) \/ SentenceTaken(r)
  PROVE  ReviewInv'
<1>1. CASE ScanMines(r)
  <2>1. PICK p \in Phrases, w \in Words : Begins(r, [at |-> "mined", rows |-> <<[p |-> p, vi |-> w]>>])
    BY <1>1 DEF ScanMines
  <2>2. [p |-> p, vi |-> w] \in Pairs  BY DEF Pairs
  <2> DEFINE req == [at |-> "mined", rows |-> <<[p |-> p, vi |-> w]>>]
  <2>3. req \in [at : {"mined", "approving", "dismissing", "taken"}, rows : Seq(Pairs)]
        /\ req.rows # <<>>
    BY <2>2, OneRow
  <2>4. UNCHANGED <<candidate, adopted, reviews>>  BY <1>1 DEF ScanMines
  <2> HIDE DEF req
  <2>5. Begins(r, req)  BY <2>1 DEF req
  <2> QED  BY <2>3, <2>4, <2>5, BeginsKeeps
<1>2. CASE DismissReads(r)
  <2>1. PICK p \in Unreviewed : Begins(r, [at |-> "dismissing", rows |-> <<[p |-> p, vi |-> None]>>])
    BY <1>2 DEF DismissReads
  <2>2. [p |-> p, vi |-> None] \in Pairs  BY DEF Pairs, Unreviewed
  <2> DEFINE req == [at |-> "dismissing", rows |-> <<[p |-> p, vi |-> None]>>]
  <2>3. req \in [at : {"mined", "approving", "dismissing", "taken"}, rows : Seq(Pairs)]
        /\ req.rows # <<>>
    BY <2>2, OneRow
  <2>4. UNCHANGED <<candidate, adopted, reviews>>  BY <1>2 DEF DismissReads
  <2> HIDE DEF req
  <2>5. Begins(r, req)  BY <2>1 DEF req
  <2> QED  BY <2>3, <2>4, <2>5, BeginsKeeps
<1>3. CASE SentenceTaken(r)
  <2>1. PICK p \in Phrases, w \in Words : Begins(r, [at |-> "taken", rows |-> <<[p |-> p, vi |-> w]>>])
    BY <1>3 DEF SentenceTaken
  <2>2. [p |-> p, vi |-> w] \in Pairs  BY DEF Pairs
  <2> DEFINE req == [at |-> "taken", rows |-> <<[p |-> p, vi |-> w]>>]
  <2>3. req \in [at : {"mined", "approving", "dismissing", "taken"}, rows : Seq(Pairs)]
        /\ req.rows # <<>>
    BY <2>2, OneRow
  <2>4. UNCHANGED <<candidate, adopted, reviews>>  BY <1>3 DEF SentenceTaken
  <2> HIDE DEF req
  <2>5. Begins(r, req)  BY <2>1 DEF req
  <2> QED  BY <2>3, <2>4, <2>5, BeginsKeeps
<1> QED  BY <1>1, <1>2, <1>3

\* An approval begins with the rows it has read, in some order.
LEMMA ApprovalReadsKeeps ==
  ASSUME ReviewInv, NEW r \in Reviewers, ApprovalReads(r)
  PROVE  ReviewInv'
<1>1. PICK s \in (SUBSET Unreviewed) \ {{}} : IsFiniteSet(s) /\ \E rows \in [1 .. Cardinality(s) -> s] :
        /\ {rows[k] : k \in DOMAIN rows} = s
        /\ Begins(r, [at |-> "approving",
                      rows |-> [k \in DOMAIN rows |-> [p |-> rows[k], vi |-> candidate[rows[k]].vi]]])
  BY DEF ApprovalReads
<1>2. PICK rows \in [1 .. Cardinality(s) -> s] :
        /\ {rows[k] : k \in DOMAIN rows} = s
        /\ Begins(r, [at |-> "approving",
                      rows |-> [k \in DOMAIN rows |-> [p |-> rows[k], vi |-> candidate[rows[k]].vi]]])
  BY <1>1
<1>3. s \subseteq Phrases /\ s # {}  BY DEF Unreviewed
<1>4. IsFiniteSet(s) /\ Cardinality(s) \in Nat
  BY <1>1, FS_CardinalityType
<1> DEFINE read == [k \in 1 .. Cardinality(s) |-> [p |-> rows[k], vi |-> candidate[rows[k]].vi]]
           req == [at |-> "approving", rows |-> read]
<1>5. \A k \in 1 .. Cardinality(s) : read[k] \in Pairs
  BY <1>3 DEF ReviewInv, ReviewTypeInv, Pairs
<1>6. read \in Seq(Pairs)
  <2>1. read \in [1 .. Cardinality(s) -> Pairs]  BY <1>5
  <2> HIDE DEF read
  <2> QED  BY <2>1, <1>4, FunctionIsSeq
<1>7. read # <<>>
  <2>1. Cardinality(s) # 0  BY <1>3, <1>4, FS_EmptySet
  <2>2. 1 \in DOMAIN read  BY <2>1, <1>4
  <2> QED  BY <2>2
<1>8. Begins(r, req)  BY <1>2
<1>9. UNCHANGED <<candidate, adopted, reviews>>  BY DEF ApprovalReads
<1> HIDE DEF read
<1>10. req \in [at : {"mined", "approving", "dismissing", "taken"}, rows : Seq(Pairs)]
       /\ req.rows # <<>>
  BY <1>6, <1>7
<1> HIDE DEF req
<1> QED  BY <1>8, <1>9, <1>10, BeginsKeeps

\* A request that ends forgets its rows.
LEMMA EndsTyped ==
  ASSUME ReviewTypeInv, NEW r \in Reviewers, Ends(r)
  PROVE  /\ request' \in [Reviewers -> [at : {"idle", "mined", "approving", "marking", "dismissing",
                                              "taken"}, rows : Seq(Pairs)]]
         /\ request'[r].at = "idle"
         /\ \A q \in Reviewers \ {r} : request'[q] = request[q]
<1>1. <<>> \in Seq(Pairs)  BY EmptySeq
<1> QED  BY <1>1 DEF ReviewTypeInv, Ends, Idle

\* A scan proposes again what nobody has reviewed.
LEMMA UpsertsKeeps ==
  ASSUME ReviewInv, NEW r \in Reviewers, Upserts(r)
  PROVE  ReviewInv'
<1>1. PICK x \in Rows(r) : candidate' = [candidate EXCEPT ![x.p] =
                        IF @.status \in {None, "new"} THEN [status |-> "new", vi |-> x.vi] ELSE @]
  BY DEF Upserts
<1>2. x \in Pairs  BY DEF Rows, ReviewInv, ReviewTypeInv
<1>3. Ends(r) /\ UNCHANGED <<adopted, reviews>>  BY DEF Upserts
<1>4. ReviewTypeInv'  BY <1>1, <1>2, <1>3, EndsTyped DEF ReviewInv, ReviewTypeInv, Pairs
<1>5. ASSUME NEW q \in Reviewers  PROVE RequestInv(q)'
  BY <1>3, EndsTyped DEF ReviewInv, RequestInv
<1>6. \A p \in Phrases : \/ candidate'[p] = candidate[p]
                         \/ candidate[p].status \in {None, "new"} /\ candidate'[p].status = "new"
  BY <1>1, <1>2 DEF ReviewInv, ReviewTypeInv, Pairs
<1>7. ApprovalNotLost' /\ ReviewedOnce'
  BY <1>3, <1>6 DEF ReviewInv, ApprovalNotLost, ReviewedOnce
<1> QED  BY <1>4, <1>5, <1>7 DEF ReviewInv

\* An approval writes its rows to the glossary before it marks them.
LEMMA ApprovalWritesKeeps ==
  ASSUME ReviewInv, NEW r \in Reviewers, ApprovalWrites(r)
  PROVE  ReviewInv'
<1>1. /\ request[r].at = "approving" /\ request' = [request EXCEPT ![r].at = "marking"]
      /\ UNCHANGED <<candidate, reviews>>
  BY DEF ApprovalWrites, Turns
<1>2. adopted \subseteq adopted' /\ \A k \in DOMAIN request[r].rows : request[r].rows[k].p \in adopted'
  <2>1. CASE Add(Rows(r))  BY <2>1, AddAdopts DEF Rows
  <2>2. ASSUME Len(request[r].rows) = 1, NEW x \in Corrected(request[r].rows[1]), Add({x})
        PROVE  adopted \subseteq adopted' /\ \A k \in DOMAIN request[r].rows : request[r].rows[k].p \in adopted'
    <3>1. x.p = request[r].rows[1].p  BY DEF Corrected
    <3>2. DOMAIN request[r].rows = {1}  BY <2>2 DEF ReviewInv, ReviewTypeInv
    <3> QED  BY <2>2, <3>1, <3>2, AddAdopts
  <2> QED  BY <2>1, <2>2 DEF ApprovalWrites
<1>3. ReviewTypeInv'  BY <1>1 DEF ReviewInv, ReviewTypeInv
<1>4. ASSUME NEW q \in Reviewers  PROVE RequestInv(q)'
  BY <1>1, <1>2 DEF ReviewInv, ReviewTypeInv, RequestInv
<1>5. ApprovalNotLost' /\ ReviewedOnce'
  BY <1>1, <1>2 DEF ReviewInv, ApprovalNotLost, ReviewedOnce
<1> QED  BY <1>3, <1>4, <1>5 DEF ReviewInv

\* An update moves a row that is still in the queue, and logs it at most once.
LEMMA MarkedKeeps ==
  ASSUME ReviewInv, NEW p \in Phrases, NEW outcome \in {"approved", "dismissed"}, Marked(p, outcome),
         outcome = "approved" => p \in adopted, UNCHANGED adopted
  PROVE  /\ candidate' \in [Phrases -> [status : {None, "new", "approved", "dismissed"},
                                        vi : Words \cup {None}]]
         /\ reviews' \in [Phrases -> Nat]
         /\ ApprovalNotLost'
         /\ ReviewedOnce'
<1>1. CASE ~Moves(p)
  <2>1. candidate' = candidate /\ reviews' = reviews  BY <1>1 DEF Marked, ReviewInv, ReviewTypeInv
  <2> QED  BY <2>1 DEF ReviewInv, ReviewTypeInv, ApprovalNotLost, ReviewedOnce
<1>2. CASE Moves(p)
  <2>1. candidate' = [candidate EXCEPT ![p].status = outcome]  BY <1>2 DEF Marked
  <2>2. reviews' = [reviews EXCEPT ![p] = @ + 1] \/ reviews' = reviews  BY <1>2 DEF Marked
  <2>3. candidate[p].status = "new" /\ reviews[p] = 0
    BY <1>2 DEF Moves, ReviewInv, ReviewTypeInv, ReviewedOnce
  <2>4. ApprovalNotLost'  BY <2>1 DEF ReviewInv, ReviewTypeInv, ApprovalNotLost
  <2>5. candidate' \in [Phrases -> [status : {None, "new", "approved", "dismissed"},
                                    vi : Words \cup {None}]]
    BY <2>1 DEF ReviewInv, ReviewTypeInv
  <2>6. reviews' \in [Phrases -> Nat]  BY <2>2 DEF ReviewInv, ReviewTypeInv
  <2>7. ASSUME NEW q \in Phrases
        PROVE  reviews'[q] <= (IF candidate'[q].status \in {None, "new"} THEN 0 ELSE 1)
    <3>1. CASE q = p
      <4>1. candidate'[q].status = outcome  BY <2>1, <3>1 DEF ReviewInv, ReviewTypeInv
      <4>2. reviews'[q] \in {0, 1}  BY <2>2, <2>3, <3>1 DEF ReviewInv, ReviewTypeInv
      <4>3. outcome \notin {None, "new"}  BY DEF None
      <4> QED  BY <4>1, <4>2, <4>3
    <3>2. CASE q # p
      <4>1. candidate'[q] = candidate[q] /\ reviews'[q] = reviews[q]
        BY <2>1, <2>2, <3>2 DEF ReviewInv, ReviewTypeInv
      <4> QED  BY <4>1 DEF ReviewInv, ReviewedOnce
    <3> QED  BY <3>1, <3>2
  <2> QED  BY <2>4, <2>5, <2>6, <2>7 DEF ReviewedOnce
<1> QED  BY <1>1, <1>2

\* Approvals mark rows that have been written, dismissals any row.
LEMMA MarksKeep ==
  ASSUME ReviewInv, NEW r \in Reviewers, ApprovalMarks(r) \/ DismissMarks(r)
  PROVE  ReviewInv'
<1> DEFINE rows == request[r].rows
<1>1. rows \in Seq(Pairs) /\ (request[r].at \in {"marking", "dismissing"} => rows # <<>>)
  BY DEF ReviewInv, ReviewTypeInv, RequestInv
<1> HIDE DEF rows
<1>2. CASE DismissMarks(r)
  <2>1. rows[1] \in Pairs  BY <1>1, <1>2, RowsFollow DEF DismissMarks
  <2>2. Marked(rows[1].p, "dismissed") /\ Ends(r) /\ UNCHANGED adopted  BY <1>2 DEF DismissMarks, rows
  <2>3. /\ candidate' \in [Phrases -> [status : {None, "new", "approved", "dismissed"},
                                       vi : Words \cup {None}]]
        /\ reviews' \in [Phrases -> Nat] /\ ApprovalNotLost' /\ ReviewedOnce'
    BY <2>1, <2>2, MarkedKeeps DEF Pairs
  <2>4. ReviewTypeInv'  BY <2>2, <2>3, EndsTyped DEF ReviewInv, ReviewTypeInv
  <2>5. ASSUME NEW q \in Reviewers  PROVE RequestInv(q)'
    BY <2>2, EndsTyped DEF ReviewInv, RequestInv
  <2> QED  BY <2>3, <2>4, <2>5 DEF ReviewInv
<1>3. CASE ApprovalMarks(r)
  <2>1. request[r].at = "marking" /\ rows # <<>>  BY <1>1, <1>3 DEF ApprovalMarks
  <2>2. Head(rows) = rows[1] /\ 1 \in DOMAIN rows /\ rows[1] \in Pairs
    BY <1>1, <2>1, RowsFollow
  <2>3. Head(rows).p \in Phrases /\ Head(rows).p \in adopted
    BY <2>1, <2>2 DEF ReviewInv, RequestInv, Pairs, rows
  <2>4. Marked(Head(rows).p, "approved") /\ UNCHANGED adopted  BY <1>3 DEF ApprovalMarks, rows
  <2>5. /\ candidate' \in [Phrases -> [status : {None, "new", "approved", "dismissed"},
                                       vi : Words \cup {None}]]
        /\ reviews' \in [Phrases -> Nat] /\ ApprovalNotLost' /\ ReviewedOnce'
    BY <2>3, <2>4, MarkedKeeps
  <2>6. CASE Len(rows) = 1
    <3>1. Ends(r)  BY <1>3, <2>6 DEF ApprovalMarks, rows
    <3>2. ReviewTypeInv'  BY <2>5, <3>1, EndsTyped DEF ReviewInv, ReviewTypeInv
    <3>3. ASSUME NEW q \in Reviewers  PROVE RequestInv(q)'
      BY <2>4, <3>1, EndsTyped DEF ReviewInv, RequestInv
    <3> QED  BY <2>5, <3>2, <3>3 DEF ReviewInv
  <2>7. CASE Len(rows) # 1
    <3>1. request' = [request EXCEPT ![r].rows = Tail(@)]  BY <1>3, <2>7 DEF ApprovalMarks, rows
    <3>2. /\ Tail(rows) \in Seq(Pairs) /\ Tail(rows) # <<>>
          /\ \A k \in DOMAIN Tail(rows) : k + 1 \in DOMAIN rows /\ Tail(rows)[k] = rows[k + 1]
      BY <1>1, <2>1, <2>7, RowsFollow
    <3>3. ReviewTypeInv'  BY <2>5, <3>1, <3>2 DEF ReviewInv, ReviewTypeInv, rows
    <3>4. ASSUME NEW q \in Reviewers  PROVE RequestInv(q)'
      <4>1. CASE q = r
        <5>1. request'[q].rows = Tail(rows) /\ request'[q].at = "marking"
          BY <2>1, <3>1, <4>1 DEF ReviewInv, ReviewTypeInv, rows
        <5>2. \A k \in DOMAIN rows : rows[k].p \in adopted  BY <2>1 DEF ReviewInv, RequestInv, rows
        <5>3. \A k \in DOMAIN Tail(rows) : Tail(rows)[k].p \in adopted'
          BY <3>2, <5>2, <2>4
        <5> QED  BY <5>1, <5>3, <3>2 DEF RequestInv
      <4>2. CASE q # r
        <5>1. request'[q] = request[q]  BY <3>1, <4>2 DEF ReviewInv, ReviewTypeInv
        <5> QED  BY <5>1, <2>4 DEF ReviewInv, RequestInv
      <4> QED  BY <4>1, <4>2
    <3> QED  BY <2>5, <3>3, <3>4 DEF ReviewInv
  <2> QED  BY <2>6, <2>7
<1> QED  BY <1>2, <1>3

\* A sentence's pairing is written when the request ends.
LEMMA SentenceAddedKeeps ==
  ASSUME ReviewInv, NEW r \in Reviewers, SentenceAdded(r)
  PROVE  ReviewInv'
<1>1. Add(Rows(r)) /\ Ends(r) /\ UNCHANGED <<candidate, reviews>>  BY DEF SentenceAdded
<1>2. adopted \subseteq adopted'  BY <1>1, AddAdopts
<1>3. ReviewTypeInv'  BY <1>1, EndsTyped DEF ReviewInv, ReviewTypeInv
<1>4. ASSUME NEW q \in Reviewers  PROVE RequestInv(q)'
  BY <1>1, <1>2, EndsTyped DEF ReviewInv, RequestInv
<1>5. ApprovalNotLost' /\ ReviewedOnce'
  BY <1>1, <1>2 DEF ReviewInv, ApprovalNotLost, ReviewedOnce
<1> QED  BY <1>3, <1>4, <1>5 DEF ReviewInv

\* A crash forgets requests and keeps what was written.
LEMMA CrashKeeps == ReviewInv /\ Crash => ReviewInv'
<1> SUFFICES ASSUME ReviewInv, Crash  PROVE ReviewInv'
  OBVIOUS
<1>1. <<>> \in Seq(Pairs)  BY EmptySeq
<1>2. ReviewTypeInv'  BY <1>1 DEF ReviewInv, ReviewTypeInv, Crash, Idle
<1>3. ASSUME NEW q \in Reviewers  PROVE RequestInv(q)'
  BY DEF Crash, RequestInv, Idle
<1>4. ApprovalNotLost' /\ ReviewedOnce'  BY DEF ReviewInv, ApprovalNotLost, ReviewedOnce, Crash
<1> QED  BY <1>2, <1>3, <1>4 DEF ReviewInv

-----------------------------------------------------------------------------
(* The specification *)

\* Every step keeps the invariant.
LEMMA NextReview == ReviewInv /\ [Next]_reviewVars => ReviewInv'
<1> SUFFICES ASSUME ReviewInv, [Next]_reviewVars  PROVE ReviewInv'
  OBVIOUS
<1>1. ASSUME NEW r \in Reviewers, Requests(r)  PROVE ReviewInv'
  BY <1>1, ReadsKeep, ApprovalReadsKeeps, UpsertsKeeps, ApprovalWritesKeeps, MarksKeep,
     SentenceAddedKeeps DEF Requests
<1>2. ASSUME NEW p \in Phrases, Recorded(p) \/ SentenceDismissed(p)  PROVE ReviewInv'
  BY <1>2, AsideKeeps DEF Recorded, SentenceDismissed
<1>3. ASSUME NEW p \in Phrases, NEW w \in Words, Commands(p, w)  PROVE ReviewInv'
  BY <1>3, CommandsKeep
<1>4. ASSUME NEW t, TermRemoved(t)  PROVE ReviewInv'  BY <1>4, AsideKeeps DEF TermRemoved
<1>5. ASSUME NEW t, NEW g \in Groups, OverrideRemoved(g, t)  PROVE ReviewInv'
  BY <1>5, AsideKeeps DEF OverrideRemoved
<1>6. CASE Crash  BY <1>6, CrashKeeps
<1>7. CASE UNCHANGED reviewVars  BY <1>7, AsideKeeps DEF reviewVars
<1> QED  BY <1>1, <1>2, <1>3, <1>4, <1>5, <1>6, <1>7 DEF Next

\* The invariant holds throughout.
LEMMA ReviewInvariant == Spec => []ReviewInv
<1> QED  BY InitReview, NextReview, PTL DEF Spec

\* A candidate that counts as approved has been written to the glossary, for any number of
\* phrases, overlapping requests and crashes.
THEOREM ApprovalsKept == Spec => []ApprovalNotLost
<1>1. ReviewInv => ApprovalNotLost  BY DEF ReviewInv
<1> QED  BY <1>1, ReviewInvariant, PTL

\* No candidate's review is logged twice, nor that of one still in the queue.
THEOREM ReviewsOnce == Spec => []ReviewedOnce
<1>1. ReviewInv => ReviewedOnce  BY DEF ReviewInv
<1> QED  BY <1>1, ReviewInvariant, PTL

-----------------------------------------------------------------------------
(***************************************************************************)
(* One Baileys adapter, for any reconnect budget and any messages.  A      *)
(* teardown leaves a mark that no later step takes back: intentionalClose  *)
(* stays set, no timer is armed any more, and no step that could report    *)
(* the adapter starting or ready is left.                                  *)
(***************************************************************************)
(* The inductive invariants *)

Up == {"initializing", "ready"}

\* A teardown, once begun, is not undone.
TornDown == /\ intentional => begun /\ ~timer /\ (ended \/ leaving)
            /\ ended => intentional /\ status \notin Up
            /\ leaving => intentional
            /\ ~begun => ~connecting /\ ~timer /\ open = {}

ConnInv == TypeOK /\ TornDown /\ SocketOwned /\ NotStranded

\* A send that has returned is marked until its echo has come, unless its echo missed the mark.
PostInv(p) == /\ post[p] = "idle" =>
                    created[p] = 0 /\ p \notin marks /\ p \notin notified
              /\ post[p] \in {"sending", "failed"} =>
                    /\ p \notin marks
                    /\ created[p] = IF p \in notified THEN 1 ELSE 0
                    /\ post[p] = "sending" /\ p \in notified => p \in missed
              /\ post[p] \in {"mapping", "done"} => p \in marks \/ p \in notified \/ p \in missed
              /\ post[p] = "mapping" =>
                    created[p] <= IF p \in notified /\ p \in missed THEN 1 ELSE 0
              /\ post[p] = "done" =>
                    created[p] <= IF p \in notified /\ p \in missed THEN 2 ELSE 1

SendInv == TypeOK /\ \A p \in Posts : PostInv(p)

-----------------------------------------------------------------------------
(* The initial state *)

\* A new adapter has nothing to own.
LEMMA InitConn == ConnectionInit => ConnInv
<1> SUFFICES ASSUME ConnectionInit  PROVE ConnInv
  OBVIOUS
<1>1. TypeOK
  <2>1. post \in [Posts -> {"idle", "sending", "mapping", "done", "failed"}]  BY DEF ConnectionInit
  <2>2. created \in [Posts -> Nat]  BY DEF ConnectionInit
  <2> QED  BY <2>1, <2>2 DEF ConnectionInit, TypeOK, Statuses
<1>2. TornDown /\ SocketOwned /\ NotStranded  BY DEF ConnectionInit, TornDown, SocketOwned, NotStranded, Up
<1> QED  BY <1>1, <1>2 DEF ConnInv

\* No message has been sent.
LEMMA InitSend == ConnectionInit => SendInv
<1> SUFFICES ASSUME ConnectionInit  PROVE SendInv
  OBVIOUS
<1>1. TypeOK  BY InitConn DEF ConnInv
<1>2. \A p \in Posts : PostInv(p)  BY DEF ConnectionInit, PostInv
<1> QED  BY <1>1, <1>2 DEF SendInv

-----------------------------------------------------------------------------
(* The steps of the connection *)

\* Connecting, succeeding or not, and the timer that starts it again.
LEMMA ConnectKeeps ==
  ASSUME ConnInv, Initialize \/ Loaded \/ LoadFails \/ TimerFires
  PROVE  ConnInv'
<1> USE DEF ConnInv, TypeOK, TornDown, SocketOwned, NotStranded, Up, Statuses,
                             posting
<1>1. CASE Initialize  BY <1>1 DEF Initialize, Starts
<1>2. CASE Loaded
  <2>1. CASE intentional  BY <1>2, <2>1 DEF Loaded, MayConnect
  <2>2. CASE ~intentional
    <3>1. made + 1 \in Nat \ {0}  BY <1>2, <2>2 DEF Loaded, MayConnect
    <3>2. open \ {sock} = {}  OBVIOUS
    <3>3. open' = {made + 1} /\ sock' = made + 1 /\ made' = made + 1
      BY <1>2, <2>2, <3>2 DEF Loaded, MayConnect
    <3>4. open' \subseteq Nat \ {0} /\ open' \subseteq {sock'} /\ sock' \in open'
      BY <3>1, <3>3
    <3>5. ~ended /\ begun /\ ~connecting' /\ sock' \in Nat /\ made' \in Nat
      BY <1>2, <2>2, <3>3 DEF Loaded
    <3>6. UNCHANGED <<status, begun, intentional, timer, attempts, rendering, leaving, ended,
                      post, marks, notified, created, missed>>
      BY <1>2 DEF Loaded
    <3>7. connecting' = FALSE  BY <1>2 DEF Loaded
    <3>8. TypeOK'  BY <3>4, <3>5, <3>6, <3>7
    <3>9. TornDown'  BY <3>5, <3>6, <3>7, <2>2
    <3>10. SocketOwned' /\ NotStranded'  BY <3>4, <3>5, <3>6
    <3> QED  BY <3>8, <3>9, <3>10
  <2> QED  BY <2>1, <2>2
<1>3. CASE LoadFails  BY <1>3 DEF LoadFails
<1>4. CASE TimerFires  BY <1>4 DEF TimerFires, Starts
<1> QED  BY <1>1, <1>2, <1>3, <1>4

\* What the socket reports.
LEMMA UpdateKeeps ==
  ASSUME ConnInv, NEW s \in 1 .. MaxSockets, Update(s) \/ QrRendered
  PROVE  ConnInv'
<1> USE DEF ConnInv, TypeOK, TornDown, SocketOwned, NotStranded, Up, Statuses,
                             posting
<1>1. CASE Opens(s)  BY <1>1 DEF Opens
<1>2. CASE Shows(s)  BY <1>2 DEF Shows
<1>3. ASSUME NEW loggedOut \in BOOLEAN, Closes(s, loggedOut)  PROVE ConnInv'
  <2> DEFINE kind == ClassifyClose(loggedOut)
  <2>1. s = sock /\ ~ended /\ open' = {}  BY <1>3 DEF Closes
  <2>2. CASE kind = "reconnect"
    <3>1. ~intentional  BY <2>2 DEF ClassifyClose
    <3>2. attempts' = attempts + 1 /\ timer' = TRUE /\ status' = status /\ sock' = sock
      BY <1>3, <2>2 DEF Closes
    <3>3. attempts' \in Nat  BY <3>1, <3>2
    <3>4. begun  BY <1>3 DEF Closes
    <3> QED  BY <1>3, <2>1, <3>1, <3>2, <3>3, <3>4 DEF Closes
  <2>3. CASE kind # "reconnect"
    <3>1. kind \in {"intentional", "logged-out", "exhausted"}  BY <2>3 DEF ClassifyClose
    <3>2. status' \in {"disconnected", "failed"} /\ attempts' = attempts /\ timer' = timer
      BY <1>3, <3>1 DEF Closes
    <3>3. sock' \in Nat  BY <1>3 DEF Closes
    <3> QED  BY <1>3, <2>1, <3>2, <3>3 DEF Closes
  <2> QED  BY <2>2, <2>3
<1>4. CASE QrRendered  BY <1>4 DEF QrRendered
<1> QED  BY <1>1, <1>2, <1>3, <1>4 DEF Update

\* Teardowns.
LEMMA TeardownKeeps ==
  ASSUME ConnInv, Disconnect \/ Logout \/ LoggedOut
  PROVE  ConnInv'
<1> USE DEF ConnInv, TypeOK, TornDown, SocketOwned, NotStranded, Up, Statuses,
                             posting
<1>1. CASE Disconnect  BY <1>1 DEF Disconnect
<1>2. CASE Logout  BY <1>2 DEF Logout
<1>3. CASE LoggedOut  BY <1>3 DEF LoggedOut
<1> QED  BY <1>1, <1>2, <1>3

-----------------------------------------------------------------------------
(* The steps of a send *)

\* A step of one send, in either invariant.
LEMMA PostKeeps ==
  ASSUME TypeOK, NEW p \in Posts, Post(p)
  PROVE  TypeOK' /\ UNCHANGED life
<1> USE DEF TypeOK, life, Statuses
<1>1. CASE PostBegins(p)  BY <1>1 DEF PostBegins
<1>2. CASE SendRejected(p)  BY <1>2 DEF SendRejected
<1>3. CASE SendReturns(p)  BY <1>3 DEF SendReturns
<1>4. CASE EchoMapped(p)  BY <1>4 DEF EchoMapped, Fires
<1>5. CASE EchoLost(p)  BY <1>5 DEF EchoLost
<1>6. CASE Notified(p)  BY <1>6 DEF Notified, Fires
<1> QED  BY <1>1, <1>2, <1>3, <1>4, <1>5, <1>6 DEF Post

\* The step moves its own send only, and that one keeps its invariant.
LEMMA PostKeepsSends ==
  ASSUME SendInv, NEW p \in Posts, Post(p), NEW q \in Posts
  PROVE  PostInv(q)'
<1> USE DEF SendInv, TypeOK, PostInv
<1>1. CASE PostBegins(p)  BY <1>1 DEF PostBegins
<1>2. CASE SendRejected(p)  BY <1>2 DEF SendRejected
<1>3. CASE SendReturns(p)  BY <1>3 DEF SendReturns
<1>4. CASE EchoMapped(p)  BY <1>4 DEF EchoMapped, Fires
<1>5. CASE EchoLost(p)  BY <1>5 DEF EchoLost
<1>6. CASE Notified(p)  BY <1>6 DEF Notified, Fires
<1> QED  BY <1>1, <1>2, <1>3, <1>4, <1>5, <1>6 DEF Post

-----------------------------------------------------------------------------
(* The specification *)

\* Every step keeps the invariant of the connection.
LEMMA NextConn == ConnInv /\ [ConnectionNext]_baileysVars => ConnInv'
<1> SUFFICES ASSUME ConnInv, [ConnectionNext]_baileysVars  PROVE ConnInv'
  OBVIOUS
<1>1. CASE Initialize \/ Loaded \/ LoadFails \/ TimerFires  BY <1>1, ConnectKeeps
<1>2. ASSUME NEW s \in 1 .. MaxSockets, Update(s)  PROVE ConnInv'  BY <1>2, UpdateKeeps
<1>3. CASE QrRendered
  BY <1>3 DEF ConnInv, QrRendered, TypeOK, TornDown, SocketOwned, NotStranded, Up, Statuses, posting
<1>4. CASE Disconnect \/ Logout \/ LoggedOut  BY <1>4, TeardownKeeps
<1>5. ASSUME NEW p \in Posts, Post(p)  PROVE ConnInv'
  <2>1. TypeOK' /\ UNCHANGED life  BY <1>5, PostKeeps DEF ConnInv
  <2> QED  BY <2>1 DEF ConnInv, life, TornDown, SocketOwned, NotStranded
<1>6. CASE UNCHANGED baileysVars
  BY <1>6 DEF baileysVars, ConnInv, TypeOK, TornDown, SocketOwned, NotStranded
<1> QED  BY <1>1, <1>2, <1>3, <1>4, <1>5, <1>6 DEF ConnectionNext

\* The invariant of the connection holds throughout.
LEMMA ConnInvariant == ConnectionSpec => []ConnInv
<1> QED  BY InitConn, NextConn, PTL DEF ConnectionSpec

\* A step of the connection leaves sends alone.
LEMMA LifeKeepsSends ==
  ASSUME SendInv, TypeOK', UNCHANGED posting
  PROVE  SendInv'
BY DEF SendInv, posting, PostInv

\* Every step keeps the invariant of the sends.
LEMMA NextSend == SendInv /\ ConnInv /\ [ConnectionNext]_baileysVars => SendInv'
<1> SUFFICES ASSUME SendInv, ConnInv, [ConnectionNext]_baileysVars  PROVE SendInv'
  OBVIOUS
<1>1. TypeOK'  BY NextConn DEF ConnInv
<1>2. CASE UNCHANGED posting  BY <1>1, <1>2, LifeKeepsSends
<1>3. ASSUME NEW p \in Posts, Post(p)  PROVE SendInv'
  BY <1>1, <1>3, PostKeepsSends DEF SendInv
<1>4. CASE UNCHANGED baileysVars  BY <1>2, <1>4 DEF baileysVars, posting
<1> QED
  BY <1>2, <1>3, <1>4 DEF ConnectionNext, Update, Initialize, Loaded, LoadFails, TimerFires, Opens, Shows,
     Closes, QrRendered, Disconnect, Logout, LoggedOut

\* Status, flags and counters of a Baileys adapter keep their types, its attempts their budget.
THEOREM BaileysTypeCorrect == ConnectionSpec => []TypeOK
<1>1. ConnInv => TypeOK  BY DEF ConnInv
<1> QED  BY <1>1, ConnInvariant, PTL

\* No socket outlives the adapter's teardown, and an adapter that says it is starting or ready
\* has a socket, a timer or a connect at work, for every reconnect budget.
THEOREM ConnectionsSound == ConnectionSpec => []ConnectionSound
<1>1. ConnInv => ConnectionSound  BY DEF ConnInv, ConnectionSound
<1> QED  BY <1>1, ConnInvariant, PTL

\* onMessageCreate fires once for a message sent through the API, and a second time only if its
\* echo came before the send had returned or after its mark was evicted: for any set of messages.
THEOREM OwnSendsOnce == ConnectionSpec => []OwnSendOnce
<1>1. SendInv => OwnSendOnce
  <2> SUFFICES ASSUME SendInv, NEW p \in Posts
               PROVE  created[p] <= IF p \in missed THEN 2 ELSE 1
    BY DEF OwnSendOnce
  <2> QED  BY DEF SendInv, TypeOK, PostInv
<1>2. ConnectionInit => SendInv  BY InitSend
<1>3. SendInv /\ ConnInv /\ [ConnectionNext]_baileysVars => SendInv'  BY NextSend
<1> QED  BY <1>1, <1>2, <1>3, ConnInvariant, PTL DEF ConnectionSpec

-----------------------------------------------------------------------------
(***************************************************************************)
(* One chat of the dashboard, for any messages and disconnections.  At     *)
(* most one row and one bubble of a message is under WhatsApp's id,        *)
(* whoever writes it first; under another id are only placeholders of      *)
(* sends still unanswered and rows that a fetch has read too early.        *)
(***************************************************************************)
\* The events carry any status.
Events == [m : Messages, status : DeliveryStatus, ack : BOOLEAN]

\* A row of the table has one of two ids, a bubble any of three.
Kept == {r \in Bubbles : r.id # "temp"}

\* What a fetch has read, and how many of its requests were rejected.
Fetches == [on : BOOLEAN, db : Seq(SUBSET Kept), history : Seq(SUBSET Messages), lost : Nat]

ChatTypeInv ==
  /\ db \subseteq Kept /\ known \subseteq Messages
  /\ wire \in Seq(Events)
  /\ thread \in Seq(SUBSET Bubbles)
  /\ fetch \in Fetches
  /\ ask \in [Out -> {"idle", "waiting", "done", "failed"}]

\* At most one row of a message is under WhatsApp's id.
OneNamed(rows) == \A r, s \in rows : r.id = "wa" /\ s.id = "wa" /\ r.m = s.m => r = s

\* What a fetch has read, it has read since it began.
FetchKept == /\ fetch.db # <<>> => fetch.on /\ OneNamed(fetch.db[1])
             /\ fetch.history # <<>> => fetch.on

\* Under another id are only rows a fetch has read too early, and placeholders of sends
\* that have not been answered.
BubblesKept ==
  \A r \in Slice : /\ r.id = "uuid" => r.m \in blind
                   /\ r.id = "temp" /\ r.m \in Out => ask[r.m] \in {"waiting", "failed"}

ChatInv == ChatTypeInv /\ OneNamed(db) /\ OneNamed(Slice) /\ FetchKept /\ BubblesKept

-----------------------------------------------------------------------------
(* Lemmas on statuses and rows                                             *)

\* A status follows itself.
LEMMA FollowsItself ==
  ASSUME NEW s
  PROVE  Follows(s, s)
BY DEF Follows

\* mergeDeliveryStatus(): a status, and one the current may turn into.
LEMMA MergeAdvances ==
  ASSUME NEW s \in DeliveryStatus, NEW t \in DeliveryStatus
  PROVE  /\ MergeDeliveryStatus(s, t) \in DeliveryStatus
         /\ Follows(s, MergeDeliveryStatus(s, t))
<1>1. CASE s = "failed"
  BY <1>1, FollowsItself DEF MergeDeliveryStatus
<1>2. CASE s # "failed" /\ t = "failed"
  BY <1>2, FollowsItself DEF MergeDeliveryStatus, Follows
<1>3. CASE s # "failed" /\ t # "failed"
  BY <1>3, FollowsItself DEF MergeDeliveryStatus, Follows
<1>4. QED
  BY <1>1, <1>2, <1>3

\* A row, by its parts.
LEMMA BubbleFacts ==
  ASSUME NEW m \in Messages, NEW i \in {"temp", "uuid", "wa"},
         NEW s \in DeliveryStatus
  PROVE  /\ Bubble(m, i, s) \in Bubbles
         /\ i # "temp" => Bubble(m, i, s) \in Kept
         /\ Bubble(m, i, s).m = m /\ Bubble(m, i, s).id = i /\ Bubble(m, i, s).status = s
BY DEF Bubble, Bubbles, Kept

\* A named row keeps all but its status when it gets another.
LEMMA TickFacts ==
  ASSUME NEW r \in Bubbles, r.id = "wa", NEW s \in DeliveryStatus
  PROVE  /\ r.status \in DeliveryStatus
         /\ [r EXCEPT !.status = s] \in Kept /\ [r EXCEPT !.status = s] \in Bubbles
         /\ [r EXCEPT !.status = s].m = r.m /\ [r EXCEPT !.status = s].id = "wa"
         /\ [r EXCEPT !.status = s].status = s
BY DEF Kept, Bubbles

\* Rows without a named one of m may get it.
LEMMA NamedOnce ==
  ASSUME NEW rows, OneNamed(rows), NEW m, Named(rows, m) = {}, NEW b, b.m = m
  PROVE  OneNamed(rows \cup {b})
BY DEF OneNamed, Named

\* Rows among which are no other named ones have one of each message too.
LEMMA NamedAmong ==
  ASSUME NEW rows, OneNamed(rows), NEW others, \A r \in others : r.id = "wa" => r \in rows
  PROVE  OneNamed(others)
BY DEF OneNamed

\* The thread is what the cache entry holds, and nothing before there is one.
LEMMA SliceFacts ==
  ASSUME ChatTypeInv
  PROVE  /\ Slice \subseteq Bubbles
         /\ thread = Unopened => Slice = {}
BY LenProperties DEF ChatTypeInv, Slice, Unopened

\* A new entry is the thread.
LEMMA SliceSet ==
  ASSUME NEW R \in SUBSET Bubbles, thread' = <<R>>
  PROVE  Slice' = R /\ thread' \in Seq(SUBSET Bubbles)
<1>1. <<R>> # <<>> /\ <<R>>[1] = R /\ <<R>> \in Seq(SUBSET Bubbles)
  OBVIOUS
<1>2. QED
  BY <1>1 DEF Slice, Unopened

-----------------------------------------------------------------------------
(* The server and the socket                                               *)

\* What the server does leaves the page as it is, until an event arrives.
LEMMA ServerFrame ==
  ASSUME ChatInv, UNCHANGED <<thread, fetch, ask, blind>>,
         db' \subseteq Kept, OneNamed(db'), known' \subseteq Messages, wire' \in Seq(Events)
  PROVE  ChatInv'
BY DEF ChatInv, ChatTypeInv, FetchKept, BubblesKept, Slice, OneNamed

\* An event goes on the wire or is not heard.
LEMMA Emitted ==
  ASSUME ChatTypeInv, NEW event \in Events, Emit(event)
  PROVE  wire' \in Seq(Events)
<1>1. Append(wire, event) \in Seq(Events)
  BY AppendProperties DEF ChatTypeInv
<1>2. QED
  BY <1>1 DEF ChatTypeInv, Emit

\* Rows of a send without WhatsApp's id.
LEMMA RowSteps ==
  ASSUME ChatInv, NEW m \in Out, RowStored(m) \/ WhatsAppTakes(m) \/ SendThrows(m)
  PROVE  ChatInv'
<1>1. /\ m \in Messages /\ UNCHANGED <<thread, fetch, ask, blind, wire>>
      /\ known' \subseteq Messages
  BY DEF RowStored, WhatsAppTakes, SendThrows, ChatInv, ChatTypeInv, Messages
<1>2. \A s \in {"pending", "failed"} : Bubble(m, "uuid", s) \in Kept
                                     /\ Bubble(m, "uuid", s).id # "wa"
  BY <1>1, BubbleFacts DEF DeliveryStatus
<1>3. db' \subseteq Kept /\ \A r \in db' : r.id = "wa" => r \in db
  BY <1>2 DEF RowStored, WhatsAppTakes, SendThrows, ChatInv, ChatTypeInv
<1>4. OneNamed(db')
  BY <1>3, NamedAmong DEF ChatInv
<1>5. QED
  BY <1>1, <1>3, <1>4, ServerFrame DEF ChatInv, ChatTypeInv

\* Rows under WhatsApp's id: the response, the echo, a received message.
LEMMA NamedSteps ==
  ASSUME ChatInv, NEW m \in Messages, SentSaved(m) \/ Echoes(m) \/ InboundStored(m)
  PROVE  ChatInv'
<1> DEFINE b == Bubble(m, "wa", "sent")
           event == [m |-> m, status |-> "sent", ack |-> FALSE]
<1>1. b \in Kept /\ b.m = m
  BY BubbleFacts DEF DeliveryStatus
<1>2. event \in Events
  BY DEF Events, DeliveryStatus
<1>3. UNCHANGED <<thread, fetch, ask, blind, known>>
  BY DEF SentSaved, Echoes, InboundStored
<1>4. wire' \in Seq(Events)
  BY <1>2, Emitted DEF ChatInv, ChatTypeInv, SentSaved, Echoes, InboundStored
<1>5. \/ \A r \in db' : r \in db
      \/ Named(db, m) = {} /\ db' \subseteq db \cup {b}
  BY DEF SentSaved, Echoes, InboundStored
<1> HIDE DEF b
<1>6. db' \subseteq Kept
  BY <1>1, <1>5 DEF ChatInv, ChatTypeInv
<1>7. OneNamed(db')
  <2>1. CASE \A r \in db' : r \in db
    BY <2>1, NamedAmong DEF ChatInv
  <2>2. CASE Named(db, m) = {} /\ db' \subseteq db \cup {b}
    <3>1. OneNamed(db \cup {b})
      BY <2>2, <1>1, NamedOnce DEF ChatInv
    <3>2. QED
      BY <2>2, <3>1, NamedAmong
  <2>3. QED
    BY <1>5, <2>1, <2>2
<1>8. QED
  BY <1>3, <1>4, <1>6, <1>7, ServerFrame DEF ChatInv, ChatTypeInv

\* An acknowledgement: the named row of its message gets the mark.
LEMMA AckStep ==
  ASSUME ChatInv, NEW m \in Out, NEW mark \in DeliveryStatus, Acked(m, mark)
  PROVE  ChatInv'
<1> DEFINE f(r) == IF r \in Named(db, m) /\ r.status \in RowTakes(mark)
                   THEN [r EXCEPT !.status = mark] ELSE r
           event == [m |-> m, status |-> mark, ack |-> TRUE]
<1>1. event \in Events /\ mark \in DeliveryStatus
  BY DEF Events, DeliveryStatus, Messages
<1>2. UNCHANGED <<thread, fetch, ask, blind, known>> /\ wire' \in Seq(Events)
  BY <1>1, Emitted DEF ChatInv, Acked
<1>3. db' = {f(r) : r \in db}
  BY DEF Acked
<1>4. \A r \in db : f(r) \in Kept /\ f(r).m = r.m /\ f(r).id = r.id
  <2> SUFFICES ASSUME NEW r \in db PROVE f(r) \in Kept /\ f(r).m = r.m /\ f(r).id = r.id
    OBVIOUS
  <2>1. r \in Kept /\ r \in Bubbles
    BY DEF ChatInv, ChatTypeInv, Kept
  <2>2. CASE r \in Named(db, m) /\ r.status \in RowTakes(mark)
    <3>1. r.id = "wa"
      BY <2>2 DEF Named
    <3>2. f(r) = [r EXCEPT !.status = mark]
      BY <2>2
    <3>3. QED
      BY <2>1, <3>1, <3>2, <1>1, TickFacts
  <2>3. CASE ~(r \in Named(db, m) /\ r.status \in RowTakes(mark))
    BY <2>1, <2>3
  <2>4. QED
    BY <2>2, <2>3
<1> HIDE DEF f
<1>5. db' \subseteq Kept
  BY <1>3, <1>4
<1>6. OneNamed(db')
  <2> SUFFICES ASSUME NEW x \in db', NEW y \in db', x.id = "wa", y.id = "wa", x.m = y.m
               PROVE  x = y
    BY DEF OneNamed
  <2>1. PICK r, s \in db : x = f(r) /\ y = f(s)
    BY <1>3
  <2>2. r = s
    BY <2>1, <1>4 DEF ChatInv, OneNamed
  <2>3. QED
    BY <2>1, <2>2
<1>7. QED
  BY <1>2, <1>5, <1>6, ServerFrame DEF ChatInv, ChatTypeInv

\* A message reaches the engine's history.
LEMMA ReceivedStep ==
  ASSUME ChatInv, NEW m \in In, Received(m)
  PROVE  ChatInv'
<1>1. /\ UNCHANGED <<db, wire, thread, fetch, ask, blind>> /\ known' \subseteq Messages
  BY DEF Received, ChatInv, ChatTypeInv, Messages
<1>2. QED
  BY <1>1, ServerFrame DEF ChatInv, ChatTypeInv

\* A fetch that begins, or begins again, has read nothing.
LEMMA BegunFacts ==
  /\ Begun \in Fetches
  /\ Begun.db = <<>> /\ Begun.history = <<>>
  /\ NoFetch \in Fetches
  /\ NoFetch.db = <<>> /\ NoFetch.history = <<>>
<1>1. <<>> \in Seq(SUBSET Kept) /\ <<>> \in Seq(SUBSET Messages)
  OBVIOUS
<1>2. QED
  BY <1>1 DEF Begun, NoFetch, Fetches

\* The socket and the opening of the thread: events are lost and fetches begin.
LEMMA SocketSteps ==
  ASSUME ChatInv,
         \/ Connects \/ Disconnects \/ Keyed \/ SubscribeChecks \/ SubscribeRefused \/ Joins
         \/ ThreadOpens
  PROVE  ChatInv'
<1>1. /\ UNCHANGED <<db, known, thread, ask, blind>>
      /\ fetch' \in {fetch, Begun} /\ wire' \in {wire, <<>>}
  BY DEF Connects, Disconnects, Dropped, Keyed, SubscribeChecks, SubscribeRefused, Joins,
         ThreadOpens, Invalidated, server, page
<1>2. fetch' \in Fetches
      /\ wire' \in Seq(Events)
  <2>1. <<>> \in Seq(Events) /\ wire \in Seq(Events) /\ fetch \in Fetches
    BY DEF ChatInv, ChatTypeInv
  <2>2. QED
    BY <1>1, <2>1, BegunFacts
<1>3. FetchKept'
  BY <1>1, BegunFacts DEF ChatInv, FetchKept
<1>4. QED
  BY <1>1, <1>2, <1>3 DEF ChatInv, ChatTypeInv, BubblesKept, Slice

-----------------------------------------------------------------------------
(* The page                                                                *)

\* A fetch reads the rows and what the engine knows, in either order, or nothing if the request
\* is rejected.
LEMMA FetchReads ==
  ASSUME ChatInv, FetchReadsDb \/ FetchReadsHistory
  PROVE  ChatInv'
<1> DEFINE Db(rows, n) == [fetch EXCEPT !.db = <<rows>>, !.lost = n]
           History(h, n) == [fetch EXCEPT !.history = <<h>>, !.lost = n]
<1>1. fetch \in Fetches /\ fetch.lost \in Nat /\ fetch.lost + 1 \in Nat
  BY DEF ChatInv, ChatTypeInv, Fetches
<1>2. UNCHANGED <<db, known, wire, thread, ask, blind>> /\ fetch.on
  BY DEF FetchReadsDb, FetchReadsHistory, server, page
<1>3. \E n \in Nat : \/ \E rows \in {db, {}} : fetch' = Db(rows, n)
                      \/ \E h \in {known, {}} : fetch' = History(h, n)
  <2>1. [fetch EXCEPT !.db = <<db>>] = Db(db, fetch.lost)
        /\ [fetch EXCEPT !.history = <<known>>] = History(known, fetch.lost)
    BY <1>1 DEF Fetches
  <2>2. \/ fetch' = Db(db, fetch.lost) \/ fetch' = Db({}, fetch.lost + 1)
        \/ fetch' = History(known, fetch.lost) \/ fetch' = History({}, fetch.lost + 1)
    BY <2>1 DEF FetchReadsDb, FetchReadsHistory
  <2> HIDE DEF Db, History
  <2>3. QED
    BY <1>1, <2>2
<1>4. /\ \A rows \in {db, {}} : /\ <<rows>> \in Seq(SUBSET Kept) /\ <<rows>> # <<>>
                               /\ <<rows>>[1] = rows /\ OneNamed(rows)
      /\ \A h \in {known, {}} : <<h>> \in Seq(SUBSET Messages)
  BY DEF ChatInv, ChatTypeInv, OneNamed
<1>5. fetch' \in Fetches /\ FetchKept'
  <2>1. PICK n \in Nat : \/ \E rows \in {db, {}} : fetch' = Db(rows, n)
                         \/ \E h \in {known, {}} : fetch' = History(h, n)
    BY <1>3
  <2>2. ASSUME NEW rows \in {db, {}}, fetch' = Db(rows, n)
        PROVE  fetch' \in Fetches /\ FetchKept'
    <3>1. <<rows>> \in Seq(SUBSET Kept) /\ OneNamed(<<rows>>[1])
      BY <1>4
    <3>2. /\ fetch' \in Fetches
          /\ fetch'.on = fetch.on /\ fetch'.db = <<rows>> /\ fetch'.history = fetch.history
      BY <1>1, <2>2, <3>1 DEF Fetches
    <3>3. OneNamed(fetch'.db[1])
      BY <3>1, <3>2, Zenon
    <3>4. QED
      BY <1>2, <3>2, <3>3 DEF ChatInv, FetchKept, OneNamed
  <2>3. ASSUME NEW h \in {known, {}}, fetch' = History(h, n)
        PROVE  fetch' \in Fetches /\ FetchKept'
    <3>1. <<h>> \in Seq(SUBSET Messages)
      BY <1>4
    <3>2. /\ fetch' \in Fetches
          /\ fetch'.on = fetch.on /\ fetch'.db = fetch.db
      BY <1>1, <2>3, <3>1 DEF Fetches
    <3>3. QED
      BY <1>2, <3>2 DEF ChatInv, FetchKept, OneNamed
  <2>4. QED
    BY <2>1, <2>2, <2>3
<1>6. QED
  BY <1>2, <1>5 DEF ChatInv, ChatTypeInv, BubblesKept, Slice

\* Both requests rejected: the fetch begins again or is given up.
LEMMA ThrowsStep ==
  ASSUME ChatInv, FetchThrows
  PROVE  ChatInv'
<1>1. UNCHANGED <<db, known, wire, thread, ask, blind>> /\ fetch' \in {Begun, NoFetch}
  BY DEF FetchThrows, server
<1>2. fetch' \in Fetches /\ FetchKept'
  BY <1>1, BegunFacts DEF FetchKept
<1>3. QED
  BY <1>1, <1>2 DEF ChatInv, ChatTypeInv, BubblesKept, Slice

\* The thread changes and the rest of what the invariant speaks of does not.
LEMMA ThreadFrame ==
  ASSUME ChatInv, NEW R \in SUBSET Bubbles, thread' = <<R>>, UNCHANGED <<db, known>>,
         OneNamed(R), wire' \in Seq(Events),
         fetch' = fetch \/ fetch' = NoFetch,
         ask' \in [Out -> {"idle", "waiting", "done", "failed"}],
         \A r \in R : /\ r.id = "uuid" => r.m \in blind'
                      /\ r.id = "temp" /\ r.m \in Out => ask'[r.m] \in {"waiting", "failed"}
  PROVE  ChatInv'
<1>1. Slice' = R /\ thread' \in Seq(SUBSET Bubbles)
  BY SliceSet
<1>2. FetchKept' /\ fetch' \in Fetches
  BY BegunFacts DEF ChatInv, ChatTypeInv, FetchKept
<1>3. BubblesKept'
  BY <1>1 DEF BubblesKept
<1>4. OneNamed(db)'
  BY DEF ChatInv, OneNamed
<1>5. OneNamed(Slice)'
  BY <1>1 DEF OneNamed
<1>6. ChatTypeInv'
  BY <1>1, <1>2 DEF ChatInv, ChatTypeInv
<1>7. QED
  BY <1>2, <1>3, <1>4, <1>5, <1>6 DEF ChatInv

\* mergeChatMessages(): the stored rows, and the engine's messages that are not among them.
LEMMA MergeKeepsOne ==
  ASSUME NEW rows \in SUBSET Kept, OneNamed(rows), NEW history \in SUBSET Messages
  PROVE  /\ MergeChatMessages(rows, history) \subseteq Kept
         /\ OneNamed(MergeChatMessages(rows, history))
         /\ \A r \in MergeChatMessages(rows, history) : r.id # "wa" => r \in rows
<1> DEFINE extra == {Bubble(m, "wa", "read") : m \in {n \in history : Named(rows, n) = {}}}
<1>1. \A r \in extra : /\ r \in Kept /\ r.id = "wa" /\ Named(rows, r.m) = {}
                       /\ r = Bubble(r.m, "wa", "read")
  BY BubbleFacts DEF DeliveryStatus
<1>2. MergeChatMessages(rows, history) = rows \cup extra
  BY DEF MergeChatMessages
<1> HIDE DEF extra
<1>3. OneNamed(rows \cup extra)
  BY <1>1 DEF OneNamed, Named
<1>4. QED
  BY <1>1, <1>2, <1>3

\* A fetch lands: the thread is what it has read.
LEMMA LandsStep ==
  ASSUME ChatInv, FetchLands
  PROVE  ChatInv'
<1> DEFINE rows == fetch.db[1]
           history == fetch.history[1]
           R == MergeChatMessages(rows, history)
<1>1. rows \in SUBSET Kept /\ history \in SUBSET Messages /\ OneNamed(rows)
  BY LenProperties DEF ChatInv, ChatTypeInv, Fetches, FetchKept, FetchLands, FetchAnswered
<1>2. /\ thread' = <<R>> /\ fetch' = NoFetch /\ UNCHANGED <<db, known, wire, ask>>
      /\ blind' = blind \cup {r.m : r \in {s \in rows : s.id = "uuid"}}
  BY DEF FetchLands, server
<1> HIDE DEF rows, history
<1>3. R \subseteq Kept /\ OneNamed(R) /\ \A r \in R : r.id # "wa" => r \in rows
  BY <1>1, MergeKeepsOne
<1> HIDE DEF R
<1>4. R \subseteq Bubbles /\ \A r \in R : r.id # "temp"
  BY <1>3 DEF Kept
<1>5. \A r \in R : r.id = "uuid" => r.m \in blind'
  BY <1>2, <1>3
<1>6. QED
  BY <1>2, <1>3, <1>4, <1>5, ThreadFrame DEF ChatInv, ChatTypeInv

\* What an event makes of an open thread.
Ticked(rows, event) ==
  {IF r \in Named(rows, event.m)
   THEN [r EXCEPT !.status = MergeDeliveryStatus(r.status, event.status)] ELSE r : r \in rows}

\* Every bubble keeps its place; a named one has a mark no lower.
LEMMA TickedKeeps ==
  ASSUME NEW rows \in SUBSET Bubbles, OneNamed(rows), NEW event \in Events
  PROVE  /\ Ticked(rows, event) \subseteq Bubbles /\ OneNamed(Ticked(rows, event))
         /\ \A x \in Ticked(rows, event) : x.id # "wa" => x \in rows
         /\ \A r \in rows : r.id = "wa" =>
              \E x \in Ticked(rows, event) :
                x.m = r.m /\ x.id = "wa" /\ Follows(r.status, x.status)
         /\ Named(rows, event.m) = {} => Named(Ticked(rows, event), event.m) = {}
<1> DEFINE f(r) == IF r \in Named(rows, event.m)
                   THEN [r EXCEPT !.status = MergeDeliveryStatus(r.status, event.status)] ELSE r
<1>1. Ticked(rows, event) = {f(r) : r \in rows}
  BY DEF Ticked
<1>2. ASSUME NEW r \in rows
      PROVE  /\ f(r) \in Bubbles /\ f(r).m = r.m /\ f(r).id = r.id
             /\ r.id # "wa" => f(r) = r
             /\ r.id = "wa" => Follows(r.status, f(r).status)
  <2>1. r \in Bubbles /\ event.status \in DeliveryStatus
    BY DEF Events
  <2>2. CASE r \in Named(rows, event.m)
    <3>1. r.id = "wa" /\ r.status \in DeliveryStatus
      BY <2>1, <2>2 DEF Named, Bubbles
    <3>2. /\ MergeDeliveryStatus(r.status, event.status) \in DeliveryStatus
          /\ Follows(r.status, MergeDeliveryStatus(r.status, event.status))
      BY <3>1, <2>1, MergeAdvances
    <3>3. f(r) = [r EXCEPT !.status = MergeDeliveryStatus(r.status, event.status)]
      BY <2>2
    <3> HIDE DEF f
    <3>4. f(r) \in Bubbles /\ f(r).m = r.m /\ f(r).id = "wa"
          /\ f(r).status = MergeDeliveryStatus(r.status, event.status)
      BY <2>1, <3>1, <3>2, <3>3, TickFacts
    <3>5. QED
      BY <3>1, <3>2, <3>4
  <2>3. CASE r \notin Named(rows, event.m)
    <3>1. f(r) = r
      BY <2>3
    <3>2. Follows(r.status, r.status)
      BY FollowsItself
    <3> HIDE DEF f
    <3>3. QED
      BY <3>1, <3>2, <2>1
  <2>4. QED
    BY <2>2, <2>3
<1> HIDE DEF f
<1>3. Ticked(rows, event) \subseteq Bubbles
  BY <1>1, <1>2
<1>4. OneNamed(Ticked(rows, event))
  <2> SUFFICES ASSUME NEW x \in Ticked(rows, event), NEW y \in Ticked(rows, event),
                      x.id = "wa", y.id = "wa", x.m = y.m
               PROVE  x = y
    BY DEF OneNamed
  <2>1. PICK r, s \in rows : x = f(r) /\ y = f(s)
    BY <1>1
  <2>2. r = s
    BY <2>1, <1>2 DEF OneNamed
  <2>3. QED
    BY <2>1, <2>2
<1>5. \A x \in Ticked(rows, event) : x.id # "wa" => x \in rows
  BY <1>1, <1>2
<1>6. ASSUME NEW r \in rows, r.id = "wa"
      PROVE  \E x \in Ticked(rows, event) :
                x.m = r.m /\ x.id = "wa" /\ Follows(r.status, x.status)
  BY <1>1, <1>2, <1>6
<1>7. ASSUME Named(rows, event.m) = {}
      PROVE  Named(Ticked(rows, event), event.m) = {}
  BY <1>1, <1>2, <1>7 DEF Named
<1>8. QED
  BY <1>3, <1>4, <1>5, <1>6, <1>7

\* mergeOrAppend(): the marks, and the message if it has no bubble yet.
LEMMA MergedFacts ==
  ASSUME ChatTypeInv, OneNamed(Slice), NEW event \in Events, thread # Unopened
  PROVE  \E R \in SUBSET Bubbles :
           /\ Merged(event) = <<R>> /\ OneNamed(R)
           /\ \A x \in R : x.id # "wa" => x \in Slice
           /\ \A r \in Slice : r.id = "wa" =>
                \E x \in R : x.m = r.m /\ x.id = "wa" /\ Follows(r.status, x.status)
<1> DEFINE M == Ticked(Slice, event)
           b == Bubble(event.m, "wa", event.status)
           R == M \cup (IF event.ack \/ Named(Slice, event.m) # {} THEN {} ELSE {b})
<1>1. Merged(event) = <<R>>
  BY DEF Merged, Ticked
<1>2. /\ M \subseteq Bubbles /\ OneNamed(M)
      /\ \A x \in M : x.id # "wa" => x \in Slice
      /\ \A r \in Slice : r.id = "wa" =>
           \E x \in M : x.m = r.m /\ x.id = "wa" /\ Follows(r.status, x.status)
      /\ Named(Slice, event.m) = {} => Named(M, event.m) = {}
  BY SliceFacts, TickedKeeps
<1>3. b \in Bubbles /\ b.m = event.m /\ b.id = "wa"
  BY BubbleFacts DEF Events, DeliveryStatus
<1> HIDE DEF M, b
<1>4. OneNamed(R)
  <2>1. CASE event.ack \/ Named(Slice, event.m) # {}
    <3>1. R = M
      BY <2>1
    <3>2. QED
      BY <3>1, <1>2
  <2>2. CASE ~(event.ack \/ Named(Slice, event.m) # {})
    <3>1. R = M \cup {b}
      BY <2>2
    <3>2. Named(M, event.m) = {}
      BY <2>2, <1>2
    <3>3. QED
      BY <3>1, <3>2, <1>2, <1>3, NamedOnce
  <2>3. QED
    BY <2>1, <2>2
<1>5. R \subseteq Bubbles
  BY <1>2, <1>3
<1>6. \A x \in R : x.id # "wa" => x \in Slice
  BY <1>2, <1>3
<1>7. \A r \in Slice : r.id = "wa" =>
        \E x \in R : x.m = r.m /\ x.id = "wa" /\ Follows(r.status, x.status)
  BY <1>2
<1>8. QED
  BY <1>1, <1>4, <1>5, <1>6, <1>7

\* An event arrives.
LEMMA EventStep ==
  ASSUME ChatInv, EventArrives
  PROVE  ChatInv'
<1> DEFINE event == Head(wire)
<1>1. event \in Events /\ wire' \in Seq(Events) /\ thread' = Merged(event)
  BY HeadTailProperties DEF ChatInv, ChatTypeInv, EventArrives
<1>2. UNCHANGED <<db, known, fetch, ask, blind>>
  BY DEF EventArrives, server
<1> HIDE DEF event
<1>3. CASE thread = Unopened
  <2>1. thread' = thread
    BY <1>1, <1>3 DEF Merged
  <2>2. QED
    BY <1>1, <1>2, <2>1 DEF ChatInv, ChatTypeInv, FetchKept, BubblesKept, Slice
<1>4. CASE thread # Unopened
  <2>1. PICK R \in SUBSET Bubbles :
          /\ Merged(event) = <<R>> /\ OneNamed(R)
          /\ \A x \in R : x.id # "wa" => x \in Slice
    BY <1>1, <1>4, MergedFacts DEF ChatInv
  <2>2. \A r \in R : /\ r.id = "uuid" => r.m \in blind'
                     /\ r.id = "temp" /\ r.m \in Out => ask'[r.m] \in {"waiting", "failed"}
    BY <1>2, <2>1 DEF ChatInv, BubblesKept
  <2>3. QED
    BY <1>1, <1>2, <2>1, <2>2, ThreadFrame DEF ChatInv, ChatTypeInv
<1>5. QED
  BY <1>3, <1>4

\* A send begins: a placeholder of its own, and the request.
LEMMA BeginsStep ==
  ASSUME ChatInv, NEW m \in Out, SendBegins(m)
  PROVE  ChatInv'
<1> DEFINE b == Bubble(m, "temp", "pending")
<1>1. /\ UNCHANGED <<db, known, wire, fetch, blind>> /\ ask[m] = "idle"
      /\ ask' = [ask EXCEPT ![m] = "waiting"]
      /\ thread' = IF thread = Unopened THEN thread ELSE <<Slice \cup {b}>>
  BY DEF SendBegins, page
<1>2. b \in Bubbles /\ b.m = m /\ b.id = "temp"
  BY BubbleFacts DEF Messages, DeliveryStatus
<1> HIDE DEF b
<1>3. /\ ask' \in [Out -> {"idle", "waiting", "done", "failed"}]
      /\ \A n \in Out : ask[n] \in {"waiting", "failed"} => ask'[n] \in {"waiting", "failed"}
      /\ ask'[m] = "waiting"
  BY <1>1 DEF ChatInv, ChatTypeInv
<1>4. CASE thread = Unopened
  <2>1. thread' = thread
    BY <1>1, <1>4
  <2>2. QED
    BY <1>1, <1>3, <2>1 DEF ChatInv, ChatTypeInv, FetchKept, BubblesKept, Slice
<1>5. CASE thread # Unopened
  <2> DEFINE R == Slice \cup {b}
  <2>1. R \subseteq Bubbles
    BY <1>2, SliceFacts DEF ChatInv
  <2>2. OneNamed(R)
    BY <1>2, NamedAmong DEF ChatInv
  <2>3. \A r \in R : /\ r.id = "uuid" => r.m \in blind'
                     /\ r.id = "temp" /\ r.m \in Out => ask'[r.m] \in {"waiting", "failed"}
    BY <1>1, <1>2, <1>3 DEF ChatInv, BubblesKept
  <2>4. QED
    BY <1>1, <1>3, <1>5, <2>1, <2>2, <2>3, ThreadFrame DEF ChatInv, ChatTypeInv
<1>6. QED
  BY <1>4, <1>5

\* The request ends: the placeholder goes, is renamed unless the echo came first, or stays
\* as a failed one. No named bubble goes.
LEMMA EndsSteps ==
  ASSUME ChatInv, NEW m \in Out, Answered(m) \/ Fails(m)
  PROVE  /\ ChatInv'
         /\ \A r \in Slice : r.id = "wa" => r \in Slice'
<1> DEFINE rest == Slice \ Placeholder(m)
<1>1. UNCHANGED <<db, known, wire, fetch, blind>>
  BY DEF Answered, Fails, server, page
<1>2. /\ Slice \subseteq Bubbles /\ rest \subseteq Slice /\ OneNamed(rest)
      /\ \A r \in rest : r.id = "temp" => r.m # m
      /\ \A r \in Slice : r.id = "wa" => r \in rest
  <2>1. Slice \subseteq Bubbles
    BY SliceFacts DEF ChatInv
  <2>2. OneNamed(rest)
    BY NamedAmong DEF ChatInv
  <2>3. QED
    BY <2>1, <2>2 DEF Placeholder
<1>3. CASE Answered(m)
  <2> DEFINE R == Reconciled(m)
             b == Bubble(m, "wa", "sent")
  <2>1. thread' = <<R>> /\ ask' = [ask EXCEPT ![m] = "done"]
    BY <1>3 DEF Answered
  <2>2. R = rest \/ (R = rest \cup {b} /\ Named(Slice, m) = {})
    <3>1. CASE Named(Slice, m) # {}
      BY <3>1 DEF Reconciled
    <3>2. CASE Named(Slice, m) = {}
      <4>1. R = rest \cup {b : r \in Placeholder(m)}
        BY <3>2 DEF Reconciled
      <4>2. {b : r \in Placeholder(m)} = {} \/ {b : r \in Placeholder(m)} = {b}
        OBVIOUS
      <4> HIDE DEF R, b, rest
      <4>3. QED
        BY <3>2, <4>1, <4>2
    <3>3. QED
      BY <3>1, <3>2
  <2>3. b \in Bubbles /\ b.m = m /\ b.id = "wa"
    BY BubbleFacts DEF Messages, DeliveryStatus
  <2> HIDE DEF R, b, rest
  <2>4. R \subseteq Bubbles /\ \A r \in rest : r \in R
    BY <1>2, <2>2, <2>3
  <2>5. OneNamed(R)
    <3>1. CASE R = rest
      BY <3>1, <1>2
    <3>2. CASE R = rest \cup {b} /\ Named(Slice, m) = {}
      <4>1. Named(rest, m) = {}
        BY <3>2, <1>2 DEF Named
      <4>2. QED
        BY <3>2, <4>1, <1>2, <2>3, NamedOnce
    <3>3. QED
      BY <2>2, <3>1, <3>2
  <2>6. ask' \in [Out -> {"idle", "waiting", "done", "failed"}]
        /\ \A n \in Out : n # m => ask'[n] = ask[n]
    BY <2>1 DEF ChatInv, ChatTypeInv
  <2>7. \A r \in R : r \in rest \/ r.id = "wa"
    BY <2>2, <2>3
  <2>8. \A r \in R : /\ r.id = "uuid" => r.m \in blind'
                     /\ r.id = "temp" /\ r.m \in Out => ask'[r.m] \in {"waiting", "failed"}
    BY <1>1, <1>2, <2>6, <2>7 DEF ChatInv, BubblesKept
  <2>9. ChatInv'
    BY <1>1, <2>1, <2>4, <2>5, <2>6, <2>8, ThreadFrame DEF ChatInv, ChatTypeInv
  <2>10. Slice' = R
    BY <2>1, <2>4, SliceSet
  <2>11. QED
    BY <1>2, <2>4, <2>9, <2>10
<1>4. CASE Fails(m)
  <2> DEFINE b == Bubble(m, "temp", "failed")
             R == rest \cup {b : r \in Placeholder(m)}
  <2>1. thread' = <<R>> /\ ask' = [ask EXCEPT ![m] = "failed"]
    BY <1>4 DEF Fails
  <2>2. b \in Bubbles /\ b.m = m /\ b.id = "temp"
    BY BubbleFacts DEF Messages, DeliveryStatus
  <2>3. R \subseteq rest \cup {b} /\ \A r \in rest : r \in R
    OBVIOUS
  <2> HIDE DEF b, R, rest
  <2>4. R \subseteq Bubbles
    BY <1>2, <2>2, <2>3
  <2>5. OneNamed(R)
    BY <1>2, <2>2, <2>3, NamedAmong
  <2>6. ask' \in [Out -> {"idle", "waiting", "done", "failed"}]
        /\ ask'[m] = "failed" /\ \A n \in Out : n # m => ask'[n] = ask[n]
    BY <2>1 DEF ChatInv, ChatTypeInv
  <2>7. \A r \in R : /\ r.id = "uuid" => r.m \in blind'
                     /\ r.id = "temp" /\ r.m \in Out => ask'[r.m] \in {"waiting", "failed"}
    BY <1>1, <1>2, <2>2, <2>3, <2>6 DEF ChatInv, BubblesKept
  <2>8. ChatInv'
    BY <1>1, <2>1, <2>4, <2>5, <2>6, <2>7, ThreadFrame DEF ChatInv, ChatTypeInv
  <2>9. Slice' = R
    BY <2>1, <2>4, SliceSet
  <2>10. QED
    BY <1>2, <2>3, <2>8, <2>9
<1>5. QED
  BY <1>3, <1>4

-----------------------------------------------------------------------------
(* The specification                                                       *)

\* A page that has just opened shows nothing and waits for nothing.
LEMMA InitChat == ChatInit => ChatInv
<1> SUFFICES ASSUME ChatInit PROVE ChatInv
  OBVIOUS
<1>1. <<>> \in Seq(Events) /\ <<>> \in Seq(SUBSET Bubbles)
  OBVIOUS
<1>2. ChatTypeInv
  BY <1>1, BegunFacts DEF ChatInit, ChatTypeInv, Unopened
<1>3. Slice = {} /\ db = {}
  BY DEF ChatInit, Slice
<1>4. OneNamed(db) /\ OneNamed(Slice) /\ BubblesKept
  BY <1>3 DEF OneNamed, BubblesKept
<1>5. FetchKept
  BY BegunFacts DEF ChatInit, FetchKept
<1>6. QED
  BY <1>2, <1>4, <1>5 DEF ChatInv

\* Every step of server, socket and page keeps the invariant.
LEMMA NextChat == ChatInv /\ [ChatNext]_chatVars => ChatInv'
<1> SUFFICES ASSUME ChatInv, [ChatNext]_chatVars PROVE ChatInv'
  OBVIOUS
<1>1. ASSUME NEW m \in Out, OfSend(m)
      PROVE  ChatInv'
  <2>1. m \in Messages
    BY DEF Messages
  <2>2. QED
    BY <1>1, <2>1, RowSteps, NamedSteps, AckStep, BeginsStep, EndsSteps DEF OfSend
<1>2. ASSUME NEW m \in In, Received(m) \/ InboundStored(m)
      PROVE  ChatInv'
  <2>1. m \in Messages
    BY DEF Messages
  <2>2. QED
    BY <1>2, <2>1, ReceivedStep, NamedSteps
<1>3. CASE \/ Connects \/ Disconnects \/ Keyed \/ SubscribeChecks \/ SubscribeRefused \/ Joins
           \/ ThreadOpens
  BY <1>3, SocketSteps
<1>4. CASE FetchReadsDb \/ FetchReadsHistory \/ FetchThrows \/ FetchLands \/ EventArrives
  BY <1>4, FetchReads, ThrowsStep, LandsStep, EventStep
<1>5. CASE UNCHANGED chatVars
  BY <1>5 DEF chatVars, ChatInv, ChatTypeInv, FetchKept, BubblesKept, Slice, OneNamed
<1>6. QED
  BY <1>1, <1>2, <1>3, <1>4, <1>5 DEF ChatNext

\* The invariant of the chat holds throughout.
LEMMA ChatInvariant == ChatSpec => []ChatInv
BY InitChat, NextChat, PTL DEF ChatSpec

\* All bubbles of an answered send are under WhatsApp's id, so they are one.
LEMMA OneFollows == ChatInv => OneBubble
<1> SUFFICES ASSUME ChatInv, NEW m \in Out, ask[m] = "done", m \notin blind
             PROVE  Cardinality({r \in Slice : r.m = m}) <= 1
  BY DEF OneBubble
<1> DEFINE B == {r \in Slice : r.m = m}
<1>1. \A r \in B : r.id = "wa"
  <2>1. \A r \in B : r \in Bubbles /\ r.id \in {"temp", "uuid", "wa"}
    BY SliceFacts DEF ChatInv, Bubbles
  <2>2. \A r \in B : r \in Slice /\ r.m = m
    OBVIOUS
  <2> HIDE DEF B
  <2>3. \A r \in B : r.id # "uuid" /\ r.id # "temp"
    BY <2>2 DEF ChatInv, BubblesKept
  <2>4. QED
    BY <2>1, <2>3
<1>2. \A r, s \in B : r = s
  BY <1>1 DEF ChatInv, OneNamed
<1>3. CASE B = {}
  <2>1. Cardinality({}) = 0
    BY FS_EmptySet
  <2>2. QED
    BY <1>3, <2>1
<1>4. CASE B # {}
  <2>1. PICK b \in B : TRUE
    BY <1>4
  <2>2. B = {b}
    BY <2>1, <1>2
  <2>3. Cardinality({b}) = 1
    BY FS_Singleton
  <2>4. QED
    BY <2>2, <2>3
<1>5. QED
  BY <1>3, <1>4

\* A message whose send was answered has one bubble, for any messages and disconnections, in
\* whatever order its response, its echo and the fetches come.
THEOREM OneBubblePerSend == ChatSpec => []OneBubble
BY ChatInvariant, OneFollows, PTL

\* Bubbles that stay as they are have ticks that do not go back.
LEMMA StayForward ==
  ASSUME ChatTypeInv, \A r \in Slice : r.id = "wa" => r \in Slice'
  PROVE  \A r \in Slice : r.id = "wa" =>
           \E s \in Named(Slice', r.m) : Follows(r.status, s.status)
<1> SUFFICES ASSUME NEW r \in Slice, r.id = "wa"
             PROVE  \E s \in Named(Slice', r.m) : Follows(r.status, s.status)
  OBVIOUS
<1>1. r \in Named(Slice', r.m)
  BY DEF Named
<1>2. QED
  BY <1>1, FollowsItself

\* An event never takes a tick back.
LEMMA EventForward ==
  ASSUME ChatInv, EventArrives
  PROVE  \A r \in Slice : r.id = "wa" =>
           \E s \in Named(Slice', r.m) : Follows(r.status, s.status)
<1> DEFINE event == Head(wire)
<1>1. event \in Events /\ thread' = Merged(event)
  BY HeadTailProperties DEF ChatInv, ChatTypeInv, EventArrives
<1> HIDE DEF event
<1>2. CASE thread = Unopened
  BY <1>2, SliceFacts DEF ChatInv
<1>3. CASE thread # Unopened
  <2>1. PICK R \in SUBSET Bubbles :
          /\ Merged(event) = <<R>>
          /\ \A r \in Slice : r.id = "wa" =>
               \E x \in R : x.m = r.m /\ x.id = "wa" /\ Follows(r.status, x.status)
    BY <1>1, <1>3, MergedFacts DEF ChatInv
  <2>2. Slice' = R
    BY <1>1, <2>1, SliceSet
  <2>3. QED
    BY <2>1, <2>2 DEF Named
<1>4. QED
  BY <1>2, <1>3

\* Ticks only advance and a failure is final, whatever acknowledgements come in whatever order and
\* however often message.sent is replayed, for any number of events: mergeDeliveryStatus() and the
\* reconciliation of sends. Only a fetch that lands may take a tick back.
THEOREM TicksAdvance == ChatSpec => TicksForward
<1> DEFINE Forward == \A r \in Slice : r.id = "wa" =>
                        \E s \in Named(Slice', r.m) : Follows(r.status, s.status)
           Lands == fetch.on /\ ~fetch'.on
<1>1. ASSUME ChatInv, ChatNext
      PROVE  Lands \/ Forward
  <2>1. CASE FetchLands
    BY <1>1, <2>1 DEF ChatInv, FetchKept, FetchLands, FetchAnswered, NoFetch
  <2>2. CASE EventArrives
    BY <1>1, <2>2, EventForward
  <2>3. ASSUME \A r \in Slice : r.id = "wa" => r \in Slice'
        PROVE  Forward
    BY <1>1, <2>3, StayForward DEF ChatInv
  <2>4. ASSUME NEW m \in Out, SendBegins(m)
        PROVE  Forward
    <3>1. \A r \in Slice : r \in Slice'
      BY <2>4 DEF SendBegins, Slice, Unopened
    <3>2. QED
      BY <3>1, <2>3
  <2>5. ASSUME NEW m \in Out, Answered(m) \/ Fails(m)
        PROVE  Forward
    BY <1>1, <2>5, EndsSteps, <2>3
  <2>6. ASSUME thread' = thread
        PROVE  Forward
    <3>1. Slice' = Slice
      BY <2>6 DEF Slice
    <3>2. QED
      BY <3>1, <2>3
  <2>7. ASSUME NEW m \in Out,
               \/ RowStored(m) \/ WhatsAppTakes(m) \/ SendThrows(m) \/ SentSaved(m) \/ Echoes(m)
               \/ \E st \in DeliveryStatus : Acked(m, st)
        PROVE  thread' = thread
    BY <2>7 DEF RowStored, WhatsAppTakes, SendThrows, SentSaved, Echoes, Acked
  <2>8. ASSUME NEW m \in In, Received(m) \/ InboundStored(m)
        PROVE  thread' = thread
    BY <2>8 DEF Received, InboundStored
  <2>9. ASSUME \/ Connects \/ Disconnects \/ Keyed \/ SubscribeChecks \/ SubscribeRefused \/ Joins
               \/ ThreadOpens \/ FetchReadsDb \/ FetchReadsHistory \/ FetchThrows
        PROVE  thread' = thread
    BY <2>9 DEF Connects, Disconnects, Dropped, Keyed, SubscribeChecks, SubscribeRefused, Joins,
            ThreadOpens, FetchReadsDb, FetchReadsHistory, FetchThrows
  <2>10. QED
    BY <1>1, <2>1, <2>2, <2>4, <2>5, <2>6, <2>7, <2>8, <2>9 DEF ChatNext, OfSend
<1>2. QED
  BY <1>1, ChatInvariant, PTL DEF ChatSpec, TicksForward
=============================================================================
