-------------------------- MODULE Translation_proofs --------------------------
(***************************************************************************)
(* Theorems about the translation pipeline, for any number of messages and *)
(* models and any lists an admin saves.  The order of replies follows from *)
(* one chain whose head is the only task at work; the breaker's deadlines  *)
(* are tied to the failures that set them.                                 *)
(***************************************************************************)
EXTENDS Translation, FiniteSetTheorems, SequenceTheorems, TLAPS

-----------------------------------------------------------------------------
(* The inductive invariant *)

\* Types of everything but the rate limiter's hits, which no theorem depends on.
TypeInv ==
  /\ phase \in [Messages -> {"new", "hearing", "queued", "asking", "replying", "sending", "hung"}
                              \cup Ended]
  /\ queue \in Seq(Messages) /\ config \in Configs
  /\ listed \in Seq(Models) /\ picked \subseteq DOMAIN listed /\ left \subseteq picked
  /\ breaker \in [Models -> [fails : 0 .. ModelTripAfter, until : 0 .. Cooldown]]
  /\ pace \in 0 .. SendInterval /\ edits \in Nat
  /\ tried \subseteq Resolvable
  /\ arrived \in Seq(Texts) /\ answered \in Seq(Texts)
  /\ calls \in [Models -> [failures : 0 .. ModelTripAfter, since : 0 .. Cooldown]]

Busy == {"asking", "replying", "sending", "hung"}

\* a came before b.
BeforeIn(s, a, b) == \E i, j \in DOMAIN s : i < j /\ s[i] = a /\ s[j] = b
Before(a, b) == BeforeIn(arrived, a, b)

\* The running task is the head of the chain, and the chain holds each admitted message once.
ChainKept ==
  /\ \A m \in Messages : phase[m] \in Busy => queue # <<>> /\ Head(queue) = m
  /\ \A k \in DOMAIN queue : phase[queue[k]] \in Busy \cup {"queued"}
  /\ \A j, k \in DOMAIN queue : queue[j] = queue[k] => j = k
  /\ \A m \in Messages : phase[m] = "hearing" => m \in Voices

\* Each text that has come is in arrived, once.
ArrivalsKept ==
  /\ \A j, k \in DOMAIN arrived : arrived[j] = arrived[k] => j = k
  /\ \A k \in DOMAIN arrived : phase[arrived[k]] # "new"
  /\ \A m \in Texts : phase[m] # "new" => \E k \in DOMAIN arrived : arrived[k] = m

\* The texts answered, then those still in the chain, are in the order they came.
OrderKept ==
  /\ \A k \in DOMAIN answered : phase[answered[k]] = "answered"
  /\ \A j, k \in DOMAIN answered : j < k => Before(answered[j], answered[k])
  /\ \A j \in DOMAIN answered, k \in DOMAIN queue :
       queue[k] \in Texts => Before(answered[j], queue[k])
  /\ \A j, k \in DOMAIN queue :
       j < k /\ queue[j] \in Texts /\ queue[k] \in Texts => Before(queue[j], queue[k])

\* The breaker counts the failures that happened, and what is left of a cooldown is
\* what has not passed since the last of them.
BreakerKept ==
  \A e \in Models :
    /\ breaker[e].fails = calls[e].failures
    /\ breaker[e].until > 0 => /\ calls[e].failures = ModelTripAfter
                               /\ calls[e].since + breaker[e].until = Cooldown

\* As long as no model was called, the entries the loop is past have no endpoint.
LoopKept ==
  \A m \in Messages : phase[m] = "asking" =>
    /\ listed = <<>> \/ picked # {}
    /\ tried = {} => \A k \in picked \ left : listed[k] \notin Resolvable

IInv == TypeInv /\ ChainKept /\ ArrivalsKept /\ OrderKept /\ BreakerKept /\ LoopKept

-----------------------------------------------------------------------------
(* Lemmas on sequences and on the small steps of the model                 *)

\* What is left of a chain when its head goes.
LEMMA TailFacts ==
  ASSUME NEW S, NEW q \in Seq(S), q # <<>>
  PROVE  /\ Tail(q) \in Seq(S) /\ Head(q) = q[1] /\ 1 \in DOMAIN q /\ Head(q) \in S
         /\ \A k \in DOMAIN Tail(q) : k + 1 \in DOMAIN q /\ Tail(q)[k] = q[k + 1]
         /\ \A k \in DOMAIN Tail(q) : k \in Nat /\ k + 1 # 1
         /\ \A j, k \in DOMAIN Tail(q) : j < k => j + 1 < k + 1
BY HeadTailProperties, LenProperties

\* A chain and what is appended to it.
LEMMA AppendFacts ==
  ASSUME NEW S, NEW q \in Seq(S), NEW x \in S
  PROVE  /\ Append(q, x) \in Seq(S) /\ Append(q, x) # <<>>
         /\ Head(Append(q, x)) = IF q = <<>> THEN x ELSE Head(q)
         /\ DOMAIN Append(q, x) = DOMAIN q \cup {Len(q) + 1}
         /\ \A k \in DOMAIN q : Append(q, x)[k] = q[k] /\ k < Len(q) + 1
         /\ Append(q, x)[Len(q) + 1] = x
         /\ \A j, k \in DOMAIN Append(q, x) : j < k => j \in DOMAIN q
BY AppendProperties, LenProperties

\* The indices and elements of a sequence.
LEMMA SeqFacts ==
  ASSUME NEW S, NEW q \in Seq(S)
  PROVE  /\ \A k \in DOMAIN q : q[k] \in S /\ k \in Nat
         /\ q # <<>> => Head(q) \in S /\ Head(q) = q[1] /\ 1 \in DOMAIN q
BY HeadTailProperties, LenProperties

-----------------------------------------------------------------------------
(* Order of replies: what each kind of step does to the chain              *)

\* The order of arrivals is only ever added to.
LEMMA BeforeKept ==
  ASSUME TypeInv, NEW m \in Texts, arrived' = Append(arrived, m),
         NEW a, NEW b, Before(a, b)
  PROVE  BeforeIn(arrived', a, b)
<1>1. \A k \in DOMAIN arrived : k \in DOMAIN arrived' /\ arrived'[k] = arrived[k]
  BY AppendFacts DEF TypeInv
<1>2. QED
  BY <1>1 DEF Before, BeforeIn

\* A text that comes is after each that came before it.
LEMMA TextComes ==
  ASSUME TypeInv, ArrivalsKept, NEW m \in Texts, phase[m] = "new", NEW p, p # "new",
         phase' = [phase EXCEPT ![m] = p], arrived' = Append(arrived, m)
  PROVE  /\ ArrivalsKept'
         /\ \A a \in Texts : phase[a] # "new" => BeforeIn(arrived', a, m)
<1> DEFINE n == Len(arrived) + 1
<1>1. /\ DOMAIN arrived' = DOMAIN arrived \cup {n}
      /\ \A k \in DOMAIN arrived : arrived'[k] = arrived[k] /\ k < n
      /\ arrived'[n] = m
  BY AppendFacts DEF TypeInv
<1>2. \A k \in DOMAIN arrived : arrived[k] \in Texts /\ arrived[k] # m
  BY SeqFacts DEF TypeInv, ArrivalsKept
<1>3. \A x \in Messages : phase'[x] = IF x = m THEN p ELSE phase[x]
  BY DEF TypeInv
<1> HIDE DEF n
<1>4. ArrivalsKept'
  <2>1. \A j, k \in DOMAIN arrived' : arrived'[j] = arrived'[k] => j = k
    BY <1>1, <1>2 DEF ArrivalsKept
  <2>2. \A k \in DOMAIN arrived' : phase'[arrived'[k]] # "new"
    BY <1>1, <1>2, <1>3 DEF ArrivalsKept, Messages
  <2>3. \A x \in Texts : phase'[x] # "new" => \E k \in DOMAIN arrived' : arrived'[k] = x
    <3> SUFFICES ASSUME NEW x \in Texts, phase'[x] # "new"
                 PROVE  \E k \in DOMAIN arrived' : arrived'[k] = x
      OBVIOUS
    <3>1. CASE x = m
      BY <3>1, <1>1
    <3>2. CASE x # m
      BY <3>2, <1>1, <1>3 DEF ArrivalsKept, Messages
    <3>3. QED
      BY <3>1, <3>2
  <2>4. QED
    BY <2>1, <2>2, <2>3 DEF ArrivalsKept
<1>5. ASSUME NEW a \in Texts, phase[a] # "new"
      PROVE  BeforeIn(arrived', a, m)
  <2>1. PICK k \in DOMAIN arrived : arrived[k] = a
    BY <1>5 DEF ArrivalsKept
  <2>2. k \in DOMAIN arrived' /\ n \in DOMAIN arrived' /\ k < n /\ arrived'[k] = a /\ arrived'[n] = m
    BY <2>1, <1>1
  <2>3. QED
    BY <2>2 DEF Before, BeforeIn
<1>6. QED
  BY <1>4, <1>5

\* A message that has come already, or a voice note, leaves the arrivals as they are.
LEMMA NoTextComes ==
  ASSUME TypeInv, ArrivalsKept, NEW m \in Messages, m \in Voices \/ phase[m] # "new",
         NEW p, p # "new",
         phase' = [phase EXCEPT ![m] = p], arrived' = arrived
  PROVE  ArrivalsKept'
<1>1. \A x \in Messages : phase'[x] = IF x = m THEN p ELSE phase[x]
  BY DEF TypeInv
<1>2. \A x \in Texts : phase'[x] # "new" => phase[x] # "new"
  BY <1>1, MessageAssumption DEF Messages
<1>3. \A k \in DOMAIN arrived : arrived[k] \in Messages
  BY SeqFacts DEF TypeInv, Messages
<1>4. QED
  BY <1>1, <1>2, <1>3 DEF ArrivalsKept

\* What the order of replies rests on.
OrderInv == TypeInv /\ ChainKept /\ ArrivalsKept /\ OrderKept

\* A message that is neither in the chain nor answered is in no place of either.
LEMMA Outside ==
  ASSUME OrderInv, NEW m \in Messages, phase[m] \notin Busy \cup {"queued", "answered"}
  PROVE  /\ \A k \in DOMAIN queue : queue[k] \in Messages /\ queue[k] # m
         /\ \A k \in DOMAIN answered : answered[k] \in Messages /\ answered[k] # m
         /\ \A k \in DOMAIN answered : answered[k] \in Texts
<1>1. /\ \A k \in DOMAIN queue : queue[k] \in Messages
      /\ \A k \in DOMAIN answered : answered[k] \in Texts
  BY SeqFacts DEF OrderInv, TypeInv
<1>2. QED
  BY <1>1 DEF OrderInv, ChainKept, OrderKept, Messages

\* Admission: the chain gets the message at its end.
LEMMA AdmitKeeps ==
  ASSUME OrderInv, NEW m \in Messages,
         \/ m \in Texts /\ phase[m] = "new" /\ arrived' = Append(arrived, m)
         \/ phase[m] = "hearing" /\ arrived' = arrived,
         Admit(m), answered' = answered
  PROVE  ChainKept' /\ ArrivalsKept' /\ OrderKept'
<1> DEFINE n == Len(queue) + 1
<1>1. /\ DOMAIN queue' = DOMAIN queue \cup {n}
      /\ \A k \in DOMAIN queue : queue'[k] = queue[k] /\ k < n
      /\ queue'[n] = m /\ queue' # <<>>
      /\ Head(queue') = IF queue = <<>> THEN m ELSE Head(queue)
      /\ \A j, k \in DOMAIN queue' : j < k => j \in DOMAIN queue
  BY AppendFacts DEF OrderInv, TypeInv, Admit
<1>2. /\ \A k \in DOMAIN queue : queue[k] \in Messages /\ queue[k] # m
      /\ \A k \in DOMAIN answered : answered[k] \in Messages /\ answered[k] # m
      /\ \A k \in DOMAIN answered : answered[k] \in Texts
  BY Outside DEF Busy
<1>3. \A x \in Messages : phase'[x] = IF x = m THEN "queued" ELSE phase[x]
  BY DEF OrderInv, TypeInv, Admit, Goes
<1>4. m \in Texts => phase[m] = "new" /\ arrived' = Append(arrived, m)
  BY MessageAssumption DEF OrderInv, ChainKept
<1> HIDE DEF n
<1>5. /\ ArrivalsKept'
      /\ m \in Texts => \A a \in Texts : phase[a] # "new" => BeforeIn(arrived', a, m)
  <2>1. CASE m \in Texts
    BY <2>1, <1>4, TextComes DEF OrderInv, Admit, Goes
  <2>2. CASE m \notin Texts
    BY <2>2, <1>4, NoTextComes DEF OrderInv, Admit, Goes, Messages
  <2>3. QED
    BY <2>1, <2>2
<1>6. \A a, b : Before(a, b) => BeforeIn(arrived', a, b)
  <2>1. CASE m \in Texts
    BY <2>1, <1>4, BeforeKept DEF OrderInv
  <2>2. CASE m \notin Texts
    BY <2>2 DEF Before, BeforeIn
  <2>3. QED
    BY <2>1, <2>2
<1>7. ChainKept'
  <2>1. \A x \in Messages : phase'[x] \in Busy => queue' # <<>> /\ Head(queue') = x
    BY <1>1, <1>3 DEF OrderInv, ChainKept, Busy
  <2>2. \A k \in DOMAIN queue' : phase'[queue'[k]] \in Busy \cup {"queued"}
    BY <1>1, <1>2, <1>3 DEF OrderInv, ChainKept
  <2>3. \A j, k \in DOMAIN queue' : queue'[j] = queue'[k] => j = k
    BY <1>1, <1>2 DEF OrderInv, ChainKept
  <2>4. \A x \in Messages : phase'[x] = "hearing" => x \in Voices
    BY <1>3 DEF OrderInv, ChainKept
  <2>5. QED
    BY <2>1, <2>2, <2>3, <2>4 DEF ChainKept
<1>8. OrderKept'
  <2>1. \A k \in DOMAIN answered : phase'[answered[k]] = "answered"
    BY <1>2, <1>3 DEF OrderInv, OrderKept, Before
  <2>2. \A j, k \in DOMAIN answered : j < k => BeforeIn(arrived', answered[j], answered[k])
    BY <1>6 DEF OrderInv, OrderKept, Before
  <2>3. \A j \in DOMAIN answered, k \in DOMAIN queue' :
          queue'[k] \in Texts => BeforeIn(arrived', answered[j], queue'[k])
    <3> SUFFICES ASSUME NEW j \in DOMAIN answered, NEW k \in DOMAIN queue', queue'[k] \in Texts
                 PROVE  BeforeIn(arrived', answered[j], queue'[k])
      OBVIOUS
    <3>1. CASE k \in DOMAIN queue
      BY <3>1, <1>1, <1>6 DEF OrderInv, OrderKept, Before
    <3>2. CASE k = n
      <4>1. answered[j] \in Texts /\ phase[answered[j]] # "new" /\ m \in Texts
        BY <3>2, <1>1, <1>2 DEF OrderInv, OrderKept, Before
      <4>2. QED
        BY <4>1, <1>5, <1>1, <3>2
    <3>3. QED
      BY <3>1, <3>2, <1>1
  <2>4. \A j, k \in DOMAIN queue' :
          j < k /\ queue'[j] \in Texts /\ queue'[k] \in Texts => BeforeIn(arrived', queue'[j], queue'[k])
    <3> SUFFICES ASSUME NEW j \in DOMAIN queue', NEW k \in DOMAIN queue',
                        j < k, queue'[j] \in Texts, queue'[k] \in Texts
                 PROVE  BeforeIn(arrived', queue'[j], queue'[k])
      OBVIOUS
    <3>1. j \in DOMAIN queue /\ queue'[j] = queue[j]
      BY <1>1
    <3>2. CASE k \in DOMAIN queue
      BY <3>1, <3>2, <1>1, <1>6 DEF OrderInv, OrderKept, Before
    <3>3. CASE k = n
      <4>1. queue[j] \in Texts /\ phase[queue[j]] # "new" /\ m \in Texts
        BY <3>1, <3>3, <1>1 DEF OrderInv, ChainKept, Busy
      <4>2. QED
        BY <4>1, <1>5, <1>1, <3>1, <3>3
    <3>4. QED
      BY <3>2, <3>3, <1>1
  <2>5. QED
    BY <2>1, <2>2, <2>3, <2>4 DEF OrderKept, Before
<1>9. QED
  BY <1>5, <1>7, <1>8

\* A message that is not let in, or a voice note being heard.
LEMMA OutsideKeeps ==
  ASSUME OrderInv, NEW m \in Messages,
         \/ m \in Texts /\ phase[m] = "new" /\ arrived' = Append(arrived, m)
         \/ m \in Voices /\ phase[m] \in {"new", "hearing"} /\ arrived' = arrived,
         NEW p \in {"silent", "hearing"}, p = "hearing" => m \in Voices,
         Goes(m, p), queue' = queue, answered' = answered
  PROVE  ChainKept' /\ ArrivalsKept' /\ OrderKept'
<1>1. /\ \A k \in DOMAIN queue : queue[k] \in Messages /\ queue[k] # m
      /\ \A k \in DOMAIN answered : answered[k] \in Messages /\ answered[k] # m
  BY Outside DEF Busy
<1>2. \A x \in Messages : phase'[x] = IF x = m THEN p ELSE phase[x]
  BY DEF OrderInv, TypeInv, Goes
<1>3. ArrivalsKept'
  BY TextComes, NoTextComes DEF OrderInv, Goes
<1>4. \A a, b : Before(a, b) => BeforeIn(arrived', a, b)
  <2>1. CASE m \in Texts
    BY <2>1, MessageAssumption, BeforeKept DEF OrderInv
  <2>2. CASE m \notin Texts
    BY <2>2 DEF Before, BeforeIn
  <2>3. QED
    BY <2>1, <2>2
<1>5. ChainKept'
  BY <1>1, <1>2 DEF OrderInv, ChainKept, Busy
<1>6. OrderKept'
  BY <1>1, <1>2, <1>4 DEF OrderInv, OrderKept, Before
<1>7. QED
  BY <1>3, <1>5, <1>6

\* The running task goes on.
LEMMA WorksKeeps ==
  ASSUME OrderInv, NEW m \in Messages, Running(m), phase[m] \in Busy \cup {"queued"},
         NEW p \in Busy, Goes(m, p), UNCHANGED <<queue, arrived, answered>>
  PROVE  ChainKept' /\ ArrivalsKept' /\ OrderKept'
<1>1. \A x \in Messages : phase'[x] = IF x = m THEN p ELSE phase[x]
  BY DEF OrderInv, TypeInv, Goes
<1>2. /\ \A k \in DOMAIN queue : queue[k] \in Messages
      /\ \A k \in DOMAIN answered : answered[k] \in Messages
      /\ \A k \in DOMAIN arrived : arrived[k] \in Messages
  BY SeqFacts DEF OrderInv, TypeInv, Messages
<1>3. \A a, b : BeforeIn(arrived', a, b) <=> Before(a, b)
  BY DEF Before, BeforeIn
<1>4. ChainKept'
  <2>1. \A x \in Messages : phase'[x] \in Busy => queue' # <<>> /\ Head(queue') = x
    BY <1>1 DEF OrderInv, ChainKept, Running
  <2>2. \A k \in DOMAIN queue' : phase'[queue'[k]] \in Busy \cup {"queued"}
    BY <1>1, <1>2 DEF OrderInv, ChainKept
  <2>3. \A x \in Messages : phase'[x] = "hearing" => x \in Voices
    BY <1>1 DEF OrderInv, ChainKept, Busy
  <2>4. QED
    BY <2>1, <2>2, <2>3 DEF OrderInv, ChainKept
<1>5. ArrivalsKept'
  <2>1. phase[m] # "new" /\ p # "new"
    BY DEF Busy
  <2>2. QED
    BY <2>1, NoTextComes DEF OrderInv, Goes
<1>6. OrderKept'
  <2>1. \A k \in DOMAIN answered : phase'[answered[k]] = "answered"
    BY <1>1, <1>2 DEF OrderInv, OrderKept, Busy
  <2>2. QED
    BY <2>1, <1>3 DEF OrderInv, OrderKept, Before
<1>7. QED
  BY <1>4, <1>5, <1>6

\* The running task ends: the rest of the chain moves up, and an answered text is
\* after those answered before it and before those that wait.
LEMMA EndsKeeps ==
  ASSUME OrderInv, NEW m \in Messages, Running(m), phase[m] \in Busy \cup {"queued"},
         NEW p \in Ended, Ends(m, p), arrived' = arrived,
         \/ answered' = answered
         \/ m \in Texts /\ p = "answered" /\ answered' = Append(answered, m)
  PROVE  ChainKept' /\ ArrivalsKept' /\ OrderKept'
<1>1. \A x \in Messages : phase'[x] = IF x = m THEN p ELSE phase[x]
  BY DEF OrderInv, TypeInv, Ends, Goes
<1>2. /\ queue[1] = m /\ 1 \in DOMAIN queue /\ queue' = Tail(queue)
      /\ \A k \in DOMAIN queue' : k + 1 \in DOMAIN queue /\ queue'[k] = queue[k + 1] /\ k + 1 # 1
      /\ \A k \in DOMAIN queue' : k \in Nat
      /\ \A j, k \in DOMAIN queue' : j < k => j + 1 < k + 1
  BY TailFacts DEF OrderInv, TypeInv, Running, Ends
<1>3. /\ \A k \in DOMAIN queue : queue[k] \in Messages
      /\ \A k \in DOMAIN answered : answered[k] \in Messages
      /\ \A k \in DOMAIN answered : answered[k] \in Texts /\ k \in Nat
  BY SeqFacts DEF OrderInv, TypeInv, Messages
<1>4. \A k \in DOMAIN queue' : queue'[k] # m
  BY <1>2 DEF OrderInv, ChainKept
<1>5. \A k \in DOMAIN answered : answered[k] # m
  BY DEF OrderInv, OrderKept, Busy
<1>6. \A a, b : BeforeIn(arrived', a, b) <=> Before(a, b)
  BY DEF Before, BeforeIn
<1>7. ChainKept'
  <2>1. \A x \in Messages : phase'[x] \notin Busy
    BY <1>1, <1>2 DEF OrderInv, ChainKept, Running, Busy, Ended
  <2>2. \A k \in DOMAIN queue' : phase'[queue'[k]] \in Busy \cup {"queued"}
    <3> SUFFICES ASSUME NEW k \in DOMAIN queue' PROVE phase'[queue'[k]] \in Busy \cup {"queued"}
      OBVIOUS
    <3>1. k + 1 \in DOMAIN queue /\ queue'[k] = queue[k + 1] /\ queue'[k] # m
          /\ queue'[k] \in Messages
      BY <1>2, <1>3, <1>4
    <3>2. QED
      BY <3>1, <1>1 DEF OrderInv, ChainKept
  <2>3. \A j, k \in DOMAIN queue' : queue'[j] = queue'[k] => j = k
    <3> SUFFICES ASSUME NEW j \in DOMAIN queue', NEW k \in DOMAIN queue', queue'[j] = queue'[k]
                 PROVE  j = k
      OBVIOUS
    <3>1. j + 1 = k + 1
      BY <1>2 DEF OrderInv, ChainKept
    <3>2. QED
      BY <3>1, <1>2
  <2>4. \A x \in Messages : phase'[x] = "hearing" => x \in Voices
    BY <1>1 DEF OrderInv, ChainKept, Ended
  <2>5. QED
    BY <2>1, <2>2, <2>3, <2>4 DEF ChainKept
<1>8. ArrivalsKept'
  <2>1. phase[m] # "new" /\ p # "new"
    BY DEF Busy, Ended
  <2>2. QED
    BY <2>1, NoTextComes DEF OrderInv, Ends, Goes
<1>9. OrderKept'
  <2>1. \A j \in DOMAIN answered : m \in Texts => Before(answered[j], m)
    BY <1>2 DEF OrderInv, OrderKept, Before
  <2>2. \A k \in DOMAIN queue' : m \in Texts /\ queue'[k] \in Texts => Before(m, queue'[k])
    <3> SUFFICES ASSUME NEW k \in DOMAIN queue', m \in Texts, queue'[k] \in Texts
                 PROVE  Before(m, queue'[k])
      OBVIOUS
    <3>1. k + 1 \in DOMAIN queue /\ queue'[k] = queue[k + 1] /\ 1 < k + 1
      BY <1>2, LenProperties DEF OrderInv, TypeInv
    <3>2. QED
      BY <3>1, <1>2 DEF OrderInv, OrderKept, Before
  <2>3. \A j \in DOMAIN answered, k \in DOMAIN queue' :
          queue'[k] \in Texts => Before(answered[j], queue'[k])
    BY <1>2 DEF OrderInv, OrderKept, Before
  <2>4. \A j, k \in DOMAIN queue' :
          j < k /\ queue'[j] \in Texts /\ queue'[k] \in Texts => Before(queue'[j], queue'[k])
    BY <1>2 DEF OrderInv, OrderKept, Before
  <2>5. CASE answered' = answered
    <3>1. \A k \in DOMAIN answered : phase'[answered[k]] = "answered"
      BY <1>1, <1>3, <1>5 DEF OrderInv, OrderKept, Before
    <3>2. QED
      BY <2>5, <3>1, <2>3, <2>4, <1>6 DEF OrderInv, OrderKept, Before
  <2>6. CASE m \in Texts /\ p = "answered" /\ answered' = Append(answered, m)
    <3> DEFINE n == Len(answered) + 1
    <3>1. /\ DOMAIN answered' = DOMAIN answered \cup {n}
          /\ \A k \in DOMAIN answered : answered'[k] = answered[k] /\ k < n
          /\ answered'[n] = m /\ n \in Nat
          /\ \A j, k \in DOMAIN answered' : j < k => j \in DOMAIN answered
      BY <2>6, AppendFacts, LenProperties DEF OrderInv, TypeInv
    <3> HIDE DEF n
    <3>2. \A k \in DOMAIN answered' : phase'[answered'[k]] = "answered"
      BY <2>6, <3>1, <1>1, <1>3, <1>5 DEF OrderInv, OrderKept, Before
    <3>3. \A j, k \in DOMAIN answered' : j < k => Before(answered'[j], answered'[k])
      <4> SUFFICES ASSUME NEW j \in DOMAIN answered', NEW k \in DOMAIN answered', j < k
                   PROVE  Before(answered'[j], answered'[k])
        OBVIOUS
      <4>1. j \in DOMAIN answered /\ answered'[j] = answered[j]
        BY <3>1
      <4>2. CASE k \in DOMAIN answered
        BY <4>1, <4>2, <3>1 DEF OrderInv, OrderKept, Before
      <4>3. CASE k = n
        BY <4>1, <4>3, <3>1, <2>1, <2>6
      <4>4. QED
        BY <4>2, <4>3, <3>1
    <3>4. \A j \in DOMAIN answered', k \in DOMAIN queue' :
            queue'[k] \in Texts => Before(answered'[j], queue'[k])
      <4> SUFFICES ASSUME NEW j \in DOMAIN answered', NEW k \in DOMAIN queue', queue'[k] \in Texts
                   PROVE  Before(answered'[j], queue'[k])
        OBVIOUS
      <4>1. CASE j \in DOMAIN answered
        BY <4>1, <3>1, <2>3
      <4>2. CASE j = n
        BY <4>2, <3>1, <2>2, <2>6
      <4>3. QED
        BY <4>1, <4>2, <3>1
    <3>5. QED
      BY <3>2, <3>3, <3>4, <2>4, <1>6 DEF OrderKept, Before
  <2>7. QED
    BY <2>5, <2>6
<1>10. QED
  BY <1>7, <1>8, <1>9

\* A step of the rest of the world.
LEMMA OrderFrame ==
  ASSUME OrderInv, UNCHANGED <<phase, queue, arrived, answered>>
  PROVE  ChainKept' /\ ArrivalsKept' /\ OrderKept'
<1>1. \A a, b : BeforeIn(arrived', a, b) <=> Before(a, b)
  BY DEF Before, BeforeIn
<1>2. QED
  BY <1>1 DEF OrderInv, ChainKept, ArrivalsKept, OrderKept, Before

-----------------------------------------------------------------------------
(* Types, the breaker and the loop over the models                         *)
\* What every step of a message does to the types of phase and queue.
LEMMA GoesTyped ==
  ASSUME TypeInv, NEW m \in Messages,
         NEW p \in {"hearing", "queued", "asking", "replying", "sending", "hung"} \cup Ended,
         Goes(m, p)
  PROVE  phase' \in [Messages -> {"new", "hearing", "queued", "asking", "replying", "sending",
                                  "hung"} \cup Ended]
BY DEF TypeInv, Goes

\* A chain that loses its head is still one.
LEMMA EndsTyped ==
  ASSUME TypeInv, NEW m \in Messages, Running(m), NEW p \in Ended, Ends(m, p)
  PROVE  /\ phase' \in [Messages -> {"new", "hearing", "queued", "asking", "replying", "sending",
                                     "hung"} \cup Ended]
         /\ queue' \in Seq(Messages)
BY GoesTyped, TailFacts DEF TypeInv, Running, Ends

\* A message that is let in, or not.
LEMMA InboundTyped ==
  ASSUME TypeInv, NEW m \in Messages, TranslateInbound(m)
  PROVE  /\ phase' \in [Messages -> {"new", "hearing", "queued", "asking", "replying", "sending",
                                     "hung"} \cup Ended]
         /\ queue' \in Seq(Messages)
<1>1. CASE Admit(m)
  <2>1. queue' \in Seq(Messages)
    BY <1>1, AppendFacts DEF TypeInv, Admit
  <2>2. QED
    BY <1>1, <2>1, GoesTyped DEF Admit
<1>2. CASE Goes(m, "silent") /\ UNCHANGED <<queue, hits>>
  <2>1. "silent" \in Ended
    BY DEF Ended
  <2>2. QED
    BY <1>2, <2>1, GoesTyped DEF TypeInv
<1>3. QED
  BY <1>1, <1>2 DEF TranslateInbound

\* A list that was saved is a sequence of models, and what is picked from it has a place there;
\* nothing is picked only from an empty list.
LEMMA EntriesFacts ==
  ASSUME TypeInv
  PROVE  /\ config \in Seq(Models) /\ Entries(config) \subseteq DOMAIN config
         /\ config = <<>> \/ Entries(config) # {}
<1>1. config \in Seq(Models)
  BY ModelAssumption DEF TypeInv
<1>2. config = <<>> \/ DOMAIN config # {}
  BY <1>1, SeqFacts
<1>3. Live(config) \subseteq DOMAIN config
  BY DEF Live
<1>4. QED
  BY <1>1, <1>2, <1>3 DEF Entries

\* Reset(): no failure, no cooldown, in the breaker and in the history.
LEMMA ResetKeeps ==
  ASSUME TypeInv, BreakerKept, NEW e \in Models, breaker' = Reset(e),
         calls' = [calls EXCEPT ![e] = [failures |-> 0, since |-> 0]]
  PROVE  /\ breaker' \in [Models -> [fails : 0 .. ModelTripAfter, until : 0 .. Cooldown]]
         /\ calls' \in [Models -> [failures : 0 .. ModelTripAfter, since : 0 .. Cooldown]]
         /\ BreakerKept'
<1>1. /\ Closed \in [fails : 0 .. ModelTripAfter, until : 0 .. Cooldown]
      /\ Closed.fails = 0 /\ Closed.until = 0
      /\ [failures |-> 0, since |-> 0] \in [failures : 0 .. ModelTripAfter, since : 0 .. Cooldown]
  BY TimeAssumption DEF Closed, ModelTripAfter
<1>2. /\ breaker' \in [Models -> [fails : 0 .. ModelTripAfter, until : 0 .. Cooldown]]
      /\ calls' \in [Models -> [failures : 0 .. ModelTripAfter, since : 0 .. Cooldown]]
  BY <1>1 DEF TypeInv, Reset
<1>3. \A x \in Models :
        /\ breaker'[x] = IF x = e THEN Closed ELSE breaker[x]
        /\ calls'[x] = IF x = e THEN [failures |-> 0, since |-> 0] ELSE calls[x]
  BY DEF TypeInv, Reset
<1>4. BreakerKept'
  BY <1>1, <1>3 DEF BreakerKept
<1>5. QED
  BY <1>2, <1>4

\* tripModel(): one more failure, and at the threshold a whole cooldown.
LEMMA FailureKeeps ==
  ASSUME TypeInv, BreakerKept, NEW m \in Messages, NEW k \in left, NEW e \in Models,
         ModelFails(m, k, e)
  PROVE  /\ breaker' \in [Models -> [fails : 0 .. ModelTripAfter, until : 0 .. Cooldown]]
         /\ calls' \in [Models -> [failures : 0 .. ModelTripAfter, since : 0 .. Cooldown]]
         /\ BreakerKept'
<1> DEFINE f == IF breaker[e].fails = ModelTripAfter THEN ModelTripAfter ELSE breaker[e].fails + 1
           b == [fails |-> f, until |-> IF f >= ModelTripAfter THEN Cooldown ELSE 0]
           c == [failures |-> IF calls[e].failures = ModelTripAfter THEN calls[e].failures
                                                                 ELSE calls[e].failures + 1,
                 since |-> 0]
<1>1. /\ breaker[e].fails \in 0 .. ModelTripAfter /\ calls[e].failures = breaker[e].fails
      /\ Cooldown \in Nat /\ Cooldown > 0
  BY TimeAssumption DEF TypeInv, BreakerKept
<1>2. f \in 0 .. ModelTripAfter /\ (f >= ModelTripAfter => f = ModelTripAfter)
  BY <1>1 DEF ModelTripAfter
<1>3. /\ b \in [fails : 0 .. ModelTripAfter, until : 0 .. Cooldown]
      /\ c \in [failures : 0 .. ModelTripAfter, since : 0 .. Cooldown]
  BY <1>1, <1>2 DEF ModelTripAfter
<1>4. /\ b.fails = c.failures
      /\ b.until > 0 => c.failures = ModelTripAfter /\ c.since + b.until = Cooldown
  BY <1>1, <1>2 DEF ModelTripAfter
<1>5. breaker' = [breaker EXCEPT ![e] = b] /\ calls' = [calls EXCEPT ![e] = c]
  BY DEF ModelFails, TypeInv
<1> HIDE DEF f, b, c
<1>6. \A x \in Models : /\ breaker'[x] = IF x = e THEN b ELSE breaker[x]
                        /\ calls'[x] = IF x = e THEN c ELSE calls[x]
  BY <1>5 DEF TypeInv
<1>7. BreakerKept'
  BY <1>4, <1>6 DEF BreakerKept
<1>8. QED
  BY <1>3, <1>5, <1>7 DEF TypeInv

\* Time passes for the cooldown and for the history alike.
LEMMA TickKeeps ==
  ASSUME TypeInv, BreakerKept, Tick
  PROVE  /\ breaker' \in [Models -> [fails : 0 .. ModelTripAfter, until : 0 .. Cooldown]]
         /\ calls' \in [Models -> [failures : 0 .. ModelTripAfter, since : 0 .. Cooldown]]
         /\ pace' \in 0 .. SendInterval
         /\ BreakerKept'
<1>1. /\ Cooldown \in Nat /\ Cooldown > 0 /\ SendInterval \in Nat
  BY TimeAssumption
<1>2. ASSUME NEW e \in Models
      PROVE  /\ breaker'[e] \in [fails : 0 .. ModelTripAfter, until : 0 .. Cooldown]
             /\ calls'[e] \in [failures : 0 .. ModelTripAfter, since : 0 .. Cooldown]
             /\ breaker'[e].fails = calls'[e].failures
             /\ breaker'[e].until > 0 => /\ calls'[e].failures = ModelTripAfter
                                         /\ calls'[e].since + breaker'[e].until = Cooldown
  <2>1. /\ breaker[e] \in [fails : 0 .. ModelTripAfter, until : 0 .. Cooldown]
        /\ calls[e] \in [failures : 0 .. ModelTripAfter, since : 0 .. Cooldown]
    BY DEF TypeInv
  <2>2. /\ breaker'[e].fails = breaker[e].fails /\ breaker'[e].until = Less(breaker[e].until)
        /\ breaker'[e] = [fails |-> breaker[e].fails, until |-> Less(breaker[e].until)]
    BY <2>1 DEF Tick
  <2> DEFINE s == IF calls[e].since = Cooldown \/ calls[e].failures < ModelTripAfter
                  THEN calls[e].since ELSE calls[e].since + 1
  <2>3. /\ calls'[e].failures = calls[e].failures /\ calls'[e].since = s
        /\ calls'[e] = [failures |-> calls[e].failures, since |-> s]
    BY <2>1 DEF Tick
  <2>4. Less(breaker[e].until) \in 0 .. Cooldown
    BY <2>1, <1>1 DEF Less
  <2>5. s \in 0 .. Cooldown
    BY <2>1, <1>1 DEF ModelTripAfter
  <2>6. breaker[e].fails = calls[e].failures
    BY DEF BreakerKept
  <2>7. ASSUME Less(breaker[e].until) > 0
        PROVE  calls[e].failures = ModelTripAfter /\ s + Less(breaker[e].until) = Cooldown
    <3>1. breaker[e].until > 0 /\ Less(breaker[e].until) = breaker[e].until - 1
      BY <2>7, <2>1, <1>1 DEF Less
    <3>2. calls[e].failures = ModelTripAfter /\ calls[e].since + breaker[e].until = Cooldown
      BY <3>1 DEF BreakerKept
    <3>3. s = calls[e].since + 1
      BY <3>1, <3>2, <2>1, <1>1 DEF ModelTripAfter
    <3>4. QED
      BY <3>1, <3>2, <3>3, <2>1, <1>1
  <2> HIDE DEF s
  <2>8. QED
    BY <2>1, <2>2, <2>3, <2>4, <2>5, <2>6, <2>7
<1>3. /\ breaker' \in [Models -> [fails : 0 .. ModelTripAfter, until : 0 .. Cooldown]]
      /\ calls' \in [Models -> [failures : 0 .. ModelTripAfter, since : 0 .. Cooldown]]
  <2>1. breaker' = [e \in Models |-> breaker'[e]] /\ calls' = [e \in Models |-> calls'[e]]
    BY DEF Tick
  <2>2. QED
    BY <2>1, <1>2
<1>4. pace' \in 0 .. SendInterval
  BY <1>1 DEF TypeInv, Tick, Less
<1>5. BreakerKept'
  BY <1>2 DEF BreakerKept
<1>6. QED
  BY <1>3, <1>4, <1>5

-----------------------------------------------------------------------------
(* The invariant, action by action                                         *)

\* A task that goes through models is the only one at work.
LEMMA OneAsks ==
  ASSUME ChainKept, NEW m \in Messages, Running(m), NEW x \in Messages, phase[x] = "asking"
  PROVE  x = m
BY DEF ChainKept, Running, Busy

\* A step that leaves the loop's variables and starts no loop keeps it.
LEMMA LoopFrame ==
  ASSUME LoopKept, UNCHANGED <<listed, picked, left, tried>>,
         \A x \in Messages : phase'[x] = "asking" => phase[x] = "asking"
  PROVE  LoopKept'
BY DEF LoopKept

\* So does one after which no message goes through models.
LEMMA LoopOver ==
  ASSUME ChainKept, NEW m \in Messages, Running(m), TypeInv, NEW p, Goes(m, p), p # "asking"
  PROVE  LoopKept'
<1>1. \A x \in Messages : phase'[x] = IF x = m THEN p ELSE phase[x]
  BY DEF TypeInv, Goes
<1>2. \A x \in Messages : phase'[x] # "asking"
  BY <1>1, OneAsks
<1>3. QED
  BY <1>2 DEF LoopKept

\* Messages that come.
LEMMA ArrivalSteps ==
  ASSUME IInv, NEW m \in Messages, TextArrives(m) \/ VoiceArrives(m) \/ Transcribed(m)
  PROVE  IInv'
<1>0. OrderInv
  BY DEF IInv, OrderInv
<1>1. phase' = [phase EXCEPT ![m] = phase'[m]] /\ phase'[m] # "asking"
  BY DEF IInv, TypeInv, TextArrives, VoiceArrives, Transcribed, TranslateInbound, Admit, Goes
<1>2. \A x \in Messages : phase'[x] = "asking" => phase[x] = "asking"
  BY <1>1 DEF IInv, TypeInv
<1>3. UNCHANGED <<config, listed, picked, left, breaker, pace, edits, answered, tried, calls>>
  BY DEF TextArrives, VoiceArrives, Transcribed
<1>4. LoopKept' /\ BreakerKept'
  BY <1>2, <1>3, LoopFrame DEF IInv, BreakerKept
<1>5. TypeInv'
  <2>1. phase' \in [Messages -> {"new", "hearing", "queued", "asking", "replying", "sending",
                                 "hung"} \cup Ended] /\ queue' \in Seq(Messages)
    <3>1. CASE TextArrives(m) \/ Transcribed(m)
      BY <3>1, InboundTyped DEF IInv, TextArrives, Transcribed
    <3>2. CASE VoiceArrives(m)
      <4>1. "silent" \in Ended
        BY DEF Ended
      <4>2. QED
        BY <3>2, <4>1, GoesTyped DEF IInv, TypeInv, VoiceArrives
    <3>3. QED
      BY <3>1, <3>2
  <2>2. arrived' \in Seq(Texts)
    <3>1. CASE TextArrives(m)
      BY <3>1, AppendFacts DEF IInv, TypeInv, TextArrives
    <3>2. CASE VoiceArrives(m) \/ Transcribed(m)
      BY <3>2 DEF IInv, TypeInv, VoiceArrives, Transcribed
    <3>3. QED
      BY <3>1, <3>2
  <2>3. QED
    BY <2>1, <2>2, <1>3 DEF IInv, TypeInv
<1>6. ChainKept' /\ ArrivalsKept' /\ OrderKept'
  <2>1. CASE TextArrives(m)
    <3>1. CASE Admit(m)
      BY <2>1, <3>1, <1>0, AdmitKeeps DEF TextArrives
    <3>2. CASE Goes(m, "silent") /\ UNCHANGED <<queue, hits>>
      BY <2>1, <3>2, <1>0, OutsideKeeps DEF TextArrives
    <3>3. QED
      BY <2>1, <3>1, <3>2 DEF TextArrives, TranslateInbound
  <2>2. CASE VoiceArrives(m)
    BY <2>2, <1>0, OutsideKeeps DEF VoiceArrives
  <2>3. CASE Transcribed(m)
    <3>1. m \in Voices
      BY <2>3 DEF IInv, ChainKept, Transcribed
    <3>2. CASE Admit(m)
      BY <2>3, <3>2, <1>0, AdmitKeeps DEF Transcribed
    <3>3. CASE Goes(m, "silent") /\ UNCHANGED <<queue, hits>>
      BY <2>3, <3>1, <3>3, <1>0, OutsideKeeps DEF Transcribed
    <3>4. QED
      BY <2>3, <3>2, <3>3 DEF Transcribed, TranslateInbound
  <2>4. QED
    BY <2>1, <2>2, <2>3
<1>7. QED
  BY <1>4, <1>5, <1>6 DEF IInv

\* A task starts: an exact hit, or the loop over the entries that are live.
LEMMA StartStep ==
  ASSUME IInv, NEW m \in Messages, TaskStarts(m)
  PROVE  IInv'
<1>0. OrderInv
  BY DEF IInv, OrderInv
<1>1. /\ Running(m) /\ phase[m] = "queued"
      /\ UNCHANGED <<config, breaker, pace, hits, edits, arrived, answered, calls>>
  BY DEF TaskStarts
<1>2. BreakerKept'
  BY <1>1 DEF IInv, BreakerKept
<1>3. CASE Goes(m, "replying") /\ UNCHANGED <<queue, listed, picked, left, tried>>
  <2>1. TypeInv'
    BY <1>1, <1>3, GoesTyped DEF IInv, TypeInv
  <2>2. LoopKept'
    BY <1>1, <1>3, LoopOver DEF IInv
  <2>3. ChainKept' /\ ArrivalsKept' /\ OrderKept'
    BY <1>0, <1>1, <1>3, WorksKeeps DEF Busy
  <2>4. QED
    BY <1>2, <2>1, <2>2, <2>3 DEF IInv
<1>4. CASE /\ Goes(m, "asking") /\ UNCHANGED queue
           /\ listed' = config /\ picked' = Entries(config)
           /\ left' = picked' /\ tried' = {}
  <2>1. /\ config \in Seq(Models) /\ Entries(config) \subseteq DOMAIN config
        /\ config = <<>> \/ Entries(config) # {}
    BY EntriesFacts DEF IInv
  <2>2. TypeInv'
    BY <1>1, <1>4, <2>1, GoesTyped DEF IInv, TypeInv
  <2>3. LoopKept'
    BY <1>4, <2>1 DEF LoopKept
  <2>4. ChainKept' /\ ArrivalsKept' /\ OrderKept'
    BY <1>0, <1>1, <1>4, WorksKeeps DEF Busy
  <2>5. QED
    BY <1>2, <2>2, <2>3, <2>4 DEF IInv
<1>5. CASE Ends(m, "silent") /\ UNCHANGED <<listed, picked, left, tried>>
  <2>0. "silent" \in Ended
    BY DEF Ended
  <2>1. TypeInv'
    BY <1>1, <1>5, <2>0, EndsTyped DEF IInv, TypeInv
  <2>2. LoopKept'
    BY <1>1, <1>5, LoopOver DEF IInv, Ends
  <2>3. ChainKept' /\ ArrivalsKept' /\ OrderKept'
    BY <1>0, <1>1, <1>5, <2>0, EndsKeeps
  <2>4. QED
    BY <1>2, <2>1, <2>2, <2>3 DEF IInv
<1>6. QED
  BY <1>3, <1>4, <1>5 DEF TaskStarts

\* An entry of the loop that does not end the task: without endpoint, or it failed.
LEMMA LoopSteps ==
  ASSUME IInv, NEW m \in Messages, NEW k \in left,
         \/ ModelSkipped(m, k)
         \/ \E e \in Models : ModelFails(m, k, e)
  PROVE  IInv'
<1>0. OrderInv
  BY DEF IInv, OrderInv
<1>1. /\ UNCHANGED <<phase, queue, config, listed, picked, pace, edits, arrived, answered>>
      /\ left' = left \ {k}
  BY DEF ModelSkipped, ModelFails
<1>2. ChainKept' /\ ArrivalsKept' /\ OrderKept'
  BY <1>0, <1>1, OrderFrame
<1>3. CASE ModelSkipped(m, k)
  <2>1. UNCHANGED <<breaker, tried, calls>> /\ listed[k] \notin Resolvable
    BY <1>3 DEF ModelSkipped
  <2>2. TypeInv' /\ BreakerKept'
    BY <1>1, <2>1 DEF IInv, TypeInv, BreakerKept
  <2>3. LoopKept'
    BY <1>1, <2>1 DEF IInv, LoopKept
  <2>4. QED
    BY <1>2, <2>2, <2>3 DEF IInv
<1>4. ASSUME NEW e \in Models, ModelFails(m, k, e)
      PROVE  IInv'
  <2>1. tried' = tried \cup {e} /\ e \in Resolvable
    BY <1>4 DEF ModelFails, Called
  <2>2. /\ breaker' \in [Models -> [fails : 0 .. ModelTripAfter, until : 0 .. Cooldown]]
        /\ calls' \in [Models -> [failures : 0 .. ModelTripAfter, since : 0 .. Cooldown]]
        /\ BreakerKept'
    BY <1>4, FailureKeeps DEF IInv
  <2>3. TypeInv'
    BY <1>1, <2>1, <2>2 DEF IInv, TypeInv
  <2>4. LoopKept'
    BY <1>1, <2>1 DEF IInv, LoopKept
  <2>5. QED
    BY <1>2, <2>2, <2>3, <2>4 DEF IInv
<1>5. QED
  BY <1>3, <1>4

\* A model answers: the reply goes on, or is dropped as an echo.
LEMMA AnswerStep ==
  ASSUME IInv, NEW m \in Messages, NEW k \in left, NEW e \in Models, ModelAnswers(m, k, e)
  PROVE  IInv'
<1>0. OrderInv
  BY DEF IInv, OrderInv
<1>1. /\ Running(m) /\ phase[m] = "asking"
      /\ listed' = <<>> /\ picked' = {} /\ left' = {} /\ tried' = {}
      /\ UNCHANGED <<config, pace, hits, edits, arrived, answered>>
  BY DEF ModelAnswers, Called, Comes, LoopLeft
<1>2. /\ breaker' \in [Models -> [fails : 0 .. ModelTripAfter, until : 0 .. Cooldown]]
      /\ calls' \in [Models -> [failures : 0 .. ModelTripAfter, since : 0 .. Cooldown]]
      /\ BreakerKept'
  BY ResetKeeps DEF IInv, ModelAnswers
<1>3. listed' \in Seq(Models)
  BY <1>1
<1>4. CASE Goes(m, "replying") /\ UNCHANGED queue
  <2>1. TypeInv'
    BY <1>1, <1>2, <1>3, <1>4, GoesTyped DEF IInv, TypeInv
  <2>2. LoopKept'
    BY <1>1, <1>4, LoopOver DEF IInv
  <2>3. ChainKept' /\ ArrivalsKept' /\ OrderKept'
    BY <1>0, <1>1, <1>4, WorksKeeps DEF Busy
  <2>4. QED
    BY <1>2, <2>1, <2>2, <2>3 DEF IInv
<1>5. CASE Ends(m, "silent")
  <2>0. "silent" \in Ended
    BY DEF Ended
  <2>1. TypeInv'
    BY <1>1, <1>2, <1>3, <1>5, <2>0, EndsTyped DEF IInv, TypeInv
  <2>2. LoopKept'
    BY <1>1, <1>5, LoopOver DEF IInv, Ends
  <2>3. ChainKept' /\ ArrivalsKept' /\ OrderKept'
    BY <1>0, <1>1, <1>5, <2>0, EndsKeeps DEF Busy
  <2>4. QED
    BY <1>2, <2>1, <2>2, <2>3 DEF IInv
<1>6. QED
  BY <1>4, <1>5 DEF ModelAnswers

\* No model is left: the task fails and the chain goes on.
LEMMA FailedStep ==
  ASSUME IInv, NEW m \in Messages, AllFailed(m)
  PROVE  IInv'
<1>0. OrderInv
  BY DEF IInv, OrderInv
<1>1. /\ Running(m) /\ phase[m] = "asking" /\ Ends(m, "failed") /\ "failed" \in Ended
      /\ listed' = <<>> /\ picked' = {} /\ left' = {} /\ tried' = {}
      /\ UNCHANGED <<config, breaker, pace, hits, edits, arrived, answered, calls>>
  BY DEF AllFailed, LoopLeft, Ended
<1>2. TypeInv'
  <2>1. listed' \in Seq(Models)
    BY <1>1
  <2>2. QED
    BY <1>1, <2>1, EndsTyped DEF IInv, TypeInv
<1>3. LoopKept' /\ BreakerKept'
  BY <1>1, LoopOver DEF IInv, Ends, BreakerKept
<1>4. ChainKept' /\ ArrivalsKept' /\ OrderKept'
  BY <1>0, <1>1, EndsKeeps DEF Busy
<1>5. QED
  BY <1>2, <1>3, <1>4 DEF IInv

\* The reply is sent: it starts, hangs, or returns.
LEMMA SendSteps ==
  ASSUME IInv, NEW m \in Messages, SendStarts(m) \/ SendHangs(m) \/ SendReturns(m)
  PROVE  IInv'
<1>0. OrderInv
  BY DEF IInv, OrderInv
<1>1. /\ Running(m) /\ phase[m] \in {"replying", "sending"}
      /\ UNCHANGED <<config, listed, picked, left, breaker, hits, edits, arrived, tried, calls>>
  BY DEF SendStarts, SendHangs, SendReturns
<1>2. BreakerKept'
  BY <1>1 DEF IInv, BreakerKept
<1>3. CASE SendStarts(m) \/ SendHangs(m)
  <2>1. PICK p \in {"sending", "hung"} : Goes(m, p)
    BY <1>3 DEF SendStarts, SendHangs
  <2>2. UNCHANGED <<queue, pace, answered>>
    BY <1>3 DEF SendStarts, SendHangs
  <2>3. TypeInv'
    BY <1>1, <2>1, <2>2, GoesTyped DEF IInv, TypeInv
  <2>4. LoopKept'
    BY <1>1, <2>1, LoopOver DEF IInv
  <2>5. ChainKept' /\ ArrivalsKept' /\ OrderKept'
    BY <1>0, <1>1, <2>1, <2>2, WorksKeeps DEF Busy
  <2>6. QED
    BY <1>2, <2>3, <2>4, <2>5 DEF IInv
<1>4. CASE SendReturns(m)
  <2>1. PICK p \in Ended :
          /\ Ends(m, p)
          /\ \/ answered' = answered
             \/ m \in Texts /\ p = "answered" /\ answered' = Append(answered, m)
    BY <1>4 DEF SendReturns, Ended
  <2>2. pace' \in 0 .. SendInterval
    BY <1>4, TimeAssumption DEF IInv, TypeInv, SendReturns
  <2>3. answered' \in Seq(Texts)
    <3>1. answered \in Seq(Texts) /\ (m \in Texts => Append(answered, m) \in Seq(Texts))
      BY AppendFacts DEF IInv, TypeInv
    <3>2. QED
      BY <2>1, <3>1
  <2>4. TypeInv'
    BY <1>1, <2>1, <2>2, <2>3, EndsTyped DEF IInv, TypeInv
  <2>5. LoopKept'
    BY <1>1, <2>1, LoopOver DEF IInv, Ends, Ended
  <2>6. ChainKept' /\ ArrivalsKept' /\ OrderKept'
    BY <1>0, <1>1, <2>1, EndsKeeps DEF Busy
  <2>7. QED
    BY <1>2, <2>4, <2>5, <2>6 DEF IInv
<1>5. QED
  BY <1>3, <1>4

\* The rest of the world.
LEMMA WorldSteps ==
  ASSUME IInv, (\E list \in Configs : ConfigSaved(list)) \/ Tick \/ UNCHANGED vars
  PROVE  IInv'
<1>0. OrderInv
  BY DEF IInv, OrderInv
<1>1. UNCHANGED <<phase, queue, listed, picked, left, tried, arrived, answered>>
  BY DEF ConfigSaved, Tick, vars
<1>2. LoopKept' /\ ChainKept' /\ ArrivalsKept' /\ OrderKept'
  BY <1>0, <1>1, LoopFrame, OrderFrame DEF IInv
<1>3. TypeInv' /\ BreakerKept'
  <2>1. CASE \E list \in Configs : ConfigSaved(list)
    BY <2>1, <1>1 DEF IInv, TypeInv, BreakerKept, ConfigSaved
  <2>2. CASE Tick
    <3>1. UNCHANGED <<config, edits>>
      BY <2>2 DEF Tick
    <3>2. QED
      BY <2>2, <3>1, <1>1, TickKeeps DEF IInv, TypeInv
  <2>3. CASE UNCHANGED vars
    BY <2>3 DEF IInv, TypeInv, BreakerKept, vars
  <2>4. QED
    BY <2>1, <2>2, <2>3
<1>4. QED
  BY <1>2, <1>3 DEF IInv

\* Nothing has come, and no model has been called.
LEMMA InitIInv == Init => IInv
<1> SUFFICES ASSUME Init PROVE IInv
  OBVIOUS
<1>1. Cooldown \in Nat /\ SendInterval \in Nat /\ 0 \in 0 .. Cooldown /\ 0 \in 0 .. SendInterval
  BY TimeAssumption
<1>2. /\ Closed \in [fails : 0 .. ModelTripAfter, until : 0 .. Cooldown]
      /\ [failures |-> 0, since |-> 0] \in [failures : 0 .. ModelTripAfter, since : 0 .. Cooldown]
      /\ Closed.fails = 0 /\ Closed.until = 0
  BY <1>1 DEF Closed, ModelTripAfter
<1>3. queue \in Seq(Messages) /\ listed \in Seq(Models) /\ arrived \in Seq(Texts)
      /\ answered \in Seq(Texts)
  BY DEF Init
<1>4. DOMAIN queue = {} /\ DOMAIN arrived = {} /\ DOMAIN answered = {}
  BY DEF Init
<1>5. TypeInv
  BY <1>1, <1>2, <1>3 DEF Init, TypeInv
<1>6. \A m \in Messages : phase[m] = "new"
  BY DEF Init
<1>7. ChainKept /\ ArrivalsKept /\ OrderKept /\ LoopKept
  BY <1>4, <1>6 DEF ChainKept, ArrivalsKept, OrderKept, LoopKept, Busy, Messages
<1>8. BreakerKept
  BY <1>2 DEF Init, BreakerKept
<1>9. QED
  BY <1>5, <1>7, <1>8 DEF IInv

\* Every step keeps the invariant.
LEMMA NextIInv == IInv /\ [Next]_vars => IInv'
<1> SUFFICES ASSUME IInv, [Next]_vars PROVE IInv'
  OBVIOUS
<1>1. ASSUME NEW m \in Messages, TextArrives(m) \/ VoiceArrives(m) \/ Transcribed(m)
      PROVE  IInv'
  BY <1>1, ArrivalSteps
<1>2. ASSUME NEW m \in Messages, TaskStarts(m)
      PROVE  IInv'
  BY <1>2, StartStep
<1>3. ASSUME NEW m \in Messages, NEW k \in left,
             \/ ModelSkipped(m, k)
             \/ \E e \in Models : ModelAnswers(m, k, e) \/ ModelFails(m, k, e)
      PROVE  IInv'
  BY <1>3, LoopSteps, AnswerStep
<1>4. ASSUME NEW m \in Messages, AllFailed(m)
      PROVE  IInv'
  BY <1>4, FailedStep
<1>5. ASSUME NEW m \in Messages, SendStarts(m) \/ SendHangs(m) \/ SendReturns(m)
      PROVE  IInv'
  BY <1>5, SendSteps
<1>6. CASE (\E list \in Configs : ConfigSaved(list)) \/ Tick \/ UNCHANGED vars
  BY <1>6, WorldSteps
<1>7. QED
  BY <1>1, <1>2, <1>3, <1>4, <1>5, <1>6 DEF Next, Answering

\* The inductive invariant: types, the chain and its order, the breaker, the loop.
THEOREM Inductive == Spec => []IInv
BY InitIInv, NextIInv, PTL DEF Spec

-----------------------------------------------------------------------------
(* Order of replies                                                        *)

\* One task at work at most, and the place of an answered text is before that of a later one.
LEMMA OrderFollows == IInv => RepliesInOrder
<1> SUFFICES ASSUME IInv PROVE RepliesInOrder
  OBVIOUS
<1> DEFINE W == {m \in Messages : phase[m] \in Busy}
           place(m) == CHOOSE k \in DOMAIN arrived : arrived[k] = m
<1>1. Cardinality(W) <= 1
  <2>1. CASE W = {}
    BY <2>1, FS_EmptySet
  <2>2. CASE W # {}
    <3>1. PICK m \in W : TRUE
      BY <2>2
    <3>2. W = {m}
      BY <3>1 DEF IInv, ChainKept
    <3>3. Cardinality({m}) = 1
      BY FS_Singleton
    <3>4. QED
      BY <3>2, <3>3
  <2>3. QED
    BY <2>1, <2>2
<1>2. ASSUME NEW j \in DOMAIN answered, NEW k \in DOMAIN answered, j < k
      PROVE  place(answered[j]) < place(answered[k])
  <2>1. PICK a, b \in DOMAIN arrived :
          a < b /\ arrived[a] = answered[j] /\ arrived[b] = answered[k]
    BY <1>2 DEF IInv, OrderKept, Before, BeforeIn
  <2>2. place(answered[j]) = a /\ place(answered[k]) = b
    BY <2>1 DEF IInv, ArrivalsKept
  <2>3. QED
    BY <2>1, <2>2
<1>3. W = {m \in Messages : phase[m] \in {"asking", "replying", "sending", "hung"}}
  BY DEF Busy
<1> HIDE DEF W
<1>4. QED
  BY <1>1, <1>2, <1>3 DEF RepliesInOrder

\* Texts of a chat are answered in the order they came, one task at a time, for any number of
\* messages, models and edits: the chain of TranslateService.enqueue().
THEOREM RepliesOrdered == Spec => []RepliesInOrder
BY Inductive, OrderFollows, PTL

-----------------------------------------------------------------------------
(* The circuit breaker                                                     *)

\* A model is passed over for its reason only.
LEMMA TrippedForReason ==
  ASSUME IInv, NEW e \in Models, Tripped(e)
  PROVE  calls[e].failures = ModelTripAfter /\ calls[e].since < Cooldown
<1>1. /\ breaker[e].until \in Nat /\ calls[e].since \in Nat /\ Cooldown \in Nat
  BY TimeAssumption DEF IInv, TypeInv
<1>2. QED
  BY <1>1 DEF IInv, BreakerKept, Tripped

\* Only the end of the loop gives a message up that was going through models, and the loop
\* has then come to every entry that was picked.
LEMMA GivenUpAtTheEnd ==
  ASSUME IInv, Next, NEW m \in Messages, phase[m] = "asking", phase'[m] = "failed"
  PROVE  left = {}
<1>1. ASSUME NEW x \in Messages, NEW p, Goes(x, p), p # "failed" \/ phase[x] # "asking"
      PROVE  FALSE
  BY <1>1 DEF IInv, TypeInv, Goes
<1>2. phase' # phase
  OBVIOUS
<1>3. ~Tick /\ ~(\E list \in Configs : ConfigSaved(list))
  BY <1>2 DEF Tick, ConfigSaved
<1>4. ASSUME NEW x \in Messages, TextArrives(x) \/ VoiceArrives(x) \/ Transcribed(x)
      PROVE  FALSE
  BY <1>1, <1>4 DEF TextArrives, VoiceArrives, Transcribed, TranslateInbound, Admit
<1>5. ASSUME NEW x \in Messages, TaskStarts(x) \/ SendStarts(x) \/ SendHangs(x)
      PROVE  FALSE
  BY <1>1, <1>5 DEF TaskStarts, SendStarts, SendHangs, Ends
<1>6. ASSUME NEW x \in Messages, SendReturns(x)
      PROVE  FALSE
  BY <1>1, <1>6 DEF SendReturns, Ends
<1>7. ASSUME NEW x \in Messages, NEW k \in left, NEW e \in Models,
             ModelSkipped(x, k) \/ ModelAnswers(x, k, e) \/ ModelFails(x, k, e)
      PROVE  FALSE
  BY <1>1, <1>2, <1>7 DEF ModelSkipped, ModelAnswers, ModelFails, Ends
<1>8. ASSUME NEW x \in Messages, NEW k \in left, ModelSkipped(x, k)
      PROVE  FALSE
  BY <1>2, <1>8 DEF ModelSkipped
<1>9. ASSUME NEW x \in Messages, AllFailed(x)
      PROVE  left = {}
  BY <1>9 DEF AllFailed
<1>10. QED
  BY <1>3, <1>4, <1>5, <1>6, <1>7, <1>8, <1>9 DEF Next, Answering

\* A message is given up untried only if nothing it may go through can be called.
LEMMA GivenUpForReason ==
  ASSUME IInv, Next, NEW m \in Messages, phase[m] = "asking", phase'[m] = "failed"
  PROVE  \/ tried # {} \/ listed = <<>>
         \/ picked # {} /\ \A k \in picked : listed[k] \notin Resolvable
<1>1. left = {}
  BY GivenUpAtTheEnd
<1>2. picked \ left = picked
  BY <1>1
<1>3. QED
  BY <1>2 DEF IInv, LoopKept

\* The breaker passes over a model only after two failures in a row, the second less than a
\* cooldown ago, and never makes the pipeline give up a message without calling a model that
\* can be called: isTripped(), tripModel() and the fallback to the whole list.
THEOREM BreakersSound == Spec => BreakerSound
<1>1. IInv /\ Next =>
        /\ \A e \in Models : Tripped(e) => calls[e].failures = ModelTripAfter /\ calls[e].since < Cooldown
        /\ \A m \in Messages :
             (phase[m] = "asking" /\ phase'[m] = "failed")
             => \/ tried # {} \/ listed = <<>>
                \/ picked # {} /\ \A k \in picked : listed[k] \notin Resolvable
  BY TrippedForReason, GivenUpForReason
<1>2. QED
  BY <1>1, Inductive, PTL DEF Spec, BreakerSound

=============================================================================
