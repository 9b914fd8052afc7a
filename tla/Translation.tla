----------------------------- MODULE Translation -----------------------------
(***************************************************************************)
(* The translation pipeline of TranslateService: the message hooks admit a *)
(* message, one promise chain translates and answers admitted messages in  *)
(* turn, and a circuit breaker passes over models that keep failing.       *)
(* Time is kept as what is left of each deadline; Tick lets it pass.       *)
(***************************************************************************)
EXTENDS Naturals, Sequences, FiniteSets

CONSTANTS Texts, Voices, \* messages of one configured group
          Models,        \* model entries
          Resolvable,    \* entries whose provider has a saved endpoint
          Configs,       \* model lists an admin may save: the primary, then fallbacks, or none
          RateLimit,     \* maxTranslationsPerMinute, 0 for no limit
          Window,        \* the rolling minute, in ticks
          Cooldown,      \* MODEL_COOLDOWN_MS, in ticks
          SendInterval,  \* minSendIntervalMs, in ticks
          MaxEdits       \* bound: configurations saved while running

ASSUME ModelAssumption ==
    /\ Resolvable \subseteq Models
    /\ Configs \subseteq Seq(Models) /\ Configs # {}
ASSUME MessageAssumption == Texts \cap Voices = {}
ASSUME TimeAssumption ==
    /\ Window \in Nat \ {0} /\ Cooldown \in Nat \ {0}
    /\ SendInterval \in Nat /\ RateLimit \in Nat

Messages == Texts \cup Voices
ModelTripAfter == 2
Ended == {"silent", "answered", "failed"}

VARIABLES phase,     \* where each message is
          queue,     \* the promise chain: admitted messages, the first one is running
          config,    \* the saved model list
          listed,    \* the list as the running task has read it
          picked,    \* the places in it of the entries the task goes through
          left,      \* those it has not come to yet
          breaker,   \* modelFails: consecutive failures, and what is left of the cooldown
          pace,      \* what is left until nextSendAt
          hits,      \* rateHits: what is left in the window of each admission
          edits,
          arrived, answered, tried, calls \* history: orders of texts, models the task called, outcomes

vars == <<phase, queue, config, listed, picked, left, breaker, pace, hits, edits,
          arrived, answered, tried, calls>>

Closed == [fails |-> 0, until |-> 0]

Init == /\ phase = [m \in Messages |-> "new"]
        /\ queue = <<>> /\ config \in Configs
        /\ listed = <<>> /\ picked = {} /\ left = {}
        /\ breaker = [e \in Models |-> Closed]
        /\ pace = 0 /\ hits = <<>> /\ edits = 0
        /\ arrived = <<>> /\ answered = <<>> /\ tried = {}
        /\ calls = [e \in Models |-> [failures |-> 0, since |-> 0]]

Goes(m, p) == phase' = [phase EXCEPT ![m] = p]

-----------------------------------------------------------------------------
(* Admission.                                                              *)

\* allowByRate(): a hit is recorded only when the message is let through.
AllowedByRate == RateLimit = 0 \/ Len(hits) < RateLimit

Admit(m) == /\ Goes(m, "queued")
            /\ queue' = Append(queue, m)
            /\ hits' = IF RateLimit = 0 THEN hits ELSE Append(hits, Window)

\* translateInbound(): not a language pair, too long, or over the rate: silence.
TranslateInbound(m) == \/ AllowedByRate /\ Admit(m)
                       \/ Goes(m, "silent") /\ UNCHANGED <<queue, hits>>

\* onMessage(): disabled, another chat, a command, or the bot's own marker: silence too.
TextArrives(m) == /\ m \in Texts /\ phase[m] = "new"
                  /\ arrived' = Append(arrived, m)
                  /\ TranslateInbound(m)
                  /\ UNCHANGED <<config, listed, picked, left, breaker, pace, edits, answered, tried, calls>>

\* A voice note over the size, the hourly cap or the limiter's queue is dropped.
VoiceArrives(m) == /\ m \in Voices /\ phase[m] = "new"
                   /\ Goes(m, "hearing") \/ Goes(m, "silent")
                   /\ UNCHANGED <<queue, config, listed, picked, left, breaker, pace, hits, edits,
                                  arrived, answered, tried, calls>>

\* The transcript joins the text path; a failed or empty one ends the note.
Transcribed(m) == /\ phase[m] = "hearing"
                  /\ TranslateInbound(m)
                  /\ UNCHANGED <<config, listed, picked, left, breaker, pace, edits,
                                 arrived, answered, tried, calls>>

-----------------------------------------------------------------------------
(* The queue and the models.                                               *)

\* Mutant of Running: the chain is not awaited.
RunningAny(m) == \E k \in DOMAIN queue : queue[k] = m

Running(m) == queue # <<>> /\ Head(queue) = m

\* Mutant of Ends: a rejected task breaks the chain.
EndsOrStalls(m, p) ==
    /\ Goes(m, p)
    /\ queue' = IF p = "failed" THEN queue ELSE Tail(queue)

\* run.catch(): the next task starts whatever became of this one.
Ends(m, p) == Goes(m, p) /\ queue' = Tail(queue)

Tripped(e) == breaker[e].until > 0

Live(list) == {k \in DOMAIN list : ~Tripped(list[k])}

\* Mutant of Entries: tripped models are passed over even when no other is left.
EntriesLive(list) == Live(list)

Entries(list) == IF Live(list) = {} THEN DOMAIN list ELSE Live(list)

\* An exact glossary hit answers without a model, or says nothing when it is the text itself.
TaskStarts(m) ==
    /\ Running(m) /\ phase[m] = "queued"
    /\ \/ /\ (Goes(m, "replying") /\ UNCHANGED queue) \/ Ends(m, "silent")
          /\ UNCHANGED <<listed, picked, left, tried>>
       \/ /\ Goes(m, "asking") /\ UNCHANGED queue
          /\ listed' = config /\ picked' = Entries(config)
          /\ left' = picked' /\ tried' = {}
    /\ UNCHANGED <<config, breaker, pace, hits, edits, arrived, answered, calls>>

\* The loop comes to the entry at place k.
Comes(m, k) == /\ Running(m) /\ phase[m] = "asking"
               /\ k \in left /\ \A j \in left : k <= j

\* resolveModel() finds no saved endpoint: the entry is skipped.
ModelSkipped(m, k) == /\ Comes(m, k) /\ listed[k] \notin Resolvable
                      /\ left' = left \ {k}
                      /\ UNCHANGED <<phase, queue, config, listed, picked, breaker, pace, hits,
                                     edits, arrived, answered, tried, calls>>

Called(m, k, e) == Comes(m, k) /\ e = listed[k] /\ e \in Resolvable

\* The loop's variables are the task's own.
LoopLeft == listed' = <<>> /\ picked' = {} /\ left' = {} /\ tried' = {}

Reset(e) == [breaker EXCEPT ![e] = Closed]

ModelAnswers(m, k, e) ==
    /\ Called(m, k, e)
    /\ breaker' = Reset(e)
    /\ calls' = [calls EXCEPT ![e] = [failures |-> 0, since |-> 0]]
    /\ \/ Goes(m, "replying") /\ UNCHANGED queue
       \/ Ends(m, "silent")
    /\ LoopLeft
    /\ UNCHANGED <<config, pace, hits, edits, arrived, answered>>

\* tripModel(): counts past the threshold are not told apart.
ModelFails(m, k, e) ==
    /\ Called(m, k, e)
    /\ left' = left \ {k} /\ tried' = tried \cup {e}
    /\ LET fails == IF breaker[e].fails = ModelTripAfter THEN ModelTripAfter
                                                         ELSE breaker[e].fails + 1 IN
       breaker' = [breaker EXCEPT ![e] =
                      [fails |-> fails,
                       until |-> IF fails >= ModelTripAfter THEN Cooldown ELSE 0]]
    /\ calls' = [calls EXCEPT ![e] =
                    [failures |-> IF @.failures = ModelTripAfter THEN @.failures ELSE @.failures + 1,
                     since |-> 0]]
    /\ UNCHANGED <<phase, queue, config, listed, picked, pace, hits, edits, arrived, answered>>

\* onTranslateFailure(): logged, perhaps told to the group, and the chain goes on.
AllFailed(m) == /\ Running(m) /\ phase[m] = "asking" /\ left = {}
                /\ Ends(m, "failed") /\ LoopLeft
                /\ UNCHANGED <<config, breaker, pace, hits, edits, arrived, answered, calls>>

-----------------------------------------------------------------------------
(* The reply, inside the queue.                                            *)

SendStarts(m) == /\ Running(m) /\ phase[m] = "replying" /\ pace = 0
                 /\ Goes(m, "sending")
                 /\ UNCHANGED <<queue, config, listed, picked, left, breaker, pace, hits, edits,
                                arrived, answered, tried, calls>>

SendReturns(m) ==
    /\ Running(m) /\ phase[m] = "sending"
    /\ \/ /\ Ends(m, "answered") /\ pace' = SendInterval
          /\ answered' = IF m \in Texts THEN Append(answered, m) ELSE answered
       \/ Ends(m, "failed") /\ UNCHANGED <<pace, answered>>
    /\ UNCHANGED <<config, listed, picked, left, breaker, hits, edits, arrived, tried, calls>>

\* sendText() has no deadline: an engine that never answers holds the chain.
SendHangs(m) == /\ Running(m) /\ phase[m] = "sending"
                /\ Goes(m, "hung")
                /\ UNCHANGED <<queue, config, listed, picked, left, breaker, pace, hits, edits,
                               arrived, answered, tried, calls>>

-----------------------------------------------------------------------------
(* The rest of the world.                                                  *)

\* updateConfig(): a running task keeps its list.
ConfigSaved(list) == /\ edits < MaxEdits /\ list # config
                     /\ edits' = edits + 1 /\ config' = list
                     /\ UNCHANGED <<phase, queue, listed, picked, left, breaker, pace, hits,
                                    arrived, answered, tried, calls>>

Less(n) == IF n = 0 THEN 0 ELSE n - 1

Tick == /\ \/ pace > 0
           \/ hits # <<>>
           \/ \E e \in Models : Tripped(e)
        /\ pace' = Less(pace)
        /\ hits' = SelectSeq([k \in DOMAIN hits |-> Less(hits[k])], LAMBDA t : t > 0)
        /\ breaker' = [e \in Models |-> [breaker[e] EXCEPT !.until = Less(@)]]
        /\ calls' = [e \in Models |-> [calls[e] EXCEPT !.since = IF @ = Cooldown \/ calls[e].failures < ModelTripAfter
                                                          THEN @ ELSE @ + 1]]
        /\ UNCHANGED <<phase, queue, config, listed, picked, left, edits, arrived, answered, tried>>

Answering(m) == \/ Transcribed(m) \/ TaskStarts(m)
                \/ AllFailed(m)
                \/ \E k \in left : \/ ModelSkipped(m, k)
                                  \/ \E e \in Models : ModelAnswers(m, k, e) \/ ModelFails(m, k, e)
                \/ SendStarts(m) \/ SendReturns(m)

Next == \/ \E m \in Messages : TextArrives(m) \/ VoiceArrives(m) \/ Answering(m) \/ SendHangs(m)
        \/ \E list \in Configs : ConfigSaved(list)
        \/ Tick

-----------------------------------------------------------------------------
(* Properties.                                                             *)

TypeOK ==
    /\ phase \in [Messages -> {"new", "hearing", "queued", "asking", "replying", "sending", "hung"}
                                \cup Ended]
    /\ queue \in Seq(Messages) /\ config \in Configs
    /\ listed \in Seq(Models) /\ picked \subseteq DOMAIN listed /\ left \subseteq picked
    /\ breaker \in [Models -> [fails : 0 .. ModelTripAfter, until : 0 .. Cooldown]]
    /\ pace \in 0 .. SendInterval
    /\ hits \in Seq(1 .. Window) /\ edits \in Nat
    /\ tried \subseteq Resolvable

\* The text messages of a chat are answered in the order they came, one at a time, however
\* long each model and each send takes.
RepliesInOrder ==
    /\ Cardinality({m \in Messages : phase[m] \in {"asking", "replying", "sending", "hung"}}) <= 1
    /\ LET place(m) == CHOOSE k \in DOMAIN arrived : arrived[k] = m
       IN \A j, k \in DOMAIN answered : j < k => place(answered[j]) < place(answered[k])

\* A model is passed over only while its last two calls failed, the second of them less than a
\* cooldown ago; and a message is given up only after a model was called for it, unless the
\* list is empty or no entry that was picked from it has a saved endpoint.
BreakerSound ==
    [][/\ \A e \in Models : Tripped(e) => calls[e].failures = ModelTripAfter /\ calls[e].since < Cooldown
       /\ \A m \in Messages :
            (phase[m] = "asking" /\ phase'[m] = "failed")
            => \/ tried # {} \/ listed = <<>>
               \/ picked # {} /\ \A k \in picked : listed[k] \notin Resolvable]_vars

\* Every admitted message is answered, dropped as an echo or reported as failed, whatever
\* became of those before it - unless a send never returns.
EndsUnlessHung ==
    \A m \in Messages :
        (phase[m] = "queued") ~> (phase[m] \in Ended \/ \E h \in Messages : phase[h] = "hung")

\* Model calls have deadlines and timers fire; transcription and sends answer or hang.
Fairness == WF_vars(Tick) /\ \A m \in Messages : WF_vars(Answering(m))

Spec == Init /\ [][Next]_vars /\ Fairness
=============================================================================
