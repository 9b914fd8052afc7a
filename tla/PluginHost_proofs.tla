-------------------------- MODULE PluginHost_proofs --------------------------
(***************************************************************************)
(* Theorems about one plugin and its workers, for any number of operators, *)
(* workers, hook calls and crashes.  The operations of a plugin run one at *)
(* a time (Serial), so its state is described by two cases: what holds     *)
(* between operations (IdleKept), and what the running one has done so far *)
(* and may still rely on, whatever its worker does meanwhile (OpKept).     *)
(***************************************************************************)
EXTENDS PluginHost, FiniteSetTheorems, SequenceTheorems, TLAPS

-----------------------------------------------------------------------------
(* The inductive invariant *)

\* The operation whose turn has come and that has not settled.
Running(c) == op[c] # None /\ op[c].pc # "queued"
Idle == \A c \in Calls : ~Running(c)

\* It is the head of the chain, so there is one at most.
Serial == \A c \in Calls : Running(c) => chain # <<>> /\ Head(chain) = c

\* Between operations the loader's map holds the worker of an enabled plugin
\* and nothing else; no worker is on its way out.
IdleKept ==
  /\ ~enabling
  /\ \A h \in Hosts : host[h] # "ending"
  /\ status = "enabled" => loaded /\ sandboxHosts # None /\ host[sandboxHosts] = "live"
  /\ status # "enabled" => sandboxHosts = None
  /\ hooks \subseteq {sandboxHosts}

\* While c runs, the one worker that may be alive is its own.  The map holds it until
\* the catch of a failed enable, the end of a disable, or its own crash.
OpKept(c) ==
  /\ up /\ loaded /\ op[c].h \in Hosts
  /\ \A h \in Hosts : host[h] \in {"live", "ending"} => h = op[c].h
  /\ op[c].pc \in {"enabling", "reaping"} =>
       enabling /\ status # "enabled" /\ op[c].kind \in {"enable", "update"}
  /\ op[c].pc \in {"disabling", "killing"} =>
       ~enabling /\ op[c].kind # "enable" /\ (status = "enabled" <=> sandboxHosts # None)
  /\ op[c].pc \in {"enabling", "disabling"} =>
       \/ host[op[c].h] = "live" /\ sandboxHosts = op[c].h
       \/ host[op[c].h] = "dead" /\ sandboxHosts = None
  /\ op[c].pc \in {"killing", "reaping"} => host[op[c].h] \in {"ending", "dead"}
  /\ op[c].pc = "killing" =>
       \/ sandboxHosts = op[c].h
       \/ host[op[c].h] = "dead" /\ sandboxHosts = None
  /\ op[c].pc = "reaping" => sandboxHosts = None /\ hooks \subseteq {op[c].h}
  /\ op[c].pc # "reaping" => hooks \subseteq {sandboxHosts}

\* What is loaded is what is on disk, and a backup belongs to the update that may
\* still need it.
PackageKept ==
  /\ loaded => up /\ version = disk
  /\ crashes = 0 /\ backup # None =>
       \E c \in Calls : /\ Running(c) /\ op[c].kind = "update" /\ op[c].phase = "forward"
                        /\ op[c].pc \in {"enabling", "reaping"}

HostInv ==
  /\ Serial
  /\ Idle => IdleKept
  /\ \A c \in Calls : Running(c) => OpKept(c)
  /\ OneWorker
  /\ ProviderLive
  /\ PackageKept

IInv == TypeOK /\ HostInv /\ InFlightExact

-----------------------------------------------------------------------------
(* Types *)

LEMMA Bounds ==
  /\ MaxHosts \in Nat /\ MaxCrashes \in Nat
  /\ None \notin Hosts /\ None \notin Versions /\ None \notin OpState /\ None \notin ReqState
BY PluginAssumption

\* An operation that takes its turn, goes on or settles is of one of its records.
LEMMA OpMoves ==
  ASSUME TypeOK, NEW c \in Calls, op[c] # None,
         NEW pc \in {"queued", "disabling", "killing", "enabling", "reaping"},
         NEW h \in Hosts \cup {None}, NEW was \in BOOLEAN, NEW phase \in {"forward", "restore"}
  PROVE  /\ op[c] \in OpState
         /\ [op[c] EXCEPT !.pc = pc] \in OpState
         /\ [op[c] EXCEPT !.pc = pc, !.h = h, !.was = was] \in OpState
         /\ [op[c] EXCEPT !.pc = pc, !.h = h, !.phase = phase, !.was = was] \in OpState
<1>1. op[c] \in OpState  BY DEF TypeOK
<1> QED  BY <1>1 DEF OpState

LEMMA TailIsChain ==
  ASSUME TypeOK, chain # <<>>
  PROVE  Tail(chain) \in Seq(Calls) /\ Head(chain) \in Calls
BY HeadTailProperties DEF TypeOK

LEMMA DoneType ==
  ASSUME TypeOK, NEW c \in Calls, chain # <<>>, Done(c)
  PROVE  op' \in [Calls -> OpState \cup {None}] /\ chain' \in Seq(Calls)
BY TailIsChain DEF TypeOK, Done

LEMMA BeginType ==
  ASSUME TypeOK, NEW c \in Calls, op[c] # None, NEW phase \in {"forward", "restore"},
         NEW was \in BOOLEAN, BeginEnable(c, phase, was)
  PROVE  /\ host' \in [Hosts -> {"none", "live", "ending", "dead"}]
         /\ sandboxHosts' \in Hosts \cup {None} /\ enabling' \in BOOLEAN
         /\ op' \in [Calls -> OpState \cup {None}]
<1>1. PICK h \in Fresh :
        /\ host' = [host EXCEPT ![h] = "live"] /\ sandboxHosts' = h /\ enabling' = TRUE
        /\ op' = [op EXCEPT ![c] = [op[c] EXCEPT !.pc = "enabling", !.h = h, !.phase = phase, !.was = was]]
  BY DEF BeginEnable, TypeOK
<1>2. h \in Hosts  BY DEF Fresh
<1>3. [op[c] EXCEPT !.pc = "enabling", !.h = h, !.phase = phase, !.was = was] \in OpState
  BY <1>2, OpMoves
<1> QED  BY <1>1, <1>2, <1>3 DEF TypeOK

LEMMA EndingType ==
  ASSUME TypeOK, NEW h
  PROVE  Ending(h) \in [Hosts -> {"none", "live", "ending", "dead"}]
BY DEF TypeOK, Ending

LEMMA SwapType ==
  ASSUME TypeOK, NEW c \in Calls, op[c] # None, chain # <<>>, NEW was \in BOOLEAN, Swap(c, was)
  PROVE  /\ host' \in [Hosts -> {"none", "live", "ending", "dead"}]
         /\ sandboxHosts' \in Hosts \cup {None} /\ enabling' \in BOOLEAN
         /\ op' \in [Calls -> OpState \cup {None}] /\ chain' \in Seq(Calls)
         /\ loaded' \in BOOLEAN /\ status' \in {"installed", "enabled", "disabled", "error"}
         /\ version' \in Versions \cup {None} /\ disk' \in Versions \cup {None}
         /\ backup' \in Versions \cup {None}
<1>1. /\ loaded' = TRUE /\ status' = "installed"
      /\ version' \in Versions \cup {None} /\ disk' \in Versions \cup {None}
      /\ backup' \in Versions \cup {None}
  BY DEF Swap, TypeOK, Versions
<1>2. CASE was
  <2>1. chain' = chain /\ (BeginEnable(c, "forward", TRUE) \/ BeginEnable(c, "restore", TRUE))
    BY <1>2 DEF Swap
  <2>2. /\ host' \in [Hosts -> {"none", "live", "ending", "dead"}]
        /\ sandboxHosts' \in Hosts \cup {None} /\ enabling' \in BOOLEAN
        /\ op' \in [Calls -> OpState \cup {None}]
    BY <2>1, BeginType
  <2> QED  BY <1>1, <2>1, <2>2 DEF TypeOK
<1>3. CASE ~was
  <2>1. Done(c) /\ UNCHANGED <<host, sandboxHosts, enabling>>  BY <1>3 DEF Swap
  <2> QED  BY <1>1, <2>1, DoneType DEF TypeOK
<1> QED  BY <1>2, <1>3

\* An operation that runs or has its turn is at the head of the chain.
LEMMA HasChain ==
  ASSUME Serial, NEW c \in Calls
  PROVE  /\ Turn(c) => op[c] # None /\ chain # <<>> /\ Head(chain) = c
         /\ Running(c) => op[c] # None /\ chain # <<>> /\ Head(chain) = c
BY DEF Serial, Turn, Running, At

\* The calls of the hooks are where they were.
LEMMA CallsKept ==
  ASSUME InFlightExact, UNCHANGED calls
  PROVE  InFlightExact'
<1>1. req' = req /\ inFlight' = inFlight  BY DEF calls
<1> QED  BY <1>1 DEF InFlightExact

-----------------------------------------------------------------------------
(* The operations: what they leave behind *)

\* While one operation runs, or has its turn, no other runs.
LEMMA Alone ==
  ASSUME Serial, NEW c \in Calls, Turn(c) \/ Running(c)
  PROVE  /\ \A x \in Calls : x # c => ~Running(x)
         /\ Turn(c) => Idle
<1>1. Head(chain) = c /\ \A x \in Calls : Running(x) => Head(chain) = x
  BY DEF Serial, Turn
<1>2. Turn(c) => ~Running(c)  BY DEF Turn, Running, At
<1> QED  BY <1>1, <1>2 DEF Idle

\* It goes on: it is still the only one.
LEMMA GoesOn ==
  ASSUME TypeOK, Serial, NEW c \in Calls, Turn(c) \/ Running(c),
         NEW o \in OpState, o.pc # "queued", op' = [op EXCEPT ![c] = o], chain' = chain
  PROVE  Serial' /\ Running(c)' /\ ~Idle' /\ op'[c] = o /\ \A x \in Calls : Running(x)' => x = c
<1>1. \A x \in Calls : op'[x] = IF x = c THEN o ELSE op[x]  BY DEF TypeOK
<1>2. o # None  BY Bounds
<1>3. \A x \in Calls : x # c => ~Running(x)  BY Alone
<1>4. Running(c)'  BY <1>1, <1>2 DEF Running
<1>5. \A x \in Calls : Running(x)' => x = c  BY <1>1, <1>3 DEF Running
<1>6. Serial'  BY <1>5, HasChain DEF Serial
<1> QED  BY <1>1, <1>4, <1>5, <1>6 DEF Idle

\* It settles: nothing runs until the next one takes its turn.
LEMMA Settles ==
  ASSUME TypeOK, Serial, NEW c \in Calls, Turn(c) \/ Running(c), Done(c)
  PROVE  Serial' /\ Idle' /\ \A x \in Calls : ~Running(x)'
<1>1. \A x \in Calls : op'[x] = IF x = c THEN None ELSE op[x]  BY DEF TypeOK, Done
<1>2. \A x \in Calls : x # c => ~Running(x)  BY Alone
<1>3. \A x \in Calls : ~Running(x)'  BY <1>1, <1>2 DEF Running
<1> QED  BY <1>3 DEF Serial, Idle

\* The plugin between operations.
LEMMA AfterEnd ==
  ASSUME TypeOK, HostInv, NEW c \in Calls, Turn(c) \/ Running(c), Done(c),
         IdleKept', OneWorker', ProviderLive', PackageKept'
  PROVE  HostInv'
<1>1. Serial' /\ \A x \in Calls : ~Running(x)'  BY Settles DEF HostInv
<1> QED  BY <1>1 DEF HostInv

\* The plugin while an operation goes on.
LEMMA AfterStep ==
  ASSUME TypeOK, HostInv, NEW c \in Calls, Turn(c) \/ Running(c),
         NEW o \in OpState, o.pc # "queued", op' = [op EXCEPT ![c] = o], chain' = chain,
         OpKept(c)', OneWorker', ProviderLive', PackageKept'
  PROVE  HostInv'
<1>1. Serial' /\ ~Idle' /\ \A x \in Calls : Running(x)' => x = c  BY GoesOn DEF HostInv
<1> QED  BY <1>1 DEF HostInv

\* A worker that starts where none is left, with nothing registered.
LEMMA Begins ==
  ASSUME TypeOK, HostInv, NEW c \in Calls, Turn(c) \/ Running(c), op[c].kind \in {"enable", "update"},
         NEW phase \in {"forward", "restore"}, NEW was \in BOOLEAN,
         BeginEnable(c, phase, was), chain' = chain,
         \A g \in Hosts : host[g] \notin {"live", "ending"},
         hooks' = {}, provider' = None, status' # "enabled", up', loaded',
         PackageKept'
  PROVE  HostInv'
<1>1. PICK h \in Fresh :
        /\ host' = [host EXCEPT ![h] = "live"] /\ sandboxHosts' = h /\ enabling' = TRUE
        /\ op' = [op EXCEPT ![c] = [op[c] EXCEPT !.pc = "enabling", !.h = h, !.phase = phase, !.was = was]]
  BY DEF BeginEnable, TypeOK
<1>2. h \in Hosts  BY DEF Fresh
<1>3. op[c] # None /\ op[c] \in OpState  BY HasChain DEF HostInv, TypeOK
<1> DEFINE o == [op[c] EXCEPT !.pc = "enabling", !.h = h, !.phase = phase, !.was = was]
<1>4. o \in OpState  BY <1>2, <1>3, OpMoves
<1>5. o.pc = "enabling" /\ o.h = h /\ o.kind = op[c].kind  BY <1>3 DEF OpState
<1>6. op' = [op EXCEPT ![c] = o]  BY <1>1
<1> HIDE DEF o
<1>7. op'[c] = o  BY <1>6 DEF TypeOK
<1>8. \A g \in Hosts : host'[g] = IF g = h THEN "live" ELSE host[g]  BY <1>1 DEF TypeOK
<1>9. OpKept(c)'
  BY <1>1, <1>2, <1>5, <1>7, <1>8 DEF OpKept
<1>10. OneWorker'  BY <1>1, <1>8 DEF OneWorker
<1>11. ProviderLive'  BY DEF ProviderLive
<1> QED  BY <1>4, <1>5, <1>6, <1>9, <1>10, <1>11, AfterStep

\* Between operations an enabled plugin has the one worker, and any other has none.
LEMMA AtRest ==
  ASSUME TypeOK, HostInv, Idle, status # "enabled"
  PROVE  /\ sandboxHosts = None /\ hooks = {} /\ provider = None
         /\ \A h \in Hosts : host[h] \notin {"live", "ending"}
<1>1. sandboxHosts = None /\ hooks \subseteq {None} /\ \A h \in Hosts : host[h] # "ending"
  BY DEF HostInv, IdleKept
<1>2. hooks = {}  BY <1>1, Bounds DEF TypeOK
<1>3. \A h \in Hosts : host[h] # "live"  BY <1>1, Bounds DEF HostInv, OneWorker
<1>4. provider = None  BY <1>1, <1>3 DEF HostInv, ProviderLive, TypeOK
<1> QED  BY <1>1, <1>2, <1>3, <1>4

\* What is in memory is what is on disk while nothing is installed or swapped.
LEMMA PackageStays ==
  ASSUME HostInv, UNCHANGED <<package, crashes>>, loaded' => loaded /\ up',
         \A x \in Calls : /\ Running(x) /\ op[x].kind = "update" /\ op[x].phase = "forward"
                          /\ op[x].pc \in {"enabling", "reaping"}
                          => /\ Running(x)' /\ op'[x].kind = "update" /\ op'[x].phase = "forward"
                             /\ op'[x].pc \in {"enabling", "reaping"}
  PROVE  PackageKept'
BY DEF HostInv, PackageKept, package

-----------------------------------------------------------------------------
(* The operations, one by one *)

\* Another request waits at the end of the chain.
LEMMA RequestKept ==
  ASSUME IInv, NEW c \in Calls, Request(c)
  PROVE  IInv'
<1> USE DEF IInv
<1>1. PICK k \in Kinds :
        op' = [op EXCEPT ![c] = [kind |-> k, pc |-> "queued", h |-> None, was |-> FALSE, phase |-> "forward"]]
  BY DEF Request
<1> DEFINE o == [kind |-> k, pc |-> "queued", h |-> None, was |-> FALSE, phase |-> "forward"]
<1>2. o \in OpState /\ o.pc = "queued"  BY DEF OpState
<1>3. op[c] = None /\ chain' = Append(chain, c) /\ UNCHANGED <<plugin, workers, calls, up, crashes>>
  BY DEF Request
<1> HIDE DEF o
<1>4. \A x \in Calls : op'[x] = IF x = c THEN o ELSE op[x]  BY <1>1 DEF TypeOK, o
<1>5. TypeOK'
  <2>1. op' \in [Calls -> OpState \cup {None}]  BY <1>1, <1>2 DEF TypeOK, o
  <2>2. chain' \in Seq(Calls)  BY <1>3, AppendProperties DEF TypeOK
  <2> QED  BY <1>3, <2>1, <2>2 DEF TypeOK, plugin, package, workers, calls
<1>6. \A x \in Calls : (Running(x)' <=> Running(x)) /\ (Running(x) => op'[x] = op[x])
  BY <1>2, <1>3, <1>4 DEF Running
<1>7. chain # <<>> => chain' # <<>> /\ Head(chain') = Head(chain)
  BY <1>3, AppendProperties DEF TypeOK
<1>8. Serial'  BY <1>6, <1>7 DEF HostInv, Serial
<1>9. Idle' <=> Idle  BY <1>6 DEF Idle
<1>10. IdleKept' <=> IdleKept  BY <1>3 DEF IdleKept, plugin, workers
<1>11. \A x \in Calls : Running(x) /\ OpKept(x) => OpKept(x)'
  BY <1>3, <1>6 DEF OpKept, plugin, workers
<1>12. PackageKept'
  BY <1>3, <1>6 DEF HostInv, PackageKept, plugin, package
<1>13. OneWorker' /\ ProviderLive'  BY <1>3 DEF HostInv, OneWorker, ProviderLive, workers
<1>14. HostInv'  BY <1>6, <1>8, <1>9, <1>10, <1>11, <1>12, <1>13 DEF HostInv
<1> QED  BY <1>3, <1>5, <1>14, CallsKept

LEMMA EnableKept ==
  ASSUME IInv, NEW c \in Calls, Enable(c)
  PROVE  IInv'
<1> USE DEF IInv
<1>1. Turn(c) /\ Idle /\ chain # <<>> /\ op[c] # None /\ op[c].kind = "enable"
  BY Alone, HasChain DEF Enable, HostInv
<1>2. UNCHANGED <<loaded, status, package, hooks, provider, calls, up, crashes>>  BY DEF Enable
<1>3. PackageKept'
  <2>1. \A x \in Calls : ~Running(x)  BY <1>1 DEF Idle
  <2> QED  BY <1>2, <2>1, PackageStays DEF HostInv, PackageKept
<1>4. CASE loaded /\ status # "enabled" /\ ~enabling
  <2>1. BeginEnable(c, "forward", FALSE) /\ chain' = chain  BY <1>4 DEF Enable
  <2>2. TypeOK'  BY <1>1, <1>2, <2>1, BeginType DEF TypeOK, package, calls
  <2>3. /\ hooks = {} /\ provider = None
        /\ \A h \in Hosts : host[h] \notin {"live", "ending"}
    BY <1>1, <1>4, AtRest
  <2>4. up /\ up' /\ loaded'  BY <1>2, <1>4 DEF HostInv, PackageKept
  <2>5. HostInv'  BY <1>1, <1>2, <1>3, <1>4, <2>1, <2>3, <2>4, Begins
  <2> QED  BY <1>2, <2>2, <2>5, CallsKept
<1>5. CASE ~(loaded /\ status # "enabled" /\ ~enabling)
  <2>1. Done(c) /\ UNCHANGED <<host, sandboxHosts, enabling>>  BY <1>5 DEF Enable
  <2>2. TypeOK'  BY <1>1, <1>2, <2>1, DoneType DEF TypeOK, package, calls
  <2>3. IdleKept'  BY <1>1, <1>2, <2>1 DEF HostInv, IdleKept
  <2>4. OneWorker' /\ ProviderLive'  BY <1>2, <2>1 DEF HostInv, OneWorker, ProviderLive
  <2>5. HostInv'  BY <1>1, <1>3, <2>1, <2>3, <2>4, AfterEnd
  <2> QED  BY <1>2, <2>2, <2>5, CallsKept
<1> QED  BY <1>4, <1>5

\* What an operation relies on while it waits for its worker.
LEMMA OnTheWay ==
  ASSUME IInv, NEW c \in Calls, NEW pc \in {"disabling", "killing", "enabling", "reaping"}, At(c, pc)
  PROVE  /\ Running(c) /\ OpKept(c) /\ op[c] # None /\ op[c] \in OpState /\ op[c].pc = pc
         /\ chain # <<>> /\ up /\ loaded /\ op[c].h \in Hosts
<1>1. Running(c) /\ op[c].pc = pc  BY DEF At, Running
<1>2. OpKept(c)  BY <1>1 DEF IInv, HostInv
<1> QED  BY <1>1, <1>2, HasChain DEF IInv, HostInv, TypeOK, OpKept

LEMMA EnableSucceedsKept ==
  ASSUME IInv, NEW c \in Calls, EnableSucceeds(c)
  PROVE  IInv'
<1> USE DEF IInv
<1>1. /\ At(c, "enabling") /\ host[op[c].h] = "live" /\ status' = "enabled" /\ enabling' = FALSE
      /\ backup' = IF op[c].kind = "update" /\ op[c].phase = "forward" THEN None ELSE backup
      /\ Done(c) /\ UNCHANGED <<loaded, version, disk, workers, calls, up, crashes>>
  BY DEF EnableSucceeds
<1>2. Running(c) /\ OpKept(c) /\ op[c].pc = "enabling" /\ chain # <<>> /\ up /\ loaded /\ op[c].h \in Hosts
  BY <1>1, OnTheWay
<1>3. TypeOK'  BY <1>1, <1>2, DoneType DEF TypeOK, workers, calls
<1>4. /\ sandboxHosts = op[c].h /\ hooks \subseteq {sandboxHosts}
      /\ \A h \in Hosts : host[h] # "ending"
  BY <1>1, <1>2 DEF OpKept
<1>5. IdleKept'  BY <1>1, <1>2, <1>4, Bounds DEF IdleKept, workers
<1>6. OneWorker' /\ ProviderLive'  BY <1>1 DEF HostInv, OneWorker, ProviderLive, workers
<1>7. PackageKept'
  <2>1. \A x \in Calls : Running(x) => x = c  BY <1>2, Alone DEF HostInv
  <2>2. crashes = 0 => backup' = None  BY <1>1, <2>1 DEF HostInv, PackageKept
  <2> QED  BY <1>1, <2>2 DEF HostInv, PackageKept
<1>8. HostInv'  BY <1>1, <1>2, <1>5, <1>6, <1>7, AfterEnd
<1> QED  BY <1>1, <1>3, <1>8, CallsKept

\* terminate() is asked of the operation's worker alone.
LEMMA EndingIs ==
  ASSUME TypeOK, NEW h \in Hosts
  PROVE  \A g \in Hosts : Ending(h)[g] = IF g = h /\ host[h] = "live" THEN "ending" ELSE host[g]
BY DEF TypeOK, Ending

\* An operation that moves to its next await.
LEMMA PcMoves ==
  ASSUME TypeOK, NEW c \in Calls, op[c] \in OpState,
         NEW pc \in {"disabling", "killing", "enabling", "reaping"}, op' = [op EXCEPT ![c].pc = pc]
  PROVE  \E o \in OpState :
           /\ op' = [op EXCEPT ![c] = o] /\ o.pc = pc /\ o.h = op[c].h /\ o.kind = op[c].kind
           /\ o.phase = op[c].phase
<1>1. [op[c] EXCEPT !.pc = pc] \in OpState  BY DEF OpState
<1>2. op' = [op EXCEPT ![c] = [op[c] EXCEPT !.pc = pc]]  OBVIOUS
<1> QED  BY <1>1, <1>2 DEF OpState

LEMMA EnableFailsKept ==
  ASSUME IInv, NEW c \in Calls, EnableFails(c)
  PROVE  IInv'
<1> USE DEF IInv
<1>1. /\ At(c, "enabling") /\ sandboxHosts' = None /\ provider' = None /\ host' = Ending(op[c].h)
      /\ op' = [op EXCEPT ![c].pc = "reaping"]
      /\ UNCHANGED <<plugin, hooks, chain, calls, up, crashes>>
  BY DEF EnableFails
<1>2. /\ Running(c) /\ OpKept(c) /\ op[c] \in OpState /\ op[c].pc = "enabling"
      /\ up /\ loaded /\ op[c].h \in Hosts
  BY <1>1, OnTheWay
<1>3. PICK o \in OpState :
        /\ op' = [op EXCEPT ![c] = o] /\ o.pc = "reaping" /\ o.h = op[c].h /\ o.kind = op[c].kind
        /\ o.phase = op[c].phase
  BY <1>1, <1>2, PcMoves
<1>4. op'[c] = o  BY <1>3 DEF TypeOK
<1>5. \A g \in Hosts : host'[g] = IF g = op[c].h /\ host[op[c].h] = "live" THEN "ending" ELSE host[g]
  BY <1>1, <1>2, EndingIs
<1>6. TypeOK'
  <2>1. host' \in [Hosts -> {"none", "live", "ending", "dead"}]  BY <1>1, EndingType
  <2>2. op' \in [Calls -> OpState \cup {None}]  BY <1>3 DEF TypeOK
  <2> QED  BY <1>1, <2>1, <2>2 DEF TypeOK, plugin, package, calls
<1>7. OpKept(c)'
  <2>1. hooks \subseteq {op[c].h}  BY <1>2, Bounds DEF OpKept, TypeOK
  <2>2. enabling /\ status # "enabled" /\ op[c].kind \in {"enable", "update"}  BY <1>2 DEF OpKept
  <2>3. \A h \in Hosts : host'[h] \in {"live", "ending"} => h = op[c].h
    BY <1>2, <1>5 DEF OpKept
  <2>4. host'[op[c].h] \in {"ending", "dead"}  BY <1>2, <1>5 DEF OpKept
  <2> QED  BY <1>1, <1>2, <1>3, <1>4, <2>1, <2>2, <2>3, <2>4 DEF OpKept, plugin
<1>8. OneWorker'
  <2>1. \A h \in Hosts : host'[h] # "live"  BY <1>2, <1>5 DEF OpKept
  <2> QED  BY <2>1 DEF OneWorker
<1>9. ProviderLive'  BY <1>1 DEF ProviderLive
<1>10. PackageKept'
  <2>1. \A x \in Calls : Running(x) => x = c  BY <1>2, Alone DEF HostInv
  <2>2. Running(c)'  BY <1>3, <1>4, Bounds DEF Running
  <2> QED  BY <1>1, <1>2, <1>3, <1>4, <2>1, <2>2, PackageStays DEF plugin
<1>11. HostInv'
  BY <1>1, <1>2, <1>3, <1>7, <1>8, <1>9, <1>10, AfterStep
<1> QED  BY <1>1, <1>6, <1>11, CallsKept

LEMMA ReapedKept ==
  ASSUME IInv, NEW c \in Calls, Reaped(c)
  PROVE  IInv'
<1> USE DEF IInv
<1>1. /\ At(c, "reaping") /\ host[op[c].h] = "dead" /\ hooks' = {}
      /\ UNCHANGED <<provider, calls, up, crashes>>
  BY DEF Reaped, HooksAfterFailure
<1>2. /\ Running(c) /\ OpKept(c) /\ op[c] # None /\ op[c] \in OpState /\ op[c].pc = "reaping"
      /\ chain # <<>> /\ up /\ loaded /\ op[c].h \in Hosts
  BY <1>1, OnTheWay
<1>3. \A h \in Hosts : host[h] \notin {"live", "ending"}  BY <1>1, <1>2 DEF OpKept
<1>4. provider = None  BY <1>3 DEF HostInv, ProviderLive, TypeOK
<1>5. op[c].kind \in {"enable", "update"} /\ sandboxHosts = None  BY <1>2 DEF OpKept
<1>6. \A x \in Calls : Running(x) => x = c  BY <1>2, Alone DEF HostInv
<1>7. CASE op[c].kind = "update" /\ op[c].phase = "forward"
  <2>1. /\ disk' = backup /\ backup' = None /\ version' = backup
        /\ loaded' = TRUE /\ status' = "installed"
        /\ BeginEnable(c, "restore", TRUE) /\ chain' = chain
    BY <1>7 DEF Reaped, Restored
  <2>2. TypeOK'  BY <1>1, <1>2, <2>1, BeginType DEF TypeOK, calls
  <2>3. PackageKept'  BY <1>1, <1>2, <2>1 DEF PackageKept
  <2>4. HostInv'  BY <1>1, <1>2, <1>3, <1>4, <1>5, <2>1, <2>3, Begins
  <2> QED  BY <1>1, <2>2, <2>4, CallsKept
<1>8. CASE ~(op[c].kind = "update" /\ op[c].phase = "forward")
  <2>1. /\ status' = "error" /\ enabling' = FALSE /\ Done(c)
        /\ UNCHANGED <<loaded, package, host, sandboxHosts>>
    BY <1>8 DEF Reaped
  <2>2. TypeOK'  BY <1>1, <1>2, <2>1, DoneType DEF TypeOK, package, calls
  <2>3. PackageKept'  BY <1>1, <1>6, <1>8, <2>1, PackageStays DEF HostInv, PackageKept
  <2>4. IdleKept'  BY <1>1, <1>3, <1>5, <2>1 DEF IdleKept
  <2>5. OneWorker' /\ ProviderLive'  BY <1>1, <2>1 DEF HostInv, OneWorker, ProviderLive
  <2>6. HostInv'  BY <1>2, <2>1, <2>3, <2>4, <2>5, AfterEnd
  <2> QED  BY <1>1, <2>2, <2>6, CallsKept
<1> QED  BY <1>7, <1>8

\* The directories are swapped, and the plugin that was enabled starts again, in
\* its new version or its old one.
LEMMA SwapKept ==
  ASSUME IInv, NEW c \in Calls, Turn(c) \/ Running(c), op[c].kind = "update",
         NEW was \in BOOLEAN, Swap(c, was), was \/ (sandboxHosts = None /\ ~enabling),
         up, \A h \in Hosts : host[h] \notin {"live", "ending"}, hooks' = {}, provider' = None,
         UNCHANGED <<calls, up, crashes>>
  PROVE  IInv'
<1> USE DEF IInv
<1>1. op[c] # None /\ chain # <<>>  BY HasChain DEF HostInv
<1>2. TypeOK'  BY <1>1, SwapType DEF TypeOK, calls
<1>3. /\ version' = disk' /\ loaded' = TRUE /\ status' = "installed"
  BY DEF Swap
<1>4. CASE was
  <2>1. /\ chain' = chain
        /\ \/ backup' = None /\ BeginEnable(c, "restore", TRUE)
           \/ BeginEnable(c, "forward", TRUE)
    BY <1>4 DEF Swap
  <2>2. PICK phase \in {"forward", "restore"} :
          BeginEnable(c, phase, TRUE) /\ (backup' = None \/ phase = "forward")
    BY <2>1
  <2>3. PICK h \in Fresh :
          op' = [op EXCEPT ![c] = [op[c] EXCEPT !.pc = "enabling", !.h = h, !.phase = phase, !.was = TRUE]]
    BY <2>2 DEF BeginEnable, TypeOK
  <2>4. op[c] \in OpState  BY <1>1 DEF TypeOK
  <2>5. op'[c] = [op[c] EXCEPT !.pc = "enabling", !.h = h, !.phase = phase, !.was = TRUE]
    BY <2>3 DEF TypeOK
  <2>6. op'[c].pc = "enabling" /\ op'[c].phase = phase /\ op'[c].kind = "update"
    BY <2>4, <2>5 DEF OpState
  <2>7. op'[c] # None
    <3>1. h \in Hosts  BY DEF Fresh
    <3>2. [op[c] EXCEPT !.pc = "enabling", !.h = h, !.phase = phase, !.was = TRUE] \in OpState
      BY <1>1, <3>1, OpMoves
    <3> QED  BY <2>5, <3>2, Bounds
  <2>8. PackageKept'  BY <1>3, <2>2, <2>6, <2>7 DEF PackageKept, Running
  <2>9. HostInv'  BY <1>3, <2>1, <2>2, <2>8, Begins
  <2> QED  BY <1>2, <2>9, CallsKept
<1>5. CASE ~was
  <2>1. Done(c) /\ UNCHANGED <<host, sandboxHosts, enabling>> /\ backup' = None
    BY <1>5 DEF Swap
  <2>2. PackageKept'  BY <1>3, <2>1 DEF PackageKept
  <2>3. IdleKept'  BY <1>3, <1>5, <2>1 DEF IdleKept
  <2>4. OneWorker' /\ ProviderLive'  BY <2>1 DEF HostInv, OneWorker, ProviderLive
  <2>5. HostInv'  BY <2>1, <2>2, <2>3, <2>4, AfterEnd
  <2> QED  BY <1>2, <2>5, CallsKept
<1> QED  BY <1>4, <1>5

\* Its turn: onDisable is posted to the worker.
LEMMA DisablePosted ==
  ASSUME IInv, NEW c \in Calls, Turn(c), op[c].kind # "enable",
         loaded, status = "enabled", sandboxHosts # None,
         op' = [op EXCEPT ![c] = [op[c] EXCEPT !.pc = "disabling", !.h = sandboxHosts, !.was = TRUE]],
         UNCHANGED <<plugin, workers, chain, calls, up, crashes>>
  PROVE  IInv'
<1> USE DEF IInv
<1>1. Idle /\ op[c] # None /\ op[c] \in OpState  BY Alone, HasChain DEF HostInv, TypeOK
<1>2. sandboxHosts \in Hosts  BY DEF TypeOK
<1> DEFINE o == [op[c] EXCEPT !.pc = "disabling", !.h = sandboxHosts, !.was = TRUE]
<1>3. o \in OpState  BY <1>1, <1>2, OpMoves
<1>4. o.pc = "disabling" /\ o.h = sandboxHosts /\ o.kind = op[c].kind  BY <1>1 DEF OpState
<1>5. op' = [op EXCEPT ![c] = o]  OBVIOUS
<1> HIDE DEF o
<1>6. op'[c] = o  BY <1>5 DEF TypeOK
<1>7. TypeOK'
  <2>1. op' \in [Calls -> OpState \cup {None}]  BY <1>3, <1>5 DEF TypeOK
  <2> QED  BY <2>1 DEF TypeOK, plugin, package, workers, calls
<1>8. up /\ ~enabling /\ host[sandboxHosts] = "live" /\ hooks \subseteq {sandboxHosts}
  BY <1>1 DEF HostInv, PackageKept, IdleKept
<1>9. \A h \in Hosts : host[h] \in {"live", "ending"} => h = sandboxHosts
  BY <1>1 DEF HostInv, IdleKept, OneWorker
<1>10. OpKept(c)'
  BY <1>2, <1>4, <1>6, <1>8, <1>9 DEF OpKept, plugin, workers
<1>11. OneWorker' /\ ProviderLive'  BY DEF HostInv, OneWorker, ProviderLive, workers
<1>12. PackageKept'
  <2>1. \A x \in Calls : ~Running(x)  BY <1>1 DEF Idle
  <2> QED  BY <2>1, PackageStays, <1>8 DEF plugin
<1>13. HostInv'  BY <1>3, <1>4, <1>5, <1>10, <1>11, <1>12, AfterStep
<1> QED  BY <1>7, <1>13, CallsKept

\* Its turn: there is nothing to disable.
LEMMA DisableNothing ==
  ASSUME IInv, NEW c \in Calls, Turn(c), Done(c), UNCHANGED <<plugin, workers, calls, up, crashes>>
  PROVE  IInv'
<1> USE DEF IInv
<1>1. Idle /\ chain # <<>>  BY Alone, HasChain DEF HostInv
<1>2. TypeOK'  BY <1>1, DoneType DEF TypeOK, plugin, package, workers, calls
<1>3. IdleKept'  BY <1>1 DEF HostInv, IdleKept, plugin, workers
<1>4. OneWorker' /\ ProviderLive'  BY DEF HostInv, OneWorker, ProviderLive, workers
<1>5. PackageKept'
  <2>1. \A x \in Calls : ~Running(x)  BY <1>1 DEF Idle
  <2> QED  BY <2>1 DEF HostInv, PackageKept, plugin, package
<1>6. HostInv'  BY <1>3, <1>4, <1>5, AfterEnd
<1> QED  BY <1>2, <1>6, CallsKept

LEMMA DisableKept ==
  ASSUME IInv, NEW c \in Calls, Disable(c)
  PROVE  IInv'
<1> USE DEF IInv
<1>1. Turn(c) /\ op[c].kind # "enable" /\ UNCHANGED <<calls, up, crashes>>  BY DEF Disable
<1>2. Idle /\ chain # <<>> /\ op[c] # None  BY <1>1, Alone, HasChain DEF HostInv
<1>3. CASE /\ loaded /\ status = "enabled" /\ sandboxHosts # None
           /\ op' = [op EXCEPT ![c] = [@ EXCEPT !.pc = "disabling", !.h = sandboxHosts, !.was = TRUE]]
           /\ UNCHANGED <<plugin, workers, chain>>
  <2>1. op' = [op EXCEPT ![c] = [op[c] EXCEPT !.pc = "disabling", !.h = sandboxHosts, !.was = TRUE]]
    BY <1>3 DEF TypeOK
  <2> QED  BY <1>1, <1>3, <2>1, DisablePosted
<1>4. CASE Done(c) /\ UNCHANGED <<plugin, workers>>
  BY <1>1, <1>4, DisableNothing
<1>5. CASE /\ loaded /\ status # "enabled" /\ Removed /\ Done(c)
           /\ UNCHANGED <<status, version, backup, enabling, workers>>
  <2>1. TypeOK'  BY <1>1, <1>2, <1>5, DoneType DEF TypeOK, workers, calls, Removed
  <2>2. IdleKept'  BY <1>2, <1>5 DEF HostInv, IdleKept, workers
  <2>3. OneWorker' /\ ProviderLive'  BY <1>5 DEF HostInv, OneWorker, ProviderLive, workers
  <2>4. PackageKept'
    <3>1. \A x \in Calls : ~Running(x)  BY <1>2 DEF Idle
    <3> QED  BY <1>1, <1>5, <3>1 DEF HostInv, PackageKept, Removed
  <2>5. HostInv'  BY <1>1, <1>5, <2>2, <2>3, <2>4, AfterEnd
  <2> QED  BY <1>1, <2>1, <2>5, CallsKept
<1>6. CASE /\ loaded /\ status # "enabled" /\ op[c].kind = "update"
           /\ Swap(c, FALSE) /\ UNCHANGED <<hooks, provider>>
  <2>1. /\ sandboxHosts = None /\ hooks = {} /\ provider = None
        /\ \A h \in Hosts : host[h] \notin {"live", "ending"}
    BY <1>2, <1>6, AtRest
  <2>2. up /\ ~enabling  BY <1>2, <1>6 DEF HostInv, PackageKept, IdleKept
  <2> QED  BY <1>1, <1>6, <2>1, <2>2, SwapKept
<1> QED  BY <1>3, <1>4, <1>5, <1>6 DEF Disable

LEMMA OnDisableEndsKept ==
  ASSUME IInv, NEW c \in Calls, OnDisableEnds(c)
  PROVE  IInv'
<1> USE DEF IInv
<1>1. /\ At(c, "disabling") /\ host' = Ending(op[c].h) /\ op' = [op EXCEPT ![c].pc = "killing"]
      /\ UNCHANGED <<plugin, sandboxHosts, hooks, provider, chain, calls, up, crashes>>
  BY DEF OnDisableEnds
<1>2. /\ Running(c) /\ OpKept(c) /\ op[c] \in OpState /\ op[c].pc = "disabling"
      /\ up /\ loaded /\ op[c].h \in Hosts
  BY <1>1, OnTheWay
<1>3. PICK o \in OpState :
        /\ op' = [op EXCEPT ![c] = o] /\ o.pc = "killing" /\ o.h = op[c].h /\ o.kind = op[c].kind
        /\ o.phase = op[c].phase
  BY <1>1, <1>2, PcMoves
<1>4. op'[c] = o  BY <1>3 DEF TypeOK
<1>5. \A g \in Hosts : host'[g] = IF g = op[c].h /\ host[op[c].h] = "live" THEN "ending" ELSE host[g]
  BY <1>1, <1>2, EndingIs
<1>6. TypeOK'
  <2>1. host' \in [Hosts -> {"none", "live", "ending", "dead"}]  BY <1>1, EndingType
  <2>2. op' \in [Calls -> OpState \cup {None}]  BY <1>3 DEF TypeOK
  <2> QED  BY <1>1, <2>1, <2>2 DEF TypeOK, plugin, package, calls
<1>7. OpKept(c)'
  <2>1. /\ ~enabling /\ op[c].kind # "enable" /\ (status = "enabled" <=> sandboxHosts # None)
        /\ hooks \subseteq {sandboxHosts}
    BY <1>2 DEF OpKept
  <2>2. \/ host[op[c].h] = "live" /\ sandboxHosts = op[c].h
        \/ host[op[c].h] = "dead" /\ sandboxHosts = None
    BY <1>2 DEF OpKept
  <2>3. \A h \in Hosts : host'[h] \in {"live", "ending"} => h = op[c].h
    BY <1>2, <1>5 DEF OpKept
  <2>4. host'[op[c].h] \in {"ending", "dead"}  BY <1>2, <1>5, <2>2
  <2>5. \/ sandboxHosts = op[c].h
        \/ host'[op[c].h] = "dead" /\ sandboxHosts = None
    BY <1>2, <1>5, <2>2
  <2> QED  BY <1>1, <1>2, <1>3, <1>4, <2>1, <2>3, <2>4, <2>5 DEF OpKept, plugin
<1>8. OneWorker'
  <2>1. \A h \in Hosts : host'[h] # "live"  BY <1>2, <1>5 DEF OpKept
  <2> QED  BY <2>1 DEF OneWorker
<1>9. ProviderLive'
  <2>1. \A h \in Hosts : host[h] \in {"live", "ending"} => host'[h] \in {"live", "ending"}
    BY <1>5
  <2> QED  BY <1>1, <2>1 DEF HostInv, ProviderLive, TypeOK
<1>10. PackageKept'
  <2>1. \A x \in Calls : Running(x) => x = c  BY <1>2, Alone DEF HostInv
  <2> QED  BY <1>1, <1>2, <2>1, PackageStays DEF plugin
<1>11. HostInv'
  BY <1>1, <1>2, <1>3, <1>7, <1>8, <1>9, <1>10, AfterStep
<1> QED  BY <1>1, <1>6, <1>11, CallsKept

LEMMA KilledKept ==
  ASSUME IInv, NEW c \in Calls, Killed(c)
  PROVE  IInv'
<1> USE DEF IInv
<1>1. /\ At(c, "killing") /\ host[op[c].h] = "dead" /\ hooks' = {} /\ provider' = None
      /\ UNCHANGED <<calls, up, crashes>>
  BY DEF Killed
<1>2. /\ Running(c) /\ OpKept(c) /\ op[c] # None /\ op[c] \in OpState /\ op[c].pc = "killing"
      /\ chain # <<>> /\ up /\ loaded /\ op[c].h \in Hosts
  BY <1>1, OnTheWay
<1>3. \A h \in Hosts : host[h] \notin {"live", "ending"}  BY <1>1, <1>2 DEF OpKept
<1>4. op[c].kind \in {"disable", "uninstall", "update"}  BY <1>2 DEF OpKept, OpState, Kinds
<1>5. ~enabling  BY <1>2 DEF OpKept
<1>6. \A x \in Calls : Running(x) => x = c  BY <1>2, Alone DEF HostInv
<1>7. crashes = 0 => backup = None  BY <1>2, <1>6 DEF HostInv, PackageKept
<1>8. CASE op[c].kind \in {"disable", "uninstall"}
  <2>1. /\ sandboxHosts' = None /\ status' = "disabled" /\ Done(c)
        /\ UNCHANGED <<version, backup, enabling, host>>
        /\ UNCHANGED <<loaded, disk>> \/ Removed
    BY <1>8 DEF Killed, package
  <2>2. loaded' \in BOOLEAN /\ disk' \in Versions \cup {None}  BY <2>1 DEF TypeOK, Removed
  <2>3. TypeOK'  BY <1>1, <1>2, <2>1, <2>2, DoneType DEF TypeOK, calls
  <2>4. IdleKept'  BY <1>1, <1>3, <1>5, <2>1 DEF IdleKept
  <2>5. OneWorker' /\ ProviderLive'  BY <1>1, <1>3, <2>1 DEF OneWorker, ProviderLive
  <2>6. PackageKept'  BY <1>1, <1>7, <2>1 DEF HostInv, PackageKept, Removed
  <2>7. HostInv'  BY <1>2, <2>1, <2>4, <2>5, <2>6, AfterEnd
  <2> QED  BY <1>1, <2>3, <2>7, CallsKept
<1>9. CASE op[c].kind = "update"
  <2>1. Swap(c, TRUE)  BY <1>9 DEF Killed
  <2> QED  BY <1>1, <1>2, <1>3, <1>9, <2>1, SwapKept
<1> QED  BY <1>4, <1>8, <1>9

\* A package for a plugin that is not there.
LEMMA InstallKept ==
  ASSUME IInv, Install
  PROVE  IInv'
<1> USE DEF IInv
<1>1. /\ up /\ ~loaded
      /\ loaded' = TRUE /\ disk' = "new" /\ version' = "new" /\ status' = "installed"
      /\ UNCHANGED <<backup, enabling, workers, op, chain, calls, up, crashes>>
  BY DEF Install
<1>2. TypeOK'  BY <1>1 DEF TypeOK, workers, calls, Versions
<1>3. \A x \in Calls : ~Running(x)  BY <1>1 DEF HostInv, OpKept
<1>4. \A x \in Calls : ~Running(x)'  BY <1>1, <1>3 DEF Running
<1>5. IdleKept  BY <1>3 DEF HostInv, Idle
<1>6. status # "enabled"  BY <1>1, <1>5 DEF IdleKept
<1>7. IdleKept'  BY <1>1, <1>5, <1>6 DEF IdleKept, workers
<1>8. OneWorker' /\ ProviderLive'  BY <1>1 DEF HostInv, OneWorker, ProviderLive, workers
<1>9. PackageKept'  BY <1>1, <1>3 DEF HostInv, PackageKept
<1>10. HostInv'  BY <1>4, <1>7, <1>8, <1>9 DEF HostInv, Serial
<1> QED  BY <1>1, <1>2, <1>10, CallsKept

-----------------------------------------------------------------------------
(* The workers' events *)

\* The operations do not move.
LEMMA OpsKept ==
  ASSUME HostInv, UNCHANGED <<op, chain>>
  PROVE  /\ Serial' /\ (Idle' <=> Idle) /\ \A x \in Calls : Running(x)' <=> Running(x)
BY DEF HostInv, Serial, Idle, Running

\* A worker that may still post is the only one, and it is in the loader's map
\* unless a failed enable is waiting for its end.
LEMMA PosterIs ==
  ASSUME IInv, NEW h \in Hosts, Posts(h)
  PROVE  /\ \A g \in Hosts : host[g] \in {"live", "ending"} => g = h
         /\ Idle => sandboxHosts = h /\ host[h] = "live"
         /\ \A x \in Calls : Running(x) => op[x].h = h /\ (sandboxHosts = h \/ op[x].pc = "reaping")
<1> USE DEF IInv
<1>1. CASE Idle
  <2>1. host[h] = "live" /\ \A g \in Hosts : host[g] # "ending"  BY <1>1 DEF HostInv, IdleKept, Posts
  <2> QED  BY <1>1, <2>1 DEF HostInv, OneWorker, Idle
<1>2. CASE ~Idle
  <2>1. SUFFICES ASSUME NEW x \in Calls, Running(x)
                 PROVE  /\ \A g \in Hosts : host[g] \in {"live", "ending"} => g = h
                        /\ op[x].h = h /\ (sandboxHosts = h \/ op[x].pc = "reaping")
    BY <1>2 DEF Idle
  <2>2. OpKept(x)  BY <2>1 DEF HostInv
  <2>3. op[x].h = h /\ \A g \in Hosts : host[g] \in {"live", "ending"} => g = h
    BY <2>2 DEF OpKept, Posts
  <2>4. op[x].pc \in {"disabling", "killing", "enabling", "reaping"}
    BY <2>1 DEF Running, TypeOK, OpState
  <2>5. sandboxHosts = h \/ op[x].pc = "reaping"  BY <2>2, <2>3, <2>4 DEF OpKept, Posts
  <2> QED  BY <2>3, <2>5
<1> QED  BY <1>1, <1>2

LEMMA HookSubscribeKept ==
  ASSUME IInv, NEW h \in Hosts, HookSubscribe(h)
  PROVE  IInv'
<1> USE DEF IInv
<1>1. /\ Posts(h) /\ hooks' = hooks \cup {h}
      /\ UNCHANGED <<plugin, sandboxHosts, host, provider, op, chain, calls, up, crashes>>
  BY DEF HookSubscribe
<1>2. TypeOK'  BY <1>1 DEF TypeOK, plugin, package, calls
<1>3. Serial' /\ (Idle' <=> Idle) /\ \A x \in Calls : Running(x)' <=> Running(x)
  BY <1>1, OpsKept
<1>4. Idle => IdleKept'  BY <1>1, PosterIs DEF HostInv, IdleKept, plugin
<1>5. ASSUME NEW x \in Calls, Running(x)  PROVE OpKept(x)'
  <2>1. OpKept(x) /\ op[x].h = h /\ (sandboxHosts = h \/ op[x].pc = "reaping")
    BY <1>1, <1>5, PosterIs DEF HostInv
  <2>2. op[x].pc = "reaping" => hooks' \subseteq {op[x].h}  BY <1>1, <2>1 DEF OpKept
  <2>3. op[x].pc # "reaping" => hooks' \subseteq {sandboxHosts}  BY <1>1, <2>1 DEF OpKept
  <2> QED  BY <1>1, <2>1, <2>2, <2>3 DEF OpKept, plugin
<1>6. OneWorker' /\ ProviderLive'  BY <1>1 DEF HostInv, OneWorker, ProviderLive
<1>7. PackageKept'  BY <1>1, <1>3 DEF HostInv, PackageKept, plugin, package
<1>8. HostInv'  BY <1>3, <1>4, <1>5, <1>6, <1>7 DEF HostInv
<1> QED  BY <1>1, <1>2, <1>8, CallsKept

LEMMA ProviderRegisterKept ==
  ASSUME IInv, NEW h \in Hosts, ProviderRegister(h)
  PROVE  IInv'
<1> USE DEF IInv
<1>1. /\ Posts(h) /\ sandboxHosts # None /\ provider' = sandboxHosts
      /\ UNCHANGED <<plugin, sandboxHosts, host, hooks, op, chain, calls, up, crashes>>
  BY DEF ProviderRegister
<1>2. TypeOK'  BY <1>1 DEF TypeOK, plugin, package, calls
<1>3. Serial' /\ (Idle' <=> Idle) /\ \A x \in Calls : Running(x)' <=> Running(x)
  BY <1>1, OpsKept
<1>4. Idle => IdleKept'  BY <1>1 DEF HostInv, IdleKept, plugin
<1>5. \A x \in Calls : Running(x) => OpKept(x)'  BY <1>1 DEF HostInv, OpKept, plugin
<1>6. sandboxHosts = h
  <2>1. Idle => sandboxHosts = h  BY <1>1, PosterIs
  <2>2. ASSUME NEW x \in Calls, Running(x)  PROVE sandboxHosts = h
    BY <1>1, <2>2, PosterIs DEF HostInv, OpKept
  <2> QED  BY <2>1, <2>2 DEF Idle
<1>7. OneWorker' /\ ProviderLive'  BY <1>1, <1>6 DEF HostInv, OneWorker, ProviderLive, Posts
<1>8. PackageKept'  BY <1>1, <1>3 DEF HostInv, PackageKept, plugin, package
<1>9. HostInv'  BY <1>3, <1>4, <1>5, <1>7, <1>8 DEF HostInv
<1> QED  BY <1>1, <1>2, <1>9, CallsKept

-----------------------------------------------------------------------------
(* The calls of the hooks *)

\* The calls a worker is waited for.
Waiting(h) == {r \in Requests : req[r] # None /\ req[r].h = h /\ req[r].waiter}

LEMMA WaitingIsFinite ==
  ASSUME NEW h
  PROVE  /\ IsFiniteSet(Waiting(h)) /\ Cardinality(Waiting(h)) \in Nat
         /\ IsFiniteSet(Waiting(h)') /\ Cardinality(Waiting(h)') \in Nat
<1>1. IsFiniteSet(Requests)  BY PluginAssumption
<1>2. Waiting(h) \in SUBSET Requests /\ Waiting(h)' \in SUBSET Requests  BY DEF Waiting
<1> QED  BY <1>1, <1>2, FS_Subset, FS_CardinalityType

\* One more call waits.
LEMMA WaitsToo ==
  ASSUME TypeOK, InFlightExact, NEW r \in Requests, NEW q \in ReqState, q.waiter,
         req[r] # None => ~req[r].waiter,
         req' = [req EXCEPT ![r] = q], inFlight' = [inFlight EXCEPT ![q.h] = @ + 1]
  PROVE  InFlightExact' /\ inFlight' \in [Hosts -> Nat]
<1>1. \A x \in Requests : req'[x] = IF x = r THEN q ELSE req[x]  BY DEF TypeOK
<1>2. q # None /\ q.h \in Hosts  BY Bounds DEF ReqState
<1>3. \A h \in Hosts : inFlight[h] \in Nat /\ inFlight'[h] = IF h = q.h THEN inFlight[h] + 1 ELSE inFlight[h]
  BY DEF TypeOK
<1>4. ASSUME NEW h \in Hosts  PROVE inFlight'[h] = Cardinality(Waiting(h)')
  <2>1. inFlight[h] = Cardinality(Waiting(h))  BY DEF InFlightExact, Waiting
  <2>2. CASE h = q.h
    <3>1. Waiting(h)' = Waiting(h) \cup {r} /\ r \notin Waiting(h)  BY <1>1, <1>2, <2>2 DEF Waiting
    <3>2. Cardinality(Waiting(h) \cup {r}) = Cardinality(Waiting(h)) + 1
      BY <3>1, WaitingIsFinite, FS_AddElement
    <3> QED  BY <1>3, <2>1, <2>2, <3>1, <3>2
  <2>3. CASE h # q.h
    <3>1. Waiting(h)' = Waiting(h)  BY <1>1, <1>2, <2>3 DEF Waiting
    <3> QED  BY <1>3, <2>1, <2>3, <3>1
  <2> QED  BY <2>2, <2>3
<1>5. InFlightExact'  BY <1>4 DEF InFlightExact, Waiting
<1>6. inFlight' \in [Hosts -> Nat]
  <2>1. \A h \in Hosts : inFlight'[h] \in Nat  BY <1>4, WaitingIsFinite
  <2>2. inFlight' = [h \in Hosts |-> inFlight'[h]]  BY DEF TypeOK
  <2> QED  BY <2>1, <2>2
<1> QED  BY <1>5, <1>6

\* A call is settled: its waiter is gone, and the count has one less.
LEMMA WaitsNoMore ==
  ASSUME TypeOK, InFlightExact, NEW r \in Requests, req[r] # None, req[r].waiter,
         NEW q \in ReqState, q.h = req[r].h, ~q.waiter, req' = [req EXCEPT ![r] = q], Settled(r)
  PROVE  InFlightExact' /\ inFlight' \in [Hosts -> Nat]
<1>1. \A x \in Requests : req'[x] = IF x = r THEN q ELSE req[x]  BY DEF TypeOK
<1>2. q.h \in Hosts  BY DEF ReqState
<1>3. \A h \in Hosts : inFlight[h] \in Nat /\ inFlight'[h] = IF h = q.h THEN inFlight[h] - 1 ELSE inFlight[h]
  BY <1>2 DEF TypeOK, Settled
<1>4. ASSUME NEW h \in Hosts  PROVE inFlight'[h] = Cardinality(Waiting(h)')
  <2>1. inFlight[h] = Cardinality(Waiting(h))  BY DEF InFlightExact, Waiting
  <2>2. CASE h = q.h
    <3>1. Waiting(h)' = Waiting(h) \ {r} /\ r \in Waiting(h)  BY <1>1, <2>2 DEF Waiting
    <3>2. Cardinality(Waiting(h) \ {r}) = Cardinality(Waiting(h)) - 1
      BY <3>1, WaitingIsFinite, FS_RemoveElement
    <3> QED  BY <1>3, <2>1, <2>2, <3>1, <3>2
  <2>3. CASE h # q.h
    <3>1. Waiting(h)' = Waiting(h)  BY <1>1, <2>3 DEF Waiting
    <3> QED  BY <1>3, <2>1, <2>3, <3>1
  <2> QED  BY <2>2, <2>3
<1>5. InFlightExact'  BY <1>4 DEF InFlightExact, Waiting
<1>6. inFlight' \in [Hosts -> Nat]
  <2>1. \A h \in Hosts : inFlight'[h] \in Nat  BY <1>4, WaitingIsFinite
  <2>2. inFlight' = [h \in Hosts |-> inFlight'[h]]  BY DEF TypeOK, Settled
  <2> QED  BY <2>1, <2>2
<1> QED  BY <1>5, <1>6

\* The count is not moved by a call that was settled before.
LEMMA WaitsUnchanged ==
  ASSUME TypeOK, InFlightExact, NEW r \in Requests, req[r] # None => ~req[r].waiter,
         NEW q \in ReqState \cup {None}, q # None => ~q.waiter,
         req' = [req EXCEPT ![r] = q], inFlight' = inFlight
  PROVE  InFlightExact'
<1>1. \A x \in Requests : req'[x] = IF x = r THEN q ELSE req[x]  BY DEF TypeOK
<1>2. \A h \in Hosts : Waiting(h)' = Waiting(h)  BY <1>1 DEF Waiting
<1> QED  BY <1>2 DEF InFlightExact, Waiting

\* The calls do not disturb the plugin.
LEMMA HostKept ==
  ASSUME IInv, UNCHANGED <<plugin, workers, op, chain, up, crashes>>,
         req' \in [Requests -> ReqState \cup {None}], inFlight' \in [Hosts -> Nat]
  PROVE  TypeOK' /\ HostInv'
<1> USE DEF IInv
<1>1. TypeOK'  BY DEF TypeOK, plugin, package, workers
<1>2. Serial' /\ (Idle' <=> Idle) /\ \A x \in Calls : Running(x)' <=> Running(x)
  BY OpsKept
<1>3. Idle => IdleKept'  BY DEF HostInv, IdleKept, plugin, workers
<1>4. \A x \in Calls : Running(x) => OpKept(x)'  BY DEF HostInv, OpKept, plugin, workers
<1>5. OneWorker' /\ ProviderLive'  BY DEF HostInv, OneWorker, ProviderLive, workers
<1>6. PackageKept'  BY <1>2 DEF HostInv, PackageKept, plugin, package
<1> QED  BY <1>1, <1>2, <1>3, <1>4, <1>5, <1>6 DEF HostInv

LEMMA HookFiresKept ==
  ASSUME IInv, NEW r \in Requests, HookFires(r)
  PROVE  IInv'
<1> USE DEF IInv
<1> DEFINE q == [h |-> sandboxHosts, gate |-> TRUE, waiter |-> FALSE, owed |-> FALSE]
<1>1. /\ req[r] = None /\ sandboxHosts \in Hosts /\ req' = [req EXCEPT ![r] = q]
      /\ UNCHANGED <<plugin, workers, op, chain, inFlight, up, crashes>>
  BY DEF HookFires, TypeOK
<1>2. q \in ReqState /\ ~q.waiter  BY <1>1 DEF ReqState
<1> HIDE DEF q
<1>3. InFlightExact'  BY <1>1, <1>2, WaitsUnchanged
<1>4. req' \in [Requests -> ReqState \cup {None}] /\ inFlight' \in [Hosts -> Nat]
  BY <1>1, <1>2 DEF TypeOK
<1> QED  BY <1>1, <1>3, <1>4, HostKept

LEMMA DispatchHookKept ==
  ASSUME IInv, NEW r \in Requests, DispatchHook(r)
  PROVE  IInv'
<1> USE DEF IInv
<1> DEFINE q == [h |-> req[r].h, gate |-> FALSE, waiter |-> TRUE, owed |-> TRUE]
<1>1. /\ req[r] # None /\ req[r].gate
      /\ \/ req' = [req EXCEPT ![r] = None] /\ inFlight' = inFlight
         \/ /\ req' = [req EXCEPT ![r] = q]
            /\ inFlight' = [inFlight EXCEPT ![req[r].h] = @ + 1]
      /\ UNCHANGED <<plugin, workers, op, chain, up, crashes>>
  BY DEF DispatchHook
<1>2. req[r] \in ReqState /\ ~req[r].waiter  BY <1>1 DEF TypeOK, ReqState
<1>3. q \in ReqState /\ q.waiter /\ q.h = req[r].h  BY <1>2 DEF ReqState
<1> HIDE DEF q
<1>4. CASE req' = [req EXCEPT ![r] = None] /\ inFlight' = inFlight
  <2>1. InFlightExact'  BY <1>2, <1>4, WaitsUnchanged
  <2>2. req' \in [Requests -> ReqState \cup {None}] /\ inFlight' \in [Hosts -> Nat]
    BY <1>4 DEF TypeOK
  <2> QED  BY <1>1, <2>1, <2>2, HostKept
<1>5. CASE req' = [req EXCEPT ![r] = q] /\ inFlight' = [inFlight EXCEPT ![req[r].h] = @ + 1]
  <2>1. inFlight' = [inFlight EXCEPT ![q.h] = @ + 1]  BY <1>3, <1>5
  <2>2. InFlightExact' /\ inFlight' \in [Hosts -> Nat]  BY <1>2, <1>3, <1>5, <2>1, WaitsToo
  <2>3. req' \in [Requests -> ReqState \cup {None}]  BY <1>3, <1>5 DEF TypeOK
  <2> QED  BY <1>1, <2>2, <2>3, HostKept
<1> QED  BY <1>1, <1>4, <1>5

LEMMA HookTimeoutKept ==
  ASSUME IInv, NEW r \in Requests, HookTimeout(r)
  PROVE  IInv'
<1> USE DEF IInv
<1>1. /\ req[r] # None /\ req[r].waiter /\ req' = [req EXCEPT ![r].waiter = FALSE] /\ Settled(r)
      /\ UNCHANGED <<plugin, workers, op, chain, up, crashes>>
  BY DEF HookTimeout, TimedOut
<1>2. req[r] \in ReqState  BY <1>1 DEF TypeOK
<1> DEFINE q == [req[r] EXCEPT !.waiter = FALSE]
<1>3. q \in ReqState /\ q.h = req[r].h /\ ~q.waiter  BY <1>2 DEF ReqState
<1>4. req' = [req EXCEPT ![r] = q]  BY <1>1
<1> HIDE DEF q
<1>5. InFlightExact' /\ inFlight' \in [Hosts -> Nat]  BY <1>1, <1>3, <1>4, WaitsNoMore
<1>6. req' \in [Requests -> ReqState \cup {None}]  BY <1>3, <1>4 DEF TypeOK
<1> QED  BY <1>1, <1>5, <1>6, HostKept

LEMMA HookResultKept ==
  ASSUME IInv, NEW r \in Requests, HookResult(r)
  PROVE  IInv'
<1> USE DEF IInv
<1> DEFINE q == [req[r] EXCEPT !.waiter = FALSE, !.owed = FALSE]
<1>1. /\ req[r] # None /\ req' = [req EXCEPT ![r].waiter = FALSE, ![r].owed = FALSE]
      /\ IF req[r].waiter THEN Settled(r) ELSE inFlight' = inFlight
      /\ UNCHANGED <<plugin, workers, op, chain, up, crashes>>
  BY DEF HookResult
<1>2. req[r] \in ReqState  BY <1>1 DEF TypeOK
<1>3. q \in ReqState /\ q.h = req[r].h /\ ~q.waiter  BY <1>2 DEF ReqState
<1>4. req' = [req EXCEPT ![r] = q]  BY <1>1, <1>2 DEF TypeOK, ReqState
<1> HIDE DEF q
<1>5. InFlightExact' /\ inFlight' \in [Hosts -> Nat]
  <2>1. CASE req[r].waiter  BY <1>1, <1>3, <1>4, <2>1, WaitsNoMore
  <2>2. CASE ~req[r].waiter
    <3>1. inFlight' = inFlight  BY <1>1, <2>2
    <3>2. InFlightExact'  BY <1>3, <1>4, <2>2, <3>1, WaitsUnchanged
    <3> QED  BY <3>1, <3>2 DEF TypeOK
  <2> QED  BY <2>1, <2>2
<1>6. req' \in [Requests -> ReqState \cup {None}]  BY <1>3, <1>4 DEF TypeOK
<1> QED  BY <1>1, <1>5, <1>6, HostKept

LEMMA RequestEndsKept ==
  ASSUME IInv, NEW r \in Requests, RequestEnds(r)
  PROVE  IInv'
<1> USE DEF IInv
<1>1. /\ ~req[r].waiter /\ req' = [req EXCEPT ![r] = None]
      /\ UNCHANGED <<plugin, workers, op, chain, inFlight, up, crashes>>
  BY DEF RequestEnds
<1>2. InFlightExact'  BY <1>1, WaitsUnchanged
<1>3. req' \in [Requests -> ReqState \cup {None}] /\ inFlight' \in [Hosts -> Nat]  BY <1>1 DEF TypeOK
<1> QED  BY <1>1, <1>2, <1>3, HostKept

-----------------------------------------------------------------------------
(* The end of a worker, and of the process *)

\* handleExit settles the calls of the worker, and no other's.
LEMMA DrainedKept ==
  ASSUME TypeOK, InFlightExact, NEW h \in Hosts, Drained(h)
  PROVE  /\ InFlightExact' /\ inFlight' \in [Hosts -> Nat]
         /\ req' \in [Requests -> ReqState \cup {None}]
<1>1. /\ req' = [r \in Requests |->
                   IF req[r] # None /\ req[r].h = h
                     THEN [req[r] EXCEPT !.waiter = FALSE, !.owed = FALSE] ELSE req[r]]
      /\ inFlight' = [inFlight EXCEPT ![h] = 0]
  BY DEF Drained
<1>2. ASSUME NEW r \in Requests, req[r] # None, req[r].h = h
      PROVE  req'[r] \in ReqState /\ ~req'[r].waiter
  <2>1. req[r] \in ReqState  BY <1>2 DEF TypeOK
  <2>2. req'[r] = [req[r] EXCEPT !.waiter = FALSE, !.owed = FALSE]  BY <1>1, <1>2
  <2> QED  BY <2>1, <2>2 DEF ReqState
<1>3. \A r \in Requests : ~(req[r] # None /\ req[r].h = h) => req'[r] = req[r]  BY <1>1
<1>4. req' \in [Requests -> ReqState \cup {None}]
  <2>1. \A r \in Requests : req'[r] \in ReqState \cup {None}  BY <1>2, <1>3 DEF TypeOK
  <2> QED  BY <1>1, <2>1
<1>5. inFlight' \in [Hosts -> Nat]  BY <1>1 DEF TypeOK
<1>6. ASSUME NEW g \in Hosts  PROVE inFlight'[g] = Cardinality(Waiting(g)')
  <2>1. inFlight[g] = Cardinality(Waiting(g))  BY DEF InFlightExact, Waiting
  <2>2. CASE g = h
    <3>1. ASSUME NEW r \in Waiting(g)'  PROVE FALSE
      <4>1. r \in Requests /\ req'[r] # None /\ req'[r].h = h /\ req'[r].waiter
        BY <2>2, <3>1 DEF Waiting
      <4> QED  BY <1>2, <1>3, <4>1
    <3>2. Waiting(g)' = {}  BY <3>1
    <3> QED  BY <1>1, <2>2, <3>2, FS_EmptySet DEF TypeOK
  <2>3. CASE g # h
    <3>1. \A r \in Requests : req[r] # None /\ req[r].h = h => req'[r].h = h
      BY <1>1 DEF TypeOK, ReqState
    <3>2. Waiting(g)' = Waiting(g)  BY <1>2, <1>3, <2>3, <3>1 DEF Waiting
    <3> QED  BY <1>1, <2>1, <2>3, <3>2 DEF TypeOK
  <2> QED  BY <2>2, <2>3
<1> QED  BY <1>4, <1>5, <1>6 DEF InFlightExact, Waiting

LEMMA WorkerExitsKept ==
  ASSUME IInv, NEW h \in Hosts, WorkerExits(h)
  PROVE  IInv'
<1> USE DEF IInv
<1>1. /\ Posts(h) /\ host' = [host EXCEPT ![h] = "dead"] /\ Drained(h) /\ provider' = None
      /\ UNCHANGED <<loaded, package, enabling, op, chain, up, crashes>>
  BY DEF WorkerExits, Posts, ReleaseProvider
<1>2. \/ /\ host[h] = "live" /\ status' = (IF loaded THEN "error" ELSE status)
         /\ hooks' = {} /\ sandboxHosts' = None
      \/ host[h] = "ending" /\ UNCHANGED <<status, hooks, sandboxHosts>>
  BY DEF WorkerExits, Crashed
<1>3. \A g \in Hosts : host'[g] = IF g = h THEN "dead" ELSE host[g]  BY <1>1 DEF TypeOK
<1>4. TypeOK' /\ InFlightExact'
  <2>1. status' \in {"installed", "enabled", "disabled", "error"}
    BY <1>2 DEF TypeOK
  <2>2. hooks' \subseteq Hosts /\ sandboxHosts' \in Hosts \cup {None}  BY <1>2 DEF TypeOK
  <2> QED  BY <1>1, <2>1, <2>2, DrainedKept DEF TypeOK, package
<1>5. Serial' /\ (Idle' <=> Idle) /\ \A x \in Calls : Running(x)' <=> Running(x)
  BY <1>1, OpsKept
<1>6. \A g \in Hosts : host'[g] \notin {"live", "ending"}  BY <1>1, <1>3, PosterIs
<1>7. ASSUME Idle  PROVE IdleKept'
  <2>1. IdleKept /\ host[h] = "live"  BY <1>1, <1>7, PosterIs DEF HostInv
  <2>2. status' # "enabled"  BY <1>2, <2>1 DEF IdleKept
  <2> QED  BY <1>1, <1>2, <1>6, <2>1, <2>2 DEF IdleKept
<1>8. ASSUME NEW x \in Calls, Running(x)  PROVE OpKept(x)'
  <2>1. OpKept(x) /\ op[x].h = h /\ op'[x] = op[x]  BY <1>1, <1>8, PosterIs DEF HostInv
  <2>2. up' /\ loaded' /\ op[x].h \in Hosts  BY <1>1, <2>1 DEF OpKept
  <2>3. op[x].pc \in {"enabling", "reaping"} =>
          enabling' /\ status' # "enabled" /\ op[x].kind \in {"enable", "update"}
    BY <1>1, <1>2, <2>1 DEF OpKept
  <2>4. op[x].pc \in {"disabling", "killing"} =>
          ~enabling' /\ op[x].kind # "enable" /\ (status' = "enabled" <=> sandboxHosts' # None)
    BY <1>1, <1>2, <2>1 DEF OpKept
  <2>5. host'[op[x].h] = "dead"  BY <1>3, <2>1
  <2>6. op[x].pc \in {"enabling", "disabling"} => sandboxHosts' = None
    BY <1>2, <2>1 DEF OpKept
  <2>7. op[x].pc = "killing" => sandboxHosts' = op[x].h \/ sandboxHosts' = None
    BY <1>2, <2>1 DEF OpKept
  <2>8. op[x].pc = "reaping" => sandboxHosts' = None /\ hooks' \subseteq {op[x].h}
    BY <1>2, <2>1 DEF OpKept
  <2>9. op[x].pc # "reaping" => hooks' \subseteq {sandboxHosts'}
    BY <1>2, <2>1 DEF OpKept
  <2> QED  BY <1>6, <2>1, <2>2, <2>3, <2>4, <2>5, <2>6, <2>7, <2>8, <2>9 DEF OpKept
<1>9. OneWorker' /\ ProviderLive'  BY <1>1, <1>6 DEF OneWorker, ProviderLive
<1>10. PackageKept'  BY <1>1, <1>5 DEF HostInv, PackageKept, package
<1>11. HostInv'  BY <1>5, <1>7, <1>8, <1>9, <1>10 DEF HostInv
<1> QED  BY <1>4, <1>11

\* Nothing of the workers, the operations and the calls survives.
LEMMA CrashKept ==
  ASSUME IInv, Crash
  PROVE  IInv'
<1> USE DEF IInv
<1>1. /\ crashes < MaxCrashes /\ up' = FALSE /\ crashes' = crashes + 1
      /\ loaded' = FALSE /\ status' = "installed" /\ enabling' = FALSE
      /\ sandboxHosts' = None /\ hooks' = {} /\ provider' = None
      /\ host' = [h \in Hosts |-> IF host[h] = "none" THEN "none" ELSE "dead"]
      /\ op' = [c \in Calls |-> None] /\ chain' = <<>>
      /\ req' = [r \in Requests |-> None] /\ inFlight' = [h \in Hosts |-> 0]
      /\ UNCHANGED package
  BY DEF Crash
<1>2. crashes' \in 0 .. MaxCrashes /\ crashes' # 0  BY <1>1, Bounds DEF TypeOK
<1>3. TypeOK'  BY <1>1, <1>2, EmptySeq DEF TypeOK, package
<1>4. \A x \in Calls : ~Running(x)'  BY <1>1 DEF Running
<1>5. \A h \in Hosts : host'[h] \notin {"live", "ending"}  BY <1>1
<1>6. IdleKept'  BY <1>1, <1>5 DEF IdleKept
<1>7. OneWorker' /\ ProviderLive'  BY <1>1, <1>5 DEF OneWorker, ProviderLive
<1>8. PackageKept'  BY <1>1, <1>2 DEF PackageKept
<1>9. HostInv'  BY <1>4, <1>6, <1>7, <1>8 DEF HostInv, Serial
<1>10. InFlightExact'
  <2>1. \A h \in Hosts : Waiting(h)' = {}  BY <1>1 DEF Waiting
  <2>2. \A h \in Hosts : inFlight'[h] = 0  BY <1>1
  <2> QED  BY <2>1, <2>2, FS_EmptySet DEF InFlightExact, Waiting
<1> QED  BY <1>3, <1>9, <1>10

\* What is in the directory is loaded, never enabled.
LEMMA BootKept ==
  ASSUME IInv, Boot
  PROVE  IInv'
<1> USE DEF IInv
<1>1. /\ ~up /\ up' = TRUE /\ loaded' = (disk # None) /\ version' = disk
      /\ UNCHANGED <<status, disk, backup, enabling, workers, op, chain, calls, crashes>>
  BY DEF Boot
<1>2. TypeOK'
  <2>1. loaded' \in BOOLEAN /\ version' \in Versions \cup {None}  BY <1>1 DEF TypeOK
  <2> QED  BY <1>1, <2>1 DEF TypeOK, workers, calls
<1>3. \A x \in Calls : ~Running(x)  BY <1>1 DEF HostInv, OpKept
<1>4. \A x \in Calls : ~Running(x)'  BY <1>1, <1>3 DEF Running
<1>5. IdleKept  BY <1>3 DEF HostInv, Idle
<1>6. status # "enabled"  BY <1>1, <1>5 DEF HostInv, PackageKept, IdleKept
<1>7. IdleKept'  BY <1>1, <1>5, <1>6 DEF IdleKept, workers
<1>8. OneWorker' /\ ProviderLive'  BY <1>1 DEF HostInv, OneWorker, ProviderLive, workers
<1>9. PackageKept'  BY <1>1, <1>3 DEF HostInv, PackageKept
<1>10. HostInv'  BY <1>4, <1>7, <1>8, <1>9 DEF HostInv, Serial
<1> QED  BY <1>1, <1>2, <1>10, CallsKept

-----------------------------------------------------------------------------
(* The inductive invariant *)

LEMMA InitHolds ==
  Init => IInv
<1> SUFFICES ASSUME Init  PROVE IInv
  OBVIOUS
<1>1. TypeOK
  <2>1. crashes \in 0 .. MaxCrashes /\ chain \in Seq(Calls)  BY Bounds, EmptySeq DEF Init
  <2> QED  BY <2>1 DEF Init, TypeOK, Versions
<1>2. \A x \in Calls : ~Running(x)  BY DEF Init, Running
<1>3. HostInv  BY <1>2, Bounds DEF Init, HostInv, Serial, IdleKept, OneWorker, ProviderLive, PackageKept
<1>4. InFlightExact
  <2>1. \A h \in Hosts : Waiting(h) = {}  BY DEF Init, Waiting
  <2> QED  BY <2>1, FS_EmptySet DEF Init, InFlightExact, Waiting
<1> QED  BY <1>1, <1>3, <1>4 DEF IInv

LEMMA OperateKept ==
  ASSUME IInv, NEW c \in Calls, Operate(c)
  PROVE  IInv'
BY EnableKept, EnableSucceedsKept, EnableFailsKept, ReapedKept, DisableKept, OnDisableEndsKept,
   KilledKept DEF Operate

LEMMA StepKept ==
  IInv /\ [Next]_vars => IInv'
<1> SUFFICES ASSUME IInv, [Next]_vars  PROVE IInv'
  OBVIOUS
<1>1. ASSUME NEW c \in Calls, Request(c) \/ Operate(c)  PROVE IInv'
  BY <1>1, RequestKept, OperateKept
<1>2. ASSUME NEW h \in Hosts, HookSubscribe(h) \/ ProviderRegister(h) \/ WorkerExits(h)  PROVE IInv'
  BY <1>2, HookSubscribeKept, ProviderRegisterKept, WorkerExitsKept
<1>3. ASSUME NEW r \in Requests,
             HookFires(r) \/ DispatchHook(r) \/ HookTimeout(r) \/ HookResult(r) \/ RequestEnds(r)
      PROVE  IInv'
  BY <1>3, HookFiresKept, DispatchHookKept, HookTimeoutKept, HookResultKept, RequestEndsKept
<1>4. CASE Install  BY <1>4, InstallKept
<1>5. CASE Crash  BY <1>5, CrashKept
<1>6. CASE Boot  BY <1>6, BootKept
<1>7. CASE UNCHANGED vars
  <2>1. TypeOK' /\ HostInv'  BY <1>7, HostKept DEF vars, calls, IInv, TypeOK
  <2> QED  BY <1>7, <2>1, CallsKept DEF vars, IInv
<1> QED  BY <1>1, <1>2, <1>3, <1>4, <1>5, <1>6, <1>7 DEF Next

LEMMA HostInvariant ==
  Spec => []IInv
<1>1. Init => IInv  BY InitHolds
<1>2. IInv /\ [Next]_vars => IInv'  BY StepKept
<1> QED  BY <1>1, <1>2, PTL DEF Spec

-----------------------------------------------------------------------------
(* Theorems *)

\* Type correctness; the count of the hooks a worker is busy with is never negative.
THEOREM PluginTypeCorrect == Spec => []TypeOK
<1>1. IInv => TypeOK  BY DEF IInv
<1> QED  BY <1>1, HostInvariant, PTL

\* No worker is leaked: one that runs is the one in the loader's map, through
\* overlapping requests, failed enables, rolled back updates and crashes.
THEOREM WorkersAreOwned == Spec => []OneWorker
<1>1. IInv => OneWorker  BY DEF IInv, HostInv
<1> QED  BY <1>1, HostInvariant, PTL

\* A plugin shown as enabled has its worker, until its own disable ends it.
THEOREM EnabledHasWorker == Spec => []EnabledIsLive
<1>1. IInv => EnabledIsLive
  <2> SUFFICES ASSUME IInv, status = "enabled"
               PROVE  /\ sandboxHosts # None
                      /\ host[sandboxHosts] = "live" \/ \E c \in Calls : At(c, "killing")
    BY DEF EnabledIsLive
  <2>1. CASE Idle  BY <2>1 DEF IInv, HostInv, IdleKept
  <2>2. ASSUME NEW c \in Calls, Running(c)
        PROVE  sandboxHosts # None /\ (host[sandboxHosts] = "live" \/ At(c, "killing"))
    <3>1. OpKept(c) /\ op[c].pc \in {"disabling", "killing", "enabling", "reaping"}
      BY <2>2 DEF IInv, HostInv, Running, TypeOK, OpState
    <3>2. op[c].pc \in {"disabling", "killing"} /\ sandboxHosts # None  BY <3>1 DEF OpKept
    <3> QED  BY <2>2, <3>1, <3>2 DEF OpKept, At, Running
  <2> QED  BY <2>1, <2>2 DEF Idle
<1> QED  BY <1>1, HostInvariant, PTL

\* What a worker registers goes with it, whichever way it ends.
THEOREM RegistrationsGo == Spec => []RegistrationsOwned
<1>1. IInv => RegistrationsOwned
  <2> SUFFICES ASSUME IInv  PROVE RegistrationsOwned
    OBVIOUS
  <2>1. ProviderLive  BY DEF IInv, HostInv
  <2>2. CASE hooks = {}
    <3>1. Cardinality(hooks) <= 1  BY <2>2, FS_EmptySet
    <3> QED  BY <2>1, <2>2, <3>1 DEF RegistrationsOwned, HooksOwned
  <2>3. CASE hooks # {}
    <3>1. PICK g : /\ hooks \subseteq {g}
                   /\ sandboxHosts = g \/ \E c \in Calls : At(c, "reaping") /\ op[c].h = g
      <4>1. CASE Idle  BY <4>1 DEF IInv, HostInv, IdleKept
      <4>2. ASSUME NEW c \in Calls, Running(c)
            PROVE  \/ hooks \subseteq {sandboxHosts}
                   \/ hooks \subseteq {op[c].h} /\ At(c, "reaping")
        BY <4>2 DEF IInv, HostInv, OpKept, At, Running
      <4> QED  BY <4>1, <4>2 DEF Idle
    <3>2. hooks = {g}  BY <2>3, <3>1
    <3>3. Cardinality(hooks) <= 1  BY <3>2, FS_Singleton
    <3> QED  BY <2>1, <3>1, <3>2, <3>3 DEF RegistrationsOwned, HooksOwned
  <2> QED  BY <2>2, <2>3
<1> QED  BY <1>1, HostInvariant, PTL

\* Between operations what runs is what is on disk, and no update has left its
\* backup behind.
THEOREM VersionsKept == Spec => []VersionsAgree
<1>1. IInv => VersionsAgree  BY DEF IInv, HostInv, PackageKept, VersionsAgree, Running
<1> QED  BY <1>1, HostInvariant, PTL

\* The re-entrancy guard counts the hooks a worker is busy with exactly.
THEOREM InFlightIsExact == Spec => []InFlightExact
<1>1. IInv => InFlightExact  BY DEF IInv
<1> QED  BY <1>1, HostInvariant, PTL

=============================================================================
