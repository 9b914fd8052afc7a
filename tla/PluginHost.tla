----------------------------- MODULE PluginHost -----------------------------
(***************************************************************************)
(* The life of one installed plugin: modules/plugins (the serialized       *)
(* operations, the update in place), core/plugins/plugin-loader.service.ts *)
(* (enable, disable, unload), plugin-sandbox-callbacks.ts and              *)
(* sandbox/plugin-worker-host.ts (the worker and the calls sent to it).    *)
(*                                                                         *)
(* One action is one segment between two awaits, or one event of a worker. *)
(* op[c] is a request of an operator; a request waits in `chain` for the   *)
(* ones before it.  A host is one PluginWorkerHost with its worker thread; *)
(* the code keys everything else by the plugin's id.  Manifests, configs   *)
(* and messages are left out.                                              *)
(***************************************************************************)
EXTENDS Naturals, Sequences, FiniteSets

CONSTANTS
  Calls,      \* operator requests in flight at once
  Requests,   \* dispatchHook() calls in flight at once
  MaxHosts,   \* bound on workers ever created
  MaxCrashes, \* bound on crashes of the process
  None

Hosts == 1 .. MaxHosts

VARIABLES
  loaded,       \* is the plugin in the loader's map?
  status,       \* plugin.status
  version,      \* the package version in memory,
  disk,         \* in the plugin's directory,
  backup,       \* and in the update's backup directory
  enabling,     \* the loader's `enabling` set
  sandboxHosts, \* the loader's entry of that name
  host,         \* what became of each worker
  hooks,        \* HookManager: the workers that have their shim registered
  provider,     \* SearchProviderRegistry: the worker behind the plugin's entry
  op,           \* the operators' requests
  chain,        \* PluginsService.opChains
  req,          \* dispatchHook() calls
  inFlight,     \* inFlightHookEvents of each host
  up, crashes

package == <<version, disk, backup>>
plugin == <<loaded, status, package, enabling>>
workers == <<sandboxHosts, host, hooks, provider>>
calls == <<req, inFlight>>
vars == <<plugin, workers, op, chain, calls, up, crashes>>

-----------------------------------------------------------------------------
(* State *)

Kinds == {"enable", "disable", "uninstall", "update"}

Versions == {"old", "new"}

\* was: was the plugin enabled when its update began; phase: the update's
\* forward path, or its rollback.
OpState == [kind : Kinds, pc : {"queued", "disabling", "killing", "enabling", "reaping"},
            h : Hosts \cup {None}, was : BOOLEAN, phase : {"forward", "restore"}]

\* gate: is its shim waiting for the handover lookup?  waiter: is its entry in
\* hookPending?  owed: will the worker answer it still?
ReqState == {q \in [h : Hosts, gate : BOOLEAN, waiter : BOOLEAN, owed : BOOLEAN] :
               q.gate => ~q.waiter /\ ~q.owed}

ASSUME PluginAssumption ==
  /\ MaxHosts \in Nat /\ MaxCrashes \in Nat /\ IsFiniteSet(Requests)
  /\ None \notin Hosts /\ None \notin Versions /\ None \notin OpState /\ None \notin ReqState

Init ==
  /\ loaded = TRUE /\ status = "installed" /\ enabling = FALSE
  /\ version = "old" /\ disk = "old" /\ backup = None
  /\ sandboxHosts = None /\ host = [h \in Hosts |-> "none"]
  /\ hooks = {} /\ provider = None
  /\ op = [c \in Calls |-> None] /\ chain = <<>>
  /\ req = [r \in Requests |-> None] /\ inFlight = [h \in Hosts |-> 0]
  /\ up = TRUE /\ crashes = 0

At(c, pc) == op[c] # None /\ op[c].pc = pc

-----------------------------------------------------------------------------
(* PluginsService.serialize *)

\* The bound leaves an update two workers: its own and its rollback's.
WorkersLeft == Cardinality({h \in Hosts : host[h] = "none"}) >= 2 * (Len(chain) + 1)

Request(c) ==
  /\ up /\ op[c] = None /\ WorkersLeft
  /\ \E k \in Kinds :
       op' = [op EXCEPT ![c] = [kind |-> k, pc |-> "queued", h |-> None,
                                was |-> FALSE, phase |-> "forward"]]
  /\ chain' = Append(chain, c)
  /\ UNCHANGED <<plugin, workers, calls, up, crashes>>

\* Mutant of Turn: the operations of one plugin overlap.
TurnOfAnyone(c) == At(c, "queued")

\* The operations before it have settled.
Turn(c) == At(c, "queued") /\ chain # <<>> /\ Head(chain) = c

\* The operation settles, the one that was running; the chain goes on.
Done(c) ==
  /\ op' = [op EXCEPT ![c] = None]
  /\ chain' = Tail(chain)

-----------------------------------------------------------------------------
(* PluginLoaderService.enablePlugin and enableSandboxed *)

Fresh == {h \in Hosts : host[h] = "none" /\ \A g \in Hosts : g < h => host[g] # "none"}

\* Up to the first await: a new worker in the map, and load() posted to it.
BeginEnable(c, phase, was) ==
  \E h \in Fresh :
    /\ host' = [host EXCEPT ![h] = "live"] /\ sandboxHosts' = h
    /\ enabling' = TRUE
    /\ op' = [op EXCEPT ![c] = [@ EXCEPT !.pc = "enabling", !.h = h, !.phase = phase, !.was = was]]

Enable(c) ==
  /\ Turn(c) /\ op[c].kind = "enable"
  /\ IF loaded /\ status # "enabled" /\ ~enabling
       THEN BeginEnable(c, "forward", FALSE) /\ chain' = chain
       ELSE Done(c) /\ UNCHANGED <<host, sandboxHosts, enabling>>
  /\ UNCHANGED <<loaded, status, package, hooks, provider, calls, up, crashes>>

\* load, onLoad and onEnable have answered.
EnableSucceeds(c) ==
  /\ At(c, "enabling") /\ host[op[c].h] = "live"
  /\ status' = "enabled" /\ enabling' = FALSE
  /\ backup' = IF op[c].kind = "update" /\ op[c].phase = "forward" THEN None ELSE backup
  /\ Done(c)
  /\ UNCHANGED <<loaded, version, disk, workers, calls, up, crashes>>

\* Mutant of Ending: terminate() is left out.
EndingUntold(h) == host

Ending(h) == [host EXCEPT ![h] = IF @ = "live" THEN "ending" ELSE @]

\* One of them threw, timed out, or lost its worker: the catch of enableSandboxed.
EnableFails(c) ==
  /\ At(c, "enabling")
  /\ sandboxHosts' = None /\ provider' = None
  /\ host' = Ending(op[c].h)
  /\ op' = [op EXCEPT ![c].pc = "reaping"]
  /\ UNCHANGED <<plugin, hooks, chain, calls, up, crashes>>

\* Mutant of HooksAfterFailure: the shims registered before the failure stay.
HooksAfterFailureStay == hooks

\* unregisterPlugin
HooksAfterFailure == {}

\* Mutant of Restored: the new version stays in the loader's map.
RestoredOnDisk == disk' = backup /\ backup' = None /\ version' = version

Restored == disk' = backup /\ backup' = None /\ version' = backup

\* terminate() has resolved: the catch of enablePlugin, and what the caller
\* makes of the failure; a forward update rolls back (Restore).
Reaped(c) ==
  /\ At(c, "reaping") /\ host[op[c].h] = "dead"
  /\ hooks' = HooksAfterFailure
  /\ IF op[c].kind = "update" /\ op[c].phase = "forward"
       THEN \* unloadPlugin, the old directory, loadPlugin, enablePlugin
            /\ Restored
            /\ loaded' = TRUE /\ status' = "installed"
            /\ BeginEnable(c, "restore", TRUE) /\ chain' = chain
       ELSE /\ status' = "error" /\ enabling' = FALSE
            /\ Done(c)
            /\ UNCHANGED <<loaded, package, host, sandboxHosts>>
  /\ UNCHANGED <<provider, calls, up, crashes>>

-----------------------------------------------------------------------------
(* disablePlugin, and what follows it: unload, uninstall, the swap *)

Removed == loaded' = FALSE /\ disk' = None

\* updatePackageInPlace after unloadPlugin: the directories are swapped, the new
\* package is written and loaded; or it cannot be, and the old one comes back.
Swap(c, was) ==
  \/ /\ disk' = "new" /\ version' = "new" /\ loaded' = TRUE /\ status' = "installed"
     /\ backup' = IF was THEN disk ELSE None
     /\ IF was THEN BeginEnable(c, "forward", TRUE) /\ chain' = chain
               ELSE Done(c) /\ UNCHANGED <<host, sandboxHosts, enabling>>
  \/ /\ disk' = disk /\ version' = disk /\ loaded' = TRUE /\ status' = "installed"
     /\ backup' = None
     /\ IF was THEN BeginEnable(c, "restore", TRUE) /\ chain' = chain
               ELSE Done(c) /\ UNCHANGED <<host, sandboxHosts, enabling>>

\* Its turn: nothing to disable, or onDisable is posted to the worker.
Disable(c) ==
  /\ Turn(c) /\ op[c].kind # "enable"
  /\ \/ /\ loaded /\ status = "enabled" /\ sandboxHosts # None
        /\ op' = [op EXCEPT ![c] = [@ EXCEPT !.pc = "disabling", !.h = sandboxHosts, !.was = TRUE]]
        /\ UNCHANGED <<plugin, workers, chain>>
     \/ /\ ~loaded \/ (status # "enabled" /\ op[c].kind = "disable")
        /\ Done(c)
        /\ UNCHANGED <<plugin, workers>>
     \/ /\ loaded /\ status # "enabled" /\ op[c].kind = "uninstall"
        /\ Removed /\ Done(c)
        /\ UNCHANGED <<status, version, backup, enabling, workers>>
     \/ /\ loaded /\ status # "enabled" /\ op[c].kind = "update"
        /\ Swap(c, FALSE)
        /\ UNCHANGED <<hooks, provider>>
  /\ UNCHANGED <<calls, up, crashes>>

\* onDisable has answered, thrown, timed out or lost its worker: terminate().
OnDisableEnds(c) ==
  /\ At(c, "disabling")
  /\ host' = Ending(op[c].h)
  /\ op' = [op EXCEPT ![c].pc = "killing"]
  /\ UNCHANGED <<plugin, sandboxHosts, hooks, provider, chain, calls, up, crashes>>

Killed(c) ==
  /\ At(c, "killing") /\ host[op[c].h] = "dead"
  /\ hooks' = {} /\ provider' = None
  /\ CASE op[c].kind = "disable" ->
            /\ sandboxHosts' = None /\ status' = "disabled" /\ Done(c)
            /\ UNCHANGED <<loaded, package, enabling, host>>
       [] op[c].kind = "uninstall" ->
            /\ sandboxHosts' = None /\ status' = "disabled" /\ Removed /\ Done(c)
            /\ UNCHANGED <<version, backup, enabling, host>>
       [] op[c].kind = "update" -> Swap(c, TRUE)
  /\ UNCHANGED <<calls, up, crashes>>

\* install(): a package for a plugin that is not there; synchronous.
Install ==
  /\ up /\ ~loaded /\ disk = None
  /\ loaded' = TRUE /\ disk' = "new" /\ version' = "new" /\ status' = "installed"
  /\ UNCHANGED <<backup, enabling, workers, op, chain, calls, up, crashes>>

-----------------------------------------------------------------------------
(* The worker's events: plugin-sandbox-callbacks.ts *)

Posts(h) == host[h] \in {"live", "ending"}

\* onHookSubscribe, once per worker and event.
HookSubscribe(h) ==
  /\ Posts(h) /\ h \notin hooks
  /\ hooks' = hooks \cup {h}
  /\ UNCHANGED <<plugin, sandboxHosts, host, provider, op, chain, calls, up, crashes>>

\* onSearchProviderRegister asks the map, not the worker that called.
ProviderRegister(h) ==
  /\ Posts(h) /\ sandboxHosts # None
  /\ provider' = sandboxHosts
  /\ UNCHANGED <<plugin, sandboxHosts, host, hooks, op, chain, calls, up, crashes>>

\* Mutant of Crashed: only the search provider is released.
CrashedUnnoticed == UNCHANGED <<status, hooks, sandboxHosts>>

\* onWorkerExit of a worker nobody terminated.
Crashed ==
  /\ status' = IF loaded THEN "error" ELSE status
  /\ hooks' = {} /\ sandboxHosts' = None

ReleaseProvider(h) == provider' = None

\* handleExit: every waiter of the worker is settled.
Drained(h) ==
  /\ req' = [r \in Requests |->
               IF req[r] # None /\ req[r].h = h THEN [req[r] EXCEPT !.waiter = FALSE, !.owed = FALSE]
               ELSE req[r]]
  /\ inFlight' = [inFlight EXCEPT ![h] = 0]

WorkerExits(h) ==
  /\ host[h] \in {"live", "ending"}
  /\ host' = [host EXCEPT ![h] = "dead"]
  /\ Drained(h)
  /\ ReleaseProvider(h)
  /\ IF host[h] = "live" THEN Crashed ELSE UNCHANGED <<status, hooks, sandboxHosts>>
  /\ UNCHANGED <<loaded, package, enabling, op, chain, up, crashes>>

-----------------------------------------------------------------------------
(* PluginWorkerHost.dispatchHook, called by the shim *)

\* The shim of a registered worker looks the host up when the event fires,
HookFires(r) ==
  /\ up /\ req[r] = None /\ hooks # {} /\ sandboxHosts # None
  /\ req' = [req EXCEPT ![r] = [h |-> sandboxHosts, gate |-> TRUE, waiter |-> FALSE, owed |-> FALSE]]
  /\ UNCHANGED <<plugin, workers, op, chain, inFlight, up, crashes>>

\* and waits for the handover gate: a human has the chat, or the event goes to
\* that host, whatever became of it meanwhile.
DispatchHook(r) ==
  /\ req[r] # None /\ req[r].gate
  /\ \/ req' = [req EXCEPT ![r] = None] /\ inFlight' = inFlight
     \/ /\ host[req[r].h] # "dead"
        /\ req' = [req EXCEPT ![r] = [h |-> req[r].h, gate |-> FALSE, waiter |-> TRUE, owed |-> TRUE]]
        /\ inFlight' = [inFlight EXCEPT ![req[r].h] = @ + 1]
  /\ UNCHANGED <<plugin, workers, op, chain, up, crashes>>

\* settle() runs decInFlightHook.
Settled(r) == inFlight' = [inFlight EXCEPT ![req[r].h] = @ - 1]

\* Mutant of TimedOut: the entry stays in hookPending.
TimedOutKept(r) == req' = [req EXCEPT ![r].owed = TRUE]

TimedOut(r) == req' = [req EXCEPT ![r].waiter = FALSE]

HookTimeout(r) ==
  /\ req[r] # None /\ req[r].waiter
  /\ TimedOut(r) /\ Settled(r)
  /\ UNCHANGED <<plugin, workers, op, chain, up, crashes>>

\* A hook-result without a waiter is dropped.
HookResult(r) ==
  /\ req[r] # None /\ req[r].owed /\ Posts(req[r].h)
  /\ req' = [req EXCEPT ![r].waiter = FALSE, ![r].owed = FALSE]
  /\ IF req[r].waiter THEN Settled(r) ELSE inFlight' = inFlight
  /\ UNCHANGED <<plugin, workers, op, chain, up, crashes>>

\* Settled and answered, or never to be: the caller's slot is free again.
RequestEnds(r) ==
  /\ req[r] # None /\ ~req[r].gate /\ ~req[r].waiter /\ ~req[r].owed
  /\ req' = [req EXCEPT ![r] = None]
  /\ UNCHANGED <<plugin, workers, op, chain, inFlight, up, crashes>>

-----------------------------------------------------------------------------
(* The process *)

Crash ==
  /\ up /\ crashes < MaxCrashes
  /\ up' = FALSE /\ crashes' = crashes + 1
  /\ loaded' = FALSE /\ status' = "installed" /\ enabling' = FALSE
  /\ sandboxHosts' = None /\ hooks' = {} /\ provider' = None
  /\ host' = [h \in Hosts |-> IF host[h] = "none" THEN "none" ELSE "dead"]
  /\ op' = [c \in Calls |-> None] /\ chain' = <<>>
  /\ req' = [r \in Requests |-> None] /\ inFlight' = [h \in Hosts |-> 0]
  /\ UNCHANGED package

\* loadPluginsFromDirectory: whatever is in the directory, never enabled.
Boot ==
  /\ ~up /\ up' = TRUE
  /\ loaded' = (disk # None)
  /\ version' = disk
  /\ UNCHANGED <<status, disk, backup, enabling, workers, op, chain, calls, crashes>>

Operate(c) ==
  \/ Enable(c) \/ EnableSucceeds(c) \/ EnableFails(c) \/ Reaped(c)
  \/ Disable(c) \/ OnDisableEnds(c) \/ Killed(c)

Next ==
  \/ \E c \in Calls : Request(c) \/ Operate(c)
  \/ \E h \in Hosts : HookSubscribe(h) \/ ProviderRegister(h) \/ WorkerExits(h)
  \/ \E r \in Requests : \/ HookFires(r) \/ DispatchHook(r)
                       \/ HookTimeout(r) \/ HookResult(r) \/ RequestEnds(r)
  \/ Install \/ Crash \/ Boot

Spec == Init /\ [][Next]_vars

\* Lifecycle calls and hooks time out, a terminated worker exits.
Fairness ==
  /\ \A c \in Calls : WF_vars(Operate(c))
  /\ \A h \in Hosts : WF_vars(host[h] = "ending" /\ WorkerExits(h))
  /\ \A r \in Requests : WF_vars(HookTimeout(r))

FairSpec == Spec /\ Fairness

-----------------------------------------------------------------------------
(* Properties *)

\* Type correctness of the plugin, its workers, the operations and the calls.
TypeOK ==
  /\ loaded \in BOOLEAN /\ status \in {"installed", "enabled", "disabled", "error"}
  /\ version \in Versions \cup {None} /\ disk \in Versions \cup {None}
  /\ backup \in Versions \cup {None} /\ enabling \in BOOLEAN
  /\ sandboxHosts \in Hosts \cup {None}
  /\ host \in [Hosts -> {"none", "live", "ending", "dead"}]
  /\ hooks \subseteq Hosts /\ provider \in Hosts \cup {None}
  /\ op \in [Calls -> OpState \cup {None}] /\ chain \in Seq(Calls)
  /\ req \in [Requests -> ReqState \cup {None}]
  /\ inFlight \in [Hosts -> Nat]
  /\ up \in BOOLEAN /\ crashes \in 0 .. MaxCrashes

\* No worker is leaked: one that runs is the one in the loader's map, where a
\* later disable finds it, so a plugin never has two (the chain of operations
\* against crashes, failing enables and rollbacks).
OneWorker == \A h \in Hosts : host[h] = "live" => sandboxHosts = h

\* A plugin shown as enabled has its worker, until its own disable ends it.
EnabledIsLive ==
  status = "enabled" =>
    /\ sandboxHosts # None
    /\ host[sandboxHosts] = "live" \/ \E c \in Calls : At(c, "killing")

\* An event never reaches a plugin twice, nor a plugin that is gone: at most one
\* shim is registered, of a worker in the map or of an operation about to drop it.
HooksOwned ==
  /\ Cardinality(hooks) <= 1
  /\ \A h \in hooks : sandboxHosts = h \/ \E c \in Calls : At(c, "reaping") /\ op[c].h = h

\* Searches are never routed to a worker that has exited.
ProviderLive == provider # None => host[provider] \in {"live", "ending"}

\* What a worker registers goes with it, whichever way it ends: disable, failed enable, rollback
\* of an update, or a crash of its own.
RegistrationsOwned == HooksOwned /\ ProviderLive

\* With no operation in flight, what runs is what is on disk, and no update has
\* left its backup behind, rolled back or not (a crash of the process may).
VersionsAgree ==
  (\A c \in Calls : op[c] = None) /\ up =>
    /\ loaded => version = disk
    /\ crashes = 0 => backup = None

\* The re-entrancy guard counts the hooks a worker is busy with exactly, through
\* answers that arrive after their timeout and workers that die.
InFlightExact ==
  \A h \in Hosts :
    inFlight[h] = Cardinality({r \in Requests : req[r] # None /\ req[r].h = h /\ req[r].waiter})

\* Every operation on a plugin ends, however its worker behaves, so the chain is
\* never blocked; so does every hook.
OperationsEnd == \A c \in Calls : op[c] # None ~> op[c] = None

=============================================================================
