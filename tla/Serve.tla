--------------------------------- MODULE Serve ---------------------------------
(***************************************************************************)
(* Server::serve of tinkr_framework (src/crates/tinkr_framework/src/        *)
(* server.rs): the task that calls serve, the signal task it spawns, one    *)
(* axum task per listener, the deadline, the shutdown hook, and the         *)
(* telemetry flush that runs on a blocking thread.                          *)
(***************************************************************************)
EXTENDS Naturals

CONSTANTS
  Listeners,  \* the sockets resolve_binds returned
  MaxConns,   \* bound: connections open at once on one listener
  Faults      \* the failures the environment may inject (see Failures)

Failures == {"install", "err", "panic", "hook"}

ASSUME ListenersAssumption == Listeners # {}
ASSUME MaxConnsAssumption == MaxConns \in Nat
ASSUME FaultsAssumption == Faults \subseteq Failures

VARIABLES
  serve,      \* control of the task running serve
  signalTask, \* control of the spawned signal task
  osSignal,   \* history: the process received ctrl-c or SIGTERM
  signalled,  \* the oneshot channel is resolved (value sent or sender dropped)
  broadcast,  \* the watch channel is changed (value sent or sender dropped)
  task,       \* control of each listener's task, as the JoinSet sees it
  conns,      \* open connections of each listener (detached tokio tasks)
  hook,       \* the shutdown hook: absent, held by serve, running, ...
  flush,      \* otel::shutdown, "inactive" when no signal is exported
  expired     \* history: tokio::time::timeout gave up on the drain

channels == <<osSignal, signalled, broadcast>>
cleanup == <<hook, flush, expired>>
vars == <<serve, signalTask, channels, task, conns, cleanup>>

Draining == {"drain", "drainHook", "drainFlush"}  \* inside timeout(..)
Tail == {"tailHook", "tailFlush"}                 \* after the loop's break
Done == {"ok", "error", "panicked"}

TypeOK ==
  /\ serve \in {"starting", "loop"} \cup Draining \cup Tail \cup Done
  /\ signalTask \in {"unspawned", "installing", "waiting", "sending",
                     "unwinding", "ended"}
  /\ osSignal \in BOOLEAN
  /\ signalled \in BOOLEAN
  /\ broadcast \in BOOLEAN
  /\ task \in [Listeners -> {"unbound", "accepting", "closing", "ok", "err",
                             "panic", "joined", "aborting", "aborted"}]
  /\ conns \in [Listeners -> 0..MaxConns]
  /\ hook \in {"none", "held", "running", "done", "dropped"}
  /\ flush \in {"inactive", "idle", "running", "done"}
  /\ expired \in BOOLEAN

Init ==
  /\ serve = "starting"
  /\ signalTask = "unspawned"
  /\ osSignal = FALSE
  /\ signalled = FALSE
  /\ broadcast = FALSE
  /\ task = [l \in Listeners |-> "unbound"]
  /\ conns = [l \in Listeners |-> 0]
  /\ hook \in {"none", "held"}
  /\ flush \in {"inactive", "idle"}
  /\ expired = FALSE

-------------------------------------------------------------------------------
(* Leaving serve. The locals are dropped: the JoinSet aborts the listener   *)
(* tasks still in it (at their next poll), and an unfinished hook is lost.  *)

Leave(outcome) ==
  /\ serve' = outcome
  /\ task' = [l \in Listeners |->
                CASE task[l] = "accepting" -> "aborting"
                  [] task[l] = "closing" -> "aborted"
                  [] OTHER -> task[l]]
  /\ hook' = IF hook \in {"held", "running"} THEN "dropped" ELSE hook

(* into_app or resolve_binds returns Err: nothing is spawned.               *)
StartFails ==
  /\ serve = "starting"
  /\ Leave("error")
  /\ UNCHANGED <<signalTask, channels, conns, flush, expired>>

(* The signal task and one task per listener are spawned.                   *)
Start ==
  /\ serve = "starting"
  /\ serve' = "loop"
  /\ signalTask' = "installing"
  /\ task' = [l \in Listeners |-> "accepting"]
  /\ UNCHANGED <<channels, conns, cleanup>>

-------------------------------------------------------------------------------
(* The signal task.                                                         *)

InstallHandlers ==
  /\ signalTask = "installing"
  /\ signalTask' = "waiting"
  /\ UNCHANGED <<serve, channels, task, conns, cleanup>>

(* An expect of shutdown_signal panics; unwinding drops both senders.       *)
InstallFails ==
  /\ "install" \in Faults
  /\ signalTask = "installing"
  /\ signalTask' = "unwinding"
  /\ UNCHANGED <<serve, channels, task, conns, cleanup>>

SignalArrives ==
  /\ signalTask = "waiting"
  /\ signalTask' = "sending"
  /\ osSignal' = TRUE
  /\ UNCHANGED <<serve, signalled, broadcast, task, conns, cleanup>>

(* signal_tx.send, or its drop. After a panic the senders go in any order.  *)
ResolveSignal ==
  /\ signalTask \in {"sending", "unwinding"}
  /\ ~signalled
  /\ signalled' = TRUE
  /\ signalTask' = IF broadcast THEN "ended" ELSE signalTask
  /\ UNCHANGED <<serve, osSignal, broadcast, task, conns, cleanup>>

(* shutdown_tx.send, second in the code, or its drop.                       *)
Broadcast ==
  /\ signalTask \in {"sending", "unwinding"}
  /\ ~broadcast
  /\ signalTask = "sending" => signalled
  /\ broadcast' = TRUE
  /\ signalTask' = IF signalled THEN "ended" ELSE signalTask
  /\ UNCHANGED <<serve, osSignal, signalled, task, conns, cleanup>>

-------------------------------------------------------------------------------
(* The listener tasks: axum::serve(..).with_graceful_shutdown(..).          *)

ConnOpen(l) ==
  /\ task[l] \in {"accepting", "aborting"}
  /\ conns[l] < MaxConns
  /\ conns' = [conns EXCEPT ![l] = @ + 1]
  /\ UNCHANGED <<serve, signalTask, channels, task, cleanup>>

ConnClose(l) ==
  /\ conns[l] > 0
  /\ conns' = [conns EXCEPT ![l] = @ - 1]
  /\ UNCHANGED <<serve, signalTask, channels, task, cleanup>>

MoveTask(l, from, to) ==
  /\ task[l] \in from
  /\ task' = [task EXCEPT ![l] = to]
  /\ UNCHANGED <<serve, signalTask, channels, conns, cleanup>>

(* shutdown.changed() resolves: stop accepting, wait for the connections.   *)
ObserveShutdown(l) == broadcast /\ MoveTask(l, {"accepting"}, "closing")

ListenerDrained(l) == conns[l] = 0 /\ MoveTask(l, {"closing"}, "ok")

ListenerFails(l) ==
  \E r \in Faults \cap {"err", "panic"} :
    MoveTask(l, {"accepting", "closing"}, r)

Aborted(l) == MoveTask(l, {"aborting"}, "aborted")

-------------------------------------------------------------------------------
(* The serve loop and the drain.                                            *)

(* Mutant: `Ok(()) = signal_rx`, deaf to a dropped sender.                  *)
TakeSignal_OkOnly ==
  /\ serve = "loop"
  /\ signalled
  /\ osSignal
  /\ serve' = "drain"
  /\ UNCHANGED <<signalTask, channels, task, conns, cleanup>>

(* signal_rx won the select!: enter the drain and start the deadline.       *)
TakeSignal ==
  /\ serve = "loop"
  /\ signalled
  /\ serve' = "drain"
  /\ UNCHANGED <<signalTask, channels, task, conns, cleanup>>

(* join_next yields a listener that returned Ok: go on.                     *)
JoinOk(l) ==
  /\ serve \in {"loop", "drain"}
  /\ task[l] = "ok"
  /\ task' = [task EXCEPT ![l] = "joined"]
  /\ UNCHANGED <<serve, signalTask, channels, conns, cleanup>>

(* join_next yields a failure: `?` returns it, a JoinError panics.          *)
JoinFailed(l) ==
  /\ serve \in {"loop", "drain"}
  /\ task[l] \in {"err", "panic"}
  /\ Leave(IF task[l] = "err" THEN "error" ELSE "panicked")
  /\ UNCHANGED <<signalTask, channels, conns, flush, expired>>

(* Enter hook.await, or otel::shutdown when there is no hook to await.      *)
EnterFlush(flushing) ==
  /\ serve' = flushing
  /\ flush' = IF flush = "idle" THEN "running" ELSE flush

(* Mutant: `if let Some` for `while let Some`, one listener is joined.      *)
JoinNone_First ==
  /\ serve \in {"loop", "drain"}
  /\ \E l \in Listeners : task[l] = "joined"
  /\ hook = "held"
  /\ hook' = "running"
  /\ serve' = IF serve = "loop" THEN "tailHook" ELSE "drainHook"
  /\ UNCHANGED <<signalTask, channels, task, conns, flush, expired>>

(* join_next yields None: in the drain go on to the hook, in the loop break *)
(* to the tail, which runs the same hook and flush outside the timeout.     *)
JoinNone ==
  /\ serve \in {"loop", "drain"}
  /\ \A l \in Listeners : task[l] = "joined"
  /\ \/ /\ hook = "held"
        /\ hook' = "running"
        /\ serve' = IF serve = "loop" THEN "tailHook" ELSE "drainHook"
        /\ UNCHANGED flush
     \/ /\ hook = "none"
        /\ EnterFlush(IF serve = "loop" THEN "tailFlush" ELSE "drainFlush")
        /\ UNCHANGED hook
  /\ UNCHANGED <<signalTask, channels, task, conns, expired>>

(* Mutant: the hook's end ends the drain, the flush is forgotten.           *)
HookFinishes_NoFlush ==
  /\ serve \in {"drainHook", "tailHook"}
  /\ hook' = "done"
  /\ serve' = "ok"
  /\ UNCHANGED <<signalTask, channels, task, conns, flush, expired>>

HookFinishes ==
  /\ serve \in {"drainHook", "tailHook"}
  /\ hook' = "done"
  /\ EnterFlush(IF serve = "tailHook" THEN "tailFlush" ELSE "drainFlush")
  /\ UNCHANGED <<signalTask, channels, task, conns, expired>>

HookPanics ==
  /\ "hook" \in Faults
  /\ serve \in {"drainHook", "tailHook"}
  /\ Leave("panicked")
  /\ UNCHANGED <<signalTask, channels, conns, flush, expired>>

(* The blocking thread finishes, whether or not serve still waits for it.   *)
FlushFinishes ==
  /\ flush = "running"
  /\ flush' = "done"
  /\ UNCHANGED <<serve, signalTask, channels, task, conns, hook, expired>>

(* Mutant: the blocking flush is spawned but not awaited.                   *)
Return_Detached ==
  /\ serve \in {"drainFlush", "tailFlush"}
  /\ Leave("ok")
  /\ UNCHANGED <<signalTask, channels, conns, flush, expired>>

Return ==
  /\ serve \in {"drainFlush", "tailFlush"}
  /\ flush \in {"inactive", "done"}
  /\ Leave("ok")
  /\ UNCHANGED <<signalTask, channels, conns, flush, expired>>

(* Mutant: the timeout covers the connections, not the hook and the flush.  *)
DeadlineExpires_ConnsOnly ==
  /\ serve = "drain"
  /\ expired' = TRUE
  /\ Leave("ok")
  /\ UNCHANGED <<signalTask, channels, conns, flush>>

(* Mutant: the timeout covers the hook and the flush, not the connections.  *)
DeadlineExpires_CleanupOnly ==
  /\ serve \in {"drainHook", "drainFlush"}
  /\ expired' = TRUE
  /\ Leave("ok")
  /\ UNCHANGED <<signalTask, channels, conns, flush>>

(* shutdown_timeout elapses: the drain is dropped and serve returns Ok.     *)
DeadlineExpires ==
  /\ serve \in Draining
  /\ expired' = TRUE
  /\ Leave("ok")
  /\ UNCHANGED <<signalTask, channels, conns, flush>>

(* Not a step of the program: what is left once serve has returned.         *)
Returned == serve \in Done /\ UNCHANGED vars

ServeStep ==
  \/ TakeSignal
  \/ JoinNone
  \/ Return
  \/ \E l \in Listeners : JoinOk(l) \/ JoinFailed(l)

SignalStep == InstallHandlers \/ InstallFails \/ ResolveSignal \/ Broadcast

ListenerStep(l) ==
  ObserveShutdown(l) \/ ListenerDrained(l) \/ Aborted(l)

Next ==
  \/ StartFails
  \/ Start
  \/ ServeStep
  \/ SignalStep
  \/ SignalArrives
  \/ \E l \in Listeners :
       ListenerStep(l) \/ ListenerFails(l) \/ ConnOpen(l) \/ ConnClose(l)
  \/ HookFinishes
  \/ HookPanics
  \/ FlushFinishes
  \/ DeadlineExpires
  \/ Returned

Spec == Init /\ [][Next]_vars

(* The tokio runtime polls woken tasks and fires timers; it promises nothing *)
(* about clients, the hook, or the export channel.                          *)
FairSpec ==
  /\ Spec
  /\ WF_vars(StartFails \/ Start)
  /\ WF_vars(ServeStep)
  /\ WF_vars(SignalStep)
  /\ WF_vars(DeadlineExpires)
  /\ \A l \in Listeners : WF_vars(ListenerStep(l))

(* A hook and an exporter that finish on their own.                          *)
FiniteCleanup == WF_vars(HookFinishes) /\ WF_vars(FlushFinishes)

-------------------------------------------------------------------------------
(* Properties.                                                              *)

AllClosed == \A l \in Listeners : conns[l] = 0

(* server.rs:209-214: the hook runs after graceful shutdown completes, so it *)
(* may close a pool no request uses any more: no connection is open and      *)
(* every listener has been joined for as long as the hook runs.              *)
HookSeesNoTraffic ==
  hook = "running" => AllClosed /\ \A l \in Listeners : task[l] = "joined"

(* server.rs:325-326: the flush is last, so no connection and no hook can   *)
(* still produce telemetry once it has started, even after a timeout.       *)
FlushIsLast ==
  flush \in {"running", "done"} => AllClosed /\ hook \notin {"held", "running"}

(* An Ok that is not the deadline's means the whole shutdown was done:      *)
(* connections drained, hook run to its end, telemetry flushed.             *)
OkIsClean ==
  serve = "ok" /\ ~expired =>
    /\ AllClosed
    /\ hook \in {"none", "done"}
    /\ flush \in {"inactive", "done"}

(* From the hook's start on no connection is opened again, on any path.     *)
NoTrafficAfterHook ==
  [][(hook \in {"running", "done"}) =>
       \A l \in Listeners : conns'[l] <= conns[l]]_vars

(* server.rs:249-252: a signal ends serve, however long clients stay         *)
(* connected.                                                                *)
SignalEndsServe == osSignal ~> serve \in Done

(* The same of a service whose hook and exporter finish on their own: the    *)
(* clients alone never keep serve from returning.                            *)
ClientsCannotHold == FiniteCleanup => SignalEndsServe

(* The select! cannot lose the signal: whatever the hook and the clients do, *)
(* a delivered signal takes serve out of its loop.                          *)
SignalLeavesLoop == signalled ~> serve # "loop"

(* server.rs:249-252 once the deadline runs: hook and drain are abandoned.  *)
DrainIsBounded == serve \in Draining ~> serve \in Done

-------------------------------------------------------------------------------
(* Serve implements ServiceLifecycle. *)

lifecyclePhase ==
  CASE serve = "starting" -> "down"
    [] serve = "loop" -> "up"
    [] serve = "drain" -> "stopping"
    [] serve \in (Draining \cup Tail) \ {"drain"} -> "cleaning"
    [] serve = "ok" -> IF expired THEN "abandoned" ELSE "stopped"
    [] OTHER -> "failed"

lifecycleBusy == {l \in Listeners : conns[l] > 0}

lifecycleDue == (IF hook = "none" THEN {} ELSE {"hook"})
                  \cup (IF flush = "inactive" THEN {} ELSE {"flush"})

lifecycleRan == (IF hook = "done" THEN {"hook"} ELSE {})
                  \cup (IF flush = "done" THEN {"flush"} ELSE {})

Lifecycle == INSTANCE ServiceLifecycle
  WITH phase <- lifecyclePhase, busy <- lifecycleBusy,
       due <- lifecycleDue, ran <- lifecycleRan

(* Every behaviour of serve is one its caller was promised.                 *)
ImplementsLifecycle == Lifecycle!Spec
================================================================================
