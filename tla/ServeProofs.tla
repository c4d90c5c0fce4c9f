------------------------------ MODULE ServeProofs ------------------------------
(***************************************************************************)
(* Safety of Server::serve for any set of listeners, any number of         *)
(* connections and any set of injected faults.                             *)
(***************************************************************************)
EXTENDS Serve, TLAPS

(* A listener's task returns Ok, and is joined, only with its connections    *)
(* closed, and it accepts none afterwards; one not spawned yet has none.     *)
Quiet == {"unbound", "ok", "joined"}
EndedIsQuiet == \A l \in Listeners : task[l] \in Quiet => conns[l] = 0

(* Nothing is spawned before serve enters its loop.                          *)
NotStarted ==
  serve = "starting" => \A l \in Listeners : task[l] = "unbound"

(* Hook and flush begin only when every listener has been joined.            *)
CleanupIsJoined ==
  \/ serve \in (Draining \cup Tail) \ {"drain"}
  \/ hook \in {"running", "done"}
  \/ flush \in {"running", "done"}
  => \A l \in Listeners : task[l] = "joined"

(* How far the hook and the flush have come, by where serve stands.          *)
BeforeCleanup ==
  serve \in {"starting", "loop", "drain"} =>
    hook \in {"none", "held"} /\ flush \in {"inactive", "idle"}
InHook ==
  serve \in {"drainHook", "tailHook"} =>
    hook = "running" /\ flush \in {"inactive", "idle"}
InFlush ==
  serve \in {"drainFlush", "tailFlush"} =>
    hook \in {"none", "done"} /\ flush \in {"inactive", "running", "done"}
AfterOk ==
  serve = "ok" /\ ~expired =>
    /\ hook \in {"none", "done"}
    /\ flush \in {"inactive", "done"}
    /\ \A l \in Listeners : task[l] = "joined"
AfterExpiry == expired => serve = "ok"
AfterServe ==
  serve \in Done =>
    /\ hook \in {"none", "done", "dropped"}
    /\ flush \in {"running", "done"} => serve = "ok" /\ hook # "dropped"

IInv ==
  /\ TypeOK
  /\ EndedIsQuiet
  /\ NotStarted
  /\ CleanupIsJoined
  /\ BeforeCleanup
  /\ InHook
  /\ InFlush
  /\ AfterOk
  /\ AfterExpiry
  /\ AfterServe

-------------------------------------------------------------------------------

USE DEF vars, channels, cleanup, Draining, Tail, Done, Quiet

(* Every step keeps every variable's type.                                   *)
LEMMA TypeStep ==
  ASSUME TypeOK, [Next]_vars
  PROVE  TypeOK'
<1> USE DEF TypeOK
<1>1. CASE StartFails
  BY <1>1 DEF StartFails, Leave
<1>2. CASE Start
  BY <1>2 DEF Start
<1>3. CASE ServeStep
  BY <1>3 DEF ServeStep, TakeSignal, JoinOk, JoinFailed, JoinNone, Return,
              Leave, EnterFlush
<1>4. CASE SignalStep
  <2>1. CASE InstallHandlers \/ InstallFails
    BY <2>1 DEF InstallHandlers, InstallFails
  <2>2. CASE ResolveSignal \/ Broadcast
    BY <2>2 DEF ResolveSignal, Broadcast
  <2> QED
    BY <1>4, <2>1, <2>2 DEF SignalStep
<1>5. CASE SignalArrives
  BY <1>5 DEF SignalArrives
<1>6. ASSUME NEW l \in Listeners, ListenerStep(l) \/ ListenerFails(l)
      PROVE  TypeOK'
  BY <1>6 DEF ListenerStep, ListenerFails, ObserveShutdown, ListenerDrained,
              Aborted, MoveTask
<1>7. ASSUME NEW l \in Listeners, ConnOpen(l) \/ ConnClose(l)
      PROVE  TypeOK'
  BY <1>7, MaxConnsAssumption DEF ConnOpen, ConnClose
<1>8. CASE HookFinishes
  BY <1>8 DEF HookFinishes, EnterFlush
<1>9. CASE HookPanics
  BY <1>9 DEF HookPanics, Leave
<1>10. CASE FlushFinishes
  BY <1>10 DEF FlushFinishes
<1>11. CASE DeadlineExpires
  BY <1>11 DEF DeadlineExpires, Leave
<1>12. CASE Returned \/ UNCHANGED vars
  BY <1>12 DEF Returned
<1> QED
  BY <1>1, <1>2, <1>3, <1>4, <1>5, <1>6, <1>7, <1>8, <1>9, <1>10, <1>11, <1>12
     DEF Next

(* The inductive step: no step of any task leaves IInv.                      *)
LEMMA IInvInductive ==
  ASSUME IInv, [Next]_vars
  PROVE  IInv'
<1> TypeOK'
  BY TypeStep DEF IInv
<1> USE DEF IInv, TypeOK, EndedIsQuiet, NotStarted, CleanupIsJoined,
            BeforeCleanup, InHook, InFlush, AfterOk, AfterExpiry,
            AfterServe
<1>1. CASE StartFails
  BY <1>1 DEF StartFails, Leave
<1>2. CASE Start
  BY <1>2 DEF Start
<1>3. CASE TakeSignal
  BY <1>3 DEF TakeSignal
<1>4. ASSUME NEW l \in Listeners, JoinOk(l)
      PROVE  IInv'
  BY <1>4 DEF JoinOk
<1>5. ASSUME NEW l \in Listeners, JoinFailed(l)
      PROVE  IInv'
  BY <1>5 DEF JoinFailed, Leave
<1>6. CASE JoinNone
  BY <1>6 DEF JoinNone, EnterFlush
<1>7. CASE Return
  BY <1>7 DEF Return, Leave
<1>8. CASE SignalStep \/ SignalArrives
  BY <1>8 DEF SignalStep, InstallHandlers, InstallFails, ResolveSignal,
              Broadcast, SignalArrives
<1>9. ASSUME NEW l \in Listeners, ListenerStep(l) \/ ListenerFails(l)
      PROVE  IInv'
  BY <1>9 DEF ListenerStep, ListenerFails, ObserveShutdown, ListenerDrained,
              Aborted, MoveTask
<1>10. ASSUME NEW l \in Listeners, ConnOpen(l) \/ ConnClose(l)
       PROVE  IInv'
  <2>1. conns' = [conns EXCEPT ![l] = conns'[l]]
    BY <1>10 DEF ConnOpen, ConnClose
  <2>2. task[l] \notin {"ok", "joined"}
    BY <1>10 DEF ConnOpen, ConnClose
  <2> QED
    BY <1>10, <2>1, <2>2 DEF ConnOpen, ConnClose
<1>11. CASE HookFinishes
  BY <1>11 DEF HookFinishes, EnterFlush
<1>12. CASE HookPanics
  BY <1>12 DEF HookPanics, Leave
<1>13. CASE FlushFinishes
  BY <1>13 DEF FlushFinishes
<1>14. CASE DeadlineExpires
  BY <1>14 DEF DeadlineExpires, Leave
<1>15. CASE Returned \/ UNCHANGED vars
  BY <1>15 DEF Returned
<1> QED
  BY <1>1, <1>2, <1>3, <1>4, <1>5, <1>6, <1>7, <1>8, <1>9, <1>10, <1>11, <1>12,
     <1>13, <1>14, <1>15 DEF Next, ServeStep

-------------------------------------------------------------------------------

LEMMA InitIInv == Init => IInv
<1>1. 0 \in 0..MaxConns
  BY MaxConnsAssumption
<1> QED
  BY <1>1 DEF Init, IInv, TypeOK, EndedIsQuiet, NotStarted, CleanupIsJoined,
              BeforeCleanup, InHook, InFlush, AfterOk, AfterExpiry,
            AfterServe

(* IInv, and with it TypeOK, holds in every reachable state.                 *)
THEOREM Invariance == Spec => []IInv
<1>1. Init => IInv
  BY InitIInv
<1>2. IInv /\ [Next]_vars => IInv'
  BY IInvInductive
<1> QED
  BY <1>1, <1>2, PTL DEF Spec

(* Every variable of serve keeps its type.                                   *)
THEOREM TypeCorrect == Spec => []TypeOK
<1>1. IInv => TypeOK
  BY DEF IInv
<1> QED
  BY <1>1, Invariance, PTL

(* server.rs:209-214: the hook never runs beside an open connection.         *)
THEOREM HookIsSafe == Spec => []HookSeesNoTraffic
<1>1. IInv => HookSeesNoTraffic
  BY DEF IInv, HookSeesNoTraffic, CleanupIsJoined, EndedIsQuiet, AllClosed
<1> QED
  BY <1>1, Invariance, PTL

(* server.rs:325-326: nothing can produce telemetry once the flush started.  *)
THEOREM FlushComesLast == Spec => []FlushIsLast
<1>1. IInv => FlushIsLast
  <2> SUFFICES ASSUME IInv, flush \in {"running", "done"} PROVE FlushIsLast
    BY DEF FlushIsLast
  <2>1. AllClosed
    BY DEF IInv, CleanupIsJoined, EndedIsQuiet, AllClosed
  <2>2. hook \notin {"held", "running"}
    BY DEF IInv, TypeOK, BeforeCleanup, InHook, InFlush, AfterServe
  <2> QED
    BY <2>1, <2>2 DEF FlushIsLast
<1> QED
  BY <1>1, Invariance, PTL

(* serve returns Ok before the deadline only with its whole shutdown done.   *)
THEOREM OkMeansClean == Spec => []OkIsClean
<1>1. IInv => OkIsClean
  BY DEF IInv, OkIsClean, AfterOk, EndedIsQuiet, AllClosed
<1> QED
  BY <1>1, Invariance, PTL

(* Connections that are closed stay so: only ConnOpen adds one, and it needs *)
(* a task that accepts.                                                      *)
LEMMA QuietStaysQuiet ==
  ASSUME IInv, [Next]_vars, \A l \in Listeners : task[l] \in Quiet
  PROVE  conns' = conns
<1>1. \A l \in Listeners : conns[l] = 0
  BY DEF IInv, EndedIsQuiet
<1>2. \A l \in Listeners : ~ConnOpen(l) /\ ~ConnClose(l)
  BY <1>1 DEF ConnOpen, ConnClose
<1> QED
  BY <1>2 DEF Next, ServeStep, SignalStep, ListenerStep, StartFails, Start,
     TakeSignal, JoinOk, JoinFailed, JoinNone, Return, InstallHandlers,
     InstallFails, SignalArrives, ResolveSignal, Broadcast, ListenerFails,
     ObserveShutdown, ListenerDrained, Aborted, MoveTask, HookFinishes,
     HookPanics, FlushFinishes, DeadlineExpires, Returned

(* No connection is opened from the start of the hook on.                    *)
THEOREM HookEndsTraffic == Spec => NoTrafficAfterHook
<1> DEFINE NoneOpened == hook \in {"running", "done"} =>
                      \A l \in Listeners : conns'[l] <= conns[l]
<1>1. IInv /\ [Next]_vars => [NoneOpened]_vars
  <2> SUFFICES ASSUME IInv, [Next]_vars, hook \in {"running", "done"}
               PROVE  \A l \in Listeners : conns'[l] <= conns[l]
    OBVIOUS
  <2>1. conns' = conns
    BY QuietStaysQuiet DEF IInv, CleanupIsJoined
  <2> QED
    BY <2>1, MaxConnsAssumption DEF IInv, TypeOK
<1> QED
  BY <1>1, Invariance, PTL DEF Spec, NoTrafficAfterHook

-------------------------------------------------------------------------------
(* Refinement. *)

LEMMA InitRefines == Init => Lifecycle!Init
  BY DEF Init, Lifecycle!Init, Lifecycle!CleanupSteps, lifecyclePhase,
         lifecycleBusy, lifecycleDue, lifecycleRan

(* A step that moves neither serve nor the clean-up is traffic, or nothing.  *)
LEMMA OtherStepsRefine ==
  ASSUME IInv, [Next]_vars, UNCHANGED <<serve, cleanup>>
  PROVE  [Lifecycle!Next]_(Lifecycle!vars)
<1>1. UNCHANGED <<lifecyclePhase, lifecycleDue, lifecycleRan>>
  BY DEF lifecyclePhase, lifecycleDue, lifecycleRan
<1>2. CASE conns' = conns
  BY <1>1, <1>2 DEF Lifecycle!vars, lifecycleBusy
<1>3. CASE conns' # conns
  <2>1. ~ \A l \in Listeners : task[l] \in Quiet
    BY <1>3, QuietStaysQuiet
  <2>2. \/ serve \in {"loop", "drain", "error", "panicked"}
        \/ serve = "ok" /\ expired
    BY <2>1 DEF IInv, TypeOK, NotStarted, CleanupIsJoined, AfterOk
  <2>3. lifecyclePhase \in Lifecycle!Loud
    BY <2>2 DEF lifecyclePhase, Lifecycle!Loud
  <2>4. lifecycleBusy' \in SUBSET Listeners
    BY DEF lifecycleBusy
  <2> QED
    BY <1>1, <2>3, <2>4 DEF Lifecycle!Next, Lifecycle!Traffic
<1> QED
  BY <1>2, <1>3

(* Every step of serve is a step its caller was promised, or a stutter.      *)
LEMMA StepRefines ==
  ASSUME IInv, [Next]_vars
  PROVE  [Lifecycle!Next]_(Lifecycle!vars)
<1> IInv'
  BY IInvInductive
<1> USE DEF lifecyclePhase, lifecycleDue, lifecycleRan, lifecycleBusy,
            Lifecycle!Move, Lifecycle!Next, Lifecycle!vars
<1>1. CASE StartFails
  BY <1>1 DEF StartFails, Leave, Lifecycle!Fail, Lifecycle!Live, IInv, BeforeCleanup
<1>2. CASE Start
  BY <1>2 DEF Start, Lifecycle!Open
<1>3. CASE TakeSignal
  BY <1>3 DEF TakeSignal, Lifecycle!Stop
<1>4. ASSUME NEW l \in Listeners, JoinFailed(l)
      PROVE  Lifecycle!Fail
  BY <1>4 DEF JoinFailed, Leave, Lifecycle!Fail, Lifecycle!Live, IInv, BeforeCleanup
<1>5. CASE JoinNone
  <2>1. lifecycleBusy = {}
    BY <1>5 DEF JoinNone, IInv, EndedIsQuiet, TypeOK
  <2>2. Lifecycle!Drained
    BY <1>5, <2>1 DEF JoinNone, EnterFlush, Lifecycle!Drained, Draining, Tail, IInv, BeforeCleanup
  <2> QED
    BY <2>2
<1>6. CASE Return
  BY <1>6 DEF Return, Leave, Lifecycle!Complete, IInv, InFlush, AfterExpiry
<1>7. CASE HookFinishes
  BY <1>7 DEF HookFinishes, EnterFlush, Lifecycle!Clean, Lifecycle!CleanupSteps, IInv, InHook
<1>8. CASE HookPanics
  BY <1>8 DEF HookPanics, Leave, Lifecycle!Fail, Lifecycle!Live, IInv, InHook
<1>9. CASE FlushFinishes
  BY <1>9 DEF FlushFinishes, Lifecycle!Clean, Lifecycle!CleanupSteps, IInv, TypeOK, BeforeCleanup, InHook, InFlush, AfterServe, AfterOk
<1>10. CASE DeadlineExpires
  BY <1>10 DEF DeadlineExpires, Leave, Lifecycle!Abandon, IInv, BeforeCleanup, InHook, InFlush
<1>11. CASE UNCHANGED <<serve, cleanup>>
  BY <1>11, OtherStepsRefine
<1> QED
  BY <1>1, <1>2, <1>3, <1>4, <1>5, <1>6, <1>7, <1>8, <1>9, <1>10, <1>11
  DEF Next, ServeStep, JoinOk, SignalStep, ListenerStep, InstallHandlers,
      InstallFails, SignalArrives, ResolveSignal, Broadcast, ListenerFails,
      ObserveShutdown, ListenerDrained, Aborted, MoveTask, ConnOpen, ConnClose,
      Returned

(* Every behaviour of serve is one of ServiceLifecycle.                      *)
THEOREM Refinement == Spec => ImplementsLifecycle
<1>1. Init => Lifecycle!Init
  BY InitRefines
<1>2. IInv /\ [Next]_vars => [Lifecycle!Next]_(Lifecycle!vars)
  BY StepRefines
<1> QED
  BY <1>1, <1>2, Invariance, PTL DEF Spec, ImplementsLifecycle, Lifecycle!Spec
================================================================================
