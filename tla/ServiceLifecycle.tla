--------------------------- MODULE ServiceLifecycle ----------------------------
(***************************************************************************)
(* What Server::serve promises its caller, with the tasks, channels and    *)
(* select! loop of the code left out: a service comes up, carries traffic, *)
(* is stopped, cleans up in order once it is quiet, and is then gone.      *)
(* Serve is shown to implement it.                                         *)
(***************************************************************************)
CONSTANT Listeners

VARIABLES
  phase,  \* where the service is in its life
  busy,   \* the listeners that carry traffic
  due,    \* the clean-up steps this service has: the hook, the flush
  ran     \* the clean-up steps that ran to their end

vars == <<phase, busy, due, ran>>

CleanupSteps == {"hook", "flush"}
Loud == {"up", "stopping", "abandoned", "failed"}
Live == {"up", "stopping", "cleaning"}

TypeOK ==
  /\ phase \in {"down", "cleaning", "stopped"} \cup Loud
  /\ busy \in SUBSET Listeners
  /\ due \in SUBSET CleanupSteps
  /\ ran \in SUBSET due

Init ==
  /\ phase = "down"
  /\ busy = {}
  /\ due \in SUBSET CleanupSteps
  /\ ran = {}

Move(from, to) ==
  /\ phase \in from
  /\ phase' = to
  /\ UNCHANGED <<busy, due, ran>>

Open == Move({"down"}, "up")

(* A stop is requested; traffic in flight may still finish. *)
Stop == Move({"up"}, "stopping")

(* Traffic comes and goes, but not from the start of the clean-up on. *)
Traffic ==
  /\ phase \in Loud
  /\ busy' \in SUBSET Listeners
  /\ UNCHANGED <<phase, due, ran>>

(* Cleaning up starts only when the service is quiet. *)
Drained == busy = {} /\ Move({"up", "stopping"}, "cleaning")

(* Clean-up steps run one after the other, the flush last; one that is     *)
(* abandoned half-way may still end.                                       *)
Clean(step) ==
  /\ phase \in {"cleaning", "abandoned"}
  /\ step \in due \ ran
  /\ step = "flush" => ran = due \ {"flush"}
  /\ ran' = ran \cup {step}
  /\ UNCHANGED <<phase, busy, due>>

(* A stopped service is quiet and has run every clean-up step. *)
Complete == ran = due /\ Move({"cleaning"}, "stopped")

(* The grace period is over: whatever is pending stays undone. *)
Abandon == Move({"stopping", "cleaning"}, "abandoned")

Fail == Move(Live \cup {"down"}, "failed")

Next ==
  \/ Open
  \/ Stop
  \/ Traffic
  \/ Drained
  \/ \E step \in CleanupSteps : Clean(step)
  \/ Complete
  \/ Abandon
  \/ Fail

Spec == Init /\ [][Next]_vars
================================================================================
