------------------------------- MODULE WriteOnce -------------------------------
(***************************************************************************)
(* What load_with, get and base promise the threads of a program, with the *)
(* two checks, the variables and the paths left out: one cell, written by  *)
(* at most one of the loads under way and read by anybody ever after. A    *)
(* load is refused only because another one has written, may fail while it *)
(* is under way without a trace in the cell, and says Ok only of what it   *)
(* wrote. ConfigLoad is shown to implement it.                             *)
(***************************************************************************)
CONSTANTS
  Loaders,
  Types,
  Files,    \* the paths a configuration may come from
  Default,  \* the one that may be absent
  Unset

VARIABLES
  cell,    \* Unset, or the configuration
  doing,   \* "idle", "loading" or "stopped", by thread
  result,  \* how its last call ended
  seen     \* what it read last

vars == <<cell, doing, result, seen>>

Init ==
  /\ cell = Unset
  /\ doing = [t \in Loaders |-> "idle"]
  /\ result = [t \in Loaders |-> "none"]
  /\ seen = [t \in Loaders |-> Unset]

Turn(t, from, to) ==
  /\ doing[t] \in from
  /\ doing' = [doing EXCEPT ![t] = to]

End(t, how) == result' = [result EXCEPT ![t] = how]

Begin(t) ==
  /\ Turn(t, {"idle"}, "loading")
  /\ UNCHANGED <<cell, result, seen>>

(* Refused, before it looked for its file or after it was read.              *)
Refuse(t) ==
  /\ cell # Unset
  /\ Turn(t, {"idle", "loading"}, "stopped")
  /\ End(t, "panic")
  /\ UNCHANGED <<cell, seen>>

(* Its file, its environment or its struct is at fault.                      *)
Fail(t) ==
  /\ Turn(t, {"loading"}, "idle")
  /\ End(t, "err")
  /\ UNCHANGED <<cell, seen>>

(* The one write: its own configuration, from a file that was there unless   *)
(* it is the one that need not be.                                           *)
Write(t) ==
  /\ cell = Unset
  /\ \E T \in Types, p \in Files, there \in BOOLEAN :
       /\ there \/ p = Default
       /\ cell' = [by |-> t, type |-> T, path |-> p, fromFile |-> there]
  /\ Turn(t, {"loading"}, "idle")
  /\ End(t, "ok")
  /\ UNCHANGED seen

Read(t) ==
  /\ cell # Unset
  /\ doing[t] = "idle"
  /\ seen' = [seen EXCEPT ![t] = cell]
  /\ UNCHANGED <<cell, doing, result>>

(* There is nothing to read, or it is of another type than was asked for.    *)
Miss(t) ==
  /\ cell = Unset \/ \E T \in Types : T # cell.type
  /\ Turn(t, {"idle"}, "stopped")
  /\ End(t, "panic")
  /\ UNCHANGED <<cell, seen>>

Next ==
  \E t \in Loaders :
    \/ Begin(t)
    \/ Refuse(t)
    \/ Fail(t)
    \/ Write(t)
    \/ Read(t)
    \/ Miss(t)

Spec == Init /\ [][Next]_vars
================================================================================
