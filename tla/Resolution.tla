------------------------------- MODULE Resolution -------------------------------
(***************************************************************************)
(* What parse promises (tinkr_config lib.rs:1-11 and errors.rs), with its  *)
(* stages, its two readings of the file and its merge functions left out:  *)
(* in one step the inputs become a configuration in which every field has  *)
(* the value of the highest layer that has one, or an error about a field  *)
(* that is at fault. Layering is shown to implement it.                    *)
(***************************************************************************)
EXTENDS Naturals

CONSTANTS Reserved, TopLevel

VARIABLES
  fields,  \* what each field declares
  env,     \* what the environment holds for it
  file,    \* what the file holds for it
  result   \* what parse has returned

vars == <<fields, env, file, result>>

Fields == DOMAIN fields

(* The dotted path under which a field is reported.                         *)
Path(i) == <<fields[i].table, fields[i].name>>

(* The top-level name of an application field: its table's if it is nested. *)
TopName(i) == IF fields[i].table = TopLevel THEN fields[i].name ELSE fields[i].table

(* The layers, highest precedence first, and which of them hold something.  *)
Layers == <<"env", "file", "default", "unset">>

Provides(layer, i) ==
  CASE layer = "env" -> env[i] # "absent"
    [] layer = "file" -> file[i] # "absent"
    [] layer = "default" -> fields[i].default
    [] layer = "unset" -> fields[i].kind = "optional"

(* The highest layer that has a value.                                      *)
Highest(i) ==
  Layers[CHOOSE k \in 1..4 : /\ Provides(Layers[k], i)
                             /\ \A m \in 1..(k - 1) : ~Provides(Layers[m], i)]

(* What an operator has to change: a reserved name; a value that cannot be  *)
(* read, even where a higher layer overrides it; a name of no environment   *)
(* where it is not overridden; a required field that no layer provides.     *)
Errors == {"ReservedField", "File", "InvalidEnv", "UnknownEnvironment", "MissingValue"}

AtFault(error, i) ==
  CASE error = "ReservedField" -> fields[i].owner = "app" /\ TopName(i) \in Reserved
    [] error = "File" -> file[i] = "malformed"
    [] error = "InvalidEnv" -> env[i] \in {"malformed", "unknown"}
    [] error = "UnknownEnvironment" -> env[i] = "absent" /\ file[i] = "unknown"
    [] error = "MissingValue" ->
         fields[i].kind = "required" /\ \A l \in {"env", "file", "default"} : ~Provides(l, i)

Loadable == \A error \in Errors, i \in Fields : ~AtFault(error, i)

Pending == [is |-> "pending"]
Loaded(provenance) == [is |-> "loaded", provenance |-> provenance]
Refused(error, i) == [is |-> "refused", error |-> error, field |-> i]

Init == result = Pending

(* The configuration, with the layer each field has its value from. No two  *)
(* fields have one path.                                                    *)
Load ==
  /\ Loadable
  /\ \A i, j \in Fields : i # j => Path(i) # Path(j)
  /\ result' = Loaded([i \in Fields |-> [path |-> Path(i), source |-> Highest(i)]])

Refuse ==
  \E error \in Errors, i \in Fields : AtFault(error, i) /\ result' = Refused(error, i)

Next ==
  /\ result = Pending
  /\ UNCHANGED <<fields, env, file>>
  /\ Load \/ Refuse

Spec == Init /\ [][Next]_vars
================================================================================
