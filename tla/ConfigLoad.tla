------------------------------ MODULE ConfigLoad -------------------------------
(***************************************************************************)
(* load_with, get and base of tinkr_config (lib.rs): threads that race to  *)
(* load, freeze and read the process's one configuration, the two statics  *)
(* they share (GLOBAL and CONFIG_PATH), and the errors and provenance that *)
(* read CONFIG_PATH only when they are displayed.                          *)
(***************************************************************************)
EXTENDS Naturals

CONSTANTS
  Loaders,   \* threads that call load_with, get and base
  Types,     \* the configuration structs of the program
  Paths,     \* paths a caller or $CONFIG_FILE may name
  Default,   \* CONFIG_FILE, "config.toml"
  Unset,     \* no argument, variable or path
  MaxCalls   \* bound: calls of load_with a thread makes

AllPaths == Paths \cup {Default}

(* What the impls of IntoConfigFile make of a config_file argument.         *)
Arguments == Paths \cup {Unset}

(* Who stored a configuration, its type, and the file it was read from.     *)
Stored == [by: Loaders, type: Types, path: AllPaths, fromFile: BOOLEAN]

ASSUME DefaultAssumption == Default \notin Paths
ASSUME UnsetAssumption == Unset \notin AllPaths \cup Stored
ASSUME MaxCallsAssumption == MaxCalls \in Nat

VARIABLES
  global,      \* GLOBAL: Unset or set to a Stored
  configPath,  \* CONFIG_PATH: Unset, or the path of the last load attempted
  configVar,   \* $CONFIG_FILE as the process sees it
  dotenvVar,   \* CONFIG_FILE in .env
  file,        \* what is at each path: nothing, what can not be read as
               \* the layers of a struct, or a file that can
  pc,          \* where each loader is
  path,        \* the path each loader resolved, and whether it was named
  explicit,
  found,       \* whether its file was there when it read it
  outcome,     \* how its last call ended
  seen,        \* what get or base returned to it
  errorOf,     \* the file its last error is about, Unset if it is about none;
               \* the caller may keep it
  calls        \* the calls it made

shared == <<global, configPath, configVar, file>>
locals == <<path, explicit, found>>
results == <<outcome, seen, errorOf>>
vars == <<shared, dotenvVar, pc, locals, results, calls>>

TypeOK ==
  /\ global \in Stored \cup {Unset}
  /\ configPath \in AllPaths \cup {Unset}
  /\ configVar \in Paths \cup {Unset}
  /\ dotenvVar \in Paths \cup {Unset}
  /\ file \in [AllPaths -> {"missing", "bad", "good"}]
  /\ pc \in [Loaders -> {"idle", "checked", "resolved", "parsed", "stopped"}]
  /\ path \in [Loaders -> AllPaths \cup {Unset}]
  /\ explicit \in [Loaders -> BOOLEAN]
  /\ found \in [Loaders -> BOOLEAN]
  /\ outcome \in [Loaders -> {"none", "ok", "err", "panic"}]
  /\ seen \in [Loaders -> Stored \cup {Unset}]
  /\ errorOf \in [Loaders -> AllPaths \cup {Unset}]
  /\ calls \in [Loaders -> 0..MaxCalls]

Init ==
  /\ global = Unset
  /\ configPath = Unset
  /\ configVar \in Paths \cup {Unset}
  /\ dotenvVar \in Paths \cup {Unset}
  /\ file \in [AllPaths -> {"missing", "bad", "good"}]
  /\ pc = [t \in Loaders |-> "idle"]
  /\ path = [t \in Loaders |-> Unset]
  /\ explicit = [t \in Loaders |-> FALSE]
  /\ found = [t \in Loaders |-> FALSE]
  /\ outcome = [t \in Loaders |-> "none"]
  /\ seen = [t \in Loaders |-> Unset]
  /\ errorOf = [t \in Loaders |-> Unset]
  /\ calls = [t \in Loaders |-> 0]

Goto(t, to) == pc' = [pc EXCEPT ![t] = to]

Panic(t) ==
  /\ Goto(t, "stopped")
  /\ outcome' = [outcome EXCEPT ![t] = "panic"]

-------------------------------------------------------------------------------
(* Mutant: whether a configuration is loaded is asked at the end only.      *)
Enter_Unchecked(t) ==
  /\ pc[t] = "idle"
  /\ calls[t] < MaxCalls
  /\ calls' = [calls EXCEPT ![t] = @ + 1]
  /\ configVar' = IF configVar = Unset THEN dotenvVar ELSE configVar
  /\ Goto(t, "checked")
  /\ UNCHANGED <<global, configPath, dotenvVar, file, locals, results>>

(* dotenvy fills in the variables the environment lacks; then the first of  *)
(* the two checks of GLOBAL.                                                *)
Enter(t) ==
  /\ pc[t] = "idle"
  /\ calls[t] < MaxCalls
  /\ calls' = [calls EXCEPT ![t] = @ + 1]
  /\ configVar' = IF configVar = Unset THEN dotenvVar ELSE configVar
  /\ IF global # Unset
     THEN Panic(t)
     ELSE Goto(t, "checked") /\ UNCHANGED outcome
  /\ UNCHANGED <<global, configPath, dotenvVar, file, locals, seen, errorOf>>

(* Mutant: only a path that somebody named is kept for Display.             *)
Resolve_NamedOnly(t) ==
  /\ pc[t] = "checked"
  /\ \E arg \in Arguments :
       LET named == IF arg # Unset THEN arg ELSE configVar
           resolved == IF named # Unset THEN named ELSE Default
       IN  /\ path' = [path EXCEPT ![t] = resolved]
           /\ explicit' = [explicit EXCEPT ![t] = named # Unset]
           /\ configPath' = IF named # Unset THEN named ELSE configPath
  /\ Goto(t, "resolved")
  /\ UNCHANGED <<global, configVar, dotenvVar, file, found, results, calls>>

(* The argument, else $CONFIG_FILE, else config.toml; only the last may be  *)
(* absent. CONFIG_PATH is set before the file is read.                      *)
Resolve(t) ==
  /\ pc[t] = "checked"
  /\ \E arg \in Arguments :
       LET named == IF arg # Unset THEN arg ELSE configVar
           resolved == IF named # Unset THEN named ELSE Default
       IN  /\ path' = [path EXCEPT ![t] = resolved]
           /\ explicit' = [explicit EXCEPT ![t] = named # Unset]
           /\ configPath' = resolved
  /\ Goto(t, "resolved")
  /\ UNCHANGED <<global, configVar, dotenvVar, file, found, results, calls>>

(* What load_with may return, by what is at the path and whether somebody   *)
(* named it: the read comes first, then the check of the struct's names,    *)
(* the file's text, and what the environment and the layers together make.  *)
ErrorsWith(content, named) ==
  CASE content = "missing" /\ named -> {"Io"}
    [] content = "missing" /\ ~named -> {"ReservedField", "InvalidEnv", "MissingValue"}
    [] content = "bad" -> {"Io", "ReservedField", "File"}
    [] content = "good" ->
         {"ReservedField", "InvalidEnv", "UnknownEnvironment", "MissingValue"}

(* The errors whose Display asks config_path() for a file.                  *)
FileErrors == {"Io", "File", "UnknownEnvironment", "MissingValue"}

(* `?` on the read or on parse: the caller gets an Err and may try again.   *)
Fail(t) ==
  /\ pc[t] = "resolved"
  /\ outcome' = [outcome EXCEPT ![t] = "err"]
  /\ \E error \in ErrorsWith(file[path[t]], explicit[t]) :
       errorOf' = [errorOf EXCEPT ![t] = IF error \in FileErrors THEN path[t] ELSE Unset]
  /\ Goto(t, "idle")
  /\ UNCHANGED <<shared, dotenvVar, locals, seen, calls>>

(* The file is read and parsed, or absent where it may be.                  *)
Parse(t) ==
  /\ pc[t] = "resolved"
  /\ file[path[t]] # "bad"
  /\ explicit[t] => file[path[t]] = "good"
  /\ found' = [found EXCEPT ![t] = file[path[t]] = "good"]
  /\ Goto(t, "parsed")
  /\ UNCHANGED <<shared, dotenvVar, path, explicit, results, calls>>

(* Mutant: the loser of a race is served the winner's configuration.        *)
Store_LoserServed(t) ==
  /\ pc[t] = "parsed"
  /\ \E T \in Types :
       global' = IF global # Unset THEN global
                 ELSE [by |-> t, type |-> T, path |-> path[t], fromFile |-> found[t]]
  /\ outcome' = [outcome EXCEPT ![t] = "ok"]
  /\ Goto(t, "idle")
  /\ UNCHANGED <<configPath, configVar, dotenvVar, file, locals, seen, errorOf, calls>>

(* GLOBAL.set, the second check: the loser of a race panics. The type is    *)
(* the caller's.                                                            *)
Store(t) ==
  /\ pc[t] = "parsed"
  /\ IF global = Unset
     THEN /\ \E T \in Types :
               global' = [by |-> t, type |-> T, path |-> path[t], fromFile |-> found[t]]
          /\ outcome' = [outcome EXCEPT ![t] = "ok"]
          /\ Goto(t, "idle")
     ELSE Panic(t) /\ UNCHANGED global
  /\ UNCHANGED <<configPath, configVar, dotenvVar, file, locals, seen, errorOf, calls>>

(* A reader is given the one configuration, or panics.                      *)
Read(t, served) ==
  /\ pc[t] = "idle"
  /\ IF served
     THEN seen' = [seen EXCEPT ![t] = global] /\ UNCHANGED <<pc, outcome>>
     ELSE Panic(t) /\ UNCHANGED seen
  /\ UNCHANGED <<shared, dotenvVar, locals, errorOf, calls>>

get(t) == \E T \in Types : Read(t, global # Unset /\ global.type = T)

base(t) == Read(t, global # Unset)

(* The operator mounts, breaks or repairs a file between the steps.         *)
ChangeFile(p) ==
  /\ \E content \in {"missing", "bad", "good"} \ {file[p]} :
       file' = [file EXCEPT ![p] = content]
  /\ UNCHANGED <<global, configPath, configVar, dotenvVar, pc, locals, results, calls>>

Next ==
  \/ \E t \in Loaders : Enter(t) \/ Resolve(t) \/ Fail(t) \/ Parse(t) \/ Store(t)
                         \/ get(t) \/ base(t)
  \/ \E p \in AllPaths : ChangeFile(p)

Spec == Init /\ [][Next]_vars

-------------------------------------------------------------------------------
(* The cell of WriteOnce. *)

DoingAt ==
  [idle |-> "idle", checked |-> "loading", resolved |-> "loading",
   parsed |-> "loading", stopped |-> "stopped"]

Cell == INSTANCE WriteOnce WITH
  Files <- AllPaths,
  cell <- global,
  doing <- [t \in Loaders |-> DoingAt[pc[t]]],
  result <- outcome

-------------------------------------------------------------------------------
(* Properties. *)

(* lib.rs:323-328: whatever the threads interleave, load_with, get and base   *)
(* are one cell that is written once: a load panics only when another one has *)
(* loaded, says Ok only of what everybody is served from then on, and takes   *)
(* no named file for absent.                                                  *)
ImplementsWriteOnce == Cell!Spec

(* What errors and provenance show.                                         *)
config_path == IF configPath = Unset THEN Default ELSE configPath

(* lib.rs:323-328: the configuration is loaded once and frozen: whoever got   *)
(* an Ok is the one whose configuration every get and base has served, to     *)
(* this day.                                                                  *)
LoadedOnce ==
  \A t \in Loaders :
    /\ outcome[t] = "ok" => global # Unset /\ global.by = t
    /\ seen[t] # Unset => seen[t] = global

(* lib.rs:323: what is loaded is never replaced.                              *)
Frozen == [][global # Unset => global' = global]_vars

(* lib.rs:338-341: a file somebody named is required, config.toml is not.     *)
NamedFilesAreRead ==
  global # Unset => global.fromFile \/ global.path = Default

Alone(t) == \A u \in Loaders \ {t} : path[u] = Unset

(* config_file_env.rs:60: provenance names the real path: a file that was     *)
(* read, or an absent config.toml. Source::File displays config_path() at any *)
(* later time, after any number of failed and refused loads, unless a second  *)
(* loader came as far as resolving its own path before the first had stored:  *)
(* then it may name the loser's.                                              *)
ProvenanceIsReal ==
  /\ NamedFilesAreRead
  /\ \A t \in Loaders : global # Unset /\ Alone(t) => config_path = global.path

(* What is left of config_file_env.rs:35: an error about a file (errors.rs    *)
(* 29-41 and the hint of 54-57), displayed before its caller tries another    *)
(* path, names that file, where nobody else has tried one.                    *)
FreshErrorsNameTheirFile ==
  \A t \in Loaders :
    /\ outcome[t] = "err" /\ errorOf[t] # Unset
    /\ pc[t] \in {"idle", "checked"} /\ Alone(t)
    => config_path = errorOf[t]

(* config_file_env.rs:35: an error names the real path, whenever it is        *)
(* displayed.                                                                 *)
ErrorsNameTheirFile ==
  \A t \in Loaders : errorOf[t] # Unset => config_path = errorOf[t]
================================================================================
