------------------------------- MODULE Layering --------------------------------
(***************************************************************************)
(* parse of tinkr_config (lib.rs): how the environment, the file and the   *)
(* defaults are merged into one configuration (base.rs, __private.rs and   *)
(* what derive(Configurable) generates), which error a bad input ends in,  *)
(* the provenance recorded on the way, and what the JSON schema says the   *)
(* file must hold.                                                         *)
(*                                                                         *)
(* A value is abstracted to whether it can be used: "good"; "malformed",   *)
(* not readable as the type its layer declares; or "unknown", a string     *)
(* that names no environment.                                              *)
(***************************************************************************)
EXTENDS Naturals, Sequences

CONSTANTS
  Base,      \* the base fields, in the order merge resolves them
  Apps,      \* application structs, each the sequence of its fields
  Reserved,  \* RESERVED, the names of base fields
  TopLevel   \* the table of a field that is in none

(* A FieldSpec: what one field declares. An application's nested fields are *)
(* flattened in declaration order, as from_layers visits them.              *)
Field(names, tables) ==
  [owner: {"base", "app"}, name: names, table: tables,
   kind: {"environment", "required", "optional"}, env: BOOLEAN, default: BOOLEAN]

IsField(f, owner) ==
  /\ f \in Field({f.name}, {f.table})
  /\ f.owner = owner
  /\ f.kind = "optional" => ~f.default
  /\ owner = "app" => f.kind # "environment"
  /\ owner = "base" =>
       /\ f.table = TopLevel
       /\ f.name \in Reserved
       /\ f.env
       /\ f.kind = "environment" => f.default

IsStruct(s, owner) ==
  /\ s \in Seq({s[i] : i \in DOMAIN s})
  /\ \A i \in DOMAIN s : IsField(s[i], owner)
  /\ \A i, j \in DOMAIN s :
       s[i].table = s[j].table /\ s[i].name = s[j].name => i = j

ASSUME BaseAssumption == IsStruct(Base, "base")
ASSUME AppsAssumption == \A s \in Apps : IsStruct(s, "app")

VARIABLES
  fields,   \* the base fields and those of one application
  env,      \* what the environment holds for each field
  file,     \* what the file holds for each field
  tables,   \* the tables the file holds
  stray,    \* whether the file holds a key of no field
  pc,       \* control of parse
  sources,  \* provenance: where each merged field got its value
  outcome   \* the error parse returns, if any, and the field it is about

inputs == <<fields, env, file, tables, stray>>
vars == <<inputs, pc, sources, outcome>>

Values == {"absent", "malformed", "unknown", "good"}
Fields == DOMAIN fields
Tables == {fields[i].table : i \in Fields} \ {TopLevel}
Owned(owner) == {i \in Fields : fields[i].owner = owner}

(* The dotted path under which a field is reported.                         *)
Path(i) == <<fields[i].table, fields[i].name>>

TypeOK ==
  /\ fields \in {Base \o app : app \in Apps}
  /\ env \in [Fields -> Values]
  /\ file \in [Fields -> Values]
  /\ tables \in SUBSET Tables
  /\ stray \in BOOLEAN
  /\ pc \in {"reserved", "file", "baseEnv", "baseMerge", "appEnv", "appMerge", "done"}
  /\ sources \in Seq([path: {Path(i) : i \in Fields},
                      source: {"env", "file", "default", "unset"}])
  /\ Len(sources) <= Len(fields)
  /\ outcome \in [error: {"none", "ReservedField", "File", "InvalidEnv",
                          "UnknownEnvironment", "MissingValue"},
                  field: {0} \cup Fields]

(* No variable is read for a field that declares none, and a field of a     *)
(* table the file lacks is absent.                                          *)
Init ==
  /\ fields \in {Base \o app : app \in Apps}
  /\ tables \in SUBSET Tables
  /\ stray \in BOOLEAN
  /\ env \in {e \in [Fields -> Values] : \A i \in Fields :
                /\ ~fields[i].env => e[i] = "absent"
                /\ e[i] = "unknown" => fields[i].kind = "environment"}
  /\ file \in {f \in [Fields -> Values] : \A i \in Fields :
                /\ fields[i].table \notin tables \cup {TopLevel} => f[i] = "absent"
                /\ f[i] = "unknown" => fields[i].kind = "environment"}
  /\ pc = "reserved"
  /\ sources = <<>>
  /\ outcome = [error |-> "none", field |-> 0]

Goto(to) ==
  /\ pc' = to
  /\ UNCHANGED <<inputs, sources, outcome>>

Fail(error, i) ==
  /\ pc' = "done"
  /\ outcome' = [error |-> error, field |-> i]
  /\ UNCHANGED <<inputs, sources>>

-------------------------------------------------------------------------------
(* The top-level name of an application field: its table's if it is nested. *)
TopName(i) == IF fields[i].table = TopLevel THEN fields[i].name ELSE fields[i].table

Shadowing == {i \in Owned("app") : TopName(i) \in Reserved}

(* parse refuses an application whose top-level fields would read the keys  *)
(* of the base fields.                                                      *)
CheckReserved ==
  /\ pc = "reserved"
  /\ \/ \E i \in Shadowing : /\ \A j \in Shadowing : i <= j
                             /\ Fail("ReservedField", i)
     \/ Shadowing = {} /\ Goto("file")

(* The file's fields of an owner that do not read as their type. An unknown *)
(* environment does: the file layer holds a String.                         *)
Malformed(layer, owner) == {i \in Owned(owner) : layer[i] = "malformed"}

(* The text is read as a BaseLayer first and as the application's layer     *)
(* then; which of several bad values is named is up to the text's order. A  *)
(* key of no field is skipped by both.                                      *)
ReadFile ==
  /\ pc = "file"
  /\ \/ \E i \in Malformed(file, "base") : Fail("File", i)
     \/ Malformed(file, "base") = {} /\ \E i \in Malformed(file, "app") : Fail("File", i)
     \/ Malformed(file, "base") \cup Malformed(file, "app") = {} /\ Goto("baseEnv")

-------------------------------------------------------------------------------
(* from_env of BaseLayer reads port before env; merge resolves env first.   *)
ReadBefore(i, j) ==
  LET position(k) == CASE Path(k) = <<TopLevel, "port">> -> 0
                       [] fields[k].kind = "environment" -> 1
                       [] OTHER -> k + 1
  IN position(i) < position(j)

(* from_env of one layer: the first variable that does not parse ends it.   *)
ReadEnv(owner, to) ==
  LET bad == Malformed(env, owner)
  IN \/ \E i \in bad : /\ \A j \in bad \ {i} : ReadBefore(i, j)
                       /\ Fail("InvalidEnv", i)
     \/ bad = {} /\ Goto(to)

-------------------------------------------------------------------------------
(* The layer merge_required, merge_optional and merge_env take a field from.*)
Winner(i) ==
  IF env[i] # "absent" THEN "env"
  ELSE IF file[i] # "absent" THEN "file"
  ELSE IF fields[i].default THEN "default"
  ELSE "unset"

(* Mutant: the provenance of a field is pushed twice.                       *)
Record_Twice(i) ==
  LET entry == [path |-> Path(i), source |-> Winner(i)]
  IN /\ sources' = sources \o <<entry, entry>>
     /\ UNCHANGED <<inputs, pc, outcome>>

(* Mutant: a value of the file is reported where a variable overrode it.    *)
Record_BlindToEnv(i) ==
  /\ sources' = Append(sources, [path |-> Path(i),
                                 source |-> IF file[i] # "absent" THEN "file" ELSE Winner(i)])
  /\ UNCHANGED <<inputs, pc, outcome>>

(* The push each merge function ends in.                                    *)
Record(i) ==
  /\ sources' = Append(sources, [path |-> Path(i), source |-> Winner(i)])
  /\ UNCHANGED <<inputs, pc, outcome>>

(* merge_required: a value, or an error when no layer has one.              *)
MergeRequired(i) ==
  /\ fields[i].kind = "required"
  /\ \/ Winner(i) = "unset" /\ Fail("MissingValue", i)
     \/ Winner(i) # "unset" /\ Record(i)

(* merge_optional never fails; a field nobody provides is recorded too.     *)
MergeOptional(i) ==
  /\ fields[i].kind = "optional"
  /\ Record(i)

(* merge_env parses the winning name into the environment type; a name the  *)
(* environment overrides is not looked at.                                  *)
MergeEnvironment(i) ==
  /\ fields[i].kind = "environment"
  /\ \/ Winner(i) = "env" /\ env[i] = "unknown" /\ Fail("InvalidEnv", i)
     \/ Winner(i) = "file" /\ file[i] = "unknown" /\ Fail("UnknownEnvironment", i)
     \/ /\ Winner(i) = "env" => env[i] # "unknown"
        /\ Winner(i) = "file" => file[i] # "unknown"
        /\ Record(i)

Merge(i) == MergeRequired(i) \/ MergeOptional(i) \/ MergeEnvironment(i)

(* merge of base.rs and from_layers: fields are resolved in order, one push *)
(* each, until one of them fails.                                           *)
MergeFields(owner, to) ==
  LET next == Len(sources) + 1
  IN \/ next \in Owned(owner) /\ Merge(next)
     \/ next \notin Owned(owner) /\ Goto(to)

ReadBaseEnv == pc = "baseEnv" /\ ReadEnv("base", "baseMerge")
MergeBase == pc = "baseMerge" /\ MergeFields("base", "appEnv")
ReadAppEnv == pc = "appEnv" /\ ReadEnv("app", "appMerge")
MergeApp == pc = "appMerge" /\ MergeFields("app", "done")

(* parse has returned.                                                      *)
Finished == pc = "done" /\ UNCHANGED vars

Next ==
  \/ CheckReserved
  \/ ReadFile
  \/ ReadBaseEnv
  \/ MergeBase
  \/ ReadAppEnv
  \/ MergeApp
  \/ Finished

Spec == Init /\ [][Next]_vars

-------------------------------------------------------------------------------
(* What parse promises (Resolution). A sequence of entries is its           *)
(* configuration once the last stage is through.                            *)
parsed ==
  CASE pc # "done" -> [is |-> "pending"]
    [] pc = "done" /\ outcome.error = "none" -> [is |-> "loaded", provenance |-> sources]
    [] OTHER -> [is |-> "refused", error |-> outcome.error, field |-> outcome.field]

Reference == INSTANCE Resolution WITH result <- parsed

(* Every behaviour of parse is one step from its inputs to the configuration *)
(* they make or to an error about a field that is at fault: its stages       *)
(* together check everything, refuse nothing else and leave nothing half     *)
(* merged.                                                                   *)
ImplementsResolution == Reference!Spec

(* A merged field has its value from the highest layer that provides one,   *)
(* and the provenance, in field order, says so (lib.rs:1-11). Swapping two  *)
(* layers in any of the three merge functions breaks it.                    *)
HighestLayerWins ==
  \A i \in 1..Len(sources) :
    /\ sources[i].path = Path(i)
    /\ \E k \in 1..4 :
         /\ sources[i].source = Reference!Layers[k]
         /\ Reference!Provides(Reference!Layers[k], i)
         /\ \A m \in 1..(k - 1) : ~Reference!Provides(Reference!Layers[m], i)

(* A configuration that is returned has one provenance entry for each field *)
(* and no two entries share a path: no application key is also read as a    *)
(* base field.                                                              *)
EveryFieldIsTraced ==
  pc = "done" /\ outcome.error = "none" =>
    /\ Len(sources) = Len(fields)
    /\ \A i, j \in Fields : i # j => sources[i].path # sources[j].path

-------------------------------------------------------------------------------
(* Mutant: a default does not count as providing the value.                 *)
SchemaRequires_Defaulted(i) ==
  fields[i].owner = "app" /\ fields[i].kind = "required" /\ ~fields[i].env

(* Mutant: fields without a default are never required of the file.         *)
SchemaRequires_Never(i) == FALSE

(* Property.required of a base field: each has a default or is optional.    *)
SchemaRequiresBase(i) == FALSE

(* Property.required as derive(Configurable) computes it.                   *)
SchemaRequires(i) ==
  /\ fields[i].owner = "base" => SchemaRequiresBase(i)
  /\ fields[i].owner = "app" =>
       fields[i].kind = "required" /\ ~fields[i].default /\ ~fields[i].env

(* Property.required of a nested field, its table.                          *)
SchemaRequiresTable(t) == FALSE

(* The file has the keys of every "required" list: a table's own list binds *)
(* where the table is.                                                      *)
RequiredKeysAreThere ==
  /\ \A t \in Tables : SchemaRequiresTable(t) => t \in tables
  /\ \A i \in Fields :
       SchemaRequires(i) /\ fields[i].table \in tables \cup {TopLevel} => file[i] # "absent"

(* Whether the rendered schema accepts the file's keys: those it requires,  *)
(* and by its "additionalProperties" none but those of the fields.          *)
SchemaAccepts == RequiredKeysAreThere /\ ~stray

MissingFromFile ==
  outcome.error = "MissingValue" /\ ~fields[outcome.field].env

(* A file that loads lacks no key the schema requires, "a field must appear *)
(* in the file only when nothing else can provide it" (tinkr_config_macros  *)
(* lib.rs): the schema rejects its keys for a stray one only, which parse   *)
(* takes no notice of.                                                      *)
SchemaAsksOnlyTheNeeded ==
  pc = "done" /\ outcome.error = "none" => (SchemaAccepts <=> ~stray)

(* A load that fails for want of a value only the file can give has a file  *)
(* in which the schema misses a key, as long as the field's table is there. *)
SchemaAsksTheNeeded ==
  MissingFromFile /\ fields[outcome.field].table \in tables \cup {TopLevel}
    => ~RequiredKeysAreThere
===============================================================================
