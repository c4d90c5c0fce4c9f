---------------------------- MODULE LayeringProofs -----------------------------
(***************************************************************************)
(* Proofs about Layering, for every application struct and every input:    *)
(* an inductive invariant that says what each stage of parse has settled,  *)
(* and from it the precedence of the layers, the provenance, when parse    *)
(* succeeds, what its error is about and what the schema asks for.         *)
(***************************************************************************)
EXTENDS Layering, TLAPS

Stages == {"reserved", "file", "baseEnv", "baseMerge", "appEnv", "appMerge", "done"}
Entries == [path: {Path(i) : i \in Fields}, source: {"env", "file", "default", "unset"}]
Errors == {"ReservedField", "File", "InvalidEnv", "UnknownEnvironment", "MissingValue"}

(* The inputs parse starts from: what Init says, for good.                  *)
InputsOK ==
  /\ fields \in {Base \o app : app \in Apps}
  /\ env \in [Fields -> Values]
  /\ file \in [Fields -> Values]
  /\ tables \in SUBSET Tables
  /\ stray \in BOOLEAN
  /\ \A i \in Fields : /\ ~fields[i].env => env[i] = "absent"
                       /\ env[i] = "unknown" => fields[i].kind = "environment"
                       /\ file[i] = "unknown" => fields[i].kind = "environment"

(* A field that was merged has a value it can be built from.                *)
MergedOK(i) ==
  /\ sources[i].path = Path(i)
  /\ sources[i].source = Winner(i)
  /\ Winner(i) = "unset" => fields[i].kind = "optional"
  /\ Winner(i) = "env" => env[i] # "unknown"
  /\ Winner(i) = "file" => file[i] # "unknown"

(* What the stages that lie behind have ruled out, and how far the          *)
(* provenance reaches.                                                      *)
Behind(passed, ok) == pc \in passed \/ (pc = "done" /\ outcome.error = "none") => ok

StagesOK ==
  /\ Behind(Stages \ {"reserved", "done"}, Shadowing = {})
  /\ Behind({"baseEnv", "baseMerge", "appEnv", "appMerge"},
            Malformed(file, "base") = {} /\ Malformed(file, "app") = {})
  /\ Behind({"baseMerge", "appEnv", "appMerge"}, Malformed(env, "base") = {})
  /\ Behind({"appMerge"}, Malformed(env, "app") = {})
  /\ pc \in {"reserved", "file", "baseEnv"} => sources = <<>>
  /\ pc = "baseMerge" => Len(sources) <= Len(Base)
  /\ pc = "appEnv" => Len(sources) = Len(Base)
  /\ pc = "appMerge" => Len(sources) >= Len(Base)
  /\ pc = "done" /\ outcome.error = "none" => Len(sources) = Len(fields)
  /\ pc # "done" => outcome.error = "none"

ResultOK ==
  /\ pc \in Stages
  /\ sources \in Seq(Entries)
  /\ Len(sources) <= Len(fields)
  /\ outcome \in [error: Errors \cup {"none"}, field: {0} \cup Fields]
  /\ \A i \in 1..Len(sources) : MergedOK(i)

(* The error is about a field that is at fault in the layer it names.        *)
BlamedFieldIsAtFault ==
  outcome.error # "none" =>
    outcome.field \in Fields /\ Reference!AtFault(outcome.error, outcome.field)

Inv == InputsOK /\ ResultOK /\ StagesOK /\ BlamedFieldIsAtFault

-------------------------------------------------------------------------------
(* Where the base fields and the application's lie, and what they declare.  *)
LEMMA Layout ==
  ASSUME fields \in {Base \o app : app \in Apps}
  PROVE  /\ Len(Base) \in Nat /\ Len(fields) \in Nat
         /\ Len(Base) <= Len(fields)
         /\ Fields = 1..Len(fields)
         /\ Owned("base") = 1..Len(Base)
         /\ Owned("app") = (Len(Base) + 1)..Len(fields)
         /\ \A i \in Owned("base") : IsField(fields[i], "base")
         /\ \A i \in Owned("app") : IsField(fields[i], "app")
         /\ \A i, j \in Owned("base") : Path(i) = Path(j) => i = j
         /\ \A i, j \in Owned("app") : Path(i) = Path(j) => i = j
<1>1. PICK app \in Apps : fields = Base \o app
  OBVIOUS
<1>2. /\ IsStruct(Base, "base") /\ IsStruct(app, "app")
      /\ Base \in Seq({Base[i] : i \in DOMAIN Base})
      /\ app \in Seq({app[i] : i \in DOMAIN app})
  BY BaseAssumption, AppsAssumption DEF IsStruct
<1>3. /\ Len(Base) \in Nat /\ DOMAIN Base = 1..Len(Base)
      /\ Len(app) \in Nat /\ DOMAIN app = 1..Len(app)
  BY <1>2
<1>4. /\ Len(fields) = Len(Base) + Len(app)
      /\ DOMAIN fields = 1..(Len(Base) + Len(app))
      /\ \A i \in 1..Len(Base) : fields[i] = Base[i]
      /\ \A i \in (Len(Base) + 1)..Len(fields) :
           i - Len(Base) \in 1..Len(app) /\ fields[i] = app[i - Len(Base)]
  BY <1>1, <1>2, <1>3
<1>5. /\ \A i \in 1..Len(Base) : IsField(fields[i], "base")
      /\ \A i \in (Len(Base) + 1)..Len(fields) : IsField(fields[i], "app")
  BY <1>2, <1>3, <1>4 DEF IsStruct
<1>6. /\ \A i \in 1..Len(Base) : fields[i].owner = "base"
      /\ \A i \in (Len(Base) + 1)..Len(fields) : fields[i].owner = "app"
  BY <1>5 DEF IsField
<1>7. Owned("base") = 1..Len(Base) /\ Owned("app") = (Len(Base) + 1)..Len(fields)
  <2>1. /\ 1..Len(Base) \subseteq Fields /\ (Len(Base) + 1)..Len(fields) \subseteq Fields
        /\ \A i \in Fields : i \in 1..Len(Base) \/ i \in (Len(Base) + 1)..Len(fields)
    BY <1>3, <1>4 DEF Fields
  <2>2. "base" # "app"
    OBVIOUS
  <2> QED
    BY <2>1, <2>2, <1>6, Zenon DEF Owned
<1>8. /\ \A i, j \in 1..Len(Base) :
           Base[i].table = Base[j].table /\ Base[i].name = Base[j].name => i = j
      /\ \A i, j \in 1..Len(app) :
           app[i].table = app[j].table /\ app[i].name = app[j].name => i = j
  BY <1>2, <1>3 DEF IsStruct
<1>9. \A i, j \in Owned("base") : Path(i) = Path(j) => i = j
  BY <1>3, <1>4, <1>7, <1>8 DEF Path
<1>10. \A i, j \in Owned("app") : Path(i) = Path(j) => i = j
  <2> SUFFICES ASSUME NEW i \in Owned("app"), NEW j \in Owned("app"), Path(i) = Path(j)
               PROVE  i = j
    OBVIOUS
  <2>1. i - Len(Base) \in 1..Len(app) /\ j - Len(Base) \in 1..Len(app)
    BY <1>4, <1>7
  <2>2. /\ app[i - Len(Base)].table = app[j - Len(Base)].table
        /\ app[i - Len(Base)].name = app[j - Len(Base)].name
    BY <1>4, <1>7 DEF Path
  <2>3. i - Len(Base) = j - Len(Base)
    BY <2>1, <2>2, <1>8
  <2> QED
    BY <2>3, <1>3, <1>4, <1>7
<1> QED
  BY <1>3, <1>4, <1>5, <1>7, <1>9, <1>10 DEF Fields

(* Every field belongs to one of the two owners.                            *)
LEMMA Owners ==
  ASSUME fields \in {Base \o app : app \in Apps}
  PROVE  Fields = Owned("base") \cup Owned("app")
BY Layout

(* Once no name is reserved, a path names one field.                        *)
LEMMA PathsAreUnique ==
  ASSUME fields \in {Base \o app : app \in Apps}, Shadowing = {},
         NEW i \in Fields, NEW j \in Fields, Path(i) = Path(j)
  PROVE  i = j
<1>1. \A k \in Owned("base"), l \in Owned("app") : Path(k) # Path(l)
  <2> SUFFICES ASSUME NEW k \in Owned("base"), NEW l \in Owned("app"), Path(k) = Path(l)
               PROVE  FALSE
    OBVIOUS
  <2>1. fields[k].table = TopLevel /\ fields[k].name \in Reserved
    BY Layout DEF IsField
  <2>2. fields[l].table = TopLevel /\ fields[l].name \in Reserved
    BY <2>1 DEF Path
  <2>3. TopName(l) \in Reserved
    BY <2>2 DEF TopName
  <2> QED
    BY <2>3 DEF Shadowing
<1> QED
  BY <1>1, Owners, Layout

-------------------------------------------------------------------------------
THEOREM Initialised == Init => Inv
<1> SUFFICES ASSUME Init PROVE Inv
  OBVIOUS
<1>1. InputsOK
  BY DEF Init, InputsOK
<1>2. ResultOK
  <2>1. Len(sources) = 0 /\ sources \in Seq(Entries)
    BY DEF Init
  <2>2. Len(fields) \in Nat
    BY Layout DEF Init
  <2> QED
    BY <2>1, <2>2 DEF Init, ResultOK, Stages
<1>3. StagesOK
  BY DEF Init, StagesOK, Behind, Stages
<1>4. BlamedFieldIsAtFault
  BY DEF Init, BlamedFieldIsAtFault
<1> QED
  BY <1>1, <1>2, <1>3, <1>4 DEF Inv

-------------------------------------------------------------------------------
(* Every step leaves the inputs alone, and what is read off them.           *)
LEMMA InputsStay ==
  ASSUME Inv, UNCHANGED inputs
  PROVE  /\ InputsOK'
         /\ Fields' = Fields
         /\ \A i : Path(i)' = Path(i) /\ Winner(i)' = Winner(i)
         /\ Entries' = Entries
BY DEF Inv, InputsOK, inputs, Fields, Tables, Path, Winner, Entries

(* A stage that ends without an error.                                      *)
LEMMA GotoKeeps ==
  ASSUME Inv, NEW to \in Stages, Goto(to), StagesOK'
  PROVE  Inv'
<1>1. UNCHANGED <<inputs, sources, outcome>> /\ pc' = to
  BY DEF Goto
<1>2. ResultOK'
  BY <1>1, InputsStay DEF Inv, ResultOK, MergedOK, inputs
<1>3. BlamedFieldIsAtFault'
  BY <1>1 DEF Inv, BlamedFieldIsAtFault, Reference!AtFault, Owned, Fields, TopName,
       Reference!TopName, Reference!Provides, inputs
<1> QED
  BY <1>1, <1>2, <1>3, InputsStay DEF Inv

(* A stage that ends with an error about the field at fault.                *)
LEMMA FailKeeps ==
  ASSUME Inv, NEW error \in Errors, NEW i \in Fields, Fail(error, i), Reference!AtFault(error, i)
  PROVE  Inv'
<1>1. /\ UNCHANGED <<inputs, sources>> /\ pc' = "done"
      /\ outcome' = [error |-> error, field |-> i]
  BY DEF Fail
<1>2. outcome'.error = error /\ outcome'.field = i /\ error # "none"
  BY <1>1 DEF Errors
<1>3. ResultOK'
  <2>1. outcome' \in [error: Errors \cup {"none"}, field: {0} \cup Fields]
    BY <1>1
  <2> QED
    BY <1>1, <2>1, InputsStay DEF Inv, ResultOK, MergedOK, inputs, Stages
<1>4. StagesOK'
  BY <1>1, <1>2 DEF StagesOK, Behind, Stages
<1>5. Reference!AtFault(error, i)'
  BY <1>1 DEF Reference!AtFault, Owned, Fields, TopName,
       Reference!TopName, Reference!Provides, inputs
<1>6. BlamedFieldIsAtFault'
  BY <1>2, <1>5, <1>1, InputsStay DEF BlamedFieldIsAtFault, Reference!AtFault, Owned,
     TopName, Reference!TopName, Reference!Provides
<1> QED
  BY <1>1, <1>3, <1>4, <1>6, InputsStay DEF Inv

(* The push of the next field to merge.                                     *)
LEMMA RecordKeeps ==
  ASSUME Inv, NEW i \in Fields, i = Len(sources) + 1, Record(i),
         \/ pc = "baseMerge" /\ i \in Owned("base")
         \/ pc = "appMerge" /\ i \in Owned("app"),
         Winner(i) = "unset" => fields[i].kind = "optional",
         Winner(i) = "env" => env[i] # "unknown",
         Winner(i) = "file" => file[i] # "unknown"
  PROVE  Inv'
<1> DEFINE entry == [path |-> Path(i), source |-> Winner(i)]
<1>1. UNCHANGED <<inputs, pc, outcome>> /\ sources' = Append(sources, entry)
  BY DEF Record
<1>2. sources \in Seq(Entries) /\ fields \in {Base \o app : app \in Apps}
  BY DEF Inv, ResultOK, InputsOK
<1>3. entry \in Entries
  BY DEF Entries, Winner
<1>4. /\ sources' \in Seq(Entries) /\ Len(sources') = i
      /\ \A k \in 1..Len(sources) : sources'[k] = sources[k]
      /\ sources'[i] = entry
  BY <1>1, <1>2, <1>3
<1>5. /\ Len(fields) \in Nat /\ Len(Base) \in Nat /\ Fields = 1..Len(fields)
      /\ Owned("base") = 1..Len(Base)
      /\ Owned("app") = (Len(Base) + 1)..Len(fields)
  BY <1>2, Layout
<1>6. ResultOK'
  <2>1. \A k \in 1..Len(sources') : MergedOK(k)'
    <3> SUFFICES ASSUME NEW k \in 1..Len(sources') PROVE MergedOK(k)'
      OBVIOUS
    <3>1. CASE k = i
      BY <3>1, <1>1, <1>4, InputsStay DEF MergedOK, inputs
    <3>2. CASE k # i
      <4>1. k \in 1..Len(sources)
        BY <3>2, <1>4, <1>2
      <4> QED
        BY <4>1, <1>1, <1>4, InputsStay DEF MergedOK, inputs, Inv, ResultOK
    <3> QED
      BY <3>1, <3>2
  <2>2. Len(sources') <= Len(fields')
    BY <1>1, <1>4, <1>5 DEF inputs
  <2> QED
    BY <2>1, <2>2, <1>1, <1>4, InputsStay DEF Inv, ResultOK
<1>7. StagesOK'
  <2>1. pc = "baseMerge" => Len(sources') <= Len(Base)
    BY <1>4, <1>5
  <2>2. pc = "appMerge" => Len(sources') >= Len(Base)
    BY <1>4, <1>5
  <2> QED
    BY <2>1, <2>2, <1>1
    DEF Inv, StagesOK, Behind, Shadowing, Malformed, Owned, Fields, TopName, inputs
<1>8. BlamedFieldIsAtFault'
  BY <1>1 DEF Inv, BlamedFieldIsAtFault, Reference!AtFault, Owned, Fields, TopName,
       Reference!TopName, Reference!Provides, inputs
<1> QED
  BY <1>1, <1>6, <1>7, <1>8, InputsStay DEF Inv

-------------------------------------------------------------------------------
(* The stages one by one. First what a stage that ends well has settled.    *)
LEMMA SettledStays ==
  ASSUME Inv, UNCHANGED <<inputs, sources, outcome>>
  PROVE  /\ Shadowing' = Shadowing
         /\ \A owner : Malformed(file, owner)' = Malformed(file, owner)
         /\ \A owner : Malformed(env, owner)' = Malformed(env, owner)
BY DEF Shadowing, Malformed, Owned, Fields, TopName, inputs

LEMMA CheckReservedKeeps ==
  ASSUME Inv, CheckReserved
  PROVE  Inv'
<1>1. CASE \E i \in Shadowing : Fail("ReservedField", i)
  <2>1. PICK i \in Shadowing : Fail("ReservedField", i)
    BY <1>1
  <2>2. i \in Fields /\ Reference!AtFault("ReservedField", i)
    BY DEF Shadowing, Owned, TopName, Fields, Reference!AtFault, Reference!TopName
  <2> QED
    BY <2>1, <2>2, FailKeeps DEF Errors
<1>2. CASE Shadowing = {} /\ Goto("file")
  <2>1. UNCHANGED <<inputs, sources, outcome>> /\ pc' = "file" /\ pc = "reserved"
    BY <1>2 DEF Goto, CheckReserved
  <2>2. StagesOK'
    BY <2>1, <1>2, SettledStays DEF Inv, StagesOK, Behind, Stages
  <2> QED
    BY <1>2, <2>2, GotoKeeps DEF Stages
<1> QED
  BY <1>1, <1>2 DEF CheckReserved

LEMMA ReadFileKeeps ==
  ASSUME Inv, ReadFile
  PROVE  Inv'
<1>1. CASE \E owner \in {"base", "app"} : \E i \in Malformed(file, owner) : Fail("File", i)
  <2>1. PICK owner \in {"base", "app"} : \E i \in Malformed(file, owner) : Fail("File", i)
    BY <1>1
  <2>2. PICK i \in Malformed(file, owner) : Fail("File", i)
    BY <2>1
  <2>3. i \in Fields /\ Reference!AtFault("File", i)
    BY DEF Malformed, Owned, Reference!AtFault
  <2> QED
    BY <2>2, <2>3, FailKeeps DEF Errors
<1>2. CASE Malformed(file, "base") \cup Malformed(file, "app") = {} /\ Goto("baseEnv")
  <2>1. UNCHANGED <<inputs, sources, outcome>> /\ pc' = "baseEnv" /\ pc = "file"
    BY <1>2 DEF Goto, ReadFile
  <2>2. Malformed(file, "base") = {} /\ Malformed(file, "app") = {}
    BY <1>2
  <2>3. StagesOK'
    BY <2>1, <2>2, SettledStays DEF Inv, StagesOK, Behind, Stages
  <2> QED
    BY <1>2, <2>3, GotoKeeps DEF Stages
<1> QED
  BY <1>1, <1>2 DEF ReadFile

(* A variable that does not parse ends from_env of either layer.            *)
LEMMA ReadEnvFails ==
  ASSUME Inv, NEW owner, NEW i \in Malformed(env, owner), Fail("InvalidEnv", i)
  PROVE  Inv'
<1>1. i \in Fields /\ Reference!AtFault("InvalidEnv", i)
  BY DEF Malformed, Owned, Reference!AtFault
<1> QED
  BY <1>1, FailKeeps DEF Errors

LEMMA ReadBaseEnvKeeps ==
  ASSUME Inv, ReadBaseEnv
  PROVE  Inv'
<1>1. CASE \E i \in Malformed(env, "base") : Fail("InvalidEnv", i)
  BY <1>1, ReadEnvFails
<1>2. CASE Malformed(env, "base") = {} /\ Goto("baseMerge")
  <2>1. UNCHANGED <<inputs, sources, outcome>> /\ pc' = "baseMerge" /\ pc = "baseEnv"
    BY <1>2 DEF Goto, ReadBaseEnv
  <2>2. Len(sources') <= Len(Base)
    <3>1. Len(Base) \in Nat
      BY Layout DEF Inv, InputsOK
    <3> QED
      BY <2>1, <3>1 DEF Inv, StagesOK
  <2>3. StagesOK'
    BY <2>1, <2>2, <1>2, SettledStays DEF Inv, StagesOK, Behind, Stages
  <2> QED
    BY <1>2, <2>3, GotoKeeps DEF Stages
<1> QED
  BY <1>1, <1>2 DEF ReadBaseEnv, ReadEnv

LEMMA ReadAppEnvKeeps ==
  ASSUME Inv, ReadAppEnv
  PROVE  Inv'
<1>1. CASE \E i \in Malformed(env, "app") : Fail("InvalidEnv", i)
  BY <1>1, ReadEnvFails
<1>2. CASE Malformed(env, "app") = {} /\ Goto("appMerge")
  <2>1. UNCHANGED <<inputs, sources, outcome>> /\ pc' = "appMerge" /\ pc = "appEnv"
    BY <1>2 DEF Goto, ReadAppEnv
  <2>2. Len(sources') >= Len(Base)
    <3>1. Len(Base) \in Nat
      BY Layout DEF Inv, InputsOK
    <3> QED
      BY <2>1, <3>1 DEF Inv, StagesOK
  <2>3. StagesOK'
    BY <2>1, <2>2, <1>2, SettledStays DEF Inv, StagesOK, Behind, Stages
  <2> QED
    BY <1>2, <2>3, GotoKeeps DEF Stages
<1> QED
  BY <1>1, <1>2 DEF ReadAppEnv, ReadEnv

(* Merging the next field: an error about it, or its push.                  *)
LEMMA MergeKeeps ==
  ASSUME Inv, NEW i \in Fields, i = Len(sources) + 1, Merge(i),
         \/ pc = "baseMerge" /\ i \in Owned("base")
         \/ pc = "appMerge" /\ i \in Owned("app")
  PROVE  Inv'
<1>1. /\ env[i] = "unknown" => fields[i].kind = "environment"
      /\ file[i] = "unknown" => fields[i].kind = "environment"
  BY DEF Inv, InputsOK
<1>2. fields \in {Base \o app : app \in Apps}
  BY DEF Inv, InputsOK
<1>3. CASE MergeRequired(i)
  <2>1. CASE Winner(i) = "unset" /\ Fail("MissingValue", i)
    <3>1. Reference!AtFault("MissingValue", i)
      BY <1>3, <2>1 DEF Reference!AtFault, MergeRequired, Winner, Reference!Provides
    <3> QED
      BY <2>1, <3>1, FailKeeps DEF Errors
  <2>2. CASE Winner(i) # "unset" /\ Record(i)
    BY <1>1, <1>3, <2>2, RecordKeeps DEF MergeRequired
  <2> QED
    BY <1>3, <2>1, <2>2 DEF MergeRequired
<1>4. CASE MergeOptional(i)
  BY <1>1, <1>4, RecordKeeps DEF MergeOptional
<1>5. CASE MergeEnvironment(i)
  <2>1. CASE Winner(i) = "env" /\ env[i] = "unknown" /\ Fail("InvalidEnv", i)
    <3>1. Reference!AtFault("InvalidEnv", i)
      BY <2>1 DEF Reference!AtFault
    <3> QED
      BY <2>1, <3>1, FailKeeps DEF Errors
  <2>2. CASE Winner(i) = "file" /\ file[i] = "unknown" /\ Fail("UnknownEnvironment", i)
    <3>1. Reference!AtFault("UnknownEnvironment", i)
      BY <2>2 DEF Reference!AtFault, Winner
    <3> QED
      BY <2>2, <3>1, FailKeeps DEF Errors
  <2>3. CASE /\ Winner(i) = "env" => env[i] # "unknown"
             /\ Winner(i) = "file" => file[i] # "unknown"
             /\ Record(i)
    <3>1. fields[i].default
      <4>1. fields[i].kind = "environment"
        BY <1>5 DEF MergeEnvironment
      <4>2. i \in Owned("base")
        BY <1>2, <4>1, Layout, Owners DEF IsField
      <4> QED
        BY <1>2, <4>1, <4>2, Layout DEF IsField
    <3>2. Winner(i) # "unset"
      BY <3>1 DEF Winner
    <3> QED
      BY <2>3, <3>2, RecordKeeps
  <2> QED
    BY <1>5, <2>1, <2>2, <2>3 DEF MergeEnvironment
<1> QED
  BY <1>3, <1>4, <1>5 DEF Merge

LEMMA MergeBaseKeeps ==
  ASSUME Inv, MergeBase
  PROVE  Inv'
<1>1. CASE Len(sources) + 1 \in Owned("base") /\ Merge(Len(sources) + 1)
  <2>1. Len(sources) + 1 \in Fields /\ pc = "baseMerge"
    BY <1>1 DEF Owned, MergeBase
  <2> QED
    BY <1>1, <2>1, MergeKeeps
<1>2. CASE Len(sources) + 1 \notin Owned("base") /\ Goto("appEnv")
  <2>1. UNCHANGED <<inputs, sources, outcome>> /\ pc' = "appEnv" /\ pc = "baseMerge"
    BY <1>2 DEF Goto, MergeBase
  <2>2. Len(sources') = Len(Base)
    <3>1. Len(Base) \in Nat /\ Owned("base") = 1..Len(Base)
      BY Layout DEF Inv, InputsOK
    <3>2. Len(sources) \in Nat /\ Len(sources) <= Len(Base)
      BY <2>1 DEF Inv, ResultOK, StagesOK
    <3> QED
      BY <1>2, <2>1, <3>1, <3>2
  <2>3. StagesOK'
    BY <2>1, <2>2, SettledStays DEF Inv, StagesOK, Behind, Stages
  <2> QED
    BY <1>2, <2>3, GotoKeeps DEF Stages
<1> QED
  BY <1>1, <1>2 DEF MergeBase, MergeFields

LEMMA MergeAppKeeps ==
  ASSUME Inv, MergeApp
  PROVE  Inv'
<1>1. CASE Len(sources) + 1 \in Owned("app") /\ Merge(Len(sources) + 1)
  <2>1. Len(sources) + 1 \in Fields /\ pc = "appMerge"
    BY <1>1 DEF Owned, MergeApp
  <2> QED
    BY <1>1, <2>1, MergeKeeps
<1>2. CASE Len(sources) + 1 \notin Owned("app") /\ Goto("done")
  <2>1. UNCHANGED <<inputs, sources, outcome>> /\ pc' = "done" /\ pc = "appMerge"
    BY <1>2 DEF Goto, MergeApp
  <2>2. Len(sources') = Len(fields')
    <3>1. /\ Len(Base) \in Nat /\ Len(fields) \in Nat
          /\ Owned("app") = (Len(Base) + 1)..Len(fields)
      BY Layout DEF Inv, InputsOK
    <3>2. /\ Len(sources) \in Nat /\ Len(sources) >= Len(Base)
          /\ Len(sources) <= Len(fields)
      BY <2>1 DEF Inv, ResultOK, StagesOK
    <3> QED
      BY <1>2, <2>1, <3>1, <3>2 DEF inputs
  <2>3. StagesOK'
    BY <2>1, <2>2, SettledStays DEF Inv, StagesOK, Behind, Stages
  <2> QED
    BY <1>2, <2>3, GotoKeeps DEF Stages
<1> QED
  BY <1>1, <1>2 DEF MergeApp, MergeFields

(* Every step of parse keeps the invariant.                                 *)
LEMMA Inductive == Inv /\ [Next]_vars => Inv'
<1> SUFFICES ASSUME Inv, [Next]_vars PROVE Inv'
  OBVIOUS
<1>1. CASE UNCHANGED vars
  <2>1. UNCHANGED <<inputs, pc, sources, outcome>>
    BY <1>1 DEF vars
  <2>2. ResultOK'
    BY <2>1, InputsStay DEF Inv, ResultOK, MergedOK, inputs
  <2>3. StagesOK'
    BY <2>1, SettledStays DEF Inv, StagesOK, Behind, inputs
  <2>4. BlamedFieldIsAtFault'
    BY <2>1 DEF Inv, BlamedFieldIsAtFault, Reference!AtFault, Owned, Fields, TopName,
       Reference!TopName, Reference!Provides, inputs
  <2> QED
    BY <2>1, <2>2, <2>3, <2>4, InputsStay DEF Inv
<1>2. CASE Next
  BY <1>1, <1>2, CheckReservedKeeps, ReadFileKeeps, ReadBaseEnvKeeps, MergeBaseKeeps,
     ReadAppEnvKeeps, MergeAppKeeps DEF Next, Finished
<1> QED
  BY <1>1, <1>2

(* Each stage of parse finds what the stages before it promised: Inv holds  *)
(* in every reachable state.                                                *)
THEOREM Invariance == Spec => []Inv
<1>1. Init => Inv
  BY Initialised
<1>2. Inv /\ [Next]_vars => Inv'
  BY Inductive
<1> QED
  BY <1>1, <1>2, PTL DEF Spec

-------------------------------------------------------------------------------
(* The variables have their types.                                          *)
THEOREM TypeCorrect == Spec => []TypeOK
<1>1. Inv => TypeOK
  BY DEF Inv, InputsOK, ResultOK, TypeOK, Entries, Errors, Stages
<1> QED
  BY <1>1, Invariance, PTL

(* Environment over file over default, for every field that is merged, and  *)
(* the provenance tells which.                                              *)
THEOREM PrecedenceHolds == Spec => []HighestLayerWins
<1>1. Inv => HighestLayerWins
  <2> SUFFICES ASSUME Inv, NEW i \in 1..Len(sources)
               PROVE  /\ sources[i].path = Path(i)
                      /\ \E k \in 1..4 :
                           /\ sources[i].source = Reference!Layers[k]
                           /\ Reference!Provides(Reference!Layers[k], i)
                           /\ \A m \in 1..(k - 1) : ~Reference!Provides(Reference!Layers[m], i)
    BY DEF HighestLayerWins
  <2>1. MergedOK(i)
    BY DEF Inv, ResultOK
  <2>2. Reference!Layers[1] = "env" /\ Reference!Layers[2] = "file" /\ Reference!Layers[3] = "default" /\ Reference!Layers[4] = "unset"
    BY DEF Reference!Layers
  <2>3. CASE Winner(i) = "env"
    <3>1. Reference!Provides("env", i)
      BY <2>3 DEF Winner, Reference!Provides
    <3> QED
      BY <2>1, <2>2, <2>3, <3>1 DEF MergedOK
  <2>4. CASE Winner(i) = "file"
    <3>1. Reference!Provides("file", i) /\ ~Reference!Provides("env", i)
      BY <2>4 DEF Winner, Reference!Provides
    <3> QED
      BY <2>1, <2>2, <2>4, <3>1 DEF MergedOK
  <2>5. CASE Winner(i) = "default"
    <3>1. Reference!Provides("default", i) /\ ~Reference!Provides("env", i) /\ ~Reference!Provides("file", i)
      BY <2>5 DEF Winner, Reference!Provides
    <3> QED
      BY <2>1, <2>2, <2>5, <3>1 DEF MergedOK
  <2>6. CASE Winner(i) = "unset"
    <3>1. /\ Reference!Provides("unset", i)
          /\ ~Reference!Provides("env", i) /\ ~Reference!Provides("file", i) /\ ~Reference!Provides("default", i)
      BY <2>1, <2>6 DEF Winner, Reference!Provides, MergedOK
    <3> QED
      BY <2>1, <2>2, <2>6, <3>1 DEF MergedOK
  <2> QED
    BY <2>3, <2>4, <2>5, <2>6 DEF Winner
<1> QED
  BY <1>1, Invariance, PTL

(* A configuration has one provenance entry per field, and no two fields    *)
(* share a path: the check of reserved names is enough to keep the          *)
(* application's keys apart from the base fields'.                          *)
THEOREM ProvenanceIsComplete == Spec => []EveryFieldIsTraced
<1>1. Inv => EveryFieldIsTraced
  <2> SUFFICES ASSUME Inv, pc = "done", outcome.error = "none"
               PROVE  /\ Len(sources) = Len(fields)
                      /\ \A i, j \in Fields : i # j => sources[i].path # sources[j].path
    BY DEF EveryFieldIsTraced
  <2>1. Len(sources) = Len(fields) /\ Shadowing = {}
    BY DEF Inv, StagesOK, Behind
  <2>2. Fields = 1..Len(fields) /\ fields \in {Base \o app : app \in Apps}
    BY Layout DEF Inv, InputsOK
  <2>3. \A i \in Fields : sources[i].path = Path(i)
    BY <2>1, <2>2 DEF Inv, ResultOK, MergedOK
  <2>4. ASSUME NEW i \in Fields, NEW j \in Fields, i # j
        PROVE  sources[i].path # sources[j].path
    <3>1. Path(i) # Path(j)
      BY <2>1, <2>2, <2>4, PathsAreUnique
    <3> QED
      BY <2>3, <3>1
  <2> QED
    BY <2>1, <2>4
<1> QED
  BY <1>1, Invariance, PTL

(* What a configuration that is returned says about each of its fields.     *)
LEMMA ReturnedIsSound ==
  ASSUME Inv, pc = "done", outcome.error = "none", NEW i \in Fields
  PROVE  /\ MergedOK(i)
         /\ file[i] # "malformed" /\ env[i] # "malformed"
         /\ i \in Owned("app") => TopName(i) \notin Reserved
<1>1. /\ Len(sources) = Len(fields)
      /\ Shadowing = {}
      /\ \A owner \in {"base", "app"} : Malformed(file, owner) = {} /\ Malformed(env, owner) = {}
  BY DEF Inv, StagesOK, Behind
<1>2. Fields = 1..Len(fields) /\ \E owner \in {"base", "app"} : i \in Owned(owner)
  BY Layout, Owners DEF Inv, InputsOK
<1>3. MergedOK(i)
  BY <1>1, <1>2 DEF Inv, ResultOK
<1> QED
  BY <1>1, <1>2, <1>3 DEF Malformed, Shadowing

(* No field of a configuration that is returned is at fault.                *)
LEMMA ReturnedIsLoadable ==
  ASSUME Inv, pc = "done", outcome.error = "none"
  PROVE  Reference!Loadable
<1> SUFFICES ASSUME NEW error \in Reference!Errors, NEW i \in Fields
             PROVE  ~Reference!AtFault(error, i)
  BY DEF Reference!Loadable, Reference!Fields, Fields
<1>1. /\ MergedOK(i)
      /\ file[i] # "malformed" /\ env[i] # "malformed"
      /\ i \in Owned("app") => TopName(i) \notin Reserved
  BY ReturnedIsSound
<1>2. ~Reference!AtFault("ReservedField", i)
  BY <1>1 DEF Reference!AtFault, Reference!TopName, TopName, Owned
<1>3. env[i] # "unknown" /\ (file[i] = "unknown" => env[i] # "absent")
  BY <1>1 DEF MergedOK, Winner
<1>4. /\ ~Reference!AtFault("File", i)
      /\ ~Reference!AtFault("InvalidEnv", i)
      /\ ~Reference!AtFault("UnknownEnvironment", i)
  BY <1>1, <1>3 DEF Reference!AtFault
<1>5. ~Reference!AtFault("MissingValue", i)
  BY <1>1 DEF Reference!AtFault, Reference!Provides, MergedOK, Winner
<1> QED
  BY <1>2, <1>4, <1>5 DEF Reference!Errors

(* Where some layer has a value, or the field can do without, the layer the *)
(* merge takes is the highest one.                                          *)
LEMMA WinnerIsHighest ==
  ASSUME NEW i \in Fields, Winner(i) = "unset" => fields[i].kind = "optional"
  PROVE  Reference!Highest(i) = Winner(i)
<1> DEFINE First(k) == /\ Reference!Provides(Reference!Layers[k], i)
                       /\ \A m \in 1..(k - 1) : ~Reference!Provides(Reference!Layers[m], i)
<1>1. /\ Reference!Layers[1] = "env" /\ Reference!Layers[2] = "file"
      /\ Reference!Layers[3] = "default" /\ Reference!Layers[4] = "unset"
  BY DEF Reference!Layers
<1>2. ASSUME NEW k \in 1..4, NEW l \in 1..4, First(k), First(l) PROVE k = l
  <2>1. ~(k < l) /\ ~(l < k)
    BY <1>2
  <2> QED
    BY <2>1
<1>3. ASSUME NEW k \in 1..4, First(k)
      PROVE  Reference!Highest(i) = Reference!Layers[k]
  <2>1. (CHOOSE m \in 1..4 : First(m)) = k
    BY <1>2, <1>3
  <2> QED
    BY <2>1 DEF Reference!Highest
<1>4. CASE Winner(i) = "env"
  <2>1. First(1)
    BY <1>1, <1>4 DEF Winner, Reference!Provides
  <2> QED
    BY <2>1, <1>1, <1>3, <1>4
<1>5. CASE Winner(i) = "file"
  <2>1. Reference!Provides("file", i) /\ ~Reference!Provides("env", i)
    BY <1>5 DEF Winner, Reference!Provides
  <2>2. First(2)
    BY <2>1, <1>1
  <2> QED
    BY <2>2, <1>1, <1>3, <1>5
<1>6. CASE Winner(i) = "default"
  <2>1. /\ Reference!Provides("default", i)
        /\ ~Reference!Provides("env", i) /\ ~Reference!Provides("file", i)
    BY <1>6 DEF Winner, Reference!Provides
  <2>2. First(3)
    BY <2>1, <1>1
  <2> QED
    BY <2>2, <1>1, <1>3, <1>6
<1>7. CASE Winner(i) = "unset"
  <2>1. /\ Reference!Provides("unset", i) /\ ~Reference!Provides("env", i)
        /\ ~Reference!Provides("file", i) /\ ~Reference!Provides("default", i)
    BY <1>7 DEF Winner, Reference!Provides
  <2>2. First(4)
    BY <2>1, <1>1
  <2> QED
    BY <2>2, <1>1, <1>3, <1>7
<1> QED
  BY <1>4, <1>5, <1>6, <1>7 DEF Winner

-------------------------------------------------------------------------------
(* parse implements Resolution. *)

(* What a parse that is through leaves, in Resolution's terms.              *)
Through ==
  pc = "done" =>
    /\ outcome.error = "none" =>
         /\ Reference!Loadable
         /\ \A i, j \in Fields : i # j => Path(i) # Path(j)
         /\ sources = [i \in Fields |-> [path |-> Path(i), source |-> Reference!Highest(i)]]
    /\ outcome.error # "none" =>
         /\ outcome.error \in Reference!Errors
         /\ outcome.field \in Fields
         /\ Reference!AtFault(outcome.error, outcome.field)

LEMMA InvThrough == Inv => Through
<1> SUFFICES ASSUME Inv, pc = "done" PROVE Through
  BY DEF Through
<1>1. ASSUME outcome.error = "none" PROVE Reference!Loadable
  BY <1>1, ReturnedIsLoadable
<1>2. ASSUME outcome.error = "none", NEW i \in Fields, NEW j \in Fields, i # j
      PROVE  Path(i) # Path(j)
  <2>1. Shadowing = {}
    BY <1>2 DEF Inv, StagesOK, Behind
  <2> QED
    BY <1>2, <2>1, PathsAreUnique DEF Inv, InputsOK
<1>3. ASSUME outcome.error = "none"
      PROVE  sources = [i \in Fields |-> [path |-> Path(i), source |-> Reference!Highest(i)]]
  <2>1. DOMAIN sources = Fields /\ sources = [i \in DOMAIN sources |-> sources[i]]
    <3>1. Len(sources) = Len(fields) /\ sources \in Seq(Entries)
      BY <1>3 DEF Inv, StagesOK, Behind, ResultOK
    <3>2. Fields = 1..Len(fields)
      BY Layout DEF Inv, InputsOK
    <3> QED
      BY <3>1, <3>2
  <2>2. ASSUME NEW i \in Fields
        PROVE  sources[i] = [path |-> Path(i), source |-> Reference!Highest(i)]
    <3>1. MergedOK(i)
      BY <1>3, ReturnedIsSound
    <3>2. Reference!Highest(i) = Winner(i)
      BY <3>1, WinnerIsHighest DEF MergedOK
    <3>3. sources[i] \in Entries
      BY <2>1 DEF Inv, ResultOK
    <3> QED
      BY <3>1, <3>2, <3>3 DEF MergedOK, Entries
  <2> QED
    BY <2>1, <2>2
<1>4. ASSUME outcome.error # "none"
      PROVE  /\ outcome.error \in Reference!Errors
             /\ outcome.field \in Fields
             /\ Reference!AtFault(outcome.error, outcome.field)
  BY <1>4 DEF Inv, BlamedFieldIsAtFault, ResultOK, Errors, Reference!Errors
<1> QED
  BY <1>1, <1>2, <1>3, <1>4 DEF Through

(* The stages are the machine's own: parse answers once, and its inputs are *)
(* the caller's.                                                            *)
LEMMA StagesStutter ==
  ASSUME Inv, [Next]_vars
  PROVE  /\ UNCHANGED <<fields, env, file>>
         /\ pc = "done" => UNCHANGED <<pc, sources, outcome>>
<1>1. CASE UNCHANGED vars
  BY <1>1 DEF vars, inputs
<1>2. CASE CheckReserved \/ ReadFile \/ ReadBaseEnv \/ ReadAppEnv
  BY <1>2 DEF CheckReserved, ReadFile, ReadBaseEnv, ReadAppEnv, ReadEnv, Goto, Fail, inputs
<1>3. CASE MergeBase \/ MergeApp
  BY <1>3 DEF MergeBase, MergeApp, MergeFields, Merge, MergeRequired, MergeOptional,
              MergeEnvironment, Record, Goto, Fail, inputs
<1>4. CASE Finished
  BY <1>4 DEF Finished, vars, inputs
<1> QED
  BY <1>1, <1>2, <1>3, <1>4 DEF Next

LEMMA StepResolves ==
  ASSUME Inv, Through', [Next]_vars
  PROVE  [Reference!Next]_(Reference!vars)
<1> USE DEF Reference!vars, parsed
<1>1. UNCHANGED <<fields, env, file>>
  BY StagesStutter
<1>2. CASE pc = "done" \/ pc' # "done"
  BY <1>1, <1>2, StagesStutter
<1>3. CASE pc # "done" /\ pc' = "done" /\ outcome'.error = "none"
  <2>1. Reference!Loadable
    <3>1. Reference!Loadable'
      BY <1>3 DEF Through
    <3>2. ASSUME NEW error \in Reference!Errors, NEW i \in Fields
          PROVE  Reference!AtFault(error, i) => Reference!AtFault(error, i)'
      BY <1>1 DEF Reference!AtFault, Reference!Errors, Reference!TopName, Reference!Provides
    <3>3. Reference!Errors' = Reference!Errors /\ Fields' = Fields
      BY <1>1 DEF Reference!Errors, Fields
    <3> QED
      BY <3>1, <3>2, <3>3 DEF Reference!Loadable, Reference!Fields, Fields
  <2>2. \A i, j \in Fields : i # j => Path(i) # Path(j)
    BY <1>1, <1>3 DEF Through, Fields, Path
  <2>3. \A i : (Reference!Highest(i))' = Reference!Highest(i)
    BY <1>1 DEF Reference!Highest, Reference!Provides
  <2>4. sources' = [i \in Fields |-> [path |-> Path(i), source |-> Reference!Highest(i)]]
    BY <1>1, <1>3, <2>3 DEF Through, Fields, Path
  <2>5. Reference!Load
    BY <1>1, <1>3, <2>1, <2>2, <2>4 DEF Reference!Load, Reference!Loaded, Reference!Fields,
       Fields, Reference!Path, Path
  <2> QED
    BY <1>1, <1>3, <2>5 DEF Reference!Next, Reference!Pending
<1>4. CASE pc # "done" /\ pc' = "done" /\ outcome'.error # "none"
  <2> DEFINE error == outcome'.error
             i == outcome'.field
  <2>1. error \in Reference!Errors /\ i \in Fields
    BY <1>1, <1>4 DEF Through, Fields
  <2>2. Reference!AtFault(error, i)
    BY <1>1, <1>4 DEF Through, Reference!AtFault, Reference!TopName, Reference!Provides
  <2>3. Reference!Refuse
    BY <1>1, <1>4, <2>1, <2>2 DEF Reference!Refuse, Reference!Refused, Reference!Fields, Fields
  <2> QED
    BY <1>1, <1>4, <2>3 DEF Reference!Next, Reference!Pending
<1> QED
  BY <1>2, <1>3, <1>4

(* parse, with all its stages, is one step from its inputs to their         *)
(* configuration or to an error about a field that is at fault.             *)
THEOREM Refinement == Spec => ImplementsResolution
<1>1. Init => Reference!Init
  BY DEF Init, Reference!Init, Reference!Pending, parsed
<1>2. Inv /\ Through' /\ [Next]_vars => [Reference!Next]_(Reference!vars)
  BY StepResolves
<1> QED
  BY <1>1, <1>2, InvThrough, Invariance, PTL DEF Spec, ImplementsResolution, Reference!Spec

(* A file that loads has every key the schema requires: its keys are        *)
(* rejected for a stray one only.                                           *)
THEOREM SchemaIsNotTooStrict == Spec => []SchemaAsksOnlyTheNeeded
<1>1. ASSUME Inv, pc = "done", outcome.error = "none", NEW i \in Fields, SchemaRequires(i)
      PROVE  file[i] # "absent"
  <2>1. MergedOK(i)
    BY <1>1, ReturnedIsSound
  <2>2. fields[i].kind = "required" /\ ~fields[i].default /\ env[i] = "absent"
    <3>1. fields[i].owner = "app"
      BY <1>1, Owners DEF SchemaRequires, SchemaRequiresBase, Owned, Inv, InputsOK
    <3> QED
      BY <1>1, <3>1 DEF Inv, InputsOK, SchemaRequires
  <2> QED
    BY <2>1, <2>2 DEF MergedOK, Winner
<1>2. Inv => SchemaAsksOnlyTheNeeded
  BY <1>1 DEF SchemaAsksOnlyTheNeeded, SchemaAccepts, RequiredKeysAreThere,
              SchemaRequiresTable, Inv, InputsOK
<1> QED
  BY <1>2, Invariance, PTL

(* A load that fails for a value only the file can give, in a table that is *)
(* there, has a file that lacks a key the schema requires.                  *)
THEOREM SchemaIsStrictEnough == Spec => []SchemaAsksTheNeeded
<1>1. ASSUME Inv, MissingFromFile,
             fields[outcome.field].table \in tables \cup {TopLevel}
      PROVE  ~RequiredKeysAreThere
  <2> DEFINE i == outcome.field
  <2>1. outcome.error = "MissingValue" /\ ~fields[i].env
    BY <1>1 DEF MissingFromFile
  <2>2. i \in Fields /\ Reference!AtFault("MissingValue", i)
    BY <1>1, <2>1 DEF Inv, BlamedFieldIsAtFault
  <2>3. /\ fields[i].kind = "required" /\ ~fields[i].default /\ file[i] = "absent"
    BY <2>2 DEF Reference!AtFault, Reference!Provides
  <2>4. fields[i].owner = "app"
    <3>1. i \in Owned("base") => fields[i].env
      BY Layout, <1>1 DEF Inv, InputsOK, IsField
    <3>2. i \in Owned("app")
      BY <2>1, <2>2, <3>1, <1>1, Owners DEF Inv, InputsOK
    <3> QED
      BY <3>2 DEF Owned
  <2>5. SchemaRequires(i)
    BY <2>1, <2>3, <2>4 DEF SchemaRequires
  <2> QED
    BY <1>1, <2>2, <2>3, <2>5 DEF RequiredKeysAreThere
<1>2. Inv => SchemaAsksTheNeeded
  BY <1>1 DEF SchemaAsksTheNeeded
<1> QED
  BY <1>2, Invariance, PTL

===============================================================================
