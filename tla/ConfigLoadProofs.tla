---------------------------- MODULE ConfigLoadProofs ---------------------------
(***************************************************************************)
(* Safety of load_with, get and base for any loaders, types and paths.     *)
(***************************************************************************)
EXTENDS ConfigLoad, TLAPS

(* A loader past Resolve knows its file; one that was not named is Default.  *)
Resolved ==
  \A t \in Loaders :
    pc[t] \in {"resolved", "parsed"} =>
      /\ path[t] \in AllPaths
      /\ ~explicit[t] => path[t] = Default

(* It goes on without a file only from there.                                *)
Parsed ==
  \A t \in Loaders : pc[t] = "parsed" => found[t] \/ path[t] = Default

IInv == TypeOK /\ Resolved /\ Parsed /\ LoadedOnce /\ NamedFilesAreRead

USE DEF vars, shared, locals, results, AllPaths, Arguments, Goto, Stored

LEMMA TypeStep ==
  ASSUME IInv, [Next]_vars
  PROVE  TypeOK'
<1> USE DEF IInv, TypeOK
<1>1. ASSUME NEW t \in Loaders, Enter(t)
      PROVE  TypeOK'
  <2>1. calls' \in [Loaders -> 0..MaxCalls]
    BY <1>1, MaxCallsAssumption DEF Enter
  <2> QED
    BY <1>1, <2>1 DEF Enter, Panic
<1>2. ASSUME NEW t \in Loaders, Resolve(t)
      PROVE  TypeOK'
  BY <1>2 DEF Resolve
<1>3. ASSUME NEW t \in Loaders, Fail(t)
      PROVE  TypeOK'
  BY <1>3 DEF Fail
<1>4. ASSUME NEW t \in Loaders, Parse(t)
      PROVE  TypeOK'
  BY <1>4 DEF Parse
<1>5. ASSUME NEW t \in Loaders, Store(t)
      PROVE  TypeOK'
  <2>1. global' \in Stored \cup {Unset}
    BY <1>5 DEF Store, Resolved
  <2>2. /\ UNCHANGED <<configPath, configVar, dotenvVar, file, locals, seen, errorOf, calls>>
        /\ \/ pc' = [pc EXCEPT ![t] = "idle"] /\ outcome' = [outcome EXCEPT ![t] = "ok"]
           \/ Panic(t)
    BY <1>5 DEF Store
  <2> QED
    BY <2>1, <2>2 DEF Panic
<1>8. ASSUME NEW t \in Loaders, get(t) \/ base(t)
      PROVE  TypeOK'
  <2>1. PICK served \in BOOLEAN : Read(t, served) /\ (served => global # Unset)
    BY <1>8 DEF get, base
  <2> QED
    BY <2>1 DEF Read, Panic
<1>6. ASSUME NEW p \in AllPaths, ChangeFile(p)
      PROVE  TypeOK'
  BY <1>6 DEF ChangeFile
<1>7. CASE UNCHANGED vars
  BY <1>7
<1> QED
  BY <1>1, <1>2, <1>3, <1>4, <1>5, <1>6, <1>7, <1>8 DEF Next

LEMMA IInvInductive ==
  ASSUME IInv, [Next]_vars
  PROVE  IInv'
<1> TypeOK'
  BY TypeStep
<1> USE DefaultAssumption, UnsetAssumption DEF IInv, TypeOK, Resolved, Parsed, LoadedOnce,
        NamedFilesAreRead
<1>1. ASSUME NEW t \in Loaders, Enter(t)
      PROVE  IInv'
  BY <1>1 DEF Enter, Panic
<1>2. ASSUME NEW t \in Loaders, Resolve(t)
      PROVE  IInv'
  <2>1. PICK resolved \in AllPaths :
          /\ path' = [path EXCEPT ![t] = resolved]
          /\ resolved = Default \/ explicit'[t]
    <3>1. PICK arg \in Arguments :
            LET named == IF arg # Unset THEN arg ELSE configVar
                resolved == IF named # Unset THEN named ELSE Default
            IN  /\ path' = [path EXCEPT ![t] = resolved]
                /\ explicit' = [explicit EXCEPT ![t] = named # Unset]
      BY <1>2 DEF Resolve
    <3> DEFINE named == IF arg # Unset THEN arg ELSE configVar
               resolved == IF named # Unset THEN named ELSE Default
    <3>2. named \in Paths \cup {Unset}
      OBVIOUS
    <3>3. resolved \in AllPaths /\ (resolved = Default \/ named # Unset)
      BY <3>2
    <3>4. explicit'[t] = (named # Unset) /\ path' = [path EXCEPT ![t] = resolved]
      BY <3>1
    <3> QED
      BY <3>3, <3>4
  <2>2. Resolved'
    BY <1>2, <2>1 DEF Resolve
  <2>3. pc' = [pc EXCEPT ![t] = "resolved"] /\ UNCHANGED <<global, found, outcome, seen>>
    BY <1>2 DEF Resolve
  <2>4. Parsed'
    BY <2>1, <2>3
  <2>5. LoadedOnce' /\ NamedFilesAreRead'
    BY <2>3
  <2> QED
    BY <2>2, <2>4, <2>5
<1>3. ASSUME NEW t \in Loaders, Fail(t)
      PROVE  IInv'
  BY <1>3 DEF Fail
<1>4. ASSUME NEW t \in Loaders, Parse(t)
      PROVE  IInv'
  BY <1>4 DEF Parse
<1>5. ASSUME NEW t \in Loaders, Store(t)
      PROVE  IInv'
  <2>1. UNCHANGED locals /\ pc' \in {[pc EXCEPT ![t] = to] : to \in {"idle", "stopped"}}
    BY <1>5 DEF Store, Panic
  <2>2. Resolved' /\ Parsed'
    BY <2>1
  <2>3. CASE global = Unset
    <3>1. /\ \E T \in Types :
               global' = [by |-> t, type |-> T, path |-> path[t], fromFile |-> found[t]]
          /\ UNCHANGED seen
          /\ outcome' = [outcome EXCEPT ![t] = "ok"]
          /\ found[t] \/ path[t] = Default
      BY <1>5, <2>3 DEF Store
    <3>2. global' # Unset
      BY <3>1, <1>5 DEF Store
    <3>3. \A u \in Loaders : outcome[u] # "ok" /\ seen[u] = Unset
      BY <2>3
    <3>4. LoadedOnce'
      BY <3>1, <3>2, <3>3
    <3>5. NamedFilesAreRead'
      BY <3>1
    <3> QED
      BY <2>2, <3>4, <3>5
  <2>4. CASE global # Unset
    BY <1>5, <2>2, <2>4 DEF Store, Panic
  <2> QED
    BY <2>3, <2>4
<1>8. ASSUME NEW t \in Loaders, get(t) \/ base(t)
      PROVE  IInv'
  <2>1. PICK served \in BOOLEAN : Read(t, served)
    BY <1>8 DEF get, base
  <2> QED
    BY <2>1 DEF Read, Panic
<1>6. ASSUME NEW p \in AllPaths, ChangeFile(p)
      PROVE  IInv'
  BY <1>6 DEF ChangeFile
<1>7. CASE UNCHANGED vars
  BY <1>7
<1> QED
  BY <1>1, <1>2, <1>3, <1>4, <1>5, <1>6, <1>7, <1>8 DEF Next

THEOREM Invariance == Spec => []IInv
<1>1. Init => IInv
  BY MaxCallsAssumption
     DEF Init, IInv, TypeOK, Resolved, Parsed, LoadedOnce, NamedFilesAreRead
<1>2. IInv /\ [Next]_vars => IInv'
  BY IInvInductive
<1> QED
  BY <1>1, <1>2, PTL DEF Spec

(* The state of ConfigLoad is well-typed in every behaviour.                 *)
THEOREM TypeCorrect == Spec => []TypeOK
<1>1. IInv => TypeOK
  BY DEF IInv
<1> QED
  BY <1>1, Invariance, PTL

(* lib.rs:323-328: an Ok is served for ever, so only one loader ever has it. *)
THEOREM LoadsOnce == Spec => []LoadedOnce
<1>1. IInv => LoadedOnce
  BY DEF IInv
<1> QED
  BY <1>1, Invariance, PTL

(* lib.rs:338-341: a named file is never skipped.                            *)
THEOREM ReadsNamedFiles == Spec => []NamedFilesAreRead
<1>1. IInv => NamedFilesAreRead
  BY DEF IInv
<1> QED
  BY <1>1, Invariance, PTL

(* lib.rs:323: the slot, once set, is never written again.                   *)
THEOREM StaysFrozen == Spec => Frozen
<1>1. [Next]_vars => [global # Unset => global' = global]_vars
  BY DEF Next, Enter, Resolve, Fail, Parse, Store, get, base, Read, ChangeFile
<1> QED
  BY <1>1, PTL DEF Spec, Frozen

(* A loader alone past its first check owns CONFIG_PATH from Resolve on, and *)
(* whoever stored has resolved a path and never comes back to Resolve.       *)
OwnPath ==
  /\ global # Unset => path[global.by] # Unset
  /\ \A t \in Loaders :
       /\ pc[t] \in {"checked", "resolved", "parsed"} =>
            global = Unset \/ global.by # t
       /\ pc[t] \in {"resolved", "parsed"} /\ Alone(t) => configPath = path[t]

LEMMA OwnPathInductive ==
  ASSUME IInv, OwnPath, ProvenanceIsReal, [Next]_vars
  PROVE  (OwnPath /\ ProvenanceIsReal)'
<1> USE DefaultAssumption, UnsetAssumption DEF IInv, TypeOK, Resolved, Alone, OwnPath, ProvenanceIsReal, NamedFilesAreRead, config_path
<1>1. ASSUME NEW t \in Loaders, Enter(t)
      PROVE  (OwnPath /\ ProvenanceIsReal)'
  BY <1>1 DEF Enter, Panic
<1>2. ASSUME NEW t \in Loaders, Resolve(t)
      PROVE  (OwnPath /\ ProvenanceIsReal)'
  <2>1. PICK resolved \in AllPaths :
          /\ path' = [path EXCEPT ![t] = resolved]
          /\ configPath' = resolved
    BY <1>2 DEF Resolve
  <2>2. pc[t] = "checked" /\ pc' = [pc EXCEPT ![t] = "resolved"] /\ global' = global
    BY <1>2 DEF Resolve
  <2>3. resolved # Unset
    OBVIOUS
  <2>4. global # Unset => global.by \in Loaders
    OBVIOUS
  <2>5. OwnPath'
    BY <2>1, <2>2, <2>3, <2>4
  <2>6. ProvenanceIsReal'
    BY <2>1, <2>2, <2>3, <2>4
  <2> QED
    BY <2>5, <2>6
<1>3. ASSUME NEW t \in Loaders, Fail(t)
      PROVE  (OwnPath /\ ProvenanceIsReal)'
  BY <1>3 DEF Fail
<1>4. ASSUME NEW t \in Loaders, Parse(t)
      PROVE  (OwnPath /\ ProvenanceIsReal)'
  BY <1>4 DEF Parse
<1>5. ASSUME NEW t \in Loaders, Store(t)
      PROVE  (OwnPath /\ ProvenanceIsReal)'
  <2>1. path[t] # Unset /\ UNCHANGED <<configPath, path>>
    BY <1>5 DEF Store
  <2>2. CASE global = Unset
    <3>1. /\ global'.by = t /\ global'.path = path[t] /\ global' # Unset
          /\ global'.fromFile = found[t]
          /\ pc' = [pc EXCEPT ![t] = "idle"]
      BY <1>5, <2>2 DEF Store
    <3>2. OwnPath'
      BY <2>1, <3>1
    <3>3. found[t] \/ path[t] = Default
      BY <1>5 DEF Store, Parsed
    <3>4. \A u \in Loaders : Alone(u)' => u = t
      BY <2>1
    <3>5. Alone(t) => configPath = path[t]
      BY <1>5 DEF Store
    <3> QED
      BY <2>1, <3>1, <3>2, <3>3, <3>4, <3>5
  <2>3. CASE global # Unset
    BY <1>5, <2>3 DEF Store, Panic
  <2> QED
    BY <2>2, <2>3
<1>8. ASSUME NEW t \in Loaders, get(t) \/ base(t)
      PROVE  (OwnPath /\ ProvenanceIsReal)'
  <2>1. PICK served \in BOOLEAN : Read(t, served)
    BY <1>8 DEF get, base
  <2> QED
    BY <2>1 DEF Read, Panic
<1>6. ASSUME NEW p \in AllPaths, ChangeFile(p)
      PROVE  (OwnPath /\ ProvenanceIsReal)'
  BY <1>6 DEF ChangeFile
<1>7. CASE UNCHANGED vars
  BY <1>7
<1> QED
  BY <1>1, <1>2, <1>3, <1>4, <1>5, <1>6, <1>7, <1>8 DEF Next

(* config_file_env.rs:60: no failed and no refused load reaches the          *)
(* provenance of what one loader alone loaded.                               *)
THEOREM LoneProvenance == Spec => []ProvenanceIsReal
<1>1. Init => OwnPath /\ ProvenanceIsReal
  BY DEF Init, OwnPath, ProvenanceIsReal, NamedFilesAreRead
<1>2. IInv /\ OwnPath /\ ProvenanceIsReal /\ [Next]_vars
        => (OwnPath /\ ProvenanceIsReal)'
  BY OwnPathInductive
<1> QED
  BY <1>1, <1>2, Invariance, PTL DEF Spec

(* CONFIG_PATH is the path of the last one who resolved, so for ever that of *)
(* a loader nobody else came after; and until it resolves again, its error   *)
(* is about the file it resolved, or about none.                             *)
LastPath ==
  \A t \in Loaders :
    /\ path[t] # Unset /\ Alone(t) => configPath = path[t]
    /\ outcome[t] = "err" /\ pc[t] \in {"idle", "checked"} =>
         path[t] \in AllPaths /\ errorOf[t] \in {path[t], Unset}

LEMMA LastPathInductive ==
  ASSUME IInv, LastPath, [Next]_vars
  PROVE  LastPath'
<1> USE UnsetAssumption DEF IInv, TypeOK, Resolved, Alone, LastPath
<1>1. ASSUME NEW t \in Loaders, Enter(t)
      PROVE  LastPath'
  BY <1>1 DEF Enter, Panic
<1>2. ASSUME NEW t \in Loaders, Resolve(t)
      PROVE  LastPath'
  <2>1. PICK resolved \in AllPaths :
          /\ path' = [path EXCEPT ![t] = resolved]
          /\ configPath' = resolved
    BY <1>2 DEF Resolve
  <2>2. pc' = [pc EXCEPT ![t] = "resolved"] /\ UNCHANGED <<outcome, errorOf>>
    BY <1>2 DEF Resolve
  <2>3. resolved # Unset
    OBVIOUS
  <2> QED
    BY <2>1, <2>2, <2>3
<1>3. ASSUME NEW t \in Loaders, Fail(t)
      PROVE  LastPath'
  BY <1>3 DEF Fail
<1>4. ASSUME NEW t \in Loaders, Parse(t)
      PROVE  LastPath'
  BY <1>4 DEF Parse
<1>5. ASSUME NEW t \in Loaders, Store(t)
      PROVE  LastPath'
  <2>1. /\ UNCHANGED <<configPath, path, errorOf>>
        /\ \/ outcome' = [outcome EXCEPT ![t] = "ok"]
           \/ outcome' = [outcome EXCEPT ![t] = "panic"]
        /\ pc' \in {[pc EXCEPT ![t] = to] : to \in {"idle", "stopped"}}
    BY <1>5 DEF Store, Panic
  <2> QED
    BY <2>1
<1>6. ASSUME NEW t \in Loaders, get(t) \/ base(t)
      PROVE  LastPath'
  <2>1. PICK served \in BOOLEAN : Read(t, served)
    BY <1>6 DEF get, base
  <2> QED
    BY <2>1 DEF Read, Panic
<1>7. ASSUME NEW p \in AllPaths, ChangeFile(p)
      PROVE  LastPath'
  BY <1>7 DEF ChangeFile
<1>8. CASE UNCHANGED vars
  BY <1>8
<1> QED
  BY <1>1, <1>2, <1>3, <1>4, <1>5, <1>6, <1>7, <1>8 DEF Next

(* config_file_env.rs:35: an error shown before the next attempt names the   *)
(* file it is about, whichever attempts came before it.                      *)
THEOREM FreshErrors == Spec => []FreshErrorsNameTheirFile
<1>1. Init => LastPath
  BY DEF Init, LastPath
<1>2. IInv /\ LastPath /\ [Next]_vars => LastPath'
  BY LastPathInductive
<1>3. LastPath => FreshErrorsNameTheirFile
  BY UnsetAssumption DEF LastPath, FreshErrorsNameTheirFile, config_path
<1> QED
  BY <1>1, <1>2, <1>3, Invariance, PTL DEF Spec

-------------------------------------------------------------------------------
(* The cell that is written once. *)

Doing == [t \in Loaders |-> DoingAt[pc[t]]]

LEMMA DoingNames ==
  /\ DoingAt["idle"] = "idle"
  /\ DoingAt["checked"] = "loading"
  /\ DoingAt["resolved"] = "loading"
  /\ DoingAt["parsed"] = "loading"
  /\ DoingAt["stopped"] = "stopped"
BY DEF DoingAt

(* A loader that goes on in its load goes on loading.                        *)
LEMMA SameDoing ==
  ASSUME IInv, NEW t \in Loaders, NEW to, DoingAt[to] = DoingAt[pc[t]], Goto(t, to)
  PROVE  Doing' = Doing
BY DEF Doing, IInv, TypeOK

(* One that begins or ends has its turn in the cell.                         *)
LEMMA TakesTurn ==
  ASSUME IInv, NEW t \in Loaders, NEW to, Goto(t, to),
         NEW from, DoingAt[pc[t]] \in from
  PROVE  Cell!Turn(t, from, DoingAt[to])
<1>1. Doing' = [Doing EXCEPT ![t] = DoingAt[to]]
  BY DEF Doing, IInv, TypeOK
<1>2. Doing[t] = DoingAt[pc[t]]
  BY DEF Doing
<1> QED
  BY <1>1, <1>2 DEF Cell!Turn, Doing

LEMMA CellInit == Init => Cell!Init
BY DEF Init, Cell!Init, DoingAt

LEMMA StoreWrites ==
  ASSUME IInv, NEW t \in Loaders, Store(t)
  PROVE  Cell!Write(t) \/ Cell!Refuse(t)
<1>1. pc[t] = "parsed" /\ UNCHANGED seen
  BY DEF Store
<1>0. DoingAt[pc[t]] \in {"loading"} /\ DoingAt[pc[t]] \in {"idle", "loading"}
  BY <1>1, DoingNames
<1>2. CASE global = Unset
  <2>1. Cell!Turn(t, {"loading"}, DoingAt["idle"])
    <3>1. pc' = [pc EXCEPT ![t] = "idle"]
      BY <1>2 DEF Store
    <3> QED
      BY <1>0, <3>1, TakesTurn
  <2>2. Cell!End(t, "ok")
    BY <1>2 DEF Store, Cell!End
  <2>3. path[t] \in AllPaths /\ found[t] \in BOOLEAN /\ (found[t] \/ path[t] = Default)
    BY <1>1 DEF IInv, TypeOK, Resolved, Parsed
  <2>4. \E T \in Types :
          global' = [by |-> t, type |-> T, path |-> path[t], fromFile |-> found[t]]
    BY <1>2 DEF Store
  <2>5. \E T \in Types, p \in AllPaths, there \in BOOLEAN :
          /\ there \/ p = Default
          /\ global' = [by |-> t, type |-> T, path |-> p, fromFile |-> there]
    BY <2>3, <2>4
  <2> QED
    BY <1>1, <1>2, <2>1, <2>2, <2>5, DoingNames DEF Cell!Write
<1>3. CASE global # Unset
  <2>1. Panic(t) /\ UNCHANGED global
    BY <1>3 DEF Store
  <2>2. Cell!Turn(t, {"idle", "loading"}, DoingAt["stopped"])
    <3>1. pc' = [pc EXCEPT ![t] = "stopped"]
      BY <2>1 DEF Panic
    <3> QED
      BY <1>0, <3>1, TakesTurn
  <2> QED
    BY <1>1, <1>3, <2>1, <2>2, DoingNames DEF Panic, Cell!Refuse, Cell!End
<1> QED
  BY <1>2, <1>3

LEMMA EnterBegins ==
  ASSUME IInv, NEW t \in Loaders, Enter(t)
  PROVE  Cell!Begin(t) \/ Cell!Refuse(t)
<1>1. pc[t] = "idle" /\ UNCHANGED <<global, seen>>
  BY DEF Enter
<1>0. DoingAt[pc[t]] \in {"idle"} /\ DoingAt[pc[t]] \in {"idle", "loading"}
  BY <1>1, DoingNames
<1>2. CASE global = Unset
  <2>1. Cell!Turn(t, {"idle"}, DoingAt["checked"])
    <3>1. pc' = [pc EXCEPT ![t] = "checked"]
      BY <1>2 DEF Enter
    <3> QED
      BY <1>0, <3>1, TakesTurn
  <2>2. UNCHANGED outcome
    BY <1>2 DEF Enter
  <2> QED
    BY <1>1, <2>1, <2>2, DoingNames DEF Cell!Begin
<1>3. CASE global # Unset
  <2>1. Panic(t)
    BY <1>3 DEF Enter
  <2>2. Cell!Turn(t, {"idle", "loading"}, DoingAt["stopped"])
    <3>1. pc' = [pc EXCEPT ![t] = "stopped"]
      BY <2>1 DEF Panic
    <3> QED
      BY <1>0, <3>1, TakesTurn
  <2> QED
    BY <1>1, <1>3, <2>1, <2>2, DoingNames DEF Panic, Cell!Refuse, Cell!End
<1> QED
  BY <1>2, <1>3

LEMMA FailFails ==
  ASSUME IInv, NEW t \in Loaders, Fail(t)
  PROVE  Cell!Fail(t)
<1>1. /\ pc[t] = "resolved"
      /\ UNCHANGED <<global, seen>>
  BY DEF Fail
<1>2. DoingAt[pc[t]] \in {"loading"}
  BY <1>1, DoingNames
<1>3. Goto(t, "idle") /\ Cell!Turn(t, {"loading"}, DoingAt["idle"])
  <2>1. pc' = [pc EXCEPT ![t] = "idle"]
    BY DEF Fail
  <2> QED
    BY <1>2, <2>1, TakesTurn
<1> QED
  BY <1>1, <1>2, <1>3, DoingNames DEF Fail, Cell!Fail, Cell!End

LEMMA ReadReads ==
  ASSUME IInv, NEW t \in Loaders, NEW served \in BOOLEAN, Read(t, served),
         served => global # Unset,
         ~served => global = Unset \/ \E T \in Types : T # global.type
  PROVE  Cell!Read(t) \/ Cell!Miss(t)
<1>1. pc[t] = "idle" /\ UNCHANGED global
  BY DEF Read
<1>0. DoingAt[pc[t]] \in {"idle"}
  BY <1>1, DoingNames
<1>2. CASE served
  <2>1. /\ seen' = [seen EXCEPT ![t] = global]
        /\ UNCHANGED <<pc, outcome>>
    BY <1>2 DEF Read
  <2>2. Doing[t] = "idle" /\ Doing' = Doing
    BY <1>0, <2>1 DEF Doing
  <2> QED
    BY <1>1, <1>2, <2>1, <2>2 DEF Cell!Read, Doing
<1>3. CASE ~served
  <2>1. Panic(t) /\ UNCHANGED seen
    BY <1>3 DEF Read
  <2>2. Cell!Turn(t, {"idle"}, DoingAt["stopped"])
    <3>1. pc' = [pc EXCEPT ![t] = "stopped"]
      BY <2>1 DEF Panic
    <3> QED
      BY <1>0, <3>1, TakesTurn
  <2> QED
    BY <1>1, <1>3, <2>1, <2>2, DoingNames DEF Panic, Cell!Miss, Cell!End
<1> QED
  BY <1>2, <1>3

LEMMA CellStep ==
  ASSUME IInv, [Next]_vars
  PROVE  [Cell!Next]_(Cell!vars)
<1>1. ASSUME NEW t \in Loaders, Enter(t)
      PROVE  Cell!Next
  BY <1>1, EnterBegins DEF Cell!Next
<1>2. ASSUME NEW t \in Loaders, Resolve(t) \/ Parse(t)
      PROVE  UNCHANGED Cell!vars
  <2>1. UNCHANGED <<global, outcome, seen>>
    BY <1>2 DEF Resolve, Parse
  <2>2. Doing' = Doing
    <3>1. \/ pc[t] = "checked" /\ Goto(t, "resolved")
          \/ pc[t] = "resolved" /\ Goto(t, "parsed")
      BY <1>2 DEF Resolve, Parse
    <3> QED
      BY <3>1, DoingNames, SameDoing
  <2> QED
    BY <2>1, <2>2 DEF Cell!vars, Doing
<1>3. ASSUME NEW t \in Loaders, Fail(t)
      PROVE  Cell!Next
  BY <1>3, FailFails DEF Cell!Next
<1>4. ASSUME NEW t \in Loaders, Store(t)
      PROVE  Cell!Next
  BY <1>4, StoreWrites DEF Cell!Next
<1>5. ASSUME NEW t \in Loaders, get(t) \/ base(t)
      PROVE  Cell!Next
  <2>1. PICK served \in BOOLEAN :
          /\ Read(t, served)
          /\ served => global # Unset
          /\ ~served => global = Unset \/ \E T \in Types : T # global.type
    BY <1>5 DEF get, base
  <2> QED
    BY <2>1, ReadReads DEF Cell!Next
<1>6. ASSUME NEW p \in AllPaths, ChangeFile(p)
      PROVE  UNCHANGED Cell!vars
  BY <1>6 DEF ChangeFile, Cell!vars
<1>7. CASE UNCHANGED vars
  BY <1>7 DEF Cell!vars
<1> QED
  BY <1>1, <1>2, <1>3, <1>4, <1>5, <1>6, <1>7 DEF Next

(* lib.rs:323-328: load_with, get and base are a cell that one load writes   *)
(* once, for any number of threads, types and paths.                         *)
THEOREM Refinement == Spec => ImplementsWriteOnce
<1>1. Init => Cell!Init
  BY CellInit
<1>2. IInv /\ [Next]_vars => [Cell!Next]_(Cell!vars)
  BY CellStep
<1> QED
  BY <1>1, <1>2, Invariance, PTL DEF Spec, Cell!Spec, ImplementsWriteOnce
================================================================================
