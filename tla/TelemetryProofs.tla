---------------------------- MODULE TelemetryProofs ----------------------------
(***************************************************************************)
(* Safety of Telemetry for any servers, environments and failing steps.    *)
(***************************************************************************)
EXTENDS Telemetry, TLAPS

(* What init has built by the time it reaches each of its steps.           *)
BootOrder ==
  /\ boot \in {"filter", "metadata", "traces"} => built = {}
  /\ boot = "metrics" => built = endpoints \cap {"traces"}
  /\ boot = "logs" => built = endpoints \cap {"traces", "metrics"}
  /\ boot \in {"store", "subscribe", "ok"} => built = endpoints

(* A configuration is loaded once: before that nothing is set up, and init *)
(* gets beyond its first step only then.                                   *)
LoadedFirst ==
  /\ ~loaded => built = {} /\ boot \in {"load", "err", "panic"}
  /\ subscribed => stored

StoredIsAll ==
  /\ stored => built = endpoints /\ boot \in {"subscribe", "ok", "load", "panic"}
  /\ boot \in {"subscribe", "ok"} => stored
  /\ stored => loaded

BuiltAreSound == \A g \in built : Sound(g)

ErrHasReason ==
  boot = "err" /\ loaded =>
    metadata(env) = "error" \/ \E g \in endpoints \ built : ~Sound(g)

InstrumentsAreBuilt == instruments <=> "metrics" \in built

(* Routers are assembled once init_with has returned.                      *)
Assembled ==
  \A s \in Servers :
    /\ server[s] # "new" => boot \in {"ok", "err"}
    /\ server[s] = "new" => gates[s] = {}
    /\ server[s] # "new" => gates[s] = ({"traces"} \cap providers)
                              \cup (IF instruments THEN {"metrics"} ELSE {})

(* The providers a flush that has come to t has shut down.                 *)
Passed(t) == CASE t \in {"none", "traces"} -> {}
               [] t = "metrics" -> {"traces"}
               [] t = "logs" -> {"traces", "metrics"}
               [] t = "done" -> Signals

FlushOrder ==
  \A s \in Servers :
    /\ server[s] \in {"new", "serving"} => thread[s] = "none"
    /\ server[s] = "flushing" => thread[s] # "none"
    /\ server[s] = "stopped" =>
         thread[s] = "done" \/ (thread[s] = "none" /\ providers = {})

ClosedByFlush == closed # {} => \E u \in Servers : thread[u] # "none"

LostToAnother ==
  \A s \in lost : server[s] = "abandoned"
                    \/ \E u \in Servers \ {s} : thread[u] # "none"

(* A flushing server has nothing left in the providers it has passed.      *)
PassedIsEmpty ==
  \A g \in Signals : \A s \in buffered[g] :
    /\ g \in built
    /\ server[s] \in {"serving", "abandoned"} \/ g \notin Passed(thread[s])

IInv ==
  /\ TypeOK
  /\ BootOrder
  /\ LoadedFirst
  /\ BuiltAreSound
  /\ ErrHasReason
  /\ StoredIsAll
  /\ InstrumentsAreBuilt
  /\ Assembled
  /\ FlushOrder
  /\ ClosedByFlush
  /\ LostToAnother
  /\ PassedIsEmpty

USE DEF vars, bootVars, serverVars, exportVars, providers, endpoints

LEMMA EndpointsAreSignals ==
  ASSUME NEW e
  PROVE  Endpoints(e) \subseteq Signals
BY DEF Endpoints

(* While init_with runs there is no server, so only its own state matters. *)
LEMMA BootSteps ==
  ASSUME IInv, BootStep
  PROVE  IInv'
<1> USE FailuresAssumption, EndpointsAreSignals DEF Signals, Steps
<1>1. /\ UNCHANGED <<env, serverVars, exportVars>>
      /\ boot \notin {"ok", "err"} \/ \A s \in Servers : server[s] = "new"
  BY DEF BootStep, LoadConfig, LoadTwice, ReadFilter, ParseMetadata, BuildProvider,
         StoreProviders, Subscribe, BootFails, InitAgain, Boot, IInv, TypeOK
<1>2. \A s \in Servers : server[s] = "new" /\ thread[s] = "none" /\ gates[s] = {}
  BY <1>1 DEF IInv, TypeOK, Assembled, FlushOrder
<1>3. closed = {}
  BY <1>2 DEF IInv, ClosedByFlush
<1>4. lost = {}
  BY <1>2 DEF IInv, TypeOK, LostToAnother
<1>5. /\ TypeOK'
      /\ BootOrder'
      /\ LoadedFirst'
      /\ StoredIsAll'
      /\ InstrumentsAreBuilt'
      /\ built \subseteq built'
  <2> USE <1>1, <1>3 DEF IInv, TypeOK, BootOrder, LoadedFirst, StoredIsAll, InstrumentsAreBuilt, Boot
  <2>1. CASE LoadConfig
    BY <2>1 DEF LoadConfig
  <2>8. CASE LoadTwice
    BY <2>8 DEF LoadTwice
  <2>9. CASE InitAgain
    BY <2>9 DEF InitAgain
  <2>2. CASE ReadFilter
    BY <2>2 DEF ReadFilter
  <2>3. CASE ParseMetadata
    BY <2>3 DEF ParseMetadata
  <2>4. ASSUME NEW signal \in Signals, BuildProvider(signal)
        PROVE  /\ TypeOK'
               /\ BootOrder'
               /\ LoadedFirst'
               /\ StoredIsAll'
               /\ InstrumentsAreBuilt'
               /\ built \subseteq built'
    BY <2>4 DEF BuildProvider, After
  <2>5. CASE StoreProviders
    BY <2>5 DEF StoreProviders
  <2>6. CASE Subscribe
    BY <2>6 DEF Subscribe
  <2>7. CASE BootFails
    BY <2>7 DEF BootFails
  <2> QED
    BY <2>1, <2>2, <2>3, <2>4, <2>5, <2>6, <2>7, <2>8, <2>9 DEF BootStep
<1>9. BuiltAreSound' /\ ErrHasReason'
  <2> USE <1>1 DEF IInv, TypeOK, BuiltAreSound, ErrHasReason, Boot, Sound, endpoints
  <2>1. CASE LoadConfig \/ LoadTwice \/ ReadFilter \/ ParseMetadata \/ StoreProviders
               \/ Subscribe \/ InitAgain
    BY <2>1 DEF LoadConfig, LoadTwice, ReadFilter, ParseMetadata, StoreProviders,
                Subscribe, InitAgain
  <2>2. ASSUME NEW signal \in Signals, BuildProvider(signal)
        PROVE  BuiltAreSound' /\ ErrHasReason'
    BY <2>2 DEF BuildProvider, After
  <2>3. CASE BootFails
    BY <2>3 DEF BootFails, BootOrder, LoadedFirst
  <2> QED
    BY <2>1, <2>2, <2>3 DEF BootStep
<1>6. Assembled' /\ FlushOrder'
  BY <1>1, <1>2 DEF Assembled, FlushOrder
<1>7. ClosedByFlush' /\ LostToAnother'
  BY <1>1, <1>3, <1>4 DEF ClosedByFlush, LostToAnother
<1>8. PassedIsEmpty'
  BY <1>1, <1>2, <1>5 DEF IInv, TypeOK, PassedIsEmpty
<1> QED
  BY <1>5, <1>6, <1>7, <1>8, <1>9 DEF IInv

LEMMA ServerTypes ==
  ASSUME IInv, NEW s \in Servers, ServerStep(s)
  PROVE  TypeOK'
<1> USE DEF IInv, TypeOK, Signals
<1>1. CASE Assemble(s)
  BY <1>1 DEF Assemble
<1>2. CASE Emit(s)
  BY <1>2 DEF Emit
<1>3. CASE Flush(s)
  BY <1>3 DEF Flush
<1>4. CASE ShutDown(s)
  BY <1>4 DEF ShutDown, After
<1>5. CASE Stop(s)
  BY <1>5 DEF Stop
<1>6. CASE Abandon(s)
  BY <1>6 DEF Abandon
<1> QED
  BY <1>1, <1>2, <1>3, <1>4, <1>5, <1>6 DEF ServerStep

LEMMA ServerSteps ==
  ASSUME IInv, NEW s \in Servers, ServerStep(s)
  PROVE  IInv'
<1>1. TypeOK'
  BY ServerTypes
<1>2. BootOrder' /\ LoadedFirst' /\ BuiltAreSound' /\ ErrHasReason' /\ StoredIsAll' /\ InstrumentsAreBuilt'
  BY DEF IInv, BootOrder, LoadedFirst, BuiltAreSound, ErrHasReason,
         Sound, StoredIsAll, InstrumentsAreBuilt, ServerStep,
         Assemble, Emit, Flush, ShutDown, Stop, Abandon
<1> USE DEF IInv, TypeOK, Signals
<1>3. CASE Assemble(s)
  <2>1. Assembled' /\ FlushOrder'
    BY <1>3 DEF Assemble, Assembled, FlushOrder
  <2>2. ClosedByFlush' /\ LostToAnother'
    BY <1>3 DEF Assemble, ClosedByFlush, LostToAnother
  <2>3. PassedIsEmpty'
    BY <1>3 DEF Assemble, PassedIsEmpty, Passed
  <2> QED
    BY <1>1, <1>2, <2>1, <2>2, <2>3
<1>4. CASE Emit(s)
  <2>1. Emitted(s) \subseteq built
    BY <1>4 DEF Emit, Emitted, Assembled, InstrumentsAreBuilt
  <2>2. Assembled' /\ FlushOrder' /\ ClosedByFlush'
    BY <1>4 DEF Emit, Assembled, FlushOrder, ClosedByFlush
  <2>3. LostToAnother'
    BY <1>4 DEF Emit, LostToAnother, FlushOrder, ClosedByFlush
  <2>4. PassedIsEmpty'
    BY <1>4, <2>1 DEF Emit, PassedIsEmpty
  <2> QED
    BY <1>1, <1>2, <2>2, <2>3, <2>4
<1>5. CASE Flush(s)
  <2>1. Assembled' /\ FlushOrder'
    BY <1>5 DEF Flush, Assembled, FlushOrder
  <2>2. ClosedByFlush' /\ LostToAnother'
    BY <1>5 DEF Flush, ClosedByFlush, LostToAnother, FlushOrder
  <2>3. PassedIsEmpty'
    BY <1>5 DEF Flush, PassedIsEmpty, FlushOrder, Passed
  <2> QED
    BY <1>1, <1>2, <2>1, <2>2, <2>3
<1>6. CASE ShutDown(s)
  <2>1. Assembled' /\ FlushOrder'
    BY <1>6 DEF ShutDown, Assembled, FlushOrder, After
  <2>2. ClosedByFlush' /\ LostToAnother'
    BY <1>6 DEF ShutDown, ClosedByFlush, LostToAnother, After
  <2>3. PassedIsEmpty'
    <3> SUFFICES ASSUME NEW g \in Signals, NEW u \in buffered'[g]
                 PROVE  /\ g \in built'
                        /\ \/ server'[u] \in {"serving", "abandoned"}
                           \/ g \notin Passed(thread'[u])
      BY DEF PassedIsEmpty
    <3>1. u \in buffered[g] /\ g # thread[s] /\ u \in Servers
      BY <1>6 DEF ShutDown
    <3>2. UNCHANGED <<built, server>>
      BY <1>6 DEF ShutDown
    <3>3. CASE u = s
      BY <1>6, <3>1, <3>2, <3>3 DEF ShutDown, PassedIsEmpty, Passed, After
    <3>4. CASE u # s
      <4>1. thread'[u] = thread[u]
        BY <1>6, <3>4 DEF ShutDown
      <4> QED
        BY <3>1, <3>2, <4>1 DEF PassedIsEmpty
    <3> QED
      BY <3>3, <3>4
  <2> QED
    BY <1>1, <1>2, <2>1, <2>2, <2>3
<1>7. CASE Stop(s)
  <2>1. Assembled' /\ FlushOrder'
    BY <1>7 DEF Stop, Assembled, FlushOrder
  <2>2. ClosedByFlush' /\ LostToAnother'
    BY <1>7 DEF Stop, ClosedByFlush, LostToAnother
  <2>3. PassedIsEmpty'
    BY <1>7 DEF Stop, PassedIsEmpty
  <2> QED
    BY <1>1, <1>2, <2>1, <2>2, <2>3
<1>8. CASE Abandon(s)
  <2>1. Assembled' /\ FlushOrder'
    BY <1>8 DEF Abandon, Assembled, FlushOrder
  <2>2. ClosedByFlush' /\ LostToAnother'
    BY <1>8 DEF Abandon, ClosedByFlush, LostToAnother
  <2>3. PassedIsEmpty'
    BY <1>8 DEF Abandon, PassedIsEmpty
  <2> QED
    BY <1>1, <1>2, <2>1, <2>2, <2>3
<1> QED
  BY <1>3, <1>4, <1>5, <1>6, <1>7, <1>8 DEF ServerStep

LEMMA ExportSteps ==
  ASSUME IInv, NEW signal \in Signals, Export(signal)
  PROVE  IInv'
<1>1. TypeOK' /\ BootOrder' /\ LoadedFirst' /\ BuiltAreSound' /\ ErrHasReason' /\ StoredIsAll' /\ InstrumentsAreBuilt'
  BY DEF Export, IInv, TypeOK, BootOrder, LoadedFirst, BuiltAreSound, ErrHasReason,
         Sound, StoredIsAll, InstrumentsAreBuilt
<1>2. Assembled' /\ FlushOrder' /\ ClosedByFlush' /\ LostToAnother'
  BY DEF Export, IInv, Assembled, FlushOrder, ClosedByFlush, LostToAnother
<1>3. PassedIsEmpty'
  BY DEF Export, IInv, TypeOK, PassedIsEmpty
<1> QED
  BY <1>1, <1>2, <1>3 DEF IInv

LEMMA IInvInductive ==
  ASSUME IInv, [Next]_vars
  PROVE  IInv'
<1>1. CASE UNCHANGED vars
  BY <1>1 DEF IInv, TypeOK, BootOrder, LoadedFirst, BuiltAreSound, ErrHasReason,
         Sound, StoredIsAll,
              InstrumentsAreBuilt, Assembled, FlushOrder, ClosedByFlush, LostToAnother, PassedIsEmpty
<1>2. CASE Finished
  BY <1>1, <1>2 DEF Finished
<1>3. CASE BootStep
  BY <1>3, BootSteps
<1>4. ASSUME NEW s \in Servers, ServerStep(s)
      PROVE  IInv'
  BY <1>4, ServerSteps
<1>5. ASSUME NEW signal \in Signals, Export(signal)
      PROVE  IInv'
  BY <1>5, ExportSteps
<1> QED
  BY <1>1, <1>2, <1>3, <1>4, <1>5 DEF Next

THEOREM Invariance == Spec => []IInv
<1>1. Init => IInv
  <2> SUFFICES ASSUME Init
               PROVE  IInv
    OBVIOUS
  <2>1. TypeOK
    BY DEF Init, TypeOK, Steps
  <2>2. BootOrder /\ LoadedFirst /\ BuiltAreSound /\ ErrHasReason /\ StoredIsAll /\ InstrumentsAreBuilt
    BY DEF Init, BootOrder, LoadedFirst, BuiltAreSound, ErrHasReason,
         Sound, StoredIsAll, InstrumentsAreBuilt
  <2>3. Assembled /\ FlushOrder /\ ClosedByFlush /\ LostToAnother
    BY DEF Init, Assembled, FlushOrder, ClosedByFlush, LostToAnother
  <2>4. PassedIsEmpty
    BY DEF Init, PassedIsEmpty
  <2> QED
    BY <2>1, <2>2, <2>3, <2>4 DEF IInv
<1>2. IInv /\ [Next]_vars => IInv'
  BY IInvInductive
<1> QED
  BY <1>1, <1>2, PTL DEF Spec

(* The state of Telemetry is well-typed in every behaviour.                *)
THEOREM TypeCorrect == Spec => []TypeOK
<1>1. IInv => TypeOK
  BY DEF IInv
<1> QED
  BY <1>1, Invariance, PTL

(* health.rs:20-22: a half-failed init never looks like a running one.     *)
THEOREM ProvidersAreAllOrNothing == Spec => []AllOrNothing
<1>1. IInv => AllOrNothing
  BY DEF IInv, StoredIsAll, InstrumentsAreBuilt, AllOrNothing
<1> QED
  BY <1>1, Invariance, PTL

(* bootstrap.rs:36-37: a second init! never sets up a second time.         *)
THEOREM NoSecondSetUp == Spec => []SetUpOnce
<1>1. IInv => SetUpOnce
  BY DEF IInv, BootOrder, LoadedFirst, StoredIsAll, InstrumentsAreBuilt, SetUpOnce
<1> QED
  BY <1>1, Invariance, PTL

(* What resolve_tls_files finds, in terms of what the environment asks for. *)
LEMMA TlsFilesAreGiven ==
  ASSUME NEW signal \in Signals
  PROVE  resolve_tls_files(env, signal) =
           {Variable(f, signal) : f \in {g \in Files : Named(g, signal)}}
<1> DEFINE asked == {Variable(f, signal) : f \in {g \in Files : Named(g, signal)}}
           levels == [level: {signal, "any"}, file: Files]
<1>1. signal # "any"
  BY DEF Signals
<1>2. ASSUME NEW f \in Files, Named(f, signal)
      PROVE  Variable(f, signal) \in resolve_tls_files(env, signal)
  <2>1. Variable(f, signal) \in levels
    BY DEF Variable
  <2> QED
    BY <1>1, <1>2, <2>1 DEF resolve_tls_files, Variable, Named
<1>3. ASSUME NEW v \in resolve_tls_files(env, signal)
      PROVE  v \in asked
  <2>1. /\ v \in levels
        /\ IsSet(env.file[v.level][v.file])
        /\ v.level = "any" => ~IsSet(env.file[signal][v.file])
    BY <1>3 DEF resolve_tls_files
  <2>2. v.file \in Files /\ v.level \in {signal, "any"}
    BY <2>1
  <2>3. v = [level |-> v.level, file |-> v.file]
    BY <2>1
  <2>4. Named(v.file, signal)
    BY <2>1, <2>2 DEF Named
  <2>5. v = Variable(v.file, signal)
    BY <1>1, <2>1, <2>2, <2>3 DEF Variable
  <2> QED
    BY <2>2, <2>4, <2>5
<1> QED
  BY <1>2, <1>3

(* The two conditions under which such files are refused.                   *)
LEMMA GivenFilesRefused ==
  ASSUME NEW signal \in Signals
  PROVE  LET given == {f \in Files : Named(f, signal)}
             files == {Variable(f, signal) : f \in given}
         IN  /\ Unreadable(env, files) <=> \E f \in given : ~CanBeRead(f, signal)
             /\ IsHalf(files) <=> ~(given \subseteq {"CERTIFICATE"} \/ HasIdentity(signal))
<1> DEFINE given == {f \in Files : Named(f, signal)}
           files == {Variable(f, signal) : f \in given}
<1>0. \A f : Variable(f, signal).file = f
  BY DEF Variable
<1>1. Unreadable(env, files) <=> \E f \in given : ~CanBeRead(f, signal)
  <2>1. Unreadable(env, files) <=>
          \E f \in given : env.file[Variable(f, signal).level][Variable(f, signal).file]
                           # "readable"
    <3> HIDE DEF given
    <3> QED
      BY DEF Unreadable
  <2> QED
    BY <1>0, <2>1 DEF CanBeRead
<1>2. {v.file : v \in files} = given
  <2> HIDE DEF given
  <2> QED
    BY <1>0
<1>3. IsHalf(files) <=> ("CLIENT_CERTIFICATE" \in given) # ("CLIENT_KEY" \in given)
  BY <1>2 DEF IsHalf
<1>4. /\ "CLIENT_CERTIFICATE" \in given <=> Named("CLIENT_CERTIFICATE", signal)
      /\ "CLIENT_KEY" \in given <=> Named("CLIENT_KEY", signal)
      /\ given \subseteq {"CERTIFICATE"} <=>
           "CLIENT_CERTIFICATE" \notin given /\ "CLIENT_KEY" \notin given
  BY DEF Files
<1> QED
  BY <1>1, <1>3, <1>4 DEF HasIdentity

(* An endpoint that is not switched off is the one that is asked for.       *)
LEMMA EndpointIsDestination ==
  ASSUME NEW signal \in Signals, resolve_endpoint(env, signal) # "unset"
  PROVE  /\ env.exporter[signal] # "none"
         /\ resolve_endpoint(env, signal) = Destination(signal)
BY DEF resolve_endpoint, Destination

(* The table of the README: every exporter goes where its own and the       *)
(* generic variables send it, with the files they give it and no others.    *)
THEOREM ExportersAreRight == Spec => []ExportersAreAsConfigured
<1>1. IInv => ExportersAreAsConfigured
  <2> SUFFICES ASSUME IInv, NEW signal \in built
               PROVE  LET transport == Transport(env, signal)
                          given == {f \in Files : Named(f, signal)}
                      IN  /\ env.exporter[signal] # "none"
                          /\ Destination(signal) \in {"http", "https"}
                          /\ resolve_endpoint(env, signal) = Destination(signal)
                          /\ Destination(signal) = "http" => transport = Plain
                          /\ Destination(signal) = "https" =>
                               /\ transport = Tls({Variable(f, signal) : f \in given})
                               /\ \A f \in given : CanBeRead(f, signal)
                               /\ given \subseteq {"CERTIFICATE"} \/ HasIdentity(signal)
    BY DEF ExportersAreAsConfigured
  <2> DEFINE to == Destination(signal)
             given == {f \in Files : Named(f, signal)}
             files == {Variable(f, signal) : f \in given}
  <2>1. Sound(signal) /\ signal \in endpoints /\ signal \in Signals
    BY EndpointsAreSignals DEF IInv, TypeOK, BuiltAreSound
  <2>2. Transport(env, signal) # Refused /\ resolve_endpoint(env, signal) # "unset"
    BY <2>1 DEF Sound, Endpoints
  <2>3. env.exporter[signal] # "none" /\ resolve_endpoint(env, signal) = to
    BY <2>1, <2>2, EndpointIsDestination
  <2>4. to \in {"http", "https"}
    <3>1. env \in Environment
      BY EnvironmentsAssumption DEF IInv, TypeOK
    <3>2. to \in Urls \cup {"unset"}
      BY <2>1, <3>1 DEF Destination, Environment, IsSet
    <3>3. to # "bad"
      BY <2>2, <2>3 DEF Transport
    <3> QED
      BY <2>2, <2>3, <3>2, <3>3 DEF Urls
  <2>5. Transport(env, signal) = build_tls(env, to, files)
    BY <2>1, <2>3, <2>4, TlsFilesAreGiven DEF Transport
  <2>6. to = "http" => Transport(env, signal) = Plain
    BY <2>5 DEF build_tls
  <2>7. ASSUME to = "https"
        PROVE  /\ Transport(env, signal) = Tls(files)
               /\ \A f \in given : CanBeRead(f, signal)
               /\ given \subseteq {"CERTIFICATE"} \/ HasIdentity(signal)
    <3>1. ~Unreadable(env, files) /\ ~IsHalf(files)
      BY <2>2, <2>5, <2>7 DEF build_tls
    <3>2. Transport(env, signal) = Tls(files)
      BY <2>5, <2>7, <3>1 DEF build_tls
    <3> HIDE DEF files
    <3> QED
      BY <2>1, <3>1, <3>2, GivenFilesRefused DEF files
  <2> QED
    BY <2>3, <2>4, <2>6, <2>7
<1> QED
  BY <1>1, Invariance, PTL

(* otel.rs:137-150: init fails only for what it uses.                       *)
THEOREM InitFailsForItsReason == Spec => []FailsForItsReason
<1>1. IInv => FailsForItsReason
  <2> SUFFICES ASSUME IInv, boot = "err", loaded,
                      env.headers \cap {"no =", "bad key", "bad value"} = {}
               PROVE  \E signal \in Signals \ built :
                        LET given == {f \in Files : Named(f, signal)} IN
                        /\ env.exporter[signal] # "none"
                        /\ \/ Destination(signal) = "bad"
                           \/ /\ Destination(signal) = "https"
                              /\ \/ \E f \in given : ~CanBeRead(f, signal)
                                 \/ ~(given \subseteq {"CERTIFICATE"} \/ HasIdentity(signal))
    BY DEF FailsForItsReason
  <2>1. env \in Environment
    BY EnvironmentsAssumption DEF IInv, TypeOK
  <2>2. metadata(env) = "map"
    BY <2>1 DEF metadata, Environment, Entries
  <2>3. PICK g \in endpoints \ built : ~Sound(g)
    BY <2>2 DEF IInv, ErrHasReason
  <2> DEFINE to == Destination(g)
             given == {f \in Files : Named(f, g)}
             files == {Variable(f, g) : f \in given}
  <2>4. g \in Signals /\ Transport(env, g) = Refused /\ resolve_endpoint(env, g) # "unset"
    BY <2>3, EndpointsAreSignals DEF Sound, Endpoints
  <2>5. env.exporter[g] # "none" /\ resolve_endpoint(env, g) = to
    BY <2>4, EndpointIsDestination
  <2>6. CASE to = "bad"
    BY <2>3, <2>4, <2>5, <2>6
  <2>7. CASE to # "bad"
    <3>1. build_tls(env, to, files) = Refused
      BY <2>4, <2>5, <2>7, TlsFilesAreGiven DEF Transport
    <3>2. Refused # Plain /\ \A x : Refused # Tls(x)
      BY DEF Refused, Plain, Tls
    <3>3. to = "https" /\ (Unreadable(env, files) \/ IsHalf(files))
      BY <3>1, <3>2 DEF build_tls
    <3>4. \/ \E f \in given : ~CanBeRead(f, g)
          \/ ~(given \subseteq {"CERTIFICATE"} \/ HasIdentity(g))
      BY <2>4, <3>3, GivenFilesRefused
    <3> QED
      BY <2>3, <2>4, <2>5, <3>3, <3>4
  <2> QED
    BY <2>6, <2>7
<1> QED
  BY <1>1, Invariance, PTL

(* lib.rs:100-107: the middlewares of every server follow the endpoints.   *)
THEOREM GatesAreRight == Spec => []GatesFollowEndpoints
<1>1. IInv => GatesFollowEndpoints
  BY DEF IInv, TypeOK, StoredIsAll, InstrumentsAreBuilt, Assembled,
         GatesFollowEndpoints
<1> QED
  BY <1>1, Invariance, PTL

(* server.rs:325-326: the first server to flush loses nothing.             *)
THEOREM FirstFlushIsComplete == Spec => []FirstIsFlushed
<1>1. IInv => FirstIsFlushed
  <2> SUFFICES ASSUME IInv, boot = "ok", NEW s \in Servers, server[s] = "stopped",
                      \A u \in Servers \ {s} : thread[u] = "none"
               PROVE  Flushed(s)
    BY DEF FirstIsFlushed
  <2>1. s \notin lost
    BY DEF IInv, TypeOK, LostToAnother
  <2>2. ASSUME NEW g \in Signals, s \in buffered[g]
        PROVE  FALSE
    <3>1. thread[s] = "none" /\ providers = {}
      BY <2>2 DEF IInv, FlushOrder, PassedIsEmpty, Passed
    <3> QED
      BY <2>2, <3>1 DEF IInv, StoredIsAll, PassedIsEmpty
  <2> QED
    BY <2>1, <2>2 DEF Flushed
<1> QED
  BY <1>1, Invariance, PTL
================================================================================
