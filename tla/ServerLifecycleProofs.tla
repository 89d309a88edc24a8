------------------------ MODULE ServerLifecycleProofs ------------------------
(***************************************************************************)
(* Theorems about ServerLifecycle for runtimes of any size and any number  *)
(* of signals and changes of the catalog file.                             *)
(***************************************************************************)
EXTENDS ServerLifecycle, SequenceTheorems, TLAPS

\* What main has done when it is where it is.
Startup ==
  /\ main \in {"trace", "install", "flush", "resolve", "register"} =>
       registry = <<>>
  /\ main \in {"start", "abort", "serve", "serving", "returned"} =>
       registry # <<>>
  /\ ticker # "absent" =>
       registry # <<>> /\ main \in {"abort", "serve", "serving", "failed",
                                    "returned"}

\* The callbacks that may be registered, in their order.
CallbackLists == {<<>>, <<"flush">>, <<"abort">>, <<"flush", "abort">>}

\* Until the handler takes them, main has registered a part of them.
Registered ==
  /\ main \in {"trace", "install"} => handler = "absent"
  /\ taken \in CallbackLists
  /\ handler # "shutting" =>
       /\ cleanup_fns \in CallbackLists
       /\ main \in {"trace", "install", "flush"} => cleanup_fns = <<>>
       /\ main \in {"resolve", "register", "start", "abort"} =>
            cleanup_fns \in {<<>>, <<"flush">>}

\* What has been run is the end of what was taken, backwards; what is still to
\* be run is its beginning.
Shutdown ==
  /\ handler # "shutting" =>
       /\ fns = <<>> /\ taken = <<>> /\ ran = <<>>
       /\ exporter # "shut" /\ exit # "signal"
  /\ Len(ran) + Len(fns) = Len(taken)
  /\ \A i \in 1 .. Len(fns) : fns[i] = taken[i]
  /\ \A i \in 1 .. Len(ran) : ran[i] = taken[Len(taken) + 1 - i]
  /\ exit = "signal" => fns = <<>>

\* The exporter is shut down last.
FlushLast ==
  /\ \A i \in 1 .. Len(ran) : ran[i] = "abort" => aborted
  /\ exporter = "shut" => aborted \/ taken = <<"flush">>

\* Each verdict was true of the file at some moment since its check began; so
\* is what the check under way has found.
Verdict ==
  /\ main = "register" => "present" \in seen.verdict
  /\ registry # <<>> =>
       IF registry["store"].status = "Healthy"
         THEN "present" \in seen.verdict
         ELSE "absent" \in seen.verdict
  /\ ticker = "checking" =>
       /\ store \in seen.check
       /\ outcome = "Healthy" => "present" \in seen.check
       /\ outcome = "Unhealthy" => "absent" \in seen.check

IInv == TypeOK /\ Startup /\ Registered /\ Shutdown /\ FlushLast /\ Verdict
-----------------------------------------------------------------------------
\* Nothing is registered, or the catalog is.
LEMMA RegistryKinds ==
  ASSUME NEW r \in Registries
  PROVE  r # <<>> /\ DOMAIN r = {"store"}
BY DEF Registries

\* The lists of callbacks grow as main registers them.
LEMMA ListsGrow ==
  /\ Append(<<>>, "flush") = <<"flush">>
  /\ Append(<<>>, "abort") = <<"abort">>
  /\ Append(<<"flush">>, "abort") = <<"flush", "abort">>
<1> DEFINE l == <<"flush">>
           two == <<"flush", "abort">>
<1>1. l \in Seq(Callbacks) /\ two \in Seq(Callbacks) /\ "abort" \in Callbacks
  BY DEF Callbacks
<1>2. Append(l, "abort") \in Seq(Callbacks)
  BY <1>1
<1>3. Len(Append(l, "abort")) = 2 /\ Len(two) = 2
  BY <1>1
<1>4. /\ Append(l, "abort")[1] = "flush" /\ Append(l, "abort")[2] = "abort"
      /\ two[1] = "flush" /\ two[2] = "abort"
  BY <1>1
<1>5. \A i \in 1 .. 2 : Append(l, "abort")[i] = two[i]
  BY <1>4
<1>6. Append(l, "abort") = two
  BY <1>1, <1>2, <1>3, <1>5, SeqEqual
<1> QED
  BY <1>6

LEMMA ListsTyped ==
  ASSUME NEW s \in Seq(Callbacks), NEW f \in Callbacks
  PROVE  Append(s, f) \in Seq(Callbacks)
OBVIOUS

LEMMA TwoAreLeft ==
  ASSUME NEW n \in Nat \ {0}, NEW l \in Nat, l + n = 2, n # 2
  PROVE  n = 1 /\ l = 1
OBVIOUS

LEMMA InitIInv == Init => IInv
<1> SUFFICES ASSUME Init PROVE IInv
  OBVIOUS
<1> USE DEF Init
<1>1. <<>> \in Seq(Callbacks) /\ 0 \in 0 .. MaxSignals /\ 0 \in 0 .. MaxChanges
  BY LifecycleAssumption DEF LifecycleAssumption
<1>2. TypeOK
  BY <1>1 DEF TypeOK, FileStates
<1>3. Startup /\ Verdict
  BY DEF Startup, Verdict
<1>4. Registered /\ Shutdown /\ FlushLast
  BY DEF Registered, Shutdown, FlushLast, CallbackLists
<1> QED
  BY <1>2, <1>3, <1>4 DEF IInv

\* Every step keeps the types; a check reports to a registry that is there.
LEMMA TypeStep ==
  ASSUME TypeOK, Startup, [Next]_vars
  PROVE  TypeOK'
<1> USE DEF TypeOK, settings, mainVars, handlerVars, tickerVars
<1>1. CASE BuildLayer
  BY <1>1 DEF BuildLayer
<1>2. CASE InstallHandlers
  BY <1>2 DEF InstallHandlers
<1>3. CASE OnShutdownFlush
  BY <1>3, ListsTyped DEF OnShutdownFlush, Callbacks
<1>4. CASE ResolveStore
  <2>1. seen' \in [verdict : SUBSET FileStates, check : SUBSET FileStates]
    BY <1>4 DEF ResolveStore, FileStates
  <2>2. /\ store' \in FileStates /\ main' = "register"
        /\ UNCHANGED <<settings, exit, handlerVars, signals, cleanup_fns,
                       exporter, ticker, aborted, outcome, registry, changes>>
    BY <1>4 DEF ResolveStore, FileStates
  <2> QED
    BY <2>1, <2>2
<1>5. CASE Register
  <2>1. registry' \in Registries
    BY <1>5 DEF Register, Registries
  <2> QED
    BY <1>5, <2>1 DEF Register
<1>6. CASE StartTicker
  BY <1>6 DEF StartTicker
<1>7. CASE OnShutdownAbort
  BY <1>7, ListsTyped DEF OnShutdownAbort, Callbacks
<1>8. CASE Serve
  BY <1>8 DEF Serve
<1>9. CASE Fail
  BY <1>9 DEF Fail
<1>10. CASE Disconnect
  BY <1>10 DEF Disconnect
<1>11. CASE ExitOnError
  BY <1>11 DEF ExitOnError
<1>12. CASE ExitOnReturn
  BY <1>12 DEF ExitOnReturn
<1>13. CASE Listen
  BY <1>13 DEF Listen
<1>14. CASE Signal
  BY <1>14, LifecycleAssumption DEF Signal, LifecycleAssumption
<1>15. CASE TakeCallbacks
  <2>1. cleanup_fns' \in Seq(Callbacks)
    BY <1>15 DEF TakeCallbacks
  <2>2. /\ fns' \in Seq(Callbacks) /\ taken' \in Seq(Callbacks)
        /\ ran' \in Seq(Callbacks)
    BY <1>15 DEF TakeCallbacks
  <2>3. /\ handler' = "shutting" /\ pending' = FALSE
        /\ UNCHANGED <<workers, transport, main, exit, signals, exporter>>
    BY <1>15 DEF TakeCallbacks
  <2>4. UNCHANGED <<ticker, aborted, outcome, registry, seen, store, changes>>
    BY <1>15 DEF TakeCallbacks
  <2>5. registry' = <<>> \/ registry' \in Registries
    BY <2>4
  <2>6. seen' \in [verdict : SUBSET FileStates, check : SUBSET FileStates]
    BY <2>4
  <2>7. /\ workers' \in WorkerCounts
        /\ transport' \in {"stdio", "http"}
        /\ main' \in {"trace", "install", "flush", "resolve", "register",
                      "start", "abort", "serve", "serving", "failed",
                      "returned"}
        /\ exit' \in {"none", "killed", "signal", "error", "returned"}
        /\ signals' \in 0 .. MaxSignals
        /\ exporter' \in {"none", "open", "shut"}
    BY <2>3
  <2>8. /\ ticker' \in {"absent", "waiting", "checking"}
        /\ aborted' \in BOOLEAN
        /\ outcome' \in {"none", "Healthy", "Unhealthy"}
        /\ store' \in FileStates
        /\ changes' \in 0 .. MaxChanges
    BY <2>4
  <2>9. handler' \in {"absent", "spawned", "listening", "shutting"}
        /\ pending' \in BOOLEAN
    BY <2>3
  <2> QED
    BY <2>1, <2>2, <2>5, <2>6, <2>7, <2>8, <2>9, Zenon
<1>16. CASE RunLast
  <2>1. /\ fns \in Seq(Callbacks) /\ fns # <<>>
        /\ fns' = SubSeq(fns, 1, Len(fns) - 1)
        /\ ran' = Append(ran, fns[Len(fns)])
    BY <1>16 DEF RunLast
  <2>2. fns[Len(fns)] \in Callbacks
    BY <2>1
  <2>3. fns' \in Seq(Callbacks) /\ ran' \in Seq(Callbacks)
    BY <2>1, <2>2
  <2>4. aborted' \in BOOLEAN /\ exporter' \in {"none", "open", "shut"}
    BY <1>16 DEF RunLast
  <2> QED
    BY <1>16, <2>3, <2>4 DEF RunLast
<1>17. CASE ExitOnSignal
  BY <1>17 DEF ExitOnSignal
<1>18. CASE BeginCheck
  <2>1. seen' \in [verdict : SUBSET FileStates, check : SUBSET FileStates]
    BY <1>18 DEF BeginCheck
  <2>2. /\ ticker' = "checking" /\ outcome' = "none"
        /\ UNCHANGED <<mainVars, exit, handlerVars, signals, cleanup_fns,
                       exporter, aborted, registry, store, changes>>
    BY <1>18 DEF BeginCheck
  <2> QED
    BY <2>1, <2>2
<1>19. CASE OpenStore
  BY <1>19 DEF OpenStore
<1>20. CASE Report
  <2>1. registry \in Registries /\ outcome \in {"Healthy", "Unhealthy"}
    BY <1>20 DEF Report, Startup
  <2>2. registry' \in Registries
    BY <1>20, <2>1 DEF Report, Registries
  <2>3. seen' \in [verdict : SUBSET FileStates, check : SUBSET FileStates]
    BY <1>20 DEF Report
  <2> QED
    BY <1>20, <2>2, <2>3 DEF Report
<1>21. ASSUME NEW s \in FileStates, StoreChanges(s) PROVE TypeOK'
  <2>1. seen' \in [verdict : SUBSET FileStates, check : SUBSET FileStates]
    BY <1>21 DEF StoreChanges
  <2>2. changes' \in 0 .. MaxChanges
    BY <1>21, LifecycleAssumption DEF StoreChanges, LifecycleAssumption
  <2> QED
    BY <1>21, <2>1, <2>2 DEF StoreChanges
<1>22. CASE UNCHANGED vars
  BY <1>22 DEF vars
<1> QED
  BY <1>1, <1>2, <1>3, <1>4, <1>5, <1>6, <1>7, <1>8, <1>9, <1>10, <1>11,
     <1>12, <1>13, <1>14, <1>15, <1>16, <1>17, <1>18, <1>19, <1>20, <1>21,
     <1>22
     DEF Next, MainStep, HandlerStep, TickerStep

\* main goes through its stages in one order.
LEMMA StartupStep ==
  ASSUME TypeOK, Startup, [Next]_vars
  PROVE  Startup'
<1> USE DEF TypeOK, Startup, settings, mainVars, handlerVars, tickerVars
<1>1. CASE BuildLayer \/ InstallHandlers \/ OnShutdownFlush \/ ResolveStore
  BY <1>1 DEF BuildLayer, InstallHandlers, OnShutdownFlush, ResolveStore
<1>2. CASE Register
  BY <1>2, RegistryKinds DEF Register, Registries
<1>3. CASE StartTicker \/ OnShutdownAbort \/ Serve \/ Fail \/ Disconnect
  BY <1>3 DEF StartTicker, OnShutdownAbort, Serve, Fail, Disconnect
<1>4. CASE ExitOnError \/ ExitOnReturn \/ Listen \/ Signal \/ TakeCallbacks
           \/ RunLast \/ ExitOnSignal
  BY <1>4 DEF ExitOnError, ExitOnReturn, Listen, Signal, TakeCallbacks,
              RunLast, ExitOnSignal
<1>5. CASE BeginCheck \/ OpenStore
  BY <1>5 DEF BeginCheck, OpenStore
<1>6. CASE Report
  <2>1. registry \in Registries
    BY <1>6 DEF Report, Startup
  <2>2. registry' # <<>>
    BY <1>6, <2>1, RegistryKinds DEF Report
  <2> QED
    BY <1>6, <2>2 DEF Report
<1>7. ASSUME NEW s \in FileStates, StoreChanges(s) PROVE Startup'
  BY <1>7 DEF StoreChanges
<1>8. CASE UNCHANGED vars
  BY <1>8 DEF vars
<1> QED
  BY <1>1, <1>2, <1>3, <1>4, <1>5, <1>6, <1>7, <1>8
     DEF Next, MainStep, HandlerStep, TickerStep

\* The callbacks are registered in the order of the stages.
LEMMA RegisteredStep ==
  ASSUME TypeOK, Registered, Shutdown, [Next]_vars
  PROVE  Registered'
<1> USE DEF TypeOK, Registered, Shutdown, CallbackLists, settings, mainVars, handlerVars, tickerVars
<1>1. CASE BuildLayer \/ InstallHandlers
  BY <1>1 DEF BuildLayer, InstallHandlers
<1>2. CASE OnShutdownFlush
  BY <1>2, ListsGrow DEF OnShutdownFlush
<1>3. CASE ResolveStore \/ Register \/ StartTicker
  BY <1>3 DEF ResolveStore, Register, StartTicker
<1>4. CASE OnShutdownAbort
  BY <1>4, ListsGrow DEF OnShutdownAbort
<1>5. CASE Serve \/ Fail \/ Disconnect
  BY <1>5 DEF Serve, Fail, Disconnect
<1>6. CASE ExitOnError \/ ExitOnReturn \/ Listen \/ Signal
  BY <1>6 DEF ExitOnError, ExitOnReturn, Listen, Signal
<1>7. CASE TakeCallbacks
  BY <1>7 DEF TakeCallbacks
<1>8. CASE RunLast \/ ExitOnSignal
  BY <1>8 DEF RunLast, ExitOnSignal
<1>9. CASE BeginCheck \/ OpenStore \/ Report
  BY <1>9 DEF BeginCheck, OpenStore, Report
<1>10. ASSUME NEW s \in FileStates, StoreChanges(s) PROVE Registered'
  BY <1>10 DEF StoreChanges
<1>11. CASE UNCHANGED vars
  BY <1>11 DEF vars
<1> QED
  BY <1>1, <1>2, <1>3, <1>4, <1>5, <1>6, <1>7, <1>8, <1>9, <1>10, <1>11
     DEF Next, MainStep, HandlerStep, TickerStep

\* Each callback that is run moves from one end to the other.
LEMMA ShutdownStep ==
  ASSUME TypeOK, Registered, Shutdown, [Next]_vars
  PROVE  Shutdown'
<1> USE DEF TypeOK, Registered, Shutdown, settings, mainVars, handlerVars, tickerVars
<1>1. CASE BuildLayer \/ InstallHandlers \/ OnShutdownFlush \/ ResolveStore
  BY <1>1 DEF BuildLayer, InstallHandlers, OnShutdownFlush, ResolveStore
<1>2. CASE Register \/ StartTicker \/ OnShutdownAbort
  BY <1>2 DEF Register, StartTicker, OnShutdownAbort
<1>3. CASE Serve \/ Fail \/ Disconnect \/ ExitOnError \/ ExitOnReturn
  BY <1>3 DEF Serve, Fail, Disconnect, ExitOnError, ExitOnReturn
<1>4. CASE Listen \/ Signal
  BY <1>4 DEF Listen, Signal
<1>5. CASE TakeCallbacks
  <2>1. ran = <<>> /\ ran' = ran /\ fns' = taken' /\ handler' = "shutting"
    BY <1>5 DEF TakeCallbacks
  <2>2. taken' \in Seq(Callbacks) /\ exit' # "signal"
    BY <1>5 DEF TakeCallbacks
  <2> QED
    BY <2>1, <2>2
<1>6. CASE RunLast
  <2> DEFINE n == Len(fns)
  <2>1. /\ fns \in Seq(Callbacks) /\ n = Len(fns) /\ n \in Nat \ {0}
        /\ ran \in Seq(Callbacks) /\ Len(ran) \in Nat
    BY <1>6 DEF RunLast
  <2>2. /\ fns' = SubSeq(fns, 1, n - 1)
        /\ ran' = Append(ran, fns[n])
        /\ taken' = taken /\ handler' = "shutting" /\ exit' # "signal"
    BY <1>6 DEF RunLast, Running
  <2>3. fns[n] = taken[n] /\ Len(taken) = Len(ran) + n
    BY <2>1
  <2> HIDE DEF n
  <2>4. /\ Len(fns') = n - 1
        /\ \A i \in 1 .. n - 1 : fns'[i] = fns[i]
    <3>1. \A i \in 1 .. n - 1 : fns[i] \in Callbacks
      BY <2>1
    <3>2. /\ Len(fns') = IF 1 <= n - 1 THEN n - 1 ELSE 0
          /\ \A i \in 1 .. n - 1 : fns'[i] = fns[1 + i - 1]
      BY <2>1, <2>2, <3>1, SubSeqProperties
    <3> QED
      BY <2>1, <3>2
  <2>5. /\ Len(ran') = Len(ran) + 1
        /\ ran'[Len(ran) + 1] = taken[n]
        /\ \A i \in 1 .. Len(ran) : ran'[i] = ran[i]
    BY <2>1, <2>2, <2>3
  <2>6. Len(ran') + Len(fns') = Len(taken')
    <3>1. Len(taken') = Len(ran) + n
      BY <2>2, <2>3
    <3> QED
      BY <3>1, <2>1, <2>4, <2>5
  <2>7. \A i \in 1 .. Len(fns') : fns'[i] = taken'[i]
    <3>1. \A i \in 1 .. n - 1 : fns[i] = taken[i]
      BY <2>1
    <3> QED
      BY <3>1, <2>2, <2>4
  <2>8. ASSUME NEW i \in 1 .. Len(ran')
        PROVE  ran'[i] = taken'[Len(taken') + 1 - i]
    <3>1. CASE i = Len(ran) + 1
      BY <3>1, <2>1, <2>2, <2>3, <2>5
    <3>2. CASE i \in 1 .. Len(ran)
      BY <3>2, <2>2, <2>5
    <3> QED
      BY <3>1, <3>2, <2>1, <2>5
  <2> QED
    BY <2>2, <2>6, <2>7, <2>8
<1>7. CASE ExitOnSignal
  BY <1>7 DEF ExitOnSignal
<1>8. CASE BeginCheck \/ OpenStore \/ Report
  BY <1>8 DEF BeginCheck, OpenStore, Report
<1>9. ASSUME NEW s \in FileStates, StoreChanges(s) PROVE Shutdown'
  BY <1>9 DEF StoreChanges
<1>10. CASE UNCHANGED vars
  BY <1>10 DEF vars
<1> QED
  BY <1>1, <1>2, <1>3, <1>4, <1>5, <1>6, <1>7, <1>8, <1>9, <1>10
     DEF Next, MainStep, HandlerStep, TickerStep

\* The flush was registered before the health checks and runs after them.
LEMMA FlushLastStep ==
  ASSUME TypeOK, Registered, Shutdown, FlushLast, [Next]_vars
  PROVE  FlushLast'
<1> USE DEF TypeOK, Shutdown, FlushLast, settings, mainVars, handlerVars, tickerVars
<1>1. CASE BuildLayer \/ InstallHandlers \/ OnShutdownFlush \/ ResolveStore
  BY <1>1 DEF BuildLayer, InstallHandlers, OnShutdownFlush, ResolveStore
<1>2. CASE Register \/ StartTicker \/ OnShutdownAbort
  BY <1>2 DEF Register, StartTicker, OnShutdownAbort
<1>3. CASE Serve \/ Fail \/ Disconnect \/ ExitOnError \/ ExitOnReturn
  BY <1>3 DEF Serve, Fail, Disconnect, ExitOnError, ExitOnReturn
<1>4. CASE Listen \/ Signal
  BY <1>4 DEF Listen, Signal
<1>5. CASE TakeCallbacks
  BY <1>5 DEF TakeCallbacks
<1>6. CASE RunLast
  <2> DEFINE n == Len(fns)
  <2>1. /\ n \in Nat \ {0} /\ ran \in Seq(Callbacks) /\ Len(ran) \in Nat
        /\ fns[n] = taken[n] /\ Len(taken) = Len(ran) + n
    BY <1>6 DEF RunLast
  <2>2. /\ ran' = Append(ran, fns[n]) /\ taken' = taken
        /\ aborted' = (aborted \/ fns[n] = "abort")
        /\ exporter' = IF fns[n] = "flush" THEN "shut" ELSE exporter
    BY <1>6 DEF RunLast
  <2>3. \A i \in 1 .. Len(ran) : ran[i] = "abort" => aborted
    OBVIOUS
  <2>4. \A i \in 1 .. Len(ran) : ran[i] = taken[Len(taken) + 1 - i]
    OBVIOUS
  <2> HIDE DEF n
  <2>5. /\ Len(ran') = Len(ran) + 1
        /\ ran'[Len(ran) + 1] = fns[n]
        /\ \A i \in 1 .. Len(ran) : ran'[i] = ran[i]
    BY <2>1, <2>2
  <2>6. ASSUME NEW i \in 1 .. Len(ran'), ran'[i] = "abort"
        PROVE  aborted'
    <3>1. CASE i = Len(ran) + 1
      BY <3>1, <2>2, <2>5, <2>6
    <3>2. CASE i \in 1 .. Len(ran)
      BY <3>2, <2>2, <2>3, <2>5, <2>6
    <3> QED
      BY <3>1, <3>2, <2>1, <2>5
  <2>7. ASSUME fns[n] = "flush"
        PROVE  aborted \/ taken = <<"flush">>
    <3> taken \in CallbackLists
      BY DEF Registered
    <3>0. n <= Len(taken) /\ taken[n] = "flush"
      BY <2>1, <2>7
    <3>1. taken = <<"flush", "abort">> \/ taken = <<"flush">>
      <4>1. taken # <<>>
        BY <2>1, <3>0
      <4>2. ASSUME taken = <<"abort">> PROVE FALSE
        <5>1. Len(taken) = 1 /\ taken[1] = "abort"
          BY <4>2
        <5>2. n = 1
          BY <5>1, <3>0, <2>1
        <5> QED
          BY <5>1, <5>2, <3>0
      <4> QED
        BY <4>1, <4>2 DEF CallbackLists
    <3>2. CASE taken = <<"flush", "abort">>
      <4>1. Len(taken) = 2 /\ taken[2] = "abort"
        BY <3>2
      <4>2. n = 1 /\ Len(ran) = 1
        <5>1. n # 2
          BY <3>0, <4>1
        <5>2. n \in Nat \ {0} /\ Len(ran) \in Nat /\ Len(ran) + n = 2
          BY <2>1, <4>1
        <5> QED
          BY <5>1, <5>2, TwoAreLeft
      <4>3. ran[1] = "abort"
        BY <2>4, <4>1, <4>2
      <4> QED
        BY <2>3, <4>2, <4>3
    <3> QED
      BY <3>1, <3>2
  <2>8. exporter' = "shut" => aborted' \/ taken' = <<"flush">>
    BY <2>2, <2>7
  <2> QED
    BY <2>6, <2>8
<1>7. CASE ExitOnSignal
  BY <1>7 DEF ExitOnSignal
<1>8. CASE BeginCheck \/ OpenStore \/ Report
  BY <1>8 DEF BeginCheck, OpenStore, Report
<1>9. ASSUME NEW s \in FileStates, StoreChanges(s) PROVE FlushLast'
  BY <1>9 DEF StoreChanges
<1>10. CASE UNCHANGED vars
  BY <1>10 DEF vars
<1> QED
  BY <1>1, <1>2, <1>3, <1>4, <1>5, <1>6, <1>7, <1>8, <1>9, <1>10
     DEF Next, MainStep, HandlerStep, TickerStep

\* A check finds what the file is like at that moment, and reports it later.
LEMMA VerdictStep ==
  ASSUME TypeOK, Startup, Verdict, [Next]_vars
  PROVE  Verdict'
<1> USE DEF TypeOK, Startup, Verdict, settings, mainVars, handlerVars, tickerVars
<1>1. CASE BuildLayer \/ InstallHandlers \/ OnShutdownFlush
  BY <1>1 DEF BuildLayer, InstallHandlers, OnShutdownFlush
<1>2. CASE ResolveStore
  BY <1>2 DEF ResolveStore
<1>3. CASE Register
  <2>1. registry'["store"].status = "Healthy"
    BY <1>3 DEF Register
  <2> QED
    BY <1>3, <2>1 DEF Register
<1>4. CASE StartTicker \/ OnShutdownAbort \/ Serve \/ Fail \/ Disconnect
  BY <1>4 DEF StartTicker, OnShutdownAbort, Serve, Fail, Disconnect
<1>5. CASE ExitOnError \/ ExitOnReturn \/ Listen \/ Signal \/ TakeCallbacks
           \/ RunLast \/ ExitOnSignal
  BY <1>5 DEF ExitOnError, ExitOnReturn, Listen, Signal, TakeCallbacks,
              RunLast, ExitOnSignal
<1>6. CASE BeginCheck
  BY <1>6 DEF BeginCheck
<1>7. CASE OpenStore
  <2>1. /\ store \in {"absent", "present"} /\ ticker = "checking"
        /\ outcome' = IF store = "present" THEN "Healthy" ELSE "Unhealthy"
    BY <1>7 DEF OpenStore, FileStates
  <2>2. UNCHANGED <<main, ticker, registry, seen, store>>
    BY <1>7 DEF OpenStore
  <2>3. store \in seen'.check
    BY <2>1, <2>2
  <2>4. /\ outcome' = "Healthy" => "present" \in seen'.check
        /\ outcome' = "Unhealthy" => "absent" \in seen'.check
    BY <2>1, <2>3
  <2> QED
    BY <2>2, <2>3, <2>4
<1>8. CASE Report
  <2>1. /\ registry \in Registries /\ outcome \in {"Healthy", "Unhealthy"}
        /\ registry' = [registry EXCEPT !["store"].status = outcome,
                                        !["store"].checked = TRUE]
    BY <1>8 DEF Report
  <2>2. registry'["store"].status = outcome
    BY <2>1 DEF Registries
  <2>3. /\ seen'.verdict = seen.check /\ ticker' = "waiting" /\ main' = main
    BY <1>8 DEF Report
  <2> QED
    BY <1>8, <2>1, <2>2, <2>3 DEF Report
<1>9. ASSUME NEW s \in FileStates, StoreChanges(s) PROVE Verdict'
  <2>1. seen.verdict \subseteq seen'.verdict /\ seen.check \subseteq seen'.check
    BY <1>9 DEF StoreChanges
  <2>2. ticker = "checking" => s \in seen'.check
    BY <1>9 DEF StoreChanges
  <2>3. store' = s /\ UNCHANGED <<main, ticker, outcome, registry>>
    BY <1>9 DEF StoreChanges
  <2> QED
    BY <2>1, <2>2, <2>3
<1>10. CASE UNCHANGED vars
  BY <1>10 DEF vars
<1> QED
  BY <1>1, <1>2, <1>3, <1>4, <1>5, <1>6, <1>7, <1>8, <1>9, <1>10
     DEF Next, MainStep, HandlerStep, TickerStep

-----------------------------------------------------------------------------
\* What /healthz answers for the one component there is.
LEMMA OneComponent ==
  ASSUME registry \in Registries
  PROVE  /\ registry["store"].status = "Healthy" => healthz = 200
         /\ registry["store"].status = "Unhealthy" => healthz = 503
<1> DEFINE bad == {c \in DOMAIN registry : registry[c].status # "Healthy"}
<1>1. DOMAIN registry = {"store"} /\ registry["store"].critical
  BY DEF Registries
<1>2. ASSUME registry["store"].status = "Healthy" PROVE healthz = 200
  <2>1. bad = {}
    BY <1>1, <1>2
  <2> QED
    BY <2>1 DEF healthz, overall_status
<1>3. ASSUME registry["store"].status = "Unhealthy" PROVE healthz = 503
  <2>1. "store" \in bad
    BY <1>1, <1>3
  <2> QED
    BY <1>1, <1>3, <2>1 DEF healthz, overall_status
<1> QED
  BY <1>2, <1>3

LEMMA Inductive == Spec => []IInv
<1>1. IInv /\ [Next]_vars => IInv'
  BY TypeStep, StartupStep, RegisteredStep, ShutdownStep, FlushLastStep,
     VerdictStep DEF IInv
<1> QED
  BY InitIInv, <1>1, PTL DEF Spec

\* Every reachable state is well typed; a check never reports to a component
\* that is not registered (run_once, report).
THEOREM TypeCorrect == Spec => []TypeOK
BY Inductive, PTL DEF IInv

\* The callbacks run as on_shutdown says, and the exporter is shut down after
\* the health checks, whenever the signal comes.
THEOREM CleanupIsComplete == Spec => []CleanupComplete
<1>1. IInv => CleanupComplete
  <2> SUFFICES ASSUME IInv PROVE CleanupComplete
    OBVIOUS
  <2> USE DEF IInv, TypeOK, Shutdown, FlushLast
  <2>1. exporter = "shut" => aborted \/ taken = <<"flush">>
    OBVIOUS
  <2>2. ASSUME exit = "signal"
        PROVE  /\ Len(ran) = Len(taken)
               /\ \A i \in DOMAIN ran : ran[i] = taken[Len(taken) + 1 - i]
    <3>1. fns = <<>> /\ Len(fns) = 0 /\ DOMAIN ran = 1 .. Len(ran)
      BY <2>2
    <3> QED
      BY <3>1
  <2> QED
    BY <2>1, <2>2 DEF CleanupComplete
<1> QED
  BY Inductive, <1>1, PTL

\* What /healthz answers was true during the check it is from.
THEOREM VerdictHonest == Spec => []VerdictIsHonest
<1>1. IInv => VerdictIsHonest
  <2> SUFFICES ASSUME IInv, main \in {"serve", "serving"}
               PROVE  IF healthz = 200 THEN "present" \in seen.verdict
                                       ELSE "absent" \in seen.verdict
    BY DEF VerdictIsHonest
  <2>1. registry \in Registries
    BY DEF IInv, TypeOK, Startup
  <2>2. registry["store"].status \in {"Healthy", "Unhealthy"}
    BY <2>1 DEF Registries
  <2>3. IF registry["store"].status = "Healthy"
          THEN "present" \in seen.verdict
          ELSE "absent" \in seen.verdict
    BY <2>1, RegistryKinds DEF IInv, Verdict
  <2> QED
    BY <2>1, <2>2, <2>3, OneComponent
<1> QED
  BY Inductive, <1>1, PTL
=============================================================================
