--------------------------- MODULE ServerLifecycle ---------------------------
(***************************************************************************)
(* The life of a server process (run_harness_server in src/main.rs), from  *)
(* the moment its configuration is loaded until it is gone.  Three flows   *)
(* of control run next to each other on the threads of the runtime: main   *)
(* itself, the signal handler it spawns (src/core/shutdown_handler.rs) and *)
(* the ticker that checks the extracted catalog again and again            *)
(* (src/core/health_check_manager.rs), whose verdict /healthz serves.      *)
(*                                                                         *)
(* A check opens the file without ever yielding: while it hangs, it holds  *)
(* a worker thread, and its timeout cannot fire.  The catalog file may     *)
(* disappear, come back, or become unreachable ("stuck"), MaxChanges times *)
(* in all; MaxSignals signals are sent.                                    *)
(***************************************************************************)
EXTENDS Naturals, Sequences

CONSTANTS
  WorkerCounts, \* how many worker threads the runtime may have
  MaxChanges,
  MaxSignals

ASSUME LifecycleAssumption ==
  /\ WorkerCounts \subseteq Nat \ {0}
  /\ MaxChanges \in Nat
  /\ MaxSignals \in Nat

VARIABLES
  workers,      \* worker threads of the runtime, one per processor
  transport,    \* how this process serves
  main,         \* what main does next
  exit,         \* how the process has ended
  handler,      \* the signal handler
  signals,      \* signals sent so far
  pending,      \* a signal waits for the handler
  cleanup_fns,  \* CLEANUP_FNS
  fns,          \* the callbacks the handler has taken and not yet run
  taken,        \* history: what it took
  ran,          \* history: the callbacks that have run, in order
  exporter,     \* the OpenTelemetry provider
  ticker,       \* the health check loop
  aborted,      \* its task has been aborted
  outcome,      \* what the check under way has found
  registry,     \* the ComponentRegistry
  store,        \* the extracted catalog file
  changes,      \* changes of it so far
  seen          \* history: how the file was during the check the verdict is
                \* from, and since the check under way began

settings == <<workers, transport>>
mainVars == <<settings, main>>
handlerVars == <<handler, pending, fns, taken, ran>>
tickerVars == <<ticker, aborted, outcome, registry, seen>>
vars == <<mainVars, exit, handlerVars, signals, cleanup_fns, exporter,
          tickerVars, store, changes>>

Init ==
  /\ workers \in WorkerCounts
  /\ transport \in {"stdio", "http"}
  /\ main = "trace"
  /\ exit = "none"
  /\ handler = "absent"
  /\ signals = 0
  /\ pending = FALSE
  /\ cleanup_fns = <<>> /\ fns = <<>> /\ taken = <<>> /\ ran = <<>>
  /\ exporter = "none"
  /\ ticker = "absent"
  /\ aborted = FALSE
  /\ outcome = "none"
  /\ registry = <<>>
  /\ store \in {"absent", "present"}
  /\ changes = 0
  /\ seen = [verdict |-> {}, check |-> {}]

Running == exit = "none"
-----------------------------------------------------------------------------
(* main                                                                    *)

\* build_layer: without an exporter the server goes on without tracing.
BuildLayer ==
  /\ Running /\ main = "trace"
  /\ exporter' \in {"none", "open"}
  /\ main' = "install"
  /\ UNCHANGED <<settings, exit, handlerVars, signals, cleanup_fns, tickerVars,
                 store, changes>>

\* install_shutdown_handlers only spawns the task.
InstallHandlers ==
  /\ Running /\ main = "install"
  /\ handler' = "spawned"
  /\ main' = "flush"
  /\ UNCHANGED <<settings, exit, pending, fns, taken, ran, signals,
                 cleanup_fns, exporter, tickerVars, store, changes>>

OnShutdownFlush ==
  /\ Running /\ main = "flush"
  /\ cleanup_fns' = IF exporter = "open" THEN Append(cleanup_fns, "flush")
                                         ELSE cleanup_fns
  /\ main' = "resolve"
  /\ UNCHANGED <<settings, exit, handlerVars, signals, exporter, tickerVars,
                 store, changes>>

\* Mutant: the catalog need not be there before it is registered.
ResolveAny ==
  /\ Running /\ main = "resolve"
  /\ main' = "register"
  /\ seen' = [seen EXCEPT !.verdict = {store}]
  /\ UNCHANGED <<settings, exit, handlerVars, signals, cleanup_fns, exporter,
                 ticker, aborted, outcome, registry, store, changes>>

\* resolve_store_path returns once the catalog has been extracted.
ResolveStore ==
  /\ Running /\ main = "resolve"
  /\ store # "stuck"
  /\ store' = "present"
  /\ main' = "register"
  /\ seen' = [seen EXCEPT !.verdict = {"present"}]
  /\ UNCHANGED <<settings, exit, handlerVars, signals, cleanup_fns, exporter,
                 ticker, aborted, outcome, registry, changes>>

\* Mutant: the catalog counts as optional.
RegisterOptional ==
  /\ Running /\ main = "register"
  /\ registry' = [c \in {"store"} |-> [critical |-> FALSE, status |-> "Healthy",
                                     checked |-> FALSE]]
  /\ main' = "start"
  /\ UNCHANGED <<settings, exit, handlerVars, signals, cleanup_fns, exporter,
                 ticker, aborted, outcome, seen, store, changes>>

\* ComponentRegistry::register: healthy before anything is checked.
Register ==
  /\ Running /\ main = "register"
  /\ registry' = [c \in {"store"} |-> [critical |-> TRUE, status |-> "Healthy",
                                     checked |-> FALSE]]
  /\ main' = "start"
  /\ UNCHANGED <<settings, exit, handlerVars, signals, cleanup_fns, exporter,
                 ticker, aborted, outcome, seen, store, changes>>

\* HealthCheckManager::start spawns the loop; its first tick is due at once.
StartTicker ==
  /\ Running /\ main = "start"
  /\ ticker' = "waiting"
  /\ main' = "abort"
  /\ UNCHANGED <<settings, exit, handlerVars, signals, cleanup_fns, exporter,
                 aborted, outcome, registry, seen, store, changes>>

OnShutdownAbort ==
  /\ Running /\ main = "abort"
  /\ cleanup_fns' = Append(cleanup_fns, "abort")
  /\ main' = "serve"
  /\ UNCHANGED <<settings, exit, handlerVars, signals, exporter, tickerVars,
                 store, changes>>

\* The listener is bound, or the client has shaken hands.
Serve ==
  /\ Running /\ main = "serve"
  /\ main' = "serving"
  /\ UNCHANGED <<settings, exit, handlerVars, signals, cleanup_fns, exporter,
                 tickerVars, store, changes>>

\* No catalog, no free port, no handshake, or a server that breaks.
Fail ==
  /\ Running /\ main \in {"resolve", "serve", "serving"}
  /\ main' = "failed"
  /\ UNCHANGED <<settings, exit, handlerVars, signals, cleanup_fns, exporter,
                 tickerVars, store, changes>>

\* Over stdio the end of the client ends the server; axum::serve never ends.
Disconnect ==
  /\ Running /\ main = "serving"
  /\ transport = "stdio"
  /\ main' = "returned"
  /\ UNCHANGED <<settings, exit, handlerVars, signals, cleanup_fns, exporter,
                 tickerVars, store, changes>>

\* main calls process::exit(1) inside the runtime, whatever else is running.
ExitOnError ==
  /\ Running /\ main = "failed"
  /\ exit' = "error"
  /\ UNCHANGED <<mainVars, handlerVars, signals, cleanup_fns, exporter,
                 tickerVars, store, changes>>

\* When main has returned, the runtime is dropped: no task is polled again,
\* but the workers finish the polls they are in.
ExitOnReturn ==
  /\ Running /\ main = "returned"
  /\ ticker # "checking"
  /\ handler # "shutting"
  /\ exit' = "returned"
  /\ UNCHANGED <<mainVars, handlerVars, signals, cleanup_fns, exporter,
                 tickerVars, store, changes>>
-----------------------------------------------------------------------------
(* The signal handler.                                                     *)

\* A worker is free to poll the handler, and the runtime still polls.
Polled == /\ Running /\ main # "returned"
          /\ ticker = "checking" => workers > 1

\* The task is polled for the first time: from now on signals are caught.
Listen ==
  /\ Polled
  /\ handler = "spawned"
  /\ handler' = "listening"
  /\ UNCHANGED <<mainVars, exit, pending, fns, taken, ran, signals, cleanup_fns,
                 exporter, tickerVars, store, changes>>

\* The system delivers a signal: before somebody listens it kills, and once
\* the handler has returned from its select nobody waits for it any more.
Signal ==
  /\ Running
  /\ signals < MaxSignals
  /\ signals' = signals + 1
  /\ exit' = IF handler \in {"absent", "spawned"} THEN "killed" ELSE exit
  /\ pending' = (handler = "listening")
  /\ UNCHANGED <<mainVars, handler, fns, taken, ran, cleanup_fns, exporter,
                 tickerVars, store, changes>>

\* shutdown: the callbacks registered so far are taken out.
TakeCallbacks ==
  /\ Polled
  /\ handler = "listening"
  /\ pending
  /\ handler' = "shutting"
  /\ pending' = FALSE
  /\ fns' = cleanup_fns
  /\ taken' = cleanup_fns
  /\ cleanup_fns' = <<>>
  /\ UNCHANGED <<mainVars, exit, ran, signals, exporter, tickerVars, store,
                 changes>>

\* Mutant: the callbacks run in the order they were registered.
RunFirst ==
  /\ Running
  /\ handler = "shutting"
  /\ fns # <<>>
  /\ fns' = Tail(fns)
  /\ ran' = Append(ran, Head(fns))
  /\ exporter' = IF Head(fns) = "flush" THEN "shut" ELSE exporter
  /\ aborted' = (aborted \/ Head(fns) = "abort")
  /\ UNCHANGED <<mainVars, exit, handler, pending, taken, signals, cleanup_fns,
                 ticker, outcome, registry, seen, store, changes>>

\* They are run from the last to the first, in the same poll.
RunLast ==
  /\ Running
  /\ handler = "shutting"
  /\ fns # <<>>
  /\ LET f == fns[Len(fns)] IN
       /\ fns' = SubSeq(fns, 1, Len(fns) - 1)
       /\ ran' = Append(ran, f)
       /\ exporter' = IF f = "flush" THEN "shut" ELSE exporter
       /\ aborted' = (aborted \/ f = "abort")
  /\ UNCHANGED <<mainVars, exit, handler, pending, taken, signals, cleanup_fns,
                 ticker, outcome, registry, seen, store, changes>>

\* Mutant: the handler goes on listening instead of ending the process.
ListenAgain ==
  /\ Running
  /\ handler = "shutting"
  /\ fns = <<>>
  /\ handler' = "listening"
  /\ UNCHANGED <<mainVars, exit, pending, fns, taken, ran, signals, cleanup_fns,
                 exporter, tickerVars, store, changes>>

\* process::exit(0)
ExitOnSignal ==
  /\ Running
  /\ handler = "shutting"
  /\ fns = <<>>
  /\ exit' = "signal"
  /\ UNCHANGED <<mainVars, handlerVars, signals, cleanup_fns, exporter,
                 tickerVars, store, changes>>
-----------------------------------------------------------------------------
(* The health check loop and the file it checks.                           *)

\* tick().await yields: this is where an aborted loop ends.
BeginCheck ==
  /\ Running /\ main # "returned"
  /\ ticker = "waiting"
  /\ ~aborted
  /\ handler = "shutting" => workers > 1
  /\ ticker' = "checking"
  /\ outcome' = "none"
  /\ seen' = [seen EXCEPT !.check = {store}]
  /\ UNCHANGED <<mainVars, exit, handlerVars, signals, cleanup_fns, exporter,
                 aborted, registry, store, changes>>

\* open_store either succeeds or fails; timeout only sees that it is done.
OpenStore ==
  /\ Running
  /\ ticker = "checking" /\ outcome = "none"
  /\ store # "stuck"
  /\ outcome' = IF store = "present" THEN "Healthy" ELSE "Unhealthy"
  /\ UNCHANGED <<mainVars, exit, handlerVars, signals, cleanup_fns, exporter,
                 ticker, aborted, registry, seen, store, changes>>

\* Mutant: only failures are reported.
ReportFailure ==
  /\ Running
  /\ ticker = "checking" /\ outcome # "none"
  /\ ticker' = "waiting"
  /\ registry' = IF outcome = "Healthy" THEN registry
                   ELSE [registry EXCEPT !["store"].status = outcome,
                                         !["store"].checked = TRUE]
  /\ seen' = [seen EXCEPT !.verdict = seen.check]
  /\ UNCHANGED <<mainVars, exit, handlerVars, signals, cleanup_fns, exporter,
                 aborted, outcome, store, changes>>

Report ==
  /\ Running
  /\ ticker = "checking" /\ outcome # "none"
  /\ ticker' = "waiting"
  /\ registry' = [registry EXCEPT !["store"].status = outcome,
                                  !["store"].checked = TRUE]
  /\ seen' = [seen EXCEPT !.verdict = seen.check]
  /\ UNCHANGED <<mainVars, exit, handlerVars, signals, cleanup_fns, exporter,
                 aborted, outcome, store, changes>>

\* last_checked_at is None.
Unchecked == registry = <<>> \/ ~registry["store"].checked

FileStates == {"absent", "present", "stuck"}

\* A cleaner of the temporary directory, another process, or the disk.
StoreChanges(s) ==
  /\ Running
  /\ changes < MaxChanges
  /\ s # store
  /\ changes' = changes + 1
  /\ store' = s
  /\ seen' = IF main \in {"trace", "install", "flush", "resolve"} THEN seen
               ELSE [seen EXCEPT !.check = @ \cup {s},
                                 !.verdict =
                                   IF Unchecked THEN @ \cup {s} ELSE @]
  /\ UNCHANGED <<mainVars, exit, handlerVars, signals, cleanup_fns, exporter,
                 ticker, aborted, outcome, registry>>

overall_status(components) ==
  LET bad == {c \in DOMAIN components : components[c].status # "Healthy"} IN
  IF \E c \in bad : components[c].critical /\ components[c].status = "Unhealthy"
    THEN "Unhealthy"
    ELSE IF bad # {} THEN "Degraded" ELSE "Healthy"

\* What GET /healthz answers.
healthz == IF overall_status(registry) = "Unhealthy" THEN 503 ELSE 200

MainStep ==
  \/ BuildLayer \/ InstallHandlers \/ OnShutdownFlush \/ ResolveStore
  \/ Register \/ StartTicker \/ OnShutdownAbort \/ ExitOnError \/ ExitOnReturn
HandlerStep == Listen \/ TakeCallbacks \/ RunLast \/ ExitOnSignal
TickerStep == BeginCheck \/ OpenStore \/ Report

Next ==
  \/ MainStep \/ HandlerStep \/ TickerStep
  \/ Serve \/ Fail \/ Disconnect
  \/ Signal
  \/ \E s \in FileStates : StoreChanges(s)

Spec == Init /\ [][Next]_vars

\* Every task that can be polled is polled in the end.  On a single worker the
\* handler can be polled only between two checks, again and again, which the
\* run queue of the runtime turns into strong fairness.  Clients, failures,
\* signals and the file do as they like.
FairSpec == /\ Spec
            /\ WF_vars(MainStep) /\ SF_vars(HandlerStep) /\ WF_vars(TickerStep)
-----------------------------------------------------------------------------
\* What main registers for the shutdown: to flush the exporter, and to abort
\* the health checks.
Callbacks == {"flush", "abort"}

\* The catalog is the only component that is registered, as a critical one.
Registries ==
  [{"store"} -> [critical : {TRUE}, status : {"Healthy", "Unhealthy"},
                 checked : BOOLEAN]]

TypeOK ==
  /\ workers \in WorkerCounts
  /\ transport \in {"stdio", "http"}
  /\ main \in {"trace", "install", "flush", "resolve", "register", "start",
               "abort", "serve", "serving", "failed", "returned"}
  /\ exit \in {"none", "killed", "signal", "error", "returned"}
  /\ handler \in {"absent", "spawned", "listening", "shutting"}
  /\ signals \in 0 .. MaxSignals
  /\ pending \in BOOLEAN
  /\ cleanup_fns \in Seq(Callbacks)
  /\ fns \in Seq(Callbacks)
  /\ taken \in Seq(Callbacks)
  /\ ran \in Seq(Callbacks)
  /\ exporter \in {"none", "open", "shut"}
  /\ ticker \in {"absent", "waiting", "checking"}
  /\ aborted \in BOOLEAN
  /\ outcome \in {"none", "Healthy", "Unhealthy"}
  /\ registry = <<>> \/ registry \in Registries
  /\ store \in FileStates
  /\ changes \in 0 .. MaxChanges
  /\ seen \in [verdict : SUBSET FileStates, check : SUBSET FileStates]

\* A process that ends by a signal has run exactly the callbacks registered
\* when the signal was handled, each once and the last one first, so that no
\* health check can begin once the exporter has been shut down, unless its
\* loop came too late to be among them; what is registered after that never
\* runs (on_shutdown: "run in reverse registration order during shutdown").
CleanupComplete ==
  /\ exit = "signal" =>
       /\ Len(ran) = Len(taken)
       /\ \A i \in DOMAIN ran : ran[i] = taken[Len(taken) + 1 - i]
  /\ exporter = "shut" => aborted \/ taken = <<"flush">>

\* What /healthz says was true at some moment of the check it is from, and
\* before the first check ends, at some moment since the catalog was
\* extracted; a component is registered as healthy without a check, and a
\* check that hangs leaves the old verdict (ComponentRegistry, run_once).
VerdictIsHonest ==
  main \in {"serve", "serving"} =>
    IF healthz = 200 THEN "present" \in seen.verdict
                     ELSE "absent" \in seen.verdict

\* While the server serves, its verdict follows the file: a catalog that is
\* gone for good makes it unhealthy, one that is back for good makes it
\* healthy again (HealthCheckManager::start, run_once).
HealthFollowsStore ==
  LET Stays(s) == <>[](/\ Running /\ main = "serving" /\ ~aborted /\ store = s)
  IN /\ Stays("absent") => <>[](healthz = 503)
     /\ Stays("present") => <>[](healthz = 200)

\* Whenever a signal is sent, the process ends: at once, by its handler, or
\* because main ends.  The exceptions are a check that hangs for good on the
\* only worker, or in a process whose client has gone
\* (install_shutdown_handlers, shutdown, main).
SignalEndsProcess ==
  (\/ <>[](store # "stuck")
   \/ workers > 1 /\ [](main # "returned"))
    => (signals > 0 ~> ~Running)
=============================================================================
