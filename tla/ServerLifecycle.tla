---------------------------- MODULE ServerLifecycle ----------------------------
(***************************************************************************)
(* One API process from start to exit: runServe (cmd/hyperfleet-api/       *)
(* servecmd/cmd.go), its three HTTP servers (server/server.go), the closer *)
(* that tears everything down in reverse order of registration             *)
(* (pkg/closer/closer.go) and the readiness flags (pkg/health).            *)
(*                                                                         *)
(* The servers start in goroutines of their own; a failure reaches main    *)
(* through a channel, as does the news that all are listening.  The signal *)
(* may come at any time, and so may a server's failure.                    *)
(***************************************************************************)
EXTENDS Integers, Sequences

CONSTANTS
    Tracing,     \* cfg.Tracing.Enabled
    JWT,         \* cfg.Server.JWT.Enabled
    MaxRequests  \* bound on the API requests in flight

ASSUME ConfigAssumption == Tracing \in BOOLEAN /\ JWT \in BOOLEAN /\ MaxRequests \in Nat

Servers == {"api", "metrics", "health"}
Steps == {"db", "otel", "jwt", "readiness"} \cup Servers

VARIABLES
    main,          \* where runServe is
    registered,    \* the closer's steps, in order of registration
    booted,        \* how far initialisation has come in Plan
    srv,           \* srv[s]: "idle", "starting", "serving", "refused" (Start failed before
                   \*   it announced the listener), "died" (after) or "stopped"
    results,       \* servers whose error is in the serverResults channel
    allListening,  \* the channel of that name is closed
    signal,        \* SIGTERM, SIGINT or the context's end, not yet acted upon
    ready, shuttingDown,  \* health.ReadinessState
    requests,      \* API requests being handled
    down,          \* servers whose Shutdown has been called
    cut,           \* the API server's connections were closed on running requests
    done           \* how many of its steps the closer has done, from the last registered

vars == <<main, registered, booted, srv, results, allListening, signal, ready,
          shuttingDown, requests, down, cut, done>>

\* Mutants: the readiness flag is registered first and so set last; the database
\* after the API server.
PlanReadinessFirst == <<"readiness", "db", "otel", "jwt", "api", "metrics", "health">>

PlanDatabaseLate == <<"otel", "jwt", "api", "db", "metrics", "health", "readiness">>

\* What initialisation registers with the closer, in this order.
Plan == <<"db", "otel", "jwt", "api", "metrics", "health", "readiness">>

\* Tracing and JWT are initialised only where they are enabled.
Configured(step) == (step = "otel" => Tracing) /\ (step = "jwt" => JWT)

Init ==
    /\ main = "booting"
    /\ registered = <<>>
    /\ booted = 0
    /\ srv = [s \in Servers |-> "idle"]
    /\ results = {}
    /\ allListening = FALSE
    /\ signal = FALSE
    /\ ready = FALSE
    /\ shuttingDown = FALSE
    /\ requests = 0
    /\ down = {}
    /\ cut = FALSE
    /\ done = 0

-----------------------------------------------------------------------------
(* Initialisation, sequential. *)

BootStep ==
    /\ main = "booting"
    /\ booted < Len(Plan) /\ Configured(Plan[booted + 1])
    /\ booted' = booted + 1
    /\ registered' = Append(registered, Plan[booted + 1])
    /\ UNCHANGED <<main, srv, results, allListening, signal, ready, shuttingDown,
                   requests, down, cut, done>>

\* What is not configured is left out; so is, with a warning in the log, a trace
\* provider that cannot be built.
SkipStep ==
    /\ main = "booting"
    /\ booted < Len(Plan) /\ (Configured(Plan[booted + 1]) => Plan[booted + 1] = "otel")
    /\ booted' = booted + 1
    /\ UNCHANGED <<main, registered, srv, results, allListening, signal, ready,
                   shuttingDown, requests, down, cut, done>>

\* The session factory and the JWT handler panic, BuildAPIServer returns an
\* error: runServe leaves, and its deferred Close runs.
BootFails ==
    /\ main = "booting"
    /\ booted < Len(Plan) /\ Configured(Plan[booted + 1])
    /\ Plan[booted + 1] \in {"db", "jwt", "api"}
    /\ main' = "closing"
    /\ UNCHANGED <<registered, booted, srv, results, allListening, signal, ready,
                   shuttingDown, requests, down, cut, done>>

StartServers ==
    /\ main = "booting"
    /\ booted = Len(Plan)
    /\ main' = "waiting"
    /\ srv' = [s \in Servers |-> "starting"]
    /\ UNCHANGED <<registered, booted, results, allListening, signal, ready,
                   shuttingDown, requests, down, cut, done>>

-----------------------------------------------------------------------------
(* The servers' goroutines. *)

\* Listen, check the certificate, announce, serve.  After Shutdown the
\* http.Server refuses to serve and Start returns without an error.
Listen(s) ==
    /\ main # "exited"
    /\ srv[s] = "starting"
    /\ srv' = [srv EXCEPT ![s] = IF s \in down THEN "stopped" ELSE "serving"]
    /\ UNCHANGED <<main, registered, booted, results, allListening, signal, ready,
                   shuttingDown, requests, down, cut, done>>

\* Mutant: the error is dropped.
ServerFailsSilently(s) ==
    /\ main # "exited"
    /\ srv[s] \in {"starting", "serving"}
    /\ srv' = [srv EXCEPT ![s] = IF @ = "starting" THEN "refused" ELSE "died"]
    /\ UNCHANGED <<main, registered, booted, results, allListening, signal, ready,
                   shuttingDown, requests, down, cut, done>>

\* The port is taken, the certificate is bad, or Serve ends with an error.
ServerFails(s) ==
    /\ main # "exited"
    /\ srv[s] \in {"starting", "serving"}
    /\ srv' = [srv EXCEPT ![s] = IF @ = "starting" THEN "refused" ELSE "died"]
    /\ results' = results \cup {s}
    /\ UNCHANGED <<main, registered, booted, allListening, signal, ready,
                   shuttingDown, requests, down, cut, done>>

\* The goroutine that waits for the three NotifyListening channels.  A server
\* that failed after it announced itself has listened too.
AnnounceListening ==
    /\ main # "exited"
    /\ ~allListening
    /\ \A s \in Servers : srv[s] \in {"serving", "died", "stopped"}
    /\ allListening' = TRUE
    /\ UNCHANGED <<main, registered, booted, srv, results, signal, ready,
                   shuttingDown, requests, down, cut, done>>

Request ==
    /\ srv["api"] = "serving" /\ "api" \notin down
    /\ requests < MaxRequests
    /\ requests' = requests + 1
    /\ UNCHANGED <<main, registered, booted, srv, results, allListening, signal, ready,
                   shuttingDown, down, cut, done>>

Response ==
    /\ main # "exited"
    /\ requests > 0
    /\ requests' = requests - 1
    /\ UNCHANGED <<main, registered, booted, srv, results, allListening, signal, ready,
                   shuttingDown, down, cut, done>>

Signal ==
    /\ ~signal /\ main \in {"booting", "waiting", "listening", "serving"}
    /\ signal' = TRUE
    /\ UNCHANGED <<main, registered, booted, srv, results, allListening, ready,
                   shuttingDown, requests, down, cut, done>>

-----------------------------------------------------------------------------
(* The two selects of runServe. *)

Stop ==
    /\ main \in {"waiting", "serving"}
    /\ \/ signal /\ UNCHANGED results
       \/ \E s \in results : results' = results \ {s}
    /\ main' = "closing"
    /\ UNCHANGED <<registered, booted, srv, allListening, signal, ready, shuttingDown,
                   requests, down, cut, done>>

\* All are listening: an error that is already there still wins.
AllUp ==
    /\ main = "waiting"
    /\ allListening
    /\ IF results = {} THEN main' = "listening" /\ UNCHANGED results
       ELSE main' = "closing" /\ \E s \in results : results' = results \ {s}
    /\ UNCHANGED <<registered, booted, srv, allListening, signal, ready, shuttingDown,
                   requests, down, cut, done>>

SetReady ==
    /\ main = "listening"
    /\ main' = "serving"
    /\ ready' = TRUE
    /\ shuttingDown' = FALSE
    /\ UNCHANGED <<registered, booted, srv, results, allListening, signal, requests,
                   down, cut, done>>

-----------------------------------------------------------------------------
(* Closer.Close: the last step registered that is not done; a step that      *)
(* fails is logged and the next one runs.                                    *)

Closed == {registered[i] : i \in Len(registered) - done + 1 .. Len(registered)}
Remaining == Len(registered) - done
Current == registered[Remaining]

\* readiness, jwt, otel, db.  Closing the database gives up after its timeout.
CloseStep ==
    /\ main = "closing"
    /\ Remaining > 0 /\ Current \notin Servers
    /\ shuttingDown' = (shuttingDown \/ Current = "readiness")
    /\ done' = done + 1
    /\ UNCHANGED <<main, registered, booted, srv, results, allListening, signal, ready,
                   requests, down, cut>>

\* Shutdown closes the listener at once and then waits for running requests.
Shutdown ==
    /\ main = "closing"
    /\ Remaining > 0 /\ Current \in Servers
    /\ main' = "draining"
    /\ down' = down \cup {Current}
    /\ srv' = [srv EXCEPT ![Current] = IF @ = "serving" THEN "stopped" ELSE @]
    /\ UNCHANGED <<registered, booted, results, allListening, signal, ready, shuttingDown,
                   requests, cut, done>>

Drained ==
    /\ main = "draining"
    /\ Current = "api" => requests = 0
    /\ main' = "closing"
    /\ done' = done + 1
    /\ UNCHANGED <<registered, booted, srv, results, allListening, signal, ready,
                   shuttingDown, requests, down, cut>>

\* Mutant: Shutdown without a deadline.
NoDrainTimeout == FALSE /\ UNCHANGED vars

\* The drain budget runs out: Close cuts the connections, handlers run on.
DrainTimeout ==
    /\ main = "draining"
    /\ Current = "api" /\ requests > 0
    /\ main' = "closing"
    /\ cut' = TRUE
    /\ done' = done + 1
    /\ UNCHANGED <<registered, booted, srv, results, allListening, signal, ready,
                   shuttingDown, requests, down>>

Exit ==
    /\ main = "closing"
    /\ Remaining = 0
    /\ main' = "exited"
    /\ UNCHANGED <<registered, booted, srv, results, allListening, signal, ready,
                   shuttingDown, requests, down, cut, done>>

Exited == main = "exited" /\ UNCHANGED vars

Main == \/ BootStep \/ SkipStep \/ BootFails \/ StartServers
        \/ Stop \/ AllUp \/ SetReady
        \/ CloseStep \/ Shutdown \/ Drained \/ DrainTimeout \/ Exit

Next ==
    \/ Main
    \/ \E s \in Servers : Listen(s) \/ ServerFails(s)
    \/ AnnounceListening
    \/ Request \/ Response \/ Signal
    \/ Exited

\* The Go scheduler runs every goroutine that can run; timers fire.  Nothing is
\* assumed of requests, signals or failures.
Spec == /\ Init /\ [][Next]_vars
        /\ WF_vars(Main)
        /\ \A s \in Servers : WF_vars(Listen(s))
        /\ WF_vars(AnnounceListening)

-----------------------------------------------------------------------------
(* Properties *)

IsReady == ready /\ ~shuttingDown

\* /readyz says 200 only while every server has come up and none has been told
\* to shut down: traffic is never invited into a process that is tearing down.
ReadyMeansUp ==
    IsReady => /\ allListening
               /\ down = {} /\ Closed = {}
               /\ main \in {"serving", "closing"}

\* The database is closed under a running request only if the request outlived
\* the API server's drain budget: teardown order protects in-flight work.
DatabaseOutlivesRequests == "db" \in Closed /\ requests > 0 => cut

\* A request to stop, or a server that dies, ends the process: no drain,
\* no lost notification and no failed step keeps it waiting.
StopsWhenAsked == (signal \/ results # {}) ~> (main = "exited")

\* A process whose servers come up becomes ready, unless it is on its way out.
BecomesReady ==
    (main = "waiting") ~> (main = "serving" \/ main = "exited")

-----------------------------------------------------------------------------
(* The inductive invariant. *)

\* The closer's stack: the database is at the bottom and nowhere else, the API
\* server is on it once it has been built, and the readiness flag comes last.
StackInOrder ==
    /\ registered \in Seq(Steps) /\ booted \in 0 .. Len(Plan)
    /\ booted = 0 => registered = <<>>
    /\ booted > 0 => Len(registered) > 0 /\ registered[1] = "db"
    /\ \A i \in 2 .. Len(registered) : registered[i] # "db"
    /\ booted = Len(Plan) => registered[Len(registered)] = "readiness"
    /\ booted >= 4 => \E j \in 2 .. Len(registered) : registered[j] = "api"

\* Nothing is torn down before main closes, and nothing serves or is ready that
\* has not been initialised to the end.
StagesInOrder ==
    /\ requests \in Nat /\ done \in 0 .. Len(registered) /\ DOMAIN srv = Servers
    /\ main \in {"booting", "waiting", "listening", "serving"} => done = 0 /\ down = {}
    /\ main \in {"waiting", "listening", "serving"} => booted = Len(Plan)
    /\ main \in {"listening", "serving"} => allListening
    /\ main = "draining" => Remaining > 0 /\ Current \in down
    /\ requests > 0 \/ srv["api"] # "idle" => main # "booting" /\ booted = Len(Plan)
    /\ IsReady => /\ main \in {"serving", "closing"} /\ booted = Len(Plan)
                  /\ allListening /\ done = 0 /\ down = {}

\* A server that is closed takes no requests, and the API server was closed
\* without any, or cut them off.
DrainedOrCut ==
    /\ Closed \cap Servers \subseteq down
    /\ "api" \in Closed => requests = 0 \/ cut

ServerInv == StackInOrder /\ StagesInOrder /\ DrainedOrCut
=============================================================================
