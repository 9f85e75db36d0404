------------------------------- MODULE Server -------------------------------
(***************************************************************************)
(* The process of app/envoker: run configures the database, the web        *)
(* handler and the server from the environment, serves requests through    *)
(* WebPipeline, and stops on a signal or when its listener fails.          *)
(***************************************************************************)
EXTENDS WebPipeline, EnvTags

CONSTANTS
  Settings,   \* what the variables of one configuration may hold
  Signals     \* BOUND: how many signals arrive

ASSUME SignalsAssumption == Signals \in Nat

VARIABLES
  phase,     \* how far run is
  env,       \* the environment: MAX_CONNS and CORS_ORIGINS
  global,    \* the web handler's middleware
  listener,  \* the goroutine of ListenAndServe: "failed" if it had served before
  errors,    \* the channel serverErrors, which has one place
  shutdown,  \* the channel of signals, which has one place
  signals,   \* how many signals arrived
  exit,      \* the process's exit code, -1 while it runs
  gaveUp     \* history: did Shutdown's context expire?

processVars == <<phase, env, global, listener, errors, shutdown, signals, exit, gaveUp>>
vars == <<webVars, processVars>>

Phases == {"database", "handler", "server", "notify", "select", "draining", "closing", "exiting",
           "exited"}

Init ==
  /\ WebInit
  /\ phase = "database"
  /\ env \in [{"maxConns", "corsOrigins"} -> Settings]
  /\ env["corsOrigins"] # Zero   \* a text that is not empty has a part, if only a blank one
  /\ global = <<>>
  /\ listener = "none"
  /\ errors = <<>> /\ shutdown = <<>>
  /\ signals = 0 /\ exit = -1 /\ gaveUp = FALSE

MaxConnsField == Field("int", TRUE, FALSE, MaxConns, env["maxConns"], Zero)
CorsOriginsField == Field("slice", TRUE, FALSE, 1, env["corsOrigins"], Zero)

Fails(next) == phase' = next /\ exit' = 1
-----------------------------------------------------------------------------
\* postgresdb.NewFromEnv: a bad variable, a pool of no connections or a
\* database that does not answer its ping ends the start.
OpenDatabase ==
  /\ phase = "database"
  /\ LET parsed == ParseEnvTags(<<MaxConnsField>>)
     IN \/ /\ ~ parsed.err /\ parsed.values[1] > 0
           /\ pool' = "open" /\ phase' = "handler" /\ UNCHANGED exit
        \/ Fails("exiting") /\ UNCHANGED pool
  /\ UNCHANGED <<stage, chain, at, resp, status, client, counters,
                 env, global, listener, errors, shutdown, signals, gaveUp>>

MainMiddlewarePanicsFirst == <<"panics", "logger", "errors", "metrics">>

\* WithGlobalMiddleware in main.go.
MainMiddleware == <<"logger", "errors", "metrics", "panics">>

\* NewWebHandlerFromEnv: CORS goes in front unless its list of origins is empty.
MakeHandler ==
  /\ phase = "handler"
  /\ LET parsed == ParseEnvTags(<<CorsOriginsField>>)
     IN IF parsed.err THEN Fails("closing") /\ UNCHANGED global
        ELSE /\ global' = IF parsed.values[1] = Zero THEN MainMiddleware
                          ELSE <<"cors">> \o MainMiddleware
             /\ phase' = "server" /\ UNCHANGED exit
  /\ UNCHANGED <<webVars, env, listener, errors, shutdown, signals, gaveUp>>

\* NewServerFromEnv, and the goroutine that listens.
StartServer ==
  /\ phase = "server"
  /\ \/ Fails("closing") /\ UNCHANGED listener
     \/ phase' = "notify" /\ listener' = "starting" /\ UNCHANGED exit
  /\ UNCHANGED <<webVars, env, global, errors, shutdown, signals, gaveUp>>

\* ListenAndServe returns an error if it cannot listen, or cannot accept any
\* more.  It then leaves the connections open that it accepted.
Listen ==
  /\ phase # "exited"
  /\ \/ listener = "starting" /\ listener' = "open" /\ UNCHANGED errors
     \/ /\ \/ listener = "starting" /\ listener' = "stopped"
           \/ listener = "open" /\ listener' = "failed"
        /\ errors' = Append(errors, "listener's error")
  /\ UNCHANGED <<webVars, phase, env, global, shutdown, signals, exit, gaveUp>>

Notify ==
  /\ phase = "notify"
  /\ phase' = "select"
  /\ UNCHANGED <<webVars, env, global, listener, errors, shutdown, signals, exit, gaveUp>>

Cut == [q \in Requests |-> IF q \in InFlight THEN "cut" ELSE stage[q]]

\* A signal before signal.Notify ends the process at once; after it, one that
\* finds the channel full is dropped.
Signal ==
  /\ signals < Signals /\ phase # "exited"
  /\ signals' = signals + 1
  /\ IF phase \in {"database", "handler", "server", "notify"}
     THEN phase' = "exited" /\ exit' = 2 /\ stage' = Cut /\ UNCHANGED shutdown
     ELSE /\ shutdown' = IF Len(shutdown) < 1 THEN Append(shutdown, "signal") ELSE shutdown
          /\ UNCHANGED <<phase, exit, stage>>
  /\ UNCHANGED <<chain, at, resp, status, client, counters, pool,
                 env, global, listener, errors, gaveUp>>

\* select takes either channel if both are ready.
ServerError ==
  /\ phase = "select" /\ errors # <<>>
  /\ errors' = Tail(errors)
  /\ Fails("closing")
  /\ UNCHANGED <<webVars, env, global, listener, shutdown, signals, gaveUp>>

BeginShutdownSends ==
  /\ phase = "select" /\ shutdown # <<>>
  /\ shutdown' = Tail(shutdown)
  /\ phase' = "draining"
  /\ listener' = "stopped"
  /\ errors' = Append(errors, "server closed")
  /\ UNCHANGED <<webVars, env, global, signals, exit, gaveUp>>

BeginShutdownListensOn ==
  /\ phase = "select" /\ shutdown # <<>>
  /\ shutdown' = Tail(shutdown)
  /\ phase' = "draining"
  /\ UNCHANGED <<webVars, env, global, listener, errors, signals, exit, gaveUp>>

\* Shutdown closes the listener and idle connections first; ListenAndServe
\* returns, if it has not.
BeginShutdown ==
  /\ phase = "select" /\ shutdown # <<>>
  /\ shutdown' = Tail(shutdown)
  /\ phase' = "draining"
  /\ listener' = "stopped"
  /\ errors' = IF listener \in {"stopped", "failed"} THEN errors ELSE Append(errors, "server closed")
  /\ UNCHANGED <<webVars, env, global, signals, exit, gaveUp>>

\* No connection is in use any more.
ShutdownDone ==
  /\ phase = "draining" /\ InFlight = {}
  /\ phase' = "closing" /\ exit' = 0
  /\ UNCHANGED <<webVars, env, global, listener, errors, shutdown, signals, gaveUp>>

ExpiryIgnored ==
  /\ phase = "draining" /\ InFlight # {}
  /\ phase' = "closing" /\ exit' = 0
  /\ UNCHANGED <<webVars, env, global, listener, errors, shutdown, signals, gaveUp>>

NeverExpires == FALSE /\ UNCHANGED vars

ExpiryEndsProcess ==
  /\ phase = "draining" /\ InFlight # {}
  /\ gaveUp' = TRUE
  /\ Fails("exiting")
  /\ UNCHANGED <<webVars, env, global, listener, errors, shutdown, signals>>

\* The deadline of 30 ns passed: run returns the error.
ShutdownExpires ==
  /\ phase = "draining" /\ InFlight # {}
  /\ gaveUp' = TRUE
  /\ Fails("closing")
  /\ UNCHANGED <<webVars, env, global, listener, errors, shutdown, signals>>

\* The deferred pg.Close, first half: no connection is given out any more.
ClosePool ==
  /\ phase = "closing" /\ pool = "open"
  /\ pool' = "closed"
  /\ UNCHANGED <<stage, chain, at, resp, status, client, counters, processVars>>

\* Second half: all of them are back.
PoolClosed ==
  /\ phase = "closing" /\ pool = "closed" /\ Holders = {}
  /\ phase' = "exiting"
  /\ UNCHANGED <<webVars, env, global, listener, errors, shutdown, signals, exit, gaveUp>>

\* os.Exit, or main's end, cuts what is still in flight.
Exit ==
  /\ phase = "exiting"
  /\ phase' = "exited"
  /\ stage' = Cut
  /\ UNCHANGED <<chain, at, resp, status, client, counters, pool,
                 env, global, listener, errors, shutdown, signals, exit, gaveUp>>

\* A request comes in while somebody listens, or on a connection that a listener
\* left open, until the process ends; its route may have middleware.
Accept(q) ==
  /\ listener \in {"open", "failed"} /\ phase # "exited"
  /\ \E own \in {<<>>, <<"own">>} : Arrive(q, global \o own)
  /\ UNCHANGED processVars

Serve(q) == phase # "exited" /\ RequestStep(q) /\ UNCHANGED processVars

Stopping ==
  \/ BeginShutdown \/ ShutdownDone \/ ShutdownExpires \/ ServerError \/ ClosePool \/ PoolClosed
  \/ Exit

Next ==
  \/ OpenDatabase \/ MakeHandler \/ StartServer \/ Listen \/ Notify \/ Signal \/ Stopping
  \/ \E q \in Requests : Accept(q) \/ Serve(q)

Spec == Init /\ [][Next]_vars

\* run goes on, and every statement ends; nothing is assumed of the handlers.
FairSpec ==
  /\ Spec
  /\ WF_vars(OpenDatabase) /\ WF_vars(MakeHandler) /\ WF_vars(StartServer) /\ WF_vars(Notify)
  /\ WF_vars(Stopping)
  /\ \A q \in Requests : WF_vars(StatementEnds(q) /\ UNCHANGED processVars)
-----------------------------------------------------------------------------
TypeOK ==
  /\ stage \in [Requests -> Stages]
  /\ at \in [Requests -> Nat] /\ \A q \in Requests : at[q] <= Len(chain[q])
  /\ resp \in [Requests -> Encoders]
  /\ status \in [Requests -> {0, 200, 204, 302, 500}]
  /\ client \in [Requests -> BOOLEAN]
  /\ counters \in [CounterNames -> Nat]
  /\ pool \in {"none", "open", "closed"}
  /\ phase \in Phases /\ exit \in {-1, 0, 1, 2}
  /\ Len(errors) <= 1 /\ Len(shutdown) <= 1 /\ signals <= Signals

(* mid.Panics, mid.Errors: the trace of a panic and the text of an error   *)
(* that is not of package errs end in the log; what Respond gets is an     *)
(* error that a handler wrote (which may quote the repository's).          *)
TracesStayInside ==
  \A q \in Requests : stage[q] = "done" => resp[q].text # "inside"

(* Respond: an answer that looks like a success comes from a handler that  *)
(* had one; no error, panic or failed encoding is answered with 2xx, and   *)
(* every request that was served gets its answer unless its client left.   *)
FailureNeverLooksLikeSuccess ==
  \A q \in Requests : stage[q] = "done" /\ client[q] =>
    /\ status[q] # 0
    /\ status[q] < 400 => resp[q].failed = "no" /\ resp[q].kind # "unencodable"

(* mid.Metrics and mid.Panics: once nothing is in flight, the counters say *)
(* how many requests were served, failed and panicked.                     *)
Served(S) == Cardinality({q \in Requests : stage[q] = "done" /\ resp[q].failed \in S})
CountersAgree ==
  InFlight = {} /\ (\A q \in Requests : stage[q] # "cut") =>
    /\ counters["requests"] = Served({"no", "error", "panic"})
    /\ counters["errors"] = Served({"error", "panic"})
    /\ counters["panics"] = Served({"panic"})

(* main.go's deferred Close: a request finds the pool closed only if a     *)
(* Shutdown ran out of time or the listener failed after it had served,    *)
(* and the process then ends with 1; one that ends with 0 has answered all *)
(* that it accepted.                                                       *)
CleanExitAnswersAll ==
  /\ exit = 0 => InFlight = {} /\ \A q \in Requests : stage[q] # "cut"
  /\ pool = "closed" /\ InFlight # {} => exit = 1 /\ (gaveUp \/ listener = "failed")

(* main.go: once run has subscribed to signals, the process does not end   *)
(* while a statement holds a connection.                                   *)
NoStatementCut ==
  [][phase # "notify" => \A q \in Holders : stage'[q] # "cut"]_vars

(* tags.go: a variable that is set to nothing is not taken for one that is *)
(* not set.  Its default does not come in: without origins there is no     *)
(* CORS, and a pool without a size never opens.                            *)
EmptyIsNotUnset ==
  /\ pool # "none" => env["maxConns"] # Empty
  /\ global # <<>> => (global[1] = "cors" <=> env["corsOrigins"] # Empty)

(* A signal that run has subscribed to ends the process, whatever the      *)
(* handlers do, if statements end.                                         *)
SignalEndsProcess == (phase = "select" /\ shutdown # <<>>) ~> phase = "exited"

(* The process keeps the promises of GracefulServer to its clients, across *)
(* the middleware, the listener's goroutine and every way it can end.      *)
Door ==
  IF phase = "exited" \/ listener = "stopped" THEN "closed"
  ELSE IF listener \in {"open", "failed"} THEN "open" ELSE "new"

Answered(q) ==
  IF status[q] = 0 THEN "unheard" ELSE IF status[q] < 400 THEN "success" ELSE "failure"
Fate(q) ==
  CASE stage[q] = "none" -> "none"
    [] stage[q] = "up" -> IF resp[q].failed = "no" THEN "good" ELSE "bad"
    [] stage[q] = "done" -> Answered(q)
    [] stage[q] = "cut" -> "dropped"
    [] OTHER -> "working"

AllFates == [q \in Requests |-> Fate(q)]
Code == IF phase = "exited" THEN exit ELSE -1

Promise == INSTANCE GracefulServer WITH door <- Door, fate <- AllFates, code <- Code

KeepsPromise == Promise!Spec
-----------------------------------------------------------------------------
(* errs.go:106: "HTTPStatus implements the web package httpStatus          *)
(* interface so the web framework can use the correct http status."        *)
StatusIsTheCodes ==
  \A q \in Requests : status[q] # 0 /\ resp[q].kind = "error" => status[q] = HTTPStatus[resp[q].code]
=============================================================================
