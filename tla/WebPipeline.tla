----------------------------- MODULE WebPipeline ----------------------------
(***************************************************************************)
(* Requests on their way through the web handler: down the chain of        *)
(* middleware to the route's handler, up again with its result or its      *)
(* panic, and through Respond.  The requests run concurrently and share    *)
(* the counters and the connection pool.                                   *)
(***************************************************************************)
EXTENDS Integers, Sequences, FiniteSets

CONSTANTS
  Requests,  \* the requests that may arrive
  MaxConns   \* how many connections the pool has

ASSUME MaxConnsAssumption == MaxConns \in Nat

VARIABLES
  stage,    \* where each request is
  chain,    \* the middleware of its route, outermost first
  at,       \* how many of them it has entered and not left
  resp,     \* the Encoder, or the panic, on its way up
  status,   \* the status it was answered with, 0 before
  client,   \* is its client still there?
  counters, \* the expvar counters
  pool      \* the connection pool: "closed" refuses new statements

webVars == <<stage, chain, at, resp, status, client, counters, pool>>

Stages == {"none", "down", "handler", "connected", "up", "done", "cut"}
Middlewares == {"cors", "logger", "errors", "metrics", "panics", "own"}
CounterNames == {"requests", "errors", "panics"}

\* errs.httpStatus, for the codes that handlers and middleware use.
HTTPStatus ==
  [code \in {"InvalidArgument", "NotFound", "Unauthenticated", "Internal", "InternalOnlyLog"} |->
     CASE code = "InvalidArgument" -> 400
       [] code = "NotFound" -> 404
       [] code = "Unauthenticated" -> 401
       [] OTHER -> 500]
Codes == DOMAIN HTTPStatus

\* An Encoder: data that can or cannot be encoded, nothing (nil), NoResponse
\* after the handler wrote by itself, a redirect, or an error.  text: is it
\* written for the client, does it quote the repository or the driver, or is it
\* the inside of a panic or of an error that is not of package errs?  failed
\* (history): what the handler ran into.
Kinds == {"data", "unencodable", "nil", "noresponse", "redirect", "error", "foreign", "panic"}
Encoder(kind, code, text, failed) ==
  [kind |-> kind, code |-> code, text |-> text, failed |-> failed]
Encoders == [kind : Kinds, code : Codes \union {"none"}, text : {"own", "quoted", "inside"},
             failed : {"no", "error", "panic"}]
Fine(kind) == Encoder(kind, "none", "own", "no")
Error(code) == Encoder("error", code, "own", "error")
\* A generated handler formats the error of its repository into its own.
QuotingError == Encoder("error", "Internal", "quoted", "error")
NoEncoder == Fine("nil")

\* mid.isError: errors of package errs, and of any other type.
IsError(e) == e.kind \in {"error", "foreign"}

WebInit ==
  /\ stage = [q \in Requests |-> "none"]
  /\ chain = [q \in Requests |-> <<>>]
  /\ at = [q \in Requests |-> 0]
  /\ resp = [q \in Requests |-> NoEncoder]
  /\ status = [q \in Requests |-> 0]
  /\ client = [q \in Requests |-> TRUE]
  /\ counters = [c \in CounterNames |-> 0]
  /\ pool = "none"

InFlight == {q \in Requests : stage[q] \notin {"none", "done", "cut"}}
Holders == {q \in Requests : stage[q] = "connected"}

\* The request turns round with this result.
Return(q, e) ==
  /\ stage' = [stage EXCEPT ![q] = "up"]
  /\ resp' = [resp EXCEPT ![q] = e]
-----------------------------------------------------------------------------
\* The mux found the request's route.
Arrive(q, middleware) ==
  /\ stage[q] = "none"
  /\ stage' = [stage EXCEPT ![q] = "down"]
  /\ chain' = [chain EXCEPT ![q] = middleware]
  /\ UNCHANGED <<at, resp, status, client, counters, pool>>

\* Every middleware up to its call of next, and into the handler.  A route's
\* own middleware may refuse the request instead.
Descend(q) ==
  /\ stage[q] = "down"
  /\ \/ /\ at' = [at EXCEPT ![q] = Len(chain[q])]
        /\ stage' = [stage EXCEPT ![q] = "handler"] /\ UNCHANGED resp
     \/ \E i \in DOMAIN chain[q] :
          /\ chain[q][i] = "own"
          /\ at' = [at EXCEPT ![q] = i - 1]
          /\ Return(q, Error("Unauthenticated"))
  /\ UNCHANGED <<chain, status, client, counters, pool>>

\* A statement waits for one of the pool's connections.
Acquire(q) ==
  /\ stage[q] = "handler"
  /\ pool = "open" /\ Cardinality(Holders) < MaxConns
  /\ stage' = [stage EXCEPT ![q] = "connected"]
  /\ UNCHANGED <<chain, at, resp, status, client, counters, pool>>

\* The statement ends and its connection goes back: a result, no row, an error.
StatementEnds(q) ==
  /\ stage[q] = "connected"
  /\ \E e \in {Fine("data"), Error("NotFound"), QuotingError} : Return(q, e)
  /\ UNCHANGED <<chain, at, status, client, counters, pool>>

\* Without a statement: a request that is refused, a handler of one's own, a
\* pool that is closed, a context that ended, a panic.
HandlerReturns(q) ==
  /\ stage[q] = "handler"
  /\ \/ Return(q, Error("InvalidArgument"))
     \/ \E kind \in {"unencodable", "nil", "noresponse", "redirect"} : Return(q, Fine(kind))
     \/ Return(q, Encoder("foreign", "none", "inside", "error"))
     \/ (pool = "closed" \/ ~ client[q]) /\ Return(q, QuotingError)
     \/ Return(q, Encoder("panic", "none", "inside", "panic"))
  /\ UNCHANGED <<chain, at, status, client, counters, pool>>

\* mid.Errors: an error of another type is Internal; InternalOnlyLog stays in
\* the log.  Either way the client gets a text of its own.  What an Internal
\* error quotes goes out.
ErrorsForwardsLogText(e) ==
  IF ~ IsError(e) THEN e
  ELSE IF e.kind = "foreign" THEN [e EXCEPT !.kind = "error", !.code = "Internal", !.text = "own"]
  ELSE e

Errors(e) ==
  IF ~ IsError(e) THEN e
  ELSE IF e.kind = "foreign" \/ e.code = "InternalOnlyLog"
  THEN [e EXCEPT !.kind = "error", !.code = "Internal", !.text = "own"]
  ELSE e

Add(names) == counters' = [c \in CounterNames |-> counters[c] + (IF c \in names THEN 1 ELSE 0)]

\* When next has returned or panicked, the innermost middleware has its turn.
Innermost(q) == chain[q][at[q]]
Leave(q, e) ==
  /\ stage[q] = "up" /\ at[q] > 0
  /\ at' = [at EXCEPT ![q] = @ - 1]
  /\ resp' = [resp EXCEPT ![q] = e]
  /\ UNCHANGED <<stage, chain, status, client, pool>>

\* AddPanics finds the counters in its context only if Metrics is outside.
Panics(q) ==
  /\ stage[q] = "up" /\ at[q] > 0 /\ Innermost(q) = "panics" /\ resp[q].kind = "panic"
  /\ Leave(q, Encoder("error", "InternalOnlyLog", "inside", "panic"))
  /\ Add({c \in {"panics"} : \E i \in 1 .. at[q] : chain[q][i] = "metrics"})

MidErrors(q) ==
  /\ stage[q] = "up" /\ at[q] > 0 /\ Innermost(q) = "errors" /\ resp[q].kind # "panic"
  /\ Leave(q, Errors(resp[q]))
  /\ UNCHANGED counters

Metrics(q) ==
  /\ stage[q] = "up" /\ at[q] > 0 /\ Innermost(q) = "metrics" /\ resp[q].kind # "panic"
  /\ Leave(q, resp[q])
  /\ Add({"requests"} \union (IF IsError(resp[q]) THEN {"errors"} ELSE {}))

\* Logger, CORS and a route's own leave the result as it is; a panic passes by
\* all but Panics, which lets everything else pass.
PassesBy(q) ==
  /\ stage[q] = "up" /\ at[q] > 0
  /\ IF resp[q].kind = "panic" THEN Innermost(q) # "panics"
                               ELSE Innermost(q) \notin {"errors", "metrics"}
  /\ Leave(q, resp[q])
  /\ UNCHANGED counters

Ascend(q) == Panics(q) \/ MidErrors(q) \/ Metrics(q) \/ PassesBy(q)

StatusWithoutError(e) ==
  IF e.kind \in {"error", "foreign"} THEN 500
  ELSE IF e.kind = "redirect" THEN 302
  ELSE IF e.kind = "nil" THEN 204 ELSE 200

\* Respond's choice of a status: the one of an error's code gives way to 500.
\* A NoResponse leaves what the handler wrote.
StatusOf(e) ==
  IF e.kind \in {"error", "foreign", "unencodable"} THEN 500
  ELSE IF e.kind = "redirect" THEN 302
  ELSE IF e.kind = "nil" THEN 204 ELSE 200

\* Nothing is sent to a client who is gone; net/http ends the connection of a
\* panic that nobody recovered.
Respond(q) ==
  /\ stage[q] = "up" /\ at[q] = 0
  /\ IF resp[q].kind = "panic"
     THEN stage' = [stage EXCEPT ![q] = "cut"] /\ UNCHANGED status
     ELSE /\ stage' = [stage EXCEPT ![q] = "done"]
          /\ status' = [status EXCEPT ![q] = IF client[q] THEN StatusOf(resp[q]) ELSE 0]
  /\ UNCHANGED <<chain, at, resp, client, counters, pool>>

\* The client closes the connection, which cancels the request's context.
ClientLeaves(q) ==
  /\ q \in InFlight /\ client[q]
  /\ client' = [client EXCEPT ![q] = FALSE]
  /\ UNCHANGED <<stage, chain, at, resp, status, counters, pool>>

RequestStep(q) ==
  \/ Descend(q) \/ Acquire(q) \/ StatementEnds(q) \/ HandlerReturns(q)
  \/ Ascend(q) \/ Respond(q) \/ ClientLeaves(q)
=============================================================================
