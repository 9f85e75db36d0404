---------------------------- MODULE ServerProofs ----------------------------
(***************************************************************************)
(* Theorems about Server, for any number of requests, connections and      *)
(* signals: what leaves the chain of middleware, and how the process ends. *)
(***************************************************************************)
EXTENDS Server, FiniteSetTheorems, SequenceTheorems, TLAPS

(* The chain of a route: CORS or not, then the four of main.go in their    *)
(* order, then a route's own.                                              *)
Offset(c) == IF c[1] = "cors" THEN 1 ELSE 0

WellBuilt(c) ==
  /\ c \in Seq(Middlewares) /\ Len(c) >= Offset(c) + 4
  /\ \A i \in 1 .. Len(c) :
       /\ c[i] = "errors" <=> i = Offset(c) + 2
       /\ c[i] = "metrics" <=> i = Offset(c) + 3
       /\ c[i] = "panics" <=> i = Offset(c) + 4
       /\ c[i] = "own" => i > Offset(c) + 4

Globals == {MainMiddleware, <<"cors">> \o MainMiddleware}

LEMMA FourAreWellBuilt ==
  WellBuilt(MainMiddleware) /\ Len(MainMiddleware) = Offset(MainMiddleware) + 4
<1> DEFINE m == MainMiddleware
<1>1. m \in Seq(Middlewares) /\ Len(m) = 4
  BY DEF MainMiddleware, Middlewares
<1>2. m[1] = "logger" /\ m[2] = "errors" /\ m[3] = "metrics" /\ m[4] = "panics"
  BY DEF MainMiddleware
<1> HIDE DEF m
<1>3. Offset(m) = 0
  BY <1>2 DEF Offset
<1>4. \A i \in 1 .. 4 :
        /\ m[i] = "errors" <=> i = 2
        /\ m[i] = "metrics" <=> i = 3
        /\ m[i] = "panics" <=> i = 4
        /\ m[i] # "own"
  BY <1>2
<1>5. WellBuilt(m) /\ Len(m) = Offset(m) + 4
  BY <1>1, <1>3, <1>4 DEF WellBuilt
<1> QED
  BY <1>5 DEF m

LEMMA FiveAreWellBuilt ==
  LET g == <<"cors">> \o MainMiddleware IN WellBuilt(g) /\ Len(g) = Offset(g) + 4
<1> DEFINE m == MainMiddleware
           f == <<"cors">>
           g == f \o m
<1>1. m \in Seq(Middlewares) /\ Len(m) = 4 /\ f \in Seq(Middlewares) /\ Len(f) = 1 /\ f[1] = "cors"
  BY DEF MainMiddleware, Middlewares
<1>2. m[1] = "logger" /\ m[2] = "errors" /\ m[3] = "metrics" /\ m[4] = "panics"
  BY DEF MainMiddleware
<1> HIDE DEF m, f
<1>3. /\ g \in Seq(Middlewares) /\ Len(g) = 5
      /\ \A i \in 1 .. 5 : g[i] = IF i <= 1 THEN f[i] ELSE m[i - 1]
  <2>1. /\ g \in Seq(Middlewares) /\ Len(g) = Len(f) + Len(m)
        /\ \A i \in 1 .. Len(f) + Len(m) : g[i] = IF i <= Len(f) THEN f[i] ELSE m[i - Len(f)]
    BY <1>1, ConcatProperties
  <2> QED
    BY <1>1, <2>1
<1> HIDE DEF g
<1>4. g[1] = "cors" /\ g[2] = "logger" /\ g[3] = "errors" /\ g[4] = "metrics" /\ g[5] = "panics"
  BY <1>1, <1>2, <1>3
<1>5. Offset(g) = 1
  BY <1>4 DEF Offset
<1>6. WellBuilt(g) /\ Len(g) = Offset(g) + 4
  BY <1>3, <1>4, <1>5 DEF WellBuilt
<1> QED
  BY <1>6 DEF g, m, f

LEMMA ChainsAreWellBuilt ==
  ASSUME NEW g \in Globals, NEW own \in {<<>>, <<"own">>} PROVE WellBuilt(g \o own)
<1> DEFINE c == g \o own
<1>1. WellBuilt(g) /\ Len(g) = Offset(g) + 4
  BY FourAreWellBuilt, FiveAreWellBuilt DEF Globals
<1>2. own \in Seq(Middlewares) /\ \A i \in 1 .. Len(own) : own[i] = "own"
  <2>1. CASE own = <<>>
    BY <2>1
  <2>2. CASE own = <<"own">>
    BY <2>2 DEF Middlewares
  <2> QED
    BY <2>1, <2>2
<1>3. g \in Seq(Middlewares)
  BY <1>1 DEF WellBuilt
<1> HIDE DEF Globals
<1>4. /\ c \in Seq(Middlewares) /\ Len(c) = Len(g) + Len(own)
      /\ \A i \in 1 .. Len(c) : c[i] = IF i <= Len(g) THEN g[i] ELSE own[i - Len(g)]
  BY <1>2, <1>3, ConcatProperties
<1> HIDE DEF c
<1>5. Len(g) \in Nat /\ Len(own) \in Nat /\ Offset(g) \in {0, 1}
  BY <1>2, <1>3 DEF Offset
<1>6. Offset(c) = Offset(g)
  BY <1>1, <1>4, <1>5 DEF Offset
<1>7. \A i \in 1 .. Len(c) : i > Len(g) => c[i] = "own"
  BY <1>2, <1>4, <1>5
<1>8. \A i \in 1 .. Len(c) : i <= Len(g) => i \in 1 .. Len(g) /\ c[i] = g[i]
  BY <1>4, <1>5
<1>9. \A i \in 1 .. Len(g) : c[i] = "own" => FALSE
  BY <1>1, <1>8, <1>4, <1>5 DEF WellBuilt
<1>10. WellBuilt(c)
  BY <1>1, <1>4, <1>5, <1>6, <1>7, <1>8 DEF WellBuilt
<1> QED
  BY <1>10 DEF c
-----------------------------------------------------------------------------
(* The invariant of one request, from what arrives to what was answered:   *)
(* where in its chain it may still be a panic or hold the inside of one.   *)
ResultOK(e, c, i) ==
  /\ e.kind = "panic" => i >= Offset(c) + 4
  /\ e.text = "inside" =>
       /\ e.kind = "panic" \/ i >= Offset(c) + 2
       /\ e.kind \in {"foreign", "panic"} \/ (e.kind = "error" /\ e.code = "InternalOnlyLog")
  /\ e.failed = "no" <=> e.kind \notin {"error", "foreign", "panic"}
  /\ e.failed = "panic" => e.kind = "panic" \/ i < Offset(c) + 4

RequestOK(q) ==
  /\ stage[q] # "none" => WellBuilt(chain[q]) /\ at[q] <= Len(chain[q])
  /\ stage[q] = "none" => at[q] = 0 /\ chain[q] = <<>>
  /\ stage[q] \in {"handler", "connected"} => at[q] = Len(chain[q])
  /\ stage[q] \in {"none", "down", "handler", "connected"} => resp[q] = NoEncoder
  /\ stage[q] \in {"up", "done"} => ResultOK(resp[q], chain[q], at[q])
  /\ stage[q] = "done" =>
       /\ at[q] = 0
       /\ client[q] => status[q] = StatusOf(resp[q])

WebTyped ==
  /\ stage \in [Requests -> Stages]
  /\ chain \in [Requests -> Seq(Middlewares)]
  /\ at \in [Requests -> Nat]
  /\ resp \in [Requests -> Encoders]
  /\ status \in [Requests -> {0, 200, 204, 302, 500}]
  /\ client \in [Requests -> BOOLEAN]
  /\ counters \in [CounterNames -> Nat]
  /\ pool \in {"none", "open", "closed"}

WebInv == WebTyped /\ \A q \in Requests : RequestOK(q)

LEMMA WebInitHolds == WebInit => WebInv
<1> SUFFICES ASSUME WebInit PROVE WebInv
  OBVIOUS
<1>1. NoEncoder \in Encoders
  BY DEF NoEncoder, Fine, Encoder, Encoders, Kinds
<1>2. WebTyped
  BY <1>1 DEF WebInit, WebTyped, Stages
<1>3. \A q \in Requests : RequestOK(q)
  BY DEF WebInit, RequestOK
<1> QED
  BY <1>2, <1>3 DEF WebInv

\* What a step of q leaves alone.
OthersKeep(q) ==
  \A p \in Requests : p # q =>
    /\ stage'[p] = stage[p] /\ chain'[p] = chain[p] /\ at'[p] = at[p]
    /\ resp'[p] = resp[p] /\ status'[p] = status[p] /\ client'[p] = client[p]

LEMMA RequestStepKeeps ==
  ASSUME NEW q \in Requests, WebInv, WebTyped', OthersKeep(q), RequestOK(q)' PROVE WebInv'
<1>1. ASSUME NEW p \in Requests, p # q PROVE RequestOK(p)'
  <2>1. RequestOK(p)
    BY DEF WebInv
  <2> QED
    BY <1>1, <2>1 DEF OthersKeep, RequestOK
<1> QED
  BY <1>1 DEF WebInv

LEMMA Entries ==
  ASSUME NEW q \in Requests, WebInv
  PROVE  /\ WebTyped /\ RequestOK(q)
         /\ stage[q] \in Stages /\ chain[q] \in Seq(Middlewares) /\ at[q] \in Nat
         /\ resp[q] \in Encoders /\ status[q] \in {0, 200, 204, 302, 500} /\ client[q] \in BOOLEAN
         /\ Len(chain[q]) \in Nat /\ Offset(chain[q]) \in {0, 1}
BY DEF WebInv, WebTyped, Offset

LEMMA ArriveHolds ==
  ASSUME WebInv, NEW q \in Requests, NEW c, WellBuilt(c), Arrive(q, c) PROVE WebInv'
<1>1. "down" \in Stages /\ c \in Seq(Middlewares) /\ Len(c) \in Nat
  BY DEF Stages, WellBuilt
<1>2. WebTyped'
  BY <1>1, Entries DEF Arrive, WebTyped
<1>3. /\ OthersKeep(q) /\ stage'[q] = "down" /\ chain'[q] = c
      /\ at'[q] = at[q] /\ resp'[q] = resp[q] /\ stage[q] = "none"
  BY Entries DEF Arrive, WebTyped, OthersKeep
<1>4. at'[q] = 0 /\ at'[q] <= Len(c) /\ resp'[q] = NoEncoder
  BY <1>1, <1>3, Entries DEF RequestOK
<1>5. RequestOK(q)'
  BY <1>3, <1>4 DEF RequestOK
<1> QED
  BY <1>2, <1>3, <1>5, RequestStepKeeps

LEMMA DescendHolds == ASSUME WebInv, NEW q \in Requests, Descend(q) PROVE WebInv'
<1>1. /\ stage[q] = "down" /\ WellBuilt(chain[q]) /\ resp[q] = NoEncoder
      /\ UNCHANGED <<chain, status, client, counters, pool>>
  BY Entries DEF RequestOK, Descend
<1>2. CASE /\ at' = [at EXCEPT ![q] = Len(chain[q])]
           /\ stage' = [stage EXCEPT ![q] = "handler"] /\ UNCHANGED resp
  <2>1. WebTyped'
    BY <1>1, <1>2, Entries DEF WebTyped, Stages
  <2>2. /\ OthersKeep(q) /\ stage'[q] = "handler" /\ at'[q] = Len(chain[q])
        /\ chain'[q] = chain[q] /\ resp'[q] = resp[q]
    BY <1>1, <1>2, Entries DEF WebTyped, OthersKeep
  <2>3. at'[q] <= Len(chain'[q])
    BY <2>2, Entries
  <2>4. RequestOK(q)'
    BY <1>1, <2>2, <2>3 DEF RequestOK
  <2> QED
    BY <2>1, <2>2, <2>4, RequestStepKeeps
<1>3. ASSUME NEW i \in DOMAIN chain[q], chain[q][i] = "own", at' = [at EXCEPT ![q] = i - 1],
             Return(q, Error("Unauthenticated"))
      PROVE  WebInv'
  <2> DEFINE e == Error("Unauthenticated")
  <2>1. e \in Encoders
    BY DEF Error, Encoder, Encoders, Kinds, Codes, HTTPStatus
  <2>2. i \in 1 .. Len(chain[q]) /\ i - 1 >= Offset(chain[q]) + 4 /\ i - 1 \in Nat
        /\ i - 1 <= Len(chain[q])
    BY <1>1, <1>3, Entries DEF WellBuilt
  <2>3. ResultOK(e, chain[q], i - 1)
    BY <2>2, Entries DEF ResultOK, Error, Encoder
  <2>4. stage' = [stage EXCEPT ![q] = "up"] /\ resp' = [resp EXCEPT ![q] = e]
    BY <1>3 DEF Return
  <2> HIDE DEF e
  <2>5. WebTyped'
    BY <1>1, <1>3, <2>1, <2>2, <2>4, Entries DEF WebTyped, Stages
  <2>6. /\ OthersKeep(q) /\ stage'[q] = "up" /\ at'[q] = i - 1
        /\ chain'[q] = chain[q] /\ resp'[q] = e
    BY <1>1, <1>3, <2>4, Entries DEF WebTyped, OthersKeep
  <2>7. RequestOK(q)'
    BY <1>1, <2>2, <2>3, <2>6 DEF RequestOK
  <2> QED
    BY <2>5, <2>6, <2>7, RequestStepKeeps
<1> QED
  BY <1>2, <1>3 DEF Descend

LEMMA AcquireHolds == ASSUME WebInv, NEW q \in Requests, Acquire(q) PROVE WebInv'
<1>1. WebTyped'
  BY Entries DEF Acquire, WebTyped, Stages
<1>2. /\ OthersKeep(q) /\ stage[q] = "handler" /\ stage'[q] = "connected"
      /\ at'[q] = at[q] /\ chain'[q] = chain[q] /\ resp'[q] = resp[q]
  BY Entries DEF Acquire, WebTyped, OthersKeep
<1>3. RequestOK(q)'
  BY <1>2, Entries DEF RequestOK
<1> QED
  BY <1>1, <1>2, <1>3, RequestStepKeeps

\* The handler's result starts at the innermost end of the chain.
Results ==
  {Fine("data"), Error("NotFound"), QuotingError, Error("InvalidArgument"),
   Fine("unencodable"), Fine("nil"), Fine("noresponse"), Fine("redirect"),
   Encoder("foreign", "none", "inside", "error"), Encoder("panic", "none", "inside", "panic")}

LEMMA ResultsAreOK ==
  ASSUME NEW e \in Results, NEW c, NEW i \in Nat, i >= Offset(c) + 4
  PROVE  e \in Encoders /\ ResultOK(e, c, i)
<1>1. \A code \in {"none", "NotFound", "Internal", "InvalidArgument"} : code \in Codes \union {"none"}
  BY DEF Codes, HTTPStatus
<1>2. e \in Encoders
  <2>1. PICK kind \in Kinds, code \in {"none", "NotFound", "Internal", "InvalidArgument"},
             text \in {"own", "quoted", "inside"}, failed \in {"no", "error", "panic"} :
               e = Encoder(kind, code, text, failed)
    BY DEF Results, Error, QuotingError, Fine, Kinds
  <2> QED
    BY <1>1, <2>1 DEF Encoder, Encoders
<1>3. Offset(c) \in {0, 1}
  BY DEF Offset
<1>4. ResultOK(e, c, i)
  <2>1. CASE e \in {Encoder("foreign", "none", "inside", "error"),
                    Encoder("panic", "none", "inside", "panic")}
    BY <1>3, <2>1 DEF ResultOK, Encoder
  <2>2. CASE e \in {Fine(kind) : kind \in {"data", "unencodable", "nil", "noresponse", "redirect"}}
    BY <1>3, <2>2 DEF ResultOK, Fine, Encoder
  <2>3. CASE e \in {Error("NotFound"), QuotingError, Error("InvalidArgument")}
    BY <1>3, <2>3 DEF ResultOK, Error, QuotingError, Encoder
  <2> QED
    BY <2>1, <2>2, <2>3 DEF Results
<1> QED
  BY <1>2, <1>4

LEMMA HandlerHolds ==
  ASSUME WebInv, NEW q \in Requests, StatementEnds(q) \/ HandlerReturns(q) PROVE WebInv'
<1>1. /\ UNCHANGED <<chain, at, status, client, counters, pool>>
      /\ stage[q] \in {"handler", "connected"}
  BY DEF StatementEnds, HandlerReturns
<1>2. WellBuilt(chain[q]) /\ at[q] = Len(chain[q]) /\ at[q] >= Offset(chain[q]) + 4
  BY <1>1, Entries DEF RequestOK, WellBuilt
<1>3. PICK e \in Results : Return(q, e)
  BY DEF StatementEnds, HandlerReturns, Results
<1>4. e \in Encoders /\ ResultOK(e, chain[q], at[q])
  BY <1>2, Entries, ResultsAreOK
<1>5. WebTyped'
  BY <1>1, <1>3, <1>4, Entries DEF WebTyped, Stages, Return
<1>6. /\ OthersKeep(q) /\ stage'[q] = "up" /\ at'[q] = at[q]
      /\ chain'[q] = chain[q] /\ resp'[q] = e
  BY <1>1, <1>3, Entries DEF WebTyped, OthersKeep, Return
<1>7. RequestOK(q)'
  BY <1>2, <1>4, <1>6, Entries DEF RequestOK
<1> QED
  BY <1>5, <1>6, <1>7, RequestStepKeeps

\* On the way up: what was at i is at i - 1.
LEMMA LeaveHolds ==
  ASSUME WebInv, NEW q \in Requests, NEW e \in Encoders, Leave(q, e),
         counters' \in [CounterNames -> Nat],
         ResultOK(e, chain[q], at[q] - 1)
  PROVE  WebInv'
<1>1. /\ stage[q] = "up" /\ at[q] > 0
      /\ UNCHANGED <<stage, chain, status, client, pool>>
  BY DEF Leave
<1>2. at[q] - 1 \in Nat /\ at[q] - 1 <= Len(chain[q]) /\ WellBuilt(chain[q])
  BY <1>1, Entries DEF RequestOK
<1>3. WebTyped'
  BY <1>1, <1>2, Entries DEF WebTyped, Leave
<1>4. /\ OthersKeep(q) /\ stage'[q] = "up" /\ at'[q] = at[q] - 1
      /\ chain'[q] = chain[q] /\ resp'[q] = e
  BY <1>1, Entries DEF WebTyped, OthersKeep, Leave
<1>5. RequestOK(q)'
  BY <1>2, <1>4 DEF RequestOK
<1> QED
  BY <1>3, <1>4, <1>5, RequestStepKeeps

LEMMA AddCounts == ASSUME WebTyped, NEW names, Add(names) PROVE counters' \in [CounterNames -> Nat]
BY DEF WebTyped, Add

\* Where a request is in its chain tells which middleware it leaves.
LEMMA InnermostIs ==
  ASSUME WebInv, NEW q \in Requests, stage[q] = "up", at[q] > 0
  PROVE  LET o == Offset(chain[q]) IN
         /\ Innermost(q) = "errors" <=> at[q] = o + 2
         /\ Innermost(q) = "metrics" <=> at[q] = o + 3
         /\ Innermost(q) = "panics" <=> at[q] = o + 4
         /\ ResultOK(resp[q], chain[q], at[q]) /\ WellBuilt(chain[q])
         /\ at[q] \in 1 .. Len(chain[q])
<1>1. WellBuilt(chain[q]) /\ at[q] <= Len(chain[q]) /\ ResultOK(resp[q], chain[q], at[q])
  BY Entries DEF RequestOK
<1>2. at[q] \in 1 .. Len(chain[q])
  BY <1>1, Entries
<1> QED
  BY <1>1, <1>2 DEF WellBuilt, Innermost

LEMMA AscendHolds == ASSUME WebInv, NEW q \in Requests, Ascend(q) PROVE WebInv'
<1> DEFINE o == Offset(chain[q])
           i == at[q]
           e == resp[q]
<1>1. stage[q] = "up" /\ i > 0 /\ i \in Nat /\ o \in {0, 1} /\ e \in Encoders /\ WebTyped
  <2>1. stage[q] = "up" /\ i > 0
    BY DEF Ascend, Panics, MidErrors, Metrics, PassesBy
  <2>2. i \in Nat /\ e \in Encoders /\ WebTyped
    BY Entries
  <2>3. o \in {0, 1}
    BY DEF Offset
  <2> QED
    BY <2>1, <2>2, <2>3
<1>2. /\ Innermost(q) = "errors" <=> i = o + 2
      /\ Innermost(q) = "metrics" <=> i = o + 3
      /\ Innermost(q) = "panics" <=> i = o + 4
      /\ ResultOK(e, chain[q], i)
  BY <1>1, InnermostIs
<1>3. CASE Panics(q)
  <2> DEFINE r == Encoder("error", "InternalOnlyLog", "inside", "panic")
  <2>1. r \in Encoders
    BY DEF Encoder, Encoders, Kinds, Codes, HTTPStatus
  <2>2. ResultOK(r, chain[q], i - 1)
    BY <1>1, <1>2, <1>3 DEF ResultOK, Encoder, Panics
  <2>3. counters' \in [CounterNames -> Nat]
    BY <1>1, <1>3, AddCounts DEF Panics
  <2> QED
    BY <1>3, <2>1, <2>2, <2>3, LeaveHolds DEF Panics
<1>4. CASE MidErrors(q)
  <2>1. Errors(e) \in Encoders
    <3>1. "error" \in Kinds /\ "Internal" \in Codes
      BY DEF Kinds, Codes, HTTPStatus
    <3>2. [e EXCEPT !.kind = "error", !.code = "Internal", !.text = "own"] \in Encoders
      BY <1>1, <3>1 DEF Encoders
    <3> QED
      BY <1>1, <3>2 DEF Errors
  <2>2. ResultOK(Errors(e), chain[q], i - 1)
    <3>1. e.kind # "panic" /\ i = o + 2
      BY <1>2, <1>4 DEF MidErrors
    <3>2. /\ Errors(e).kind # "panic" /\ Errors(e).failed = e.failed
          /\ Errors(e).kind \in {"error", "foreign"} <=> e.kind \in {"error", "foreign"}
      BY <1>1, <3>1 DEF Errors, IsError, Encoders
    <3>3. Errors(e).text # "inside"
      BY <1>1, <1>2, <3>1 DEF Errors, IsError, Encoders, ResultOK
    <3> QED
      BY <1>1, <1>2, <3>1, <3>2, <3>3 DEF ResultOK
  <2>3. counters' \in [CounterNames -> Nat]
    BY <1>1, <1>4 DEF WebTyped, MidErrors
  <2> QED
    BY <1>4, <2>1, <2>2, <2>3, LeaveHolds DEF MidErrors
<1>5. CASE Metrics(q)
  <2>1. ResultOK(e, chain[q], i - 1)
    BY <1>1, <1>2, <1>5 DEF ResultOK, Metrics
  <2>2. counters' \in [CounterNames -> Nat]
    BY <1>1, <1>5, AddCounts DEF Metrics
  <2> QED
    BY <1>1, <1>5, <2>1, <2>2, LeaveHolds DEF Metrics
<1>6. CASE PassesBy(q)
  <2>1. ResultOK(e, chain[q], i - 1)
    BY <1>1, <1>2, <1>6 DEF ResultOK, PassesBy
  <2>2. counters' \in [CounterNames -> Nat]
    BY <1>1, <1>6 DEF WebTyped, PassesBy
  <2> QED
    BY <1>1, <1>6, <2>1, <2>2, LeaveHolds DEF PassesBy
<1> QED
  BY <1>3, <1>4, <1>5, <1>6 DEF Ascend

LEMMA RespondHolds ==
  ASSUME WebInv, NEW q \in Requests, Respond(q) PROVE WebInv' /\ stage'[q] = "done"
<1>1. /\ stage[q] = "up" /\ at[q] = 0
      /\ UNCHANGED <<chain, at, resp, client, counters, pool>>
  BY DEF Respond
<1>2. resp[q].kind # "panic" /\ WellBuilt(chain[q])
  BY <1>1, Entries DEF RequestOK, ResultOK
<1>3. /\ stage' = [stage EXCEPT ![q] = "done"]
      /\ status' = [status EXCEPT ![q] = IF client[q] THEN StatusOf(resp[q]) ELSE 0]
  BY <1>2 DEF Respond
<1>4. StatusOf(resp[q]) \in {0, 200, 204, 302, 500}
  BY DEF StatusOf
<1>5. WebTyped'
  BY <1>1, <1>3, <1>4, Entries DEF WebTyped, Stages
<1>6. /\ OthersKeep(q) /\ stage'[q] = "done" /\ at'[q] = at[q] /\ client'[q] = client[q]
      /\ chain'[q] = chain[q] /\ resp'[q] = resp[q]
      /\ client[q] => status'[q] = StatusOf(resp[q])
  BY <1>1, <1>3, Entries DEF WebTyped, OthersKeep
<1>7. RequestOK(q)'
  BY <1>1, <1>2, <1>6, Entries DEF RequestOK, StatusOf
<1> QED
  BY <1>5, <1>6, <1>7, RequestStepKeeps

LEMMA ClientLeavesHolds == ASSUME WebInv, NEW q \in Requests, ClientLeaves(q) PROVE WebInv'
<1>1. WebTyped'
  BY Entries DEF ClientLeaves, WebTyped
<1>2. /\ OthersKeep(q) /\ stage'[q] = stage[q] /\ at'[q] = at[q]
      /\ chain'[q] = chain[q] /\ resp'[q] = resp[q] /\ stage[q] # "done"
  BY Entries DEF ClientLeaves, WebTyped, OthersKeep, InFlight
<1>3. RequestOK(q)'
  BY <1>2, Entries DEF RequestOK
<1> QED
  BY <1>1, <1>2, <1>3, RequestStepKeeps

LEMMA RequestStepHolds == ASSUME WebInv, NEW q \in Requests, RequestStep(q) PROVE WebInv'
BY DescendHolds, AcquireHolds, HandlerHolds, AscendHolds, RespondHolds, ClientLeavesHolds
   DEF RequestStep

\* What a step of q may do to the stages.
LEMMA ServeStages ==
  ASSUME WebInv, NEW q \in Requests, RequestStep(q)
  PROVE  /\ pool' = pool
         /\ \A p \in Requests :
              \/ stage'[p] = stage[p]
              \/ p \in InFlight /\ stage'[p] \notin {"none", "cut"}
         /\ \A p \in Requests :
              stage'[p] = "connected" => stage[p] = "connected" \/ pool = "open"
<1>1. WebTyped
  BY Entries
<1>2. CASE Descend(q)
  BY <1>1, <1>2 DEF Descend, Return, WebTyped, InFlight
<1>3. CASE Acquire(q)
  BY <1>1, <1>3 DEF Acquire, WebTyped, InFlight
<1>4. CASE StatementEnds(q) \/ HandlerReturns(q)
  <2>1. PICK e : Return(q, e)
    BY <1>4 DEF StatementEnds, HandlerReturns
  <2>2. stage[q] \in {"handler", "connected"} /\ pool' = pool
    BY <1>4 DEF StatementEnds, HandlerReturns
  <2> QED
    BY <1>1, <2>1, <2>2 DEF Return, WebTyped, InFlight
<1>5. CASE Ascend(q)
  BY <1>1, <1>5 DEF Ascend, Panics, MidErrors, Metrics, PassesBy, Leave
<1>6. CASE Respond(q)
  <2>1. stage'[q] = "done"
    BY <1>6, RespondHolds
  <2> QED
    BY <1>1, <1>6, <2>1 DEF Respond, WebTyped, InFlight
<1>7. CASE ClientLeaves(q)
  BY <1>7 DEF ClientLeaves
<1> QED
  BY <1>2, <1>3, <1>4, <1>5, <1>6, <1>7 DEF RequestStep
-----------------------------------------------------------------------------
(* The invariant of the process: while somebody may still listen, and who  *)
(* is in flight when the pool is closed.                                   *)
Messages == {"listener's error", "server closed", "signal"}

ProcessTyped ==
  /\ phase \in Phases /\ exit \in {-1, 0, 1, 2}
  /\ listener \in {"none", "starting", "open", "failed", "stopped"}
  /\ \A c \in {errors, shutdown} : c = <<>> \/ \E m \in Messages : c = <<m>>
  /\ signals \in Nat /\ signals <= Signals

Running == {"database", "handler", "server", "notify", "select", "draining"}

Listening ==
  /\ phase \in {"database", "handler", "server"} => listener = "none"
  /\ phase \in {"server", "notify", "select", "draining"} \/ listener # "none" => global \in Globals
  /\ phase = "draining" => listener = "stopped"
  /\ phase \in {"closing", "exiting"} => listener \in {"none", "stopped", "failed"}
  /\ errors # <<>> => listener \in {"stopped", "failed"}

Serving ==
  /\ listener \in {"none", "starting"} => InFlight = {}
  /\ listener = "stopped" /\ phase \in {"notify", "select"} => InFlight = {}
  /\ phase \in {"closing", "exiting"} /\ listener # "failed" => InFlight = {} \/ (exit = 1 /\ gaveUp)
  /\ phase \in {"closing", "exiting"} /\ listener = "failed" => exit = 1
  /\ phase = "exiting" => Holders = {} /\ pool # "open"
  /\ phase = "exited" => InFlight = {}
  /\ phase = "database" => pool = "none"
  /\ pool = "closed" => phase \in {"closing", "exiting", "exited"}

NoneCut == \A q \in Requests : stage[q] # "cut"
Ending ==
  /\ phase # "exited" => NoneCut
  /\ phase \in Running <=> exit = -1
  /\ exit = 0 => InFlight = {} /\ NoneCut /\ listener = "stopped"

IInv == WebInv /\ ProcessTyped /\ Listening /\ Serving /\ Ending

USE SignalsAssumption

LEMMA InitHolds == Init => IInv
<1> SUFFICES ASSUME Init PROVE IInv
  OBVIOUS
<1>1. WebInv
  BY WebInitHolds DEF Init
<1>2. InFlight = {} /\ NoneCut /\ pool = "none"
  BY DEF Init, WebInit, InFlight, NoneCut
<1>3. ProcessTyped /\ Listening /\ Serving /\ Ending
  BY <1>2 DEF Init, ProcessTyped, Phases, Listening, Serving, Ending, Running
<1> QED
  BY <1>1, <1>3 DEF IInv

\* A step of run that leaves the requests as they are.
LEMMA WebStays ==
  ASSUME IInv, UNCHANGED webVars \/ UNCHANGED <<stage, chain, at, resp, status, client, counters>>,
         pool' \in {"none", "open", "closed"}
  PROVE  WebInv' /\ InFlight' = InFlight /\ Holders' = Holders /\ (NoneCut' <=> NoneCut)
BY DEF IInv, WebInv, WebTyped, RequestOK, webVars, InFlight, Holders, NoneCut

\* The channels have one place.
LEMMA Channels ==
  ASSUME NEW m \in Messages
  PROVE  Append(<<>>, m) = <<m>> /\ Tail(<<m>>) = <<>> /\ <<m>> # <<>> /\ Len(<<m>>) = 1
<1>1. Append(<<>>, m) = <<m>> /\ <<m>> # <<>> /\ Len(<<m>>) = 1
  OBVIOUS
<1>2. <<m>> \in Seq(Messages)
  OBVIOUS
<1>3. Tail(<<m>>) \in Seq(Messages) /\ Len(Tail(<<m>>)) = 0
  BY <1>1, <1>2, HeadTailProperties
<1> QED
  BY <1>1, <1>3, EmptySeq

LEMMA RunHolds ==
  ASSUME IInv,
         OpenDatabase \/ MakeHandler \/ StartServer \/ Listen \/ Notify \/ BeginShutdown
           \/ ShutdownDone \/ ShutdownExpires \/ ServerError \/ ClosePool \/ PoolClosed
  PROVE  IInv'
<1>1. /\ UNCHANGED webVars \/ UNCHANGED <<stage, chain, at, resp, status, client, counters>>
      /\ pool' \in {"none", "open", "closed"}
  BY DEF IInv, WebInv, WebTyped, OpenDatabase, MakeHandler, StartServer, Listen, Notify,
     BeginShutdown, ShutdownDone, ShutdownExpires, ServerError, ClosePool, PoolClosed, webVars
<1>2. WebInv' /\ InFlight' = InFlight /\ Holders' = Holders /\ (NoneCut' <=> NoneCut)
  BY <1>1, WebStays
<1> USE DEF IInv, ProcessTyped, Phases, Listening, Serving, Ending, Running, Fails, webVars,
            processVars
<1>3. CASE OpenDatabase
  <2>1. /\ phase = "database" /\ pool' \in {"open", pool} /\ InFlight = {} /\ listener = "none"
        /\ UNCHANGED <<global, listener, errors, shutdown, signals, gaveUp>>
    BY <1>3 DEF OpenDatabase
  <2>2. \/ phase' = "handler" /\ exit' = exit /\ pool' = "open"
        \/ phase' = "exiting" /\ exit' = 1 /\ pool' = pool
    BY <1>3 DEF OpenDatabase
  <2>3. Holders = {} /\ NoneCut /\ exit = -1 /\ pool \notin {"closed", "open"}
    <3>1. Holders = {}
      BY <2>1 DEF InFlight, Holders
    <3>2. NoneCut /\ exit = -1 /\ pool \notin {"closed", "open"}
      BY <2>1
    <3> QED
      BY <3>1, <3>2
  <2> QED
    BY <1>2, <2>1, <2>2, <2>3
<1>4. CASE MakeHandler
  BY <1>2, <1>4 DEF MakeHandler, Globals
<1>5. CASE StartServer
  BY <1>2, <1>5 DEF StartServer
<1>6. CASE Listen
  <2>1. errors = <<>>
    BY <1>6 DEF Listen
  <2>2. /\ errors' = <<>> \/ (\E m \in Messages : errors' = <<m>>)
        /\ errors' # <<>> => listener' \in {"stopped", "failed"}
    BY <1>6, <2>1, Channels DEF Listen, Messages
  <2>3. /\ \/ listener = "starting" /\ listener' \in {"open", "stopped"} /\ InFlight = {}
           \/ listener = "open" /\ listener' = "failed"
        /\ UNCHANGED <<webVars, phase, global, shutdown, signals, exit, gaveUp>>
    BY <1>6 DEF Listen
  <2>4. phase \notin {"database", "handler", "server", "draining", "closing", "exiting"} /\ exit # 0
    BY <2>3
  <2> QED
    BY <1>2, <2>2, <2>3, <2>4
<1>7. CASE Notify
  BY <1>2, <1>7 DEF Notify
<1>8. CASE BeginShutdown
  <2>1. shutdown' = <<>>
    BY <1>8, Channels DEF BeginShutdown
  <2>2. (errors' = <<>> \/ \E m \in Messages : errors' = <<m>>) /\ listener' = "stopped"
    <3>1. errors' = errors \/ (errors = <<>> /\ errors' = Append(errors, "server closed"))
      BY <1>8 DEF BeginShutdown
    <3>2. errors = <<>> \/ \E m \in Messages : errors = <<m>>
      OBVIOUS
    <3> QED
      BY <1>8, <3>1, <3>2, Channels DEF BeginShutdown, Messages
  <2>3. exit = -1 /\ global \in Globals
    BY <1>8, <2>2 DEF BeginShutdown
  <2> QED
    BY <1>2, <1>8, <2>1, <2>2, <2>3 DEF BeginShutdown
<1>9. CASE ShutdownDone \/ ShutdownExpires
  BY <1>2, <1>9 DEF ShutdownDone, ShutdownExpires
<1>10. CASE ServerError
  <2>1. /\ errors' = <<>> /\ listener \in {"stopped", "failed"}
        /\ listener = "stopped" => InFlight = {}
    BY <1>10, Channels DEF ServerError
  <2> QED
    BY <1>2, <1>10, <2>1 DEF ServerError
<1>11. CASE ClosePool
  BY <1>2, <1>11 DEF ClosePool
<1>12. CASE PoolClosed
  BY <1>2, <1>12 DEF PoolClosed
<1> QED
  BY <1>3, <1>4, <1>5, <1>6, <1>7, <1>8, <1>9, <1>10, <1>11, <1>12

\* The end of the process cuts whatever is in flight.
LEMMA CutHolds ==
  ASSUME IInv, stage' = Cut, UNCHANGED <<chain, at, resp, status, client, counters, pool>>
  PROVE  WebInv' /\ InFlight' = {} /\ Holders' = {} /\ (InFlight = {} => (NoneCut' <=> NoneCut))
<1>1. \A q \in Requests :
        /\ q \in InFlight => stage'[q] = "cut"
        /\ q \notin InFlight => stage'[q] = stage[q]
  BY DEF Cut
<1>2. WebTyped'
  BY DEF IInv, WebInv, WebTyped, Cut, Stages
<1>3. ASSUME NEW q \in Requests PROVE RequestOK(q)'
  <2>1. RequestOK(q)
    BY DEF IInv, WebInv
  <2>2. CASE q \in InFlight
    BY <1>1, <2>1, <2>2 DEF RequestOK, InFlight
  <2>3. CASE q \notin InFlight
    BY <1>1, <2>1, <2>3 DEF RequestOK
  <2> QED
    BY <2>2, <2>3
<1>4. InFlight' = {} /\ Holders' = {}
  BY <1>1 DEF InFlight, Holders
<1>5. InFlight = {} => (NoneCut' <=> NoneCut)
  BY <1>1 DEF NoneCut
<1> QED
  BY <1>2, <1>3, <1>4, <1>5 DEF WebInv

LEMMA SignalHolds == ASSUME IInv, Signal PROVE IInv'
<1> USE DEF IInv, ProcessTyped, Phases, Listening, Serving, Ending, Running
<1>1. /\ UNCHANGED <<chain, at, resp, status, client, counters, pool, env, global, listener,
                     errors, gaveUp>>
      /\ signals' \in Nat /\ signals' <= Signals /\ phase # "exited"
  BY DEF Signal
<1>2. CASE phase \in {"database", "handler", "server", "notify"}
  <2>1. phase' = "exited" /\ exit' = 2 /\ stage' = Cut /\ UNCHANGED shutdown
    BY <1>2 DEF Signal
  <2> QED
    BY <1>1, <2>1, CutHolds
<1>3. CASE phase \notin {"database", "handler", "server", "notify"}
  <2>1. UNCHANGED <<phase, exit, stage>>
    BY <1>3 DEF Signal
  <2>2. shutdown' = <<>> \/ \E m \in Messages : shutdown' = <<m>>
    <3>1. CASE shutdown = <<>>
      BY <1>3, <3>1, Channels DEF Signal, Messages
    <3>2. ASSUME NEW m \in Messages, shutdown = <<m>> PROVE shutdown' = <<m>>
      <4>1. ~ (Len(shutdown) < 1)
        BY <3>2, Channels
      <4> QED
        BY <1>3, <3>2, <4>1 DEF Signal
    <3> QED
      BY <3>1, <3>2
  <2>3. WebInv' /\ InFlight' = InFlight /\ Holders' = Holders /\ (NoneCut' <=> NoneCut)
    BY <1>1, <2>1, WebStays DEF WebInv, WebTyped
  <2> QED
    BY <1>1, <2>1, <2>2, <2>3
<1> QED
  BY <1>2, <1>3

LEMMA ExitHolds == ASSUME IInv, Exit PROVE IInv'
<1> USE DEF IInv, ProcessTyped, Phases, Listening, Serving, Ending, Running
<1>1. /\ phase = "exiting" /\ phase' = "exited" /\ stage' = Cut
      /\ UNCHANGED <<chain, at, resp, status, client, counters, pool, env, global, listener, errors,
                     shutdown, signals, exit, gaveUp>>
  BY DEF Exit
<1> QED
  BY <1>1, CutHolds

LEMMA AcceptHolds == ASSUME IInv, NEW q \in Requests, Accept(q) PROVE IInv'
<1> USE DEF IInv, ProcessTyped, Phases, Listening, Serving, Ending, Running
<1>1. PICK own \in {<<>>, <<"own">>} : Arrive(q, global \o own)
  BY DEF Accept
<1>2. /\ listener \in {"open", "failed"} /\ phase # "exited" /\ UNCHANGED processVars
      /\ global \in Globals
  BY DEF Accept
<1>3. WebInv'
  BY <1>1, <1>2, ChainsAreWellBuilt, ArriveHolds
<1>4. pool' = pool /\ Holders' = Holders /\ NoneCut'
  BY <1>1, <1>2 DEF Arrive, Holders, NoneCut, WebInv, WebTyped
<1> QED
  BY <1>2, <1>3, <1>4 DEF processVars

LEMMA ServeHolds == ASSUME IInv, NEW q \in Requests, Serve(q) PROVE IInv'
<1> USE DEF IInv, ProcessTyped, Phases, Listening, Serving, Ending, Running
<1>1. RequestStep(q) /\ phase # "exited" /\ UNCHANGED processVars
  BY DEF Serve
<1>2. WebInv'
  BY <1>1, RequestStepHolds
<1>3. /\ pool' = pool
      /\ \A p \in Requests :
           \/ stage'[p] = stage[p]
           \/ p \in InFlight /\ stage'[p] \notin {"none", "cut"}
      /\ \A p \in Requests : stage'[p] = "connected" => stage[p] = "connected" \/ pool = "open"
  BY <1>1, ServeStages
<1>4. InFlight' \subseteq InFlight /\ NoneCut' /\ (pool # "open" => Holders' \subseteq Holders)
  BY <1>1, <1>3 DEF InFlight, NoneCut, Holders
<1> QED
  BY <1>1, <1>2, <1>3, <1>4 DEF processVars

LEMMA StepHolds == IInv /\ [Next]_vars => IInv'
<1> SUFFICES ASSUME IInv, [Next]_vars PROVE IInv'
  OBVIOUS
<1>1. CASE UNCHANGED vars
  <2>1. WebInv' /\ InFlight' = InFlight /\ Holders' = Holders /\ (NoneCut' <=> NoneCut)
    BY <1>1, WebStays DEF vars, webVars, IInv, WebInv, WebTyped
  <2> QED
    BY <1>1, <2>1 DEF vars, webVars, processVars, IInv, ProcessTyped, Listening, Serving, Ending
<1>2. CASE Next
  BY <1>2, RunHolds, SignalHolds, ExitHolds, AcceptHolds, ServeHolds DEF Next, Stopping
<1> QED
  BY <1>1, <1>2

(* The inductive invariant of the process and of the requests in its       *)
(* middleware chain, for any number of both (main.go run, handler.go).     *)
THEOREM ServerInvariant == Spec => []IInv
BY InitHolds, StepHolds, PTL DEF Spec

(* Types of the process, its counters and its requests, and that neither   *)
(* channel of main.go ever holds more than its one place.                  *)
THEOREM ServerTyped == Spec => []TypeOK
<1>1. IInv => TypeOK
  <2> SUFFICES ASSUME IInv PROVE TypeOK
    OBVIOUS
  <2>1. \A q \in Requests : at[q] <= Len(chain[q])
    BY DEF IInv, WebInv, WebTyped, RequestOK
  <2>2. Len(errors) <= 1 /\ Len(shutdown) <= 1
    <3>1. Len(<<>>) = 0 /\ \A m \in Messages : Len(<<m>>) = 1
      BY Channels
    <3>2. \A c \in {errors, shutdown} : c = <<>> \/ \E m \in Messages : c = <<m>>
      BY DEF IInv, ProcessTyped
    <3>3. ASSUME NEW c \in {errors, shutdown} PROVE Len(c) <= 1
      <4>1. CASE c = <<>>
        BY <3>1, <4>1
      <4>2. ASSUME NEW m \in Messages, c = <<m>> PROVE Len(c) <= 1
        BY <3>1, <4>2
      <4> QED
        BY <3>2, <4>1, <4>2
    <3> QED
      BY <3>3
  <2> QED
    BY <2>1, <2>2 DEF IInv, WebInv, WebTyped, ProcessTyped, TypeOK
<1> QED
  BY <1>1, ServerInvariant, PTL

(* No trace of a panic and no text of an error that is not of package errs *)
(* reaches Respond (mid.Panics, mid.Errors).  What an Internal error of a  *)
(* handler quotes of its repository does.                                  *)
THEOREM TracesStay == Spec => []TracesStayInside
<1>1. IInv => TracesStayInside
  BY Entries DEF IInv, TracesStayInside, RequestOK, ResultOK
<1> QED
  BY <1>1, ServerInvariant, PTL

(* No failure is answered with 2xx, and every served client who stayed has *)
(* an answer (response.go Respond, handler.go Handle).                     *)
THEOREM FailuresShow == Spec => []FailureNeverLooksLikeSuccess
<1>1. IInv => FailureNeverLooksLikeSuccess
  BY Entries DEF IInv, FailureNeverLooksLikeSuccess, RequestOK, ResultOK, StatusOf, Encoders
<1> QED
  BY <1>1, ServerInvariant, PTL

(* A process that ends with 0 has answered all it accepted; its pool is    *)
(* closed under a request only after a Shutdown that ran out of time or a  *)
(* listener that failed late (main.go run).                                *)
THEOREM CleanExit == Spec => []CleanExitAnswersAll
<1>1. IInv => CleanExitAnswersAll
  BY DEF IInv, CleanExitAnswersAll, Serving, Ending, NoneCut
<1> QED
  BY <1>1, ServerInvariant, PTL

(* Once run has subscribed to signals, no statement that holds a           *)
(* connection is cut off (main.go's deferred Close).                       *)
THEOREM StatementsEnd == Spec => NoStatementCut
<1> DEFINE Kept == phase # "notify" => \A q \in Holders : stage'[q] # "cut"
<1>1. IInv /\ [Next]_vars => [Kept]_vars
  <2> SUFFICES ASSUME IInv, Next, phase # "notify", NEW q \in Holders PROVE stage'[q] # "cut"
    OBVIOUS
  <2>1. q \in Requests /\ q \in InFlight /\ stage[q] = "connected" /\ WebInv
    BY DEF Holders, InFlight, IInv
  <2>2. CASE stage' = stage
    BY <2>1, <2>2
  <2>3. CASE Signal
    BY <2>1, <2>3 DEF Signal, IInv, Listening, Serving
  <2>4. CASE Exit
    BY <2>1, <2>4 DEF Exit, IInv, Serving
  <2>5. ASSUME NEW p \in Requests, Accept(p) PROVE stage'[q] # "cut"
    BY <2>1, <2>5 DEF Accept, Arrive, WebInv, WebTyped
  <2>6. ASSUME NEW p \in Requests, Serve(p) PROVE stage'[q] # "cut"
    BY <2>1, <2>6, ServeStages DEF Serve
  <2> QED
    BY <2>2, <2>3, <2>4, <2>5, <2>6 DEF Next, Stopping, OpenDatabase, MakeHandler, StartServer,
       Listen, Notify, BeginShutdown, ShutdownDone, ShutdownExpires, ServerError, ClosePool,
       PoolClosed, webVars
<1> QED
  BY <1>1, ServerInvariant, PTL DEF Spec, NoStatementCut
-----------------------------------------------------------------------------
(* The counters.  A request counts from the moment it has left Metrics, a  *)
(* panic from the moment it was recovered.                                 *)
Returned(q) == stage[q] \in {"up", "done"}
Counted == {q \in Requests : Returned(q) /\ at[q] < Offset(chain[q]) + 3}
CountedErrors == {q \in Counted : resp[q].failed # "no"}
Recovered == {q \in Requests : Returned(q) /\ resp[q].failed = "panic" /\ resp[q].kind # "panic"}

CountersOK ==
  NoneCut =>
    /\ IsFiniteSet(Counted) /\ counters["requests"] = Cardinality(Counted)
    /\ IsFiniteSet(CountedErrors) /\ counters["errors"] = Cardinality(CountedErrors)
    /\ IsFiniteSet(Recovered) /\ counters["panics"] = Cardinality(Recovered)

LEMMA OneMore ==
  ASSUME NEW X, NEW Y, NEW q, IsFiniteSet(X), Y \ {q} = X \ {q}
  PROVE  /\ (q \in X <=> q \in Y) => Y = X
         /\ q \notin X /\ q \in Y => IsFiniteSet(Y) /\ Cardinality(Y) = Cardinality(X) + 1
<1>1. (q \in X <=> q \in Y) => Y = X
  OBVIOUS
<1>2. q \notin X /\ q \in Y => Y = X \union {q}
  OBVIOUS
<1> QED
  BY <1>1, <1>2, FS_AddElement

LEMMA StepKeepsOthers ==
  ASSUME WebInv, NEW q \in Requests, RequestStep(q) PROVE OthersKeep(q)
<1>1. WebTyped
  BY Entries
<1>2. ASSUME NEW e, Return(q, e), UNCHANGED <<chain, status, client>>,
             at' = at \/ \E i : at' = [at EXCEPT ![q] = i]
      PROVE  OthersKeep(q)
  <2>1. \A p \in Requests \ {q} : stage'[p] = stage[p] /\ resp'[p] = resp[p]
    BY <1>1, <1>2 DEF Return, WebTyped
  <2>2. \A p \in Requests \ {q} : at'[p] = at[p]
    BY <1>1, <1>2 DEF WebTyped
  <2> QED
    BY <1>2, <2>1, <2>2 DEF OthersKeep
<1>3. CASE Descend(q)
  <2>1. CASE UNCHANGED resp
    <3>1. /\ at' = [at EXCEPT ![q] = Len(chain[q])] /\ stage' = [stage EXCEPT ![q] = "handler"]
          \/ \E e : Return(q, e) /\ \E i : at' = [at EXCEPT ![q] = i]
      BY <1>3 DEF Descend
    <3>2. UNCHANGED <<chain, status, client>>
      BY <1>3 DEF Descend
    <3>3. CASE at' = [at EXCEPT ![q] = Len(chain[q])] /\ stage' = [stage EXCEPT ![q] = "handler"]
      BY <1>1, <2>1, <3>2, <3>3 DEF OthersKeep, WebTyped
    <3> QED
      BY <1>2, <3>1, <3>2, <3>3
  <2>2. CASE \E e : Return(q, e) /\ \E i : at' = [at EXCEPT ![q] = i]
    BY <1>2, <1>3, <2>2 DEF Descend
  <2> QED
    BY <1>3, <2>1, <2>2 DEF Descend
<1>4. CASE StatementEnds(q) \/ HandlerReturns(q)
  BY <1>2, <1>4 DEF StatementEnds, HandlerReturns
<1>5. CASE Acquire(q)
  BY <1>1, <1>5 DEF Acquire, OthersKeep, WebTyped
<1>6. ASSUME NEW e, Leave(q, e) PROVE OthersKeep(q)
  <2>1. \A p \in Requests \ {q} : at'[p] = at[p] /\ resp'[p] = resp[p]
    BY <1>1, <1>6 DEF Leave, WebTyped
  <2> QED
    BY <1>6, <2>1 DEF Leave, OthersKeep
<1>7. CASE Ascend(q)
  BY <1>6, <1>7 DEF Ascend, Panics, MidErrors, Metrics, PassesBy
<1>8. CASE Respond(q) \/ ClientLeaves(q)
  BY <1>1, <1>8 DEF Respond, ClientLeaves, OthersKeep, WebTyped
<1> QED
  BY <1>3, <1>4, <1>5, <1>7, <1>8 DEF RequestStep

LEMMA OthersCountAsBefore ==
  ASSUME NEW q \in Requests, OthersKeep(q)
  PROVE  /\ Counted' \ {q} = Counted \ {q}
         /\ CountedErrors' \ {q} = CountedErrors \ {q}
         /\ Recovered' \ {q} = Recovered \ {q}
BY DEF OthersKeep, Counted, CountedErrors, Recovered, Returned, Offset

\* A step of q that counts nothing.
LEMMA NothingCounted ==
  ASSUME CountersOK, NoneCut, NEW q \in Requests, OthersKeep(q), UNCHANGED counters,
         q \in Counted <=> q \in Counted',
         q \in CountedErrors <=> q \in CountedErrors',
         q \in Recovered <=> q \in Recovered'
  PROVE  CountersOK'
BY OneMore, OthersCountAsBefore DEF CountersOK

LEMMA GoingDownCounts ==
  ASSUME WebInv, CountersOK, NoneCut, NEW q \in Requests,
         (\E c : Arrive(q, c)) \/ Descend(q) \/ Acquire(q) \/ StatementEnds(q) \/ HandlerReturns(q)
  PROVE  CountersOK'
<1>1. OthersKeep(q)
  <2>1. ASSUME NEW c, Arrive(q, c) PROVE OthersKeep(q)
    BY <2>1, Entries DEF Arrive, OthersKeep, WebTyped
  <2> QED
    BY <2>1, StepKeepsOthers DEF RequestStep
<1>2. UNCHANGED counters /\ ~ Returned(q)
  BY DEF Arrive, Descend, Acquire, StatementEnds, HandlerReturns, Returned
<1>3. q \notin Counted /\ q \notin CountedErrors /\ q \notin Recovered
  BY <1>2 DEF Counted, CountedErrors, Recovered
<1>4. /\ stage'[q] \in {"down", "handler", "connected", "up"}
      /\ stage'[q] = "up" => ~ \E c : Arrive(q, c)
  <2>1. ASSUME NEW c, Arrive(q, c) PROVE stage'[q] = "down"
    BY <2>1, Entries DEF Arrive, WebTyped
  <2>2. ASSUME Descend(q) PROVE stage'[q] \in {"handler", "up"}
    BY <2>2, Entries DEF Descend, Return, WebTyped
  <2>3. ASSUME Acquire(q) PROVE stage'[q] = "connected"
    BY <2>3, Entries DEF Acquire, WebTyped
  <2>4. ASSUME StatementEnds(q) \/ HandlerReturns(q) PROVE stage'[q] = "up"
    <3>1. PICK e : Return(q, e)
      BY <2>4 DEF StatementEnds, HandlerReturns
    <3> QED
      BY <3>1, Entries DEF Return, WebTyped
  <2>5. (\E c : Arrive(q, c)) => stage'[q] = "down"
    BY <2>1
  <2> QED
    BY <2>2, <2>3, <2>4, <2>5
<1>5. CASE stage'[q] # "up"
  BY <1>1, <1>2, <1>3, <1>5, <1>4, NothingCounted DEF Counted, CountedErrors, Recovered, Returned
<1>6. CASE stage'[q] = "up"
  <2>1. WebInv' /\ chain'[q] = chain[q]
    <3>1. Descend(q) \/ Acquire(q) \/ StatementEnds(q) \/ HandlerReturns(q)
      BY <1>6, <1>4
    <3>2. chain'[q] = chain[q]
      BY <3>1 DEF Descend, Acquire, StatementEnds, HandlerReturns
    <3> QED
      BY <3>1, <3>2, DescendHolds, AcquireHolds, HandlerHolds
  <2>2. at'[q] >= Offset(chain[q]) + 4 /\ at'[q] \in Nat /\ Offset(chain[q]) \in {0, 1}
    <3>1. CASE Descend(q)
      <4>1. WellBuilt(chain[q])
        BY <3>1, Entries DEF Descend, RequestOK
      <4>2. PICK i \in DOMAIN chain[q] : chain[q][i] = "own" /\ at' = [at EXCEPT ![q] = i - 1]
        BY <1>6, <3>1, Entries DEF Descend, WebTyped
      <4>3. i \in 1 .. Len(chain[q]) /\ at'[q] = i - 1
        BY <4>2, Entries DEF WebTyped
      <4>4. i > Offset(chain[q]) + 4
        BY <4>1, <4>2, <4>3 DEF WellBuilt
      <4>5. Offset(chain[q]) \in {0, 1}
        BY DEF Offset
      <4> QED
        BY <4>3, <4>4, <4>5
    <3>2. CASE StatementEnds(q) \/ HandlerReturns(q)
      <4>1. at'[q] = at[q] /\ WellBuilt(chain[q]) /\ at[q] = Len(chain[q])
        <5>1. stage[q] \in {"connected", "handler"} /\ at' = at
          BY <3>2 DEF StatementEnds, HandlerReturns
        <5> QED
          BY <5>1, Entries DEF RequestOK
      <4> QED
        BY <4>1, Entries DEF WellBuilt
    <3> QED
      BY <1>6, <3>1, <3>2, Entries DEF Arrive, Acquire, WebTyped
  <2>3. ResultOK(resp'[q], chain[q], at'[q])
    BY <1>6, <2>1 DEF WebInv, RequestOK
  <2>4. q \notin Counted' /\ q \notin CountedErrors'
    BY <2>1, <2>2 DEF Counted, CountedErrors, Offset
  <2>5. q \notin Recovered'
    BY <2>2, <2>3 DEF Recovered, ResultOK
  <2> QED
    BY <1>1, <1>2, <1>3, <2>4, <2>5, NothingCounted
<1> QED
  BY <1>5, <1>6

LEMMA GoingUpCounts ==
  ASSUME WebInv, CountersOK, NoneCut, NEW q \in Requests, Ascend(q) PROVE CountersOK'
<1> DEFINE o == Offset(chain[q])
           i == at[q]
           e == resp[q]
<1>1. /\ stage[q] = "up" /\ i > 0 /\ i \in Nat /\ o \in {0, 1} /\ e \in Encoders /\ WebTyped
      /\ OthersKeep(q)
  <2>1. stage[q] = "up" /\ i > 0
    BY DEF Ascend, Panics, MidErrors, Metrics, PassesBy
  <2>2. OthersKeep(q)
    BY StepKeepsOthers DEF RequestStep
  <2> QED
    BY <2>1, <2>2, Entries
<1>2. /\ Innermost(q) = "errors" <=> i = o + 2
      /\ Innermost(q) = "metrics" <=> i = o + 3
      /\ Innermost(q) = "panics" <=> i = o + 4
      /\ ResultOK(e, chain[q], i) /\ WellBuilt(chain[q]) /\ i \in 1 .. Len(chain[q])
  BY <1>1, InnermostIs
\* What q counts for, before and after.
<1>3. /\ q \in Counted <=> i < o + 3
      /\ q \in CountedErrors <=> i < o + 3 /\ e.failed # "no"
      /\ q \in Recovered <=> e.failed = "panic" /\ e.kind # "panic"
  BY <1>1 DEF Counted, CountedErrors, Recovered, Returned
<1>4. ASSUME NEW r, Leave(q, r)
      PROVE  /\ q \in Counted' <=> i - 1 < o + 3
             /\ q \in CountedErrors' <=> i - 1 < o + 3 /\ r.failed # "no"
             /\ q \in Recovered' <=> r.failed = "panic" /\ r.kind # "panic"
  <2>1. /\ stage'[q] = "up" /\ at'[q] = i - 1 /\ chain'[q] = chain[q] /\ resp'[q] = r
    BY <1>1, <1>4 DEF Leave, WebTyped
  <2>2. Offset(chain'[q]) = o /\ Offset(chain[q])' = Offset(chain'[q])
    BY <2>1 DEF Offset
  <2> QED
    BY <2>1, <2>2 DEF Counted, CountedErrors, Recovered, Returned
<1>5. CASE MidErrors(q)
  <2> DEFINE r == Errors(e)
  <2>1. i = o + 2 /\ e.kind # "panic" /\ Leave(q, r) /\ UNCHANGED counters
    BY <1>2, <1>5 DEF MidErrors
  <2>2. r.kind # "panic" /\ r.failed = e.failed
    BY <1>1, <2>1 DEF Errors, IsError, Encoders
  <2> HIDE DEF r
  <2>3. i - 1 < o + 3 /\ i < o + 3
    BY <1>1, <2>1
  <2> QED
    BY <1>1, <1>3, <1>4, <2>1, <2>2, <2>3, NothingCounted
<1>6. CASE PassesBy(q)
  <2>1. Leave(q, e) /\ UNCHANGED counters
    BY <1>6 DEF PassesBy
  <2>2. i - 1 < o + 3 <=> i < o + 3
    BY <1>1, <1>2, <1>6 DEF PassesBy, ResultOK
  <2> QED
    BY <1>1, <1>3, <1>4, <2>1, <2>2, NothingCounted
<1>7. CASE Metrics(q)
  <2>1. /\ i = o + 3 /\ e.kind # "panic" /\ Leave(q, e)
        /\ Add({"requests"} \union (IF IsError(e) THEN {"errors"} ELSE {}))
        /\ IsError(e) <=> e.failed # "no"
    BY <1>2, <1>7 DEF Metrics, ResultOK, IsError
  <2>2. i - 1 < o + 3 /\ ~ (i < o + 3)
    BY <1>1, <2>1
  <2>3. /\ counters'["requests"] = counters["requests"] + 1
        /\ counters'["errors"] = counters["errors"] + (IF e.failed # "no" THEN 1 ELSE 0)
        /\ counters'["panics"] = counters["panics"]
    BY <1>1, <2>1 DEF Add, WebTyped, CounterNames
  <2>4. /\ q \notin Counted /\ q \in Counted'
        /\ q \notin CountedErrors /\ (q \in CountedErrors' <=> e.failed # "no")
        /\ q \in Recovered' <=> q \in Recovered
    BY <1>3, <1>4, <2>1, <2>2
  <2>5. IsFiniteSet(Counted') /\ counters'["requests"] = Cardinality(Counted')
    BY <1>1, <2>3, <2>4, OneMore, OthersCountAsBefore DEF CountersOK
  <2>6. IsFiniteSet(CountedErrors') /\ counters'["errors"] = Cardinality(CountedErrors')
    <3>1. /\ IsFiniteSet(CountedErrors) /\ counters["errors"] = Cardinality(CountedErrors)
          /\ CountedErrors' \ {q} = CountedErrors \ {q}
      BY <1>1, OthersCountAsBefore DEF CountersOK
    <3>2. CASE e.failed # "no"
      <4>1. q \in CountedErrors' /\ q \notin CountedErrors
        BY <2>4, <3>2
      <4>2. IsFiniteSet(CountedErrors') /\ Cardinality(CountedErrors') = Cardinality(CountedErrors) + 1
        BY <3>1, <4>1, OneMore
      <4>3. counters'["errors"] = counters["errors"] + 1
        BY <2>3, <3>2
      <4> QED
        BY <3>1, <4>2, <4>3
    <3>3. CASE e.failed = "no"
      <4>1. CountedErrors' = CountedErrors
        BY <2>4, <3>1, <3>3
      <4>2. counters["errors"] \in Nat
        BY <1>1 DEF WebTyped, CounterNames
      <4>3. counters'["errors"] = counters["errors"]
        BY <2>3, <3>3, <4>2
      <4> QED
        BY <3>1, <4>1, <4>3
    <3> QED
      BY <3>2, <3>3
  <2>7. IsFiniteSet(Recovered') /\ counters'["panics"] = Cardinality(Recovered')
    BY <1>1, <2>3, <2>4, OneMore, OthersCountAsBefore DEF CountersOK
  <2> QED
    BY <2>5, <2>6, <2>7 DEF CountersOK
<1>8. CASE Panics(q)
  <2> DEFINE r == Encoder("error", "InternalOnlyLog", "inside", "panic")
  <2>1. /\ i = o + 4 /\ e.kind = "panic" /\ Leave(q, r)
        /\ Add({c \in {"panics"} : \E j \in 1 .. i : chain[q][j] = "metrics"})
    BY <1>2, <1>8 DEF Panics
  <2>2. chain[q][o + 3] = "metrics" /\ o + 3 \in 1 .. i
    BY <1>1, <1>2, <2>1 DEF WellBuilt
  <2>3. ~ (i - 1 < o + 3) /\ ~ (i < o + 3)
    BY <1>1, <2>1
  <2>4. /\ counters'["requests"] = counters["requests"]
        /\ counters'["errors"] = counters["errors"]
        /\ counters'["panics"] = counters["panics"] + 1
    BY <1>1, <2>1, <2>2 DEF Add, WebTyped, CounterNames
  <2>5. r.failed = "panic" /\ r.kind # "panic"
    BY DEF Encoder
  <2> HIDE DEF r
  <2>6. /\ q \in Counted' <=> q \in Counted
        /\ q \in CountedErrors' <=> q \in CountedErrors
        /\ q \notin Recovered /\ q \in Recovered'
    BY <1>3, <1>4, <2>1, <2>3, <2>5
  <2>7. IsFiniteSet(Counted') /\ counters'["requests"] = Cardinality(Counted')
    BY <1>1, <2>4, <2>6, OneMore, OthersCountAsBefore DEF CountersOK
  <2>8. IsFiniteSet(CountedErrors') /\ counters'["errors"] = Cardinality(CountedErrors')
    BY <1>1, <2>4, <2>6, OneMore, OthersCountAsBefore DEF CountersOK
  <2>9. IsFiniteSet(Recovered') /\ counters'["panics"] = Cardinality(Recovered')
    BY <1>1, <2>4, <2>6, OneMore, OthersCountAsBefore DEF CountersOK
  <2> QED
    BY <2>7, <2>8, <2>9 DEF CountersOK
<1> QED
  BY <1>5, <1>6, <1>7, <1>8 DEF Ascend

LEMMA AnsweringCounts ==
  ASSUME WebInv, CountersOK, NoneCut, NEW q \in Requests, Respond(q) \/ ClientLeaves(q)
  PROVE  CountersOK'
<1>1. OthersKeep(q) /\ UNCHANGED <<counters, at, chain, resp>>
  BY StepKeepsOthers DEF RequestStep, Respond, ClientLeaves
<1>2. Returned(q)' <=> Returned(q)
  <2>1. CASE Respond(q)
    BY <2>1, RespondHolds DEF Respond, Returned
  <2>2. CASE ClientLeaves(q)
    BY <2>2 DEF ClientLeaves, Returned
  <2> QED
    BY <2>1, <2>2
<1>3. Offset(chain[q])' = Offset(chain[q])
  BY <1>1 DEF Offset
<1> QED
  BY <1>1, <1>2, <1>3, NothingCounted DEF Counted, CountedErrors, Recovered, Returned

LEMMA CountersInit == Init => CountersOK
<1> SUFFICES ASSUME Init PROVE CountersOK
  OBVIOUS
<1>1. Counted = {} /\ CountedErrors = {} /\ Recovered = {}
  BY DEF Init, WebInit, Counted, CountedErrors, Recovered, Returned
<1> QED
  BY <1>1, FS_EmptySet DEF Init, WebInit, CountersOK, CounterNames

LEMMA CountersStep == IInv /\ CountersOK /\ [Next]_vars => CountersOK'
<1> SUFFICES ASSUME IInv, CountersOK, [Next]_vars, NoneCut' PROVE CountersOK'
  BY DEF CountersOK
<1>1. WebInv
  BY DEF IInv
<1>2. CASE UNCHANGED <<stage, chain, at, resp, counters>>
  BY <1>2 DEF CountersOK, Counted, CountedErrors, Recovered, Returned, Offset, NoneCut
<1>3. CASE stage' = Cut /\ UNCHANGED <<chain, at, resp, counters>>
  <2>1. InFlight = {}
    BY <1>3 DEF Cut, NoneCut, InFlight
  <2>2. stage' = stage
    BY <1>1, <1>3, <2>1 DEF Cut, WebInv, WebTyped
  <2> QED
    BY <1>2, <1>3, <2>2
<1>4. ASSUME NEW q \in Requests, Accept(q) \/ Serve(q) PROVE CountersOK'
  <2>1. NoneCut
    BY <1>4 DEF Accept, Serve, IInv, Ending
  <2>2. CASE Accept(q)
    BY <1>1, <2>1, <2>2, GoingDownCounts DEF Accept
  <2>3. CASE Serve(q)
    BY <1>1, <2>1, <2>3, GoingDownCounts, GoingUpCounts, AnsweringCounts DEF Serve, RequestStep
  <2> QED
    BY <1>4, <2>2, <2>3
<1>5. CASE Signal \/ Exit
  BY <1>2, <1>3, <1>5 DEF Signal, Exit
<1> QED
  BY <1>2, <1>4, <1>5 DEF Next, Stopping, OpenDatabase, MakeHandler, StartServer, Listen, Notify,
     BeginShutdown, ShutdownDone, ShutdownExpires, ServerError, ClosePool, PoolClosed, webVars, vars

(* Whatever the order in which requests go through the middleware: once    *)
(* nothing is in flight, the counters say how many were served, failed and *)
(* panicked (mid/metrics.go, mid/panics.go, metrics.go).                   *)
THEOREM CountersAreRight == Spec => []CountersAgree
<1>1. Spec => [](IInv /\ CountersOK)
  BY InitHolds, StepHolds, CountersInit, CountersStep, PTL DEF Spec
<1>2. IInv /\ CountersOK => CountersAgree
  <2> SUFFICES ASSUME IInv, CountersOK, InFlight = {}, NoneCut PROVE CountersAgree
    BY DEF CountersAgree, NoneCut
  <2>1. \A q \in Requests : Returned(q) <=> stage[q] = "done"
    BY DEF Returned, InFlight
  <2>2. \A q \in Requests : stage[q] = "done" =>
          /\ at[q] = 0 /\ at[q] < Offset(chain[q]) + 3 /\ resp[q].failed \in {"no", "error", "panic"}
          /\ resp[q].failed = "panic" => resp[q].kind # "panic"
    BY Entries DEF IInv, RequestOK, ResultOK, Encoders
  <2>3. /\ Counted = {q \in Requests : stage[q] = "done" /\ resp[q].failed \in {"no", "error", "panic"}}
        /\ CountedErrors = {q \in Requests : stage[q] = "done" /\ resp[q].failed \in {"error", "panic"}}
        /\ Recovered = {q \in Requests : stage[q] = "done" /\ resp[q].failed \in {"panic"}}
    BY <2>1, <2>2 DEF Counted, CountedErrors, Recovered
  <2> QED
    BY <2>3 DEF CountersOK, CountersAgree, Served
<1> QED
  BY <1>1, <1>2, PTL
-----------------------------------------------------------------------------
(* The configuration.                                                      *)
\* A struct of one field is parsed as that field is.
LEMMA OneField ==
  ASSUME NEW f
  PROVE  /\ ParseEnvTags(<<f>>).err <=> ParseField(f).err
         /\ ~ ParseField(f).err => ParseEnvTags(<<f>>).values[1] = ParseField(f).value
<1> DEFINE s == <<f>>
           Failing == {i \in DOMAIN s : ParseField(s[i]).err}
           F == FirstFailure(s)
<1>1. DOMAIN s = {1} /\ s[1] = f /\ Len(s) = 1
  OBVIOUS
<1> HIDE DEF s
<1>2. /\ ParseField(f).err => Failing = {1}
      /\ ~ ParseField(f).err => Failing = {}
  BY <1>1
<1>3. /\ Failing = {} => F = 2
      /\ Failing = {1} => F = 1
  BY <1>1 DEF FirstFailure
<1>4. /\ ParseEnvTags(s).err <=> F <= Len(s)
      /\ ParseEnvTags(s).values =
           [i \in DOMAIN s |-> IF i < F THEN ParseField(s[i]).value ELSE s[i].value]
  BY DEF ParseEnvTags
<1> HIDE DEF F, Failing
<1>5. ParseField(f).err => ParseEnvTags(s).err
  <2>1. ParseField(f).err => F <= Len(s)
    BY <1>1, <1>2, <1>3
  <2> QED
    BY <1>4, <2>1
<1>6. ~ ParseField(f).err =>
        ~ ParseEnvTags(s).err /\ ParseEnvTags(s).values[1] = ParseField(f).value
  <2>1. ~ ParseField(f).err => F = 2
    BY <1>2, <1>3
  <2>2. ~ ParseField(f).err => ~ (F <= Len(s))
    BY <1>1, <2>1
  <2>3. F = 2 => ParseEnvTags(s).values[1] = ParseField(f).value
    BY <1>1, <1>4
  <2> QED
    BY <1>4, <2>1, <2>2, <2>3
<1> QED
  BY <1>5, <1>6 DEF s

ConfigInv ==
  /\ env["corsOrigins"] # Zero
  /\ pool # "none" => env["maxConns"] # Empty
  /\ \/ global = <<>>
     \/ global = MainMiddleware /\ env["corsOrigins"] = Empty
     \/ global = <<"cors">> \o MainMiddleware /\ env["corsOrigins"] # Empty

\* MAX_CONNS set to nothing leaves a pool of no connections, which does not open.
LEMMA OpenedIsSized == ASSUME OpenDatabase PROVE pool' = pool \/ env["maxConns"] # Empty
<1>1. SUFFICES ASSUME env["maxConns"] = Empty PROVE pool' = pool
  OBVIOUS
<1>2. ParseField(MaxConnsField) = Result(Zero, FALSE)
  <2> DEFINE f == MaxConnsField
  <2>1. f.tagged /\ f.env = Empty /\ f.kind = "int" /\ f.value = Zero
    BY <1>1 DEF MaxConnsField, Field
  <2>2. Empty # Unset /\ Empty # Bad
    BY DEF Empty, Unset, Bad
  <2> HIDE DEF f
  <2>3. SetFieldValue("int", Zero, Empty) = Result(Zero, FALSE)
    BY <2>2 DEF SetFieldValue
  <2>4. ParseField(f) = SetFieldValue("int", Zero, Empty)
    BY <2>1, <2>2 DEF ParseField
  <2> QED
    BY <2>3, <2>4 DEF f
<1>3. ~ ParseEnvTags(<<MaxConnsField>>).err => ParseEnvTags(<<MaxConnsField>>).values[1] = 0
  BY <1>2, OneField DEF Result, Zero
<1> QED
  BY <1>3 DEF OpenDatabase

LEMMA CorsIsAsked ==
  ASSUME env["corsOrigins"] # Zero, MakeHandler, UNCHANGED env
  PROVE  \/ UNCHANGED global
         \/ global' = MainMiddleware /\ env["corsOrigins"] = Empty
         \/ global' = <<"cors">> \o MainMiddleware /\ env["corsOrigins"] # Empty
<1> DEFINE f == CorsOriginsField
           parsed == ParseEnvTags(<<f>>)
<1>1. ~ parsed.err => parsed.values[1] = ParseField(f).value
  BY OneField
<1>2. ParseField(f).value = Zero <=> env["corsOrigins"] = Empty
  BY DEF CorsOriginsField, Field, ParseField, SetFieldValue, Result, Zero, Unset, Empty, Bad
<1> HIDE DEF f
<1>3. \/ UNCHANGED global
      \/ ~ parsed.err /\ global' = IF parsed.values[1] = Zero THEN MainMiddleware
                                   ELSE <<"cors">> \o MainMiddleware
  BY DEF MakeHandler, f
<1> QED
  BY <1>1, <1>2, <1>3

LEMMA ConfigStep == IInv /\ ConfigInv /\ [Next]_vars => ConfigInv'
<1> SUFFICES ASSUME IInv, ConfigInv, [Next]_vars PROVE ConfigInv'
  OBVIOUS
<1>1. UNCHANGED env
  BY DEF Next, OpenDatabase, MakeHandler, StartServer, Listen, Notify, Signal, Stopping,
     BeginShutdown, ShutdownDone, ShutdownExpires, ServerError, ClosePool, PoolClosed, Exit, Accept,
     Serve, vars, processVars
<1>2. CASE OpenDatabase
  <2>1. UNCHANGED global
    BY <1>2 DEF OpenDatabase
  <2> QED
    BY <1>1, <1>2, <2>1, OpenedIsSized DEF ConfigInv
<1>3. CASE MakeHandler
  <2>1. UNCHANGED pool
    BY <1>3 DEF MakeHandler, webVars
  <2> QED
    BY <1>1, <1>3, <2>1, CorsIsAsked DEF ConfigInv
<1>4. CASE ClosePool
  BY <1>1, <1>4 DEF ClosePool, processVars, ConfigInv
<1>5. CASE \E q \in Requests : Serve(q)
  <2>1. PICK q \in Requests : RequestStep(q) /\ UNCHANGED processVars
    BY <1>5 DEF Serve
  <2>2. UNCHANGED <<pool, global>>
    BY <2>1, ServeStages DEF processVars, IInv
  <2> QED
    BY <1>1, <2>2 DEF ConfigInv
<1>6. CASE UNCHANGED <<pool, global>>
  BY <1>1, <1>6 DEF ConfigInv
<1> QED
  BY <1>2, <1>3, <1>4, <1>5, <1>6 DEF Next, StartServer, Listen, Notify, Signal, Stopping,
     BeginShutdown, ShutdownDone, ShutdownExpires, ServerError, PoolClosed, Exit, Accept, Arrive,
     vars, webVars, processVars

(* For any settings: a variable set to nothing is not replaced by its      *)
(* default (tags.go ParseEnvTags, postgresdb.go, handler.go).              *)
THEOREM EmptyStaysEmpty == Spec => []EmptyIsNotUnset
<1>1. Init => ConfigInv
  BY DEF Init, WebInit, ConfigInv
<1>2. ConfigInv => EmptyIsNotUnset
  <2>1. MainMiddleware[1] = "logger" /\ (<<"cors">> \o MainMiddleware)[1] = "cors"
    BY DEF MainMiddleware
  <2> QED
    BY <2>1 DEF ConfigInv, EmptyIsNotUnset
<1> QED
  BY <1>1, <1>2, ConfigStep, ServerInvariant, PTL DEF Spec
-----------------------------------------------------------------------------
(* The server implements GracefulServer: what each step does to the door,  *)
(* to the fates and to the code.                                           *)
LEMMA FateIs ==
  ASSUME NEW q \in Requests
  PROVE  /\ stage[q] = "none" => Fate(q) = "none"
         /\ stage[q] \in {"down", "handler", "connected"} => Fate(q) = "working"
         /\ stage[q] = "up" => Fate(q) = IF resp[q].failed = "no" THEN "good" ELSE "bad"
         /\ stage[q] = "done" => Fate(q) = Answered(q)
         /\ stage[q] = "cut" => Fate(q) = "dropped"
BY DEF Fate

LEMMA FateBecomes ==
  ASSUME NEW q \in Requests
  PROVE  /\ stage'[q] \in {"down", "handler", "connected"} => Fate(q)' = "working"
         /\ stage'[q] = "up" => Fate(q)' = IF resp'[q].failed = "no" THEN "good" ELSE "bad"
         /\ stage'[q] = "done" => Fate(q)' = Answered(q)'
         /\ stage'[q] = "cut" => Fate(q)' = "dropped"
BY DEF Fate

LEMMA UnsettledIsInFlight ==
  ASSUME WebTyped, NEW q \in Requests PROVE Fate(q) \in Promise!Unsettled <=> q \in InFlight
BY DEF WebTyped, Stages, Fate, Answered, InFlight, Promise!Unsettled

LEMMA FatesKept ==
  ASSUME UNCHANGED <<stage, resp, status>> PROVE AllFates' = AllFates
BY DEF AllFates, Fate, Answered

\* A step of one request turns its fate and no other.
LEMMA OneFateTurns ==
  ASSUME NEW q \in Requests, OthersKeep(q)
  PROVE  /\ AllFates' = [AllFates EXCEPT ![q] = Fate(q)']
         /\ Fate(q)' = Fate(q) => AllFates' = AllFates
<1>1. \A p \in Requests : p # q => Fate(p)' = Fate(p)
  BY DEF OthersKeep, Fate, Answered
<1> QED
  BY <1>1 DEF AllFates

\* What the request's step makes of its fate.
LEMMA FateTurns ==
  ASSUME WebInv, NEW q \in Requests, RequestStep(q)
  PROVE  \/ Fate(q)' = Fate(q)
         \/ Fate(q) = "working" /\ Fate(q)' \in {"good", "bad"}
         \/ Fate(q) = "good" /\ Fate(q)' \in Promise!Answers
         \/ Fate(q) = "bad" /\ Fate(q)' \in Promise!Answers \ {"success"}
<1>1. WebTyped /\ RequestOK(q) /\ resp[q] \in Encoders /\ status[q] \in {0, 200, 204, 302, 500}
  BY Entries
<1>2. CASE Descend(q)
  <2>1. stage[q] = "down" /\ stage'[q] \in {"handler", "up"}
    BY <1>1, <1>2 DEF Descend, Return, WebTyped
  <2> QED
    BY <2>1, FateIs, FateBecomes
<1>3. CASE Acquire(q)
  <2>1. stage[q] = "handler" /\ stage'[q] = "connected"
    BY <1>1, <1>3 DEF Acquire, WebTyped
  <2> QED
    BY <2>1, FateIs, FateBecomes
<1>4. CASE StatementEnds(q) \/ HandlerReturns(q)
  <2>1. PICK e : Return(q, e)
    BY <1>4 DEF StatementEnds, HandlerReturns
  <2>2. stage[q] \in {"handler", "connected"} /\ stage'[q] = "up"
    BY <1>1, <1>4, <2>1 DEF StatementEnds, HandlerReturns, Return, WebTyped
  <2> QED
    BY <2>2, FateIs, FateBecomes
<1>5. CASE Ascend(q)
  <2>1. stage[q] = "up" /\ stage'[q] = "up" /\ at[q] > 0
    BY <1>5 DEF Ascend, Panics, MidErrors, Metrics, PassesBy, Leave
  <2>2. ASSUME NEW e, Leave(q, e), e.failed = "no" <=> resp[q].failed = "no"
        PROVE  Fate(q)' = Fate(q)
    <3>1. resp'[q] = e
      BY <1>1, <2>2 DEF Leave, WebTyped
    <3> QED
      BY <2>1, <2>2, <3>1, FateIs, FateBecomes
  <2>3. CASE Panics(q)
    <3>1. resp[q].failed # "no"
      BY <1>1, <2>1, <2>3 DEF Panics, RequestOK, ResultOK
    <3> QED
      BY <2>2, <2>3, <3>1 DEF Panics, Encoder
  <2>4. CASE MidErrors(q)
    <3>1. Errors(resp[q]).failed = resp[q].failed
      BY <1>1 DEF Errors, Encoders
    <3> QED
      BY <2>2, <2>4, <3>1 DEF MidErrors
  <2>5. CASE Metrics(q) \/ PassesBy(q)
    BY <2>2, <2>5 DEF Metrics, PassesBy
  <2> QED
    BY <1>5, <2>3, <2>4, <2>5 DEF Ascend
<1>6. CASE Respond(q)
  <2> DEFINE e == resp[q]
  <2>1. stage[q] = "up" /\ at[q] = 0 /\ stage'[q] = "done"
    BY <1>6, RespondHolds DEF Respond
  <2>2. e.kind # "panic" /\ (e.failed = "no" <=> e.kind \notin {"error", "foreign", "panic"})
    BY <1>1, <2>1 DEF RequestOK, ResultOK, Offset
  <2>3. status'[q] = IF client[q] THEN StatusOf(e) ELSE 0
    BY <1>1, <1>6, <2>2 DEF Respond, WebTyped
  <2>4. Fate(q)' = IF status'[q] = 0 THEN "unheard"
                   ELSE IF status'[q] < 400 THEN "success" ELSE "failure"
    BY <2>1, FateBecomes DEF Answered
  <2>5. Fate(q) = IF e.failed = "no" THEN "good" ELSE "bad"
    BY <2>1, FateIs
  <2>6. e.failed # "no" => StatusOf(e) = 500
    BY <2>2 DEF StatusOf
  <2>7. e.failed # "no" => Fate(q)' \in Promise!Answers \ {"success"}
    BY <2>3, <2>4, <2>6 DEF Promise!Answers
  <2>8. Fate(q)' \in Promise!Answers
    BY <2>4 DEF Promise!Answers
  <2> QED
    BY <2>5, <2>7, <2>8
<1>7. CASE ClientLeaves(q)
  BY <1>7 DEF ClientLeaves, Fate, Answered
<1> QED
  BY <1>2, <1>3, <1>4, <1>5, <1>6, <1>7 DEF RequestStep

LEMMA AcceptRefines == ASSUME IInv, NEW q \in Requests, Accept(q) PROVE Promise!Accept(q)
<1>1. PICK own \in {<<>>, <<"own">>} : Arrive(q, global \o own)
  BY DEF Accept
<1>2. listener \in {"open", "failed"} /\ phase # "exited" /\ UNCHANGED <<listener, phase, exit>>
  BY DEF Accept, processVars
<1>3. stage[q] = "none" /\ stage'[q] = "down" /\ OthersKeep(q)
  BY <1>1 DEF Arrive, IInv, WebInv, WebTyped, OthersKeep
<1>4. Fate(q) = "none" /\ Fate(q)' = "working" /\ AllFates[q] = "none"
  BY <1>3, FateIs, FateBecomes DEF AllFates
<1>5. AllFates' = [AllFates EXCEPT ![q] = "working"]
  BY <1>3, <1>4, OneFateTurns
<1>6. Door = "open" /\ Door' = Door /\ Code = Promise!Running /\ Code' = Code
  BY <1>2 DEF Door, Code, Promise!Running
<1> QED
  BY <1>4, <1>5, <1>6 DEF Promise!Accept, Promise!Turns

LEMMA ServeRefines ==
  ASSUME IInv, NEW q \in Requests, Serve(q)
  PROVE  Promise!WorkOut(q) \/ Promise!Answer(q) \/ UNCHANGED Promise!vars
<1>1. RequestStep(q) /\ WebInv /\ phase # "exited" /\ UNCHANGED <<listener, phase, exit>>
  BY DEF Serve, IInv, processVars
<1>2. Door' = Door /\ Code = Promise!Running /\ Code' = Code
  BY <1>1 DEF Door, Code, Promise!Running
<1>3. /\ AllFates[q] = Fate(q)
      /\ AllFates' = [AllFates EXCEPT ![q] = Fate(q)']
      /\ Fate(q)' = Fate(q) => AllFates' = AllFates
  BY <1>1, StepKeepsOthers, OneFateTurns DEF AllFates
<1>4. \A from, to : Fate(q) = from /\ Fate(q)' = to => Promise!Turns(q, from, to)
  BY <1>2, <1>3 DEF Promise!Turns
<1>5. CASE Fate(q)' = Fate(q)
  BY <1>2, <1>3, <1>5 DEF Promise!vars
<1>6. CASE Fate(q) = "working" /\ Fate(q)' \in {"good", "bad"}
  BY <1>4, <1>6 DEF Promise!WorkOut
<1>7. CASE Fate(q) = "good" /\ Fate(q)' \in Promise!Answers
  BY <1>4, <1>7 DEF Promise!Answer
<1>8. CASE Fate(q) = "bad" /\ Fate(q)' \in Promise!Answers \ {"success"}
  BY <1>4, <1>8 DEF Promise!Answer
<1> QED
  BY <1>1, <1>5, <1>6, <1>7, <1>8, FateTurns

\* The process ends, whichever way: what is in flight is dropped.
LEMMA EndRefines ==
  ASSUME IInv, phase # "exited", phase' = "exited", stage' = Cut, UNCHANGED <<resp, status>>,
         exit' \in 0 .. 2, exit' = 0 => exit = 0
  PROVE  Promise!End
<1>1. WebTyped /\ Code = Promise!Running /\ Code' = exit' /\ Door' = "closed"
  BY DEF IInv, WebInv, Code, Door, Promise!Running
<1>2. ASSUME NEW q \in Requests
      PROVE  Fate(q)' = IF Fate(q) \in Promise!Unsettled THEN "dropped" ELSE Fate(q)
  <2>1. stage'[q] = IF q \in InFlight THEN "cut" ELSE stage[q]
    BY DEF Cut
  <2>2. CASE q \in InFlight
    BY <1>1, <2>1, <2>2, UnsettledIsInFlight, FateBecomes
  <2>3. CASE q \notin InFlight
    <3>1. Fate(q)' = Fate(q)
      BY <2>1, <2>3 DEF Fate, Answered
    <3> QED
      BY <1>1, <2>3, <3>1, UnsettledIsInFlight
  <2> QED
    BY <2>2, <2>3
<1>3. AllFates' = [q \in Requests |-> IF AllFates[q] \in Promise!Unsettled THEN "dropped"
                                      ELSE AllFates[q]]
  BY <1>2 DEF AllFates
<1>4. ASSUME Code' = 0 PROVE Door = "closed" /\ AllFates' = AllFates
  <2>1. InFlight = {} /\ listener = "stopped"
    BY <1>1, <1>4 DEF IInv, Ending
  <2>2. \A q \in Requests : AllFates[q] \notin Promise!Unsettled
    BY <1>1, <2>1, UnsettledIsInFlight DEF AllFates
  <2>3. AllFates' = AllFates
    BY <1>3, <2>2 DEF AllFates
  <2> QED
    BY <2>1, <2>3 DEF Door
<1> QED
  BY <1>1, <1>3, <1>4 DEF Promise!End, Promise!Codes

\* The steps of run and of the listener's goroutine.
LEMMA RunRefines ==
  ASSUME IInv,
         OpenDatabase \/ MakeHandler \/ StartServer \/ Listen \/ Notify \/ BeginShutdown
           \/ ShutdownDone \/ ShutdownExpires \/ ServerError \/ ClosePool \/ PoolClosed
  PROVE  Promise!Open \/ Promise!Close \/ UNCHANGED Promise!vars
<1>1. UNCHANGED <<stage, resp, status>>
  BY DEF OpenDatabase, MakeHandler, StartServer, Listen, Notify, BeginShutdown, ShutdownDone,
     ShutdownExpires, ServerError, ClosePool, PoolClosed, webVars
<1>2. phase # "exited" /\ phase' # "exited"
  BY DEF OpenDatabase, MakeHandler, StartServer, Listen, Notify, BeginShutdown, ShutdownDone,
     ShutdownExpires, ServerError, ClosePool, PoolClosed, Fails, processVars
<1>3. AllFates' = AllFates /\ Code = Promise!Running /\ Code' = Code
  BY <1>1, <1>2, FatesKept DEF Code, Promise!Running
<1>4. CASE listener' = listener
  BY <1>2, <1>3, <1>4 DEF Door, Promise!vars
<1>5. CASE Listen
  <2>1. \/ Door = "new" /\ Door' \in {"open", "closed"}
        \/ Door' = Door
    BY <1>2, <1>5 DEF Listen, Door
  <2> QED
    BY <1>3, <2>1 DEF Promise!Open, Promise!Close, Promise!vars
<1>6. CASE listener' = "stopped"
  <2>1. Door' = "closed"
    BY <1>6 DEF Door
  <2> QED
    BY <1>3, <2>1 DEF Promise!Close, Promise!vars
<1>7. CASE StartServer
  <2>1. listener = "none" /\ listener' \in {"none", "starting"}
    BY <1>7 DEF StartServer, IInv, Listening
  <2> QED
    BY <1>2, <1>3, <2>1 DEF Door, Promise!vars
<1> QED
  BY <1>4, <1>5, <1>6, <1>7 DEF OpenDatabase, MakeHandler, Notify, BeginShutdown, ShutdownDone,
     ShutdownExpires, ServerError, ClosePool, PoolClosed, processVars

LEMMA SignalRefines == ASSUME IInv, Signal PROVE Promise!End \/ UNCHANGED Promise!vars
<1>1. phase # "exited" /\ UNCHANGED <<resp, status, listener>>
  BY DEF Signal
<1>2. CASE phase \in {"database", "handler", "server", "notify"}
  <2>1. phase' = "exited" /\ exit' = 2 /\ stage' = Cut
    BY <1>2 DEF Signal
  <2> QED
    BY <1>1, <2>1, EndRefines
<1>3. CASE phase \notin {"database", "handler", "server", "notify"}
  <2>1. UNCHANGED <<phase, exit, stage>>
    BY <1>3 DEF Signal
  <2>2. Door' = Door /\ Code' = Code /\ AllFates' = AllFates
    BY <1>1, <2>1, FatesKept DEF Door, Code
  <2> QED
    BY <2>2 DEF Promise!vars
<1> QED
  BY <1>2, <1>3

LEMMA ExitRefines == ASSUME IInv, Exit PROVE Promise!End
<1>1. phase = "exiting" /\ phase' = "exited" /\ stage' = Cut /\ UNCHANGED <<resp, status, exit>>
  BY DEF Exit
<1>2. exit \in 0 .. 2
  BY <1>1 DEF IInv, ProcessTyped, Ending, Running
<1> QED
  BY <1>1, <1>2, EndRefines

LEMMA StepMoves ==
  ASSUME NEW q \in Requests, Promise!Accept(q) \/ Promise!WorkOut(q) \/ Promise!Answer(q)
  PROVE  Promise!Moves(q)
<1>1. ASSUME NEW from, NEW to, from # to, Promise!Turns(q, from, to)
      PROVE  AllFates'[q] # AllFates[q]
  BY <1>1 DEF Promise!Turns, AllFates
<1>2. AllFates'[q] # AllFates[q]
  BY <1>1 DEF Promise!Accept, Promise!WorkOut, Promise!Answer, Promise!Answers
<1> QED
  BY <1>2 DEF Promise!Moves

LEMMA PromiseStep == IInv /\ [Next]_vars => [Promise!Next]_(Promise!vars)
<1> SUFFICES ASSUME IInv, [Next]_vars PROVE Promise!Next \/ UNCHANGED Promise!vars
  OBVIOUS
<1>1. CASE UNCHANGED vars
  <2>1. UNCHANGED <<stage, resp, status, phase, listener, exit>>
    BY <1>1 DEF vars, webVars, processVars
  <2>2. Door' = Door /\ Code' = Code /\ AllFates' = AllFates
    BY <2>1, FatesKept DEF Door, Code
  <2> QED
    BY <2>2 DEF Promise!vars
<1>2. CASE Next
  BY <1>2, RunRefines, SignalRefines, ExitRefines, AcceptRefines, ServeRefines, StepMoves
     DEF Next, Stopping, Promise!Next
<1> QED
  BY <1>1, <1>2

(* For any number of requests, connections and signals, and whether the    *)
(* listener fails before or after it served, the server keeps the promises *)
(* of GracefulServer: its door closes once and for good, an answer tells   *)
(* the truth and is given once, and an end with code 0 drops nobody        *)
(* (main.go run, handler.go Handle, response.go Respond).                  *)
THEOREM ServerKeepsPromise == Spec => KeepsPromise
<1>1. Init => Promise!Init
  <2> SUFFICES ASSUME Init PROVE Promise!Init
    OBVIOUS
  <2>1. \A q \in Requests : Fate(q) = "none"
    BY FateIs DEF Init, WebInit
  <2>2. AllFates = [q \in Requests |-> "none"]
    BY <2>1 DEF AllFates
  <2> QED
    BY <2>2 DEF Init, Door, Code, Promise!Init, Promise!Running
<1> QED
  BY <1>1, PromiseStep, ServerInvariant, PTL DEF Spec, KeepsPromise, Promise!Spec
=============================================================================
