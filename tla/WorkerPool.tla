----------------------------- MODULE WorkerPool -----------------------------
(***************************************************************************)
(* The generic worker pool of infrastructure/workers: Start, Stop, the     *)
(* worker goroutines with their checkout / process / report cycle, the     *)
(* retry loop, both levels of panic recovery, the ConsecutiveErrorShutdown *)
(* middleware and the pool's error channel.                                *)
(*                                                                         *)
(* External to the pool, and free to do what its interface allows, is the  *)
(* Processor: its queue of tasks and what each of its calls returns.  Time *)
(* is not modelled: a ticker or a backoff timer may fire at any moment.    *)
(***************************************************************************)
EXTENDS Integers, FiniteSets

CONSTANTS
  Workers,        \* the worker goroutines of one Start (workerCount of them)
  Tasks,          \* the tasks the processor's queue begins with
  NoTask,         \* what a worker holds between two tasks
  Starters,       \* the goroutines that may each call Start once
  Stoppers,       \* the goroutines that may each call Stop once
  MaxRetries,     \* the option of that name, which may be zero or negative
  Limited,        \* is ConsecutiveErrorShutdown installed?
  ErrorLimit,     \* its argument
  MaxDeliveries   \* BOUND: how often the queue hands out one task

ASSUME WorkersAssumption == IsFiniteSet(Workers) /\ Workers # {}
ASSUME NoTaskAssumption == NoTask \notin Tasks
ASSUME RetriesAssumption == MaxRetries \in Int
ASSUME LimitAssumption == Limited \in BOOLEAN /\ ErrorLimit \in Nat
ASSUME DeliveriesAssumption == MaxDeliveries \in Nat \ {0}

VARIABLES
  starter,        \* how far each Start call is
  stopper,        \* how far each Stop call is
  running,        \* wp.running
  ctxDone,        \* is wp.ctx, the context of the current Start, cancelled?
  parentDone,     \* is the context passed to Start cancelled?
  sent,           \* how many errors wp.errors holds; nothing receives from it
  closed,         \* is wp.errors closed?
  crashed,        \* has a panic outside every recovery ended the process?
  pc,             \* where each worker goroutine is
  holds,          \* the task between its Checkout and its Complete or Fail
  attempt,        \* the attempt of processWithRetry the worker is in
  processErr,     \* work's local variable of that name
  returned,       \* what work will return
  errorCount,     \* errorCounts of ConsecutiveErrorShutdown
  task,           \* the processor's view of each task
  delivered,      \* history: how often each task was checked out
  reported,       \* history: how often Complete or Fail was called for it
  dropped         \* history: how often its worker gave it up without either

pool == <<starter, stopper, running, ctxDone, parentDone>>
channel == <<sent, closed, crashed>>
job == <<holds, attempt, processErr, returned>>
queue == <<task, delivered, reported, dropped>>
vars == <<pool, channel, pc, job, errorCount, queue>>
-----------------------------------------------------------------------------
(* Errors are told apart as far as errors.Is tells them apart.             *)
Errors == {"noWork", "workerStop", "poolStop", "other"}
Outcomes == Errors \union {"nil"}

MaxAttempts == IF MaxRetries <= 0 THEN 1 ELSE MaxRetries

CapacityOneShort == Cardinality(Workers) - 1

\* make(chan error, workerCount)
Capacity == Cardinality(Workers)

StartLocked == \E s \in Starters : starter[s] \in {"spawning", "waiting", "finishing"}
StopLocked == \E p \in Stoppers : stopper[p] \in {"cancelling", "clearing"}
AllExited == \A w \in Workers : pc[w] = "exited"

\* A goroutine takes a step only while the process lives.
StarterAt(s, label) == ~ crashed /\ starter[s] = label
StopperAt(p, label) == ~ crashed /\ stopper[p] = label
At(w, label) == ~ crashed /\ pc[w] = label

Init ==
  /\ starter = [s \in Starters |-> "idle"]
  /\ stopper = [p \in Stoppers |-> "idle"]
  /\ running = FALSE
  /\ ctxDone = FALSE
  /\ parentDone = FALSE
  /\ sent = 0
  /\ closed = FALSE
  /\ crashed = FALSE
  /\ pc = [w \in Workers |-> "off"]
  /\ holds = [w \in Workers |-> NoTask]
  /\ attempt = [w \in Workers |-> 0]
  /\ processErr = [w \in Workers |-> "nil"]
  /\ returned = [w \in Workers |-> "nil"]
  /\ errorCount = [w \in Workers |-> 0]
  /\ task = [t \in Tasks |-> "ready"]
  /\ delivered = [t \in Tasks |-> 0]
  /\ reported = [t \in Tasks |-> 0]
  /\ dropped = [t \in Tasks |-> 0]
-----------------------------------------------------------------------------
(* Start.  startMutex is held from BeginStart to FinishStart.              *)

\* Lock, and derive a fresh context from the caller's.
BeginStart(s) ==
  /\ StarterAt(s, "idle")
  /\ ~ StartLocked
  /\ starter' = [starter EXCEPT ![s] = "spawning"]
  /\ ctxDone' = parentDone
  /\ pc' = [w \in Workers |-> "off"]
  /\ UNCHANGED <<stopper, running, parentDone, channel, job, errorCount, queue>>

\* go wp.worker(workerID): the goroutine may run before its siblings exist.
Spawn(s, w) ==
  /\ StarterAt(s, "spawning")
  /\ pc[w] = "off"
  /\ pc' = [pc EXCEPT ![w] = "select"]
  /\ UNCHANGED <<pool, channel, job, errorCount, queue>>

\* running = true, after the spawn loop and not under stopMutex.
EnterWait(s) ==
  /\ StarterAt(s, "spawning")
  /\ \A w \in Workers : pc[w] # "off"
  /\ starter' = [starter EXCEPT ![s] = "waiting"]
  /\ running' = TRUE
  /\ UNCHANGED <<stopper, ctxDone, parentDone, channel, pc, job, errorCount, queue>>

\* close(wp.errors) without the wait before it.
CloseWithoutWait(s) ==
  /\ StarterAt(s, "waiting")
  /\ starter' = [starter EXCEPT ![s] = "finishing"]
  /\ closed' = TRUE
  /\ crashed' = closed
  /\ UNCHANGED <<stopper, running, ctxDone, parentDone, sent, pc, job, errorCount, queue>>

\* workers.Wait() returns, then close(wp.errors): closing it twice panics.
WaitAndClose(s) ==
  /\ StarterAt(s, "waiting")
  /\ AllExited
  /\ starter' = [starter EXCEPT ![s] = "finishing"]
  /\ closed' = TRUE
  /\ crashed' = closed
  /\ UNCHANGED <<stopper, running, ctxDone, parentDone, sent, pc, job, errorCount, queue>>

\* running = false, unlock and return.
FinishStart(s) ==
  /\ StarterAt(s, "finishing")
  /\ starter' = [starter EXCEPT ![s] = "returned"]
  /\ running' = FALSE
  /\ UNCHANGED <<stopper, ctxDone, parentDone, channel, pc, job, errorCount, queue>>
-----------------------------------------------------------------------------
(* Stop.  stopMutex is held from a successful StopCheck to StopClear, and  *)
(* it orders Stop calls only: Start writes running under another mutex.    *)

StopCheck(p) ==
  /\ StopperAt(p, "idle")
  /\ ~ StopLocked
  /\ stopper' = [stopper EXCEPT ![p] = IF running THEN "cancelling" ELSE "ignored"]
  /\ UNCHANGED <<starter, running, ctxDone, parentDone, channel, pc, job, errorCount, queue>>

\* wp.cancel() of whichever Start is the latest by now.
StopCancel(p) ==
  /\ StopperAt(p, "cancelling")
  /\ stopper' = [stopper EXCEPT ![p] = "clearing"]
  /\ ctxDone' = TRUE
  /\ UNCHANGED <<starter, running, parentDone, channel, pc, job, errorCount, queue>>

StopWithoutClear(p) ==
  /\ StopperAt(p, "clearing")
  /\ stopper' = [stopper EXCEPT ![p] = "stopped"]
  /\ UNCHANGED <<starter, running, ctxDone, parentDone, channel, pc, job, errorCount, queue>>

StopClear(p) ==
  /\ StopperAt(p, "clearing")
  /\ stopper' = [stopper EXCEPT ![p] = "stopped"]
  /\ running' = FALSE
  /\ UNCHANGED <<starter, ctxDone, parentDone, channel, pc, job, errorCount, queue>>

\* The context handed to Start is cancelled by its owner.
ParentCancel ==
  /\ ~ crashed
  /\ ~ parentDone
  /\ parentDone' = TRUE
  /\ ctxDone' = TRUE
  /\ UNCHANGED <<starter, stopper, running, channel, pc, job, errorCount, queue>>
-----------------------------------------------------------------------------
(* What a worker does with the error of one work cycle.                    *)

\* ConsecutiveErrorShutdown's count after work returned e.
CountAfter(w, e) ==
  IF ~ Limited \/ e = "noWork" THEN errorCount[w]
  ELSE IF e = "nil" THEN 0 ELSE errorCount[w] + 1

\* ConsecutiveErrorShutdown's result: past the limit it replaces the error.
Middleware(w, e) ==
  IF Limited /\ e \notin {"nil", "noWork"} /\ CountAfter(w, e) > ErrorLimit
  THEN "workerStop" ELSE e

\* The non-blocking send of a pool shutdown request.  A send on a closed
\* channel panics in the goroutine's own frame and ends the process.
SendPoolStop ==
  /\ crashed' = closed
  /\ sent' = IF ~ closed /\ sent < Capacity THEN sent + 1 ELSE sent
  /\ UNCHANGED closed

KeepPollingAfterPoolStop(w, e) ==
  /\ pc' = [pc EXCEPT ![w] = IF e = "workerStop" THEN "exited" ELSE "select"]
  /\ IF e = "poolStop" THEN SendPoolStop ELSE UNCHANGED channel

\* worker's switch on the error: two sentinels end the goroutine, anything
\* else only sets the polling interval.
Dispatch(w, e) ==
  /\ pc' = [pc EXCEPT ![w] = IF e \in {"workerStop", "poolStop"} THEN "exited" ELSE "select"]
  /\ IF e = "poolStop" THEN SendPoolStop ELSE UNCHANGED channel

\* The middleware's count is kept but its verdict is not returned.
VerdictIgnored(w, e) ==
  /\ errorCount' = [errorCount EXCEPT ![w] = CountAfter(w, e)]
  /\ Dispatch(w, e)

\* workFunc returned e.
AfterWork(w, e) ==
  /\ errorCount' = [errorCount EXCEPT ![w] = CountAfter(w, e)]
  /\ Dispatch(w, Middleware(w, e))

\* workFunc panicked: workWithPanicRecovery makes a plain error of it, and
\* the middleware, which does not recover, never counted it.
AfterPanic(w) ==
  /\ UNCHANGED errorCount
  /\ Dispatch(w, "other")

\* The job's variables go out of scope.
ForgetJob(w) ==
  /\ holds' = [holds EXCEPT ![w] = NoTask]
  /\ attempt' = [attempt EXCEPT ![w] = 0]
  /\ processErr' = [processErr EXCEPT ![w] = "nil"]
  /\ returned' = [returned EXCEPT ![w] = "nil"]
-----------------------------------------------------------------------------
(* The select of the worker loop.  When the context is done and the ticker *)
(* has fired, Go chooses either branch.                                    *)

SeeDoneWhileRunning(w) ==
  /\ At(w, "select")
  /\ ctxDone /\ running
  /\ pc' = [pc EXCEPT ![w] = "exited"]
  /\ UNCHANGED <<pool, channel, job, errorCount, queue>>

SeeDone(w) ==
  /\ At(w, "select")
  /\ ctxDone
  /\ pc' = [pc EXCEPT ![w] = "exited"]
  /\ UNCHANGED <<pool, channel, job, errorCount, queue>>

\* The ticker's branch, with the three ways Checkout can end.
CheckoutTask(w, t) ==
  /\ At(w, "select")
  /\ task[t] = "ready"
  /\ delivered[t] < MaxDeliveries
  /\ task' = [task EXCEPT ![t] = "out"]
  /\ delivered' = [delivered EXCEPT ![t] = @ + 1]
  /\ holds' = [holds EXCEPT ![w] = t]
  /\ attempt' = [attempt EXCEPT ![w] = 1]
  /\ pc' = [pc EXCEPT ![w] = "process"]
  /\ UNCHANGED <<pool, channel, processErr, returned, errorCount, reported, dropped>>

CheckoutFails(w, e) ==
  /\ At(w, "select")
  /\ AfterWork(w, e)
  /\ UNCHANGED <<pool, job, queue>>

CheckoutPanics(w) ==
  /\ At(w, "select")
  /\ AfterPanic(w)
  /\ UNCHANGED <<pool, job, queue>>
-----------------------------------------------------------------------------
(* Pre-process hooks and processWithRetry.                                 *)

\* work reaches its deferred function with processErr = pe; it will return r.
Defer(w, pe, r) ==
  /\ pc' = [pc EXCEPT ![w] = "deferred"]
  /\ processErr' = [processErr EXCEPT ![w] = pe]
  /\ returned' = [returned EXCEPT ![w] = r]
  /\ UNCHANGED <<pool, channel, holds, attempt, errorCount, queue>>

ProcessSucceeds(w) ==
  /\ At(w, "process")
  /\ Defer(w, "nil", "nil")

\* One attempt too many: attempt <= maxAttempts tested after the attempt.
RetryOnceMore(w, e) ==
  /\ At(w, "process")
  /\ \/ ctxDone /\ Defer(w, "other", "other")
     \/ ~ ctxDone /\ attempt[w] > MaxAttempts /\ Defer(w, e, e)
     \/ /\ ~ ctxDone
        /\ attempt[w] <= MaxAttempts
        /\ pc' = [pc EXCEPT ![w] = "backoff"]
        /\ UNCHANGED <<pool, channel, job, errorCount, queue>>

\* A failed attempt: a done context replaces the error, the last attempt
\* returns it, any other backs off first.
ProcessFails(w, e) ==
  /\ At(w, "process")
  /\ \/ ctxDone /\ Defer(w, "other", "other")
     \/ ~ ctxDone /\ attempt[w] >= MaxAttempts /\ Defer(w, e, e)
     \/ /\ ~ ctxDone
        /\ attempt[w] < MaxAttempts
        /\ pc' = [pc EXCEPT ![w] = "backoff"]
        /\ UNCHANGED <<pool, channel, job, errorCount, queue>>

\* A pre-process hook or Process panics.  The deferred recovery sets
\* processErr, but work's result is unnamed and stays nil.
TaskPanics(w) ==
  /\ At(w, "process")
  /\ Defer(w, "other", "nil")

BackoffCancelled(w) ==
  /\ At(w, "backoff")
  /\ ctxDone
  /\ Defer(w, "other", "other")

\* The next attempt is not counted.
BackoffForgetsAttempt(w) ==
  /\ At(w, "backoff")
  /\ pc' = [pc EXCEPT ![w] = "process"]
  /\ UNCHANGED <<pool, channel, job, errorCount, queue>>

BackoffElapsed(w) ==
  /\ At(w, "backoff")
  /\ attempt' = [attempt EXCEPT ![w] = @ + 1]
  /\ pc' = [pc EXCEPT ![w] = "process"]
  /\ UNCHANGED <<pool, channel, holds, processErr, returned, errorCount, queue>>
-----------------------------------------------------------------------------
(* The deferred function: post-process hooks, then Complete or Fail.       *)

\* A panicking post-process hook escapes the deferred function: the task is
\* neither completed nor failed.
PostHookPanics(w) ==
  /\ At(w, "deferred")
  /\ dropped' = [dropped EXCEPT ![holds[w]] = @ + 1]
  /\ ForgetJob(w)
  /\ AfterPanic(w)
  /\ UNCHANGED <<pool, task, delivered, reported>>

\* What the processor may make of the call.  An error it returns is logged
\* and leaves the task checked out; Fail may also put the task back.
Verdicts(w) ==
  IF processErr[w] = "nil" THEN {"completed", "out"} ELSE {"failed", "ready", "out"}

Call(w, verdict) ==
  /\ task' = [task EXCEPT ![holds[w]] = verdict]
  /\ reported' = [reported EXCEPT ![holds[w]] = @ + 1]
  /\ ForgetJob(w)
  /\ UNCHANGED <<pool, delivered, dropped>>

\* The task goes back to the queue while its worker is still in the call.
ReportAndRetry(w, verdict) ==
  /\ At(w, "deferred")
  /\ verdict \in Verdicts(w)
  /\ task' = [task EXCEPT ![holds[w]] = verdict]
  /\ reported' = [reported EXCEPT ![holds[w]] = @ + 1]
  /\ UNCHANGED <<pool, channel, pc, job, errorCount, delivered, dropped>>

Report(w, verdict) ==
  /\ At(w, "deferred")
  /\ verdict \in Verdicts(w)
  /\ Call(w, verdict)
  /\ AfterWork(w, returned[w])

\* Complete or Fail panics, before or after it took effect.
ReportPanics(w, verdict) ==
  /\ At(w, "deferred")
  /\ verdict \in Verdicts(w)
  /\ Call(w, verdict)
  /\ AfterPanic(w)
-----------------------------------------------------------------------------
StarterStep(s) ==
  \/ \E w \in Workers : Spawn(s, w)
  \/ EnterWait(s)
  \/ WaitAndClose(s)
  \/ FinishStart(s)

StopperStep(p) == StopCancel(p) \/ StopClear(p)

WorkStep(w) ==
  \/ ProcessSucceeds(w)
  \/ \E e \in Errors : ProcessFails(w, e)
  \/ TaskPanics(w)
  \/ BackoffCancelled(w)
  \/ BackoffElapsed(w)
  \/ PostHookPanics(w)
  \/ \E v \in {"completed", "failed", "ready", "out"} : Report(w, v) \/ ReportPanics(w, v)

PollStep(w) ==
  \/ \E t \in Tasks : CheckoutTask(w, t)
  \/ \E e \in Errors : CheckoutFails(w, e)
  \/ CheckoutPanics(w)

\* The program may stop here, and only here.
Terminated ==
  /\ \/ crashed
     \/ /\ \A s \in Starters : starter[s] = "returned"
        /\ \A p \in Stoppers : stopper[p] \in {"stopped", "ignored"}
  /\ UNCHANGED vars

Next ==
  \/ \E s \in Starters : BeginStart(s) \/ StarterStep(s)
  \/ \E p \in Stoppers : StopCheck(p) \/ StopperStep(p)
  \/ ParentCancel
  \/ \E w \in Workers : SeeDone(w) \/ PollStep(w) \/ WorkStep(w)
  \/ Terminated

Spec == Init /\ [][Next]_vars

\* Go runs every runnable goroutine, a Processor's call returns, and a select
\* with two ready branches does not prefer one for ever.  Nobody has to call
\* Start or Stop or to cancel.
Fairness ==
  /\ \A s \in Starters : WF_vars(StarterStep(s))
  /\ \A p \in Stoppers : WF_vars(StopperStep(p))
  /\ \A w \in Workers : WF_vars(WorkStep(w)) /\ SF_vars(SeeDone(w))

FairSpec == Spec /\ Fairness
-----------------------------------------------------------------------------
StarterStates == {"idle", "spawning", "waiting", "finishing", "returned"}
StopperStates == {"idle", "cancelling", "clearing", "stopped", "ignored"}
WorkerStates == {"off", "select", "process", "backoff", "deferred", "exited"}
TaskStates == {"ready", "out", "completed", "failed"}

(* Every variable keeps its type; in particular no attempt of              *)
(* processWithRetry is numbered beyond the configured maximum.             *)
TypeOK ==
  /\ starter \in [Starters -> StarterStates]
  /\ stopper \in [Stoppers -> StopperStates]
  /\ running \in BOOLEAN /\ ctxDone \in BOOLEAN /\ parentDone \in BOOLEAN
  /\ sent \in Nat /\ closed \in BOOLEAN /\ crashed \in BOOLEAN
  /\ pc \in [Workers -> WorkerStates]
  /\ holds \in [Workers -> Tasks \union {NoTask}]
  /\ attempt \in [Workers -> 0 .. MaxAttempts]
  /\ processErr \in [Workers -> Outcomes]
  /\ returned \in [Workers -> Outcomes]
  /\ errorCount \in [Workers -> Nat]
  /\ task \in [Tasks -> TaskStates]
  /\ delivered \in [Tasks -> Nat]
  /\ reported \in [Tasks -> Nat]
  /\ dropped \in [Tasks -> Nat]

InHand(t) == {w \in Workers : holds[w] = t}

(* Whatever the interleaving of workers, retries, panics and shutdown, a   *)
(* task is in the hands of one worker at most, and every hand-out of it is *)
(* in progress, was reported once (Complete or Fail) or was dropped once.  *)
LedgerBalanced ==
  \A t \in Tasks :
    /\ \A v, w \in InHand(t) : v = w
    /\ delivered[t] = reported[t] + dropped[t] + (IF InHand(t) = {} THEN 0 ELSE 1)

OneStart ==
  \A r, s \in Starters : starter[r] # "idle" /\ starter[s] # "idle" => r = s

(* As long as Start is called once, no goroutine of the pool ends the      *)
(* process: no worker can still send when Start closes the channel.        *)
OneStartNeverCrashes == OneStart => ~ crashed

(* While a worker may still ask for the pool's shutdown, the open error    *)
(* channel has room for its request: the branch that gives it up is dead.  *)
ErrorChannelHasRoom ==
  ~ closed /\ (\E w \in Workers : pc[w] # "exited") => sent < Capacity

(* Of several concurrent Stop calls during one Start, one cancels.         *)
OneStopCancels ==
  OneStart => \A p, q \in Stoppers :
    /\ stopper[p] \in {"cancelling", "clearing", "stopped"}
    /\ stopper[q] \in {"cancelling", "clearing", "stopped"}
    => p = q

(* During one Start, a worker that goes on has at most ErrorLimit errors   *)
(* behind it since its last success.                                       *)
LimitStopsWorker ==
  Limited /\ OneStart => \A w \in Workers : pc[w] # "exited" => errorCount[w] <= ErrorLimit

(* Once the context is cancelled, by Stop or by its owner, every worker    *)
(* gets out of whatever it does and the Start call in progress returns.    *)
CancelDrains == (ctxDone /\ StartLocked) ~> ~ StartLocked

(* The pool keeps the promises of TaskLedger, the fair pool all of them.   *)
Ledger == INSTANCE TaskLedger WITH
  open <- StartLocked,
  queue <- {t \in Tasks : task[t] = "ready"},
  held <- holds,
  answered <- reported,
  lost <- dropped

KeepsLedger == Ledger!Spec
AnswersEveryClaim == Ledger!FairSpec
-----------------------------------------------------------------------------
(* What comments of the code say and the code does not do.                 *)

(* workers.go:70, startMutex "Protects against multiple Start() calls".    *)
RepeatedStartIsSafe == ~ crashed

(* workers.go:19, "pool should shutdown", and :74, "Tube for workers to    *)
(* report critical errors": a request is followed by the pool's shutdown.  *)
PoolStopIsHonoured == (sent > 0) ~> AllExited
=============================================================================
