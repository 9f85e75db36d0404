-------------------------- MODULE WorkerPoolProofs --------------------------
(***************************************************************************)
(* Proofs about WorkerPool, for every set of workers, tasks and callers.   *)
(***************************************************************************)
EXTENDS WorkerPool, FiniteSetTheorems, TLAPS

USE RetriesAssumption, LimitAssumption, DeliveriesAssumption, NoTaskAssumption

LEMMA MaxAttemptsPositive == MaxAttempts \in Nat /\ MaxAttempts >= 1
BY DEF MaxAttempts

(* What the type of attempt needs beyond itself: only a worker with an     *)
(* attempt left backs off.                                                 *)
BackoffHasAttempt == \A w \in Workers : pc[w] = "backoff" => attempt[w] < MaxAttempts

(* A worker has a task in its hands exactly while it is inside work.       *)
BusyHolds ==
  \A w \in Workers : holds[w] # NoTask <=> pc[w] \in {"process", "backoff", "deferred"}

JobInv == TypeOK /\ BackoffHasAttempt /\ BusyHolds

-----------------------------------------------------------------------------
(* What startMutex and the WaitGroup keep true between the calls of Start  *)
(* and the workers.                                                        *)
Locked == {"spawning", "waiting", "finishing"}

OneHoldsLock ==
  \A r, s \in Starters : starter[r] \in Locked /\ starter[s] \in Locked => r = s

WorkersNeedStart ==
  /\ ~ StartLocked => \A w \in Workers : pc[w] \in {"off", "exited"}
  /\ (\A s \in Starters : starter[s] = "idle") => \A w \in Workers : pc[w] = "off"

ClosedAfterWait ==
  /\ \A s \in Starters : starter[s] = "waiting" => \A w \in Workers : pc[w] # "off"
  /\ \A s \in Starters : starter[s] = "finishing" => AllExited
  /\ closed <=> \E s \in Starters : starter[s] \in {"finishing", "returned"}

LockInv == OneHoldsLock /\ WorkersNeedStart /\ ClosedAfterWait

IInv == JobInv /\ LockInv

LEMMA InitIInv == Init => IInv
<1> SUFFICES ASSUME Init PROVE IInv
  OBVIOUS
<1>1. TypeOK
  <2>1. attempt \in [Workers -> 0 .. MaxAttempts]
    BY MaxAttemptsPositive DEF Init
  <2>2. /\ starter \in [Starters -> StarterStates]
        /\ stopper \in [Stoppers -> StopperStates]
        /\ pc \in [Workers -> WorkerStates]
        /\ task \in [Tasks -> TaskStates]
    BY DEF Init, StarterStates, StopperStates, WorkerStates, TaskStates
  <2>3. /\ processErr \in [Workers -> Outcomes]
        /\ returned \in [Workers -> Outcomes]
    BY DEF Init, Outcomes
  <2> QED BY <2>1, <2>2, <2>3 DEF Init, TypeOK
<1>2. BackoffHasAttempt /\ BusyHolds
  BY DEF Init, BackoffHasAttempt, BusyHolds
<1>3. LockInv
  BY DEF Init, LockInv, OneHoldsLock, WorkersNeedStart, ClosedAfterWait, StartLocked, Locked
<1> QED BY <1>1, <1>2, <1>3 DEF IInv, JobInv
-----------------------------------------------------------------------------
(* What the end of a work cycle does to its worker and to the channel: a   *)
(* worker that sends exits, and only a closed channel can crash it.        *)
EndsCycle(w) ==
  /\ pc' \in [Workers -> WorkerStates]
  /\ pc'[w] \in {"select", "exited"}
  /\ \A v \in Workers : v # w => pc'[v] = pc[v]
  /\ sent' \in Nat
  /\ sent' = sent \/ (sent' = sent + 1 /\ pc'[w] = "exited")
  /\ closed' = closed
  /\ crashed' \in {crashed, closed}

(* What it does to the error counts: past the limit the worker exits.      *)
CountsErrors(w) ==
  /\ errorCount' \in [Workers -> Nat]
  /\ \A v \in Workers : v # w => errorCount'[v] = errorCount[v]
  /\ Limited /\ errorCount[w] <= ErrorLimit /\ pc'[w] # "exited" => errorCount'[w] <= ErrorLimit

LEMMA DispatchType ==
  ASSUME TypeOK, NEW w \in Workers, NEW e \in Outcomes, Dispatch(w, e)
  PROVE  EndsCycle(w)
BY FS_CardinalityType, WorkersAssumption
   DEF EndsCycle, TypeOK, Dispatch, SendPoolStop, channel, WorkerStates, Capacity

LEMMA AfterWorkType ==
  ASSUME TypeOK, NEW w \in Workers, NEW e \in Outcomes, AfterWork(w, e)
  PROVE  EndsCycle(w) /\ CountsErrors(w)
<1>1. Middleware(w, e) \in Outcomes
  BY DEF Middleware, Outcomes, Errors
<1>2. CountAfter(w, e) \in Nat
  BY DEF CountAfter, TypeOK
<1>3. EndsCycle(w)
  BY <1>1, DispatchType DEF AfterWork
<1>4. ASSUME Limited, errorCount[w] <= ErrorLimit, CountAfter(w, e) > ErrorLimit
      PROVE  pc'[w] = "exited"
  <2>1. Middleware(w, e) = "workerStop"
    BY <1>4 DEF CountAfter, Middleware, TypeOK
  <2> QED BY <2>1 DEF AfterWork, Dispatch, TypeOK
<1> QED BY <1>2, <1>3, <1>4 DEF AfterWork, CountsErrors, TypeOK

LEMMA AfterPanicType ==
  ASSUME TypeOK, NEW w \in Workers, AfterPanic(w)
  PROVE  EndsCycle(w) /\ CountsErrors(w)
<1>1. "other" \in Outcomes
  BY DEF Outcomes, Errors
<1> QED BY <1>1, DispatchType DEF AfterPanic, CountsErrors, TypeOK

LEMMA JobStep == IInv /\ [Next]_vars => JobInv'
<1> SUFFICES ASSUME IInv, [Next]_vars PROVE JobInv'
  OBVIOUS
<1> USE MaxAttemptsPositive DEF IInv, JobInv, BackoffHasAttempt, BusyHolds, pool, channel, job, queue,
      StarterAt, StopperAt, At
<1>1. CASE UNCHANGED vars
  BY <1>1 DEF vars, TypeOK
<1>2. ASSUME NEW s \in Starters, BeginStart(s) \/ StarterStep(s) PROVE JobInv'
  <2>1. CASE BeginStart(s)
    BY <2>1 DEF BeginStart, TypeOK, StarterStates, WorkerStates, LockInv, WorkersNeedStart
  <2>2. ASSUME NEW w \in Workers, Spawn(s, w) PROVE JobInv'
    BY <2>2 DEF Spawn, TypeOK, WorkerStates
  <2>3. CASE EnterWait(s)
    BY <2>3 DEF EnterWait, TypeOK, StarterStates
  <2>4. CASE WaitAndClose(s)
    BY <2>4 DEF WaitAndClose, TypeOK, StarterStates
  <2>5. CASE FinishStart(s)
    BY <2>5 DEF FinishStart, TypeOK, StarterStates
  <2> QED BY <1>2, <2>1, <2>2, <2>3, <2>4, <2>5 DEF StarterStep
<1>3. ASSUME NEW p \in Stoppers, StopCheck(p) \/ StopperStep(p) PROVE JobInv'
  BY <1>3 DEF StopCheck, StopperStep, StopCancel, StopClear, TypeOK, StopperStates
<1>4. CASE ParentCancel
  BY <1>4 DEF ParentCancel, TypeOK
<1>5. ASSUME NEW w \in Workers, SeeDone(w) PROVE JobInv'
  BY <1>5 DEF SeeDone, TypeOK, WorkerStates
<1>6. ASSUME NEW w \in Workers, PollStep(w) PROVE JobInv'
  <2>1. ASSUME NEW t \in Tasks, CheckoutTask(w, t) PROVE JobInv'
    BY <2>1 DEF CheckoutTask, TypeOK, WorkerStates, TaskStates
  <2>2. ASSUME NEW e \in Errors, CheckoutFails(w, e) PROVE JobInv'
    <3>1. e \in Outcomes
      BY DEF Outcomes
    <3> QED BY <2>2, <3>1, AfterWorkType DEF CheckoutFails, TypeOK, EndsCycle, CountsErrors
  <2>3. CASE CheckoutPanics(w)
    BY <2>3, AfterPanicType DEF CheckoutPanics, TypeOK, EndsCycle, CountsErrors
  <2> QED BY <1>6, <2>1, <2>2, <2>3 DEF PollStep
<1>7. ASSUME NEW w \in Workers, WorkStep(w) PROVE JobInv'
  <2>1. CASE ProcessSucceeds(w) \/ TaskPanics(w) \/ BackoffCancelled(w)
    BY <2>1 DEF ProcessSucceeds, TaskPanics, BackoffCancelled, Defer, TypeOK, WorkerStates,
       Outcomes, Errors
  <2>2. ASSUME NEW e \in Errors, ProcessFails(w, e) PROVE JobInv'
    BY <2>2 DEF ProcessFails, Defer, TypeOK, WorkerStates, Outcomes, Errors
  <2>3. CASE BackoffElapsed(w)
    BY <2>3 DEF BackoffElapsed, TypeOK, WorkerStates
  <2>4. CASE PostHookPanics(w)
    <3>1. holds[w] \in Tasks
      BY <2>4 DEF PostHookPanics, TypeOK
    <3>2. TypeOK'
      BY <2>4, <3>1, AfterPanicType DEF EndsCycle, CountsErrors, PostHookPanics, ForgetJob, TypeOK, Outcomes
    <3> QED BY <2>4, <3>2, AfterPanicType DEF EndsCycle, CountsErrors, PostHookPanics, ForgetJob, TypeOK
  <2>5. ASSUME NEW v, Report(w, v) \/ ReportPanics(w, v) PROVE JobInv'
    <3>1. holds[w] \in Tasks /\ returned[w] \in Outcomes
      BY <2>5 DEF Report, ReportPanics, TypeOK
    <3>2. EndsCycle(w) /\ CountsErrors(w)
      BY <2>5, <3>1, AfterWorkType, AfterPanicType DEF Report, ReportPanics
    <3>3. v \in TaskStates /\ Call(w, v)
      BY <2>5 DEF Report, ReportPanics, Verdicts, TaskStates
    <3>4. TypeOK'
      BY <3>1, <3>2, <3>3 DEF EndsCycle, CountsErrors, Call, ForgetJob, TypeOK, Outcomes
    <3> QED BY <3>2, <3>3, <3>4 DEF EndsCycle, Call, ForgetJob, TypeOK
  <2> QED BY <1>7, <2>1, <2>2, <2>3, <2>4, <2>5 DEF WorkStep
<1>8. CASE Terminated
  BY <1>8 DEF Terminated, vars, TypeOK
<1> QED BY <1>1, <1>2, <1>3, <1>4, <1>5, <1>6, <1>7, <1>8 DEF Next

(* Only three facts about a worker's step matter to the lock: the worker   *)
(* was running, it is now running or exited, and Start did not move.       *)
LEMMA WorkerKeepsLock ==
  ASSUME IInv, NEW w \in Workers, pc[w] \notin {"off", "exited"},
         pc' \in [Workers -> WorkerStates], pc'[w] # "off",
         \A v \in Workers : v # w => pc'[v] = pc[v],
         starter' = starter, closed' = closed
  PROVE  LockInv'
<1> USE DEF IInv, LockInv
<1>1. OneHoldsLock'
  BY DEF OneHoldsLock
<1>2. StartLocked /\ StartLocked'
  BY DEF WorkersNeedStart, StartLocked
<1>3. PICK s \in Starters : starter[s] \in Locked
  BY <1>2 DEF StartLocked, Locked
<1>4. WorkersNeedStart'
  BY <1>2, <1>3 DEF WorkersNeedStart, Locked
<1>5. ClosedAfterWait'
  BY DEF ClosedAfterWait, AllExited
<1> QED BY <1>1, <1>4, <1>5

(* What every worker step does to the worker, to Start and to the channel. *)
Effect(w) ==
  /\ pc[w] \notin {"off", "exited"}
  /\ pc' \in [Workers -> WorkerStates]
  /\ pc'[w] # "off"
  /\ \A v \in Workers : v # w => pc'[v] = pc[v]
  /\ UNCHANGED <<starter, stopper, running, closed>>
  /\ sent' = sent \/ (sent' = sent + 1 /\ pc'[w] = "exited")
  /\ crashed' \in {crashed, closed}
  /\ CountsErrors(w)

LEMMA WorkerStepEffect ==
  ASSUME IInv, NEW w \in Workers, SeeDone(w) \/ PollStep(w) \/ WorkStep(w)
  PROVE  Effect(w)
<1> USE DEF IInv, JobInv, At, pool, channel, Effect, EndsCycle
<1>0. UNCHANGED errorCount => CountsErrors(w)
  BY DEF CountsErrors, TypeOK
<1>1. CASE SeeDone(w)
  BY <1>0, <1>1 DEF SeeDone, TypeOK, WorkerStates
<1>2. ASSUME NEW t \in Tasks, CheckoutTask(w, t) PROVE Effect(w)
  BY <1>0, <1>2 DEF CheckoutTask, TypeOK, WorkerStates
<1>3. ASSUME NEW e \in Errors, CheckoutFails(w, e) PROVE Effect(w)
  <2>1. e \in Outcomes
    BY DEF Outcomes
  <2> QED BY <1>3, <2>1, AfterWorkType DEF CheckoutFails
<1>4. CASE CheckoutPanics(w)
  BY <1>4, AfterPanicType DEF CheckoutPanics
<1>5. ASSUME NEW pe \in Outcomes, NEW r \in Outcomes, Defer(w, pe, r),
             pc[w] \in {"process", "backoff"}
      PROVE  Effect(w)
  BY <1>0, <1>5 DEF Defer, TypeOK, WorkerStates
<1>6. CASE ProcessSucceeds(w) \/ TaskPanics(w) \/ BackoffCancelled(w)
  BY <1>5, <1>6 DEF ProcessSucceeds, TaskPanics, BackoffCancelled, Outcomes, Errors
<1>7. ASSUME NEW e \in Errors, ProcessFails(w, e) PROVE Effect(w)
  BY <1>0, <1>5, <1>7 DEF ProcessFails, Outcomes, Errors, TypeOK, WorkerStates
<1>8. CASE BackoffElapsed(w)
  BY <1>0, <1>8 DEF BackoffElapsed, TypeOK, WorkerStates
<1>9. CASE PostHookPanics(w)
  BY <1>9, AfterPanicType DEF PostHookPanics
<1>10. ASSUME NEW v, Report(w, v) \/ ReportPanics(w, v) PROVE Effect(w)
  <2>1. returned[w] \in Outcomes
    BY DEF TypeOK
  <2> QED BY <1>10, <2>1, AfterWorkType, AfterPanicType DEF Report, ReportPanics, Call
<1> QED BY <1>1, <1>2, <1>3, <1>4, <1>6, <1>7, <1>8, <1>9, <1>10 DEF PollStep, WorkStep

LEMMA LockStep == IInv /\ [Next]_vars => LockInv'
<1> SUFFICES ASSUME IInv, [Next]_vars PROVE LockInv'
  OBVIOUS
<1> USE DEF StarterAt, StopperAt, pool, channel
<1>1. ASSUME UNCHANGED <<starter, pc, closed>> PROVE LockInv'
  BY <1>1 DEF IInv, LockInv, OneHoldsLock, WorkersNeedStart, ClosedAfterWait, StartLocked, AllExited
<1>2. ASSUME NEW s \in Starters, BeginStart(s) \/ StarterStep(s) PROVE LockInv'
  <2> USE DEF IInv, JobInv, TypeOK, LockInv, StarterStates, WorkerStates
  <2>1. CASE BeginStart(s)
    BY <2>1 DEF BeginStart, OneHoldsLock, WorkersNeedStart, ClosedAfterWait, StartLocked, Locked
  <2>2. ASSUME NEW w \in Workers, Spawn(s, w) PROVE LockInv'
    BY <2>2 DEF Spawn, OneHoldsLock, WorkersNeedStart, ClosedAfterWait, StartLocked, Locked, AllExited
  <2>3. CASE EnterWait(s)
    BY <2>3 DEF EnterWait, OneHoldsLock, WorkersNeedStart, ClosedAfterWait, StartLocked, Locked, AllExited
  <2>4. CASE WaitAndClose(s)
    BY <2>4 DEF WaitAndClose, OneHoldsLock, WorkersNeedStart, ClosedAfterWait, StartLocked, Locked, AllExited
  <2>5. CASE FinishStart(s)
    BY <2>5 DEF FinishStart, OneHoldsLock, WorkersNeedStart, ClosedAfterWait, StartLocked, Locked, AllExited
  <2> QED BY <1>2, <2>1, <2>2, <2>3, <2>4, <2>5 DEF StarterStep
<1>3. ASSUME NEW p \in Stoppers, StopCheck(p) \/ StopperStep(p) PROVE LockInv'
  BY <1>1, <1>3 DEF StopCheck, StopperStep, StopCancel, StopClear
<1>4. CASE ParentCancel
  BY <1>1, <1>4 DEF ParentCancel
<1>5. ASSUME NEW w \in Workers, SeeDone(w) \/ PollStep(w) \/ WorkStep(w) PROVE LockInv'
  BY <1>5, WorkerStepEffect, WorkerKeepsLock DEF Effect
<1>6. CASE UNCHANGED vars \/ Terminated
  BY <1>1, <1>6 DEF vars, Terminated
<1> QED BY <1>2, <1>3, <1>4, <1>5, <1>6 DEF Next

LEMMA StepIInv == IInv /\ [Next]_vars => IInv'
BY JobStep, LockStep DEF IInv

LEMMA AlwaysIInv == Spec => []IInv
BY InitIInv, StepIInv, PTL DEF Spec

THEOREM TypeCorrect == Spec => []TypeOK
<1>1. IInv => TypeOK
  BY DEF IInv, JobInv
<1> QED BY <1>1, AlwaysIInv, PTL
-----------------------------------------------------------------------------
(* The ledger.                                                             *)

(* The processor lists a task in a worker's hands as checked out, so that  *)
(* no other worker is given it.                                            *)
HeldIsOut == \A w \in Workers : holds[w] # NoTask => task[holds[w]] = "out"

LedgerInv == HeldIsOut /\ LedgerBalanced

(* A worker lets go of its task and exactly one of the two counters of     *)
(* that task grows by one.                                                 *)
LEMMA LetGo ==
  ASSUME IInv, LedgerInv, NEW w \in Workers, holds[w] \in Tasks,
         holds' = [holds EXCEPT ![w] = NoTask],
         delivered' = delivered,
         NEW x, task' = [task EXCEPT ![holds[w]] = x],
         \/ /\ reported' = [reported EXCEPT ![holds[w]] = @ + 1]
            /\ dropped' = dropped
         \/ /\ dropped' = [dropped EXCEPT ![holds[w]] = @ + 1]
            /\ reported' = reported
  PROVE  LedgerInv'
<1> USE DEF IInv, JobInv, TypeOK, LedgerInv
<1>1. \A v \in Workers : v # w => holds[v] # holds[w]
  BY DEF LedgerBalanced, InHand
<1>2. \A v \in Workers : holds'[v] = IF v = w THEN NoTask ELSE holds[v]
  OBVIOUS
<1>3. HeldIsOut'
  BY <1>1, <1>2 DEF HeldIsOut
<1>4. ASSUME NEW t \in Tasks, t # holds[w]
      PROVE  /\ InHand(t)' = InHand(t)
             /\ reported'[t] = reported[t] /\ dropped'[t] = dropped[t]
  BY <1>2, <1>4 DEF InHand
<1>5. InHand(holds[w])  # {} /\ {v \in Workers : holds'[v] = holds[w]} = {}
  BY <1>1, <1>2 DEF InHand
<1>6. reported'[holds[w]] + dropped'[holds[w]] = reported[holds[w]] + dropped[holds[w]] + 1
  OBVIOUS
<1>7. LedgerBalanced'
  <2> SUFFICES ASSUME NEW t \in Tasks
               PROVE  /\ \A u, v \in InHand(t)' : u = v
                      /\ delivered'[t] = reported'[t] + dropped'[t]
                                         + (IF InHand(t)' = {} THEN 0 ELSE 1)
    BY DEF LedgerBalanced
  <2>1. CASE t # holds[w]
    BY <1>4, <2>1 DEF LedgerBalanced
  <2>2. CASE t = holds[w]
    BY <1>5, <1>6, <2>2 DEF LedgerBalanced, InHand
  <2> QED BY <2>1, <2>2
<1> QED BY <1>3, <1>7

LEMMA LedgerStep == IInv /\ LedgerInv /\ [Next]_vars => LedgerInv'
<1> SUFFICES ASSUME IInv, LedgerInv, [Next]_vars PROVE LedgerInv'
  OBVIOUS
<1> USE DEF pool, channel, job, queue, At, Defer
<1>1. ASSUME UNCHANGED <<holds, queue>> PROVE LedgerInv'
  BY <1>1 DEF LedgerInv, HeldIsOut, LedgerBalanced, InHand
<1>2. ASSUME NEW s \in Starters, BeginStart(s) \/ StarterStep(s) PROVE LedgerInv'
  BY <1>1, <1>2 DEF BeginStart, StarterStep, Spawn, EnterWait, WaitAndClose, FinishStart
<1>3. ASSUME NEW p \in Stoppers, StopCheck(p) \/ StopperStep(p) PROVE LedgerInv'
  BY <1>1, <1>3 DEF StopCheck, StopperStep, StopCancel, StopClear
<1>4. CASE ParentCancel \/ UNCHANGED vars \/ Terminated
  BY <1>1, <1>4 DEF ParentCancel, vars, Terminated
<1>5. ASSUME NEW w \in Workers, SeeDone(w) \/ PollStep(w) PROVE LedgerInv'
  <2>1. ASSUME NEW t \in Tasks, CheckoutTask(w, t) PROVE LedgerInv'
    <3> USE <2>1 DEF CheckoutTask, LedgerInv, IInv, JobInv, TypeOK
    <3>1. holds[w] = NoTask
      BY DEF BusyHolds
    <3>2. InHand(t) = {}
      BY NoTaskAssumption DEF HeldIsOut, InHand
    <3>3. \A v \in Workers : holds'[v] = IF v = w THEN t ELSE holds[v]
      OBVIOUS
    <3>4. HeldIsOut'
      BY <3>3 DEF HeldIsOut
    <3>5. {v \in Workers : holds'[v] = t} = {w}
      BY <3>2, <3>3 DEF InHand
    <3>6. ASSUME NEW u \in Tasks, u # t
          PROVE  InHand(u)' = InHand(u) /\ delivered'[u] = delivered[u]
      BY <3>1, <3>3, <3>6 DEF InHand
    <3>7. LedgerBalanced'
      <4> SUFFICES ASSUME NEW u \in Tasks
                   PROVE  /\ \A x, y \in InHand(u)' : x = y
                          /\ delivered'[u] = reported'[u] + dropped'[u]
                                             + (IF InHand(u)' = {} THEN 0 ELSE 1)
        BY DEF LedgerBalanced
      <4>1. CASE u # t
        BY <3>6, <4>1 DEF LedgerBalanced
      <4>2. CASE u = t
        BY <3>2, <3>5, <4>2 DEF LedgerBalanced, InHand
      <4> QED BY <4>1, <4>2
    <3> QED BY <3>4, <3>7
  <2>2. CASE SeeDone(w) \/ CheckoutPanics(w) \/ \E e \in Errors : CheckoutFails(w, e)
    BY <1>1, <2>2 DEF SeeDone, CheckoutPanics, CheckoutFails
  <2> QED BY <1>5, <2>1, <2>2 DEF PollStep
<1>6. ASSUME NEW w \in Workers, WorkStep(w) PROVE LedgerInv'
  <2>1. CASE ProcessSucceeds(w) \/ TaskPanics(w) \/ BackoffCancelled(w) \/ BackoffElapsed(w)
    BY <1>1, <2>1 DEF ProcessSucceeds, TaskPanics, BackoffCancelled, BackoffElapsed
  <2>2. ASSUME NEW e \in Errors, ProcessFails(w, e) PROVE LedgerInv'
    BY <1>1, <2>2 DEF ProcessFails
  <2>3. CASE PostHookPanics(w)
    <3>1. holds[w] \in Tasks
      BY <2>3 DEF PostHookPanics, IInv, JobInv, BusyHolds, TypeOK
    <3>2. task' = [task EXCEPT ![holds[w]] = task[holds[w]]]
      BY <2>3 DEF PostHookPanics, IInv, JobInv, TypeOK
    <3> QED BY <2>3, <3>1, <3>2, LetGo DEF PostHookPanics, ForgetJob
  <2>4. ASSUME NEW v, Report(w, v) \/ ReportPanics(w, v) PROVE LedgerInv'
    <3>1. holds[w] \in Tasks
      BY <2>4 DEF Report, ReportPanics, IInv, JobInv, BusyHolds, TypeOK
    <3> QED BY <2>4, <3>1, LetGo DEF Report, ReportPanics, Call, ForgetJob
  <2> QED BY <1>6, <2>1, <2>2, <2>3, <2>4 DEF WorkStep
<1> QED BY <1>2, <1>3, <1>4, <1>5, <1>6 DEF Next

LEMMA AlwaysLedgerInv == Spec => []LedgerInv
<1>1. Init => LedgerInv
  BY DEF Init, LedgerInv, HeldIsOut, LedgerBalanced, InHand
<1> QED BY <1>1, LedgerStep, AlwaysIInv, PTL DEF Spec

(* Every hand-out of a task is in progress in one worker's hands, was      *)
(* reported once, or was dropped once.                                     *)
THEOREM LedgerAlwaysBalanced == Spec => []LedgerBalanced
<1>1. LedgerInv => LedgerBalanced
  BY DEF LedgerInv
<1> QED BY <1>1, AlwaysLedgerInv, PTL
-----------------------------------------------------------------------------
(* The error channel and the end of the process.                           *)
Exited == {w \in Workers : pc[w] = "exited"}

(* Each worker sends once at most, and exits when it does.                 *)
SentByExited == ~ closed => sent <= Cardinality(Exited)

ChannelInv == SentByExited /\ OneStartNeverCrashes

LEMMA ExitedFinite == IsFiniteSet(Exited) /\ Cardinality(Exited) \in Nat
BY WorkersAssumption, FS_Subset, FS_CardinalityType DEF Exited

(* A second Start call never becomes undone.                               *)
LEMMA OneStartStable ==
  ASSUME IInv, [Next]_vars, OneStart'
  PROVE  OneStart
<1> SUFFICES ASSUME NEW s \in Starters, starter[s] # "idle" PROVE starter'[s] # "idle"
  BY DEF OneStart
<1> USE DEF StarterAt, pool, channel, IInv, JobInv, TypeOK
<1>1. ASSUME NEW r \in Starters, BeginStart(r) \/ StarterStep(r) PROVE starter'[s] # "idle"
  BY <1>1 DEF BeginStart, StarterStep, Spawn, EnterWait, WaitAndClose, FinishStart
<1>2. ASSUME NEW p \in Stoppers, StopCheck(p) \/ StopperStep(p) PROVE starter'[s] # "idle"
  BY <1>2 DEF StopCheck, StopperStep, StopCancel, StopClear
<1>3. ASSUME NEW w \in Workers, SeeDone(w) \/ PollStep(w) \/ WorkStep(w)
      PROVE  starter'[s] # "idle"
  BY <1>3, WorkerStepEffect DEF Effect
<1>4. CASE ParentCancel \/ UNCHANGED vars \/ Terminated
  BY <1>4 DEF ParentCancel, vars, Terminated
<1> QED BY <1>1, <1>2, <1>3, <1>4 DEF Next

(* While Start has been called once, an open channel is what every running *)
(* worker sees.                                                            *)
LEMMA RunningSeesOpen ==
  ASSUME IInv, OneStart, NEW w \in Workers, pc[w] \notin {"off", "exited"}
  PROVE  ~ closed
<1> SUFFICES ASSUME closed PROVE FALSE
  OBVIOUS
<1> USE DEF IInv, LockInv
<1>1. PICK s \in Starters : starter[s] \in Locked
  BY DEF WorkersNeedStart, StartLocked, Locked
<1>2. PICK r \in Starters : starter[r] \in {"finishing", "returned"}
  BY DEF ClosedAfterWait
<1>3. r = s
  BY <1>1, <1>2 DEF OneStart, Locked
<1>4. AllExited
  BY <1>1, <1>2, <1>3 DEF ClosedAfterWait, Locked
<1> QED BY <1>4 DEF AllExited

LEMMA ChannelStep == IInv /\ ChannelInv /\ [Next]_vars => ChannelInv'
<1> SUFFICES ASSUME IInv, ChannelInv, [Next]_vars PROVE ChannelInv'
  OBVIOUS
<1> USE DEF StarterAt, pool, channel
<1>0. ASSUME UNCHANGED <<closed, sent, crashed, pc>> PROVE ChannelInv'
  BY <1>0, OneStartStable DEF ChannelInv, SentByExited, OneStartNeverCrashes, Exited
<1>1. ASSUME NEW s \in Starters, BeginStart(s) \/ StarterStep(s) PROVE ChannelInv'
  <2>1. CASE BeginStart(s)
    <3>1. ~ closed => \A r \in Starters : starter[r] = "idle"
      BY <2>1 DEF BeginStart, IInv, LockInv, ClosedAfterWait, StartLocked, JobInv, TypeOK,
         StarterStates
    <3>2. ~ closed => Exited = {} /\ Exited' = {}
      BY <2>1, <3>1 DEF BeginStart, IInv, LockInv, WorkersNeedStart, Exited
    <3>3. SentByExited'
      BY <2>1, <3>2 DEF BeginStart, ChannelInv, SentByExited
    <3> QED BY <2>1, <3>3, OneStartStable DEF BeginStart, ChannelInv, OneStartNeverCrashes
  <2>2. ASSUME NEW w \in Workers, Spawn(s, w) PROVE ChannelInv'
    <3>1. Exited' = Exited
      BY <2>2 DEF Spawn, Exited, IInv, JobInv, TypeOK
    <3> QED BY <2>2, <3>1, OneStartStable DEF Spawn, ChannelInv, SentByExited, OneStartNeverCrashes
  <2>3. CASE EnterWait(s) \/ FinishStart(s)
    BY <1>0, <2>3 DEF EnterWait, FinishStart
  <2>4. CASE WaitAndClose(s)
    <3>1. ASSUME closed PROVE ~ OneStart
      <4>1. PICK r \in Starters : starter[r] \in {"finishing", "returned"}
        BY <3>1 DEF IInv, LockInv, ClosedAfterWait
      <4> QED BY <2>4, <4>1 DEF WaitAndClose, OneStart
    <3> QED BY <2>4, <3>1, OneStartStable DEF WaitAndClose, ChannelInv, SentByExited, OneStartNeverCrashes
  <2> QED BY <1>1, <2>1, <2>2, <2>3, <2>4 DEF StarterStep
<1>2. ASSUME NEW p \in Stoppers, StopCheck(p) \/ StopperStep(p) PROVE ChannelInv'
  BY <1>0, <1>2 DEF StopCheck, StopperStep, StopCancel, StopClear
<1>3. ASSUME NEW w \in Workers, SeeDone(w) \/ PollStep(w) \/ WorkStep(w) PROVE ChannelInv'
  <2>1. Effect(w)
    BY <1>3, WorkerStepEffect
  <2>2. OneStartNeverCrashes'
    BY <2>1, OneStartStable, RunningSeesOpen DEF Effect, ChannelInv, OneStartNeverCrashes
  <2>3. CASE pc'[w] = "exited"
    <3>1. Exited' = Exited \union {w} /\ w \notin Exited
      BY <2>1, <2>3 DEF Effect, Exited
    <3>2. Cardinality(Exited') = Cardinality(Exited) + 1
      BY <3>1, ExitedFinite, FS_AddElement
    <3> QED BY <2>1, <2>2, <3>2, ExitedFinite
            DEF Effect, ChannelInv, SentByExited, IInv, JobInv, TypeOK
  <2>4. CASE pc'[w] # "exited"
    <3>1. Exited' = Exited
      BY <2>1, <2>4 DEF Effect, Exited
    <3> QED BY <2>1, <2>2, <2>4, <3>1 DEF Effect, ChannelInv, SentByExited
  <2> QED BY <2>3, <2>4
<1>4. CASE ParentCancel \/ UNCHANGED vars \/ Terminated
  BY <1>0, <1>4 DEF ParentCancel, vars, Terminated
<1> QED BY <1>1, <1>2, <1>3, <1>4 DEF Next

LEMMA AlwaysChannelInv == Spec => []ChannelInv
<1>1. Init => ChannelInv
  <2>1. ASSUME Init PROVE Exited = {} /\ sent = 0 /\ ~ crashed
    BY <2>1 DEF Init, Exited
  <2> QED BY <2>1, FS_EmptySet DEF ChannelInv, SentByExited, OneStartNeverCrashes
<1> QED BY <1>1, ChannelStep, AlwaysIInv, PTL DEF Spec

(* With one Start call, nothing the pool's goroutines do ends the process. *)
THEOREM OneStartIsSafe == Spec => []OneStartNeverCrashes
<1>1. ChannelInv => OneStartNeverCrashes
  BY DEF ChannelInv
<1> QED BY <1>1, AlwaysChannelInv, PTL

(* No shutdown request of a worker is ever given up for lack of room.      *)
THEOREM ChannelAlwaysHasRoom == Spec => []ErrorChannelHasRoom
<1>1. IInv /\ ChannelInv => ErrorChannelHasRoom
  <2> SUFFICES ASSUME IInv, ChannelInv, ~ closed, NEW w \in Workers, pc[w] # "exited"
               PROVE  sent < Capacity
    BY DEF ErrorChannelHasRoom
  <2>1. Exited \subseteq Workers \ {w}
    BY DEF Exited
  <2>2. /\ IsFiniteSet(Workers \ {w})
        /\ Cardinality(Workers \ {w}) = Cardinality(Workers) - 1
        /\ Cardinality(Workers) \in Nat
    BY WorkersAssumption, FS_RemoveElement, FS_CardinalityType
  <2>3. Cardinality(Exited) <= Cardinality(Workers) - 1
    BY <2>1, <2>2, FS_Subset
  <2>4. sent \in Nat /\ sent <= Cardinality(Exited)
    BY DEF ChannelInv, SentByExited, IInv, JobInv, TypeOK
  <2> QED BY <2>2, <2>3, <2>4, ExitedFinite DEF Capacity
<1> QED BY <1>1, AlwaysIInv, AlwaysChannelInv, PTL
-----------------------------------------------------------------------------
(* Stop.                                                                   *)
Passed == {"cancelling", "clearing", "stopped"}
Serving == {"waiting", "finishing", "returned"}

(* Among Stop calls stopMutex excludes; against Start only the order of    *)
(* its writes to running helps: it writes TRUE once, before anyone passes. *)
StopInv ==
  /\ \A p, q \in Stoppers :
       stopper[p] \in {"cancelling", "clearing"} /\ stopper[q] \in {"cancelling", "clearing"}
       => p = q
  /\ (running \/ \E p \in Stoppers : stopper[p] \in Passed)
       => \E s \in Starters : starter[s] \in Serving
  /\ OneStart => \A p \in Stoppers : stopper[p] = "stopped" => ~ running
  /\ OneStopCancels

LEMMA StopStep == IInv /\ StopInv /\ [Next]_vars => StopInv'
<1> SUFFICES ASSUME IInv, StopInv, [Next]_vars PROVE StopInv'
  OBVIOUS
<1> USE DEF StarterAt, StopperAt, pool
<1>0. ASSUME UNCHANGED <<starter, stopper, running>> PROVE StopInv'
  BY <1>0 DEF StopInv, OneStart, OneStopCancels
<1>1. ASSUME NEW s \in Starters, BeginStart(s) \/ StarterStep(s) PROVE StopInv'
  <2> USE DEF IInv, JobInv, TypeOK, StarterStates
  <2>1. CASE BeginStart(s)
    <3>1. \A r \in Starters : starter[r] \in Serving => starter'[r] \in Serving
      BY <2>1 DEF BeginStart, Serving
    <3> QED BY <2>1, <3>1, OneStartStable DEF BeginStart, StopInv, OneStopCancels
  <2>2. ASSUME NEW w \in Workers, Spawn(s, w) PROVE StopInv'
    BY <1>0, <2>2 DEF Spawn
  <2>3. CASE EnterWait(s)
    <3>1. \A r \in Starters : starter[r] \in Serving => starter'[r] \in Serving
      BY <2>3 DEF EnterWait, Serving
    <3>2. starter'[s] \in Serving
      BY <2>3 DEF EnterWait, Serving
    <3>3. OneStart => \A p \in Stoppers : stopper[p] \notin Passed
      BY <2>3 DEF EnterWait, StopInv, OneStart, Serving
    <3> QED BY <2>3, <3>1, <3>2, <3>3, OneStartStable
            DEF EnterWait, StopInv, OneStopCancels, Passed
  <2>4. CASE WaitAndClose(s) \/ FinishStart(s)
    <3>1. \A r \in Starters : starter[r] \in Serving => starter'[r] \in Serving
      BY <2>4 DEF WaitAndClose, FinishStart, Serving
    <3> QED BY <2>4, <3>1, OneStartStable DEF WaitAndClose, FinishStart, StopInv, OneStopCancels
  <2> QED BY <1>1, <2>1, <2>2, <2>3, <2>4 DEF StarterStep
<1>2. ASSUME NEW p \in Stoppers, StopCheck(p) \/ StopperStep(p) PROVE StopInv'
  <2> USE DEF IInv, JobInv, TypeOK, StopperStates, Passed
  <2>0. starter' = starter /\ OneStart' = OneStart
    BY <1>2 DEF StopCheck, StopperStep, StopCancel, StopClear, OneStart
  <2>1. CASE StopCheck(p)
    <3>1. \A q \in Stoppers : q # p => stopper'[q] = stopper[q]
      BY <2>1 DEF StopCheck
    <3>2. CASE running
      <4>1. stopper'[p] = "cancelling" /\ running' = running
        BY <2>1, <3>2 DEF StopCheck
      <4>2. OneStart => \A q \in Stoppers : stopper[q] \notin Passed
        BY <2>1, <3>2 DEF StopCheck, StopLocked, StopInv
      <4> QED BY <2>0, <2>1, <3>1, <3>2, <4>1, <4>2
              DEF StopCheck, StopLocked, StopInv, OneStopCancels
    <3>3. CASE ~ running
      <4>1. stopper'[p] = "ignored" /\ running' = running
        BY <2>1, <3>3 DEF StopCheck
      <4> QED BY <2>0, <3>1, <4>1 DEF StopInv, OneStopCancels
    <3> QED BY <3>2, <3>3
  <2>2. CASE StopCancel(p)
    BY <2>0, <2>2 DEF StopCancel, StopInv, OneStopCancels
  <2>3. CASE StopClear(p)
    BY <2>0, <2>3 DEF StopClear, StopInv, OneStopCancels
  <2> QED BY <1>2, <2>1, <2>2, <2>3 DEF StopperStep
<1>3. ASSUME NEW w \in Workers, SeeDone(w) \/ PollStep(w) \/ WorkStep(w) PROVE StopInv'
  BY <1>0, <1>3, WorkerStepEffect DEF Effect
<1>4. CASE ParentCancel \/ UNCHANGED vars \/ Terminated
  BY <1>0, <1>4 DEF ParentCancel, vars, Terminated
<1> QED BY <1>1, <1>2, <1>3, <1>4 DEF Next

(* Of any number of Stop calls during one Start, one cancels.              *)
THEOREM StopCancelsOnce == Spec => []OneStopCancels
<1>1. Init => StopInv
  BY DEF Init, StopInv, OneStopCancels, Passed
<1>2. StopInv => OneStopCancels
  BY DEF StopInv
<1> QED BY <1>1, <1>2, StopStep, AlwaysIInv, PTL DEF Spec
-----------------------------------------------------------------------------
(* ConsecutiveErrorShutdown.                                               *)
LEMMA LimitStep == IInv /\ LimitStopsWorker /\ [Next]_vars => LimitStopsWorker'
<1> SUFFICES ASSUME IInv, LimitStopsWorker, [Next]_vars, Limited, OneStart',
                    NEW w \in Workers, pc'[w] # "exited"
             PROVE  errorCount'[w] <= ErrorLimit
  BY DEF LimitStopsWorker
<1> USE DEF StarterAt, pool, IInv, JobInv, TypeOK
<1>0. OneStart
  BY OneStartStable
<1>1. ASSUME UNCHANGED <<pc, errorCount>> PROVE errorCount'[w] <= ErrorLimit
  BY <1>0, <1>1 DEF LimitStopsWorker
<1>2. ASSUME NEW s \in Starters, BeginStart(s) \/ StarterStep(s)
      PROVE  errorCount'[w] <= ErrorLimit
  <2>1. CASE BeginStart(s)
    <3>1. \A r \in Starters : r # s => starter'[r] = starter[r]
      BY <2>1 DEF BeginStart
    <3>2. starter'[s] # "idle"
      BY <2>1 DEF BeginStart
    <3>3. \A r \in Starters : starter[r] = "idle"
      BY <2>1, <3>1, <3>2 DEF BeginStart, OneStart
    <3>4. pc[w] = "off"
      BY <3>3 DEF LockInv, WorkersNeedStart
    <3> QED BY <1>0, <2>1, <3>4 DEF BeginStart, LimitStopsWorker
  <2>2. ASSUME NEW v \in Workers, Spawn(s, v) PROVE errorCount'[w] <= ErrorLimit
    BY <1>0, <2>2 DEF Spawn, LimitStopsWorker
  <2>3. CASE EnterWait(s) \/ WaitAndClose(s) \/ FinishStart(s)
    BY <1>1, <2>3 DEF EnterWait, WaitAndClose, FinishStart
  <2> QED BY <1>2, <2>1, <2>2, <2>3 DEF StarterStep
<1>3. ASSUME NEW p \in Stoppers, StopCheck(p) \/ StopperStep(p)
      PROVE  errorCount'[w] <= ErrorLimit
  BY <1>1, <1>3 DEF StopCheck, StopperStep, StopCancel, StopClear
<1>4. ASSUME NEW v \in Workers, SeeDone(v) \/ PollStep(v) \/ WorkStep(v)
      PROVE  errorCount'[w] <= ErrorLimit
  <2>1. Effect(v)
    BY <1>4, WorkerStepEffect
  <2>2. CASE v = w
    BY <1>0, <2>1, <2>2 DEF Effect, CountsErrors, LimitStopsWorker
  <2>3. CASE v # w
    BY <1>0, <2>1, <2>3 DEF Effect, CountsErrors, LimitStopsWorker
  <2> QED BY <2>2, <2>3
<1>5. CASE ParentCancel \/ UNCHANGED vars \/ Terminated
  BY <1>1, <1>5 DEF ParentCancel, vars, Terminated
<1> QED BY <1>2, <1>3, <1>4, <1>5 DEF Next

(* No worker outlives its limit of consecutive errors.                     *)
THEOREM LimitIsKept == Spec => []LimitStopsWorker
<1>1. Init => LimitStopsWorker
  BY DEF Init, LimitStopsWorker
<1> QED BY <1>1, LimitStep, AlwaysIInv, PTL DEF Spec
-----------------------------------------------------------------------------
(* The pool implements the safety part of TaskLedger.                      *)
Ready == {t \in Tasks : task[t] = "ready"}
LedgerStutters == UNCHANGED <<StartLocked, Ready, holds, reported, dropped>>

(* A worker that lets go of its task answers for it or loses it.           *)
LEMMA ReportAnswers ==
  ASSUME IInv, LedgerInv, NEW w \in Workers, pc[w] = "deferred",
         NEW v \in TaskStates, Call(w, v)
  PROVE  Ledger!Answer(w)
<1> USE DEF IInv, JobInv, TypeOK, Call, ForgetJob, pool
<1>1. holds[w] \in Tasks /\ holds[w] # NoTask
  BY DEF BusyHolds
<1>2. task[holds[w]] = "out"
  BY <1>1 DEF LedgerInv, HeldIsOut
<1>3. v = "ready" => Ready' = Ready \union {holds[w]}
  BY <1>1 DEF Ready
<1>4. v # "ready" => Ready' = Ready
  BY <1>1, <1>2 DEF Ready
<1>5. StartLocked' = StartLocked
  BY DEF StartLocked
<1> QED BY <1>1, <1>3, <1>4, <1>5 DEF Ledger!Answer, Ready

LEMMA LedgerRefinedStep ==
  IInv /\ LedgerInv /\ [Next]_vars => [Ledger!Next]_(Ledger!vars)
<1> SUFFICES ASSUME IInv, LedgerInv, [Next]_vars PROVE Ledger!Next \/ UNCHANGED Ledger!vars
  OBVIOUS
<1> USE DEF StarterAt, StopperAt, At, Defer, pool, channel, job, queue, IInv, JobInv, TypeOK,
      StarterStates
<1>0. ASSUME LedgerStutters PROVE UNCHANGED Ledger!vars
  BY <1>0 DEF LedgerStutters, Ready, Ledger!vars
<1>1. ASSUME NEW s \in Starters, BeginStart(s) \/ StarterStep(s)
      PROVE  Ledger!Next \/ UNCHANGED Ledger!vars
  <2>1. CASE BeginStart(s)
    <3>1. ~ StartLocked /\ StartLocked'
      BY <2>1 DEF BeginStart, StartLocked
    <3> QED BY <2>1, <3>1 DEF BeginStart, Ledger!Next, Ledger!Open
  <2>2. ASSUME NEW w \in Workers, Spawn(s, w) PROVE LedgerStutters
    BY <2>2 DEF Spawn, LedgerStutters, StartLocked, Ready
  <2>3. CASE EnterWait(s) \/ WaitAndClose(s)
    <3>1. StartLocked /\ StartLocked'
      BY <2>3 DEF EnterWait, WaitAndClose, StartLocked
    <3> QED BY <1>0, <2>3, <3>1 DEF EnterWait, WaitAndClose, LedgerStutters, Ready
  <2>4. CASE FinishStart(s)
    <3>1. StartLocked
      BY <2>4 DEF FinishStart, StartLocked
    <3>2. ~ StartLocked'
      BY <2>4 DEF FinishStart, StartLocked, LockInv, OneHoldsLock, Locked
    <3>3. \A w \in Workers : holds[w] = NoTask
      BY <2>4 DEF FinishStart, LockInv, ClosedAfterWait, AllExited, BusyHolds
    <3> QED BY <2>4, <3>1, <3>2, <3>3 DEF FinishStart, Ledger!Next, Ledger!Close
  <2> QED BY <1>0, <1>1, <2>1, <2>2, <2>3, <2>4 DEF StarterStep
<1>2. ASSUME NEW p \in Stoppers, StopCheck(p) \/ StopperStep(p) PROVE LedgerStutters
  BY <1>2 DEF StopCheck, StopperStep, StopCancel, StopClear, LedgerStutters, StartLocked, Ready
<1>3. ASSUME ParentCancel \/ UNCHANGED vars \/ Terminated PROVE LedgerStutters
  <2>1. UNCHANGED <<starter, holds, queue>>
    BY <1>3 DEF ParentCancel, vars, Terminated
  <2> QED BY <2>1 DEF LedgerStutters, StartLocked, Ready
<1>4. ASSUME NEW w \in Workers, SeeDone(w) \/ PollStep(w)
      PROVE  Ledger!Next \/ UNCHANGED Ledger!vars
  <2>1. ASSUME NEW t \in Tasks, CheckoutTask(w, t) PROVE Ledger!Claim(w, t)
    <3>1. StartLocked /\ StartLocked'
      BY <2>1 DEF CheckoutTask, LockInv, WorkersNeedStart, StartLocked
    <3>2. holds[w] = NoTask
      BY <2>1 DEF CheckoutTask, BusyHolds
    <3>3. t \in Ready /\ Ready' = Ready \ {t}
      BY <2>1 DEF CheckoutTask, Ready
    <3> QED BY <2>1, <3>1, <3>2, <3>3 DEF CheckoutTask, Ledger!Claim, Ready
  <2>2. CASE SeeDone(w) \/ CheckoutPanics(w) \/ \E e \in Errors : CheckoutFails(w, e)
    <3>1. LedgerStutters
      BY <2>2 DEF SeeDone, CheckoutPanics, CheckoutFails, LedgerStutters, StartLocked, Ready
    <3> QED BY <1>0, <3>1
  <2> QED BY <1>4, <2>1, <2>2 DEF PollStep, Ledger!Next
<1>5. ASSUME NEW w \in Workers, WorkStep(w) PROVE Ledger!Next \/ UNCHANGED Ledger!vars
  <2>1. CASE ProcessSucceeds(w) \/ TaskPanics(w) \/ BackoffCancelled(w) \/ BackoffElapsed(w)
    <3>1. LedgerStutters
      BY <2>1 DEF ProcessSucceeds, TaskPanics, BackoffCancelled, BackoffElapsed, LedgerStutters,
         StartLocked, Ready
    <3> QED BY <1>0, <3>1
  <2>2. ASSUME NEW e \in Errors, ProcessFails(w, e) PROVE LedgerStutters
    BY <2>2 DEF ProcessFails, LedgerStutters, StartLocked, Ready
  <2>3. CASE PostHookPanics(w)
    <3>1. holds[w] # NoTask
      BY <2>3 DEF PostHookPanics, BusyHolds
    <3>2. StartLocked' = StartLocked /\ Ready' = Ready
      BY <2>3 DEF PostHookPanics, StartLocked, Ready
    <3> QED BY <2>3, <3>1, <3>2
            DEF PostHookPanics, ForgetJob, Ledger!Next, Ledger!Lose, Ready
  <2>4. ASSUME NEW v, Report(w, v) \/ ReportPanics(w, v) PROVE Ledger!Answer(w)
    <3>1. pc[w] = "deferred" /\ v \in TaskStates /\ Call(w, v)
      BY <2>4 DEF Report, ReportPanics, Verdicts, TaskStates
    <3> QED BY <3>1, ReportAnswers
  <2> QED BY <1>0, <1>5, <2>1, <2>2, <2>3, <2>4 DEF WorkStep, Ledger!Next
<1> QED BY <1>0, <1>1, <1>2, <1>3, <1>4, <1>5 DEF Next

(* Every step of the pool is a step of TaskLedger or leaves it alone.      *)
THEOREM PoolKeepsLedger == Spec => KeepsLedger
<1>1. Init => Ledger!Init
  BY DEF Init, Ledger!Init, StartLocked
<1> QED BY <1>1, LedgerRefinedStep, AlwaysIInv, AlwaysLedgerInv, PTL
        DEF Spec, KeepsLedger, Ledger!Spec
=============================================================================
