----------------------------- MODULE TaskLedger -----------------------------
(***************************************************************************)
(* What a worker pool promises about the tasks it is given, with no word   *)
(* about goroutines, contexts, retries or panics.  A task leaves the queue *)
(* into the hands of one worker; that worker answers for it exactly once,  *)
(* or loses it, exactly once; nothing is claimed while the pool is closed, *)
(* and the pool closes only with empty hands.                              *)
(*                                                                         *)
(* WorkerPool.tla implements this specification (see Ledger there).        *)
(***************************************************************************)
EXTENDS Naturals

CONSTANTS
  Workers,      \* the workers of the pool
  Tasks,        \* the tasks of the processor's queue
  NoTask        \* what a worker holds between two tasks

VARIABLES
  open,         \* is a Start call in progress?
  queue,        \* the tasks that may be claimed
  held,         \* the task in each worker's hands
  answered,     \* how often each task was answered for (Complete or Fail)
  lost          \* how often each task was dropped without an answer

vars == <<open, queue, held, answered, lost>>

Count == [Tasks -> Nat]

TypeOK ==
  /\ open \in BOOLEAN
  /\ queue \subseteq Tasks
  /\ held \in [Workers -> Tasks \union {NoTask}]
  /\ answered \in Count
  /\ lost \in Count

Init ==
  /\ open = FALSE
  /\ queue = Tasks
  /\ held = [w \in Workers |-> NoTask]
  /\ answered = [t \in Tasks |-> 0]
  /\ lost = [t \in Tasks |-> 0]

Open ==
  /\ ~ open
  /\ open' = TRUE
  /\ UNCHANGED <<queue, held, answered, lost>>

Claim(w, t) ==
  /\ open
  /\ held[w] = NoTask
  /\ t \in queue
  /\ queue' = queue \ {t}
  /\ held' = [held EXCEPT ![w] = t]
  /\ UNCHANGED <<open, answered, lost>>

\* The answer either retires the task or hands it back to the queue.
Answer(w) ==
  /\ held[w] # NoTask
  /\ held' = [held EXCEPT ![w] = NoTask]
  /\ answered' = [answered EXCEPT ![held[w]] = @ + 1]
  /\ queue' \in {queue, queue \union {held[w]}}
  /\ UNCHANGED <<open, lost>>

Lose(w) ==
  /\ held[w] # NoTask
  /\ held' = [held EXCEPT ![w] = NoTask]
  /\ lost' = [lost EXCEPT ![held[w]] = @ + 1]
  /\ UNCHANGED <<open, queue, answered>>

Close ==
  /\ open
  /\ \A w \in Workers : held[w] = NoTask
  /\ open' = FALSE
  /\ UNCHANGED <<queue, held, answered, lost>>

Next ==
  \/ Open
  \/ Close
  \/ \E w \in Workers : (\E t \in Tasks : Claim(w, t)) \/ Answer(w) \/ Lose(w)

Spec == Init /\ [][Next]_vars

\* A claimed task does not stay in a worker's hands for ever.
FairSpec == Spec /\ \A w \in Workers : WF_vars(Answer(w) \/ Lose(w))
=============================================================================
