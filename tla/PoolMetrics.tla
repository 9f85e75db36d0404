---------------------------- MODULE PoolMetrics -----------------------------
(***************************************************************************)
(* InMemoryMetrics of infrastructure/workers under concurrency: what each  *)
(* worker of one Start records, one atomic operation at a time, and what   *)
(* GetSnapshot, one load at a time, makes of it; with the snapshot that    *)
(* LoggerMetrics.Stop takes once the workers are gone.                     *)
(*                                                                         *)
(* The order of the recording calls is that of WorkerPool's worker and     *)
(* work.  The counters no reading relates to another (panics, checkout     *)
(* errors, retries) and the wall-clock rates are left out.                 *)
(***************************************************************************)
EXTENDS Integers, FiniteSets

CONSTANTS
  Workers,      \* the worker goroutines
  Durations,    \* BOUND: how long a task may take
  Unset,        \* the initial minDuration, 1<<63 - 1: above every duration
  MaxTasks      \* BOUND: how many tasks are checked out in all

ASSUME WorkersAssumption == IsFiniteSet(Workers)
ASSUME DurationsAssumption == Unset \in Nat /\ Durations \subseteq 0 .. (Unset - 1)
ASSUME MaxTasksAssumption == MaxTasks \in Nat

VARIABLES
  started, stopped,               \* workersStarted, workersStopped
  checkedOut, completed, failed,  \* tasksCheckedOut, tasksCompleted, tasksFailed
  total,                          \* totalDurationNs
  minimum, maximum,               \* minDuration, maxDuration, under mu
  pc,                             \* where each worker is
  took,                           \* the duration each worker is recording
  leaked,                         \* history: tasks given up by a panicking hook
  step,                           \* how many loads GetSnapshot has made
  trigger,                        \* who called it: "live" or "shutdown"
  snap                            \* what it has loaded

counters == <<started, stopped, checkedOut, completed, failed, total, minimum, maximum, leaked>>
reader == <<step, trigger, snap>>
vars == <<counters, pc, took, reader>>

Fields == {"started", "stopped", "completed", "failed", "checkedOut", "min", "max", "total"}
NothingLoaded == [f \in Fields |-> 0]
Loads == 7      \* the loads of one snapshot; min and max are one

Init ==
  /\ started = 0 /\ stopped = 0
  /\ checkedOut = 0 /\ completed = 0 /\ failed = 0
  /\ total = 0 /\ minimum = Unset /\ maximum = 0
  /\ leaked = 0
  /\ pc = [w \in Workers |-> "new"]
  /\ took = [w \in Workers |-> 0]
  /\ step = 0
  /\ trigger = "live"
  /\ snap = NothingLoaded
-----------------------------------------------------------------------------
(* The workers.                                                            *)

Move(w, from, to) ==
  /\ pc[w] = from
  /\ pc' = [pc EXCEPT ![w] = to]

RecordWorkerStarted(w) ==
  /\ Move(w, "new", "idle")
  /\ started' = started + 1
  /\ UNCHANGED <<stopped, checkedOut, completed, failed, total, minimum, maximum, leaked, took, reader>>

RecordWorkerStopped(w) ==
  /\ Move(w, "idle", "gone")
  /\ stopped' = stopped + 1
  /\ UNCHANGED <<started, checkedOut, completed, failed, total, minimum, maximum, leaked, took, reader>>

RecordTaskCheckedOut(w) ==
  /\ checkedOut < MaxTasks
  /\ Move(w, "idle", "working")
  /\ checkedOut' = checkedOut + 1
  /\ UNCHANGED <<started, stopped, completed, failed, total, minimum, maximum, leaked, took, reader>>

\* A post-process hook panics before either of the next two.
GiveUpTask(w) ==
  /\ Move(w, "working", "idle")
  /\ leaked' = leaked + 1
  /\ UNCHANGED <<started, stopped, checkedOut, completed, failed, total, minimum, maximum, took, reader>>

\* The first operation of RecordTaskCompleted and of RecordTaskFailed.
CountTask(w, d) ==
  /\ Move(w, "working", "counted")
  /\ took' = [took EXCEPT ![w] = d]
  /\ \/ completed' = completed + 1 /\ UNCHANGED failed
     \/ failed' = failed + 1 /\ UNCHANGED completed
  /\ UNCHANGED <<started, stopped, checkedOut, total, minimum, maximum, leaked, reader>>

\* The duration measured with time.Until instead of time.Since.
AddNegatedDuration(w) ==
  /\ Move(w, "counted", "added")
  /\ total' = total - took[w]
  /\ UNCHANGED <<started, stopped, checkedOut, completed, failed, minimum, maximum, leaked, took, reader>>

AddDuration(w) ==
  /\ Move(w, "counted", "added")
  /\ total' = total + took[w]
  /\ UNCHANGED <<started, stopped, checkedOut, completed, failed, minimum, maximum, leaked, took, reader>>

SmallerOf(a, b) == IF a < b THEN a ELSE b
LargerOf(a, b) == IF a > b THEN a ELSE b

\* An else-if: the first duration sets the minimum alone.
ExtremesElseIf(w) ==
  /\ Move(w, "added", "idle")
  /\ minimum' = SmallerOf(took[w], minimum)
  /\ maximum' = IF took[w] < minimum THEN maximum ELSE LargerOf(took[w], maximum)
  /\ took' = [took EXCEPT ![w] = 0]
  /\ UNCHANGED <<started, stopped, checkedOut, completed, failed, total, leaked, reader>>

\* One critical section of mu.
UpdateExtremes(w) ==
  /\ Move(w, "added", "idle")
  /\ minimum' = SmallerOf(took[w], minimum)
  /\ maximum' = LargerOf(took[w], maximum)
  /\ took' = [took EXCEPT ![w] = 0]
  /\ UNCHANGED <<started, stopped, checkedOut, completed, failed, total, leaked, reader>>
-----------------------------------------------------------------------------
(* GetSnapshot.                                                            *)

\* The n-th load, of v into field f.
Load(n, f, v) ==
  /\ step = n
  /\ step' = n + 1
  /\ snap' = [snap EXCEPT ![f] = v]
  /\ UNCHANGED <<counters, pc, took, trigger>>

\* The critical section of mu.RLock.
LoadExtremes ==
  /\ step = 5
  /\ step' = 6
  /\ snap' = [snap EXCEPT !["min"] = minimum, !["max"] = maximum]
  /\ UNCHANGED <<counters, pc, took, trigger>>

CheckedOutLoadedFirst ==
  \/ Load(0, "started", started)
  \/ Load(1, "stopped", stopped)
  \/ Load(2, "checkedOut", checkedOut)
  \/ Load(3, "completed", completed)
  \/ Load(4, "failed", failed)
  \/ LoadExtremes
  \/ Load(6, "total", total)

\* The last load happens only when a task was settled; it is modelled in
\* every snapshot, because without a settled task no field depends on it.
GetSnapshot ==
  \/ Load(0, "started", started)
  \/ Load(1, "stopped", stopped)
  \/ Load(2, "completed", completed)
  \/ Load(3, "failed", failed)
  \/ Load(4, "checkedOut", checkedOut)
  \/ LoadExtremes
  \/ Load(6, "total", total)

AllGone == \A w \in Workers : pc[w] = "gone"

\* metrics.Stop while workers may still be running.
NextSnapshotUnguarded(by) ==
  /\ step = Loads
  /\ step' = 0
  /\ snap' = NothingLoaded
  /\ trigger' = by
  /\ UNCHANGED <<counters, pc, took>>

\* Another snapshot: by a logger or a caller at any time, or by
\* LoggerMetrics.Stop, which Start calls after workers.Wait.
NextSnapshot(by) ==
  /\ by = "shutdown" => AllGone
  /\ step = Loads
  /\ step' = 0
  /\ snap' = NothingLoaded
  /\ trigger' = by
  /\ UNCHANGED <<counters, pc, took>>

WorkerStep(w) ==
  \/ RecordWorkerStarted(w)
  \/ RecordWorkerStopped(w)
  \/ RecordTaskCheckedOut(w)
  \/ GiveUpTask(w)
  \/ \E d \in Durations : CountTask(w, d)
  \/ AddDuration(w)
  \/ UpdateExtremes(w)

Next ==
  \/ \E w \in Workers : WorkerStep(w)
  \/ GetSnapshot
  \/ \E by \in {"live", "shutdown"} : NextSnapshot(by)

Spec == Init /\ [][Next]_vars
-----------------------------------------------------------------------------
Taken == step = Loads
Settled == snap["completed"] + snap["failed"]
WorkersActive == snap["started"] - snap["stopped"]
TasksInProgress == snap["checkedOut"] - Settled
\* The average as the code rounds it, and the minimum as it reports it.
AverageDuration == IF Settled > 0 THEN snap["total"] \div Settled ELSE 0
MinDuration == IF snap["min"] = Unset THEN 0 ELSE snap["min"]
MaxDuration == snap["max"]

(* Every variable keeps its type.                                          *)
TypeOK ==
  /\ started \in Nat /\ stopped \in Nat
  /\ checkedOut \in Nat /\ completed \in Nat /\ failed \in Nat /\ leaked \in Nat
  /\ total \in Nat
  /\ minimum \in 0 .. Unset /\ maximum \in 0 .. Unset
  /\ pc \in [Workers -> {"new", "idle", "working", "counted", "added", "gone"}]
  /\ took \in [Workers -> 0 .. Unset]
  /\ step \in 0 .. Loads
  /\ trigger \in {"live", "shutdown"}
  /\ snap \in [Fields -> Nat]

(* However the loads interleave with the workers, a snapshot never reports *)
(* a negative number of tasks in progress.                                 *)
InProgressNeverNegative == Taken => TasksInProgress >= 0

(* The snapshot logged at shutdown counts no worker as active, and as in   *)
(* progress exactly the tasks that a panicking hook made the pool give up. *)
ShutdownSnapshotExact ==
  Taken /\ trigger = "shutdown" => WorkersActive = 0 /\ TasksInProgress = leaked

(* The average of the shutdown snapshot lies between its extremes.         *)
ShutdownAverageWithinExtremes ==
  Taken /\ trigger = "shutdown" =>
    MinDuration <= AverageDuration /\ AverageDuration <= MaxDuration
=============================================================================
