------------------------- MODULE PoolMetricsProofs --------------------------
(***************************************************************************)
(* Proofs about PoolMetrics, for every set of workers and of durations.    *)
(***************************************************************************)
EXTENDS PoolMetrics, FiniteSetTheorems, TLAPS

In(label) == {w \in Workers : pc[w] = label}
Present == {w \in Workers : pc[w] \notin {"new", "gone"}}

(* The counters, each worker's position and the leaked tasks agree.        *)
CountersBalance ==
  /\ checkedOut = completed + failed + leaked + Cardinality(In("working"))
  /\ started = stopped + Cardinality(Present)

(* A snapshot never runs ahead of the counters, and the load order keeps   *)
(* what it settled below what it checked out.                              *)
SnapshotBehind ==
  /\ snap["completed"] <= completed
  /\ snap["failed"] <= failed
  /\ step >= 5 => Settled <= snap["checkedOut"]

(* The shutdown snapshot loads counters that no longer move.               *)
ShutdownFrozen ==
  trigger = "shutdown" =>
    /\ AllGone
    /\ step >= 1 => snap["started"] = started
    /\ step >= 2 => snap["stopped"] = stopped
    /\ step >= 3 => snap["completed"] = completed
    /\ step >= 4 => snap["failed"] = failed
    /\ step >= 5 => snap["checkedOut"] = checkedOut
    /\ step >= 6 => snap["min"] = minimum /\ snap["max"] = maximum
    /\ step >= 7 => snap["total"] = total

(* The total without a sum: what is no longer than any duration that it    *)
(* contains, times their number, is no more than it, and the same with     *)
(* what is no shorter.  A duration is in the total before it has changed   *)
(* the extremes; until then the worker still holds it.                     *)
Summed == completed + failed - Cardinality(In("counted"))
NoLonger(m) == m <= minimum /\ \A w \in In("added") : m <= took[w]
NoShorter(m) == m >= maximum /\ \A w \in In("added") : m >= took[w]
BoundedBy(m) ==
  /\ NoLonger(m) => m * Summed <= total
  /\ NoShorter(m) => total <= m * Summed
TotalBounded == \A m \in 0 .. Unset : BoundedBy(m)

(* Nothing sets the minimum but a task that was settled.                   *)
MinimumIsOfATask ==
  minimum # Unset \/ (\E w \in Workers : pc[w] \in {"counted", "added"}) => completed + failed > 0

IInv ==
  /\ TypeOK /\ CountersBalance /\ SnapshotBehind /\ ShutdownFrozen
  /\ TotalBounded /\ MinimumIsOfATask

LEMMA CountsFinite ==
  /\ \A label : IsFiniteSet(In(label)) /\ Cardinality(In(label)) \in Nat
  /\ IsFiniteSet(Present) /\ Cardinality(Present) \in Nat
<1>1. \A label : In(label) \subseteq Workers
  BY DEF In
<1>2. Present \subseteq Workers
  BY DEF Present
<1> QED BY <1>1, <1>2, WorkersAssumption, FS_Subset, FS_CardinalityType

LEMMA InitIInv == Init => IInv
<1> SUFFICES ASSUME Init PROVE IInv
  OBVIOUS
<1>1. TypeOK
  BY DurationsAssumption DEF Init, TypeOK, Fields, NothingLoaded, Loads
<1>2. In("working") = {} /\ Present = {}
  BY DEF Init, In, Present
<1>3. CountersBalance
  BY <1>2, FS_EmptySet DEF Init, CountersBalance
<1>4. SnapshotBehind /\ ShutdownFrozen
  BY DEF Init, SnapshotBehind, ShutdownFrozen, NothingLoaded, Fields, Settled
<1>5. TotalBounded
  <2>1. In("counted") = {}
    BY DEF Init, In
  <2>2. Summed = 0
    BY <2>1, FS_EmptySet DEF Init, Summed
  <2> QED BY <2>2, DurationsAssumption DEF Init, TotalBounded, BoundedBy
<1>6. MinimumIsOfATask
  BY DEF Init, MinimumIsOfATask
<1> QED BY <1>1, <1>3, <1>4, <1>5, <1>6 DEF IInv

LEMMA WorkerType ==
  ASSUME TypeOK, NEW w \in Workers, WorkerStep(w)
  PROVE  TypeOK'
<1> USE DurationsAssumption DEF TypeOK, Move, reader
<1>1. CASE RecordWorkerStarted(w) \/ RecordWorkerStopped(w) \/ RecordTaskCheckedOut(w) \/ GiveUpTask(w)
  BY <1>1 DEF RecordWorkerStarted, RecordWorkerStopped, RecordTaskCheckedOut, GiveUpTask
<1>2. ASSUME NEW d \in Durations, CountTask(w, d) PROVE TypeOK'
  BY <1>2 DEF CountTask
<1>3. CASE AddDuration(w)
  BY <1>3 DEF AddDuration
<1>4. CASE UpdateExtremes(w)
  BY <1>4 DEF UpdateExtremes, SmallerOf, LargerOf
<1> QED BY <1>1, <1>2, <1>3, <1>4 DEF WorkerStep

LEMMA ReaderType ==
  ASSUME TypeOK, GetSnapshot \/ \E by \in {"live", "shutdown"} : NextSnapshot(by)
  PROVE  TypeOK'
<1> USE DurationsAssumption DEF TypeOK, counters, Loads
<1>1. ASSUME NEW n \in 0 .. 6, NEW f \in Fields, NEW v \in Nat, Load(n, f, v) PROVE TypeOK'
  BY <1>1 DEF Load
<1>2. CASE GetSnapshot
  <2>1. CASE LoadExtremes
    BY <2>1 DEF LoadExtremes, Fields
  <2> QED BY <1>1, <1>2, <2>1 DEF GetSnapshot, Fields
<1>3. ASSUME NEW by \in {"live", "shutdown"}, NextSnapshot(by) PROVE TypeOK'
  BY <1>3 DEF NextSnapshot, NothingLoaded
<1> QED BY <1>2, <1>3

(* Moving a worker into or out of a set of workers counts one.             *)
LEMMA Enters ==
  ASSUME NEW S, IsFiniteSet(S), NEW w, w \notin S
  PROVE  Cardinality(S \union {w}) = Cardinality(S) + 1
BY FS_AddElement

LEMMA Leaves ==
  ASSUME NEW S, IsFiniteSet(S), NEW w, w \in S
  PROVE  Cardinality(S \ {w}) = Cardinality(S) - 1
BY FS_RemoveElement

LEMMA BalanceStep ==
  ASSUME TypeOK, CountersBalance, NEW w \in Workers, WorkerStep(w)
  PROVE  CountersBalance'
<1> USE CountsFinite DEF TypeOK, Move, CountersBalance, reader
<1> DEFINE W == In("working")
<1>1. CASE RecordWorkerStarted(w)
  <2>1. W' = W /\ Present' = Present \union {w} /\ w \notin Present
    BY <1>1 DEF RecordWorkerStarted, In, Present
  <2> QED BY <1>1, <2>1, Enters DEF RecordWorkerStarted
<1>2. CASE RecordWorkerStopped(w)
  <2>1. W' = W /\ Present' = Present \ {w} /\ w \in Present
    BY <1>2 DEF RecordWorkerStopped, In, Present
  <2> QED BY <1>2, <2>1, Leaves DEF RecordWorkerStopped
<1>3. CASE RecordTaskCheckedOut(w)
  <2>1. W' = W \union {w} /\ w \notin W /\ Present' = Present
    BY <1>3 DEF RecordTaskCheckedOut, In, Present
  <2> QED BY <1>3, <2>1, Enters DEF RecordTaskCheckedOut
<1>4. CASE GiveUpTask(w)
  <2>1. W' = W \ {w} /\ w \in W /\ Present' = Present
    BY <1>4 DEF GiveUpTask, In, Present
  <2> QED BY <1>4, <2>1, Leaves DEF GiveUpTask
<1>5. ASSUME NEW d \in Durations, CountTask(w, d) PROVE CountersBalance'
  <2>1. W' = W \ {w} /\ w \in W /\ Present' = Present
    BY <1>5 DEF CountTask, In, Present
  <2> QED BY <1>5, <2>1, Leaves DEF CountTask
<1>6. CASE AddDuration(w) \/ UpdateExtremes(w)
  <2>1. W' = W /\ Present' = Present
    BY <1>6 DEF AddDuration, UpdateExtremes, In, Present
  <2> QED BY <1>6, <2>1 DEF AddDuration, UpdateExtremes
<1> QED BY <1>1, <1>2, <1>3, <1>4, <1>5, <1>6 DEF WorkerStep

(* A worker that has counted its task takes the number of the summed       *)
(* durations along when its own joins the total.                           *)
LEMMA BoundsStep ==
  ASSUME TypeOK, TotalBounded, MinimumIsOfATask, NEW w \in Workers, WorkerStep(w)
  PROVE  TotalBounded' /\ MinimumIsOfATask'
<1> USE DurationsAssumption DEF TypeOK, Move
<1> DEFINE C == In("counted")
           A == In("added")
<1>1. CASE RecordWorkerStarted(w) \/ RecordWorkerStopped(w) \/ RecordTaskCheckedOut(w) \/ GiveUpTask(w)
  <2>1. /\ UNCHANGED <<completed, failed, total, minimum, maximum, took>>
        /\ \A p \in Workers : /\ pc'[p] = "counted" <=> pc[p] = "counted"
                              /\ pc'[p] = "added" <=> pc[p] = "added"
    BY <1>1 DEF RecordWorkerStarted, RecordWorkerStopped, RecordTaskCheckedOut, GiveUpTask
  <2>2. C' = C /\ A' = A
    BY <2>1 DEF In
  <2>3. TotalBounded'
    BY <2>1, <2>2 DEF TotalBounded, BoundedBy, Summed, NoLonger, NoShorter
  <2>4. MinimumIsOfATask'
    BY <2>1 DEF MinimumIsOfATask
  <2> QED BY <2>3, <2>4
<1>2. ASSUME NEW d \in Durations, CountTask(w, d) PROVE TotalBounded' /\ MinimumIsOfATask'
  <2>1. C' = C \union {w} /\ w \notin C /\ A' = A /\ w \notin A
    BY <1>2 DEF CountTask, In
  <2>2. /\ \/ completed' = completed + 1 /\ failed' = failed
           \/ completed' = completed /\ failed' = failed + 1
        /\ UNCHANGED <<total, minimum, maximum>>
        /\ \A p \in A : took'[p] = took[p]
    BY <1>2, <2>1 DEF CountTask, In
  <2>3. Summed' = Summed
    <3>1. Cardinality(C') = Cardinality(C) + 1 /\ Cardinality(C) \in Nat
      BY <2>1, CountsFinite, Enters
    <3> QED BY <2>2, <3>1 DEF Summed
  <2>4. TotalBounded'
    BY <2>1, <2>2, <2>3 DEF TotalBounded, BoundedBy, NoLonger, NoShorter
  <2>5. MinimumIsOfATask'
    BY <2>2 DEF MinimumIsOfATask
  <2> QED BY <2>4, <2>5
<1>3. CASE AddDuration(w)
  <2>1. C' = C \ {w} /\ w \in C /\ A' = A \union {w}
    BY <1>3 DEF AddDuration, In
  <2>2. /\ UNCHANGED <<completed, failed, minimum, maximum, took>>
        /\ total' = total + took[w] /\ took[w] \in 0 .. Unset
        /\ pc[w] = "counted"
    BY <1>3 DEF AddDuration, counters
  <2>3. Summed' = Summed + 1 /\ Summed \in Int
    <3>1. Cardinality(C') = Cardinality(C) - 1 /\ Cardinality(C) \in Nat
      BY <2>1, CountsFinite, Leaves
    <3> QED BY <2>2, <3>1 DEF Summed
  <2>4. ASSUME NEW m \in 0 .. Unset PROVE BoundedBy(m)'
    <3>1. /\ NoLonger(m)' => NoLonger(m) /\ m <= took[w]
          /\ NoShorter(m)' => NoShorter(m) /\ m >= took[w]
      BY <2>1, <2>2 DEF NoLonger, NoShorter
    <3>2. m * Summed' = m * Summed + m /\ m * Summed \in Int
      BY <2>3
    <3>3. BoundedBy(m)
      BY DEF TotalBounded
    <3> QED BY <2>2, <3>1, <3>2, <3>3 DEF BoundedBy
  <2>5. TotalBounded'
    BY <2>4 DEF TotalBounded
  <2>6. MinimumIsOfATask'
    BY <2>2 DEF MinimumIsOfATask
  <2> QED BY <2>5, <2>6
<1>4. CASE UpdateExtremes(w)
  <2>1. C' = C /\ A' = A \ {w} /\ w \in A
    BY <1>4 DEF UpdateExtremes, In
  <2>2. /\ UNCHANGED <<completed, failed, total>> /\ pc[w] = "added"
        /\ minimum' = SmallerOf(took[w], minimum) /\ maximum' = LargerOf(took[w], maximum)
        /\ \A p \in A \ {w} : took'[p] = took[p]
    BY <1>4 DEF UpdateExtremes, In
  <2>3. Summed' = Summed
    BY <2>1, <2>2 DEF Summed
  <2>4. ASSUME NEW m \in 0 .. Unset
        PROVE  (NoLonger(m)' => NoLonger(m)) /\ (NoShorter(m)' => NoShorter(m))
    <3>1. took[w] \in 0 .. Unset
      OBVIOUS
    <3>2. /\ m <= minimum' => m <= minimum /\ m <= took[w]
          /\ m >= maximum' => m >= maximum /\ m >= took[w]
      BY <2>2, <3>1 DEF SmallerOf, LargerOf
    <3> QED BY <2>1, <2>2, <3>2 DEF NoLonger, NoShorter
  <2>5. TotalBounded'
    <3>1. ASSUME NEW m \in 0 .. Unset PROVE BoundedBy(m)'
      <4>1. BoundedBy(m)
        BY DEF TotalBounded
      <4> QED BY <2>2, <2>3, <2>4, <4>1 DEF BoundedBy
    <3> QED BY <3>1 DEF TotalBounded
  <2>6. MinimumIsOfATask'
    BY <2>2 DEF MinimumIsOfATask
  <2> QED BY <2>5, <2>6
<1> QED BY <1>1, <1>2, <1>3, <1>4 DEF WorkerStep

\* The reader changes none of it.
LEMMA BoundsStay ==
  ASSUME TotalBounded, MinimumIsOfATask, UNCHANGED <<counters, pc, took>>
  PROVE  TotalBounded' /\ MinimumIsOfATask'
BY DEF TotalBounded, BoundedBy, MinimumIsOfATask, Summed, NoLonger, NoShorter, In, counters

LEMMA StepIInv == IInv /\ [Next]_vars => IInv'
<1> SUFFICES ASSUME IInv, [Next]_vars PROVE IInv'
  OBVIOUS
<1> USE DEF IInv
<1>1. ASSUME NEW w \in Workers, WorkerStep(w) PROVE IInv'
  <2>1. TypeOK' /\ CountersBalance'
    BY <1>1, WorkerType, BalanceStep
  <2>2. /\ UNCHANGED <<step, trigger, snap>>
        /\ completed' >= completed /\ failed' >= failed
        /\ pc[w] # "gone"
    BY <1>1 DEF WorkerStep, RecordWorkerStarted, RecordWorkerStopped, RecordTaskCheckedOut,
       GiveUpTask, CountTask, AddDuration, UpdateExtremes, Move, reader, TypeOK
  <2>3. SnapshotBehind'
    BY <2>1, <2>2 DEF SnapshotBehind, Settled, TypeOK, Fields
  <2>4. ShutdownFrozen'
    BY <2>2 DEF ShutdownFrozen, AllGone
  <2>5. TotalBounded' /\ MinimumIsOfATask'
    BY <1>1, BoundsStep
  <2> QED BY <2>1, <2>3, <2>4, <2>5
<1>2. ASSUME UNCHANGED <<counters, pc, took>>, TypeOK' PROVE CountersBalance'
  BY <1>2 DEF CountersBalance, In, Present, counters
<1>3. CASE GetSnapshot
  <2>1. TypeOK'
    BY <1>3, ReaderType
  <2>2. UNCHANGED <<counters, pc, took, trigger>>
    BY <1>3 DEF GetSnapshot, Load, LoadExtremes
  <2>3. checkedOut >= completed + failed
    BY CountsFinite DEF CountersBalance, TypeOK
  <2>4. SnapshotBehind'
    BY <1>3, <2>2, <2>3
       DEF GetSnapshot, Load, LoadExtremes, SnapshotBehind, Settled, TypeOK, Fields, counters
  <2>5. ShutdownFrozen'
    BY <1>3, <2>2
       DEF GetSnapshot, Load, LoadExtremes, ShutdownFrozen, AllGone, TypeOK, Fields, counters
  <2>6. TotalBounded' /\ MinimumIsOfATask'
    BY <2>2, BoundsStay
  <2> QED BY <1>2, <2>1, <2>2, <2>4, <2>5, <2>6
<1>4. ASSUME NEW by \in {"live", "shutdown"}, NextSnapshot(by) PROVE IInv'
  <2>1. TypeOK'
    BY <1>4, ReaderType
  <2>2. SnapshotBehind' /\ ShutdownFrozen'
    BY <1>4 DEF NextSnapshot, SnapshotBehind, ShutdownFrozen, AllGone, Settled, NothingLoaded,
       Fields, TypeOK, counters
  <2>3. CountersBalance'
    BY <1>2, <1>4, <2>1 DEF NextSnapshot
  <2>4. TotalBounded' /\ MinimumIsOfATask'
    BY <1>4, BoundsStay DEF NextSnapshot
  <2> QED BY <2>1, <2>2, <2>3, <2>4
<1>5. CASE UNCHANGED vars
  <2>1. TypeOK' /\ CountersBalance' /\ SnapshotBehind' /\ ShutdownFrozen'
    BY <1>5 DEF vars, counters, reader, TypeOK, CountersBalance, SnapshotBehind, ShutdownFrozen,
       In, Present, AllGone, Settled
  <2>2. TotalBounded' /\ MinimumIsOfATask'
    BY <1>5, BoundsStay DEF vars
  <2> QED BY <2>1, <2>2
<1> QED BY <1>1, <1>3, <1>4, <1>5 DEF Next

LEMMA AlwaysIInv == Spec => []IInv
BY InitIInv, StepIInv, PTL DEF Spec

(* Every counter, and every field a snapshot loads, keeps its type.        *)
THEOREM CountersTyped == Spec => []TypeOK
<1>1. IInv => TypeOK
  BY DEF IInv
<1> QED BY <1>1, AlwaysIInv, PTL

(* No snapshot reports a negative number of tasks in progress.             *)
THEOREM NeverNegative == Spec => []InProgressNeverNegative
<1>1. IInv => InProgressNeverNegative
  BY DEF IInv, InProgressNeverNegative, SnapshotBehind, TasksInProgress, Settled, Taken, Loads,
     TypeOK, Fields
<1> QED BY <1>1, AlwaysIInv, PTL

(* The shutdown snapshot is exact about workers and tasks in progress.     *)
THEOREM ShutdownExact == Spec => []ShutdownSnapshotExact
<1>1. IInv => ShutdownSnapshotExact
  <2> SUFFICES ASSUME IInv, Taken, trigger = "shutdown"
               PROVE  WorkersActive = 0 /\ TasksInProgress = leaked
    BY DEF ShutdownSnapshotExact
  <2> USE DEF IInv
  <2>1. In("working") = {} /\ Present = {}
    BY DEF ShutdownFrozen, AllGone, In, Present
  <2>2. checkedOut = completed + failed + leaked /\ started = stopped
    BY <2>1, FS_EmptySet DEF CountersBalance, TypeOK
  <2>3. /\ snap["started"] = started /\ snap["stopped"] = stopped
        /\ snap["completed"] = completed /\ snap["failed"] = failed
        /\ snap["checkedOut"] = checkedOut
    BY DEF ShutdownFrozen, Taken, Loads
  <2> QED BY <2>2, <2>3 DEF WorkersActive, TasksInProgress, Settled, TypeOK
<1> QED BY <1>1, AlwaysIInv, PTL

LEMMA AverageIsBetween ==
  ASSUME NEW low \in Nat, NEW high \in Nat, NEW n \in Nat \ {0}, NEW sum \in Nat,
         low * n <= sum, sum <= high * n
  PROVE  low <= sum \div n /\ sum \div n <= high
<1> DEFINE q == sum \div n
<1>1. q \in Nat /\ n * q <= sum /\ sum < n * (q + 1)
  OBVIOUS
<1> HIDE DEF q
<1>2. n * q <= n * high /\ n * low < n * (q + 1)
  BY <1>1
<1>3. q <= high /\ low < q + 1
  BY <1>1, <1>2
<1> QED BY <1>1, <1>3 DEF q

(* The average of the shutdown snapshot, as the code rounds it, lies       *)
(* between the minimum and the maximum it reports (metrics.go, calculate   *)
(* of GetSnapshot and updateDurations).                                    *)
THEOREM AverageWithinExtremes == Spec => []ShutdownAverageWithinExtremes
<1>1. IInv => ShutdownAverageWithinExtremes
  <2> SUFFICES ASSUME IInv, Taken, trigger = "shutdown"
               PROVE  MinDuration <= AverageDuration /\ AverageDuration <= MaxDuration
    BY DEF ShutdownAverageWithinExtremes
  <2> USE DurationsAssumption DEF IInv
  <2>1. /\ snap["completed"] = completed /\ snap["failed"] = failed
        /\ snap["min"] = minimum /\ snap["max"] = maximum /\ snap["total"] = total
    BY DEF ShutdownFrozen, Taken, Loads
  <2>2. In("counted") = {} /\ In("added") = {}
    BY DEF ShutdownFrozen, AllGone, In
  <2>3. Summed = completed + failed
    BY <2>2, FS_EmptySet DEF Summed, TypeOK
  <2>4. minimum * (completed + failed) <= total /\ total <= maximum * (completed + failed)
    <3>1. NoLonger(minimum) /\ NoShorter(maximum) /\ minimum \in 0 .. Unset /\ maximum \in 0 .. Unset
      BY <2>2 DEF NoLonger, NoShorter, TypeOK
    <3>2. BoundedBy(minimum) /\ BoundedBy(maximum)
      BY <3>1 DEF TotalBounded
    <3> QED BY <2>3, <3>1, <3>2 DEF BoundedBy
  <2>5. CASE completed + failed = 0
    <3>1. minimum = Unset
      BY <2>5 DEF MinimumIsOfATask
    <3> QED BY <2>1, <2>5, <3>1 DEF MinDuration, MaxDuration, AverageDuration, Settled, TypeOK
  <2>6. CASE completed + failed # 0
    <3>1. minimum <= total \div (completed + failed) /\ total \div (completed + failed) <= maximum
      <4>1. /\ minimum \in Nat /\ maximum \in Nat /\ total \in Nat
            /\ completed + failed \in Nat \ {0}
        BY <2>6 DEF TypeOK
      <4> QED BY <2>4, <4>1, AverageIsBetween
    <3>2. AverageDuration = total \div (completed + failed) /\ MaxDuration = maximum
      BY <2>1, <2>6 DEF AverageDuration, MaxDuration, Settled, TypeOK
    <3>3. MinDuration <= minimum
      BY <2>1 DEF MinDuration, TypeOK
    <3>4. total \div (completed + failed) \in Nat
      BY <2>6 DEF TypeOK
    <3>5. MinDuration \in Nat /\ minimum \in Nat
      BY <2>1 DEF MinDuration, TypeOK
    <3> HIDE DEF MinDuration
    <3> QED BY <3>1, <3>2, <3>3, <3>4, <3>5
  <2> QED BY <2>5, <2>6 DEF TypeOK
<1> QED BY <1>1, AlwaysIInv, PTL
=============================================================================
