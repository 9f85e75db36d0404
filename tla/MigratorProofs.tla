--------------------------- MODULE MigratorProofs ---------------------------
(***************************************************************************)
(* Proofs about Migrator, for every set of processes and of versions.      *)
(***************************************************************************)
EXTENDS Migrator, TLAPS

(* A running process is about a file of its release, and the files before  *)
(* it are applied with the content of that release.                        *)
Sound(p) ==
  pc[p] \in Running => at[p] \in Versions /\ Has(p, at[p]) /\ AppliedUpTo(p, at[p] - 1)

(* The uncommitted row of a transaction is the only one of its version.    *)
Exclusive(p) ==
  pc[p] = "commit" =>
    /\ record[at[p]] = None
    /\ \A q \in Migrators : pc[q] = "commit" /\ at[q] = at[p] => q = p

IInv ==
  /\ TypeOK
  /\ \A p \in Migrators : Sound(p) /\ Exclusive(p)
  /\ AppliedExactlyOnce
  /\ SuccessIsComplete
  /\ AppliedInOrder

LEMMA InitIInv == Init => IInv
BY NAssumption DEF Init, IInv, TypeOK, Versions, Running, Resting, Sound, Exclusive,
   AppliedExactlyOnce, SuccessIsComplete, AppliedInOrder

(* Moving on from version k, up to which everything is applied.            *)
LEMMA Advancing ==
  ASSUME NEW p \in Migrators, NEW k \in 0 .. N, TypeOK, Advance(p, k),
         AppliedUpTo(p, k), UNCHANGED record
  PROVE  /\ pc' = [pc EXCEPT ![p] = pc'[p]] /\ pc'[p] \in {"ok", "lookup"}
         /\ at' = [at EXCEPT ![p] = at'[p]] /\ at'[p] \in 0 .. N
         /\ Sound(p)'
         /\ pc'[p] = "ok" => AppliedUpTo(p, N)
<1> USE NAssumption, EmbeddedAssumption DEF TypeOK, Versions
<1>1. CASE /\ \A v \in Versions : v > k => ~ Has(p, v)
           /\ pc' = [pc EXCEPT ![p] = "ok"]
           /\ UNCHANGED at
  <2>1. AppliedUpTo(p, N)
    BY <1>1 DEF AppliedUpTo
  <2> QED BY <1>1, <2>1 DEF Sound, Running
<1>2. ASSUME NEW n \in Versions, n > k, Has(p, n),
             \A v \in Versions : k < v /\ v < n => ~ Has(p, v),
             pc' = [pc EXCEPT ![p] = "lookup"], at' = [at EXCEPT ![p] = n]
      PROVE  /\ pc' = [pc EXCEPT ![p] = pc'[p]] /\ pc'[p] \in {"ok", "lookup"}
             /\ at' = [at EXCEPT ![p] = at'[p]] /\ at'[p] \in 0 .. N
             /\ Sound(p)'
             /\ pc'[p] = "ok" => AppliedUpTo(p, N)
  <2>1. at'[p] = n /\ pc'[p] = "lookup"
    BY <1>2
  <2>2. AppliedUpTo(p, n - 1)
    BY <1>2 DEF AppliedUpTo
  <2>3. Sound(p)'
    BY <1>2, <2>1, <2>2 DEF Sound, AppliedUpTo, Has
  <2> QED BY <1>2, <2>1, <2>3
<1> QED BY <1>1, <1>2 DEF Advance

(* A step of one process that leaves the database alone.                   *)
LEMMA QuietStep ==
  ASSUME IInv, NEW p \in Migrators, UNCHANGED db,
         pc' = [pc EXCEPT ![p] = pc'[p]], pc'[p] \in (Running \union Resting) \ {"commit"},
         at' = [at EXCEPT ![p] = at'[p]], at'[p] \in 0 .. N,
         Sound(p)', pc'[p] = "ok" => AppliedUpTo(p, N)
  PROVE  IInv'
<1> USE DEF IInv
<1>1. TypeOK'
  BY DEF TypeOK, db
<1>2. ASSUME NEW q \in Migrators PROVE Sound(q)' /\ Exclusive(q)'
  <2>1. CASE q = p
    BY <2>1 DEF TypeOK, Exclusive
  <2>2. CASE q # p
    <3>1. pc'[q] = pc[q] /\ at'[q] = at[q] /\ record' = record
      BY <2>2 DEF TypeOK, db
    <3>2. Sound(q)'
      BY <3>1 DEF Sound, AppliedUpTo, Has
    <3>3. \A r \in Migrators : pc'[r] = "commit" => pc[r] = "commit" /\ at'[r] = at[r]
      BY DEF TypeOK
    <3> QED BY <3>1, <3>2, <3>3 DEF Exclusive
  <2> QED BY <2>1, <2>2
<1>3. AppliedExactlyOnce' /\ AppliedInOrder'
  BY DEF AppliedExactlyOnce, AppliedInOrder, AppliedUpTo, Has, db
<1>4. SuccessIsComplete'
  BY DEF SuccessIsComplete, AppliedUpTo, Has, TypeOK, db
<1> QED BY <1>1, <1>2, <1>3, <1>4

(* A commit keeps every row that was there.                                *)
LEMMA CommitKeeps ==
  ASSUME IInv, NEW p \in Migrators, pc[p] = "commit", Committed(p), NEW n, n = at[p]
  PROVE  /\ n \in Versions /\ Has(p, n) /\ record[n] = None
         /\ record'[n] = Embedded[p][n]
         /\ \A v \in Versions : v # n => record'[v] = record[v]
         /\ \A q \in Migrators, k \in 0 .. N : AppliedUpTo(q, k) => AppliedUpTo(q, k)'
         /\ AppliedUpTo(p, n)'
<1> USE DEF IInv
<1>1. n \in Versions /\ Has(p, n) /\ record[n] = None
  BY DEF Sound, Exclusive, Running
<1>2. /\ record'[n] = Embedded[p][n]
      /\ \A v \in Versions : v # n => record'[v] = record[v]
  BY <1>1 DEF Committed, TypeOK
<1>3. \A q \in Migrators, k \in 0 .. N : AppliedUpTo(q, k) => AppliedUpTo(q, k)'
  BY <1>1, <1>2 DEF AppliedUpTo, Has
<1>4. AppliedUpTo(p, n - 1)
  BY DEF Sound, Running
<1>5. AppliedUpTo(p, n)'
  BY <1>1, <1>2, <1>4, NAssumption DEF AppliedUpTo, Has, Versions
<1> QED BY <1>1, <1>2, <1>3, <1>5

LEMMA CommitStep ==
  ASSUME IInv, NEW p \in Migrators, CommitTx(p) \/ CommitAnswerLost(p)
  PROVE  IInv'
<1> USE DEF IInv
<1>1. pc[p] = "commit" /\ Committed(p)
  BY DEF CommitTx, CommitAnswerLost
<1>0. PICK n : n = at[p]
  OBVIOUS
<1>2. /\ n \in Versions /\ Has(p, n) /\ record[n] = None
      /\ record'[n] = Embedded[p][n]
      /\ \A v \in Versions : v # n => record'[v] = record[v]
      /\ \A q \in Migrators, k \in 0 .. N : AppliedUpTo(q, k) => AppliedUpTo(q, k)'
      /\ AppliedUpTo(p, n)'
  BY <1>1, <1>0, CommitKeeps
<1>3. /\ pc' = [pc EXCEPT ![p] = pc'[p]] /\ pc'[p] \in {"ok", "lookup", "failed"}
      /\ at' = [at EXCEPT ![p] = at'[p]] /\ at'[p] \in 0 .. N
  BY NAssumption DEF CommitTx, CommitAnswerLost, Advance, TypeOK, Versions
<1>4. TypeOK'
  <2>1. record' \in [Versions -> Contents \union {None}]
    BY <1>1, <1>0, <1>2, EmbeddedAssumption DEF TypeOK, Committed
  <2>2. executed' \in [Versions -> Nat]
    BY <1>1, <1>0, <1>2 DEF TypeOK, Committed
  <2> QED BY <1>3, <2>1, <2>2 DEF TypeOK, Running, Resting
<1>5. Sound(p)' /\ (pc'[p] = "ok" => AppliedUpTo(p, N)')
  <2>1. CASE CommitAnswerLost(p)
    BY <2>1 DEF CommitAnswerLost, Sound, Running, TypeOK
  <2>2. CASE CommitTx(p)
    <3>1. CASE /\ \A v \in Versions : v > n => ~ Has(p, v)
               /\ pc' = [pc EXCEPT ![p] = "ok"]
      <4>1. AppliedUpTo(p, N)'
        BY <1>2, <3>1, NAssumption DEF AppliedUpTo, Has, Versions
      <4>2. pc'[p] = "ok"
        BY <3>1 DEF TypeOK
      <4> QED BY <4>1, <4>2 DEF Sound, Running
    <3>2. ASSUME NEW m \in Versions, m > n, Has(p, m),
                 \A v \in Versions : n < v /\ v < m => ~ Has(p, v),
                 pc' = [pc EXCEPT ![p] = "lookup"], at' = [at EXCEPT ![p] = m]
          PROVE  Sound(p)' /\ (pc'[p] = "ok" => AppliedUpTo(p, N)')
      <4>1. at'[p] = m /\ pc'[p] = "lookup"
        BY <3>2 DEF TypeOK
      <4>2. AppliedUpTo(p, m - 1)'
        BY <1>2, <3>2 DEF AppliedUpTo, Has, Versions
      <4> QED BY <3>2, <4>1, <4>2 DEF Sound, Has, AppliedUpTo
    <3> QED BY <2>2, <1>0, <3>1, <3>2 DEF CommitTx, Advance
  <2> QED BY <2>1, <2>2
<1>6. ASSUME NEW q \in Migrators PROVE Sound(q)' /\ Exclusive(q)'
  <2>1. CASE q = p
    BY <1>3, <1>5, <2>1 DEF Exclusive, TypeOK
  <2>2. CASE q # p
    <3>1. pc'[q] = pc[q] /\ at'[q] = at[q]
      BY <1>3, <2>2 DEF TypeOK
    <3>2. Sound(q)'
      <4> SUFFICES ASSUME pc[q] \in Running PROVE Sound(q)'
        BY <3>1 DEF Sound
      <4>1. at[q] \in Versions /\ Has(q, at[q]) /\ AppliedUpTo(q, at[q] - 1)
        BY DEF Sound
      <4>2. at[q] - 1 \in 0 .. N
        BY <4>1, NAssumption DEF Versions
      <4> QED BY <1>2, <3>1, <4>1, <4>2 DEF Sound, Has, AppliedUpTo
    <3>3. Exclusive(q)'
      <4> SUFFICES ASSUME pc[q] = "commit" PROVE Exclusive(q)'
        BY <3>1 DEF Exclusive
      <4>1. at[q] # n
        BY <1>1, <1>0, <2>2 DEF Exclusive
      <4>2. at[q] \in Versions /\ record[at[q]] = None
        BY DEF Exclusive, Sound, Running
      <4>3. \A r \in Migrators : pc'[r] = "commit" => pc[r] = "commit" /\ at'[r] = at[r]
        BY <1>3 DEF TypeOK
      <4> QED BY <1>2, <3>1, <4>1, <4>2, <4>3 DEF Exclusive
    <3> QED BY <3>2, <3>3
  <2> QED BY <2>1, <2>2
<1>7. AppliedExactlyOnce'
  <2>1. record[n] = None
    BY <1>2
  <2>2. Embedded[p][n] # None
    BY <1>2 DEF Has
  <2>3. ASSUME NEW v \in Versions PROVE executed'[v] = IF record'[v] = None THEN 0 ELSE 1
    <3>1. CASE v = n
      BY <1>1, <1>0, <1>2, <2>1, <2>2, <3>1 DEF AppliedExactlyOnce, Committed, TypeOK
    <3>2. CASE v # n
      BY <1>1, <1>0, <1>2, <3>2 DEF AppliedExactlyOnce, Committed, TypeOK
    <3> QED BY <3>1, <3>2
  <2> QED BY <2>3 DEF AppliedExactlyOnce
<1>8. SuccessIsComplete'
  <2> SUFFICES ASSUME NEW q \in Migrators, pc'[q] = "ok" PROVE AppliedUpTo(q, N)'
    BY DEF SuccessIsComplete
  <2>1. CASE q = p
    BY <1>5, <2>1
  <2>2. CASE q # p
    BY <1>2, <1>3, <2>2, NAssumption DEF SuccessIsComplete, TypeOK
  <2> QED BY <2>1, <2>2
<1>9. AppliedInOrder'
  <2> SUFFICES ASSUME NEW v \in Versions, record'[v] # None
               PROVE  \E q \in Migrators : record'[v] = Embedded[q][v] /\ AppliedUpTo(q, v)'
    BY DEF AppliedInOrder
  <2>1. CASE v = n
    BY <1>2, <2>1
  <2>2. CASE v # n
    <3>1. record'[v] = record[v]
      BY <1>2, <2>2
    <3>2. PICK q \in Migrators : record[v] = Embedded[q][v] /\ AppliedUpTo(q, v)
      BY <3>1 DEF AppliedInOrder
    <3>3. v \in 0 .. N
      BY NAssumption DEF Versions
    <3>4. AppliedUpTo(q, v)'
      BY <1>2, <3>2, <3>3
    <3> QED BY <3>1, <3>2, <3>4
  <2> QED BY <2>1, <2>2
<1> QED BY <1>4, <1>6, <1>7, <1>8, <1>9

(* A step that only moves one process's label.                             *)
LEMMA MoveStep ==
  ASSUME IInv, NEW p \in Migrators,
         NEW from \in Running, NEW to \in (Running \union {"failed", "idle"}) \ {"commit"},
         Go(p, from, to)
  PROVE  IInv'
<1>1. /\ pc' = [pc EXCEPT ![p] = pc'[p]] /\ pc'[p] = to
      /\ at' = [at EXCEPT ![p] = at'[p]] /\ at'[p] = at[p] /\ at[p] \in 0 .. N
      /\ UNCHANGED db
  BY DEF IInv, TypeOK, Go, db
<1>2. Sound(p)'
  BY <1>1 DEF IInv, Sound, AppliedUpTo, Has, Go, db
<1>3. to # "ok" /\ to \in (Running \union Resting) \ {"commit"}
  BY DEF Running, Resting
<1> QED BY <1>1, <1>2, <1>3, QuietStep

LEMMA AlreadyAppliedStep ==
  ASSUME IInv, NEW p \in Migrators, AlreadyApplied(p)
  PROVE  IInv'
<1>1. /\ at[p] \in Versions /\ Has(p, at[p]) /\ AppliedUpTo(p, at[p] - 1)
      /\ at[p] \in 0 .. N
  BY NAssumption DEF IInv, AlreadyApplied, Sound, Running, Versions
<1>2. CASE record[at[p]] = Embedded[p][at[p]]
  <2>1. AppliedUpTo(p, at[p])
    BY <1>1, <1>2, NAssumption DEF AppliedUpTo, Versions
  <2>2. Advance(p, at[p]) /\ UNCHANGED db
    BY <1>2 DEF AlreadyApplied
  <2>3. /\ pc' = [pc EXCEPT ![p] = pc'[p]] /\ pc'[p] \in {"ok", "lookup"}
        /\ at' = [at EXCEPT ![p] = at'[p]] /\ at'[p] \in 0 .. N
        /\ Sound(p)'
        /\ pc'[p] = "ok" => AppliedUpTo(p, N)
    BY <1>1, <2>1, <2>2, Advancing DEF IInv, db
  <2>4. pc'[p] \in (Running \union Resting) \ {"commit"}
    BY <2>3 DEF Running, Resting
  <2> QED BY <2>2, <2>3, <2>4, QuietStep
<1>3. CASE record[at[p]] # Embedded[p][at[p]]
  <2>1. Go(p, "lookup", "failed")
    BY <1>3 DEF AlreadyApplied, Go
  <2> QED BY <2>1, MoveStep DEF Running
<1> QED BY <1>2, <1>3

LEMMA StartStep ==
  ASSUME IInv, NEW p \in Migrators, StartMigrate(p) \/ StartFails(p)
  PROVE  IInv'
<1>1. CASE StartMigrate(p)
  <2>1. AppliedUpTo(p, 0) /\ 0 \in 0 .. N
    BY NAssumption DEF AppliedUpTo, Versions
  <2>2. /\ pc' = [pc EXCEPT ![p] = pc'[p]] /\ pc'[p] \in {"ok", "lookup"}
        /\ at' = [at EXCEPT ![p] = at'[p]] /\ at'[p] \in 0 .. N
        /\ Sound(p)'
        /\ pc'[p] = "ok" => AppliedUpTo(p, N)
        /\ UNCHANGED db
    BY <1>1, <2>1, Advancing DEF StartMigrate, IInv, db
  <2>3. pc'[p] \in (Running \union Resting) \ {"commit"}
    BY <2>2 DEF Running, Resting
  <2> QED BY <2>2, <2>3, QuietStep
<1>2. CASE StartFails(p)
  <2>1. /\ pc' = [pc EXCEPT ![p] = pc'[p]] /\ pc'[p] = "failed"
        /\ at' = [at EXCEPT ![p] = at'[p]] /\ at'[p] \in 0 .. N
        /\ UNCHANGED db
    BY <1>2 DEF StartFails, IInv, TypeOK
  <2>2. Sound(p)' /\ pc'[p] \in (Running \union Resting) \ {"commit"}
    BY <2>1 DEF Sound, Running, Resting
  <2> QED BY <2>1, <2>2, QuietStep
<1> QED BY <1>1, <1>2

LEMMA InsertStep ==
  ASSUME IInv, NEW p \in Migrators, InsertRecord(p)
  PROVE  IInv'
<1> USE DEF IInv, InsertRecord, Go
<1>1. TypeOK'
  BY DEF TypeOK, Running, Resting, db
<1>2. /\ pc'[p] = "commit" /\ at' = at /\ UNCHANGED db
      /\ \A q \in Migrators \ {p} : pc'[q] = pc[q]
  BY DEF TypeOK
<1>3. ASSUME NEW q \in Migrators PROVE Sound(q)' /\ Exclusive(q)'
  <2>1. Sound(q)'
    <3>1. pc[q] \in Running \/ q # p
      BY DEF Running
    <3>2. pc'[q] \in Running => pc[q] \in Running
      BY <1>2, <3>1
    <3> QED BY <1>2, <3>2 DEF Sound, AppliedUpTo, Has, db
  <2>2. Exclusive(q)'
    <3>1. CASE q = p
      BY <1>2, <3>1 DEF Exclusive, KeyHeld, db
    <3>2. CASE q # p
      BY <1>2, <3>2 DEF Exclusive, KeyHeld, db
    <3> QED BY <3>1, <3>2
  <2> QED BY <2>1, <2>2
<1>4. AppliedExactlyOnce' /\ AppliedInOrder'
  BY <1>2 DEF AppliedExactlyOnce, AppliedInOrder, AppliedUpTo, Has, db
<1>5. SuccessIsComplete'
  BY <1>2 DEF SuccessIsComplete, AppliedUpTo, Has, db
<1> QED BY <1>1, <1>3, <1>4, <1>5

LEMMA StepIInv == IInv /\ [Next]_vars => IInv'
<1> SUFFICES ASSUME IInv, [Next]_vars PROVE IInv'
  OBVIOUS
<1>1. ASSUME NEW p \in Migrators, StartMigrate(p) \/ StartFails(p) PROVE IInv'
  BY <1>1, StartStep
<1>2. ASSUME NEW p \in Migrators, AlreadyApplied(p) PROVE IInv'
  BY <1>2, AlreadyAppliedStep
<1>3. ASSUME NEW p \in Migrators,
             \/ NotApplied(p) \/ LookupFails(p) \/ BeginTx(p) \/ ExecuteSQL(p)
             \/ InsertConflicts(p) \/ CallFails(p) \/ Crash(p)
      PROVE  IInv'
  <2>1. \E from \in Running, to \in (Running \union {"failed", "idle"}) \ {"commit"} :
          Go(p, from, to)
    BY <1>3 DEF NotApplied, LookupFails, BeginTx, ExecuteSQL, InsertConflicts, CallFails,
       Crash, Running
  <2> QED BY <2>1, MoveStep
<1>4. ASSUME NEW p \in Migrators, InsertRecord(p) PROVE IInv'
  BY <1>4, InsertStep
<1>5. ASSUME NEW p \in Migrators, CommitTx(p) \/ CommitAnswerLost(p) PROVE IInv'
  BY <1>5, CommitStep
<1>6. CASE UNCHANGED vars
  BY <1>6 DEF vars, IInv, TypeOK, Sound, Exclusive, AppliedExactlyOnce, SuccessIsComplete,
     AppliedInOrder, AppliedUpTo, Has
<1> QED BY <1>1, <1>2, <1>3, <1>4, <1>5, <1>6 DEF Next, Progress

LEMMA AlwaysIInv == Spec => []IInv
BY InitIInv, StepIInv, PTL DEF Spec

(* Every variable of the migrator keeps its type.                          *)
THEOREM MigratorTyped == Spec => []TypeOK
<1>1. IInv => TypeOK
  BY DEF IInv
<1> QED BY <1>1, AlwaysIInv, PTL

(* The SQL of a version takes effect exactly once if it is recorded, and   *)
(* never otherwise, for any number of processes that race, fail and crash. *)
THEOREM AppliedOnce == Spec => []AppliedExactlyOnce
<1>1. IInv => AppliedExactlyOnce
  BY DEF IInv
<1> QED BY <1>1, AlwaysIInv, PTL

(* A nil result of Migrate means that the release is applied as embedded.  *)
THEOREM SuccessMeansComplete == Spec => []SuccessIsComplete
<1>1. IInv => SuccessIsComplete
  BY DEF IInv
<1> QED BY <1>1, AlwaysIInv, PTL

(* Every version was applied in the order of a release.                    *)
THEOREM OrderIsKept == Spec => []AppliedInOrder
<1>1. IInv => AppliedInOrder
  BY DEF IInv
<1> QED BY <1>1, AlwaysIInv, PTL

(* The migrator implements MigrationHistory: the database changes by whole *)
(* migrations, once each, and a recorded version never changes again.      *)
THEOREM MigratorKeepsHistory == Spec => KeepsHistory
<1>1. Init => History!Init
  BY DEF Init, History!Init
<1>2. IInv /\ [Next]_vars => [History!Next]_(History!vars)
  <2> SUFFICES ASSUME IInv, [Next]_vars PROVE [History!Next]_(History!vars)
    OBVIOUS
  <2>1. ASSUME NEW p \in Migrators, CommitTx(p) \/ CommitAnswerLost(p)
        PROVE  History!Next
    <3>1. pc[p] = "commit" /\ Committed(p)
      BY <2>1 DEF CommitTx, CommitAnswerLost
    <3>2. at[p] \in Versions /\ Has(p, at[p]) /\ record[at[p]] = None
      BY <3>1 DEF IInv, Sound, Exclusive, Running
    <3>3. Embedded[p][at[p]] \in Contents
      BY <3>2, EmbeddedAssumption DEF Has
    <3>4. History!Apply(at[p], Embedded[p][at[p]])
      BY <3>1, <3>2 DEF Committed, History!Apply
    <3> QED BY <3>2, <3>3, <3>4 DEF History!Next
  <2>2. ASSUME NEW p \in Migrators,
               StartMigrate(p) \/ StartFails(p) \/ AlreadyApplied(p) \/ InsertRecord(p)
        PROVE  UNCHANGED db
    BY <2>2 DEF StartMigrate, StartFails, AlreadyApplied, InsertRecord, Go
  <2>3. ASSUME NEW p \in Migrators,
               \/ NotApplied(p) \/ LookupFails(p) \/ BeginTx(p) \/ ExecuteSQL(p)
               \/ InsertConflicts(p) \/ CallFails(p) \/ Crash(p)
        PROVE  UNCHANGED db
    BY <2>3 DEF NotApplied, LookupFails, BeginTx, ExecuteSQL, InsertConflicts, CallFails,
       Crash, Go
  <2>4. CASE UNCHANGED vars
    BY <2>4 DEF vars, History!vars
  <2> QED BY <2>1, <2>2, <2>3, <2>4 DEF Next, Progress, History!vars, db
<1> QED BY <1>1, <1>2, AlwaysIInv, PTL DEF Spec, KeepsHistory, History!Spec
=============================================================================
