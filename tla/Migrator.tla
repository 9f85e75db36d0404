------------------------------ MODULE Migrator ------------------------------
(***************************************************************************)
(* Migrate of infrastructure/postgresdb: any number of processes, each     *)
(* with the files its release embeds, run the migrations of one database   *)
(* at the same time, fail at any call, crash and try again.                *)
(*                                                                         *)
(* External is PostgreSQL: a transaction takes effect at its commit or not *)
(* at all; an INSERT of a primary key waits for another transaction that   *)
(* holds the same key and fails when the key is there; any call may return *)
(* an error, a Commit also after it took effect; the transaction of a      *)
(* process that dies is rolled back.                                       *)
(***************************************************************************)
EXTENDS Integers

CONSTANTS
  Migrators,    \* the processes
  N,            \* how many versions there are in all; 1 .. N is their
                \* alphabetical order, the order of sort.Strings
  Contents,     \* what a file may contain; equal checksums, equal contents
  None,         \* no content: no such file, or no such row
  Embedded      \* the files of each process's release

Versions == 1 .. N

ASSUME NAssumption == N \in Nat
ASSUME NoneAssumption == None \notin Contents
ASSUME EmbeddedAssumption == Embedded \in [Migrators -> [Versions -> Contents \union {None}]]

VARIABLES
  pc,           \* where each process is in Migrate
  at,           \* the version its applyMigration is about
  record,       \* the rows of schema_migrations: the content of each version
  executed      \* history: how often the SQL of each version took effect

vars == <<pc, at, record, executed>>
db == <<record, executed>>

Running == {"lookup", "begin", "execute", "insert", "commit"}
Resting == {"idle", "ok", "failed"}

Init ==
  /\ pc = [p \in Migrators |-> "idle"]
  /\ at = [p \in Migrators |-> 0]
  /\ record = [v \in Versions |-> None]
  /\ executed = [v \in Versions |-> 0]
-----------------------------------------------------------------------------
Has(p, v) == Embedded[p][v] # None

\* A loop bound that is one too far.
AdvanceTooFar(p, k) ==
  /\ pc' = [pc EXCEPT ![p] = IF k > N THEN "ok" ELSE "lookup"]
  /\ at' = [at EXCEPT ![p] = k + 1]

\* applyMigration returns nil for every version up to k: the loop of
\* runMigrations goes on with the next file, or Migrate returns nil.
Advance(p, k) ==
  \/ /\ \A v \in Versions : v > k => ~ Has(p, v)
     /\ pc' = [pc EXCEPT ![p] = "ok"]
     /\ UNCHANGED at
  \/ \E n \in Versions :
       /\ n > k /\ Has(p, n)
       /\ \A v \in Versions : k < v /\ v < n => ~ Has(p, v)
       /\ pc' = [pc EXCEPT ![p] = "lookup"]
       /\ at' = [at EXCEPT ![p] = n]

Go(p, from, to) ==
  /\ pc[p] = from
  /\ pc' = [pc EXCEPT ![p] = to]
  /\ UNCHANGED <<at, db>>

\* The status check, the tracking table, the sorted list of files.
StartMigrate(p) ==
  /\ pc[p] \in Resting
  /\ Advance(p, 0)
  /\ UNCHANGED db

StartFails(p) ==
  /\ pc[p] \in Resting
  /\ pc' = [pc EXCEPT ![p] = "failed"]
  /\ UNCHANGED <<at, db>>

\* Any row will do.
ChecksumIgnored(p) ==
  /\ pc[p] = "lookup"
  /\ record[at[p]] # None
  /\ Advance(p, at[p])
  /\ UNCHANGED db

\* The row exists: the checksums agree, or Migrate fails.
AlreadyApplied(p) ==
  /\ pc[p] = "lookup"
  /\ record[at[p]] # None
  /\ IF record[at[p]] = Embedded[p][at[p]]
     THEN Advance(p, at[p])
     ELSE pc' = [pc EXCEPT ![p] = "failed"] /\ UNCHANGED at
  /\ UNCHANGED db

\* There is no row.
NotApplied(p) == Go(p, "lookup", "begin") /\ record[at[p]] = None

\* The query fails: the code does not tell this from a missing row.
LookupFails(p) == Go(p, "lookup", "begin")

BeginTx(p) == Go(p, "begin", "execute")

ExecuteSQL(p) == Go(p, "execute", "insert")

\* Some other open transaction has inserted the same version.
KeyHeld(p) == \E q \in Migrators \ {p} : pc[q] = "commit" /\ at[q] = at[p]

\* A table without the primary key.
InsertAnyway(p) == Go(p, "insert", "commit")

\* Recorded through the pool instead of the transaction.
InsertOutsideTx(p) ==
  /\ pc[p] = "insert"
  /\ record[at[p]] = None
  /\ record' = [record EXCEPT ![at[p]] = Embedded[p][at[p]]]
  /\ pc' = [pc EXCEPT ![p] = "commit"]
  /\ UNCHANGED <<at, executed>>

InsertRecord(p) == Go(p, "insert", "commit") /\ ~ KeyHeld(p) /\ record[at[p]] = None

InsertConflictRetried(p) == Go(p, "insert", "lookup") /\ ~ KeyHeld(p) /\ record[at[p]] # None

InsertConflicts(p) == Go(p, "insert", "failed") /\ ~ KeyHeld(p) /\ record[at[p]] # None

\* What the commit makes visible at once: the SQL's effects and the row.
Committed(p) ==
  /\ record' = [record EXCEPT ![at[p]] = Embedded[p][at[p]]]
  /\ executed' = [executed EXCEPT ![at[p]] = @ + 1]

CommitTx(p) ==
  /\ pc[p] = "commit"
  /\ Committed(p)
  /\ Advance(p, at[p])

\* The commit took effect, and its answer was lost.
CommitAnswerLost(p) ==
  /\ pc[p] = "commit"
  /\ Committed(p)
  /\ pc' = [pc EXCEPT ![p] = "failed"]
  /\ UNCHANGED at

\* The error is logged, and the loop goes on.
FailureSkipped(p) == pc[p] \in Running \ {"lookup"} /\ Advance(p, at[p]) /\ UNCHANGED db

\* An error is returned and the deferred Rollback undoes the transaction.
CallFails(p) == \E from \in Running \ {"lookup"} : Go(p, from, "failed")

\* The process dies, which also undoes it.
Crash(p) == \E from \in Running : Go(p, from, "idle")
-----------------------------------------------------------------------------
Progress(p) ==
  \/ AlreadyApplied(p) \/ NotApplied(p) \/ LookupFails(p)
  \/ BeginTx(p)
  \/ ExecuteSQL(p)
  \/ InsertRecord(p) \/ InsertConflicts(p)
  \/ CommitTx(p) \/ CommitAnswerLost(p)

Next ==
  \E p \in Migrators :
    StartMigrate(p) \/ StartFails(p) \/ Progress(p) \/ CallFails(p) \/ Crash(p)

Spec == Init /\ [][Next]_vars

\* Every call of the driver returns, but no call has to fail, so that nobody
\* gets out of a wait by an error.  PostgreSQL wakes the transactions that
\* wait for a key, so an INSERT is not passed over for ever.
FairSpec == Spec /\ \A p \in Migrators :
  /\ WF_vars(Progress(p))
  /\ SF_vars(InsertRecord(p) \/ InsertConflicts(p))
-----------------------------------------------------------------------------
(* Every variable keeps its type.                                          *)
TypeOK ==
  /\ pc \in [Migrators -> Running \union Resting]
  /\ at \in [Migrators -> 0 .. N]
  /\ record \in [Versions -> Contents \union {None}]
  /\ executed \in [Versions -> Nat]

(* However many processes run, fail, crash and retry, and whatever their   *)
(* look-ups return, a version's SQL took effect exactly once if it is      *)
(* recorded and never if it is not.                                        *)
AppliedExactlyOnce ==
  \A v \in Versions : executed[v] = IF record[v] = None THEN 0 ELSE 1

AppliedUpTo(p, k) ==
  \A v \in Versions : v <= k /\ Has(p, v) => record[v] = Embedded[p][v]

(* When Migrate returned nil, the database has every migration of that     *)
(* release with exactly the content the release embeds.                    *)
SuccessIsComplete == \A p \in Migrators : pc[p] = "ok" => AppliedUpTo(p, N)

(* Every recorded version was applied in the alphabetical order of some    *)
(* release: that release's earlier files were all applied as it has them.  *)
AppliedInOrder ==
  \A v \in Versions : record[v] # None =>
    \E p \in Migrators : record[v] = Embedded[p][v] /\ AppliedUpTo(p, v)

(* A run of Migrate ends: no two transactions wait for each other.         *)
EveryRunEnds == \A p \in Migrators : pc[p] \in Running ~> pc[p] \in Resting

(* The migrator keeps the promise of MigrationHistory.                     *)
History == INSTANCE MigrationHistory WITH history <- record, effects <- executed
KeepsHistory == History!Spec
-----------------------------------------------------------------------------
(* migrate.go:124, "Migration not applied yet (ignore "no rows" error)":   *)
(* the migration is taken for pending only when its row is missing.        *)
OnlyPendingGoOn ==
  [][\A p \in Migrators :
       pc[p] = "lookup" /\ pc'[p] = "begin" => record[at[p]] = None]_vars
=============================================================================
