-------------------------- MODULE MigrationHistory --------------------------
(***************************************************************************)
(* What a forward-only migration system promises about a database, with no *)
(* word about processes, look-ups, transactions or failures: a version     *)
(* takes effect and is recorded in one step, once, and stays recorded with *)
(* the content that took effect.                                           *)
(*                                                                         *)
(* Migrator.tla implements this specification (see History there).         *)
(***************************************************************************)
EXTENDS Naturals

CONSTANTS
  Versions,     \* the versions that any release may contain
  Contents,     \* what a migration file may contain
  None          \* no content: the version is not recorded

VARIABLES
  history,      \* the content recorded for each version
  effects       \* how often each version took effect

vars == <<history, effects>>

Init ==
  /\ history = [v \in Versions |-> None]
  /\ effects = [v \in Versions |-> 0]

Apply(v, c) ==
  /\ history[v] = None
  /\ history' = [history EXCEPT ![v] = c]
  /\ effects' = [effects EXCEPT ![v] = @ + 1]

Next == \E v \in Versions, c \in Contents : Apply(v, c)

Spec == Init /\ [][Next]_vars
=============================================================================
