----------------------------- MODULE MCGenerator -----------------------------
(* Two tables with a package each.                                         *)
EXTENDS Generator

MCLayerRequests == {{"repository", "store", "bridge"}, {"store"}}
MCPackage == [a |-> "p", b |-> "q"]

\* Table a gets a column with a foreign key on it, and then loses another column.
\* What is read across the first migration is refused, across the second it is not.
Version(columns, foreign) == [columns |-> columns, key |-> "id", foreign |-> foreign]
MCHistory ==
  LET a == <<Version({"id", "x"}, {}), Version({"id", "x", "y"}, {"y"}), Version({"id", "y"}, {"y"})>>
  IN [a |-> a, b |-> a]

\* BOUND: one table changes, it alone is asked for by -table, its store.go is the
\* file that is edited, and -force comes without -layers.
MCFew ==
  /\ schema'["b"] = 1
  /\ generator = Idle => generator'.todo # {"b"}
  /\ generator'.force => generator'.layers # {"store"}
  /\ \A f \in HandFiles : disk'[f] = Edited => f = <<"p", "store", "store.go">>

\* TLC leaves out orders that make no difference.  A migration is seen only by
\* the queries about its table, and may wait for the next of them.  A reflection
\* that queries meets neither the JSON file nor the disk: it may query before or
\* after a run of generate or an edit.  Once the tables are loaded, a run of
\* generate meets neither the database nor the JSON file, and a reflection that
\* is not through by then may write after it.  GetTables sorts the tables by name.
ToRead == TableNames \ DOMAIN reflector.read
Querying == reflector.at \in {"key", "foreign"} \/ (reflector.at = "columns" /\ ToRead # {})
AskedNext == IF reflector.at = "columns" /\ "a" \in ToRead THEN "a" ELSE reflector.table
MCStep ==
  /\ Next /\ MCFew
  /\ schema' # schema => AskedNext = "a"
  /\ reflector'.table = "b" => "a" \notin ToRead
  /\ Querying' => generator' = Idle /\ disk' = disk
  /\ generator'.at \notin {"idle", "load"} =>
       reflector = NothingRead /\ UNCHANGED <<schema, json, reflector>>

MCSpec == Init /\ [][MCStep]_vars
=============================================================================
