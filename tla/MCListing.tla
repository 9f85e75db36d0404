----------------------------- MODULE MCListing ------------------------------
(* Walks of several pages over a small table of tasks, with and without a  *)
(* change in between; and one row of every entity, seen by each of its     *)
(* columns.                                                                *)
EXTENDS Listing, GeneratedCode

MCOrders ==
  {[field |-> "created_at", direction |-> "asc"], [field |-> "created_at", direction |-> "desc"],
   [field |-> "updated_at", direction |-> "none"], [field |-> "priority", direction |-> "bad"],
   [field |-> "priority", direction |-> "none"]}

SmallTables(keys, times, values) ==
  LET Rows(S, created) == {Row(k, created[k], 1, value) : k \in S, value \in values}
  IN UNION {{Rows(S, created) : created \in [S -> times]} : S \in SUBSET keys}

MCLong ==
  entity = "tasks" /\ column = "priority" /\ rows \in SmallTables(Keys, Times, {1})

MCWide ==
  /\ entity \in DOMAIN Layers /\ column \in Plain(entity)
  /\ rows \in SmallTables({1}, {1}, {1}) \union SmallTables({1}, {1}, {Null})

MCInit == (MCLong \/ MCWide) /\ Init0

\* BOUND: the one row changes only while nobody lists it.
MCStep == Step /\ (<<entity, column>> # <<"tasks", "priority">> => phase' = "idle" \/ writes' = 0)

MCSpec == MCInit /\ [][MCStep]_vars

(* The four entities are shipped as the generators would write them from   *)
(* the migrations, although the field builders of three packages and two   *)
(* sets of type and column tests decide what is in them: the columns of    *)
(* every struct, statement, filter and parameter are those.                *)
ShippedIsGenerated == entity \in AsGenerated
=============================================================================
