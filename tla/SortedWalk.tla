----------------------------- MODULE SortedWalk -----------------------------
(***************************************************************************)
(* What walking the pages of a list promises while the list changes: the   *)
(* reader advances through the sort order and is shown, turn by turn, all  *)
(* that the list holds between where it was and where it gets to; in the   *)
(* end all that is left.  Nothing is skipped, nothing comes twice.         *)
(*                                                                         *)
(* A place in the order is a pair of a stamp and a key.                    *)
(***************************************************************************)
EXTENDS Integers

CONSTANT NoPlace  \* the place of a reader who has not begun

VARIABLES
  list,       \* the places that are taken at the moment
  ascending,  \* the direction of the walk
  place,      \* how far the reader is
  shown,      \* history: what the reader was shown
  finished    \* has the reader seen the end?

Less(a, b) == a[1] < b[1] \/ (a[1] = b[1] /\ a[2] < b[2])
Ahead(p, q) == IF ascending THEN Less(p, q) ELSE Less(q, p)
Remaining == {q \in list : place = NoPlace \/ Ahead(place, q)}

Init == place = NoPlace /\ shown = {} /\ finished = FALSE

Turn(p) ==
  /\ p \in Remaining
  /\ place' = p
  /\ shown' = shown \union {q \in Remaining : ~ Ahead(p, q)}
  /\ UNCHANGED finished

Finish ==
  /\ shown' = shown \union Remaining
  /\ finished' = TRUE
  /\ UNCHANGED place

\* A turn reads the list as it is; between turns the list may change at will.
Next ==
  \/ /\ ~ finished
     /\ (\E p \in list : Turn(p)) \/ Finish
     /\ UNCHANGED <<list, ascending>>
  \/ place = NoPlace /\ shown = {} /\ ~ finished /\ UNCHANGED <<place, shown, finished>>
  \/ UNCHANGED <<ascending, place, shown, finished>>

Spec == Init /\ [][Next]_<<list, ascending, place, shown, finished>>
=============================================================================
