--------------------------- MODULE GracefulServer ---------------------------
(***************************************************************************)
(* What the web process promises to those who send it requests, with no    *)
(* word about middleware, connections, channels or signals.  Its door is   *)
(* open while requests may come in; it opens once and closes for good.  A  *)
(* request that came in is worked out once and answered once, and is told  *)
(* of a success only if it had one.  Only the end of the process drops a   *)
(* request, and an end with code 0 drops none.                             *)
(*                                                                         *)
(* Server.tla implements this specification (see Promise there).           *)
(***************************************************************************)
EXTENDS Integers

CONSTANT
  Requests      \* the requests that may come

VARIABLES
  door,         \* "new" until it opens; a door that is closed stays so
  fate,         \* what became of each request
  code          \* what the process ended with, Running before

vars == <<door, fate, code>>

Running == -1
Codes == 0 .. 2

Unsettled == {"working", "good", "bad"}     \* good, bad: worked out, not answered yet
Answers == {"success", "failure", "unheard"}  \* unheard: the client had left
Fates == {"none", "dropped"} \union Unsettled \union Answers

TypeOK ==
  /\ door \in {"new", "open", "closed"}
  /\ fate \in [Requests -> Fates]
  /\ code \in Codes \union {Running}

Init ==
  /\ door = "new"
  /\ fate = [q \in Requests |-> "none"]
  /\ code = Running

Open ==
  /\ code = Running /\ door = "new"
  /\ door' = "open"
  /\ UNCHANGED <<fate, code>>

Close ==
  /\ code = Running /\ door # "closed"
  /\ door' = "closed"
  /\ UNCHANGED <<fate, code>>

\* From one fate of a request to the next.
Turns(q, from, to) ==
  /\ code = Running /\ fate[q] = from
  /\ fate' = [fate EXCEPT ![q] = to]
  /\ UNCHANGED <<door, code>>

Accept(q) == door = "open" /\ Turns(q, "none", "working")

WorkOut(q) == Turns(q, "working", "good") \/ Turns(q, "working", "bad")

\* A result that is good may still fail to be sent.
Answer(q) ==
  \/ \E answer \in Answers : Turns(q, "good", answer)
  \/ \E answer \in Answers \ {"success"} : Turns(q, "bad", answer)

\* One request is a step further.
Moves(q) == fate'[q] # fate[q] /\ (Accept(q) \/ WorkOut(q) \/ Answer(q))

End ==
  /\ code = Running
  /\ code' \in Codes
  /\ door' = "closed"
  /\ fate' = [q \in Requests |-> IF fate[q] \in Unsettled THEN "dropped" ELSE fate[q]]
  /\ code' = 0 => door = "closed" /\ fate' = fate

Next ==
  \/ Open \/ Close \/ End
  \/ \E q \in Requests : Moves(q)

Spec == Init /\ [][Next]_vars
=============================================================================
