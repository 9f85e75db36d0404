------------------------------ MODULE MCServer ------------------------------
(* The server with the routes of the modules it registers.  TLC explores   *)
(* two kinds of runs: registrations in every order without a server, and   *)
(* a server after them.                                                    *)
EXTENDS Server, RouteGroups, TLC

MCInit ==
  /\ Init /\ GroupsInit
  /\ env["corsOrigins"] = Unset \/ (env["maxConns"] = Unset /\ env["corsOrigins"] = Empty)

\* BOUND: one of the requests is for a route with middleware of its own, and its
\* client stays; without CORS the other does not come.
Own == CHOOSE q \in Requests : TRUE
MCRoutes ==
  /\ client'[Own]
  /\ \A q \in Requests : chain[q] = <<>> /\ chain'[q] # <<>> =>
       /\ (\E i \in DOMAIN chain'[q] : chain'[q][i] = "own") <=> q = Own
       /\ env["corsOrigins"] = Empty => q = Own

MCNext ==
  \/ Next /\ UNCHANGED groupVars /\ groups = <<>> /\ MCRoutes
  \/ Register /\ phase = "database" /\ env["maxConns"] = Bad /\ UNCHANGED vars

MCGlobal == <<"cors">> \o MainMiddleware
MCLists == {<<>>, <<"a">>, <<"b">>, <<"b", "c">>}
MCSettings == {Unset, Empty, Bad, Zero}

MCSpec ==
  /\ MCInit /\ [][MCNext]_<<vars, groupVars>>
  /\ WF_vars(OpenDatabase) /\ WF_vars(MakeHandler) /\ WF_vars(StartServer) /\ WF_vars(Notify)
  /\ WF_vars(Stopping)
  /\ \A q \in Requests : WF_vars(StatementEnds(q) /\ UNCHANGED processVars)
=============================================================================
