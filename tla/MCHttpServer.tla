---------------------------- MODULE MCHttpServer -----------------------------
(***************************************************************************)
(* HttpServer for TLC.  Two ways in which a connection can end are enough  *)
(* to tell the per-reason counters apart; the request counts differ so     *)
(* that their sum shows which results were added.                          *)
(***************************************************************************)
EXTENDS HttpServer, TLC

MCOneResult == {[reason |-> "peer_closes", requests_served |-> 1]}

MCResults == {[reason |-> "peer_closes", requests_served |-> 0],
              [reason |-> "explicit_closes", requests_served |-> 2]}

Symmetry ==
  Permutations(Clients) \cup Permutations(Workers) \cup Permutations(Requesters)
==============================================================================
