---------------------------- MODULE MCConnection -----------------------------
(***************************************************************************)
(* Connection for TLC.                                                     *)
(***************************************************************************)
EXTENDS Connection

Request(v, c) == [kind |-> "request", version |-> v, connection |-> c]

\* A request that keeps the connection and one that does not.
TwoRequests == {Request("HTTP/1.1", {}), Request("HTTP/1.1", {"close"})}

AllRequests == {Request(v, c) : v \in {"HTTP/1.0", "HTTP/1.1"},
                                c \in SUBSET {"close", "keep-alive"}}
==============================================================================
