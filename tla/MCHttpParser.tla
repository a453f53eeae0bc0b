---------------------------- MODULE MCHttpParser -----------------------------
(***************************************************************************)
(* HttpParser for TLC: requests of every verdict, with bodies of the       *)
(* declared length, of header sizes below, at and above the limit.         *)
(***************************************************************************)
EXTENDS HttpParser

Msg(l, f, n) == [line |-> l, fields |-> f, body |-> n]

MCMessages == {
  Msg("get10", <<>>, 0),
  Msg("get10", <<"length_1">>, 1),
  Msg("get10", <<"host_empty", "keep_alive">>, 0),
  Msg("get11", <<>>, 0),
  Msg("get11", <<"host">>, 0),
  Msg("get11", <<"host_empty">>, 0),
  Msg("get11", <<"host", "length_0">>, 0),
  Msg("get11", <<"host", "length_2">>, 2),
  Msg("get11", <<"host", "length_3">>, 3),
  Msg("get11", <<"host", "length_bad">>, 0),
  Msg("get11", <<"host", "chunked">>, 0),
  Msg("get11", <<"host", "host">>, 0),
  Msg("get11", <<"host", "bad_field">>, 0),
  Msg("get11", <<"chunked", "length_1", "host">>, 1),
  Msg("get11", <<"host", "close", "keep_alive">>, 0),
  Msg("get11", <<"length_2", "other", "host">>, 2),
  Msg("get11", <<"host", "close", "other", "keep_alive">>, 0),
  Msg("get11", [k \in 1..8 |-> "other"], 0),
  Msg("bad_line", <<"host">>, 0)}

\* One request whose header block is as long as the limit allows.
LongestMessage == {Msg("get11", <<"host">>, 0)}
==============================================================================
