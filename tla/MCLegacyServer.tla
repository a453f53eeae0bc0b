--------------------------- MODULE MCLegacyServer ----------------------------
(***************************************************************************)
(* LegacyServer for TLC: three clients, a pool of two threads, a file of   *)
(* up to three units copied two at a time.                                 *)
(***************************************************************************)
EXTENDS LegacyServer

CONSTANTS c1, c2, c3

MCClients == {c1, c2, c3}

Ask(method, url, auth) == [method |-> method, url |-> url, auth |-> auth]
Get(url) == Ask("GET", url, TRUE)

\* What the three clients ask for.
All(a, b, c) == [x \in MCClients |-> IF x = c1 THEN a ELSE IF x = c2 THEN b ELSE c]

Files == All(Get("file"), Get("missing"), Get("file"))
Programs == All(Ask("POST", "/cgi-bin/", TRUE), Get("/cgi-bin/"), Get("file"))
Pages == All(Get("dir/"), Get("/stats"), Get("/logs"))
Refusals == All(Ask("GET", "file", FALSE), Ask("PUT", "file", TRUE), Get("dir"))
Strangers == [x \in MCClients |-> Ask("GET", "file", FALSE)]

Scenario(m, r, cs) == [mode |-> m, limit |-> Cardinality(cs) + 1, file |-> 3,
                       request |-> r, clients |-> cs]

\* The three have more connections than the process descriptors.
Crowded(s) == [s EXCEPT !.limit = 2]

\* Three clients wherever the handlers run one after the other or are short,
\* two where long ones interleave; a file is copied by a process on its own.
MCScenarios ==
  {Scenario("i", r, MCClients) : r \in {Files, Programs, Pages, Refusals}}
    \cup {Scenario(m, Strangers, MCClients) : m \in {"f", "p", "x"}}
    \cup {Crowded(Scenario("t", Strangers, MCClients))}
    \cup {Scenario("t", Files, {c1, c2}), Scenario("f", Files, {c1})}
    \cup {Scenario(m, r, {c1, c2}) : m \in {"f", "t", "p"}, r \in {Programs, Pages, Refusals}}

=============================================================================
