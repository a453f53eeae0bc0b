---------------------------- MODULE MCStaticFile -----------------------------
(***************************************************************************)
(* StaticFile for TLC.  Targets are all those of up to four characters     *)
(* over a small alphabet, and some longer ones; files are shorter than,    *)
(* as long as and longer than the limit, in two versions.                  *)
(***************************************************************************)
EXTENDS StaticFile

\* / % . 2 f 0
Alphabet == {47, 37, 46, 50, 102, 48}

LongTargets == {
  <<47, 102, 63, 47>>,                      \* /f?/
  <<47, 46, 46, 47, 102>>,                  \* /../f
  <<47, 46, 46, 47, 83, 47, 102>>,          \* /../S/f
  <<47, 102, 47, 46, 46>>,                  \* /f/..
  <<47, 37, 50, 69, 37, 50, 101, 47, 102>>, \* /%2E%2e/f
  <<47, 102, 37, 50, 48, 102>>}             \* /f%20f

MCTargets ==
  {<<47>> \o t : t \in UNION {[1..n -> Alphabet] : n \in 0..3}} \cup LongTargets

\* The root /R/S.
MCRoot == <<<<82>>, <<83>>>>

File(version, n) == Object("regular", [i \in 1..n |-> version])

MCObjects ==
  {Absent, Directory, [File("a", 2) EXCEPT !.readable = FALSE]}
    \cup {File(v, n) : v \in {"a", "b"}, n \in 0..(MaxFileBytes + 1)}
==============================================================================
