----------------------------- MODULE MCCommandLine -----------------------------
(* CommandLine over an application, its dependency and a provider of x. *)
EXTENDS CommandLine, TLC

CONSTANTS a, b, c, x, y, v, c1, c2

MCNames    == {a, b, c}
MCVirtuals == {x, y}
On(n)      == [base |-> n, version |-> Unversioned]
MCWorld ==
  [present  |-> MCNames,
   version  |-> [n \in MCNames |-> v],
   depends  |-> [n \in MCNames |-> IF n = a THEN {On(b)} ELSE {}],
   provides |-> [n \in MCNames |-> IF n = c THEN {On(x)} ELSE {}],
   explicit |-> {a, c},
   broken   |-> {},
   first    |-> [n \in MCNames \cup MCVirtuals |-> IF n = x THEN c ELSE NoName],
   full     |-> TRUE]

Arguments(given, name, yes, orphans) ==
  [given |-> given, name |-> name, yes |-> yes, orphans |-> orphans]

\* Removals with and without a prompt and the new orphans; names that are used, only
\* provided and unknown; other commands; two options at once.  Beside it, a removal
\* without a prompt.
FirstLines ==
  [{c1} ->
    {Arguments({"remove"}, a, yes, ~ yes) : yes \in BOOLEAN}
      \cup {Arguments({"remove"}, n, TRUE, FALSE) : n \in {b, x, y}}
      \cup {Arguments({"dry_run"}, n, FALSE, FALSE) : n \in {a, x}}
      \cup {Arguments({"orphans", "dry_run"}, a, FALSE, FALSE), Arguments({}, a, FALSE, FALSE)}]
MCLines == {l @@ c2 :> Arguments({"remove"}, a, TRUE, TRUE) : l \in FirstLines}
=============================================================================
