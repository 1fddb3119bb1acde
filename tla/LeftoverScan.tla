------------------------------ MODULE LeftoverScan ------------------------------
(***************************************************************************)
(* LeftoverScanner.scan() for one application, with what its callers do    *)
(* before it: the analysis of a removal, the cleanup tab and the command   *)
(* line.  The owner index and the identities are read, then the rules run  *)
(* one after the other.  One thread; the choices are the system, the       *)
(* application and the identities at hand.                                 *)
(***************************************************************************)
EXTENDS LeftoverRules

CONSTANT Worlds  \* bound: the systems considered

ASSUME WorldsOK == Worlds \subseteq Systems

VARIABLES
  system,     \* the packages and the home
  app,        \* the application that is scanned for
  known,      \* packages whose identities are at hand
  pc,
  rules,      \* directories of the rules still to run
  candidates, \* what was found so far
  rating      \* rating[p]: Confidence of candidate p

inputVars == <<system, app, known>>
vars == <<inputVars, pc, rules, candidates, rating>>

Confidence == {"high", "medium", "low", "protected"}

\* ALL_RULES, then APP_DATA_RULES.
RuleOrder ==
  <<"config", "cache", "data", "state", "autostart", "applications", "units", "profiles">>

TypeOK ==
  /\ system \in Systems
  /\ app \in Apps
  /\ known \in SUBSET Apps
  /\ pc \in {"read", "scan", "done", "failed"}
  /\ rules \in Seq(Areas)
  /\ candidates \in SUBSET system.home
  /\ rating \in [candidates -> Confidence]

Init ==
  /\ system \in Worlds
  /\ app \in Apps
  /\ known = {}
  /\ pc = "read"
  /\ rules = <<>>
  /\ candidates = {}
  /\ rating = <<>>

\* _fresh_oracle() and build_identity_index(); the cleanup tab uses what the window
\* has since its last refresh: nothing before the first one, and less than all when
\* packages came since.  The name on the command line may be no package's.
Read ==
  /\ pc = "read"
  /\ known' \in SUBSET Apps
  /\ pc' = "scan"
  /\ rules' = RuleOrder
  /\ UNCHANGED <<system, app, candidates, rating>>

\* The database cannot be read: DatabaseUnavailable.
Fail ==
  /\ pc = "read"
  /\ pc' = "failed"
  /\ UNCHANGED <<inputVars, rules, candidates, rating>>

\* Mutant of RunRule: what a rule finds is not evaluated.
RunRuleUnrated ==
  /\ pc = "scan"
  /\ rules # <<>>
  /\ rules' = Tail(rules)
  /\ candidates' =
       candidates \cup Discover(system, IdentityAt(system, known, app), Head(rules))
  /\ UNCHANGED <<inputVars, pc, rating>>

\* The next rule; what an earlier one found stays as it was rated.
RunRule ==
  /\ pc = "scan"
  /\ rules # <<>>
  /\ rules' = Tail(rules)
  /\ candidates' =
       candidates \cup Discover(system, IdentityAt(system, known, app), Head(rules))
  /\ rating' = [p \in candidates' |-> IF p \in candidates THEN rating[p]
                                      ELSE Rating(system, known, app, p)]
  /\ UNCHANGED <<inputVars, pc>>

\* out.sort(): the order is the window's affair.
Finish ==
  /\ pc = "scan"
  /\ rules = <<>>
  /\ pc' = "done"
  /\ UNCHANGED <<inputVars, rules, candidates, rating>>

Next == Read \/ Fail \/ RunRule \/ Finish

Spec == Init /\ [][Next]_vars

-----------------------------------------------------------------------------
(* Properties. *)

\* What a user may be shown with a box to check.
Offered == {p \in candidates : pc = "done" /\ rating[p] # "protected"}

\* The name of the application that a place was found by.
FoundAs(p, n) ==
  IF p.area \in DOMAIN Suffixes THEN \E s \in Suffixes[p.area] : p.name = n \o s
                                ELSE LowerName(p.name) = LowerName(n)

\* Names that package b really goes by, whatever its record says.
TrueNames(b) == CandidateNames(IdentityOf(system.record[b]))

\* Package b goes by the name that p was found by.
UsedBy(b, p) ==
  /\ p.area # "profiles"
  /\ \E n \in TrueNames(b) : FoundAs([p EXCEPT !.name = LowerName(@)], n)

\* A directory where a file is looked for, the drop-in directory of a unit, or a file
\* with a dot in its name where a directory is looked for: what the sharing veto asks
\* for is not the name the rule has found it by.
Inexact(p) ==
  IF p.area \in DOMAIN Suffixes THEN p.kind # "file" \/ Tail1(p.name) = <<"d">>
                                ELSE p.kind = "file" /\ Len(p.name) > 1

\* What another package also uses is not offered, unless the identity of that very
\* package is not at hand, its record could not be read, or the veto looks at another
\* name than the rule.
OnlyGapsInSharing ==
  \A p \in Offered : \A b \in Apps \ {app} :
    UsedBy(b, p) => Inexact(p) \/ b \notin known \/ ~ system.record[b].intact

\* A directory that is offered holds no place that would be found for another
\* package, but for the two that hold menu entries and autostart entries.
OnlyEntryDirectoriesHoldOthers ==
  \A p \in Offered : \A b \in Apps \ {app} : \A area \in Areas :
    \A q \in Discover(system, Identity(system, b), area) :
      AtOrBelow(PathOf(p), PathOf(q)) /\ p # q => p.name \in {Plain("autostart"), Plain("applications")}

\* Knowing the identities of more packages never offers more: sharing only vetoes.
VetoesAreMonotone ==
  \A p \in Offered : \A fewer \in SUBSET known :
    app \in known => Rating(system, fewer \cup {app}, app, p) # "protected"
=============================================================================
