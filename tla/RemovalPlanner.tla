---------------------------- MODULE RemovalPlanner ----------------------------
(***************************************************************************)
(* RemovalPlanner.build_plan() over one snapshot: analyze() refuses what   *)
(* is missing, finds what is blocked, and simulates the removal in         *)
(* _orphans_after(), which iterates over sets (in any order) to a fixpoint *)
(* while it changes the set it is computing.  Single-threaded and pure:    *)
(* the choices are the snapshot, the request and the iteration order.      *)
(***************************************************************************)
EXTENDS PackageSnapshot

CONSTANTS
  Worlds,    \* bound: the snapshots considered
  Requests   \* bound: the sets of targets considered

ASSUME WorldsOK ==
  /\ Worlds \subseteq Snapshots
  /\ \A s \in Worlds : IndexOK(s) /\ FallbackOK(s)
  /\ Requests \subseteq SUBSET Bases

VARIABLES
  snapshot,   \* the packages the planner was made from
  targets,    \* the argument `targets`
  optIn,      \* the argument `also_remove_new_orphans`
  pc,
  blocked,    \* RemovalImpact.blocked_by, as the set of all blockers
  removed,    \* `removed` of _orphans_after()
  changed,    \* `changed` of _orphans_after()
  frontier,   \* names of the list `frontier` still to visit
  deps,       \* dependencies of the current name still to visit
  kept,       \* RemovalImpact.kept_shared: the names it has as keys
  outcome,    \* how build_plan() ends
  cascade     \* RemovalPlan.cascade

inputVars == <<snapshot, targets, optIn>>
loopVars  == <<removed, changed, frontier, deps>>
vars == <<inputVars, pc, blocked, loopVars, kept, outcome, cascade>>

TypeOK ==
  /\ snapshot \in Worlds
  /\ targets \in SUBSET Bases
  /\ optIn \in BOOLEAN
  /\ pc \in {"missing", "blocked", "pass", "names", "deps", "freeze", "done"}
  /\ blocked \in SUBSET Names
  /\ removed \in SUBSET Names
  /\ changed \in BOOLEAN
  /\ frontier \in SUBSET Names
  /\ deps \in SUBSET Tokens
  /\ kept \in SUBSET Names
  /\ outcome \in {"none", "planned", "PackageNotFound", "KeyError", "DependencyBlocked"}
  /\ cascade \in SUBSET Names

Init ==
  /\ snapshot \in Worlds
  /\ targets \in Requests
  /\ optIn \in BOOLEAN
  /\ pc = "missing"
  /\ blocked = {}
  /\ removed = {}
  /\ changed = FALSE
  /\ frontier = {}
  /\ deps = {}
  /\ kept = {}
  /\ outcome = "none"
  /\ cascade = {}

Raise(error) ==
  /\ pc' = "done"
  /\ outcome' = error

-----------------------------------------------------------------------------
\* A target that get() does not know is missing.
CheckMissing ==
  /\ pc = "missing"
  /\ IF \E t \in targets : Get(snapshot, t) = NoName
     THEN Raise("PackageNotFound")
     ELSE pc' = "blocked" /\ UNCHANGED outcome
  /\ UNCHANGED <<inputVars, blocked, loopVars, kept, cascade>>

\* Mutant of FindBlockers: the users of a target are not looked at.
FindNoBlockers ==
  /\ pc = "blocked"
  /\ IF \E t \in targets : t \notin snapshot.present
     THEN /\ Raise("KeyError")
          /\ UNCHANGED <<blocked, removed, changed>>
     ELSE /\ blocked' = {}
          /\ removed' = targets
          /\ changed' = TRUE
          /\ pc' = "pass"
          /\ UNCHANGED outcome
  /\ UNCHANGED <<inputVars, frontier, deps, kept, cascade>>

\* Mutant of FindBlockers: by_name.get(target) in place of by_name[target].
FindUnknownTargets ==
  /\ pc = "blocked"
  /\ blocked' = {u \in snapshot.present \ targets :
                 \E t \in targets \cap snapshot.present : u \in RequiredBy(snapshot, t)}
  /\ removed' = targets
  /\ changed' = TRUE
  /\ pc' = "pass"
  /\ UNCHANGED <<inputVars, frontier, deps, kept, outcome, cascade>>

\* by_name[target], for a target that only get() knows, is a KeyError.  Users of
\* a target that are not targets themselves block it.  Then the simulation starts.
FindBlockers ==
  /\ pc = "blocked"
  /\ IF \E t \in targets : t \notin snapshot.present
     THEN /\ Raise("KeyError")
          /\ UNCHANGED <<blocked, removed, changed>>
     ELSE /\ blocked' = {u \in snapshot.present \ targets :
                         \E t \in targets : u \in RequiredBy(snapshot, t)}
          /\ removed' = targets
          /\ changed' = TRUE
          /\ pc' = "pass"
          /\ UNCHANGED outcome
  /\ UNCHANGED <<inputVars, frontier, deps, kept, cascade>>

\* Mutant of StartPass: the loop does not ask whether the last pass changed anything.
StartPassAlways ==
  /\ pc = "pass"
  /\ pc' = "names"
  /\ frontier' = removed
  /\ changed' = FALSE
  /\ UNCHANGED <<inputVars, blocked, removed, deps, kept, outcome, cascade>>

\* while changed: changed = False, frontier = list(removed).
StartPass ==
  /\ pc = "pass"
  /\ IF changed
     THEN /\ pc' = "names"
          /\ frontier' = removed
          /\ changed' = FALSE
     ELSE /\ pc' = "freeze"
          /\ UNCHANGED <<frontier, changed>>
  /\ UNCHANGED <<inputVars, blocked, removed, deps, kept, outcome, cascade>>

\* for name in frontier.
VisitName ==
  /\ pc = "names"
  /\ \/ /\ frontier = {}
        /\ pc' = "pass"
        /\ UNCHANGED <<frontier, deps>>
     \/ \E n \in frontier :
          /\ frontier' = frontier \ {n}
          /\ deps' = IF n \in Readable(snapshot) THEN snapshot.depends[n] ELSE {}
          /\ pc' = "deps"
  /\ UNCHANGED <<inputVars, blocked, removed, changed, kept, outcome, cascade>>

\* Mutant of VisitDependency: `changed` is not set.
VisitUnnoticed ==
  /\ pc = "deps"
  /\ \/ /\ deps = {}
        /\ pc' = "names"
        /\ UNCHANGED <<removed, deps>>
     \/ \E d \in deps :
          LET dep == Get(snapshot, d.base) IN
          /\ deps' = deps \ {d}
          /\ removed' = IF LosesLastUser(snapshot, dep, removed)
                        THEN removed \cup {dep} ELSE removed
          /\ UNCHANGED pc
  /\ UNCHANGED <<inputVars, blocked, changed, frontier, kept, outcome, cascade>>

\* for depstring in pkg.depends: a package installed as a dependency whose
\* users are all removed is removed too.
VisitDependency ==
  /\ pc = "deps"
  /\ \/ /\ deps = {}
        /\ pc' = "names"
        /\ UNCHANGED <<removed, changed, deps>>
     \/ \E d \in deps :
          LET dep == Get(snapshot, d.base) IN
          /\ deps' = deps \ {d}
          /\ IF /\ dep # NoName
                /\ dep \notin removed
                /\ dep \notin snapshot.explicit
                /\ RequiredBy(snapshot, dep) \ removed = {}
             THEN removed' = removed \cup {dep} /\ changed' = TRUE
             ELSE UNCHANGED <<removed, changed>>
          /\ UNCHANGED pc
  /\ UNCHANGED <<inputVars, blocked, frontier, kept, outcome, cascade>>

\* Dependencies of the targets that stay, with users other than the targets.
KeptShared(s, goal, orphans) ==
  {p \in s.present \ (goal \cup orphans) :
     /\ \E t \in goal \ s.broken : \E d \in s.depends[t] : Get(s, d.base) = p
     /\ RequiredBy(s, p) \ goal # {}}

\* analyze() returns the impact; build_plan() refuses a blocked one and takes
\* the new orphans into the plan only if asked to.
Freeze ==
  /\ pc = "freeze"
  /\ kept' = KeptShared(snapshot, targets, removed \ targets)
  /\ IF blocked # {}
     THEN Raise("DependencyBlocked") /\ UNCHANGED cascade
     ELSE Raise("planned") /\ cascade' = IF optIn THEN removed \ targets ELSE {}
  /\ UNCHANGED <<inputVars, blocked, loopVars>>

Next ==
  \/ CheckMissing \/ FindBlockers
  \/ StartPass \/ VisitName \/ VisitDependency
  \/ Freeze

Spec == Init /\ [][Next]_vars

\* One thread runs the planner to its end.
FairSpec == Spec /\ WF_vars(Next)

-----------------------------------------------------------------------------
(* Properties. *)

\* A plan made from full data, with or without the new orphans, leaves every
\* dependency of every package that stays satisfied, although the planner misses
\* what unreadable packages need and provide: only a target that is unreadable
\* itself hides its users.
PlanBreaksNothing ==
  outcome = "planned" /\ snapshot.full /\ targets \cap snapshot.broken = {} =>
    \A q \in snapshot.present \ (targets \cup cascade) :
      StillWorks(snapshot, q, targets \cup cascade)

\* Whatever order _orphans_after() visits names and dependencies in, and
\* although it adds to the set it iterates over, it ends with the least set
\* that holds the targets and every dependency that loses its last user.  What
\* a dependency string stands for is what get() says it does: this is about the
\* loop, and FirstProviderIsHarmless is about get().
RemovedIsLeastClosure ==
  pc = "freeze" =>
    /\ OrphanClosed(snapshot, removed)
    /\ \A S \in SUBSET Names :
         targets \subseteq S /\ OrphanClosed(snapshot, S) => removed \subseteq S

\* planner.py: that get() takes the first provider of a base name is never
\* safety-critical, at worst a package is shown as kept.  So what goes with the
\* targets is what something that goes depended on.
FirstProviderIsHarmless ==
  outcome = "planned" =>
    \A q \in cascade : Users(snapshot, q) \cap (targets \cup (cascade \ {q})) # {}

\* build_plan() ends: the fixpoint loop is not fed for ever by its own additions.
PlanningEnds == <>(pc = "done")
=============================================================================
