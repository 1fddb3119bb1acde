------------------------- MODULE RemovalPlannerProofs -------------------------
(***************************************************************************)
(* Proofs about RemovalPlanner, for every snapshot: the types, that        *)
(* _orphans_after() computes the least closure whatever order it visits    *)
(* things in, and that a plan breaks no package that stays.                *)
(***************************************************************************)
EXTENDS RemovalPlanner, TLAPS

\* The parts of the snapshot have the types PackageSnapshot gives them.
LEMMA SnapshotParts ==
  ASSUME NEW s \in Worlds
  PROVE  /\ s.present \subseteq Names
         /\ s.broken \subseteq s.explicit
         /\ s.depends \in [Names -> SUBSET Tokens]
         /\ s.first \in [Bases -> Names \cup {NoName}]
<1>1. s \in Snapshots
  BY WorldsOK
<1> QED
  BY <1>1, WorldsOK DEF Snapshots, FallbackOK

\* get() returns an installed name or None, and libalpm names installed packages.
LEMMA LookupsAreNames ==
  ASSUME NEW s \in Worlds
  PROVE  /\ \A d \in Tokens : Get(s, d.base) \in Names \cup {NoName}
         /\ \A p : RequiredBy(s, p) \subseteq Names
         /\ \A n \in Names : s.depends[n] \subseteq Tokens
<1>1. \A d \in Tokens : Get(s, d.base) \in Names \cup {NoName}
  BY SnapshotParts DEF Get, Tokens
<1>2. \A p : RequiredBy(s, p) \subseteq Names
  BY SnapshotParts DEF RequiredBy, Users
<1>3. \A n \in Names : s.depends[n] \subseteq Tokens
  BY SnapshotParts
<1> QED
  BY <1>1, <1>2, <1>3

-----------------------------------------------------------------------------
\* TypeOK is inductive.  It is about every variable of RemovalPlanner.
THEOREM PlannerTypeCorrect == Spec => []TypeOK
<1>1. Init => TypeOK
  BY WorldsOK DEF Init, TypeOK
<1>2. TypeOK /\ [Next]_vars => TypeOK'
  <2> SUFFICES ASSUME TypeOK, [Next]_vars PROVE TypeOK'
    OBVIOUS
  <2> USE DEF TypeOK, Raise, inputVars, loopVars
  <2>0. snapshot.present \subseteq Names
    BY SnapshotParts
  <2>1. CASE CheckMissing
    BY <2>1 DEF CheckMissing
  <2>2. CASE FindBlockers
    <3>1. (\A t \in targets : t \in snapshot.present) => targets \subseteq Names
      BY <2>0
    <3> QED
      BY <2>0, <2>2, <3>1 DEF FindBlockers
  <2>3. CASE StartPass
    BY <2>3 DEF StartPass
  <2>4. CASE VisitName
    <3>1. \A n \in Names : snapshot.depends[n] \subseteq Tokens
      BY LookupsAreNames
    <3> QED
      BY <2>4, <3>1 DEF VisitName, Readable
  <2>5. CASE VisitDependency
    <3>1. CASE deps = {} /\ pc' = "names" /\ UNCHANGED <<removed, changed, deps>>
      BY <2>5, <3>1 DEF VisitDependency
    <3>2. ASSUME NEW d \in deps,
                 deps' = deps \ {d},
                 UNCHANGED pc,
                 \/ /\ Get(snapshot, d.base) # NoName
                    /\ removed' = removed \cup {Get(snapshot, d.base)}
                    /\ changed' = TRUE
                 \/ UNCHANGED <<removed, changed>>
          PROVE  TypeOK'
      <4>1. Get(snapshot, d.base) \in Names \cup {NoName}
        BY LookupsAreNames
      <4>2. removed' \subseteq Names /\ changed' \in BOOLEAN
        BY <3>2, <4>1
      <4> QED
        BY <2>5, <3>2, <4>2 DEF VisitDependency
    <3> QED
      BY <2>5, <3>1, <3>2 DEF VisitDependency
  <2>6. CASE Freeze
    <3>1. KeptShared(snapshot, targets, removed \ targets) \subseteq Names
      BY <2>0 DEF KeptShared
    <3> QED
      BY <2>6, <3>1 DEF Freeze
  <2>7. CASE UNCHANGED vars
    BY <2>7 DEF vars
  <2> QED
    BY <2>1, <2>2, <2>3, <2>4, <2>5, <2>6, <2>7 DEF Next
<1> QED
  BY <1>1, <1>2, PTL DEF Spec

-----------------------------------------------------------------------------
(* The loop invariant of _orphans_after(). *)

Looping == pc \in {"pass", "names", "deps", "freeze"}

\* The targets are installed packages, and `blocked` is what analyze() found.
TargetsInv ==
  Looping => /\ targets \subseteq removed
             /\ blocked = {u \in snapshot.present \ targets :
                              \E t \in targets : u \in RequiredBy(snapshot, t)}

\* Everything else in `removed` has lost all its users to `removed`, and is readable.
SoundInv ==
  Looping => \A p \in removed \ targets :
               RequiredBy(snapshot, p) \subseteq removed /\ p \notin snapshot.broken

\* What is still to visit: removed packages, and dependencies of removed packages.
DepsInv ==
  /\ Looping => frontier \subseteq removed
  /\ pc = "deps" =>
       \A d \in deps : \E n \in removed \cap Readable(snapshot) : d \in snapshot.depends[n]
  /\ pc \in {"missing", "blocked", "pass", "names", "freeze"} => deps = {}
  /\ pc \in {"missing", "blocked", "pass", "freeze"} => frontier = {}

\* `removed` stays inside every closed set that holds the targets.
LeastInv ==
  Looping => \A S \in SUBSET Names :
               targets \subseteq S /\ OrphanClosed(snapshot, S) => removed \subseteq S

\* As long as a pass has changed nothing, the packages it has visited have no
\* dependency that loses its last user.
PassInv ==
  Looping /\ ~ changed =>
    \A n \in (removed \cap Readable(snapshot)) \ frontier : \A d \in snapshot.depends[n] :
      d \in deps \/ ~ LosesLastUser(snapshot, Get(snapshot, d.base), removed)

\* The loop ends only when a pass has changed nothing; a plan exists only at the end.
ExitInv ==
  /\ pc = "freeze" => ~ changed
  /\ outcome = "planned" => pc = "done"

LoopInv == TargetsInv /\ SoundInv /\ DepsInv /\ LeastInv /\ PassInv /\ ExitInv

\* No step but VisitDependency adds to `removed` once the loop runs; each of
\* its parts of the loop invariant rests on the guard that the code tests.
LEMMA VisitKeepsLoopInv ==
  ASSUME TypeOK, LoopInv, VisitDependency
  PROVE  LoopInv'
<1> USE DEF VisitDependency, inputVars
<1>0. pc = "deps" /\ Looping /\ outcome' = outcome /\ outcome # "planned"
  BY DEF Looping, LoopInv, ExitInv
<1>1. CASE deps = {} /\ pc' = "names" /\ UNCHANGED <<removed, changed, deps>>
  <2>1. TargetsInv' /\ SoundInv'
    BY <1>0, <1>1 DEF LoopInv, TargetsInv, SoundInv, Looping
  <2>2. LeastInv'
    BY <1>0, <1>1 DEF LoopInv, LeastInv, Looping
  <2>3. DepsInv' /\ ExitInv'
    BY <1>0, <1>1 DEF LoopInv, DepsInv, ExitInv, Looping
  <2>4. PassInv'
    BY <1>0, <1>1 DEF LoopInv, PassInv, Looping
  <2> QED
    BY <2>1, <2>2, <2>3, <2>4 DEF LoopInv
<1>2. ASSUME NEW d \in deps,
             deps' = deps \ {d},
             pc' = pc,
             Get(snapshot, d.base) # NoName,
             Get(snapshot, d.base) \notin removed,
             Get(snapshot, d.base) \notin snapshot.explicit,
             RequiredBy(snapshot, Get(snapshot, d.base)) \ removed = {},
             removed' = removed \cup {Get(snapshot, d.base)},
             changed' = TRUE
      PROVE  LoopInv'
  <2> DEFINE dep == Get(snapshot, d.base)
  <2>0. RequiredBy(snapshot, dep) \subseteq removed
    BY <1>2
  <2>1. TargetsInv'
    BY <1>0, <1>2 DEF LoopInv, TargetsInv, Looping
  <2>2. SoundInv'
    BY <1>0, <1>2, <2>0, SnapshotParts DEF TypeOK, LoopInv, SoundInv, Looping
  <2>3. DepsInv' /\ ExitInv'
    BY <1>0, <1>2 DEF LoopInv, DepsInv, ExitInv, Looping
  <2>4. LeastInv'
    <3> SUFFICES ASSUME NEW S \in SUBSET Names,
                        targets \subseteq S,
                        OrphanClosed(snapshot, S)
                 PROVE  dep \in S
      BY <1>0, <1>2 DEF LoopInv, LeastInv, Looping
    <3>1. removed \subseteq S
      BY <1>0 DEF LoopInv, LeastInv
    <3>2. PICK n \in removed \cap Readable(snapshot) : d \in snapshot.depends[n]
      BY <1>0 DEF LoopInv, DepsInv
    <3>3. ~ LosesLastUser(snapshot, dep, S)
      BY <3>1, <3>2 DEF OrphanClosed
    <3> QED
      BY <1>2, <2>0, <3>1, <3>3 DEF LosesLastUser
  <2>5. PassInv'
    BY <1>2 DEF PassInv
  <2> QED
    BY <2>1, <2>2, <2>3, <2>4, <2>5 DEF LoopInv
<1>3. ASSUME NEW d \in deps,
             deps' = deps \ {d},
             pc' = pc,
             ~ LosesLastUser(snapshot, Get(snapshot, d.base), removed),
             UNCHANGED <<removed, changed>>
      PROVE  LoopInv'
  <2>1. TargetsInv' /\ SoundInv'
    BY <1>0, <1>3 DEF LoopInv, TargetsInv, SoundInv, Looping
  <2>2. LeastInv'
    BY <1>0, <1>3 DEF LoopInv, LeastInv, Looping
  <2>3. DepsInv' /\ ExitInv'
    BY <1>0, <1>3 DEF LoopInv, DepsInv, ExitInv, Looping
  <2>4. PassInv'
    BY <1>0, <1>3 DEF LoopInv, PassInv, Looping
  <2> QED
    BY <2>1, <2>2, <2>3, <2>4 DEF LoopInv
<1> QED
  BY <1>1, <1>2, <1>3 DEF LosesLastUser

\* Every other step keeps the loop invariant as well.
LEMMA StepKeepsLoopInv ==
  ASSUME TypeOK, LoopInv, [Next]_vars
  PROVE  LoopInv'
<1> USE DEF inputVars, loopVars, Raise
<1>1. CASE CheckMissing
  BY <1>1 DEF CheckMissing, LoopInv, TargetsInv, SoundInv, DepsInv, LeastInv, PassInv,
     ExitInv, Looping
<1>2. CASE FindBlockers
  <2> USE <1>2 DEF FindBlockers
  <2>1. CASE \E t \in targets : t \notin snapshot.present
    BY <2>1 DEF LoopInv, TargetsInv, SoundInv, DepsInv, LeastInv, PassInv, ExitInv, Looping
  <2>2. CASE ~ \E t \in targets : t \notin snapshot.present
    <3>1. TargetsInv' /\ SoundInv'
      BY <2>2 DEF TargetsInv, SoundInv, Looping
    <3>2. LeastInv'
      BY <2>2 DEF LeastInv, Looping
    <3>3. PassInv'
      BY <2>2 DEF PassInv, Looping
    <3>4. ExitInv'
      BY <2>2 DEF LoopInv, ExitInv
    <3>5. DepsInv'
      BY <2>2 DEF LoopInv, DepsInv, Looping
    <3> QED
      BY <3>1, <3>2, <3>3, <3>4, <3>5 DEF LoopInv
  <2> QED
    BY <2>1, <2>2
<1>3. CASE StartPass
  <2> USE <1>3 DEF StartPass
  <2>1. TargetsInv' /\ SoundInv'
    BY DEF LoopInv, TargetsInv, SoundInv, Looping
  <2>2. LeastInv'
    BY DEF LoopInv, LeastInv, Looping
  <2>3. DepsInv' /\ ExitInv'
    BY DEF LoopInv, DepsInv, ExitInv, Looping
  <2>4. PassInv'
    BY DEF LoopInv, DepsInv, PassInv, Looping
  <2> QED
    BY <2>1, <2>2, <2>3, <2>4 DEF LoopInv
<1>4. CASE VisitName
  <2> USE <1>4 DEF VisitName
  <2>1. TargetsInv' /\ SoundInv'
    BY DEF LoopInv, TargetsInv, SoundInv, Looping
  <2>2. LeastInv'
    BY DEF LoopInv, LeastInv, Looping
  <2>3. ExitInv'
    BY DEF LoopInv, ExitInv
  <2>4. CASE frontier = {} /\ pc' = "pass" /\ UNCHANGED <<frontier, deps>>
    <3>1. DepsInv'
      BY <2>4 DEF LoopInv, DepsInv, Looping
    <3>2. PassInv'
      BY <2>4 DEF LoopInv, PassInv, Looping
    <3> QED
      BY <2>1, <2>2, <2>3, <3>1, <3>2 DEF LoopInv
  <2>5. ASSUME NEW n \in frontier,
               frontier' = frontier \ {n},
               deps' = IF n \in Readable(snapshot) THEN snapshot.depends[n] ELSE {},
               pc' = "deps"
        PROVE  LoopInv'
    <3>0. n \in removed /\ Looping /\ deps = {}
      BY DEF LoopInv, DepsInv, Looping
    <3>1. DepsInv'
      <4>1. CASE n \in Readable(snapshot)
        BY <2>5, <3>0, <4>1 DEF LoopInv, DepsInv, Looping
      <4>2. CASE n \notin Readable(snapshot)
        BY <2>5, <3>0, <4>2 DEF LoopInv, DepsInv, Looping
      <4> QED
        BY <4>1, <4>2
    <3>2. PassInv'
      BY <2>5, <3>0 DEF LoopInv, PassInv, Looping
    <3> QED
      BY <2>1, <2>2, <2>3, <3>1, <3>2 DEF LoopInv
  <2> QED
    BY <2>4, <2>5
<1>5. CASE VisitDependency
  BY <1>5, VisitKeepsLoopInv
<1>6. CASE Freeze
  BY <1>6 DEF Freeze, LoopInv, TargetsInv, SoundInv, DepsInv, LeastInv, PassInv, ExitInv,
     Looping
<1>7. CASE UNCHANGED vars
  BY <1>7 DEF vars, LoopInv, TargetsInv, SoundInv, DepsInv, LeastInv, PassInv, ExitInv,
     Looping
<1> QED
  BY <1>1, <1>2, <1>3, <1>4, <1>5, <1>6, <1>7 DEF Next

-----------------------------------------------------------------------------
\* RemovedIsLeastClosure, for every snapshot, request and order of iteration.
THEOREM OrphansAreTheLeastClosure == Spec => []RemovedIsLeastClosure
<1>1. Init => LoopInv
  BY DEF Init, LoopInv, TargetsInv, SoundInv, DepsInv, LeastInv, PassInv, ExitInv, Looping
<1>2. TypeOK /\ LoopInv /\ [Next]_vars => LoopInv'
  BY StepKeepsLoopInv
<1>3. TypeOK /\ LoopInv => RemovedIsLeastClosure
  <2> SUFFICES ASSUME TypeOK, LoopInv, pc = "freeze"
               PROVE  /\ OrphanClosed(snapshot, removed)
                      /\ \A S \in SUBSET Names :
                           targets \subseteq S /\ OrphanClosed(snapshot, S) => removed \subseteq S
    BY DEF RemovedIsLeastClosure
  <2>1. Looping /\ ~ changed /\ frontier = {} /\ deps = {}
    BY DEF Looping, LoopInv, ExitInv, DepsInv
  <2>2. OrphanClosed(snapshot, removed)
    BY <2>1 DEF OrphanClosed, LoopInv, PassInv
  <2> QED
    BY <2>1, <2>2 DEF LoopInv, LeastInv
<1> QED
  BY <1>1, <1>2, <1>3, PlannerTypeCorrect, PTL DEF Spec

-----------------------------------------------------------------------------
\* If nothing outside a set of packages uses a member of it, the packages outside
\* it keep every dependency that was satisfied.
LEMMA UnusedPackagesCanGo ==
  ASSUME NEW s, s.full,
         NEW gone, gone \cap s.broken = {},
         \A p \in gone : RequiredBy(s, p) \subseteq gone,
         NEW q \in s.present \ gone
  PROVE  StillWorks(s, q, gone)
<1> SUFFICES ASSUME NEW d \in s.depends[q],
                    NEW p \in s.present, Satisfies(s, p, d)
             PROVE  p \notin gone
  BY DEF StillWorks
<1>1. q \in Users(s, p)
  BY DEF Users
<1> QED
  BY <1>1 DEF RequiredBy

\* PlanBreaksNothing, for every snapshot: the plan is the targets, whose users
\* analyze() looked at, or the closed set of _orphans_after().
THEOREM PlansBreakNothing == Spec => []PlanBreaksNothing
<1>1. Init => LoopInv /\ PlanBreaksNothing
  BY DEF Init, LoopInv, TargetsInv, SoundInv, DepsInv, LeastInv, PassInv, ExitInv, Looping,
     PlanBreaksNothing
<1>2. TypeOK /\ LoopInv /\ PlanBreaksNothing /\ [Next]_vars => LoopInv' /\ PlanBreaksNothing'
  <2> SUFFICES ASSUME TypeOK, LoopInv, PlanBreaksNothing, [Next]_vars
               PROVE  PlanBreaksNothing'
    BY StepKeepsLoopInv
  <2>1. CASE Freeze
    <3> SUFFICES ASSUME outcome' = "planned", snapshot.full, targets \cap snapshot.broken = {},
                        NEW q \in snapshot.present \ (targets \cup cascade')
                 PROVE  StillWorks(snapshot, q, targets \cup cascade')
      BY <2>1 DEF Freeze, inputVars, PlanBreaksNothing
    <3>1. Looping /\ blocked = {}
      BY <2>1 DEF Freeze, Looping, Raise
    <3>2. /\ targets \subseteq removed
          /\ \A t \in targets : RequiredBy(snapshot, t) \subseteq targets
      <4>1. /\ targets \subseteq removed
            /\ \A t \in targets : \A u \in snapshot.present :
                 u \in RequiredBy(snapshot, t) => u \in targets
        BY <3>1 DEF LoopInv, TargetsInv
      <4>2. \A t : RequiredBy(snapshot, t) \subseteq snapshot.present
        BY DEF RequiredBy, Users
      <4> QED
        BY <4>1, <4>2
    <3>3. CASE optIn
      <4>1. targets \cup cascade' = removed
        BY <2>1, <3>1, <3>2, <3>3 DEF Freeze
      <4>2. \A p \in removed : RequiredBy(snapshot, p) \subseteq removed /\ p \notin snapshot.broken
        BY <3>1, <3>2 DEF LoopInv, SoundInv
      <4> QED
        BY <4>1, <4>2, UnusedPackagesCanGo
    <3>4. CASE ~ optIn
      <4>1. targets \cup cascade' = targets
        BY <2>1, <3>1, <3>4 DEF Freeze
      <4> QED
        BY <3>2, <4>1, UnusedPackagesCanGo
    <3> QED
      BY <3>3, <3>4
  <2>2. CASE UNCHANGED vars
    BY <2>2 DEF vars, inputVars, PlanBreaksNothing
  <2>3. CASE CheckMissing \/ FindBlockers \/ StartPass \/ VisitName \/ VisitDependency
    <3>0. outcome # "planned"
      BY <2>3 DEF CheckMissing, FindBlockers, StartPass, VisitName, VisitDependency,
         LoopInv, ExitInv
    <3>1. outcome' # "planned"
      BY <2>3, <3>0 DEF CheckMissing, FindBlockers, StartPass, VisitName, VisitDependency, Raise
    <3> QED
      BY <3>1 DEF PlanBreaksNothing
  <2> QED
    BY <2>1, <2>2, <2>3 DEF Next
<1> QED
  BY <1>1, <1>2, PlannerTypeCorrect, PTL DEF Spec

-----------------------------------------------------------------------------
(* The answer of build_plan(). *)

\* What else would lose its last user if the packages T went.
OrphansAfter(s, T) ==
  {q \in Names : \A S \in SUBSET Names : T \subseteq S /\ OrphanClosed(s, S) => q \in S} \ T

\* The errors and the plan are functions of the arguments: of the index for a target
\* that nothing has, of the list for one that is only provided, of the users for one
\* that is blocked, and of the least closure for the cascade.
AnswerIsDetermined ==
  pc = "done" =>
    /\ outcome = "PackageNotFound" <=> \E t \in targets : Get(snapshot, t) = NoName
    /\ outcome = "KeyError" <=> /\ \A t \in targets : Get(snapshot, t) # NoName
                                /\ ~ targets \subseteq snapshot.present
    /\ outcome = "DependencyBlocked" <=>
         /\ targets \subseteq snapshot.present
         /\ \E t \in targets : ~ RequiredBy(snapshot, t) \subseteq targets
    /\ outcome = "planned" <=> /\ targets \subseteq snapshot.present
                               /\ \A t \in targets : RequiredBy(snapshot, t) \subseteq targets
    /\ cascade = IF outcome = "planned" /\ optIn THEN OrphansAfter(snapshot, targets) ELSE {}

\* Nothing is decided before the end, and what has been tested holds.
AnswerInv ==
  /\ pc # "done" => outcome = "none" /\ cascade = {}
  /\ pc = "blocked" => \A t \in targets : Get(snapshot, t) # NoName
  /\ Looping => targets \subseteq snapshot.present
  /\ AnswerIsDetermined

\* A target that is installed is found under its own name.
LEMMA InstalledAreFound ==
  ASSUME TypeOK
  PROVE  /\ \A t \in targets \cap snapshot.present : Get(snapshot, t) # NoName
         /\ snapshot.present \subseteq Names
<1>1. snapshot.present \subseteq Names
  BY SnapshotParts DEF TypeOK
<1> QED
  BY <1>1, NamesOK DEF Get, Bases, TypeOK

\* A closed set that every closed set with the targets contains is the least one.
LEMMA LeastClosureIsUnique ==
  ASSUME NEW s, NEW T, NEW closure \in SUBSET Names,
         T \subseteq closure, OrphanClosed(s, closure),
         \A S \in SUBSET Names : T \subseteq S /\ OrphanClosed(s, S) => closure \subseteq S
  PROVE  closure \ T = OrphansAfter(s, T)
BY DEF OrphansAfter

LEMMA AnswerInvStep ==
  ASSUME TypeOK, LoopInv, RemovedIsLeastClosure, AnswerInv, [Next]_vars
  PROVE  AnswerInv'
<1> USE DEF inputVars, loopVars, Raise
<1>0. /\ \A t \in targets \cap snapshot.present : Get(snapshot, t) # NoName
      /\ snapshot.present \subseteq Names
  BY InstalledAreFound
<1>1. CASE CheckMissing
  <2>1. CASE \E t \in targets : Get(snapshot, t) = NoName
    BY <1>0, <1>1, <2>1 DEF CheckMissing, AnswerInv, AnswerIsDetermined, Looping
  <2>2. CASE ~ \E t \in targets : Get(snapshot, t) = NoName
    BY <1>1, <2>2 DEF CheckMissing, AnswerInv, AnswerIsDetermined, Looping
  <2> QED
    BY <2>1, <2>2
<1>2. CASE FindBlockers
  <2>1. CASE \E t \in targets : t \notin snapshot.present
    BY <1>2, <2>1 DEF FindBlockers, AnswerInv, AnswerIsDetermined, Looping
  <2>2. CASE ~ \E t \in targets : t \notin snapshot.present
    BY <1>2, <2>2 DEF FindBlockers, AnswerInv, AnswerIsDetermined, Looping
  <2> QED
    BY <2>1, <2>2
<1>3. CASE StartPass \/ VisitName \/ VisitDependency
  <2>1. /\ UNCHANGED <<snapshot, targets, optIn, outcome, cascade>>
        /\ Looping
        /\ pc' \in {"pass", "names", "deps", "freeze"}
    BY <1>3 DEF StartPass, VisitName, VisitDependency, Looping
  <2> QED
    BY <2>1 DEF AnswerInv, AnswerIsDetermined, Looping
<1>4. CASE Freeze
  <2>1. /\ pc = "freeze" /\ Looping /\ pc' = "done"
        /\ UNCHANGED <<snapshot, targets, optIn>>
        /\ targets \subseteq snapshot.present
    BY <1>4 DEF Freeze, AnswerInv, Looping
  <2>2. removed \ targets = OrphansAfter(snapshot, targets)
    BY <2>1, LeastClosureIsUnique DEF TypeOK, LoopInv, TargetsInv, RemovedIsLeastClosure
  <2>3. blocked = {} <=> \A t \in targets : RequiredBy(snapshot, t) \subseteq targets
    <3>1. \A t : RequiredBy(snapshot, t) \subseteq snapshot.present
      BY DEF RequiredBy, Users
    <3> QED
      BY <2>1, <3>1 DEF LoopInv, TargetsInv
  <2>4. \A t \in targets : Get(snapshot, t) # NoName
    BY <1>0, <2>1
  <2>5. AnswerIsDetermined'
    <3>1. CASE blocked = {}
      BY <1>4, <2>1, <2>2, <2>3, <2>4, <3>1 DEF Freeze, AnswerIsDetermined, AnswerInv
    <3>2. CASE blocked # {}
      BY <1>4, <2>1, <2>3, <2>4, <3>2 DEF Freeze, AnswerIsDetermined, AnswerInv
    <3> QED
      BY <3>1, <3>2
  <2> QED
    BY <2>1, <2>5 DEF AnswerInv, Looping
<1>5. CASE UNCHANGED vars
  BY <1>5 DEF vars, AnswerInv, AnswerIsDetermined, Looping
<1> QED
  BY <1>1, <1>2, <1>3, <1>4, <1>5 DEF Next

\* build_plan() gives the same answer in whatever order it iterates over its sets.
THEOREM OneAnswerPerRequest == Spec => []AnswerIsDetermined
<1>1. Init => LoopInv /\ AnswerInv
  BY DEF Init, LoopInv, TargetsInv, SoundInv, DepsInv, LeastInv, PassInv, ExitInv, Looping,
     AnswerInv, AnswerIsDetermined
<1>2. TypeOK /\ LoopInv /\ [Next]_vars => LoopInv'
  BY StepKeepsLoopInv
<1>3. TypeOK /\ LoopInv /\ RemovedIsLeastClosure /\ AnswerInv /\ [Next]_vars => AnswerInv'
  BY AnswerInvStep
<1>4. AnswerInv => AnswerIsDetermined
  BY DEF AnswerInv
<1> QED
  BY <1>1, <1>2, <1>3, <1>4, PlannerTypeCorrect, OrphansAreTheLeastClosure, PTL DEF Spec

\* What the main window and the command line take build_plan() to be, for the one target
\* they give it: present, not blocked, and with its new orphans or alone.
PlansForOneTarget ==
  \A p \in Bases :
    targets = {p} /\ pc = "done" =>
      /\ outcome = "planned" <=> p \in snapshot.present /\ Blockers(snapshot, p) = {}
      /\ outcome = "DependencyBlocked" <=>
           p \in snapshot.present /\ Blockers(snapshot, p) # {}
      /\ outcome = "planned" =>
           cascade = IF optIn THEN NewOrphans(snapshot, p) ELSE {}

\* The operators that DesktopRemoval and CommandLine plan with are the planner's.
THEOREM CallersPlanAsThePlanner == Spec => []PlansForOneTarget
<1>1. ASSUME AnswerIsDetermined PROVE PlansForOneTarget
  <2> SUFFICES ASSUME NEW p \in Bases, targets = {p}, pc = "done"
               PROVE  /\ outcome = "planned" <=> p \in snapshot.present /\ Blockers(snapshot, p) = {}
                      /\ outcome = "DependencyBlocked" <=>
                           p \in snapshot.present /\ Blockers(snapshot, p) # {}
                      /\ outcome = "planned" =>
                           cascade = IF optIn THEN NewOrphans(snapshot, p) ELSE {}
    BY DEF PlansForOneTarget
  <2>1. Blockers(snapshot, p) = {} <=> RequiredBy(snapshot, p) \subseteq targets
    BY DEF Blockers
  <2>2. OrphansAfter(snapshot, targets) = NewOrphans(snapshot, p)
    BY DEF OrphansAfter, NewOrphans
  <2> QED
    BY <1>1, <2>1, <2>2 DEF AnswerIsDetermined
<1> QED
  BY <1>1, OneAnswerPerRequest, PTL
=============================================================================
