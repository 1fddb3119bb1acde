--------------------------- MODULE PackageSnapshot ---------------------------
(***************************************************************************)
(* A snapshot of the installed packages, as AlpmSession.packages() returns *)
(* it, and the index PackageSet puts over it.  A dependency or provision   *)
(* string is a token: a base name and a version, or no version.  libalpm   *)
(* (external) compares versions when it computes reverse dependencies;     *)
(* the planner strips them.                                                *)
(***************************************************************************)
CONSTANTS
  Names,       \* package names
  Virtuals,    \* base names of provisions that are no package's name
  Versions,    \* versions a token can ask for or offer
  Unversioned, \* the version of a token that has none
  NoName       \* None

Bases  == Names \cup Virtuals
Tokens == [base : Bases, version : Versions \cup {Unversioned}]

ASSUME NamesOK ==
  /\ NoName \notin Bases
  /\ Names \cap Virtuals = {}
  /\ Unversioned \notin Versions

\* `first` is PackageSet._provides: the first provider, in list order, of a base
\* name.  A light snapshot (full_detail=False) has no reverse dependencies.  A
\* `broken` package has an entry that cannot be read: its record is a fallback.
Snapshots ==
  [present  : SUBSET Names,
   version  : [Names -> Versions],
   depends  : [Names -> SUBSET Tokens],
   provides : [Names -> SUBSET Tokens],
   explicit : SUBSET Names,
   broken   : SUBSET Names,
   first    : [Bases -> Names \cup {NoName}],
   full     : BOOLEAN]

\* _fallback_record(): explicit, and without dependencies, provisions and users.
FallbackOK(s) == s.broken \subseteq s.explicit
Readable(s) == s.present \ s.broken

\* The installed packages whose provisions have base name b.
Providers(s, b) == {p \in Readable(s) : \E t \in s.provides[p] : t.base = b}

\* Which provider comes first depends on the order of the list only.
IndexOK(s) ==
  \A b \in Bases : IF Providers(s, b) = {} THEN s.first[b] = NoName
                                           ELSE s.first[b] \in Providers(s, b)

\* libalpm: package p, by its own name or by a provision, satisfies token d.
Satisfies(s, p, d) ==
  \E t \in s.provides[p] \cup {[base |-> p, version |-> s.version[p]]} :
    t.base = d.base /\ d.version \in {Unversioned, t.version}

\* Package.compute_requiredby() of libalpm, and PackageRecord.required_by.
Users(s, p) == {q \in s.present : \E d \in s.depends[q] : Satisfies(s, p, d)}
RequiredBy(s, p) == IF s.full /\ p \notin s.broken THEN Users(s, p) ELSE {}

\* PackageSet.get(): a package of that name, else the first provider, else None.
Get(s, b) == IF b \in s.present THEN b ELSE s.first[b]

-----------------------------------------------------------------------------
(* Reference definitions: what the planner should compute. *)

\* Package p, not yet counted as removed, loses its last user with `removed`.
LosesLastUser(s, p, removed) ==
  /\ p # NoName
  /\ p \notin removed
  /\ p \notin s.explicit
  /\ RequiredBy(s, p) \subseteq removed

\* No dependency of a removed package loses its last user with S.
OrphanClosed(s, S) ==
  \A n \in S \cap Readable(s) : \A d \in s.depends[n] :
    ~ LosesLastUser(s, Get(s, d.base), S)

\* The planner for one target, by what RemovalPlanner shows it computes.
Blockers(s, p) == RequiredBy(s, p) \ {p}
NewOrphans(s, p) ==
  {q \in Names : \A S \in SUBSET Names : p \in S /\ OrphanClosed(s, S) => q \in S} \ {p}

\* Every dependency of q that was satisfied before `removed` went still is.
StillWorks(s, q, removed) ==
  \A d \in s.depends[q] :
    (\E p \in s.present : Satisfies(s, p, d)) =>
      \E p \in s.present \ removed : Satisfies(s, p, d)
=============================================================================
