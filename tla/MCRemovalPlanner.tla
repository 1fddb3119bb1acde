--------------------------- MODULE MCRemovalPlanner ---------------------------
(* RemovalPlanner over two families of small snapshots. *)
EXTENDS RemovalPlanner, Naturals, FiniteSets

CONSTANTS a, b, c, d, x, v1, v2

MCNames    == {a, b, c, d}
MCVirtuals == {x}
MCVersions == {v1, v2}

On(n)       == [base |-> n, version |-> Unversioned]
At(n, v)    == [base |-> n, version |-> v]
NoProvider  == [n \in Bases |-> NoName]

\* Dependency graphs with at most three edges on four packages (chains, shared
\* and circular dependencies, missing ones), without provisions; a or c unreadable.
Graphs == {E \in SUBSET ((MCNames \X MCNames) \ {<<n, n>> : n \in MCNames}) : Cardinality(E) <= 3}
GraphWorld(E, installed, explicit, broken, full) ==
  [present  |-> installed,
   version  |-> [n \in MCNames |-> v1],
   depends  |-> [n \in MCNames |-> {On(e[2]) : e \in {f \in E : f[1] = n}}],
   provides |-> [n \in MCNames |-> {}],
   explicit |-> explicit,
   broken   |-> broken,
   first    |-> NoProvider,
   full     |-> full]
GraphWorlds ==
  {GraphWorld(E, MCNames, X, {}, TRUE) : E \in Graphs, X \in {{}, {c}}}
    \cup {GraphWorld(E, MCNames, X, X, TRUE) : E \in Graphs, X \in {{a}, {c}}}
    \cup {GraphWorld(E, {a, b, c}, {}, {}, FALSE) : E \in Graphs}

\* a and d depend on x, in any version or in one; b and c provide versions of
\* it, in either order; d may depend on b by name, in a version c also offers.
ProviderWorld(needA, needD, offerB, offerC, explicit, broken, first) ==
  [present  |-> MCNames,
   version  |-> [n \in MCNames |-> v1],
   depends  |-> [n \in MCNames |-> CASE n = a -> needA [] n = d -> needD [] OTHER -> {}],
   provides |-> [n \in MCNames |-> CASE n = b -> offerB [] n = c -> offerC [] OTHER -> {}],
   explicit |-> explicit,
   broken   |-> broken,
   first    |-> [NoProvider EXCEPT ![x] = first[1], ![b] = first[2]],
   full     |-> TRUE]
ProviderWorlds ==
  {s \in {ProviderWorld(needA, needD, offerB, offerC, X[1], X[2], <<fx, fb>>) :
            needA  \in {{On(x)}, {At(x, v1)}},
            needD  \in SUBSET {On(x), At(b, v2)},
            offerB \in {{}, {At(x, v1)}, {At(x, v2)}},
            offerC \in {{On(x)}, {At(x, v1)}, {At(x, v1), At(b, v2)}},
            X \in {<<{}, {}>>, <<{b}, {}>>, <<{b}, {b}>>},
            fx \in {b, c}, fb \in {c, NoName}} :
     IndexOK(s)}

\* Those in which every dependency is satisfied, as pacman leaves a system.
AmbiguousWorlds ==
  {s \in ProviderWorlds :
     \A q \in s.present : \A t \in s.depends[q] : \E p \in s.present : Satisfies(s, p, t)}

MCWorlds   == GraphWorlds \cup ProviderWorlds
MCRequests == {{a}, {a, b}, {x}}
=============================================================================
