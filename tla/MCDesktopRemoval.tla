--------------------------- MODULE MCDesktopRemoval ---------------------------
(* DesktopRemoval over two small systems. *)
EXTENDS DesktopRemoval, TLC

CONSTANTS a, b, c, d, v

On(n) == [base |-> n, version |-> Unversioned]

Packages(explicit, needs) ==
  [present  |-> Names,
   version  |-> [n \in Names |-> v],
   depends  |-> [n \in Names |-> {On(m) : m \in {e[2] : e \in {f \in needs : f[1] = n}}}],
   provides |-> [n \in Names |-> {}],
   explicit |-> explicit,
   broken   |-> {},
   first    |-> [n \in Names |-> NoName],
   full     |-> TRUE]

\* An application and its dependency.
PairNames == {a, b}
PairWorld == Packages({a}, {<<a, b>>})

\* Two applications that share d; b is needed by a alone.
SharedNames == {a, b, c, d}
SharedWorld == Packages({a, c}, {<<a, b>>, <<a, d>>, <<c, d>>})

\* Removals differ in nothing but their name.
Renamings == Permutations(Removals)

\* The part of a state that decides what can happen and whether the properties
\* hold.  Of a generation only matters whether it still is the current one; of
\* the window, once it has ended, only the plans and the journal.
LiveState ==
  <<installed, holder, asked, status, nest, pacmanRuns, running, plan, journal, pending,
    [r \in Removals |-> IF status[r] \in {"idle", "submitted"} /\ generation[r] = dbGen
                        THEN <<target[r], shown[r], r \in drifted>> ELSE <<>>],
    IF running = "yes"
    THEN <<packages, rows, previews, phase, target, handler, overlapped, undone,
           [r \in Removals |-> IF phase[r] \in {"stamping", "analysed", "previewing"}
                               THEN <<shown[r], r \in drifted>> ELSE <<>>],
           refresh, [w \in Refreshes |-> IF refresh[w] = "read" \/ w \in undone
                                         THEN reread[w] ELSE {}]>>
    ELSE IF running = "crashed" THEN <<phase, target>> ELSE <<>> >>
=============================================================================
