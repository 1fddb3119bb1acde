------------------------------- MODULE MCCleanup -------------------------------
(* Cleanup for TLC: an editor with a directory named after it, and a launcher   *)
(* named like the viewer, whose package has it, too.                            *)
EXTENDS Cleanup, TLC

CONSTANTS ed, view, config, launcher, edName, viewName, o1, o2, o3, o4

MCApps    == {ed, view}
MCTokens  == {edName, viewName}
MCKnown   == (ed :> {edName, viewName}) @@ (view :> {viewName})
MCDesktopIds == (ed :> {edName, viewName}) @@ (view :> {viewName})
MCPackage == (ed :> edName) @@ (view :> viewName)

Place(token) ==
  [allowed |-> TRUE, owners |-> {}, token |-> token, name |-> token, desktop |-> FALSE]

MCPaths    == {config, launcher}
MCLayout   == (config :> Place(edName))
              @@ (launcher :> [Place(viewName) EXCEPT !.owners = {view}, !.desktop = TRUE])
MCPrecedes == {<<config, launcher>>}
MCObjects  == {o1, o2, o3}
MCHome     == (o1 :> config) @@ (o2 :> launcher) @@ (o3 :> config)

(* A launcher that can be replaced, in a directory that cannot.                *)
LauncherObjects == {o1, o2, o4}
LauncherHome    == (o1 :> config) @@ (o2 :> launcher) @@ (o4 :> launcher)

(* The two directories that can be at config are alike, too.                   *)
Sym == Permutations(Executions) \cup Permutations(Scans) \cup Permutations({o1, o3})

(* What no later step and no property of the safety run tells apart is left   *)
(* out: the entries of what is out of reach, objects born when no more can be,  *)
(* packages when every scan was made, the window when every cleanup has begun,  *)
(* and of the observers of a scan all but what they say of what is selected.    *)
Reachable == {at[p] : p \in Paths} \cup {dir[e] : e \in Executions}
Selecting == \E e \in Executions : pc[e] = "idle"
Scanning  == \E s \in Scans : app[s] = Nothing
Selected(e) == {a.path : a \in approved[e]}
LiveState ==
  <<at, [o \in Objects \cap Reachable |-> inside[o]], IF changes = MaxChanges THEN {} ELSE born,
    changes, stash, manifest, pc, moves, todo, itemVars, report, touched, unreadable,
    [e \in Executions |->
       [selected |-> Selected(e), preview |-> source[e] \in previews,
        warned |-> {p \in Paths : source[e] \in Scans /\ p \in todo[e] /\ Warned(source[e], p)}]],
    {t \in touched : Warned(source[t.by], t.path)},
    IF Selecting THEN <<quarantine, previews, results, rating, current,
                        {<<s, p>> \in Scans \X Paths : p \in Listed(s) /\ Warned(s, p)}>>
    ELSE <<>>,
    IF Selecting /\ Scanning THEN <<installed, offered, snapshots, known, app>> ELSE <<>>>>
=============================================================================
