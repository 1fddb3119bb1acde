--------------------------- MODULE MCRemovalHelper ---------------------------
(***************************************************************************)
(* RemovalHelper for TLC, with a view that keeps of a state what its       *)
(* future and the properties depend on.  States with the same view have    *)
(* the same steps, by the same threads, to states with the same views, so  *)
(* neither safety nor liveness can tell them apart.                        *)
(***************************************************************************)
EXTENDS RemovalHelper, TLC

\* Of a handle only who still works with it, not its identity, and which of them
\* its errors go to; its transaction is that of the one past "init".
Uses(c) == pc[c] \in {"wire", "release"} \cup Wired
Users(h) == {c \in Calls : Uses(c) /\ held[c] = h}
Logger(c) == {d \in Calls : d = logTo[held[c]] /\ pc[d] \in Wired}

\* Of a generation only which others it equals: none ever comes back.
HasGen(c) == pc[c] \in {"test", "match", "open", "publish"}
GenView(c) ==
  <<genSeen[c] = dbGen, genSeen[c] = handleGen,
    {d \in Calls : HasGen(d) /\ genSeen[d] = genSeen[c]}>>

\* Of a result only whether it is "ok", and of a local variable, a message or
\* an observer nothing once no step and no property looks at it.
CallView(c) ==
  CASE pc[c] \in {"idle", "ensure", "take", "done"} -> <<>>
    [] pc[c] \in {"start", "gate"} ->
         <<request[c].form = "malformed", request[c].form = "good" /\ request[c].gen = dbGen>>
    [] HasGen(c) -> GenView(c)
    [] pc[c] = "wire" -> <<Users(held[c])>>
    [] pc[c] \in Wired -> <<Users(held[c]), Logger(c), errors[c], c \in logged, c \in crossed>>
    [] pc[c] = "release" -> <<Users(held[c]), result[c] = "ok", c \in logged, c \in crossed>>
    [] OTHER -> <<result[c] = "ok">>

\* Of a package only where it is, not its name.  With two packages the set of
\* their views says whether both have the same one.  A cache is read through the
\* field of the backend only.
PkgView(p) ==
  <<p \in installed, handle # NoHandle /\ p \in cache[handle],
    {c \in Calls : p \in todo[c] /\ pc[c] \notin {"release", "untx", "drop"}},
    {c \in Calls : p \in request[c].names /\ pc[c] \notin {"untx", "drop", "done"}}>>

LiveState ==
  <<lock, pacmanRuns, dbGen = 0,
    handle = NoHandle, handleGen = dbGen, Users(handle),
    transaction, {c \in Calls : interrupted[c] /\ pc[c] = "commit"},
    pc, mainVars, [c \in Calls |-> CallView(c)], {PkgView(p) : p \in Pkgs}>>

ASSUME PkgViewSuffices == Cardinality(Pkgs) <= 2
=============================================================================
