-------------------------------- MODULE Cleanup --------------------------------
(***************************************************************************)
(* Scans rate what an application may have left behind; the user selects   *)
(* from the list of the cleanup tab or in the preview of a removal; and    *)
(* what is selected is moved to quarantine or deleted, by a worker or,     *)
(* after the removal, in the GUI thread, while other programs change files *)
(* and packages.                                                           *)
(*                                                                         *)
(* Every system call that another program can come before is a step of its *)
(* own, and any call may fail.  A directory is an object with entries, a   *)
(* file one without.  The application may die anywhere: such a behaviour   *)
(* just ends, since nothing reads the quarantine again.                    *)
(***************************************************************************)
EXTENDS Integers, FiniteSets

CONSTANTS
  Paths,       \* locations that a rule looks at
  Layout,      \* Layout[p]: what policy, rules and ownership say of p
  Precedes,    \* the order of paths by their text
  Objects,     \* files and directories, by device and inode
  Home,        \* Home[o]: where o can appear; other programs move nothing
  Nothing,
  Entries,     \* entries of directories
  Tokens,      \* names that rules match, and names of files
  Apps,        \* packages
  Known,       \* Known[a]: Identity.candidate_names of a
  DesktopIds,  \* DesktopIds[a]: those of them that are desktop ids
  Package,     \* Package[a]: the name of a, as a token
  Scans,       \* scans for the tab and analyses for a preview, each once
  NoScan,
  Executions,  \* cleanups, each once, with its transaction id
  ShowLow,     \* Settings.show_low_confidence
  MaxChanges   \* bound: changes by other programs

ASSUME LayoutOK ==
  /\ Layout \in [Paths -> [allowed : BOOLEAN,      \* PathPolicy.classify()
                           owners  : SUBSET Apps,  \* which have files at or below p
                           token   : Tokens,
                           name    : Tokens,
                           desktop : BOOLEAN]]     \* found by desktop ids, not by any name
  /\ Known \in [Apps -> SUBSET Tokens]
  /\ DesktopIds \in [Apps -> SUBSET Tokens]
  /\ Package \in [Apps -> Tokens]
  /\ Home \in [Objects -> Paths]

ASSUME OrderOK ==
  /\ IsFiniteSet(Paths)
  /\ Precedes \subseteq Paths \X Paths
  /\ \A p \in Paths : <<p, p>> \notin Precedes
  /\ \A p, q \in Paths : p # q => (<<p, q>> \in Precedes <=> <<q, p>> \notin Precedes)
  /\ \A p, q, r \in Paths : <<p, q>> \in Precedes /\ <<q, r>> \in Precedes => <<p, r>> \in Precedes

ASSUME NamesOK ==
  /\ Nothing \notin Objects \cup Paths \cup Apps
  /\ NoScan \notin Scans
  /\ ShowLow \in BOOLEAN
  /\ MaxChanges \in Nat

VARIABLES
  \* the system
  installed,  \* packages in the local database
  at,         \* at[p]: the object at path p
  inside,     \* inside[o]: the entries of o
  born,       \* objects that exist or existed
  changes,    \* changes by other programs
  stash,      \* what is in the quarantine directories
  manifest,   \* the entries of all the manifests
  \* the window
  quarantine, \* Settings.use_quarantine: items are moved, not deleted
  offered,    \* cleanup_app: the packages that the tab offers to scan for
  snapshots,  \* packages refresh workers have read, not applied yet
  known,      \* AppState.identities: the packages it has
  app,        \* app[s]: the package that scan s is for
  previews,   \* scans that belong to a preview
  results,    \* scans whose result has not reached the user
  rating,     \* rating[s]: the candidates of scan s and their confidence
  current,    \* the scan that _cleanup_candidates and the list show
  \* cleanups
  pc,
  source,     \* source[e]: the scan the user selected from
  moves,      \* moves[e]: items are moved to quarantine, not deleted
  todo,       \* todo[e]: selected candidates still to come
  item,       \* item[e]: the candidate at hand
  identity,   \* identity[e]: FileIdentity of the item
  dir,        \* dir[e]: the directory that is open
  left,       \* left[e]: entries os.listdir() returned, still to unlink
  report,     \* report[e]: the ItemResults
  \* observers: written only, read by no action
  sighted,    \* sighted[s]: what was at each path during scan s
  seen,       \* seen[s]: packages whose identities scan s had
  present,    \* present[s]: packages installed during scan s
  approved,   \* approved[e]: what the user checked: path, and object at the scan
  touched,    \* what cleanups moved or deleted from
  unreadable  \* executions that could not read their manifest

diskVars     == <<installed, at, inside, born, changes>>
storeVars    == <<stash, manifest>>
refreshVars  == <<offered, snapshots, known>>
scanVars     == <<app, previews, rating>>
windowVars   == <<quarantine, refreshVars, scanVars, results, current>>
itemVars     == <<item, identity, dir, left>>
workerVars   == <<pc, source, moves, todo, itemVars, report>>
scanObs      == <<sighted, seen, present>>
effectObs    == <<touched, unreadable>>
vars == <<diskVars, storeVars, windowVars, workerVars, scanObs, approved, effectObs>>

Confidence == {"high", "medium", "low", "protected"}

\* "removing" and "removed": the helper's answer is to come, or to be dealt with.
Label == {"idle", "removing", "removed",
          "item", "verify", "move", "record", "list", "unlink", "done"}
Working == {"verify", "move", "record", "list", "unlink"}

DiskOK ==
  /\ installed \in SUBSET Apps
  /\ at \in [Paths -> Objects \cup {Nothing}]
  /\ inside \in [Objects -> SUBSET Entries]
  /\ born \in SUBSET Objects
  /\ changes \in Nat
  /\ stash \in SUBSET [txn : Executions, path : Paths, name : Tokens, ino : Objects, object : Objects]
  /\ manifest \in SUBSET [txn : Executions, path : Paths, name : Tokens, ino : Objects]

WindowOK ==
  /\ quarantine \in BOOLEAN
  /\ offered \in SUBSET Apps
  /\ snapshots \in SUBSET (SUBSET Apps)
  /\ known \in SUBSET Apps
  /\ previews \in SUBSET Scans
  /\ app \in [Scans -> Apps \cup {Nothing}]
  /\ results \in SUBSET Scans
  /\ rating \in [Scans -> [Paths -> Confidence \cup {"absent"}]]
  /\ current \in Scans \cup {NoScan}

WorkersOK ==
  /\ pc \in [Executions -> Label]
  /\ source \in [Executions -> Scans \cup {NoScan}]
  /\ moves \in [Executions -> BOOLEAN]
  /\ todo \in [Executions -> SUBSET Paths]
  /\ item \in [Executions -> Paths \cup {Nothing}]
  /\ identity \in [Executions -> Objects \cup {Nothing}]
  /\ dir \in [Executions -> Objects \cup {Nothing}]
  /\ left \in [Executions -> SUBSET Entries]
  /\ report \in [Executions -> [Paths -> {"none", "ok", "failed"}]]
  /\ \A e \in Executions :
       /\ pc[e] \in Working => item[e] \in Paths /\ identity[e] \in Objects
       /\ pc[e] = "unlink" => dir[e] \in Objects

ObserversOK ==
  /\ sighted \in [Scans -> [Paths -> Objects \cup {Nothing}]]
  /\ seen \in [Scans -> SUBSET Apps]
  /\ present \in [Scans -> SUBSET Apps]
  /\ approved \in [Executions -> SUBSET [path : Paths, object : Objects \cup {Nothing}]]
  /\ touched \in SUBSET [by : Executions, path : Paths, object : Objects]
  /\ unreadable \in SUBSET Executions

TypeOK == DiskOK /\ WindowOK /\ WorkersOK /\ ObserversOK

\* At start-up the tab offers what is installed, and AppState.identities is empty; disk
\* and settings hold anything.
Init ==
  /\ installed \in SUBSET Apps
  /\ at \in [Paths -> Objects \cup {Nothing}]
  /\ \A p \in Paths : at[p] # Nothing => Home[at[p]] = p
  /\ born = {at[p] : p \in Paths} \ {Nothing}
  /\ inside = [o \in Objects |-> Entries]
  /\ changes = 0
  /\ stash = {} /\ manifest = {}
  /\ quarantine \in BOOLEAN
  /\ offered = installed
  /\ snapshots = {}
  /\ known = {}
  /\ previews = {}
  /\ app = [s \in Scans |-> Nothing]
  /\ results = {}
  /\ rating = [s \in Scans |-> [p \in Paths |-> "absent"]]
  /\ current = NoScan
  /\ pc = [e \in Executions |-> "idle"]
  /\ source = [e \in Executions |-> NoScan]
  /\ moves = [e \in Executions |-> FALSE]
  /\ todo = [e \in Executions |-> {}]
  /\ item = [e \in Executions |-> Nothing]
  /\ identity = [e \in Executions |-> Nothing]
  /\ dir = [e \in Executions |-> Nothing]
  /\ left = [e \in Executions |-> {}]
  /\ report = [e \in Executions |-> [p \in Paths |-> "none"]]
  /\ sighted = [s \in Scans |-> [p \in Paths |-> Nothing]]
  /\ seen = [s \in Scans |-> {}]
  /\ present = [s \in Scans |-> {}]
  /\ approved = [e \in Executions |-> {}]
  /\ touched = {}
  /\ unreadable = {}

-----------------------------------------------------------------------------
(* The scanner. *)

\* The packages, of those whose identities are at hand, that also use p's token.
SharedWith(a, p, identities) == {b \in identities \ {a} : Layout[p].token \in Known[b]}

\* Mutant of Rate: a match is worth less the weaker the name is.
RateLow(a, p, identities) ==
  IF \/ ~ Layout[p].allowed
     \/ (Layout[p].owners \cap installed) \ {a} # {}
     \/ SharedWith(a, p, identities) # {}
  THEN "protected"
  ELSE IF Layout[p].token = Package[a] THEN "medium" ELSE "low"

\* Mutant of Rate: sharing is not looked at.
RateAlone(a, p, identities) ==
  IF ~ Layout[p].allowed \/ (Layout[p].owners \cap installed) \ {a} # {}
  THEN "protected"
  ELSE IF Layout[p].desktop \/ Layout[p].token = Package[a] THEN "high" ELSE "medium"

\* _evaluate_candidate(): policy, ownership and sharing are vetoes.
Rate(a, p, identities) ==
  IF \/ ~ Layout[p].allowed
     \/ (Layout[p].owners \cap installed) \ {a} # {}
     \/ SharedWith(a, p, identities) # {}
  THEN "protected"
  ELSE IF Layout[p].desktop \/ Layout[p].token = Package[a] THEN "high" ELSE "medium"

\* discover(): without its identity, a is known by its name alone.
Matched(a, p, identities) ==
  IF a \in identities THEN Layout[p].token \in IF Layout[p].desktop THEN DesktopIds[a] ELSE Known[a]
                      ELSE Layout[p].token = Package[a] /\ ~ Layout[p].desktop

\* scan() for package a, with these identities and a fresh ownership index.
ScanFor(s, a, identities) ==
  /\ app[s] = Nothing
  /\ app' = [app EXCEPT ![s] = a]
  /\ rating' = [rating EXCEPT ![s] =
       [p \in Paths |-> IF at[p] # Nothing /\ Matched(a, p, identities)
                        THEN Rate(a, p, identities) ELSE "absent"]]
  /\ results' = results \cup {s}
  /\ sighted' = [sighted EXCEPT ![s] = at]
  /\ seen' = [seen EXCEPT ![s] = identities]
  /\ present' = [present EXCEPT ![s] = installed]
  /\ UNCHANGED <<diskVars, storeVars, quarantine, refreshVars, current, workerVars, approved,
                 effectObs>>

\* A worker of the cleanup tab has the identities the window has by then,
Scan(s) ==
  /\ \E a \in offered : ScanFor(s, a, known)
  /\ UNCHANGED previews

\* and the analysis of a removal all of them.
Analyse(s) ==
  /\ \E a \in installed : ScanFor(s, a, installed)
  /\ previews' = previews \cup {s}

-----------------------------------------------------------------------------
(* The window. *)

\* The GUI thread runs the cleanup of a removal itself.
Busy == \E e \in Executions : source[e] \in previews /\ pc[e] \in Working \cup {"item"}

\* read() of refresh_state(), which is started at start-up and after every removal, of
\* Flatpak applications, too: at any time.
ReadIdentities ==
  /\ snapshots' = snapshots \cup {installed}
  /\ UNCHANGED <<diskVars, storeVars, quarantine, offered, known, scanVars, results, current,
                 workerVars, scanObs, approved, effectObs>>

\* apply() of refresh_state() fills in the identities.
Enrich ==
  /\ ~ Busy
  /\ \E identities \in snapshots :
       /\ known' = identities
       /\ snapshots' = snapshots \ {identities}
  /\ UNCHANGED <<diskVars, storeVars, quarantine, offered, scanVars, results, current,
                 workerVars, scanObs, approved, effectObs>>

\* _show_cleanup_scan() replaces the candidates and the list, unchecked.
ShowScan(s) ==
  /\ ~ Busy
  /\ s \in results \ previews
  /\ results' = results \ {s}
  /\ current' = s
  /\ UNCHANGED <<diskVars, storeVars, quarantine, refreshVars, scanVars, workerVars, scanObs,
                 approved, effectObs>>

\* The rows that can be checked, and the candidates they are mapped back to.
Listed(s) ==
  {p \in Paths : rating[s][p] \in {"high", "medium"} \cup IF ShowLow THEN {"low"} ELSE {}}
Eligible(s) == {p \in Paths : rating[s][p] \notin {"absent", "protected"}}

\* scan() sorts by confidence, as text, and path.
Rank == [high |-> 1, low |-> 2, medium |-> 3]
Sooner(s, p, q) ==
  \/ Rank[rating[s][p]] < Rank[rating[s][q]]
  \/ rating[s][p] = rating[s][q] /\ <<p, q>> \in Precedes

\* The index of p in the list of those in S.
Index(s, S, p) == Cardinality({q \in S : Sooner(s, q, p)})

\* What the user checked, with the objects that the scan saw.
Approval(s, checked) == {[path |-> p, object |-> sighted[s][p]] : p \in checked}

\* _run_cleanup(): row i stands for candidate i.
RunCleanup(e) ==
  /\ ~ Busy
  /\ pc[e] = "idle"
  /\ current # NoScan
  /\ \E checked \in SUBSET Listed(current) :
       LET selected == {p \in Eligible(current) :
                          \E q \in checked : Index(current, Eligible(current), p)
                                               = Index(current, Listed(current), q)}
       IN /\ selected # {}
          /\ todo' = [todo EXCEPT ![e] = selected]
          /\ approved' = [approved EXCEPT ![e] = Approval(current, checked)]
  /\ source' = [source EXCEPT ![e] = current]
  /\ moves' = [moves EXCEPT ![e] = quarantine]
  /\ pc' = [pc EXCEPT ![e] = "item"]
  /\ UNCHANGED <<diskVars, storeVars, windowVars, itemVars, report, scanObs, effectObs>>

\* A preview is accepted: each box belongs to its candidate, quarantine is chosen
\* here, and the removal is under way.
AcceptPreview(e) ==
  /\ ~ Busy
  /\ pc[e] = "idle"
  /\ \E s \in results \cap previews, ticked \in SUBSET Paths, quarantined \in BOOLEAN :
       /\ ticked \subseteq Listed(s)
       /\ results' = results \ {s}
       /\ source' = [source EXCEPT ![e] = s]
       /\ todo' = [todo EXCEPT ![e] = ticked]
       /\ approved' = [approved EXCEPT ![e] = Approval(s, ticked)]
       /\ moves' = [moves EXCEPT ![e] = quarantined]
  /\ pc' = [pc EXCEPT ![e] = "removing"]
  /\ UNCHANGED <<diskVars, storeVars, quarantine, refreshVars, scanVars, current, itemVars,
                 report, scanObs, effectObs>>

\* The helper removes packages: which, is the business of DesktopRemoval.
Remove(e) ==
  /\ pc[e] = "removing"
  /\ \E gone \in SUBSET installed : installed' = installed \ gone
  /\ pc' = [pc EXCEPT ![e] = "removed"]
  /\ UNCHANGED <<at, inside, born, changes, storeVars, windowVars, source, moves, todo, itemVars,
                 report, scanObs, approved, effectObs>>

\* _after_removal() of a success goes on with what was ticked;
AfterRemoval(e) ==
  /\ ~ Busy
  /\ pc[e] = "removed"
  /\ pc' = [pc EXCEPT ![e] = IF todo[e] = {} THEN "done" ELSE "item"]
  /\ UNCHANGED <<diskVars, storeVars, windowVars, source, moves, todo, itemVars, report, scanObs,
                 approved, effectObs>>

\* without a success nothing is cleaned up.
NotRemoved(e) ==
  /\ ~ Busy
  /\ pc[e] \in {"removing", "removed"}
  /\ pc' = [pc EXCEPT ![e] = "done"]
  /\ UNCHANGED <<diskVars, storeVars, windowVars, source, moves, todo, itemVars, report, scanObs,
                 approved, effectObs>>

-----------------------------------------------------------------------------
(* CleanupExecutor.execute(). *)

Goto(e, label) == pc' = [pc EXCEPT ![e] = label]

\* The item is reported, and the next one is taken or the run is over.
Report(e, p, verdict) ==
  /\ report' = [report EXCEPT ![e][p] = verdict]
  /\ todo' = [todo EXCEPT ![e] = @ \ {p}]
  /\ Goto(e, IF todo[e] = {p} THEN "done" ELSE "item")
  /\ item' = [item EXCEPT ![e] = Nothing]
  /\ identity' = [identity EXCEPT ![e] = Nothing]
  /\ dir' = [dir EXCEPT ![e] = Nothing]
  /\ left' = [left EXCEPT ![e] = {}]
  /\ UNCHANGED <<source, moves>>

\* Mutant of Capture: what is not there is captured, too.
CaptureAbsent(e) ==
  /\ pc[e] = "item"
  /\ \E p \in todo[e] :
       /\ Layout[p].allowed
       /\ item' = [item EXCEPT ![e] = p]
       /\ identity' = [identity EXCEPT ![e] = at[p]]
  /\ Goto(e, "verify")
  /\ UNCHANGED <<diskVars, storeVars, windowVars, source, moves, todo, dir, left, report,
                 scanObs, approved, effectObs>>

\* policy.require_allowed() and FileIdentity.capture(): lstat().
Capture(e) ==
  /\ pc[e] = "item"
  /\ \E p \in todo[e] :
       /\ Layout[p].allowed
       /\ at[p] # Nothing
       /\ item' = [item EXCEPT ![e] = p]
       /\ identity' = [identity EXCEPT ![e] = at[p]]
  /\ Goto(e, "verify")
  /\ UNCHANGED <<diskVars, storeVars, windowVars, source, moves, todo, dir, left, report,
                 scanObs, approved, effectObs>>

\* ... which refuse it, or find nothing.
Refuse(e) ==
  /\ pc[e] = "item"
  /\ \E p \in todo[e] : Report(e, p, "failed")
  /\ UNCHANGED <<diskVars, storeVars, windowVars, scanObs, approved, effectObs>>

\* Mutant of Fail: the item is left without a report.
FailInSilence(e) ==
  /\ pc[e] \in Working
  /\ todo' = [todo EXCEPT ![e] = @ \ {item[e]}]
  /\ Goto(e, IF todo[e] = {item[e]} THEN "done" ELSE "item")
  /\ UNCHANGED <<diskVars, storeVars, windowVars, source, moves, itemVars, report, scanObs,
                 approved, effectObs>>

\* Any call may raise an OSError, FileChanged or PathProtected, which ends the item.
Fail(e) ==
  /\ pc[e] \in Working
  /\ Report(e, item[e], "failed")
  /\ UNCHANGED <<diskVars, storeVars, windowVars, scanObs, approved, effectObs>>

\* open_parent_nofollow() and verify_identity().
Verify(e) ==
  /\ pc[e] = "verify"
  /\ at[item[e]] = identity[e]
  /\ Goto(e, IF moves[e] THEN "move" ELSE "list")
  /\ UNCHANGED <<diskVars, storeVars, windowVars, source, moves, todo, itemVars, report,
                 scanObs, approved, effectObs>>

\* The way an item is named in its quarantine directory.
Slot(e) == [txn |-> e, path |-> item[e], name |-> Layout[item[e]].name, ino |-> identity[e]]

\* Mutant of SameSlot: the transactions share one directory.
SharedDirectory(r, s) == r.name = s.name /\ r.ino = s.ino

\* <name>.<ino> in the directory of the transaction.
SameSlot(r, s) == r.txn = s.txn /\ r.name = s.name /\ r.ino = s.ino

\* os.rename() moves what is there now, over what the slot holds (which a rename
\* of a directory onto a full one does not: that is a Fail).
Move(e) ==
  /\ pc[e] = "move"
  /\ at[item[e]] # Nothing
  /\ LET o == at[item[e]]
         slot == Slot(e)
     IN /\ stash' = {r \in stash : ~ SameSlot(r, slot)} \cup
                    {[txn |-> e, path |-> slot.path, name |-> slot.name, ino |-> slot.ino,
                      object |-> o]}
        /\ touched' = touched \cup {[by |-> e, path |-> item[e], object |-> o]}
  /\ at' = [at EXCEPT ![item[e]] = Nothing]
  /\ Goto(e, "record")
  /\ UNCHANGED <<installed, inside, born, changes, manifest, windowVars, source, moves, todo,
                 itemVars, report, scanObs, approved, unreadable>>

\* Mutant of Record: the manifest is written, not appended to.
RecordLast(e) ==
  /\ pc[e] = "record"
  /\ manifest' = {m \in manifest : m.txn # e} \cup {Slot(e)}
  /\ unreadable' = unreadable
  /\ Report(e, item[e], "ok")
  /\ UNCHANGED <<diskVars, stash, windowVars, scanObs, approved, touched>>

\* _append_manifest(): a manifest that cannot be read counts as empty (one that is
\* not UTF-8 ends the whole run, but json.dumps() writes ASCII).  It is replaced in
\* one step.
Record(e) ==
  /\ pc[e] = "record"
  /\ \/ /\ manifest' = manifest \cup {Slot(e)}
        /\ UNCHANGED unreadable
     \/ /\ \E m \in manifest : m.txn = e
        /\ manifest' = {m \in manifest : m.txn # e} \cup {Slot(e)}
        /\ unreadable' = unreadable \cup {e}
  /\ Report(e, item[e], "ok")
  /\ UNCHANGED <<diskVars, stash, windowVars, scanObs, approved, touched>>

\* _delete_tree_inner(): the directory that is there now is opened and listed.
List(e) ==
  /\ pc[e] = "list"
  /\ at[item[e]] # Nothing
  /\ dir' = [dir EXCEPT ![e] = at[item[e]]]
  /\ left' = [left EXCEPT ![e] = inside[at[item[e]]]]
  /\ Goto(e, "unlink")
  /\ UNCHANGED <<diskVars, storeVars, windowVars, source, moves, todo, item, identity, report,
                 scanObs, approved, effectObs>>

\* One entry goes, if it still is there.
Unlink(e) ==
  /\ pc[e] = "unlink"
  /\ \E k \in left[e] \cap inside[dir[e]] :
       /\ inside' = [inside EXCEPT ![dir[e]] = @ \ {k}]
       /\ left' = [left EXCEPT ![e] = @ \ {k}]
  /\ touched' = touched \cup {[by |-> e, path |-> item[e], object |-> dir[e]]}
  /\ UNCHANGED <<installed, at, born, changes, storeVars, windowVars, pc, source, moves, todo,
                 item, identity, dir, report, scanObs, approved, unreadable>>

\* os.rmdir(), by name, of what is there and empty by now.
Rmdir(e) ==
  /\ pc[e] = "unlink"
  /\ left[e] = {}
  /\ at[item[e]] # Nothing
  /\ inside[at[item[e]]] = {}
  /\ at' = [at EXCEPT ![item[e]] = Nothing]
  /\ touched' = touched \cup {[by |-> e, path |-> item[e], object |-> at[item[e]]]}
  /\ Report(e, item[e], "ok")
  /\ UNCHANGED <<installed, inside, born, changes, storeVars, windowVars, scanObs, approved,
                 unreadable>>

WorkerStep(e) ==
  \/ Capture(e) \/ Refuse(e) \/ Fail(e) \/ Verify(e)
  \/ Move(e) \/ Record(e)
  \/ List(e) \/ Unlink(e) \/ Rmdir(e)

-----------------------------------------------------------------------------
(* Other programs. *)

Outsiders == <<storeVars, windowVars, workerVars, scanObs, approved, effectObs>>

OthersRemove(p) ==
  /\ changes < MaxChanges
  /\ at[p] # Nothing
  /\ at' = [at EXCEPT ![p] = Nothing]
  /\ changes' = changes + 1
  /\ UNCHANGED <<installed, inside, born, Outsiders>>

OthersCreate(p) ==
  /\ changes < MaxChanges
  /\ at[p] = Nothing
  /\ \E o \in Objects \ born :
       /\ Home[o] = p
       /\ at' = [at EXCEPT ![p] = o]
       /\ born' = born \cup {o}
  /\ changes' = changes + 1
  /\ UNCHANGED <<installed, inside, Outsiders>>

OthersWrite(p) ==
  /\ changes < MaxChanges
  /\ at[p] # Nothing
  /\ \E k \in Entries \ inside[at[p]] : inside' = [inside EXCEPT ![at[p]] = @ \cup {k}]
  /\ changes' = changes + 1
  /\ UNCHANGED <<installed, at, born, Outsiders>>

OthersInstall(a) ==
  /\ changes < MaxChanges
  /\ a \notin installed
  /\ installed' = installed \cup {a}
  /\ changes' = changes + 1
  /\ UNCHANGED <<at, inside, born, Outsiders>>

OthersUninstall(a) ==
  /\ changes < MaxChanges
  /\ a \in installed
  /\ installed' = installed \ {a}
  /\ changes' = changes + 1
  /\ UNCHANGED <<at, inside, born, Outsiders>>

-----------------------------------------------------------------------------
Next ==
  \/ \E s \in Scans : Scan(s) \/ Analyse(s) \/ ShowScan(s)
  \/ ReadIdentities \/ Enrich
  \/ \E e \in Executions :
       \/ RunCleanup(e) \/ AcceptPreview(e) \/ Remove(e) \/ AfterRemoval(e) \/ NotRemoved(e)
       \/ WorkerStep(e)
  \/ \E p \in Paths : OthersRemove(p) \/ OthersCreate(p) \/ OthersWrite(p)
  \/ \E a \in Apps : OthersInstall(a) \/ OthersUninstall(a)

Spec == Init /\ [][Next]_vars

-----------------------------------------------------------------------------
(* Properties. *)

\* Only what the user checked is touched, although rows are mapped back to
\* candidates by index and the two lists are filtered differently.
OnlyCheckedAreTouched ==
  \A t \in touched : \E a \in approved[t.by] : a.path = t.path

\* Scan s had another package's identity that matches p, or another package that was
\* installed had files at or below p.
Warned(s, p) ==
  \/ SharedWith(app[s], p, seen[s]) # {}
  \/ (Layout[p].owners \cap present[s]) \ {app[s]} # {}

\* What the scan's own vetoes achieve: a cleanup touches what another package uses or
\* owns only if the scan could not know, because the package came later or its identity
\* had not reached the window.
OnlyUnseenAreHurt ==
  \A t \in touched : ~ Warned(source[t.by], t.path)

\* Whatever call fails half way and whoever interferes, a cleanup reports every item
\* that it has touched, and as removed none that it has not.
TouchesAreReported ==
  /\ \A t \in touched : \/ report[t.by][t.path] # "none"
                        \/ pc[t.by] \in Working /\ item[t.by] = t.path
  /\ \A e \in Executions, p \in Paths :
       report[e][p] = "ok" => \E t \in touched : t.by = e /\ t.path = p

\* Quarantine loses nothing: what it took is in its directory, whatever the
\* names and however two executions interleave.
QuarantineLosesNothing ==
  \A t \in touched :
    moves[t.by] => \E r \in stash : r.txn = t.by /\ r.object = t.object

\* What is in quarantine without a manifest entry is the item at hand (for
\* good, if the application died there), or was reported as failed, or the
\* manifest could not be read back.
UnlistedIsAtHandOrFailed ==
  \A r \in stash :
    \/ [txn |-> r.txn, path |-> r.path, name |-> r.name, ino |-> r.ino] \in manifest
    \/ pc[r.txn] = "record" /\ item[r.txn] = r.path
    \/ report[r.txn][r.path] = "failed"
    \/ r.txn \in unreadable

\* filesystem.py: the object deleted is proven to be the same object (dev and
\* ino) the user approved in the preview.  What identity e works with is that object:
ApprovedObject(e) == [path |-> item[e], object |-> identity[e]] \in approved[e]

\* throughout.
ProvenIsApproved == \A e \in Executions : pc[e] \in {"move", "list"} => ApprovedObject(e)

\* What another package that is installed now uses or owns.
UsedByOthers(a, p) == SharedWith(a, p, installed) \cup ((Layout[p].owners \cap installed) \ {a})

\* What has been replaced since the scan, and is by now another package's, is not
\* taken up: at least one of two checks stops it, that the object is the one the user
\* approved, or the second look that the documents promise of every veto.
ReplacedAndOthersIsSpared ==
  [][\A e \in Executions :
       pc[e] = "item" /\ pc'[e] = "verify" =>
         ApprovedObject(e)' \/ UsedByOthers(app[source[e]], item'[e]) = {}]_vars
=============================================================================
