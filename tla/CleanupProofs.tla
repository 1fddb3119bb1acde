---------------------------- MODULE CleanupProofs ----------------------------
(***************************************************************************)
(* Proofs about Cleanup, for any paths, objects, packages, scans and       *)
(* executions, and any number of changes by other programs.                *)
(***************************************************************************)
EXTENDS Cleanup, FiniteSetTheorems, TLAPS

-----------------------------------------------------------------------------
(* Types. *)

LEMMA UnchangedTypes ==
  /\ DiskOK /\ UNCHANGED <<diskVars, storeVars>> => DiskOK'
  /\ WindowOK /\ UNCHANGED windowVars => WindowOK'
  /\ WorkersOK /\ UNCHANGED workerVars => WorkersOK'
  /\ ObserversOK /\ UNCHANGED <<scanObs, approved, effectObs>> => ObserversOK'
BY DEF DiskOK, diskVars, storeVars, WindowOK, windowVars, refreshVars, scanVars, WorkersOK,
       workerVars, itemVars, ObserversOK, scanObs, effectObs

LEMMA RateTypes ==
  ASSUME NEW a, NEW p, NEW identities
  PROVE  Rate(a, p, identities) \in {"high", "medium", "protected"}
BY DEF Rate

\* What the end of an item does to the worker.
LEMMA ReportTypes ==
  ASSUME WorkersOK, NEW e \in Executions, NEW p \in Paths, NEW verdict \in {"ok", "failed"},
         Report(e, p, verdict)
  PROVE  WorkersOK'
<1> USE DEF WorkersOK, Report, Goto
<1>1. pc' \in [Executions -> Label] /\ todo' \in [Executions -> SUBSET Paths]
  BY DEF Label
<1>2. /\ item' \in [Executions -> Paths \cup {Nothing}]
      /\ identity' \in [Executions -> Objects \cup {Nothing}]
      /\ dir' \in [Executions -> Objects \cup {Nothing}]
      /\ left' \in [Executions -> SUBSET Entries]
  OBVIOUS
<1>3. report' \in [Executions -> [Paths -> {"none", "ok", "failed"}]]
  OBVIOUS
<1>4. ASSUME NEW f \in Executions
      PROVE  /\ pc'[f] \in Working => item'[f] \in Paths /\ identity'[f] \in Objects
             /\ pc'[f] = "unlink" => dir'[f] \in Objects
  BY DEF Working
<1> QED
  BY <1>1, <1>2, <1>3, <1>4

LEMMA ScanTypes ==
  ASSUME TypeOK, NEW s \in Scans, NEW a \in Apps, NEW identities \in SUBSET Apps,
         ScanFor(s, a, identities), previews' \in SUBSET Scans
  PROVE  TypeOK'
<1> USE UnchangedTypes DEF TypeOK
<1>1. [p \in Paths |-> IF at[p] # Nothing /\ Matched(a, p, identities) THEN Rate(a, p, identities)
                       ELSE "absent"] \in [Paths -> Confidence \cup {"absent"}]
  BY RateTypes DEF Confidence
<1>2. rating' \in [Scans -> [Paths -> Confidence \cup {"absent"}]]
  BY <1>1 DEF ScanFor, WindowOK
<1>3. WindowOK'
  BY <1>2 DEF ScanFor, WindowOK, refreshVars
<1>4. ObserversOK'
  BY DEF ScanFor, ObserversOK, DiskOK, effectObs
<1> QED
  BY <1>3, <1>4 DEF ScanFor

\* Steps of the window and of its other workers; the removal of packages.
LEMMA WindowTypes ==
  ASSUME TypeOK, NEW s \in Scans,
         Scan(s) \/ Analyse(s) \/ ShowScan(s)
  PROVE  TypeOK'
<1> USE UnchangedTypes DEF TypeOK
<1>1. CASE Scan(s)
  BY <1>1, ScanTypes DEF Scan, WindowOK
<1>2. CASE Analyse(s)
  BY <1>2, ScanTypes DEF Analyse, WindowOK, DiskOK
<1>3. CASE ShowScan(s)
  BY <1>3 DEF ShowScan, WindowOK, refreshVars, scanVars
<1> QED
  BY <1>1, <1>2, <1>3

LEMMA RefreshTypes ==
  ASSUME TypeOK, ReadIdentities \/ Enrich
  PROVE  TypeOK'
<1> USE UnchangedTypes DEF TypeOK
<1>1. CASE ReadIdentities
  <2>1. snapshots' \in SUBSET (SUBSET Apps)
    BY <1>1 DEF ReadIdentities, WindowOK, DiskOK
  <2> QED
    BY <1>1, <2>1 DEF ReadIdentities, WindowOK, scanVars
<1>2. CASE Enrich
  BY <1>2 DEF Enrich, WindowOK, scanVars
<1> QED
  BY <1>1, <1>2

LEMMA ApprovalTypes ==
  ASSUME TypeOK, NEW s \in Scans, NEW checked \in SUBSET Paths
  PROVE  Approval(s, checked) \in SUBSET [path : Paths, object : Objects \cup {Nothing}]
BY DEF TypeOK, ObserversOK, Approval

LEMMA ListedTypes ==
  ASSUME NEW s
  PROVE  Listed(s) \in SUBSET Paths /\ Eligible(s) \in SUBSET Paths
BY DEF Listed, Eligible

LEMMA RunTypes ==
  ASSUME TypeOK, NEW e \in Executions, RunCleanup(e)
  PROVE  TypeOK'
<1> USE UnchangedTypes DEF TypeOK
<1>1. PICK checked \in SUBSET Listed(current) :
        /\ todo' = [todo EXCEPT ![e] =
             {p \in Eligible(current) : \E q \in checked :
                Index(current, Eligible(current), p) = Index(current, Listed(current), q)}]
        /\ approved' = [approved EXCEPT ![e] = Approval(current, checked)]
  BY DEF RunCleanup
<1>2. current \in Scans /\ checked \in SUBSET Paths
  BY <1>1, ListedTypes DEF RunCleanup, WindowOK
<1>3. todo' \in [Executions -> SUBSET Paths]
  BY <1>1, ListedTypes DEF WorkersOK
<1>4. WorkersOK'
  BY <1>2, <1>3 DEF RunCleanup, WorkersOK, WindowOK, itemVars, Label, Working
<1>5. ObserversOK'
  BY <1>1, <1>2, ApprovalTypes DEF RunCleanup, ObserversOK, scanObs, effectObs
<1> QED
  BY <1>4, <1>5 DEF RunCleanup

LEMMA AcceptTypes ==
  ASSUME TypeOK, NEW e \in Executions, AcceptPreview(e)
  PROVE  TypeOK'
<1> USE UnchangedTypes DEF TypeOK
<1>1. PICK s \in results \cap previews, ticked \in SUBSET Paths, quarantined \in BOOLEAN :
        /\ results' = results \ {s}
        /\ source' = [source EXCEPT ![e] = s]
        /\ todo' = [todo EXCEPT ![e] = ticked]
        /\ approved' = [approved EXCEPT ![e] = Approval(s, ticked)]
        /\ moves' = [moves EXCEPT ![e] = quarantined]
  BY DEF AcceptPreview
<1>2. s \in Scans
  BY DEF WindowOK
<1>3. WindowOK'
  BY <1>1 DEF AcceptPreview, WindowOK, refreshVars, scanVars
<1>4. WorkersOK'
  BY <1>1, <1>2 DEF AcceptPreview, WorkersOK, itemVars, Label, Working
<1>5. ObserversOK'
  BY <1>1, <1>2, ApprovalTypes DEF AcceptPreview, ObserversOK, scanObs, effectObs
<1> QED
  BY <1>3, <1>4, <1>5 DEF AcceptPreview

LEMMA RemovalTypes ==
  ASSUME TypeOK, NEW e \in Executions, Remove(e) \/ AfterRemoval(e) \/ NotRemoved(e)
  PROVE  TypeOK'
<1> USE UnchangedTypes DEF TypeOK
<1>1. WorkersOK'
  BY DEF Remove, AfterRemoval, NotRemoved, WorkersOK, itemVars, Label, Working
<1>2. CASE Remove(e)
  <2>1. DiskOK'
    BY <1>2 DEF Remove, DiskOK, storeVars
  <2> QED
    BY <1>1, <1>2, <2>1 DEF Remove
<1>3. CASE AfterRemoval(e)
  BY <1>1, <1>3 DEF AfterRemoval
<1>4. CASE NotRemoved(e)
  BY <1>1, <1>4 DEF NotRemoved
<1> QED
  BY <1>2, <1>3, <1>4

LEMMA WorkerTypes ==
  ASSUME TypeOK, NEW e \in Executions, WorkerStep(e)
  PROVE  TypeOK'
<1> USE UnchangedTypes DEF TypeOK
<1>1. CASE Capture(e)
  <2>1. PICK p \in todo[e] :
          /\ at[p] # Nothing
          /\ item' = [item EXCEPT ![e] = p]
          /\ identity' = [identity EXCEPT ![e] = at[p]]
    BY <1>1 DEF Capture
  <2>2. p \in Paths /\ at[p] \in Objects
    BY <2>1 DEF WorkersOK, DiskOK
  <2>3. WorkersOK'
    BY <1>1, <2>1, <2>2 DEF Capture, Goto, WorkersOK, Label, Working
  <2> QED
    BY <1>1, <2>3 DEF Capture
<1>2. CASE Refuse(e)
  <2>1. PICK p \in todo[e] : Report(e, p, "failed")
    BY <1>2 DEF Refuse
  <2>2. WorkersOK'
    BY <2>1, ReportTypes DEF WorkersOK
  <2> QED
    BY <1>2, <2>2 DEF Refuse
<1>3. CASE Fail(e)
  <2>1. WorkersOK'
    BY <1>3, ReportTypes DEF Fail, WorkersOK
  <2> QED
    BY <1>3, <2>1 DEF Fail
<1>4. CASE Verify(e)
  <2>1. WorkersOK'
    BY <1>4 DEF Verify, Goto, WorkersOK, itemVars, Label, Working
  <2> QED
    BY <1>4, <2>1 DEF Verify
<1>5. CASE Move(e)
  <2>1. item[e] \in Paths /\ identity[e] \in Objects /\ at[item[e]] \in Objects
    BY <1>5 DEF Move, WorkersOK, DiskOK, Working
  <2>2. Layout[item[e]].name \in Tokens
    BY <2>1, LayoutOK
  <2>3. stash' \in SUBSET [txn : Executions, path : Paths, name : Tokens, ino : Objects,
                           object : Objects]
    BY <1>5, <2>1, <2>2 DEF Move, Slot, DiskOK
  <2>4. DiskOK'
    BY <1>5, <2>1, <2>3 DEF Move, DiskOK
  <2>5. WorkersOK'
    BY <1>5 DEF Move, Goto, WorkersOK, itemVars, Label, Working
  <2>6. touched' \in SUBSET [by : Executions, path : Paths, object : Objects]
    BY <1>5, <2>1 DEF Move, ObserversOK
  <2>7. ObserversOK'
    BY <1>5, <2>6 DEF Move, ObserversOK, scanObs
  <2> QED
    BY <1>5, <2>4, <2>5, <2>7 DEF Move
<1>6. CASE Record(e)
  <2>1. item[e] \in Paths /\ identity[e] \in Objects
    BY <1>6 DEF Record, WorkersOK, Working
  <2>2. Slot(e) \in [txn : Executions, path : Paths, name : Tokens, ino : Objects]
    BY <2>1, LayoutOK DEF Slot
  <2>3. DiskOK'
    BY <1>6, <2>2 DEF Record, DiskOK, diskVars
  <2>4. WorkersOK'
    BY <1>6, <2>1, ReportTypes DEF Record
  <2>5. ObserversOK'
    BY <1>6 DEF Record, ObserversOK, scanObs
  <2> QED
    BY <1>6, <2>3, <2>4, <2>5 DEF Record
<1>7. CASE List(e)
  <2>1. item[e] \in Paths /\ at[item[e]] \in Objects /\ inside[at[item[e]]] \in SUBSET Entries
    BY <1>7 DEF List, WorkersOK, DiskOK, Working
  <2>2. WorkersOK'
    BY <1>7, <2>1 DEF List, Goto, WorkersOK, Label, Working
  <2> QED
    BY <1>7, <2>2 DEF List
<1>8. CASE Unlink(e)
  <2>1. item[e] \in Paths /\ dir[e] \in Objects
    BY <1>8 DEF Unlink, WorkersOK, Working
  <2>2. PICK k \in left[e] :
          /\ inside' = [inside EXCEPT ![dir[e]] = @ \ {k}]
          /\ left' = [left EXCEPT ![e] = @ \ {k}]
    BY <1>8 DEF Unlink
  <2>3. DiskOK'
    BY <1>8, <2>1, <2>2 DEF Unlink, DiskOK, storeVars
  <2>4. left' \in [Executions -> SUBSET Entries]
    BY <2>2 DEF WorkersOK
  <2>5. WorkersOK'
    BY <1>8, <2>4 DEF Unlink, WorkersOK
  <2>6. touched' \in SUBSET [by : Executions, path : Paths, object : Objects]
    BY <1>8, <2>1 DEF Unlink, ObserversOK
  <2>7. ObserversOK'
    BY <1>8, <2>6 DEF Unlink, ObserversOK, scanObs
  <2> QED
    BY <1>8, <2>3, <2>5, <2>7 DEF Unlink
<1>9. CASE Rmdir(e)
  <2>1. item[e] \in Paths /\ at[item[e]] \in Objects
    BY <1>9 DEF Rmdir, WorkersOK, DiskOK, Working
  <2>2. DiskOK'
    BY <1>9, <2>1 DEF Rmdir, DiskOK, storeVars
  <2>3. WorkersOK'
    BY <1>9, <2>1, ReportTypes DEF Rmdir
  <2>4. touched' \in SUBSET [by : Executions, path : Paths, object : Objects]
    BY <1>9, <2>1 DEF Rmdir, ObserversOK
  <2>5. ObserversOK'
    BY <1>9, <2>4 DEF Rmdir, ObserversOK, scanObs
  <2> QED
    BY <1>9, <2>2, <2>3, <2>5 DEF Rmdir
<1> QED
  BY <1>1, <1>2, <1>3, <1>4, <1>5, <1>6, <1>7, <1>8, <1>9 DEF WorkerStep

LEMMA OthersTypes ==
  ASSUME TypeOK,
         \/ \E p \in Paths : OthersRemove(p) \/ OthersCreate(p) \/ OthersWrite(p)
         \/ \E a \in Apps : OthersInstall(a) \/ OthersUninstall(a)
  PROVE  TypeOK'
<1> USE UnchangedTypes DEF TypeOK
<1>1. UNCHANGED Outsiders
  BY DEF OthersRemove, OthersCreate, OthersWrite, OthersInstall, OthersUninstall
<1>2. DiskOK'
  BY <1>1 DEF OthersRemove, OthersCreate, OthersWrite, OthersInstall, OthersUninstall, DiskOK,
              Outsiders, storeVars
<1> QED
  BY <1>1, <1>2 DEF Outsiders

LEMMA InitTypes == Init => TypeOK
BY NamesOK DEF Init, TypeOK, DiskOK, WindowOK, WorkersOK, ObserversOK, Confidence, Label, Working

\* Every variable of the disk, the quarantine, the window and the workers keeps
\* its type, and a worker with an item at hand has captured its identity.
THEOREM CleanupTypeCorrect == Spec => []TypeOK
<1>1. TypeOK /\ [Next]_vars => TypeOK'
  <2> SUFFICES ASSUME TypeOK, [Next]_vars PROVE TypeOK'
    OBVIOUS
  <2>1. CASE (\E s \in Scans : Scan(s) \/ Analyse(s) \/ ShowScan(s))
    BY <2>1, WindowTypes
  <2>2. CASE ReadIdentities \/ Enrich
    BY <2>2, RefreshTypes
  <2>3. CASE \E e \in Executions : RunCleanup(e) \/ AcceptPreview(e)
    BY <2>3, RunTypes, AcceptTypes
  <2>4. CASE \E e \in Executions : Remove(e) \/ AfterRemoval(e) \/ NotRemoved(e)
    BY <2>4, RemovalTypes
  <2>5. CASE \E e \in Executions : WorkerStep(e)
    BY <2>5, WorkerTypes
  <2>7. CASE \/ \E p \in Paths : OthersRemove(p) \/ OthersCreate(p) \/ OthersWrite(p)
             \/ \E a \in Apps : OthersInstall(a) \/ OthersUninstall(a)
    BY <2>7, OthersTypes
  <2>6. CASE UNCHANGED vars
    BY <2>6, UnchangedTypes DEF vars, TypeOK
  <2> QED
    BY <2>1, <2>2, <2>3, <2>4, <2>5, <2>6, <2>7 DEF Next
<1> QED
  BY <1>1, InitTypes, PTL DEF Spec
-----------------------------------------------------------------------------
(* The inductive invariant. *)

\* The window: nothing is rated low, and of what a scan offers nothing warned it.
ScansInv ==
  /\ \A s \in Scans, p \in Paths :
       /\ rating[s][p] # "low"
       /\ rating[s][p] \in {"high", "medium"} => app[s] \in Apps /\ ~ Warned(s, p)
  /\ \A s \in Scans : s \in results \/ s = current => app[s] \in Apps

\* The workers: what is still to come was checked in the list of a scan.
RunsInv ==
  \A e \in Executions : pc[e] # "idle" =>
    /\ source[e] \in Scans
    /\ app[source[e]] \in Apps
    /\ \A p \in todo[e] :
         /\ \E a \in approved[e] : a.path = p
         /\ ~ Warned(source[e], p)

\* The item at hand is still to come, and its identity belongs to its path.
ItemsInv ==
  \A e \in Executions :
    /\ pc[e] \in Working => item[e] \in todo[e] /\ Home[identity[e]] = item[e]
    /\ moves[e] => pc[e] \notin {"list", "unlink"}

TouchedInv ==
  \A t \in touched : pc[t.by] # "idle" /\ source[t.by] \in Scans /\ app[source[t.by]] \in Apps

AtHome == \A p \in Paths : at[p] # Nothing => Home[at[p]] = p

\* r was moved for the item at hand.
AtHand(r) ==
  /\ pc[r.txn] = "record"
  /\ item[r.txn] = r.path
  /\ identity[r.txn] = r.ino
  /\ r.name = Layout[r.path].name

\* What is in quarantine has had its turn, or is at hand.
StashInv ==
  \A r \in stash :
    /\ Home[r.ino] = r.path
    /\ pc[r.txn] # "idle"
    /\ r.path \notin todo[r.txn] \/ AtHand(r)

CleanupInv ==
  /\ TypeOK /\ ScansInv /\ RunsInv /\ ItemsInv /\ TouchedInv /\ AtHome /\ StashInv

-----------------------------------------------------------------------------
(* Rows and candidates: the lists are the same, and an index says which. *)

LEMMA ListsAgree ==
  ASSUME TypeOK, ScansInv, NEW s \in Scans
  PROVE  Listed(s) = Eligible(s)
BY DEF TypeOK, WindowOK, ScansInv, Listed, Eligible, Confidence

\* Candidates of a scan that rates nothing low are in a strict total order.
LEMMA SoonerIsAnOrder ==
  ASSUME TypeOK, ScansInv, NEW s \in Scans,
         NEW p \in Eligible(s), NEW q \in Eligible(s), NEW r \in Eligible(s)
  PROVE  /\ ~ Sooner(s, p, p)
         /\ p # q => Sooner(s, p, q) \/ Sooner(s, q, p)
         /\ Sooner(s, p, q) /\ Sooner(s, q, r) => Sooner(s, p, r)
<1>1. \A x \in Eligible(s) : x \in Paths /\ rating[s][x] \in {"high", "medium"}
  BY DEF TypeOK, WindowOK, ScansInv, Eligible, Confidence
<1>2. \A x \in Eligible(s) : Rank[rating[s][x]] \in {1, 3}
  BY <1>1 DEF Rank
<1>3. \A x, y \in Eligible(s) : Rank[rating[s][x]] = Rank[rating[s][y]] => rating[s][x] = rating[s][y]
  BY <1>1 DEF Rank
<1>4. ~ Sooner(s, p, p)
  BY <1>1, <1>2, OrderOK DEF Sooner
<1>5. p # q => Sooner(s, p, q) \/ Sooner(s, q, p)
  BY <1>1, <1>2, <1>3, OrderOK DEF Sooner
<1>6. Sooner(s, p, q) /\ Sooner(s, q, r) => Sooner(s, p, r)
  BY <1>1, <1>2, <1>3, OrderOK DEF Sooner
<1> QED
  BY <1>4, <1>5, <1>6

LEMMA SoonerHasSmallerIndex ==
  ASSUME TypeOK, ScansInv, NEW s \in Scans,
         NEW p \in Eligible(s), NEW q \in Eligible(s), Sooner(s, p, q)
  PROVE  Index(s, Eligible(s), p) # Index(s, Eligible(s), q)
<1> DEFINE Before(x) == {y \in Eligible(s) : Sooner(s, y, x)}
<1>1. IsFiniteSet(Before(q))
  BY FS_Subset, OrderOK DEF Eligible
<1>2. Before(p) \subseteq Before(q)
  BY SoonerIsAnOrder
<1>3. p \in Before(q) /\ p \notin Before(p)
  BY SoonerIsAnOrder
<1>4. Cardinality(Before(p)) # Cardinality(Before(q))
  BY <1>1, <1>2, <1>3, FS_Subset
<1> QED
  BY <1>4 DEF Index

LEMMA IndexNamesOne ==
  ASSUME TypeOK, ScansInv, NEW s \in Scans,
         NEW p \in Eligible(s), NEW q \in Listed(s),
         Index(s, Eligible(s), p) = Index(s, Listed(s), q)
  PROVE  p = q
BY ListsAgree, SoonerIsAnOrder, SoonerHasSmallerIndex

-----------------------------------------------------------------------------
(* Steps of the window. *)

LEMMA UnchangedInv ==
  /\ ScansInv /\ UNCHANGED <<app, rating, results, current, scanObs>> => ScansInv'
  /\ RunsInv /\ UNCHANGED <<pc, source, todo, app, scanObs, approved>> => RunsInv'
  /\ ItemsInv /\ UNCHANGED workerVars => ItemsInv'
  /\ TouchedInv /\ UNCHANGED <<touched, pc, source, app>> => TouchedInv'
  /\ AtHome /\ UNCHANGED at => AtHome'
  /\ StashInv /\ UNCHANGED <<stash, workerVars>> => StashInv'
BY DEF ScansInv, RunsInv, Warned, SharedWith, scanObs, ItemsInv, TouchedInv, workerVars, itemVars,
       AtHome, StashInv, AtHand

\* A scan is made once, and what it was warned of is its own.
LEMMA ScanKeeps ==
  ASSUME CleanupInv, NEW s \in Scans, NEW a \in Apps, NEW identities \in SUBSET Apps,
         ScanFor(s, a, identities), TypeOK'
  PROVE  CleanupInv'
<1> USE DEF CleanupInv
<1>1. /\ app' = [app EXCEPT ![s] = a]
      /\ rating' = [rating EXCEPT ![s] =
           [p \in Paths |-> IF at[p] # Nothing /\ Matched(a, p, identities)
                            THEN Rate(a, p, identities) ELSE "absent"]]
      /\ seen' = [seen EXCEPT ![s] = identities]
      /\ present' = [present EXCEPT ![s] = installed]
      /\ results' = results \cup {s}
      /\ current' = current
  BY DEF ScanFor
<1>2. app[s] = Nothing /\ Nothing \notin Apps
  BY NamesOK DEF ScanFor
<1>3. \A u \in Scans \ {s} : /\ app'[u] = app[u]
                             /\ rating'[u] = rating[u]
                             /\ \A p : Warned(u, p)' <=> Warned(u, p)
  BY <1>1 DEF TypeOK, WindowOK, ObserversOK, Warned, SharedWith
<1>4. ASSUME NEW p \in Paths, rating'[s][p] \in {"high", "medium"}
      PROVE  app'[s] \in Apps /\ ~ Warned(s, p)'
  <2>1. rating'[s][p] = IF at[p] # Nothing /\ Matched(a, p, identities)
                        THEN Rate(a, p, identities) ELSE "absent"
    BY <1>1 DEF TypeOK, WindowOK
  <2>2. SharedWith(a, p, identities) = {} /\ (Layout[p].owners \cap installed) \ {a} = {}
    BY <1>4, <2>1 DEF Rate
  <2>3. app'[s] = a /\ seen'[s] = identities /\ present'[s] = installed
    BY <1>1 DEF TypeOK, WindowOK, ObserversOK
  <2> QED
    BY <2>2, <2>3 DEF Warned, SharedWith
<1>5. \A p \in Paths : rating'[s][p] # "low"
  <2>1. \A p \in Paths : rating'[s][p] \in {Rate(a, p, identities), "absent"}
    BY <1>1 DEF TypeOK, WindowOK
  <2> QED
    BY <2>1, RateTypes
<1>6. \A u \in Scans : u \in results' \/ u = current' => app'[u] \in Apps
  BY <1>1, <1>3 DEF TypeOK, WindowOK, ScansInv
<1>7. ScansInv'
  BY <1>3, <1>4, <1>5, <1>6 DEF ScansInv
<1>8. UNCHANGED <<pc, source, todo, approved, touched, workerVars, at, stash>>
  BY DEF ScanFor, workerVars, itemVars, diskVars, storeVars, effectObs
<1>9. \A u \in Scans : app[u] \in Apps => u # s
  BY <1>2
<1>10. RunsInv'
  BY <1>3, <1>8, <1>9 DEF RunsInv
<1>11. TouchedInv'
  BY <1>3, <1>8, <1>9 DEF TouchedInv
<1> QED
  BY <1>7, <1>8, <1>10, <1>11, UnchangedInv

\* The window changes hands: workers, disk and quarantine are left alone.
LEMMA WindowKeeps ==
  ASSUME CleanupInv, TypeOK', results' \subseteq results,
         UNCHANGED <<diskVars, storeVars, scanVars, workerVars, scanObs, approved, effectObs>>,
         current' = current \/ current' \in results
  PROVE  CleanupInv'
<1> USE DEF CleanupInv
<1>1. UNCHANGED <<at, stash, app, rating, pc, source, todo, touched>>
  BY DEF diskVars, storeVars, scanVars, workerVars, effectObs
<1>2. ScansInv'
  BY <1>1 DEF ScansInv, Warned, SharedWith, scanObs
<1> QED
  BY <1>1, <1>2, UnchangedInv

LEMMA RefreshKeeps ==
  ASSUME CleanupInv, ReadIdentities \/ Enrich
  PROVE  CleanupInv'
<1>1. TypeOK'
  BY RefreshTypes DEF CleanupInv
<1> QED
  BY <1>1, WindowKeeps DEF ReadIdentities, Enrich

LEMMA ShowKeeps ==
  ASSUME CleanupInv, NEW s \in Scans, Scan(s) \/ Analyse(s) \/ ShowScan(s)
  PROVE  CleanupInv'
<1>1. TypeOK'
  BY WindowTypes DEF CleanupInv
<1>2. known \in SUBSET Apps /\ offered \in SUBSET Apps /\ installed \in SUBSET Apps
  BY DEF CleanupInv, TypeOK, WindowOK, DiskOK
<1>3. CASE Scan(s)
  BY <1>1, <1>2, <1>3, ScanKeeps DEF Scan
<1>4. CASE Analyse(s)
  BY <1>1, <1>2, <1>4, ScanKeeps DEF Analyse
<1>5. CASE ShowScan(s)
  BY <1>1, <1>5, WindowKeeps DEF ShowScan
<1> QED
  BY <1>3, <1>4, <1>5

\* A cleanup begins, with what was checked in the list of one scan.
LEMMA StartKeeps ==
  ASSUME CleanupInv, TypeOK', NEW e \in Executions, NEW s \in Scans,
         NEW checked \in SUBSET Listed(s), NEW selected \in SUBSET checked,
         NEW label \in {"item", "removing"},
         pc[e] = "idle", app[s] \in Apps,
         pc' = [pc EXCEPT ![e] = label],
         source' = [source EXCEPT ![e] = s],
         todo' = [todo EXCEPT ![e] = selected],
         approved' = [approved EXCEPT ![e] = Approval(s, checked)],
         \A f \in Executions \ {e} : moves'[f] = moves[f],
         results' \subseteq results,
         UNCHANGED <<at, stash, app, rating, current, itemVars, touched, scanObs>>
  PROVE  CleanupInv'
<1> USE DEF CleanupInv
<1>1. pc'[e] = label /\ source'[e] = s /\ todo'[e] = selected /\ approved'[e] = Approval(s, checked)
  BY DEF TypeOK, WorkersOK, ObserversOK
<1>2. \A f \in Executions \ {e} :
        pc'[f] = pc[f] /\ source'[f] = source[f] /\ todo'[f] = todo[f] /\ approved'[f] = approved[f]
  BY DEF TypeOK, WorkersOK, ObserversOK
<1>3. \A u, p : Warned(u, p)' <=> Warned(u, p)
  BY DEF Warned, SharedWith, scanObs
<1>4. ASSUME NEW p \in selected
      PROVE  (\E a \in approved'[e] : a.path = p) /\ ~ Warned(s, p)
  <2>1. p \in Eligible(s)
    BY ListsAgree
  <2>2. p \in Paths /\ rating[s][p] \in {"high", "medium"}
    BY <2>1 DEF Eligible, TypeOK, WindowOK, ScansInv, Confidence
  <2>3. [path |-> p, object |-> sighted[s][p]] \in approved'[e]
    BY <1>1 DEF Approval
  <2> QED
    BY <2>2, <2>3 DEF ScansInv
<1>5. RunsInv'
  BY <1>1, <1>2, <1>3, <1>4 DEF RunsInv
<1>6. ItemsInv'
  BY <1>1, <1>2 DEF ItemsInv, itemVars, Working
<1>7. TouchedInv'
  BY <1>1, <1>2 DEF TouchedInv, TypeOK, ObserversOK
<1>8. StashInv'
  BY <1>1, <1>2 DEF StashInv, AtHand, TypeOK, DiskOK, itemVars
<1>9. ScansInv'
  BY <1>3 DEF ScansInv
<1> QED
  BY <1>5, <1>6, <1>7, <1>8, <1>9, UnchangedInv

LEMMA RunKeeps ==
  ASSUME CleanupInv, NEW e \in Executions, RunCleanup(e)
  PROVE  CleanupInv'
<1> USE DEF CleanupInv
<1>1. TypeOK'
  BY RunTypes
<1>2. current \in Scans /\ app[current] \in Apps
  BY DEF RunCleanup, TypeOK, WindowOK, ScansInv
<1>3. PICK checked \in SUBSET Listed(current) :
        LET selected == {p \in Eligible(current) : \E q \in checked :
              Index(current, Eligible(current), p) = Index(current, Listed(current), q)}
        IN  /\ todo' = [todo EXCEPT ![e] = selected]
            /\ approved' = [approved EXCEPT ![e] = Approval(current, checked)]
  BY DEF RunCleanup
<1> DEFINE selected == {p \in Eligible(current) : \E q \in checked :
              Index(current, Eligible(current), p) = Index(current, Listed(current), q)}
<1>4. selected \in SUBSET checked
  BY <1>2, IndexNamesOne
<1>5. UNCHANGED <<at, stash, app, rating, current, itemVars, touched, scanObs, results>>
  BY DEF RunCleanup, diskVars, storeVars, windowVars, scanVars, effectObs
<1>6. /\ pc[e] = "idle"
      /\ pc' = [pc EXCEPT ![e] = "item"]
      /\ source' = [source EXCEPT ![e] = current]
      /\ \A f \in Executions \ {e} : moves'[f] = moves[f]
  BY DEF RunCleanup, TypeOK, WorkersOK
<1>7. todo' = [todo EXCEPT ![e] = selected] /\ approved' = [approved EXCEPT ![e] = Approval(current, checked)]
  BY <1>3
<1> HIDE DEF selected
<1> QED
  BY <1>1, <1>2, <1>4, <1>5, <1>6, <1>7, StartKeeps

LEMMA AcceptKeeps ==
  ASSUME CleanupInv, NEW e \in Executions, AcceptPreview(e)
  PROVE  CleanupInv'
<1> USE DEF CleanupInv
<1>1. TypeOK'
  BY AcceptTypes
<1>2. PICK s \in results \cap previews, ticked \in SUBSET Paths :
        /\ ticked \subseteq Listed(s)
        /\ results' = results \ {s}
        /\ source' = [source EXCEPT ![e] = s]
        /\ todo' = [todo EXCEPT ![e] = ticked]
        /\ approved' = [approved EXCEPT ![e] = Approval(s, ticked)]
        /\ \A f \in Executions \ {e} : moves'[f] = moves[f]
  BY DEF AcceptPreview, TypeOK, WorkersOK
<1>3. s \in Scans /\ app[s] \in Apps
  BY DEF TypeOK, WindowOK, ScansInv
<1>4. UNCHANGED <<at, stash, app, rating, current, itemVars, touched, scanObs>>
  BY DEF AcceptPreview, diskVars, storeVars, scanVars, effectObs
<1>5. pc[e] = "idle" /\ pc' = [pc EXCEPT ![e] = "removing"]
  BY DEF AcceptPreview
<1>6. ticked \in SUBSET ticked /\ results' \subseteq results /\ ticked \in SUBSET Listed(s)
  BY <1>2
<1> QED
  BY <1>1, <1>2, <1>3, <1>4, <1>5, <1>6, StartKeeps

LEMMA RemovalKeeps ==
  ASSUME CleanupInv, NEW e \in Executions, Remove(e) \/ AfterRemoval(e) \/ NotRemoved(e)
  PROVE  CleanupInv'
<1> USE DEF CleanupInv
<1>1. TypeOK'
  BY RemovalTypes
<1>2. /\ pc[e] \in {"removing", "removed"} /\ pc'[e] \in {"removed", "item", "done"}
      /\ \A f \in Executions \ {e} : pc'[f] = pc[f]
  BY DEF Remove, AfterRemoval, NotRemoved, TypeOK, WorkersOK
<1>3. /\ UNCHANGED <<app, rating, results, current, scanObs>>
      /\ UNCHANGED <<source, moves, todo, itemVars, approved, at, stash, touched>>
  BY DEF Remove, AfterRemoval, NotRemoved, windowVars, scanVars, diskVars, storeVars, effectObs
<1>4. \A u, p : Warned(u, p)' <=> Warned(u, p)
  BY <1>3 DEF Warned, SharedWith, scanObs
<1>5. RunsInv'
  BY <1>2, <1>3, <1>4 DEF RunsInv
<1>6. ItemsInv'
  BY <1>2, <1>3 DEF ItemsInv, Working, itemVars
<1>7. TouchedInv'
  BY <1>2, <1>3 DEF TouchedInv, TypeOK, ObserversOK
<1>8. StashInv'
  BY <1>2, <1>3 DEF StashInv, AtHand, TypeOK, DiskOK, itemVars
<1> QED
  BY <1>1, <1>3, <1>5, <1>6, <1>7, <1>8, UnchangedInv

-----------------------------------------------------------------------------
(* Steps of the workers. *)

\* The end of an item, its effect on the disk left aside.
LEMMA ReportKeeps ==
  ASSUME CleanupInv, NEW e \in Executions, NEW p \in todo[e], NEW verdict,
         Report(e, p, verdict),
         pc[e] # "idle", pc[e] \in Working => p = item[e],
         UNCHANGED <<stash, app, approved, scanObs>>
  PROVE  RunsInv' /\ ItemsInv' /\ StashInv'
<1> USE DEF CleanupInv
<1>1. /\ todo'[e] = todo[e] \ {p}
      /\ pc'[e] \in {"item", "done"}
      /\ \A f \in Executions \ {e} :
           pc'[f] = pc[f] /\ todo'[f] = todo[f] /\ item'[f] = item[f] /\ identity'[f] = identity[f]
  BY DEF Report, Goto, TypeOK, WorkersOK
<1>2. RunsInv'
  BY <1>1 DEF Report, RunsInv, Warned, SharedWith, scanObs
<1>3. ItemsInv'
  BY <1>1 DEF Report, ItemsInv, Working
<1>4. ASSUME NEW r \in stash
      PROVE  pc'[r.txn] # "idle" /\ (r.path \notin todo'[r.txn] \/ AtHand(r)')
  <2>1. r.txn \in Executions
    BY DEF TypeOK, DiskOK
  <2>2. CASE r.txn = e
    <3>1. AtHand(r) => r.path = p
      BY <2>2 DEF AtHand, Working
    <3> QED
      BY <1>1, <2>2, <3>1 DEF StashInv
  <2>3. CASE r.txn # e
    BY <1>1, <2>1, <2>3 DEF StashInv, AtHand
  <2> QED
    BY <2>2, <2>3
<1>5. StashInv'
  BY <1>4 DEF StashInv
<1> QED
  BY <1>2, <1>3, <1>5

\* What a worker touches it touches in a run; runs do not become idle again.
LEMMA TouchedStays ==
  ASSUME CleanupInv, NEW e \in Executions, pc[e] # "idle", pc' = [pc EXCEPT ![e] = pc'[e]],
         pc'[e] # "idle", UNCHANGED <<app, source>>,
         \A t \in touched' \ touched : t.by = e
  PROVE  TouchedInv'
<1>1. \A f \in Executions : pc[f] # "idle" => pc'[f] # "idle"
  BY DEF CleanupInv, TypeOK, WorkersOK
<1>2. \A t \in touched : t.by \in Executions
  BY DEF CleanupInv, TypeOK, ObserversOK
<1>3. pc'[e] # "idle" /\ source[e] \in Scans /\ app[source[e]] \in Apps
  BY DEF CleanupInv, RunsInv
<1> QED
  BY <1>1, <1>2, <1>3 DEF CleanupInv, TouchedInv

\* A worker that goes on with the item at hand, or takes it.
LEMMA GoesOn ==
  ASSUME CleanupInv, NEW e \in Executions, pc[e] # "idle", NEW label \in Working, Goto(e, label),
         moves[e] => label \notin {"list", "unlink"},
         item'[e] \in todo[e], Home[identity'[e]] = item'[e],
         \A f \in Executions \ {e} : item'[f] = item[f] /\ identity'[f] = identity[f],
         UNCHANGED <<todo, source, moves, app, approved, scanObs>>
  PROVE  RunsInv' /\ ItemsInv'
<1> USE DEF CleanupInv
<1>1. \A f \in Executions : pc'[f] = IF f = e THEN label ELSE pc[f]
  BY DEF Goto, TypeOK, WorkersOK
<1>2. RunsInv'
  BY <1>1 DEF RunsInv, Warned, SharedWith, scanObs
<1>3. ItemsInv'
  BY <1>1 DEF ItemsInv
<1> QED
  BY <1>2, <1>3

\* ... and has not been at the point of recording it.
LEMMA StashStays ==
  ASSUME CleanupInv, NEW e \in Executions, pc[e] \notin {"idle", "record"},
         NEW label \in Working, Goto(e, label),
         \A f \in Executions \ {e} : item'[f] = item[f] /\ identity'[f] = identity[f],
         UNCHANGED <<todo, stash>>
  PROVE  StashInv'
<1> USE DEF CleanupInv
<1>1. \A f \in Executions : pc'[f] = IF f = e THEN label ELSE pc[f]
  BY DEF Goto, TypeOK, WorkersOK
<1>2. \A r \in stash : r.txn \in Executions
  BY DEF TypeOK, DiskOK
<1> QED
  BY <1>1, <1>2 DEF StashInv, AtHand, Working

\* A worker leaves alone the window, and what its cleanup was given.
LEMMA WorkerFrame ==
  ASSUME NEW e, WorkerStep(e)
  PROVE  UNCHANGED <<app, rating, results, current, source, moves, scanObs, approved>>
BY DEF WorkerStep, Capture, Refuse, Fail, Verify, Move, Record, List, Unlink, Rmdir, Report,
       windowVars, scanVars

LEMMA MoveKeeps ==
  ASSUME CleanupInv, NEW e \in Executions, Move(e)
  PROVE  CleanupInv'
<1> USE DEF CleanupInv
<1>1. TypeOK'
  BY WorkerTypes DEF WorkerStep
<1>8. UNCHANGED <<app, rating, results, current, source, moves, scanObs, approved>>
  BY WorkerFrame DEF WorkerStep
<1> USE <1>8
<1>2. pc[e] = "move" /\ item[e] \in todo[e] /\ Home[identity[e]] = item[e] /\ item[e] \in Paths
  BY DEF Move, ItemsInv, Working, TypeOK, WorkersOK
<1>3. RunsInv' /\ ItemsInv'
  BY <1>2, GoesOn DEF Move, Working, itemVars
<1>4. ScansInv'
  BY UnchangedInv
<1>5. AtHome'
  BY DEF Move, AtHome, TypeOK, DiskOK
<1>6. TouchedInv'
  <2>1. pc' = [pc EXCEPT ![e] = pc'[e]] /\ pc'[e] = "record"
    BY DEF Move, Goto, TypeOK, WorkersOK
  <2>2. \A t \in touched' \ touched : t.by = e
    BY DEF Move
  <2> QED
    BY <1>2, <2>1, <2>2, TouchedStays
<1>7. StashInv'
  <2>1. PICK new : /\ new = [txn |-> e, path |-> item[e], name |-> Layout[item[e]].name,
                             ino |-> identity[e], object |-> at[item[e]]]
                   /\ stash' \subseteq stash \cup {new}
    BY DEF Move, Slot
  <2>2. /\ pc'[e] = "record"
        /\ \A f \in Executions \ {e} : pc'[f] = pc[f]
        /\ UNCHANGED <<item, identity, todo>>
    BY DEF Move, Goto, TypeOK, WorkersOK, itemVars
  <2>3. Home[new.ino] = new.path /\ pc'[new.txn] # "idle" /\ AtHand(new)'
    BY <1>2, <2>1, <2>2 DEF AtHand
  <2>4. ASSUME NEW r \in stash
        PROVE  /\ Home[r.ino] = r.path /\ pc'[r.txn] # "idle"
               /\ r.path \notin todo'[r.txn] \/ AtHand(r)'
    <3>1. r.txn \in Executions
      BY DEF TypeOK, DiskOK
    <3> QED
      BY <1>2, <2>2, <3>1 DEF StashInv, AtHand
  <2> QED
    BY <2>1, <2>3, <2>4 DEF StashInv
<1> QED
  BY <1>1, <1>3, <1>4, <1>5, <1>6, <1>7

LEMMA WorkerKeeps ==
  ASSUME CleanupInv, NEW e \in Executions, WorkerStep(e)
  PROVE  CleanupInv'
<1> USE DEF CleanupInv
<1>1. TypeOK'
  BY WorkerTypes
<1>0. UNCHANGED <<app, rating, results, current, source, moves, scanObs, approved>>
  BY WorkerFrame
<1> USE <1>0
<1>2. CASE Capture(e)
  <2>1. PICK p \in todo[e] :
          /\ at[p] # Nothing
          /\ item' = [item EXCEPT ![e] = p]
          /\ identity' = [identity EXCEPT ![e] = at[p]]
    BY <1>2 DEF Capture
  <2>2. /\ item'[e] \in todo[e]
        /\ Home[identity'[e]] = item'[e]
        /\ \A f \in Executions \ {e} : item'[f] = item[f] /\ identity'[f] = identity[f]
    BY <2>1 DEF AtHome, TypeOK, WorkersOK
  <2>3. pc[e] = "item" /\ Goto(e, "verify") /\ UNCHANGED <<todo, stash>>
    BY <1>2 DEF Capture, storeVars
  <2>4. RunsInv' /\ ItemsInv'
    BY <1>2, <2>2, <2>3, GoesOn DEF Capture, Working
  <2>5. StashInv'
    BY <2>2, <2>3, StashStays DEF Working
  <2>6. TouchedInv'
    BY <1>2, <2>3, TouchedStays DEF Capture, Goto, TypeOK, WorkersOK, effectObs
  <2> QED
    BY <1>1, <1>2, <2>4, <2>5, <2>6, UnchangedInv DEF Capture, diskVars
<1>3. CASE Refuse(e)
  <2>1. PICK p \in todo[e] : Report(e, p, "failed")
    BY <1>3 DEF Refuse
  <2>2. RunsInv' /\ ItemsInv' /\ StashInv'
    BY <1>3, <2>1, ReportKeeps DEF Refuse, Working, storeVars
  <2>3. TouchedInv'
    BY <1>3, <2>1, TouchedStays
       DEF Refuse, Report, Goto, TypeOK, WorkersOK, effectObs
  <2> QED
    BY <1>1, <1>3, <2>2, <2>3, UnchangedInv DEF Refuse, diskVars
<1>4. CASE Fail(e)
  <2>1. pc[e] \in Working /\ item[e] \in todo[e]
    BY <1>4 DEF Fail, ItemsInv, Working, TypeOK, WorkersOK, Label
  <2>2. RunsInv' /\ ItemsInv' /\ StashInv'
    BY <1>4, <2>1, ReportKeeps DEF Fail, Working, storeVars
  <2>3. TouchedInv'
    BY <1>4, <2>1, TouchedStays DEF Fail, Report, Goto, Working, TypeOK, WorkersOK, effectObs
  <2> QED
    BY <1>1, <1>4, <2>2, <2>3, UnchangedInv DEF Fail, diskVars
<1>5. CASE Verify(e)
  <2>1. PICK label \in Working : Goto(e, label) /\ (moves[e] => label \notin {"list", "unlink"})
    BY <1>5 DEF Verify, Working
  <2>2. pc[e] = "verify" /\ item[e] \in todo[e] /\ Home[identity[e]] = item[e]
    BY <1>5 DEF Verify, ItemsInv, Working
  <2>3. RunsInv' /\ ItemsInv' /\ StashInv'
    BY <1>5, <2>1, <2>2, GoesOn, StashStays
       DEF Verify, storeVars, itemVars
  <2>4. TouchedInv'
    BY <1>5, <2>1, <2>2, TouchedStays
       DEF Verify, Goto, Working, TypeOK, WorkersOK, effectObs
  <2> QED
    BY <1>1, <1>5, <2>3, <2>4, UnchangedInv DEF Verify, diskVars
<1>6. CASE Record(e)
  <2>1. pc[e] = "record" /\ item[e] \in todo[e]
    BY <1>6 DEF Record, ItemsInv, Working
  <2>2. RunsInv' /\ ItemsInv' /\ StashInv'
    BY <1>6, <2>1, ReportKeeps DEF Record, Working
  <2>3. TouchedInv'
    BY <1>6, <2>1, TouchedStays DEF Record, Report, Goto, TypeOK, WorkersOK
  <2> QED
    BY <1>1, <1>6, <2>2, <2>3, UnchangedInv DEF Record, diskVars
<1>7. CASE List(e)
  <2>1. pc[e] = "list" /\ item[e] \in todo[e] /\ Home[identity[e]] = item[e]
    BY <1>7 DEF List, ItemsInv, Working
  <2>2. ~ moves[e]
    BY <2>1 DEF ItemsInv
  <2>3. RunsInv' /\ ItemsInv' /\ StashInv'
    BY <1>7, <2>1, <2>2, GoesOn, StashStays DEF List, Working, storeVars
  <2>4. TouchedInv'
    BY <1>7, <2>1, TouchedStays
       DEF List, Goto, TypeOK, WorkersOK, effectObs
  <2> QED
    BY <1>1, <1>7, <2>3, <2>4, UnchangedInv DEF List, diskVars
<1>8. CASE Unlink(e)
  <2>1. /\ pc[e] = "unlink" /\ UNCHANGED <<pc, todo, item, identity>>
        /\ \A t \in touched' \ touched : t.by = e
    BY <1>8 DEF Unlink
  <2>2. TouchedInv'
    BY <1>8, <2>1, TouchedStays DEF Unlink, TypeOK, WorkersOK
  <2>3. ItemsInv' /\ StashInv'
    BY <1>8, <2>1 DEF Unlink, ItemsInv, StashInv, AtHand, storeVars
  <2> QED
    BY <1>1, <1>8, <2>2, <2>3, UnchangedInv DEF Unlink, diskVars
<1>9. CASE Rmdir(e)
  <2>1. pc[e] = "unlink" /\ item[e] \in todo[e]
    BY <1>9 DEF Rmdir, ItemsInv, Working
  <2>2. RunsInv' /\ ItemsInv' /\ StashInv'
    BY <1>9, <2>1, ReportKeeps DEF Rmdir, Working, storeVars
  <2>3. \A t \in touched' \ touched : t.by = e
    BY <1>9 DEF Rmdir
  <2>4. TouchedInv'
    BY <1>9, <2>1, <2>3, TouchedStays
       DEF Rmdir, Report, Goto, TypeOK, WorkersOK
  <2>5. AtHome'
    BY <1>9 DEF Rmdir, AtHome, TypeOK, DiskOK
  <2> QED
    BY <1>1, <1>9, <2>2, <2>4, <2>5, UnchangedInv DEF Rmdir
<1> QED
  BY <1>2, <1>3, <1>4, <1>5, <1>6, <1>7, <1>8, <1>9, MoveKeeps DEF WorkerStep

-----------------------------------------------------------------------------
(* Steps of other programs, and the invariant. *)

\* A step of another program: files or packages change.
Others ==
  \/ \E p \in Paths : OthersRemove(p) \/ OthersCreate(p) \/ OthersWrite(p)
  \/ \E a \in Apps : OthersInstall(a) \/ OthersUninstall(a)

LEMMA OthersFrame == Others => UNCHANGED Outsiders
BY DEF Others, OthersRemove, OthersCreate, OthersWrite, OthersInstall, OthersUninstall

LEMMA OthersKeep ==
  ASSUME CleanupInv, Others
  PROVE  CleanupInv'
<1> USE DEF CleanupInv
<1>1. TypeOK'
  BY OthersTypes DEF Others
<1>2. /\ UNCHANGED <<app, rating, results, current, scanObs>>
      /\ UNCHANGED <<pc, source, todo, approved, workerVars, touched, stash>>
  BY OthersFrame DEF Outsiders, windowVars, scanVars, workerVars, effectObs, storeVars
<1>3. AtHome'
  BY DEF Others, OthersRemove, OthersCreate, OthersWrite, OthersInstall, OthersUninstall, AtHome,
         TypeOK, DiskOK
<1> QED
  BY <1>1, <1>2, <1>3, UnchangedInv

\* The steps of the system by what takes them.
LEMMA StepCases ==
  ASSUME [Next]_vars
  PROVE  \/ \E s \in Scans : Scan(s) \/ Analyse(s) \/ ShowScan(s)
         \/ ReadIdentities \/ Enrich
         \/ \E e \in Executions : RunCleanup(e) \/ AcceptPreview(e)
         \/ \E e \in Executions : Remove(e) \/ AfterRemoval(e) \/ NotRemoved(e)
         \/ \E e \in Executions : WorkerStep(e)
         \/ Others
         \/ UNCHANGED vars
BY DEF Next, Others

LEMMA StepKeeps ==
  ASSUME CleanupInv, [Next]_vars
  PROVE  CleanupInv'
<1>1. CASE UNCHANGED vars
  <2>1. /\ UNCHANGED <<diskVars, storeVars, windowVars, workerVars, scanObs, approved, effectObs>>
        /\ UNCHANGED <<app, rating, results, current, pc, source, todo, touched, at, stash>>
    BY <1>1 DEF vars, diskVars, storeVars, windowVars, scanVars, workerVars, effectObs
  <2>2. TypeOK'
    BY <2>1, UnchangedTypes DEF CleanupInv, TypeOK
  <2> QED
    BY <2>1, <2>2, UnchangedInv DEF CleanupInv
<1> QED
  BY <1>1, StepCases, ShowKeeps, RefreshKeeps, RunKeeps, AcceptKeeps, RemovalKeeps, WorkerKeeps,
     OthersKeep

LEMMA CleanupInvariant == Spec => []CleanupInv
<1>1. Init => CleanupInv
  <2> SUFFICES ASSUME Init PROVE CleanupInv
    OBVIOUS
  <2>1. ScansInv
    BY NamesOK DEF Init, ScansInv
  <2>2. RunsInv /\ ItemsInv /\ TouchedInv /\ AtHome /\ StashInv
    BY DEF Init, RunsInv, ItemsInv, TouchedInv, AtHome, StashInv, Working
  <2> QED
    BY <2>1, <2>2, InitTypes DEF CleanupInv
<1> QED
  BY <1>1, StepKeeps, PTL DEF Spec

-----------------------------------------------------------------------------
(* What is touched. *)

\* What a cleanup was given stays as it was when it started.
LEMMA RunIsFixed ==
  ASSUME CleanupInv, [Next]_vars, NEW e \in Executions, pc[e] # "idle"
  PROVE  /\ approved'[e] = approved[e]
         /\ source'[e] = source[e]
         /\ moves'[e] = moves[e]
         /\ \A p : Warned(source[e], p)' <=> Warned(source[e], p)
<1> DEFINE Same == UNCHANGED <<app, seen, present>>
<1>1. source[e] \in Scans /\ app[source[e]] \in Apps /\ Nothing \notin Apps
  BY NamesOK DEF CleanupInv, RunsInv
<1>2. Same /\ source'[e] = source[e] => \A p : Warned(source[e], p)' <=> Warned(source[e], p)
  BY DEF Warned, SharedWith
<1>3. ASSUME NEW s \in Scans, NEW a, NEW identities, ScanFor(s, a, identities)
      PROVE  \A p : Warned(source[e], p)' <=> Warned(source[e], p)
  <2>1. source[e] # s /\ source' = source
    BY <1>1, <1>3 DEF ScanFor, workerVars
  <2>2. app'[source[e]] = app[source[e]] /\ seen'[source[e]] = seen[source[e]]
        /\ present'[source[e]] = present[source[e]]
    BY <1>1, <1>3, <2>1 DEF ScanFor, CleanupInv, TypeOK, WindowOK, ObserversOK
  <2> QED
    BY <2>1, <2>2 DEF Warned, SharedWith
<1>4. ASSUME NEW s \in Scans, Scan(s) \/ Analyse(s)
      PROVE  /\ UNCHANGED <<approved, source, moves>>
             /\ \A p : Warned(source[e], p)' <=> Warned(source[e], p)
  BY <1>3, <1>4 DEF Scan, Analyse, ScanFor, workerVars
<1>5. ASSUME NEW f \in Executions, RunCleanup(f) \/ AcceptPreview(f)
      PROVE  Same /\ approved'[e] = approved[e] /\ source'[e] = source[e] /\ moves'[e] = moves[e]
  <2>1. f # e
    BY <1>5 DEF RunCleanup, AcceptPreview
  <2> QED
    BY <1>5, <2>1 DEF RunCleanup, AcceptPreview, CleanupInv, TypeOK, WorkersOK, ObserversOK,
                      windowVars, scanVars, scanObs
<1>6. CASE \/ \E s \in Scans : ShowScan(s)
           \/ ReadIdentities \/ Enrich
           \/ \E f \in Executions : Remove(f) \/ AfterRemoval(f) \/ NotRemoved(f)
           \/ UNCHANGED vars
  <2>1. Same /\ UNCHANGED <<approved, source, moves>>
    BY <1>6 DEF ShowScan, ReadIdentities, Enrich, Remove, AfterRemoval, NotRemoved, vars,
                windowVars, scanVars, scanObs, workerVars
  <2> QED
    BY <1>2, <2>1
<1>7. CASE (\E f \in Executions : WorkerStep(f)) \/ Others
  <2>1. Same /\ UNCHANGED <<approved, source, moves>>
    BY <1>7, WorkerFrame, OthersFrame DEF Outsiders, windowVars, scanVars, scanObs, workerVars
  <2> QED
    BY <1>2, <2>1
<1> HIDE DEF Same
<1> QED
  BY <1>2, <1>4, <1>5, <1>6, <1>7, StepCases

\* Objects are touched in three places.
LEMMA TouchingSteps ==
  ASSUME [Next]_vars, NEW t \in touched', t \notin touched
  PROVE  \E e \in Executions : Move(e) \/ Unlink(e) \/ Rmdir(e)
<1>1. \/ \E e \in Executions : WorkerStep(e)
      \/ touched' = touched
  BY StepCases, OthersFrame
     DEF vars, Scan, Analyse, ScanFor, ShowScan, ReadIdentities, Enrich, RunCleanup, AcceptPreview,
         Remove, AfterRemoval, NotRemoved, Outsiders, effectObs
<1> QED
  BY <1>1 DEF WorkerStep, Capture, Refuse, Fail, Verify, Record, List, effectObs

\* What a step touches is at the path of the item at hand.
LEMMA TouchedIsAtHand ==
  ASSUME CleanupInv, [Next]_vars, NEW t \in touched', t \notin touched
  PROVE  /\ t.by \in Executions
         /\ pc[t.by] \in Working
         /\ t.path = item[t.by]
         /\ t.path \in todo[t.by]
<1>1. PICK e \in Executions : Move(e) \/ Unlink(e) \/ Rmdir(e)
  BY TouchingSteps
<1>2. t.by = e /\ t.path = item[e] /\ pc[e] \in Working
  BY <1>1 DEF Move, Unlink, Rmdir, Working
<1> QED
  BY <1>2 DEF CleanupInv, ItemsInv

\* Whatever the order of rows and candidates, only a path the user checked in
\* the list of leftovers is ever moved or deleted from.
THEOREM OnlyCheckedPathsAreTouched == Spec => []OnlyCheckedAreTouched
<1>1. Init => OnlyCheckedAreTouched
  BY DEF Init, OnlyCheckedAreTouched
<1>2. CleanupInv /\ OnlyCheckedAreTouched /\ [Next]_vars => OnlyCheckedAreTouched'
  <2> SUFFICES ASSUME CleanupInv, OnlyCheckedAreTouched, [Next]_vars, NEW t \in touched'
               PROVE  \E a \in approved'[t.by] : a.path = t.path
    BY DEF OnlyCheckedAreTouched
  <2>1. CASE t \in touched
    <3>1. t.by \in Executions /\ pc[t.by] # "idle"
      BY <2>1 DEF CleanupInv, TypeOK, ObserversOK, TouchedInv
    <3> QED
      BY <2>1, <3>1, RunIsFixed DEF OnlyCheckedAreTouched
  <2>2. CASE t \notin touched
    BY <2>2, TouchedIsAtHand, RunIsFixed DEF CleanupInv, RunsInv, Working
  <2> QED
    BY <2>1, <2>2
<1> QED
  BY <1>1, <1>2, CleanupInvariant, PTL DEF Spec

\* What another package owns or uses is moved or deleted only if it came after the
\* scan, or its identity had not reached the window by then.
THEOREM KnownOthersAreSafe == Spec => []OnlyUnseenAreHurt
<1>1. Init => OnlyUnseenAreHurt
  BY DEF Init, OnlyUnseenAreHurt
<1>2. CleanupInv /\ OnlyUnseenAreHurt /\ [Next]_vars => OnlyUnseenAreHurt'
  <2> SUFFICES ASSUME CleanupInv, OnlyUnseenAreHurt, [Next]_vars, NEW t \in touched'
               PROVE  ~ Warned(source[t.by], t.path)'
    BY DEF OnlyUnseenAreHurt
  <2>1. /\ t.by \in Executions /\ pc[t.by] # "idle"
        /\ ~ Warned(source[t.by], t.path)
    <3>1. CASE t \in touched
      BY <3>1 DEF CleanupInv, TypeOK, ObserversOK, TouchedInv, OnlyUnseenAreHurt
    <3>2. CASE t \notin touched
      BY <3>2, TouchedIsAtHand DEF CleanupInv, RunsInv, Working
    <3> QED
      BY <3>1, <3>2
  <2>2. /\ source'[t.by] = source[t.by]
        /\ Warned(source[t.by], t.path)' <=> Warned(source[t.by], t.path)
    BY <2>1, RunIsFixed
  <2> QED
    BY <2>1, <2>2
<1> QED
  BY <1>1, <1>2, CleanupInvariant, PTL DEF Spec

-----------------------------------------------------------------------------
(* The quarantine. *)

\* Only a move changes what is in quarantine, only a record the manifests.
LEMMA StashingSteps ==
  ASSUME [Next]_vars
  PROVE  /\ (\A e \in Executions : ~ Move(e)) => stash' = stash
         /\ (\A e \in Executions : ~ Record(e)) => UNCHANGED <<manifest, unreadable>>
<1>1. \/ \E e \in Executions : WorkerStep(e)
      \/ UNCHANGED <<stash, manifest, unreadable>>
  BY StepCases, OthersFrame
     DEF vars, Scan, Analyse, ScanFor, ShowScan, ReadIdentities, Enrich, RunCleanup, AcceptPreview,
         Remove, AfterRemoval, NotRemoved, Outsiders, storeVars, effectObs
<1> QED
  BY <1>1 DEF WorkerStep, Capture, Refuse, Fail, Verify, Move, Record, List, Unlink, Rmdir, storeVars,
              effectObs

\* Nothing that is in quarantine is ever overwritten.
LEMMA StashGrows ==
  ASSUME CleanupInv, [Next]_vars
  PROVE  stash \subseteq stash'
<1>1. ASSUME NEW e \in Executions, Move(e), NEW r \in stash, SameSlot(r, Slot(e))
      PROVE  FALSE
  <2>1. pc[e] = "move" /\ item[e] \in todo[e] /\ Home[identity[e]] = item[e]
    BY <1>1 DEF Move, CleanupInv, ItemsInv, Working
  <2>2. r.txn = e /\ r.path = item[e]
    BY <1>1, <2>1 DEF SameSlot, Slot, CleanupInv, StashInv
  <2> QED
    BY <1>1, <2>1, <2>2 DEF CleanupInv, StashInv, AtHand
<1>2. ASSUME NEW e \in Executions, Move(e) PROVE stash \subseteq stash'
  BY <1>1, <1>2 DEF Move
<1>3. (\A e \in Executions : ~ Move(e)) => stash' = stash
  BY StashingSteps
<1> QED
  BY <1>2, <1>3

\* With quarantine chosen, every object that was taken from its path is in the
\* directory of its transaction for good, whatever other programs and other
\* cleanups do and whichever call fails.
THEOREM NothingInQuarantineIsLost == Spec => []QuarantineLosesNothing
<1>1. Init => QuarantineLosesNothing
  BY DEF Init, QuarantineLosesNothing
<1>2. CleanupInv /\ QuarantineLosesNothing /\ [Next]_vars => QuarantineLosesNothing'
  <2> SUFFICES ASSUME CleanupInv, QuarantineLosesNothing, [Next]_vars, NEW t \in touched',
                      moves'[t.by]
               PROVE  \E r \in stash' : r.txn = t.by /\ r.object = t.object
    BY DEF QuarantineLosesNothing
  <2>1. CASE t \in touched
    <3>1. t.by \in Executions /\ pc[t.by] # "idle"
      BY <2>1 DEF CleanupInv, TypeOK, ObserversOK, TouchedInv
    <3>2. moves[t.by]
      BY <3>1, RunIsFixed
    <3> QED
      BY <2>1, <3>2, StashGrows DEF QuarantineLosesNothing
  <2>2. CASE t \notin touched
    <3>1. PICK e \in Executions : Move(e) \/ Unlink(e) \/ Rmdir(e)
      BY <2>2, TouchingSteps
    <3>2. Move(e)
      <4>1. t.by = e \/ Move(e)
        BY <2>2, <3>1 DEF Unlink, Rmdir
      <4>2. moves' = moves
        BY <3>1 DEF Move, Unlink, Rmdir, Report
      <4> QED
        BY <3>1, <4>1, <4>2 DEF Unlink, Rmdir, CleanupInv, ItemsInv
    <3>3. t.by = e /\ t.object = at[item[e]]
      BY <2>2, <3>2 DEF Move
    <3>4. [txn |-> e, path |-> Slot(e).path, name |-> Slot(e).name, ino |-> Slot(e).ino,
           object |-> at[item[e]]] \in stash'
      BY <3>2 DEF Move
    <3> QED
      BY <3>3, <3>4
  <2> QED
    BY <2>1, <2>2
<1> QED
  BY <1>1, <1>2, CleanupInvariant, PTL DEF Spec

\* The ways an object in quarantine is accounted for.
Listing(r) == [txn |-> r.txn, path |-> r.path, name |-> r.name, ino |-> r.ino]
Accounted(r) ==
  \/ Listing(r) \in manifest
  \/ pc[r.txn] = "record" /\ item[r.txn] = r.path
  \/ report[r.txn][r.path] = "failed"
  \/ r.txn \in unreadable

LEMMA WorkerAccounts ==
  ASSUME CleanupInv, NEW e \in Executions, WorkerStep(e), NEW r \in stash, Accounted(r)
  PROVE  Accounted(r)'
<1> USE DEF CleanupInv, Accounted, Listing
<1>1. r.txn \in Executions /\ r.path \in Paths
  BY DEF TypeOK, DiskOK
<1>2. pc[e] \in Working => item[e] \in todo[e]
  BY DEF ItemsInv
<1>3. r.path \notin todo[r.txn] \/ AtHand(r)
  BY DEF StashInv
<1>4. CASE Capture(e) \/ Verify(e) \/ List(e) \/ Unlink(e)
  <2>1. /\ pc[e] # "record"
        /\ \A f \in Executions \ {e} : pc'[f] = pc[f] /\ item'[f] = item[f]
        /\ UNCHANGED <<manifest, report, unreadable>>
    BY <1>4 DEF Capture, Verify, List, Unlink, Goto, TypeOK, WorkersOK, storeVars, itemVars, effectObs
  <2> QED
    BY <1>1, <2>1
<1>5. CASE Move(e)
  <2>1. /\ pc[e] # "record"
        /\ \A f \in Executions \ {e} : pc'[f] = pc[f]
        /\ UNCHANGED <<item, manifest, report, unreadable>>
    BY <1>5 DEF Move, Goto, TypeOK, WorkersOK, itemVars
  <2> QED
    BY <1>1, <2>1
<1>6. ASSUME NEW p \in todo[e], NEW verdict, Report(e, p, verdict)
      PROVE  /\ report'[e][p] = verdict
             /\ \A f \in Executions, q \in Paths : f # e \/ q # p => report'[f][q] = report[f][q]
             /\ \A f \in Executions \ {e} : pc'[f] = pc[f] /\ item'[f] = item[f]
  BY <1>6 DEF Report, Goto, TypeOK, WorkersOK
<1>7. CASE Refuse(e)
  <2>1. PICK p \in todo[e] : Report(e, p, "failed")
    BY <1>7 DEF Refuse
  <2>2. pc[e] # "record" /\ UNCHANGED <<manifest, unreadable>>
    BY <1>7 DEF Refuse, storeVars, effectObs
  <2> QED
    BY <1>1, <1>6, <2>1, <2>2
<1>8. CASE Fail(e)
  <2>1. pc[e] \in Working /\ Report(e, item[e], "failed") /\ UNCHANGED <<manifest, unreadable>>
    BY <1>8 DEF Fail, Working, TypeOK, WorkersOK, Label, storeVars, effectObs
  <2> QED
    BY <1>1, <1>2, <1>6, <2>1
<1>9. CASE Record(e)
  <2>1. pc[e] = "record" /\ item[e] \in todo[e] /\ Report(e, item[e], "ok")
    BY <1>2, <1>9 DEF Record, Working
  <2>2. Slot(e) \in manifest' /\ unreadable \subseteq unreadable'
    BY <1>9 DEF Record
  <2>3. \A m \in manifest : m \in manifest' \/ (m.txn = e /\ e \in unreadable')
    BY <1>9 DEF Record
  <2>4. CASE r.txn = e /\ r.path = item[e]
    <3>1. Listing(r) = Slot(e)
      BY <1>3, <2>1, <2>4 DEF AtHand, Slot
    <3> QED
      BY <2>2, <3>1
  <2>5. CASE ~ (r.txn = e /\ r.path = item[e])
    <3>1. CASE Listing(r) \in manifest
      BY <2>3, <3>1
    <3>2. CASE Listing(r) \notin manifest
      BY <1>1, <1>6, <2>1, <2>2, <2>5, <3>2
    <3> QED
      BY <3>1, <3>2
  <2> QED
    BY <2>4, <2>5
<1>10. CASE Rmdir(e)
  <2>1. /\ pc[e] = "unlink" /\ item[e] \in todo[e] /\ Report(e, item[e], "ok")
        /\ UNCHANGED <<manifest, unreadable>>
    BY <1>2, <1>10 DEF Rmdir, Working, storeVars
  <2>2. r.txn # e \/ r.path # item[e]
    BY <1>3, <2>1 DEF AtHand
  <2> QED
    BY <1>1, <1>6, <2>1, <2>2
<1> QED
  BY <1>4, <1>5, <1>7, <1>8, <1>9, <1>10 DEF WorkerStep

LEMMA StepAccounts ==
  ASSUME CleanupInv, [Next]_vars, NEW r \in stash, Accounted(r)
  PROVE  Accounted(r)'
<1> USE DEF Accounted, Listing
<1>1. r.txn \in Executions /\ pc[r.txn] # "idle"
  BY DEF CleanupInv, TypeOK, DiskOK, StashInv
<1>2. CASE \E e \in Executions : WorkerStep(e)
  BY <1>2, WorkerAccounts
<1>3. CASE \E e \in Executions : \/ RunCleanup(e) \/ AcceptPreview(e)
                                \/ Remove(e) \/ AfterRemoval(e) \/ NotRemoved(e)
  <2>1. UNCHANGED <<item, report, manifest, unreadable>>
    BY <1>3 DEF RunCleanup, AcceptPreview, Remove, AfterRemoval, NotRemoved, storeVars, itemVars,
                effectObs
  <2>2. pc[r.txn] = "record" => pc'[r.txn] = "record"
    BY <1>1, <1>3 DEF RunCleanup, AcceptPreview, Remove, AfterRemoval, NotRemoved, CleanupInv, TypeOK,
                      WorkersOK
  <2> QED
    BY <2>1, <2>2
<1>4. CASE \/ \E s \in Scans : Scan(s) \/ Analyse(s) \/ ShowScan(s)
           \/ ReadIdentities \/ Enrich
           \/ Others
           \/ UNCHANGED vars
  BY <1>4, OthersFrame
     DEF Scan, Analyse, ScanFor, ShowScan, ReadIdentities, Enrich, Outsiders, vars, storeVars,
         workerVars, itemVars, effectObs
<1> QED
  BY <1>2, <1>3, <1>4, StepCases

\* An object in quarantine has a manifest entry unless it is being recorded (or
\* the application died then), was reported as failed, or its manifest could
\* not be read back.
THEOREM QuarantineIsListed == Spec => []UnlistedIsAtHandOrFailed
<1>1. Init => UnlistedIsAtHandOrFailed
  BY DEF Init, UnlistedIsAtHandOrFailed
<1>2. CleanupInv /\ UnlistedIsAtHandOrFailed /\ [Next]_vars => UnlistedIsAtHandOrFailed'
  <2> SUFFICES ASSUME CleanupInv, UnlistedIsAtHandOrFailed, [Next]_vars, NEW r \in stash'
               PROVE  Accounted(r)'
    BY DEF UnlistedIsAtHandOrFailed, Accounted, Listing
  <2>1. CASE r \in stash
    BY <2>1, StepAccounts DEF UnlistedIsAtHandOrFailed, Accounted, Listing
  <2>2. CASE r \notin stash
    <3>1. PICK e \in Executions : Move(e)
      BY <2>2, StashingSteps
    <3>2. r.txn = e /\ r.path = item[e]
      BY <2>2, <3>1 DEF Move, Slot
    <3>3. pc'[e] = "record" /\ item' = item
      BY <3>1 DEF Move, Goto, CleanupInv, TypeOK, WorkersOK, itemVars
    <3> QED
      BY <3>2, <3>3 DEF Accounted
  <2> QED
    BY <2>1, <2>2
<1> QED
  BY <1>1, <1>2, CleanupInvariant, PTL DEF Spec

-----------------------------------------------------------------------------
(* The report. *)

\* What is being recorded has been moved.
TakenInv ==
  \A e \in Executions :
    pc[e] = "record" => \E t \in touched : t.by = e /\ t.path = item[e]

ReportsInv == TouchesAreReported /\ TakenInv

\* Until an item is reported, or taken up, its execution does with the others nothing.
LEMMA StepReports ==
  ASSUME CleanupInv, [Next]_vars, \A e \in Executions : ~ WorkerStep(e)
  PROVE  /\ UNCHANGED <<report, touched, item>>
         /\ \A e \in Executions : pc[e] \in Working <=> pc'[e] \in Working
         /\ \A e \in Executions : pc[e] = "record" <=> pc'[e] = "record"
<1>1. CASE \E e \in Executions : \/ RunCleanup(e) \/ AcceptPreview(e)
                                \/ Remove(e) \/ AfterRemoval(e) \/ NotRemoved(e)
  BY <1>1 DEF RunCleanup, AcceptPreview, Remove, AfterRemoval, NotRemoved, CleanupInv, TypeOK,
              WorkersOK, itemVars, effectObs, Working
<1>2. CASE \/ \E s \in Scans : Scan(s) \/ Analyse(s) \/ ShowScan(s)
           \/ ReadIdentities \/ Enrich
           \/ Others
           \/ UNCHANGED vars
  BY <1>2, OthersFrame
     DEF Scan, Analyse, ScanFor, ShowScan, ReadIdentities, Enrich, Outsiders, vars, workerVars,
         itemVars, effectObs
<1> QED
  BY <1>1, <1>2, StepCases

LEMMA WorkerReports ==
  ASSUME CleanupInv, ReportsInv, NEW e \in Executions, WorkerStep(e)
  PROVE  ReportsInv'
<1> USE DEF CleanupInv, ReportsInv
<1>1. \A t \in touched : t.by \in Executions /\ t.path \in Paths
  BY DEF TypeOK, ObserversOK
<1>2. pc[e] \in Working => item[e] \in todo[e] /\ item[e] \in Paths
  BY DEF ItemsInv, TypeOK, WorkersOK
\* The item goes on.
<1>3. ASSUME UNCHANGED report, touched \subseteq touched', pc'[e] \in Working,
             \A f \in Executions \ {e} : pc'[f] = pc[f] /\ item'[f] = item[f],
             pc[e] = "item" \/ item'[e] = item[e],
             \A t \in touched' \ touched : t.by = e /\ t.path = item'[e],
             pc'[e] = "record" => \E t \in touched' : t.by = e /\ t.path = item'[e]
      PROVE  ReportsInv'
  <2>1. ASSUME NEW t \in touched' PROVE report[t.by][t.path] # "none" \/ (pc'[t.by] \in Working /\ item'[t.by] = t.path)
    <3>1. CASE t \notin touched
      BY <1>3, <3>1
    <3>2. CASE t \in touched
      BY <1>1, <1>3, <3>2 DEF TouchesAreReported, Working
    <3> QED
      BY <3>1, <3>2
  <2>2. TouchesAreReported'
    BY <1>3, <2>1 DEF TouchesAreReported
  <2>3. TakenInv'
    BY <1>3 DEF TakenInv
  <2> QED
    BY <2>2, <2>3
\* The item ends.
<1>4. ASSUME NEW p \in Paths, NEW verdict \in {"ok", "failed"}, Report(e, p, verdict),
             pc[e] \in Working => p = item[e],
             touched \subseteq touched',
             \A t \in touched' \ touched : t.by = e /\ t.path = p,
             verdict = "ok" => \E t \in touched' : t.by = e /\ t.path = p
      PROVE  ReportsInv'
  <2>1. /\ \A f \in Executions \ {e} : pc'[f] = pc[f] /\ item'[f] = item[f]
        /\ pc'[e] \in {"item", "done"}
        /\ \A f \in Executions, q \in Paths :
             report'[f][q] = IF f = e /\ q = p THEN verdict ELSE report[f][q]
    BY <1>4 DEF Report, Goto, TypeOK, WorkersOK
  <2>2. ASSUME NEW t \in touched' PROVE report'[t.by][t.path] # "none" \/ (pc'[t.by] \in Working /\ item'[t.by] = t.path)
    <3>1. CASE t \notin touched
      BY <1>4, <2>1, <3>1
    <3>2. CASE t \in touched
      BY <1>1, <1>4, <2>1, <3>2 DEF TouchesAreReported
    <3> QED
      BY <3>1, <3>2
  <2>3. ASSUME NEW f \in Executions, NEW q \in Paths, report'[f][q] = "ok"
        PROVE  \E t \in touched' : t.by = f /\ t.path = q
    BY <1>4, <2>1, <2>3 DEF TouchesAreReported
  <2>4. TouchesAreReported'
    BY <2>2, <2>3 DEF TouchesAreReported
  <2>5. TakenInv'
    BY <1>4, <2>1 DEF TakenInv
  <2> QED
    BY <2>4, <2>5
<1>5. CASE Capture(e) \/ Verify(e) \/ List(e)
  <2>1. /\ UNCHANGED <<report, touched>>
        /\ pc'[e] \in Working \ {"record"}
        /\ \A f \in Executions \ {e} : pc'[f] = pc[f] /\ item'[f] = item[f]
        /\ pc[e] = "item" \/ item'[e] = item[e]
    BY <1>5 DEF Capture, Verify, List, Goto, Working, TypeOK, WorkersOK, itemVars, effectObs
  <2> QED
    BY <1>3, <2>1
<1>6. CASE Move(e) \/ Unlink(e)
  <2>1. /\ UNCHANGED <<report, item>>
        /\ pc'[e] \in Working
        /\ \A f \in Executions \ {e} : pc'[f] = pc[f]
        /\ pc'[e] = "record" => Move(e)
    BY <1>6 DEF Move, Unlink, Goto, Working, TypeOK, WorkersOK, itemVars
  <2>2. PICK o : touched' = touched \cup {[by |-> e, path |-> item[e], object |-> o]}
    BY <1>6 DEF Move, Unlink
  <2> DEFINE new == [by |-> e, path |-> item[e], object |-> o]
  <2>3. new.by = e /\ new.path = item'[e]
    BY <2>1
  <2>4. touched' = touched \cup {new}
    BY <2>2
  <2> HIDE DEF new
  <2> QED
    BY <1>3, <2>1, <2>3, <2>4
<1>7. CASE Refuse(e)
  <2>1. PICK p \in todo[e] : Report(e, p, "failed")
    BY <1>7 DEF Refuse
  <2>2. pc[e] \notin Working /\ touched' = touched /\ p \in Paths
    BY <1>7 DEF Refuse, Working, effectObs, TypeOK, WorkersOK
  <2> QED
    BY <1>4, <2>1, <2>2
<1>8. CASE Fail(e)
  BY <1>2, <1>4, <1>8 DEF Fail, effectObs
<1>9. CASE Record(e)
  <2>1. \E t \in touched : t.by = e /\ t.path = item[e]
    BY <1>9 DEF Record, TakenInv
  <2>2. item[e] \in Paths
    BY <1>2, <1>9 DEF Record, Working
  <2> QED
    BY <1>4, <1>9, <2>1, <2>2 DEF Record
<1>10. CASE Rmdir(e)
  <2>1. item[e] \in Paths
    BY <1>2, <1>10 DEF Rmdir, Working
  <2> DEFINE new == [by |-> e, path |-> item[e], object |-> at[item[e]]]
  <2>2. new.by = e /\ new.path = item[e]
    OBVIOUS
  <2>3. touched' = touched \cup {new}
    BY <1>10 DEF Rmdir
  <2> HIDE DEF new
  <2> QED
    BY <1>4, <1>10, <2>1, <2>2, <2>3 DEF Rmdir
<1> QED
  BY <1>5, <1>6, <1>7, <1>8, <1>9, <1>10 DEF WorkerStep

\* Whatever call fails half way, and whatever other programs and executions do, what
\* a cleanup has touched it reports, and it reports no removal of what it has not.
THEOREM ReportsAreTrue == Spec => []TouchesAreReported
<1>1. Init => ReportsInv
  BY DEF Init, ReportsInv, TouchesAreReported, TakenInv
<1>2. CleanupInv /\ ReportsInv /\ [Next]_vars => ReportsInv'
  <2> SUFFICES ASSUME CleanupInv, ReportsInv, [Next]_vars PROVE ReportsInv'
    OBVIOUS
  <2>1. CASE \E e \in Executions : WorkerStep(e)
    BY <2>1, WorkerReports
  <2>2. CASE \A e \in Executions : ~ WorkerStep(e)
    <3>1. \A t \in touched : t.by \in Executions
      BY DEF CleanupInv, TypeOK, ObserversOK
    <3> QED
      BY <2>2, <3>1, StepReports DEF ReportsInv, TouchesAreReported, TakenInv
  <2> QED
    BY <2>1, <2>2
<1>3. ReportsInv => TouchesAreReported
  BY DEF ReportsInv
<1> QED
  BY <1>1, <1>2, <1>3, CleanupInvariant, PTL DEF Spec

-----------------------------------------------------------------------------
(* What is proven, and what was approved. *)

\* ProvenIsApproved, for what is at p.
ProvenAt(p) ==
  \A e \in Executions :
    pc[e] \in {"move", "list"} /\ item[e] = p =>
      [path |-> p, object |-> identity[e]] \in approved[e]

\* At p is, until someone takes it away, what every scan so far found there; it is what
\* was approved, and what a cleanup has at hand.
SightedAt(p) ==
  /\ \A s \in Scans : app[s] # Nothing => at[p] \in {sighted[s][p], Nothing}
  /\ \A e \in Executions :
       p \in todo[e] /\ pc[e] # "idle" =>
         [path |-> p, object |-> sighted[source[e]][p]] \in approved[e]
  /\ \A e \in Executions :
       pc[e] \in Working /\ item[e] = p => identity[e] = sighted[source[e]][p]

\* Only OthersCreate puts anything anywhere.
LEMMA NothingAppears ==
  ASSUME CleanupInv, [Next]_vars, NEW p \in Paths, ~ OthersCreate(p)
  PROVE  at'[p] \in {at[p], Nothing}
<1> USE DEF CleanupInv, TypeOK, DiskOK
<1>1. CASE Others
  BY <1>1 DEF Others, OthersRemove, OthersCreate, OthersWrite, OthersInstall, OthersUninstall
<1>2. CASE \E e \in Executions : WorkerStep(e)
  BY <1>2 DEF WorkerStep, Capture, Refuse, Fail, Verify, Move, Record, List, Unlink, Rmdir, diskVars
<1>3. CASE \/ \E s \in Scans : Scan(s) \/ Analyse(s) \/ ShowScan(s)
           \/ ReadIdentities \/ Enrich
           \/ \E e \in Executions : RunCleanup(e) \/ AcceptPreview(e)
           \/ \E e \in Executions : Remove(e) \/ AfterRemoval(e) \/ NotRemoved(e)
           \/ UNCHANGED vars
  BY <1>3 DEF Scan, Analyse, ScanFor, ShowScan, ReadIdentities, Enrich, RunCleanup, AcceptPreview,
              Remove, AfterRemoval, NotRemoved, vars, diskVars
<1> QED
  BY <1>1, <1>2, <1>3, StepCases

\* A scan finds what is there; the others found what they found.
LEMMA SightingsStay ==
  ASSUME CleanupInv, [Next]_vars, NEW s \in Scans
  PROVE  \/ app'[s] = app[s] /\ sighted'[s] = sighted[s]
         \/ app[s] = Nothing /\ sighted'[s] = at /\ at' = at
<1> USE DEF CleanupInv, TypeOK, WindowOK, ObserversOK
<1>1. CASE \E u \in Scans : Scan(u) \/ Analyse(u)
  BY <1>1 DEF Scan, Analyse, ScanFor, diskVars
<1>2. CASE Others \/ \E e \in Executions : WorkerStep(e)
  BY <1>2, OthersFrame, WorkerFrame DEF Outsiders, windowVars, scanVars, scanObs
<1>3. CASE \/ \E u \in Scans : ShowScan(u)
           \/ ReadIdentities \/ Enrich
           \/ \E e \in Executions : RunCleanup(e) \/ AcceptPreview(e)
           \/ \E e \in Executions : Remove(e) \/ AfterRemoval(e) \/ NotRemoved(e)
           \/ UNCHANGED vars
  BY <1>3 DEF ShowScan, ReadIdentities, Enrich, RunCleanup, AcceptPreview, Remove, AfterRemoval,
              NotRemoved, vars, windowVars, scanVars, scanObs
<1> QED
  BY <1>1, <1>2, <1>3, StepCases

\* What is to come was to come before, or is approved by the step, as its scan found it.
LEMMA GivenAsSighted ==
  ASSUME CleanupInv, [Next]_vars, NEW e \in Executions, NEW p \in todo'[e], pc'[e] # "idle"
  PROVE  \/ pc[e] # "idle" /\ p \in todo[e]
         \/ /\ UNCHANGED <<at, app, sighted>>
            /\ [path |-> p, object |-> sighted[source'[e]][p]] \in approved'[e]
<1> USE DEF CleanupInv, TypeOK, WorkersOK, ObserversOK
<1>1. ASSUME NEW f \in Executions, RunCleanup(f)
      PROVE  \/ pc[e] # "idle" /\ p \in todo[e]
             \/ /\ UNCHANGED <<at, app, sighted>>
                /\ [path |-> p, object |-> sighted[source'[e]][p]] \in approved'[e]
  <2>1. current \in Scans
    BY <1>1 DEF RunCleanup, WindowOK
  <2>2. PICK checked \in SUBSET Listed(current) :
          /\ todo' = [todo EXCEPT ![f] = {x \in Eligible(current) : \E y \in checked :
               Index(current, Eligible(current), x) = Index(current, Listed(current), y)}]
          /\ approved' = [approved EXCEPT ![f] = Approval(current, checked)]
    BY <1>1 DEF RunCleanup
  <2>3. todo'[f] \subseteq checked
    BY <2>1, <2>2, IndexNamesOne
  <2>4. source'[f] = current /\ UNCHANGED <<at, app, sighted>>
    BY <1>1 DEF RunCleanup, diskVars, windowVars, scanVars, scanObs
  <2>5. CASE f = e
    BY <2>2, <2>3, <2>4, <2>5 DEF Approval
  <2>6. CASE f # e
    BY <1>1, <2>2, <2>6 DEF RunCleanup
  <2> QED
    BY <2>5, <2>6
<1>2. ASSUME NEW f \in Executions, AcceptPreview(f)
      PROVE  \/ pc[e] # "idle" /\ p \in todo[e]
             \/ /\ UNCHANGED <<at, app, sighted>>
                /\ [path |-> p, object |-> sighted[source'[e]][p]] \in approved'[e]
  <2>1. PICK s \in Scans, ticked \in SUBSET Paths :
          /\ source' = [source EXCEPT ![f] = s]
          /\ todo' = [todo EXCEPT ![f] = ticked]
          /\ approved' = [approved EXCEPT ![f] = Approval(s, ticked)]
    BY <1>2 DEF AcceptPreview, WindowOK
  <2>2. UNCHANGED <<at, app, sighted>>
    BY <1>2 DEF AcceptPreview, diskVars, scanVars, scanObs
  <2>3. CASE f = e
    BY <2>1, <2>2, <2>3 DEF Approval
  <2>4. CASE f # e
    BY <1>2, <2>1, <2>4 DEF AcceptPreview
  <2> QED
    BY <2>3, <2>4
<1>3. CASE \E f \in Executions : Remove(f) \/ AfterRemoval(f) \/ NotRemoved(f)
  BY <1>3 DEF Remove, AfterRemoval, NotRemoved
<1>4. ASSUME NEW f \in Executions, WorkerStep(f)
      PROVE  pc[e] # "idle" /\ p \in todo[e]
  <2>1. pc[f] # "idle" /\ (f # e => pc'[e] = pc[e])
    BY <1>4 DEF WorkerStep, Capture, Refuse, Fail, Verify, Move, Record, List, Unlink, Rmdir, Report,
                Goto, Working
  <2>2. todo'[e] \subseteq todo[e]
    BY <1>4 DEF WorkerStep, Capture, Refuse, Fail, Verify, Move, Record, List, Unlink, Rmdir, Report
  <2> QED
    BY <2>1, <2>2
<1>5. CASE \/ \E s \in Scans : Scan(s) \/ Analyse(s) \/ ShowScan(s)
           \/ ReadIdentities \/ Enrich
           \/ Others
           \/ UNCHANGED vars
  BY <1>5, OthersFrame DEF Scan, Analyse, ScanFor, ShowScan, ReadIdentities, Enrich, Outsiders, vars,
                           workerVars
<1> QED
  BY <1>1, <1>2, <1>3, <1>4, <1>5, StepCases

\* What is at hand was at hand before, or is taken up by the step, as it is.
LEMMA CapturedAsFound ==
  ASSUME CleanupInv, [Next]_vars, NEW e \in Executions, pc'[e] \in Working
  PROVE  \/ pc[e] \in Working /\ UNCHANGED <<item[e], identity[e]>>
         \/ /\ pc[e] = "item"
            /\ item'[e] \in todo[e]
            /\ at[item'[e]] # Nothing
            /\ identity'[e] = at[item'[e]]
<1> USE DEF CleanupInv, TypeOK, WorkersOK
<1>1. ASSUME NEW f \in Executions, Capture(f)
      PROVE  \/ pc[e] \in Working /\ UNCHANGED <<item[e], identity[e]>>
             \/ /\ pc[e] = "item" /\ item'[e] \in todo[e]
                /\ at[item'[e]] # Nothing /\ identity'[e] = at[item'[e]]
  BY <1>1 DEF Capture, Goto
<1>2. CASE \E f \in Executions : Refuse(f) \/ Fail(f) \/ Record(f) \/ Rmdir(f)
  BY <1>2 DEF Refuse, Fail, Record, Rmdir, Report, Goto, Working
<1>3. CASE \E f \in Executions : Verify(f) \/ Move(f) \/ List(f) \/ Unlink(f)
  BY <1>3 DEF Verify, Move, List, Unlink, Goto, Working, itemVars
<1>4. CASE \E f \in Executions : \/ RunCleanup(f) \/ AcceptPreview(f)
                                \/ Remove(f) \/ AfterRemoval(f) \/ NotRemoved(f)
  BY <1>4 DEF RunCleanup, AcceptPreview, Remove, AfterRemoval, NotRemoved, Working, itemVars
<1>5. CASE \/ \E s \in Scans : Scan(s) \/ Analyse(s) \/ ShowScan(s)
           \/ ReadIdentities \/ Enrich
           \/ Others
           \/ UNCHANGED vars
  BY <1>5, OthersFrame DEF Scan, Analyse, ScanFor, ShowScan, ReadIdentities, Enrich, Outsiders, vars,
                           workerVars, itemVars
<1> QED
  BY <1>1, <1>2, <1>3, <1>4, <1>5, StepCases DEF WorkerStep

LEMMA SightedStep ==
  ASSUME CleanupInv, [Next]_vars, NEW p \in Paths, SightedAt(p), ~ OthersCreate(p)
  PROVE  SightedAt(p)'
<1> USE DEF CleanupInv
<1>1. at'[p] \in {at[p], Nothing}
  BY NothingAppears
<1>2. ASSUME NEW s \in Scans, app'[s] # Nothing
      PROVE  at'[p] \in {sighted'[s][p], Nothing}
  BY <1>1, <1>2, SightingsStay DEF SightedAt
\* The scan of a cleanup that has begun is over.
<1>3. ASSUME NEW e \in Executions, pc[e] # "idle"
      PROVE  /\ source[e] \in Scans /\ app[source[e]] # Nothing
             /\ source'[e] = source[e]
             /\ approved'[e] = approved[e]
             /\ sighted'[source[e]] = sighted[source[e]]
  <2>1. source[e] \in Scans /\ app[source[e]] # Nothing
    BY <1>3, NamesOK DEF RunsInv
  <2> QED
    BY <1>3, <2>1, RunIsFixed, SightingsStay
<1>4. ASSUME NEW e \in Executions, p \in todo'[e], pc'[e] # "idle"
      PROVE  [path |-> p, object |-> sighted'[source'[e]][p]] \in approved'[e]
  <2>1. CASE pc[e] # "idle" /\ p \in todo[e]
    BY <1>3, <2>1 DEF SightedAt
  <2>2. CASE ~ (pc[e] # "idle" /\ p \in todo[e])
    BY <1>4, <2>2, GivenAsSighted
  <2> QED
    BY <2>1, <2>2
<1>5. ASSUME NEW e \in Executions, pc'[e] \in Working, item'[e] = p
      PROVE  identity'[e] = sighted'[source'[e]][p]
  <2>1. CASE pc[e] \in Working /\ UNCHANGED <<item[e], identity[e]>>
    BY <1>3, <1>5, <2>1 DEF SightedAt, Working
  <2>2. CASE pc[e] = "item" /\ at[p] # Nothing /\ identity'[e] = at[p]
    BY <1>3, <2>2 DEF SightedAt
  <2> QED
    BY <1>5, <2>1, <2>2, CapturedAsFound
<1> QED
  BY <1>2, <1>4, <1>5 DEF SightedAt

\* filesystem.py's promise, that what is deleted is proven to be what the user approved,
\* is broken (ProvenIsApproved) by nothing but a new object at the very path: until another
\* program puts one there, what a cleanup has proven at p is what the user approved there,
\* whatever else comes, goes or is written.
THEOREM OnlyReplacedIsMistaken ==
  \A p \in Paths : Spec /\ [][~ OthersCreate(p)]_vars => []ProvenAt(p)
<1> SUFFICES ASSUME NEW p \in Paths
             PROVE  Spec /\ [][~ OthersCreate(p)]_vars => []ProvenAt(p)
  OBVIOUS
<1>1. Init => SightedAt(p)
  BY DEF Init, SightedAt, Working
<1>2. CleanupInv /\ SightedAt(p) /\ [Next]_vars /\ [~ OthersCreate(p)]_vars => SightedAt(p)'
  <2> SUFFICES ASSUME CleanupInv, SightedAt(p), [Next]_vars, [~ OthersCreate(p)]_vars
               PROVE  SightedAt(p)'
    OBVIOUS
  <2>1. ~ OthersCreate(p)
    <3>1. UNCHANGED vars => ~ OthersCreate(p)
      BY DEF vars, diskVars, OthersCreate, CleanupInv, TypeOK, DiskOK
    <3> QED
      BY <3>1
  <2> QED
    BY <2>1, SightedStep
<1>3. CleanupInv /\ SightedAt(p) => ProvenAt(p)
  BY DEF CleanupInv, ItemsInv, SightedAt, ProvenAt, Working
<1> QED
  BY <1>1, <1>2, <1>3, CleanupInvariant, PTL DEF Spec
=============================================================================
