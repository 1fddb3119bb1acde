------------------------- MODULE RemovalHelperProofs -------------------------
(***************************************************************************)
(* Proofs about RemovalHelper, for any packages, calls and handles.        *)
(***************************************************************************)
EXTENDS RemovalHelper, TLAPS

-----------------------------------------------------------------------------
(* What the ways a worker's step ends do to the types. *)

LEMMA FinishTypes ==
  ASSUME WorkersOK, MainOK, NEW c \in Calls, NEW code \in Results, Finish(c, code)
  PROVE  WorkersOK' /\ MainOK'
<1>1. pc' \in [Calls -> PC] /\ result' \in [Calls -> Results]
  BY DEF WorkersOK, Finish, PC
<1>2. /\ todo' \in [Calls -> SUBSET Pkgs]
      /\ held' \in [Calls -> Handles \cup {NoHandle}]
      /\ genSeen' \in [Calls -> Nat]
      /\ errors' \in [Calls -> BOOLEAN]
  BY DEF WorkersOK, Finish
<1>3. \A d \in Calls : pc'[d] \in {"wire", "init"} \cup InTransaction => held'[d] \in Handles
  BY DEF WorkersOK, Finish, InTransaction
<1>4. MainOK'
  BY DEF MainOK, Finish
<1> QED
  BY <1>1, <1>2, <1>3, <1>4 DEF WorkersOK, Finish

LEMMA ProceedTypes ==
  ASSUME WorkersOK, MainOK, NEW c \in Calls, NEW label \in PC, Proceed(c, label),
         label \in {"wire", "init"} \cup InTransaction => held[c] \in Handles
  PROVE  WorkersOK' /\ MainOK'
<1>1. MainOK'
  BY DEF MainOK, Proceed, mainVars
<1>2. WorkersOK'
  BY DEF WorkersOK, Proceed, Goto
<1> QED
  BY <1>1, <1>2

LEMMA ReturnTypes ==
  ASSUME WorkersOK, MainOK, NEW c \in Calls, Return(c)
  PROVE  WorkersOK' /\ MainOK'
<1>1. MainOK'
  BY DEF MainOK, Return, mainVars
<1>2. WorkersOK'
  BY DEF WorkersOK, Return, Goto, PC, InTransaction
<1> QED
  BY <1>1, <1>2

LEMMA UnchangedTypes ==
  /\ SystemOK /\ UNCHANGED systemVars => SystemOK'
  /\ BackendOK /\ UNCHANGED backendVars => BackendOK'
  /\ ObjectsOK /\ UNCHANGED objectVars => ObjectsOK'
  /\ MainOK /\ UNCHANGED mainVars => MainOK'
  /\ WorkersOK /\ UNCHANGED workerVars => WorkersOK'
  /\ ObserversOK /\ UNCHANGED observerVars => ObserversOK'
BY DEF SystemOK, systemVars, BackendOK, backendVars, ObjectsOK, objectVars, MainOK, mainVars,
       WorkersOK, workerVars, ObserversOK, observerVars

\* TypeOK is inductive.  It is about every variable of RemovalHelper.
LEMMA TypeOKStep ==
  ASSUME TypeOK, [Next]_vars
  PROVE  TypeOK'
<1> USE DEF TypeOK, systemVars, backendVars, objectVars, observerVars
<1>1. ASSUME NEW c \in Calls, Receive(c) PROVE TypeOK'
  <2>1. request' \in [Calls -> Request \cup {NoRequest}]
    BY <1>1, BoundsOK DEF Receive, WorkersOK, SystemOK, Request
  <2>2. WorkersOK'
    BY <1>1, <2>1 DEF Receive, WorkersOK, PC, InTransaction
  <2>3. MainOK'
    BY <1>1 DEF Receive, MainOK
  <2> QED
    BY <1>1, <2>2, <2>3 DEF Receive, SystemOK, BackendOK, ObjectsOK, ObserversOK
<1>2. ASSUME NEW c \in Calls, EnterLoop(c) PROVE TypeOK'
  <2>1. MainOK'
    BY <1>2 DEF EnterLoop, MainOK
  <2> QED
    BY <1>2, <2>1, UnchangedTypes DEF EnterLoop
<1>3. ASSUME NEW c \in Calls, LeaveLoop(c) \/ ReturnReply(c) PROVE TypeOK'
  <2>1. loops' \in Seq(Calls)
    BY <1>3 DEF LeaveLoop, ReturnReply, MainOK
  <2>2. MainOK'
    BY <1>3, <2>1 DEF LeaveLoop, ReturnReply, MainOK
  <2> QED
    BY <1>3, <2>2, UnchangedTypes DEF LeaveLoop, ReturnReply
<1>4. ASSUME NEW c \in Calls, RejectMalformed(c) PROVE TypeOK'
  <2>1. WorkersOK' /\ MainOK'
    BY <1>4, FinishTypes DEF RejectMalformed, Results, Refusals
  <2> QED
    BY <1>4, <2>1, UnchangedTypes DEF RejectMalformed
<1>5. ASSUME NEW c \in Calls, Authorize(c) PROVE TypeOK'
  <2>1. CASE Proceed(c, "gate") /\ granted' = granted \cup {c}
    BY <1>5, <2>1, ProceedTypes, UnchangedTypes DEF Authorize, PC, InTransaction, ObserversOK
  <2>2. CASE Finish(c, "authorization-denied") /\ UNCHANGED granted
    BY <1>5, <2>2, FinishTypes, UnchangedTypes DEF Authorize, Results, Refusals, ObserversOK
  <2> QED
    BY <1>5, <2>1, <2>2 DEF Authorize
<1>6. ASSUME NEW c \in Calls, CheckStale(c) PROVE TypeOK'
  <2>1. WorkersOK' /\ MainOK'
    <3>1. CASE Finish(c, "stale-plan")
      BY <3>1, FinishTypes DEF Results, Refusals
    <3>2. CASE ~ Finish(c, "stale-plan")
      <4>1. /\ pc' = [pc EXCEPT ![c] = "ensure"]
            /\ todo' = [todo EXCEPT ![c] = request[c].names]
            /\ UNCHANGED <<request, held, genSeen, errors, result, mainVars>>
        BY <1>6, <3>2 DEF CheckStale, Goto
      <4>2. request[c].names \in SUBSET Pkgs
        BY DEF WorkersOK, Request, NoRequest
      <4> QED
        BY <4>1, <4>2, UnchangedTypes DEF WorkersOK, PC, InTransaction
    <3> QED
      BY <3>1, <3>2
  <2> QED
    BY <1>6, <2>1, UnchangedTypes DEF CheckStale
<1>7. ASSUME NEW c \in Calls, FailDatabase(c) PROVE TypeOK'
  <2>1. WorkersOK' /\ MainOK'
    BY <1>7, FinishTypes DEF FailDatabase, Results, Refusals
  <2> QED
    BY <1>7, <2>1, UnchangedTypes DEF FailDatabase
<1>8. ASSUME NEW c \in Calls, ReadGeneration(c) \/ TestHandle(c) \/ MatchGeneration(c)
      PROVE  TypeOK'
  <2>1. WorkersOK' /\ MainOK'
    <3>1. CASE \E label \in {"take", "open", "match"} : Proceed(c, label)
      BY <3>1, ProceedTypes DEF PC, InTransaction
    <3>2. CASE ReadGeneration(c)
      BY <3>2, UnchangedTypes DEF ReadGeneration, Goto, WorkersOK, SystemOK, PC, InTransaction
    <3>3. CASE Return(c)
      BY <3>3, ReturnTypes
    <3> QED
      BY <1>8, <3>1, <3>2, <3>3 DEF TestHandle, MatchGeneration
  <2> QED
    BY <1>8, <2>1, UnchangedTypes DEF ReadGeneration, TestHandle, MatchGeneration
<1>9. ASSUME NEW c \in Calls, OpenHandle(c) PROVE TypeOK'
  <2>1. PICK h \in Handles :
          /\ handle' = h
          /\ cache' = [cache EXCEPT ![h] = installed]
          /\ logTo' = [logTo EXCEPT ![h] = NoCall]
          /\ trans' = [trans EXCEPT ![h] = NoCall]
    BY <1>9 DEF OpenHandle, Unused
  <2>2. BackendOK' /\ ObjectsOK'
    BY <1>9, <2>1 DEF OpenHandle, SystemOK, BackendOK, ObjectsOK
  <2>3. WorkersOK' /\ MainOK'
    BY <1>9, ProceedTypes DEF OpenHandle, PC, InTransaction
  <2> QED
    BY <1>9, <2>2, <2>3, UnchangedTypes DEF OpenHandle
<1>10. ASSUME NEW c \in Calls, PublishGeneration(c) PROVE TypeOK'
  <2>1. BackendOK'
    BY <1>10 DEF PublishGeneration, BackendOK, WorkersOK
  <2>2. WorkersOK' /\ MainOK'
    BY <1>10, ReturnTypes DEF PublishGeneration
  <2> QED
    BY <1>10, <2>1, <2>2, UnchangedTypes DEF PublishGeneration
<1>11. ASSUME NEW c \in Calls, CheckInstalled(c) PROVE TypeOK'
  <2>1. WorkersOK' /\ MainOK'
    <3>1. CASE Finish(c, "stale-plan")
      BY <3>1, FinishTypes DEF Results, Refusals
    <3>2. CASE ~ Finish(c, "stale-plan")
      <4>1. PICK name \in todo[c] :
              /\ pc' = [pc EXCEPT ![c] = "ensure"]
              /\ todo' = [todo EXCEPT ![c] = @ \ {name}]
              /\ UNCHANGED <<request, held, genSeen, errors, result, mainVars>>
        BY <1>11, <3>2 DEF CheckInstalled, Goto
      <4> QED
        BY <4>1, UnchangedTypes DEF WorkersOK, PC, InTransaction
    <3> QED
      BY <3>1, <3>2
  <2> QED
    BY <1>11, <2>1, UnchangedTypes DEF CheckInstalled
<1>12. ASSUME NEW c \in Calls, ResolvePackages(c) PROVE TypeOK'
  <2>1. WorkersOK' /\ MainOK'
    <3>1. CASE Finish(c, "internal-error") \/ Finish(c, "PackageNotFound")
      BY <3>1, FinishTypes DEF Results, Refusals
    <3>2. CASE ~ (Finish(c, "internal-error") \/ Finish(c, "PackageNotFound"))
      <4>1. /\ handle # NoHandle
            /\ pc' = [pc EXCEPT ![c] = "wire"]
            /\ held' = [held EXCEPT ![c] = handle]
            /\ UNCHANGED <<request, todo, genSeen, errors, result, mainVars>>
        BY <1>12, <3>2 DEF ResolvePackages, Goto
      <4> QED
        BY <4>1, UnchangedTypes DEF WorkersOK, BackendOK, PC, InTransaction
    <3> QED
      BY <3>1, <3>2
  <2> QED
    BY <1>12, <2>1, UnchangedTypes DEF ResolvePackages
<1>13. ASSUME NEW c \in Calls, WireCallbacks(c) PROVE TypeOK'
  <2>1. ObjectsOK'
    BY <1>13 DEF WireCallbacks, ObjectsOK
  <2>2. WorkersOK' /\ MainOK'
    BY <1>13, ProceedTypes DEF WireCallbacks, WorkersOK, PC
  <2>3. ObserversOK'
    BY <1>13 DEF WireCallbacks, ObserversOK
  <2> QED
    BY <1>13, <2>1, <2>2, <2>3, UnchangedTypes DEF WireCallbacks
<1>14. ASSUME NEW c \in Calls, InitTransaction(c) PROVE TypeOK'
  <2> USE <1>14 DEF InitTransaction
  <2>1. SystemOK' /\ ObjectsOK'
    BY DEF SystemOK, ObjectsOK
  <2>2. WorkersOK' /\ MainOK'
    <3>1. CASE Finish(c, "TransactionFailed") \/ Finish(c, "PackageManagerBusy")
      BY <3>1, FinishTypes DEF Results, Refusals
    <3>2. CASE ~ (Finish(c, "TransactionFailed") \/ Finish(c, "PackageManagerBusy"))
      <4>1. /\ pc[c] = "init"
            /\ pc' = [pc EXCEPT ![c] = "settx"]
            /\ todo' = [todo EXCEPT ![c] = request[c].names]
            /\ UNCHANGED <<request, held, genSeen, errors, result, mainVars>>
        BY <3>2 DEF Goto
      <4>2. request[c].names \in SUBSET Pkgs
        BY DEF WorkersOK, Request, NoRequest
      <4> QED
        BY <4>1, <4>2, UnchangedTypes DEF WorkersOK, PC
    <3> QED
      BY <3>1, <3>2
  <2> QED
    BY <2>1, <2>2, UnchangedTypes
<1>15. ASSUME NEW c \in Calls, SetTransaction(c) PROVE TypeOK'
  <2>1. BackendOK'
    BY <1>15 DEF SetTransaction, BackendOK
  <2>2. WorkersOK' /\ MainOK'
    BY <1>15, ProceedTypes DEF SetTransaction, WorkersOK, PC, InTransaction
  <2> QED
    BY <1>15, <2>1, <2>2, UnchangedTypes DEF SetTransaction
<1>16. ASSUME NEW c \in Calls, ClearInterrupt(c) PROVE TypeOK'
  <2>1. BackendOK'
    BY <1>16 DEF ClearInterrupt, BackendOK
  <2>2. WorkersOK' /\ MainOK'
    BY <1>16, ProceedTypes DEF ClearInterrupt, WorkersOK, PC, InTransaction
  <2> QED
    BY <1>16, <2>1, <2>2, UnchangedTypes DEF ClearInterrupt
<1>17. ASSUME NEW c \in Calls, Prepare(c) PROVE TypeOK'
  <2>1. WorkersOK' /\ MainOK'
    BY <1>17, ProceedTypes DEF Prepare, WorkersOK, PC, InTransaction
  <2> QED
    BY <1>17, <2>1, UnchangedTypes DEF Prepare
<1>18. ASSUME NEW c \in Calls, CommitPackage(c) PROVE TypeOK'
  <2>1. PICK p \in todo[c], logsError \in BOOLEAN :
          /\ installed' = installed \ {p}
          /\ dbGen' = IF p \in installed THEN dbGen + 1 ELSE dbGen
          /\ todo' = [todo EXCEPT ![c] = @ \ {p}]
          /\ cache' = [cache EXCEPT ![held[c]] = @ \ {p}]
          /\ errors' = [d \in Calls |-> errors[d] \/ (logsError /\ d = logTo[held[c]])]
          /\ logged' = IF logsError THEN logged \cup {c} ELSE logged
    BY <1>18 DEF CommitPackage
  <2>2. SystemOK'
    BY <1>18, <2>1 DEF CommitPackage, SystemOK
  <2>3. ObjectsOK'
    BY <1>18, <2>1 DEF CommitPackage, ObjectsOK
  <2>4. ObserversOK'
    BY <1>18, <2>1 DEF CommitPackage, ObserversOK
  <2>5. errors' \in [Calls -> BOOLEAN]
    BY <2>1
  <2>6. todo' \in [Calls -> SUBSET Pkgs]
    BY <2>1 DEF WorkersOK
  <2>7. WorkersOK'
    BY <1>18, <2>5, <2>6 DEF CommitPackage, WorkersOK
  <2> QED
    BY <1>18, <2>2, <2>3, <2>4, <2>7, UnchangedTypes DEF CommitPackage
<1>19. ASSUME NEW c \in Calls, CommitReturns(c) \/ TransactionRaises(c) PROVE TypeOK'
  <2>1. /\ pc[c] \in InTransaction
        /\ pc' = [pc EXCEPT ![c] = "release"]
        /\ \E code \in Results : result' = [result EXCEPT ![c] = code]
        /\ UNCHANGED <<systemVars, backendVars, objectVars, observerVars, mainVars,
                       request, todo, held, genSeen, errors>>
    BY <1>19 DEF CommitReturns, TransactionRaises, Goto, Results, Refusals, InTransaction
  <2>2. WorkersOK'
    BY <2>1 DEF WorkersOK, PC
  <2> QED
    BY <2>1, <2>2, UnchangedTypes
<1>20. ASSUME NEW c \in Calls, ReleaseTransaction(c) PROVE TypeOK'
  <2>1. SystemOK' /\ ObjectsOK'
    BY <1>20 DEF ReleaseTransaction, SystemOK, ObjectsOK
  <2>2. WorkersOK' /\ MainOK'
    BY <1>20, ProceedTypes DEF ReleaseTransaction, PC, InTransaction
  <2> QED
    BY <1>20, <2>1, <2>2, UnchangedTypes DEF ReleaseTransaction
<1>21. ASSUME NEW c \in Calls, UnsetTransaction(c) PROVE TypeOK'
  <2>1. BackendOK'
    BY <1>21 DEF UnsetTransaction, BackendOK
  <2>2. WorkersOK' /\ MainOK'
    BY <1>21, ProceedTypes DEF UnsetTransaction, PC, InTransaction
  <2> QED
    BY <1>21, <2>1, <2>2, UnchangedTypes DEF UnsetTransaction
<1>22. ASSUME NEW c \in Calls, DropHandle(c) PROVE TypeOK'
  <2>1. BackendOK'
    BY <1>22 DEF DropHandle, BackendOK
  <2>2. WorkersOK' /\ MainOK'
    BY <1>22, FinishTypes DEF DropHandle, WorkersOK
  <2> QED
    BY <1>22, <2>1, <2>2, UnchangedTypes DEF DropHandle
<1>23. CASE CancelSetFlag
  BY <1>23, UnchangedTypes DEF CancelSetFlag, BackendOK, MainOK
<1>24. CASE CancelInterrupt
  <2>1. ObjectsOK' /\ MainOK'
    BY <1>24 DEF CancelInterrupt, ObjectsOK, MainOK
  <2> QED
    BY <1>24, <2>1, UnchangedTypes DEF CancelInterrupt
<1>25. CASE PacmanBegin
  BY <1>25, UnchangedTypes DEF PacmanBegin, SystemOK
<1>26. CASE PacmanEnd
  BY <1>26, UnchangedTypes DEF PacmanEnd, SystemOK
<1>27. CASE UNCHANGED vars
  BY <1>27, UnchangedTypes DEF vars
<1> QED
  BY <1>1, <1>2, <1>3, <1>4, <1>5, <1>6, <1>7, <1>8, <1>9, <1>10, <1>11, <1>12, <1>13, <1>14,
     <1>15, <1>16, <1>17, <1>18, <1>19, <1>20, <1>21, <1>22, <1>23, <1>24, <1>25, <1>26, <1>27
     DEF Next, MainStep, WorkerStep

THEOREM HelperTypeCorrect == Spec => []TypeOK
<1>1. Init => TypeOK
  <2> SUFFICES ASSUME Init PROVE TypeOK
    OBVIOUS
  <2> USE DEF Init
  <2>1. SystemOK /\ BackendOK
    BY DEF SystemOK, BackendOK
  <2>2. ObjectsOK
    BY DEF ObjectsOK
  <2>3. WorkersOK
    BY DEF WorkersOK, PC, Results, InTransaction
  <2>4. MainOK /\ ObserversOK
    BY DEF MainOK, ObserversOK
  <2> QED
    BY <2>1, <2>2, <2>3, <2>4 DEF TypeOK
<1>2. TypeOK /\ [Next]_vars => TypeOK'
  BY TypeOKStep
<1> QED
  BY <1>1, <1>2, PTL DEF Spec

-----------------------------------------------------------------------------
(* Who holds the lock. *)

\* A step of anybody but InitTransaction, ReleaseTransaction and the other package
\* manager leaves the lock alone, and every call on its side of InTransaction.
LockStays ==
  /\ lock' = lock
  /\ \A c \in Calls : pc'[c] \in InTransaction <=> pc[c] \in InTransaction

LockMoves ==
  \/ LockStays
  \/ \E c \in Calls : lock = Free /\ lock' = c /\ pc' = [pc EXCEPT ![c] = "settx"]
  \/ \E c \in Calls : /\ pc[c] = "release"
                      /\ lock' = Free
                      /\ pc' = [pc EXCEPT ![c] = "untx"]
  \/ {lock, lock'} = {Free, Pacman} /\ pc' = pc

LEMMA StepsMoveTheLock ==
  ASSUME TypeOK, [Next]_vars
  PROVE  LockMoves
<1> USE DEF TypeOK, WorkersOK, systemVars, workerVars, Finish, Proceed, Goto
<1>1. ASSUME NEW c \in Calls, Receive(c) \/ EnterLoop(c) \/ LeaveLoop(c) \/ ReturnReply(c)
      PROVE  LockStays
  BY <1>1 DEF Receive, EnterLoop, LeaveLoop, ReturnReply, LockStays, InTransaction
<1>2. ASSUME NEW c \in Calls,
             RejectMalformed(c) \/ Authorize(c) \/ CheckStale(c) \/ FailDatabase(c)
      PROVE  LockStays
  BY <1>2 DEF RejectMalformed, Authorize, CheckStale, FailDatabase, LockStays, InTransaction
<1>3. ASSUME NEW c \in Calls,
             \/ ReadGeneration(c) \/ TestHandle(c) \/ MatchGeneration(c)
             \/ OpenHandle(c) \/ PublishGeneration(c)
      PROVE  LockStays
  BY <1>3 DEF ReadGeneration, TestHandle, MatchGeneration, Return, OpenHandle, PublishGeneration,
              LockStays, InTransaction
<1>4. ASSUME NEW c \in Calls, CheckInstalled(c) \/ ResolvePackages(c) \/ WireCallbacks(c)
      PROVE  LockStays
  BY <1>4 DEF CheckInstalled, ResolvePackages, WireCallbacks, LockStays, InTransaction
<1>5. ASSUME NEW c \in Calls, InitTransaction(c) PROVE LockMoves
  <2>1. CASE lock = Free /\ lock' = c /\ Goto(c, "settx")
    BY <2>1 DEF LockMoves
  <2>2. CASE lock' = lock /\ \E code \in Results : Finish(c, code)
    BY <1>5, <2>2 DEF InitTransaction, LockMoves, LockStays, InTransaction
  <2> QED
    BY <1>5, <2>1, <2>2 DEF InitTransaction, Results, Refusals
<1>6. ASSUME NEW c \in Calls, SetTransaction(c) \/ ClearInterrupt(c) \/ Prepare(c)
      PROVE  LockStays
  BY <1>6 DEF SetTransaction, ClearInterrupt, Prepare, LockStays, InTransaction
<1>7. ASSUME NEW c \in Calls, CommitPackage(c) \/ CommitReturns(c) \/ TransactionRaises(c)
      PROVE  LockStays
  BY <1>7 DEF CommitPackage, CommitReturns, TransactionRaises, LockStays, InTransaction
<1>8. ASSUME NEW c \in Calls, ReleaseTransaction(c) PROVE LockMoves
  BY <1>8 DEF ReleaseTransaction, LockMoves
<1>9. ASSUME NEW c \in Calls, UnsetTransaction(c) \/ DropHandle(c) PROVE LockStays
  BY <1>9 DEF UnsetTransaction, DropHandle, LockStays, InTransaction
<1>10. CASE CancelSetFlag \/ CancelInterrupt
  BY <1>10 DEF CancelSetFlag, CancelInterrupt, LockMoves, LockStays
<1>11. CASE PacmanBegin \/ PacmanEnd
  BY <1>11 DEF PacmanBegin, PacmanEnd, LockMoves
<1>12. CASE UNCHANGED vars
  BY <1>12 DEF vars, LockMoves, LockStays
<1> QED
  BY <1>1, <1>2, <1>3, <1>4, <1>5, <1>6, <1>7, <1>8, <1>9, <1>10, <1>11, <1>12
     DEF Next, MainStep, WorkerStep, LockMoves

\* A call owns db.lck exactly while its transaction is open.
THEOREM LockIsExclusive == Spec => []LockHeldExactlyInTransaction
<1>1. Init => LockHeldExactlyInTransaction
  BY NoneDistinct DEF Init, LockHeldExactlyInTransaction, InTransaction
<1>2. TypeOK /\ LockHeldExactlyInTransaction /\ [Next]_vars => LockHeldExactlyInTransaction'
  <2> SUFFICES ASSUME TypeOK, LockHeldExactlyInTransaction, LockMoves
               PROVE  LockHeldExactlyInTransaction'
    BY StepsMoveTheLock
  <2>1. CASE LockStays
    BY <2>1 DEF LockStays, LockHeldExactlyInTransaction
  <2>2. ASSUME NEW c \in Calls, lock = Free, lock' = c, pc' = [pc EXCEPT ![c] = "settx"]
        PROVE  LockHeldExactlyInTransaction'
    BY <2>2, NoneDistinct DEF LockHeldExactlyInTransaction, InTransaction, TypeOK, WorkersOK
  <2>3. ASSUME NEW c \in Calls, pc[c] = "release", lock' = Free,
               pc' = [pc EXCEPT ![c] = "untx"]
        PROVE  LockHeldExactlyInTransaction'
    BY <2>3, NoneDistinct DEF LockHeldExactlyInTransaction, InTransaction, TypeOK, WorkersOK
  <2>4. CASE {lock, lock'} = {Free, Pacman} /\ pc' = pc
    <3>1. lock \notin Calls /\ lock' \notin Calls
      BY <2>4, NoneDistinct
    <3> QED
      BY <2>4, <3>1 DEF LockHeldExactlyInTransaction
  <2> QED
    BY <2>1, <2>2, <2>3, <2>4 DEF LockMoves
<1> QED
  BY <1>1, <1>2, HelperTypeCorrect, PTL DEF Spec

-----------------------------------------------------------------------------
(* The cached handle.                                                      *)
(*                                                                         *)
(* CurrentHandleIsFresh is not inductive: a call about to publish its      *)
(* generation may find another call's handle in self._handle.  What saves  *)
(* it is that the generation was read before the handle was opened.        *)

PublishIsSafe ==
  \A c \in Calls : pc[c] = "publish" /\ genSeen[c] = dbGen /\ handle # NoHandle =>
    cache[handle] = installed

GenerationsArePast == handleGen <= dbGen /\ \A c \in Calls : genSeen[c] <= dbGen

FreshInv == GenerationsArePast /\ CurrentHandleIsFresh /\ PublishIsSafe

\* Steps that touch neither the database, the handle nor a call at "publish".
HandleStays ==
  /\ UNCHANGED <<installed, dbGen, handle, handleGen, cache>>
  /\ \A c \in Calls :
       /\ pc'[c] = "publish" => pc[c] = "publish" /\ genSeen'[c] = genSeen[c]
       /\ genSeen'[c] \in {genSeen[c], 0, dbGen}

LEMMA StepsThatKeepTheHandle ==
  ASSUME TypeOK, [Next]_vars
  PROVE  \/ HandleStays
         \/ PacmanEnd
         \/ \E c \in Calls :
              OpenHandle(c) \/ PublishGeneration(c) \/ CommitPackage(c) \/ DropHandle(c)
<1> USE DEF TypeOK, WorkersOK, systemVars, backendVars, objectVars, workerVars,
            Finish, Proceed, Goto
<1>1. ASSUME NEW c \in Calls, Receive(c) \/ EnterLoop(c) \/ LeaveLoop(c) \/ ReturnReply(c)
      PROVE  HandleStays
  BY <1>1 DEF Receive, EnterLoop, LeaveLoop, ReturnReply, HandleStays
<1>2. ASSUME NEW c \in Calls,
             RejectMalformed(c) \/ Authorize(c) \/ CheckStale(c) \/ FailDatabase(c)
      PROVE  HandleStays
  BY <1>2 DEF RejectMalformed, Authorize, CheckStale, FailDatabase, HandleStays
<1>3. ASSUME NEW c \in Calls,
             \/ ReadGeneration(c) \/ TestHandle(c) \/ MatchGeneration(c)
             \/ CheckInstalled(c) \/ ResolvePackages(c) \/ WireCallbacks(c)
      PROVE  HandleStays
  <2>1. CASE ReadGeneration(c) \/ TestHandle(c) \/ MatchGeneration(c)
    BY <2>1 DEF ReadGeneration, TestHandle, MatchGeneration, Return, HandleStays
  <2>2. CASE CheckInstalled(c) \/ ResolvePackages(c) \/ WireCallbacks(c)
    BY <2>2 DEF CheckInstalled, ResolvePackages, WireCallbacks, HandleStays
  <2> QED
    BY <1>3, <2>1, <2>2
<1>4. ASSUME NEW c \in Calls, InitTransaction(c) PROVE HandleStays
  BY <1>4 DEF InitTransaction, HandleStays
<1>5. ASSUME NEW c \in Calls,
             SetTransaction(c) \/ ClearInterrupt(c) \/ Prepare(c) \/ CommitReturns(c)
      PROVE  HandleStays
  BY <1>5 DEF SetTransaction, ClearInterrupt, Prepare, CommitReturns, HandleStays
<1>6. ASSUME NEW c \in Calls,
             TransactionRaises(c) \/ ReleaseTransaction(c) \/ UnsetTransaction(c)
      PROVE  HandleStays
  BY <1>6 DEF TransactionRaises, ReleaseTransaction, UnsetTransaction, HandleStays
<1>7. CASE CancelSetFlag \/ CancelInterrupt \/ PacmanBegin \/ UNCHANGED vars
  BY <1>7 DEF CancelSetFlag, CancelInterrupt, PacmanBegin, vars, HandleStays
<1> QED
  BY <1>1, <1>2, <1>3, <1>4, <1>5, <1>6, <1>7 DEF Next, MainStep, WorkerStep

\* A cached handle whose generation is current shows what is installed.
THEOREM HandleIsFresh == Spec => []CurrentHandleIsFresh
<1>1. Init => FreshInv
  BY DEF Init, FreshInv, GenerationsArePast, CurrentHandleIsFresh, PublishIsSafe
<1>2. TypeOK /\ FreshInv /\ [Next]_vars => FreshInv'
  <2> SUFFICES ASSUME TypeOK, FreshInv, [Next]_vars PROVE FreshInv'
    OBVIOUS
  <2> USE DEF FreshInv, GenerationsArePast, CurrentHandleIsFresh, PublishIsSafe
  <2>0. /\ dbGen \in Nat /\ handleGen \in Int /\ genSeen \in [Calls -> Nat]
        /\ pc \in [Calls -> PC] /\ cache \in [Handles -> SUBSET Pkgs]
        /\ handle \in Handles \cup {NoHandle}
    BY DEF TypeOK, SystemOK, BackendOK, WorkersOK, ObjectsOK
  <2>1. CASE HandleStays
    BY <2>0, <2>1 DEF HandleStays
  <2>2. CASE PacmanEnd
    BY <2>0, <2>2 DEF PacmanEnd, backendVars, objectVars, workerVars
  <2>3. ASSUME NEW c \in Calls, OpenHandle(c) PROVE FreshInv'
    <3>1. PICK h \in Handles : handle' = h /\ cache' = [cache EXCEPT ![h] = installed]
      BY <2>3 DEF OpenHandle, Unused
    <3>2. cache'[handle'] = installed'
      BY <2>0, <2>3, <3>1 DEF OpenHandle, systemVars
    <3> QED
      BY <2>0, <2>3, <3>2 DEF OpenHandle, systemVars, Proceed
  <2>4. ASSUME NEW c \in Calls, PublishGeneration(c) PROVE FreshInv'
    BY <2>0, <2>4 DEF PublishGeneration, systemVars, objectVars, Return, Goto
  <2>5. ASSUME NEW c \in Calls, CommitPackage(c) PROVE FreshInv'
    <3>1. PICK p \in todo[c] :
            /\ installed' = installed \ {p}
            /\ dbGen' = IF p \in installed THEN dbGen + 1 ELSE dbGen
            /\ cache' = [cache EXCEPT ![held[c]] = @ \ {p}]
      BY <2>5 DEF CommitPackage
    <3>2. UNCHANGED <<handle, handleGen, genSeen, pc>>
      BY <2>5 DEF CommitPackage, backendVars
    <3>3. CASE p \in installed
      BY <2>0, <3>1, <3>2, <3>3
    <3>4. CASE p \notin installed
      <4>1. handle # NoHandle /\ cache[handle] = installed => cache'[handle] = installed'
        BY <2>0, <3>1, <3>4
      <4> QED
        BY <2>0, <3>1, <3>2, <3>4, <4>1
    <3> QED
      BY <3>3, <3>4
  <2>6. ASSUME NEW c \in Calls, DropHandle(c) PROVE FreshInv'
    BY <2>0, <2>6 DEF DropHandle, systemVars, objectVars, Finish
  <2> QED
    BY <2>1, <2>2, <2>3, <2>4, <2>5, <2>6, StepsThatKeepTheHandle
<1>3. FreshInv => CurrentHandleIsFresh
  BY DEF FreshInv
<1> QED
  BY <1>1, <1>2, <1>3, HelperTypeCorrect, PTL DEF Spec

-----------------------------------------------------------------------------
(* self._transaction. *)

Live == {"clear", "prepare", "commit", "release", "untx"}

\* Steps that leave self._transaction alone keep its call where it is live.
TransactionStays ==
  /\ transaction' = transaction
  /\ \A c \in Calls : pc[c] \in Live => pc'[c] \in Live

\* A cancel never reaches a transaction that is over.
THEOREM TransactionIsLive == Spec => []TransactionFieldIsLive
<1>1. Init => TransactionFieldIsLive
  BY DEF Init, TransactionFieldIsLive
<1>2. TypeOK /\ TransactionFieldIsLive /\ [Next]_vars => TransactionFieldIsLive'
  <2> SUFFICES ASSUME TypeOK, TransactionFieldIsLive, [Next]_vars
               PROVE  TransactionFieldIsLive'
    OBVIOUS
  <2>0. pc \in [Calls -> PC] /\ transaction \in Calls \cup {NoCall}
    BY DEF TypeOK, WorkersOK, BackendOK
  <2> USE <2>0 DEF backendVars, workerVars, Finish, Proceed, Goto, TransactionStays, Live
  <2>1. ASSUME NEW c \in Calls, Receive(c) \/ EnterLoop(c) \/ LeaveLoop(c) \/ ReturnReply(c)
        PROVE  TransactionStays
    BY <2>1 DEF Receive, EnterLoop, LeaveLoop, ReturnReply
  <2>2. ASSUME NEW c \in Calls,
               RejectMalformed(c) \/ Authorize(c) \/ CheckStale(c) \/ FailDatabase(c)
        PROVE  TransactionStays
    BY <2>2 DEF RejectMalformed, Authorize, CheckStale, FailDatabase
  <2>3. ASSUME NEW c \in Calls,
               \/ ReadGeneration(c) \/ TestHandle(c) \/ MatchGeneration(c)
               \/ OpenHandle(c) \/ PublishGeneration(c)
        PROVE  TransactionStays
    BY <2>3 DEF ReadGeneration, TestHandle, MatchGeneration, Return, OpenHandle,
                PublishGeneration
  <2>4. ASSUME NEW c \in Calls, CheckInstalled(c) \/ ResolvePackages(c) \/ WireCallbacks(c)
        PROVE  TransactionStays
    BY <2>4 DEF CheckInstalled, ResolvePackages, WireCallbacks
  <2>5. ASSUME NEW c \in Calls, InitTransaction(c) PROVE TransactionStays
    BY <2>5 DEF InitTransaction
  <2>6. ASSUME NEW c \in Calls, SetTransaction(c) PROVE TransactionFieldIsLive'
    BY <2>6 DEF SetTransaction, TransactionFieldIsLive
  <2>7. ASSUME NEW c \in Calls, ClearInterrupt(c) \/ Prepare(c) \/ CommitPackage(c)
        PROVE  TransactionStays
    BY <2>7 DEF ClearInterrupt, Prepare, CommitPackage
  <2>8. ASSUME NEW c \in Calls,
               CommitReturns(c) \/ TransactionRaises(c) \/ ReleaseTransaction(c)
        PROVE  TransactionStays
    BY <2>8 DEF CommitReturns, TransactionRaises, ReleaseTransaction
  <2>9. ASSUME NEW c \in Calls, UnsetTransaction(c) PROVE TransactionFieldIsLive'
    BY <2>9 DEF UnsetTransaction, TransactionFieldIsLive
  <2>10. ASSUME NEW c \in Calls, DropHandle(c) PROVE TransactionStays
    BY <2>10 DEF DropHandle
  <2>11. CASE CancelSetFlag \/ CancelInterrupt \/ PacmanBegin \/ PacmanEnd \/ UNCHANGED vars
    <3>1. UNCHANGED <<pc, transaction>>
      BY <2>11 DEF CancelSetFlag, CancelInterrupt, PacmanBegin, PacmanEnd, vars
    <3> QED
      BY <3>1 DEF TransactionFieldIsLive
  <2>12. TransactionStays => TransactionFieldIsLive'
    BY DEF TransactionFieldIsLive
  <2> QED
    BY <2>1, <2>2, <2>3, <2>4, <2>5, <2>6, <2>7, <2>8, <2>9, <2>10, <2>11, <2>12
       DEF Next, MainStep, WorkerStep
<1> QED
  BY <1>1, <1>2, HelperTypeCorrect, PTL DEF Spec

-----------------------------------------------------------------------------
(* Errors that libalpm logs.                                               *)
(*                                                                         *)
(* Two calls on one handle can lose an error: the second rebinds the       *)
(* handle's log callback to its own list.  That is the only way.           *)

Over == {"release", "untx", "drop", "done"}

\* A wired handle logs to its own call, a logged error stays in the call's list
\* until the result is fixed, and before that there is no result; unless
\* another call has wired the handle since.
LogInv ==
  \A c \in Calls :
    /\ pc[c] \in Wired => logTo[held[c]] = c \/ c \in crossed
    /\ pc[c] \notin Over => result[c] # "ok"
    /\ c \in logged => pc[c] \in {"commit"} \cup Over
    /\ c \in logged /\ pc[c] = "commit" => errors[c] \/ c \in crossed
    /\ c \in logged /\ result[c] = "ok" => c \in crossed

LEMMA LogInvStep ==
  ASSUME TypeOK, LogInv, [Next]_vars
  PROVE  LogInv'
<1>0. /\ pc \in [Calls -> PC] /\ result \in [Calls -> Results] /\ errors \in [Calls -> BOOLEAN]
      /\ held \in [Calls -> Handles \cup {NoHandle}]
      /\ logTo \in [Handles -> Calls \cup {NoCall}]
      /\ logged \in SUBSET Calls /\ crossed \in SUBSET Calls
      /\ \A c \in Calls : pc[c] \in {"wire"} \cup Wired => held[c] \in Handles
  BY DEF TypeOK, WorkersOK, ObjectsOK, ObserversOK, InTransaction, Wired
<1> USE <1>0 DEF LogInv, Wired, Over, objectVars, workerVars, observerVars, Finish, Proceed, Goto
<1>1. ASSUME NEW c \in Calls, Receive(c) \/ EnterLoop(c) \/ LeaveLoop(c) \/ ReturnReply(c)
      PROVE  LogInv'
  BY <1>1 DEF Receive, EnterLoop, LeaveLoop, ReturnReply
<1>2. ASSUME NEW c \in Calls, RejectMalformed(c) \/ Authorize(c) PROVE LogInv'
  BY <1>2 DEF RejectMalformed, Authorize
<1>3. ASSUME NEW c \in Calls, CheckStale(c) \/ FailDatabase(c) PROVE LogInv'
  BY <1>3 DEF CheckStale, FailDatabase
<1>4. ASSUME NEW c \in Calls,
             \/ ReadGeneration(c) \/ TestHandle(c) \/ MatchGeneration(c)
             \/ PublishGeneration(c)
      PROVE  LogInv'
  <2>1. CASE ReadGeneration(c) \/ TestHandle(c)
    BY <2>1 DEF ReadGeneration, TestHandle
  <2>2. CASE MatchGeneration(c) \/ PublishGeneration(c)
    BY <2>2 DEF MatchGeneration, Return, PublishGeneration
  <2> QED
    BY <1>4, <2>1, <2>2
<1>5. ASSUME NEW c \in Calls, OpenHandle(c) PROVE LogInv'
  <2>1. PICK h \in Unused(c) : logTo' = [logTo EXCEPT ![h] = NoCall]
    BY <1>5 DEF OpenHandle
  <2>2. \A d \in Calls \ {c} : pc[d] \in Wired => logTo'[held[d]] = logTo[held[d]]
    BY <2>1 DEF Unused
  <2> QED
    BY <1>5, <2>2 DEF OpenHandle
<1>6. ASSUME NEW c \in Calls, CheckInstalled(c) \/ ResolvePackages(c) PROVE LogInv'
  BY <1>6 DEF CheckInstalled, ResolvePackages
<1>7. ASSUME NEW c \in Calls, WireCallbacks(c) PROVE LogInv'
  <2>1. /\ pc[c] = "wire" /\ logTo' = [logTo EXCEPT ![held[c]] = c]
        /\ crossed' = crossed \cup {d \in Calls \ {c} : pc[d] \in Wired /\ held[d] = held[c]}
        /\ pc' = [pc EXCEPT ![c] = "init"]
        /\ UNCHANGED <<held, errors, result, logged>>
    BY <1>7 DEF WireCallbacks
  <2>2. logTo'[held[c]] = c
    BY <2>1
  <2>3. \A d \in Calls \ {c} : pc[d] \in Wired =>
          logTo'[held[d]] = logTo[held[d]] \/ d \in crossed'
    BY <2>1
  <2>4. \A d \in Calls : d \in crossed => d \in crossed'
    BY <2>1
  <2> QED
    BY <2>1, <2>2, <2>3, <2>4
<1>8. ASSUME NEW c \in Calls, InitTransaction(c) PROVE LogInv'
  BY <1>8 DEF InitTransaction
<1>9. ASSUME NEW c \in Calls, SetTransaction(c) \/ ClearInterrupt(c) \/ Prepare(c)
      PROVE  LogInv'
  BY <1>9 DEF SetTransaction, ClearInterrupt, Prepare
<1>10. ASSUME NEW c \in Calls, CommitPackage(c) PROVE LogInv'
  <2>1. PICK logsError \in BOOLEAN :
          /\ errors' = [d \in Calls |-> errors[d] \/ (logsError /\ d = logTo[held[c]])]
          /\ logged' = IF logsError THEN logged \cup {c} ELSE logged
    BY <1>10 DEF CommitPackage
  <2>2. pc[c] = "commit" /\ UNCHANGED <<pc, held, result, logTo, crossed>>
    BY <1>10 DEF CommitPackage
  <2>3. logTo[held[c]] = c \/ c \in crossed
    BY <2>2
  <2>4. \A d \in Calls : errors[d] => errors'[d]
    BY <2>1
  <2>5. \A d \in Calls : d \in logged' => d \in logged \/ (d = c /\ (errors'[c] \/ c \in crossed))
    BY <2>1, <2>3
  <2> QED
    BY <2>2, <2>4, <2>5
<1>11. ASSUME NEW c \in Calls, CommitReturns(c) \/ TransactionRaises(c) PROVE LogInv'
  BY <1>11 DEF CommitReturns, TransactionRaises
<1>12. ASSUME NEW c \in Calls,
              ReleaseTransaction(c) \/ UnsetTransaction(c) \/ DropHandle(c)
       PROVE  LogInv'
  BY <1>12 DEF ReleaseTransaction, UnsetTransaction, DropHandle
<1>13. CASE CancelSetFlag \/ CancelInterrupt \/ PacmanBegin \/ PacmanEnd \/ UNCHANGED vars
  <2>1. UNCHANGED <<pc, held, logTo, errors, result, logged, crossed>>
    BY <1>13 DEF CancelSetFlag, CancelInterrupt, PacmanBegin, PacmanEnd, vars
  <2> QED
    BY <2>1
<1> QED
  BY <1>1, <1>2, <1>3, <1>4, <1>5, <1>6, <1>7, <1>8, <1>9, <1>10, <1>11, <1>12, <1>13
     DEF Next, MainStep, WorkerStep

\* A removal passes over an error that libalpm logged only if another call bound the
\* callbacks of the same handle to itself meanwhile, however many calls there are.
THEOREM OnlySharingHidesLoggedErrors == Spec => []OnlySharingHidesErrors
<1>1. Init => LogInv
  BY DEF Init, LogInv, Wired
<1>2. TypeOK /\ LogInv /\ [Next]_vars => LogInv'
  BY LogInvStep
<1>3. LogInv /\ TypeOK => OnlySharingHidesErrors
  BY DEF LogInv, OnlySharingHidesErrors, TypeOK, ObserversOK
<1> QED
  BY <1>1, <1>2, <1>3, HelperTypeCorrect, PTL DEF Spec

-----------------------------------------------------------------------------
(* Replies and lost wake-ups. *)

\* A call is answered after its worker has ended, and is not waited for once more.
ReplyIsLast == \A c \in answered : pc[c] = "done" /\ main # c /\ ~ Waits(c)

\* The first half of AnsweredIfHeard.
HangsAtEntry == [][OnlyEntryHangs]_vars

\* A call that hangs does so for ever, and every call in whose event loop it is nested
\* waits for ever with it.
HungStays ==
  \A j \in 1..Len(loops) :
    Hung(loops[j]) =>
      /\ Len(loops') >= j
      /\ \A i \in 1..j : loops'[i] = loops[i]
      /\ pc'[loops[j]] = "done" /\ ~ quit'[loops[j]]
HangsForEver == [][HungStays]_vars

\* A call is started, then enters one event loop, then is answered; quit() is called
\* at its end.
ReplyInv ==
  /\ main \in Calls => pc[main] # "idle" /\ ~ Waits(main)
  /\ main = "wait" => loops # <<>> /\ quit[loops[Len(loops)]]
  /\ \A c \in Calls : Waits(c) => pc[c] # "idle"
  /\ \A c \in Calls : quit[c] => pc[c] = "done"
  /\ \A i, j \in 1..Len(loops) : loops[i] = loops[j] => i = j
  /\ ReplyIsLast

LEMMA WorkersDoNotReply ==
  ASSUME TypeOK, NEW c \in Calls, WorkerStep(c)
  PROVE  /\ UNCHANGED <<main, loops, answered>>
         /\ pc[c] \notin {"idle", "done"} /\ pc'[c] # "idle"
         /\ \A d \in Calls \ {c} : pc'[d] = pc[d] /\ quit'[d] = quit[d]
         /\ IF pc'[c] = "done" THEN quit'[c] ELSE quit'[c] = quit[c]
<1>0. pc \in [Calls -> PC] /\ quit \in [Calls -> BOOLEAN]
  BY DEF TypeOK, WorkersOK, MainOK
<1> USE <1>0 DEF Finish, Proceed, Goto, mainVars, workerVars
<1>1. CASE RejectMalformed(c) \/ Authorize(c) \/ CheckStale(c) \/ FailDatabase(c)
  BY <1>1 DEF RejectMalformed, Authorize, CheckStale, FailDatabase
<1>2. CASE \/ ReadGeneration(c) \/ TestHandle(c) \/ MatchGeneration(c)
           \/ OpenHandle(c) \/ PublishGeneration(c)
  BY <1>2 DEF ReadGeneration, TestHandle, MatchGeneration, Return, OpenHandle, PublishGeneration
<1>3. CASE CheckInstalled(c) \/ ResolvePackages(c) \/ WireCallbacks(c)
  BY <1>3 DEF CheckInstalled, ResolvePackages, WireCallbacks
<1>4. CASE InitTransaction(c) \/ SetTransaction(c) \/ ClearInterrupt(c) \/ Prepare(c)
  BY <1>4 DEF InitTransaction, SetTransaction, ClearInterrupt, Prepare
<1>5. CASE CommitPackage(c) \/ CommitReturns(c) \/ TransactionRaises(c)
  BY <1>5 DEF CommitPackage, CommitReturns, TransactionRaises
<1>6. CASE ReleaseTransaction(c) \/ UnsetTransaction(c) \/ DropHandle(c)
  BY <1>6 DEF ReleaseTransaction, UnsetTransaction, DropHandle
<1> QED
  BY <1>1, <1>2, <1>3, <1>4, <1>5, <1>6 DEF WorkerStep

\* What a main thread that enters a loop, and one that leaves it, do to the stack.
LEMMA LoopsPushed ==
  ASSUME loops \in Seq(Calls), NEW c \in Calls, loops' = Append(loops, c)
  PROVE  /\ Len(loops') = Len(loops) + 1 /\ Len(loops) \in Nat
         /\ loops'[Len(loops) + 1] = c
         /\ \A i \in 1..Len(loops) : loops'[i] = loops[i]
OBVIOUS

LEMMA LoopsPopped ==
  ASSUME loops \in Seq(Calls), loops # <<>>, loops' = SubSeq(loops, 1, Len(loops) - 1)
  PROVE  /\ Len(loops') = Len(loops) - 1 /\ Len(loops) \in Nat \ {0}
         /\ \A i \in 1..Len(loops') : loops'[i] = loops[i]
<1>1. ASSUME NEW stack \in Seq(Calls), NEW n \in Nat, n <= Len(stack)
      PROVE  /\ Len(SubSeq(stack, 1, n)) = n
             /\ \A i \in 1..n : SubSeq(stack, 1, n)[i] = stack[i]
  BY <1>1
<1>2. Len(loops) \in Nat \ {0} /\ Len(loops) - 1 \in Nat /\ Len(loops) - 1 <= Len(loops)
  OBVIOUS
<1> QED
  BY <1>1, <1>2

\* What any step does to the stack of loops and to the ends of the calls.
LEMMA RepliesStep ==
  ASSUME TypeOK, ReplyInv, [Next]_vars
  PROVE  ReplyInv' /\ OnlyEntryHangs /\ HungStays
<1>0. /\ pc \in [Calls -> PC] /\ quit \in [Calls -> BOOLEAN]
      /\ loops \in Seq(Calls) /\ Len(loops) \in Nat
      /\ \A i \in 1..Len(loops) : loops[i] \in Calls
      /\ main \in Calls \cup {"loop", "cancel", "wait"} /\ answered \in SUBSET Calls
  BY DEF TypeOK, WorkersOK, MainOK
<1>1. ASSUME NEW c \in Calls, Receive(c) PROVE ReplyInv' /\ OnlyEntryHangs /\ HungStays
  <2>1. /\ pc[c] = "idle" /\ pc' = [pc EXCEPT ![c] = "start"] /\ main' = c
        /\ UNCHANGED <<loops, quit, answered>>
    BY <1>1 DEF Receive
  <2> QED
    BY <1>0, <2>1, NoneDistinct
    DEF ReplyInv, ReplyIsLast, OnlyEntryHangs, HungStays, Hung, Waits
<1>2. ASSUME NEW c \in Calls, EnterLoop(c) PROVE ReplyInv' /\ OnlyEntryHangs /\ HungStays
  <2>1. /\ main = c /\ main' = "loop" /\ loops' = Append(loops, c)
        /\ quit' = [quit EXCEPT ![c] = FALSE] /\ UNCHANGED <<pc, answered>>
    BY <1>2 DEF EnterLoop, workerVars
  <2>2. /\ Len(loops') = Len(loops) + 1
        /\ loops'[Len(loops) + 1] = c
        /\ \A i \in 1..Len(loops) : loops'[i] = loops[i]
    BY <1>0, <2>1, LoopsPushed
  <2>3. \A d \in Calls : Waits(d)' <=> Waits(d) \/ d = c
    BY <1>0, <2>2 DEF Waits
  <2>4. ~ Waits(c) /\ pc[c] # "idle" /\ c \notin answered
    BY <2>1 DEF ReplyInv, ReplyIsLast
  <2>5. ReplyInv'
    <3>1. \A i, j \in 1..Len(loops') : loops'[i] = loops'[j] => i = j
      BY <1>0, <2>2, <2>4 DEF ReplyInv, Waits
    <3>2. ReplyIsLast'
      BY <1>0, <2>1, <2>3, <2>4, NoneDistinct DEF ReplyInv, ReplyIsLast
    <3> QED
      BY <1>0, <2>1, <2>3, <2>4, <3>1, <3>2, NoneDistinct DEF ReplyInv
  <2>6. \A d \in Calls : ~ Hung(d) /\ Hung(d)' => main = d /\ pc[d] = "done"
    BY <1>0, <2>1, <2>3 DEF Hung
  <2>7. ASSUME NEW j \in 1..Len(loops), Hung(loops[j])
        PROVE  /\ Len(loops') >= j
               /\ \A i \in 1..j : loops'[i] = loops[i]
               /\ pc'[loops[j]] = "done" /\ ~ quit'[loops[j]]
    <3>1. loops[j] # c
      BY <2>4 DEF Waits
    <3> QED
      BY <1>0, <2>1, <2>2, <2>7, <3>1 DEF Hung
  <2> QED
    BY <2>5, <2>6, <2>7 DEF OnlyEntryHangs, HungStays
<1>3. ASSUME NEW c \in Calls, ReturnReply(c) PROVE ReplyInv' /\ OnlyEntryHangs /\ HungStays
  <2>1. /\ main = "wait" /\ main' = "loop"
        /\ loops # <<>> /\ c = loops[Len(loops)] /\ quit[c]
        /\ loops' = SubSeq(loops, 1, Len(loops) - 1)
        /\ answered' = answered \cup {c} /\ UNCHANGED <<pc, quit>>
    BY <1>3 DEF ReturnReply, workerVars, ReplyInv
  <2>2. /\ Len(loops') = Len(loops) - 1 /\ Len(loops) \in Nat \ {0}
        /\ \A i \in 1..Len(loops') : loops'[i] = loops[i]
    BY <1>0, <2>1, LoopsPopped
  <2>3. \A d \in Calls : Waits(d)' <=> Waits(d) /\ d # c
    BY <1>0, <2>1, <2>2 DEF Waits, ReplyInv
  <2>4. ReplyInv'
    <3>1. \A i, j \in 1..Len(loops') : loops'[i] = loops'[j] => i = j
      BY <1>0, <2>2 DEF ReplyInv
    <3>2. ReplyIsLast'
      BY <1>0, <2>1, <2>3, NoneDistinct DEF ReplyInv, ReplyIsLast
    <3> QED
      BY <1>0, <2>1, <2>3, <3>1, <3>2, NoneDistinct DEF ReplyInv
  <2>5. \A d \in Calls : ~ Hung(d) /\ Hung(d)' => main = d /\ pc[d] = "done"
    BY <2>1, <2>3 DEF Hung
  <2>6. ASSUME NEW j \in 1..Len(loops), Hung(loops[j])
        PROVE  /\ Len(loops') >= j
               /\ \A i \in 1..j : loops'[i] = loops[i]
               /\ pc'[loops[j]] = "done" /\ ~ quit'[loops[j]]
    <3>1. j # Len(loops)
      BY <2>1, <2>6 DEF Hung
    <3> QED
      BY <1>0, <2>1, <2>2, <2>6, <3>1 DEF Hung
  <2> QED
    BY <2>4, <2>5, <2>6 DEF OnlyEntryHangs, HungStays
<1>4. ASSUME NEW c \in Calls, WorkerStep(c) PROVE ReplyInv' /\ OnlyEntryHangs /\ HungStays
  <2>1. /\ UNCHANGED <<main, loops, answered>>
        /\ pc[c] \notin {"idle", "done"} /\ pc'[c] # "idle"
        /\ \A d \in Calls \ {c} : pc'[d] = pc[d] /\ quit'[d] = quit[d]
        /\ IF pc'[c] = "done" THEN quit'[c] ELSE quit'[c] = quit[c]
    BY <1>4, WorkersDoNotReply
  <2>2. \A d \in Calls : Waits(d)' <=> Waits(d)
    BY <2>1 DEF Waits
  <2>3. ReplyInv'
    <3>1. main = "wait" => loops # <<>> /\ quit'[loops[Len(loops)]]
      <4>1. loops # <<>> => loops[Len(loops)] \in Calls
        BY <1>0
      <4> QED
        BY <1>0, <2>1, <4>1 DEF ReplyInv
    <3> QED
      BY <1>0, <2>1, <2>2, <3>1 DEF ReplyInv, ReplyIsLast
  <2>4. \A d \in Calls : ~ Hung(d) /\ Hung(d)' => main = d /\ pc[d] = "done"
    BY <2>1, <2>2 DEF Hung
  <2>5. \A d \in Calls : Hung(d) => pc'[d] = "done" /\ ~ quit'[d]
    BY <2>1 DEF Hung
  <2> QED
    BY <1>0, <2>1, <2>3, <2>4, <2>5 DEF OnlyEntryHangs, HungStays
<1>5. ASSUME NEW c \in Calls, LeaveLoop(c) PROVE ReplyInv' /\ OnlyEntryHangs /\ HungStays
  <2>1. /\ loops # <<>> /\ c = loops[Len(loops)] /\ quit[c] /\ main' = "wait"
        /\ UNCHANGED <<pc, loops, quit, answered>>
    BY <1>5 DEF LeaveLoop, workerVars
  <2> QED
    BY <1>0, <2>1, NoneDistinct
    DEF ReplyInv, ReplyIsLast, OnlyEntryHangs, HungStays, Hung, Waits
<1>6. CASE CancelSetFlag \/ CancelInterrupt \/ PacmanBegin \/ PacmanEnd \/ UNCHANGED vars
  <2>1. UNCHANGED <<pc, loops, quit, answered>> /\ (main' = main \/ main' \in {"loop", "cancel"})
    BY <1>6 DEF CancelSetFlag, CancelInterrupt, PacmanBegin, PacmanEnd, vars, workerVars, mainVars
  <2> QED
    BY <1>0, <2>1, NoneDistinct
    DEF ReplyInv, ReplyIsLast, OnlyEntryHangs, HungStays, Hung, Waits
<1> QED
  BY <1>1, <1>2, <1>3, <1>4, <1>5, <1>6 DEF Next, MainStep

LEMMA ReplyInvariant == Spec => [](TypeOK /\ ReplyInv)
<1>1. Init => ReplyInv
  <2>1. ASSUME Init PROVE Len(loops) = 0 /\ \A c : ~ Waits(c)
    <3>1. loops = <<>>
      BY <2>1 DEF Init
    <3>2. Len(loops) = 0
      BY <3>1
    <3> QED
      BY <3>2 DEF Waits
  <2>2. ASSUME Init
        PROVE  main \notin Calls \cup {"wait"} /\ answered = {} /\ \A c \in Calls : ~ quit[c]
    BY <2>2, NoneDistinct DEF Init
  <2>3. ASSUME Init PROVE \A i, j \in 1..Len(loops) : loops[i] = loops[j] => i = j
    BY <2>1, <2>3
  <2> QED
    BY <2>1, <2>2, <2>3 DEF ReplyInv, ReplyIsLast
<1>2. TypeOK /\ ReplyInv /\ [Next]_vars => ReplyInv'
  BY RepliesStep
<1> QED
  BY <1>1, <1>2, HelperTypeCorrect, PTL DEF Spec

\* The reply of a call is the last thing that happens to it.
THEOREM RepliesComeLast == Spec => []ReplyIsLast
<1>1. ReplyInv => ReplyIsLast
  BY DEF ReplyInv
<1> QED
  BY <1>1, ReplyInvariant, PTL

\* A caller is left waiting only by the wake-up that came before the event loop: this is
\* the first half of AnsweredIfHeard.
THEOREM OnlyEarlyWakeUpsAreLost == Spec => HangsAtEntry
<1>1. TypeOK /\ ReplyInv /\ [Next]_vars => OnlyEntryHangs
  BY RepliesStep
<1> QED
  BY <1>1, ReplyInvariant, PTL DEF Spec, HangsAtEntry

\* A lost wake-up is never made good, and blocks the replies of all the calls outside.
THEOREM LostWakeUpsAreForEver == Spec => HangsForEver
<1>1. TypeOK /\ ReplyInv /\ [Next]_vars => HungStays
  BY RepliesStep
<1> QED
  BY <1>1, ReplyInvariant, PTL DEF Spec, HangsForEver
=============================================================================
