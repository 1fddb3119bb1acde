-------------------------- MODULE RemovalRefinement --------------------------
(***************************************************************************)
(* RemovalHelper implements RemovalContract: initial states map to initial *)
(* states, every step to a step of the contract or a stuttering step.      *)
(***************************************************************************)
EXTENDS RemovalHelperProofs

\* The invariant the mapping needs.  A call that got past polkit was granted; ...
GrantInv ==
  \A c \in Calls :
    /\ pc[c] \in {"idle", "start"} => c \notin granted
    /\ pc[c] \notin {"idle", "start", "done"} => c \in granted

\* ... its result is not known before its transaction ends; ...
ResultInv ==
  \A c \in Calls : pc[c] \notin {"release", "untx", "drop", "done"} => result[c] = "none"

\* ... and while it owns the database, the named packages it no longer has to
\* remove are gone, all of them when it is going to answer "ok".
WorkInv ==
  \A c \in Calls : pc[c] \in InTransaction =>
    /\ todo[c] \subseteq request[c].names
    /\ (request[c].names \ todo[c]) \cap installed = {}
    /\ pc[c] = "release" /\ result[c] = "ok" => todo[c] = {}

MapInv == GrantInv /\ ResultInv /\ WorkInv

LEMMA MapInvStep ==
  ASSUME TypeOK, LockHeldExactlyInTransaction, MapInv, [Next]_vars
  PROVE  MapInv'
<1>0. /\ pc \in [Calls -> PC] /\ result \in [Calls -> Results] /\ todo \in [Calls -> SUBSET Pkgs]
      /\ granted \in SUBSET Calls /\ request \in [Calls -> Request \cup {NoRequest}]
  BY DEF TypeOK, WorkersOK, ObserversOK
<1>1. GrantInv'
  <2> USE <1>0 DEF GrantInv, workerVars, observerVars, Finish, Proceed, Goto
  <2>0. GrantInv
    BY DEF MapInv
  <2>1. ASSUME NEW c \in Calls, Receive(c) \/ EnterLoop(c) \/ LeaveLoop(c) \/ ReturnReply(c)
        PROVE  GrantInv'
    BY <2>0, <2>1 DEF Receive, EnterLoop, LeaveLoop, ReturnReply
  <2>2. ASSUME NEW c \in Calls, RejectMalformed(c) PROVE GrantInv'
    BY <2>0, <2>2 DEF RejectMalformed
  <2>3. ASSUME NEW c \in Calls, Authorize(c) PROVE GrantInv'
    BY <2>0, <2>3 DEF Authorize
  <2>4. ASSUME NEW c \in Calls, CheckStale(c) \/ FailDatabase(c) PROVE GrantInv'
    BY <2>0, <2>4 DEF CheckStale, FailDatabase
  <2>5. ASSUME NEW c \in Calls,
               \/ ReadGeneration(c) \/ TestHandle(c) \/ MatchGeneration(c)
               \/ OpenHandle(c) \/ PublishGeneration(c)
        PROVE  GrantInv'
    BY <2>0, <2>5 DEF ReadGeneration, TestHandle, MatchGeneration, Return, OpenHandle,
                     PublishGeneration
  <2>6. ASSUME NEW c \in Calls, CheckInstalled(c) \/ ResolvePackages(c) \/ WireCallbacks(c)
        PROVE  GrantInv'
    BY <2>0, <2>6 DEF CheckInstalled, ResolvePackages, WireCallbacks
  <2>7. ASSUME NEW c \in Calls, InitTransaction(c) \/ SetTransaction(c) \/ ClearInterrupt(c)
        PROVE  GrantInv'
    BY <2>0, <2>7 DEF InitTransaction, SetTransaction, ClearInterrupt
  <2>8. ASSUME NEW c \in Calls, Prepare(c) \/ CommitPackage(c) \/ CommitReturns(c)
        PROVE  GrantInv'
    BY <2>0, <2>8 DEF Prepare, CommitPackage, CommitReturns
  <2>9. ASSUME NEW c \in Calls, TransactionRaises(c) \/ ReleaseTransaction(c)
        PROVE  GrantInv'
    BY <2>0, <2>9 DEF TransactionRaises, ReleaseTransaction
  <2>10. ASSUME NEW c \in Calls, UnsetTransaction(c) \/ DropHandle(c)
         PROVE  GrantInv'
    BY <2>0, <2>10 DEF UnsetTransaction, DropHandle
  <2>11. CASE CancelSetFlag \/ CancelInterrupt \/ PacmanBegin \/ PacmanEnd \/ UNCHANGED vars
    <3>1. UNCHANGED <<pc, granted>>
      BY <2>11 DEF CancelSetFlag, CancelInterrupt, PacmanBegin, PacmanEnd, vars
    <3> QED
      BY <2>0, <3>1
  <2> QED
    BY <2>1, <2>2, <2>3, <2>4, <2>5, <2>6, <2>7, <2>8, <2>9, <2>10, <2>11 DEF Next, MainStep, WorkerStep
<1>2. ResultInv'
  <2> USE <1>0 DEF ResultInv, workerVars, Finish, Proceed, Goto
  <2>0. ResultInv
    BY DEF MapInv
  <2>1. ASSUME NEW c \in Calls, Receive(c) \/ EnterLoop(c) \/ LeaveLoop(c) \/ ReturnReply(c)
        PROVE  ResultInv'
    BY <2>0, <2>1 DEF Receive, EnterLoop, LeaveLoop, ReturnReply
  <2>2. ASSUME NEW c \in Calls, RejectMalformed(c) \/ Authorize(c) PROVE ResultInv'
    BY <2>0, <2>2 DEF RejectMalformed, Authorize
  <2>3. ASSUME NEW c \in Calls, CheckStale(c) \/ FailDatabase(c) PROVE ResultInv'
    BY <2>0, <2>3 DEF CheckStale, FailDatabase
  <2>4. ASSUME NEW c \in Calls,
               \/ ReadGeneration(c) \/ TestHandle(c) \/ MatchGeneration(c)
               \/ OpenHandle(c) \/ PublishGeneration(c)
        PROVE  ResultInv'
    BY <2>0, <2>4 DEF ReadGeneration, TestHandle, MatchGeneration, Return, OpenHandle,
                     PublishGeneration
  <2>5. ASSUME NEW c \in Calls, CheckInstalled(c) \/ ResolvePackages(c) \/ WireCallbacks(c)
        PROVE  ResultInv'
    BY <2>0, <2>5 DEF CheckInstalled, ResolvePackages, WireCallbacks
  <2>6. ASSUME NEW c \in Calls, InitTransaction(c) \/ SetTransaction(c) \/ ClearInterrupt(c)
        PROVE  ResultInv'
    BY <2>0, <2>6 DEF InitTransaction, SetTransaction, ClearInterrupt
  <2>7. ASSUME NEW c \in Calls, Prepare(c) \/ CommitPackage(c) PROVE ResultInv'
    BY <2>0, <2>7 DEF Prepare, CommitPackage
  <2>8. ASSUME NEW c \in Calls, CommitReturns(c) \/ TransactionRaises(c) PROVE ResultInv'
    BY <2>0, <2>8 DEF CommitReturns, TransactionRaises
  <2>9. ASSUME NEW c \in Calls, ReleaseTransaction(c) \/ UnsetTransaction(c) \/ DropHandle(c)
        PROVE  ResultInv'
    BY <2>0, <2>9 DEF ReleaseTransaction, UnsetTransaction, DropHandle
  <2>10. CASE CancelSetFlag \/ CancelInterrupt \/ PacmanBegin \/ PacmanEnd \/ UNCHANGED vars
    <3>1. UNCHANGED <<pc, result>>
      BY <2>10 DEF CancelSetFlag, CancelInterrupt, PacmanBegin, PacmanEnd, vars
    <3> QED
      BY <2>0, <3>1
  <2> QED
    BY <2>1, <2>2, <2>3, <2>4, <2>5, <2>6, <2>7, <2>8, <2>9, <2>10 DEF Next, MainStep, WorkerStep
<1>3. WorkInv'
  <2> USE <1>0 DEF WorkInv, systemVars, workerVars, Finish, Proceed, Goto, InTransaction
  <2>0. WorkInv /\ ResultInv
    BY DEF MapInv
  <2>1. ASSUME NEW c \in Calls, Receive(c) \/ EnterLoop(c) \/ LeaveLoop(c) \/ ReturnReply(c)
        PROVE  WorkInv'
    BY <2>0, <2>1 DEF Receive, EnterLoop, LeaveLoop, ReturnReply
  <2>2. ASSUME NEW c \in Calls, RejectMalformed(c) \/ Authorize(c) PROVE WorkInv'
    BY <2>0, <2>2 DEF RejectMalformed, Authorize
  <2>3. ASSUME NEW c \in Calls, CheckStale(c) \/ FailDatabase(c) PROVE WorkInv'
    BY <2>0, <2>3 DEF CheckStale, FailDatabase
  <2>4. ASSUME NEW c \in Calls,
               \/ ReadGeneration(c) \/ TestHandle(c) \/ MatchGeneration(c)
               \/ OpenHandle(c) \/ PublishGeneration(c)
        PROVE  WorkInv'
    BY <2>0, <2>4 DEF ReadGeneration, TestHandle, MatchGeneration, Return, OpenHandle,
                     PublishGeneration
  <2>5. ASSUME NEW c \in Calls, CheckInstalled(c) \/ ResolvePackages(c) \/ WireCallbacks(c)
        PROVE  WorkInv'
    BY <2>0, <2>5 DEF CheckInstalled, ResolvePackages, WireCallbacks
  <2>6. ASSUME NEW c \in Calls, InitTransaction(c) PROVE WorkInv'
    <3>1. CASE Goto(c, "settx")
      BY <2>0, <2>6, <3>1 DEF InitTransaction
    <3>2. CASE \E code \in Results : Finish(c, code)
      BY <2>0, <2>6, <3>2 DEF InitTransaction
    <3> QED
      BY <2>6, <3>1, <3>2 DEF InitTransaction, Results, Refusals
  <2>7. ASSUME NEW c \in Calls, SetTransaction(c) \/ ClearInterrupt(c) \/ Prepare(c)
        PROVE  WorkInv'
    BY <2>0, <2>7 DEF SetTransaction, ClearInterrupt, Prepare
  <2>8. ASSUME NEW c \in Calls, CommitPackage(c) PROVE WorkInv'
    <3>1. PICK p \in todo[c] :
            installed' = installed \ {p} /\ todo' = [todo EXCEPT ![c] = @ \ {p}]
      BY <2>8 DEF CommitPackage
    <3>2. UNCHANGED <<pc, request, result>>
      BY <2>8 DEF CommitPackage
    <3>3. ASSUME NEW d \in Calls, pc[d] \in InTransaction
          PROVE  /\ todo'[d] \subseteq request[d].names
                 /\ (request[d].names \ todo'[d]) \cap installed' = {}
                 /\ todo[d] = {} => todo'[d] = {}
      BY <2>0, <3>1, <3>3
    <3> QED
      BY <2>0, <3>2, <3>3
  <2>9. ASSUME NEW c \in Calls, CommitReturns(c) PROVE WorkInv'
    BY <2>0, <2>9 DEF CommitReturns
  <2>10. ASSUME NEW c \in Calls, TransactionRaises(c) PROVE WorkInv'
    BY <2>0, <2>10 DEF TransactionRaises
  <2>11. ASSUME NEW c \in Calls, ReleaseTransaction(c) \/ UnsetTransaction(c) \/ DropHandle(c)
        PROVE  WorkInv'
    BY <2>0, <2>11 DEF ReleaseTransaction, UnsetTransaction, DropHandle
  <2>12. CASE CancelSetFlag \/ CancelInterrupt \/ PacmanBegin \/ UNCHANGED vars
    <3>1. UNCHANGED <<pc, request, todo, result, installed>>
      BY <2>12 DEF CancelSetFlag, CancelInterrupt, PacmanBegin, vars
    <3> QED
      BY <2>0, <3>1
  <2>13. CASE PacmanEnd
    <3>1. UNCHANGED pc /\ lock = Pacman
      BY <2>13 DEF PacmanEnd
    <3>2. \A c \in Calls : pc[c] \notin InTransaction
      BY <3>1, NoneDistinct DEF LockHeldExactlyInTransaction
    <3> QED
      BY <3>1, <3>2
  <2> QED
    BY <2>1, <2>2, <2>3, <2>4, <2>5, <2>6, <2>7, <2>8, <2>9, <2>10, <2>11, <2>12, <2>13
       DEF Next, MainStep, WorkerStep
<1> QED
  BY <1>1, <1>2, <1>3 DEF MapInv

-----------------------------------------------------------------------------
(* The mapping of a step. *)

\* A step the contract does not see.
Invisible == UNCHANGED <<installed, lock, askedBar, statusBar>>

LEMMA OthersKeepTheirStatus ==
  ASSUME NEW d \in Calls, pc'[d] = pc[d], result'[d] = result[d],
         d \in granted' <=> d \in granted
  PROVE  StatusOf(d)' = StatusOf(d)
BY DEF StatusOf

\* A call that ends without ever having had the lock fails; the contract's Fail.
LEMMA FinishIsFail ==
  ASSUME TypeOK, LockHeldExactlyInTransaction, MapInv,
         NEW c \in Calls, NEW code \in Refusals, Finish(c, code),
         pc[c] \in {"start", "gate", "ensure", "test", "match", "open", "publish", "take", "init"},
         UNCHANGED <<installed, lock, granted>>
  PROVE  Contract!Fail(c)
<1>0. /\ pc \in [Calls -> PC] /\ result \in [Calls -> Results]
      /\ lock # c
  BY DEF TypeOK, WorkersOK, LockHeldExactlyInTransaction, InTransaction
<1>1. StatusOf(c) \in {"submitted", "authorized"} /\ StatusOf(c)' = "failed"
  BY <1>0 DEF StatusOf, Finish, InTransaction, Refusals
<1>2. \A d \in Calls \ {c} : StatusOf(d)' = StatusOf(d)
  BY <1>0, OthersKeepTheirStatus DEF Finish
<1>3. statusBar' = [statusBar EXCEPT ![c] = "failed"]
  BY <1>1, <1>2 DEF statusBar
<1>4. UNCHANGED askedBar
  BY DEF Finish, askedBar
<1> QED
  BY <1>0, <1>1, <1>3, <1>4 DEF Contract!Fail, statusBar

\* A step within one stage of a call is invisible.
LEMMA ProceedIsInvisible ==
  ASSUME TypeOK, NEW c \in Calls, NEW label,
         pc' = [pc EXCEPT ![c] = label],
         UNCHANGED <<installed, lock, granted, request, result>>,
         \/ /\ pc[c] \in {"gate", "ensure", "test", "match", "open", "publish", "take", "wire"}
            /\ label \in {"ensure", "test", "match", "open", "publish", "take", "wire", "init"}
         \/ /\ pc[c] \in {"settx", "clear", "prepare"}
            /\ label \in {"clear", "prepare", "commit"}
         \/ pc[c] = "untx" /\ label = "drop"
         \/ pc[c] = "drop" /\ label = "done"
  PROVE  Invisible
<1>0. pc \in [Calls -> PC]
  BY DEF TypeOK, WorkersOK
<1>1. StatusOf(c)' = StatusOf(c)
  BY <1>0 DEF StatusOf, InTransaction
<1>2. \A d \in Calls \ {c} : StatusOf(d)' = StatusOf(d)
  BY <1>0, OthersKeepTheirStatus
<1> QED
  BY <1>1, <1>2 DEF Invisible, statusBar, askedBar

LEMMA StepIsContractStep ==
  ASSUME TypeOK, LockHeldExactlyInTransaction, MapInv, [Next]_vars
  PROVE  Contract!ContractNext \/ Invisible
<1>0. /\ pc \in [Calls -> PC] /\ result \in [Calls -> Results]
      /\ request \in [Calls -> Request \cup {NoRequest}]
      /\ granted \in SUBSET Calls
  BY DEF TypeOK, WorkersOK, ObserversOK
<1> USE DEF systemVars, workerVars, observerVars
<1>1. ASSUME NEW c \in Calls, Receive(c) PROVE Contract!Submit(c)
  <2>0. PICK names \in (SUBSET Pkgs) \ {{}}, gen \in 0..dbGen, form \in Forms :
          request' = [request EXCEPT ![c] = [names |-> names, gen |-> gen, form |-> form]]
    BY <1>1 DEF Receive
  <2>1. askedBar' = [askedBar EXCEPT ![c] = names]
    <3>1. \A d \in Calls : request'[d].names = IF d = c THEN names ELSE request[d].names
      BY <1>0, <2>0
    <3> QED
      BY <3>1 DEF askedBar
  <2>2. StatusOf(c) = "idle" /\ StatusOf(c)' = "submitted"
    BY <1>0, <1>1 DEF Receive, StatusOf, MapInv, GrantInv
  <2>3. \A d \in Calls \ {c} : StatusOf(d)' = StatusOf(d)
    BY <1>0, <1>1, OthersKeepTheirStatus DEF Receive
  <2>4. statusBar[c] = "idle" /\ statusBar' = [statusBar EXCEPT ![c] = "submitted"]
    BY <2>2, <2>3 DEF statusBar
  <2> QED
    BY <1>1, <2>1, <2>4 DEF Receive, Contract!Submit
<1>2. ASSUME NEW c \in Calls, EnterLoop(c) \/ LeaveLoop(c) \/ ReturnReply(c)
      PROVE  Invisible
  BY <1>2, OthersKeepTheirStatus DEF EnterLoop, LeaveLoop, ReturnReply, Invisible, askedBar, statusBar
<1>3. ASSUME NEW c \in Calls, RejectMalformed(c) \/ FailDatabase(c) PROVE Contract!Fail(c)
  BY <1>3, FinishIsFail DEF RejectMalformed, FailDatabase, Refusals
<1>4. ASSUME NEW c \in Calls, Authorize(c)
      PROVE  Contract!Authorize(c) \/ Contract!Fail(c)
  <2>1. CASE Finish(c, "authorization-denied") /\ UNCHANGED granted
    BY <1>4, <2>1, FinishIsFail DEF Authorize, Refusals
  <2>2. CASE Proceed(c, "gate") /\ granted' = granted \cup {c}
    <3>1. StatusOf(c) = "submitted" /\ StatusOf(c)' = "authorized"
      BY <1>0, <1>4, <2>2 DEF Authorize, Proceed, Goto, StatusOf, MapInv, GrantInv, InTransaction
    <3>2. \A d \in Calls \ {c} : StatusOf(d)' = StatusOf(d)
      BY <1>0, <2>2, OthersKeepTheirStatus DEF Proceed, Goto
    <3>3. statusBar[c] = "submitted" /\ statusBar' = [statusBar EXCEPT ![c] = "authorized"]
      BY <3>1, <3>2 DEF statusBar
    <3> QED
      BY <1>4, <2>2, <3>3 DEF Authorize, Proceed, askedBar, Contract!Authorize
  <2> QED
    BY <1>4, <2>1, <2>2 DEF Authorize
<1>5. ASSUME NEW c \in Calls, CheckStale(c) \/ CheckInstalled(c) \/ ResolvePackages(c)
      PROVE  Contract!Fail(c) \/ Invisible
  <2>0. /\ pc[c] \in {"gate", "take"}
        /\ UNCHANGED <<systemVars, observerVars>>
    BY <1>5 DEF CheckStale, CheckInstalled, ResolvePackages
  <2>1. CASE \E code \in Refusals : Finish(c, code)
    BY <2>0, <2>1, FinishIsFail
  <2>2. CASE (Goto(c, "ensure") \/ Goto(c, "wire")) /\ UNCHANGED <<request, result>>
    BY <2>0, <2>2, ProceedIsInvisible DEF Goto
  <2> QED
    BY <1>5, <2>1, <2>2 DEF CheckStale, CheckInstalled, ResolvePackages, Refusals
<1>6. ASSUME NEW c \in Calls,
             \/ ReadGeneration(c) \/ TestHandle(c) \/ MatchGeneration(c)
             \/ OpenHandle(c) \/ PublishGeneration(c) \/ WireCallbacks(c)
      PROVE  Invisible
  <2>1. CASE ReadGeneration(c) \/ TestHandle(c) \/ MatchGeneration(c)
    BY <2>1, ProceedIsInvisible
       DEF ReadGeneration, TestHandle, MatchGeneration, Return, Proceed, Goto
  <2>2. CASE OpenHandle(c) \/ PublishGeneration(c) \/ WireCallbacks(c)
    BY <2>2, ProceedIsInvisible
       DEF OpenHandle, PublishGeneration, Return, WireCallbacks, Proceed, Goto
  <2> QED
    BY <1>6, <2>1, <2>2
<1>7. ASSUME NEW c \in Calls, InitTransaction(c)
      PROVE  Contract!Begin(c) \/ Contract!Fail(c)
  <2>1. CASE lock' = lock /\ \E code \in Refusals : Finish(c, code)
    BY <1>7, <2>1, FinishIsFail DEF InitTransaction
  <2>2. CASE lock = Free /\ lock' = c /\ Goto(c, "settx") /\ UNCHANGED <<request, result>>
    <3>1. StatusOf(c) = "authorized" /\ StatusOf(c)' = "removing"
      BY <1>0, <1>7, <2>2 DEF InitTransaction, Goto, StatusOf, MapInv, GrantInv, InTransaction
    <3>2. \A d \in Calls \ {c} : StatusOf(d)' = StatusOf(d)
      BY <1>0, <1>7, <2>2, OthersKeepTheirStatus DEF InitTransaction, Goto
    <3>3. statusBar[c] = "authorized" /\ statusBar' = [statusBar EXCEPT ![c] = "removing"]
      BY <3>1, <3>2 DEF statusBar
    <3> QED
      BY <1>7, <2>2, <3>3 DEF InitTransaction, askedBar, Contract!Begin
  <2> QED
    BY <1>7, <2>1, <2>2 DEF InitTransaction, Refusals
<1>8. ASSUME NEW c \in Calls, SetTransaction(c) \/ ClearInterrupt(c) \/ Prepare(c)
      PROVE  Invisible
  BY <1>8, ProceedIsInvisible DEF SetTransaction, ClearInterrupt, Prepare, Proceed, Goto
<1>9. ASSUME NEW c \in Calls, CommitPackage(c) PROVE Contract!RemoveOne(c)
  <2>1. PICK p \in todo[c] : installed' = installed \ {p}
    BY <1>9 DEF CommitPackage
  <2>2. pc[c] = "commit" /\ UNCHANGED <<lock, pc, request, result, granted>>
    BY <1>9 DEF CommitPackage
  <2>3. UNCHANGED <<askedBar, statusBar>>
    BY <2>2, OthersKeepTheirStatus DEF askedBar, statusBar
  <2>4. lock = c /\ c \in granted /\ p \in request[c].names
    BY <2>1, <2>2 DEF LockHeldExactlyInTransaction, InTransaction, MapInv, WorkInv, GrantInv
  <2>5. statusBar[c] = "removing" /\ p \in askedBar[c]
    BY <2>2, <2>4 DEF statusBar, askedBar, StatusOf, InTransaction
  <2> QED
    BY <2>1, <2>2, <2>3, <2>4, <2>5 DEF Contract!RemoveOne
<1>10. ASSUME NEW c \in Calls, CommitReturns(c) \/ TransactionRaises(c) PROVE Invisible
  <2>1. /\ pc[c] \in {"prepare", "commit"} /\ pc' = [pc EXCEPT ![c] = "release"]
        /\ \A d \in Calls \ {c} : result'[d] = result[d]
        /\ UNCHANGED <<installed, lock, granted, request>>
    BY <1>0, <1>10 DEF CommitReturns, TransactionRaises, Goto
  <2>2. StatusOf(c)' = StatusOf(c)
    BY <1>0, <2>1 DEF StatusOf, InTransaction
  <2>3. \A d \in Calls \ {c} : StatusOf(d)' = StatusOf(d)
    BY <1>0, <2>1, OthersKeepTheirStatus
  <2> QED
    BY <2>1, <2>2, <2>3 DEF Invisible, askedBar, statusBar
<1>11. ASSUME NEW c \in Calls, ReleaseTransaction(c)
       PROVE  Contract!Succeed(c) \/ Contract!Fail(c)
  <2>1. /\ pc[c] = "release" /\ pc' = [pc EXCEPT ![c] = "untx"]
        /\ lock' = Free
        /\ UNCHANGED <<installed, granted, request, result>>
    BY <1>11 DEF ReleaseTransaction, Proceed, Goto
  <2>2. lock = c /\ c \in granted
    BY <2>1 DEF LockHeldExactlyInTransaction, InTransaction, MapInv, GrantInv
  <2>3. \A d \in Calls \ {c} : StatusOf(d)' = StatusOf(d)
    BY <1>0, <2>1, OthersKeepTheirStatus
  <2>4. /\ StatusOf(c) = "removing"
        /\ StatusOf(c)' = IF result[c] = "ok" THEN "removed" ELSE "failed"
    BY <1>0, <2>1, <2>2 DEF StatusOf, InTransaction
  <2>5. /\ statusBar[c] = "removing"
        /\ statusBar' = [statusBar EXCEPT ![c] = IF result[c] = "ok" THEN "removed" ELSE "failed"]
    BY <2>3, <2>4 DEF statusBar
  <2>6. UNCHANGED askedBar
    BY <2>1 DEF askedBar
  <2>7. CASE result[c] = "ok"
    <3>1. askedBar[c] \cap installed = {}
      BY <2>1, <2>7 DEF askedBar, MapInv, WorkInv, InTransaction
    <3> QED
      BY <2>1, <2>2, <2>5, <2>6, <2>7, <3>1 DEF Contract!Succeed
  <2>8. CASE result[c] # "ok"
    BY <2>1, <2>2, <2>5, <2>6, <2>8 DEF Contract!Fail
  <2> QED
    BY <2>7, <2>8
<1>12. ASSUME NEW c \in Calls, UnsetTransaction(c) \/ DropHandle(c) PROVE Invisible
  <2>1. /\ UNCHANGED <<installed, lock, granted, request>>
        /\ \/ pc[c] = "untx" /\ pc' = [pc EXCEPT ![c] = "drop"]
           \/ pc[c] = "drop" /\ pc' = [pc EXCEPT ![c] = "done"]
        /\ result' = result
    BY <1>0, <1>12 DEF UnsetTransaction, DropHandle, Proceed, Goto, Finish
  <2> QED
    BY <2>1, ProceedIsInvisible
<1>13. CASE CancelSetFlag \/ CancelInterrupt \/ UNCHANGED vars
  <2>1. UNCHANGED <<installed, lock, pc, request, result, granted>>
    BY <1>13 DEF CancelSetFlag, CancelInterrupt, vars
  <2> QED
    BY <2>1, OthersKeepTheirStatus DEF Invisible, askedBar, statusBar
<1>14. CASE PacmanBegin \/ PacmanEnd
  <2>1. UNCHANGED <<pc, request, result, granted>>
    BY <1>14 DEF PacmanBegin, PacmanEnd
  <2>2. UNCHANGED <<askedBar, statusBar>>
    BY <2>1, OthersKeepTheirStatus DEF askedBar, statusBar
  <2>3. installed' \in SUBSET Pkgs
    BY <1>14 DEF PacmanBegin, PacmanEnd, TypeOK, SystemOK
  <2> QED
    BY <1>14, <2>2, <2>3 DEF PacmanBegin, PacmanEnd, Contract!OtherBegin, Contract!OtherEnd,
       Contract!ContractNext
<1> QED
  BY <1>1, <1>2, <1>3, <1>4, <1>5, <1>6, <1>7, <1>8, <1>9, <1>10, <1>11, <1>12, <1>13, <1>14
     DEF Next, MainStep, WorkerStep, Contract!ContractNext

\* ImplementsContract: authorization before any effect, exclusive use of the
\* database, nothing removed that was not named, "ok" only if all of it is gone.
THEOREM HelperImplementsContract == Spec => ImplementsContract
<1>1. Init => Contract!ContractInit
  BY DEF Init, Contract!ContractInit, askedBar, statusBar, StatusOf, NoRequest
<1>2. Init => MapInv
  BY DEF Init, MapInv, GrantInv, ResultInv, WorkInv, InTransaction
<1>3. TypeOK /\ LockHeldExactlyInTransaction /\ MapInv /\ [Next]_vars => MapInv'
  BY MapInvStep
<1>4. TypeOK /\ LockHeldExactlyInTransaction /\ MapInv /\ [Next]_vars
        => [Contract!ContractNext]_(Contract!contractVars)
  BY StepIsContractStep DEF Invisible, Contract!contractVars
<1> QED
  BY <1>1, <1>2, <1>3, <1>4, HelperTypeCorrect, LockIsExclusive, PTL
     DEF Spec, ImplementsContract, Contract!ContractSpec

-----------------------------------------------------------------------------
(* What the helper inherits. *)

Promises == INSTANCE ContractProofs WITH
  holder <- lock, asked <- askedBar, status <- statusBar

LEMMA HelperPromises ==
  Spec => /\ [](Promises!Exclusive)
          /\ Promises!EndsAreFinal
          /\ Promises!OnlyNamedPackagesGo
          /\ Promises!SuccessIsEarned
<1>1. Promises!OwnersDistinct
  BY NoneDistinct DEF Promises!OwnersDistinct
<1>2. Contract!ContractInit => Promises!ContractInit
  BY DEF Contract!ContractInit, Promises!ContractInit
<1>3. [Contract!ContractNext]_(Contract!contractVars)
        => [Promises!ContractNext]_(Promises!contractVars)
  BY DEF Contract!ContractNext, Contract!contractVars, Contract!Submit, Contract!Authorize,
     Contract!Begin, Contract!RemoveOne, Contract!Succeed, Contract!Fail, Contract!OtherBegin,
     Contract!OtherEnd,
     Promises!ContractNext, Promises!contractVars, Promises!Submit, Promises!Authorize,
     Promises!Begin, Promises!RemoveOne, Promises!Succeed, Promises!Fail, Promises!OtherBegin,
     Promises!OtherEnd
<1>4. Spec => Promises!ContractSpec
  BY <1>2, <1>3, HelperImplementsContract, PTL
     DEF ImplementsContract, Contract!ContractSpec, Promises!ContractSpec
<1> QED
  BY <1>1, <1>4, Promises!RemovingIsExclusive, Promises!CallsEndOnce, Promises!LossesAreNamed,
     Promises!SuccessMeansGone, PTL

\* A package disappears only during the transaction of a call that named it, that
\* polkit authorized and that owns db.lck, or while the other package manager owns it.
OnlyAuthorizedRemovals ==
  [][\/ lock = Pacman
     \/ /\ installed' \subseteq installed
        /\ \A p \in installed \ installed' :
             \E c \in granted : /\ pc[c] \in InTransaction /\ lock = c
                                /\ p \in request[c].names]_vars

Ending == {"untx", "drop", "done"}

\* A call that comes to its end with "ok" does so as the owner of db.lck, with every
\* package it named gone; and how a call ended is not revised after that.
OkIsTrueAndFinal ==
  [][\A c \in Calls :
       /\ pc[c] \notin Ending /\ pc'[c] \in Ending /\ result'[c] = "ok" =>
            lock = c /\ request'[c].names \cap installed' = {}
       /\ pc[c] \in Ending =>
            pc'[c] \in Ending /\ (result'[c] = "ok" <=> result[c] = "ok")]_vars

\* Authorization, ownership of the database and naming before every loss of a package.
THEOREM RemovalsAreAuthorized == Spec => OnlyAuthorizedRemovals
<1> DEFINE Authorized ==
      \/ lock = Pacman
      \/ /\ installed' \subseteq installed
         /\ \A p \in installed \ installed' :
              \E c \in granted : /\ pc[c] \in InTransaction /\ lock = c
                                 /\ p \in request[c].names
<1> DEFINE Named ==
      \/ lock = Pacman
      \/ /\ installed' \subseteq installed
         /\ \A p \in installed \ installed' :
              \E c \in Calls : statusBar[c] = "removing" /\ lock = c /\ p \in askedBar[c]
<1>1. ASSUME Named PROVE Authorized
  <2>1. ASSUME NEW c \in Calls, statusBar[c] = "removing"
        PROVE  c \in granted /\ pc[c] \in InTransaction
    BY <2>1 DEF statusBar, StatusOf
  <2> QED
    BY <1>1, <2>1 DEF askedBar
<1>2. UNCHANGED Promises!contractVars => Authorized
  BY DEF Promises!contractVars
<1>3. Promises!OnlyNamedPackagesGo => [][Named]_(Promises!contractVars)
  BY DEF Promises!OnlyNamedPackagesGo
<1> HIDE DEF Authorized, Named
<1>4. [Named]_(Promises!contractVars) => [Authorized]_vars
  BY <1>1, <1>2
<1>5. Spec => [][Authorized]_vars
  BY <1>3, <1>4, HelperPromises, PTL
<1> QED
  BY <1>5 DEF OnlyAuthorizedRemovals, Authorized

\* "ok" is never said too early and never taken back.
THEOREM OkIsEarned == Spec => OkIsTrueAndFinal
<1> DEFINE True ==
      \A c \in Calls :
        /\ pc[c] \notin Ending /\ pc'[c] \in Ending /\ result'[c] = "ok" =>
             lock = c /\ request'[c].names \cap installed' = {}
        /\ pc[c] \in Ending =>
             pc'[c] \in Ending /\ (result'[c] = "ok" <=> result[c] = "ok")
<1> DEFINE Final ==
      \A c \in Calls :
        /\ statusBar[c] # "idle" => askedBar'[c] = askedBar[c]
        /\ statusBar[c] \in {"removed", "failed"} => statusBar'[c] = statusBar[c]
<1> DEFINE Earned ==
      \A c \in Calls :
        /\ statusBar[c] # "removing" /\ statusBar'[c] = "removing" => statusBar[c] = "authorized"
        /\ statusBar[c] # "removed" /\ statusBar'[c] = "removed" =>
             /\ statusBar[c] = "removing" /\ lock = c
             /\ askedBar'[c] \cap installed' = {}
<1>0. ASSUME NEW c \in Calls
      PROVE  /\ statusBar[c] = "removed" <=> pc[c] \in Ending /\ result[c] = "ok"
             /\ statusBar[c] = "failed" <=> pc[c] \in Ending /\ result[c] # "ok"
             /\ statusBar'[c] = "removed" <=> pc'[c] \in Ending /\ result'[c] = "ok"
             /\ statusBar'[c] = "failed" <=> pc'[c] \in Ending /\ result'[c] # "ok"
             /\ askedBar'[c] = request'[c].names
  BY DEF statusBar, StatusOf, askedBar, Ending
<1>1. ASSUME Final, Earned PROVE True
  BY <1>0, <1>1
<1>2. Promises!EndsAreFinal => [][Final]_(Promises!contractVars)
  BY DEF Promises!EndsAreFinal
<1>3. Promises!SuccessIsEarned => [][Earned]_(Promises!contractVars)
  BY DEF Promises!SuccessIsEarned
<1>4. ASSUME UNCHANGED Promises!contractVars PROVE True
  BY <1>0, <1>4 DEF Promises!contractVars
<1> HIDE DEF True, Final, Earned
<1>5. [Final]_(Promises!contractVars) /\ [Earned]_(Promises!contractVars) => [True]_vars
  BY <1>1, <1>4
<1>6. Spec => [][True]_vars
  BY <1>2, <1>3, <1>5, HelperPromises, PTL
<1> QED
  BY <1>6 DEF OkIsTrueAndFinal, True
=============================================================================
