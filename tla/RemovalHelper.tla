---------------------------- MODULE RemovalHelper ----------------------------
(***************************************************************************)
(* The privileged helper: UninstallAdaptor (the D-Bus front end and its    *)
(* nested event loops), _RemovalWorker (one thread per removal call),      *)
(* HelperCore (authorization and staleness gate) and AlpmBackend (the one  *)
(* backend object all the worker threads share), running beside another    *)
(* package manager that honours the same database lock.                    *)
(*                                                                         *)
(* One action is one stretch of a thread that other threads cannot observe *)
(* the middle of.  Every access to a field of the shared AlpmBackend and   *)
(* every call into libalpm is a step of its own.                           *)
(*                                                                         *)
(* External code, modelled from how src/ uses it: polkit (says yes or no), *)
(* libalpm (a handle caches the local database when it is opened, holds at *)
(* most one transaction, takes the database lock in init, removes one      *)
(* package at a time in commit, may log an error without raising it, and   *)
(* raises from an interrupted commit), and the other package manager.      *)
(***************************************************************************)
EXTENDS Integers, Sequences, FiniteSets

CONSTANTS
  Pkgs,       \* packages that can be installed
  Calls,      \* RemovePackages calls, each made once
  Handles,    \* identities of libalpm handles
  Free,       \* the database lock when nobody holds it
  Pacman,     \* the database lock when another package manager holds it
  NoCall,
  NoHandle,
  Forms,      \* bound: the forms of message that clients send (MessageForms)
  MaxRuns     \* bound: calls, and transactions of the other package manager

ASSUME NoneDistinct ==
  /\ Free # Pacman /\ Free \notin Calls /\ Pacman \notin Calls
  /\ NoCall \notin Calls
  /\ "loop" \notin Calls /\ "cancel" \notin Calls /\ "wait" \notin Calls
  /\ NoHandle \notin Handles

\* A message whose plan digest matches, one whose digest does not, and one
\* that decode_request() rejects.
MessageForms == {"good", "bad-digest", "malformed"}

ASSUME BoundsOK == Forms \subseteq MessageForms /\ MaxRuns \in Nat

VARIABLES
  \* the system
  installed,    \* packages in the local database
  dbGen,        \* mtime of the local database directory
  lock,         \* owner of db.lck
  pacmanRuns,   \* transactions the other package manager has begun
  \* AlpmBackend
  handle,       \* self._handle
  handleGen,    \* self._handle_generation
  transaction,  \* self._transaction, as the call that opened it
  interrupt,    \* self._interrupt
  \* libalpm handle objects
  cache,        \* cache[h]: the packages h's pkgcache holds
  logTo,        \* logTo[h]: the call whose `errors` list h.logcb appends to
  trans,        \* trans[h]: the call whose transaction is open on h
  interrupted,  \* interrupted[c]: the transaction of c was told to stop
  \* removal workers
  pc,
  request,      \* request[c]: the decoded message
  todo,         \* todo[c]: names left in the loop c is in
  held,         \* held[c]: the local variable `handle` of remove()
  genSeen,      \* genSeen[c]: the local variable `gen` of _ensure_handle()
  errors,       \* errors[c]: the list `errors` of c is not empty
  result,       \* result[c]: how c ends, "none" while unknown
  \* the service's main thread
  main,         \* "loop", "cancel", "wait", or the call it is starting
  loops,        \* the nested QEventLoops, outermost first, by call
  quit,         \* quit[c]: loop.quit() of c was called since its exec()
  answered,     \* calls whose D-Bus reply was sent
  \* observers: written only, read by no action
  granted,      \* calls polkit authorized
  logged,       \* calls during whose commit libalpm logged an error
  crossed       \* calls whose handle another call wired for itself meanwhile

systemVars   == <<installed, dbGen, lock, pacmanRuns>>
backendVars  == <<handle, handleGen, transaction, interrupt>>
objectVars   == <<cache, logTo, trans, interrupted>>
workerVars   == <<pc, request, todo, held, genSeen, errors, result>>
mainVars     == <<main, loops, quit, answered>>
observerVars == <<granted, logged, crossed>>
vars == <<systemVars, backendVars, objectVars, workerVars, mainVars, observerVars>>

\* The states of a call, in program order.
PC == {"idle", "start", "gate", "ensure", "test", "match", "open", "publish",
       "take", "wire", "init", "settx", "clear", "prepare", "commit", "release",
       "untx", "drop", "done"}

\* Where a call has its transaction open, and so owns the lock.
InTransaction == {"settx", "clear", "prepare", "commit", "release"}

\* Where a call relies on the callbacks it has bound to its handle.
Wired == {"init", "settx", "clear", "prepare", "commit"}

Refusals == {"protocol-error", "authorization-denied", "stale-plan",
             "DatabaseUnavailable", "PackageNotFound", "PackageManagerBusy",
             "TransactionFailed", "internal-error"}
Results == Refusals \cup {"none", "ok"}

\* What a client can send: the names of the plan (targets and cascade), a
\* generation it has read, a digest that matches or not, or no valid message.
Request == [names : (SUBSET Pkgs) \ {{}}, gen : Nat,
            form : MessageForms]
NoRequest == [names |-> {}, gen |-> 0, form |-> "malformed"]

SystemOK ==
  /\ installed \in SUBSET Pkgs
  /\ dbGen \in Nat
  /\ lock \in Calls \cup {Free, Pacman}
  /\ pacmanRuns \in Nat

BackendOK ==
  /\ handle \in Handles \cup {NoHandle}
  /\ handleGen \in Nat \cup {-1}
  /\ transaction \in Calls \cup {NoCall}
  /\ interrupt \in BOOLEAN

ObjectsOK ==
  /\ cache \in [Handles -> SUBSET Pkgs]
  /\ logTo \in [Handles -> Calls \cup {NoCall}]
  /\ trans \in [Handles -> Calls \cup {NoCall}]
  /\ interrupted \in [Calls -> BOOLEAN]

\* A call uses a handle from "wire" on.
WorkersOK ==
  /\ pc \in [Calls -> PC]
  /\ request \in [Calls -> Request \cup {NoRequest}]
  /\ todo \in [Calls -> SUBSET Pkgs]
  /\ held \in [Calls -> Handles \cup {NoHandle}]
  /\ genSeen \in [Calls -> Nat]
  /\ errors \in [Calls -> BOOLEAN]
  /\ result \in [Calls -> Results]
  /\ \A c \in Calls : pc[c] \in {"wire", "init"} \cup InTransaction => held[c] \in Handles

MainOK ==
  /\ main \in Calls \cup {"loop", "cancel", "wait"}
  /\ loops \in Seq(Calls)
  /\ quit \in [Calls -> BOOLEAN]
  /\ answered \in SUBSET Calls

ObserversOK ==
  /\ granted \in SUBSET Calls
  /\ logged \in SUBSET Calls
  /\ crossed \in SUBSET Calls

TypeOK == SystemOK /\ BackendOK /\ ObjectsOK /\ WorkersOK /\ MainOK /\ ObserversOK

Init ==
  /\ installed \in SUBSET Pkgs
  /\ dbGen = 0
  /\ lock = Free
  /\ pacmanRuns = 0
  /\ handle = NoHandle
  /\ handleGen = -1
  /\ transaction = NoCall
  /\ interrupt = FALSE
  /\ cache = [h \in Handles |-> {}]
  /\ logTo = [h \in Handles |-> NoCall]
  /\ trans = [h \in Handles |-> NoCall]
  /\ interrupted = [c \in Calls |-> FALSE]
  /\ pc = [c \in Calls |-> "idle"]
  /\ request = [c \in Calls |-> NoRequest]
  /\ todo = [c \in Calls |-> {}]
  /\ held = [c \in Calls |-> NoHandle]
  /\ genSeen = [c \in Calls |-> 0]
  /\ errors = [c \in Calls |-> FALSE]
  /\ result = [c \in Calls |-> "none"]
  /\ main = "loop"
  /\ loops = <<>>
  /\ quit = [c \in Calls |-> FALSE]
  /\ answered = {}
  /\ granted = {}
  /\ logged = {}
  /\ crossed = {}

-----------------------------------------------------------------------------
(* The service's main thread. *)

\* What the bound counts: calls made, and transactions of the other package manager.
Runs == pacmanRuns + Cardinality({c \in Calls : pc[c] # "idle"})

\* UninstallAdaptor.Call with op remove_packages, up to thread.start().  The
\* innermost running event loop dispatches it, so calls nest.  Calls differ in
\* nothing but their names: which of those yet to come comes next is arbitrary.
Receive(c) ==
  /\ main = "loop"
  /\ Runs < MaxRuns
  /\ pc[c] = "idle"
  /\ c = CHOOSE d \in Calls : pc[d] = "idle"
  /\ \E names \in (SUBSET Pkgs) \ {{}}, gen \in 0..dbGen, form \in Forms :
       request' = [request EXCEPT ![c] = [names |-> names, gen |-> gen, form |-> form]]
  /\ pc' = [pc EXCEPT ![c] = "start"]
  /\ main' = c
  /\ UNCHANGED <<systemVars, backendVars, objectVars, observerVars,
                 todo, held, genSeen, errors, result, loops, quit, answered>>

\* loop.exec(): entering the loop forgets any earlier quit().
EnterLoop(c) ==
  /\ main = c
  /\ main' = "loop"
  /\ loops' = Append(loops, c)
  /\ quit' = [quit EXCEPT ![c] = FALSE]
  /\ UNCHANGED <<systemVars, backendVars, objectVars, workerVars, observerVars, answered>>

\* Only the innermost loop can return: the main thread is inside it.
LeaveLoop(c) ==
  /\ main = "loop"
  /\ loops # <<>>
  /\ c = loops[Len(loops)]
  /\ quit[c]
  /\ main' = "wait"
  /\ UNCHANGED <<systemVars, backendVars, objectVars, workerVars, observerVars,
                 loops, quit, answered>>

\* thread.wait(30000): thread.quit() is queued for the very thread that waits,
\* so the wait may last its full time; no event is handled meanwhile.
ReturnReply(c) ==
  /\ main = "wait"
  /\ loops # <<>>
  /\ c = loops[Len(loops)]
  /\ main' = "loop"
  /\ loops' = SubSeq(loops, 1, Len(loops) - 1)
  /\ answered' = answered \cup {c}
  /\ UNCHANGED <<systemVars, backendVars, objectVars, workerVars, observerVars, quit>>

\* request_interrupt(): set the event ...
CancelSetFlag ==
  /\ main = "loop"
  /\ main' = "cancel"
  /\ interrupt' = TRUE
  /\ UNCHANGED <<systemVars, objectVars, workerVars, observerVars,
                 handle, handleGen, transaction, loops, quit, answered>>

\* ... then read self._transaction and interrupt it.  libalpm refuses to
\* interrupt a transaction that is not committing; the code ignores that.
CancelInterrupt ==
  /\ main = "cancel"
  /\ main' = "loop"
  /\ interrupted' = [c \in Calls |->
       interrupted[c] \/ (c = transaction /\ pc[c] = "commit")]
  /\ UNCHANGED <<systemVars, backendVars, workerVars, observerVars,
                 cache, logTo, trans, loops, quit, answered>>

-----------------------------------------------------------------------------
(* A worker thread: HelperCore.handle and AlpmBackend.remove. *)

\* Mutant of Finish: `finished` is emitted on success only.
FinishQuietOnFailure(c, code) ==
  /\ pc' = [pc EXCEPT ![c] = "done"]
  /\ result' = [result EXCEPT ![c] = code]
  /\ todo' = [todo EXCEPT ![c] = {}]
  /\ held' = [held EXCEPT ![c] = NoHandle]
  /\ genSeen' = [genSeen EXCEPT ![c] = 0]
  /\ errors' = [errors EXCEPT ![c] = FALSE]
  /\ quit' = [quit EXCEPT ![c] = (code = "ok")]
  /\ UNCHANGED <<request, main, loops, answered>>

\* The call ends with reply `code`: handle() encodes it, `finished` is
\* emitted and _done() calls loop.quit() in the worker's own thread.  The
\* locals of remove() are gone.
Finish(c, code) ==
  /\ pc' = [pc EXCEPT ![c] = "done"]
  /\ result' = [result EXCEPT ![c] = code]
  /\ todo' = [todo EXCEPT ![c] = {}]
  /\ held' = [held EXCEPT ![c] = NoHandle]
  /\ genSeen' = [genSeen EXCEPT ![c] = 0]
  /\ errors' = [errors EXCEPT ![c] = FALSE]
  /\ quit' = [quit EXCEPT ![c] = TRUE]
  /\ UNCHANGED <<request, main, loops, answered>>

Goto(c, label) == pc' = [pc EXCEPT ![c] = label]

\* The call goes on, with its local variables as they are.
Proceed(c, label) ==
  /\ Goto(c, label)
  /\ UNCHANGED <<request, todo, held, genSeen, errors, result, mainVars>>

\* decode_request() raises ProtocolError.
RejectMalformed(c) ==
  /\ pc[c] = "start"
  /\ request[c].form = "malformed"
  /\ Finish(c, "protocol-error")
  /\ UNCHANGED <<systemVars, backendVars, objectVars, observerVars>>

\* PolkitAuthorizer.check(): the user, a time-out or an error of polkit decides.
Authorize(c) ==
  /\ pc[c] = "start"
  /\ request[c].form # "malformed"
  /\ \/ /\ granted' = granted \cup {c}
        /\ Proceed(c, "gate")
     \/ /\ Finish(c, "authorization-denied")
        /\ UNCHANGED granted
  /\ UNCHANGED <<systemVars, backendVars, objectVars, logged, crossed>>

\* The staleness gate of HelperCore._remove: generation, then digest.
CheckStale(c) ==
  /\ pc[c] = "gate"
  /\ IF request[c].gen = dbGen /\ request[c].form = "good"
     THEN /\ Goto(c, "ensure")
          /\ todo' = [todo EXCEPT ![c] = request[c].names]
          /\ UNCHANGED <<request, held, genSeen, errors, result, mainVars>>
     ELSE Finish(c, "stale-plan")
  /\ UNCHANGED <<systemVars, backendVars, objectVars, observerVars>>

\* generation() cannot stat the directory, or Handle() cannot open it.
FailDatabase(c) ==
  /\ pc[c] \in {"gate", "ensure", "open"}
  /\ Finish(c, "DatabaseUnavailable")
  /\ UNCHANGED <<systemVars, backendVars, objectVars, observerVars>>

\* _ensure_handle() reads the generation, then self._handle, then
\* self._handle_generation, and reuses the handle iff both are as wanted.
ReadGeneration(c) ==
  /\ pc[c] = "ensure"
  /\ Goto(c, "test")
  /\ genSeen' = [genSeen EXCEPT ![c] = dbGen]
  /\ UNCHANGED <<systemVars, backendVars, objectVars, observerVars, mainVars,
                 request, todo, held, errors, result>>

TestHandle(c) ==
  /\ pc[c] = "test"
  /\ Proceed(c, IF handle = NoHandle THEN "open" ELSE "match")
  /\ UNCHANGED <<systemVars, backendVars, objectVars, observerVars>>

\* The local `gen` is gone when _ensure_handle() returns.
Return(c) ==
  /\ Goto(c, "take")
  /\ genSeen' = [genSeen EXCEPT ![c] = 0]
  /\ UNCHANGED <<request, todo, held, errors, result, mainVars>>

MatchGeneration(c) ==
  /\ pc[c] = "match"
  /\ IF genSeen[c] = handleGen THEN Return(c) ELSE Proceed(c, "open")
  /\ UNCHANGED <<systemVars, backendVars, objectVars, observerVars>>

\* Handles nobody references any more: a new handle takes one of these.
Unused(c) == Handles \ ({handle} \cup {held[d] : d \in Calls \ {c}})

OpenHandle(c) ==
  /\ pc[c] = "open"
  /\ \E h \in Unused(c) :
       /\ handle' = h
       /\ cache' = [cache EXCEPT ![h] = installed]
       /\ logTo' = [logTo EXCEPT ![h] = NoCall]
       /\ trans' = [trans EXCEPT ![h] = NoCall]
  /\ Proceed(c, "publish")
  /\ UNCHANGED <<systemVars, observerVars, handleGen, transaction, interrupt, interrupted>>

\* Mutant of PublishGeneration: the generation is read after the handle is opened.
PublishLateGeneration(c) ==
  /\ pc[c] = "publish"
  /\ handleGen' = dbGen
  /\ Return(c)
  /\ UNCHANGED <<systemVars, objectVars, observerVars, handle, transaction, interrupt>>

PublishGeneration(c) ==
  /\ pc[c] = "publish"
  /\ handleGen' = genSeen[c]
  /\ Return(c)
  /\ UNCHANGED <<systemVars, objectVars, observerVars, handle, transaction, interrupt>>

\* is_installed(name) on whatever self._handle is by now; an exception there
\* (no handle any more) counts as "not installed".
CheckInstalled(c) ==
  /\ pc[c] = "take"
  /\ \E name \in todo[c] :
       IF handle # NoHandle /\ name \in cache[handle]
       THEN /\ Goto(c, "ensure")
            /\ todo' = [todo EXCEPT ![c] = @ \ {name}]
            /\ UNCHANGED <<request, held, genSeen, errors, result, mainVars>>
       ELSE Finish(c, "stale-plan")
  /\ UNCHANGED <<systemVars, backendVars, objectVars, observerVars>>

\* remove(): resolve every name on the handle before any side effect.
ResolvePackages(c) ==
  /\ pc[c] = "take"
  /\ todo[c] = {}
  /\ \/ /\ handle = NoHandle
        /\ Finish(c, "internal-error")
     \/ /\ handle # NoHandle
        /\ ~ request[c].names \subseteq cache[handle]
        /\ Finish(c, "PackageNotFound")
     \/ /\ handle # NoHandle
        /\ request[c].names \subseteq cache[handle]
        /\ Goto(c, "wire")
        /\ held' = [held EXCEPT ![c] = handle]
        /\ UNCHANGED <<request, todo, genSeen, errors, result, mainVars>>
  /\ UNCHANGED <<systemVars, backendVars, objectVars, observerVars>>

\* _wire_callbacks() rebinds the handle's callbacks, whoever uses it.
WireCallbacks(c) ==
  /\ pc[c] = "wire"
  /\ logTo' = [logTo EXCEPT ![held[c]] = c]
  /\ crossed' = crossed \cup {d \in Calls \ {c} : pc[d] \in Wired /\ held[d] = held[c]}
  /\ Proceed(c, "init")
  /\ UNCHANGED <<systemVars, backendVars, granted, logged, cache, trans, interrupted>>

\* init_transaction(): one transaction per handle, then the database lock; it
\* may fail for any other reason too.  No error path reaches the `finally` that
\* drops the handle.
InitTransaction(c) ==
  /\ pc[c] = "init"
  /\ \/ /\ Finish(c, "TransactionFailed")
        /\ UNCHANGED <<lock, trans>>
     \/ /\ trans[held[c]] = NoCall
        /\ lock # Free
        /\ Finish(c, "PackageManagerBusy")
        /\ UNCHANGED <<lock, trans>>
     \/ /\ trans[held[c]] = NoCall
        /\ lock = Free
        /\ lock' = c
        /\ trans' = [trans EXCEPT ![held[c]] = c]
        /\ Goto(c, "settx")
        /\ todo' = [todo EXCEPT ![c] = request[c].names]
        /\ UNCHANGED <<request, held, genSeen, errors, result, mainVars>>
  /\ UNCHANGED <<installed, dbGen, pacmanRuns, backendVars, cache, logTo, interrupted,
                 observerVars>>

SetTransaction(c) ==
  /\ pc[c] = "settx"
  /\ transaction' = c
  /\ Proceed(c, "clear")
  /\ UNCHANGED <<systemVars, objectVars, observerVars, handle, handleGen, interrupt>>

ClearInterrupt(c) ==
  /\ pc[c] = "clear"
  /\ interrupt' = FALSE
  /\ Proceed(c, "prepare")
  /\ UNCHANGED <<systemVars, objectVars, observerVars, handle, handleGen, transaction>>

\* remove_pkg() for every package, then prepare().
Prepare(c) ==
  /\ pc[c] = "prepare"
  /\ Proceed(c, "commit")
  /\ UNCHANGED <<systemVars, backendVars, objectVars, observerVars>>

\* One package of commit(): its database entry goes, and libalpm may log an
\* error about its files to whichever list the handle's logcb is bound to.
CommitPackage(c) ==
  /\ pc[c] = "commit"
  /\ ~ interrupted[c]
  /\ \E p \in todo[c], logsError \in BOOLEAN :
       /\ installed' = installed \ {p}
       /\ dbGen' = IF p \in installed THEN dbGen + 1 ELSE dbGen
       /\ todo' = [todo EXCEPT ![c] = @ \ {p}]
       /\ cache' = [cache EXCEPT ![held[c]] = @ \ {p}]
       /\ errors' = [d \in Calls |-> errors[d] \/ (logsError /\ d = logTo[held[c]])]
       /\ logged' = IF logsError THEN logged \cup {c} ELSE logged
  /\ UNCHANGED <<lock, pacmanRuns, backendVars, logTo, trans, interrupted, granted,
                 crossed, mainVars, pc, request, held, genSeen, result>>

\* Mutant of CommitReturns: the list of logged errors is not looked at.
CommitIgnoresErrors(c) ==
  /\ pc[c] = "commit"
  /\ todo[c] = {}
  /\ Goto(c, "release")
  /\ result' = [result EXCEPT ![c] = "ok"]
  /\ UNCHANGED <<systemVars, backendVars, objectVars, observerVars, mainVars,
                 request, todo, held, genSeen, errors>>

\* Mutant of CommitReturns: an interrupted commit() returns as if complete.
InterruptedCommitReturns(c) ==
  /\ pc[c] = "commit"
  /\ todo[c] = {} \/ interrupted[c]
  /\ Goto(c, "release")
  /\ result' = [result EXCEPT ![c] = IF errors[c] THEN "TransactionFailed" ELSE "ok"]
  /\ UNCHANGED <<systemVars, backendVars, objectVars, observerVars, mainVars,
                 request, todo, held, genSeen, errors>>

\* commit() returns; a non-empty `errors` turns that into a failure.
CommitReturns(c) ==
  /\ pc[c] = "commit"
  /\ todo[c] = {}
  /\ Goto(c, "release")
  /\ result' = [result EXCEPT ![c] = IF errors[c] THEN "TransactionFailed" ELSE "ok"]
  /\ UNCHANGED <<systemVars, backendVars, objectVars, observerVars, mainVars,
                 request, todo, held, genSeen, errors>>

\* prepare() or commit() raises: interrupted, lock lost, or any other error.
TransactionRaises(c) ==
  /\ pc[c] \in {"prepare", "commit"}
  /\ Goto(c, "release")
  /\ \E code \in {"TransactionFailed", "PackageManagerBusy", "internal-error"} :
       /\ interrupt => code # "PackageManagerBusy"
       /\ result' = [result EXCEPT ![c] = code]
  /\ UNCHANGED <<systemVars, backendVars, objectVars, observerVars, mainVars,
                 request, todo, held, genSeen, errors>>

\* Mutant of ReleaseTransaction: a failed transaction is not released.
ReleaseOnSuccess(c) ==
  /\ pc[c] = "release"
  /\ lock' = IF result[c] = "ok" THEN Free ELSE lock
  /\ trans' = [trans EXCEPT ![held[c]] = NoCall]
  /\ interrupted' = [interrupted EXCEPT ![c] = FALSE]
  /\ Proceed(c, "untx")
  /\ UNCHANGED <<installed, dbGen, pacmanRuns, backendVars, cache, logTo, observerVars>>

\* The `finally` clause: release() frees the lock (libalpm refuses only where no
\* transaction is open, so the exception ignored there leaves nothing locked) ...
ReleaseTransaction(c) ==
  /\ pc[c] = "release"
  /\ lock' = Free
  /\ trans' = [trans EXCEPT ![held[c]] = NoCall]
  /\ interrupted' = [interrupted EXCEPT ![c] = FALSE]
  /\ Proceed(c, "untx")
  /\ UNCHANGED <<installed, dbGen, pacmanRuns, backendVars, cache, logTo, observerVars>>

\* Mutant of UnsetTransaction: self._transaction keeps the finished transaction.
KeepTransaction(c) ==
  /\ pc[c] = "untx"
  /\ Proceed(c, "drop")
  /\ UNCHANGED <<systemVars, backendVars, objectVars, observerVars>>

\* ... self._transaction = None, whoever's transaction it is by now ...
UnsetTransaction(c) ==
  /\ pc[c] = "untx"
  /\ transaction' = NoCall
  /\ Proceed(c, "drop")
  /\ UNCHANGED <<systemVars, objectVars, observerVars, handle, handleGen, interrupt>>

\* Mutant of DropHandle: the generation becomes None with the handle.
DropToNone(c) ==
  /\ pc[c] = "drop"
  /\ handle' = NoHandle
  /\ handleGen' = NoHandle
  /\ Finish(c, result[c])
  /\ UNCHANGED <<systemVars, objectVars, observerVars, transaction, interrupt>>

\* ... and _drop_handle(), whoever uses the handle by now; then the reply.
DropHandle(c) ==
  /\ pc[c] = "drop"
  /\ handle' = NoHandle
  /\ handleGen' = -1
  /\ Finish(c, result[c])
  /\ UNCHANGED <<systemVars, objectVars, observerVars, transaction, interrupt>>

-----------------------------------------------------------------------------
(* The other package manager. *)

PacmanBegin ==
  /\ lock = Free
  /\ Runs < MaxRuns
  /\ lock' = Pacman
  /\ pacmanRuns' = pacmanRuns + 1
  /\ UNCHANGED <<installed, dbGen, backendVars, objectVars, workerVars, mainVars,
                 observerVars>>

\* It installs, upgrades or removes something.
PacmanEnd ==
  /\ lock = Pacman
  /\ \E p \in Pkgs : installed' \in {installed \cup {p}, installed \ {p}}
  /\ dbGen' = dbGen + 1
  /\ lock' = Free
  /\ UNCHANGED <<pacmanRuns, backendVars, objectVars, workerVars, mainVars,
                 observerVars>>

-----------------------------------------------------------------------------
WorkerStep(c) ==
  \/ RejectMalformed(c) \/ Authorize(c) \/ CheckStale(c) \/ FailDatabase(c)
  \/ ReadGeneration(c) \/ TestHandle(c) \/ MatchGeneration(c) \/ OpenHandle(c) \/ PublishGeneration(c)
  \/ CheckInstalled(c) \/ ResolvePackages(c) \/ WireCallbacks(c)
  \/ InitTransaction(c) \/ SetTransaction(c) \/ ClearInterrupt(c) \/ Prepare(c)
  \/ CommitPackage(c) \/ CommitReturns(c) \/ TransactionRaises(c)
  \/ ReleaseTransaction(c) \/ UnsetTransaction(c) \/ DropHandle(c)

\* The main thread goes on with the handler it is in.
MainStep == (\E c \in Calls : EnterLoop(c) \/ ReturnReply(c)) \/ CancelInterrupt

Next ==
  \/ \E c \in Calls : Receive(c) \/ LeaveLoop(c) \/ WorkerStep(c)
  \/ CancelSetFlag \/ MainStep
  \/ PacmanBegin \/ PacmanEnd

Spec == Init /\ [][Next]_vars

\* The operating system runs every thread.  polkit answers, if only by a D-Bus
\* time-out, which counts as a denial.  The innermost event loop, once told to
\* quit, does so after the events at hand, however many cancels arrive: strong
\* fairness.  Nobody has to send anything, nor the other package manager to end.
Fairness ==
  /\ \A c \in Calls : WF_vars(WorkerStep(c))
  /\ WF_vars(MainStep)
  /\ SF_vars(\E c \in Calls : LeaveLoop(c))

FairSpec == Spec /\ Fairness

-----------------------------------------------------------------------------
(* Properties. *)

\* A call owns the database lock exactly while its transaction is open: no
\* error path of remove() leaks the lock, none works without it.
LockHeldExactlyInTransaction ==
  \A c \in Calls : lock = c <=> pc[c] \in InTransaction

\* self._transaction, which a cancel interrupts, is never left pointing at a
\* transaction that is over, however the `finally` clauses of two calls mix.
TransactionFieldIsLive ==
  transaction # NoCall =>
    pc[transaction] \in {"clear", "prepare", "commit", "release", "untx"}

\* What _ensure_handle() promises: a cached handle whose generation is the
\* directory's current one shows the packages that are installed now.
CurrentHandleIsFresh ==
  handle # NoHandle /\ handleGen = dbGen => cache[handle] = installed

\* D20: a removal during which libalpm logged an error is never a success.
LoggedErrorsAreReported ==
  \A c \in logged : result[c] # "ok"

\* What does hold of D20: a removal passes a logged error over only if another
\* call bound the callbacks of the same handle to itself while it ran.
OnlySharingHidesErrors ==
  \A c \in logged : result[c] = "ok" => c \in crossed

\* The event loop of c runs, or waits for a loop nested in it.
Waits(c) == \E i \in 1..Len(loops) : loops[i] = c

\* The event loop of c was entered after its quit(), and nothing ends it.
Hung(c) == ~ quit[c] /\ pc[c] = "done" /\ Waits(c)

\* A call hangs from the moment its event loop starts, because the worker had told it
\* to quit before that; one whose loop runs when the worker finishes does not.
OnlyEntryHangs == \A c \in Calls : ~ Hung(c) /\ Hung(c)' => main = c /\ pc[c] = "done"

\* What does hold of the claim in service.py: every call is answered in the end, unless
\* its own event loop, or that of a later call nested in it, was entered too late.
AnsweredIfHeard ==
  /\ [][OnlyEntryHangs]_vars
  /\ \A c \in Calls :
       []<>(\/ pc[c] = "idle" \/ c \in answered
            \/ \E i, j \in 1..Len(loops) : i <= j /\ loops[i] = c /\ Hung(loops[j]))

\* service.py: finished is always emitted and the caller never hangs.
CallerNeverHangs ==
  \A c \in Calls : pc[c] = "start" ~> c \in answered

-----------------------------------------------------------------------------
(* The helper implements RemovalContract. *)

\* The call's standing with its caller.  A call is over for the contract when
\* the lock is free again, since then its result is fixed.
StatusOf(c) ==
  IF pc[c] = "idle" THEN "idle"
  ELSE IF pc[c] \in {"untx", "drop", "done"}
       THEN IF result[c] = "ok" THEN "removed" ELSE "failed"
       ELSE IF c \notin granted THEN "submitted"
            ELSE IF pc[c] \in InTransaction THEN "removing" ELSE "authorized"

askedBar  == [c \in Calls |-> request[c].names]
statusBar == [c \in Calls |-> StatusOf(c)]

Contract == INSTANCE RemovalContract WITH
  holder <- lock, asked <- askedBar, status <- statusBar

\* Every behaviour of the helper is one the contract allows: authorization
\* before any effect, exclusive use of the database, no package removed that
\* the call did not name, "ok" only if every named package is gone.
ImplementsContract == Contract!ContractSpec
=============================================================================
