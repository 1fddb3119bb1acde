---------------------------- MODULE DesktopRemoval ----------------------------
(***************************************************************************)
(* Removals from the main window: an analysis worker reads the system, a   *)
(* preview shows what it found, the accepted plan is built from the        *)
(* window's own packages, journalled and sent to the helper, the reply     *)
(* goes through the client's single handler slot, and a refresh worker     *)
(* re-reads the packages.  The helper is any one that keeps                *)
(* RemovalContract, with the staleness gate in front.                      *)
(*                                                                         *)
(* An action of the GUI thread is what it does without returning to an     *)
(* event loop, split where a crash leaves something behind.  Workers, the  *)
(* helper and another package manager run beside it.                       *)
(***************************************************************************)
EXTENDS PackageSnapshot, Integers, Sequences

CONSTANTS
  World,      \* the packages: what each depends on, provides and was installed for
  Removals,   \* removals the user starts, each once
  Boot,       \* the refresh that start-up begins; a removal's refresh has its name
  NoRemoval,
  Free,       \* the database lock when nobody holds it
  Pacman,     \* the database lock when another package manager holds it
  MaxPacman   \* bound: transactions of the other package manager

Refreshes == Removals \cup {Boot}

ASSUME WorldOK ==
  /\ World \in Snapshots
  /\ World.full /\ World.broken = {}
  /\ \A p \in Names : World.provides[p] = {}
  /\ \A b \in Bases : World.first[b] = NoName

ASSUME RemovalsOK ==
  /\ Boot \notin Removals /\ NoRemoval \notin Removals
  /\ Free \notin Removals /\ Pacman \notin Removals /\ Free # Pacman
  /\ MaxPacman \in Nat

VARIABLES
  \* the system and the helper
  installed,  \* packages in the local database
  dbGen,      \* mtime of the local database directory
  holder,     \* who holds the database lock
  asked,      \* asked[r]: the names in the request of r
  status,     \* status[r]: how far the helper is with r
  nest,       \* calls in the helper's nested event loops, outermost first
  pacmanRuns, \* transactions the other package manager has begun
  \* the main window and its dialogs
  running,    \* "yes", "quit" or, after an uncaught exception, "crashed"
  packages,   \* AppState.packages: which ones, and with full records or light ones
  rows,       \* the pacman rows of the table
  previews,   \* open preview dialogs, the one on top last
  \* each removal
  phase,
  target,     \* item.name
  shown,      \* shown[r]: RemovalImpact.new_orphans in the preview
  generation, \* generation[r]: the generation the analysis read
  plan,       \* plan[r]: targets and cascade of the RemovalPlan
  journal,    \* journal[r]: its journal entry
  \* the client
  handler,    \* _Bridge.reply_handler, as the removal it belongs to
  pending,    \* D-Bus calls that have neither a reply nor a time-out yet
  \* refresh workers
  refresh,    \* refresh[w]: how far worker w is
  reread,     \* reread[w]: the packages w has read
  \* observers: written only, read by no action
  approved,   \* approved[r]: what the accepted preview listed for removal
  overlapped, \* removals sent while another was pending, and that other
  undone,     \* refreshes that had read their packages when a removal succeeded
  drifted     \* removals whose packages changed before their generation was read

helperVars   == <<installed, dbGen, holder, asked, status, nest, pacmanRuns>>
windowVars   == <<running, packages, rows, previews>>
removalVars  == <<phase, target, shown, generation, plan, journal>>
clientVars   == <<handler, pending>>
refreshVars  == <<refresh, reread>>
observerVars == <<approved, overlapped, undone, drifted>>
vars == <<helperVars, windowVars, removalVars, clientVars, refreshVars, observerVars>>

Helper == INSTANCE RemovalContract WITH Pkgs <- Names, Calls <- Removals

\* In program order; "planned" and "journalled" lie inside one GUI handler.
Phase == {"idle", "reading", "stamping", "analysed", "previewing", "planned",
          "journalled", "called", "over"}

HelperOK ==
  /\ installed \in SUBSET Names
  /\ dbGen \in Nat
  /\ holder \in Removals \cup {Free, Pacman}
  /\ asked \in [Removals -> SUBSET Names]
  /\ status \in [Removals -> Helper!Status]
  /\ nest \in Seq(Removals)
  /\ pacmanRuns \in Nat

WindowOK ==
  /\ running \in {"yes", "quit", "crashed"}
  /\ packages \in [present : SUBSET Names, full : BOOLEAN]
  /\ rows \in SUBSET Names
  /\ previews \in Seq(Removals)

StepsOK ==
  /\ phase \in [Removals -> Phase]
  /\ target \in [Removals -> Names \cup {NoName}]
  /\ shown \in [Removals -> SUBSET Names]
  /\ generation \in [Removals -> Nat]
  /\ plan \in [Removals -> SUBSET Names]
  /\ journal \in [Removals -> {"absent", "started", "done", "failed"}]

ClientOK ==
  /\ handler \in Removals \cup {NoRemoval}
  /\ pending \in SUBSET Removals

RefreshOK ==
  /\ refresh \in [Refreshes -> {"unused", "reading", "read", "over"}]
  /\ reread \in [Refreshes -> SUBSET Names]

ObserversOK ==
  /\ approved \in [Removals -> SUBSET (Names \cup {NoName})]
  /\ overlapped \in SUBSET Removals
  /\ undone \in SUBSET Refreshes
  /\ drifted \in SUBSET Removals

TypeOK == HelperOK /\ WindowOK /\ StepsOK /\ ClientOK /\ RefreshOK /\ ObserversOK

\* app.py shows light records at once and starts the first refresh.
Init ==
  /\ installed = World.present
  /\ dbGen = 0
  /\ holder = Free
  /\ asked = [r \in Removals |-> {}]
  /\ status = [r \in Removals |-> "idle"]
  /\ nest = <<>>
  /\ pacmanRuns = 0
  /\ running = "yes"
  /\ packages = [present |-> installed, full |-> FALSE]
  /\ rows = installed
  /\ previews = <<>>
  /\ phase = [r \in Removals |-> "idle"]
  /\ target = [r \in Removals |-> NoName]
  /\ shown = [r \in Removals |-> {}]
  /\ generation = [r \in Removals |-> 0]
  /\ plan = [r \in Removals |-> {}]
  /\ journal = [r \in Removals |-> "absent"]
  /\ handler = NoRemoval
  /\ pending = {}
  /\ refresh = [w \in Refreshes |-> IF w = Boot THEN "reading" ELSE "unused"]
  /\ reread = [w \in Refreshes |-> {}]
  /\ approved = [r \in Removals |-> {}]
  /\ overlapped = {}
  /\ undone = {}
  /\ drifted = {}

-----------------------------------------------------------------------------
\* PackageSet(packages) over records of these packages.
Snapshot(present, full) == [World EXCEPT !.present = present, !.full = full]

-----------------------------------------------------------------------------
(* The GUI thread. *)

\* The GUI thread can take an event: it is in an event loop.
AtEventLoop ==
  /\ running = "yes"
  /\ \A r \in Removals : phase[r] \notin {"planned", "journalled"}

\* No preview was opened later: modal dialogs are answered from the top.
OnTop(r) == previews # <<>> /\ previews[Len(previews)] = r

Goto(r, label) == phase' = [phase EXCEPT ![r] = label]

\* What a user can pick: a row of the table, or one of the orphans tab, which
\* is filled from full records only.
Selectable ==
  rows \cup (IF packages.full
             THEN {p \in packages.present \ World.explicit :
                     RequiredBy(Snapshot(packages.present, TRUE), p) = {}}
             ELSE {})

StartAnalysis(r) ==
  /\ AtEventLoop
  /\ previews = <<>>
  /\ phase[r] = "idle"
  /\ \E p \in Selectable : target' = [target EXCEPT ![r] = p]
  /\ Goto(r, "reading")
  /\ UNCHANGED <<helperVars, windowVars, shown, generation, plan, journal, clientVars,
                 refreshVars, observerVars>>

\* _show_preview() of an analysis that succeeded opens its dialog.
ShowPreview(r) ==
  /\ AtEventLoop
  /\ phase[r] = "analysed"
  /\ previews' = Append(previews, r)
  /\ Goto(r, "previewing")
  /\ UNCHANGED <<helperVars, running, packages, rows, target, shown, generation, plan,
                 journal, clientVars, refreshVars, observerVars>>

Reject(r) ==
  /\ AtEventLoop
  /\ phase[r] = "previewing"
  /\ OnTop(r)
  /\ previews' = SubSeq(previews, 1, Len(previews) - 1)
  /\ Goto(r, "over")
  /\ UNCHANGED <<helperVars, running, packages, rows, target, shown, generation, plan,
                 journal, clientVars, refreshVars, observerVars>>

\* The dialog returns, and build_plan() runs over the window's own packages: an
\* unknown target is not caught, a blocked one is.
Accept(r) ==
  /\ AtEventLoop
  /\ phase[r] = "previewing"
  /\ OnTop(r)
  /\ previews' = SubSeq(previews, 1, Len(previews) - 1)
  /\ \E orphansToo \in IF shown[r] = {} THEN {FALSE} ELSE BOOLEAN :
       LET s == Snapshot(packages.present, packages.full)
           p == target[r]
       IN
       /\ approved' = [approved EXCEPT ![r] = {p} \cup IF orphansToo THEN shown[r] ELSE {}]
       /\ \/ /\ p \notin s.present
             /\ running' = "crashed"
             /\ UNCHANGED <<phase, plan>>
          \/ /\ p \in s.present
             /\ Blockers(s, p) # {}
             /\ Goto(r, "over")
             /\ UNCHANGED <<running, plan>>
          \/ /\ p \in s.present
             /\ Blockers(s, p) = {}
             /\ plan' = [plan EXCEPT ![r] = {p} \cup IF orphansToo THEN NewOrphans(s, p) ELSE {}]
             /\ Goto(r, "planned")
             /\ UNCHANGED running
  /\ UNCHANGED <<helperVars, packages, rows, target, shown, generation, journal,
                 clientVars, refreshVars, overlapped, undone, drifted>>

\* Mutant of StartJournal: the entry is left to the end of the removal.
StartWithoutJournal(r) ==
  /\ running = "yes"
  /\ phase[r] = "planned"
  /\ Goto(r, "journalled")
  /\ UNCHANGED <<helperVars, windowVars, target, shown, generation, plan, journal, clientVars,
                 refreshVars, observerVars>>

\* _execute_plan(): ask for the helper, then write the journal entry, of which only
\* that it is there is modelled: it names the targets, not the cascade.  Nothing
\* catches an error of the journal's database, here or when the entry is closed: it
\* ends the application, as Quit may do at each of these points.
StartJournal(r) ==
  /\ running = "yes"
  /\ phase[r] = "planned"
  /\ \/ /\ Goto(r, "over")
        /\ UNCHANGED journal
     \/ /\ Goto(r, "journalled")
        /\ journal' = [journal EXCEPT ![r] = "started"]
  /\ UNCHANGED <<helperVars, windowVars, target, shown, generation, plan, clientVars,
                 refreshVars, observerVars>>

\* remove_packages() sets the handler slot and sends the call, or cannot.
Send(r) ==
  /\ running = "yes"
  /\ phase[r] = "journalled"
  /\ \/ /\ handler' = r
        /\ pending' = pending \cup {r}
        /\ overlapped' = IF pending = {} THEN overlapped ELSE overlapped \cup pending \cup {r}
        /\ Goto(r, "called")
        /\ UNCHANGED journal
     \/ /\ handler' = NoRemoval
        /\ journal' = [journal EXCEPT ![r] = "failed"]
        /\ overlapped' = overlapped \cup pending
        /\ Goto(r, "over")
        /\ UNCHANGED pending
  /\ UNCHANGED <<helperVars, windowVars, target, shown, generation, plan,
                 refreshVars, approved, undone, drifted>>

\* Mutant of AfterSuccess: the rows are left to the refresh.
SuccessKeepsRows(r, gone) ==
  /\ journal' = [journal EXCEPT ![r] = "done"]
  /\ refresh' = [refresh EXCEPT ![r] = "reading"]
  /\ undone' = undone \cup {w \in Refreshes : refresh[w] = "read"}
  /\ Goto(r, "over")
  /\ UNCHANGED rows

\* _after_removal() of removal r, with a reply that says ok and names `gone`.
AfterSuccess(r, gone) ==
  /\ journal' = [journal EXCEPT ![r] = "done"]
  /\ rows' = rows \ gone
  /\ refresh' = [refresh EXCEPT ![r] = "reading"]
  /\ undone' = undone \cup {w \in Refreshes : refresh[w] = "read"}
  /\ Goto(r, "over")

\* ... and with any other reply: no refresh.
AfterFailure(r) ==
  /\ journal' = [journal EXCEPT ![r] = "failed"]
  /\ Goto(r, "over")
  /\ UNCHANGED <<rows, refresh, undone>>

\* The helper has sent the reply of r.
Answered(r) ==
  /\ status[r] \in {"removed", "failed"}
  /\ \A i \in 1..Len(nest) : nest[i] # r

\* Mutant of DeliverReply: the slot is not emptied.
DeliverAndKeep(r) ==
  /\ AtEventLoop
  /\ r \in pending
  /\ Answered(r)
  /\ pending' = pending \ {r}
  /\ IF handler = NoRemoval
     THEN UNCHANGED <<journal, rows, refresh, undone, phase>>
     ELSE IF status[r] = "removed" THEN AfterSuccess(handler, asked[r])
                                   ELSE AfterFailure(handler)
  /\ UNCHANGED <<helperVars, running, packages, previews, target, shown, generation, plan,
                 handler, reread, approved, overlapped, drifted>>

\* on_reply(): the slot is emptied and what was in it gets the reply of call r.
DeliverReply(r) ==
  /\ AtEventLoop
  /\ r \in pending
  /\ Answered(r)
  /\ pending' = pending \ {r}
  /\ handler' = NoRemoval
  /\ IF handler = NoRemoval
     THEN UNCHANGED <<journal, rows, refresh, undone, phase>>
     ELSE IF status[r] = "removed" THEN AfterSuccess(handler, asked[r])
                                   ELSE AfterFailure(handler)
  /\ UNCHANGED <<helperVars, running, packages, previews, target, shown, generation, plan,
                 reread, approved, overlapped, drifted>>

\* Mutant of TimeOut: no answer is taken for success.
TimeOutIsSuccess(r) ==
  /\ AtEventLoop
  /\ r \in pending
  /\ pending' = pending \ {r}
  /\ handler' = NoRemoval
  /\ IF handler = NoRemoval
     THEN UNCHANGED <<journal, rows, refresh, undone, phase>>
     ELSE AfterSuccess(handler, asked[r])
  /\ UNCHANGED <<helperVars, running, packages, previews, target, shown, generation, plan,
                 reread, approved, overlapped, drifted>>

\* Mutant of TimeOut: the handler is dropped, not called.
TimeOutInSilence(r) ==
  /\ AtEventLoop
  /\ r \in pending
  /\ pending' = pending \ {r}
  /\ handler' = NoRemoval
  /\ UNCHANGED <<helperVars, windowVars, removalVars, refreshVars, observerVars>>

\* on_error(): 300 s have passed while the helper goes on, or the bus could not
\* deliver the call.  A reply that _decode_message() refuses, such as one of more
\* than 512 names, has this effect too.
TimeOut(r) ==
  /\ AtEventLoop
  /\ r \in pending
  /\ pending' = pending \ {r}
  /\ handler' = NoRemoval
  /\ IF handler = NoRemoval
     THEN UNCHANGED <<journal, rows, refresh, undone, phase>>
     ELSE AfterFailure(handler)
  /\ UNCHANGED <<helperVars, running, packages, previews, target, shown, generation, plan,
                 reread, approved, overlapped, drifted>>

\* apply() of refresh_state(): the snapshot and all the rows are replaced.
ApplyRefresh(w) ==
  /\ AtEventLoop
  /\ refresh[w] = "read"
  /\ packages' = [present |-> reread[w], full |-> TRUE]
  /\ rows' = reread[w]
  /\ refresh' = [refresh EXCEPT ![w] = "over"]
  /\ UNCHANGED <<helperVars, running, previews, removalVars, clientVars, reread, observerVars>>

\* The application ends or is killed, in the middle of a handler too.
Quit ==
  /\ running = "yes"
  /\ running' = "quit"
  /\ UNCHANGED <<helperVars, packages, rows, previews, removalVars, clientVars, refreshVars,
                 observerVars>>

-----------------------------------------------------------------------------
(* Worker threads. *)

\* _prepare_pacman_plan(): read everything, unless the target is gone or an
\* error ends the analysis.
ReadPackages(r) ==
  /\ running = "yes"
  /\ phase[r] = "reading"
  /\ \/ /\ target[r] \in installed
        /\ shown' = [shown EXCEPT ![r] = NewOrphans(Snapshot(installed, TRUE), target[r])]
        /\ Goto(r, "stamping")
     \/ /\ Goto(r, "over")
        /\ UNCHANGED shown
  /\ UNCHANGED <<helperVars, windowVars, target, generation, plan, journal, clientVars,
                 refreshVars, observerVars>>

\* Mutant of ReadGeneration: off by one.
ReadEarlierGeneration(r) ==
  /\ running = "yes"
  /\ phase[r] = "stamping"
  /\ generation' = [generation EXCEPT ![r] = dbGen - 1]
  /\ Goto(r, "analysed")
  /\ UNCHANGED <<helperVars, windowVars, target, shown, plan, journal, clientVars,
                 refreshVars, observerVars>>

\* ... and after the leftover scan, the generation.
ReadGeneration(r) ==
  /\ running = "yes"
  /\ phase[r] = "stamping"
  /\ generation' = [generation EXCEPT ![r] = dbGen]
  /\ Goto(r, "analysed")
  /\ UNCHANGED <<helperVars, windowVars, target, shown, plan, journal, clientVars,
                 refreshVars, observerVars>>

\* Mutant of ReadForRefresh: an error is applied as an empty list.
ReadNothingOnError(w) ==
  /\ running = "yes"
  /\ refresh[w] = "reading"
  /\ refresh' = [refresh EXCEPT ![w] = "read"]
  /\ reread' \in {[reread EXCEPT ![w] = present] : present \in {installed, {}}}
  /\ UNCHANGED <<helperVars, windowVars, removalVars, clientVars, observerVars>>

\* read() of refresh_state(); an error is only logged.
ReadForRefresh(w) ==
  /\ running = "yes"
  /\ refresh[w] = "reading"
  /\ \/ /\ refresh' = [refresh EXCEPT ![w] = "read"]
        /\ reread' = [reread EXCEPT ![w] = installed]
     \/ /\ refresh' = [refresh EXCEPT ![w] = "over"]
        /\ UNCHANGED reread
  /\ UNCHANGED <<helperVars, windowVars, removalVars, clientVars, observerVars>>

-----------------------------------------------------------------------------
(* The helper, libalpm and the other package manager. *)

outsideVars == <<windowVars, removalVars, clientVars, refreshVars, observerVars>>

\* The local database changes, and with it the generation: two changes within the
\* granularity of a directory's mtime, which the gate cannot tell apart, are left out.
Touch ==
  /\ dbGen' = dbGen + 1
  /\ drifted' = drifted \cup {r \in Removals : phase[r] = "stamping"}
  /\ UNCHANGED <<windowVars, removalVars, clientVars, refreshVars, approved, overlapped, undone>>

\* The call arrives in the innermost event loop and nests one of its own.
Receive(r) ==
  /\ r \in pending
  /\ Helper!Submit(r)
  /\ asked'[r] = plan[r]
  /\ nest' = Append(nest, r)
  /\ UNCHANGED <<dbGen, pacmanRuns, outsideVars>>

\* Only the innermost event loop can return.
Answer(r) ==
  /\ nest # <<>>
  /\ nest[Len(nest)] = r
  /\ status[r] \in {"removed", "failed"}
  /\ nest' = SubSeq(nest, 1, Len(nest) - 1)
  /\ UNCHANGED <<installed, dbGen, holder, asked, status, pacmanRuns, outsideVars>>

\* Mutant of Grant: the generation is not compared.
GrantStale(r) ==
  /\ Helper!Authorize(r)
  /\ asked[r] \subseteq installed
  /\ UNCHANGED <<dbGen, nest, pacmanRuns, outsideVars>>

\* polkit and the staleness gate let a call through.
Grant(r) ==
  /\ Helper!Authorize(r)
  /\ generation[r] = dbGen
  /\ asked[r] \subseteq installed
  /\ UNCHANGED <<dbGen, nest, pacmanRuns, outsideVars>>

Begin(r) ==
  /\ Helper!Begin(r)
  /\ UNCHANGED <<dbGen, nest, pacmanRuns, outsideVars>>

\* libalpm's prepare() refuses what would break a package that stays.
RemoveOne(r) ==
  /\ Helper!RemoveOne(r)
  /\ installed' # installed
  /\ \A q \in installed \ asked[r] : StillWorks(Snapshot(installed, TRUE), q, asked[r])
  /\ Touch
  /\ UNCHANGED <<nest, pacmanRuns>>

Succeed(r) ==
  /\ Helper!Succeed(r)
  /\ UNCHANGED <<dbGen, nest, pacmanRuns, outsideVars>>

\* Denied, stale, busy, refused, interrupted or failed half way.
Fail(r) ==
  /\ Helper!Fail(r)
  /\ UNCHANGED <<dbGen, nest, pacmanRuns, outsideVars>>

PacmanBegin ==
  /\ pacmanRuns < MaxPacman
  /\ Helper!OtherBegin
  /\ pacmanRuns' = pacmanRuns + 1
  /\ UNCHANGED <<dbGen, nest, outsideVars>>

\* It leaves no dependency unsatisfied.
PacmanEnd ==
  /\ Helper!OtherEnd
  /\ \A q \in installed' : \A d \in World.depends[q] :
       \E p \in installed' : Satisfies(World, p, d)
  /\ Touch
  /\ UNCHANGED <<nest, pacmanRuns>>

-----------------------------------------------------------------------------
Next ==
  \/ \E r \in Removals :
       \/ StartAnalysis(r) \/ ShowPreview(r) \/ Reject(r) \/ Accept(r)
       \/ StartJournal(r) \/ Send(r) \/ DeliverReply(r) \/ TimeOut(r)
       \/ ReadPackages(r) \/ ReadGeneration(r)
       \/ Receive(r) \/ Answer(r) \/ Grant(r) \/ Begin(r) \/ RemoveOne(r) \/ Succeed(r) \/ Fail(r)
  \/ \E w \in Refreshes : ReadForRefresh(w) \/ ApplyRefresh(w)
  \/ Quit
  \/ PacmanBegin \/ PacmanEnd

Spec == Init /\ [][Next]_vars

-----------------------------------------------------------------------------
(* Properties. *)

\* Whatever went without another package manager was planned by a removal that the
\* journal has: its entry, which names the target but not the orphans that go with
\* it, is on disk before the helper can act.
LossesAreJournalled ==
  pacmanRuns = 0 =>
    \A p \in World.present \ installed :
      \E r \in Removals : p \in plan[r] /\ journal[r] # "absent"

\* The client hands each reply to the removal it answers, so the journal says
\* "done" only of a removal that the helper completed.
RepliesReachTheirRemoval ==
  \A r \in Removals : journal[r] = "done" => status[r] = "removed"

\* That goes wrong only for removals sent while another was pending.
OnlyOverlapsMisdeliver ==
  \A r \in Removals \ overlapped : journal[r] = "done" => status[r] = "removed"

\* on_finished runs once per removal, although a time-out and replies of other
\* calls use the same slot: a journal entry that is closed stays as it is.
ClosedOnce ==
  [][\A r \in Removals : journal[r] \in {"done", "failed"} => journal'[r] = journal[r]]_vars

\* A removal that waits, and did not overlap with another, is the one that the
\* next reply or time-out will be given to, and one of them is still to come.
WaitingOwnsTheSlot ==
  \A r \in Removals \ overlapped : phase[r] = "called" => handler = r /\ r \in pending

\* After success the removed package is gone from the table.  Only a refresh
\* that had read before the removal and is applied after it brings it back.
OnlyOldReadsRestoreRows ==
  pacmanRuns = 0 =>
    \A r \in Removals \ overlapped :
      journal[r] = "done" /\ target[r] \in rows =>
        \E w \in undone : refresh[w] = "over" /\ target[r] \in reread[w]

\* A package that is gone stays in the table only while the answer is to come, after
\* a failure, which reports a partial removal and a time-out alike and starts no
\* refresh, and where an old read or an overlap got in the way.
GoneRowsHaveACause ==
  pacmanRuns = 0 =>
    \A p \in rows \ installed : \E r \in Removals :
      /\ p \in asked[r]
      /\ \/ phase[r] = "called" \/ journal[r] = "failed" \/ r \in overlapped
         \/ \E w \in undone : refresh[w] = "over" /\ p \in reread[w]

\* The uncaught exception of _show_preview() takes another removal of the same
\* package, while the preview is open, or another package manager.
CrashesHaveACause ==
  running = "crashed" /\ pacmanRuns = 0 =>
    \E r, q \in Removals : r # q /\ phase[r] = "previewing" /\ target[r] \in asked[q]

\* Computed now, the preview of r would list what it did list.
StillAsShown(r) ==
  /\ target[r] \in installed
  /\ shown[r] = NewOrphans(Snapshot(installed, TRUE), target[r])

\* When the helper lets a removal through, the system still is as the preview has
\* shown it, unless it changed between the two reads of the analysis: the gate covers
\* the time the preview is open and the call is under way.
GrantedAsShown ==
  [][\A r \in Removals :
       status[r] = "submitted" /\ status'[r] = "authorized" =>
         r \in drifted \/ StillAsShown(r)]_vars

\* D3: no "approve A, execute B".  When the helper begins to remove, at least one of
\* two things holds: it was sent what the preview listed and the user approved, or the
\* system still is as the preview showed it.
NeverApproveAExecuteB ==
  [][\A r \in Removals :
       status[r] = "authorized" /\ status'[r] = "removing" =>
         asked[r] = approved[r] \/ StillAsShown(r)]_vars
=============================================================================
