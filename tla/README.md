# Verification of CachyUninstall in TLA+

CachyUninstall removes packages from an Arch-like system: a Qt desktop program and a
command line, running as the user, plan a removal and send it over D-Bus to a
privileged helper, which asks polkit and drives libalpm. This directory models the
removal path: planner, desktop flow with its client, command line, helper service with its
libalpm backend, and the contract between the two sides; which places in the user's home
a scan offers as leftovers; and the cleanup that removes what was selected. TLC checks
small instances, TLAPS proves the safety properties for every value of the constants. Source paths below are
relative to `src/src/cachyuninstall/`.

## 1. Inventory of the system

| Part | State it keeps | Operations |
|---|---|---|
| Planner (`core/planner.py`, `core/models.py`) | none; local sets of the fixpoint loop | `analyze`, `build_plan`, `_orphans_after` |
| Package database session (`core/alpm_session.py`) | a read-only libalpm handle, owner index | `packages` (full, light, or a fallback record), `generation`, `refresh_owner_index` |
| Helper service (`privilege/service.py`) | nested event loops, one worker thread per removal | `Call`, `_run_removal`, signals |
| Helper core (`privilege/helper.py`) | none of its own | `handle`: decode, authorize, staleness gate, remove |
| libalpm backend (`privilege/backend.py`) | cached handle and its generation, current transaction, interrupt flag | `generation`, `is_installed`, `remove`, `request_interrupt` |
| Wire protocol (`privilege/protocol.py`) | none | encode and decode requests and replies, with limits |
| Helper client (`privilege/client.py`) | one reply handler, one progress handler | `is_available`, `remove_packages`, `on_reply`, `on_error`, `cancel_current` |
| Desktop removal flow (`ui/main_window.py`, `ui/preview_dialog.py`, `ui/progress_dialog.py`, `ui/workers.py`, `app.py`) | `AppState.packages`, table rows, open dialogs, workers in flight | select, analyse, preview, accept, execute, after removal, refresh |
| History and journal (`persistence/history.py`) | SQLite tables `history` and `journal` | `journal_start`, `journal_finish`, `record`, `unfinished` |
| Command line (`cli.py`) | none | `run_cli`: listings, dry run, leftovers; `run_remove`: analyse, prompt, plan, blocking call |
| Cleanup and quarantine (`core/filesystem.py`, `core/paths.py`) | quarantine directories, each with a JSON manifest | `execute`, `store`, `restore`, path classification, `delete_tree_fd` |
| Leftover detection (`core/leftovers.py`, `core/identity.py`, `core/ownership.py`) | none | `identity_for_package`, the rules' `discover`, `scan`: candidates with a confidence |
| Other providers (`providers/`) | none | enumeration, `flatpak uninstall` |
| Settings, theme, table model, details panel | one JSON file, widgets | layout, filtering |

How they interact. The GUI thread starts workers on the global thread pool, whose
results come back as queued signals. An analysis worker reads the package database and
computes the impact; the GUI shows it in a modal dialog, builds the plan from
`AppState.packages`, writes a journal entry and sends a D-Bus call whose answer arrives
through one handler slot. The helper runs each call in a thread of its own, all on one
backend object, and nests one event loop per call. A success starts a refresh worker.
An analysis also scans for leftovers; what was ticked in the preview is cleaned up after a
success, in the GUI thread, and the cleanup tab runs scans and cleanups of its own in
workers. The command line does one removal per process and blocks on the prompt and the call.
Any other package manager works on the same database under libalpm's lock.

What is hard about it.

* Planner: provisions, versions, circular and shared dependencies, a loop that adds
  to the set it iterates over. Correct means that a plan breaks no package that stays,
  and that the cascade is exactly what the removal leaves without users.
* Helper: calls share the cached handle, its callbacks, `self._transaction` and the
  interrupt flag; any libalpm call may fail; the database changes before the lock is
  taken. Correct means that the lock is held exactly during a transaction, no cache is
  stale, only named packages go, "ok" means all are gone and no error was logged, every
  call ends and is answered.
* Desktop and client: analysis, preview, answer and refresh of several removals
  interleave; calls time out while the helper goes on; the program may die in between.
  Correct means that intent is journalled before any loss, each entry is closed once
  and truthfully, what is sent is what was approved, what the helper lets through still is
  as the preview showed it, rows of removed packages go and stay away, and the window
  does not end with an exception that no user caused.
* Command line: the prompt may take any time, and the plan is computed again after it.
  Correct means that what is sent is what was printed, that exit codes are true, and that a
  command that asks nothing ends.
* Leftover detection: rules find places by one name, vetoes ask for others; identities may
  be missing or unreadable. Correct means that what another package owns, uses or keeps
  inside is never offered, and that knowing more only vetoes more.
* Cleanup: the file system changes between scan, capture, check and move; a move and
  its manifest entry can be torn apart; two cleanups may run at once; packages come and go after
  the scan. Correct means that only what was checked is touched, that nothing shared
  or replaced is, that every touch is reported, and that what is in quarantine is
  kept and listed.
* Journal: entries left open by a crash must be visible after a restart;
  `unfinished()` has no caller.

`PROJECT.json` lists every hazard at its source line, with the properties that cover it
or the reason why none does yet.

## 2. Modules

| Module | What it is |
|---|---|
| `RemovalContract` | what the helper promises: authorize, own the database, remove named packages one by one, succeed only if all are gone, or fail at any time; and what a caller may conclude from that |
| `RemovalHelper` | service, core and backend in detail; `ImplementsContract` maps it to the contract |
| `PackageSnapshot` | package records, provider index, reverse dependencies, and reference definitions of what a planner should compute |
| `RemovalPlanner` | `build_plan`, one action per loop step |
| `DesktopRemoval` | window, client, journal and refresh workers over `RemovalContract` and `PackageSnapshot` |
| `CommandLine` | the commands as processes, over `RemovalContract` and `PackageSnapshot` |
| `LeftoverRules` | identities, rules, path policy, ownership and sharing, as pure operators |
| `LeftoverScan` | `LeftoverScanner.scan` over them, one rule per step |
| `Cleanup` | scans, the tab's list, the preview's selection, cleanups, the quarantine, other programs |
| `MCRemovalHelper`, `MCRemovalPlanner`, `MCDesktopRemoval`, `MCCommandLine`, `MCLeftoverScan`, `MCCleanup` | values, symmetry and views for TLC |
| `ContractProofs`, `RemovalHelperProofs`, `RemovalRefinement`, `RemovalPlannerProofs`, `DesktopProofs`, `CommandLineProofs`, `LeftoverProofs`, `CleanupProofs` | theorems |

Composition. `RemovalHelper` is shown, by TLC on two calls and by TLAPS in general, to
implement `RemovalContract`. `DesktopRemoval` takes the contract's actions
for its helper, so it holds for any helper that keeps the contract, threads and
handles left out; that what it adds only restricts the contract is proved
(`DesktopKeepsContract`, `CommandsKeepContract`). It adds what the contract leaves open and the desktop depends on:
the staleness gate (in `Grant`), libalpm's refusal to break what stays (in
`RemoveOne`), and the stack of event loops that decides when a reply is sent
(`Receive`, `Answer`). `CommandLine` takes the contract in the same way, with the gate, the
limits of `privilege/protocol.py` and libalpm's refusal; how long a reply takes it leaves
open, which covers the nested loops. For the planner, both take its result
(`Blockers`, and `NewOrphans`, the least closed set), which `CallersPlanAsThePlanner` shows
the loop to give.
`Cleanup` takes the removal before a cleanup as one step in which any packages go: which
ones is the business of `DesktopRemoval`, and its `Rate` is that of `LeftoverRules` with
policy, rules and ownership folded into the constant `Layout`.

### RemovalHelper

State: the database (`installed`, `dbGen` = mtime, `lock`), the backend's four fields,
libalpm handles (their package cache, log callback and open transaction), one record of
local variables per call, and the main thread (`main`, `loops`, `quit`, `answered`).
One action is one stretch that other threads cannot see the middle of: each access to
an `AlpmBackend` field and each call into libalpm is a step of its own.
`Receive`, `EnterLoop`, `LeaveLoop` and `ReturnReply` are `_run_removal`; between the last two
lies `thread.wait(30000)`, during which the main thread handles no event. `RejectMalformed` to
`CheckStale` are `HelperCore.handle` and `_remove`; `ReadGeneration`, `TestHandle`,
`MatchGeneration`, `OpenHandle` and `PublishGeneration` are `_ensure_handle`, with `Return` as
its end; `CheckInstalled` to `DropHandle` follow
`AlpmBackend.remove` line by line, its `except` and `finally` included (`init` fails because
the lock is held, or for any other reason); `CancelSetFlag` and `CancelInterrupt` are
`request_interrupt`, run by the main thread. Reading the field in `return self._handle` is merged with the call
into libalpm that uses it. The observers `granted`, `logged` and `crossed` (the calls whose
handle another call has wired for itself meanwhile) are read by properties only.

### RemovalPlanner

The actions are the statements of `build_plan`: missing targets, blockers, the three
nested loops of `_orphans_after`, `kept_shared`, the result. Iteration over Python sets
is a nondeterministic choice. A name or dependency is a token (base name, version or
none); `Get` strips versions and takes the first provider, as `PackageSet.get` does,
while `RequiredBy` compares them, as libalpm does. A light snapshot has no reverse dependencies.
A package in `broken` has an entry that cannot be read: `_fallback_record` makes it explicit,
without dependencies, provisions or users: as a target it looks unused, and what it alone
needs does not join the cascade. libalpm's `prepare` still refuses to break its users.

### DesktopRemoval

A GUI action is what the GUI thread does without returning to an event loop, split
where a crash leaves something behind: `StartJournal` and `Send` are two
steps although one handler runs both. The steps of a removal are `StartAnalysis`, `ReadPackages`,
`ReadGeneration` (worker), `ShowPreview`, `Accept` or `Reject`, `StartJournal`, `Send`,
then `DeliverReply` or `TimeOut`. Preview dialogs nest (`previews`), because a second
analysis may end while a preview is open. `handler` is the client's one slot; `pending`
the calls that have neither reply nor time-out. `Accept` has the four ends the code
has: plan with or without orphans, blocked, or an uncaught `PackageNotFound`, which
ends the program (`running = "crashed"`). `Quit` may come at any point. `ReadForRefresh`
and `ApplyRefresh` are the two halves of `refresh_state`, started by start-up and by
each success; their order is free. Observers: `approved`, `overlapped`, `undone`, and
`drifted`, the removals whose packages changed between the two reads of their analysis.
Of a journal entry only its existence and its end are modelled: it names the targets, not the
orphans that go with them. A reply that `_decode_message` refuses (more than 512 names) ends a
removal exactly as a time-out does, and an sqlite error in `journal_start`, which nobody
catches, exactly as `Quit` does.

### CommandLine

Each command is a process with its arguments (`line`) that is started once. `Operation` is the
order in which `run_cli` tests its options (so `--remove` with `--dry-run` removes).
`ReadPackages`, `Analyze`, `Confirm`, `Ping`, `BuildPlan`, `Send`, `GetReply` are `run_remove`
from top to bottom; `Refusal` is what `analyze` raises, with the `KeyError` of a name that is
only provided, which nobody catches. The generation is read in `BuildPlan`, after the prompt.
`TimeOut` is the end of the 300 s or an undelivered call; `Kill` an interrupt or a kill at any
time, after which a call that was sent stays sent. `GetReply` contains `decode_reply`,
which refuses more than `MaxNames` removed names. Observer: `late`.

### LeftoverRules and LeftoverScan

A file name is a sequence of words between dots, so that `Stem`, `Tail1` and the suffixes are
what `pathlib` and `str.split` make of them; `Lower` is any idempotent map on words.
`IdentityOf` is what `identity_for_package` gathers from a package's file list and menu
entries, `CandidateNames` the names it goes by; `Discover` says what the rule for a
directory finds, `Allowed`, `Owners` and `SharedWith` are the three vetoes, `Rating` is the
result. `LeftoverScan` reads a system and runs the rules in the order of `ALL_RULES`; `Read`
chooses which identities are at hand: all of them, as for an analysis or the command line,
none, as for the tab before the first refresh, or any others, when packages came since.

### Cleanup

The disk is a map from paths to objects (device and inode), with the entries of each
directory; `stash` is what lies in the quarantine directories, `manifest` all their entries.
`ScanFor` is `scan`: `Matched` what the rules discover with the identities at hand, `Rate` the
three vetoes and the confidence. `Scan` runs it in a worker of the tab, for a package the tab
offers (those installed at start-up) with the identities the window has by then; `Analyse` in
the analysis of a removal, with those of all installed packages. `ReadIdentities` and
`Enrich` are the two halves of `refresh_state`; it may start at any time, as it does after
every removal, of Flatpak applications too.

`ShowScan` replaces the tab's list, and `RunCleanup` maps checked rows to candidates by
index, over two lists that are filtered differently, as `_run_cleanup` does. `AcceptPreview`
keeps the candidates that were ticked; `Remove` and `AfterRemoval`, or `NotRemoved`, are the
removal in between, and while such a cleanup runs the GUI thread does nothing else (`Busy`).
A cleanup goes through `Capture` (policy, `lstat`), `Verify`, then `Move` and `Record`, or
`List`, `Unlink` once per entry, and `Rmdir`; `Fail` may follow any of them, `Refuse` stands for
an item that is not there or not allowed. Renames and deletions act on what the path names
at that moment, not on what was verified. Between any two steps the other cleanup, the window,
or another program (`OthersRemove`, `OthersCreate`, `OthersWrite`, `OthersInstall`,
`OthersUninstall`) may come. The application may die anywhere; as nothing reads the
quarantine back, such a behaviour is one that ends there, and the invariants cover it. A
file is a directory without entries; deeper trees repeat `List` to `Rmdir` one level down
and are left out. Observers: `sighted`, `seen`, `present`, `approved`, `touched`, `unreadable`.

### External behaviour assumed

Modelled from how the code uses it: polkit says yes or no, and a D-Bus time-out counts
as no; a libalpm handle caches the database when opened, holds one transaction, takes
the lock in `init`, removes one package at a time in `commit`, may log an error without
raising one, and raises from an interrupted commit (as `backend.py:171-173`
expects); `prepare` rejects what breaks dependencies of packages that stay; another
package manager takes the same lock and leaves dependencies satisfied. `_done` in
`service.py` is a plain function connected to a signal of an object in the worker
thread, so it runs there. A call for which the client was told of an error is
not delivered to the helper afterwards: the helper's event loop always takes calls, and
the bus gives up on an undelivered one long before 300 s. For `Cleanup`, another
program creates objects at a path of their own (`Home`) and moves none from one
candidate to another; `rename` and `os.replace` are atomic. `rename` is taken to replace what
is at its target, which it refuses for a directory that is not empty: the model allows more. A
manifest that is not UTF-8 is not modelled apart from one that cannot be read. `release` fails only where no
transaction is open, so that the exception `backend.py:178-181` ignores leaves no lock behind.
Two changes of the database have different mtimes, as `docs/SECURITY.md:16` takes for granted.

## 3. Runs

| Run | Question | Result |
|---|---|---|
| `helper` | two concurrent calls, every form of message, failures and cancels at any time, another package manager: lock, `self._transaction`, cached handle, logged errors, refinement of the contract, answers | holds |
| `planner_worlds` | all graphs with up to three edges on four packages, provisions in two versions: plans break nothing, least closure, termination | holds |
| `desktop` | two removals, start-up refresh, time-outs, crash, one foreign transaction: journal, slot, rows, uncaught exception, what the gate covers | holds |
| `command_line` | two commands, prompts, time-outs, interrupts, one foreign transaction: what is sent, exit codes, losses, uncaught exceptions, every command ends | holds |
| `leftovers` | scans of three packages with like names over a home full of places: sharing and its gaps, what a directory holds, monotone vetoes | holds |
| `cleanup` | two cleanups, of the tab or after a removal, of two scans, with or without quarantine, one change by other programs: only what was checked, nothing a scan could spare, reports, quarantine, manifest | holds |
| `helper_hang` | is every call answered? | violated |
| `helper_cross_log` | two calls: is a logged error never a success? | violated |
| `desktop_replies` | does each reply reach its removal? | violated |
| `desktop_stale` | does the helper only remove what was approved, or from a system that still is as it was shown? | violated |
| `cleanup_second_look` | is what was replaced since the scan, and is another package's by now, left alone? | violated |
| `planner_providers` | does only go along what something that goes depended on? | violated |

### Bounds, and why they are enough

* `Calls`: two, and one in `helper_hang`. Every clash in the backend is between two threads over
  a field, and two loops are enough to nest; the proofs cover any number. `Handles`: one more
  than calls, so a fresh handle is
  always there while each call holds one (`Unused` recycles them as reference counting does).
* `Pkgs`: two, so that a commit can stop half way. `Forms`: all three; `helper_cross_log` sends
  good messages only, which is all its question needs.
* `MaxRuns`: two, over calls and foreign transactions together: two calls, each of
  which is the other's foreign transaction; or one call and a foreign transaction before,
  during or after it; the proofs include any number of both. Which call comes first is arbitrary
  (`Receive` takes them in a fixed order), as they differ in nothing but their names.
* `MaxPacman`: one in `desktop`, `desktop_stale` and `command_line`, none in `desktop_replies`,
  which needs none.
* `Worlds`, `Requests`: `MCRemovalPlanner` enumerates graphs (chains, cycles, sharing,
  missing dependencies) with full, light and fallback records, and worlds with versioned
  provisions; targets are one package, two, or a virtual name (which ends in `KeyError`).
  `planner_providers` takes of the latter those in which every dependency is satisfied
  (`AmbiguousWorlds`), as a package manager leaves a system.
* `desktop` has an application and its dependency: the smallest system with a cascade.
  `desktop_stale` needs a shared dependency, so four packages.
* `command_line` has an application, its dependency and a provider of a virtual name. One
  command runs over lines with and without `--yes` and the orphans, over names that are
  used, only provided and unknown, over other options and two at once; beside it a removal
  with the cascade. `MaxNames` is one, so that a reply with two names is too long.
* `leftovers` enumerates records of the scanned package (spellings, menu entries that parse or do
  not, names that other things have), of a second one (which shares names, owns files in the
  home, or is unreadable) and of a third, with places of every kind in every directory.
* `cleanup` has two paths: a directory named after the application, and a launcher named like
  a second application, whose package has files there. Two scans and two cleanups, each of
  either kind, because the run button stays enabled and a preview may be open beside the tab.
  `MaxChanges` is one: beside the other cleanup, one object goes, comes or is written to, or
  one package is installed or removed, at any point.
  `cleanup_second_look` needs three changes: an object goes, another takes its place, and the
  package it then belongs to is installed. One scan and one cleanup are enough for it.
* `MaxRuns`, `MaxPacman`, `MaxChanges` and the finite sets of calls, removals and commands are the only caps on
  counters: generations grow by one per removed package or foreign transaction. `desktop` and
  `command_line` start each removal or command once.

Symmetry is used only in runs without liveness, and no action names a
package, removal or execution, nor a call but by that fixed order. `LiveState` of
`MCRemovalHelper` keeps of a handle which calls still work with it and whose errors it collects
(its cache is read through the backend's field only), of a generation which others
it equals, of a package where it is, of a result whether it is "ok", and of a local variable,
a message or an observer nothing once no step and no property reads it. States with the same view have the same steps, by the same
threads, to states with the same views (the view is a bisimulation), so it is sound for
liveness, too. `LiveState` of `MCDesktopRemoval` keeps of a generation only whether it is
current, of `shown` and `reread` what is still going to be read, and after the
window's end only what plans, journal and the helper need: those invariants speak of
values that no longer change then. `LiveState` of `MCCleanup` drops the objects a scan saw,
which only `ReplacedAndOthersIsSpared` asks for (its run has no view), what was born when no more can be, the
entries of objects that are neither at a path nor open, packages and identities once every
scan was made, the window once every cleanup has begun, and of a scan's observers all but
which selected path the scan had a reason to spare.

### Fairness

Only `helper`, `helper_hang`, `planner_worlds` and `command_line` have liveness. In the helper:
weak fairness of every worker thread and of the main thread in a handler, that is of entering an
event loop, of ending the wait for a thread and of ending a cancel (the operating system
schedules both kinds of thread, polkit answers or times out, and the wait has a limit), and
strong fairness of leaving a loop that was told to quit (an event loop does so after the events
at hand, however many cancels come). Nothing is asked of the foreign package manager: it may keep
the lock for ever, since a call that finds it taken fails at once
and waits for nobody. Nobody has to send anything. In the planner: one thread that runs. A
command: weak fairness of its own steps, the prompt's only with `--yes`, and of the
time-out of a call, which is the client's own; nothing is asked of the helper, so
`CommandsEnd` holds whatever it does. The desktop has no fairness: a user need not answer,
so nothing is promised to happen; scans and cleanups neither. Deadlock is checked for the
helper; a finished planner, command, scan or cleanup and a closed window may stop.

## 4. What the violated runs say

* `CallerNeverHangs`: a worker that ends before `loop.exec()` has called `quit()` too
  early. What holds is `AnsweredIfHeard`: entering the loop so late is the only thing that makes a
  call hang, and every call is answered in the end unless its own loop, or that of a later call
  nested in it, hangs. One lost wake-up thus keeps back the replies of all the calls outside it.
  Proved are the first half (`OnlyEarlyWakeUpsAreLost`), and that nothing ever wakes a hung
  call, nor the calls in whose loops it is nested (`LostWakeUpsAreForEver`).
* `LoggedErrorsAreReported`: a second call rewires the callbacks of the
  shared handle while the first commits. What holds, and is proved for any number of calls, is
  `OnlySharingHidesErrors`: a success that passes over a logged error takes a call whose handle
  another has wired for itself meanwhile.
* `RepliesReachTheirRemoval`: a second removal overwrites the slot. What holds, and is
  proved, is `OnlyOverlapsMisdeliver`.
* `NeverApproveAExecuteB`: two defences are to keep what is executed what was approved. The plan
  is the preview's, or at least the system still is as the preview showed it. Neither is kept: the plan is built from
  the window's packages, which during start-up are light records in which nothing is required by
  anything, and the helper compares generations before it resolves names and takes the lock, and never again.
  The run lets both fail in one removal. A generation that is read after the packages it vouches for is a third way
  past the second defence (`main_window.py:375`; `cli.py:212` reads it after the prompt, so
  the gate does not cover the time a user of the command line thinks at all). What holds, and is proved, is
  `CurrentPlansAreAsApproved`: plan and preview differ only if the packages changed during the
  analysis or after it, or the window does not hold full records of what is installed.
* `ReplacedAndOthersIsSpared`: an object that took the place of the approved one could be stopped
  by an identity taken when the user saw the list, or by a second look at the
  vetoes. The identity that `verify_identity` compares with is captured when the cleanup runs, and
  of the vetoes only the path policy is asked again. A change after the check (between `Verify` and `Move`)
  is not noticed either; `QuarantineLosesNothing` still holds then. What holds, and is proved:
  `OnlyReplacedIsMistaken` (as long as nobody puts a new object at a path, what is proven
  there is what was approved there) and `OnlyUnseenAreHurt` (what the scan could know to be
  another package's is spared), which is what vetoes checked once can achieve.
* `FirstProviderIsHarmless`: `get` strips versions and takes the first provider of a base name. A
  target that needs `x=v1` of b then takes c along, which provides x without a version, is required by
  nothing, and was never used by the target. What holds, and is proved, is that a plan breaks nothing that
  stays (`PlanBreaksNothing`), and that the loop, given what `get` says,
  computes the least closure (`RemovedIsLeastClosure`): the latter is about the loop and not about `get`.

What the desktop's gate does promise is `GrantedAsShown`: when a call is authorized, the packages are
those of the preview, or they changed between the two reads of the analysis. Of the command line
nothing like it is stated, as the generation is read after the prompt. Of vetoes that
are checked when the scan runs and never again, `OnlyGapsInSharing` and `OnlyUnseenAreHurt` say what is left.

Smaller disagreements, without a run of their own: `history.py:4-6` speaks of entries
found after a crash, but `unfinished()` has no caller; `leftovers.py:180-181` says that a profile
must pass verification, while one without a marker is offered as MEDIUM; no rule yields LOW, which
the settings filter; the comment at `main_window.py:534` speaks of a refresh by Ctrl+R, which
only shows a message; `ownership.py:3` protects a path that "ANY installed package
owns", while `leftovers.py:389` leaves out the package that is scanned, although it may still be
installed; `ownership.py:4-7` and `docs/LEFTOVER_DETECTION.md:82` promise that what another
application shares is protected, while the veto (`leftovers.py:390`) asks for other names than the
rules do (`Inexact`), and for those of the identities that were read only.

## 5. Proofs

Every theorem holds for all values of the constants under the modules' named
assumptions: distinct identities (`NoneDistinct`, which also tells calls from the states of
the main thread; `RemovalsOK`, `NamesOK`), a strict
total order of finitely many paths (`OrderOK`), well-formed layouts (`LayoutOK`) and
worlds (`WorldsOK`; `WorldOK` adds a full record set without provisions for the desktop,
and finitely many names for the command line), commands with identities of their own
(`CommandsOK`), an idempotent lower case that keeps the suffixes (`WordsOK`) and natural bounds.
A theorem about the contract assumes that calls are not the marks for a free lock and for the
other package manager (`OwnersDistinct`), which follows from those assumptions wherever the
contract is used.

* `ContractProofs`: `RemovingIsExclusive`, `CallsEndOnce`, `LossesAreNamed` and
  `SuccessMeansGone` are what a caller may rely on. Their invariant ties "removing" to the
  owner of the database. Whatever implements the contract inherits them, under its
  refinement mapping: the threaded helper (`RemovalsAreAuthorized`, `OkIsEarned`: `ok` is said
  by the owner of the lock with all of it gone, and not taken back), the desktop
  (`PlansAreActedOn`: what goes was in a plan with a journal entry) and the command line
  (`PrintedIsActedOn`: what goes was printed by a command with `--remove`).
* `HelperTypeCorrect`, `LockIsExclusive`: any number of threads. The second rests on
  `StepsMoveTheLock`: no step but three moves the lock or a call across `InTransaction`.
* `HandleIsFresh`: `CurrentHandleIsFresh` is not inductive, since a call about to publish
  its generation may find another call's handle in the field. `FreshInv` adds that
  such a call, if its generation is current, would publish it over a fresh handle, and
  that generations lie in the past: the generation is read before the handle is opened.
* `TransactionIsLive`: from the program order around `settx` and `untx`.
* `OnlySharingHidesLoggedErrors`: `LogInv` says that a wired handle logs to its own call, that a
  logged error stays in the call's list until the result is fixed, and that there is no result
  before, each unless another call has wired the handle since. The exception is part of the
  invariant, since a service with two calls makes it happen.
* `RepliesComeLast`, `OnlyEarlyWakeUpsAreLost`, `LostWakeUpsAreForEver`: `ReplyInv` says of the
  stack of nested event loops that each call is in it at most once and has been started, that the
  call whose loop is about to be entered is not in it, that a loop is told to quit only by a worker
  that is done, and that an answered call is waited for no more. A call hangs
  (`Hung`) when its worker is done and its loop runs without having been told to quit.
  The two action properties say that `EnterLoop` is the only step that makes a call hang, and
  that the stack up to a hung call never shrinks. The first is one half of
  `AnsweredIfHeard`; that all the other calls are answered is liveness.
* `HelperImplementsContract`: `MapInv` says that a call is authorized once past its gate,
  has no result before its transaction ends, and in a transaction has already removed
  what it no longer has to. Each of the helper's steps is then a contract step or a stutter.
* `PlannerTypeCorrect`, `OrphansAreTheLeastClosure`: `LoopInv` says that `removed` stays
  inside every closed set with the targets, and that while a pass has changed nothing,
  what it visited has no dependency that loses its last user. The loop ends only
  after such a pass, so the result is closed, whatever the order of iteration.
* `PlansBreakNothing`: what is removed is required only by what is removed.
* `OneAnswerPerRequest`: `AnswerIsDetermined` gives, for every snapshot, set of targets and
  option, when each of the four outcomes comes and which cascade; the right sides do not speak
  of the order in which sets are iterated over, so that order cannot matter.
  `LeastClosureIsUnique` makes the cascade a value. `CallersPlanAsThePlanner` is the case of one
  target, in the words `DesktopRemoval` and `CommandLine` use.
* `DesktopTypeCorrect`, and from `ClientInv`: `OnlyOverlapsAreMisdelivered`,
  `WaitingRemovalOwnsTheSlot`, `JournalIsClosedOnce`. `ClientInv` ties phase, journal,
  pending calls and slot: an entry is open before a call is out, the slot holds a removal
  that waits, and one that never overlapped is alone in waiting.
* `LossesAreInTheJournal`, `RowsComeBackFromOldReads`: `EffectInv` adds that without a
  foreign package manager nothing comes back, a plan holds its target, and a refresh
  that has read a removed package had read before the success was reported (`undone`).
* `GoneRowsAreExplained`: `LossInv` says that what is gone was asked for in a call the helper
  has taken, `RowsInv` that only an old read brings back a row after a success, `WorldInv`
  that the window, its rows and its workers hold nothing that never was installed and
  miss nothing that still is.
* `CrashesAreExplained`: by `WorldInv` a target can only be missing from the window's packages
  when it is gone; `CrashInv` says that a call the helper has taken named it.
* `GrantsAreAsShown`: `StampInv` says that a generation that still is current belongs to the
  packages the preview was computed from, or the removal drifted. `CurrentPlansAreAsApproved`
  adds the window's part: with the same full records, the plan is computed from the same facts.
* `DesktopKeepsContract`, `CommandsKeepContract`: every action of the helper there is the contract's
  with more conjuncts, and every other step leaves the contract's variables alone.
* `CommandLineProofs`: one invariant, of the lock, `LossesWerePrinted`, and per command its
  program order (`Flow`), what it sent (`Sent`), and its exit code (`Codes`, `Uncaught`).
  From it follow `SendsWhatItPrinted`, `ZeroIsTrue`,
  `FailuresAreExplained`, `NothingElseIsLost` and `UncaughtOnlyForProvided`. The plan is the print again because both come from
  the same records, although it is computed twice.
* `LeftoverProofs`: the invariant `Rated` says that every candidate was found by the rule of its
  place and rated by what the scan had read. `MoreIdentitiesVetoMore`
  follows from the vetoes; `SharingHasNoOtherGaps`, which speaks of each other package by itself, needs that the name a rule finds a place
  by is the name the veto asks for (`TokenIsTheName`), which `Inexact` lists the exceptions to:
  a drop-in directory `<id>.service.d` or any directory where a file is looked for, whose
  whole name is asked for, and a file with a dot in its name where a directory is looked for.
  `EntryDirectoriesAreTheOnlyHolders` needs that a directory has one entry per name
  (`OnePlacePerName`), and that the rules' directories lie in each other only by the three
  names of `NestedDirs`.
* `CleanupTypeCorrect`, and from `CleanupInv`: `OnlyCheckedPathsAreTouched`,
  `KnownOthersAreSafe`, `NothingInQuarantineIsLost`, `QuarantineIsListed`. The
  invariant says that nothing is rated low, that what a scan had a reason to spare is
  protected, that what a run still has to do was checked and is not protected, that the item
  at hand is still to do and its identity belongs to its path, and that what is in
  quarantine has had its turn
  or is at hand. `IndexNamesOne` is why rows map to the right candidates: `Sooner`
  is a strict total order, so a smaller element has a smaller index. `StashGrows` is why
  nothing is overwritten: two slots of a transaction with one inode have one path, and each
  path has one turn. Both depend on facts the code states nowhere: that no rule yields LOW,
  and that every transaction has a directory of its own. `ReportsAreTrue` needs `TakenInv`
  besides: what is recorded or unlinked has been touched before.
* `OnlyReplacedIsMistaken`: for a path where no other program creates anything, `SightedAt`
  says that what is there is what every scan so far found there, or nothing; that of what is
  still to do, this object was approved; and that the identity at hand is this object's.
  The hypothesis is about that one path and about creation only: objects may go, be
  written to or be replaced elsewhere.

Only model-checked: `PlanningEnds`, `CommandsEnd` and the second half of `AnsweredIfHeard`, since
liveness under fairness and `ENABLED` are out of the prover's reach. The prover cannot do
induction over data or `RECURSIVE` operators either; no module here uses them. Every
invariant and every action property of the passing runs is stated by a theorem.

## 6. Not modelled, and the plan

What could come next, in this order:

1. The journal across restarts, if `unfinished()` finds a caller; deeper trees in `Cleanup`.
2. `Layout` of `Cleanup` from `LeftoverRules`, so that a scan there has the rules' names.
3. What a cancel guarantees: it carries no plan id, and the code promises best effort.

Folded into other steps: an owner index that a corrupt package makes fail is a `Fail`
of the scan; a call for which the client saw an error is not delivered later. Not
modelled: the limit on the size of a message (no list of names within the other limits
reaches it in practice), and `app.load`, which fails as a whole when `flatpak list` fails.

Left out for good: progress signals, messages and layout, history text, settings
(`save_settings` has no caller), the other providers' enumeration and subprocess call,
`running_pids_for` (reads `/proc`), `Quarantine.restore` and
`list_entries` (without a caller): they keep no state that a removal depends on.
