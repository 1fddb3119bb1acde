------------------------------ MODULE CommandLine ------------------------------
(***************************************************************************)
(* run_cli(): commands that list, analyse or remove, each a process of its *)
(* own that blocks on standard input and on the helper.  A removal plans   *)
(* over the packages it has printed, but reads the generation only after   *)
(* the prompt.  The helper is any one that keeps RemovalContract, with the *)
(* staleness gate and the limits of the wire protocol in front; how long a *)
(* reply takes is left open, which covers its nested event loops.          *)
(***************************************************************************)
EXTENDS PackageSnapshot, Integers, FiniteSets

CONSTANTS
  World,     \* the packages: what each depends on, provides and was installed for
  Commands,  \* processes, each started once
  Lines,     \* bound: the arguments considered, for each command
  Free,      \* the database lock when nobody holds it
  Pacman,    \* the database lock when another package manager holds it
  MaxNames,  \* MAX_PACKAGE_NAMES
  MaxPacman  \* bound: transactions of the other package manager

Options == {"remove", "list", "orphans", "dry_run", "leftovers"}

ASSUME WorldOK == World \in Snapshots /\ World.full /\ FallbackOK(World) /\ IsFiniteSet(Names)

ASSUME CommandsOK ==
  /\ Lines \subseteq [Commands -> [given : SUBSET Options, name : Bases, yes : BOOLEAN, orphans : BOOLEAN]]
  /\ Free \notin Commands /\ Pacman \notin Commands /\ Free # Pacman
  /\ MaxNames \in Nat /\ MaxPacman \in Nat

VARIABLES
  \* the system and the helper
  installed,  \* packages in the local database
  dbGen,      \* mtime of the local database directory
  holder,     \* who holds the database lock
  asked,      \* asked[c]: the names in the request of c
  status,     \* status[c]: how far the helper is with c
  pacmanRuns, \* transactions the other package manager has begun
  \* the processes
  line,       \* line[c]: its arguments
  pc,
  records,    \* records[c]: the packages it has read
  printed,    \* printed[c]: what it says it will remove
  generation, \* generation[c]: the generation it read
  plan,       \* plan[c]: targets and cascade of its RemovalPlan
  pending,    \* calls that have neither a reply nor a time-out yet
  exit,       \* exit[c]: exit code, or how else it ended
  \* observers: written only, read by no action
  late        \* commands that did not wait for the reply

helperVars  == <<installed, dbGen, holder, asked, status, pacmanRuns>>
processVars == <<line, pc, records, printed, generation, plan, pending, exit>>
vars == <<helperVars, processVars, late>>

Helper == INSTANCE RemovalContract WITH Pkgs <- Names, Calls <- Commands

Ended == {"0", "1", "2", "3", "uncaught", "killed"}

TypeOK ==
  /\ installed \in SUBSET Names
  /\ dbGen \in Nat
  /\ holder \in Commands \cup {Free, Pacman}
  /\ asked \in [Commands -> SUBSET Names]
  /\ status \in [Commands -> Helper!Status]
  /\ pacmanRuns \in Nat
  /\ line \in Lines
  /\ pc \in [Commands -> {"idle", "reading", "analysing", "prompt", "ping", "planning",
                          "sending", "called", "over"}]
  /\ records \in [Commands -> SUBSET Names]
  /\ printed \in [Commands -> SUBSET Names]
  /\ generation \in [Commands -> Nat]
  /\ plan \in [Commands -> SUBSET Names]
  /\ pending \in SUBSET Commands
  /\ exit \in [Commands -> Ended \cup {"none"}]
  /\ late \in SUBSET Commands

Init ==
  /\ installed = World.present
  /\ dbGen = 0
  /\ holder = Free
  /\ asked = [c \in Commands |-> {}]
  /\ status = [c \in Commands |-> "idle"]
  /\ pacmanRuns = 0
  /\ line \in Lines
  /\ pc = [c \in Commands |-> "idle"]
  /\ records = [c \in Commands |-> {}]
  /\ printed = [c \in Commands |-> {}]
  /\ generation = [c \in Commands |-> 0]
  /\ plan = [c \in Commands |-> {}]
  /\ pending = {}
  /\ exit = [c \in Commands |-> "none"]
  /\ late = {}

-----------------------------------------------------------------------------
(* The processes. *)

\* The packages as AlpmSession.packages() lists them, in a fixed order.
Snapshot(present) ==
  LET s == [World EXCEPT !.present = present]
  IN [s EXCEPT !.first = [b \in Bases |->
        IF World.first[b] \in Providers(s, b) THEN World.first[b]
        ELSE IF Providers(s, b) = {} THEN NoName
        ELSE CHOOSE p \in Providers(s, b) : TRUE]]

\* Mutant of Refusal: a name that is only provided goes through.
RefusalIfUnknown(s, name) ==
  CASE Get(s, name) = NoName -> "2"
    [] name \in s.present /\ Blockers(s, name) # {} -> "1"
    [] OTHER -> "none"

\* Mutant of Refusal: a KeyError for any name that is not installed.
RefusalByName(s, name) ==
  CASE name \notin s.present -> "uncaught"
    [] name \in s.present /\ Blockers(s, name) # {} -> "1"
    [] OTHER -> "none"

\* analyze(): a name that nothing has is PackageNotFound, one that is only provided
\* a KeyError that nobody catches, and one that others need is refused.
Refusal(s, name) ==
  CASE Get(s, name) = NoName -> "2"
    [] Get(s, name) # NoName /\ name \notin s.present -> "uncaught"
    [] name \in s.present /\ Blockers(s, name) # {} -> "1"
    [] OTHER -> "none"

\* RemovalImpact, for each set of packages and each name.
Impacts ==
  {[present     |-> S,
    name        |-> n,
    refusal     |-> Refusal(Snapshot(S), n),
    new_orphans |-> NewOrphans(Snapshot(S), n)] : S \in SUBSET Names, n \in Bases}
Impact(present, name) == CHOOSE i \in Impacts : i.present = present /\ i.name = name

\* run_cli() tests the options in this order.
Operation(c) ==
  LET given == line[c].given IN
  CASE given = {} -> "help"
    [] "remove" \in given -> "remove"
    [] "dry_run" \in given /\ given \cap {"remove", "list", "orphans"} = {} -> "dry_run"
    [] OTHER -> "report"

Goto(c, label) == pc' = [pc EXCEPT ![c] = label] /\ UNCHANGED exit
Return(c, code) == pc' = [pc EXCEPT ![c] = "over"] /\ exit' = [exit EXCEPT ![c] = code]

Start(c) ==
  /\ pc[c] = "idle"
  /\ IF Operation(c) = "help" THEN Return(c, "0") ELSE Goto(c, "reading")
  /\ UNCHANGED <<helperVars, line, records, printed, generation, plan, pending, late>>

\* session.open() and packages(); DatabaseUnavailable ends in run_cli().
ReadPackages(c) ==
  /\ pc[c] = "reading"
  /\ \/ /\ records' = [records EXCEPT ![c] = installed]
        /\ Goto(c, "analysing")
     \/ Return(c, "2") /\ UNCHANGED records
  /\ UNCHANGED <<helperVars, line, printed, generation, plan, pending, late>>

\* --list, --orphans and --leftovers only print.
Report(c) ==
  /\ pc[c] = "analysing"
  /\ Operation(c) = "report"
  /\ Return(c, "0")
  /\ UNCHANGED <<helperVars, line, records, printed, generation, plan, pending, late>>

Outcome(c) == Impact(records[c], line[c].name).refusal

\* Mutant of Cascade: the new orphans of the moment.
CascadeAfresh(c) == IF line[c].orphans THEN Impact(installed, line[c].name).new_orphans ELSE {}

\* impact.new_orphans, over the packages that were read.
Cascade(c) == IF line[c].orphans THEN Impact(records[c], line[c].name).new_orphans ELSE {}

\* Mutant of Analyze: the new orphans are not printed.
AnalyzeTarget(c) ==
  /\ pc[c] = "analysing"
  /\ Operation(c) \in {"remove", "dry_run"}
  /\ IF Outcome(c) # "none" THEN Return(c, Outcome(c)) /\ UNCHANGED printed
     ELSE IF Operation(c) = "dry_run" THEN Return(c, "0") /\ UNCHANGED printed
     ELSE printed' = [printed EXCEPT ![c] = {line[c].name}] /\ Goto(c, "prompt")
  /\ UNCHANGED <<helperVars, line, records, generation, plan, pending, late>>

\* --dry-run ends with the analysis, --remove prints what it is going to do.
Analyze(c) ==
  /\ pc[c] = "analysing"
  /\ Operation(c) \in {"remove", "dry_run"}
  /\ IF Outcome(c) # "none" THEN Return(c, Outcome(c)) /\ UNCHANGED printed
     ELSE IF Operation(c) = "dry_run" THEN Return(c, "0") /\ UNCHANGED printed
     ELSE printed' = [printed EXCEPT ![c] = {line[c].name} \cup Cascade(c)] /\ Goto(c, "prompt")
  /\ UNCHANGED <<helperVars, line, records, generation, plan, pending, late>>

\* The prompt: any other answer than yes, or none, aborts.
Confirm(c) ==
  /\ pc[c] = "prompt"
  /\ \/ Goto(c, "ping")
     \/ ~ line[c].yes /\ Return(c, "1")
  /\ UNCHANGED <<helperVars, line, records, printed, generation, plan, pending, late>>

\* is_available().
Ping(c) ==
  /\ pc[c] = "ping"
  /\ Goto(c, "planning") \/ Return(c, "3")
  /\ UNCHANGED <<helperVars, line, records, printed, generation, plan, pending, late>>

\* session.generation(), then build_plan() over the packages that were read.
BuildPlan(c) ==
  /\ pc[c] = "planning"
  /\ \/ /\ generation' = [generation EXCEPT ![c] = dbGen]
        /\ plan' = [plan EXCEPT ![c] = {line[c].name} \cup Cascade(c)]
        /\ Goto(c, "sending")
     \/ Return(c, "2") /\ UNCHANGED <<generation, plan>>
  /\ UNCHANGED <<helperVars, line, records, printed, pending, late>>

\* remove_packages(blocking=True) sends the call.
Send(c) ==
  /\ pc[c] = "sending"
  /\ pending' = pending \cup {c}
  /\ Goto(c, "called")
  /\ UNCHANGED <<helperVars, line, records, printed, generation, plan, late>>

\* Mutant of GetReply: whatever the reply says.
GetAnyReply(c) ==
  /\ pc[c] = "called"
  /\ status[c] \in {"removed", "failed"}
  /\ pending' = pending \ {c}
  /\ Return(c, IF Cardinality(asked[c]) <= MaxNames THEN "0" ELSE "1")
  /\ UNCHANGED <<helperVars, line, records, printed, generation, plan, late>>

\* Mutant of GetReply: the limit of names is off by one.
GetShortReply(c) ==
  /\ pc[c] = "called"
  /\ status[c] \in {"removed", "failed"}
  /\ pending' = pending \ {c}
  /\ Return(c, IF status[c] = "removed" /\ Cardinality(asked[c]) < MaxNames THEN "0" ELSE "1")
  /\ UNCHANGED <<helperVars, line, records, printed, generation, plan, late>>

\* The reply; decode_reply() refuses one with too many names.
GetReply(c) ==
  /\ pc[c] = "called"
  /\ status[c] \in {"removed", "failed"}
  /\ pending' = pending \ {c}
  /\ Return(c, IF status[c] = "removed" /\ Cardinality(asked[c]) <= MaxNames THEN "0" ELSE "1")
  /\ UNCHANGED <<helperVars, line, records, printed, generation, plan, late>>

\* Mutant of TimeOut: the call waits as long as the helper does.
TimeOutIdle(c) ==
  /\ pc[c] = "called"
  /\ status[c] = "idle"
  /\ pending' = pending \ {c}
  /\ late' = late \cup {c}
  /\ Return(c, "1")
  /\ UNCHANGED <<helperVars, line, records, printed, generation, plan>>

\* 300 s have passed while the helper goes on, or the bus could not deliver the call.
TimeOut(c) ==
  /\ pc[c] = "called"
  /\ pending' = pending \ {c}
  /\ late' = late \cup {c}
  /\ Return(c, "1")
  /\ UNCHANGED <<helperVars, line, records, printed, generation, plan>>

\* Interrupted from the keyboard or killed; a call that was sent stays sent.
Kill(c) ==
  /\ pc[c] \notin {"idle", "over"}
  /\ Return(c, "killed")
  /\ UNCHANGED <<helperVars, line, records, printed, generation, plan, pending, late>>

-----------------------------------------------------------------------------
(* The helper, libalpm and the other package manager. *)

\* The local database changes.
Touch == dbGen' = dbGen + 1

Receive(c) ==
  /\ c \in pending
  /\ Helper!Submit(c)
  /\ asked'[c] = plan[c]
  /\ UNCHANGED <<dbGen, pacmanRuns, processVars, late>>

\* decode_request(), polkit and the staleness gate let a call through.
Grant(c) ==
  /\ Helper!Authorize(c)
  /\ Cardinality(asked[c] \ {line[c].name}) <= MaxNames
  /\ generation[c] = dbGen
  /\ asked[c] \subseteq installed
  /\ UNCHANGED <<dbGen, pacmanRuns, processVars, late>>

\* libalpm's prepare() refuses what would break a package that stays.
RemoveOne(c) ==
  /\ Helper!RemoveOne(c)
  /\ installed' # installed
  /\ \A q \in installed \ asked[c] : StillWorks(Snapshot(installed), q, asked[c])
  /\ Touch
  /\ UNCHANGED <<pacmanRuns, processVars, late>>

\* The other steps of a call: it takes the lock, ends well, or fails at any point.
Serve(c) ==
  /\ Helper!Begin(c) \/ Helper!Succeed(c) \/ Helper!Fail(c)
  /\ UNCHANGED <<dbGen, pacmanRuns, processVars, late>>

PacmanBegin ==
  /\ pacmanRuns < MaxPacman
  /\ Helper!OtherBegin
  /\ pacmanRuns' = pacmanRuns + 1
  /\ UNCHANGED <<dbGen, processVars, late>>

PacmanEnd ==
  /\ Helper!OtherEnd
  /\ Touch
  /\ UNCHANGED <<pacmanRuns, processVars, late>>

-----------------------------------------------------------------------------
Process(c) ==
  \/ Start(c) \/ ReadPackages(c) \/ Report(c) \/ Analyze(c) \/ Confirm(c)
  \/ Ping(c) \/ BuildPlan(c) \/ Send(c) \/ GetReply(c) \/ TimeOut(c) \/ Kill(c)

HelperStep(c) == Receive(c) \/ Grant(c) \/ RemoveOne(c) \/ Serve(c)

Next ==
  \/ \E c \in Commands : Process(c) \/ HelperStep(c)
  \/ PacmanBegin
  \/ PacmanEnd

Spec == Init /\ [][Next]_vars

\* A started process runs; with --yes, nobody has to answer.  A blocking call ends
\* with a reply or after its 300 s.  Nothing is asked of the helper.
Alone(c) ==
  \/ ReadPackages(c) \/ Report(c) \/ Analyze(c) \/ (line[c].yes /\ Confirm(c))
  \/ Ping(c) \/ BuildPlan(c) \/ Send(c) \/ GetReply(c) \/ TimeOut(c)
FairSpec == Spec /\ \A c \in Commands : WF_vars(Alone(c))

-----------------------------------------------------------------------------
(* Properties. *)

\* What the helper is asked to remove is what was printed before the prompt.
SentAsPrinted == \A c \in Commands : asked[c] \in {{}, printed[c]}

\* Exit code 0 of a removal is never wrong ...
ZeroMeansRemoved ==
  \A c \in Commands : exit[c] = "0" /\ Operation(c) = "remove" => status[c] = "removed"

\* ... but another one may be: after 300 s without a reply, or when decode_reply()
\* refuses the names of the packages that are gone.
OnlyLateOrLongRepliesHideSuccess ==
  \A c \in Commands :
    exit[c] \in {"1", "2", "3"} /\ status[c] = "removed" =>
      c \in late \/ Cardinality(asked[c]) > MaxNames

\* What went without another package manager had been printed by a removal that got
\* past its prompt.
LossesWerePrinted ==
  pacmanRuns = 0 =>
    \A p \in World.present \ installed :
      \E c \in Commands : p \in printed[c] /\ Operation(c) = "remove" /\ status[c] # "idle"

\* The command ends without a message only for a name that is no package's.
OnlyProvidedNamesAreUncaught ==
  \A c \in Commands : exit[c] = "uncaught" =>
    \E p \in records[c] \ World.broken : \E t \in World.provides[p] :
      t.base = line[c].name /\ line[c].name \notin records[c]

\* A command that needs no answer ends, whatever the helper does.
CommandsEnd ==
  \A c \in Commands : (pc[c] = "reading" /\ line[c].yes) ~> (pc[c] = "over")
=============================================================================
