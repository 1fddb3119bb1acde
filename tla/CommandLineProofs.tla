--------------------------- MODULE CommandLineProofs ---------------------------
(***************************************************************************)
(* Proofs about CommandLine, for any system of packages, any number of     *)
(* commands with any arguments, and any limits.                            *)
(***************************************************************************)
EXTENDS CommandLine, FiniteSetTheorems, TLAPS

-----------------------------------------------------------------------------
(* The analysis of a removal. *)

\* Listing other packages changes nothing else in a snapshot.
LEMMA SnapshotFields ==
  ASSUME NEW S \in SUBSET Names
  PROVE  /\ Snapshot(S).present = S
         /\ Snapshot(S).broken = World.broken
         /\ Snapshot(S).provides = World.provides
         /\ \A b \in Bases : Snapshot(S).first[b] # NoName =>
              \E p \in S \ World.broken : \E t \in World.provides[p] : t.base = b
<1> DEFINE s == [World EXCEPT !.present = S]
<1> DEFINE f == [b \in Bases |->
                   IF World.first[b] \in Providers(s, b) THEN World.first[b]
                   ELSE IF Providers(s, b) = {} THEN NoName
                   ELSE CHOOSE p \in Providers(s, b) : TRUE]
<1>1. Snapshot(S) = [s EXCEPT !.first = f]
  BY DEF Snapshot
<1>2. s.present = S /\ s.broken = World.broken /\ s.provides = World.provides
  BY WorldOK DEF Snapshots
<1>3. /\ Snapshot(S).present = S
      /\ Snapshot(S).broken = World.broken
      /\ Snapshot(S).provides = World.provides
      /\ Snapshot(S).first = f
  <2> HIDE DEF f
  <2> QED
    BY <1>1, WorldOK DEF Snapshots
<1>4. ASSUME NEW b \in Bases, f[b] # NoName
      PROVE  \E p \in S \ World.broken : \E t \in World.provides[p] : t.base = b
  <2>1. f[b] \in Providers(s, b)
    <3> HIDE DEF s
    <3> QED
      BY <1>4
  <2> QED
    BY <2>1, <1>2 DEF Providers, Readable
<1> HIDE DEF f
<1> QED
  BY <1>3, <1>4

\* Impact() is the analysis it is meant to be.
LEMMA ImpactOf ==
  ASSUME NEW S \in SUBSET Names, NEW n \in Bases
  PROVE  /\ Impact(S, n).refusal = Refusal(Snapshot(S), n)
         /\ Impact(S, n).new_orphans = NewOrphans(Snapshot(S), n)
<1> DEFINE I(T, m) == [present     |-> T,
                       name        |-> m,
                       refusal     |-> Refusal(Snapshot(T), m),
                       new_orphans |-> NewOrphans(Snapshot(T), m)]
<1>1. Impacts = {I(T, m) : T \in SUBSET Names, m \in Bases}
  BY DEF Impacts
<1>2. \E i \in Impacts : i.present = S /\ i.name = n
  <2>1. I(S, n) \in Impacts
    <3> HIDE DEF I
    <3> QED
      BY <1>1
  <2> QED
    BY <2>1
<1>3. /\ Impact(S, n) \in Impacts
      /\ Impact(S, n).present = S
      /\ Impact(S, n).name = n
  BY <1>2 DEF Impact
<1>4. PICK T \in SUBSET Names, m \in Bases : Impact(S, n) = I(T, m)
  <2> HIDE DEF I
  <2> QED
    BY <1>1, <1>3
<1>5. T = S /\ m = n
  BY <1>3, <1>4
<1> QED
  BY <1>4, <1>5

\* How a refusal is reported, and when there is none.
LEMMA Refusals ==
  ASSUME NEW S \in SUBSET Names, NEW n \in Bases
  PROVE  /\ Impact(S, n).refusal \in {"none", "1", "2", "uncaught"}
         /\ Impact(S, n).refusal = "none" => n \in S
         /\ Impact(S, n).refusal = "uncaught" =>
              /\ n \notin S
              /\ \E p \in S \ World.broken : \E t \in World.provides[p] : t.base = n
         /\ Impact(S, n).new_orphans \in SUBSET Names
<1> DEFINE s == Snapshot(S)
<1>1. Impact(S, n).refusal = Refusal(s, n) /\ Impact(S, n).new_orphans = NewOrphans(s, n)
  BY ImpactOf
<1>2. s.present = S
  BY SnapshotFields
<1>3. s.first[n] # NoName =>
        \E p \in S \ World.broken : \E t \in World.provides[p] : t.base = n
  BY SnapshotFields
<1> HIDE DEF s
<1>4. n # NoName
  BY NamesOK
<1>5. Get(s, n) = IF n \in S THEN n ELSE s.first[n]
  BY <1>2 DEF Get
<1>6. Refusal(s, n) \in {"none", "1", "2", "uncaught"}
  BY DEF Refusal
<1>7. Refusal(s, n) = "none" => n \in S
  BY <1>2 DEF Refusal
<1>8. Refusal(s, n) = "uncaught" => n \notin S /\ s.first[n] # NoName
  BY <1>2, <1>5 DEF Refusal
<1>9. NewOrphans(s, n) \in SUBSET Names
  BY DEF NewOrphans
<1> QED
  BY <1>1, <1>3, <1>6, <1>7, <1>8, <1>9

-----------------------------------------------------------------------------
(* What holds of one command at any time. *)

\* The plan is going to be what was printed, and then is.
Flow(c) ==
  /\ pc[c] # "over" => exit[c] = "none"
  /\ pc[c] \in {"prompt", "ping", "planning", "sending", "called"} => Operation(c) = "remove"
  /\ pc[c] \in {"prompt", "ping", "planning"} => printed[c] = {line[c].name} \cup Cascade(c)
  /\ pc[c] \in {"sending", "called"} => plan[c] = printed[c]

\* What the helper has is the plan.
Sent(c) ==
  /\ c \in pending \/ status[c] # "idle" =>
       pc[c] \in {"called", "over"} /\ Operation(c) = "remove" /\ plan[c] = printed[c]
  /\ asked[c] = IF status[c] = "idle" THEN {} ELSE plan[c]

\* An exit code is final: so is what it says of the call, unless nobody waited.
Codes(c) ==
  /\ exit[c] = "0" /\ Operation(c) = "remove" => status[c] = "removed"
  /\ exit[c] \in {"1", "2", "3"} =>
       \/ c \in late
       \/ c \notin pending /\ status[c] = "idle"
       \/ status[c] = "failed"
       \/ status[c] = "removed" /\ Cardinality(asked[c]) > MaxNames

Uncaught(c) ==
  exit[c] = "uncaught" =>
    \E p \in records[c] \ World.broken : \E t \in World.provides[p] :
      t.base = line[c].name /\ line[c].name \notin records[c]

CommandInv(c) == Flow(c) /\ Sent(c) /\ Codes(c) /\ Uncaught(c)

\* The other package manager has the lock only while it runs.
LockInv == holder = Pacman => pacmanRuns > 0

Inv == TypeOK /\ LockInv /\ LossesWerePrinted /\ \A c \in Commands : CommandInv(c)

\* A command of which nothing changes.
LEMMA Untouched ==
  ASSUME NEW d \in Commands, CommandInv(d),
         pc'[d] = pc[d], exit'[d] = exit[d], line' = line, records'[d] = records[d],
         printed'[d] = printed[d], generation'[d] = generation[d], plan'[d] = plan[d],
         status'[d] = status[d], asked'[d] = asked[d],
         d \in pending' <=> d \in pending,
         d \in late => d \in late',
         UNCHANGED <<installed, dbGen>>
  PROVE  CommandInv(d)'
<1>1. Operation(d)' = Operation(d) /\ Cascade(d)' = Cascade(d)
  BY DEF Operation, Cascade
<1>2. Flow(d)'
  BY <1>1 DEF CommandInv, Flow
<1>3. Sent(d)'
  BY <1>1 DEF CommandInv, Sent
<1>4. Codes(d)'
  BY <1>1 DEF CommandInv, Codes
<1>5. Uncaught(d)'
  BY DEF CommandInv, Uncaught
<1> QED
  BY <1>2, <1>3, <1>4, <1>5 DEF CommandInv

\* A change of the database leaves the commands as they are.
LEMMA Touched ==
  ASSUME TypeOK, Touch, NEW d \in Commands, CommandInv(d),
         UNCHANGED <<processVars, late, status, asked>>
  PROVE  CommandInv(d)'
<1> USE DEF processVars
<1>1. Operation(d)' = Operation(d) /\ Cascade(d)' = Cascade(d)
  BY DEF Operation, Cascade
<1>2. Flow(d)'
  BY <1>1 DEF CommandInv, Flow
<1>3. Sent(d)'
  BY <1>1 DEF CommandInv, Sent
<1>4. Codes(d)'
  BY <1>1 DEF CommandInv, Codes
<1>5. Uncaught(d)'
  BY DEF CommandInv, Uncaught
<1> QED
  BY <1>2, <1>3, <1>4, <1>5 DEF CommandInv

\* The new orphans and what an analysis comes to, for any packages that were read.
LEMMA Analyses ==
  ASSUME TypeOK, NEW c \in Commands
  PROVE  /\ Outcome(c) \in {"none", "1", "2", "uncaught"}
         /\ Outcome(c) = "none" => {line[c].name} \cup Cascade(c) \in SUBSET Names
         /\ Outcome(c) = "uncaught" =>
              \E p \in records[c] \ World.broken : \E t \in World.provides[p] :
                t.base = line[c].name /\ line[c].name \notin records[c]
<1>1. line[c].name \in Bases
  BY CommandsOK DEF TypeOK
<1>2. records[c] \in SUBSET Names
  BY DEF TypeOK
<1> DEFINE n == line[c].name
<1> DEFINE S == records[c]
<1>3. /\ Impact(S, n).refusal \in {"none", "1", "2", "uncaught"}
      /\ Impact(S, n).refusal = "none" => n \in S
      /\ Impact(S, n).refusal = "uncaught" =>
           /\ n \notin S
           /\ \E p \in S \ World.broken : \E t \in World.provides[p] : t.base = n
      /\ Impact(S, n).new_orphans \in SUBSET Names
  <2> HIDE DEF n, S
  <2> QED
    BY <1>1, <1>2, Refusals DEF n, S
<1>4. Outcome(c) = "none" => {n} \cup Cascade(c) \in SUBSET Names
  BY <1>2, <1>3 DEF Outcome, Cascade
<1> QED
  BY <1>3, <1>4 DEF Outcome

-----------------------------------------------------------------------------
(* The steps of a process. *)

LEMMA ProcessTypes ==
  ASSUME TypeOK, NEW c \in Commands, Flow(c), Process(c)
  PROVE  TypeOK'
<1> USE DEF TypeOK, helperVars, Goto, Return, Ended
<1>1. CASE Start(c)
  BY <1>1 DEF Start
<1>2. CASE ReadPackages(c)
  BY <1>2 DEF ReadPackages
<1>3. CASE Report(c)
  BY <1>3 DEF Report
<1>4. CASE Analyze(c)
  <2>1. Outcome(c) \in Ended \cup {"none"}
    BY Analyses
  <2>2. printed' \in [Commands -> SUBSET Names]
    BY <1>4, Analyses DEF Analyze
  <2> QED
    BY <1>4, <2>1, <2>2 DEF Analyze
<1>5. CASE Confirm(c)
  BY <1>5 DEF Confirm
<1>6. CASE Ping(c)
  BY <1>6 DEF Ping
<1>7. CASE BuildPlan(c)
  <2>1. {line[c].name} \cup Cascade(c) \in SUBSET Names
    BY <1>7 DEF BuildPlan, Flow
  <2> QED
    BY <1>7, <2>1 DEF BuildPlan
<1>8. CASE Send(c)
  BY <1>8 DEF Send
<1>9. CASE GetReply(c) \/ TimeOut(c)
  <2>1. PICK code \in {"0", "1"} : Return(c, code)
    BY <1>9 DEF GetReply, TimeOut
  <2>2. pc' \in [Commands -> {"idle", "reading", "analysing", "prompt", "ping", "planning",
                             "sending", "called", "over"}]
    BY <2>1
  <2>3. exit' \in [Commands -> Ended \cup {"none"}]
    BY <2>1
  <2> QED
    BY <1>9, <2>2, <2>3 DEF GetReply, TimeOut
<1>10. CASE Kill(c)
  BY <1>10 DEF Kill
<1> QED
  BY <1>1, <1>2, <1>3, <1>4, <1>5, <1>6, <1>7, <1>8, <1>9, <1>10 DEF Process

\* A process disturbs no other command.
LEMMA ProcessOthers ==
  ASSUME TypeOK, NEW c \in Commands, Process(c), NEW d \in Commands \ {c}, CommandInv(d)
  PROVE  CommandInv(d)'
<1> USE DEF TypeOK, helperVars, Goto, Return
<1>1. /\ pc'[d] = pc[d] /\ exit'[d] = exit[d] /\ line' = line /\ records'[d] = records[d]
      /\ printed'[d] = printed[d] /\ generation'[d] = generation[d] /\ plan'[d] = plan[d]
      /\ status'[d] = status[d] /\ asked'[d] = asked[d]
      /\ d \in pending' <=> d \in pending
      /\ d \in late => d \in late'
      /\ UNCHANGED <<installed, dbGen>>
  <2>1. CASE Start(c) \/ ReadPackages(c) \/ Report(c) \/ Confirm(c) \/ Ping(c)
    BY <2>1 DEF Start, ReadPackages, Report, Confirm, Ping
  <2>2. CASE Analyze(c)
    BY <2>2 DEF Analyze
  <2>3. CASE BuildPlan(c) \/ Send(c)
    BY <2>3 DEF BuildPlan, Send
  <2>4. CASE GetReply(c) \/ TimeOut(c) \/ Kill(c)
    BY <2>4 DEF GetReply, TimeOut, Kill
  <2> QED
    BY <2>1, <2>2, <2>3, <2>4 DEF Process
<1> QED
  BY <1>1, Untouched

LEMMA ProcessOwn ==
  ASSUME TypeOK, NEW c \in Commands, Process(c), CommandInv(c)
  PROVE  CommandInv(c)'
<1> USE DEF TypeOK, helperVars, Goto, Return, CommandInv
<1>1. line' = line /\ UNCHANGED <<installed, dbGen, status, asked>>
  BY DEF Process, Start, ReadPackages, Report, Analyze, Confirm, Ping, BuildPlan, Send,
         GetReply, TimeOut, Kill
<1>2. Operation(c)' = Operation(c)
  BY <1>1 DEF Operation
<1>3. CASE Start(c)
  BY <1>2, <1>3 DEF Start, Flow, Sent, Codes, Uncaught, Operation
<1>4. CASE ReadPackages(c)
  BY <1>2, <1>4 DEF ReadPackages, Flow, Sent, Codes, Uncaught
<1>5. CASE Report(c)
  BY <1>2, <1>5 DEF Report, Flow, Sent, Codes, Uncaught
<1>6. CASE Analyze(c)
  <2>1. records' = records /\ Cascade(c)' = Cascade(c)
    BY <1>1, <1>6 DEF Analyze, Cascade
  <2>2. Flow(c)' /\ Sent(c)'
    BY <1>2, <1>6, <2>1 DEF Analyze, Flow, Sent
  <2>3. Codes(c)'
    BY <1>2, <1>6, Analyses DEF Analyze, Codes, Flow, Sent
  <2>4. Uncaught(c)'
    BY <1>6, Analyses DEF Analyze, Uncaught, Flow
  <2> QED
    BY <2>2, <2>3, <2>4
<1>7. CASE Confirm(c) \/ Ping(c)
  <2>1. records' = records /\ Cascade(c)' = Cascade(c)
    BY <1>1, <1>7 DEF Confirm, Ping, Cascade
  <2>2. CASE Confirm(c)
    <3>1. Flow(c)' /\ Sent(c)'
      BY <1>2, <2>1, <2>2 DEF Confirm, Flow, Sent
    <3>2. Codes(c)'
      BY <1>2, <2>1, <2>2 DEF Confirm, Codes, Flow, Sent
    <3>3. Uncaught(c)'
      BY <1>2, <2>1, <2>2 DEF Confirm, Uncaught, Flow
    <3> QED
      BY <3>1, <3>2, <3>3
  <2>3. CASE Ping(c)
    <3>1. Flow(c)' /\ Sent(c)'
      BY <1>2, <2>1, <2>3 DEF Ping, Flow, Sent
    <3>2. Codes(c)'
      BY <1>2, <2>1, <2>3 DEF Ping, Codes, Flow, Sent
    <3>3. Uncaught(c)'
      BY <1>2, <2>1, <2>3 DEF Ping, Uncaught, Flow
    <3> QED
      BY <3>1, <3>2, <3>3
  <2> QED
    BY <1>7, <2>2, <2>3
<1>8. CASE BuildPlan(c)
  <2>1. Flow(c)' /\ Sent(c)'
    BY <1>2, <1>8 DEF BuildPlan, Flow, Sent
  <2>2. Codes(c)'
    BY <1>2, <1>8 DEF BuildPlan, Codes, Flow, Sent
  <2>3. Uncaught(c)'
    BY <1>2, <1>8 DEF BuildPlan, Uncaught, Flow, Sent
  <2> QED
    BY <2>1, <2>2, <2>3
<1>9. CASE Send(c)
  BY <1>2, <1>9 DEF Send, Flow, Sent, Codes, Uncaught
<1>10. CASE GetReply(c)
  <2>1. Cardinality(asked[c]) <= MaxNames \/ Cardinality(asked[c]) > MaxNames
    <3>1. IsFiniteSet(asked[c])
      BY WorldOK, FS_Subset
    <3>2. Cardinality(asked[c]) \in Nat
      BY <3>1, FS_CardinalityType
    <3> QED
      BY <3>2, CommandsOK
  <2>2. Flow(c)' /\ Sent(c)' /\ Uncaught(c)'
    BY <1>2, <1>10 DEF GetReply, Flow, Sent, Uncaught
  <2>3. CASE status[c] = "removed" /\ Cardinality(asked[c]) <= MaxNames
    BY <1>1, <1>2, <1>10, <2>2, <2>3 DEF GetReply, Codes
  <2>4. CASE ~ (status[c] = "removed" /\ Cardinality(asked[c]) <= MaxNames)
    BY <1>1, <1>2, <1>10, <2>1, <2>2, <2>4 DEF GetReply, Codes
  <2> QED
    BY <2>3, <2>4
<1>11. CASE TimeOut(c)
  BY <1>2, <1>11 DEF TimeOut, Flow, Sent, Codes, Uncaught
<1>12. CASE Kill(c)
  BY <1>2, <1>12 DEF Kill, Flow, Sent, Codes, Uncaught
<1> QED
  BY <1>3, <1>4, <1>5, <1>6, <1>7, <1>8, <1>9, <1>10, <1>11, <1>12 DEF Process

-----------------------------------------------------------------------------
(* The steps of the helper and of the other package manager. *)

LEMMA HelperTypes ==
  ASSUME TypeOK,
         (\E c \in Commands : HelperStep(c)) \/ PacmanBegin \/ PacmanEnd
  PROVE  TypeOK'
<1> USE DEF TypeOK, processVars, Helper!Status, Touch
<1>1. ASSUME NEW c \in Commands, Receive(c) PROVE TypeOK'
  BY <1>1 DEF Receive, Helper!Submit
<1>2. ASSUME NEW c \in Commands, Grant(c) PROVE TypeOK'
  BY <1>2 DEF Grant, Helper!Authorize
<1>3. ASSUME NEW c \in Commands, RemoveOne(c) PROVE TypeOK'
  BY <1>3 DEF RemoveOne, Helper!RemoveOne
<1>4. ASSUME NEW c \in Commands, Serve(c) PROVE TypeOK'
  BY <1>4 DEF Serve, Helper!Begin, Helper!Succeed, Helper!Fail
<1>5. CASE PacmanBegin
  BY <1>5 DEF PacmanBegin, Helper!OtherBegin
<1>6. CASE PacmanEnd
  BY <1>6 DEF PacmanEnd, Helper!OtherEnd
<1> QED
  BY <1>1, <1>2, <1>3, <1>4, <1>5, <1>6 DEF HelperStep

\* The helper goes on with a call, which leaves the commands as they are.
LEMMA HelperGoesOn ==
  ASSUME TypeOK, NEW c \in Commands, NEW new \in Helper!Status,
         \/ status[c] = "submitted" /\ new = "authorized"
         \/ status[c] = "authorized" /\ new = "removing"
         \/ status[c] = "removing" /\ new = "removed"
         \/ status[c] \in {"submitted", "authorized", "removing"} /\ new = "failed",
         status' = [status EXCEPT ![c] = new],
         NEW d \in Commands, CommandInv(d),
         UNCHANGED <<installed, dbGen, asked, processVars, late>>
  PROVE  CommandInv(d)'
<1> USE DEF processVars
<1>1. Operation(d)' = Operation(d) /\ Cascade(d)' = Cascade(d)
  BY DEF Operation, Cascade
<1>2. (status[d] # "idle" /\ status'[d] # "idle") \/ status'[d] = status[d]
  BY DEF TypeOK
<1>3. status[d] \in {"removed", "failed"} => status'[d] = status[d]
  BY DEF TypeOK
<1>4. Flow(d)' /\ Uncaught(d)'
  BY <1>1 DEF CommandInv, Flow, Uncaught
<1>5. Sent(d)'
  BY <1>1, <1>2 DEF CommandInv, Sent
<1>6. Codes(d)'
  BY <1>1, <1>2, <1>3 DEF CommandInv, Codes
<1> QED
  BY <1>4, <1>5, <1>6 DEF CommandInv

LEMMA HelperCommands ==
  ASSUME TypeOK, NEW d \in Commands, CommandInv(d),
         (\E c \in Commands : HelperStep(c)) \/ PacmanBegin \/ PacmanEnd
  PROVE  CommandInv(d)'
<1> USE DEF Helper!Status
<1>1. ASSUME NEW c \in Commands, Receive(c) PROVE CommandInv(d)'
  <2>1. CASE d # c
    <3>1. status'[d] = status[d] /\ asked'[d] = asked[d]
      BY <1>1, <2>1 DEF Receive, Helper!Submit, TypeOK
    <3> QED
      BY <1>1, <3>1, Untouched DEF Receive, Helper!Submit, processVars
  <2>2. CASE d = c
    <3>1. /\ status[d] = "idle" /\ status'[d] = "submitted" /\ asked'[d] = plan[d]
          /\ d \in pending
      BY <1>1, <2>2 DEF Receive, Helper!Submit, TypeOK
    <3>2. UNCHANGED <<installed, dbGen, processVars, late>>
      BY <1>1 DEF Receive, Helper!Submit
    <3>3. Operation(d)' = Operation(d) /\ Cascade(d)' = Cascade(d)
      BY <3>2 DEF Operation, Cascade, processVars
    <3>4. Flow(d)' /\ Sent(d)' /\ Uncaught(d)'
      BY <3>1, <3>2, <3>3 DEF CommandInv, Flow, Sent, Uncaught, processVars
    <3>5. Codes(d)'
      BY <3>1, <3>2, <3>3 DEF CommandInv, Codes, processVars
    <3> QED
      BY <3>4, <3>5 DEF CommandInv
  <2> QED
    BY <2>1, <2>2
<1>2. ASSUME NEW c \in Commands, Grant(c) PROVE CommandInv(d)'
  BY <1>2, HelperGoesOn DEF Grant, Helper!Authorize
<1>3. ASSUME NEW c \in Commands, RemoveOne(c) PROVE CommandInv(d)'
  BY <1>3, Touched DEF RemoveOne, Helper!RemoveOne
<1>4. ASSUME NEW c \in Commands, Serve(c) PROVE CommandInv(d)'
  <2>1. UNCHANGED <<installed, dbGen, asked, processVars, late>>
    BY <1>4 DEF Serve, Helper!Begin, Helper!Succeed, Helper!Fail
  <2>2. PICK new \in Helper!Status :
          /\ \/ status[c] = "submitted" /\ new = "authorized"
             \/ status[c] = "authorized" /\ new = "removing"
             \/ status[c] = "removing" /\ new = "removed"
             \/ status[c] \in {"submitted", "authorized", "removing"} /\ new = "failed"
          /\ status' = [status EXCEPT ![c] = new]
    BY <1>4 DEF Serve, Helper!Begin, Helper!Succeed, Helper!Fail
  <2> QED
    BY <2>1, <2>2, HelperGoesOn
<1>5. CASE PacmanBegin
  BY <1>5, Untouched DEF PacmanBegin, Helper!OtherBegin, processVars
<1>6. CASE PacmanEnd
  BY <1>6, Touched DEF PacmanEnd, Helper!OtherEnd
<1> QED
  BY <1>1, <1>2, <1>3, <1>4, <1>5, <1>6 DEF HelperStep

-----------------------------------------------------------------------------
(* What packages are lost, and to whom. *)

LEMMA LockStep ==
  ASSUME TypeOK, LockInv, Next
  PROVE  LockInv'
<1>1. ASSUME NEW c \in Commands, Process(c) PROVE LockInv'
  BY <1>1 DEF LockInv, Process, Start, ReadPackages, Report, Analyze, Confirm, Ping, BuildPlan,
              Send, GetReply, TimeOut, Kill, helperVars
<1>2. ASSUME NEW c \in Commands, HelperStep(c) PROVE LockInv'
  BY <1>2, CommandsOK
  DEF LockInv, HelperStep, Receive, Grant, RemoveOne, Serve, Helper!Submit, Helper!Authorize,
      Helper!RemoveOne, Helper!Begin, Helper!Succeed, Helper!Fail
<1>3. CASE PacmanBegin \/ PacmanEnd
  BY <1>3, CommandsOK
  DEF LockInv, PacmanBegin, PacmanEnd, Helper!OtherBegin, Helper!OtherEnd, TypeOK
<1> QED
  BY <1>1, <1>2, <1>3 DEF Next

LEMMA LossesStep ==
  ASSUME TypeOK, LockInv, LossesWerePrinted, Next, \A c \in Commands : CommandInv(c)
  PROVE  LossesWerePrinted'
<1> SUFFICES ASSUME pacmanRuns' = 0, NEW p \in World.present \ installed'
             PROVE  \E c \in Commands :
                      p \in printed'[c] /\ Operation(c)' = "remove" /\ status'[c] # "idle"
  BY DEF LossesWerePrinted
<1>1. line' = line /\ pacmanRuns = 0
  <2>1. ASSUME NEW c \in Commands, Process(c) PROVE line' = line /\ pacmanRuns' = pacmanRuns
    BY <2>1 DEF Process, Start, ReadPackages, Report, Analyze, Confirm, Ping, BuildPlan, Send,
                GetReply, TimeOut, Kill, helperVars
  <2>2. ASSUME NEW c \in Commands, HelperStep(c) PROVE line' = line /\ pacmanRuns' = pacmanRuns
    BY <2>2 DEF HelperStep, Receive, Grant, RemoveOne, Serve, processVars
  <2>3. CASE PacmanBegin \/ PacmanEnd
    BY <2>3 DEF PacmanBegin, PacmanEnd, processVars, TypeOK
  <2> QED
    BY <2>1, <2>2, <2>3 DEF Next
<1>2. \A c \in Commands : Operation(c)' = Operation(c)
  BY <1>1 DEF Operation
<1>3. ASSUME NEW c \in Commands, p \in printed[c], Operation(c) = "remove", status[c] # "idle"
      PROVE  p \in printed'[c] /\ Operation(c)' = "remove" /\ status'[c] # "idle"
  <2>1. pc[c] \in {"called", "over"}
    <3>1. Sent(c)
      BY DEF CommandInv
    <3> QED
      BY <1>3, <3>1 DEF Sent
  <2>2. printed'[c] = printed[c]
    <3>1. ASSUME NEW d \in Commands, Process(d) PROVE printed'[c] = printed[c]
      BY <2>1, <3>1
      DEF Process, Start, ReadPackages, Report, Analyze, Confirm, Ping, BuildPlan, Send, GetReply,
          TimeOut, Kill, TypeOK
    <3>2. ASSUME NEW d \in Commands, HelperStep(d) PROVE printed'[c] = printed[c]
      BY <3>2 DEF HelperStep, Receive, Grant, RemoveOne, Serve, processVars
    <3> QED
      BY <3>1, <3>2 DEF Next, PacmanBegin, PacmanEnd, processVars
  <2>3. status'[c] # "idle"
    <3>1. ASSUME NEW d \in Commands, Process(d) PROVE status'[c] # "idle"
      BY <1>3, <3>1
      DEF Process, Start, ReadPackages, Report, Analyze, Confirm, Ping, BuildPlan, Send, GetReply,
          TimeOut, Kill, helperVars
    <3>2. ASSUME NEW d \in Commands, HelperStep(d) PROVE status'[c] # "idle"
      BY <1>3, <3>2
      DEF HelperStep, Receive, Grant, RemoveOne, Serve, Helper!Submit, Helper!Authorize,
          Helper!RemoveOne, Helper!Begin, Helper!Succeed, Helper!Fail, TypeOK
    <3>3. CASE PacmanBegin \/ PacmanEnd
      BY <1>3, <3>3 DEF PacmanBegin, PacmanEnd, Helper!OtherBegin, Helper!OtherEnd
    <3> QED
      BY <3>1, <3>2, <3>3 DEF Next
  <2> QED
    BY <1>2, <1>3, <2>2, <2>3
<1>4. CASE p \notin installed
  BY <1>1, <1>3, <1>4 DEF LossesWerePrinted
<1>5. CASE p \in installed
  <2>1. PICK c \in Commands : RemoveOne(c)
    <3>1. ~ PacmanBegin /\ ~ PacmanEnd
      BY <1>1, <1>5 DEF LockInv, PacmanBegin, PacmanEnd, Helper!OtherBegin, Helper!OtherEnd
    <3>2. \A d \in Commands : ~ Process(d)
      BY <1>5 DEF Process, Start, ReadPackages, Report, Analyze, Confirm, Ping, BuildPlan, Send,
                  GetReply, TimeOut, Kill, helperVars
    <3>3. PICK d \in Commands : HelperStep(d)
      BY <3>1, <3>2 DEF Next
    <3>4. ~ Receive(d) /\ ~ Grant(d) /\ ~ Serve(d)
      BY <1>5 DEF Receive, Grant, Serve, Helper!Submit, Helper!Authorize, Helper!Begin,
                  Helper!Succeed, Helper!Fail
    <3> QED
      BY <3>3, <3>4 DEF HelperStep
  <2>2. p \in asked[c] /\ status[c] # "idle"
    BY <1>5, <2>1 DEF RemoveOne, Helper!RemoveOne
  <2>3. p \in printed[c] /\ Operation(c) = "remove"
    BY <2>2 DEF CommandInv, Sent
  <2> QED
    BY <1>3, <2>2, <2>3
<1> QED
  BY <1>4, <1>5

-----------------------------------------------------------------------------
(* Together. *)

LEMMA InvInit == Init => Inv
<1> SUFFICES ASSUME Init PROVE Inv
  OBVIOUS
<1>1. TypeOK
  BY WorldOK DEF Init, TypeOK, Helper!Status, Snapshots
<1>2. LockInv /\ LossesWerePrinted
  BY CommandsOK DEF Init, LockInv, LossesWerePrinted
<1>3. ASSUME NEW c \in Commands PROVE CommandInv(c)
  BY DEF Init, CommandInv, Flow, Sent, Codes, Uncaught
<1> QED
  BY <1>1, <1>2, <1>3 DEF Inv

LEMMA InvStep == Inv /\ [Next]_vars => Inv'
<1> SUFFICES ASSUME Inv, [Next]_vars PROVE Inv'
  OBVIOUS
<1> USE DEF Inv
<1>1. CASE Next
  <2>1. TypeOK'
    BY <1>1, ProcessTypes, HelperTypes DEF Next, CommandInv
  <2>2. ASSUME NEW d \in Commands PROVE CommandInv(d)'
    <3>1. ASSUME NEW c \in Commands, Process(c) PROVE CommandInv(d)'
      BY <3>1, ProcessOwn, ProcessOthers
    <3> QED
      BY <1>1, <3>1, HelperCommands DEF Next
  <2>3. LockInv' /\ LossesWerePrinted'
    BY <1>1, LockStep, LossesStep
  <2> QED
    BY <2>1, <2>2, <2>3
<1>2. CASE UNCHANGED vars
  <2> USE <1>2 DEF vars, helperVars, processVars
  <2>1. TypeOK'
    BY DEF TypeOK
  <2>2. ASSUME NEW d \in Commands PROVE CommandInv(d)'
    BY Untouched
  <2>3. LockInv' /\ LossesWerePrinted'
    BY DEF LockInv, LossesWerePrinted, Operation
  <2> QED
    BY <2>1, <2>2, <2>3
<1> QED
  BY <1>1, <1>2

LEMMA Invariant == Spec => []Inv
BY InvInit, InvStep, PTL DEF Spec

\* Every variable of the command-line model keeps its type.
THEOREM CommandLineTypeCorrect == Spec => []TypeOK
<1>1. Inv => TypeOK
  BY DEF Inv
<1> QED
  BY <1>1, Invariant, PTL

\* What is removed for a command is what it printed before its prompt, whatever
\* changes in the meantime.
THEOREM SendsWhatItPrinted == Spec => []SentAsPrinted
<1>1. Inv => SentAsPrinted
  BY DEF Inv, CommandInv, Sent, SentAsPrinted
<1> QED
  BY <1>1, Invariant, PTL

\* A removal that ends with exit code 0 has removed what it was asked for.
THEOREM ZeroIsTrue == Spec => []ZeroMeansRemoved
<1>1. Inv => ZeroMeansRemoved
  BY DEF Inv, CommandInv, Codes, ZeroMeansRemoved
<1> QED
  BY <1>1, Invariant, PTL

\* An exit code other than 0 conceals a removal in two cases only.
THEOREM FailuresAreExplained == Spec => []OnlyLateOrLongRepliesHideSuccess
<1>1. Inv => OnlyLateOrLongRepliesHideSuccess
  BY DEF Inv, CommandInv, Codes, OnlyLateOrLongRepliesHideSuccess
<1> QED
  BY <1>1, Invariant, PTL

\* While nobody else removes packages, none goes that was not printed.
THEOREM NothingElseIsLost == Spec => []LossesWerePrinted
<1>1. Inv => LossesWerePrinted
  BY DEF Inv
<1> QED
  BY <1>1, Invariant, PTL

\* Names that are only provided are the only ones that end a command unheard.
THEOREM UncaughtOnlyForProvided == Spec => []OnlyProvidedNamesAreUncaught
<1>1. Inv => OnlyProvidedNamesAreUncaught
  BY DEF Inv, CommandInv, Uncaught, OnlyProvidedNamesAreUncaught
<1> QED
  BY <1>1, Invariant, PTL

-----------------------------------------------------------------------------
(* The processes beside a helper that keeps RemovalContract. *)

\* The processes leave the helper alone, and its steps, with the limits, the gate and
\* libalpm's refusals, are steps of the contract.
THEOREM CommandsKeepContract == Spec => Helper!ContractSpec
<1>1. Init => Helper!ContractInit
  BY WorldOK DEF Init, Helper!ContractInit, Snapshots
<1>2. [Next]_vars => [Helper!ContractNext]_(Helper!contractVars)
  <2> SUFFICES ASSUME [Next]_vars
               PROVE  Helper!ContractNext \/ UNCHANGED Helper!contractVars
    OBVIOUS
  <2>1. ASSUME NEW c \in Commands, Process(c) PROVE UNCHANGED Helper!contractVars
    BY <2>1 DEF Process, Start, ReadPackages, Report, Analyze, Confirm, Ping, BuildPlan, Send,
       GetReply, TimeOut, Kill, helperVars, Helper!contractVars
  <2>2. ASSUME NEW c \in Commands, HelperStep(c) PROVE Helper!ContractNext
    BY <2>2 DEF HelperStep, Receive, Grant, RemoveOne, Serve, Helper!ContractNext
  <2>3. ASSUME PacmanBegin \/ PacmanEnd PROVE Helper!ContractNext
    BY <2>3 DEF PacmanBegin, PacmanEnd, Helper!ContractNext
  <2>4. CASE UNCHANGED vars
    BY <2>4 DEF vars, helperVars, Helper!contractVars
  <2> QED
    BY <2>1, <2>2, <2>3, <2>4 DEF Next
<1> QED
  BY <1>1, <1>2, PTL DEF Spec, Helper!ContractSpec

Promises == INSTANCE ContractProofs WITH Pkgs <- Names, Calls <- Commands

\* A package goes only to a removal that owns the database and has printed it before
\* its prompt, whatever the other package manager did before.
OnlyPrintedPackagesGo ==
  [][\/ holder = Pacman
     \/ /\ installed' \subseteq installed
        /\ \A p \in installed \ installed' :
             \E c \in Commands : /\ status[c] = "removing" /\ holder = c
                                 /\ p \in printed[c] /\ Operation(c) = "remove"]_vars

\* The helper acts on what was asked, and what was asked had been printed.
THEOREM PrintedIsActedOn == Spec => OnlyPrintedPackagesGo
<1> DEFINE Named ==
      \/ holder = Pacman
      \/ /\ installed' \subseteq installed
         /\ \A p \in installed \ installed' :
              \E c \in Commands : status[c] = "removing" /\ holder = c /\ p \in asked[c]
<1> DEFINE Printed ==
      \/ holder = Pacman
      \/ /\ installed' \subseteq installed
         /\ \A p \in installed \ installed' :
              \E c \in Commands : /\ status[c] = "removing" /\ holder = c
                                  /\ p \in printed[c] /\ Operation(c) = "remove"
<1>1. ASSUME Inv, Named PROVE Printed
  <2>1. ASSUME NEW c \in Commands, status[c] = "removing"
        PROVE  asked[c] = printed[c] /\ Operation(c) = "remove"
    BY <1>1, <2>1 DEF Inv, CommandInv, Sent
  <2> QED
    BY <1>1, <2>1
<1>2. UNCHANGED Promises!contractVars => Printed
  BY DEF Promises!contractVars
<1>3. Spec => Promises!ContractSpec
  <2>1. Helper!ContractInit => Promises!ContractInit
    BY DEF Helper!ContractInit, Promises!ContractInit
  <2>2. [Helper!ContractNext]_(Helper!contractVars) => [Promises!ContractNext]_(Promises!contractVars)
    BY DEF Helper!ContractNext, Helper!contractVars, Helper!Submit, Helper!Authorize,
       Helper!Begin, Helper!RemoveOne, Helper!Succeed, Helper!Fail, Helper!OtherBegin,
       Helper!OtherEnd, Promises!ContractNext, Promises!contractVars, Promises!Submit,
       Promises!Authorize, Promises!Begin, Promises!RemoveOne, Promises!Succeed,
       Promises!Fail, Promises!OtherBegin, Promises!OtherEnd
  <2> QED
    BY <2>1, <2>2, CommandsKeepContract, PTL DEF Helper!ContractSpec, Promises!ContractSpec
<1>4. Promises!OwnersDistinct
  BY CommandsOK DEF Promises!OwnersDistinct
<1>5. Spec => Promises!OnlyNamedPackagesGo
  BY <1>3, <1>4, Promises!LossesAreNamed, PTL
<1>6. Promises!OnlyNamedPackagesGo => [][Named]_(Promises!contractVars)
  BY DEF Promises!OnlyNamedPackagesGo
<1> HIDE DEF Named, Printed
<1>7. Inv /\ [Named]_(Promises!contractVars) => [Printed]_vars
  BY <1>1, <1>2
<1>8. Spec => [][Printed]_vars
  BY <1>5, <1>6, <1>7, Invariant, PTL
<1> QED
  BY <1>8 DEF OnlyPrintedPackagesGo, Printed
=============================================================================
