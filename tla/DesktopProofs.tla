---------------------------- MODULE DesktopProofs ----------------------------
(***************************************************************************)
(* Proofs about DesktopRemoval, for any system of packages and any number  *)
(* of removals.                                                            *)
(***************************************************************************)
EXTENDS DesktopRemoval, TLAPS

-----------------------------------------------------------------------------
(* Types. *)

LEMMA UnchangedTypes ==
  /\ HelperOK /\ UNCHANGED helperVars => HelperOK'
  /\ WindowOK /\ UNCHANGED windowVars => WindowOK'
  /\ StepsOK /\ UNCHANGED removalVars => StepsOK'
  /\ ClientOK /\ UNCHANGED clientVars => ClientOK'
  /\ RefreshOK /\ UNCHANGED refreshVars => RefreshOK'
  /\ ObserversOK /\ UNCHANGED observerVars => ObserversOK'
BY DEF HelperOK, helperVars, WindowOK, windowVars, StepsOK, removalVars, ClientOK, clientVars,
       RefreshOK, refreshVars, ObserversOK, observerVars

LEMMA OrphansAreNames ==
  ASSUME NEW s, NEW p \in Names
  PROVE  NewOrphans(s, p) \in SUBSET Names
BY DEF NewOrphans

\* What GUI handlers do to a stack of dialogs.
LEMMA StackTypes ==
  ASSUME NEW S, NEW stack \in Seq(S), NEW r \in S
  PROVE  /\ Append(stack, r) \in Seq(S)
         /\ stack # <<>> => SubSeq(stack, 1, Len(stack) - 1) \in Seq(S)
<1>1. Append(stack, r) \in Seq(S)
  OBVIOUS
<1>2. ASSUME stack # <<>> PROVE SubSeq(stack, 1, Len(stack) - 1) \in Seq(S)
  <2>1. Len(stack) \in Nat /\ Len(stack) > 0
    BY <1>2
  <2>2. \A i \in 1..(Len(stack) - 1) : stack[i] \in S
    BY <2>1
  <2> QED
    BY <2>1, <2>2
<1> QED
  BY <1>1, <1>2

\* Both ways a reply, or the lack of one, ends a removal.
LEMMA AfterTypes ==
  ASSUME TypeOK, handler \in Removals,
         NEW gone \in SUBSET Names,
         AfterSuccess(handler, gone) \/ AfterFailure(handler),
         UNCHANGED <<running, packages, previews, target, shown, generation, plan, reread,
                     approved, overlapped, drifted>>
  PROVE  WindowOK' /\ StepsOK' /\ RefreshOK' /\ ObserversOK'
<1> USE DEF TypeOK, AfterSuccess, AfterFailure, Goto
<1>1. WindowOK'
  BY DEF WindowOK
<1>2. StepsOK'
  <2>1. phase' \in [Removals -> Phase]
    BY DEF StepsOK, Phase
  <2>2. journal' \in [Removals -> {"absent", "started", "done", "failed"}]
    BY DEF StepsOK
  <2> QED
    BY <2>1, <2>2 DEF StepsOK
<1>3. RefreshOK'
  BY DEF RefreshOK, Refreshes
<1>4. ObserversOK'
  BY DEF ObserversOK
<1> QED
  BY <1>1, <1>2, <1>3, <1>4

\* The helper or the other package manager changes the database.
LEMMA TouchTypes ==
  ASSUME TypeOK, Touch
  PROVE  WindowOK' /\ StepsOK' /\ ClientOK' /\ RefreshOK' /\ ObserversOK'
<1>1. ObserversOK'
  BY DEF TypeOK, Touch, ObserversOK
<1> QED
  BY <1>1, UnchangedTypes DEF TypeOK, Touch

LEMMA TypeOKStep ==
  ASSUME TypeOK, [Next]_vars
  PROVE  TypeOK'
<1> USE DEF TypeOK
<1>1. ASSUME NEW r \in Removals, StartAnalysis(r) PROVE TypeOK'
  <2>1. target' \in [Removals -> Names \cup {NoName}]
    <3>1. Selectable \subseteq Names
      BY <1>1 DEF Selectable, WindowOK
    <3> QED
      BY <1>1, <3>1 DEF StartAnalysis, StepsOK
  <2>2. StepsOK'
    BY <1>1, <2>1 DEF StartAnalysis, StepsOK, Goto, Phase
  <2> QED
    BY <1>1, <2>2, UnchangedTypes DEF StartAnalysis
<1>2. ASSUME NEW r \in Removals, ShowPreview(r) PROVE TypeOK'
  <2>1. WindowOK'
    BY <1>2, StackTypes DEF ShowPreview, WindowOK
  <2>2. StepsOK'
    BY <1>2 DEF ShowPreview, StepsOK, Goto, Phase
  <2> QED
    BY <1>2, <2>1, <2>2, UnchangedTypes DEF ShowPreview
<1>3. ASSUME NEW r \in Removals, Reject(r) PROVE TypeOK'
  <2>1. WindowOK'
    BY <1>3, StackTypes DEF Reject, OnTop, WindowOK
  <2>2. StepsOK'
    BY <1>3 DEF Reject, StepsOK, Goto, Phase
  <2> QED
    BY <1>3, <2>1, <2>2, UnchangedTypes DEF Reject
<1>4. ASSUME NEW r \in Removals, Accept(r) PROVE TypeOK'
  <2>1. previews' \in Seq(Removals)
    BY <1>4, StackTypes DEF Accept, OnTop, WindowOK
  <2>2. running' \in {"yes", "quit", "crashed"}
    BY <1>4 DEF Accept, WindowOK
  <2>3. phase' \in [Removals -> Phase]
    BY <1>4 DEF Accept, StepsOK, Goto, Phase
  <2>4. plan' \in [Removals -> SUBSET Names]
    <3>1. packages.present \subseteq Names
      BY DEF WindowOK
    <3>2. Snapshot(packages.present, packages.full).present = packages.present
      BY WorldOK DEF Snapshot, Snapshots
    <3>3. PICK orphansToo \in BOOLEAN :
            LET s == Snapshot(packages.present, packages.full)
                p == target[r]
            IN \/ UNCHANGED plan
               \/ /\ p \in s.present
                  /\ plan' = [plan EXCEPT ![r] = {p} \cup IF orphansToo THEN NewOrphans(s, p) ELSE {}]
      BY <1>4 DEF Accept
    <3>4. target[r] \in Names =>
            NewOrphans(Snapshot(packages.present, packages.full), target[r]) \in SUBSET Names
      BY OrphansAreNames
    <3> QED
      BY <3>1, <3>2, <3>3, <3>4 DEF StepsOK
  <2>5. approved' \in [Removals -> SUBSET (Names \cup {NoName})]
    BY <1>4 DEF Accept, ObserversOK, StepsOK
  <2>6. WindowOK' /\ StepsOK' /\ ObserversOK'
    BY <1>4, <2>1, <2>2, <2>3, <2>4, <2>5 DEF Accept, WindowOK, StepsOK, ObserversOK
  <2> QED
    BY <1>4, <2>6, UnchangedTypes DEF Accept
<1>5. ASSUME NEW r \in Removals, StartJournal(r) PROVE TypeOK'
  <2>1. StepsOK'
    BY <1>5 DEF StartJournal, StepsOK, Goto, Phase
  <2> QED
    BY <1>5, <2>1, UnchangedTypes DEF StartJournal
<1>6. ASSUME NEW r \in Removals, Send(r) PROVE TypeOK'
  <2>1. StepsOK'
    BY <1>6 DEF Send, StepsOK, Goto, Phase
  <2>2. ClientOK' /\ ObserversOK'
    BY <1>6 DEF Send, ClientOK, ObserversOK
  <2> QED
    BY <1>6, <2>1, <2>2, UnchangedTypes DEF Send
<1>7. ASSUME NEW r \in Removals, DeliverReply(r) \/ TimeOut(r) PROVE TypeOK'
  <2>1. ClientOK' /\ HelperOK'
    BY <1>7, UnchangedTypes DEF DeliverReply, TimeOut, ClientOK
  <2>2. CASE handler = NoRemoval
    BY <1>7, <2>1, <2>2, UnchangedTypes
    DEF DeliverReply, TimeOut, windowVars, removalVars, refreshVars, observerVars
  <2>3. CASE handler # NoRemoval
    <3>1. handler \in Removals
      BY <2>3 DEF ClientOK
    <3>2. asked[r] \in SUBSET Names
      BY DEF HelperOK
    <3>3. AfterSuccess(handler, asked[r]) \/ AfterFailure(handler)
      BY <1>7, <2>3 DEF DeliverReply, TimeOut
    <3>4. UNCHANGED <<running, packages, previews, target, shown, generation, plan, reread,
                      approved, overlapped, drifted>>
      BY <1>7 DEF DeliverReply, TimeOut
    <3>5. WindowOK' /\ StepsOK' /\ RefreshOK' /\ ObserversOK'
      BY <3>1, <3>2, <3>3, <3>4, AfterTypes
    <3> QED
      BY <2>1, <3>5
  <2> QED
    BY <2>2, <2>3
<1>8. ASSUME NEW r \in Removals, ReadPackages(r) PROVE TypeOK'
  <2>1. target[r] \in installed => NewOrphans(Snapshot(installed, TRUE), target[r]) \in SUBSET Names
    BY OrphansAreNames DEF HelperOK
  <2>2. StepsOK'
    BY <1>8, <2>1 DEF ReadPackages, StepsOK, Goto, Phase
  <2> QED
    BY <1>8, <2>2, UnchangedTypes DEF ReadPackages
<1>9. ASSUME NEW r \in Removals, ReadGeneration(r) PROVE TypeOK'
  <2>1. StepsOK'
    BY <1>9 DEF ReadGeneration, StepsOK, HelperOK, Goto, Phase
  <2> QED
    BY <1>9, <2>1, UnchangedTypes DEF ReadGeneration
<1>10. ASSUME NEW w \in Refreshes, ReadForRefresh(w) PROVE TypeOK'
  <2>1. RefreshOK'
    BY <1>10 DEF ReadForRefresh, RefreshOK, HelperOK
  <2> QED
    BY <1>10, <2>1, UnchangedTypes DEF ReadForRefresh
<1>11. ASSUME NEW w \in Refreshes, ApplyRefresh(w) PROVE TypeOK'
  <2>1. RefreshOK' /\ WindowOK'
    BY <1>11 DEF ApplyRefresh, RefreshOK, WindowOK
  <2> QED
    BY <1>11, <2>1, UnchangedTypes DEF ApplyRefresh
<1>12. ASSUME Quit PROVE TypeOK'
  <2>1. WindowOK'
    BY <1>12 DEF Quit, WindowOK
  <2> QED
    BY <1>12, <2>1, UnchangedTypes DEF Quit
<1>13. ASSUME NEW r \in Removals, Receive(r) \/ Answer(r) PROVE TypeOK'
  <2>1. nest' \in Seq(Removals)
    BY <1>13, StackTypes DEF Receive, Answer, HelperOK
  <2>2. HelperOK'
    BY <1>13, <2>1 DEF Receive, Answer, HelperOK, Helper!Submit, Helper!Status
  <2> QED
    BY <1>13, <2>2, UnchangedTypes DEF Receive, Answer, outsideVars
<1>14. ASSUME NEW r \in Removals,
              Grant(r) \/ Begin(r) \/ RemoveOne(r) \/ Succeed(r) \/ Fail(r)
       PROVE TypeOK'
  <2>1. CASE Grant(r)
    BY <2>1, UnchangedTypes DEF Grant, Helper!Authorize, Helper!Status, HelperOK, outsideVars
  <2>2. CASE Begin(r)
    BY <2>2, UnchangedTypes DEF Begin, Helper!Begin, Helper!Status, HelperOK, outsideVars
  <2>3. CASE RemoveOne(r)
    <3>1. HelperOK'
      BY <2>3 DEF RemoveOne, Touch, Helper!RemoveOne, Helper!Status, HelperOK
    <3> QED
      BY <2>3, <3>1, TouchTypes DEF RemoveOne
  <2>4. CASE Succeed(r)
    BY <2>4, UnchangedTypes DEF Succeed, Helper!Succeed, Helper!Status, HelperOK, outsideVars
  <2>5. CASE Fail(r)
    BY <2>5, UnchangedTypes DEF Fail, Helper!Fail, Helper!Status, HelperOK, outsideVars
  <2> QED
    BY <1>14, <2>1, <2>2, <2>3, <2>4, <2>5
<1>15. ASSUME PacmanBegin \/ PacmanEnd PROVE TypeOK'
  <2>1. HelperOK'
    BY <1>15 DEF PacmanBegin, PacmanEnd, Touch, Helper!OtherBegin, Helper!OtherEnd, HelperOK
  <2> QED
    BY <1>15, <2>1, UnchangedTypes, TouchTypes DEF PacmanBegin, PacmanEnd, outsideVars
<1>16. CASE UNCHANGED vars
  BY <1>16, UnchangedTypes DEF vars
<1> QED
  BY <1>1, <1>2, <1>3, <1>4, <1>5, <1>6, <1>7, <1>8, <1>9, <1>10, <1>11, <1>12, <1>13, <1>14,
     <1>15, <1>16 DEF Next

LEMMA TypeOKInit == Init => TypeOK
<1> SUFFICES ASSUME Init PROVE TypeOK
  OBVIOUS
<1>1. HelperOK
  BY WorldOK DEF Init, HelperOK, Helper!Status, Snapshots
<1>2. WindowOK
  BY WorldOK DEF Init, WindowOK, Snapshots
<1>3. StepsOK /\ ClientOK
  BY DEF Init, StepsOK, Phase, ClientOK
<1>4. RefreshOK /\ ObserversOK
  BY DEF Init, RefreshOK, ObserversOK
<1> QED
  BY <1>1, <1>2, <1>3, <1>4 DEF TypeOK

\* Every variable of the desktop model keeps its type.
THEOREM DesktopTypeCorrect == Spec => []TypeOK
BY TypeOKInit, TypeOKStep, PTL DEF Spec

-----------------------------------------------------------------------------
(* The journal, the helper and the handler slot. *)

\* A journal entry is opened before the call is sent, open while it is out and
\* closed when the removal is over.
JournalInv ==
  \A r \in Removals :
    /\ phase[r] \notin {"journalled", "called", "over"} => journal[r] = "absent"
    /\ phase[r] \in {"journalled", "called"} => journal[r] = "started"
    /\ phase[r] = "over" => journal[r] # "started"

\* What was sent is the plan, and has a journal entry.
CallInv ==
  \A r \in Removals :
    /\ r \in pending => phase[r] \in {"called", "over"} /\ journal[r] # "absent"
    /\ status[r] # "idle" =>
         phase[r] \in {"called", "over"} /\ journal[r] # "absent" /\ asked[r] = plan[r]

\* The slot holds a removal that waits for an answer.
SlotInv == handler # NoRemoval => handler \in pending /\ phase[handler] = "called"

\* A removal that did not overlap with another is alone in waiting.
AloneInv ==
  \A r \in Removals \ overlapped :
    /\ phase[r] = "called" => r \in pending
    /\ r \in pending => pending = {r} /\ handler = r /\ phase[r] = "called"

ClientInv == JournalInv /\ CallInv /\ SlotInv /\ AloneInv /\ OnlyOverlapsMisdeliver

\* Steps of no interest to the client: a removal moves on before its plan is made
\* or instead of making one, and anything else.
LEMMA EarlyStep ==
  ASSUME TypeOK, ClientInv, NEW r \in Removals, NEW label \in Phase,
         phase[r] \notin {"journalled", "called"},
         label \notin {"journalled", "called"},
         phase[r] = "over" => label = "over",
         phase' = [phase EXCEPT ![r] = label],
         UNCHANGED <<journal, plan, asked, status, clientVars, overlapped>>
  PROVE  ClientInv'
<1> USE DEF TypeOK, StepsOK, HelperOK, ClientOK, ClientInv, clientVars
<1>1. JournalInv'
  BY DEF JournalInv
<1>2. CallInv'
  BY DEF CallInv
<1>3. SlotInv'
  BY DEF SlotInv
<1>4. AloneInv'
  BY DEF AloneInv
<1>5. OnlyOverlapsMisdeliver'
  BY DEF OnlyOverlapsMisdeliver
<1> QED
  BY <1>1, <1>2, <1>3, <1>4, <1>5

LEMMA IdleStep ==
  ASSUME ClientInv, UNCHANGED <<phase, journal, plan, asked, status, clientVars, overlapped>>
  PROVE  ClientInv'
BY DEF ClientInv, clientVars, JournalInv, CallInv, SlotInv, AloneInv, OnlyOverlapsMisdeliver

\* A call leaves `pending`, and the removal in the slot, if any, is closed.
LEMMA ClosingStep ==
  ASSUME TypeOK, ClientInv,
         NEW r \in Removals, r \in pending,
         NEW verdict \in {"done", "failed"},
         verdict = "done" => status[r] = "removed",
         pending' = pending \ {r},
         handler' = NoRemoval,
         handler = NoRemoval => UNCHANGED <<journal, phase>>,
         handler # NoRemoval =>
           /\ journal' = [journal EXCEPT ![handler] = verdict]
           /\ phase' = [phase EXCEPT ![handler] = "over"],
         UNCHANGED <<plan, asked, status, overlapped>>
  PROVE  ClientInv'
<1> USE RemovalsOK DEF TypeOK, StepsOK, HelperOK, ClientOK, ClientInv
<1>1. handler # NoRemoval => handler \in Removals
  OBVIOUS
<1>2. JournalInv'
  BY <1>1 DEF JournalInv
<1>3. CallInv'
  BY <1>1 DEF CallInv
<1>4. SlotInv'
  BY DEF SlotInv
<1>5. AloneInv'
  BY <1>1 DEF AloneInv
<1>6. OnlyOverlapsMisdeliver'
  <2>1. handler # NoRemoval /\ handler \notin overlapped => handler = r
    BY DEF SlotInv, AloneInv
  <2> QED
    BY <1>1, <2>1 DEF OnlyOverlapsMisdeliver
<1> QED
  BY <1>2, <1>3, <1>4, <1>5, <1>6

\* The helper goes on with a call it has.
LEMMA HelperStep ==
  ASSUME TypeOK, ClientInv, NEW r \in Removals,
         NEW new \in Helper!Status,
         status[r] \notin {"idle", "removed"},
         status' = [status EXCEPT ![r] = new],
         UNCHANGED <<phase, journal, plan, asked, clientVars, overlapped>>
  PROVE  ClientInv'
<1> USE DEF TypeOK, StepsOK, HelperOK, ClientOK, ClientInv, clientVars
<1>1. CallInv'
  BY DEF CallInv
<1>2. OnlyOverlapsMisdeliver'
  BY DEF OnlyOverlapsMisdeliver
<1>3. JournalInv' /\ SlotInv' /\ AloneInv'
  BY DEF JournalInv, SlotInv, AloneInv
<1> QED
  BY <1>1, <1>2, <1>3

LEMMA ClientInvStep ==
  ASSUME TypeOK, ClientInv, [Next]_vars
  PROVE  ClientInv'
<1>0. /\ phase \in [Removals -> Phase] /\ status \in [Removals -> Helper!Status]
      /\ journal \in [Removals -> {"absent", "started", "done", "failed"}]
      /\ plan \in [Removals -> SUBSET Names] /\ asked \in [Removals -> SUBSET Names]
      /\ handler \in Removals \cup {NoRemoval} /\ pending \in SUBSET Removals
      /\ overlapped \in SUBSET Removals
  BY DEF TypeOK, StepsOK, HelperOK, ClientOK, ObserversOK
<1> USE DEF helperVars, windowVars, refreshVars, observerVars, outsideVars
<1>1. ASSUME NEW r \in Removals, StartAnalysis(r) PROVE ClientInv'
  BY <1>1, EarlyStep DEF StartAnalysis, Goto, Phase
<1>2. ASSUME NEW r \in Removals, ShowPreview(r) PROVE ClientInv'
  BY <1>2, EarlyStep DEF ShowPreview, Goto, Phase
<1>3. ASSUME NEW r \in Removals, Reject(r) PROVE ClientInv'
  BY <1>3, EarlyStep DEF Reject, Goto, Phase
<1>4. ASSUME NEW r \in Removals, Accept(r) PROVE ClientInv'
  <2>1. phase[r] = "previewing" /\ UNCHANGED <<journal, asked, status, clientVars, overlapped>>
    BY <1>4 DEF Accept
  <2>2. CASE UNCHANGED <<phase, plan>>
    BY <2>1, <2>2, IdleStep
  <2>3. CASE Goto(r, "over") /\ UNCHANGED plan
    BY <2>1, <2>3, EarlyStep DEF Goto, Phase
  <2>4. CASE Goto(r, "planned") /\ \E names : plan' = [plan EXCEPT ![r] = names]
    <3>1. JournalInv'
      BY <1>0, <2>1, <2>4 DEF ClientInv, JournalInv, Goto
    <3>2. CallInv'
      BY <1>0, <2>1, <2>4 DEF ClientInv, CallInv, Goto, clientVars
    <3>3. SlotInv' /\ AloneInv'
      BY <1>0, <2>1, <2>4 DEF ClientInv, SlotInv, AloneInv, Goto, clientVars
    <3>4. OnlyOverlapsMisdeliver'
      BY <1>0, <2>1, <2>4 DEF ClientInv, OnlyOverlapsMisdeliver
    <3> QED
      BY <3>1, <3>2, <3>3, <3>4 DEF ClientInv
  <2> QED
    BY <1>4, <2>2, <2>3, <2>4 DEF Accept
<1>5. ASSUME NEW r \in Removals, StartJournal(r) PROVE ClientInv'
  <2>1. CASE Goto(r, "over") /\ UNCHANGED journal
    BY <1>5, <2>1, EarlyStep DEF StartJournal, Goto, Phase
  <2>2. CASE Goto(r, "journalled") /\ journal' = [journal EXCEPT ![r] = "started"]
    BY <1>0, <1>5, <2>2
    DEF StartJournal, ClientInv, JournalInv, CallInv, SlotInv, AloneInv, OnlyOverlapsMisdeliver,
        Goto, clientVars
  <2> QED
    BY <1>5, <2>1, <2>2 DEF StartJournal
<1>6. ASSUME NEW r \in Removals, Send(r) PROVE ClientInv'
  <2>1. phase[r] = "journalled" /\ UNCHANGED <<plan, asked, status>>
    BY <1>6 DEF Send
  <2>2. CASE /\ handler' = r
             /\ pending' = pending \cup {r}
             /\ overlapped' = IF pending = {} THEN overlapped ELSE overlapped \cup pending \cup {r}
             /\ Goto(r, "called")
             /\ UNCHANGED journal
    <3> USE <1>0, <2>1, <2>2, RemovalsOK DEF ClientInv, Goto
    <3>1. JournalInv' /\ CallInv' /\ SlotInv'
      BY DEF JournalInv, CallInv, SlotInv
    <3>2. AloneInv'
      BY DEF AloneInv
    <3>3. OnlyOverlapsMisdeliver'
      BY DEF OnlyOverlapsMisdeliver
    <3> QED
      BY <3>1, <3>2, <3>3
  <2>3. CASE /\ handler' = NoRemoval
             /\ journal' = [journal EXCEPT ![r] = "failed"]
             /\ overlapped' = overlapped \cup pending
             /\ Goto(r, "over")
             /\ UNCHANGED pending
    <3> USE <1>0, <2>1, <2>3, RemovalsOK DEF ClientInv, Goto
    <3>1. JournalInv' /\ CallInv' /\ SlotInv'
      BY DEF JournalInv, CallInv, SlotInv
    <3>2. AloneInv'
      BY DEF AloneInv
    <3>3. OnlyOverlapsMisdeliver'
      BY DEF OnlyOverlapsMisdeliver
    <3> QED
      BY <3>1, <3>2, <3>3
  <2> QED
    BY <1>6, <2>2, <2>3 DEF Send
<1>7. ASSUME NEW r \in Removals, DeliverReply(r) PROVE ClientInv'
  <2>1. CASE status[r] = "removed"
    BY <1>7, <2>1, ClosingStep DEF DeliverReply, AfterSuccess, Goto
  <2>2. CASE status[r] # "removed"
    BY <1>7, <2>2, ClosingStep DEF DeliverReply, AfterFailure, Goto
  <2> QED
    BY <2>1, <2>2
<1>8. ASSUME NEW r \in Removals, TimeOut(r) PROVE ClientInv'
  BY <1>8, ClosingStep DEF TimeOut, AfterFailure, Goto
<1>9. ASSUME NEW r \in Removals, ReadPackages(r) PROVE ClientInv'
  BY <1>9, EarlyStep DEF ReadPackages, Goto, Phase
<1>10. ASSUME NEW r \in Removals, ReadGeneration(r) PROVE ClientInv'
  BY <1>10, EarlyStep DEF ReadGeneration, Goto, Phase
<1>11. ASSUME NEW w \in Refreshes, ReadForRefresh(w) \/ ApplyRefresh(w) PROVE ClientInv'
  BY <1>11, IdleStep DEF ReadForRefresh, ApplyRefresh, removalVars
<1>12. ASSUME Quit \/ PacmanBegin \/ PacmanEnd PROVE ClientInv'
  BY <1>12, IdleStep
  DEF Quit, PacmanBegin, PacmanEnd, Touch, Helper!OtherBegin, Helper!OtherEnd, removalVars
<1>13. ASSUME NEW r \in Removals, Receive(r) PROVE ClientInv'
  <2>1. CallInv'
    BY <1>0, <1>13 DEF Receive, Helper!Submit, ClientInv, CallInv, removalVars, clientVars
  <2>2. JournalInv' /\ SlotInv' /\ AloneInv'
    BY <1>13 DEF Receive, ClientInv, JournalInv, SlotInv, AloneInv, removalVars, clientVars
  <2>3. OnlyOverlapsMisdeliver'
    BY <1>0, <1>13 DEF Receive, Helper!Submit, ClientInv, OnlyOverlapsMisdeliver, removalVars
  <2> QED
    BY <2>1, <2>2, <2>3 DEF ClientInv
<1>14. ASSUME NEW r \in Removals, Answer(r) \/ Begin(r) \/ RemoveOne(r) \/ Grant(r)
              \/ Succeed(r) \/ Fail(r)
       PROVE ClientInv'
  <2>1. CASE Answer(r) \/ RemoveOne(r)
    BY <2>1, IdleStep DEF Answer, RemoveOne, Touch, Helper!RemoveOne, removalVars
  <2>2. CASE Begin(r)
    BY <2>2, HelperStep DEF Begin, Helper!Begin, Helper!Status, removalVars
  <2>3. CASE Grant(r)
    BY <2>3, HelperStep DEF Grant, Helper!Authorize, Helper!Status, removalVars
  <2>4. CASE Succeed(r)
    BY <2>4, HelperStep DEF Succeed, Helper!Succeed, Helper!Status, removalVars
  <2>5. CASE Fail(r)
    BY <2>5, HelperStep DEF Fail, Helper!Fail, Helper!Status, removalVars
  <2> QED
    BY <1>14, <2>1, <2>2, <2>3, <2>4, <2>5
<1>15. CASE UNCHANGED vars
  BY <1>15, IdleStep DEF vars, removalVars
<1> QED
  BY <1>1, <1>2, <1>3, <1>4, <1>5, <1>6, <1>7, <1>8, <1>9, <1>10, <1>11, <1>12, <1>13, <1>14,
     <1>15 DEF Next

LEMMA ClientInvInit == Init => ClientInv
BY DEF Init, ClientInv, JournalInv, CallInv, SlotInv, AloneInv, OnlyOverlapsMisdeliver

LEMMA ClientInvariant == Spec => [](TypeOK /\ ClientInv)
BY TypeOKInit, TypeOKStep, ClientInvInit, ClientInvStep, PTL DEF Spec

\* A removal that did not overlap with another is journalled as done only if
\* the helper completed it.
THEOREM OnlyOverlapsAreMisdelivered == Spec => []OnlyOverlapsMisdeliver
<1>1. ClientInv => OnlyOverlapsMisdeliver
  BY DEF ClientInv
<1> QED
  BY <1>1, ClientInvariant, PTL

\* A removal that waits, and did not overlap with another, owns the slot.
THEOREM WaitingRemovalOwnsTheSlot == Spec => []WaitingOwnsTheSlot
<1>1. ClientInv => WaitingOwnsTheSlot
  BY DEF ClientInv, AloneInv, WaitingOwnsTheSlot
<1> QED
  BY <1>1, ClientInvariant, PTL

LEMMA ClosedStep ==
  ASSUME TypeOK, ClientInv, [Next]_vars,
         NEW r \in Removals, journal[r] \in {"done", "failed"}
  PROVE  journal'[r] = journal[r]
<1>0. /\ journal \in [Removals -> {"absent", "started", "done", "failed"}]
      /\ handler \in Removals \cup {NoRemoval}
  BY DEF TypeOK, StepsOK, ClientOK
<1>1. phase[r] = "over"
  BY DEF ClientInv, JournalInv
<1>2. handler # NoRemoval => handler # r
  BY <1>1 DEF ClientInv, SlotInv
<1>3. ASSUME NEW q \in Removals,
             StartAnalysis(q) \/ ShowPreview(q) \/ Reject(q) \/ Accept(q) \/ ReadPackages(q)
             \/ ReadGeneration(q)
      PROVE  journal'[r] = journal[r]
  BY <1>3 DEF StartAnalysis, ShowPreview, Reject, Accept, ReadPackages, ReadGeneration
<1>4. ASSUME NEW q \in Removals, StartJournal(q) \/ Send(q) PROVE journal'[r] = journal[r]
  BY <1>0, <1>1, <1>4 DEF StartJournal, Send
<1>5. ASSUME NEW q \in Removals, DeliverReply(q) \/ TimeOut(q) PROVE journal'[r] = journal[r]
  BY <1>0, <1>2, <1>5 DEF DeliverReply, TimeOut, AfterSuccess, AfterFailure
<1>6. ASSUME NEW q \in Removals, Receive(q) \/ Answer(q) \/ Grant(q) \/ Begin(q) \/ RemoveOne(q)
             \/ Succeed(q) \/ Fail(q)
      PROVE  journal'[r] = journal[r]
  BY <1>6
  DEF Receive, Answer, Grant, Begin, RemoveOne, Touch, Succeed, Fail, outsideVars, removalVars
<1>7. ASSUME NEW w \in Refreshes, ReadForRefresh(w) \/ ApplyRefresh(w)
      PROVE  journal'[r] = journal[r]
  BY <1>7 DEF ReadForRefresh, ApplyRefresh, removalVars
<1>8. ASSUME Quit \/ PacmanBegin \/ PacmanEnd \/ UNCHANGED vars PROVE journal'[r] = journal[r]
  BY <1>8 DEF Quit, PacmanBegin, PacmanEnd, Touch, outsideVars, removalVars, vars
<1> QED
  BY <1>3, <1>4, <1>5, <1>6, <1>7, <1>8 DEF Next

\* A journal entry is closed once.
THEOREM JournalIsClosedOnce == Spec => ClosedOnce
<1>1. TypeOK /\ ClientInv /\ [Next]_vars =>
        [\A r \in Removals : journal[r] \in {"done", "failed"} => journal'[r] = journal[r]]_vars
  BY ClosedStep
<1> QED
  BY <1>1, ClientInvariant, PTL DEF Spec, ClosedOnce

-----------------------------------------------------------------------------
(* What went, and what the table shows. *)

PacmanInv == holder = Pacman => pacmanRuns > 0

\* Nothing comes back without another package manager.
GoneInv == pacmanRuns = 0 =>
  \A r \in Removals : status[r] = "removed" => asked[r] \cap installed = {}

TargetInv == \A r \in Removals :
  journal[r] # "absent" \/ phase[r] = "planned" => target[r] \in plan[r]

\* A removal's refresh starts once, with its success.
RefreshInv == \A r \in Removals : refresh[r] # "unused" => journal[r] = "done"

\* A refresh that has read a package whose removal succeeded read it before.
OldReadInv == pacmanRuns = 0 =>
  \A r \in Removals \ overlapped, w \in Refreshes :
    journal[r] = "done" /\ refresh[w] = "read" /\ asked[r] \cap reread[w] # {} => w \in undone

\* What is gone was asked for in a call that the helper has taken.
LossInv == pacmanRuns = 0 =>
  \A p \in World.present \ installed :
    \E r \in Removals : p \in asked[r] /\ status[r] # "idle"

\* Only an old read brings a removed row back.
RowsInv == pacmanRuns = 0 =>
  \A r \in Removals \ overlapped : journal[r] = "done" =>
    \A p \in asked[r] \cap rows : \E w \in undone : refresh[w] = "over" /\ p \in reread[w]

EffectInv == /\ PacmanInv /\ GoneInv /\ TargetInv /\ RefreshInv /\ OldReadInv
             /\ LossInv /\ RowsInv

\* Nothing that EffectInv speaks of changes but the phase of a removal, before
\* its plan is made or after that, and targets and plans that are not in use yet.
LEMMA NoEffect ==
  ASSUME TypeOK, ClientInv, EffectInv, NEW r \in Removals,
         journal[r] = "absent",
         \A q \in Removals \ {r} : /\ phase'[q] = phase[q]
                                  /\ target'[q] = target[q]
                                  /\ plan'[q] = plan[q],
         phase'[r] = "planned" => target'[r] \in plan'[r],
         UNCHANGED <<helperVars, rows, journal, refreshVars, overlapped, undone>>
  PROVE  EffectInv'
<1> USE DEF EffectInv, helperVars, refreshVars
<1>1. PacmanInv' /\ GoneInv'
  BY DEF PacmanInv, GoneInv
<1>2. TargetInv'
  BY DEF TargetInv
<1>3. RefreshInv' /\ OldReadInv'
  BY DEF RefreshInv, OldReadInv
<1>4. LossInv'
  BY DEF LossInv
<1>5. RowsInv'
  BY DEF RowsInv
<1> QED
  BY <1>1, <1>2, <1>3, <1>4, <1>5

LEMMA NothingMoves ==
  ASSUME EffectInv,
         UNCHANGED <<installed, holder, asked, status, pacmanRuns, rows, phase, target, plan,
                     journal, refreshVars, overlapped, undone>>
  PROVE  EffectInv'
BY DEF EffectInv, PacmanInv, GoneInv, TargetInv, RefreshInv, OldReadInv, LossInv,
       RowsInv, refreshVars

LEMMA EffectInvStep ==
  ASSUME TypeOK, ClientInv, ClientInv', EffectInv, [Next]_vars
  PROVE  EffectInv'
<1>0. /\ phase \in [Removals -> Phase] /\ status \in [Removals -> Helper!Status]
      /\ journal \in [Removals -> {"absent", "started", "done", "failed"}]
      /\ plan \in [Removals -> SUBSET Names] /\ asked \in [Removals -> SUBSET Names]
      /\ target \in [Removals -> Names \cup {NoName}]
      /\ handler \in Removals \cup {NoRemoval} /\ pending \in SUBSET Removals
      /\ overlapped \in SUBSET Removals /\ undone \in SUBSET Refreshes
      /\ installed \in SUBSET Names /\ pacmanRuns \in Nat
      /\ holder \in Removals \cup {Free, Pacman}
      /\ refresh \in [Refreshes -> {"unused", "reading", "read", "over"}]
      /\ reread \in [Refreshes -> SUBSET Names]
      /\ Removals \subseteq Refreshes
  BY DEF TypeOK, StepsOK, HelperOK, ClientOK, ObserversOK, RefreshOK, Refreshes
<1>1. ASSUME NEW r \in Removals,
             \/ StartAnalysis(r) \/ ShowPreview(r) \/ Reject(r) \/ ReadPackages(r)
             \/ ReadGeneration(r)
      PROVE  EffectInv'
  <2>1. journal[r] = "absent"
    BY <1>1
    DEF StartAnalysis, ShowPreview, Reject, ReadPackages, ReadGeneration, ClientInv, JournalInv
  <2>2. /\ phase'[r] # "planned"
        /\ \A q \in Removals \ {r} :
             phase'[q] = phase[q] /\ target'[q] = target[q] /\ plan'[q] = plan[q]
        /\ UNCHANGED <<helperVars, rows, journal, refreshVars, overlapped, undone>>
    BY <1>0, <1>1
    DEF StartAnalysis, ShowPreview, Reject, ReadPackages, ReadGeneration, Goto, windowVars,
        observerVars
  <2> QED
    BY <2>1, <2>2, NoEffect
<1>2. ASSUME NEW r \in Removals, Accept(r) PROVE EffectInv'
  <2>1. journal[r] = "absent" /\ phase[r] # "planned"
    BY <1>2 DEF Accept, ClientInv, JournalInv
  <2>2. /\ phase'[r] = "planned" => target'[r] \in plan'[r]
        /\ \A q \in Removals \ {r} : phase'[q] = phase[q] /\ plan'[q] = plan[q]
    BY <1>0, <1>2, <2>1 DEF Accept, Goto
  <2>3. UNCHANGED <<helperVars, rows, target, journal, refreshVars, overlapped, undone>>
    BY <1>2 DEF Accept
  <2> QED
    BY <2>1, <2>2, <2>3, NoEffect
<1>3. ASSUME NEW r \in Removals, StartJournal(r) PROVE EffectInv'
  <2>1. CASE UNCHANGED journal
    <3>1. journal[r] = "absent" /\ phase'[r] # "planned"
      BY <1>0, <1>3, <2>1 DEF StartJournal, ClientInv, JournalInv, Goto
    <3>2. /\ \A q \in Removals \ {r} : phase'[q] = phase[q]
          /\ UNCHANGED <<helperVars, rows, target, plan, journal, refreshVars, overlapped, undone>>
      BY <1>0, <1>3, <2>1 DEF StartJournal, Goto, windowVars, observerVars
    <3> QED
      BY <3>1, <3>2, NoEffect
  <2>2. CASE Goto(r, "journalled") /\ journal' = [journal EXCEPT ![r] = "started"]
    <3> USE <1>0, <1>3, <2>2
        DEF StartJournal, EffectInv, Goto, helperVars, windowVars, refreshVars, observerVars
    <3>1. PacmanInv' /\ GoneInv'
      BY DEF PacmanInv, GoneInv
    <3>2. TargetInv'
      BY DEF TargetInv
    <3>3. RefreshInv' /\ OldReadInv'
      BY DEF RefreshInv, OldReadInv, ClientInv, JournalInv
    <3>4. LossInv'
      BY DEF LossInv
    <3>5. RowsInv'
      BY DEF RowsInv
    <3> QED
      BY <3>1, <3>2, <3>3, <3>4, <3>5
  <2> QED
    BY <1>3, <2>1, <2>2 DEF StartJournal
<1>4. ASSUME NEW r \in Removals, Send(r) PROVE EffectInv'
  <2>1. /\ phase[r] = "journalled" /\ phase'[r] # "planned"
        /\ \A q \in Removals \ {r} : phase'[q] = phase[q] /\ journal'[q] = journal[q]
        /\ journal[r] = "started" /\ journal'[r] \in {"started", "failed"}
        /\ overlapped \subseteq overlapped'
        /\ UNCHANGED <<installed, holder, asked, status, pacmanRuns, rows, target, plan, undone>>
        /\ UNCHANGED refreshVars
    BY <1>0, <1>4
    DEF Send, Goto, helperVars, windowVars, ClientInv, JournalInv
  <2> USE <1>0, <2>1 DEF EffectInv, refreshVars
  <2>2. PacmanInv' /\ GoneInv'
    BY DEF PacmanInv, GoneInv
  <2>3. TargetInv'
    BY DEF TargetInv
  <2>4. RefreshInv' /\ OldReadInv'
    BY DEF RefreshInv, OldReadInv
  <2>5. LossInv'
    BY DEF LossInv
  <2>6. RowsInv'
    BY DEF RowsInv
  <2> QED
    BY <2>2, <2>3, <2>4, <2>5, <2>6
<1>5. ASSUME NEW r \in Removals, handler # NoRemoval, AfterFailure(handler),
             UNCHANGED <<helperVars, target, plan, reread, overlapped>>
      PROVE  EffectInv'
  <2>1. /\ phase[handler] = "called" /\ journal[handler] = "started"
        /\ journal' = [journal EXCEPT ![handler] = "failed"]
        /\ phase' = [phase EXCEPT ![handler] = "over"]
        /\ UNCHANGED <<rows, refresh, undone>>
        /\ handler \in Removals
    BY <1>0, <1>5 DEF AfterFailure, Goto, ClientInv, SlotInv, JournalInv
  <2> USE <1>0, <1>5, <2>1 DEF EffectInv, helperVars
  <2>2. PacmanInv' /\ GoneInv'
    BY DEF PacmanInv, GoneInv
  <2>3. TargetInv'
    BY DEF TargetInv
  <2>4. RefreshInv' /\ OldReadInv'
    BY DEF RefreshInv, OldReadInv
  <2>5. LossInv'
    BY DEF LossInv
  <2>6. RowsInv'
    BY DEF RowsInv
  <2> QED
    BY <2>2, <2>3, <2>4, <2>5, <2>6
<1>6. ASSUME NEW r \in Removals, r \in pending, status[r] = "removed",
             handler # NoRemoval, AfterSuccess(handler, asked[r]),
             UNCHANGED <<helperVars, target, plan, reread, overlapped>>
      PROVE  EffectInv'
  <2>1. /\ phase[handler] = "called" /\ journal[handler] = "started"
        /\ refresh[handler] = "unused"
        /\ handler \in Removals
    BY <1>0, <1>6 DEF ClientInv, SlotInv, JournalInv, EffectInv, RefreshInv
  <2>2. /\ journal' = [journal EXCEPT ![handler] = "done"]
        /\ phase' = [phase EXCEPT ![handler] = "over"]
        /\ rows' = rows \ asked[r]
        /\ refresh' = [refresh EXCEPT ![handler] = "reading"]
        /\ undone' = undone \cup {w \in Refreshes : refresh[w] = "read"}
    BY <1>6 DEF AfterSuccess, Goto
  <2>3. handler \notin overlapped => handler = r
    BY <1>6, <2>1 DEF ClientInv, SlotInv, AloneInv
  <2>4. asked[r] = plan[r]
    BY <1>6 DEF ClientInv, CallInv
  <2> USE <1>0, <1>6, <2>1, <2>2 DEF EffectInv, helperVars
  <2>5. PacmanInv' /\ GoneInv'
    BY DEF PacmanInv, GoneInv
  <2>6. TargetInv'
    BY DEF TargetInv
  <2>7. RefreshInv' /\ OldReadInv'
    BY DEF RefreshInv, OldReadInv
  <2>8. LossInv'
    BY DEF LossInv
  <2>9. RowsInv'
    <3> SUFFICES ASSUME pacmanRuns' = 0, NEW q \in Removals \ overlapped',
                        journal'[q] = "done", NEW p \in asked[q] \cap rows'
                 PROVE  \E w \in undone' : refresh'[w] = "over" /\ p \in reread'[w]
      BY DEF RowsInv
    <3>1. q # handler
      BY <2>3
    <3>2. PICK w \in undone : refresh[w] = "over" /\ p \in reread[w]
      BY <3>1 DEF RowsInv
    <3> QED
      BY <3>2
  <2> QED
    BY <2>5, <2>6, <2>7, <2>8, <2>9
<1>7. ASSUME NEW r \in Removals, DeliverReply(r) \/ TimeOut(r) PROVE EffectInv'
  <2>1. UNCHANGED <<helperVars, target, plan, reread, overlapped>> /\ r \in pending
    BY <1>7 DEF DeliverReply, TimeOut
  <2>2. CASE handler = NoRemoval
    BY <1>7, <2>1, <2>2, NothingMoves DEF DeliverReply, TimeOut, helperVars, refreshVars
  <2>3. CASE handler # NoRemoval
    BY <1>5, <1>6, <1>7, <2>1, <2>3 DEF DeliverReply, TimeOut
  <2> QED
    BY <2>2, <2>3
<1>8. ASSUME NEW w \in Refreshes, ReadForRefresh(w) PROVE EffectInv'
  <2>1. /\ refresh[w] = "reading"
        /\ \/ /\ refresh' = [refresh EXCEPT ![w] = "read"]
              /\ reread' = [reread EXCEPT ![w] = installed]
           \/ /\ refresh' = [refresh EXCEPT ![w] = "over"]
              /\ UNCHANGED reread
        /\ UNCHANGED <<helperVars, windowVars, removalVars, overlapped, undone>>
    BY <1>8 DEF ReadForRefresh, observerVars
  <2> USE <1>0, <2>1 DEF EffectInv, helperVars, windowVars, removalVars
  <2>2. PacmanInv' /\ GoneInv' /\ TargetInv' /\ LossInv'
    BY DEF PacmanInv, GoneInv, TargetInv, LossInv
  <2>3. RefreshInv'
    BY DEF RefreshInv
  <2>4. OldReadInv'
    <3> SUFFICES ASSUME pacmanRuns' = 0, NEW r \in Removals \ overlapped', NEW u \in Refreshes,
                        journal'[r] = "done", refresh'[u] = "read",
                        asked[r] \cap reread'[u] # {}
                 PROVE  u \in undone'
      BY DEF OldReadInv
    <3>1. asked[r] \cap installed = {}
      BY DEF ClientInv, OnlyOverlapsMisdeliver, GoneInv
    <3> QED
      BY <3>1 DEF OldReadInv
  <2>5. RowsInv'
    BY DEF RowsInv
  <2> QED
    BY <2>2, <2>3, <2>4, <2>5
<1>9. ASSUME NEW w \in Refreshes, ApplyRefresh(w) PROVE EffectInv'
  <2>1. /\ refresh[w] = "read"
        /\ rows' = reread[w]
        /\ refresh' = [refresh EXCEPT ![w] = "over"]
        /\ UNCHANGED <<helperVars, removalVars, reread, overlapped, undone>>
    BY <1>9 DEF ApplyRefresh, observerVars
  <2> USE <1>0, <2>1 DEF EffectInv, helperVars, removalVars
  <2>2. PacmanInv' /\ GoneInv' /\ TargetInv' /\ LossInv'
    BY DEF PacmanInv, GoneInv, TargetInv, LossInv
  <2>3. RefreshInv' /\ OldReadInv'
    BY DEF RefreshInv, OldReadInv
  <2>4. RowsInv'
    BY DEF RowsInv, OldReadInv
  <2> QED
    BY <2>2, <2>3, <2>4
<1>10. ASSUME Quit PROVE EffectInv'
  BY <1>10, NothingMoves DEF Quit, helperVars, removalVars, observerVars
<1>11. ASSUME NEW r \in Removals, Receive(r) PROVE EffectInv'
  <2>1. /\ status[r] = "idle" /\ status' = [status EXCEPT ![r] = "submitted"]
        /\ \A q \in Removals \ {r} : asked'[q] = asked[q]
        /\ UNCHANGED <<installed, holder, pacmanRuns, rows, phase, target, plan, journal,
                       refreshVars, overlapped, undone>>
    BY <1>0, <1>11
    DEF Receive, Helper!Submit, outsideVars, windowVars, removalVars, observerVars
  <2>2. r \notin overlapped => journal[r] # "done"
    BY <2>1 DEF ClientInv, OnlyOverlapsMisdeliver
  <2> USE <1>0, <2>1, <2>2 DEF EffectInv, refreshVars
  <2>3. PacmanInv' /\ GoneInv' /\ TargetInv' /\ RefreshInv'
    BY DEF PacmanInv, GoneInv, TargetInv, RefreshInv
  <2>4. LossInv'
    BY DEF LossInv
  <2>5. OldReadInv'
    BY DEF OldReadInv
  <2>6. RowsInv'
    BY DEF RowsInv
  <2> QED
    BY <2>3, <2>4, <2>5, <2>6
<1>12. ASSUME NEW r \in Removals, Answer(r) PROVE EffectInv'
  BY <1>12, NothingMoves DEF Answer, outsideVars, windowVars, removalVars, observerVars
<1>13. ASSUME NEW r \in Removals, Grant(r) \/ Begin(r) \/ Succeed(r) \/ Fail(r) \/ RemoveOne(r)
       PROVE  EffectInv'
  <2>1. /\ UNCHANGED <<asked, pacmanRuns, rows, phase, target, plan, journal, refreshVars,
                       overlapped, undone>>
        /\ holder' \in {holder, r, Free}
    BY <1>13
    DEF Grant, Begin, Succeed, Fail, RemoveOne, Touch, Helper!Authorize, Helper!Begin,
        Helper!Succeed, Helper!Fail, Helper!RemoveOne, outsideVars, windowVars, removalVars,
        observerVars
  <2>2. \/ installed' = installed
        \/ \E p \in asked[r] : installed' = installed \ {p} /\ status[r] = "removing"
    BY <1>13
    DEF Grant, Begin, Succeed, Fail, RemoveOne, Helper!Authorize, Helper!Begin, Helper!Succeed,
        Helper!Fail, Helper!RemoveOne
  <2>3. \A q \in Removals : status'[q] = "removed" =>
          status[q] = "removed" \/ asked[q] \cap installed = {}
    BY <1>0, <1>13
    DEF Grant, Begin, Succeed, Fail, RemoveOne, Helper!Authorize, Helper!Begin, Helper!Succeed,
        Helper!Fail, Helper!RemoveOne
  <2>4. PacmanInv'
    BY <2>1, RemovalsOK DEF EffectInv, PacmanInv
  <2>5. GoneInv'
    BY <2>1, <2>2, <2>3 DEF EffectInv, GoneInv
  <2>6. TargetInv' /\ RefreshInv' /\ OldReadInv' /\ RowsInv'
    BY <2>1 DEF EffectInv, TargetInv, RefreshInv, OldReadInv, RowsInv, refreshVars
  <2>7. \A q \in Removals : status[q] # "idle" => status'[q] # "idle"
    BY <1>0, <1>13
    DEF Grant, Begin, Succeed, Fail, RemoveOne, Helper!Authorize, Helper!Begin, Helper!Succeed,
        Helper!Fail, Helper!RemoveOne
  <2>8. LossInv'
    <3> SUFFICES ASSUME pacmanRuns' = 0, NEW p \in World.present \ installed'
                 PROVE  \E q \in Removals : p \in asked'[q] /\ status'[q] # "idle"
      BY DEF LossInv
    <3>1. CASE p \in installed
      BY <2>1, <2>2, <2>7, <3>1
    <3>2. CASE p \notin installed
      BY <2>1, <2>7, <3>2 DEF EffectInv, LossInv
    <3> QED
      BY <3>1, <3>2
  <2> QED
    BY <2>4, <2>5, <2>6, <2>8 DEF EffectInv
<1>14. ASSUME PacmanBegin \/ PacmanEnd PROVE EffectInv'
  <2>1. pacmanRuns' \in Nat /\ pacmanRuns' > 0
    BY <1>0, <1>14, RemovalsOK
    DEF PacmanBegin, PacmanEnd, Helper!OtherEnd, EffectInv, PacmanInv
  <2>2. UNCHANGED <<phase, target, plan, journal, refresh>>
    BY <1>14 DEF PacmanBegin, PacmanEnd, Touch, outsideVars, removalVars, refreshVars
  <2> QED
    BY <2>1, <2>2
    DEF EffectInv, PacmanInv, GoneInv, TargetInv, RefreshInv, OldReadInv, LossInv,
        RowsInv
<1>15. CASE UNCHANGED vars
  BY <1>15, NothingMoves DEF vars, helperVars, windowVars, removalVars, observerVars
<1> QED
  BY <1>1, <1>2, <1>3, <1>4, <1>7, <1>8, <1>9, <1>10, <1>11, <1>12, <1>13, <1>14, <1>15 DEF Next

LEMMA EffectInvInit == Init => EffectInv
BY RemovalsOK
DEF Init, EffectInv, PacmanInv, GoneInv, TargetInv, RefreshInv, OldReadInv, LossInv,
    RowsInv, Refreshes

LEMMA EffectInvariant == Spec => [](TypeOK /\ ClientInv /\ EffectInv)
BY TypeOKInit, TypeOKStep, ClientInvInit, ClientInvStep, EffectInvInit, EffectInvStep, PTL DEF Spec

\* Whatever went without another package manager is in the plan of a journalled
\* removal.
THEOREM LossesAreInTheJournal == Spec => []LossesAreJournalled
<1>1. ClientInv /\ EffectInv => LossesAreJournalled
  BY DEF ClientInv, CallInv, EffectInv, LossInv, LossesAreJournalled
<1> QED
  BY <1>1, EffectInvariant, PTL

\* After a success only a refresh that had read before brings the row back.
THEOREM RowsComeBackFromOldReads == Spec => []OnlyOldReadsRestoreRows
<1>1. ASSUME ClientInv, EffectInv, pacmanRuns = 0, NEW r \in Removals \ overlapped,
             journal[r] = "done", target[r] \in rows
      PROVE  \E w \in undone : refresh[w] = "over" /\ target[r] \in reread[w]
  <2>1. status[r] = "removed"
    BY <1>1 DEF ClientInv, OnlyOverlapsMisdeliver
  <2>2. target[r] \in asked[r]
    BY <1>1, <2>1 DEF ClientInv, CallInv, EffectInv, TargetInv
  <2> QED
    BY <1>1, <2>2 DEF EffectInv, RowsInv
<1>2. ClientInv /\ EffectInv => OnlyOldReadsRestoreRows
  BY <1>1 DEF OnlyOldReadsRestoreRows
<1> QED
  BY <1>2, EffectInvariant, PTL

-----------------------------------------------------------------------------
(* What the window knows of the system. *)

\* What the window and its workers hold was in the system before, and is a superset
\* of what still is.
WorldInv == pacmanRuns = 0 =>
  /\ installed \subseteq packages.present
  /\ installed \subseteq World.present
  /\ rows \subseteq World.present
  /\ \A w \in Refreshes : refresh[w] = "read" =>
       installed \subseteq reread[w] /\ reread[w] \subseteq World.present
  /\ \A r \in Removals : phase[r] \in {"stamping", "analysed", "previewing"} =>
       target[r] \in World.present

LEMMA WorldFrame ==
  ASSUME WorldInv,
         installed' \subseteq installed, rows' \subseteq rows,
         UNCHANGED <<packages, reread, pacmanRuns>>,
         \A w \in Refreshes : refresh'[w] = "read" => refresh[w] = "read",
         \A r \in Removals :
           phase'[r] \in {"stamping", "analysed", "previewing"} =>
             phase[r] \in {"stamping", "analysed", "previewing"} /\ target'[r] = target[r]
  PROVE  WorldInv'
BY DEF WorldInv

LEMMA WorldInvStep ==
  ASSUME TypeOK, PacmanInv, WorldInv, [Next]_vars
  PROVE  WorldInv'
<1>0. /\ phase \in [Removals -> Phase] /\ target \in [Removals -> Names \cup {NoName}]
      /\ handler \in Removals \cup {NoRemoval} /\ pacmanRuns \in Nat
      /\ refresh \in [Refreshes -> {"unused", "reading", "read", "over"}]
      /\ reread \in [Refreshes -> SUBSET Names]
  BY DEF TypeOK, StepsOK, HelperOK, ClientOK, RefreshOK
<1> USE DEF helperVars, windowVars, removalVars, refreshVars, outsideVars
<1>1. ASSUME NEW r \in Removals,
             \/ StartAnalysis(r) \/ ShowPreview(r) \/ Reject(r) \/ Accept(r)
             \/ StartJournal(r) \/ Send(r) \/ ReadGeneration(r)
      PROVE  WorldInv'
  <2>1. UNCHANGED <<installed, rows, packages, reread, pacmanRuns, refresh>>
    BY <1>1
    DEF StartAnalysis, ShowPreview, Reject, Accept, StartJournal, Send, ReadGeneration
  <2>2. \A q \in Removals :
          phase'[q] \in {"stamping", "analysed", "previewing"} =>
            phase[q] \in {"stamping", "analysed", "previewing"} /\ target'[q] = target[q]
    BY <1>0, <1>1
    DEF StartAnalysis, ShowPreview, Reject, Accept, StartJournal, Send, ReadGeneration, Goto
  <2> QED
    BY <2>1, <2>2, WorldFrame
<1>2. ASSUME NEW r \in Removals, DeliverReply(r) \/ TimeOut(r) PROVE WorldInv'
  <2>1. UNCHANGED <<installed, packages, reread, pacmanRuns, target>>
    BY <1>2 DEF DeliverReply, TimeOut
  <2>2. /\ rows' \subseteq rows
        /\ \A w \in Refreshes : refresh'[w] = "read" => refresh[w] = "read"
        /\ \A q \in Removals : phase'[q] \in {phase[q], "over"}
    BY <1>0, <1>2 DEF DeliverReply, TimeOut, AfterSuccess, AfterFailure, Goto
  <2> QED
    BY <2>1, <2>2, WorldFrame
<1>3. ASSUME NEW r \in Removals, ReadPackages(r) PROVE WorldInv'
  BY <1>0, <1>3 DEF ReadPackages, Goto, WorldInv
<1>4. ASSUME NEW w \in Refreshes, ReadForRefresh(w) PROVE WorldInv'
  BY <1>0, <1>4 DEF ReadForRefresh, WorldInv
<1>5. ASSUME NEW w \in Refreshes, ApplyRefresh(w) PROVE WorldInv'
  BY <1>0, <1>5 DEF ApplyRefresh, WorldInv
<1>6. CASE Quit
  BY <1>6, WorldFrame DEF Quit
<1>7. ASSUME NEW r \in Removals,
             \/ Receive(r) \/ Answer(r) \/ Grant(r) \/ Begin(r) \/ Succeed(r) \/ Fail(r)
             \/ RemoveOne(r)
      PROVE  WorldInv'
  <2>1. UNCHANGED <<rows, packages, reread, refresh, phase, target, pacmanRuns>>
    BY <1>7 DEF Receive, Answer, Grant, Begin, Succeed, Fail, RemoveOne, Touch
  <2>2. installed' \subseteq installed
    BY <1>7
    DEF Receive, Answer, Grant, Begin, Succeed, Fail, RemoveOne, Helper!Submit,
        Helper!Authorize, Helper!Begin, Helper!Succeed, Helper!Fail, Helper!RemoveOne
  <2> QED
    BY <2>1, <2>2, WorldFrame
<1>8. ASSUME PacmanBegin \/ PacmanEnd PROVE WorldInv'
  <2>1. pacmanRuns' \in Nat /\ pacmanRuns' > 0
    BY <1>0, <1>8, RemovalsOK DEF PacmanBegin, PacmanEnd, Helper!OtherEnd, PacmanInv
  <2> QED
    BY <2>1 DEF WorldInv
<1>9. CASE UNCHANGED vars
  BY <1>9, WorldFrame DEF vars
<1> QED
  BY <1>1, <1>2, <1>3, <1>4, <1>5, <1>6, <1>7, <1>8, <1>9 DEF Next

LEMMA WorldInvInit == Init => WorldInv
BY RemovalsOK DEF Init, WorldInv, Refreshes

LEMMA WorldInvariant == Spec => [](TypeOK /\ ClientInv /\ EffectInv /\ WorldInv)
<1>1. EffectInv => PacmanInv
  BY DEF EffectInv
<1> QED
  BY <1>1, EffectInvariant, WorldInvInit, WorldInvStep, PTL DEF Spec

\* A row of a package that is gone waits for an answer, or is what a failure, an
\* overlap or an old read left.
THEOREM GoneRowsAreExplained == Spec => []GoneRowsHaveACause
<1>1. ASSUME TypeOK, ClientInv, EffectInv, WorldInv, pacmanRuns = 0, NEW p \in rows \ installed
      PROVE  \E r \in Removals :
               /\ p \in asked[r]
               /\ \/ phase[r] = "called" \/ journal[r] = "failed" \/ r \in overlapped
                  \/ \E w \in undone : refresh[w] = "over" /\ p \in reread[w]
  <2>1. PICK r \in Removals : p \in asked[r] /\ status[r] # "idle"
    BY <1>1 DEF WorldInv, EffectInv, LossInv
  <2>2. phase[r] \in {"called", "over"} /\ journal[r] # "absent"
    BY <1>1, <2>1 DEF ClientInv, CallInv
  <2>3. CASE phase[r] = "called" \/ r \in overlapped
    BY <2>1, <2>3
  <2>4. CASE phase[r] = "over" /\ r \notin overlapped
    <3>1. journal[r] \in {"done", "failed"}
      BY <1>1, <2>2, <2>4 DEF ClientInv, JournalInv, TypeOK, StepsOK
    <3>2. CASE journal[r] = "done"
      BY <1>1, <2>1, <2>4, <3>2 DEF EffectInv, RowsInv
    <3> QED
      BY <2>1, <3>1, <3>2
  <2> QED
    BY <2>2, <2>3, <2>4
<1>2. TypeOK /\ ClientInv /\ EffectInv /\ WorldInv => GoneRowsHaveACause
  BY <1>1 DEF GoneRowsHaveACause
<1> QED
  BY <1>2, WorldInvariant, PTL

\* The removal that took the package away has been taken by the helper.
CrashInv ==
  running = "crashed" /\ pacmanRuns = 0 =>
    \E r, q \in Removals : /\ r # q /\ phase[r] = "previewing"
                           /\ target[r] \in asked[q] /\ status[q] # "idle"

LEMMA CrashFrame ==
  ASSUME CrashInv,
         running' = running \/ running' # "crashed",
         pacmanRuns' = pacmanRuns,
         running = "crashed" => UNCHANGED <<phase, target>>,
         \A q \in Removals : status[q] # "idle" => status'[q] # "idle" /\ asked'[q] = asked[q]
  PROVE  CrashInv'
BY DEF CrashInv

LEMMA CrashInvStep ==
  ASSUME TypeOK, ClientInv, EffectInv, WorldInv, CrashInv, [Next]_vars
  PROVE  CrashInv'
<1>0. /\ phase \in [Removals -> Phase] /\ status \in [Removals -> Helper!Status]
      /\ asked \in [Removals -> SUBSET Names] /\ pacmanRuns \in Nat
  BY DEF TypeOK, StepsOK, HelperOK
<1> USE DEF helperVars, windowVars, removalVars, outsideVars
<1>1. ASSUME NEW r \in Removals,
             \/ StartAnalysis(r) \/ ShowPreview(r) \/ Reject(r) \/ StartJournal(r) \/ Send(r)
             \/ DeliverReply(r) \/ TimeOut(r) \/ ReadPackages(r) \/ ReadGeneration(r)
      PROVE  CrashInv'
  <2>1. running = "yes" /\ running' = "yes"
    BY <1>1
    DEF StartAnalysis, ShowPreview, Reject, StartJournal, Send, DeliverReply, TimeOut,
        ReadPackages, ReadGeneration, AtEventLoop
  <2> QED
    BY <2>1 DEF CrashInv
<1>2. ASSUME NEW r \in Removals, Accept(r) PROVE CrashInv'
  <2>1. CASE /\ target[r] \notin Snapshot(packages.present, packages.full).present
             /\ running' = "crashed"
             /\ UNCHANGED <<phase, plan>>
    <3> SUFFICES ASSUME pacmanRuns = 0
                 PROVE  \E q \in Removals :
                          r # q /\ target[r] \in asked[q] /\ status[q] # "idle"
      BY <1>2, <2>1 DEF Accept, CrashInv
    <3>1. phase[r] = "previewing"
      BY <1>2 DEF Accept
    <3>2. target[r] \in World.present \ installed
      BY <2>1, <3>1, WorldOK DEF WorldInv, Snapshot, Snapshots
    <3>3. PICK q \in Removals : target[r] \in asked[q] /\ status[q] # "idle"
      BY <3>2 DEF EffectInv, LossInv
    <3>4. q # r
      BY <3>1, <3>3 DEF ClientInv, CallInv
    <3> QED
      BY <3>3, <3>4
  <2>2. CASE UNCHANGED running
    BY <1>2, <2>2 DEF Accept, AtEventLoop, CrashInv
  <2> QED
    BY <1>2, <2>1, <2>2 DEF Accept
<1>3. ASSUME NEW w \in Refreshes, ReadForRefresh(w) \/ ApplyRefresh(w) PROVE CrashInv'
  BY <1>3, CrashFrame DEF ReadForRefresh, ApplyRefresh
<1>4. CASE Quit
  BY <1>4 DEF Quit, CrashInv
<1>5. ASSUME NEW r \in Removals,
             \/ Receive(r) \/ Answer(r) \/ Grant(r) \/ Begin(r) \/ Succeed(r) \/ Fail(r)
             \/ RemoveOne(r)
      PROVE  CrashInv'
  <2>1. UNCHANGED <<running, pacmanRuns, phase, target>>
    BY <1>5 DEF Receive, Answer, Grant, Begin, Succeed, Fail, RemoveOne, Touch
  <2>2. \A q \in Removals : status[q] # "idle" => status'[q] # "idle" /\ asked'[q] = asked[q]
    BY <1>0, <1>5
    DEF Receive, Answer, Grant, Begin, Succeed, Fail, RemoveOne, Helper!Submit,
        Helper!Authorize, Helper!Begin, Helper!Succeed, Helper!Fail, Helper!RemoveOne
  <2> QED
    BY <2>1, <2>2, CrashFrame
<1>6. ASSUME PacmanBegin \/ PacmanEnd PROVE CrashInv'
  <2>1. pacmanRuns' \in Nat /\ pacmanRuns' > 0
    BY <1>0, <1>6, RemovalsOK DEF PacmanBegin, PacmanEnd, Helper!OtherEnd, EffectInv, PacmanInv
  <2> QED
    BY <2>1 DEF CrashInv
<1>7. CASE UNCHANGED vars
  BY <1>7, CrashFrame DEF vars
<1> QED
  BY <1>1, <1>2, <1>3, <1>4, <1>5, <1>6, <1>7 DEF Next

\* The window crashes on an accepted preview only if another removal, or another
\* package manager, took the package while the preview was open.
THEOREM CrashesAreExplained == Spec => []CrashesHaveACause
<1>1. Init => CrashInv
  BY DEF Init, CrashInv
<1>2. CrashInv => CrashesHaveACause
  BY DEF CrashInv, CrashesHaveACause
<1> QED
  BY <1>1, <1>2, WorldInvariant, CrashInvStep, PTL DEF Spec

-----------------------------------------------------------------------------
(* What the preview shows, and what the helper checks. *)

Fits(r) ==
  /\ target[r] \in installed
  /\ shown[r] = NewOrphans(Snapshot(installed, TRUE), target[r])

\* The analysis of r is complete, and may still lead to a removal.
Weighed(r) ==
  \/ phase[r] \in {"analysed", "previewing", "planned", "journalled", "called"}
  \/ r \in pending
  \/ status[r] = "submitted"

\* A generation that is still the current one vouches for the preview.
StampInv ==
  \A r \in Removals :
    /\ generation[r] <= dbGen
    /\ phase[r] = "stamping" => r \in drifted \/ Fits(r)
    /\ Weighed(r) => r \in drifted \/ generation[r] # dbGen \/ Fits(r)

LEMMA StampFrame ==
  ASSUME StampInv, UNCHANGED <<installed, dbGen, generation, drifted>>,
         \A r \in Removals :
           /\ phase'[r] = "stamping" =>
                phase[r] = "stamping" /\ target'[r] = target[r] /\ shown'[r] = shown[r]
           /\ Weighed(r)' => Weighed(r) /\ target'[r] = target[r] /\ shown'[r] = shown[r]
  PROVE  StampInv'
<1> SUFFICES ASSUME NEW r \in Removals
             PROVE  /\ generation[r] <= dbGen
                    /\ phase'[r] = "stamping" => r \in drifted \/ Fits(r)'
                    /\ Weighed(r)' => r \in drifted \/ generation[r] # dbGen \/ Fits(r)'
  BY DEF StampInv
<1>1. target'[r] = target[r] /\ shown'[r] = shown[r] => (Fits(r)' <=> Fits(r))
  BY DEF Fits
<1> QED
  BY <1>1 DEF StampInv

\* Whatever changes the database makes every generation that was read an old one.
LEMMA StampTouch ==
  ASSUME TypeOK, StampInv, Touch, status' = status
  PROVE  StampInv'
<1>1. dbGen' = dbGen + 1 /\ dbGen \in Nat /\ generation' = generation
      /\ generation \in [Removals -> Nat]
  BY DEF Touch, removalVars, TypeOK, HelperOK, StepsOK
<1> SUFFICES ASSUME NEW r \in Removals
             PROVE  /\ generation'[r] <= dbGen'
                    /\ phase'[r] = "stamping" => r \in drifted'
                    /\ generation'[r] # dbGen'
  BY DEF StampInv
<1>2. phase'[r] = "stamping" => r \in drifted'
  BY DEF Touch, removalVars
<1>3. generation[r] <= dbGen
  BY DEF StampInv
<1> QED
  BY <1>1, <1>2, <1>3

LEMMA StampInvStep ==
  ASSUME TypeOK, ClientInv, StampInv, [Next]_vars
  PROVE  StampInv'
<1>0. /\ phase \in [Removals -> Phase] /\ status \in [Removals -> Helper!Status]
      /\ target \in [Removals -> Names \cup {NoName}] /\ shown \in [Removals -> SUBSET Names]
      /\ generation \in [Removals -> Nat] /\ dbGen \in Nat
      /\ handler \in Removals \cup {NoRemoval} /\ pending \in SUBSET Removals
  BY DEF TypeOK, StepsOK, HelperOK, ClientOK
<1> USE DEF helperVars, windowVars, removalVars, clientVars, observerVars, outsideVars
<1>1. ASSUME NEW r \in Removals, StartAnalysis(r) \/ ReadPackages(r) \/ ReadGeneration(r)
      PROVE  StampInv'
  <2>1. /\ phase[r] \notin {"called", "over"}
        /\ UNCHANGED <<installed, dbGen, status, pending, drifted>>
    BY <1>1 DEF StartAnalysis, ReadPackages, ReadGeneration
  <2>2. r \notin pending /\ status[r] = "idle"
    BY <2>1 DEF ClientInv, CallInv
  <2>3. \A q \in Removals \ {r} :
          /\ phase'[q] = phase[q] /\ target'[q] = target[q]
          /\ shown'[q] = shown[q] /\ generation'[q] = generation[q]
    BY <1>0, <1>1 DEF StartAnalysis, ReadPackages, ReadGeneration, Goto
  <2>4. /\ generation'[r] <= dbGen
        /\ phase'[r] = "stamping" => r \in drifted \/ Fits(r)'
        /\ Weighed(r)' => r \in drifted \/ generation'[r] # dbGen \/ Fits(r)'
    <3>1. CASE StartAnalysis(r)
      BY <1>0, <2>1, <2>2, <3>1 DEF StartAnalysis, Goto, Weighed, StampInv
    <3>2. CASE ReadPackages(r)
      BY <1>0, <2>1, <2>2, <3>2 DEF ReadPackages, Goto, Weighed, Fits, StampInv
    <3>3. CASE ReadGeneration(r)
      <4>1. r \in drifted \/ Fits(r)
        BY <3>3 DEF ReadGeneration, StampInv
      <4>2. Fits(r) => Fits(r)'
        BY <2>1, <3>3 DEF ReadGeneration, Fits
      <4>3. generation'[r] = dbGen /\ phase'[r] = "analysed"
        BY <1>0, <3>3 DEF ReadGeneration, Goto
      <4> QED
        BY <1>0, <4>1, <4>2, <4>3
    <3> QED
      BY <1>1, <3>1, <3>2, <3>3
  <2>5. \A q \in Removals \ {r} :
          (Weighed(q)' <=> Weighed(q)) /\ (Fits(q)' <=> Fits(q))
    BY <2>1, <2>3 DEF Weighed, Fits
  <2> QED
    BY <2>1, <2>3, <2>4, <2>5 DEF StampInv
<1>2. ASSUME NEW r \in Removals,
             \/ ShowPreview(r) \/ Reject(r) \/ Accept(r) \/ StartJournal(r) \/ Send(r)
             \/ DeliverReply(r) \/ TimeOut(r)
      PROVE  StampInv'
  <2>1. UNCHANGED <<installed, dbGen, generation, target, shown, drifted, status>>
    BY <1>2 DEF ShowPreview, Reject, Accept, StartJournal, Send, DeliverReply, TimeOut
  <2>2. \A q \in Removals :
          /\ phase'[q] # phase[q] =>
               /\ phase'[q] # "stamping"
               /\ phase'[q] = "over" \/ Weighed(q)
          /\ q \in pending' => q \in pending \/ Weighed(q)
    <3>1. CASE ShowPreview(r) \/ Reject(r) \/ StartJournal(r)
      BY <1>0, <3>1 DEF ShowPreview, Reject, StartJournal, Goto, Weighed
    <3>2. CASE Accept(r)
      <4>1. phase[r] = "previewing" /\ pending' = pending
        BY <3>2 DEF Accept
      <4>2. phase' = phase \/ Goto(r, "over") \/ Goto(r, "planned")
        BY <3>2 DEF Accept
      <4> QED
        BY <1>0, <4>1, <4>2 DEF Goto, Weighed
    <3>3. CASE Send(r)
      BY <1>0, <3>3 DEF Send, Goto, Weighed
    <3>4. CASE DeliverReply(r) \/ TimeOut(r)
      BY <1>0, <3>4 DEF DeliverReply, TimeOut, AfterSuccess, AfterFailure, Goto
    <3> QED
      BY <1>2, <3>1, <3>2, <3>3, <3>4
  <2>3. \A q \in Removals : Weighed(q)' => Weighed(q)
    BY <2>1, <2>2 DEF Weighed
  <2> QED
    BY <2>1, <2>2, <2>3, StampFrame
<1>3. ASSUME \/ \E w \in Refreshes : ReadForRefresh(w) \/ ApplyRefresh(w)
             \/ Quit \/ PacmanBegin \/ UNCHANGED vars
      PROVE  StampInv'
  <2>1. UNCHANGED <<installed, dbGen, generation, target, shown, drifted, status, phase, pending>>
    BY <1>3
    DEF ReadForRefresh, ApplyRefresh, Quit, PacmanBegin, Helper!OtherBegin, vars
  <2> QED
    BY <2>1, StampFrame DEF Weighed
<1>4. ASSUME NEW r \in Removals,
             Receive(r) \/ Answer(r) \/ Grant(r) \/ Begin(r) \/ Succeed(r) \/ Fail(r)
      PROVE  StampInv'
  <2>1. UNCHANGED <<installed, dbGen, generation, target, shown, drifted, phase, pending>>
    BY <1>4
    DEF Receive, Answer, Grant, Begin, Succeed, Fail, Helper!Submit, Helper!Authorize,
        Helper!Begin, Helper!Succeed, Helper!Fail
  <2>2. \A q \in Removals : status'[q] = "submitted" => status[q] = "submitted" \/ q \in pending
    BY <1>0, <1>4
    DEF Receive, Answer, Grant, Begin, Succeed, Fail, Helper!Submit, Helper!Authorize,
        Helper!Begin, Helper!Succeed, Helper!Fail
  <2> QED
    BY <2>1, <2>2, StampFrame DEF Weighed
<1>5. ASSUME NEW r \in Removals, RemoveOne(r) PROVE StampInv'
  BY <1>5, StampTouch DEF RemoveOne, Helper!RemoveOne
<1>6. CASE PacmanEnd
  BY <1>6, StampTouch DEF PacmanEnd, Helper!OtherEnd
<1> QED
  BY <1>1, <1>2, <1>3, <1>4, <1>5, <1>6 DEF Next

LEMMA StampInvInit == Init => StampInv
BY DEF Init, StampInv, Weighed

LEMMA GrantStep ==
  ASSUME TypeOK, StampInv, [Next]_vars, NEW r \in Removals,
         status[r] = "submitted", status'[r] = "authorized"
  PROVE  r \in drifted \/ Fits(r)
<1>1. status \in [Removals -> Helper!Status]
  BY DEF TypeOK, HelperOK
<1>2. Grant(r)
  <2>1. status' # status
    OBVIOUS
  <2>2. ASSUME NEW q \in Removals,
               \/ StartAnalysis(q) \/ ShowPreview(q) \/ Reject(q) \/ Accept(q)
               \/ StartJournal(q) \/ Send(q) \/ DeliverReply(q) \/ TimeOut(q)
               \/ ReadPackages(q) \/ ReadGeneration(q) \/ Answer(q) \/ RemoveOne(q)
        PROVE  FALSE
    BY <2>1, <2>2
    DEF StartAnalysis, ShowPreview, Reject, Accept, StartJournal, Send, DeliverReply, TimeOut,
        ReadPackages, ReadGeneration, Answer, RemoveOne, Helper!RemoveOne, helperVars
  <2>3. ASSUME NEW q \in Removals, Receive(q) \/ Begin(q) \/ Succeed(q) \/ Fail(q)
        PROVE  FALSE
    BY <1>1, <2>3
    DEF Receive, Begin, Succeed, Fail, Helper!Submit, Helper!Begin, Helper!Succeed, Helper!Fail
  <2>4. ASSUME NEW q \in Removals, Grant(q) PROVE q = r
    BY <1>1, <2>4 DEF Grant, Helper!Authorize
  <2>5. ~(\E w \in Refreshes : ReadForRefresh(w) \/ ApplyRefresh(w))
    BY <2>1 DEF ReadForRefresh, ApplyRefresh, helperVars
  <2>6. ~Quit /\ ~PacmanBegin /\ ~PacmanEnd /\ ~UNCHANGED vars
    BY <2>1 DEF Quit, PacmanBegin, PacmanEnd, Helper!OtherBegin, Helper!OtherEnd, helperVars, vars
  <2> QED
    BY <2>2, <2>3, <2>4, <2>5, <2>6 DEF Next
<1>3. generation[r] = dbGen
  BY <1>2 DEF Grant
<1> QED
  BY <1>3 DEF StampInv, Weighed

\* Between the analysis and the helper's grant nothing has changed, unless it did
\* between the two reads of the analysis.
THEOREM GrantsAreAsShown == Spec => GrantedAsShown
<1>1. TypeOK /\ StampInv /\ [Next]_vars =>
        [\A r \in Removals :
           status[r] = "submitted" /\ status'[r] = "authorized" =>
             r \in drifted \/ StillAsShown(r)]_vars
  BY GrantStep DEF Fits, StillAsShown
<1> QED
  BY <1>1, ClientInvariant, StampInvInit, StampInvStep, PTL DEF Spec, GrantedAsShown

\* The plan is what the user approved, if the window lists the packages that are
\* installed, with full records, and the analysis still is current.
PlannedAsApproved ==
  [][\A r \in Removals :
       phase[r] = "previewing" /\ phase'[r] = "planned" =>
         \/ r \in drifted
         \/ generation[r] # dbGen
         \/ packages # [present |-> installed, full |-> TRUE]
         \/ plan'[r] = approved'[r]]_vars

LEMMA AcceptStep ==
  ASSUME TypeOK, StampInv, [Next]_vars, NEW r \in Removals,
         phase[r] = "previewing", phase'[r] = "planned",
         r \notin drifted, generation[r] = dbGen,
         packages = [present |-> installed, full |-> TRUE]
  PROVE  plan'[r] = approved'[r]
<1>0. /\ phase \in [Removals -> Phase] /\ plan \in [Removals -> SUBSET Names]
      /\ approved \in [Removals -> SUBSET (Names \cup {NoName})]
      /\ handler \in Removals \cup {NoRemoval}
  BY DEF TypeOK, StepsOK, ObserversOK, ClientOK
<1>1. Accept(r)
  <2>1. ASSUME NEW q \in Removals,
               \/ StartAnalysis(q) \/ ShowPreview(q) \/ Reject(q)
               \/ StartJournal(q) \/ Send(q) \/ ReadPackages(q) \/ ReadGeneration(q)
        PROVE  FALSE
    BY <1>0, <2>1
    DEF StartAnalysis, ShowPreview, Reject, StartJournal, Send, ReadPackages, ReadGeneration, Goto
  <2>2. ASSUME NEW q \in Removals, DeliverReply(q) \/ TimeOut(q) PROVE FALSE
    BY <1>0, <2>2 DEF DeliverReply, TimeOut, AfterSuccess, AfterFailure, Goto
  <2>3. ASSUME NEW q \in Removals,
               \/ Receive(q) \/ Answer(q) \/ Grant(q) \/ Begin(q)
               \/ RemoveOne(q) \/ Succeed(q) \/ Fail(q)
        PROVE  FALSE
    BY <2>3 DEF Receive, Answer, Grant, Begin, RemoveOne, Succeed, Fail, Touch, outsideVars,
       removalVars
  <2>4. ASSUME \/ \E w \in Refreshes : ReadForRefresh(w) \/ ApplyRefresh(w)
               \/ Quit \/ PacmanBegin \/ PacmanEnd \/ UNCHANGED vars
        PROVE  FALSE
    BY <2>4 DEF ReadForRefresh, ApplyRefresh, Quit, PacmanBegin, PacmanEnd, Touch, outsideVars,
       removalVars, vars
  <2>5. ASSUME NEW q \in Removals, Accept(q) PROVE q = r
    BY <1>0, <2>5 DEF Accept, Goto
  <2> QED
    BY <2>1, <2>2, <2>3, <2>4, <2>5 DEF Next
<1> DEFINE s == Snapshot(packages.present, packages.full)
<1>2. shown[r] = NewOrphans(s, target[r])
  BY DEF StampInv, Weighed, Fits
<1> HIDE DEF s
<1>3. PICK orphansToo \in BOOLEAN :
        /\ approved' = [approved EXCEPT ![r] = {target[r]} \cup IF orphansToo THEN shown[r] ELSE {}]
        /\ plan' = [plan EXCEPT ![r] =
                      {target[r]} \cup IF orphansToo THEN NewOrphans(s, target[r]) ELSE {}]
  <2>1. PICK orphansToo \in BOOLEAN :
          /\ approved' = [approved EXCEPT ![r] = {target[r]} \cup IF orphansToo THEN shown[r] ELSE {}]
          /\ \/ UNCHANGED phase
             \/ phase' = [phase EXCEPT ![r] = "over"]
             \/ plan' = [plan EXCEPT ![r] =
                            {target[r]} \cup IF orphansToo THEN NewOrphans(s, target[r]) ELSE {}]
    BY <1>1, Zenon DEF Accept, Goto, s
  <2>2. ~ UNCHANGED phase /\ phase' # [phase EXCEPT ![r] = "over"]
    BY <1>0
  <2> QED
    BY <2>1, <2>2
<1> QED
  BY <1>0, <1>2, <1>3

\* What is planned differs from what was approved only where the window's packages do
\* from the system's, or the system has changed under the analysis.
THEOREM CurrentPlansAreAsApproved == Spec => PlannedAsApproved
<1>1. TypeOK /\ StampInv /\ [Next]_vars =>
        [\A r \in Removals :
           phase[r] = "previewing" /\ phase'[r] = "planned" =>
             \/ r \in drifted
             \/ generation[r] # dbGen
             \/ packages # [present |-> installed, full |-> TRUE]
             \/ plan'[r] = approved'[r]]_vars
  BY AcceptStep
<1> QED
  BY <1>1, ClientInvariant, StampInvInit, StampInvStep, PTL DEF Spec, PlannedAsApproved

-----------------------------------------------------------------------------
(* The window beside a helper that keeps RemovalContract. *)

\* The GUI thread and the workers leave the helper alone.
LEMMA WindowLeavesHelper ==
  ASSUME NEW r \in Removals,
         \/ StartAnalysis(r) \/ ShowPreview(r) \/ Reject(r) \/ Accept(r)
         \/ StartJournal(r) \/ Send(r) \/ DeliverReply(r) \/ TimeOut(r)
         \/ ReadPackages(r) \/ ReadGeneration(r)
  PROVE  UNCHANGED helperVars
BY DEF StartAnalysis, ShowPreview, Reject, Accept, StartJournal, Send, DeliverReply, TimeOut,
       ReadPackages, ReadGeneration

\* The steps of the helper, with its gate, its nested event loops and libalpm's
\* refusals, are steps of the contract.
THEOREM DesktopKeepsContract == Spec => Helper!ContractSpec
<1>1. Init => Helper!ContractInit
  BY WorldOK DEF Init, Helper!ContractInit, Snapshots
<1>2. [Next]_vars => [Helper!ContractNext]_(Helper!contractVars)
  <2> SUFFICES ASSUME [Next]_vars
               PROVE  Helper!ContractNext \/ UNCHANGED Helper!contractVars
    OBVIOUS
  <2>1. UNCHANGED helperVars => UNCHANGED Helper!contractVars
    BY DEF helperVars, Helper!contractVars
  <2>2. ASSUME NEW r \in Removals,
               \/ StartAnalysis(r) \/ ShowPreview(r) \/ Reject(r) \/ Accept(r)
               \/ StartJournal(r) \/ Send(r) \/ DeliverReply(r) \/ TimeOut(r)
               \/ ReadPackages(r) \/ ReadGeneration(r)
        PROVE  UNCHANGED Helper!contractVars
    BY <2>1, <2>2, WindowLeavesHelper
  <2>3. ASSUME NEW r \in Removals, Answer(r) PROVE UNCHANGED Helper!contractVars
    BY <2>3 DEF Answer, Helper!contractVars
  <2>4. ASSUME NEW r \in Removals,
               Receive(r) \/ Grant(r) \/ Begin(r) \/ RemoveOne(r) \/ Succeed(r) \/ Fail(r)
        PROVE  Helper!ContractNext
    BY <2>4 DEF Receive, Grant, Begin, RemoveOne, Succeed, Fail, Helper!ContractNext
  <2>5. ASSUME \/ \E w \in Refreshes : ReadForRefresh(w) \/ ApplyRefresh(w)
               \/ Quit \/ UNCHANGED vars
        PROVE  UNCHANGED Helper!contractVars
    BY <2>1, <2>5 DEF ReadForRefresh, ApplyRefresh, Quit, vars
  <2>6. ASSUME PacmanBegin \/ PacmanEnd PROVE Helper!ContractNext
    BY <2>6 DEF PacmanBegin, PacmanEnd, Helper!ContractNext
  <2> QED
    BY <2>2, <2>3, <2>4, <2>5, <2>6 DEF Next
<1> QED
  BY <1>1, <1>2, PTL DEF Spec, Helper!ContractSpec

Promises == INSTANCE ContractProofs WITH Pkgs <- Names, Calls <- Removals

\* A package goes only to a removal that owns the database, has it in its plan and is
\* in the journal, whatever the other package manager did before.
OnlyJournalledPlansAct ==
  [][\/ holder = Pacman
     \/ /\ installed' \subseteq installed
        /\ \A p \in installed \ installed' :
             \E r \in Removals : /\ status[r] = "removing" /\ holder = r
                                 /\ p \in plan[r] /\ journal[r] # "absent"]_vars

\* The helper acts on journalled plans only; the contract says it acts on what was
\* asked, and the client that what was asked is the plan.
THEOREM PlansAreActedOn == Spec => OnlyJournalledPlansAct
<1> DEFINE Named ==
      \/ holder = Pacman
      \/ /\ installed' \subseteq installed
         /\ \A p \in installed \ installed' :
              \E c \in Removals : status[c] = "removing" /\ holder = c /\ p \in asked[c]
<1> DEFINE Planned ==
      \/ holder = Pacman
      \/ /\ installed' \subseteq installed
         /\ \A p \in installed \ installed' :
              \E r \in Removals : /\ status[r] = "removing" /\ holder = r
                                  /\ p \in plan[r] /\ journal[r] # "absent"
<1>1. ASSUME ClientInv, Named PROVE Planned
  BY <1>1 DEF ClientInv, CallInv
<1>2. UNCHANGED Promises!contractVars => Planned
  BY DEF Promises!contractVars
<1>3. Spec => Promises!ContractSpec
  <2>1. Helper!ContractInit => Promises!ContractInit
    BY DEF Helper!ContractInit, Promises!ContractInit
  <2>2. [Helper!ContractNext]_(Helper!contractVars) => [Promises!ContractNext]_(Promises!contractVars)
    BY DEF Helper!ContractNext, Helper!contractVars, Helper!Submit, Helper!Authorize,
       Helper!Begin, Helper!RemoveOne, Helper!Succeed, Helper!Fail, Helper!OtherBegin,
       Helper!OtherEnd, Promises!ContractNext, Promises!contractVars, Promises!Submit,
       Promises!Authorize, Promises!Begin, Promises!RemoveOne, Promises!Succeed,
       Promises!Fail, Promises!OtherBegin, Promises!OtherEnd
  <2> QED
    BY <2>1, <2>2, DesktopKeepsContract, PTL DEF Helper!ContractSpec, Promises!ContractSpec
<1>4. Promises!OwnersDistinct
  BY RemovalsOK DEF Promises!OwnersDistinct
<1>5. Spec => Promises!OnlyNamedPackagesGo
  BY <1>3, <1>4, Promises!LossesAreNamed, PTL
<1> HIDE DEF Planned
<1>6. Promises!OnlyNamedPackagesGo => [][Named]_(Promises!contractVars)
  BY PTL DEF Promises!OnlyNamedPackagesGo
<1> HIDE DEF Named
<1>7. ClientInv /\ [Named]_(Promises!contractVars) => [Planned]_vars
  BY <1>1, <1>2
<1>8. Spec => [][Planned]_vars
  BY <1>5, <1>6, <1>7, ClientInvariant, PTL
<1> QED
  BY <1>8 DEF OnlyJournalledPlansAct, Planned
=============================================================================
