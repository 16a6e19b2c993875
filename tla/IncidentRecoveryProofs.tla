----------------------- MODULE IncidentRecoveryProofs -----------------------
(***************************************************************************)
(* For any bounds, any pushes, time-outs and crashes, provided GitHub never  *)
(* handles an update between the two reads of `settle`: the inductive        *)
(* invariant IInv of IncidentRecovery, one lemma per action, and from it     *)
(* that `absent` is true, that no commit lands unknown, and that the whole   *)
(* implements RecoveryPromise, at most one outcome for one action; and,      *)
(* whatever GitHub does, that the fence is held for a bounded number of      *)
(* steps.                                                                    *)
(***************************************************************************)
EXTENDS IncidentRecovery, SequenceTheorems, TLAPS

USE RecoveryAssumption DEF NoReceipt, ConflictReceipt

-----------------------------------------------------------------------------
(* What the operators the actions are built from do                          *)

\* Settling changes the status of the last attempt and nothing else of the record.
LEMMA SettleFacts ==
  ASSUME StoreOK, NEW s \in Status, attempts # <<>>, Settle(s)
  PROVE  /\ attempts' \in Seq(Attempt)
         /\ Last' = Last /\ Last \in Nat /\ Last >= 1
         /\ attempts' # <<>>
         /\ \A k \in 1..Last :
              /\ attempts'[k].base = attempts[k].base
              /\ attempts'[k].status = IF k = Last THEN s ELSE attempts[k].status
  <1>1. Last \in Nat /\ Last >= 1 /\ Last \in 1..Len(attempts)
    BY DEF StoreOK, Last
  <1>2. attempts[Last] \in Attempt
    BY <1>1 DEF StoreOK
  <1> DEFINE a == [attempts[Last] EXCEPT !.status = s]
  <1>3. a \in Attempt /\ a.base = attempts[Last].base /\ a.status = s
    BY <1>2 DEF Attempt
  <1>4. attempts' = [attempts EXCEPT ![Last] = a]
    BY <1>1, <1>2 DEF Settle, StoreOK
  <1>5. attempts' \in Seq(Attempt) /\ Len(attempts') = Len(attempts)
    BY <1>1, <1>3, <1>4, ExceptSeq DEF StoreOK
  <1>6. \A k \in 1..Last : attempts'[k] = IF k = Last THEN a ELSE attempts[k]
    BY <1>1, <1>4 DEF StoreOK, Last
  <1>7. Last' = Last /\ attempts' # <<>>
    BY <1>1, <1>5 DEF Last
  <1> QED
    BY <1>1, <1>3, <1>5, <1>6, <1>7

\* A new attempt leaves the others as they were.
LEMMA AppendFacts ==
  ASSUME StoreOK, NEW a \in Attempt, attempts' = Append(attempts, a)
  PROVE  /\ attempts' \in Seq(Attempt)
         /\ Last' = Last + 1 /\ Last \in Nat
         /\ attempts' # <<>>
         /\ \A k \in 1..Last : attempts'[k] = attempts[k]
         /\ attempts'[Last + 1] = a
  BY DEF StoreOK, Last

\* A process that moves on keeps what it was asked.
LEMMA GotoFacts ==
  ASSUME proc \in Process, NEW pc \in ProcessPc, Goto(pc)
  PROVE  proc' \in Process /\ proc'.pc = pc
  BY DEF Process, ProcessPc, Goto

\* A process that answers waits for its caller to hear it.
LEMMA AnswerFacts ==
  ASSUME proc \in Process, NEW s \in ReplyStatus, NEW r \in Receipt, Answer(s, r)
  PROVE  /\ proc' \in Process /\ proc'.pc = "reply"
         /\ reply' \in Reply /\ reply'.status = s /\ reply'.receipt = r
  BY GotoFacts DEF Answer, Reply, ProcessPc

\* An observer that moves on keeps what it got.
LEMMA ObserveFacts ==
  ASSUME obs \in Observer, NEW pc \in ObserverPc, Observe(pc)
  PROVE  obs' \in Observer /\ obs'.pc = pc /\ obs'.got = obs.got
  BY DEF Observer, ObserverPc, Observe

\* What a step that leaves GitHub, the record and the journal alone cannot disturb.
LEMMA FrameFacts ==
  ASSUME UNCHANGED <<forge, ledger, journal>>
  PROVE  /\ StoreOK' = StoreOK /\ OneIsOpen' = OneIsOpen
         /\ OnlyPreparedMoves' = OnlyPreparedMoves
         /\ ConflictExcludes' = ConflictExcludes
         /\ Unsettled' = Unsettled /\ NoPublication' = NoPublication
         /\ OpenAttempt' = OpenAttempt
         /\ Happened' = Happened
         /\ Last' = Last /\ attempts' = attempts /\ landed' = landed /\ conflict' = conflict
  BY DEF forge, ledger, journal, StoreOK, OneIsOpen, OnlyPreparedMoves, ConflictExcludes,
         Unsettled, NoPublication, OpenAttempt, Happened, Last, IsOpen

\* The receipts there are.
LEMMA ReceiptsAreTyped ==
  ASSUME StoreOK
  PROVE  /\ receipt \in Receipt /\ NoReceipt \in Receipt /\ ConflictReceipt \in Receipt
         /\ 1..Last \subseteq Receipt
  <1>1. Last \in Nat /\ Last <= MaxAttempts
    BY DEF StoreOK, Last
  <1> QED
    BY <1>1 DEF StoreOK, Receipt

\* Every attempt expects a head that is a number.
LEMMA BasesAreNat ==
  ASSUME StoreOK
  PROVE  Last \in Nat /\ \A k \in 1..Last : attempts[k].base \in Nat
  <1>1. Last \in Nat /\ \A k \in 1..Last : attempts[k] \in Attempt
    BY DEF StoreOK, Last
  <1>2. \A a \in Attempt : a.base \in Nat
    BY DEF Attempt
  <1> QED
    BY <1>1, <1>2

\* The open attempt is the last one.
LEMMA OpenIsLast ==
  ASSUME StoreOK, OpenAttempt
  PROVE  Last \in Nat /\ Last \in 1..Last /\ attempts[Last] \in Attempt /\ IsOpen(attempts[Last])
  BY DEF StoreOK, OpenAttempt, Last

\* Without a publication no attempt is open.
LEMMA AllClosed ==
  ASSUME StoreOK, OneIsOpen, NoPublication, NEW k \in 1..Last
  PROVE  ~IsOpen(attempts[k])
  <1>1. Last \in Nat /\ attempts # <<>>
    BY DEF StoreOK, Last
  <1>2. CASE k < Last
    BY <1>2 DEF OneIsOpen
  <1>3. CASE k = Last
    BY <1>1, <1>3 DEF NoPublication, OpenAttempt
  <1> QED
    BY <1>1, <1>2, <1>3

\* The open attempt is found to have had no effect: it never had a commit, or
\* its commit is not on master and the head it expects is gone.
LEMMA ClosesAttempt ==
  ASSUME IInv, Unsettled, NEW s \in {"abandoned", "head-moved"}, Settle(s),
         UNCHANGED <<forge, receipt, journal, action, told, obs, kills>>,
         s = "abandoned" => attempts[Last].status = "reserved",
         s = "head-moved" => Last \notin landed /\ attempts[Last].base < head,
         proc' \in Process, proc'.pc \in {"resume", "answer", "reply"},
         reply' \in Reply,
         proc'.pc = "reply" => reply'.status \notin {"recorded", "absent"}
  PROVE  IInv'
  <1> USE DEF forge, journal
  <1>1. StoreOK /\ OpenAttempt /\ receipt = NoReceipt
    BY DEF IInv, TypeOK, Unsettled
  <1>2. /\ attempts' \in Seq(Attempt)
        /\ Last' = Last /\ Last \in Nat /\ Last >= 1
        /\ attempts' # <<>>
        /\ \A k \in 1..Last :
             /\ attempts'[k].base = attempts[k].base
             /\ attempts'[k].status = IF k = Last THEN s ELSE attempts[k].status
    BY <1>1, SettleFacts DEF OpenAttempt, Status
  <1>3. StoreOK'
    BY <1>1, <1>2 DEF StoreOK
  <1>4. \A k \in 1..Last : ~IsOpen(attempts[k])'
    BY <1>2 DEF IInv, OneIsOpen, IsOpen
  <1>5. OneIsOpen'
    BY <1>2, <1>4 DEF IInv, OneIsOpen
  <1>6. Last \notin landed
    BY DEF IInv, OnlyPreparedMoves
  <1>7. s = "abandoned" => Last \notin flying
    BY DEF IInv, OnlyPreparedMoves
  <1>8. OnlyPreparedMoves'
    BY <1>1, <1>2, <1>3, <1>6, <1>7 DEF IInv, OnlyPreparedMoves, StoreOK
  <1>9. ~OpenAttempt' /\ conflict' = 0
    BY <1>1, <1>2, <1>4 DEF OpenAttempt, IInv, ConflictExcludes
  <1>10. ConflictExcludes' /\ PrincipalKnows' /\ RepliesAreTrue' /\ ObserverIsRight'
    BY <1>9 DEF ConflictExcludes, PrincipalKnows, RepliesAreTrue, ObserverIsRight, At, IInv, Happened
  <1> QED
    BY <1>3, <1>5, <1>8, <1>10 DEF IInv, TypeOK

\* The commit of the open attempt is on master, and its receipt is saved.
LEMMA SavesTheReceipt ==
  ASSUME IInv, Unsettled, attempts[Last].status = "prepared", Last \in landed, conflict = 0,
         Commit, UNCHANGED <<forge, attempts, journal, action, told, obs, kills>>,
         proc' \in Process, proc'.pc \in {"resume", "answer", "reply"},
         reply' \in Reply,
         proc'.pc = "reply" => reply'.status \notin {"recorded", "absent"}
  PROVE  IInv'
  <1> USE DEF forge, journal
  <1>1. StoreOK /\ Last \in 1..Last /\ Last' = Last /\ receipt' = Last
    BY OpenIsLast DEF IInv, TypeOK, Unsettled, Commit, Last
  <1>2. StoreOK'
    BY <1>1 DEF StoreOK
  <1>3. OneIsOpen' /\ OnlyPreparedMoves' /\ ConflictExcludes'
    BY <1>1 DEF IInv, OneIsOpen, OnlyPreparedMoves, ConflictExcludes, IsOpen
  <1>4. PrincipalKnows' /\ RepliesAreTrue' /\ ObserverIsRight'
    BY <1>1 DEF PrincipalKnows, RepliesAreTrue, ObserverIsRight, At, IInv, Happened, OpenAttempt
  <1> QED
    BY <1>2, <1>3, <1>4 DEF IInv, TypeOK

\* What a step that leaves the publication record alone cannot change.
LEMMA LedgerFrame ==
  ASSUME UNCHANGED ledger
  PROVE  /\ Unsettled' = Unsettled /\ NoPublication' = NoPublication
         /\ OpenAttempt' = OpenAttempt /\ Last' = Last
         /\ attempts' = attempts /\ receipt' = receipt
  BY DEF ledger, Unsettled, NoPublication, OpenAttempt, Last, IsOpen

\* Master is asked to move to the commit of the open attempt, and does or does not.
LEMMA LandingKeeps ==
  ASSUME IInv, attempts[Last].status = "prepared", Last \in 1..Last, conflict = 0, Land(Last),
         UNCHANGED <<overlapFrom, ledger, journal, action, told, obs>>,
         flying' \subseteq flying
  PROVE  StoreOK' /\ OneIsOpen' /\ OnlyPreparedMoves' /\ ConflictExcludes' /\ ObserverIsRight'
  <1>1. UNCHANGED <<attempts, receipt, conflict, context, Last>>
    BY DEF ledger, journal, Last
  <1>2. /\ StoreOK /\ head \in Nat /\ Last \in Nat
        /\ \A k \in 1..Last : attempts[k].base \in Nat
    BY BasesAreNat DEF IInv, TypeOK, StoreOK
  <1>3. /\ head' \in {head, head + 1} /\ head' \in 0..MaxHead
        /\ landed \subseteq landed' /\ landed' \subseteq landed \cup {Last}
        /\ landed' # landed => attempts[Last].base < head'
    BY <1>2 DEF Land, FastForwards, StoreOK
  <1>4. StoreOK'
    BY <1>1, <1>2, <1>3 DEF StoreOK
  <1>5. OneIsOpen' /\ OnlyPreparedMoves'
    BY <1>1, <1>2, <1>3 DEF IInv, OneIsOpen, OnlyPreparedMoves, IsOpen, StoreOK
  <1>6. ConflictExcludes' /\ ObserverIsRight'
    BY <1>1, <1>3 DEF IInv, ConflictExcludes, ObserverIsRight, Happened
  <1> QED
    BY <1>4, <1>5, <1>6

\* The update of the open attempt is under way with nobody waiting for it.
LEMMA SendingKeeps ==
  ASSUME IInv, attempts[Last].status = "prepared", Last \in 1..Last, flying' = flying \cup {Last},
         UNCHANGED <<head, overlapFrom, landed, ledger, journal, action, told, obs>>
  PROVE  StoreOK' /\ OneIsOpen' /\ OnlyPreparedMoves' /\ ConflictExcludes' /\ ObserverIsRight'
  BY LedgerFrame
  DEF IInv, TypeOK, StoreOK, OneIsOpen, OnlyPreparedMoves, ConflictExcludes, ObserverIsRight,
      Happened, ledger, journal, IsOpen

\* An observer that ends holds nothing.
LEMMA FreeIsObserver == Free \in Observer /\ Free.pc = "free"
  BY DEF Free, Observer, ObserverPc, Receipt

\* A process may answer anything but an effect that did not happen, or `absent`
\* with a publication about.
LEMMA AnswerKeepsIInv ==
  ASSUME IInv, UNCHANGED <<forge, ledger, journal, action, told, obs, kills>>,
         NEW s \in ReplyStatus, NEW r \in Receipt, Answer(s, r),
         s = "recorded" => r \in Happened,
         s = "absent" => NoPublication /\ conflict = 0
  PROVE  IInv'
  BY FrameFacts, AnswerFacts DEF IInv, TypeOK, PrincipalKnows, RepliesAreTrue, ObserverIsRight, At

\* No process and no reply are of their types.
LEMMA NothingRuns == NoProcess \in Process /\ NoProcess.pc = "idle" /\ NoReply \in Reply
  BY DEF NoProcess, Process, ProcessPc, NoReply, Reply, ReplyStatus, Receipt

-----------------------------------------------------------------------------
(* The observer's steps                                                      *)

LEMMA TriggerStep ==
  ASSUME IInv, Trigger
  PROVE  IInv'
  <1>1. UNCHANGED <<forge, ledger, journal, proc, reply>>
    BY DEF Trigger
  <1>2. obs' \in Observer /\ action' \in Action /\ told' \subseteq Receipt /\ kills' \in 0..MaxKills
    BY ObserveFacts, FreeIsObserver DEF Trigger, IInv, TypeOK, Release, ObserverPc, Action
  <1>3. ObserverIsRight'
    BY <1>1, FrameFacts, ObserveFacts, FreeIsObserver DEF Trigger, IInv, TypeOK, ObserverIsRight, Release, ObserverPc
  <1> QED
    BY <1>1, <1>2, <1>3, FrameFacts DEF IInv, TypeOK, PrincipalKnows, RepliesAreTrue, At

LEMMA AuthorizesStep ==
  ASSUME IInv, Authorizes
  PROVE  IInv'
  <1>1. UNCHANGED <<forge, ledger, journal, proc, reply>>
    BY DEF Authorizes
  <1>2. obs' \in Observer /\ action' \in Action /\ told' \subseteq Receipt /\ kills' \in 0..MaxKills
    BY ObserveFacts, FreeIsObserver DEF Authorizes, IInv, TypeOK, Release, ObserverPc
  <1>3. ObserverIsRight'
    BY <1>1, FrameFacts, ObserveFacts, FreeIsObserver DEF Authorizes, IInv, TypeOK, ObserverIsRight, Release, ObserverPc
  <1> QED
    BY <1>1, <1>2, <1>3, FrameFacts DEF IInv, TypeOK, PrincipalKnows, RepliesAreTrue, At

LEMMA PlansStep ==
  ASSUME IInv, Plans
  PROVE  IInv'
  <1>1. UNCHANGED <<forge, ledger, journal, proc, reply>>
    BY DEF Plans
  <1>2. obs' \in Observer /\ action' \in Action /\ told' \subseteq Receipt /\ kills' \in 0..MaxKills
    BY FreeIsObserver DEF Plans, IInv, TypeOK, StoreOK, Release, Observer, ObserverPc
  <1>3. ObserverIsRight'
    BY <1>1, FrameFacts, FreeIsObserver DEF Plans, IInv, TypeOK, ObserverIsRight, Release, Observer, ObserverPc
  <1> QED
    BY <1>1, <1>2, <1>3, FrameFacts DEF IInv, TypeOK, PrincipalKnows, RepliesAreTrue, At

LEMMA CompletesStep ==
  ASSUME IInv, Completes
  PROVE  IInv'
  <1>1. UNCHANGED <<forge, ledger, journal, proc, reply>>
    BY DEF Completes
  <1>2. obs' \in Observer /\ action' \in Action /\ told' \subseteq Receipt /\ kills' \in 0..MaxKills
    BY ObserveFacts, FreeIsObserver DEF Completes, IInv, TypeOK, Release, ObserverPc, Action, Observer
  <1>3. ObserverIsRight'
    BY <1>1, FrameFacts, ObserveFacts, FreeIsObserver DEF Completes, IInv, TypeOK, ObserverIsRight, Release, ObserverPc
  <1> QED
    BY <1>1, <1>2, <1>3, FrameFacts DEF IInv, TypeOK, PrincipalKnows, RepliesAreTrue, At

LEMMA ReconcileStep ==
  ASSUME IInv, Reconcile
  PROVE  IInv'
  <1>1. UNCHANGED <<forge, ledger, journal, proc, reply>>
    BY DEF Reconcile
  <1>2. obs' \in Observer /\ action' \in Action /\ told' \subseteq Receipt /\ kills' \in 0..MaxKills
    BY ObserveFacts DEF Reconcile, IInv, TypeOK, Action, Observer, ObserverPc
  <1>3. ObserverIsRight'
    BY <1>1, FrameFacts, ObserveFacts DEF Reconcile, IInv, TypeOK, ObserverIsRight, Observer, ObserverPc
  <1> QED
    BY <1>1, <1>2, <1>3, FrameFacts DEF IInv, TypeOK, PrincipalKnows, RepliesAreTrue, At

LEMMA ReportsStep ==
  ASSUME IInv, Reports
  PROVE  IInv'
  <1>1. UNCHANGED <<forge, ledger, journal, proc, reply>>
    BY DEF Reports
  <1>2. obs' \in Observer /\ action' \in Action /\ told' \subseteq Receipt /\ kills' \in 0..MaxKills
    BY ObserveFacts, FreeIsObserver DEF Reports, IInv, TypeOK, Release, ObserverPc, Observer
  <1>3. ObserverIsRight'
    BY <1>1, FrameFacts, ObserveFacts, FreeIsObserver DEF Reports, IInv, TypeOK, ObserverIsRight, Release, ObserverPc
  <1> QED
    BY <1>1, <1>2, <1>3, FrameFacts DEF IInv, TypeOK, PrincipalKnows, RepliesAreTrue, At

LEMMA SavesReportStep ==
  ASSUME IInv, SavesReport
  PROVE  IInv'
  <1>1. UNCHANGED <<forge, ledger, journal, proc, reply>>
    BY DEF SavesReport
  <1>2. obs' \in Observer /\ action' \in Action /\ told' \subseteq Receipt /\ kills' \in 0..MaxKills
    BY ObserveFacts, FreeIsObserver DEF SavesReport, IInv, TypeOK, Release, ObserverPc, Action, Observer
  <1>3. ObserverIsRight'
    BY <1>1, FrameFacts, ObserveFacts, FreeIsObserver DEF SavesReport, IInv, TypeOK, ObserverIsRight, Release, ObserverPc, Action
  <1> QED
    BY <1>1, <1>2, <1>3, FrameFacts DEF IInv, TypeOK, PrincipalKnows, RepliesAreTrue, At

LEMMA ObserverDiesStep ==
  ASSUME IInv, ObserverDies
  PROVE  IInv'
  <1>1. UNCHANGED <<forge, ledger, journal, proc, reply>>
    BY DEF ObserverDies
  <1>2. obs' \in Observer /\ action' \in Action /\ told' \subseteq Receipt /\ kills' \in 0..MaxKills
    BY ObserveFacts, FreeIsObserver DEF ObserverDies, IInv, TypeOK, Release, ObserverPc
  <1>3. ObserverIsRight'
    BY <1>1, FrameFacts, ObserveFacts, FreeIsObserver DEF ObserverDies, IInv, TypeOK, ObserverIsRight, Release, ObserverPc
  <1> QED
    BY <1>1, <1>2, <1>3, FrameFacts DEF IInv, TypeOK, PrincipalKnows, RepliesAreTrue, At

LEMMA TakesLookupStep ==
  ASSUME IInv, TakesLookup
  PROVE  IInv'
  <1>1. UNCHANGED <<forge, ledger, journal, action, told, kills>> /\ proc' = NoProcess /\ reply' = NoReply
    BY DEF TakesLookup, Hear
  <1>2. obs' \in Observer
    BY ObserveFacts, FreeIsObserver DEF TakesLookup, IInv, TypeOK, Release, Observer, ObserverPc, Reply, Got, Lookups
  <1>3. ObserverIsRight'
    BY <1>1, FrameFacts, ObserveFacts, FreeIsObserver
    DEF TakesLookup, IInv, TypeOK, ObserverIsRight, RepliesAreTrue, At, Release, Observer, ObserverPc, Got, Lookups
  <1> QED
    BY <1>1, <1>2, <1>3, FrameFacts, NothingRuns DEF IInv, TypeOK, PrincipalKnows, RepliesAreTrue, At

LEMMA TakesPublishStep ==
  ASSUME IInv, TakesPublish
  PROVE  IInv'
  <1>1. UNCHANGED <<forge, ledger, journal, action, told, kills>> /\ proc' = NoProcess /\ reply' = NoReply
    BY DEF TakesPublish, Hear
  <1>2. obs' \in Observer
    <2>1. CASE Observe("relook") \/ Release
      BY <2>1, ObserveFacts, FreeIsObserver DEF IInv, TypeOK, Release, ObserverPc
    <2>2. CASE MayRetry /\ obs' = [obs EXCEPT !.tries = @ + 1, !.pc = "head"]
      <3>1. obs.tries \in Nat /\ obs.tries + 1 \in 0..CasAttempts - 1
        BY <2>2 DEF IInv, TypeOK, Observer, MayRetry
      <3> QED
        BY <2>2, <3>1 DEF IInv, TypeOK, Observer, ObserverPc
    <2> QED
      BY <2>1, <2>2 DEF TakesPublish
  <1>3. ObserverIsRight'
    BY <1>1, FrameFacts, ObserveFacts, FreeIsObserver
    DEF TakesPublish, IInv, TypeOK, ObserverIsRight, RepliesAreTrue, At, Release, Observer, ObserverPc, MayRetry
  <1> QED
    BY <1>1, <1>2, <1>3, FrameFacts, NothingRuns DEF IInv, TypeOK, PrincipalKnows, RepliesAreTrue, At

LEMMA TakesConflictStep ==
  ASSUME IInv, TakesConflict
  PROVE  IInv'
  <1>1. UNCHANGED <<forge, ledger, journal, action, told, kills>> /\ proc' = NoProcess /\ reply' = NoReply
    BY DEF TakesConflict, Hear
  <1>2. obs' \in Observer
    BY ObserveFacts, FreeIsObserver DEF TakesConflict, IInv, TypeOK, Release, Observer, ObserverPc, Reply, Got
  <1>3. ObserverIsRight'
    BY <1>1, FrameFacts, ObserveFacts, FreeIsObserver
    DEF TakesConflict, IInv, TypeOK, ObserverIsRight, RepliesAreTrue, At, Release, Observer, ObserverPc, Got
  <1> QED
    BY <1>1, <1>2, <1>3, FrameFacts, NothingRuns DEF IInv, TypeOK, PrincipalKnows, RepliesAreTrue, At

LEMMA UnheardStep ==
  ASSUME IInv, Unheard
  PROVE  IInv'
  <1>1. UNCHANGED <<forge, ledger, journal, action, told, kills>> /\ proc' = NoProcess /\ reply' = NoReply
    BY DEF Unheard, Hear
  <1>2. obs' \in Observer
    BY ObserveFacts, FreeIsObserver DEF Unheard, IInv, TypeOK, Release, Observer, ObserverPc, Reply
  <1>3. ObserverIsRight'
    BY <1>1, FrameFacts, ObserveFacts, FreeIsObserver
    DEF Unheard, IInv, TypeOK, ObserverIsRight, RepliesAreTrue, At, Release, Observer, ObserverPc
  <1> QED
    BY <1>1, <1>2, <1>3, FrameFacts, NothingRuns DEF IInv, TypeOK, PrincipalKnows, RepliesAreTrue, At

LEMMA CallsStep ==
  ASSUME IInv, Calls
  PROVE  IInv'
  <1>1. UNCHANGED <<forge, ledger, journal, action, told, obs, kills, reply>>
    BY DEF Calls
  <1>2. proc' \in Process /\ proc'.pc = "load"
    BY DEF Calls, IInv, TypeOK, StoreOK, Calling, Process, ProcessPc, Observer, Lookups
  <1> QED
    BY <1>1, <1>2, FrameFacts DEF IInv, TypeOK, PrincipalKnows, RepliesAreTrue, ObserverIsRight, At

LEMMA DirectCallStep ==
  ASSUME IInv, DirectCall
  PROVE  IInv'
  <1>1. UNCHANGED <<forge, ledger, journal, action, told, obs, kills, reply>>
    BY DEF DirectCall
  <1>2. proc' \in Process /\ proc'.pc = "load"
    BY DEF DirectCall, IInv, TypeOK, StoreOK, Calling, Process, ProcessPc, Observer, Lookups
  <1> QED
    BY <1>1, <1>2, FrameFacts DEF IInv, TypeOK, PrincipalKnows, RepliesAreTrue, ObserverIsRight, At

-----------------------------------------------------------------------------
(* The principal's steps                                                     *)

LEMMA RaisesStep ==
  ASSUME IInv, Raises
  PROVE  IInv'
  <1>1. UNCHANGED <<forge, ledger, journal, action, told, obs, kills>>
    BY DEF Raises
  <1>2. proc' \in Process /\ reply' \in Reply
    BY GotoFacts, AnswerFacts DEF Raises, IInv, TypeOK, StoreOK, Receipt, ProcessPc, ReplyStatus
  <1>3. PrincipalKnows'
    BY <1>1, FrameFacts, GotoFacts, AnswerFacts
    DEF Raises, IInv, TypeOK, StoreOK, Receipt, ProcessPc, ReplyStatus, PrincipalKnows, At, Unsettled, NoPublication, OpenAttempt, IsOpen
  <1>4. RepliesAreTrue'
    BY <1>1, FrameFacts, GotoFacts, AnswerFacts
    DEF Raises, IInv, TypeOK, StoreOK, Receipt, ProcessPc, ReplyStatus, RepliesAreTrue, At, OnlyPreparedMoves, NoPublication, Happened
  <1> QED
    BY <1>1, <1>2, <1>3, <1>4, FrameFacts DEF IInv, TypeOK, ObserverIsRight

LEMMA AnswersLookupStep ==
  ASSUME IInv, AnswersLookup
  PROVE  IInv'
  <1>1. UNCHANGED <<forge, ledger, journal, action, told, obs, kills>>
    BY DEF AnswersLookup
  <1>2. receipt \in Receipt /\ NoReceipt \in Receipt
    BY ReceiptsAreTyped DEF IInv, TypeOK
  <1>3. CASE receipt # NoReceipt
    <2>1. Answer("recorded", receipt)
      BY <1>3 DEF AnswersLookup
    <2>2. receipt \in Happened
      BY <1>3 DEF IInv, OnlyPreparedMoves, Happened
    <2> QED
      BY <1>1, <1>2, <2>1, <2>2, AnswerKeepsIInv DEF ReplyStatus
  <1>4. CASE receipt = NoReceipt /\ OpenAttempt
    BY <1>1, <1>2, <1>4, AnswerKeepsIInv DEF AnswersLookup, ReplyStatus
  <1>5. CASE receipt = NoReceipt /\ ~OpenAttempt
    <2>1. Answer(JournalStatus, JournalReceipt)
      BY <1>5 DEF AnswersLookup
    <2>2. /\ JournalStatus \in ReplyStatus
          /\ JournalStatus = "absent" => conflict = 0
      BY DEF JournalStatus, ReplyStatus
    <2>3. /\ JournalReceipt \in Receipt
          /\ JournalStatus = "recorded" => JournalReceipt \in Happened
      BY DEF JournalReceipt, JournalStatus, Receipt, Happened
    <2> QED
      BY <1>1, <1>2, <1>5, <2>1, <2>2, <2>3, AnswerKeepsIInv DEF NoPublication
  <1> QED
    BY <1>3, <1>4, <1>5

LEMMA AnswersPublishStep ==
  ASSUME IInv, AnswersPublish
  PROVE  IInv'
  <1>1. UNCHANGED <<forge, ledger, journal, action, told, obs, kills>>
    BY DEF AnswersPublish
  <1>2. receipt \in Receipt /\ NoReceipt \in Receipt
    BY ReceiptsAreTyped DEF IInv, TypeOK
  <1>3. \E s \in ReplyStatus, r \in Receipt :
          Answer(s, r) /\ s # "recorded" /\ s # "absent"
    BY <1>2 DEF AnswersPublish, ReplyStatus
  <1> QED
    BY <1>1, <1>3, AnswerKeepsIInv

LEMMA ResumeStep ==
  ASSUME IInv, Resume
  PROVE  IInv'
  <1>1. UNCHANGED <<forge, ledger, journal, action, told, obs, kills>>
    BY DEF Resume
  <1>2. receipt \in Receipt /\ NoReceipt \in Receipt
    BY ReceiptsAreTyped DEF IInv, TypeOK
  <1>3. CASE receipt # NoReceipt
    BY <1>1, <1>2, <1>3, AnswerKeepsIInv DEF Resume, ReplyStatus
  <1>4. CASE receipt = NoReceipt /\ OpenAttempt /\ Goto("sent") /\ UNCHANGED reply
    <2>1. attempts[Last].status = "prepared"
      BY <1>4 DEF IInv, PrincipalKnows, Resume
    <2>2. proc' \in Process /\ proc'.pc = "sent"
      BY <1>4, GotoFacts DEF IInv, TypeOK, ProcessPc
    <2> QED
      BY <1>1, <1>4, <2>1, <2>2, FrameFacts
      DEF IInv, TypeOK, PrincipalKnows, RepliesAreTrue, ObserverIsRight, At, Unsettled
  <1>5. CASE receipt = NoReceipt /\ ~OpenAttempt /\ JournalStatus = "absent"
    <2>1. Goto("begin") /\ UNCHANGED reply
      BY <1>5 DEF Resume
    <2>2. conflict = 0
      BY <1>5 DEF JournalStatus
    <2>3. proc' \in Process /\ proc'.pc = "begin"
      BY <2>1, GotoFacts DEF IInv, TypeOK, ProcessPc
    <2> QED
      BY <1>1, <1>5, <2>1, <2>2, <2>3, FrameFacts
      DEF IInv, TypeOK, PrincipalKnows, RepliesAreTrue, ObserverIsRight, At, NoPublication
  <1>6. CASE \E s \in ReplyStatus, r \in Receipt :
               Answer(s, r) /\ s # "recorded" /\ s # "absent"
    BY <1>1, <1>6, AnswerKeepsIInv
  <1> QED
    BY <1>2, <1>3, <1>4, <1>5, <1>6 DEF Resume, ReplyStatus

LEMMA LoadStep ==
  ASSUME IInv, Load
  PROVE  IInv'
  <1>1. UNCHANGED <<forge, receipt, journal, action, told, obs, kills>>
    BY DEF Load
  <1>2. CASE proc.op = "lookup" /\ JournalStatus = "recorded"
    <2>1. Answer("recorded", ConflictReceipt) /\ UNCHANGED attempts
      BY <1>2 DEF Load, JournalReceipt
    <2>2. ConflictReceipt \in Happened /\ ConflictReceipt \in Receipt
      BY <1>2 DEF JournalStatus, Happened, Receipt
    <2> QED
      BY <1>1, <2>1, <2>2, AnswerKeepsIInv DEF ReplyStatus, ledger
  <1>3. CASE receipt = NoReceipt /\ OpenAttempt /\ attempts[Last].status = "reserved"
             /\ Goto("resume") /\ Settle("abandoned") /\ UNCHANGED reply
    <2>1. proc' \in Process /\ proc'.pc = "resume"
      BY <1>3, GotoFacts DEF IInv, TypeOK, ProcessPc
    <2> QED
      BY <1>1, <1>3, <2>1, ClosesAttempt DEF Unsettled, IInv, TypeOK
  <1>4. CASE receipt = NoReceipt /\ OpenAttempt /\ attempts[Last].status = "prepared"
             /\ Goto("look") /\ UNCHANGED <<attempts, reply>>
    <2>1. proc' \in Process /\ proc'.pc = "look"
      BY <1>4, GotoFacts DEF IInv, TypeOK, ProcessPc
    <2> QED
      BY <1>1, <1>4, <2>1, FrameFacts
      DEF IInv, TypeOK, PrincipalKnows, RepliesAreTrue, ObserverIsRight, At, Unsettled, ledger
  <1>5. CASE (receipt # NoReceipt \/ ~OpenAttempt) /\ Goto("resume") /\ UNCHANGED <<attempts, reply>>
    <2>1. proc' \in Process /\ proc'.pc = "resume"
      BY <1>5, GotoFacts DEF IInv, TypeOK, ProcessPc
    <2>2. OpenAttempt => attempts[Last].status = "prepared"
      BY <1>5 DEF IInv, OnlyPreparedMoves
    <2> QED
      BY <1>1, <1>5, <2>1, <2>2, FrameFacts
      DEF IInv, TypeOK, PrincipalKnows, RepliesAreTrue, ObserverIsRight, At, ledger
  <1> QED
    BY <1>2, <1>3, <1>4, <1>5 DEF Load, OpenAttempt, IsOpen

LEMMA LooksForCommitStep ==
  ASSUME IInv, LooksForCommit
  PROVE  IInv'
  <1>1. UNCHANGED <<forge, attempts, journal, action, told, obs, kills, reply>>
    BY DEF LooksForCommit
  <1>2. Unsettled /\ attempts[Last].status = "prepared" /\ conflict = 0
    BY DEF LooksForCommit, IInv, PrincipalKnows, At, ConflictExcludes, Unsettled
  <1>3. CASE Goto("compare") /\ Last \notin landed /\ UNCHANGED receipt
    <2>1. proc' \in Process /\ proc'.pc = "compare"
      BY <1>3, GotoFacts DEF IInv, TypeOK, ProcessPc
    <2> QED
      BY <1>1, <1>2, <1>3, <2>1, FrameFacts
      DEF IInv, TypeOK, PrincipalKnows, RepliesAreTrue, ObserverIsRight, At, ledger
  <1>4. CASE Goto(proc.back) /\ UNCHANGED receipt
    <2>1. proc' \in Process /\ proc'.pc \in {"resume", "answer"}
      BY <1>4, GotoFacts DEF IInv, TypeOK, ProcessPc, Process
    <2> QED
      BY <1>1, <1>2, <1>4, <2>1, FrameFacts
      DEF IInv, TypeOK, PrincipalKnows, RepliesAreTrue, ObserverIsRight, At, ledger
  <1>5. CASE Goto(proc.back) /\ Last \in landed /\ Commit
    <2>1. proc' \in Process /\ proc'.pc \in {"resume", "answer"}
      BY <1>5, GotoFacts DEF IInv, TypeOK, ProcessPc, Process
    <2> QED
      BY <1>1, <1>2, <1>5, <2>1, SavesTheReceipt DEF IInv, TypeOK
  <1> QED
    BY <1>3, <1>4, <1>5 DEF LooksForCommit

LEMMA ComparesHeadStep ==
  ASSUME IInv, ComparesHead
  PROVE  IInv'
  <1>1. UNCHANGED <<forge, receipt, journal, action, told, obs, kills, reply>>
    BY DEF ComparesHead
  <1>2. Unsettled /\ attempts[Last].status = "prepared" /\ Last \notin landed
    BY DEF ComparesHead, IInv, PrincipalKnows, At
  <1>3. proc' \in Process /\ proc'.pc \in {"resume", "answer"}
    BY GotoFacts DEF ComparesHead, IInv, TypeOK, ProcessPc, Process
  <1>4. CASE head # attempts[Last].base /\ Settle("head-moved")
    <2>1. attempts[Last] \in Attempt /\ Last \in 1..Last /\ head \in Nat
      BY <1>2, OpenIsLast DEF IInv, TypeOK, StoreOK, Unsettled
    <2>2. attempts[Last].base <= head /\ attempts[Last].base \in Nat
      BY <2>1 DEF IInv, OneIsOpen, Attempt
    <2>3. attempts[Last].base < head
      BY <1>4, <2>1, <2>2
    <2> QED
      BY <1>1, <1>2, <1>3, <1>4, <2>3, ClosesAttempt DEF At, IInv, TypeOK
  <1>5. CASE UNCHANGED attempts
    BY <1>1, <1>2, <1>3, <1>5, FrameFacts
    DEF IInv, TypeOK, PrincipalKnows, RepliesAreTrue, ObserverIsRight, At, ledger
  <1> QED
    BY <1>4, <1>5 DEF ComparesHead

LEMMA SavesReceiptStep ==
  ASSUME IInv, SavesReceipt
  PROVE  IInv'
  <1>1. UNCHANGED <<forge, attempts, journal, action, told, obs, kills>>
    BY DEF SavesReceipt
  <1>2. Unsettled /\ attempts[Last].status = "prepared" /\ Last \in landed /\ conflict = 0
    BY DEF SavesReceipt, IInv, PrincipalKnows, At, ConflictExcludes, Unsettled
  <1>3. proc' \in Process /\ proc'.pc = "reply" /\ reply' \in Reply /\ reply'.status = "committed"
    BY <1>2, AnswerFacts, OpenIsLast DEF SavesReceipt, IInv, TypeOK, StoreOK, Receipt, ReplyStatus, Unsettled
  <1> QED
    BY <1>1, <1>2, <1>3, SavesTheReceipt DEF At, SavesReceipt

LEMMA BeginsAttemptStep ==
  ASSUME IInv, BeginsAttempt
  PROVE  IInv'
  <1>1. UNCHANGED <<forge, receipt, journal, action, told, obs, kills>>
    BY DEF BeginsAttempt
  <1>2. NoPublication /\ conflict = 0 /\ StoreOK
    BY DEF BeginsAttempt, IInv, TypeOK, PrincipalKnows, At
  <1>3. CASE UNCHANGED attempts /\ \E st \in {"head-moved", "refused"} : Answer(st, NoReceipt)
    BY <1>1, <1>2, <1>3, ReceiptsAreTyped, AnswerKeepsIInv DEF ReplyStatus, ledger
  <1>4. CASE /\ head = proc.want /\ Last < MaxAttempts
             /\ attempts' = Append(attempts, [base |-> proc.want, status |-> "reserved"])
             /\ Goto("prepare") /\ UNCHANGED reply
    <2> DEFINE a == [base |-> proc.want, status |-> "reserved"]
    <2>1. a \in Attempt /\ a.base = head /\ a.status = "reserved"
      BY <1>2, <1>4 DEF StoreOK, Attempt, Status
    <2>2. /\ attempts' \in Seq(Attempt)
          /\ Last' = Last + 1 /\ Last \in Nat
          /\ attempts' # <<>>
          /\ \A k \in 1..Last : attempts'[k] = attempts[k]
          /\ attempts'[Last + 1] = a
      BY <1>2, <1>4, <2>1, AppendFacts
    <2>3. \A k \in 1..Last : ~IsOpen(attempts[k])
      BY <1>2, AllClosed DEF IInv
    <2>4. landed = {}
      BY <1>2, <2>3 DEF IInv, OnlyPreparedMoves, IsOpen, StoreOK
    <2>5. StoreOK' /\ proc' \in Process /\ proc'.pc = "prepare"
      BY <1>1, <1>2, <1>4, <2>2, GotoFacts DEF StoreOK, forge, journal, IInv, TypeOK, ProcessPc, NoPublication
    <2>6. OneIsOpen'
      <3> SUFFICES ASSUME NEW k \in 1..(Last + 1)
                   PROVE  /\ attempts'[k].base <= head
                          /\ k < Last + 1 => ~IsOpen(attempts'[k])
                          /\ attempts'[k].status = "head-moved" => attempts'[k].base < head
        BY <1>1, <2>2 DEF OneIsOpen, IsOpen, forge
      <3>1. CASE k \in 1..Last
        BY <2>2, <2>3, <3>1 DEF IInv, OneIsOpen
      <3>2. CASE k = Last + 1
        BY <1>2, <2>1, <2>2, <3>2 DEF StoreOK
      <3> QED
        BY <2>2, <3>1, <3>2
    <2>7. OnlyPreparedMoves'
      BY <1>1, <1>2, <2>2, <2>4 DEF IInv, OnlyPreparedMoves, forge, StoreOK, NoPublication
    <2>8. Unsettled' /\ attempts'[Last'].status = "reserved" /\ conflict' = 0
      BY <1>1, <1>2, <2>1, <2>2 DEF Unsettled, OpenAttempt, IsOpen, NoPublication, journal
    <2>9. ConflictExcludes' /\ PrincipalKnows' /\ RepliesAreTrue' /\ ObserverIsRight'
      BY <1>1, <2>5, <2>8
      DEF ConflictExcludes, PrincipalKnows, RepliesAreTrue, ObserverIsRight, At, IInv, Happened, forge, journal
    <2> QED
      BY <1>1, <1>4, <2>5, <2>6, <2>7, <2>9 DEF IInv, TypeOK
  <1> QED
    BY <1>3, <1>4 DEF BeginsAttempt

LEMMA PreparesStep ==
  ASSUME IInv, Prepares
  PROVE  IInv'
  <1>1. UNCHANGED <<forge, receipt, journal, action, told, obs, kills>>
    BY DEF Prepares
  <1>2. Unsettled /\ attempts[Last].status = "reserved" /\ conflict = 0
    BY DEF Prepares, IInv, PrincipalKnows, At, ConflictExcludes, Unsettled
  <1>3. CASE Settle("abandoned") /\ Answer("refused", NoReceipt)
    <2>1. proc' \in Process /\ proc'.pc = "reply" /\ reply' \in Reply /\ reply'.status = "refused"
      BY <1>3, ReceiptsAreTyped, AnswerFacts DEF IInv, TypeOK, ReplyStatus
    <2> QED
      BY <1>1, <1>2, <1>3, <2>1, ClosesAttempt
  <1>4. CASE Settle("prepared") /\ Goto("sent") /\ UNCHANGED reply
    <2>1. StoreOK /\ OpenAttempt /\ proc' \in Process /\ proc'.pc = "sent"
      BY <1>2, <1>4, GotoFacts DEF IInv, TypeOK, Unsettled, ProcessPc
    <2>2. /\ attempts' \in Seq(Attempt)
          /\ Last' = Last /\ Last \in Nat /\ Last >= 1
          /\ attempts' # <<>>
          /\ \A k \in 1..Last :
               /\ attempts'[k].base = attempts[k].base
               /\ attempts'[k].status = IF k = Last THEN "prepared" ELSE attempts[k].status
      BY <1>4, <2>1, SettleFacts DEF OpenAttempt, Status
    <2>3. StoreOK' /\ OneIsOpen'
      BY <1>1, <2>1, <2>2 DEF StoreOK, forge, journal, IInv, OneIsOpen, IsOpen
    <2>4. OnlyPreparedMoves'
      BY <1>1, <1>2, <2>1, <2>2 DEF IInv, OnlyPreparedMoves, forge, StoreOK, Unsettled
    <2>5. Unsettled' /\ attempts'[Last'].status = "prepared" /\ conflict' = 0
      BY <1>1, <1>2, <2>2 DEF Unsettled, OpenAttempt, IsOpen, journal
    <2>6. ConflictExcludes' /\ PrincipalKnows' /\ RepliesAreTrue' /\ ObserverIsRight'
      BY <1>1, <2>1, <2>5
      DEF ConflictExcludes, PrincipalKnows, RepliesAreTrue, ObserverIsRight, At, IInv, Happened, forge, journal
    <2> QED
      BY <1>1, <1>4, <2>1, <2>3, <2>4, <2>6 DEF IInv, TypeOK
  <1> QED
    BY <1>3, <1>4 DEF Prepares

LEMMA AnsweredStep ==
  ASSUME IInv, Answered
  PROVE  IInv'
  <1>1. UNCHANGED <<overlapFrom, flying, ledger, journal, action, told, reply, obs, kills>> /\ Land(Last)
    BY DEF Answered
  <1>2. Unsettled /\ attempts[Last].status = "prepared" /\ conflict = 0 /\ Last \in 1..Last
    BY OpenIsLast DEF Answered, IInv, TypeOK, PrincipalKnows, At, ConflictExcludes, Unsettled
  <1>3. StoreOK' /\ OneIsOpen' /\ OnlyPreparedMoves' /\ ConflictExcludes' /\ ObserverIsRight'
    BY <1>1, <1>2, LandingKeeps DEF Unsettled, IInv, OnlyPreparedMoves, TypeOK, StoreOK
  <1>4. CASE Goto("moved") /\ (FastForwards(Last) \/ AlreadyThere(Last))
    <2>1. proc' \in Process /\ proc'.pc = "moved" /\ Last \in landed'
      BY <1>1, <1>4, GotoFacts DEF IInv, TypeOK, ProcessPc, Land, AlreadyThere
    <2> QED
      BY <1>1, <1>2, <1>3, <2>1, LedgerFrame
      DEF IInv, TypeOK, PrincipalKnows, RepliesAreTrue, At
  <1>5. CASE proc' = [proc EXCEPT !.pc = "look", !.back = "answer"]
    <2>1. proc' \in Process /\ proc'.pc = "look"
      BY <1>5 DEF IInv, TypeOK, ProcessPc, Process
    <2> QED
      BY <1>1, <1>2, <1>3, <2>1, LedgerFrame
      DEF IInv, TypeOK, PrincipalKnows, RepliesAreTrue, At
  <1> QED
    BY <1>4, <1>5 DEF Answered

LEMMA AnswerLostStep ==
  ASSUME IInv, AnswerLost
  PROVE  IInv'
  <1>1. UNCHANGED <<overlapFrom, flying, ledger, journal, action, told, obs, kills>> /\ Land(Last)
    BY DEF AnswerLost
  <1>2. Unsettled /\ attempts[Last].status = "prepared" /\ conflict = 0 /\ Last \in 1..Last
    BY OpenIsLast DEF AnswerLost, IInv, TypeOK, PrincipalKnows, At, ConflictExcludes, Unsettled
  <1>3. StoreOK' /\ OneIsOpen' /\ OnlyPreparedMoves' /\ ConflictExcludes' /\ ObserverIsRight'
    BY <1>1, <1>2, LandingKeeps DEF Unsettled, IInv, OnlyPreparedMoves, TypeOK, StoreOK
  <1>4. proc' \in Process /\ proc'.pc = "reply" /\ reply' \in Reply /\ reply'.status = "unknown"
    BY ReceiptsAreTyped, AnswerFacts DEF AnswerLost, IInv, TypeOK, ReplyStatus
  <1> QED
    BY <1>1, <1>3, <1>4 DEF IInv, TypeOK, PrincipalKnows, RepliesAreTrue, At

LEMMA UnansweredStep ==
  ASSUME IInv, Unanswered
  PROVE  IInv'
  <1>1. UNCHANGED <<head, overlapFrom, landed, ledger, journal, action, told, obs, kills>>
    BY DEF Unanswered
  <1>2. Unsettled /\ attempts[Last].status = "prepared" /\ conflict = 0 /\ Last \in 1..Last
    BY OpenIsLast DEF Unanswered, IInv, TypeOK, PrincipalKnows, At, ConflictExcludes, Unsettled
  <1>3. StoreOK' /\ OneIsOpen' /\ OnlyPreparedMoves' /\ ConflictExcludes' /\ ObserverIsRight'
    BY <1>1, <1>2, SendingKeeps DEF Unanswered
  <1>4. proc' \in Process /\ proc'.pc = "reply" /\ reply' \in Reply /\ reply'.status = "unknown"
    BY ReceiptsAreTyped, AnswerFacts DEF Unanswered, IInv, TypeOK, ReplyStatus
  <1> QED
    BY <1>1, <1>3, <1>4 DEF IInv, TypeOK, PrincipalKnows, RepliesAreTrue, At

LEMMA DieStep ==
  ASSUME IInv, Die
  PROVE  IInv'
  <1>1. UNCHANGED <<head, overlapFrom, landed, ledger, journal, action, told, obs>>
    BY DEF Die
  <1>2. kills' \in 0..MaxKills
    BY DEF Die, IInv, TypeOK
  <1>3. StoreOK' /\ OneIsOpen' /\ OnlyPreparedMoves' /\ ConflictExcludes' /\ ObserverIsRight'
    <2>1. CASE At("sent")
      <3>1. attempts[Last].status = "prepared" /\ Last \in 1..Last
        BY <2>1, OpenIsLast DEF IInv, TypeOK, PrincipalKnows, At, Unsettled
      <3> QED
        BY <1>1, <2>1, <3>1, SendingKeeps DEF Die
    <2>2. CASE ~At("sent")
      BY <1>1, <2>2, FrameFacts DEF Die, forge, IInv, TypeOK, ObserverIsRight
    <2> QED
      BY <2>1, <2>2
  <1>4. proc' \in Process /\ proc'.pc = "reply" /\ reply' \in Reply /\ reply'.status = "lost"
    BY ReceiptsAreTyped, AnswerFacts DEF Die, IInv, TypeOK, ReplyStatus
  <1> QED
    BY <1>1, <1>2, <1>3, <1>4 DEF IInv, TypeOK, PrincipalKnows, RepliesAreTrue, At

LEMMA ChecksConflictStep ==
  ASSUME IInv, ChecksConflict
  PROVE  IInv'
  <1>1. UNCHANGED <<forge, ledger, conflict, action, told, obs, kills>>
    BY DEF ChecksConflict
  <1>2. CASE UNCHANGED context /\ Answer("refused", NoReceipt)
    BY <1>1, <1>2, ReceiptsAreTyped, AnswerKeepsIInv DEF IInv, TypeOK, ReplyStatus, journal
  <1>3. CASE /\ receipt = NoReceipt /\ ~OpenAttempt /\ Overlaps(proc.want)
             /\ context' = (IF context = 0 THEN proc.want ELSE context)
             /\ Goto("record") /\ UNCHANGED reply
    <2>1. proc' \in Process /\ proc'.pc = "record" /\ context' \in 0..MaxHead
      BY <1>3, GotoFacts DEF IInv, TypeOK, StoreOK, ProcessPc, Process
    <2>4. proc'.want # 0
      BY <1>3 DEF IInv, TypeOK, StoreOK, Overlaps, Goto, Process
    <2>2. StoreOK' /\ NoPublication'
      BY <1>1, <1>3, <2>1 DEF IInv, TypeOK, StoreOK, forge, ledger, NoPublication, OpenAttempt, Last
    <2>3. OneIsOpen' /\ OnlyPreparedMoves' /\ ConflictExcludes' /\ ObserverIsRight'
      BY <1>1
      DEF IInv, OneIsOpen, OnlyPreparedMoves, ConflictExcludes, ObserverIsRight, forge, ledger, OpenAttempt, Last, Happened
    <2> QED
      BY <1>1, <1>3, <2>1, <2>2, <2>3, <2>4 DEF IInv, TypeOK, PrincipalKnows, RepliesAreTrue, At
  <1> QED
    BY <1>2, <1>3 DEF ChecksConflict

LEMMA RecordsConflictStep ==
  ASSUME IInv, RecordsConflict
  PROVE  IInv'
  <1>1. UNCHANGED <<forge, ledger, context, action, told, obs, kills>>
    BY DEF RecordsConflict
  <1>2. NoPublication /\ StoreOK
    BY DEF RecordsConflict, IInv, TypeOK, PrincipalKnows, At
  <1>3. CASE UNCHANGED conflict /\ Answer("refused", NoReceipt)
    BY <1>1, <1>2, <1>3, ReceiptsAreTyped, AnswerKeepsIInv DEF ReplyStatus, journal
  <1>4. CASE UNCHANGED conflict /\ conflict # 0 /\ Answer("recorded", ConflictReceipt)
    BY <1>1, <1>2, <1>4, ReceiptsAreTyped, AnswerKeepsIInv DEF ReplyStatus, journal, Happened
  <1>5. CASE conflict = 0 /\ conflict' = proc.want /\ Answer("recorded", ConflictReceipt)
    <2>1. proc' \in Process /\ proc'.pc = "reply" /\ reply' \in Reply
          /\ reply'.status = "recorded" /\ reply'.receipt = ConflictReceipt
      BY <1>2, <1>5, ReceiptsAreTyped, AnswerFacts DEF IInv, TypeOK, ReplyStatus
    <2>2. StoreOK' /\ NoPublication'
      BY <1>1, <1>2, <1>5 DEF IInv, TypeOK, StoreOK, Process, forge, ledger, NoPublication, OpenAttempt, Last
    <2>3. OneIsOpen' /\ OnlyPreparedMoves' /\ ConflictExcludes'
      BY <1>1, <2>2
      DEF IInv, OneIsOpen, OnlyPreparedMoves, ConflictExcludes, forge, ledger, NoPublication, Last
    <2>4. conflict' # 0
      BY <1>5 DEF RecordsConflict, IInv, PrincipalKnows, At
    <2>5. Happened \subseteq Happened' /\ ConflictReceipt \in Happened'
      BY <1>1, <1>5, <2>4 DEF Happened, forge
    <2> QED
      BY <1>1, <2>1, <2>2, <2>3, <2>5 DEF IInv, TypeOK, PrincipalKnows, RepliesAreTrue, ObserverIsRight, At
  <1> QED
    BY <1>3, <1>4, <1>5 DEF RecordsConflict

-----------------------------------------------------------------------------
(* GitHub's steps                                                            *)

LEMMA PushStep ==
  ASSUME IInv, Push
  PROVE  IInv'
  <1>1. UNCHANGED <<landed, flying, ledger, journal, action, told, proc, reply, obs, kills>>
    BY DEF Push
  <1>2. StoreOK /\ StoreOK'
    BY <1>1 DEF Push, IInv, TypeOK, StoreOK, ledger, journal, Last
  <1>3. OneIsOpen' /\ OnlyPreparedMoves'
    <2>1. head' = head + 1 /\ head \in Nat /\ Last' = Last
      BY <1>1, <1>2 DEF Push, StoreOK, ledger, Last
    <2>2. Last \in Nat /\ \A k \in 1..Last : attempts[k].base \in Nat
      BY <1>2, BasesAreNat
    <2> QED
      BY <1>1, <1>2, <2>1, <2>2 DEF IInv, OneIsOpen, OnlyPreparedMoves, IsOpen, StoreOK, ledger
  <1>4. ConflictExcludes' /\ PrincipalKnows' /\ RepliesAreTrue' /\ ObserverIsRight'
    BY <1>1, LedgerFrame
    DEF IInv, ConflictExcludes, PrincipalKnows, RepliesAreTrue, ObserverIsRight, At, Happened, journal
  <1> QED
    BY <1>1, <1>2, <1>3, <1>4 DEF IInv, TypeOK

LEMMA LateLandStep ==
  ASSUME IInv, ~Straddle, NEW k \in flying, LateLand(k)
  PROVE  IInv'
  <1>1. UNCHANGED <<overlapFrom, ledger, journal, action, told, proc, reply, obs, kills>>
        /\ flying' = flying \ {k} /\ Land(k) /\ ~At("compare")
    BY DEF LateLand
  <1>2. k \in 1..Last /\ StoreOK /\ attempts[k] \in Attempt /\ Last \in Nat
    BY DEF IInv, TypeOK, StoreOK, Last
  <1>3. CASE ~FastForwards(k)
    <2>1. UNCHANGED <<head, landed>>
      BY <1>1, <1>3 DEF Land
    <2>2. StoreOK' /\ OneIsOpen' /\ OnlyPreparedMoves'
      BY <1>1, <1>2, <2>1 DEF IInv, StoreOK, OneIsOpen, OnlyPreparedMoves, IsOpen, ledger, journal, Last
    <2>3. ConflictExcludes' /\ PrincipalKnows' /\ RepliesAreTrue' /\ ObserverIsRight'
      BY <1>1, <2>1, LedgerFrame
      DEF IInv, ConflictExcludes, PrincipalKnows, RepliesAreTrue, ObserverIsRight, At, Happened, journal
    <2> QED
      BY <1>1, <2>2, <2>3 DEF IInv, TypeOK
  <1>4. CASE FastForwards(k)
    <2>1. attempts[k].status = "prepared" /\ IsOpen(attempts[k])
      BY <1>2, <1>4 DEF IInv, OneIsOpen, OnlyPreparedMoves, FastForwards, IsOpen, StoreOK, Attempt
    <2>2. k = Last
      BY <1>2, <2>1 DEF IInv, OneIsOpen
    <2>3. OpenAttempt
      BY <1>2, <2>1, <2>2 DEF OpenAttempt, Last
    <2>4. conflict = 0
      BY <2>3 DEF IInv, ConflictExcludes
    <2>5. StoreOK' /\ OneIsOpen' /\ OnlyPreparedMoves' /\ ConflictExcludes' /\ ObserverIsRight'
      BY <1>1, <1>2, <2>1, <2>2, <2>4, LandingKeeps DEF IInv, OnlyPreparedMoves, StoreOK
    <2>6. PrincipalKnows' /\ RepliesAreTrue'
      BY <1>1, <2>3, <2>4, LedgerFrame
      DEF IInv, PrincipalKnows, RepliesAreTrue, At, NoPublication, Happened, Land, journal
    <2> QED
      BY <1>1, <2>5, <2>6 DEF IInv, TypeOK
  <1> QED
    BY <1>3, <1>4

-----------------------------------------------------------------------------
(* Initially, when nothing happens, and for every step                       *)

LEMMA InitIInv == Init => IInv
  <1> SUFFICES ASSUME Init PROVE IInv
    OBVIOUS
  <1>1. attempts \in Seq(Attempt) /\ Last = 0 /\ ~OpenAttempt /\ Happened = {}
    BY DEF Init, Last, OpenAttempt, Happened
  <1>2. TypeOK
    BY <1>1, NothingRuns, FreeIsObserver DEF Init, TypeOK, StoreOK, Action, Receipt
  <1>3. OneIsOpen /\ OnlyPreparedMoves /\ ConflictExcludes
    BY <1>1 DEF Init, OneIsOpen, OnlyPreparedMoves, ConflictExcludes
  <1>4. PrincipalKnows /\ RepliesAreTrue /\ ObserverIsRight
    BY <1>1 DEF Init, PrincipalKnows, RepliesAreTrue, ObserverIsRight, At, NoProcess, Free
  <1> QED
    BY <1>2, <1>3, <1>4 DEF IInv

LEMMA StutterIInv == ASSUME IInv, UNCHANGED vars PROVE IInv'
  <1>1. UNCHANGED <<forge, ledger, journal, action, told, proc, reply, obs, kills>>
    BY DEF vars, forge, ledger, journal
  <1> QED
    BY <1>1, FrameFacts DEF IInv, TypeOK, PrincipalKnows, RepliesAreTrue, ObserverIsRight, At

LEMMA NextIInv == ASSUME IInv, ~Straddle, [Next]_vars PROVE IInv'
  <1>1. CASE PrincipalStep
    BY <1>1, LoadStep, LooksForCommitStep, ComparesHeadStep, AnswersLookupStep, ResumeStep,
       BeginsAttemptStep, PreparesStep, UnansweredStep, SavesReceiptStep, AnswersPublishStep,
       ChecksConflictStep, RecordsConflictStep, RaisesStep
    DEF PrincipalStep
  <1>2. CASE Answered \/ AnswerLost \/ Die
    BY <1>2, AnsweredStep, AnswerLostStep, DieStep
  <1>3. CASE ObserverStep
    BY <1>3, CallsStep, AuthorizesStep, PlansStep, TakesLookupStep, TakesPublishStep,
       TakesConflictStep, CompletesStep, ReportsStep, SavesReportStep
    DEF ObserverStep
  <1>4. CASE Trigger \/ Reconcile \/ ObserverDies \/ Unheard \/ DirectCall \/ Push
    BY <1>4, TriggerStep, ReconcileStep, ObserverDiesStep, UnheardStep, DirectCallStep, PushStep
  <1>5. CASE \E k \in flying : LateLand(k)
    BY <1>5, LateLandStep
  <1> QED
    BY <1>1, <1>2, <1>3, <1>4, <1>5, StutterIInv DEF Next

-----------------------------------------------------------------------------
(* The refinement of RecoveryPromise                                         *)

\* At most one outcome has happened: a commit that landed is the open attempt's,
\* of which there is one, and a conflict excludes it.
AtMostOneOutcome ==
  \A a, b \in Happened : a = b /\ a \in {ConflictReceipt} \cup 1..MaxAttempts

LEMMA OneOutcome == IInv => AtMostOneOutcome
  <1> SUFFICES ASSUME IInv, NEW a \in Happened, NEW b \in Happened
               PROVE  a = b /\ a \in {ConflictReceipt} \cup 1..MaxAttempts
    BY DEF AtMostOneOutcome
  <1>1. Last \in Nat /\ Last <= MaxAttempts /\ landed \subseteq 1..Last
    BY BasesAreNat DEF IInv, TypeOK, StoreOK
  <1>2. \A k \in landed : k = Last /\ OpenAttempt
    <2> SUFFICES ASSUME NEW k \in landed PROVE k = Last /\ OpenAttempt
      OBVIOUS
    <2>1. k \in 1..Last /\ IsOpen(attempts[k])
      BY <1>1 DEF IInv, OnlyPreparedMoves, IsOpen
    <2>2. k = Last
      BY <1>1, <2>1 DEF IInv, OneIsOpen
    <2> QED
      BY <2>1, <2>2 DEF OpenAttempt, Last
  <1>3. conflict # 0 => landed = {}
    BY <1>2 DEF IInv, ConflictExcludes
  <1> QED
    BY <1>1, <1>2, <1>3 DEF Happened

\* What happened never unhappens, and is not noted or told by the step it happens in.
LEMMA HappenedGrows ==
  ASSUME IInv, Next
  PROVE  \/ Happened \subseteq Happened' /\ UNCHANGED <<action, told>>
         \/ UNCHANGED Happened /\ (Trigger \/ Completes \/ Reports \/ SavesReport)
  <1>1. CASE PrincipalStep \/ Answered \/ AnswerLost \/ Die
    <2>1. UNCHANGED <<action, told>>
      BY <1>1
      DEF PrincipalStep, Load, LooksForCommit, ComparesHead, AnswersLookup, Resume, BeginsAttempt,
          Prepares, Unanswered, SavesReceipt, AnswersPublish, ChecksConflict, RecordsConflict,
          Raises, Answered, AnswerLost, Die
    <2>2. landed \subseteq landed' /\ (conflict # 0 => UNCHANGED conflict)
      BY <1>1
      DEF PrincipalStep, Load, LooksForCommit, ComparesHead, AnswersLookup, Resume, BeginsAttempt,
          Prepares, Unanswered, SavesReceipt, AnswersPublish, ChecksConflict, RecordsConflict,
          Raises, Answered, AnswerLost, Die, Land, forge, journal
    <2> QED
      BY <2>1, <2>2 DEF Happened
  <1>2. CASE ObserverStep
    BY <1>2
    DEF ObserverStep, Calls, Authorizes, Plans, TakesLookup, TakesPublish, TakesConflict,
        Completes, Reports, SavesReport, Happened, forge, journal
  <1>3. CASE Trigger \/ Reconcile \/ ObserverDies \/ Unheard \/ DirectCall \/ Push
    BY <1>3 DEF Trigger, Reconcile, ObserverDies, Unheard, DirectCall, Push, Happened, forge, journal
  <1>4. CASE \E k \in flying : LateLand(k)
    BY <1>4 DEF LateLand, Land, Happened, journal
  <1> QED
    BY <1>1, <1>2, <1>3, <1>4 DEF Next

\* Every step is one of the abstract specification, or changes nothing it sees.
LEMMA StepIsPromised ==
  ASSUME IInv, IInv', [Next]_vars
  PROVE  [Promise!Next]_(Promise!vars)
  <1> USE DEF Promise!vars, Promise!Next, Promise!Happen, Promise!Note, Promise!Tell
  <1>0. AtMostOneOutcome /\ AtMostOneOutcome'
    BY OneOutcome, PTL
  <1>1. CASE Happened \subseteq Happened' /\ UNCHANGED <<action, told>>
    <2>1. CASE Happened' = Happened
      BY <1>1, <2>1
    <2>2. CASE Happened' # Happened
      <3>1. PICK o \in Happened' : o \notin Happened
        BY <1>1, <2>2
      <3>2. \A a \in Happened' : a = o
        BY <1>0, <3>1 DEF AtMostOneOutcome
      <3>3. o \in {ConflictReceipt} \cup 1..MaxAttempts
        BY <1>0, <3>1 DEF AtMostOneOutcome
      <3>4. Happened = {} /\ Happened' = {o}
        BY <1>1, <3>1, <3>2
      <3> QED
        BY <1>1, <3>3, <3>4
    <2> QED
      BY <2>1, <2>2
  <1>2. CASE UNCHANGED Happened /\ Trigger
    <2>1. UNCHANGED <<action.receipt, told>>
      BY <1>2 DEF Trigger, IInv, TypeOK, Action
    <2> QED
      BY <1>2, <2>1
  <1>3. CASE UNCHANGED Happened /\ (Completes \/ SavesReport)
    <2>1. UNCHANGED told /\ action'.receipt = obs.got /\ obs.got \in Happened
      <3>1. action \in Action /\ ObserverIsRight
        BY DEF IInv, TypeOK
      <3>2. CASE Completes
        BY <3>1, <3>2 DEF Completes, Action, ObserverIsRight
      <3>3. CASE SavesReport
        BY <3>1, <3>3 DEF SavesReport, ObserverIsRight
      <3> QED
        BY <1>3, <3>2, <3>3
    <2>2. CASE action.receipt = NoReceipt
      BY <1>3, <2>1, <2>2
    <2>3. CASE action.receipt # NoReceipt
      <3>1. action.receipt \in Happened
        BY <2>3 DEF IInv, ObserverIsRight
      <3>2. action'.receipt = action.receipt
        BY <1>0, <2>1, <3>1 DEF AtMostOneOutcome
      <3> QED
        BY <1>3, <2>1, <3>2
    <2> QED
      BY <2>2, <2>3
  <1>4. CASE UNCHANGED Happened /\ Reports
    <2>1. UNCHANGED action /\ obs.got \in Happened /\ told' \in {told, told \cup {obs.got}}
      BY <1>4 DEF Reports, IInv, ObserverIsRight
    <2>2. told' \subseteq Happened /\ told \subseteq told'
      BY <2>1 DEF IInv, ObserverIsRight
    <2> QED
      BY <1>4, <2>1, <2>2
  <1>5. CASE UNCHANGED vars
    BY <1>5 DEF vars, Happened
  <1> QED
    BY <1>1, <1>2, <1>3, <1>4, <1>5, HappenedGrows

-----------------------------------------------------------------------------
(* What a reader should know, of a forge that handles no update between the  *)
(* two reads of `settle`                                                     *)

\* IInv holds throughout.
THEOREM InductiveInvariant == ASSUME ~Straddle PROVE Spec => []IInv
  <1>1. IInv /\ [Next]_vars => IInv'
    BY NextIInv
  <1> QED
    BY <1>1, InitIInv, PTL DEF Spec

\* The state always has its type, so `recover` never goes past `_CAS_ATTEMPTS`.
THEOREM TypeCorrect == ASSUME ~Straddle PROVE Spec => []TypeOK
  <1>1. IInv => TypeOK
    BY DEF IInv
  <1> QED
    BY <1>1, InductiveInvariant, PTL

\* `lookup` answers `absent` only when no effect happened, and none can happen
\* by an update that is still under way.
THEOREM AbsentIsTrue == ASSUME ~Straddle PROVE Spec => []AbsentMeansNoEffect
  <1>1. IInv => AbsentMeansNoEffect
    <2> SUFFICES ASSUME IInv, At("reply"), reply.status = "absent"
                 PROVE  landed = {} /\ conflict = 0 /\ \A k \in flying : ~FastForwards(k)
      BY DEF AbsentMeansNoEffect
    <2>1. conflict = 0 /\ \A k \in 1..Last : ~IsOpen(attempts[k])
      BY AllClosed DEF IInv, TypeOK, RepliesAreTrue
    <2>2. landed = {}
      BY <2>1 DEF IInv, TypeOK, StoreOK, OnlyPreparedMoves, IsOpen
    <2>3. ASSUME NEW k \in flying PROVE ~FastForwards(k)
      <3>1. k \in 1..Last /\ attempts[k].status = "head-moved"
        BY <2>1 DEF IInv, TypeOK, StoreOK, OnlyPreparedMoves, IsOpen
      <3>2. attempts[k].base \in Nat /\ head \in Nat /\ attempts[k].base < head
        BY <3>1, BasesAreNat DEF IInv, TypeOK, StoreOK, OneIsOpen
      <3> QED
        BY <3>2 DEF FastForwards
    <2> QED
      BY <2>1, <2>2, <2>3
  <1> QED
    BY <1>1, InductiveInvariant, PTL

\* The one commit that landed, or still can, is known by its SHA.
THEOREM NoUnknownEffect == ASSUME ~Straddle PROVE Spec => []NothingLandsUnknown
  <1>1. IInv => NothingLandsUnknown
    <2> SUFFICES ASSUME IInv, NEW k \in landed \cup {j \in flying : FastForwards(j)}
                 PROVE  k = Last /\ attempts[k].status = "prepared"
      BY DEF NothingLandsUnknown
    <2>1. k \in 1..Last /\ Last \in Nat
      BY BasesAreNat DEF IInv, TypeOK, StoreOK
    <2>2. attempts[k].status = "prepared"
      <3>1. attempts[k].base \in Nat /\ head \in Nat
        BY <2>1, BasesAreNat DEF IInv, TypeOK, StoreOK
      <3> QED
        BY <2>1, <3>1 DEF IInv, OneIsOpen, OnlyPreparedMoves, FastForwards
    <2> QED
      BY <2>1, <2>2 DEF IInv, OneIsOpen, IsOpen
  <1> QED
    BY <1>1, InductiveInvariant, PTL

\* One outcome per action, and what is noted and told is it: the detailed
\* specification implements RecoveryPromise.
THEOREM OutcomeIsPromised == ASSUME ~Straddle PROVE Spec => OutcomePromised
  <1>1. Init => Promise!Init
    BY DEF Init, Promise!Init, Happened
  <1>2. IInv /\ IInv' /\ [Next]_vars => [Promise!Next]_(Promise!vars)
    BY StepIsPromised
  <1> QED
    BY <1>1, <1>2, InductiveInvariant, PTL DEF Spec, OutcomePromised, Promise!Spec
-----------------------------------------------------------------------------
(* Whoever holds the fence comes to an end: no assumption on GitHub at all   *)

\* The processes are at a place of the program, and no round is past the last.
Placed ==
    /\ proc = [pc |-> proc.pc, op |-> proc.op, want |-> proc.want, back |-> proc.back]
    /\ proc.pc \in ProcessPc /\ proc.back \in {"resume", "answer"}
    /\ obs = [pc |-> obs.pc, tries |-> obs.tries, want |-> obs.want, got |-> obs.got]
    /\ obs.pc \in ObserverPc /\ obs.tries \in 0..CasAttempts - 1

\* How many steps a process has to go at each place.
LEMMA ProcessTable ==
  ASSUME NEW p, p.pc \in ProcessPc, p.back \in {"resume", "answer"}
  PROVE  /\ ProcessLeft(p) \in 0..11
         /\ p.pc = "idle" <=> ProcessLeft(p) = 0
         /\ p.pc = "reply" => ProcessLeft(p) = 1
         /\ p.pc \notin {"idle", "reply"} => ProcessLeft(p) >= 2
         /\ p.pc \in {"moved", "answer", "record"} => ProcessLeft(p) = 2
         /\ p.pc = "compare" => ProcessLeft(p) = IF p.back = "answer" THEN 3 ELSE 9
         /\ p.pc = "look" => ProcessLeft(p) = IF p.back = "answer" THEN 4 ELSE 10
         /\ p.pc = "sent" => ProcessLeft(p) = 5
         /\ p.pc = "prepare" => ProcessLeft(p) = 6
         /\ p.pc = "begin" => ProcessLeft(p) = 7
         /\ p.pc = "resume" => ProcessLeft(p) = 8
         /\ p.pc = "load" => ProcessLeft(p) = 11
  <1>1. /\ p.pc = "idle" => ProcessLeft(p) = 0
        /\ p.pc = "reply" => ProcessLeft(p) = 1
        /\ p.pc \in {"moved", "answer", "record"} => ProcessLeft(p) = 2
        /\ p.pc = "compare" => ProcessLeft(p) = IF p.back = "answer" THEN 3 ELSE 9
    BY DEF ProcessLeft
  <1>2. /\ p.pc = "look" => ProcessLeft(p) = IF p.back = "answer" THEN 4 ELSE 10
        /\ p.pc = "sent" => ProcessLeft(p) = 5
        /\ p.pc = "prepare" => ProcessLeft(p) = 6
        /\ p.pc = "begin" => ProcessLeft(p) = 7
        /\ p.pc = "resume" => ProcessLeft(p) = 8
        /\ p.pc = "load" => ProcessLeft(p) = 11
    BY DEF ProcessLeft
  <1> QED
    BY <1>1, <1>2 DEF ProcessPc

\* The same of an observation, by the rounds it has left.
LEMMA ObserverTable ==
  ASSUME NEW o, o.pc \in ObserverPc, o.tries \in 0..CasAttempts - 1
  PROVE  /\ RoundsLeft(o) \in 1..CasAttempts
         /\ ObserverLeft(o) \in 0..13 * (CasAttempts + 1) + 1
         /\ o.pc = "free" => ObserverLeft(o) = 0
         /\ o.pc # "free" => ObserverLeft(o) >= 1
         /\ o.pc \in {"save", "saveTold", "complete", "relook", "conflict"} => ObserverLeft(o) = 1
         /\ o.pc \in {"report", "reconcile"} => ObserverLeft(o) = 2
         /\ o.pc = "publish" => ObserverLeft(o) = 13 * RoundsLeft(o)
         /\ o.pc = "head" => ObserverLeft(o) = 13 * RoundsLeft(o) + 13
         /\ o.pc \in {"scope", "look"} => ObserverLeft(o) = 13 * RoundsLeft(o) + 14
         /\ AsksThePrincipal(o) <=>
               o.pc \in {"look", "relook", "reconcile", "publish", "conflict"}
  <1>1. RoundsLeft(o) \in 1..CasAttempts
    BY DEF RoundsLeft
  <1>2. AsksThePrincipal(o) <=> o.pc \in {"look", "relook", "reconcile", "publish", "conflict"}
    BY DEF AsksThePrincipal, Lookups
  <1>3. 13 * (RoundsLeft(o) + 1) = 13 * RoundsLeft(o) + 13
    BY <1>1
  <1>4. /\ o.pc = "free" => ObserverLeft(o) = 0
        /\ o.pc \in {"save", "saveTold", "complete", "relook", "conflict"} => ObserverLeft(o) = 1
        /\ o.pc \in {"report", "reconcile"} => ObserverLeft(o) = 2
        /\ o.pc = "publish" => ObserverLeft(o) = 13 * RoundsLeft(o)
        /\ o.pc = "head" => ObserverLeft(o) = 13 * RoundsLeft(o) + 13
        /\ o.pc \in {"scope", "look"} => ObserverLeft(o) = 13 * RoundsLeft(o) + 14
    BY <1>1, <1>3 DEF ObserverLeft
  <1>5. ObserverLeft(o) \in 0..13 * (CasAttempts + 1) + 1 /\ (o.pc # "free" => ObserverLeft(o) >= 1)
    BY <1>1, <1>4 DEF ObserverPc
  <1> QED
    BY <1>1, <1>2, <1>4, <1>5

\* What is left is a number within its bound, and more than none under the fence.
LEMMA LeftIsCounted ==
  ASSUME NEW o, o.pc \in ObserverPc, o.tries \in 0..CasAttempts - 1,
         NEW p, p.pc \in ProcessPc, p.back \in {"resume", "answer"}
  PROVE  /\ FenceLeft(o, p) \in 0..13 * (CasAttempts + 2)
         /\ o.pc # "free" \/ p.pc # "idle" => FenceLeft(o, p) >= 1
  <1>1. ProcessLeft(p) \in 0..11 /\ (p.pc # "idle" => ProcessLeft(p) >= 1)
    BY ProcessTable
  <1>2. /\ ObserverLeft(o) \in 0..13 * (CasAttempts + 1) + 1
        /\ o.pc # "free" => ObserverLeft(o) >= 1
    BY ObserverTable
  <1>3. FenceLeft(o, p) \in ObserverLeft(o)..ObserverLeft(o) + 12
    BY <1>1, <1>2 DEF FenceLeft
  <1>4. p.pc # "idle" => FenceLeft(o, p) = ObserverLeft(o) + ProcessLeft(p)
    BY DEF FenceLeft
  <1> QED
    BY <1>1, <1>2, <1>3, <1>4

\* A process that moves stays in place, and the observation waits for it.
LEMMA GoesOn ==
  ASSUME Placed, UNCHANGED obs, NEW pc \in ProcessPc, Goto(pc)
  PROVE  /\ Placed' /\ proc'.pc = pc /\ proc'.back = proc.back
         /\ At("idle") \/ pc = "idle" \/ ProcessLeft(proc') >= ProcessLeft(proc)
               \/ FenceLeft(obs', proc') < FenceLeft(obs, proc)
  <1>1. proc' = [pc |-> pc, op |-> proc.op, want |-> proc.want, back |-> proc.back]
    BY DEF Placed, Goto
  <1>2. Placed' /\ proc'.pc = pc /\ proc'.back = proc.back
    BY <1>1 DEF Placed
  <1>3. ASSUME ~ At("idle"), pc # "idle", ~ (ProcessLeft(proc') >= ProcessLeft(proc))
        PROVE  FenceLeft(obs', proc') < FenceLeft(obs, proc)
    <2>1. ProcessLeft(proc) \in Nat /\ ProcessLeft(proc') \in Nat /\ ObserverLeft(obs) \in Nat
      BY <1>2, ProcessTable, ObserverTable DEF Placed
    <2>2. FenceLeft(obs, proc) = ObserverLeft(obs) + ProcessLeft(proc)
      BY <1>3 DEF FenceLeft, At
    <2>3. FenceLeft(obs', proc') = ObserverLeft(obs) + ProcessLeft(proc')
      BY <1>2, <1>3 DEF FenceLeft
    <2> QED
      BY <1>3, <2>1, <2>2, <2>3
  <1> QED
    BY <1>2, <1>3

\* An answer is the last step of a process but for being heard.
LEMMA AnswersAndEnds ==
  ASSUME Placed, UNCHANGED obs, NEW s, NEW r, Answer(s, r), proc.pc \notin {"idle", "reply"}
  PROVE  Placed' /\ FenceLeft(obs', proc') < FenceLeft(obs, proc)
  <1>1. "reply" \in ProcessPc /\ Goto("reply")
    BY DEF ProcessPc, Answer
  <1>2. Placed' /\ proc'.pc = "reply"
    BY <1>1, GoesOn
  <1>3. ProcessLeft(proc') = 1 /\ ProcessLeft(proc) >= 2 /\ ProcessLeft(proc) \in Nat
    BY <1>2, ProcessTable DEF Placed
  <1> QED
    BY <1>1, <1>2, <1>3, GoesOn DEF At

\* From one place to a later one.
LEMMA GoesOnTo ==
  ASSUME Placed, UNCHANGED obs, NEW pc, Goto(pc),
         \/ proc.pc = "load" /\ pc \in {"look", "resume", "record"}
         \/ proc.pc = "look" /\ pc \in {"compare", proc.back}
         \/ proc.pc = "compare" /\ pc = proc.back
         \/ proc.pc = "resume" /\ pc \in {"begin", "sent"}
         \/ proc.pc = "begin" /\ pc = "prepare"
         \/ proc.pc = "prepare" /\ pc = "sent"
         \/ proc.pc = "sent" /\ pc = "moved"
  PROVE  Placed' /\ FenceLeft(obs', proc') < FenceLeft(obs, proc)
  <1>1. pc \in ProcessPc /\ pc # "idle" /\ ~ At("idle")
    BY DEF ProcessPc, Placed, At
  <1>2. Placed' /\ proc'.pc = pc /\ proc'.back = proc.back
    BY <1>1, GoesOn
  <1>3. ProcessLeft(proc') \in Nat /\ ProcessLeft(proc) \in Nat
    BY <1>2, ProcessTable DEF Placed
  <1>4. ProcessLeft(proc') < ProcessLeft(proc)
    <2>1. CASE proc.back = "answer"
      BY <1>2, <2>1, ProcessTable DEF Placed
    <2>2. CASE proc.back = "resume"
      BY <1>2, <2>2, ProcessTable DEF Placed
    <2> QED
      BY <2>1, <2>2 DEF Placed
  <1>5. ~ (ProcessLeft(proc') >= ProcessLeft(proc))
    BY <1>3, <1>4
  <1> QED
    BY <1>1, <1>2, <1>5, GoesOn

\* Every step of a principal is one less to go, and so is its death.
LEMMA PrincipalShortens ==
  ASSUME Placed, PrincipalStep \/ Answered \/ AnswerLost \/ Die
  PROVE  Placed' /\ FenceLeft(obs', proc') < FenceLeft(obs, proc)
  <1>1. CASE Load
    BY <1>1, GoesOnTo, AnswersAndEnds DEF Load, At
  <1>2. CASE LooksForCommit
    BY <1>2, GoesOnTo DEF LooksForCommit, At
  <1>3. CASE ComparesHead
    BY <1>3, GoesOnTo DEF ComparesHead, At
  <1>4. CASE AnswersLookup \/ AnswerLost \/ Unanswered \/ SavesReceipt \/ AnswersPublish
    BY <1>4, AnswersAndEnds
       DEF AnswersLookup, AnswerLost, Unanswered, SavesReceipt, AnswersPublish, At
  <1>5. CASE Resume
    BY <1>5, GoesOnTo, AnswersAndEnds DEF Resume, At
  <1>6. CASE BeginsAttempt
    BY <1>6, GoesOnTo, AnswersAndEnds DEF BeginsAttempt, At
  <1>7. CASE Prepares
    BY <1>7, GoesOnTo, AnswersAndEnds DEF Prepares, At
  <1>8. CASE ChecksConflict
    BY <1>8, GoesOnTo, AnswersAndEnds DEF ChecksConflict, At
  <1>9. CASE RecordsConflict
    BY <1>9, AnswersAndEnds DEF RecordsConflict, At
  <1>10. CASE Raises
    BY <1>10, AnswersAndEnds DEF Raises
  <1>11. CASE Die
    BY <1>11, AnswersAndEnds DEF Die
  <1>12. CASE Answered
    <2>1. CASE Goto("moved")
      BY <1>12, <2>1, GoesOnTo DEF Answered, At
    <2>2. CASE proc' = [proc EXCEPT !.pc = "look", !.back = "answer"]
      <3>1. proc' = [pc |-> "look", op |-> proc.op, want |-> proc.want, back |-> "answer"]
        BY <2>2 DEF Placed
      <3>2. proc.pc = "sent" /\ UNCHANGED obs
        BY <1>12 DEF Answered, At
      <3>3. Placed'
        BY <3>1, <3>2 DEF Placed, ProcessPc
      <3>4. ProcessLeft(proc) = 5 /\ ProcessLeft(proc') = 4 /\ ObserverLeft(obs) \in Nat
        BY <3>1, <3>2, ProcessTable, ObserverTable DEF Placed, ProcessPc
      <3>5. FenceLeft(obs, proc) = ObserverLeft(obs) + 5
        BY <3>2, <3>4 DEF FenceLeft
      <3>6. FenceLeft(obs', proc') = ObserverLeft(obs) + 4
        BY <3>1, <3>2, <3>4 DEF FenceLeft
      <3> QED
        BY <3>3, <3>4, <3>5, <3>6
    <2> QED
      BY <1>12, <2>1, <2>2 DEF Answered
  <1> QED
    BY <1>1, <1>2, <1>3, <1>4, <1>5, <1>6, <1>7, <1>8, <1>9, <1>10, <1>11, <1>12
       DEF PrincipalStep

\* An observation that goes on by itself or comes to its end.
LEMMA ObserverGoesOn ==
  ASSUME Placed, UNCHANGED proc,
         obs' = [pc |-> obs'.pc, tries |-> obs'.tries, want |-> obs'.want, got |-> obs'.got],
         \/ obs' = Free /\ obs.pc # "free"
         \/ obs'.tries = obs.tries /\ \/ obs.pc = "scope" /\ obs'.pc = "head"
                                      \/ obs.pc = "head" /\ obs'.pc \in {"publish", "conflict"}
                                      \/ obs.pc = "report" /\ obs'.pc \in {"save", "saveTold"}
  PROVE  Placed' /\ FenceLeft(obs', proc') < FenceLeft(obs, proc)
  <1>1. obs'.pc \in ObserverPc /\ obs'.tries \in 0..CasAttempts - 1
    BY DEF Placed, Free, ObserverPc
  <1>2. Placed'
    BY <1>1 DEF Placed
  <1> DEFINE Asks(o) == IF AsksThePrincipal(o) THEN 12 ELSE 0
  <1>3. /\ ObserverLeft(obs') \in Nat /\ ObserverLeft(obs) \in Nat
        /\ RoundsLeft(obs) \in Nat /\ RoundsLeft(obs) >= 1
    BY <1>1, ObserverTable DEF Placed
  <1>4. /\ ObserverLeft(obs') < ObserverLeft(obs)
        /\ ObserverLeft(obs') + Asks(obs') < ObserverLeft(obs) + Asks(obs)
    <2>1. CASE obs' = Free /\ obs.pc # "free"
      <3>1. obs'.pc = "free"
        BY <2>1 DEF Free
      <3>2. ObserverLeft(obs') = 0 /\ ~ AsksThePrincipal(obs') /\ ObserverLeft(obs) >= 1
        BY <1>1, <2>1, <3>1, ObserverTable DEF Placed
      <3> QED
        BY <1>3, <3>2
    <2>2. CASE obs'.tries = obs.tries /\ obs.pc = "scope" /\ obs'.pc = "head"
      <3>1. RoundsLeft(obs') = RoundsLeft(obs)
        BY <2>2 DEF RoundsLeft
      <3>2. /\ ObserverLeft(obs) = 13 * RoundsLeft(obs) + 14
            /\ ObserverLeft(obs') = 13 * RoundsLeft(obs) + 13
            /\ ~ AsksThePrincipal(obs') /\ ~ AsksThePrincipal(obs)
        BY <1>1, <2>2, <3>1, ObserverTable DEF Placed
      <3> QED
        BY <1>3, <3>2
    <2>3. CASE obs'.tries = obs.tries /\ obs.pc = "head" /\ obs'.pc = "publish"
      <3>1. RoundsLeft(obs') = RoundsLeft(obs)
        BY <2>3 DEF RoundsLeft
      <3>2. /\ ObserverLeft(obs) = 13 * RoundsLeft(obs) + 13
            /\ ObserverLeft(obs') = 13 * RoundsLeft(obs)
            /\ AsksThePrincipal(obs') /\ ~ AsksThePrincipal(obs)
        BY <1>1, <2>3, <3>1, ObserverTable DEF Placed
      <3> QED
        BY <1>3, <3>2
    <2>4. CASE obs.pc = "head" /\ obs'.pc = "conflict"
      <3>1. /\ ObserverLeft(obs) = 13 * RoundsLeft(obs) + 13 /\ ObserverLeft(obs') = 1
            /\ AsksThePrincipal(obs') /\ ~ AsksThePrincipal(obs)
        BY <1>1, <2>4, ObserverTable DEF Placed
      <3> QED
        BY <1>3, <3>1
    <2>5. CASE obs.pc = "report" /\ obs'.pc \in {"save", "saveTold"}
      <3>1. /\ ObserverLeft(obs) = 2 /\ ObserverLeft(obs') = 1
            /\ ~ AsksThePrincipal(obs') /\ ~ AsksThePrincipal(obs)
        BY <1>1, <2>5, ObserverTable DEF Placed
      <3> QED
        BY <3>1
    <2> QED
      BY <2>1, <2>2, <2>3, <2>4, <2>5
  <1>5. CASE proc.pc = "idle"
    <2>1. /\ FenceLeft(obs', proc') = ObserverLeft(obs') + Asks(obs')
          /\ FenceLeft(obs, proc) = ObserverLeft(obs) + Asks(obs)
      BY <1>5 DEF FenceLeft
    <2> QED
      BY <1>2, <1>4, <2>1
  <1>6. CASE proc.pc # "idle"
    <2>1. ProcessLeft(proc) \in Nat
      BY ProcessTable DEF Placed
    <2>2. /\ FenceLeft(obs', proc') = ObserverLeft(obs') + ProcessLeft(proc)
          /\ FenceLeft(obs, proc) = ObserverLeft(obs) + ProcessLeft(proc)
      BY <1>6 DEF FenceLeft
    <2> QED
      BY <1>2, <1>3, <1>4, <2>1, <2>2
  <1> QED
    BY <1>5, <1>6

\* An observation that takes the answer it waited for.
LEMMA ObserverTakes ==
  ASSUME Placed, proc.pc = "reply", proc' = NoProcess,
         obs' = [pc |-> obs'.pc, tries |-> obs'.tries, want |-> obs'.want, got |-> obs'.got],
         \/ obs' = Free
         \/ obs'.tries = obs.tries /\ \/ obs.pc = "look" /\ obs'.pc = "scope"
                                      \/ obs.pc = "reconcile" /\ obs'.pc = "report"
                                      \/ /\ obs.pc \in {"look", "relook", "conflict"}
                                         /\ obs'.pc = "complete"
                                      \/ obs.pc = "publish" /\ obs'.pc = "relook"
         \/ /\ obs.pc = "publish" /\ obs'.pc = "head"
            /\ obs'.tries = obs.tries + 1 /\ obs.tries + 1 < CasAttempts
  PROVE  Placed' /\ FenceLeft(obs', proc') < FenceLeft(obs, proc)
  <1>1. obs'.pc \in ObserverPc /\ obs'.tries \in 0..CasAttempts - 1
    BY DEF Placed, Free, ObserverPc
  <1>2. Placed' /\ proc'.pc = "idle"
    BY <1>1 DEF Placed, NoProcess, ProcessPc
  <1>3. FenceLeft(obs, proc) = ObserverLeft(obs) + 1
    <2>1. ProcessLeft(proc) = 1
      BY ProcessTable DEF Placed
    <2> QED
      BY <2>1 DEF FenceLeft
  <1>4. FenceLeft(obs', proc') = ObserverLeft(obs') + IF AsksThePrincipal(obs') THEN 12 ELSE 0
    BY <1>2 DEF FenceLeft
  <1>5. /\ ObserverLeft(obs) \in Nat /\ ObserverLeft(obs') \in Nat
        /\ RoundsLeft(obs) \in Nat /\ RoundsLeft(obs) >= 1
    BY <1>1, ObserverTable DEF Placed
  <1>6. CASE obs' = Free
    <2>1. ObserverLeft(obs') = 0 /\ ~ AsksThePrincipal(obs')
      BY <1>1, <1>6, ObserverTable DEF Free
    <2> QED
      BY <1>2, <1>3, <1>4, <1>5, <2>1
  <1>7. CASE obs'.tries = obs.tries /\ obs.pc = "look" /\ obs'.pc = "scope"
    <2>1. RoundsLeft(obs') = RoundsLeft(obs)
      BY <1>7 DEF RoundsLeft
    <2>2. ObserverLeft(obs') = ObserverLeft(obs) /\ ~ AsksThePrincipal(obs')
      BY <1>1, <1>7, <2>1, ObserverTable DEF Placed
    <2> QED
      BY <1>2, <1>3, <1>4, <1>5, <2>2
  <1>8. CASE obs.pc = "reconcile" /\ obs'.pc = "report"
    <2>1. ObserverLeft(obs') = 2 /\ ObserverLeft(obs) = 2 /\ ~ AsksThePrincipal(obs')
      BY <1>1, <1>8, ObserverTable DEF Placed
    <2> QED
      BY <1>2, <1>3, <1>4, <2>1
  <1>9. CASE obs.pc \in {"look", "relook", "conflict"} /\ obs'.pc = "complete"
    <2>1. ObserverLeft(obs') = 1 /\ ObserverLeft(obs) >= 1 /\ ~ AsksThePrincipal(obs')
      BY <1>1, <1>9, ObserverTable DEF Placed
    <2> QED
      BY <1>2, <1>3, <1>4, <1>5, <2>1
  <1>10. CASE obs.pc = "publish" /\ obs'.pc = "relook"
    <2>1. ObserverLeft(obs') = 1 /\ ObserverLeft(obs) = 13 * RoundsLeft(obs) /\ AsksThePrincipal(obs')
      BY <1>1, <1>10, ObserverTable DEF Placed
    <2> QED
      BY <1>2, <1>3, <1>4, <1>5, <2>1
  <1>11. CASE /\ obs.pc = "publish" /\ obs'.pc = "head" /\ obs'.tries = obs.tries + 1
    <2>1. RoundsLeft(obs') = RoundsLeft(obs) - 1
      BY <1>11 DEF RoundsLeft, Placed
    <2>2. /\ ObserverLeft(obs') = 13 * RoundsLeft(obs') + 13
          /\ ObserverLeft(obs) = 13 * RoundsLeft(obs) /\ ~ AsksThePrincipal(obs')
      BY <1>1, <1>11, ObserverTable DEF Placed
    <2>3. ObserverLeft(obs') = ObserverLeft(obs)
      BY <1>5, <2>1, <2>2
    <2> QED
      BY <1>2, <1>3, <1>4, <1>5, <2>2, <2>3
  <1> QED
    BY <1>6, <1>7, <1>8, <1>9, <1>10, <1>11

\* An observer that moves on keeps the shape of its record.
LEMMA ObserveMoves ==
  ASSUME Placed, NEW pc, Observe(pc)
  PROVE  /\ obs'.pc = pc /\ obs'.tries = obs.tries
         /\ obs' = [pc |-> obs'.pc, tries |-> obs'.tries, want |-> obs'.want, got |-> obs'.got]
  BY DEF Placed, Observe

\* A freed observation has the shape of any other.
LEMMA FreeIsShaped ==
  Free = [pc |-> Free.pc, tries |-> Free.tries, want |-> Free.want, got |-> Free.got]
  BY DEF Free

\* Every step of an observer is one less to go, and so is its death, and the end
\* of a process nobody listens to.
LEMMA ObserverShortens ==
  ASSUME Placed, ObserverStep \/ ObserverDies \/ Unheard
  PROVE  Placed' /\ FenceLeft(obs', proc') < FenceLeft(obs, proc)
  <1> USE FreeIsShaped
  <1>1. CASE Calls
    <2>1. PICK op \in {"lookup", "publish", "conflict"}, h \in {0, obs.want} : Calling(op, h)
      BY <1>1 DEF Calls
    <2>2. proc' = [pc |-> "load", op |-> op, want |-> h, back |-> "resume"]
      BY <2>1 DEF Calling
    <2>3. proc.pc = "idle" /\ UNCHANGED obs /\ AsksThePrincipal(obs)
      BY <1>1 DEF Calls, At, AsksThePrincipal
    <2>4. Placed'
      BY <2>2, <2>3 DEF Placed, ProcessPc
    <2>5. ProcessLeft(proc') = 11 /\ ObserverLeft(obs) \in Nat
      BY <2>2, <2>4, ProcessTable, ObserverTable DEF Placed
    <2>6. FenceLeft(obs, proc) = ObserverLeft(obs) + 12
      BY <2>3 DEF FenceLeft
    <2>7. FenceLeft(obs', proc') = ObserverLeft(obs) + 11
      BY <2>2, <2>3, <2>5 DEF FenceLeft
    <2> QED
      BY <2>4, <2>5, <2>6, <2>7
  <1>2. CASE Authorizes
    BY <1>2, ObserverGoesOn, ObserveMoves DEF Authorizes, Release
  <1>3. CASE Plans
    <2>1. CASE Release
      BY <1>3, <2>1, ObserverGoesOn DEF Plans, Release
    <2>2. CASE obs' = [obs EXCEPT !.want = head,
                                  !.pc = IF Overlaps(head) THEN "conflict" ELSE "publish"]
      <3>1. /\ obs'.pc \in {"conflict", "publish"} /\ obs'.tries = obs.tries
            /\ obs' = [pc |-> obs'.pc, tries |-> obs'.tries, want |-> obs'.want, got |-> obs'.got]
        BY <2>2 DEF Placed
      <3> QED
        BY <1>3, <3>1, ObserverGoesOn DEF Plans
    <2> QED
      BY <1>3, <2>1, <2>2 DEF Plans
  <1>4. CASE TakesLookup
    <2>1. proc.pc = "reply" /\ proc' = NoProcess
      BY <1>4 DEF TakesLookup, At, Hear
    <2>2. CASE obs.pc = "look" /\ Observe("scope")
      BY <2>1, <2>2, ObserverTakes, ObserveMoves
    <2>3. CASE Got(IF obs.pc = "reconcile" THEN "report" ELSE "complete")
      <3>1. CASE Release
        BY <2>1, <3>1, ObserverTakes DEF Release
      <3>2. CASE obs' = [obs EXCEPT !.pc = IF obs.pc = "reconcile" THEN "report" ELSE "complete",
                                    !.got = reply.receipt]
        <4>1. /\ obs'.pc = IF obs.pc = "reconcile" THEN "report" ELSE "complete"
              /\ obs'.tries = obs.tries
              /\ obs' = [pc |-> obs'.pc, tries |-> obs'.tries, want |-> obs'.want, got |-> obs'.got]
          BY <3>2 DEF Placed
        <4>2. obs.pc \in {"look", "relook", "reconcile"}
          BY <1>4 DEF TakesLookup, Lookups
        <4> QED
          BY <2>1, <4>1, <4>2, ObserverTakes
      <3> QED
        BY <2>3, <3>1, <3>2 DEF Got
    <2> QED
      BY <1>4, <2>2, <2>3 DEF TakesLookup
  <1>5. CASE TakesPublish
    <2>1. proc.pc = "reply" /\ proc' = NoProcess /\ obs.pc = "publish"
      BY <1>5 DEF TakesPublish, At, Hear
    <2>2. CASE Release
      BY <2>1, <2>2, ObserverTakes DEF Release
    <2>3. CASE Observe("relook")
      BY <2>1, <2>3, ObserverTakes, ObserveMoves
    <2>4. CASE MayRetry /\ obs' = [obs EXCEPT !.tries = @ + 1, !.pc = "head"]
      <3>1. /\ obs'.pc = "head" /\ obs'.tries = obs.tries + 1
            /\ obs' = [pc |-> obs'.pc, tries |-> obs'.tries, want |-> obs'.want, got |-> obs'.got]
        BY <2>4 DEF Placed
      <3> QED
        BY <2>1, <2>4, <3>1, ObserverTakes DEF MayRetry
    <2> QED
      BY <1>5, <2>2, <2>3, <2>4 DEF TakesPublish
  <1>6. CASE TakesConflict
    <2>1. proc.pc = "reply" /\ proc' = NoProcess /\ obs.pc = "conflict"
      BY <1>6 DEF TakesConflict, At, Hear
    <2>2. CASE Release
      BY <2>1, <2>2, ObserverTakes DEF Release
    <2>3. CASE obs' = [obs EXCEPT !.pc = "complete", !.got = reply.receipt]
      <3>1. /\ obs'.pc = "complete" /\ obs'.tries = obs.tries
            /\ obs' = [pc |-> obs'.pc, tries |-> obs'.tries, want |-> obs'.want, got |-> obs'.got]
        BY <2>3 DEF Placed
      <3> QED
        BY <2>1, <3>1, ObserverTakes
    <2> QED
      BY <1>6, <2>2, <2>3 DEF TakesConflict, Got
  <1>7. CASE Completes \/ SavesReport \/ ObserverDies
    BY <1>7, ObserverGoesOn DEF Completes, SavesReport, ObserverDies, Release
  <1>8. CASE Reports
    BY <1>8, ObserverGoesOn, ObserveMoves DEF Reports
  <1>9. CASE Unheard
    <2>1. proc.pc = "reply" /\ proc' = NoProcess /\ obs.pc = "free" /\ UNCHANGED obs
      BY <1>9 DEF Unheard, At, Hear
    <2>2. Placed' /\ proc'.pc = "idle"
      BY <2>1 DEF Placed, NoProcess, ProcessPc
    <2>3. ProcessLeft(proc) = 1 /\ ObserverLeft(obs) = 0 /\ ~ AsksThePrincipal(obs)
      BY <2>1, ProcessTable, ObserverTable DEF Placed
    <2>4. FenceLeft(obs, proc) = 1 /\ FenceLeft(obs', proc') = 0
      BY <2>1, <2>2, <2>3 DEF FenceLeft
    <2> QED
      BY <2>2, <2>4
  <1> QED
    BY <1>1, <1>2, <1>3, <1>4, <1>5, <1>6, <1>7, <1>8, <1>9 DEF ObserverStep

\* The fence is taken by a process or an observation at its beginning.
LEMMA FenceIsTaken ==
  ASSUME Placed, Trigger \/ Reconcile \/ DirectCall
  PROVE  Placed' /\ ~ Fenced
  <1>1. CASE Trigger
    BY <1>1, ObserveMoves DEF Trigger, Placed, ObserverPc
  <1>2. CASE Reconcile
    <2>1. /\ obs'.pc \in {"reconcile", "report"} /\ obs'.tries = obs.tries
          /\ obs' = [pc |-> obs'.pc, tries |-> obs'.tries, want |-> obs'.want, got |-> obs'.got]
      <3>1. CASE Observe("reconcile")
        BY <3>1, ObserveMoves
      <3>2. CASE obs' = [obs EXCEPT !.pc = "report", !.got = action.receipt]
        BY <3>2 DEF Placed
      <3> QED
        BY <1>2, <3>1, <3>2 DEF Reconcile
    <2> QED
      BY <1>2, <2>1 DEF Reconcile, Placed, ObserverPc
  <1>3. CASE DirectCall
    <2>1. PICK op \in {"lookup", "publish", "conflict"}, h \in 0..head : Calling(op, h)
      BY <1>3 DEF DirectCall
    <2>2. proc' = [pc |-> "load", op |-> op, want |-> h, back |-> "resume"]
      BY <2>1 DEF Calling
    <2> QED
      BY <1>3, <2>2 DEF DirectCall, Placed, ProcessPc
  <1> QED
    BY <1>1, <1>2, <1>3

\* Whatever GitHub does with an update and whoever is killed, the fence is held for
\* at most 13 * (_CAS_ATTEMPTS + 2) steps of the processes behind it, and each of
\* their steps is one of these: that the fence is freed rests on nothing else than
\* that they go on, or end.
THEOREM FenceHoldersEnd == Spec => FenceShortens
  <1>1. Init => Placed
    BY DEF Init, Placed, NoProcess, Free, ProcessPc, ObserverPc
  <1>2. ASSUME Placed, Push \/ \E k \in flying : LateLand(k) PROVE Placed'
    BY <1>2 DEF Push, LateLand, Placed
  <1>3. Placed /\ [Next]_vars => Placed'
    <2> SUFFICES ASSUME Placed, [Next]_vars PROVE Placed'
      OBVIOUS
    <2>1. CASE UNCHANGED vars
      BY <2>1 DEF vars, Placed
    <2>2. CASE Next
      BY <2>2, <1>2, PrincipalShortens, ObserverShortens, FenceIsTaken DEF Next
    <2> QED
      BY <2>1, <2>2
  <1>4. ASSUME Placed, Next, Fenced
        PROVE  /\ FenceLeft(obs, proc) \in 1..13 * (CasAttempts + 2)
               /\ \/ Push \/ \E k \in flying : LateLand(k)
                  \/ FenceLeft(obs', proc') < FenceLeft(obs, proc)
    <2>1. /\ FenceLeft(obs, proc) \in 0..13 * (CasAttempts + 2)
          /\ FenceLeft(obs, proc) >= 1
      BY <1>4, LeftIsCounted DEF Placed, Fenced, At
    <2>2. FenceLeft(obs, proc) \in 1..13 * (CasAttempts + 2)
      BY <2>1
    <2>3. \/ Push \/ \E k \in flying : LateLand(k)
          \/ FenceLeft(obs', proc') < FenceLeft(obs, proc)
      BY <1>4, PrincipalShortens, ObserverShortens, FenceIsTaken DEF Next
    <2> QED
      BY <2>2, <2>3
  <1> QED
    BY <1>1, <1>3, <1>4, PTL DEF Spec, FenceShortens
=============================================================================
