-------------------------- MODULE IncidentRecovery --------------------------
(***************************************************************************)
(* The recovery of one landed incident attempt: the observer persists an     *)
(* immutable action and calls the recovery principal, one short process per  *)
(* call; the principal publishes the inverse as one commit that fast-forwards*)
(* master, or records a conflict for the incident's owner.  The durable      *)
(* state is the principal's publication record, the protected journal and    *)
(* the observer's action; everything else dies with its process.             *)
(*                                                                           *)
(* GitHub is external: a ref update may be handled without its answer        *)
(* arriving, or long after the process that sent it is gone, and others push *)
(* to master at any time.  Master is never rewound, so a head is named by    *)
(* its distance from the incident's own merge, and a publish request, which  *)
(* the head determines, by the head it expects.                              *)
(***************************************************************************)
EXTENDS Integers, Sequences

CONSTANTS
    CasAttempts,   \* `_CAS_ATTEMPTS`
    Straddle,      \* whether an update may land between the two reads of `settle`
    MaxAttempts,   \* bound: publication attempts the record may hold
    MaxHead,       \* bound: commits others and the principal add to master
    MaxKills       \* bound: processes killed by a time-out or a crash

ASSUME RecoveryAssumption ==
    /\ CasAttempts \in Nat \ {0}
    /\ Straddle \in BOOLEAN
    /\ MaxAttempts \in Nat
    /\ MaxHead \in Nat
    /\ MaxKills \in Nat

VARIABLES
    head, overlapFrom, landed, flying,            \* GitHub
    attempts, receipt, context, conflict,         \* the principal's durable state
    action, told,                                 \* the observer's, and the tenant's
    proc, reply, obs, kills                       \* processes

forge == <<head, overlapFrom, landed, flying>>
journal == <<context, conflict>>
ledger == <<attempts, receipt>>
vars == <<head, overlapFrom, landed, flying, attempts, receipt, context, conflict,
          action, told, proc, reply, obs, kills>>

\* A publication receipt is the number of the attempt whose commit it names.
NoReceipt == 0
ConflictReceipt == -1

Last == Len(attempts)
IsOpen(a) == a.status \in {"reserved", "prepared"}
OpenAttempt == attempts # <<>> /\ IsOpen(attempts[Last])
Overlaps(h) == overlapFrom # 0 /\ overlapFrom <= h

\* `JournalStore.perform` for a lookup of an action the observer retains.
JournalStatus ==
    IF conflict # 0
    THEN IF action.status = "completed" /\ action.receipt # ConflictReceipt
         THEN "unavailable" ELSE "recorded"
    ELSE IF action.status = "pending" THEN "absent" ELSE "unavailable"
JournalReceipt == IF JournalStatus = "recorded" THEN ConflictReceipt ELSE NoReceipt

NoProcess == [pc |-> "idle", op |-> "lookup", want |-> 0, back |-> "resume"]
NoReply == [status |-> "lost", receipt |-> NoReceipt]
Free == [pc |-> "free", tries |-> 0, want |-> 0, got |-> NoReceipt]

Init ==
    /\ head = 0 /\ overlapFrom = 0 /\ landed = {} /\ flying = {}
    /\ attempts = <<>> /\ receipt = NoReceipt
    /\ context = 0 /\ conflict = 0
    /\ action = [status |-> "none", receipt |-> NoReceipt, reconciled |-> FALSE]
    /\ told = {}
    /\ proc = NoProcess /\ reply = NoReply
    /\ obs = Free
    /\ kills = 0

-----------------------------------------------------------------------------
(* The principal: one process per call, under the caller's repository fence. *)

Goto(pc) == proc' = [proc EXCEPT !.pc = pc]
At(pc) == proc.pc = pc

Answer(status, what) ==
    /\ Goto("reply")
    /\ reply' = [status |-> status, receipt |-> what]

Calling(op, h) ==
    proc' = [pc |-> "load", op |-> op, want |-> h, back |-> "resume"]

\* `PublicationLedger.save` of the open attempt in another state.
Settle(status) == attempts' = [attempts EXCEPT ![Last].status = status]

\* `Publication.committed`
Commit == receipt' = Last

\* `lookup` and `publish` until the record is settled: an effect in the journal
\* answers a lookup at once, and an attempt without a commit never moved master.
Load ==
    /\ At("load") /\ proc.op # "conflict"
    /\ IF proc.op = "lookup" /\ JournalStatus = "recorded"
       THEN Answer("recorded", JournalReceipt) /\ UNCHANGED attempts
       ELSE /\ UNCHANGED reply
            /\ IF receipt = NoReceipt /\ OpenAttempt
               THEN IF attempts[Last].status = "reserved"
                    THEN Goto("resume") /\ Settle("abandoned")
                    ELSE Goto("look") /\ UNCHANGED attempts
               ELSE Goto("resume") /\ UNCHANGED attempts
    /\ UNCHANGED <<forge, receipt, journal, action, told, obs, kills>>

\* `settle`, first read: is the recorded commit on master?  Unless the forge
\* says, or the App cannot connect, the attempt stays as it was.
LooksForCommit ==
    /\ At("look")
    /\ \/ Last \in landed /\ Commit /\ Goto(proc.back)
       \/ Last \notin landed /\ Goto("compare") /\ UNCHANGED receipt
       \/ Goto(proc.back) /\ UNCHANGED receipt
    /\ UNCHANGED <<forge, attempts, journal, action, told, reply, obs, kills>>

\* Mutant of ComparesHead: whatever is not on master yet counts as refused.
ComparesNothing ==
    /\ At("compare")
    /\ Settle("head-moved")
    /\ Goto(proc.back)
    /\ UNCHANGED <<forge, receipt, journal, action, told, reply, obs, kills>>

\* `settle`, second read: a head that moved proves the update was refused.
ComparesHead ==
    /\ At("compare")
    /\ \/ head # attempts[Last].base /\ Settle("head-moved")
       \/ UNCHANGED attempts
    /\ Goto(proc.back)
    /\ UNCHANGED <<forge, receipt, journal, action, told, reply, obs, kills>>

\* What `lookup` answers from the settled record.
AnswersLookup ==
    /\ At("resume") /\ proc.op = "lookup"
    /\ IF receipt # NoReceipt THEN Answer("recorded", receipt)
       ELSE IF OpenAttempt THEN Answer("reserved", NoReceipt)
       ELSE Answer(JournalStatus, JournalReceipt)
    /\ UNCHANGED <<forge, ledger, journal, action, told, obs, kills>>

\* `Publisher.resume`
Resume ==
    /\ At("resume") /\ proc.op = "publish"
    /\ IF receipt # NoReceipt THEN Answer("committed", receipt)
       ELSE IF OpenAttempt /\ attempts[Last].base # proc.want THEN Answer("refused", NoReceipt)
       ELSE IF OpenAttempt THEN Goto("sent") /\ UNCHANGED reply
       ELSE IF JournalStatus # "absent" THEN Answer("refused", NoReceipt)
       ELSE Goto("begin") /\ UNCHANGED reply
    /\ UNCHANGED <<forge, ledger, journal, action, told, obs, kills>>

\* `Publisher._attempt`: a head that moved, or cannot be read, answers
\* head-moved with nothing done; the inverse must apply and be the one asked for.
BeginsAttempt ==
    /\ At("begin")
    /\ \/ Answer("head-moved", NoReceipt) /\ UNCHANGED attempts
       \/ Answer("refused", NoReceipt) /\ UNCHANGED attempts
       \/ /\ head = proc.want /\ ~Overlaps(proc.want) /\ Last < MaxAttempts
          /\ attempts' = Append(attempts, [base |-> proc.want, status |-> "reserved"])
          /\ Goto("prepare") /\ UNCHANGED reply
    /\ UNCHANGED <<forge, receipt, journal, action, told, obs, kills>>

\* Mutant of Prepares: master is asked to move before the commit is saved.
PreparesUnsaved ==
    /\ At("prepare")
    /\ \/ Goto("sent") /\ UNCHANGED <<attempts, reply>>
       \/ Settle("abandoned") /\ Answer("refused", NoReceipt)
    /\ UNCHANGED <<forge, receipt, journal, action, told, obs, kills>>

\* The commit exists as an object and is recorded, or the attempt is abandoned.
Prepares ==
    /\ At("prepare")
    /\ \/ Settle("prepared") /\ Goto("sent") /\ UNCHANGED reply
       \/ Settle("abandoned") /\ Answer("refused", NoReceipt)
    /\ UNCHANGED <<forge, receipt, journal, action, told, obs, kills>>

\* A ref update that is not forced moves master only from the commit's parent;
\* one that finds the commit there already succeeds with nothing to do.
FastForwards(k) == head = attempts[k].base
AlreadyThere(k) == k \in landed /\ head = attempts[k].base + 1
Land(k) ==
    IF FastForwards(k)
    THEN head < MaxHead /\ head' = head + 1 /\ landed' = landed \cup {k}
    ELSE UNCHANGED <<head, landed>>

\* Mutant of Answered: a rejected update is settled and sent again.
AnsweredAnew ==
    /\ At("sent")
    /\ Land(Last)
    /\ IF FastForwards(Last) \/ AlreadyThere(Last) THEN Goto("moved") ELSE Goto("look")
    /\ UNCHANGED <<overlapFrom, flying, ledger, journal, action, told, reply, obs, kills>>

\* The forge answers: moved, or rejected, which is settled from forge facts.
Answered ==
    /\ At("sent")
    /\ Land(Last)
    /\ IF FastForwards(Last) \/ AlreadyThere(Last)
       THEN Goto("moved")
       ELSE proc' = [proc EXCEPT !.pc = "look", !.back = "answer"]
    /\ UNCHANGED <<overlapFrom, flying, ledger, journal, action, told, reply, obs, kills>>

\* The forge handles the update and its answer is lost, or nothing is heard of
\* it within the time-out of the transport and it may still be handled.
AnswerLost ==
    /\ At("sent")
    /\ Land(Last)
    /\ Answer("unknown", NoReceipt)
    /\ UNCHANGED <<overlapFrom, flying, ledger, journal, action, told, obs, kills>>

\* Mutant of Unanswered: the transport has no time-out.
WaitsForEver == At("sent") /\ UNCHANGED vars

Unanswered ==
    /\ At("sent")
    /\ flying' = flying \cup {Last}
    /\ Answer("unknown", NoReceipt)
    /\ UNCHANGED <<head, overlapFrom, landed, ledger, journal, action, told, obs, kills>>

SavesReceipt ==
    /\ At("moved")
    /\ Commit
    /\ Answer("committed", Last)
    /\ UNCHANGED <<forge, attempts, journal, action, told, obs, kills>>

\* The end of `_advance` after a rejected update.
AnswersPublish ==
    /\ At("answer")
    /\ IF receipt # NoReceipt THEN Answer("committed", receipt)
       ELSE Answer(IF OpenAttempt THEN "unknown" ELSE "head-moved", NoReceipt)
    /\ UNCHANGED <<forge, ledger, journal, action, told, obs, kills>>

\* Mutant of ChecksConflict: only a recorded receipt counts as a publication.
ChecksReceipt ==
    /\ At("load") /\ proc.op = "conflict"
    /\ IF receipt = NoReceipt /\ Overlaps(proc.want)
       THEN /\ context' = IF context = 0 THEN proc.want ELSE context
            /\ Goto("record") /\ UNCHANGED reply
       ELSE Answer("refused", NoReceipt) /\ UNCHANGED context
    /\ UNCHANGED <<forge, ledger, conflict, action, told, obs, kills>>

\* `RecoveryPrincipal.conflict`: no publication may exist, the overlap must be
\* genuine, and the context of the first request is kept.
ChecksConflict ==
    /\ At("load") /\ proc.op = "conflict"
    /\ IF receipt = NoReceipt /\ ~OpenAttempt /\ Overlaps(proc.want)
       THEN /\ context' = IF context = 0 THEN proc.want ELSE context
            /\ Goto("record") /\ UNCHANGED reply
       ELSE Answer("refused", NoReceipt) /\ UNCHANGED context
    /\ UNCHANGED <<forge, ledger, conflict, action, told, obs, kills>>

\* `RecoveryJournal.record_conflict`
RecordsConflict ==
    /\ At("record")
    /\ IF conflict # 0
       THEN /\ UNCHANGED conflict
            /\ IF conflict = proc.want /\ JournalStatus = "recorded"
               THEN Answer("recorded", ConflictReceipt) ELSE Answer("refused", NoReceipt)
       ELSE IF action.status = "pending" /\ context = proc.want
            THEN conflict' = proc.want /\ Answer("recorded", ConflictReceipt)
            ELSE Answer("refused", NoReceipt) /\ UNCHANGED conflict
    /\ UNCHANGED <<forge, ledger, context, action, told, obs, kills>>

\* An exception in the handler (a fetch, a file, the App's credential) is a refusal.
Raises ==
    /\ proc.pc \in {"load", "compare", "begin", "prepare", "record"}
    /\ Answer("refused", NoReceipt)
    /\ UNCHANGED <<forge, ledger, journal, action, told, obs, kills>>

PrincipalStep ==
    \/ Load \/ LooksForCommit \/ ComparesHead \/ AnswersLookup \/ Resume
    \/ BeginsAttempt \/ Prepares \/ Unanswered \/ SavesReceipt \/ AnswersPublish
    \/ ChecksConflict \/ RecordsConflict \/ Raises

\* `_call` kills a principal that takes longer than its time-out; so does a crash.
Die ==
    /\ proc.pc \notin {"idle", "reply"} /\ kills < MaxKills
    /\ kills' = kills + 1
    /\ Answer("lost", NoReceipt)
    /\ flying' = IF At("sent") THEN flying \cup {Last} ELSE flying
    /\ UNCHANGED <<head, overlapFrom, landed, ledger, journal, action, told, obs>>

-----------------------------------------------------------------------------
(* The observer: one action per landed attempt, one call to `recover`.       *)

Fenced == obs.pc # "free" \/ ~At("idle")
Observe(pc) == obs' = [obs EXCEPT !.pc = pc]
Release == obs' = Free
Lookups == {"look", "relook", "reconcile"}

\* The first failing leaf, or a reopened chain: the action is durable before
\* anything else; an action that exists already is only reported.
Trigger ==
    /\ ~Fenced /\ action.status = "none"
    /\ action' = [action EXCEPT !.status = "pending"]
    /\ Observe("look")
    /\ UNCHANGED <<forge, ledger, journal, told, proc, reply, kills>>

\* `ProcessInverseForge._call`
Calls ==
    /\ At("idle")
    /\ \/ obs.pc \in Lookups /\ Calling("lookup", 0)
       \/ obs.pc \in {"publish", "conflict"} /\ Calling(obs.pc, obs.want)
    /\ UNCHANGED <<forge, ledger, journal, action, told, reply, obs, kills>>

\* `landed` and `authorize` may refuse; the latter does when an effect is recorded.
Authorizes ==
    /\ obs.pc = "scope"
    /\ Release \/ (JournalStatus = "absent" /\ Observe("head"))
    /\ UNCHANGED <<forge, ledger, journal, action, told, proc, reply, kills>>

\* One round of `_execute`: the inverse against the head read now.
Plans ==
    /\ obs.pc = "head"
    /\ \/ Release
       \/ obs' = [obs EXCEPT !.want = head,
                             !.pc = IF Overlaps(head) THEN "conflict" ELSE "publish"]
    /\ UNCHANGED <<forge, ledger, journal, action, told, proc, reply, kills>>

\* The caller has the reply, and the process has ended.
Hear == proc' = NoProcess /\ reply' = NoReply

Got(then) ==
    IF reply.status = "recorded"
    THEN obs' = [obs EXCEPT !.pc = then, !.got = reply.receipt]
    ELSE Release

\* A lost, refused or reserved lookup raises: the action stays pending.
TakesLookup ==
    /\ obs.pc \in Lookups /\ At("reply")
    /\ IF obs.pc = "look" /\ reply.status = "absent"
       THEN Observe("scope")
       ELSE Got(IF obs.pc = "reconcile" THEN "report" ELSE "complete")
    /\ Hear
    /\ UNCHANGED <<forge, ledger, journal, action, told, kills>>

\* Mutant of MayRetry: one round too many.
MayRetryOnceMore == obs.tries < CasAttempts

\* Only head-moved permits another round, `_CAS_ATTEMPTS` in all.
MayRetry == obs.tries + 1 < CasAttempts
TakesPublish ==
    /\ obs.pc = "publish" /\ At("reply")
    /\ IF reply.status = "head-moved"
       THEN IF MayRetry THEN obs' = [obs EXCEPT !.tries = @ + 1, !.pc = "head"] ELSE Release
       ELSE Observe("relook")
    /\ Hear
    /\ UNCHANGED <<forge, ledger, journal, action, told, kills>>

TakesConflict ==
    /\ obs.pc = "conflict" /\ At("reply")
    /\ Got("complete")
    /\ Hear
    /\ UNCHANGED <<forge, ledger, journal, action, told, kills>>

\* The receipt `recover` returned is saved with the action.
Completes ==
    /\ obs.pc = "complete"
    /\ action' = [action EXCEPT !.status = "completed", !.receipt = obs.got]
    /\ Release
    /\ UNCHANGED <<forge, ledger, journal, told, proc, reply, kills>>

\* `reconcile_action_receipt`: the retained receipt, or the one looked up, is
\* replayed to the tenant unless that was done, and then saved.
Reconcile ==
    /\ ~Fenced /\ action.status # "none"
    /\ IF action.receipt = NoReceipt THEN Observe("reconcile")
       ELSE obs' = [obs EXCEPT !.pc = "report", !.got = action.receipt]
    /\ UNCHANGED <<forge, ledger, journal, action, told, proc, reply, kills>>
Reports ==
    /\ obs.pc = "report"
    /\ \/ /\ ~action.reconciled
          /\ told' = told \cup {obs.got}
          /\ Observe("saveTold")
       \/ UNCHANGED told /\ Observe("save")
    /\ UNCHANGED <<forge, ledger, journal, action, proc, reply, kills>>
SavesReport ==
    /\ obs.pc \in {"save", "saveTold"}
    /\ action' = [status |-> "completed", receipt |-> obs.got,
                  reconciled |-> action.reconciled \/ obs.pc = "saveTold"]
    /\ Release
    /\ UNCHANGED <<forge, ledger, journal, told, proc, reply, kills>>

ObserverStep ==
    \/ Calls \/ Authorizes \/ Plans \/ TakesLookup \/ TakesPublish \/ TakesConflict
    \/ Completes \/ Reports \/ SavesReport

\* The observer dies; a principal it started keeps the fence until it ends.
ObserverDies ==
    /\ obs.pc # "free" /\ kills < MaxKills
    /\ kills' = kills + 1
    /\ Release
    /\ UNCHANGED <<forge, ledger, journal, action, told, proc, reply>>
Unheard ==
    /\ obs.pc = "free" /\ At("reply")
    /\ Hear
    /\ UNCHANGED <<forge, ledger, journal, action, told, obs, kills>>

\* The principal trusts no caller: any fenced request about the retained action.
DirectCall ==
    /\ ~Fenced /\ action.status # "none"
    /\ \E op \in {"lookup", "publish", "conflict"}, h \in 0..head : Calling(op, h)
    /\ UNCHANGED <<forge, ledger, journal, action, told, reply, obs, kills>>

-----------------------------------------------------------------------------
(* GitHub *)

Push ==
    /\ head < MaxHead
    /\ head' = head + 1
    /\ overlapFrom' \in {overlapFrom, IF overlapFrom = 0 THEN head + 1 ELSE overlapFrom}
    /\ UNCHANGED <<landed, flying, ledger, journal, action, told, proc, reply, obs, kills>>

\* An update nobody waits for any more is handled.
LateLand(k) ==
    /\ Straddle \/ ~At("compare")
    /\ flying' = flying \ {k}
    /\ Land(k)
    /\ UNCHANGED <<overlapFrom, ledger, journal, action, told, proc, reply, obs, kills>>

Next ==
    \/ PrincipalStep \/ Answered \/ AnswerLost \/ Die
    \/ ObserverStep \/ Trigger \/ Reconcile \/ ObserverDies \/ Unheard \/ DirectCall
    \/ Push \/ \E k \in flying : LateLand(k)

Spec ==
    /\ Init /\ [][Next]_vars
    /\ WF_vars(PrincipalStep) /\ WF_vars(ObserverStep) /\ WF_vars(Unheard)

-----------------------------------------------------------------------------
Status == {"reserved", "prepared", "head-moved", "abandoned"}
Attempt == [base : 0..MaxHead, status : Status]
Receipt == {NoReceipt, ConflictReceipt} \cup 1..MaxAttempts
Action == [status : {"none", "pending", "completed"}, receipt : Receipt, reconciled : BOOLEAN]
ProcessPc == {"idle", "load", "look", "compare", "resume", "begin", "prepare", "sent",
              "moved", "answer", "record", "reply"}
Process == [pc : ProcessPc, op : {"lookup", "publish", "conflict"}, want : 0..MaxHead,
            back : {"resume", "answer"}]
ReplyStatus == {"lost", "refused", "recorded", "absent", "unavailable", "reserved",
                "committed", "head-moved", "unknown"}
Reply == [status : ReplyStatus, receipt : Receipt]
ObserverPc == {"free", "look", "scope", "head", "publish", "relook", "conflict",
               "complete", "reconcile", "report", "save", "saveTold"}
Observer == [pc : ObserverPc, tries : 0..CasAttempts - 1, want : 0..MaxHead, got : Receipt]

StoreOK ==
    /\ head \in 0..MaxHead /\ overlapFrom \in 0..MaxHead
    /\ attempts \in Seq(Attempt) /\ Last <= MaxAttempts
    /\ landed \subseteq 1..Last /\ flying \subseteq 1..Last
    /\ receipt \in {NoReceipt} \cup 1..Last
    /\ context \in 0..MaxHead /\ conflict \in 0..MaxHead

\* Every variable is of its type; no publication round goes past `_CAS_ATTEMPTS`.
TypeOK ==
    /\ StoreOK
    /\ action \in Action /\ told \subseteq Receipt
    /\ proc \in Process /\ reply \in Reply /\ obs \in Observer
    /\ kills \in 0..MaxKills

\* The principal answers `absent` only when no effect is possible: none happened,
\* and no update under way can still move master (incident_recovery_principal.py:23).
AbsentMeansNoEffect ==
    At("reply") /\ reply.status = "absent" =>
        /\ landed = {} /\ conflict = 0
        /\ \A k \in flying : ~FastForwards(k)

\* After any time-out or restart the one commit that landed, or still can, is
\* known by its SHA: it is the receipt's, or that of the open prepared attempt
\* (_incident_recovery_publication.py:11-15).
NothingLandsUnknown ==
    \A k \in landed \cup {j \in flying : FastForwards(j)} :
        \/ receipt = k
        \/ k = Last /\ attempts[k].status = "prepared"

Happened == landed \cup (IF conflict = 0 THEN {} ELSE {ConflictReceipt})

\* One outcome per action, a revert or a conflict, and what is noted and told is it.
Promise ==
    INSTANCE RecoveryPromise WITH
        Outcome <- {ConflictReceipt} \cup 1..MaxAttempts,
        Nothing <- NoReceipt,
        happened <- Happened,
        noted <- action.receipt
OutcomePromised == Promise!Spec

\* The repository fence, which every other mutation of the observer's record
\* waits for, is released in the end, whatever GitHub answers or does not.
FenceIsFreed == []<>(~Fenced)

\* Why: whoever holds the fence has a bounded number of steps to go, and each step
\* of its processes, a lost answer and a kill included, is one of them.  A process
\* settles the record at most twice, before and after it asks master to move; an
\* observation makes at most three calls besides its rounds of publication.
ProcessLeft(p) ==
    CASE p.pc = "idle" -> 0
      [] p.pc = "reply" -> 1
      [] p.pc \in {"moved", "answer", "record"} -> 2
      [] p.pc = "compare" -> IF p.back = "answer" THEN 3 ELSE 9
      [] p.pc = "look" -> IF p.back = "answer" THEN 4 ELSE 10
      [] p.pc = "sent" -> 5
      [] p.pc = "prepare" -> 6
      [] p.pc = "begin" -> 7
      [] p.pc = "resume" -> 8
      [] p.pc = "load" -> 11
AsksThePrincipal(o) == o.pc \in Lookups \cup {"publish", "conflict"}
RoundsLeft(o) == CasAttempts - o.tries
ObserverLeft(o) ==
    CASE o.pc = "free" -> 0
      [] o.pc \in {"save", "saveTold", "complete", "relook", "conflict"} -> 1
      [] o.pc \in {"report", "reconcile"} -> 2
      [] o.pc = "publish" -> 13 * RoundsLeft(o)
      [] o.pc = "head" -> 13 * (RoundsLeft(o) + 1)
      [] o.pc \in {"scope", "look"} -> 13 * (RoundsLeft(o) + 1) + 1
FenceLeft(o, p) ==
    ObserverLeft(o)
      + IF p.pc # "idle" THEN ProcessLeft(p)
        ELSE IF AsksThePrincipal(o) THEN 12 ELSE 0
FenceShortens ==
    [][ Fenced =>
          /\ FenceLeft(obs, proc) \in 1 .. 13 * (CasAttempts + 2)
          /\ \/ Push \/ \E k \in flying : LateLand(k)
             \/ FenceLeft(obs', proc') < FenceLeft(obs, proc) ]_vars

-----------------------------------------------------------------------------
(* The inductive invariant, for updates that do not land between two reads.  *)

\* Only the last attempt can be open, no attempt expects a head yet to come, and
\* one that is `head-moved` expects a head that is gone.
OneIsOpen ==
    \A k \in 1..Last :
        /\ attempts[k].base <= head
        /\ k < Last => ~IsOpen(attempts[k])
        /\ attempts[k].status = "head-moved" => attempts[k].base < head

\* Only a prepared commit lands or is sent, and it stays the last one.
OnlyPreparedMoves ==
    /\ \A k \in landed : attempts[k].status = "prepared" /\ attempts[k].base < head
    /\ \A k \in flying : attempts[k].status \in {"prepared", "head-moved"}
    /\ receipt # NoReceipt => receipt = Last /\ receipt \in landed

\* A conflict excludes a publication.
ConflictExcludes == conflict # 0 => receipt = NoReceipt /\ ~OpenAttempt

\* What a principal knows from where it is.
Unsettled == OpenAttempt /\ receipt = NoReceipt
NoPublication == ~OpenAttempt /\ receipt = NoReceipt
PrincipalKnows ==
    /\ proc.pc \in {"look", "compare", "sent", "moved"} =>
           Unsettled /\ attempts[Last].status = "prepared"
    /\ At("resume") /\ OpenAttempt => attempts[Last].status = "prepared"
    /\ At("compare") => Last \notin landed
    /\ At("moved") => Last \in landed
    /\ At("prepare") => Unsettled /\ attempts[Last].status = "reserved"
    /\ proc.pc \in {"begin", "record"} => NoPublication
    /\ At("begin") => conflict = 0
    /\ At("record") => proc.want # 0

\* What a caller is told, and the observer keeps, is what happened.
RepliesAreTrue ==
    At("reply") =>
        /\ reply.status = "recorded" => reply.receipt \in Happened
        /\ reply.status = "absent" => NoPublication /\ conflict = 0
ObserverIsRight ==
    /\ obs.pc \in {"complete", "report", "save", "saveTold"} => obs.got \in Happened
    /\ action.receipt # NoReceipt => action.receipt \in Happened
    /\ told \subseteq Happened

IInv ==
    /\ TypeOK /\ OneIsOpen /\ OnlyPreparedMoves /\ ConflictExcludes
    /\ PrincipalKnows /\ RepliesAreTrue /\ ObserverIsRight
=============================================================================
