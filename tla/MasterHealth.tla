---------------------------- MODULE MasterHealth ----------------------------
(***************************************************************************)
(* The master-health reconciler: a workflow that, run after run, records   *)
(* what the forge says of one branch, decides at most one step from that   *)
(* record (livespec_dev_tooling/cross_repo/master_health_*.py) and         *)
(* performs it (reusable-master-health-reconcile.yml).  It keeps no state  *)
(* of its own between runs.                                                *)
(*                                                                         *)
(* Beside it run the forge and its people: commits are merged, CI answers  *)
(* late, out of order or not at all, people re-run jobs, close or claim    *)
(* the revert, and a run of the reconciler may die between any two steps.  *)
(*                                                                         *)
(* A commit changes one path and does one thing to the branch's health.    *)
(* Time is left out: a claim holds a revert until it stalls, and no claim  *)
(* holds it past the hard cap.  The branch is linear (rebase merges), so a *)
(* commit is its position and its parent the position below.               *)
(*                                                                         *)
(* Bounds: MaxCommits (length of the branch), MaxFlakes (failures of CI on *)
(* an innocent commit), MaxMeddling (jobs cancelled or re-run by hand, and *)
(* reverts closed or retried by hand).                                     *)
(***************************************************************************)
EXTENDS Integers, FiniteSets, FiniteSetsExt

CONSTANTS
    MaxCommits, MaxFlakes, MaxMeddling,
    Window,          \* commits one record reaches back
    Lookback,        \* unrelated_lookback_commits
    Path,            \* paths a commit may change
    Check,           \* names of gating checks: a failure signature is one
    OutageCheck,     \* the checks an outage of the runners fails
    Marked,          \* signatures that contain a configured outage marker
    Shape,           \* the commits people merge
    None,            \* "not recorded", "no such thing"
    TornRead         \* the forge may move between the reads of one record

Pos == 1 .. MaxCommits
Change == {"plain", "break", "repair", "revert"}
ShapeType ==
    [change : {"plain", "break", "repair"}, pull : BOOLEAN, release : BOOLEAN,
     path : Path \cup {None}]

ASSUME BoundAssumption ==
    {MaxCommits, Window} \subseteq Nat \ {0} /\ {MaxFlakes, MaxMeddling, Lookback} \subseteq Nat
ASSUME CheckAssumption == OutageCheck \subseteq Check /\ Marked \subseteq Check
ASSUME ShapeAssumption == Shape \subseteq ShapeType
ASSUME NoneAssumption == None \notin Path \cup Check

VARIABLES
    branch,    \* the branch: its tip, and the commit at each position
    revert,    \* the newest revert pull request
    issues,    \* episode keys of the needs-attention issues
    outage,    \* the runners are out
    run,       \* the reconcile run in progress: what it read, what it decided
    flakes,    \* failures on innocent commits so far
    meddled    \* acts of people so far

vars == <<branch, revert, issues, outage, run, flakes, meddled>>

Commit ==
    [ change : Change, pull : BOOLEAN, release : BOOLEAN, path : Path \cup {None},
      undoes : Pos \cup {0},        \* the commit a landed revert undoes
      live : SUBSET Pos,            \* breaking commits still in this tree
      ci : {"pending", "success", "failure", "cancelled"},
      check : Check \cup {None},    \* failure_signature
      rerun : BOOLEAN,              \* run_attempt > 1
      flaked : BOOLEAN ]            \* history: CI once failed it for nothing

NoCommit ==
    [ change |-> "plain", pull |-> FALSE, release |-> FALSE, path |-> None,
      undoes |-> 0, live |-> {}, ci |-> "pending", check |-> None,
      rerun |-> FALSE, flaked |-> FALSE ]

Branch == [tip : Pos, at : [Pos -> Commit]]

Revert ==
    [ open : BOOLEAN, of : Pos \cup {0}, ci : {"pending", "success", "failure"},
      armed : BOOLEAN, claim : {"none", "holds", "stalled", "capped"} ]
NoRevert == [open |-> FALSE, of |-> 0, ci |-> "pending", armed |-> FALSE, claim |-> "none"]

StepKind == {"none", "rerun-failed-jobs", "open-revert", "release-revert",
             "close-revert", "needs-attention"}
Run ==
    [ pc : {"idle", "recorded", "decided"},
      seen : Branch \cup {None},
      kind : StepKind,
      of : Pos \cup {0} ]       \* the run to repeat, the culprit, or the episode
Idle == [pc |-> "idle", seen |-> None, kind |-> "none", of |-> 0]

TypeOK ==
    /\ branch \in Branch
    /\ revert \in Revert
    /\ issues \in SUBSET Pos
    /\ outage \in BOOLEAN
    /\ run \in Run
    /\ flakes \in 0 .. MaxFlakes
    /\ meddled \in 0 .. MaxMeddling

\* The branch starts on one green commit.
Init ==
    /\ branch = [tip |-> 1, at |-> [[i \in Pos |-> NoCommit] EXCEPT ![1].ci = "success"]]
    /\ revert = NoRevert
    /\ issues = {}
    /\ outage = FALSE
    /\ run = Idle
    /\ flakes = 0
    /\ meddled = 0

(***************************************************************************)
(* What the reconciler makes of a recorded branch b (master_health_episode,*)
(* master_health_flake_history, master_health_verdict).                    *)
(***************************************************************************)

Visible(b) == {i \in Pos : b.tip - Window < i /\ i <= b.tip}
CI(b, i) == b.at[i].ci
Failed(b) == {i \in Visible(b) : CI(b, i) = "failure"}

\* Takes a commit that has not failed for a green one.
GreenUnlessFailed(b) == {i \in Visible(b) : CI(b, i) # "failure"}

\* The commits above the newest green one.
Green(b) == {i \in Visible(b) : CI(b, i) = "success"}
AboveGreen(b) == LET green == Green(b) IN {i \in Visible(b) : \A g \in green : g < i}

\* The episode opens on its first completed failure; what is undecided before
\* it is dropped, what is undecided after it stays.
RedBlock(b) ==
    LET above == AboveGreen(b)
        failed == above \cap Failed(b)
    IN  {i \in above : \E f \in failed : f <= i}
Opener(b) == Min(RedBlock(b))

\* Takes an undecided parent for a green one.
CulpritUnproven(b) == {i \in RedBlock(b) : i = Opener(b) /\ i - 1 \in Visible(b)}

\* culprit_commit: the opener, if its parent is recorded and green (no later
\* commit of the episode has a green parent).
Culprit(b) == {i \in RedBlock(b) : i - 1 \in Green(b)}

\* The signatures of the episode and of the commits below it.
Signatures(b, S) == {b.at[i].check : i \in S \cap Failed(b)}
Below(b) == {i \in Visible(b) : Opener(b) - Lookback <= i /\ i < Opener(b)}
\* Looks for a signature seen before, and for no marker of an outage.
InfraIfSeenBefore(b) ==
    Signatures(b, RedBlock(b)) \cap Signatures(b, Below(b)) # {}

IsInfra(b) ==
    \/ Signatures(b, RedBlock(b)) \cap Marked # {}
    \/ Signatures(b, RedBlock(b)) \cap Signatures(b, Below(b)) # {}

\* rerun_outcome, over the whole window.
Reran(b) == {i \in Visible(b) : b.at[i].rerun}
RerunOutcome(b) ==
    CASE Reran(b) = {} -> "not-attempted"
      [] Reran(b) \cap Failed(b) # {} -> "still-red"
      [] OTHER -> "passed"

RedVerdict(b) ==
    IF RedBlock(b) = {} THEN "green"
    ELSE IF IsInfra(b) THEN "infra"
    ELSE CASE RerunOutcome(b) = "passed" -> "flake"
           [] RerunOutcome(b) = "not-attempted" -> "unclassified"
           [] RerunOutcome(b) = "still-red" -> "regression"

(***************************************************************************)
(* The step table (master_health_reconcile), for a recorded branch b and   *)
(* the revert rv in flight.                                                *)
(***************************************************************************)

Do(kind, n) == [kind |-> kind, of |-> n]
NothingOwed == Do("none", 0)

\* Files the issue without an episode key; files it under the episode's key.
RaiseKeyless(b) == Do("needs-attention", 0)
Raise(b) == Do("needs-attention", Opener(b))

\* Checks that the culprit is no revert, and nothing else.
RevertRefusedForReverts(b, c) == b.at[c].change = "revert"

\* revert_refusal: no revert of a revert, and none over a later commit of the
\* episode that changed, or may have changed, the culprit's path.  The landed
\* revert of the culprit is such a commit; the headline marker that would name
\* it is not in the subjects the forge writes.
RevertRefused(b, c) ==
    \/ b.at[c].change = "revert"
    \/ \E i \in RedBlock(b) : i > c /\ None \in {b.at[i].path, b.at[c].path}
    \/ \E i \in RedBlock(b) : i > c /\ b.at[i].path = b.at[c].path

\* An undecided head above the newest green commit reads as green.
GreenBranchStep(rv) == IF rv.open THEN Do("close-revert", 0) ELSE NothingOwed

\* A claim holds whatever becomes of it.
RevertInFlightStepHeld(b, rv) ==
    IF rv.claim # "none" THEN NothingOwed
    ELSE IF rv.ci # "success" THEN Raise(b)
    ELSE IF rv.armed THEN NothingOwed
    ELSE Do("release-revert", 0)

RevertInFlightStep(b, rv) ==
    IF rv.claim = "holds" THEN NothingOwed
    ELSE IF rv.ci # "success" THEN Raise(b)
    ELSE IF rv.armed THEN NothingOwed
    ELSE Do("release-revert", 0)

RegressionStep(b) ==
    LET revertable ==
            {c \in Culprit(b) :
                b.at[c].pull /\ ~ b.at[c].release /\ ~ RevertRefused(b, c)}
    IN  IF revertable = {} THEN Raise(b)
        ELSE Do("open-revert", CHOOSE c \in revertable : TRUE)

\* A re-run repeats the newest failed run, whichever commit the episode opens on.
ReconcileStep(b, rv) ==
    LET verdict == RedVerdict(b)
    IN  IF verdict = "green" THEN GreenBranchStep(rv)
        ELSE IF verdict \in {"flake", "infra"} THEN Raise(b)
        ELSE IF rv.open THEN RevertInFlightStep(b, rv)
        ELSE IF verdict = "unclassified" THEN Do("rerun-failed-jobs", Max(Failed(b)))
        ELSE RegressionStep(b)

(***************************************************************************)
(* A reconcile run.  Runs of one branch queue: there is one at a time.     *)
(***************************************************************************)

\* The commit window and its CI are read first.
Record ==
    /\ run.pc = "idle"
    /\ run' = [Idle EXCEPT !.pc = "recorded", !.seen = branch]
    /\ UNCHANGED <<branch, revert, issues, outage, flakes, meddled>>

\* The revert pull request is read next, and the step decided.
Decide ==
    /\ run.pc = "recorded"
    /\ TornRead \/ run.seen = branch
    /\ \E step \in {ReconcileStep(run.seen, revert)} :
          run' = [pc |-> "decided", seen |-> None, kind |-> step.kind, of |-> step.of]
    /\ UNCHANGED <<branch, revert, issues, outage, flakes, meddled>>

Perform(kind) ==
    /\ run.pc = "decided" /\ run.kind = kind
    /\ run' = Idle
    /\ UNCHANGED <<outage, flakes, meddled>>

\* The run dies, at any point.
Die ==
    /\ run.pc # "idle"
    /\ run' = Idle
    /\ UNCHANGED <<branch, revert, issues, outage, flakes, meddled>>

DoNothing == Perform("none") /\ UNCHANGED <<branch, revert, issues>>

\* CI starts over on commit i.
Restart(i) ==
    branch' = [branch EXCEPT !.at[i].ci = "pending", !.at[i].check = None,
                             !.at[i].rerun = TRUE]

RerunFailedJobs ==
    /\ Perform("rerun-failed-jobs")
    /\ CI(branch, run.of) = "failure"
    /\ Restart(run.of)
    /\ UNCHANGED <<revert, issues>>

\* revertPullRequest, with auto-merge held.
OpenRevert ==
    /\ Perform("open-revert")
    /\ revert' = [NoRevert EXCEPT !.open = TRUE, !.of = run.of]
    /\ UNCHANGED <<branch, issues>>

ReleaseRevert ==
    /\ Perform("release-revert")
    /\ revert.open
    /\ revert' = [revert EXCEPT !.armed = TRUE]
    /\ UNCHANGED <<branch, issues>>

CloseRevert ==
    /\ Perform("close-revert")
    /\ revert.open
    /\ revert' = NoRevert
    /\ UNCHANGED <<branch, issues>>

\* One issue per key: an open one gets a comment instead.
RaiseAttention ==
    /\ Perform("needs-attention")
    /\ issues' = issues \cup {run.of}
    /\ UNCHANGED <<branch, revert>>

\* The forge moved on and refuses the step: the job fails.
Refused ==
    /\ \/ Perform("rerun-failed-jobs") /\ CI(branch, run.of) # "failure"
       \/ Perform("release-revert") /\ ~ revert.open
       \/ Perform("close-revert") /\ ~ revert.open
    /\ UNCHANGED <<branch, revert, issues>>

PerformStep ==
    \/ DoNothing \/ RerunFailedJobs \/ OpenRevert \/ ReleaseRevert
    \/ CloseRevert \/ RaiseAttention \/ Refused

(***************************************************************************)
(* The forge: merges and CI.                                               *)
(***************************************************************************)

Grow(c) ==
    branch' = [tip |-> branch.tip + 1, at |-> [branch.at EXCEPT ![branch.tip + 1] = c]]

Tree == branch.at[branch.tip].live

\* People merge a commit; the last position is left to a revert.
Merge(shape) ==
    LET n == branch.tip + 1
    IN  /\ n < MaxCommits
        /\ Grow([NoCommit EXCEPT
              !.change = shape.change, !.pull = shape.pull,
              !.release = shape.release, !.path = shape.path,
              !.live = CASE shape.change = "plain" -> Tree
                         [] shape.change = "break" -> Tree \cup {n}
                         [] shape.change = "repair" -> {}])
        /\ UNCHANGED <<revert, issues, outage, run, flakes, meddled>>

\* Auto-merge lands a released revert whose checks are green.  Rebased, its
\* commit carries no pull request number.
LandRevert ==
    /\ revert.open /\ revert.armed /\ revert.ci = "success"
    /\ branch.tip < MaxCommits
    /\ Grow([NoCommit EXCEPT
          !.change = "revert", !.undoes = revert.of,
          !.path = branch.at[revert.of].path, !.live = Tree \ {revert.of}])
    /\ revert' = NoRevert
    /\ UNCHANGED <<issues, outage, run, flakes, meddled>>

Conclude(i, ci, check) ==
    branch' = [branch EXCEPT !.at[i].ci = ci, !.at[i].check = check]

Pending(i) == i <= branch.tip /\ CI(branch, i) = "pending"
Broken(i) == branch.at[i].live # {}

Pass(i) ==
    /\ Pending(i) /\ ~ outage /\ ~ Broken(i)
    /\ Conclude(i, "success", None)
    /\ UNCHANGED flakes

\* The checks of a broken tree fail, every time.
Fail(i) ==
    /\ Pending(i) /\ ~ outage /\ Broken(i)
    /\ \E check \in Check \ OutageCheck : Conclude(i, "failure", check)
    /\ UNCHANGED flakes

\* No runner, no registry, no credentials.
FailInOutage(i) ==
    /\ Pending(i) /\ outage
    /\ \E check \in OutageCheck : Conclude(i, "failure", check)
    /\ UNCHANGED flakes

\* A check of a healthy tree fails for nothing.
Flake(i) ==
    /\ Pending(i) /\ ~ outage /\ ~ Broken(i)
    /\ flakes < MaxFlakes
    /\ \E check \in Check \ OutageCheck :
          branch' = [branch EXCEPT !.at[i].ci = "failure", !.at[i].check = check,
                                   !.at[i].flaked = TRUE]
    /\ flakes' = flakes + 1

FinishCI(i) ==
    /\ Pass(i) \/ Fail(i) \/ FailInOutage(i) \/ Flake(i)
    /\ UNCHANGED <<revert, issues, outage, run, meddled>>

\* The revert's own CI runs on the branch as it is, less the culprit.
FinishRevertCI ==
    /\ revert.open /\ revert.ci = "pending"
    /\ \E ci \in {"success", "failure"} :
          /\ ci = "success" => ~ outage /\ Tree \subseteq {revert.of}
          /\ revert' = [revert EXCEPT !.ci = ci]
    /\ UNCHANGED <<branch, issues, outage, run, flakes, meddled>>

SomeCI == FinishRevertCI \/ \E i \in Pos : FinishCI(i)

\* The runners go out and come back.
Outage ==
    /\ outage' = ~ outage
    /\ UNCHANGED <<branch, revert, issues, run, flakes, meddled>>

(***************************************************************************)
(* People.                                                                 *)
(***************************************************************************)

Meddle == meddled < MaxMeddling /\ meddled' = meddled + 1

\* A person, or a newer push to the branch, cancels a run of CI.
Cancel(i) ==
    /\ Meddle
    /\ Pending(i)
    /\ Conclude(i, "cancelled", None)
    /\ UNCHANGED <<revert, issues, outage, run, flakes>>

RerunByHand(i) ==
    /\ Meddle
    /\ CI(branch, i) \in {"failure", "cancelled"}
    /\ Restart(i)
    /\ UNCHANGED <<revert, issues, outage, run, flakes>>

OnRevert(guard, rv) ==
    /\ revert.open /\ guard
    /\ revert' = rv
    /\ UNCHANGED <<branch, issues, outage, run, flakes>>

CloseByHand == Meddle /\ OnRevert(TRUE, NoRevert)
RetryRevert == Meddle /\ OnRevert(revert.ci # "pending", [revert EXCEPT !.ci = "pending"])

\* hold_verdict: a claim holds, stalls or thrashes, and makes progress again;
\* past the hard cap none holds.
Claim ==
    /\ OnRevert(revert.claim \in {"none", "stalled"}, [revert EXCEPT !.claim = "holds"])
    /\ UNCHANGED meddled
Stall ==
    /\ OnRevert(revert.claim = "holds", [revert EXCEPT !.claim = "stalled"])
    /\ UNCHANGED meddled
PassHardCap ==
    /\ OnRevert(revert.claim \in {"holds", "stalled"}, [revert EXCEPT !.claim = "capped"])
    /\ UNCHANGED meddled

People ==
    \/ \E i \in Pos : Cancel(i) \/ RerunByHand(i)
    \/ CloseByHand \/ RetryRevert \/ Claim \/ Stall \/ PassHardCap

-----------------------------------------------------------------------------
Next ==
    \/ Record \/ Decide \/ PerformStep \/ Die
    \/ \E shape \in Shape : Merge(shape)
    \/ LandRevert
    \/ SomeCI \/ Outage
    \/ People

\* The workflow runs every five minutes, and not every run of it dies; CI
\* concludes, auto-merge acts and the clock reaches the hard cap.  Nobody owes a
\* merge, a re-run, a claim or the end of an outage.
Fairness ==
    /\ WF_vars(Record) /\ SF_vars(Decide) /\ SF_vars(PerformStep)
    /\ WF_vars(SomeCI) /\ WF_vars(LandRevert) /\ WF_vars(PassHardCap)

Spec == Init /\ [][Next]_vars /\ Fairness

-----------------------------------------------------------------------------
(***************************************************************************)
(* Properties.                                                             *)
(***************************************************************************)

SuspectIn(b, i) == b.at[i].change = "break" \/ b.at[i].flaked
Suspect(i) == SuspectIn(branch, i)

\* However late, disordered, repeated or cancelled CI is, and whatever moves
\* while a run decides: a revert the reconciler lands undoes a commit that broke
\* the branch, or one that CI itself failed for nothing (culprit_commit names
\* no bystander, and a marked outage reaches no revert).
OnlySuspectsReverted ==
    \A i \in Pos : branch.at[i].undoes # 0 => Suspect(branch.at[i].undoes)

\* "MUST revert a given culprit at most once per episode": no revert is open for
\* a commit that a landed revert has undone, although the branch is still red.
OneRevertPerCulprit ==
    \A i \in Pos : revert.open /\ branch.at[i].undoes # 0 => branch.at[i].undoes # revert.of

\* An innocent commit is reverted only at the price of a flake of its own: however
\* often CI is re-run and whatever was read when, k flakes cost the branch at most
\* k innocent commits, and without a flake it loses none.
Innocents ==
    {c \in Pos : branch.at[c].change # "break" /\ \E i \in Pos : branch.at[i].undoes = c}
InnocentsCostFlakes == Cardinality(Innocents) <= flakes

\* A red branch does not stay red with nobody told and no revert on its way,
\* however many runs of the reconciler die (a revert that has no position left
\* to land on is the bound's doing).
Red == RedBlock(branch) # {}
Told == Red /\ Opener(branch) \in issues
NoRoom == revert.armed /\ branch.tip = MaxCommits
RedIsAnswered == []<>(~ Red \/ Told \/ NoRoom)

(***************************************************************************)
(* Why they hold, for any branch, any window and any number of flakes and  *)
(* people: three inductive invariants.  The second needs every outage to   *)
(* be a marked one, the third that a record is of one moment.              *)
(***************************************************************************)

\* What a step is about exists.
TargetsExist ==
    /\ run.pc = "recorded" => run.seen \in Branch
    /\ run.pc = "decided" /\ run.kind \in {"needs-attention", "open-revert", "rerun-failed-jobs"}
          => run.of \in Pos
    /\ revert.open => revert.of \in Pos

TypeInv == TypeOK /\ TargetsExist

\* CI does not lie about a commit of b unless it marks that it did: green says
\* that no break is left in the tree, an unmarked red that one is, or a flake.
CITellsTheTruth(b) ==
    \A i \in 1 .. b.tip :
        /\ CI(b, i) = "success" => b.at[i].live = {}
        /\ CI(b, i) = "failure" /\ b.at[i].check \notin Marked
              => b.at[i].live # {} \/ b.at[i].flaked

\* A tree has the breaks of its parent, less those undone, and its own.
BreaksAreInherited(b) ==
    \A i \in 1 .. b.tip :
        /\ b.at[i].live \subseteq 1 .. i
        /\ i \in b.at[i].live => b.at[i].change = "break"
        /\ i > 1 => b.at[i].live \ {i} \subseteq b.at[i - 1].live

\* What a run read is a past of the branch: a suspect stays one.
SeenIsPast ==
    run.pc = "recorded" =>
        /\ CITellsTheTruth(run.seen) /\ BreaksAreInherited(run.seen)
        /\ run.seen.tip <= branch.tip
        /\ \A i \in 1 .. run.seen.tip : SuspectIn(run.seen, i) => Suspect(i)

Accused(i) == i \in 1 .. branch.tip /\ Suspect(i)
AccusedAreSuspect ==
    /\ run.pc = "decided" /\ run.kind = "open-revert" => Accused(run.of)
    /\ revert.open => Accused(revert.of)
    /\ \A i \in Pos : branch.at[i].undoes # 0 => Accused(branch.at[i].undoes)

IInv ==
    /\ TypeInv
    /\ CITellsTheTruth(branch) /\ BreaksAreInherited(branch)
    /\ SeenIsPast /\ AccusedAreSuspect

\* Why no culprit is reverted twice, for records of one moment: a landed revert
\* lies above its culprit, changes its path, and so overlaps it for the guard; and
\* nobody else opens a revert between the decision and the step.
UndoneBelow ==
    \A i \in Pos :
        LET c == branch.at[i].undoes
        IN  c # 0 => c \in 1 .. i - 1 /\ i <= branch.tip /\ branch.at[i].path = branch.at[c].path
NotUndone(c) == \A i \in Pos : branch.at[i].undoes # c
RevertsAreFresh ==
    /\ run.pc = "decided" /\ run.kind = "open-revert" =>
           ~ revert.open /\ run.of \in 1 .. branch.tip /\ NotUndone(run.of)
    /\ revert.open => revert.of \in 1 .. branch.tip /\ NotUndone(revert.of)
OnceInv == TypeInv /\ UndoneBelow /\ RevertsAreFresh

\* A flake is counted once, where it happened.
Flaked == {i \in Pos : branch.at[i].flaked}
FlakesAreCounted == Cardinality(Flaked) <= flakes

\* Why a revert is closed only above a green commit when nobody repeats or cancels
\* a run of CI, and a record reaches back to the start of the branch: the culprit
\* of an open revert stays red, so that the branch reads as green only once a
\* commit above it passed.
RedFrom(b, c) == c \in 1 .. b.tip /\ CI(b, c) = "failure"
VerdictsStand ==
    run.pc = "recorded" =>
        /\ run.seen.tip <= branch.tip
        /\ \A i \in 1 .. run.seen.tip :
              CI(run.seen, i) \in {"success", "failure"} => CI(branch, i) = CI(run.seen, i)
        /\ revert.open => RedFrom(run.seen, revert.of)
PassedAbove(c) == \E i \in c + 1 .. branch.tip : CI(branch, i) = "success"
CulpritsStayRed ==
    /\ revert.open => RedFrom(branch, revert.of)
    /\ run.pc = "decided" =>
           /\ run.kind = "open-revert" => RedFrom(branch, run.of)
           /\ run.kind = "rerun-failed-jobs" => ~ revert.open
           /\ run.kind = "close-revert" /\ revert.open => PassedAbove(revert.of)
RedInv == TypeInv /\ VerdictsStand /\ CulpritsStayRed

(***************************************************************************)
(* What the documents say and the code does not do.                        *)
(***************************************************************************)

\* "A flake or infrastructure failure MUST NOT produce a merged revert".
NoInnocentReverted ==
    \A i \in Pos :
        branch.at[i].undoes # 0 => branch.at[branch.at[i].undoes].change = "break"

\* "Once a later non-revert master commit is green, a held revert MUST be closed
\* as superseded": a run closes a revert only above a green commit that is newer
\* than the culprit.
ClosedOnlyWhenGreen ==
    [][ CloseRevert => PassedAbove(revert.of) ]_vars
=============================================================================
