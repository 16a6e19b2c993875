------------------------- MODULE MasterHealthProofs -------------------------
(***************************************************************************)
(* For a branch of any length, any window and lookback, any set of checks  *)
(* and any number of flakes, re-runs and dying runs: the types of          *)
(* MasterHealth; when every outage is a marked one, that only suspect      *)
(* commits are ever reverted, and no more innocent ones than CI failed for *)
(* nothing; when every record is of one moment, that no culprit is         *)
(* reverted twice; and when nobody takes back a verdict of CI, that a run  *)
(* closes a revert only above a green commit.                              *)
(***************************************************************************)
EXTENDS MasterHealth, FiniteSetTheorems, WellFoundedInduction, TLAPS

USE DEF Pos

\* The bounds, one by one.
LEMMA Bounds ==
  /\ MaxCommits \in Nat \ {0} /\ Window \in Nat \ {0}
  /\ MaxFlakes \in Nat /\ MaxMeddling \in Nat /\ Lookback \in Nat
  BY BoundAssumption

(***************************************************************************)
(* The least and the greatest member of a set of positions.                *)
(***************************************************************************)

\* A set of naturals that is not empty has a least member.
LEMMA LeastNatural ==
  ASSUME NEW S, S \subseteq Nat, S # {}
  PROVE  \E x \in S : \A y \in S : x <= y
  <1>1. \E x \in S : \A y \in S : <<y, x>> \notin OpToRel(<, Nat)
    BY NatLessThanWellFounded, WFMin
  <1>2. PICK x \in S : \A y \in S : <<y, x>> \notin OpToRel(<, Nat)
    BY <1>1
  <1>3. \A y \in S : x <= y
    <2> SUFFICES ASSUME NEW y \in S, y < x PROVE FALSE
      OBVIOUS
    <2>1. <<y, x>> \in OpToRel(<, Nat)
      BY DEF OpToRel
    <2> QED
      BY <2>1, <1>2
  <1> QED
    BY <1>3

\* Min and Max of a set of positions that is not empty are members of it.
LEMMA MinOfPositions ==
  ASSUME NEW S, S \subseteq Pos, S # {}
  PROVE  Min(S) \in S /\ \A y \in S : Min(S) <= y
  <1>1. S \subseteq Nat
    BY Bounds
  <1>2. \E x \in S : \A y \in S : x <= y
    BY <1>1, LeastNatural
  <1> QED
    BY <1>2 DEF Min

\* The same for the greatest, by mirroring the set.
LEMMA MaxOfPositions ==
  ASSUME NEW S, S \subseteq Pos, S # {}
  PROVE  Max(S) \in S
  <1> DEFINE Mirror == {MaxCommits - x : x \in S}
  <1>1. PICK m \in Mirror : \A y \in Mirror : m <= y
    <2>1. \A x \in S : MaxCommits - x \in Nat
      BY Bounds
    <2>2. Mirror \subseteq Nat
      BY <2>1
    <2>3. PICK x \in S : TRUE
      OBVIOUS
    <2>4. MaxCommits - x \in Mirror
      BY <2>3
    <2> HIDE DEF Mirror
    <2> QED
      BY <2>2, <2>4, LeastNatural
  <1>2. PICK x \in S : m = MaxCommits - x
    OBVIOUS
  <1>3. \A y \in S : x >= y
    <2> SUFFICES ASSUME NEW y \in S PROVE x >= y
      OBVIOUS
    <2>1. m <= MaxCommits - y
      BY <1>1
    <2> QED
      BY <1>2, <2>1, Bounds
  <1> QED
    BY <1>3 DEF Max

(***************************************************************************)
(* What the decision names.                                                *)
(***************************************************************************)

\* A red branch has an opener and a newest failure.
LEMMA EpisodeHasOpener ==
  ASSUME NEW b \in Branch, RedBlock(b) # {}
  PROVE  Opener(b) \in Pos /\ Max(Failed(b)) \in Pos
  <1>1. RedBlock(b) \subseteq Pos /\ Failed(b) \subseteq Pos
    BY DEF RedBlock, AboveGreen, Visible, Failed
  <1>2. Failed(b) # {}
    BY DEF RedBlock
  <1> QED
    BY <1>1, <1>2, MinOfPositions, MaxOfPositions DEF Opener

\* The culprit failed, and the tree below it is green.
LEMMA CulpritFailedAboveGreen ==
  ASSUME NEW b \in Branch, NEW c \in Culprit(b)
  PROVE  /\ c \in RedBlock(b) \cap Failed(b)
         /\ c \in 2 .. b.tip
         /\ CI(b, c - 1) = "success"
  <1>1. c \in RedBlock(b) /\ c - 1 \in Green(b)
    BY DEF Culprit
  <1>2. PICK f \in AboveGreen(b) \cap Failed(b) : f <= c
    BY <1>1 DEF RedBlock
  <1>3. c - 1 < f
    BY <1>1, <1>2 DEF AboveGreen
  <1>4. c \in Pos /\ f \in Pos /\ c - 1 \in Pos /\ c <= b.tip
    BY <1>1, <1>2 DEF RedBlock, AboveGreen, Visible, Green
  <1>5. f = c
    BY <1>2, <1>3, <1>4
  <1>6. CI(b, c - 1) = "success"
    BY <1>1 DEF Green
  <1>7. b.tip \in Pos
    BY DEF Branch
  <1> QED
    BY <1>1, <1>2, <1>4, <1>5, <1>6, <1>7

\* So it broke the branch itself, or CI failed it for nothing.
LEMMA CulpritIsSuspect ==
  ASSUME NEW b \in Branch, CITellsTheTruth(b), BreaksAreInherited(b),
         ~ IsInfra(b), NEW c \in Culprit(b)
  PROVE  c \in 1 .. b.tip /\ SuspectIn(b, c)
  <1>1. /\ c \in RedBlock(b) \cap Failed(b)
        /\ c \in 2 .. b.tip
        /\ CI(b, c - 1) = "success"
    BY CulpritFailedAboveGreen
  <1>2. b.tip \in Pos
    BY DEF Branch
  <1>3. c \in 1 .. b.tip /\ c - 1 \in 1 .. b.tip /\ c > 1
    BY <1>1, <1>2
  <1>4. CI(b, c) = "failure"
    BY <1>1 DEF Failed
  <1>5. b.at[c].check \notin Marked
    BY <1>1 DEF IsInfra, Signatures
  <1>6. b.at[c].live # {} \/ b.at[c].flaked
    BY <1>3, <1>4, <1>5 DEF CITellsTheTruth
  <1>7. b.at[c - 1].live = {}
    BY <1>1, <1>3 DEF CITellsTheTruth
  <1>8. b.at[c].live \subseteq {c}
    BY <1>3, <1>7 DEF BreaksAreInherited
  <1>9. c \in b.at[c].live => b.at[c].change = "break"
    BY <1>3 DEF BreaksAreInherited
  <1> QED
    BY <1>3, <1>6, <1>8, <1>9 DEF SuspectIn

\* A decided step is a step of the table and names a position when it needs one;
\* a revert is decided only for a culprit, and never in an infra episode.
LEMMA DecidedStep ==
  ASSUME NEW b \in Branch, NEW rv,
         NEW step, step = ReconcileStep(b, rv)
  PROVE  /\ step.kind \in StepKind /\ step.of \in Pos \cup {0}
         /\ step.kind \in {"needs-attention", "open-revert", "rerun-failed-jobs"} => step.of \in Pos
         /\ step.kind = "open-revert" => step.of \in Culprit(b) /\ ~ IsInfra(b)
  <1> DEFINE revertable ==
        {c \in Culprit(b) : b.at[c].pull /\ ~ b.at[c].release /\ ~ RevertRefused(b, c)}
  <1>1. CASE RedVerdict(b) = "green"
    BY <1>1 DEF ReconcileStep, GreenBranchStep, NothingOwed, Do, StepKind
  <1>2. ASSUME RedVerdict(b) # "green" PROVE RedBlock(b) # {}
    BY <1>2 DEF RedVerdict
  <1>3. ASSUME RedVerdict(b) # "green" PROVE Opener(b) \in Pos /\ Max(Failed(b)) \in Pos
    BY <1>3, <1>2, EpisodeHasOpener
  <1>4. CASE RedVerdict(b) \in {"flake", "infra"}
    BY <1>4, <1>3 DEF ReconcileStep, Raise, Do, StepKind
  <1>5. CASE RedVerdict(b) \notin {"green", "flake", "infra"} /\ rv.open
    BY <1>5, <1>3 DEF ReconcileStep, RevertInFlightStep, NothingOwed, Raise, Do, StepKind
  <1>6. CASE RedVerdict(b) = "unclassified" /\ ~ rv.open
    BY <1>6, <1>3 DEF ReconcileStep, Do, StepKind
  <1>7. CASE RedVerdict(b) \notin {"green", "flake", "infra", "unclassified"} /\ ~ rv.open
    <2>1. step = RegressionStep(b)
      BY <1>7 DEF ReconcileStep
    <2>2. ~ IsInfra(b)
      BY <1>7 DEF RedVerdict
    <2>3. CASE revertable = {}
      <3>1. step = Raise(b)
        BY <2>1, <2>3 DEF RegressionStep
      <3> QED
        BY <3>1, <1>7, <1>3 DEF Raise, Do, StepKind
    <2>4. CASE revertable # {}
      <3>1. step = Do("open-revert", CHOOSE c \in revertable : TRUE)
        BY <2>1, <2>4 DEF RegressionStep
      <3>2. step.of \in Culprit(b) /\ step.kind = "open-revert"
        BY <3>1, <2>4 DEF Do
      <3>3. step.of \in Pos
        BY <3>2 DEF Culprit, RedBlock, AboveGreen, Visible
      <3> QED
        BY <3>2, <3>3, <2>2 DEF StepKind
    <2> QED
      BY <2>3, <2>4
  <1> QED
    BY <1>1, <1>4, <1>5, <1>6, <1>7

(***************************************************************************)
(* How a step changes the branch.                                          *)
(***************************************************************************)

\* CI speaks of commit i and of nothing else.
Judged(i) ==
    /\ branch' \in Branch
    /\ branch'.tip = branch.tip
    /\ \A j \in Pos \ {i} : branch'.at[j] = branch.at[j]
    /\ branch'.at[i].change = branch.at[i].change
    /\ branch'.at[i].undoes = branch.at[i].undoes
    /\ branch'.at[i].path = branch.at[i].path
    /\ branch'.at[i].live = branch.at[i].live
    /\ branch.at[i].flaked => branch'.at[i].flaked

\* A verdict of CI on commit i touches nothing but what CI said of it.
LEMMA ConcludeJudges ==
  ASSUME branch \in Branch, NEW i \in Pos,
         NEW ci \in {"success", "failure", "cancelled"}, NEW check \in Check \cup {None},
         Conclude(i, ci, check)
  PROVE  /\ Judged(i) /\ Flaked' \subseteq Flaked
         /\ branch'.at[i].ci = ci /\ branch'.at[i].check = check
  <1> DEFINE c == [branch.at[i] EXCEPT !.ci = ci, !.check = check]
  <1>1. branch.at[i] \in Commit
    BY DEF Branch
  <1>2. c \in Commit
    BY <1>1 DEF Commit
  <1>3. branch' = [branch EXCEPT !.at = [branch.at EXCEPT ![i] = c]]
    BY DEF Conclude, Branch, Commit
  <1>4. branch' \in Branch
    BY <1>2, <1>3 DEF Branch
  <1>5. branch'.at[i] = c /\ branch'.tip = branch.tip
    BY <1>3 DEF Branch
  <1>6. \A j \in Pos \ {i} : branch'.at[j] = branch.at[j]
    BY <1>3 DEF Branch
  <1>7. c.flaked <=> branch.at[i].flaked
    BY <1>1 DEF Commit
  <1>8. Flaked' \subseteq Flaked
    <2> HIDE DEF c
    <2> QED
      BY <1>5, <1>6, <1>7 DEF Flaked
  <1> QED
    BY <1>1, <1>4, <1>5, <1>6, <1>8 DEF Judged, Commit

\* A re-run of commit i leaves it undecided and everything else alone.
LEMMA RestartJudges ==
  ASSUME branch \in Branch, NEW i \in Pos, Restart(i)
  PROVE  Judged(i) /\ Flaked' \subseteq Flaked /\ branch'.at[i].ci = "pending"
  <1> DEFINE c == [branch.at[i] EXCEPT !.ci = "pending", !.check = None, !.rerun = TRUE]
  <1>1. branch.at[i] \in Commit
    BY DEF Branch
  <1>2. c \in Commit
    BY <1>1 DEF Commit
  <1>3. branch' = [branch EXCEPT !.at = [branch.at EXCEPT ![i] = c]]
    BY DEF Restart, Branch, Commit
  <1>4. branch' \in Branch
    BY <1>2, <1>3 DEF Branch
  <1>5. branch'.at[i] = c /\ branch'.tip = branch.tip
    BY <1>3 DEF Branch
  <1>6. \A j \in Pos \ {i} : branch'.at[j] = branch.at[j]
    BY <1>3 DEF Branch
  <1>7. c.flaked <=> branch.at[i].flaked
    BY <1>1 DEF Commit
  <1>8. Flaked' \subseteq Flaked
    <2> HIDE DEF c
    <2> QED
      BY <1>5, <1>6, <1>7 DEF Flaked
  <1> QED
    BY <1>1, <1>4, <1>5, <1>6, <1>8 DEF Judged, Commit

\* A commit lands on top and leaves those below as they are.
Grown(c) ==
    /\ branch' \in Branch
    /\ branch'.tip = branch.tip + 1
    /\ branch'.at[branch.tip + 1] = c
    /\ \A j \in 1 .. branch.tip : branch'.at[j] = branch.at[j]
    /\ \A j \in Pos \ {branch.tip + 1} : branch'.at[j] = branch.at[j]

\* A merge keeps the commits below it.
LEMMA GrowGrows ==
  ASSUME branch \in Branch, NEW c \in Commit, branch.tip < MaxCommits, Grow(c)
  PROVE  Grown(c)
  <1>1. branch.tip \in Pos /\ branch.tip + 1 \in Pos /\ branch.at \in [Pos -> Commit]
    BY Bounds DEF Branch
  <1>2. /\ branch'.tip = branch.tip + 1
        /\ branch'.at = [branch.at EXCEPT ![branch.tip + 1] = c]
    BY DEF Grow
  <1>3. branch' \in Branch
    BY <1>1 DEF Grow, Branch
  <1> QED
    BY <1>1, <1>2, <1>3, Bounds DEF Grown

\* The blank commit is well typed.
LEMMA NoCommitIsCommit ==
  /\ NoCommit \in Commit
  /\ NoCommit.undoes = 0 /\ NoCommit.ci = "pending" /\ NoCommit.live = {}
  /\ ~ NoCommit.flaked
  BY DEF NoCommit, Commit, Change

\* What each action of the forge and of people does to the branch.
LEMMA MergeGrows ==
  ASSUME branch \in Branch, NEW shape \in Shape, Merge(shape)
  PROVE  branch.tip < MaxCommits /\ \E c \in Commit :
            /\ Grown(c) /\ c.undoes = 0 /\ c.ci = "pending" /\ ~ c.flaked
            /\ c.live \subseteq Tree \cup {branch.tip + 1}
            /\ branch.tip + 1 \in c.live \ Tree => c.change = "break"
  <1> DEFINE n == branch.tip + 1
             live == CASE shape.change = "plain" -> Tree
                       [] shape.change = "break" -> Tree \cup {n}
                       [] shape.change = "repair" -> {}
             c == [NoCommit EXCEPT
                    !.change = shape.change, !.pull = shape.pull,
                    !.release = shape.release, !.path = shape.path, !.live = live]
  <1>1. shape \in ShapeType
    BY ShapeAssumption
  <1>2. branch.tip \in Pos /\ Tree \in SUBSET Pos
    BY DEF Branch, Commit, Tree
  <1>3. branch.tip < MaxCommits /\ n \in Pos
    BY <1>2, Bounds DEF Merge
  <1>4. live \in SUBSET Pos
    BY <1>1, <1>2, <1>3 DEF ShapeType
  <1>5. /\ NoCommit \in Commit /\ NoCommit.undoes = 0 /\ NoCommit.ci = "pending"
        /\ ~ NoCommit.flaked
    BY NoCommitIsCommit
  <1>6. c \in Commit
    <2> HIDE DEF live
    <2> QED
      BY <1>1, <1>4, <1>5 DEF ShapeType, Commit, Change
  <1>7. Grown(c)
    <2>1. Grow(c)
      BY DEF Merge
    <2> HIDE DEF c
    <2> QED
      BY <2>1, <1>3, <1>6, GrowGrows
  <1>8. /\ c.live = live /\ c.undoes = 0 /\ c.ci = "pending" /\ c.change = shape.change
        /\ ~ c.flaked
    <2> HIDE DEF live
    <2> QED
      BY <1>5 DEF Commit
  <1>9. live \subseteq Tree \cup {n} /\ (n \in live \ Tree => shape.change = "break")
    BY <1>1 DEF ShapeType
  <1> HIDE DEF c, live
  <1> QED
    BY <1>3, <1>6, <1>7, <1>8, <1>9

\* A landed revert undoes the commit it was opened for and breaks nothing.
LEMMA LandRevertGrows ==
  ASSUME branch \in Branch, revert.of \in Pos, LandRevert
  PROVE  \E c \in Commit :
            /\ Grown(c) /\ c.undoes = revert.of /\ c.ci = "pending" /\ ~ c.flaked
            /\ c.live \subseteq Tree
            /\ c.path = branch.at[revert.of].path
  <1> DEFINE c == [NoCommit EXCEPT
                    !.change = "revert", !.undoes = revert.of,
                    !.path = branch.at[revert.of].path, !.live = Tree \ {revert.of}]
  <1>1. branch.tip \in Pos /\ Tree \in SUBSET Pos /\ branch.at[revert.of] \in Commit
    BY DEF Branch, Commit, Tree
  <1>2. branch.at[revert.of].path \in Path \cup {None}
    BY <1>1 DEF Commit
  <1>3. NoCommit \in Commit /\ NoCommit.ci = "pending" /\ ~ NoCommit.flaked
    BY NoCommitIsCommit
  <1>4. c \in Commit
    BY <1>1, <1>2, <1>3 DEF Commit, Change
  <1>5. Grown(c)
    <2>1. Grow(c) /\ branch.tip < MaxCommits
      BY DEF LandRevert
    <2> HIDE DEF c
    <2> QED
      BY <2>1, <1>4, GrowGrows
  <1>6. /\ c.live = Tree \ {revert.of} /\ c.undoes = revert.of /\ c.ci = "pending"
        /\ c.path = branch.at[revert.of].path /\ ~ c.flaked
    BY <1>3 DEF Commit
  <1> HIDE DEF c
  <1> QED
    BY <1>4, <1>5, <1>6

\* A verdict of CI is a true one: green on a healthy tree; red on a broken one,
\* in an outage, or noted as a flake.
TrueAt(b, i) ==
    /\ CI(b, i) = "success" => b.at[i].live = {}
    /\ CI(b, i) = "failure" /\ b.at[i].check \notin OutageCheck
          => b.at[i].live # {} \/ b.at[i].flaked

LEMMA FinishCIJudges ==
  ASSUME TypeOK, NEW i \in Pos, FinishCI(i)
  PROVE  Judged(i) /\ TrueAt(branch', i) /\ flakes' \in 0 .. MaxFlakes
  <1>0. branch \in Branch /\ flakes \in 0 .. MaxFlakes /\ MaxFlakes \in Nat
    BY Bounds DEF TypeOK
  <1>1. CASE Pass(i)
    <2>1. Conclude(i, "success", None) /\ branch.at[i].live = {} /\ flakes' = flakes
      BY <1>1 DEF Pass, Broken
    <2>2. Judged(i) /\ branch'.at[i].ci = "success"
      BY <1>0, <2>1, ConcludeJudges
    <2> QED
      BY <1>0, <2>1, <2>2 DEF TrueAt, Judged, CI
  <1>2. CASE Fail(i)
    <2>1. PICK check \in Check \ OutageCheck : Conclude(i, "failure", check)
      BY <1>2 DEF Fail
    <2>2. Judged(i) /\ branch'.at[i].ci = "failure"
      BY <1>0, <2>1, ConcludeJudges
    <2>3. branch.at[i].live # {} /\ flakes' = flakes
      BY <1>2 DEF Fail, Broken
    <2> QED
      BY <1>0, <2>2, <2>3 DEF TrueAt, Judged, CI
  <1>3. CASE FailInOutage(i)
    <2>1. PICK check \in OutageCheck : Conclude(i, "failure", check)
      BY <1>3 DEF FailInOutage
    <2>2. check \in Check
      BY CheckAssumption
    <2>3. Judged(i) /\ branch'.at[i].ci = "failure" /\ branch'.at[i].check = check
      BY <1>0, <2>1, <2>2, ConcludeJudges
    <2>4. flakes' = flakes
      BY <1>3 DEF FailInOutage
    <2> QED
      BY <1>0, <2>3, <2>4 DEF TrueAt, CI
  <1>4. CASE Flake(i)
    <2>1. PICK check \in Check \ OutageCheck :
            branch' = [branch EXCEPT !.at[i].ci = "failure", !.at[i].check = check,
                                     !.at[i].flaked = TRUE]
      BY <1>4 DEF Flake
    <2> DEFINE c == [branch.at[i] EXCEPT !.ci = "failure", !.check = check, !.flaked = TRUE]
    <2>2. branch.at[i] \in Commit
      BY <1>0 DEF Branch
    <2>3. c \in Commit
      BY <2>2 DEF Commit
    <2>4. branch' = [branch EXCEPT !.at = [branch.at EXCEPT ![i] = c]]
      BY <1>0, <2>1 DEF Branch, Commit
    <2>5. branch' \in Branch
      BY <1>0, <2>3, <2>4 DEF Branch
    <2>6. branch'.at[i] = c /\ branch'.tip = branch.tip
      BY <1>0, <2>4 DEF Branch
    <2>7. \A j \in Pos \ {i} : branch'.at[j] = branch.at[j]
      BY <1>0, <2>4 DEF Branch
    <2>8. Judged(i)
      BY <2>2, <2>5, <2>6, <2>7 DEF Judged, Commit
    <2>9. branch'.at[i].ci = "failure" /\ branch'.at[i].flaked
      BY <2>2, <2>6 DEF Commit
    <2>10. flakes' \in 0 .. MaxFlakes
      BY <1>0, <1>4 DEF Flake
    <2> QED
      BY <2>8, <2>9, <2>10 DEF TrueAt, CI
  <1> QED
    BY <1>1, <1>2, <1>3, <1>4 DEF FinishCI

(***************************************************************************)
(* Types, and that what a step is about exists.                            *)
(***************************************************************************)

\* The branch starts well typed, with no run and no revert.
LEMMA InitTypeInv == Init => TypeInv
  <1> SUFFICES ASSUME Init PROVE TypeInv
    OBVIOUS
  <1>1. branch \in Branch
    <2> DEFINE c == [NoCommit EXCEPT !.ci = "success"]
    <2>1. c \in Commit
      BY NoCommitIsCommit DEF Commit
    <2>2. branch = [tip |-> 1, at |-> [[i \in Pos |-> NoCommit] EXCEPT ![1] = c]]
      BY Bounds DEF Init
    <2> QED
      BY <2>1, <2>2, NoCommitIsCommit, Bounds DEF Branch
  <1>2. revert \in Revert /\ ~ revert.open /\ run \in Run /\ run.pc = "idle"
    BY DEF Init, NoRevert, Revert, Idle, Run, StepKind
  <1>3. issues \in SUBSET Pos
    BY DEF Init
  <1>4. outage \in BOOLEAN
    BY DEF Init
  <1>5. flakes \in 0 .. MaxFlakes /\ meddled \in 0 .. MaxMeddling
    BY Bounds DEF Init
  <1> QED
    BY <1>1, <1>2, <1>3, <1>4, <1>5 DEF TypeInv, TypeOK, TargetsExist

\* What is decided is well typed and names a position where it must.
LEMMA DecideKeepsTypes ==
  ASSUME TypeInv, Decide
  PROVE  /\ run' \in Run /\ run'.pc = "decided"
         /\ run'.kind \in {"needs-attention", "open-revert", "rerun-failed-jobs"} => run'.of \in Pos
  <1>1. run.seen \in Branch
    BY DEF TypeInv, TargetsExist, Decide
  <1>2. PICK step \in {ReconcileStep(run.seen, revert)} :
           run' = [pc |-> "decided", seen |-> None, kind |-> step.kind, of |-> step.of]
    BY DEF Decide
  <1>3. /\ step.kind \in StepKind /\ step.of \in Pos \cup {0}
        /\ step.kind \in {"needs-attention", "open-revert", "rerun-failed-jobs"} => step.of \in Pos
    BY <1>1, <1>2, DecidedStep
  <1> QED
    BY <1>2, <1>3 DEF Run

\* The steps of a reconcile run keep the types.
LEMMA RunKeepsTypes ==
  ASSUME TypeInv, Record \/ Decide \/ PerformStep \/ Die
  PROVE  TypeInv'
  <1> USE DEF TypeInv
  <1>0. Idle \in Run /\ Idle.pc = "idle" /\ NoRevert \in Revert /\ ~ NoRevert.open
    BY DEF Idle, Run, StepKind, NoRevert, Revert
  <1>1. CASE Record
    <2>1. run' \in Run /\ run'.pc = "recorded" /\ run'.seen \in Branch
      BY <1>0, <1>1 DEF Record, TypeOK, Run
    <2> QED
      BY <1>1, <2>1 DEF Record, TypeOK, TargetsExist
  <1>2. CASE Decide
    BY <1>2, DecideKeepsTypes DEF Decide, TypeOK, TargetsExist
  <1>3. CASE Die
    BY <1>3, <1>0 DEF Die, TypeOK, TargetsExist
  <1>4. CASE DoNothing \/ Refused
    BY <1>4, <1>0 DEF DoNothing, Refused, Perform, TypeOK, TargetsExist
  <1>5. CASE RerunFailedJobs
    <2>0. run.of \in Pos
      BY <1>5 DEF RerunFailedJobs, Perform, TargetsExist
    <2>1. branch' \in Branch
      BY <1>5, <2>0, RestartJudges DEF RerunFailedJobs, TypeOK, Judged
    <2> QED
      BY <1>5, <1>0, <2>1 DEF RerunFailedJobs, Perform, TypeOK, TargetsExist
  <1>6. CASE OpenRevert
    <2>1. run.of \in Pos
      BY <1>6 DEF OpenRevert, Perform, TargetsExist
    <2>2. revert' \in Revert /\ revert'.of = run.of
      BY <1>6, <1>0, <2>1 DEF OpenRevert, Revert
    <2> QED
      BY <1>6, <1>0, <2>1, <2>2 DEF OpenRevert, Perform, TypeOK, TargetsExist
  <1>7. CASE ReleaseRevert
    <2>1. revert' \in Revert /\ revert'.of = revert.of /\ revert'.open = revert.open
      BY <1>7 DEF ReleaseRevert, TypeOK, Revert
    <2> QED
      BY <1>7, <1>0, <2>1 DEF ReleaseRevert, Perform, TypeOK, TargetsExist
  <1>8. CASE CloseRevert
    BY <1>8, <1>0 DEF CloseRevert, Perform, TypeOK, TargetsExist
  <1>9. CASE RaiseAttention
    <2>1. run.of \in Pos
      BY <1>9 DEF RaiseAttention, Perform, TargetsExist
    <2> QED
      BY <1>9, <1>0, <2>1 DEF RaiseAttention, Perform, TypeOK, TargetsExist
  <1> QED
    BY <1>1, <1>2, <1>3, <1>4, <1>5, <1>6, <1>7, <1>8, <1>9 DEF PerformStep

\* So do merges, CI and outages.
LEMMA ForgeKeepsTypes ==
  ASSUME TypeInv,
         \/ \E shape \in Shape : Merge(shape)
         \/ LandRevert \/ SomeCI \/ Outage
  PROVE  TypeInv'
  <1> USE DEF TypeInv
  <1>0. NoRevert \in Revert /\ ~ NoRevert.open /\ branch \in Branch
    BY DEF NoRevert, Revert, TypeOK
  <1>1. ASSUME NEW shape \in Shape, Merge(shape) PROVE TypeInv'
    <2>1. branch' \in Branch
      BY <1>0, <1>1, MergeGrows DEF Grown
    <2> QED
      BY <1>1, <2>1 DEF Merge, TypeOK, TargetsExist
  <1>2. CASE LandRevert
    <2>1. revert.of \in Pos
      BY <1>2 DEF LandRevert, TargetsExist
    <2>2. branch' \in Branch
      BY <1>0, <1>2, <2>1, LandRevertGrows DEF Grown
    <2> QED
      BY <1>0, <1>2, <2>2 DEF LandRevert, TypeOK, TargetsExist
  <1>3. ASSUME NEW i \in Pos, FinishCI(i) PROVE TypeInv'
    <2>1. branch' \in Branch /\ flakes' \in 0 .. MaxFlakes
      BY <1>3, FinishCIJudges DEF Judged
    <2> QED
      BY <1>3, <2>1 DEF FinishCI, TypeOK, TargetsExist
  <1>4. CASE FinishRevertCI
    <2>1. revert' \in Revert /\ revert'.of = revert.of /\ revert'.open = revert.open
      BY <1>4 DEF FinishRevertCI, TypeOK, Revert
    <2> QED
      BY <1>4, <2>1 DEF FinishRevertCI, TypeOK, TargetsExist
  <1>5. CASE Outage
    BY <1>5 DEF Outage, TypeOK, TargetsExist
  <1> QED
    BY <1>1, <1>2, <1>3, <1>4, <1>5 DEF SomeCI

\* So do people.
LEMMA PeopleKeepTypes ==
  ASSUME TypeInv, People
  PROVE  TypeInv'
  <1> USE DEF TypeInv
  <1>0. NoRevert \in Revert /\ ~ NoRevert.open /\ branch \in Branch
    BY DEF NoRevert, Revert, TypeOK
  <1>1. Meddle => meddled' \in 0 .. MaxMeddling
    BY Bounds DEF Meddle, TypeOK
  <1>2. ASSUME NEW i \in Pos, Cancel(i) PROVE TypeInv'
    <2>1. branch' \in Branch
      BY <1>0, <1>2, ConcludeJudges DEF Cancel, Judged
    <2> QED
      BY <1>1, <1>2, <2>1 DEF Cancel, TypeOK, TargetsExist
  <1>3. ASSUME NEW i \in Pos, RerunByHand(i) PROVE TypeInv'
    <2>1. branch' \in Branch
      BY <1>0, <1>3, RestartJudges DEF RerunByHand, Judged
    <2> QED
      BY <1>1, <1>3, <2>1 DEF RerunByHand, TypeOK, TargetsExist
  <1>4. CASE CloseByHand
    BY <1>0, <1>1, <1>4 DEF CloseByHand, OnRevert, TypeOK, TargetsExist
  <1>5. CASE RetryRevert
    <2>1. revert' \in Revert /\ revert'.of = revert.of /\ revert'.open = revert.open
      BY <1>5 DEF RetryRevert, OnRevert, TypeOK, Revert
    <2> QED
      BY <1>1, <1>5, <2>1 DEF RetryRevert, OnRevert, TypeOK, TargetsExist
  <1>6. CASE Claim \/ Stall \/ PassHardCap
    <2>1. revert' \in Revert /\ revert'.of = revert.of /\ revert'.open = revert.open
      BY <1>6 DEF Claim, Stall, PassHardCap, OnRevert, TypeOK, Revert
    <2> QED
      BY <1>6, <2>1 DEF Claim, Stall, PassHardCap, OnRevert, TypeOK, TargetsExist
  <1> QED
    BY <1>2, <1>3, <1>4, <1>5, <1>6 DEF People

\* So does every step.
LEMMA NextTypeInv == TypeInv /\ [Next]_vars => TypeInv'
  <1> SUFFICES ASSUME TypeInv, [Next]_vars PROVE TypeInv'
    OBVIOUS
  <1>1. CASE UNCHANGED vars
    BY <1>1 DEF vars, TypeInv, TypeOK, TargetsExist
  <1>2. CASE Record \/ Decide \/ PerformStep \/ Die
    BY <1>2, RunKeepsTypes
  <1>3. CASE (\E shape \in Shape : Merge(shape)) \/ LandRevert \/ SomeCI \/ Outage
    BY <1>3, ForgeKeepsTypes
  <1>4. CASE People
    BY <1>4, PeopleKeepTypes
  <1> QED
    BY <1>1, <1>2, <1>3, <1>4 DEF Next

\* TypeInv holds throughout.
LEMMA TypeInvariant == Spec => []TypeInv
  BY InitTypeInv, NextTypeInv, PTL DEF Spec

\* Every position the reconciler speaks of exists, an issue has an episode to be
\* filed under, and no state leaves its type: for every value of the constants.
THEOREM TypeCorrect == Spec => []TypeOK
  <1>1. TypeInv => TypeOK
    BY DEF TypeInv
  <1> QED
    BY <1>1, TypeInvariant, PTL

(***************************************************************************)
(* Only suspects are reverted.                                             *)
(***************************************************************************)

\* What CI said of each commit so far is true, and a suspect stays one.
BranchIsHonest == CITellsTheTruth(branch) /\ BreaksAreInherited(branch)
SuspectsStay ==
    /\ branch.tip <= branch'.tip
    /\ \A i \in 1 .. branch.tip : Suspect(i) => Suspect(i)'

\* After a true verdict on commit i the branch is honest, and no suspect is cleared.
LEMMA JudgementIsHonest ==
  ASSUME branch \in Branch, BranchIsHonest, NEW i \in Pos, Judged(i),
         i <= branch.tip => TrueAt(branch', i),
         OutageCheck \subseteq Marked
  PROVE  /\ BranchIsHonest' /\ SuspectsStay
         /\ \A j \in Pos : branch'.at[j].undoes = branch.at[j].undoes
  <1> USE DEF Judged
  <1>0. branch.tip \in Pos /\ 1 .. branch.tip \subseteq Pos
    BY Bounds DEF Branch
  <1>1. CITellsTheTruth(branch')
    <2> SUFFICES ASSUME NEW j \in 1 .. branch.tip
                 PROVE  /\ CI(branch', j) = "success" => branch'.at[j].live = {}
                        /\ CI(branch', j) = "failure" /\ branch'.at[j].check \notin Marked
                              => branch'.at[j].live # {} \/ branch'.at[j].flaked
      BY DEF CITellsTheTruth
    <2>1. CASE j = i
      BY <2>1, <1>0 DEF TrueAt
    <2>2. CASE j # i
      BY <2>2, <1>0 DEF BranchIsHonest, CITellsTheTruth, CI
    <2> QED
      BY <2>1, <2>2
  <1>2. \A j \in Pos : /\ branch'.at[j].live = branch.at[j].live
                       /\ branch'.at[j].change = branch.at[j].change
                       /\ branch'.at[j].undoes = branch.at[j].undoes
                       /\ branch.at[j].flaked => branch'.at[j].flaked
    OBVIOUS
  <1>3. BreaksAreInherited(branch')
    <2> SUFFICES ASSUME NEW j \in 1 .. branch.tip
                 PROVE  /\ branch'.at[j].live \subseteq 1 .. j
                        /\ j \in branch'.at[j].live => branch'.at[j].change = "break"
                        /\ j > 1 => branch'.at[j].live \ {j} \subseteq branch'.at[j - 1].live
      BY DEF BreaksAreInherited
    <2>1. j \in Pos /\ (j > 1 => j - 1 \in Pos)
      BY <1>0
    <2> QED
      BY <1>2, <2>1 DEF BranchIsHonest, BreaksAreInherited
  <1>4. SuspectsStay
    BY <1>0, <1>2 DEF SuspectsStay, Suspect, SuspectIn
  <1> QED
    BY <1>1, <1>2, <1>3, <1>4 DEF BranchIsHonest

\* After a merge too: the new commit is undecided and inherits its parent's breaks.
LEMMA GrowthIsHonest ==
  ASSUME branch \in Branch, branch.tip < MaxCommits, BranchIsHonest,
         NEW c \in Commit, Grown(c), c.ci = "pending",
         c.live \subseteq Tree \cup {branch.tip + 1},
         branch.tip + 1 \in c.live \ Tree => c.change = "break"
  PROVE  BranchIsHonest' /\ SuspectsStay
  <1> DEFINE n == branch.tip + 1
  <1> USE DEF Grown
  <1>0. branch.tip \in Pos /\ 1 .. branch.tip \subseteq Pos /\ n \in Pos
    BY Bounds DEF Branch
  <1>1. 1 .. branch'.tip = 1 .. branch.tip \cup {n}
    BY <1>0
  <1>2. CITellsTheTruth(branch')
    <2>1. \A j \in 1 .. branch.tip : branch'.at[j] = branch.at[j]
      OBVIOUS
    <2>2. CI(branch', n) = "pending"
      BY DEF CI
    <2> QED
      BY <1>1, <2>1, <2>2 DEF BranchIsHonest, CITellsTheTruth, CI
  <1>3. Tree \subseteq 1 .. branch.tip
    BY <1>0 DEF BranchIsHonest, BreaksAreInherited, Tree
  <1>4. BreaksAreInherited(branch')
    <2> SUFFICES ASSUME NEW j \in 1 .. branch'.tip
                 PROVE  /\ branch'.at[j].live \subseteq 1 .. j
                        /\ j \in branch'.at[j].live => branch'.at[j].change = "break"
                        /\ j > 1 => branch'.at[j].live \ {j} \subseteq branch'.at[j - 1].live
      BY DEF BreaksAreInherited
    <2>1. CASE j = n
      <3>1. branch'.at[j] = c /\ branch'.at[j - 1].live = Tree
        BY <1>0, <2>1 DEF Tree
      <3>2. n \notin Tree
        BY <1>0, <1>3
      <3>3. c.live \subseteq 1 .. n
        <4>1. 1 .. branch.tip \subseteq 1 .. n /\ n \in 1 .. n
          BY <1>0
        <4> HIDE DEF n
        <4> QED
          BY <1>3, <4>1 DEF n
      <3>4. c.live \ {n} \subseteq Tree
        OBVIOUS
      <3>5. n \in c.live => c.change = "break"
        BY <3>2
      <3> QED
        BY <2>1, <3>1, <3>3, <3>4, <3>5
    <2>2. CASE j \in 1 .. branch.tip
      <3>1. branch'.at[j] = branch.at[j]
        BY <2>2
      <3>2. j > 1 => j - 1 \in 1 .. branch.tip /\ branch'.at[j - 1] = branch.at[j - 1]
        BY <1>0, <2>2
      <3> QED
        BY <2>2, <3>1, <3>2 DEF BranchIsHonest, BreaksAreInherited
    <2> QED
      BY <1>1, <2>1, <2>2
  <1>5. SuspectsStay
    BY <1>0 DEF SuspectsStay, Suspect, SuspectIn
  <1> QED
    BY <1>2, <1>4, <1>5 DEF BranchIsHonest

\* Where suspects stay, so does what a run has seen, and whom it accuses.
LEMMA PastStaysPast ==
  ASSUME TypeInv, SeenIsPast, SuspectsStay, branch' \in Branch,
         run'.pc = "recorded" => run' = run
  PROVE  SeenIsPast'
  <1> SUFFICES ASSUME run'.pc = "recorded"
               PROVE  /\ CITellsTheTruth(run.seen) /\ BreaksAreInherited(run.seen)
                      /\ run.seen.tip <= branch'.tip
                      /\ \A i \in 1 .. run.seen.tip : SuspectIn(run.seen, i) => Suspect(i)'
    BY DEF SeenIsPast
  <1>1. /\ CITellsTheTruth(run.seen) /\ BreaksAreInherited(run.seen)
        /\ run.seen.tip <= branch.tip
        /\ \A i \in 1 .. run.seen.tip : SuspectIn(run.seen, i) => Suspect(i)
    BY DEF SeenIsPast
  <1>2. run.seen.tip \in Nat /\ branch.tip \in Nat /\ branch'.tip \in Nat
    BY Bounds DEF TypeInv, TypeOK, TargetsExist, Branch
  <1> QED
    BY <1>1, <1>2 DEF SuspectsStay

\* Nobody accused is cleared by growth or by CI.
LEMMA AccusedStayAccused ==
  ASSUME branch \in Branch, branch' \in Branch, SuspectsStay,
         NEW i, Accused(i)
  PROVE  Accused(i)'
  <1>1. branch.tip \in Nat /\ branch'.tip \in Nat
    BY Bounds DEF Branch
  <1> QED
    BY <1>1 DEF SuspectsStay, Accused

\* The branch starts honest.
LEMMA InitIInv == Init => IInv
  <1> SUFFICES ASSUME Init PROVE IInv
    OBVIOUS
  <1>1. TypeInv
    BY InitTypeInv
  <1>2. /\ branch.tip = 1
        /\ \A i \in Pos : branch.at[i].live = {} /\ branch.at[i].undoes = 0
    BY NoCommitIsCommit, Bounds DEF Init, Commit
  <1>3. branch.at[1].ci = "success"
    BY NoCommitIsCommit, Bounds DEF Init, Commit
  <1>4. CITellsTheTruth(branch) /\ BreaksAreInherited(branch)
    BY <1>2, <1>3, Bounds DEF CITellsTheTruth, BreaksAreInherited, CI
  <1>5. run.pc = "idle" /\ ~ revert.open
    BY DEF Init, Idle, NoRevert
  <1> QED
    BY <1>1, <1>2, <1>4, <1>5 DEF IInv, SeenIsPast, AccusedAreSuspect

\* Deciding is where a revert is accused: its culprit is a suspect of what the
\* run has seen, and so still one.
LEMMA DecideKeepsIInv ==
  ASSUME IInv, Decide
  PROVE  SeenIsPast' /\ AccusedAreSuspect'
  <1>1. /\ run.seen \in Branch /\ run.pc = "recorded"
        /\ CITellsTheTruth(run.seen) /\ BreaksAreInherited(run.seen)
        /\ run.seen.tip <= branch.tip
        /\ \A i \in 1 .. run.seen.tip : SuspectIn(run.seen, i) => Suspect(i)
    BY DEF IInv, TypeInv, TargetsExist, SeenIsPast, Decide
  <1>2. PICK step \in {ReconcileStep(run.seen, revert)} :
           run' = [pc |-> "decided", seen |-> None, kind |-> step.kind, of |-> step.of]
    BY DEF Decide
  <1>3. ASSUME step.kind = "open-revert" PROVE Accused(step.of)
    <2>1. step.of \in Culprit(run.seen) /\ ~ IsInfra(run.seen)
      BY <1>1, <1>2, <1>3, DecidedStep
    <2>2. step.of \in 1 .. run.seen.tip /\ SuspectIn(run.seen, step.of)
      BY <1>1, <2>1, CulpritIsSuspect
    <2>3. run.seen.tip \in Nat /\ branch.tip \in Nat
      BY <1>1, Bounds DEF IInv, TypeInv, TypeOK, Branch
    <2> QED
      BY <1>1, <2>2, <2>3 DEF Accused
  <1>4. UNCHANGED <<branch, revert>>
    BY DEF Decide
  <1>5. run'.pc = "decided" /\ (run'.kind = "open-revert" => Accused(run'.of))
    BY <1>2, <1>3
  <1>6. SeenIsPast'
    BY <1>5 DEF SeenIsPast
  <1>7. AccusedAreSuspect'
    BY <1>4, <1>5 DEF IInv, AccusedAreSuspect, Accused, Suspect
  <1> QED
    BY <1>6, <1>7

\* A step that leaves the branch as it is.
LEMMA SameBranchKeepsIInv ==
  ASSUME IInv, TypeInv', UNCHANGED branch,
         \/ run' = run
         \/ run'.pc = "idle"
         \/ run'.pc = "recorded" /\ run'.seen = branch,
         \/ ~ revert'.open
         \/ revert'.open = revert.open /\ revert'.of = revert.of
         \/ run.pc = "decided" /\ run.kind = "open-revert" /\ revert'.of = run.of
  PROVE  IInv'
  <1>1. CITellsTheTruth(branch') /\ BreaksAreInherited(branch')
    BY DEF IInv
  <1>2. branch.tip \in Nat
    BY Bounds DEF IInv, TypeInv, TypeOK, Branch
  <1>3. SeenIsPast'
    BY <1>2 DEF IInv, SeenIsPast, Suspect
  <1>4. AccusedAreSuspect'
    <2>1. \A i : Accused(i)' <=> Accused(i)
      BY DEF Accused, Suspect
    <2> QED
      BY <2>1 DEF IInv, AccusedAreSuspect
  <1> QED
    BY <1>1, <1>3, <1>4 DEF IInv

\* A step of CI on commit i.
LEMMA JudgementKeepsIInv ==
  ASSUME IInv, TypeInv', NEW i \in Pos, Judged(i),
         i <= branch.tip => TrueAt(branch', i),
         OutageCheck \subseteq Marked,
         run' = run \/ run'.pc = "idle", UNCHANGED revert
  PROVE  IInv'
  <1>1. branch \in Branch /\ BranchIsHonest /\ branch' \in Branch
    BY DEF IInv, TypeInv, TypeOK, BranchIsHonest
  <1>2. /\ BranchIsHonest' /\ SuspectsStay
        /\ \A j \in Pos : branch'.at[j].undoes = branch.at[j].undoes
    BY <1>1, JudgementIsHonest
  <1>3. SeenIsPast'
    BY <1>1, <1>2, PastStaysPast DEF IInv
  <1>4. \A j : Accused(j) => Accused(j)'
    BY <1>1, <1>2, AccusedStayAccused
  <1>5. AccusedAreSuspect'
    BY <1>2, <1>4 DEF IInv, AccusedAreSuspect
  <1> QED
    BY <1>2, <1>3, <1>5 DEF IInv, BranchIsHonest

\* A commit lands; if it is a revert, it undoes an accused.
LEMMA GrowthKeepsIInv ==
  ASSUME IInv, TypeInv', NEW c \in Commit, branch.tip < MaxCommits, Grown(c),
         c.ci = "pending",
         c.live \subseteq Tree \cup {branch.tip + 1},
         branch.tip + 1 \in c.live \ Tree => c.change = "break",
         c.undoes # 0 => Accused(c.undoes),
         UNCHANGED run, UNCHANGED revert \/ ~ revert'.open
  PROVE  IInv'
  <1>1. branch \in Branch /\ BranchIsHonest /\ branch' \in Branch
    BY DEF IInv, TypeInv, TypeOK, BranchIsHonest
  <1>2. BranchIsHonest' /\ SuspectsStay
    BY <1>1, GrowthIsHonest
  <1>3. SeenIsPast'
    BY <1>1, <1>2, PastStaysPast DEF IInv
  <1>4. \A j : Accused(j) => Accused(j)'
    BY <1>1, <1>2, AccusedStayAccused
  <1>5. (\A i \in Pos : branch.at[i].undoes # 0 => Accused(branch.at[i].undoes))'
    <2> SUFFICES ASSUME NEW i \in Pos, branch'.at[i].undoes # 0
                 PROVE  Accused(branch.at[i].undoes)'
      OBVIOUS
    <2>1. CASE i = branch.tip + 1
      <3>1. branch'.at[i].undoes = c.undoes
        BY <2>1 DEF Grown
      <3> QED
        BY <1>4, <3>1
    <2>2. CASE i # branch.tip + 1
      <3>1. branch'.at[i].undoes = branch.at[i].undoes
        BY <2>2 DEF Grown
      <3> QED
        BY <1>4, <3>1 DEF IInv, AccusedAreSuspect
    <2> QED
      BY <2>1, <2>2
  <1>6. AccusedAreSuspect'
    BY <1>4, <1>5 DEF IInv, AccusedAreSuspect
  <1> QED
    BY <1>2, <1>3, <1>6 DEF IInv, BranchIsHonest

\* The steps of a reconcile run keep IInv.
LEMMA RunKeepsIInv ==
  ASSUME IInv, TypeInv', OutageCheck \subseteq Marked,
         Record \/ Decide \/ PerformStep \/ Die
  PROVE  IInv'
  <1>0. Idle.pc = "idle" /\ ~ NoRevert.open
    BY DEF Idle, NoRevert
  <1>1. CASE Record
    <2>1. run'.pc = "recorded" /\ run'.seen = branch
      BY <1>1 DEF Record, Idle
    <2> QED
      BY <1>1, <2>1, SameBranchKeepsIInv DEF Record
  <1>2. CASE Decide
    BY <1>2, DecideKeepsIInv DEF Decide, IInv
  <1>3. CASE Die \/ DoNothing \/ Refused \/ RaiseAttention
    BY <1>0, <1>3, SameBranchKeepsIInv DEF Die, DoNothing, Refused, RaiseAttention, Perform
  <1>4. CASE RerunFailedJobs
    <2>1. run.of \in Pos
      BY <1>4 DEF RerunFailedJobs, Perform, IInv, TypeInv, TargetsExist
    <2>2. Judged(run.of) /\ branch'.at[run.of].ci = "pending"
      BY <1>4, <2>1, RestartJudges DEF RerunFailedJobs, IInv, TypeInv, TypeOK
    <2>3. TrueAt(branch', run.of)
      BY <2>2 DEF TrueAt, CI
    <2> QED
      BY <1>0, <1>4, <2>1, <2>2, <2>3, JudgementKeepsIInv DEF RerunFailedJobs, Perform
  <1>5. CASE OpenRevert
    <2>1. run.pc = "decided" /\ run.kind = "open-revert" /\ run' = Idle
      BY <1>5 DEF OpenRevert, Perform
    <2>2. revert'.of = run.of
      BY <1>5 DEF OpenRevert, NoRevert
    <2> QED
      BY <1>0, <1>5, <2>1, <2>2, SameBranchKeepsIInv DEF OpenRevert
  <1>6. CASE ReleaseRevert
    <2>1. revert'.open = revert.open /\ revert'.of = revert.of
      BY <1>6 DEF ReleaseRevert, IInv, TypeInv, TypeOK, Revert
    <2> QED
      BY <1>0, <1>6, <2>1, SameBranchKeepsIInv DEF ReleaseRevert, Perform
  <1>7. CASE CloseRevert
    BY <1>0, <1>7, SameBranchKeepsIInv DEF CloseRevert, Perform
  <1> QED
    BY <1>1, <1>2, <1>3, <1>4, <1>5, <1>6, <1>7 DEF PerformStep

\* So do merges, CI and outages.
LEMMA ForgeKeepsIInv ==
  ASSUME IInv, TypeInv', OutageCheck \subseteq Marked,
         \/ \E shape \in Shape : Merge(shape)
         \/ LandRevert \/ SomeCI \/ Outage
  PROVE  IInv'
  <1>0. branch \in Branch /\ ~ NoRevert.open
    BY DEF IInv, TypeInv, TypeOK, NoRevert
  <1>1. ASSUME NEW shape \in Shape, Merge(shape) PROVE IInv'
    <2>1. PICK c \in Commit :
            /\ Grown(c) /\ c.undoes = 0 /\ c.ci = "pending"
            /\ c.live \subseteq Tree \cup {branch.tip + 1}
            /\ branch.tip + 1 \in c.live \ Tree => c.change = "break"
      BY <1>0, <1>1, MergeGrows
    <2>2. branch.tip < MaxCommits
      BY <1>0, <1>1, MergeGrows
    <2> QED
      BY <1>1, <2>1, <2>2, GrowthKeepsIInv DEF Merge
  <1>2. CASE LandRevert
    <2>1. revert.open /\ branch.tip < MaxCommits /\ revert' = NoRevert
      BY <1>2 DEF LandRevert
    <2>2. revert.of \in Pos /\ Accused(revert.of)
      BY <2>1 DEF IInv, TypeInv, TargetsExist, AccusedAreSuspect
    <2>3. PICK c \in Commit :
            /\ Grown(c) /\ c.undoes = revert.of /\ c.ci = "pending"
            /\ c.live \subseteq Tree
      BY <1>0, <1>2, <2>2, LandRevertGrows
    <2> QED
      BY <1>0, <1>2, <2>1, <2>2, <2>3, GrowthKeepsIInv DEF LandRevert
  <1>3. ASSUME NEW i \in Pos, FinishCI(i) PROVE IInv'
    <2>1. Judged(i) /\ TrueAt(branch', i)
      BY <1>3, FinishCIJudges DEF IInv, TypeInv
    <2> QED
      BY <1>3, <2>1, JudgementKeepsIInv DEF FinishCI
  <1>4. CASE FinishRevertCI
    <2>1. revert'.open = revert.open /\ revert'.of = revert.of
      BY <1>4 DEF FinishRevertCI, IInv, TypeInv, TypeOK, Revert
    <2> QED
      BY <1>4, <2>1, SameBranchKeepsIInv DEF FinishRevertCI
  <1>5. CASE Outage
    BY <1>5, SameBranchKeepsIInv DEF Outage
  <1> QED
    BY <1>1, <1>2, <1>3, <1>4, <1>5 DEF SomeCI

\* So do people.
LEMMA PeopleKeepIInv ==
  ASSUME IInv, TypeInv', OutageCheck \subseteq Marked, People
  PROVE  IInv'
  <1>0. branch \in Branch /\ ~ NoRevert.open
    BY DEF IInv, TypeInv, TypeOK, NoRevert
  <1>1. ASSUME NEW i \in Pos, Cancel(i) PROVE IInv'
    <2>1. Judged(i) /\ branch'.at[i].ci = "cancelled"
      BY <1>0, <1>1, ConcludeJudges DEF Cancel
    <2>2. TrueAt(branch', i)
      BY <2>1 DEF TrueAt, CI
    <2> QED
      BY <1>1, <2>1, <2>2, JudgementKeepsIInv DEF Cancel
  <1>2. ASSUME NEW i \in Pos, RerunByHand(i) PROVE IInv'
    <2>1. Judged(i) /\ branch'.at[i].ci = "pending"
      BY <1>0, <1>2, RestartJudges DEF RerunByHand
    <2>2. TrueAt(branch', i)
      BY <2>1 DEF TrueAt, CI
    <2> QED
      BY <1>2, <2>1, <2>2, JudgementKeepsIInv DEF RerunByHand
  <1>3. CASE CloseByHand
    BY <1>0, <1>3, SameBranchKeepsIInv DEF CloseByHand, OnRevert
  <1>4. CASE RetryRevert \/ Claim \/ Stall \/ PassHardCap
    <2>1. revert'.open = revert.open /\ revert'.of = revert.of
      BY <1>4 DEF RetryRevert, Claim, Stall, PassHardCap, OnRevert,
                  IInv, TypeInv, TypeOK, Revert
    <2> QED
      BY <1>4, <2>1, SameBranchKeepsIInv
         DEF RetryRevert, Claim, Stall, PassHardCap, OnRevert
  <1> QED
    BY <1>1, <1>2, <1>3, <1>4 DEF People

\* So does every step, when the outages are marked.
LEMMA NextIInv ==
  ASSUME OutageCheck \subseteq Marked
  PROVE  IInv /\ [Next]_vars => IInv'
  <1> SUFFICES ASSUME IInv, [Next]_vars PROVE IInv'
    OBVIOUS
  <1>0. TypeInv'
    BY NextTypeInv DEF IInv
  <1>1. CASE UNCHANGED vars
    BY <1>0, <1>1, SameBranchKeepsIInv DEF vars
  <1>2. CASE Record \/ Decide \/ PerformStep \/ Die
    BY <1>0, <1>2, RunKeepsIInv
  <1>3. CASE (\E shape \in Shape : Merge(shape)) \/ LandRevert \/ SomeCI \/ Outage
    BY <1>0, <1>3, ForgeKeepsIInv
  <1>4. CASE People
    BY <1>0, <1>4, PeopleKeepIInv
  <1> QED
    BY <1>1, <1>2, <1>3, <1>4 DEF Next

\* CI never lies unmarked, a past stays a past and only suspects are accused, on
\* a branch of any length, as long as every outage is a marked one.
THEOREM InductiveInvariant ==
  ASSUME OutageCheck \subseteq Marked
  PROVE  Spec => []IInv
  BY InitIInv, NextIInv, PTL DEF Spec

\* A revert that lands undoes a commit that broke the branch or that CI failed
\* for nothing: whatever CI, people and dying runs do between the record, the
\* decision and the step, torn records included.
THEOREM OnlySuspectsAreReverted ==
  ASSUME OutageCheck \subseteq Marked
  PROVE  Spec => []OnlySuspectsReverted
  <1>1. IInv => OnlySuspectsReverted
    BY DEF IInv, AccusedAreSuspect, Accused, OnlySuspectsReverted
  <1> QED
    BY <1>1, InductiveInvariant, PTL

(***************************************************************************)
(* No culprit is reverted twice.                                           *)
(***************************************************************************)

\* A revert is decided only when none is open, and not over a later commit of
\* the episode that changed the culprit's path.
LEMMA DecidedRevert ==
  ASSUME NEW b \in Branch, NEW rv, rv.open \in BOOLEAN,
         ReconcileStep(b, rv).kind = "open-revert"
  PROVE  /\ ~ rv.open
         /\ ReconcileStep(b, rv).of \in Culprit(b)
         /\ ~ RevertRefused(b, ReconcileStep(b, rv).of)
  <1> DEFINE revertable ==
        {c \in Culprit(b) : b.at[c].pull /\ ~ b.at[c].release /\ ~ RevertRefused(b, c)}
  <1>1. RedVerdict(b) \notin {"green", "flake", "infra", "unclassified"} /\ ~ rv.open
    BY DEF ReconcileStep, GreenBranchStep, RevertInFlightStep, NothingOwed, Raise, Do
  <1>2. ReconcileStep(b, rv) = RegressionStep(b)
    BY <1>1 DEF ReconcileStep
  <1>3. revertable # {}
    BY <1>2 DEF RegressionStep, Raise, Do
  <1>4. ReconcileStep(b, rv) = Do("open-revert", CHOOSE c \in revertable : TRUE)
    BY <1>2, <1>3 DEF RegressionStep
  <1>5. ReconcileStep(b, rv).of \in revertable
    BY <1>3, <1>4 DEF Do
  <1> QED
    BY <1>1, <1>5

\* The landed revert of a culprit is such a commit, however far below the
\* record ends.
LEMMA UndoneIsRefused ==
  ASSUME TypeOK, UndoneBelow, NEW c \in Culprit(branch), ~ RevertRefused(branch, c)
  PROVE  c \in 1 .. branch.tip /\ NotUndone(c)
  <1>0. branch \in Branch
    BY DEF TypeOK
  <1>1. /\ c \in RedBlock(branch) /\ c \in 2 .. branch.tip
        /\ c \in AboveGreen(branch) \cap Failed(branch)
    BY <1>0, CulpritFailedAboveGreen DEF RedBlock
  <1> SUFFICES ASSUME NEW i \in Pos, branch.at[i].undoes = c PROVE FALSE
    BY <1>0, <1>1, Bounds DEF NotUndone, Branch
  <1>2. c < i /\ i <= branch.tip /\ branch.at[i].path = branch.at[c].path
    BY <1>0, <1>1, Bounds DEF UndoneBelow, Branch
  <1>3. branch.tip \in Nat /\ Window \in Nat /\ c \in Nat /\ i \in Nat
    BY <1>0, <1>1, Bounds DEF Branch
  <1>4. i \in Visible(branch)
    BY <1>1, <1>2, <1>3 DEF AboveGreen, Visible
  <1>5. \A g \in Green(branch) : g < i
    <2> SUFFICES ASSUME NEW g \in Green(branch) PROVE g < i
      OBVIOUS
    <2>1. g < c /\ g \in Nat
      BY <1>1, Bounds DEF AboveGreen, Green, Visible
    <2> QED
      BY <1>2, <1>3, <2>1
  <1>6. i \in RedBlock(branch)
    BY <1>1, <1>2, <1>4, <1>5 DEF RedBlock, AboveGreen
  <1> QED
    BY <1>2, <1>6 DEF RevertRefused

\* A step that leaves the branch as it is and opens only what was decided.
LEMMA SameBranchKeepsOnce ==
  ASSUME OnceInv, UNCHANGED branch,
         run' = run \/ run'.pc # "decided",
         \/ ~ revert'.open
         \/ revert'.open = revert.open /\ revert'.of = revert.of
         \/ run.pc = "decided" /\ run.kind = "open-revert"
            /\ run'.pc # "decided" /\ revert'.of = run.of
  PROVE  UndoneBelow' /\ RevertsAreFresh'
  <1>1. UndoneBelow'
    BY DEF OnceInv, UndoneBelow
  <1>2. \A c : NotUndone(c)' <=> NotUndone(c)
    BY DEF NotUndone
  <1> QED
    BY <1>1, <1>2 DEF OnceInv, RevertsAreFresh

\* A step of CI on commit i.
LEMMA JudgementKeepsOnce ==
  ASSUME OnceInv, NEW i \in Pos, Judged(i),
         run' = run \/ run'.pc # "decided", UNCHANGED revert
  PROVE  UndoneBelow' /\ RevertsAreFresh'
  <1>0. branch.tip \in Pos /\ branch'.tip = branch.tip
    BY DEF OnceInv, TypeInv, TypeOK, Branch, Judged
  <1>1. \A j \in Pos : /\ branch'.at[j].undoes = branch.at[j].undoes
                       /\ branch'.at[j].path = branch.at[j].path
    BY DEF Judged
  <1>2. \A c : NotUndone(c)' <=> NotUndone(c)
    BY <1>1 DEF NotUndone
  <1>3. UndoneBelow'
    <2> SUFFICES ASSUME NEW j \in Pos, branch'.at[j].undoes # 0
                 PROVE  /\ branch'.at[j].undoes \in 1 .. j - 1 /\ j <= branch'.tip
                        /\ branch'.at[j].path = branch'.at[branch'.at[j].undoes].path
      BY DEF UndoneBelow
    <2>1. /\ branch.at[j].undoes \in 1 .. j - 1 /\ j <= branch.tip
          /\ branch.at[j].path = branch.at[branch.at[j].undoes].path
      BY <1>1 DEF OnceInv, UndoneBelow
    <2>2. branch.at[j].undoes \in Pos
      BY <2>1, Bounds
    <2> QED
      BY <1>0, <1>1, <2>1, <2>2
  <1> QED
    BY <1>0, <1>2, <1>3 DEF OnceInv, RevertsAreFresh

\* A commit lands; if it is a revert, it is the open one, and that is closed.
LEMMA GrowthKeepsOnce ==
  ASSUME OnceInv, NEW c \in Commit, branch.tip < MaxCommits, Grown(c),
         UNCHANGED run,
         \/ c.undoes = 0 /\ UNCHANGED revert
         \/ /\ revert.open /\ ~ revert'.open
            /\ c.undoes = revert.of /\ c.path = branch.at[revert.of].path
  PROVE  UndoneBelow' /\ RevertsAreFresh'
  <1> DEFINE n == branch.tip + 1
  <1>0. branch.tip \in Pos /\ n \in Pos /\ branch'.tip = n
    BY Bounds DEF OnceInv, TypeInv, TypeOK, Branch, Grown
  <1>1. branch'.at[n] = c /\ \A j \in Pos \ {n} : branch'.at[j] = branch.at[j]
    BY DEF Grown
  <1>2. revert.open => revert.of \in 1 .. branch.tip /\ revert.of \in Pos \ {n}
    BY <1>0, Bounds DEF OnceInv, RevertsAreFresh
  <1>3. UndoneBelow'
    <2> SUFFICES ASSUME NEW j \in Pos, branch'.at[j].undoes # 0
                 PROVE  /\ branch'.at[j].undoes \in 1 .. j - 1 /\ j <= branch'.tip
                        /\ branch'.at[j].path = branch'.at[branch'.at[j].undoes].path
      BY DEF UndoneBelow
    <2>1. CASE j = n
      BY <1>0, <1>1, <1>2, <2>1
    <2>2. CASE j # n
      <3>1. branch'.at[j] = branch.at[j]
        BY <1>1, <2>2
      <3>2. /\ branch.at[j].undoes \in 1 .. j - 1 /\ j <= branch.tip
            /\ branch.at[j].path = branch.at[branch.at[j].undoes].path
        BY <3>1 DEF OnceInv, UndoneBelow
      <3>3. branch.at[j].undoes \in Pos \ {n}
        BY <1>0, <3>2, Bounds
      <3> QED
        BY <1>0, <1>1, <3>1, <3>2, <3>3
    <2> QED
      BY <2>1, <2>2
  <1>4. ASSUME NEW d, NotUndone(d), c.undoes # d PROVE NotUndone(d)'
    BY <1>1, <1>4 DEF NotUndone
  <1>5. ASSUME run.pc = "decided", run.kind = "open-revert"
        PROVE  ~ revert'.open /\ run.of \in 1 .. branch'.tip /\ NotUndone(run.of)'
    <2>1. ~ revert.open /\ run.of \in 1 .. branch.tip /\ NotUndone(run.of)
      BY <1>5 DEF OnceInv, RevertsAreFresh
    <2>2. c.undoes = 0 /\ revert' = revert
      BY <2>1
    <2> QED
      BY <1>0, <1>4, <2>1, <2>2
  <1>6. ASSUME revert'.open
        PROVE  revert'.of \in 1 .. branch'.tip /\ NotUndone(revert.of)'
    <2>1. c.undoes = 0 /\ revert' = revert
      BY <1>6
    <2>2. revert.of \in 1 .. branch.tip /\ NotUndone(revert.of)
      BY <1>6, <2>1 DEF OnceInv, RevertsAreFresh
    <2> QED
      BY <1>0, <1>4, <2>1, <2>2
  <1> QED
    BY <1>3, <1>5, <1>6 DEF RevertsAreFresh

\* The steps of a reconcile run keep OnceInv when it records one moment.
LEMMA RunKeepsOnce ==
  ASSUME OnceInv, ~ TornRead, Record \/ Decide \/ PerformStep \/ Die
  PROVE  UndoneBelow' /\ RevertsAreFresh'
  <1>0. Idle.pc = "idle" /\ ~ NoRevert.open
    BY DEF Idle, NoRevert
  <1>1. CASE Record
    <2>1. run'.pc = "recorded"
      BY <1>1 DEF Record, Idle
    <2> QED
      BY <1>1, <2>1, SameBranchKeepsOnce DEF Record
  <1>2. CASE Decide
    <2>1. run.seen = branch /\ branch \in Branch /\ revert.open \in BOOLEAN
      BY <1>2 DEF Decide, OnceInv, TypeInv, TypeOK, Revert
    <2>2. /\ run'.kind = ReconcileStep(branch, revert).kind
          /\ run'.of = ReconcileStep(branch, revert).of
          /\ UNCHANGED <<branch, revert>>
      BY <1>2, <2>1 DEF Decide
    <2>3. ASSUME run'.kind = "open-revert"
          PROVE  ~ revert.open /\ run'.of \in 1 .. branch.tip /\ NotUndone(run'.of)
      <3> DEFINE step == ReconcileStep(branch, revert)
      <3>1. step.kind = "open-revert"
        BY <2>2, <2>3
      <3>2. /\ ~ revert.open /\ step.of \in Culprit(branch)
            /\ ~ RevertRefused(branch, step.of)
        BY <2>1, <3>1, DecidedRevert
      <3> HIDE DEF step
      <3>3. step.of \in 1 .. branch.tip /\ NotUndone(step.of)
        BY <3>2, UndoneIsRefused DEF OnceInv, TypeInv
      <3> QED
        BY <2>2, <3>2, <3>3 DEF step
    <2>4. \A d : NotUndone(d)' <=> NotUndone(d)
      BY <2>2 DEF NotUndone
    <2>5. UndoneBelow'
      BY <2>2 DEF OnceInv, UndoneBelow
    <2> QED
      BY <2>2, <2>3, <2>4, <2>5 DEF OnceInv, RevertsAreFresh
  <1>3. CASE Die \/ DoNothing \/ Refused \/ RaiseAttention
    BY <1>0, <1>3, SameBranchKeepsOnce DEF Die, DoNothing, Refused, RaiseAttention, Perform
  <1>4. CASE RerunFailedJobs
    <2>1. run.of \in Pos
      BY <1>4 DEF RerunFailedJobs, Perform, OnceInv, TypeInv, TargetsExist
    <2>2. Judged(run.of)
      BY <1>4, <2>1, RestartJudges DEF RerunFailedJobs, OnceInv, TypeInv, TypeOK
    <2> QED
      BY <1>0, <1>4, <2>1, <2>2, JudgementKeepsOnce DEF RerunFailedJobs, Perform
  <1>5. CASE OpenRevert
    <2>1. run.pc = "decided" /\ run.kind = "open-revert" /\ run' = Idle
      BY <1>5 DEF OpenRevert, Perform
    <2>2. revert'.of = run.of
      BY <1>5 DEF OpenRevert, NoRevert
    <2> QED
      BY <1>0, <1>5, <2>1, <2>2, SameBranchKeepsOnce DEF OpenRevert
  <1>6. CASE ReleaseRevert
    <2>1. revert'.open = revert.open /\ revert'.of = revert.of
      BY <1>6 DEF ReleaseRevert, OnceInv, TypeInv, TypeOK, Revert
    <2> QED
      BY <1>0, <1>6, <2>1, SameBranchKeepsOnce DEF ReleaseRevert, Perform
  <1>7. CASE CloseRevert
    BY <1>0, <1>7, SameBranchKeepsOnce DEF CloseRevert, Perform
  <1> QED
    BY <1>1, <1>2, <1>3, <1>4, <1>5, <1>6, <1>7 DEF PerformStep

\* So do merges, CI and outages.
LEMMA ForgeKeepsOnce ==
  ASSUME OnceInv,
         \/ \E shape \in Shape : Merge(shape)
         \/ LandRevert \/ SomeCI \/ Outage
  PROVE  UndoneBelow' /\ RevertsAreFresh'
  <1>0. branch \in Branch /\ ~ NoRevert.open
    BY DEF OnceInv, TypeInv, TypeOK, NoRevert
  <1>1. ASSUME NEW shape \in Shape, Merge(shape) PROVE UndoneBelow' /\ RevertsAreFresh'
    <2>1. branch.tip < MaxCommits /\ \E c \in Commit : Grown(c) /\ c.undoes = 0
      BY <1>0, <1>1, MergeGrows
    <2> QED
      BY <1>1, <2>1, GrowthKeepsOnce DEF Merge
  <1>2. CASE LandRevert
    <2>1. revert.open /\ branch.tip < MaxCommits /\ revert' = NoRevert
      BY <1>2 DEF LandRevert
    <2>2. revert.of \in Pos
      BY <2>1 DEF OnceInv, TypeInv, TargetsExist
    <2>3. \E c \in Commit :
            Grown(c) /\ c.undoes = revert.of /\ c.path = branch.at[revert.of].path
      BY <1>0, <1>2, <2>2, LandRevertGrows
    <2> QED
      BY <1>0, <1>2, <2>1, <2>3, GrowthKeepsOnce DEF LandRevert
  <1>3. ASSUME NEW i \in Pos, FinishCI(i) PROVE UndoneBelow' /\ RevertsAreFresh'
    <2>1. Judged(i)
      BY <1>3, FinishCIJudges DEF OnceInv, TypeInv
    <2> QED
      BY <1>3, <2>1, JudgementKeepsOnce DEF FinishCI
  <1>4. CASE FinishRevertCI
    <2>1. revert'.open = revert.open /\ revert'.of = revert.of
      BY <1>4 DEF FinishRevertCI, OnceInv, TypeInv, TypeOK, Revert
    <2> QED
      BY <1>4, <2>1, SameBranchKeepsOnce DEF FinishRevertCI
  <1>5. CASE Outage
    BY <1>5, SameBranchKeepsOnce DEF Outage
  <1> QED
    BY <1>1, <1>2, <1>3, <1>4, <1>5 DEF SomeCI

\* So do people.
LEMMA PeopleKeepOnce ==
  ASSUME OnceInv, People
  PROVE  UndoneBelow' /\ RevertsAreFresh'
  <1>0. branch \in Branch /\ ~ NoRevert.open
    BY DEF OnceInv, TypeInv, TypeOK, NoRevert
  <1>1. ASSUME NEW i \in Pos, Cancel(i) \/ RerunByHand(i)
        PROVE  UndoneBelow' /\ RevertsAreFresh'
    <2>1. Judged(i)
      BY <1>0, <1>1, ConcludeJudges, RestartJudges DEF Cancel, RerunByHand
    <2> QED
      BY <1>1, <2>1, JudgementKeepsOnce DEF Cancel, RerunByHand
  <1>2. CASE CloseByHand
    BY <1>0, <1>2, SameBranchKeepsOnce DEF CloseByHand, OnRevert
  <1>3. CASE RetryRevert \/ Claim \/ Stall \/ PassHardCap
    <2>1. revert'.open = revert.open /\ revert'.of = revert.of
      BY <1>3 DEF RetryRevert, Claim, Stall, PassHardCap, OnRevert,
                  OnceInv, TypeInv, TypeOK, Revert
    <2> QED
      BY <1>3, <2>1, SameBranchKeepsOnce
         DEF RetryRevert, Claim, Stall, PassHardCap, OnRevert
  <1> QED
    BY <1>1, <1>2, <1>3 DEF People

\* The branch starts with no revert; every step keeps OnceInv.
LEMMA InitOnceInv == Init => OnceInv
  <1> SUFFICES ASSUME Init PROVE OnceInv
    OBVIOUS
  <1>1. \A i \in Pos : branch.at[i].undoes = 0
    BY NoCommitIsCommit, Bounds DEF Init, Commit
  <1>2. run.pc = "idle" /\ ~ revert.open
    BY DEF Init, Idle, NoRevert
  <1> QED
    BY <1>1, <1>2, InitTypeInv DEF OnceInv, UndoneBelow, RevertsAreFresh

\* Every step keeps it.
LEMMA NextOnceInv ==
  ASSUME ~ TornRead
  PROVE  OnceInv /\ [Next]_vars => OnceInv'
  <1> SUFFICES ASSUME OnceInv, [Next]_vars PROVE UndoneBelow' /\ RevertsAreFresh'
    BY NextTypeInv DEF OnceInv
  <1>1. CASE UNCHANGED vars
    BY <1>1, SameBranchKeepsOnce DEF vars
  <1>2. CASE Record \/ Decide \/ PerformStep \/ Die
    BY <1>2, RunKeepsOnce
  <1>3. CASE (\E shape \in Shape : Merge(shape)) \/ LandRevert \/ SomeCI \/ Outage
    BY <1>3, ForgeKeepsOnce
  <1>4. CASE People
    BY <1>4, PeopleKeepOnce
  <1> QED
    BY <1>1, <1>2, <1>3, <1>4 DEF Next

\* For records of one moment, no revert is open for a commit that a landed revert
\* has undone, whatever CI, people and dying runs do: on a branch of any length, the
\* overlap of paths alone is enough of a guard, although the guard's own marker is
\* never in the subjects the forge writes.
THEOREM CulpritsAreRevertedOnce ==
  ASSUME ~ TornRead
  PROVE  Spec => []OneRevertPerCulprit
  <1>1. OnceInv => OneRevertPerCulprit
    BY DEF OnceInv, RevertsAreFresh, NotUndone, OneRevertPerCulprit
  <1> QED
    BY <1>1, InitOnceInv, NextOnceInv, PTL DEF Spec

(***************************************************************************)
(* Innocents cost flakes.                                                  *)
(***************************************************************************)

\* The flaked commits of a branch are finitely many, and so are those of a set
\* that adds one of them.
LEMMA FlakedAreFew ==
  ASSUME NEW S \in SUBSET Pos
  PROVE  /\ IsFiniteSet(S) /\ Cardinality(S) \in Nat
         /\ \A T \in SUBSET S : Cardinality(T) <= Cardinality(S)
         /\ \A i \in Pos : Cardinality(S \cup {i}) <= Cardinality(S) + 1
  <1>1. IsFiniteSet(Pos)
    BY FS_Interval, Bounds
  <1>2. IsFiniteSet(S)
    BY <1>1, FS_Subset
  <1>3. Cardinality(S) \in Nat
    BY <1>2, FS_CardinalityType
  <1>4. \A T \in SUBSET S : Cardinality(T) <= Cardinality(S)
    BY <1>2, FS_Subset
  <1>5. \A i \in Pos : Cardinality(S \cup {i}) <= Cardinality(S) + 1
    <2> TAKE i \in Pos
    <2>1. Cardinality(S \cup {i}) = IF i \in S THEN Cardinality(S) ELSE Cardinality(S) + 1
      BY <1>2, FS_AddElement
    <2> QED
      BY <1>3, <2>1
  <1> QED
    BY <1>2, <1>3, <1>4, <1>5

\* A step that flakes on no new commit and forgets no flake.
LEMMA NoNewFlake ==
  ASSUME TypeOK, FlakesAreCounted, Flaked' \subseteq Flaked, UNCHANGED flakes
  PROVE  FlakesAreCounted'
  <1>1. Flaked \in SUBSET Pos /\ Flaked' \in SUBSET Flaked
    BY DEF Flaked
  <1>2. Cardinality(Flaked') <= Cardinality(Flaked)
    BY <1>1, FlakedAreFew
  <1>3. Cardinality(Flaked) \in Nat /\ Cardinality(Flaked') \in Nat /\ flakes \in Nat
    BY <1>1, FlakedAreFew, Bounds DEF TypeOK
  <1> QED
    BY <1>2, <1>3 DEF FlakesAreCounted

\* A commit that lands has not flaked yet.
LEMMA GrowthFlakesNot ==
  ASSUME branch \in Branch, branch.tip < MaxCommits, NEW c, Grown(c), ~ c.flaked
  PROVE  Flaked' \subseteq Flaked
  <1>1. branch.tip + 1 \in Pos
    BY Bounds DEF Branch
  <1> QED
    BY <1>1 DEF Grown, Flaked

\* A flake is counted, on whichever commit it happens; CI has no other way to
\* fail a commit for nothing.
LEMMA FinishCICounts ==
  ASSUME TypeOK, FlakesAreCounted, NEW i \in Pos, FinishCI(i)
  PROVE  FlakesAreCounted'
  <1>0. branch \in Branch
    BY DEF TypeOK
  <1>1. CASE Pass(i)
    <2>1. Conclude(i, "success", None) /\ UNCHANGED flakes
      BY <1>1 DEF Pass
    <2> QED
      BY <1>0, <2>1, ConcludeJudges, NoNewFlake
  <1>2. CASE Fail(i) \/ FailInOutage(i)
    <2>1. PICK check \in Check : Conclude(i, "failure", check)
      BY <1>2, CheckAssumption DEF Fail, FailInOutage
    <2>2. UNCHANGED flakes
      BY <1>2 DEF Fail, FailInOutage
    <2> QED
      BY <1>0, <2>1, <2>2, ConcludeJudges, NoNewFlake
  <1>3. CASE Flake(i)
    <2>1. PICK check : branch' = [branch EXCEPT !.at[i].ci = "failure", !.at[i].check = check,
                                                !.at[i].flaked = TRUE]
      BY <1>3 DEF Flake
    <2>2. \A j \in Pos \ {i} : branch'.at[j] = branch.at[j]
      BY <1>0, <2>1 DEF Branch
    <2>3. Flaked' \subseteq Flaked \cup {i}
      BY <2>2 DEF Flaked
    <2>4. Flaked \in SUBSET Pos /\ Flaked \cup {i} \in SUBSET Pos
      BY DEF Flaked
    <2>5. Flaked' \in SUBSET (Flaked \cup {i})
      BY <2>3
    <2>6. Cardinality(Flaked') <= Cardinality(Flaked \cup {i})
      BY <2>4, <2>5, FlakedAreFew
    <2>7. Cardinality(Flaked \cup {i}) <= Cardinality(Flaked) + 1
      BY <2>4, FlakedAreFew
    <2>8. Flaked' \in SUBSET Pos
      BY <2>4, <2>5
    <2>9. /\ Cardinality(Flaked) \in Nat /\ Cardinality(Flaked') \in Nat
          /\ Cardinality(Flaked \cup {i}) \in Nat
      BY <2>4, <2>8, FlakedAreFew
    <2>10. flakes' = flakes + 1 /\ flakes \in Nat
      BY <1>3, Bounds DEF Flake, TypeOK
    <2> QED
      BY <2>6, <2>7, <2>9, <2>10 DEF FlakesAreCounted
  <1> QED
    BY <1>1, <1>2, <1>3 DEF FinishCI

\* Every step counts: a flake once, and nothing else ever.
LEMMA NextFlakesAreCounted ==
  ASSUME TypeInv, FlakesAreCounted, [Next]_vars
  PROVE  FlakesAreCounted'
  <1>0. TypeOK /\ branch \in Branch
    BY DEF TypeInv, TypeOK
  <1>1. ASSUME UNCHANGED <<branch, flakes>> PROVE FlakesAreCounted'
    BY <1>1 DEF FlakesAreCounted, Flaked
  <1>2. CASE Record \/ Decide \/ Die \/ DoNothing \/ Refused \/ RaiseAttention
    BY <1>1, <1>2 DEF Record, Decide, Die, DoNothing, Refused, RaiseAttention, Perform
  <1>3. CASE OpenRevert \/ ReleaseRevert \/ CloseRevert
    BY <1>1, <1>3 DEF OpenRevert, ReleaseRevert, CloseRevert, Perform
  <1>4. CASE RerunFailedJobs
    <2>1. run.of \in Pos
      BY <1>4 DEF RerunFailedJobs, Perform, TypeInv, TargetsExist
    <2>2. Restart(run.of) /\ UNCHANGED flakes
      BY <1>4 DEF RerunFailedJobs, Perform
    <2> QED
      BY <1>0, <2>1, <2>2, RestartJudges, NoNewFlake
  <1>5. ASSUME NEW shape \in Shape, Merge(shape) PROVE FlakesAreCounted'
    <2>1. branch.tip < MaxCommits /\ \E c \in Commit : Grown(c) /\ ~ c.flaked
      BY <1>0, <1>5, MergeGrows
    <2>2. Flaked' \subseteq Flaked
      BY <1>0, <2>1, GrowthFlakesNot
    <2> QED
      BY <1>0, <1>5, <2>2, NoNewFlake DEF Merge
  <1>6. CASE LandRevert
    <2>1. revert.of \in Pos
      BY <1>6 DEF LandRevert, TypeInv, TargetsExist
    <2>2. branch.tip < MaxCommits /\ \E c \in Commit : Grown(c) /\ ~ c.flaked
      BY <1>0, <1>6, <2>1, LandRevertGrows DEF LandRevert
    <2>3. Flaked' \subseteq Flaked
      BY <1>0, <2>2, GrowthFlakesNot
    <2> QED
      BY <1>0, <1>6, <2>3, NoNewFlake DEF LandRevert
  <1>7. ASSUME NEW i \in Pos, FinishCI(i) PROVE FlakesAreCounted'
    BY <1>0, <1>7, FinishCICounts
  <1>8. CASE FinishRevertCI \/ Outage
    BY <1>1, <1>8 DEF FinishRevertCI, Outage
  <1>9. ASSUME NEW i \in Pos, Cancel(i) \/ RerunByHand(i) PROVE FlakesAreCounted'
    <2>1. UNCHANGED flakes
      BY <1>9 DEF Cancel, RerunByHand
    <2>2. Flaked' \subseteq Flaked
      BY <1>0, <1>9, ConcludeJudges, RestartJudges DEF Cancel, RerunByHand
    <2> QED
      BY <1>0, <2>1, <2>2, NoNewFlake
  <1>10. CASE CloseByHand \/ RetryRevert \/ Claim \/ Stall \/ PassHardCap
    BY <1>1, <1>10 DEF CloseByHand, RetryRevert, Claim, Stall, PassHardCap, OnRevert
  <1>11. CASE UNCHANGED vars
    BY <1>1, <1>11 DEF vars
  <1> QED
    BY <1>2, <1>3, <1>4, <1>5, <1>6, <1>7, <1>8, <1>9, <1>10, <1>11
       DEF Next, PerformStep, SomeCI, People

\* Nothing has flaked on the first commit.
LEMMA InitFlakesAreCounted == Init => FlakesAreCounted
  <1> SUFFICES ASSUME Init PROVE FlakesAreCounted
    OBVIOUS
  <1>1. \A i \in Pos : ~ branch.at[i].flaked
    BY NoCommitIsCommit, Bounds DEF Init, Commit
  <1>2. Flaked = {}
    BY <1>1 DEF Flaked
  <1> QED
    BY <1>2, FS_EmptySet DEF FlakesAreCounted, Init

\* Of the branch never more innocent commits are reverted than CI failed for
\* nothing, whatever is repeated, torn, cancelled or killed: on a branch of any
\* length, as long as every outage is a marked one.
THEOREM InnocentsArePaidFor ==
  ASSUME OutageCheck \subseteq Marked
  PROVE  Spec => []InnocentsCostFlakes
  <1>1. IInv /\ FlakesAreCounted => InnocentsCostFlakes
    <2> SUFFICES ASSUME IInv, FlakesAreCounted PROVE InnocentsCostFlakes
      OBVIOUS
    <2>1. Innocents \subseteq Flaked
      <3> SUFFICES ASSUME NEW c \in Innocents PROVE c \in Flaked
        OBVIOUS
      <3>1. PICK i \in Pos : branch.at[i].undoes = c
        BY DEF Innocents
      <3>2. c \in Pos /\ c # 0 /\ branch.at[c].change # "break"
        BY Bounds DEF Innocents
      <3>3. Accused(c)
        BY <3>1, <3>2 DEF IInv, AccusedAreSuspect
      <3> QED
        BY <3>2, <3>3 DEF Accused, Suspect, SuspectIn, Flaked
    <2>2. Innocents \in SUBSET Flaked /\ Flaked \in SUBSET Pos /\ Innocents \in SUBSET Pos
      BY <2>1 DEF Flaked
    <2>3. Cardinality(Innocents) <= Cardinality(Flaked)
      BY <2>2, FlakedAreFew
    <2>4. Cardinality(Innocents) \in Nat /\ Cardinality(Flaked) \in Nat /\ flakes \in Nat
      BY <2>2, FlakedAreFew, Bounds DEF IInv, TypeInv, TypeOK
    <2> QED
      BY <2>3, <2>4 DEF FlakesAreCounted, InnocentsCostFlakes
  <1>2. TypeInv /\ FlakesAreCounted /\ [Next]_vars => FlakesAreCounted'
    BY NextFlakesAreCounted
  <1>3. IInv => TypeInv
    BY DEF IInv
  <1> QED
    BY <1>1, <1>2, <1>3, InitFlakesAreCounted, InductiveInvariant, PTL DEF Spec

\* So what the document says of the branch, that no flake produces a merged
\* revert, is true of the code as far as it can be: where CI never fails a commit
\* for nothing, only commits that broke the branch are reverted.
THEOREM WithoutFlakesNoInnocent ==
  ASSUME OutageCheck \subseteq Marked, MaxFlakes = 0
  PROVE  Spec => []NoInnocentReverted
  <1>1. TypeInv /\ IInv /\ InnocentsCostFlakes => NoInnocentReverted
    <2> SUFFICES ASSUME TypeInv, IInv, InnocentsCostFlakes,
                        NEW i \in Pos, branch.at[i].undoes # 0
                 PROVE  branch.at[branch.at[i].undoes].change = "break"
      BY DEF NoInnocentReverted
    <2>1. flakes = 0
      BY DEF TypeInv, TypeOK
    <2>2. Innocents \in SUBSET Pos
      BY DEF Innocents
    <2>3. IsFiniteSet(Innocents) /\ Cardinality(Innocents) = 0
      BY <2>1, <2>2, FlakedAreFew DEF InnocentsCostFlakes
    <2>4. Innocents = {}
      BY <2>3, FS_EmptySet
    <2>5. branch.at[i].undoes \in Pos
      BY Bounds DEF IInv, AccusedAreSuspect, Accused, TypeInv, TypeOK, Branch
    <2> QED
      BY <2>4, <2>5 DEF Innocents
  <1>2. IInv => TypeInv
    BY DEF IInv
  <1> QED
    BY <1>1, <1>2, InductiveInvariant, InnocentsArePaidFor, PTL

(***************************************************************************)
(* A revert is closed only above a green commit, when CI is left alone.    *)
(***************************************************************************)

\* A record that reaches the start of the branch and reads as green has a green
\* commit above each one that failed.
LEMMA GreenAboveTheFailed ==
  ASSUME NEW b \in Branch, RedBlock(b) = {}, NEW c, RedFrom(b, c), Window >= MaxCommits
  PROVE  \E g \in c + 1 .. b.tip : CI(b, g) = "success"
  <1>1. b.tip \in 1 .. MaxCommits /\ c \in 1 .. b.tip /\ CI(b, c) = "failure"
    BY DEF Branch, RedFrom
  <1>2. c \in Visible(b) /\ c \in Failed(b)
    BY <1>1, Bounds DEF Visible, Failed
  <1>3. c \notin AboveGreen(b)
    <2> SUFFICES ASSUME c \in AboveGreen(b) PROVE FALSE
      OBVIOUS
    <2>1. c \in RedBlock(b)
      BY <1>1, <1>2 DEF RedBlock
    <2> QED
      BY <2>1
  <1>4. PICK g \in Green(b) : ~ (g < c)
    BY <1>2, <1>3 DEF AboveGreen
  <1>5. g \in Pos /\ g <= b.tip /\ CI(b, g) = "success"
    BY DEF Green, Visible
  <1>6. g # c
    BY <1>1, <1>5
  <1> QED
    BY <1>1, <1>4, <1>5, <1>6, Bounds

\* The step table closes a revert only on a green record, and repeats jobs only
\* when no revert is open.
LEMMA DecidedBesideARevert ==
  ASSUME NEW b \in Branch, NEW rv
  PROVE  /\ ReconcileStep(b, rv).kind = "close-revert" => RedBlock(b) = {}
         /\ ReconcileStep(b, rv).kind = "rerun-failed-jobs" => ~ rv.open
  <1>1. CASE RedVerdict(b) = "green"
    <2>1. RedBlock(b) = {}
      BY <1>1 DEF RedVerdict, RerunOutcome
    <2> QED
      BY <1>1, <2>1 DEF ReconcileStep, GreenBranchStep, NothingOwed, Do
  <1>2. CASE RedVerdict(b) \in {"flake", "infra"}
    BY <1>2 DEF ReconcileStep, Raise, Do
  <1>3. CASE RedVerdict(b) \notin {"green", "flake", "infra"} /\ rv.open
    BY <1>3 DEF ReconcileStep, RevertInFlightStep, NothingOwed, Raise, Do
  <1>4. CASE RedVerdict(b) \notin {"green", "flake", "infra"} /\ ~ rv.open
    BY <1>4 DEF ReconcileStep, RegressionStep, Raise, Do
  <1> QED
    BY <1>1, <1>2, <1>3, <1>4

\* A verdict of CI, once given, stands.
Settled ==
    /\ branch'.tip >= branch.tip
    /\ \A j \in 1 .. branch.tip :
          CI(branch, j) \in {"success", "failure"} => CI(branch', j) = CI(branch, j)

\* A step that lets verdicts stand, opens no revert and decides nothing.
LEMMA SettledKeepsRed ==
  ASSUME RedInv, TypeInv', Settled,
         run' = run \/ run'.pc = "idle",
         revert'.open => revert.open /\ revert'.of = revert.of
  PROVE  VerdictsStand' /\ CulpritsStayRed'
  <1>0. /\ branch.tip \in Nat /\ branch'.tip \in Nat /\ branch'.tip >= branch.tip
        /\ run.pc = "recorded" => run.seen.tip \in Nat
    BY Bounds DEF RedInv, TypeInv, TypeOK, TargetsExist, Branch, Settled
  <1>1. ASSUME NEW c, RedFrom(branch, c) PROVE RedFrom(branch', c)
    BY <1>0, <1>1 DEF RedFrom, Settled
  <1>3. VerdictsStand'
    <2> SUFFICES ASSUME run'.pc = "recorded"
                 PROVE  /\ run.seen.tip <= branch'.tip
                        /\ \A i \in 1 .. run.seen.tip :
                              CI(run.seen, i) \in {"success", "failure"}
                                 => CI(branch', i) = CI(run.seen, i)
                        /\ revert'.open => RedFrom(run.seen, revert'.of)
      BY DEF VerdictsStand
    <2>1. /\ run.seen.tip <= branch.tip
          /\ \A i \in 1 .. run.seen.tip :
                CI(run.seen, i) \in {"success", "failure"} => CI(branch, i) = CI(run.seen, i)
          /\ revert.open => RedFrom(run.seen, revert.of)
      BY DEF RedInv, VerdictsStand
    <2>2. run.seen.tip \in Nat
      BY <1>0
    <2>3. ASSUME NEW i \in 1 .. run.seen.tip, CI(run.seen, i) \in {"success", "failure"}
          PROVE  CI(branch', i) = CI(run.seen, i)
      <3>1. i \in 1 .. branch.tip
        BY <1>0, <2>1, <2>2
      <3> QED
        BY <2>1, <2>3, <3>1 DEF Settled
    <2> QED
      BY <1>0, <2>1, <2>2, <2>3
  <1>4. revert'.open => RedFrom(branch', revert'.of)
    BY <1>1 DEF RedInv, CulpritsStayRed
  <1>5. run'.pc = "decided" /\ run'.kind = "open-revert" => RedFrom(branch', run'.of)
    BY <1>1 DEF RedInv, CulpritsStayRed
  <1>6. ASSUME run'.pc = "decided", run'.kind = "close-revert", revert'.open
        PROVE  PassedAbove(revert.of)'
    <2>1. PassedAbove(revert.of) /\ revert.of \in Nat
      BY <1>6, Bounds DEF RedInv, CulpritsStayRed, TypeInv, TargetsExist
    <2>2. PICK i \in revert.of + 1 .. branch.tip : CI(branch, i) = "success"
      BY <2>1 DEF PassedAbove
    <2>3. i \in 1 .. branch.tip /\ i \in revert.of + 1 .. branch'.tip
      BY <1>0, <2>1, <2>2
    <2>4. CI(branch', i) = "success"
      BY <2>2, <2>3 DEF Settled
    <2> QED
      BY <1>6, <2>3, <2>4 DEF PassedAbove
  <1> QED
    BY <1>3, <1>4, <1>5, <1>6 DEF RedInv, CulpritsStayRed

\* Nobody meddles, so every step of the forge and of people lets verdicts stand.
LEMMA ForgeAndPeopleSettle ==
  ASSUME RedInv, TypeInv', MaxMeddling = 0,
         \/ \E shape \in Shape : Merge(shape)
         \/ LandRevert \/ SomeCI \/ Outage \/ People
  PROVE  VerdictsStand' /\ CulpritsStayRed'
  <1>0. TypeOK /\ branch \in Branch /\ ~ NoRevert.open /\ branch.tip \in Nat
    BY Bounds DEF RedInv, TypeInv, TypeOK, NoRevert, Branch
  <1>1. ~ Meddle
    BY <1>0 DEF Meddle, TypeOK
  <1>2. ASSUME branch' = branch PROVE Settled
    BY <1>0, <1>2 DEF Settled
  <1>3. ASSUME NEW c, Grown(c) PROVE Settled
    BY <1>0, <1>3 DEF Settled, Grown, CI
  <1>4. ASSUME NEW shape \in Shape, Merge(shape) PROVE VerdictsStand' /\ CulpritsStayRed'
    <2>1. Settled
      BY <1>0, <1>3, <1>4, MergeGrows
    <2> QED
      BY <1>4, <2>1, SettledKeepsRed DEF Merge
  <1>5. CASE LandRevert
    <2>1. revert.of \in Pos
      BY <1>5 DEF LandRevert, RedInv, TypeInv, TargetsExist
    <2>2. Settled
      BY <1>0, <1>3, <1>5, <2>1, LandRevertGrows
    <2> QED
      BY <1>0, <1>5, <2>2, SettledKeepsRed DEF LandRevert
  <1>6. ASSUME NEW i \in Pos, FinishCI(i) PROVE VerdictsStand' /\ CulpritsStayRed'
    <2>1. Judged(i)
      BY <1>0, <1>6, FinishCIJudges
    <2>2. CI(branch, i) = "pending"
      BY <1>6 DEF FinishCI, Pass, Fail, FailInOutage, Flake, Pending
    <2>3. \A j \in 1 .. branch.tip : j # i => branch'.at[j] = branch.at[j]
      BY <1>0, <2>1, Bounds DEF Judged, Branch
    <2>4. Settled
      BY <1>0, <2>1, <2>2, <2>3 DEF Settled, Judged, CI
    <2> QED
      BY <1>6, <2>4, SettledKeepsRed DEF FinishCI
  <1>7. CASE FinishRevertCI
    <2>1. revert'.open = revert.open /\ revert'.of = revert.of
      BY <1>7 DEF FinishRevertCI, RedInv, TypeInv, TypeOK, Revert
    <2> QED
      BY <1>2, <1>7, <2>1, SettledKeepsRed DEF FinishRevertCI
  <1>8. CASE Outage
    BY <1>2, <1>8, SettledKeepsRed DEF Outage
  <1>9. CASE People
    <2>1. Claim \/ Stall \/ PassHardCap
      BY <1>1, <1>9 DEF People, Cancel, RerunByHand, CloseByHand, RetryRevert
    <2>2. revert'.open = revert.open /\ revert'.of = revert.of
      BY <2>1 DEF Claim, Stall, PassHardCap, OnRevert, RedInv, TypeInv, TypeOK, Revert
    <2>3. branch' = branch /\ run' = run
      BY <2>1 DEF Claim, Stall, PassHardCap, OnRevert
    <2> QED
      BY <1>2, <2>2, <2>3, SettledKeepsRed
  <1> QED
    BY <1>4, <1>5, <1>6, <1>7, <1>8, <1>9 DEF SomeCI

\* A run decides from a past whose verdicts still stand.
LEMMA DecideKeepsRed ==
  ASSUME RedInv, TypeInv', Window >= MaxCommits, Decide
  PROVE  VerdictsStand' /\ CulpritsStayRed'
  <1> DEFINE b == run.seen
             step == ReconcileStep(b, revert)
  <1>1. /\ b \in Branch /\ revert.open \in BOOLEAN /\ b.tip \in Nat
        /\ branch.tip \in Nat /\ b.tip <= branch.tip
        /\ \A i \in 1 .. b.tip :
              CI(b, i) \in {"success", "failure"} => CI(branch, i) = CI(b, i)
        /\ revert.open => RedFrom(b, revert.of) /\ revert.of \in Pos
    BY Bounds DEF Decide, RedInv, VerdictsStand, TypeInv, TypeOK, TargetsExist, Branch, Revert
  <1>2. /\ run'.pc = "decided" /\ run'.kind = step.kind /\ run'.of = step.of
        /\ UNCHANGED <<branch, revert>>
    BY DEF Decide
  <1> HIDE DEF b
  <1>3. ASSUME step.kind = "open-revert" PROVE RedFrom(branch, step.of)
    <2>1. step.of \in Culprit(b)
      BY <1>1, <1>3, DecidedRevert
    <2> HIDE DEF step
    <2>2. step.of \in Failed(b) /\ step.of \in 2 .. b.tip
      BY <1>1, <2>1, CulpritFailedAboveGreen
    <2>3. step.of \in 1 .. b.tip /\ CI(b, step.of) = "failure"
      BY <1>1, <2>2 DEF Failed
    <2> QED
      BY <1>1, <2>3 DEF RedFrom
  <1>4. step.kind = "rerun-failed-jobs" => ~ revert.open
    BY <1>1, DecidedBesideARevert
  <1>5. ASSUME step.kind = "close-revert", revert.open PROVE PassedAbove(revert.of)
    <2>1. RedBlock(b) = {}
      BY <1>1, <1>5, DecidedBesideARevert
    <2>2. PICK g \in revert.of + 1 .. b.tip : CI(b, g) = "success"
      BY <1>1, <1>5, <2>1, GreenAboveTheFailed
    <2>3. g \in 1 .. b.tip /\ g \in revert.of + 1 .. branch.tip
      BY <1>1, <1>5, <2>2, Bounds
    <2> QED
      BY <1>1, <2>2, <2>3 DEF PassedAbove
  <1>6. VerdictsStand'
    BY <1>2 DEF VerdictsStand
  <1>7. PassedAbove(revert.of)' <=> PassedAbove(revert.of)
    BY <1>2 DEF PassedAbove
  <1> HIDE DEF step
  <1> QED
    BY <1>2, <1>3, <1>4, <1>5, <1>6, <1>7 DEF RedInv, CulpritsStayRed

\* So do its other steps keep the culprit of an open revert red: it repeats no
\* job while a revert is open.
LEMMA RunKeepsRed ==
  ASSUME RedInv, TypeInv', Window >= MaxCommits,
         Record \/ Decide \/ PerformStep \/ Die
  PROVE  VerdictsStand' /\ CulpritsStayRed'
  <1>0. Idle.pc = "idle" /\ ~ NoRevert.open /\ branch.tip \in Nat
    BY Bounds DEF Idle, NoRevert, RedInv, TypeInv, TypeOK, Branch
  <1>1. ASSUME branch' = branch PROVE Settled
    BY <1>0, <1>1 DEF Settled
  <1>2. CASE Record
    <2>1. run'.pc = "recorded" /\ run'.seen = branch /\ UNCHANGED <<branch, revert>>
      BY <1>2 DEF Record, Idle
    <2> QED
      BY <1>0, <2>1 DEF RedInv, VerdictsStand, CulpritsStayRed
  <1>3. CASE Decide
    BY <1>3, DecideKeepsRed
  <1>4. CASE Die \/ DoNothing \/ Refused \/ RaiseAttention
    BY <1>0, <1>1, <1>4, SettledKeepsRed DEF Die, DoNothing, Refused, RaiseAttention, Perform
  <1>5. CASE RerunFailedJobs
    <2>1. ~ revert.open /\ revert' = revert /\ run' = Idle
      BY <1>5 DEF RerunFailedJobs, Perform, RedInv, CulpritsStayRed
    <2> QED
      BY <1>0, <2>1 DEF VerdictsStand, CulpritsStayRed
  <1>6. CASE OpenRevert
    <2>1. RedFrom(branch, run.of) /\ revert'.of = run.of /\ run' = Idle /\ branch' = branch
      BY <1>6 DEF OpenRevert, Perform, NoRevert, RedInv, CulpritsStayRed
    <2> QED
      BY <1>0, <2>1 DEF VerdictsStand, CulpritsStayRed
  <1>7. CASE ReleaseRevert
    <2>1. revert'.open = revert.open /\ revert'.of = revert.of
      BY <1>7 DEF ReleaseRevert, RedInv, TypeInv, TypeOK, Revert
    <2> QED
      BY <1>0, <1>1, <1>7, <2>1, SettledKeepsRed DEF ReleaseRevert, Perform
  <1>8. CASE CloseRevert
    BY <1>0, <1>1, <1>8, SettledKeepsRed DEF CloseRevert, Perform
  <1> QED
    BY <1>2, <1>3, <1>4, <1>5, <1>6, <1>7, <1>8 DEF PerformStep

\* Whatever is merged, claimed, torn or killed: where nobody cancels or repeats a run
\* of CI and the record reaches the start of the branch, a run closes a revert only
\* above a green commit newer than the culprit, as the document has it.  What breaks
\* the promise is a verdict taken back, and nothing else.
THEOREM ClosedAboveGreen ==
  ASSUME MaxMeddling = 0, Window >= MaxCommits
  PROVE  Spec => ClosedOnlyWhenGreen
  <1>1. Init => RedInv
    <2> SUFFICES ASSUME Init PROVE RedInv
      OBVIOUS
    <2>1. run.pc = "idle" /\ ~ revert.open
      BY DEF Init, Idle, NoRevert
    <2> QED
      BY <2>1, InitTypeInv DEF RedInv, VerdictsStand, CulpritsStayRed
  <1>2. RedInv /\ [Next]_vars => RedInv'
    <2> SUFFICES ASSUME RedInv, [Next]_vars PROVE VerdictsStand' /\ CulpritsStayRed'
      BY NextTypeInv DEF RedInv
    <2>1. TypeInv'
      BY NextTypeInv DEF RedInv
    <2>2. CASE Next
      BY <2>1, <2>2, RunKeepsRed, ForgeAndPeopleSettle DEF Next
    <2>3. CASE UNCHANGED vars
      <3>1. Settled
        BY <2>3, Bounds DEF vars, Settled, RedInv, TypeInv, TypeOK, Branch
      <3> QED
        BY <2>1, <2>3, <3>1, SettledKeepsRed DEF vars
    <2> QED
      BY <2>2, <2>3
  <1>3. RedInv /\ [Next]_vars => [CloseRevert => PassedAbove(revert.of)]_vars
    BY DEF RedInv, CulpritsStayRed, CloseRevert, Perform
  <1> QED
    BY <1>1, <1>2, <1>3, PTL DEF Spec, ClosedOnlyWhenGreen
=============================================================================
