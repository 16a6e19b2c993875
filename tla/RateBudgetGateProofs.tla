------------------------ MODULE RateBudgetGateProofs ------------------------
(***************************************************************************)
(* For any admissible inputs, any budget, any length of window and any skew  *)
(* of the clocks: the inductive invariant IInv of RateBudgetGate, and from   *)
(* it that both stages respect the one bound, that no delay ends inside the  *)
(* window it is for, that a run nobody interferes with gets its token, and   *)
(* that each step of a run leaves fewer to go.                               *)
(***************************************************************************)
EXTENDS RateBudgetGate, TLAPS

USE ConfigAssumption, GitHubAssumption DEF ValidConfig

-----------------------------------------------------------------------------
(* The delay of an answer                                                    *)

\* The later reset is the largest of the deficient ones.
LEMMA LaterResetIsLargest ==
  ASSUME TypeOK, Deficient(report) # {}
  PROVE  /\ LaterReset \in Overdue..Window
         /\ \A r \in Deficient(report) : report[r].reset <= LaterReset
  <1> DEFINE resets == {report[r].reset : r \in Deficient(report)}
  <1>1. Deficient(report) \subseteq Resource
    BY DEF Deficient
  <1>2. resets \subseteq Overdue..Window
    BY <1>1 DEF TypeOK
  <1>3. Overdue \in Int
    BY DEF Overdue
  <1>4. \E t \in resets : \A u \in resets : u <= t
    <2>1. PICK a \in Deficient(report) : TRUE
      OBVIOUS
    <2>2. CASE \A r \in Deficient(report) : report[r].reset <= report[a].reset
      BY <2>1, <2>2
    <2>3. CASE \E r \in Deficient(report) : ~(report[r].reset <= report[a].reset)
      <3>1. PICK b \in Deficient(report) : ~(report[b].reset <= report[a].reset)
        BY <2>3
      <3>2. /\ report[a].reset \in Int
            /\ report[b].reset \in Int
        BY <1>2, <1>3, <2>1
      <3>3. \A r \in Deficient(report) : r = a \/ r = b
        BY <1>1, <2>1, <3>1, <3>2 DEF Resource
      <3>4. \A u \in resets : u <= report[b].reset
        BY <3>1, <3>2, <3>3
      <3> QED
        BY <3>4
    <2> QED
      BY <2>2, <2>3
  <1>5. LaterReset = CHOOSE t \in resets : \A u \in resets : u <= t
    BY DEF LaterReset
  <1>6. LaterReset \in resets /\ \A u \in resets : u <= LaterReset
    BY <1>4, <1>5
  <1> QED
    BY <1>2, <1>6

\* A delay is a number; it reaches past every deficient reset when the cushion and
\* the jitter cover the skew, and is at most a window and the two.
LEMMA WaitForBounds ==
  ASSUME TypeOK, Deficient(report) # {}
  PROVE  /\ WaitFor \in Nat
         /\ Skew <= config.cushion + config.jitter =>
              \A r \in Deficient(report) : report[r].reset <= WaitFor
         /\ WaitFor <= AtLeastZero(Window - Skew) + config.cushion + config.jitter
         /\ WaitFor >= config.cushion + config.jitter
  <1>1. /\ LaterReset \in Overdue..Window
        /\ \A r \in Deficient(report) : report[r].reset <= LaterReset
    BY LaterResetIsLargest
  <1>2. config.cushion \in Nat /\ config.jitter \in Nat
    BY DEF TypeOK
  <1>3. Overdue \in Int /\ Window \in Int /\ Skew \in Int
    BY DEF Overdue
  <1>4. LaterReset \in Int /\ LaterReset <= Window
    BY <1>1, <1>3
  <1>5. \A r \in Deficient(report) : report[r].reset \in Int
    BY <1>3 DEF TypeOK, Deficient
  <1>6. /\ WaitFor \in Nat
        /\ WaitFor >= LaterReset - Skew + config.cushion + config.jitter
        /\ WaitFor >= config.cushion + config.jitter
        /\ WaitFor <= AtLeastZero(Window - Skew) + config.cushion + config.jitter
    BY <1>2, <1>3, <1>4 DEF WaitFor, AtLeastZero, Larger
  <1>7. ASSUME Skew <= config.cushion + config.jitter, NEW r \in Deficient(report)
        PROVE  report[r].reset <= WaitFor
    BY <1>1, <1>2, <1>3, <1>4, <1>5, <1>6, <1>7
  <1> QED
    BY <1>6, <1>7

-----------------------------------------------------------------------------
(* The invariant                                                             *)

\* The run starts with an answer still to be asked for.
LEMMA InitIInv == Init => IInv
  <1> SUFFICES ASSUME Init PROVE IInv
    OBVIOUS
  <1> USE DEF Init
  <1>1. TypeOK
    <2>1. Overdue \in Int /\ Overdue <= 0
      BY DEF Overdue
    <2>2. NoReport \in [Resource -> [remaining : 0..Limit, reset : Overdue..Window]]
      BY <2>1 DEF NoReport
    <2>3. untilReset \in [Resource -> 0..Window]
      OBVIOUS
    <2>4. slept \in 0..config.maxWait /\ attempt \in 1..3
      OBVIOUS
    <2>5. /\ remaining \in [Resource -> 0..Limit]
          /\ report = NoReport
          /\ config \in Config
      OBVIOUS
    <2>6. /\ pc \in {"probe"} /\ stage \in {"preflight"}
          /\ reprobed \in BOOLEAN /\ excused \in BOOLEAN
          /\ left \in Nat /\ waited \in Nat /\ running \subseteq Resource
      OBVIOUS
    <2> HIDE DEF Init
    <2> QED
      BY <2>2, <2>3, <2>4, <2>5, <2>6 DEF TypeOK
  <1>2. WaitIsAccounted /\ RunningIsCurrent
    BY DEF WaitIsAccounted, RunningIsCurrent
  <1>3. DelayCoversWindows /\ BudgetsRecover
    BY DEF DelayCoversWindows, BudgetsRecover
  <1> QED
    BY <1>1, <1>2, <1>3 DEF IInv

\* An answer marks what is deficient; nothing else is learnt from a failed probe.
LEMMA ProbeKeepsIInv == IInv /\ Probe => IInv'
  <1> SUFFICES ASSUME IInv, Probe PROVE IInv'
    OBVIOUS
  <1> USE DEF IInv, budget
  <1>1. CASE pc' = "answered"
    <2>1. /\ report' = [r \in Resource |->
                           [remaining |-> remaining[r], reset |-> untilReset[r]]]
          /\ running' = {r \in Deficient(report') : untilReset[r] > 0}
          /\ attempt' = 1
          /\ excused' = (excused \/ \E r \in Resource : untilReset[r] = 0)
          /\ UNCHANGED <<budget, config, stage, slept, reprobed, waited, left>>
          /\ pc = "probe"
      BY <1>1 DEF Probe, Fail
    <2>2. TypeOK'
      BY <1>1, <2>1 DEF TypeOK, Overdue, Deficient, Ended
    <2>3. WaitIsAccounted' /\ RunningIsCurrent'
      BY <1>1, <2>1 DEF WaitIsAccounted, RunningIsCurrent, Deficient, TypeOK
    <2>4. DelayCoversWindows'
      BY <1>1, <2>1 DEF DelayCoversWindows
    <2>5. BudgetsRecover'
      <3> SUFFICES ASSUME Generous', ~excused' PROVE
              /\ \A r \in Resource : \/ remaining[r] >= config.minimum[r]
                                     \/ r \in running'
                                     \/ untilReset[r] = 0
              /\ slept > 0 => Deficient(report)' = {}
              /\ slept = 0 => ~reprobed
        BY <1>1, <2>1 DEF BudgetsRecover
      <3>1. Generous /\ ~excused /\ \A r \in Resource : untilReset[r] > 0
        <4>1. Generous
          BY <2>1 DEF Generous
        <4>2. ~excused /\ \A r \in Resource : untilReset[r] # 0
          BY <2>1
        <4> QED
          BY <4>1, <4>2 DEF TypeOK
      <3>2. \A r \in Resource : remaining[r] \in Int /\ config.minimum[r] \in Int
        BY DEF TypeOK
      <3>3. \A r \in Resource : r \in Deficient(report)'
                                  <=> remaining[r] < config.minimum[r]
        BY <2>1 DEF Deficient
      <3>9. running' = {r \in Deficient(report)' : untilReset[r] > 0}
        BY <2>1 DEF Deficient
      <3>4. \A r \in Resource : remaining[r] >= config.minimum[r] \/ r \in running'
        BY <3>1, <3>2, <3>3, <3>9
      <3>5. running = {}
        BY <2>1, <3>1 DEF DelayCoversWindows, Generous
      <3>6. slept > 0 => \A r \in Resource : remaining[r] >= config.minimum[r]
        BY <3>1, <3>5 DEF BudgetsRecover, TypeOK
      <3>7. slept > 0 => Deficient(report)' = {}
        BY <3>2, <3>3, <3>6 DEF Deficient
      <3>8. slept = 0 => ~reprobed
        BY <3>1 DEF BudgetsRecover
      <3> QED
        BY <3>4, <3>7, <3>8
    <2> QED
      BY <2>2, <2>3, <2>4, <2>5
  <1>2. CASE pc' # "answered"
    <2>1. /\ UNCHANGED <<budget, config, stage, slept, reprobed, waited, report,
                         running, excused>>
          /\ pc = "probe" /\ pc' \in {"failed", "retry"}
          /\ left' \in Nat /\ attempt' \in 1..3
      BY <1>2 DEF Probe, Fail, TypeOK
    <2>2. TypeOK'
      BY <2>1 DEF TypeOK, Ended
    <2>3. WaitIsAccounted' /\ RunningIsCurrent'
      BY <2>1 DEF WaitIsAccounted, RunningIsCurrent, Deficient
    <2>4. DelayCoversWindows' /\ BudgetsRecover'
      BY <2>1 DEF DelayCoversWindows, BudgetsRecover, Generous, Deficient
    <2> QED
      BY <2>2, <2>3, <2>4
  <1> QED
    BY <1>1, <1>2

\* A delay is added to the account before it is begun.
LEMMA SleepKeepsIInv == IInv /\ Sleep => IInv'
  <1> SUFFICES ASSUME IInv, Sleep PROVE IInv'
    OBVIOUS
  <1> USE DEF IInv, Sleep, budget
  <1>1. /\ WaitFor \in Nat
        /\ Skew <= config.cushion + config.jitter =>
             \A r \in Deficient(report) : report[r].reset <= WaitFor
        /\ WaitFor >= config.cushion + config.jitter
    BY WaitForBounds
  <1>2. TypeOK'
    BY <1>1 DEF TypeOK, NoReport, Overdue, MayWait
  <1>3. WaitIsAccounted' /\ RunningIsCurrent'
    BY <1>1 DEF WaitIsAccounted, RunningIsCurrent, TypeOK
  <1>4. DelayCoversWindows'
    BY <1>1 DEF DelayCoversWindows, RunningIsCurrent
  <1>5. BudgetsRecover'
    BY <1>1 DEF BudgetsRecover, Generous, TypeOK
  <1> QED
    BY <1>2, <1>3, <1>4, <1>5

\* A run nobody interferes with never gives up: it has not waited yet, and its
\* bound covers the window.
LEMMA GiveUpKeepsIInv == IInv /\ GiveUp => IInv'
  <1> SUFFICES ASSUME IInv, GiveUp PROVE IInv'
    OBVIOUS
  <1> USE DEF IInv, GiveUp, budget
  <1>1. TypeOK'
    BY DEF TypeOK, NoReport, Overdue, Ended
  <1>2. WaitIsAccounted' /\ RunningIsCurrent'
    BY DEF WaitIsAccounted, RunningIsCurrent
  <1>3. DelayCoversWindows'
    BY DEF DelayCoversWindows
  <1>4. ~(Generous /\ ~excused)
    <2> SUFFICES ASSUME Generous, ~excused PROVE FALSE
      OBVIOUS
    <2>1. /\ WaitFor \in Nat
          /\ WaitFor <= AtLeastZero(Window - Skew) + config.cushion + config.jitter
          /\ WaitFor >= config.cushion + config.jitter
      BY WaitForBounds
    <2>2. slept = 0 /\ ~reprobed
      BY DEF BudgetsRecover, TypeOK
    <2>3. AtLeastZero(Window - Skew) \in Nat
      BY DEF AtLeastZero, Larger
    <2>4. /\ config.maxWait \in Nat /\ config.cushion \in Nat /\ config.jitter \in Nat
      BY DEF TypeOK
    <2>5. MayWait
      BY <2>1, <2>2, <2>3, <2>4 DEF MayWait, Generous
    <2> QED
      BY <2>5
  <1>5. BudgetsRecover'
    BY <1>4 DEF BudgetsRecover, Generous
  <1> QED
    BY <1>1, <1>2, <1>3, <1>5

\* Waking, passing and minting only move the run on: a healthy answer leaves no
\* awaited window, and at the end of a delay every awaited window is over.
LEMMA MoveKeepsIInv == IInv /\ (Retry \/ Pass \/ Wake \/ Mint) => IInv'
  <1> SUFFICES ASSUME IInv, Retry \/ Pass \/ Wake \/ Mint PROVE IInv'
    OBVIOUS
  <1> USE DEF IInv, budget
  <1>0. ASSUME Pass \/ Wake, Skew <= config.cushion + config.jitter
        PROVE  running = {}
    <2>1. CASE Pass
      BY <2>1 DEF Pass, RunningIsCurrent
    <2>2. CASE Wake
      BY <2>2, <1>0 DEF Wake, RunningIsCurrent, DelayCoversWindows, TypeOK
    <2> QED
      BY <1>0, <2>1, <2>2
  <1>1. TypeOK'
    <2>1. NoReport \in [Resource -> [remaining : 0..Limit, reset : Overdue..Window]]
      BY DEF NoReport, Overdue
    <2>2. /\ pc' \in {"probe", "mint", "exposed", "failed"}
          /\ stage' \in {"preflight", "final"}
          /\ report' \in {report, NoReport}
          /\ reprobed' \in BOOLEAN
          /\ UNCHANGED <<budget, config, attempt, slept, left, waited, running, excused>>
      BY DEF Retry, Pass, Wake, Mint, TypeOK
    <2> QED
      BY <2>1, <2>2 DEF TypeOK, Ended
  <1>2. WaitIsAccounted'
    BY DEF Retry, Pass, Wake, Mint, WaitIsAccounted, TypeOK
  <1>3. RunningIsCurrent'
    BY DEF Retry, Pass, Wake, Mint, RunningIsCurrent
  <1>4. DelayCoversWindows'
    BY <1>0 DEF Retry, Pass, Wake, Mint, DelayCoversWindows
  <1>5. BudgetsRecover'
    BY DEF Retry, Pass, Wake, Mint, BudgetsRecover, Generous
  <1> QED
    BY <1>1, <1>2, <1>3, <1>4, <1>5

\* Time: answers age with the windows they tell of, delays with the windows they
\* are for.
LEMMA TickKeepsIInv == IInv /\ Tick => IInv'
  <1> SUFFICES ASSUME IInv, Tick PROVE IInv'
    OBVIOUS
  <1> USE DEF IInv, Tick, Earlier
  <1>0. Overdue \in Int /\ Overdue <= 0
    BY DEF Overdue
  <1>1. TypeOK'
    <2>1. \A r \in Resource : report[r] = [remaining |-> report[r].remaining,
                                           reset |-> report[r].reset]
      BY DEF TypeOK
    <2>2. report' \in [Resource -> [remaining : 0..Limit, reset : Overdue..Window]]
      <3>1. CASE pc = "answered"
        <4> SUFFICES ASSUME NEW r \in Resource
                     PROVE  [remaining |-> report[r].remaining,
                             reset |-> Larger(report[r].reset - 1, Overdue)]
                              \in [remaining : 0..Limit, reset : Overdue..Window]
          BY <3>1
        <4>1. report[r] \in [remaining : 0..Limit, reset : Overdue..Window]
          BY DEF TypeOK
        <4> QED
          BY <1>0, <4>1 DEF Larger
      <3>2. CASE pc # "answered"
        BY <3>2 DEF TypeOK
      <3> QED
        BY <3>1, <3>2
    <2>3. untilReset' \in [Resource -> 0..Window]
      BY DEF TypeOK
    <2>4. left' \in Nat /\ waited' \in Nat
      BY DEF TypeOK
    <2>5. running' \subseteq Resource
      BY DEF TypeOK
    <2> QED
      BY <2>2, <2>3, <2>4, <2>5 DEF TypeOK
  <1>2. WaitIsAccounted'
    BY DEF WaitIsAccounted, TypeOK
  <1>3. \A r \in Resource : /\ report'[r].remaining = report[r].remaining
                            /\ pc = "answered" /\ report[r].reset > Overdue
                                 => report'[r].reset = report[r].reset - 1
    BY <1>0 DEF TypeOK, Larger
  <1>4. Deficient(report)' = Deficient(report)
    BY <1>3 DEF Deficient
  <1>5. RunningIsCurrent'
    BY <1>0, <1>3, <1>4 DEF RunningIsCurrent, TypeOK
  <1>6. DelayCoversWindows'
    <2>1. running' \subseteq running
      OBVIOUS
    <2>2. ASSUME Skew <= config.cushion + config.jitter, pc = "sleep", NEW r \in running'
          PROVE  untilReset'[r] <= left'
      <3>1. /\ r \in Resource /\ untilReset[r] \in Nat /\ left \in Nat
            /\ untilReset[r] > 0 /\ untilReset[r] <= left
        BY <2>1, <2>2 DEF DelayCoversWindows, RunningIsCurrent, TypeOK
      <3> QED
        BY <3>1
    <2> QED
      BY <2>1, <2>2 DEF DelayCoversWindows
  <1>7. BudgetsRecover'
    BY <1>4 DEF BudgetsRecover, Generous, TypeOK
  <1> QED
    BY <1>1, <1>2, <1>5, <1>6, <1>7

\* What GitHub and the rest of the fleet do to the budgets.
LEMMA GitHubKeepsIInv ==
  ASSUME IInv, NEW r \in Resource, Renew(r) \/ Spend(r)
  PROVE  IInv'
  <1> USE DEF IInv
  <1>0. /\ remaining' \in [Resource -> 0..Limit]
        /\ untilReset' \in [Resource -> 0..Window]
        /\ \A q \in running : untilReset'[q] = untilReset[q]
        /\ UNCHANGED <<config, stage, pc, attempt, report, slept, reprobed, left,
                       waited, running>>
        /\ excused' \in BOOLEAN
    <2>1. CASE Renew(r)
      BY <2>1 DEF Renew, RunningIsCurrent, TypeOK
    <2>2. CASE Spend(r)
      BY <2>2 DEF Spend, TypeOK
    <2> QED
      BY <2>1, <2>2
  <1>1. TypeOK'
    BY <1>0 DEF TypeOK
  <1>2. WaitIsAccounted'
    BY <1>0 DEF WaitIsAccounted
  <1>3. RunningIsCurrent'
    BY <1>0 DEF RunningIsCurrent, Deficient
  <1>4. DelayCoversWindows'
    BY <1>0 DEF DelayCoversWindows
  <1>5. BudgetsRecover'
    <2>1. CASE Renew(r)
      BY <2>1 DEF Renew, BudgetsRecover, Generous, Deficient, TypeOK
    <2>2. CASE Spend(r)
      BY <2>2 DEF Spend, BudgetsRecover
    <2> QED
      BY <2>1, <2>2
  <1> QED
    BY <1>1, <1>2, <1>3, <1>4, <1>5

\* Every step of the action, of the clock and of GitHub keeps the invariant.
LEMMA NextIInv == IInv /\ [Next]_vars => IInv'
  <1> SUFFICES ASSUME IInv, [Next]_vars PROVE IInv'
    OBVIOUS
  <1>1. CASE Step
    BY <1>1, ProbeKeepsIInv, SleepKeepsIInv, GiveUpKeepsIInv, MoveKeepsIInv DEF Step
  <1>2. CASE Tick
    BY <1>2, TickKeepsIInv
  <1>3. ASSUME NEW r \in Resource, Renew(r) \/ Spend(r)
        PROVE  IInv'
    BY <1>3, GitHubKeepsIInv
  <1>4. CASE UNCHANGED vars
    BY <1>4 DEF IInv, vars, budget, TypeOK, WaitIsAccounted, RunningIsCurrent,
                DelayCoversWindows, BudgetsRecover, Generous, Deficient
  <1> QED
    BY <1>1, <1>2, <1>3, <1>4 DEF Next

-----------------------------------------------------------------------------
(* What a reader should know                                                 *)

\* IInv holds throughout.
THEOREM InductiveInvariant == Spec => []IInv
  BY InitIInv, NextIInv, PTL DEF Spec

\* The state always has its type, so `slept` never exceeds the bound given.
THEOREM TypeCorrect == Spec => []TypeOK
  <1>1. IInv => TypeOK
    BY DEF IInv
  <1> QED
    BY <1>1, InductiveInvariant, PTL

\* The two stages of the action together wait at most `max-wait-seconds`.
THEOREM BoundIsShared == Spec => []WaitIsBounded
  <1>1. IInv => WaitIsBounded
    BY DEF IInv, TypeOK, WaitIsAccounted, WaitIsBounded
  <1> QED
    BY <1>1, InductiveInvariant, PTL

\* Whatever the windows and the clocks within the cushion, no delay of
\* `waitSecondsFor` ends inside a window it was computed from.
THEOREM DelaysOutlastWindows == Spec => []AsksInANewWindow
  <1>1. IInv => AsksInANewWindow
    BY DEF IInv, DelayCoversWindows, AsksInANewWindow
  <1> QED
    BY <1>1, InductiveInvariant, PTL

\* With a bound that covers one window, a run that nobody interferes with never
\* ends in `rate-budget-not-restored`.
THEOREM NobodyElseNoGivingUp == Spec => []GiveUpIsExcused
  <1>1. IInv => GiveUpIsExcused
    BY DEF IInv, BudgetsRecover, GiveUpIsExcused
  <1> QED
    BY <1>1, InductiveInvariant, PTL

-----------------------------------------------------------------------------
(* How long a run can be                                                     *)

LEMMA AheadIsCounted == TypeOK => Rounds \in Nat /\ Place \in 0..8
  <1> SUFFICES ASSUME TypeOK PROVE Rounds \in Nat /\ Place \in 0..8
    OBVIOUS
  <1>1. config.maxWait \in Nat /\ slept \in Nat /\ slept <= config.maxWait /\ attempt \in 1..3
    BY DEF TypeOK
  <1>2. Rounds \in Nat
    BY <1>1 DEF Rounds
  <1>3. Place \in 0..8
    BY <1>1 DEF Place
  <1> QED
    BY <1>2, <1>3

\* A round may begin anew only when one of those ahead has been given up.
LEMMA FewerRoundsAreShorter ==
  ASSUME NEW m \in Nat, NEW n \in Nat, NEW p \in 0..8, NEW q \in 0..8, m < n
  PROVE  10 * m + p < 10 * n + q
  OBVIOUS

LEMMA FurtherPlacesAreShorter ==
  ASSUME NEW n \in Nat, NEW p \in 0..8, NEW q \in 0..8, p < q
  PROVE  10 * n + p < 10 * n + q
  OBVIOUS

LEMMA AheadIsNatural ==
  ASSUME NEW n \in Nat, NEW p \in 0..8
  PROVE  10 * n + p \in Nat
  OBVIOUS

\* The final token is minted between the stages.
MintsBetween == pc = "mint" => stage = "preflight"

LEMMA StagesAreInOrder == Spec => []MintsBetween
  <1>1. Init => MintsBetween
    BY DEF Init, MintsBetween
  <1>2. MintsBetween /\ [Next]_vars => MintsBetween'
    BY DEF MintsBetween, Next, Step, Probe, Fail, Retry, Pass, Sleep, GiveUp, Wake, Mint, Tick,
           Renew, Spend, vars
  <1> QED
    BY <1>1, <1>2, PTL DEF Spec

LEMMA StepShortens ==
  ASSUME TypeOK, TypeOK', MintsBetween, Step
  PROVE  StepsAhead' < StepsAhead
  <1>1. /\ config.maxWait \in Nat /\ slept \in Nat /\ slept <= config.maxWait
        /\ attempt \in 1..3 /\ attempt' \in 1..3
    BY DEF TypeOK
  <1>2. Rounds \in Nat /\ Place \in 0..8 /\ Rounds' \in Nat /\ Place' \in 0..8
    <2>1. (Rounds \in Nat /\ Place \in 0..8)'
      BY AheadIsCounted, PTL
    <2> QED
      BY <2>1, AheadIsCounted
  <1>3. StepsAhead = 10 * Rounds + Place /\ StepsAhead' = 10 * Rounds' + Place'
    BY DEF StepsAhead
  <1>4. ASSUME Rounds' = Rounds, Place' < Place PROVE StepsAhead' < StepsAhead
    <2>1. StepsAhead' = 10 * Rounds + Place'
      BY <1>3, <1>4
    <2>2. 10 * Rounds + Place' < 10 * Rounds + Place
      BY <1>2, <1>4, FurtherPlacesAreShorter
    <2> QED
      BY <1>3, <2>1, <2>2
  <1>5. Rounds' < Rounds => StepsAhead' < StepsAhead
    BY <1>2, <1>3, FewerRoundsAreShorter
  <1>6. CASE Probe
    <2>1. Rounds' = Rounds
      BY <1>6 DEF Probe, Rounds
    <2>2. Place' < Place
      BY <1>1, <1>6 DEF Probe, Fail, Place
    <2> QED
      BY <1>4, <2>1, <2>2
  <1>7. CASE Retry \/ Pass \/ GiveUp \/ Wake
    <2>1. Rounds' = Rounds
      BY <1>7 DEF Retry, Pass, GiveUp, Wake, Rounds
    <2>2. Place' < Place
      BY <1>1, <1>7 DEF Retry, Pass, GiveUp, Wake, Place
    <2> QED
      BY <1>4, <2>1, <2>2
  <1>8. CASE Sleep
    <2>1. /\ WaitFor \in Nat /\ slept' = slept + WaitFor /\ config' = config /\ stage' = stage
          /\ WaitFor = 0 => ~ reprobed /\ reprobed'
      BY <1>8, WaitForBounds DEF Sleep, MayWait
    <2>2. CASE WaitFor = 0
      <3>1. slept' = slept /\ ~ reprobed /\ reprobed'
        BY <1>1, <2>1, <2>2
      <3>2. Rounds' < Rounds
        BY <1>1, <2>1, <3>1 DEF Rounds
      <3> QED
        BY <1>5, <3>2
    <2>3. CASE WaitFor # 0
      <3>1. slept' \in Nat /\ slept' >= slept + 1
        BY <1>1, <2>1, <2>3
      <3>2. Rounds' < Rounds
        BY <1>1, <2>1, <3>1 DEF Rounds
      <3> QED
        BY <1>5, <3>2
    <2> QED
      BY <2>2, <2>3
  <1>9. CASE Mint
    <2>1. CASE pc' = "failed"
      <3>1. stage' = stage /\ reprobed' = reprobed /\ slept' = slept /\ config' = config
        BY <1>9, <2>1 DEF Mint
      <3>2. Rounds' = Rounds /\ Place' < Place
        BY <1>9, <2>1, <3>1 DEF Mint, Rounds, Place
      <3> QED
        BY <1>4, <3>2
    <2>2. CASE pc' = "probe"
      <3>1. /\ stage = "preflight" /\ stage' = "final" /\ slept' = slept /\ config' = config
        BY <1>9, <2>2 DEF Mint, MintsBetween
      <3>2. Rounds' < Rounds
        BY <1>1, <3>1 DEF Rounds
      <3> QED
        BY <1>5, <3>2
    <2> QED
      BY <1>9, <2>1, <2>2 DEF Mint
  <1> QED
    BY <1>6, <1>7, <1>8, <1>9 DEF Step

\* Whatever GitHub answers and however often it does not, a run is shorter by a step
\* of the program after each: at most 20 * maxWait + 37 of them end it.
THEOREM NoRunIsEndless == Spec => RunsShorten
  <1>1. ASSUME TypeOK, TypeOK', MintsBetween, [Next]_vars
        PROVE  StepsAhead' <= StepsAhead /\ (pc' # pc => StepsAhead' < StepsAhead)
    <2>1. Rounds \in Nat /\ Place \in 0..8
      BY <1>1, AheadIsCounted
    <2>2. StepsAhead \in Nat
      BY <2>1 DEF StepsAhead
    <2>3. CASE Step
      <3>1. StepsAhead' < StepsAhead
        BY <1>1, <2>3, StepShortens
      <3>2. Rounds' \in Nat /\ Place' \in 0..8
        <4>1. (Rounds \in Nat /\ Place \in 0..8)'
          BY <1>1, AheadIsCounted, PTL
        <4> QED
          BY <4>1
      <3>3. StepsAhead' = 10 * Rounds' + Place'
        BY DEF StepsAhead
      <3>4. StepsAhead' \in Nat
        BY <3>2, <3>3, AheadIsNatural
      <3> QED
        BY <2>2, <3>1, <3>4
    <2>4. CASE ~ Step
      <3>1. UNCHANGED <<config, stage, pc, attempt, slept, reprobed>>
        BY <1>1, <2>4 DEF Next, Tick, Renew, Spend, vars
      <3>2. Rounds' = Rounds /\ Place' = Place
        BY <3>1 DEF Rounds, Place
      <3>3. StepsAhead' = StepsAhead
        BY <3>2 DEF StepsAhead
      <3> QED
        BY <2>2, <3>1, <3>3
    <2> QED
      BY <2>3, <2>4
  <1>2. TypeOK /\ TypeOK' /\ MintsBetween /\ [Next]_vars =>
          [ StepsAhead' <= StepsAhead /\ (pc' # pc => StepsAhead' < StepsAhead) ]_vars
    BY <1>1
  <1> QED
    BY <1>2, TypeCorrect, StagesAreInOrder, PTL DEF Spec, RunsShorten
=============================================================================
