--------------------------- MODULE RateBudgetGate ---------------------------
(***************************************************************************)
(* The composite action github-rate-budget-token: a probe token is minted,  *)
(* `rate-budget-gate.js` polls GET /rate_limit until the REST and GraphQL    *)
(* budgets of the installation suffice, a final token is minted, and the     *)
(* same program polls again with it before the token is exposed.  The two    *)
(* processes share one wait bound: the first hands the second what it slept. *)
(*                                                                           *)
(* GitHub (the budgets, their hourly windows, the answers) is external, and  *)
(* so is the rest of the fleet, which spends from the same budgets.  Times   *)
(* are durations: nothing in the program depends on the date.                *)
(***************************************************************************)
EXTENDS Integers, FiniteSets

CONSTANTS
    Config,     \* the inputs the action may be given, see ValidConfig
    Limit,      \* what a budget holds at the start of a window
    Window,     \* how long a window lasts
    Skew,       \* how far the runner's clock is ahead of GitHub's
    RetryDelay  \* the two delays between the three attempts of a probe

Resource == {"core", "graphql"}

\* `parseInputs`: five non-negative numbers, of which the minima are positive,
\* and the jitter that the seed determines.
ValidConfig(c) ==
    /\ c.minimum \in [Resource -> Nat \ {0}]
    /\ c.cushion \in Nat
    /\ c.jitter \in Nat
    /\ c.maxWait \in Nat

ASSUME ConfigAssumption ==
    \A c \in Config : /\ DOMAIN c = {"minimum", "cushion", "jitter", "maxWait"}
                      /\ ValidConfig(c)
ASSUME GitHubAssumption ==
    /\ Limit \in Nat
    /\ Window \in Nat \ {0}
    /\ Skew \in Int
    /\ RetryDelay \in [1..2 -> Nat]

VARIABLES
    remaining,   \* GitHub's budgets
    untilReset,  \* time left in the window of each; 0: over, not yet renewed
    config,      \* the inputs of this run of the action
    stage,       \* which token is being gated
    pc,          \* where the run is
    attempt,     \* of the probe in progress, of three
    report,      \* the answer being judged: budgets, and resets as durations from now
    slept,       \* `sleptSeconds`
    reprobed,    \* `reprobedAfterZeroWait`
    left,        \* what is left of the delay it waits for
    waited,      \* history: time actually spent waiting for a budget
    running,     \* history: deficient resources whose window has not ended since the answer
    excused      \* history: somebody spent, or GitHub answered from a window that was over

budget == <<remaining, untilReset>>
vars == <<remaining, untilReset, config, stage, pc, attempt, report, slept,
          reprobed, left, waited, running, excused>>

Ended == {"exposed", "gaveUp", "failed"}
Larger(a, b) == IF a >= b THEN a ELSE b
AtLeastZero(n) == Larger(n, 0)

\* How far below zero a reset still matters to a runner whose clock is behind.
Overdue == IF Skew < 0 THEN Skew ELSE 0

NoReport == [r \in Resource |-> [remaining |-> 0, reset |-> 0]]

Init ==
    /\ remaining \in [Resource -> 0..Limit]
    /\ untilReset \in [Resource -> 1..Window]
    /\ config \in Config
    /\ stage = "preflight"
    /\ pc = "probe"
    /\ attempt = 1
    /\ report = NoReport
    /\ slept = 0
    /\ reprobed = FALSE
    /\ left = 0
    /\ waited = 0
    /\ running = {}
    /\ excused = FALSE

-----------------------------------------------------------------------------
(* `fetchRateLimit`: three attempts; an answer that is not a budget ends the  *)
(* run at once, one that does not come is asked for again.                    *)

Fail == pc' = "failed" /\ UNCHANGED <<attempt, report, left, running>>

\* `deficientResources`.
Deficient(b) == {r \in Resource : b[r].remaining < config.minimum[r]}

Probe ==
    /\ pc = "probe"
    /\ \/ \* A readable answer: both resources with whole numbers.
          /\ report' = [r \in Resource |->
                           [remaining |-> remaining[r], reset |-> untilReset[r]]]
          /\ running' = {r \in Deficient(report') : untilReset[r] > 0}
          /\ pc' = "answered"
          /\ attempt' = 1
          /\ excused' = (excused \/ \E r \in Resource : untilReset[r] = 0)
          /\ UNCHANGED left
       \/ \* MALFORMED, or the third attempt was PROBE_UNUSABLE.
          Fail /\ UNCHANGED excused
       \/ \* No answer, or one that is not ok.
          /\ attempt < 3
          /\ pc' = "retry"
          /\ attempt' = attempt + 1
          /\ left' = RetryDelay[attempt]
          /\ UNCHANGED <<report, running, excused>>
    /\ UNCHANGED <<budget, config, stage, slept, reprobed, waited>>

Retry ==
    /\ pc = "retry" /\ left = 0
    /\ pc' = "probe"
    /\ UNCHANGED <<budget, config, stage, attempt, report, slept, reprobed,
                   left, waited, running, excused>>

-----------------------------------------------------------------------------
(* The loop of `runGate`, on the last answer.                                *)

\* `waitSecondsFor`: the later deficient reset by the runner's clock, the
\* cushion and the jitter.
LaterReset ==
    LET resets == {report[r].reset : r \in Deficient(report)}
    IN CHOOSE t \in resets : \A u \in resets : u <= t

\* MUTANT of WaitFor: the cushion is forgotten.
WaitForBare == AtLeastZero(LaterReset - Skew) + config.jitter

WaitFor == AtLeastZero(LaterReset - Skew) + config.cushion + config.jitter

\* MUTANT of MayWait: what was already waited is forgotten.
MayWaitEachTime ==
    /\ WaitFor <= config.maxWait
    /\ ~(WaitFor = 0 /\ reprobed)
\* MUTANT of MayWait: a wait that takes the whole of the bound is refused.
MayWaitLess ==
    /\ WaitFor < config.maxWait - slept
    /\ ~(WaitFor = 0 /\ reprobed)
\* MUTANT of MayWait: a wait of nothing may be repeated.
MayWaitForever ==
    /\ config.maxWait - slept > 0
    /\ WaitFor <= config.maxWait - slept

MayWait ==
    /\ config.maxWait - slept > 0
    /\ WaitFor <= config.maxWait - slept
    /\ ~(WaitFor = 0 /\ reprobed)

\* Healthy: the preflight hands over what it slept and the final token is
\* minted; the final stage exposes it.
Pass ==
    /\ pc = "answered"
    /\ Deficient(report) = {}
    /\ pc' = IF stage = "preflight" THEN "mint" ELSE "exposed"
    /\ report' = NoReport
    /\ UNCHANGED <<budget, config, stage, attempt, slept, reprobed, left,
                   waited, running, excused>>

Sleep ==
    /\ pc = "answered"
    /\ Deficient(report) # {}
    /\ MayWait
    /\ pc' = "sleep"
    /\ left' = WaitFor
    /\ slept' = slept + WaitFor
    /\ reprobed' = (WaitFor = 0)
    /\ report' = NoReport
    /\ UNCHANGED <<budget, config, stage, attempt, waited, running, excused>>

GiveUp ==
    /\ pc = "answered"
    /\ Deficient(report) # {}
    /\ ~MayWait
    /\ pc' = "gaveUp"
    /\ report' = NoReport
    /\ UNCHANGED <<budget, config, stage, attempt, slept, reprobed, left,
                   waited, running, excused>>

Wake ==
    /\ pc = "sleep" /\ left = 0
    /\ pc' = "probe"
    /\ UNCHANGED <<budget, config, stage, attempt, report, slept, reprobed,
                   left, waited, running, excused>>

\* MUTANT of Mint: the final stage is not told what the preflight slept.
MintForgetful ==
    /\ pc = "mint"
    /\ pc' = "probe" /\ stage' = "final" /\ reprobed' = FALSE /\ slept' = 0
    /\ UNCHANGED <<budget, config, attempt, report, left, waited, running, excused>>

\* The steps `final-token` and `final-budget` of the action: a new process that
\* starts from `slept-seconds` of the preflight.
Mint ==
    /\ pc = "mint"
    /\ \/ pc' = "probe" /\ stage' = "final" /\ reprobed' = FALSE
       \/ pc' = "failed" /\ UNCHANGED <<stage, reprobed>>
    /\ UNCHANGED <<budget, config, attempt, report, slept, left, waited,
                   running, excused>>

Step == Probe \/ Retry \/ Pass \/ Sleep \/ GiveUp \/ Wake \/ Mint

-----------------------------------------------------------------------------
(* GitHub, the clock and the other users of the installation.                *)

Earlier(d) == IF d > 0 THEN d - 1 ELSE d

\* One unit of time.  An answer ages; what it says of a reset may be overdue.
Tick ==
    /\ pc \notin Ended
    /\ untilReset' = [r \in Resource |-> Earlier(untilReset[r])]
    /\ report' = IF pc = "answered"
                 THEN [r \in Resource |->
                          [remaining |-> report[r].remaining,
                           reset |-> Larger(report[r].reset - 1, Overdue)]]
                 ELSE report
    /\ running' = {r \in running : untilReset'[r] > 0}
    /\ left' = Earlier(left)
    /\ waited' = IF pc = "sleep" /\ left > 0 THEN waited + 1 ELSE waited
    /\ UNCHANGED <<remaining, config, stage, pc, attempt, slept, reprobed, excused>>

Renew(r) ==
    /\ pc \notin Ended
    /\ untilReset[r] = 0
    /\ remaining' = [remaining EXCEPT ![r] = Limit]
    /\ untilReset' = [untilReset EXCEPT ![r] = Window]
    /\ UNCHANGED <<config, stage, pc, attempt, report, slept, reprobed, left,
                   waited, running, excused>>

Spend(r) ==
    /\ pc \notin Ended
    /\ untilReset[r] > 0 /\ remaining[r] > 0
    /\ remaining' = [remaining EXCEPT ![r] = @ - 1]
    /\ excused' = TRUE
    /\ UNCHANGED <<untilReset, config, stage, pc, attempt, report, slept,
                   reprobed, left, waited, running>>

Next ==
    \/ Step
    \/ Tick
    \/ \E r \in Resource : Renew(r) \/ Spend(r)

\* Each call of the program returns and time passes.  GitHub owes no renewal
\* and nobody owes a rest.
Fairness == WF_vars(Step) /\ WF_vars(Tick)
Spec == Init /\ [][Next]_vars /\ Fairness

-----------------------------------------------------------------------------
(* Properties                                                                *)

\* What the parts of the state may be.
TypeOK ==
    /\ remaining \in [Resource -> 0..Limit]
    /\ untilReset \in [Resource -> 0..Window]
    /\ config \in Config
    /\ stage \in {"preflight", "final"}
    /\ pc \in {"probe", "retry", "answered", "sleep", "mint"} \cup Ended
    /\ attempt \in 1..3
    /\ report \in [Resource -> [remaining : 0..Limit, reset : Overdue..Window]]
    /\ slept \in 0..config.maxWait
    /\ reprobed \in BOOLEAN
    /\ left \in Nat
    /\ waited \in Nat
    /\ running \subseteq Resource
    /\ excused \in BOOLEAN

\* The time both stages together really spend waiting for a budget never
\* exceeds the one bound of the action ("Both stages share the configured
\* aggregate wait bound").
WaitIsBounded == waited <= config.maxWait

\* If the cushion and the jitter cover the skew, every budget the run waited for
\* is in a new window when it asks again: it never asks too early and burns
\* its bound on the same window twice.
AsksInANewWindow ==
    (pc \in {"probe", "retry", "mint"} /\ Skew <= config.cushion + config.jitter)
        => running = {}

\* The bound covers one whole window, as the defaults of the action do (3900
\* seconds for a window of 3600), and the minima can be met at all.
Generous ==
    /\ config.maxWait >= AtLeastZero(Window - Skew) + config.cushion + config.jitter
    /\ Skew <= config.cushion + config.jitter
    /\ config.cushion + config.jitter > 0
    /\ \A r \in Resource : config.minimum[r] <= Limit

\* With such a bound the run gives up only if somebody spent from the budgets
\* meanwhile or GitHub answered from a window that was over: alone it always gets
\* its token.
GiveUpIsExcused == (pc = "gaveUp" /\ Generous) => excused

\* The inductive invariant.  Each second waited was first added to `slept`; a delay
\* outlasts the windows it is for; and while nobody interferes, a budget is
\* sufficient, or awaited, or at its reset, from the first answer on.
WaitIsAccounted == waited + (IF pc = "sleep" THEN left ELSE 0) <= slept
RunningIsCurrent ==
    \A r \in running :
        /\ untilReset[r] > 0
        /\ pc = "answered" => r \in Deficient(report) /\ report[r].reset = untilReset[r]
DelayCoversWindows ==
    Skew <= config.cushion + config.jitter =>
        /\ pc \in {"probe", "retry", "mint"} => running = {}
        /\ pc = "sleep" => \A r \in running : untilReset[r] <= left
BudgetsRecover ==
    (Generous /\ ~excused) =>
        /\ pc # "gaveUp"
        /\ (pc = "answered" \/ slept > 0) =>
               \A r \in Resource : \/ remaining[r] >= config.minimum[r]
                                  \/ r \in running
                                  \/ untilReset[r] = 0
        /\ (pc = "answered" /\ slept > 0) => Deficient(report) = {}
        /\ slept = 0 => ~reprobed

IInv == TypeOK /\ WaitIsAccounted /\ RunningIsCurrent /\ DelayCoversWindows /\ BudgetsRecover

\* How far the run is from its end at most: the waits the bound still pays for,
\* the one free wait of nothing before each, the stage ahead, and the place in
\* the round.
Rounds ==
      2 * (config.maxWait - slept)
    + (IF reprobed THEN 0 ELSE 1)
    + (IF stage = "preflight" THEN 2 ELSE 0)
Place ==
    CASE pc = "sleep" -> 8
      [] pc = "retry" -> 10 - 2 * attempt
      [] pc = "probe" -> 9 - 2 * attempt
      [] pc = "answered" -> 2
      [] pc = "mint" -> 1
      [] OTHER -> 0
StepsAhead == 10 * Rounds + Place

\* No answer of GitHub, no clock and no failed probe ever lengthens a run, and
\* each step of the program shortens it: there is no cycle of waits of nothing,
\* across the stages neither, and no probe is retried without end.
RunsShorten ==
    [][ /\ StepsAhead' <= StepsAhead
        /\ pc' # pc => StepsAhead' < StepsAhead ]_vars

\* Every run of the action ends, also when GitHub never renews a window.
RunEnds == <>(pc \in Ended)
=============================================================================
