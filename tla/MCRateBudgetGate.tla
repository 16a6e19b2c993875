-------------------------- MODULE MCRateBudgetGate --------------------------
\* RateBudgetGate with windows of three units, delays of one, and inputs on both sides of
\* each boundary.
EXTENDS RateBudgetGate, TLC

\* No bound at all, one unit short of a window, a window exactly, and two; a
\* wait of nothing; minima above one.
Inputs(minimum, cushion, jitter, maxWait) ==
    [minimum |-> minimum, cushion |-> cushion, jitter |-> jitter, maxWait |-> maxWait]
Lowest == [r \in Resource |-> 1]
CoreHeavy == [r \in Resource |-> IF r = "core" THEN 2 ELSE 1]
SomeConfigs ==
    { Inputs(Lowest, 0, 0, 3), Inputs(Lowest, 1, 1, 0), Inputs(CoreHeavy, 1, 0, 3),
      Inputs(Lowest, 1, 1, 5) }
OneSecondEach == [i \in 1..2 |-> 1]
=============================================================================
