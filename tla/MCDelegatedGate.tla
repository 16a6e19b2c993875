--------------------------- MODULE MCDelegatedGate ---------------------------
\* DelegatedGate with one worktree, one or two runs and two trees, of which one
\* passes the suite.
EXTENDS DelegatedGate, TLC

CONSTANTS w1, r1, r2, good, bad

\* Safety only, no fairness to evaluate.
SafetySpec == Init /\ [][Next]_vars
Symmetry == Permutations(Run)
=============================================================================
