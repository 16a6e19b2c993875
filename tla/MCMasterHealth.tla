--------------------------- MODULE MCMasterHealth ---------------------------
\* MasterHealth on a branch of four or five commits.
EXTENDS MasterHealth, TLC

CONSTANTS unit, net, p, q

\* An ordinary breaking merge, an innocent one elsewhere, a repair, and the
\* three kinds of culprit that are not reverted.
Merged(change, pull, release, path) ==
    [change |-> change, pull |-> pull, release |-> release, path |-> path]
SomeShapes ==
    { Merged("break", TRUE, FALSE, p), Merged("plain", TRUE, FALSE, q),
      Merged("repair", TRUE, FALSE, q) }
HardShapes ==
    { Merged("break", TRUE, FALSE, p), Merged("plain", TRUE, FALSE, q),
      Merged("break", FALSE, FALSE, None), Merged("break", TRUE, TRUE, q) }

\* Safety only, no fairness to evaluate.
SafetySpec == Init /\ [][Next]_vars
=============================================================================
