----------------------------- MODULE GatePromise -----------------------------
(***************************************************************************)
(* What the delegated pre-push gate promises a pusher, with no client, no  *)
(* mirror and no cluster in sight (SPECIFICATION/contracts.md, "Delegated  *)
(* pre-push gate", Verdict): a push completes only on a tree that was      *)
(* judged green, only green trees are judged green, and every push is      *)
(* answered.                                                               *)
(***************************************************************************)
CONSTANTS Worktree, Tree, Green

VARIABLES
    answer,      \* what each worktree's current push was answered
    judged,      \* the trees that were judged green
    completed    \* the trees whose push completed

vars == <<answer, judged, completed>>

Init ==
    /\ answer = [w \in Worktree |-> "none"]
    /\ judged = {}
    /\ completed = {}

Become(w, from, to) ==
    /\ answer[w] = from
    /\ answer' = [answer EXCEPT ![w] = to]

Ask(w) == Become(w, "none", "asked") /\ UNCHANGED <<judged, completed>>

Judge ==
    /\ \E t \in Green : judged' = judged \cup {t}
    /\ UNCHANGED <<answer, completed>>

Complete(w) ==
    /\ Become(w, "asked", "completed")
    /\ \E t \in judged : completed' = completed \cup {t}
    /\ UNCHANGED judged

Refuse(w) == Become(w, "asked", "refused") /\ UNCHANGED <<judged, completed>>

Return(w) ==
    /\ Become(w, "completed", "none") \/ Become(w, "refused", "none")
    /\ UNCHANGED <<judged, completed>>

Next ==
    \/ \E w \in Worktree : Ask(w) \/ Complete(w) \/ Refuse(w) \/ Return(w)
    \/ Judge

Spec ==
    /\ Init /\ [][Next]_vars
    /\ \A w \in Worktree : WF_vars(Complete(w) \/ Refuse(w))

\* What a pusher may conclude from it: whatever completed was judged, and
\* whatever was judged passes the gate suite.
Sound == completed \subseteq judged /\ judged \subseteq Green
=============================================================================
