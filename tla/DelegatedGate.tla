---------------------------- MODULE DelegatedGate ----------------------------
(***************************************************************************)
(* The delegated pre-push gate: worktrees push, each push starts a gate    *)
(* client (gate_remote_delegate run), the client publishes its tree to a   *)
(* git mirror, submits a Kubernetes Job that fetches and judges the tree,  *)
(* polls it within a budget, collects the refs it published, and turns the *)
(* answer into a verdict and a green token.  An hourly sweep collects what *)
(* a client left on the mirror.                                            *)
(*                                                                         *)
(* A tree is a model value; whether its suite passes is Green.  Faults are *)
(* part of the actions: a git or kubectl call may be refused, may take     *)
(* effect and have its answer lost, or may answer something unreadable; a  *)
(* push may be interrupted at any step; a Job may be evicted; the owner of *)
(* a worktree may commit at any step.                                      *)
(*                                                                         *)
(* Bounds: Run (gate runs ever started), MaxPolls (poll budget), MaxMoves  *)
(* (commits made while gates run).                                         *)
(***************************************************************************)
EXTENDS Naturals, FiniteSets

CONSTANTS
    Worktree,      \* pushing worktrees
    Run,           \* nonces: one per delegated run
    Tree,          \* committed trees
    Green,         \* the trees on which the gate suite passes
    Private,       \* worktrees whose repository names a private sibling
    None,          \* "no value"
    MaxPolls,      \* status reads one run may make
    MaxMoves,      \* bound on commits
    LostCreate,    \* a create may take effect although kubectl reports failure
    Slip,          \* a commit may land between the confirmation and the token
    WriteFails     \* the token file may be unwritable

ASSUME TreeAssumption == Green \subseteq Tree /\ None \notin Tree
ASSUME RunAssumption == None \notin Run
ASSUME PollAssumption == MaxPolls \in Nat \ {0} /\ MaxMoves \in Nat
ASSUME FaultAssumption == {LostCreate, Slip, WriteFails} \subseteq BOOLEAN

VARIABLES
    head,       \* the tree at HEAD of each worktree
    token,      \* the tree each worktree's green token names
    client,     \* the gate client of each worktree's current push
    mirror,     \* the refs under refs/gates, by name
    job,        \* the gate Job of each run
    published,  \* pushes that completed: the run and tree that let them
    moves       \* commits so far

vars == <<head, token, client, mirror, job, published, moves>>

\* per_run_gate_ref: the ref of a run is named by the tree and the run's nonce.
Ref == [tree : Tree, nonce : Run]
ASSUME RefAssumption == None \notin Ref
\* A ref name two runs of one tree share.
GateRefOfTheTree(t, r) == [tree |-> t, nonce |-> CHOOSE q \in Run : TRUE]
GateRef(t, r) == [tree |-> t, nonce |-> r]

\* What lies under a ref's name and under its ".base" companion, and whether
\* the push is older than the sweep's cut-off.
Entry == [tree : Tree \cup {None}, base : BOOLEAN, old : BOOLEAN]
Absent == [tree |-> None, base |-> FALSE, old |-> FALSE]

ClientState ==
    [ pc : {"idle", "token", "members", "assemble", "authority", "publish",
            "submit", "deliver", "poll", "abandon", "stream", "collect",
            "confirm", "write", "decide"},
      run : Run \cup {None},                           \* this push's nonce
      ref : Ref \cup {None},                           \* request.gate_ref
      granted : BOOLEAN,                               \* host authority members
      judged : Tree \cup {None},                       \* tree those members saw
      outcome : {"none", "Complete", "Failed"},        \* what run_gate carries
      polls : 0 .. MaxPolls,
      verdict : {"none", "PASSED", "FAILED", "NO_VERDICT", "HOST_AUTHORITY_REFUSED"},
      answer : {"none", "asked", "completed", "refused"} ]

JobState ==
    [ phase : {"none", "suspended", "admitted", "running",
               "Complete", "Failed", "gone"},
      ref : Ref \cup {None},       \* what the manifest tells the pod to fetch
      private : BOOLEAN,           \* the pod mounts the sibling Secret
      secret : BOOLEAN,            \* that Secret exists
      tree : Tree \cup {None},     \* the tree the suite ran on
      ended : {"none", "Complete", "Failed"} ]

TypeOK ==
    /\ head \in [Worktree -> Tree]
    /\ token \in [Worktree -> Tree \cup {None}]
    /\ client \in [Worktree -> ClientState]
    /\ mirror \in [Ref -> Entry]
    /\ job \in [Run -> JobState]
    /\ published \in SUBSET [run : Run \cup {None}, tree : Tree]
    /\ moves \in 0 .. MaxMoves

Idle ==
    [ pc |-> "idle", run |-> None, ref |-> None, granted |-> FALSE,
      judged |-> None, outcome |-> "none", polls |-> 0, verdict |-> "none",
      answer |-> "none" ]

NoJob ==
    [ phase |-> "none", ref |-> None, private |-> FALSE, secret |-> FALSE,
      tree |-> None, ended |-> "none" ]

Init ==
    /\ head \in [Worktree -> Tree]
    /\ token = [w \in Worktree |-> None]
    /\ client = [w \in Worktree |-> Idle]
    /\ mirror = [n \in Ref |-> Absent]
    /\ job = [r \in Run |-> NoJob]
    /\ published = {}
    /\ moves = 0

\* Nonces no run has used: uuid4 never repeats one.
Fresh == {r \in Run :
            /\ job[r].phase = "none"
            /\ \A t \in Tree : mirror[GateRef(t, r)] = Absent
            /\ \A w \in Worktree : client[w].run # r}

(***************************************************************************)
(* The client.  At(w, p) is its control location, Goto moves it, and Move   *)
(* also changes other fields of it.                                        *)
(***************************************************************************)

At(w, p) == client[w].pc = p
RunOf(w) == client[w].run
TreeOf(w) == client[w].ref.tree

Move(w, c) == client' = [client EXCEPT ![w] = c]
Goto(w, p) == Move(w, [client[w] EXCEPT !.pc = p])

\* The hook exits, and git completes or refuses the push.
Answer(w, a) == Move(w, [client[w] EXCEPT !.pc = "idle", !.answer = a])
Refuse(w, v) ==
    Move(w, [client[w] EXCEPT !.pc = "idle", !.answer = "refused", !.verdict = v])
NoVerdict(w) == Refuse(w, "NO_VERDICT")

\* git push runs the pre-push hook.
StartPush(w) ==
    /\ At(w, "idle") /\ client[w].answer = "none"
    /\ client' = [client EXCEPT ![w] = [Idle EXCEPT !.pc = "token", !.answer = "asked"]]
    /\ UNCHANGED <<head, token, mirror, job, published, moves>>

\* The answered push is history; the worktree may push again.
Return(w) ==
    /\ At(w, "idle") /\ client[w].answer \in {"completed", "refused"}
    /\ client' = [client EXCEPT ![w] = Idle]
    /\ UNCHANGED <<head, token, mirror, job, published, moves>>

\* green_token check: a token for HEAD's tree in a clean worktree stands in for
\* the tree-pure members.
CheckToken(w) ==
    /\ At(w, "token")
    /\ \/ /\ token[w] = head[w]
          /\ Move(w, [client[w] EXCEPT !.pc = "members", !.judged = head[w]])
       \/ Goto(w, "assemble")           \* absent, stale, or dirty
    /\ UNCHANGED <<head, token, mirror, job, published, moves>>

\* The world-reading members decide a memoized push.
RunMembers(w) ==
    /\ At(w, "members")
    /\ \/ /\ Answer(w, "completed")
          /\ published' = published \cup {[run |-> None, tree |-> client[w].judged]}
       \/ Answer(w, "refused") /\ UNCHANGED published
    /\ UNCHANGED <<head, token, mirror, job, moves>>

\* gate_remote_request: read HEAD's tree, name the ref, mint, render.
Assemble(w) ==
    /\ At(w, "assemble")
    /\ \/ \E r \in Fresh :
             Move(w, [client[w] EXCEPT !.pc = "authority", !.run = r,
                                       !.ref = GateRef(head[w], r)])
       \/ NoVerdict(w)
    /\ UNCHANGED <<head, token, mirror, job, published, moves>>

\* run_host_authority_members: run in the worktree as it is now; a member that
\* cannot be evaluated answers as a refusal.
RunAuthority(w) ==
    /\ At(w, "authority")
    /\ \E ok \in BOOLEAN :
          Move(w, [client[w] EXCEPT !.pc = "publish", !.granted = ok,
                                    !.judged = head[w]])
    /\ UNCHANGED <<head, token, mirror, job, published, moves>>

\* Sends a publication again when its answer was lost.
PublishAnew(w) ==
    LET arrive == [mirror EXCEPT ![client[w].ref] =
                      [tree |-> head[w], base |-> TRUE, old |-> FALSE]]
    IN  /\ At(w, "publish")
        /\ \/ mirror' = arrive /\ Goto(w, "submit")
           \/ mirror' = arrive /\ UNCHANGED client
           \/ UNCHANGED mirror /\ NoVerdict(w)
        /\ UNCHANGED <<head, token, job, published, moves>>

\* run_gate: HEAD and origin/master go to the mirror in one atomic push.  When
\* git reports failure the client leaves at once, whether or not they arrived.
Publish(w) ==
    LET arrive == [mirror EXCEPT ![client[w].ref] =
                      [tree |-> head[w], base |-> TRUE, old |-> FALSE]]
    IN  /\ At(w, "publish")
        /\ \/ mirror' = arrive /\ Goto(w, "submit")
           \/ mirror' = arrive /\ NoVerdict(w)
           \/ UNCHANGED mirror /\ NoVerdict(w)
        /\ UNCHANGED <<head, token, job, published, moves>>

Submitted(w) ==
    job' = [job EXCEPT ![RunOf(w)] =
               [NoJob EXCEPT !.phase = "suspended", !.ref = client[w].ref,
                             !.private = w \in Private]]

\* kubectl create.  A refused create lets the client collect its refs; an
\* answer without a readable name does not.
Submit(w) ==
    /\ At(w, "submit")
    /\ \/ Submitted(w) /\ Goto(w, IF w \in Private THEN "deliver" ELSE "poll")
       \/ Submitted(w) /\ NoVerdict(w)                             \* unreadable
       \/ LostCreate /\ Submitted(w) /\ Goto(w, "collect")   \* answer lost
       \/ UNCHANGED job /\ Goto(w, "collect")                \* refused
    /\ UNCHANGED <<head, token, mirror, published, moves>>

\* The Secret with the sibling token, owned by the Job.
Deliver(w) ==
    LET delivered == [job EXCEPT ![RunOf(w)].secret = TRUE]
    IN  /\ At(w, "deliver")
        /\ \/ job' = delivered /\ Goto(w, "poll")
           \/ job' = delivered /\ Goto(w, "abandon")
           \/ UNCHANGED job /\ Goto(w, "abandon")
        /\ UNCHANGED <<head, token, mirror, published, moves>>

\* One status read of _await_terminal_state.  A refused read and a Job that
\* still runs cost one poll each; the last one ends the wait.
Terminal(r) == job[r].phase \in {"Complete", "Failed"}

\* One poll more than the budget; a budget that starts over; a wait that
\* ends as a red answer.
SpendPollTooMany(w) ==
    LET spent == client[w].polls + 1
    IN  Move(w, [client[w] EXCEPT !.pc = IF spent > MaxPolls THEN "abandon" ELSE "poll",
                                  !.polls = spent])
SpendPollAnew(w) == Move(w, [client[w] EXCEPT !.polls = (@ + 1) % MaxPolls])
SpendPollAsRed(w) ==
    IF client[w].polls + 1 = MaxPolls
      THEN Move(w, [client[w] EXCEPT !.pc = "collect", !.outcome = "Failed"])
      ELSE Move(w, [client[w] EXCEPT !.polls = @ + 1])

SpendPoll(w) ==
    LET spent == client[w].polls + 1
    IN  Move(w, [client[w] EXCEPT !.pc = IF spent = MaxPolls THEN "abandon" ELSE "poll",
                                  !.polls = spent])

Poll(w) ==
    /\ At(w, "poll")
    /\ \/ /\ Terminal(RunOf(w))
          /\ Move(w, [client[w] EXCEPT !.pc = "stream",
                                       !.outcome = job[RunOf(w)].phase])
       \/ SpendPoll(w)             \* still running, or the read was refused
       \/ Goto(w, "abandon")       \* unreadable status
    /\ UNCHANGED <<head, token, mirror, job, published, moves>>

\* _delete_abandoned_gate_job; a failed delete is only reported.
Abandon(w) ==
    /\ At(w, "abandon")
    /\ \/ job' = [job EXCEPT ![RunOf(w)].phase = "gone"]
       \/ UNCHANGED job
    /\ NoVerdict(w)
    /\ UNCHANGED <<head, token, mirror, published, moves>>

\* kubectl logs: its exit code is observational, but it must start.
Stream(w) ==
    /\ At(w, "stream")
    /\ \/ Goto(w, "collect")
       \/ Move(w, [client[w] EXCEPT !.pc = "collect", !.outcome = "none"])
    /\ UNCHANGED <<head, token, mirror, job, published, moves>>

\* _delete_gate_ref: both refs in one push, which git refuses when one of them
\* is not on the mirror.  A failed delete costs a green run its verdict.
Collect(w) ==
    LET there == mirror[client[w].ref].tree # None /\ mirror[client[w].ref].base
        gone == mirror' = [mirror EXCEPT ![client[w].ref] = Absent]
        next == IF client[w].outcome # "none" THEN Goto(w, "confirm")
                                              ELSE NoVerdict(w)
    IN  /\ At(w, "collect")
        /\ \/ there /\ gone /\ next
           \/ there /\ gone /\ NoVerdict(w)
           \/ UNCHANGED mirror /\ NoVerdict(w)
        /\ UNCHANGED <<head, token, job, published, moves>>

\* Confirms a green Job without reading HEAD again.
ConfirmUnread(w) ==
    /\ At(w, "confirm")
    /\ \/ /\ client[w].outcome = "Failed"
          /\ Refuse(w, "FAILED")
       \/ /\ client[w].outcome = "Complete"
          /\ Move(w, [client[w] EXCEPT !.pc = "write", !.verdict = "PASSED"])
    /\ UNCHANGED <<head, token, mirror, job, published, moves>>

\* _adjudicate: a Job that did not complete is red; a green one is confirmed
\* against HEAD's tree, read again.
Confirm(w) ==
    /\ At(w, "confirm")
    /\ \/ /\ client[w].outcome = "Failed"
          /\ Refuse(w, "FAILED")
       \/ /\ client[w].outcome = "Complete"
          /\ \/ /\ head[w] = TreeOf(w)
                /\ Move(w, [client[w] EXCEPT !.pc = "write", !.verdict = "PASSED"])
             \/ Refuse(w, "PASSED")   \* moved, unreadable
    /\ UNCHANGED <<head, token, mirror, job, published, moves>>

\* `green_token write` reads HEAD's tree again, in a process of its own, and
\* exits 0 whether or not it could write.
WriteToken(w) ==
    /\ At(w, "write")
    /\ \/ /\ token' = [token EXCEPT ![w] = head[w]]
          /\ Goto(w, "decide")
       \/ WriteFails /\ UNCHANGED token /\ Goto(w, "decide")
       \/ UNCHANGED token /\ Answer(w, "refused")        \* never ran
    /\ UNCHANGED <<head, mirror, job, published, moves>>

\* host_authority_decision, and the exit status of the hook.
Decide(w) ==
    /\ At(w, "decide")
    /\ \/ /\ client[w].granted
          /\ Answer(w, "completed")
          /\ published' = published \cup {[run |-> RunOf(w), tree |-> TreeOf(w)]}
       \/ /\ ~ client[w].granted
          /\ Refuse(w, "HOST_AUTHORITY_REFUSED")
          /\ UNCHANGED published
    /\ UNCHANGED <<head, token, mirror, job, moves>>

\* The push is interrupted, or its host dies: nothing is cleaned up.
Interrupt(w) ==
    /\ ~ At(w, "idle")
    /\ Answer(w, "refused")
    /\ UNCHANGED <<head, token, mirror, job, published, moves>>

ClientStep(w) ==
    \/ CheckToken(w) \/ RunMembers(w) \/ Assemble(w) \/ RunAuthority(w)
    \/ Publish(w) \/ Submit(w) \/ Deliver(w) \/ Poll(w) \/ Abandon(w)
    \/ Stream(w) \/ Collect(w) \/ Confirm(w) \/ WriteToken(w) \/ Decide(w)

(***************************************************************************)
(* The worktree's owner.                                                   *)
(***************************************************************************)

Commit(w) ==
    /\ moves < MaxMoves
    /\ At(w, "write") => Slip
    /\ \E t \in Tree \ {head[w]} : head' = [head EXCEPT ![w] = t]
    /\ moves' = moves + 1
    /\ UNCHANGED <<token, client, mirror, job, published>>

(***************************************************************************)
(* The cluster (gate-job-template.yaml, run by Kueue and the Job           *)
(* controller).                                                            *)
(***************************************************************************)

JobStep(r, from, to) ==
    /\ job[r].phase = from
    /\ job' = [job EXCEPT ![r].phase = to]

End(r, how) == job' = [job EXCEPT ![r].phase = how, ![r].ended = how]

Admit(r) ==
    /\ JobStep(r, "suspended", "admitted")
    /\ UNCHANGED <<head, token, client, mirror, published, moves>>

\* Judges whatever the ref holds.
FetchUnchecked(r) ==
    LET entry == mirror[job[r].ref]
    IN  /\ job[r].phase = "admitted"
        /\ job[r].private => job[r].secret
        /\ IF entry.base /\ entry.tree # None
             THEN job' = [job EXCEPT ![r].phase = "running", ![r].tree = entry.tree]
             ELSE End(r, "Failed")
        /\ UNCHANGED <<head, token, client, mirror, published, moves>>

\* The initContainer fetches both refs and compares the tree; the pod does not
\* start before its Secret exists.
Fetch(r) ==
    LET entry == mirror[job[r].ref]
    IN  /\ job[r].phase = "admitted"
        /\ job[r].private => job[r].secret
        /\ IF entry.base /\ entry.tree = job[r].ref.tree
             THEN job' = [job EXCEPT ![r].phase = "running", ![r].tree = entry.tree]
             ELSE End(r, "Failed")
        /\ UNCHANGED <<head, token, client, mirror, published, moves>>

\* The suite exits; with backoffLimit 0 an evicted pod fails the Job as well.
Judge(r) ==
    /\ job[r].phase = "running"
    /\ \/ job[r].tree \in Green /\ End(r, "Complete")
       \/ End(r, "Failed")
    /\ UNCHANGED <<head, token, client, mirror, published, moves>>

\* ttlSecondsAfterFinished.
Expire(r) ==
    /\ Terminal(r)
    /\ job' = [job EXCEPT ![r].phase = "gone"]
    /\ UNCHANGED <<head, token, client, mirror, published, moves>>

JobSteps(r) == Admit(r) \/ Fetch(r) \/ Judge(r) \/ Expire(r)

(***************************************************************************)
(* The mirror's sweep (prune-gate-refs.sh): the two refs of a run are aged *)
(* by their push and deleted one by one.                                   *)
(***************************************************************************)

Age(n) ==
    /\ mirror[n] # Absent /\ ~ mirror[n].old
    /\ mirror' = [mirror EXCEPT ![n].old = TRUE]
    /\ UNCHANGED <<head, token, client, job, published, moves>>

\* Deleting the second of the two leaves nothing behind.
Swept(n, e) ==
    mirror' = [mirror EXCEPT ![n] = IF e.tree = None /\ ~ e.base THEN Absent ELSE e]

SweepTree(n) ==
    /\ mirror[n].old /\ mirror[n].tree # None
    /\ Swept(n, [mirror[n] EXCEPT !.tree = None])
    /\ UNCHANGED <<head, token, client, job, published, moves>>

\* Finds a run's base by its tree ref, and so not once that is gone.
SweepBaseBesideTree(n) ==
    /\ mirror[n].old /\ mirror[n].base /\ mirror[n].tree # None
    /\ Swept(n, [mirror[n] EXCEPT !.base = FALSE])
    /\ UNCHANGED <<head, token, client, job, published, moves>>

SweepBase(n) ==
    /\ mirror[n].old /\ mirror[n].base
    /\ Swept(n, [mirror[n] EXCEPT !.base = FALSE])
    /\ UNCHANGED <<head, token, client, job, published, moves>>

Sweep(n) == Age(n) \/ SweepTree(n) \/ SweepBase(n)

-----------------------------------------------------------------------------
Next ==
    \/ \E w \in Worktree :
          StartPush(w) \/ Return(w) \/ ClientStep(w) \/ Interrupt(w) \/ Commit(w)
    \/ \E r \in Run : JobSteps(r)
    \/ \E n \in Ref : Sweep(n)

\* A client's next call returns, and the sweep's timer fires.  The cluster owes
\* nothing: a Job may wait for admission for ever.
Fairness ==
    /\ \A w \in Worktree : WF_vars(ClientStep(w))
    /\ \A n \in Ref : WF_vars(Sweep(n))

Spec == Init /\ [][Next]_vars /\ Fairness

-----------------------------------------------------------------------------
(***************************************************************************)
(* Properties.                                                             *)
(***************************************************************************)

\* The trees a gate Job judged and found green.
JudgedGreen == {job[r].tree : r \in {q \in Run : job[q].ended = "Complete"}}

\* A push that a delegated run let through was judged green by the Job of that
\* very run, on the tree the run was assembled for.
PublishedByItsOwnRun ==
    \A p \in published : p.run # None =>
        job[p.run].ended = "Complete" /\ job[p.run].tree = p.tree

\* A green token names a tree that some gate Job judged green, so a memoized
\* push publishes nothing that was never gated.
TokenIsEarned == \A w \in Worktree : token[w] \in JudgedGreen \cup {None}

\* "Red" is never invented: it is reported only when the run's own Job ended
\* Failed, whatever git and kubectl calls were refused or lost on the way.
FailedIsTheJobsAnswer ==
    \A w \in Worktree :
        client[w].verdict = "FAILED" => job[RunOf(w)].ended = "Failed"

\* Before the sweep's cut-off nobody takes a ref from under a Job that has not
\* fetched it yet, its own client included.
NoCollectionUnderALiveJob ==
    [][ \A r \in Run :
          job[r].phase \in {"suspended", "admitted"} /\ ~ mirror[job[r].ref].old
            => mirror'[job[r].ref].tree # None \/ mirror[job[r].ref].tree = None ]_vars

\* How much of a run lies under its name on the mirror: the tree, the base, and
\* the time until the sweep may take them.
Weight(e) ==
      (IF e.tree # None THEN 1 ELSE 0)
    + (IF e.base THEN 1 ELSE 0)
    + (IF e # Absent /\ ~ e.old THEN 1 ELSE 0)

\* A client pushes under a name that holds nothing, so no run's tree is written
\* over, and what is under a name only ever gets less until nothing is left:
\* the sweep never undoes what a collection did, nor either its own work.
RefsOnlyShrink ==
    [][ \A n \in Ref : mirror'[n] # mirror[n] =>
          \/ Weight(mirror'[n]) < Weight(mirror[n])
          \/ mirror[n] = Absent /\ \E w \in Worktree : At(w, "publish") /\ client[w].ref = n ]_vars

\* Whatever happened to its client, no ref stays on the mirror for ever.
MirrorDrains == \A n \in Ref : mirror[n] # Absent ~> mirror[n] = Absent

\* What the pusher is promised (GatePromise): every push is answered, and one
\* that completes stands on a tree that was judged green.
Promise ==
    INSTANCE GatePromise WITH
        answer <- [w \in Worktree |-> client[w].answer],
        judged <- JudgedGreen,
        completed <- {p.tree : p \in published}
GatePromised == Promise!Spec

\* A push completes only on a tree the gate suite passes on, memoized or not,
\* whatever calls were lost and whenever the worktree's owner committed.
OnlyGreenCompletes == Promise!Sound

\* The calls a client can still make before it has answered: one for each stage
\* ahead of it, and one for each status read it has left.
StepsLeft(p, polls) ==
    CASE p = "idle" -> 0
      [] p \in {"members", "abandon", "decide"} -> 1
      [] p = "write" -> 2
      [] p = "confirm" -> 3
      [] p = "collect" -> 4
      [] p = "stream" -> 5
      [] p = "poll" -> 5 + (MaxPolls - polls)
      [] p = "deliver" -> 6 + MaxPolls
      [] p = "submit" -> 7 + MaxPolls
      [] p = "publish" -> 8 + MaxPolls
      [] p = "authority" -> 9 + MaxPolls
      [] p = "assemble" -> 10 + MaxPolls
      [] p = "token" -> 11 + MaxPolls
Left(w) == StepsLeft(client[w].pc, client[w].polls)

\* Whatever is refused, lost or unreadable, every call of a client brings its
\* push nearer to an answer, and none is left to make only when it has one: a
\* push is answered within 11 + MaxPolls calls.
AnswerNears ==
    [][ \A w \in Worktree : client[w].answer = "asked" /\ client'[w] # client[w] =>
          /\ Left(w)' < Left(w)
          /\ Left(w)' = 0 => client'[w].answer \in {"completed", "refused"} ]_vars

(***************************************************************************)
(* The inductive invariant behind PublishedByItsOwnRun,                    *)
(* FailedIsTheJobsAnswer and TokenIsEarned.                                *)
(***************************************************************************)

\* No two clients share a run.
RunsAreExclusive ==
    \A v, w \in Worktree : RunOf(v) = RunOf(w) /\ RunOf(v) # None => v = w

\* A client names its run before it publishes, has no Job before it submits
\* one, and has budget left whenever it polls.
InStep(c) ==
    /\ c.pc \notin {"idle", "token", "members", "assemble"} =>
          c.run # None /\ c.ref # None
    /\ c.pc \in {"authority", "publish", "submit"} => job[c.run].phase = "none"
    /\ c.pc \in {"deliver", "poll", "abandon"} =>
          job[c.run].phase # "none" /\ job[c.run].ref = c.ref
    /\ c.pc \in {"token", "members", "assemble", "authority", "publish", "submit",
                "deliver", "poll"} => c.polls < MaxPolls /\ c.outcome = "none"
    /\ c.pc # "idle" => c.verdict \in {"none", "PASSED"}
    /\ c.pc = "members" => c.judged # None
ClientsKeepStep == \A w \in Worktree : InStep(client[w])

\* What a client carries as its outcome is what its own Job, on its own ref,
\* ended with, and only a complete one reaches the token.
OwnOutcome(c) ==
    /\ c.outcome # "none" =>
          /\ c.run # None /\ c.ref # None
          /\ job[c.run].ended = c.outcome
          /\ job[c.run].ref = c.ref
    /\ c.pc \in {"write", "decide"} => c.outcome = "Complete"
    /\ c.verdict = "FAILED" => c.outcome = "Failed"
OutcomesAreOwn == \A w \in Worktree : OwnOutcome(client[w])

\* A Job ends once, and a complete one judged the tree its ref is named for.
JudgesItsRef(j) ==
    /\ j.phase # "none" => j.ref # None
    /\ j.phase \in {"none", "suspended", "admitted", "running"} => j.ended = "none"
    /\ j.phase \in {"Complete", "Failed"} => j.ended = j.phase
    /\ j.phase = "running" \/ j.ended = "Complete" => j.tree = j.ref.tree
JobsJudgeTheirRef == \A r \in Run : JudgesItsRef(job[r])

\* The tree a token is about to be written for is the one the client confirmed.
HeadStaysConfirmed ==
    ~ Slip => \A w \in Worktree : At(w, "write") => head[w] = TreeOf(w)
TokensEarned == ~ Slip => TokenIsEarned

IInv ==
    /\ TypeOK
    /\ RunsAreExclusive
    /\ ClientsKeepStep
    /\ OutcomesAreOwn
    /\ JobsJudgeTheirRef
    /\ PublishedByItsOwnRun
    /\ HeadStaysConfirmed
    /\ TokensEarned

(***************************************************************************)
(* What it takes besides for NoCollectionUnderALiveJob: a ref is its run's *)
(* own, and while no create is lost a client that is past its Job's end,   *)
(* or never had one, is all that collects it.                              *)
(***************************************************************************)

Awaiting(r) == job[r].phase \in {"suspended", "admitted"}

NoncesAreRuns ==
    /\ \A w \in Worktree : client[w].ref # None =>
          RunOf(w) # None /\ client[w].ref.nonce = RunOf(w)
    /\ \A r \in Run : job[r].ref # None => job[r].ref.nonce = r
CollectsAfterItsJob ==
    ~ LostCreate => \A w \in Worktree :
        client[w].pc \in {"stream", "collect"} => ~ Awaiting(RunOf(w))
CollectionsAreOwn == NoncesAreRuns /\ CollectsAfterItsJob

(***************************************************************************)
(* What it takes besides for the safety half of GatePromised: whoever is   *)
(* at work was asked, and a memoized push is of a tree that was judged.    *)
(***************************************************************************)

WorksWhenAsked == \A w \in Worktree : ~ At(w, "idle") => client[w].answer = "asked"
MemoizedIsJudged ==
    ~ Slip => \A w \in Worktree : At(w, "members") => client[w].judged \in JudgedGreen
AskedInv == WorksWhenAsked /\ MemoizedIsJudged
=============================================================================
