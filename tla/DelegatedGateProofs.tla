------------------------- MODULE DelegatedGateProofs -------------------------
(***************************************************************************)
(* For any worktrees, runs, trees and poll budget: the inductive invariant *)
(* IInv of DelegatedGate, and from it that a delegated push is let through *)
(* by its own run's green Job, that red is never invented, that a token is *)
(* earned while no commit slips in before it is written, that refs outlive *)
(* the Jobs that wait for them, and that each step is one of GatePromise,  *)
(* so that only green trees complete; and whatever is lost, that a run's   *)
(* ref is its own, that the mirror only shrinks and that each call brings  *)
(* a push nearer its answer.                                               *)
(*                                                                         *)
(* A step moves at most one client and one Job.  The first lemmas say what *)
(* a Job may become (Evolves) and what follows for all clients, for the    *)
(* published pushes and for the tokens; the lemmas after them show that    *)
(* every action moves its client and its Job that way.                     *)
(***************************************************************************)
EXTENDS DelegatedGate, TLAPS

USE TreeAssumption, RunAssumption, PollAssumption, FaultAssumption

\* A Job that exists keeps its ref, and one that ended keeps its answer.
Evolves(r) ==
    /\ job[r].phase # "none" => job'[r].phase # "none" /\ job'[r].ref = job[r].ref
    /\ job[r].ended # "none" =>
          job'[r].ended = job[r].ended /\ job'[r].tree = job[r].tree
    /\ JudgesItsRef(job[r])'

\* A client that does not move, and whose run gets no Job, stays as it was.
Rests(w) ==
    /\ client'[w] = client[w]
    /\ RunOf(w) # None /\ job[RunOf(w)].phase = "none" => job'[RunOf(w)].phase = "none"

LEMMA JobsEvolve ==
  ASSUME IInv, TypeOK', \A r \in Run : Evolves(r),
         \A w \in Worktree : Rests(w) \/ (InStep(client[w])' /\ OwnOutcome(client[w])')
  PROVE  ClientsKeepStep' /\ OutcomesAreOwn' /\ JobsJudgeTheirRef'
  <1>1. JobsJudgeTheirRef'
    BY DEF JobsJudgeTheirRef, Evolves
  <1>2. ASSUME NEW w \in Worktree, Rests(w)
        PROVE  InStep(client[w])' /\ OwnOutcome(client[w])'
    <2>1. InStep(client[w]) /\ OwnOutcome(client[w])
      BY DEF IInv, ClientsKeepStep, OutcomesAreOwn
    <2>2. client[w] \in ClientState /\ client'[w] = client[w]
      BY <1>2 DEF IInv, TypeOK, Rests
    <2>3. RunOf(w) # None => RunOf(w) \in Run /\ Evolves(RunOf(w))
      BY <2>2 DEF RunOf, ClientState
    <2>4. InStep(client[w])'
      BY <1>2, <2>1, <2>2, <2>3 DEF InStep, Rests, Evolves, RunOf
    <2>5. RunOf(w) # None => JudgesItsRef(job[RunOf(w)]) /\ job[RunOf(w)] \in JobState
      BY <2>3 DEF IInv, TypeOK, JobsJudgeTheirRef
    <2>6. OwnOutcome(client[w])'
      BY <2>1, <2>2, <2>3, <2>5
         DEF OwnOutcome, Evolves, RunOf, JudgesItsRef, ClientState, JobState
    <2> QED
      BY <2>4, <2>6
  <1> QED
    BY <1>1, <1>2 DEF ClientsKeepStep, OutcomesAreOwn

LEMMA AnswersStand ==
  ASSUME IInv, TypeOK', \A r \in Run : Evolves(r)
  PROVE  /\ published' = published => PublishedByItsOwnRun'
         /\ JudgedGreen \subseteq JudgedGreen'
         /\ token' = token => TokensEarned'
  <1>1. published' = published => PublishedByItsOwnRun'
    BY DEF IInv, TypeOK, PublishedByItsOwnRun, Evolves
  <1>2. JudgedGreen \subseteq JudgedGreen'
    BY DEF JudgedGreen, Evolves
  <1>3. token' = token => TokensEarned'
    BY <1>2 DEF IInv, TokensEarned, TokenIsEarned
  <1> QED
    BY <1>1, <1>2, <1>3

\* What is left to show of a step that moves one client and at most its own
\* run's Job: the types, and that the moved client and the Job fit together.
LEMMA ClientMoveKeeps ==
  ASSUME IInv, TypeOK', NEW w \in Worktree, head' = head,
         \A r \in Run : Evolves(r),
         \A r \in Run \ {RunOf(w)} : job'[r] = job[r],
         \A v \in Worktree \ {w} : client'[v] = client[v],
         \A v \in Worktree \ {w} : client'[w].run # None => RunOf(v) # client'[w].run,
         InStep(client[w])', OwnOutcome(client[w])',
         client'[w].pc = "write" => head[w] = client'[w].ref.tree,
         published' = published \/ PublishedByItsOwnRun',
         token' = token \/ TokensEarned'
  PROVE  IInv'
  <1>1. RunsAreExclusive'
    BY DEF IInv, RunsAreExclusive, RunOf
  <1>2. \A v \in Worktree \ {w} : Rests(v)
    <2> TAKE v \in Worktree \ {w}
    <2>1. RunOf(v) # None => RunOf(v) \in Run /\ RunOf(v) # RunOf(w)
      BY DEF IInv, TypeOK, ClientState, RunsAreExclusive, RunOf
    <2> QED
      BY <2>1 DEF Rests
  <1>3. ClientsKeepStep' /\ OutcomesAreOwn' /\ JobsJudgeTheirRef'
    BY <1>2, JobsEvolve
  <1>4. HeadStaysConfirmed'
    BY DEF IInv, HeadStaysConfirmed, At, TreeOf
  <1>5. PublishedByItsOwnRun' /\ TokensEarned'
    BY AnswersStand
  <1> QED
    BY <1>1, <1>3, <1>4, <1>5 DEF IInv

LEMMA JobsRest ==
  ASSUME IInv, job' = job
  PROVE  \A r \in Run : Evolves(r)
  BY DEF IInv, JobsJudgeTheirRef, Evolves, JudgesItsRef

\* The client of w steps to p, with this verdict and outcome, and nothing else
\* of what the invariant reads changes in any client.
Steps(w, p, verdict, outcome) ==
    /\ client' \in [Worktree -> ClientState]
    /\ \A v \in Worktree \ {w} : client'[v] = client[v]
    /\ client'[w].pc = p /\ client'[w].verdict = verdict /\ client'[w].outcome = outcome
    /\ client'[w].run = client[w].run /\ client'[w].ref = client[w].ref
    /\ client'[w].polls = client[w].polls

LEMMA Moved ==
  ASSUME TypeOK, NEW w \in Worktree, NEW c \in ClientState, Move(w, c)
  PROVE  /\ client' \in [Worktree -> ClientState]
         /\ \A v \in Worktree \ {w} : client'[v] = client[v]
         /\ client'[w] = c
  BY DEF TypeOK, Move

LEMMA GotoSteps ==
  ASSUME TypeOK, NEW w \in Worktree,
         NEW p \in {"assemble", "submit", "deliver", "poll", "abandon", "collect",
                    "confirm", "decide"},
         Goto(w, p)
  PROVE  Steps(w, p, client[w].verdict, client[w].outcome)
  <1> DEFINE c == [client[w] EXCEPT !.pc = p]
  <1>1. client[w] \in ClientState
    BY DEF TypeOK
  <1>2. c \in ClientState
    BY <1>1 DEF ClientState
  <1>3. Move(w, c)
    BY DEF Goto
  <1>4. /\ c.pc = p /\ c.verdict = client[w].verdict /\ c.outcome = client[w].outcome
        /\ c.run = client[w].run /\ c.ref = client[w].ref /\ c.polls = client[w].polls
    BY <1>1 DEF ClientState
  <1> HIDE DEF c
  <1> QED
    BY <1>2, <1>3, <1>4, Moved DEF Steps

LEMMA RefuseSteps ==
  ASSUME TypeOK, NEW w \in Worktree,
         NEW v \in {"PASSED", "FAILED", "NO_VERDICT", "HOST_AUTHORITY_REFUSED"},
         Refuse(w, v)
  PROVE  Steps(w, "idle", v, client[w].outcome)
  <1> DEFINE c == [client[w] EXCEPT !.pc = "idle", !.answer = "refused", !.verdict = v]
  <1>1. client[w] \in ClientState
    BY DEF TypeOK
  <1>2. c \in ClientState
    BY <1>1 DEF ClientState
  <1>3. Move(w, c)
    BY DEF Refuse
  <1>4. /\ c.pc = "idle" /\ c.verdict = v /\ c.outcome = client[w].outcome
        /\ c.run = client[w].run /\ c.ref = client[w].ref /\ c.polls = client[w].polls
    BY <1>1 DEF ClientState
  <1> HIDE DEF c
  <1> QED
    BY <1>2, <1>3, <1>4, Moved DEF Steps

LEMMA AnswerSteps ==
  ASSUME TypeOK, NEW w \in Worktree, NEW a \in {"completed", "refused"},
         Answer(w, a)
  PROVE  Steps(w, "idle", client[w].verdict, client[w].outcome)
  <1> DEFINE c == [client[w] EXCEPT !.pc = "idle", !.answer = a]
  <1>1. client[w] \in ClientState
    BY DEF TypeOK
  <1>2. c \in ClientState
    BY <1>1 DEF ClientState
  <1>3. Move(w, c)
    BY DEF Answer
  <1>4. /\ c.pc = "idle" /\ c.verdict = client[w].verdict /\ c.outcome = client[w].outcome
        /\ c.run = client[w].run /\ c.ref = client[w].ref /\ c.polls = client[w].polls
    BY <1>1 DEF ClientState
  <1> HIDE DEF c
  <1> QED
    BY <1>2, <1>3, <1>4, Moved DEF Steps

\* A step of one client that leaves Jobs, tokens and published pushes alone.
LEMMA QuietStepKeepsIInv ==
  ASSUME IInv, NEW w \in Worktree, NEW p, NEW verdict, NEW outcome,
         Steps(w, p, verdict, outcome),
         p \in {"idle", "assemble", "members", "publish", "submit", "stream", "collect",
               "confirm", "abandon", "write", "decide"},
         p \in {"publish", "submit", "stream", "collect", "confirm", "abandon", "write",
               "decide"} => RunOf(w) # None /\ client[w].ref # None,
         p \in {"publish", "submit"} => client[w].pc \in {"authority", "publish"},
         p \in {"assemble", "members"} => client[w].pc = "token",
         p = "members" => client'[w].judged # None,
         p = "abandon" => client[w].pc = "poll",
         p # "idle" => verdict \in {"none", "PASSED"},
         p = "write" => head[w] = TreeOf(w),
         p \in {"write", "decide"} => outcome = "Complete",
         verdict = "FAILED" => outcome = "Failed",
         \/ outcome = client[w].outcome
         \/ outcome = "none" /\ p # "idle"
         \/ /\ p = "stream" /\ client[w].pc = "poll"
            /\ Terminal(RunOf(w)) /\ outcome = job[RunOf(w)].phase,
         mirror' \in [Ref -> Entry],
         UNCHANGED <<head, token, job, published, moves>>
  PROVE  IInv'
  <1> USE DEF IInv
  <1>1. TypeOK'
    BY DEF TypeOK, Steps
  <1>2. InStep(client[w]) /\ OwnOutcome(client[w]) /\ client[w] \in ClientState
    BY DEF ClientsKeepStep, OutcomesAreOwn, TypeOK
  <1>3. InStep(client[w])'
    BY <1>2 DEF InStep, Steps, RunOf
  <1>4. Terminal(RunOf(w)) /\ client[w].pc = "poll" =>
          job[RunOf(w)].ended = job[RunOf(w)].phase /\ job[RunOf(w)].ref = client[w].ref
    <2>1. client[w].pc = "poll" => RunOf(w) \in Run /\ job[RunOf(w)].ref = client[w].ref
      BY <1>2 DEF InStep, ClientState, RunOf
    <2> QED
      BY <2>1 DEF JobsJudgeTheirRef, JudgesItsRef, Terminal
  <1>5. OwnOutcome(client[w])'
    BY <1>2, <1>4 DEF OwnOutcome, Steps, RunOf
  <1>6. \A v \in Worktree \ {w} : client'[w].run # None => RunOf(v) # client'[w].run
    BY DEF RunsAreExclusive, Steps, RunOf
  <1> QED
    BY <1>1, <1>3, <1>5, <1>6, JobsRest, ClientMoveKeeps DEF Steps, TreeOf

LEMMA CollectKeepsIInv ==
  ASSUME IInv, NEW w \in Worktree, Collect(w)
  PROVE  IInv'
  <1> USE DEF IInv
  <1>1. InStep(client[w]) /\ OwnOutcome(client[w])
    BY DEF ClientsKeepStep, OutcomesAreOwn
  <1>2. \/ Steps(w, "idle", "NO_VERDICT", client[w].outcome)
        \/ Steps(w, "confirm", client[w].verdict, client[w].outcome)
    BY GotoSteps, RefuseSteps DEF Collect, NoVerdict
  <1>3. mirror' \in [Ref -> Entry]
    <2>1. Absent \in Entry
      BY DEF Absent, Entry
    <2> QED
      BY <2>1 DEF Collect, TypeOK
  <1> QED
    BY <1>1, <1>2, <1>3, QuietStepKeepsIInv DEF Collect, InStep, At, RunOf

\* The end of a push: Return forgets it, StartPush begins the next one.
LEMMA FreshPushKeepsIInv ==
  ASSUME IInv, NEW w \in Worktree, StartPush(w) \/ Return(w)
  PROVE  IInv'
  <1> USE DEF IInv
  <1> DEFINE c == [Idle EXCEPT !.pc = "token", !.answer = "asked"]
  <1>1. MaxPolls \in Nat /\ 0 < MaxPolls /\ 0 \in 0 .. MaxPolls
    BY PollAssumption
  <1>2. Idle \in ClientState
    BY <1>1 DEF Idle, ClientState
  <1>3. c \in ClientState
    BY <1>2 DEF ClientState
  <1>4. /\ Idle.run = None /\ Idle.outcome = "none" /\ Idle.verdict = "none"
        /\ Idle.polls = 0 /\ Idle.pc = "idle"
    BY DEF Idle
  <1>5. /\ c.run = None /\ c.outcome = "none" /\ c.verdict = "none"
        /\ c.polls = 0 /\ c.pc = "token"
    BY <1>2, <1>4 DEF ClientState
  <1>6. Move(w, c) \/ Move(w, Idle)
    BY DEF StartPush, Return, Move
  <1> HIDE DEF c
  <1>7. /\ client' \in [Worktree -> ClientState]
        /\ \A v \in Worktree \ {w} : client'[v] = client[v]
        /\ client'[w] = Idle \/ client'[w] = c
    BY <1>2, <1>3, <1>6, Moved
  <1>8. /\ client'[w].run = None /\ client'[w].outcome = "none"
        /\ client'[w].verdict = "none" /\ client'[w].polls = 0
        /\ client'[w].pc \in {"idle", "token"}
    BY <1>4, <1>5, <1>7
  <1>9. UNCHANGED <<head, token, mirror, job, published, moves>>
    BY DEF StartPush, Return
  <1>10. TypeOK'
    BY <1>7, <1>9 DEF TypeOK
  <1>11. InStep(client[w])' /\ OwnOutcome(client[w])'
    BY <1>1, <1>8 DEF InStep, OwnOutcome
  <1>12. head' = head /\ job' = job /\ published' = published /\ token' = token
    BY <1>9
  <1> HIDE DEF IInv
  <1> QED
    BY <1>7, <1>8, <1>10, <1>11, <1>12, JobsRest, ClientMoveKeeps

LEMMA InterruptKeepsIInv ==
  ASSUME IInv, NEW w \in Worktree, Interrupt(w)
  PROVE  IInv'
  <1> USE DEF IInv
  <1>1. InStep(client[w]) /\ OwnOutcome(client[w])
    BY DEF ClientsKeepStep, OutcomesAreOwn
  <1>2. Steps(w, "idle", client[w].verdict, client[w].outcome)
    BY AnswerSteps DEF Interrupt
  <1> QED
    BY <1>1, <1>2, QuietStepKeepsIInv DEF Interrupt, OwnOutcome, TypeOK

\* The green-token check and the members that decide a memoized push.
LEMMA CheckTokenKeepsIInv ==
  ASSUME IInv, NEW w \in Worktree, CheckToken(w)
  PROVE  IInv'
  <1> USE DEF IInv
  <1> DEFINE c == [client[w] EXCEPT !.pc = "members", !.judged = head[w]]
  <1>1. InStep(client[w]) /\ OwnOutcome(client[w]) /\ client[w] \in ClientState
    BY DEF ClientsKeepStep, OutcomesAreOwn, TypeOK
  <1>2. CASE Move(w, c)
    <2>1. c \in ClientState
      BY <1>1 DEF ClientState, TypeOK
    <2>2. /\ c.pc = "members" /\ c.verdict = client[w].verdict
          /\ c.outcome = client[w].outcome /\ c.run = client[w].run
          /\ c.ref = client[w].ref /\ c.polls = client[w].polls
      BY <1>1 DEF ClientState
    <2> HIDE DEF c
    <2>3. /\ Steps(w, "members", client[w].verdict, client[w].outcome)
          /\ client'[w] = c
      BY <1>2, <2>1, <2>2, Moved DEF Steps
    <2>4. c.judged # None
      BY <1>1 DEF c, ClientState, TypeOK
    <2> QED
      BY <1>1, <2>3, <2>4, QuietStepKeepsIInv DEF CheckToken, At, InStep, OwnOutcome, TypeOK
  <1>3. CASE Goto(w, "assemble")
    <2>1. Steps(w, "assemble", client[w].verdict, client[w].outcome)
      BY <1>3, GotoSteps
    <2> QED
      BY <1>1, <2>1, QuietStepKeepsIInv DEF CheckToken, At, InStep, OwnOutcome, TypeOK
  <1> QED
    BY <1>2, <1>3 DEF CheckToken

LEMMA RunMembersKeepsIInv ==
  ASSUME IInv, NEW w \in Worktree, RunMembers(w)
  PROVE  IInv'
  <1> USE DEF IInv
  <1>1. InStep(client[w]) /\ OwnOutcome(client[w]) /\ client[w] \in ClientState
    BY DEF ClientsKeepStep, OutcomesAreOwn, TypeOK
  <1>2. Steps(w, "idle", client[w].verdict, client[w].outcome)
    BY AnswerSteps DEF RunMembers
  <1>3. UNCHANGED <<head, token, mirror, job, moves>>
    BY DEF RunMembers
  <1>4. CASE published' = published
    BY <1>1, <1>2, <1>3, <1>4, QuietStepKeepsIInv DEF OwnOutcome, TypeOK
  <1> DEFINE p == [run |-> None, tree |-> client[w].judged]
  <1>5. CASE published' = published \cup {p}
    <2>1. p \in [run : Run \cup {None}, tree : Tree]
      BY <1>1 DEF RunMembers, At, InStep, ClientState
    <2>2. TypeOK'
      BY <1>2, <1>3, <1>5, <2>1 DEF TypeOK, Steps
    <2>3. InStep(client[w])' /\ OwnOutcome(client[w])'
      BY <1>1, <1>2, <1>3 DEF InStep, OwnOutcome, Steps
    <2>4. PublishedByItsOwnRun'
      BY <1>3, <1>5 DEF PublishedByItsOwnRun
    <2>5. \A v \in Worktree \ {w} : client'[w].run # None => RunOf(v) # client'[w].run
      BY <1>2 DEF RunsAreExclusive, Steps, RunOf
    <2> QED
      BY <1>2, <1>3, <2>2, <2>3, <2>4, <2>5, JobsRest, ClientMoveKeeps DEF Steps
  <1> QED
    BY <1>4, <1>5 DEF RunMembers

\* A run is named by a nonce no client carries and no Job has.
LEMMA AssembleKeepsIInv ==
  ASSUME IInv, NEW w \in Worktree, Assemble(w)
  PROVE  IInv'
  <1>1. InStep(client[w]) /\ OwnOutcome(client[w]) /\ client[w] \in ClientState
    BY DEF IInv, ClientsKeepStep, OutcomesAreOwn, TypeOK
  <1>2. UNCHANGED <<head, token, mirror, job, published, moves>> /\ client[w].pc = "assemble"
    BY DEF Assemble, At
  <1>3. CASE NoVerdict(w)
    <2>1. Steps(w, "idle", "NO_VERDICT", client[w].outcome)
      BY <1>3, RefuseSteps DEF NoVerdict, IInv
    <2> QED
      BY <1>1, <1>2, <2>1, QuietStepKeepsIInv DEF OwnOutcome, TypeOK, IInv
  <1>4. ASSUME NEW r \in Fresh,
               Move(w, [client[w] EXCEPT !.pc = "authority", !.run = r,
                                         !.ref = GateRef(head[w], r)])
        PROVE  IInv'
    <2> DEFINE c == [client[w] EXCEPT !.pc = "authority", !.run = r,
                                      !.ref = GateRef(head[w], r)]
    <2>1. /\ r \in Run /\ job[r].phase = "none"
          /\ \A v \in Worktree : client[v].run # r
      BY DEF Fresh
    <2>2. GateRef(head[w], r) \in Ref /\ GateRef(head[w], r) # None
      BY <2>1, RefAssumption DEF IInv, TypeOK, GateRef, Ref
    <2>3. c \in ClientState
      BY <1>1, <2>1, <2>2 DEF ClientState
    <2>4. /\ c.pc = "authority" /\ c.run = r /\ c.ref # None
          /\ c.outcome = client[w].outcome /\ c.verdict = client[w].verdict
          /\ c.polls = client[w].polls
      BY <1>1, <2>2 DEF ClientState
    <2>5. Move(w, c)
      BY <1>4
    <2> HIDE DEF c
    <2>6. /\ client' \in [Worktree -> ClientState]
          /\ \A v \in Worktree \ {w} : client'[v] = client[v]
          /\ client'[w] = c
      BY <2>3, <2>5, Moved DEF IInv
    <2>7. TypeOK'
      BY <1>2, <2>6 DEF IInv, TypeOK
    <2>8. InStep(client[w])' /\ OwnOutcome(client[w])'
      BY <1>1, <1>2, <2>1, <2>4, <2>6 DEF InStep, OwnOutcome
    <2>9. \A v \in Worktree \ {w} : RunOf(v) # client'[w].run
      BY <2>1, <2>4, <2>6 DEF RunOf
    <2> QED
      BY <1>2, <2>4, <2>6, <2>7, <2>8, <2>9, JobsRest, ClientMoveKeeps
  <1> QED
    BY <1>3, <1>4 DEF Assemble

LEMMA RunAuthorityKeepsIInv ==
  ASSUME IInv, NEW w \in Worktree, RunAuthority(w)
  PROVE  IInv'
  <1>1. InStep(client[w]) /\ OwnOutcome(client[w]) /\ client[w] \in ClientState
    BY DEF IInv, ClientsKeepStep, OutcomesAreOwn, TypeOK
  <1>2. PICK ok \in BOOLEAN :
          Move(w, [client[w] EXCEPT !.pc = "publish", !.granted = ok, !.judged = head[w]])
    BY DEF RunAuthority
  <1> DEFINE c == [client[w] EXCEPT !.pc = "publish", !.granted = ok, !.judged = head[w]]
  <1>3. c \in ClientState
    BY <1>1 DEF ClientState, IInv, TypeOK
  <1>4. /\ c.pc = "publish" /\ c.verdict = client[w].verdict
        /\ c.outcome = client[w].outcome /\ c.run = client[w].run
        /\ c.ref = client[w].ref /\ c.polls = client[w].polls
    BY <1>1 DEF ClientState
  <1>5. Move(w, c)
    BY <1>2
  <1> HIDE DEF c
  <1>6. Steps(w, "publish", client[w].verdict, client[w].outcome)
    BY <1>3, <1>4, <1>5, Moved DEF Steps, IInv
  <1> QED
    BY <1>1, <1>6, QuietStepKeepsIInv
       DEF RunAuthority, At, InStep, OwnOutcome, RunOf, IInv, TypeOK

LEMMA PublishKeepsIInv ==
  ASSUME IInv, NEW w \in Worktree, Publish(w)
  PROVE  IInv'
  <1>1. InStep(client[w]) /\ OwnOutcome(client[w]) /\ client[w] \in ClientState
    BY DEF IInv, ClientsKeepStep, OutcomesAreOwn, TypeOK
  <1>2. \/ Steps(w, "idle", "NO_VERDICT", client[w].outcome)
        \/ Steps(w, "submit", client[w].verdict, client[w].outcome)
    BY GotoSteps, RefuseSteps DEF Publish, NoVerdict, IInv
  <1>3. mirror' \in [Ref -> Entry]
    <2>1. [tree |-> head[w], base |-> TRUE, old |-> FALSE] \in Entry
      BY DEF Entry, IInv, TypeOK
    <2> QED
      BY <2>1 DEF Publish, IInv, TypeOK
  <1> QED
    BY <1>1, <1>2, <1>3, QuietStepKeepsIInv DEF Publish, InStep, OwnOutcome, At, RunOf

\* The Job of the client's own run, suspended on the client's own ref.
LEMMA SubmitKeepsIInv ==
  ASSUME IInv, NEW w \in Worktree, Submit(w)
  PROVE  IInv'
  <1>1. InStep(client[w]) /\ OwnOutcome(client[w]) /\ client[w] \in ClientState
    BY DEF IInv, ClientsKeepStep, OutcomesAreOwn, TypeOK
  <1>2. /\ client[w].pc = "submit" /\ RunOf(w) \in Run /\ client[w].ref \in Ref
        /\ job[RunOf(w)].phase = "none" /\ client[w].outcome = "none"
        /\ RunOf(w) # None /\ client[w].ref # None
    BY <1>1 DEF Submit, At, InStep, ClientState, RunOf
  <1>3. UNCHANGED <<head, token, mirror, published, moves>>
    BY DEF Submit
  <1>4. CASE UNCHANGED job /\ Goto(w, "collect")
    <2>1. Steps(w, "collect", client[w].verdict, client[w].outcome)
      BY <1>4, GotoSteps DEF IInv
    <2> QED
      BY <1>1, <1>2, <1>3, <1>4, <2>1, QuietStepKeepsIInv
         DEF InStep, OwnOutcome, IInv, TypeOK
  <1>5. CASE Submitted(w)
    <2> DEFINE b == w \in Private
               j == [NoJob EXCEPT !.phase = "suspended", !.ref = client[w].ref,
                                  !.private = b]
    <2>0. b \in BOOLEAN
      OBVIOUS
    <2> HIDE DEF b
    <2>1. NoJob \in JobState
      BY DEF NoJob, JobState
    <2>2. j \in JobState
      BY <1>2, <2>0, <2>1 DEF JobState
    <2>3. j.phase = "suspended" /\ j.ref = client[w].ref /\ j.ended = "none"
      BY <2>1 DEF JobState, NoJob
    <2>4. job' = [job EXCEPT ![RunOf(w)] = j]
      BY <1>5 DEF Submitted, b
    <2> HIDE DEF j
    <2>5. /\ job' \in [Run -> JobState] /\ job'[RunOf(w)] = j
          /\ \A r \in Run \ {RunOf(w)} : job'[r] = job[r]
      BY <1>2, <2>2, <2>4 DEF IInv, TypeOK
    <2>6. \A r \in Run : Evolves(r)
      BY <1>2, <2>3, <2>5 DEF IInv, JobsJudgeTheirRef, JudgesItsRef, Evolves
    <2>7. \/ \E p \in {"deliver", "poll", "collect"} :
                Steps(w, p, client[w].verdict, client[w].outcome)
          \/ Steps(w, "idle", "NO_VERDICT", client[w].outcome)
      BY GotoSteps, RefuseSteps DEF Submit, NoVerdict, IInv
    <2>8. TypeOK'
      BY <1>3, <2>5, <2>7 DEF IInv, TypeOK, Steps
    <2>9. InStep(client[w])' /\ OwnOutcome(client[w])'
      BY <1>1, <1>2, <2>3, <2>5, <2>7 DEF InStep, OwnOutcome, Steps, RunOf
    <2>10. \A v \in Worktree \ {w} : client'[w].run # None => RunOf(v) # client'[w].run
      BY <2>7 DEF IInv, RunsAreExclusive, Steps, RunOf
    <2> QED
      BY <1>3, <2>5, <2>6, <2>7, <2>8, <2>9, <2>10, ClientMoveKeeps DEF Steps
  <1> QED
    BY <1>4, <1>5 DEF Submit

\* Secrets and deletions leave a Job's ref and answer as they are.
LEMMA JobTouched ==
  ASSUME IInv, NEW r \in Run, NEW j \in JobState,
         job' = [job EXCEPT ![r] = j],
         j.ref = job[r].ref, j.tree = job[r].tree, j.ended = job[r].ended,
         j.phase = job[r].phase \/ (j.phase = "gone" /\ job[r].phase # "none")
  PROVE  /\ job' \in [Run -> JobState]
         /\ \A q \in Run \ {r} : job'[q] = job[q]
         /\ job'[r] = j
         /\ \A q \in Run : Evolves(q)
  <1>1. /\ job' \in [Run -> JobState] /\ job'[r] = j
        /\ \A q \in Run \ {r} : job'[q] = job[q]
    BY DEF IInv, TypeOK
  <1>2. \A q \in Run : Evolves(q)
    BY <1>1 DEF IInv, JobsJudgeTheirRef, JudgesItsRef, Evolves
  <1> QED
    BY <1>1, <1>2

LEMMA DeliverKeepsIInv ==
  ASSUME IInv, NEW w \in Worktree, Deliver(w)
  PROVE  IInv'
  <1>1. InStep(client[w]) /\ OwnOutcome(client[w]) /\ client[w] \in ClientState
    BY DEF IInv, ClientsKeepStep, OutcomesAreOwn, TypeOK
  <1>2. /\ client[w].pc = "deliver" /\ RunOf(w) \in Run /\ RunOf(w) # None
        /\ client[w].ref # None
        /\ job[RunOf(w)].phase # "none" /\ job[RunOf(w)].ref = client[w].ref
    BY <1>1 DEF Deliver, At, InStep, ClientState, RunOf
  <1>3. UNCHANGED <<head, token, mirror, published, moves>>
    BY DEF Deliver
  <1>4. \E p \in {"poll", "abandon"} : Steps(w, p, client[w].verdict, client[w].outcome)
    BY GotoSteps DEF Deliver, IInv
  <1> DEFINE j == [job[RunOf(w)] EXCEPT !.secret = TRUE]
  <1>5. job[RunOf(w)] \in JobState
    BY <1>2 DEF IInv, TypeOK
  <1>6. j \in JobState /\ j.ref = job[RunOf(w)].ref /\ j.tree = job[RunOf(w)].tree
        /\ j.ended = job[RunOf(w)].ended /\ j.phase = job[RunOf(w)].phase
    BY <1>5 DEF JobState
  <1>7. job' = [job EXCEPT ![RunOf(w)] = j] \/ UNCHANGED job
    BY <1>2 DEF Deliver, IInv, TypeOK
  <1> HIDE DEF j
  <1>8. /\ job' \in [Run -> JobState]
        /\ \A q \in Run \ {RunOf(w)} : job'[q] = job[q]
        /\ job'[RunOf(w)].phase # "none" /\ job'[RunOf(w)].ref = client[w].ref
        /\ \A q \in Run : Evolves(q)
    <2>1. CASE job' = [job EXCEPT ![RunOf(w)] = j]
      BY <1>2, <1>6, <2>1, JobTouched
    <2>2. CASE UNCHANGED job
      BY <1>2, <2>2, JobsRest DEF IInv, TypeOK
    <2> QED
      BY <1>7, <2>1, <2>2
  <1>9. TypeOK'
    BY <1>3, <1>4, <1>8 DEF IInv, TypeOK, Steps
  <1>10. InStep(client[w])' /\ OwnOutcome(client[w])'
    BY <1>1, <1>2, <1>4, <1>8 DEF InStep, OwnOutcome, Steps, RunOf
  <1>11. \A v \in Worktree \ {w} : client'[w].run # None => RunOf(v) # client'[w].run
    BY <1>4 DEF IInv, RunsAreExclusive, Steps, RunOf
  <1> QED
    BY <1>3, <1>4, <1>8, <1>9, <1>10, <1>11, ClientMoveKeeps DEF Steps

\* A poll costs one read of the budget, or learns what the run's own Job said.
LEMMA PollKeepsIInv ==
  ASSUME IInv, NEW w \in Worktree, Poll(w)
  PROVE  IInv'
  <1>1. InStep(client[w]) /\ OwnOutcome(client[w]) /\ client[w] \in ClientState
    BY DEF IInv, ClientsKeepStep, OutcomesAreOwn, TypeOK
  <1>2. /\ client[w].pc = "poll" /\ RunOf(w) \in Run /\ RunOf(w) # None
        /\ client[w].ref # None /\ client[w].polls < MaxPolls
        /\ job[RunOf(w)].phase # "none" /\ job[RunOf(w)].ref = client[w].ref
    BY <1>1 DEF Poll, At, InStep, ClientState, RunOf
  <1>3. UNCHANGED <<head, token, mirror, job, published, moves>> /\ mirror' \in [Ref -> Entry]
    BY DEF Poll, IInv, TypeOK
  <1>4. CASE Goto(w, "abandon")
    <2>1. Steps(w, "abandon", client[w].verdict, client[w].outcome)
      BY <1>4, GotoSteps DEF IInv
    <2> QED
      BY <1>1, <1>2, <1>3, <2>1, QuietStepKeepsIInv DEF InStep, OwnOutcome
  <1>5. CASE Terminal(RunOf(w)) /\
             Move(w, [client[w] EXCEPT !.pc = "stream", !.outcome = job[RunOf(w)].phase])
    <2> DEFINE o == job[RunOf(w)].phase
               c == [client[w] EXCEPT !.pc = "stream", !.outcome = o]
    <2>0. o \in {"Complete", "Failed"}
      BY <1>5 DEF Terminal
    <2> HIDE DEF o
    <2>1. c \in ClientState
      BY <1>1, <2>0 DEF ClientState
    <2>2. /\ c.pc = "stream" /\ c.verdict = client[w].verdict
          /\ c.outcome = o /\ c.run = client[w].run
          /\ c.ref = client[w].ref /\ c.polls = client[w].polls
      BY <1>1 DEF ClientState
    <2>3. Move(w, c)
      BY <1>5 DEF o
    <2> HIDE DEF c
    <2>4. Steps(w, "stream", client[w].verdict, job[RunOf(w)].phase)
      BY <2>1, <2>2, <2>3, Moved DEF Steps, IInv, o
    <2> QED
      BY <1>1, <1>2, <1>3, <1>5, <2>4, QuietStepKeepsIInv DEF InStep, OwnOutcome
  <1>6. CASE SpendPoll(w)
    <2> DEFINE p == IF client[w].polls + 1 = MaxPolls THEN "abandon" ELSE "poll"
               c == [client[w] EXCEPT !.pc = p, !.polls = client[w].polls + 1]
    <2>1. client[w].polls + 1 \in 0 .. MaxPolls /\ client[w].polls \in 0 .. MaxPolls
      BY <1>1, <1>2, PollAssumption DEF ClientState
    <2>2. /\ p \in {"abandon", "poll"}
          /\ p = "poll" => client[w].polls + 1 < MaxPolls
      BY <2>1, PollAssumption
    <2>3. Move(w, c)
      BY <1>6 DEF SpendPoll
    <2> HIDE DEF p
    <2>4. c \in ClientState
      BY <1>1, <2>1, <2>2 DEF ClientState
    <2>5. /\ c.pc = p /\ c.verdict = client[w].verdict
          /\ c.outcome = client[w].outcome /\ c.run = client[w].run
          /\ c.ref = client[w].ref /\ c.polls = client[w].polls + 1
      BY <1>1 DEF ClientState
    <2> HIDE DEF c
    <2>6. /\ client' \in [Worktree -> ClientState]
          /\ \A v \in Worktree \ {w} : client'[v] = client[v]
          /\ client'[w] = c
      BY <2>3, <2>4, Moved DEF IInv
    <2>7. TypeOK'
      BY <1>3, <2>6 DEF IInv, TypeOK
    <2>8. InStep(client[w])' /\ OwnOutcome(client[w])'
      BY <1>1, <1>2, <1>3, <2>2, <2>5, <2>6 DEF InStep, OwnOutcome, RunOf
    <2>9. \A v \in Worktree \ {w} : client'[w].run # None => RunOf(v) # client'[w].run
      BY <2>5, <2>6 DEF IInv, RunsAreExclusive, RunOf
    <2> QED
      BY <1>3, <2>2, <2>5, <2>6, <2>7, <2>8, <2>9, JobsRest, ClientMoveKeeps
  <1> QED
    BY <1>4, <1>5, <1>6 DEF Poll

LEMMA AbandonKeepsIInv ==
  ASSUME IInv, NEW w \in Worktree, Abandon(w)
  PROVE  IInv'
  <1>1. InStep(client[w]) /\ OwnOutcome(client[w]) /\ client[w] \in ClientState
    BY DEF IInv, ClientsKeepStep, OutcomesAreOwn, TypeOK
  <1>2. /\ client[w].pc = "abandon" /\ RunOf(w) \in Run /\ RunOf(w) # None
        /\ job[RunOf(w)].phase # "none"
    BY <1>1 DEF Abandon, At, InStep, ClientState, RunOf
  <1>3. UNCHANGED <<head, token, mirror, published, moves>>
    BY DEF Abandon
  <1>4. Steps(w, "idle", "NO_VERDICT", client[w].outcome)
    BY RefuseSteps DEF Abandon, NoVerdict, IInv
  <1> DEFINE j == [job[RunOf(w)] EXCEPT !.phase = "gone"]
  <1>5. job[RunOf(w)] \in JobState
    BY <1>2 DEF IInv, TypeOK
  <1>6. j \in JobState /\ j.ref = job[RunOf(w)].ref /\ j.tree = job[RunOf(w)].tree
        /\ j.ended = job[RunOf(w)].ended /\ j.phase = "gone"
    BY <1>5 DEF JobState
  <1>7. job' = [job EXCEPT ![RunOf(w)] = j] \/ UNCHANGED job
    BY <1>2 DEF Abandon, IInv, TypeOK
  <1> HIDE DEF j
  <1>8. /\ job' \in [Run -> JobState]
        /\ \A q \in Run \ {RunOf(w)} : job'[q] = job[q]
        /\ \A q \in Run : Evolves(q)
        /\ job'[RunOf(w)].ref = job[RunOf(w)].ref
        /\ job'[RunOf(w)].ended = job[RunOf(w)].ended
    <2>1. CASE job' = [job EXCEPT ![RunOf(w)] = j]
      BY <1>2, <1>6, <2>1, JobTouched
    <2>2. CASE UNCHANGED job
      BY <2>2, JobsRest DEF IInv, TypeOK
    <2> QED
      BY <1>7, <2>1, <2>2
  <1>9. TypeOK'
    BY <1>3, <1>4, <1>8 DEF IInv, TypeOK, Steps
  <1>10. InStep(client[w])' /\ OwnOutcome(client[w])'
    BY <1>1, <1>2, <1>4, <1>8 DEF InStep, OwnOutcome, Steps, RunOf
  <1>11. \A v \in Worktree \ {w} : client'[w].run # None => RunOf(v) # client'[w].run
    BY <1>4 DEF IInv, RunsAreExclusive, Steps, RunOf
  <1> QED
    BY <1>3, <1>4, <1>8, <1>9, <1>10, <1>11, ClientMoveKeeps DEF Steps

LEMMA StreamKeepsIInv ==
  ASSUME IInv, NEW w \in Worktree, Stream(w)
  PROVE  IInv'
  <1>1. InStep(client[w]) /\ OwnOutcome(client[w]) /\ client[w] \in ClientState
    BY DEF IInv, ClientsKeepStep, OutcomesAreOwn, TypeOK
  <1>2. UNCHANGED <<head, token, mirror, job, published, moves>> /\ mirror' \in [Ref -> Entry]
    BY DEF Stream, IInv, TypeOK
  <1>3. client[w].pc = "stream" /\ RunOf(w) # None /\ client[w].ref # None
    BY <1>1 DEF Stream, At, InStep, RunOf
  <1> DEFINE c == [client[w] EXCEPT !.pc = "collect", !.outcome = "none"]
  <1>4. CASE Move(w, c)
    <2>1. c \in ClientState
      BY <1>1 DEF ClientState
    <2>2. /\ c.pc = "collect" /\ c.verdict = client[w].verdict
          /\ c.outcome = "none" /\ c.run = client[w].run
          /\ c.ref = client[w].ref /\ c.polls = client[w].polls
      BY <1>1 DEF ClientState
    <2> HIDE DEF c
    <2>3. Steps(w, "collect", client[w].verdict, "none")
      BY <1>4, <2>1, <2>2, Moved DEF Steps, IInv
    <2> QED
      BY <1>1, <1>2, <1>3, <2>3, QuietStepKeepsIInv DEF InStep, OwnOutcome
  <1>5. CASE Goto(w, "collect")
    <2>1. Steps(w, "collect", client[w].verdict, client[w].outcome)
      BY <1>5, GotoSteps DEF IInv
    <2> QED
      BY <1>1, <1>2, <1>3, <2>1, QuietStepKeepsIInv DEF InStep, OwnOutcome
  <1> QED
    BY <1>4, <1>5 DEF Stream

\* Only a complete Job is confirmed, and only on its own tree.
LEMMA ConfirmKeepsIInv ==
  ASSUME IInv, NEW w \in Worktree, Confirm(w)
  PROVE  IInv'
  <1>1. InStep(client[w]) /\ OwnOutcome(client[w]) /\ client[w] \in ClientState
    BY DEF IInv, ClientsKeepStep, OutcomesAreOwn, TypeOK
  <1>2. UNCHANGED <<head, token, mirror, job, published, moves>> /\ mirror' \in [Ref -> Entry]
    BY DEF Confirm, IInv, TypeOK
  <1>3. client[w].pc = "confirm" /\ RunOf(w) # None /\ client[w].ref # None
    BY <1>1 DEF Confirm, At, InStep, RunOf
  <1>4. CASE client[w].outcome = "Failed" /\ Refuse(w, "FAILED")
    <2>1. Steps(w, "idle", "FAILED", client[w].outcome)
      BY <1>4, RefuseSteps DEF IInv
    <2> QED
      BY <1>2, <1>4, <2>1, QuietStepKeepsIInv
  <1>5. CASE Refuse(w, "PASSED")
    <2>1. Steps(w, "idle", "PASSED", client[w].outcome)
      BY <1>5, RefuseSteps DEF IInv
    <2> QED
      BY <1>2, <2>1, QuietStepKeepsIInv
  <1> DEFINE c == [client[w] EXCEPT !.pc = "write", !.verdict = "PASSED"]
  <1>6. CASE client[w].outcome = "Complete" /\ head[w] = TreeOf(w) /\ Move(w, c)
    <2>1. c \in ClientState
      BY <1>1 DEF ClientState
    <2>2. /\ c.pc = "write" /\ c.verdict = "PASSED"
          /\ c.outcome = client[w].outcome /\ c.run = client[w].run
          /\ c.ref = client[w].ref /\ c.polls = client[w].polls
      BY <1>1 DEF ClientState
    <2> HIDE DEF c
    <2>3. Steps(w, "write", "PASSED", client[w].outcome)
      BY <1>6, <2>1, <2>2, Moved DEF Steps, IInv
    <2> QED
      BY <1>2, <1>3, <1>6, <2>3, QuietStepKeepsIInv
  <1> QED
    BY <1>4, <1>5, <1>6 DEF Confirm

\* Without a commit in between, the token names the tree the run's Job judged.
LEMMA WriteTokenKeepsIInv ==
  ASSUME IInv, NEW w \in Worktree, WriteToken(w)
  PROVE  IInv'
  <1>1. InStep(client[w]) /\ OwnOutcome(client[w]) /\ client[w] \in ClientState
    BY DEF IInv, ClientsKeepStep, OutcomesAreOwn, TypeOK
  <1>2. UNCHANGED <<head, mirror, job, published, moves>> /\ mirror' \in [Ref -> Entry]
    BY DEF WriteToken, IInv, TypeOK
  <1>3. /\ client[w].pc = "write" /\ RunOf(w) \in Run /\ client[w].ref # None
        /\ RunOf(w) # None /\ client[w].outcome = "Complete"
        /\ job[RunOf(w)].ended = "Complete" /\ job[RunOf(w)].ref = client[w].ref
    BY <1>1 DEF WriteToken, At, InStep, OwnOutcome, ClientState, RunOf
  <1>4. CASE token' = token
    <2>1. \/ Steps(w, "decide", client[w].verdict, client[w].outcome)
          \/ Steps(w, "idle", client[w].verdict, client[w].outcome)
      BY GotoSteps, AnswerSteps DEF WriteToken, IInv
    <2> QED
      BY <1>1, <1>2, <1>3, <1>4, <2>1, QuietStepKeepsIInv DEF InStep, OwnOutcome
  <1>5. CASE token' = [token EXCEPT ![w] = head[w]] /\ Goto(w, "decide")
    <2>1. Steps(w, "decide", client[w].verdict, client[w].outcome)
      BY <1>5, GotoSteps DEF IInv
    <2>2. TypeOK'
      BY <1>2, <1>5, <2>1 DEF IInv, TypeOK, Steps
    <2>3. InStep(client[w])' /\ OwnOutcome(client[w])'
      BY <1>1, <1>2, <1>3, <2>1 DEF InStep, OwnOutcome, Steps, RunOf
    <2>4. job[RunOf(w)].tree = TreeOf(w)
      BY <1>3 DEF IInv, JobsJudgeTheirRef, JudgesItsRef, TreeOf
    <2>5. ~ Slip => head[w] \in JudgedGreen
      BY <1>3, <2>4 DEF IInv, HeadStaysConfirmed, At, JudgedGreen
    <2>6. JudgedGreen' = JudgedGreen
      BY <1>2 DEF JudgedGreen
    <2>7. TokensEarned'
      BY <1>5, <2>5, <2>6 DEF IInv, TypeOK, TokensEarned, TokenIsEarned
    <2>8. \A v \in Worktree \ {w} : client'[w].run # None => RunOf(v) # client'[w].run
      BY <2>1 DEF IInv, RunsAreExclusive, Steps, RunOf
    <2> QED
      BY <1>2, <2>1, <2>2, <2>3, <2>7, <2>8, JobsRest, ClientMoveKeeps DEF Steps
  <1> QED
    BY <1>4, <1>5 DEF WriteToken

\* The push goes through on the run's own complete Job.
LEMMA DecideKeepsIInv ==
  ASSUME IInv, NEW w \in Worktree, Decide(w)
  PROVE  IInv'
  <1>1. InStep(client[w]) /\ OwnOutcome(client[w]) /\ client[w] \in ClientState
    BY DEF IInv, ClientsKeepStep, OutcomesAreOwn, TypeOK
  <1>2. UNCHANGED <<head, token, mirror, job, moves>> /\ mirror' \in [Ref -> Entry]
    BY DEF Decide, IInv, TypeOK
  <1>3. /\ client[w].pc = "decide" /\ RunOf(w) \in Run /\ client[w].ref \in Ref
        /\ RunOf(w) # None /\ client[w].outcome = "Complete"
        /\ job[RunOf(w)].ended = "Complete" /\ job[RunOf(w)].ref = client[w].ref
    BY <1>1 DEF Decide, At, InStep, OwnOutcome, ClientState, RunOf
  <1>4. CASE Refuse(w, "HOST_AUTHORITY_REFUSED") /\ UNCHANGED published
    <2>1. Steps(w, "idle", "HOST_AUTHORITY_REFUSED", client[w].outcome)
      BY <1>4, RefuseSteps DEF IInv
    <2> QED
      BY <1>2, <1>4, <2>1, QuietStepKeepsIInv
  <1> DEFINE p == [run |-> RunOf(w), tree |-> TreeOf(w)]
  <1>5. CASE Answer(w, "completed") /\ published' = published \cup {p}
    <2>1. Steps(w, "idle", client[w].verdict, client[w].outcome)
      BY <1>5, AnswerSteps DEF IInv
    <2>2. p \in [run : Run \cup {None}, tree : Tree]
      BY <1>3 DEF Ref, TreeOf
    <2>3. TypeOK'
      BY <1>2, <1>5, <2>1, <2>2 DEF IInv, TypeOK, Steps
    <2>4. InStep(client[w])' /\ OwnOutcome(client[w])'
      BY <1>1, <1>2, <1>3, <2>1 DEF InStep, OwnOutcome, Steps, RunOf
    <2>5. job[RunOf(w)].tree = TreeOf(w)
      BY <1>3 DEF IInv, JobsJudgeTheirRef, JudgesItsRef, TreeOf
    <2>6. PublishedByItsOwnRun'
      BY <1>2, <1>3, <1>5, <2>5 DEF IInv, PublishedByItsOwnRun
    <2>7. \A v \in Worktree \ {w} : client'[w].run # None => RunOf(v) # client'[w].run
      BY <2>1 DEF IInv, RunsAreExclusive, Steps, RunOf
    <2> QED
      BY <1>2, <2>1, <2>3, <2>4, <2>6, <2>7, JobsRest, ClientMoveKeeps DEF Steps
  <1> QED
    BY <1>4, <1>5 DEF Decide

LEMMA ClientKeepsIInv ==
  ASSUME IInv, NEW w \in Worktree,
         StartPush(w) \/ Return(w) \/ ClientStep(w) \/ Interrupt(w)
  PROVE  IInv'
  BY FreshPushKeepsIInv, InterruptKeepsIInv, CheckTokenKeepsIInv, RunMembersKeepsIInv,
     AssembleKeepsIInv, RunAuthorityKeepsIInv, PublishKeepsIInv, SubmitKeepsIInv,
     DeliverKeepsIInv, PollKeepsIInv, AbandonKeepsIInv, StreamKeepsIInv,
     CollectKeepsIInv, ConfirmKeepsIInv, WriteTokenKeepsIInv, DecideKeepsIInv
     DEF ClientStep

\* A step of the owner, the cluster or the sweep moves no client.
LEMMA WorldMoveKeeps ==
  ASSUME IInv, TypeOK', UNCHANGED <<client, token, published>>,
         \A r \in Run : Evolves(r),
         \A r \in Run : job[r].phase = "none" => job'[r].phase = "none",
         HeadStaysConfirmed'
  PROVE  IInv'
  <1>1. \A w \in Worktree : Rests(w)
    BY DEF Rests, IInv, TypeOK, ClientState, RunOf
  <1>2. ClientsKeepStep' /\ OutcomesAreOwn' /\ JobsJudgeTheirRef'
    BY <1>1, JobsEvolve
  <1>3. RunsAreExclusive'
    BY DEF IInv, RunsAreExclusive, RunOf
  <1>4. PublishedByItsOwnRun' /\ TokensEarned'
    BY AnswersStand
  <1> QED
    BY <1>2, <1>3, <1>4 DEF IInv

LEMMA CommitKeepsIInv ==
  ASSUME IInv, NEW w \in Worktree, Commit(w)
  PROVE  IInv'
  <1>1. PICK t \in Tree : head' = [head EXCEPT ![w] = t]
    BY DEF Commit
  <1>2. /\ UNCHANGED <<token, client, mirror, job, published>>
        /\ moves < MaxMoves /\ moves' = moves + 1
        /\ At(w, "write") => Slip
    BY DEF Commit
  <1>3. moves' \in 0 .. MaxMoves
    BY <1>2, PollAssumption DEF IInv, TypeOK
  <1>4. TypeOK'
    BY <1>1, <1>2, <1>3 DEF IInv, TypeOK
  <1>5. HeadStaysConfirmed'
    BY <1>1, <1>2 DEF IInv, TypeOK, HeadStaysConfirmed, At, TreeOf
  <1> QED
    BY <1>2, <1>4, <1>5, JobsRest, WorldMoveKeeps

\* One Job moves on: its ref stays, and only a Job without an answer gets one.
LEMMA JobMoveKeeps ==
  ASSUME IInv, NEW r \in Run, NEW j \in JobState,
         job' = [job EXCEPT ![r] = j], job[r].phase # "none", j.phase # "none",
         j.ref = job[r].ref, JudgesItsRef(j),
         job[r].ended # "none" => j.ended = job[r].ended /\ j.tree = job[r].tree,
         UNCHANGED <<head, token, client, mirror, published, moves>>
  PROVE  IInv'
  <1>1. /\ job' \in [Run -> JobState] /\ job'[r] = j
        /\ \A q \in Run \ {r} : job'[q] = job[q]
    BY DEF IInv, TypeOK
  <1>2. TypeOK'
    BY <1>1 DEF IInv, TypeOK
  <1>3. \A q \in Run : Evolves(q)
    BY <1>1 DEF IInv, JobsJudgeTheirRef, JudgesItsRef, Evolves
  <1>4. HeadStaysConfirmed'
    BY DEF IInv, HeadStaysConfirmed, At, TreeOf
  <1> QED
    BY <1>1, <1>2, <1>3, <1>4, WorldMoveKeeps

\* Ending a Job that has not ended.
LEMMA EndKeepsIInv ==
  ASSUME IInv, NEW r \in Run, NEW how \in {"Complete", "Failed"}, End(r, how),
         job[r].phase \in {"admitted", "running"},
         how = "Complete" => job[r].phase = "running",
         UNCHANGED <<head, token, client, mirror, published, moves>>
  PROVE  IInv'
  <1> DEFINE j == [job[r] EXCEPT !.phase = how, !.ended = how]
  <1>1. job[r] \in JobState /\ JudgesItsRef(job[r])
    BY DEF IInv, TypeOK, JobsJudgeTheirRef
  <1>2. j \in JobState
    BY <1>1 DEF JobState
  <1>3. j.phase = how /\ j.ended = how /\ j.ref = job[r].ref /\ j.tree = job[r].tree
    BY <1>1 DEF JobState
  <1>4. job' = [job EXCEPT ![r] = j]
    BY <1>1 DEF End, IInv, TypeOK, JobState
  <1> HIDE DEF j
  <1>5. job[r].ended = "none" /\ JudgesItsRef(j)
    BY <1>1, <1>3 DEF JudgesItsRef
  <1> QED
    BY <1>2, <1>3, <1>4, <1>5, JobMoveKeeps

LEMMA JobStepKeepsIInv ==
  ASSUME IInv, NEW r \in Run, JobSteps(r)
  PROVE  IInv'
  <1>1. job[r] \in JobState /\ JudgesItsRef(job[r])
    BY DEF IInv, TypeOK, JobsJudgeTheirRef
  <1>2. UNCHANGED <<head, token, client, mirror, published, moves>>
    BY DEF JobSteps, Admit, Fetch, Judge, Expire
  <1>3. CASE Admit(r)
    <2> DEFINE j == [job[r] EXCEPT !.phase = "admitted"]
    <2>1. j \in JobState
      BY <1>1 DEF JobState
    <2>2. /\ j.phase = "admitted" /\ j.ended = job[r].ended
          /\ j.ref = job[r].ref /\ j.tree = job[r].tree
      BY <1>1 DEF JobState
    <2>3. job' = [job EXCEPT ![r] = j] /\ job[r].phase = "suspended"
      BY <1>3 DEF Admit, JobStep, IInv, TypeOK
    <2> HIDE DEF j
    <2>4. JudgesItsRef(j)
      BY <1>1, <2>2, <2>3 DEF JudgesItsRef, JobState
    <2> QED
      BY <1>2, <2>1, <2>2, <2>3, <2>4, JobMoveKeeps
  <1>4. CASE Expire(r)
    <2> DEFINE j == [job[r] EXCEPT !.phase = "gone"]
    <2>1. j \in JobState
      BY <1>1 DEF JobState
    <2>2. /\ j.phase = "gone" /\ j.ended = job[r].ended
          /\ j.ref = job[r].ref /\ j.tree = job[r].tree
      BY <1>1 DEF JobState
    <2>3. job' = [job EXCEPT ![r] = j] /\ job[r].phase # "none"
      BY <1>4 DEF Expire, Terminal, IInv, TypeOK
    <2> HIDE DEF j
    <2>4. JudgesItsRef(j)
      BY <1>1, <2>2, <2>3 DEF JudgesItsRef, JobState
    <2> QED
      BY <1>2, <2>1, <2>2, <2>3, <2>4, JobMoveKeeps
  <1>5. CASE Judge(r)
    BY <1>2, <1>5, EndKeepsIInv DEF Judge
  <1>6. CASE Fetch(r)
    <2> DEFINE t == mirror[job[r].ref].tree
               j == [job[r] EXCEPT !.phase = "running", !.tree = t]
    <2>1. job[r].phase = "admitted"
      BY <1>6 DEF Fetch
    <2>2. CASE End(r, "Failed")
      BY <1>2, <2>1, <2>2, EndKeepsIInv
    <2>3. CASE t = job[r].ref.tree /\ job' = [job EXCEPT ![r].phase = "running",
                                                         ![r].tree = t]
      <3>1. job[r].ref \in Ref /\ job[r].ended = "none"
        BY <1>1, <2>1 DEF JudgesItsRef, JobState
      <3>2. t \in Tree
        BY <2>3, <3>1 DEF Ref
      <3>3. job' = [job EXCEPT ![r] = j]
        BY <1>1, <2>3 DEF IInv, TypeOK, JobState
      <3> HIDE DEF t
      <3>4. j \in JobState
        BY <1>1, <3>2 DEF JobState
      <3>5. /\ j.phase = "running" /\ j.ended = job[r].ended
            /\ j.ref = job[r].ref /\ j.tree = t
        BY <1>1 DEF JobState
      <3> HIDE DEF j
      <3>6. JudgesItsRef(j)
        BY <1>1, <2>1, <2>3, <3>1, <3>5 DEF JudgesItsRef
      <3> QED
        BY <1>2, <2>1, <3>1, <3>3, <3>4, <3>5, <3>6, JobMoveKeeps
    <2> QED
      BY <1>6, <2>2, <2>3 DEF Fetch
  <1> QED
    BY <1>3, <1>4, <1>5, <1>6 DEF JobSteps

LEMMA SweepKeepsIInv ==
  ASSUME IInv, NEW n \in Ref, Sweep(n)
  PROVE  IInv'
  <1>1. UNCHANGED <<head, token, client, job, published, moves>>
    BY DEF Sweep, Age, SweepTree, SweepBase
  <1>2. mirror[n] \in Entry /\ Absent \in Entry
    BY DEF IInv, TypeOK, Absent, Entry
  <1>3. mirror' \in [Ref -> Entry]
    <2>1. CASE Age(n)
      <3>1. [mirror[n] EXCEPT !.old = TRUE] \in Entry
        BY <1>2 DEF Entry
      <3> QED
        BY <2>1, <3>1 DEF Age, IInv, TypeOK, Entry
    <2>2. CASE SweepTree(n)
      <3>1. [mirror[n] EXCEPT !.tree = None] \in Entry
        BY <1>2 DEF Entry
      <3> QED
        BY <1>2, <2>2, <3>1 DEF SweepTree, Swept, IInv, TypeOK
    <2>3. CASE SweepBase(n)
      <3>1. [mirror[n] EXCEPT !.base = FALSE] \in Entry
        BY <1>2 DEF Entry
      <3> QED
        BY <1>2, <2>3, <3>1 DEF SweepBase, Swept, IInv, TypeOK
    <2> QED
      BY <2>1, <2>2, <2>3 DEF Sweep
  <1>4. TypeOK'
    BY <1>1, <1>3 DEF IInv, TypeOK
  <1>5. HeadStaysConfirmed'
    BY <1>1 DEF IInv, HeadStaysConfirmed, At, TreeOf
  <1> QED
    BY <1>1, <1>4, <1>5, JobsRest, WorldMoveKeeps

LEMMA InitIInv == Init => IInv
  <1> SUFFICES ASSUME Init PROVE IInv
    OBVIOUS
  <1>1. /\ Idle \in ClientState /\ NoJob \in JobState /\ Absent \in Entry
        /\ 0 \in 0 .. MaxMoves
    BY PollAssumption DEF Idle, ClientState, NoJob, JobState, Absent, Entry
  <1>2. TypeOK
    BY <1>1 DEF Init, TypeOK
  <1>3. \A w \in Worktree : client[w] = Idle
    BY DEF Init
  <1>4. RunsAreExclusive /\ HeadStaysConfirmed
    BY <1>3 DEF RunsAreExclusive, HeadStaysConfirmed, RunOf, At, Idle
  <1>5. ClientsKeepStep /\ OutcomesAreOwn
    BY <1>3 DEF ClientsKeepStep, OutcomesAreOwn, InStep, OwnOutcome, Idle
  <1>6. JobsJudgeTheirRef
    BY DEF Init, JobsJudgeTheirRef, JudgesItsRef, NoJob
  <1>7. PublishedByItsOwnRun /\ TokensEarned
    BY DEF Init, PublishedByItsOwnRun, TokensEarned, TokenIsEarned
  <1> QED
    BY <1>2, <1>4, <1>5, <1>6, <1>7 DEF IInv

\* The invariant holds in every reachable state.
THEOREM InductiveInvariant == Spec => []IInv
  <1>1. IInv /\ [Next]_vars => IInv'
    <2> SUFFICES ASSUME IInv, [Next]_vars PROVE IInv'
      OBVIOUS
    <2>1. CASE UNCHANGED vars
      <3>1. TypeOK' /\ HeadStaysConfirmed'
        BY <2>1 DEF vars, IInv, TypeOK, HeadStaysConfirmed, At, TreeOf
      <3> QED
        BY <2>1, <3>1, JobsRest, WorldMoveKeeps DEF vars
    <2>2. CASE Next
      BY <2>2, ClientKeepsIInv, CommitKeepsIInv, JobStepKeepsIInv, SweepKeepsIInv DEF Next
    <2> QED
      BY <2>1, <2>2
  <1> QED
    BY InitIInv, <1>1, PTL DEF Spec

\* The type invariant.
THEOREM TypeCorrect == Spec => []TypeOK
  <1>1. IInv => TypeOK
    BY DEF IInv
  <1> QED
    BY InductiveInvariant, <1>1, PTL

\* A push that a delegated run let through was judged green by that run's Job,
\* on the tree the run was assembled for.
THEOREM OnlyItsOwnRunPublishes == Spec => []PublishedByItsOwnRun
  <1>1. IInv => PublishedByItsOwnRun
    BY DEF IInv
  <1> QED
    BY InductiveInvariant, <1>1, PTL

\* A client says "red" only of a Job of its own that ended Failed.
THEOREM RedIsNeverInvented == Spec => []FailedIsTheJobsAnswer
  <1>1. IInv => FailedIsTheJobsAnswer
    BY DEF IInv, OutcomesAreOwn, OwnOutcome, FailedIsTheJobsAnswer, RunOf
  <1> QED
    BY InductiveInvariant, <1>1, PTL

\* Where no commit lands between the confirmation of HEAD and the write, a
\* green token names a tree some gate Job judged green.
THEOREM TokensAreEarned == Spec => [](~ Slip => TokenIsEarned)
  <1>1. IInv => (~ Slip => TokenIsEarned)
    BY DEF IInv, TokensEarned
  <1> QED
    BY InductiveInvariant, <1>1, PTL

-----------------------------------------------------------------------------
(* Who collects what                                                         *)

\* A client moves, on its own run, and at most that run's Job comes to wait.
LEMMA ClientMoveOwns ==
  ASSUME IInv, CollectionsAreOwn, NEW w \in Worktree,
         \A v \in Worktree \ {w} : client'[v] = client[v],
         client'[w].ref # None =>
            client'[w].run # None /\ client'[w].ref.nonce = client'[w].run,
         \A r \in Run : Awaiting(r)' => Awaiting(r) \/ r = RunOf(w),
         \A r \in Run : job'[r].ref # None => job'[r].ref.nonce = r,
         ~ LostCreate /\ client'[w].pc \in {"stream", "collect"} =>
            job'[client'[w].run].phase \notin {"suspended", "admitted"}
  PROVE  CollectionsAreOwn'
  <1>1. NoncesAreRuns'
    BY DEF CollectionsAreOwn, NoncesAreRuns, RunOf
  <1>2. ASSUME ~ LostCreate, NEW v \in Worktree \ {w}, client'[v].pc \in {"stream", "collect"}
        PROVE  ~ Awaiting(RunOf(v))'
    <2>1. client'[v] = client[v] /\ RunOf(v) # None /\ RunOf(v) \in Run
      BY <1>2 DEF IInv, TypeOK, ClientsKeepStep, InStep, ClientState, RunOf
    <2>2. RunOf(v) # RunOf(w)
      BY <2>1 DEF IInv, RunsAreExclusive
    <2>3. ~ Awaiting(RunOf(v))
      BY <1>2, <2>1 DEF CollectionsAreOwn, CollectsAfterItsJob
    <2> QED
      BY <2>1, <2>2, <2>3 DEF RunOf, Awaiting
  <1>3. CollectsAfterItsJob'
    BY <1>2 DEF CollectsAfterItsJob, Awaiting, RunOf
  <1> QED
    BY <1>1, <1>3 DEF CollectionsAreOwn

\* A client's step on the run it has, with the Jobs at rest.
LEMMA StepOwns ==
  ASSUME IInv, CollectionsAreOwn, NEW w \in Worktree, NEW c \in ClientState,
         Move(w, c), UNCHANGED job,
         c.run = client[w].run /\ c.ref = client[w].ref,
         c.pc \in {"stream", "collect"} => client[w].pc = "stream" \/ ~ Awaiting(RunOf(w))
  PROVE  CollectionsAreOwn'
  <1>1. client'[w] = c /\ \A v \in Worktree \ {w} : client'[v] = client[v]
    BY Moved DEF IInv
  <1>2. /\ c.ref # None => c.run # None /\ c.ref.nonce = c.run
        /\ \A r \in Run : job[r].ref # None => job[r].ref.nonce = r
    BY DEF CollectionsAreOwn, NoncesAreRuns, RunOf
  <1>3. ~ LostCreate /\ c.pc \in {"stream", "collect"} => ~ Awaiting(RunOf(w))
    BY DEF CollectionsAreOwn, CollectsAfterItsJob
  <1> QED
    BY <1>1, <1>2, <1>3, ClientMoveOwns DEF Awaiting, RunOf

\* Every step of a client that only moves its control and what it carries.
LEMMA QuietClientOwns ==
  ASSUME IInv, CollectionsAreOwn, NEW w \in Worktree,
         \/ CheckToken(w) \/ RunMembers(w) \/ RunAuthority(w) \/ Publish(w) \/ Poll(w)
         \/ Stream(w) \/ Collect(w) \/ Confirm(w) \/ WriteToken(w) \/ Decide(w)
         \/ Interrupt(w) \/ (Assemble(w) /\ NoVerdict(w))
  PROVE  CollectionsAreOwn'
  <1>1. client[w] \in ClientState /\ head[w] \in Tree /\ UNCHANGED job
    <2>1. UNCHANGED job
      BY DEF CheckToken, RunMembers, RunAuthority, Publish, Poll, Stream, Collect, Confirm,
             WriteToken, Decide, Interrupt, Assemble
    <2> QED
      BY <2>1 DEF IInv, TypeOK
  <1>2. CASE \E p \in {"assemble", "submit", "poll", "abandon", "confirm", "decide"} : Goto(w, p)
    <2>1. PICK p \in {"assemble", "submit", "poll", "abandon", "confirm", "decide"} : Goto(w, p)
      BY <1>2
    <2>2. [client[w] EXCEPT !.pc = p] \in ClientState
      BY <1>1 DEF ClientState
    <2> QED
      BY <1>1, <2>1, <2>2, StepOwns DEF Goto, ClientState
  <1>3. CASE \E a \in {"completed", "refused"} : Answer(w, a)
    <2>1. PICK a \in {"completed", "refused"} : Answer(w, a)
      BY <1>3
    <2>2. [client[w] EXCEPT !.pc = "idle", !.answer = a] \in ClientState
      BY <1>1 DEF ClientState
    <2> QED
      BY <1>1, <2>1, <2>2, StepOwns DEF Answer, ClientState
  <1>4. CASE \E v \in {"PASSED", "FAILED", "NO_VERDICT", "HOST_AUTHORITY_REFUSED"} : Refuse(w, v)
    <2>1. PICK v \in {"PASSED", "FAILED", "NO_VERDICT", "HOST_AUTHORITY_REFUSED"} : Refuse(w, v)
      BY <1>4
    <2>2. [client[w] EXCEPT !.pc = "idle", !.answer = "refused", !.verdict = v] \in ClientState
      BY <1>1 DEF ClientState
    <2> QED
      BY <1>1, <2>1, <2>2, StepOwns DEF Refuse, ClientState
  <1>5. CASE Move(w, [client[w] EXCEPT !.pc = "members", !.judged = head[w]])
    <2>1. [client[w] EXCEPT !.pc = "members", !.judged = head[w]] \in ClientState
      BY <1>1 DEF ClientState
    <2> QED
      BY <1>1, <1>5, <2>1, StepOwns DEF ClientState
  <1>6. CASE RunAuthority(w)
    <2>1. PICK ok \in BOOLEAN :
             Move(w, [client[w] EXCEPT !.pc = "publish", !.granted = ok, !.judged = head[w]])
      BY <1>6 DEF RunAuthority
    <2>2. [client[w] EXCEPT !.pc = "publish", !.granted = ok, !.judged = head[w]] \in ClientState
      BY <1>1 DEF ClientState
    <2> QED
      BY <1>1, <2>1, <2>2, StepOwns DEF ClientState
  <1>7. CASE At(w, "poll") /\ Terminal(RunOf(w))
             /\ Move(w, [client[w] EXCEPT !.pc = "stream", !.outcome = job[RunOf(w)].phase])
    <2>0. job[RunOf(w)].phase \in {"Complete", "Failed"}
      BY <1>7 DEF Terminal
    <2>1. [client[w] EXCEPT !.pc = "stream", !.outcome = job[RunOf(w)].phase] \in ClientState
      BY <1>1, <2>0 DEF ClientState
    <2>2. ~ Awaiting(RunOf(w))
      BY <1>7 DEF Terminal, Awaiting
    <2> QED
      BY <1>1, <1>7, <2>1, <2>2, StepOwns DEF ClientState
  <1>8. CASE At(w, "poll") /\ SpendPoll(w)
    <2> DEFINE spent == client[w].polls + 1
               p == IF spent = MaxPolls THEN "abandon" ELSE "poll"
    <2>1. spent \in 0 .. MaxPolls
      BY <1>8, PollAssumption DEF IInv, TypeOK, ClientsKeepStep, InStep, ClientState, At
    <2>2. Move(w, [client[w] EXCEPT !.pc = p, !.polls = spent])
      BY <1>8 DEF SpendPoll
    <2>3. p \in {"abandon", "poll"}
      OBVIOUS
    <2> HIDE DEF spent, p
    <2>4. [client[w] EXCEPT !.pc = p, !.polls = spent] \in ClientState
      BY <1>1, <2>1, <2>3 DEF ClientState
    <2> QED
      BY <1>1, <2>2, <2>3, <2>4, StepOwns DEF ClientState
  <1>9. CASE Stream(w)
    <2>1. CASE Move(w, [client[w] EXCEPT !.pc = "collect"])
      <3>1. [client[w] EXCEPT !.pc = "collect"] \in ClientState
        BY <1>1 DEF ClientState
      <3> QED
        BY <1>1, <1>9, <2>1, <3>1, StepOwns DEF Stream, At, ClientState
    <2>2. CASE Move(w, [client[w] EXCEPT !.pc = "collect", !.outcome = "none"])
      <3>1. [client[w] EXCEPT !.pc = "collect", !.outcome = "none"] \in ClientState
        BY <1>1 DEF ClientState
      <3> QED
        BY <1>1, <1>9, <2>2, <3>1, StepOwns DEF Stream, At, ClientState
    <2> QED
      BY <1>9, <2>1, <2>2 DEF Stream, Goto
  <1>10. CASE Move(w, [client[w] EXCEPT !.pc = "write", !.verdict = "PASSED"])
    <2>1. [client[w] EXCEPT !.pc = "write", !.verdict = "PASSED"] \in ClientState
      BY <1>1 DEF ClientState
    <2> QED
      BY <1>1, <1>10, <2>1, StepOwns DEF ClientState
  <1> QED
    BY <1>2, <1>3, <1>4, <1>5, <1>6, <1>7, <1>8, <1>9, <1>10
    DEF CheckToken, RunMembers, Publish, Poll, Collect, Confirm, WriteToken, Decide, Interrupt, NoVerdict

\* A push begins, ends, or names its run.
LEMMA FreshClientOwns ==
  ASSUME IInv, CollectionsAreOwn, NEW w \in Worktree,
         StartPush(w) \/ Return(w) \/ (Assemble(w) /\ ~ NoVerdict(w))
  PROVE  CollectionsAreOwn'
  <1>1. UNCHANGED job /\ client \in [Worktree -> ClientState]
    BY DEF StartPush, Return, Assemble, IInv, TypeOK
  <1>2. \A r \in Run : job[r].ref # None => job[r].ref.nonce = r
    BY DEF CollectionsAreOwn, NoncesAreRuns
  <1>3. CASE StartPush(w) \/ Return(w)
    <2>1. /\ \A v \in Worktree \ {w} : client'[v] = client[v]
          /\ client'[w].ref = None /\ client'[w].pc \in {"idle", "token"}
      <3>1. CASE StartPush(w)
        <4>1. client' = [client EXCEPT ![w] = [Idle EXCEPT !.pc = "token", !.answer = "asked"]]
          BY <3>1 DEF StartPush
        <4>2. /\ [Idle EXCEPT !.pc = "token", !.answer = "asked"].ref = None
              /\ [Idle EXCEPT !.pc = "token", !.answer = "asked"].pc = "token"
          BY DEF Idle
        <4> QED
          BY <1>1, <4>1, <4>2
      <3>2. CASE Return(w)
        BY <1>1, <3>2 DEF Return, Idle
      <3> QED
        BY <1>3, <3>1, <3>2
    <2> QED
      BY <1>1, <1>2, <2>1, ClientMoveOwns DEF Awaiting
  <1>4. CASE Assemble(w) /\ ~ NoVerdict(w)
    <2>1. PICK r \in Fresh : Move(w, [client[w] EXCEPT !.pc = "authority", !.run = r,
                                                     !.ref = GateRef(head[w], r)])
      BY <1>4 DEF Assemble
    <2>2. r # None
      BY RunAssumption DEF Fresh
    <2>3. /\ \A v \in Worktree \ {w} : client'[v] = client[v]
          /\ client'[w].run = r /\ client'[w].ref.nonce = r /\ client'[w].pc = "authority"
      BY <1>1, <2>1 DEF Move, ClientState, GateRef
    <2> QED
      BY <1>1, <1>2, <2>2, <2>3, ClientMoveOwns DEF Awaiting
  <1> QED
    BY <1>3, <1>4

\* A step that makes, changes or deletes the client's own Job.
LEMMA JobClientOwns ==
  ASSUME IInv, CollectionsAreOwn, NEW w \in Worktree, Submit(w) \/ Deliver(w) \/ Abandon(w)
  PROVE  CollectionsAreOwn'
  <1>1. /\ client[w] \in ClientState /\ job \in [Run -> JobState]
        /\ RunOf(w) \in Run /\ client[w].ref # None
    BY DEF IInv, TypeOK, ClientsKeepStep, InStep, ClientState, RunOf, Submit, Deliver, Abandon, At
  <1>2. client[w].ref.nonce = RunOf(w) /\ \A r \in Run : job[r].ref # None => job[r].ref.nonce = r
    BY <1>1 DEF CollectionsAreOwn, NoncesAreRuns
  <1>3. /\ \A v \in Worktree \ {w} : client'[v] = client[v]
        /\ client'[w].run = client[w].run /\ client'[w].ref = client[w].ref
        /\ client'[w].pc \in {"deliver", "poll", "idle", "collect", "abandon"}
    BY GotoSteps, RefuseSteps DEF IInv, Submit, Deliver, Abandon, NoVerdict, Steps
  <1>4. \A r \in Run : Awaiting(r)' => Awaiting(r) \/ r = RunOf(w)
    BY <1>1 DEF Submit, Submitted, Deliver, Abandon, Awaiting
  <1>5. \A r \in Run : job'[r].ref # None => job'[r].ref.nonce = r
    <2>1. ASSUME NEW r \in Run PROVE job'[r].ref = job[r].ref \/ (r = RunOf(w) /\ job'[r].ref = client[w].ref)
      <3>1. CASE job' = job
        BY <3>1
      <3>2. CASE Submitted(w)
        <4> DEFINE new == [NoJob EXCEPT !.phase = "suspended", !.ref = client[w].ref,
                                        !.private = w \in Private]
        <4>1. new.ref = client[w].ref
          BY DEF NoJob
        <4>2. job' = [job EXCEPT ![RunOf(w)] = new]
          BY <3>2 DEF Submitted
        <4> HIDE DEF new
        <4> QED
          BY <1>1, <4>1, <4>2
      <3>3. CASE job' = [job EXCEPT ![RunOf(w)].secret = TRUE]
        BY <1>1, <3>3 DEF JobState
      <3>4. CASE job' = [job EXCEPT ![RunOf(w)].phase = "gone"]
        BY <1>1, <3>4 DEF JobState
      <3> QED
        BY <3>1, <3>2, <3>3, <3>4 DEF Submit, Deliver, Abandon
    <2> QED
      BY <1>2, <2>1
  <1>6. ~ LostCreate /\ client'[w].pc = "collect" => job'[client'[w].run].phase \notin {"suspended", "admitted"}
    <2>1. SUFFICES ASSUME ~ LostCreate, client'[w].pc = "collect"
                   PROVE  job'[client'[w].run].phase \notin {"suspended", "admitted"}
      OBVIOUS
    <2>2. Submit(w) /\ UNCHANGED job
      <3>1. Steps(w, "deliver", client[w].verdict, client[w].outcome) => client'[w].pc = "deliver"
        BY DEF Steps
      <3>2. \A p \in {"deliver", "poll", "abandon"} : ~ Goto(w, p)
        BY <2>1, GotoSteps DEF IInv, Steps
      <3>3. ~ NoVerdict(w)
        BY <2>1, RefuseSteps DEF IInv, NoVerdict, Steps
      <3> QED
        BY <2>1, <3>2, <3>3 DEF Submit, Deliver, Abandon
    <2>3. job[RunOf(w)].phase = "none"
      BY <2>2 DEF Submit, At, IInv, ClientsKeepStep, InStep, RunOf
    <2> QED
      BY <1>3, <2>2, <2>3 DEF RunOf
  <1> QED
    BY <1>1, <1>2, <1>3, <1>4, <1>5, <1>6, ClientMoveOwns DEF RunOf

\* No Job comes to wait again, and the worktrees and the sweep touch neither
\* clients nor Jobs.
LEMMA WorldOwns ==
  ASSUME IInv, CollectionsAreOwn,
         \/ \E w \in Worktree : Commit(w)
         \/ \E r \in Run : JobSteps(r)
         \/ \E n \in Ref : Sweep(n)
         \/ UNCHANGED vars
  PROVE  CollectionsAreOwn'
  <1>1. UNCHANGED client /\ job \in [Run -> JobState]
    BY DEF Commit, JobSteps, Admit, Fetch, Judge, Expire, Sweep, Age, SweepTree, SweepBase, vars, IInv, TypeOK
  <1>2. \A r \in Run : job'[r].ref = job[r].ref /\ (Awaiting(r)' => Awaiting(r))
    <2>1. CASE \E q \in Run : JobSteps(q)
      BY <1>1, <2>1
      DEF JobSteps, Admit, Fetch, Judge, Expire, JobStep, End, Awaiting, JobState, Terminal
    <2>2. CASE UNCHANGED job
      BY <2>2 DEF Awaiting
    <2> QED
      BY <2>1, <2>2 DEF Commit, Sweep, Age, SweepTree, SweepBase, vars
  <1>3. \A w \in Worktree : client[w].pc \in {"stream", "collect"} => RunOf(w) \in Run
    BY DEF IInv, TypeOK, ClientsKeepStep, InStep, ClientState, RunOf
  <1> QED
    BY <1>1, <1>2, <1>3 DEF CollectionsAreOwn, NoncesAreRuns, CollectsAfterItsJob, RunOf, Awaiting

LEMMA NextOwns == ASSUME IInv, CollectionsAreOwn, [Next]_vars PROVE CollectionsAreOwn'
  <1>1. ASSUME NEW w \in Worktree, StartPush(w) \/ Return(w) \/ ClientStep(w) \/ Interrupt(w)
        PROVE  CollectionsAreOwn'
    BY <1>1, QuietClientOwns, FreshClientOwns, JobClientOwns DEF ClientStep
  <1> QED
    BY <1>1, WorldOwns DEF Next

LEMMA InitOwns == Init => CollectionsAreOwn
  BY DEF Init, CollectionsAreOwn, NoncesAreRuns, CollectsAfterItsJob, Idle, NoJob

\* Only a client that collects its own ref, and the sweep once it is old, take
\* a tree ref off the mirror; and the client only after a create that was lost.
LEMMA RefsStay ==
  ASSUME IInv, CollectionsAreOwn, [Next]_vars, NEW r \in Run,
         Awaiting(r), ~ mirror[job[r].ref].old, mirror[job[r].ref].tree # None
  PROVE  \/ mirror'[job[r].ref].tree # None
         \/ LostCreate /\ \E w \in Worktree : RunOf(w) = r /\ Collect(w)
  <1> DEFINE n == job[r].ref
  <1>1. /\ n \in Ref /\ mirror \in [Ref -> Entry] /\ n.nonce = r
        /\ client \in [Worktree -> ClientState] /\ head \in [Worktree -> Tree]
    BY DEF IInv, TypeOK, JobState, JobsJudgeTheirRef, JudgesItsRef, Awaiting, CollectionsAreOwn, NoncesAreRuns
  <1>2. CASE UNCHANGED mirror
    BY <1>2
  <1>3. ASSUME NEW w \in Worktree, Publish(w) PROVE mirror'[n].tree # None
    <2>1. head[w] # None
      BY <1>1, TreeAssumption
    <2> QED
      BY <1>1, <1>3, <2>1 DEF Publish
  <1>4. ASSUME NEW w \in Worktree, Collect(w)
        PROVE  mirror'[n].tree # None \/ (LostCreate /\ RunOf(w) = r)
    <2>1. client[w].ref # None /\ RunOf(w) \in Run
      BY <1>4 DEF Collect, At, IInv, TypeOK, ClientsKeepStep, InStep, ClientState, RunOf
    <2>2. client[w].ref.nonce = RunOf(w) /\ (LostCreate \/ ~ Awaiting(RunOf(w)))
      BY <1>4, <2>1 DEF Collect, At, CollectionsAreOwn, NoncesAreRuns, CollectsAfterItsJob
    <2>3. CASE RunOf(w) = r
      BY <2>2, <2>3
    <2>4. CASE RunOf(w) # r
      <3>1. client[w].ref # n
        BY <1>1, <2>2, <2>4
      <3> QED
        BY <1>1, <1>4, <3>1 DEF Collect
    <2> QED
      BY <2>3, <2>4
  <1>5. ASSUME NEW m \in Ref, Sweep(m) PROVE mirror'[n].tree # None
    <2>1. m = n => mirror' = [mirror EXCEPT ![m].old = TRUE]
      BY <1>5 DEF Sweep, Age, SweepTree, SweepBase
    <2>2. \E e \in {mirror'[m]} : mirror' = [mirror EXCEPT ![m] = e]
      BY <1>1, <1>5 DEF Sweep, Age, SweepTree, SweepBase, Swept, Entry
    <2> QED
      BY <1>1, <2>1, <2>2 DEF Entry
  <1> QED
    BY <1>2, <1>3, <1>4, <1>5
    DEF Next, StartPush, Return, ClientStep, Interrupt, CheckToken, RunMembers, Assemble, RunAuthority,
        Submit, Deliver, Poll, Abandon, Stream, Confirm, WriteToken, Decide, Commit, JobSteps,
        Admit, Fetch, Judge, Expire, vars

\* The refs are the runs' own, whatever is lost.
LEMMA OwnCollections == Spec => []CollectionsAreOwn
  <1>1. IInv /\ CollectionsAreOwn /\ [Next]_vars => CollectionsAreOwn'
    BY NextOwns
  <1> QED
    BY <1>1, InitOwns, InductiveInvariant, PTL DEF Spec

\* Where no create takes effect unheard, whatever the number of worktrees, runs
\* and trees, no client and no sweep takes a young ref from under a waiting Job.
THEOREM RefsOutliveTheWait == ASSUME ~ LostCreate PROVE Spec => NoCollectionUnderALiveJob
  <1>1. IInv /\ CollectionsAreOwn /\ [Next]_vars =>
          [ \A r \in Run :
              job[r].phase \in {"suspended", "admitted"} /\ ~ mirror[job[r].ref].old
                => mirror'[job[r].ref].tree # None \/ mirror[job[r].ref].tree = None ]_vars
    BY RefsStay DEF Awaiting
  <1> QED
    BY <1>1, OwnCollections, InductiveInvariant, PTL DEF Spec, NoCollectionUnderALiveJob

\* A young ref that goes from under a Job that waits for it goes by the hand of the
\* Job's own client, and of no other run's.
TakenFromUnder(r) ==
    /\ Awaiting(r) /\ ~ mirror[job[r].ref].old
    /\ mirror[job[r].ref].tree # None /\ mirror'[job[r].ref].tree = None
CollectedByItsOwn(r) == \E w \in Worktree : RunOf(w) = r /\ Collect(w)
OnlyItsOwnClientTakesIt ==
    [][ \A r \in Run : TakenFromUnder(r) => CollectedByItsOwn(r) ]_vars

\* So a lost create costs the run it was for and no run beside it: two worktrees
\* that gate one tree at once never collect each other's input, whatever fails.
THEOREM LossesStayAtHome == Spec => OnlyItsOwnClientTakesIt
  <1>1. ASSUME IInv, CollectionsAreOwn, [Next]_vars
        PROVE  \A r \in Run : TakenFromUnder(r) => CollectedByItsOwn(r)
    <2> SUFFICES ASSUME NEW r \in Run, TakenFromUnder(r) PROVE CollectedByItsOwn(r)
      OBVIOUS
    <2> QED
      BY <1>1, RefsStay DEF TakenFromUnder, CollectedByItsOwn
  <1>2. IInv /\ CollectionsAreOwn /\ [Next]_vars
          => [ \A r \in Run : TakenFromUnder(r) => CollectedByItsOwn(r) ]_vars
    BY <1>1
  <1> QED
    BY <1>2, OwnCollections, InductiveInvariant, PTL DEF Spec, OnlyItsOwnClientTakesIt

-----------------------------------------------------------------------------
(* The safety half of the promise                                            *)

\* What a step of w's client does to its push: it goes on with it, refuses it, or
\* completes it on a tree that was judged green.
Moves(w) ==
    /\ client' \in [Worktree -> ClientState]
    /\ \A v \in Worktree \ {w} : client'[v] = client[v]
    /\ client[w].answer = "asked"
GoesOn(w) ==
    /\ Moves(w) /\ client'[w].answer = "asked"
    /\ ~ Slip /\ At(w, "members")' => client'[w].judged \in JudgedGreen
    /\ UNCHANGED published
Refuses(w) ==
    /\ Moves(w) /\ client'[w].answer = "refused" /\ At(w, "idle")'
    /\ UNCHANGED published
Completes(w) ==
    /\ Moves(w) /\ client'[w].answer = "completed" /\ At(w, "idle")'
    /\ \E t \in JudgedGreen, r \in Run \cup {None} :
          published' = published \cup {[run |-> r, tree |-> t]}

\* Each is a step of the promise, or none that it sees.
LEMMA MoveIsPromised ==
  ASSUME IInv, AskedInv, NEW w \in Worktree, JudgedGreen' = JudgedGreen,
         GoesOn(w) \/ Refuses(w) \/ Completes(w)
  PROVE  AskedInv' /\ [Promise!Next]_(Promise!vars)
  <1> DEFINE answer == [v \in Worktree |-> client[v].answer]
             completed == {p.tree : p \in published}
  <1>1. AskedInv'
    BY DEF AskedInv, WorksWhenAsked, MemoizedIsJudged, At, GoesOn, Refuses, Completes, Moves
  <1>2. answer' = [answer EXCEPT ![w] = client'[w].answer] /\ answer[w] = "asked"
    BY DEF GoesOn, Refuses, Completes, Moves
  <1>3. CASE GoesOn(w)
    <2>1. answer' = answer
      BY <1>3 DEF GoesOn, Moves
    <2>2. completed' = completed
      BY <1>3 DEF GoesOn
    <2> QED
      BY <1>1, <2>1, <2>2 DEF Promise!vars
  <1>4. CASE Refuses(w)
    <2>1. client'[w].answer = "refused" /\ completed' = completed
      BY <1>4 DEF Refuses
    <2>2. Promise!Refuse(w)
      BY <1>2, <2>1 DEF Promise!Refuse, Promise!Become
    <2>3. Promise!Next
      BY <2>2 DEF Promise!Next
    <2> QED
      BY <1>1, <2>3
  <1>5. CASE Completes(w)
    <2>1. PICK t \in JudgedGreen, r \in Run \cup {None} :
             published' = published \cup {[run |-> r, tree |-> t]}
      BY <1>5 DEF Completes
    <2> DEFINE q == [run |-> r, tree |-> t]
    <2>2. q.tree = t /\ published' = published \cup {q}
      BY <2>1
    <2> HIDE DEF q
    <2>3. completed' = completed \cup {t}
      BY <2>2
    <2>4. client'[w].answer = "completed"
      BY <1>5 DEF Completes
    <2> HIDE DEF completed
    <2>5. /\ answer[w] = "asked" /\ answer' = [answer EXCEPT ![w] = "completed"]
          /\ \E u \in JudgedGreen : completed' = completed \cup {u}
      BY <1>2, <2>1, <2>3, <2>4
    <2> USE DEF completed
    <2>6. Promise!Complete(w)
      BY <2>5 DEF Promise!Complete, Promise!Become
    <2>7. Promise!Next
      BY <2>6 DEF Promise!Next
    <2> QED
      BY <1>1, <2>7
  <1> QED
    BY <1>3, <1>4, <1>5

\* Where a client moved, with one record for what it has become.
LEMMA GoesOnWith ==
  ASSUME TypeOK, NEW w \in Worktree, NEW c \in ClientState, Move(w, c),
         client[w].answer = "asked", c.answer = "asked", c.pc # "members",
         UNCHANGED published
  PROVE  GoesOn(w)
  BY Moved DEF GoesOn, Moves, At

\* It goes on wherever control alone moves.
LEMMA GotoGoesOn ==
  ASSUME TypeOK, NEW w \in Worktree,
         NEW p \in {"assemble", "submit", "deliver", "poll", "abandon", "collect",
                    "confirm", "decide"},
         Goto(w, p), client[w].answer = "asked", UNCHANGED published
  PROVE  GoesOn(w)
  <1> DEFINE c == [client[w] EXCEPT !.pc = p]
  <1>0. client[w] \in ClientState
    BY DEF TypeOK
  <1>1. c \in ClientState /\ c.answer = "asked" /\ c.pc # "members"
    BY <1>0 DEF ClientState
  <1>2. Move(w, c)
    BY DEF Goto
  <1> HIDE DEF c
  <1> QED
    BY <1>1, <1>2, GoesOnWith

\* The ways out of the hook.
LEMMA RefusalRefuses ==
  ASSUME TypeOK, NEW w \in Worktree, client[w].answer = "asked", UNCHANGED published,
         \/ Answer(w, "refused")
         \/ \E v \in {"PASSED", "FAILED", "NO_VERDICT", "HOST_AUTHORITY_REFUSED"} : Refuse(w, v)
  PROVE  Refuses(w)
  <1>0. client[w] \in ClientState
    BY DEF TypeOK
  <1>1. CASE Answer(w, "refused")
    <2> DEFINE c == [client[w] EXCEPT !.pc = "idle", !.answer = "refused"]
    <2>1. c \in ClientState /\ c.answer = "refused" /\ c.pc = "idle"
      BY <1>0 DEF ClientState
    <2>2. Move(w, c)
      BY <1>1 DEF Answer
    <2> HIDE DEF c
    <2> QED
      BY <2>1, <2>2, Moved DEF Refuses, Moves, At
  <1>2. CASE \E v \in {"PASSED", "FAILED", "NO_VERDICT", "HOST_AUTHORITY_REFUSED"} : Refuse(w, v)
    <2>1. PICK v \in {"PASSED", "FAILED", "NO_VERDICT", "HOST_AUTHORITY_REFUSED"} : Refuse(w, v)
      BY <1>2
    <2> DEFINE c == [client[w] EXCEPT !.pc = "idle", !.answer = "refused", !.verdict = v]
    <2>2. c \in ClientState /\ c.answer = "refused" /\ c.pc = "idle"
      BY <1>0 DEF ClientState
    <2>3. Move(w, c)
      BY <2>1 DEF Refuse
    <2> HIDE DEF c
    <2> QED
      BY <2>2, <2>3, Moved DEF Refuses, Moves, At
  <1> QED
    BY <1>1, <1>2

LEMMA CompletionCompletes ==
  ASSUME TypeOK, NEW w \in Worktree, client[w].answer = "asked", Answer(w, "completed"),
         NEW t \in JudgedGreen, NEW r \in Run \cup {None},
         published' = published \cup {[run |-> r, tree |-> t]}
  PROVE  Completes(w)
  <1> DEFINE c == [client[w] EXCEPT !.pc = "idle", !.answer = "completed"]
  <1>0. client[w] \in ClientState
    BY DEF TypeOK
  <1>1. c \in ClientState /\ c.answer = "completed" /\ c.pc = "idle"
    BY <1>0 DEF ClientState
  <1>2. Move(w, c)
    BY DEF Answer
  <1> HIDE DEF c
  <1> QED
    BY <1>1, <1>2, Moved DEF Completes, Moves, At

\* The set of judged trees hangs on what the Jobs ended with.
LEMMA JudgedStays ==
  ASSUME \A r \in Run : /\ job'[r].ended = job[r].ended
                        /\ job[r].ended = "Complete" => job'[r].tree = job[r].tree
  PROVE  JudgedGreen' = JudgedGreen
  BY DEF JudgedGreen

\* A client makes its Job and deletes it, and neither is a judgement.
LEMMA ClientJudgesNothing ==
  ASSUME IInv, NEW w \in Worktree, ClientStep(w)
  PROVE  JudgedGreen' = JudgedGreen
  <1>1. job \in [Run -> JobState] /\ client[w] \in ClientState /\ InStep(client[w])
    BY DEF IInv, TypeOK, ClientsKeepStep
  <1>2. CASE UNCHANGED job
    BY <1>2 DEF JudgedGreen
  <1>3. ASSUME Submit(w), Submitted(w) PROVE JudgedGreen' = JudgedGreen
    <2>1. RunOf(w) \in Run /\ job[RunOf(w)].phase = "none"
      BY <1>1, <1>3 DEF Submit, At, InStep, RunOf, ClientState
    <2>2. job[RunOf(w)].ended = "none"
      BY <2>1 DEF IInv, JobsJudgeTheirRef, JudgesItsRef
    <2> DEFINE new == [NoJob EXCEPT !.phase = "suspended", !.ref = client[w].ref,
                                    !.private = w \in Private]
    <2>3. new.ended = "none" /\ job' = [job EXCEPT ![RunOf(w)] = new]
      BY <1>3 DEF NoJob, Submitted
    <2> HIDE DEF new
    <2> QED
      BY <1>1, <2>1, <2>2, <2>3, JudgedStays
  <1>4. CASE Deliver(w) \/ Abandon(w)
    <2>1. \A r \in Run : job'[r].ended = job[r].ended /\ job'[r].tree = job[r].tree
      BY <1>1, <1>4 DEF Deliver, Abandon, JobState
    <2> QED
      BY <2>1, JudgedStays
  <1> QED
    BY <1>2, <1>3, <1>4
    DEF ClientStep, CheckToken, RunMembers, Assemble, RunAuthority, Publish, Submit, Poll,
        Stream, Collect, Confirm, WriteToken, Decide

\* A client completes a push only by its own green Job or an earned token.
LEMMA ClientMoves ==
  ASSUME ~ Slip, IInv, AskedInv, NEW w \in Worktree, ClientStep(w)
  PROVE  GoesOn(w) \/ Refuses(w) \/ Completes(w)
  <1>1. /\ TypeOK /\ client[w] \in ClientState /\ InStep(client[w]) /\ OwnOutcome(client[w])
        /\ head[w] \in Tree
    BY DEF IInv, TypeOK, ClientsKeepStep, OutcomesAreOwn
  <1>2. client[w].answer = "asked"
    BY DEF AskedInv, WorksWhenAsked, At, ClientStep, CheckToken, RunMembers, Assemble,
           RunAuthority, Publish, Submit, Deliver, Poll, Abandon, Stream, Collect, Confirm,
           WriteToken, Decide
  <1>3. CASE UNCHANGED published
             /\ \E p \in {"assemble", "submit", "deliver", "poll", "abandon", "collect",
                          "confirm", "decide"} : Goto(w, p)
    BY <1>1, <1>2, <1>3, GotoGoesOn
  <1>4. CASE UNCHANGED published /\ (NoVerdict(w) \/ Answer(w, "refused")
             \/ \E v \in {"PASSED", "FAILED", "HOST_AUTHORITY_REFUSED"} : Refuse(w, v))
    BY <1>1, <1>2, <1>4, RefusalRefuses DEF NoVerdict
  <1>5. CASE CheckToken(w)
    <2> DEFINE c == [client[w] EXCEPT !.pc = "members", !.judged = head[w]]
    <2>1. CASE token[w] = head[w] /\ Move(w, c)
      <3>1. c \in ClientState /\ c.answer = "asked" /\ c.judged = head[w]
        BY <1>1, <1>2 DEF ClientState
      <3>2. ~ Slip => head[w] \in JudgedGreen
        BY <1>1, <2>1, TreeAssumption DEF IInv, TokensEarned, TokenIsEarned
      <3> HIDE DEF c
      <3> QED
        BY <1>1, <1>2, <1>5, <2>1, <3>1, <3>2, Moved DEF CheckToken, GoesOn, Moves, At
    <2> QED
      BY <1>3, <1>5, <2>1 DEF CheckToken
  <1>6. CASE RunMembers(w)
    <2>1. client[w].judged \in JudgedGreen
      BY <1>6 DEF AskedInv, MemoizedIsJudged, RunMembers
    <2> QED
      BY <1>1, <1>2, <1>4, <1>6, <2>1, CompletionCompletes DEF RunMembers
  <1>7. CASE Assemble(w)
    <2>1. ASSUME NEW r \in Fresh,
                 Move(w, [client[w] EXCEPT !.pc = "authority", !.run = r,
                                           !.ref = GateRef(head[w], r)])
          PROVE  GoesOn(w)
      <3> DEFINE c == [client[w] EXCEPT !.pc = "authority", !.run = r,
                                        !.ref = GateRef(head[w], r)]
      <3>1. GateRef(head[w], r) \in Ref /\ r \in Run
        BY <1>1 DEF GateRef, Ref, Fresh
      <3>2. c \in ClientState /\ c.answer = "asked" /\ c.pc # "members"
        BY <1>1, <1>2, <3>1 DEF ClientState
      <3> HIDE DEF c
      <3> QED
        BY <1>1, <1>2, <1>7, <2>1, <3>2, GoesOnWith DEF Assemble, c
    <2> QED
      BY <1>4, <1>7, <2>1 DEF Assemble
  <1>8. CASE RunAuthority(w)
    <2>1. PICK ok \in BOOLEAN :
             Move(w, [client[w] EXCEPT !.pc = "publish", !.granted = ok, !.judged = head[w]])
      BY <1>8 DEF RunAuthority
    <2> DEFINE c == [client[w] EXCEPT !.pc = "publish", !.granted = ok, !.judged = head[w]]
    <2>2. c \in ClientState /\ c.answer = "asked" /\ c.pc # "members"
      BY <1>1, <1>2 DEF ClientState
    <2>3. Move(w, c)
      BY <2>1
    <2> HIDE DEF c
    <2> QED
      BY <1>1, <1>2, <1>8, <2>2, <2>3, GoesOnWith DEF RunAuthority
  <1>9. CASE Submit(w)
    <2>1. \E p \in {"deliver", "poll", "collect"} : Goto(w, p) \/ NoVerdict(w)
      BY <1>9 DEF Submit
    <2> QED
      BY <1>3, <1>4, <1>9, <2>1 DEF Submit
  <1>10. CASE Poll(w)
    <2>1. CASE /\ Terminal(RunOf(w))
               /\ Move(w, [client[w] EXCEPT !.pc = "stream", !.outcome = job[RunOf(w)].phase])
      <3> DEFINE c == [client[w] EXCEPT !.pc = "stream", !.outcome = job[RunOf(w)].phase]
      <3>0. job[RunOf(w)].phase \in {"Complete", "Failed"}
        BY <2>1 DEF Terminal
      <3>1. c \in ClientState /\ c.answer = "asked" /\ c.pc # "members"
        BY <1>1, <1>2, <3>0 DEF ClientState
      <3>2. Move(w, c)
        BY <2>1
      <3> HIDE DEF c
      <3> QED
        BY <1>1, <1>2, <1>10, <3>1, <3>2, GoesOnWith DEF Poll
    <2>2. CASE SpendPoll(w)
      <3> DEFINE spent == client[w].polls + 1
                 p == IF spent = MaxPolls THEN "abandon" ELSE "poll"
      <3>1. spent \in 0 .. MaxPolls
        BY <1>1, <1>10, PollAssumption DEF Poll, At, InStep, ClientState
      <3>2. Move(w, [client[w] EXCEPT !.pc = p, !.polls = spent])
        BY <2>2 DEF SpendPoll
      <3>3. p \in {"abandon", "poll"}
        OBVIOUS
      <3> HIDE DEF spent, p
      <3> DEFINE c == [client[w] EXCEPT !.pc = p, !.polls = spent]
      <3>4. c \in ClientState /\ c.answer = "asked" /\ c.pc # "members"
        BY <1>1, <1>2, <3>1, <3>3 DEF ClientState
      <3>5. Move(w, c)
        BY <3>2
      <3> HIDE DEF c
      <3> QED
        BY <1>1, <1>2, <1>10, <3>4, <3>5, GoesOnWith DEF Poll
    <2> QED
      BY <1>3, <1>10, <2>1, <2>2 DEF Poll
  <1>11. CASE Stream(w)
    <2>1. CASE Move(w, [client[w] EXCEPT !.pc = "collect", !.outcome = "none"])
      <3> DEFINE c == [client[w] EXCEPT !.pc = "collect", !.outcome = "none"]
      <3>1. c \in ClientState /\ c.answer = "asked" /\ c.pc # "members"
        BY <1>1, <1>2 DEF ClientState
      <3>2. Move(w, c)
        BY <2>1
      <3> HIDE DEF c
      <3> QED
        BY <1>1, <1>2, <1>11, <3>1, <3>2, GoesOnWith DEF Stream
    <2> QED
      BY <1>3, <1>11, <2>1 DEF Stream
  <1>12. CASE Confirm(w)
    <2>1. CASE Move(w, [client[w] EXCEPT !.pc = "write", !.verdict = "PASSED"])
      <3> DEFINE c == [client[w] EXCEPT !.pc = "write", !.verdict = "PASSED"]
      <3>1. c \in ClientState /\ c.answer = "asked" /\ c.pc # "members"
        BY <1>1, <1>2 DEF ClientState
      <3>2. Move(w, c)
        BY <2>1
      <3> HIDE DEF c
      <3> QED
        BY <1>1, <1>2, <1>12, <3>1, <3>2, GoesOnWith DEF Confirm
    <2> QED
      BY <1>12, <2>1, <1>1, <1>2, RefusalRefuses DEF Confirm
  <1>13. CASE Decide(w)
    <2>1. CASE client[w].granted /\ Answer(w, "completed")
               /\ published' = published \cup {[run |-> RunOf(w), tree |-> TreeOf(w)]}
      <3>1. RunOf(w) \in Run /\ job[RunOf(w)].ended = "Complete" /\ job[RunOf(w)].ref = client[w].ref
        BY <1>1, <1>13 DEF Decide, At, OwnOutcome, RunOf, ClientState
      <3>2. job[RunOf(w)].tree = TreeOf(w)
        BY <3>1 DEF IInv, JobsJudgeTheirRef, JudgesItsRef, TreeOf
      <3>3. TreeOf(w) \in JudgedGreen
        BY <3>1, <3>2 DEF JudgedGreen
      <3> QED
        BY <1>1, <1>2, <2>1, <3>1, <3>3, CompletionCompletes
    <2> QED
      BY <1>4, <1>13, <2>1 DEF Decide
  <1> QED
    BY <1>3, <1>4, <1>5, <1>6, <1>7, <1>8, <1>9, <1>10, <1>11, <1>12, <1>13
    DEF ClientStep, Publish, Deliver, Abandon, Collect, WriteToken

\* A push is asked for, or its answer becomes history.
LEMMA PushIsPromised ==
  ASSUME IInv, AskedInv, NEW w \in Worktree, StartPush(w) \/ Return(w)
  PROVE  AskedInv' /\ [Promise!Next]_(Promise!vars)
  <1> DEFINE answer == [v \in Worktree |-> client[v].answer]
             c == [Idle EXCEPT !.pc = "token", !.answer = "asked"]
  <1>1. /\ client \in [Worktree -> ClientState] /\ UNCHANGED <<job, published>>
    BY DEF StartPush, Return, IInv, TypeOK
  <1>2. JudgedGreen' = JudgedGreen
    BY <1>1 DEF JudgedGreen
  <1>3. CASE StartPush(w)
    <2>1. client' = [client EXCEPT ![w] = c] /\ client[w].answer = "none"
      BY <1>3 DEF StartPush
    <2>2. c.answer = "asked" /\ c.pc = "token"
      BY DEF Idle
    <2> HIDE DEF c
    <2>3. answer' = [answer EXCEPT ![w] = "asked"] /\ answer[w] = "none"
      BY <1>1, <2>1, <2>2
    <2>4. AskedInv'
      BY <1>1, <1>2, <2>1, <2>2 DEF AskedInv, WorksWhenAsked, MemoizedIsJudged, At
    <2>5. Promise!Ask(w)
      BY <1>1, <1>2, <2>3 DEF Promise!Ask, Promise!Become
    <2> QED
      BY <2>4, <2>5 DEF Promise!Next
  <1>4. CASE Return(w)
    <2>1. client' = [client EXCEPT ![w] = Idle] /\ client[w].answer \in {"completed", "refused"}
      BY <1>4 DEF Return
    <2>2. Idle.answer = "none" /\ Idle.pc = "idle"
      BY DEF Idle
    <2>3. answer' = [answer EXCEPT ![w] = "none"] /\ answer[w] \in {"completed", "refused"}
      BY <1>1, <2>1, <2>2
    <2>4. AskedInv'
      BY <1>1, <1>2, <2>1, <2>2 DEF AskedInv, WorksWhenAsked, MemoizedIsJudged, At
    <2>5. Promise!Return(w)
      BY <1>1, <1>2, <2>3 DEF Promise!Return, Promise!Become
    <2> QED
      BY <2>4, <2>5 DEF Promise!Next
  <1> QED
    BY <1>3, <1>4

\* The cluster judges, and nothing else it or the sweep does is seen.
LEMMA WorldIsPromised ==
  ASSUME IInv, AskedInv,
         \/ \E w \in Worktree : Commit(w)
         \/ \E r \in Run : JobSteps(r)
         \/ \E n \in Ref : Sweep(n)
         \/ UNCHANGED vars
  PROVE  AskedInv' /\ [Promise!Next]_(Promise!vars)
  <1>1. UNCHANGED <<client, published>> /\ job \in [Run -> JobState]
    BY DEF Commit, JobSteps, Admit, Fetch, Judge, Expire, Sweep, Age, SweepTree, SweepBase,
           vars, IInv, TypeOK
  <1>2. ASSUME JudgedGreen \subseteq JudgedGreen' PROVE AskedInv'
    BY <1>1, <1>2 DEF AskedInv, WorksWhenAsked, MemoizedIsJudged, At
  <1>3. CASE JudgedGreen' = JudgedGreen
    BY <1>1, <1>2, <1>3 DEF Promise!vars
  <1>4. CASE UNCHANGED job
    BY <1>3, <1>4 DEF JudgedGreen
  <1>5. ASSUME NEW r \in Run, JobSteps(r)
        PROVE  AskedInv' /\ [Promise!Next]_(Promise!vars)
    <2>1. job[r] \in JobState /\ JudgesItsRef(job[r])
      BY <1>1, <1>5 DEF IInv, JobsJudgeTheirRef
    <2>2. CASE Judge(r) /\ job[r].tree \in Green /\ End(r, "Complete")
      <3>1. /\ job[r].ended = "none" /\ job'[r].ended = "Complete" /\ job'[r].tree = job[r].tree
            /\ \A q \in Run \ {r} : job'[q] = job[q]
        BY <1>1, <2>1, <2>2 DEF Judge, End, JudgesItsRef, JobState
      <3>2. JudgedGreen' = JudgedGreen \cup {job[r].tree}
        BY <3>1 DEF JudgedGreen
      <3>3. Promise!Judge
        BY <1>1, <2>2, <3>2 DEF Promise!Judge
      <3> QED
        BY <1>2, <3>2, <3>3 DEF Promise!Next
    <2>3. CASE ~ (Judge(r) /\ job[r].tree \in Green /\ End(r, "Complete"))
      <3>1. \A q \in Run \ {r} : job'[q] = job[q]
        BY <1>1, <1>5 DEF JobSteps, Admit, Fetch, Judge, Expire, JobStep, End
      <3>2. \/ job'[r].ended = job[r].ended /\ job'[r].tree = job[r].tree
            \/ job[r].ended = "none" /\ job'[r].ended \in {"none", "Failed"}
        BY <1>1, <1>5, <2>1, <2>3
        DEF JobSteps, Admit, Fetch, Judge, Expire, JobStep, End, JudgesItsRef, JobState
      <3>3. JudgedGreen' = JudgedGreen
        BY <3>1, <3>2 DEF JudgedGreen
      <3> QED
        BY <1>3, <3>3
    <2> QED
      BY <2>2, <2>3
  <1> QED
    BY <1>4, <1>5 DEF Commit, Sweep, Age, SweepTree, SweepBase, vars

\* Hence every step is one of the promise.
LEMMA StepIsPromised ==
  ASSUME ~ Slip, IInv, AskedInv, [Next]_vars
  PROVE  AskedInv' /\ [Promise!Next]_(Promise!vars)
  <1>1. ASSUME NEW w \in Worktree, ClientStep(w)
        PROVE  AskedInv' /\ [Promise!Next]_(Promise!vars)
    BY <1>1, ClientMoves, ClientJudgesNothing, MoveIsPromised
  <1>2. ASSUME NEW w \in Worktree, Interrupt(w)
        PROVE  AskedInv' /\ [Promise!Next]_(Promise!vars)
    <2>1. TypeOK /\ client[w].answer = "asked" /\ UNCHANGED <<job, published>>
      BY <1>2 DEF Interrupt, AskedInv, WorksWhenAsked, IInv
    <2>2. Refuses(w)
      BY <1>2, <2>1, RefusalRefuses DEF Interrupt
    <2>3. JudgedGreen' = JudgedGreen
      BY <2>1 DEF JudgedGreen
    <2> QED
      BY <2>2, <2>3, MoveIsPromised
  <1> QED
    BY <1>1, <1>2, PushIsPromised, WorldIsPromised DEF Next

\* While no commit slips in before a token is written, every run of the gate is, as
\* its pushers see it, a run of GatePromise, whatever the number of worktrees, runs
\* and trees and whatever calls fail: a push completes only on a tree judged green,
\* only green trees are, and a completed or refused push was asked for.
THEOREM PromiseIsKept ==
  ASSUME ~ Slip PROVE Spec => Promise!Init /\ [][Promise!Next]_(Promise!vars)
  <1>1. Init => Promise!Init /\ AskedInv
    BY DEF Init, Promise!Init, Idle, NoJob, JudgedGreen, AskedInv, WorksWhenAsked,
           MemoizedIsJudged, At
  <1>2. IInv /\ AskedInv /\ [Next]_vars => AskedInv' /\ [Promise!Next]_(Promise!vars)
    BY StepIsPromised
  <1> QED
    BY <1>1, <1>2, InductiveInvariant, PTL DEF Spec

\* What the promise is worth to a pusher, whatever implements it.
LEMMA PromiseIsSound == Promise!Init /\ [][Promise!Next]_(Promise!vars) => []Promise!Sound
  <1>1. Promise!Init => Promise!Sound
    BY DEF Promise!Init, Promise!Sound
  <1>2. Promise!Sound /\ [Promise!Next]_(Promise!vars) => Promise!Sound'
    BY DEF Promise!Sound, Promise!Next, Promise!vars, Promise!Ask, Promise!Judge, Promise!Complete,
           Promise!Refuse, Promise!Return, Promise!Become
  <1> QED
    BY <1>1, <1>2, PTL

\* While no commit slips in before a token is written, no push completes on a tree
\* the suite fails on: neither by a Job's answer nor by a memoized one.
THEOREM OnlyGreenTreesComplete == ASSUME ~ Slip PROVE Spec => []OnlyGreenCompletes
  BY PromiseIsKept, PromiseIsSound, PTL DEF OnlyGreenCompletes

-----------------------------------------------------------------------------
(* The work that is left, and what is left on the mirror                     *)

\* A step of w's client leaves fewer to make, answers the push when none is
\* left, and comes before the publication only by assembling a run.
Advances(w) ==
    /\ client' \in [Worktree -> ClientState]
    /\ \A v \in Worktree \ {w} : client'[v] = client[v]
    /\ Left(w)' < Left(w)
    /\ IF client'[w].pc = "idle" THEN client'[w].answer \in {"completed", "refused"}
                                 ELSE client'[w].answer = client[w].answer
    /\ client'[w].pc \in {"authority", "publish"} => Assemble(w) \/ RunAuthority(w)

\* The measure is a number, and zero for an idle client alone.
LEMMA StepsAreCounted ==
  ASSUME NEW c \in ClientState
  PROVE  StepsLeft(c.pc, c.polls) \in Nat /\ (StepsLeft(c.pc, c.polls) = 0 <=> c.pc = "idle")
  <1>1. c.polls \in 0 .. MaxPolls /\ MaxPolls \in Nat
    BY PollAssumption DEF ClientState
  <1>2. c.pc \in {"idle", "token", "members", "assemble", "authority", "publish", "submit", "deliver",
                  "poll", "abandon", "stream", "collect", "confirm", "write", "decide"}
    BY DEF ClientState
  <1> QED
    BY <1>1, <1>2 DEF StepsLeft

LEMMA AdvancesWith ==
  ASSUME TypeOK, NEW w \in Worktree, NEW c \in ClientState, Move(w, c),
         StepsLeft(c.pc, c.polls) < Left(w),
         IF c.pc = "idle" THEN c.answer \in {"completed", "refused"}
                          ELSE c.answer = client[w].answer,
         c.pc \in {"authority", "publish"} => Assemble(w) \/ RunAuthority(w)
  PROVE  Advances(w)
  BY Moved DEF Advances, Left

LEMMA GotoAdvances ==
  ASSUME TypeOK, NEW w \in Worktree,
         NEW p \in {"assemble", "submit", "deliver", "poll", "abandon", "collect",
                    "confirm", "decide"},
         Goto(w, p), StepsLeft(p, client[w].polls) < Left(w)
  PROVE  Advances(w)
  <1> DEFINE c == [client[w] EXCEPT !.pc = p]
  <1>1. client[w] \in ClientState
    BY DEF TypeOK
  <1>2. c \in ClientState /\ c.pc = p /\ c.polls = client[w].polls /\ c.answer = client[w].answer
    BY <1>1 DEF ClientState
  <1>3. Move(w, c)
    BY DEF Goto
  <1> HIDE DEF c
  <1> QED
    BY <1>2, <1>3, AdvancesWith

\* Every way out of the hook answers the push.
LEMMA AnswerAdvances ==
  ASSUME TypeOK, NEW w \in Worktree, ~ At(w, "idle"),
         \/ \E a \in {"completed", "refused"} : Answer(w, a)
         \/ \E v \in {"PASSED", "FAILED", "NO_VERDICT", "HOST_AUTHORITY_REFUSED"} : Refuse(w, v)
  PROVE  Advances(w)
  <1>1. client[w] \in ClientState
    BY DEF TypeOK
  <1>2. StepsLeft("idle", client[w].polls) < Left(w)
    <2>1. Left(w) \in Nat /\ Left(w) # 0
      BY <1>1, StepsAreCounted DEF Left, At
    <2>2. StepsLeft("idle", client[w].polls) = 0
      BY DEF StepsLeft
    <2> QED
      BY <2>1, <2>2
  <1>3. CASE \E a \in {"completed", "refused"} : Answer(w, a)
    <2>1. PICK a \in {"completed", "refused"} : Answer(w, a)
      BY <1>3
    <2> DEFINE c == [client[w] EXCEPT !.pc = "idle", !.answer = a]
    <2>2. c \in ClientState /\ c.pc = "idle" /\ c.polls = client[w].polls /\ c.answer = a
      BY <1>1 DEF ClientState
    <2>3. Move(w, c)
      BY <2>1 DEF Answer
    <2> HIDE DEF c
    <2> QED
      BY <1>2, <2>2, <2>3, AdvancesWith
  <1>4. CASE \E v \in {"PASSED", "FAILED", "NO_VERDICT", "HOST_AUTHORITY_REFUSED"} : Refuse(w, v)
    <2>1. PICK v \in {"PASSED", "FAILED", "NO_VERDICT", "HOST_AUTHORITY_REFUSED"} : Refuse(w, v)
      BY <1>4
    <2> DEFINE c == [client[w] EXCEPT !.pc = "idle", !.answer = "refused", !.verdict = v]
    <2>2. c \in ClientState
      BY <1>1 DEF ClientState
    <2>4. c.pc = "idle" /\ c.polls = client[w].polls /\ c.answer = "refused"
      BY <1>1 DEF ClientState
    <2>3. Move(w, c)
      BY <2>1 DEF Refuse
    <2> HIDE DEF c
    <2> QED
      BY <1>2, <2>2, <2>3, <2>4, AdvancesWith
  <1> QED
    BY <1>3, <1>4

\* Every call of a client, and its interruption.
LEMMA ClientAdvances ==
  ASSUME IInv, NEW w \in Worktree, ClientStep(w) \/ Interrupt(w)
  PROVE  Advances(w)
  <1>1. /\ TypeOK /\ client[w] \in ClientState /\ InStep(client[w]) /\ head[w] \in Tree
        /\ client[w].polls \in 0 .. MaxPolls /\ MaxPolls \in Nat \ {0}
    BY PollAssumption DEF IInv, TypeOK, ClientsKeepStep, ClientState
  <1>2. ~ At(w, "idle")
    BY DEF At, ClientStep, CheckToken, RunMembers, Assemble, RunAuthority, Publish, Submit,
           Deliver, Poll, Abandon, Stream, Collect, Confirm, WriteToken, Decide, Interrupt
  <1>3. CASE NoVerdict(w) \/ (\E a \in {"completed", "refused"} : Answer(w, a))
             \/ \E v \in {"PASSED", "FAILED", "HOST_AUTHORITY_REFUSED"} : Refuse(w, v)
    BY <1>1, <1>2, <1>3, AnswerAdvances DEF NoVerdict
  <1>4. ASSUME NEW p \in {"assemble", "submit", "deliver", "poll", "abandon", "collect",
                          "confirm", "decide"},
               Goto(w, p), StepsLeft(p, client[w].polls) < Left(w)
        PROVE  Advances(w)
    BY <1>1, <1>4, GotoAdvances
  <1>5. CASE CheckToken(w)
    <2>1. CASE Move(w, [client[w] EXCEPT !.pc = "members", !.judged = head[w]])
      <3> DEFINE c == [client[w] EXCEPT !.pc = "members", !.judged = head[w]]
      <3>1. /\ c \in ClientState /\ c.pc = "members" /\ c.polls = client[w].polls
            /\ c.answer = client[w].answer
        BY <1>1 DEF ClientState
      <3>2. Move(w, c)
        BY <2>1
      <3> HIDE DEF c
      <3>3. StepsLeft(c.pc, c.polls) < Left(w)
        BY <1>1, <1>5, <3>1 DEF CheckToken, At, Left, StepsLeft
      <3> QED
        BY <1>1, <3>1, <3>2, <3>3, AdvancesWith
    <2>2. StepsLeft("assemble", client[w].polls) < Left(w)
      BY <1>1, <1>5 DEF CheckToken, At, Left, StepsLeft
    <2> QED
      BY <1>4, <1>5, <2>1, <2>2 DEF CheckToken
  <1>6. CASE Assemble(w)
    <2>1. ASSUME NEW r \in Fresh,
                 Move(w, [client[w] EXCEPT !.pc = "authority", !.run = r,
                                           !.ref = GateRef(head[w], r)])
          PROVE  Advances(w)
      <3> DEFINE c == [client[w] EXCEPT !.pc = "authority", !.run = r,
                                        !.ref = GateRef(head[w], r)]
      <3>1. GateRef(head[w], r) \in Ref /\ r \in Run
        BY <1>1 DEF GateRef, Ref, Fresh
      <3>2. /\ c \in ClientState /\ c.pc = "authority" /\ c.polls = client[w].polls
            /\ c.answer = client[w].answer
        BY <1>1, <3>1 DEF ClientState
      <3>3. Move(w, c)
        BY <2>1
      <3> HIDE DEF c
      <3>4. client[w].pc = "assemble"
        BY <1>6 DEF Assemble, At
      <3>5. StepsLeft(c.pc, c.polls) < Left(w)
        BY <1>1, <3>2, <3>4 DEF Left, StepsLeft
      <3> QED
        BY <1>1, <1>6, <3>2, <3>3, <3>5, AdvancesWith
    <2> QED
      BY <1>3, <1>6, <2>1 DEF Assemble
  <1>7. CASE RunAuthority(w)
    <2>1. PICK ok \in BOOLEAN :
             Move(w, [client[w] EXCEPT !.pc = "publish", !.granted = ok, !.judged = head[w]])
      BY <1>7 DEF RunAuthority
    <2> DEFINE c == [client[w] EXCEPT !.pc = "publish", !.granted = ok, !.judged = head[w]]
    <2>2. /\ c \in ClientState /\ c.pc = "publish" /\ c.polls = client[w].polls
          /\ c.answer = client[w].answer
      BY <1>1 DEF ClientState
    <2>3. Move(w, c)
      BY <2>1
    <2> HIDE DEF c
    <2>4. StepsLeft(c.pc, c.polls) < Left(w)
      BY <1>1, <1>7, <2>2 DEF RunAuthority, At, Left, StepsLeft
    <2> QED
      BY <1>1, <1>7, <2>2, <2>3, <2>4, AdvancesWith
  <1>8. CASE Publish(w)
    <2>1. StepsLeft("submit", client[w].polls) < Left(w)
      BY <1>1, <1>8 DEF Publish, At, Left, StepsLeft
    <2> QED
      BY <1>3, <1>4, <1>8, <2>1 DEF Publish
  <1>9. CASE Submit(w)
    <2>1. \A p \in {"deliver", "poll", "collect"} : StepsLeft(p, client[w].polls) < Left(w)
      BY <1>1, <1>9 DEF Submit, At, Left, StepsLeft
    <2>2. NoVerdict(w) \/ \E p \in {"deliver", "poll", "collect"} : Goto(w, p)
      BY <1>9 DEF Submit
    <2> QED
      BY <1>3, <1>4, <2>1, <2>2
  <1>10. CASE Deliver(w)
    <2>1. \A p \in {"poll", "abandon"} : StepsLeft(p, client[w].polls) < Left(w)
      BY <1>1, <1>10 DEF Deliver, At, Left, StepsLeft
    <2> QED
      BY <1>4, <1>10, <2>1 DEF Deliver
  <1>11. CASE Poll(w)
    <2>0. client[w].polls < MaxPolls /\ Left(w) = 5 + (MaxPolls - client[w].polls)
      BY <1>1, <1>11 DEF Poll, At, InStep, Left, StepsLeft
    <2>1. CASE /\ Terminal(RunOf(w))
               /\ Move(w, [client[w] EXCEPT !.pc = "stream", !.outcome = job[RunOf(w)].phase])
      <3> DEFINE c == [client[w] EXCEPT !.pc = "stream", !.outcome = job[RunOf(w)].phase]
      <3>0. job[RunOf(w)].phase \in {"Complete", "Failed"}
        BY <2>1 DEF Terminal
      <3>1. /\ c \in ClientState /\ c.pc = "stream" /\ c.polls = client[w].polls
            /\ c.answer = client[w].answer
        BY <1>1, <3>0 DEF ClientState
      <3>2. Move(w, c)
        BY <2>1
      <3> HIDE DEF c
      <3>3. StepsLeft(c.pc, c.polls) < Left(w)
        BY <1>1, <2>0, <3>1 DEF StepsLeft
      <3> QED
        BY <1>1, <3>1, <3>2, <3>3, AdvancesWith
    <2>2. CASE SpendPoll(w)
      <3> DEFINE spent == client[w].polls + 1
                 p == IF spent = MaxPolls THEN "abandon" ELSE "poll"
      <3>1. spent \in 0 .. MaxPolls /\ StepsLeft(p, spent) < Left(w) /\ p \in {"abandon", "poll"}
        BY <1>1, <2>0 DEF StepsLeft
      <3>2. Move(w, [client[w] EXCEPT !.pc = p, !.polls = spent])
        BY <2>2 DEF SpendPoll
      <3> HIDE DEF spent, p
      <3> DEFINE c == [client[w] EXCEPT !.pc = p, !.polls = spent]
      <3>3. c \in ClientState /\ c.pc = p /\ c.polls = spent /\ c.answer = client[w].answer
        BY <1>1, <3>1 DEF ClientState
      <3>4. Move(w, c)
        BY <3>2
      <3> HIDE DEF c
      <3> QED
        BY <1>1, <3>1, <3>3, <3>4, AdvancesWith
    <2>3. StepsLeft("abandon", client[w].polls) < Left(w)
      BY <1>1, <2>0 DEF StepsLeft
    <2> QED
      BY <1>4, <1>11, <2>1, <2>2, <2>3 DEF Poll
  <1>12. CASE Stream(w)
    <2>1. CASE Move(w, [client[w] EXCEPT !.pc = "collect", !.outcome = "none"])
      <3> DEFINE c == [client[w] EXCEPT !.pc = "collect", !.outcome = "none"]
      <3>1. /\ c \in ClientState /\ c.pc = "collect" /\ c.polls = client[w].polls
            /\ c.answer = client[w].answer
        BY <1>1 DEF ClientState
      <3>2. Move(w, c)
        BY <2>1
      <3> HIDE DEF c
      <3>3. StepsLeft(c.pc, c.polls) < Left(w)
        BY <1>1, <1>12, <3>1 DEF Stream, At, Left, StepsLeft
      <3> QED
        BY <1>1, <3>1, <3>2, <3>3, AdvancesWith
    <2>2. StepsLeft("collect", client[w].polls) < Left(w)
      BY <1>1, <1>12 DEF Stream, At, Left, StepsLeft
    <2> QED
      BY <1>4, <1>12, <2>1, <2>2 DEF Stream
  <1>13. CASE Collect(w)
    <2>1. StepsLeft("confirm", client[w].polls) < Left(w)
      BY <1>1, <1>13 DEF Collect, At, Left, StepsLeft
    <2> QED
      BY <1>3, <1>4, <1>13, <2>1 DEF Collect
  <1>14. CASE Confirm(w)
    <2>1. CASE Move(w, [client[w] EXCEPT !.pc = "write", !.verdict = "PASSED"])
      <3> DEFINE c == [client[w] EXCEPT !.pc = "write", !.verdict = "PASSED"]
      <3>1. /\ c \in ClientState /\ c.pc = "write" /\ c.polls = client[w].polls
            /\ c.answer = client[w].answer
        BY <1>1 DEF ClientState
      <3>2. Move(w, c)
        BY <2>1
      <3> HIDE DEF c
      <3>3. StepsLeft(c.pc, c.polls) < Left(w)
        BY <1>1, <1>14, <3>1 DEF Confirm, At, Left, StepsLeft
      <3> QED
        BY <1>1, <3>1, <3>2, <3>3, AdvancesWith
    <2> QED
      BY <1>3, <1>14, <2>1 DEF Confirm
  <1>15. CASE WriteToken(w)
    <2>1. StepsLeft("decide", client[w].polls) < Left(w)
      BY <1>1, <1>15 DEF WriteToken, At, Left, StepsLeft
    <2> QED
      BY <1>3, <1>4, <1>15, <2>1 DEF WriteToken
  <1>16. CASE RunMembers(w) \/ Abandon(w) \/ Decide(w) \/ Interrupt(w)
    BY <1>3, <1>16 DEF RunMembers, Abandon, Decide, Interrupt
  <1> QED
    BY <1>5, <1>6, <1>7, <1>8, <1>9, <1>10, <1>11, <1>12, <1>13, <1>14, <1>15, <1>16 DEF ClientStep

\* Whoever is at work was asked, whether or not commits slip in.
LEMMA WorkersWereAsked ==
  ASSUME IInv, WorksWhenAsked, [Next]_vars
  PROVE  /\ WorksWhenAsked'
         /\ \A w \in Worktree : client[w].answer = "asked" /\ client'[w] # client[w] => Advances(w)
  <1>1. client \in [Worktree -> ClientState]
    BY DEF IInv, TypeOK
  <1>2. CASE UNCHANGED client
    BY <1>2 DEF WorksWhenAsked, At
  <1>3. ASSUME NEW w \in Worktree, ClientStep(w) \/ Interrupt(w)
        PROVE  /\ WorksWhenAsked'
               /\ \A v \in Worktree : client'[v] # client[v] => Advances(v)
    <2>1. Advances(w)
      BY <1>3, ClientAdvances
    <2>2. ~ At(w, "idle")
      BY <1>3
      DEF At, ClientStep, CheckToken, RunMembers, Assemble, RunAuthority, Publish, Submit,
          Deliver, Poll, Abandon, Stream, Collect, Confirm, WriteToken, Decide, Interrupt
    <2> QED
      BY <2>1, <2>2 DEF Advances, WorksWhenAsked, At
  <1>4. ASSUME NEW w \in Worktree, StartPush(w) \/ Return(w)
        PROVE  /\ WorksWhenAsked'
               /\ \A v \in Worktree : client'[v] # client[v] => client[v].answer # "asked"
    <2> DEFINE c == [Idle EXCEPT !.pc = "token", !.answer = "asked"]
    <2>1. /\ c.answer = "asked" /\ Idle.pc = "idle"
      BY DEF Idle
    <2>2. client[w].answer # "asked"
          /\ (client' = [client EXCEPT ![w] = c] \/ client' = [client EXCEPT ![w] = Idle])
      BY <1>4 DEF StartPush, Return
    <2> HIDE DEF c
    <2>3. \A v \in Worktree \ {w} : client'[v] = client[v]
      BY <1>1, <2>2
    <2>4. client'[w].pc = "idle" \/ client'[w].answer = "asked"
      BY <1>1, <2>1, <2>2
    <2> QED
      BY <2>2, <2>3, <2>4 DEF WorksWhenAsked, At
  <1> QED
    BY <1>2, <1>3, <1>4
    DEF Next, Commit, JobSteps, Admit, Fetch, Judge, Expire, Sweep, Age, SweepTree, SweepBase, vars

\* For any poll budget, and whatever is refused, lost or unreadable, every call of a
\* client brings its push nearer to its answer: none is unanswered after
\* 11 + MaxPolls of them.
THEOREM EveryCallNearsTheAnswer == Spec => AnswerNears
  <1>1. Init => WorksWhenAsked
    BY DEF Init, WorksWhenAsked, At, Idle
  <1>2. IInv /\ WorksWhenAsked /\ [Next]_vars => WorksWhenAsked'
    BY WorkersWereAsked
  <1>3. ASSUME IInv, WorksWhenAsked, [Next]_vars, NEW w \in Worktree,
               client[w].answer = "asked", client'[w] # client[w]
        PROVE  /\ Left(w)' < Left(w)
               /\ Left(w)' = 0 => client'[w].answer \in {"completed", "refused"}
    <2>1. Advances(w)
      BY <1>3, WorkersWereAsked
    <2>2. client'[w] \in ClientState
      BY <2>1 DEF Advances
    <2>3. Left(w)' = 0 => client'[w].pc = "idle"
      BY <2>2, StepsAreCounted DEF Left
    <2> QED
      BY <2>1, <2>3 DEF Advances
  <1>4. IInv /\ WorksWhenAsked /\ [Next]_vars =>
          [ \A w \in Worktree : client[w].answer = "asked" /\ client'[w] # client[w] =>
              /\ Left(w)' < Left(w)
              /\ Left(w)' = 0 => client'[w].answer \in {"completed", "refused"} ]_vars
    BY <1>3
  <1> QED
    BY <1>1, <1>2, <1>4, InductiveInvariant, PTL DEF Spec, AnswerNears

\* Until a client has pushed, nothing lies under its run's name.
NamesAreFree ==
    \A w \in Worktree :
        client[w].pc \in {"authority", "publish"} => mirror[client[w].ref] = Absent

LEMMA NamesStayFree ==
  ASSUME IInv, CollectionsAreOwn, NamesAreFree, [Next]_vars
  PROVE  NamesAreFree'
  <1>1. /\ client \in [Worktree -> ClientState] /\ mirror \in [Ref -> Entry]
        /\ head \in [Worktree -> Tree]
    BY DEF IInv, TypeOK
  <1>2. ASSUME NEW w \in Worktree, client[w].pc \in {"authority", "publish"}, ~ Publish(w)
        PROVE  client[w].ref \in Ref /\ mirror'[client[w].ref] = Absent
    <2> DEFINE n == client[w].ref
    <2>1. n \in Ref /\ mirror[n] = Absent /\ RunOf(w) # None /\ n.nonce = RunOf(w)
      BY <1>1, <1>2 DEF NamesAreFree, CollectionsAreOwn, NoncesAreRuns, IInv, ClientsKeepStep,
                        InStep, ClientState, RunOf
    <2>2. CASE UNCHANGED mirror
      BY <2>1, <2>2
    <2>3. ASSUME NEW v \in Worktree, Publish(v) PROVE mirror'[n] = Absent
      <3>1. v # w /\ client[v].ref # None /\ client[v].ref.nonce = RunOf(v)
        BY <1>2, <2>3 DEF Publish, At, IInv, ClientsKeepStep, InStep, CollectionsAreOwn, NoncesAreRuns
      <3>2. client[v].ref # n
        BY <2>1, <3>1 DEF IInv, RunsAreExclusive
      <3> QED
        BY <1>1, <2>1, <2>3, <3>2 DEF Publish
    <2>4. ASSUME NEW v \in Worktree, Collect(v) PROVE mirror'[n] = Absent
      BY <1>1, <2>1, <2>4 DEF Collect
    <2>5. ASSUME NEW m \in Ref, Sweep(m) PROVE mirror'[n] = Absent
      <3>1. m # n
        BY <2>1, <2>5 DEF Sweep, Age, SweepTree, SweepBase, Absent
      <3> QED
        BY <1>1, <2>1, <2>5, <3>1 DEF Sweep, Age, SweepTree, SweepBase, Swept
    <2>6. \/ UNCHANGED mirror \/ \E v \in Worktree : Publish(v) \/ Collect(v)
          \/ \E m \in Ref : Sweep(m)
      BY DEF Next, StartPush, Return, ClientStep, Interrupt, CheckToken, RunMembers, Assemble,
             RunAuthority, Submit, Deliver, Poll, Abandon, Stream, Confirm, WriteToken, Decide,
             Commit, JobSteps, Admit, Fetch, Judge, Expire, vars
    <2> QED
      BY <2>1, <2>2, <2>3, <2>4, <2>5, <2>6
  <1>3. ASSUME NEW w \in Worktree, client'[w] = client[w]
        PROVE  client'[w].pc \in {"authority", "publish"} => mirror'[client'[w].ref] = Absent
    <2>1. Publish(w) => client'[w] # client[w]
      <3>1. Publish(w) => Advances(w)
        BY ClientAdvances DEF ClientStep
      <3>2. Left(w) \in Nat
        BY <1>1, StepsAreCounted DEF Left
      <3> QED
        BY <1>3, <3>1, <3>2 DEF Advances, Left
    <2> QED
      BY <1>2, <1>3, <2>1
  <1>4. ASSUME NEW w \in Worktree, Assemble(w), client'[w].pc = "authority"
        PROVE  mirror'[client'[w].ref] = Absent
    <2>1. ~ NoVerdict(w)
      BY <1>1, <1>4, RefuseSteps DEF IInv, NoVerdict, Steps
    <2>2. PICK r \in Fresh : Move(w, [client[w] EXCEPT !.pc = "authority", !.run = r,
                                                      !.ref = GateRef(head[w], r)])
      BY <1>4, <2>1 DEF Assemble
    <2>3. client[w] \in ClientState
      BY <1>1
    <2>4. client'[w].ref = GateRef(head[w], r)
      BY <1>1, <2>2, <2>3 DEF Move, ClientState
    <2>5. mirror[GateRef(head[w], r)] = Absent /\ UNCHANGED mirror
      BY <1>1, <1>4 DEF Fresh, Assemble
    <2> QED
      BY <2>4, <2>5
  <1>5. ASSUME NEW w \in Worktree, RunAuthority(w)
        PROVE  mirror'[client'[w].ref] = Absent
    <2>1. PICK ok \in BOOLEAN :
             Move(w, [client[w] EXCEPT !.pc = "publish", !.granted = ok, !.judged = head[w]])
      BY <1>5 DEF RunAuthority
    <2>2. client[w] \in ClientState
      BY <1>1
    <2>3. client'[w].ref = client[w].ref
      BY <1>1, <2>1, <2>2 DEF Move, ClientState
    <2>4. mirror[client[w].ref] = Absent /\ UNCHANGED mirror
      BY <1>5 DEF RunAuthority, At, NamesAreFree
    <2> QED
      BY <2>3, <2>4
  <1>6. ASSUME NEW w \in Worktree, client'[w] # client[w], client'[w].pc \in {"authority", "publish"}
        PROVE  Assemble(w) \/ RunAuthority(w)
    <2>1. ASSUME NEW v \in Worktree, ClientStep(v) \/ Interrupt(v)
          PROVE  Assemble(w) \/ RunAuthority(w)
      BY <1>6, <2>1, ClientAdvances DEF Advances
    <2>2. ASSUME NEW v \in Worktree, StartPush(v) \/ Return(v) PROVE FALSE
      <3> DEFINE c == [Idle EXCEPT !.pc = "token", !.answer = "asked"]
      <3>1. c.pc = "token" /\ Idle.pc = "idle"
        BY DEF Idle
      <3>2. client' = [client EXCEPT ![v] = c] \/ client' = [client EXCEPT ![v] = Idle]
        BY <2>2 DEF StartPush, Return
      <3> HIDE DEF c
      <3> QED
        BY <1>1, <1>6, <3>1, <3>2
    <2>3. ~ UNCHANGED client
      BY <1>6
    <2> QED
      BY <2>1, <2>2, <2>3
      DEF Next, Commit, JobSteps, Admit, Fetch, Judge, Expire, Sweep, Age, SweepTree, SweepBase, vars
  <1>7. ASSUME NEW w \in Worktree, client'[w].pc \in {"authority", "publish"}, Assemble(w)
        PROVE  client'[w].pc = "authority"
    <2>1. CASE NoVerdict(w)
      BY <1>1, <1>7, <2>1, RefuseSteps DEF IInv, NoVerdict, Steps
    <2>2. CASE ~ NoVerdict(w)
      <3>1. PICK r \in Fresh : Move(w, [client[w] EXCEPT !.pc = "authority", !.run = r,
                                                        !.ref = GateRef(head[w], r)])
        BY <1>7, <2>2 DEF Assemble
      <3>2. client[w] \in ClientState
        BY <1>1
      <3> QED
        BY <1>1, <3>1, <3>2 DEF Move, ClientState
    <2> QED
      BY <2>1, <2>2
  <1> QED
    BY <1>3, <1>4, <1>5, <1>6, <1>7 DEF NamesAreFree

\* What the collection and the sweep do to one name.
LEMMA MirrorShrinks ==
  ASSUME IInv, NamesAreFree, [Next]_vars, NEW n \in Ref, mirror'[n] # mirror[n]
  PROVE  \/ Weight(mirror'[n]) < Weight(mirror[n])
         \/ mirror[n] = Absent /\ \E w \in Worktree : At(w, "publish") /\ client[w].ref = n
  <1>1. mirror \in [Ref -> Entry] /\ mirror[n] \in Entry /\ client \in [Worktree -> ClientState]
    BY DEF IInv, TypeOK
  <1>2. ASSUME NEW w \in Worktree, Publish(w)
        PROVE  mirror[n] = Absent /\ At(w, "publish") /\ client[w].ref = n
    BY <1>1, <1>2 DEF Publish, NamesAreFree, At
  <1>3. ASSUME NEW w \in Worktree, Collect(w)
        PROVE  Weight(mirror'[n]) < Weight(mirror[n])
    <2>1. mirror[n].tree # None /\ mirror'[n] = Absent
      BY <1>1, <1>3 DEF Collect
    <2>2. Weight(Absent) = 0
      BY DEF Weight, Absent
    <2>3. Weight(mirror[n]) > 0
      BY <1>1, <2>1 DEF Weight
    <2> QED
      BY <2>1, <2>2, <2>3
  <1>4. ASSUME NEW m \in Ref, Sweep(m)
        PROVE  Weight(mirror'[n]) < Weight(mirror[n])
    <2>1. m = n
      BY <1>1, <1>4 DEF Sweep, Age, SweepTree, SweepBase, Swept
    <2>2. CASE Age(n)
      <3>1. mirror'[n] = [mirror[n] EXCEPT !.old = TRUE] /\ mirror[n] # Absent /\ ~ mirror[n].old
        BY <1>1, <2>2 DEF Age
      <3> QED
        BY <1>1, <3>1 DEF Weight, Entry
    <2>3. CASE SweepTree(n)
      <3>1. /\ mirror[n].old /\ mirror[n].tree # None
            /\ mirror'[n] = Absent \/ mirror'[n] = [mirror[n] EXCEPT !.tree = None]
        BY <1>1, <2>3 DEF SweepTree, Swept
      <3> QED
        BY <1>1, <3>1 DEF Weight, Entry, Absent
    <2>4. CASE SweepBase(n)
      <3>1. /\ mirror[n].old /\ mirror[n].base
            /\ mirror'[n] = Absent \/ mirror'[n] = [mirror[n] EXCEPT !.base = FALSE]
        BY <1>1, <2>4 DEF SweepBase, Swept
      <3> QED
        BY <1>1, <3>1 DEF Weight, Entry, Absent
    <2> QED
      BY <1>4, <2>1, <2>2, <2>3, <2>4 DEF Sweep
  <1> QED
    BY <1>2, <1>3, <1>4
    DEF Next, StartPush, Return, ClientStep, Interrupt, CheckToken, RunMembers, Assemble, RunAuthority,
        Submit, Deliver, Poll, Abandon, Stream, Confirm, WriteToken, Decide, Commit, JobSteps,
        Admit, Fetch, Judge, Expire, vars

\* For any number of worktrees, runs and trees: a publication writes over nothing,
\* and whatever else touches the mirror leaves less on it.
THEOREM TheMirrorOnlyShrinks == Spec => RefsOnlyShrink
  <1>1. Init => NamesAreFree
    BY DEF Init, NamesAreFree, Idle
  <1>2. IInv /\ CollectionsAreOwn /\ NamesAreFree /\ [Next]_vars => NamesAreFree' /\ CollectionsAreOwn'
    BY NamesStayFree, NextOwns
  <1>3. IInv /\ NamesAreFree /\ [Next]_vars =>
          [ \A n \in Ref : mirror'[n] # mirror[n] =>
              \/ Weight(mirror'[n]) < Weight(mirror[n])
              \/ mirror[n] = Absent
                 /\ \E w \in Worktree : At(w, "publish") /\ client[w].ref = n ]_vars
    BY MirrorShrinks
  <1> QED
    BY <1>1, <1>2, <1>3, InitOwns, InductiveInvariant, PTL DEF Spec, RefsOnlyShrink
=============================================================================
