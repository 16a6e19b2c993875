------------------------ MODULE LocalGateSlotsProofs ------------------------
(***************************************************************************)
(* For any set of sessions, any set of logins and any largest limit: the   *)
(* inductive invariant IInv of LocalGateSlots, and from it the statements  *)
(* that a limit is respected by the sessions that read it, that locks and  *)
(* markers agree, and that no session queues below a holder of its family. *)
(***************************************************************************)
EXTENDS LocalGateSlots, FiniteSetTheorems, TLAPS

USE NobodyAssumption, MaxLimitAssumption, LoginAssumption DEF Slot, NoLimit

\* The host starts with no lock, no marker and no process.
LEMMA InitIInv == Init => IInv
  <1> SUFFICES ASSUME Init PROVE IInv
    OBVIOUS
  <1>1. TypeOK
    <2>0. store \in {"absent", "private", "shared"}
      BY DEF Init
    <2>1. limitFile \in 0 .. MaxLimit
      BY DEF Init
    <2>2. /\ owner \in [Slot -> Login \cup {Nobody}]
          /\ holder \in [Slot -> Session \cup {Nobody}]
      BY DEF Init
    <2>3. /\ limit \in [Session -> 0 .. MaxLimit]
          /\ cursor \in [Session -> Slot]
      BY DEF Init
    <2>4. /\ pc \in [Session -> {"absent", "starting", "opening", "queued", "running", "ended"}]
          /\ parent \in [Session -> Session \cup {Nobody}]
          /\ marker \in [Session -> Session \cup {Nobody}]
      BY DEF Init
    <2> QED
      BY <2>0, <2>1, <2>2, <2>3, <2>4 DEF TypeOK
  <1>2. LocksAreEarned /\ MarkersAreBacked
    BY DEF Init, LocksAreEarned, MarkersAreBacked
  <1>3. QueueIsInRange /\ MarkersAreInherited
    BY DEF Init, QueueIsInRange, MarkersAreInherited
  <1> QED
    BY <1>1, <1>2, <1>3 DEF IInv

\* Starting a session, alone or as a child, takes no lock; a child's marker is
\* its parent's.
LEMMA ArrivalKeepsIInv ==
  ASSUME IInv, NEW s \in Session,
         Launch(s) \/ \E p \in Session : Spawn(p, s)
  PROVE  IInv'
  <1> USE DEF IInv
  <1>1. CASE Launch(s)
    <2> USE <1>1 DEF Launch, host
    <2>1. TypeOK'
      BY DEF TypeOK
    <2>2. LocksAreEarned' /\ MarkersAreBacked'
      BY DEF TypeOK, LocksAreEarned, MarkersAreBacked, Holds
    <2>3. QueueIsInRange' /\ MarkersAreInherited'
      BY DEF TypeOK, QueueIsInRange, MarkersAreInherited
    <2> QED
      BY <2>1, <2>2, <2>3
  <1>2. ASSUME NEW p \in Session, Spawn(p, s)
        PROVE  IInv'
    <2> USE <1>2 DEF Spawn, host
    <2>1. TypeOK'
      BY DEF TypeOK
    <2>2. marker[p] # s
      BY DEF MarkersAreInherited, TypeOK
    <2>3. LocksAreEarned'
      BY DEF TypeOK, LocksAreEarned
    <2>4. MarkersAreBacked'
      BY <2>2 DEF TypeOK, MarkersAreBacked, Holds
    <2>5. QueueIsInRange'
      BY DEF TypeOK, QueueIsInRange
    <2>6. MarkersAreInherited'
      BY <2>2 DEF TypeOK, MarkersAreInherited
    <2> QED
      BY <2>1, <2>3, <2>4, <2>5, <2>6
  <1> QED
    BY <1>1, <1>2

\* The end of a process frees its own lock and no other.
LEMMA EndKeepsIInv ==
  ASSUME IInv, NEW s \in Session, Finish(s) \/ Kill(s)
  PROVE  IInv'
  <1> USE DEF IInv
  <1>0. Gone(s) /\ Alive(s)
    BY DEF Finish, Kill, Alive
  <1> USE <1>0 DEF Gone, Freed, host
  <1>1. TypeOK'
    BY DEF TypeOK
  <1>2. LocksAreEarned'
    BY DEF TypeOK, LocksAreEarned
  <1>3. MarkersAreBacked'
    BY DEF TypeOK, MarkersAreBacked, Holds
  <1>4. QueueIsInRange'
    BY DEF TypeOK, QueueIsInRange
  <1>5. MarkersAreInherited'
    BY DEF TypeOK, MarkersAreInherited, Alive
  <1> QED
    BY <1>1, <1>2, <1>3, <1>4, <1>5

\* Every step of take_session_slot.
LEMMA StepKeepsIInv ==
  ASSUME IInv, NEW s \in Session, Step(s)
  PROVE  IInv'
  <1> USE DEF IInv
  <1>1. CASE RunNested(s) \/ RunUnlimited(s) \/ RunStoreless(s)
    <2>0. /\ StartRunning(s)
          /\ pc[s] \in {"starting", "opening"}
          /\ marker[s] # s
      BY <1>1 DEF RunNested, RunUnlimited, RunStoreless, TypeOK,
                  QueueIsInRange, MarkersAreInherited
    <2> USE <2>0 DEF StartRunning, host
    <2>1. TypeOK'
      BY DEF TypeOK
    <2>2. LocksAreEarned' /\ MarkersAreBacked'
      BY DEF TypeOK, LocksAreEarned, MarkersAreBacked, Holds
    <2>3. QueueIsInRange' /\ MarkersAreInherited'
      BY DEF TypeOK, QueueIsInRange, MarkersAreInherited
    <2> QED
      BY <2>1, <2>2, <2>3
  <1>2. CASE ReadLimit(s)
    <2> USE <1>2 DEF ReadLimit, host
    <2>1. TypeOK'
      BY DEF TypeOK
    <2>2. LocksAreEarned' /\ MarkersAreBacked'
      BY DEF TypeOK, LocksAreEarned, MarkersAreBacked, Holds
    <2>3. QueueIsInRange' /\ MarkersAreInherited'
      BY DEF TypeOK, QueueIsInRange, MarkersAreInherited
    <2> QED
      BY <2>1, <2>2, <2>3
  <1>3. CASE JoinQueue(s)
    <2> USE <1>3 DEF JoinQueue, host
    <2>1. TypeOK'
      BY DEF TypeOK
    <2>2. LocksAreEarned' /\ MarkersAreBacked'
      BY DEF TypeOK, LocksAreEarned, MarkersAreBacked, Holds
    <2>3. QueueIsInRange' /\ MarkersAreInherited'
      BY DEF TypeOK, QueueIsInRange, MarkersAreInherited
    <2> QED
      BY <2>1, <2>2, <2>3
  <1>4. CASE TakeSlot(s)
    <2> USE <1>4 DEF TakeSlot, Takeable
    <2>1. TypeOK'
      BY DEF TypeOK
    <2>2. cursor[s] \in Slot /\ cursor[s] <= limit[s] /\ holder[cursor[s]] = Nobody
      BY DEF TypeOK, QueueIsInRange
    <2>3. LocksAreEarned'
      BY <2>2 DEF TypeOK, LocksAreEarned
    <2>4. MarkersAreBacked'
      BY <2>2 DEF TypeOK, MarkersAreBacked, Holds
    <2>5. QueueIsInRange'
      BY DEF TypeOK, QueueIsInRange
    <2>6. MarkersAreInherited'
      BY DEF TypeOK, MarkersAreInherited
    <2> QED
      BY <2>1, <2>3, <2>4, <2>5, <2>6
  <1>5. CASE PassSlot(s)
    <2> USE <1>5 DEF PassSlot, NextSlot, host
    <2>1. TypeOK'
      BY DEF TypeOK
    <2>2. LocksAreEarned' /\ MarkersAreBacked'
      BY DEF TypeOK, LocksAreEarned, MarkersAreBacked, Holds
    <2>3. QueueIsInRange' /\ MarkersAreInherited'
      BY DEF TypeOK, QueueIsInRange, MarkersAreInherited
    <2> QED
      BY <2>1, <2>2, <2>3
  <1> QED
    BY <1>1, <1>2, <1>3, <1>4, <1>5 DEF Step

\* The converge touches neither locks nor sessions.
LEMMA ConvergeKeepsIInv ==
  ASSUME IInv, (\E n \in 0 .. MaxLimit : SetLimit(n)) \/ MakeStore \/ UNCHANGED vars
  PROVE  IInv'
  <1> SUFFICES TypeOK' /\ UNCHANGED <<holder, pc, limit, cursor, parent, marker>>
    BY DEF IInv, LocksAreEarned, MarkersAreBacked, Holds, QueueIsInRange,
           MarkersAreInherited
  <1> QED
    BY DEF IInv, TypeOK, SetLimit, MakeStore, vars

\* The type invariant and what the locks, markers and parents have in common
\* hold in every reachable state.
THEOREM InductiveInvariant == Spec => []IInv
  <1>1. IInv /\ [Next]_vars => IInv'
    BY ArrivalKeepsIInv, EndKeepsIInv, StepKeepsIInv, ConvergeKeepsIInv DEF Next
  <1> QED
    BY InitIInv, <1>1, PTL DEF Spec

\* The type invariant.
THEOREM TypeCorrect == Spec => []TypeOK
  <1>1. IInv => TypeOK
    BY DEF IInv
  <1> QED
    BY InductiveInvariant, <1>1, PTL

\* Sessions that share no lock are no more than the locks they hold.
LEMMA HoldersAreFew ==
  ASSUME IInv, NEW n \in Slot
  PROVE  Cardinality(Throttled(n)) <= n
  <1> DEFINE S == Throttled(n)
             f == [s \in S |-> CHOOSE i \in Slot : holder[i] = s]
  <1>1. \A s \in S : f[s] \in 1 .. n /\ holder[f[s]] = s
    <2> TAKE s \in S
    <2>1. \E i \in Slot : holder[i] = s
      BY DEF IInv, MarkersAreBacked, Holds, Throttled
    <2>2. f[s] \in Slot /\ holder[f[s]] = s
      BY <2>1
    <2>3. f[s] <= limit[s] /\ limit[s] <= n
      BY <2>2 DEF IInv, LocksAreEarned, Throttled
    <2> HIDE DEF f
    <2> QED
      BY <2>2, <2>3 DEF IInv, TypeOK, Throttled
  <1>2. f \in Injection(S, 1 .. n)
    <2>1. f \in [S -> 1 .. n]
      BY <1>1
    <2>2. \A s, t \in S : f[s] = f[t] => s = t
      <3> HIDE DEF f
      <3> QED
        BY <1>1
    <2> HIDE DEF f
    <2> QED
      BY <2>1, <2>2 DEF Injection, IsInjective
  <1>3. IsFiniteSet(1 .. n) /\ Cardinality(1 .. n) = n
    BY FS_Interval
  <1> HIDE DEF f, S
  <1>4. Cardinality(S) <= Cardinality(1 .. n)
    BY <1>2, <1>3, FS_Injection
  <1> QED
    BY <1>3, <1>4 DEF S

\* At most n of the sessions that read a limit of n or less run at once.
THEOREM LimitIsRespected == Spec => []LimitRespected
  <1>1. IInv => LimitRespected
    BY HoldersAreFew DEF LimitRespected
  <1> QED
    BY InductiveInvariant, <1>1, PTL

\* A lock and a running session's own marker go together.
THEOREM LocksMatchMarkers == Spec => []HoldMatchesMarker
  <1>1. IInv => HoldMatchesMarker
    BY DEF IInv, TypeOK, LocksAreEarned, MarkersAreBacked, HoldMatchesMarker, Holds
  <1> QED
    BY InductiveInvariant, <1>1, PTL

\* No session waits in the queue for a lock that its parent, its parent's parent
\* or any other ancestor holds: the family is the sessions with a marker.
THEOREM NoFamilyDeadlock == Spec => []NeverQueuesBelowAHolder
  <1>1. ASSUME IInv PROVE NeverQueuesBelowAHolder
    <2> DEFINE family == {s \in Session : marker[s] # Nobody}
    <2>1. \A s \in Session : Holds(s) => s \in family
      BY <1>1 DEF IInv, LocksAreEarned, Holds
    <2>2. \A s \in Session : parent[s] \in family => s \in family
      BY <1>1 DEF IInv, MarkersAreInherited
    <2>3. \A s \in family : pc[s] \notin {"opening", "queued"}
      BY <1>1 DEF IInv, QueueIsInRange
    <2> QED
      BY <2>1, <2>2, <2>3 DEF NeverQueuesBelowAHolder
  <1> QED
    BY InductiveInvariant, <1>1, PTL
=============================================================================
