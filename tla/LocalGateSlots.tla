--------------------------- MODULE LocalGateSlots ---------------------------
(***************************************************************************)
(* The host-wide limit on concurrent pytest sessions, as the pytest plugin *)
(* livespec_dev_tooling/local_gate_slots.py enforces it.                   *)
(*                                                                         *)
(* A host carries one limit file and one directory of slot files.  Every   *)
(* pytest session reads the limit once, then polls the slot files in order *)
(* until it holds an exclusive flock on one of them; the kernel frees the  *)
(* lock when the process ends, however it ends.  A session that inherits   *)
(* the marker variable of a slot holder runs at once and takes nothing.    *)
(*                                                                         *)
(* Bounds: a session is one process and is not restarted (Session is the   *)
(* number of arrivals), and limits above MaxLimit are not written.         *)
(***************************************************************************)
EXTENDS Naturals, FiniteSets

CONSTANTS
    Session,           \* pytest processes, each started at most once
    Nobody,            \* "no process", "no login"
    MaxLimit,          \* bound: the largest limit the converge writes
    Login,             \* host logins
    LoginOf,           \* the login each session runs as
    Root,              \* logins that may write /run and read any file
    PrivateUmask,      \* logins whose umask takes away the read bit of others
    ProtectedRegular   \* kernel rule fs.protected_regular on the sticky store

ASSUME NobodyAssumption == Nobody \notin Session \cup Login
ASSUME MaxLimitAssumption == MaxLimit \in Nat \ {0}
ASSUME LoginAssumption == LoginOf \in [Session -> Login] /\ Root \subseteq Login

Slot == 1 .. MaxLimit
NoLimit == 0           \* absent, unreadable, unparsable and zero all read so

VARIABLES
    limitFile,   \* the limit the host carries now
    store,       \* the slot directory: absent, private to its maker, shared
    owner,       \* the login that created each slot file, or Nobody
    holder,      \* the session whose descriptor locks each slot file
    pc,          \* where each session is in take_session_slot
    limit,       \* the limit each session read, once
    cursor,      \* the slot file a queued session tries next
    parent,      \* the session that started this one as a child process
    marker       \* whose hold the inherited or own marker variable states

vars == <<limitFile, store, owner, holder, pc, limit, cursor, parent, marker>>
host == <<limitFile, store, owner>>

TypeOK ==
    /\ limitFile \in 0 .. MaxLimit
    /\ store \in {"absent", "private", "shared"}
    /\ owner \in [Slot -> Login \cup {Nobody}]
    /\ holder \in [Slot -> Session \cup {Nobody}]
    /\ pc \in [Session -> {"absent", "starting", "opening", "queued", "running", "ended"}]
    /\ limit \in [Session -> 0 .. MaxLimit]
    /\ cursor \in [Session -> Slot]
    /\ parent \in [Session -> Session \cup {Nobody}]
    /\ marker \in [Session -> Session \cup {Nobody}]

Init ==
    /\ limitFile = NoLimit
    /\ store = "absent"
    /\ owner = [i \in Slot |-> Nobody]
    /\ holder = [i \in Slot |-> Nobody]
    /\ pc = [s \in Session |-> "absent"]
    /\ limit = [s \in Session |-> NoLimit]
    /\ cursor = [s \in Session |-> 1]
    /\ parent = [s \in Session |-> Nobody]
    /\ marker = [s \in Session |-> Nobody]

Alive(s) == pc[s] \in {"starting", "opening", "queued", "running"}
Holds(s) == \E i \in Slot : holder[i] = s
Children(s) == {c \in Session : parent[c] = s /\ Alive(c)}

(***************************************************************************)
(* Sessions come and go.                                                   *)
(***************************************************************************)

\* A gate, or a developer, starts a pytest session.
Launch(s) ==
    /\ pc[s] = "absent"
    /\ pc' = [pc EXCEPT ![s] = "starting"]
    /\ UNCHANGED <<host, holder, limit, cursor, parent, marker>>

\* A child whose environment is scrubbed of the marker.
SpawnUnmarked(p, c) ==
    /\ pc[p] = "running" /\ pc[c] = "absent"
    /\ pc' = [pc EXCEPT ![c] = "starting"]
    /\ parent' = [parent EXCEPT ![c] = p]
    /\ UNCHANGED <<host, holder, limit, cursor, marker>>

\* A running suite starts pytest in a child process, which inherits the
\* environment and with it the marker.
Spawn(p, c) ==
    /\ pc[p] = "running" /\ pc[c] = "absent"
    /\ pc' = [pc EXCEPT ![c] = "starting"]
    /\ parent' = [parent EXCEPT ![c] = p]
    /\ marker' = [marker EXCEPT ![c] = marker[p]]
    /\ UNCHANGED <<host, holder, limit, cursor>>

\* The kernel drops every lock of a process that ends: there is no cleanup
\* step in the module, and none is needed.
\* Only the first slot of the process is freed.
FreedFirst(s) == [holder EXCEPT ![1] = IF @ = s THEN Nobody ELSE @]
Freed(s) == [i \in Slot |-> IF holder[i] = s THEN Nobody ELSE holder[i]]

Gone(s) ==
    /\ pc' = [pc EXCEPT ![s] = "ended"]
    /\ holder' = Freed(s)
    /\ UNCHANGED <<host, limit, cursor, parent, marker>>

\* A session's tests finish; it has waited for the children its tests started.
Finish(s) ==
    /\ pc[s] = "running" /\ Children(s) = {}
    /\ Gone(s)

\* SIGKILL, at any point.  Its children live on, reparented.
Kill(s) ==
    /\ Alive(s)
    /\ Gone(s)

(***************************************************************************)
(* take_session_slot.                                                      *)
(***************************************************************************)

StartRunning(s) ==
    /\ pc' = [pc EXCEPT ![s] = "running"]
    /\ UNCHANGED <<host, holder, limit, cursor, parent, marker>>

\* The marker is read before anything else.
RunNested(s) ==
    /\ pc[s] = "starting" /\ marker[s] # Nobody
    /\ StartRunning(s)

\* Every form of "no limit" starts the session at once, holding nothing.
RunUnlimited(s) ==
    /\ pc[s] = "starting" /\ marker[s] = Nobody
    /\ limitFile = NoLimit
    /\ StartRunning(s)

\* The limit is read here and never again.
ReadLimit(s) ==
    /\ pc[s] = "starting" /\ marker[s] = Nobody
    /\ limitFile # NoLimit
    /\ limit' = [limit EXCEPT ![s] = limitFile]
    /\ pc' = [pc EXCEPT ![s] = "opening"]
    /\ UNCHANGED <<host, holder, cursor, parent, marker>>

IsRoot(s) == LoginOf[s] \in Root

\* No store and none can be made: announced, then run unthrottled.
RunStoreless(s) ==
    /\ pc[s] = "opening" /\ store = "absent" /\ ~ IsRoot(s)
    /\ StartRunning(s)

\* mkdir(parents, exist_ok): a store that is there is taken as it is, and root
\* can make one, in the default mode that lets only root add files to it.
JoinQueue(s) ==
    /\ pc[s] = "opening"
    /\ \/ store # "absent" /\ UNCHANGED store
       \/ store = "absent" /\ IsRoot(s) /\ store' = "private"
    /\ pc' = [pc EXCEPT ![s] = "queued"]
    /\ cursor' = [cursor EXCEPT ![s] = 1]
    /\ UNCHANGED <<limitFile, owner, holder, limit, parent, marker>>

\* os.open(path, O_CREAT | O_RDONLY): a new file is created where this login
\* may, an existing one must be readable to it, and protected_regular refuses
\* O_CREAT on another login's file in a store that is sticky and world-writable.
Openable(s, i) ==
    \/ owner[i] = Nobody /\ (store = "shared" \/ IsRoot(s))
    \/ owner[i] = LoginOf[s]
    \/ /\ owner[i] # Nobody
       /\ owner[i] \notin PrivateUmask \/ IsRoot(s)
       /\ ~ (ProtectedRegular /\ store = "shared")

\* A slot is taken as soon as its file opens, whoever holds it.
TakeableUnlocked(s, i) == Openable(s, i)
Takeable(s, i) == Openable(s, i) /\ holder[i] = Nobody

\* The file under the cursor opens and its lock is free: the slot is held, and
\* only now is the marker written.
TakeSlot(s) ==
    LET i == cursor[s]
    IN  /\ pc[s] = "queued"
        /\ Takeable(s, i)
        /\ holder' = [holder EXCEPT ![i] = s]
        /\ owner' = [owner EXCEPT ![i] = IF @ = Nobody THEN LoginOf[s] ELSE @]
        /\ marker' = [marker EXCEPT ![s] = s]
        /\ pc' = [pc EXCEPT ![s] = "running"]
        /\ UNCHANGED <<limitFile, store, limit, cursor, parent>>

\* The round ends one file too late.
NextSlotBeyond(s) == IF cursor[s] <= limit[s] THEN cursor[s] + 1 ELSE 1

\* The round never starts over: the waiter settles on the last file.
NextSlotOnce(s) == IF cursor[s] < limit[s] THEN cursor[s] + 1 ELSE cursor[s]

\* The file is locked or cannot be opened: on to the next one, and after the
\* last one sleep and start over.
NextSlot(s) == IF cursor[s] < limit[s] THEN cursor[s] + 1 ELSE 1

PassSlot(s) ==
    /\ pc[s] = "queued"
    /\ ~ Takeable(s, cursor[s])
    /\ cursor' = [cursor EXCEPT ![s] = NextSlot(s)]
    /\ UNCHANGED <<host, holder, pc, limit, parent, marker>>

(***************************************************************************)
(* The converge (ansible role local_gate_slots): the limit file first, the *)
(* store after it.  Neither touches a lock, and removing the limit leaves  *)
(* the store behind.                                                       *)
(***************************************************************************)

SetLimit(n) ==
    /\ limitFile # n
    /\ limitFile' = n
    /\ UNCHANGED <<store, owner, holder, pc, limit, cursor, parent, marker>>

MakeStore ==
    /\ limitFile # NoLimit /\ store # "shared"
    /\ store' = "shared"
    /\ UNCHANGED <<limitFile, owner, holder, pc, limit, cursor, parent, marker>>

Step(s) ==
    \/ RunNested(s) \/ RunUnlimited(s) \/ ReadLimit(s)
    \/ RunStoreless(s) \/ JoinQueue(s) \/ TakeSlot(s) \/ PassSlot(s)

Next ==
    \/ \E s \in Session : Launch(s) \/ Finish(s) \/ Kill(s) \/ Step(s)
    \/ \E p, c \in Session : Spawn(p, c)
    \/ \E n \in 0 .. MaxLimit : SetLimit(n)
    \/ MakeStore

\* A live process is scheduled, and a suite that runs comes to an end (every
\* gate run is bounded: SPECIFICATION/non-functional-requirements.md, "A gate
\* always ends with a verdict").  Nothing forces a launch, a kill or a converge.
Fairness ==
    \A s \in Session : WF_vars(Step(s)) /\ WF_vars(Finish(s))

Spec == Init /\ [][Next]_vars /\ Fairness

-----------------------------------------------------------------------------
(***************************************************************************)
(* Properties.                                                             *)
(***************************************************************************)

\* The sessions that run on a slot of their own, having read a limit of at
\* most n.
Throttled(n) == {s \in Session : pc[s] = "running" /\ marker[s] = s /\ limit[s] <= n}

\* However the host's limit moved while sessions were queued or running, at
\* most n of the sessions that were told "n or fewer" run at once, for every n
\* (take_slot locks one of the first `limit` files before the session runs).
LimitRespected == \A n \in Slot : Cardinality(Throttled(n)) <= n

\* A slot is held by exactly the sessions that run under their own marker: a
\* session killed in the queue holds nothing, one killed while it runs leaves
\* nothing behind, and nobody runs as a holder without the lock.
HoldMatchesMarker ==
    \A s \in Session : Holds(s) <=> pc[s] = "running" /\ marker[s] = s

\* No session queues below a slot holder of its own family, at whatever depth
\* and whoever in between has ended: some set of sessions has every holder in
\* it and every child of its members, and nobody of it is in the queue, the
\* deadlock the marker exists to prevent (MARKER_ENV_VAR).
NeverQueuesBelowAHolder ==
    \E family \in SUBSET Session :
        /\ \A s \in Session : Holds(s) => s \in family
        /\ \A s \in Session : parent[s] \in family => s \in family
        /\ \A s \in family : pc[s] \notin {"opening", "queued"}

\* The slots a queued session may use: within its limit, and of a login and a
\* mode that let it open the file.
Usable(s) == {i \in Slot : i <= limit[s] /\ Openable(s, i)}

\* A queued session that has a slot file it can open gets its turn, or is
\* killed, once the arrivals stop: no chain of sessions waits on itself
\* (await_slot has no other way out).
EveryQueuedSessionLeaves ==
    \A s \in Session : pc[s] = "queued" ~> (pc[s] # "queued" \/ Usable(s) = {})

\* A slot does not stay free while a session that may use it queues.
FreeSlotIsTaken ==
    \A i \in Slot :
        LET wanted == \E s \in Session : pc[s] = "queued" /\ i \in Usable(s)
        IN  (holder[i] = Nobody /\ wanted) ~> (holder[i] # Nobody \/ ~ wanted)

(***************************************************************************)
(* The inductive invariant behind LimitRespected, HoldMatchesMarker and    *)
(* NeverQueuesBelowAHolder.                                                *)
(***************************************************************************)

\* A lock belongs to a running session that wrote its own marker, and lies
\* among the first limit[s] files.
LocksAreEarned ==
    \A i \in Slot : holder[i] # Nobody =>
        /\ pc[holder[i]] = "running"
        /\ marker[holder[i]] = holder[i]
        /\ i <= limit[holder[i]]

\* A running session with its own marker has a lock.
MarkersAreBacked ==
    \A s \in Session : pc[s] = "running" /\ marker[s] = s => Holds(s)

\* The queue is joined without a marker, and the cursor stays in range.
QueueIsInRange ==
    \A s \in Session :
        /\ pc[s] \in {"opening", "queued"} => marker[s] = Nobody
        /\ pc[s] = "queued" => cursor[s] <= limit[s]
        /\ pc[s] = "opening" => 1 <= limit[s]

\* A marker names a session that got through the queue, and a parent was
\* running when it spawned and handed its marker on.
MarkersAreInherited ==
    \A s \in Session :
        /\ marker[s] # Nobody => pc[marker[s]] \in {"running", "ended"}
        /\ parent[s] # Nobody =>
              /\ pc[parent[s]] \in {"running", "ended"}
              /\ marker[s] = Nobody => marker[parent[s]] = Nobody

IInv ==
    /\ TypeOK
    /\ LocksAreEarned
    /\ MarkersAreBacked
    /\ QueueIsInRange
    /\ MarkersAreInherited
=============================================================================
