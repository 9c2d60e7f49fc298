----------------------------- MODULE QueueRedis -----------------------------
(***************************************************************************)
(* The Redis side of the build queue: backend/lua/{push,start,complete}.lua *)
(* as QueueRedisImpl (system/queue/queue-redis-impl.ts) invokes them.       *)
(* Redis runs a script atomically, so a script is one action.               *)
(*                                                                         *)
(* A local queue (one per repository and target branch) holds changes      *)
(* (canonical ids) ordered by the time they were first pushed; for every    *)
(* waiting change the key <queue>:canonical:<id> holds the patch set that   *)
(* was pushed last.  Two global sorted sets tell which local queues have    *)
(* waiting changes, and how many, and which have a change being built.      *)
(***************************************************************************)
EXTENDS Integers, FiniteSets

CONSTANTS
    Queues,      \* local queues: repository x target branch
    Canonicals,  \* canonical ids of changes, "update-<id>"
    Shas,        \* commits (patch sets) of a change
    MaxCount,    \* the argument of start(maxCount)
    MaxTime,     \* bound: the last instant of the clock
    None         \* a missing Redis key

ASSUME QueueAssumption ==
    /\ IsFiniteSet(Queues)
    /\ IsFiniteSet(Canonicals)
    /\ MaxCount \in Nat \ {0}
    /\ MaxTime \in Nat
    /\ None \notin Shas
    /\ None \notin Canonicals
    /\ None \notin [canonical : Canonicals, sha : Shas]

VARIABLES
    local,        \* sorted set <queue>: the changes waiting in it
    score,        \* scores of that sorted set (0 for a change that is not in it)
    last,         \* <queue>:canonical:<id>: the last patch set pushed
    ready,        \* sorted set queue:ready: waiting changes per queue (0: no member)
    globalActive, \* sorted set queue:active: the queues that are building
    active,       \* hash <queue>:active: the change and patch set being built
    now,          \* TimeProvider, milliseconds
    newest        \* history variable: the patch set of a change pushed last

redisVars == <<local, score, last, ready, globalActive, active, newest>>
vars == <<redisVars, now>>

\* What HMSET stores in <queue>:active, and what serialize() tells apart
\* within one local queue.
Refs == [canonical : Canonicals, sha : Shas]

TypeOK ==
    /\ local \in [Queues -> SUBSET Canonicals]
    /\ score \in [Queues -> [Canonicals -> Nat]]
    /\ last \in [Queues -> [Canonicals -> Shas \cup {None}]]
    /\ ready \in [Queues -> Nat]
    /\ globalActive \in SUBSET Queues
    /\ active \in [Queues -> Refs \cup {None}]
    /\ now \in 0..MaxTime
    /\ newest \in [Queues -> [Canonicals -> Shas \cup {None}]]

Init ==
    /\ local = [q \in Queues |-> {}]
    /\ score = [q \in Queues |-> [c \in Canonicals |-> 0]]
    /\ last = [q \in Queues |-> [c \in Canonicals |-> None]]
    /\ ready = [q \in Queues |-> 0]
    /\ globalActive = {}
    /\ active = [q \in Queues |-> None]
    /\ now = 0
    /\ newest = [q \in Queues |-> [c \in Canonicals |-> None]]

-----------------------------------------------------------------------------
(* push.lua *)

\* The reply of push: the waiting patch set that this push replaces (to be
\* cancelled) and the patch set of the same change being built (to be aborted).
Outdated(q, c) == last[q][c]
Builds(q, c) == active[q] # None /\ active[q].canonical = c
Aborted(q, c) == IF Builds(q, c) THEN active[q].sha ELSE None

\* Fault: ZADD without NX, a re-push moves the change to the back.
EnqueueMovesBack(q, c) ==
    /\ local' = [local EXCEPT ![q] = @ \cup {c}]
    /\ score' = [score EXCEPT ![q][c] = now]

\* ZADD NX: a change that already waits keeps its score, hence its rank.
Enqueue(q, c) ==
    /\ local' = [local EXCEPT ![q] = @ \cup {c}]
    /\ score' = IF c \in local[q] THEN score ELSE [score EXCEPT ![q][c] = now]

\* Fault: every push counts, also one that replaces a waiting patch set.
ReplaceAlwaysCounts(q, c, s) ==
    /\ last' = [last EXCEPT ![q][c] = s]
    /\ ready' = [ready EXCEPT ![q] = @ + 1]

\* Fault: SET with NX keeps the outdated patch set.
ReplaceKeepsOutdated(q, c, s) ==
    /\ last' = IF Outdated(q, c) = None THEN [last EXCEPT ![q][c] = s] ELSE last
    /\ ready' = IF Outdated(q, c) = None THEN [ready EXCEPT ![q] = @ + 1] ELSE ready

\* SET ... GET replaces the waiting patch set; ZINCRBY counts a change once.
Replace(q, c, s) ==
    /\ last' = [last EXCEPT ![q][c] = s]
    /\ ready' = IF Outdated(q, c) = None THEN [ready EXCEPT ![q] = @ + 1] ELSE ready

\* Fault: the DEL without the ZREM.
ReleaseKeepsBlocked(q) ==
    /\ active' = [active EXCEPT ![q] = None]
    /\ UNCHANGED globalActive

\* Fault: the ZREM without the DEL.
ReleaseKeepsHash(q) ==
    /\ globalActive' = globalActive \ {q}
    /\ UNCHANGED active

\* DEL <queue>:active and ZREM queue:active
Release(q) ==
    /\ active' = [active EXCEPT ![q] = None]
    /\ globalActive' = globalActive \ {q}

Push(q, c, s) ==
    /\ Enqueue(q, c)
    /\ Replace(q, c, s)
    /\ IF Builds(q, c) THEN Release(q) ELSE UNCHANGED <<active, globalActive>>
    /\ newest' = [newest EXCEPT ![q][c] = s]

-----------------------------------------------------------------------------
(* start.lua *)

\* Fault: the busy queues are not taken off the ready ones.
StartablesAll == {q \in Queues : ready[q] # 0}

\* ZDIFF queue:ready queue:active
Startables == {q \in Queues : ready[q] # 0} \ globalActive

\* unpack(allStartables, 1, maxCount): ZDIFF replies in the order of the scores,
\* the number of waiting changes, so the queues with the fewest come first.
\* Equal scores are ordered by key; any order is allowed here.
Taken(S) ==
    /\ S \subseteq Startables
    /\ Cardinality(S) <= MaxCount
    /\ S # Startables => Cardinality(S) = MaxCount
    /\ \A p \in S, q \in Startables \ S : ready[p] <= ready[q]

\* ZPOPMIN: a change with the least score, or nothing from an empty queue.
\* Equal scores are ordered by canonical id; any order is allowed here.
PopMin(q, c) ==
    IF local[q] = {} THEN c = None
    ELSE c \in local[q] /\ \A d \in local[q] : score[q][c] <= score[q][d]

\* The steps of takeQueue for every queue of S, c[q] being what ZPOPMIN returns.
Pop(S, c) ==
    /\ local' = [q \in Queues |-> IF q \in S THEN local[q] \ {c[q]} ELSE local[q]]
    /\ score' = [q \in Queues |-> [d \in Canonicals |->
                   IF q \in S /\ d = c[q] THEN 0 ELSE score[q][d]]]

\* Fault: no DEL of the canonical key.
UnfileNothing(S, c) == UNCHANGED last

\* DEL <queue>:canonical:<id>
Unfile(S, c) ==
    last' = [q \in Queues |-> [d \in Canonicals |->
               IF q \in S /\ d = c[q] THEN None ELSE last[q][d]]]

\* Fault: the canonical key is read after its DEL.
ActivateDeleted(S, c) ==
    active' = [q \in Queues |->
                 IF q \in S /\ c[q] # None
                 THEN [canonical |-> c[q], sha |-> None] ELSE active[q]]

\* HMSET <queue>:active, with the patch set of the canonical key
Activate(S, c) ==
    active' = [q \in Queues |->
                 IF q \in S /\ c[q] # None
                 THEN [canonical |-> c[q], sha |-> last[q][c[q]]] ELSE active[q]]

\* ZINCRBY queue:ready -1, and ZREMRANGEBYSCORE queue:ready -inf 0 at the end
Uncount(S) ==
    ready' = [q \in Queues |->
                LET n == IF q \in S THEN ready[q] - 1 ELSE ready[q]
                IN  IF n <= 0 THEN 0 ELSE n]

TakeQueues(S, c) ==
    /\ Pop(S, c)
    /\ Unfile(S, c)
    /\ Activate(S, c)
    /\ globalActive' = globalActive \cup S
    /\ Uncount(S)
    /\ UNCHANGED newest

Start ==
    \E S \in SUBSET Startables :
        /\ Taken(S)
        /\ \E c \in [S -> Canonicals \cup {None}] :
               /\ \A q \in S : PopMin(q, c[q])
               /\ TakeQueues(S, c)

-----------------------------------------------------------------------------
(* complete.lua *)

\* Fault: whoever completes releases the queue.
CompleteAnyRef(q, ref) == Release(q) /\ UNCHANGED <<local, score, last, ready, newest>>

\* Only the patch set that holds the queue may release it.
Complete(q, ref) ==
    IF active[q] = ref
    THEN Release(q) /\ UNCHANGED <<local, score, last, ready, newest>>
    ELSE UNCHANGED redisVars

-----------------------------------------------------------------------------
(* Every client may invoke every script at any time: BuildSystemImpl does so *)
(* from independent promise chains, and a verdict may be late or repeated.   *)

PushAny == \E q \in Queues, c \in Canonicals, s \in Shas : Push(q, c, s) /\ UNCHANGED now
StartAny == Start /\ UNCHANGED now
CompleteAny == \E q \in Queues, ref \in Refs : Complete(q, ref) /\ UNCHANGED now
Tick == now < MaxTime /\ now' = now + 1 /\ UNCHANGED redisVars

Next == PushAny \/ StartAny \/ CompleteAny \/ Tick

Spec == Init /\ [][Next]_vars

-----------------------------------------------------------------------------
(* Properties *)

\* queue:ready counts the waiting changes of every queue.  start.lua relies on
\* it: with a count too high it would mark an empty queue as building, for ever;
\* with one too low a waiting change would never be offered.
ReadyCountsWaiting == \A q \in Queues : ready[q] = Cardinality(local[q])

\* A change waits exactly when its last patch set is known, so that start.lua
\* never activates a change without a patch set and push.lua counts it once.
WaitingHasPatchSet ==
    \A q \in Queues, c \in Canonicals : c \in local[q] <=> last[q][c] # None

\* A queue is excluded from starting exactly while one of its patch sets is
\* recorded as being built: no queue is blocked without an owner that
\* complete.lua could release.
BlockedHasOwner == \A q \in Queues : q \in globalActive <=> active[q] # None

\* Only the newest patch set pushed for a change waits or is built, and it never
\* does both: push.lua replaces the waiting patch set and takes an outdated
\* build off its queue in the same script.
NewestOnly ==
    \A q \in Queues :
        /\ \A c \in local[q] : last[q][c] = newest[q][c]
        /\ active[q] # None => /\ active[q].canonical \notin local[q]
                               /\ active[q].sha = newest[q][active[q].canonical]

\* The inductive invariant.
IInv ==
    /\ TypeOK
    /\ ReadyCountsWaiting
    /\ WaitingHasPatchSet
    /\ BlockedHasOwner
    /\ NewestOnly

\* No overtaking: of two waiting changes the one that came first is started
\* first, and a new patch set keeps the change's place ("Maintain time if
\* already present to preserve existing rank in queue").
KeepsRank(q) ==
    \A c, d \in local[q] : score[q][c] < score[q][d] =>
        /\ d \notin local'[q] => c \notin local'[q]
        /\ {c, d} \subseteq local'[q] => score'[q][c] < score'[q][d]
NoOvertaking == [][\A q \in Queues : KeepsRank(q)]_vars

\* A queue that is building changes hands only through an idle state: no script
\* replaces the patch set being built by another one in one step.
NoTakeover ==
    [][\A q \in Queues : active[q] # None => active'[q] \in {active[q], None}]_vars

\* The scripts implement the queue of IntegrationQueue: what a change does there
\* is read off the sorted set of its queue and the hash of the active build.
phase == [q \in Queues |-> [c \in Canonicals |->
            IF c \in local[q] THEN "waiting"
            ELSE IF Builds(q, c) THEN "building" ELSE "idle"]]
IQ == INSTANCE IntegrationQueue WITH newest <- newest, phase <- phase
ImplementsQueue == IQ!Spec
=============================================================================
