----------------------------- MODULE TaskQueue ------------------------------
(***************************************************************************)
(* TaskQueueImpl (backend/src/task-queue/task-queue-impl.ts): tasks that    *)
(* become due after a while and are taken by whoever polls.                 *)
(*                                                                         *)
(* In Redis, task:entries is a sorted set of task ids by the time they are  *)
(* due, task:data:<id> a sorted set of the data put under that id, by the   *)
(* time it was put, and task:handled:<id> a flag that somebody took it.     *)
(* upsert is one transaction; popExpired reads the due ids and takes them   *)
(* in a second round trip, so that clients interfere with each other.       *)
(*                                                                         *)
(* The data of a task is of several kinds, and its readers only look for    *)
(* the last of each kind: that is what a row keeps.  Time is abstracted to  *)
(* whether an entry is due.                                                 *)
(***************************************************************************)
EXTENDS Naturals, FiniteSets

CONSTANTS
    Tasks,    \* uids
    Clients,  \* calls of popExpired that may be under way together
    Kinds,    \* kinds of data
    Items,    \* data
    MaxPop,   \* popExpired takes at most that many tasks
    None      \* a missing key

ASSUME TaskQueueAssumption ==
    /\ IsFiniteSet(Tasks)
    /\ MaxPop \in Nat \ {0}
    /\ None \notin Items
    /\ None \notin [Kinds -> Items \cup {None}]

VARIABLES
    entries,  \* sorted set task:entries, the score reduced to due or not
    data,     \* sorted sets task:data
    handled,  \* the tasks whose flag task:handled is set
    ranged,   \* per client, the ids read by the first step of popExpired
    taken,    \* per client, the tasks popExpired returned and it works on
    owed      \* history variable: what was put since the task was taken

redisVars == <<entries, data, handled>>
vars == <<redisVars, ranged, taken, owed>>

Rows == [Kinds -> Items \cup {None}]
NoRow == [k \in Kinds |-> None]
NoWork == [u \in Tasks |-> None]

TypeOK ==
    /\ entries \in [Tasks -> {"absent", "waiting", "due"}]
    /\ data \in [Tasks -> Rows]
    /\ handled \in SUBSET Tasks
    /\ ranged \in [Clients -> SUBSET Tasks]
    /\ taken \in [Clients -> [Tasks -> Rows \cup {None}]]
    /\ owed \in [Tasks -> Rows]

Init ==
    /\ entries = [u \in Tasks |-> "absent"]
    /\ data = [u \in Tasks |-> NoRow]
    /\ handled = {}
    /\ ranged = [p \in Clients |-> {}]
    /\ taken = [p \in Clients |-> NoWork]
    /\ owed = [u \in Tasks |-> NoRow]

-----------------------------------------------------------------------------
\* Fault: no DEL of the flag.
UnflagNot(u) == UNCHANGED handled

\* DEL task:handled:<id>
Unflag(u) == handled' = handled \ {u}

\* Fault: the data key is overwritten by SET.
StoreOnly(u, k, i) == data' = [data EXCEPT ![u] = i]

\* ZADD task:data:<id>
Store(u, k, i) == data' = [data EXCEPT ![u] = [@ EXCEPT ![k] = i]]

\* upsert: one transaction.  An entry that exists is moved.
Upsert(u, when, k, i) ==
    /\ entries' = [entries EXCEPT ![u] = when]
    /\ Store(u, k, i)
    /\ Unflag(u)
    /\ owed' = [owed EXCEPT ![u] = [@ EXCEPT ![k] = i]]
    /\ UNCHANGED <<ranged, taken>>

\* The score of an entry is in the past now.
BecomeDue(u) ==
    /\ entries[u] = "waiting"
    /\ entries' = [entries EXCEPT ![u] = "due"]
    /\ UNCHANGED <<data, handled, ranged, taken, owed>>

Due == {u \in Tasks : entries[u] = "due"}
Idle(p) == ranged[p] = {} /\ taken[p] = NoWork

\* popExpired, first step: ZRANGE BYSCORE LIMIT.  The entries that have been due
\* longest come first; any choice is allowed here.
ZRange(p) ==
    /\ Idle(p) /\ Due # {}
    /\ \E U \in SUBSET Due :
        /\ Cardinality(U) <= MaxPop
        /\ U # Due => Cardinality(U) = MaxPop
        /\ ranged' = [ranged EXCEPT ![p] = U]
    /\ UNCHANGED <<redisVars, taken, owed>>

\* Fault: the flag is not looked at.
FreshAll(U) == U

\* SET NX task:handled:<id> succeeds
Fresh(U) == U \ handled

\* ZREM of all ids read
Remove(U) == entries' = [u \in Tasks |-> IF u \in U THEN "absent" ELSE entries[u]]

\* ZRANGE of the data of the tasks that are to be handled
Read(U) == [u \in Tasks |-> IF u \in Fresh(U) THEN data[u] ELSE None]

\* popExpired, second step: one transaction.
Take(p) ==
    LET U == ranged[p] IN
    /\ U # {}
    /\ taken' = [taken EXCEPT ![p] = Read(U)]
    /\ Remove(U)
    /\ handled' = handled \cup U
    /\ ranged' = [ranged EXCEPT ![p] = {}]
    /\ owed' = [u \in Tasks |-> IF u \in Fresh(U) THEN NoRow ELSE owed[u]]
    /\ UNCHANGED data

\* The client has processed its tasks.
Finish(p) ==
    /\ taken[p] # NoWork
    /\ taken' = [taken EXCEPT ![p] = NoWork]
    /\ UNCHANGED <<redisVars, ranged, owed>>

\* The client restarts.
Restart(p) ==
    /\ ~Idle(p)
    /\ ranged' = [ranged EXCEPT ![p] = {}]
    /\ taken' = [taken EXCEPT ![p] = NoWork]
    /\ UNCHANGED <<redisVars, owed>>

\* Fault: the expiry does not count the wait.
DataExpiresWaiting(u) ==
    /\ entries[u] # "due" /\ data[u] # NoRow
    /\ data' = [data EXCEPT ![u] = NoRow]
    /\ UNCHANGED <<entries, handled, ranged, taken, owed>>

\* DATA_TTL: 60 minutes after the entry was due.  It is taken before that.
DataExpires(u) ==
    /\ entries[u] = "absent" /\ data[u] # NoRow
    /\ data' = [data EXCEPT ![u] = NoRow]
    /\ UNCHANGED <<entries, handled, ranged, taken, owed>>

\* HANDLED_TTL: 120 seconds after the task was taken.  The two steps of a
\* popExpired are closer to each other.
HandledExpires(u) ==
    /\ u \in handled
    /\ \A p \in Clients : u \notin ranged[p]
    /\ handled' = handled \ {u}
    /\ UNCHANGED <<entries, data, ranged, taken, owed>>

Put(u) == \E when \in {"waiting", "due"}, k \in Kinds, i \in Items : Upsert(u, when, k, i)

Next ==
    \/ \E u \in Tasks : Put(u) \/ BecomeDue(u) \/ DataExpires(u) \/ HandledExpires(u)
    \/ \E p \in Clients : ZRange(p) \/ Take(p) \/ Finish(p) \/ Restart(p)

\* Time passes, the executor polls for ever and finishes what it took.  The entry
\* that has been due longest is read first, so none is passed over for ever.
Fairness ==
    /\ \A u \in Tasks :
        /\ WF_vars(BecomeDue(u))
        /\ SF_vars(\E p \in Clients : ZRange(p) /\ u \in ranged'[p])
    /\ \A p \in Clients : WF_vars(Take(p)) /\ WF_vars(Finish(p))

Spec == Init /\ [][Next]_vars
FairSpec == Spec /\ Fairness

-----------------------------------------------------------------------------
(* Properties *)

\* The flag of a task tells whether its entry was taken since it was read: a
\* client that still holds the id of a task that somebody took finds the flag,
\* and a task that was put again is not flagged, or popExpired would remove it
\* without handing it out.
FlagMeansTaken ==
    \A u \in Tasks :
        /\ u \in handled => entries[u] = "absent"
        /\ \A p \in Clients : u \in ranged[p] /\ entries[u] = "absent" => u \in handled

\* What was put and not yet handed out is stored, and its task is going to be
\* taken: neither of the two steps of popExpired, nor an expiry, loses it.
OwedIsStored ==
    \A u \in Tasks, k \in Kinds : owed[u][k] # None =>
        entries[u] # "absent" /\ data[u][k] = owed[u][k]

\* The inductive invariant.
IInv == TypeOK /\ FlagMeansTaken /\ OwedIsStored

\* Two polls, a poll and an upsert and an expiry interfere only in ways that
\* TaskDelivery allows: every task put is handed out once, with its data.
TD == INSTANCE TaskDelivery WITH
        pending <- {u \in Tasks : entries[u] # "absent"}, owed <- owed, work <- taken
ImplementsDelivery == TD!Spec

\* A task that was put is handed out some time, unless it is put again and again
\* before it is due, or the clients restart for ever.
LeftAlone(u) == <>[][~Put(u) /\ \A p \in Clients : ~Restart(p)]_vars
EventuallyHandedOut ==
    \A u \in Tasks : LeftAlone(u) =>
        (entries[u] # "absent" ~> \E p \in Clients : taken[p][u] # None)
=============================================================================
