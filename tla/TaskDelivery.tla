---------------------------- MODULE TaskDelivery ----------------------------
(***************************************************************************)
(* What the task queue promises the job executor: a task that was put is    *)
(* handed out to exactly one client, together with everything that was put  *)
(* under its name since it was handed out before.  It may be handed out     *)
(* early, and with older data.                                              *)
(***************************************************************************)
CONSTANTS Tasks, Clients, Kinds, Items, None

VARIABLES
    pending, \* the tasks that are to be handed out
    owed,    \* per task and kind, what was put since it was handed out
    work     \* per client, the tasks it was handed out, with their data

tdVars == <<pending, owed, work>>

Rows == [Kinds -> Items \cup {None}]
NoRow == [k \in Kinds |-> None]
NoWork == [u \in Tasks |-> None]

Init ==
    /\ pending = {}
    /\ owed = [u \in Tasks |-> NoRow]
    /\ work = [p \in Clients |-> NoWork]

Put(u, k, i) ==
    /\ pending' = pending \cup {u}
    /\ owed' = [owed EXCEPT ![u] = [@ EXCEPT ![k] = i]]
    /\ UNCHANGED work

Covers(row, u) == \A k \in Kinds : owed[u][k] # None => row[k] = owed[u][k]

HandOut(p, w) ==
    LET U == {u \in Tasks : w[u] # None} IN
    /\ U \subseteq pending
    /\ \A u \in U : Covers(w[u], u)
    /\ pending' = pending \ U
    /\ owed' = [u \in Tasks |-> IF u \in U THEN NoRow ELSE owed[u]]
    /\ work' = [work EXCEPT ![p] = w]

\* A client is done with its tasks, or restarts.
Finish(p) ==
    /\ work' = [work EXCEPT ![p] = NoWork]
    /\ UNCHANGED <<pending, owed>>

Next ==
    \/ \E u \in Tasks, k \in Kinds, i \in Items : Put(u, k, i)
    \/ \E p \in Clients : Finish(p)
    \/ \E p \in Clients, w \in [Tasks -> Rows \cup {None}] : HandOut(p, w)

Spec == Init /\ [][Next]_tdVars
=============================================================================
