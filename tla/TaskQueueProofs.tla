-------------------------- MODULE TaskQueueProofs ---------------------------
(***************************************************************************)
(* Proofs about the task queue for any number of tasks, of polls that are   *)
(* under way together, and for any limit of a poll.                         *)
(*                                                                         *)
(* The argument rests on FlagMeansTaken.  Between the two steps of          *)
(* popExpired other clients take the task, put it again or both; the flag   *)
(* is all the second step sees of that, and the invariant says that it sees *)
(* what it needs: an id it holds is flagged exactly if the entry is gone.   *)
(***************************************************************************)
EXTENDS TaskQueue, TLAPS

-----------------------------------------------------------------------------

\* An empty Redis satisfies the invariant.
LEMMA InitIInv == Init => IInv
<1> SUFFICES ASSUME Init PROVE IInv
  OBVIOUS
<1>1. TypeOK
  BY DEF Init, TypeOK, Rows, NoRow, NoWork
<1>2. FlagMeansTaken
  BY DEF Init, FlagMeansTaken
<1>3. OwedIsStored
  BY DEF Init, OwedIsStored, NoRow
<1> QED
  BY <1>1, <1>2, <1>3 DEF IInv

\* upsert preserves the invariant: it clears the flag of the task it puts.
LEMMA UpsertIInv ==
    ASSUME IInv, NEW u \in Tasks, NEW when \in {"waiting", "due"}, NEW k \in Kinds, NEW i \in Items,
           Upsert(u, when, k, i)
    PROVE  IInv'
<1>1. TypeOK
  BY DEF IInv
<1>2. /\ data' \in [Tasks -> Rows]
      /\ owed' \in [Tasks -> Rows]
  BY <1>1 DEF Upsert, Store, TypeOK, Rows
<1>3. TypeOK'
  BY <1>1, <1>2 DEF Upsert, Unflag, TypeOK
<1>4. FlagMeansTaken'
  BY <1>1 DEF IInv, Upsert, Unflag, FlagMeansTaken, TypeOK
<1>5. OwedIsStored'
  <2> SUFFICES ASSUME NEW v \in Tasks, NEW l \in Kinds, owed'[v][l] # None
               PROVE  entries'[v] # "absent" /\ data'[v][l] = owed'[v][l]
    BY DEF OwedIsStored
  <2>1. CASE v # u
    BY <2>1, <1>1 DEF IInv, Upsert, Store, OwedIsStored, TypeOK
  <2>2. CASE v = u
    <3>1. entries'[u] # "absent"
      BY <1>1 DEF Upsert, TypeOK
    <3>2. CASE l = k
      BY <3>1, <3>2, <2>2, <1>1 DEF Upsert, Store, TypeOK, Rows
    <3>3. CASE l # k
      <4>1. owed[u][l] # None /\ data'[u][l] = data[u][l] /\ owed'[u][l] = owed[u][l]
        BY <3>3, <2>2, <1>1 DEF Upsert, Store, TypeOK, Rows
      <4> QED
        BY <4>1, <3>1, <2>2 DEF IInv, OwedIsStored
    <3> QED
      BY <3>2, <3>3
  <2> QED
    BY <2>1, <2>2
<1> QED
  BY <1>3, <1>4, <1>5 DEF IInv

\* What the second step of popExpired hands out is exactly what is still there
\* of what its first step read.
LEMMA FreshIsPresent ==
    ASSUME IInv, NEW p \in Clients, NEW u \in Tasks, u \in ranged[p]
    PROVE  u \in Fresh(ranged[p]) <=> entries[u] # "absent"
BY DEF IInv, FlagMeansTaken, Fresh

\* The second step of popExpired preserves the invariant: it flags everything
\* that it removes.
LEMMA TakeIInv ==
    ASSUME IInv, NEW p \in Clients, Take(p)
    PROVE  IInv'
<1>1. TypeOK
  BY DEF IInv
<1>2. ranged[p] \in SUBSET Tasks
  BY <1>1 DEF TypeOK
<1>3. TypeOK'
  <2>1. taken' \in [Clients -> [Tasks -> Rows \cup {None}]]
    BY <1>1 DEF Take, Read, TypeOK
  <2>2. owed' \in [Tasks -> Rows]
    BY <1>1 DEF Take, TypeOK, Rows, NoRow
  <2> QED
    BY <2>1, <2>2, <1>1, <1>2 DEF Take, Remove, TypeOK
<1>4. FlagMeansTaken'
  <2> SUFFICES ASSUME NEW u \in Tasks
               PROVE  /\ u \in handled' => entries'[u] = "absent"
                      /\ \A r \in Clients : u \in ranged'[r] /\ entries'[u] = "absent"
                                            => u \in handled'
    BY DEF FlagMeansTaken
  <2>1. u \in handled' => entries'[u] = "absent"
    BY <1>1 DEF Take, Remove, IInv, FlagMeansTaken, TypeOK
  <2>2. ASSUME NEW r \in Clients, u \in ranged'[r], entries'[u] = "absent"
        PROVE  u \in handled'
    <3>1. u \in ranged[r]
      BY <2>2, <1>1 DEF Take, TypeOK
    <3>2. CASE u \in ranged[p]
      BY <3>2 DEF Take
    <3>3. CASE u \notin ranged[p]
      BY <3>1, <3>3, <2>2 DEF Take, Remove, IInv, FlagMeansTaken
    <3> QED
      BY <3>2, <3>3
  <2> QED
    BY <2>1, <2>2
<1>5. OwedIsStored'
  <2> SUFFICES ASSUME NEW u \in Tasks, NEW k \in Kinds, owed'[u][k] # None
               PROVE  entries'[u] # "absent" /\ data'[u][k] = owed'[u][k]
    BY DEF OwedIsStored
  <2>1. u \notin Fresh(ranged[p]) /\ owed'[u] = owed[u]
    BY DEF Take, NoRow
  <2>2. entries[u] # "absent" /\ data[u][k] = owed[u][k]
    BY <2>1 DEF IInv, OwedIsStored
  <2>3. u \notin ranged[p]
    BY <2>1, <2>2, FreshIsPresent
  <2> QED
    BY <2>1, <2>2, <2>3 DEF Take, Remove
<1> QED
  BY <1>3, <1>4, <1>5 DEF IInv

\* Every step preserves the invariant.
LEMMA NextIInv == IInv /\ [Next]_vars => IInv'
<1> SUFFICES ASSUME IInv, [Next]_vars PROVE IInv'
  OBVIOUS
<1>0. TypeOK /\ FlagMeansTaken /\ OwedIsStored
  BY DEF IInv
<1>1. ASSUME NEW u \in Tasks, Put(u) PROVE IInv'
  BY <1>1, UpsertIInv DEF Put
<1>2. ASSUME NEW u \in Tasks, BecomeDue(u) PROVE IInv'
  <2>1. TypeOK' /\ FlagMeansTaken'
    BY <1>0, <1>2 DEF BecomeDue, TypeOK, FlagMeansTaken
  <2>2. OwedIsStored'
    BY <1>0, <1>2 DEF BecomeDue, TypeOK, OwedIsStored
  <2> QED
    BY <2>1, <2>2 DEF IInv
<1>3. ASSUME NEW u \in Tasks, DataExpires(u) PROVE IInv'
  <2>1. TypeOK' /\ FlagMeansTaken'
    BY <1>0, <1>3 DEF DataExpires, TypeOK, FlagMeansTaken, Rows, NoRow
  <2>2. OwedIsStored'
    BY <1>0, <1>3 DEF DataExpires, TypeOK, OwedIsStored
  <2> QED
    BY <2>1, <2>2 DEF IInv
<1>4. ASSUME NEW u \in Tasks, HandledExpires(u) PROVE IInv'
  <2>1. TypeOK' /\ FlagMeansTaken'
    BY <1>0, <1>4 DEF HandledExpires, TypeOK, FlagMeansTaken
  <2>2. OwedIsStored'
    BY <1>0, <1>4 DEF HandledExpires, OwedIsStored
  <2> QED
    BY <2>1, <2>2 DEF IInv
<1>5. ASSUME NEW p \in Clients, ZRange(p) PROVE IInv'
  <2>1. PICK U \in SUBSET Due : ranged' = [ranged EXCEPT ![p] = U]
    BY <1>5 DEF ZRange
  <2>2. UNCHANGED <<entries, data, handled, taken, owed>>
    BY <1>5 DEF ZRange, redisVars
  <2>3. TypeOK' /\ FlagMeansTaken'
    BY <1>0, <2>1, <2>2 DEF Due, TypeOK, FlagMeansTaken
  <2>4. OwedIsStored'
    BY <1>0, <2>2 DEF OwedIsStored
  <2> QED
    BY <2>3, <2>4 DEF IInv
<1>6. ASSUME NEW p \in Clients, Take(p) PROVE IInv'
  BY <1>6, TakeIInv
<1>7. ASSUME NEW p \in Clients, Finish(p) \/ Restart(p) PROVE IInv'
  <2>1. UNCHANGED <<entries, data, handled, owed>>
    BY <1>7 DEF Finish, Restart, redisVars
  <2>2. taken' \in [Clients -> [Tasks -> Rows \cup {None}]]
    BY <1>0, <1>7 DEF Finish, Restart, TypeOK, NoWork
  <2>3. /\ ranged' \in [Clients -> SUBSET Tasks]
        /\ \A r \in Clients : ranged'[r] \subseteq ranged[r]
    BY <1>0, <1>7 DEF Finish, Restart, TypeOK
  <2>4. TypeOK' /\ FlagMeansTaken'
    BY <1>0, <2>1, <2>2, <2>3 DEF TypeOK, FlagMeansTaken
  <2>5. OwedIsStored'
    BY <1>0, <2>1 DEF OwedIsStored
  <2> QED
    BY <2>4, <2>5 DEF IInv
<1>8. CASE UNCHANGED vars
  BY <1>0, <1>8 DEF vars, redisVars, IInv, TypeOK, FlagMeansTaken, OwedIsStored
<1> QED
  BY <1>1, <1>2, <1>3, <1>4, <1>5, <1>6, <1>7, <1>8 DEF Next

\* The inductive invariant holds in every reachable state of the task queue.
THEOREM TaskInvariantHolds == Spec => []IInv
<1> QED
  BY InitIInv, NextIInv, PTL DEF Spec

\* The keys of the task queue and what popExpired returns keep their types.
THEOREM TaskTypeCorrect == Spec => []TypeOK
<1>1. IInv => TypeOK
  BY DEF IInv
<1> QED
  BY <1>1, TaskInvariantHolds, PTL

\* The flag of popExpired tells whether the entry was taken since it was read.
THEOREM FlagMeansTakenHolds == Spec => []FlagMeansTaken
<1>1. IInv => FlagMeansTaken
  BY DEF IInv
<1> QED
  BY <1>1, TaskInvariantHolds, PTL

\* Data that was put and not yet handed out is stored, with an entry.
THEOREM OwedIsStoredHolds == Spec => []OwedIsStored
<1>1. IInv => OwedIsStored
  BY DEF IInv
<1> QED
  BY <1>1, TaskInvariantHolds, PTL

-----------------------------------------------------------------------------

\* The task ids with an entry, which TaskDelivery calls pending
Pending == {u \in Tasks : entries[u] # "absent"}

\* upsert is a Put of TaskDelivery.
LEMMA UpsertIsPut ==
    ASSUME TypeOK, NEW u \in Tasks, NEW when \in {"waiting", "due"}, NEW k \in Kinds,
           NEW i \in Items, Upsert(u, when, k, i)
    PROVE  TD!Put(u, k, i)
<1>1. Pending' = Pending \cup {u}
  BY DEF Upsert, TypeOK, Pending
<1> QED
  BY <1>1 DEF Upsert, TD!Put, Pending

\* The second step of popExpired hands out what it read of the tasks that nobody
\* took before, with everything that is owed to them.
LEMMA TakeIsHandOut ==
    ASSUME IInv, NEW p \in Clients, Take(p)
    PROVE  \E w \in [Tasks -> Rows \cup {None}] : TD!HandOut(p, w)
<1> DEFINE F == Fresh(ranged[p])
<1>1. TypeOK
  BY DEF IInv
<1>2. PICK w \in [Tasks -> Rows \cup {None}] : w = Read(ranged[p])
  BY <1>1 DEF Read, TypeOK
<1>3. None \notin Rows
  BY TaskQueueAssumption DEF Rows
<1>4. {u \in Tasks : w[u] # None} = F
  BY <1>1, <1>2, <1>3 DEF Read, Fresh, TypeOK
<1>5. F \subseteq Pending
  BY <1>1, FreshIsPresent DEF Fresh, Pending, TypeOK
<1>6. Pending' = Pending \ F
  <2> SUFFICES ASSUME NEW u \in Tasks
               PROVE  entries'[u] # "absent" <=> entries[u] # "absent" /\ u \notin F
    BY <1>5 DEF Pending
  <2>1. CASE u \in ranged[p]
    BY <2>1, <1>1, FreshIsPresent DEF Take, Remove, TypeOK
  <2>2. CASE u \notin ranged[p]
    BY <2>2, <1>1 DEF Take, Remove, Fresh, TypeOK
  <2> QED
    BY <2>1, <2>2
<1>7. \A u \in F : TD!Covers(w[u], u)
  BY <1>2, <1>4 DEF TD!Covers, Read, IInv, OwedIsStored
<1>8. owed' = [u \in Tasks |-> IF u \in F THEN TD!NoRow ELSE owed[u]]
  BY DEF Take, NoRow, TD!NoRow
<1>9. taken' = [taken EXCEPT ![p] = w]
  BY <1>2 DEF Take
<1>10. TD!HandOut(p, w)
  BY <1>4, <1>5, <1>6, <1>7, <1>8, <1>9 DEF TD!HandOut, Pending
<1> QED
  BY <1>2, <1>10

\* Every step of the task queue is a step of TaskDelivery or leaves it alone.
LEMMA NextIsDelivery == IInv /\ [Next]_vars => [TD!Next]_TD!tdVars
<1> SUFFICES ASSUME IInv, [Next]_vars PROVE [TD!Next]_TD!tdVars
  OBVIOUS
<1>0. TypeOK
  BY DEF IInv
<1>1. ASSUME NEW u \in Tasks, Put(u) PROVE TD!Next
  BY <1>0, <1>1, UpsertIsPut DEF Put, TD!Next
<1>2. ASSUME NEW u \in Tasks, BecomeDue(u) PROVE UNCHANGED TD!tdVars
  <2>1. Pending' = Pending
    BY <1>0, <1>2 DEF BecomeDue, Pending, TypeOK
  <2> QED
    BY <2>1, <1>2 DEF BecomeDue, TD!tdVars, Pending
<1>3. ASSUME NEW u \in Tasks, DataExpires(u) \/ HandledExpires(u) PROVE UNCHANGED TD!tdVars
  BY <1>3 DEF DataExpires, HandledExpires, TD!tdVars
<1>4. ASSUME NEW p \in Clients, ZRange(p) PROVE UNCHANGED TD!tdVars
  BY <1>4 DEF ZRange, redisVars, TD!tdVars
<1>5. ASSUME NEW p \in Clients, Take(p) PROVE TD!Next
  BY <1>5, TakeIsHandOut DEF TD!Next, TD!Rows, Rows
<1>6. ASSUME NEW p \in Clients, Finish(p) \/ Restart(p) PROVE TD!Next
  <2>1. TD!Finish(p)
    BY <1>6 DEF Finish, Restart, redisVars, TD!Finish, TD!NoWork, NoWork
  <2> QED
    BY <2>1 DEF TD!Next
<1>7. CASE UNCHANGED vars
  BY <1>7 DEF vars, redisVars, TD!tdVars
<1> QED
  BY <1>1, <1>2, <1>3, <1>4, <1>5, <1>6, <1>7 DEF Next

\* The task queue implements TaskDelivery: in spite of the two round trips of
\* popExpired, every task that was put is handed out once, with its data.
THEOREM TaskRefinement == Spec => ImplementsDelivery
<1>1. Init => TD!Init
  BY DEF Init, TD!Init, TD!NoRow, NoRow, TD!NoWork, NoWork
<1> QED
  BY <1>1, TaskInvariantHolds, NextIsDelivery, PTL DEF Spec, ImplementsDelivery, TD!Spec
=============================================================================
