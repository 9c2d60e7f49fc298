-------------------------- MODULE QueueRedisProofs --------------------------
(***************************************************************************)
(* Proofs about the queue scripts for every number of queues, changes and  *)
(* patch sets.  The argument is one inductive invariant, IInv: that a queue *)
(* start.lua takes has a waiting change (ReadyCountsWaiting) and that this  *)
(* change has a patch set (WaitingHasPatchSet) is what keeps every blocked  *)
(* queue owned, and the counter is only preserved because push.lua counts a *)
(* change exactly when it was not waiting (WaitingHasPatchSet again).       *)
(***************************************************************************)
EXTENDS QueueRedis, FiniteSetTheorems, TLAPS

-----------------------------------------------------------------------------

\* Every set of waiting changes is finite, so that its cardinality is a number.
LEMMA WaitingFinite ==
    ASSUME TypeOK, NEW q \in Queues
    PROVE  IsFiniteSet(local[q])
<1>1. local[q] \in SUBSET Canonicals
  BY DEF TypeOK
<1> QED
  BY <1>1, FS_Subset, QueueAssumption

\* The empty queues of a fresh Redis satisfy the invariant.
LEMMA InitIInv == Init => IInv
<1> SUFFICES ASSUME Init PROVE IInv
  OBVIOUS
<1>1. TypeOK
  BY QueueAssumption DEF Init, TypeOK
<1>2. ReadyCountsWaiting
  BY FS_EmptySet DEF Init, ReadyCountsWaiting
<1>3. WaitingHasPatchSet /\ BlockedHasOwner /\ NewestOnly
  BY DEF Init, WaitingHasPatchSet, BlockedHasOwner, NewestOnly
<1> QED
  BY <1>1, <1>2, <1>3 DEF IInv

-----------------------------------------------------------------------------

\* push.lua preserves the invariant.
LEMMA PushIInv ==
    ASSUME IInv, NEW q \in Queues, NEW c \in Canonicals, NEW s \in Shas,
           Push(q, c, s), UNCHANGED now
    PROVE  IInv'
<1> USE DEF Outdated, Builds, Refs
<1>1. TypeOK
  BY DEF IInv
<1>2. TypeOK'
  <2>1. local' \in [Queues -> SUBSET Canonicals]
    BY <1>1 DEF Push, Enqueue, TypeOK
  <2>2. score' \in [Queues -> [Canonicals -> Nat]]
    BY <1>1, QueueAssumption DEF Push, Enqueue, TypeOK
  <2>3. last' \in [Queues -> [Canonicals -> Shas \cup {None}]]
    BY <1>1 DEF Push, Replace, TypeOK
  <2>4. ready' \in [Queues -> Nat]
    BY <1>1 DEF Push, Replace, TypeOK
  <2>5. active' \in [Queues -> Refs \cup {None}] /\ globalActive' \in SUBSET Queues
    BY <1>1 DEF Push, Release, TypeOK
  <2>6. newest' \in [Queues -> [Canonicals -> Shas \cup {None}]] /\ now' \in 0..MaxTime
    BY <1>1 DEF Push, TypeOK
  <2> QED
    BY <2>1, <2>2, <2>3, <2>4, <2>5, <2>6 DEF TypeOK
<1>3. ReadyCountsWaiting'
  <2> SUFFICES ASSUME NEW p \in Queues PROVE ready'[p] = Cardinality(local'[p])
    BY DEF ReadyCountsWaiting
  <2>1. CASE p # q
    BY <2>1, <1>1 DEF Push, Enqueue, Replace, IInv, ReadyCountsWaiting, TypeOK
  <2>2. CASE p = q
    <3>1. c \in local[q] <=> last[q][c] # None
      BY DEF IInv, WaitingHasPatchSet
    <3>2. ready'[q] = IF c \in local[q] THEN ready[q] ELSE ready[q] + 1
      BY <3>1, <1>1 DEF Push, Replace, TypeOK
    <3>3. local'[q] = local[q] \cup {c}
      BY <1>1 DEF Push, Enqueue, TypeOK
    <3>4. ready[q] = Cardinality(local[q])
      BY DEF IInv, ReadyCountsWaiting
    <3> QED
      BY <3>2, <3>3, <3>4, <2>2, <1>1, WaitingFinite, FS_AddElement
  <2> QED
    BY <2>1, <2>2
<1>4. WaitingHasPatchSet'
  BY <1>1, QueueAssumption DEF Push, Enqueue, Replace, IInv, WaitingHasPatchSet, TypeOK
<1>5. BlockedHasOwner'
  BY <1>1 DEF Push, Release, IInv, BlockedHasOwner, TypeOK
<1>6. NewestOnly'
  <2> SUFFICES ASSUME NEW p \in Queues
               PROVE  /\ \A d \in local'[p] : last'[p][d] = newest'[p][d]
                      /\ active'[p] # None =>
                           /\ active'[p].canonical \notin local'[p]
                           /\ active'[p].sha = newest'[p][active'[p].canonical]
    BY DEF NewestOnly
  <2>1. CASE p # q
    BY <2>1, <1>1 DEF Push, Enqueue, Replace, Release, IInv, NewestOnly, TypeOK
  <2>2. CASE p = q
    <3>1. \A d \in local'[q] : last'[q][d] = newest'[q][d]
      BY <1>1 DEF Push, Enqueue, Replace, IInv, NewestOnly, TypeOK
    <3>2. ASSUME active'[q] # None
          PROVE  active'[q] = active[q] /\ active[q].canonical # c /\ active[q] \in Refs
      BY <3>2, <1>1 DEF Push, Release, TypeOK
    <3>3. ASSUME active'[q] # None
          PROVE  /\ active'[q].canonical \notin local'[q]
                 /\ active'[q].sha = newest'[q][active'[q].canonical]
      BY <3>3, <3>2, <1>1 DEF Push, Enqueue, IInv, NewestOnly, TypeOK
    <3> QED
      BY <3>1, <3>3, <2>2
  <2> QED
    BY <2>1, <2>2
<1> QED
  BY <1>2, <1>3, <1>4, <1>5, <1>6 DEF IInv

-----------------------------------------------------------------------------

\* Every queue that start.lua takes has a waiting change with a patch set, and
\* no build: ZPOPMIN never returns nothing.
LEMMA TakenHasWork ==
    ASSUME IInv, NEW S, S \subseteq Startables,
           NEW c \in [S -> Canonicals \cup {None}], \A q \in S : PopMin(q, c[q]),
           NEW q \in S
    PROVE  /\ q \in Queues
           /\ c[q] \in local[q]
           /\ c[q] \in Canonicals
           /\ c[q] # None
           /\ last[q][c[q]] \in Shas
           /\ active[q] = None
<1>1. q \in Queues /\ ready[q] # 0 /\ q \notin globalActive
  BY DEF Startables
<1>2. local[q] # {}
  <2>1. ready[q] = Cardinality(local[q])
    BY <1>1 DEF IInv, ReadyCountsWaiting
  <2> QED
    BY <2>1, <1>1, FS_EmptySet
<1>3. c[q] \in local[q]
  BY <1>2 DEF PopMin
<1>4. c[q] \in Canonicals /\ c[q] # None
  BY <1>1, <1>3, QueueAssumption DEF IInv, TypeOK
<1>5. last[q][c[q]] \in Shas
  BY <1>1, <1>3, <1>4 DEF IInv, TypeOK, WaitingHasPatchSet
<1>6. active[q] = None
  BY <1>1 DEF IInv, BlockedHasOwner
<1> QED
  BY <1>1, <1>3, <1>4, <1>5, <1>6

\* start.lua preserves the invariant.
LEMMA StartIInv ==
    ASSUME IInv, Start, UNCHANGED now
    PROVE  IInv'
<1>0. PICK S \in SUBSET Startables :
        \E c \in [S -> Canonicals \cup {None}] :
            /\ \A q \in S : PopMin(q, c[q])
            /\ TakeQueues(S, c)
  BY DEF Start
<1>1. PICK c \in [S -> Canonicals \cup {None}] :
        /\ \A q \in S : PopMin(q, c[q])
        /\ TakeQueues(S, c)
  BY <1>0
<1>2. TypeOK /\ S \subseteq Queues
  BY <1>1 DEF IInv, Startables
<1>3. \A q \in S : /\ c[q] \in local[q]
                   /\ c[q] \in Canonicals
                   /\ c[q] # None
                   /\ last[q][c[q]] \in Shas
                   /\ active[q] = None
  BY <1>1, TakenHasWork
<1>4. \A q \in S : ready[q] \in Nat \ {0}
  BY <1>1, <1>2 DEF Startables, TypeOK
<1>5. \A q \in Queues : ready'[q] = IF q \in S THEN ready[q] - 1 ELSE ready[q]
  <2> SUFFICES ASSUME NEW q \in Queues
               PROVE  ready'[q] = IF q \in S THEN ready[q] - 1 ELSE ready[q]
    OBVIOUS
  <2> DEFINE n == IF q \in S THEN ready[q] - 1 ELSE ready[q]
  <2>1. ready'[q] = IF n <= 0 THEN 0 ELSE n
    BY <1>1 DEF TakeQueues, Uncount
  <2>2. n \in Nat
    BY <1>2, <1>4 DEF TypeOK
  <2> QED
    BY <2>1, <2>2
<1>6. \A q \in Queues :
        active'[q] = IF q \in S THEN [canonical |-> c[q], sha |-> last[q][c[q]]] ELSE active[q]
  BY <1>1, <1>3 DEF TakeQueues, Activate
<1>7. TypeOK'
  <2>1. local' \in [Queues -> SUBSET Canonicals]
    BY <1>1, <1>2 DEF TakeQueues, Pop, TypeOK
  <2>2. score' \in [Queues -> [Canonicals -> Nat]]
    BY <1>1, <1>2 DEF TakeQueues, Pop, TypeOK
  <2>3. last' \in [Queues -> [Canonicals -> Shas \cup {None}]]
    BY <1>1, <1>2 DEF TakeQueues, Unfile, TypeOK
  <2>4. ready' \in [Queues -> Nat]
    BY <1>1, <1>2, <1>4, <1>5 DEF TakeQueues, Uncount, TypeOK
  <2>5. active' \in [Queues -> Refs \cup {None}]
    BY <1>1, <1>2, <1>3, <1>6 DEF TakeQueues, Activate, TypeOK, Refs
  <2>6. globalActive' \in SUBSET Queues
    BY <1>1, <1>2 DEF TakeQueues, TypeOK
  <2>7. newest' \in [Queues -> [Canonicals -> Shas \cup {None}]] /\ now' \in 0..MaxTime
    BY <1>1, <1>2 DEF TakeQueues, TypeOK
  <2> QED
    BY <2>1, <2>2, <2>3, <2>4, <2>5, <2>6, <2>7 DEF TypeOK
<1>8. ReadyCountsWaiting'
  <2> SUFFICES ASSUME NEW q \in Queues PROVE ready'[q] = Cardinality(local'[q])
    BY DEF ReadyCountsWaiting
  <2>1. ready[q] = Cardinality(local[q])
    BY DEF IInv, ReadyCountsWaiting
  <2>2. local'[q] = IF q \in S THEN local[q] \ {c[q]} ELSE local[q]
    BY <1>1 DEF TakeQueues, Pop
  <2>3. ready'[q] = IF q \in S THEN ready[q] - 1 ELSE ready[q]
    BY <1>5
  <2>4. IsFiniteSet(local[q])
    BY <1>2, WaitingFinite
  <2>5. CASE q \in S
    <3>1. Cardinality(local[q] \ {c[q]}) = Cardinality(local[q]) - 1
      BY <2>4, <2>5, <1>3, FS_RemoveElement
    <3> QED
      BY <3>1, <2>1, <2>2, <2>3, <2>5
  <2>6. CASE q \notin S
    BY <2>1, <2>2, <2>3, <2>6
  <2> QED
    BY <2>5, <2>6
<1>9. WaitingHasPatchSet'
  BY <1>1, <1>2, <1>3 DEF TakeQueues, Pop, Unfile, IInv, WaitingHasPatchSet, TypeOK
<1>10. BlockedHasOwner'
  <2>1. \A q \in S : [canonical |-> c[q], sha |-> last[q][c[q]]] # None
    BY <1>3, QueueAssumption
  <2> QED
    BY <2>1, <1>1, <1>6 DEF TakeQueues, Activate, IInv, BlockedHasOwner
<1>11. NewestOnly'
  <2> SUFFICES ASSUME NEW q \in Queues
               PROVE  /\ \A d \in local'[q] : last'[q][d] = newest'[q][d]
                      /\ active'[q] # None =>
                           /\ active'[q].canonical \notin local'[q]
                           /\ active'[q].sha = newest'[q][active'[q].canonical]
    BY DEF NewestOnly
  <2>1. CASE q \in S
    <3>1. /\ local'[q] = local[q] \ {c[q]}
          /\ newest'[q] = newest[q]
          /\ \A d \in Canonicals : d # c[q] => last'[q][d] = last[q][d]
          /\ active'[q] = [canonical |-> c[q], sha |-> last[q][c[q]]]
      BY <2>1, <1>1, <1>6 DEF TakeQueues, Pop, Unfile, Activate
    <3>2. \A d \in local[q] : d \in Canonicals /\ last[q][d] = newest[q][d]
      BY <1>2 DEF IInv, NewestOnly, TypeOK
    <3> QED
      BY <2>1, <3>1, <3>2, <1>3
  <2>2. CASE q \notin S
    BY <2>2, <1>1, <1>2, <1>6 DEF TakeQueues, Pop, Unfile, IInv, NewestOnly, TypeOK
  <2> QED
    BY <2>1, <2>2
<1> QED
  BY <1>7, <1>8, <1>9, <1>10, <1>11 DEF IInv

-----------------------------------------------------------------------------

\* complete.lua preserves the invariant.
LEMMA CompleteIInv ==
    ASSUME IInv, NEW q \in Queues, NEW ref \in Refs, Complete(q, ref), UNCHANGED now
    PROVE  IInv'
<1>1. CASE active[q] # ref
  BY <1>1 DEF Complete, redisVars, IInv, TypeOK, ReadyCountsWaiting, WaitingHasPatchSet,
              BlockedHasOwner, NewestOnly
<1>2. CASE active[q] = ref
  <2>1. TypeOK'
    BY <1>2 DEF Complete, Release, IInv, TypeOK
  <2>2. ReadyCountsWaiting' /\ WaitingHasPatchSet'
    BY <1>2 DEF Complete, IInv, ReadyCountsWaiting, WaitingHasPatchSet
  <2>3. active' = [active EXCEPT ![q] = None] /\ globalActive' = globalActive \ {q}
    BY <1>2 DEF Complete, Release
  <2>4. BlockedHasOwner'
    BY <2>3 DEF IInv, BlockedHasOwner, TypeOK
  <2>5. NewestOnly'
    <3>1. \A p \in Queues : active'[p] # None => active'[p] = active[p]
      BY <2>3 DEF IInv, TypeOK
    <3> QED
      BY <3>1, <1>2 DEF Complete, IInv, NewestOnly
  <2> QED
    BY <2>1, <2>2, <2>4, <2>5 DEF IInv
<1> QED
  BY <1>1, <1>2

\* The clock, and a step that changes nothing, preserve the invariant.
LEMMA StutterIInv ==
    ASSUME IInv, UNCHANGED redisVars, now' \in 0..MaxTime
    PROVE  IInv'
BY DEF redisVars, IInv, TypeOK, ReadyCountsWaiting, WaitingHasPatchSet, BlockedHasOwner,
       NewestOnly

\* Every script preserves the invariant.
LEMMA NextIInv == IInv /\ [Next]_vars => IInv'
<1> SUFFICES ASSUME IInv, [Next]_vars PROVE IInv'
  OBVIOUS
<1>1. CASE PushAny
  BY <1>1, PushIInv DEF PushAny
<1>2. CASE StartAny
  BY <1>2, StartIInv DEF StartAny
<1>3. CASE CompleteAny
  BY <1>3, CompleteIInv DEF CompleteAny
<1>4. CASE Tick
  <2>1. now' \in 0..MaxTime
    BY <1>4, QueueAssumption DEF Tick, IInv, TypeOK
  <2> QED
    BY <1>4, <2>1, StutterIInv DEF Tick
<1>5. CASE UNCHANGED vars
  <2>1. now' \in 0..MaxTime
    BY <1>5 DEF vars, IInv, TypeOK
  <2> QED
    BY <1>5, <2>1, StutterIInv DEF vars
<1> QED
  BY <1>1, <1>2, <1>3, <1>4, <1>5 DEF Next

-----------------------------------------------------------------------------

\* The inductive invariant holds in every reachable state of the queue scripts.
THEOREM InvariantHolds == Spec => []IInv
<1>1. Init => IInv
  BY InitIInv
<1>2. IInv /\ [Next]_vars => IInv'
  BY NextIInv
<1> QED
  BY <1>1, <1>2, PTL DEF Spec

\* The keys of the queue scripts always hold values of their types.
THEOREM TypeCorrect == Spec => []TypeOK
<1>1. IInv => TypeOK
  BY DEF IInv
<1> QED
  BY <1>1, InvariantHolds, PTL

\* queue:ready holds the number of waiting changes of every queue, whatever
\* pushes, starts and completions came before.
THEOREM ReadyCountsWaitingHolds == Spec => []ReadyCountsWaiting
<1>1. IInv => ReadyCountsWaiting
  BY DEF IInv
<1> QED
  BY <1>1, InvariantHolds, PTL

\* Every waiting change has a patch set to be built, and only waiting changes do
\* (push.lua and start.lua write the list and the hash together).
THEOREM WaitingHasPatchSetHolds == Spec => []WaitingHasPatchSet
<1>1. IInv => WaitingHasPatchSet
  BY DEF IInv
<1> QED
  BY <1>1, InvariantHolds, PTL

\* No queue is excluded from starting without a recorded build that
\* complete.lua can release.
THEOREM BlockedHasOwnerHolds == Spec => []BlockedHasOwner
<1>1. IInv => BlockedHasOwner
  BY DEF IInv
<1> QED
  BY <1>1, InvariantHolds, PTL

\* Only the newest patch set pushed for a change waits or is built, and a
\* change never waits while it is built.
THEOREM NewestOnlyHolds == Spec => []NewestOnly
<1>1. IInv => NewestOnly
  BY DEF IInv
<1> QED
  BY <1>1, InvariantHolds, PTL

-----------------------------------------------------------------------------

\* A build is never replaced by another one in a single script.
THEOREM NoTakeoverHolds == Spec => NoTakeover
<1> DEFINE Keeps == \A q \in Queues : active[q] # None => active'[q] \in {active[q], None}
<1>1. IInv /\ [Next]_vars => [Keeps]_vars
  <2> SUFFICES ASSUME IInv, Next PROVE Keeps
    OBVIOUS
  <2>1. CASE PushAny
    BY <2>1 DEF PushAny, Push, Release, IInv, TypeOK
  <2>2. CASE StartAny
    <3>1. PICK S \in SUBSET Startables :
            \E c \in [S -> Canonicals \cup {None}] : TakeQueues(S, c)
      BY <2>2 DEF StartAny, Start
    <3>2. \A q \in S : active[q] = None
      BY DEF Startables, IInv, BlockedHasOwner
    <3> QED
      BY <3>1, <3>2 DEF TakeQueues, Activate
  <2>3. CASE CompleteAny
    BY <2>3 DEF CompleteAny, Complete, Release, redisVars, IInv, TypeOK
  <2>4. CASE Tick
    BY <2>4 DEF Tick, redisVars
  <2> QED
    BY <2>1, <2>2, <2>3, <2>4 DEF Next
<1> QED
  BY <1>1, InvariantHolds, PTL DEF Spec, NoTakeover

\* No overtaking: start.lua takes the change that came first, and push.lua does
\* not move a change that waits.
THEOREM NoOvertakingHolds == Spec => NoOvertaking
<1> DEFINE Ranked == \A q \in Queues : KeepsRank(q)
<1>1. IInv /\ [Next]_vars => [Ranked]_vars
  <2> SUFFICES ASSUME IInv, Next, NEW q \in Queues, NEW a \in local[q], NEW b \in local[q],
                      score[q][a] < score[q][b]
               PROVE  /\ b \notin local'[q] => a \notin local'[q]
                      /\ {a, b} \subseteq local'[q] => score'[q][a] < score'[q][b]
    BY DEF KeepsRank
  <2>1. /\ TypeOK
        /\ a \in Canonicals /\ b \in Canonicals
        /\ score[q][a] \in Nat /\ score[q][b] \in Nat
    BY DEF IInv, TypeOK
  <2>2. CASE PushAny
    BY <2>1, <2>2 DEF PushAny, Push, Enqueue, TypeOK
  <2>3. CASE StartAny
    <3>1. PICK S \in SUBSET Startables :
            \E c \in [S -> Canonicals \cup {None}] :
                (\A p \in S : PopMin(p, c[p])) /\ TakeQueues(S, c)
      BY <2>3 DEF StartAny, Start
    <3>2. PICK c \in [S -> Canonicals \cup {None}] :
            (\A p \in S : PopMin(p, c[p])) /\ TakeQueues(S, c)
      BY <3>1
    <3>3. CASE q \in S
      <4>1. c[q] # b
        BY <2>1, <3>2, <3>3 DEF PopMin
      <4>2. local'[q] = local[q] \ {c[q]}
        BY <3>2, <3>3 DEF TakeQueues, Pop
      <4>3. \A d \in Canonicals : d # c[q] => score'[q][d] = score[q][d]
        BY <3>2 DEF TakeQueues, Pop
      <4> QED
        BY <2>1, <4>1, <4>2, <4>3
    <3>4. CASE q \notin S
      BY <2>1, <3>2, <3>4 DEF TakeQueues, Pop
    <3> QED
      BY <3>3, <3>4
  <2>4. CASE CompleteAny
    BY <2>1, <2>4 DEF CompleteAny, Complete, redisVars
  <2>5. CASE Tick
    BY <2>1, <2>5 DEF Tick, redisVars
  <2> QED
    BY <2>2, <2>3, <2>4, <2>5 DEF Next
<1> QED
  BY <1>1, InvariantHolds, PTL DEF Spec, NoOvertaking

-----------------------------------------------------------------------------
(* Refinement: every script implements a step of IntegrationQueue, or none.  *)

\* push.lua implements Submit.
LEMMA PushImplements ==
    ASSUME IInv, NEW q \in Queues, NEW c \in Canonicals, NEW s \in Shas, Push(q, c, s)
    PROVE  IQ!Submit(q, c, s)
<1>1. newest' = [newest EXCEPT ![q][c] = s]
  BY DEF Push
<1>2. phase' = [phase EXCEPT ![q][c] = "waiting"]
  <2> DEFINE after == [p \in Queues |-> [d \in Canonicals |->
                         IF p = q /\ d = c THEN "waiting" ELSE phase[p][d]]]
  <2>0. [phase EXCEPT ![q][c] = "waiting"] = after
    BY DEF phase
  <2> SUFFICES ASSUME NEW p \in Queues, NEW d \in Canonicals
               PROVE  phase'[p][d] = IF p = q /\ d = c THEN "waiting" ELSE phase[p][d]
    BY <2>0 DEF phase
  <2>1. local'[p] = IF p = q THEN local[q] \cup {c} ELSE local[p]
    BY DEF Push, Enqueue, IInv, TypeOK
  <2>2. d # c \/ p # q => (Builds(p, d)' <=> Builds(p, d))
    BY QueueAssumption DEF Push, Release, Builds, IInv, TypeOK, Refs
  <2>3. CASE p = q /\ d = c
    BY <2>1, <2>3 DEF phase
  <2>4. CASE ~(p = q /\ d = c)
    BY <2>1, <2>2, <2>4 DEF phase
  <2> QED
    BY <2>3, <2>4
<1> QED
  BY <1>1, <1>2 DEF IQ!Submit

\* start.lua implements Begin, for the queues it takes.
LEMMA StartImplements ==
    ASSUME IInv, Start
    PROVE  \E S \in SUBSET Queues : \E c \in [S -> Canonicals] : IQ!Begin(S, c)
<1>1. PICK S \in SUBSET Startables :
        \E c \in [S -> Canonicals \cup {None}] :
            (\A q \in S : PopMin(q, c[q])) /\ TakeQueues(S, c)
  BY DEF Start
<1>2. PICK c \in [S -> Canonicals \cup {None}] :
        (\A q \in S : PopMin(q, c[q])) /\ TakeQueues(S, c)
  BY <1>1
<1>3. \A q \in S : /\ q \in Queues
                   /\ c[q] \in local[q]
                   /\ c[q] \in Canonicals
                   /\ c[q] # None
                   /\ active[q] = None
  BY <1>2, TakenHasWork
<1>4. S \in SUBSET Queues /\ c \in [S -> Canonicals]
  BY <1>3
<1>5. \A q \in S : /\ phase[q][c[q]] = "waiting"
                   /\ \A d \in Canonicals : phase[q][d] # "building"
  BY <1>3 DEF phase, Builds
<1>6. phase' = [q \in Queues |-> [d \in Canonicals |->
                 IF q \in S /\ d = c[q] THEN "building" ELSE phase[q][d]]]
  <2> SUFFICES ASSUME NEW q \in Queues, NEW d \in Canonicals
               PROVE  phase'[q][d] = IF q \in S /\ d = c[q] THEN "building" ELSE phase[q][d]
    BY DEF phase
  <2>1. CASE q \in S
    <3>1. local'[q] = local[q] \ {c[q]}
      BY <1>2, <2>1 DEF TakeQueues, Pop
    <3>2. active'[q] = [canonical |-> c[q], sha |-> last[q][c[q]]]
      BY <1>2, <1>3, <2>1 DEF TakeQueues, Activate
    <3>3. last[q][c[q]] \in Shas
      BY <1>3, <2>1 DEF IInv, TypeOK, WaitingHasPatchSet
    <3>4. active'[q] # None
      BY <1>3, <2>1, <3>2, <3>3, QueueAssumption
    <3>5. Builds(q, d)' <=> d = c[q]
      BY <3>2, <3>4 DEF Builds
    <3> QED
      BY <2>1, <3>1, <3>5, <1>3 DEF phase, Builds
  <2>2. CASE q \notin S
    BY <2>2, <1>2 DEF TakeQueues, Pop, Activate, phase, Builds
  <2> QED
    BY <2>1, <2>2
<1>7. UNCHANGED newest
  BY <1>2 DEF TakeQueues
<1>8. IQ!Begin(S, c)
  BY <1>5, <1>6, <1>7 DEF IQ!Begin
<1> QED
  BY <1>4, <1>8

\* complete.lua implements Finish of the change it releases, or a stutter.
LEMMA CompleteImplements ==
    ASSUME IInv, NEW q \in Queues, NEW ref \in Refs, Complete(q, ref)
    PROVE  IQ!Finish(q, ref.canonical) \/ UNCHANGED <<newest, phase>>
<1>1. CASE active[q] = ref
  <2>1. ref.canonical \in Canonicals /\ ref # None
    BY QueueAssumption DEF Refs
  <2>2. ref.canonical \notin local[q]
    BY <1>1, <2>1 DEF IInv, NewestOnly
  <2>3. phase[q][ref.canonical] = "building"
    BY <1>1, <2>1, <2>2 DEF phase, Builds
  <2>4. local' = local /\ newest' = newest /\ active' = [active EXCEPT ![q] = None]
    BY <1>1 DEF Complete, Release
  <2>5. phase' = [phase EXCEPT ![q][ref.canonical] = "idle"]
    <3> SUFFICES ASSUME NEW p \in Queues, NEW d \in Canonicals
                 PROVE  phase'[p][d] =
                          IF p = q /\ d = ref.canonical THEN "idle" ELSE phase[p][d]
      BY DEF phase
    <3>1. CASE p = q
      BY <3>1, <1>1, <2>1, <2>2, <2>4 DEF phase, Builds, IInv, TypeOK
    <3>2. CASE p # q
      BY <3>2, <2>4 DEF phase, Builds, IInv, TypeOK
    <3> QED
      BY <3>1, <3>2
  <2> QED
    BY <2>3, <2>4, <2>5 DEF IQ!Finish
<1>2. CASE active[q] # ref
  BY <1>2 DEF Complete, redisVars, phase, Builds
<1> QED
  BY <1>1, <1>2

\* The scripts implement the abstract queue: a change waits or is built with its
\* newest patch set only, and a queue builds at most one change at a time.
THEOREM QueueRefinement == Spec => ImplementsQueue
<1>1. Init => IQ!Init
  BY DEF Init, IQ!Init, phase, Builds
<1>2. IInv /\ [Next]_vars => [IQ!Next]_<<newest, phase>>
  <2> SUFFICES ASSUME IInv, [Next]_vars PROVE IQ!Next \/ UNCHANGED <<newest, phase>>
    OBVIOUS
  <2>1. CASE PushAny
    BY <2>1, PushImplements DEF PushAny, IQ!Next
  <2>2. CASE StartAny
    BY <2>2, StartImplements DEF StartAny, IQ!Next
  <2>3. CASE CompleteAny
    <3>1. PICK q \in Queues, ref \in Refs : Complete(q, ref)
      BY <2>3 DEF CompleteAny
    <3>2. ref.canonical \in Canonicals
      BY DEF Refs
    <3> QED
      BY <3>1, <3>2, CompleteImplements DEF IQ!Next
  <2>4. CASE Tick \/ UNCHANGED vars
    BY <2>4 DEF Tick, vars, redisVars, phase, Builds
  <2> QED
    BY <2>1, <2>2, <2>3, <2>4 DEF Next
<1> QED
  BY <1>1, <1>2, InvariantHolds, PTL DEF Spec, ImplementsQueue, IQ!Spec, IQ!iqVars
=============================================================================
