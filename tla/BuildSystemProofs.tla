------------------------- MODULE BuildSystemProofs --------------------------
(***************************************************************************)
(* Proofs about BuildSystem: the safety properties of its runs, and that it *)
(* uses the queue scripts and the job executor as they are specified.      *)
(*                                                                         *)
(* None of the properties is inductive.  What they say of a job depends on *)
(* everything that is under way for it: commands on the Redis connection,  *)
(* callbacks that are due, handlers that wait for Gerrit, and the executor. *)
(* IInv says of every job where it may be at once, which commands may still *)
(* follow which, and what its state and the queue are at that place.       *)
(***************************************************************************)
EXTENDS BuildSystem, FiniteSetTheorems, SequenceTheorems, TLAPS

\* What is proved of the queue scripts by themselves.
RP == INSTANCE QueueRedisProofs WITH Shas <- 1..MaxRev, MaxTime <- 0

-----------------------------------------------------------------------------
(* The connection and the timers as sets.                                    *)

Sent == Range(pipe)
Later == Range(Tail(pipe))
Scheduled == Range(timers)

\* The head of a sequence and the rest of it make up its elements.
LEMMA RangeOfHeadTail ==
    ASSUME NEW S, NEW s \in Seq(S), s # <<>>
    PROVE  /\ Head(s) \in S /\ Tail(s) \in Seq(S)
           /\ Range(s) = {Head(s)} \cup Range(Tail(s))
<1>1. /\ Head(s) \in S /\ Tail(s) \in Seq(S)
      /\ Len(Tail(s)) = Len(s) - 1
      /\ \A i \in 1 .. Len(Tail(s)) : Tail(s)[i] = s[i + 1]
  BY HeadTailProperties
<1>2. /\ Len(s) \in Nat /\ Len(s) # 0
      /\ DOMAIN s = 1 .. Len(s) /\ DOMAIN Tail(s) = 1 .. Len(Tail(s))
      /\ Head(s) = s[1]
  BY <1>1
<1>3. ASSUME NEW x \in Range(s) PROVE x \in {Head(s)} \cup Range(Tail(s))
  <2>1. PICK i \in 1 .. Len(s) : x = s[i]
    BY <1>2 DEF Range
  <2>2. CASE i = 1
    BY <2>1, <2>2, <1>2
  <2>3. CASE i # 1
    <3>1. i - 1 \in 1 .. Len(Tail(s)) /\ Tail(s)[i - 1] = x
      BY <2>1, <2>3, <1>1, <1>2
    <3> QED
      BY <3>1, <1>2 DEF Range
  <2> QED
    BY <2>2, <2>3
<1>4. ASSUME NEW x \in Range(Tail(s)) PROVE x \in Range(s)
  <2>1. PICK i \in 1 .. Len(Tail(s)) : x = Tail(s)[i]
    BY <1>2 DEF Range
  <2>2. i + 1 \in DOMAIN s /\ s[i + 1] = x
    BY <2>1, <1>1, <1>2
  <2> QED
    BY <2>2 DEF Range
<1>5. Head(s) \in Range(s)
  BY <1>2 DEF Range
<1> QED
  BY <1>1, <1>3, <1>4, <1>5

\* A concatenation holds the elements of both sequences.
LEMMA RangeOfConcat ==
    ASSUME NEW S, NEW s \in Seq(S), NEW t \in Seq(S)
    PROVE  s \o t \in Seq(S) /\ Range(s \o t) = Range(s) \cup Range(t)
<1>1. /\ s \o t \in Seq(S)
      /\ Len(s \o t) = Len(s) + Len(t)
      /\ \A i \in 1 .. Len(s) + Len(t) :
            (s \o t)[i] = IF i <= Len(s) THEN s[i] ELSE t[i - Len(s)]
  BY ConcatProperties
<1>2. /\ Len(s) \in Nat /\ Len(t) \in Nat
      /\ DOMAIN s = 1 .. Len(s) /\ DOMAIN t = 1 .. Len(t)
      /\ DOMAIN (s \o t) = 1 .. Len(s) + Len(t)
  BY <1>1
<1>3. ASSUME NEW x \in Range(s \o t) PROVE x \in Range(s) \cup Range(t)
  <2>1. PICK i \in 1 .. Len(s) + Len(t) : x = (s \o t)[i]
    BY <1>2 DEF Range
  <2>2. CASE i <= Len(s)
    BY <2>1, <2>2, <1>1, <1>2 DEF Range
  <2>3. CASE i > Len(s)
    <3>1. i - Len(s) \in DOMAIN t /\ x = t[i - Len(s)]
      BY <2>1, <2>3, <1>1, <1>2
    <3> QED
      BY <3>1 DEF Range
  <2> QED
    BY <2>2, <2>3, <1>2
<1>4. ASSUME NEW x \in Range(s) PROVE x \in Range(s \o t)
  <2>1. PICK i \in 1 .. Len(s) : x = s[i]
    BY <1>2 DEF Range
  <2>2. i \in DOMAIN (s \o t) /\ (s \o t)[i] = x
    BY <2>1, <1>1, <1>2
  <2> QED
    BY <2>2 DEF Range
<1>5. ASSUME NEW x \in Range(t) PROVE x \in Range(s \o t)
  <2>1. PICK i \in 1 .. Len(t) : x = t[i]
    BY <1>2 DEF Range
  <2>2. i + Len(s) \in DOMAIN (s \o t) /\ (s \o t)[i + Len(s)] = x
    BY <2>1, <1>1, <1>2
  <2> QED
    BY <2>2 DEF Range
<1> QED
  BY <1>1, <1>3, <1>4, <1>5

\* An appended sequence holds one element more.
LEMMA RangeOfAppend ==
    ASSUME NEW S, NEW s \in Seq(S), NEW e \in S
    PROVE  Append(s, e) \in Seq(S) /\ Range(Append(s, e)) = Range(s) \cup {e}
<1>1. Append(s, e) = s \o <<e>> /\ <<e>> \in Seq(S)
  BY AppendIsConcat
<1>2. Range(<<e>>) = {e}
  BY DEF Range
<1>3. s \o <<e>> \in Seq(S) /\ Range(s \o <<e>>) = Range(s) \cup Range(<<e>>)
  BY <1>1, RangeOfConcat
<1> QED
  BY <1>1, <1>2, <1>3, Zenon

\* The elements of a sequence over S are in S.
LEMMA RangeInSet ==
    ASSUME NEW S, NEW s \in Seq(S)
    PROVE  Range(s) \subseteq S
BY DEF Range

\* Every two elements of s, in their order, are in Rel.
InOrder(s, Rel) == \A i, k \in DOMAIN s : i < k => <<s[i], s[k]>> \in Rel

\* An order of all pairs holds for the rest of a sequence, and between its head and
\* the rest.
LEMMA InOrderTail ==
    ASSUME NEW S, NEW s \in Seq(S), s # <<>>, NEW Rel, InOrder(s, Rel)
    PROVE  InOrder(Tail(s), Rel) /\ \A m \in Range(Tail(s)) : <<Head(s), m>> \in Rel
<1>1. /\ Tail(s) \in Seq(S)
      /\ Len(Tail(s)) = Len(s) - 1
      /\ \A i \in 1 .. Len(Tail(s)) : Tail(s)[i] = s[i + 1]
  BY HeadTailProperties
<1>2. /\ Len(s) \in Nat /\ Len(s) # 0
      /\ DOMAIN s = 1 .. Len(s) /\ DOMAIN Tail(s) = 1 .. Len(Tail(s))
      /\ Head(s) = s[1]
  BY <1>1
<1>3. ASSUME NEW i \in DOMAIN Tail(s), NEW k \in DOMAIN Tail(s), i < k
      PROVE  <<Tail(s)[i], Tail(s)[k]>> \in Rel
  <2>1. /\ i + 1 \in DOMAIN s /\ k + 1 \in DOMAIN s /\ i + 1 < k + 1
        /\ Tail(s)[i] = s[i + 1] /\ Tail(s)[k] = s[k + 1]
    BY <1>1, <1>2, <1>3
  <2> QED
    BY <2>1 DEF InOrder
<1>4. ASSUME NEW i \in DOMAIN Tail(s) PROVE <<Head(s), Tail(s)[i]>> \in Rel
  <2>1. i + 1 \in DOMAIN s /\ 1 \in DOMAIN s /\ 1 < i + 1 /\ Tail(s)[i] = s[i + 1]
    BY <1>1, <1>2
  <2> QED
    BY <2>1, <1>2 DEF InOrder
<1> QED
  BY <1>3, <1>4 DEF InOrder, Range

\* Two ordered sequences may be concatenated when every element of the first may
\* precede every element of the second.
LEMMA InOrderConcat ==
    ASSUME NEW S, NEW s \in Seq(S), NEW t \in Seq(S), NEW Rel, InOrder(s, Rel), InOrder(t, Rel),
           \A m \in Range(s), n \in Range(t) : <<m, n>> \in Rel
    PROVE  InOrder(s \o t, Rel)
<1>1. /\ s \o t \in Seq(S)
      /\ Len(s \o t) = Len(s) + Len(t)
      /\ \A i \in 1 .. Len(s) + Len(t) :
            (s \o t)[i] = IF i <= Len(s) THEN s[i] ELSE t[i - Len(s)]
  BY ConcatProperties
<1>2. /\ Len(s) \in Nat /\ Len(t) \in Nat
      /\ DOMAIN s = 1 .. Len(s) /\ DOMAIN t = 1 .. Len(t)
      /\ DOMAIN (s \o t) = 1 .. Len(s) + Len(t)
  BY <1>1
<1> SUFFICES ASSUME NEW i \in DOMAIN (s \o t), NEW k \in DOMAIN (s \o t), i < k
             PROVE  <<(s \o t)[i], (s \o t)[k]>> \in Rel
  BY DEF InOrder
<1>3. CASE k <= Len(s)
  <2>1. /\ i \in DOMAIN s /\ k \in DOMAIN s
        /\ (s \o t)[i] = s[i] /\ (s \o t)[k] = s[k]
    BY <1>1, <1>2, <1>3
  <2> QED
    BY <2>1 DEF InOrder
<1>4. CASE i > Len(s)
  <2>1. /\ i - Len(s) \in DOMAIN t /\ k - Len(s) \in DOMAIN t /\ i - Len(s) < k - Len(s)
        /\ (s \o t)[i] = t[i - Len(s)] /\ (s \o t)[k] = t[k - Len(s)]
    BY <1>1, <1>2, <1>4
  <2> QED
    BY <2>1 DEF InOrder
<1>5. CASE i <= Len(s) /\ k > Len(s)
  <2>1. /\ i \in DOMAIN s /\ k - Len(s) \in DOMAIN t
        /\ (s \o t)[i] = s[i] /\ (s \o t)[k] = t[k - Len(s)]
    BY <1>1, <1>2, <1>5
  <2> QED
    BY <2>1 DEF Range
<1>6. k <= Len(s) \/ i > Len(s) \/ (i <= Len(s) /\ k > Len(s))
  BY <1>2
<1> QED
  BY <1>3, <1>4, <1>5, <1>6, Zenon

\* An element may be appended when every other one may precede it.
LEMMA InOrderAppend ==
    ASSUME NEW S, NEW s \in Seq(S), NEW e \in S, NEW Rel, InOrder(s, Rel),
           \A m \in Range(s) : <<m, e>> \in Rel
    PROVE  InOrder(Append(s, e), Rel)
<1>1. Append(s, e) = s \o <<e>> /\ <<e>> \in Seq(S)
  BY AppendIsConcat
<1>2. Range(<<e>>) = {e} /\ InOrder(<<e>>, Rel)
  BY DEF Range, InOrder
<1>3. InOrder(s \o <<e>>, Rel)
  BY <1>1, <1>2, InOrderConcat
<1> QED
  BY <1>1, <1>3, Zenon

-----------------------------------------------------------------------------
\* The two instances of the scripts' modules count alike.
LEMMA SameCardinality ==
    ASSUME NEW S PROVE R!Cardinality(S) = RP!Cardinality(S)
BY DEF R!Cardinality, RP!Cardinality

\* What is assumed of the build system's constants is what the scripts assume.
LEMMA QueueAssumptionHolds == RP!QueueAssumption
BY BuildSystemAssumption DEF RP!QueueAssumption, RP!IsFiniteSet, IsFiniteSet

\* The inductive invariant of the scripts means the same in both instances.
LEMMA SameIInv == R!IInv <=> RP!IInv
BY SameCardinality DEF R!IInv, RP!IInv, R!TypeOK, RP!TypeOK, R!Refs, RP!Refs,
   R!ReadyCountsWaiting, RP!ReadyCountsWaiting, R!WaitingHasPatchSet, RP!WaitingHasPatchSet,
   R!BlockedHasOwner, RP!BlockedHasOwner, R!NewestOnly, RP!NewestOnly

\* The queue is empty in the beginning.
LEMMA InitQueue == R!Init => R!IInv
<1>1. R!Init <=> RP!Init
  BY DEF R!Init, RP!Init
<1> QED
  BY <1>1, RP!InitIInv, SameIInv, QueueAssumptionHolds

\* The same of the state after a step.
LEMMA SameIInvLater == R!IInv' <=> RP!IInv'
BY SameIInv, PTL

\* push.lua, as the build system calls it, keeps the invariant of the scripts.
LEMMA PushKeepsQueue ==
    ASSUME R!IInv, NEW q \in Queues, NEW c \in Canonicals, NEW s \in 1..MaxRev,
           R!Push(q, c, s), UNCHANGED now
    PROVE  R!IInv'
<1>1. RP!Push(q, c, s)
  BY DEF R!Push, RP!Push, R!Enqueue, RP!Enqueue, R!Replace, RP!Replace, R!Outdated, RP!Outdated,
         R!Builds, RP!Builds, R!Release, RP!Release
<1> QED
  BY <1>1, RP!PushIInv, SameIInv, SameIInvLater, QueueAssumptionHolds

\* So does start.lua.
LEMMA StartKeepsQueue ==
    ASSUME R!IInv, R!Start, UNCHANGED now
    PROVE  R!IInv'
<1>1. RP!Start
  BY SameCardinality, Zenon
     DEF R!Start, RP!Start, R!Startables, RP!Startables, R!Taken, RP!Taken, R!TakeQueues,
         RP!TakeQueues, R!Pop, RP!Pop, R!PopMin, RP!PopMin, R!Unfile, RP!Unfile, R!Activate,
         RP!Activate, R!Uncount, RP!Uncount
<1> QED
  BY <1>1, RP!StartIInv, SameIInv, SameIInvLater, QueueAssumptionHolds

\* So does complete.lua.
LEMMA CompleteKeepsQueue ==
    ASSUME R!IInv, NEW q \in Queues, NEW j \in Jobs, R!Complete(q, j), UNCHANGED now
    PROVE  R!IInv'
<1>1. RP!Complete(q, j) /\ j \in RP!Refs
  BY DEF R!Complete, RP!Complete, R!Release, RP!Release, R!redisVars, RP!redisVars, Jobs, RP!Refs
<1> QED
  BY <1>1, RP!CompleteIInv, SameIInv, SameIInvLater, QueueAssumptionHolds

\* And so does every step that runs no script.
LEMMA IdleKeepsQueue ==
    ASSUME R!IInv, UNCHANGED redis
    PROVE  R!IInv'
<1>1. UNCHANGED RP!redisVars /\ now' \in 0..0
  BY DEF redis, RP!redisVars, R!IInv, R!TypeOK
<1> QED
  BY <1>1, RP!StutterIInv, SameIInv, SameIInvLater, QueueAssumptionHolds

\* start.lua, seen from the jobs: a job that is taken waited, in a queue that nobody
\* held, and waits no longer.
LEMMA StartTakes ==
    ASSUME R!IInv, R!Start
    PROVE  /\ \A q \in Queues : active'[q] # active[q] =>
                /\ active[q] = None
                /\ active'[q] \in Jobs
                /\ active'[q].canonical \in local[q]
                /\ last[q][active'[q].canonical] = active'[q].sha
                /\ last'[q][active'[q].canonical] = None
           /\ \A q \in Queues, c \in Canonicals : last'[q][c] \in {last[q][c], None}
           /\ active' \in [Queues -> Jobs \cup {None}]
           /\ last' \in [Queues -> [Canonicals -> 1..MaxRev \cup {None}]]
<1>0. RP!Start /\ RP!IInv
  BY SameCardinality, SameIInv, Zenon
     DEF R!Start, RP!Start, R!Startables, RP!Startables, R!Taken, RP!Taken, R!TakeQueues,
         RP!TakeQueues, R!Pop, RP!Pop, R!PopMin, RP!PopMin, R!Unfile, RP!Unfile, R!Activate,
         RP!Activate, R!Uncount, RP!Uncount
<1>1. PICK S \in SUBSET RP!Startables : \E c \in [S -> Canonicals \cup {None}] :
        (\A q \in S : RP!PopMin(q, c[q])) /\ RP!TakeQueues(S, c)
  BY <1>0 DEF RP!Start
<1>2. PICK c \in [S -> Canonicals \cup {None}] :
        (\A q \in S : RP!PopMin(q, c[q])) /\ RP!TakeQueues(S, c)
  BY <1>1
<1>3. S \subseteq RP!Startables
  OBVIOUS
<1>4. \A q \in S : q \in Queues /\ c[q] \in local[q] /\ c[q] \in Canonicals
        /\ active[q] = None /\ last[q][c[q]] # None
  BY <1>0, <1>2, <1>3, RP!TakenHasWork, QueueAssumptionHolds
<1>5. /\ active \in [Queues -> Jobs \cup {None}]
      /\ last \in [Queues -> [Canonicals -> 1..MaxRev \cup {None}]]
  BY DEF R!IInv, R!TypeOK, R!Refs, Jobs
<1>6. /\ active' = [q \in Queues |->
                     IF q \in S /\ c[q] # None
                     THEN [canonical |-> c[q], sha |-> last[q][c[q]]] ELSE active[q]]
      /\ last' = [q \in Queues |-> [d \in Canonicals |->
                   IF q \in S /\ d = c[q] THEN None ELSE last[q][d]]]
  BY <1>2 DEF RP!TakeQueues, RP!Activate, RP!Unfile
<1>7. \A q \in S : c[q] # None
  BY <1>4, BuildSystemAssumption
<1>8. ASSUME NEW q \in S
      PROVE  /\ active'[q] = [canonical |-> c[q], sha |-> last[q][c[q]]]
             /\ active'[q] \in Jobs
             /\ last'[q][c[q]] = None
  BY <1>4, <1>5, <1>6, <1>7 DEF Jobs
<1>9. \A q \in Queues \ S : active'[q] = active[q]
  BY <1>6
<1>10. \A q \in Queues, d \in Canonicals : last'[q][d] \in {last[q][d], None}
  BY <1>6
<1>11. active' \in [Queues -> Jobs \cup {None}]
  BY <1>5, <1>6, <1>8, <1>9
<1>12. last' \in [Queues -> [Canonicals -> 1..MaxRev \cup {None}]]
  BY <1>5, <1>6
<1>13. ASSUME NEW q \in Queues, active'[q] # active[q]
       PROVE  /\ active[q] = None
              /\ active'[q] \in Jobs
              /\ active'[q].canonical \in local[q]
              /\ last[q][active'[q].canonical] = active'[q].sha
              /\ last'[q][active'[q].canonical] = None
  <2>1. q \in S
    BY <1>9, <1>13
  <2>3. active'[q] = [canonical |-> c[q], sha |-> last[q][c[q]]]
    BY <2>1, <1>8
  <2>2. active'[q].canonical = c[q] /\ active'[q].sha = last[q][c[q]]
    BY <2>3
  <2> QED
    BY <2>1, <2>2, <1>4, <1>8
<1> QED
  BY <1>10, <1>11, <1>12, <1>13

-----------------------------------------------------------------------------
(* The inductive invariant.                                                *)

\* What a command says of a job.
Names(m, j) == m.op = "set" /\ j \in Range(m.jobs)
Starts(m, j) == Names(m, j) /\ m.state = "starting"
Overrides(m, j) == Names(m, j) /\ m.state \notin {"starting", "started"}
Ends(m, j) == m.op \in {"get", "complete"} /\ m.job = j /\ m.state \in Terminal
Pushes(m, j) == m.op = "push" /\ m.job = j
Announces(m, j) == m.op = "queued" /\ m.job = j
Cancels(m, j) ==
    \/ m.op = "queued" /\ m.job.canonical = j.canonical /\ m.cancel = j.sha
    \/ Names(m, j) /\ m.state = "cancelled"
Aborts(m, j) ==
    \/ m.op = "queued" /\ m.job.canonical = j.canonical /\ m.abort = j.sha
    \/ Names(m, j) /\ m.state = "aborted"
Confirms(m, j) == m = GetCmd(j, "started") \/ m = SetCmd(<<j>>, "started")

\* The same of the commands that were sent.
Starting(j) == \E m \in Sent : Starts(m, j)
Ending(j) == \E m \in Sent : Ends(m, j)
Pushing(j) == \E m \in Sent : Pushes(m, j)
Announcing(j) == \E m \in Sent : Announces(m, j)
Setting(j) == \E m \in Sent : Names(m, j)
Overriding(j) == \E m \in Sent : Overrides(m, j)
Confirming(j) == \E m \in Sent : Confirms(m, j)
Cancelling(j) == \E m \in Sent : Cancels(m, j)
Aborting(j) == \E m \in Sent : Aborts(m, j)

\* Where a job stands, the timers and the executor included.
DueStart(j) == [job |-> j, state |-> "starting"] \in Scheduled
DueAbort(j) == [job |-> j, state |-> "aborted"] \in Scheduled
Live(j) == exec[j] \in {"queued", "aborting", "running"}
Begun(j) ==
    \/ Holds(j) \/ Starting(j) \/ Ending(j) \/ DueStart(j)
    \/ j \in rebasing \/ exec[j] # "none"
Cancelled(j) == Cancelling(j) \/ status[j] = "cancelled"
Aborted(j) == Aborting(j) \/ DueAbort(j) \/ j \in abortReq
Waiting(j) == last[Queue(j)][j.canonical] = j.sha
Fresh(j) == j.sha > rev[j.canonical] \/ j \in arriving \/ Pushing(j)

\* Of two commands, and of two timers, in the order in which they were issued: a
\* job is not started or ended twice and not pushed twice, and it is announced
\* before it starts.
Fits(m, n) ==
    \A j \in Jobs :
        /\ ~((Starts(m, j) \/ Ends(m, j)) /\ (Starts(n, j) \/ Ends(n, j)))
        /\ ~(Pushes(m, j) /\ Pushes(n, j))
        /\ ~((Starts(m, j) \/ Ends(m, j)) /\ Announces(n, j))
Compatible == {p \in Commands \X Commands : Fits(p[1], p[2])}
Calls == [job : Jobs, state : States]
Distinct == {p \in Calls \X Calls : p[1] = p[2] => p[1].state # "starting"}

\* start.lua takes a job once, the other states are set for a single job, and
\* nobody reports a job as cancelled.
WellFormed ==
    \A m \in Sent :
        /\ m.op = "set" => \A i, k \in DOMAIN m.jobs : m.jobs[i] = m.jobs[k] => i = k
        /\ m.op = "set" /\ m.state # "starting" => \E j \in Jobs : m.jobs = <<j>>
        /\ m.op \in {"get", "complete"} => m.state # "cancelled"

\* A change waits in its own queue.
OwnQueue == \A q \in Queues, c \in Canonicals : last[q][c] # None => q = QueueOf[c]

\* A job that was started is at one place.
OneToken(j) ==
    /\ Starting(j) \/ Ending(j) => ~DueStart(j) /\ j \notin rebasing /\ ~Live(j)
    /\ DueStart(j) => j \notin rebasing /\ ~Live(j)
    /\ j \in rebasing => ~Live(j)

\* A patch set arrives once, and is pushed once, after that.
PushedOnce(j) ==
    /\ j \in arriving \/ Pushing(j) => j.sha <= rev[j.canonical]
    /\ j \in arriving => ~Pushing(j)

\* Nothing has happened to a patch set before its push, and only its
\* announcement is on its way while it waits.
FreshIsUntouched(j) ==
    Fresh(j) =>
        /\ ~Begun(j) /\ ~Waiting(j) /\ ~Cancelled(j) /\ ~Aborted(j)
        /\ ~Setting(j) /\ ~Announcing(j)
WaitingIsUntouched(j) ==
    Waiting(j) => ~Begun(j) /\ ~Cancelled(j) /\ ~Aborted(j) /\ ~Setting(j)

CancelledNotBegun(j) == Cancelled(j) => ~Begun(j)

\* QUEUED is set before anything is known of the job's end.
QueuedFirst(j) ==
    Ending(j) \/ DueStart(j) \/ j \in rebasing \/ exec[j] # "none" => ~Announcing(j)

AbortedHoldsNot(j) == Aborted(j) => ~Holds(j)
HolderIsNotOverridden(j) == Holds(j) => ~Overriding(j)
ConfirmedRuns(j) == Confirming(j) => exec[j] = "running" \/ j \in abortReq

Always(j) ==
    /\ OneToken(j) /\ PushedOnce(j) /\ FreshIsUntouched(j) /\ WaitingIsUntouched(j)
    /\ CancelledNotBegun(j) /\ QueuedFirst(j) /\ AbortedHoldsNot(j)
    /\ HolderIsNotOverridden(j) /\ ConfirmedRuns(j)

\* Without a restart the job that is being worked on holds its queue, its state
\* is up to date, and its end will be accepted.
WorkedOnHolds(j) ==
    Starting(j) \/ DueStart(j) \/ j \in rebasing \/ Live(j) => Holds(j) \/ Aborted(j)
HolderHasOwner(j) ==
    Holds(j) => Starting(j) \/ Ending(j) \/ DueStart(j) \/ j \in rebasing \/ Executing(j)
Refused(j) ==
    \E m \in Sent : m.op = "get" /\ Ends(m, j) /\ ~IsTransitionValid(status[j], m.state)
HolderStatus(j) ==
    Holds(j) =>
        /\ DueStart(j) \/ j \in rebasing \/ exec[j] = "queued" => status[j] = "starting"
        /\ exec[j] = "running" => \/ status[j] = "started"
                                  \/ status[j] = "starting" /\ Confirming(j)
        /\ ~Refused(j)
UntilCrash(j) == WorkedOnHolds(j) /\ HolderHasOwner(j) /\ HolderStatus(j)

IInv ==
    /\ TypeOK /\ R!IInv /\ WellFormed /\ OwnQueue
    /\ InOrder(pipe, Compatible) /\ InOrder(timers, Distinct)
    /\ \A j \in Jobs : Always(j)
    /\ crashes = 0 => \A j \in Jobs : UntilCrash(j)

-----------------------------------------------------------------------------
(* What the steps do to the connection and the timers.                      *)

\* The constructors of commands yield commands.
LEMMA CommandShapes ==
    /\ StartCmd \in Commands
    /\ \A j \in Jobs : PushCmd(j) \in Commands
    /\ \A j \in Jobs, a, c \in ShaOrNone : QueuedCmd(j, a, c) \in Commands
    /\ \A js \in Seq(Jobs), s \in States : SetCmd(js, s) \in Commands
    /\ \A j \in Jobs, s \in Terminal \cup {"started"} : GetCmd(j, s) \in Commands
    /\ \A j \in Jobs, s \in Terminal : CompleteCmd(j, s) \in Commands
BY DEF Commands, StartCmd, PushCmd, QueuedCmd, SetCmd, GetCmd, CompleteCmd

\* A command is what the constructor of its kind makes of its fields.
LEMMA CommandTypes ==
    ASSUME NEW m \in Commands
    PROVE  /\ m.op \in {"start", "push", "queued", "set", "get", "complete"}
           /\ m.op = "push" => m.job \in Jobs /\ m = PushCmd(m.job)
           /\ m.op = "queued" => /\ m.job \in Jobs /\ {m.abort, m.cancel} \subseteq ShaOrNone
                                 /\ m = QueuedCmd(m.job, m.abort, m.cancel)
           /\ m.op = "set" => /\ m.jobs \in Seq(Jobs) /\ m.state \in States
                              /\ m = SetCmd(m.jobs, m.state)
           /\ m.op = "get" => /\ m.job \in Jobs /\ m.state \in Terminal \cup {"started"}
                              /\ m = GetCmd(m.job, m.state)
           /\ m.op = "complete" => /\ m.job \in Jobs /\ m.state \in Terminal
                                   /\ m = CompleteCmd(m.job, m.state)
BY DEF Commands, StartCmd, PushCmd, QueuedCmd, SetCmd, GetCmd, CompleteCmd

\* Compatible collects the pairs that fit.
LEMMA FitsIsCompatible ==
    ASSUME NEW m \in Commands, NEW n \in Commands
    PROVE  <<m, n>> \in Compatible <=> Fits(m, n)
BY DEF Compatible

\* The command at the head of the connection and those that follow it.
LEMMA HeadOfPipe ==
    ASSUME TypeOK, InOrder(pipe, Compatible), pipe # <<>>
    PROVE  /\ Head(pipe) \in Commands
           /\ Later \subseteq Commands
           /\ Sent = {Head(pipe)} \cup Later
           /\ \A m \in Later : Fits(Head(pipe), m)
           /\ Tail(pipe) \in Seq(Commands)
           /\ InOrder(Tail(pipe), Compatible)
<1>1. pipe \in Seq(Commands)
  BY DEF TypeOK
<1>2. Head(pipe) \in Commands /\ Tail(pipe) \in Seq(Commands) /\ Sent = {Head(pipe)} \cup Later
  BY <1>1, RangeOfHeadTail DEF Sent, Later
<1>3. Later \subseteq Commands
  BY <1>2, RangeInSet DEF Later
<1>4. InOrder(Tail(pipe), Compatible) /\ \A m \in Later : <<Head(pipe), m>> \in Compatible
  BY <1>1, InOrderTail DEF Later
<1> QED
  BY <1>2, <1>3, <1>4, FitsIsCompatible

\* A reply takes the head off the connection and appends what its handler sends.
LEMMA ReplyTypes ==
    ASSUME TypeOK, InOrder(pipe, Compatible), pipe # <<>>, NEW f \in Seq(Commands), Reply(f)
    PROVE  pipe' \in Seq(Commands) /\ Sent' = Later \cup Range(f)
<1>1. Tail(pipe) \in Seq(Commands)
  BY HeadOfPipe
<1>2. \A s, t \in Seq(Commands) :
        s \o t \in Seq(Commands) /\ Range(s \o t) = Range(s) \cup Range(t)
  BY RangeOfConcat, Zenon
<1>3. /\ Tail(pipe) \o f \in Seq(Commands)
      /\ Range(Tail(pipe) \o f) = Range(Tail(pipe)) \cup Range(f)
  BY <1>1, <1>2, Zenon
<1> QED
  BY <1>3, Zenon DEF Reply, Sent, Later

\* The order on the connection is kept when what is sent fits what is left.
LEMMA ReplyOrder ==
    ASSUME TypeOK, InOrder(pipe, Compatible), pipe # <<>>, NEW f \in Seq(Commands), Reply(f),
           InOrder(f, Compatible), \A m \in Later, n \in Range(f) : Fits(m, n)
    PROVE  InOrder(pipe', Compatible)
<1>1. Tail(pipe) \in Seq(Commands) /\ InOrder(Tail(pipe), Compatible) /\ Later \subseteq Commands
  BY HeadOfPipe
<1>2. \A m \in Range(Tail(pipe)), n \in Range(f) : <<m, n>> \in Compatible
  BY <1>1, RangeInSet, FitsIsCompatible DEF Later
<1> QED
  BY <1>1, <1>2, InOrderConcat DEF Reply

\* A call outside a reply appends one command.
LEMMA SendTypes ==
    ASSUME TypeOK, NEW m \in Commands, Send(m)
    PROVE  pipe' \in Seq(Commands) /\ Sent' = Sent \cup {m} /\ Sent \subseteq Commands
<1>1. pipe \in Seq(Commands)
  BY DEF TypeOK
<1> QED
  BY <1>1, RangeOfAppend, RangeInSet DEF Send, Sent

\* The order on the connection is kept when that command fits all others.
LEMMA SendOrder ==
    ASSUME TypeOK, InOrder(pipe, Compatible), NEW m \in Commands, Send(m),
           \A n \in Sent : Fits(n, m)
    PROVE  InOrder(pipe', Compatible)
<1>1. pipe \in Seq(Commands)
  BY DEF TypeOK
<1>2. \A n \in Range(pipe) : <<n, m>> \in Compatible
  BY <1>1, RangeInSet, FitsIsCompatible DEF Sent
<1> QED
  BY <1>1, <1>2, InOrderAppend DEF Send

\* The timer that fires; a STARTING callback is not due twice.
LEMMA HeadOfTimers ==
    ASSUME TypeOK, InOrder(timers, Distinct), timers # <<>>, timers' = Tail(timers)
    PROVE  /\ Head(timers) \in Calls
           /\ Scheduled = {Head(timers)} \cup Scheduled'
           /\ Head(timers).state = "starting" => Head(timers) \notin Scheduled'
           /\ timers' \in Seq(Calls)
           /\ InOrder(timers', Distinct)
<1>1. timers \in Seq(Calls)
  BY DEF TypeOK, Calls
<1>2. Head(timers) \in Calls /\ timers' \in Seq(Calls)
      /\ Scheduled = {Head(timers)} \cup Scheduled'
  BY <1>1, RangeOfHeadTail DEF Scheduled
<1>3. InOrder(timers', Distinct) /\ \A t \in Range(Tail(timers)) : <<Head(timers), t>> \in Distinct
  BY <1>1, InOrderTail
<1>4. Head(timers).state = "starting" => Head(timers) \notin Scheduled'
  BY <1>3 DEF Distinct, Scheduled
<1> QED
  BY <1>2, <1>3, <1>4

\* setState writes the status keys and schedules a callback for every job.
LEMMA SetStateTypes ==
    ASSUME TypeOK, NEW js \in Seq(Jobs), NEW st \in States, SetState(js, st)
    PROVE  /\ timers' \in Seq(Calls)
           /\ Scheduled' = Scheduled \cup {[job |-> j, state |-> st] : j \in Range(js)}
           /\ status' \in [Jobs -> States \cup {None}]
           /\ \A j \in Jobs : status'[j] = IF j \in Range(js) THEN st ELSE status[j]
<1> DEFINE new == [i \in DOMAIN js |-> [job |-> js[i], state |-> st]]
<1>1. DOMAIN js = 1..Len(js) /\ Len(js) \in Nat /\ \A i \in 1..Len(js) : js[i] \in Jobs
  OBVIOUS
<1>2. new \in Seq(Calls)
  BY <1>1 DEF Calls
<1>3. Range(new) = {[job |-> j, state |-> st] : j \in Range(js)}
  BY DEF Range
<1>4. timers \in Seq(Calls)
  BY DEF TypeOK, Calls
<1>5. timers' \in Seq(Calls) /\ Range(timers') = Range(timers) \cup Range(new)
  BY <1>2, <1>4, RangeOfConcat DEF SetState
<1>6. status' = [j \in Jobs |-> IF j \in Range(js) THEN st ELSE status[j]]
  BY DEF SetState
<1>7. status' \in [Jobs -> States \cup {None}]
  BY <1>6 DEF TypeOK
<1> QED
  BY <1>3, <1>5, <1>6, <1>7 DEF Scheduled

\* The callbacks stay distinct when STARTING is set for jobs without such a callback.
LEMMA SetStateOrder ==
    ASSUME TypeOK, InOrder(timers, Distinct), NEW js \in Seq(Jobs), NEW st \in States,
           SetState(js, st),
           st = "starting" => /\ \A i, k \in DOMAIN js : js[i] = js[k] => i = k
                              /\ \A j \in Range(js) : ~DueStart(j)
    PROVE  InOrder(timers', Distinct)
<1> DEFINE new == [i \in DOMAIN js |-> [job |-> js[i], state |-> st]]
<1>1. DOMAIN js = 1..Len(js) /\ Len(js) \in Nat /\ \A i \in 1..Len(js) : js[i] \in Jobs
  OBVIOUS
<1>2. new \in Seq(Calls)
  BY <1>1 DEF Calls
<1>4. timers \in Seq(Calls)
  BY DEF TypeOK, Calls
<1>5. InOrder(new, Distinct)
  <2> SUFFICES ASSUME NEW i \in DOMAIN new, NEW k \in DOMAIN new, i < k
               PROVE  <<new[i], new[k]>> \in Distinct
    BY DEF InOrder
  <2>1. new[i] \in Calls /\ new[k] \in Calls /\ new[i].state = st /\ i # k
    BY <1>1 DEF Calls
  <2>2. new[i] = new[k] => st # "starting"
    BY <2>1
  <2> QED
    BY <2>1, <2>2 DEF Distinct
<1>6. ASSUME NEW t \in Range(timers), NEW u \in Range(new) PROVE <<t, u>> \in Distinct
  <2>1. t \in Calls
    BY <1>4, RangeInSet
  <2>2. PICK j \in Range(js) : u = [job |-> j, state |-> st]
    BY DEF Range
  <2>3. u \in Calls /\ u.state = st
    BY <2>2, <1>1 DEF Calls, Range
  <2>4. st = "starting" => t # u
    BY <2>2 DEF DueStart, Scheduled
  <2> QED
    BY <2>1, <2>3, <2>4 DEF Distinct
<1> QED
  BY <1>2, <1>4, <1>5, <1>6, InOrderConcat DEF SetState

\* A sequence of one element.
LEMMA RangeOfSingle == \A m, S : m \in S => <<m>> \in Seq(S) /\ Range(<<m>>) = {m}
BY DEF Range

\* The handler of a reply sends nothing.
LEMMA ReplyNone ==
    ASSUME TypeOK, InOrder(pipe, Compatible), pipe # <<>>, Reply(<<>>)
    PROVE  pipe' \in Seq(Commands) /\ Sent' = Later /\ InOrder(pipe', Compatible)
<1>1. <<>> \in Seq(Commands) /\ Range(<<>>) = {} /\ InOrder(<<>>, Compatible)
  BY DEF InOrder, Range
<1> QED
  BY <1>1, ReplyTypes, ReplyOrder

\* The handler of a reply sends one command.
LEMMA ReplyOne ==
    ASSUME TypeOK, InOrder(pipe, Compatible), pipe # <<>>, NEW n \in Commands, Reply(<<n>>),
           \A m \in Later : Fits(m, n)
    PROVE  pipe' \in Seq(Commands) /\ Sent' = Later \cup {n} /\ InOrder(pipe', Compatible)
<1>1. <<n>> \in Seq(Commands) /\ Range(<<n>>) = {n} /\ InOrder(<<n>>, Compatible)
  BY DEF InOrder, Range
<1> QED
  BY <1>1, ReplyTypes, ReplyOrder

-----------------------------------------------------------------------------
(* What each command says of a job.                                        *)

Silent(m, j) ==
    /\ ~Names(m, j) /\ ~Starts(m, j) /\ ~Overrides(m, j) /\ ~Ends(m, j) /\ ~Pushes(m, j) /\ ~Announces(m, j)
    /\ ~Cancels(m, j) /\ ~Aborts(m, j) /\ ~Confirms(m, j)

\* start names no job.
LEMMA StartSays ==
    ASSUME NEW j \in Jobs
    PROVE  Silent(StartCmd, j)
BY DEF Silent, StartCmd, Names, Starts, Overrides, Ends, Pushes, Announces, Cancels, Aborts, Confirms, GetCmd,
       SetCmd

\* push.lua is called for one job.
LEMMA PushSays ==
    ASSUME NEW i \in Jobs, NEW j \in Jobs
    PROVE  /\ i # j => Silent(PushCmd(i), j)
           /\ LET m == PushCmd(i) IN
              /\ ~Names(m, j) /\ ~Starts(m, j) /\ ~Overrides(m, j) /\ ~Ends(m, j) /\ ~Announces(m, j)
              /\ ~Cancels(m, j) /\ ~Aborts(m, j) /\ ~Confirms(m, j)
              /\ Pushes(m, j) <=> i = j
BY DEF Silent, PushCmd, Names, Starts, Overrides, Ends, Pushes, Announces, Cancels, Aborts, Confirms, GetCmd,
       SetCmd

\* The second step of a push: the job, and those it replaces.
LEMMA QueuedSays ==
    ASSUME NEW i \in Jobs, NEW a \in ShaOrNone, NEW c \in ShaOrNone, NEW j \in Jobs
    PROVE  LET m == QueuedCmd(i, a, c) IN
           /\ ~Names(m, j) /\ ~Starts(m, j) /\ ~Overrides(m, j) /\ ~Ends(m, j) /\ ~Pushes(m, j) /\ ~Confirms(m, j)
           /\ Announces(m, j) <=> i = j
           /\ Cancels(m, j) <=> i.canonical = j.canonical /\ c = j.sha
           /\ Aborts(m, j) <=> i.canonical = j.canonical /\ a = j.sha
BY DEF QueuedCmd, Names, Starts, Overrides, Ends, Pushes, Announces, Cancels, Aborts, Confirms, GetCmd,
       SetCmd

\* setState of the jobs js.
LEMMA SetSays ==
    ASSUME NEW js \in Seq(Jobs), NEW s \in States, NEW j \in Jobs
    PROVE  LET m == SetCmd(js, s) IN
           /\ ~Ends(m, j) /\ ~Pushes(m, j) /\ ~Announces(m, j)
           /\ Names(m, j) <=> j \in Range(js)
           /\ Starts(m, j) <=> j \in Range(js) /\ s = "starting"
           /\ Overrides(m, j) <=> j \in Range(js) /\ s \notin {"starting", "started"}
           /\ Cancels(m, j) <=> j \in Range(js) /\ s = "cancelled"
           /\ Aborts(m, j) <=> j \in Range(js) /\ s = "aborted"
           /\ Confirms(m, j) <=> js = <<j>> /\ s = "started"
BY DEF SetCmd, Names, Starts, Overrides, Ends, Pushes, Announces, Cancels, Aborts, Confirms, GetCmd

\* The first step of addState.
LEMMA GetSays ==
    ASSUME NEW i \in Jobs, NEW s \in Terminal \cup {"started"}, NEW j \in Jobs
    PROVE  LET m == GetCmd(i, s) IN
           /\ ~Names(m, j) /\ ~Starts(m, j) /\ ~Overrides(m, j) /\ ~Pushes(m, j) /\ ~Announces(m, j)
           /\ ~Cancels(m, j) /\ ~Aborts(m, j)
           /\ Ends(m, j) <=> i = j /\ s # "started"
           /\ Confirms(m, j) <=> i = j /\ s = "started"
BY DEF GetCmd, SetCmd, Names, Starts, Overrides, Ends, Pushes, Announces, Cancels, Aborts, Confirms, Terminal

\* The second step of addState.
LEMMA CompleteSays ==
    ASSUME NEW i \in Jobs, NEW s \in Terminal, NEW j \in Jobs
    PROVE  LET m == CompleteCmd(i, s) IN
           /\ ~Names(m, j) /\ ~Starts(m, j) /\ ~Overrides(m, j) /\ ~Pushes(m, j) /\ ~Announces(m, j)
           /\ ~Cancels(m, j) /\ ~Aborts(m, j) /\ ~Confirms(m, j)
           /\ Ends(m, j) <=> i = j
BY DEF CompleteCmd, GetCmd, SetCmd, Names, Starts, Overrides, Ends, Pushes, Announces, Cancels, Aborts,
       Confirms

-----------------------------------------------------------------------------
(* Every step preserves the invariant.                                     *)

\* The parts of the invariant of a job are expanded from here on.
USE DEF Always, OneToken, PushedOnce, FreshIsUntouched, WaitingIsUntouched, CancelledNotBegun,
        QueuedFirst, AbortedHoldsNot, HolderIsNotOverridden, ConfirmedRuns, UntilCrash,
        WorkedOnHolds, HolderHasOwner, HolderStatus, Begun, Cancelled, Aborted, Fresh, Live,
        Executing

\* What a step that leaves the scripts, Gerrit and the executor alone keeps.
LEMMA IdleTypes ==
    ASSUME IInv, UNCHANGED <<redis, executor, gerrit, crashes>>, pipe' \in Seq(Commands),
           timers' \in Seq(Calls), status' \in [Jobs -> States \cup {None}],
           arriving' \subseteq Jobs, rebasing' \subseteq Jobs, accepting' \subseteq Jobs,
           merging' \subseteq Jobs
    PROVE  TypeOK' /\ R!IInv' /\ OwnQueue'
<1>1. R!IInv'
  BY IdleKeepsQueue DEF IInv
<1>2. OwnQueue'
  BY DEF IInv, OwnQueue, redis
<1>3. TypeOK'
  BY <1>1 DEF IInv, TypeOK, R!IInv, E!TypeOK, executor, gerrit, Calls
<1> QED
  BY <1>1, <1>2, <1>3

\* addState, first step: an accepted end stays on the connection as complete.lua, a
\* refused one was not that of the holder, as long as nothing restarts.
LEMMA GetKeeps ==
    ASSUME IInv, DoGet
    PROVE  IInv'
<1> DEFINE h == Head(pipe)  i == h.job  s == h.state  valid == IsTransitionValid(status[i], s)
<1>1. TypeOK /\ WellFormed /\ InOrder(pipe, Compatible) /\ pipe # <<>> /\ h.op = "get"
  BY DEF IInv, DoGet, AtHead
<1>2. /\ h \in Commands /\ i \in Jobs /\ s \in Terminal \cup {"started"} /\ h = GetCmd(i, s)
      /\ Later \subseteq Commands /\ Sent = {h} \cup Later
      /\ \A m \in Later : Fits(h, m)
  BY <1>1, HeadOfPipe, CommandTypes
<1>h. ASSUME NEW j \in Jobs
      PROVE  /\ ~Names(h, j) /\ ~Starts(h, j) /\ ~Overrides(h, j) /\ ~Pushes(h, j)
             /\ ~Announces(h, j) /\ ~Cancels(h, j) /\ ~Aborts(h, j)
             /\ Ends(h, j) <=> i = j /\ s # "started"
             /\ Confirms(h, j) <=> i = j /\ s = "started"
  BY <1>2, GetSays
<1>3. /\ UNCHANGED <<redis, status, timers, flows, executor, gerrit, crashes>>
      /\ "started" \notin Terminal
  BY DEF DoGet, Untouched, Terminal
<1>4. ASSUME NEW n \in Commands, Reply(<<n>>), valid,
             \/ s = "started" /\ n = SetCmd(<<i>>, "started")
             \/ s \in Terminal /\ n = CompleteCmd(i, s)
      PROVE  IInv'
  <2>1. <<i>> \in Seq(Jobs) /\ Range(<<i>>) = {i} /\ "started" \in States
        /\ \A j : <<i>> = <<j>> <=> i = j
    BY <1>2 DEF Range, States, Transitions
  <2>2. ASSUME NEW j \in Jobs
        PROVE  /\ ~Starts(n, j) /\ ~Pushes(n, j) /\ ~Announces(n, j)
               /\ ~Cancels(n, j) /\ ~Aborts(n, j) /\ ~Overrides(n, j)
               /\ Names(n, j) <=> i = j /\ s = "started"
               /\ Ends(n, j) <=> i = j /\ s # "started"
               /\ Confirms(n, j) <=> i = j /\ s = "started"
    <3>1. CASE s = "started" /\ n = SetCmd(<<i>>, "started")
      BY <1>2, <2>1, <3>1, SetSays
    <3>2. CASE s \in Terminal /\ n = CompleteCmd(i, s)
      BY <1>2, <1>3, <3>2, CompleteSays
    <3> QED
      BY <1>4, <3>1, <3>2
  <2>3. \A m \in Later : Fits(m, n)
    BY <1>2, <2>2, GetSays DEF Fits
  <2>4. pipe' \in Seq(Commands) /\ Sent' = Later \cup {n} /\ InOrder(pipe', Compatible)
    BY <1>1, <1>4, <2>3, ReplyOne
  <2>5. TypeOK' /\ R!IInv' /\ OwnQueue'
    BY <1>1, <1>3, <2>4, IdleTypes DEF TypeOK, Calls, flows
  <2>6. WellFormed'
    BY <1>1, <1>2, <1>4, <2>1, <2>4 DEF WellFormed, SetCmd, CompleteCmd, GetCmd
  <2>7. ASSUME NEW j \in Jobs
        PROVE  /\ Starting(j)' <=> Starting(j)
               /\ Ending(j)' <=> Ending(j)
               /\ Pushing(j)' <=> Pushing(j)
               /\ Announcing(j)' <=> Announcing(j)
               /\ Setting(j)' <=> Setting(j) \/ (i = j /\ s = "started")
               /\ Overriding(j)' <=> Overriding(j)
               /\ Confirming(j)' <=> Confirming(j)
               /\ Cancelling(j)' <=> Cancelling(j)
               /\ Aborting(j)' <=> Aborting(j)
    BY <1>2, <1>h, <2>2, <2>4 DEF Starting, Ending, Pushing, Announcing, Setting, Overriding,
       Confirming, Cancelling, Aborting
  <2>8. ASSUME NEW j \in Jobs PROVE Always(j)'
    <3>1. Always(j)
      BY DEF IInv
    <3>2. Ending(i) \/ Confirming(i)
      BY <1>2, <1>h DEF Ending, Confirming
    <3> QED
      BY <1>3, <2>7, <3>1, <3>2 DEF Holds, Waiting, DueStart, DueAbort, Scheduled, redis, flows, executor,
         gerrit
  <2>9. ASSUME NEW j \in Jobs, crashes' = 0 PROVE UntilCrash(j)'
    <3>1. UntilCrash(j)
      BY <1>3, <2>9 DEF IInv
    <3>2. Refused(j)' => Refused(j)
      BY <1>2, <1>3, <1>4, <2>4 DEF Refused, SetCmd, CompleteCmd
    <3> QED
      BY <1>3, <2>7, <3>1, <3>2 DEF Holds, DueStart, DueAbort, Scheduled, redis, flows, executor
  <2> QED
    BY <1>3, <2>4, <2>5, <2>6, <2>8, <2>9 DEF IInv
<1>5. CASE ~valid
  <2>1. pipe' \in Seq(Commands) /\ Sent' = Later /\ InOrder(pipe', Compatible)
    BY <1>1, <1>5, ReplyNone DEF DoGet
  <2>2. TypeOK' /\ R!IInv' /\ OwnQueue'
    BY <1>1, <1>3, <2>1, IdleTypes DEF TypeOK, Calls, flows
  <2>3. WellFormed'
    BY <1>1, <1>2, <2>1 DEF WellFormed
  <2>4. ASSUME NEW j \in Jobs
        PROVE  /\ Starting(j)' <=> Starting(j)
               /\ Ending(j)' => Ending(j)
               /\ Ending(j) => Ending(j)' \/ (i = j /\ s # "started")
               /\ Pushing(j)' <=> Pushing(j)
               /\ Announcing(j)' <=> Announcing(j)
               /\ Setting(j)' <=> Setting(j)
               /\ Overriding(j)' <=> Overriding(j)
               /\ Confirming(j)' => Confirming(j)
               /\ Confirming(j) => Confirming(j)' \/ (i = j /\ s = "started")
               /\ Cancelling(j)' <=> Cancelling(j)
               /\ Aborting(j)' <=> Aborting(j)
    BY <1>2, <1>h, <2>1 DEF Starting, Ending, Pushing, Announcing, Setting, Overriding,
       Confirming, Cancelling, Aborting
  <2>5. ASSUME NEW j \in Jobs PROVE Always(j)'
    <3>1. Always(j)
      BY DEF IInv
    <3> QED
      BY <1>3, <2>4, <3>1 DEF Holds, Waiting, DueStart, DueAbort, Scheduled, redis, flows, executor,
         gerrit
  <2>6. ASSUME NEW j \in Jobs, crashes' = 0 PROVE UntilCrash(j)'
    <3>1. UntilCrash(j)
      BY <1>3, <2>6 DEF IInv
    <3>2. Refused(j)' => Refused(j)
      BY <1>2, <1>3, <2>1 DEF Refused
    <3>3. i = j /\ s # "started" => Refused(j)
      BY <1>1, <1>2, <1>5, <1>h DEF Refused
    <3>4. i = j /\ s = "started" => status[j] # "starting"
      BY <1>5 DEF IsTransitionValid, Transitions
    <3> QED
      BY <1>3, <2>4, <3>1, <3>2, <3>3, <3>4 DEF Holds, DueStart, DueAbort, Scheduled, redis, flows, executor
  <2> QED
    BY <1>3, <2>1, <2>2, <2>3, <2>5, <2>6 DEF IInv
<1>6. CASE valid /\ s \in Terminal
  BY <1>2, <1>4, <1>6, CommandShapes DEF DoGet
<1>7. CASE valid /\ s = "started"
  <2>1. <<i>> \in Seq(Jobs) /\ "started" \in States
    BY <1>2 DEF States, Transitions
  <2> QED
    BY <1>2, <1>3, <1>4, <1>7, <2>1, CommandShapes DEF DoGet
<1> QED
  BY <1>2, <1>5, <1>6, <1>7

\* Nothing was sent.
SameMessages(j) ==
    /\ Starting(j)' <=> Starting(j)
    /\ Ending(j)' <=> Ending(j)
    /\ Pushing(j)' <=> Pushing(j)
    /\ Announcing(j)' <=> Announcing(j)
    /\ Setting(j)' <=> Setting(j)
    /\ Overriding(j)' <=> Overriding(j)
    /\ Confirming(j)' <=> Confirming(j)
    /\ Cancelling(j)' <=> Cancelling(j)
    /\ Aborting(j)' <=> Aborting(j)

\* Nothing is sent: the connection says the same of every job.
LEMMA NothingSent ==
    ASSUME IInv, UNCHANGED pipe
    PROVE  /\ \A j \in Jobs : SameMessages(j)
           /\ pipe' \in Seq(Commands) /\ WellFormed' /\ InOrder(pipe', Compatible)
           /\ Sent' = Sent
<1>1. Sent' = Sent
  BY DEF Sent
<1>2. \A j \in Jobs : SameMessages(j)
  BY <1>1 DEF SameMessages, Starting, Ending, Pushing, Announcing, Setting, Overriding,
     Confirming, Cancelling, Aborting
<1> QED
  BY <1>1, <1>2 DEF IInv, TypeOK, WellFormed

\* A start is sent: it says nothing of a job.
LEMMA StartSent ==
    ASSUME IInv, Send(StartCmd)
    PROVE  /\ \A j \in Jobs : SameMessages(j)
           /\ pipe' \in Seq(Commands) /\ WellFormed' /\ InOrder(pipe', Compatible)
           /\ Sent' = Sent \cup {StartCmd}
<1>1. StartCmd \in Commands
  BY CommandShapes
<1>2. \A n \in Sent : Fits(n, StartCmd)
  BY StartSays DEF Fits, Silent
<1>3. pipe' \in Seq(Commands) /\ Sent' = Sent \cup {StartCmd} /\ InOrder(pipe', Compatible)
  BY <1>1, <1>2, SendTypes, SendOrder DEF IInv
<1>4. \A j \in Jobs : SameMessages(j)
  BY <1>3, StartSays DEF Silent, SameMessages, Starting, Ending, Pushing, Announcing, Setting,
     Overriding, Confirming, Cancelling, Aborting
<1>5. WellFormed'
  BY <1>3 DEF IInv, WellFormed, StartCmd
<1> QED
  BY <1>3, <1>4, <1>5

\* A job keeps its part of the invariant as long as nothing happens to it.
LEMMA JobKeeps ==
    ASSUME NEW j \in Jobs, Always(j), SameMessages(j),
           Holds(j)' <=> Holds(j), Waiting(j)' <=> Waiting(j),
           DueStart(j)' <=> DueStart(j), DueAbort(j)' <=> DueAbort(j),
           status'[j] = status[j], exec'[j] = exec[j],
           j \in rebasing' <=> j \in rebasing, j \in abortReq' <=> j \in abortReq,
           Fresh(j)' => Fresh(j), PushedOnce(j)'
    PROVE  /\ Always(j)'
           /\ UntilCrash(j) /\ (Refused(j)' => Refused(j)) => UntilCrash(j)'
<1>1. Always(j)'
  BY DEF SameMessages
<1>2. UntilCrash(j) /\ (Refused(j)' => Refused(j)) => UntilCrash(j)'
  BY DEF SameMessages
<1> QED
  BY <1>1, <1>2

\* A new patch set: it arrives, and was not known before.
LEMMA PatchSetMade ==
    ASSUME TypeOK, NEW c \in Canonicals, NEW b \in Nat, b <= tip[QueueOf[c]], NewPatchSet(c, b)
    PROVE  /\ rev' \in [Canonicals -> 0..MaxRev] /\ base' \in [Canonicals -> Nat]
           /\ \A d \in Canonicals : base'[d] <= tip'[QueueOf[d]]
           /\ UNCHANGED <<tip, merged>> /\ arriving' \subseteq Jobs
           /\ \A j \in Jobs :
                 /\ rev[j.canonical] <= rev'[j.canonical]
                 /\ j \in arriving => j \in arriving'
                 /\ j \in arriving' => \/ j \in arriving
                                       \/ j.sha > rev[j.canonical] /\ j.sha = rev'[j.canonical]
                 /\ j.sha > rev'[j.canonical] => j.sha > rev[j.canonical]
<1>1. /\ rev \in [Canonicals -> 0..MaxRev] /\ base \in [Canonicals -> Nat]
      /\ tip \in [Queues -> Nat] /\ arriving \subseteq Jobs
      /\ \A d \in Canonicals : base[d] <= tip[QueueOf[d]]
      /\ MaxRev \in Nat /\ QueueOf \in [Canonicals -> Queues]
  BY BuildSystemAssumption DEF TypeOK
<1>2. /\ rev[c] < MaxRev /\ rev' = [rev EXCEPT ![c] = @ + 1] /\ base' = [base EXCEPT ![c] = b]
      /\ arriving' = arriving \cup {Job(c, rev[c] + 1)} /\ UNCHANGED <<tip, merged>>
  BY DEF NewPatchSet
<1>3. rev[c] + 1 \in 1..MaxRev
  BY <1>1, <1>2
<1>4. /\ Job(c, rev[c] + 1) \in Jobs
      /\ Job(c, rev[c] + 1).canonical = c /\ Job(c, rev[c] + 1).sha = rev[c] + 1
  BY <1>3 DEF Jobs, Job
<1>5. rev' \in [Canonicals -> 0..MaxRev] /\ base' \in [Canonicals -> Nat]
  BY <1>1, <1>2, <1>3
<1>6. \A d \in Canonicals : base'[d] <= tip'[QueueOf[d]]
  BY <1>1, <1>2
<1>7. ASSUME NEW j \in Jobs
      PROVE  /\ rev[j.canonical] <= rev'[j.canonical]
             /\ j \in arriving => j \in arriving'
             /\ j \in arriving' => \/ j \in arriving
                                   \/ j.sha > rev[j.canonical] /\ j.sha = rev'[j.canonical]
             /\ j.sha > rev'[j.canonical] => j.sha > rev[j.canonical]
  <2>1. j.canonical \in Canonicals /\ j.sha \in 1..MaxRev
    BY DEF Jobs
  <2> QED
    BY <2>1, <1>1, <1>2, <1>4
<1> QED
  BY <1>1, <1>2, <1>4, <1>5, <1>6, <1>7

\* A user's upload only concerns a patch set of which nothing is known.
LEMMA UploadKeeps ==
    ASSUME IInv, NEW c \in Canonicals, Upload(c)
    PROVE  IInv'
<1>1. PICK b \in {tip[QueueOf[c]], tip[QueueOf[c]] - 1} \cap Nat : NewPatchSet(c, b)
  BY DEF Upload, RecentTips
<1>2. TypeOK /\ tip[QueueOf[c]] \in Nat
  BY BuildSystemAssumption DEF IInv, TypeOK
<1>3. b \in Nat /\ b <= tip[QueueOf[c]]
  BY <1>1, <1>2
<1>4. UNCHANGED <<redis, status, pipe, timers, rebasing, accepting, merging, executor, crashes>>
  BY DEF Upload
<1>5. R!IInv' /\ OwnQueue'
  BY <1>4, IdleKeepsQueue DEF IInv, OwnQueue, redis
<1>6. TypeOK'
  BY <1>1, <1>2, <1>3, <1>4, <1>5, PatchSetMade DEF TypeOK, R!IInv, E!TypeOK, executor
<1>7. ASSUME NEW j \in Jobs
      PROVE  /\ Always(j)'
             /\ UntilCrash(j) => UntilCrash(j)'
  <2>1. Always(j) /\ SameMessages(j)
    BY <1>4, NothingSent DEF IInv
  <2>2. /\ j.sha \in Nat /\ rev[j.canonical] \in Nat /\ rev'[j.canonical] \in Nat
        /\ rev[j.canonical] <= rev'[j.canonical]
        /\ j \in arriving' => \/ j \in arriving
                              \/ j.sha > rev[j.canonical] /\ j.sha = rev'[j.canonical]
        /\ j.sha > rev'[j.canonical] => j.sha > rev[j.canonical]
    <3>1. j.canonical \in Canonicals /\ j.sha \in Nat
      BY DEF Jobs
    <3>2. rev \in [Canonicals -> 0..MaxRev] /\ rev' \in [Canonicals -> 0..MaxRev]
      BY <1>2, <1>6 DEF TypeOK
    <3> QED
      BY <1>1, <1>2, <1>3, <3>1, <3>2, PatchSetMade
  <2>3. Fresh(j)' => Fresh(j)
    BY <2>1, <2>2 DEF SameMessages
  <2>4. PushedOnce(j)'
    BY <2>1, <2>2 DEF SameMessages
  <2>5. Refused(j)' => Refused(j)
    BY <1>4 DEF Refused, Sent
  <2> QED
    BY <1>4, <2>1, <2>3, <2>4, <2>5, JobKeeps DEF Holds, Waiting, DueStart, DueAbort, Scheduled, redis,
       executor
<1> QED
  BY <1>4, <1>5, <1>6, <1>7, NothingSent DEF IInv, InOrder

\* An update without a job drops the patch set.
LEMMA UpdateIgnoredKeeps ==
    ASSUME IInv, NEW i \in Jobs, OnUpdateIgnored(i)
    PROVE  IInv'
<1>1. /\ UNCHANGED <<redis, status, pipe, timers, rebasing, accepting, merging, executor, gerrit,
                     crashes>>
      /\ arriving' = arriving \ {i}
  BY DEF OnUpdateIgnored
<1>2. TypeOK' /\ R!IInv' /\ OwnQueue'
  BY <1>1, IdleTypes DEF IInv, TypeOK, Calls
<1>3. ASSUME NEW j \in Jobs
      PROVE  /\ Always(j)'
             /\ UntilCrash(j) => UntilCrash(j)'
  <2>1. Always(j) /\ SameMessages(j)
    BY <1>1, NothingSent DEF IInv
  <2>2. Refused(j)' => Refused(j)
    BY <1>1 DEF Refused, Sent
  <2>3. (Fresh(j)' => Fresh(j)) /\ PushedOnce(j)'
    BY <1>1, <2>1 DEF SameMessages, gerrit
  <2> QED
    BY <1>1, <2>1, <2>2, <2>3, JobKeeps DEF Holds, Waiting, DueStart, DueAbort, Scheduled, redis,
       executor
<1> QED
  BY <1>1, <1>2, <1>3, NothingSent DEF IInv, InOrder

\* An update with a job pushes the patch set, for the only time.
LEMMA UpdateKeeps ==
    ASSUME IInv, NEW i \in Jobs, OnUpdate(i)
    PROVE  IInv'
<1>1. /\ UNCHANGED <<redis, status, timers, rebasing, accepting, merging, executor, gerrit,
                     crashes>>
      /\ arriving' = arriving \ {i} /\ i \in arriving /\ Send(PushCmd(i))
  BY DEF OnUpdate, Send
<1>2. Always(i) /\ TypeOK /\ InOrder(pipe, Compatible) /\ PushCmd(i) \in Commands
  BY CommandShapes DEF IInv
<1>3. ASSUME NEW n \in Sent PROVE Fits(n, PushCmd(i))
  <2>1. ~Pushes(n, i)
    BY <1>1, <1>2, <1>3 DEF Pushing
  <2> QED
    BY <2>1, PushSays DEF Fits
<1>4. pipe' \in Seq(Commands) /\ Sent' = Sent \cup {PushCmd(i)} /\ InOrder(pipe', Compatible)
  BY <1>1, <1>2, <1>3, SendTypes, SendOrder
<1>5. TypeOK' /\ R!IInv' /\ OwnQueue'
  BY <1>1, <1>2, <1>4, IdleTypes DEF TypeOK, Calls
<1>6. WellFormed'
  BY <1>4 DEF IInv, WellFormed, PushCmd
<1>7. ASSUME NEW j \in Jobs
      PROVE  /\ Starting(j)' <=> Starting(j)
             /\ Ending(j)' <=> Ending(j)
             /\ Pushing(j)' <=> Pushing(j) \/ i = j
             /\ Announcing(j)' <=> Announcing(j)
             /\ Setting(j)' <=> Setting(j)
             /\ Overriding(j)' <=> Overriding(j)
             /\ Confirming(j)' <=> Confirming(j)
             /\ Cancelling(j)' <=> Cancelling(j)
             /\ Aborting(j)' <=> Aborting(j)
  BY <1>4, PushSays DEF Starting, Ending, Pushing, Announcing, Setting, Overriding, Confirming,
     Cancelling, Aborting
<1>8. ASSUME NEW j \in Jobs PROVE Always(j)'
  <2>1. Always(j)
    BY DEF IInv
  <2> QED
    BY <1>1, <1>7, <2>1 DEF Holds, Waiting, DueStart, DueAbort, Scheduled, redis, executor, gerrit
<1>9. ASSUME NEW j \in Jobs, crashes' = 0 PROVE UntilCrash(j)'
  <2>1. UntilCrash(j)
    BY <1>1, <1>9 DEF IInv
  <2>2. Refused(j)' => Refused(j)
    BY <1>1, <1>4 DEF Refused, PushCmd
  <2> QED
    BY <1>1, <1>7, <2>1, <2>2 DEF Holds, DueStart, DueAbort, Scheduled, redis, executor
<1> QED
  BY <1>1, <1>4, <1>5, <1>6, <1>8, <1>9 DEF IInv, InOrder

\* push.lua: the new patch set waits, the one that waited is to be cancelled and the
\* one that held the queue is to be aborted.  Neither can be started again.
LEMMA PushKeeps ==
    ASSUME IInv, DoPush
    PROVE  IInv'
<1> DEFINE h == Head(pipe)  i == h.job  c == i.canonical  q == Queue(i)
           a == R!Aborted(q, c)  o == R!Outdated(q, c)  n == QueuedCmd(i, a, o)
<1>1. TypeOK /\ WellFormed /\ InOrder(pipe, Compatible) /\ pipe # <<>> /\ h.op = "push"
  BY DEF IInv, DoPush, AtHead
<1>2. /\ h \in Commands /\ i \in Jobs /\ h = PushCmd(i)
      /\ Later \subseteq Commands /\ Sent = {h} \cup Later
      /\ \A m \in Later : Fits(h, m)
  BY <1>1, HeadOfPipe, CommandTypes
<1>3. /\ UNCHANGED <<now, status, timers, flows, executor, gerrit, crashes>>
      /\ R!Push(q, c, i.sha) /\ Reply(<<n>>)
  BY DEF DoPush, Untouched
<1>4. /\ c \in Canonicals /\ i.sha \in 1..MaxRev /\ q \in Queues /\ q = QueueOf[c]
      /\ i = [canonical |-> c, sha |-> i.sha]
  BY <1>2, BuildSystemAssumption DEF Jobs, Queue
<1>5. R!IInv'
  BY <1>3, <1>4, PushKeepsQueue DEF IInv
<1>6. /\ active \in [Queues -> Jobs \cup {None}]
      /\ last \in [Queues -> [Canonicals -> 1..MaxRev \cup {None}]]
  BY DEF IInv, R!IInv, R!TypeOK, R!Refs, Jobs
<1>7. /\ last' = [last EXCEPT ![q][c] = i.sha]
      /\ active' = IF active[q] # None /\ active[q].canonical = c
                   THEN [active EXCEPT ![q] = None] ELSE active
      /\ o = last[q][c]
      /\ a = IF active[q] # None /\ active[q].canonical = c THEN active[q].sha ELSE None
  BY <1>3 DEF R!Push, R!Replace, R!Release, R!Builds, R!Outdated, R!Aborted
<1>8. a \in ShaOrNone /\ o \in ShaOrNone /\ n \in Commands
  <2>1. o \in ShaOrNone
    BY <1>4, <1>6, <1>7 DEF ShaOrNone
  <2>2. a \in ShaOrNone
    BY <1>4, <1>6, <1>7 DEF ShaOrNone, Jobs
  <2> QED
    BY <1>2, <2>1, <2>2, CommandShapes
<1>9. pipe' \in Seq(Commands) /\ Sent' = Later \cup {n}
  BY <1>1, <1>3, <1>8, RangeOfSingle, ReplyTypes
<1>10. Always(i) /\ Pushing(i) /\ (\A m \in Later : ~Pushes(m, i))
  <2>1. Pushes(h, i)
    BY <1>2, PushSays
  <2> QED
    BY <1>2, <2>1 DEF IInv, Pushing, Fits
<1>11. i \notin arriving /\ ~Begun(i) /\ ~Setting(i) /\ ~Aborted(i) /\ ~Cancelled(i)
  BY <1>10
<1>12. InOrder(pipe', Compatible)
  <2>1. ASSUME NEW m \in Later PROVE Fits(m, n)
    <3>1. ~Starts(m, i) /\ ~Ends(m, i)
      BY <1>2, <1>11 DEF Starting, Ending
    <3> QED
      BY <1>2, <1>8, <3>1, QueuedSays DEF Fits
  <2> QED
    BY <1>1, <1>3, <1>8, <2>1, ReplyOne
\* The job whose build the push takes off the queue, and the one it replaces.
<1>13. ASSUME NEW j \in Jobs
       PROVE  /\ Holds(j)' <=> Holds(j) /\ ~(j.canonical = c /\ a = j.sha)
              /\ j.canonical = c /\ a = j.sha => Holds(j)
              /\ j.canonical = c /\ o = j.sha => Waiting(j)
              /\ Waiting(j)' <=> i = j \/ (Waiting(j) /\ j.canonical # c)
  <2>1. /\ j.canonical \in Canonicals /\ j.sha \in 1..MaxRev
        /\ j = [canonical |-> j.canonical, sha |-> j.sha]
        /\ Queue(j) = QueueOf[j.canonical] /\ Queue(j) \in Queues
        /\ j # None /\ j.sha # None
    BY BuildSystemAssumption DEF Jobs, Queue
  <2>2. Waiting(j)' <=> i = j \/ (Waiting(j) /\ j.canonical # c)
    BY <1>4, <1>6, <1>7, <2>1 DEF Waiting
  <2>3. j.canonical = c /\ o = j.sha => Waiting(j)
    BY <1>4, <1>7, <2>1 DEF Waiting
  <2>4. j.canonical = c /\ a = j.sha => Holds(j)
    <3> SUFFICES ASSUME j.canonical = c, a = j.sha PROVE active[q] = j
      BY <1>4, <2>1 DEF Holds
    <3>1. active[q] # None /\ active[q].canonical = c /\ active[q].sha = j.sha
      BY <1>7, <2>1
    <3>2. active[q] \in Jobs
      BY <1>4, <1>6, <3>1
    <3> QED
      BY <2>1, <3>1, <3>2 DEF Jobs
  <2>5. Holds(j)' <=> Holds(j) /\ ~(j.canonical = c /\ a = j.sha)
    <3>1. CASE active[q] # None /\ active[q].canonical = c
      BY <1>4, <1>6, <1>7, <2>1, <2>4, <3>1 DEF Holds
    <3>2. CASE ~(active[q] # None /\ active[q].canonical = c)
      BY <1>4, <1>6, <1>7, <2>1, <2>4, <3>2 DEF Holds
    <3> QED
      BY <3>1, <3>2
  <2> QED
    BY <2>2, <2>3, <2>4, <2>5
<1>14. TypeOK' /\ OwnQueue'
  <2>1. TypeOK'
    BY <1>1, <1>3, <1>5, <1>9 DEF TypeOK, R!IInv, E!TypeOK, flows, executor, gerrit
  <2>2. OwnQueue'
    BY <1>4, <1>6, <1>7 DEF IInv, OwnQueue
  <2> QED
    BY <2>1, <2>2
<1>15. WellFormed'
  BY <1>1, <1>2, <1>9 DEF WellFormed, QueuedCmd
<1>16. ASSUME NEW j \in Jobs
       PROVE  /\ Starting(j)' <=> Starting(j)
              /\ Ending(j)' <=> Ending(j)
              /\ Pushing(j)' <=> Pushing(j) /\ i # j
              /\ Announcing(j)' <=> Announcing(j) \/ i = j
              /\ Setting(j)' <=> Setting(j)
              /\ Overriding(j)' <=> Overriding(j)
              /\ Confirming(j)' <=> Confirming(j)
              /\ Cancelling(j)' <=> Cancelling(j) \/ (j.canonical = c /\ o = j.sha)
              /\ Aborting(j)' <=> Aborting(j) \/ (j.canonical = c /\ a = j.sha)
  <2>1. /\ ~Names(n, j) /\ ~Starts(n, j) /\ ~Overrides(n, j) /\ ~Ends(n, j) /\ ~Pushes(n, j)
        /\ ~Confirms(n, j)
        /\ Announces(n, j) <=> i = j
        /\ Cancels(n, j) <=> j.canonical = c /\ o = j.sha
        /\ Aborts(n, j) <=> j.canonical = c /\ a = j.sha
    BY <1>2, <1>8, QueuedSays
  <2>2. /\ ~Names(h, j) /\ ~Starts(h, j) /\ ~Overrides(h, j) /\ ~Ends(h, j)
        /\ ~Announces(h, j) /\ ~Cancels(h, j) /\ ~Aborts(h, j) /\ ~Confirms(h, j)
        /\ Pushes(h, j) <=> i = j
    BY <1>2, PushSays
  <2> QED
    BY <1>2, <1>9, <1>10, <2>1, <2>2 DEF Starting, Ending, Pushing, Announcing, Setting,
       Overriding, Confirming, Cancelling, Aborting
<1>17. ASSUME NEW j \in Jobs PROVE Always(j)'
  <2>1. Always(j)
    BY DEF IInv
  <2>2. /\ DueStart(j)' <=> DueStart(j)
        /\ DueAbort(j)' <=> DueAbort(j)
        /\ UNCHANGED <<status, arriving, rebasing, exec, abortReq, rev>>
    BY <1>3 DEF DueStart, DueAbort, Scheduled, flows, executor, gerrit
  <2>3. CASE i = j
    <3>1. ~Waiting(i) /\ Fresh(i)
      BY <1>10
    <3>2. i.sha <= rev[c] /\ rev[c] \in Nat /\ i.sha \in Nat
      BY <1>1, <1>4, <1>10 DEF TypeOK
    <3>3. ~(i.sha > rev[c])
      BY <3>2
    <3> QED
      BY <1>11, <1>13, <1>16, <2>1, <2>2, <2>3, <3>1, <3>3
  <2>4. CASE i # j
    BY <1>13, <1>16, <2>1, <2>2, <2>4
  <2> QED
    BY <2>3, <2>4
<1>18. ASSUME NEW j \in Jobs, crashes' = 0 PROVE UntilCrash(j)'
  <2>1. UntilCrash(j)
    BY <1>3, <1>18 DEF IInv
  <2>2. Refused(j)' => Refused(j)
    BY <1>2, <1>3, <1>9 DEF Refused, QueuedCmd
  <2> QED
    BY <1>3, <1>13, <1>16, <2>1, <2>2 DEF DueStart, DueAbort, Scheduled, flows, executor
<1> QED
  BY <1>3, <1>5, <1>9, <1>12, <1>14, <1>15, <1>17, <1>18 DEF IInv

\* What the second step of a push sends says that the replaced jobs are set.
LEMMA ReplacedReply ==
    ASSUME NEW c \in Canonicals, NEW s \in ShaOrNone, NEW st \in {"aborted", "cancelled"}
    PROVE  /\ SetReplaced(c, s, st) \in Seq(Commands)
           /\ \A n \in Range(SetReplaced(c, s, st)) :
                 /\ n.op = "set" /\ n.state = st /\ \E j \in Jobs : n.jobs = <<j>>
                 /\ \A j \in Jobs :
                      /\ ~Starts(n, j) /\ ~Ends(n, j) /\ ~Pushes(n, j) /\ ~Announces(n, j)
                      /\ ~Confirms(n, j)
                      /\ Names(n, j) <=> j.canonical = c /\ s = j.sha
                      /\ Overrides(n, j) <=> j.canonical = c /\ s = j.sha
                      /\ Cancels(n, j) <=> j.canonical = c /\ s = j.sha /\ st = "cancelled"
                      /\ Aborts(n, j) <=> j.canonical = c /\ s = j.sha /\ st = "aborted"
           /\ s \in 1..MaxRev => \E n \in Commands : n \in Range(SetReplaced(c, s, st))
<1>1. CASE s = None
  <2>1. SetReplaced(c, s, st) = <<>> /\ <<>> \in Seq(Commands) /\ Range(<<>>) = {}
    BY <1>1 DEF SetReplaced, Range
  <2> QED
    BY <1>1, <2>1, BuildSystemAssumption
<1>2. CASE s # None
  <2> DEFINE i == Job(c, s)  n == SetCmd(<<i>>, st)
  <2>1. i \in Jobs /\ i.canonical = c /\ i.sha = s /\ s \in 1..MaxRev
    BY <1>2 DEF ShaOrNone, Job, Jobs
  <2>2. /\ <<i>> \in Seq(Jobs) /\ Range(<<i>>) = {i} /\ st \in States
        /\ st \notin {"starting", "started"}
    BY <2>1, RangeOfSingle DEF States, Terminal
  <2>3. n \in Commands
    BY <2>2, CommandShapes
  <2>4. SetReplaced(c, s, st) = <<n>> /\ <<n>> \in Seq(Commands) /\ Range(<<n>>) = {n}
    BY <1>2, <2>3, RangeOfSingle DEF SetReplaced
  <2>5. n.op = "set" /\ n.state = st /\ n.jobs = <<i>>
    BY DEF SetCmd
  <2>6. ASSUME NEW j \in Jobs
        PROVE  /\ ~Starts(n, j) /\ ~Ends(n, j) /\ ~Pushes(n, j) /\ ~Announces(n, j)
               /\ ~Confirms(n, j)
               /\ Names(n, j) <=> j.canonical = c /\ s = j.sha
               /\ Overrides(n, j) <=> j.canonical = c /\ s = j.sha
               /\ Cancels(n, j) <=> j.canonical = c /\ s = j.sha /\ st = "cancelled"
               /\ Aborts(n, j) <=> j.canonical = c /\ s = j.sha /\ st = "aborted"
    <3>1. j = i <=> j.canonical = c /\ s = j.sha
      BY <2>1 DEF Jobs, Job
    <3> QED
      BY <2>2, <3>1, SetSays
  <2> QED
    BY <2>1, <2>3, <2>4, <2>5, <2>6
<1> QED
  BY <1>1, <1>2

\* QUEUED is set for the job, and the replaced ones are told.
LEMMA QueuedKeeps ==
    ASSUME IInv, DoQueued
    PROVE  IInv'
<1> DEFINE h == Head(pipe)  i == h.job  c == i.canonical  a == h.abort  o == h.cancel
           fa == SetReplaced(c, a, "aborted")  fo == SetReplaced(c, o, "cancelled")
           f == fa \o fo
<1>1. TypeOK /\ WellFormed /\ InOrder(pipe, Compatible) /\ pipe # <<>> /\ h.op = "queued"
  BY DEF IInv, DoQueued, AtHead
<1>2. /\ h \in Commands /\ i \in Jobs /\ a \in ShaOrNone /\ o \in ShaOrNone
      /\ h = QueuedCmd(i, a, o)
      /\ Later \subseteq Commands /\ Sent = {h} \cup Later
      /\ \A m \in Later : Fits(h, m)
  BY <1>1, HeadOfPipe, CommandTypes
<1>3. /\ UNCHANGED <<redis, flows, executor, gerrit, crashes>>
      /\ SetState(<<i>>, "queued") /\ Reply(f)
  BY DEF DoQueued, Untouched
<1>4. c \in Canonicals /\ <<i>> \in Seq(Jobs) /\ Range(<<i>>) = {i} /\ "queued" \in States
  BY <1>2, RangeOfSingle DEF Jobs, States, Transitions
<1>5. /\ timers' \in Seq(Calls) /\ status' \in [Jobs -> States \cup {None}]
      /\ Scheduled' = Scheduled \cup {[job |-> i, state |-> "queued"]}
      /\ \A j \in Jobs : status'[j] = IF j = i THEN "queued" ELSE status[j]
      /\ InOrder(timers', Distinct)
  <2>1. InOrder(timers', Distinct)
    BY <1>1, <1>3, <1>4, SetStateOrder DEF IInv
  <2>2. /\ timers' \in Seq(Calls) /\ status' \in [Jobs -> States \cup {None}]
        /\ Scheduled' = Scheduled \cup {[job |-> j, state |-> "queued"] : j \in Range(<<i>>)}
        /\ \A j \in Jobs : status'[j] = IF j \in Range(<<i>>) THEN "queued" ELSE status[j]
    BY <1>1, <1>3, <1>4, SetStateTypes
  <2> QED
    BY <1>4, <2>1, <2>2
<1>6. /\ fa \in Seq(Commands) /\ fo \in Seq(Commands) /\ f \in Seq(Commands)
      /\ Range(f) = Range(fa) \cup Range(fo)
  BY <1>2, <1>4, ReplacedReply, RangeOfConcat
<1>7. ASSUME NEW m \in Commands, NEW n \in Range(f) PROVE Fits(m, n)
  BY <1>2, <1>4, <1>6, ReplacedReply DEF Fits
<1>8. InOrder(f, Compatible)
  <2>1. \A x, y \in Range(f) : <<x, y>> \in Compatible
    BY <1>6, <1>7, RangeInSet, FitsIsCompatible
  <2> QED
    BY <2>1 DEF InOrder, Range
<1>9. pipe' \in Seq(Commands) /\ Sent' = Later \cup Range(f) /\ InOrder(pipe', Compatible)
  BY <1>1, <1>2, <1>3, <1>6, <1>7, <1>8, ReplyTypes, ReplyOrder
<1>10. TypeOK' /\ R!IInv' /\ OwnQueue'
  BY <1>1, <1>3, <1>5, <1>9, IdleTypes DEF TypeOK, flows
<1>11. WellFormed'
  BY <1>1, <1>2, <1>4, <1>6, <1>9, ReplacedReply DEF WellFormed
<1>12. ASSUME NEW j \in Jobs
       PROVE  /\ Starting(j)' <=> Starting(j)
              /\ Ending(j)' <=> Ending(j)
              /\ Pushing(j)' <=> Pushing(j)
              /\ Announcing(j)' => Announcing(j)
              /\ Announcing(j) => Announcing(j)' \/ i = j
              /\ Setting(j)' <=> Setting(j) \/ (j.canonical = c /\ (a = j.sha \/ o = j.sha))
              /\ Overriding(j)' => Overriding(j) \/ (j.canonical = c /\ (a = j.sha \/ o = j.sha))
              /\ Confirming(j)' <=> Confirming(j)
              /\ Cancelling(j)' <=> Cancelling(j)
              /\ Aborting(j)' <=> Aborting(j)
              /\ j.canonical = c /\ o = j.sha => Cancelling(j)
              /\ j.canonical = c /\ a = j.sha => Aborting(j)
  <2>1. \A n \in Range(f) :
          /\ ~Starts(n, j) /\ ~Ends(n, j) /\ ~Pushes(n, j) /\ ~Announces(n, j) /\ ~Confirms(n, j)
          /\ Names(n, j) => j.canonical = c /\ (a = j.sha \/ o = j.sha)
          /\ Overrides(n, j) => j.canonical = c /\ (a = j.sha \/ o = j.sha)
          /\ Cancels(n, j) => j.canonical = c /\ o = j.sha
          /\ Aborts(n, j) => j.canonical = c /\ a = j.sha
    BY <1>2, <1>4, <1>6, ReplacedReply
  <2>2. j.canonical = c /\ a = j.sha => \E n \in Range(f) : Names(n, j) /\ Aborts(n, j)
    <3>1. j.sha \in 1..MaxRev
      BY DEF Jobs
    <3>2. a = j.sha => \E n \in Commands : n \in Range(fa)
      BY <1>2, <1>4, <3>1, ReplacedReply
    <3>3. \A n \in Range(fa) : /\ Names(n, j) <=> j.canonical = c /\ a = j.sha
                              /\ Aborts(n, j) <=> j.canonical = c /\ a = j.sha
      BY <1>2, <1>4, ReplacedReply
    <3> QED
      BY <1>6, <3>2, <3>3
  <2>3. j.canonical = c /\ o = j.sha => \E n \in Range(f) : Names(n, j) /\ Cancels(n, j)
    <3>1. j.sha \in 1..MaxRev
      BY DEF Jobs
    <3>2. o = j.sha => \E n \in Commands : n \in Range(fo)
      BY <1>2, <1>4, <3>1, ReplacedReply
    <3>3. \A n \in Range(fo) : /\ Names(n, j) <=> j.canonical = c /\ o = j.sha
                              /\ Cancels(n, j) <=> j.canonical = c /\ o = j.sha
      BY <1>2, <1>4, ReplacedReply
    <3> QED
      BY <1>6, <3>2, <3>3
  <2>4. /\ ~Names(h, j) /\ ~Starts(h, j) /\ ~Overrides(h, j) /\ ~Ends(h, j) /\ ~Pushes(h, j)
        /\ ~Confirms(h, j)
        /\ Announces(h, j) <=> i = j
        /\ Cancels(h, j) <=> j.canonical = c /\ o = j.sha
        /\ Aborts(h, j) <=> j.canonical = c /\ a = j.sha
    BY <1>2, QueuedSays
  <2> QED
    BY <1>2, <1>9, <2>1, <2>2, <2>3, <2>4 DEF Starting, Ending, Pushing, Announcing, Setting,
       Overriding, Confirming, Cancelling, Aborting
<1>13. ASSUME NEW j \in Jobs PROVE Always(j)'
  <2>1. Always(j) /\ Always(i) /\ Announcing(i)
    BY <1>2, QueuedSays DEF IInv, Announcing
  <2>2. /\ DueStart(j)' <=> DueStart(j)
        /\ DueAbort(j)' <=> DueAbort(j)
        /\ Holds(j)' <=> Holds(j)
        /\ Waiting(j)' <=> Waiting(j)
        /\ UNCHANGED <<arriving, rebasing, exec, abortReq, rev>>
    BY <1>3, <1>5 DEF DueStart, DueAbort, Holds, Waiting, redis, flows, executor, gerrit
  <2> QED
    BY <1>5, <1>12, <2>1, <2>2
<1>14. ASSUME NEW j \in Jobs, crashes' = 0 PROVE UntilCrash(j)'
  <2>1. UntilCrash(j) /\ Always(i) /\ Announcing(i)
    BY <1>2, <1>3, <1>14, QueuedSays DEF IInv, Announcing
  <2>2. /\ DueStart(j)' <=> DueStart(j)
        /\ DueAbort(j)' <=> DueAbort(j)
        /\ Holds(j)' <=> Holds(j)
        /\ UNCHANGED <<rebasing, exec, abortReq>>
    BY <1>3, <1>5 DEF DueStart, DueAbort, Holds, redis, flows, executor
  <2>3. Refused(j)' => Refused(j)
    <3>1. ~Ending(i)
      BY <2>1
    <3>2. \A n \in Range(f) : n.op # "get"
      BY <1>2, <1>4, <1>6, ReplacedReply
    <3>3. ASSUME NEW m \in Later, Ends(m, j) PROVE status'[j] = status[j]
      BY <1>2, <1>5, <3>1, <3>3 DEF Ending
    <3> QED
      BY <1>2, <1>9, <3>2, <3>3 DEF Refused
  <2> QED
    BY <1>5, <1>12, <2>1, <2>2, <2>3
<1> QED
  BY <1>3, <1>5, <1>9, <1>10, <1>11, <1>13, <1>14 DEF IInv

\* complete.lua releases the queue for the job that holds it; its state follows.
LEMMA CompleteKeeps ==
    ASSUME IInv, DoComplete
    PROVE  IInv'
<1> DEFINE h == Head(pipe)  i == h.job  s == h.state  n == SetCmd(<<i>>, s)
<1>1. TypeOK /\ WellFormed /\ InOrder(pipe, Compatible) /\ pipe # <<>> /\ h.op = "complete"
  BY DEF IInv, DoComplete, AtHead
<1>2. /\ h \in Commands /\ i \in Jobs /\ s \in Terminal /\ h = CompleteCmd(i, s)
      /\ Later \subseteq Commands /\ Sent = {h} \cup Later
      /\ \A m \in Later : Fits(h, m)
  BY <1>1, HeadOfPipe, CommandTypes
<1>3. /\ UNCHANGED <<now, status, timers, flows, executor, gerrit, crashes>>
      /\ R!Complete(Queue(i), i) /\ Reply(<<n>>)
  BY DEF DoComplete, Untouched
<1>4. /\ <<i>> \in Seq(Jobs) /\ Range(<<i>>) = {i} /\ Queue(i) \in Queues
      /\ s \in States /\ s # "cancelled" /\ s # "starting" /\ s # "started"
  BY <1>1, <1>2, RangeOfSingle, BuildSystemAssumption DEF Queue, Jobs, States, Terminal, WellFormed
<1>5. R!IInv'
  BY <1>2, <1>3, <1>4, CompleteKeepsQueue DEF IInv
<1>6. /\ last' = last
      /\ active' = IF active[Queue(i)] = i THEN [active EXCEPT ![Queue(i)] = None] ELSE active
      /\ active \in [Queues -> Jobs \cup {None}]
  BY <1>3 DEF R!Complete, R!Release, R!redisVars, IInv, R!IInv, R!TypeOK, R!Refs, Jobs
<1>7. n \in Commands
  BY <1>4, CommandShapes
<1>8. ASSUME NEW j \in Jobs
      PROVE  /\ ~Ends(n, j) /\ ~Pushes(n, j) /\ ~Announces(n, j) /\ ~Starts(n, j)
             /\ ~Cancels(n, j) /\ ~Confirms(n, j)
             /\ Names(n, j) <=> i = j
             /\ Overrides(n, j) <=> i = j
             /\ Aborts(n, j) <=> i = j /\ s = "aborted"
  <2>1. j \in Range(<<i>>) <=> i = j
    BY <1>4
  <2>2. /\ ~Ends(n, j) /\ ~Pushes(n, j) /\ ~Announces(n, j)
        /\ Names(n, j) <=> j \in Range(<<i>>)
        /\ Starts(n, j) <=> j \in Range(<<i>>) /\ s = "starting"
        /\ Overrides(n, j) <=> j \in Range(<<i>>) /\ s \notin {"starting", "started"}
        /\ Cancels(n, j) <=> j \in Range(<<i>>) /\ s = "cancelled"
        /\ Aborts(n, j) <=> j \in Range(<<i>>) /\ s = "aborted"
        /\ Confirms(n, j) <=> <<i>> = <<j>> /\ s = "started"
    BY <1>4, SetSays
  <2> QED
    BY <1>4, <2>1, <2>2
<1>9. \A m \in Later : Fits(m, n)
  BY <1>8 DEF Fits
<1>10. pipe' \in Seq(Commands) /\ Sent' = Later \cup {n} /\ InOrder(pipe', Compatible)
  BY <1>1, <1>3, <1>7, <1>9, ReplyOne
<1>11. TypeOK' /\ OwnQueue'
  <2>1. TypeOK'
    BY <1>1, <1>3, <1>5, <1>10 DEF TypeOK, R!IInv, E!TypeOK, flows, executor, gerrit
  <2>2. OwnQueue'
    BY <1>6 DEF IInv, OwnQueue
  <2> QED
    BY <2>1, <2>2
<1>12. WellFormed'
  <2>1. n.op = "set" /\ n.jobs = <<i>> /\ \A k, l \in DOMAIN <<i>> : <<i>>[k] = <<i>>[l] => k = l
    BY DEF SetCmd
  <2> QED
    BY <1>1, <1>2, <1>10, <2>1 DEF WellFormed
<1>13. ASSUME NEW j \in Jobs
       PROVE  /\ Holds(j)' <=> Holds(j) /\ i # j
              /\ Waiting(j)' <=> Waiting(j)
  <2>1. Queue(j) \in Queues /\ j # None
    BY BuildSystemAssumption DEF Jobs, Queue
  <2> QED
    BY <1>4, <1>6, <2>1 DEF Holds, Waiting
<1>14. ASSUME NEW j \in Jobs
       PROVE  /\ Starting(j)' <=> Starting(j)
              /\ Ending(j)' <=> Ending(j) /\ i # j
              /\ Pushing(j)' <=> Pushing(j)
              /\ Announcing(j)' <=> Announcing(j)
              /\ Setting(j)' <=> Setting(j) \/ i = j
              /\ Overriding(j)' <=> Overriding(j) \/ i = j
              /\ Confirming(j)' <=> Confirming(j)
              /\ Cancelling(j)' <=> Cancelling(j)
              /\ Aborting(j)' <=> Aborting(j) \/ (i = j /\ s = "aborted")
  <2>1. /\ ~Names(h, j) /\ ~Starts(h, j) /\ ~Overrides(h, j) /\ ~Pushes(h, j)
        /\ ~Announces(h, j) /\ ~Cancels(h, j) /\ ~Aborts(h, j) /\ ~Confirms(h, j)
        /\ Ends(h, j) <=> i = j
    BY <1>2, CompleteSays
  <2>2. i = j => \A m \in Later : ~Ends(m, j)
    BY <1>2, <2>1 DEF Fits
  <2> QED
    BY <1>2, <1>8, <1>10, <2>1, <2>2 DEF Starting, Ending, Pushing, Announcing, Setting,
       Overriding, Confirming, Cancelling, Aborting
<1>15. Ending(i) /\ ~Starting(i)
  <2>1. Ends(h, i) /\ ~Starts(h, i)
    BY <1>2, CompleteSays
  <2> QED
    BY <1>2, <2>1 DEF Ending, Starting, Fits
<1>16. ASSUME NEW j \in Jobs
       PROVE  /\ DueStart(j)' <=> DueStart(j)
              /\ DueAbort(j)' <=> DueAbort(j)
              /\ UNCHANGED <<status, arriving, rebasing, exec, abortReq, rev>>
  BY <1>3 DEF DueStart, DueAbort, Scheduled, flows, executor, gerrit
<1>17. ASSUME NEW j \in Jobs PROVE Always(j)'
  <2>1. Always(j)
    BY DEF IInv
  <2> QED
    BY <1>13, <1>14, <1>15, <1>16, <2>1
<1>18. ASSUME NEW j \in Jobs, crashes' = 0 PROVE UntilCrash(j)'
  <2>1. UntilCrash(j) /\ Always(j)
    BY <1>3, <1>18 DEF IInv
  <2>2. Refused(j)' => Refused(j)
    BY <1>2, <1>3, <1>10 DEF Refused, SetCmd
  <2> QED
    BY <1>13, <1>14, <1>15, <1>16, <2>1, <2>2
<1> QED
  BY <1>3, <1>5, <1>10, <1>11, <1>12, <1>17, <1>18 DEF IInv

\* setState: STARTING is set for jobs that are due to start next, and no other state
\* overrides that of the job that holds the queue.
LEMMA SetKeeps ==
    ASSUME IInv, DoSet
    PROVE  IInv'
<1> DEFINE h == Head(pipe)  js == h.jobs  s == h.state
<1>1. TypeOK /\ WellFormed /\ InOrder(pipe, Compatible) /\ pipe # <<>> /\ h.op = "set"
  BY DEF IInv, DoSet, AtHead
<1>2. /\ h \in Commands /\ js \in Seq(Jobs) /\ s \in States /\ h = SetCmd(js, s)
      /\ Later \subseteq Commands /\ Sent = {h} \cup Later
      /\ \A m \in Later : Fits(h, m)
  BY <1>1, HeadOfPipe, CommandTypes
<1>3. /\ UNCHANGED <<redis, flows, executor, gerrit, crashes>>
      /\ SetState(js, s) /\ Reply(<<>>)
  BY DEF DoSet, Untouched
<1>4. /\ \A k, l \in DOMAIN js : js[k] = js[l] => k = l
      /\ s # "starting" => \E j \in Jobs : js = <<j>>
      /\ Range(js) \subseteq Jobs
  BY <1>1, <1>2, RangeInSet DEF WellFormed
<1>5. ASSUME NEW j \in Jobs
      PROVE  /\ ~Ends(h, j) /\ ~Pushes(h, j) /\ ~Announces(h, j)
             /\ Names(h, j) <=> j \in Range(js)
             /\ Starts(h, j) <=> j \in Range(js) /\ s = "starting"
             /\ Overrides(h, j) <=> j \in Range(js) /\ s \notin {"starting", "started"}
             /\ Cancels(h, j) <=> j \in Range(js) /\ s = "cancelled"
             /\ Aborts(h, j) <=> j \in Range(js) /\ s = "aborted"
             /\ Confirms(h, j) <=> j \in Range(js) /\ s = "started"
  <2>1. s = "started" => (js = <<j>> <=> j \in Range(js))
    BY <1>4, RangeOfSingle
  <2>2. /\ ~Ends(h, j) /\ ~Pushes(h, j) /\ ~Announces(h, j)
        /\ Names(h, j) <=> j \in Range(js)
        /\ Starts(h, j) <=> j \in Range(js) /\ s = "starting"
        /\ Overrides(h, j) <=> j \in Range(js) /\ s \notin {"starting", "started"}
        /\ Cancels(h, j) <=> j \in Range(js) /\ s = "cancelled"
        /\ Aborts(h, j) <=> j \in Range(js) /\ s = "aborted"
    BY <1>1 DEF Ends, Pushes, Announces, Starts, Overrides, Cancels, Aborts, Names
  <2>3. Confirms(h, j) <=> js = <<j>> /\ s = "started"
    <3>1. h # GetCmd(j, "started")
      BY <1>1 DEF GetCmd
    <3>2. h = SetCmd(<<j>>, "started") => js = <<j>> /\ s = "started"
      BY DEF SetCmd
    <3>3. js = <<j>> /\ s = "started" => h = SetCmd(<<j>>, "started")
      BY <1>2
    <3> QED
      BY <3>1, <3>2, <3>3 DEF Confirms
  <2> QED
    BY <2>1, <2>2, <2>3
<1>6. /\ timers' \in Seq(Calls) /\ status' \in [Jobs -> States \cup {None}]
      /\ Scheduled' = Scheduled \cup {[job |-> j, state |-> s] : j \in Range(js)}
      /\ \A j \in Jobs : status'[j] = IF j \in Range(js) THEN s ELSE status[j]
  BY <1>1, <1>2, <1>3, SetStateTypes
<1>7. InOrder(timers', Distinct)
  <2>1. s = "starting" => \A j \in Range(js) : ~DueStart(j)
    <3> SUFFICES ASSUME s = "starting", NEW j \in Range(js) PROVE ~DueStart(j)
      OBVIOUS
    <3>1. j \in Jobs /\ Starting(j)
      BY <1>2, <1>4, <1>5 DEF Starting
    <3> QED
      BY <3>1 DEF IInv
  <2> QED
    BY <1>1, <1>2, <1>3, <1>4, <2>1, SetStateOrder DEF IInv
<1>8. pipe' \in Seq(Commands) /\ Sent' = Later /\ InOrder(pipe', Compatible)
  BY <1>1, <1>3, ReplyNone
<1>9. TypeOK' /\ R!IInv' /\ OwnQueue'
  BY <1>1, <1>3, <1>6, <1>8, IdleTypes DEF TypeOK, flows
<1>10. WellFormed'
  BY <1>1, <1>2, <1>8 DEF WellFormed
<1>11. ASSUME NEW j \in Jobs
       PROVE  /\ Starting(j) <=> Starting(j)' \/ (j \in Range(js) /\ s = "starting")
              /\ j \in Range(js) /\ s = "starting" => ~Starting(j)' /\ ~Ending(j) /\ ~Announcing(j)
              /\ Ending(j)' <=> Ending(j)
              /\ Pushing(j)' <=> Pushing(j)
              /\ Announcing(j)' <=> Announcing(j)
              /\ Setting(j) <=> Setting(j)' \/ j \in Range(js)
              /\ Overriding(j) <=> \/ Overriding(j)'
                                   \/ j \in Range(js) /\ s \notin {"starting", "started"}
              /\ Confirming(j) <=> Confirming(j)' \/ (j \in Range(js) /\ s = "started")
              /\ Cancelling(j) <=> Cancelling(j)' \/ (j \in Range(js) /\ s = "cancelled")
              /\ Aborting(j) <=> Aborting(j)' \/ (j \in Range(js) /\ s = "aborted")
  <2>1. j \in Range(js) /\ s = "starting" => \A m \in Later : ~Starts(m, j) /\ ~Ends(m, j) /\ ~Announces(m, j)
    BY <1>2, <1>5 DEF Fits
  <2> QED
    BY <1>2, <1>5, <1>8, <2>1 DEF Starting, Ending, Pushing, Announcing, Setting, Overriding,
       Confirming, Cancelling, Aborting
<1>12. ASSUME NEW j \in Jobs
       PROVE  /\ DueStart(j)' <=> DueStart(j) \/ (j \in Range(js) /\ s = "starting")
              /\ DueAbort(j)' <=> DueAbort(j) \/ (j \in Range(js) /\ s = "aborted")
              /\ status'[j] = IF j \in Range(js) THEN s ELSE status[j]
              /\ Holds(j)' <=> Holds(j)
              /\ Waiting(j)' <=> Waiting(j)
              /\ UNCHANGED <<arriving, rebasing, exec, abortReq, rev>>
  BY <1>3, <1>6 DEF DueStart, DueAbort, Holds, Waiting, redis, flows, executor, gerrit
<1>13. ASSUME NEW j \in Jobs PROVE Always(j)'
  <2>1. Always(j)
    BY DEF IInv
  <2> QED
    BY <1>11, <1>12, <2>1
<1>14. ASSUME NEW j \in Jobs, crashes' = 0 PROVE UntilCrash(j)'
  <2>1. UntilCrash(j) /\ Always(j)
    BY <1>3, <1>14 DEF IInv
  <2>2. j \in Range(js) /\ Holds(j) => ~Ending(j) /\ s \in {"starting", "started"}
    BY <1>11, <2>1
  <2>3. Refused(j)' => Refused(j) \/ (j \in Range(js) /\ Ending(j))
    BY <1>2, <1>8, <1>12 DEF Refused, Ending
  <2> QED
    BY <1>11, <1>12, <2>1, <2>2, <2>3
<1> QED
  BY <1>3, <1>6, <1>7, <1>8, <1>9, <1>10, <1>13, <1>14 DEF IInv

\* SetToSeq lists a finite set without repetition.
LEMMA SetToSeqIsList ==
    ASSUME NEW S, IsFiniteSet(S)
    PROVE  /\ SetToSeq(S) \in Seq(S) /\ Range(SetToSeq(S)) = S
           /\ \A k, l \in DOMAIN SetToSeq(S) : SetToSeq(S)[k] = SetToSeq(S)[l] => k = l
<1> DEFINE N == Cardinality(S)  f == SetToSeq(S)
<1>1. N \in Nat /\ ExistsBijection(1..N, S)
  BY FS_CardinalityType
<1>2. PICK g \in [1..N -> S] : IsInjective(g)
  BY <1>1 DEF ExistsBijection, Bijection, Injection
<1>3. f \in [1..N -> S] /\ IsInjective(f)
  BY <1>2 DEF SetToSeq
<1>4. f \in Injection(1..N, S)
  BY <1>3 DEF Injection
<1>5. IsFiniteSet(1..N) /\ Cardinality(1..N) = N
  BY <1>1, FS_Interval
<1>6. f \in Surjection(1..N, S)
  BY <1>4, <1>5, FS_Injection
<1>7. Range(f) = S
  BY <1>3, <1>6 DEF Surjection, Range
<1> QED
  BY <1>1, <1>3, <1>7 DEF IsInjective

\* The jobs that the reply of start.lua names.
JobsTaken == {active'[q] : q \in {p \in Queues : active'[p] # active[p]}}

\* The reply of start.lua names every job it took once.
LEMMA TakenIsList ==
    ASSUME R!IInv, R!Start
    PROVE  /\ SetToSeq(JobsTaken) \in Seq(Jobs) /\ Range(SetToSeq(JobsTaken)) = JobsTaken
           /\ JobsTaken \subseteq Jobs
           /\ \A k, l \in DOMAIN SetToSeq(JobsTaken) :
                 SetToSeq(JobsTaken)[k] = SetToSeq(JobsTaken)[l] => k = l
<1> DEFINE taken == {p \in Queues : active'[p] # active[p]}  started == {active'[q] : q \in taken}
<1>1. started \subseteq Jobs
  BY StartTakes
<1>2. IsFiniteSet(taken)
  BY BuildSystemAssumption, FS_Subset
<1>3. IsFiniteSet(started)
  <2> DEFINE f == [q \in taken |-> active'[q]]
  <2>1. f \in Surjection(taken, started)
    BY DEF Surjection
  <2> QED
    BY <1>2, <2>1, FS_Surjection
<1>4. SetToSeq(started) \in Seq(started) /\ Range(SetToSeq(started)) = started
      /\ \A k, l \in DOMAIN SetToSeq(started) : SetToSeq(started)[k] = SetToSeq(started)[l] => k = l
  BY <1>3, SetToSeqIsList
<1>5. SetToSeq(started) \in Seq(Jobs)
  BY <1>1, <1>4, SeqMonotonic
<1>6. started = JobsTaken
  BY DEF JobsTaken
<1> QED
  BY <1>1, <1>4, <1>5, <1>6

\* start.lua takes jobs that waited: nothing else is on its way for them.
LEMMA StartKeeps ==
    ASSUME IInv, DoStart
    PROVE  IInv'
<1> DEFINE h == Head(pipe)  taken == {p \in Queues : active'[p] # active[p]}
           started == {active'[q] : q \in taken}
           js == SetToSeq(started)  n == SetCmd(js, "starting")
<1>1. TypeOK /\ WellFormed /\ OwnQueue /\ InOrder(pipe, Compatible) /\ pipe # <<>> /\ h.op = "start"
  BY DEF IInv, DoStart, AtHead
<1>2. /\ h \in Commands /\ h = StartCmd
      /\ Later \subseteq Commands /\ Sent = {h} \cup Later
      /\ \A m \in Later : Fits(h, m)
  <2>1. h \in Commands
    BY <1>1, HeadOfPipe
  <2>2. h = StartCmd
    BY <1>1, <2>1 DEF Commands, StartCmd
  <2> QED
    BY <1>1, <2>2, HeadOfPipe
<1>3. /\ UNCHANGED <<now, status, timers, flows, executor, gerrit, crashes>>
      /\ R!Start /\ Reply(IF started = {} THEN <<>> ELSE <<n>>)
  BY DEF DoStart, Untouched
<1>4. R!IInv'
  BY <1>3, StartKeepsQueue DEF IInv
<1>5. /\ \A q \in Queues : active'[q] # active[q] =>
           /\ active[q] = None
           /\ active'[q] \in Jobs
           /\ active'[q].canonical \in local[q]
           /\ last[q][active'[q].canonical] = active'[q].sha
           /\ last'[q][active'[q].canonical] = None
      /\ \A q \in Queues, c \in Canonicals : last'[q][c] \in {last[q][c], None}
  BY <1>3, StartTakes DEF IInv
\* A started job waited, and holds its queue now.
<1>6. ASSUME NEW j \in Jobs
      PROVE  /\ j \in started => Waiting(j) /\ ~Waiting(j)' /\ ~Holds(j)
             /\ Waiting(j)' => Waiting(j)
             /\ Holds(j)' <=> Holds(j) \/ j \in started
  <2>1. /\ j.canonical \in Canonicals /\ j.sha \in 1..MaxRev /\ Queue(j) \in Queues
        /\ Queue(j) = QueueOf[j.canonical]
        /\ j # None /\ j.sha # None
    BY BuildSystemAssumption DEF Jobs, Queue
  <2>2. ASSUME j \in started
        PROVE  /\ active'[Queue(j)] = j /\ active[Queue(j)] = None
               /\ last[Queue(j)][j.canonical] = j.sha /\ last'[Queue(j)][j.canonical] = None
    <3>1. PICK q \in taken : j = active'[q]
      BY <2>2
    <3>2. /\ active[q] = None /\ last[q][j.canonical] = j.sha /\ last'[q][j.canonical] = None
          /\ q \in Queues
      BY <1>5, <3>1
    <3>3. q = Queue(j)
      BY <1>1, <2>1, <3>2 DEF OwnQueue
    <3> QED
      BY <3>1, <3>2, <3>3
  <2>3. Waiting(j)' => Waiting(j)
    BY <1>5, <2>1 DEF Waiting
  <2>4. Holds(j)' => Holds(j) \/ j \in started
    BY <2>1 DEF Holds
  <2>5. Holds(j) => Holds(j)'
    BY <1>5, <2>1 DEF Holds
  <2> QED
    BY <2>1, <2>2, <2>3, <2>4, <2>5 DEF Holds, Waiting
<1>7. /\ js \in Seq(Jobs) /\ Range(js) = started /\ started \subseteq Jobs
      /\ \A k, l \in DOMAIN js : js[k] = js[l] => k = l
      /\ "starting" \in States
  <2>1. started = JobsTaken
    BY DEF JobsTaken
  <2> QED
    BY <1>3, <2>1, TakenIsList DEF IInv, States, Transitions
<1>8. ASSUME NEW j \in Jobs, j \in started
      PROVE  /\ ~Begun(j) /\ ~Cancelled(j) /\ ~Aborted(j) /\ ~Setting(j)
  BY <1>6, <1>8 DEF IInv
<1>9. n \in Commands
  BY <1>7, CommandShapes
<1>10. ASSUME NEW j \in Jobs
      PROVE  /\ ~Ends(n, j) /\ ~Pushes(n, j) /\ ~Announces(n, j) /\ ~Overrides(n, j)
             /\ ~Cancels(n, j) /\ ~Aborts(n, j) /\ ~Confirms(n, j)
             /\ Names(n, j) <=> j \in started
             /\ Starts(n, j) <=> j \in started
  BY <1>7, SetSays
<1>11. ASSUME NEW m \in Later PROVE Fits(m, n)
  <2>1. ASSUME NEW j \in Jobs, j \in started PROVE ~Starts(m, j) /\ ~Ends(m, j)
    BY <1>2, <1>8, <2>1 DEF Starting, Ending
  <2> QED
    BY <1>10, <2>1 DEF Fits
<1>12. /\ pipe' \in Seq(Commands) /\ InOrder(pipe', Compatible)
       /\ \/ started = {} /\ Sent' = Later
          \/ started # {} /\ Sent' = Later \cup {n}
  <2>1. CASE started = {}
    BY <1>1, <1>3, <2>1, ReplyNone
  <2>2. CASE started # {}
    BY <1>1, <1>3, <1>9, <1>11, <2>2, ReplyOne
  <2> QED
    BY <2>1, <2>2
<1>13. TypeOK' /\ OwnQueue'
  <2>1. TypeOK'
    BY <1>1, <1>3, <1>4, <1>12 DEF TypeOK, R!IInv, E!TypeOK, flows, executor, gerrit
  <2>2. OwnQueue'
    BY <1>1, <1>5 DEF OwnQueue
  <2> QED
    BY <2>1, <2>2
<1>14. WellFormed'
  <2>1. n.op = "set" /\ n.jobs = js /\ n.state = "starting"
    BY DEF SetCmd
  <2> QED
    BY <1>1, <1>2, <1>7, <1>12, <2>1 DEF WellFormed
<1>15. ASSUME NEW j \in Jobs
       PROVE  /\ Starting(j)' <=> Starting(j) \/ j \in started
              /\ Ending(j)' <=> Ending(j)
              /\ Pushing(j)' <=> Pushing(j)
              /\ Announcing(j)' <=> Announcing(j)
              /\ Setting(j)' <=> Setting(j) \/ j \in started
              /\ Overriding(j)' <=> Overriding(j)
              /\ Confirming(j)' <=> Confirming(j)
              /\ Cancelling(j)' <=> Cancelling(j)
              /\ Aborting(j)' <=> Aborting(j)
  <2>1. Silent(h, j)
    BY <1>2, StartSays
  <2> QED
    BY <1>2, <1>10, <1>12, <2>1 DEF Silent, Starting, Ending, Pushing, Announcing, Setting,
       Overriding, Confirming, Cancelling, Aborting
<1>16. ASSUME NEW j \in Jobs
       PROVE  /\ DueStart(j)' <=> DueStart(j)
              /\ DueAbort(j)' <=> DueAbort(j)
              /\ UNCHANGED <<status, arriving, rebasing, exec, abortReq, rev>>
  BY <1>3 DEF DueStart, DueAbort, Scheduled, flows, executor, gerrit
<1>17. ASSUME NEW j \in Jobs PROVE Always(j)'
  <2>1. Always(j)
    BY DEF IInv
  <2>2. CASE j \in started
    <3>1. Overriding(j) => Setting(j)
      BY DEF Overriding, Setting, Overrides
    <3> QED
      BY <1>6, <1>8, <1>15, <1>16, <2>1, <2>2, <3>1
  <2>3. CASE j \notin started
    BY <1>6, <1>15, <1>16, <2>1, <2>3
  <2> QED
    BY <2>2, <2>3
<1>18. ASSUME NEW j \in Jobs, crashes' = 0 PROVE UntilCrash(j)'
  <2>1. UntilCrash(j) /\ Always(j)
    BY <1>3, <1>18 DEF IInv
  <2>2. Refused(j)' => Refused(j)
    BY <1>2, <1>3, <1>12 DEF Refused, SetCmd
  <2>3. Refused(j) => Ending(j)
    BY DEF Refused, Ending
  <2> QED
    BY <1>6, <1>8, <1>15, <1>16, <2>1, <2>2, <2>3
<1> QED
  BY <1>3, <1>4, <1>12, <1>13, <1>14, <1>17, <1>18 DEF IInv

\* A timer other than STARTING fires.
LEMMA TimerKeeps ==
    ASSUME IInv, timers # <<>>, timers' = Tail(timers), Head(timers).state # "starting",
           UNCHANGED <<redis, status, arriving, rebasing, merging, exec, passed, gerrit, crashes>>,
           accepting' \in {accepting, accepting \cup {Head(timers).job}},
           UNCHANGED pipe \/ Send(StartCmd),
           abortReq' = IF Head(timers).state = "aborted" THEN abortReq \cup {Head(timers).job}
                       ELSE abortReq
    PROVE  IInv'
<1> DEFINE t == Head(timers)  i == t.job  s == t.state
<1>1. /\ t \in Calls /\ i \in Jobs /\ t = [job |-> i, state |-> s]
      /\ Scheduled = {t} \cup Scheduled'
      /\ timers' \in Seq(Calls) /\ InOrder(timers', Distinct)
  <2>1. /\ t \in Calls /\ Scheduled = {t} \cup Scheduled'
        /\ timers' \in Seq(Calls) /\ InOrder(timers', Distinct)
    BY HeadOfTimers DEF IInv
  <2> QED
    BY <2>1 DEF Calls
<1>2. /\ \A j \in Jobs : SameMessages(j)
      /\ pipe' \in Seq(Commands) /\ WellFormed' /\ InOrder(pipe', Compatible)
      /\ Sent' \in {Sent, Sent \cup {StartCmd}}
  BY NothingSent, StartSent
<1>3. R!IInv' /\ OwnQueue'
  BY IdleKeepsQueue DEF IInv, OwnQueue, redis
<1>4. TypeOK'
  BY <1>1, <1>2, <1>3 DEF IInv, TypeOK, R!IInv, E!TypeOK, gerrit, Calls
<1>5. ASSUME NEW j \in Jobs
      PROVE  /\ DueStart(j)' <=> DueStart(j)
             /\ DueAbort(j) \/ j \in abortReq <=> DueAbort(j)' \/ j \in abortReq'
             /\ j \in abortReq => j \in abortReq'
             /\ Holds(j)' <=> Holds(j)
             /\ Waiting(j)' <=> Waiting(j)
             /\ UNCHANGED <<status, arriving, rebasing, exec, rev>>
  <2>1. DueStart(j)' <=> DueStart(j)
    BY <1>1 DEF DueStart
  <2>2. DueAbort(j) <=> DueAbort(j)' \/ (s = "aborted" /\ i = j)
    BY <1>1 DEF DueAbort
  <2>3. j \in abortReq' <=> j \in abortReq \/ (s = "aborted" /\ i = j)
    OBVIOUS
  <2> QED
    BY <2>1, <2>2, <2>3 DEF Holds, Waiting, redis, gerrit
<1>6. ASSUME NEW j \in Jobs PROVE Always(j)'
  <2>1. Always(j)
    BY DEF IInv
  <2> QED
    BY <1>2, <1>5, <2>1 DEF SameMessages
<1>7. ASSUME NEW j \in Jobs, crashes' = 0 PROVE UntilCrash(j)'
  <2>1. UntilCrash(j)
    BY <1>7 DEF IInv
  <2>2. Refused(j)' => Refused(j)
    BY <1>2 DEF Refused, StartCmd
  <2> QED
    BY <1>2, <1>5, <2>1, <2>2 DEF SameMessages
<1> QED
  BY <1>1, <1>2, <1>3, <1>4, <1>6, <1>7 DEF IInv

\* The STARTING callback starts the rebase of the job.
LEMMA StartingKeeps ==
    ASSUME IInv, OnStarting
    PROVE  IInv'
<1> DEFINE t == Head(timers)  i == t.job
<1>1. /\ timers # <<>> /\ t.state = "starting" /\ timers' = Tail(timers)
      /\ rebasing' = rebasing \cup {i}
      /\ UNCHANGED <<redis, status, pipe, arriving, accepting, merging, executor, gerrit, crashes>>
  BY DEF OnStarting, Due
<1>2. /\ t \in Calls /\ i \in Jobs /\ t = [job |-> i, state |-> "starting"]
      /\ Scheduled = {t} \cup Scheduled' /\ t \notin Scheduled'
      /\ timers' \in Seq(Calls) /\ InOrder(timers', Distinct)
  <2>1. /\ t \in Calls /\ Scheduled = {t} \cup Scheduled' /\ t \notin Scheduled'
        /\ timers' \in Seq(Calls) /\ InOrder(timers', Distinct)
    BY <1>1, HeadOfTimers DEF IInv
  <2> QED
    BY <1>1, <2>1 DEF Calls
<1>3. /\ \A j \in Jobs : SameMessages(j)
      /\ pipe' \in Seq(Commands) /\ WellFormed' /\ InOrder(pipe', Compatible) /\ Sent' = Sent
  BY <1>1, NothingSent
<1>4. TypeOK' /\ R!IInv' /\ OwnQueue'
  BY <1>1, <1>2, <1>3, IdleTypes DEF IInv, TypeOK
<1>5. ASSUME NEW j \in Jobs
      PROVE  /\ DueStart(j) <=> DueStart(j)' \/ i = j
             /\ i = j => ~DueStart(j)'
             /\ DueAbort(j)' <=> DueAbort(j)
             /\ j \in rebasing' <=> j \in rebasing \/ i = j
             /\ Holds(j)' <=> Holds(j)
             /\ Waiting(j)' <=> Waiting(j)
             /\ UNCHANGED <<status, arriving, exec, abortReq, rev>>
  BY <1>1, <1>2 DEF DueStart, DueAbort, Holds, Waiting, redis, executor, gerrit
<1>6. ASSUME NEW j \in Jobs PROVE Always(j)'
  <2>1. Always(j)
    BY DEF IInv
  <2> QED
    BY <1>3, <1>5, <2>1 DEF SameMessages
<1>7. ASSUME NEW j \in Jobs, crashes' = 0 PROVE UntilCrash(j)'
  <2>1. UntilCrash(j)
    BY <1>1, <1>7 DEF IInv
  <2>2. Refused(j)' => Refused(j)
    BY <1>1, <1>3 DEF Refused
  <2> QED
    BY <1>3, <1>5, <2>1, <2>2 DEF SameMessages
<1> QED
  BY <1>1, <1>2, <1>3, <1>4, <1>6, <1>7 DEF IInv

\* The callbacks of the queue.
LEMMA ListenerKeeps ==
    ASSUME IInv, Listener
    PROVE  IInv'
<1>1. CASE OnStarting
  BY <1>1, StartingKeeps
<1>2. CASE OnSuccess
  BY <1>2, TimerKeeps DEF OnSuccess, Due, executor
<1>3. CASE OnQueuedOrEnded
  BY <1>3, TimerKeeps DEF OnQueuedOrEnded, Due, flows, Terminal
<1>4. CASE OnStarted
  BY <1>4, TimerKeeps DEF OnStarted, Due, flows, executor
<1> QED
  BY <1>1, <1>2, <1>3, <1>4 DEF Listener

\* An update of the queue is sent for a job that is not in the pipe.
LEMMA GetSent ==
    ASSUME IInv, NEW i \in Jobs, NEW s \in (Terminal \ {"cancelled"}) \cup {"started"},
           Send(GetCmd(i, s)), s # "started" => ~Starting(i) /\ ~Ending(i)
    PROVE  /\ pipe' \in Seq(Commands) /\ InOrder(pipe', Compatible) /\ WellFormed'
           /\ Sent' = Sent \cup {GetCmd(i, s)}
           /\ \A j \in Jobs :
                /\ Starting(j)' <=> Starting(j)
                /\ Ending(j)' <=> Ending(j) \/ (i = j /\ s # "started")
                /\ Pushing(j)' <=> Pushing(j)
                /\ Announcing(j)' <=> Announcing(j)
                /\ Setting(j)' <=> Setting(j)
                /\ Overriding(j)' <=> Overriding(j)
                /\ Confirming(j)' <=> Confirming(j) \/ (i = j /\ s = "started")
                /\ Cancelling(j)' <=> Cancelling(j)
                /\ Aborting(j)' <=> Aborting(j)
                /\ Refused(j) => Ending(j)
                /\ UNCHANGED status =>
                     (Refused(j)' <=> \/ Refused(j)
                                      \/ /\ i = j /\ s # "started"
                                         /\ ~IsTransitionValid(status[j], s))
<1> DEFINE n == GetCmd(i, s)
<1>1. n \in Commands /\ n.op = "get" /\ n.state = s /\ s # "cancelled"
  BY CommandShapes DEF GetCmd, Terminal
<1>2. ASSUME NEW j \in Jobs
      PROVE  /\ ~Names(n, j) /\ ~Starts(n, j) /\ ~Overrides(n, j) /\ ~Pushes(n, j)
             /\ ~Announces(n, j) /\ ~Cancels(n, j) /\ ~Aborts(n, j)
             /\ Ends(n, j) <=> i = j /\ s # "started"
             /\ Confirms(n, j) <=> i = j /\ s = "started"
  BY GetSays
<1>3. ASSUME NEW m \in Sent PROVE Fits(m, n)
  <2>1. s # "started" => ~Starts(m, i) /\ ~Ends(m, i)
    BY DEF Starting, Ending
  <2> QED
    BY <1>2, <2>1 DEF Fits
<1>4. pipe' \in Seq(Commands) /\ Sent' = Sent \cup {n} /\ InOrder(pipe', Compatible)
  BY <1>1, <1>3, SendTypes, SendOrder DEF IInv
<1>5. WellFormed'
  BY <1>1, <1>4 DEF IInv, WellFormed
<1>6. ASSUME NEW j \in Jobs
      PROVE  /\ Starting(j)' <=> Starting(j)
             /\ Ending(j)' <=> Ending(j) \/ (i = j /\ s # "started")
             /\ Pushing(j)' <=> Pushing(j)
             /\ Announcing(j)' <=> Announcing(j)
             /\ Setting(j)' <=> Setting(j)
             /\ Overriding(j)' <=> Overriding(j)
             /\ Confirming(j)' <=> Confirming(j) \/ (i = j /\ s = "started")
             /\ Cancelling(j)' <=> Cancelling(j)
             /\ Aborting(j)' <=> Aborting(j)
  BY <1>2, <1>4 DEF Starting, Ending, Pushing, Announcing, Setting, Overriding, Confirming,
     Cancelling, Aborting
<1>7. ASSUME NEW j \in Jobs
      PROVE  /\ Refused(j) => Ending(j)
             /\ UNCHANGED status =>
                  (Refused(j)' <=> \/ Refused(j)
                                   \/ /\ i = j /\ s # "started"
                                      /\ ~IsTransitionValid(status[j], s))
  <2>1. Refused(j) => Ending(j)
    BY DEF Refused, Ending
  <2>2. UNCHANGED status =>
          (Refused(j)' <=> \/ Refused(j)
                           \/ /\ i = j /\ s # "started"
                              /\ ~IsTransitionValid(status[j], s))
    BY <1>1, <1>2, <1>4 DEF Refused
  <2> QED
    BY <2>1, <2>2
<1> QED
  BY <1>4, <1>5, <1>6, <1>7

\* The states that the build system reports, and when they are accepted.
LEMMA NoReports ==
    /\ \A s \in {"rebased", "conflict", "error"} \cup Verdicts :
          /\ s \in (Terminal \ {"cancelled"}) \cup {"started"} /\ s # "started"
    /\ \A s \in {"rebased", "conflict", "error"} : IsTransitionValid("starting", s)
    /\ \A s \in Verdicts : IsTransitionValid("started", s)
BY BuildSystemAssumption DEF Terminal, IsTransitionValid, Transitions

\* The rebase made a new patch set: the job ends as REBASED.
LEMMA RebaseDoneKeeps ==
    ASSUME IInv, NEW i \in Jobs, RebaseDone(i)
    PROVE  IInv'
<1> DEFINE c == i.canonical
<1>0. PICK b \in {tip[QueueOf[c]], tip[QueueOf[c]] - 1} \cap Nat : NewPatchSet(c, b)
  BY DEF RebaseDone, RecentTips
<1>1. /\ i \in rebasing /\ rebasing' = rebasing \ {i}
      /\ UNCHANGED <<redis, status, timers, accepting, merging, executor, crashes>>
      /\ NewPatchSet(c, b) /\ Send(GetCmd(i, "rebased"))
  BY <1>0 DEF RebaseDone, EndRebase
<1>2. TypeOK /\ c \in Canonicals /\ b \in Nat /\ b <= tip[QueueOf[c]]
  <2>1. TypeOK /\ c \in Canonicals /\ QueueOf[c] \in Queues
    BY BuildSystemAssumption DEF IInv, Jobs
  <2>2. tip \in [Queues -> Nat]
    BY <2>1 DEF TypeOK
  <2> QED
    BY <2>1, <2>2
<1>3. /\ pipe' \in Seq(Commands) /\ InOrder(pipe', Compatible) /\ WellFormed'
      /\ \A j \in Jobs :
           /\ Starting(j)' <=> Starting(j)
           /\ Ending(j)' <=> Ending(j) \/ i = j
           /\ Pushing(j)' <=> Pushing(j)
           /\ Announcing(j)' <=> Announcing(j)
           /\ Setting(j)' <=> Setting(j)
           /\ Overriding(j)' <=> Overriding(j)
           /\ Confirming(j)' <=> Confirming(j)
           /\ Cancelling(j)' <=> Cancelling(j)
           /\ Aborting(j)' <=> Aborting(j)
           /\ Refused(j)' => \/ Refused(j)
                             \/ i = j /\ ~IsTransitionValid(status[j], "rebased")
  <2>1. ~Starting(i) /\ ~Ending(i)
    BY <1>1 DEF IInv
  <2> QED
    BY <1>1, <2>1, NoReports, GetSent
<1>4. R!IInv' /\ OwnQueue'
  BY <1>1, IdleKeepsQueue DEF IInv, OwnQueue, redis
<1>5. TypeOK'
  BY <1>1, <1>2, <1>3, <1>4, PatchSetMade DEF TypeOK, R!IInv, E!TypeOK, executor
<1>6. ASSUME NEW j \in Jobs
      PROVE  /\ DueStart(j)' <=> DueStart(j)
             /\ DueAbort(j)' <=> DueAbort(j)
             /\ j \in rebasing' <=> j \in rebasing /\ i # j
             /\ Holds(j)' <=> Holds(j)
             /\ Waiting(j)' <=> Waiting(j)
             /\ UNCHANGED <<status, exec, abortReq>>
  BY <1>1 DEF DueStart, DueAbort, Scheduled, Holds, Waiting, redis, executor
<1>7. ASSUME NEW j \in Jobs
      PROVE  (Fresh(j)' => Fresh(j)) /\ PushedOnce(j)'
  <2>1. j.canonical \in Canonicals /\ j.sha \in Nat
    BY DEF Jobs
  <2>2. rev[j.canonical] \in Nat /\ rev'[j.canonical] \in Nat
    BY <1>2, <1>5, <2>1 DEF TypeOK
  <2>3. /\ rev[j.canonical] <= rev'[j.canonical]
        /\ j \in arriving' => \/ j \in arriving
                              \/ j.sha > rev[j.canonical] /\ j.sha = rev'[j.canonical]
        /\ j.sha > rev'[j.canonical] => j.sha > rev[j.canonical]
    BY <1>1, <1>2, PatchSetMade
  <2>4. Always(j)
    BY DEF IInv
  <2> QED
    BY <1>3, <2>1, <2>2, <2>3, <2>4
<1>8. ASSUME NEW j \in Jobs PROVE Always(j)'
  <2>1. Always(j)
    BY DEF IInv
  <2> QED
    BY <1>1, <1>3, <1>6, <1>7, <2>1
<1>9. ASSUME NEW j \in Jobs, crashes' = 0 PROVE UntilCrash(j)'
  <2>1. UntilCrash(j)
    BY <1>1, <1>9 DEF IInv
  <2> QED
    BY <1>1, <1>3, <1>6, <2>1, NoReports
<1> QED
  BY <1>1, <1>3, <1>4, <1>5, <1>8, <1>9 DEF IInv, InOrder

\* What a step of a job in the executor, or on its way there, keeps.
LEMMA ExecutorTypes ==
    ASSUME IInv, UNCHANGED <<redis, status, timers, arriving, accepting, merging, abortReq, gerrit,
                             crashes>>,
           pipe' \in Seq(Commands), rebasing' \subseteq Jobs, passed' \subseteq Jobs,
           NEW i \in Jobs, NEW st \in {"none", "queued", "aborting", "running", "done"},
           exec' = [exec EXCEPT ![i] = st]
    PROVE  /\ TypeOK' /\ R!IInv' /\ OwnQueue' /\ InOrder(timers', Distinct)
           /\ \A j \in Jobs :
                 /\ DueStart(j)' <=> DueStart(j)
                 /\ DueAbort(j)' <=> DueAbort(j)
                 /\ Holds(j)' <=> Holds(j)
                 /\ Waiting(j)' <=> Waiting(j)
                 /\ exec'[j] = IF i = j THEN st ELSE exec[j]
                 /\ UNCHANGED <<status, arriving, abortReq, rev>>
<1>1. R!IInv' /\ OwnQueue' /\ InOrder(timers', Distinct)
  BY IdleKeepsQueue DEF IInv, OwnQueue, redis, InOrder
<1>2. exec \in [Jobs -> {"none", "queued", "aborting", "running", "done"}] /\ abortReq \subseteq Jobs
  BY DEF IInv, TypeOK, E!TypeOK
<1>3. E!TypeOK'
  BY <1>2 DEF E!TypeOK
<1>4. TypeOK'
  BY <1>1, <1>3 DEF IInv, TypeOK, R!IInv, gerrit
<1>5. ASSUME NEW j \in Jobs
      PROVE  /\ DueStart(j)' <=> DueStart(j)
             /\ DueAbort(j)' <=> DueAbort(j)
             /\ Holds(j)' <=> Holds(j)
             /\ Waiting(j)' <=> Waiting(j)
             /\ exec'[j] = IF i = j THEN st ELSE exec[j]
             /\ UNCHANGED <<status, arriving, abortReq, rev>>
  BY <1>2 DEF DueStart, DueAbort, Scheduled, Holds, Waiting, redis, gerrit
<1> QED
  BY <1>1, <1>4, <1>5

\* No rebase was necessary: the executor is asked to build the job.
LEMMA RebaseNotNeededKeeps ==
    ASSUME IInv, NEW i \in Jobs, RebaseNotNeeded(i)
    PROVE  IInv'
<1>0. PICK st \in {"none", "queued", "aborting", "running", "done"} :
        /\ exec' = [exec EXCEPT ![i] = st]
        /\ st = IF i \in abortReq THEN "aborting" ELSE "queued"
  BY DEF RebaseNotNeeded, E!StartJob, E!Becomes
<1>1. /\ i \in rebasing /\ rebasing' = rebasing \ {i}
      /\ UNCHANGED <<redis, status, timers, accepting, merging, crashes, pipe, arriving, passed,
                     gerrit, abortReq>>
      /\ exec[i] = "none"
  BY DEF RebaseNotNeeded, EndRebase, E!StartJob, E!Becomes
<1>2. /\ \A j \in Jobs : SameMessages(j)
      /\ pipe' \in Seq(Commands) /\ WellFormed' /\ InOrder(pipe', Compatible) /\ Sent' = Sent
  BY <1>1, NothingSent
<1>3. rebasing' \subseteq Jobs /\ passed' \subseteq Jobs
  BY <1>1 DEF IInv, TypeOK
<1>4. /\ TypeOK' /\ R!IInv' /\ OwnQueue' /\ InOrder(timers', Distinct)
      /\ \A j \in Jobs :
            /\ DueStart(j)' <=> DueStart(j)
            /\ DueAbort(j)' <=> DueAbort(j)
            /\ Holds(j)' <=> Holds(j)
            /\ Waiting(j)' <=> Waiting(j)
            /\ exec'[j] = IF i = j THEN st ELSE exec[j]
            /\ UNCHANGED <<status, arriving, abortReq, rev>>
  BY <1>0, <1>1, <1>2, <1>3, ExecutorTypes
<1>5. ASSUME NEW j \in Jobs PROVE Always(j)'
  <2>1. Always(j)
    BY DEF IInv
  <2> QED
    BY <1>0, <1>1, <1>2, <1>4, <2>1 DEF SameMessages
<1>6. ASSUME NEW j \in Jobs, crashes' = 0 PROVE UntilCrash(j)'
  <2>1. UntilCrash(j) /\ Always(j)
    BY <1>1, <1>6 DEF IInv
  <2>2. Refused(j)' => Refused(j)
    BY <1>1, <1>2 DEF Refused
  <2> QED
    BY <1>0, <1>1, <1>2, <1>4, <2>1, <2>2 DEF SameMessages
<1> QED
  BY <1>1, <1>2, <1>4, <1>5, <1>6 DEF IInv

\* The rebase failed: the job ends as CONFLICT.
LEMMA RebaseFailedKeeps ==
    ASSUME IInv, NEW i \in Jobs, RebaseFailed(i)
    PROVE  IInv'
<1>1. /\ i \in rebasing /\ rebasing' = rebasing \ {i}
      /\ UNCHANGED <<redis, status, timers, accepting, merging, executor, crashes, arriving, gerrit>>
      /\ Send(GetCmd(i, "conflict"))
  BY DEF RebaseFailed, EndRebase
<1>2. /\ pipe' \in Seq(Commands) /\ InOrder(pipe', Compatible) /\ WellFormed'
      /\ \A j \in Jobs :
           /\ Starting(j)' <=> Starting(j)
           /\ Ending(j)' <=> Ending(j) \/ i = j
           /\ Pushing(j)' <=> Pushing(j)
           /\ Announcing(j)' <=> Announcing(j)
           /\ Setting(j)' <=> Setting(j)
           /\ Overriding(j)' <=> Overriding(j)
           /\ Confirming(j)' <=> Confirming(j)
           /\ Cancelling(j)' <=> Cancelling(j)
           /\ Aborting(j)' <=> Aborting(j)
           /\ Refused(j)' => \/ Refused(j)
                             \/ i = j /\ ~IsTransitionValid(status[j], "conflict")
  <2>1. ~Starting(i) /\ ~Ending(i)
    BY <1>1 DEF IInv
  <2> QED
    BY <1>1, <2>1, NoReports, GetSent
<1>3. TypeOK' /\ R!IInv' /\ OwnQueue'
  BY <1>1, <1>2, IdleTypes DEF IInv, TypeOK, Calls
<1>4. ASSUME NEW j \in Jobs
      PROVE  /\ DueStart(j)' <=> DueStart(j)
             /\ DueAbort(j)' <=> DueAbort(j)
             /\ j \in rebasing' <=> j \in rebasing /\ i # j
             /\ Holds(j)' <=> Holds(j)
             /\ Waiting(j)' <=> Waiting(j)
             /\ UNCHANGED <<status, exec, abortReq, arriving, rev>>
  BY <1>1 DEF DueStart, DueAbort, Scheduled, Holds, Waiting, redis, executor, gerrit
<1>5. ASSUME NEW j \in Jobs PROVE Always(j)'
  <2>1. Always(j)
    BY DEF IInv
  <2> QED
    BY <1>1, <1>2, <1>4, <2>1
<1>6. ASSUME NEW j \in Jobs, crashes' = 0 PROVE UntilCrash(j)'
  <2>1. UntilCrash(j)
    BY <1>1, <1>6 DEF IInv
  <2> QED
    BY <1>1, <1>2, <1>4, <2>1, NoReports
<1> QED
  BY <1>1, <1>2, <1>3, <1>5, <1>6 DEF IInv, InOrder

\* Labelling and merging a change do not concern its jobs.
LEMMA AcceptMergeKeep ==
    ASSUME IInv, NEW i \in Jobs, Accept(i) \/ Merge(i)
    PROVE  IInv'
<1>1. /\ UNCHANGED <<redis, status, pipe, timers, arriving, rebasing, executor, rev, base, crashes>>
      /\ accepting' \subseteq Jobs /\ merging' \subseteq Jobs
  BY DEF Accept, Merge, gerrit, IInv, TypeOK
<1>2. /\ merged' \in [Canonicals -> 0..MaxRev] /\ tip' \in [Queues -> Nat]
      /\ \A c \in Canonicals : base'[c] <= tip'[QueueOf[c]]
  <2>1. /\ merged \in [Canonicals -> 0..MaxRev] /\ tip \in [Queues -> Nat]
        /\ rev \in [Canonicals -> 0..MaxRev] /\ base \in [Canonicals -> Nat]
        /\ \A c \in Canonicals : base[c] <= tip[QueueOf[c]] /\ QueueOf[c] \in Queues
        /\ i.canonical \in Canonicals /\ Queue(i) \in Queues
    BY BuildSystemAssumption DEF IInv, TypeOK, Jobs, Queue
  <2>2. \/ UNCHANGED <<merged, tip>>
        \/ /\ merged' = [merged EXCEPT ![i.canonical] = rev[i.canonical]]
           /\ tip' = [tip EXCEPT ![Queue(i)] = @ + 1]
    BY DEF Accept, Merge, gerrit
  <2> QED
    BY <1>1, <2>1, <2>2
<1>3. /\ \A j \in Jobs : SameMessages(j)
      /\ pipe' \in Seq(Commands) /\ WellFormed' /\ InOrder(pipe', Compatible) /\ Sent' = Sent
  BY <1>1, NothingSent
<1>4. R!IInv' /\ OwnQueue'
  BY <1>1, IdleKeepsQueue DEF IInv, OwnQueue, redis
<1>5. TypeOK'
  BY <1>1, <1>2, <1>3, <1>4 DEF IInv, TypeOK, R!IInv, E!TypeOK, executor
<1>6. ASSUME NEW j \in Jobs
      PROVE  /\ Always(j)'
             /\ UntilCrash(j) => UntilCrash(j)'
  <2>1. Always(j) /\ SameMessages(j) /\ (Refused(j)' => Refused(j))
    BY <1>1, <1>3 DEF IInv, Refused
  <2>2. (Fresh(j)' => Fresh(j)) /\ PushedOnce(j)'
    BY <1>1, <2>1 DEF SameMessages
  <2> QED
    BY <1>1, <2>1, <2>2, JobKeeps DEF Holds, Waiting, DueStart, DueAbort, Scheduled, redis,
       executor
<1> QED
  BY <1>1, <1>3, <1>4, <1>5, <1>6 DEF IInv, InOrder

\* The executor reports what became of a job, and the queue is updated: it
\* starts to run, or it is done.
LEMMA ReportKeeps ==
    ASSUME IInv, NEW i \in Jobs, exec[i] \in {"queued", "aborting", "running"},
           NEW st \in {"running", "done"}, exec' = [exec EXCEPT ![i] = st],
           NEW s \in (Terminal \ {"cancelled"}) \cup {"started"}, Send(GetCmd(i, s)),
           passed' \subseteq Jobs,
           UNCHANGED <<redis, status, timers, flows, abortReq, gerrit, crashes>>,
           st = "running" <=> s = "started",
           st = "running" => exec[i] = "queued",
           st = "done" => ~Confirming(i) \/ exec[i] # "running",
           crashes = 0 /\ Holds(i) /\ st = "done" => IsTransitionValid(status[i], s)
    PROVE  IInv'
<1>1. Always(i) /\ ~Starting(i) /\ ~Ending(i)
  BY DEF IInv
<1>2. /\ pipe' \in Seq(Commands) /\ InOrder(pipe', Compatible) /\ WellFormed'
      /\ \A j \in Jobs :
           /\ Starting(j)' <=> Starting(j)
           /\ Ending(j)' <=> Ending(j) \/ (i = j /\ s # "started")
           /\ Pushing(j)' <=> Pushing(j)
           /\ Announcing(j)' <=> Announcing(j)
           /\ Setting(j)' <=> Setting(j)
           /\ Overriding(j)' <=> Overriding(j)
           /\ Confirming(j)' <=> Confirming(j) \/ (i = j /\ s = "started")
           /\ Cancelling(j)' <=> Cancelling(j)
           /\ Aborting(j)' <=> Aborting(j)
           /\ Refused(j)' => \/ Refused(j)
                             \/ /\ i = j /\ s # "started"
                                /\ ~IsTransitionValid(status[j], s)
  BY <1>1, GetSent
<1>3. /\ TypeOK' /\ R!IInv' /\ OwnQueue' /\ InOrder(timers', Distinct)
      /\ \A j \in Jobs :
            /\ DueStart(j)' <=> DueStart(j)
            /\ DueAbort(j)' <=> DueAbort(j)
            /\ Holds(j)' <=> Holds(j)
            /\ Waiting(j)' <=> Waiting(j)
            /\ exec'[j] = IF i = j THEN st ELSE exec[j]
            /\ UNCHANGED <<status, arriving, abortReq, rev>>
  <2>1. rebasing' \subseteq Jobs
        /\ UNCHANGED <<redis, status, timers, arriving, accepting, merging, abortReq, gerrit, crashes>>
    BY DEF IInv, TypeOK, flows
  <2>2. st \in {"none", "queued", "aborting", "running", "done"}
    OBVIOUS
  <2> QED
    BY <1>2, <2>1, <2>2, ExecutorTypes
<1>4. rebasing' = rebasing
  BY DEF flows
<1>5. ASSUME NEW j \in Jobs PROVE Always(j)'
  <2>1. Always(j)
    BY DEF IInv
  <2>2. ConfirmedRuns(j)'
    BY <1>2, <1>3, <2>1
  <2>3. OneToken(j)' /\ PushedOnce(j)' /\ FreshIsUntouched(j)' /\ WaitingIsUntouched(j)'
    BY <1>2, <1>3, <1>4, <2>1
  <2> QED
    BY <1>2, <1>3, <1>4, <2>1, <2>2, <2>3
<1>6. ASSUME NEW j \in Jobs, crashes' = 0 PROVE UntilCrash(j)'
  <2>1. UntilCrash(j) /\ Always(j) /\ crashes = 0
    BY <1>6 DEF IInv
  <2>2. WorkedOnHolds(j)' /\ HolderHasOwner(j)'
    BY <1>2, <1>3, <1>4, <2>1
  <2>3. HolderStatus(j)'
    BY <1>2, <1>3, <1>4, <2>1
  <2> QED
    BY <2>2, <2>3
<1> QED
  BY <1>2, <1>3, <1>5, <1>6 DEF IInv

\* onJobStarted.
LEMMA JobStartedKeeps ==
    ASSUME IInv, NEW i \in Jobs, JobStarted(i)
    PROVE  IInv'
<1>1. /\ exec[i] = "queued" /\ exec' = [exec EXCEPT ![i] = "running"]
      /\ Send(GetCmd(i, "started"))
      /\ UNCHANGED <<redis, status, timers, flows, passed, abortReq, gerrit, crashes>>
  BY DEF JobStarted, E!Started, E!Becomes
<1>2. passed' \subseteq Jobs
  BY <1>1 DEF IInv, TypeOK
<1> QED
  BY <1>1, <1>2, ReportKeeps

\* The verdict is fetched when the update of onJobStarted is over.
LEMMA SettledIsNotConfirming ==
    ASSUME NEW i \in Jobs, StartedSettled(i)
    PROVE  ~Confirming(i)
BY DEF StartedSettled, Confirming, Confirms, Sent, Range

\* A verdict on a running job: for the holder of the queue it is accepted.
LEMMA JobEndedKeeps ==
    ASSUME IInv, NEW i \in Jobs, NEW verdict \in Verdicts, JobEnded(i, verdict)
    PROVE  IInv'
<1>1. /\ exec[i] = "running" /\ exec' = [exec EXCEPT ![i] = "done"]
      /\ Send(GetCmd(i, verdict)) /\ StartedSettled(i)
      /\ UNCHANGED <<redis, status, timers, flows, abortReq, gerrit, crashes>>
  BY DEF JobEnded, E!Ended, E!Becomes
<1>2. passed' \subseteq Jobs
  BY DEF JobEnded, IInv, TypeOK
<1>3. ~Confirming(i)
  BY <1>1, SettledIsNotConfirming
<1>4. crashes = 0 /\ Holds(i) => status[i] = "started"
  BY <1>1, <1>3 DEF IInv
<1>5. /\ verdict \in (Terminal \ {"cancelled"}) \cup {"started"} /\ verdict # "started"
      /\ IsTransitionValid("started", verdict)
  BY NoReports
<1> QED
  BY <1>1, <1>2, <1>3, <1>4, <1>5, ReportKeeps

\* onJobError before the start: for the holder of the queue it is accepted.
LEMMA JobNotStartedKeeps ==
    ASSUME IInv, NEW i \in Jobs, JobNotStarted(i)
    PROVE  IInv'
<1>1. /\ exec[i] \in {"queued", "aborting"} /\ exec' = [exec EXCEPT ![i] = "done"]
      /\ Send(GetCmd(i, "error"))
      /\ UNCHANGED <<redis, status, timers, flows, passed, abortReq, gerrit, crashes>>
  BY DEF JobNotStarted, E!NotStarted, E!Becomes
<1>2. passed' \subseteq Jobs
  BY <1>1 DEF IInv, TypeOK
<1>3. crashes = 0 /\ Holds(i) => status[i] = "starting"
  <2> SUFFICES ASSUME crashes = 0, Holds(i) PROVE status[i] = "starting"
    OBVIOUS
  <2>1. UntilCrash(i) /\ Always(i)
    BY DEF IInv
  <2>2. exec[i] = "queued"
    BY <1>1, <2>1
  <2> QED
    BY <2>1, <2>2
<1>4. /\ "error" \in (Terminal \ {"cancelled"}) \cup {"started"}
      /\ IsTransitionValid("starting", "error")
  BY NoReports
<1> QED
  BY <1>1, <1>2, <1>3, <1>4, ReportKeeps

\* The executor drops a job that was aborted; such a job does not hold its queue.
LEMMA JobDroppedKeeps ==
    ASSUME IInv, NEW i \in Jobs, JobDropped(i)
    PROVE  IInv'
<1>1. /\ i \in abortReq /\ exec[i] \in {"queued", "aborting", "running"}
      /\ exec' = [exec EXCEPT ![i] = "done"]
      /\ UNCHANGED <<redis, status, pipe, timers, flows, passed, abortReq, gerrit, crashes>>
  BY DEF JobDropped, E!Dropped, E!Becomes
<1>2. /\ \A j \in Jobs : SameMessages(j)
      /\ pipe' \in Seq(Commands) /\ WellFormed' /\ InOrder(pipe', Compatible) /\ Sent' = Sent
  BY <1>1, NothingSent
<1>3. /\ rebasing' \subseteq Jobs /\ passed' \subseteq Jobs /\ rebasing' = rebasing
      /\ UNCHANGED <<arriving, accepting, merging>>
  BY <1>1 DEF IInv, TypeOK, flows
<1>4. /\ TypeOK' /\ R!IInv' /\ OwnQueue' /\ InOrder(timers', Distinct)
      /\ \A j \in Jobs :
            /\ DueStart(j)' <=> DueStart(j)
            /\ DueAbort(j)' <=> DueAbort(j)
            /\ Holds(j)' <=> Holds(j)
            /\ Waiting(j)' <=> Waiting(j)
            /\ exec'[j] = IF i = j THEN "done" ELSE exec[j]
            /\ UNCHANGED <<status, arriving, abortReq, rev>>
  BY <1>1, <1>2, <1>3, ExecutorTypes
<1>5. ASSUME NEW j \in Jobs PROVE Always(j)'
  <2>1. Always(j)
    BY DEF IInv
  <2> QED
    BY <1>1, <1>2, <1>3, <1>4, <2>1 DEF SameMessages
<1>6. ASSUME NEW j \in Jobs, crashes' = 0 PROVE UntilCrash(j)'
  <2>1. UntilCrash(j) /\ Always(j)
    BY <1>1, <1>6 DEF IInv
  <2>2. Refused(j)' => Refused(j)
    BY <1>1, <1>2 DEF Refused
  <2>3. j = i => ~Holds(j)
    BY <1>1, <2>1
  <2> QED
    BY <1>1, <1>2, <1>3, <1>4, <2>1, <2>2, <2>3 DEF SameMessages
<1> QED
  BY <1>1, <1>2, <1>4, <1>5, <1>6 DEF IInv

\* A restart empties what the process had in memory: every promise about work
\* under way is kept by there being none.
LEMMA CrashKeeps ==
    ASSUME IInv, Crash
    PROVE  IInv'
<1>1. /\ crashes \in 0..MaxCrash /\ crashes < MaxCrash /\ crashes' = crashes + 1 /\ MaxCrash \in Nat
      /\ pipe' = <<StartCmd>> /\ timers' = <<>>
      /\ arriving' = {} /\ rebasing' = {} /\ accepting' = {} /\ merging' = {}
      /\ UNCHANGED <<redis, status, passed, gerrit, abortReq>>
  BY BuildSystemAssumption DEF Crash, E!Restart, IInv, TypeOK
<1>2. crashes' \in 0..MaxCrash /\ crashes' # 0
  BY <1>1
<1>3. Sent' = {StartCmd} /\ Scheduled' = {}
  BY <1>1 DEF Sent, Scheduled, Range
<1>4. pipe' \in Seq(Commands) /\ InOrder(pipe', Compatible) /\ InOrder(timers', Distinct)
      /\ timers' \in Seq(Calls)
  BY <1>1, CommandShapes DEF InOrder
<1>5. /\ exec \in [Jobs -> {"none", "queued", "aborting", "running", "done"}]
      /\ exec' \in [Jobs -> {"none", "queued", "aborting", "running", "done"}]
      /\ \A j \in Jobs : exec[j] = "none" => exec'[j] = "none"
  <2>1. exec \in [Jobs -> {"none", "queued", "aborting", "running", "done"}]
    BY DEF IInv, TypeOK, E!TypeOK
  <2>2. PICK lost \in SUBSET {j \in Jobs : exec[j] \in {"queued", "aborting", "running"}} :
          exec' = [j \in Jobs |-> IF j \in lost THEN "done" ELSE exec[j]]
    BY DEF Crash, E!Restart
  <2> QED
    BY <2>1, <2>2
<1>6. R!IInv' /\ OwnQueue'
  BY <1>1, IdleKeepsQueue DEF IInv, OwnQueue, redis
<1>7. TypeOK'
  BY <1>1, <1>2, <1>4, <1>5, <1>6 DEF IInv, TypeOK, R!IInv, E!TypeOK, gerrit, Calls
<1>8. WellFormed'
  BY <1>3 DEF WellFormed, StartCmd
<1>9. ASSUME NEW j \in Jobs PROVE Always(j)'
  <2>1. /\ ~Starting(j)' /\ ~Ending(j)' /\ ~Pushing(j)' /\ ~Announcing(j)' /\ ~Setting(j)'
        /\ ~Overriding(j)' /\ ~Confirming(j)' /\ ~Cancelling(j)' /\ ~Aborting(j)'
    BY <1>3, StartSays DEF Silent, Starting, Ending, Pushing, Announcing, Setting, Overriding,
       Confirming, Cancelling, Aborting
  <2>2. ~DueStart(j)' /\ ~DueAbort(j)'
    BY <1>3 DEF DueStart, DueAbort
  <2>3. /\ Holds(j)' <=> Holds(j)
        /\ Waiting(j)' <=> Waiting(j)
        /\ UNCHANGED <<status, rev, abortReq>>
    BY <1>1 DEF Holds, Waiting, redis, gerrit
  <2>4. Always(j)
    BY DEF IInv
  <2> QED
    BY <1>1, <1>5, <2>1, <2>2, <2>3, <2>4
<1> QED
  BY <1>2, <1>4, <1>6, <1>7, <1>8, <1>9 DEF IInv

-----------------------------------------------------------------------------
(* The invariant holds.                                                    *)

\* In the beginning nothing is known of any job.
LEMMA InitIInv ==
    ASSUME Init
    PROVE  IInv
<1>1. R!Init /\ R!IInv
  BY InitQueue DEF Init
<1>2. /\ MaxRev \in Nat /\ MaxCrash \in Nat /\ \A c \in Canonicals : QueueOf[c] \in Queues
      /\ None \notin 1..MaxRev /\ None \notin Jobs
  BY BuildSystemAssumption DEF Jobs
<1>3. Sent = {StartCmd} /\ Scheduled = {}
  BY DEF Init, Sent, Scheduled, Range
<1>4. pipe \in Seq(Commands) /\ InOrder(pipe, Compatible) /\ InOrder(timers, Distinct)
      /\ timers \in Seq(Calls)
  BY CommandShapes DEF InOrder, Init
<1>5. TypeOK
  BY <1>1, <1>2, <1>4 DEF Init, TypeOK, R!IInv, E!TypeOK, E!Init, Calls
<1>6. WellFormed
  BY <1>3 DEF WellFormed, StartCmd
<1>7. /\ \A q \in Queues : active[q] = None
      /\ \A q \in Queues, c \in Canonicals : last[q][c] = None
  BY <1>1 DEF R!Init
<1>8. OwnQueue
  BY <1>7 DEF OwnQueue
<1>9. ASSUME NEW j \in Jobs PROVE Always(j) /\ UntilCrash(j)
  <2>1. /\ ~Starting(j) /\ ~Ending(j) /\ ~Pushing(j) /\ ~Announcing(j) /\ ~Setting(j)
        /\ ~Overriding(j) /\ ~Confirming(j) /\ ~Cancelling(j) /\ ~Aborting(j)
    BY <1>3, StartSays DEF Silent, Starting, Ending, Pushing, Announcing, Setting, Overriding,
       Confirming, Cancelling, Aborting
  <2>2. ~DueStart(j) /\ ~DueAbort(j)
    BY <1>3 DEF DueStart, DueAbort
  <2>3. /\ j.canonical \in Canonicals /\ j.sha \in 1..MaxRev /\ j.sha # None /\ j # None
        /\ Queue(j) \in Queues
    BY <1>2 DEF Jobs, Queue
  <2>4. ~Holds(j) /\ ~Waiting(j)
    BY <1>7, <2>3 DEF Holds, Waiting
  <2>5. /\ status[j] = None /\ None # "cancelled"
        /\ arriving = {} /\ rebasing = {} /\ exec[j] = "none" /\ abortReq = {}
        /\ rev[j.canonical] = 0
    BY <2>3, NoneIsNoState DEF Init, E!Init, States, Terminal
  <2> QED
    BY <2>1, <2>2, <2>3, <2>4, <2>5
<1> QED
  BY <1>1, <1>4, <1>5, <1>6, <1>8, <1>9 DEF IInv

\* A step that changes nothing keeps the invariant.
LEMMA StutterKeeps ==
    ASSUME IInv, UNCHANGED vars
    PROVE  IInv'
<1>1. UNCHANGED <<redis, status, pipe, timers, flows, executor, gerrit, crashes>>
  BY DEF vars
<1>2. /\ \A j \in Jobs : SameMessages(j)
      /\ pipe' \in Seq(Commands) /\ WellFormed' /\ InOrder(pipe', Compatible) /\ Sent' = Sent
  BY <1>1, NothingSent
<1>3. TypeOK' /\ R!IInv' /\ OwnQueue'
  BY <1>1, <1>2, IdleTypes DEF IInv, TypeOK, Calls, flows
<1>4. ASSUME NEW j \in Jobs PROVE Always(j)' /\ (UntilCrash(j) => UntilCrash(j)')
  <2>1. Always(j) /\ SameMessages(j) /\ (Refused(j)' => Refused(j))
    BY <1>1, <1>2 DEF IInv, Refused
  <2>2. (Fresh(j)' => Fresh(j)) /\ PushedOnce(j)'
    BY <1>1, <2>1 DEF SameMessages, flows, gerrit
  <2> QED
    BY <1>1, <2>1, <2>2, JobKeeps DEF Holds, Waiting, DueStart, DueAbort, Scheduled, redis,
       executor, flows
<1> QED
  BY <1>1, <1>2, <1>3, <1>4 DEF IInv, InOrder

\* Every step keeps the invariant.
LEMMA NextKeeps ==
    ASSUME IInv, Next
    PROVE  IInv'
<1>1. CASE \E c \in Canonicals : Upload(c)
  BY <1>1, UploadKeeps
<1>2. CASE Redis
  BY <1>2, PushKeeps, QueuedKeeps, StartKeeps, SetKeeps, GetKeeps, CompleteKeeps DEF Redis
<1>3. CASE Listener
  BY <1>3, ListenerKeeps, StartingKeeps
<1>4. ASSUME NEW j \in Jobs, Update(j) \/ Rebase(j) \/ Accept(j) \/ Merge(j) \/ Executor(j)
      PROVE  IInv'
  <2>1. CASE Update(j)
    BY <2>1, UpdateKeeps, UpdateIgnoredKeeps DEF Update
  <2>2. CASE Rebase(j)
    BY <2>2, RebaseDoneKeeps, RebaseNotNeededKeeps, RebaseFailedKeeps DEF Rebase
  <2>3. CASE Accept(j) \/ Merge(j)
    BY <2>3, AcceptMergeKeep
  <2>4. CASE Executor(j)
    BY <2>4, JobStartedKeeps, JobNotStartedKeeps, JobDroppedKeeps, JobEndedKeeps DEF Executor
  <2> QED
    BY <1>4, <2>1, <2>2, <2>3, <2>4
<1>5. CASE Crash
  BY <1>5, CrashKeeps
<1> QED
  BY <1>1, <1>2, <1>3, <1>4, <1>5 DEF Next

\* The invariant from which the properties below follow: it ties the queue in Redis to
\* the commands, timers and handlers that are under way, and to the executor.
THEOREM InvariantHolds == Spec => []IInv
<1>1. Init => IInv
  BY InitIInv
<1>2. IInv /\ [Next]_vars => IInv'
  BY NextKeeps, StutterKeeps
<1> QED
  BY <1>1, <1>2, PTL DEF Spec

\* Every variable keeps its type: the replies of the scripts, the commands on the
\* connection and the timers are of the kinds their handlers expect.
THEOREM TypeCorrect == Spec => []TypeOK
<1>1. IInv => TypeOK
  BY DEF IInv
<1> QED
  BY <1>1, InvariantHolds, PTL

\* The properties look for commands by their place on the connection.
LEMMA Links ==
    ASSUME NEW j \in Jobs
    PROVE  /\ SetInPipe(j, "starting") <=> Starting(j)
           /\ Cancelling(j) <=> \/ SetInPipe(j, "cancelled")
                                \/ InPipe(LAMBDA m : /\ m.op = "queued"
                                                     /\ m.job.canonical = j.canonical
                                                     /\ m.cancel = j.sha)
           /\ Ending(j) <=> InPipe(LAMBDA m : /\ m.op \in {"get", "complete"}
                                              /\ m.job = j /\ m.state \in Terminal)
           /\ AbortComing(j) <=> Aborted(j)
           /\ InTimers(j, "starting") <=> DueStart(j)
<1>1. SetInPipe(j, "starting") <=> Starting(j)
  BY DEF SetInPipe, InPipe, Starting, Starts, Names, Sent, Range
<1>2. SetInPipe(j, "cancelled") <=> \E m \in Sent : Names(m, j) /\ m.state = "cancelled"
  BY DEF SetInPipe, InPipe, Names, Sent, Range
<1>3. SetInPipe(j, "aborted") <=> \E m \in Sent : Names(m, j) /\ m.state = "aborted"
  BY DEF SetInPipe, InPipe, Names, Sent, Range
<1>4. InPipe(LAMBDA m : /\ m.op = "queued" /\ m.job.canonical = j.canonical
                        /\ m.cancel = j.sha)
        <=> \E m \in Sent : m.op = "queued" /\ m.job.canonical = j.canonical /\ m.cancel = j.sha
  BY DEF InPipe, Sent, Range
<1>5. InPipe(LAMBDA m : m.op = "queued" /\ m.job.canonical = j.canonical /\ m.abort = j.sha)
        <=> \E m \in Sent : m.op = "queued" /\ m.job.canonical = j.canonical /\ m.abort = j.sha
  BY DEF InPipe, Sent, Range
<1>6. Ending(j) <=> InPipe(LAMBDA m : /\ m.op \in {"get", "complete"}
                                      /\ m.job = j /\ m.state \in Terminal)
  BY DEF InPipe, Ending, Ends, Sent, Range
<1>7. Cancelling(j) <=> \/ SetInPipe(j, "cancelled")
                        \/ InPipe(LAMBDA m : /\ m.op = "queued"
                                             /\ m.job.canonical = j.canonical
                                             /\ m.cancel = j.sha)
  BY <1>2, <1>4 DEF Cancelling, Cancels
<1>8. Aborting(j) <=> \/ SetInPipe(j, "aborted")
                      \/ InPipe(LAMBDA m : /\ m.op = "queued"
                                           /\ m.job.canonical = j.canonical
                                           /\ m.abort = j.sha)
  BY <1>3, <1>5 DEF Aborting, Aborts
<1>9. /\ InTimers(j, "starting") <=> DueStart(j)
      /\ InTimers(j, "aborted") <=> DueAbort(j)
  BY DEF InTimers, DueStart, DueAbort, Scheduled
<1>10. AbortComing(j) <=> Aborted(j)
  BY <1>8, <1>9 DEF AbortComing
<1> QED
  BY <1>1, <1>6, <1>7, <1>9, <1>10

\* As long as the process is not restarted, no queue is held by a job nobody
\* works on, whatever overtakes what between start.lua and the job's end.
THEOREM SlotHasOwnerHolds == Spec => [](crashes = 0 => SlotHasOwner)
<1>1. IInv => (crashes = 0 => SlotHasOwner)
  <2> SUFFICES ASSUME IInv, crashes = 0, NEW j \in Jobs, Holds(j)
               PROVE  \/ SetInPipe(j, "starting") \/ InTimers(j, "starting")
                      \/ j \in rebasing
                      \/ Executing(j)
                      \/ InPipe(LAMBDA m : /\ m.op \in {"get", "complete"}
                                           /\ m.job = j /\ m.state \in Terminal)
    BY DEF SlotHasOwner
  <2>1. UntilCrash(j)
    BY DEF IInv
  <2> QED
    BY <2>1, Links
<1> QED
  BY <1>1, InvariantHolds, PTL

\* As long as the process is not restarted, what the executor builds holds its
\* queue, or its abort is on its way: also when the abort of a push meets a job
\* whose STARTING handler still waits for Gerrit.
THEOREM ExecutesHolderOnlyHolds == Spec => [](crashes = 0 => ExecutesHolderOnly)
<1>1. IInv => (crashes = 0 => ExecutesHolderOnly)
  <2> SUFFICES ASSUME IInv, crashes = 0, NEW j \in Jobs, Executing(j)
               PROVE  Holds(j) \/ AbortComing(j)
    BY DEF ExecutesHolderOnly
  <2>1. UntilCrash(j)
    BY DEF IInv
  <2> QED
    BY <2>1, Links
<1> QED
  BY <1>1, InvariantHolds, PTL

\* A patch set that was replaced while it waited is never started, restarts of
\* the process or not.
THEOREM CancelledNeverRunsHolds == Spec => []CancelledNeverRuns
<1>1. IInv => CancelledNeverRuns
  <2> SUFFICES ASSUME IInv, NEW j \in Jobs,
                      status[j] = "cancelled" \/ SetInPipe(j, "cancelled")
               PROVE  ~Holds(j) /\ j \notin rebasing /\ exec[j] = "none"
    BY DEF CancelledNeverRuns
  <2>1. Cancelled(j)
    BY Links
  <2>2. Always(j)
    BY DEF IInv
  <2> QED
    BY <2>1, <2>2
<1> QED
  BY <1>1, InvariantHolds, PTL

\* Only the three scripts change the queue in Redis.
LEMMA ScriptsOnly == Next => DoPush \/ DoComplete \/ DoStart \/ UNCHANGED redis
BY DEF Next, Redis, DoQueued, DoSet, DoGet, Listener, OnStarting, OnSuccess, OnQueuedOrEnded,
   OnStarted, Upload, Update, OnUpdate, OnUpdateIgnored, Rebase, EndRebase, RebaseDone,
   RebaseNotNeeded, RebaseFailed, Accept, Merge, Executor, JobStarted, JobNotStarted,
   JobDropped, JobEnded, Crash

\* A queue is released by complete.lua for the job that holds it, or by push.lua
\* for a newer patch set of its change; a late verdict on another job leaves it.
THEOREM FreedByOwnEndHolds == Spec => FreedByOwnEnd
<1> DEFINE Freed == \A q \in Queues : active[q] # None /\ active'[q] # active[q] =>
              \/ Head(pipe).op = "complete" /\ Head(pipe).job = active[q]
              \/ Head(pipe).op = "push" /\ Head(pipe).job.canonical = active[q].canonical
<1>1. IInv /\ [Next]_vars => [Freed]_vars
  <2> SUFFICES ASSUME IInv, Next, NEW q \in Queues, active[q] # None, active'[q] # active[q]
               PROVE  \/ Head(pipe).op = "complete" /\ Head(pipe).job = active[q]
                      \/ Head(pipe).op = "push" /\ Head(pipe).job.canonical = active[q].canonical
    OBVIOUS
  <2>1. active \in [Queues -> Jobs \cup {None}]
    BY DEF IInv, R!IInv, R!TypeOK, R!Refs, Jobs
  <2>2. CASE DoPush
    <3>1. Head(pipe).op = "push"
      BY <2>2 DEF DoPush, AtHead
    <3> DEFINE j == Head(pipe).job
    <3>2. R!Push(Queue(j), j.canonical, j.sha)
      BY <2>2 DEF DoPush
    <3>3. Queue(j) = q /\ active[q].canonical = j.canonical
      BY <2>1, <3>2 DEF R!Push, R!Builds, R!Release
    <3> QED
      BY <3>1, <3>3
  <2>3. CASE DoComplete
    <3>1. Head(pipe).op = "complete"
      BY <2>3 DEF DoComplete, AtHead
    <3> DEFINE j == Head(pipe).job
    <3>2. R!Complete(Queue(j), j)
      BY <2>3 DEF DoComplete
    <3>3. active[q] = j
      BY <2>1, <3>2 DEF R!Complete, R!Release, R!redisVars
    <3> QED
      BY <3>1, <3>3
  <2>4. CASE DoStart
    <3>1. R!Start /\ R!IInv
      BY <2>4 DEF DoStart, IInv
    <3> QED
      BY <3>1, StartTakes
  <2>5. CASE UNCHANGED redis
    BY <2>5 DEF redis
  <2> QED
    BY <2>2, <2>3, <2>4, <2>5, ScriptsOnly
<1>2. [][Freed]_vars => FreedByOwnEnd
  BY PTL DEF FreedByOwnEnd
<1> QED
  BY <1>1, <1>2, InvariantHolds, PTL DEF Spec

-----------------------------------------------------------------------------
(* No queue is forgotten.                                                  *)

\* A success that is on its way into the queue was reported by the executor.
SuccessReported ==
    \A m \in Sent : m.op \in {"get", "complete"} /\ m.state = "success" => m.job \in passed

\* A command or a callback after which the constructor's request is repeated.
Asks(m) ==
    \/ m.op \in {"start", "push", "queued"}
    \/ m.op \in {"set", "complete"} /\ WakesUp(m.state)
Asked == (\E m \in Sent : Asks(m)) \/ \E t \in Scheduled : WakesUp(t.state)

\* WakeUpComing in terms of the sets.
WakeUp ==
    \A q \in Queues : local[q] # {} /\ active[q] = None =>
        \/ Asked
        \/ \E j \in passed : Queue(j) = q \/ Crowded
        \/ Crowded /\ \E p \in Queues : active[p] # None

\* The two are the same.
LEMMA WakeUpIsComing == WakeUp <=> WakeUpComing
<1>1. StartComing <=> Asked
  BY DEF StartComing, InPipe, Asked, Asks, Sent, Scheduled, Range
<1> QED
  BY <1>1 DEF WakeUp, WakeUpComing

IWake == SuccessReported /\ WakeUp

\* A step that leaves the scripts alone and keeps what asks for a start.
LEMMA AskedStays ==
    ASSUME WakeUp, UNCHANGED redis, passed \subseteq passed', Asked => Asked'
    PROVE  WakeUp'
BY DEF WakeUp, redis, Crowded

\* After start.lua an idle queue with a waiting change was left out because others
\* were taken.
LEMMA StartLeavesCrowded ==
    ASSUME R!IInv, R!Start, NEW q \in Queues, local'[q] # {}, active'[q] = None
    PROVE  Crowded /\ \E p \in Queues : active'[p] # None
<1>0. RP!Start /\ RP!IInv
  BY SameCardinality, SameIInv, Zenon
     DEF R!Start, RP!Start, R!Startables, RP!Startables, R!Taken, RP!Taken, R!TakeQueues,
         RP!TakeQueues, R!Pop, RP!Pop, R!PopMin, RP!PopMin, R!Unfile, RP!Unfile, R!Activate,
         RP!Activate, R!Uncount, RP!Uncount
<1>1. PICK S \in SUBSET R!Startables :
        /\ R!Taken(S)
        /\ \E c \in [S -> Canonicals \cup {None}] :
             (\A p \in S : R!PopMin(p, c[p])) /\ R!TakeQueues(S, c)
  BY DEF R!Start
<1>2. PICK c \in [S -> Canonicals \cup {None}] :
        (\A p \in S : R!PopMin(p, c[p])) /\ R!TakeQueues(S, c)
  BY <1>1
<1>3. \A p \in S : p \in Queues /\ c[p] \in local[p] /\ c[p] \in Canonicals
        /\ active[p] = None /\ last[p][c[p]] # None
  <2>1. S \subseteq RP!Startables /\ \A p \in S : RP!PopMin(p, c[p])
    BY <1>2 DEF R!Startables, RP!Startables, R!PopMin, RP!PopMin
  <2> QED
    BY <1>0, <2>1, RP!TakenHasWork, QueueAssumptionHolds
<1>4. /\ active' = [p \in Queues |->
                     IF p \in S /\ c[p] # None
                     THEN [canonical |-> c[p], sha |-> last[p][c[p]]] ELSE active[p]]
      /\ local' = [p \in Queues |-> IF p \in S THEN local[p] \ {c[p]} ELSE local[p]]
  BY <1>2 DEF R!TakeQueues, R!Activate, R!Pop
<1>5. /\ None \notin Canonicals /\ None \notin Jobs
      /\ last \in [Queues -> [Canonicals -> 1..MaxRev \cup {None}]]
      /\ local \in [Queues -> SUBSET Canonicals]
      /\ ready \in [Queues -> Nat]
      /\ IsFiniteSet(Queues) /\ IsFiniteSet(Canonicals) /\ MaxCount \in Nat \ {0}
  BY BuildSystemAssumption DEF R!IInv, R!TypeOK, Jobs
<1>6. ASSUME NEW p \in S PROVE p \in Queues /\ active'[p] # None
  <2>1. active'[p] = [canonical |-> c[p], sha |-> last[p][c[p]]]
    BY <1>3, <1>4, <1>5
  <2>2. active'[p] \in Jobs
    BY <1>3, <1>5, <2>1 DEF Jobs
  <2> QED
    BY <1>3, <1>5, <2>2
<1>7. q \notin S /\ local[q] # {} /\ active[q] = None
  BY <1>4, <1>6
<1>8. q \in R!Startables
  <2>1. q \notin globalActive
    BY <1>7 DEF R!IInv, R!BlockedHasOwner
  <2>2. ready[q] = R!Cardinality(local[q])
    BY DEF R!IInv, R!ReadyCountsWaiting
  <2>3. ready[q] = Cardinality(local[q])
    BY <2>2 DEF R!Cardinality, Cardinality
  <2>4. IsFiniteSet(local[q])
    BY <1>5, FS_Subset
  <2>5. ready[q] # 0
    BY <1>7, <2>3, <2>4, FS_EmptySet
  <2> QED
    BY <2>1, <2>5 DEF R!Startables
<1>9. R!Cardinality(S) = MaxCount
  BY <1>1, <1>7, <1>8 DEF R!Taken
<1>10. Cardinality(S) = MaxCount
  BY <1>9 DEF R!Cardinality, Cardinality
<1>11. S \subseteq Queues /\ S # Queues
  BY <1>6, <1>7
<1>12. Cardinality(S) < Cardinality(Queues) /\ IsFiniteSet(S)
  <2>1. IsFiniteSet(S) /\ Cardinality(S) <= Cardinality(Queues)
    BY <1>5, <1>11, FS_Subset
  <2>2. Cardinality(S) # Cardinality(Queues)
    BY <1>5, <1>11, FS_Subset
  <2>3. Cardinality(S) \in Nat /\ Cardinality(Queues) \in Nat
    BY <1>5, <2>1, FS_CardinalityType
  <2> QED
    BY <2>1, <2>2, <2>3
<1>13. Crowded
  <2>1. Cardinality(S) \in Nat /\ Cardinality(Queues) \in Nat
    BY <1>5, <1>12, FS_CardinalityType
  <2> QED
    BY <1>10, <1>12, <2>1 DEF Crowded
<1>14. S # {}
  BY <1>5, <1>10, FS_EmptySet
<1> QED
  BY <1>6, <1>13, <1>14

\* Every command either leads to the next request for a start, or frees no queue, or
\* was the end of a successful build.
LEMMA RedisKeepsWakeUp ==
    ASSUME IInv, IWake, Redis
    PROVE  IWake'
<1> DEFINE h == Head(pipe)
<1>1. TypeOK /\ WellFormed /\ InOrder(pipe, Compatible) /\ pipe # <<>>
      /\ UNCHANGED <<flows, executor, gerrit, crashes>> /\ passed' = passed
  BY DEF IInv, Redis, DoPush, DoQueued, DoStart, DoSet, DoGet, DoComplete, AtHead, Untouched, executor
<1>2. h \in Commands /\ Later \subseteq Commands /\ Sent = {h} \cup Later
  BY <1>1, HeadOfPipe
<1>3. ASSUME NEW n \in Commands, Reply(<<n>>)
      PROVE  Sent' = Later \cup {n}
  BY <1>1, <1>3, RangeOfSingle, ReplyTypes
<1>4. ASSUME Reply(<<>>)
      PROVE  Sent' = Later
  BY <1>1, <1>4, ReplyNone
<1>5. CASE DoPush
  <2> DEFINE i == h.job  q == Queue(i)
             n == QueuedCmd(i, R!Aborted(q, i.canonical), R!Outdated(q, i.canonical))
  <2>1. h.op = "push" /\ Reply(<<n>>)
    BY <1>5 DEF DoPush, AtHead
  <2>2. i \in Jobs /\ i.canonical \in Canonicals /\ q \in Queues
    BY <1>2, <2>1, CommandTypes, BuildSystemAssumption DEF Jobs, Queue
  <2>3. /\ active \in [Queues -> Jobs \cup {None}]
        /\ last \in [Queues -> [Canonicals -> 1..MaxRev \cup {None}]]
    BY DEF IInv, R!IInv, R!TypeOK, R!Refs, Jobs
  <2>4. R!Outdated(q, i.canonical) \in ShaOrNone
    BY <2>2, <2>3 DEF ShaOrNone, R!Outdated
  <2>5. R!Aborted(q, i.canonical) \in ShaOrNone
    BY <2>2, <2>3 DEF ShaOrNone, R!Aborted, R!Builds, Jobs
  <2>6. Sent' = Later \cup {n}
    BY <1>3, <2>1, <2>2, <2>4, <2>5, CommandShapes
  <2>7. Asks(n) /\ n.op = "queued"
    BY DEF Asks, QueuedCmd
  <2>8. SuccessReported'
    BY <1>1, <1>2, <2>6, <2>7 DEF IWake, SuccessReported
  <2>9. Asked'
    BY <2>6, <2>7 DEF Asked
  <2> QED
    BY <2>8, <2>9 DEF IWake, WakeUp
<1>6. CASE DoQueued
  <2> DEFINE i == h.job  c == i.canonical
             fa == SetReplaced(c, h.abort, "aborted")  fo == SetReplaced(c, h.cancel, "cancelled")
  <2>1. h.op = "queued" /\ Reply(fa \o fo) /\ SetState(<<i>>, "queued")
    BY <1>6 DEF DoQueued, AtHead
  <2>2. /\ i \in Jobs /\ c \in Canonicals /\ h.abort \in ShaOrNone /\ h.cancel \in ShaOrNone
        /\ <<i>> \in Seq(Jobs) /\ Range(<<i>>) = {i} /\ "queued" \in States
    BY <1>2, <2>1, CommandTypes, RangeOfSingle DEF Jobs, States, Transitions
  <2>3. /\ fa \in Seq(Commands) /\ fo \in Seq(Commands)
        /\ \A n \in Range(fa) \cup Range(fo) : n.op = "set"
    BY <2>2, ReplacedReply
  <2>4. fa \o fo \in Seq(Commands) /\ Range(fa \o fo) = Range(fa) \cup Range(fo)
    BY <2>3, RangeOfConcat
  <2>5. Sent' = Later \cup (Range(fa) \cup Range(fo))
    <3>1. Sent' = Later \cup Range(fa \o fo)
      BY <1>1, <2>1, <2>4, ReplyTypes
    <3> QED
      BY <2>4, <3>1, Zenon
  <2>6. [job |-> i, state |-> "queued"] \in Scheduled'
    <3>1. Scheduled' = Scheduled \cup {[job |-> j, state |-> "queued"] : j \in Range(<<i>>)}
      BY <1>1, <2>1, <2>2, SetStateTypes
    <3> QED
      BY <2>2, <3>1
  <2>7. SuccessReported'
    BY <1>1, <1>2, <2>3, <2>5 DEF IWake, SuccessReported
  <2>8. Asked'
    BY <2>6 DEF Asked, WakesUp
  <2> QED
    BY <2>7, <2>8 DEF IWake, WakeUp
<1>7. CASE DoStart
  <2> DEFINE started == {active'[q] : q \in {p \in Queues : active'[p] # active[p]}}
             n == SetCmd(SetToSeq(started), "starting")
  <2>1. R!Start /\ R!IInv /\ Reply(IF started = {} THEN <<>> ELSE <<n>>)
    BY <1>7 DEF DoStart, IInv
  <2>2. WakeUp'
    BY <2>1, StartLeavesCrowded DEF WakeUp, Crowded
  <2>3. \A m \in Sent' : m \in Sent \/ m = n
    <3>1. started = JobsTaken
      BY DEF JobsTaken
    <3>3. SetToSeq(started) \in Seq(Jobs) /\ "starting" \in States
      BY <2>1, <3>1, TakenIsList DEF States, Transitions
    <3>4. n \in Commands
      BY <3>3, CommandShapes
    <3> QED
      BY <1>2, <1>3, <1>4, <2>1, <3>4
  <2>4. n.op = "set"
    BY DEF SetCmd
  <2>5. SuccessReported'
    BY <1>1, <2>3, <2>4 DEF IWake, SuccessReported
  <2> QED
    BY <2>2, <2>5 DEF IWake
<1>8. CASE DoSet
  <2>1. /\ h.op = "set" /\ SetState(h.jobs, h.state) /\ Reply(<<>>) /\ UNCHANGED redis
        /\ h.jobs \in Seq(Jobs) /\ h.state \in States
    BY <1>2, <1>8, CommandTypes DEF DoSet, AtHead
  <2>2. Sent' = Later
    BY <1>4, <2>1
  <2>3. Scheduled' = Scheduled \cup {[job |-> j, state |-> h.state] : j \in Range(h.jobs)}
    BY <1>1, <2>1, SetStateTypes
  <2>4. WakesUp(h.state) => \E j \in Jobs : j \in Range(h.jobs)
    <3>1. WakesUp(h.state) => h.state # "starting"
      BY DEF WakesUp, Terminal
    <3>2. WakesUp(h.state) => \E j \in Jobs : h.jobs = <<j>>
      BY <1>1, <1>2, <2>1, <3>1 DEF WellFormed
    <3> SUFFICES ASSUME NEW j \in Jobs, h.jobs = <<j>> PROVE j \in Range(h.jobs)
      BY <3>2
    <3> QED
      BY DEF Range
  <2>5. Asks(h) => \E t \in Scheduled' : WakesUp(t.state)
    <3> SUFFICES ASSUME WakesUp(h.state) PROVE \E t \in Scheduled' : WakesUp(t.state)
      BY <2>1 DEF Asks
    <3>1. PICK j \in Jobs : j \in Range(h.jobs)
      BY <2>4
    <3>2. [job |-> j, state |-> h.state] \in Scheduled'
      BY <2>3, <3>1
    <3>3. [job |-> j, state |-> h.state].state = h.state
      OBVIOUS
    <3> QED
      BY <3>2, <3>3, Zenon
  <2>6. Asked => Asked'
    BY <1>2, <2>2, <2>3, <2>5 DEF Asked
  <2>7. SuccessReported'
    BY <1>1, <1>2, <2>2 DEF IWake, SuccessReported
  <2> QED
    BY <1>1, <2>1, <2>6, <2>7, AskedStays DEF IWake
<1>9. CASE DoGet
  <2> DEFINE i == h.job  s == h.state
  <2>1. /\ h.op = "get" /\ i \in Jobs /\ s \in Terminal \cup {"started"}
        /\ UNCHANGED <<redis, timers>>
    BY <1>2, <1>9, CommandTypes DEF DoGet, AtHead
  <2>2. <<i>> \in Seq(Jobs) /\ "started" \in States
    BY <2>1, RangeOfSingle DEF States, Transitions
  <2>3. \/ Sent' = Later
        \/ Sent' = Later \cup {SetCmd(<<i>>, s)}
        \/ Sent' = Later \cup {CompleteCmd(i, s)}
    <3>1. CASE Reply(<<>>)
      BY <1>4, <3>1
    <3>2. CASE s \in Terminal /\ Reply(<<CompleteCmd(i, s)>>)
      BY <1>3, <2>1, <3>2, CommandShapes
    <3>3. CASE s = "started" /\ Reply(<<SetCmd(<<i>>, s)>>)
      BY <1>3, <2>2, <3>3, CommandShapes
    <3> QED
      BY <1>9, <2>1, <3>1, <3>2, <3>3 DEF DoGet
  <2>4. ~Asks(h)
    BY <2>1 DEF Asks
  <2>5. Asked => Asked'
    BY <1>2, <2>1, <2>3, <2>4 DEF Asked, Scheduled
  <2>6. SuccessReported'
    <3>1. s = "success" => i \in passed
      BY <1>2, <2>1 DEF IWake, SuccessReported
    <3>2. /\ SetCmd(<<i>>, s).op = "set"
          /\ CompleteCmd(i, s).job = i /\ CompleteCmd(i, s).state = s
      BY DEF SetCmd, CompleteCmd
    <3> QED
      BY <1>1, <1>2, <2>3, <3>1, <3>2 DEF IWake, SuccessReported
  <2> QED
    BY <1>1, <2>1, <2>5, <2>6, AskedStays DEF IWake
<1>10. CASE DoComplete
  <2> DEFINE i == h.job  s == h.state  n == SetCmd(<<i>>, s)
  <2>1. /\ h.op = "complete" /\ i \in Jobs /\ s \in Terminal
        /\ Reply(<<n>>) /\ R!Complete(Queue(i), i) /\ UNCHANGED timers
    BY <1>2, <1>10, CommandTypes DEF DoComplete, AtHead
  <2>2. <<i>> \in Seq(Jobs) /\ s \in States
    BY <2>1, RangeOfSingle DEF States
  <2>3. Sent' = Later \cup {n} /\ n.op = "set" /\ n.state = s
    BY <1>3, <2>1, <2>2, CommandShapes DEF SetCmd
  <2>4. SuccessReported'
    BY <1>1, <1>2, <2>3 DEF IWake, SuccessReported
  <2>5. CASE WakesUp(s)
    BY <2>3, <2>4, <2>5 DEF IWake, WakeUp, Asked, Asks
  <2>6. CASE ~WakesUp(s)
    <3>1. s = "success" /\ i \in passed
      BY <1>2, <2>1, <2>6 DEF WakesUp, IWake, SuccessReported
    <3>2. Asked => Asked'
      BY <1>2, <2>1, <2>3, <2>6 DEF Asked, Asks, Scheduled
    <3>3. active \in [Queues -> Jobs \cup {None}]
      BY DEF IInv, R!IInv, R!TypeOK, R!Refs, Jobs
    <3>4. local' = local /\ \A q \in Queues : q # Queue(i) => active'[q] = active[q]
      BY <2>1, <3>3 DEF R!Complete, R!Release, R!redisVars
    <3>5. WakeUp'
      <4> SUFFICES ASSUME NEW q \in Queues, local[q] # {}, active'[q] = None
                   PROVE  \/ Asked'
                          \/ \E j \in passed : Queue(j) = q \/ Crowded
                          \/ Crowded /\ \E p \in Queues : active'[p] # None
        BY <1>1, <3>4 DEF WakeUp, Crowded
      <4>1. CASE q = Queue(i) \/ Crowded
        BY <3>1, <4>1
      <4>2. CASE q # Queue(i) /\ ~Crowded
        BY <3>2, <3>4, <4>2 DEF IWake, WakeUp
      <4> QED
        BY <4>1, <4>2
    <3> QED
      BY <2>4, <3>5 DEF IWake
  <2> QED
    BY <2>5, <2>6
<1> QED
  BY <1>5, <1>6, <1>7, <1>8, <1>9, <1>10 DEF Redis

\* The steps outside Redis ask for a start at least as often as before, and report
\* no success but that of a build.
LEMMA OthersKeepWakeUp ==
    ASSUME IInv, IWake, UNCHANGED redis, passed \subseteq passed',
           \/ UNCHANGED pipe
           \/ \E n \in Commands : /\ Send(n)
                                  /\ n.op \in {"get", "complete"} /\ n.state = "success"
                                       => n.job \in passed',
           \/ \A t \in Scheduled : t \in Scheduled' \/ ~WakesUp(t.state)
           \/ Send(StartCmd)
    PROVE  IWake'
<1>1. TypeOK
  BY DEF IInv
<1>2. Sent \subseteq Sent' /\ SuccessReported'
  <2>1. CASE UNCHANGED pipe
    BY <2>1 DEF Sent, IWake, SuccessReported
  <2>2. ASSUME NEW n \in Commands, Send(n),
               n.op \in {"get", "complete"} /\ n.state = "success" => n.job \in passed'
        PROVE  Sent \subseteq Sent' /\ SuccessReported'
    <3>1. Sent' = Sent \cup {n}
      BY <1>1, <2>2, SendTypes
    <3> QED
      BY <2>2, <3>1 DEF IWake, SuccessReported
  <2> QED
    BY <2>1, <2>2
<1>3. Send(StartCmd) => Asked'
  <2>1. Send(StartCmd) => StartCmd \in Sent'
    BY <1>1, SendTypes, CommandShapes
  <2>2. Asks(StartCmd)
    BY DEF Asks, StartCmd
  <2> QED
    BY <2>1, <2>2 DEF Asked
<1>4. Asked => Asked'
  BY <1>2, <1>3 DEF Asked
<1> QED
  BY <1>2, <1>4, AskedStays DEF IWake

\* Every step keeps the request for a start on its way.
LEMMA NextKeepsWakeUp ==
    ASSUME IInv, IWake, Next
    PROVE  IWake'
<1> USE DEF Send
<1>0. /\ TypeOK /\ \A s \in Verdicts : s \in Terminal \cup {"started"}
      /\ {"rebased", "conflict", "error"} \subseteq (Terminal \ {"success"})
  BY BuildSystemAssumption DEF IInv, Terminal
<1>1. CASE \E c \in Canonicals : Upload(c)
  BY <1>1, OthersKeepWakeUp DEF Upload, executor, Scheduled
<1>2. CASE Redis
  BY <1>2, RedisKeepsWakeUp
<1>3. CASE Listener
  <2>1. timers # <<>> /\ timers' = Tail(timers) /\ UNCHANGED <<redis, passed>>
        /\ Scheduled = {Head(timers)} \cup Scheduled'
    <3>1. timers # <<>> /\ timers' = Tail(timers) /\ UNCHANGED <<redis, passed>>
      BY <1>3 DEF Listener, OnStarting, OnSuccess, OnQueuedOrEnded, OnStarted, Due, executor
    <3> QED
      BY <1>0, <3>1, HeadOfTimers DEF IInv
  <2>2. CASE OnQueuedOrEnded
    <3>1. StartCmd \in Commands /\ StartCmd.op = "start" /\ Send(StartCmd)
      BY <2>2, CommandShapes DEF StartCmd, OnQueuedOrEnded
    <3> QED
      BY <2>1, <3>1, OthersKeepWakeUp
  <2>3. CASE ~OnQueuedOrEnded
    <3>1. UNCHANGED pipe /\ Head(timers).state \in {"starting", "success", "started"}
      BY <1>3, <2>3 DEF Listener, OnStarting, OnSuccess, OnStarted, Due
    <3>2. ~WakesUp(Head(timers).state)
      BY <3>1 DEF WakesUp, Terminal
    <3> QED
      BY <2>1, <3>1, <3>2, OthersKeepWakeUp
  <2> QED
    BY <2>2, <2>3
<1>4. ASSUME NEW j \in Jobs, Update(j) \/ Rebase(j) \/ Accept(j) \/ Merge(j) \/ Executor(j)
      PROVE  IWake'
  <2>1. UNCHANGED <<redis, timers>>
    BY <1>4 DEF Update, OnUpdate, OnUpdateIgnored, Rebase, EndRebase, RebaseDone, RebaseNotNeeded,
       RebaseFailed, Accept, Merge, Executor, JobStarted, JobNotStarted, JobDropped, JobEnded
  <2>2. \A t \in Scheduled : t \in Scheduled'
    BY <2>1 DEF Scheduled
  <2>3. CASE UNCHANGED <<pipe, passed>>
    BY <2>1, <2>2, <2>3, OthersKeepWakeUp
  <2>4. CASE OnUpdate(j)
    <3>1. PushCmd(j) \in Commands /\ PushCmd(j).op = "push"
      BY CommandShapes DEF PushCmd
    <3> QED
      BY <2>1, <2>2, <2>4, <3>1, OthersKeepWakeUp DEF OnUpdate, executor
  <2>5. ASSUME NEW s \in (Terminal \ {"success"}) \cup {"started"}, Send(GetCmd(j, s)), UNCHANGED passed
        PROVE  IWake'
    <3>1. GetCmd(j, s) \in Commands /\ GetCmd(j, s).state # "success"
      BY CommandShapes DEF GetCmd
    <3> QED
      BY <2>1, <2>2, <2>5, <3>1, OthersKeepWakeUp
  <2>6. CASE RebaseDone(j) \/ RebaseFailed(j) \/ JobStarted(j) \/ JobNotStarted(j)
    BY <1>0, <2>5, <2>6 DEF RebaseDone, RebaseFailed, JobStarted, JobNotStarted, executor
  <2>7. ASSUME NEW verdict \in Verdicts, JobEnded(j, verdict)
        PROVE  IWake'
    <3>1. /\ GetCmd(j, verdict) \in Commands /\ GetCmd(j, verdict).job = j
          /\ GetCmd(j, verdict).state = verdict
      BY <1>0, CommandShapes DEF GetCmd
    <3>2. /\ Send(GetCmd(j, verdict)) /\ passed \subseteq passed'
          /\ verdict = "success" => j \in passed'
      BY <2>7 DEF JobEnded
    <3> QED
      BY <2>1, <2>2, <3>1, <3>2, OthersKeepWakeUp
  <2>8. CASE RebaseNotNeeded(j) \/ JobDropped(j) \/ Accept(j) \/ Merge(j) \/ OnUpdateIgnored(j)
    BY <2>3, <2>8 DEF RebaseNotNeeded, JobDropped, Accept, Merge, OnUpdateIgnored, executor
  <2> QED
    BY <1>4, <2>4, <2>6, <2>7, <2>8 DEF Update, Rebase, Executor
<1>5. CASE Crash
  <2>1. Sent' = {StartCmd}
    BY <1>5 DEF Crash, Sent, Range
  <2>2. Asks(StartCmd) /\ StartCmd.op = "start"
    BY DEF Asks, StartCmd
  <2> QED
    BY <2>1, <2>2 DEF IWake, SuccessReported, WakeUp, Asked
<1> QED
  BY <1>1, <1>2, <1>3, <1>4, <1>5 DEF Next

\* An idle queue with a waiting change is about to be asked for it, whatever else
\* is under way and whenever the process restarts, unless a successful build has
\* freed the queue, or start.lua left it for others.
THEOREM WakeUpComingHolds == Spec => []WakeUpComing
<1>1. Init => IWake
  <2> SUFFICES ASSUME Init PROVE IWake
    OBVIOUS
  <2>1. Sent = {StartCmd}
    BY DEF Init, Sent, Range
  <2>2. Asks(StartCmd) /\ StartCmd.op = "start"
    BY DEF Asks, StartCmd
  <2> QED
    BY <2>1, <2>2 DEF IWake, SuccessReported, WakeUp, Asked
<1>2. IInv /\ IWake /\ [Next]_vars => IWake'
  <2>1. IWake /\ UNCHANGED vars => IWake'
    BY DEF IWake, SuccessReported, WakeUp, Asked, Crowded, Sent, Scheduled, vars, redis, executor
  <2> QED
    BY <2>1, NextKeepsWakeUp
<1>3. IWake => WakeUpComing
  BY WakeUpIsComing DEF IWake
<1> QED
  BY <1>1, <1>2, <1>3, InvariantHolds, PTL DEF Spec

-----------------------------------------------------------------------------
(* The build system seen from the queue and from the executor.              *)

\* Whatever the build system does, the queue in Redis is only changed by its
\* scripts: what is proved of QueueRedis holds of it.
THEOREM UsesQueueScripts == Spec => R!Spec
<1>1. Init => R!Init
  BY DEF Init
<1>2. IInv /\ [Next]_vars => [R!Next]_(R!vars)
  <2> SUFFICES ASSUME IInv, [Next]_vars PROVE [R!Next]_(R!vars)
    OBVIOUS
  <2>1. CASE DoPush
    <3> DEFINE j == Head(pipe).job
    <3>1. R!Push(Queue(j), j.canonical, j.sha) /\ UNCHANGED now
      BY <2>1 DEF DoPush
    <3>2. j \in Jobs
      BY <2>1, HeadOfPipe, CommandTypes DEF DoPush, AtHead, IInv
    <3>3. Queue(j) \in Queues /\ j.canonical \in Canonicals /\ j.sha \in 1..MaxRev
      BY <3>2, BuildSystemAssumption DEF Jobs, Queue
    <3> QED
      BY <3>1, <3>3 DEF R!Next, R!PushAny
  <2>2. CASE DoStart
    BY <2>2 DEF DoStart, R!Next, R!StartAny
  <2>3. CASE DoComplete
    <3> DEFINE j == Head(pipe).job
    <3>1. R!Complete(Queue(j), j) /\ UNCHANGED now
      BY <2>3 DEF DoComplete
    <3>2. j \in Jobs
      BY <2>3, HeadOfPipe, CommandTypes DEF DoComplete, AtHead, IInv
    <3>3. Queue(j) \in Queues /\ j \in R!Refs
      BY <3>2, BuildSystemAssumption DEF Jobs, Queue, R!Refs
    <3> QED
      BY <3>1, <3>3 DEF R!Next, R!CompleteAny
  <2>4. CASE UNCHANGED redis
    BY <2>4 DEF redis, R!vars, R!redisVars
  <2> QED
    BY <2>1, <2>2, <2>3, <2>4, ScriptsOnly DEF vars
<1> QED
  BY <1>1, <1>2, InvariantHolds, PTL DEF Spec, R!Spec

\* The calls and the reports of the job executor are those that its own
\* specification allows, which CynosureJobExecutor is proved to implement.
THEOREM UsesExecutor == Spec => E!Spec
<1>1. Init => E!Init
  BY DEF Init
<1>2. IInv /\ [Next]_vars => [E!Next]_(E!jxVars)
  <2> SUFFICES ASSUME IInv, [Next]_vars PROVE [E!Next]_(E!jxVars)
    OBVIOUS
  <2>1. CASE UNCHANGED <<exec, abortReq>>
    BY <2>1 DEF E!jxVars
  <2>2. CASE OnQueuedOrEnded
    <3>1. Head(timers) \in Calls
      BY <2>2, HeadOfTimers DEF IInv, OnQueuedOrEnded, Due
    <3>2. Head(timers).job \in Jobs
      BY <3>1 DEF Calls
    <3>3. E!AbortJob(Head(timers).job) \/ UNCHANGED <<exec, abortReq>>
      BY <2>2 DEF OnQueuedOrEnded, E!AbortJob
    <3> QED
      BY <3>2, <3>3, <2>1 DEF E!Next
  <2>3. ASSUME NEW j \in Jobs, RebaseNotNeeded(j) \/ Executor(j)
        PROVE  E!Next
    BY <2>3 DEF RebaseNotNeeded, Executor, JobStarted, JobNotStarted, JobDropped, JobEnded, E!Next
  <2>4. CASE Crash
    BY <2>4 DEF Crash, E!Next
  <2>5. Next => \/ UNCHANGED <<exec, abortReq>> \/ OnQueuedOrEnded \/ Crash
                \/ \E j \in Jobs : RebaseNotNeeded(j) \/ Executor(j)
    BY DEF Next, Redis, DoPush, DoStart, DoComplete, DoQueued, DoSet, DoGet, Untouched, Listener,
       OnStarting, OnSuccess, OnStarted, Upload, Update, OnUpdate, OnUpdateIgnored, Rebase,
       EndRebase, RebaseDone, RebaseFailed, Accept, Merge, executor
  <2>6. UNCHANGED vars => UNCHANGED <<exec, abortReq>>
    BY DEF vars, executor
  <2> QED
    BY <2>1, <2>2, <2>3, <2>4, <2>5, <2>6
<1> QED
  BY <1>1, <1>2, InvariantHolds, PTL DEF Spec, E!Spec
=============================================================================
