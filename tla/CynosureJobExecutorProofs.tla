--------------------- MODULE CynosureJobExecutorProofs ----------------------
(***************************************************************************)
(* Proofs about the job executor for any number of jobs and of process()    *)
(* under way together, any limits of the retries and any restarts.          *)
(*                                                                         *)
(* A job that nobody aborts has one token: its entry in the task queue, or  *)
(* the process() that waits for a reply about it.  The token is passed on   *)
(* until the job's end is reported.  An abort makes a second token, and the *)
(* invariant says what is still known of the two.                           *)
(***************************************************************************)
EXTENDS CynosureJobExecutor, FiniteSetTheorems, SequenceTheorems, TLAPS

\* What is proved of the task queue by itself.
TP == INSTANCE TaskQueueProofs WITH
        Tasks <- Jobs, Clients <- Procs, Kinds <- States, Items <- 0..MaxRetries

-----------------------------------------------------------------------------
(* The inductive invariant.                                                  *)

\* A process() waits for a reply about a job only after it has taken it.
NotYetTaken(p) == ranged[p] # {} => \A j \in Jobs : wait[p][j] = "done"

Holds(p, j) == wait[p][j] # "done"
Present(j) == entries[j] # "absent"

\* What a process() knows of a job while it waits for a reply about it.
RowOK(p, j) ==
    Holds(p, j) =>
        /\ j \in requested /\ j \in Connected /\ Row(p, j) \in T!Rows
        /\ Row(p, j)["queued"] # None
        /\ Row(p, j)["started"] # None => Row(p, j)["starting"] # None
        /\ \A s \in States : Row(p, j)[s] # None => data[j][s] # None
        /\ wait[p][j] \in {"product", "start", "tag"} <=> Row(p, j)["starting"] = None
        /\ wait[p][j] \in {"tag", "abort"} => Aborted(Row(p, j))
        /\ wait[p][j] = "start" => ~Aborted(Row(p, j))
        /\ wait[p][j] = "activity" /\ Row(p, j)["started"] # None => ~Aborted(Row(p, j))
        /\ j \in early => Aborted(Row(p, j))

\* What the data of a task says of its job.
DataOK(j) ==
    /\ data[j]["queued"] # None <=> j \in requested
    /\ data[j]["abort"] # None <=> j \in abortReq
    /\ data[j]["starting"] # None => j \in requested /\ j \in Connected /\ j \notin early
    /\ data[j]["started"] # None => data[j]["starting"] # None /\ Visible(j)
    /\ Present(j) => j \in requested \cup abortReq
    /\ j \in early => j \in requested

\* What was reported is in the data, or true of the build.
CallsOK(j) ==
    /\ Called(j, "started") => data[j]["started"] # None
    /\ Called(j, "success") => build[j] = "passed"
    /\ "abort" \in told[j] => data[j]["starting"] # None

\* A job has one token, its entry or the process() that works on it, until it is aborted.
OneToken(j) ==
    j \in early \/ j \notin abortReq =>
        /\ Present(j) => ~Held(j)
        /\ \A p, q \in Procs : Holds(p, j) /\ Holds(q, j) => p = q

Reports == {<<>>, <<"started">>, <<"error">>} \cup {<<"started", end>> : end \in Ends}

\* The token of a job that is not aborted knows how much was reported, and a job without
\* one has ended.
InOrder(j) ==
    j \notin abortReq =>
        /\ calls[j] \in Reports
        /\ j \notin requested => calls[j] = <<>>
        /\ \A p \in Procs : Holds(p, j) => Row(p, j) = data[j]
        /\ Alive(j) => calls[j] = IF data[j]["started"] # None THEN <<"started">> ELSE <<>>
        /\ j \in requested \ lost => Alive(j) \/ Ended(j)

\* An abort is under way, or was told to the build server.
Sent(j) ==
    j \in (abortReq \cap requested) \ lost =>
        \/ Ended(j)
        \/ Present(j)
        \/ \E p \in Procs : Holds(p, j) /\ (Row(p, j)["starting"] # None \/ data[j]["starting"] = None)
        \/ "abort" \in told[j]
        \/ "tag" \in told[j] /\ data[j]["starting"] = None

JobOK(j) ==
    /\ DataOK(j) /\ CallsOK(j) /\ OneToken(j) /\ InOrder(j) /\ Sent(j)
    /\ \A p \in Procs : RowOK(p, j)

IInv ==
    /\ TypeOK /\ T!IInv
    /\ \A p \in Procs : NotYetTaken(p)
    /\ \A j \in Jobs : JobOK(j)

-----------------------------------------------------------------------------
(* The task queue.                                                           *)

\* What is assumed of the executor's constants is what the task queue assumes.
LEMMA QueueAssumptionHolds == TP!TaskQueueAssumption
BY CynosureJobExecutorAssumption, NoneIsNoData DEF TP!TaskQueueAssumption, TP!IsFiniteSet, IsFiniteSet, T!Rows

\* The inductive invariant of the task queue means the same in both instances.
LEMMA SameIInv == T!IInv <=> TP!IInv
BY DEF T!IInv, TP!IInv, T!TypeOK, TP!TypeOK, T!Rows, TP!Rows, T!FlagMeansTaken,
   TP!FlagMeansTaken, T!OwedIsStored, TP!OwedIsStored

\* The same of the state after a step.
LEMMA SameIInvLater == T!IInv' <=> TP!IInv'
BY SameIInv, PTL

\* What upsert does to the entries and the data.
Put(j, s) ==
    /\ entries'[j] # "absent" /\ data'[j][s] # None
    /\ \A k \in States \ {s} : data'[j][k] = data[j][k]
    /\ \A l \in Jobs \ {j} : entries'[l] = entries[l] /\ data'[l] = data[l]
    /\ UNCHANGED <<taken, ranged>>

\* An upsert of the executor keeps the invariant of the task queue.
LEMMA PutEffect ==
    ASSUME T!IInv, NEW j \in Jobs, NEW when \in {"waiting", "due"}, NEW s \in States,
           NEW n \in 0..MaxRetries, T!Upsert(j, when, s, n)
    PROVE  T!IInv' /\ Put(j, s)
<1>1. TP!Upsert(j, when, s, n)
  BY DEF T!Upsert, TP!Upsert, T!Store, TP!Store, T!Unflag, TP!Unflag
<1>2. T!IInv'
  BY <1>1, TP!UpsertIInv, SameIInv, SameIInvLater, QueueAssumptionHolds
<1>3. /\ entries \in [Jobs -> {"absent", "waiting", "due"}]
      /\ data \in [Jobs -> [States -> (0..MaxRetries) \cup {None}]]
  BY DEF T!IInv, T!TypeOK, T!Rows
<1>4. entries' = [entries EXCEPT ![j] = when]
      /\ data' = [data EXCEPT ![j] = [data[j] EXCEPT ![s] = n]]
      /\ UNCHANGED <<taken, ranged>>
  BY DEF T!Upsert, T!Store
<1>5. n # None
  BY NoneIsNoData
<1>6. data'[j] = [data[j] EXCEPT ![s] = n] /\ data[j] \in [States -> (0..MaxRetries) \cup {None}]
  BY <1>3, <1>4
<1>7. data'[j][s] # None /\ \A k \in States \ {s} : data'[j][k] = data[j][k]
  BY <1>5, <1>6
<1> QED
  BY <1>2, <1>3, <1>4, <1>7 DEF Put

\* What the second step of popExpired does to a job: it is taken if its entry is
\* still there.
LEMMA TakeEffect ==
    ASSUME T!IInv, NEW p \in Procs, T!Take(p)
    PROVE  /\ T!IInv' /\ UNCHANGED data
           /\ ranged[p] # {} /\ ranged' = [ranged EXCEPT ![p] = {}]
           /\ \A q \in Procs \ {p} : taken'[q] = taken[q]
           /\ \A l \in Jobs :
                IF l \in ranged[p] /\ Present(l)
                THEN taken'[p][l] = data[l] /\ entries'[l] = "absent"
                ELSE taken'[p][l] = None /\ entries'[l] = entries[l]
<1>1. TP!Take(p) /\ TP!IInv
  BY SameIInv DEF T!Take, TP!Take, T!Read, TP!Read, T!Remove, TP!Remove, T!Fresh, TP!Fresh, T!NoRow, TP!NoRow
<1>2. T!IInv'
  BY <1>1, TP!TakeIInv, SameIInvLater, QueueAssumptionHolds
<1>3. /\ ranged \in [Procs -> SUBSET Jobs]
      /\ taken \in [Procs -> [Jobs -> T!Rows \cup {None}]]
  BY DEF T!IInv, T!TypeOK
<1>4. \A l \in ranged[p] : l \in T!Fresh(ranged[p]) <=> Present(l)
  BY <1>1, <1>3, TP!FreshIsPresent, QueueAssumptionHolds DEF T!Fresh, TP!Fresh, Present
<1>5. /\ taken'[p] = T!Read(ranged[p])
      /\ entries' = [u \in Jobs |-> IF u \in ranged[p] THEN "absent" ELSE entries[u]]
      /\ ranged[p] # {} /\ ranged' = [ranged EXCEPT ![p] = {}]
      /\ UNCHANGED data
      /\ \A q \in Procs \ {p} : taken'[q] = taken[q]
  BY <1>3 DEF T!Take, T!Remove
<1>6. \A l \in Jobs : taken'[p][l] = IF l \in T!Fresh(ranged[p]) THEN data[l] ELSE None
  BY <1>5 DEF T!Read
<1>7. T!Fresh(ranged[p]) \subseteq ranged[p]
  BY DEF T!Fresh
<1> QED
  BY <1>2, <1>4, <1>5, <1>6, <1>7 DEF Present

\* Every other step of the executor leaves the invariant of the task queue alone.
LEMMA IdleKeepsTasks ==
    ASSUME T!IInv, UNCHANGED <<data, handled, owed>>,
           ranged' \in [Procs -> SUBSET Jobs],
           taken' \in [Procs -> [Jobs -> T!Rows \cup {None}]],
           \A p \in Procs : \A u \in ranged'[p] : u \in ranged[p] \/ entries[u] = "due",
           entries' \in [Jobs -> {"absent", "waiting", "due"}],
           \A u \in Jobs : entries'[u] = "absent" <=> entries[u] = "absent"
    PROVE  T!IInv'
<1>1. T!TypeOK'
  BY DEF T!IInv, T!TypeOK, T!Rows
<1>2. T!FlagMeansTaken'
  BY DEF T!IInv, T!FlagMeansTaken
<1>3. T!OwedIsStored'
  BY DEF T!IInv, T!OwedIsStored
<1> QED
  BY <1>1, <1>2, <1>3 DEF T!IInv

\* So does a step that leaves the task queue alone.
LEMMA TasksUnchanged ==
    ASSUME T!IInv, UNCHANGED <<entries, data, handled, ranged, taken, owed>>
    PROVE  T!IInv'
BY DEF T!IInv, T!TypeOK, T!FlagMeansTaken, T!OwedIsStored

\* A call is in a sequence of calls.
Says(s, w) == \E i \in DOMAIN s : s[i] = w

\* What one more call adds.
LEMMA SaysAppend ==
    ASSUME NEW S, NEW s \in Seq(S), NEW what \in S, NEW w
    PROVE  Says(Append(s, what), w) <=> Says(s, w) \/ w = what
<1>1. /\ Len(s) \in Nat /\ DOMAIN s = 1 .. Len(s)
      /\ DOMAIN Append(s, what) = 1 .. Len(s) + 1
      /\ \A i \in 1 .. Len(s) : Append(s, what)[i] = s[i]
      /\ Append(s, what)[Len(s) + 1] = what
  OBVIOUS
<1>2. Len(s) + 1 \in DOMAIN Append(s, what)
  BY <1>1
<1>3. \A i \in DOMAIN Append(s, what) : i = Len(s) + 1 \/ i \in DOMAIN s
  BY <1>1
<1>4. \A i \in DOMAIN s : i \in DOMAIN Append(s, what)
  BY <1>1
<1> QED
  BY <1>1, <1>2, <1>3, <1>4 DEF Says

\* A sequence of two calls.
LEMMA AppendToOne ==
    ASSUME NEW S, NEW a \in S, NEW e \in S
    PROVE  Append(<<a>>, e) = <<a, e>>
<1> DEFINE s == Append(<<a>>, e)
<1>1. <<a>> \in Seq(S) /\ <<a, e>> \in Seq(S) /\ s \in Seq(S)
  OBVIOUS
<1>2. Len(s) = 2 /\ s[1] = a /\ s[2] = e
  OBVIOUS
<1>3. Len(<<a, e>>) = 2 /\ <<a, e>>[1] = a /\ <<a, e>>[2] = e
  OBVIOUS
<1> HIDE DEF s
<1>4. \A i \in 1 .. 2 : s[i] = <<a, e>>[i]
  BY <1>2, <1>3
<1>5. \A t, u \in Seq(S) : Len(t) = Len(u) /\ (\A i \in 1 .. Len(t) : t[i] = u[i]) => t = u
  BY SeqEqual
<1>6. s = <<a, e>>
  BY <1>1, <1>2, <1>3, <1>4, <1>5
<1> QED
  BY <1>6 DEF s

-----------------------------------------------------------------------------
(* What is said of a job.                                                    *)

BuildStates == {"none", "requested", "ongoing", "aborted"} \cup Verdicts

\* What the build server does does not make a build invisible, or take a success back.
BuildGoesOn(j) ==
    /\ Visible(j) => Visible(j)'
    /\ build[j] = "passed" => build'[j] = "passed"

\* Nobody else did anything about the job.
Untouched(j) ==
    /\ (Present(j)' <=> Present(j)) /\ data'[j] = data[j]
    /\ calls'[j] = calls[j] /\ told'[j] = told[j] /\ BuildGoesOn(j)
    /\ \A p \in Procs : wait'[p][j] = wait[p][j] /\ (Holds(p, j) => taken'[p][j] = taken[p][j])
    /\ j \in requested' <=> j \in requested
    /\ j \in abortReq' <=> j \in abortReq
    /\ j \in early' <=> j \in early
    /\ j \in lost' <=> j \in lost

\* The last state of a job is the furthest one.
LEMMA StageIs ==
    ASSUME NEW row, \E s \in States \ {"abort"} : row[s] # None
    PROVE  /\ row["started"] # None => Stage(row) = "started"
           /\ row["started"] = None /\ row["starting"] # None => Stage(row) = "starting"
           /\ row["started"] = None /\ row["starting"] = None => Stage(row) = "queued"
<1> DEFINE Last(s) == /\ s \in States \ {"abort"} /\ row[s] # None
                      /\ s = "queued" => row["starting"] = None /\ row["started"] = None
                      /\ s = "starting" => row["started"] = None
<1>1. \E s : Last(s)
  BY DEF States
<1>2. Stage(row) = CHOOSE s \in States \ {"abort"} : Last(s)
  BY DEF Stage
<1>3. Last(Stage(row))
  BY <1>1, <1>2
<1>4. Stage(row) \in {"queued", "starting", "started"}
  BY <1>3 DEF States
<1> QED
  BY <1>3, <1>4

\* A call is one more of what was reported.
LEMMA CallEffect ==
    ASSUME calls \in [Jobs -> Seq(Ends \cup {"started"})], NEW j \in Jobs,
           NEW what \in Ends \cup {"started"}, Call(j, what)
    PROVE  /\ calls' \in [Jobs -> Seq(Ends \cup {"started"})]
           /\ calls'[j] = Append(calls[j], what)
           /\ \A l \in Jobs \ {j} : calls'[l] = calls[l]
           /\ \A w : Called(j, w)' <=> Called(j, w) \/ w = what
<1>1. calls[j] \in Seq(Ends \cup {"started"})
  OBVIOUS
<1>2. /\ calls' \in [Jobs -> Seq(Ends \cup {"started"})]
      /\ calls'[j] = Append(calls[j], what)
      /\ \A l \in Jobs \ {j} : calls'[l] = calls[l]
  BY <1>1 DEF Call
<1>3. \A w : Says(Append(calls[j], what), w) <=> Says(calls[j], w) \/ w = what
  BY <1>1, SaysAppend
<1>4. ASSUME NEW w PROVE Called(j, w)' <=> Called(j, w) \/ w = what
  <2>1. (Called(j, w) <=> Says(calls[j], w)) /\ (Called(j, w)' <=> Says(calls'[j], w))
    BY DEF Called, Says
  <2> QED
    BY <1>2, <1>3, <2>1
<1> QED
  BY <1>2, <1>4

\* Nothing is known of a job that was not changed that is not true any longer.
LEMMA UntouchedKeeps ==
    ASSUME NEW j \in Jobs, JobOK(j), Untouched(j)
    PROVE  JobOK(j)'
<1>1. ASSUME NEW p \in Procs PROVE RowOK(p, j)'
  BY DEF JobOK, RowOK, Untouched, Holds, Row, Aborted, T!Rows
<1>2. DataOK(j)'
  BY DEF JobOK, DataOK, Untouched, BuildGoesOn, Present
<1>3. \A w : Called(j, w)' <=> Called(j, w)
  BY DEF Called, Untouched
<1>4. CallsOK(j)'
  BY <1>3 DEF JobOK, CallsOK, Untouched, BuildGoesOn
<1>5. \A p \in Procs : Holds(p, j)' <=> Holds(p, j)
  BY DEF Untouched, Holds
<1>6. /\ Held(j)' <=> Held(j)
      /\ Present(j)' <=> Present(j)
      /\ Alive(j)' <=> Alive(j)
      /\ Ended(j)' <=> Ended(j)
  BY <1>3, <1>5 DEF Untouched, Held, Holds, Present, Alive, Ended
<1>7. OneToken(j)'
  BY <1>5, <1>6 DEF JobOK, OneToken, Untouched
<1>8. InOrder(j)'
  BY <1>5, <1>6 DEF JobOK, InOrder, Untouched, Row
<1>9. Sent(j)'
  BY <1>5, <1>6 DEF JobOK, Sent, Untouched, Row
<1> QED
  BY <1>1, <1>2, <1>4, <1>7, <1>8, <1>9 DEF JobOK

-----------------------------------------------------------------------------
(* startJob, abortJob and the steps of process() around its requests.        *)

\* A job that is asked for gets its token, which knows of an abort that came before.
LEMMA StartJobKeeps ==
    ASSUME IInv, NEW j \in Jobs, StartJob(j)
    PROVE  JobOK(j)' /\ T!IInv' /\ Put(j, "queued")
<1>1. /\ TypeOK /\ T!IInv /\ JobOK(j) /\ 0 \in 0..MaxRetries
      /\ \A p \in Procs : RowOK(p, j)
  BY CynosureJobExecutorAssumption DEF IInv, JobOK
<1>2. T!IInv' /\ Put(j, "queued")
  BY <1>1, PutEffect DEF StartJob, States
<1>3. /\ j \notin requested /\ requested' = requested \cup {j}
      /\ early' = early \cup ({j} \cap abortReq)
      /\ UNCHANGED <<wait, calls, server, abortReq, lost>>
  BY DEF StartJob
<1>4. /\ data'[j]["queued"] # None /\ entries'[j] # "absent" /\ taken' = taken
      /\ \A k \in {"starting", "started", "abort"} : data'[j][k] = data[j][k]
  BY <1>2 DEF Put, States
<1>5. \A p \in Procs : ~Holds(p, j) /\ ~Holds(p, j)'
  BY <1>1, <1>3 DEF RowOK, Holds
<1>6. j \notin early /\ j \notin lost /\ early \subseteq abortReq /\ (j \in early' <=> j \in abortReq)
  BY <1>1, <1>3 DEF TypeOK, JobOK, DataOK
<1>7. /\ \A p \in Procs : RowOK(p, j)'
      /\ ~Held(j)' /\ Present(j)' /\ Alive(j)'
  BY <1>4, <1>5 DEF RowOK, Held, Alive, Present, Holds
<1>8. \A w : Called(j, w)' <=> Called(j, w)
  BY <1>3 DEF Called
<1>9. data[j]["starting"] = None /\ data[j]["started"] = None
  BY <1>1, <1>3 DEF JobOK, DataOK
<1>10. DataOK(j)'
  BY <1>1, <1>3, <1>4, <1>9 DEF JobOK, DataOK
<1>11. CallsOK(j)'
  BY <1>1, <1>3, <1>4, <1>8 DEF JobOK, CallsOK, server
<1>12. OneToken(j)'
  BY <1>5, <1>7 DEF OneToken
<1>13. InOrder(j)'
  BY <1>1, <1>3, <1>4, <1>5, <1>7, <1>9 DEF JobOK, InOrder, Reports
<1>14. Sent(j)'
  BY <1>7 DEF Sent
<1> QED
  BY <1>2, <1>7, <1>10, <1>11, <1>12, <1>13, <1>14 DEF JobOK

\* An abort makes a token of its own.
LEMMA AbortJobKeeps ==
    ASSUME IInv, NEW j \in Jobs, AbortJob(j)
    PROVE  JobOK(j)' /\ T!IInv' /\ Put(j, "abort")
<1>1. /\ TypeOK /\ T!IInv /\ JobOK(j) /\ 0 \in 0..MaxRetries
      /\ \A p \in Procs : RowOK(p, j)
  BY CynosureJobExecutorAssumption DEF IInv, JobOK
<1>2. T!IInv' /\ Put(j, "abort")
  BY <1>1, PutEffect DEF AbortJob, States
<1>3. /\ j \notin abortReq /\ abortReq' = abortReq \cup {j}
      /\ UNCHANGED <<wait, calls, server, requested, early, lost>>
  BY DEF AbortJob
<1>4. /\ data'[j]["abort"] # None /\ entries'[j] # "absent" /\ taken' = taken
      /\ \A k \in {"queued", "starting", "started"} : data'[j][k] = data[j][k]
  BY <1>2 DEF Put, States
<1>5. j \notin early
  BY <1>1, <1>3 DEF TypeOK
<1>6. ASSUME NEW p \in Procs PROVE RowOK(p, j)'
  <2>1. \A s \in States : data[j][s] # None => data'[j][s] # None
    BY <1>4 DEF States
  <2>2. RowOK(p, j)
    BY <1>1
  <2> QED
    BY <2>1, <2>2, <1>3, <1>4, <1>5 DEF RowOK, Holds, Row, Aborted, T!Rows
<1>7. \A w : Called(j, w)' <=> Called(j, w)
  BY <1>3 DEF Called
<1>8. DataOK(j)'
  BY <1>1, <1>3, <1>4 DEF JobOK, DataOK, Visible, server
<1>9. CallsOK(j)'
  BY <1>1, <1>3, <1>4, <1>7 DEF JobOK, CallsOK, server
<1>10. j \in abortReq' /\ j \notin early' /\ Present(j)'
  BY <1>3, <1>4, <1>5 DEF Present
<1> QED
  BY <1>2, <1>6, <1>8, <1>9, <1>10 DEF JobOK, OneToken, InOrder, Sent

\* The token is passed on to the process() that takes the task, or the job ends.
LEMMA TakeKeeps ==
    ASSUME IInv, NEW p \in Procs, TakeTasks(p), NEW j \in Jobs, j \in ranged[p], Present(j)
    PROVE  JobOK(j)'
<1>1. /\ TypeOK /\ T!IInv /\ JobOK(j) /\ T!TypeOK /\ NotYetTaken(p)
      /\ \A q \in Procs : RowOK(q, j)
  BY DEF IInv, JobOK, T!IInv
<1>2. /\ UNCHANGED <<data, server, history>>
      /\ \A q \in Procs \ {p} : taken'[q] = taken[q]
      /\ ranged[p] # {}
      /\ taken'[p][j] = data[j] /\ entries'[j] = "absent"
  BY <1>1, TakeEffect DEF TakeTasks
<1>3. data[j] \in T!Rows /\ data[j] # None
  BY <1>1, NoneIsNoData DEF T!TypeOK
<1>4. /\ wait' = [wait EXCEPT ![p] = [l \in Jobs |-> FirstRequest(l, taken'[p][l])]]
      /\ calls' = [l \in Jobs |-> IF taken'[p][l] # None /\ l \notin Connected
                                  THEN Append(calls[l], "error") ELSE calls[l]]
  BY DEF TakeTasks
<1>5. /\ wait'[p][j] = FirstRequest(j, data[j])
      /\ \A q \in Procs \ {p} : wait'[q] = wait[q]
      /\ ~Holds(p, j)
  BY <1>1, <1>2, <1>4 DEF TypeOK, NotYetTaken, Holds
<1>6. ASSUME NEW q \in Procs \ {p} PROVE RowOK(q, j)' /\ (Holds(q, j)' <=> Holds(q, j))
  BY <1>1, <1>2, <1>5 DEF RowOK, Holds, Row, Aborted, history
<1>7. DataOK(j)' /\ ~Present(j)'
  BY <1>1, <1>2 DEF JobOK, DataOK, Present, Visible, server, history
<1>8. CASE j \notin Connected
  <2>1. /\ wait'[p][j] = "done"
        /\ calls'[j] = Append(calls[j], "error") /\ calls[j] \in Seq(Ends \cup {"started"})
        /\ "error" \in Ends
    BY <1>1, <1>2, <1>3, <1>4, <1>5, <1>8 DEF FirstRequest, TypeOK, Ends
  <2>2. RowOK(p, j)' /\ ~Holds(p, j)'
    BY <2>1 DEF RowOK, Holds
  <2>3. \A q \in Procs : ~Holds(q, j)'
    BY <2>2, <1>1, <1>6, <1>8 DEF RowOK
  <2>4. ~Alive(j)'
    BY <2>3, <1>7 DEF Alive, Held, Holds, Present
  <2>5. \A w : Says(Append(calls[j], "error"), w) <=> Says(calls[j], w) \/ w = "error"
    BY <2>1, SaysAppend
  <2>6. \A w : Called(j, w)' <=> Called(j, w) \/ w = "error"
    <3> TAKE w
    <3>1. (Called(j, w) <=> Says(calls[j], w)) /\ (Called(j, w)' <=> Says(calls'[j], w))
      BY DEF Called, Says
    <3> QED
      BY <2>1, <2>5, <3>1
  <2>7. Ended(j)'
    BY <2>6 DEF Ended, Ends
  <2>8. CallsOK(j)'
    BY <2>6, <1>1, <1>2 DEF JobOK, CallsOK, server
  <2>9. OneToken(j)' /\ Sent(j)'
    BY <2>3, <2>7, <1>7 DEF OneToken, Sent
  <2>10. InOrder(j)'
    <3> SUFFICES ASSUME j \notin abortReq
                 PROVE  /\ calls'[j] \in Reports
                        /\ j \notin requested => calls'[j] = <<>>
      BY <2>3, <2>4, <2>7, <1>2 DEF InOrder, history
    <3>1. j \in requested /\ Alive(j) /\ data[j]["started"] = None
      BY <1>1, <1>8 DEF JobOK, DataOK, Present, Alive
    <3>2. calls[j] = <<>>
      BY <3>1, <1>1 DEF JobOK, InOrder
    <3>3. calls'[j] = <<"error">>
      BY <3>2, <2>1
    <3> QED
      BY <3>1, <3>3 DEF Reports
  <2> QED
    BY <2>2, <1>6, <1>7, <2>8, <2>9, <2>10 DEF JobOK
<1>9. CASE j \in Connected
  <2>1. calls'[j] = calls[j]
    BY <1>4, <1>9
  <2>2. \A w : Called(j, w)' <=> Called(j, w)
    BY <2>1 DEF Called
  <2>3. CallsOK(j)'
    BY <2>2, <1>1, <1>2 DEF JobOK, CallsOK, server
  <2>4. CASE j \notin requested
    <3>1. \A s \in States \ {"abort"} : data[j][s] = None
      BY <2>4, <1>1 DEF JobOK, DataOK, States
    <3>2. wait'[p][j] = "done"
      BY <3>1, <1>5 DEF FirstRequest
    <3>3. RowOK(p, j)' /\ ~Holds(p, j)'
      BY <3>2 DEF RowOK, Holds
    <3>4. \A q \in Procs : ~Holds(q, j)'
      BY <3>3, <2>4, <1>1, <1>6 DEF RowOK
    <3>5. ~Alive(j)' /\ j \in abortReq /\ j \notin requested'
      BY <3>4, <2>4, <1>1, <1>2, <1>7 DEF Alive, Held, Holds, Present, JobOK, DataOK, history
    <3>6. OneToken(j)' /\ InOrder(j)' /\ Sent(j)'
      BY <3>4, <3>5, <1>2, <1>7 DEF OneToken, InOrder, Sent, history
    <3> QED
      BY <3>3, <3>6, <2>3, <1>6, <1>7 DEF JobOK
  <2>5. CASE j \in requested
    <3>1. /\ data[j]["queued"] # None
          /\ data[j]["started"] # None => data[j]["starting"] # None
          /\ data[j]["abort"] # None <=> j \in abortReq
      BY <2>5, <1>1 DEF JobOK, DataOK
    <3>2. "queued" \in States \ {"abort"}
      BY DEF States
    <3>3. wait'[p][j] = CASE Stage(data[j]) = "queued" -> "product"
                          [] Stage(data[j]) = "starting" -> "activity"
                          [] Stage(data[j]) = "started" ->
                               IF Aborted(data[j]) THEN "abort" ELSE "activity"
      BY <3>1, <3>2, <1>3, <1>5, <1>9 DEF FirstRequest
    <3>4. /\ data[j]["starting"] = None => wait'[p][j] = "product"
          /\ data[j]["started"] # None =>
               wait'[p][j] = IF Aborted(data[j]) THEN "abort" ELSE "activity"
          /\ data[j]["starting"] # None /\ data[j]["started"] = None => wait'[p][j] = "activity"
      BY <3>1, <3>2, <3>3, StageIs
    <3>5. Holds(p, j)'
      BY <3>4 DEF Holds
    <3>6. early \subseteq abortReq
      BY <1>1 DEF TypeOK
    <3>7. RowOK(p, j)'
      <4>1. Row(p, j)' = data[j] /\ data' = data /\ requested' = requested /\ early' = early
        BY <1>2 DEF Row, history
      <4>2. wait'[p][j] \in {"product", "start", "tag"} <=> data[j]["starting"] = None
        BY <3>1, <3>4
      <4> QED
        BY <4>1, <4>2, <3>1, <3>4, <3>6, <2>5, <1>3, <1>9 DEF RowOK, Aborted
    <3>8. OneToken(j)'
      <4> SUFFICES ASSUME j \in early \/ j \notin abortReq
                   PROVE  \A q, r \in Procs : Holds(q, j)' /\ Holds(r, j)' => q = r
        BY <1>2, <1>7 DEF OneToken, history
      <4>1. \A q \in Procs : ~Holds(q, j)
        BY <1>1 DEF JobOK, OneToken, Held, Holds
      <4>2. \A q \in Procs : Holds(q, j)' => q = p
        BY <4>1, <1>6
      <4> QED
        BY <4>2
    <3>9. InOrder(j)'
      <4> SUFFICES ASSUME j \notin abortReq PROVE InOrder(j)'
        BY <1>2 DEF InOrder, history
      <4>1. \A q \in Procs : ~Holds(q, j)
        BY <1>1 DEF JobOK, OneToken, Held, Holds
      <4>2. \A q \in Procs : Holds(q, j)' => q = p
        BY <4>1, <1>6
      <4>3. Row(p, j)' = data[j] /\ data' = data
        BY <1>2 DEF Row
      <4>4. Alive(j) /\ Alive(j)'
        BY <3>5 DEF Alive, Present, Held, Holds
      <4> QED
        BY <4>2, <4>3, <4>4, <2>1, <1>1, <1>2 DEF JobOK, InOrder, history
    <3>10. Sent(j)'
      <4>1. Row(p, j)' = data[j] /\ data' = data
        BY <1>2 DEF Row
      <4>2. Row(p, j)'["starting"] # None \/ data'[j]["starting"] = None
        BY <4>1
      <4> QED
        BY <4>2, <3>5 DEF Sent
    <3> QED
      BY <3>7, <3>8, <3>9, <3>10, <2>3, <1>6, <1>7 DEF JobOK
  <2> QED
    BY <2>4, <2>5
<1> QED
  BY <1>8, <1>9

\* A restart loses the process() that hold the job, but not its entry.
LEMMA ExitKeeps ==
    ASSUME IInv, NEW j \in Jobs, Exit, BuildGoesOn(j), UNCHANGED told
    PROVE  JobOK(j)'
<1>1. /\ TypeOK /\ JobOK(j)
      /\ \A q \in Procs : RowOK(q, j)
  BY DEF IInv, JobOK
<1>2. /\ UNCHANGED <<entries, data, calls, requested, abortReq, early>>
      /\ wait' = [p \in Procs |-> [l \in Jobs |-> "done"]]
      /\ j \in lost' <=> j \in lost \/ (j \in requested /\ entries[j] = "absent" /\ Held(j))
  BY DEF Exit, Held
<1>3. \A q \in Procs : ~Holds(q, j)' /\ RowOK(q, j)'
  BY <1>2 DEF Holds, RowOK
<1>4. ~Held(j)' /\ (Present(j)' <=> Present(j)) /\ (Alive(j)' <=> Present(j))
  BY <1>2, <1>3 DEF Held, Holds, Present, Alive
<1>5. \A w : Called(j, w)' <=> Called(j, w)
  BY <1>2 DEF Called
<1>6. Ended(j)' <=> Ended(j)
  BY <1>5 DEF Ended
<1>7. DataOK(j)' /\ CallsOK(j)' /\ OneToken(j)'
  BY <1>1, <1>2, <1>3, <1>4, <1>5 DEF JobOK, DataOK, CallsOK, OneToken, BuildGoesOn, Present
<1>8. InOrder(j)'
  BY <1>1, <1>2, <1>3, <1>4, <1>6 DEF JobOK, InOrder, Alive, Present
<1>9. Sent(j)'
  BY <1>1, <1>2, <1>4, <1>6 DEF JobOK, Sent, Present, Held, Holds
<1> QED
  BY <1>3, <1>7, <1>8, <1>9 DEF JobOK

-----------------------------------------------------------------------------
(* What the handlers of the replies do, by what becomes of the token.        *)

\* The build server goes on, with the build of that job only.
Builds(j) ==
    /\ build' \in [Jobs -> BuildStates] /\ BuildGoesOn(j)
    /\ \A l \in Jobs \ {j} : build'[l] = build[l]

\* Another request is sent.
Asks(p, j, request) ==
    /\ Then(p, j, request)
    /\ \/ wait[p][j] = "product" /\ request = IF Aborted(Row(p, j)) THEN "tag" ELSE "start"
       \/ wait[p][j] = "activity" /\ request = "abort" /\ Aborted(Row(p, j))
    /\ UNCHANGED <<tasks, calls, server>>

\* The task is put back: once more in a state that it was in, or in its next one.
Retries(p, j, s) == Row(p, j)[s] # None /\ UNCHANGED calls
Starts(p, j, s) == s = "starting" /\ wait[p][j] = "start" /\ UNCHANGED calls
Begins(p, j, s) ==
    /\ s = "started" /\ wait[p][j] = "activity"
    /\ Row(p, j)["started"] = None /\ ~Aborted(Row(p, j))
    /\ Visible(j) /\ Call(j, "started")
PutsBack(p, j, s) ==
    /\ Then(p, j, "done")
    /\ \E n \in 0..MaxRetries : PutBack(j, s, n)
    /\ Retries(p, j, s) \/ Starts(p, j, s) \/ Begins(p, j, s)
    /\ Builds(j) /\ UNCHANGED told

\* The end of the job is reported.
Reporting(p, j, end) ==
    /\ Then(p, j, "done")
    /\ Call(j, end)
    /\ end = "success" => build[j] = "passed"
    /\ Row(p, j)["started"] = None => end = "error"
    /\ Builds(j) /\ UNCHANGED <<tasks, told>>

\* The abort was told to the build server.
Telling(p, j) ==
    /\ Then(p, j, "done")
    /\ \/ wait[p][j] = "tag" /\ told' = [told EXCEPT ![j] = @ \cup {"tag"}]
       \/ wait[p][j] = "abort" /\ told' = [told EXCEPT ![j] = {"tag", "abort"}]
    /\ Builds(j) /\ UNCHANGED <<tasks, calls>>

\* An error is a retry or a report.
LEMMA ErrorKinds ==
    ASSUME IInv, NEW p \in Procs, NEW j \in Jobs, Holds(p, j), NEW limit \in 0..MaxRetries,
           HandleError(p, j, limit), Builds(j), UNCHANGED told
    PROVE  \/ \E s \in States \ {"abort"} : PutsBack(p, j, s)
           \/ \E end \in Ends : Reporting(p, j, end)
<1> DEFINE s == Stage(Row(p, j))
           n == Row(p, j)[s]
<1>1. RowOK(p, j)
  BY DEF IInv, JobOK
<1>2. Row(p, j) \in [States -> (0..MaxRetries) \cup {None}] /\ Row(p, j)["queued"] # None
      /\ "queued" \in States \ {"abort"}
  BY <1>1 DEF RowOK, T!Rows, States
<1>3. s \in States \ {"abort"} /\ n # None
  BY <1>2, StageIs DEF States
<1>4. n \in 0..MaxRetries
  BY <1>2, <1>3
<1>5. /\ Then(p, j, "done")
      /\ IF n < limit THEN PutBack(j, s, n + 1) /\ UNCHANGED calls
         ELSE Call(j, "error") /\ UNCHANGED tasks
  BY DEF HandleError
<1> HIDE DEF s, n
<1>6. CASE n < limit
  <2>1. n + 1 \in 0..MaxRetries
    BY <1>4, <1>6, CynosureJobExecutorAssumption
  <2>2. Row(p, j)[s] # None
    BY <1>3 DEF n
  <2>3. PutsBack(p, j, s)
    BY <1>5, <1>6, <2>1, <2>2 DEF PutsBack, Retries
  <2> QED
    BY <1>3, <2>3
<1>7. CASE ~(n < limit)
  <2>1. Reporting(p, j, "error") /\ "error" \in Ends
    BY <1>5, <1>7 DEF Reporting, Ends
  <2> QED
    BY <2>1
<1> QED
  BY <1>6, <1>7

\* The limits are retries.
LEMMA LimitTypes ==
    /\ FindProductRetries \in 0..MaxRetries /\ StartRetries \in 0..MaxRetries
    /\ FindActivityRetries \in 0..MaxRetries /\ PollRetries \in 0..MaxRetries
    /\ ErrorRetries \in 0..MaxRetries /\ 0 \in 0..MaxRetries
BY CynosureJobExecutorAssumption

\* What a request does to the build.
LEMMA BuildEffect ==
    ASSUME TypeOK, NEW j \in Jobs, \/ UNCHANGED build \/ build' = Tagged(j) \/ AbortReceived(j)
    PROVE  Builds(j)
<1>1. build \in [Jobs -> BuildStates]
  BY DEF TypeOK, BuildStates
<1>2. CASE UNCHANGED build
  BY <1>1, <1>2 DEF Builds, BuildGoesOn, Visible
<1>3. CASE build' = Tagged(j)
  BY <1>1, <1>3 DEF Tagged, Builds, BuildGoesOn, Visible, BuildStates
<1>4. CASE AbortReceived(j)
  BY <1>1, <1>4 DEF AbortReceived, Builds, BuildGoesOn, Visible, BuildStates
<1> QED
  BY <1>2, <1>3, <1>4

\* The handlers do one of these.
LEMMA AnswerKinds ==
    ASSUME IInv, NEW p \in Procs, NEW j \in Jobs, Answer(p, j)
    PROVE  /\ Holds(p, j) /\ UNCHANGED <<timer, history>>
           /\ \/ \E r \in {"tag", "start", "abort"} : Asks(p, j, r)
              \/ \E s \in States \ {"abort"} : PutsBack(p, j, s)
              \/ \E end \in Ends : Reporting(p, j, end)
              \/ Telling(p, j)
<1>0. TypeOK /\ RowOK(p, j) /\ DataOK(j)
  BY DEF IInv, JobOK
<1> SUFFICES /\ Holds(p, j)
             /\ \/ \E r \in {"tag", "start", "abort"} : Asks(p, j, r)
                \/ \E s \in States \ {"abort"} : PutsBack(p, j, s)
                \/ \E end \in Ends : Reporting(p, j, end)
                \/ Telling(p, j)
  BY DEF Answer
<1>1. CASE ProductFound(p, j)
  BY <1>1 DEF ProductFound, Asks, Holds
<1>2. CASE ProductMissing(p, j)
  <2>1. Holds(p, j) /\ Builds(j) /\ UNCHANGED told
    BY <1>0, <1>2, BuildEffect DEF ProductMissing, Holds, server
  <2> QED
    BY <2>1, <1>2, ErrorKinds, LimitTypes DEF ProductMissing
<1>3. CASE ActivityStarted(p, j)
  <2>1. Holds(p, j) /\ Builds(j) /\ UNCHANGED told
    BY <1>0, <1>3, BuildEffect DEF ActivityStarted, Holds
  <2>2. PutsBack(p, j, "starting") /\ "starting" \in States \ {"abort"}
    BY <2>1, <1>3, LimitTypes DEF ActivityStarted, PutsBack, Starts, States
  <2> QED
    BY <2>1, <2>2
<1>4. CASE StartRefused(p, j)
  <2>1. Holds(p, j) /\ Builds(j) /\ UNCHANGED told
    BY <1>0, <1>4, BuildEffect DEF StartRefused, Holds, server
  <2> QED
    BY <2>1, <1>4, ErrorKinds, LimitTypes DEF StartRefused
<1>5. CASE ActivityFound(p, j)
  <2>1. Holds(p, j) /\ Builds(j) /\ UNCHANGED told /\ wait[p][j] = "activity"
    BY <1>0, <1>5, BuildEffect DEF ActivityFound, Holds, server
  <2>2. CASE Aborted(Row(p, j))
    <3>1. Asks(p, j, "abort")
      BY <2>1, <2>2, <1>5 DEF ActivityFound, Asks
    <3> QED
      BY <2>1, <3>1
  <2>3. CASE ~Aborted(Row(p, j))
    <3>1. Row(p, j)["started"] = None
      <4>1. Row(p, j)["queued"] # None /\ "queued" \in States \ {"abort"}
        BY <1>0, <2>1 DEF RowOK, States
      <4> QED
        BY <4>1, <1>5, StageIs DEF ActivityFound
    <3>2. PutsBack(p, j, "started") /\ "started" \in States \ {"abort"}
      BY <2>1, <2>3, <3>1, <1>5, LimitTypes DEF ActivityFound, PutsBack, Begins, States
    <3> QED
      BY <2>1, <3>2
  <2> QED
    BY <2>2, <2>3
<1>6. CASE ActivityPolled(p, j)
  <2>1. Holds(p, j) /\ Builds(j) /\ UNCHANGED told /\ wait[p][j] = "activity"
    BY <1>0, <1>6, BuildEffect DEF ActivityPolled, Holds, server
  <2>2. Row(p, j)["started"] # None
    <3>1. Row(p, j)["queued"] # None /\ "queued" \in States \ {"abort"}
      BY <1>0, <2>1 DEF RowOK, States
    <3> QED
      BY <3>1, <1>6, StageIs DEF ActivityPolled
  <2>3. data[j]["started"] # None
    BY <2>1, <2>2, <1>0 DEF RowOK, States
  <2>4. Visible(j)
    BY <2>3, <1>0 DEF DataOK
  <2>5. CASE build[j] = "ongoing"
    <3>1. PutsBack(p, j, "started") /\ "started" \in States \ {"abort"}
      BY <2>1, <2>2, <2>5, <1>6, LimitTypes DEF ActivityPolled, PutsBack, Retries, States
    <3> QED
      BY <2>1, <3>1
  <2>6. CASE build[j] # "ongoing"
    <3>1. build[j] \in {"passed", "failed", "errored", "aborted"}
      BY <2>4, <2>6, <1>0, CynosureJobExecutorAssumption DEF TypeOK, Visible
    <3>2. Report[build[j]] \in Ends /\ (Report[build[j]] = "success" => build[j] = "passed")
      BY <3>1 DEF Report, Ends
    <3>3. Reporting(p, j, Report[build[j]])
      BY <2>1, <2>2, <2>6, <3>2, <1>6 DEF ActivityPolled, Reporting
    <3> QED
      BY <2>1, <3>2, <3>3
  <2> QED
    BY <2>5, <2>6
<1>7. CASE ActivityMissing(p, j)
  <2>1. Holds(p, j) /\ Builds(j) /\ UNCHANGED told
    BY <1>0, <1>7, BuildEffect DEF ActivityMissing, Holds, server
  <2>2. PICK limit \in 0..MaxRetries : HandleError(p, j, limit)
    BY <1>7, LimitTypes DEF ActivityMissing
  <2> QED
    BY <2>1, <2>2, ErrorKinds
<1>8. CASE TagDone(p, j)
  <2>1. Holds(p, j) /\ Builds(j)
    BY <1>0, <1>8, BuildEffect DEF TagDone, Holds
  <2> QED
    BY <2>1, <1>8 DEF TagDone, Telling
<1>9. CASE AbortDone(p, j)
  <2>1. Holds(p, j) /\ Builds(j)
    BY <1>0, <1>9, BuildEffect DEF AbortDone, Holds
  <2> QED
    BY <2>1, <1>9 DEF AbortDone, Telling
<1>10. CASE AbortFailed(p, j)
  <2>1. Holds(p, j) /\ Builds(j) /\ UNCHANGED told
    BY <1>0, <1>10, BuildEffect DEF AbortFailed, Holds
  <2> QED
    BY <2>1, <1>10, ErrorKinds, LimitTypes DEF AbortFailed
<1>11. CASE RequestFailed(p, j)
  <2>1. UNCHANGED build \/ build' = Tagged(j)
    BY <1>11 DEF RequestFailed
  <2>2. Holds(p, j) /\ Builds(j) /\ UNCHANGED told
    BY <1>0, <2>1, <1>11, BuildEffect DEF RequestFailed, Holds
  <2> QED
    BY <2>2, <1>11, ErrorKinds, LimitTypes DEF RequestFailed
<1> QED
  BY <1>1, <1>2, <1>3, <1>4, <1>5, <1>6, <1>7, <1>8, <1>9, <1>10, <1>11 DEF Answer

-----------------------------------------------------------------------------
(* The four kinds keep what is known of the job.                             *)

Requests == {"done", "product", "start", "tag", "activity", "abort"}

\* A handler changes what it waits for, and nothing else.
LEMMA ThenEffect ==
    ASSUME TypeOK, NEW p \in Procs, NEW j \in Jobs, NEW r \in Requests, Then(p, j, r)
    PROVE  /\ wait' \in [Procs -> [Jobs -> Requests]]
           /\ wait'[p][j] = r
           /\ \A q \in Procs, l \in Jobs : q # p \/ l # j => wait'[q][l] = wait[q][l]
<1>1. wait \in [Procs -> [Jobs -> Requests]]
  BY DEF TypeOK, Requests
<1> QED
  BY <1>1 DEF Then

\* The token stays where it is.
LEMMA AsksKeeps ==
    ASSUME IInv, NEW p \in Procs, NEW j \in Jobs, Holds(p, j), UNCHANGED history,
           NEW r \in {"tag", "start", "abort"}, Asks(p, j, r)
    PROVE  JobOK(j)'
<1>1. /\ TypeOK /\ JobOK(j) /\ r \in Requests
      /\ \A q \in Procs : RowOK(q, j)
  BY DEF IInv, JobOK, Requests
<1>2. /\ wait'[p][j] = r /\ \A q \in Procs \ {p} : wait'[q][j] = wait[q][j]
  BY <1>1, ThenEffect DEF Asks
<1>3. /\ UNCHANGED <<entries, data, taken, calls, build, told>>
      /\ UNCHANGED <<requested, abortReq, early, lost>>
  BY DEF Asks, tasks, server, history
<1>4. \A q \in Procs : Holds(q, j)' <=> Holds(q, j)
  BY <1>2 DEF Holds
<1>5. ASSUME NEW q \in Procs PROVE RowOK(q, j)'
  <2>1. CASE q # p
    BY <2>1, <1>1, <1>2, <1>3 DEF RowOK, Holds, Row, Aborted, T!Rows
  <2>2. CASE q = p
    <3>1. Row(p, j)' = Row(p, j)
      BY <1>3 DEF Row
    <3>2. /\ r \in {"tag", "start"} => Row(p, j)["starting"] = None
          /\ r = "abort" => Row(p, j)["starting"] # None
          /\ r \in {"tag", "abort"} <=> Aborted(Row(p, j))
      BY <1>1 DEF Asks, RowOK, Holds
    <3> QED
      BY <2>2, <3>1, <3>2, <1>1, <1>2, <1>3 DEF RowOK, Holds, Aborted, T!Rows
  <2> QED
    BY <2>1, <2>2
<1>6. \A w : Called(j, w)' <=> Called(j, w)
  BY <1>3 DEF Called
<1>7. /\ Held(j)' <=> Held(j)
      /\ Present(j)' <=> Present(j)
      /\ Alive(j)' <=> Alive(j)
      /\ Ended(j)' <=> Ended(j)
  BY <1>3, <1>4, <1>6 DEF Held, Holds, Present, Alive, Ended
<1>8. DataOK(j)' /\ CallsOK(j)'
  BY <1>1, <1>3, <1>6 DEF JobOK, DataOK, CallsOK, Visible, Present
<1>9. OneToken(j)' /\ InOrder(j)' /\ Sent(j)'
  BY <1>1, <1>3, <1>4, <1>7 DEF JobOK, OneToken, InOrder, Sent, Row
<1> QED
  BY <1>5, <1>8, <1>9 DEF JobOK

\* The process() does not hold the job any longer; what it and others know of it stays true.
LEMMA LetGo ==
    ASSUME IInv, NEW p \in Procs, NEW j \in Jobs, Then(p, j, "done"), UNCHANGED <<taken, history>>,
           \A s \in States : data[j][s] # None => data'[j][s] # None
    PROVE  /\ \A q \in Procs : RowOK(q, j)' /\ (Holds(q, j)' <=> Holds(q, j) /\ q # p)
           /\ \A q \in Procs : Row(q, j)' = Row(q, j)
<1>1. /\ TypeOK /\ "done" \in Requests
      /\ \A q \in Procs : RowOK(q, j)
  BY DEF IInv, JobOK, Requests
<1>2. wait'[p][j] = "done" /\ \A q \in Procs \ {p} : wait'[q][j] = wait[q][j]
  BY <1>1, ThenEffect
<1>3. \A q \in Procs : Holds(q, j)' <=> Holds(q, j) /\ q # p
  BY <1>2 DEF Holds
<1>4. ASSUME NEW q \in Procs PROVE RowOK(q, j)'
  BY <1>1, <1>2, <1>3 DEF RowOK, Holds, Row, Aborted, T!Rows, history
<1> QED
  BY <1>3, <1>4 DEF Row

\* The token goes back into the task queue.
LEMMA PutsBackKeeps ==
    ASSUME IInv, NEW p \in Procs, NEW j \in Jobs, Holds(p, j), UNCHANGED history,
           NEW s \in States \ {"abort"}, PutsBack(p, j, s)
    PROVE  JobOK(j)' /\ T!IInv' /\ Put(j, s)
<1>1. /\ TypeOK /\ T!IInv /\ JobOK(j) /\ s \in States
      /\ RowOK(p, j) /\ Builds(j) /\ BuildGoesOn(j) /\ UNCHANGED told
  BY DEF IInv, JobOK, PutsBack, Builds
<1>2. T!IInv' /\ Put(j, s)
  BY <1>1, PutEffect DEF PutsBack, PutBack
<1>3. /\ entries'[j] # "absent" /\ data'[j][s] # None /\ UNCHANGED taken
      /\ \A k \in States \ {s} : data'[j][k] = data[j][k]
      /\ UNCHANGED <<requested, abortReq, early, lost>>
  BY <1>2 DEF Put, history
<1>4. Present(j)' /\ Alive(j)'
  BY <1>3 DEF Present, Alive
<1>5. \A k \in States : data[j][k] # None => data'[j][k] # None
  BY <1>3
<1>6. /\ \A q \in Procs : RowOK(q, j)' /\ (Holds(q, j)' <=> Holds(q, j) /\ q # p)
      /\ \A q \in Procs : Row(q, j)' = Row(q, j)
  BY <1>3, <1>5, LetGo DEF PutsBack
<1>7. /\ j \in requested /\ j \in Connected
      /\ Row(p, j)["queued"] # None /\ (j \in early => Aborted(Row(p, j)))
      /\ Row(p, j)["started"] # None => Row(p, j)["starting"] # None
      /\ \A k \in States : Row(p, j)[k] # None => data[j][k] # None
      /\ wait[p][j] = "activity" => Row(p, j)["starting"] # None
      /\ wait[p][j] = "start" => ~Aborted(Row(p, j))
  BY <1>1 DEF RowOK
<1>8. /\ s = "queued" => data[j]["queued"] # None
      /\ s = "starting" => j \notin early
      /\ s = "started" => data[j]["starting"] # None /\ Visible(j)
      /\ s \in {"queued", "starting", "started"}
  <2>0. s \in {"queued", "starting", "started"}
    BY DEF States
  <2>1. CASE Retries(p, j, s)
    <3>1. data[j][s] # None
      BY <2>1, <1>1, <1>7 DEF Retries
    <3> QED
      BY <3>1, <2>0, <1>1 DEF JobOK, DataOK
  <2>2. CASE Starts(p, j, s)
    BY <2>2, <1>7 DEF Starts
  <2>3. CASE Begins(p, j, s)
    BY <2>3, <1>7 DEF Begins, States
  <2> QED
    BY <2>0, <2>1, <2>2, <2>3 DEF PutsBack
<1>9. DataOK(j)'
  <2>1. /\ data'[j]["queued"] # None <=> j \in requested
        /\ data'[j]["abort"] # None <=> j \in abortReq
    BY <1>1, <1>3, <1>5, <1>7, <1>8 DEF JobOK, DataOK, States
  <2>2. data'[j]["starting"] # None => j \in requested /\ j \in Connected /\ j \notin early
    BY <1>1, <1>3, <1>7, <1>8 DEF JobOK, DataOK, States
  <2>3. data'[j]["started"] # None => data'[j]["starting"] # None /\ Visible(j)'
    BY <1>1, <1>3, <1>5, <1>8 DEF JobOK, DataOK, States, BuildGoesOn
  <2> QED
    BY <2>1, <2>2, <2>3, <1>3, <1>7, <1>1 DEF JobOK, DataOK
<1>10. \A w : Called(j, w)' => Called(j, w) \/ (w = "started" /\ s = "started")
  <2>1. CASE calls' = calls
    BY <2>1 DEF Called
  <2>2. CASE Begins(p, j, s)
    BY <2>2, <1>1, CallEffect DEF Begins, TypeOK
  <2> QED
    BY <2>1, <2>2 DEF PutsBack, Retries, Starts
<1>11. CallsOK(j)'
  BY <1>1, <1>3, <1>5, <1>10 DEF JobOK, CallsOK, BuildGoesOn, States
<1>12. OneToken(j)'
  <2> SUFFICES ASSUME j \in early \/ j \notin abortReq
               PROVE  \A q \in Procs : ~Holds(q, j)'
    BY <1>3 DEF OneToken, Held, Holds
  <2> QED
    BY <1>1, <1>6 DEF JobOK, OneToken
<1>13. InOrder(j)'
  <2> SUFFICES ASSUME j \notin abortReq
               PROVE  /\ calls'[j] \in Reports
                      /\ calls'[j] = IF data'[j]["started"] # None THEN <<"started">> ELSE <<>>
    <3>1. j \notin abortReq => \A q \in Procs : ~Holds(q, j)'
      BY <1>1, <1>6 DEF JobOK, OneToken
    <3> QED
      BY <3>1, <1>3, <1>4, <1>7 DEF InOrder
  <2>1. /\ calls[j] = IF data[j]["started"] # None THEN <<"started">> ELSE <<>>
        /\ Row(p, j) = data[j]
    BY <1>1 DEF JobOK, InOrder, Alive, Held, Holds
  <2>2. CASE Retries(p, j, s) \/ Starts(p, j, s)
    <3>1. data'[j]["started"] # None <=> data[j]["started"] # None
      BY <2>1, <2>2, <1>3, <1>5 DEF Retries, Starts, States
    <3>2. calls'[j] = calls[j]
      BY <2>2 DEF Retries, Starts
    <3> QED
      BY <2>1, <3>1, <3>2 DEF Reports
  <2>3. CASE Begins(p, j, s)
    <3>1. data[j]["started"] = None /\ data'[j]["started"] # None
      BY <2>1, <2>3, <1>3 DEF Begins
    <3>2. calls[j] = <<>> /\ calls'[j] = Append(calls[j], "started")
      BY <2>1, <2>3, <3>1, <1>1, CallEffect DEF Begins, TypeOK
    <3>3. calls'[j] = <<"started">>
      BY <3>2
    <3> QED
      BY <3>1, <3>3 DEF Reports
  <2> QED
    BY <2>2, <2>3 DEF PutsBack
<1>14. Sent(j)'
  BY <1>4 DEF Sent
<1> QED
  BY <1>2, <1>6, <1>9, <1>11, <1>12, <1>13, <1>14 DEF JobOK

\* The token is gone when the end is reported.
LEMMA ReportingKeeps ==
    ASSUME IInv, NEW p \in Procs, NEW j \in Jobs, Holds(p, j), UNCHANGED history,
           NEW end \in Ends, Reporting(p, j, end)
    PROVE  JobOK(j)'
<1>1. /\ TypeOK /\ JobOK(j) /\ RowOK(p, j) /\ BuildGoesOn(j) /\ UNCHANGED told
      /\ end \in Ends \cup {"started"} /\ end # "started"
  BY DEF IInv, JobOK, Reporting, Builds, Ends
<1>2. /\ UNCHANGED <<entries, data, taken>>
      /\ UNCHANGED <<requested, abortReq, early, lost>>
  BY DEF Reporting, tasks, history
<1>3. /\ \A q \in Procs : RowOK(q, j)' /\ (Holds(q, j)' <=> Holds(q, j) /\ q # p)
      /\ \A q \in Procs : Row(q, j)' = Row(q, j)
  BY <1>2, LetGo DEF Reporting
<1>4. /\ calls'[j] = Append(calls[j], end)
      /\ \A w : Called(j, w)' <=> Called(j, w) \/ w = end
  BY <1>1, CallEffect DEF Reporting, TypeOK
<1>5. Ended(j)'
  BY <1>4 DEF Ended
<1>6. DataOK(j)'
  BY <1>1, <1>2 DEF JobOK, DataOK, BuildGoesOn, Present
<1>7. CallsOK(j)'
  BY <1>1, <1>2, <1>4 DEF JobOK, CallsOK, BuildGoesOn, Reporting
<1>8. j \in requested /\ Held(j) /\ Alive(j)
  BY <1>1 DEF RowOK, Held, Holds, Alive
<1>9. j \in early \/ j \notin abortReq => ~Alive(j)'
  <2> SUFFICES ASSUME j \in early \/ j \notin abortReq PROVE ~Alive(j)'
    OBVIOUS
  <2>1. ~Present(j) /\ \A q \in Procs : ~Holds(q, j)'
    BY <1>1, <1>3, <1>8 DEF JobOK, OneToken
  <2> QED
    BY <2>1, <1>2 DEF Alive, Present, Held, Holds
<1>10. OneToken(j)'
  BY <1>2, <1>9 DEF OneToken, Alive, Present, Held, Holds
<1>11. InOrder(j)'
  <2> SUFFICES ASSUME j \notin abortReq PROVE calls'[j] \in Reports
    BY <1>2, <1>5, <1>8, <1>9 DEF InOrder, Alive, Held, Holds
  <2>1. /\ calls[j] = IF data[j]["started"] # None THEN <<"started">> ELSE <<>>
        /\ Row(p, j) = data[j]
    BY <1>1, <1>8 DEF JobOK, InOrder
  <2>2. CASE data[j]["started"] = None
    <3>1. end = "error" /\ calls[j] = <<>>
      BY <2>1, <2>2 DEF Reporting
    <3>2. calls'[j] = <<"error">>
      BY <3>1, <1>1, <1>4, AppendToOne
    <3> QED
      BY <3>2 DEF Reports
  <2>3. CASE data[j]["started"] # None
    <3>1. calls[j] = <<"started">>
      BY <2>1, <2>3
    <3>2. calls'[j] = <<"started", end>>
      BY <3>1, <1>1, <1>4, AppendToOne
    <3> QED
      BY <3>2 DEF Reports
  <2> QED
    BY <2>2, <2>3
<1>12. Sent(j)'
  BY <1>5 DEF Sent
<1> QED
  BY <1>3, <1>6, <1>7, <1>10, <1>11, <1>12 DEF JobOK

\* The token is gone when the build server was told of the abort.
LEMMA TellingKeeps ==
    ASSUME IInv, NEW p \in Procs, NEW j \in Jobs, Holds(p, j), UNCHANGED history, Telling(p, j)
    PROVE  JobOK(j)'
<1>1. /\ TypeOK /\ JobOK(j) /\ RowOK(p, j) /\ BuildGoesOn(j) /\ told[j] \in SUBSET {"tag", "abort"}
  BY DEF IInv, JobOK, Telling, Builds, TypeOK
<1>2. /\ UNCHANGED <<entries, data, taken, calls>>
      /\ UNCHANGED <<requested, abortReq, early, lost>>
  BY DEF Telling, tasks, history
<1>3. /\ \A q \in Procs : RowOK(q, j)' /\ (Holds(q, j)' <=> Holds(q, j) /\ q # p)
      /\ \A q \in Procs : Row(q, j)' = Row(q, j)
  BY <1>2, LetGo DEF Telling
<1>4. \A w : Called(j, w)' <=> Called(j, w)
  BY <1>2 DEF Called
<1>5. Ended(j)' <=> Ended(j)
  BY <1>4 DEF Ended
<1>6. /\ j \in requested /\ Aborted(Row(p, j))
      /\ wait[p][j] = "abort" => data[j]["starting"] # None
      /\ Aborted(Row(p, j)) => data[j]["abort"] # None
      /\ wait[p][j] = "tag" => Row(p, j)["starting"] = None
      /\ wait[p][j] = "abort" => Row(p, j)["starting"] # None
  BY <1>1 DEF RowOK, Telling, Aborted, States
<1>7. j \in abortReq
  BY <1>1, <1>6 DEF JobOK, DataOK
<1>8. told \in [Jobs -> SUBSET {"tag", "abort"}]
  BY <1>1 DEF TypeOK
<1>9. \/ wait[p][j] = "tag" /\ told'[j] = told[j] \cup {"tag"}
      \/ wait[p][j] = "abort" /\ told'[j] = {"tag", "abort"}
  BY <1>8 DEF Telling
<1>10. DataOK(j)'
  BY <1>1, <1>2 DEF JobOK, DataOK, BuildGoesOn, Present
<1>11. CallsOK(j)'
  BY <1>1, <1>2, <1>4, <1>6, <1>9 DEF JobOK, CallsOK, BuildGoesOn
<1>12. OneToken(j)'
  BY <1>1, <1>2, <1>3 DEF JobOK, OneToken, Present, Held, Holds
<1>13. InOrder(j)'
  BY <1>2, <1>7 DEF InOrder
<1>14. Sent(j)'
  <2>1. Present(j)' <=> Present(j)
    BY <1>2 DEF Present
  <2> SUFFICES ASSUME j \notin lost, ~Ended(j), ~Present(j), "abort" \notin told'[j],
                      ~("tag" \in told'[j] /\ data[j]["starting"] = None)
               PROVE  \E q \in Procs : Holds(q, j)' /\ (Row(q, j)'["starting"] # None \/ data'[j]["starting"] = None)
    BY <2>1, <1>2, <1>5 DEF Sent
  <2>2. wait[p][j] = "tag" /\ data[j]["starting"] # None /\ "abort" \notin told[j]
    BY <1>9
  <2>3. PICK q \in Procs : Holds(q, j) /\ Row(q, j)["starting"] # None
    BY <2>2, <1>1, <1>6, <1>7 DEF JobOK, Sent
  <2>4. q # p
    BY <2>2, <2>3, <1>6
  <2> QED
    BY <2>3, <2>4, <1>3
<1> QED
  BY <1>3, <1>10, <1>11, <1>12, <1>13, <1>14 DEF JobOK

-----------------------------------------------------------------------------
(* Every step keeps the invariant.                                           *)

\* The executor starts without any job.
LEMMA InitIInv == Init => IInv
<1> SUFFICES ASSUME Init PROVE IInv
  OBVIOUS
<1>1. T!IInv
  <2>1. TP!Init
    BY DEF Init, T!Init, TP!Init, T!NoRow, TP!NoRow, T!NoWork, TP!NoWork
  <2> QED
    BY <2>1, TP!InitIInv, SameIInv, QueueAssumptionHolds
<1>2. TypeOK
  BY <1>1, CynosureJobExecutorAssumption DEF Init, TypeOK, T!IInv
<1>3. \A p \in Procs : NotYetTaken(p) /\ \A j \in Jobs : ~Holds(p, j) /\ RowOK(p, j)
  BY DEF Init, NotYetTaken, RowOK, Holds
<1>4. ASSUME NEW j \in Jobs PROVE JobOK(j)
  <2>1. /\ entries[j] = "absent" /\ calls[j] = <<>>
        /\ \A s \in States : data[j][s] = None
        /\ requested = {} /\ abortReq = {} /\ early = {} /\ lost = {} /\ told[j] = {}
    BY DEF Init, T!Init, T!NoRow
  <2>2. ~Present(j) /\ ~Held(j) /\ ~Alive(j)
    BY <2>1, <1>3 DEF Present, Held, Holds, Alive
  <2>3. \A w : ~Called(j, w)
    BY <2>1 DEF Called
  <2>4. DataOK(j) /\ CallsOK(j)
    BY <2>1, <2>2, <2>3 DEF DataOK, CallsOK, States
  <2>5. OneToken(j) /\ InOrder(j) /\ Sent(j)
    BY <2>1, <2>2, <1>3 DEF OneToken, InOrder, Sent, Reports
  <2> QED
    BY <2>4, <2>5, <1>3 DEF JobOK
<1> QED
  BY <1>1, <1>2, <1>3, <1>4 DEF IInv

\* What is left to show of a step that does something about one job.
LEMMA OneJobKeeps ==
    ASSUME IInv, NEW j \in Jobs, TypeOK', T!IInv', \A p \in Procs : NotYetTaken(p)',
           JobOK(j)', \A l \in Jobs \ {j} : Untouched(l)
    PROVE  IInv'
<1>1. \A l \in Jobs \ {j} : JobOK(l)'
  BY UntouchedKeeps DEF IInv
<1> QED
  BY <1>1 DEF IInv

\* And of a step that does nothing about any.
LEMMA NoJobKeeps ==
    ASSUME IInv, TypeOK', T!IInv', \A p \in Procs : NotYetTaken(p)',
           \A l \in Jobs : Untouched(l)
    PROVE  IInv'
<1>1. \A l \in Jobs : JobOK(l)'
  BY UntouchedKeeps DEF IInv
<1> QED
  BY <1>1 DEF IInv

\* startJob.
LEMMA StartJobIInv ==
    ASSUME IInv, NEW j \in Jobs, StartJob(j)
    PROVE  IInv' /\ \A l \in Jobs \ {j} : Untouched(l)
<1>1. TypeOK /\ \A p \in Procs : NotYetTaken(p)
  BY DEF IInv
<1>2. JobOK(j)' /\ T!IInv' /\ Put(j, "queued")
  BY StartJobKeeps
<1>3. TypeOK'
  BY <1>1, <1>2 DEF StartJob, TypeOK, T!IInv, server, BuildStates
<1>4. \A p \in Procs : NotYetTaken(p)'
  BY <1>1, <1>2 DEF StartJob, NotYetTaken, Put
<1>5. \A l \in Jobs \ {j} : Untouched(l)
  BY <1>1, <1>2 DEF StartJob, Untouched, Put, Present, BuildGoesOn, Visible, server, TypeOK
<1> QED
  BY <1>2, <1>3, <1>4, <1>5, OneJobKeeps

\* abortJob.
LEMMA AbortJobIInv ==
    ASSUME IInv, NEW j \in Jobs, AbortJob(j)
    PROVE  IInv' /\ \A l \in Jobs \ {j} : Untouched(l)
<1>1. TypeOK /\ \A p \in Procs : NotYetTaken(p)
  BY DEF IInv
<1>2. JobOK(j)' /\ T!IInv' /\ Put(j, "abort")
  BY AbortJobKeeps
<1>3. TypeOK'
  BY <1>1, <1>2 DEF AbortJob, TypeOK, T!IInv, server, BuildStates
<1>4. \A p \in Procs : NotYetTaken(p)'
  BY <1>1, <1>2 DEF AbortJob, NotYetTaken, Put
<1>5. \A l \in Jobs \ {j} : Untouched(l)
  BY <1>1, <1>2 DEF AbortJob, Untouched, Put, Present, BuildGoesOn, Visible, server, TypeOK
<1> QED
  BY <1>2, <1>3, <1>4, <1>5, OneJobKeeps

\* Time passes.
LEMMA BecomeDueIInv ==
    ASSUME IInv, NEW j \in Jobs, BecomeDue(j)
    PROVE  IInv' /\ \A l \in Jobs : Untouched(l)
<1>1. TypeOK /\ T!TypeOK /\ T!IInv /\ \A p \in Procs : NotYetTaken(p)
  BY DEF IInv, T!IInv
<1>2. /\ entries[j] = "waiting" /\ entries' = [entries EXCEPT ![j] = "due"]
      /\ UNCHANGED <<data, handled, ranged, taken, owed>>
      /\ UNCHANGED <<timer, wait, calls, server, history>>
  BY DEF BecomeDue, T!BecomeDue
<1>3. T!IInv'
  BY <1>1, <1>2, IdleKeepsTasks DEF T!TypeOK
<1>4. TypeOK' /\ \A p \in Procs : NotYetTaken(p)'
  BY <1>1, <1>2, <1>3 DEF TypeOK, T!IInv, NotYetTaken, server, history
<1>5. \A l \in Jobs : Untouched(l)
  BY <1>1, <1>2 DEF T!TypeOK, Untouched, Present, BuildGoesOn, Visible, server, history
<1> QED
  BY <1>3, <1>4, <1>5, NoJobKeeps

\* The first step of a poll.
LEMMA PollIInv ==
    ASSUME IInv, NEW p \in Procs, Poll(p)
    PROVE  IInv' /\ \A l \in Jobs : Untouched(l)
<1>1. /\ TypeOK /\ T!TypeOK /\ T!IInv
      /\ \A q \in Procs : NotYetTaken(q) /\ \A j \in Jobs : RowOK(q, j)
  BY DEF IInv, JobOK, T!IInv
<1>2. PICK U \in SUBSET T!Due : ranged' = [ranged EXCEPT ![p] = U]
  BY DEF Poll, T!ZRange
<1>3. /\ ranged[p] = {} /\ taken[p] = T!NoWork /\ timer' = FALSE
      /\ UNCHANGED <<entries, data, handled, taken, owed, wait, calls, server, history>>
  BY DEF Poll, T!ZRange, T!Idle, T!redisVars
<1>4. U \subseteq Jobs /\ \A u \in U : entries[u] = "due"
  BY DEF T!Due
<1>5. T!IInv'
  BY <1>1, <1>2, <1>3, <1>4, IdleKeepsTasks DEF T!TypeOK
<1>6. ASSUME NEW j \in Jobs PROVE wait[p][j] = "done"
  <2>1. Row(p, j) = None
    BY <1>3 DEF Row, T!NoWork
  <2>2. None \notin T!Rows
    BY NoneIsNoData
  <2> QED
    BY <2>1, <2>2, <1>1 DEF RowOK, Holds
<1>7. TypeOK'
  BY <1>1, <1>3, <1>5 DEF TypeOK, T!IInv, server, history
<1>8. \A q \in Procs : NotYetTaken(q)'
  BY <1>1, <1>2, <1>3, <1>6 DEF NotYetTaken, T!TypeOK
<1>9. \A l \in Jobs : Untouched(l)
  BY <1>3 DEF Untouched, Present, BuildGoesOn, Visible, server, history
<1> QED
  BY <1>5, <1>7, <1>8, <1>9, NoJobKeeps

\* The second step of a poll.
LEMMA TakeTasksIInv ==
    ASSUME IInv, NEW p \in Procs, TakeTasks(p)
    PROVE  IInv' /\ \A l \in Jobs : (l \in ranged[p] /\ Present(l)) \/ Untouched(l)
<1>1. TypeOK /\ T!IInv /\ T!TypeOK /\ \A q \in Procs : NotYetTaken(q)
  BY DEF IInv, T!IInv
<1>2. /\ T!IInv' /\ UNCHANGED data
      /\ ranged[p] # {} /\ ranged' = [ranged EXCEPT ![p] = {}]
      /\ \A q \in Procs \ {p} : taken'[q] = taken[q]
      /\ \A l \in Jobs :
           IF l \in ranged[p] /\ Present(l)
           THEN taken'[p][l] = data[l] /\ entries'[l] = "absent"
           ELSE taken'[p][l] = None /\ entries'[l] = entries[l]
  BY <1>1, TakeEffect DEF TakeTasks
<1>3. /\ wait' = [wait EXCEPT ![p] = [l \in Jobs |-> FirstRequest(l, taken'[p][l])]]
      /\ calls' = [l \in Jobs |-> IF taken'[p][l] # None /\ l \notin Connected
                                  THEN Append(calls[l], "error") ELSE calls[l]]
      /\ timer' = (timer \/ taken'[p] = T!NoWork)
      /\ UNCHANGED <<server, history>>
  BY DEF TakeTasks
<1>4. ASSUME NEW l \in Jobs PROVE FirstRequest(l, taken'[p][l]) \in Requests
  <2> DEFINE row == taken'[p][l]
  <2>1. CASE row = None \/ l \notin Connected \/ \A s \in States \ {"abort"} : row[s] = None
    BY <2>1 DEF FirstRequest, Requests
  <2>2. CASE ~(row = None \/ l \notin Connected \/ \A s \in States \ {"abort"} : row[s] = None)
    <3>1. Stage(row) \in {"queued", "starting", "started"}
      BY <2>2, StageIs
    <3> QED
      BY <2>2, <3>1 DEF FirstRequest, Requests
  <2> QED
    BY <2>1, <2>2
<1>5. wait' \in [Procs -> [Jobs -> Requests]]
  BY <1>1, <1>3, <1>4 DEF TypeOK, Requests
<1>6. calls' \in [Jobs -> Seq(Ends \cup {"started"})]
  <2>1. \A l \in Jobs : calls[l] \in Seq(Ends \cup {"started"}) /\ "error" \in Ends \cup {"started"}
    BY <1>1 DEF TypeOK, Ends
  <2>2. \A l \in Jobs : Append(calls[l], "error") \in Seq(Ends \cup {"started"})
    BY <2>1
  <2> QED
    BY <2>1, <2>2, <1>3
<1>7. TypeOK'
  BY <1>1, <1>2, <1>3, <1>5, <1>6 DEF TypeOK, T!IInv, Requests, server, history
<1>8. \A q \in Procs : NotYetTaken(q)'
  BY <1>1, <1>2, <1>3 DEF NotYetTaken, TypeOK, T!TypeOK
<1>9. ASSUME NEW l \in Jobs, ~(l \in ranged[p] /\ Present(l)) PROVE Untouched(l)
  <2>1. taken'[p][l] = None /\ entries'[l] = entries[l]
    BY <1>2, <1>9
  <2>2. wait'[p][l] = "done" /\ wait[p][l] = "done" /\ calls'[l] = calls[l]
    BY <2>1, <1>1, <1>2, <1>3 DEF FirstRequest, TypeOK, NotYetTaken
  <2>3. \A q \in Procs \ {p} : wait'[q] = wait[q]
    BY <1>1, <1>3 DEF TypeOK
  <2> QED
    BY <2>1, <2>2, <2>3, <1>2, <1>3 DEF Untouched, Holds, Present, BuildGoesOn, Visible, server, history
<1>10. \A l \in Jobs : JobOK(l)'
  BY <1>9, UntouchedKeeps, TakeKeeps DEF IInv
<1> QED
  BY <1>2, <1>7, <1>8, <1>9, <1>10 DEF IInv

\* A batch is dealt with.
LEMMA FinishBatchIInv ==
    ASSUME IInv, NEW p \in Procs, FinishBatch(p)
    PROVE  IInv' /\ \A l \in Jobs : Untouched(l)
<1>1. TypeOK /\ T!IInv /\ T!TypeOK /\ \A q \in Procs : NotYetTaken(q)
  BY DEF IInv, T!IInv
<1>2. /\ \A j \in Jobs : wait[p][j] = "done"
      /\ taken' = [taken EXCEPT ![p] = T!NoWork] /\ timer' = TRUE
      /\ UNCHANGED <<entries, data, handled, ranged, owed, wait, calls, server, history>>
  BY DEF FinishBatch, T!Finish, T!redisVars
<1>3. T!NoWork \in [Jobs -> T!Rows \cup {None}]
  BY DEF T!NoWork
<1>4. T!IInv'
  BY <1>1, <1>2, <1>3, IdleKeepsTasks DEF T!TypeOK
<1>5. TypeOK' /\ \A q \in Procs : NotYetTaken(q)'
  BY <1>1, <1>2, <1>4 DEF TypeOK, T!IInv, NotYetTaken, server, history
<1>6. \A l \in Jobs : Untouched(l)
  BY <1>1, <1>2 DEF T!TypeOK, Untouched, Holds, Present, BuildGoesOn, Visible, server, history
<1> QED
  BY <1>4, <1>5, <1>6, NoJobKeeps

\* A reply, or a request that failed.
LEMMA AnswerIInv ==
    ASSUME IInv, NEW p \in Procs, NEW j \in Jobs, Answer(p, j)
    PROVE  IInv' /\ \A l \in Jobs \ {j} : Untouched(l)
<1> DEFINE Kept == IInv' /\ \A l \in Jobs \ {j} : Untouched(l)
<1>1. TypeOK /\ T!IInv /\ \A q \in Procs : NotYetTaken(q)
  BY DEF IInv
<1>2. /\ Holds(p, j) /\ UNCHANGED <<timer, history>>
      /\ \/ \E r \in {"tag", "start", "abort"} : Asks(p, j, r)
         \/ \E s \in States \ {"abort"} : PutsBack(p, j, s)
         \/ \E end \in Ends : Reporting(p, j, end)
         \/ Telling(p, j)
  BY AnswerKinds
<1>3. ASSUME NEW r \in Requests, Then(p, j, r), ranged' = ranged, T!IInv', TypeOK',
             JobOK(j)', UNCHANGED taken,
             \A l \in Jobs \ {j} : /\ (Present(l)' <=> Present(l)) /\ data'[l] = data[l]
                                   /\ calls'[l] = calls[l] /\ told'[l] = told[l]
                                   /\ build'[l] = build[l]
      PROVE  Kept
  <2>1. \A q \in Procs, l \in Jobs : q # p \/ l # j => wait'[q][l] = wait[q][l]
    BY <1>1, <1>3, ThenEffect
  <2>2. \A l \in Jobs \ {j} : Untouched(l)
    BY <2>1, <1>2, <1>3 DEF Untouched, BuildGoesOn, Visible, history
  <2>3. ASSUME NEW q \in Procs, ranged'[q] # {}, NEW l \in Jobs PROVE wait'[q][l] = "done"
    <3>1. wait[q][l] = "done" /\ wait[q][j] = "done"
      BY <2>3, <1>1, <1>3 DEF NotYetTaken
    <3>2. q # p
      BY <3>1, <1>2 DEF Holds
    <3> QED
      BY <3>1, <3>2, <2>1
  <2>4. \A q \in Procs : NotYetTaken(q)'
    BY <2>3 DEF NotYetTaken
  <2> QED
    BY <2>2, <2>4, <1>3, OneJobKeeps
<1>4. ASSUME NEW r \in {"tag", "start", "abort"}, Asks(p, j, r) PROVE Kept
  <2>1. JobOK(j)' /\ r \in Requests /\ Then(p, j, r)
    BY <1>2, <1>4, AsksKeeps DEF Asks, Requests
  <2>2. UNCHANGED <<tasks, calls, server>>
    BY <1>4 DEF Asks
  <2>3. T!IInv'
    BY <2>2, TasksUnchanged, <1>1 DEF tasks
  <2>4. TypeOK'
    BY <2>1, <2>2, <2>3, <1>1, <1>2, ThenEffect DEF TypeOK, T!IInv, Requests, history, server
  <2> QED
    BY <2>1, <2>2, <2>3, <2>4, <1>3 DEF tasks, server, Present
<1>5. ASSUME NEW s \in States \ {"abort"}, PutsBack(p, j, s) PROVE Kept
  <2>1. JobOK(j)' /\ T!IInv' /\ Put(j, s)
    BY <1>2, <1>5, PutsBackKeeps
  <2>2. Then(p, j, "done") /\ Builds(j) /\ UNCHANGED told /\ "done" \in Requests
    BY <1>5 DEF PutsBack, Requests
  <2>3. /\ calls' \in [Jobs -> Seq(Ends \cup {"started"})]
        /\ \A l \in Jobs \ {j} : calls'[l] = calls[l]
    <3>1. CASE calls' = calls
      BY <3>1, <1>1 DEF TypeOK
    <3>2. CASE Call(j, "started")
      BY <3>2, <1>1, CallEffect DEF TypeOK
    <3> QED
      BY <3>1, <3>2, <1>5 DEF PutsBack, Retries, Starts, Begins
  <2>4. TypeOK'
    BY <2>1, <2>2, <2>3, <1>1, <1>2, ThenEffect DEF TypeOK, T!IInv, Requests, history, Builds, BuildStates
  <2> QED
    BY <2>1, <2>2, <2>3, <2>4, <1>3 DEF Put, Builds, Present
<1>6. ASSUME NEW end \in Ends, Reporting(p, j, end) PROVE Kept
  <2>1. JobOK(j)'
    BY <1>2, <1>6, ReportingKeeps
  <2>2. /\ Then(p, j, "done") /\ Builds(j) /\ UNCHANGED <<tasks, told>> /\ "done" \in Requests
        /\ Call(j, end) /\ end \in Ends \cup {"started"}
    BY <1>6 DEF Reporting, Requests
  <2>3. T!IInv'
    BY <2>2, TasksUnchanged, <1>1 DEF tasks
  <2>4. /\ calls' \in [Jobs -> Seq(Ends \cup {"started"})]
        /\ \A l \in Jobs \ {j} : calls'[l] = calls[l]
    BY <2>2, <1>1, CallEffect DEF TypeOK
  <2>5. TypeOK'
    BY <2>2, <2>3, <2>4, <1>1, <1>2, ThenEffect DEF TypeOK, T!IInv, Requests, history, Builds, BuildStates
  <2> QED
    BY <2>1, <2>2, <2>3, <2>4, <2>5, <1>3 DEF tasks, Builds, Present
<1>7. CASE Telling(p, j)
  <2>1. JobOK(j)'
    BY <1>2, <1>7, TellingKeeps
  <2>2. /\ Then(p, j, "done") /\ Builds(j) /\ UNCHANGED <<tasks, calls>> /\ "done" \in Requests
    BY <1>7 DEF Telling, Requests
  <2>3. T!IInv'
    BY <2>2, TasksUnchanged, <1>1 DEF tasks
  <2>4. /\ told' \in [Jobs -> SUBSET {"tag", "abort"}]
        /\ \A l \in Jobs \ {j} : told'[l] = told[l]
    BY <1>1, <1>7 DEF Telling, TypeOK
  <2>5. TypeOK'
    BY <2>2, <2>3, <2>4, <1>1, <1>2, ThenEffect DEF TypeOK, T!IInv, Requests, history, Builds, BuildStates
  <2> QED
    BY <2>1, <2>2, <2>3, <2>4, <2>5, <1>3 DEF tasks, Builds, Present
<1> QED
  BY <1>2, <1>4, <1>5, <1>6, <1>7

\* The process ends and starts again.
LEMMA ExitIInv ==
    ASSUME IInv, Exit, UNCHANGED told, build' \in [Jobs -> BuildStates],
           \A j \in Jobs : BuildGoesOn(j)
    PROVE  IInv'
<1>1. TypeOK /\ T!IInv /\ T!TypeOK
  BY DEF IInv, T!IInv
<1>2. /\ UNCHANGED <<entries, data, handled, owed, calls, requested, abortReq, early>>
      /\ ranged' = [p \in Procs |-> {}] /\ taken' = [p \in Procs |-> T!NoWork]
      /\ wait' = [p \in Procs |-> [l \in Jobs |-> "done"]]
      /\ timer' = TRUE /\ crashes < MaxCrash /\ crashes' = crashes + 1
      /\ lost' \subseteq requested
  BY <1>1 DEF Exit, TypeOK
<1>3. T!NoWork \in [Jobs -> T!Rows \cup {None}]
  BY DEF T!NoWork
<1>4. T!IInv'
  BY <1>1, <1>2, <1>3, IdleKeepsTasks DEF T!TypeOK
<1>5. crashes' \in 0..MaxCrash
  BY <1>1, <1>2, CynosureJobExecutorAssumption DEF TypeOK
<1>6. TypeOK' /\ \A q \in Procs : NotYetTaken(q)'
  BY <1>1, <1>2, <1>4, <1>5 DEF TypeOK, T!IInv, NotYetTaken, BuildStates
<1>7. \A l \in Jobs : JobOK(l)'
  BY ExitKeeps
<1> QED
  BY <1>4, <1>6, <1>7 DEF IInv

\* The build server goes on.
LEMMA ServerIInv ==
    ASSUME IInv, UNCHANGED <<tasks, timer, wait, calls, told, history>>,
           build' \in [Jobs -> BuildStates], \A l \in Jobs : BuildGoesOn(l)
    PROVE  IInv' /\ \A l \in Jobs : Untouched(l)
<1>1. TypeOK /\ T!IInv /\ \A q \in Procs : NotYetTaken(q)
  BY DEF IInv
<1>2. T!IInv'
  BY <1>1, TasksUnchanged DEF tasks
<1>3. TypeOK' /\ \A q \in Procs : NotYetTaken(q)'
  BY <1>1, <1>2 DEF TypeOK, T!IInv, NotYetTaken, BuildStates, history, tasks
<1>4. \A l \in Jobs : Untouched(l)
  BY DEF Untouched, Present, tasks, history
<1> QED
  BY <1>2, <1>3, <1>4, NoJobKeeps

\* Every step of the executor keeps the invariant.
LEMMA NextIInv == IInv /\ [Next]_vars => IInv'
<1> SUFFICES ASSUME IInv, [Next]_vars PROVE IInv'
  OBVIOUS
<1>0. TypeOK /\ build \in [Jobs -> BuildStates]
  BY DEF IInv, TypeOK, BuildStates
<1>1. ASSUME NEW j \in Jobs, BuildAppears(j) \/ BuildEnds(j) PROVE IInv'
  <2>1. build' \in [Jobs -> BuildStates] /\ \A l \in Jobs : BuildGoesOn(l)
    <3>1. PICK b \in BuildStates \ {"none", "requested"} :
             build' = [build EXCEPT ![j] = b] /\ build[j] \in {"requested", "ongoing"}
      BY <1>1, CynosureJobExecutorAssumption DEF BuildAppears, BuildEnds, BuildStates
    <3>2. build'[j] = b /\ \A l \in Jobs \ {j} : build'[l] = build[l]
      BY <3>1, <1>0
    <3>3. \A l \in Jobs : BuildGoesOn(l)
      BY <3>1, <3>2 DEF BuildGoesOn, Visible
    <3> QED
      BY <3>1, <3>3, <1>0
  <2> QED
    BY <2>1, <1>1, ServerIInv DEF BuildAppears, BuildEnds
<1>2. CASE UNCHANGED vars
  <2>1. \A l \in Jobs : BuildGoesOn(l)
    BY <1>2 DEF vars, server, BuildGoesOn, Visible
  <2> QED
    BY <2>1, <1>0, <1>2, ServerIInv DEF vars, server
<1>3. ASSUME NEW p \in Procs, PollNothing(p) PROVE IInv'
  BY <1>2, <1>3 DEF PollNothing
<1>4. CASE Crash
  <2>1. \A l \in Jobs : BuildGoesOn(l)
    BY <1>4 DEF Crash, server, BuildGoesOn, Visible
  <2> QED
    BY <2>1, <1>0, <1>4, ExitIInv DEF Crash, server
<1>5. ASSUME NEW p \in Procs, NEW j \in Jobs, AbortFailedStarted(p, j) PROVE IInv'
  <2>1. Builds(j)
    BY <1>0, <1>5, BuildEffect DEF AbortFailedStarted
  <2>2. \A l \in Jobs : BuildGoesOn(l)
    BY <2>1 DEF Builds, BuildGoesOn, Visible
  <2> QED
    BY <2>1, <2>2, <1>5, ExitIInv DEF AbortFailedStarted, Builds
<1> QED
  BY <1>1, <1>2, <1>3, <1>4, <1>5, StartJobIInv, AbortJobIInv, BecomeDueIInv, PollIInv,
     TakeTasksIInv, FinishBatchIInv, AnswerIInv DEF Next

\* The invariant holds in every reachable state: it says of each job where its token is,
\* and what is known of it there.
THEOREM ExecutorInvariantHolds == Spec => []IInv
BY InitIInv, NextIInv, PTL DEF Spec

-----------------------------------------------------------------------------
(* The properties.                                                           *)

\* Every variable keeps its type.
THEOREM ExecutorTypeCorrect == Spec => []TypeOK
<1>1. IInv => TypeOK
  BY DEF IInv
<1> QED
  BY <1>1, ExecutorInvariantHolds, PTL

\* However the process() overlap, the listener hears of a job that is not aborted in
\* order and of each event once.
THEOREM ReportsInOrderHolds == Spec => []ReportsInOrder
<1>1. IInv => ReportsInOrder
  <2> SUFFICES ASSUME IInv, NEW j \in Jobs
               PROVE  /\ j \in abortReq \/ calls[j] \in {<<>>, <<"started">>, <<"error">>}
                                             \cup {<<"started", end>> : end \in Ends}
                      /\ Called(j, "success") => build[j] = "passed"
                      /\ Called(j, "started") => Visible(j)
    BY DEF ReportsInOrder
  <2>1. DataOK(j) /\ CallsOK(j) /\ InOrder(j)
    BY DEF IInv, JobOK
  <2> QED
    BY <2>1 DEF DataOK, CallsOK, InOrder, Reports
<1> QED
  BY <1>1, ExecutorInvariantHolds, PTL

\* Unless it is aborted, no two process() work on a job at once.
THEOREM OneAtATimeHolds == Spec => []OneAtATime
<1>1. IInv => OneAtATime
  <2> SUFFICES ASSUME IInv, NEW j \in Jobs \ abortReq
               PROVE  Cardinality({p \in Procs : wait[p][j] # "done"}) <= 1
    BY DEF OneAtATime
  <2> DEFINE W == {p \in Procs : wait[p][j] # "done"}
  <2>1. \A p, q \in W : p = q
    BY DEF IInv, JobOK, OneToken, Holds
  <2>2. CASE W = {}
    BY <2>2, FS_EmptySet
  <2>3. CASE W # {}
    <3>1. PICK p : p \in W
      BY <2>3
    <3>2. W = {p}
      BY <2>1, <3>1
    <3> HIDE DEF W
    <3>3. Cardinality(W) = 1
      BY <3>2, FS_Singleton
    <3> QED
      BY <3>3 DEF W
  <2> QED
    BY <2>2, <2>3
<1> QED
  BY <1>1, ExecutorInvariantHolds, PTL

\* An abort that meets overlapping process() reaches the build server, or the end was
\* reported.
THEOREM AbortIsSentHolds == Spec => []AbortIsSent
<1>1. IInv => AbortIsSent
  <2> SUFFICES ASSUME IInv, NEW j \in (abortReq \cap requested) \ lost, ~Alive(j), ~Ended(j)
               PROVE  (IF data[j]["starting"] # None THEN "abort" ELSE "tag") \in told[j]
    BY DEF AbortIsSent
  <2>1. j \in Jobs
    BY DEF IInv, TypeOK
  <2>2. Sent(j) /\ CallsOK(j)
    BY <2>1 DEF IInv, JobOK
  <2> QED
    BY <2>2 DEF Sent, CallsOK, Alive, Present, Held, Holds
<1> QED
  BY <1>1, ExecutorInvariantHolds, PTL

-----------------------------------------------------------------------------
(* The executor does what JobExecution promises.                            *)

\* Until it is asked for, and once it is done, a job is what JobExecution says.
LEMMA ExecIs ==
    ASSUME NEW j \in Jobs
    PROVE  /\ Exec(j) \in {"none", "queued", "aborting", "running", "done"}
           /\ Exec(j) = "none" <=> j \notin requested
           /\ Exec(j) = "done" <=>
                j \in requested /\ (j \in lost \/ ~Alive(j) \/ (Ended(j) /\ j \notin early))
           /\ Exec(j) = "running" => Called(j, "started")
           /\ Exec(j) = "queued" => j \notin early
           /\ Exec(j) \in {"queued", "aborting", "running"} =>
                Exec(j) = IF Called(j, "started") THEN "running"
                          ELSE IF j \in early THEN "aborting" ELSE "queued"
<1>1. CASE j \notin requested
  BY <1>1 DEF Exec
<1>2. CASE j \in requested /\ (j \in lost \/ ~Alive(j) \/ (Ended(j) /\ j \notin early))
  BY <1>2 DEF Exec
<1>3. CASE j \in requested /\ ~(j \in lost \/ ~Alive(j) \/ (Ended(j) /\ j \notin early))
  BY <1>3 DEF Exec
<1> QED
  BY <1>1, <1>2, <1>3

\* A job nobody did anything about is where it was.
LEMMA UntouchedIsSame ==
    ASSUME NEW j \in Jobs, Untouched(j)
    PROVE  Exec(j)' = Exec(j)
<1>1. \A w : Called(j, w)' <=> Called(j, w)
  BY DEF Called, Untouched
<1>2. (Alive(j)' <=> Alive(j)) /\ (Ended(j)' <=> Ended(j))
  BY <1>1 DEF Untouched, Present, Alive, Held, Ended
<1> QED
  BY <1>1, <1>2 DEF Exec, Untouched

\* How a job may go on: it is done for good, and it begins to run only if it was not
\* aborted before it was asked for.
GoesOn(j) ==
    \/ Exec(j)' = Exec(j)
    \/ Exec(j) \in {"queued", "aborting", "running"} /\ Exec(j)' = "done"
    \/ Exec(j) = "queued" /\ Exec(j)' = "running"

\* What it takes for a job that was asked for to go on like that.
LEMMA MovesOn ==
    ASSUME NEW j \in Jobs, j \in requested' <=> j \in requested, j \in early' <=> j \in early,
           j \in lost => j \in lost',
           \A w : Called(j, w) => Called(j, w)',
           Called(j, "started")' => Called(j, "started") \/ j \notin early,
           j \in requested => Alive(j) \/ j \in lost \/ (Ended(j) /\ j \notin early) \/ ~Alive(j)'
    PROVE  GoesOn(j)
<1>1. CASE j \notin requested
  BY <1>1 DEF Exec, GoesOn
<1>2. Ended(j) => Ended(j)'
  BY DEF Ended
<1>3. CASE j \in requested /\ (j \in lost \/ ~Alive(j) \/ (Ended(j) /\ j \notin early))
  BY <1>2, <1>3 DEF Exec, GoesOn
<1>4. CASE j \in requested /\ ~(j \in lost \/ ~Alive(j) \/ (Ended(j) /\ j \notin early))
  BY <1>4 DEF Exec, GoesOn
<1> QED
  BY <1>1, <1>3, <1>4

\* A job that was not touched goes on.
LEMMA UntouchedGoesOn ==
    ASSUME NEW j \in Jobs, Untouched(j)
    PROVE  GoesOn(j)
BY UntouchedIsSame DEF GoesOn

\* Any jobs may end at once, as after a restart.
LEMMA EndingIsRestart ==
    ASSUME UNCHANGED abortReq, \A j \in Jobs : GoesOn(j) /\ ~(Exec(j) = "queued" /\ Exec(j)' = "running")
    PROVE  E!Restart
<1> DEFINE exec == [j \in Jobs |-> Exec(j)]
           Over == {j \in Jobs : exec[j] \in {"queued", "aborting", "running"} /\ Exec(j)' = "done"}
<1>1. \A j \in Jobs : Exec(j)' = IF j \in Over THEN "done" ELSE exec[j]
  BY DEF GoesOn
<1>2. Over \in SUBSET {j \in Jobs : exec[j] \in {"queued", "aborting", "running"}}
  OBVIOUS
<1>3. exec' = [j \in Jobs |-> IF j \in Over THEN "done" ELSE exec[j]]
  BY <1>1
<1> QED
  BY <1>2, <1>3 DEF E!Restart

\* One job may go on while the others stay where they are.
LEMMA OneGoesOn ==
    ASSUME UNCHANGED abortReq, NEW j \in Jobs, GoesOn(j), \A l \in Jobs \ {j} : Exec(l)' = Exec(l)
    PROVE  E!Next
<1> DEFINE exec == [l \in Jobs |-> Exec(l)]
<1>1. CASE Exec(j) = "queued" /\ Exec(j)' = "running"
  <2>1. exec' = [exec EXCEPT ![j] = "running"]
    BY <1>1
  <2>2. E!Started(j)
    BY <1>1, <2>1 DEF E!Started, E!Becomes
  <2> QED
    BY <2>2 DEF E!Next
<1>2. CASE ~(Exec(j) = "queued" /\ Exec(j)' = "running")
  <2>1. \A l \in Jobs : GoesOn(l) /\ ~(Exec(l) = "queued" /\ Exec(l)' = "running")
    BY <1>2 DEF GoesOn
  <2> QED
    BY <2>1, EndingIsRestart DEF E!Next
<1> QED
  BY <1>1, <1>2

\* startJob.
LEMMA StartJobStarts ==
    ASSUME IInv, NEW j \in Jobs, StartJob(j)
    PROVE  E!StartJob(j)
<1> DEFINE exec == [l \in Jobs |-> Exec(l)]
<1>1. TypeOK /\ DataOK(j) /\ CallsOK(j) /\ InOrder(j)
  BY DEF IInv, JobOK
<1>2. \A l \in Jobs \ {j} : Exec(l)' = Exec(l)
  BY StartJobIInv, UntouchedIsSame
<1>3. /\ j \notin requested /\ j \in requested' /\ calls' = calls
      /\ j \notin lost' /\ UNCHANGED abortReq
  BY <1>1 DEF StartJob, TypeOK
<1>4. Exec(j) = "none"
  BY <1>3 DEF Exec
<1>5. j \in early' <=> j \in abortReq
  BY <1>1, <1>3 DEF StartJob, DataOK
<1>6. Alive(j)'
  BY StartJobKeeps DEF Put, Alive
<1>7. ~Called(j, "started") /\ (j \notin abortReq => ~Ended(j))
  <2>1. ~Called(j, "started")
    BY <1>1, <1>3 DEF DataOK, CallsOK
  <2>2. j \notin abortReq => calls[j] = <<>>
    BY <1>1, <1>3 DEF InOrder
  <2>3. calls[j] = <<>> => ~Ended(j)
    BY DEF Ended, Called
  <2> QED
    BY <2>1, <2>2, <2>3
<1>8. (\A w : Called(j, w)' <=> Called(j, w)) /\ (Ended(j)' <=> Ended(j))
  BY <1>3 DEF Called, Ended
<1>9. Exec(j)' = IF j \in abortReq THEN "aborting" ELSE "queued"
  BY <1>3, <1>5, <1>6, <1>7, <1>8 DEF Exec
<1>10. exec' = [exec EXCEPT ![j] = IF j \in abortReq THEN "aborting" ELSE "queued"]
  BY <1>2, <1>9
<1> QED
  BY <1>3, <1>4, <1>10 DEF E!StartJob, E!Becomes

\* abortJob does not bring back a job that is done.
LEMMA AbortJobAborts ==
    ASSUME IInv, NEW j \in Jobs, AbortJob(j)
    PROVE  E!AbortJob(j)
<1> DEFINE exec == [l \in Jobs |-> Exec(l)]
<1>1. TypeOK /\ InOrder(j)
  BY DEF IInv, JobOK
<1>2. \A l \in Jobs \ {j} : Exec(l)' = Exec(l)
  BY AbortJobIInv, UntouchedIsSame
<1>3. /\ j \notin abortReq /\ j \notin early /\ abortReq' = abortReq \cup {j}
      /\ UNCHANGED <<calls, requested, early, lost>>
  BY <1>1 DEF AbortJob, TypeOK
<1>4. Alive(j)'
  BY AbortJobKeeps DEF Put, Alive
<1>5. (\A w : Called(j, w)' <=> Called(j, w)) /\ (Ended(j)' <=> Ended(j))
  BY <1>3 DEF Called, Ended
<1>6. j \in requested \ lost => Alive(j) \/ Ended(j)
  BY <1>1, <1>3 DEF InOrder
<1>7. Exec(j)' = Exec(j)
  BY <1>3, <1>4, <1>5, <1>6 DEF Exec
<1>8. exec' = exec
  BY <1>2, <1>7
<1> QED
  BY <1>3, <1>8 DEF E!AbortJob

\* A reply begins or ends the job that it is about.
LEMMA AnswerGoesOn ==
    ASSUME IInv, NEW p \in Procs, NEW j \in Jobs, Answer(p, j)
    PROVE  E!Next
<1>1. TypeOK /\ RowOK(p, j)
  BY DEF IInv, JobOK
<1>2. /\ Holds(p, j) /\ UNCHANGED <<timer, history>>
      /\ \/ \E r \in {"tag", "start", "abort"} : Asks(p, j, r)
         \/ \E s \in States \ {"abort"} : PutsBack(p, j, s)
         \/ \E end \in Ends : Reporting(p, j, end)
         \/ Telling(p, j)
  BY AnswerKinds
<1>3. Alive(j)
  BY <1>2 DEF Alive, Held, Holds
<1>4. \/ calls' = calls
      \/ Call(j, "started") /\ j \notin early
      \/ \E end \in Ends : Call(j, end) /\ end # "started"
  <2>1. \A s \in States : Begins(p, j, s) => Call(j, "started") /\ j \notin early
    BY <1>1, <1>2 DEF Begins, RowOK
  <2>2. \A end \in Ends : end # "started"
    BY DEF Ends
  <2> QED
    BY <1>2, <2>1, <2>2 DEF Asks, PutsBack, Retries, Starts, Reporting, Telling
<1>5. /\ \A w : Called(j, w) => Called(j, w)'
      /\ Called(j, "started")' => Called(j, "started") \/ j \notin early
  <2>1. CASE calls' = calls
    BY <2>1 DEF Called
  <2>2. CASE Call(j, "started") /\ j \notin early
    BY <2>2, <1>1, CallEffect DEF TypeOK
  <2>3. CASE \E end \in Ends : Call(j, end) /\ end # "started"
    BY <2>3, <1>1, CallEffect DEF TypeOK
  <2> QED
    BY <1>4, <2>1, <2>2, <2>3
<1>6. GoesOn(j)
  BY <1>2, <1>3, <1>5, MovesOn DEF history
<1>7. \A l \in Jobs \ {j} : Exec(l)' = Exec(l)
  BY AnswerIInv, UntouchedIsSame
<1> QED
  BY <1>2, <1>6, <1>7, OneGoesOn DEF history

\* Taking a task ends the jobs that have no build server.
LEMMA TakeTasksGoesOn ==
    ASSUME IInv, NEW p \in Procs, TakeTasks(p)
    PROVE  E!Restart
<1>1. TypeOK /\ UNCHANGED history
  BY DEF IInv, TakeTasks
<1>2. ASSUME NEW j \in Jobs
      PROVE  GoesOn(j) /\ ~(Exec(j) = "queued" /\ Exec(j)' = "running")
  <2>1. CASE Untouched(j)
    BY <2>1, UntouchedIsSame DEF GoesOn
  <2>2. CASE j \in ranged[p] /\ Present(j)
    <3>1. calls'[j] = calls[j] \/ calls'[j] = Append(calls[j], "error")
      BY DEF TakeTasks
    <3>2. calls[j] \in Seq(Ends \cup {"started"}) /\ "error" \in Ends \cup {"started"}
      BY <1>1 DEF TypeOK, Ends
    <3>3. \A w : Says(Append(calls[j], "error"), w) <=> Says(calls[j], w) \/ w = "error"
      BY <3>2, SaysAppend
    <3>4. \A w : (Called(j, w) <=> Says(calls[j], w)) /\ (Called(j, w)' <=> Says(calls'[j], w))
      BY DEF Called, Says
    <3>5. (\A w : Called(j, w) => Called(j, w)') /\ (Called(j, "started")' <=> Called(j, "started"))
      BY <3>1, <3>3, <3>4
    <3>6. Alive(j)
      BY <2>2 DEF Alive, Present
    <3>7. GoesOn(j)
      BY <1>1, <3>5, <3>6, MovesOn DEF history
    <3>8. ~(Exec(j) = "queued" /\ Exec(j)' = "running")
      BY <3>5 DEF Exec
    <3> QED
      BY <3>7, <3>8
  <2> QED
    BY <2>1, <2>2, TakeTasksIInv
<1> QED
  BY <1>1, <1>2, EndingIsRestart DEF history

\* A restart ends jobs, and starts none.
LEMMA ExitEnds ==
    ASSUME IInv, Exit
    PROVE  E!Restart
<1>1. UNCHANGED <<entries, calls, requested, abortReq, early>> /\ lost \subseteq lost'
      /\ wait' = [p \in Procs |-> [l \in Jobs |-> "done"]]
  BY DEF Exit
<1>2. ASSUME NEW j \in Jobs
      PROVE  GoesOn(j) /\ ~(Exec(j) = "queued" /\ Exec(j)' = "running")
  <2>1. \A w : Called(j, w)' <=> Called(j, w)
    BY <1>1 DEF Called
  <2>2. Alive(j)' => Alive(j)
    BY <1>1 DEF Alive, Held
  <2>3. GoesOn(j)
    BY <1>1, <2>1, <2>2, MovesOn
  <2>4. ~(Exec(j) = "queued" /\ Exec(j)' = "running")
    BY <2>1 DEF Exec
  <2> QED
    BY <2>3, <2>4
<1> QED
  BY <1>1, <1>2, EndingIsRestart

\* The executor implements JobExecution: overlapping process(), retries, aborts and restarts
\* neither start a job twice, nor report it after its end, nor bring it back.
THEOREM ExecutorRefinement == Spec => ImplementsExecutor
<1>1. Init => E!Init
  BY DEF Init, E!Init, Exec
<1>2. IInv /\ [Next]_vars => [E!Next]_(E!jxVars)
  <2> SUFFICES ASSUME IInv, [Next]_vars PROVE [E!Next]_(E!jxVars)
    OBVIOUS
  <2>1. ASSUME \A j \in Jobs : Untouched(j), UNCHANGED abortReq
        PROVE  UNCHANGED E!jxVars
    <3>1. \A j \in Jobs : Exec(j)' = Exec(j)
      BY <2>1, UntouchedIsSame
    <3> QED
      BY <2>1, <3>1 DEF E!jxVars
  <2>2. ASSUME NEW j \in Jobs, StartJob(j) PROVE E!Next
    BY <2>2, StartJobStarts DEF E!Next
  <2>3. ASSUME NEW j \in Jobs, AbortJob(j) PROVE E!Next
    BY <2>3, AbortJobAborts DEF E!Next
  <2>4. ASSUME NEW j \in Jobs, BecomeDue(j) PROVE UNCHANGED E!jxVars
    BY <2>4, <2>1, BecomeDueIInv DEF BecomeDue, history
  <2>5. ASSUME NEW p \in Procs, Poll(p) PROVE UNCHANGED E!jxVars
    BY <2>5, <2>1, PollIInv DEF Poll, history
  <2>6. ASSUME NEW p \in Procs, FinishBatch(p) PROVE UNCHANGED E!jxVars
    BY <2>6, <2>1, FinishBatchIInv DEF FinishBatch, history
  <2>7. ASSUME NEW p \in Procs, TakeTasks(p) PROVE E!Next
    BY <2>7, TakeTasksGoesOn DEF E!Next
  <2>8. ASSUME NEW p \in Procs, NEW j \in Jobs, Answer(p, j) PROVE E!Next
    BY <2>8, AnswerGoesOn
  <2>9. CASE Exit
    BY <2>9, ExitEnds DEF E!Next
  <2>10. ASSUME UNCHANGED <<entries, wait, calls, history>> PROVE UNCHANGED E!jxVars
    <3>1. \A j \in Jobs : Exec(j)' = Exec(j)
      BY <2>10 DEF Exec, Alive, Held, Ended, Called, history
    <3> QED
      BY <2>10, <3>1 DEF E!jxVars, history
  <2>11. ASSUME NEW j \in Jobs, BuildAppears(j) \/ BuildEnds(j) PROVE UNCHANGED E!jxVars
    BY <2>10, <2>11 DEF BuildAppears, BuildEnds, tasks
  <2>12. CASE UNCHANGED vars
    BY <2>10, <2>12 DEF vars, tasks
  <2> QED
    BY <2>2, <2>3, <2>4, <2>5, <2>6, <2>7, <2>8, <2>9, <2>11, <2>12
       DEF Next, PollNothing, Crash, AbortFailedStarted
<1> QED
  BY <1>1, <1>2, ExecutorInvariantHolds, PTL DEF Spec, ImplementsExecutor, E!Spec
=============================================================================
