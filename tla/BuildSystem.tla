---------------------------- MODULE BuildSystem ----------------------------
(***************************************************************************)
(* The life of a build job: QueueImpl (system/queue/queue-impl.ts) on top   *)
(* of the Redis scripts of QueueRedis, and BuildSystemImpl                  *)
(* (system/build-system-impl.ts), which listens to the queue, rebases and   *)
(* merges changes in Gerrit and drives the job executor.                    *)
(*                                                                         *)
(* The backend is one Node process with one Redis connection: commands run *)
(* in the order they were sent, and the handler of a reply sends the next   *)
(* command of its promise chain.  pipe is that connection; a step takes the *)
(* command at its head and appends what the handler of the reply sends.     *)
(* Listener callbacks run from timers; everything else interleaves freely.  *)
(*                                                                         *)
(* Gerrit and the job executor are external: what they may do is read off   *)
(* the calls the backend makes and the events it handles.                   *)
(***************************************************************************)
EXTENDS Integers, Sequences, FiniteSets, SequencesExt

CONSTANTS
    Queues,      \* repository x target branch
    Canonicals,  \* changes
    QueueOf,     \* the local queue of a change
    MaxCount,    \* startJobsFromQueue starts at most that many jobs
    Verdicts,    \* how builds may end
    MaxRev,      \* bound: patch sets per change
    MaxPatchSets,\* bound: patch sets of all changes together
    MaxCrash,    \* bound: restarts of the backend
    None

ASSUME BuildSystemAssumption ==
    /\ QueueOf \in [Canonicals -> Queues]
    /\ Verdicts \subseteq {"success", "failure", "error", "aborted"}
    /\ {MaxRev, MaxPatchSets, MaxCrash} \subseteq Nat
    /\ IsFiniteSet(Queues) /\ IsFiniteSet(Canonicals)
    /\ MaxCount \in Nat \ {0}
    /\ None \notin Canonicals /\ None \notin 1..MaxRev
    /\ None \notin [canonical : Canonicals, sha : 1..MaxRev]

VARIABLES
    local, score, last, ready, globalActive, active, now, newest, \* QueueRedis
    status,     \* queue:status:<job>
    pipe,       \* Redis commands sent, the oldest first
    timers,     \* calls of onQueueTransition that are due
    arriving,   \* Gerrit updates on their way through onUpdate
    rebasing,   \* jobs whose STARTING handler waits for the rebase
    accepting,  \* jobs whose SUCCESS handler labels the change
    merging,    \* jobs whose SUCCESS handler is about to merge the change
    exec,       \* what the executor does for a job
    abortReq,   \* jobs for which abortJob was called
    passed,     \* jobs the executor reported as successful
    rev,        \* Gerrit: current patch set of a change, 0 before the first
    base,       \* Gerrit: the commit of the target branch it is based on
    tip,        \* Gerrit: the newest commit of a target branch
    merged,     \* Gerrit: the patch set of a change that was merged, 0 if none
    crashes

redis == <<local, score, last, ready, globalActive, active, now, newest>>
flows == <<arriving, rebasing, accepting, merging>>
executor == <<exec, abortReq, passed>>
gerrit == <<rev, base, tip, merged>>
vars == <<redis, status, pipe, timers, flows, executor, gerrit, crashes>>

\* All pushes carry the same time, so that changes may start in any order.
R == INSTANCE QueueRedis WITH Shas <- 1..MaxRev, MaxTime <- 0

\* A job is a patch set of a change: serialize() of JobExecutor.Key.
Jobs == [canonical : Canonicals, sha : 1..MaxRev]
E == INSTANCE JobExecution
Job(c, s) == [canonical |-> c, sha |-> s]
Queue(j) == QueueOf[j.canonical]

\* StateTransitions
Transitions == [
    queued   |-> {"starting", "cancelled"},
    starting |-> {"rebased", "conflict", "aborted", "started", "error", "timeout",
                  "failure", "dependency"},
    started  |-> {"aborted", "failure", "success", "error", "timeout"}]
Terminal == {"success", "failure", "aborted", "cancelled", "error", "timeout", "conflict",
             "dependency", "rebased"}
States == DOMAIN Transitions \cup Terminal
ASSUME NoneIsNoState == None \notin States
IsTransitionValid(from, to) == from \in DOMAIN Transitions /\ to \in Transitions[from]

\* Redis commands, with what the handler of their reply needs
PushCmd(j) == [op |-> "push", job |-> j]
StartCmd == [op |-> "start"]
QueuedCmd(j, abort, cancel) == [op |-> "queued", job |-> j, abort |-> abort, cancel |-> cancel]
SetCmd(js, state) == [op |-> "set", jobs |-> js, state |-> state]
GetCmd(j, state) == [op |-> "get", job |-> j, state |-> state]
CompleteCmd(j, state) == [op |-> "complete", job |-> j, state |-> state]

ShaOrNone == 1..MaxRev \cup {None}
Commands ==
    [op : {"start"}]
    \cup [op : {"push"}, job : Jobs]
    \cup [op : {"queued"}, job : Jobs, abort : ShaOrNone, cancel : ShaOrNone]
    \cup [op : {"set"}, jobs : Seq(Jobs), state : States]
    \cup [op : {"get"}, job : Jobs, state : Terminal \cup {"started"}]
    \cup [op : {"complete"}, job : Jobs, state : Terminal]

TypeOK ==
    /\ R!TypeOK
    /\ status \in [Jobs -> States \cup {None}]
    /\ pipe \in Seq(Commands)
    /\ timers \in Seq([job : Jobs, state : States])
    /\ arriving \subseteq Jobs /\ rebasing \subseteq Jobs
    /\ accepting \subseteq Jobs /\ merging \subseteq Jobs
    /\ E!TypeOK /\ passed \subseteq Jobs
    /\ rev \in [Canonicals -> 0..MaxRev] /\ merged \in [Canonicals -> 0..MaxRev]
    /\ base \in [Canonicals -> Nat] /\ tip \in [Queues -> Nat]
    /\ \A c \in Canonicals : base[c] <= tip[QueueOf[c]]
    /\ crashes \in 0..MaxCrash

\* The constructor of BuildSystemImpl asks for jobs to start.  A target branch has a
\* commit; a change is based on it or on the one before.
Init ==
    /\ R!Init
    /\ status = [j \in Jobs |-> None]
    /\ pipe = <<StartCmd>>
    /\ timers = <<>>
    /\ arriving = {} /\ rebasing = {} /\ accepting = {} /\ merging = {}
    /\ E!Init /\ passed = {}
    /\ rev = [c \in Canonicals |-> 0]
    /\ base = [c \in Canonicals |-> 0]
    /\ tip = [q \in Queues |-> 1]
    /\ merged = [c \in Canonicals |-> 0]
    /\ crashes = 0

-----------------------------------------------------------------------------
(* Gerrit: a new patch set of an open change, uploaded by a user or made by  *)
(* a rebase, and the patchset-created event that announces it.               *)

NewPatchSet(c, b) ==
    /\ merged[c] = 0
    /\ rev[c] < MaxRev
    /\ Cardinality({j \in Jobs : j.sha <= rev[j.canonical]}) < MaxPatchSets
    /\ rev' = [rev EXCEPT ![c] = @ + 1]
    /\ base' = [base EXCEPT ![c] = b]
    /\ arriving' = arriving \cup {Job(c, rev[c] + 1)}
    /\ UNCHANGED <<tip, merged>>

\* The target branch, or the commit before it.
RecentTips(c) == {tip[QueueOf[c]], tip[QueueOf[c]] - 1} \cap Nat

\* A user uploads on top of a commit of the target branch.
Upload(c) ==
    /\ \E b \in RecentTips(c) : NewPatchSet(c, b)
    /\ UNCHANGED <<redis, status, pipe, timers, rebasing, accepting, merging, executor, crashes>>

\* onUpdate, once the commit is in the source cache and its build.yml is read.
\* Updates overtake each other while they wait for that.
OnUpdate(j) ==
    /\ j \in arriving
    /\ arriving' = arriving \ {j}
    /\ pipe' = Append(pipe, PushCmd(j))
    /\ UNCHANGED <<redis, status, timers, rebasing, accepting, merging, executor, gerrit,
                   crashes>>

\* onUpdate without a job: no build.yml, a parse error, related changes, or the
\* commit could not be fetched.
OnUpdateIgnored(j) ==
    /\ j \in arriving
    /\ arriving' = arriving \ {j}
    /\ UNCHANGED <<redis, status, pipe, timers, rebasing, accepting, merging, executor, gerrit,
                   crashes>>

-----------------------------------------------------------------------------
(* QueueImpl: the command at the head of the connection and its reply.       *)

Reply(followUps) == pipe' = Tail(pipe) \o followUps

\* setState: the status keys, and then a callback for each job.
SetState(js, state) ==
    /\ status' = [j \in Jobs |-> IF j \in Range(js) THEN state ELSE status[j]]
    /\ timers' = timers \o [i \in DOMAIN js |-> [job |-> js[i], state |-> state]]

AtHead(op) == pipe # <<>> /\ Head(pipe).op = op
Untouched == UNCHANGED <<flows, executor, gerrit, crashes>>

\* push, first step: the script
DoPush ==
    /\ AtHead("push")
    /\ LET j == Head(pipe).job  q == Queue(j) IN
       /\ R!Push(q, j.canonical, j.sha)
       /\ Reply(<<QueuedCmd(j, R!Aborted(q, j.canonical), R!Outdated(q, j.canonical))>>)
    /\ UNCHANGED <<now, status, timers>> /\ Untouched

\* Fault: no test for a missing reply.
SetReplacedAlways(c, s, state) == <<SetCmd(<<Job(c, s)>>, state)>>

\* A job that the script of a push replaced, if it did
SetReplaced(c, s, state) == IF s = None THEN <<>> ELSE <<SetCmd(<<Job(c, s)>>, state)>>

\* push, second step: QUEUED, and then the jobs the script replaced.
DoQueued ==
    /\ AtHead("queued")
    /\ LET m == Head(pipe)  c == m.job.canonical IN
       /\ SetState(<<m.job>>, "queued")
       /\ Reply(SetReplaced(c, m.abort, "aborted") \o SetReplaced(c, m.cancel, "cancelled"))
    /\ UNCHANGED redis /\ Untouched

\* start
DoStart ==
    /\ AtHead("start")
    /\ R!Start
    /\ LET started == {active'[q] : q \in {p \in Queues : active'[p] # active[p]}}
       IN  Reply(IF started = {} THEN <<>> ELSE <<SetCmd(SetToSeq(started), "starting")>>)
    /\ UNCHANGED <<now, status, timers>> /\ Untouched

DoSet ==
    /\ AtHead("set")
    /\ SetState(Head(pipe).jobs, Head(pipe).state)
    /\ Reply(<<>>)
    /\ UNCHANGED redis /\ Untouched

\* Fault: terminal states do not release the slot.
DoGetNoComplete ==
    /\ AtHead("get")
    /\ LET m == Head(pipe) IN
       Reply(IF ~IsTransitionValid(status[m.job], m.state) THEN <<>>
             ELSE <<SetCmd(<<m.job>>, m.state)>>)
    /\ UNCHANGED <<redis, status, timers>> /\ Untouched

\* addState, first step: the transition is validated against the state that was
\* read.  An illegal one is rejected, and updateQueue only logs that.
DoGet ==
    /\ AtHead("get")
    /\ LET m == Head(pipe) IN
       Reply(IF ~IsTransitionValid(status[m.job], m.state) THEN <<>>
             ELSE IF m.state \in Terminal THEN <<CompleteCmd(m.job, m.state)>>
             ELSE <<SetCmd(<<m.job>>, m.state)>>)
    /\ UNCHANGED <<redis, status, timers>> /\ Untouched

\* addState, second step of a terminal state: the slot is released if the job
\* still holds it; the state is set in any case.
DoComplete ==
    /\ AtHead("complete")
    /\ LET m == Head(pipe) IN
       /\ R!Complete(Queue(m.job), m.job)
       /\ Reply(<<SetCmd(<<m.job>>, m.state)>>)
    /\ UNCHANGED <<now, status, timers>> /\ Untouched

-----------------------------------------------------------------------------
(* BuildSystemImpl.onQueueTransition                                         *)

Due(states) == timers # <<>> /\ Head(timers).state \in states
Send(m) == pipe' = Append(pipe, m)

\* STARTING: rebase the change.
OnStarting ==
    /\ Due({"starting"})
    /\ timers' = Tail(timers)
    /\ rebasing' = rebasing \cup {Head(timers).job}
    /\ UNCHANGED <<redis, status, pipe, arriving, accepting, merging, executor, gerrit, crashes>>

\* SUCCESS: label the change and merge it; no job is started from the queue.
OnSuccess ==
    /\ Due({"success"})
    /\ timers' = Tail(timers)
    /\ accepting' = accepting \cup {Head(timers).job}
    /\ UNCHANGED <<redis, status, pipe, arriving, rebasing, merging, executor, gerrit, crashes>>

\* Fault: ABORTED does not reach the executor.
OnQueuedOrEndedNoAbort ==
    /\ Due({"queued"} \cup (Terminal \ {"success"}))
    /\ timers' = Tail(timers)
    /\ Send(StartCmd)
    /\ UNCHANGED <<redis, status, flows, executor, gerrit, crashes>>

\* Fault: the end of a job does not start the next one.
OnQueuedOrEndedNoStart ==
    /\ Due({"queued"} \cup (Terminal \ {"success"}))
    /\ timers' = Tail(timers)
    /\ IF Head(timers).state = "queued" THEN Send(StartCmd) ELSE UNCHANGED pipe
    /\ abortReq' = IF Head(timers).state = "aborted" THEN abortReq \cup {Head(timers).job}
                   ELSE abortReq
    /\ UNCHANGED <<redis, status, flows, exec, passed, gerrit, crashes>>

\* QUEUED and every other terminal state: start jobs; ABORTED also calls abortJob.
OnQueuedOrEnded ==
    /\ Due({"queued"} \cup (Terminal \ {"success"}))
    /\ timers' = Tail(timers)
    /\ Send(StartCmd)
    /\ abortReq' = IF Head(timers).state = "aborted" THEN abortReq \cup {Head(timers).job}
                   ELSE abortReq
    /\ UNCHANGED <<redis, status, flows, exec, passed, gerrit, crashes>>

\* STARTED: nothing but the build log.
OnStarted ==
    /\ Due({"started"})
    /\ timers' = Tail(timers)
    /\ UNCHANGED <<redis, status, pipe, flows, executor, gerrit, crashes>>

-----------------------------------------------------------------------------
(* The STARTING handler: GerritRepositoryAccess.rebase and what follows.     *)

EndRebase(j) ==
    /\ j \in rebasing
    /\ rebasing' = rebasing \ {j}
    /\ UNCHANGED <<redis, status, timers, accepting, merging, crashes>>

OnTip(c) == base[c] = tip[QueueOf[c]]

\* Gerrit rebases the current patch set, whichever the job was made for, on the commit
\* of the branch that was read before.
RebaseDone(j) ==
    /\ EndRebase(j)
    /\ \E b \in RecentTips(j.canonical) \ {base[j.canonical]} : NewPatchSet(j.canonical, b)
    /\ Send(GetCmd(j, "rebased"))
    /\ UNCHANGED executor

\* A conflict (409) is taken for "no rebase necessary", whatever it is about: startJob.
RebaseNotNeeded(j) ==
    /\ EndRebase(j)
    /\ E!StartJob(j)
    /\ UNCHANGED <<pipe, arriving, passed, gerrit>>

\* Fault: the rejection of the rebase is not handled.
RebaseFailedSilently(j) ==
    /\ EndRebase(j)
    /\ UNCHANGED <<pipe, arriving, executor, gerrit>>

\* Not mergeable, a merge conflict, a failing request or dependency graph.
RebaseFailed(j) ==
    /\ EndRebase(j)
    /\ Send(GetCmd(j, "conflict"))
    /\ UNCHANGED <<arriving, executor, gerrit>>

-----------------------------------------------------------------------------
(* The SUCCESS handler                                                       *)

\* Metadata, the Verified label and the post-processing action.  The change is
\* left alone when a request fails, or when the action is not to merge.
Accept(j) ==
    /\ j \in accepting
    /\ accepting' = accepting \ {j}
    /\ merging' \in {merging, merging \cup {j}}
    /\ UNCHANGED <<redis, status, pipe, timers, arriving, rebasing, executor, gerrit, crashes>>

\* GerritRepositoryAccess.merge submits the patch set that is current then.
\* Gerrit fast-forwards the target branch, or refuses.
Merge(j) ==
    LET c == j.canonical  q == Queue(j) IN
    /\ j \in merging
    /\ merging' = merging \ {j}
    /\ IF merged[c] = 0 /\ OnTip(c)
       THEN /\ merged' = [merged EXCEPT ![c] = rev[c]]
            /\ tip' = [tip EXCEPT ![q] = @ + 1]
       ELSE UNCHANGED <<merged, tip>>
    /\ UNCHANGED <<redis, status, pipe, timers, arriving, rebasing, accepting, executor, rev, base,
                   crashes>>

-----------------------------------------------------------------------------
(* The job executor, as BuildSystemImpl sees it through JobExecutor.Listener: *)
(* an action of JobExecution, and the update of the queue it leads to.        *)

\* Verdicts are polled ten seconds after onJobStarted: its queue update is over.
StartedSettled(j) ==
    \A i \in DOMAIN pipe : pipe[i] \notin {GetCmd(j, "started"), SetCmd(<<j>>, "started")}

JobStarted(j) ==
    /\ E!Started(j)
    /\ Send(GetCmd(j, "started"))
    /\ UNCHANGED <<redis, status, timers, flows, passed, gerrit, crashes>>

JobEnded(j, verdict) ==
    /\ E!Ended(j) /\ StartedSettled(j)
    /\ passed' = IF verdict = "success" THEN passed \cup {j} ELSE passed
    /\ Send(GetCmd(j, verdict))
    /\ UNCHANGED <<redis, status, timers, flows, gerrit, crashes>>

JobNotStarted(j) ==
    /\ E!NotStarted(j)
    /\ Send(GetCmd(j, "error"))
    /\ UNCHANGED <<redis, status, timers, flows, passed, gerrit, crashes>>

JobDropped(j) ==
    /\ E!Dropped(j)
    /\ UNCHANGED <<redis, status, pipe, timers, flows, passed, gerrit, crashes>>

-----------------------------------------------------------------------------
\* The process restarts: what it had in memory is gone, also the tasks the
\* executor had taken from its own queue; Redis, Gerrit and the build server are
\* not, and the constructor asks for jobs to start.
Crash ==
    /\ crashes < MaxCrash
    /\ crashes' = crashes + 1
    /\ pipe' = <<StartCmd>>
    /\ timers' = <<>>
    /\ arriving' = {} /\ rebasing' = {} /\ accepting' = {} /\ merging' = {}
    /\ E!Restart
    /\ UNCHANGED <<redis, status, passed, gerrit>>

Redis == DoPush \/ DoQueued \/ DoStart \/ DoSet \/ DoGet \/ DoComplete
Listener == OnStarting \/ OnSuccess \/ OnQueuedOrEnded \/ OnStarted
Rebase(j) == RebaseDone(j) \/ RebaseNotNeeded(j) \/ RebaseFailed(j)
Executor(j) ==
    \/ JobStarted(j) \/ JobNotStarted(j) \/ JobDropped(j)
    \/ \E verdict \in Verdicts : JobEnded(j, verdict)
Update(j) == OnUpdate(j) \/ OnUpdateIgnored(j)

Next ==
    \/ \E c \in Canonicals : Upload(c)
    \/ Redis
    \/ Listener
    \/ \E j \in Jobs : Update(j) \/ Rebase(j) \/ Accept(j) \/ Merge(j) \/ Executor(j)
    \/ Crash

\* Redis answers, timers fire, Gerrit and the build server answer (their clients
\* turn a failure into an answer); nobody has to upload and nothing has to crash.
Fairness ==
    /\ WF_vars(Redis)
    /\ WF_vars(Listener)
    /\ WF_vars(\E j \in Jobs : Update(j))
    /\ WF_vars(\E j \in Jobs : Rebase(j))
    /\ WF_vars(\E j \in Jobs : Accept(j))
    /\ WF_vars(\E j \in Jobs : Merge(j))
    /\ WF_vars(\E j \in Jobs : Executor(j))

Spec == Init /\ [][Next]_vars
FairSpec == Spec /\ Fairness

-----------------------------------------------------------------------------
(* Properties.  InPipe and InTimers look for work that is under way.         *)

InPipe(P(_)) == \E i \in DOMAIN pipe : P(pipe[i])
InTimers(j, state) == [job |-> j, state |-> state] \in Range(timers)
SetInPipe(j, state) ==
    InPipe(LAMBDA m : m.op = "set" /\ m.state = state /\ j \in Range(m.jobs))

Holds(j) == active[Queue(j)] = j
Executing(j) == exec[j] \in {"queued", "running"}

\* A job that holds its queue is being worked on: it is about to be rebased, the
\* executor has it, or the update that ends it is under way.  A queue held by a
\* job nobody works on stays blocked, since nothing produces TIMEOUT.
SlotHasOwner ==
    \A j \in Jobs : Holds(j) =>
        \/ SetInPipe(j, "starting") \/ InTimers(j, "starting")
        \/ j \in rebasing
        \/ Executing(j)
        \/ InPipe(LAMBDA m : /\ m.op \in {"get", "complete"}
                             /\ m.job = j /\ m.state \in Terminal)

\* The abort of a replaced job is under way, from the reply of push.lua to
\* abortJob.
AbortComing(j) ==
    \/ InPipe(LAMBDA m : m.op = "queued" /\ m.job.canonical = j.canonical /\ m.abort = j.sha)
    \/ SetInPipe(j, "aborted") \/ InTimers(j, "aborted")
    \/ j \in abortReq

\* Changes of a target branch are built one after the other: the executor only
\* works on the job that holds the queue, and on replaced jobs that are about to
\* be aborted, also when the abort meets a job that is still being rebased.
ExecutesHolderOnly == \A j \in Jobs : Executing(j) => Holds(j) \/ AbortComing(j)

\* A patch set that was replaced while it waited is never built.
CancelledNeverRuns ==
    \A j \in Jobs : status[j] = "cancelled" \/ SetInPipe(j, "cancelled") =>
        /\ ~Holds(j)
        /\ j \notin rebasing
        /\ exec[j] = "none"

\* A queue is released by the end of the job that holds it, or by a push of the
\* same change: a late verdict on a replaced job does not free the queue under
\* its successor.
FreedByOwnEnd ==
    [][\A q \in Queues : active[q] # None /\ active'[q] # active[q] =>
         \/ Head(pipe).op = "complete" /\ Head(pipe).job = active[q]
         \/ Head(pipe).op = "push" /\ Head(pipe).job.canonical = active[q].canonical]_vars

\* An idle queue with a waiting change is about to be asked to start it, from the
\* push, from the end of another job or from the constructor, unless a successful
\* build has freed it.  When there are more queues than start.lua takes at once it
\* leaves some for the end of those it took.
WakesUp(state) == state = "queued" \/ state \in Terminal \ {"success"}
StartComing ==
    \/ InPipe(LAMBDA m : \/ m.op \in {"start", "push", "queued"}
                         \/ m.op \in {"set", "complete"} /\ WakesUp(m.state))
    \/ \E i \in DOMAIN timers : WakesUp(timers[i].state)
Crowded == Cardinality(Queues) > MaxCount
WakeUpComing ==
    \A q \in Queues : local[q] # {} /\ active[q] = None =>
        \/ StartComing
        \/ \E j \in passed : Queue(j) = q \/ Crowded
        \/ Crowded /\ \E p \in Queues : active[p] # None

\* Every waiting change is started some time ("Incomming Gerrit changes are
\* sequentially queued", README.md), as long as the process is not restarted.
WaitingStarts ==
    \A c \in Canonicals :
        c \in local[QueueOf[c]] ~> c \notin local[QueueOf[c]] \/ crashes > 0

\* A queue that builds becomes idle some time (and passes through idle between
\* two builds): the rebase, the executor or a newer patch set ends the build.  A
\* restart may lose the work that would, so it is excepted.
SlotIsReleased == \A q \in Queues : active[q] # None ~> active[q] = None \/ crashes > 0

\* A terminal state is final: StateTransitions has no transition out of it.
TerminalIsFinal ==
    [][\A j \in Jobs : status[j] \in Terminal => status'[j] = status[j]]_vars

\* A merged commit was built: "the resulting commit doesn't have to be rebuilt
\* inorder to have its corresponding publications in place" (README.md).
MergedWasBuilt ==
    \A c \in Canonicals : merged[c] # 0 => Job(c, merged[c]) \in passed
=============================================================================
