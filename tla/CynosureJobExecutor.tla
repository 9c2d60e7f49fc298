------------------------ MODULE CynosureJobExecutor -------------------------
(***************************************************************************)
(* CynosureJobExecutor (cynosure/job-executor/cynosure-job-executor.ts): it *)
(* keeps each job as a task of its task queue, polls the task queue and     *)
(* drives the job through the build server, which is external.              *)
(*                                                                         *)
(* The data of a task is the states the job went through, with the number   *)
(* of failures in the state, and the abort beside them.  process() takes a  *)
(* batch of tasks and sends a request for each of them; the handler of the  *)
(* reply puts the task back with its next state, calls the listener, or     *)
(* sends another request.  startJob and abortJob begin another process()    *)
(* although one is waiting for replies, so that several are under way.      *)
(***************************************************************************)
EXTENDS Naturals, Sequences, FiniteSets

CONSTANTS
    Jobs,
    Connected,           \* the jobs whose source has a build server
    Procs,               \* bound: calls of process() that are under way together
    FindProductRetries,  \* QUEUED.findProduct
    StartRetries,        \* QUEUED.startActivity
    FindActivityRetries, \* STARTING.findActivity
    PollRetries,         \* STARTED.findActivity
    ErrorRetries,        \* errorConfig of each state
    MaxRetries,          \* the largest of them
    Verdicts,            \* how builds may end
    MaxPop,              \* a batch has at most that many tasks
    MaxCrash,            \* bound: restarts of the process
    None

ASSUME CynosureJobExecutorAssumption ==
    /\ IsFiniteSet(Jobs) /\ Connected \subseteq Jobs
    /\ MaxRetries \in Nat /\ MaxCrash \in Nat /\ MaxPop \in Nat \ {0}
    /\ Verdicts \subseteq {"passed", "failed", "errored", "aborted"}
    /\ {FindProductRetries, StartRetries, FindActivityRetries, PollRetries, ErrorRetries}
         \subseteq 0..MaxRetries

VARIABLES
    entries, data, handled, ranged, taken, owed, \* TaskQueue
    timer,     \* a call of process() is scheduled
    wait,      \* per process() and job, the request whose reply it waits for
    calls,     \* per job, the calls of the listener
    build,     \* the build server: what became of the job's build
    told,      \* the build server: how far it was told to abort the job
    requested, \* the jobs of startJob
    abortReq,  \* the jobs of abortJob
    early,     \* the jobs for which abortJob came before startJob
    lost,      \* the jobs a restart lost
    crashes

tasks == <<entries, data, handled, ranged, taken, owed>>
server == <<build, told>>
history == <<requested, abortReq, early, lost, crashes>>
vars == <<tasks, timer, wait, calls, server, history>>

States == {"queued", "starting", "started", "abort"}
T == INSTANCE TaskQueue WITH
        Tasks <- Jobs, Clients <- Procs, Kinds <- States, Items <- 0..MaxRetries

ASSUME NoneIsNoData == None \notin 0..MaxRetries /\ None \notin T!Rows

Report == [passed |-> "success", failed |-> "failure", errored |-> "error",
           aborted |-> "aborted"]
Ends == {"success", "failure", "aborted", "error"}

TypeOK ==
    /\ T!TypeOK
    /\ timer \in BOOLEAN
    /\ wait \in [Procs -> [Jobs -> {"done", "product", "start", "tag", "activity", "abort"}]]
    /\ calls \in [Jobs -> Seq(Ends \cup {"started"})]
    /\ build \in [Jobs -> {"none", "requested", "ongoing", "aborted"} \cup Verdicts]
    /\ told \in [Jobs -> SUBSET {"tag", "abort"}]
    /\ early \subseteq abortReq /\ lost \subseteq requested
    /\ requested \subseteq Jobs /\ abortReq \subseteq Jobs
    /\ crashes \in 0..MaxCrash

\* setListener schedules the first process().
Init ==
    /\ T!Init
    /\ timer = TRUE
    /\ wait = [p \in Procs |-> [j \in Jobs |-> "done"]]
    /\ calls = [j \in Jobs |-> <<>>]
    /\ build = [j \in Jobs |-> "none"]
    /\ told = [j \in Jobs |-> {}]
    /\ requested = {} /\ abortReq = {} /\ early = {} /\ lost = {}
    /\ crashes = 0

-----------------------------------------------------------------------------
(* The interface: startJob once for each job, and abortJob at most once.     *)

StartJob(j) ==
    /\ j \notin requested
    /\ T!Upsert(j, "due", "queued", 0)
    /\ timer' = TRUE
    /\ requested' = requested \cup {j}
    /\ early' = early \cup ({j} \cap abortReq)
    /\ UNCHANGED <<wait, calls, server, abortReq, lost, crashes>>

AbortJob(j) ==
    /\ j \notin abortReq
    /\ T!Upsert(j, "due", "abort", 0)
    /\ timer' = TRUE
    /\ abortReq' = abortReq \cup {j}
    /\ UNCHANGED <<wait, calls, server, requested, early, lost, crashes>>

BecomeDue(j) ==
    /\ T!BecomeDue(j)
    /\ UNCHANGED <<timer, wait, calls, server, history>>

-----------------------------------------------------------------------------
(* process()                                                                 *)

Aborted(row) == row["abort"] # None

\* The last state the job reached.  A job keeps the states before it.
Stage(row) == CHOOSE s \in States \ {"abort"} :
    /\ row[s] # None
    /\ s = "queued" => row["starting"] = None /\ row["started"] = None
    /\ s = "starting" => row["started"] = None

\* Fault: the first state found wins.
FirstRequestOfFirst(j, row) ==
    CASE row = None \/ j \notin Connected -> "done"
      [] row["queued"] # None -> "product"
      [] OTHER -> "done"

\* The request process() sends for a task.  An abort without a job is dropped.
FirstRequest(j, row) ==
    IF row = None \/ j \notin Connected \/ \A s \in States \ {"abort"} : row[s] = None
    THEN "done"
    ELSE CASE Stage(row) = "queued" -> "product"
           [] Stage(row) = "starting" -> "activity"
           [] Stage(row) = "started" -> IF Aborted(row) THEN "abort" ELSE "activity"

\* The timer fires, and nothing is due: the next process() is scheduled.
PollNothing(p) ==
    /\ timer
    /\ T!Idle(p) /\ T!Due = {}
    /\ UNCHANGED vars

\* The timer fires, and tasks are due.
Poll(p) ==
    /\ timer
    /\ T!ZRange(p)
    /\ timer' = FALSE
    /\ UNCHANGED <<wait, calls, server, history>>

\* The tasks are taken.  A job without a build server ends; when somebody else
\* took them all, process() is over.
TakeTasks(p) ==
    /\ T!Take(p)
    /\ wait' = [wait EXCEPT ![p] = [j \in Jobs |-> FirstRequest(j, taken'[p][j])]]
    /\ calls' = [j \in Jobs |-> IF taken'[p][j] # None /\ j \notin Connected
                                THEN Append(calls[j], "error") ELSE calls[j]]
    /\ timer' = (timer \/ taken'[p] = T!NoWork)
    /\ UNCHANGED <<server, history>>

\* Fault: process() ends without another one.
FinishBatchForGood(p) ==
    /\ \A j \in Jobs : wait[p][j] = "done"
    /\ T!Finish(p)
    /\ UNCHANGED <<timer, wait, calls, server, history>>

\* Every task of the batch is dealt with: the next process() is scheduled.
FinishBatch(p) ==
    /\ \A j \in Jobs : wait[p][j] = "done"
    /\ T!Finish(p)
    /\ timer' = TRUE
    /\ UNCHANGED <<wait, calls, server, history>>

-----------------------------------------------------------------------------
(* Replies of the build server, and what their handlers do.                  *)

Row(p, j) == taken[p][j]
Then(p, j, request) == wait' = [wait EXCEPT ![p] = [@ EXCEPT ![j] = request]]
PutBack(j, state, failures) == T!Upsert(j, "waiting", state, failures)
Call(j, what) == calls' = [calls EXCEPT ![j] = Append(@, what)]

\* Faults: the failures are not counted; one too many; nobody is told.
HandleErrorForEver(p, j, limit) ==
    /\ Then(p, j, "done")
    /\ PutBack(j, Stage(Row(p, j)), Row(p, j)[Stage(Row(p, j))])
    /\ UNCHANGED calls
HandleErrorOnceMore(p, j, limit) ==
    LET state == Stage(Row(p, j))  failures == Row(p, j)[state] IN
    /\ Then(p, j, "done")
    /\ IF failures <= limit
       THEN PutBack(j, state, failures + 1) /\ UNCHANGED calls
       ELSE Call(j, "error") /\ UNCHANGED tasks
HandleErrorSilently(p, j, limit) ==
    LET state == Stage(Row(p, j))  failures == Row(p, j)[state] IN
    /\ Then(p, j, "done")
    /\ IF failures < limit THEN PutBack(j, state, failures + 1) ELSE UNCHANGED tasks
    /\ UNCHANGED calls

\* handleError: the failures of a state are counted together, whatever failed.
HandleError(p, j, limit) ==
    LET state == Stage(Row(p, j))  failures == Row(p, j)[state] IN
    /\ Then(p, j, "done")
    /\ IF failures < limit
       THEN PutBack(j, state, failures + 1) /\ UNCHANGED calls
       ELSE Call(j, "error") /\ UNCHANGED tasks

\* Queued: the product is known.
ProductFound(p, j) ==
    /\ wait[p][j] = "product"
    /\ Then(p, j, IF Aborted(Row(p, j)) THEN "tag" ELSE "start")
    /\ UNCHANGED <<tasks, calls, server>>

ProductMissing(p, j) ==
    /\ wait[p][j] = "product"
    /\ HandleError(p, j, FindProductRetries)
    /\ UNCHANGED server

\* Aborted while queued: the product gets a tag, or is gone.
TagDone(p, j) ==
    /\ wait[p][j] = "tag"
    /\ told' = [told EXCEPT ![j] = @ \cup {"tag"}]
    /\ Then(p, j, "done")
    /\ UNCHANGED <<tasks, calls, build>>

Tagged(j) == [build EXCEPT ![j] = IF @ = "none" THEN "requested" ELSE @]

ActivityStarted(p, j) ==
    /\ wait[p][j] = "start"
    /\ build' = Tagged(j)
    /\ Then(p, j, "done")
    /\ PutBack(j, "starting", 0)
    /\ UNCHANGED <<calls, told>>

StartRefused(p, j) ==
    /\ wait[p][j] = "start"
    /\ HandleError(p, j, StartRetries)
    /\ UNCHANGED server

\* No product id, no answer to a query or to a change of tags.  The start tag may
\* have been set all the same.
RequestFailed(p, j) ==
    /\ wait[p][j] \in {"product", "start", "tag", "activity"}
    /\ HandleError(p, j, ErrorRetries)
    /\ build' \in IF wait[p][j] = "start" THEN {build, Tagged(j)} ELSE {build}
    /\ UNCHANGED told

Visible(j) == build[j] \notin {"none", "requested"}

\* Starting: the build appeared.
ActivityFound(p, j) ==
    /\ wait[p][j] = "activity" /\ Stage(Row(p, j)) = "starting"
    /\ Visible(j)
    /\ IF Aborted(Row(p, j))
       THEN Then(p, j, "abort") /\ UNCHANGED <<tasks, calls>>
       ELSE Then(p, j, "done") /\ Call(j, "started") /\ PutBack(j, "started", 0)
    /\ UNCHANGED server

\* Started: the build goes on, or has a verdict.
ActivityPolled(p, j) ==
    /\ wait[p][j] = "activity" /\ Stage(Row(p, j)) = "started"
    /\ Then(p, j, "done")
    /\ IF build[j] = "ongoing"
       THEN PutBack(j, "started", 0) /\ UNCHANGED calls
       ELSE Call(j, Report[build[j]]) /\ UNCHANGED tasks
    /\ UNCHANGED server

\* The query may find nothing, also for a build that was there before.
ActivityMissing(p, j) ==
    /\ wait[p][j] = "activity"
    /\ HandleError(p, j, IF Stage(Row(p, j)) = "starting" THEN FindActivityRetries
                         ELSE PollRetries)
    /\ UNCHANGED server

\* The build is aborted, unless the build server does not care.
AbortReceived(j) == build' \in {build, [build EXCEPT ![j] = IF @ = "ongoing" THEN "aborted" ELSE @]}

AbortDone(p, j) ==
    /\ wait[p][j] = "abort"
    /\ told' = [told EXCEPT ![j] = {"tag", "abort"}]
    /\ AbortReceived(j)
    /\ Then(p, j, "done")
    /\ UNCHANGED <<tasks, calls>>

\* The tag is rejected: an error in the starting state
AbortFailed(p, j) ==
    /\ wait[p][j] = "abort" /\ Stage(Row(p, j)) = "starting"
    /\ HandleError(p, j, ErrorRetries)
    /\ AbortReceived(j)
    /\ UNCHANGED told

Answer(p, j) ==
    /\ \/ ProductFound(p, j) \/ ProductMissing(p, j)
       \/ ActivityStarted(p, j) \/ StartRefused(p, j)
       \/ ActivityFound(p, j) \/ ActivityPolled(p, j) \/ ActivityMissing(p, j)
       \/ TagDone(p, j) \/ AbortDone(p, j) \/ AbortFailed(p, j) \/ RequestFailed(p, j)
    /\ UNCHANGED <<timer, history>>

-----------------------------------------------------------------------------
\* The process restarts: the batches it had taken are gone.
Exit ==
    /\ crashes < MaxCrash
    /\ crashes' = crashes + 1
    /\ ranged' = [p \in Procs |-> {}]
    /\ taken' = [p \in Procs |-> T!NoWork]
    /\ wait' = [p \in Procs |-> [j \in Jobs |-> "done"]]
    /\ timer' = TRUE
    /\ lost' = lost \cup {j \in requested : /\ entries[j] = "absent"
                                            /\ \E p \in Procs : wait[p][j] # "done"}
    /\ UNCHANGED <<entries, data, handled, owed, calls, requested, abortReq, early>>

Crash == Exit /\ UNCHANGED server

\* In the started state nothing catches the error, and an unhandled rejection
\* ends the process.
AbortFailedStarted(p, j) ==
    /\ wait[p][j] = "abort" /\ Stage(Row(p, j)) = "started"
    /\ Exit
    /\ AbortReceived(j)
    /\ UNCHANGED told

-----------------------------------------------------------------------------
(* The build server                                                          *)

BuildAppears(j) ==
    /\ build[j] = "requested"
    /\ build' = [build EXCEPT ![j] = "ongoing"]
    /\ UNCHANGED <<tasks, timer, wait, calls, told, history>>

BuildEnds(j) ==
    /\ build[j] = "ongoing"
    /\ \E verdict \in Verdicts : build' = [build EXCEPT ![j] = verdict]
    /\ UNCHANGED <<tasks, timer, wait, calls, told, history>>

Next ==
    \/ \E j \in Jobs : \/ StartJob(j) \/ AbortJob(j) \/ BecomeDue(j)
                       \/ BuildAppears(j) \/ BuildEnds(j)
    \/ \E p \in Procs : PollNothing(p) \/ Poll(p) \/ TakeTasks(p) \/ FinishBatch(p)
    \/ \E p \in Procs, j \in Jobs : Answer(p, j) \/ AbortFailedStarted(p, j)
    \/ Crash

\* Timers fire, requests are answered or fail, and builds end.  The task that has
\* been due longest is read first, so none is passed over for ever.
Fairness ==
    /\ \A j \in Jobs :
        /\ WF_vars(BecomeDue(j))
        /\ WF_vars(BuildEnds(j))
        /\ SF_vars(\E p \in Procs : Poll(p) /\ j \in ranged'[p])
    /\ \A p \in Procs :
        /\ WF_vars(TakeTasks(p))
        /\ WF_vars(FinishBatch(p))
        /\ \A j \in Jobs : WF_vars(Answer(p, j) \/ AbortFailedStarted(p, j))

Spec == Init /\ [][Next]_vars
FairSpec == Spec /\ Fairness

-----------------------------------------------------------------------------
(* Properties *)

Called(j, what) == \E i \in DOMAIN calls[j] : calls[j][i] = what
Ended(j) == \E what \in Ends : Called(j, what)
Held(j) == \E p \in Procs : wait[p][j] # "done"
Alive(j) == entries[j] # "absent" \/ Held(j)

\* The listener hears of a job that is not aborted in order, and of each event
\* once, although several process() overlap: started and then one end, or an error
\* at once.  It hears of a success only if the build passed.
ReportsInOrder ==
    \A j \in Jobs :
        /\ j \in abortReq \/ calls[j] \in {<<>>, <<"started">>, <<"error">>}
                                \cup {<<"started", end>> : end \in Ends}
        /\ Called(j, "success") => build[j] = "passed"
        /\ Called(j, "started") => Visible(j)

\* Only an abort makes a second process() work on a job.
OneAtATime ==
    \A j \in Jobs \ abortReq : Cardinality({p \in Procs : wait[p][j] # "done"}) <= 1

\* An abort is not lost between overlapping process(): when nobody works on the
\* job any longer and its end was not reported, the build server was told to abort
\* the build if the executor had started one, or the product has its tag.
AbortIsSent ==
    \A j \in (abortReq \cap requested) \ lost :
        ~Alive(j) /\ ~Ended(j) =>
            (IF data[j]["starting"] # None THEN "abort" ELSE "tag") \in told[j]

\* Every job ends: the listener is told, or the build server if it was aborted,
\* however the build server fails, unless a restart lost the job.
EveryJobEnds ==
    \A j \in Jobs :
        j \in requested ~> Ended(j) \/ told[j] # {} \/ j \in lost

\* The executor does what JobExecution promises to BuildSystem.
Exec(j) ==
    CASE j \notin requested -> "none"
      [] j \in requested /\ (j \in lost \/ ~Alive(j) \/ (Ended(j) /\ j \notin early)) -> "done"
      [] OTHER -> IF Called(j, "started") THEN "running"
                  ELSE IF j \in early THEN "aborting" ELSE "queued"
E == INSTANCE JobExecution WITH exec <- [j \in Jobs |-> Exec(j)]
ImplementsExecutor == E!Spec
=============================================================================
