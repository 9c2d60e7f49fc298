---------------------------- MODULE JobExecution ----------------------------
(***************************************************************************)
(* What a job executor (system/job-executor/job-executor.ts) does for its   *)
(* caller: a job that was asked for is reported as started and then as      *)
(* ended, or as not started, unless it was aborted; then it may be dropped  *)
(* without a report.  A restart of the process may lose jobs.               *)
(***************************************************************************)
CONSTANT Jobs

VARIABLES
    exec,     \* what the executor does for a job
    abortReq  \* the jobs for which abortJob was called

jxVars == <<exec, abortReq>>

TypeOK ==
    /\ exec \in [Jobs -> {"none", "queued", "aborting", "running", "done"}]
    /\ abortReq \subseteq Jobs

Init ==
    /\ exec = [j \in Jobs |-> "none"]
    /\ abortReq = {}

Becomes(j, state) == exec' = [exec EXCEPT ![j] = state]

\* The executor finds an abort that came before the request next to it: such a
\* job does not start.
StartJob(j) ==
    /\ exec[j] = "none"
    /\ Becomes(j, IF j \in abortReq THEN "aborting" ELSE "queued")
    /\ UNCHANGED abortReq

AbortJob(j) ==
    /\ abortReq' = abortReq \cup {j}
    /\ UNCHANGED exec

\* onJobStarted
Started(j) ==
    /\ exec[j] = "queued"
    /\ Becomes(j, "running")
    /\ UNCHANGED abortReq

\* onJobSuccess, onJobFailure, onJobAborted or onJobError.  It may still come
\* after abortJob, when the verdict was already being fetched.
Ended(j) ==
    /\ exec[j] = "running"
    /\ Becomes(j, "done")
    /\ UNCHANGED abortReq

\* onJobError: the build server does not take the job, in spite of the retries.
NotStarted(j) ==
    /\ exec[j] \in {"queued", "aborting"}
    /\ Becomes(j, "done")
    /\ UNCHANGED abortReq

\* An abort is carried out without a report.
Dropped(j) ==
    /\ exec[j] \in {"queued", "aborting", "running"} /\ j \in abortReq
    /\ Becomes(j, "done")
    /\ UNCHANGED abortReq

Restart ==
    /\ \E lost \in SUBSET {j \in Jobs : exec[j] \in {"queued", "aborting", "running"}} :
           exec' = [j \in Jobs |-> IF j \in lost THEN "done" ELSE exec[j]]
    /\ UNCHANGED abortReq

Next ==
    \/ \E j \in Jobs : \/ StartJob(j) \/ AbortJob(j)
                       \/ Started(j) \/ Ended(j) \/ NotStarted(j) \/ Dropped(j)
    \/ Restart

Spec == Init /\ [][Next]_jxVars
=============================================================================
