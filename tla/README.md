# A verification project for common-build

common-build is a build system: a backend (Node.js, one process, state in Redis) that
receives patch sets from Gerrit, queues them per target branch, rebases and builds them on
an external build server (Cynosure), merges what succeeded, releases versions and tells
dependent repositories. This directory holds TLA+ models of its core, the configurations
that model-check them with TLC, and theorems about them that TLAPS checks.
Paths below are relative to `backend/` of the repository unless they say otherwise.

## 1. Inventory

| Component | State it keeps | Operations | What makes it hard | What makes it correct |
| --- | --- | --- | --- | --- |
| Queue scripts (`lua/*.lua`, `src/system/queue/queue-redis-impl.ts`) | per local queue a sorted set of changes, a hash with the job being built, keys with the last patch set; two global sorted sets | `push`, `start`, `complete`, each an atomic script | four keys that describe one queue; a patch set replaced while it waits or is built | counters agree with sets, order is kept, only the newest patch set waits or is built, one build per queue |
| Job queue (`src/system/queue/queue-impl.ts`, `queue.ts`) | a status key per job | `push`, `start`, `addState` | each is several round trips; callbacks from timers | legal transitions, the slot is released by its own job |
| Build system (`src/system/build-system-impl.ts`) | nothing but promises under way | `onUpdate`, the queue listener, the executor's callbacks; `onPush`, `onDelete`, `release` | rebase, merge and start are chains of awaits; everything in memory is lost by a restart | a queue is never held by nobody, waiting changes start, what is merged was built |
| Job executor (`src/cynosure/job-executor/`) | tasks in the task queue, one timer | `startJob`, `abortJob`, `process` | overlapping `process()`, retries, a build server that fails | one end per job, aborts arrive, every job ends |
| Task queue (`src/task-queue/`) | sorted set of due times, data and a flag per task | `upsert`, `popExpired` | `popExpired` is two steps and not atomic; expiries | a task put is handed out once, with its data |
| Gerrit access and stream listener (`src/repositories/repository-access/gerrit/`) | ssh client, a cache of changes | `rebase`, `merge`, `createUpdate`, `updateUpdate`, tags, branches, events | lost and doubled events while reconnecting; a change is made in three requests | every patch set is seen; one change per label, and it is seen by people |
| Execution serializer (`src/system/execution-serializer.ts`) | the last promise per key | `execute` | a rejected predecessor, whose derived promise nobody handles | one operation of a key at a time, in the order asked, and all of them |
| Local Git, source cache (`src/git/`, `src/system/source-cache-impl.ts`) | clones on disk | `ensureRef`, `ensureEntity`, `ensureDeleted`, `prune`, `fetchAllDefaults`, reads, `updateBranch` | retries, a fresh clone while others rely on the old one, partial fetches | what was ensured is there; who keeps a copy is told of changes |
| Repository model (`.../repository/`) | cached refs of a repository | `modelReader`, `onUpdate`, `nextVersion`, `resolveReadSha` | cache filled while it is deleted | the model is that of the clone; next version is fresh and larger |
| Majors (`.../majors/`) | a file in Git with series of majors | `addValue`, `applyMajors` | read-modify-write | a value added stays |
| Dependency storage, lookup cache (`src/repositories/dependency-manager/`, `.../scanner/dependency-lookup-cache-impl.ts`) | two-way index, cache | `update`, `lookup`, `getAllVersions`, `invalidate` | read, then write; invalidation while filling | both directions agree; no stale entry |
| Scanner manager and scanners (`.../scanner/`) | none | `registerDependencies`, `processByReferences`, `processRepository` | one label of several failing, content computed from what was read before | a release is proposed to every repository that uses it, once |
| Version container (`.../scanner/version-container.ts`, `src/domain-model/version.ts`) | none | `compare`, `getHighest` | versions of mixed length | the highest within a major |
| Publisher and release (`.../publisher/`, `build-system-impl.ts:198-227`) | none | copy publications, set the tag | concurrent releases, partial failure, an upload not waited for | what has a version was built from the commit of its tag |
| Others: artifact storage, system files, build log, routers, codecs, configuration, vault, shutdown, utilities, frontend | little or none | I/O and views | | |

How they interact. Gerrit events call `onUpdate`, which pushes to the queue. The queue
calls `onQueueTransition` from a timer for every status it writes. That listener rebases,
asks the executor to start or abort, labels and merges, and starts further jobs. The
executor keeps its own tasks in the task queue, polls the build server, and calls
`onJobStarted/Success/Failure/Aborted/Error`, each of which is an `addState` of the queue.
Gerrit events also call `onPush`, `onDelete` and `onPrune`, which bring the clone up to date
through the execution serializer; a listener of the clone deletes the cached model. For a
tag of a release `onPush` then finds, in the index of dependencies, the repositories that
use what was released, and scans each of them, in a line of its own of the serializer; a
scan makes or edits changes in Gerrit. A merge may release, and a release is a tag: the
circle is closed by Gerrit's events.
All share one Redis connection, which executes commands in the order they are sent.

`PROJECT.json` lists the hazards at their lines.

## 2. Modules

```
IntegrationQueue   <- refined by - QueueRedis      (QueueRedisProofs)
                                      ^ R
                                  BuildSystem      (MCBuildSystem)
                                      v E
                                  JobExecution   <- refined by - CynosureJobExecutor
                                                                     v T
TaskDelivery       <- refined by --------------------------------  TaskQueue (TaskQueueProofs)

ExecutionSerializer (ExecutionSerializerProofs)     Versions   DependencyStorage   GerritChanges
   ^ extended by          ^ extended by                  ^             ^                 ^
   LocalGit               +------------ ReleaseFlow -----+-------------+-----------------+
   ^                                    (ReleaseFlowProofs, ReleaseProposalProofs, MCReleaseFlow)
   Repositories (RepositoriesProofs, MCRepositories)
```

**QueueRedis** models the three scripts. Its variables are the Redis keys: `local` and
`score` (`queue:local:<queue>`), `last` (the key of a change's waiting patch set), `ready`
and `globalActive` (the global sorted sets), `active` (the hash). One action per script;
`now` is the clock and `newest` a history variable with the patch set pushed last.
**IntegrationQueue** is what a reader expects of such a queue: a change is idle, waiting or
building, always with its newest patch set, and a queue builds one change. `phase` is the
refinement mapping. The order of the waiting changes is the property `NoOvertaking`.

**BuildSystem** composes `QueueRedis` with `QueueImpl` and `BuildSystemImpl`. `pipe` is the
Redis connection: a step takes the command at its head and appends what the handler of the
reply sends next, so that a promise chain such as `addState` is as many steps as it has
round trips, and chains interleave as they do in Node. `timers` holds the callbacks of the
listener, in the order their `setTimeout` was called. `arriving`, `rebasing`, `accepting`
and `merging` are the flows that wait for Gerrit. Gerrit is `rev`, `base`, `tip`, `merged`.
`Crash` loses everything but Redis, Gerrit and the build server.

**JobExecution** is what `BuildSystem` assumes of the executor: a small state machine per
job. It is not taken on trust: **CynosureJobExecutor** models the executor itself, and the
run `job_executor` checks that it implements `JobExecution`.

**CynosureJobExecutor** composes the task queue with `process()`. `wait[p][j]` is the
request whose reply the process `p` waits for on behalf of job `j`; each reply (found,
missing, refused, failed) is an action. `taken` holds the rows that `popExpired` returned,
so that a handler decides on the states read then, not on those in Redis now. `build` and
`told` are the build server.

**TaskQueue** models `upsert` (one transaction) and `popExpired` (`ZRange`, then `Take`)
for any number of clients. **TaskDelivery** is its promise.

**ExecutionSerializer** is the map of last promises, for one key. An operation is a name of
a promise; `after` is the promise it waits for, `line` a history variable with the
operations asked for and not settled. A name is used again when nothing refers to it any
more (`Fresh`). `Doomed` is the state in which the derived promise of a rejected operation
is about to be rejected unhandled: the process ends, and only a restart can follow.

**LocalGit** is one repository at Gerrit (`remote`), the clone, and the command that runs on
it (`git`: place, tries of a macro, retries of `executeCommand`, whether the clone is a fresh
one). A commit is a number on the line of the main branch; a change and a tag have their
own refspec, hence their own way to get into the clone. A command is an operation of the
serializer, in as many steps as it has fetches.

**Repositories** composes it with the handlers of one repository: `onPush`, `onUpdate`,
`onDelete`, `onPrune`, a reader of the model and a request that adds a major. A handler is a
`stage` and the operation it waits for; it goes on when its promise is settled, before
anything else comes in (`Quiet`), as Node's microtasks do. Events are sent in the order of
Gerrit, and lost or doubled while the ssh client is replaced.

**Versions**, **DependencyStorage** and **GerritChanges** are the parts of the release flow
that can be understood alone: versions and the reader of a repository's model as operators;
the two-way index with its read before the transaction; the changes of an application with
label, private flag and unpublished edit.

**ReleaseFlow** composes them with the serializer: a library that publishes binaries and an
application that uses them. A client is a chain of promises in one of the roles release,
application of a major, push, upload, and `orphan`, which is what remains of a scan after one
of its labels failed and its promise was rejected. `calls` holds the copies that were asked for.
From outside come releases, majors, merges, edits, pushes of a topic and the expiry of a cached
lookup.
`excused` and `missed` are history variables: the versions for which a property is known not
to hold, entered where the code loses them.

Definitions named as a *fault* in a comment are variants of a definition with a bug that a
change of the code could plausibly introduce; no specification uses them. Each property is
checked to be violated by one of them, so that no property holds by the shape of a model.

## 3. Runs

| Run | Question | Instance | Distinct states |
| --- | --- | --- | --- |
| `queue_scripts` | Are the keys of the queue consistent in every order of calls, and do the scripts implement the abstract queue? | two queues, two changes of each, two commits, `maxCount` 1, three instants | 21,643 |
| `build_jobs` | Is a queue ever held by a job nobody works on, or a replaced patch set built, or the queue freed under its holder? | two changes of one branch, three patch sets in all, no restart | 2,120,902 |
| `build_recovery` | Does a waiting change start and a queue get released as long as no restart loses the work, and is an idle queue woken up, also after one? | two changes, builds that do not succeed, one restart | 61,764 |
| `build_terminal`, `build_merged`, `build_waiting` | three statements of the repository that the code does not keep (section 5) | | |
| `task_queue` | Is a task handed out once and with its data, whatever comes between the steps of `popExpired`? | two tasks, two clients, two kinds of data | 21,444 |
| `job_executor` | Do overlapping `process()`, aborts, failures and a restart keep the executor's promises? | one job, two `process()`, one restart | 73,176 |
| `job_overlap` | Can two `process()` work on one job, or report it twice? | two jobs, one without a build server, two `process()` | 390,795 |
| `job_batch` | Does one job of a batch hold up another? | two jobs, one without a build server, one `process()` | 15,079 |
| `repositories` | Do commands on a clone run one by one, is what was ensured there when it is read, is whoever keeps a copy told, and does every handler end? | two handlers, one tag, one change, two majors, three events from outside or failures | 419,900 |
| `release` | Do versions hold what their tag says, is the index two-way, and is every release proposed to the application, in one change per label? | two clients, an artifact and an image with a label each in one file and an artifact with a path of one segment, two releases told at the start, one event from outside or failure | 253,656 |

Bounds, and why they are enough.

- *Changes and patch sets.* The scripts treat local queues independently except for the two
  global sets, so that two queues with two changes each reach every branch of them;
  `maxCount` 1 makes `start` leave a startable queue behind. In
  `BuildSystem` two changes of one branch are the smallest instance in which a change waits
  for another, and two patch sets of one change the smallest in which one replaces another;
  `MaxPatchSets` limits the sum. A rebase makes a patch set too; the target branch starts
  with two commits, so that changes need a rebase from the start.
- *Restarts.* One restart at any moment reaches each loss; a second finds the states the
  first one found.
- *Retries.* The limits of `Constants` (3, 30, 100, 3, 20) are scaled to 0, 1 and 2. They
  stay different, since the failures of a state are counted together and compared with the
  limit of whatever failed last.
- *Clients of the task queue.* Interference needs two. `process()` overlaps only after
  `startJob` or `abortJob`, so two suffice for one job. A job that is not aborted can only
  be read by two of them when another job is started in between: `job_overlap` has two.

- *Repositories.* What goes wrong takes two handlers: one changes the clone while the other
  relies on it. `Budget` counts everything that Gerrit's users do and everything that fails
  without need, so that three of them is, for instance, a push, a change of a tag and a
  failure (a connection that goes on failing is one). `RETRY_COUNT` and `GIT_RETRY_COUNT` are 2 and 1: the last try and one before it. By hand,
  the safety properties were also checked with a budget of four and `GIT_RETRY_COUNT` 0 (5,787,867 states).
- *Release.* The two releases of which Gerrit tells first are scanned for by two clients at
  the same time; the budget of one is the event or failure that comes between (a third
  release, a major, a merge, an edit, an upload, a failing request, a restart). By hand,
  larger instances found no error: three dependencies (a repository in the manifest,
  an artifact, an image) with the two releases (791,779 states) and with one of them (41,284
  states). One release with a budget of two was followed for 3.4 million states, and not
  to its end.
  With a budget of one, two pushes of the application are never under way at the same time: that their updates of
  the index, which read before they write, do not disturb each other is not shown by this run but by the proof.
  `Ops` gives a client two names of a promise, since one that others wait for cannot be used
  again. Clients are symmetric; the run has no liveness property.

`CHECK_DEADLOCK` is off in the runs of `BuildSystem`, where nothing happens any more
when the bounded patch sets are built, and in `repositories`, where the budget is spent.
`release` checks for it: what can stop is `AtRest`. In those of the executor a deadlock would be a
timer that nobody set again.

Fairness. Redis and Node's timers run what was sent and set (weak fairness). Gerrit and the
build server answer or their clients fail, which the models make an answer as well; builds
end, since the executor polls for ever otherwise. In the task queue the entry due longest
is read first (`ZRANGE ... BYSCORE LIMIT`), hence a due task is not passed over for ever:
strong fairness of a poll that reads it. Nobody is assumed to upload, abort or restart.
In `Repositories` only the process as a whole does not stop while it has something to do
(weak fairness of `Step`), which Node's event loop and a supervisor that restarts it justify;
no handler and no operation has fairness of its own.

## 4. Properties

- *Queue scripts*: `ReadyCountsWaiting`, `WaitingHasPatchSet`, `BlockedHasOwner` relate the
  keys; `NewestOnly`, `NoOvertaking`, `NoTakeover` are what users rely on;
  `ImplementsQueue` is the refinement.
- *Build system*: `SlotHasOwner` (no queue is held by a job nobody works on),
  `ExecutesHolderOnly` (nothing else is built, except what is about to be aborted),
  `CancelledNeverRuns`, `FreedByOwnEnd` (a late verdict does not free a successor's slot),
  `WakeUpComing` (an idle queue with a waiting change is about to be asked for it, but after a
  success, and when `start.lua` took as many others as it may), `WaitingStarts`, `SlotIsReleased`.
- *Task queue*: `FlagMeansTaken`, `OwedIsStored`, `ImplementsDelivery`,
  `EventuallyHandedOut`.
- *Job executor*: `ReportsInOrder`, `OneAtATime`, `AbortIsSent`, `EveryJobEnds`,
  `ImplementsExecutor`.
- *Repositories*: `ServedInOrder` (commands run one at a time, in order), `PushedIsFetched`
  (when the handler of a push ends, the clone has what was pushed, or is empty), `IgnoredOnlyIfReplaced` (a
  patch set is taken for one without a build only when a fresh clone took its commit away),
  `StaleIsAnnounced` (every change of the clone leads to the deletion of the model, but for
  what `Blame` names), `OnlyOverlapDrops` (a major is lost only to a request that
  had read the file before), `HandlersEnd`.
- *Release*: `PublishedIsTagged` (binaries of a version come from the tagged commit, but for an artifact whose path
  is one segment, which the code tags and never copies),
  `IndexIsTwoWay`, `OneUpdatePerLabel`, `ReleaseIsProposed` (at rest, every release is in the
  application at that version or a newer one, or in an open change of the right label, but for the
  ways to miss it which the actions enter into `missed`). These exceptions are the result: each was
  found as a counterexample or by a proof that did not go through, and the theorem says that there is no other.

## 5. Where the code and its documents disagree

1. *A terminal state is not final* (`build_terminal`). `addState` reads the status, checks
   the transition and writes in a later round trip; a push that aborts the job in between
   is overwritten (`src/system/queue/queue-impl.ts:73-86`).
2. *What is merged need not have been built* (`build_merged`). `merge()` submits the
   current revision (`gerrit-repository-access.ts:60-92`), not the one of the job.
3. *A successful build does not start the next change* (`build_waiting`). The `SUCCESS`
   branch of `onQueueTransition` never calls `startJobsFromQueue`
   (`src/system/build-system-impl.ts:141-187`).

`build_recovery` shows `WaitingStarts` for the verdicts other than success, so that the
third is the only gap. Not findings, as no document says otherwise, but worth knowing: a
restart between `start.lua` and the `STARTING` callback leaves a queue blocked until the
same change is pushed again, for nothing produces `TIMEOUT`; the next change may be rebased
before the previous one is merged, and its merge then refused; an abort that the build
server rejects in the started state is an unhandled rejection and ends the process
(`AbortFailedStarted`); and the states of a job stay in the task queue for an hour after
it ended, so that the same patch set, started again, meets its old states.

Of the repositories and the release flow, likewise met while modelling, and excepted by
name in the properties:

- An operation that queues behind one that fails ends the process
  (`execution-serializer.ts:29`, `index.ts:73`): `finally` derives a promise that rejects
  without a handler. A fetch that fails in spite of all retries does that to every handler of
  the repository that waits.
- A prune that fails in spite of all retries ends the process too: nobody handles the rejection of
  `onPrune` (`build-system-impl.ts:371`, `gerrit-stream-listener.ts:142`; action `PruneRejected`).
- A prune that overtakes the push of the same merge, and a fresh clone, change the refs without
  telling the model (`source-cache-impl.ts:36`, `local-git-factory.ts:167`); a model may be stored
  after the update that should have deleted it (`raw-model-repository.ts:87`). A fresh clone between
  an ensure and a read makes a patch set look as if it had no build
  (`local-git-commands.ts:274`).
- A moved tag is not fetched (`ensureRef` finds the old one) and makes a pruning fetch fail. That
  fetch has pruned what it could, and when it is tried again because a tag is to be gone, there is
  nothing left to do: nobody is told, and the model keeps the tag (`local-git-commands.ts:133`).
- Two releases computed from the same model, or one from a clone that lacks the merged commit or
  the last tag, publish what the tag does not have, or nothing (`build-system-impl.ts:161, 201`).
  An image's upload is not waited for (`artifactory-docker-registry.ts:54`), and a refused one ends
  the process.
- An artifact whose path is one segment is not copied (`artifactory.ts:108`): the copy warns and resolves, the
  publisher counts it as published, and the version is tagged without it. No scan ever finds a version of it.
- The first label that fails ends a scan for the serializer while the others go on
  (`scanner-manager-impl.ts:139`), so that two scans may both create a change of a label;
  `update-content` does not queue at all. A scan may take back what was merged or uploaded since
  it began (`scanner-manager-impl.ts:176`).
- A failure between the creation of a change and its publication leaves a private change, or an
  edit, that later scans take for the one to use (`gerrit-repository-access.ts:163`).
- An application that has not got the newest major of the serie is not scanned
  (`scanner-manager-impl.ts:195`), and the selector that is to stay in the current major
  picks the highest version (`dependency-lookup.ts:69`: an instance of the other class, and
  never used).
- A patch branch with a minor is taken for the branch of its major as well
  (`raw-data-to-model-converter.ts:24`, an assignment in a condition).

## 6. Proofs

TLC checks small instances; the following hold for all values of the constants.

**QueueRedisProofs.** For finite sets of queues and changes, any set of commits and any
`maxCount`. The inductive invariant `IInv` is the conjunction of the five state properties,
which need each other: `ReadyCountsWaiting` and `BlockedHasOwner` make the queues that
`start.lua` takes have a waiting change and no build (`TakenHasWork`), or ZPOPMIN would
return nothing; `WaitingHasPatchSet` makes the patch set it activates exist, which is
`TypeOK` of the hash; and `push.lua` counts a change once because of it. There is one lemma
per script (`PushIInv`, `StartIInv`, `CompleteIInv`), with one step per conjunct.
`NoTakeover` and `NoOvertaking` are action properties proved from the invariant.
`QueueRefinement` maps each script to a step of `IntegrationQueue` or a stutter.

**TaskQueueProofs.** For a finite set of tasks and any clients, kinds, data and `MaxPop`.
`IInv` is `TypeOK`, `FlagMeansTaken` and `OwedIsStored`: a client that still holds the id of
a task somebody took is harmless because the flag is set (`FlagMeansTaken`), which is what
keeps `OwedIsStored` through its `Take`. `TaskRefinement` is the implementation of
`TaskDelivery`.

**BuildSystemProofs.** For finite sets of queues and changes, any targets and verdicts, any number
of commits, patch sets and restarts, and any `MaxCount`. None of the properties is inductive, since
what they say of a job depends on everything that is under way for it: commands on the connection,
timers, handlers that wait for Gerrit, and the executor. `IInv` therefore says, beside `TypeOK` and the
invariant of the scripts,

- that a job which was taken is at one place at a time (`OneToken`), and what excludes what: nothing
  has happened to a patch set before its push (`FreshIsUntouched`), nothing but its announcement is
  on its way while it waits (`WaitingIsUntouched`), a cancelled job is not begun, an aborted one does
  not hold its queue;
- which command may be behind which on the connection (`Fits`: no job is started or ended twice, or
  announced after its start), since handlers append to what earlier handlers sent;
- until the first restart, that the job worked on holds its queue or is aborted, that a holder is
  worked on, and that its state is such that its end will be accepted (`UntilCrash`).

The `get` before `set` is why the last part is needed: a verdict is refused when the state read does
not allow the transition, and then nobody would complete the job. There is one lemma per handler,
with one step per part that the handler can disturb. `SlotHasOwner` and `ExecutesHolderOnly` are proved
as `[](crashes = 0 => ...)`: a restart loses handlers and timers, and with them the owner (section 5);
the run that checks the two has no restart either. `CancelledNeverRuns`, `FreedByOwnEnd` and
`WakeUpComing` hold with restarts. The last needs two facts more, that a success on its way into the
queue was reported by the executor (`SuccessReported`), and that `start.lua` leaves a queue with
waiting changes only when it took `MaxCount` others (`StartLeavesCrowded`); that each step which frees
a queue leads to the next request for a start is then a case per command (`RedisKeepsWakeUp`). `UsesQueueScripts` and
`UsesExecutor` are the composition: each step is one of `QueueRedis` and one of `JobExecution`, or a
stutter, so that what is proved of the scripts holds here as well. TLC checked `IInv` and the two facts first, on
the instance of `build_jobs` (2,120,902 states) and with one restart and two patch sets (110,400 states).

**CynosureJobExecutorProofs.** For any finite set of jobs, any number of overlapping `process()`, any
limits, failures and restarts. None of the three properties is inductive: the task of a job is taken
out of Redis, kept by a `process()` over several awaits, and put back or not. `IInv` says where it is,
one token per job: its entry in the task queue, or the one `process()` that took it (`OneToken`);
that what such a `process()` read is still what Redis has (`RowOK`, `DataOK`), since nobody else
writes the task meanwhile but `abortJob`; which calls of the listener go with which states
(`CallsOK`, `InOrder`); and, for a job that was aborted, that its abort was sent or is still in the
data or in the hand of a `process()` (`Sent`). The thirty handlers of replies come in four shapes:
to ask for something (`Asks`), to put the task back (`PutsBack`), to tell the listener and forget the
task (`Reporting`), to tell it and go on (`Telling`); each shape has one lemma, and a handler
is shown to have its shape. `ExecutorRefinement` maps each step to one of `JobExecution` or a
stutter; with `UsesExecutor` of `BuildSystemProofs` this composes the two. TLC checked `IInv` first, on the
instances of `job_executor` (73,176 states) and `job_overlap` (390,795 states).

**ExecutionSerializerProofs.** For any operations. That what runs is at the head of the line
is not inductive: `ESInv` adds that the line has exactly the operations that wait or run, each
once, that each waits for the one before it (`EachAfterNext`) and that `last` is the last of
them. There is one lemma per operation. An operation can begin only when it is the first
(`OnlyFirstBegins`), since the predecessor of any other is in the line too, and open.

**DependencyStorage** (in `ReleaseFlowProofs`). For any sources, references and clients. `DSInv` is
`IndexIsTwoWay` and `DSShape`: the rest of the type, and that a client that holds an old
value holds it for a source. A transaction that replaces a true old value keeps both
directions together, whatever others did to other sources.

**RepositoriesProofs** and **ReleaseFlowProofs** carry these results into the compositions:
every step of `Repositories` and of `ReleaseFlow` is, for the variables of the serializer, a step of
`ESNext` or a stutter (`RepositoriesUseSerializer`, `FlowUsesSerializer`), from which
`ServedInOrder` follows for both, with any number of handlers, failures and restarts and
for any `Budget`. `FlowKeepsIndex` does the same for the index. The invariant that this needs is
that a client waits for an operation or for nothing (`OpTypeOK`).

**RepositoriesProofs** goes on to prove all safety properties of `Repositories`, for any handlers, tags,
changes, values, retries and any `Budget`. `IInv` adds to the invariant of the serializer

- of the clone, that it has nothing which the repository lacks, and the objects of what it names
  (`CloneOK`); that a command runs exactly when its operation does (`GitOK`); and that the file at the
  cloned branch is the current one (`FileOK`), since only pushes through this clone change it;
- of each handler, which stages, refs and operation belong together (`HandlerOK`, `WaitsOK`), and what it
  may rely on while others use the clone: an ensured commit, unless the clone was replaced
  (`EnsuredOK`); for a push of the branch, that the clone is not older than it (`PushOK`); for a
  request that adds a major, that what it has read and what was pushed since are together all of the
  file (`ReadOK`).

The clone has two fates, and `BystanderOK` is the lemma that a handler keeps what it relies on
under both: it gets more (`Grown`; the fetches are shown to do no more than that), or it is emptied, and
then is filled again by the command that runs before any other looks at it (`Refilled`), or this
command is rejected, and whoever waits behind it ends with the process (`RejectionDooms`). That
the serializer lets no command in between is what makes this work, and why `ESInv` is a part of `IInv`.
There is one lemma per action. The action properties follow from `IInv` and from which actions move a
handler (`OthersLeave`, `MovesFromStage`).

The attempt corrected three of the statements, each false beyond the bound of the run: a clone
that is emptied by a failing command stays behind a push that was handled (`PushedIsFetched` now says
so); a value pushed twice can be missed twice (`missed` has all that a push brought, `OnlyOverlapDrops`); and the
model stays stale after a fetch that pruned in part (`Blame`, `StaleIsAnnounced`), which TLC confirmed with
a budget of four. TLC checked `IInv` first, on the instance of the run (419,900 states) and with
`RETRY_COUNT` and `GIT_RETRY_COUNT` 0 (293,583 states), but for the domain of `h`, whose values TLC cannot
compare.

**ReleaseFlowProofs** goes on to prove `PublishedIsTagged`, for any number of releases at the same time, any
commits, binaries among the three kinds (artifacts, artifacts with a path of one segment, images), and any `Budget`. That tags and binaries agree is not inductive, since
the copies come before the tag and one of them may come after it. `ReleaseInv` says, but for the versions in `excused`:

- two releases at work never have the same version (`OneRelease`), and a version at work has no tag (`NotTagged`):
  this is where the choice of the version matters, and `NextVersionIsNew` is the lemma about it. The set of the
  releases of a major has no end in general; that `Highest` finds the highest of it is shown from a bound on what is
  tagged (`ReleasesOK`) and the well-foundedness of the numbers (`SmallestExists`, `HighestExists`);
- before a release asks for copies nothing is copied to its version (`NothingCalled`), and when it has asked, each
  binary is there or asked for, from the release's commit and by itself (`AllCalled`), so that having waited for
  its own artifacts it has waited for all;
- the binaries of a tag are there or asked for, and none that is waited for is missing (`AllCopied`);
- nothing is asked for, and so nothing published, under a path of one segment (`CallsOK`).

`TaskInv` and `RepoInv` are what this needs of the rest: a task and a repository have their fields and no others, a handler
has a promise only while it scans, so that no release is ever ended by one, and only `SetTag` makes a release at
Gerrit. There is one lemma per action of a release; all other steps are shown to leave the releases at work, tags and
binaries where they are (`ReleasesGoOn`, `TagsStay`, `NoReleaseStep`).

It then proves `OneUpdatePerLabel`, for any dependencies, files, labels and numbers of scans, uploads and failures.
`ChangesInv` says of a scan that has listed the changes

- that its promise is running (`Runs`); with `ESInv` it is the only one (`OneRuns`);
- that it has seen each change that has a label which it is still to work on (`Seen`, `ToDo`), and that there is none of the
  label for which it makes one (`Free`): what was seen stays true because only the scan itself can put a label on a change
  that counts;
- that a handler which is to put a label on a change has made that change (`MadeBy`), so that what uploads and scans
  nobody waits for label is theirs.

The step that all this is for is `LabelUpdateOK`; every other step is shown to give no label (`NoNewLabel`) and to
leave the other scans what they rely on (`SteadyScan`). That `Invalidate` writes to all tasks, and that scans whose
promise is rejected go on, are the two places where this is more than bookkeeping.

`TypeOK` (`FlowIsTyped`) is more than types: every version in a file, a change or an edit of one is a tag of the
library or has binaries, and a clone is behind what it is a clone of. `TypesInv` adds to the invariants above

- `FilesInv`, one named part per field of a task: what a scan has read, listed, found, is about to cache or to write,
  and of which change, is made of known versions and of changes that there are (`BaseOK`, `SeenOK`, `FoundOK`,
  `StoreOK`, `WantOK`, `IdOK` and others), for each stage it goes through;
- `WorldInv`: clones are within their repositories (`RefsOK`), references name commits that there are (`ShasOK`), the
  file has a version for each commit of the main branch (`HeadsLen`), and what is released or pushed is known.

Every step keeps both, and makes the set of known versions and the references only grow (`WorldGrows`). There is one lemma
per action that says what it does to its task (`...Does`); all later lemmas cite those and not the actions.

**ReleaseProposalProofs** proves `ReleaseIsProposed` (`ReleasesAreProposed`), the promise of the whole flow: an event, the index, the cached lists, the
line for scanning, the scan of the main branch and then of a change, and the edit that is published all stand between
a tag and the proposal. `ProposalInv` says that no release that may not be missed is ever without care (`Handled`): it is
proposed, or its event is on its way or its push handled and not scanned yet (`Coming`), or its scan is about to see to it at a stage
that is named (`ForDep`: what the main branch has is older, and the release is found or still to be looked up; it is in what is
to be written to the label's change; the change is read again; it is in the edit that is to be published). What makes this inductive:

- `Kept`, `EditsKept`: what the main branch, an open change or its edit has is never replaced by something older, but by
  the steps that enter it into `missed`;
- `HasTag` and `FreshCache`: from the moment a release's push has dropped the cached lists, the clone has the tag, and no
  list that is cached, or that another scan has read and is about to cache, lacks the release. This
  is the race between `invalidate` and a lookup under way; what is read before and stored after is `late`, and excepted;
- `HighEnough`, from `MajorsInv`: the major that a scan looks at is not below that of the release, so that the selector
  of the serie does not leave it out;
- `SeenUp`: what the changes had when they were listed they have still, or the main branch does.

The attempt corrected the property and the model, both beyond the bound of the run. A change that is merged entry by entry can
leave the file with an older version than it had (`MergeLoses`); an open change that lacks the dependency is scanned by
its own file, which does not use it, so that the release is never written there (`Lacks`); both are now entered into
`missed`. `Proposed` had accepted a change that a failure left private whatever its content, and now asks for the version there, too. And
a release of a major above the serie's values is not looked for, which is why `MajorsAreValues` is assumed of the start; that
later ones are not is proved.

Assumptions are the named `ASSUME`s of the modules (`QueueAssumption`,
`TaskQueueAssumption`, `BuildSystemAssumption`, `CynosureJobExecutorAssumption`,
`LocalGitAssumption`, `NoneIsNoData`, `NoneIsNoState`, `NoneIsNoOp`, `NoneIsNoCommand`, `NoneIsNoModel`,
`NobodyIsNoSource`, `OpsAreHandlers`, `OpsAreClients`, and of `ReleaseFlow` `SourcesAreTwo`, `PublicationsAreThree`,
`PendingAreReleases`, `MajorsAreValues`, `DepsAreRefs`, `FilesHoldDeps` and `NoEditIsNoFile`), which TLC evaluates on every run.
The seven say that the library and
the application are the two repositories, that what is published are artifacts, with a path of one segment or of more, and images, that a release is called by
three numbers, that the releases tagged at the start are of majors in the serie, that a dependency has a label, in which file a
dependency of each kind may be, and that what stands for "no edit" is not a content. `LocalGitAssumption` says that the names of tags, changes, the main branch and
`meta` differ, as their refs do, and that the numbers of retries are natural numbers.

Only model-checked: the liveness properties (`WaitingStarts`, `SlotIsReleased`,
`EventuallyHandedOut`, `EveryJobEnds`, `HandlersEnd`), which are out of the provers' reach. All invariants and
action properties of the passing runs are proved.

## 7. Abstractions

- Redis is reliable. The transaction or script is atomic, and replies come in the order of
  the commands. The first command of a reply's handler follows it without delay.
- A job is a change and a patch set; strings, encodings, messages and logs are left out.
- In `BuildSystem` all pushes have the same time, so that waiting changes start in any
  order; `QueueRedis` has the order. Time elsewhere is whether something is due.
- The status keys' 48 hours and, in the executor, the 60 minutes of the data and the 120
  seconds of the flag do not pass while a job is under way; `TaskQueue` has both expiries,
  with the assumption that a due task is taken within the hour and that the two steps of
  one `popExpired` are less than 120 seconds apart.
- Each patch set is announced at most once, in any order. `startJob` is called once for a
  job and `abortJob` at most once. Calls of the listener about a job that is already
  aborted are left out of `BuildSystem`: `addState` rejects them.
- A verdict is polled ten seconds after `onJobStarted`; its update of the queue is over by
  then (`StartedSettled`).
- Gerrit and Cynosure do what their clients' calls and the handled events tell. A query may fail
  to find a build that exists; a request that failed may have had its effect.
- The three requests of a rebase are one step: onto the commit that the branch has, or had before, and the
  refusal with 409, which the code takes for "no rebase necessary", may come whatever its reason is.

- A repository has one line of commits, and its clone one command at a time. What the
  handlers read of the clone is what they act on: whether a commit has a build.yml, whether
  the repository is active (`meta`), refs, and one file with values.
- The serializer of `Repositories` is that of the clone, the one of `ReleaseFlow` that of the scans;
  keys are independent, so each model has one. In `ReleaseFlow` the model of a repository is
  that of its clone, and reads of the clone take no time; `Repositories` is about when not.
- A version has three numbers in the runs; the operators take any. A file is what it uses at
  which version. A rewritten file replaces the one of the change, as `edit` does; Gerrit merges
  entry by entry and refuses a conflict.
- The labels of a scan, and the dependencies looked up, are worked on in any order. Labels
  are not interleaved within a scan: they write to changes of their own. When one fails the
  others go on after the promise of the scan is rejected, in any order with all else.
- A request that was refused may have had its effect only where the model says so: copies
  (`Restarted`, `ReleaseRejected`). A handler that fails in the middle of a scan keeps what it
  did.

### Not modelled

- *Meta data of a release* (`publisher-manager-impl.ts:19-63`), *the graph of dependencies*
  (`scanner-manager-impl.ts:231-307`, `dependency-graph-impl.ts`), unreleased commits and the
  promoted versions: they are written or read for people and nothing decides on them.
- *Active repositories*: a Redis set that is written without being waited for.
- *Build log, vault, configuration, domain classes and their codecs, routers that only read,
  frontend*: no state that anything here depends on, or parsing and layout.
- *Parsing and printing* of build.yml, dependencies.yml and manifests: the models have what a
  scanner finds and rewrites.
- *GitLab access*: most of its methods reject.
- *The weekly major* (`weekly-sprint-calulator.ts`): a calendar; `AddMajor` adds any higher one.
- *Shutdown* as a sequence: a stop is the action `Crash` or `Restart` at any moment.
- The 48 hours of status keys; `setInfoUrl`.

## 8. Plan

In order of what it would add:

1. Models: patch sets announced twice to the queue (a patch set pushed again aborts itself) and
   jobs started again, with the old states that the task queue still has; a merge of `BuildSystem`
   as the merge that `ReleaseFlow` releases.
2. A second application in `ReleaseFlow`, so that a broadcast of which one part fails can be told
   from one that does not reach anybody.

## 9. Running

```
tlc -config QueueRedis.cfg QueueRedis
tlc -config BuildJobs.cfg MCBuildSystem      (BuildRecovery, BuildTerminal, BuildMerged, BuildWaiting)
tlc -config TaskQueue.cfg TaskQueue
tlc -config JobExecutor.cfg CynosureJobExecutor      (JobBatch)
tlc -config JobOverlap.cfg CynosureJobExecutor
tlc -config Repositories.cfg MCRepositories
tlc -config ReleaseFlow.cfg MCReleaseFlow
tlapm QueueRedisProofs.tla       (TaskQueueProofs, BuildSystemProofs, CynosureJobExecutorProofs,
                                  ExecutionSerializerProofs, RepositoriesProofs, ReleaseFlowProofs,
                                  ReleaseProposalProofs)
```
