----------------------------- MODULE Repositories -----------------------------
(***************************************************************************)
(* What the backend keeps of one repository: its clone (LocalGit), the model *)
(* of it in Redis, and the handlers that bring them up to date when Gerrit   *)
(* tells of a change.  A handler is a chain of continuations; whatever it    *)
(* asks of the clone queues behind what the others have asked.               *)
(***************************************************************************)
EXTENDS LocalGit

CONSTANT Handlers

ASSUME OpsAreHandlers == Ops = Handlers \X {0, 1}
ASSUME NoneIsNoModel == None \notin [main : Nat, tags : [Tags -> Nat]]

VARIABLES
    stream,  \* events on their way from Gerrit
    h,       \* per handler, what it does and where it is; history: what others
             \* added after it read, and whether its clone was replaced
    op,      \* per handler, the operation it waits for
    model,   \* repository-model:<source>, main and tags, or None
    blame,   \* history: why the model is not that of the clone
    added    \* the values that were asked to be added

vars == <<esVars, gitVars, stream, h, op, model, blame, added>>

\* A handler that is done has come to its end or has given up.
Ended == {"done", "ignored", "lost"}
Idle == [kind |-> "none", ref |-> Main, sha |-> 0, stage |-> "done", again |-> FALSE,
         seen |-> None, missed |-> {}, replaced |-> FALSE]
Busy(p) == h[p].stage \notin Ended

\* The stages in which a handler has something run on the clone.
Commands == {"ensure", "fetchAll", "isActive", "build", "deleted", "prune", "entities",
             "branch", "values", "update"}

\* Node runs what follows a settled promise before it looks at anything from
\* outside: no operation is left to be asked for or begun (or to end the process).
Quiet ==
    /\ \A o \in Ops : ~CanBegin(o)
    /\ \A p \in Handlers : h[p].stage \in Commands => op[p] # None

Init ==
    /\ ESInit /\ GitInit
    /\ stream = <<>>
    /\ h = [p \in Handlers |-> Idle]
    /\ op = [p \in Handlers |-> None]
    /\ model = None
    /\ blame = "none"
    /\ added = {}

\* RawModelRepository.getRawModelFromSource
ModelOf(c) == [main |-> c.main, tags |-> c.tags]

\* History: the first thing that took the clone away from the model.
Blame(x) == blame' =
    IF model' = None \/ model' = ModelOf(clone') THEN "none"
    ELSE IF blame # "none" THEN blame ELSE x

-----------------------------------------------------------------------------
\* The repository changes, and Gerrit sends the events.

Event(kind, ref, sha) == [kind |-> kind, ref |-> ref, sha |-> sha]

Outside ==
    /\ Spend /\ Quiet
    /\ UNCHANGED <<esVars, clone, cmd, git, h, op, model, blame, added>>

Send(events) == stream' = stream \o events

\* A change is merged: the branch is updated, and both are reported.
MergeChange == \E swapped \in BOOLEAN :
    LET n == remote.main + 1
        es == <<Event("push", Main, n), Event("prune", Main, 0)>> IN
    /\ Outside
    /\ remote' = [remote EXCEPT !.main = n, !.file = Append(@, remote.file[remote.main])]
    /\ Send(IF swapped THEN <<es[2], es[1]>> ELSE es)

CreateTag(t) ==
    /\ remote.tags[t] = 0 /\ Outside
    /\ remote' = [remote EXCEPT !.tags[t] = remote.main]
    /\ Send(<<Event("push", t, remote.main)>>)

MoveTag(t) ==
    /\ remote.tags[t] \notin {0, remote.main} /\ Outside
    /\ remote' = [remote EXCEPT !.tags[t] = remote.main]
    /\ Send(<<Event("push", t, remote.main)>>)

DeleteTag(t) ==
    /\ remote.tags[t] # 0 /\ Outside
    /\ remote' = [remote EXCEPT !.tags[t] = 0]
    /\ Send(<<Event("delete", t, 0)>>)

UploadChange(c) ==
    /\ c \notin remote.changes /\ Outside
    /\ remote' = [remote EXCEPT !.changes = @ \cup {c}]
    /\ Send(<<Event("update", c, 0)>>)

\* The ssh connection is lost, or a second client still listens.
LoseEvent(repeat) ==
    /\ stream # <<>> /\ Outside
    /\ stream' = IF repeat THEN <<Head(stream)>> \o stream ELSE Tail(stream)
    /\ UNCHANGED remote

-----------------------------------------------------------------------------
\* A handler asks for an operation, and goes on when its promise is settled.

First(kind) ==
    CASE kind \in {"push", "update"} -> "ensure"
      [] kind \in {"delete", "prune"} -> "isActive"
      [] kind = "read" -> "get"
      [] kind = "add" -> "branch"

NextFree == CHOOSE p \in Handlers : ~Busy(p)
StartHandler(p, e) ==
    /\ ~Busy(p) /\ p = NextFree /\ Quiet
    /\ h' = [h EXCEPT ![p] = [Idle EXCEPT !.kind = e.kind, !.ref = e.ref, !.sha = e.sha,
                                          !.stage = First(e.kind)]]
    /\ UNCHANGED <<esVars, remote, clone, cmd, git, op, model, blame>>

\* GerritStreamListener: onPush, onUpdate, onDelete, onPrune.
Deliver(p) ==
    /\ stream # <<>>
    /\ StartHandler(p, Head(stream))
    /\ stream' = Tail(stream)
    /\ UNCHANGED <<added, spent>>

\* RepositoryImpl.modelReader, asked for by one caller at a time.
AskModel(p) ==
    /\ \A q \in Handlers : Busy(q) => h[q].kind # "read"
    /\ Spend
    /\ StartHandler(p, Event("read", Main, 0))
    /\ UNCHANGED <<stream, added>>

\* MajorsServiceImpl.addValue, once for every value.
AddValue(p, v) ==
    /\ v \notin added
    /\ Spend
    /\ StartHandler(p, Event("add", v, 0))
    /\ added' = added \cup {v}
    /\ UNCHANGED stream

Command(p) ==
    LET c(name, ref) == [name |-> name, ref |-> ref, sha |-> h[p].sha] IN
    CASE h[p].stage = "ensure" -> c("ensure", h[p].ref)
      [] h[p].stage = "fetchAll" -> c("fetchAll", Main)
      [] h[p].stage = "isActive" -> c("file", "meta")
      [] h[p].stage = "build" -> c("file", h[p].ref)
      [] h[p].stage = "deleted" -> c("deleted", h[p].ref)
      [] h[p].stage = "prune" -> c("prune", Main)
      [] h[p].stage \in {"entities", "branch"} -> c("entities", Main)
      [] h[p].stage = "values" -> c("file", Main)
      [] h[p].stage = "update" -> c("update", Main)

AskGit(p) ==
    /\ h[p].stage \in Commands /\ op[p] = None /\ ~Doomed
    /\ LET free == {o \in {p} \X {0, 1} : Fresh(o)} IN
       \E o \in free :
          /\ <<p, 0>> \in free => o = <<p, 0>>
          /\ Request(o, Command(p))
          /\ op' = [op EXCEPT ![p] = o]
    /\ UNCHANGED <<stream, h, model, blame, added>>

To(p, stage) == h' = [h EXCEPT ![p] =
    IF stage \in Ended THEN [Idle EXCEPT !.stage = stage]
    ELSE [@ EXCEPT !.stage = stage]]

\* Fault: the listeners are not fired.
AfterEnsureSilently(p) == IF h[p].stage = "deleted" THEN "done" ELSE "isActive"

\* After the operation of a stage, when it succeeds.
AfterEnsure(p) == IF EnsureResult(op[p]) = "updated" THEN "fire" ELSE
    IF h[p].stage = "deleted" THEN "done" ELSE "isActive"

\* What a handler does about an error: onPush fetches everything and tries once
\* more, the others give up (but onPrune: PruneRejected).
OnError(p) ==
    IF h[p].kind = "push" /\ ~h[p].again
    THEN h' = [h EXCEPT ![p].stage = "fetchAll", ![p].again = TRUE]
    ELSE To(p, "done")

Own(p) == op[p] # None /\ promise[op[p]] = "running" /\ Quiet
Back(p) == /\ op' = [op EXCEPT ![p] = None]
           /\ UNCHANGED <<stream, added>>

\* ensureRef, ensureEntity, ensureDeleted: handleEnsureResult.
EnsureEnds(p) ==
    /\ Own(p) /\ MacroDone(op[p])
    /\ IF EnsureResult(op[p]) = "not_found" THEN OnError(p)
       ELSE h' = [h EXCEPT ![p] = IF AfterEnsure(p) = "done" THEN Idle
                                  ELSE [@ EXCEPT !.stage = AfterEnsure(p), !.replaced = FALSE]]
    /\ Back(p) /\ UNCHANGED model
    /\ Blame(IF EnsureResult(op[p]) = "not_found" THEN "not found" ELSE "none")

\* fetchAllDefaults fires the listeners whatever it fetched, prune never does.
FetchEnds(p) ==
    /\ Own(p) /\ FetchDone(op[p])
    /\ To(p, IF h[p].stage = "fetchAll" THEN "fire again" ELSE "done")
    /\ Back(p) /\ UNCHANGED model
    /\ Blame(IF h[p].stage = "prune" THEN "prune" ELSE "none")

\* ActiveSystemImpl.isActive: a clone without meta/config is not that of an active
\* repository.
IsActive == Readable(clone, "meta", 0)

\* getBuildConfigIfActive, and isActive of onDelete and onPrune.
AfterActive(p) == IF ~IsActive THEN "done" ELSE
    CASE h[p].kind = "delete" -> "deleted"
      [] h[p].kind = "prune" -> "prune"
      [] OTHER -> "build"
AfterBuild(p) ==
    IF ~Readable(clone, h[p].ref, h[p].sha) THEN "ignored"
    ELSE IF h[p].kind = "push" THEN "register" ELSE "done"

\* addValue: the value must be higher than those in the file.
Extend(p) ==
    LET file == IF Readable(clone, Main, h[p].sha) THEN remote.file[h[p].sha] ELSE {} IN
    IF \E v \in file : h[p].ref <= v THEN To(p, "done")
    ELSE h' = [h EXCEPT ![p].stage = "update", ![p].seen = file \cup {h[p].ref}]

ReadEnds(p) ==
    /\ Own(p) /\ ReadDone(op[p])
    /\ CASE h[p].stage = "isActive" -> To(p, AfterActive(p))
         [] h[p].stage = "build" -> To(p, AfterBuild(p))
         [] h[p].stage = "entities" /\ clone.main # 0 ->
              h' = [h EXCEPT ![p].stage = "set", ![p].seen = ModelOf(clone)]
         [] h[p].stage = "branch" /\ clone.main # 0 ->
              h' = [h EXCEPT ![p].stage = "values", ![p].sha = clone.main]
         [] h[p].stage = "values" -> Extend(p)
         [] OTHER -> To(p, "done")
    /\ Back(p) /\ UNCHANGED <<model, blame>>

\* addValue: the file is pushed, and Gerrit reports the push.
UpdateEnds(p) ==
    /\ Own(p) /\ UpdateDone(op[p], h[p].seen)
    /\ stream' = Append(stream, Event("push", Main, remote'.main))
    /\ h' = [q \in Handlers |->
            IF q = p THEN Idle
            ELSE IF h[q].stage \in {"values", "update"}
                 THEN [h[q] EXCEPT !.missed =
                         @ \cup (h[p].seen \ remote.file[remote.main])] ELSE h[q]]
    /\ op' = [op EXCEPT ![p] = None]
    /\ UNCHANGED <<model, added>> /\ Blame("pushed")

Rejected(p) ==
    /\ Own(p) /\ h[p].kind # "prune" /\ CommandRejected(op[p])
    /\ OnError(p)
    /\ Back(p) /\ UNCHANGED model /\ Blame("fetch failed")

\* The steps of git that do not end a command.  A fresh clone takes away the
\* objects that a handler has ensured.
GitStep(o) ==
    /\ IF CanBegin(o) THEN ~Doomed /\ BeginCommand(o)
       ELSE promise[o] = "running" /\ Quiet /\ (InitFetch(o) \/ MacroFetch(o) \/ AttemptFails(o))
    /\ LET fresh == git' # None /\ git'.refresh /\ git'.at = "init"
           init == git # None /\ git.at = "init"
           half == git # None /\ Partial(o) # clone IN
       /\ h' = [p \in Handlers |-> IF fresh /\ Busy(p) THEN [h[p] EXCEPT !.replaced = TRUE]
                                   ELSE h[p]]
       /\ UNCHANGED <<stream, op, model, added>>
       /\ Blame(CASE fresh \/ init -> "fresh clone"
               [] half -> "pruned in part"
               [] OTHER -> "none")

-----------------------------------------------------------------------------
\* Redis.

Redis(p, stage) == h[p].stage = stage /\ Quiet
RedisStep == UNCHANGED <<esVars, gitVars, stream, op, added>>

\* RawModelRepository.onUpdate: DEL
FireListeners(p) ==
    /\ h[p].stage \in {"fire", "fire again"} /\ Quiet
    /\ To(p, IF h[p].stage = "fire again" THEN "ensure"
             ELSE IF h[p].kind = "delete" THEN "done" ELSE "isActive")
    /\ RedisStep
    /\ model' = None /\ Blame("none")

\* RawModelRepository.getModel: GET, show-ref, SET
GetModel(p) ==
    /\ Redis(p, "get")
    /\ To(p, IF model = None THEN "entities" ELSE "done")
    /\ RedisStep /\ UNCHANGED <<model, blame>>

SetModel(p) ==
    /\ Redis(p, "set")
    /\ To(p, "done")
    /\ RedisStep
    /\ model' = h[p].seen /\ Blame("overtaken")

\* onPush goes on with the dependencies: registerDependencies and what follows
\* may fail; see ReleaseFlow.
Register(p) ==
    /\ Redis(p, "register")
    /\ UNCHANGED <<esVars, remote, clone, cmd, git, stream, op, model, blame, added>>
    /\ \/ To(p, "done") /\ UNCHANGED spent
       \/ OnError(p) /\ Spend

\* What the process did is forgotten when it ends.
ProcessEnds(kept, left) ==
    /\ GitRestart(kept, left)
    /\ h' = [p \in Handlers |-> IF h[p].stage \in Ended THEN Idle
                                ELSE [Idle EXCEPT !.stage = "lost"]]
    /\ op' = [p \in Handlers |-> None]
    /\ UNCHANGED <<stream, model, added>>
    /\ Blame("restart")

\* The process ends because a rejection is not handled, or is restarted.
Restart(kept) ==
    /\ IF Doomed THEN UNCHANGED spent ELSE Quiet /\ Spend
    /\ ProcessEnds(kept, clone)

\* Nobody handles the rejection of onPrune.
PruneRejected(p, kept) ==
    /\ Own(p) /\ h[p].kind = "prune" /\ CommandFails(op[p])
    /\ ProcessEnds(kept, Partial(op[p]))

Next ==
    \/ MergeChange
    \/ \E t \in Tags : CreateTag(t) \/ MoveTag(t) \/ DeleteTag(t)
    \/ \E c \in Changes : UploadChange(c)
    \/ \E repeat \in BOOLEAN : LoseEvent(repeat)
    \/ \E p \in Handlers :
          \/ Deliver(p) \/ AskModel(p) \/ AskGit(p)
          \/ EnsureEnds(p) \/ FetchEnds(p) \/ ReadEnds(p) \/ UpdateEnds(p) \/ Rejected(p)
          \/ FireListeners(p) \/ GetModel(p) \/ SetModel(p) \/ Register(p)
    \/ \E p \in Handlers, v \in Values : AddValue(p, v)
    \/ \E o \in Ops : GitStep(o)
    \/ \E kept \in BOOLEAN : Restart(kept) \/ \E p \in Handlers : PruneRejected(p, kept)

Spec == Init /\ [][Next]_vars

\* What the process does by itself: an event that is there is handled, a handler
\* goes on, git runs, and a process that ended is started again.
Step ==
    \/ \E p \in Handlers :
          \/ Deliver(p) \/ AskGit(p)
          \/ EnsureEnds(p) \/ FetchEnds(p) \/ ReadEnds(p) \/ UpdateEnds(p) \/ Rejected(p)
          \/ FireListeners(p) \/ GetModel(p) \/ SetModel(p) \/ Register(p)
    \/ \E o \in Ops : GitStep(o)
    \/ \E kept \in BOOLEAN :
          \/ Doomed /\ Restart(kept)
          \/ \E p \in Handlers : PruneRejected(p, kept)

\* The process does not stop while it has something to do.
FairSpec == Spec /\ WF_vars(Step)

-----------------------------------------------------------------------------
TypeOK ==
    /\ last \in Ops \cup {None}
    /\ after \in [Ops -> Ops \cup {None}]
    /\ promise \in [Ops -> {"unused", "waiting", "running", "fulfilled", "rejected"}]
    /\ clone.main \in 0 .. remote.main
    /\ clone.have \in clone.main .. remote.main
    /\ git # None => git.tries \in 0 .. RETRY_COUNT /\ git.retries \in 0 .. GIT_RETRY_COUNT
    /\ op \in [Handlers -> Ops \cup {None}]
    /\ \A p \in Handlers : h[p].stage \in
          Ended \cup Commands \cup {"fire", "fire again", "get", "set", "register"}
    /\ model = None \/ model.main \in 1 .. remote.main

\* The commit of a change or a branch that was ensured is found when its
\* build.yml is read, unless the clone was replaced in between: getFile then
\* answers null, and onUpdate and onPush take it for a commit without a build.yml
\* (LocalGitFactoryImpl.execute, BuildSystemImpl.getBuildConfigIfActive).
IgnoredOnlyIfReplaced == [][
    \A p \in Handlers :
        h[p].stage = "build" /\ h'[p].stage = "ignored" /\ h[p].ref \notin Tags
        => h[p].replaced]_vars

\* Someone is about to delete the model.
Announced ==
    \/ \E p \in Handlers : h[p].stage \in {"fire", "fire again"}
    \/ \E o \in Ops : /\ promise[o] = "running"
                       /\ Macro(Cmd(o))
                       /\ (git.tries < RETRY_COUNT \/ ~Ensured(clone, Cmd(o)))

\* Every change of the clone is followed by the deletion of the model, but for
\* those that Blame names (RawModelRepository.onUpdate, SourceCacheImpl).
StaleIsAnnounced ==
    model # None /\ model # ModelOf(clone) => blame # "none" \/ Announced

\* A value of the file stays there, unless the one who takes it out had read the
\* file before the push that put it there (MajorsServiceImpl.addValue).
OnlyOverlapDrops == [][
    \A v \in remote.file[remote.main] \ remote'.file[remote'.main] :
        \E p \in Handlers : /\ h[p].stage = "update" /\ h'[p].stage = "done"
                            /\ v \in h[p].missed]_vars

\* Whatever a handler waits for in the chain comes, whether the operations
\* before it succeed, fail or end the process.
HandlersEnd == \A p \in Handlers : Busy(p) ~> ~Busy(p)

\* When a push of the main branch was handled its commit is in the clone, or the
\* clone is empty: it is being fetched again with everything else, or that has
\* failed.  A clone that has the branch is never older than that, whatever others
\* fetched, pruned and replaced meanwhile (BuildSystemImpl.onPush,
\* LocalGitFactoryImpl.execute).
PushedIsFetched == [][
    \A p \in Handlers :
        /\ Busy(p) /\ h[p].kind = "push" /\ h[p].ref = Main
        /\ h'[p].stage \in {"done", "ignored"}
        => clone'.main >= h[p].sha \/ clone'.main = 0]_vars
=============================================================================
