-------------------------- MODULE RepositoriesProofs --------------------------
(***************************************************************************)
(* What the handlers of Gerrit's events may rely on while others use the    *)
(* same clone, for any number of handlers, tags, changes, values and        *)
(* events.  Every step of theirs is one of the execution serializer's or    *)
(* leaves it alone, so what is proved of it by itself holds here too.  The  *)
(* invariant adds what becomes of the clone: it only ever gets more, or is  *)
(* emptied, and then the handlers in the middle of something are told, or   *)
(* end with the process.                                                    *)
(***************************************************************************)
EXTENDS Repositories, ExecutionSerializerProofs

OpTypeOK == op \in [Handlers -> Ops \cup {None}]

-----------------------------------------------------------------------------
\* Others change the repository, or an event is lost or doubled: not the clone.
LEMMA OutsideIsAlone == ASSUME Outside PROVE UNCHANGED <<esVars, op>>
BY DEF Outside

\* A handler starts without asking for anything.
LEMMA StartIsAlone ==
    ASSUME NEW p, NEW e, StartHandler(p, e)
    PROVE  UNCHANGED <<esVars, op>>
BY DEF StartHandler

\* A command is asked for with execute, and its promise is remembered.
LEMMA AskGitExecutes ==
    ASSUME OpTypeOK, NEW p \in Handlers, AskGit(p)
    PROVE  OpTypeOK' /\ ESNext
<1>1. PICK o \in {p} \X {0, 1} : Request(o, Command(p)) /\ op' = [op EXCEPT ![p] = o]
  BY DEF AskGit
<1>2. o \in Ops
  BY <1>1, OpsAreHandlers
<1>3. OpTypeOK'
  BY <1>1, <1>2 DEF OpTypeOK
<1>4. Execute(o)
  BY <1>1 DEF Request
<1> QED
  BY <1>2, <1>3, <1>4 DEF ESNext

\* Whatever becomes of a command, the promise that is settled is the one of the
\* handler that asked for it.
LEMMA CommandEndSettles ==
    ASSUME OpTypeOK, NEW p \in Handlers, op[p] # None, op' = [op EXCEPT ![p] = None],
           NEW v \in {"fulfilled", "rejected"}, Settle(op[p], v)
    PROVE  OpTypeOK' /\ ESNext
<1>1. op[p] \in Ops
  BY DEF OpTypeOK
<1>2. OpTypeOK'
  BY DEF OpTypeOK
<1>3. ESNext
  BY <1>1 DEF ESNext
<1> QED
  BY <1>2, <1>3

\* The handler whose command has come to its end waits for nothing any more, and the
\* serializer settles the promise of that command (LocalGitFactoryImpl.execute).
LEMMA HandlerSettles ==
    ASSUME OpTypeOK, NEW p \in Handlers,
           EnsureEnds(p) \/ FetchEnds(p) \/ ReadEnds(p) \/ UpdateEnds(p) \/ Rejected(p)
    PROVE  OpTypeOK' /\ ESNext
<1>1. op[p] # None /\ op' = [op EXCEPT ![p] = None]
  BY DEF EnsureEnds, FetchEnds, ReadEnds, UpdateEnds, Rejected, Own, Back
<1>2. CASE EnsureEnds(p)
  BY <1>1, <1>2, CommandEndSettles DEF EnsureEnds, MacroDone, Resolve
<1>3. CASE FetchEnds(p)
  BY <1>1, <1>3, CommandEndSettles DEF FetchEnds, FetchDone, Resolve
<1>4. CASE ReadEnds(p)
  BY <1>1, <1>4, CommandEndSettles DEF ReadEnds, ReadDone, Resolve
<1>5. CASE UpdateEnds(p)
  BY <1>1, <1>5, CommandEndSettles DEF UpdateEnds, UpdateDone, Resolve
<1>6. CASE Rejected(p)
  BY <1>1, <1>6, CommandEndSettles DEF Rejected, CommandRejected, CommandFails
<1> QED
  BY <1>2, <1>3, <1>4, <1>5, <1>6

\* Redis is no concern of the serializer.
LEMMA RedisIsAlone ==
    ASSUME NEW p \in Handlers, FireListeners(p) \/ GetModel(p) \/ SetModel(p) \/ Register(p)
    PROVE  UNCHANGED <<esVars, op>>
BY DEF FireListeners, GetModel, SetModel, Register, RedisStep

\* Git begins what is asked for in its turn, and works on it.
LEMMA GitBegins ==
    ASSUME NEW o \in Ops, GitStep(o)
    PROVE  UNCHANGED op /\ (ESNext \/ UNCHANGED esVars)
<1>1. UNCHANGED op
  BY DEF GitStep
<1>2. CASE CanBegin(o)
  <2>1. Begin(o)
    BY <1>2 DEF GitStep, BeginCommand
  <2> QED
    BY <1>1, <2>1 DEF ESNext
<1>3. CASE ~CanBegin(o)
  <2>1. UNCHANGED esVars
    BY <1>3 DEF GitStep, InitFetch, MacroFetch, AttemptFails
  <2> QED
    BY <1>1, <2>1
<1> QED
  BY <1>2, <1>3

\* Every step of the whole is one of the serializer's, or leaves the chain alone.
LEMMA StepIsServed == OpTypeOK /\ [Next]_vars => OpTypeOK' /\ [ESNext]_esVars
<1> SUFFICES ASSUME OpTypeOK, [Next]_vars
             PROVE  OpTypeOK' /\ (ESNext \/ UNCHANGED esVars)
  OBVIOUS
<1> DEFINE Alone == UNCHANGED <<esVars, op>>
<1>1. Alone => OpTypeOK' /\ UNCHANGED esVars
  BY DEF OpTypeOK
<1>2. CASE \/ MergeChange \/ \E t \in Tags : CreateTag(t) \/ MoveTag(t) \/ DeleteTag(t)
           \/ \E c \in Changes : UploadChange(c)
           \/ \E repeat \in BOOLEAN : LoseEvent(repeat)
  BY <1>1, <1>2, OutsideIsAlone
     DEF MergeChange, CreateTag, MoveTag, DeleteTag, UploadChange, LoseEvent
<1>3. CASE \E p \in Handlers : Deliver(p) \/ AskModel(p) \/ \E v \in Values : AddValue(p, v)
  BY <1>1, <1>3, StartIsAlone DEF Deliver, AskModel, AddValue
<1>4. CASE \E p \in Handlers : AskGit(p)
  BY <1>4, AskGitExecutes
<1>5. CASE \E p \in Handlers :
              EnsureEnds(p) \/ FetchEnds(p) \/ ReadEnds(p) \/ UpdateEnds(p) \/ Rejected(p)
  BY <1>5, HandlerSettles
<1>6. CASE \E p \in Handlers : FireListeners(p) \/ GetModel(p) \/ SetModel(p) \/ Register(p)
  BY <1>1, <1>6, RedisIsAlone
<1>7. CASE \E o \in Ops : GitStep(o)
  BY <1>7, GitBegins DEF OpTypeOK
<1>8. CASE \E kept \in BOOLEAN : Restart(kept) \/ \E p \in Handlers : PruneRejected(p, kept)
  <2>1. \E kept, left : ProcessEnds(kept, left)
    BY <1>8 DEF Restart, PruneRejected
  <2>2. Forget /\ op' = [p \in Handlers |-> None]
    BY <2>1 DEF ProcessEnds, GitRestart
  <2> QED
    BY <2>2 DEF ESNext, OpTypeOK
<1>9. CASE UNCHANGED vars
  BY <1>1, <1>9 DEF vars
<1> QED
  BY <1>2, <1>3, <1>4, <1>5, <1>6, <1>7, <1>8, <1>9 DEF Next

\* The handlers, the model and the clone together behave, as far as the chain of
\* promises goes, like the serializer (LocalGitFactoryImpl.execute).
THEOREM RepositoriesUseSerializer == Spec => ESSpec
<1>1. Init => OpTypeOK /\ ESInit
  BY DEF Init, OpTypeOK
<1> QED
  BY <1>1, StepIsServed, PTL DEF Spec, ESSpec

\* Commands on the clone run one at a time and in the order they were asked for,
\* whatever Gerrit sends, whatever fails and whenever the process ends.
THEOREM CommandsServedInOrder == Spec => []ServedInOrder
BY RepositoriesUseSerializer, SerializerServesInOrder, PTL
-----------------------------------------------------------------------------
\* The inductive invariant.

Names == {Main} \cup Tags \cup Changes
CommandNames == {"none", "ensure", "deleted", "fetchAll", "prune", "entities", "file", "update"}
Models == [main : Nat, tags : [Tags -> Nat]]
Runs == [at : {"init", "command"}, tries : 0 .. RETRY_COUNT,
         retries : 0 .. GIT_RETRY_COUNT, refresh : BOOLEAN]

\* What the tags name was merged; a file for every commit.
RemoteOK ==
    /\ remote \in [main : Nat, tags : [Tags -> Nat], changes : SUBSET Changes,
                   file : Seq(SUBSET Values)]
    /\ remote.main >= 1 /\ Len(remote.file) = remote.main
    /\ \A t \in Tags : remote.tags[t] <= remote.main

Clones == [ready : BOOLEAN, meta : BOOLEAN, main : Nat, tags : [Tags -> Nat],
           changes : SUBSET Changes, have : Nat]

\* A clone has nothing that is not there, and the objects of what it names.
CloneOK ==
    /\ clone \in Clones
    /\ clone.main <= clone.have /\ clone.have <= remote.main

\* Only pushes of this clone change the file.
FileOK == clone.main # 0 => remote.file[clone.main] = remote.file[remote.main]

\* A command runs if and only if its operation does.
GitOK ==
    /\ git # None => git \in Runs
    /\ git # None <=> \E o \in Ops : promise[o] = "running"

CmdOK ==
    /\ cmd \in [Ops -> [name : CommandNames, ref : Names \cup {"meta"}, sha : Nat]]
    /\ \A o \in Ops : cmd[o].name = "ensure" => cmd[o].ref \in Names

Events(n) ==
    [kind : {"push"}, ref : {Main} \cup Tags, sha : 0 .. n] \cup
    [kind : {"update"}, ref : Changes, sha : {0}] \cup
    [kind : {"delete"}, ref : Tags, sha : {0}] \cup
    [kind : {"prune"}, ref : {Main}, sha : {0}]

StreamOK == stream \in Seq(Events(remote.main))

ModelOK == model # None => model \in Models /\ model.main \in 1 .. remote.main

\* What the stages of a handler are.
StagesOf(kind) ==
    CASE kind = "none" -> Ended
      [] kind = "push" -> {"ensure", "fetchAll", "fire", "fire again", "isActive", "build", "register"}
      [] kind = "update" -> {"ensure", "fire", "isActive", "build"}
      [] kind = "delete" -> {"isActive", "deleted", "fire"}
      [] kind = "prune" -> {"isActive", "prune"}
      [] kind = "read" -> {"get", "entities", "set"}
      [] kind = "add" -> {"branch", "values", "update"}
RefsOf(kind) ==
    CASE kind \in {"none", "prune", "read"} -> {Main}
      [] kind = "push" -> {Main} \cup Tags
      [] kind = "update" -> Changes
      [] kind = "delete" -> Tags
      [] kind = "add" -> Values

Kinds == {"none", "push", "update", "delete", "prune", "read", "add"}
Stages == Ended \cup Commands \cup {"fire", "fire again", "get", "set", "register"}
States == [kind : Kinds, ref : Names \cup Values, sha : Nat, stage : Stages, again : BOOLEAN,
           seen : {None} \cup Models \cup SUBSET Values, missed : SUBSET Values,
           replaced : BOOLEAN]

HandlerOK(p) ==
    /\ h[p].stage \in StagesOf(h[p].kind) /\ h[p].ref \in RefsOf(h[p].kind)
    /\ h[p].sha <= remote.main
    /\ h[p].stage = "set" => h[p].seen \in Models /\ h[p].seen.main \in 1 .. remote.main

\* A handler waits for an operation of its own, which runs the command of its stage.
WaitsOK(p) == op[p] # None =>
    /\ op[p] \in {p} \X {0, 1}
    /\ h[p].stage \in Commands
    /\ Open(op[p])
    /\ cmd[op[p]] = Command(p)

\* The clone is not older than what was pushed, once that was ensured or everything
\* was fetched, and while a command of the handler runs on a fresh clone.
Fetched(p) == clone.main >= h[p].sha \/ clone.main = 0
PushOK(p) == h[p].kind = "push" /\ h[p].ref = Main =>
    /\ \/ h[p].stage = "fetchAll"
       \/ h[p].stage = "ensure" /\ ~h[p].again
       \/ Fetched(p)
    /\ op[p] # None /\ promise[op[p]] = "running" /\ git.refresh => Fetched(p)

\* What was ensured is there until the clone is replaced.
EnsuredOK(p) ==
    /\ h[p].kind \in {"push", "update"} /\ h[p].stage \in {"fire", "isActive", "build"}
    /\ h[p].ref \notin Tags /\ ~h[p].replaced
    => Exists(clone, h[p].ref, h[p].sha)

\* A request for a major knows the file, but for what was pushed since it read the
\* branch; if the clone was replaced, the commit it read comes back before anyone
\* looks for it, or the process ends.
Refilled == git # None /\ git.at = "init"
ReadOK(p) ==
    /\ h[p].stage = "values" =>
         /\ h[p].sha \in 1 .. remote.main
         /\ remote.file[remote.main] \subseteq remote.file[h[p].sha] \cup h[p].missed
         /\ Doomed \/ Refilled \/ h[p].sha <= clone.have
    /\ h[p].stage = "update" =>
         /\ h[p].seen \in SUBSET Values
         /\ remote.file[remote.main] \subseteq h[p].seen \cup h[p].missed

WorldOK == RemoteOK /\ CloneOK /\ FileOK /\ GitOK /\ CmdOK /\ StreamOK /\ ModelOK
EachOK(p) == HandlerOK(p) /\ WaitsOK(p) /\ PushOK(p) /\ EnsuredOK(p) /\ ReadOK(p)

HandlersOK == h \in [Handlers -> States] /\ \A p \in Handlers : EachOK(p)

IInv == ESInv /\ OpTypeOK /\ WorldOK /\ HandlersOK /\ StaleIsAnnounced

-----------------------------------------------------------------------------
\* What git does to a clone.

\* The clone of a repository has something more.
Grown(c, d) ==
    /\ d \in Clones
    /\ d.main \in {c.main, remote.main}
    /\ c.have <= d.have /\ d.main <= d.have /\ d.have <= remote.main
    /\ c.changes \subseteq d.changes

\* The tags that come along with a fetch are tags of the repository or of the clone.
LEMMA FollowedIsThere == ASSUME RemoteOK, NEW c \in Clones, NEW n PROVE Followed(c, n) \in [Tags -> Nat]
BY DEF RemoteOK, Followed, Clones

\* A fetch of the main branch ends at the branch of the repository (Fetch).
LEMMA FetchMainGrows ==
    ASSUME RemoteOK, CloneOK
    PROVE  Grown(clone, FetchMain(clone)) /\ FetchMain(clone).main = remote.main
<1>1. Followed(clone, remote.main) \in [Tags -> Nat]
  BY FollowedIsThere DEF CloneOK
<1>2. remote.main \in Nat /\ clone.have \in Nat /\ clone.main \in Nat
  BY DEF RemoteOK, CloneOK, Clones
<1>3. Larger(clone.have, remote.main) = remote.main
  BY <1>2 DEF CloneOK, Larger
<1>4. FetchMain(clone) = [clone EXCEPT !.main = remote.main, !.have = remote.main,
                                       !.tags = Followed(clone, remote.main)]
  BY <1>3 DEF FetchMain
<1>5. clone \in Clones
  BY DEF CloneOK
<1>6. FetchMain(clone) \in Clones
  BY <1>1, <1>2, <1>4, <1>5 DEF Clones
<1>7. /\ FetchMain(clone).main = remote.main /\ FetchMain(clone).have = remote.main
      /\ FetchMain(clone).changes = clone.changes
  BY <1>4, <1>5 DEF Clones
<1> QED
  BY <1>2, <1>6, <1>7 DEF Grown, CloneOK

\* A fetch of the default refspecs ends there too, with all the objects
\* (FetchDefaultRemotes).
LEMMA FetchDefaultRemotesGrows ==
    ASSUME RemoteOK, CloneOK
    PROVE  /\ Grown(clone, FetchDefaultRemotes(clone))
           /\ FetchDefaultRemotes(clone).main = remote.main
           /\ FetchDefaultRemotes(clone).have = remote.main
<1>1. Grown(clone, FetchMain(clone)) /\ FetchMain(clone).main = remote.main
  BY FetchMainGrows
<1>2. remote.main \in Nat /\ FetchMain(clone).have \in Nat /\ FetchMain(clone) \in Clones
  BY <1>1 DEF RemoteOK, Grown, Clones
<1>3. FetchDefaultRemotes(clone) = [FetchMain(clone) EXCEPT !.meta = TRUE]
  BY DEF FetchDefaultRemotes
<1>4. FetchDefaultRemotes(clone) \in Clones
  BY <1>2, <1>3 DEF Clones
<1>5. /\ FetchDefaultRemotes(clone).main = FetchMain(clone).main
      /\ FetchDefaultRemotes(clone).have = FetchMain(clone).have
      /\ FetchDefaultRemotes(clone).changes = FetchMain(clone).changes
  BY <1>2, <1>3 DEF Clones
<1> QED
  BY <1>1, <1>2, <1>4, <1>5 DEF Grown

\* A fetch that prunes takes away tags, never commits (FetchPrune).
LEMMA FetchPruneGrows ==
    ASSUME RemoteOK, CloneOK
    PROVE  Grown(clone, FetchPrune(clone)) /\ FetchPrune(clone).main = remote.main
<1> DEFINE tags == [t \in Tags |->
      IF remote.tags[t] # 0 /\ clone.tags[t] # 0 THEN clone.tags[t] ELSE remote.tags[t]]
<1>1. /\ Grown(clone, FetchDefaultRemotes(clone))
      /\ FetchDefaultRemotes(clone).main = remote.main
  BY FetchDefaultRemotesGrows
<1>2. tags \in [Tags -> Nat]
  BY DEF RemoteOK, CloneOK, Clones
<1>3. FetchPrune(clone) = [FetchDefaultRemotes(clone) EXCEPT !.tags = tags]
  BY DEF FetchPrune
<1> HIDE DEF tags
<1>4. FetchDefaultRemotes(clone) \in Clones
  BY <1>1 DEF Grown
<1>5. FetchPrune(clone) \in Clones
  BY <1>2, <1>3, <1>4 DEF Clones
<1>6. /\ FetchPrune(clone).main = FetchDefaultRemotes(clone).main
      /\ FetchPrune(clone).have = FetchDefaultRemotes(clone).have
      /\ FetchPrune(clone).changes = FetchDefaultRemotes(clone).changes
  BY <1>3, <1>4 DEF Clones
<1> QED
  BY <1>1, <1>5, <1>6 DEF Grown

\* Whatever ref is fetched, the clone loses nothing and passes nothing (Fetch).
LEMMA FetchGrows ==
    ASSUME RemoteOK, CloneOK, NEW ref \in Names
    PROVE  Grown(clone, Fetch(clone, ref))
<1> DEFINE have == Larger(clone.have, remote.tags[ref])
           tags == [Followed(clone, have) EXCEPT ![ref] = remote.tags[ref]]
<1>1. clone \in Clones /\ remote.main \in Nat /\ clone.have \in Nat /\ clone.main \in Nat
  BY DEF RemoteOK, CloneOK, Clones
<1>2. CASE ref = Main
  <2>1. ref \notin Tags /\ ref \notin Changes
    BY <1>2, LocalGitAssumption
  <2> QED
    BY <1>2, <2>1, FetchMainGrows DEF Fetch
<1>3. CASE ref \in Tags
  <2>1. ref # Main /\ ref \notin Changes
    BY <1>3, LocalGitAssumption
  <2>2. remote.tags[ref] \in Nat /\ remote.tags[ref] <= remote.main
    BY <1>3 DEF RemoteOK
  <2>3. have \in Nat /\ clone.have <= have /\ have <= remote.main
    BY <1>1, <2>2 DEF Larger, CloneOK
  <2>4. tags \in [Tags -> Nat]
    BY <1>1, <1>3, <2>2, FollowedIsThere
  <2>5. Fetch(clone, ref) = [clone EXCEPT !.tags = tags, !.have = have]
    BY <1>3, <2>1 DEF Fetch
  <2> HIDE DEF have, tags
  <2>6. Fetch(clone, ref) \in Clones
    BY <1>1, <2>3, <2>4, <2>5 DEF Clones
  <2>7. /\ Fetch(clone, ref).main = clone.main /\ Fetch(clone, ref).have = have
        /\ Fetch(clone, ref).changes = clone.changes
    BY <1>1, <2>5 DEF Clones
  <2>8. clone.main <= have
    BY <1>1, <2>3 DEF CloneOK
  <2> QED
    BY <2>3, <2>6, <2>7, <2>8 DEF Grown
<1>4. CASE ref \in Changes
  <2>1. ref # Main /\ ref \notin Tags
    BY <1>4, LocalGitAssumption
  <2>2. Followed(clone, clone.have) \in [Tags -> Nat]
    BY <1>1, FollowedIsThere
  <2>3. Fetch(clone, ref) = [clone EXCEPT !.changes = @ \cup ({ref} \cap remote.changes),
                                          !.tags = Followed(clone, clone.have)]
    BY <1>4, <2>1 DEF Fetch
  <2>4. clone.changes \cup ({ref} \cap remote.changes) \in SUBSET Changes
    BY <1>1, <1>4 DEF Clones
  <2>5. Fetch(clone, ref) \in Clones
    BY <1>1, <2>2, <2>3, <2>4 DEF Clones
  <2>6. /\ Fetch(clone, ref).main = clone.main /\ Fetch(clone, ref).have = clone.have
        /\ Fetch(clone, ref).changes = clone.changes \cup ({ref} \cap remote.changes)
    BY <1>1, <2>3 DEF Clones
  <2> QED
    BY <1>1, <2>5, <2>6 DEF Grown, CloneOK
<1> QED
  BY <1>2, <1>3, <1>4 DEF Names

\* Nor does a fetch that fails when a part of it is done.
LEMMA PartialGrows ==
    ASSUME RemoteOK, CloneOK, NEW o
    PROVE  Grown(clone, Partial(o))
<1>1. Grown(clone, clone)
  BY DEF Grown, CloneOK, RemoteOK, Clones
<1> QED
  BY <1>1, FetchPruneGrows DEF Partial

\* What is there can be read.
LEMMA ExistsIsReadable ==
    ASSUME CloneOK, NEW ref \in {Main} \cup Changes, NEW sha \in Nat, Exists(clone, ref, sha)
    PROVE  Readable(clone, ref, sha)
<1>1. ref \notin Tags /\ ref # "meta"
  BY LocalGitAssumption DEF Main
<1>2. CASE ref = Main
  <2>3. ref \notin Changes
    BY <1>2, LocalGitAssumption
  <2>1. sha <= clone.main
    BY <1>1, <1>2, <2>3 DEF Exists
  <2>2. sha <= clone.have
    BY <2>1 DEF CloneOK, Clones
  <2> QED
    BY <1>1, <2>2, <2>3 DEF Readable
<1>3. CASE ref \in Changes
  <2>1. ref # Main
    BY <1>3, LocalGitAssumption
  <2>2. ref \in clone.changes
    BY <1>1, <1>3, <2>1 DEF Exists
  <2> QED
    BY <1>1, <1>3, <2>2 DEF Readable
<1> QED
  BY <1>2, <1>3

-----------------------------------------------------------------------------
\* What runs, and what waits.

\* One command at a time runs on the clone.
LEMMA OneRuns ==
    ASSUME ESInv, NEW o \in Ops, NEW q \in Ops, promise[o] = "running", promise[q] = "running"
    PROVE  o = q
BY RunningIsHead

\* While the next operation is about to begin, none runs.
LEMMA NoneRunsYet ==
    ASSUME ESInv, NEW o \in Ops, CanBegin(o), NEW q \in Ops
    PROVE  promise[q] # "running"
<1>1. line[1] = o /\ promise[o] = "waiting"
  BY OnlyFirstBegins DEF CanBegin
<1> QED
  BY <1>1, RunningIsHead

\* A process that is about to end does nothing else.
LEMMA DoomedIsNotQuiet == ASSUME Quiet PROVE ~Doomed
BY DEF Quiet, Doomed, CanBegin, Settled

\* Who waits when the operation that runs is rejected, ends with the process.
LEMMA RejectionDooms ==
    ASSUME ESInv, NEW o \in Ops, Settle(o, "rejected"), NEW q \in Ops, q # o, Open(q)
    PROVE  Doomed'
<1>1. line \in Seq(Ops) /\ Len(line) \in Nat
  BY DEF ESInv, ESTypeOK
<1>2. promise[o] = "running" /\ line[1] = o
  BY RunningIsHead DEF Settle
<1>3. PICK i \in 1 .. Len(line) : line[i] = q
  BY DEF ESInv, OpenIsInLine
<1>4. 2 \in 2 .. Len(line)
  BY <1>1, <1>2, <1>3
<1>5. line[2] \in Ops /\ promise[line[2]] = "waiting" /\ after[line[2]] = line[1]
  BY <1>1, <1>4 DEF ESInv, EachAfterNext
<1>6. promise' = [promise EXCEPT ![o] = "rejected"] /\ after' = after
  BY DEF Settle
<1>7. promise'[o] = "rejected" /\ promise'[line[2]] = "waiting"
  BY <1>2, <1>5, <1>6 DEF ESInv, ESTypeOK
<1> QED
  BY <1>2, <1>5, <1>6, <1>7 DEF Doomed

\* What a handler that waits has asked for.
LEMMA CommandIs ==
    ASSUME NEW p \in Handlers
    PROVE  /\ h[p].stage = "ensure" => Command(p) = [name |-> "ensure", ref |-> h[p].ref, sha |-> h[p].sha]
           /\ h[p].stage = "deleted" => Command(p) = [name |-> "deleted", ref |-> h[p].ref, sha |-> h[p].sha]
           /\ h[p].stage = "fetchAll" => Command(p) = [name |-> "fetchAll", ref |-> Main, sha |-> h[p].sha]
           /\ h[p].stage = "prune" => Command(p) = [name |-> "prune", ref |-> Main, sha |-> h[p].sha]
           /\ h[p].stage = "isActive" => Command(p) = [name |-> "file", ref |-> "meta", sha |-> h[p].sha]
           /\ h[p].stage = "build" => Command(p) = [name |-> "file", ref |-> h[p].ref, sha |-> h[p].sha]
           /\ h[p].stage = "values" => Command(p) = [name |-> "file", ref |-> Main, sha |-> h[p].sha]
           /\ h[p].stage \in {"entities", "branch"} =>
                Command(p) = [name |-> "entities", ref |-> Main, sha |-> h[p].sha]
           /\ h[p].stage = "update" => Command(p) = [name |-> "update", ref |-> Main, sha |-> h[p].sha]
BY DEF Command

\* A handler that waits is about to run the command of its stage.
LEMMA StageOfCommand ==
    ASSUME NEW p \in Handlers, WaitsOK(p), op[p] # None
    PROVE  /\ Cmd(op[p]).name = "fetchAll" <=> h[p].stage = "fetchAll"
           /\ Cmd(op[p]).name = "prune" <=> h[p].stage = "prune"
           /\ Cmd(op[p]).name = "ensure" <=> h[p].stage = "ensure"
           /\ Cmd(op[p]).name = "deleted" <=> h[p].stage = "deleted"
           /\ Cmd(op[p]).name = "update" <=> h[p].stage = "update"
           /\ h[p].stage = "ensure" => Cmd(op[p]).ref = h[p].ref /\ Cmd(op[p]).sha = h[p].sha
<1>1. h[p].stage \in Commands /\ Cmd(op[p]) = Command(p)
  BY DEF WaitsOK, Cmd
<1>2. h[p].stage \in {"ensure", "fetchAll", "isActive", "build", "deleted", "prune", "entities",
                      "branch", "values", "update"}
  BY <1>1 DEF Commands
<1> QED
  BY <1>1, <1>2, CommandIs

\* A handler asks for a command that git knows, on a ref that has a name.
LEMMA CommandIsTyped ==
    ASSUME NEW p \in Handlers, h \in [Handlers -> States], HandlerOK(p), h[p].stage \in Commands
    PROVE  /\ Command(p) \in [name : CommandNames, ref : Names \cup {"meta"}, sha : Nat]
           /\ Command(p).name = "ensure" => Command(p).ref \in Names
<1>1. h[p].sha \in Nat /\ Main \in Names
  BY DEF States, Names
<1>2. h[p].stage \in {"ensure", "deleted", "build"} => h[p].ref \in Names
  BY DEF HandlerOK, StagesOf, RefsOf, Names, States, Kinds, Ended
<1> QED
  BY <1>1, <1>2, CommandIs DEF CommandNames, Commands

\* Two handlers do not wait for the same operation.
LEMMA OpsAreOwn ==
    ASSUME NEW p \in Handlers, NEW q \in Handlers, WaitsOK(p), WaitsOK(q), p # q,
           op[p] # None, op[q] # None
    PROVE  op[p] # op[q]
BY DEF WaitsOK

\* What a handler waits for is an operation of the serializer.
LEMMA OpsAreOps == ASSUME OpTypeOK, NEW p \in Handlers, op[p] # None PROVE op[p] \in Ops
BY DEF OpTypeOK

\* A handler that has nothing run on the clone waits for nothing.
LEMMA OnlyCommandsWait ==
    ASSUME NEW p \in Handlers, WaitsOK(p), h[p].stage \notin Commands
    PROVE  op[p] = None
BY DEF WaitsOK

\* The commands of a handler that is neither of a push nor of an update.
LEMMA KindOfStage ==
    ASSUME NEW p \in Handlers, h \in [Handlers -> States], HandlerOK(p)
    PROVE  /\ h[p].stage \in Ended <=> h[p].kind = "none"
           /\ h[p].stage \in {"ensure", "build"} => h[p].kind \in {"push", "update"}
           /\ h[p].stage \in {"fetchAll", "fire again", "register"} => h[p].kind = "push"
           /\ h[p].stage \in {"deleted"} => h[p].kind = "delete"
           /\ h[p].stage \in {"prune"} => h[p].kind = "prune"
           /\ h[p].stage \in {"branch", "values", "update"} => h[p].kind = "add"
           /\ h[p].stage \in {"get", "entities", "set"} => h[p].kind = "read"
           /\ h[p].stage = "isActive" => h[p].kind \in {"push", "update", "delete", "prune"}
           /\ h[p].stage = "fire" => h[p].kind \in {"push", "update", "delete"}
BY DEF HandlerOK, StagesOf, States, Kinds, Ended

-----------------------------------------------------------------------------
\* The handlers that do not move while another one does, or git, or the world.

\* A handler that stays where it is; only the history may say more of it.
Same(q) ==
    /\ h'[q] \in States
    /\ h'[q].kind = h[q].kind /\ h'[q].ref = h[q].ref /\ h'[q].sha = h[q].sha
    /\ h'[q].stage = h[q].stage /\ h'[q].again = h[q].again /\ h'[q].seen = h[q].seen
    /\ h[q].missed \subseteq h'[q].missed
    /\ h[q].replaced => h'[q].replaced

\* It waits for what it waited for.
Stays(q) ==
    /\ Same(q)
    /\ op'[q] = op[q]
    /\ op[q] # None => Open(op[q])' /\ cmd'[op[q]] = cmd[op[q]]

\* What becomes of the clone.
Grows ==
    /\ clone' \in Clones
    /\ clone'.main \in {clone.main, remote'.main}
    /\ clone.have <= clone'.have
    /\ clone.changes \subseteq clone'.changes
Empties(q) == clone' = Empty /\ Refilled' /\ (Busy(q) => h'[q].replaced)

\* A file is not changed, and what a push adds is noted.
FileGoesOn(q) ==
    /\ remote.main <= remote'.main
    /\ \A i \in 1 .. remote.main : remote'.file[i] = remote.file[i]
    /\ h[q].stage \in {"values", "update"} =>
         remote'.file[remote'.main] \subseteq remote.file[remote.main] \cup h'[q].missed

\* A clone that was emptied, or is gone with its process, has no commit.
LEMMA EmptyIsNothing ==
    /\ Empty.main = 0 /\ Empty.have = 0 /\ Empty.changes = {} /\ Empty \in Clones
    /\ NoClone.main = 0 /\ NoClone.have = 0 /\ NoClone.changes = {} /\ NoClone \in Clones
BY DEF Empty, NoClone, Clones, NoTags

\* A handler that stays where it is keeps all it may rely on, whether the clone gets
\* more or is emptied, and whether the file gets another version.
LEMMA BystanderOK ==
    ASSUME RemoteOK, CloneOK, HandlersOK, RemoteOK', NEW q \in Handlers,
           Stays(q), Grows \/ Empties(q), FileGoesOn(q), ~Doomed,
           op[q] # None /\ promise'[op[q]] = "running" /\ git'.refresh =>
              (promise[op[q]] = "running" /\ git.refresh) \/ clone'.main \in {0, remote'.main},
           h[q].stage = "values" /\ Refilled => Doomed' \/ Refilled' \/ clone'.have = remote'.main
    PROVE  EachOK(q)'
<1> DEFINE r == h[q]
           s == h'[q]
<1>1. /\ h[q] \in States /\ HandlerOK(q) /\ WaitsOK(q) /\ PushOK(q) /\ EnsuredOK(q) /\ ReadOK(q)
      /\ s \in States /\ s.kind = r.kind /\ s.ref = r.ref /\ s.sha = r.sha /\ s.stage = r.stage
      /\ s.again = r.again /\ s.seen = r.seen /\ r.missed \subseteq s.missed
      /\ r.replaced => s.replaced
      /\ op'[q] = op[q]
  BY DEF HandlersOK, EachOK, Stays, Same
<1>2. remote.main \in Nat /\ remote'.main \in Nat /\ remote.main <= remote'.main
  BY DEF RemoteOK, FileGoesOn
<1>3. r.sha \in Nat /\ r.sha <= remote.main /\ r.sha <= remote'.main
  BY <1>1, <1>2 DEF HandlerOK, States
<1>4. HandlerOK(q)'
  <2>1. r.stage = "set" => s.seen.main \in 1 .. remote'.main
    BY <1>1, <1>2 DEF HandlerOK
  <2> QED
    BY <1>1, <1>3, <2>1 DEF HandlerOK
<1>5. WaitsOK(q)'
  <2>1. Command(q)' = Command(q)
    BY <1>1 DEF Command
  <2> QED
    BY <1>1, <2>1 DEF WaitsOK, Stays, Same
<1>6. Fetched(q) => Fetched(q)'
  <2>1. CASE Grows
    <3>1. clone'.main = clone.main \/ clone'.main = remote'.main
      BY <2>1 DEF Grows
    <3>2. CASE clone'.main = clone.main
      BY <1>1, <3>2 DEF Fetched
    <3>3. CASE clone'.main = remote'.main
      BY <1>1, <1>2, <1>3, <3>3 DEF Fetched
    <3> QED
      BY <3>1, <3>2, <3>3
  <2>2. CASE Empties(q)
    BY <2>2, EmptyIsNothing DEF Empties, Fetched
  <2> QED
    BY <2>1, <2>2
<1>7. PushOK(q)'
  <2> SUFFICES ASSUME r.kind = "push", r.ref = Main
               PROVE  /\ \/ r.stage = "fetchAll"
                         \/ r.stage = "ensure" /\ ~r.again
                         \/ Fetched(q)'
                      /\ op[q] # None /\ promise'[op[q]] = "running" /\ git'.refresh => Fetched(q)'
    BY <1>1 DEF PushOK
  <2>1. clone'.main \in {0, remote'.main} => Fetched(q)'
    BY <1>1, <1>2, <1>3 DEF Fetched
  <2>2. op[q] # None /\ promise'[op[q]] = "running" /\ git'.refresh => Fetched(q)'
    BY <1>1, <1>6, <2>1 DEF PushOK
  <2>3. r.stage = "fetchAll" \/ (r.stage = "ensure" /\ ~r.again) \/ Fetched(q)
    BY <1>1 DEF PushOK
  <2> QED
    BY <1>6, <2>2, <2>3
<1>8. EnsuredOK(q)'
  <2> SUFFICES ASSUME r.kind \in {"push", "update"}, r.stage \in {"fire", "isActive", "build"},
                      r.ref \notin Tags, ~s.replaced
               PROVE  Exists(clone', r.ref, r.sha)
    BY <1>1 DEF EnsuredOK
  <2>1. Exists(clone, r.ref, r.sha)
    BY <1>1 DEF EnsuredOK
  <2>2. r.ref \in {Main} \cup Changes
    BY <1>1 DEF HandlerOK, RefsOf
  <2>3. Busy(q)
    BY DEF Busy, Ended
  <2>4. Grows
    BY <2>3 DEF Empties
  <2>5. CASE r.ref = Main
    <3>0. r.ref \notin Changes /\ r.ref \notin Tags
      BY <2>5, LocalGitAssumption
    <3>1. r.sha <= clone.main
      BY <2>1, <2>5, <3>0 DEF Exists
    <3>2. clone'.main = clone.main \/ clone'.main = remote'.main
      BY <2>4 DEF Grows
    <3>3. r.sha <= clone'.main
      BY <1>3, <3>1, <3>2
    <3> QED
      BY <2>5, <3>0, <3>3 DEF Exists
  <2>6. CASE r.ref \in Changes
    <3>1. r.ref # Main /\ r.ref \notin Tags
      BY <2>6, LocalGitAssumption
    <3>2. r.ref \in clone.changes
      BY <2>1, <2>6, <3>1 DEF Exists
    <3> QED
      BY <2>4, <2>6, <3>1, <3>2 DEF Exists, Grows
  <2> QED
    BY <2>2, <2>5, <2>6
<1>9. ReadOK(q)'
  <2>1. ASSUME r.stage = "values"
        PROVE  /\ r.sha \in 1 .. remote'.main
               /\ remote'.file[remote'.main] \subseteq remote'.file[r.sha] \cup s.missed
               /\ Doomed' \/ Refilled' \/ r.sha <= clone'.have
    <3>1. /\ r.sha \in 1 .. remote.main
          /\ remote.file[remote.main] \subseteq remote.file[r.sha] \cup r.missed
          /\ Refilled \/ r.sha <= clone.have
      BY <1>1, <2>1 DEF ReadOK
    <3>2. remote'.file[r.sha] = remote.file[r.sha]
      BY <3>1 DEF FileGoesOn
    <3>3. remote'.file[remote'.main] \subseteq remote.file[remote.main] \cup s.missed
      BY <2>1 DEF FileGoesOn
    <3>4. Doomed' \/ Refilled' \/ r.sha <= clone'.have
      <4>1. CASE Refilled
        BY <1>3, <2>1, <4>1
      <4>2. CASE r.sha <= clone.have /\ Grows
        <5>1. clone.have \in Nat /\ clone'.have \in Nat /\ clone.have <= clone'.have
          BY <4>2 DEF Grows, CloneOK, Clones
        <5> QED
          BY <1>3, <4>2, <5>1
      <4>3. CASE Empties(q)
        BY <4>3 DEF Empties
      <4> QED
        BY <3>1, <4>1, <4>2, <4>3
    <3> QED
      BY <1>1, <1>2, <3>1, <3>2, <3>3, <3>4
  <2>2. ASSUME r.stage = "update"
        PROVE  /\ s.seen \in SUBSET Values
               /\ remote'.file[remote'.main] \subseteq s.seen \cup s.missed
    <3>1. /\ r.seen \in SUBSET Values
          /\ remote.file[remote.main] \subseteq r.seen \cup r.missed
      BY <1>1, <2>2 DEF ReadOK
    <3>2. remote'.file[remote'.main] \subseteq remote.file[remote.main] \cup s.missed
      BY <2>2 DEF FileGoesOn
    <3> QED
      BY <1>1, <3>1, <3>2
  <2> QED
    BY <1>1, <2>1, <2>2 DEF ReadOK
<1> QED
  BY <1>4, <1>5, <1>7, <1>8, <1>9 DEF EachOK

-----------------------------------------------------------------------------
\* The world outside.

Goal == WorldOK /\ HandlersOK /\ StaleIsAnnounced

\* Of the file nothing changes.
FileStays ==
    /\ remote.main <= remote'.main
    /\ \A i \in 1 .. remote.main : remote'.file[i] = remote.file[i]
    /\ remote'.file[remote'.main] = remote.file[remote.main]

\* An event that told of a commit still does when there are more.
LEMMA EventsGrow == ASSUME NEW m \in Nat, NEW n \in Nat, m <= n PROVE Events(m) \subseteq Events(n)
BY DEF Events

\* What is uploaded, merged or tagged in Gerrit leaves the clone and the handlers alone.
LEMMA OutsideKeeps ==
    ASSUME IInv, Outside, RemoteOK', StreamOK', FileStays
    PROVE  Goal'
<1>1. /\ UNCHANGED <<last, after, promise, line, clone, cmd, git, h, op, model, blame, added>>
      /\ ~Doomed
  BY DoomedIsNotQuiet DEF Outside, esVars
<1>2. RemoteOK /\ CloneOK /\ FileOK /\ GitOK /\ CmdOK /\ ModelOK /\ HandlersOK
  BY DEF IInv, WorldOK
<1>3. remote.main \in Nat /\ remote'.main \in Nat /\ remote.main <= remote'.main
  BY <1>2 DEF RemoteOK, FileStays
<1>4. CloneOK'
  BY <1>1, <1>2, <1>3 DEF CloneOK, Clones
<1>5. FileOK'
  <2>1. clone.main # 0 => clone.main \in 1 .. remote.main
    BY <1>2, <1>3 DEF CloneOK, Clones
  <2> QED
    BY <1>1, <1>2, <2>1 DEF FileOK, FileStays
<1>6. GitOK' /\ CmdOK'
  BY <1>1, <1>2 DEF GitOK, CmdOK
<1>7. ModelOK'
  BY <1>1, <1>2, <1>3 DEF ModelOK
<1>8. ASSUME NEW q \in Handlers PROVE EachOK(q)'
  <2>1. h[q] \in States
    BY <1>2 DEF HandlersOK
  <2>2. Stays(q)
    <3>1. op[q] # None => Open(op[q])
      BY <1>2 DEF HandlersOK, EachOK, WaitsOK
    <3> QED
      BY <1>1, <2>1, <3>1 DEF Stays, Same, Open
  <2>3. Grows
    BY <1>1, <1>2 DEF Grows, CloneOK, Clones
  <2>4. FileGoesOn(q)
    BY DEF FileGoesOn, FileStays
  <2>5. Refilled' = Refilled
    BY <1>1 DEF Refilled
  <2> QED
    BY <1>1, <1>2, <2>2, <2>3, <2>4, <2>5, BystanderOK
<1>9. HandlersOK'
  BY <1>1, <1>2, <1>8 DEF HandlersOK
<1>10. StaleIsAnnounced'
  <2>1. StaleIsAnnounced
    BY DEF IInv
  <2> QED
    BY <1>1, <2>1 DEF StaleIsAnnounced, Announced, ModelOf, Cmd, Ensured, Exists
<1> QED
  BY <1>4, <1>5, <1>6, <1>7, <1>9, <1>10 DEF Goal, WorldOK

\* A merged change is a new commit with the same file, and two events in either order.
LEMMA MergeChangeKeeps == ASSUME IInv, MergeChange PROVE Goal'
<1>1. RemoteOK /\ StreamOK
  BY DEF IInv, WorldOK
<1> DEFINE n == remote.main + 1
           es == <<Event("push", Main, n), Event("prune", Main, 0)>>
<1>2. PICK swapped \in BOOLEAN :
        /\ Outside
        /\ remote' = [remote EXCEPT !.main = n, !.file = Append(@, remote.file[remote.main])]
        /\ Send(IF swapped THEN <<es[2], es[1]>> ELSE es)
  BY DEF MergeChange
<1>3. /\ remote.main \in Nat /\ remote.main >= 1 /\ remote.file \in Seq(SUBSET Values)
      /\ Len(remote.file) = remote.main
      /\ remote.file[remote.main] \in SUBSET Values
  BY <1>1 DEF RemoteOK
<1>4. /\ remote'.main = n /\ remote'.file = Append(remote.file, remote.file[remote.main])
      /\ remote'.tags = remote.tags
  BY <1>1, <1>2 DEF RemoteOK
<1>5. RemoteOK'
  <2>1. remote'.file \in Seq(SUBSET Values) /\ Len(remote'.file) = n
    BY <1>3, <1>4
  <2>2. \A t \in Tags : remote'.tags[t] <= n
    BY <1>1, <1>3, <1>4 DEF RemoteOK
  <2>3. remote' \in [main : Nat, tags : [Tags -> Nat], changes : SUBSET Changes,
                     file : Seq(SUBSET Values)]
    <3> DEFINE file == Append(remote.file, remote.file[remote.main])
    <3>1. remote' = [remote EXCEPT !.main = n, !.file = file] /\ file \in Seq(SUBSET Values)
      BY <1>1, <1>2, <1>4, <2>1 DEF RemoteOK
    <3>2. n \in Nat
      BY <1>3
    <3> HIDE DEF file, n
    <3> QED
      BY <1>1, <3>1, <3>2 DEF RemoteOK
  <2> QED
    BY <1>3, <1>4, <2>1, <2>2, <2>3 DEF RemoteOK
<1>6. FileStays
  BY <1>3, <1>4 DEF FileStays
<1>7. StreamOK'
  <2>1. stream \in Seq(Events(remote.main)) /\ Events(remote.main) \subseteq Events(n)
    BY <1>1, <1>3, EventsGrow DEF StreamOK
  <2>2. es[1] \in Events(n) /\ es[2] \in Events(n)
    BY <1>3 DEF Events, Event
  <2> HIDE DEF es
  <2>3. stream \in Seq(Events(n))
    BY <2>1
  <2>4. <<es[2], es[1]>> \in Seq(Events(n))
    BY <2>2
  <2>5. es \in Seq(Events(n))
    BY <2>2 DEF es
  <2>6. PICK s \in {<<es[2], es[1]>>, es} : stream' = stream \o s
    BY <1>2 DEF Send
  <2>7. s \in Seq(Events(n))
    BY <2>4, <2>5, <2>6
  <2>8. stream' \in Seq(Events(n))
    BY <2>3, <2>6, <2>7, ConcatProperties
  <2> QED
    BY <1>4, <2>8 DEF StreamOK
<1> QED
  BY <1>2, <1>5, <1>6, <1>7, OutsideKeeps

\* A tag is set to the newest commit, or is deleted.
LEMMA TagKeeps ==
    ASSUME IInv, NEW t \in Tags, NEW n \in {0, remote.main}, Outside,
           remote' = [remote EXCEPT !.tags[t] = n],
           NEW e \in Events(remote.main), Send(<<e>>)
    PROVE  Goal'
<1>1. RemoteOK /\ StreamOK
  BY DEF IInv, WorldOK
<1>2. remote'.main = remote.main /\ remote'.file = remote.file
  BY <1>1 DEF RemoteOK
<1>3. RemoteOK'
  <2>1. n \in Nat /\ n <= remote.main
    BY <1>1 DEF RemoteOK
  <2>2. remote'.tags = [remote.tags EXCEPT ![t] = n] /\ remote.tags \in [Tags -> Nat]
    BY <1>1 DEF RemoteOK
  <2>3. \A u \in Tags : remote'.tags[u] <= remote.main
    BY <1>1, <2>1, <2>2 DEF RemoteOK
  <2> QED
    BY <1>1, <1>2, <2>1, <2>2, <2>3 DEF RemoteOK
<1>4. FileStays
  BY <1>1, <1>2 DEF FileStays, RemoteOK
<1>5. StreamOK'
  BY <1>1, <1>2 DEF StreamOK, Send
<1> QED
  BY <1>3, <1>4, <1>5, OutsideKeeps

\* A tag is created, moved or deleted.
LEMMA TagsKeep ==
    ASSUME IInv, NEW t \in Tags, CreateTag(t) \/ MoveTag(t) \/ DeleteTag(t)
    PROVE  Goal'
<1>1. remote.main \in Nat
  BY DEF IInv, WorldOK, RemoteOK
<1>2. Event("push", t, remote.main) \in Events(remote.main) /\ Event("delete", t, 0) \in Events(remote.main)
  BY <1>1 DEF Event, Events
<1>3. CASE CreateTag(t) \/ MoveTag(t)
  BY <1>2, <1>3, TagKeeps DEF CreateTag, MoveTag
<1>4. CASE DeleteTag(t)
  BY <1>2, <1>4, TagKeeps DEF DeleteTag
<1> QED
  BY <1>3, <1>4

\* A patch set is uploaded.
LEMMA UploadChangeKeeps == ASSUME IInv, NEW c \in Changes, UploadChange(c) PROVE Goal'
<1>1. RemoteOK /\ StreamOK
  BY DEF IInv, WorldOK
<1>2. /\ Outside /\ remote' = [remote EXCEPT !.changes = @ \cup {c}]
      /\ Send(<<Event("update", c, 0)>>)
  BY DEF UploadChange
<1>3. remote'.main = remote.main /\ remote'.file = remote.file /\ remote'.tags = remote.tags
  BY <1>1, <1>2 DEF RemoteOK
<1>4. RemoteOK'
  BY <1>1, <1>2, <1>3 DEF RemoteOK
<1>5. FileStays
  BY <1>1, <1>3 DEF FileStays, RemoteOK
<1>6. Event("update", c, 0) \in Events(remote.main)
  BY DEF Event, Events
<1>7. StreamOK'
  BY <1>1, <1>2, <1>3, <1>6 DEF StreamOK, Send
<1> QED
  BY <1>2, <1>4, <1>5, <1>7, OutsideKeeps

\* An event is lost, or comes twice.
LEMMA LoseEventKeeps == ASSUME IInv, NEW repeat \in BOOLEAN, LoseEvent(repeat) PROVE Goal'
<1>1. RemoteOK /\ StreamOK
  BY DEF IInv, WorldOK
<1>2. /\ Outside /\ remote' = remote /\ stream # <<>>
      /\ stream' = IF repeat THEN <<Head(stream)>> \o stream ELSE Tail(stream)
  BY DEF LoseEvent
<1>3. RemoteOK'
  BY <1>1, <1>2 DEF RemoteOK
<1>4. FileStays
  BY <1>1, <1>2 DEF FileStays, RemoteOK
<1>5. StreamOK'
  <2>1. Head(stream) \in Events(remote.main) /\ Tail(stream) \in Seq(Events(remote.main))
    BY <1>1, <1>2, HeadTailProperties DEF StreamOK
  <2>2. <<Head(stream)>> \o stream \in Seq(Events(remote.main))
    BY <1>1, <2>1, ConcatProperties DEF StreamOK
  <2> QED
    BY <1>2, <2>1, <2>2 DEF StreamOK
<1> QED
  BY <1>2, <1>3, <1>4, <1>5, OutsideKeeps

-----------------------------------------------------------------------------
\* How a handler moves.

Others(p) == \A q \in Handlers \ {p} : h'[q] = h[q]

\* A handler that does nothing is in a state that handlers have.
LEMMA IdleIsState == Idle \in States /\ Idle.stage = "done" /\ Idle = [Idle EXCEPT !.stage = "done"]
<1>1. None \in {None} \cup Models \cup SUBSET Values /\ {} \in SUBSET Values
  OBVIOUS
<1>2. "none" \in Kinds /\ Main \in Names \cup Values /\ "done" \in Stages
  BY DEF Kinds, Names, Stages, Ended
<1>3. Idle \in States
  BY <1>1, <1>2 DEF Idle, States
<1>4. Idle.stage = "done"
  BY DEF Idle
<1>5. ASSUME NEW r \in States, r.stage = "done" PROVE r = [r EXCEPT !.stage = "done"]
  BY <1>5 DEF States
<1> QED
  BY <1>3, <1>4, <1>5

\* A handler that came to its end has nothing to be asked.
LEMMA EndedOK ==
    ASSUME RemoteOK', NEW p \in Handlers, NEW stage \in Ended, op'[p] = None,
           h'[p] = [Idle EXCEPT !.stage = stage]
    PROVE  h'[p] \in States /\ EachOK(p)'
<1>1. /\ h'[p] \in States /\ h'[p].kind = "none" /\ h'[p].ref = Main /\ h'[p].sha = 0
      /\ h'[p].stage = stage
  BY IdleIsState DEF Idle, States, Stages
<1>2. stage \notin {"set", "fire", "isActive", "build", "values", "update"}
  BY DEF Ended
<1>3. remote'.main \in Nat
  BY DEF RemoteOK
<1>4. StagesOf("none") = Ended /\ RefsOf("none") = {Main}
  BY DEF StagesOf, RefsOf
<1>5. 0 <= remote'.main
  BY <1>3
<1>6. HandlerOK(p)'
  BY <1>1, <1>2, <1>4, <1>5 DEF HandlerOK
<1> QED
  BY <1>1, <1>2, <1>6 DEF EachOK, WaitsOK, PushOK, EnsuredOK, ReadOK

\* A handler goes on to a stage, or comes to its end; no other handler moves.
LEMMA ToMoves ==
    ASSUME h \in [Handlers -> States], NEW p \in Handlers, NEW stage \in Stages, To(p, stage)
    PROVE  /\ h' \in [Handlers -> States] /\ Others(p)
           /\ stage \in Ended => h'[p] = [Idle EXCEPT !.stage = stage]
           /\ stage \notin Ended => h'[p] = [h[p] EXCEPT !.stage = stage]
<1>1. Idle \in States
  BY IdleIsState
<1> DEFINE r == IF stage \in Ended THEN [Idle EXCEPT !.stage = stage] ELSE [h[p] EXCEPT !.stage = stage]
<1>2. [Idle EXCEPT !.stage = stage] \in States /\ [h[p] EXCEPT !.stage = stage] \in States
  BY <1>1 DEF States
<1>3. r \in States
  BY <1>2
<1>4. h' = [h EXCEPT ![p] = r]
  BY DEF To
<1>5. h'[p] = r
  BY <1>4
<1> HIDE DEF r
<1>6. h' \in [Handlers -> States] /\ Others(p)
  BY <1>3, <1>4 DEF Others
<1> QED
  BY <1>5, <1>6 DEF r

\* A handler that goes on to another stage keeps what it has.
LEMMA StageIs ==
    ASSUME NEW p \in Handlers, h[p] \in States, NEW stage \in Stages,
           h'[p] = [h[p] EXCEPT !.stage = stage]
    PROVE  /\ h'[p] \in States /\ h'[p].stage = stage
           /\ h'[p].kind = h[p].kind /\ h'[p].ref = h[p].ref /\ h'[p].sha = h[p].sha
           /\ h'[p].again = h[p].again /\ h'[p].seen = h[p].seen
           /\ h'[p].missed = h[p].missed /\ h'[p].replaced = h[p].replaced
BY DEF States

\* After an error a push fetches everything once, and then gives up; the others give up
\* at once (BuildSystemImpl.onPush).
LEMMA OnErrorMoves ==
    ASSUME h \in [Handlers -> States], NEW p \in Handlers, HandlerOK(p), OnError(p), op'[p] = None,
           RemoteOK, RemoteOK', remote.main <= remote'.main
    PROVE  /\ h' \in [Handlers -> States] /\ Others(p) /\ EachOK(p)'
           /\ h'[p].stage = "done" => h[p].kind # "push" \/ h[p].again
<1>1. CASE h[p].kind = "push" /\ ~h[p].again
  <2>1. h' = [h EXCEPT ![p] = [h[p] EXCEPT !.stage = "fetchAll", !.again = TRUE]]
    BY <1>1 DEF OnError
  <2>2. [h[p] EXCEPT !.stage = "fetchAll", !.again = TRUE] \in States
    <3>1. "fetchAll" \in Stages
      BY DEF Stages, Commands
    <3>2. h[p] \in States
      OBVIOUS
    <3> QED
      BY <3>1, <3>2 DEF States
  <2>3. h' \in [Handlers -> States] /\ Others(p)
    BY <2>1, <2>2 DEF Others
  <2>4. /\ h'[p].stage = "fetchAll" /\ h'[p].kind = "push" /\ h'[p].ref = h[p].ref
        /\ h'[p].sha = h[p].sha
    BY <1>1, <2>1 DEF States
  <2>5. h[p].sha <= remote'.main
    BY DEF HandlerOK, RemoteOK, States
  <2>6. HandlerOK(p)'
    BY <1>1, <2>4, <2>5 DEF HandlerOK, StagesOf, RefsOf
  <2> QED
    BY <2>3, <2>4, <2>6 DEF EachOK, WaitsOK, PushOK, EnsuredOK, ReadOK
<1>2. CASE ~(h[p].kind = "push" /\ ~h[p].again)
  <2>1. To(p, "done")
    BY <1>2 DEF OnError
  <2>2. "done" \in Stages /\ "done" \in Ended
    BY DEF Stages, Ended
  <2>3. h' \in [Handlers -> States] /\ Others(p) /\ h'[p] = [Idle EXCEPT !.stage = "done"]
    BY <2>1, <2>2, ToMoves
  <2> QED
    BY <1>2, <2>2, <2>3, EndedOK DEF States
<1> QED
  BY <1>1, <1>2

\* A handler moves, and nothing else does.
LEMMA HandlerMoves ==
    ASSUME IInv, NEW p \in Handlers, UNCHANGED <<esVars, remote, clone, cmd, git, op>>, ~Doomed,
           h' \in [Handlers -> States], Others(p), StreamOK', ModelOK', EachOK(p)'
    PROVE  WorldOK' /\ HandlersOK'
<1>1. RemoteOK /\ CloneOK /\ FileOK /\ GitOK /\ CmdOK /\ HandlersOK
  BY DEF IInv, WorldOK
<1>2. WorldOK'
  BY <1>1 DEF WorldOK, RemoteOK, CloneOK, FileOK, GitOK, CmdOK, esVars
<1>3. ASSUME NEW q \in Handlers, q # p PROVE EachOK(q)'
  <2>1. h'[q] = h[q] /\ h[q] \in States
    BY <1>1, <1>3 DEF Others, HandlersOK
  <2>2. Stays(q)
    <3>1. op[q] # None => Open(op[q])
      BY <1>1 DEF HandlersOK, EachOK, WaitsOK
    <3> QED
      BY <2>1, <3>1 DEF Stays, Same, Open, esVars
  <2>3. Grows
    BY <1>1 DEF Grows, CloneOK, Clones
  <2>4. FileGoesOn(q)
    BY <1>1 DEF FileGoesOn, RemoteOK
  <2>5. Refilled' = Refilled
    BY DEF Refilled
  <2> QED
    BY <1>1, <1>2, <2>2, <2>3, <2>4, <2>5, BystanderOK DEF esVars, WorldOK
<1> QED
  BY <1>2, <1>3 DEF HandlersOK

\* As long as git does nothing, what is announced is announced.
LEMMA StaleStays ==
    ASSUME IInv, NEW p \in Handlers, UNCHANGED <<esVars, clone, cmd, git, model, blame>>, Others(p),
           h[p].stage \notin {"fire", "fire again"}
    PROVE  StaleIsAnnounced'
<1>1. StaleIsAnnounced
  BY DEF IInv
<1>2. Announced => Announced'
  BY DEF Announced, Others, esVars, Cmd, Ensured, Exists
<1> QED
  BY <1>1, <1>2 DEF StaleIsAnnounced, ModelOf

-----------------------------------------------------------------------------
\* Handlers start.

\* A handler that starts, with an event or a request, relies on nothing yet.
LEMMA StartKeeps ==
    ASSUME IInv, NEW p \in Handlers, NEW e, StartHandler(p, e),
           \/ e \in Events(remote.main)
           \/ e = Event("read", Main, 0)
           \/ \E v \in Values : e = Event("add", v, 0),
           StreamOK'
    PROVE  Goal'
<1>1. RemoteOK /\ HandlersOK /\ ModelOK /\ HandlerOK(p) /\ WaitsOK(p) /\ h \in [Handlers -> States]
  BY DEF IInv, WorldOK, HandlersOK, EachOK
<1> DEFINE r == [Idle EXCEPT !.kind = e.kind, !.ref = e.ref, !.sha = e.sha, !.stage = First(e.kind)]
<1>2. /\ ~Busy(p) /\ h' = [h EXCEPT ![p] = r] /\ ~Doomed
      /\ UNCHANGED <<esVars, remote, clone, cmd, git, op, model, blame>>
  BY DoomedIsNotQuiet DEF StartHandler
<1>3. remote.main \in Nat
  BY <1>1 DEF RemoteOK
<1>4. /\ e.kind \in {"push", "update", "delete", "prune", "read", "add"}
      /\ e.ref \in RefsOf(e.kind) /\ e.ref \in Names \cup Values
      /\ e.sha \in Nat /\ e.sha <= remote.main
  BY <1>3 DEF Event, Events, RefsOf, Names
<1>5. First(e.kind) \in StagesOf(e.kind) /\ First(e.kind) \in Stages
  BY <1>4 DEF First, StagesOf, Stages, Commands, Ended
<1>6. r \in States
  BY <1>4, <1>5, IdleIsState DEF States, Kinds
<1>7. /\ r.kind = e.kind /\ r.ref = e.ref /\ r.sha = e.sha /\ r.stage = First(e.kind)
      /\ r.again = FALSE
  BY DEF Idle
<1> HIDE DEF r
<1>8. h' \in [Handlers -> States] /\ Others(p) /\ h'[p] = r
  BY <1>1, <1>2, <1>6 DEF Others
<1>9. op'[p] = None
  BY <1>1, <1>2, OnlyCommandsWait DEF Busy, Ended, Commands
<1>10. EachOK(p)'
  <2>1. /\ First(e.kind) \in {"ensure", "isActive", "get", "branch"}
        /\ First(e.kind) = "ensure" <=> e.kind \in {"push", "update"}
    BY <1>4 DEF First
  <2>2. HandlerOK(p)'
    BY <1>2, <1>4, <1>5, <1>7, <1>8, <2>1 DEF HandlerOK
  <2> QED
    BY <1>7, <1>8, <1>9, <2>1, <2>2 DEF EachOK, WaitsOK, PushOK, EnsuredOK, ReadOK
<1>11. ModelOK'
  BY <1>1, <1>2 DEF ModelOK
<1>12. WorldOK' /\ HandlersOK'
  BY <1>2, <1>8, <1>10, <1>11, HandlerMoves
<1>13. StaleIsAnnounced'
  BY <1>2, <1>8, StaleStays DEF Busy, Ended
<1> QED
  BY <1>12, <1>13 DEF Goal

\* An event of Gerrit is handled (GerritStreamListener).
LEMMA DeliverKeeps == ASSUME IInv, NEW p \in Handlers, Deliver(p) PROVE Goal'
<1>1. stream \in Seq(Events(remote.main)) /\ stream # <<>> /\ StartHandler(p, Head(stream))
      /\ stream' = Tail(stream)
  BY DEF Deliver, IInv, WorldOK, StreamOK
<1>2. Head(stream) \in Events(remote.main) /\ Tail(stream) \in Seq(Events(remote.main))
  BY <1>1, HeadTailProperties
<1>3. StreamOK'
  BY <1>1, <1>2 DEF StreamOK, StartHandler
<1> QED
  BY <1>1, <1>2, <1>3, StartKeeps

\* The model is asked for (RepositoryImpl.modelReader).
LEMMA AskModelKeeps == ASSUME IInv, NEW p \in Handlers, AskModel(p) PROVE Goal'
<1>1. StartHandler(p, Event("read", Main, 0)) /\ stream' = stream
  BY DEF AskModel
<1>2. StreamOK'
  BY <1>1 DEF StreamOK, StartHandler, IInv, WorldOK
<1> QED
  BY <1>1, <1>2, StartKeeps

\* A value is to be added (MajorsServiceImpl.addValue).
LEMMA AddValueKeeps == ASSUME IInv, NEW p \in Handlers, NEW v \in Values, AddValue(p, v) PROVE Goal'
<1>1. StartHandler(p, Event("add", v, 0)) /\ stream' = stream
  BY DEF AddValue
<1>2. StreamOK'
  BY <1>1 DEF StreamOK, StartHandler, IInv, WorldOK
<1> QED
  BY <1>1, <1>2, StartKeeps

-----------------------------------------------------------------------------
\* Redis.

\* What a handler does at Redis, as far as it concerns nobody else.
RedisMoves(p) ==
    /\ UNCHANGED <<esVars, remote, clone, cmd, git, op, stream>>
    /\ h[p].stage \in {"fire", "fire again", "get", "set", "register"} /\ ~Doomed

\* A step on Redis changes the model and the handler that takes it, nothing else.
LEMMA RedisMoveKeeps ==
    ASSUME IInv, NEW p \in Handlers, RedisMoves(p), h' \in [Handlers -> States], Others(p),
           EachOK(p)', ModelOK'
    PROVE  WorldOK' /\ HandlersOK'
<1>1. StreamOK'
  BY DEF RedisMoves, StreamOK, IInv, WorldOK
<1> QED
  BY <1>1, HandlerMoves DEF RedisMoves

\* A handler at a step on Redis waits for no command.
LEMMA RedisIdle == ASSUME IInv, NEW p \in Handlers, RedisMoves(p)
                   PROVE  /\ op[p] = None /\ op'[p] = None /\ h \in [Handlers -> States] /\ h[p] \in States
                          /\ EachOK(p) /\ RemoteOK /\ RemoteOK' /\ remote.main <= remote'.main
<1>1. HandlersOK /\ RemoteOK
  BY DEF IInv, WorldOK
<1>2. op[p] = None
  BY <1>1, OnlyCommandsWait DEF RedisMoves, Commands, HandlersOK, EachOK
<1>3. op'[p] = None /\ RemoteOK'
  BY <1>1, <1>2 DEF RedisMoves, RemoteOK
<1>4. remote.main <= remote'.main
  <2>1. remote' = remote
    BY DEF RedisMoves
  <2>2. remote.main \in Nat
    BY <1>1 DEF RemoteOK
  <2> QED
    BY <2>1, <2>2
<1> QED
  BY <1>1, <1>2, <1>3, <1>4 DEF HandlersOK

\* The listeners delete the model, so it is not stale any more
\* (RawModelRepository.onUpdate).
LEMMA FireListenersKeeps == ASSUME IInv, NEW p \in Handlers, FireListeners(p) PROVE Goal'
<1> DEFINE next == IF h[p].stage = "fire again" THEN "ensure"
                   ELSE IF h[p].kind = "delete" THEN "done" ELSE "isActive"
<1>1. /\ RedisMoves(p) /\ To(p, next) /\ model' = None
      /\ h[p].stage \in {"fire", "fire again"}
  BY DoomedIsNotQuiet DEF FireListeners, RedisStep, RedisMoves, gitVars
<1>2. /\ op'[p] = None /\ h \in [Handlers -> States] /\ EachOK(p) /\ RemoteOK /\ RemoteOK'
      /\ h[p] \in States
  BY <1>1, RedisIdle
<1>3. ModelOK' /\ StaleIsAnnounced'
  BY <1>1 DEF ModelOK, StaleIsAnnounced
<1>4. CASE next = "done"
  <2>1. "done" \in Stages /\ "done" \in Ended
    BY DEF Stages, Ended
  <2>2. h' \in [Handlers -> States] /\ Others(p) /\ h'[p] = [Idle EXCEPT !.stage = "done"]
    BY <1>1, <1>2, <1>4, <2>1, ToMoves
  <2> QED
    BY <1>1, <1>2, <1>3, <2>1, <2>2, EndedOK, RedisMoveKeeps DEF Goal
<1>5. CASE next # "done"
  <2>1. next \in Stages /\ next \notin Ended /\ next \in {"ensure", "isActive"}
    BY <1>5 DEF Stages, Commands, Ended
  <2>0. To(p, next) /\ h \in [Handlers -> States]
    BY <1>1, <1>2
  <2> HIDE DEF next
  <2>2. /\ h' \in [Handlers -> States] /\ Others(p)
        /\ h'[p] = [h[p] EXCEPT !.stage = next]
    BY <2>0, <2>1, ToMoves
  <2>3. /\ h'[p].stage = next
        /\ h'[p].kind = h[p].kind /\ h'[p].ref = h[p].ref /\ h'[p].sha = h[p].sha
        /\ h'[p].again = h[p].again /\ h'[p].replaced = h[p].replaced
    BY <1>2, <2>1, <2>2, StageIs
  <2>4. next \in StagesOf(h[p].kind)
    BY <1>1, <1>2, <1>5, KindOfStage DEF next, StagesOf, EachOK
  <2>5. HandlerOK(p)'
    BY <1>1, <1>2, <2>1, <2>3, <2>4 DEF HandlerOK, EachOK, RedisMoves
  <2>6. Fetched(p)' = Fetched(p)
    BY <1>1, <2>3 DEF Fetched, RedisMoves
  <2>7. PushOK(p)'
    BY <1>1, <1>2, <2>3, <2>6 DEF PushOK, EachOK
  <2>8. EnsuredOK(p)'
    BY <1>1, <1>2, <2>1, <2>3 DEF next, EnsuredOK, EachOK, RedisMoves, Exists
  <2>9. EachOK(p)'
    BY <1>2, <2>1, <2>3, <2>5, <2>7, <2>8 DEF EachOK, WaitsOK, ReadOK
  <2> QED
    BY <1>1, <1>3, <2>2, <2>9, RedisMoveKeeps DEF Goal
<1> QED
  BY <1>4, <1>5

\* The model that is there is answered, or is to be computed
\* (RawModelRepository.getModel).
LEMMA GetModelKeeps == ASSUME IInv, NEW p \in Handlers, GetModel(p) PROVE Goal'
<1> DEFINE next == IF model = None THEN "entities" ELSE "done"
<1>1. /\ RedisMoves(p) /\ To(p, next) /\ h[p].stage = "get"
      /\ UNCHANGED <<model, blame>>
  BY DoomedIsNotQuiet DEF GetModel, Redis, RedisStep, RedisMoves, gitVars
<1>2. /\ op'[p] = None /\ h \in [Handlers -> States] /\ EachOK(p) /\ RemoteOK /\ RemoteOK'
      /\ h[p] \in States
  BY <1>1, RedisIdle
<1>3. ModelOK'
  BY <1>1 DEF ModelOK, IInv, WorldOK, RedisMoves
<1>4. next \in Stages /\ (next \in Ended <=> next = "done")
  BY DEF Stages, Commands, Ended
<1>5. /\ h' \in [Handlers -> States] /\ Others(p)
      /\ next \in Ended => h'[p] = [Idle EXCEPT !.stage = next]
      /\ next \notin Ended => h'[p] = [h[p] EXCEPT !.stage = next]
  BY <1>1, <1>2, <1>4, ToMoves
<1>6. EachOK(p)'
  <2>1. CASE next \in Ended
    BY <1>2, <1>5, <2>1, EndedOK
  <2>2. CASE next \notin Ended
    <3>1. h'[p] = [h[p] EXCEPT !.stage = "entities"] /\ "entities" \in Stages
      BY <1>4, <1>5, <2>2
    <3>2. /\ h'[p].stage = "entities"
          /\ h'[p].kind = h[p].kind /\ h'[p].ref = h[p].ref /\ h'[p].sha = h[p].sha
      BY <1>2, <3>1, StageIs
    <3>3. h[p].kind = "read"
      BY <1>1, <1>2, KindOfStage DEF EachOK
    <3>4. HandlerOK(p)'
      BY <1>1, <1>2, <3>2, <3>3 DEF HandlerOK, EachOK, RedisMoves, StagesOf
    <3> QED
      BY <1>2, <3>2, <3>3, <3>4 DEF EachOK, WaitsOK, PushOK, EnsuredOK, ReadOK
  <2> QED
    BY <2>1, <2>2
<1>7. StaleIsAnnounced'
  BY <1>1, <1>5, StaleStays DEF RedisMoves
<1> QED
  BY <1>1, <1>3, <1>5, <1>6, <1>7, RedisMoveKeeps DEF Goal

\* The model that was read from the clone is written, even if the clone has moved on
\* (RawModelRepository.getModel).
LEMMA SetModelKeeps == ASSUME IInv, NEW p \in Handlers, SetModel(p) PROVE Goal'
<1>1. /\ RedisMoves(p) /\ To(p, "done") /\ h[p].stage = "set"
      /\ model' = h[p].seen /\ Blame("overtaken")
  BY DoomedIsNotQuiet DEF SetModel, Redis, RedisStep, RedisMoves, gitVars
<1>2. /\ op'[p] = None /\ h \in [Handlers -> States] /\ EachOK(p) /\ RemoteOK /\ RemoteOK'
      /\ h[p] \in States
  BY <1>1, RedisIdle
<1>3. ModelOK'
  BY <1>1, <1>2 DEF ModelOK, HandlerOK, EachOK, RedisMoves
<1>4. "done" \in Stages /\ "done" \in Ended
  BY DEF Stages, Ended
<1>5. h' \in [Handlers -> States] /\ Others(p) /\ h'[p] = [Idle EXCEPT !.stage = "done"]
  BY <1>1, <1>2, <1>4, ToMoves
<1>6. EachOK(p)'
  BY <1>2, <1>4, <1>5, EndedOK
<1>7. StaleIsAnnounced'
  BY <1>1 DEF StaleIsAnnounced, Blame
<1> QED
  BY <1>1, <1>3, <1>5, <1>6, <1>7, RedisMoveKeeps DEF Goal

\* The dependencies are registered, or that fails (BuildSystemImpl.onPush).
LEMMA RegisterKeeps == ASSUME IInv, NEW p \in Handlers, Register(p) PROVE Goal'
<1>1. /\ RedisMoves(p) /\ h[p].stage = "register" /\ (To(p, "done") \/ OnError(p))
      /\ UNCHANGED <<model, blame>>
  BY DoomedIsNotQuiet DEF Register, Redis, RedisMoves
<1>2. /\ op'[p] = None /\ h \in [Handlers -> States] /\ EachOK(p) /\ RemoteOK /\ RemoteOK'
      /\ h[p] \in States /\ remote.main <= remote'.main
  BY <1>1, RedisIdle
<1>3. ModelOK'
  BY <1>1 DEF ModelOK, IInv, WorldOK, RedisMoves
<1>4. "done" \in Stages /\ "done" \in Ended
  BY DEF Stages, Ended
<1>5. h' \in [Handlers -> States] /\ Others(p) /\ EachOK(p)'
  <2>1. CASE To(p, "done")
    BY <1>2, <1>4, <2>1, ToMoves, EndedOK
  <2>2. CASE OnError(p)
    BY <1>2, <2>2, OnErrorMoves DEF EachOK
  <2> QED
    BY <1>1, <2>1, <2>2
<1>6. StaleIsAnnounced'
  BY <1>1, <1>5, StaleStays DEF RedisMoves
<1> QED
  BY <1>1, <1>3, <1>5, <1>6, RedisMoveKeeps DEF Goal

-----------------------------------------------------------------------------
\* A handler asks for a command.

\* A handler is about to delete the model.
Told == \E p \in Handlers : h[p].stage \in {"fire", "fire again"}

\* A handler asks for the command of its stage, at the end of the chain
\* (ExecutionSerializer.execute).
LEMMA AskGitKeeps == ASSUME IInv, NEW p \in Handlers, AskGit(p) PROVE Goal'
<1>1. /\ ESInv /\ OpTypeOK /\ RemoteOK /\ CloneOK /\ FileOK /\ GitOK /\ CmdOK /\ StreamOK /\ ModelOK
      /\ HandlersOK /\ StaleIsAnnounced
  BY DEF IInv, WorldOK
<1>2. PICK o \in {p} \X {0, 1} : Request(o, Command(p)) /\ op' = [op EXCEPT ![p] = o]
  BY DEF AskGit
<1>3. /\ h[p].stage \in Commands /\ op[p] = None /\ ~Doomed
      /\ UNCHANGED <<stream, h, model, blame, added, remote, clone, git>>
      /\ Execute(o) /\ cmd' = [cmd EXCEPT ![o] = Command(p)]
  BY <1>2 DEF AskGit, Request
<1>4. o \in Ops /\ o # None
  BY <1>2, OpsAreHandlers, NoneIsNoOp
<1>5. /\ promise' = [promise EXCEPT ![o] = "waiting"] /\ promise[o] \notin {"waiting", "running"}
      /\ promise'[o] = "waiting"
      /\ \A x \in Ops \ {o} : promise'[x] = promise[x] /\ cmd'[x] = cmd[x]
  BY <1>1, <1>3, <1>4 DEF Execute, Fresh, ESInv, ESTypeOK, CmdOK
<1>6. op'[p] = o /\ \A q \in Handlers \ {p} : op'[q] = op[q]
  BY <1>1, <1>2, <1>4 DEF OpTypeOK
<1>7. RemoteOK' /\ CloneOK' /\ FileOK' /\ StreamOK' /\ ModelOK'
  BY <1>1, <1>3 DEF RemoteOK, CloneOK, FileOK, StreamOK, ModelOK
<1>8. GitOK'
  <2>1. (\E x \in Ops : promise'[x] = "running") <=> (\E x \in Ops : promise[x] = "running")
    BY <1>5
  <2> QED
    BY <1>1, <1>3, <2>1 DEF GitOK
<1>9. cmd'[o] = Command(p)
  BY <1>1, <1>3, <1>4 DEF CmdOK
<1>10. CmdOK'
  <2>1. /\ Command(p) \in [name : CommandNames, ref : Names \cup {"meta"}, sha : Nat]
        /\ Command(p).name = "ensure" => Command(p).ref \in Names
    BY <1>1, <1>3, CommandIsTyped DEF HandlersOK, EachOK
  <2> QED
    BY <1>1, <1>3, <1>5, <1>9, <2>1 DEF CmdOK
<1>11. ASSUME NEW q \in Handlers, q # p PROVE EachOK(q)'
  <2>1. h[q] \in States /\ WaitsOK(q)
    BY <1>1 DEF HandlersOK, EachOK
  <2>2. op[q] # None => op[q] \in Ops \ {o} /\ Open(op[q])
    BY <1>1, <1>2, <1>11, <2>1, OpsAreOps DEF WaitsOK
  <2>3. Stays(q)
    BY <1>3, <1>5, <1>6, <1>11, <2>1, <2>2 DEF Stays, Same, Open
  <2>4. Grows
    BY <1>1, <1>3 DEF Grows, CloneOK, Clones
  <2>5. FileGoesOn(q)
    BY <1>1, <1>3 DEF FileGoesOn, RemoteOK
  <2>6. Refilled' = Refilled
    BY <1>3 DEF Refilled
  <2>7. op[q] # None /\ promise'[op[q]] = "running" => promise[op[q]] = "running"
    BY <1>5, <2>2
  <2> QED
    BY <1>1, <1>3, <1>7, <2>3, <2>4, <2>5, <2>6, <2>7, BystanderOK
<1>12. EachOK(p)'
  <2>1. EachOK(p)
    BY <1>1 DEF HandlersOK
  <2>2. HandlerOK(p)' /\ EnsuredOK(p)'
    BY <1>3, <2>1 DEF EachOK, HandlerOK, EnsuredOK, Exists
  <2>3. WaitsOK(p)'
    <3>1. Command(p)' = Command(p)
      BY <1>3 DEF Command
    <3> QED
      BY <1>2, <1>3, <1>5, <1>6, <1>9, <3>1 DEF WaitsOK, Open
  <2>4. PushOK(p)'
    BY <1>3, <1>5, <1>6, <2>1 DEF EachOK, PushOK, Fetched
  <2>5. ReadOK(p)'
    BY <1>3, <2>1 DEF EachOK, ReadOK, Refilled
  <2> QED
    BY <2>2, <2>3, <2>4, <2>5 DEF EachOK
<1>13. HandlersOK'
  BY <1>1, <1>3, <1>11, <1>12 DEF HandlersOK
<1>14. StaleIsAnnounced'
  <2>1. \A x \in Ops : promise[x] = "running" => promise'[x] = "running" /\ cmd'[x] = cmd[x]
    BY <1>5
  <2>2. Announced => Announced'
    <3>1. h' = h /\ clone' = clone /\ git' = git
      BY <1>3
    <3>2. CASE Told
      BY <3>1, <3>2 DEF Told, Announced
    <3>3. CASE ~Told
      <4> SUFFICES ASSUME NEW x \in Ops, promise[x] = "running", Macro(Cmd(x)),
                          git.tries < RETRY_COUNT \/ ~Ensured(clone, Cmd(x))
                   PROVE  Announced'
        BY <3>3 DEF Announced, Told
      <4>1. promise'[x] = "running" /\ Cmd(x)' = Cmd(x)
        BY <2>1 DEF Cmd
      <4>2. Ensured(clone, Cmd(x))' = Ensured(clone, Cmd(x))
        BY <3>1, <4>1 DEF Ensured, Exists
      <4>3. Macro(Cmd(x))' /\ (git'.tries < RETRY_COUNT \/ ~Ensured(clone, Cmd(x))')
        BY <3>1, <4>1, <4>2 DEF Macro
      <4> QED
        BY <4>1, <4>3 DEF Announced
    <3> QED
      BY <3>2, <3>3
  <2> QED
    BY <1>1, <1>3, <2>2 DEF StaleIsAnnounced, ModelOf
<1> QED
  BY <1>7, <1>8, <1>10, <1>13, <1>14 DEF Goal, WorldOK

-----------------------------------------------------------------------------
\* Git works.

\* That no command runs is not mistaken for a command.
LEMMA NoneIsNoRun == None \notin Runs
BY NoneIsNoCommand, LocalGitAssumption DEF Runs

\* A command starts with all its tries.
LEMMA StartIsRun ==
    ASSUME NEW at \in {"init", "command"}, NEW retries \in 0 .. GIT_RETRY_COUNT, NEW refresh \in BOOLEAN
    PROVE  /\ Start(at, retries, refresh) \in Runs
           /\ Start(at, retries, refresh).at = at
           /\ Start(at, retries, refresh).refresh = refresh
           /\ Start(at, retries, refresh).tries = RETRY_COUNT
<1>1. RETRY_COUNT \in 0 .. RETRY_COUNT
  BY LocalGitAssumption
<1> QED
  BY <1>1 DEF Start, Runs

\* A clone that has something more has nothing that is not there, and the same file.
LEMMA GrownIsOK ==
    ASSUME RemoteOK, CloneOK, FileOK, remote' = remote, Grown(clone, clone')
    PROVE  Grows /\ CloneOK' /\ FileOK'
<1>1. Grows
  BY DEF Grown, Grows
<1>2. CloneOK'
  BY DEF Grown, CloneOK
<1>3. FileOK'
  BY DEF Grown, FileOK
<1> QED
  BY <1>1, <1>2, <1>3

\* So has one that is empty.
LEMMA EmptyIsOK ==
    ASSUME RemoteOK, remote' = remote, clone' \in {Empty, NoClone}
    PROVE  CloneOK' /\ FileOK'
<1>1. clone' \in Clones /\ clone'.main = 0 /\ clone'.have = 0 /\ remote.main \in Nat
  BY EmptyIsNothing DEF RemoteOK
<1> QED
  BY <1>1 DEF CloneOK, FileOK

\* The step says of the handlers at most that the clone was replaced.
Noted(fresh) == h' = [p \in Handlers |->
    IF fresh /\ Busy(p) THEN [h[p] EXCEPT !.replaced = TRUE] ELSE h[p]]

\* A step of git moves no handler; what the handlers rely on is kept when the clone
\* grows, and when it is emptied they are told.
LEMMA GitMoves ==
    ASSUME IInv, NEW fresh \in BOOLEAN, Noted(fresh), ~Doomed,
           UNCHANGED <<stream, op, model, remote, cmd>>, GitOK',
           \A o \in Ops : Open(o) => Open(o)',
           Grown(clone, clone') \/ (clone' = Empty /\ Refilled' /\ fresh),
           \A o \in Ops : promise'[o] = "running" /\ git'.refresh =>
                (promise[o] = "running" /\ git.refresh) \/ clone'.main \in {0, remote'.main},
           Refilled => Refilled' \/ clone'.have = remote'.main
    PROVE  WorldOK' /\ HandlersOK'
<1>1. /\ OpTypeOK /\ RemoteOK /\ CloneOK /\ FileOK /\ CmdOK /\ StreamOK /\ ModelOK /\ HandlersOK
      /\ h \in [Handlers -> States]
  BY DEF IInv, WorldOK, HandlersOK
<1>2. CloneOK' /\ FileOK'
  BY <1>1, GrownIsOK, EmptyIsOK
<1>3. RemoteOK' /\ CmdOK' /\ StreamOK' /\ ModelOK'
  BY <1>1 DEF RemoteOK, CmdOK, StreamOK, ModelOK
<1>4. ASSUME NEW q \in Handlers PROVE EachOK(q)' /\ h'[q] \in States
  <2>1. h[q] \in States /\ WaitsOK(q)
    BY <1>1 DEF HandlersOK, EachOK
  <2>2. h'[q] = IF fresh /\ Busy(q) THEN [h[q] EXCEPT !.replaced = TRUE] ELSE h[q]
    BY DEF Noted
  <2>3. /\ h'[q] \in States /\ h'[q].kind = h[q].kind /\ h'[q].ref = h[q].ref
        /\ h'[q].sha = h[q].sha /\ h'[q].stage = h[q].stage /\ h'[q].again = h[q].again
        /\ h'[q].seen = h[q].seen /\ h'[q].missed = h[q].missed
        /\ h[q].replaced => h'[q].replaced
        /\ fresh /\ Busy(q) => h'[q].replaced
    <3>1. CASE fresh /\ Busy(q)
      <4>1. h'[q] = [h[q] EXCEPT !.replaced = TRUE]
        BY <2>2, <3>1
      <4> QED
        BY <2>1, <4>1 DEF States
    <3>2. CASE ~(fresh /\ Busy(q))
      BY <2>1, <2>2, <3>2
    <3> QED
      BY <3>1, <3>2
  <2>4. op[q] # None => op[q] \in Ops /\ Open(op[q])
    BY <1>1, <2>1, OpsAreOps DEF WaitsOK
  <2>5. Stays(q)
    BY <2>3, <2>4 DEF Stays, Same
  <2>6. Grows \/ Empties(q)
    BY <1>1, <2>3, GrownIsOK DEF Empties
  <2>7. FileGoesOn(q)
    <3>1. remote.main <= remote'.main
      BY <1>1 DEF RemoteOK
    <3> QED
      BY <3>1 DEF FileGoesOn
  <2>8. EachOK(q)'
    BY <1>1, <1>3, <2>4, <2>5, <2>6, <2>7, BystanderOK
  <2> QED
    BY <2>3, <2>8
<1>5. h' \in [Handlers -> States]
  BY <1>4 DEF Noted
<1> QED
  BY <1>2, <1>3, <1>4, <1>5 DEF WorldOK, HandlersOK

\* Who is about to delete the model still is.
LEMMA ToldStays ==
    ASSUME h \in [Handlers -> States], NEW fresh \in BOOLEAN, Noted(fresh), Told
    PROVE  Told'
<1>1. PICK p \in Handlers : h[p].stage \in {"fire", "fire again"}
  BY DEF Told
<1>2. h'[p].stage = h[p].stage
  BY DEF Noted, States
<1> QED
  BY <1>1, <1>2 DEF Told

\* A command begins: the clone is at most initialised.
LEMMA BeginCommandKeeps ==
    ASSUME IInv, NEW o \in Ops, CanBegin(o), ~Doomed, BeginCommand(o), UNCHANGED <<stream, op, model>>,
           NEW fresh \in BOOLEAN, Noted(fresh), NEW x, Blame(x)
    PROVE  Goal'
<1>1. /\ ESInv /\ OpTypeOK /\ RemoteOK /\ CloneOK /\ GitOK /\ HandlersOK /\ StaleIsAnnounced
      /\ h \in [Handlers -> States]
  BY DEF IInv, WorldOK, HandlersOK
<1>2. /\ Begin(o) /\ clone' = [clone EXCEPT !.ready = TRUE] /\ UNCHANGED <<remote, cmd>>
      /\ git' = Start(IF clone.ready THEN "command" ELSE "init", GIT_RETRY_COUNT, FALSE)
  BY DEF BeginCommand
<1>3. git = None
  BY <1>1, NoneRunsYet DEF GitOK
<1>4. git' \in Runs /\ git' # None /\ git'.refresh = FALSE
  <2> DEFINE at == IF clone.ready THEN "command" ELSE "init"
  <2>1. at \in {"init", "command"} /\ GIT_RETRY_COUNT \in 0 .. GIT_RETRY_COUNT /\ FALSE \in BOOLEAN
    BY LocalGitAssumption
  <2> HIDE DEF at
  <2>2. Start(at, GIT_RETRY_COUNT, FALSE) \in Runs /\ Start(at, GIT_RETRY_COUNT, FALSE).refresh = FALSE
    BY <2>1, StartIsRun
  <2> QED
    BY <1>2, <2>2, NoneIsNoRun DEF at
<1>5. /\ promise[o] = "waiting" /\ promise'[o] = "running"
      /\ \A q \in Ops \ {o} : q # after[o] => promise'[q] = promise[q]
      /\ after[o] \in Ops => ~Open(after[o])
  BY <1>1, <1>2 DEF Begin, CanBegin, Settled, Open, ESInv, ESTypeOK
<1>6. \A q \in Ops : Open(q) => Open(q)'
  BY <1>5 DEF Open
<1>7. GitOK'
  BY <1>4, <1>5 DEF GitOK
<1>8. Grown(clone, clone') /\ ModelOf(clone') = ModelOf(clone)
  <2>1. clone \in Clones
    BY <1>1 DEF CloneOK
  <2>2. /\ clone' \in Clones /\ clone'.main = clone.main /\ clone'.have = clone.have
        /\ clone'.tags = clone.tags /\ clone'.changes = clone.changes
    BY <1>2, <2>1 DEF Clones
  <2>3. clone.have <= clone.have
    BY <2>1 DEF Clones
  <2> QED
    BY <1>1, <2>2, <2>3 DEF Grown, CloneOK, ModelOf
<1>9. ~Refilled
  BY <1>3 DEF Refilled
<1>10. WorldOK' /\ HandlersOK'
  BY <1>2, <1>4, <1>6, <1>7, <1>8, <1>9, GitMoves
<1>11. StaleIsAnnounced'
  <2>1. Announced => Told
    BY <1>1, NoneRunsYet DEF Announced, Told
  <2>2. Announced => Announced'
    BY <1>1, <2>1, ToldStays DEF Announced, Told
  <2> QED
    BY <1>1, <1>8, <2>2 DEF StaleIsAnnounced, Blame
<1> QED
  BY <1>10, <1>11 DEF Goal

\* Git goes on with a command.
GoesOn(o) ==
    /\ promise[o] = "running" /\ git # None /\ ~Doomed
    /\ UNCHANGED <<esVars, stream, op, model, remote, cmd>>

\* The same for a step of the command that runs.
LEMMA GoesOnOK ==
    ASSUME IInv, NEW o \in Ops, GoesOn(o), NEW fresh \in BOOLEAN, Noted(fresh), git' \in Runs,
           Grown(clone, clone') \/ (clone' = Empty /\ Refilled' /\ fresh),
           git'.refresh => git.refresh \/ clone'.main \in {0, remote'.main},
           Refilled => Refilled' \/ clone'.have = remote'.main
    PROVE  WorldOK' /\ HandlersOK'
<1>1. git' # None /\ GitOK'
  <2>1. git' # None
    BY NoneIsNoRun
  <2> QED
    BY <2>1 DEF GitOK, GoesOn, esVars
<1>2. \A q \in Ops : Open(q) => Open(q)'
  BY DEF Open, GoesOn, esVars
<1> QED
  BY <1>1, <1>2, GitMoves DEF GoesOn, esVars

\* The fetch into a new clone brings back everything (LocalGitFactoryImpl.execute).
LEMMA InitFetchKeeps ==
    ASSUME IInv, NEW o \in Ops, GoesOn(o), InitFetch(o), NEW fresh \in BOOLEAN, Noted(fresh),
           NEW x, x # "none", Blame(x)
    PROVE  Goal'
<1>1. RemoteOK /\ CloneOK /\ GitOK /\ git \in Runs
  BY DEF IInv, WorldOK, GitOK, GoesOn
<1>2. clone' = FetchDefaultRemotes(clone) /\ git' = Start("command", GIT_RETRY_COUNT, git.refresh)
  BY DEF InitFetch
<1>3. Grown(clone, clone') /\ clone'.main = remote.main /\ clone'.have = remote.main
  BY <1>1, <1>2, FetchDefaultRemotesGrows
<1>4. git' \in Runs /\ remote' = remote
  BY <1>1, <1>2, StartIsRun, LocalGitAssumption DEF Runs, GoesOn
<1>5. WorldOK' /\ HandlersOK'
  BY <1>3, <1>4, GoesOnOK
<1> QED
  BY <1>5 DEF Goal, StaleIsAnnounced, Blame

\* A macro that fetches either has tries left to look at what it got, or ends with what
\* the handler is told (MacroEnsureEntityExists, MacroEnsureRefExists,
\* MacroEnsureRefDeleted).
LEMMA MacroFetchKeeps ==
    ASSUME IInv, NEW o \in Ops, GoesOn(o), MacroFetch(o), NEW fresh \in BOOLEAN, Noted(fresh),
           NEW x, Blame(x)
    PROVE  Goal'
<1>1. RemoteOK /\ CloneOK /\ GitOK /\ CmdOK /\ git \in Runs
  BY DEF IInv, WorldOK, GitOK, GoesOn
<1>2. /\ git.at = "command" /\ Macro(Cmd(o)) /\ git.tries > 0
      /\ git' = [git EXCEPT !.tries = @ - 1]
      /\ IF Cmd(o).name = "ensure" THEN clone' = Fetch(clone, Cmd(o).ref)
         ELSE clone' = FetchPrune(clone)
  BY DEF MacroFetch, At
<1>3. Grown(clone, clone')
  BY <1>1, <1>2, FetchGrows, FetchPruneGrows DEF CmdOK, Cmd
<1>4. /\ git' \in Runs /\ git'.refresh = git.refresh /\ git'.tries < RETRY_COUNT
  <2>1. git.tries \in 0 .. RETRY_COUNT /\ RETRY_COUNT \in Nat
    BY <1>1, LocalGitAssumption DEF Runs
  <2>2. git.tries - 1 \in 0 .. RETRY_COUNT /\ git.tries - 1 < RETRY_COUNT
    BY <1>2, <2>1
  <2> QED
    BY <1>1, <1>2, <2>2 DEF Runs
<1>5. ~Refilled
  BY <1>2 DEF Refilled
<1>6. WorldOK' /\ HandlersOK'
  BY <1>3, <1>4, <1>5, GoesOnOK
<1>7. Announced'
  BY <1>2, <1>4 DEF Announced, GoesOn, esVars, Cmd
<1> QED
  BY <1>6, <1>7 DEF Goal, StaleIsAnnounced

\* A command that fails is tried again, or the clone is emptied and the command is run
\* once more (LocalGitFactoryImpl.execute).
LEMMA AttemptFailsKeeps ==
    ASSUME IInv, NEW o \in Ops, GoesOn(o), AttemptFails(o), NEW fresh \in BOOLEAN, Noted(fresh),
           git' # None /\ git'.refresh /\ git'.at = "init" => fresh,
           NEW x, Blame(x),
           fresh \/ git.at = "init" \/ Partial(o) # clone => x # "none"
    PROVE  Goal'
<1>1. /\ ESInv /\ RemoteOK /\ CloneOK /\ GitOK /\ git \in Runs /\ HandlersOK /\ StaleIsAnnounced
      /\ h \in [Handlers -> States]
  BY DEF IInv, WorldOK, GitOK, GoesOn, HandlersOK
<1>2. CASE Retry /\ clone' = Partial(o)
  <2>1. git.retries > 0 /\ git' = Start(git.at, git.retries - 1, git.refresh)
    BY <1>2 DEF Retry
  <2>2. /\ git.at \in {"init", "command"} /\ git.retries - 1 \in 0 .. GIT_RETRY_COUNT
        /\ git.refresh \in BOOLEAN
    BY <1>1, <2>1, LocalGitAssumption DEF Runs
  <2>3. git' \in Runs /\ git'.at = git.at /\ git'.refresh = git.refresh /\ git' # None
    BY <2>1, <2>2, StartIsRun, NoneIsNoRun
  <2>4. Grown(clone, clone')
    BY <1>1, <1>2, PartialGrows
  <2>5. Refilled => Refilled'
    BY <2>3 DEF Refilled
  <2>6. WorldOK' /\ HandlersOK'
    BY <2>3, <2>4, <2>5, GoesOnOK
  <2>7. ASSUME x = "none" PROVE StaleIsAnnounced'
    <3>1. clone' = clone /\ git.at # "init"
      BY <1>2, <2>7
    <3>2. Announced => Announced'
      <4>1. CASE Told
        BY <1>1, <4>1, ToldStays DEF Announced, Told
      <4>2. ASSUME NEW q \in Ops, promise[q] = "running", Macro(Cmd(q)) PROVE Announced'
        <5>1. q = o
          BY <1>1, <4>2, OneRuns DEF GoesOn
        <5>2. UsesConnection(o) \/ CannotSucceed(o)
          BY DEF AttemptFails
        <5>3. ~Ensured(clone, Cmd(o))
          BY <3>1, <4>2, <5>1, <5>2 DEF UsesConnection, CannotSucceed, Macro
        <5> QED
          BY <3>1, <4>2, <5>1, <5>3 DEF Announced, GoesOn, esVars, Cmd, Ensured, Exists
      <4> QED
        BY <4>1, <4>2 DEF Announced, Told
    <3> QED
      BY <1>1, <3>1, <3>2 DEF StaleIsAnnounced, Blame, GoesOn
  <2>8. ASSUME x # "none" PROVE StaleIsAnnounced'
    BY <2>8 DEF StaleIsAnnounced, Blame
  <2> QED
    BY <2>6, <2>7, <2>8 DEF Goal
<1>3. CASE Refresh
  <2>1. clone' = Empty /\ git' = Start("init", GIT_RETRY_COUNT, TRUE)
    BY <1>3 DEF Refresh
  <2>2. git' \in Runs /\ git'.at = "init" /\ git'.refresh /\ git' # None
    <3>1. "init" \in {"init", "command"} /\ GIT_RETRY_COUNT \in 0 .. GIT_RETRY_COUNT /\ TRUE \in BOOLEAN
      BY LocalGitAssumption
    <3>2. /\ Start("init", GIT_RETRY_COUNT, TRUE) \in Runs
          /\ Start("init", GIT_RETRY_COUNT, TRUE).at = "init"
          /\ Start("init", GIT_RETRY_COUNT, TRUE).refresh = TRUE
      BY <3>1, StartIsRun
    <3> QED
      BY <2>1, <3>2, NoneIsNoRun
  <2>3. fresh /\ Refilled' /\ clone'.main = 0
    BY <2>1, <2>2, EmptyIsNothing DEF Refilled
  <2>4. WorldOK' /\ HandlersOK'
    BY <2>1, <2>2, <2>3, GoesOnOK
  <2> QED
    BY <2>3, <2>4 DEF Goal, StaleIsAnnounced, Blame
<1> QED
  BY <1>2, <1>3 DEF AttemptFails

\* A step of git that does not end a command.
LEMMA GitStepKeeps == ASSUME IInv, NEW o \in Ops, GitStep(o) PROVE Goal'
<1> DEFINE fresh == git' # None /\ git'.refresh /\ git'.at = "init"
           init == git # None /\ git.at = "init"
           half == git # None /\ Partial(o) # clone
           x == CASE fresh \/ init -> "fresh clone"
                  [] half -> "pruned in part"
                  [] OTHER -> "none"
<1>0. Noted(git' # None /\ git'.refresh /\ git'.at = "init")
  BY DEF GitStep, Noted
<1>1. Blame(x) /\ UNCHANGED <<stream, op, model>>
  BY DEF GitStep
<1>2. fresh \/ init \/ half => x # "none"
  OBVIOUS
<1>3. CASE CanBegin(o)
  <2>1. ~Doomed /\ BeginCommand(o)
    BY <1>3 DEF GitStep
  <2>2. Noted(fresh = TRUE)
    BY <1>0 DEF Noted
  <2> HIDE DEF x, fresh
  <2> QED
    BY <1>1, <1>3, <2>1, <2>2, BeginCommandKeeps
<1>4. CASE ~CanBegin(o)
  <2>1. /\ promise[o] = "running" /\ Quiet
        /\ InitFetch(o) \/ MacroFetch(o) \/ AttemptFails(o)
    BY <1>4 DEF GitStep
  <2>2. /\ git # None
        /\ UNCHANGED <<esVars, remote, cmd>>
    BY <2>1 DEF InitFetch, MacroFetch, AttemptFails, At
  <2>3. GoesOn(o)
    BY <1>1, <2>1, <2>2, DoomedIsNotQuiet DEF GoesOn
  <2>4. Noted(fresh = TRUE)
    BY <1>0 DEF Noted
  <2>5. fresh => (fresh = TRUE)
    OBVIOUS
  <2>6. (fresh = TRUE) => fresh
    OBVIOUS
  <2>7. CASE InitFetch(o)
    <3>1. x # "none"
      BY <1>2, <2>2, <2>7 DEF InitFetch, At
    <3> HIDE DEF x, fresh
    <3> QED
      BY <1>1, <2>3, <2>4, <2>7, <3>1, InitFetchKeeps
  <2>8. CASE MacroFetch(o)
    <3> HIDE DEF x, fresh
    <3> QED
      BY <1>1, <2>3, <2>4, <2>8, MacroFetchKeeps
  <2>9. CASE AttemptFails(o)
    <3>1. fresh \/ git.at = "init" \/ Partial(o) # clone => x # "none"
      BY <1>2, <2>2
    <3> DEFINE f == fresh = TRUE
    <3>2. f \in BOOLEAN /\ Noted(f) /\ (git' # None /\ git'.refresh /\ git'.at = "init" => f)
      BY <2>4
    <3>3. f \/ git.at = "init" \/ Partial(o) # clone => x # "none"
      BY <3>1
    <3> HIDE DEF x, fresh, f
    <3> QED
      BY <1>1, <2>3, <2>9, <3>2, <3>3, AttemptFailsKeeps
  <2> QED
    BY <2>1, <2>7, <2>8, <2>9
<1> QED
  BY <1>3, <1>4

-----------------------------------------------------------------------------
\* The process ends and is started again.

\* A process that ends forgets its handlers and its chain, and may lose the clone.
LEMMA ProcessEndsKeeps ==
    ASSUME IInv, NEW kept \in BOOLEAN, NEW left, Grown(clone, left), ProcessEnds(kept, left)
    PROVE  Goal'
<1>1. /\ RemoteOK /\ CloneOK /\ FileOK /\ StreamOK /\ ModelOK /\ HandlersOK
  BY DEF IInv, WorldOK
<1>2. /\ Forget /\ clone' = (IF kept THEN left ELSE NoClone) /\ git' = None
      /\ cmd' = [o \in Ops |-> NoCmd] /\ remote' = remote
      /\ op' = [p \in Handlers |-> None] /\ UNCHANGED <<stream, model>>
      /\ h' = [p \in Handlers |-> IF h[p].stage \in Ended THEN Idle
                                  ELSE [Idle EXCEPT !.stage = "lost"]]
      /\ Blame("restart")
  BY DEF ProcessEnds, GitRestart
<1>3. RemoteOK' /\ StreamOK' /\ ModelOK'
  BY <1>1, <1>2 DEF RemoteOK, StreamOK, ModelOK
<1>4. CloneOK' /\ FileOK'
  <2>1. CASE clone' = left
    <3>1. /\ left \in Clones /\ left.main \in {clone.main, remote.main}
          /\ left.main <= left.have /\ left.have <= remote.main
      BY DEF Grown
    <3> QED
      BY <1>1, <1>2, <2>1, <3>1 DEF CloneOK, FileOK
  <2>2. CASE clone' = NoClone
    BY <1>1, <1>2, <2>2, EmptyIsOK
  <2> QED
    BY <1>2, <2>1, <2>2
<1>5. GitOK'
  <2>1. \A o \in Ops : promise'[o] = "unused"
    BY <1>2 DEF Forget
  <2> QED
    BY <1>2, <2>1 DEF GitOK
<1>6. CmdOK'
  BY <1>2 DEF CmdOK, NoCmd, CommandNames, Names
<1>7. ASSUME NEW p \in Handlers PROVE h'[p] \in States /\ EachOK(p)'
  <2>1. "done" \in Ended /\ "lost" \in Ended
    BY DEF Ended
  <2>2. op'[p] = None
    BY <1>2
  <2>3. h'[p] = [Idle EXCEPT !.stage = "done"] \/ h'[p] = [Idle EXCEPT !.stage = "lost"]
    <3>1. h'[p] = Idle \/ h'[p] = [Idle EXCEPT !.stage = "lost"]
      BY <1>2
    <3>2. Idle = [Idle EXCEPT !.stage = "done"]
      BY IdleIsState
    <3> QED
      BY <3>1, <3>2
  <2> QED
    BY <1>3, <2>1, <2>2, <2>3, EndedOK
<1>8. h' \in [Handlers -> States]
  BY <1>2, <1>7
<1>9. StaleIsAnnounced'
  BY <1>2 DEF StaleIsAnnounced, Blame
<1> QED
  BY <1>3, <1>4, <1>5, <1>6, <1>7, <1>8, <1>9 DEF Goal, WorldOK, HandlersOK

LEMMA RestartKeeps == ASSUME IInv, NEW kept \in BOOLEAN, Restart(kept) PROVE Goal'
<1>1. Grown(clone, clone)
  BY DEF IInv, WorldOK, RemoteOK, CloneOK, Clones, Grown
<1>2. ProcessEnds(kept, clone)
  BY DEF Restart
<1> QED
  BY <1>1, <1>2, ProcessEndsKeeps

\* A prune that fails may leave what it fetched.
LEMMA PruneRejectedKeeps ==
    ASSUME IInv, NEW kept \in BOOLEAN, NEW p \in Handlers, PruneRejected(p, kept)
    PROVE  Goal'
<1>1. RemoteOK /\ CloneOK
  BY DEF IInv, WorldOK
<1>2. Grown(clone, Partial(op[p])) /\ ProcessEnds(kept, Partial(op[p]))
  BY <1>1, PartialGrows DEF PruneRejected
<1> QED
  BY <1>2, ProcessEndsKeeps

-----------------------------------------------------------------------------
\* A command ends, and the handler that waited for it goes on.

Ends(p, v) ==
    /\ Own(p) /\ git # None
    /\ Settle(op[p], v) /\ git' = None
    /\ cmd' = [cmd EXCEPT ![op[p]] = NoCmd]
    /\ op' = [op EXCEPT ![p] = None]

\* What holds when a command is about to end.
LEMMA EndsFacts ==
    ASSUME IInv, NEW p \in Handlers, NEW v \in {"fulfilled", "rejected"}, Ends(p, v)
    PROVE  /\ ESInv /\ OpTypeOK /\ RemoteOK /\ CloneOK /\ FileOK /\ CmdOK /\ StreamOK /\ ModelOK
           /\ git \in Runs /\ h \in [Handlers -> States] /\ h[p] \in States
           /\ EachOK(p) /\ HandlerOK(p) /\ WaitsOK(p) /\ PushOK(p) /\ EnsuredOK(p) /\ ReadOK(p)
           /\ op[p] \in Ops /\ op[p] # None /\ promise[op[p]] = "running" /\ op'[p] = None
           /\ ~Doomed /\ Quiet /\ git' = None /\ StaleIsAnnounced
<1>1. /\ ESInv /\ OpTypeOK /\ RemoteOK /\ CloneOK /\ FileOK /\ CmdOK /\ StreamOK /\ ModelOK
      /\ GitOK /\ HandlersOK /\ StaleIsAnnounced
  BY DEF IInv, WorldOK
<1>2. git \in Runs /\ op[p] # None /\ promise[op[p]] = "running" /\ Quiet /\ ~Doomed /\ git' = None
  BY <1>1, DoomedIsNotQuiet DEF GitOK, Ends, Own
<1>3. op[p] \in Ops /\ op'[p] = None
  BY <1>1, <1>2 DEF Ends, OpTypeOK
<1> QED
  BY <1>1, <1>2, <1>3 DEF HandlersOK, EachOK

\* When a command ends, whoever else waits keeps what it relies on; if it was rejected
\* in the middle of a fresh clone, the process ends with them.
LEMMA EndsKeep ==
    ASSUME IInv, NEW p \in Handlers, NEW v \in {"fulfilled", "rejected"}, Ends(p, v),
           RemoteOK', CloneOK', FileOK', StreamOK', ModelOK', Grows,
           h' \in [Handlers -> States], EachOK(p)',
           \A q \in Handlers \ {p} : Same(q) /\ FileGoesOn(q),
           Refilled => v = "rejected"
    PROVE  WorldOK' /\ HandlersOK'
<1>1. /\ ESInv /\ OpTypeOK /\ RemoteOK /\ CloneOK /\ FileOK /\ CmdOK /\ HandlersOK
      /\ op[p] \in Ops /\ op[p] # None /\ promise[op[p]] = "running" /\ ~Doomed /\ Quiet
      /\ git' = None /\ WaitsOK(p)
  BY EndsFacts DEF IInv
<1>2. /\ promise' = [promise EXCEPT ![op[p]] = v]
      /\ cmd' = [cmd EXCEPT ![op[p]] = NoCmd] /\ op' = [op EXCEPT ![p] = None]
  BY DEF Ends, Settle
<1>3. /\ promise'[op[p]] = v
      /\ \A o \in Ops \ {op[p]} : promise'[o] = promise[o] /\ cmd'[o] = cmd[o]
  BY <1>1, <1>2 DEF ESInv, ESTypeOK, CmdOK
<1>4. GitOK'
  <2>1. \A o \in Ops : promise'[o] # "running"
    BY <1>1, <1>3, OneRuns
  <2> QED
    BY <1>1, <2>1 DEF GitOK
<1>5. CmdOK'
  <2>1. /\ NoCmd \in [name : CommandNames, ref : Names \cup {"meta"}, sha : Nat]
        /\ NoCmd.name = "none"
    BY DEF NoCmd, CommandNames, Names
  <2>2. cmd' \in [Ops -> [name : CommandNames, ref : Names \cup {"meta"}, sha : Nat]]
    BY <1>1, <1>2, <2>1 DEF CmdOK
  <2>3. cmd'[op[p]] = NoCmd
    BY <1>1, <1>2 DEF CmdOK
  <2> QED
    BY <1>1, <1>3, <2>1, <2>2, <2>3 DEF CmdOK
<1>6. ASSUME NEW q \in Handlers, q # p PROVE EachOK(q)'
  <2>1. WaitsOK(q) /\ h[q] \in States
    BY <1>1 DEF HandlersOK, EachOK
  <2>2. op[q] # None => op[q] \in Ops \ {op[p]} /\ Open(op[q])
    BY <1>1, <1>6, <2>1, OpsAreOwn, OpsAreOps DEF WaitsOK
  <2>3. Stays(q)
    BY <1>1, <1>2, <1>3, <1>6, <2>2 DEF Stays, Open, OpTypeOK
  <2>4. op[q] # None => promise'[op[q]] # "running"
    BY <1>1, <1>3, <2>2, OneRuns
  <2>5. h[q].stage = "values" /\ Refilled => Doomed'
    <3> SUFFICES ASSUME h[q].stage = "values", Refilled PROVE Doomed'
      OBVIOUS
    <3>1. op[q] # None
      BY <1>1 DEF Quiet, Commands
    <3>2. Settle(op[p], "rejected")
      BY DEF Ends
    <3> QED
      BY <1>1, <2>2, <3>1, <3>2, RejectionDooms
  <2> QED
    BY <1>1, <1>6, <2>3, <2>4, <2>5, BystanderOK
<1> QED
  BY <1>4, <1>5, <1>6 DEF WorldOK, HandlersOK

\* The same, when the repository stays as it is and the other handlers too.
LEMMA EndsAlone ==
    ASSUME IInv, NEW p \in Handlers, NEW v \in {"fulfilled", "rejected"}, Ends(p, v),
           UNCHANGED <<remote, stream, model>>, Grown(clone, clone'),
           h' \in [Handlers -> States], Others(p), EachOK(p)',
           Refilled => v = "rejected"
    PROVE  WorldOK' /\ HandlersOK'
<1>1. /\ RemoteOK /\ CloneOK /\ FileOK /\ StreamOK /\ ModelOK /\ h \in [Handlers -> States]
  BY EndsFacts
<1>2. RemoteOK' /\ StreamOK' /\ ModelOK'
  BY <1>1 DEF RemoteOK, StreamOK, ModelOK
<1>3. Grows /\ CloneOK' /\ FileOK'
  BY <1>1, GrownIsOK
<1>4. ASSUME NEW q \in Handlers \ {p} PROVE Same(q) /\ FileGoesOn(q)
  <2>1. h'[q] = h[q] /\ h[q] \in States
    BY <1>1 DEF Others
  <2>2. remote' = remote /\ remote.main <= remote.main
    BY <1>1 DEF RemoteOK
  <2> QED
    BY <2>1, <2>2 DEF Same, FileGoesOn
<1> QED
  BY <1>2, <1>3, <1>4, EndsKeep

\* A clone that was only read is as good as before.
LEMMA CloneIsGrown == ASSUME RemoteOK, CloneOK, clone' = clone PROVE Grown(clone, clone')
BY DEF RemoteOK, CloneOK, Clones, Grown

\* Whoever was told stays told, when the handler whose command ends was not.
LEMMA AnnouncedByOthers ==
    ASSUME IInv, NEW p \in Handlers, NEW v \in {"fulfilled", "rejected"}, Ends(p, v), Others(p),
           ~(Macro(Cmd(op[p])) /\ (git.tries < RETRY_COUNT \/ ~Ensured(clone, Cmd(op[p])))),
           Announced
    PROVE  Announced'
<1>1. ESInv /\ op[p] \in Ops /\ op[p] # None /\ promise[op[p]] = "running" /\ WaitsOK(p)
  BY EndsFacts
<1>2. h[p].stage \notin {"fire", "fire again"}
  BY <1>1 DEF WaitsOK, Commands
<1>3. Told
  BY <1>1, OneRuns DEF Announced, Told
<1>4. Told'
  BY <1>2, <1>3 DEF Told, Others
<1> QED
  BY <1>4 DEF Told, Announced

\* A ref was ensured: the handler goes on, and fires the listeners if something was
\* fetched for it (SourceCacheImpl.handleEnsureResult).
LEMMA EnsureEndsKeeps == ASSUME IInv, NEW p \in Handlers, EnsureEnds(p) PROVE Goal'
<1> DEFINE found == EnsureResult(op[p]) # "not_found"
           next == AfterEnsure(p)
<1>1. /\ Ends(p, "fulfilled") /\ UNCHANGED <<remote, clone, stream, model>>
      /\ git.at = "command" /\ Macro(Cmd(op[p]))
      /\ git.tries = 0 \/ Ensured(clone, Cmd(op[p]))
      /\ ~found => OnError(p)
      /\ found => h' = [h EXCEPT ![p] = IF next = "done" THEN Idle
                                  ELSE [h[p] EXCEPT !.stage = next, !.replaced = FALSE]]
      /\ Blame(IF EnsureResult(op[p]) = "not_found" THEN "not found" ELSE "none")
  BY DEF EnsureEnds, MacroDone, At, Resolve, Back, Ends, Own
<1>2. /\ RemoteOK /\ CloneOK /\ git \in Runs /\ h \in [Handlers -> States] /\ h[p] \in States
      /\ HandlerOK(p) /\ WaitsOK(p) /\ PushOK(p) /\ op[p] # None /\ op'[p] = None
      /\ StaleIsAnnounced
  BY <1>1, EndsFacts
<1>3. RemoteOK' /\ Grown(clone, clone') /\ ~Refilled /\ remote.main <= remote'.main
  <2>1. remote' = remote /\ remote.main \in Nat
    BY <1>1, <1>2 DEF RemoteOK
  <2>2. RemoteOK'
    BY <1>2, <2>1 DEF RemoteOK
  <2>3. Grown(clone, clone')
    BY <1>1, <1>2, CloneIsGrown
  <2>4. ~Refilled
    BY <1>1 DEF Refilled
  <2> QED
    BY <2>1, <2>2, <2>3, <2>4
<1>4. h[p].stage \in {"ensure", "deleted"}
  BY <1>1, <1>2, StageOfCommand DEF Macro
<1>5. found => git.tries # 0 /\ Ensured(clone, Cmd(op[p]))
  BY <1>1 DEF EnsureResult
<1>6. next \in {"fire", "isActive", "done"}
  BY DEF AfterEnsure
<1>7. h' \in [Handlers -> States] /\ Others(p) /\ EachOK(p)'
  <2>1. CASE ~found
    BY <1>1, <1>2, <1>3, <2>1, OnErrorMoves
  <2>2. CASE found /\ next = "done"
    <3>1. h' = [h EXCEPT ![p] = Idle]
      BY <1>1, <2>2
    <3>2. h' \in [Handlers -> States] /\ Others(p) /\ h'[p] = Idle
      BY <1>2, <3>1, IdleIsState DEF Others
    <3>3. h'[p] = [Idle EXCEPT !.stage = "done"] /\ "done" \in Ended
      BY <3>2, IdleIsState DEF Ended
    <3> QED
      BY <1>2, <1>3, <3>2, <3>3, EndedOK
  <2>3. CASE found /\ next # "done"
    <3> DEFINE r == [h[p] EXCEPT !.stage = next, !.replaced = FALSE]
    <3>1. h' = [h EXCEPT ![p] = r]
      BY <1>1, <2>3
    <3>2. next \in Stages /\ next \in {"fire", "isActive"}
      BY <1>6, <2>3 DEF Stages, Commands
    <3>3. /\ r \in States /\ r.kind = h[p].kind /\ r.ref = h[p].ref /\ r.sha = h[p].sha
          /\ r.stage = next /\ r.again = h[p].again
      BY <1>2, <3>2 DEF States
    <3> HIDE DEF r
    <3>4. h' \in [Handlers -> States] /\ Others(p) /\ h'[p] = r
      BY <1>2, <3>1, <3>3 DEF Others
    <3>5. h[p].kind \in {"push", "update", "delete"} /\ (h[p].kind = "delete" => h[p].stage = "deleted")
      BY <1>2, <1>4, KindOfStage
    <3>6. h[p].stage = "deleted" => next = "fire"
      BY <2>3 DEF AfterEnsure
    <3>7. next \in StagesOf(h[p].kind)
      BY <3>2, <3>5, <3>6 DEF StagesOf
    <3>8. HandlerOK(p)'
      BY <1>1, <1>2, <3>2, <3>3, <3>4, <3>7 DEF HandlerOK
    <3>9. h[p].stage = "ensure" => Exists(clone, h[p].ref, h[p].sha)
      <4> SUFFICES ASSUME h[p].stage = "ensure" PROVE Exists(clone, h[p].ref, h[p].sha)
        OBVIOUS
      <4>1. Cmd(op[p]).name = "ensure" /\ Cmd(op[p]).ref = h[p].ref /\ Cmd(op[p]).sha = h[p].sha
        BY <1>2, StageOfCommand
      <4>2. (Cmd(op[p]).name = "ensure") = Exists(clone, Cmd(op[p]).ref, Cmd(op[p]).sha)
        BY <1>5, <2>3 DEF Ensured
      <4> QED
        BY <4>1, <4>2
    <3>10. PushOK(p)'
      <4> SUFFICES ASSUME h[p].kind = "push", h[p].ref = Main PROVE Fetched(p)'
        BY <1>2, <3>3, <3>4 DEF PushOK
      <4>1. h[p].stage = "ensure"
        BY <1>2, <1>4, KindOfStage
      <4>2. h[p].ref \notin Tags /\ h[p].ref \notin Changes
        BY LocalGitAssumption
      <4>3. h[p].sha <= clone.main
        BY <3>9, <4>1, <4>2 DEF Exists
      <4>4. h[p].sha \in Nat /\ clone.main \in Nat
        BY <1>2 DEF States, CloneOK, Clones
      <4> QED
        BY <1>1, <3>3, <3>4, <4>3, <4>4 DEF Fetched
    <3>11. EnsuredOK(p)'
      <4> SUFFICES ASSUME h[p].kind \in {"push", "update"} PROVE Exists(clone', h[p].ref, h[p].sha)
        BY <3>3, <3>4 DEF EnsuredOK
      <4>1. h[p].stage = "ensure"
        BY <1>2, <1>4, KindOfStage
      <4> QED
        BY <1>1, <3>9, <4>1
    <3>12. EachOK(p)'
      BY <1>2, <3>2, <3>3, <3>4, <3>8, <3>10, <3>11 DEF EachOK, WaitsOK, ReadOK
    <3> QED
      BY <3>4, <3>12
  <2> QED
    BY <2>1, <2>2, <2>3
<1>8. WorldOK' /\ HandlersOK'
  BY <1>1, <1>3, <1>7, EndsAlone
<1>9. StaleIsAnnounced'
  <2>1. CASE ~found
    BY <1>1, <2>1 DEF StaleIsAnnounced, Blame
  <2>2. CASE found /\ next = "fire"
    <3>0. "fire" \in Stages
      BY DEF Stages
    <3>2. h'[p] = [h[p] EXCEPT !.stage = "fire", !.replaced = FALSE]
      BY <1>1, <1>2, <2>2
    <3>1. h'[p].stage = "fire"
      BY <1>2, <3>0, <3>2 DEF States
    <3> QED
      BY <3>1 DEF StaleIsAnnounced, Announced
  <2>3. CASE found /\ next # "fire"
    <3>1. git.tries = RETRY_COUNT
      BY <2>3 DEF AfterEnsure, EnsureResult
    <3>2. ~(git.tries < RETRY_COUNT)
      BY <3>1, LocalGitAssumption
    <3>3. Announced => Announced'
      BY <1>1, <1>5, <1>7, <2>3, <3>2, AnnouncedByOthers
    <3> QED
      BY <1>1, <1>2, <3>3 DEF StaleIsAnnounced, Blame, ModelOf
  <2> QED
    BY <2>1, <2>2, <2>3
<1> QED
  BY <1>8, <1>9 DEF Goal

\* Everything was fetched, which the handler announces, or pruned, which it does not
\* (SourceCacheImpl.fetchAllDefaults, prune).
LEMMA FetchEndsKeeps == ASSUME IInv, NEW p \in Handlers, FetchEnds(p) PROVE Goal'
<1> DEFINE next == IF h[p].stage = "fetchAll" THEN "fire again" ELSE "done"
<1>1. /\ Ends(p, "fulfilled") /\ UNCHANGED <<remote, stream, model>> /\ git.at = "command"
      /\ \/ Cmd(op[p]).name = "fetchAll" /\ clone' = FetchDefaultRemotes(clone)
         \/ Cmd(op[p]).name = "prune" /\ clone' = FetchPrune(clone)
      /\ To(p, next)
      /\ Blame(IF h[p].stage = "prune" THEN "prune" ELSE "none")
  BY DEF FetchEnds, FetchDone, At, Resolve, Back, Ends, Own
<1>2. /\ RemoteOK /\ CloneOK /\ h \in [Handlers -> States] /\ h[p] \in States
      /\ HandlerOK(p) /\ WaitsOK(p) /\ op[p] # None /\ op'[p] = None
  BY <1>1, EndsFacts
<1>3. Grown(clone, clone') /\ clone'.main = remote.main /\ RemoteOK' /\ ~Refilled
  BY <1>1, <1>2, FetchDefaultRemotesGrows, FetchPruneGrows DEF RemoteOK, Refilled
<1>4. h[p].stage \in {"fetchAll", "prune"}
  BY <1>1, <1>2, StageOfCommand
<1>5. h' \in [Handlers -> States] /\ Others(p) /\ EachOK(p)' /\ h'[p].stage = next
  <2>1. CASE h[p].stage = "fetchAll"
    <3>1. "fire again" \in Stages /\ "fire again" \notin Ended
      BY DEF Stages, Ended
    <3>2. h' \in [Handlers -> States] /\ Others(p) /\ h'[p] = [h[p] EXCEPT !.stage = "fire again"]
      BY <1>1, <1>2, <2>1, <3>1, ToMoves
    <3>3. /\ h'[p].stage = "fire again" /\ h'[p].kind = h[p].kind /\ h'[p].ref = h[p].ref
          /\ h'[p].sha = h[p].sha
      BY <1>2, <3>1, <3>2, StageIs
    <3>4. h[p].kind = "push"
      BY <1>2, <2>1, KindOfStage
    <3>5. HandlerOK(p)'
      BY <1>1, <1>2, <3>3, <3>4 DEF HandlerOK, StagesOf
    <3>6. Fetched(p)'
      BY <1>1, <1>2, <1>3, <3>3 DEF Fetched, HandlerOK
    <3> QED
      BY <1>2, <2>1, <3>2, <3>3, <3>5, <3>6 DEF EachOK, WaitsOK, PushOK, EnsuredOK, ReadOK
  <2>2. CASE h[p].stage = "prune"
    <3>1. "done" \in Stages /\ "done" \in Ended
      BY DEF Stages, Ended
    <3>2. h' \in [Handlers -> States] /\ Others(p) /\ h'[p] = [Idle EXCEPT !.stage = "done"]
      BY <1>1, <1>2, <2>2, <3>1, ToMoves
    <3>3. h'[p].stage = "done"
      BY <3>2, IdleIsState
    <3> QED
      BY <1>2, <1>3, <2>2, <3>1, <3>2, <3>3, EndedOK
  <2> QED
    BY <1>4, <2>1, <2>2
<1>6. WorldOK' /\ HandlersOK'
  BY <1>1, <1>3, <1>5, EndsAlone
<1>7. StaleIsAnnounced'
  <2>1. CASE h[p].stage = "fetchAll"
    BY <1>5, <2>1 DEF StaleIsAnnounced, Announced
  <2>2. CASE h[p].stage = "prune"
    BY <1>1, <2>2 DEF StaleIsAnnounced, Blame
  <2> QED
    BY <1>4, <2>1, <2>2
<1> QED
  BY <1>6, <1>7 DEF Goal

\* The last attempt of a command failed.
LEMMA RejectedKeeps == ASSUME IInv, NEW p \in Handlers, Rejected(p) PROVE Goal'
<1>1. /\ Ends(p, "rejected") /\ UNCHANGED <<remote, stream, model>>
      /\ clone' = Partial(op[p]) /\ OnError(p) /\ Blame("fetch failed")
  BY DEF Rejected, CommandRejected, CommandFails, Back, Ends, Own
<1>2. /\ RemoteOK /\ CloneOK /\ h \in [Handlers -> States] /\ HandlerOK(p) /\ op'[p] = None
  BY <1>1, EndsFacts
<1>3. Grown(clone, clone')
  BY <1>1, <1>2, PartialGrows
<1>4. RemoteOK' /\ remote.main <= remote'.main
  <2>1. remote' = remote /\ remote.main \in Nat
    BY <1>1, <1>2 DEF RemoteOK
  <2> QED
    BY <1>2, <2>1 DEF RemoteOK
<1>5. h' \in [Handlers -> States] /\ Others(p) /\ EachOK(p)'
  BY <1>1, <1>2, <1>4, OnErrorMoves
<1>6. WorldOK' /\ HandlersOK'
  BY <1>1, <1>3, <1>5, EndsAlone
<1> QED
  BY <1>1, <1>6 DEF Goal, StaleIsAnnounced, Blame

\* A command has read something, and its handler goes on with that.
LEMMA ReadEndsMoves ==
    ASSUME IInv, NEW p \in Handlers, ReadEnds(p)
    PROVE  h' \in [Handlers -> States] /\ Others(p) /\ EachOK(p)'
<1>1. /\ Ends(p, "fulfilled") /\ UNCHANGED <<remote, clone>> /\ git.at = "command"
      /\ Cmd(op[p]).name \in {"entities", "file"}
  BY DEF ReadEnds, ReadDone, At, Resolve, Back, Ends, Own
<1>2. /\ RemoteOK /\ CloneOK /\ FileOK /\ h \in [Handlers -> States] /\ h[p] \in States
      /\ HandlerOK(p) /\ WaitsOK(p) /\ PushOK(p) /\ EnsuredOK(p) /\ ReadOK(p)
      /\ op[p] # None /\ op'[p] = None /\ ~Doomed
  BY <1>1, EndsFacts
<1>3. RemoteOK' /\ remote.main \in Nat /\ ~Refilled
  BY <1>1, <1>2 DEF RemoteOK, Refilled
<1>4. h[p].stage \in {"isActive", "build", "entities", "branch", "values"}
  BY <1>1, <1>2, StageOfCommand DEF WaitsOK, Commands
<1>5. "done" \in Stages /\ "done" \in Ended /\ "ignored" \in Stages /\ "ignored" \in Ended
  BY DEF Stages, Ended
<1>6. ASSUME NEW stage \in {"done", "ignored"}, To(p, stage)
      PROVE  h' \in [Handlers -> States] /\ Others(p) /\ EachOK(p)'
  <2>1. h' \in [Handlers -> States] /\ Others(p) /\ h'[p] = [Idle EXCEPT !.stage = stage]
    BY <1>2, <1>5, <1>6, ToMoves
  <2> QED
    BY <1>2, <1>3, <1>5, <1>6, <2>1, EndedOK
<1>7. CASE h[p].stage = "isActive"
  <2>1. To(p, AfterActive(p))
    BY <1>7 DEF ReadEnds
  <2>2. h[p].kind \in {"push", "update", "delete", "prune"}
    BY <1>2, <1>7, KindOfStage
  <2>3. CASE AfterActive(p) = "done"
    BY <1>6, <2>1, <2>3
  <2>4. CASE AfterActive(p) # "done"
    <3>1. /\ AfterActive(p) \in {"deleted", "prune", "build"}
          /\ AfterActive(p) = "deleted" => h[p].kind = "delete"
          /\ AfterActive(p) = "prune" => h[p].kind = "prune"
          /\ AfterActive(p) = "build" => h[p].kind \in {"push", "update"}
      BY <2>2, <2>4 DEF AfterActive
    <3>2. AfterActive(p) \in Stages /\ AfterActive(p) \notin Ended
      BY <3>1 DEF Stages, Commands, Ended
    <3>3. h' \in [Handlers -> States] /\ Others(p) /\ h'[p] = [h[p] EXCEPT !.stage = AfterActive(p)]
      BY <1>2, <2>1, <3>2, ToMoves
    <3>4. /\ h'[p].stage = AfterActive(p) /\ h'[p].kind = h[p].kind /\ h'[p].ref = h[p].ref
          /\ h'[p].sha = h[p].sha /\ h'[p].replaced = h[p].replaced
      BY <1>2, <3>2, <3>3, StageIs
    <3>5. HandlerOK(p)'
      <4>1. AfterActive(p) \in StagesOf(h[p].kind)
        BY <3>1 DEF StagesOf
      <4> QED
        BY <1>1, <1>2, <3>1, <3>4, <4>1 DEF HandlerOK
    <3>6. PushOK(p)'
      BY <1>1, <1>2, <1>7, <3>4 DEF PushOK, Fetched
    <3>7. EnsuredOK(p)'
      BY <1>1, <1>2, <1>7, <3>4 DEF EnsuredOK
    <3> QED
      BY <1>2, <3>1, <3>3, <3>4, <3>5, <3>6, <3>7 DEF EachOK, WaitsOK, ReadOK
  <2> QED
    BY <2>3, <2>4
<1>8. CASE h[p].stage = "build"
  <2>1. To(p, AfterBuild(p)) /\ AfterBuild(p) \in {"ignored", "register", "done"}
    BY <1>8 DEF ReadEnds, AfterBuild
  <2>2. CASE AfterBuild(p) # "register"
    BY <1>6, <2>1, <2>2
  <2>3. CASE AfterBuild(p) = "register"
    <3>1. h[p].kind = "push"
      BY <2>3 DEF AfterBuild
    <3>2. "register" \in Stages /\ "register" \notin Ended
      BY DEF Stages, Ended
    <3>0. To(p, "register") /\ h \in [Handlers -> States]
      BY <1>2, <2>1, <2>3
    <3>3. h' \in [Handlers -> States] /\ Others(p) /\ h'[p] = [h[p] EXCEPT !.stage = "register"]
      BY <3>0, <3>2, ToMoves
    <3>4. /\ h'[p].stage = "register" /\ h'[p].kind = "push" /\ h'[p].ref = h[p].ref
          /\ h'[p].sha = h[p].sha
      BY <1>2, <3>1, <3>2, <3>3, StageIs
    <3>5. HandlerOK(p)'
      BY <1>1, <1>2, <3>1, <3>4 DEF HandlerOK, StagesOf
    <3>6. PushOK(p)'
      BY <1>1, <1>2, <1>8, <3>1, <3>4 DEF PushOK, Fetched
    <3> QED
      BY <1>2, <3>3, <3>4, <3>5, <3>6 DEF EachOK, WaitsOK, EnsuredOK, ReadOK
  <2> QED
    BY <2>2, <2>3
<1>9. CASE h[p].stage = "entities" /\ clone.main # 0
  <2> DEFINE r == [h[p] EXCEPT !.stage = "set", !.seen = ModelOf(clone)]
  <2>1. h' = [h EXCEPT ![p] = r]
    BY <1>9 DEF ReadEnds
  <2>2. ModelOf(clone) \in Models /\ ModelOf(clone).main \in 1 .. remote.main
    <3>1. clone.main \in Nat /\ clone.tags \in [Tags -> Nat] /\ clone.main <= remote.main
      BY <1>2, <1>3 DEF CloneOK, Clones
    <3> QED
      BY <1>3, <1>9, <3>1 DEF ModelOf, Models
  <2>3. "set" \in Stages
    BY DEF Stages
  <2>4. /\ r \in States /\ r.stage = "set" /\ r.seen = ModelOf(clone) /\ r.kind = h[p].kind
        /\ r.ref = h[p].ref /\ r.sha = h[p].sha
    BY <1>2, <2>2, <2>3 DEF States
  <2> HIDE DEF r
  <2>5. h' \in [Handlers -> States] /\ Others(p) /\ h'[p] = r
    BY <1>2, <2>1, <2>4 DEF Others
  <2>6. h[p].kind = "read"
    BY <1>2, <1>9, KindOfStage
  <2>7. HandlerOK(p)'
    BY <1>1, <1>2, <2>2, <2>4, <2>5, <2>6 DEF HandlerOK, StagesOf
  <2> QED
    BY <1>2, <2>4, <2>5, <2>6, <2>7 DEF EachOK, WaitsOK, PushOK, EnsuredOK, ReadOK
<1>10. CASE h[p].stage = "branch" /\ clone.main # 0
  <2> DEFINE r == [h[p] EXCEPT !.stage = "values", !.sha = clone.main]
  <2>1. h' = [h EXCEPT ![p] = r]
    BY <1>10 DEF ReadEnds
  <2>2. clone.main \in 1 .. remote.main /\ clone.main \in Nat /\ clone.main <= clone.have
    <3>1. clone.main \in Nat /\ clone.have \in Nat
      BY <1>2 DEF CloneOK, Clones
    <3> QED
      BY <1>2, <1>3, <1>10, <3>1 DEF CloneOK
  <2>3. "values" \in Stages
    BY DEF Stages, Commands
  <2>4. /\ r \in States /\ r.stage = "values" /\ r.sha = clone.main /\ r.kind = h[p].kind
        /\ r.ref = h[p].ref
    BY <1>2, <2>2, <2>3 DEF States
  <2> HIDE DEF r
  <2>5. h' \in [Handlers -> States] /\ Others(p) /\ h'[p] = r
    BY <1>2, <2>1, <2>4 DEF Others
  <2>6. h[p].kind = "add"
    BY <1>2, <1>10, KindOfStage
  <2>7. HandlerOK(p)'
    BY <1>1, <1>2, <2>2, <2>4, <2>5, <2>6 DEF HandlerOK, StagesOf
  <2>8. remote.file[remote.main] = remote.file[clone.main]
    BY <1>2, <1>10 DEF FileOK
  <2>9. ReadOK(p)'
    BY <1>1, <2>2, <2>4, <2>5, <2>8 DEF ReadOK
  <2> QED
    BY <1>2, <2>4, <2>5, <2>6, <2>7, <2>9 DEF EachOK, WaitsOK, PushOK, EnsuredOK
<1>11. CASE h[p].stage = "values"
  <2> DEFINE file == IF Readable(clone, Main, h[p].sha) THEN remote.file[h[p].sha] ELSE {}
             seen == file \cup {h[p].ref}
             r == [h[p] EXCEPT !.stage = "update", !.seen = seen]
  <2>1. Extend(p)
    BY <1>11 DEF ReadEnds
  <2>2. CASE To(p, "done")
    BY <1>6, <2>2
  <2>3. CASE ~To(p, "done")
    <3>1. h' = [h EXCEPT ![p] = r]
      BY <2>1, <2>3 DEF Extend
    <3>2. /\ h[p].sha \in 1 .. remote.main /\ h[p].sha <= clone.have
          /\ remote.file[remote.main] \subseteq remote.file[h[p].sha] \cup h[p].missed
      BY <1>2, <1>3, <1>11 DEF ReadOK
    <3>3. Main # "meta" /\ Main \notin Changes
      BY LocalGitAssumption DEF Main
    <3>4. Readable(clone, Main, h[p].sha)
      BY <3>2, <3>3 DEF Readable
    <3>5. h[p].kind = "add" /\ h[p].ref \in Values
      <4>1. h[p].kind = "add"
        BY <1>2, <1>11, KindOfStage
      <4> QED
        BY <1>2, <4>1 DEF HandlerOK, RefsOf
    <3>6. file = remote.file[h[p].sha] /\ file \in SUBSET Values
      <4>1. file = remote.file[h[p].sha]
        BY <3>4
      <4>2. remote.file \in Seq(SUBSET Values) /\ h[p].sha \in 1 .. Len(remote.file)
        BY <1>2, <3>2 DEF RemoteOK
      <4> QED
        BY <4>1, <4>2
    <3>7. seen \in SUBSET Values
      BY <3>5, <3>6
    <3>8. remote.file[remote.main] \subseteq seen \cup h[p].missed
      BY <3>2, <3>6
    <3> HIDE DEF file, seen
    <3>9. "update" \in Stages
      BY DEF Stages, Commands
    <3>10. /\ r \in States /\ r.stage = "update" /\ r.seen = seen /\ r.kind = h[p].kind
           /\ r.ref = h[p].ref /\ r.sha = h[p].sha /\ r.missed = h[p].missed
      BY <1>2, <3>7, <3>9 DEF States
    <3> HIDE DEF r
    <3>11. h' \in [Handlers -> States] /\ Others(p) /\ h'[p] = r
      BY <1>2, <3>1, <3>10 DEF Others
    <3>12. HandlerOK(p)'
      BY <1>1, <1>2, <3>5, <3>10, <3>11 DEF HandlerOK, StagesOf
    <3>13. ReadOK(p)'
      BY <1>1, <3>7, <3>8, <3>10, <3>11 DEF ReadOK
    <3> QED
      BY <1>2, <3>5, <3>10, <3>11, <3>12, <3>13 DEF EachOK, WaitsOK, PushOK, EnsuredOK
  <2> QED
    BY <2>2, <2>3
<1>12. CASE h[p].stage \in {"entities", "branch"} /\ clone.main = 0
  <2>1. To(p, "done")
    BY <1>12 DEF ReadEnds
  <2> QED
    BY <1>6, <2>1
<1> QED
  BY <1>4, <1>7, <1>8, <1>9, <1>10, <1>11, <1>12

\* A command that only reads changes nothing of the clone.
LEMMA ReadEndsKeeps == ASSUME IInv, NEW p \in Handlers, ReadEnds(p) PROVE Goal'
<1>1. /\ Ends(p, "fulfilled") /\ git.at = "command"
      /\ UNCHANGED <<remote, clone, stream, model, blame>>
      /\ Cmd(op[p]).name \in {"entities", "file"}
  BY DEF ReadEnds, ReadDone, At, Resolve, Back, Ends, Own
<1>2. RemoteOK /\ CloneOK /\ StaleIsAnnounced
  BY <1>1, EndsFacts
<1>3. Grown(clone, clone') /\ ~Refilled /\ ~Macro(Cmd(op[p]))
  BY <1>1, <1>2, CloneIsGrown DEF Refilled, Macro
<1>4. h' \in [Handlers -> States] /\ Others(p) /\ EachOK(p)'
  BY ReadEndsMoves
<1>5. WorldOK' /\ HandlersOK'
  BY <1>1, <1>3, <1>4, EndsAlone
<1>6. Announced => Announced'
  BY <1>1, <1>3, <1>4, AnnouncedByOthers
<1>7. StaleIsAnnounced'
  BY <1>1, <1>2, <1>6 DEF StaleIsAnnounced, ModelOf
<1> QED
  BY <1>5, <1>7 DEF Goal

\* What a push adds to the file is noted of every request that has read it.
LEMMA UpdateEndsKeeps == ASSUME IInv, NEW p \in Handlers, UpdateEnds(p) PROVE Goal'
<1> DEFINE n == remote.main + 1
           new == h[p].seen \ remote.file[remote.main]
           e == Event("push", Main, n)
<1>1. /\ Ends(p, "fulfilled") /\ git.at = "command" /\ Cmd(op[p]).name = "update"
      /\ clone.main = remote.main
      /\ remote' = [remote EXCEPT !.main = n, !.file = Append(@, h[p].seen)]
      /\ clone' = [clone EXCEPT !.main = n, !.have = Larger(@, n)]
      /\ stream' = Append(stream, Event("push", Main, remote'.main))
      /\ UNCHANGED model /\ Blame("pushed")
  BY DEF UpdateEnds, UpdateDone, At, Resolve, Ends, Own
<1>2. /\ RemoteOK /\ CloneOK /\ StreamOK /\ ModelOK /\ h \in [Handlers -> States] /\ h[p] \in States
      /\ WaitsOK(p) /\ ReadOK(p) /\ op[p] # None /\ op'[p] = None
  BY <1>1, EndsFacts
<1>3. /\ remote.main \in Nat /\ remote.main >= 1 /\ remote.file \in Seq(SUBSET Values)
      /\ Len(remote.file) = remote.main /\ n \in Nat /\ n > remote.main
  BY <1>2 DEF RemoteOK
<1>4. h[p].stage = "update" /\ h[p].seen \in SUBSET Values
  BY <1>1, <1>2, StageOfCommand DEF ReadOK
<1>5. /\ remote'.main = n /\ remote'.file = Append(remote.file, h[p].seen)
      /\ remote'.tags = remote.tags /\ remote'.changes = remote.changes
  BY <1>1, <1>2 DEF RemoteOK
<1>6. RemoteOK'
  <2>1. remote'.file \in Seq(SUBSET Values) /\ Len(remote'.file) = n
    BY <1>3, <1>4, <1>5
  <2>2. \A t \in Tags : remote'.tags[t] <= n
    BY <1>2, <1>3, <1>5 DEF RemoteOK
  <2>3. remote' \in [main : Nat, tags : [Tags -> Nat], changes : SUBSET Changes,
                     file : Seq(SUBSET Values)]
    <3> DEFINE file == Append(remote.file, h[p].seen)
    <3>1. remote' = [remote EXCEPT !.main = n, !.file = file] /\ file \in Seq(SUBSET Values)
      BY <1>1, <1>2, <1>5, <2>1 DEF RemoteOK
    <3>2. n \in Nat
      BY <1>3
    <3> HIDE DEF file, n
    <3> QED
      BY <1>2, <3>1, <3>2 DEF RemoteOK
  <2> QED
    BY <1>3, <1>5, <2>1, <2>2, <2>3 DEF RemoteOK
<1>7. clone'.main = n /\ clone'.have = n /\ clone'.changes = clone.changes /\ clone' \in Clones
  <2>1. clone.have \in Nat /\ clone.have <= remote.main
    BY <1>2 DEF CloneOK, Clones
  <2>2. Larger(clone.have, n) = n
    BY <1>3, <2>1 DEF Larger
  <2>3. clone' = [clone EXCEPT !.main = n, !.have = n]
    BY <1>1, <2>2
  <2> HIDE DEF n
  <2> QED
    BY <1>2, <1>3, <2>3 DEF CloneOK, Clones
<1>8. CloneOK' /\ FileOK' /\ Grows
  <2>1. clone.have \in Nat /\ clone.have <= n
    BY <1>2, <1>3 DEF CloneOK, Clones
  <2> HIDE DEF n
  <2> QED
    BY <1>3, <1>5, <1>7, <2>1 DEF CloneOK, FileOK, Grows
<1>9. StreamOK'
  <2>1. stream \in Seq(Events(n))
    BY <1>2, <1>3, EventsGrow DEF StreamOK
  <2>2. e \in Events(n)
    BY <1>3 DEF Events, Event
  <2> HIDE DEF n, e
  <2>3. stream' = Append(stream, e)
    BY <1>1, <1>5 DEF e
  <2> QED
    BY <1>5, <2>1, <2>2, <2>3 DEF StreamOK
<1>10. ModelOK'
  BY <1>1, <1>2, <1>3, <1>5 DEF ModelOK
<1>11. /\ h' \in [Handlers -> States] /\ h'[p] = Idle
       /\ \A q \in Handlers \ {p} : h'[q] =
            IF h[q].stage \in {"values", "update"} THEN [h[q] EXCEPT !.missed = @ \cup new] ELSE h[q]
  <2>1. new \in SUBSET Values
    BY <1>4
  <2>2. h' = [q \in Handlers |->
            IF q = p THEN Idle
            ELSE IF h[q].stage \in {"values", "update"}
                 THEN [h[q] EXCEPT !.missed = @ \cup new] ELSE h[q]]
    BY DEF UpdateEnds
  <2> HIDE DEF new
  <2>3. ASSUME NEW q \in Handlers PROVE [h[q] EXCEPT !.missed = @ \cup new] \in States
    <3>1. h[q] \in States /\ h[q].missed \cup new \in SUBSET Values
      BY <1>2, <2>1 DEF States
    <3> QED
      BY <3>1 DEF States
  <2> QED
    BY <1>2, <2>2, <2>3, IdleIsState
<1>12. EachOK(p)'
  <2>1. h'[p] = [Idle EXCEPT !.stage = "done"] /\ "done" \in Ended
    BY <1>11, IdleIsState DEF Ended
  <2> QED
    BY <1>2, <1>6, <2>1, EndedOK
<1>13. ASSUME NEW q \in Handlers \ {p} PROVE Same(q) /\ FileGoesOn(q)
  <2>1. h[q] \in States /\ h'[q] \in States
    BY <1>2, <1>11
  <2>2. CASE h[q].stage \in {"values", "update"}
    <3>1. h'[q] = [h[q] EXCEPT !.missed = @ \cup new]
      BY <1>11, <2>2
    <3> HIDE DEF new
    <3>2. /\ h'[q].kind = h[q].kind /\ h'[q].ref = h[q].ref /\ h'[q].sha = h[q].sha
          /\ h'[q].stage = h[q].stage /\ h'[q].again = h[q].again /\ h'[q].seen = h[q].seen
          /\ h'[q].replaced = h[q].replaced /\ h'[q].missed = h[q].missed \cup new
      BY <2>1, <3>1 DEF States
    <3>3. \A i \in 1 .. remote.main : remote'.file[i] = remote.file[i]
      BY <1>3, <1>5
    <3>4. remote'.file[remote'.main] = h[p].seen
      BY <1>3, <1>5
    <3>5. h[p].seen \subseteq remote.file[remote.main] \cup h'[q].missed
      BY <3>2 DEF new
    <3>6. Same(q)
      BY <2>1, <3>2 DEF Same
    <3>7. remote.main <= remote'.main
      BY <1>3, <1>5
    <3> QED
      BY <3>3, <3>4, <3>5, <3>6, <3>7 DEF FileGoesOn
  <2>3. CASE h[q].stage \notin {"values", "update"}
    <3>1. h'[q] = h[q]
      BY <1>11, <2>3
    <3>2. \A i \in 1 .. remote.main : remote'.file[i] = remote.file[i]
      BY <1>3, <1>5
    <3>3. remote.main <= remote'.main
      BY <1>3, <1>5
    <3> QED
      BY <2>1, <2>3, <3>1, <3>2, <3>3 DEF Same, FileGoesOn
  <2> QED
    BY <2>2, <2>3
<1>14. ~Refilled
  BY <1>1 DEF Refilled
<1>15. WorldOK' /\ HandlersOK'
  BY <1>1, <1>6, <1>8, <1>9, <1>10, <1>11, <1>12, <1>13, <1>14, EndsKeep
<1>16. StaleIsAnnounced'
  BY <1>1 DEF StaleIsAnnounced, Blame
<1> QED
  BY <1>15, <1>16 DEF Goal

-----------------------------------------------------------------------------
\* The invariant holds.

\* A backend that has just cloned, and has handled nothing.
LEMMA InitHolds == Init => IInv
<1> SUFFICES ASSUME Init PROVE IInv
  OBVIOUS
<1>1. ESInv /\ OpTypeOK
  BY ESInitInv DEF Init, OpTypeOK
<1>2. /\ remote = [main |-> 1, tags |-> NoTags, changes |-> {}, file |-> <<{}>>]
      /\ clone = [Empty EXCEPT !.meta = TRUE, !.main = 1, !.have = 1]
      /\ cmd = [o \in Ops |-> NoCmd] /\ git = None
      /\ stream = <<>> /\ h = [p \in Handlers |-> Idle] /\ op = [p \in Handlers |-> None]
      /\ model = None
  BY DEF Init, GitInit
<1>3. RemoteOK
  <2>1. NoTags \in [Tags -> Nat] /\ \A t \in Tags : NoTags[t] = 0
    BY DEF NoTags
  <2>2. <<{}>> \in Seq(SUBSET Values) /\ Len(<<{}>>) = 1
    OBVIOUS
  <2> QED
    BY <1>2, <2>1, <2>2 DEF RemoteOK
<1>4. clone.main = 1 /\ clone.have = 1 /\ remote.main = 1 /\ clone \in Clones
  BY <1>2, EmptyIsNothing DEF Clones
<1>5. CloneOK /\ FileOK
  BY <1>4 DEF CloneOK, FileOK
<1>6. GitOK
  <2>1. \A o \in Ops : promise[o] # "running"
    BY DEF Init, ESInit
  <2> QED
    BY <1>2, <2>1 DEF GitOK
<1>7. CmdOK
  BY <1>2 DEF CmdOK, NoCmd, CommandNames, Names
<1>8. StreamOK /\ ModelOK /\ StaleIsAnnounced
  BY <1>2 DEF StreamOK, ModelOK, StaleIsAnnounced
<1>9. HandlersOK
  <2>1. h \in [Handlers -> States]
    BY <1>2, IdleIsState
  <2>2. ASSUME NEW p \in Handlers PROVE EachOK(p)
    <3>1. h[p] = Idle /\ op[p] = None
      BY <1>2
    <3>2. Idle.kind = "none" /\ Idle.ref = Main /\ Idle.sha = 0 /\ Idle.stage = "done"
      BY DEF Idle
    <3>3. HandlerOK(p)
      BY <1>4, <3>1, <3>2 DEF HandlerOK, StagesOf, RefsOf, Ended
    <3> QED
      BY <3>1, <3>2, <3>3 DEF EachOK, WaitsOK, PushOK, EnsuredOK, ReadOK
  <2> QED
    BY <2>1, <2>2 DEF HandlersOK
<1> QED
  BY <1>1, <1>3, <1>5, <1>6, <1>7, <1>8, <1>9 DEF IInv, WorldOK

\* Every step keeps the invariant.
LEMMA NextKeeps == IInv /\ [Next]_vars => IInv'
<1> SUFFICES ASSUME IInv, [Next]_vars PROVE IInv'
  OBVIOUS
<1>1. OpTypeOK' /\ ESInv'
  BY StepIsServed, ESNextInv DEF IInv
<1>2. Goal'
  <2>1. CASE MergeChange
    BY <2>1, MergeChangeKeeps
  <2>2. CASE \E t \in Tags : CreateTag(t) \/ MoveTag(t) \/ DeleteTag(t)
    BY <2>2, TagsKeep
  <2>3. CASE \E c \in Changes : UploadChange(c)
    BY <2>3, UploadChangeKeeps
  <2>4. CASE \E repeat \in BOOLEAN : LoseEvent(repeat)
    BY <2>4, LoseEventKeeps
  <2>5. CASE \E p \in Handlers : Deliver(p) \/ AskModel(p) \/ AskGit(p)
    BY <2>5, DeliverKeeps, AskModelKeeps, AskGitKeeps
  <2>6. CASE \E p \in Handlers :
                EnsureEnds(p) \/ FetchEnds(p) \/ ReadEnds(p) \/ UpdateEnds(p) \/ Rejected(p)
    BY <2>6, EnsureEndsKeeps, FetchEndsKeeps, ReadEndsKeeps, UpdateEndsKeeps, RejectedKeeps
  <2>7. CASE \E p \in Handlers : FireListeners(p) \/ GetModel(p) \/ SetModel(p) \/ Register(p)
    BY <2>7, FireListenersKeeps, GetModelKeeps, SetModelKeeps, RegisterKeeps
  <2>8. CASE \E p \in Handlers, v \in Values : AddValue(p, v)
    BY <2>8, AddValueKeeps
  <2>9. CASE \E o \in Ops : GitStep(o)
    BY <2>9, GitStepKeeps
  <2>10. CASE \E kept \in BOOLEAN : Restart(kept) \/ \E p \in Handlers : PruneRejected(p, kept)
    BY <2>10, RestartKeeps, PruneRejectedKeeps
  <2>11. CASE UNCHANGED vars
    <3>1. Goal
      BY DEF IInv, Goal
    <3>2. UNCHANGED <<last, after, promise, line, remote, clone, cmd, git, stream, h, op, model, blame>>
      BY <2>11 DEF vars, esVars, gitVars
    <3>3. WorldOK'
      BY <3>1, <3>2 DEF Goal, WorldOK, RemoteOK, CloneOK, FileOK, GitOK, CmdOK, StreamOK, ModelOK
    <3>4. HandlersOK'
      <4>1. ASSUME NEW p \in Handlers PROVE EachOK(p)'
        <5>1. EachOK(p)
          BY <3>1 DEF Goal, HandlersOK
        <5>2. HandlerOK(p)' /\ EnsuredOK(p)'
          BY <3>2, <5>1 DEF EachOK, HandlerOK, EnsuredOK, Exists
        <5>3. WaitsOK(p)'
          BY <3>2, <5>1 DEF EachOK, WaitsOK, Open, Command
        <5>4. PushOK(p)' /\ ReadOK(p)'
          BY <3>2, <5>1 DEF EachOK, PushOK, Fetched, ReadOK, Doomed, Refilled
        <5> QED
          BY <5>2, <5>3, <5>4 DEF EachOK
      <4> QED
        BY <3>1, <3>2, <4>1 DEF Goal, HandlersOK
    <3>5. StaleIsAnnounced'
      BY <3>1, <3>2 DEF Goal, StaleIsAnnounced, Announced, ModelOf, Cmd, Ensured, Exists
    <3> QED
      BY <3>3, <3>4, <3>5 DEF Goal
  <2> QED
    BY <2>1, <2>2, <2>3, <2>4, <2>5, <2>6, <2>7, <2>8, <2>9, <2>10, <2>11 DEF Next
<1> QED
  BY <1>1, <1>2 DEF IInv, Goal

\* The invariant holds in every reachable state: what a handler waits for, what it may
\* rely on in the clone, and who will tell that the model is stale.
THEOREM RepositoriesInvariantHolds == Spec => []IInv
BY InitHolds, NextKeeps, PTL DEF Spec

\* The type invariant is a part of it.
LEMMA InvariantIsTyped == IInv => TypeOK
<1> SUFFICES ASSUME IInv PROVE TypeOK
  OBVIOUS
<1>1. /\ ESInv /\ OpTypeOK /\ RemoteOK /\ CloneOK /\ GitOK /\ ModelOK /\ h \in [Handlers -> States]
  BY DEF IInv, WorldOK, HandlersOK
<1>2. /\ last \in Ops \cup {None} /\ after \in [Ops -> Ops \cup {None}]
      /\ promise \in [Ops -> {"unused", "waiting", "running", "fulfilled", "rejected"}]
  BY <1>1 DEF ESInv, ESTypeOK
<1>3. clone.main \in 0 .. remote.main /\ clone.have \in clone.main .. remote.main
  BY <1>1 DEF RemoteOK, CloneOK, Clones
<1>4. git # None => git.tries \in 0 .. RETRY_COUNT /\ git.retries \in 0 .. GIT_RETRY_COUNT
  BY <1>1 DEF GitOK, Runs
<1>5. \A p \in Handlers : h[p].stage \in Stages
  BY <1>1 DEF States
<1> QED
  BY <1>1, <1>2, <1>3, <1>4, <1>5 DEF TypeOK, OpTypeOK, ModelOK, Stages

\* The clone is never ahead of the repository, has the objects of what it names, and
\* what the handlers, git and Redis keep is of its kind.
THEOREM RepositoriesTypeCorrect == Spec => []TypeOK
BY RepositoriesInvariantHolds, InvariantIsTyped, PTL

\* Every change of the clone is followed by the deletion of the model, but for those
\* that Blame names (RawModelRepository.onUpdate, SourceCacheImpl).
THEOREM StaleIsAnnouncedHolds == Spec => []StaleIsAnnounced
<1>1. IInv => StaleIsAnnounced
  BY DEF IInv
<1> QED
  BY <1>1, RepositoriesInvariantHolds, PTL

-----------------------------------------------------------------------------
\* What a step may never do.

\* The steps of a handler, or the end of the process.
Moves(p) ==
    \/ Deliver(p) \/ AskModel(p) \/ \E v \in Values : AddValue(p, v)
    \/ EnsureEnds(p) \/ FetchEnds(p) \/ ReadEnds(p) \/ UpdateEnds(p) \/ Rejected(p)
    \/ FireListeners(p) \/ GetModel(p) \/ SetModel(p) \/ Register(p)
    \/ \E kept, left : ProcessEnds(kept, left)

\* Nobody else takes a handler from a stage to another.
LEMMA OthersLeave ==
    ASSUME h \in [Handlers -> States], Next, NEW p \in Handlers, h'[p].stage # h[p].stage
    PROVE  Moves(p)
<1> SUFFICES ASSUME ~Moves(p) PROVE h'[p].stage = h[p].stage
  OBVIOUS
<1>1. CASE \/ MergeChange \/ \E t \in Tags : CreateTag(t) \/ MoveTag(t) \/ DeleteTag(t)
           \/ \E c \in Changes : UploadChange(c)
           \/ \E repeat \in BOOLEAN : LoseEvent(repeat)
  BY <1>1 DEF MergeChange, CreateTag, MoveTag, DeleteTag, UploadChange, LoseEvent, Outside
<1>2. CASE \E q \in Handlers :
              Deliver(q) \/ AskModel(q) \/ \E v \in Values : AddValue(q, v)
  <2>1. PICK q \in Handlers : q # p /\ \E e : StartHandler(q, e)
    BY <1>2 DEF Moves, Deliver, AskModel, AddValue
  <2> QED
    BY <2>1 DEF StartHandler
<1>3. CASE \E q \in Handlers : AskGit(q)
  BY <1>3 DEF AskGit
<1>4. CASE \E q \in Handlers : EnsureEnds(q)
  BY <1>4 DEF EnsureEnds, OnError, To, Moves
<1>5. CASE \E q \in Handlers : FetchEnds(q)
  BY <1>5 DEF FetchEnds, To, Moves
<1>6. CASE \E q \in Handlers : ReadEnds(q)
  <2>1. PICK q \in Handlers : ReadEnds(q) /\ q # p
    BY <1>6 DEF Moves
  <2>2. h[q].stage = "values" => h'[p] = h[p]
    BY <2>1 DEF ReadEnds, Extend, To
  <2>3. h[q].stage = "isActive" \/ h[q].stage = "build" => h'[p] = h[p]
    BY <2>1 DEF ReadEnds, To
  <2>4. h[q].stage \notin {"values", "isActive", "build"} => h'[p] = h[p]
    BY <2>1 DEF ReadEnds, To
  <2> QED
    BY <2>2, <2>3, <2>4
<1>7. CASE \E q \in Handlers : UpdateEnds(q)
  <2>1. PICK q \in Handlers : UpdateEnds(q) /\ q # p
    BY <1>7 DEF Moves
  <2> DEFINE missed == h[p].missed \cup (h[q].seen \ remote.file[remote.main])
  <2>2. h'[p] = h[p] \/ h'[p] = [h[p] EXCEPT !.missed = missed]
    BY <2>1 DEF UpdateEnds
  <2> QED
    BY <2>2 DEF States
<1>8. CASE \E q \in Handlers : Rejected(q)
  BY <1>8 DEF Rejected, OnError, To, Moves
<1>9. CASE \E q \in Handlers : FireListeners(q) \/ GetModel(q) \/ SetModel(q)
  BY <1>9 DEF FireListeners, GetModel, SetModel, To, Moves
<1>10. CASE \E q \in Handlers : Register(q)
  BY <1>10 DEF Register, OnError, To, Moves
<1>11. CASE \E o \in Ops : GitStep(o)
  <2>1. h'[p] = h[p] \/ h'[p] = [h[p] EXCEPT !.replaced = TRUE]
    BY <1>11 DEF GitStep
  <2> QED
    BY <2>1 DEF States
<1>12. CASE \E kept \in BOOLEAN : Restart(kept) \/ \E q \in Handlers : PruneRejected(q, kept)
  BY <1>12 DEF Restart, PruneRejected, Moves
<1> QED
  BY <1>1, <1>2, <1>3, <1>4, <1>5, <1>6, <1>7, <1>8, <1>9, <1>10, <1>11, <1>12 DEF Next, Moves

\* A handler that is in the middle of it neither starts nor has come to a Redis step.
LEMMA MovesFromStage ==
    ASSUME IInv, NEW p \in Handlers, Moves(p)
    PROVE  \/ ~Busy(p)
           \/ EnsureEnds(p) /\ h[p].stage \in {"ensure", "deleted"}
           \/ FetchEnds(p) /\ h[p].stage \in {"fetchAll", "prune"}
           \/ ReadEnds(p) /\ h[p].stage \in {"isActive", "build", "entities", "branch", "values"}
           \/ UpdateEnds(p) /\ h[p].stage = "update"
           \/ Rejected(p)
           \/ FireListeners(p) /\ h[p].stage \in {"fire", "fire again"}
           \/ GetModel(p) /\ h[p].stage = "get"
           \/ SetModel(p) /\ h[p].stage = "set"
           \/ Register(p) /\ h[p].stage = "register"
           \/ \E kept, left : ProcessEnds(kept, left)
<1>1. HandlersOK /\ WaitsOK(p)
  BY DEF IInv, HandlersOK, EachOK
<1>2. CASE EnsureEnds(p)
  <2>1. op[p] # None /\ Macro(Cmd(op[p]))
    BY <1>2 DEF EnsureEnds, Own, MacroDone
  <2> QED
    BY <1>1, <1>2, <2>1, StageOfCommand DEF Macro
<1>3. CASE FetchEnds(p)
  <2>1. op[p] # None /\ Cmd(op[p]).name \in {"fetchAll", "prune"}
    BY <1>3 DEF FetchEnds, Own, FetchDone
  <2> QED
    BY <1>1, <1>3, <2>1, StageOfCommand
<1>4. CASE ReadEnds(p)
  <2>1. op[p] # None /\ Cmd(op[p]).name \in {"entities", "file"}
    BY <1>4 DEF ReadEnds, Own, ReadDone
  <2>2. h[p].stage \in Commands
    BY <1>1, <2>1 DEF WaitsOK
  <2> QED
    BY <1>1, <1>4, <2>1, <2>2, StageOfCommand DEF Commands
<1>5. CASE UpdateEnds(p)
  <2>1. op[p] # None /\ Cmd(op[p]).name = "update"
    BY <1>5 DEF UpdateEnds, Own, UpdateDone
  <2> QED
    BY <1>1, <1>5, <2>1, StageOfCommand
<1>6. CASE Deliver(p) \/ AskModel(p) \/ \E v \in Values : AddValue(p, v)
  BY <1>6 DEF Deliver, AskModel, AddValue, StartHandler
<1>7. CASE FireListeners(p) \/ GetModel(p) \/ SetModel(p) \/ Register(p)
  BY <1>7 DEF FireListeners, GetModel, SetModel, Register, Redis
<1> QED
  BY <1>2, <1>3, <1>4, <1>5, <1>6, <1>7 DEF Moves

\* A handler that was in the middle of something is lost with the process.
LEMMA ProcessEndsLoses ==
    ASSUME NEW p \in Handlers, NEW kept, NEW left, ProcessEnds(kept, left), Busy(p)
    PROVE  h'[p].stage = "lost"
<1>1. h'[p] = [Idle EXCEPT !.stage = "lost"]
  BY DEF ProcessEnds, Busy
<1> QED
  BY <1>1 DEF Idle

\* The commit of a change or a branch that was ensured is found when its build.yml is
\* read, unless the clone was replaced in between (LocalGitFactoryImpl.execute,
\* BuildSystemImpl.getBuildConfigIfActive).
THEOREM IgnoredOnlyIfReplacedHolds == Spec => IgnoredOnlyIfReplaced
<1> DEFINE Found == \A p \in Handlers :
        h[p].stage = "build" /\ h'[p].stage = "ignored" /\ h[p].ref \notin Tags => h[p].replaced
<1>1. IInv /\ [Next]_vars => [Found]_vars
  <2> SUFFICES ASSUME IInv, Next, NEW p \in Handlers, h[p].stage = "build",
                      h'[p].stage = "ignored", h[p].ref \notin Tags
               PROVE  h[p].replaced
    OBVIOUS
  <2>1. /\ h \in [Handlers -> States] /\ h[p] \in States /\ HandlerOK(p) /\ EnsuredOK(p)
        /\ RemoteOK /\ CloneOK /\ RemoteOK'
    <3>1. WorldOK'
      BY NextKeeps DEF IInv
    <3> QED
      BY <3>1 DEF IInv, WorldOK, HandlersOK, EachOK
  <2>2. Moves(p) /\ Busy(p)
    BY <2>1, OthersLeave DEF Busy, Ended
  <2>3. ~Rejected(p)
    <3> SUFFICES ASSUME Rejected(p) PROVE h'[p].stage # "ignored"
      OBVIOUS
    <3>1. CASE h[p].kind = "push" /\ ~h[p].again
      <4>1. h' = [h EXCEPT ![p] = [h[p] EXCEPT !.stage = "fetchAll", !.again = TRUE]]
        BY <3>1 DEF Rejected, OnError
      <4> QED
        BY <2>1, <4>1 DEF States
    <3>2. CASE ~(h[p].kind = "push" /\ ~h[p].again)
      <4>1. To(p, "done") /\ "done" \in Ended /\ "done" \in Stages
        BY <3>2 DEF Rejected, OnError, Ended, Stages
      <4>2. h'[p] = [Idle EXCEPT !.stage = "done"]
        BY <2>1, <4>1, ToMoves
      <4> QED
        BY <4>2, IdleIsState
    <3> QED
      BY <3>1, <3>2
  <2>4. ReadEnds(p)
    BY <2>2, <2>3, MovesFromStage, ProcessEndsLoses
  <2>5. To(p, AfterBuild(p))
    BY <2>4 DEF ReadEnds
  <2>6. AfterBuild(p) = "ignored"
    <3>1. AfterBuild(p) \in {"ignored", "register", "done"} /\ AfterBuild(p) \in Stages
      BY DEF AfterBuild, Stages, Ended
    <3>2. CASE AfterBuild(p) = "register"
      <4>1. To(p, "register") /\ "register" \notin Ended /\ "register" \in Stages
        BY <2>5, <3>1, <3>2 DEF Ended
      <4>2. h'[p] = [h[p] EXCEPT !.stage = "register"]
        BY <2>1, <4>1, ToMoves
      <4> QED
        BY <2>1, <4>2 DEF States
    <3>3. CASE AfterBuild(p) = "done"
      <4>1. To(p, "done") /\ "done" \in Ended /\ "done" \in Stages
        BY <2>5, <3>1, <3>3 DEF Ended
      <4>2. h'[p] = [Idle EXCEPT !.stage = "done"]
        BY <2>1, <4>1, ToMoves
      <4> QED
        BY <4>2, IdleIsState
    <3> QED
      BY <3>1, <3>2, <3>3
  <2>7. ~Readable(clone, h[p].ref, h[p].sha)
    BY <2>6 DEF AfterBuild
  <2>8. h[p].kind \in {"push", "update"} /\ h[p].ref \in {Main} \cup Changes /\ h[p].sha \in Nat
    <3>1. h[p].kind \in {"push", "update"}
      BY <2>1, KindOfStage
    <3> QED
      BY <2>1, <3>1 DEF HandlerOK, RefsOf, States
  <2>9. ~Exists(clone, h[p].ref, h[p].sha)
    BY <2>1, <2>7, <2>8, ExistsIsReadable
  <2> QED
    BY <2>1, <2>8, <2>9 DEF EnsuredOK
<1>2. [][Found]_vars => IgnoredOnlyIfReplaced
  BY PTL DEF IgnoredOnlyIfReplaced
<1> QED
  BY <1>1, <1>2, RepositoriesInvariantHolds, PTL DEF Spec

\* A value of the file stays there, unless the one who takes it out had read the file
\* before the push that put it there (MajorsServiceImpl.addValue).
THEOREM OnlyOverlapDropsHolds == Spec => OnlyOverlapDrops
<1> DEFINE Missed == \A v \in remote.file[remote.main] \ remote'.file[remote'.main] :
        \E p \in Handlers : /\ h[p].stage = "update" /\ h'[p].stage = "done"
                            /\ v \in h[p].missed
<1>1. IInv /\ [Next]_vars => [Missed]_vars
  <2> SUFFICES ASSUME IInv, Next,
                      NEW v \in remote.file[remote.main] \ remote'.file[remote'.main]
               PROVE  \E p \in Handlers : /\ h[p].stage = "update" /\ h'[p].stage = "done"
                                          /\ v \in h[p].missed
    BY DEF vars, gitVars
  <2>1. /\ RemoteOK /\ remote.main \in Nat /\ remote.file \in Seq(SUBSET Values)
        /\ Len(remote.file) = remote.main
    BY DEF IInv, WorldOK, RemoteOK
  <2>2. ~MergeChange
    <3> SUFFICES ASSUME MergeChange PROVE remote'.file[remote'.main] = remote.file[remote.main]
      OBVIOUS
    <3>1. remote' = [remote EXCEPT !.main = remote.main + 1,
                                   !.file = Append(@, remote.file[remote.main])]
      BY DEF MergeChange
    <3>2. /\ remote'.main = remote.main + 1
          /\ remote'.file = Append(remote.file, remote.file[remote.main])
      BY <2>1, <3>1 DEF RemoteOK
    <3> QED
      BY <2>1, <3>2
  <2>3. ~\E t \in Tags : CreateTag(t) \/ MoveTag(t) \/ DeleteTag(t)
    <3> SUFFICES ASSUME NEW t \in Tags, CreateTag(t) \/ MoveTag(t) \/ DeleteTag(t)
                 PROVE  remote'.file[remote'.main] = remote.file[remote.main]
      OBVIOUS
    <3>1. PICK n : remote' = [remote EXCEPT !.tags[t] = n]
      BY DEF CreateTag, MoveTag, DeleteTag
    <3> QED
      BY <2>1, <3>1 DEF RemoteOK
  <2>4. ~\E c \in Changes : UploadChange(c)
    <3> SUFFICES ASSUME NEW c \in Changes, UploadChange(c)
                 PROVE  remote'.file[remote'.main] = remote.file[remote.main]
      OBVIOUS
    <3>1. remote' = [remote EXCEPT !.changes = @ \cup {c}]
      BY DEF UploadChange
    <3> QED
      BY <2>1, <3>1 DEF RemoteOK
  <2>5. remote' # remote
    OBVIOUS
  <2>6. PICK p \in Handlers : UpdateEnds(p)
    <3>1. CASE \E repeat \in BOOLEAN : LoseEvent(repeat)
      BY <2>5, <3>1 DEF LoseEvent
    <3>2. CASE \E p \in Handlers : Deliver(p) \/ AskModel(p) \/ \E u \in Values : AddValue(p, u)
      BY <2>5, <3>2 DEF Deliver, AskModel, AddValue, StartHandler
    <3>3. CASE \E p \in Handlers : AskGit(p)
      BY <2>5, <3>3 DEF AskGit, Request
    <3>4. CASE \E p \in Handlers : EnsureEnds(p) \/ FetchEnds(p) \/ ReadEnds(p) \/ Rejected(p)
      BY <2>5, <3>4 DEF EnsureEnds, FetchEnds, ReadEnds, Rejected, MacroDone, FetchDone, ReadDone,
                        CommandRejected, CommandFails
    <3>5. CASE \E p \in Handlers : FireListeners(p) \/ GetModel(p) \/ SetModel(p) \/ Register(p)
      BY <2>5, <3>5 DEF FireListeners, GetModel, SetModel, Register, RedisStep, gitVars
    <3>6. CASE \E o \in Ops : GitStep(o)
      BY <2>5, <3>6 DEF GitStep, BeginCommand, InitFetch, MacroFetch, AttemptFails
    <3>7. CASE \E kept \in BOOLEAN : Restart(kept) \/ \E p \in Handlers : PruneRejected(p, kept)
      BY <2>5, <3>7 DEF Restart, PruneRejected, ProcessEnds, GitRestart
    <3> QED
      BY <2>2, <2>3, <2>4, <3>1, <3>2, <3>3, <3>4, <3>5, <3>6, <3>7 DEF Next
  <2>7. /\ h[p].stage = "update" /\ ReadOK(p)
    <3>1. /\ WaitsOK(p) /\ ReadOK(p)
      BY DEF IInv, HandlersOK, EachOK
    <3>2. op[p] # None /\ Cmd(op[p]).name = "update"
      BY <2>6 DEF UpdateEnds, Own, UpdateDone
    <3> QED
      BY <3>1, <3>2, StageOfCommand
  <2>8. h'[p] = Idle
    BY <2>6 DEF UpdateEnds
  <2>9. remote'.file[remote'.main] = h[p].seen
    <3>1. remote' = [remote EXCEPT !.main = remote.main + 1, !.file = Append(@, h[p].seen)]
      BY <2>6 DEF UpdateEnds, UpdateDone
    <3>2. remote'.main = remote.main + 1 /\ remote'.file = Append(remote.file, h[p].seen)
      BY <2>1, <3>1 DEF RemoteOK
    <3>3. h[p].seen \in SUBSET Values
      BY <2>7 DEF ReadOK
    <3> QED
      BY <2>1, <3>2, <3>3
  <2>10. v \in h[p].missed
    BY <2>7, <2>9 DEF ReadOK
  <2>11. h'[p].stage = "done"
    BY <2>8, IdleIsState
  <2> QED
    BY <2>6, <2>7, <2>10, <2>11
<1>2. [][Missed]_vars => OnlyOverlapDrops
  BY PTL DEF OnlyOverlapDrops
<1> QED
  BY <1>1, <1>2, RepositoriesInvariantHolds, PTL DEF Spec

\* When a push of the main branch was handled its commit is in the clone, or the clone
\* is empty (BuildSystemImpl.onPush, LocalGitFactoryImpl.execute).
THEOREM PushedIsFetchedHolds == Spec => PushedIsFetched
<1> DEFINE Pushed == \A p \in Handlers :
        /\ Busy(p) /\ h[p].kind = "push" /\ h[p].ref = Main
        /\ h'[p].stage \in {"done", "ignored"}
        => clone'.main >= h[p].sha \/ clone'.main = 0
<1>1. IInv /\ [Next]_vars => [Pushed]_vars
  <2> SUFFICES ASSUME IInv, Next, NEW p \in Handlers, Busy(p), h[p].kind = "push",
                      h[p].ref = Main, h'[p].stage \in {"done", "ignored"}
               PROVE  clone'.main >= h[p].sha \/ clone'.main = 0
    OBVIOUS
  <2>1. /\ h \in [Handlers -> States] /\ h[p] \in States /\ HandlerOK(p) /\ PushOK(p)
        /\ RemoteOK /\ CloneOK /\ RemoteOK' /\ WaitsOK(p)
    <3>1. WorldOK'
      BY NextKeeps DEF IInv
    <3> QED
      BY <3>1 DEF IInv, WorldOK, HandlersOK, EachOK
  <2>2. Moves(p)
    BY <2>1, OthersLeave DEF Busy, Ended
  <2>3. h[p].stage \in {"ensure", "fetchAll", "fire", "fire again", "isActive", "build", "register"}
    BY <2>1 DEF HandlerOK, StagesOf
  <2>4. Fetched(p) /\ clone' = clone => clone'.main >= h[p].sha \/ clone'.main = 0
    BY DEF Fetched
  <2>5. CASE EnsureEnds(p) /\ h[p].stage = "ensure"
    <3>1. Ends(p, "fulfilled") /\ UNCHANGED <<remote, clone>>
      BY <2>5 DEF EnsureEnds, MacroDone, At, Resolve, Back, Ends, Own
    <3>2. op'[p] = None /\ remote.main <= remote'.main
      BY <2>1, <3>1, EndsFacts DEF RemoteOK
    <3>3. EnsureResult(op[p]) = "not_found"
      <4> SUFFICES ASSUME EnsureResult(op[p]) # "not_found" PROVE FALSE
        OBVIOUS
      <4>1. AfterEnsure(p) \in {"fire", "isActive"} /\ AfterEnsure(p) \in Stages
        BY <2>5 DEF AfterEnsure, Stages, Commands
      <4>2. h'[p] = [h[p] EXCEPT !.stage = AfterEnsure(p), !.replaced = FALSE]
        BY <2>1, <2>5, <4>1 DEF EnsureEnds
      <4>3. h'[p].stage = AfterEnsure(p)
        BY <2>1, <4>1, <4>2 DEF States
      <4> QED
        BY <4>1, <4>3
    <3>4. OnError(p)
      BY <2>5, <3>3 DEF EnsureEnds
    <3>5. h[p].again
      <4> SUFFICES ASSUME ~h[p].again PROVE FALSE
        OBVIOUS
      <4>1. h' = [h EXCEPT ![p] = [h[p] EXCEPT !.stage = "fetchAll", !.again = TRUE]]
        BY <3>4 DEF OnError
      <4> QED
        BY <2>1, <4>1 DEF States
    <3> QED
      BY <2>1, <2>4, <2>5, <3>1, <3>5 DEF PushOK
  <2>6. CASE ReadEnds(p) /\ h[p].stage \in {"isActive", "build"}
    <3>1. clone' = clone
      BY <2>6 DEF ReadEnds, ReadDone
    <3> QED
      BY <2>1, <2>4, <2>6, <3>1 DEF PushOK
  <2>7. CASE Rejected(p)
    <3>1. clone' = Partial(op[p]) /\ RefreshFailed /\ op[p] # None /\ promise[op[p]] = "running"
      BY <2>7 DEF Rejected, CommandRejected, CommandFails, Own
    <3>2. Fetched(p)
      BY <2>1, <3>1 DEF PushOK, RefreshFailed
    <3>3. clone'.main = clone.main \/ clone'.main = remote.main
      BY <2>1, <3>1, PartialGrows DEF Grown
    <3>4. h[p].sha <= remote.main /\ h[p].sha \in Nat /\ remote.main \in Nat
      BY <2>1 DEF HandlerOK, States, RemoteOK
    <3> QED
      BY <3>2, <3>3, <3>4 DEF Fetched
  <2>8. CASE Register(p) /\ h[p].stage = "register"
    <3>1. clone' = clone
      BY <2>8 DEF Register
    <3> QED
      BY <2>1, <2>4, <2>8, <3>1 DEF PushOK
  <2>9. ~(FetchEnds(p) /\ h[p].stage = "fetchAll")
    <3> SUFFICES ASSUME FetchEnds(p), h[p].stage = "fetchAll" PROVE FALSE
      OBVIOUS
    <3>1. To(p, "fire again") /\ "fire again" \in Stages /\ "fire again" \notin Ended
      BY DEF FetchEnds, Stages, Ended
    <3>2. h'[p].stage = "fire again"
      BY <2>1, <3>1, ToMoves, StageIs
    <3> QED
      BY <3>2
  <2>10. ~FireListeners(p)
    <3> SUFFICES ASSUME FireListeners(p) PROVE FALSE
      OBVIOUS
    <3> DEFINE next == IF h[p].stage = "fire again" THEN "ensure" ELSE "isActive"
    <3>1. To(p, next)
      BY DEF FireListeners
    <3>2. next \in Stages /\ next \notin Ended /\ next \in {"ensure", "isActive"}
      BY DEF Stages, Commands, Ended
    <3> HIDE DEF next
    <3>3. h'[p].stage = next
      BY <2>1, <3>1, <3>2, ToMoves, StageIs
    <3> QED
      BY <3>2, <3>3
  <2>11. ~\E kept, left : ProcessEnds(kept, left)
    BY ProcessEndsLoses
  <2> QED
    BY <2>2, <2>3, <2>5, <2>6, <2>7, <2>8, <2>9, <2>10, <2>11, MovesFromStage
<1>2. [][Pushed]_vars => PushedIsFetched
  BY PTL DEF PushedIsFetched
<1> QED
  BY <1>1, <1>2, RepositoriesInvariantHolds, PTL DEF Spec
=============================================================================
