-------------------------- MODULE ReleaseFlowProofs --------------------------
(***************************************************************************)
(* What was proved of the execution serializer and of the index of            *)
(* dependencies by themselves holds in the flow from a release to the changes *)
(* that propose it, for any number of tasks that run at the same time, any    *)
(* files, labels and versions, and without the bound on what comes from       *)
(* outside: every step of the flow uses the two as they are meant to be used. *)
(* The proofs about the index by itself come first. Then: a version that is    *)
(* tagged has the binaries of the commit of its tag, a label has one change,   *)
(* and what files, changes and caches hold are versions that there are.        *)
(***************************************************************************)
EXTENDS ReleaseFlow, ExecutionSerializerProofs, WellFoundedInduction

OpTypeOK == op \in [Clients -> Ops \cup {None}]
Served == OpTypeOK' /\ (ESNext \/ UNCHANGED esVars)

-----------------------------------------------------------------------------
\* The chain of promises.

\* What leaves the line alone.
LEMMA AloneIsServed == ASSUME OpTypeOK, UNCHANGED <<esVars, op>> PROVE Served
BY DEF OpTypeOK, Served

\* The promise that is settled is that of the scan.
LEMMA SettlesIsServed ==
    ASSUME OpTypeOK, NEW p \in Clients, NEW v \in {"fulfilled", "rejected"}, Settles(p, v)
    PROVE  Served
<1>1. CASE op[p] = None
  BY <1>1, AloneIsServed DEF Settles, Goes
<1>2. CASE op[p] # None
  <2>1. op[p] \in Ops /\ Settle(op[p], v) /\ op' = [op EXCEPT ![p] = None]
    BY <1>2 DEF Settles, OpTypeOK
  <2>2. ESNext
    BY <2>1 DEF ESNext
  <2> QED
    BY <2>1, <2>2 DEF Served, OpTypeOK
<1> QED
  BY <1>1, <1>2

\* A step of the work on an update either goes on or ends it.
LEMMA GoesIsServed ==
    ASSUME OpTypeOK, NEW p \in Clients, Goes \/ WorkEnds(p) \/ WorkFails(p) \/ LabelDone(p)
    PROVE  Served
BY AloneIsServed, SettlesIsServed DEF Goes, WorkEnds, WorkFails, LabelDone

\* The scans and uploads.
LEMMA WorkIsServed ==
    ASSUME OpTypeOK, NEW p \in Clients,
           \/ ReadModel(p) \/ ListUpdates(p) \/ ScannedBranch(p) \/ ScannedUpdate(p)
           \/ FindUpload(p) \/ Create(p) \/ LabelUpdate(p) \/ ShowUpdate(p)
           \/ EditUpdate(p) \/ PublishUpdate(p) \/ WorkRejected(p)
           \/ \E d \in Deps : LookUp(p, d) \/ StoreVersions(p, d) \/ LookUpFails(p, d)
           \/ \E l \in DOMAIN task[p].want : TakeLabel(p, l)
    PROVE  Served
BY GoesIsServed
   DEF ReadModel, ListUpdates, ScannedBranch, ScannedUpdate, FindUpload, Create, LabelUpdate,
       ShowUpdate, EditUpdate, PublishUpdate, WorkRejected, LookUp, StoreVersions, LookUpFails,
       TakeLabel

\* processRepository queues for the source.
LEMMA AskScanIsServed ==
    ASSUME OpTypeOK, NEW p \in Clients, AskScan(p)
    PROVE  Served
<1>1. PICK o \in {p} \X {0, 1} : Execute(o) /\ op' = [op EXCEPT ![p] = o]
  BY DEF AskScan
<1>2. o \in Ops
  BY <1>1, OpsAreClients
<1> QED
  BY <1>1, <1>2 DEF Served, OpTypeOK, ESNext

\* What comes from outside and what a release or a push does concerns no scan.
LEMMA OthersAreAlone ==
    ASSUME \/ MergeLib
           \/ \E m \in 1 .. 3 : CreatePatch(m)
           \/ PushTopic
           \/ \E d \in Refs : CacheExpires(d)
           \/ \E u \in DOMAIN updates : MergeProposal(u)
           \/ \E d \in Deps : EditApp(d)
           \/ \E p \in Clients, m \in 1 .. 3, sha \in 1 .. Main(Lib) : RequestRelease(p, m, sha)
           \/ \E p \in Clients, m \in 1 .. 3 : AddMajor(p, m)
           \/ \E p \in Clients, d \in Deps, v \in Tagged : UploadContent(p, d, v)
           \/ \E c \in calls : Land(c)
           \/ \E p \in Clients :
                 \/ Deliver(p) \/ ChooseVersion(p) \/ Publish(p) \/ SetTag(p)
                 \/ \E s \in Sources : ApplyMajor(p, s)
                 \/ EnsurePushed(p) \/ ReadDependencies(p) \/ ReadIndex(p) \/ ReplaceIndex(p)
                 \/ Invalidate(p) \/ FindUsers(p)
                 \/ ReleaseRejected(p) \/ PushRejected(p)
    PROVE  UNCHANGED <<esVars, op>>
BY DEF MergeLib, CreatePatch, PushTopic, CacheExpires, MergeProposal, EditApp, AppMoves, Outside,
       RequestRelease, AddMajor, UploadContent, Deliver, StartTask, Land,
       ReleaseStep, ChooseVersion, Publish, SetTag, ApplyMajor, EnsurePushed,
       ReadDependencies, ReadIndex, ReplaceIndex, Invalidate, FindUsers, ReleaseRejected,
       PushRejected

\* A restart empties the line.
LEMMA RestartIsServed ==
    ASSUME Restart \/ \E c \in calls : UploadFails(c)
    PROVE  Served
<1>1. Forget /\ op' = [p \in Clients |-> None]
  BY DEF Restart, UploadFails, Restarted
<1> QED
  BY <1>1 DEF Served, OpTypeOK, ESNext

\* Every step.
LEMMA StepIsServed == OpTypeOK /\ [Next]_vars => OpTypeOK' /\ [ESNext]_esVars
<1> SUFFICES ASSUME OpTypeOK, [Next]_vars PROVE Served
  BY DEF Served
<1>1. CASE \E o \in Ops : BeginScan(o)
  BY <1>1 DEF BeginScan, Served, OpTypeOK, ESNext
<1>2. CASE \E p \in Clients : AskScan(p)
  BY <1>2, AskScanIsServed
<1>3. CASE Restart \/ \E c \in calls : UploadFails(c)
  BY <1>3, RestartIsServed
<1>4. CASE UNCHANGED vars
  BY <1>4, AloneIsServed DEF vars
<1>5. CASE Next /\ ~(\E o \in Ops : BeginScan(o)) /\ ~(\E p \in Clients : AskScan(p))
                /\ ~(Restart \/ \E c \in calls : UploadFails(c)) /\ ~UNCHANGED vars
  BY <1>5, AloneIsServed, OthersAreAlone, WorkIsServed DEF Next, Step
<1> QED
  BY <1>1, <1>2, <1>3, <1>4, <1>5

\* The flow behaves, as far as the chain of promises goes, like the serializer
\* (ScannerManagerImpl.processRepository: executionSerializer.execute).
THEOREM FlowUsesSerializer == Spec => ESSpec
<1>1. Init => OpTypeOK /\ ESInit
  BY DEF Init, OpTypeOK
<1> QED
  BY <1>1, StepIsServed, PTL DEF Spec, ESSpec

\* Scans of a repository that queue run one at a time and in the order asked.
THEOREM ScansServedInOrder == Spec => []ServedInOrder
BY FlowUsesSerializer, SerializerServesInOrder, PTL

-----------------------------------------------------------------------------
\* The index of dependencies by itself, for any number of repositories, references and
\* clients that update it at the same time.

\* What the proof needs of the types: nothing of the references themselves.
DSShape ==
    /\ bySource = [s \in Sources |-> bySource[s]]
    /\ byRef \in [Refs -> SUBSET Sources]
    /\ asked = [c \in Clients |-> asked[c]]
    /\ \A c \in Clients : asked[c].source \in Sources \cup {Nobody}

DSInv == DSShape /\ IndexIsTwoWay

-----------------------------------------------------------------------------
\* An index built from the references of each repository agrees with them.
LEMMA DSInitInv ==
    ASSUME NEW initial, initial = [s \in Sources |-> initial[s]], DSInit(initial)
    PROVE  DSInv
<1>1. DSShape
  BY DEF DSInit, DSShape, Nothing
<1>2. IndexIsTwoWay
  BY DEF DSInit, IndexIsTwoWay
<1> QED
  BY <1>1, <1>2 DEF DSInv

\* The first step of an update, smembers, only reads.
LEMMA ReadExistingInv ==
    ASSUME DSInv, NEW c \in Clients, NEW s \in Sources, NEW refs,
           ReadExisting(c, s, refs)
    PROVE  DSInv'
<1>1. DSShape'
  BY DEF DSInv, DSShape, ReadExisting
<1>2. IndexIsTwoWay'
  BY DEF DSInv, IndexIsTwoWay, ReadExisting
<1> QED
  BY <1>1, <1>2 DEF DSInv

\* The transaction adds and removes the differences with what was read: when that
\* is still true both directions agree again, else the source is torn.
LEMMA ReplaceInv ==
    ASSUME DSInv, NEW c \in Clients, Replace(c)
    PROVE  DSInv'
<1> DEFINE a == asked[c]
<1>1. a.source \in Sources
  BY DEF DSInv, DSShape, Replace
<1>2. DSShape'
  <2>1. bySource' = [s \in Sources |-> bySource'[s]]
    BY DEF DSInv, DSShape, Replace
  <2>2. byRef' \in [Refs -> SUBSET Sources]
    BY <1>1 DEF DSInv, DSShape, Replace
  <2>3. /\ asked' = [d \in Clients |-> asked'[d]]
        /\ \A d \in Clients : asked'[d].source \in Sources \cup {Nobody}
    BY DEF DSInv, DSShape, Replace, Nothing
  <2> QED
    BY <2>1, <2>2, <2>3 DEF DSShape
<1>3. IndexIsTwoWay'
  <2> SUFFICES ASSUME NEW s \in Sources, s \notin torn', NEW r \in Refs
               PROVE  s \in byRef'[r] <=> r \in bySource'[s]
    BY DEF IndexIsTwoWay
  <2>1. s \notin torn /\ (s \in byRef[r] <=> r \in bySource[s])
    BY DEF DSInv, IndexIsTwoWay, Replace
  <2>2. CASE s # a.source
    <3>1. s \in byRef'[r] <=> s \in byRef[r]
      BY <2>2 DEF Replace
    <3>2. bySource'[s] = bySource[s]
      BY <2>2 DEF Replace, DSInv, DSShape
    <3> QED
      BY <3>1, <3>2, <2>1
  <2>3. CASE s = a.source
    <3>1. a.old = bySource[s] /\ bySource'[s] = a.new
      BY <2>3, <1>1 DEF Replace, DSInv, DSShape
    <3>2. CASE r \in a.new
      BY <3>1, <3>2, <2>1, <2>3 DEF Replace
    <3>3. CASE r \notin a.new
      BY <3>1, <3>3, <2>1, <2>3 DEF Replace
    <3> QED
      BY <3>2, <3>3
  <2> QED
    BY <2>2, <2>3
<1> QED
  BY <1>2, <1>3 DEF DSInv

\* An update that is given up between its two steps leaves the index alone.
LEMMA AbandonInv ==
    ASSUME DSInv, NEW C \in SUBSET Clients, Abandon(C)
    PROVE  DSInv'
BY DEF DSInv, DSShape, IndexIsTwoWay, Abandon, Nothing

\* Every step of a client preserves the agreement.
LEMMA DSNextInv == DSInv /\ [DSNext]_dsVars => DSInv'
<1> SUFFICES ASSUME DSInv, [DSNext]_dsVars PROVE DSInv'
  OBVIOUS
<1>1. CASE \E c \in Clients, s \in Sources, refs \in SUBSET Refs : ReadExisting(c, s, refs)
  BY <1>1, ReadExistingInv
<1>2. CASE \E c \in Clients : Replace(c)
  BY <1>2, ReplaceInv
<1>3. CASE \E C \in SUBSET Clients : Abandon(C)
  BY <1>3, AbandonInv
<1>4. CASE UNCHANGED dsVars
  BY <1>4 DEF dsVars, DSInv, DSShape, IndexIsTwoWay
<1> QED
  BY <1>1, <1>2, <1>3, <1>4 DEF DSNext

\* Whatever the updates and failures of clients, the repositories found for a
\* reference are those that use it, and no others, but for a source of which two
\* updates overlapped (DependencyStoragImpl.update, lookup).
THEOREM IndexAgrees == DSSpec => []IndexIsTwoWay
<1>1. (\E initial \in [Sources -> SUBSET Refs] : DSInit(initial)) => DSInv
  BY DSInitInv
<1>2. DSInv => IndexIsTwoWay
  BY DEF DSInv
<1> QED
  BY <1>1, <1>2, DSNextInv, PTL DEF DSSpec

\* What lookup returns, in one transaction: the sources that use one of the
\* references, when no updates of a source overlapped.
THEOREM LookupFindsUsers == DSSpec => [](torn = {} =>
    \A refs \in SUBSET Refs : Lookup(refs) = {s \in Sources : bySource[s] \cap refs # {}})
<1>1. DSInv => (torn = {} =>
        \A refs \in SUBSET Refs : Lookup(refs) = {s \in Sources : bySource[s] \cap refs # {}})
  <2> SUFFICES ASSUME DSInv, torn = {}, NEW refs \in SUBSET Refs
               PROVE  Lookup(refs) = {s \in Sources : bySource[s] \cap refs # {}}
    OBVIOUS
  <2>1. \A s \in Sources, r \in Refs : s \in byRef[r] <=> r \in bySource[s]
    BY DEF DSInv, IndexIsTwoWay
  <2>2. byRef \in [Refs -> SUBSET Sources]
    BY DEF DSInv, DSShape
  <2>3. ASSUME NEW s \in Lookup(refs)
        PROVE  s \in Sources /\ bySource[s] \cap refs # {}
    <3>1. PICK r \in refs : s \in byRef[r]
      BY DEF Lookup
    <3> QED
      BY <3>1, <2>1, <2>2
  <2>4. ASSUME NEW s \in Sources, bySource[s] \cap refs # {}
        PROVE  s \in Lookup(refs)
    <3>1. PICK r \in refs : r \in bySource[s]
      BY <2>4
    <3> QED
      BY <3>1, <2>1 DEF Lookup
  <2> QED
    BY <2>3, <2>4
<1>2. (\E initial \in [Sources -> SUBSET Refs] : DSInit(initial)) => DSInv
  BY DSInitInv
<1> QED
  BY <1>1, <1>2, DSNextInv, PTL DEF DSSpec

-----------------------------------------------------------------------------
\* The index of dependencies.

\* The index at first.
LEMMA InitIndexInv == Init => DSInv
<1> SUFFICES ASSUME Init PROVE DSInv
  OBVIOUS
<1> DEFINE initial == [s \in Sources |-> IF s = App THEN Deps ELSE {}]
<1>1. DSInit(initial) /\ initial = [s \in Sources |-> initial[s]]
  BY DEF Init
<1> QED
  BY <1>1, DSInitInv

\* Only registerDependencies updates the index, and only what fails or ends gives
\* an update up.
LEMMA OutsideLeavesIndex ==
    ASSUME \/ MergeLib
           \/ \E m \in 1 .. 3 : CreatePatch(m)
           \/ PushTopic
           \/ \E d \in Refs : CacheExpires(d)
           \/ \E u \in DOMAIN updates : MergeProposal(u)
           \/ \E d \in Deps : EditApp(d)
           \/ \E p \in Clients, m \in 1 .. 3, sha \in 1 .. Main(Lib) : RequestRelease(p, m, sha)
           \/ \E p \in Clients, m \in 1 .. 3 : AddMajor(p, m)
           \/ \E p \in Clients, d \in Deps, v \in Tagged : UploadContent(p, d, v)
           \/ \E p \in Clients : Deliver(p)
    PROVE  UNCHANGED dsVars
BY DEF MergeLib, CreatePatch, PushTopic, CacheExpires, MergeProposal, EditApp, AppMoves, Outside,
       RequestRelease, AddMajor, UploadContent, Deliver, StartTask

\* Releases and what comes from outside leave the index.
LEMMA FlowLeavesIndex ==
    ASSUME \/ \E c \in calls : Land(c)
           \/ \E o \in Ops : BeginScan(o)
           \/ \E p \in Clients :
                 \/ ChooseVersion(p) \/ Publish(p) \/ SetTag(p) \/ ReleaseRejected(p)
                 \/ \E s \in Sources : ApplyMajor(p, s)
                 \/ EnsurePushed(p) \/ ReadDependencies(p)
                 \/ Invalidate(p) \/ FindUsers(p) \/ AskScan(p)
    PROVE  UNCHANGED dsVars
BY DEF Land, BeginScan, ReleaseStep, ChooseVersion, Publish, SetTag, ReleaseRejected,
       ApplyMajor, EnsurePushed, ReadDependencies, Invalidate, FindUsers, AskScan

\* So do scans and uploads.
LEMMA WorkLeavesIndex ==
    ASSUME NEW p \in Clients, NEW stage, WorkStep(p, stage)
    PROVE  UNCHANGED dsVars
BY DEF WorkStep

\* So does the line for scanning.
LEMMA ScanLeavesIndex ==
    ASSUME NEW p \in Clients,
           \/ ReadModel(p) \/ ListUpdates(p) \/ ScannedBranch(p) \/ ScannedUpdate(p)
           \/ FindUpload(p) \/ Create(p) \/ LabelUpdate(p) \/ ShowUpdate(p)
           \/ EditUpdate(p) \/ PublishUpdate(p) \/ WorkRejected(p)
           \/ \E d \in Deps : LookUp(p, d) \/ StoreVersions(p, d) \/ LookUpFails(p, d)
           \/ \E l \in DOMAIN task[p].want : TakeLabel(p, l)
    PROVE  UNCHANGED dsVars
<1>1. CASE WorkRejected(p)
  BY <1>1 DEF WorkRejected
<1>2. CASE \/ ReadModel(p) \/ ListUpdates(p) \/ ScannedBranch(p) \/ ScannedUpdate(p)
           \/ FindUpload(p) \/ Create(p) \/ LabelUpdate(p) \/ ShowUpdate(p)
           \/ EditUpdate(p) \/ PublishUpdate(p)
  BY <1>2, WorkLeavesIndex
     DEF ReadModel, ListUpdates, ScannedBranch, ScannedUpdate, FindUpload, Create,
         LabelUpdate, ShowUpdate, EditUpdate, PublishUpdate
<1>3. CASE \E d \in Deps : LookUp(p, d) \/ StoreVersions(p, d) \/ LookUpFails(p, d)
  BY <1>3, WorkLeavesIndex DEF LookUp, StoreVersions, LookUpFails
<1>4. CASE \E l \in DOMAIN task[p].want : TakeLabel(p, l)
  BY <1>4, WorkLeavesIndex DEF TakeLabel
<1> QED
  BY <1>1, <1>2, <1>3, <1>4

\* Every step.
LEMMA NextIndexInv == DSInv /\ [Next]_vars => DSInv'
<1> SUFFICES ASSUME DSInv, [Next]_vars PROVE DSInv'
  OBVIOUS
<1>1. CASE \E p \in Clients : ReadIndex(p)
  <2>1. PICK p \in Clients : ReadExisting(p, App, task[p].todo)
    BY <1>1 DEF ReadIndex
  <2> QED
    BY <2>1, ReadExistingInv, SourcesAreTwo
<1>2. CASE \E p \in Clients : ReplaceIndex(p)
  BY <1>2, ReplaceInv DEF ReplaceIndex
<1>3. CASE Restart \/ (\E c \in calls : UploadFails(c)) \/ (\E p \in Clients : PushRejected(p))
  <2>1. PICK C \in SUBSET Clients : Abandon(C)
    BY <1>3 DEF Restart, UploadFails, Restarted, PushRejected
  <2> QED
    BY <2>1, AbandonInv
<1>4. CASE UNCHANGED dsVars
  BY <1>4 DEF dsVars, DSInv, DSShape, IndexIsTwoWay
<1>5. CASE UNCHANGED vars
  BY <1>4, <1>5 DEF vars
<1>6. CASE /\ Next /\ ~UNCHANGED vars
           /\ ~\E p \in Clients : ReadIndex(p) \/ ReplaceIndex(p) \/ PushRejected(p)
           /\ ~(Restart \/ \E c \in calls : UploadFails(c))
  BY <1>4, <1>6, OutsideLeavesIndex, FlowLeavesIndex, ScanLeavesIndex DEF Next, Step
<1> QED
  BY <1>1, <1>2, <1>3, <1>5, <1>6

\* Registering what was pushed, scans, failures and restarts keep both directions
\* of the index in agreement, but for a repository of which two pushes overlapped
\* (ScannerManagerImpl.registerDependencies, DependencyStoragImpl.update).
THEOREM FlowKeepsIndex == Spec => []IndexIsTwoWay
<1>1. DSInv => IndexIsTwoWay
  BY DEF DSInv
<1> QED
  BY <1>1, InitIndexInv, NextIndexInv, PTL DEF Spec

-----------------------------------------------------------------------------
\* The releases: the version that is chosen.

\* What a release is called: major, minor and patch.
Release == Nat \X Nat \X Nat

\* A set of numbers that is not empty has a smallest one.
LEMMA SmallestExists ==
    ASSUME NEW S \in SUBSET Nat, S # {}
    PROVE  \E n \in S : \A m \in S : n <= m
<1> DEFINE R == OpToRel(<, Nat)
<1>1. IsWellFoundedOn(R, Nat)
  BY NatLessThanWellFounded
<1>2. \A x, y \in Nat : x < y => <<x, y>> \in R
  BY DEF OpToRel
<1> HIDE DEF R
<1>3. PICK n \in S : \A m \in S : ~(<<m, n>> \in R)
  BY <1>1, WFMin
<1>4. n \in Nat /\ \A m \in S : m \in Nat /\ ~(m < n)
  BY <1>2, <1>3
<1>5. \A m \in S : n <= m
  BY <1>4
<1> QED
  BY <1>3, <1>5

\* So the highest of a bounded set is in the set (VersionUtil, where the last of a
\* sorted list is taken).
LEMMA HighestExists ==
    ASSUME NEW S \in SUBSET Nat, S # {}, NEW b \in Nat, \A m \in S : m <= b
    PROVE  Highest(S) \in S /\ \A m \in S : m <= Highest(S)
<1> DEFINE U == {n \in Nat : \A m \in S : m <= n}
<1>1. U \in SUBSET Nat /\ U # {}
  OBVIOUS
<1>2. PICK n \in U : \A m \in U : n <= m
  BY <1>1, SmallestExists
<1>3. n \in Nat /\ \A m \in S : m \in Nat /\ m <= n
  BY <1>2
<1>4. ASSUME n \notin S PROVE FALSE
  <2>1. \A m \in S : m <= n /\ m # n /\ m \in Nat
    BY <1>3, <1>4
  <2>2. n > 0
    <3>1. PICK m \in S : TRUE
      OBVIOUS
    <3>2. m \in Nat /\ m <= n /\ m # n
      BY <2>1, <3>1
    <3> QED
      BY <3>2, <1>3
  <2>3. n - 1 \in Nat /\ \A m \in S : m <= n - 1
    BY <2>1, <1>3, <2>2
  <2>4. n - 1 \in U
    BY <2>3
  <2> QED
    BY <2>4, <1>2, <1>3
<1>5. \E k \in S : \A m \in S : m <= k
  BY <1>3, <1>4
<1> QED
  BY <1>5 DEF Highest

\* The version that is chosen for a release of a major is not one that the releases
\* read have, and is after all of them of that major (VersionType: getNextVersion,
\* from the references of the repository).
LEMMA NextVersionIsNew ==
    ASSUME NEW R, DOMAIN R.releases \subseteq Release, NEW major \in Nat,
           NEW b \in Nat, \A v \in DOMAIN R.releases : v[2] <= b
    PROVE  /\ NextVersion(R, major, "minor") \in Release
           /\ NextVersion(R, major, "minor") \notin DOMAIN R.releases
           /\ \A v \in Releases(R, major) : Lower(v, NextVersion(R, major, "minor"))
<1> DEFINE next == NextVersion(R, major, "minor")
           released == Releases(R, major)
           minors == {v[2] : v \in released}
<1>1. \A v \in released : v \in Release /\ v[1] = major /\ v[2] \in minors
  BY DEF Releases
<1>2. \A v \in Release : v[1] \in Nat /\ v[2] \in Nat /\ v[3] \in Nat /\ Len(v) = 3
  BY DEF Release
<1>3. CASE released = {}
  <2>1. next = <<major, 0, 0>>
    BY <1>3 DEF NextVersion
  <2>2. next \in Release /\ next[1] = major
    BY <2>1 DEF Release
  <2> QED
    BY <2>2, <1>3 DEF Releases
<1>4. CASE released # {}
  <2>1. minors \in SUBSET Nat /\ minors # {} /\ \A m \in minors : m <= b
    BY <1>1, <1>2, <1>4 DEF Releases
  <2> DEFINE top == Highest(minors)
  <2>2. top \in Nat /\ \A m \in minors : m <= top
    BY <2>1, HighestExists
  <2>3. next = <<major, top + 1, 0>>
    BY <1>4 DEF NextVersion
  <2> HIDE DEF next, minors, top
  <2>4. next \in Release /\ next[1] = major /\ next[2] = top + 1 /\ Len(next) = 3
    BY <2>3, <2>2 DEF Release
  <2>5. \A v \in released : v[1] = next[1] /\ v[2] < next[2] /\ v[1] \in Nat /\ v[2] \in Nat
    BY <1>1, <1>2, <2>2, <2>4
  <2>6. next \notin released
    BY <2>5
  <2>7. next \notin DOMAIN R.releases
    BY <2>4, <2>6 DEF Releases
  <2>8. ASSUME NEW v \in released PROVE Lower(v, next)
    <3>1. Len(v) = 3 /\ v[1] = next[1] /\ v[2] < next[2]
      BY <1>1, <1>2, <2>5
    <3>2. 2 \in 1 .. Len(next)
      BY <2>4
    <3>3. \A j \in 1 .. 1 : j <= Len(v) /\ v[j] = next[j]
      BY <3>1
    <3>4. /\ \A j \in 1 .. 2 - 1 : j <= Len(v) /\ v[j] = next[j]
          /\ 2 > Len(v) \/ v[2] < next[2]
      BY <3>1, <3>3
    <3> QED
      BY <3>2, <3>4 DEF Lower
  <2> QED
    BY <2>4, <2>7, <2>8 DEF next
<1> QED
  BY <1>3, <1>4

-----------------------------------------------------------------------------
\* How tasks change.

\* What is known of a task, in a form that does not ask what its values are.
TaskFields == DOMAIN Idle
TaskShape ==
    /\ task = [p \in Clients |-> task[p]]
    /\ \A p \in Clients : task[p] = [x \in TaskFields |-> task[p][x]]
OthersStay(p) == \A q \in Clients \ {p} : task'[q] = task[q]

\* The fields of a task.
LEMMA TaskFieldsAre == TaskFields = {"kind", "at", "source", "ref", "version", "major", "sha",
    "todo", "store", "late", "base", "model", "seen", "found", "want", "label", "id", "again", "tried"}
BY DEF TaskFields, Idle

\* A task that is replaced: what it has to do changes, and nothing of the others.
LEMMA TaskBecomes ==
    ASSUME TaskShape, NEW p \in Clients, NEW t, t = [x \in TaskFields |-> t[x]],
           task' = [task EXCEPT ![p] = t]
    PROVE  TaskShape' /\ OthersStay(p) /\ task'[p] = t
<1>1. task'[p] = t /\ OthersStay(p) /\ task' = [q \in Clients |-> task'[q]]
  BY DEF TaskShape, OthersStay
<1>2. \A q \in Clients : task'[q] = [x \in TaskFields |-> task'[q][x]]
  BY <1>1 DEF TaskShape, OthersStay
<1> QED
  BY <1>1, <1>2 DEF TaskShape, TaskFields

\* The continuation of a handler changes what it says and nothing else.
LEMMA BecomeChanges ==
    ASSUME TaskShape, NEW p \in Clients, NEW r, DOMAIN r \subseteq TaskFields, Become(p, r)
    PROVE  /\ TaskShape' /\ OthersStay(p)
           /\ \A x \in TaskFields : task'[p][x] = IF x \in DOMAIN r THEN r[x] ELSE task[p][x]
<1> DEFINE t == Over(r, task[p])
<1>1. task' = [task EXCEPT ![p] = t]
  BY DEF Become
<1>2. t = [x \in TaskFields |-> IF x \in DOMAIN r THEN r[x] ELSE task[p][x]]
  BY DEF Over, TaskShape
<1>3. t = [x \in TaskFields |-> t[x]]
  BY <1>2
<1> QED
  BY <1>1, <1>2, <1>3, TaskBecomes

\* A handler that ends leaves its client idle.
LEMMA EndChanges ==
    ASSUME TaskShape, NEW p \in Clients, End(p)
    PROVE  TaskShape' /\ OthersStay(p) /\ task'[p] = Idle
<1>1. Idle = [x \in TaskFields |-> Idle[x]]
  BY TaskFieldsAre DEF Idle
<1> QED
  BY <1>1, TaskBecomes DEF End

\* A request or an event starts a task with what it says of it.
LEMMA StartChanges ==
    ASSUME TaskShape, NEW p \in Clients, NEW r, DOMAIN r \subseteq TaskFields, StartTask(p, r)
    PROVE  /\ TaskShape' /\ OthersStay(p)
           /\ \A x \in TaskFields : task'[p][x] = IF x \in DOMAIN r THEN r[x] ELSE Idle[x]
<1> DEFINE t == Over(r, Idle)
<1>1. task' = [task EXCEPT ![p] = t]
  BY DEF StartTask
<1>2. t = [x \in TaskFields |-> IF x \in DOMAIN r THEN r[x] ELSE Idle[x]]
  BY DEF Over, TaskFields
<1>3. t = [x \in TaskFields |-> t[x]]
  BY <1>2
<1> QED
  BY <1>1, <1>2, <1>3, TaskBecomes

\* An idle client works on no version.
LEMMA IdleIs == Idle.kind = "none" /\ Idle.version = Undefined
BY DEF Idle

-----------------------------------------------------------------------------
\* How references change.

\* The references of a repository, at Gerrit and in the clone, in the same form.
RefFields == {"main", "releases", "majors", "patches"}
RefsShape(R) == R = [x \in RefFields |-> R[x]]
RepoShape ==
    /\ repo = [s \in Sources |-> repo[s]]
    /\ \A s \in Sources :
          /\ repo[s] = [x \in {"remote", "clone"} |-> repo[s][x]]
          /\ RefsShape(repo[s].remote) /\ RefsShape(repo[s].clone)
Elsewhere(s) == \A q \in Sources \ {s} : repo'[q] = repo[q]

\* A merge moves the main branch at Gerrit and no other reference.
LEMMA RemoteMainChanges ==
    ASSUME RepoShape, NEW s \in Sources, NEW y, repo' = [repo EXCEPT ![s].remote.main = y]
    PROVE  /\ RepoShape' /\ Elsewhere(s) /\ repo'[s].clone = repo[s].clone
           /\ \A x \in RefFields : repo'[s].remote[x] = IF x = "main" THEN y ELSE repo[s].remote[x]
<1> DEFINE R == [repo[s].remote EXCEPT !.main = y]
           B == [repo[s] EXCEPT !.remote = R]
<1>1. R = [x \in RefFields |-> IF x = "main" THEN y ELSE repo[s].remote[x]]
  BY DEF RepoShape, RefsShape, RefFields
<1>2. RefsShape(R)
  BY <1>1 DEF RefsShape
<1>3. B = [x \in {"remote", "clone"} |-> IF x = "remote" THEN R ELSE repo[s][x]]
  BY DEF RepoShape
<1>4. repo' = [q \in Sources |-> IF q = s THEN B ELSE repo[q]]
  BY DEF RepoShape
<1> HIDE DEF B, R
<1>5. repo'[s] = B /\ Elsewhere(s) /\ repo' = [q \in Sources |-> repo'[q]]
  BY <1>4 DEF Elsewhere
<1>6. B.remote = R /\ B.clone = repo[s].clone /\ B = [x \in {"remote", "clone"} |-> B[x]]
  BY <1>3
<1>7. RepoShape'
  BY <1>2, <1>5, <1>6 DEF RepoShape, Elsewhere, RefsShape, RefFields
<1> QED
  BY <1>1, <1>5, <1>6, <1>7

\* A tag of a release changes no other reference (createTag).
LEMMA RemoteReleasesChanges ==
    ASSUME RepoShape, NEW s \in Sources, NEW y, repo' = [repo EXCEPT ![s].remote.releases = y]
    PROVE  /\ RepoShape' /\ Elsewhere(s) /\ repo'[s].clone = repo[s].clone
           /\ \A x \in RefFields : repo'[s].remote[x] = IF x = "releases" THEN y ELSE repo[s].remote[x]
<1> DEFINE R == [repo[s].remote EXCEPT !.releases = y]
           B == [repo[s] EXCEPT !.remote = R]
<1>1. R = [x \in RefFields |-> IF x = "releases" THEN y ELSE repo[s].remote[x]]
  BY DEF RepoShape, RefsShape, RefFields
<1>2. RefsShape(R)
  BY <1>1 DEF RefsShape
<1>3. B = [x \in {"remote", "clone"} |-> IF x = "remote" THEN R ELSE repo[s][x]]
  BY DEF RepoShape
<1>4. repo' = [q \in Sources |-> IF q = s THEN B ELSE repo[q]]
  BY DEF RepoShape
<1> HIDE DEF B, R
<1>5. repo'[s] = B /\ Elsewhere(s) /\ repo' = [q \in Sources |-> repo'[q]]
  BY <1>4 DEF Elsewhere
<1>6. B.remote = R /\ B.clone = repo[s].clone /\ B = [x \in {"remote", "clone"} |-> B[x]]
  BY <1>3
<1>7. RepoShape'
  BY <1>2, <1>5, <1>6 DEF RepoShape, Elsewhere, RefsShape, RefFields
<1> QED
  BY <1>1, <1>5, <1>6, <1>7

\* A tag of a major changes no other reference (createTag of applyMajors).
LEMMA RemoteMajorsChanges ==
    ASSUME RepoShape, NEW s \in Sources, NEW y, repo' = [repo EXCEPT ![s].remote.majors = y]
    PROVE  /\ RepoShape' /\ Elsewhere(s) /\ repo'[s].clone = repo[s].clone
           /\ \A x \in RefFields : repo'[s].remote[x] = IF x = "majors" THEN y ELSE repo[s].remote[x]
<1> DEFINE R == [repo[s].remote EXCEPT !.majors = y]
           B == [repo[s] EXCEPT !.remote = R]
<1>1. R = [x \in RefFields |-> IF x = "majors" THEN y ELSE repo[s].remote[x]]
  BY DEF RepoShape, RefsShape, RefFields
<1>2. RefsShape(R)
  BY <1>1 DEF RefsShape
<1>3. B = [x \in {"remote", "clone"} |-> IF x = "remote" THEN R ELSE repo[s][x]]
  BY DEF RepoShape
<1>4. repo' = [q \in Sources |-> IF q = s THEN B ELSE repo[q]]
  BY DEF RepoShape
<1> HIDE DEF B, R
<1>5. repo'[s] = B /\ Elsewhere(s) /\ repo' = [q \in Sources |-> repo'[q]]
  BY <1>4 DEF Elsewhere
<1>6. B.remote = R /\ B.clone = repo[s].clone /\ B = [x \in {"remote", "clone"} |-> B[x]]
  BY <1>3
<1>7. RepoShape'
  BY <1>2, <1>5, <1>6 DEF RepoShape, Elsewhere, RefsShape, RefFields
<1> QED
  BY <1>1, <1>5, <1>6, <1>7

\* A branch for patches changes no other reference (createBranch).
LEMMA RemotePatchesChanges ==
    ASSUME RepoShape, NEW s \in Sources, NEW y, repo' = [repo EXCEPT ![s].remote.patches = y]
    PROVE  /\ RepoShape' /\ Elsewhere(s) /\ repo'[s].clone = repo[s].clone
           /\ \A x \in RefFields : repo'[s].remote[x] = IF x = "patches" THEN y ELSE repo[s].remote[x]
<1> DEFINE R == [repo[s].remote EXCEPT !.patches = y]
           B == [repo[s] EXCEPT !.remote = R]
<1>1. R = [x \in RefFields |-> IF x = "patches" THEN y ELSE repo[s].remote[x]]
  BY DEF RepoShape, RefsShape, RefFields
<1>2. RefsShape(R)
  BY <1>1 DEF RefsShape
<1>3. B = [x \in {"remote", "clone"} |-> IF x = "remote" THEN R ELSE repo[s][x]]
  BY DEF RepoShape
<1>4. repo' = [q \in Sources |-> IF q = s THEN B ELSE repo[q]]
  BY DEF RepoShape
<1> HIDE DEF B, R
<1>5. repo'[s] = B /\ Elsewhere(s) /\ repo' = [q \in Sources |-> repo'[q]]
  BY <1>4 DEF Elsewhere
<1>6. B.remote = R /\ B.clone = repo[s].clone /\ B = [x \in {"remote", "clone"} |-> B[x]]
  BY <1>3
<1>7. RepoShape'
  BY <1>2, <1>5, <1>6 DEF RepoShape, Elsewhere, RefsShape, RefFields
<1> QED
  BY <1>1, <1>5, <1>6, <1>7

\* A fetch changes the clone and nothing at Gerrit (LocalGit.fetch).
LEMMA CloneChanges ==
    ASSUME RepoShape, NEW s \in Sources, NEW C, RefsShape(C), repo' = [repo EXCEPT ![s].clone = C]
    PROVE  /\ RepoShape' /\ Elsewhere(s) /\ repo'[s].clone = C /\ repo'[s].remote = repo[s].remote
<1> DEFINE B == [repo[s] EXCEPT !.clone = C]
<1>3. B = [x \in {"remote", "clone"} |-> IF x = "clone" THEN C ELSE repo[s][x]]
  BY DEF RepoShape
<1>4. repo' = [q \in Sources |-> IF q = s THEN B ELSE repo[q]]
  BY DEF RepoShape
<1> HIDE DEF B
<1>5. repo'[s] = B /\ Elsewhere(s) /\ repo' = [q \in Sources |-> repo'[q]]
  BY <1>4 DEF Elsewhere
<1>6. B.remote = repo[s].remote /\ B.clone = C /\ B = [x \in {"remote", "clone"} |-> B[x]]
  BY <1>3
<1>7. RepoShape'
  BY <1>5, <1>6 DEF RepoShape, Elsewhere, RefsShape, RefFields
<1> QED
  BY <1>5, <1>6, <1>7

-----------------------------------------------------------------------------
\* Who sets tags of the library.

\* The tags of the library are versions, of bounded number, and the clone has only
\* those that Gerrit has.
ReleasesOK ==
    /\ Tagged \subseteq Release
    /\ \E b \in Nat : \A v \in Tagged : v[2] <= b
    /\ DOMAIN repo[Lib].clone.releases \subseteq Tagged
RepoInv == RepoShape /\ ReleasesOK
TagsStay == RepoInv' /\ repo'[Lib].remote.releases = repo[Lib].remote.releases

\* The library and the application are repositories.
LEMMA LibIsSource == Lib \in Sources /\ App \in Sources
BY SourcesAreTwo

\* What is fetched for a reference are references of the remote: no tag comes from
\* elsewhere (LocalGit.fetch).
LEMMA FetchedShape ==
    ASSUME RepoShape, NEW s \in Sources, NEW ref, NEW v
    PROVE  /\ RefsShape(Fetched(s, ref, v))
           /\ DOMAIN Fetched(s, ref, v).releases \subseteq DOMAIN repo[s].remote.releases
           /\ DOMAIN Fetched(s, ref, v).majors \subseteq DOMAIN repo[s].remote.majors
<1> DEFINE C == repo[s].clone
           R == repo[s].remote
           with == CASE ref = "release" -> [C EXCEPT !.releases = Put(@, v, R.releases[v])]
                     [] ref = "major" -> [C EXCEPT !.majors = Put(@, v[1], R.majors[v[1]])]
                     [] ref = "patch" -> [C EXCEPT !.patches = Put(@, v, R.patches[v])]
                     [] ref = "main" -> [C EXCEPT !.main = R.main]
                     [] OTHER -> C
           F == [with EXCEPT !.releases = UpTo(R.releases, Have(with)),
                             !.majors = UpTo(R.majors, Have(with))]
<1>1. F = Fetched(s, ref, v)
  BY DEF Fetched
<1>2. RefsShape(C)
  BY DEF RepoShape
<1>3. \A y, f : f \in RefFields => RefsShape([C EXCEPT ![f] = y])
  BY <1>2 DEF RefsShape
<1>4. RefsShape(with)
  <2>1. CASE ref = "release"
    BY <2>1, <1>3 DEF RefFields
  <2>2. CASE ref = "major"
    BY <2>2, <1>3 DEF RefFields
  <2>3. CASE ref = "patch"
    BY <2>3, <1>3 DEF RefFields
  <2>4. CASE ref = "main"
    BY <2>4, <1>3 DEF RefFields
  <2>5. CASE ref \notin {"release", "major", "patch", "main"}
    BY <2>5, <1>2
  <2> QED
    BY <2>1, <2>2, <2>3, <2>4, <2>5
<1> HIDE DEF with
<1> DEFINE a == UpTo(R.releases, Have(with))
           b == UpTo(R.majors, Have(with))
<1>5. DOMAIN a \subseteq DOMAIN R.releases /\ DOMAIN b \subseteq DOMAIN R.majors
  BY DEF UpTo, Restrict
<1> HIDE DEF a, b
<1>6. F = [with EXCEPT !.releases = a, !.majors = b]
  BY DEF a, b
<1>7. F = [x \in RefFields |-> IF x = "majors" THEN b ELSE IF x = "releases" THEN a ELSE with[x]]
  BY <1>4, <1>6 DEF RefsShape, RefFields
<1> HIDE DEF F
<1>8. F.releases = a /\ F.majors = b /\ RefsShape(F)
  BY <1>7 DEF RefsShape, RefFields
<1> QED
  BY <1>1, <1>5, <1>8

\* References that stay are in order.
LEMMA UnchangedRepo == ASSUME RepoInv, UNCHANGED repo PROVE TagsStay
BY DEF RepoInv, TagsStay, RepoShape, ReleasesOK, RefsShape, Tagged

\* So are those of a step that touches no release of the library and not its clone.
LEMMA RemoteMoves ==
    ASSUME RepoInv, RepoShape', repo'[Lib].remote.releases = repo[Lib].remote.releases,
           repo'[Lib].clone = repo[Lib].clone
    PROVE  TagsStay
BY DEF RepoInv, TagsStay, ReleasesOK, Tagged

\* Merges, branches for patches and tags of majors make no release.
LEMMA OutsideKeepsTags ==
    ASSUME RepoInv,
           \/ MergeLib
           \/ AppMoves
           \/ \E m \in 1 .. 3 : CreatePatch(m)
           \/ \E p \in Clients, s \in Sources : ApplyMajor(p, s)
    PROVE  TagsStay
<1>1. CASE \E s \in Sources : repo' = [repo EXCEPT ![s].remote.main = @ + 1]
  <2>1. PICK s \in Sources : repo' = [repo EXCEPT ![s].remote.main = repo[s].remote.main + 1]
    BY <1>1
  <2> QED
    BY <2>1, RemoteMainChanges, LibIsSource, RemoteMoves DEF RepoInv, Elsewhere, RefFields
<1>2. CASE \E m \in 1 .. 3 : CreatePatch(m)
  <2>1. PICK y : repo' = [repo EXCEPT ![Lib].remote.patches = y]
    BY <1>2 DEF CreatePatch, CreateBranch
  <2> QED
    BY <2>1, RemotePatchesChanges, LibIsSource, RemoteMoves DEF RepoInv, Elsewhere, RefFields
<1>3. CASE \E p \in Clients, s \in Sources : ApplyMajor(p, s)
  <2>1. CASE UNCHANGED repo
    BY <2>1, UnchangedRepo
  <2>2. CASE ~UNCHANGED repo
    <3>1. PICK s \in Sources : \E y : repo' = [repo EXCEPT ![s].remote.majors = y]
      BY <1>3, <2>2 DEF ApplyMajor
    <3>2. PICK y : repo' = [repo EXCEPT ![s].remote.majors = y]
      BY <3>1
    <3> QED
      BY <3>1, <3>2, RemoteMajorsChanges, LibIsSource, RemoteMoves DEF RepoInv, Elsewhere, RefFields
  <2> QED
    BY <2>1, <2>2
<1>4. MergeLib \/ AppMoves => \E s \in Sources : repo' = [repo EXCEPT ![s].remote.main = @ + 1]
  BY LibIsSource DEF MergeLib, AppMoves
<1> QED
  BY <1>1, <1>2, <1>3, <1>4

\* A fetch makes no release, and the clone knows no more of them than Gerrit.
LEMMA FetchKeepsTags ==
    ASSUME RepoInv, NEW s \in Sources, NEW C, RefsShape(C),
           DOMAIN C.releases \subseteq DOMAIN repo[s].remote.releases,
           repo' = [repo EXCEPT ![s].clone = C]
    PROVE  TagsStay
<1>1. /\ RepoShape' /\ Elsewhere(s) /\ repo'[s].clone = C /\ repo'[s].remote = repo[s].remote
  BY CloneChanges DEF RepoInv
<1>2. repo'[Lib].remote = repo[Lib].remote
  BY <1>1, LibIsSource DEF Elsewhere
<1>3. DOMAIN repo'[Lib].clone.releases \subseteq DOMAIN repo[Lib].remote.releases
  BY <1>1, LibIsSource DEF Elsewhere, RepoInv, ReleasesOK, Tagged
<1> QED
  BY <1>1, <1>2, <1>3 DEF RepoInv, TagsStay, ReleasesOK, Tagged

\* The handler of a push makes no release (BuildSystemImpl.onPush).
LEMMA PushKeepsTags ==
    ASSUME RepoInv, NEW p \in Clients, task[p].source \in Sources, EnsurePushed(p) \/ PushRejected(p)
    PROVE  TagsStay
<1>1. CASE UNCHANGED repo
  BY <1>1, UnchangedRepo
<1>2. CASE EnsurePushed(p) /\ ~UNCHANGED repo
  <2>1. repo' = [repo EXCEPT ![task[p].source].clone = Fetched(task[p].source, task[p].ref, task[p].version)]
    BY <1>2 DEF EnsurePushed
  <2> QED
    BY <2>1, FetchedShape, FetchKeepsTags DEF RepoInv
<1>3. CASE PushRejected(p)
  <2>1. repo' = [repo EXCEPT ![task[p].source].clone = repo[task[p].source].remote]
    BY <1>3 DEF PushRejected
  <2>2. RefsShape(repo[task[p].source].remote)
    BY DEF RepoInv, RepoShape
  <2> QED
    BY <2>1, <2>2, FetchKeepsTags
<1> QED
  BY <1>1, <1>2, <1>3

\* A finite sequence of numbers has a bound.
LEMMA SequencesAreBounded ==
    ASSUME NEW N \in Nat, NEW f \in [1 .. N -> Nat]
    PROVE  \E b \in Nat : \A i \in 1 .. N : f[i] <= b
<1> DEFINE Good(n) == \E b \in Nat : \A i \in 1 .. n : f[i] <= b
           Bad == {n \in 0 .. N : ~Good(n)}
<1>1. ASSUME Bad # {} PROVE FALSE
  <2>1. Bad \in SUBSET Nat
    OBVIOUS
  <2>2. PICK n \in Bad : \A m \in Bad : n <= m
    BY <1>1, <2>1, SmallestExists
  <2>3. n \in 0 .. N /\ ~Good(n)
    BY <2>2
  <2>4. Good(0)
    <3>1. 0 \in Nat /\ \A i \in 1 .. 0 : f[i] <= 0
      OBVIOUS
    <3> QED
      BY <3>1
  <2>5. n # 0
    BY <2>3, <2>4
  <2>6. n - 1 \in 0 .. N /\ n \in 1 .. N /\ ~(n <= n - 1)
    BY <2>3, <2>5
  <2>7. Good(n - 1)
    BY <2>2, <2>6
  <2> HIDE DEF Bad
  <2>8. PICK b \in Nat : \A i \in 1 .. n - 1 : f[i] <= b
    BY <2>7
  <2>9. f[n] \in Nat
    BY <2>6
  <2>10. PICK c \in Nat : b <= c /\ f[n] <= c
    BY <2>9
  <2>11. ASSUME NEW i \in 1 .. n PROVE f[i] <= c
    <3>1. CASE i = n
      BY <3>1, <2>10
    <3>2. CASE i # n
      <4>1. i \in 1 .. n - 1 /\ f[i] \in Nat
        BY <3>2, <2>6
      <4> QED
        BY <4>1, <2>8, <2>10
    <3> QED
      BY <3>1, <3>2
  <2>12. Good(n)
    BY <2>11
  <2> QED
    BY <2>3, <2>12
<1>2. N \in 0 .. N
  OBVIOUS
<1>3. Good(N)
  BY <1>1, <1>2
<1> QED
  BY <1>3

\* So have the releases that Gerrit has not told of at first.
LEMMA PendingBounded == \E b \in Nat : \A i \in DOMAIN Pending : Pending[i][2] <= b
<1>1. Len(Pending) \in Nat /\ DOMAIN Pending = 1 .. Len(Pending)
  BY PendingAreReleases
<1>2. \A i \in 1 .. Len(Pending) : Pending[i] \in Nat \X Nat \X Nat
  BY PendingAreReleases, <1>1
<1> DEFINE f == [i \in 1 .. Len(Pending) |-> Pending[i][2]]
<1>3. f \in [1 .. Len(Pending) -> Nat]
  BY <1>2
<1>4. PICK b \in Nat : \A i \in 1 .. Len(Pending) : f[i] <= b
  BY <1>1, <1>3, SequencesAreBounded
<1> QED
  BY <1>1, <1>4

-----------------------------------------------------------------------------
\* The tasks, their promises and the stream of events.

\* What a task is in and what is on its way: only the handler of a push that waits
\* for a scan, or makes it, has a promise in the line for scanning.
EventOK(e) == DOMAIN e = {"source", "ref", "version"} /\ e.source \in Sources
ScanStages == {"scan", "list", "look", "labels", "create", "label", "show", "edit", "publish"}
TaskInv ==
    /\ TaskShape
    /\ \A p \in Clients : task[p].source \in Sources
    /\ \A p \in Clients : op[p] # None => task[p].kind = "push" /\ task[p].at \in ScanStages
    /\ \E S : stream \in Seq(S) /\ \A e \in S : EventOK(e)

\* A release at work stays where it is.
ReleasesGoOn == \A q \in Clients : task'[q].kind = "release" =>
    /\ task[q].kind = "release"
    /\ \A x \in {"at", "version", "sha", "major"} : task'[q][x] = task[q][x]

\* The stream of events loses its head or gets one event at its end.
StreamStays ==
    \/ stream' = stream
    \/ stream # <<>> /\ stream' = Tail(stream)
    \/ \E e : EventOK(e) /\ stream' = Append(stream, e)

\* The stream of events holds events (GerritStreamListener).
LEMMA StreamKept ==
    ASSUME TaskInv, StreamStays
    PROVE  \E S : stream' \in Seq(S) /\ \A e \in S : EventOK(e)
<1>1. PICK S : stream \in Seq(S) /\ \A e \in S : EventOK(e)
  BY DEF TaskInv
<1>2. CASE stream' = stream \/ (stream # <<>> /\ stream' = Tail(stream))
  BY <1>1, <1>2
<1>3. CASE \E e : EventOK(e) /\ stream' = Append(stream, e)
  <2>1. PICK e : EventOK(e) /\ stream' = Append(stream, e)
    BY <1>3
  <2>2. stream \in Seq(S \cup {e})
    BY <1>1
  <2>3. stream' \in Seq(S \cup {e})
    BY <2>1, <2>2
  <2> QED
    BY <1>1, <2>1, <2>3
<1> QED
  BY <1>2, <1>3 DEF StreamStays

\* What the model puts into the stream is an event.
LEMMA EventsAreOK == \A s \in Sources : \A r, v : EventOK(Event(s, r, v))
BY DEF EventOK, Event

\* A step that concerns no task.
LEMMA TasksStay ==
    ASSUME TaskInv, UNCHANGED <<task, op>>, StreamStays
    PROVE  TaskInv' /\ ReleasesGoOn
<1>1. \E S : stream' \in Seq(S) /\ \A e \in S : EventOK(e)
  BY StreamKept
<1> QED
  BY <1>1 DEF TaskInv, TaskShape, ReleasesGoOn, TaskFields, EventOK

\* A handler that goes on: its promise is for as long as it scans.
LEMMA BecomeKeeps ==
    ASSUME TaskInv, OpTypeOK, NEW p \in Clients, NEW r, Become(p, r),
           DOMAIN r \subseteq TaskFields \ {"source"},
           "kind" \in DOMAIN r => r.kind = task[p].kind \/ op'[p] = None,
           "at" \in DOMAIN r => r.at \in ScanStages \/ op'[p] = None,
           \/ op' = op
           \/ op' = [op EXCEPT ![p] = None]
           \/ (task[p].kind = "push" /\ "at" \in DOMAIN r /\ \E o : op' = [op EXCEPT ![p] = o]),
           StreamStays
    PROVE  TaskInv'
<1>1. /\ TaskShape' /\ OthersStay(p)
      /\ \A x \in TaskFields : task'[p][x] = IF x \in DOMAIN r THEN r[x] ELSE task[p][x]
  BY BecomeChanges DEF TaskInv
<1>2. \E S : stream' \in Seq(S) /\ \A e \in S : EventOK(e)
  BY StreamKept
<1>3. "source" \in TaskFields /\ "kind" \in TaskFields /\ "at" \in TaskFields
  BY TaskFieldsAre
<1>4. \A q \in Clients : task'[q].source = task[q].source
  BY <1>1, <1>3 DEF OthersStay
<1>5. \A q \in Clients \ {p} : op'[q] = op[q] /\ task'[q] = task[q]
  BY <1>1 DEF OpTypeOK, OthersStay
<1>6. op'[p] # None => task'[p].kind = "push" /\ task'[p].at \in ScanStages
  BY <1>1, <1>3 DEF OpTypeOK, TaskInv
<1>7. \A q \in Clients : task'[q].source \in Sources
  BY <1>4 DEF TaskInv
<1>8. \A q \in Clients : op'[q] # None => task'[q].kind = "push" /\ task'[q].at \in ScanStages
  BY <1>5, <1>6 DEF TaskInv
<1> QED
  BY <1>1, <1>2, <1>7, <1>8 DEF TaskInv, EventOK

\* A handler that ends: its promise is over with it.
LEMMA EndKeeps ==
    ASSUME TaskInv, OpTypeOK, NEW p \in Clients, End(p),
           (op' = op /\ op[p] = None) \/ op' = [op EXCEPT ![p] = None],
           StreamStays
    PROVE  TaskInv' /\ ReleasesGoOn
<1>1. TaskShape' /\ OthersStay(p) /\ task'[p] = Idle
  BY EndChanges DEF TaskInv
<1>2. \E S : stream' \in Seq(S) /\ \A e \in S : EventOK(e)
  BY StreamKept
<1>3. Idle.source \in Sources /\ Idle.kind = "none"
  BY LibIsSource DEF Idle
<1>4. \A q \in Clients : (op'[q] = op[q] /\ q # p) \/ op'[q] = None
  BY DEF OpTypeOK
<1> QED
  BY <1>1, <1>2, <1>3, <1>4 DEF TaskInv, EventOK, OthersStay, ReleasesGoOn

\* A step of a handler that is not a release leaves the releases where they are.
LEMMA NoReleaseGoesOn ==
    ASSUME NEW p \in Clients, OthersStay(p), task'[p].kind # "release"
    PROVE  ReleasesGoOn
BY DEF OthersStay, ReleasesGoOn

\* The work on an update goes on (ScannerManagerImpl.processRepository).
LEMMA WorkBecomes ==
    ASSUME TaskInv, OpTypeOK, NEW p \in Clients, NEW r, Become(p, r), Goes, UNCHANGED stream,
           task[p].kind # "release",
           DOMAIN r \subseteq TaskFields \ {"source", "kind"}, "at" \in DOMAIN r => r.at \in ScanStages
    PROVE  TaskInv' /\ ReleasesGoOn
<1>0. op' = op /\ StreamStays /\ "kind" \notin DOMAIN r /\ DOMAIN r \subseteq TaskFields \ {"source"}
  BY DEF Goes, StreamStays
<1>1. TaskInv'
  BY <1>0, BecomeKeeps
<1>2. "kind" \in TaskFields
  BY TaskFieldsAre
<1>3. OthersStay(p) /\ task'[p].kind = task[p].kind
  BY <1>2, BecomeChanges DEF TaskInv
<1> QED
  BY <1>1, <1>3, NoReleaseGoesOn

\* A promise that is settled is no longer waited for.
LEMMA SettlesEndsOp ==
    ASSUME OpTypeOK, NEW p \in Clients, NEW v, Settles(p, v)
    PROVE  (op' = op /\ op[p] = None) \/ op' = [op EXCEPT ![p] = None]
BY DEF Settles, Goes

\* The work on an update ends.
LEMMA WorkEndsKeeps ==
    ASSUME TaskInv, OpTypeOK, NEW p \in Clients, WorkEnds(p), UNCHANGED stream
    PROVE  TaskInv' /\ ReleasesGoOn
<1>1. End(p) /\ StreamStays
  BY DEF WorkEnds, StreamStays
<1>2. (op' = op /\ op[p] = None) \/ op' = [op EXCEPT ![p] = None]
  BY SettlesEndsOp DEF WorkEnds
<1> QED
  BY <1>1, <1>2, EndKeeps

\* The labels that are left are taken up, or there are none.
LEMMA NextLabelsKeeps ==
    ASSUME TaskInv, OpTypeOK, NEW p \in Clients, NEW kind, NEW labels, NextLabels(p, kind, labels),
           UNCHANGED stream, task[p].kind # "release", kind # "release",
           (op' = op /\ (kind = task[p].kind \/ op[p] = None)) \/ op' = [op EXCEPT ![p] = None]
    PROVE  TaskInv' /\ ReleasesGoOn
<1> DEFINE r == [kind |-> kind, at |-> "labels", again |-> FALSE, want |-> Restrict(task[p].want, labels)]
<1>1. DOMAIN r = {"kind", "at", "again", "want"} /\ r.kind = kind /\ Become(p, r)
  BY DEF NextLabels
<1> HIDE DEF r
<1>2. DOMAIN r \subseteq TaskFields \ {"source"} /\ "kind" \in TaskFields
  BY <1>1, TaskFieldsAre
<1>3. op' = op \/ op' = [op EXCEPT ![p] = None]
  OBVIOUS
<1>4. (r.kind = task[p].kind \/ op'[p] = None) /\ r.at \in ScanStages
  BY <1>1 DEF OpTypeOK, r, ScanStages
<1>7. StreamStays
  BY DEF StreamStays
<1>5. TaskInv'
  BY <1>1, <1>2, <1>3, <1>4, <1>7, BecomeKeeps
<1>6. OthersStay(p) /\ task'[p].kind = kind
  BY <1>1, <1>2, BecomeChanges DEF TaskInv
<1> QED
  BY <1>5, <1>6, NoReleaseGoesOn

\* The work on one label is done.
LEMMA LabelDoneKeeps ==
    ASSUME TaskInv, OpTypeOK, NEW p \in Clients, LabelDone(p), UNCHANGED stream, task[p].kind # "release"
    PROVE  TaskInv' /\ ReleasesGoOn
<1>1. CASE WorkEnds(p)
  BY <1>1, WorkEndsKeeps
<1>2. CASE NextLabels(p, task[p].kind, LabelsLeft(p)) /\ op' = op
  BY <1>2, NextLabelsKeeps
<1> QED
  BY <1>1, <1>2 DEF LabelDone, Goes

\* The work on one label fails: the scan is over for those who wait, and the other
\* labels are worked on by what nobody waits for.
LEMMA WorkFailsKeeps ==
    ASSUME TaskInv, OpTypeOK, NEW p \in Clients, WorkFails(p), UNCHANGED stream, task[p].kind # "release"
    PROVE  TaskInv' /\ ReleasesGoOn
<1>1. (op' = op /\ op[p] = None) \/ op' = [op EXCEPT ![p] = None]
  BY SettlesEndsOp DEF WorkFails
<1>2. CASE End(p)
  <2>1. StreamStays
    BY DEF StreamStays
  <2> QED
    BY <1>1, <1>2, <2>1, EndKeeps
<1>3. CASE NextLabels(p, "orphan", LabelsLeft(p))
  <2>1. "orphan" # "release"
    OBVIOUS
  <2>2. (op' = op /\ op[p] = None) \/ op' = [op EXCEPT ![p] = None]
    BY <1>1
  <2> QED
    BY <1>3, <2>1, <2>2, NextLabelsKeeps
<1> QED
  BY <1>2, <1>3 DEF WorkFails

\* A handler that works on updates is an upload, what is left of a scan, or a push.
LEMMA WorkerIsNoRelease ==
    ASSUME TaskInv, NEW p \in Clients, Working(p)
    PROVE  task[p].kind \in {"upload", "orphan", "push"}
BY DEF TaskInv, Working

\* Every step of the work on updates keeps the tasks in order and the releases where
\* they are (ScannerManagerImpl.processRepository).
LEMMA ScanKeepsTasks ==
    ASSUME TaskInv, OpTypeOK, NEW p \in Clients,
           \/ ReadModel(p) \/ ListUpdates(p) \/ ScannedBranch(p) \/ ScannedUpdate(p)
           \/ FindUpload(p) \/ Create(p) \/ LabelUpdate(p) \/ ShowUpdate(p)
           \/ EditUpdate(p) \/ PublishUpdate(p) \/ WorkRejected(p)
           \/ \E d \in Deps : LookUp(p, d) \/ StoreVersions(p, d) \/ LookUpFails(p, d)
           \/ \E l \in DOMAIN task[p].want : TakeLabel(p, l)
    PROVE  TaskInv' /\ ReleasesGoOn
<1>1. task[p].kind # "release" /\ UNCHANGED stream
  <2>1. Working(p) /\ UNCHANGED stream
    BY DEF WorkStep, ReadModel, ListUpdates, ScannedBranch, ScannedUpdate, FindUpload, Create,
           LabelUpdate, ShowUpdate, EditUpdate, PublishUpdate, WorkRejected, LookUp,
           StoreVersions, LookUpFails, TakeLabel
  <2> QED
    BY <2>1, WorkerIsNoRelease
<1>2. CASE WorkEnds(p) \/ WorkFails(p) \/ LabelDone(p)
  BY <1>1, <1>2, WorkEndsKeeps, WorkFailsKeeps, LabelDoneKeeps
<1>3. ASSUME NEW r, Become(p, r), Goes, DOMAIN r \subseteq TaskFields \ {"source", "kind"},
             "at" \in DOMAIN r => r.at \in ScanStages
      PROVE  TaskInv' /\ ReleasesGoOn
  BY <1>1, <1>3, WorkBecomes
<1>4. CASE \E stage \in ScanStages : Go(p, stage) /\ Goes
  <2>1. PICK stage \in ScanStages : Become(p, [at |-> stage]) /\ Goes
    BY <1>4 DEF Go
  <2> DEFINE r == [at |-> stage]
  <2>2. DOMAIN r \subseteq TaskFields \ {"source", "kind"} /\ ("at" \in DOMAIN r => r.at \in ScanStages)
    BY TaskFieldsAre DEF ScanStages
  <2> QED
    BY <1>3, <2>1, <2>2
<1>5. CASE ReadModel(p)
  <2> DEFINE r == [model |-> repo[App].clone, at |-> "list"]
  <2>1. Become(p, r) /\ Goes
    BY <1>5 DEF ReadModel
  <2>2. DOMAIN r \subseteq TaskFields \ {"source", "kind"} /\ ("at" \in DOMAIN r => r.at \in ScanStages)
    BY TaskFieldsAre DEF ScanStages
  <2> HIDE DEF r
  <2> QED
    BY <1>3, <2>1, <2>2
<1>6. CASE ListUpdates(p)
  <2>1. CASE ~WorkEnds(p)
    <3>1. PICK a, b, c, d : /\ Become(p, [at |-> "look", seen |-> a, model |-> None, major |-> b,
                                          base |-> c, todo |-> d])
                            /\ Goes
      BY <1>6, <2>1 DEF ListUpdates
    <3> DEFINE r == [at |-> "look", seen |-> a, model |-> None, major |-> b, base |-> c, todo |-> d]
    <3>2. DOMAIN r \subseteq TaskFields \ {"source", "kind"} /\ ("at" \in DOMAIN r => r.at \in ScanStages)
      BY TaskFieldsAre DEF ScanStages
    <3> QED
      BY <1>3, <3>1, <3>2
  <2> QED
    BY <1>2, <2>1
<1>7. CASE \E d \in Deps : LookUp(p, d)
  <2>1. PICK a, b : /\ Become(p, [found |-> a, store |-> b]) \/ Become(p, [found |-> a, todo |-> b])
                    /\ Goes
    BY <1>7 DEF LookUp
  <2> DEFINE r == [found |-> a, store |-> b]
             s == [found |-> a, todo |-> b]
  <2>2. /\ DOMAIN r \subseteq TaskFields \ {"source", "kind"} /\ ("at" \in DOMAIN r => r.at \in ScanStages)
        /\ DOMAIN s \subseteq TaskFields \ {"source", "kind"} /\ "at" \notin DOMAIN s
    BY TaskFieldsAre DEF ScanStages
  <2> HIDE DEF r, s
  <2>3. Become(p, r) \/ Become(p, s)
    BY <2>1 DEF r, s
  <2> QED
    BY <1>3, <2>1, <2>2, <2>3
<1>8. CASE \E d \in Deps : StoreVersions(p, d) \/ LookUpFails(p, d)
  <2>1. PICK d \in Deps : StoreVersions(p, d) \/ LookUpFails(p, d)
    BY <1>8
  <2> DEFINE r == Stored(p, d)
             s == Over([found |-> Put(task[p].found, d, {})], r)
  <2>2. /\ DOMAIN r \subseteq TaskFields \ {"source", "kind"} /\ ("at" \in DOMAIN r => r.at \in ScanStages)
        /\ DOMAIN s \subseteq TaskFields \ {"source", "kind"} /\ "at" \notin DOMAIN s
    BY TaskFieldsAre DEF Stored, Over
  <2>3. Goes /\ (Become(p, r) \/ Become(p, s))
    BY <2>1 DEF StoreVersions, LookUpFails
  <2> HIDE DEF r, s
  <2> QED
    BY <1>3, <2>2, <2>3
<1>9. CASE ScannedBranch(p) \/ ScannedUpdate(p)
  <2>1. CASE ~WorkEnds(p) /\ ~LabelDone(p)
    <3>1. PICK a : \E b \in ScanStages : Become(p, [want |-> a, at |-> b]) /\ Goes
      BY <1>9, <2>1 DEF ScannedBranch, ScannedUpdate, ScanStages
    <3>3. PICK b \in ScanStages : Become(p, [want |-> a, at |-> b]) /\ Goes
      BY <3>1
    <3> DEFINE r == [want |-> a, at |-> b]
    <3>2. DOMAIN r \subseteq TaskFields \ {"source", "kind"} /\ ("at" \in DOMAIN r => r.at \in ScanStages)
      BY TaskFieldsAre DEF ScanStages
    <3> QED
      BY <1>3, <3>2, <3>3
  <2> QED
    BY <1>2, <2>1
<1>10. CASE \E l \in DOMAIN task[p].want : TakeLabel(p, l)
  <2>1. PICK l \in DOMAIN task[p].want : TakeLabel(p, l)
    BY <1>10
  <2>2. CASE Become(p, [label |-> l, at |-> "create"])
    <3> DEFINE r == [label |-> l, at |-> "create"]
    <3>1. DOMAIN r \subseteq TaskFields \ {"source", "kind"} /\ ("at" \in DOMAIN r => r.at \in ScanStages)
      BY TaskFieldsAre DEF ScanStages
    <3>2. Goes
      BY <2>1 DEF TakeLabel
    <3> QED
      BY <1>3, <2>2, <3>1, <3>2
  <2>3. CASE ~Become(p, [label |-> l, at |-> "create"])
    <3>1. PICK a, b, c : /\ Become(p, [label |-> l, id |-> a, at |-> "look", again |-> TRUE,
                                       base |-> b, found |-> NoOne, todo |-> c])
                         /\ Goes
      BY <2>1, <2>3 DEF TakeLabel
    <3> DEFINE r == [label |-> l, id |-> a, at |-> "look", again |-> TRUE,
                     base |-> b, found |-> NoOne, todo |-> c]
    <3>2. DOMAIN r \subseteq TaskFields \ {"source", "kind"} /\ ("at" \in DOMAIN r => r.at \in ScanStages)
      BY TaskFieldsAre DEF ScanStages
    <3> QED
      BY <1>3, <3>1, <3>2
  <2> QED
    BY <2>2, <2>3
<1>11. CASE FindUpload(p) \/ Create(p)
  <2>1. CASE ~Go(p, "create")
    <3>1. PICK a : \E b \in ScanStages : Become(p, [id |-> a, at |-> b]) /\ Goes
      BY <1>11, <2>1 DEF FindUpload, Create, ScanStages
    <3>3. PICK b \in ScanStages : Become(p, [id |-> a, at |-> b]) /\ Goes
      BY <3>1
    <3> DEFINE r == [id |-> a, at |-> b]
    <3>2. DOMAIN r \subseteq TaskFields \ {"source", "kind"} /\ ("at" \in DOMAIN r => r.at \in ScanStages)
      BY TaskFieldsAre DEF ScanStages
    <3> QED
      BY <1>3, <3>2, <3>3
  <2> QED
    BY <1>4, <1>11, <2>1 DEF FindUpload, Create, ScanStages
<1>12. CASE LabelUpdate(p) \/ ShowUpdate(p) \/ EditUpdate(p) \/ PublishUpdate(p) \/ WorkRejected(p)
  BY <1>2, <1>4, <1>12 DEF LabelUpdate, ShowUpdate, EditUpdate, PublishUpdate, WorkRejected, ScanStages
<1> QED
  BY <1>5, <1>6, <1>7, <1>8, <1>9, <1>10, <1>11, <1>12

\* So does every step of the handler of a push (BuildSystemImpl.onPush).
LEMMA PushKeepsTasks ==
    ASSUME TaskInv, OpTypeOK, NEW p \in Clients,
           \/ Deliver(p) \/ EnsurePushed(p) \/ ReadDependencies(p) \/ ReadIndex(p) \/ ReplaceIndex(p)
           \/ Invalidate(p) \/ FindUsers(p) \/ AskScan(p) \/ PushRejected(p)
    PROVE  TaskInv' /\ ReleasesGoOn
<1>1. CASE Deliver(p)
  <2> DEFINE r == Over([kind |-> "push", at |-> "ensure"], Head(stream))
  <2>1. PICK S : stream \in Seq(S) /\ \A e \in S : EventOK(e)
    BY DEF TaskInv
  <2>2. stream # <<>> /\ EventOK(Head(stream)) /\ stream' = Tail(stream) /\ UNCHANGED op
    BY <1>1, <2>1 DEF Deliver, StartTask
  <2>3. /\ DOMAIN r = {"kind", "at", "source", "ref", "version"}
        /\ r.kind = "push" /\ r.source \in Sources
    BY <2>2 DEF Over, EventOK
  <2>4. StartTask(p, r)
    BY <1>1 DEF Deliver
  <2> HIDE DEF r
  <2>5. DOMAIN r \subseteq TaskFields /\ "kind" \in TaskFields /\ "source" \in TaskFields
    BY <2>3, TaskFieldsAre
  <2>6. TaskShape' /\ OthersStay(p) /\ task'[p].kind = "push" /\ task'[p].source \in Sources
    BY <2>3, <2>4, <2>5, StartChanges DEF TaskInv
  <2>7. \E T : stream' \in Seq(T) /\ \A e \in T : EventOK(e)
    BY <2>2, StreamKept DEF StreamStays
  <2> QED
    <3>1. op[p] = None
      BY <1>1 DEF Deliver, StartTask, Busy, TaskInv
    <3>2. \A q \in Clients \ {p} : task'[q] = task[q]
      BY <2>6 DEF OthersStay
    <3>3. ReleasesGoOn
      BY <2>6, NoReleaseGoesOn
    <3> QED
      BY <2>2, <2>6, <2>7, <3>1, <3>2, <3>3 DEF TaskInv, EventOK
<1>2. ASSUME task[p].kind = "push", UNCHANGED <<op, stream>>, op[p] = None,
             \/ End(p)
             \/ \E r : Become(p, r) /\ DOMAIN r \subseteq TaskFields \ {"source", "kind"}
      PROVE  TaskInv' /\ ReleasesGoOn
  <2>1. StreamStays
    BY <1>2 DEF StreamStays
  <2>2. CASE End(p)
    BY <1>2, <2>1, <2>2, EndKeeps
  <2>3. CASE \E r : Become(p, r) /\ DOMAIN r \subseteq TaskFields \ {"source", "kind"}
    <3>1. PICK r : Become(p, r) /\ DOMAIN r \subseteq TaskFields \ {"source", "kind"}
      BY <2>3
    <3>2. "kind" \notin DOMAIN r /\ DOMAIN r \subseteq TaskFields \ {"source"}
      BY <3>1
    <3>3. op' = op /\ op'[p] = None
      BY <1>2
    <3>4. TaskInv'
      BY <2>1, <3>1, <3>2, <3>3, BecomeKeeps
    <3>5. "kind" \in TaskFields
      BY TaskFieldsAre
    <3>6. OthersStay(p) /\ task'[p].kind = task[p].kind
      BY <3>1, <3>2, <3>5, BecomeChanges DEF TaskInv
    <3> QED
      BY <1>2, <3>4, <3>6, NoReleaseGoesOn
  <2> QED
    BY <1>2, <2>2, <2>3
<1>3. CASE EnsurePushed(p) \/ ReadDependencies(p) \/ ReadIndex(p) \/ ReplaceIndex(p) \/ FindUsers(p)
           \/ PushRejected(p)
  <2>1. task[p].kind = "push" /\ UNCHANGED <<op, stream>>
    BY <1>3 DEF EnsurePushed, ReadDependencies, ReadIndex, ReplaceIndex, FindUsers, PushRejected,
               PushStep, At
  <2>2. task[p].at \in {"ensure", "dependencies", "read", "replace", "lookup"}
    BY <1>3 DEF EnsurePushed, ReadDependencies, ReadIndex, ReplaceIndex, FindUsers, PushRejected,
               PushStep, At
  <2>3. op[p] = None
    BY <2>2 DEF TaskInv, ScanStages
  <2>4. ASSUME NEW stage, Go(p, stage) PROVE \E r : Become(p, r) /\ DOMAIN r \subseteq TaskFields \ {"source", "kind"}
    <3> DEFINE r == [at |-> stage]
    <3>1. DOMAIN r \subseteq TaskFields \ {"source", "kind"}
      BY TaskFieldsAre
    <3> QED
      BY <2>4, <3>1 DEF Go
  <2>5. CASE EnsurePushed(p) \/ ReadIndex(p) \/ ReplaceIndex(p) \/ FindUsers(p)
    <3>1. End(p) \/ \E stage : Go(p, stage)
      BY <2>5 DEF EnsurePushed, ReadIndex, ReplaceIndex, FindUsers
    <3> QED
      BY <1>2, <2>1, <2>3, <2>4, <3>1
  <2>6. CASE ReadDependencies(p)
    <3>1. PICK y : Become(p, [at |-> "read", todo |-> y])
      BY <2>6 DEF ReadDependencies
    <3> DEFINE r == [at |-> "read", todo |-> y]
    <3>2. DOMAIN r \subseteq TaskFields \ {"source", "kind"}
      BY TaskFieldsAre
    <3> QED
      BY <1>2, <2>1, <2>3, <3>1, <3>2
  <2>7. CASE PushRejected(p)
    <3> DEFINE r == [at |-> "ensure", tried |-> TRUE, todo |-> {}]
    <3>1. End(p) \/ Become(p, r)
      BY <2>7 DEF PushRejected
    <3>2. DOMAIN r \subseteq TaskFields \ {"source", "kind"}
      BY TaskFieldsAre
    <3> HIDE DEF r
    <3> QED
      BY <1>2, <2>1, <2>3, <3>1, <3>2
  <2> QED
    BY <1>3, <2>5, <2>6, <2>7
<1>4. CASE Invalidate(p)
  <2> DEFINE s(q) == IF q = p THEN [at |-> "lookup"] ELSE [late |-> task[q].late \cup task[q].store]
             t(q) == Over(s(q), task[q])
  <2>1. task' = [q \in Clients |-> t(q)] /\ task[p].kind = "push" /\ UNCHANGED <<op, stream>>
    BY <1>4 DEF Invalidate, PushStep, At
  <2>2. \A q \in Clients : DOMAIN s(q) = IF q = p THEN {"at"} ELSE {"late"}
    OBVIOUS
  <2> HIDE DEF s
  <2>3. ASSUME NEW q \in Clients
        PROVE  t(q) = [x \in TaskFields |-> IF x \in DOMAIN s(q) THEN s(q)[x] ELSE task[q][x]]
    BY <2>2, TaskFieldsAre DEF Over, TaskInv, TaskShape
  <2> HIDE DEF t
  <2>4. TaskShape'
    BY <2>1, <2>3 DEF TaskShape, TaskFields
  <2>5. {"kind", "source", "at", "version", "sha", "major"} \subseteq TaskFields
    BY TaskFieldsAre
  <2>6. \A q \in Clients, x \in TaskFields \ {"late"} :
           q # p \/ x # "at" => task'[q][x] = task[q][x]
    BY <2>1, <2>2, <2>3
  <2>10. \A q \in Clients : task'[q].kind = task[q].kind /\ task'[q].source = task[q].source
    BY <2>5, <2>6
  <2>11. \A q \in Clients \ {p} : task'[q].at = task[q].at
    BY <2>5, <2>6
  <2>7. op[p] = None
    BY <1>4 DEF Invalidate, PushStep, At, TaskInv, ScanStages
  <2>8. \E S : stream' \in Seq(S) /\ \A e \in S : EventOK(e)
    BY <2>1, StreamKept DEF StreamStays
  <2>9. ReleasesGoOn
    <3>1. {"at", "version", "sha", "major"} \subseteq TaskFields \ {"late"}
      BY <2>5
    <3> QED
      BY <2>1, <2>6, <2>10, <3>1 DEF ReleasesGoOn
  <2> QED
    BY <2>1, <2>4, <2>7, <2>8, <2>9, <2>10, <2>11 DEF TaskInv, EventOK
<1>5. CASE AskScan(p)
  <2> DEFINE r == [at |-> "scan"]
  <2>1. task[p].kind = "push" /\ UNCHANGED stream /\ Become(p, r) /\ \E o : op' = [op EXCEPT ![p] = o]
    BY <1>5 DEF AskScan, PushStep, At, Go
  <2>2. DOMAIN r = {"at"} /\ r.at \in ScanStages
    BY DEF ScanStages
  <2> HIDE DEF r
  <2>3. DOMAIN r \subseteq TaskFields \ {"source"} /\ "kind" \notin DOMAIN r /\ "kind" \in TaskFields /\ StreamStays
    BY <2>1, <2>2, TaskFieldsAre DEF StreamStays
  <2>4. TaskInv'
    BY <2>1, <2>2, <2>3, BecomeKeeps
  <2>5. OthersStay(p) /\ task'[p].kind = task[p].kind
    BY <2>1, <2>3, BecomeChanges DEF TaskInv
  <2> QED
    BY <2>1, <2>4, <2>5, NoReleaseGoesOn
<1> QED
  BY <1>1, <1>3, <1>4, <1>5

\* A task that is started by a client which is idle.
LEMMA StartKeeps ==
    ASSUME TaskInv, NEW p \in Clients, NEW r, StartTask(p, r), ~Busy(p),
           DOMAIN r \subseteq TaskFields \ {"source"}, StreamStays
    PROVE  TaskInv' /\ OthersStay(p)
           /\ \A x \in TaskFields : task'[p][x] = IF x \in DOMAIN r THEN r[x] ELSE Idle[x]
<1>1. /\ TaskShape' /\ OthersStay(p)
      /\ \A x \in TaskFields : task'[p][x] = IF x \in DOMAIN r THEN r[x] ELSE Idle[x]
  BY StartChanges DEF TaskInv
<1>2. op[p] = None /\ UNCHANGED op
  BY DEF Busy, TaskInv, StartTask
<1>3. "source" \in TaskFields /\ Idle.source \in Sources
  BY TaskFieldsAre, LibIsSource DEF Idle
<1>4. \E S : stream' \in Seq(S) /\ \A e \in S : EventOK(e)
  BY StreamKept
<1> QED
  BY <1>1, <1>2, <1>3, <1>4 DEF TaskInv, OthersStay, EventOK

\* What comes from outside concerns no task.
LEMMA OutsideKeepsTasks ==
    ASSUME TaskInv, OpTypeOK,
           \/ MergeLib
           \/ \E m \in 1 .. 3 : CreatePatch(m)
           \/ PushTopic
           \/ \E d \in Refs : CacheExpires(d)
           \/ \E u \in DOMAIN updates : MergeProposal(u)
           \/ \E d \in Deps : EditApp(d)
           \/ \E c \in calls : Land(c)
           \/ \E o \in Ops : BeginScan(o)
    PROVE  TaskInv' /\ ReleasesGoOn
<1>1. UNCHANGED <<task, op>>
  BY DEF MergeLib, CreatePatch, PushTopic, CacheExpires, MergeProposal, EditApp, AppMoves, Outside,
         Land, BeginScan
<1>2. StreamStays
  <2>1. \/ stream' = stream
        \/ \E s \in Sources : \E r, v : stream' = Append(stream, Event(s, r, v))
    BY LibIsSource DEF MergeLib, CreatePatch, PushTopic, CacheExpires, MergeProposal, EditApp,
         AppMoves, Outside, Land, BeginScan
  <2> QED
    BY <2>1, EventsAreOK DEF StreamStays
<1> QED
  BY <1>1, <1>2, TasksStay

\* The admin routers start a task for a client that is idle.
LEMMA AdminKeepsTasks ==
    ASSUME TaskInv, NEW p \in Clients,
           \/ \E m \in 1 .. 3 : AddMajor(p, m)
           \/ \E d \in Deps, v \in Tagged : UploadContent(p, d, v)
    PROVE  TaskInv' /\ ReleasesGoOn
<1>1. PICK r : /\ StartTask(p, r) /\ ~Busy(p) /\ UNCHANGED stream
               /\ DOMAIN r \subseteq TaskFields \ {"source"} /\ "kind" \in DOMAIN r /\ r.kind # "release"
  <2>1. CASE \E m \in 1 .. 3 : AddMajor(p, m)
    <3>1. PICK m \in 1 .. 3 : AddMajor(p, m)
      BY <2>1
    <3> DEFINE r == [kind |-> "apply", at |-> "apply", major |-> m, todo |-> Sources]
    <3>2. DOMAIN r \subseteq TaskFields \ {"source"} /\ "kind" \in DOMAIN r /\ r.kind # "release"
      BY TaskFieldsAre
    <3> HIDE DEF r
    <3>3. StartTask(p, r) /\ ~Busy(p) /\ UNCHANGED stream
      BY <3>1 DEF AddMajor, StartTask, r
    <3> QED
      BY <3>2, <3>3
  <2>2. CASE \E d \in Deps, v \in Tagged : UploadContent(p, d, v)
    <3>1. PICK d \in Deps, v \in Tagged : UploadContent(p, d, v)
      BY <2>2
    <3> DEFINE r == [kind |-> "upload", at |-> "list", label |-> LabelOf[d],
                     want |-> [l \in {LabelOf[d]} |-> [Tip EXCEPT ![d] = v]]]
    <3>2. DOMAIN r \subseteq TaskFields \ {"source"} /\ "kind" \in DOMAIN r /\ r.kind # "release"
      BY TaskFieldsAre
    <3> HIDE DEF r
    <3>3. StartTask(p, r) /\ ~Busy(p) /\ UNCHANGED stream
      BY <3>1 DEF UploadContent, StartTask, r
    <3> QED
      BY <3>2, <3>3
  <2> QED
    BY <2>1, <2>2
<1>2. StreamStays /\ "kind" \in TaskFields
  BY <1>1, TaskFieldsAre DEF StreamStays
<1>3. TaskInv' /\ OthersStay(p) /\ task'[p].kind = r.kind
  BY <1>1, <1>2, StartKeeps
<1> QED
  BY <1>1, <1>3, NoReleaseGoesOn

\* Tagging of majors goes from one repository to the next (applyMajors).
LEMMA ApplyKeepsTasks ==
    ASSUME TaskInv, OpTypeOK, NEW p \in Clients, NEW s \in Sources, ApplyMajor(p, s)
    PROVE  TaskInv' /\ ReleasesGoOn
<1>1. task[p].kind = "apply" /\ UNCHANGED op /\ op[p] = None
  BY DEF ApplyMajor, At, TaskInv
<1>2. StreamStays
  BY EventsAreOK DEF ApplyMajor, StreamStays
<1>3. CASE End(p)
  BY <1>1, <1>2, <1>3, EndKeeps
<1>4. CASE ~End(p)
  <2>1. PICK y : Become(p, [todo |-> y])
    BY <1>4 DEF ApplyMajor
  <2> DEFINE r == [todo |-> y]
  <2>2. DOMAIN r = {"todo"} /\ Become(p, r)
    BY <2>1
  <2> HIDE DEF r
  <2>3. DOMAIN r \subseteq TaskFields \ {"source"} /\ "kind" \in TaskFields \ DOMAIN r /\ "at" \notin DOMAIN r
    BY <2>2, TaskFieldsAre
  <2>4. TaskInv'
    BY <1>1, <1>2, <2>2, <2>3, BecomeKeeps
  <2>5. OthersStay(p) /\ task'[p].kind = task[p].kind
    BY <2>2, <2>3, BecomeChanges DEF TaskInv
  <2> QED
    BY <1>1, <2>4, <2>5, NoReleaseGoesOn
<1> QED
  BY <1>3, <1>4

\* A restart ends all tasks and forgets the events on their way.
LEMMA RestartKeepsTasks ==
    ASSUME TaskInv, Restart \/ \E c \in calls : UploadFails(c)
    PROVE  TaskInv' /\ ReleasesGoOn
<1>1. /\ task' = [p \in Clients |-> Idle] /\ op' = [p \in Clients |-> None] /\ UNCHANGED stream
  BY DEF Restart, UploadFails, Restarted
<1>2. Idle = [x \in TaskFields |-> Idle[x]] /\ Idle.kind = "none" /\ Idle.source \in Sources
  BY TaskFieldsAre, LibIsSource DEF Idle
<1>3. TaskShape'
  BY <1>1, <1>2 DEF TaskShape, TaskFields
<1>4. \E S : stream' \in Seq(S) /\ \A e \in S : EventOK(e)
  BY <1>1, StreamKept DEF StreamStays
<1> QED
  BY <1>1, <1>2, <1>3, <1>4 DEF TaskInv, ReleasesGoOn, EventOK

-----------------------------------------------------------------------------
\* Tags and binaries.

\* The binary of that kind is a copy of the commit, or the copy of it is asked for;
\* nothing is copied to a path of one segment.
Copied(k, v, sha) ==
    \/ k = "flat"
    \/ v \in DOMAIN published[k] /\ published[k][v] = sha
    \/ \E c \in calls : c.kind = k /\ c.version = v /\ c.sha = sha

\* Where a release is, and the releases that have chosen a version.
InRelease(p, stage) == task[p].kind = "release" /\ task[p].at = stage
Releasing(p) == InRelease(p, "publications") \/ InRelease(p, "tag")

\* The inductive invariant behind PublishedIsTagged.  But for the versions that are
\* excused: of two releases at work no two have the same version, a version at work has
\* no tag, nothing is copied to it before the release asks, and once it has asked all
\* that it publishes is there or asked for, from its commit and by itself; the binaries
\* of a tag are there or asked for, and what is waited for has landed. A path of one
\* segment is neither asked for nor published (CallsOK).
ReleaseTasksOK == \A p \in Clients : task[p].kind = "release" =>
    \/ task[p].at = "next" /\ task[p].version = Undefined /\ task[p].major \in Nat
    \/ task[p].at \in {"publications", "tag"} /\ task[p].version \in Release
CallsOK ==
    /\ \A c \in calls : c.kind \in Publications \ {"flat"} /\ c.version \in Release
    /\ "flat" \in Publications => DOMAIN published["flat"] = {}
OneRelease == \A p, q \in Clients :
    p # q /\ Releasing(p) /\ Releasing(q) /\ task[p].version = task[q].version
    => task[p].version \in excused
NotTagged == \A p \in Clients : Releasing(p) => task[p].version \notin Tagged \ excused
NothingCalled == \A p \in Clients : InRelease(p, "publications") /\ task[p].version \notin excused =>
    \A c \in calls : c.version # task[p].version
AllCalled == \A p \in Clients : InRelease(p, "tag") /\ task[p].version \notin excused =>
    /\ \A c \in calls : c.version = task[p].version => c.by = p /\ c.sha = task[p].sha
    /\ \A k \in Publications : Copied(k, task[p].version, task[p].sha)
AllCopied == \A v \in Tagged \ excused :
    /\ \A c \in calls : c.version = v =>
          c.kind # "artifact" /\ c.sha = repo[Lib].remote.releases[v]
    /\ \A k \in Publications : Copied(k, v, repo[Lib].remote.releases[v])
ReleaseInv ==
    /\ published = [k \in Publications |-> published[k]]
    /\ ReleaseTasksOK /\ CallsOK /\ OneRelease /\ NotTagged /\ NothingCalled /\ AllCalled /\ AllCopied
FlowInv == OpTypeOK /\ TaskInv /\ RepoInv /\ ReleaseInv

\* The invariant says what the property says.
LEMMA ReleasesAsTagged == ReleaseInv => PublishedIsTagged
<1> SUFFICES ASSUME ReleaseInv, NEW v \in Tagged \ excused, NEW k \in Publications
             PROVE  LET sha == repo[Lib].remote.releases[v] IN
                    \/ v \in DOMAIN published[k] /\ published[k][v] = sha
                    \/ (k = "image" /\ \E c \in calls : c.kind = k /\ c.version = v /\ c.sha = sha)
                    \/ (k = "flat" /\ v \notin DOMAIN published[k])
  BY DEF PublishedIsTagged
<1>1. Copied(k, v, repo[Lib].remote.releases[v]) /\ \A c \in calls : c.version = v => c.kind # "artifact"
  BY DEF ReleaseInv, AllCopied
<1>2. k = "flat" => v \notin DOMAIN published[k]
  BY DEF ReleaseInv, CallsOK
<1>3. k = "artifact" \/ k = "flat" \/ k = "image"
  BY PublicationsAreThree
<1> QED
  BY <1>1, <1>2, <1>3 DEF Copied

\* Steps that leave tags, binaries and releases alone keep it.
LEMMA NoReleaseStep ==
    ASSUME ReleaseInv, ReleasesGoOn, TagsStay, UNCHANGED releaseVars
    PROVE  ReleaseInv'
<1>1. UNCHANGED <<published, calls, excused>> /\ repo'[Lib].remote.releases = repo[Lib].remote.releases
  BY DEF releaseVars, TagsStay
<1>2. Tagged' = Tagged
  BY <1>1 DEF Tagged
<1>3. \A p \in Clients : \A stage : InRelease(p, stage)' => InRelease(p, stage) /\ task'[p].version = task[p].version /\ task'[p].sha = task[p].sha
  BY DEF ReleasesGoOn, InRelease
<1>4. \A p \in Clients : Releasing(p)' => Releasing(p) /\ task'[p].version = task[p].version
  BY <1>3 DEF Releasing
<1>5. \A k, v, sha : Copied(k, v, sha)' <=> Copied(k, v, sha)
  BY <1>1 DEF Copied
<1>6. ReleaseTasksOK' /\ CallsOK'
  BY <1>1 DEF ReleaseInv, ReleaseTasksOK, CallsOK, ReleasesGoOn
<1>7. OneRelease' /\ NotTagged'
  BY <1>1, <1>2, <1>4 DEF ReleaseInv, OneRelease, NotTagged
<1>8. NothingCalled'
  BY <1>1, <1>3 DEF ReleaseInv, NothingCalled
<1>9. AllCalled'
  BY <1>1, <1>3, <1>5 DEF ReleaseInv, AllCalled
<1>10. AllCopied'
  BY <1>1, <1>2, <1>5 DEF ReleaseInv, AllCopied
<1> QED
  BY <1>1, <1>6, <1>7, <1>8, <1>9, <1>10 DEF ReleaseInv

\* A release that is requested has no version yet (router /release).
LEMMA RequestReleaseInv ==
    ASSUME FlowInv, NEW p \in Clients, NEW m \in 1 .. 3, NEW sha, RequestRelease(p, m, sha)
    PROVE  FlowInv'
<1> DEFINE r == [kind |-> "release", at |-> "next", major |-> m, sha |-> sha]
<1>1. DOMAIN r = {"kind", "at", "major", "sha"} /\ r.kind = "release" /\ r.at = "next" /\ r.major \in Nat
  OBVIOUS
<1> HIDE DEF r
<1>2. StartTask(p, r) /\ ~Busy(p) /\ UNCHANGED <<releaseVars, repo, op, stream>>
  BY DEF RequestRelease, StartTask, r
<1>3. DOMAIN r \subseteq TaskFields \ {"source"} /\ {"kind", "at", "major", "sha", "version"} \subseteq TaskFields /\ StreamStays
  BY <1>1, <1>2, TaskFieldsAre DEF StreamStays
<1>4. /\ TaskInv' /\ OthersStay(p) /\ task'[p].kind = "release" /\ task'[p].at = "next"
      /\ task'[p].version = Undefined /\ task'[p].major \in Nat
  BY <1>1, <1>2, <1>3, StartKeeps, IdleIs DEF FlowInv
<1>5. TagsStay
  BY <1>2, UnchangedRepo DEF FlowInv
<1>6. \A q \in Clients : q # p => task'[q] = task[q]
  BY <1>4 DEF OthersStay
<1>7. UNCHANGED <<published, calls, excused>> /\ repo'[Lib].remote.releases = repo[Lib].remote.releases
  BY <1>2 DEF releaseVars
<1>8. \A q \in Clients, stage \in {"publications", "tag"} : InRelease(q, stage)' =>
          InRelease(q, stage) /\ task'[q] = task[q]
  BY <1>4, <1>6 DEF InRelease
<1>9. \A q \in Clients : Releasing(q)' => Releasing(q) /\ task'[q] = task[q]
  BY <1>8 DEF Releasing
<1>10. Tagged' = Tagged /\ \A k, v, s : Copied(k, v, s)' <=> Copied(k, v, s)
  BY <1>7 DEF Tagged, Copied
<1>11. ReleaseTasksOK' /\ CallsOK'
  BY <1>4, <1>6, <1>7 DEF FlowInv, ReleaseInv, ReleaseTasksOK, CallsOK
<1>12. OneRelease' /\ NotTagged' /\ NothingCalled'
  BY <1>7, <1>8, <1>9, <1>10 DEF FlowInv, ReleaseInv, OneRelease, NotTagged, NothingCalled
<1>13. AllCalled' /\ AllCopied'
  BY <1>7, <1>8, <1>10 DEF FlowInv, ReleaseInv, AllCalled, AllCopied
<1> QED
  BY <1>2, <1>4, <1>5, <1>7, <1>11, <1>12, <1>13 DEF FlowInv, ReleaseInv, OpTypeOK, TagsStay

\* The step of a release that goes on: what becomes of the tasks.
LEMMA ReleaseBecomes ==
    ASSUME FlowInv, NEW p \in Clients, task[p].kind = "release", NEW r, Become(p, r),
           DOMAIN r \subseteq {"at", "version"}, UNCHANGED op, StreamStays
    PROVE  /\ TaskInv' /\ OthersStay(p) /\ OpTypeOK'
           /\ task'[p].kind = "release" /\ task'[p].sha = task[p].sha
           /\ task'[p].at = IF "at" \in DOMAIN r THEN r.at ELSE task[p].at
           /\ task'[p].version = IF "version" \in DOMAIN r THEN r.version ELSE task[p].version
<1>1. op[p] = None /\ op' = op
  BY DEF FlowInv, TaskInv
<1>2. DOMAIN r \subseteq TaskFields \ {"source"} /\ {"kind", "at", "sha", "version"} \subseteq TaskFields
  BY TaskFieldsAre
<1>3. "kind" \notin DOMAIN r /\ "sha" \notin DOMAIN r
  OBVIOUS
<1>4. TaskInv'
  BY <1>1, <1>2, <1>3, BecomeKeeps DEF FlowInv
<1>5. OthersStay(p) /\ \A x \in TaskFields : task'[p][x] = IF x \in DOMAIN r THEN r[x] ELSE task[p][x]
  BY <1>2, BecomeChanges DEF FlowInv, TaskInv
<1> QED
  BY <1>1, <1>2, <1>3, <1>4, <1>5 DEF FlowInv, OpTypeOK

\* The version chosen is new to the clone: if Gerrit, a copy on its way or another
\* release has it, it is excused (BuildSystemImpl.release, getNextVersion).
LEMMA ChooseVersionInv ==
    ASSUME FlowInv, NEW p \in Clients, ChooseVersion(p)
    PROVE  FlowInv'
<1> DEFINE R == repo[Lib].clone
           v == NextVersion(R, task[p].major, "minor")
           r == [version |-> v, at |-> "publications"]
<1>1. /\ task[p].kind = "release" /\ task[p].at = "next" /\ Become(p, r)
      /\ UNCHANGED <<published, calls, repo, stream, op>>
      /\ excused' = IF Contested(p, v) THEN excused \cup {v} ELSE excused
  BY DEF ChooseVersion, ReleaseStep, At
<1>2. task[p].major \in Nat /\ DOMAIN R.releases \subseteq Tagged
  BY <1>1 DEF FlowInv, ReleaseInv, ReleaseTasksOK, RepoInv, ReleasesOK
<1>3. PICK b \in Nat : \A w \in Tagged : w[2] <= b
  BY DEF FlowInv, RepoInv, ReleasesOK
<1>4. v \in Release /\ v \notin DOMAIN R.releases
  <2>1. DOMAIN R.releases \subseteq Release /\ \A w \in DOMAIN R.releases : w[2] <= b
    BY <1>2, <1>3 DEF FlowInv, RepoInv, ReleasesOK
  <2> QED
    BY <1>2, <2>1, NextVersionIsNew
<1>5. DOMAIN r = {"version", "at"} /\ r.version = v /\ r.at = "publications"
  OBVIOUS
<1> HIDE DEF v, r
<1>6. /\ TaskInv' /\ OthersStay(p) /\ OpTypeOK' /\ task'[p].kind = "release"
      /\ task'[p].version = v /\ task'[p].at = "publications"
  <2>1. StreamStays
    BY <1>1 DEF StreamStays
  <2> QED
    BY <1>1, <1>5, <2>1, ReleaseBecomes
<1>7. TagsStay
  BY <1>1, UnchangedRepo DEF FlowInv
<1>8. \A q \in Clients : q # p => task'[q] = task[q]
  BY <1>6 DEF OthersStay
<1>9. \A q \in Clients, stage \in {"publications", "tag"} : q # p /\ InRelease(q, stage)' =>
          InRelease(q, stage) /\ task'[q] = task[q]
  BY <1>8 DEF InRelease
<1>10. \A q \in Clients : q # p /\ Releasing(q)' => Releasing(q) /\ task'[q] = task[q]
  BY <1>9 DEF Releasing
<1>11. Tagged' = Tagged /\ \A k, w, s : Copied(k, w, s)' <=> Copied(k, w, s)
  BY <1>1 DEF Tagged, Copied
<1>12. excused \subseteq excused' /\ excused' \subseteq excused \cup {v}
  BY <1>1
<1>13. ASSUME v \notin excused'
       PROVE  /\ v \notin Tagged
              /\ \A c \in calls : c.version # v
              /\ \A q \in Clients : q # p /\ Releasing(q) => task[q].version # v
  <2>1. ~Contested(p, v)
    BY <1>1, <1>13
  <2>2. v \notin AllVersions(R)
    BY <1>4 DEF AllVersions
  <2> QED
    BY <2>1, <2>2 DEF Contested, Releasing, InRelease
<1>14. ReleaseTasksOK' /\ CallsOK'
  BY <1>1, <1>4, <1>6, <1>8 DEF FlowInv, ReleaseInv, ReleaseTasksOK, CallsOK
<1>15. OneRelease'
  <2> SUFFICES ASSUME NEW q1 \in Clients, NEW q2 \in Clients, q1 # q2, Releasing(q1)', Releasing(q2)',
                      task'[q1].version = task'[q2].version
               PROVE  task'[q1].version \in excused'
    BY DEF OneRelease
  <2>1. CASE q1 = p
    BY <2>1, <1>6, <1>10, <1>13
  <2>2. CASE q2 = p
    BY <2>2, <1>6, <1>10, <1>13
  <2>3. CASE q1 # p /\ q2 # p
    BY <2>3, <1>10, <1>12 DEF FlowInv, ReleaseInv, OneRelease
  <2> QED
    BY <2>1, <2>2, <2>3
<1>16. NotTagged'
  <2> SUFFICES ASSUME NEW q \in Clients, Releasing(q)' PROVE task'[q].version \notin Tagged' \ excused'
    BY DEF NotTagged
  <2>1. CASE q = p
    BY <2>1, <1>6, <1>11, <1>13
  <2>2. CASE q # p
    BY <2>2, <1>10, <1>11, <1>12 DEF FlowInv, ReleaseInv, NotTagged
  <2> QED
    BY <2>1, <2>2
<1>17. NothingCalled'
  <2> SUFFICES ASSUME NEW q \in Clients, InRelease(q, "publications")', task'[q].version \notin excused',
                      NEW c \in calls
               PROVE  c.version # task'[q].version
    BY <1>1 DEF NothingCalled
  <2>1. CASE q = p
    BY <2>1, <1>6, <1>13
  <2>2. CASE q # p
    BY <2>2, <1>9, <1>12 DEF FlowInv, ReleaseInv, NothingCalled
  <2> QED
    BY <2>1, <2>2
<1>18. AllCalled'
  <2> SUFFICES ASSUME NEW q \in Clients, InRelease(q, "tag")', task'[q].version \notin excused'
               PROVE  (/\ \A c \in calls : c.version = task[q].version => c.by = q /\ c.sha = task[q].sha
                       /\ \A k \in Publications : Copied(k, task[q].version, task[q].sha))'
    BY DEF AllCalled
  <2>1. q # p
    BY <1>6 DEF InRelease
  <2>2. InRelease(q, "tag") /\ task'[q] = task[q] /\ task[q].version \notin excused
    BY <2>1, <1>9, <1>12
  <2>3. /\ \A c \in calls : c.version = task[q].version => c.by = q /\ c.sha = task[q].sha
        /\ \A k \in Publications : Copied(k, task[q].version, task[q].sha)
    BY <2>2 DEF FlowInv, ReleaseInv, AllCalled
  <2> QED
    BY <2>2, <2>3, <1>1 DEF Copied
<1>19. AllCopied'
  BY <1>1, <1>11, <1>12 DEF FlowInv, ReleaseInv, AllCopied
<1> QED
  BY <1>1, <1>6, <1>7, <1>14, <1>15, <1>16, <1>17, <1>18, <1>19 DEF FlowInv, ReleaseInv, TagsStay

\* All copies are asked for before the tag, from the commit of the release; if the clone
\* has not got the commit, nothing is published and the version is excused
\* (PublisherManagerImpl.publish).
LEMMA PublishInv ==
    ASSUME FlowInv, NEW p \in Clients, Publish(p)
    PROVE  FlowInv'
<1> DEFINE v == task[p].version
           sha == task[p].sha
           kinds == PublicationsAt(sha)
           copies == Copies(kinds)
           more == {[by |-> p, kind |-> k, version |-> v, sha |-> sha] : k \in copies}
           r == [at |-> "tag"]
<1>1. /\ task[p].kind = "release" /\ task[p].at = "publications" /\ Become(p, r)
      /\ UNCHANGED <<published, repo, stream, op>>
      /\ calls' = calls \cup more
      /\ excused' = IF kinds = Publications THEN excused ELSE excused \cup {v}
  BY DEF Publish, ReleaseStep, At, Go
<1>2. DOMAIN r = {"at"} /\ r.at = "tag"
  OBVIOUS
<1>3. /\ \A c \in more : c.by = p /\ c.kind \in copies /\ c.version = v /\ c.sha = sha
      /\ \A k \in copies : \E c \in more : c.kind = k /\ c.version = v /\ c.sha = sha
  <2> HIDE DEF kinds, copies
  <2>1. \A c \in more : c.by = p /\ c.kind \in copies /\ c.version = v /\ c.sha = sha
    OBVIOUS
  <2>2. ASSUME NEW k \in copies PROVE \E c \in more : c.kind = k /\ c.version = v /\ c.sha = sha
    <3> DEFINE c == [by |-> p, kind |-> k, version |-> v, sha |-> sha]
    <3>1. c \in more /\ c.kind = k /\ c.version = v /\ c.sha = sha
      OBVIOUS
    <3> QED
      BY <3>1
  <2> QED
    BY <2>1, <2>2
<1>4. copies \subseteq Publications \ {"flat"} /\ kinds \ {"flat"} \subseteq copies
  BY DEF PublicationsAt, Copies
<1>5. v \in Release
  BY <1>1 DEF FlowInv, ReleaseInv, ReleaseTasksOK
<1> HIDE DEF r, more, copies, kinds
<1>6. /\ TaskInv' /\ OthersStay(p) /\ OpTypeOK' /\ task'[p].kind = "release" /\ task'[p].at = "tag"
      /\ task'[p].version = v /\ task'[p].sha = sha
  <2>1. StreamStays
    BY <1>1 DEF StreamStays
  <2> QED
    BY <1>1, <1>2, <2>1, ReleaseBecomes
<1>7. TagsStay
  BY <1>1, UnchangedRepo DEF FlowInv
<1>8. \A q \in Clients : q # p => task'[q] = task[q]
  BY <1>6 DEF OthersStay
<1>9. \A q \in Clients, stage \in {"publications", "tag"} : q # p /\ InRelease(q, stage)' =>
          InRelease(q, stage) /\ task'[q] = task[q]
  BY <1>8 DEF InRelease
<1>10. \A q \in Clients : Releasing(q)' => Releasing(q) /\ task'[q].version = task[q].version
  BY <1>1, <1>6, <1>8 DEF Releasing, InRelease
<1>11. Tagged' = Tagged /\ repo'[Lib].remote.releases = repo[Lib].remote.releases
  BY <1>1 DEF Tagged
<1>12. \A k, w, s : Copied(k, w, s) => Copied(k, w, s)'
  BY <1>1 DEF Copied
<1>13. excused \subseteq excused' /\ (v \notin excused' => kinds = Publications)
  BY <1>1
<1>14. Releasing(p) /\ InRelease(p, "publications")
  BY <1>1 DEF Releasing, InRelease
<1>15. \A q \in Clients : q # p /\ Releasing(q) /\ task[q].version = v => v \in excused
  BY <1>14 DEF FlowInv, ReleaseInv, OneRelease
<1>16. v \notin Tagged \ excused
  BY <1>14 DEF FlowInv, ReleaseInv, NotTagged
<1>17. v \notin excused => \A c \in calls : c.version # v
  BY <1>14 DEF FlowInv, ReleaseInv, NothingCalled
<1>18. ReleaseTasksOK' /\ CallsOK'
  BY <1>1, <1>3, <1>4, <1>5, <1>6, <1>8 DEF FlowInv, ReleaseInv, ReleaseTasksOK, CallsOK
<1>19. OneRelease' /\ NotTagged'
  BY <1>10, <1>11, <1>13 DEF FlowInv, ReleaseInv, OneRelease, NotTagged
<1>20. NothingCalled'
  <2> SUFFICES ASSUME NEW q \in Clients, InRelease(q, "publications")', task'[q].version \notin excused',
                      NEW c \in calls'
               PROVE  c.version # task'[q].version
    BY DEF NothingCalled
  <2>1. q # p /\ InRelease(q, "publications") /\ task'[q] = task[q] /\ Releasing(q)
    BY <1>6, <1>9 DEF InRelease, Releasing
  <2>2. CASE c \in calls
    BY <2>1, <2>2, <1>13 DEF FlowInv, ReleaseInv, NothingCalled
  <2>3. CASE c \in more
    BY <2>1, <2>3, <1>3, <1>13, <1>15
  <2> QED
    BY <2>2, <2>3, <1>1
<1>21. AllCalled'
  <2> SUFFICES ASSUME NEW q \in Clients, InRelease(q, "tag")', task'[q].version \notin excused'
               PROVE  (/\ \A c \in calls : c.version = task[q].version => c.by = q /\ c.sha = task[q].sha
                       /\ \A k \in Publications : Copied(k, task[q].version, task[q].sha))'
    BY DEF AllCalled
  <2>1. CASE q = p
    <3>1. v \notin excused' /\ kinds = Publications
      BY <2>1, <1>6, <1>13
    <3>2. \A c \in calls' : c.version = v => c.by = p /\ c.sha = sha
      BY <3>1, <1>1, <1>3, <1>13, <1>17
    <3>3. \A k \in Publications : Copied(k, v, sha)'
      BY <3>1, <1>1, <1>3, <1>4, <1>6 DEF Copied
    <3> QED
      BY <2>1, <3>2, <3>3, <1>6 DEF Copied
  <2>2. CASE q # p
    <3>1. InRelease(q, "tag") /\ task'[q] = task[q] /\ Releasing(q) /\ task[q].version \notin excused
      BY <2>2, <1>9, <1>13 DEF Releasing
    <3>2. task[q].version # v
      BY <2>2, <3>1, <1>15
    <3>3. /\ \A c \in calls : c.version = task[q].version => c.by = q /\ c.sha = task[q].sha
          /\ \A k \in Publications : Copied(k, task[q].version, task[q].sha)
      BY <3>1 DEF FlowInv, ReleaseInv, AllCalled
    <3> QED
      BY <3>1, <3>2, <3>3, <1>1, <1>3 DEF Copied
  <2> QED
    BY <2>1, <2>2
<1>22. AllCopied'
  <2> SUFFICES ASSUME NEW w \in Tagged \ excused'
               PROVE  /\ \A c \in calls' : c.version = w =>
                            c.kind # "artifact" /\ c.sha = repo[Lib].remote.releases[w]
                      /\ \A k \in Publications : Copied(k, w, repo[Lib].remote.releases[w])'
    BY <1>11 DEF AllCopied
  <2>1. w # v /\ w \in Tagged \ excused
    BY <1>13, <1>16
  <2> QED
    BY <2>1, <1>1, <1>3, <1>12 DEF FlowInv, ReleaseInv, AllCopied
<1> QED
  BY <1>1, <1>6, <1>7, <1>18, <1>19, <1>20, <1>21, <1>22 DEF FlowInv, ReleaseInv, TagsStay

\* What stands for no version is none.
LEMMA UndefinedIsNoRelease == Undefined \notin Release
BY DEF Undefined, Release

\* The tag is set when the copies that are waited for have landed, on the commit that
\* was copied; that it exists is no failure (BuildSystemImpl.release, createTag).
LEMMA SetTagInv ==
    ASSUME FlowInv, NEW p \in Clients, SetTag(p)
    PROVE  FlowInv'
<1> DEFINE v == task[p].version
           sha == task[p].sha
           tags == repo[Lib].remote.releases
<1>1. /\ task[p].kind = "release" /\ task[p].at = "tag" /\ End(p) /\ Awaited(p) = {}
      /\ UNCHANGED <<published, calls, excused, op>> /\ UNCHANGED releaseVars
  BY DEF SetTag, ReleaseStep, At, releaseVars
<1>2. InRelease(p, "tag") /\ Releasing(p) /\ v \in Release /\ op[p] = None
  BY <1>1 DEF InRelease, Releasing, FlowInv, ReleaseInv, ReleaseTasksOK, TaskInv
<1>3. StreamStays
  BY EventsAreOK, LibIsSource DEF SetTag, StreamStays
<1>4. TaskInv' /\ ReleasesGoOn /\ OpTypeOK'
  BY <1>1, <1>2, <1>3, EndKeeps DEF FlowInv, OpTypeOK
<1>5. CASE v \in Tagged
  <2>1. TagsStay
    BY <1>5, UnchangedRepo DEF SetTag, FlowInv
  <2> QED
    BY <1>1, <1>4, <2>1, NoReleaseStep DEF FlowInv, TagsStay
<1>6. CASE v \notin Tagged
  <2>1. repo' = [repo EXCEPT ![Lib].remote.releases = Put(tags, v, sha)]
    BY <1>6 DEF SetTag
  <2>2. /\ RepoShape' /\ repo'[Lib].clone = repo[Lib].clone
        /\ repo'[Lib].remote.releases = Put(tags, v, sha)
    <3>1. RepoShape /\ "releases" \in RefFields
      BY DEF FlowInv, RepoInv, RefFields
    <3> DEFINE y == Put(tags, v, sha)
    <3>2. repo' = [repo EXCEPT ![Lib].remote.releases = y]
      BY <2>1
    <3> HIDE DEF y
    <3>3. /\ RepoShape' /\ repo'[Lib].clone = repo[Lib].clone
          /\ \A x \in RefFields : repo'[Lib].remote[x] = IF x = "releases" THEN y ELSE repo[Lib].remote[x]
      BY <3>1, <3>2, LibIsSource, RemoteReleasesChanges
    <3>4. repo'[Lib].remote.releases = y
      BY <3>1, <3>3
    <3> QED
      BY <3>3, <3>4 DEF y
  <2>3. /\ Tagged' = Tagged \cup {v}
        /\ repo'[Lib].remote.releases[v] = sha
        /\ \A w \in Tagged : repo'[Lib].remote.releases[w] = repo[Lib].remote.releases[w]
    BY <2>2, <1>6 DEF Tagged, Put, Over
  <2>4. RepoInv'
    <3>1. PICK b \in Nat : \A w \in Tagged : w[2] <= b
      BY DEF FlowInv, RepoInv, ReleasesOK
    <3>2. \A w \in Release : w[2] \in Nat
      BY DEF Release
    <3>3. PICK c \in Nat : b <= c /\ v[2] <= c
      BY <1>2, <3>2
    <3>4. \A w \in Tagged : w \in Release
      BY DEF FlowInv, RepoInv, ReleasesOK
    <3>5. \A w \in Tagged' : w[2] <= c
      BY <2>3, <3>1, <3>2, <3>3, <3>4
    <3>6. Tagged' \subseteq Release
      BY <2>3, <3>4, <1>2
    <3>7. (DOMAIN repo[Lib].clone.releases)' \subseteq Tagged'
      BY <2>2, <2>3 DEF FlowInv, RepoInv, ReleasesOK
    <3> QED
      BY <2>2, <3>3, <3>5, <3>6, <3>7 DEF RepoInv, ReleasesOK
  <2>5. \A q \in Clients, stage \in {"publications", "tag"} : InRelease(q, stage)' =>
            InRelease(q, stage) /\ task'[q] = task[q] /\ q # p
    <3>1. OthersStay(p) /\ task'[p].kind = "none"
      BY <1>1, EndChanges, IdleIs DEF FlowInv, TaskInv
    <3> QED
      BY <3>1 DEF InRelease, OthersStay
  <2>6. \A q \in Clients : Releasing(q)' => Releasing(q) /\ task'[q] = task[q] /\ q # p
    BY <2>5 DEF Releasing
  <2>7. \A q \in Clients : q # p /\ Releasing(q) /\ task[q].version = v => v \in excused
    BY <1>2 DEF FlowInv, ReleaseInv, OneRelease
  <2>8. ReleaseTasksOK' /\ CallsOK'
    BY <1>1, <1>4 DEF FlowInv, ReleaseInv, ReleaseTasksOK, CallsOK, ReleasesGoOn
  <2>9. OneRelease'
    BY <1>1, <2>6 DEF FlowInv, ReleaseInv, OneRelease
  <2>10. NotTagged'
    BY <1>1, <2>3, <2>6, <2>7 DEF FlowInv, ReleaseInv, NotTagged
  <2>11. NothingCalled'
    BY <1>1, <2>5 DEF FlowInv, ReleaseInv, NothingCalled
  <2>12. AllCalled'
    BY <1>1, <2>5 DEF FlowInv, ReleaseInv, AllCalled, Copied
  <2>13. AllCopied'
    <3> SUFFICES ASSUME NEW w \in Tagged' \ excused'
                 PROVE  (/\ \A c \in calls : c.version = w =>
                               c.kind # "artifact" /\ c.sha = repo[Lib].remote.releases[w]
                         /\ \A k \in Publications : Copied(k, w, repo[Lib].remote.releases[w]))'
      BY DEF AllCopied
    <3>1. CASE w = v
      <4>1. /\ \A c \in calls : c.version = v => c.by = p /\ c.sha = sha
            /\ \A k \in Publications : Copied(k, v, sha)
        BY <3>1, <1>1, <1>2 DEF FlowInv, ReleaseInv, AllCalled
      <4>2. \A c \in calls : c.version = v => c.kind # "artifact"
        BY <4>1, <1>1 DEF Awaited
      <4> QED
        BY <3>1, <4>1, <4>2, <2>3, <1>1 DEF Copied
    <3>2. CASE w # v
      <4>1. w \in Tagged \ excused
        BY <3>2, <2>3, <1>1
      <4>2. /\ \A c \in calls : c.version = w =>
                  c.kind # "artifact" /\ c.sha = repo[Lib].remote.releases[w]
            /\ \A k \in Publications : Copied(k, w, repo[Lib].remote.releases[w])
        BY <4>1 DEF FlowInv, ReleaseInv, AllCopied
      <4> QED
        BY <4>1, <4>2, <2>3, <1>1 DEF Copied
    <3> QED
      BY <3>1, <3>2
  <2> QED
    BY <1>1, <1>4, <2>4, <2>8, <2>9, <2>10, <2>11, <2>12, <2>13 DEF FlowInv, ReleaseInv
<1> QED
  BY <1>5, <1>6

\* A copy that lands is that of the commit of the tag, or of the release that works on
\* the version (ArtifactoryImpl.copy, ArtifactoryDockerRegistryImpl.copy).
LEMMA LandInv ==
    ASSUME FlowInv, NEW c \in calls, Land(c)
    PROVE  FlowInv'
<1>1. /\ calls' = calls \ {c} /\ published' = [published EXCEPT ![c.kind] = Put(@, c.version, c.sha)]
      /\ UNCHANGED <<excused, repo, op, task, stream>>
  BY DEF Land
<1>2. TaskInv' /\ TagsStay /\ OpTypeOK'
  BY <1>1, TasksStay, UnchangedRepo DEF FlowInv, StreamStays, OpTypeOK
<1>3. /\ c.kind \in Publications \ {"flat"} /\ published = [k \in Publications |-> published[k]]
  BY DEF FlowInv, ReleaseInv, CallsOK
<1>4. /\ published' = [k \in Publications |-> published'[k]]
      /\ \A k \in Publications : published'[k] = IF k = c.kind THEN Put(published[k], c.version, c.sha)
                                                 ELSE published[k]
  BY <1>1, <1>3
<1>5. ASSUME NEW w, NEW s, NEW k \in Publications, Copied(k, w, s),
             \A d \in calls : d.version = w => d.sha = s
      PROVE  (w \in DOMAIN published'[k] /\ published'[k][w] = s)
             \/ (\E d \in calls' : d.kind = k /\ d.version = w /\ d.sha = s)
             \/ k = "flat"
  <2>1. CASE c.kind = k /\ c.version = w
    <3>1. published'[k] = Put(published[k], w, s)
      BY <2>1, <1>4, <1>5
    <3> QED
      BY <3>1 DEF Put, Over
  <2>2. CASE ~(c.kind = k /\ c.version = w)
    <3>1. w \in DOMAIN published[k] => /\ w \in DOMAIN published'[k]
                                       /\ published'[k][w] = published[k][w]
      BY <2>2, <1>4 DEF Put, Over
    <3> QED
      BY <2>2, <3>1, <1>1, <1>5 DEF Copied
  <2> QED
    BY <2>1, <2>2
<1>6. Tagged' = Tagged /\ repo'[Lib].remote.releases = repo[Lib].remote.releases
  BY <1>1 DEF Tagged
<1>7. \A q \in Clients : \A stage : InRelease(q, stage)' <=> InRelease(q, stage)
  BY <1>1 DEF InRelease
<1>8. ReleaseTasksOK' /\ CallsOK' /\ OneRelease' /\ NotTagged' /\ NothingCalled'
  BY <1>1, <1>3, <1>4, <1>6 DEF FlowInv, ReleaseInv, ReleaseTasksOK, CallsOK, OneRelease, NotTagged,
                                NothingCalled, Releasing, InRelease
<1>9. AllCalled'
  <2> SUFFICES ASSUME NEW q \in Clients, InRelease(q, "tag"), task[q].version \notin excused
               PROVE  (/\ \A d \in calls : d.version = task[q].version => d.by = q /\ d.sha = task[q].sha
                       /\ \A k \in Publications : Copied(k, task[q].version, task[q].sha))'
    BY <1>1, <1>7 DEF AllCalled
  <2>1. /\ \A d \in calls : d.version = task[q].version => d.by = q /\ d.sha = task[q].sha
        /\ \A k \in Publications : Copied(k, task[q].version, task[q].sha)
    BY DEF FlowInv, ReleaseInv, AllCalled
  <2> QED
    BY <2>1, <1>1, <1>5 DEF Copied
<1>10. AllCopied'
  <2> SUFFICES ASSUME NEW w \in Tagged \ excused
               PROVE  (/\ \A d \in calls : d.version = w =>
                             d.kind # "artifact" /\ d.sha = repo[Lib].remote.releases[w]
                       /\ \A k \in Publications : Copied(k, w, repo[Lib].remote.releases[w]))'
    BY <1>1, <1>6 DEF AllCopied
  <2>1. /\ \A d \in calls : d.version = w =>
              d.kind # "artifact" /\ d.sha = repo[Lib].remote.releases[w]
        /\ \A k \in Publications : Copied(k, w, repo[Lib].remote.releases[w])
    BY DEF FlowInv, ReleaseInv, AllCopied
  <2>2. \A k \in Publications : Copied(k, w, repo[Lib].remote.releases[w])'
    <3> SUFFICES ASSUME NEW k \in Publications PROVE Copied(k, w, repo[Lib].remote.releases[w])'
      OBVIOUS
    <3>1. /\ Copied(k, w, repo[Lib].remote.releases[w])
          /\ \A d \in calls : d.version = w => d.sha = repo[Lib].remote.releases[w]
      BY <2>1
    <3> QED
      BY <3>1, <1>5, <1>6 DEF Copied
  <2> QED
    BY <2>1, <2>2, <1>1, <1>6
<1> QED
  BY <1>2, <1>4, <1>8, <1>9, <1>10 DEF FlowInv, ReleaseInv, TagsStay

\* A release that fails half-way leaves its copies and no tag.
LEMMA ReleaseRejectedInv ==
    ASSUME FlowInv, NEW p \in Clients, ReleaseRejected(p)
    PROVE  FlowInv'
<1> DEFINE v == task[p].version
<1>1. PICK lost \in SUBSET {c \in calls : c.by = p /\ c.version = v} :
          /\ task[p].kind = "release" /\ End(p) /\ calls' = calls \ lost
          /\ UNCHANGED <<published, excused, repo, op, stream>>
  BY DEF ReleaseRejected
<1>2. op[p] = None /\ StreamStays
  BY <1>1 DEF FlowInv, TaskInv, StreamStays
<1>3. TaskInv' /\ ReleasesGoOn /\ OpTypeOK' /\ TagsStay
  BY <1>1, <1>2, EndKeeps, UnchangedRepo DEF FlowInv, OpTypeOK
<1>4. OthersStay(p) /\ task'[p].kind = "none"
  BY <1>1, EndChanges, IdleIs DEF FlowInv, TaskInv
<1>5. \A q \in Clients, stage \in {"publications", "tag"} : InRelease(q, stage)' =>
            InRelease(q, stage) /\ task'[q] = task[q] /\ q # p
  BY <1>4 DEF InRelease, OthersStay
<1>6. \A q \in Clients : Releasing(q)' => Releasing(q) /\ task'[q] = task[q] /\ q # p
  BY <1>5 DEF Releasing
<1>7. Releasing(p) \/ v = Undefined
  BY <1>1 DEF FlowInv, ReleaseInv, ReleaseTasksOK, Releasing, InRelease
<1>8. v \notin Tagged \ excused
  <2>1. Tagged \subseteq Release
    BY DEF FlowInv, RepoInv, ReleasesOK
  <2> QED
    BY <1>7, <2>1, UndefinedIsNoRelease DEF FlowInv, ReleaseInv, NotTagged
<1>9. \A q \in Clients : q # p /\ Releasing(q) /\ task[q].version = v => v \in excused
  <2>1. \A q \in Clients : Releasing(q) => task[q].version \in Release
    BY DEF FlowInv, ReleaseInv, ReleaseTasksOK, Releasing, InRelease
  <2> QED
    BY <1>7, <2>1, UndefinedIsNoRelease DEF FlowInv, ReleaseInv, OneRelease
<1>10. Tagged' = Tagged
  BY <1>1 DEF Tagged
<1>11. \A w, k, s : w # v /\ Copied(k, w, s) =>
          (w \in DOMAIN published'[k] /\ published'[k][w] = s)
          \/ (\E d \in calls' : d.kind = k /\ d.version = w /\ d.sha = s)
          \/ k = "flat"
  BY <1>1 DEF Copied
<1>12. ReleaseTasksOK' /\ CallsOK'
  BY <1>1, <1>3 DEF FlowInv, ReleaseInv, ReleaseTasksOK, CallsOK, ReleasesGoOn
<1>13. OneRelease' /\ NotTagged'
  BY <1>1, <1>6, <1>10 DEF FlowInv, ReleaseInv, OneRelease, NotTagged
<1>14. NothingCalled'
  BY <1>1, <1>5 DEF FlowInv, ReleaseInv, NothingCalled
<1>15. AllCalled'
  <2> SUFFICES ASSUME NEW q \in Clients, InRelease(q, "tag")', task'[q].version \notin excused'
               PROVE  (/\ \A d \in calls : d.version = task[q].version => d.by = q /\ d.sha = task[q].sha
                       /\ \A k \in Publications : Copied(k, task[q].version, task[q].sha))'
    BY DEF AllCalled
  <2>1. InRelease(q, "tag") /\ task'[q] = task[q] /\ task[q].version \notin excused /\ task[q].version # v
    BY <1>1, <1>5, <1>9 DEF Releasing
  <2>2. /\ \A d \in calls : d.version = task[q].version => d.by = q /\ d.sha = task[q].sha
        /\ \A k \in Publications : Copied(k, task[q].version, task[q].sha)
    BY <2>1 DEF FlowInv, ReleaseInv, AllCalled
  <2> QED
    BY <2>1, <2>2, <1>1, <1>11 DEF Copied
<1>16. AllCopied'
  <2> SUFFICES ASSUME NEW w \in Tagged \ excused
               PROVE  (/\ \A d \in calls : d.version = w =>
                             d.kind # "artifact" /\ d.sha = repo[Lib].remote.releases[w]
                       /\ \A k \in Publications : Copied(k, w, repo[Lib].remote.releases[w]))'
    BY <1>1, <1>10 DEF AllCopied
  <2>1. /\ \A d \in calls : d.version = w =>
              d.kind # "artifact" /\ d.sha = repo[Lib].remote.releases[w]
        /\ \A k \in Publications : Copied(k, w, repo[Lib].remote.releases[w])
    BY DEF FlowInv, ReleaseInv, AllCopied
  <2> QED
    BY <2>1, <1>1, <1>8, <1>11 DEF Copied
<1> QED
  BY <1>1, <1>3, <1>12, <1>13, <1>14, <1>15, <1>16 DEF FlowInv, ReleaseInv, TagsStay

\* A restart loses the copies on their way: the versions they were for are excused.
LEMMA RestartInv ==
    ASSUME FlowInv, Restart \/ \E c \in calls : UploadFails(c)
    PROVE  FlowInv'
<1>1. PICK lost \in SUBSET calls : Restarted(lost)
  BY DEF Restart, UploadFails
<1>2. /\ task' = [p \in Clients |-> Idle] /\ op' = [p \in Clients |-> None]
      /\ calls' = calls \ lost /\ excused' = excused \cup {c.version : c \in lost}
      /\ UNCHANGED <<published, repo>>
  BY <1>1 DEF Restarted
<1>3. TaskInv' /\ TagsStay /\ OpTypeOK'
  BY <1>2, RestartKeepsTasks, UnchangedRepo DEF FlowInv, OpTypeOK
<1>4. \A q \in Clients : task'[q].kind # "release"
  BY <1>2, IdleIs
<1>5. ReleaseTasksOK' /\ CallsOK' /\ OneRelease' /\ NotTagged' /\ NothingCalled' /\ AllCalled'
  BY <1>2, <1>4 DEF FlowInv, ReleaseInv, ReleaseTasksOK, CallsOK, OneRelease, NotTagged,
                    NothingCalled, AllCalled, Releasing, InRelease
<1>6. AllCopied'
  <2> SUFFICES ASSUME NEW w \in Tagged \ excused'
               PROVE  (/\ \A d \in calls : d.version = w =>
                             d.kind # "artifact" /\ d.sha = repo[Lib].remote.releases[w]
                       /\ \A k \in Publications : Copied(k, w, repo[Lib].remote.releases[w]))'
    BY <1>2 DEF AllCopied, Tagged
  <2>1. w \in Tagged \ excused /\ \A c \in lost : c.version # w
    BY <1>2
  <2>2. /\ \A d \in calls : d.version = w =>
              d.kind # "artifact" /\ d.sha = repo[Lib].remote.releases[w]
        /\ \A k \in Publications : Copied(k, w, repo[Lib].remote.releases[w])
    BY <2>1 DEF FlowInv, ReleaseInv, AllCopied
  <2> QED
    BY <2>1, <2>2, <1>2 DEF Copied
<1> QED
  BY <1>2, <1>3, <1>5, <1>6 DEF FlowInv, ReleaseInv, TagsStay

\* At first all that is tagged is published.
LEMMA InitFlowInv == Init => FlowInv
<1> SUFFICES ASSUME Init PROVE FlowInv
  OBVIOUS
<1> DEFINE refs(V) == [main |-> 1, releases |-> [v \in V |-> 1],
                       majors |-> [m \in {1, 2} |-> 1], patches |-> [b \in {} |-> 0]]
           told == refs({First})
           all == refs({First} \cup Range(Pending))
<1>1. /\ repo = [s \in Sources |-> IF s = Lib THEN [remote |-> all, clone |-> told]
                                   ELSE [remote |-> refs({}), clone |-> refs({})]]
      /\ published = [k \in Publications |-> IF k = "flat" THEN refs({}).releases ELSE all.releases]
  BY DEF Init
<1>2. \A V : refs(V) = [x \in RefFields |-> refs(V)[x]] /\ refs(V).releases = [v \in V |-> 1]
  BY DEF RefFields
<1>3. {First} \cup Range(Pending) \subseteq Release /\ First \in Release
  <2>1. First \in Release
    BY DEF First, Release
  <2>2. Range(Pending) \subseteq Release
    BY PendingAreReleases DEF Range, Release
  <2> QED
    BY <2>1, <2>2
<1>t. told = refs({First}) /\ all = refs({First} \cup Range(Pending))
  OBVIOUS
<1> HIDE DEF refs, told, all
<1>4. RepoShape
  BY <1>1, <1>2, <1>t DEF RepoShape, RefsShape
<1>5. /\ repo[Lib].remote.releases = [v \in {First} \cup Range(Pending) |-> 1]
      /\ DOMAIN repo[Lib].clone.releases = {First}
      /\ Tagged = {First} \cup Range(Pending)
  <2>1. repo[Lib].remote = all /\ repo[Lib].clone = told
    BY <1>1, LibIsSource
  <2>2. /\ all.releases = [v \in {First} \cup Range(Pending) |-> 1]
        /\ told.releases = [v \in {First} |-> 1]
    BY <1>2, <1>t
  <2> QED
    BY <2>1, <2>2 DEF Tagged
<1>6. \E b \in Nat : \A v \in Tagged : v[2] <= b
  <2>1. PICK b \in Nat : \A i \in DOMAIN Pending : Pending[i][2] <= b
    BY PendingBounded
  <2>2. First[2] <= b
    BY DEF First
  <2> QED
    BY <1>5, <2>1, <2>2 DEF Range
<1>7. RepoInv
  BY <1>3, <1>4, <1>5, <1>6 DEF RepoInv, ReleasesOK
<1>8. OpTypeOK /\ \A p \in Clients : op[p] = None /\ task[p] = Idle
  BY DEF Init, OpTypeOK
<1>9. TaskInv
  <2>1. Idle = [x \in TaskFields |-> Idle[x]] /\ Idle.source \in Sources
    BY TaskFieldsAre, LibIsSource DEF Idle
  <2>2. TaskShape
    BY <1>8, <2>1 DEF Init, TaskShape
  <2>3. \E S : stream \in Seq(S) /\ \A e \in S : EventOK(e)
    <3> DEFINE S == {Event(Lib, "release", Pending[n]) : n \in DOMAIN Pending}
    <3>1. stream = [n \in DOMAIN Pending |-> Event(Lib, "release", Pending[n])]
      BY DEF Init
    <3>2. DOMAIN Pending = 1 .. Len(Pending) /\ Len(Pending) \in Nat
      BY PendingAreReleases
    <3>3. stream \in Seq(S)
      BY <3>1, <3>2
    <3>4. \A e \in S : EventOK(e)
      BY EventsAreOK, LibIsSource
    <3> QED
      BY <3>3, <3>4
  <2> QED
    BY <1>8, <2>1, <2>2, <2>3 DEF TaskInv
<1>10. calls = {} /\ excused = {}
  BY DEF Init
<1>11. \A p \in Clients : task[p].kind = "none"
  BY <1>8, IdleIs
<1>12. AllCopied
  <2>1. all.releases = repo[Lib].remote.releases
    BY <1>1, LibIsSource
  <2>2. \A k \in Publications : k # "flat" => published[k] = repo[Lib].remote.releases
    BY <1>1, <2>1
  <2>3. \A k \in Publications, v \in Tagged : Copied(k, v, repo[Lib].remote.releases[v])
    BY <2>2 DEF Copied, Tagged
  <2> QED
    BY <1>10, <2>3 DEF AllCopied
<1>13. \A p \in Clients : \A stage : ~InRelease(p, stage)
  BY <1>11 DEF InRelease
<1>14. CallsOK /\ ReleaseTasksOK
  <2>1. "flat" \in Publications => DOMAIN published["flat"] = {}
    <3>1. refs({}).releases = [v \in {} |-> 1]
      BY <1>2, Zenon
    <3>2. "flat" \in Publications => published["flat"] = refs({}).releases
      BY <1>1
    <3> QED
      BY <3>1, <3>2
  <2>2. CallsOK
    BY <1>10, <2>1 DEF CallsOK
  <2>3. ReleaseTasksOK
    BY <1>11 DEF ReleaseTasksOK
  <2> QED
    BY <2>2, <2>3
<1>15. OneRelease /\ NotTagged /\ NothingCalled /\ AllCalled
  BY <1>13 DEF OneRelease, NotTagged, NothingCalled, AllCalled, Releasing
<1>16. published = [k \in Publications |-> published[k]]
  BY <1>1
<1>17. ReleaseInv
  BY <1>12, <1>14, <1>15, <1>16 DEF ReleaseInv
<1> QED
  BY <1>7, <1>8, <1>9, <1>17 DEF FlowInv

\* The work on updates touches neither branches and references, nor binaries, nor
\* the list of majors, nor what Gerrit is still to tell.
LEMMA WorkLeavesWorld ==
    ASSUME \E p \in Clients :
              \/ ReadModel(p) \/ ListUpdates(p) \/ ScannedBranch(p) \/ ScannedUpdate(p)
              \/ FindUpload(p) \/ Create(p) \/ LabelUpdate(p) \/ ShowUpdate(p)
              \/ EditUpdate(p) \/ PublishUpdate(p) \/ WorkRejected(p)
              \/ \E d \in Deps : LookUp(p, d) \/ StoreVersions(p, d) \/ LookUpFails(p, d)
              \/ \E l \in DOMAIN task[p].want : TakeLabel(p, l)
    PROVE  UNCHANGED <<repo, releaseVars, heads, stream, majorValues>>
<1> DEFINE kept == UNCHANGED <<repo, releaseVars, heads, stream, majorValues>>
<1>1. \A p \in Clients : \A stage : WorkStep(p, stage) => kept
  BY DEF WorkStep
<1>2. ASSUME NEW p \in Clients,
             \/ ReadModel(p) \/ ListUpdates(p) \/ ScannedBranch(p) \/ ScannedUpdate(p)
             \/ FindUpload(p) \/ Create(p) \/ LabelUpdate(p) \/ ShowUpdate(p)
             \/ EditUpdate(p) \/ PublishUpdate(p)
      PROVE  kept
  BY <1>1, <1>2 DEF ReadModel, ListUpdates, ScannedBranch, ScannedUpdate, FindUpload, Create,
       LabelUpdate, ShowUpdate, EditUpdate, PublishUpdate
<1>3. ASSUME NEW p \in Clients, WorkRejected(p) PROVE kept
  BY <1>3 DEF WorkRejected, gerritVars
<1>4. ASSUME NEW p \in Clients, NEW d \in Deps,
             LookUp(p, d) \/ StoreVersions(p, d) \/ LookUpFails(p, d)
      PROVE  kept
  BY <1>1, <1>4 DEF LookUp, StoreVersions, LookUpFails
<1>5. ASSUME NEW p \in Clients, NEW l \in DOMAIN task[p].want, TakeLabel(p, l) PROVE kept
  BY <1>1, <1>5 DEF TakeLabel
<1> QED
  BY <1>2, <1>3, <1>4, <1>5

\* So it touches neither references nor binaries.
LEMMA WorkLeavesReleases ==
    ASSUME \E p \in Clients :
              \/ ReadModel(p) \/ ListUpdates(p) \/ ScannedBranch(p) \/ ScannedUpdate(p)
              \/ FindUpload(p) \/ Create(p) \/ LabelUpdate(p) \/ ShowUpdate(p)
              \/ EditUpdate(p) \/ PublishUpdate(p) \/ WorkRejected(p)
              \/ \E d \in Deps : LookUp(p, d) \/ StoreVersions(p, d) \/ LookUpFails(p, d)
              \/ \E l \in DOMAIN task[p].want : TakeLabel(p, l)
    PROVE  UNCHANGED <<repo, releaseVars>>
BY WorkLeavesWorld

\* Every step keeps it.
LEMMA NextFlowInv == FlowInv /\ [Next]_vars => FlowInv'
<1> SUFFICES ASSUME FlowInv, [Next]_vars PROVE FlowInv'
  OBVIOUS
<1>0. OpTypeOK /\ TaskInv /\ RepoInv /\ ReleaseInv /\ OpTypeOK'
  BY StepIsServed DEF FlowInv
<1>1. ASSUME TaskInv', ReleasesGoOn, TagsStay, UNCHANGED releaseVars PROVE FlowInv'
  BY <1>0, <1>1, NoReleaseStep DEF FlowInv, TagsStay
<1>2. CASE UNCHANGED vars
  <2>1. UNCHANGED <<task, op, repo, releaseVars>> /\ StreamStays
    BY <1>2 DEF vars, StreamStays
  <2>2. TaskInv' /\ ReleasesGoOn
    BY <1>0, <2>1, TasksStay
  <2> QED
    BY <1>0, <1>1, <2>1, <2>2, UnchangedRepo
<1>3. CASE \E p \in Clients :
              \/ ReadModel(p) \/ ListUpdates(p) \/ ScannedBranch(p) \/ ScannedUpdate(p)
              \/ FindUpload(p) \/ Create(p) \/ LabelUpdate(p) \/ ShowUpdate(p)
              \/ EditUpdate(p) \/ PublishUpdate(p) \/ WorkRejected(p)
              \/ \E d \in Deps : LookUp(p, d) \/ StoreVersions(p, d) \/ LookUpFails(p, d)
              \/ \E l \in DOMAIN task[p].want : TakeLabel(p, l)
  <2>1. UNCHANGED <<repo, releaseVars>>
    BY <1>3, WorkLeavesReleases
  <2>2. TaskInv' /\ ReleasesGoOn
    BY <1>0, <1>3, ScanKeepsTasks
  <2> QED
    BY <1>0, <1>1, <2>1, <2>2, UnchangedRepo
<1>4. CASE \E p \in Clients :
              \/ Deliver(p) \/ EnsurePushed(p) \/ ReadDependencies(p) \/ ReadIndex(p) \/ ReplaceIndex(p)
              \/ Invalidate(p) \/ FindUsers(p) \/ AskScan(p) \/ PushRejected(p)
  <2>1. PICK p \in Clients :
              \/ Deliver(p) \/ EnsurePushed(p) \/ ReadDependencies(p) \/ ReadIndex(p) \/ ReplaceIndex(p)
              \/ Invalidate(p) \/ FindUsers(p) \/ AskScan(p) \/ PushRejected(p)
    BY <1>4
  <2>2. TaskInv' /\ ReleasesGoOn
    BY <1>0, <2>1, PushKeepsTasks
  <2>3. UNCHANGED releaseVars
    BY <2>1 DEF Deliver, StartTask, EnsurePushed, ReadDependencies, ReadIndex, ReplaceIndex,
                Invalidate, FindUsers, AskScan, PushRejected, PushStep
  <2>4. CASE EnsurePushed(p) \/ PushRejected(p)
    <3>1. task[p].source \in Sources
      BY <1>0 DEF TaskInv
    <3> QED
      BY <1>0, <1>1, <2>2, <2>3, <2>4, <3>1, PushKeepsTags
  <2>5. CASE ~(EnsurePushed(p) \/ PushRejected(p))
    <3>1. UNCHANGED repo
      BY <2>1, <2>5 DEF Deliver, StartTask, ReadDependencies, ReadIndex, ReplaceIndex,
                        Invalidate, FindUsers, AskScan
    <3> QED
      BY <1>0, <1>1, <2>2, <2>3, <3>1, UnchangedRepo
  <2> QED
    BY <2>4, <2>5
<1>5. CASE \/ MergeLib
           \/ \E m \in 1 .. 3 : CreatePatch(m)
           \/ \E u \in DOMAIN updates : MergeProposal(u)
           \/ \E d \in Deps : EditApp(d)
  <2>1. TaskInv' /\ ReleasesGoOn
    BY <1>0, <1>5, OutsideKeepsTasks
  <2>2. TagsStay /\ UNCHANGED releaseVars
    BY <1>0, <1>5, OutsideKeepsTags DEF MergeProposal, EditApp, AppMoves, MergeLib, CreatePatch, Outside
  <2> QED
    BY <1>1, <2>1, <2>2
<1>6. CASE PushTopic \/ (\E d \in Refs : CacheExpires(d)) \/ (\E o \in Ops : BeginScan(o))
  <2>1. TaskInv' /\ ReleasesGoOn
    BY <1>0, <1>6, OutsideKeepsTasks
  <2>2. UNCHANGED <<repo, releaseVars>>
    BY <1>6 DEF PushTopic, Outside, CacheExpires, BeginScan
  <2> QED
    BY <1>0, <1>1, <2>1, <2>2, UnchangedRepo
<1>7. CASE \E p \in Clients : \/ \E m \in 1 .. 3 : AddMajor(p, m)
                              \/ \E d \in Deps, v \in Tagged : UploadContent(p, d, v)
  <2>1. TaskInv' /\ ReleasesGoOn
    BY <1>0, <1>7, AdminKeepsTasks
  <2>2. UNCHANGED <<repo, releaseVars>>
    BY <1>7 DEF AddMajor, UploadContent, StartTask
  <2> QED
    BY <1>0, <1>1, <2>1, <2>2, UnchangedRepo
<1>8. CASE \E p \in Clients, s \in Sources : ApplyMajor(p, s)
  <2>1. TaskInv' /\ ReleasesGoOn
    BY <1>0, <1>8, ApplyKeepsTasks
  <2>2. TagsStay /\ UNCHANGED releaseVars
    BY <1>0, <1>8, OutsideKeepsTags DEF ApplyMajor
  <2> QED
    BY <1>1, <2>1, <2>2
<1>9. CASE \E p \in Clients, m \in 1 .. 3, sha \in 1 .. Main(Lib) : RequestRelease(p, m, sha)
  BY <1>9, RequestReleaseInv
<1>10. CASE \E p \in Clients : ChooseVersion(p) \/ Publish(p) \/ SetTag(p) \/ ReleaseRejected(p)
  BY <1>10, ChooseVersionInv, PublishInv, SetTagInv, ReleaseRejectedInv
<1>11. CASE \E c \in calls : Land(c)
  BY <1>11, LandInv
<1>12. CASE Restart \/ \E c \in calls : UploadFails(c)
  BY <1>12, RestartInv
<1> QED
  BY <1>2, <1>3, <1>4, <1>5, <1>6, <1>7, <1>8, <1>9, <1>10, <1>11, <1>12 DEF Next, Step

\* A version that has a tag has its binaries, from the commit of the tag, unless two
\* releases met, one of them failed, the process went down half-way or the clone could
\* not tell what was built: the artifacts there, the images there or their upload on its
\* way (BuildSystemImpl.release: the copies are waited for and then the tag is set).  An
\* artifact with a path of one segment has no version at all (ArtifactoryImpl.copy).
THEOREM ReleasesArePublishedAsTagged == Spec => []PublishedIsTagged
<1>1. FlowInv => PublishedIsTagged
  BY ReleasesAsTagged DEF FlowInv
<1> QED
  BY <1>1, InitFlowInv, NextFlowInv, PTL DEF Spec

-----------------------------------------------------------------------------
\* One scan at a time.

\* What a scan that is past its list of the changes relies on.
ScanFields == {"kind", "at", "seen", "want", "label", "again", "id"}

\* For a client, that this stays, and that its operation goes on if it runs.
Steady(q) == \A x \in ScanFields : task'[q][x] = task[q][x]
RunsOn(q) == op[q] # None /\ promise[op[q]] = "running" =>
    op'[q] = op[q] /\ promise'[op[q]] = "running"

\* A client waits for an operation that it has asked for.
OwnOps == \A p \in Clients : op[p] # None => op[p] \in {p} \X {0, 1}
LineInv == OpTypeOK /\ ESInv /\ OwnOps

\* A step that concerns no promise.
LEMMA AloneRunsOn ==
    ASSUME LineInv, UNCHANGED <<esVars, op>>
    PROVE  LineInv' /\ \A q \in Clients : RunsOn(q)
<1>1. LineInv'
  <2>1. ESInv' /\ OpTypeOK'
    BY ESNextInv DEF LineInv, OpTypeOK
  <2> QED
    BY <2>1 DEF LineInv, OwnOps
<1>2. \A q \in Clients : RunsOn(q)
  BY DEF RunsOn, esVars
<1> QED
  BY <1>1, <1>2

\* A promise that is settled is that of the client: operations of others go on.
LEMMA SettlesRunsOn ==
    ASSUME LineInv, NEW p \in Clients, NEW v \in {"fulfilled", "rejected"}, Settles(p, v)
    PROVE  LineInv' /\ \A q \in Clients \ {p} : RunsOn(q)
<1>1. CASE op[p] = None
  BY <1>1, AloneRunsOn DEF Settles, Goes
<1>2. CASE op[p] # None
  <2>1. op[p] \in Ops /\ Settle(op[p], v) /\ op' = [op EXCEPT ![p] = None]
    BY <1>2 DEF Settles, LineInv, OpTypeOK
  <2>2. ESInv'
    BY <2>1, SettleInv DEF LineInv
  <2>3. OpTypeOK' /\ \A q \in Clients : op'[q] = IF q = p THEN None ELSE op[q]
    BY <2>1 DEF LineInv, OpTypeOK
  <2>4. \A q \in Clients \ {p} : op[q] # None => op[q] # op[p]
    BY <1>2 DEF LineInv, OwnOps
  <2>5. \A o \in Ops : o # op[p] => promise'[o] = promise[o]
    BY <2>1 DEF Settle, LineInv, ESInv, ESTypeOK
  <2>6. \A q \in Clients \ {p} : RunsOn(q)
    BY <2>3, <2>4, <2>5 DEF RunsOn, LineInv, OpTypeOK
  <2>7. OwnOps'
    BY <2>3 DEF LineInv, OwnOps
  <2> QED
    BY <2>2, <2>3, <2>6, <2>7 DEF LineInv
<1> QED
  BY <1>1, <1>2

\* What is asked for gets a promise of its own (executionSerializer.execute).
LEMMA AskScanRunsOn ==
    ASSUME LineInv, NEW p \in Clients, AskScan(p)
    PROVE  LineInv' /\ \A q \in Clients \ {p} : RunsOn(q)
<1>1. PICK o \in {p} \X {0, 1} : Execute(o) /\ op' = [op EXCEPT ![p] = o]
  BY DEF AskScan
<1>2. o \in Ops /\ promise[o] # "running"
  BY <1>1, OpsAreClients DEF Execute, Fresh
<1>3. ESInv'
  BY <1>1, <1>2, ExecuteInv DEF LineInv
<1>4. OpTypeOK' /\ \A q \in Clients : op'[q] = IF q = p THEN o ELSE op[q]
  BY <1>1, <1>2 DEF LineInv, OpTypeOK
<1>5. OwnOps'
  BY <1>1, <1>4 DEF LineInv, OwnOps
<1>6. \A x \in Ops : promise[x] = "running" => promise'[x] = "running"
  BY <1>1, <1>2 DEF Execute, LineInv, ESInv, ESTypeOK
<1>7. \A q \in Clients \ {p} : RunsOn(q)
  BY <1>4, <1>6 DEF RunsOn, LineInv, OpTypeOK
<1> QED
  BY <1>3, <1>4, <1>5, <1>7 DEF LineInv

\* An operation that begins replaces none that runs.
LEMMA BeginScanRunsOn ==
    ASSUME LineInv, NEW o \in Ops, BeginScan(o)
    PROVE  LineInv' /\ \A q \in Clients : RunsOn(q)
<1>1. Begin(o) /\ op' = op
  BY DEF BeginScan
<1>2. ESInv'
  BY <1>1, BeginInv DEF LineInv
<1>3. \A x \in Ops : promise[x] = "running" => promise'[x] = "running"
  BY <1>1 DEF Begin, CanBegin, Settled, LineInv, ESInv, ESTypeOK
<1>4. OpTypeOK' /\ OwnOps'
  BY <1>1 DEF LineInv, OpTypeOK, OwnOps
<1>5. \A q \in Clients : RunsOn(q)
  BY <1>1, <1>3 DEF RunsOn, LineInv, OpTypeOK
<1> QED
  BY <1>2, <1>4, <1>5 DEF LineInv

\* After a restart nothing waits.
LEMMA ForgetsLine ==
    ASSUME LineInv, Forget, op' = [p \in Clients |-> None]
    PROVE  LineInv'
<1>1. ESInv'
  BY ESNextInv DEF ESNext, LineInv
<1>2. OpTypeOK' /\ OwnOps'
  BY DEF OpTypeOK, OwnOps
<1> QED
  BY <1>1, <1>2 DEF LineInv

\* No two clients scan at once (ScannerManagerImpl.processRepository).
LEMMA OneRuns ==
    ASSUME LineInv, NEW p \in Clients, NEW q \in Clients, op[p] # None, op[q] # None,
           promise[op[p]] = "running", promise[op[q]] = "running"
    PROVE  p = q
<1>1. op[p] \in Ops /\ op[q] \in Ops
  BY DEF LineInv, OpTypeOK
<1>2. op[p] = op[q]
  BY <1>1, RunningIsHead DEF LineInv
<1> QED
  BY <1>2 DEF LineInv, OwnOps

-----------------------------------------------------------------------------
\* One change per label.

\* The stages of a scan that has the list of changes.
Post == {"look", "labels", "create", "label", "show", "edit", "publish"}
ChangeFields == {"label", "private", "open", "by", "base", "file", "edit"}

\* What is known of the changes, in a form that does not ask what their values are.
ChangesShape ==
    /\ \E S : updates \in Seq(S)
    /\ \A u \in DOMAIN updates : updates[u] = [x \in ChangeFields |-> updates[u][x]]

\* The change is open, was made by a scan that somebody waits for, and has the label.
Made(u, l) ==
    /\ u \in DOMAIN updates /\ updates[u].open /\ updates[u].by \notin {"upload", "orphan"}
    /\ updates[u].label = l /\ l # NoLabel

\* Such a scan, and the labels that it may still make a change for.
Scans(p) == task[p].kind = "push" /\ task[p].at \in Post
ToDo(p, l) ==
    \/ task[p].at = "look" /\ task[p].again # TRUE
    \/ task[p].at = "labels" /\ l \in DOMAIN task[p].want
    \/ task[p].at \in Post \ {"labels"} /\ l \in DOMAIN task[p].want \ {task[p].label}

\* The inductive invariant behind OneUpdatePerLabel.  A scan that has the list of
\* changes is the one that runs (Runs).  It has seen every change that has a label which it
\* is still to work on (Seen); of the label for which it makes a change there is none (Free);
\* and what it puts a label on is what it has made itself (MadeBy).
OneMade == \A u, w, l : Made(u, l) /\ Made(w, l) => u = w
Runs(p) == Scans(p) => op[p] # None /\ promise[op[p]] = "running"
Seen(p) == Scans(p) => \A u, l : Made(u, l) /\ ToDo(p, l) =>
    u \in DOMAIN task[p].seen /\ task[p].seen[u].label = l
Free(p) == Scans(p) /\ task[p].at \in {"create", "label"} => \A u : ~Made(u, task[p].label)
MadeBy(p) == task[p].at = "label" =>
    /\ task[p].kind \in {"push", "upload", "orphan"}
    /\ task[p].id \in DOMAIN updates /\ updates[task[p].id].by = task[p].kind
ScanOK(p) == Runs(p) /\ Seen(p) /\ Free(p) /\ MadeBy(p)
ChangesInv == ChangesShape /\ OneMade /\ \A p \in Clients : ScanOK(p)
ScanInv == LineInv /\ TaskInv /\ ChangesInv

\* No change of a scan gets a label, and none changes its maker.
NoNewLabel ==
    /\ ChangesShape'
    /\ \A u, l : Made(u, l)' => Made(u, l)
    /\ \A u \in DOMAIN updates : u \in DOMAIN updates' /\ updates'[u].by = updates[u].by

\* The invariant says what the property says.
LEMMA OneMadeIsOne == OneMade => OneUpdatePerLabel
<1> SUFFICES ASSUME OneMade, NEW u \in OpenUpdates, NEW w \in OpenUpdates, u # w,
                    updates[u].label = updates[w].label, updates[u].label # NoLabel,
                    {updates[u].by, updates[w].by} \cap {"upload", "orphan"} = {}
             PROVE  FALSE
  BY DEF OneUpdatePerLabel
<1>1. Made(u, updates[u].label) /\ Made(w, updates[u].label)
  BY DEF Made, OpenUpdates
<1> QED
  BY <1>1 DEF OneMade

\* They are fields of a task.
LEMMA ScanFieldsAre == ScanFields \subseteq TaskFields
BY TaskFieldsAre DEF ScanFields

\* What a scan relies on holds as long as no label is given and its promise runs on.
LEMMA SteadyScan ==
    ASSUME NEW q \in Clients, ScanOK(q), Steady(q), RunsOn(q), NoNewLabel
    PROVE  ScanOK(q)'
<1>1. /\ task'[q].kind = task[q].kind /\ task'[q].at = task[q].at /\ task'[q].seen = task[q].seen
      /\ task'[q].want = task[q].want /\ task'[q].label = task[q].label
      /\ task'[q].again = task[q].again /\ task'[q].id = task[q].id
  BY DEF Steady, ScanFields
<1>2. Scans(q)' => Scans(q)
  BY <1>1 DEF Scans
<1>3. Runs(q)'
  BY <1>2 DEF ScanOK, Runs, RunsOn
<1>4. \A l : ToDo(q, l)' => ToDo(q, l)
  BY <1>1 DEF ToDo
<1>5. Seen(q)'
  BY <1>1, <1>2, <1>4 DEF ScanOK, Seen, NoNewLabel
<1>6. Free(q)'
  BY <1>1, <1>2 DEF ScanOK, Free, NoNewLabel
<1>7. MadeBy(q)'
  BY <1>1 DEF ScanOK, MadeBy, NoNewLabel
<1> QED
  BY <1>3, <1>5, <1>6, <1>7 DEF ScanOK

\* So it is for all others, whatever one client does.
LEMMA OthersAreSteady ==
    ASSUME ChangesInv, NEW p \in Clients, OthersStay(p), NoNewLabel,
           \A q \in Clients \ {p} : RunsOn(q), ScanOK(p)'
    PROVE  ChangesInv'
<1>1. \A q \in Clients \ {p} : Steady(q)
  BY DEF OthersStay, Steady
<1>2. \A q \in Clients \ {p} : ScanOK(q)'
  BY <1>1, SteadyScan DEF ChangesInv
<1>3. OneMade'
  BY DEF ChangesInv, OneMade, NoNewLabel
<1>4. ChangesShape'
  BY DEF NoNewLabel
<1>5. \A q \in Clients : ScanOK(q)'
  BY <1>2
<1> QED
  BY <1>3, <1>4, <1>5 DEF ChangesInv

\* So it is for all when no client does anything.
LEMMA AllAreSteady ==
    ASSUME ChangesInv, NoNewLabel, \A q \in Clients : Steady(q) /\ RunsOn(q)
    PROVE  ChangesInv'
<1>1. \A q \in Clients : ScanOK(q)'
  BY SteadyScan DEF ChangesInv
<1>2. OneMade'
  BY DEF ChangesInv, OneMade, NoNewLabel
<1> QED
  BY <1>1, <1>2 DEF ChangesInv, NoNewLabel

\* A task that does not work on changes relies on nothing.
LEMMA AsideIsOK ==
    ASSUME NEW p \in Clients, task'[p].at \notin Post
    PROVE  ScanOK(p)'
BY DEF ScanOK, Runs, Seen, Free, MadeBy, Scans, Post

\* A step that leaves the changes alone gives no label.
LEMMA UnchangedUpdates ==
    ASSUME ChangesInv, UNCHANGED updates
    PROVE  NoNewLabel
<1>1. ChangesShape'
  BY DEF ChangesInv, ChangesShape
<1>2. \A u, l : Made(u, l)' => Made(u, l)
  BY DEF Made
<1> QED
  BY <1>1, <1>2 DEF NoNewLabel

\* A change of which something is written, but not who made it.
LEMMA FieldChanges ==
    ASSUME ChangesInv, NEW u \in DOMAIN updates, NEW c,
           c = [x \in ChangeFields |-> c[x]], updates' = [updates EXCEPT ![u] = c],
           c.by = updates[u].by
    PROVE  /\ ChangesShape' /\ DOMAIN updates' = DOMAIN updates /\ updates'[u] = c
           /\ \A w \in DOMAIN updates : updates'[w].by = updates[w].by
           /\ \A w \in DOMAIN updates \ {u} : updates'[w] = updates[w]
<1>1. PICK S : updates \in Seq(S)
  BY DEF ChangesInv, ChangesShape
<1>2. updates \in Seq(S \cup {c})
  BY <1>1
<1>3. updates' \in Seq(S \cup {c}) /\ DOMAIN updates' = DOMAIN updates
  BY <1>2
<1>4. updates'[u] = c /\ \A w \in DOMAIN updates \ {u} : updates'[w] = updates[w]
  OBVIOUS
<1>5. ChangesShape'
  BY <1>3, <1>4 DEF ChangesInv, ChangesShape
<1> QED
  BY <1>3, <1>4, <1>5

\* If that is not the label either, and it is not opened again, no label is given.
LEMMA KeepsLabels ==
    ASSUME ChangesInv, NEW u \in DOMAIN updates, NEW c,
           c = [x \in ChangeFields |-> c[x]], updates' = [updates EXCEPT ![u] = c],
           c.by = updates[u].by, c.label = updates[u].label, c.open => updates[u].open
    PROVE  NoNewLabel
<1>1. /\ ChangesShape' /\ DOMAIN updates' = DOMAIN updates /\ updates'[u] = c
      /\ \A w \in DOMAIN updates : updates'[w].by = updates[w].by
      /\ \A w \in DOMAIN updates \ {u} : updates'[w] = updates[w]
  BY FieldChanges
<1>2. \A w, l : Made(w, l)' => Made(w, l)
  BY <1>1 DEF Made
<1> QED
  BY <1>1, <1>2 DEF NoNewLabel

\* To show a change, to edit it, to publish the edit and to merge it gives no label
\* (createUpdate, internalUpsertFileContent, submit).
LEMMA EditsKeepLabels ==
    ASSUME ChangesInv, NEW u, NEW content,
           MakePublic(u) \/ PutEdit(u, content) \/ PublishEdit(u) \/ MergeUpdate(u)
    PROVE  NoNewLabel
<1>1. CASE u \notin DOMAIN updates
  <2>1. PICK S : updates \in Seq(S)
    BY DEF ChangesInv, ChangesShape
  <2>2. updates' = updates
    BY <1>1, <2>1 DEF MakePublic, PutEdit, PublishEdit, MergeUpdate
  <2> QED
    BY <2>2, UnchangedUpdates
<1>2. CASE u \in DOMAIN updates
  <2>0. updates[u] = [x \in ChangeFields |-> updates[u][x]]
    BY <1>2 DEF ChangesInv, ChangesShape
  <2>1. CASE MakePublic(u)
    <3> DEFINE c == [updates[u] EXCEPT !.private = FALSE]
    <3>1. updates' = [updates EXCEPT ![u] = c]
      BY <2>1 DEF MakePublic
    <3>2. c = [x \in ChangeFields |-> c[x]]
      BY <2>0
    <3>3. c.by = updates[u].by /\ c.label = updates[u].label /\ c.open = updates[u].open
      BY <2>0 DEF ChangeFields
    <3> QED
      BY <1>2, <3>1, <3>2, <3>3, KeepsLabels
  <2>2. CASE PutEdit(u, content)
    <3> DEFINE c == [updates[u] EXCEPT !.edit = Over(content, Edited(u))]
    <3>1. updates' = [updates EXCEPT ![u] = c]
      BY <2>2 DEF PutEdit
    <3>2. c = [x \in ChangeFields |-> c[x]]
      BY <2>0
    <3>3. c.by = updates[u].by /\ c.label = updates[u].label /\ c.open = updates[u].open
      BY <2>0 DEF ChangeFields
    <3> QED
      BY <1>2, <3>1, <3>2, <3>3, KeepsLabels
  <2>3. CASE PublishEdit(u)
    <3> DEFINE c == [updates[u] EXCEPT !.file = updates[u].edit, !.edit = NoEdit]
    <3>1. updates' = [updates EXCEPT ![u] = c]
      <4>1. PICK S : updates \in Seq(S)
        BY DEF ChangesInv, ChangesShape
      <4> QED
        BY <1>2, <2>0, <2>3, <4>1 DEF PublishEdit
    <3>2. c = [x \in ChangeFields |-> c[x]]
      BY <2>0
    <3>3. c.by = updates[u].by /\ c.label = updates[u].label /\ c.open = updates[u].open
      BY <2>0 DEF ChangeFields
    <3> QED
      BY <1>2, <3>1, <3>2, <3>3, KeepsLabels
  <2>4. CASE MergeUpdate(u)
    <3> DEFINE c == [updates[u] EXCEPT !.open = FALSE]
    <3>1. updates' = [updates EXCEPT ![u] = c]
      BY <2>4 DEF MergeUpdate
    <3>2. c = [x \in ChangeFields |-> c[x]]
      BY <2>0
    <3>3. c.by = updates[u].by /\ c.label = updates[u].label /\ ~c.open
      BY <2>0 DEF ChangeFields
    <3> QED
      BY <1>2, <3>1, <3>2, <3>3, KeepsLabels
  <2> QED
    BY <2>1, <2>2, <2>3, <2>4
<1> QED
  BY <1>1, <1>2

\* A new change has no label yet, and is that of who made it (createUpdate).
LEMMA CreatesUnlabelled ==
    ASSUME ChangesInv, NEW who, CreateUpdate(who)
    PROVE  /\ NoNewLabel
           /\ Len(updates) + 1 \in DOMAIN updates' /\ updates'[Len(updates) + 1].by = who
<1> DEFINE c == [label |-> NoLabel, private |-> TRUE, open |-> TRUE, by |-> who,
                 base |-> Tip, file |-> Tip, edit |-> NoEdit]
<1>1. c = [x \in ChangeFields |-> c[x]] /\ c.label = NoLabel /\ c.by = who
  BY DEF ChangeFields
<1>2. updates' = Append(updates, c)
  BY DEF CreateUpdate
<1> HIDE DEF c
<1>3. PICK S : updates \in Seq(S)
  BY DEF ChangesInv, ChangesShape
<1>4. updates \in Seq(S \cup {c})
  BY <1>3
<1>5. /\ updates' \in Seq(S \cup {c}) /\ DOMAIN updates = 1 .. Len(updates) /\ Len(updates) \in Nat
      /\ DOMAIN updates' = 1 .. Len(updates) + 1
      /\ updates'[Len(updates) + 1] = c
      /\ \A u \in 1 .. Len(updates) : updates'[u] = updates[u]
  BY <1>2, <1>4
<1>6. \A u \in DOMAIN updates' : u \in DOMAIN updates \/ u = Len(updates) + 1
  BY <1>5
<1>7. ChangesShape'
  BY <1>1, <1>5, <1>6 DEF ChangesInv, ChangesShape
<1>8. \A u, l : Made(u, l)' => Made(u, l)
  BY <1>1, <1>5, <1>6 DEF Made
<1> QED
  BY <1>1, <1>5, <1>7, <1>8 DEF NoNewLabel

\* A handler at work on changes is an upload, what is left of a scan, or a scan that runs.
LEMMA WorkerIs ==
    ASSUME ScanInv, NEW p \in Clients, Working(p)
    PROVE  /\ task[p].kind \in {"push", "upload", "orphan"}
           /\ task[p].kind = "push" => op[p] # None /\ promise[op[p]] = "running"
BY DEF ScanInv, TaskInv, Working

\* The work goes on, if the next stage can rely on what it needs.
LEMMA BecomesOK ==
    ASSUME ScanInv, NEW p \in Clients, NEW r, Become(p, r), DOMAIN r \subseteq TaskFields,
           Goes, NoNewLabel, ScanOK(p)'
    PROVE  LineInv' /\ ChangesInv'
<1>1. OthersStay(p)
  BY BecomeChanges DEF ScanInv, TaskInv
<1>2. UNCHANGED <<esVars, op>>
  BY DEF Goes
<1>3. LineInv' /\ \A q \in Clients : RunsOn(q)
  BY <1>2, AloneRunsOn DEF ScanInv
<1> QED
  BY <1>1, <1>3, OthersAreSteady DEF ScanInv

\* The work ends and its promise is fulfilled.
LEMMA WorkEndsOK ==
    ASSUME ScanInv, NEW p \in Clients, WorkEnds(p), NoNewLabel
    PROVE  LineInv' /\ ChangesInv'
<1>1. OthersStay(p) /\ task'[p] = Idle
  BY EndChanges DEF WorkEnds, ScanInv, TaskInv
<1>2. Idle.at \notin Post
  BY DEF Idle, Post
<1>3. ScanOK(p)'
  BY <1>1, <1>2, AsideIsOK
<1>4. LineInv' /\ \A q \in Clients \ {p} : RunsOn(q)
  BY SettlesRunsOn DEF WorkEnds, ScanInv
<1> QED
  BY <1>1, <1>3, <1>4, OthersAreSteady DEF ScanInv

\* The labels that are left were to be done before.
LEMMA NextLabelsOK ==
    ASSUME ScanInv, NEW p \in Clients, NextLabels(p, task[p].kind, LabelsLeft(p)), Goes, NoNewLabel,
           Working(p), task[p].at \in Post \ {"labels"}
    PROVE  OthersStay(p) /\ ScanOK(p)'
<1> DEFINE kind == task[p].kind
           r == [kind |-> kind, at |-> "labels", again |-> FALSE, want |-> Restrict(task[p].want, LabelsLeft(p))]
<1>1. /\ DOMAIN r = {"kind", "at", "again", "want"} /\ r.kind = kind /\ Become(p, r) /\ r.at = "labels"
      /\ r.want = Restrict(task[p].want, LabelsLeft(p))
  BY DEF NextLabels
<1> HIDE DEF r
<1>2. /\ OthersStay(p)
      /\ \A x \in TaskFields : task'[p][x] = IF x \in DOMAIN r THEN r[x] ELSE task[p][x]
  BY <1>1, BecomeChanges, TaskFieldsAre DEF ScanInv, TaskInv
<1>3. /\ task'[p].kind = kind /\ task'[p].at = "labels" /\ task'[p].seen = task[p].seen
      /\ DOMAIN task'[p].want = DOMAIN task[p].want \ {task[p].label}
  BY <1>1, <1>2, TaskFieldsAre DEF Restrict, LabelsLeft
<1>4. MadeBy(p)' /\ Free(p)'
  BY <1>3 DEF MadeBy, Free
<1>5. Scans(p)' => Scans(p)
  BY <1>3 DEF Scans
<1>6. Runs(p)'
  BY <1>5, WorkerIs DEF Runs, Goes, esVars, Scans
<1>7. \A l : ToDo(p, l)' => ToDo(p, l)
  BY <1>3 DEF ToDo
<1>8. Seen(p)'
  BY <1>3, <1>5, <1>7 DEF ScanInv, ChangesInv, ScanOK, Seen, NoNewLabel
<1> QED
  BY <1>2, <1>4, <1>6, <1>8 DEF ScanOK

\* The work on a label is done.
LEMMA LabelDoneOK ==
    ASSUME ScanInv, NEW p \in Clients, LabelDone(p), NoNewLabel, Working(p),
           task[p].at \in Post \ {"labels"}
    PROVE  LineInv' /\ ChangesInv'
<1>1. CASE WorkEnds(p)
  BY <1>1, WorkEndsOK
<1>2. CASE NextLabels(p, task[p].kind, LabelsLeft(p)) /\ Goes
  <2>1. OthersStay(p) /\ ScanOK(p)'
    BY <1>2, NextLabelsOK
  <2>2. LineInv' /\ \A q \in Clients : RunsOn(q)
    BY <1>2, AloneRunsOn DEF Goes, ScanInv
  <2> QED
    BY <2>1, <2>2, OthersAreSteady DEF ScanInv
<1> QED
  BY <1>1, <1>2 DEF LabelDone

\* The work on a label fails: what goes on is no scan that somebody waits for.
LEMMA WorkFailsOK ==
    ASSUME ScanInv, NEW p \in Clients, WorkFails(p), NoNewLabel, Working(p),
           task[p].at \in (Post \ {"labels"}) \cup {"scan", "list"}
    PROVE  LineInv' /\ ChangesInv'
<1>1. LineInv' /\ \A q \in Clients \ {p} : RunsOn(q)
  BY SettlesRunsOn DEF WorkFails, ScanInv
<1>2. CASE End(p)
  <2>1. OthersStay(p) /\ task'[p] = Idle /\ Idle.at \notin Post
    BY <1>2, EndChanges DEF ScanInv, TaskInv, Idle, Post
  <2>2. ScanOK(p)'
    BY <2>1, AsideIsOK
  <2> QED
    BY <1>1, <2>1, <2>2, OthersAreSteady DEF ScanInv
<1>3. CASE NextLabels(p, "orphan", LabelsLeft(p))
  <2> DEFINE r == [kind |-> "orphan", at |-> "labels", again |-> FALSE,
                   want |-> Restrict(task[p].want, LabelsLeft(p))]
  <2>1. DOMAIN r = {"kind", "at", "again", "want"} /\ r.kind = "orphan" /\ Become(p, r) /\ r.at = "labels"
    BY <1>3 DEF NextLabels
  <2> HIDE DEF r
  <2>2. OthersStay(p) /\ task'[p].kind = "orphan" /\ task'[p].at = "labels"
    BY <2>1, BecomeChanges, TaskFieldsAre DEF ScanInv, TaskInv
  <2>3. ScanOK(p)'
    BY <2>2 DEF ScanOK, Runs, Seen, Free, MadeBy, Scans
  <2> QED
    BY <1>1, <2>2, <2>3, OthersAreSteady DEF ScanInv
<1> QED
  BY <1>2, <1>3 DEF WorkFails

\* A step in which the scan relies on the same as before.
LEMMA WorkStays ==
    ASSUME ScanInv, NEW p \in Clients, NEW r, Become(p, r),
           DOMAIN r \subseteq TaskFields \ ScanFields, Goes, UNCHANGED updates
    PROVE  LineInv' /\ ChangesInv'
<1>1. /\ OthersStay(p)
      /\ \A x \in TaskFields : task'[p][x] = IF x \in DOMAIN r THEN r[x] ELSE task[p][x]
  BY BecomeChanges DEF ScanInv, TaskInv
<1>2. \A q \in Clients : Steady(q)
  BY <1>1, ScanFieldsAre DEF Steady, OthersStay
<1>3. LineInv' /\ \A q \in Clients : RunsOn(q)
  BY AloneRunsOn DEF Goes, ScanInv
<1>4. NoNewLabel
  BY UnchangedUpdates DEF ScanInv
<1> QED
  BY <1>2, <1>3, <1>4, AllAreSteady DEF ScanInv

\* Versions are looked up and stored (DependencyLookupCacheImpl.getAllVersions).
LEMMA LookUpOK ==
    ASSUME ScanInv, NEW p \in Clients, NEW d \in Deps,
           LookUp(p, d) \/ StoreVersions(p, d) \/ LookUpFails(p, d)
    PROVE  LineInv' /\ ChangesInv'
<1>0. Goes /\ UNCHANGED updates
  BY DEF LookUp, StoreVersions, LookUpFails
<1>1. CASE LookUp(p, d)
  <2>1. PICK a, b : Become(p, [found |-> a, store |-> b]) \/ Become(p, [found |-> a, todo |-> b])
    BY <1>1 DEF LookUp
  <2> DEFINE r == [found |-> a, store |-> b]
             s == [found |-> a, todo |-> b]
  <2>2. DOMAIN r \subseteq TaskFields \ ScanFields /\ DOMAIN s \subseteq TaskFields \ ScanFields
    BY TaskFieldsAre DEF ScanFields
  <2> HIDE DEF r, s
  <2>3. Become(p, r) \/ Become(p, s)
    BY <2>1 DEF r, s
  <2> QED
    BY <1>0, <2>2, <2>3, WorkStays
<1>2. CASE StoreVersions(p, d) \/ LookUpFails(p, d)
  <2> DEFINE r == Stored(p, d)
             s == Over([found |-> Put(task[p].found, d, {})], r)
  <2>1. DOMAIN r \subseteq TaskFields \ ScanFields /\ DOMAIN s \subseteq TaskFields \ ScanFields
    BY TaskFieldsAre DEF Stored, Over, ScanFields
  <2>2. Become(p, r) \/ Become(p, s)
    BY <1>2 DEF StoreVersions, LookUpFails
  <2> HIDE DEF r, s
  <2> QED
    BY <1>0, <2>1, <2>2, WorkStays
<1> QED
  BY <1>1, <1>2

\* The model of the repository is read.
LEMMA ReadModelOK ==
    ASSUME ScanInv, NEW p \in Clients, ReadModel(p)
    PROVE  LineInv' /\ ChangesInv'
<1> DEFINE r == [model |-> repo[App].clone, at |-> "list"]
<1>1. Become(p, r) /\ Goes /\ UNCHANGED updates
  BY DEF ReadModel
<1>2. DOMAIN r = {"model", "at"} /\ r.at = "list"
  OBVIOUS
<1> HIDE DEF r
<1>3. DOMAIN r \subseteq TaskFields /\ task'[p].at = "list"
  BY <1>1, <1>2, TaskFieldsAre, BecomeChanges DEF ScanInv, TaskInv
<1>4. ScanOK(p)'
  BY <1>3, AsideIsOK DEF Post
<1>5. NoNewLabel
  BY <1>1, UnchangedUpdates DEF ScanInv
<1> QED
  BY <1>1, <1>3, <1>4, <1>5, BecomesOK

\* All open changes are seen with their labels (getUpdates).
LEMMA ListUpdatesOK ==
    ASSUME ScanInv, NEW p \in Clients, ListUpdates(p)
    PROVE  LineInv' /\ ChangesInv'
<1> DEFINE seen == [u \in OpenUpdates |-> [label |-> updates[u].label, file |-> updates[u].file]]
<1>1. UNCHANGED updates /\ Working(p) /\ task[p].kind = "push"
  BY DEF ListUpdates, WorkStep
<1>2. NoNewLabel
  BY <1>1, UnchangedUpdates DEF ScanInv
<1>3. CASE WorkEnds(p)
  BY <1>2, <1>3, WorkEndsOK
<1>4. CASE ~WorkEnds(p)
  <2>1. PICK b, c, d : /\ Become(p, [at |-> "look", seen |-> seen, model |-> None, major |-> b,
                                     base |-> c, todo |-> d])
                       /\ Goes
    BY <1>4 DEF ListUpdates
  <2> DEFINE r == [at |-> "look", seen |-> seen, model |-> None, major |-> b, base |-> c, todo |-> d]
  <2>2. /\ DOMAIN r = {"at", "seen", "model", "major", "base", "todo"} /\ r.at = "look" /\ r.seen = seen
        /\ Become(p, r)
    BY <2>1
  <2> HIDE DEF r
  <2>3. /\ DOMAIN r \subseteq TaskFields
        /\ \A x \in TaskFields : task'[p][x] = IF x \in DOMAIN r THEN r[x] ELSE task[p][x]
    BY <2>2, TaskFieldsAre, BecomeChanges DEF ScanInv, TaskInv
  <2>4. task'[p].at = "look" /\ task'[p].seen = seen /\ task'[p].kind = "push"
    BY <1>1, <2>2, <2>3, TaskFieldsAre
  <2>5. \A u, l : Made(u, l) => u \in DOMAIN seen /\ seen[u].label = l
    BY DEF Made, OpenUpdates
  <2>6. Seen(p)'
    <3>1. \A u, l : Made(u, l)' => u \in DOMAIN seen /\ seen[u].label = l
      BY <1>2, <2>5 DEF NoNewLabel
    <3> HIDE DEF seen
    <3> QED
      BY <2>4, <3>1 DEF Seen
  <2>7. Runs(p)'
    <3>1. op' = op /\ promise' = promise
      BY <2>1 DEF Goes, esVars
    <3>2. op[p] # None /\ promise[op[p]] = "running"
      BY <1>1, WorkerIs
    <3> QED
      BY <3>1, <3>2 DEF Runs
  <2>8. Free(p)' /\ MadeBy(p)'
    BY <2>4 DEF Free, MadeBy
  <2>9. ScanOK(p)'
    BY <2>6, <2>7, <2>8 DEF ScanOK
  <2> QED
    BY <1>2, <2>1, <2>2, <2>3, <2>9, BecomesOK
<1> QED
  BY <1>3, <1>4

\* A step of a scan after which nothing more is to be done than before.
LEMMA GoesOnOK ==
    ASSUME ScanInv, NEW p \in Clients, NEW r, Become(p, r), DOMAIN r \subseteq TaskFields \ {"kind", "seen"},
           Goes, Working(p), NoNewLabel, task[p].at \in Post, \A l : ToDo(p, l)' => ToDo(p, l),
           task'[p].at \notin {"create", "label"}
    PROVE  LineInv' /\ ChangesInv'
<1>1. \A x \in TaskFields : task'[p][x] = IF x \in DOMAIN r THEN r[x] ELSE task[p][x]
  BY BecomeChanges DEF ScanInv, TaskInv
<1>2. task'[p].kind = task[p].kind /\ task'[p].seen = task[p].seen
  BY <1>1, TaskFieldsAre
<1>3. Scans(p)' => Scans(p)
  BY <1>2 DEF Scans
<1>4. Runs(p)'
  BY <1>3, WorkerIs DEF Runs, Goes, esVars, Scans
<1>5. Seen(p)'
  BY <1>2, <1>3 DEF ScanInv, ChangesInv, ScanOK, Seen, NoNewLabel
<1>6. Free(p)' /\ MadeBy(p)'
  BY DEF Free, MadeBy
<1>7. ScanOK(p)'
  BY <1>4, <1>5, <1>6 DEF ScanOK
<1> QED
  BY <1>7, BecomesOK

\* The scan of a branch says which labels are to be done, and that of a change what is to
\* be written (Scanner.scan).
LEMMA ScannedOK ==
    ASSUME ScanInv, NEW p \in Clients, ScannedBranch(p) \/ ScannedUpdate(p)
    PROVE  LineInv' /\ ChangesInv'
<1>1. UNCHANGED updates /\ Working(p) /\ task[p].at = "look"
  BY DEF ScannedBranch, ScannedUpdate, WorkStep
<1>2. NoNewLabel
  BY <1>1, UnchangedUpdates DEF ScanInv
<1>3. CASE WorkEnds(p)
  BY <1>2, <1>3, WorkEndsOK
<1>4. CASE LabelDone(p)
  BY <1>1, <1>2, <1>4, LabelDoneOK DEF Post
<1>5. CASE ScannedBranch(p) /\ ~WorkEnds(p)
  <2>1. PICK w : Become(p, [want |-> w, at |-> "labels"]) /\ Goes /\ ~task[p].again
    BY <1>5 DEF ScannedBranch
  <2> DEFINE r == [want |-> w, at |-> "labels"]
  <2>2. DOMAIN r = {"want", "at"} /\ r.at = "labels" /\ Become(p, r) /\ task[p].again # TRUE
    BY <2>1
  <2> HIDE DEF r
  <2>3. /\ DOMAIN r \subseteq TaskFields \ {"kind", "seen"} /\ DOMAIN r \subseteq TaskFields
        /\ \A x \in TaskFields : task'[p][x] = IF x \in DOMAIN r THEN r[x] ELSE task[p][x]
    BY <2>2, TaskFieldsAre, BecomeChanges DEF ScanInv, TaskInv
  <2>4. task'[p].at = "labels"
    BY <2>2, <2>3, TaskFieldsAre
  <2>5. \A l : ToDo(p, l)
    BY <1>1, <2>2 DEF ToDo
  <2> QED
    BY <1>1, <1>2, <2>1, <2>2, <2>3, <2>4, <2>5, GoesOnOK DEF Post
<1>6. CASE ScannedUpdate(p) /\ ~LabelDone(p)
  <2>1. PICK c : Become(p, [want |-> Put(task[p].want, task[p].label, c), at |-> "edit"]) /\ Goes
    BY <1>6 DEF ScannedUpdate
  <2> DEFINE r == [want |-> Put(task[p].want, task[p].label, c), at |-> "edit"]
  <2>2. DOMAIN r = {"want", "at"} /\ r.at = "edit" /\ Become(p, r) /\ r.want = Put(task[p].want, task[p].label, c)
    BY <2>1
  <2> HIDE DEF r
  <2>3. /\ DOMAIN r \subseteq TaskFields \ {"kind", "seen"} /\ DOMAIN r \subseteq TaskFields
        /\ \A x \in TaskFields : task'[p][x] = IF x \in DOMAIN r THEN r[x] ELSE task[p][x]
    BY <2>2, TaskFieldsAre, BecomeChanges DEF ScanInv, TaskInv
  <2>4. /\ task'[p].at = "edit" /\ task'[p].label = task[p].label
        /\ DOMAIN task'[p].want = DOMAIN task[p].want \cup {task[p].label}
    BY <2>2, <2>3, TaskFieldsAre DEF Put, Over
  <2>5. \A l : ToDo(p, l)' => ToDo(p, l)
    BY <1>1, <2>4 DEF ToDo, Post
  <2> QED
    BY <1>1, <1>2, <2>1, <2>2, <2>3, <2>4, <2>5, GoesOnOK DEF Post
<1> QED
  BY <1>3, <1>4, <1>5, <1>6

\* The label is done by what follows: a change that has it, or a new one if none was seen.
LEMMA TakeLabelOK ==
    ASSUME ScanInv, NEW p \in Clients, NEW l \in DOMAIN task[p].want, TakeLabel(p, l)
    PROVE  LineInv' /\ ChangesInv'
<1>1. UNCHANGED updates /\ Working(p) /\ task[p].at = "labels" /\ Goes
  BY DEF TakeLabel, WorkStep
<1>2. NoNewLabel
  BY <1>1, UnchangedUpdates DEF ScanInv
<1> DEFINE existing == {u \in DOMAIN task[p].seen : task[p].seen[u].label = l}
<1>3. CASE existing = {}
  <2> DEFINE r == [label |-> l, at |-> "create"]
  <2>1. Become(p, r)
    BY <1>3 DEF TakeLabel
  <2>2. DOMAIN r = {"label", "at"} /\ r.at = "create" /\ r.label = l
    OBVIOUS
  <2> HIDE DEF r
  <2>3. /\ DOMAIN r \subseteq TaskFields
        /\ \A x \in TaskFields : task'[p][x] = IF x \in DOMAIN r THEN r[x] ELSE task[p][x]
    BY <2>1, <2>2, TaskFieldsAre, BecomeChanges DEF ScanInv, TaskInv
  <2>4. /\ task'[p].at = "create" /\ task'[p].label = l /\ task'[p].kind = task[p].kind
        /\ task'[p].seen = task[p].seen /\ task'[p].want = task[p].want
    BY <2>2, <2>3, TaskFieldsAre
  <2>5. Scans(p)' => Scans(p)
    BY <1>1, <2>4 DEF Scans, Post
  <2>6. Runs(p)'
    BY <1>1, <2>5, WorkerIs DEF Runs, Goes, esVars, Scans
  <2>7. \A k : ToDo(p, k)' => ToDo(p, k)
    BY <1>1, <2>4 DEF ToDo
  <2>8. Seen(p)'
    BY <1>2, <2>4, <2>5, <2>7 DEF ScanInv, ChangesInv, ScanOK, Seen, NoNewLabel
  <2>9. ASSUME Scans(p), NEW u PROVE ~Made(u, l)
    <3>1. ToDo(p, l)
      BY <1>1 DEF ToDo
    <3>2. Made(u, l) => u \in existing
      BY <2>9, <3>1 DEF ScanInv, ChangesInv, ScanOK, Seen
    <3> QED
      BY <1>3, <3>2
  <2>10. Free(p)'
    BY <1>2, <2>4, <2>5, <2>9 DEF Free, NoNewLabel
  <2>11. MadeBy(p)'
    BY <2>4 DEF MadeBy
  <2>12. ScanOK(p)'
    BY <2>6, <2>8, <2>10, <2>11 DEF ScanOK
  <2> QED
    BY <1>1, <1>2, <2>1, <2>3, <2>12, BecomesOK
<1>4. CASE existing # {}
  <2>1. PICK a, b, c : Become(p, [label |-> l, id |-> a, at |-> "look", again |-> TRUE,
                                  base |-> b, found |-> NoOne, todo |-> c])
    BY <1>4 DEF TakeLabel
  <2> DEFINE r == [label |-> l, id |-> a, at |-> "look", again |-> TRUE,
                   base |-> b, found |-> NoOne, todo |-> c]
  <2>2. /\ DOMAIN r = {"label", "id", "at", "again", "base", "found", "todo"} /\ Become(p, r)
        /\ r.label = l /\ r.at = "look" /\ r.again = TRUE
    BY <2>1
  <2> HIDE DEF r
  <2>3. /\ DOMAIN r \subseteq TaskFields \ {"kind", "seen"} /\ DOMAIN r \subseteq TaskFields
        /\ \A x \in TaskFields : task'[p][x] = IF x \in DOMAIN r THEN r[x] ELSE task[p][x]
    BY <2>2, TaskFieldsAre, BecomeChanges DEF ScanInv, TaskInv
  <2>4. task'[p].at = "look" /\ task'[p].want = task[p].want /\ task'[p].again = TRUE
    BY <2>2, <2>3, TaskFieldsAre
  <2>5. \A k : ToDo(p, k)' => ToDo(p, k)
    BY <1>1, <2>4 DEF ToDo
  <2> QED
    BY <1>1, <1>2, <2>2, <2>3, <2>4, <2>5, GoesOnOK DEF Post
<1> QED
  BY <1>3, <1>4

\* An upload is no scan (router /update-content).
LEMMA FindUploadOK ==
    ASSUME ScanInv, NEW p \in Clients, FindUpload(p)
    PROVE  LineInv' /\ ChangesInv'
<1>1. UNCHANGED updates /\ task[p].kind = "upload" /\ Goes
  BY DEF FindUpload, WorkStep
<1>2. NoNewLabel
  BY <1>1, UnchangedUpdates DEF ScanInv
<1>3. PICK a : Become(p, [at |-> "create"]) \/ Become(p, [id |-> a, at |-> "edit"])
  BY DEF FindUpload, Go
<1> DEFINE r == [at |-> "create"]
           s == [id |-> a, at |-> "edit"]
<1>4. /\ DOMAIN r = {"at"} /\ r.at = "create" /\ DOMAIN s = {"id", "at"} /\ s.at = "edit"
      /\ Become(p, r) \/ Become(p, s)
  BY <1>3
<1> HIDE DEF r, s
<1>5. DOMAIN r \subseteq TaskFields /\ DOMAIN s \subseteq TaskFields
  BY <1>4, TaskFieldsAre
<1>6. task'[p].kind = "upload" /\ task'[p].at \in {"create", "edit"}
  BY <1>1, <1>4, <1>5, TaskFieldsAre, BecomeChanges DEF ScanInv, TaskInv
<1>7. ScanOK(p)'
  BY <1>6 DEF ScanOK, Runs, Seen, Free, MadeBy, Scans
<1> QED
  BY <1>1, <1>2, <1>4, <1>5, <1>7, BecomesOK

\* The change that is made for a label (createUpdate).
LEMMA CreateOK ==
    ASSUME ScanInv, NEW p \in Clients, Create(p)
    PROVE  LineInv' /\ ChangesInv'
<1>1. CreateUpdate(task[p].kind) /\ Working(p) /\ task[p].at = "create" /\ Goes
  BY DEF Create, WorkStep
<1>2. /\ NoNewLabel
      /\ Len(updates) + 1 \in DOMAIN updates' /\ updates'[Len(updates) + 1].by = task[p].kind
  BY <1>1, CreatesUnlabelled DEF ScanInv
<1> DEFINE r == [id |-> Len(updates) + 1, at |-> "label"]
<1>3. DOMAIN r = {"id", "at"} /\ r.at = "label" /\ r.id = Len(updates) + 1 /\ Become(p, r)
  BY DEF Create
<1> HIDE DEF r
<1>4. /\ DOMAIN r \subseteq TaskFields
      /\ \A x \in TaskFields : task'[p][x] = IF x \in DOMAIN r THEN r[x] ELSE task[p][x]
  BY <1>3, TaskFieldsAre, BecomeChanges DEF ScanInv, TaskInv
<1>5. /\ task'[p].at = "label" /\ task'[p].label = task[p].label /\ task'[p].kind = task[p].kind
      /\ task'[p].seen = task[p].seen /\ task'[p].want = task[p].want
      /\ task'[p].id = Len(updates) + 1
  BY <1>3, <1>4, TaskFieldsAre
<1>6. Scans(p)' => Scans(p)
  BY <1>1, <1>5 DEF Scans, Post
<1>7. Runs(p)'
  BY <1>1, <1>6, WorkerIs DEF Runs, Goes, esVars, Scans
<1>8. \A k : ToDo(p, k)' => ToDo(p, k)
  BY <1>1, <1>5 DEF ToDo, Post
<1>9. Seen(p)'
  BY <1>2, <1>5, <1>6, <1>8 DEF ScanInv, ChangesInv, ScanOK, Seen, NoNewLabel
<1>10. Free(p)'
  BY <1>1, <1>2, <1>5, <1>6 DEF ScanInv, ChangesInv, ScanOK, Free, NoNewLabel
<1>11. MadeBy(p)'
  BY <1>1, <1>2, <1>5, WorkerIs DEF MadeBy
<1>12. ScanOK(p)'
  BY <1>7, <1>9, <1>10, <1>11 DEF ScanOK
<1> QED
  BY <1>1, <1>2, <1>3, <1>4, <1>12, BecomesOK

\* The label is put on what the same task has made. A scan has seen that no other
\* has it, and no other scan runs; of what others make the property says nothing
\* (internalSetHashTags).
LEMMA LabelUpdateOK ==
    ASSUME ScanInv, NEW p \in Clients, LabelUpdate(p)
    PROVE  LineInv' /\ ChangesInv'
<1> DEFINE u == task[p].id
           l == task[p].label
<1>1. SetHashTags(u, l) /\ Working(p) /\ task[p].at = "label" /\ Goes
  BY DEF LabelUpdate, WorkStep
<1>2. u \in DOMAIN updates /\ updates[u].by = task[p].kind /\ task[p].kind \in {"push", "upload", "orphan"}
  BY <1>1 DEF ScanInv, ChangesInv, ScanOK, MadeBy
<1> DEFINE c == [updates[u] EXCEPT !.label = l]
<1>3. updates[u] = [x \in ChangeFields |-> updates[u][x]]
  BY <1>2 DEF ScanInv, ChangesInv, ChangesShape
<1>4. updates' = [updates EXCEPT ![u] = c]
  BY <1>1 DEF SetHashTags
<1>5. c = [x \in ChangeFields |-> c[x]] /\ c.by = updates[u].by /\ c.label = l /\ c.open = updates[u].open
  BY <1>3 DEF ChangeFields
<1> HIDE DEF c
<1>6. /\ ChangesShape' /\ DOMAIN updates' = DOMAIN updates /\ updates'[u] = c
      /\ \A w \in DOMAIN updates : updates'[w].by = updates[w].by
      /\ \A w \in DOMAIN updates \ {u} : updates'[w] = updates[w]
  BY <1>2, <1>4, <1>5, FieldChanges DEF ScanInv
<1>7. \A w, k : Made(w, k)' => Made(w, k) \/ (w = u /\ k = l /\ task[p].kind = "push")
  BY <1>2, <1>5, <1>6 DEF Made
<1> DEFINE r == [at |-> "show"]
<1>8. DOMAIN r = {"at"} /\ r.at = "show" /\ Become(p, r)
  BY DEF LabelUpdate, Go
<1> HIDE DEF r
<1>9. /\ OthersStay(p) /\ DOMAIN r \subseteq TaskFields
      /\ \A x \in TaskFields : task'[p][x] = IF x \in DOMAIN r THEN r[x] ELSE task[p][x]
  BY <1>8, TaskFieldsAre, BecomeChanges DEF ScanInv, TaskInv
<1>10. /\ task'[p].at = "show" /\ task'[p].label = l /\ task'[p].kind = task[p].kind
       /\ task'[p].seen = task[p].seen /\ task'[p].want = task[p].want
  BY <1>8, <1>9, TaskFieldsAre
<1>11. op' = op /\ LineInv' /\ \A q \in Clients : RunsOn(q)
  BY <1>1, AloneRunsOn DEF Goes, ScanInv
<1>12. CASE task[p].kind # "push"
  <2>1. NoNewLabel
    BY <1>6, <1>7, <1>12 DEF NoNewLabel
  <2>2. ScanOK(p)'
    BY <1>10, <1>12 DEF ScanOK, Runs, Seen, Free, MadeBy, Scans
  <2> QED
    BY <1>9, <1>11, <2>1, <2>2, OthersAreSteady DEF ScanInv
<1>13. CASE task[p].kind = "push"
  <2>1. Scans(p) /\ op[p] # None /\ promise[op[p]] = "running"
    BY <1>1, <1>13, WorkerIs DEF Scans, Post
  <2>2. \A w : ~Made(w, l)
    BY <1>1, <2>1 DEF ScanInv, ChangesInv, ScanOK, Free
  <2>3. OneMade'
    <3> SUFFICES ASSUME NEW w, NEW z, NEW k, Made(w, k)', Made(z, k)'
                 PROVE  w = z
      BY DEF OneMade
    <3>1. (Made(w, k) \/ (w = u /\ k = l)) /\ (Made(z, k) \/ (z = u /\ k = l))
      BY <1>7
    <3> QED
      BY <2>2, <3>1 DEF ScanInv, ChangesInv, OneMade
  <2>4. \A q \in Clients \ {p} : ~Scans(q)
    BY <2>1, OneRuns DEF ScanInv, ChangesInv, ScanOK, Runs
  <2>5. \A q \in Clients \ {p} : ScanOK(q)'
    <3> SUFFICES ASSUME NEW q \in Clients \ {p} PROVE ScanOK(q)'
      OBVIOUS
    <3>1. task'[q] = task[q] /\ ~Scans(q)'
      BY <1>9, <2>4 DEF OthersStay, Scans
    <3>2. MadeBy(q)'
      BY <1>6, <3>1 DEF ScanInv, ChangesInv, ScanOK, MadeBy
    <3> QED
      BY <3>1, <3>2 DEF ScanOK, Runs, Seen, Free
  <2>6. Runs(p)'
    BY <1>11, <2>1 DEF Runs, RunsOn
  <2>7. \A k : ToDo(p, k)' => ToDo(p, k) /\ k # l
    BY <1>1, <1>10 DEF ToDo, Post
  <2>8. Seen(p)'
    BY <1>7, <1>10, <2>1, <2>7 DEF ScanInv, ChangesInv, ScanOK, Seen
  <2>9. Free(p)' /\ MadeBy(p)'
    BY <1>10 DEF Free, MadeBy
  <2>10. \A q \in Clients : ScanOK(q)'
    BY <2>5, <2>6, <2>8, <2>9 DEF ScanOK
  <2> QED
    BY <1>6, <1>11, <2>3, <2>10 DEF ChangesInv
<1> QED
  BY <1>12, <1>13

\* A handler that goes to a stage stays what it is.
LEMMA GoesTo ==
    ASSUME TaskInv, NEW p \in Clients, NEW stage, Go(p, stage)
    PROVE  OthersStay(p) /\ \A x \in TaskFields : task'[p][x] = IF x = "at" THEN stage ELSE task[p][x]
<1> DEFINE r == [at |-> stage]
<1>1. DOMAIN r = {"at"} /\ r.at = stage /\ Become(p, r)
  BY DEF Go
<1> HIDE DEF r
<1>2. DOMAIN r \subseteq TaskFields
  BY <1>1, TaskFieldsAre
<1> QED
  BY <1>1, <1>2, BecomeChanges DEF TaskInv

\* A handler that ends does not work on changes.
LEMMA EndsAside ==
    ASSUME TaskInv, NEW p \in Clients, End(p)
    PROVE  OthersStay(p) /\ task'[p].at \notin Post
<1>1. Idle.at \notin Post
  BY DEF Idle, Post
<1> QED
  BY <1>1, EndChanges DEF TaskInv

\* Nor does one that starts.
LEMMA StartsAt ==
    ASSUME TaskInv, NEW p \in Clients, NEW r, StartTask(p, r), DOMAIN r \subseteq TaskFields,
           "at" \in DOMAIN r, r.at \notin Post
    PROVE  OthersStay(p) /\ task'[p].at \notin Post
BY StartChanges DEF TaskInv

\* The change is shown, edited and published, or one of the requests fails.
LEMMA WriteOK ==
    ASSUME ScanInv, NEW p \in Clients,
           ShowUpdate(p) \/ EditUpdate(p) \/ PublishUpdate(p) \/ WorkRejected(p)
    PROVE  LineInv' /\ ChangesInv'
<1>1. ASSUME NEW stage \in {"edit", "publish"}, Go(p, stage), Goes, Working(p), NoNewLabel,
             task[p].at \in {"show", "edit"}
      PROVE  LineInv' /\ ChangesInv'
  <2> DEFINE r == [at |-> stage]
  <2>1. DOMAIN r = {"at"} /\ Become(p, r)
    BY <1>1 DEF Go
  <2> HIDE DEF r
  <2>2. DOMAIN r \subseteq TaskFields \ {"kind", "seen"}
    BY <2>1, TaskFieldsAre
  <2>3. task'[p].at = stage /\ task'[p].want = task[p].want /\ task'[p].label = task[p].label
    BY <1>1, GoesTo, TaskFieldsAre DEF ScanInv
  <2>4. \A l : ToDo(p, l)' => ToDo(p, l)
    BY <1>1, <2>3 DEF ToDo, Post
  <2>5. task[p].at \in Post /\ task'[p].at \notin {"create", "label"}
    BY <1>1, <2>3 DEF Post
  <2> QED
    BY <1>1, <2>1, <2>2, <2>4, <2>5, GoesOnOK
<1>2. CASE ShowUpdate(p)
  <2>1. MakePublic(task[p].id) /\ Go(p, "edit") /\ Goes /\ Working(p) /\ task[p].at = "show"
    BY <1>2 DEF ShowUpdate, WorkStep
  <2>2. NoNewLabel
    BY <2>1, EditsKeepLabels DEF ScanInv
  <2> QED
    BY <1>1, <2>1, <2>2
<1>3. CASE EditUpdate(p)
  <2>1. Working(p) /\ task[p].at = "edit"
    BY <1>3 DEF EditUpdate, WorkStep
  <2>2. CASE LabelDone(p) /\ UNCHANGED updates
    BY <2>1, <2>2, UnchangedUpdates, LabelDoneOK DEF Post, ScanInv
  <2>3. CASE \E content : PutEdit(task[p].id, content) /\ Go(p, "publish") /\ Goes
    <3>1. NoNewLabel
      BY <2>3, EditsKeepLabels DEF ScanInv
    <3> QED
      BY <1>1, <2>1, <2>3, <3>1
  <2> QED
    BY <1>3, <2>2, <2>3 DEF EditUpdate
<1>4. CASE PublishUpdate(p)
  <2>1. Working(p) /\ task[p].at = "publish"
    BY <1>4 DEF PublishUpdate, WorkStep
  <2>2. CASE PublishEdit(task[p].id) /\ LabelDone(p)
    <3>1. NoNewLabel
      BY <2>2, EditsKeepLabels DEF ScanInv
    <3> QED
      BY <2>1, <2>2, <3>1, LabelDoneOK DEF Post
  <2>3. CASE WorkFails(p) /\ UNCHANGED updates
    <3>1. NoNewLabel
      BY <2>3, UnchangedUpdates DEF ScanInv
    <3> QED
      BY <2>1, <2>3, <3>1, WorkFailsOK DEF Post
  <2> QED
    BY <1>4, <2>2, <2>3 DEF PublishUpdate
<1>5. CASE WorkRejected(p)
  <2>1. /\ Working(p) /\ WorkFails(p) /\ UNCHANGED updates
        /\ task[p].at \in (Post \ {"labels"}) \cup {"scan", "list"}
    BY <1>5 DEF WorkRejected, gerritVars, Post
  <2>2. NoNewLabel
    BY <2>1, UnchangedUpdates DEF ScanInv
  <2> QED
    BY <2>1, <2>2, WorkFailsOK DEF Post
<1> QED
  BY <1>2, <1>3, <1>4, <1>5

\* All that a handler of scans and uploads does.
LEMMA WorkOK ==
    ASSUME ScanInv, NEW p \in Clients,
           \/ ReadModel(p) \/ ListUpdates(p) \/ ScannedBranch(p) \/ ScannedUpdate(p)
           \/ FindUpload(p) \/ Create(p) \/ LabelUpdate(p) \/ ShowUpdate(p)
           \/ EditUpdate(p) \/ PublishUpdate(p) \/ WorkRejected(p)
           \/ \E d \in Deps : LookUp(p, d) \/ StoreVersions(p, d) \/ LookUpFails(p, d)
           \/ \E l \in DOMAIN task[p].want : TakeLabel(p, l)
    PROVE  LineInv' /\ ChangesInv'
BY ReadModelOK, ListUpdatesOK, ScannedOK, FindUploadOK, CreateOK, LabelUpdateOK, WriteOK, LookUpOK,
   TakeLabelOK

\* A client that does not work on changes, and changes nothing that others rely on.
LEMMA AsideOK ==
    ASSUME ScanInv, NEW p \in Clients, \A q \in Clients \ {p} : Steady(q) /\ RunsOn(q),
           task'[p].at \notin Post, UNCHANGED updates
    PROVE  ChangesInv'
<1>1. NoNewLabel
  BY UnchangedUpdates DEF ScanInv
<1>2. ScanOK(p)'
  BY AsideIsOK
<1>3. \A q \in Clients \ {p} : ScanOK(q)'
  BY <1>1, SteadyScan DEF ScanInv, ChangesInv
<1>4. \A q \in Clients : ScanOK(q)'
  BY <1>2, <1>3
<1>5. OneMade' /\ ChangesShape'
  BY <1>1 DEF ScanInv, ChangesInv, OneMade, NoNewLabel
<1> QED
  BY <1>4, <1>5 DEF ChangesInv

\* What handlers do that do not work on changes.
LEMMA ElsewhereOK ==
    ASSUME ScanInv, NEW p \in Clients, OthersStay(p), task'[p].at \notin Post,
           UNCHANGED <<updates, esVars, op>>
    PROVE  LineInv' /\ ChangesInv'
<1>1. LineInv' /\ \A q \in Clients : RunsOn(q)
  BY AloneRunsOn DEF ScanInv
<1>2. \A q \in Clients \ {p} : Steady(q)
  BY DEF OthersStay, Steady
<1> QED
  BY <1>1, <1>2, AsideOK

\* A push, a release, a new major and an upload start elsewhere.
LEMMA StartsOK ==
    ASSUME ScanInv, NEW p \in Clients,
           \/ Deliver(p)
           \/ \E m \in 1 .. 3, sha \in 1 .. Main(Lib) : RequestRelease(p, m, sha)
           \/ \E m \in 1 .. 3 : AddMajor(p, m)
           \/ \E d \in Deps, v \in Tagged : UploadContent(p, d, v)
    PROVE  LineInv' /\ ChangesInv'
<1>1. ASSUME NEW r, StartTask(p, r), DOMAIN r \subseteq TaskFields, "at" \in DOMAIN r, r.at \notin Post
      PROVE  LineInv' /\ ChangesInv'
  <2>1. UNCHANGED <<updates, esVars, op>>
    BY <1>1 DEF StartTask, gerritVars
  <2>2. OthersStay(p) /\ task'[p].at \notin Post
    BY <1>1, StartsAt DEF ScanInv
  <2> QED
    BY <2>1, <2>2, ElsewhereOK
<1>2. CASE Deliver(p)
  <2> DEFINE r == Over([kind |-> "push", at |-> "ensure"], Head(stream))
  <2>1. PICK S : stream \in Seq(S) /\ \A e \in S : EventOK(e)
    BY DEF ScanInv, TaskInv
  <2>2. EventOK(Head(stream)) /\ StartTask(p, r)
    BY <1>2, <2>1 DEF Deliver
  <2>3. DOMAIN r = {"kind", "at", "source", "ref", "version"} /\ r.at = "ensure"
    BY <2>2 DEF Over, EventOK
  <2> HIDE DEF r
  <2>4. DOMAIN r \subseteq TaskFields /\ r.at \notin Post
    BY <2>3, TaskFieldsAre DEF Post
  <2> QED
    BY <1>1, <2>2, <2>3, <2>4
<1>3. CASE \E m \in 1 .. 3, sha \in 1 .. Main(Lib) : RequestRelease(p, m, sha)
  <2>1. PICK m \in 1 .. 3, sha \in 1 .. Main(Lib) : RequestRelease(p, m, sha)
    BY <1>3
  <2> DEFINE r == [kind |-> "release", at |-> "next", major |-> m, sha |-> sha]
  <2>2. DOMAIN r \subseteq TaskFields /\ "at" \in DOMAIN r /\ r.at \notin Post
    BY TaskFieldsAre DEF Post
  <2>3. StartTask(p, r)
    BY <2>1 DEF RequestRelease
  <2> QED
    BY <1>1, <2>2, <2>3
<1>4. CASE \E m \in 1 .. 3 : AddMajor(p, m)
  <2>1. PICK m \in 1 .. 3 : AddMajor(p, m)
    BY <1>4
  <2> DEFINE r == [kind |-> "apply", at |-> "apply", major |-> m, todo |-> Sources]
  <2>2. DOMAIN r \subseteq TaskFields /\ "at" \in DOMAIN r /\ r.at \notin Post
    BY TaskFieldsAre DEF Post
  <2>3. StartTask(p, r)
    BY <2>1 DEF AddMajor
  <2> QED
    BY <1>1, <2>2, <2>3
<1>5. CASE \E d \in Deps, v \in Tagged : UploadContent(p, d, v)
  <2>1. PICK d \in Deps, v \in Tagged : UploadContent(p, d, v)
    BY <1>5
  <2> DEFINE r == [kind |-> "upload", at |-> "list", label |-> LabelOf[d],
                   want |-> [l \in {LabelOf[d]} |-> [Tip EXCEPT ![d] = v]]]
  <2>2. DOMAIN r \subseteq TaskFields /\ "at" \in DOMAIN r /\ r.at \notin Post
    BY TaskFieldsAre DEF Post
  <2>3. StartTask(p, r)
    BY <2>1 DEF UploadContent
  <2> QED
    BY <1>1, <2>2, <2>3
<1> QED
  BY <1>2, <1>3, <1>4, <1>5

\* Releases, tags of majors and pushes before their scan.
LEMMA HandlersOK ==
    ASSUME ScanInv, NEW p \in Clients,
           \/ ChooseVersion(p) \/ Publish(p) \/ SetTag(p) \/ ReleaseRejected(p)
           \/ \E s \in Sources : ApplyMajor(p, s)
           \/ EnsurePushed(p) \/ ReadDependencies(p) \/ ReadIndex(p) \/ ReplaceIndex(p)
           \/ FindUsers(p) \/ PushRejected(p)
    PROVE  LineInv' /\ ChangesInv'
<1>1. UNCHANGED <<esVars, op>>
  BY OthersAreAlone
<1>2. UNCHANGED updates
  BY DEF ReleaseStep, ChooseVersion, Publish, SetTag, ReleaseRejected, ApplyMajor, PushStep,
         EnsurePushed, ReadDependencies, ReadIndex, ReplaceIndex, FindUsers, PushRejected, gerritVars
<1>3. ASSUME End(p) \/ \E stage : Go(p, stage) /\ stage \notin Post
      PROVE  LineInv' /\ ChangesInv'
  <2>1. OthersStay(p) /\ task'[p].at \notin Post
    BY <1>3, GoesTo, EndsAside, TaskFieldsAre DEF ScanInv
  <2> QED
    BY <1>1, <1>2, <2>1, ElsewhereOK
<1>4. ASSUME NEW r, Become(p, r), DOMAIN r \subseteq TaskFields,
             ("at" \in DOMAIN r /\ r.at \notin Post) \/ ("at" \notin DOMAIN r /\ task[p].at \notin Post)
      PROVE  LineInv' /\ ChangesInv'
  <2>1. OthersStay(p) /\ task'[p].at \notin Post
    BY <1>4, BecomeChanges, TaskFieldsAre DEF ScanInv, TaskInv
  <2> QED
    BY <1>1, <1>2, <2>1, ElsewhereOK
<1>5. CASE ChooseVersion(p)
  <2>1. PICK v : Become(p, [version |-> v, at |-> "publications"])
    BY <1>5 DEF ChooseVersion
  <2> DEFINE r == [version |-> v, at |-> "publications"]
  <2>2. DOMAIN r \subseteq TaskFields /\ "at" \in DOMAIN r /\ r.at \notin Post
    BY TaskFieldsAre DEF Post
  <2> QED
    BY <1>4, <2>1, <2>2
<1>6. CASE Publish(p) \/ SetTag(p) \/ ReleaseRejected(p)
  BY <1>3, <1>6 DEF Publish, SetTag, ReleaseRejected, Post
<1>7. CASE \E s \in Sources : ApplyMajor(p, s)
  <2>1. PICK s \in Sources : ApplyMajor(p, s)
    BY <1>7
  <2>2. CASE End(p)
    BY <1>3, <2>2
  <2>3. CASE ~End(p)
    <3> DEFINE r == [todo |-> task[p].todo \ {s}]
    <3>1. Become(p, r) /\ task[p].at = "apply"
      BY <2>1, <2>3 DEF ApplyMajor, At
    <3>2. DOMAIN r = {"todo"} /\ DOMAIN r \subseteq TaskFields
      BY TaskFieldsAre
    <3> HIDE DEF r
    <3>3. "at" \notin DOMAIN r /\ task[p].at \notin Post
      BY <3>1, <3>2 DEF Post
    <3> QED
      BY <1>4, <3>1, <3>2, <3>3
  <2> QED
    BY <2>2, <2>3
<1>8. CASE EnsurePushed(p) \/ ReadIndex(p) \/ ReplaceIndex(p) \/ FindUsers(p)
  BY <1>3, <1>8 DEF EnsurePushed, ReadIndex, ReplaceIndex, FindUsers, Post
<1>9. CASE ReadDependencies(p)
  <2>1. PICK d : Become(p, [at |-> "read", todo |-> d])
    BY <1>9 DEF ReadDependencies
  <2> DEFINE r == [at |-> "read", todo |-> d]
  <2>2. DOMAIN r \subseteq TaskFields /\ "at" \in DOMAIN r /\ r.at \notin Post
    BY TaskFieldsAre DEF Post
  <2> QED
    BY <1>4, <2>1, <2>2
<1>10. CASE PushRejected(p)
  <2> DEFINE r == [at |-> "ensure", tried |-> TRUE, todo |-> {}]
  <2>1. End(p) \/ Become(p, r)
    BY <1>10 DEF PushRejected
  <2>2. DOMAIN r \subseteq TaskFields /\ "at" \in DOMAIN r /\ r.at \notin Post
    BY TaskFieldsAre DEF Post
  <2> HIDE DEF r
  <2> QED
    BY <1>3, <1>4, <2>1, <2>2
<1> QED
  BY <1>5, <1>6, <1>7, <1>8, <1>9, <1>10

\* Those that have listed versions are told that they are late, and rely on the same.
LEMMA InvalidateOK ==
    ASSUME ScanInv, NEW p \in Clients, Invalidate(p)
    PROVE  LineInv' /\ ChangesInv'
<1>1. UNCHANGED <<esVars, op>> /\ UNCHANGED updates
  BY DEF Invalidate, PushStep, gerritVars
<1>2. LineInv' /\ \A q \in Clients : RunsOn(q)
  BY <1>1, AloneRunsOn DEF ScanInv
<1>3. \A q \in Clients : task'[q] = IF q = p THEN Over([at |-> "lookup"], task[q])
                                    ELSE Over([late |-> task[q].late \cup task[q].store], task[q])
  BY DEF Invalidate
<1>4. \A q \in Clients : DOMAIN task[q] = TaskFields
  BY DEF ScanInv, TaskInv, TaskShape
<1>5. task'[p].at = "lookup"
  BY <1>3, <1>4, TaskFieldsAre DEF Over
<1>6. ASSUME NEW q \in Clients \ {p}, NEW x \in TaskFields \ {"late"} PROVE task'[q][x] = task[q][x]
  <2> DEFINE r == [late |-> task[q].late \cup task[q].store]
  <2>1. task'[q] = Over(r, task[q]) /\ DOMAIN r = {"late"}
    BY <1>3
  <2> HIDE DEF r
  <2> QED
    BY <1>4, <2>1 DEF Over
<1>7. \A q \in Clients \ {p} : Steady(q)
  BY <1>6, TaskFieldsAre DEF Steady, ScanFields
<1> QED
  BY <1>1, <1>2, <1>5, <1>7, AsideOK DEF Post

\* A scan that is asked for has no list yet.
LEMMA AskScanOK ==
    ASSUME ScanInv, NEW p \in Clients, AskScan(p)
    PROVE  LineInv' /\ ChangesInv'
<1>1. Go(p, "scan") /\ UNCHANGED updates
  BY DEF AskScan, PushStep, gerritVars
<1>2. OthersStay(p) /\ task'[p].at = "scan"
  BY <1>1, GoesTo, TaskFieldsAre DEF ScanInv
<1>3. \A q \in Clients \ {p} : Steady(q)
  BY <1>2 DEF OthersStay, Steady
<1> QED
  BY <1>1, <1>2, <1>3, AskScanRunsOn, AsideOK DEF ScanInv, Post

\* Merges, edits by others, expiry, copies and the line itself.
LEMMA OutsideOK ==
    ASSUME ScanInv,
           \/ MergeLib
           \/ \E m \in 1 .. 3 : CreatePatch(m)
           \/ PushTopic
           \/ \E d \in Refs : CacheExpires(d)
           \/ \E u \in DOMAIN updates : MergeProposal(u)
           \/ \E d \in Deps : EditApp(d)
           \/ \E c \in calls : Land(c)
           \/ \E o \in Ops : BeginScan(o)
    PROVE  LineInv' /\ ChangesInv'
<1>1. UNCHANGED task
  BY DEF MergeLib, CreatePatch, PushTopic, CacheExpires, MergeProposal, EditApp, AppMoves, Outside,
         Land, BeginScan
<1>2. \A q \in Clients : Steady(q)
  BY <1>1 DEF Steady
<1>3. NoNewLabel
  <2>1. CASE \E u \in DOMAIN updates : MergeProposal(u)
    BY <2>1, EditsKeepLabels DEF MergeProposal, ScanInv
  <2>2. CASE ~\E u \in DOMAIN updates : MergeProposal(u)
    <3>1. UNCHANGED updates
      BY <2>2 DEF MergeLib, CreatePatch, PushTopic, CacheExpires, EditApp, Outside, Land, BeginScan,
                  gerritVars
    <3> QED
      BY <3>1, UnchangedUpdates DEF ScanInv
  <2> QED
    BY <2>1, <2>2
<1>4. LineInv' /\ \A q \in Clients : RunsOn(q)
  <2>1. CASE \E o \in Ops : BeginScan(o)
    BY <2>1, BeginScanRunsOn DEF ScanInv
  <2>2. CASE ~\E o \in Ops : BeginScan(o)
    <3>1. UNCHANGED <<esVars, op>>
      BY <2>2, OthersAreAlone
    <3> QED
      BY <3>1, AloneRunsOn DEF ScanInv
  <2> QED
    BY <2>1, <2>2
<1> QED
  BY <1>2, <1>3, <1>4, AllAreSteady DEF ScanInv

\* Nobody goes on after a restart, and the changes stay.
LEMMA RestartOK ==
    ASSUME ScanInv, Restart \/ \E c \in calls : UploadFails(c)
    PROVE  LineInv' /\ ChangesInv'
<1>1. /\ Forget /\ op' = [p \in Clients |-> None] /\ task' = [p \in Clients |-> Idle]
      /\ UNCHANGED updates
  BY DEF Restart, UploadFails, Restarted, gerritVars
<1>2. LineInv'
  BY <1>1, ForgetsLine DEF ScanInv
<1>3. NoNewLabel
  BY <1>1, UnchangedUpdates DEF ScanInv
<1>4. Idle.at \notin Post
  BY DEF Idle, Post
<1>5. \A p \in Clients : ScanOK(p)'
  BY <1>1, <1>4, AsideIsOK
<1> QED
  BY <1>2, <1>3, <1>5 DEF ChangesInv, OneMade, NoNewLabel, ScanInv

\* At first there are no changes.
LEMMA InitScanInv == Init => LineInv /\ ChangesInv
<1> SUFFICES ASSUME Init PROVE LineInv /\ ChangesInv
  OBVIOUS
<1>1. ESInit /\ op = [p \in Clients |-> None] /\ updates = <<>> /\ \A p \in Clients : task[p] = Idle
  BY DEF Init
<1>2. LineInv
  BY <1>1, ESInitInv DEF LineInv, OpTypeOK, OwnOps
<1>3. ChangesShape /\ OneMade
  <2>1. updates \in Seq({}) /\ DOMAIN updates = {}
    BY <1>1
  <2> QED
    BY <2>1 DEF ChangesShape, OneMade, Made
<1>4. Idle.at \notin Post
  BY DEF Idle, Post
<1>5. \A p \in Clients : ScanOK(p)
  BY <1>1, <1>4 DEF ScanOK, Runs, Seen, Free, MadeBy, Scans, Post
<1> QED
  BY <1>2, <1>3, <1>5 DEF ChangesInv

\* Every step keeps it.
LEMMA NextScanInv == FlowInv /\ LineInv /\ ChangesInv /\ [Next]_vars => LineInv' /\ ChangesInv'
<1> SUFFICES ASSUME FlowInv, LineInv, ChangesInv, [Next]_vars PROVE LineInv' /\ ChangesInv'
  OBVIOUS
<1>0. ScanInv
  BY DEF FlowInv, ScanInv
<1>1. CASE UNCHANGED vars
  <2>1. UNCHANGED <<esVars, op>> /\ UNCHANGED <<task, updates>>
    BY <1>1 DEF vars, gerritVars
  <2>2. LineInv' /\ \A q \in Clients : RunsOn(q)
    BY <2>1, AloneRunsOn
  <2>3. NoNewLabel /\ \A q \in Clients : Steady(q)
    BY <2>1, UnchangedUpdates DEF Steady
  <2> QED
    BY <2>2, <2>3, AllAreSteady
<1>2. CASE \E p \in Clients :
              \/ ReadModel(p) \/ ListUpdates(p) \/ ScannedBranch(p) \/ ScannedUpdate(p)
              \/ FindUpload(p) \/ Create(p) \/ LabelUpdate(p) \/ ShowUpdate(p)
              \/ EditUpdate(p) \/ PublishUpdate(p) \/ WorkRejected(p)
              \/ \E d \in Deps : LookUp(p, d) \/ StoreVersions(p, d) \/ LookUpFails(p, d)
              \/ \E l \in DOMAIN task[p].want : TakeLabel(p, l)
  BY <1>0, <1>2, WorkOK
<1>3. CASE \E p \in Clients :
              \/ Deliver(p)
              \/ \E m \in 1 .. 3, sha \in 1 .. Main(Lib) : RequestRelease(p, m, sha)
              \/ \E m \in 1 .. 3 : AddMajor(p, m)
              \/ \E d \in Deps, v \in Tagged : UploadContent(p, d, v)
  BY <1>0, <1>3, StartsOK
<1>4. CASE \E p \in Clients :
              \/ ChooseVersion(p) \/ Publish(p) \/ SetTag(p) \/ ReleaseRejected(p)
              \/ \E s \in Sources : ApplyMajor(p, s)
              \/ EnsurePushed(p) \/ ReadDependencies(p) \/ ReadIndex(p) \/ ReplaceIndex(p)
              \/ FindUsers(p) \/ PushRejected(p)
  BY <1>0, <1>4, HandlersOK
<1>5. CASE \E p \in Clients : Invalidate(p) \/ AskScan(p)
  BY <1>0, <1>5, InvalidateOK, AskScanOK
<1>6. CASE \/ MergeLib
           \/ \E m \in 1 .. 3 : CreatePatch(m)
           \/ PushTopic
           \/ \E d \in Refs : CacheExpires(d)
           \/ \E u \in DOMAIN updates : MergeProposal(u)
           \/ \E d \in Deps : EditApp(d)
           \/ \E c \in calls : Land(c)
           \/ \E o \in Ops : BeginScan(o)
  BY <1>0, <1>6, OutsideOK
<1>7. CASE Restart \/ \E c \in calls : UploadFails(c)
  BY <1>0, <1>7, RestartOK
<1> QED
  BY <1>1, <1>2, <1>3, <1>4, <1>5, <1>6, <1>7 DEF Next, Step

\* A label has at most one open change of those that scans make while somebody waits for
\* them, whatever runs at the same time, fails or restarts: scans list the changes and
\* make those that are missing one scan at a time (ScannerManagerImpl.processRepository).
THEOREM LabelHasOneUpdate == Spec => []OneUpdatePerLabel
<1>1. Init => FlowInv /\ LineInv /\ ChangesInv
  BY InitFlowInv, InitScanInv
<1>2. FlowInv /\ LineInv /\ ChangesInv /\ [Next]_vars => (FlowInv /\ LineInv /\ ChangesInv)'
  BY NextFlowInv, NextScanInv
<1>3. ChangesInv => OneUpdatePerLabel
  BY OneMadeIsOne DEF ChangesInv
<1> QED
  BY <1>1, <1>2, <1>3, PTL DEF Spec

\* The order of versions, number by number.
LEMMA LowerMeans ==
    /\ \A v, w \in Release : Lower(v, w) <=>
          \/ v[1] < w[1]
          \/ v[1] = w[1] /\ v[2] < w[2]
          \/ v[1] = w[1] /\ v[2] = w[2] /\ v[3] < w[3]
    /\ \A w \in Release : Lower(Undefined, w)
    /\ \A v : ~Lower(v, Undefined)
<1>1. \A v \in Release : Len(v) = 3 /\ v[1] \in Nat /\ v[2] \in Nat /\ v[3] \in Nat
  BY DEF Release
<1>2. ASSUME NEW v \in Release, NEW w \in Release
      PROVE  Lower(v, w) <=>
          \/ v[1] < w[1]
          \/ v[1] = w[1] /\ v[2] < w[2]
          \/ v[1] = w[1] /\ v[2] = w[2] /\ v[3] < w[3]
  <2> DEFINE FirstAt(i) == /\ \A j \in 1 .. i - 1 : j <= Len(v) /\ v[j] = w[j]
                           /\ i > Len(v) \/ v[i] < w[i]
  <2>1. Lower(v, w) <=> \E i \in 1 .. 3 : FirstAt(i)
    BY <1>1 DEF Lower
  <2>2. FirstAt(1) <=> v[1] < w[1]
    BY <1>1
  <2>3. FirstAt(2) <=> v[1] = w[1] /\ v[2] < w[2]
    <3>1. \A j : j \in 1 .. 2 - 1 <=> j = 1
      OBVIOUS
    <3> QED
      BY <1>1, <3>1
  <2>4. FirstAt(3) <=> v[1] = w[1] /\ v[2] = w[2] /\ v[3] < w[3]
    <3>1. \A j : j \in 1 .. 3 - 1 <=> j = 1 \/ j = 2
      OBVIOUS
    <3> QED
      BY <1>1, <3>1
  <2> HIDE DEF FirstAt
  <2>5. \A i : i \in 1 .. 3 <=> i = 1 \/ i = 2 \/ i = 3
    OBVIOUS
  <2> QED
    BY <2>1, <2>2, <2>3, <2>4, <2>5
<1>3. ASSUME NEW w \in Release PROVE Lower(Undefined, w)
  <2>1. 1 \in 1 .. Len(w) /\ Len(Undefined) = 0
    BY <1>1, <1>3 DEF Undefined
  <2>2. \A j \in 1 .. 1 - 1 : j <= Len(Undefined) /\ Undefined[j] = w[j]
    OBVIOUS
  <2> QED
    BY <2>1, <2>2 DEF Lower
<1>4. \A v : ~Lower(v, Undefined)
  BY DEF Lower, Undefined
<1> QED
  BY <1>2, <1>3, <1>4

\* What is not lower than a version that is not lower than a third is not lower than it.
LEMMA NotLowerGoesOn ==
    ASSUME NEW u \in Release \cup {Undefined}, NEW v \in Release \cup {Undefined},
           NEW w \in Release \cup {Undefined}
    PROVE  /\ ~Lower(u, v) /\ ~Lower(v, w) => ~Lower(u, w)
           /\ ~Lower(u, u)
<1>1. \A v1 \in Release : v1[1] \in Nat /\ v1[2] \in Nat /\ v1[3] \in Nat
  BY DEF Release
<1> QED
  BY <1>1, LowerMeans

\* A version is a sequence of three numbers.
LEMMA VersionsAreSeqs == \A v \in Release :
    /\ v \in Seq(Nat) /\ Len(v) = 3 /\ v[1] \in Nat /\ v[2] \in Nat /\ v[3] \in Nat
    /\ Tail(v) \in Seq(Nat) /\ Len(Tail(v)) = 2 /\ Tail(v)[1] = v[2] /\ Tail(v)[2] = v[3]
    /\ Tail(Tail(v)) \in Seq(Nat) /\ Len(Tail(Tail(v))) = 1 /\ Tail(Tail(v))[1] = v[3]
<1> SUFFICES ASSUME NEW v \in Release
             PROVE  /\ v \in Seq(Nat) /\ Len(v) = 3 /\ v[1] \in Nat /\ v[2] \in Nat /\ v[3] \in Nat
                    /\ Tail(v) \in Seq(Nat) /\ Len(Tail(v)) = 2 /\ Tail(v)[1] = v[2] /\ Tail(v)[2] = v[3]
                    /\ Tail(Tail(v)) \in Seq(Nat) /\ Len(Tail(Tail(v))) = 1 /\ Tail(Tail(v))[1] = v[3]
  OBVIOUS
<1>1. v \in Seq(Nat) /\ Len(v) = 3 /\ v[1] \in Nat /\ v[2] \in Nat /\ v[3] \in Nat
  <2>1. v[1] \in Nat /\ v[2] \in Nat /\ v[3] \in Nat /\ v = <<v[1], v[2], v[3]>>
    BY DEF Release
  <2>2. \A a, b, c \in Nat : <<a, b, c>> \in Seq(Nat) /\ Len(<<a, b, c>>) = 3
    OBVIOUS
  <2> QED
    BY <2>1, <2>2
<1>2. ASSUME NEW q \in Seq(Nat), NEW n \in Nat, Len(q) = n + 1
      PROVE  Tail(q) \in Seq(Nat) /\ Len(Tail(q)) = n /\ \A i \in 1 .. n : Tail(q)[i] = q[i + 1]
  BY <1>2
<1>3. Tail(v) \in Seq(Nat) /\ Len(Tail(v)) = 2 /\ Tail(v)[1] = v[2] /\ Tail(v)[2] = v[3]
  <2>1. Len(v) = 2 + 1 /\ 2 \in Nat
    BY <1>1
  <2>2. Tail(v) \in Seq(Nat) /\ Len(Tail(v)) = 2 /\ \A i \in 1 .. 2 : Tail(v)[i] = v[i + 1]
    BY <1>1, <1>2, <2>1
  <2>3. 1 \in 1 .. 2 /\ 2 \in 1 .. 2 /\ 1 + 1 = 2 /\ 2 + 1 = 3
    OBVIOUS
  <2>4. Tail(v)[1] = v[2]
    BY <2>2, <2>3, Zenon
  <2>5. Tail(v)[2] = v[3]
    BY <2>2, <2>3, Zenon
  <2> QED
    BY <2>2, <2>4, <2>5
<1>4. Tail(Tail(v)) \in Seq(Nat) /\ Len(Tail(Tail(v))) = 1 /\ Tail(Tail(v))[1] = v[3]
  <2> DEFINE q == Tail(v)
  <2>1. q \in Seq(Nat) /\ Len(q) = 2 /\ q[2] = v[3]
    BY <1>3
  <2> HIDE DEF q
  <2>2. Tail(q) \in Seq(Nat) /\ Len(Tail(q)) = 1 /\ \A i \in 1 .. 1 : Tail(q)[i] = q[i + 1]
    BY <1>2, <2>1, 1 + 1 = 2, 1 \in Nat
  <2>3. Tail(q)[1] = v[3]
    BY <2>1, <2>2, 1 + 1 = 2, 1 \in 1 .. 1, Zenon
  <2> QED
    BY <2>2, <2>3 DEF q
<1> QED
  BY <1>1, <1>3, <1>4

\* The version that a container picks is one that it was given, and the highest of
\* those within the limit (VersionContainer.getHighest).
LEMMA GetHighestIs ==
    ASSUME NEW S \in SUBSET Release, NEW b \in Nat, \A v \in S : v[1] <= b /\ v[2] <= b /\ v[3] <= b,
           NEW max
    PROVE  /\ GetHighest(S, max) \in S \cup {Undefined}
           /\ \A v \in S : max = Undefined \/ <<v[1]>> = max \/ v[1] < max[1]
                 => ~Lower(GetHighest(S, max), v)
<1> DEFINE W == {v \in S : max = Undefined \/ <<v[1]>> = max \/ v[1] < max[1]}
<1>1. CASE W = {}
  BY <1>1 DEF GetHighest
<1>2. CASE W # {}
  <2> DEFINE N == Heads(W)
             n == Highest(N)
  <2>1. \A v \in W : v \in Release /\ v \in S /\ v[1] <= b /\ v[2] <= b /\ v[3] <= b
    OBVIOUS
  <2>2. GetHighest(S, max) = <<n>> \o Last2(Under(W, n))
    BY <1>2 DEF GetHighest
  <2> HIDE DEF W
  <2>3. N \in SUBSET Nat /\ N # {} /\ \A m \in N : m <= b
    BY <1>2, <2>1, VersionsAreSeqs DEF Heads
  <2>4. n \in N /\ \A m \in N : m <= n
    BY <2>3, HighestExists
  <2>5. \A v \in W : v[1] <= n
    BY <2>4 DEF Heads
  <2>6. n \in Nat /\ \E v \in W : v[1] = n
    BY <2>3, <2>4 DEF Heads
  <2> HIDE DEF n
  <2> DEFINE U == Under(W, n)
             M == Heads(U)
             m == Highest(M)
  <2>7. GoingOn(W) = W
    BY <2>1, VersionsAreSeqs DEF GoingOn
  <2>8. U = {Tail(v) : v \in {w \in W : w[1] = n}}
    BY <2>7 DEF Under
  <2>9. /\ \A q \in U : \E v \in W : v[1] = n /\ q = Tail(v)
        /\ \A v \in W : v[1] = n => Tail(v) \in U
    BY <2>8
  <2> HIDE DEF U
  <2>10. \A q \in U : q \in Seq(Nat) /\ Len(q) = 2 /\ q[1] \in Nat /\ q[1] <= b
    <3> SUFFICES ASSUME NEW q \in U
                 PROVE  q \in Seq(Nat) /\ Len(q) = 2 /\ q[1] \in Nat /\ q[1] <= b
      OBVIOUS
    <3>1. PICK v \in W : q = Tail(v)
      BY <2>9
    <3> QED
      BY <2>1, <3>1, VersionsAreSeqs
  <2>11. M \in SUBSET Nat /\ M # {} /\ \A k \in M : k <= b
    BY <2>6, <2>9, <2>10 DEF Heads
  <2>12. m \in M /\ \A k \in M : k <= m
    BY <2>11, HighestExists
  <2>13. \A v \in W : v[1] = n => v[2] <= m
    <3>1. \A q \in U : q[1] <= m
      BY <2>12 DEF Heads
    <3>2. ASSUME NEW v \in W, v[1] = n PROVE v[2] <= m
      <4>1. Tail(v)[1] = v[2]
        BY <2>1, VersionsAreSeqs
      <4>2. Tail(v) \in U
        BY <2>9, <3>2
      <4> QED
        BY <3>1, <4>1, <4>2
    <3> QED
      BY <3>2
  <2>14. m \in Nat /\ \E v \in W : v[1] = n /\ v[2] = m
    <3>1. m \in Nat /\ \E q \in U : q[1] = m
      BY <2>11, <2>12 DEF Heads
    <3>2. PICK v \in W : v[1] = n /\ Tail(v)[1] = m
      BY <2>9, <3>1
    <3>3. Tail(v)[1] = v[2]
      BY <2>1, VersionsAreSeqs
    <3> QED
      BY <3>1, <3>2, <3>3
  <2>15. GoingOn(U) = U /\ U # {}
    BY <2>10, <2>6, <2>9 DEF GoingOn
  <2>16. Last2(U) = <<m>> \o Last1(Under(U, m))
    BY <2>15 DEF Last2
  <2> HIDE DEF m
  <2> DEFINE T == Under(U, m)
             C == Heads(T)
             c == Highest(C)
  <2>17. T = {Tail(q) : q \in {w \in U : w[1] = m}}
    BY <2>15 DEF Under
  <2>18. /\ \A r \in T : \E q \in U : q[1] = m /\ r = Tail(q)
         /\ \A q \in U : q[1] = m => Tail(q) \in T
    BY <2>17
  <2> HIDE DEF T
  <2>19. /\ \A r \in T : \E v \in W : v[1] = n /\ v[2] = m /\ r = Tail(Tail(v))
         /\ \A v \in W : v[1] = n /\ v[2] = m => Tail(Tail(v)) \in T
    <3>1. \A v \in W : Tail(v)[1] = v[2]
      BY <2>1, VersionsAreSeqs
    <3>2. ASSUME NEW r \in T PROVE \E v \in W : v[1] = n /\ v[2] = m /\ r = Tail(Tail(v))
      <4>1. PICK q \in U : q[1] = m /\ r = Tail(q)
        BY <2>18
      <4>2. PICK v \in W : v[1] = n /\ q = Tail(v)
        BY <2>9
      <4> QED
        BY <3>1, <4>1, <4>2
    <3>3. ASSUME NEW v \in W, v[1] = n, v[2] = m PROVE Tail(Tail(v)) \in T
      BY <3>1, <3>3, <2>9, <2>18
    <3> QED
      BY <3>2, <3>3
  <2>20. \A r \in T : r[1] \in Nat /\ r[1] <= b
    <3> SUFFICES ASSUME NEW r \in T PROVE r[1] \in Nat /\ r[1] <= b
      OBVIOUS
    <3>1. PICK v \in W : r = Tail(Tail(v))
      BY <2>19
    <3> QED
      BY <2>1, <3>1, VersionsAreSeqs
  <2>21. C \in SUBSET Nat /\ C # {} /\ \A k \in C : k <= b
    BY <2>14, <2>19, <2>20 DEF Heads
  <2>22. c \in C /\ \A k \in C : k <= c
    BY <2>21, HighestExists
  <2>23. T # {} /\ Last1(T) = <<c>>
    BY <2>14, <2>19 DEF Last1
  <2>24. \A v \in W : v[1] = n /\ v[2] = m => v[3] <= c
    <3>1. \A r \in T : r[1] <= c
      BY <2>22 DEF Heads
    <3>2. ASSUME NEW v \in W, v[1] = n, v[2] = m PROVE v[3] <= c
      <4>1. Tail(Tail(v))[1] = v[3]
        BY <2>1, VersionsAreSeqs
      <4>2. Tail(Tail(v)) \in T
        BY <2>19, <3>2
      <4> QED
        BY <3>1, <4>1, <4>2
    <3> QED
      BY <3>2
  <2>25. c \in Nat /\ \E v \in W : v[1] = n /\ v[2] = m /\ v[3] = c
    <3>1. c \in Nat /\ \E r \in T : r[1] = c
      BY <2>21, <2>22 DEF Heads
    <3>2. PICK v \in W : v[1] = n /\ v[2] = m /\ Tail(Tail(v))[1] = c
      BY <2>19, <3>1
    <3>3. Tail(Tail(v))[1] = v[3]
      BY <2>1, VersionsAreSeqs
    <3> QED
      BY <3>1, <3>2, <3>3
  <2> HIDE DEF c
  <2> DEFINE picked == <<n>> \o (<<m>> \o <<c>>)
  <2>26. GetHighest(S, max) = picked
    BY <2>2, <2>16, <2>23 DEF U, T
  <2>27. picked \in Seq(Nat) /\ Len(picked) = 3 /\ picked[1] = n /\ picked[2] = m /\ picked[3] = c
    <3>1. <<n>> \in Seq(Nat) /\ <<m>> \in Seq(Nat) /\ <<c>> \in Seq(Nat)
      BY <2>6, <2>14, <2>25
    <3> QED
      BY <3>1
  <2>28. PICK w \in W : w[1] = n /\ w[2] = m /\ w[3] = c
    BY <2>25
  <2>29. w = picked
    <3>1. w \in Seq(Nat) /\ Len(w) = 3
      BY <2>1, VersionsAreSeqs
    <3>2. \A i \in 1 .. Len(w) : w[i] = picked[i]
      BY <3>1, <2>27, <2>28
    <3> HIDE DEF picked
    <3> QED
      BY <3>1, <3>2, <2>27, SeqEqual
  <2> HIDE DEF picked
  <2>30. \A v \in W : ~Lower(picked, v)
    <3> SUFFICES ASSUME NEW v \in W PROVE ~Lower(picked, v)
      OBVIOUS
    <3>1. /\ v \in Release /\ w \in Release
          /\ v[1] \in Nat /\ v[2] \in Nat /\ v[3] \in Nat
      BY <2>1, <2>28, VersionsAreSeqs
    <3>2. /\ v[1] <= n /\ (v[1] = n => v[2] <= m) /\ (v[1] = n /\ v[2] = m => v[3] <= c)
      BY <2>5, <2>13, <2>24
    <3>3. ~Lower(w, v)
      BY <3>1, <3>2, <2>28, <2>6, <2>14, <2>25, LowerMeans
    <3> QED
      BY <3>3, <2>29
  <2>31. picked \in S
    BY <2>1, <2>29
  <2> QED
    BY <2>26, <2>30, <2>31 DEF W
<1> QED
  BY <1>1, <1>2

-----------------------------------------------------------------------------
\* The references of the two repositories.

Among(f, n) == \A x \in DOMAIN f : f[x] \in 1 .. n
Agree(f, g) == DOMAIN f \subseteq DOMAIN g /\ \A x \in DOMAIN f : f[x] = g[x]
RefsWithin(R) ==
    /\ R.main \in Nat \ {0}
    /\ Among(R.releases, R.main) /\ Among(R.majors, R.main) /\ Among(R.patches, R.main)
CopyOf(C, R) ==
    /\ C.main \in 1 .. R.main
    /\ Agree(C.releases, R.releases) /\ Agree(C.majors, R.majors) /\ Agree(C.patches, R.patches)
RefsOK ==
    /\ \A s \in Sources : RefsWithin(repo[s].remote) /\ CopyOf(repo[s].clone, repo[s].remote)
    /\ DOMAIN repo[App].remote.patches = {}

\* What is pushed names a reference that is there.
NamedIn(R, ref, v) ==
    /\ ref = "release" => v \in DOMAIN R.releases
    /\ ref = "major" => v[1] \in DOMAIN R.majors
    /\ ref = "patch" => v \in DOMAIN R.patches

\* References only come, and a clone forgets no release.
RefsGrow ==
    /\ \A s \in Sources :
          LET R == repo[s].remote
              Q == repo'[s].remote IN
          /\ R.main <= Q.main
          /\ DOMAIN R.releases \subseteq DOMAIN Q.releases
          /\ DOMAIN R.majors \subseteq DOMAIN Q.majors
          /\ DOMAIN R.patches \subseteq DOMAIN Q.patches
    /\ \A s \in Sources : DOMAIN repo[s].clone.releases \subseteq DOMAIN repo'[s].clone.releases

\* The commits that a clone has.
LEMMA HaveIs ==
    ASSUME NEW C, NEW R, RefsWithin(R), CopyOf(C, R)
    PROVE  /\ Have(C) \in 1 .. R.main /\ C.main <= Have(C)
           /\ \A x \in DOMAIN C.releases : C.releases[x] <= Have(C)
           /\ \A x \in DOMAIN C.majors : C.majors[x] <= Have(C)
<1> DEFINE H == {C.main} \cup Range(C.releases) \cup Range(C.majors) \cup Range(C.patches)
<1>1. Among(C.releases, R.main) /\ Among(C.majors, R.main) /\ Among(C.patches, R.main)
  BY DEF CopyOf, RefsWithin, Agree, Among
<1>2. H \subseteq 1 .. R.main /\ R.main \in Nat
  BY <1>1 DEF Range, Among, RefsWithin, CopyOf
<1>3. H \in SUBSET Nat /\ H # {} /\ \A n \in H : n <= R.main
  BY <1>2
<1>4. Highest(H) \in H /\ \A n \in H : n <= Highest(H)
  BY <1>2, <1>3, HighestExists
<1>5. Have(C) = Highest(H)
  BY DEF Have
<1>6. /\ C.main \in H
      /\ \A x \in DOMAIN C.releases : C.releases[x] \in H
      /\ \A x \in DOMAIN C.majors : C.majors[x] \in H
  BY DEF Range
<1> HIDE DEF H
<1> QED
  BY <1>2, <1>4, <1>5, <1>6

\* What is fetched are references of the remote; the release that was asked for is
\* among them, and those that were known (LocalGit.fetch).
LEMMA FetchedIs ==
    ASSUME RepoShape, RefsOK, NEW s \in Sources, NEW ref, NEW v, NamedIn(repo[s].remote, ref, v)
    PROVE  /\ CopyOf(Fetched(s, ref, v), repo[s].remote)
           /\ DOMAIN repo[s].clone.releases \subseteq DOMAIN Fetched(s, ref, v).releases
           /\ ref = "release" => v \in DOMAIN Fetched(s, ref, v).releases
<1> DEFINE C == repo[s].clone
           R == repo[s].remote
           with == CASE ref = "release" -> [C EXCEPT !.releases = Put(@, v, R.releases[v])]
                     [] ref = "major" -> [C EXCEPT !.majors = Put(@, v[1], R.majors[v[1]])]
                     [] ref = "patch" -> [C EXCEPT !.patches = Put(@, v, R.patches[v])]
                     [] ref = "main" -> [C EXCEPT !.main = R.main]
                     [] OTHER -> C
           F == [with EXCEPT !.releases = UpTo(R.releases, Have(with)),
                             !.majors = UpTo(R.majors, Have(with))]
<1>1. F = Fetched(s, ref, v)
  BY DEF Fetched
<1>2. C = [x \in RefFields |-> C[x]] /\ RefsWithin(R) /\ CopyOf(C, R)
  BY DEF RepoShape, RefsShape, RefsOK
<1>3. ASSUME NEW y, NEW f \in RefFields
      PROVE  \A x \in RefFields : [C EXCEPT ![f] = y][x] = IF x = f THEN y ELSE C[x]
  BY <1>2
<1>4. ASSUME NEW f, NEW g, NEW x, Agree(f, g), x \in DOMAIN g
      PROVE  Agree(Put(f, x, g[x]), g) /\ DOMAIN f \subseteq DOMAIN Put(f, x, g[x])
             /\ x \in DOMAIN Put(f, x, g[x])
  BY <1>4 DEF Agree, Put, Over
<1>5. with = [x \in RefFields |-> with[x]]
  <2>1. \A y, f : f \in RefFields => [C EXCEPT ![f] = y] = [x \in RefFields |-> [C EXCEPT ![f] = y][x]]
    BY <1>2
  <2>2. CASE ref = "release"
    BY <2>1, <2>2 DEF RefFields
  <2>3. CASE ref = "major"
    BY <2>1, <2>3 DEF RefFields
  <2>4. CASE ref = "patch"
    BY <2>1, <2>4 DEF RefFields
  <2>5. CASE ref = "main"
    BY <2>1, <2>5 DEF RefFields
  <2>6. CASE ref \notin {"release", "major", "patch", "main"}
    BY <2>6, <1>2
  <2> QED
    BY <2>2, <2>3, <2>4, <2>5, <2>6
<1>6. /\ CopyOf(with, R) /\ DOMAIN C.releases \subseteq DOMAIN with.releases
      /\ ref = "release" => v \in DOMAIN with.releases
  <2>1. CASE ref = "release"
    <3>1. with = [C EXCEPT !["releases"] = Put(C.releases, v, R.releases[v])]
      BY <2>1
    <3>2. /\ with.releases = Put(C.releases, v, R.releases[v]) /\ with.main = C.main
          /\ with.majors = C.majors /\ with.patches = C.patches
      BY <3>1, <1>3 DEF RefFields
    <3>3. v \in DOMAIN R.releases
      BY <2>1 DEF NamedIn
    <3>4. Agree(C.releases, R.releases)
      BY <1>2 DEF CopyOf
    <3>5. /\ Agree(Put(C.releases, v, R.releases[v]), R.releases)
          /\ v \in DOMAIN Put(C.releases, v, R.releases[v])
          /\ DOMAIN C.releases \subseteq DOMAIN Put(C.releases, v, R.releases[v])
      BY <3>3, <3>4, <1>4
    <3> QED
      BY <2>1, <3>2, <3>5, <1>2 DEF CopyOf
  <2>2. CASE ref = "major"
    <3>1. with = [C EXCEPT !["majors"] = Put(C.majors, v[1], R.majors[v[1]])]
      BY <2>2
    <3>2. /\ with.majors = Put(C.majors, v[1], R.majors[v[1]]) /\ with.main = C.main
          /\ with.releases = C.releases /\ with.patches = C.patches
      BY <3>1, <1>3 DEF RefFields
    <3>3. v[1] \in DOMAIN R.majors
      BY <2>2 DEF NamedIn
    <3>4. Agree(with.majors, R.majors)
      BY <3>2, <3>3, <1>2, <1>4 DEF CopyOf
    <3> QED
      BY <2>2, <3>2, <3>4, <1>2 DEF CopyOf
  <2>3. CASE ref = "patch"
    <3>1. with = [C EXCEPT !["patches"] = Put(C.patches, v, R.patches[v])]
      BY <2>3
    <3>2. /\ with.patches = Put(C.patches, v, R.patches[v]) /\ with.main = C.main
          /\ with.releases = C.releases /\ with.majors = C.majors
      BY <3>1, <1>3 DEF RefFields
    <3>3. v \in DOMAIN R.patches
      BY <2>3 DEF NamedIn
    <3>4. Agree(with.patches, R.patches)
      BY <3>2, <3>3, <1>2, <1>4 DEF CopyOf
    <3> QED
      BY <2>3, <3>2, <3>4, <1>2 DEF CopyOf
  <2>4. CASE ref = "main"
    <3>1. with = [C EXCEPT !["main"] = R.main]
      BY <2>4
    <3>2. /\ with.main = R.main /\ with.releases = C.releases
          /\ with.majors = C.majors /\ with.patches = C.patches
      BY <3>1, <1>3 DEF RefFields
    <3> QED
      BY <2>4, <3>2, <1>2 DEF CopyOf, RefsWithin
  <2>5. CASE ref \notin {"release", "major", "patch", "main"}
    BY <2>5, <1>2
  <2> QED
    BY <2>1, <2>2, <2>3, <2>4, <2>5
<1> HIDE DEF with
<1>7. /\ Have(with) \in Nat
      /\ \A x \in DOMAIN with.releases : with.releases[x] <= Have(with)
  BY <1>2, <1>6, HaveIs DEF RefsWithin
<1> DEFINE a == UpTo(R.releases, Have(with))
           b == UpTo(R.majors, Have(with))
<1>8. Agree(a, R.releases) /\ Agree(b, R.majors) /\ DOMAIN with.releases \subseteq DOMAIN a
  BY <1>6, <1>7 DEF UpTo, Restrict, Agree, CopyOf
<1> HIDE DEF a, b
<1>9. F = [with EXCEPT !.releases = a, !.majors = b]
  BY DEF a, b
<1>10. F = [x \in RefFields |-> IF x = "majors" THEN b ELSE IF x = "releases" THEN a ELSE with[x]]
  BY <1>5, <1>9 DEF RefFields
<1> HIDE DEF F
<1>11. F.releases = a /\ F.majors = b /\ F.main = with.main /\ F.patches = with.patches
  BY <1>10 DEF RefFields
<1>12. CopyOf(F, R)
  BY <1>6, <1>8, <1>11 DEF CopyOf
<1> QED
  BY <1>1, <1>6, <1>8, <1>11, <1>12

\* References that come to a repository leave the clones copies of what is there.
LEMMA RemoteGrows ==
    ASSUME RefsOK, NEW s \in Sources, Elsewhere(s), repo'[s].clone = repo[s].clone,
           RefsWithin(repo[s].remote)', repo[s].remote.main <= repo'[s].remote.main,
           Agree(repo[s].remote.releases, repo'[s].remote.releases),
           Agree(repo[s].remote.majors, repo'[s].remote.majors),
           Agree(repo[s].remote.patches, repo'[s].remote.patches),
           s = App => DOMAIN repo'[App].remote.patches = {}
    PROVE  RefsOK' /\ RefsGrow
<1>1. \A q \in Sources \ {s} : repo'[q] = repo[q]
  BY DEF Elsewhere
<1>2. CopyOf(repo'[s].clone, repo'[s].remote)
  <2>1. /\ CopyOf(repo[s].clone, repo[s].remote)
        /\ repo[s].remote.main \in Nat /\ repo'[s].remote.main \in Nat
    BY DEF RefsOK, RefsWithin
  <2>2. \A f, g, h : Agree(f, g) /\ Agree(g, h) => Agree(f, h)
    BY DEF Agree
  <2>3. repo[s].clone.main \in 1 .. repo'[s].remote.main
    BY <2>1 DEF CopyOf
  <2>4. /\ Agree(repo[s].clone.releases, repo'[s].remote.releases)
        /\ Agree(repo[s].clone.majors, repo'[s].remote.majors)
        /\ Agree(repo[s].clone.patches, repo'[s].remote.patches)
    BY <2>1, <2>2 DEF CopyOf
  <2> QED
    BY <2>3, <2>4 DEF CopyOf
<1>3. \A q \in Sources : RefsWithin(repo'[q].remote) /\ CopyOf(repo'[q].clone, repo'[q].remote)
  BY <1>1, <1>2 DEF RefsOK
<1>4. DOMAIN repo'[App].remote.patches = {}
  BY <1>1, LibIsSource DEF RefsOK
<1>5. RefsGrow
  <2>1. \A q \in Sources \ {s} : repo[q].remote.main <= repo'[q].remote.main
    BY <1>1 DEF RefsOK, RefsWithin
  <2> QED
    BY <1>1, <2>1 DEF RefsGrow, Agree
<1> QED
  BY <1>3, <1>4, <1>5 DEF RefsOK

\* So does a clone that fetches from there.
LEMMA CloneGrows ==
    ASSUME RefsOK, NEW s \in Sources, Elsewhere(s), repo'[s].remote = repo[s].remote,
           CopyOf(repo'[s].clone, repo[s].remote),
           DOMAIN repo[s].clone.releases \subseteq DOMAIN repo'[s].clone.releases
    PROVE  RefsOK' /\ RefsGrow
<1>1. \A q \in Sources : repo'[q].remote = repo[q].remote
  BY DEF Elsewhere
<1>2. \A q \in Sources : repo[q].remote.main <= repo[q].remote.main
  BY DEF RefsOK, RefsWithin
<1>3. RefsGrow
  BY <1>1, <1>2 DEF RefsGrow, Elsewhere
<1>4. RefsOK'
  BY <1>1, LibIsSource DEF RefsOK, Elsewhere
<1> QED
  BY <1>3, <1>4

\* What is there stays.
LEMMA RefsStay == ASSUME RefsOK, UNCHANGED repo PROVE RefsOK' /\ RefsGrow
<1>1. RefsOK'
  BY DEF RefsOK, RefsWithin, CopyOf, Among, Agree
<1>2. \A q \in Sources : repo[q].remote.main <= repo[q].remote.main
  BY DEF RefsOK, RefsWithin
<1> QED
  BY <1>1, <1>2 DEF RefsGrow

\* A reference that is new or stays where it is.
LEMMA PutAgrees ==
    ASSUME NEW f, NEW x, NEW y, x \notin DOMAIN f
    PROVE  Agree(f, Put(f, x, y)) /\ DOMAIN Put(f, x, y) = DOMAIN f \cup {x}
           /\ \A n : Among(f, n) /\ y \in 1 .. n => Among(Put(f, x, y), n)
BY DEF Agree, Put, Over, Among

\* A commit more in a repository.
LEMMA MainGrows ==
    ASSUME RepoShape, RefsOK, NEW s \in Sources, repo' = [repo EXCEPT ![s].remote.main = @ + 1]
    PROVE  RefsOK' /\ RefsGrow /\ Main(s)' = Main(s) + 1
<1> DEFINE R == repo[s].remote
           Q == repo'[s].remote
<1>1. repo' = [repo EXCEPT ![s].remote.main = R.main + 1]
  OBVIOUS
<1>2. /\ RepoShape' /\ Elsewhere(s) /\ repo'[s].clone = repo[s].clone
      /\ \A x \in RefFields : Q[x] = IF x = "main" THEN R.main + 1 ELSE R[x]
  BY <1>1, RemoteMainChanges
<1>3. Q.main = R.main + 1 /\ Q.releases = R.releases /\ Q.majors = R.majors /\ Q.patches = R.patches
  BY <1>2 DEF RefFields
<1>4. RefsWithin(R)
  BY DEF RefsOK
<1>5. RefsWithin(Q) /\ R.main <= Q.main
  <2>1. R.main \in Nat \ {0} /\ R.main + 1 \in Nat \ {0} /\ R.main <= R.main + 1
    BY <1>4 DEF RefsWithin
  <2>2. \A f : Among(f, R.main) => Among(f, R.main + 1)
    BY <2>1 DEF Among
  <2> QED
    BY <1>3, <1>4, <2>1, <2>2 DEF RefsWithin
<1>6. \A f : Agree(f, f)
  BY DEF Agree
<1>7. s = App => DOMAIN repo'[App].remote.patches = {}
  BY <1>3 DEF RefsOK
<1>8. RefsOK' /\ RefsGrow
  BY <1>2, <1>3, <1>5, <1>6, <1>7, RemoteGrows DEF RefsWithin
<1> QED
  BY <1>3, <1>8 DEF Main

-----------------------------------------------------------------------------
\* What every step does to the task whose step it is.

\* Only p has another task, and it differs in the fields X at most.
Moves(p, X) == OthersStay(p) /\ \A x \in TaskFields \ X : task'[p][x] = task[p][x]
Ends(p) == OthersStay(p) /\ task'[p] = Idle
Starts(p, X) == OthersStay(p) /\ \A x \in TaskFields \ X : task'[p][x] = Idle[x]
Relabels(p, kind) ==
    /\ Moves(p, {"kind", "at", "again", "want"})
    /\ task'[p].kind = kind /\ task'[p].at = "labels" /\ task'[p].again = FALSE
    /\ task'[p].want = Restrict(task[p].want, LabelsLeft(p))

\* Become gives the fields that it names, Go the stage, End leaves no task.
LEMMA BecomeMoves ==
    ASSUME TaskInv, NEW p \in Clients, NEW r, DOMAIN r \subseteq TaskFields, Become(p, r)
    PROVE  Moves(p, DOMAIN r) /\ \A x \in DOMAIN r : task'[p][x] = r[x]
BY BecomeChanges DEF TaskInv, Moves

\* A task at its next stage.
LEMMA GoMoves ==
    ASSUME TaskInv, NEW p \in Clients, NEW stage, Go(p, stage)
    PROVE  Moves(p, {"at"}) /\ task'[p].at = stage
BY GoesTo, TaskFieldsAre DEF Moves

\* A task that is over.
LEMMA EndEnds == ASSUME TaskInv, NEW p \in Clients, End(p) PROVE Ends(p)
BY EndChanges DEF TaskInv, Ends

\* The work on a label ends, with or without success.
LEMMA LabelDoneDoes ==
    ASSUME TaskInv, NEW p \in Clients, LabelDone(p)
    PROVE  Ends(p) \/ Relabels(p, task[p].kind)
<1> DEFINE r(kind) == [kind |-> kind, at |-> "labels", again |-> FALSE,
                       want |-> Restrict(task[p].want, LabelsLeft(p))]
<1>1. CASE WorkEnds(p)
  BY <1>1, EndEnds DEF WorkEnds
<1>2. CASE Become(p, r(task[p].kind))
  BY <1>2, BecomeMoves, TaskFieldsAre DEF Relabels
<1> QED
  BY <1>1, <1>2 DEF LabelDone, NextLabels

\* The same when it fails: the labels that are left are an orphan's.
LEMMA WorkFailsDoes ==
    ASSUME TaskInv, NEW p \in Clients, WorkFails(p)
    PROVE  Ends(p) \/ Relabels(p, "orphan")
<1> DEFINE r == [kind |-> "orphan", at |-> "labels", again |-> FALSE,
                 want |-> Restrict(task[p].want, LabelsLeft(p))]
<1>1. CASE End(p)
  BY <1>1, EndEnds
<1>2. CASE Become(p, r)
  BY <1>2, BecomeMoves, TaskFieldsAre DEF Relabels
<1> QED
  BY <1>1, <1>2 DEF WorkFails, NextLabels

\* A scan: the model, the changes and the file are read.
LEMMA ReadModelDoes ==
    ASSUME TaskInv, NEW p \in Clients, ReadModel(p)
    PROVE  /\ task[p].at = "scan"
           /\ Moves(p, {"model", "at"})
           /\ task'[p].at = "list" /\ task'[p].model = repo[App].clone
<1> DEFINE r == [model |-> repo[App].clone, at |-> "list"]
<1>1. Become(p, r) /\ task[p].at = "scan"
  BY DEF ReadModel, WorkStep
<1> QED
  BY <1>1, BecomeMoves, TaskFieldsAre

\* What ListUpdates does.
LEMMA ListUpdatesDoes ==
    ASSUME TaskInv, NEW p \in Clients, ListUpdates(p)
    PROVE  LET R == task[p].model
               sha == ReadSha(R, TopMajor(R)) IN
           /\ task[p].at = "list" /\ task[p].kind = "push"
           /\ \/ sha = 0 /\ Ends(p)
              \/ /\ sha # 0
                 /\ Moves(p, {"at", "seen", "model", "major", "base", "todo"})
                 /\ task'[p].at = "look" /\ task'[p].major = TopMajor(R)
                 /\ task'[p].base = heads[sha] /\ task'[p].todo = UsedBy(heads[sha])
                 /\ task'[p].seen =
                       [u \in OpenUpdates |-> [label |-> updates[u].label, file |-> updates[u].file]]
<1> DEFINE R == task[p].model
           sha == ReadSha(R, TopMajor(R))
           seen == [u \in OpenUpdates |-> [label |-> updates[u].label, file |-> updates[u].file]]
           r == [at |-> "look", seen |-> seen, model |-> None, major |-> TopMajor(R),
                 base |-> heads[sha], todo |-> UsedBy(heads[sha])]
<1>1. task[p].at = "list" /\ task[p].kind = "push"
  BY DEF ListUpdates, WorkStep
<1>2. CASE sha = 0
  <2>1. WorkEnds(p)
    BY <1>2 DEF ListUpdates
  <2> QED
    BY <1>1, <1>2, <2>1, EndEnds DEF WorkEnds
<1>3. CASE sha # 0
  <2>1. Become(p, r)
    BY <1>3 DEF ListUpdates
  <2>2. /\ DOMAIN r = {"at", "seen", "model", "major", "base", "todo"}
        /\ r.at = "look" /\ r.seen = seen /\ r.major = TopMajor(R) /\ r.base = heads[sha]
        /\ r.todo = UsedBy(heads[sha])
    OBVIOUS
  <2> HIDE DEF r
  <2>3. Moves(p, DOMAIN r) /\ \A x \in DOMAIN r : task'[p][x] = r[x]
    BY <2>1, <2>2, BecomeMoves, TaskFieldsAre
  <2> QED
    BY <1>1, <1>3, <2>2, <2>3
<1> QED
  BY <1>2, <1>3

\* Versions are looked up and stored.
LEMMA LookUpDoes ==
    ASSUME TaskInv, NEW p \in Clients, NEW d, LookUp(p, d)
    PROVE  /\ task[p].at = "look" /\ d \in task[p].todo \ task[p].store
           /\ \/ /\ cache[d] = None
                 /\ Moves(p, {"found", "store"})
                 /\ task'[p].found = Put(task[p].found, d, Listing(d))
                 /\ task'[p].store = task[p].store \cup {d}
              \/ /\ cache[d] # None
                 /\ Moves(p, {"found", "todo"})
                 /\ task'[p].found = Put(task[p].found, d, IF cache[d] = Invalid THEN {} ELSE cache[d])
                 /\ task'[p].todo = task[p].todo \ {d}
<1> DEFINE r == [found |-> Put(task[p].found, d, Listing(d)), store |-> task[p].store \cup {d}]
           s == [found |-> Put(task[p].found, d, IF cache[d] = Invalid THEN {} ELSE cache[d]),
                 todo |-> task[p].todo \ {d}]
<1>1. task[p].at = "look" /\ d \in task[p].todo \ task[p].store
  BY DEF LookUp, WorkStep
<1>2. CASE cache[d] = None
  <2>1. Become(p, r)
    BY <1>2 DEF LookUp
  <2> QED
    BY <1>1, <1>2, <2>1, BecomeMoves, TaskFieldsAre
<1>3. CASE cache[d] # None
  <2>1. Become(p, s)
    BY <1>3 DEF LookUp
  <2> QED
    BY <1>1, <1>3, <2>1, BecomeMoves, TaskFieldsAre
<1> QED
  BY <1>2, <1>3

\* What StoreVersions does.
LEMMA StoreVersionsDoes ==
    ASSUME TaskInv, NEW p \in Clients, NEW d, StoreVersions(p, d)
    PROVE  /\ task[p].at = "look" /\ d \in task[p].store
           /\ Moves(p, {"todo", "store", "late"})
           /\ task'[p].todo = task[p].todo \ {d} /\ task'[p].store = task[p].store \ {d}
           /\ task'[p].late = task[p].late \ {d}
<1>1. Become(p, Stored(p, d)) /\ task[p].at = "look" /\ d \in task[p].store
  BY DEF StoreVersions, WorkStep
<1> QED
  BY <1>1, BecomeMoves, TaskFieldsAre DEF Stored

\* What LookUpFails does.
LEMMA LookUpFailsDoes ==
    ASSUME TaskInv, NEW p \in Clients, NEW d, LookUpFails(p, d)
    PROVE  /\ task[p].at = "look" /\ d \in task[p].store
           /\ Moves(p, {"found", "todo", "store", "late"})
           /\ task'[p].found = Put(task[p].found, d, {})
           /\ task'[p].todo = task[p].todo \ {d} /\ task'[p].store = task[p].store \ {d}
           /\ task'[p].late = task[p].late \ {d}
<1> DEFINE r == Over([found |-> Put(task[p].found, d, {})], Stored(p, d))
<1>1. Become(p, r) /\ task[p].at = "look" /\ d \in task[p].store
  BY DEF LookUpFails, WorkStep
<1>2. /\ DOMAIN r = {"found", "todo", "store", "late"}
      /\ r.found = Put(task[p].found, d, {}) /\ r.todo = task[p].todo \ {d}
      /\ r.store = task[p].store \ {d} /\ r.late = task[p].late \ {d}
  BY DEF Over, Stored
<1> HIDE DEF r
<1> QED
  BY <1>1, <1>2, BecomeMoves, TaskFieldsAre

\* What is to be written for a label, and the change that it is written to.
LEMMA ScannedBranchDoes ==
    ASSUME TaskInv, NEW p \in Clients, ScannedBranch(p)
    PROVE  LET labels == {l \in {LabelOf[d] : d \in Deps} : ScanOf(p, l) # <<>>} IN
           /\ task[p].at = "look" /\ task[p].todo = {} /\ ~task[p].again
           /\ \/ labels = {} /\ Ends(p)
              \/ /\ labels # {} /\ Moves(p, {"want", "at"})
                 /\ task'[p].at = "labels" /\ task'[p].want = [l \in labels |-> ScanOf(p, l)]
<1> DEFINE labels == {l \in {LabelOf[d] : d \in Deps} : ScanOf(p, l) # <<>>}
           r == [want |-> [l \in labels |-> ScanOf(p, l)], at |-> "labels"]
<1>1. task[p].at = "look" /\ task[p].todo = {} /\ ~task[p].again
  BY DEF ScannedBranch, WorkStep
<1>2. CASE labels = {}
  <2>1. WorkEnds(p)
    BY <1>2 DEF ScannedBranch
  <2> QED
    BY <1>1, <1>2, <2>1, EndEnds DEF WorkEnds
<1>3. CASE labels # {}
  <2>1. Become(p, r)
    BY <1>3 DEF ScannedBranch
  <2>2. DOMAIN r = {"want", "at"} /\ r.at = "labels" /\ r.want = [l \in labels |-> ScanOf(p, l)]
    OBVIOUS
  <2> HIDE DEF r, labels
  <2>3. Moves(p, DOMAIN r) /\ \A x \in DOMAIN r : task'[p][x] = r[x]
    BY <2>1, <2>2, BecomeMoves, TaskFieldsAre
  <2>4. Moves(p, {"want", "at"}) /\ task'[p].at = "labels" /\ task'[p].want = [l \in labels |-> ScanOf(p, l)]
    BY <2>2, <2>3
  <2> QED
    BY <1>1, <1>3, <2>4 DEF labels
<1> QED
  BY <1>2, <1>3

\* What TakeLabel does.
LEMMA TakeLabelDoes ==
    ASSUME TaskInv, NEW p \in Clients, NEW l, TakeLabel(p, l)
    PROVE  LET seen == task[p].seen
               existing == {u \in DOMAIN seen : seen[u].label = l} IN
           /\ task[p].at = "labels" /\ l \in DOMAIN task[p].want
           /\ \/ /\ existing = {} /\ Moves(p, {"label", "at"})
                 /\ task'[p].label = l /\ task'[p].at = "create" /\ missed' = missed
              \/ \E u \in existing :
                 /\ Moves(p, {"label", "id", "at", "again", "base", "found", "todo"})
                 /\ task'[p].label = l /\ task'[p].id = u /\ task'[p].at = "look"
                 /\ task'[p].again = TRUE /\ task'[p].base = seen[u].file /\ task'[p].found = NoOne
                 /\ task'[p].todo = {d \in UsedBy(seen[u].file) : LabelOf[d] = l}
                 /\ MissedIf(Lacks(seen[u].file, task[p].want[l]))
<1> DEFINE seen == task[p].seen
           existing == {u \in DOMAIN seen : seen[u].label = l}
           r == [label |-> l, at |-> "create"]
           s(u) == [label |-> l, id |-> u, at |-> "look", again |-> TRUE,
                    base |-> seen[u].file, found |-> NoOne,
                    todo |-> {d \in UsedBy(seen[u].file) : LabelOf[d] = l}]
<1>1. task[p].at = "labels" /\ l \in DOMAIN task[p].want
  BY DEF TakeLabel, WorkStep
<1>2. CASE existing = {}
  <2>1. Become(p, r) /\ missed' = missed
    BY <1>2 DEF TakeLabel
  <2>2. Moves(p, {"label", "at"}) /\ task'[p].label = l /\ task'[p].at = "create"
    BY <2>1, BecomeMoves, TaskFieldsAre
  <2> QED
    BY <1>1, <1>2, <2>1, <2>2
<1>3. CASE existing # {}
  <2>1. PICK u \in existing : Become(p, s(u)) /\ MissedIf(Lacks(seen[u].file, task[p].want[l]))
    BY <1>3 DEF TakeLabel
  <2> DEFINE todo == {d \in UsedBy(seen[u].file) : LabelOf[d] = l}
             t == s(u)
  <2>2. /\ DOMAIN t = {"label", "id", "at", "again", "base", "found", "todo"}
        /\ t.label = l /\ t.id = u /\ t.at = "look" /\ t.again = TRUE /\ t.base = seen[u].file
        /\ t.found = NoOne /\ t.todo = todo
    OBVIOUS
  <2>3. Become(p, t)
    BY <2>1
  <2> HIDE DEF t, todo
  <2>4. Moves(p, DOMAIN t) /\ \A x \in DOMAIN t : task'[p][x] = t[x]
    BY <2>2, <2>3, BecomeMoves, TaskFieldsAre
  <2>5. /\ Moves(p, {"label", "id", "at", "again", "base", "found", "todo"})
        /\ task'[p].label = l /\ task'[p].id = u /\ task'[p].at = "look"
        /\ task'[p].again = TRUE /\ task'[p].base = seen[u].file /\ task'[p].found = NoOne
        /\ task'[p].todo = todo
    BY <2>2, <2>4
  <2> QED
    BY <1>1, <2>1, <2>5 DEF todo
<1> QED
  BY <1>2, <1>3

\* What ScannedUpdate does.
LEMMA ScannedUpdateDoes ==
    ASSUME TaskInv, NEW p \in Clients, ScannedUpdate(p)
    PROVE  LET l == task[p].label
               content == ScanOf(p, l) IN
           /\ task[p].at = "look" /\ task[p].todo = {} /\ task[p].again
           /\ \/ content = <<>> /\ LabelDone(p)
              \/ /\ content # <<>> /\ Moves(p, {"want", "at"})
                 /\ task'[p].at = "edit" /\ task'[p].want = Put(task[p].want, l, content)
<1> DEFINE l == task[p].label
           content == ScanOf(p, l)
           r == [want |-> Put(task[p].want, l, content), at |-> "edit"]
<1>1. task[p].at = "look" /\ task[p].todo = {} /\ task[p].again
  BY DEF ScannedUpdate, WorkStep
<1>2. CASE content = <<>>
  BY <1>1, <1>2 DEF ScannedUpdate
<1>3. CASE content # <<>>
  <2>1. Become(p, r)
    BY <1>3 DEF ScannedUpdate
  <2>2. DOMAIN r = {"want", "at"} /\ r.at = "edit" /\ r.want = Put(task[p].want, l, content)
    OBVIOUS
  <2> HIDE DEF r, content
  <2>3. Moves(p, DOMAIN r) /\ \A x \in DOMAIN r : task'[p][x] = r[x]
    BY <2>1, <2>2, BecomeMoves, TaskFieldsAre
  <2>4. Moves(p, {"want", "at"}) /\ task'[p].at = "edit" /\ task'[p].want = Put(task[p].want, l, content)
    BY <2>2, <2>3
  <2> QED
    BY <1>1, <1>3, <2>4 DEF content
<1> QED
  BY <1>2, <1>3

\* An upload looks for the change of its label.
LEMMA FindUploadDoes ==
    ASSUME TaskInv, NEW p \in Clients, FindUpload(p)
    PROVE  LET existing == {u \in OpenUpdates : updates[u].label = task[p].label} IN
           /\ task[p].at = "list" /\ task[p].kind = "upload"
           /\ \/ Moves(p, {"at"}) /\ task'[p].at = "create"
              \/ \E u \in existing :
                    Moves(p, {"id", "at"}) /\ task'[p].at = "edit" /\ task'[p].id = u
<1> DEFINE existing == {u \in OpenUpdates : updates[u].label = task[p].label}
           r(u) == [id |-> u, at |-> "edit"]
<1>1. task[p].at = "list" /\ task[p].kind = "upload"
  BY DEF FindUpload, WorkStep
<1>2. CASE Go(p, "create")
  BY <1>1, <1>2, GoMoves
<1>3. CASE \E u \in existing : Become(p, r(u))
  <2>1. PICK u \in existing : Become(p, r(u))
    BY <1>3
  <2>2. Moves(p, {"id", "at"}) /\ task'[p].at = "edit" /\ task'[p].id = u
    BY <2>1, BecomeMoves, TaskFieldsAre
  <2> QED
    BY <1>1, <2>2
<1> QED
  BY <1>2, <1>3 DEF FindUpload

\* A change is created, labelled, shown and given its content.
LEMMA CreateDoes ==
    ASSUME TaskInv, NEW p \in Clients, Create(p)
    PROVE  /\ task[p].at = "create" /\ CreateUpdate(task[p].kind)
           /\ Moves(p, {"id", "at"}) /\ task'[p].at = "label" /\ task'[p].id = Len(updates) + 1
<1> DEFINE r == [id |-> Len(updates) + 1, at |-> "label"]
<1>1. task[p].at = "create" /\ CreateUpdate(task[p].kind) /\ Become(p, r)
  BY DEF Create, WorkStep
<1> QED
  BY <1>1, BecomeMoves, TaskFieldsAre

\* What LabelUpdate does.
LEMMA LabelUpdateDoes ==
    ASSUME TaskInv, NEW p \in Clients, LabelUpdate(p)
    PROVE  /\ task[p].at = "label" /\ SetHashTags(task[p].id, task[p].label)
           /\ Moves(p, {"at"}) /\ task'[p].at = "show"
BY GoMoves DEF LabelUpdate, WorkStep

\* What ShowUpdate does.
LEMMA ShowUpdateDoes ==
    ASSUME TaskInv, NEW p \in Clients, ShowUpdate(p)
    PROVE  /\ task[p].at = "show" /\ MakePublic(task[p].id)
           /\ Moves(p, {"at"}) /\ task'[p].at = "edit"
BY GoMoves DEF ShowUpdate, WorkStep

\* What EditUpdate does.
LEMMA EditUpdateDoes ==
    ASSUME TaskInv, NEW p \in Clients, EditUpdate(p)
    PROVE  LET u == task[p].id
               content == task[p].want[task[p].label] IN
           /\ task[p].at = "edit"
           /\ \/ /\ Accepts(u, content) /\ PutEdit(u, content)
                 /\ Moves(p, {"at"}) /\ task'[p].at = "publish"
              \/ /\ ~Accepts(u, content) /\ UNCHANGED updates /\ LabelDone(p)
           /\ MissedIf(~updates[u].open \/ updates[u].edit # NoEdit)
BY GoMoves DEF EditUpdate, WorkStep

\* What PublishUpdate does.
LEMMA PublishUpdateDoes ==
    ASSUME TaskInv, NEW p \in Clients, PublishUpdate(p)
    PROVE  LET u == task[p].id IN
           /\ task[p].at = "publish"
           /\ \/ CanPublish(u) /\ PublishEdit(u) /\ LabelDone(p)
              \/ ~CanPublish(u) /\ UNCHANGED updates /\ WorkFails(p)
           /\ MissedIf(~CanPublish(u) \/ TakesBack(u))
BY DEF PublishUpdate, WorkStep

-----------------------------------------------------------------------------
\* The handlers of a push.

\* The push is fetched, registered, and looked up.
LEMMA EnsurePushedDoes ==
    ASSUME TaskInv, NEW p \in Clients, EnsurePushed(p)
    PROVE  LET t == task[p] IN
           /\ t.at = "ensure" /\ t.kind = "push"
           /\ \/ Ends(p) /\ ~(t.source = Lib /\ t.ref = "release")
              \/ Moves(p, {"at"}) /\ task'[p].at = "dependencies" /\ t.source = App
              \/ Moves(p, {"at"}) /\ task'[p].at = "invalidate"
<1>1. task[p].at = "ensure" /\ task[p].kind = "push"
  BY DEF EnsurePushed, PushStep, At
<1>2. CASE End(p) /\ ~(task[p].source = Lib /\ task[p].ref = "release")
  BY <1>1, <1>2, EndEnds
<1>3. CASE Go(p, "dependencies") /\ task[p].source = App
  BY <1>1, <1>3, GoMoves
<1>4. CASE Go(p, "invalidate")
  BY <1>1, <1>4, GoMoves
<1> QED
  BY <1>2, <1>3, <1>4, SourcesAreTwo DEF EnsurePushed, Normalized

\* What ReadDependencies does.
LEMMA ReadDependenciesDoes ==
    ASSUME TaskInv, NEW p \in Clients, ReadDependencies(p)
    PROVE  LET sha == ReadSha(repo[App].clone, TopMajor(repo[App].clone)) IN
           /\ task[p].at = "dependencies" /\ task[p].kind = "push"
           /\ Moves(p, {"at", "todo"}) /\ task'[p].at = "read"
           /\ task'[p].todo = IF sha = 0 THEN {} ELSE UsedBy(heads[sha])
<1> DEFINE sha == ReadSha(repo[App].clone, TopMajor(repo[App].clone))
           todo == IF sha = 0 THEN {} ELSE UsedBy(heads[sha])
           r == [at |-> "read", todo |-> todo]
<1>1. task[p].at = "dependencies" /\ task[p].kind = "push" /\ Become(p, r)
  BY DEF ReadDependencies, PushStep, At
<1>2. DOMAIN r = {"at", "todo"} /\ r.at = "read" /\ r.todo = todo
  OBVIOUS
<1> HIDE DEF r, todo
<1>3. Moves(p, {"at", "todo"}) /\ task'[p].at = "read" /\ task'[p].todo = todo
  BY <1>1, <1>2, BecomeMoves, TaskFieldsAre
<1> QED
  BY <1>1, <1>3 DEF todo

\* What ReadIndex does.
LEMMA ReadIndexDoes ==
    ASSUME TaskInv, NEW p \in Clients, ReadIndex(p)
    PROVE  /\ task[p].at = "read" /\ task[p].kind = "push"
           /\ Moves(p, {"at"}) /\ task'[p].at = "replace"
BY GoMoves DEF ReadIndex, PushStep, At

\* What ReplaceIndex does.
LEMMA ReplaceIndexDoes ==
    ASSUME TaskInv, NEW p \in Clients, ReplaceIndex(p)
    PROVE  task[p].at = "replace" /\ task[p].kind = "push" /\ Ends(p)
BY EndEnds DEF ReplaceIndex, PushStep, At

\* What Invalidate does.
LEMMA InvalidateDoes ==
    ASSUME TaskInv, NEW p \in Clients, Invalidate(p)
    PROVE  /\ task[p].at = "invalidate" /\ task[p].kind = "push"
           /\ \A q \in Clients : /\ \A x \in TaskFields \ {"at", "late"} : task'[q][x] = task[q][x]
                                 /\ q # p => task'[q].at = task[q].at
                                 /\ q # p => task'[q].late = task[q].late \cup task[q].store
           /\ task'[p].at = "lookup" /\ task'[p].late = task[p].late
<1> DEFINE s(q) == IF q = p THEN [at |-> "lookup"] ELSE [late |-> task[q].late \cup task[q].store]
           t(q) == Over(s(q), task[q])
<1>1. task' = [q \in Clients |-> t(q)] /\ task[p].at = "invalidate" /\ task[p].kind = "push"
  BY DEF Invalidate, PushStep, At
<1>2. /\ \A q \in Clients : DOMAIN s(q) = IF q = p THEN {"at"} ELSE {"late"}
      /\ \A q \in Clients : q # p => s(q).late = task[q].late \cup task[q].store
      /\ s(p).at = "lookup"
  OBVIOUS
<1> HIDE DEF s
<1>3. ASSUME NEW q \in Clients
      PROVE  t(q) = [x \in TaskFields |-> IF x \in DOMAIN s(q) THEN s(q)[x] ELSE task[q][x]]
  BY <1>2, TaskFieldsAre DEF Over, TaskInv, TaskShape
<1> HIDE DEF t
<1>4. \A q \in Clients, x \in TaskFields : task'[q][x] = IF x \in DOMAIN s(q) THEN s(q)[x] ELSE task[q][x]
  BY <1>1, <1>3
<1> QED
  BY <1>1, <1>2, <1>4, TaskFieldsAre

\* What FindUsers does.
LEMMA FindUsersDoes ==
    ASSUME TaskInv, NEW p \in Clients, FindUsers(p)
    PROVE  /\ task[p].at = "lookup" /\ task[p].kind = "push"
           /\ \/ Moves(p, {"at"}) /\ task'[p].at = "ask" /\ missed' = missed
              \/ Ends(p) /\ missed' = missed \cup {task[p].version}
<1>1. task[p].at = "lookup" /\ task[p].kind = "push"
  BY DEF FindUsers, PushStep, At
<1>2. CASE Go(p, "ask") /\ missed' = missed
  BY <1>1, <1>2, GoMoves
<1>3. CASE End(p) /\ missed' = missed \cup {task[p].version}
  BY <1>1, <1>3, EndEnds
<1> QED
  BY <1>2, <1>3 DEF FindUsers

\* What AskScan does.
LEMMA AskScanDoes ==
    ASSUME TaskInv, NEW p \in Clients, AskScan(p)
    PROVE  /\ task[p].at = "ask" /\ task[p].kind = "push"
           /\ Moves(p, {"at"}) /\ task'[p].at = "scan"
BY GoMoves DEF AskScan, PushStep, At

\* What PushRejected does.
LEMMA PushRejectedDoes ==
    ASSUME TaskInv, NEW p \in Clients, PushRejected(p)
    PROVE  /\ task[p].kind = "push" /\ task[p].at \in {"ensure", "dependencies", "read", "replace"}
           /\ \/ Ends(p) /\ missed' = missed \cup Tagged
              \/ Moves(p, {"at", "tried", "todo"}) /\ task'[p].at = "ensure" /\ missed' = missed
<1> DEFINE r == [at |-> "ensure", tried |-> TRUE, todo |-> {}]
<1>1. task[p].kind = "push" /\ task[p].at \in {"ensure", "dependencies", "read", "replace"}
  BY DEF PushRejected
<1>2. CASE task[p].tried
  BY <1>1, <1>2, EndEnds DEF PushRejected, MissedIf
<1>3. CASE ~task[p].tried
  <2>1. Become(p, r) /\ missed' = missed
    BY <1>3 DEF PushRejected, MissedIf
  <2>2. Moves(p, {"at", "tried", "todo"}) /\ task'[p].at = "ensure"
    BY <2>1, BecomeMoves, TaskFieldsAre
  <2> QED
    BY <1>1, <2>1, <2>2
<1> QED
  BY <1>2, <1>3

-----------------------------------------------------------------------------
\* Requests and events start tasks.

\* A task that starts has what the request names and else what Idle has.
LEMMA StartStarts ==
    ASSUME TaskInv, NEW p \in Clients, NEW r, DOMAIN r \subseteq TaskFields, StartTask(p, r)
    PROVE  /\ task[p].kind = "none" /\ Starts(p, DOMAIN r) /\ \A x \in DOMAIN r : task'[p][x] = r[x]
           /\ UNCHANGED <<updates, heads, releaseVars, repo, cache, op, missed>>
<1>1. task[p].kind = "none" /\ UNCHANGED <<updates, heads, releaseVars, repo, cache, op, missed>>
  BY DEF StartTask, Busy, gerritVars
<1>2. TaskShape' /\ OthersStay(p)
      /\ \A x \in TaskFields : task'[p][x] = IF x \in DOMAIN r THEN r[x] ELSE Idle[x]
  BY StartChanges DEF TaskInv
<1>3. \A x \in DOMAIN r : task'[p][x] = r[x]
  BY <1>2
<1> QED
  BY <1>1, <1>2, <1>3 DEF Starts

\* What Deliver does.
LEMMA DeliverDoes ==
    ASSUME TaskInv, NEW p \in Clients, Deliver(p)
    PROVE  LET e == Head(stream) IN
           /\ stream # <<>> /\ EventOK(e) /\ stream' = Tail(stream)
           /\ task[p].kind = "none" /\ Starts(p, {"kind", "at", "source", "ref", "version"})
           /\ task'[p].kind = "push" /\ task'[p].at = "ensure"
           /\ task'[p].source = e.source /\ task'[p].ref = e.ref /\ task'[p].version = e.version
           /\ UNCHANGED <<updates, heads, releaseVars, repo, cache, op, missed, majorValues>>
<1> DEFINE e == Head(stream)
           r == Over([kind |-> "push", at |-> "ensure"], e)
<1>1. PICK S : stream \in Seq(S) /\ \A x \in S : EventOK(x)
  BY DEF TaskInv
<1>2. stream # <<>> /\ EventOK(e) /\ stream' = Tail(stream) /\ StartTask(p, r) /\ UNCHANGED majorValues
  BY <1>1 DEF Deliver
<1>3. /\ DOMAIN r = {"kind", "at", "source", "ref", "version"}
      /\ r.kind = "push" /\ r.at = "ensure"
      /\ r.source = e.source /\ r.ref = e.ref /\ r.version = e.version
  BY <1>2 DEF Over, EventOK
<1> HIDE DEF r, e
<1>4. /\ task[p].kind = "none" /\ Starts(p, DOMAIN r) /\ \A x \in DOMAIN r : task'[p][x] = r[x]
      /\ UNCHANGED <<updates, heads, releaseVars, repo, cache, op, missed>>
  BY <1>2, <1>3, StartStarts, TaskFieldsAre
<1>5. /\ task'[p].kind = "push" /\ task'[p].at = "ensure"
      /\ task'[p].source = e.source /\ task'[p].ref = e.ref /\ task'[p].version = e.version
  BY <1>3, <1>4
<1> QED
  BY <1>2, <1>3, <1>4, <1>5 DEF e

\* What RequestRelease does.
LEMMA RequestReleaseDoes ==
    ASSUME TaskInv, NEW p \in Clients, NEW m, NEW sha, RequestRelease(p, m, sha)
    PROVE  /\ task[p].kind = "none" /\ Starts(p, {"kind", "at", "major", "sha"})
           /\ task'[p].kind = "release" /\ task'[p].at = "next"
           /\ task'[p].major = m /\ task'[p].sha = sha
           /\ UNCHANGED <<updates, heads, releaseVars, repo, cache, op, missed, majorValues, stream>>
<1> DEFINE r == [kind |-> "release", at |-> "next", major |-> m, sha |-> sha]
<1>1. StartTask(p, r) /\ UNCHANGED <<majorValues, stream>>
  BY DEF RequestRelease
<1>2. /\ DOMAIN r = {"kind", "at", "major", "sha"} /\ r.kind = "release" /\ r.at = "next"
      /\ r.major = m /\ r.sha = sha
  OBVIOUS
<1> HIDE DEF r
<1> QED
  BY <1>1, <1>2, StartStarts, TaskFieldsAre

\* What AddMajor does.
LEMMA AddMajorDoes ==
    ASSUME TaskInv, NEW p \in Clients, NEW m, AddMajor(p, m)
    PROVE  /\ task[p].kind = "none" /\ Starts(p, {"kind", "at", "major", "todo"})
           /\ task'[p].kind = "apply" /\ task'[p].at = "apply" /\ task'[p].major = m
           /\ UNCHANGED <<updates, heads, releaseVars, repo, cache, op, missed, stream>>
<1> DEFINE r == [kind |-> "apply", at |-> "apply", major |-> m, todo |-> Sources]
<1>1. StartTask(p, r) /\ UNCHANGED stream
  BY DEF AddMajor
<1>2. /\ DOMAIN r = {"kind", "at", "major", "todo"} /\ r.kind = "apply" /\ r.at = "apply"
      /\ r.major = m
  OBVIOUS
<1> HIDE DEF r
<1> QED
  BY <1>1, <1>2, StartStarts, TaskFieldsAre

\* What UploadContent does.
LEMMA UploadContentDoes ==
    ASSUME TaskInv, NEW p \in Clients, NEW d, NEW v, UploadContent(p, d, v)
    PROVE  /\ task[p].kind = "none" /\ Starts(p, {"kind", "at", "label", "want"})
           /\ task'[p].kind = "upload" /\ task'[p].at = "list" /\ task'[p].label = LabelOf[d]
           /\ task'[p].want = [l \in {LabelOf[d]} |-> [Tip EXCEPT ![d] = v]]
           /\ UNCHANGED <<updates, heads, releaseVars, repo, cache, op, missed, majorValues, stream>>
<1> DEFINE want == [l \in {LabelOf[d]} |-> [Tip EXCEPT ![d] = v]]
           r == [kind |-> "upload", at |-> "list", label |-> LabelOf[d], want |-> want]
<1>1. StartTask(p, r) /\ UNCHANGED <<majorValues, stream>>
  BY DEF UploadContent
<1>2. /\ DOMAIN r = {"kind", "at", "label", "want"} /\ r.kind = "upload" /\ r.at = "list"
      /\ r.label = LabelOf[d] /\ r.want = want
  OBVIOUS
<1> HIDE DEF r, want
<1>3. /\ task[p].kind = "none" /\ Starts(p, DOMAIN r) /\ \A x \in DOMAIN r : task'[p][x] = r[x]
      /\ UNCHANGED <<updates, heads, releaseVars, repo, cache, op, missed>>
  BY <1>1, <1>2, StartStarts, TaskFieldsAre
<1>4. /\ task'[p].kind = "upload" /\ task'[p].at = "list" /\ task'[p].label = LabelOf[d]
      /\ task'[p].want = want
  BY <1>2, <1>3
<1> QED
  BY <1>1, <1>2, <1>3, <1>4 DEF want

-----------------------------------------------------------------------------
\* Releases and majors.

\* A release and a new major.
LEMMA ReleaseDoes ==
    ASSUME TaskInv, NEW p \in Clients,
           ChooseVersion(p) \/ Publish(p) \/ SetTag(p) \/ ReleaseRejected(p)
    PROVE  /\ task[p].kind = "release"
           /\ UNCHANGED <<updates, heads, cache, majorValues, op, missed>>
           /\ \/ Ends(p)
              \/ Moves(p, {"at", "version"}) /\ task'[p].at \in {"publications", "tag"}
<1>1. task[p].kind = "release" /\ UNCHANGED <<updates, heads, cache, majorValues, op, missed>>
  BY DEF ChooseVersion, Publish, SetTag, ReleaseRejected, ReleaseStep, At, gerritVars
<1>2. CASE SetTag(p) \/ ReleaseRejected(p)
  BY <1>1, <1>2, EndEnds DEF SetTag, ReleaseRejected
<1>3. CASE Publish(p)
  BY <1>1, <1>3, GoMoves DEF Publish, Moves
<1>4. CASE ChooseVersion(p)
  <2>1. PICK v : Become(p, [version |-> v, at |-> "publications"])
    BY <1>4 DEF ChooseVersion
  <2> QED
    BY <1>1, <2>1, BecomeMoves, TaskFieldsAre
<1> QED
  BY <1>2, <1>3, <1>4

\* What ApplyMajor does.
LEMMA ApplyMajorDoes ==
    ASSUME TaskInv, NEW p \in Clients, NEW s, ApplyMajor(p, s)
    PROVE  /\ task[p].kind = "apply"
           /\ UNCHANGED <<updates, heads, cache, majorValues, op, missed, releaseVars>>
           /\ Ends(p) \/ Moves(p, {"todo"})
           /\ task[p].at = "apply"
<1>1. /\ task[p].kind = "apply" /\ task[p].at = "apply"
      /\ UNCHANGED <<updates, heads, cache, majorValues, op, missed, releaseVars>>
  BY DEF ApplyMajor, At, gerritVars
<1>2. CASE End(p)
  BY <1>1, <1>2, EndEnds
<1>3. CASE ~End(p)
  <2>1. PICK y : Become(p, [todo |-> y])
    BY <1>3 DEF ApplyMajor
  <2> QED
    BY <1>1, <2>1, BecomeMoves, TaskFieldsAre
<1> QED
  BY <1>2, <1>3

-----------------------------------------------------------------------------
\* The world outside of the files: references, what is pushed, what is published.

Known == (UNION {DOMAIN published[k] : k \in Publications}) \cup Tagged
KnownOK ==
    /\ Known \subseteq Release /\ First \in Known
    /\ \E b \in Nat : \A v \in Known : v[1] <= b /\ v[2] <= b /\ v[3] <= b
StreamOK == \A n \in DOMAIN stream : NamedIn(repo[stream[n].source].remote, stream[n].ref, stream[n].version)
PushesOK == \A p \in Clients : task[p].kind = "push" =>
    NamedIn(repo[task[p].source].remote, task[p].ref, task[p].version)
ShasOK == \A p \in Clients : task[p].kind = "release" => task[p].sha \in 1 .. Main(Lib)
HeadsLen == (\E S : heads \in Seq(S)) /\ Len(heads) = Main(App)
WorldInv == RefsOK /\ KnownOK /\ StreamOK /\ PushesOK /\ ShasOK /\ HeadsLen

\* How a step may change it.
KnownGrows == Known \subseteq Known' /\ \E v \in Release : Known' \subseteq Known \cup {v}
StreamGrows ==
    \/ stream' = stream
    \/ stream # <<>> /\ stream' = Tail(stream)
    \/ \E e : stream' = Append(stream, e) /\ NamedIn(repo'[e.source].remote, e.ref, e.version)
PushesGoOn == \A q \in Clients : task'[q].kind = "push" =>
    /\ task[q].kind = "push"
    /\ \A x \in {"source", "ref", "version"} : task'[q][x] = task[q][x]
ShasGoOn == \A q \in Clients : task'[q].kind = "release" =>
    task[q].kind = "release" /\ task'[q].sha = task[q].sha
GoOn == PushesGoOn /\ ShasGoOn
WorldGrows == RefsGrow /\ Known \subseteq Known'

\* A name stays.
LEMMA NamedStay ==
    ASSUME RefsGrow, NEW s \in Sources, NEW ref, NEW v, NamedIn(repo[s].remote, ref, v)
    PROVE  NamedIn(repo'[s].remote, ref, v)
BY DEF RefsGrow, NamedIn

\* So do those of the events that are under way and of the pushes that are handled.
LEMMA StreamNamed ==
    ASSUME TaskInv, RefsGrow, StreamOK, StreamGrows
    PROVE  StreamOK'
<1>1. PICK S : stream \in Seq(S) /\ \A e \in S : EventOK(e)
  BY DEF TaskInv
<1> DEFINE Fine(e) == NamedIn(repo'[e.source].remote, e.ref, e.version)
<1>2. \A n \in DOMAIN stream : Fine(stream[n])
  <2> SUFFICES ASSUME NEW n \in DOMAIN stream PROVE Fine(stream[n])
    OBVIOUS
  <2>1. stream[n].source \in Sources
    BY <1>1 DEF EventOK
  <2> QED
    BY <2>1, NamedStay DEF StreamOK
<1> SUFFICES \A n \in DOMAIN stream' : Fine(stream'[n])
  BY DEF StreamOK
<1> HIDE DEF Fine
<1>3. CASE stream' = stream
  BY <1>2, <1>3
<1>4. CASE stream # <<>> /\ stream' = Tail(stream)
  BY <1>1, <1>2, <1>4
<1>5. CASE \E e : stream' = Append(stream, e) /\ Fine(e)
  <2>1. PICK e : stream' = Append(stream, e) /\ Fine(e)
    BY <1>5
  <2>2. stream \in Seq(S \cup {e})
    BY <1>1, SeqMonotonic
  <2>3. \A n \in DOMAIN stream' : IF n \in DOMAIN stream THEN stream'[n] = stream[n] ELSE stream'[n] = e
    BY <2>1, <2>2
  <2> QED
    BY <1>2, <2>1, <2>3
<1> QED
  BY <1>3, <1>4, <1>5 DEF StreamGrows, Fine

\* The pushes that are handled go on to be named, the commits of releases to be there.
LEMMA PushesNamed ==
    ASSUME TaskInv, RefsGrow, PushesOK, PushesGoOn
    PROVE  PushesOK'
<1> SUFFICES ASSUME NEW q \in Clients, task'[q].kind = "push"
             PROVE  NamedIn(repo'[task'[q].source].remote, task'[q].ref, task'[q].version)
  BY DEF PushesOK
<1>1. task[q].kind = "push" /\ task[q].source \in Sources
  BY DEF PushesGoOn, TaskInv
<1>2. task'[q].source = task[q].source /\ task'[q].ref = task[q].ref /\ task'[q].version = task[q].version
  BY DEF PushesGoOn
<1> QED
  BY <1>1, <1>2, NamedStay DEF PushesOK

\* The commits of references are there.
LEMMA ShasStay ==
    ASSUME RefsOK, RefsOK', RefsGrow, ShasOK, ShasGoOn
    PROVE  ShasOK'
<1>1. Main(Lib) \in Nat /\ Main(Lib)' \in Nat /\ Main(Lib) <= Main(Lib)'
  BY LibIsSource DEF RefsOK, RefsWithin, RefsGrow, Main
<1> QED
  BY <1>1 DEF ShasOK, ShasGoOn

\* No version is forgotten when no binary and no tag goes.
LEMMA KnownStays ==
    ASSUME KnownOK, KnownGrows
    PROVE  KnownOK'
<1>1. PICK v \in Release : Known' \subseteq Known \cup {v}
  BY DEF KnownGrows
<1>2. PICK b \in Nat : \A w \in Known : w[1] <= b /\ w[2] <= b /\ w[3] <= b
  BY DEF KnownOK
<1>3. \A w \in Release : w[1] \in Nat /\ w[2] \in Nat /\ w[3] \in Nat
  BY VersionsAreSeqs
<1>4. Known' \subseteq Release /\ First \in Known'
  BY <1>1 DEF KnownOK, KnownGrows
<1> DEFINE c == b + v[1] + v[2] + v[3]
<1>5. c \in Nat /\ b <= c /\ v[1] <= c /\ v[2] <= c /\ v[3] <= c
  BY <1>3
<1>6. \A w \in Known' : w[1] <= c /\ w[2] <= c /\ w[3] <= c
  <2> SUFFICES ASSUME NEW w \in Known' PROVE w[1] <= c /\ w[2] <= c /\ w[3] <= c
    OBVIOUS
  <2>1. CASE w = v
    BY <1>5, <2>1
  <2>2. CASE w \in Known
    <3>1. w[1] \in Nat /\ w[2] \in Nat /\ w[3] \in Nat /\ w[1] <= b /\ w[2] <= b /\ w[3] <= b
      BY <1>2, <1>3, <2>2 DEF KnownOK
    <3> HIDE DEF c
    <3> QED
      BY <1>5, <3>1
  <2> QED
    BY <1>1, <2>1, <2>2
<1> QED
  BY <1>4, <1>5, <1>6 DEF KnownOK

\* A step that does what it may keeps the world in order.
LEMMA WorldStays ==
    ASSUME WorldInv, TaskInv, RefsOK', RefsGrow, KnownGrows, StreamGrows, GoOn, HeadsLen'
    PROVE  WorldInv' /\ WorldGrows
BY StreamNamed, PushesNamed, ShasStay, KnownStays DEF WorldInv, WorldGrows, GoOn, KnownGrows

\* Nothing of it changes.
LEMMA WorldIsLeft ==
    ASSUME WorldInv, TaskInv, UNCHANGED <<repo, heads, stream>>, KnownGrows, GoOn
    PROVE  WorldInv' /\ WorldGrows
<1>1. RefsOK' /\ RefsGrow
  BY RefsStay DEF WorldInv
<1>2. HeadsLen'
  BY DEF WorldInv, HeadsLen, Main
<1>3. StreamGrows
  BY DEF StreamGrows
<1> QED
  BY <1>1, <1>2, <1>3, WorldStays

\* Nor is one when binaries come.
LEMMA KnownIsLeft ==
    ASSUME WorldInv, published' = published, Tagged' = Tagged
    PROVE  KnownGrows
<1>1. First \in Release /\ Known' = Known
  BY DEF WorldInv, KnownOK, Known
<1> QED
  BY <1>1 DEF KnownGrows

\* How the task whose step it is goes on.
LEMMA EndGoesOn == ASSUME NEW p \in Clients, Ends(p) PROVE GoOn
BY DEF Ends, OthersStay, GoOn, PushesGoOn, ShasGoOn, Idle

\* A task that moves, gets another label or starts goes on to be what it was.
LEMMA MoveGoesOn ==
    ASSUME NEW p \in Clients, NEW X, Moves(p, X), X \cap {"kind", "source", "ref", "version", "sha"} = {}
    PROVE  GoOn
<1>1. {"kind", "source", "ref", "version", "sha"} \subseteq TaskFields \ X
  BY TaskFieldsAre
<1>2. \A x \in {"kind", "source", "ref", "version", "sha"} : task'[p][x] = task[p][x]
  BY <1>1 DEF Moves
<1> QED
  BY <1>2 DEF Moves, OthersStay, GoOn, PushesGoOn, ShasGoOn

\* A task that turns to another label.
LEMMA RelabelGoesOn ==
    ASSUME NEW p \in Clients, NEW kind, Relabels(p, kind), kind = "orphan" \/ kind = task[p].kind
    PROVE  GoOn
<1>1. {"source", "ref", "version", "sha"} \subseteq TaskFields \ {"kind", "at", "again", "want"}
  BY TaskFieldsAre
<1>2. \A x \in {"source", "ref", "version", "sha"} : task'[p][x] = task[p][x]
  BY <1>1 DEF Relabels, Moves
<1> QED
  BY <1>2 DEF Relabels, Moves, OthersStay, GoOn, PushesGoOn, ShasGoOn

\* A task that starts.
LEMMA StartGoesOn ==
    ASSUME NEW p \in Clients, OthersStay(p), task'[p].kind \notin {"push", "release"}
    PROVE  GoOn
BY DEF OthersStay, GoOn, PushesGoOn, ShasGoOn

\* Scans and uploads leave the world as it is.
LEMMA WorkGoesOn ==
    ASSUME TaskInv, NEW p \in Clients,
           \/ ReadModel(p) \/ ListUpdates(p) \/ ScannedBranch(p) \/ ScannedUpdate(p)
           \/ FindUpload(p) \/ Create(p) \/ LabelUpdate(p) \/ ShowUpdate(p)
           \/ EditUpdate(p) \/ PublishUpdate(p) \/ WorkRejected(p)
           \/ \E d \in Deps : LookUp(p, d) \/ StoreVersions(p, d) \/ LookUpFails(p, d)
           \/ \E l \in DOMAIN task[p].want : TakeLabel(p, l)
    PROVE  GoOn
<1> DEFINE X == TaskFields \ {"kind", "source", "ref", "version", "sha"}
<1>1. ASSUME NEW Y \in SUBSET X, Moves(p, Y) PROVE GoOn
  BY <1>1, MoveGoesOn
<1>2. CASE LabelDone(p)
  BY <1>2, LabelDoneDoes, EndGoesOn, RelabelGoesOn
<1>3. CASE WorkFails(p)
  BY <1>3, WorkFailsDoes, EndGoesOn, RelabelGoesOn
<1>4. {"model", "at", "seen", "major", "base", "todo", "found", "store", "late", "want", "label",
       "id", "again"} \subseteq X
  BY TaskFieldsAre
<1> HIDE DEF X
<1>5. CASE ReadModel(p)
  <2>1. {"model", "at"} \in SUBSET X
    BY <1>4
  <2> QED
    BY <1>1, <1>5, <2>1, ReadModelDoes
<1>6. CASE ListUpdates(p)
  <2>1. {"at", "seen", "model", "major", "base", "todo"} \in SUBSET X
    BY <1>4
  <2> QED
    BY <1>1, <1>6, <2>1, ListUpdatesDoes, EndGoesOn
<1>7. CASE ScannedBranch(p) \/ ScannedUpdate(p)
  <2>1. {"want", "at"} \in SUBSET X
    BY <1>4
  <2>2. CASE ScannedBranch(p)
    <3>1. Ends(p) \/ Moves(p, {"want", "at"})
      BY <2>2, ScannedBranchDoes
    <3> QED
      BY <1>1, <2>1, <3>1, EndGoesOn
  <2>3. CASE ScannedUpdate(p)
    <3>1. LabelDone(p) \/ Moves(p, {"want", "at"})
      BY <2>3, ScannedUpdateDoes
    <3> QED
      BY <1>1, <1>2, <2>1, <3>1
  <2> QED
    BY <1>7, <2>2, <2>3
<1>8. CASE FindUpload(p) \/ Create(p) \/ LabelUpdate(p) \/ ShowUpdate(p) \/ EditUpdate(p)
           \/ PublishUpdate(p)
  <2>1. {"id", "at"} \in SUBSET X /\ {"at"} \in SUBSET X
    BY <1>4
  <2>2. Moves(p, {"at"}) \/ Moves(p, {"id", "at"}) \/ LabelDone(p) \/ WorkFails(p)
    <3>1. CASE FindUpload(p)
      BY <3>1, FindUploadDoes
    <3>2. CASE Create(p)
      BY <3>2, CreateDoes
    <3>3. CASE LabelUpdate(p) \/ ShowUpdate(p)
      BY <3>3, LabelUpdateDoes, ShowUpdateDoes
    <3>4. CASE EditUpdate(p)
      BY <3>4, EditUpdateDoes
    <3>5. CASE PublishUpdate(p)
      BY <3>5, PublishUpdateDoes
    <3> QED
      BY <1>8, <3>1, <3>2, <3>3, <3>4, <3>5
  <2> QED
    BY <1>1, <1>2, <1>3, <2>1, <2>2
<1>9. CASE WorkRejected(p)
  BY <1>3, <1>9 DEF WorkRejected
<1>10. CASE \E d \in Deps : LookUp(p, d) \/ StoreVersions(p, d) \/ LookUpFails(p, d)
  <2>1. /\ {"found", "store"} \in SUBSET X /\ {"found", "todo"} \in SUBSET X
        /\ {"todo", "store", "late"} \in SUBSET X /\ {"found", "todo", "store", "late"} \in SUBSET X
    BY <1>4
  <2>2. PICK d \in Deps : LookUp(p, d) \/ StoreVersions(p, d) \/ LookUpFails(p, d)
    BY <1>10
  <2>3. \/ Moves(p, {"found", "store"}) \/ Moves(p, {"found", "todo"})
        \/ Moves(p, {"todo", "store", "late"}) \/ Moves(p, {"found", "todo", "store", "late"})
    BY <2>2, LookUpDoes, StoreVersionsDoes, LookUpFailsDoes
  <2> QED
    BY <1>1, <2>1, <2>3
<1>11. CASE \E l \in DOMAIN task[p].want : TakeLabel(p, l)
  <2>1. /\ {"label", "at"} \in SUBSET X
        /\ {"label", "id", "at", "again", "base", "found", "todo"} \in SUBSET X
    BY <1>4
  <2>2. PICK l \in DOMAIN task[p].want : TakeLabel(p, l)
    BY <1>11
  <2>3. \/ Moves(p, {"label", "at"})
        \/ Moves(p, {"label", "id", "at", "again", "base", "found", "todo"})
    BY <2>2, TakeLabelDoes
  <2> QED
    BY <1>1, <2>1, <2>3
<1> QED
  BY <1>5, <1>6, <1>7, <1>8, <1>9, <1>10, <1>11

\* Releases: the tag that is set is new, and its commit is one of the library.
LEMMA SetTagWorld ==
    ASSUME FlowInv, WorldInv, NEW p \in Clients, SetTag(p)
    PROVE  WorldInv' /\ WorldGrows
<1> DEFINE v == task[p].version
           sha == task[p].sha
           tags == repo[Lib].remote.releases
           y == Put(tags, v, sha)
<1>1. /\ task[p].kind = "release" /\ task[p].at = "tag" /\ End(p)
      /\ UNCHANGED <<published, heads>>
  BY DEF SetTag, ReleaseStep, At, releaseVars, gerritVars
<1>2. GoOn
  BY <1>1, EndEnds, EndGoesOn DEF FlowInv
<1>3. CASE v \in Tagged
  <2>1. UNCHANGED <<repo, stream>>
    BY <1>3 DEF SetTag
  <2>2. KnownGrows
    BY <1>1, <2>1, KnownIsLeft DEF Tagged
  <2> QED
    BY <1>1, <1>2, <2>1, <2>2, WorldIsLeft DEF FlowInv
<1>4. CASE v \notin Tagged
  <2>1. /\ repo' = [repo EXCEPT ![Lib].remote.releases = y]
        /\ stream' = Append(stream, Event(Lib, "release", v))
    BY <1>4 DEF SetTag
  <2>2. v \in Release /\ sha \in 1 .. Main(Lib)
    BY <1>1 DEF FlowInv, ReleaseInv, ReleaseTasksOK, WorldInv, ShasOK
  <2>3. /\ Agree(tags, y) /\ DOMAIN y = DOMAIN tags \cup {v}
        /\ Among(tags, Main(Lib)) => Among(y, Main(Lib))
    BY <1>4, <2>2, PutAgrees DEF Tagged
  <2> HIDE DEF y
  <2>4. /\ Elsewhere(Lib) /\ repo'[Lib].clone = repo[Lib].clone
        /\ \A x \in RefFields : repo'[Lib].remote[x] = IF x = "releases" THEN y ELSE repo[Lib].remote[x]
    BY <2>1, LibIsSource, RemoteReleasesChanges DEF FlowInv, RepoInv
  <2>5. /\ repo'[Lib].remote.releases = y
        /\ repo'[Lib].remote.main = repo[Lib].remote.main
        /\ repo'[Lib].remote.majors = repo[Lib].remote.majors
        /\ repo'[Lib].remote.patches = repo[Lib].remote.patches
    BY <2>4 DEF RefFields
  <2>6. RefsWithin(repo[Lib].remote)
    BY LibIsSource DEF WorldInv, RefsOK
  <2>7. RefsWithin(repo'[Lib].remote) /\ repo[Lib].remote.main <= repo'[Lib].remote.main
    BY <2>3, <2>5, <2>6 DEF RefsWithin, Main
  <2>8. \A f : Agree(f, f)
    BY DEF Agree
  <2>9. RefsOK' /\ RefsGrow
    BY <2>3, <2>4, <2>5, <2>7, <2>8, LibIsSource, SourcesAreTwo, RemoteGrows DEF WorldInv
  <2>10. KnownGrows
    <3>1. Tagged' = Tagged \cup {v}
      BY <2>3, <2>5 DEF Tagged
    <3>2. published' = published
      BY <1>1
    <3>3. Known' = Known \cup {v}
      BY <3>1, <3>2 DEF Known
    <3> QED
      BY <2>2, <3>3 DEF KnownGrows
  <2>11. StreamGrows
    <3> DEFINE e == Event(Lib, "release", v)
    <3>1. e.source = Lib /\ e.ref = "release" /\ e.version = v
      BY DEF Event
    <3>2. NamedIn(repo'[e.source].remote, e.ref, e.version)
      BY <2>3, <2>5, <3>1 DEF NamedIn
    <3> HIDE DEF e
    <3> QED
      BY <2>1, <3>2 DEF StreamGrows, e
  <2>12. HeadsLen'
    <3>1. Main(App)' = Main(App)
      BY <2>4, LibIsSource, SourcesAreTwo DEF Main, Elsewhere
    <3> QED
      BY <1>1, <3>1 DEF WorldInv, HeadsLen
  <2> QED
    BY <1>2, <2>9, <2>10, <2>11, <2>12, WorldStays DEF FlowInv
<1> QED
  BY <1>3, <1>4

\* Majors: the tag is set where the main branch is.
LEMMA ApplyMajorWorld ==
    ASSUME FlowInv, WorldInv, NEW p \in Clients, NEW s \in Sources, ApplyMajor(p, s)
    PROVE  WorldInv' /\ WorldGrows
<1> DEFINE m == task[p].major
           n == repo[s].clone.main
           majors == repo[s].remote.majors
           y == Put(majors, m, n)
<1>1. UNCHANGED <<published, heads>>
  BY DEF ApplyMajor, releaseVars, gerritVars
<1>2. GoOn
  <2>1. {"todo"} \cap {"kind", "source", "ref", "version", "sha"} = {}
    OBVIOUS
  <2> QED
    BY <2>1, ApplyMajorDoes, EndGoesOn, MoveGoesOn DEF FlowInv
<1>3. CASE UNCHANGED <<repo, stream>>
  <2>1. KnownGrows
    BY <1>1, <1>3, KnownIsLeft DEF Tagged
  <2> QED
    BY <1>1, <1>2, <1>3, <2>1, WorldIsLeft DEF FlowInv
<1>4. CASE ~UNCHANGED <<repo, stream>>
  <2>1. /\ m \notin DOMAIN majors
        /\ repo' = [repo EXCEPT ![s].remote.majors = y]
        /\ stream' = Append(stream, Event(s, "major", <<m>>))
    BY <1>4 DEF ApplyMajor
  <2>2. RefsWithin(repo[s].remote) /\ n \in 1 .. repo[s].remote.main
    BY DEF WorldInv, RefsOK, CopyOf
  <2>3. /\ Agree(majors, y) /\ DOMAIN y = DOMAIN majors \cup {m}
        /\ Among(majors, repo[s].remote.main) => Among(y, repo[s].remote.main)
    BY <2>1, <2>2, PutAgrees
  <2> HIDE DEF y
  <2>4. /\ Elsewhere(s) /\ repo'[s].clone = repo[s].clone
        /\ \A x \in RefFields : repo'[s].remote[x] = IF x = "majors" THEN y ELSE repo[s].remote[x]
    BY <2>1, RemoteMajorsChanges DEF FlowInv, RepoInv
  <2>5. /\ repo'[s].remote.majors = y
        /\ repo'[s].remote.main = repo[s].remote.main
        /\ repo'[s].remote.releases = repo[s].remote.releases
        /\ repo'[s].remote.patches = repo[s].remote.patches
    BY <2>4 DEF RefFields
  <2>6. RefsWithin(repo'[s].remote) /\ repo[s].remote.main <= repo'[s].remote.main
    BY <2>2, <2>3, <2>5 DEF RefsWithin
  <2>7. \A f : Agree(f, f)
    BY DEF Agree
  <2>8. s = App => DOMAIN repo'[App].remote.patches = {}
    BY <2>5 DEF WorldInv, RefsOK
  <2>9. RefsOK' /\ RefsGrow
    BY <2>3, <2>4, <2>5, <2>6, <2>7, <2>8, RemoteGrows DEF WorldInv
  <2>10. KnownGrows
    <3>1. Tagged' = Tagged
      BY <2>4, <2>5, LibIsSource DEF Tagged, Elsewhere
    <3> QED
      BY <1>1, <3>1, KnownIsLeft
  <2>11. StreamGrows
    <3> DEFINE e == Event(s, "major", <<m>>)
    <3>1. e.source = s /\ e.ref = "major" /\ e.version = <<m>>
      BY DEF Event
    <3>2. <<m>>[1] = m
      OBVIOUS
    <3>3. NamedIn(repo'[e.source].remote, e.ref, e.version)
      BY <2>3, <2>5, <3>1, <3>2 DEF NamedIn
    <3> HIDE DEF e
    <3> QED
      BY <2>1, <3>3 DEF StreamGrows, e
  <2>12. HeadsLen'
    <3>1. Main(App)' = Main(App)
      BY <2>4, <2>5, LibIsSource DEF Main, Elsewhere
    <3> QED
      BY <1>1, <3>1 DEF WorldInv, HeadsLen
  <2> QED
    BY <1>2, <2>9, <2>10, <2>11, <2>12, WorldStays DEF FlowInv
<1> QED
  BY <1>3, <1>4

\* A fetch, and one of everything after a failure.
LEMMA FetchWorld ==
    ASSUME FlowInv, WorldInv, NEW p \in Clients, EnsurePushed(p) \/ PushRejected(p)
    PROVE  /\ WorldInv' /\ WorldGrows
           /\ /\ task'[p].kind = "push" /\ task'[p].at # "ensure"
              /\ task[p].source = Lib /\ task[p].ref = "release"
              => task[p].version \in DOMAIN repo'[Lib].clone.releases
<1> DEFINE s == task[p].source
           ref == task[p].ref
           v == task[p].version
<1>1. UNCHANGED <<published, heads, stream>> /\ task[p].kind = "push"
  BY DEF EnsurePushed, PushRejected, PushStep, At, releaseVars, gerritVars
<1>2. s \in Sources /\ NamedIn(repo[s].remote, ref, v)
  BY <1>1 DEF FlowInv, TaskInv, WorldInv, PushesOK
<1>3. GoOn
  <2>1. {"at"} \cap {"kind", "source", "ref", "version", "sha"} = {}
        /\ {"at", "tried", "todo"} \cap {"kind", "source", "ref", "version", "sha"} = {}
    OBVIOUS
  <2>2. Ends(p) \/ Moves(p, {"at"}) \/ Moves(p, {"at", "tried", "todo"})
    BY EnsurePushedDoes, PushRejectedDoes DEF FlowInv
  <2> QED
    BY <2>1, <2>2, EndGoesOn, MoveGoesOn
<1>4. ASSUME RefsOK', RefsGrow, Tagged' = Tagged, Main(App)' = Main(App)
      PROVE  WorldInv' /\ WorldGrows
  <2>1. KnownGrows
    BY <1>1, <1>4, KnownIsLeft
  <2>2. StreamGrows /\ HeadsLen'
    BY <1>1, <1>4 DEF StreamGrows, WorldInv, HeadsLen
  <2> QED
    BY <1>3, <1>4, <2>1, <2>2, WorldStays DEF FlowInv
<1>5. ASSUME NEW C, repo' = [repo EXCEPT ![s].clone = C], RefsShape(C), CopyOf(C, repo[s].remote),
             DOMAIN repo[s].clone.releases \subseteq DOMAIN C.releases
      PROVE  WorldInv' /\ WorldGrows /\ repo'[s].clone = C
  <2>1. /\ Elsewhere(s) /\ repo'[s].clone = C /\ repo'[s].remote = repo[s].remote
    BY <1>2, <1>5, CloneChanges DEF FlowInv, RepoInv
  <2>2. RefsOK' /\ RefsGrow
    BY <1>2, <1>5, <2>1, CloneGrows DEF WorldInv
  <2>3. Tagged' = Tagged /\ Main(App)' = Main(App)
    BY <2>1, LibIsSource DEF Tagged, Main, Elsewhere
  <2> QED
    BY <1>4, <2>1, <2>2, <2>3
<1>6. CASE EnsurePushed(p) /\ InClone(repo[s].clone, ref, v)
  <2>1. UNCHANGED repo
    BY <1>6 DEF EnsurePushed
  <2>2. RefsOK' /\ RefsGrow /\ Tagged' = Tagged /\ Main(App)' = Main(App)
    BY <2>1, RefsStay DEF WorldInv, Tagged, Main
  <2>3. s = Lib /\ ref = "release" => v \in DOMAIN repo'[Lib].clone.releases
    BY <1>6, <2>1 DEF InClone
  <2> QED
    BY <1>4, <2>2, <2>3
<1>7. CASE EnsurePushed(p) /\ ~InClone(repo[s].clone, ref, v)
  <2> DEFINE C == Fetched(s, ref, v)
  <2>1. repo' = [repo EXCEPT ![s].clone = C]
    BY <1>7 DEF EnsurePushed
  <2>2. /\ RefsShape(C) /\ CopyOf(C, repo[s].remote)
        /\ DOMAIN repo[s].clone.releases \subseteq DOMAIN C.releases
        /\ ref = "release" => v \in DOMAIN C.releases
    BY <1>2, FetchedShape, FetchedIs DEF FlowInv, RepoInv, WorldInv
  <2> HIDE DEF C
  <2> QED
    BY <1>5, <2>1, <2>2
<1>8. CASE PushRejected(p)
  <2> DEFINE C == repo[s].remote
  <2>1. repo' = [repo EXCEPT ![s].clone = C]
    BY <1>8 DEF PushRejected
  <2>2. RefsShape(C) /\ CopyOf(C, C)
    <3>1. RefsShape(C) /\ RefsWithin(C)
      BY <1>2 DEF FlowInv, RepoInv, RepoShape, WorldInv, RefsOK
    <3> QED
      BY <3>1 DEF RefsWithin, CopyOf, Agree
  <2>3. DOMAIN repo[s].clone.releases \subseteq DOMAIN C.releases
    BY <1>2 DEF WorldInv, RefsOK, CopyOf, Agree
  <2>4. task'[p].kind = "push" => task'[p].at = "ensure"
    BY <1>8, PushRejectedDoes DEF FlowInv, Ends, Idle
  <2> QED
    BY <1>5, <2>1, <2>2, <2>3, <2>4
<1> QED
  BY <1>6, <1>7, <1>8

\* What comes from outside: tasks stay as they are.
LEMMA IdleGoesOn == ASSUME UNCHANGED task PROVE GoOn
BY DEF GoOn, PushesGoOn, ShasGoOn

\* A commit of the library.
LEMMA MergeLibWorld == ASSUME FlowInv, WorldInv, MergeLib PROVE WorldInv' /\ WorldGrows
<1>1. /\ repo' = [repo EXCEPT ![Lib].remote.main = @ + 1] /\ UNCHANGED <<task, heads, published>>
      /\ stream' = Append(stream, Event(Lib, "main", <<Main(Lib) + 1>>))
  BY DEF MergeLib, Outside, gerritVars, releaseVars
<1>2. RefsOK' /\ RefsGrow
  BY <1>1, MainGrows, LibIsSource DEF FlowInv, RepoInv, WorldInv
<1>3. Elsewhere(Lib) /\ repo'[Lib].remote.releases = repo[Lib].remote.releases
  <2>1. repo' = [repo EXCEPT ![Lib].remote.main = repo[Lib].remote.main + 1]
    BY <1>1
  <2> QED
    BY <2>1, RemoteMainChanges, LibIsSource DEF RefFields, FlowInv, RepoInv
<1>4. KnownGrows
  BY <1>1, <1>3, KnownIsLeft DEF Tagged
<1>5. StreamGrows
  <2> DEFINE e == Event(Lib, "main", <<Main(Lib) + 1>>)
  <2>1. NamedIn(repo'[e.source].remote, e.ref, e.version)
    BY DEF Event, NamedIn
  <2> HIDE DEF e
  <2> QED
    BY <1>1, <2>1 DEF StreamGrows, e
<1>6. HeadsLen'
  <2>1. Main(App)' = Main(App)
    BY <1>3, LibIsSource, SourcesAreTwo DEF Main, Elsewhere
  <2> QED
    BY <1>1, <2>1 DEF WorldInv, HeadsLen
<1> QED
  BY <1>1, <1>2, <1>4, <1>5, <1>6, IdleGoesOn, WorldStays DEF FlowInv

\* A commit of the application: its file comes with it.
LEMMA AppMovesWorld ==
    ASSUME FlowInv, WorldInv, AppMoves, NEW file, heads' = Append(heads, file)
    PROVE  WorldInv' /\ WorldGrows
<1>1. /\ repo' = [repo EXCEPT ![App].remote.main = @ + 1] /\ UNCHANGED <<task, published>>
      /\ stream' = Append(stream, Event(App, "main", <<Main(App) + 1>>))
  BY DEF AppMoves, Outside, releaseVars
<1>2. RefsOK' /\ RefsGrow /\ Main(App)' = Main(App) + 1
  BY <1>1, MainGrows, LibIsSource DEF FlowInv, RepoInv, WorldInv
<1>3. Tagged' = Tagged
  <2>1. repo' = [repo EXCEPT ![App].remote.main = repo[App].remote.main + 1]
    BY <1>1
  <2>2. Elsewhere(App)
    BY <2>1, RemoteMainChanges, LibIsSource DEF FlowInv, RepoInv
  <2> QED
    BY <2>2, LibIsSource, SourcesAreTwo DEF Tagged, Elsewhere
<1>4. KnownGrows
  BY <1>1, <1>3, KnownIsLeft
<1>5. StreamGrows
  <2> DEFINE e == Event(App, "main", <<Main(App) + 1>>)
  <2>1. NamedIn(repo'[e.source].remote, e.ref, e.version)
    BY DEF Event, NamedIn
  <2> HIDE DEF e
  <2> QED
    BY <1>1, <2>1 DEF StreamGrows, e
<1>6. HeadsLen'
  <2>1. PICK S : heads \in Seq(S)
    BY DEF WorldInv, HeadsLen
  <2>2. heads \in Seq(S \cup {file})
    BY <2>1, SeqMonotonic
  <2>3. heads' \in Seq(S \cup {file}) /\ Len(heads') = Len(heads) + 1
    BY <2>2
  <2> QED
    BY <1>2, <2>3 DEF WorldInv, HeadsLen
<1> QED
  BY <1>1, <1>2, <1>4, <1>5, <1>6, IdleGoesOn, WorldStays DEF FlowInv

\* A branch or tag without a meaning.
LEMMA PushTopicWorld == ASSUME FlowInv, WorldInv, PushTopic PROVE WorldInv' /\ WorldGrows
<1>1. /\ UNCHANGED <<repo, task, heads, published>>
      /\ stream' = Append(stream, Event(Lib, "topic", <<>>))
  BY DEF PushTopic, Outside, gerritVars, releaseVars
<1>2. RefsOK' /\ RefsGrow
  BY <1>1, RefsStay DEF WorldInv
<1>3. KnownGrows
  BY <1>1, KnownIsLeft DEF Tagged
<1>4. StreamGrows
  <2> DEFINE e == Event(Lib, "topic", <<>>)
  <2>1. NamedIn(repo'[e.source].remote, e.ref, e.version)
    BY DEF Event, NamedIn
  <2> HIDE DEF e
  <2> QED
    BY <1>1, <2>1 DEF StreamGrows, e
<1>5. HeadsLen'
  BY <1>1 DEF WorldInv, HeadsLen, Main
<1> QED
  BY <1>1, <1>2, <1>3, <1>4, <1>5, IdleGoesOn, WorldStays DEF FlowInv

\* A branch of the library, at the commit of a major that the clone knows.
LEMMA CreatePatchWorld ==
    ASSUME FlowInv, WorldInv, NEW m, CreatePatch(m) PROVE WorldInv' /\ WorldGrows
<1> DEFINE C == repo[Lib].clone
           n == C.majors[NextMajor(C, m)]
           patches == repo[Lib].remote.patches
           y == Put(patches, <<m>>, n)
<1>1. /\ NextMajor(C, m) \in DOMAIN C.majors /\ <<m>> \notin DOMAIN patches
      /\ repo' = [repo EXCEPT ![Lib].remote.patches = Put(@, <<m>>, n)]
      /\ UNCHANGED <<task, heads, published>>
      /\ stream' = Append(stream, Event(Lib, "patch", <<m>>))
  BY DEF CreatePatch, CreateBranch, Outside, gerritVars, releaseVars
<1>2. repo' = [repo EXCEPT ![Lib].remote.patches = y]
  BY <1>1
<1>3. RefsWithin(repo[Lib].remote) /\ CopyOf(C, repo[Lib].remote)
  BY LibIsSource DEF WorldInv, RefsOK
<1>4. n \in 1 .. Main(Lib)
  BY <1>1, <1>3 DEF RefsWithin, CopyOf, Agree, Among, Main
<1> HIDE DEF n
<1>5. /\ Agree(patches, y) /\ DOMAIN y = DOMAIN patches \cup {<<m>>}
      /\ Among(patches, Main(Lib)) => Among(y, Main(Lib))
  BY <1>1, <1>4, PutAgrees
<1> HIDE DEF y
<1>6. /\ Elsewhere(Lib) /\ repo'[Lib].clone = repo[Lib].clone
      /\ \A x \in RefFields : repo'[Lib].remote[x] = IF x = "patches" THEN y ELSE repo[Lib].remote[x]
  BY <1>2, LibIsSource, RemotePatchesChanges DEF FlowInv, RepoInv
<1>7. /\ repo'[Lib].remote.patches = y
      /\ repo'[Lib].remote.main = repo[Lib].remote.main
      /\ repo'[Lib].remote.majors = repo[Lib].remote.majors
      /\ repo'[Lib].remote.releases = repo[Lib].remote.releases
  BY <1>6 DEF RefFields
<1>8. RefsWithin(repo'[Lib].remote) /\ repo[Lib].remote.main <= repo'[Lib].remote.main
  BY <1>3, <1>5, <1>7 DEF RefsWithin, Main
<1>9. \A f : Agree(f, f)
  BY DEF Agree
<1>10. RefsOK' /\ RefsGrow
  BY <1>5, <1>6, <1>7, <1>8, <1>9, LibIsSource, SourcesAreTwo, RemoteGrows DEF WorldInv
<1>11. KnownGrows
  BY <1>1, <1>7, KnownIsLeft DEF Tagged
<1>12. StreamGrows
  <2> DEFINE e == Event(Lib, "patch", <<m>>)
  <2>1. e.source = Lib /\ e.ref = "patch" /\ e.version = <<m>>
    BY DEF Event
  <2>2. NamedIn(repo'[e.source].remote, e.ref, e.version)
    BY <1>5, <1>7, <2>1 DEF NamedIn
  <2> HIDE DEF e
  <2> QED
    BY <1>1, <2>2 DEF StreamGrows, e
<1>13. HeadsLen'
  <2>1. Main(App)' = Main(App)
    BY <1>6, LibIsSource, SourcesAreTwo DEF Main, Elsewhere
  <2> QED
    BY <1>1, <2>1 DEF WorldInv, HeadsLen
<1> QED
  BY <1>1, <1>10, <1>11, <1>12, <1>13, IdleGoesOn, WorldStays DEF FlowInv

\* An event that is handled named a reference that is there.
LEMMA DeliverWorld ==
    ASSUME FlowInv, WorldInv, NEW p \in Clients, Deliver(p) PROVE WorldInv' /\ WorldGrows
<1> DEFINE e == Head(stream)
<1>1. /\ stream # <<>> /\ stream' = Tail(stream) /\ Starts(p, {"kind", "at", "source", "ref", "version"})
      /\ task'[p].kind = "push" /\ UNCHANGED <<heads, releaseVars, repo>>
      /\ task'[p].source = e.source /\ task'[p].ref = e.ref /\ task'[p].version = e.version
  BY DeliverDoes DEF FlowInv
<1>2. PICK S : stream \in Seq(S)
  BY DEF FlowInv, TaskInv
<1>3. 1 \in DOMAIN stream /\ stream[1] = e
  BY <1>1, <1>2
<1>4. NamedIn(repo[e.source].remote, e.ref, e.version)
  BY <1>3 DEF WorldInv, StreamOK
<1> HIDE DEF e
<1>5. PushesOK'
  <2> SUFFICES ASSUME NEW q \in Clients, task'[q].kind = "push"
               PROVE  NamedIn(repo'[task'[q].source].remote, task'[q].ref, task'[q].version)
    BY DEF PushesOK
  <2>1. CASE q = p
    BY <1>1, <1>4, <2>1
  <2>2. CASE q # p
    BY <1>1, <2>2 DEF Starts, OthersStay, WorldInv, PushesOK
  <2> QED
    BY <2>1, <2>2
<1>6. RefsOK' /\ RefsGrow
  BY <1>1, RefsStay DEF WorldInv
<1>7. KnownGrows
  BY <1>1, KnownIsLeft DEF Tagged, releaseVars
<1>8. StreamGrows /\ HeadsLen'
  BY <1>1 DEF StreamGrows, WorldInv, HeadsLen, Main
<1>9. ShasOK'
  BY <1>1 DEF Starts, OthersStay, WorldInv, ShasOK, Main
<1>10. StreamOK' /\ KnownOK'
  BY <1>6, <1>7, <1>8, StreamNamed, KnownStays DEF FlowInv, WorldInv
<1> QED
  BY <1>5, <1>6, <1>7, <1>8, <1>9, <1>10 DEF WorldInv, WorldGrows, KnownGrows

\* A release that is asked for is one of a commit that is there.
LEMMA RequestWorld ==
    ASSUME FlowInv, WorldInv, NEW p \in Clients, NEW m, NEW sha \in 1 .. Main(Lib),
           RequestRelease(p, m, sha)
    PROVE  WorldInv' /\ WorldGrows
<1>1. /\ Starts(p, {"kind", "at", "major", "sha"}) /\ task'[p].kind = "release" /\ task'[p].sha = sha
      /\ UNCHANGED <<heads, releaseVars, repo, stream>>
  BY RequestReleaseDoes DEF FlowInv
<1>2. RefsOK' /\ RefsGrow
  BY <1>1, RefsStay DEF WorldInv
<1>3. KnownGrows
  BY <1>1, KnownIsLeft DEF Tagged, releaseVars
<1>4. StreamGrows /\ HeadsLen'
  BY <1>1 DEF StreamGrows, WorldInv, HeadsLen, Main
<1>5. Main(Lib)' = Main(Lib)
  BY <1>1 DEF Main
<1>6. ShasOK'
  BY <1>1, <1>5 DEF Starts, OthersStay, WorldInv, ShasOK
<1>7. PushesGoOn
  BY <1>1 DEF Starts, OthersStay, PushesGoOn
<1>8. StreamOK' /\ KnownOK' /\ PushesOK'
  BY <1>2, <1>3, <1>4, <1>7, StreamNamed, KnownStays, PushesNamed DEF FlowInv, WorldInv
<1> QED
  BY <1>2, <1>3, <1>4, <1>6, <1>8 DEF WorldInv, WorldGrows, KnownGrows

\* Steps that leave references, files, events and what is published as they are.
LEMMA QuietWorld ==
    ASSUME FlowInv, WorldInv, UNCHANGED <<repo, heads, stream, published>>, GoOn
    PROVE  WorldInv' /\ WorldGrows
<1>1. KnownGrows
  BY KnownIsLeft DEF Tagged
<1> QED
  BY <1>1, WorldIsLeft DEF FlowInv

\* The steps of tasks that leave references, binaries and events alone.
LEMMA TasksWorld ==
    ASSUME FlowInv, WorldInv, NEW p \in Clients,
           \/ \E m \in 1 .. 3 : AddMajor(p, m)
           \/ \E d \in Deps, v \in Tagged : UploadContent(p, d, v)
           \/ ChooseVersion(p) \/ Publish(p) \/ ReleaseRejected(p)
           \/ ReadDependencies(p) \/ ReadIndex(p) \/ ReplaceIndex(p)
           \/ Invalidate(p) \/ FindUsers(p) \/ AskScan(p)
    PROVE  WorldInv' /\ WorldGrows
<1>1. CASE \E m \in 1 .. 3 : AddMajor(p, m)
  <2>1. PICK m \in 1 .. 3 : AddMajor(p, m)
    BY <1>1
  <2>2. GoOn
    BY <2>1, AddMajorDoes, StartGoesOn DEF FlowInv, Starts
  <2> QED
    BY <2>1, <2>2, AddMajorDoes, QuietWorld DEF FlowInv, releaseVars
<1>2. CASE \E d \in Deps, v \in Tagged : UploadContent(p, d, v)
  <2>1. PICK d \in Deps, v \in Tagged : UploadContent(p, d, v)
    BY <1>2
  <2>2. GoOn
    BY <2>1, UploadContentDoes, StartGoesOn DEF FlowInv, Starts
  <2> QED
    BY <2>1, <2>2, UploadContentDoes, QuietWorld DEF FlowInv, releaseVars
<1>3. CASE ChooseVersion(p) \/ Publish(p) \/ ReleaseRejected(p)
  <2>1. UNCHANGED <<repo, heads, stream, published>>
    BY <1>3 DEF ChooseVersion, Publish, ReleaseRejected, ReleaseStep, gerritVars
  <2>2. GoOn
    <3>1. Ends(p) \/ (Moves(p, {"at", "version"}) /\ task[p].kind = "release")
      BY <1>3, ReleaseDoes DEF FlowInv
    <3>2. CASE Moves(p, {"at", "version"}) /\ task[p].kind = "release"
      <4>1. {"kind", "sha"} \subseteq TaskFields \ {"at", "version"}
        BY TaskFieldsAre
      <4>2. task'[p].kind = "release" /\ task'[p].sha = task[p].sha
        BY <3>2, <4>1 DEF Moves
      <4> QED
        BY <3>2, <4>2 DEF Moves, OthersStay, GoOn, PushesGoOn, ShasGoOn
    <3> QED
      BY <3>1, <3>2, EndGoesOn
  <2> QED
    BY <2>1, <2>2, QuietWorld
<1>4. CASE \/ ReadDependencies(p) \/ ReadIndex(p) \/ ReplaceIndex(p) \/ FindUsers(p) \/ AskScan(p)
  <2>1. UNCHANGED <<repo, heads, stream, published>>
    BY <1>4 DEF ReadDependencies, ReadIndex, ReplaceIndex, FindUsers, AskScan, PushStep, releaseVars,
                gerritVars
  <2>2. {"at"} \cap {"kind", "source", "ref", "version", "sha"} = {}
        /\ {"at", "todo"} \cap {"kind", "source", "ref", "version", "sha"} = {}
    OBVIOUS
  <2>3. Ends(p) \/ Moves(p, {"at"}) \/ Moves(p, {"at", "todo"})
    BY <1>4, ReadDependenciesDoes, ReadIndexDoes, ReplaceIndexDoes, FindUsersDoes, AskScanDoes DEF FlowInv
  <2>4. GoOn
    BY <2>2, <2>3, EndGoesOn, MoveGoesOn
  <2> QED
    BY <2>1, <2>4, QuietWorld
<1>5. CASE Invalidate(p)
  <2>1. UNCHANGED <<repo, heads, stream, published>>
    BY <1>5 DEF Invalidate, PushStep, releaseVars, gerritVars
  <2>2. {"kind", "source", "ref", "version", "sha"} \subseteq TaskFields \ {"at", "late"}
    BY TaskFieldsAre
  <2>3. \A q \in Clients : \A x \in {"kind", "source", "ref", "version", "sha"} : task'[q][x] = task[q][x]
    BY <1>5, <2>2, InvalidateDoes DEF FlowInv
  <2>4. GoOn
    BY <2>3 DEF GoOn, PushesGoOn, ShasGoOn
  <2> QED
    BY <2>1, <2>4, QuietWorld
<1> QED
  BY <1>1, <1>2, <1>3, <1>4, <1>5

\* A copy is made: the version is known then.
LEMMA LandWorld ==
    ASSUME FlowInv, WorldInv, NEW c \in calls, Land(c) PROVE WorldInv' /\ WorldGrows
<1>1. /\ published' = [published EXCEPT ![c.kind] = Put(@, c.version, c.sha)]
      /\ UNCHANGED <<repo, heads, stream, task>>
  BY DEF Land, gerritVars
<1>2. c.kind \in Publications /\ c.version \in Release /\ published = [k \in Publications |-> published[k]]
  BY DEF FlowInv, ReleaseInv, CallsOK
<1>3. \A k \in Publications : DOMAIN published'[k] =
          IF k = c.kind THEN DOMAIN published[k] \cup {c.version} ELSE DOMAIN published[k]
  BY <1>1, <1>2 DEF Put, Over
<1>4. Tagged' = Tagged
  BY <1>1 DEF Tagged
<1>5. KnownGrows
  <2> DEFINE P(f) == UNION {DOMAIN f[k] : k \in Publications}
  <2>1. P(published) \subseteq P(published') /\ P(published') \subseteq P(published) \cup {c.version}
    <3>1. ASSUME NEW x \in P(published) PROVE x \in P(published')
      <4>1. PICK k \in Publications : x \in DOMAIN published[k]
        OBVIOUS
      <4>2. x \in DOMAIN published'[k]
        BY <1>3, <4>1
      <4> QED
        BY <4>2
    <3>2. ASSUME NEW x \in P(published') PROVE x \in P(published) \cup {c.version}
      <4>1. PICK k \in Publications : x \in DOMAIN published'[k]
        OBVIOUS
      <4>2. x \in DOMAIN published[k] \cup {c.version}
        BY <1>3, <4>1
      <4> QED
        BY <4>2
    <3> QED
      BY <3>1, <3>2
  <2>2. Known = P(published) \cup Tagged
    BY DEF Known
  <2>3. Known' = P(published') \cup Tagged'
    BY DEF Known
  <2> HIDE DEF P
  <2>4. Known \subseteq Known' /\ Known' \subseteq Known \cup {c.version}
    BY <1>4, <2>1, <2>2, <2>3
  <2> QED
    BY <1>2, <2>4 DEF KnownGrows
<1> QED
  BY <1>1, <1>5, IdleGoesOn, WorldIsLeft DEF FlowInv

\* All the rest.
LEMMA RestWorld ==
    ASSUME FlowInv, WorldInv,
           \/ UNCHANGED vars
           \/ \E d \in Refs : CacheExpires(d)
           \/ \E o \in Ops : BeginScan(o)
           \/ Restart \/ \E c \in calls : UploadFails(c)
    PROVE  WorldInv' /\ WorldGrows
<1>1. UNCHANGED <<repo, heads, stream, published>>
  BY DEF vars, CacheExpires, BeginScan, Restart, UploadFails, Restarted, gerritVars, releaseVars
<1>2. CASE UNCHANGED task
  BY <1>1, <1>2, IdleGoesOn, QuietWorld
<1>3. CASE task' = [q \in Clients |-> Idle]
  <2>1. GoOn
    BY <1>3 DEF GoOn, PushesGoOn, ShasGoOn, Idle
  <2> QED
    BY <1>1, <2>1, QuietWorld
<1> QED
  BY <1>2, <1>3 DEF vars, CacheExpires, BeginScan, Restart, UploadFails, Restarted

\* Every step.
LEMMA NextWorld ==
    ASSUME FlowInv, WorldInv, [Next]_vars PROVE WorldInv' /\ WorldGrows
<1>1. CASE \E p \in Clients :
              \/ ReadModel(p) \/ ListUpdates(p) \/ ScannedBranch(p) \/ ScannedUpdate(p)
              \/ FindUpload(p) \/ Create(p) \/ LabelUpdate(p) \/ ShowUpdate(p)
              \/ EditUpdate(p) \/ PublishUpdate(p) \/ WorkRejected(p)
              \/ \E d \in Deps : LookUp(p, d) \/ StoreVersions(p, d) \/ LookUpFails(p, d)
              \/ \E l \in DOMAIN task[p].want : TakeLabel(p, l)
  <2>1. UNCHANGED <<repo, releaseVars>>
    BY <1>1, WorkLeavesReleases
  <2>2. UNCHANGED <<heads, stream>>
    BY <1>1, WorkLeavesWorld
  <2>3. GoOn
    BY <1>1, WorkGoesOn DEF FlowInv
  <2> QED
    BY <2>1, <2>2, <2>3, QuietWorld DEF releaseVars
<1>2. CASE \E p \in Clients : EnsurePushed(p) \/ PushRejected(p)
  BY <1>2, FetchWorld
<1>3. CASE \E p \in Clients :
              \/ \E m \in 1 .. 3 : AddMajor(p, m)
              \/ \E d \in Deps, v \in Tagged : UploadContent(p, d, v)
              \/ ChooseVersion(p) \/ Publish(p) \/ ReleaseRejected(p)
              \/ ReadDependencies(p) \/ ReadIndex(p) \/ ReplaceIndex(p)
              \/ Invalidate(p) \/ FindUsers(p) \/ AskScan(p)
  BY <1>3, TasksWorld
<1>4. CASE \E p \in Clients : Deliver(p) \/ SetTag(p) \/ \E s \in Sources : ApplyMajor(p, s)
  BY <1>4, DeliverWorld, SetTagWorld, ApplyMajorWorld
<1>5. CASE MergeLib \/ PushTopic \/ \E m \in 1 .. 3 : CreatePatch(m)
  BY <1>5, MergeLibWorld, PushTopicWorld, CreatePatchWorld
<1>6. CASE (\E u \in DOMAIN updates : MergeProposal(u)) \/ \E d \in Deps : EditApp(d)
  BY <1>6, AppMovesWorld DEF MergeProposal, MergeUpdate, EditApp
<1>7. CASE \E p \in Clients, m \in 1 .. 3, sha \in 1 .. Main(Lib) : RequestRelease(p, m, sha)
  BY <1>7, RequestWorld
<1>8. CASE \E c \in calls : Land(c)
  BY <1>8, LandWorld
<1>9. CASE \/ UNCHANGED vars
           \/ \E d \in Refs : CacheExpires(d)
           \/ \E o \in Ops : BeginScan(o)
           \/ Restart \/ \E c \in calls : UploadFails(c)
  BY <1>9, RestWorld
<1> QED
  BY <1>1, <1>2, <1>3, <1>4, <1>5, <1>6, <1>7, <1>8, <1>9 DEF Next, Step

\* The releases that Gerrit has not told of at first have a bound in every number.
LEMMA PendingWithin ==
    \E b \in Nat : \A i \in DOMAIN Pending : Pending[i][1] <= b /\ Pending[i][2] <= b /\ Pending[i][3] <= b
<1>1. Len(Pending) \in Nat /\ DOMAIN Pending = 1 .. Len(Pending)
  BY PendingAreReleases
<1>2. \A i \in 1 .. Len(Pending) : Pending[i] \in Nat \X Nat \X Nat
  BY PendingAreReleases, <1>1
<1> DEFINE f == [i \in 1 .. Len(Pending) |-> Pending[i][1]]
           g == [i \in 1 .. Len(Pending) |-> Pending[i][2]]
           h == [i \in 1 .. Len(Pending) |-> Pending[i][3]]
<1>3. /\ f \in [1 .. Len(Pending) -> Nat] /\ g \in [1 .. Len(Pending) -> Nat]
      /\ h \in [1 .. Len(Pending) -> Nat]
  BY <1>2
<1>4. PICK a \in Nat : \A i \in 1 .. Len(Pending) : f[i] <= a
  BY <1>1, <1>3, SequencesAreBounded
<1>5. PICK b \in Nat : \A i \in 1 .. Len(Pending) : g[i] <= b
  BY <1>1, <1>3, SequencesAreBounded
<1>6. PICK c \in Nat : \A i \in 1 .. Len(Pending) : h[i] <= c
  BY <1>1, <1>3, SequencesAreBounded
<1>7. ASSUME NEW i \in DOMAIN Pending
      PROVE  Pending[i][1] <= a + b + c /\ Pending[i][2] <= a + b + c /\ Pending[i][3] <= a + b + c
  <2>1. Pending[i][1] \in Nat /\ Pending[i][2] \in Nat /\ Pending[i][3] \in Nat
    BY <1>1, <1>2
  <2>2. Pending[i][1] <= a /\ Pending[i][2] <= b /\ Pending[i][3] <= c
    BY <1>1, <1>4, <1>5, <1>6
  <2> HIDE DEF f, g, h
  <2> QED
    BY <2>1, <2>2
<1>8. a + b + c \in Nat
  OBVIOUS
<1> QED
  BY <1>7, <1>8

\* What the references are at first.
LEMMA InitRefs ==
    ASSUME Init
    PROVE  LET all == {First} \cup Range(Pending) IN
           /\ repo[Lib].remote.main = 1 /\ repo[Lib].clone.main = 1
           /\ repo[Lib].remote.releases = [v \in all |-> 1]
           /\ repo[Lib].clone.releases = [v \in {First} |-> 1]
           /\ repo[App].remote.main = 1 /\ repo[App].clone.main = 1
           /\ repo[App].remote.releases = [v \in {} |-> 1] /\ repo[App].clone.releases = [v \in {} |-> 1]
           /\ \A s \in Sources : /\ repo[s].remote.majors = [m \in {1, 2} |-> 1]
                                 /\ repo[s].clone.majors = [m \in {1, 2} |-> 1]
                                 /\ repo[s].remote.patches = [b \in {} |-> 0]
                                 /\ repo[s].clone.patches = [b \in {} |-> 0]
           /\ published = [k \in Publications |-> IF k = "flat" THEN [v \in {} |-> 1] ELSE [v \in all |-> 1]]
<1> DEFINE refs(V) == [main |-> 1, releases |-> [v \in V |-> 1],
                       majors |-> [m \in {1, 2} |-> 1], patches |-> [b \in {} |-> 0]]
           told == refs({First})
           all == refs({First} \cup Range(Pending))
<1>1. /\ repo = [s \in Sources |-> IF s = Lib THEN [remote |-> all, clone |-> told]
                                   ELSE [remote |-> refs({}), clone |-> refs({})]]
      /\ published = [k \in Publications |-> IF k = "flat" THEN refs({}).releases ELSE all.releases]
  BY DEF Init
<1>2. \A V : /\ refs(V).main = 1 /\ refs(V).releases = [v \in V |-> 1]
             /\ refs(V).majors = [m \in {1, 2} |-> 1] /\ refs(V).patches = [b \in {} |-> 0]
  OBVIOUS
<1>t. told = refs({First}) /\ all = refs({First} \cup Range(Pending))
  OBVIOUS
<1> HIDE DEF refs, told, all
<1>3. /\ repo[Lib].remote = all /\ repo[Lib].clone = told
      /\ repo[App].remote = refs({}) /\ repo[App].clone = refs({})
  BY <1>1, LibIsSource, SourcesAreTwo
<1> QED
  BY <1>1, <1>2, <1>3, <1>t, SourcesAreTwo

\* The world at first.
LEMMA InitWorld == Init => WorldInv
<1> SUFFICES ASSUME Init PROVE WorldInv
  OBVIOUS
<1> DEFINE all == {First} \cup Range(Pending)
           one == [m \in {1, 2} |-> 1]
           none == [b \in {} |-> 0]
<1>1. /\ repo[Lib].remote.main = 1 /\ repo[Lib].clone.main = 1
      /\ repo[Lib].remote.releases = [v \in all |-> 1]
      /\ repo[Lib].clone.releases = [v \in {First} |-> 1]
      /\ repo[App].remote.main = 1 /\ repo[App].clone.main = 1
      /\ repo[App].remote.releases = [v \in {} |-> 1] /\ repo[App].clone.releases = [v \in {} |-> 1]
      /\ \A s \in Sources : /\ repo[s].remote.majors = one /\ repo[s].clone.majors = one
                            /\ repo[s].remote.patches = none /\ repo[s].clone.patches = none
      /\ published = [k \in Publications |-> IF k = "flat" THEN [v \in {} |-> 1] ELSE [v \in all |-> 1]]
  BY InitRefs
<1>2. Among(one, 1) /\ Among(none, 1) /\ \A V : Among([v \in V |-> 1], 1)
  <2>1. 1 \in 1 .. 1
    OBVIOUS
  <2> QED
    BY <2>1, Zenon DEF Among
<1>3. /\ Agree(one, one) /\ Agree(none, none)
      /\ \A V : \A W \in SUBSET V : Agree([v \in W |-> 1], [v \in V |-> 1])
  BY DEF Agree
<1>4. First \in all
  OBVIOUS
<1>5. DOMAIN none = {} /\ DOMAIN [v \in all |-> 1] = all
  OBVIOUS
<1>6. \A n \in DOMAIN Pending : Pending[n] \in all
  BY DEF Range
<1> HIDE DEF one, none, all
<1>7. RefsOK
  <2>1. 1 \in Nat \ {0} /\ 1 \in 1 .. 1
    OBVIOUS
  <2>2. Agree([v \in {First} |-> 1], [v \in all |-> 1])
    BY <1>3, <1>4
  <2>3. Agree([v \in {} |-> 1], [v \in {} |-> 1])
    BY <1>3
  <2>4. RefsWithin(repo[Lib].remote) /\ CopyOf(repo[Lib].clone, repo[Lib].remote)
    BY <1>1, <1>2, <1>3, <2>1, <2>2, LibIsSource DEF RefsWithin, CopyOf
  <2>5. RefsWithin(repo[App].remote) /\ CopyOf(repo[App].clone, repo[App].remote)
    BY <1>1, <1>2, <1>3, <2>1, <2>3, LibIsSource DEF RefsWithin, CopyOf
  <2> QED
    BY <1>1, <1>5, <2>4, <2>5, LibIsSource, SourcesAreTwo DEF RefsOK
<1>8. Tagged = all /\ Known = all
  <2>1. Tagged = all
    BY <1>1, <1>5 DEF Tagged
  <2>2. \A k \in Publications : DOMAIN published[k] \subseteq all
    BY <1>1, <1>5
  <2>3. UNION {DOMAIN published[k] : k \in Publications} \subseteq all
    BY <2>2
  <2> QED
    BY <2>1, <2>3 DEF Known
<1>9. KnownOK
  <2>1. PICK b \in Nat : \A i \in DOMAIN Pending : Pending[i][1] <= b /\ Pending[i][2] <= b /\ Pending[i][3] <= b
    BY PendingWithin
  <2>2. all \subseteq Release
    <3>1. First \in Release
      BY DEF First, Release
    <3>2. Range(Pending) \subseteq Release
      BY PendingAreReleases DEF Range, Release
    <3> QED
      BY <3>1, <3>2 DEF all
  <2>3. ASSUME NEW v \in all PROVE v[1] <= b + 1 /\ v[2] <= b + 1 /\ v[3] <= b + 1
    <3>1. CASE v = First
      <4>1. v[1] = 1 /\ v[2] = 0 /\ v[3] = 0
        BY <3>1 DEF First
      <4> QED
        BY <4>1
    <3>2. CASE v \in Range(Pending)
      <4>1. PICK i \in DOMAIN Pending : v = Pending[i]
        BY <3>2 DEF Range
      <4>2. v[1] \in Nat /\ v[2] \in Nat /\ v[3] \in Nat
        BY <2>2 DEF Release
      <4> QED
        BY <2>1, <4>1, <4>2
    <3> QED
      BY <3>1, <3>2 DEF all
  <2>4. b + 1 \in Nat
    OBVIOUS
  <2> QED
    BY <1>4, <1>8, <2>2, <2>3, <2>4 DEF KnownOK
<1>10. StreamOK
  <2> DEFINE e(n) == Event(Lib, "release", Pending[n])
  <2>1. stream = [n \in DOMAIN Pending |-> e(n)]
    BY DEF Init
  <2>2. \A n : e(n).source = Lib /\ e(n).ref = "release" /\ e(n).version = Pending[n]
    BY DEF Event
  <2>3. \A n \in DOMAIN Pending : NamedIn(repo[Lib].remote, "release", Pending[n])
    BY <1>6, <1>8 DEF NamedIn, Tagged
  <2> HIDE DEF e
  <2> QED
    BY <2>1, <2>2, <2>3 DEF StreamOK
<1>11. \A p \in Clients : task[p] = Idle
  BY DEF Init
<1>12. PushesOK /\ ShasOK
  BY <1>11, IdleIs DEF PushesOK, ShasOK
<1>13. HeadsLen
  <2> DEFINE file == [d \in Deps |-> First]
  <2>1. heads = <<file>>
    BY DEF Init
  <2>2. heads \in Seq({file}) /\ Len(heads) = 1
    BY <2>1
  <2> QED
    BY <1>1, <2>2 DEF HeadsLen, Main
<1> QED
  BY <1>7, <1>9, <1>10, <1>12, <1>13 DEF WorldInv

-----------------------------------------------------------------------------
\* The files: what they hold are versions that are known, from where they are read to
\* where they are written.

Values == {Undefined} \cup Known
Files == [Deps -> Values]
Labels == {LabelOf[d] : d \in Deps}
Partial(f) == DOMAIN f \subseteq Deps /\ \A d \in DOMAIN f : f[d] \in Values

BaseOK(p) == task[p].base \in Files
\* The changes that were listed are there, and one that had a label keeps it.
SeenOK(p) == \A u \in DOMAIN task[p].seen :
    LET s == task[p].seen[u] IN
    /\ u \in DOMAIN updates /\ s.file \in Files
    /\ s.label # NoLabel => updates[u].label = s.label
FoundOK(p) == \A d \in DOMAIN task[p].found : task[p].found[d] \subseteq Known
StoreOK(p) ==
    /\ task[p].store \subseteq task[p].todo \cap DOMAIN task[p].found
    /\ task[p].at # "look" => task[p].store = {}
WantOK(p) ==
    /\ DOMAIN task[p].want \subseteq Labels
    /\ \A l \in DOMAIN task[p].want : Partial(task[p].want[l])
\* A label that is worked on is one of those for which there is something to write.
LabelOK(p) ==
    \/ task[p].at \in {"create", "label", "show", "edit", "publish"}
    \/ task[p].at = "look" /\ task[p].again
    \/ task[p].at = "list" /\ task[p].kind = "upload"
    => task[p].label \in DOMAIN task[p].want
TodoOK(p) == task[p].at \in {"read", "look"} => task[p].todo \subseteq Deps
ModelOK(p) == task[p].at = "list" /\ task[p].kind = "push" =>
    /\ task[p].model.main \in 1 .. Main(App)
    /\ Among(task[p].model.majors, Main(App))
    /\ DOMAIN task[p].model.patches = {}
\* A change that is made has no label until it gets its own.
IdOK(p) ==
    /\ task[p].at = "label" => task[p].id \in DOMAIN updates /\ updates[task[p].id].label = NoLabel
    /\ task[p].at \in {"show", "edit", "publish"} \/ (task[p].at = "look" /\ task[p].again) =>
          /\ task[p].id \in DOMAIN updates
          /\ updates[task[p].id].label = task[p].label /\ task[p].label # NoLabel
\* Only a push is scanned for.
KindOK(p) == task[p].at = "scan" => task[p].kind = "push"
AgainOK(p) == task[p].again \in BOOLEAN /\ (task[p].at \notin Post => task[p].again = FALSE)
FilesOK(p) ==
    /\ BaseOK(p) /\ SeenOK(p) /\ FoundOK(p) /\ StoreOK(p) /\ WantOK(p)
    /\ LabelOK(p) /\ TodoOK(p) /\ ModelOK(p) /\ IdOK(p) /\ AgainOK(p) /\ KindOK(p)
CacheOK == \A r \in Refs : cache[r] = None \/ cache[r] = Invalid \/ cache[r] \subseteq Known
OwnLabels == \A p, q \in Clients :
    p # q /\ task[p].at = "label" /\ task[q].at = "label" => task[p].id # task[q].id
FilesInv == ChangesTypeOK(Values, Labels) /\ CacheOK /\ OwnLabels /\ \A p \in Clients : FilesOK(p)

\* Changes stay, and so does a label, unless one that has none is given its own.
LabelsStay(X) ==
    /\ DOMAIN updates \subseteq DOMAIN updates'
    /\ \A u \in DOMAIN updates :
          updates[u].label # NoLabel \/ u \notin X => updates'[u].label = updates[u].label
Frame(X) ==
    /\ Known \subseteq Known' /\ LabelsStay(X)
    /\ Main(App) \in Nat /\ Main(App)' \in Nat /\ Main(App) <= Main(App)'

\* What is known goes on to be a value.
LEMMA ValuesGrow == ASSUME Known \subseteq Known' PROVE Values \subseteq Values' /\ Files \subseteq Files'
<1>1. Values \subseteq Values'
  BY DEF Values
<1> QED
  BY <1>1 DEF Files

\* The labels are none of those without a label.
LEMMA LabelsAre == NoLabel \notin Labels
BY DepsAreRefs DEF Labels

\* A client that does something else has no file.
LEMMA IdleOK == ASSUME NEW p \in Clients, task'[p] = Idle PROVE FilesOK(p)'
<1>1. /\ task'[p].base = NoFile /\ task'[p].seen = <<>> /\ task'[p].found = <<>> /\ task'[p].want = <<>>
      /\ task'[p].store = {} /\ task'[p].at = "done" /\ task'[p].again = FALSE
  BY DEF Idle, NoOne
<1>2. DOMAIN <<>> = {}
  OBVIOUS
<1>3. NoFile \in Files'
  BY DEF NoFile, Files, Values
<1> QED
  BY <1>1, <1>2, <1>3
     DEF FilesOK, BaseOK, SeenOK, FoundOK, StoreOK, WantOK, LabelOK, TodoOK, ModelOK, IdOK, AgainOK, KindOK, Post

\* What the fields of a task that stay say goes on to hold.
LEMMA PartsStay ==
    ASSUME NEW p \in Clients, NEW X, NEW Y, Frame(Y), FilesOK(p),
           task[p].at = "label" => task[p].id \notin Y,
           \A x \in TaskFields \ X : task'[p][x] = task[p][x]
    PROVE  /\ "base" \notin X => BaseOK(p)'
           /\ "seen" \notin X => SeenOK(p)'
           /\ "found" \notin X => FoundOK(p)'
           /\ {"store", "todo", "found", "at"} \cap X = {} => StoreOK(p)'
           /\ "want" \notin X => WantOK(p)'
           /\ {"at", "again", "kind", "label", "want"} \cap X = {} => LabelOK(p)'
           /\ {"at", "todo"} \cap X = {} => TodoOK(p)'
           /\ {"at", "kind", "model"} \cap X = {} => ModelOK(p)'
           /\ {"at", "again", "id", "label"} \cap X = {} => IdOK(p)'
           /\ {"at", "again"} \cap X = {} => AgainOK(p)'
           /\ {"at", "kind"} \cap X = {} => KindOK(p)'
<1>0. Known \subseteq Known' /\ Values \subseteq Values' /\ Files \subseteq Files'
  BY ValuesGrow DEF Frame
<1>1. ASSUME "base" \notin X PROVE BaseOK(p)'
  <2>1. task'[p].base = task[p].base
    BY <1>1, TaskFieldsAre
  <2> QED
    BY <1>0, <2>1 DEF FilesOK, BaseOK
<1>2. ASSUME "seen" \notin X PROVE SeenOK(p)'
  <2>1. task'[p].seen = task[p].seen
    BY <1>2, TaskFieldsAre
  <2> QED
    BY <1>0, <2>1 DEF FilesOK, SeenOK, Frame, LabelsStay
<1>3. ASSUME "found" \notin X PROVE FoundOK(p)'
  <2>1. task'[p].found = task[p].found
    BY <1>3, TaskFieldsAre
  <2> QED
    BY <1>0, <2>1 DEF FilesOK, FoundOK
<1>4. ASSUME {"store", "todo", "found", "at"} \cap X = {} PROVE StoreOK(p)'
  <2>1. /\ task'[p].store = task[p].store /\ task'[p].todo = task[p].todo
        /\ task'[p].found = task[p].found /\ task'[p].at = task[p].at
    BY <1>4, TaskFieldsAre
  <2> QED
    BY <2>1 DEF FilesOK, StoreOK
<1>5. ASSUME "want" \notin X PROVE WantOK(p)'
  <2>1. task'[p].want = task[p].want
    BY <1>5, TaskFieldsAre
  <2> QED
    BY <1>0, <2>1 DEF FilesOK, WantOK, Partial, Labels
<1>6. ASSUME {"at", "again", "kind", "label", "want"} \cap X = {} PROVE LabelOK(p)'
  <2>1. /\ task'[p].at = task[p].at /\ task'[p].again = task[p].again /\ task'[p].kind = task[p].kind
        /\ task'[p].label = task[p].label /\ task'[p].want = task[p].want
    BY <1>6, TaskFieldsAre
  <2> QED
    BY <2>1 DEF FilesOK, LabelOK
<1>7. ASSUME {"at", "todo"} \cap X = {} PROVE TodoOK(p)'
  <2>1. task'[p].at = task[p].at /\ task'[p].todo = task[p].todo
    BY <1>7, TaskFieldsAre
  <2> QED
    BY <2>1 DEF FilesOK, TodoOK
<1>8. ASSUME {"at", "kind", "model"} \cap X = {} PROVE ModelOK(p)'
  <2>1. task'[p].at = task[p].at /\ task'[p].kind = task[p].kind /\ task'[p].model = task[p].model
    BY <1>8, TaskFieldsAre
  <2>2. 1 .. Main(App) \subseteq 1 .. Main(App)'
    BY DEF Frame
  <2> QED
    BY <2>1, <2>2 DEF FilesOK, ModelOK, Among
<1>9. ASSUME {"at", "again", "id", "label"} \cap X = {} PROVE IdOK(p)'
  <2>1. /\ task'[p].at = task[p].at /\ task'[p].again = task[p].again
        /\ task'[p].id = task[p].id /\ task'[p].label = task[p].label
    BY <1>9, TaskFieldsAre
  <2>2. IdOK(p)
    BY DEF FilesOK
  <2>3. CASE task[p].at = "label"
    BY <2>1, <2>2, <2>3 DEF IdOK, Frame, LabelsStay
  <2>4. CASE task[p].at # "label"
    BY <2>1, <2>2, <2>4 DEF IdOK, Frame, LabelsStay
  <2> QED
    BY <2>3, <2>4
<1>10. ASSUME {"at", "again"} \cap X = {} PROVE AgainOK(p)'
  <2>1. task'[p].at = task[p].at /\ task'[p].again = task[p].again
    BY <1>10, TaskFieldsAre
  <2> QED
    BY <2>1 DEF FilesOK, AgainOK
<1>11. ASSUME {"at", "kind"} \cap X = {} PROVE KindOK(p)'
  <2>1. task'[p].at = task[p].at /\ task'[p].kind = task[p].kind
    BY <1>11, TaskFieldsAre
  <2> QED
    BY <2>1 DEF FilesOK, KindOK
<1> QED
  BY <1>1, <1>2, <1>3, <1>4, <1>5, <1>6, <1>7, <1>8, <1>9, <1>10, <1>11

\* So does all of it when the task is left as it is.
LEMMA FilesStay ==
    ASSUME NEW p \in Clients, NEW Y, Frame(Y), FilesOK(p),
           task[p].at = "label" => task[p].id \notin Y,
           \A x \in TaskFields \ {"late"} : task'[p][x] = task[p][x]
    PROVE  FilesOK(p)'
<1> DEFINE X == {"late"}
<1>1. \A x \in TaskFields \ X : task'[p][x] = task[p][x]
  OBVIOUS
<1>2. /\ "base" \notin X /\ "seen" \notin X /\ "found" \notin X /\ "want" \notin X
      /\ {"store", "todo", "found", "at"} \cap X = {}
      /\ {"at", "again", "kind", "label", "want"} \cap X = {} /\ {"at", "todo"} \cap X = {}
      /\ {"at", "kind", "model"} \cap X = {} /\ {"at", "again", "id", "label"} \cap X = {}
      /\ {"at", "again"} \cap X = {} /\ {"at", "kind"} \cap X = {}
  OBVIOUS
<1> HIDE DEF X
<1> QED
  BY <1>1, <1>2, PartsStay DEF FilesOK

\* The world grows: what the files of a task rely on.
LEMMA FrameIs ==
    ASSUME WorldInv, WorldInv', WorldGrows, NEW Y, LabelsStay(Y) PROVE Frame(Y)
BY LibIsSource DEF WorldInv, RefsOK, RefsWithin, WorldGrows, RefsGrow, Frame, Main

\* Changes and caches that stay hold what is known.
LEMMA ChangesStay ==
    ASSUME ChangesTypeOK(Values, Labels), Known \subseteq Known', UNCHANGED <<heads, updates>>
    PROVE  ChangesTypeOK(Values, Labels)' /\ LabelsStay({})
<1>1. Files \subseteq Files'
  BY ValuesGrow
<1>2. LabelsStay({})
  BY DEF LabelsStay
<1>3. /\ \A n \in DOMAIN heads : heads[n] \in Files
      /\ \A u \in DOMAIN updates :
            /\ {updates[u].base, updates[u].file, Edited(u)} \subseteq Files
            /\ updates[u].label \in Labels \cup {NoLabel}
            /\ ~updates[u].private => updates[u].label # NoLabel
  BY DEF ChangesTypeOK, Files
<1>4. /\ \A n \in DOMAIN heads : heads[n] \in Files'
      /\ \A u \in DOMAIN updates :
            /\ {updates[u].base, updates[u].file, Edited(u)} \subseteq Files'
            /\ updates[u].label \in Labels \cup {NoLabel}
            /\ ~updates[u].private => updates[u].label # NoLabel
  BY <1>1, <1>3
<1>5. heads' = heads /\ updates' = updates /\ Labels' = Labels /\ \A u : Edited(u)' = Edited(u)
  BY DEF Labels, Edited
<1> QED
  BY <1>2, <1>4, <1>5 DEF ChangesTypeOK, Files

\* A cache that stays holds what is known.
LEMMA CacheStays ==
    ASSUME CacheOK, Known \subseteq Known', UNCHANGED cache PROVE CacheOK'
BY DEF CacheOK

\* One entry of the cache is written.
LEMMA CacheWrites ==
    ASSUME CacheOK, Known \subseteq Known', NEW d, NEW y, cache' = [cache EXCEPT ![d] = y],
           y = None \/ y = Invalid \/ y \subseteq Known
    PROVE  CacheOK'
<1> SUFFICES ASSUME NEW r \in Refs PROVE cache'[r] = None \/ cache'[r] = Invalid \/ cache'[r] \subseteq Known'
  BY DEF CacheOK
<1>1. cache'[r] = cache[r] \/ cache'[r] = y
  BY DEF CacheOK
<1> QED
  BY <1>1 DEF CacheOK

\* One task goes on.
LEMMA FilesAre ==
    ASSUME FilesInv, NEW p \in Clients, OthersStay(p), Frame({}), FilesOK(p)',
           ChangesTypeOK(Values, Labels)', CacheOK', task'[p].at # "label"
    PROVE  FilesInv'
<1>1. \A q \in Clients \ {p} : task'[q] = task[q]
  BY DEF OthersStay
<1>2. \A q \in Clients \ {p} : FilesOK(q)'
  <2> TAKE q \in Clients \ {p}
  <2>1. \A x \in TaskFields \ {"late"} : task'[q][x] = task[q][x]
    BY <1>1
  <2>2. q \in Clients /\ FilesOK(q) /\ Frame({}) /\ task[q].id \notin {}
    BY DEF FilesInv
  <2> QED
    BY <2>1, <2>2, FilesStay
<1>3. OwnLabels'
  BY <1>1 DEF FilesInv, OwnLabels
<1>4. \A q \in Clients : FilesOK(q)'
  BY <1>2
<1> QED
  BY <1>3, <1>4 DEF FilesInv

\* The work on a label is done, or the work of the client.
LEMMA DoneOK ==
    ASSUME FilesInv, NEW p \in Clients, NEW Y, Frame(Y), task[p].store = {},
           task[p].at = "label" => task[p].id \notin Y,
           NEW kind, Ends(p) \/ Relabels(p, kind)
    PROVE  FilesOK(p)' /\ task'[p].at # "label" /\ OthersStay(p)
<1>1. CASE Ends(p)
  <2>1. task'[p] = Idle /\ Idle.at = "done" /\ OthersStay(p)
    BY <1>1 DEF Ends, Idle
  <2> QED
    BY <2>1, IdleOK
<1>2. CASE Relabels(p, kind)
  <2> DEFINE X == {"kind", "at", "again", "want"}
  <2>1. /\ OthersStay(p) /\ \A x \in TaskFields \ X : task'[p][x] = task[p][x]
        /\ task'[p].kind = kind /\ task'[p].at = "labels" /\ task'[p].again = FALSE
        /\ task'[p].want = Restrict(task[p].want, LabelsLeft(p))
    BY <1>2 DEF Relabels, Moves
  <2>2. FilesOK(p)
    BY DEF FilesInv
  <2>3. "base" \notin X /\ "seen" \notin X /\ "found" \notin X
    OBVIOUS
  <2>4. BaseOK(p)' /\ SeenOK(p)' /\ FoundOK(p)'
    <3> HIDE DEF X
    <3> QED
      BY <2>1, <2>2, <2>3, PartsStay
  <2>5. StoreOK(p)'
    <3>1. task'[p].store = {}
      BY <2>1, TaskFieldsAre
    <3> QED
      BY <2>1, <3>1 DEF StoreOK
  <2>6. WantOK(p)'
    <3>1. WantOK(p) /\ Values \subseteq Values'
      BY <2>2, ValuesGrow DEF FilesOK, Frame
    <3>2. /\ DOMAIN task'[p].want \subseteq DOMAIN task[p].want
          /\ \A l \in DOMAIN task'[p].want : task'[p].want[l] = task[p].want[l]
      BY <2>1 DEF Restrict, LabelsLeft
    <3> QED
      BY <3>1, <3>2 DEF WantOK, Partial, Labels
  <2>7. LabelOK(p)' /\ TodoOK(p)' /\ ModelOK(p)' /\ IdOK(p)' /\ AgainOK(p)' /\ KindOK(p)'
    BY <2>1 DEF LabelOK, TodoOK, ModelOK, IdOK, AgainOK, KindOK, Post
  <2> QED
    BY <2>1, <2>4, <2>5, <2>6, <2>7 DEF FilesOK
<1> QED
  BY <1>1, <1>2

\* The commit that is read, of a repository without patch branches.
LEMMA ReadShaIs ==
    ASSUME NEW R, NEW m, NEW n \in Nat, R.main \in 1 .. n, Among(R.majors, n), DOMAIN R.patches = {}
    PROVE  ReadSha(R, m) \in 0 .. n
<1>1. PatchesOf(R, m) = {}
  BY DEF PatchesOf
<1>2. FindBranch(R, m) \in {"main", "none"}
  BY <1>1 DEF FindBranch
<1>3. R.main \in 0 .. n /\ 0 \in 0 .. n
  OBVIOUS
<1>4. \A x \in DOMAIN R.majors : R.majors[x] \in 0 .. n
  BY DEF Among
<1> QED
  BY <1>2, <1>3, <1>4 DEF ReadSha

\* The model of a scan is the clone of the application.
LEMMA ReadModelFiles ==
    ASSUME FlowInv, WorldInv, WorldInv', WorldGrows, FilesInv, NEW p \in Clients, ReadModel(p)
    PROVE  FilesInv'
<1> DEFINE X == {"model", "at"}
<1>1. /\ task[p].at = "scan" /\ OthersStay(p) /\ \A x \in TaskFields \ X : task'[p][x] = task[p][x]
      /\ task'[p].at = "list" /\ task'[p].model = repo[App].clone
  BY ReadModelDoes DEF FlowInv, Moves
<1>2. UNCHANGED <<heads, updates, cache>>
  BY DEF ReadModel, WorkStep
<1>3. ChangesTypeOK(Values, Labels)' /\ CacheOK' /\ LabelsStay({})
  BY <1>2, ChangesStay, CacheStays DEF FilesInv, WorldGrows
<1>4. Frame({}) /\ FilesOK(p) /\ task[p].id \notin {}
  BY <1>3, FrameIs DEF FilesInv
<1>5. /\ "base" \notin X /\ "seen" \notin X /\ "found" \notin X /\ "want" \notin X
  OBVIOUS
<1>6. BaseOK(p)' /\ SeenOK(p)' /\ FoundOK(p)' /\ WantOK(p)'
  <2> HIDE DEF X
  <2> QED
    BY <1>1, <1>4, <1>5, PartsStay
<1>7. /\ task'[p].store = task[p].store /\ task'[p].kind = task[p].kind /\ task'[p].again = task[p].again
  BY <1>1, TaskFieldsAre
<1>8. task[p].store = {} /\ task[p].kind = "push" /\ task[p].again = FALSE
  BY <1>1, <1>4 DEF FilesOK, StoreOK, KindOK, AgainOK, Post
<1>9. ModelOK(p)'
  <2>1. RefsWithin(repo[App].remote) /\ CopyOf(repo[App].clone, repo[App].remote) /\ DOMAIN repo[App].remote.patches = {}
    BY LibIsSource DEF WorldInv, RefsOK
  <2>2. /\ repo[App].clone.main \in 1 .. Main(App) /\ Among(repo[App].clone.majors, Main(App))
        /\ DOMAIN repo[App].clone.patches = {}
    BY <2>1 DEF RefsWithin, CopyOf, Agree, Among, Main
  <2>3. 1 .. Main(App) \subseteq 1 .. Main(App)'
    BY <1>4 DEF Frame
  <2> QED
    BY <1>1, <2>2, <2>3 DEF ModelOK, Among
<1>10. StoreOK(p)' /\ LabelOK(p)' /\ TodoOK(p)' /\ IdOK(p)' /\ AgainOK(p)' /\ KindOK(p)'
  BY <1>1, <1>7, <1>8 DEF StoreOK, LabelOK, TodoOK, IdOK, AgainOK, KindOK, Post
<1>11. FilesOK(p)'
  BY <1>6, <1>9, <1>10 DEF FilesOK
<1> QED
  BY <1>1, <1>3, <1>4, <1>11, FilesAre

\* What a file uses is in it.
LEMMA UsedByIs == \A file : UsedBy(file) \subseteq Deps
BY DEF UsedBy, InManifest, InDependencies, InBuild

\* The file that is scanned is that of a commit of the main branch, and the changes
\* that are seen are those that are open.
LEMMA ListUpdatesFiles ==
    ASSUME FlowInv, WorldInv, WorldInv', WorldGrows, FilesInv, NEW p \in Clients, ListUpdates(p)
    PROVE  FilesInv'
<1> DEFINE X == {"at", "seen", "model", "major", "base", "todo"}
           R == task[p].model
           sha == ReadSha(R, TopMajor(R))
           seen == [u \in OpenUpdates |-> [label |-> updates[u].label, file |-> updates[u].file]]
<1>1. /\ task[p].at = "list" /\ task[p].kind = "push"
      /\ \/ sha = 0 /\ Ends(p)
         \/ /\ sha # 0 /\ OthersStay(p) /\ \A x \in TaskFields \ X : task'[p][x] = task[p][x]
            /\ task'[p].at = "look" /\ task'[p].base = heads[sha] /\ task'[p].todo = UsedBy(heads[sha])
            /\ task'[p].seen = seen
  BY ListUpdatesDoes DEF FlowInv, Moves
<1>2. UNCHANGED <<heads, updates, cache>>
  BY DEF ListUpdates, WorkStep
<1>3. ChangesTypeOK(Values, Labels)' /\ CacheOK' /\ LabelsStay({})
  BY <1>2, ChangesStay, CacheStays DEF FilesInv, WorldGrows
<1>4. Frame({}) /\ FilesOK(p) /\ task[p].id \notin {}
  BY <1>3, FrameIs DEF FilesInv
<1>5. task[p].store = {} /\ task[p].again = FALSE
  BY <1>1, <1>4 DEF FilesOK, StoreOK, AgainOK, Post
<1>6. CASE Ends(p)
  BY <1>1, <1>3, <1>4, <1>5, <1>6, DoneOK, FilesAre
<1>7. CASE ~Ends(p)
  <2>1. "found" \notin X /\ "want" \notin X
    OBVIOUS
  <2>2. FoundOK(p)' /\ WantOK(p)'
    <3> HIDE DEF X
    <3> QED
      BY <1>1, <1>4, <1>7, <2>1, PartsStay
  <2>3. BaseOK(p)'
    <3>1. sha \in 0 .. Main(App) /\ Main(App) \in Nat
      BY <1>1, <1>4, ReadShaIs DEF FilesOK, ModelOK, Frame
    <3>2. sha \in 1 .. Len(heads)
      BY <1>1, <1>7, <3>1 DEF WorldInv, HeadsLen
    <3> HIDE DEF sha
    <3>3. heads[sha] \in Files
      BY <3>2 DEF FilesInv, ChangesTypeOK, Files, WorldInv, HeadsLen
    <3> QED
      BY <1>1, <1>4, <1>7, <3>3, ValuesGrow DEF BaseOK, Frame
  <2>4. SeenOK(p)'
    <3>1. \A u \in DOMAIN seen : /\ u \in DOMAIN updates
                                 /\ seen[u].label = updates[u].label /\ seen[u].file = updates[u].file
      BY DEF OpenUpdates
    <3>2. \A u \in DOMAIN updates : updates[u].file \in Files
      BY DEF FilesInv, ChangesTypeOK, Files
    <3>3. Files \subseteq Files' /\ task'[p].seen = seen
      BY <1>1, <1>4, <1>7, ValuesGrow DEF Frame
    <3> HIDE DEF seen
    <3> QED
      BY <1>2, <3>1, <3>2, <3>3 DEF SeenOK
  <2>5. task'[p].store = {} /\ task'[p].again = FALSE /\ task'[p].at = "look"
    BY <1>1, <1>5, <1>7, TaskFieldsAre
  <2>6. TodoOK(p)'
    BY <1>1, <1>7, UsedByIs DEF TodoOK
  <2>7. StoreOK(p)' /\ LabelOK(p)' /\ ModelOK(p)' /\ IdOK(p)' /\ AgainOK(p)' /\ KindOK(p)'
    BY <2>5 DEF StoreOK, LabelOK, ModelOK, IdOK, AgainOK, KindOK
  <2>8. FilesOK(p)'
    BY <2>2, <2>3, <2>4, <2>6, <2>7 DEF FilesOK
  <2> QED
    BY <1>1, <1>3, <1>4, <1>7, <2>5, <2>8, FilesAre
<1> QED
  BY <1>6, <1>7

\* What can be listed are versions that are known.
LEMMA ListingIs ==
    ASSUME WorldInv, NEW d \in Deps PROVE Listing(d) \subseteq Known
<1>1. d \in {"git"} \cup Publications /\ Publications \subseteq {"artifact", "flat", "image"}
  BY DepsAreRefs, SourcesAreTwo, PublicationsAreThree
<1>2. CASE d = "git"
  <2>1. Listing(d) = DOMAIN repo[Lib].clone.releases
    BY <1>2 DEF Listing, AllVersions
  <2> QED
    BY <2>1, LibIsSource DEF WorldInv, RefsOK, CopyOf, Agree, Known, Tagged
<1>3. CASE d # "git"
  <2>1. Listing(d) = DOMAIN published[d]
    BY <1>1, <1>3 DEF Listing, ArtifactVersions, ImageVersions
  <2>2. d \in Publications
    BY <1>1, <1>3
  <2> QED
    BY <2>1, <2>2 DEF Known
<1> QED
  BY <1>2, <1>3

\* Looking versions up, with and without success.
LEMMA LookUpFiles ==
    ASSUME FlowInv, WorldInv, WorldInv', WorldGrows, FilesInv, NEW p \in Clients, NEW d \in Deps,
           LookUp(p, d) \/ StoreVersions(p, d) \/ LookUpFails(p, d)
    PROVE  FilesInv'
<1> DEFINE X == {"found", "todo", "store", "late"}
<1>0. \E Y \in SUBSET X : Moves(p, Y) /\ task[p].at = "look"
  <2>1. /\ {"found", "store"} \in SUBSET X /\ {"found", "todo"} \in SUBSET X
        /\ {"todo", "store", "late"} \in SUBSET X /\ X \in SUBSET X
    OBVIOUS
  <2> HIDE DEF X
  <2>2. CASE LookUp(p, d)
    BY <2>1, <2>2, LookUpDoes DEF FlowInv
  <2>3. CASE StoreVersions(p, d)
    BY <2>1, <2>3, StoreVersionsDoes DEF FlowInv
  <2>4. CASE LookUpFails(p, d)
    BY <2>1, <2>4, LookUpFailsDoes DEF FlowInv, X
  <2> QED
    BY <2>2, <2>3, <2>4
<1>1. /\ task[p].at = "look" /\ OthersStay(p) /\ \A x \in TaskFields \ X : task'[p][x] = task[p][x]
      /\ UNCHANGED <<heads, updates>>
  <2>1. UNCHANGED <<heads, updates>>
    BY DEF LookUp, StoreVersions, LookUpFails, WorkStep
  <2> HIDE DEF X
  <2> QED
    BY <1>0, <2>1 DEF Moves
<1>2. ChangesTypeOK(Values, Labels)' /\ LabelsStay({})
  BY <1>1, ChangesStay DEF FilesInv, WorldGrows
<1>3. Frame({}) /\ FilesOK(p) /\ task[p].id \notin {}
  BY <1>2, FrameIs DEF FilesInv
<1>4. /\ "base" \notin X /\ "seen" \notin X /\ "want" \notin X
      /\ {"at", "again", "kind", "label", "want"} \cap X = {}
      /\ {"at", "kind", "model"} \cap X = {} /\ {"at", "again", "id", "label"} \cap X = {}
      /\ {"at", "again"} \cap X = {} /\ {"at", "kind"} \cap X = {}
  OBVIOUS
<1>5. /\ BaseOK(p)' /\ SeenOK(p)' /\ WantOK(p)' /\ LabelOK(p)' /\ ModelOK(p)' /\ IdOK(p)'
      /\ AgainOK(p)' /\ KindOK(p)'
  <2> HIDE DEF X
  <2> QED
    BY <1>1, <1>3, <1>4, PartsStay
<1>6. task'[p].at = "look"
  BY <1>1, TaskFieldsAre
<1>7. Known \subseteq Known' /\ FoundOK(p) /\ StoreOK(p) /\ TodoOK(p) /\ CacheOK
  BY <1>3 DEF FilesOK, Frame, FilesInv
<1>8. ASSUME FoundOK(p)', StoreOK(p)', TodoOK(p)', CacheOK' PROVE FilesInv'
  <2>1. FilesOK(p)'
    BY <1>5, <1>8 DEF FilesOK
  <2> QED
    BY <1>1, <1>2, <1>3, <1>6, <1>8, <2>1, FilesAre
<1>9. ASSUME NEW y, task'[p].found = Put(task[p].found, d, y), y \subseteq Known
       PROVE  FoundOK(p)' /\ DOMAIN task'[p].found = DOMAIN task[p].found \cup {d}
  <2> DEFINE f == task[p].found
             g == task'[p].found
  <2>1. DOMAIN g = DOMAIN f \cup {d} /\ g[d] = y /\ \A z \in DOMAIN f \ {d} : g[z] = f[z]
    <3>1. g = Put(f, d, y)
      BY <1>9
    <3> HIDE DEF f, g
    <3>2. /\ DOMAIN Put(f, d, y) = DOMAIN f \cup {d} /\ Put(f, d, y)[d] = y
          /\ \A z \in DOMAIN f \ {d} : Put(f, d, y)[z] = f[z]
      BY DEF Put, Over
    <3> QED
      BY <3>1, <3>2
  <2>2. \A z \in DOMAIN g : g[z] \subseteq Known
    <3> HIDE DEF g
    <3> QED
      BY <1>7, <1>9, <2>1 DEF FoundOK
  <2> QED
    BY <1>7, <2>1, <2>2 DEF FoundOK
<1> HIDE DEF X
<1>11. CASE LookUp(p, d)
  <2>1. UNCHANGED cache
    BY <1>11 DEF LookUp
  <2>2. CacheOK'
    BY <1>7, <2>1, CacheStays
  <2>3. d \in task[p].todo \ task[p].store
    BY <1>11, LookUpDoes DEF FlowInv
  <2>4. CASE cache[d] = None
    <3>1. /\ task'[p].found = Put(task[p].found, d, Listing(d)) /\ task'[p].store = task[p].store \cup {d}
          /\ Moves(p, {"found", "store"})
      BY <1>11, <2>4, LookUpDoes DEF FlowInv
    <3>2. task'[p].todo = task[p].todo
      BY <3>1, TaskFieldsAre DEF Moves
    <3>3. FoundOK(p)' /\ DOMAIN task'[p].found = DOMAIN task[p].found \cup {d}
      BY <1>9, <3>1, ListingIs
    <3>4. StoreOK(p)' /\ TodoOK(p)'
      BY <1>1, <1>6, <1>7, <2>3, <3>1, <3>2, <3>3 DEF StoreOK, TodoOK
    <3> QED
      BY <1>8, <2>2, <3>3, <3>4
  <2>5. CASE cache[d] # None
    <3>1. /\ task'[p].found = Put(task[p].found, d, IF cache[d] = Invalid THEN {} ELSE cache[d])
          /\ task'[p].todo = task[p].todo \ {d} /\ Moves(p, {"found", "todo"})
      BY <1>11, <2>5, LookUpDoes DEF FlowInv
    <3>2. task'[p].store = task[p].store
      BY <3>1, TaskFieldsAre DEF Moves
    <3>3. (IF cache[d] = Invalid THEN {} ELSE cache[d]) \subseteq Known
      BY <1>7, <2>5, DepsAreRefs DEF CacheOK
    <3>4. FoundOK(p)' /\ DOMAIN task'[p].found = DOMAIN task[p].found \cup {d}
      BY <1>9, <3>1, <3>3
    <3>5. StoreOK(p)' /\ TodoOK(p)'
      BY <1>1, <1>6, <1>7, <2>3, <3>1, <3>2, <3>4 DEF StoreOK, TodoOK
    <3> QED
      BY <1>8, <2>2, <3>4, <3>5
  <2> QED
    BY <2>4, <2>5
<1>12. CASE StoreVersions(p, d)
  <2>1. /\ d \in task[p].store /\ Moves(p, {"todo", "store", "late"})
        /\ task'[p].todo = task[p].todo \ {d} /\ task'[p].store = task[p].store \ {d}
    BY <1>12, StoreVersionsDoes DEF FlowInv
  <2>2. task'[p].found = task[p].found
    BY <2>1, TaskFieldsAre DEF Moves
  <2>3. cache' = [cache EXCEPT ![d] = task[p].found[d]] /\ task[p].found[d] \subseteq Known
    BY <1>7, <1>12, <2>1 DEF StoreVersions, StoreOK, FoundOK
  <2>4. CacheOK'
    BY <1>7, <2>3, CacheWrites
  <2>5. FoundOK(p)' /\ StoreOK(p)' /\ TodoOK(p)'
    BY <1>1, <1>6, <1>7, <2>1, <2>2 DEF FoundOK, StoreOK, TodoOK
  <2> QED
    BY <1>8, <2>4, <2>5
<1>13. CASE LookUpFails(p, d)
  <2>1. /\ task'[p].found = Put(task[p].found, d, {})
        /\ task'[p].todo = task[p].todo \ {d} /\ task'[p].store = task[p].store \ {d}
    BY <1>13, LookUpFailsDoes DEF FlowInv
  <2>2. cache' = [cache EXCEPT ![d] = Invalid]
    BY <1>13 DEF LookUpFails
  <2>3. CacheOK'
    BY <1>7, <2>2, CacheWrites
  <2>4. FoundOK(p)' /\ DOMAIN task'[p].found = DOMAIN task[p].found \cup {d}
    BY <1>9, <2>1
  <2>5. StoreOK(p)' /\ TodoOK(p)'
    BY <1>1, <1>6, <1>7, <2>1, <2>4 DEF StoreOK, TodoOK
  <2> QED
    BY <1>8, <2>3, <2>4, <2>5
<1> QED
  BY <1>11, <1>12, <1>13

\* What of the file has the label and is not at the newest version that was found.
OutOf(p, l) == {d \in Deps :
    /\ task[p].base[d] # Undefined /\ d \in DOMAIN task[p].found /\ LabelOf[d] = l
    /\ Newest(p, d) \notin {Undefined, task[p].base[d]}}

\* What is written: the files that such a dependency is in, with the new versions
\* (ManifestScanner, DependenciesYamlScanner, BuildYamlScanner).
LEMMA ScanOfIs ==
    ASSUME NEW p, NEW l
    PROVE  /\ DOMAIN ScanOf(p, l) = UNION {FileWith(d) : d \in OutOf(p, l)}
           /\ \A e \in DOMAIN ScanOf(p, l) :
                 ScanOf(p, l)[e] = IF e \in OutOf(p, l) THEN Newest(p, e) ELSE task[p].base[e]
<1> DEFINE b == task[p].base
           M == Outdated(p, InManifest(b), l)
           D == Outdated(p, InDependencies(b), l)
           B == Outdated(p, InBuild(b), l)
           O == OutOf(p, l)
           c(S) == Rewritten(p, S)
<1>1. /\ M = {d \in O : FileOf[d] = "manifest"} /\ D = {d \in O : FileOf[d] = "dependencies"}
      /\ B = {d \in O : FileOf[d] = "build"}
  BY DEF Outdated, InManifest, InDependencies, InBuild, OutOf
<1>2. \A d \in Deps : FileOf[d] \in {"manifest", "dependencies", "build"}
  BY FilesHoldDeps
<1>3. O = M \cup D \cup B /\ O \subseteq Deps
  BY <1>1, <1>2 DEF OutOf
<1>4. \A S : DOMAIN c(S) = UNION {FileWith(d) : d \in S}
             /\ \A e \in DOMAIN c(S) : c(S)[e] = IF e \in S THEN Newest(p, e) ELSE b[e]
  BY DEF Rewritten
<1>5. ScanOf(p, l) = Over(c(M), Over(c(D), c(B)))
  BY DEF ScanOf, ScanManifest, ScanDependencies, ScanBuild
<1>6. /\ \A e \in DOMAIN c(M) : FileOf[e] = "manifest" /\ e \in Deps
      /\ \A e \in DOMAIN c(D) : FileOf[e] = "dependencies" /\ e \in Deps
      /\ \A e \in DOMAIN c(B) : FileOf[e] = "build" /\ e \in Deps
  <2> HIDE DEF M, D, B, O, c
  <2>1. ASSUME NEW S, NEW x, \A d \in S : FileOf[d] = x, NEW e \in DOMAIN c(S)
        PROVE  FileOf[e] = x /\ e \in Deps
    <3>1. e \in UNION {FileWith(d) : d \in S}
      BY <1>4, <2>1
    <3>2. PICK d \in S : e \in FileWith(d)
      BY <3>1
    <3> QED
      BY <2>1, <3>2 DEF FileWith
  <2> QED
    BY <1>1, <2>1
<1>7. /\ \A e \in DOMAIN c(M) : e \in M <=> e \in O
      /\ \A e \in DOMAIN c(D) : e \in D <=> e \in O
      /\ \A e \in DOMAIN c(B) : e \in B <=> e \in O
  <2> HIDE DEF M, D, B, O, c
  <2> QED
    BY <1>1, <1>6
<1>8. DOMAIN ScanOf(p, l) = DOMAIN c(M) \cup DOMAIN c(D) \cup DOMAIN c(B)
  <2> HIDE DEF M, D, B, O, c
  <2> QED
    BY <1>5 DEF Over
<1>9. \A e \in DOMAIN ScanOf(p, l) : \/ (e \in DOMAIN c(M) /\ ScanOf(p, l)[e] = c(M)[e])
                                    \/ (e \in DOMAIN c(D) /\ ScanOf(p, l)[e] = c(D)[e])
                                    \/ (e \in DOMAIN c(B) /\ ScanOf(p, l)[e] = c(B)[e])
  <2> DEFINE W == Over(c(D), c(B))
  <2> HIDE DEF M, D, B, O, c
  <2>1. \A e \in DOMAIN W : \/ (e \in DOMAIN c(D) /\ W[e] = c(D)[e])
                            \/ (e \in DOMAIN c(B) /\ W[e] = c(B)[e])
    BY DEF Over
  <2>2. ScanOf(p, l) = Over(c(M), W)
    BY <1>5
  <2> HIDE DEF W
  <2>3. \A e \in DOMAIN ScanOf(p, l) : \/ (e \in DOMAIN c(M) /\ ScanOf(p, l)[e] = c(M)[e])
                                       \/ (e \in DOMAIN W /\ ScanOf(p, l)[e] = W[e])
    BY <2>2 DEF Over
  <2> TAKE e \in DOMAIN ScanOf(p, l)
  <2>4. CASE e \in DOMAIN W /\ ScanOf(p, l)[e] = W[e]
    BY <2>1, <2>4
  <2> QED
    BY <2>3, <2>4
<1> DEFINE U(S) == UNION {FileWith(d) : d \in S}
<1>10. U(O) = U(M) \cup U(D) \cup U(B)
  <2> HIDE DEF M, D, B, O
  <2> QED
    BY <1>3
<1> HIDE DEF M, D, B, c
<1>11. DOMAIN ScanOf(p, l) = U(O)
  BY <1>4, <1>8, <1>10
<1>12. \A e \in DOMAIN ScanOf(p, l) : ScanOf(p, l)[e] = IF e \in O THEN Newest(p, e) ELSE b[e]
  BY <1>4, <1>7, <1>9
<1> QED
  BY <1>11, <1>12

\* The version that is picked is one of those that were found, and none that the major
\* allows is newer (DependencyProviderImpl.getVersion).
LEMMA NewestIs ==
    ASSUME WorldInv, NEW p, NEW d, task[p].found[d] \subseteq Known
    PROVE  /\ Newest(p, d) \in task[p].found[d] \cup {Undefined}
           /\ \A v \in task[p].found[d] :
                 (Subscribed => v[1] = task[p].major \/ v[1] < task[p].major) => ~Lower(Newest(p, d), v)
<1> DEFINE S == task[p].found[d]
           m == <<task[p].major>>
<1>1. PICK b \in Nat : \A v \in Known : v[1] <= b /\ v[2] <= b /\ v[3] <= b
  BY DEF WorldInv, KnownOK
<1>2. S \in SUBSET Release /\ \A v \in S : v[1] <= b /\ v[2] <= b /\ v[3] <= b
  BY <1>1 DEF WorldInv, KnownOK
<1>3. \E max : Newest(p, d) = GetHighest(S, max) /\ (max = Undefined \/ (Subscribed /\ max = m))
  BY DEF Newest, Pick
<1>4. PICK max : Newest(p, d) = GetHighest(S, max) /\ (max = Undefined \/ (Subscribed /\ max = m))
  BY <1>3
<1> HIDE DEF S, m
<1>5. /\ GetHighest(S, max) \in S \cup {Undefined}
      /\ \A v \in S : max = Undefined \/ <<v[1]>> = max \/ v[1] < max[1] => ~Lower(GetHighest(S, max), v)
  BY <1>2, GetHighestIs
<1>6. m[1] = task[p].major /\ \A x : x = task[p].major => <<x>> = m
  BY DEF m
<1>7. ASSUME NEW v \in S, Subscribed => v[1] = task[p].major \/ v[1] < task[p].major
      PROVE  ~Lower(Newest(p, d), v)
  BY <1>4, <1>5, <1>6, <1>7
<1> QED
  BY <1>4, <1>5, <1>7 DEF S

\* What is written are versions that are known.
LEMMA ScanOfPartial ==
    ASSUME WorldInv, NEW p, NEW l, BaseOK(p), FoundOK(p) PROVE Partial(ScanOf(p, l))
<1>1. DOMAIN ScanOf(p, l) \subseteq Deps
  <2>1. \A d : FileWith(d) \subseteq Deps
    BY DEF FileWith
  <2>2. DOMAIN ScanOf(p, l) = UNION {FileWith(d) : d \in OutOf(p, l)}
    BY ScanOfIs
  <2> QED
    BY <2>1, <2>2
<1>0. \A e \in DOMAIN ScanOf(p, l) :
         ScanOf(p, l)[e] = IF e \in OutOf(p, l) THEN Newest(p, e) ELSE task[p].base[e]
  BY ScanOfIs
<1>2. ASSUME NEW e \in DOMAIN ScanOf(p, l) PROVE ScanOf(p, l)[e] \in Values
  <2>1. CASE e \in OutOf(p, l)
    <3>1. ScanOf(p, l)[e] = Newest(p, e) /\ task[p].found[e] \subseteq Known
      BY <1>0, <1>2, <2>1 DEF OutOf, FoundOK
    <3> QED
      BY <3>1, NewestIs DEF Values
  <2>2. CASE e \notin OutOf(p, l)
    <3>1. ScanOf(p, l)[e] = task[p].base[e]
      BY <1>0, <1>2, <2>2
    <3> QED
      BY <1>1, <3>1 DEF BaseOK, Files
  <2> QED
    BY <2>1, <2>2
<1> QED
  BY <1>1, <1>2 DEF Partial

\* The end of a scan of the main branch: what to write for every label.
LEMMA ScannedBranchFiles ==
    ASSUME FlowInv, WorldInv, WorldInv', WorldGrows, FilesInv, NEW p \in Clients, ScannedBranch(p)
    PROVE  FilesInv'
<1> DEFINE X == {"want", "at"}
           labels == {l \in {LabelOf[d] : d \in Deps} : ScanOf(p, l) # <<>>}
<1>1. /\ task[p].at = "look" /\ task[p].todo = {} /\ ~task[p].again
      /\ \/ Ends(p)
         \/ /\ Moves(p, {"want", "at"})
            /\ task'[p].at = "labels" /\ task'[p].want = [l \in labels |-> ScanOf(p, l)]
  BY ScannedBranchDoes DEF FlowInv
<1>2. UNCHANGED <<heads, updates, cache>>
  BY DEF ScannedBranch, WorkStep
<1>3. ChangesTypeOK(Values, Labels)' /\ CacheOK' /\ LabelsStay({})
  BY <1>2, ChangesStay, CacheStays DEF FilesInv, WorldGrows
<1>4. Frame({}) /\ FilesOK(p) /\ task[p].id \notin {}
  BY <1>3, FrameIs DEF FilesInv
<1>5. task[p].store = {} /\ task[p].again = FALSE
  BY <1>1, <1>4 DEF FilesOK, StoreOK, AgainOK
<1>6. CASE Ends(p)
  BY <1>1, <1>3, <1>4, <1>5, <1>6, DoneOK, FilesAre
<1>7. CASE ~Ends(p)
  <2>1. /\ "base" \notin X /\ "found" \notin X /\ "seen" \notin X
        /\ \A x \in TaskFields \ X : task'[p][x] = task[p][x]
        /\ OthersStay(p)
    BY <1>1, <1>7 DEF Moves
  <2>2. BaseOK(p)' /\ FoundOK(p)' /\ SeenOK(p)'
    <3> HIDE DEF X
    <3> QED
      BY <1>4, <2>1, PartsStay
  <2>3. task'[p].store = {} /\ task'[p].again = FALSE /\ task'[p].at = "labels"
    BY <1>1, <1>5, <1>7, <2>1, TaskFieldsAre
  <2>4. WantOK(p)'
    <3>1. task'[p].want = [l \in labels |-> ScanOf(p, l)] /\ labels \subseteq Labels
      BY <1>1, <1>7 DEF Labels
    <3>2. \A l : Partial(ScanOf(p, l))
      BY <1>4, ScanOfPartial DEF FilesOK
    <3>3. Values \subseteq Values' /\ Labels' = Labels
      BY <1>4, ValuesGrow DEF Frame, Labels
    <3> HIDE DEF labels
    <3> QED
      BY <3>1, <3>2, <3>3 DEF WantOK, Partial
  <2>5. /\ StoreOK(p)' /\ LabelOK(p)' /\ TodoOK(p)' /\ ModelOK(p)' /\ IdOK(p)' /\ AgainOK(p)'
        /\ KindOK(p)'
    BY <2>3 DEF StoreOK, LabelOK, TodoOK, ModelOK, IdOK, AgainOK, KindOK, Post
  <2>6. FilesOK(p)'
    BY <2>2, <2>4, <2>5 DEF FilesOK
  <2> QED
    BY <1>3, <1>4, <2>1, <2>3, <2>6, FilesAre
<1> QED
  BY <1>6, <1>7

\* A label is taken up: the change that has it is scanned in its turn.
LEMMA TakeLabelFiles ==
    ASSUME FlowInv, WorldInv, WorldInv', WorldGrows, FilesInv, NEW p \in Clients,
           NEW l \in DOMAIN task[p].want, TakeLabel(p, l)
    PROVE  FilesInv'
<1> DEFINE X == {"label", "id", "at", "again", "base", "found", "todo"}
           seen == task[p].seen
           existing == {u \in DOMAIN seen : seen[u].label = l}
<1>1. /\ task[p].at = "labels"
      /\ \/ /\ Moves(p, {"label", "at"}) /\ task'[p].label = l /\ task'[p].at = "create"
         \/ \E u \in existing :
            /\ Moves(p, {"label", "id", "at", "again", "base", "found", "todo"})
            /\ task'[p].label = l /\ task'[p].id = u /\ task'[p].at = "look"
            /\ task'[p].again = TRUE /\ task'[p].base = seen[u].file /\ task'[p].found = NoOne
            /\ task'[p].todo = {d \in UsedBy(seen[u].file) : LabelOf[d] = l}
  <2>1. /\ task[p].at = "labels"
        /\ \/ /\ existing = {} /\ Moves(p, {"label", "at"})
              /\ task'[p].label = l /\ task'[p].at = "create" /\ missed' = missed
           \/ \E u \in existing :
              /\ Moves(p, {"label", "id", "at", "again", "base", "found", "todo"})
              /\ task'[p].label = l /\ task'[p].id = u /\ task'[p].at = "look"
              /\ task'[p].again = TRUE /\ task'[p].base = seen[u].file /\ task'[p].found = NoOne
              /\ task'[p].todo = {d \in UsedBy(seen[u].file) : LabelOf[d] = l}
              /\ MissedIf(Lacks(seen[u].file, task[p].want[l]))
    BY TakeLabelDoes DEF FlowInv
  <2> HIDE DEF existing
  <2> QED
    BY <2>1
<1>2. UNCHANGED <<heads, updates, cache>>
  BY DEF TakeLabel, WorkStep
<1>3. ChangesTypeOK(Values, Labels)' /\ CacheOK' /\ LabelsStay({})
  BY <1>2, ChangesStay, CacheStays DEF FilesInv, WorldGrows
<1>4. Frame({}) /\ FilesOK(p) /\ task[p].id \notin {}
  BY <1>3, FrameIs DEF FilesInv
<1>5. task[p].store = {}
  BY <1>1, <1>4 DEF FilesOK, StoreOK
<1>6. OthersStay(p) /\ \A x \in TaskFields \ X : task'[p][x] = task[p][x]
  BY <1>1 DEF Moves
<1>7. "want" \notin X /\ "seen" \notin X
  OBVIOUS
<1>8. WantOK(p)' /\ SeenOK(p)' /\ task'[p].want = task[p].want /\ task'[p].store = {}
  <2>1. WantOK(p)' /\ SeenOK(p)'
    <3> HIDE DEF X
    <3> QED
      BY <1>4, <1>6, <1>7, PartsStay
  <2> QED
    BY <1>5, <1>6, <2>1, TaskFieldsAre
<1>9. l \in Labels /\ l # NoLabel
  BY <1>4, LabelsAre DEF FilesOK, WantOK
<1>10. /\ task'[p].label = l /\ task'[p].at \in {"create", "look"}
  BY <1>1
<1>11. /\ StoreOK(p)' /\ LabelOK(p)' /\ ModelOK(p)' /\ KindOK(p)'
  BY <1>8, <1>10 DEF StoreOK, LabelOK, ModelOK, KindOK
<1>12. CASE task'[p].at = "create"
  <2> DEFINE Y == {"label", "at"}
  <2>1. /\ \A x \in TaskFields \ Y : task'[p][x] = task[p][x]
        /\ "base" \notin Y /\ "found" \notin Y
    BY <1>1, <1>12 DEF Moves
  <2>2. BaseOK(p)' /\ FoundOK(p)'
    <3> HIDE DEF Y
    <3> QED
      BY <1>4, <2>1, PartsStay
  <2>3. task'[p].again = task[p].again
    BY <2>1, TaskFieldsAre
  <2>4. AgainOK(p)' /\ TodoOK(p)' /\ IdOK(p)'
    BY <1>4, <1>12, <2>3 DEF FilesOK, AgainOK, TodoOK, IdOK, Post
  <2>5. FilesOK(p)'
    BY <1>8, <1>11, <2>2, <2>4 DEF FilesOK
  <2> QED
    BY <1>3, <1>4, <1>6, <1>12, <2>5, FilesAre
<1>13. CASE task'[p].at = "look"
  <2>1. PICK u \in existing :
            /\ task'[p].id = u /\ task'[p].again = TRUE /\ task'[p].base = seen[u].file
            /\ task'[p].found = NoOne
            /\ task'[p].todo = {d \in UsedBy(seen[u].file) : LabelOf[d] = l}
    BY <1>1, <1>13
  <2>2. /\ u \in DOMAIN updates /\ seen[u].file \in Files /\ updates[u].label = l
    BY <1>4, <1>9 DEF FilesOK, SeenOK
  <2>3. BaseOK(p)'
    BY <1>4, <2>1, <2>2, ValuesGrow DEF BaseOK, Frame
  <2>4. FoundOK(p)'
    <3>1. DOMAIN NoOne = {}
      BY DEF NoOne
    <3> QED
      BY <2>1, <3>1 DEF FoundOK
  <2>5. TodoOK(p)'
    BY <2>1, UsedByIs DEF TodoOK
  <2>6. IdOK(p)' /\ AgainOK(p)'
    BY <1>2, <1>9, <1>10, <1>13, <2>1, <2>2 DEF IdOK, AgainOK, Post
  <2>7. FilesOK(p)'
    BY <1>8, <1>11, <2>3, <2>4, <2>5, <2>6 DEF FilesOK
  <2> QED
    BY <1>3, <1>4, <1>6, <1>13, <2>7, FilesAre
<1> QED
  BY <1>10, <1>12, <1>13

\* The end of the scan of a change.
LEMMA ScannedUpdateFiles ==
    ASSUME FlowInv, WorldInv, WorldInv', WorldGrows, FilesInv, NEW p \in Clients, ScannedUpdate(p)
    PROVE  FilesInv'
<1> DEFINE X == {"want", "at"}
           l == task[p].label
           content == ScanOf(p, l)
<1>1. /\ task[p].at = "look" /\ task[p].todo = {} /\ task[p].again
      /\ \/ LabelDone(p)
         \/ /\ Moves(p, {"want", "at"})
            /\ task'[p].at = "edit" /\ task'[p].want = Put(task[p].want, l, content)
  BY ScannedUpdateDoes DEF FlowInv
<1>2. UNCHANGED <<heads, updates, cache>>
  BY DEF ScannedUpdate, WorkStep
<1>3. ChangesTypeOK(Values, Labels)' /\ CacheOK' /\ LabelsStay({})
  BY <1>2, ChangesStay, CacheStays DEF FilesInv, WorldGrows
<1>4. Frame({}) /\ FilesOK(p) /\ task[p].id \notin {}
  BY <1>3, FrameIs DEF FilesInv
<1>5. task[p].store = {}
  BY <1>1, <1>4 DEF FilesOK, StoreOK
<1>6. CASE LabelDone(p)
  <2>1. Ends(p) \/ Relabels(p, task[p].kind)
    BY <1>6, LabelDoneDoes DEF FlowInv
  <2> QED
    BY <1>1, <1>3, <1>4, <1>5, <2>1, DoneOK, FilesAre
<1>7. CASE ~LabelDone(p)
  <2>1. /\ "base" \notin X /\ "found" \notin X /\ "seen" \notin X
        /\ \A x \in TaskFields \ X : task'[p][x] = task[p][x]
        /\ OthersStay(p)
    BY <1>1, <1>7 DEF Moves
  <2>2. BaseOK(p)' /\ FoundOK(p)' /\ SeenOK(p)'
    <3> HIDE DEF X
    <3> QED
      BY <1>4, <2>1, PartsStay
  <2>3. /\ task'[p].store = {} /\ task'[p].again = task[p].again /\ task'[p].at = "edit"
        /\ task'[p].label = task[p].label /\ task'[p].id = task[p].id
    BY <1>1, <1>5, <1>7, <2>1, TaskFieldsAre
  <2>4. WantOK(p)' /\ l \in DOMAIN task'[p].want
    <3> DEFINE f == task[p].want
               g == task'[p].want
    <3>1. l \in DOMAIN f /\ DOMAIN f \subseteq Labels /\ \A k \in DOMAIN f : Partial(f[k])
      BY <1>1, <1>4 DEF FilesOK, LabelOK, WantOK
    <3>2. Partial(content)
      BY <1>4, ScanOfPartial DEF FilesOK
    <3>3. g = Put(f, l, content)
      BY <1>1, <1>7
    <3> HIDE DEF f, g, content, l
    <3>4. DOMAIN g = DOMAIN f \cup {l} /\ \A k \in DOMAIN g : g[k] = content \/ (k \in DOMAIN f /\ g[k] = f[k])
      BY <3>3 DEF Put, Over
    <3>5. \A k \in DOMAIN g : Partial(g[k])
      BY <3>1, <3>2, <3>4
    <3>6. Values \subseteq Values' /\ Labels' = Labels
      BY <1>4, ValuesGrow DEF Frame, Labels
    <3>7. DOMAIN g \subseteq Labels /\ l \in DOMAIN g
      BY <3>1, <3>4
    <3> QED
      BY <3>5, <3>6, <3>7 DEF WantOK, Partial, g
  <2>5. IdOK(p)'
    BY <1>1, <1>2, <1>4, <2>3 DEF FilesOK, IdOK
  <2>6. /\ StoreOK(p)' /\ LabelOK(p)' /\ TodoOK(p)' /\ ModelOK(p)' /\ AgainOK(p)' /\ KindOK(p)'
    BY <1>4, <2>3, <2>4 DEF FilesOK, StoreOK, LabelOK, TodoOK, ModelOK, AgainOK, KindOK, Post
  <2>7. FilesOK(p)'
    BY <2>2, <2>4, <2>5, <2>6 DEF FilesOK
  <2> QED
    BY <1>3, <1>4, <2>1, <2>3, <2>7, FilesAre
<1> QED
  BY <1>6, <1>7

\* An upload looks for the change of its label.
LEMMA FindUploadFiles ==
    ASSUME FlowInv, WorldInv, WorldInv', WorldGrows, FilesInv, NEW p \in Clients, FindUpload(p)
    PROVE  FilesInv'
<1> DEFINE X == {"id", "at"}
<1>1. /\ task[p].at = "list" /\ task[p].kind = "upload"
      /\ OthersStay(p) /\ \A x \in TaskFields \ X : task'[p][x] = task[p][x]
      /\ \/ task'[p].at = "create"
         \/ task'[p].at = "edit" /\ task'[p].id \in OpenUpdates /\ updates[task'[p].id].label = task[p].label
  BY FindUploadDoes DEF FlowInv, Moves
<1>2. UNCHANGED <<heads, updates, cache>>
  BY DEF FindUpload, WorkStep
<1>3. ChangesTypeOK(Values, Labels)' /\ CacheOK' /\ LabelsStay({})
  BY <1>2, ChangesStay, CacheStays DEF FilesInv, WorldGrows
<1>4. Frame({}) /\ FilesOK(p) /\ task[p].id \notin {}
  BY <1>3, FrameIs DEF FilesInv
<1>5. "base" \notin X /\ "found" \notin X /\ "seen" \notin X /\ "want" \notin X
  OBVIOUS
<1>6. BaseOK(p)' /\ FoundOK(p)' /\ SeenOK(p)' /\ WantOK(p)'
  <2> HIDE DEF X
  <2> QED
    BY <1>1, <1>4, <1>5, PartsStay
<1>7. /\ task'[p].store = task[p].store /\ task'[p].again = task[p].again
      /\ task'[p].label = task[p].label /\ task'[p].want = task[p].want
  BY <1>1, TaskFieldsAre
<1>8. /\ task[p].store = {} /\ task[p].again = FALSE /\ task[p].label \in DOMAIN task[p].want
      /\ task[p].label # NoLabel
  BY <1>1, <1>4, LabelsAre DEF FilesOK, StoreOK, AgainOK, LabelOK, WantOK, Post
<1>9. IdOK(p)'
  BY <1>1, <1>2, <1>7, <1>8 DEF IdOK, OpenUpdates
<1>10. StoreOK(p)' /\ LabelOK(p)' /\ TodoOK(p)' /\ ModelOK(p)' /\ AgainOK(p)' /\ KindOK(p)'
  BY <1>1, <1>7, <1>8 DEF StoreOK, LabelOK, TodoOK, ModelOK, AgainOK, KindOK, Post
<1>11. FilesOK(p)'
  BY <1>6, <1>9, <1>10 DEF FilesOK
<1> QED
  BY <1>1, <1>3, <1>4, <1>11, FilesAre

-----------------------------------------------------------------------------
\* What is written to a change.

\* Only u changes, and only in what F names.
Sets(u, F) ==
    /\ DOMAIN updates' = DOMAIN updates
    /\ \A w \in DOMAIN updates \ {u} : updates'[w] = updates[w]
    /\ \A x \in ChangeFields \ F : updates'[u][x] = updates[u][x]

\* Each request to Gerrit writes to one change, and to what it names of it.
LEMMA SetHashTagsDoes ==
    ASSUME ChangesInv, NEW u \in DOMAIN updates, NEW l, SetHashTags(u, l)
    PROVE  Sets(u, {"label"}) /\ updates'[u].label = l
<1> DEFINE c == [updates[u] EXCEPT !.label = l]
<1>0. updates[u] = [x \in ChangeFields |-> updates[u][x]]
  BY DEF ChangesInv, ChangesShape
<1>1. updates' = [updates EXCEPT ![u] = c]
  BY DEF SetHashTags
<1>2. c.label = l /\ \A x \in ChangeFields \ {"label"} : c[x] = updates[u][x]
  BY <1>0 DEF ChangeFields
<1> HIDE DEF c
<1>3. DOMAIN updates' = DOMAIN updates /\ updates'[u] = c /\ \A w \in DOMAIN updates \ {u} : updates'[w] = updates[w]
  BY <1>1 DEF ChangesInv, ChangesShape
<1> QED
  BY <1>1, <1>2, <1>3 DEF Sets

\* What MakePublic does.
LEMMA MakePublicDoes ==
    ASSUME ChangesInv, NEW u \in DOMAIN updates, MakePublic(u)
    PROVE  Sets(u, {"private"}) /\ updates'[u].private = FALSE
<1> DEFINE c == [updates[u] EXCEPT !.private = FALSE]
<1>0. updates[u] = [x \in ChangeFields |-> updates[u][x]]
  BY DEF ChangesInv, ChangesShape
<1>1. updates' = [updates EXCEPT ![u] = c]
  BY DEF MakePublic
<1>2. c.private = FALSE /\ \A x \in ChangeFields \ {"private"} : c[x] = updates[u][x]
  BY <1>0 DEF ChangeFields
<1> HIDE DEF c
<1>3. DOMAIN updates' = DOMAIN updates /\ updates'[u] = c /\ \A w \in DOMAIN updates \ {u} : updates'[w] = updates[w]
  BY <1>1 DEF ChangesInv, ChangesShape
<1> QED
  BY <1>1, <1>2, <1>3 DEF Sets

\* What PutEdit does.
LEMMA PutEditDoes ==
    ASSUME ChangesInv, NEW u \in DOMAIN updates, NEW content, PutEdit(u, content)
    PROVE  Sets(u, {"edit"}) /\ updates'[u].edit = Over(content, Edited(u))
<1> DEFINE y == Over(content, Edited(u))
           c == [updates[u] EXCEPT !.edit = y]
<1>0. updates[u] = [x \in ChangeFields |-> updates[u][x]]
  BY DEF ChangesInv, ChangesShape
<1>1. updates' = [updates EXCEPT ![u] = c]
  BY DEF PutEdit
<1> HIDE DEF y
<1>2. c.edit = y /\ \A x \in ChangeFields \ {"edit"} : c[x] = updates[u][x]
  BY <1>0 DEF ChangeFields
<1> HIDE DEF c
<1>3. DOMAIN updates' = DOMAIN updates /\ updates'[u] = c /\ \A w \in DOMAIN updates \ {u} : updates'[w] = updates[w]
  BY <1>1 DEF ChangesInv, ChangesShape
<1> QED
  BY <1>1, <1>2, <1>3 DEF Sets, y

\* What PublishEdit does.
LEMMA PublishEditDoes ==
    ASSUME ChangesInv, NEW u \in DOMAIN updates, PublishEdit(u)
    PROVE  Sets(u, {"file", "edit"}) /\ updates'[u].file = updates[u].edit /\ updates'[u].edit = NoEdit
<1> DEFINE c == [updates[u] EXCEPT !.file = updates[u].edit, !.edit = NoEdit]
<1>0. updates[u] = [x \in ChangeFields |-> updates[u][x]]
  BY DEF ChangesInv, ChangesShape
<1>1. updates' = [updates EXCEPT ![u] = c]
  <2>1. PICK S : updates \in Seq(S)
    BY DEF ChangesInv, ChangesShape
  <2> QED
    BY <1>0, <2>1 DEF PublishEdit
<1>2. /\ c.file = updates[u].edit /\ c.edit = NoEdit
      /\ \A x \in ChangeFields \ {"file", "edit"} : c[x] = updates[u][x]
  BY <1>0 DEF ChangeFields
<1> HIDE DEF c
<1>3. DOMAIN updates' = DOMAIN updates /\ updates'[u] = c /\ \A w \in DOMAIN updates \ {u} : updates'[w] = updates[w]
  BY <1>1 DEF ChangesInv, ChangesShape
<1> QED
  BY <1>1, <1>2, <1>3 DEF Sets

\* What MergeUpdate does.
LEMMA MergeUpdateDoes ==
    ASSUME ChangesInv, NEW u \in DOMAIN updates, MergeUpdate(u)
    PROVE  /\ Sets(u, {"open"}) /\ updates'[u].open = FALSE /\ Mergeable(updates[u])
           /\ heads' = Append(heads, Merged(updates[u]))
<1> DEFINE c == [updates[u] EXCEPT !.open = FALSE]
<1>0. updates[u] = [x \in ChangeFields |-> updates[u][x]]
  BY DEF ChangesInv, ChangesShape
<1>1. /\ updates' = [updates EXCEPT ![u] = c] /\ Mergeable(updates[u])
      /\ heads' = Append(heads, Merged(updates[u]))
  BY DEF MergeUpdate
<1>2. c.open = FALSE /\ \A x \in ChangeFields \ {"open"} : c[x] = updates[u][x]
  BY <1>0 DEF ChangeFields
<1> HIDE DEF c
<1>3. DOMAIN updates' = DOMAIN updates /\ updates'[u] = c /\ \A w \in DOMAIN updates \ {u} : updates'[w] = updates[w]
  BY <1>1 DEF ChangesInv, ChangesShape
<1> QED
  BY <1>1, <1>2, <1>3 DEF Sets

\* What CreateUpdate does.
LEMMA CreateUpdateDoes ==
    ASSUME ChangesInv, NEW who, CreateUpdate(who)
    PROVE  LET n == Len(updates) + 1 IN
           /\ n \notin DOMAIN updates /\ DOMAIN updates' = DOMAIN updates \cup {n}
           /\ \A w \in DOMAIN updates : updates'[w] = updates[w]
           /\ updates'[n].label = NoLabel /\ updates'[n].private = TRUE /\ updates'[n].open = TRUE
           /\ updates'[n].base = Tip /\ updates'[n].file = Tip /\ updates'[n].edit = NoEdit
<1> DEFINE c == [label |-> NoLabel, private |-> TRUE, open |-> TRUE, by |-> who,
                 base |-> Tip, file |-> Tip, edit |-> NoEdit]
<1>1. /\ c.label = NoLabel /\ c.private = TRUE /\ c.open = TRUE /\ c.base = Tip /\ c.file = Tip
      /\ c.edit = NoEdit
  OBVIOUS
<1>2. updates' = Append(updates, c)
  BY DEF CreateUpdate
<1> HIDE DEF c
<1>3. PICK S : updates \in Seq(S)
  BY DEF ChangesInv, ChangesShape
<1>4. updates \in Seq(S \cup {c})
  BY <1>3
<1>5. /\ DOMAIN updates = 1 .. Len(updates) /\ Len(updates) \in Nat
      /\ DOMAIN updates' = 1 .. Len(updates) + 1
      /\ updates'[Len(updates) + 1] = c
      /\ \A u \in 1 .. Len(updates) : updates'[u] = updates[u]
  BY <1>2, <1>4
<1>6. /\ Len(updates) + 1 \notin 1 .. Len(updates)
      /\ 1 .. Len(updates) + 1 = (1 .. Len(updates)) \cup {Len(updates) + 1}
  BY <1>5
<1> QED
  BY <1>1, <1>5, <1>6

\* What the other fields of the change are.
LEMMA FieldsStay ==
    ASSUME NEW u, NEW F, Sets(u, F)
    PROVE  /\ "label" \notin F => updates'[u].label = updates[u].label
           /\ "private" \notin F => updates'[u].private = updates[u].private
           /\ "open" \notin F => updates'[u].open = updates[u].open
           /\ "base" \notin F => updates'[u].base = updates[u].base
           /\ "file" \notin F => updates'[u].file = updates[u].file
           /\ "edit" \notin F => updates'[u].edit = updates[u].edit
BY DEF Sets, ChangeFields

\* The changes go on to hold what is known, if the one that is written does.
LEMMA SetsTyped ==
    ASSUME ChangesTypeOK(Values, Labels), Known \subseteq Known', NEW u \in DOMAIN updates, NEW F,
           Sets(u, F), \A n \in DOMAIN heads' : heads'[n] \in Files',
           {updates'[u].base, updates'[u].file, Edited(u)'} \subseteq Files',
           updates'[u].label \in Labels \cup {NoLabel},
           ~updates'[u].private => updates'[u].label # NoLabel
    PROVE  ChangesTypeOK(Values, Labels)'
<1>1. Files \subseteq Files' /\ Labels' = Labels
  BY ValuesGrow DEF Labels
<1>2. ASSUME NEW w \in DOMAIN updates \ {u}
      PROVE  /\ {updates'[w].base, updates'[w].file, Edited(w)'} \subseteq Files'
             /\ updates'[w].label \in Labels \cup {NoLabel}
             /\ ~updates'[w].private => updates'[w].label # NoLabel
  <2>1. updates'[w] = updates[w]
    BY DEF Sets
  <2>2. Edited(w)' = Edited(w)
    BY <2>1 DEF Edited
  <2>3. /\ {updates[w].base, updates[w].file, Edited(w)} \subseteq Files
        /\ updates[w].label \in Labels \cup {NoLabel}
        /\ ~updates[w].private => updates[w].label # NoLabel
    BY DEF ChangesTypeOK, Files
  <2> QED
    BY <1>1, <2>1, <2>2, <2>3
<1>3. DOMAIN updates' = DOMAIN updates
  BY DEF Sets
<1>4. \A w \in DOMAIN updates' :
          /\ {updates'[w].base, updates'[w].file, Edited(w)'} \subseteq Files'
          /\ updates'[w].label \in Labels' \cup {NoLabel}
          /\ ~updates'[w].private => updates'[w].label # NoLabel
  BY <1>1, <1>2, <1>3
<1> QED
  BY <1>4 DEF ChangesTypeOK, Files

\* The files at the commits are what they were.
LEMMA HeadsStayTyped ==
    ASSUME ChangesTypeOK(Values, Labels), Known \subseteq Known', UNCHANGED heads
    PROVE  \A n \in DOMAIN heads' : heads'[n] \in Files'
BY ValuesGrow DEF ChangesTypeOK, Files

\* What is known of a change, and of the main branch.
LEMMA ChangeIsTyped ==
    ASSUME ChangesTypeOK(Values, Labels), NEW u \in DOMAIN updates
    PROVE  /\ updates[u].base \in Files /\ updates[u].file \in Files /\ Edited(u) \in Files
           /\ updates[u].label \in Labels \cup {NoLabel}
           /\ ~updates[u].private => updates[u].label # NoLabel
BY DEF ChangesTypeOK, Files

\* The newest file.
LEMMA TipIsTyped ==
    ASSUME WorldInv, ChangesTypeOK(Values, Labels) PROVE Tip \in Files
<1>1. Len(heads) \in DOMAIN heads
  <2>1. PICK S : heads \in Seq(S)
    BY DEF WorldInv, HeadsLen
  <2>2. Len(heads) = Main(App) /\ Main(App) \in Nat \ {0}
    BY LibIsSource DEF WorldInv, HeadsLen, RefsOK, RefsWithin, Main
  <2> QED
    BY <2>1, <2>2
<1> QED
  BY <1>1 DEF ChangesTypeOK, Files, Tip

\* One task goes on that has written to a change or made one.
LEMMA FilesWritten ==
    ASSUME FilesInv, NEW p \in Clients, OthersStay(p), NEW Y, Frame(Y), FilesOK(p)',
           \A q \in Clients \ {p} : task[q].at = "label" => task[q].id \notin Y,
           task'[p].at = "label" => \A q \in Clients \ {p} : task[q].at = "label" => task[q].id # task'[p].id,
           ChangesTypeOK(Values, Labels)', CacheOK'
    PROVE  FilesInv'
<1>1. \A q \in Clients \ {p} : task'[q] = task[q]
  BY DEF OthersStay
<1>2. \A q \in Clients \ {p} : FilesOK(q)'
  <2> TAKE q \in Clients \ {p}
  <2>1. \A x \in TaskFields \ {"late"} : task'[q][x] = task[q][x]
    BY <1>1
  <2>2. q \in Clients /\ FilesOK(q) /\ (task[q].at = "label" => task[q].id \notin Y)
    BY DEF FilesInv
  <2> QED
    BY <2>1, <2>2, FilesStay
<1>3. OwnLabels'
  <2> SUFFICES ASSUME NEW q \in Clients, NEW r \in Clients, q # r, task'[q].at = "label", task'[r].at = "label"
               PROVE  task'[q].id # task'[r].id
    BY DEF OwnLabels
  <2>1. CASE q # p /\ r # p
    BY <1>1, <2>1 DEF FilesInv, OwnLabels
  <2>2. CASE q = p
    BY <1>1, <2>2
  <2>3. CASE r = p
    BY <1>1, <2>3
  <2> QED
    BY <2>1, <2>2, <2>3
<1>4. \A q \in Clients : FilesOK(q)'
  BY <1>2
<1> QED
  BY <1>3, <1>4 DEF FilesInv

\* A change is created for a label; it has none yet.
LEMMA CreateFiles ==
    ASSUME FlowInv, ChangesInv, WorldInv, WorldInv', WorldGrows, FilesInv, NEW p \in Clients, Create(p)
    PROVE  FilesInv'
<1> DEFINE X == {"id", "at"}
<1>0. PICK n : n = Len(updates) + 1
  OBVIOUS
<1>1. /\ task[p].at = "create" /\ CreateUpdate(task[p].kind)
      /\ OthersStay(p) /\ \A x \in TaskFields \ X : task'[p][x] = task[p][x]
      /\ task'[p].at = "label" /\ task'[p].id = n
  BY <1>0, CreateDoes DEF FlowInv, Moves
<1>2. UNCHANGED <<heads, cache>>
  BY DEF Create, WorkStep
<1>3. /\ n \notin DOMAIN updates /\ DOMAIN updates' = DOMAIN updates \cup {n}
      /\ \A w \in DOMAIN updates : updates'[w] = updates[w]
      /\ updates'[n].label = NoLabel /\ updates'[n].private = TRUE /\ updates'[n].open = TRUE
      /\ updates'[n].base = Tip /\ updates'[n].file = Tip /\ updates'[n].edit = NoEdit
  BY <1>0, <1>1, CreateUpdateDoes
<1>4. LabelsStay({}) /\ Known \subseteq Known' /\ CacheOK'
  BY <1>2, <1>3, CacheStays DEF LabelsStay, FilesInv, WorldGrows
<1>5. Frame({}) /\ FilesOK(p) /\ task[p].id \notin {} /\ Files \subseteq Files' /\ Labels' = Labels
  BY <1>4, FrameIs, ValuesGrow DEF FilesInv, Labels
<1>6. ChangesTypeOK(Values, Labels)'
  <2>1. \A m \in DOMAIN heads' : heads'[m] \in Files'
    BY <1>2, <1>4, HeadsStayTyped DEF FilesInv
  <2>2. Tip \in Files
    BY TipIsTyped DEF FilesInv
  <2>3. {updates'[n].base, updates'[n].file, Edited(n)'} \subseteq Files'
    BY <1>3, <1>5, <2>2 DEF Edited
  <2>4. \A w \in DOMAIN updates :
          /\ {updates'[w].base, updates'[w].file, Edited(w)'} \subseteq Files'
          /\ updates'[w].label \in Labels \cup {NoLabel}
          /\ ~updates'[w].private => updates'[w].label # NoLabel
    <3> TAKE w \in DOMAIN updates
    <3>1. updates'[w] = updates[w] /\ Edited(w)' = Edited(w)
      BY <1>3 DEF Edited
    <3> QED
      BY <1>5, <3>1, ChangeIsTyped DEF FilesInv
  <2>5. \A w \in DOMAIN updates' :
          /\ {updates'[w].base, updates'[w].file, Edited(w)'} \subseteq Files'
          /\ updates'[w].label \in Labels' \cup {NoLabel}
          /\ ~updates'[w].private => updates'[w].label # NoLabel
    BY <1>3, <1>5, <2>3, <2>4
  <2> QED
    BY <2>1, <2>5 DEF ChangesTypeOK, Files
<1>7. "base" \notin X /\ "found" \notin X /\ "seen" \notin X /\ "want" \notin X
  OBVIOUS
<1>8. BaseOK(p)' /\ FoundOK(p)' /\ SeenOK(p)' /\ WantOK(p)'
  <2> HIDE DEF X
  <2> QED
    BY <1>1, <1>5, <1>7, PartsStay
<1>9. /\ task'[p].store = task[p].store /\ task'[p].again = task[p].again
      /\ task'[p].label = task[p].label /\ task'[p].want = task[p].want
  BY <1>1, TaskFieldsAre
<1>10. task[p].store = {} /\ task[p].label \in DOMAIN task[p].want /\ task[p].again \in BOOLEAN
  BY <1>1, <1>5 DEF FilesOK, StoreOK, LabelOK, AgainOK
<1>11. n \in DOMAIN updates'
  BY <1>3
<1>12. /\ StoreOK(p)' /\ LabelOK(p)' /\ TodoOK(p)' /\ ModelOK(p)' /\ AgainOK(p)' /\ KindOK(p)' /\ IdOK(p)'
  BY <1>1, <1>3, <1>9, <1>10, <1>11 DEF StoreOK, LabelOK, TodoOK, ModelOK, AgainOK, KindOK, IdOK, Post
<1>13. FilesOK(p)'
  BY <1>8, <1>12 DEF FilesOK
<1>14. \A q \in Clients \ {p} : task[q].at = "label" => task[q].id # task'[p].id
  BY <1>1, <1>3 DEF FilesInv, FilesOK, IdOK
<1> QED
  BY <1>1, <1>4, <1>5, <1>6, <1>13, <1>14, FilesWritten

\* The change gets its label.
LEMMA LabelUpdateFiles ==
    ASSUME FlowInv, ChangesInv, WorldInv, WorldInv', WorldGrows, FilesInv, NEW p \in Clients, LabelUpdate(p)
    PROVE  FilesInv'
<1>0. PICK u : u = task[p].id
  OBVIOUS
<1> DEFINE X == {"at"}
           Y == {u}
<1>1. /\ task[p].at = "label" /\ SetHashTags(u, task[p].label)
      /\ OthersStay(p) /\ (\A x \in TaskFields \ X : task'[p][x] = task[p][x])
      /\ task'[p].at = "show"
  BY <1>0, LabelUpdateDoes DEF FlowInv, Moves
<1>2. UNCHANGED <<heads, cache>>
  BY DEF LabelUpdate, WorkStep
<1>3. /\ FilesOK(p) /\ u \in DOMAIN updates /\ updates[u].label = NoLabel
      /\ task[p].store = {} /\ task[p].label \in DOMAIN task[p].want /\ task[p].again \in BOOLEAN
      /\ task[p].label \in Labels /\ task[p].label # NoLabel
  BY <1>0, <1>1, LabelsAre DEF FilesInv, FilesOK, IdOK, StoreOK, LabelOK, AgainOK, WantOK
<1>4. Sets(u, {"label"}) /\ updates'[u].label = task[p].label
  BY <1>1, <1>3, SetHashTagsDoes
<1>5. LabelsStay(Y) /\ Known \subseteq Known' /\ CacheOK'
  BY <1>2, <1>3, <1>4, CacheStays DEF LabelsStay, Sets, FilesInv, WorldGrows
<1>6. Frame(Y) /\ Files \subseteq Files' /\ Labels' = Labels
  BY <1>5, FrameIs, ValuesGrow DEF Labels
<1>7. ChangesTypeOK(Values, Labels)'
  <2>1. \A m \in DOMAIN heads' : heads'[m] \in Files'
    BY <1>2, <1>5, HeadsStayTyped DEF FilesInv
  <2>2. /\ updates'[u].base = updates[u].base /\ updates'[u].file = updates[u].file
        /\ updates'[u].edit = updates[u].edit
    BY <1>4, FieldsStay
  <2>3. Edited(u)' = Edited(u)
    BY <2>2 DEF Edited
  <2>4. {updates'[u].base, updates'[u].file, Edited(u)'} \subseteq Files'
    BY <1>3, <1>6, <2>2, <2>3, ChangeIsTyped DEF FilesInv
  <2> QED
    BY <1>3, <1>4, <1>5, <2>1, <2>4, SetsTyped DEF FilesInv
<1>8. "base" \notin X /\ "found" \notin X /\ "want" \notin X
  OBVIOUS
<1>9. /\ task'[p].store = task[p].store /\ task'[p].again = task[p].again
      /\ task'[p].label = task[p].label /\ task'[p].want = task[p].want
      /\ task'[p].base = task[p].base /\ task'[p].found = task[p].found /\ task'[p].seen = task[p].seen
      /\ task'[p].id = task[p].id
  BY <1>1, TaskFieldsAre
<1>10. BaseOK(p)' /\ FoundOK(p)' /\ SeenOK(p)' /\ WantOK(p)'
  <2>0. Values \subseteq Values'
    BY <1>5, ValuesGrow
  <2>1. BaseOK(p)' /\ FoundOK(p)' /\ WantOK(p)'
    BY <1>3, <1>5, <1>6, <1>9, <2>0 DEF FilesOK, BaseOK, FoundOK, WantOK, Partial
  <2>2. SeenOK(p)'
    BY <1>3, <1>5, <1>6, <1>9 DEF FilesOK, SeenOK, LabelsStay
  <2> QED
    BY <2>1, <2>2
<1>11. u \in DOMAIN updates'
  BY <1>3, <1>4 DEF Sets
<1>12. /\ StoreOK(p)' /\ LabelOK(p)' /\ TodoOK(p)' /\ ModelOK(p)' /\ AgainOK(p)' /\ KindOK(p)' /\ IdOK(p)'
  BY <1>0, <1>1, <1>3, <1>4, <1>9, <1>11 DEF StoreOK, LabelOK, TodoOK, ModelOK, AgainOK, KindOK, IdOK, Post
<1>13. FilesOK(p)'
  BY <1>10, <1>12 DEF FilesOK
<1>14. \A q \in Clients \ {p} : task[q].at = "label" => task[q].id \notin Y
  BY <1>0, <1>1 DEF FilesInv, OwnLabels
<1> HIDE DEF Y
<1> QED
  BY <1>1, <1>5, <1>6, <1>7, <1>13, <1>14, FilesWritten

\* The change is shown to all.
LEMMA ShowUpdateFiles ==
    ASSUME FlowInv, ChangesInv, WorldInv, WorldInv', WorldGrows, FilesInv, NEW p \in Clients, ShowUpdate(p)
    PROVE  FilesInv'
<1>0. PICK u : u = task[p].id
  OBVIOUS
<1> DEFINE X == {"at"}
<1>1. /\ task[p].at = "show" /\ MakePublic(u)
      /\ OthersStay(p) /\ (\A x \in TaskFields \ X : task'[p][x] = task[p][x])
      /\ task'[p].at = "edit"
  BY <1>0, ShowUpdateDoes DEF FlowInv, Moves
<1>2. UNCHANGED <<heads, cache>>
  BY DEF ShowUpdate, WorkStep
<1>3. /\ FilesOK(p) /\ u \in DOMAIN updates /\ updates[u].label = task[p].label
      /\ task[p].store = {} /\ task[p].label \in DOMAIN task[p].want /\ task[p].again \in BOOLEAN
      /\ task[p].label # NoLabel
  BY <1>0, <1>1 DEF FilesInv, FilesOK, IdOK, StoreOK, LabelOK, AgainOK
<1>4. Sets(u, {"private"}) /\ updates'[u].private = FALSE
  BY <1>1, <1>3, MakePublicDoes
<1>5. /\ updates'[u].base = updates[u].base /\ updates'[u].file = updates[u].file
      /\ updates'[u].edit = updates[u].edit /\ updates'[u].label = updates[u].label
  BY <1>4, FieldsStay
<1>6. LabelsStay({}) /\ Known \subseteq Known' /\ CacheOK'
  BY <1>2, <1>3, <1>4, <1>5, CacheStays DEF LabelsStay, Sets, FilesInv, WorldGrows
<1>7. Frame({}) /\ task[p].id \notin {} /\ Files \subseteq Files' /\ Labels' = Labels
  BY <1>6, FrameIs, ValuesGrow DEF Labels
<1>8. ChangesTypeOK(Values, Labels)'
  <2>1. \A m \in DOMAIN heads' : heads'[m] \in Files'
    BY <1>2, <1>6, HeadsStayTyped DEF FilesInv
  <2>2. Edited(u)' = Edited(u)
    BY <1>5 DEF Edited
  <2>3. {updates'[u].base, updates'[u].file, Edited(u)'} \subseteq Files'
        /\ updates'[u].label \in Labels \cup {NoLabel} /\ updates'[u].label # NoLabel
    BY <1>3, <1>5, <1>7, <2>2, ChangeIsTyped DEF FilesInv
  <2> QED
    BY <1>3, <1>4, <1>6, <2>1, <2>3, SetsTyped DEF FilesInv
<1>9. "base" \notin X /\ "found" \notin X /\ "seen" \notin X /\ "want" \notin X
  OBVIOUS
<1>10. BaseOK(p)' /\ FoundOK(p)' /\ SeenOK(p)' /\ WantOK(p)'
  <2> HIDE DEF X
  <2> QED
    BY <1>1, <1>3, <1>7, <1>9, PartsStay
<1>11. /\ task'[p].store = task[p].store /\ task'[p].again = task[p].again
      /\ task'[p].label = task[p].label /\ task'[p].want = task[p].want /\ task'[p].id = task[p].id
  BY <1>1, TaskFieldsAre
<1>12. u \in DOMAIN updates'
  BY <1>3, <1>4 DEF Sets
<1>13. /\ StoreOK(p)' /\ LabelOK(p)' /\ TodoOK(p)' /\ ModelOK(p)' /\ AgainOK(p)' /\ KindOK(p)' /\ IdOK(p)'
  BY <1>0, <1>1, <1>3, <1>5, <1>11, <1>12 DEF StoreOK, LabelOK, TodoOK, ModelOK, AgainOK, KindOK, IdOK, Post
<1>14. FilesOK(p)'
  BY <1>10, <1>13 DEF FilesOK
<1> QED
  BY <1>1, <1>6, <1>7, <1>8, <1>14, FilesAre

\* What is written over a file.
LEMMA OverIsTyped == ASSUME NEW c, Partial(c), NEW f \in Files PROVE Over(c, f) \in Files
BY DEF Partial, Files, Over

\* The label of a change, and its files but for F, are what they were.
LEMMA LabelsStayPut ==
    ASSUME NEW u \in DOMAIN updates, NEW F, Sets(u, F), "label" \notin F PROVE LabelsStay({})
BY FieldsStay DEF Sets, LabelsStay

\* The content is put into the edit of the change, unless nothing is to be done.
LEMMA EditUpdateFiles ==
    ASSUME FlowInv, ChangesInv, WorldInv, WorldInv', WorldGrows, FilesInv, NEW p \in Clients, EditUpdate(p)
    PROVE  FilesInv'
<1>0. PICK u, content : u = task[p].id /\ content = task[p].want[task[p].label]
  OBVIOUS
<1> DEFINE X == {"at"}
<1>1. /\ task[p].at = "edit"
      /\ \/ /\ PutEdit(u, content)
            /\ Moves(p, {"at"}) /\ task'[p].at = "publish"
         \/ UNCHANGED updates /\ LabelDone(p)
  BY <1>0, EditUpdateDoes DEF FlowInv
<1>2. UNCHANGED <<heads, cache>>
  BY DEF EditUpdate, WorkStep
<1>3. /\ FilesOK(p) /\ u \in DOMAIN updates /\ updates[u].label = task[p].label
      /\ task[p].store = {} /\ task[p].label \in DOMAIN task[p].want /\ task[p].again \in BOOLEAN
      /\ task[p].label # NoLabel /\ Partial(content)
  BY <1>0, <1>1 DEF FilesInv, FilesOK, IdOK, StoreOK, LabelOK, AgainOK, WantOK
<1>4. Known \subseteq Known' /\ CacheOK' /\ ChangesTypeOK(Values, Labels)
  BY <1>2, CacheStays DEF FilesInv, WorldGrows
<1>5. CASE UNCHANGED updates /\ LabelDone(p)
  <2>1. ChangesTypeOK(Values, Labels)' /\ LabelsStay({})
    BY <1>2, <1>4, <1>5, ChangesStay
  <2>2. Frame({}) /\ task[p].id \notin {}
    BY <2>1, FrameIs
  <2>3. Ends(p) \/ Relabels(p, task[p].kind)
    BY <1>5, LabelDoneDoes DEF FlowInv
  <2> QED
    BY <1>3, <1>4, <2>1, <2>2, <2>3, DoneOK, FilesAre
<1>6. CASE PutEdit(u, content) /\ Moves(p, {"at"}) /\ task'[p].at = "publish"
  <2>1. Sets(u, {"edit"}) /\ updates'[u].edit = Over(content, Edited(u))
    BY <1>3, <1>6, PutEditDoes
  <2>2. /\ updates'[u].base = updates[u].base /\ updates'[u].file = updates[u].file
        /\ updates'[u].private = updates[u].private /\ updates'[u].label = updates[u].label
    BY <2>1, FieldsStay
  <2>3. LabelsStay({})
    BY <1>3, <2>1, LabelsStayPut
  <2>4. Frame({}) /\ task[p].id \notin {} /\ Files \subseteq Files'
    BY <1>4, <2>3, FrameIs, ValuesGrow
  <2>5. ChangesTypeOK(Values, Labels)'
    <3>1. \A m \in DOMAIN heads' : heads'[m] \in Files'
      BY <1>2, <1>4, HeadsStayTyped
    <3>2. /\ updates[u].base \in Files /\ updates[u].file \in Files /\ Edited(u) \in Files
          /\ updates[u].label \in Labels \cup {NoLabel}
          /\ ~updates[u].private => updates[u].label # NoLabel
      BY <1>3, <1>4, ChangeIsTyped
    <3>3. Edited(u)' \in Files
      <4>1. updates'[u].edit \in Files
        BY <1>3, <2>1, <3>2, OverIsTyped
      <4> QED
        BY <2>2, <3>2, <4>1 DEF Edited
    <3>4. /\ {updates'[u].base, updates'[u].file, Edited(u)'} \subseteq Files'
          /\ updates'[u].label \in Labels \cup {NoLabel}
          /\ ~updates'[u].private => updates'[u].label # NoLabel
      BY <2>2, <2>4, <3>2, <3>3
    <3> QED
      BY <1>3, <1>4, <2>1, <3>1, <3>4, SetsTyped
  <2>6. "base" \notin X /\ "found" \notin X /\ "seen" \notin X /\ "want" \notin X
    OBVIOUS
  <2>7. OthersStay(p) /\ \A x \in TaskFields \ X : task'[p][x] = task[p][x]
    BY <1>6 DEF Moves
  <2>8. BaseOK(p)' /\ FoundOK(p)' /\ SeenOK(p)' /\ WantOK(p)'
    <3> HIDE DEF X
    <3> QED
      BY <1>3, <2>4, <2>6, <2>7, PartsStay
  <2>9. /\ task'[p].store = task[p].store /\ task'[p].again = task[p].again
        /\ task'[p].label = task[p].label /\ task'[p].want = task[p].want /\ task'[p].id = task[p].id
    BY <2>7, TaskFieldsAre
  <2>10. u \in DOMAIN updates'
    BY <1>3, <2>1 DEF Sets
  <2>11. /\ StoreOK(p)' /\ LabelOK(p)' /\ TodoOK(p)' /\ ModelOK(p)' /\ AgainOK(p)' /\ KindOK(p)' /\ IdOK(p)'
    BY <1>0, <1>3, <1>6, <2>2, <2>9, <2>10
       DEF StoreOK, LabelOK, TodoOK, ModelOK, AgainOK, KindOK, IdOK, Post
  <2>12. FilesOK(p)'
    BY <2>8, <2>11 DEF FilesOK
  <2> QED
    BY <1>4, <1>6, <2>4, <2>5, <2>7, <2>12, FilesAre
<1> QED
  BY <1>1, <1>5, <1>6

\* The edit becomes the content of the change, or is refused.
LEMMA PublishUpdateFiles ==
    ASSUME FlowInv, ChangesInv, WorldInv, WorldInv', WorldGrows, FilesInv, NEW p \in Clients, PublishUpdate(p)
    PROVE  FilesInv'
<1>0. PICK u : u = task[p].id
  OBVIOUS
<1>1. /\ task[p].at = "publish"
      /\ \/ CanPublish(u) /\ PublishEdit(u) /\ LabelDone(p)
         \/ ~CanPublish(u) /\ UNCHANGED updates /\ WorkFails(p)
  BY <1>0, PublishUpdateDoes DEF FlowInv
<1>2. UNCHANGED <<heads, cache>>
  BY DEF PublishUpdate, WorkStep
<1>3. FilesOK(p) /\ u \in DOMAIN updates /\ task[p].store = {}
  BY <1>0, <1>1 DEF FilesInv, FilesOK, IdOK, StoreOK
<1>4. Known \subseteq Known' /\ CacheOK' /\ ChangesTypeOK(Values, Labels)
  BY <1>2, CacheStays DEF FilesInv, WorldGrows
<1>5. PICK kind : Ends(p) \/ Relabels(p, kind)
  BY <1>1, LabelDoneDoes, WorkFailsDoes DEF FlowInv
<1>6. ChangesTypeOK(Values, Labels)' /\ LabelsStay({})
  <2>1. CASE CanPublish(u) /\ PublishEdit(u)
    <3>1. Sets(u, {"file", "edit"}) /\ updates'[u].file = updates[u].edit /\ updates'[u].edit = NoEdit
      BY <1>3, <2>1, PublishEditDoes
    <3>2. /\ updates'[u].base = updates[u].base
          /\ updates'[u].private = updates[u].private /\ updates'[u].label = updates[u].label
      BY <3>1, FieldsStay
    <3>3. LabelsStay({})
      BY <1>3, <3>1, LabelsStayPut
    <3>4. Files \subseteq Files'
      BY <1>4, ValuesGrow
    <3>5. \A m \in DOMAIN heads' : heads'[m] \in Files'
      BY <1>2, <1>4, HeadsStayTyped
    <3>6. /\ updates[u].base \in Files /\ Edited(u) \in Files /\ Edited(u) = updates[u].edit
          /\ updates[u].label \in Labels \cup {NoLabel}
          /\ ~updates[u].private => updates[u].label # NoLabel
      BY <1>3, <1>4, <2>1, ChangeIsTyped DEF CanPublish, Edited
    <3>7. Edited(u)' = updates'[u].file
      BY <3>1 DEF Edited
    <3>8. /\ {updates'[u].base, updates'[u].file, Edited(u)'} \subseteq Files'
          /\ updates'[u].label \in Labels \cup {NoLabel}
          /\ ~updates'[u].private => updates'[u].label # NoLabel
      BY <3>1, <3>2, <3>4, <3>6, <3>7
    <3> QED
      BY <1>3, <1>4, <3>1, <3>3, <3>5, <3>8, SetsTyped
  <2>2. CASE UNCHANGED updates
    BY <1>2, <1>4, <2>2, ChangesStay
  <2> QED
    BY <1>1, <2>1, <2>2
<1>7. Frame({}) /\ task[p].id \notin {}
  BY <1>6, FrameIs
<1> QED
  BY <1>3, <1>4, <1>5, <1>6, <1>7, DoneOK, FilesAre

\* A request of the work fails.
LEMMA WorkRejectedFiles ==
    ASSUME FlowInv, WorldInv, WorldInv', WorldGrows, FilesInv, NEW p \in Clients, WorkRejected(p)
    PROVE  FilesInv'
<1>1. /\ UNCHANGED <<heads, updates, cache>>
      /\ WorkFails(p)
      /\ task[p].at # "look" \/ task[p].store = {}
  BY DEF WorkRejected, gerritVars
<1>2. ChangesTypeOK(Values, Labels)' /\ CacheOK' /\ LabelsStay({})
  BY <1>1, ChangesStay, CacheStays DEF FilesInv, WorldGrows
<1>3. Frame({}) /\ FilesOK(p) /\ task[p].id \notin {}
  BY <1>2, FrameIs DEF FilesInv
<1>4. task[p].store = {}
  BY <1>1, <1>3 DEF FilesOK, StoreOK
<1>5. Ends(p) \/ Relabels(p, "orphan")
  BY <1>1, WorkFailsDoes DEF FlowInv
<1> QED
  BY <1>2, <1>3, <1>4, <1>5, DoneOK, FilesAre

\* Nothing but the task of p changes, which is another than one on files.
LEMMA OtherFiles ==
    ASSUME WorldInv, WorldInv', WorldGrows, FilesInv, UNCHANGED <<heads, updates>>, CacheOK',
           NEW p \in Clients, OthersStay(p), FilesOK(p)', task'[p].at # "label"
    PROVE  FilesInv'
<1>1. ChangesTypeOK(Values, Labels)' /\ LabelsStay({})
  BY ChangesStay DEF FilesInv, WorldGrows
<1>2. Frame({})
  BY <1>1, FrameIs
<1> QED
  BY <1>1, <1>2, FilesAre

\* The tasks stay as they are, but for what is late.
LEMMA TasksStayFiles ==
    ASSUME FilesInv, Frame({}), ChangesTypeOK(Values, Labels)', CacheOK',
           \A p \in Clients : \A x \in TaskFields \ {"late"} : task'[p][x] = task[p][x]
    PROVE  FilesInv'
<1>1. \A p \in Clients : FilesOK(p)'
  <2> TAKE p \in Clients
  <2>1. FilesOK(p) /\ task[p].id \notin {}
    BY DEF FilesInv
  <2> QED
    BY <2>1, FilesStay
<1>2. \A p \in Clients : task'[p].at = task[p].at /\ task'[p].id = task[p].id
  BY TaskFieldsAre
<1>3. OwnLabels'
  BY <1>2 DEF FilesInv, OwnLabels
<1> QED
  BY <1>1, <1>3 DEF FilesInv

\* The application moves on.
LEMMA MergedIsTyped ==
    ASSUME WorldInv, ChangesTypeOK(Values, Labels), NEW u \in DOMAIN updates
    PROVE  Merged(updates[u]) \in Files
<1>1. Tip \in Files /\ updates[u].file \in Files
  BY TipIsTyped, ChangeIsTyped
<1> QED
  BY <1>1 DEF Merged, Files

\* A commit brings a file.
LEMMA HeadsGrowTyped ==
    ASSUME WorldInv, ChangesTypeOK(Values, Labels), Known \subseteq Known', NEW f \in Files,
           heads' = Append(heads, f)
    PROVE  \A n \in DOMAIN heads' : heads'[n] \in Files'
<1>1. PICK S : heads \in Seq(S)
  BY DEF WorldInv, HeadsLen
<1>2. heads \in Seq(S \cup {f})
  BY <1>1
<1>3. \A n \in DOMAIN heads' : heads'[n] = f \/ (n \in DOMAIN heads /\ heads'[n] = heads[n])
  BY <1>2
<1> QED
  BY <1>3, ValuesGrow DEF ChangesTypeOK, Files

\* A change is merged.
LEMMA MergeProposalFiles ==
    ASSUME ChangesInv, WorldInv, WorldInv', WorldGrows, FilesInv, NEW u \in DOMAIN updates, MergeProposal(u)
    PROVE  FilesInv'
<1>1. /\ Sets(u, {"open"}) /\ updates'[u].open = FALSE /\ Mergeable(updates[u])
      /\ heads' = Append(heads, Merged(updates[u])) /\ UNCHANGED <<cache, task>>
  BY MergeUpdateDoes DEF MergeProposal, AppMoves, Outside
<1>2. ChangesTypeOK(Values, Labels) /\ Known \subseteq Known' /\ CacheOK'
  BY <1>1, CacheStays DEF FilesInv, WorldGrows
<1>3. /\ updates'[u].base = updates[u].base /\ updates'[u].file = updates[u].file
      /\ updates'[u].edit = updates[u].edit /\ updates'[u].label = updates[u].label
      /\ updates'[u].private = updates[u].private
  BY <1>1, FieldsStay
<1>4. Edited(u)' = Edited(u)
  BY <1>3 DEF Edited
<1>5. \A m \in DOMAIN heads' : heads'[m] \in Files'
  BY <1>1, <1>2, MergedIsTyped, HeadsGrowTyped
<1>6. /\ {updates'[u].base, updates'[u].file, Edited(u)'} \subseteq Files'
      /\ updates'[u].label \in Labels \cup {NoLabel}
      /\ ~updates'[u].private => updates'[u].label # NoLabel
  BY <1>2, <1>3, <1>4, ValuesGrow, ChangeIsTyped
<1>7. ChangesTypeOK(Values, Labels)'
  BY <1>1, <1>2, <1>5, <1>6, SetsTyped
<1>8. LabelsStay({})
  BY <1>1, LabelsStayPut
<1>9. Frame({})
  BY <1>8, FrameIs
<1> QED
  BY <1>1, <1>2, <1>7, <1>9, TasksStayFiles

\* Someone else changes a file.
LEMMA EditAppFiles ==
    ASSUME WorldInv, WorldInv', WorldGrows, FilesInv, NEW d \in Deps, EditApp(d)
    PROVE  FilesInv'
<1> DEFINE f == [Tip EXCEPT ![d] = IF @ = Undefined THEN First ELSE Undefined]
<1>1. heads' = Append(heads, f) /\ UNCHANGED <<updates, cache, task>>
  BY DEF EditApp, AppMoves, Outside
<1>2. ChangesTypeOK(Values, Labels) /\ Known \subseteq Known' /\ CacheOK' /\ LabelsStay({})
  BY <1>1, CacheStays DEF FilesInv, WorldGrows, LabelsStay
<1>3. Tip \in Files /\ {Undefined, First} \subseteq Values
  BY <1>2, TipIsTyped DEF WorldInv, KnownOK, Values
<1>4. f \in Files
  BY <1>3 DEF Files
<1> HIDE DEF f
<1>5. \A m \in DOMAIN heads' : heads'[m] \in Files'
  BY <1>1, <1>2, <1>4, HeadsGrowTyped
<1>6. \A u : Edited(u)' = Edited(u)
  BY <1>1 DEF Edited
<1>7. \A u \in DOMAIN updates' :
          /\ {updates'[u].base, updates'[u].file, Edited(u)'} \subseteq Files'
          /\ updates'[u].label \in Labels \cup {NoLabel}
          /\ ~updates'[u].private => updates'[u].label # NoLabel
  BY <1>1, <1>2, <1>6, ValuesGrow, ChangeIsTyped
<1>8. ChangesTypeOK(Values, Labels)'
  BY <1>5, <1>7 DEF ChangesTypeOK, Files, Labels
<1>9. Frame({})
  BY <1>2, FrameIs
<1> QED
  BY <1>1, <1>2, <1>8, <1>9, TasksStayFiles

-----------------------------------------------------------------------------
\* The steps that have nothing to do with files.

\* The stages of a task that is not at work on files.
Plain == {"ensure", "dependencies", "read", "replace", "invalidate", "lookup", "ask", "scan",
          "next", "publications", "tag", "apply"}

\* A task that is not at work on files, and goes on not to be.
LEMMA PlainOK ==
    ASSUME NEW p \in Clients, Frame({}), FilesOK(p), task[p].at \in Plain,
           \A x \in TaskFields \ {"at", "todo", "tried", "late", "version"} : task'[p][x] = task[p][x],
           task'[p].at \in Plain,
           task'[p].at = "read" => task'[p].todo \subseteq Deps,
           task'[p].at = "scan" => task'[p].kind = "push"
    PROVE  FilesOK(p)' /\ task'[p].at # "label"
<1> DEFINE X == {"at", "todo", "tried", "late", "version"}
<1>1. "base" \notin X /\ "found" \notin X /\ "seen" \notin X /\ "want" \notin X
  OBVIOUS
<1>2. BaseOK(p)' /\ FoundOK(p)' /\ SeenOK(p)' /\ WantOK(p)'
  <2>1. \A x \in TaskFields \ X : task'[p][x] = task[p][x]
    OBVIOUS
  <2>2. task[p].id \notin {}
    OBVIOUS
  <2> HIDE DEF X
  <2> QED
    BY <1>1, <2>1, <2>2, PartsStay
<1>3. task'[p].store = task[p].store /\ task'[p].again = task[p].again
  BY TaskFieldsAre
<1>4. task[p].store = {} /\ task[p].again = FALSE
  BY DEF FilesOK, StoreOK, AgainOK, Plain, Post
<1>5. StoreOK(p)' /\ LabelOK(p)' /\ TodoOK(p)' /\ ModelOK(p)' /\ AgainOK(p)' /\ KindOK(p)' /\ IdOK(p)'
  BY <1>3, <1>4 DEF StoreOK, LabelOK, TodoOK, ModelOK, AgainOK, KindOK, IdOK, Post, Plain
<1> QED
  BY <1>2, <1>5 DEF FilesOK, Plain

\* A task that has just been started.
LEMMA StartedOK ==
    ASSUME NEW p \in Clients, NEW X, Starts(p, X),
           X \subseteq {"kind", "at", "source", "ref", "version", "major", "sha", "todo"},
           task'[p].at \in {"ensure", "next", "apply"}
    PROVE  FilesOK(p)' /\ task'[p].at # "label"
<1>1. /\ task'[p].base = Idle.base /\ task'[p].seen = Idle.seen /\ task'[p].found = Idle.found
      /\ task'[p].want = Idle.want /\ task'[p].store = Idle.store /\ task'[p].again = Idle.again
  <2>1. {"base", "seen", "found", "want", "store", "again"} \subseteq TaskFields \ X
    BY TaskFieldsAre
  <2>2. \A x \in {"base", "seen", "found", "want", "store", "again"} : task'[p][x] = Idle[x]
    BY <2>1 DEF Starts
  <2> QED
    BY <2>2
<1>2. /\ task'[p].base = NoFile /\ task'[p].seen = <<>> /\ task'[p].found = <<>>
      /\ task'[p].want = <<>> /\ task'[p].store = {} /\ task'[p].again = FALSE
  BY <1>1 DEF Idle, NoOne
<1>3. DOMAIN <<>> = {}
  OBVIOUS
<1>4. NoFile \in Files'
  BY DEF NoFile, Files, Values
<1>5. BaseOK(p)' /\ FoundOK(p)' /\ SeenOK(p)' /\ WantOK(p)'
  BY <1>2, <1>3, <1>4 DEF BaseOK, FoundOK, SeenOK, WantOK
<1>6. StoreOK(p)' /\ LabelOK(p)' /\ TodoOK(p)' /\ ModelOK(p)' /\ AgainOK(p)' /\ KindOK(p)' /\ IdOK(p)'
  BY <1>2 DEF StoreOK, LabelOK, TodoOK, ModelOK, AgainOK, KindOK, IdOK, Post
<1> QED
  BY <1>5, <1>6 DEF FilesOK

\* An event of Gerrit or a request starts a task.
LEMMA StartFiles ==
    ASSUME FlowInv, WorldInv, WorldInv', WorldGrows, FilesInv, NEW p \in Clients,
           \/ Deliver(p)
           \/ \E m \in 1 .. 3 : AddMajor(p, m)
           \/ \E m \in 1 .. 3, sha \in 1 .. Main(Lib) : RequestRelease(p, m, sha)
    PROVE  FilesInv'
<1>1. /\ \E X : Starts(p, X) /\ X \subseteq {"kind", "at", "source", "ref", "version", "major", "sha", "todo"}
      /\ task'[p].at \in {"ensure", "next", "apply"}
      /\ UNCHANGED <<updates, heads, cache>>
  <2>1. CASE Deliver(p)
    <3>1. /\ Starts(p, {"kind", "at", "source", "ref", "version"}) /\ task'[p].at = "ensure"
          /\ UNCHANGED <<updates, heads, cache>>
      BY <2>1, DeliverDoes DEF FlowInv
    <3> QED
      BY <3>1
  <2>2. CASE \E m \in 1 .. 3 : AddMajor(p, m)
    <3>1. /\ Starts(p, {"kind", "at", "major", "todo"}) /\ task'[p].at = "apply"
          /\ UNCHANGED <<updates, heads, cache>>
      BY <2>2, AddMajorDoes DEF FlowInv
    <3> QED
      BY <3>1
  <2>3. CASE \E m \in 1 .. 3, sha \in 1 .. Main(Lib) : RequestRelease(p, m, sha)
    <3>1. /\ Starts(p, {"kind", "at", "major", "sha"}) /\ task'[p].at = "next"
          /\ UNCHANGED <<updates, heads, cache>>
      BY <2>3, RequestReleaseDoes DEF FlowInv
    <3> QED
      BY <3>1
  <2> QED
    BY <2>1, <2>2, <2>3
<1>2. OthersStay(p) /\ FilesOK(p)' /\ task'[p].at # "label"
  BY <1>1, StartedOK DEF Starts
<1>3. CacheOK'
  BY <1>1, CacheStays DEF FilesInv, WorldGrows
<1> QED
  BY <1>1, <1>2, <1>3, OtherFiles

\* /update-content brings a file of its own.
LEMMA UploadContentFiles ==
    ASSUME FlowInv, WorldInv, WorldInv', WorldGrows, FilesInv, NEW p \in Clients,
           NEW d \in Deps, NEW v \in Tagged, UploadContent(p, d, v)
    PROVE  FilesInv'
<1> DEFINE X == {"kind", "at", "label", "want"}
<1>0. PICK f : f = [Tip EXCEPT ![d] = v]
  OBVIOUS
<1>1. /\ Starts(p, X)
      /\ task'[p].kind = "upload" /\ task'[p].at = "list" /\ task'[p].label = LabelOf[d]
      /\ task'[p].want = [l \in {LabelOf[d]} |-> f]
      /\ UNCHANGED <<updates, heads, cache>>
  <2>1. /\ task[p].kind = "none" /\ Starts(p, {"kind", "at", "label", "want"})
        /\ task'[p].kind = "upload" /\ task'[p].at = "list" /\ task'[p].label = LabelOf[d]
        /\ task'[p].want = [l \in {LabelOf[d]} |-> [Tip EXCEPT ![d] = v]]
        /\ UNCHANGED <<updates, heads, releaseVars, repo, cache, op, missed, majorValues, stream>>
    BY UploadContentDoes DEF FlowInv
  <2> QED
    BY <1>0, <2>1
<1>2. f \in Files
  <2>1. Tip \in Files /\ v \in Values
    BY TipIsTyped DEF FilesInv, Values, Known
  <2> QED
    BY <1>0, <2>1 DEF Files
<1>3. Values \subseteq Values' /\ Labels' = Labels
  BY ValuesGrow DEF WorldGrows, Labels
<1>4. WantOK(p)'
  <2>1. DOMAIN f = Deps /\ (\A e \in DOMAIN f : f[e] \in Values') /\ LabelOf[d] \in Labels'
    BY <1>2, <1>3 DEF Partial, Files, Labels
  <2> QED
    BY <1>1, <1>2, <1>3, <2>1 DEF WantOK, Partial, Files
<1>5. /\ task'[p].base = Idle.base /\ task'[p].seen = Idle.seen /\ task'[p].found = Idle.found
      /\ task'[p].store = Idle.store /\ task'[p].again = Idle.again
  <2>1. {"base", "seen", "found", "store", "again"} \subseteq TaskFields \ X
    BY TaskFieldsAre
  <2>2. \A x \in {"base", "seen", "found", "store", "again"} : task'[p][x] = Idle[x]
    BY <1>1, <2>1 DEF Starts
  <2> QED
    BY <2>2
<1>6. /\ task'[p].base = NoFile /\ task'[p].seen = <<>> /\ task'[p].found = <<>>
      /\ task'[p].store = {} /\ task'[p].again = FALSE
  BY <1>5 DEF Idle, NoOne
<1>7. DOMAIN <<>> = {} /\ NoFile \in Files'
  BY DEF NoFile, Files, Values
<1>8. BaseOK(p)' /\ FoundOK(p)' /\ SeenOK(p)'
  BY <1>6, <1>7 DEF BaseOK, FoundOK, SeenOK
<1>9. StoreOK(p)' /\ LabelOK(p)' /\ TodoOK(p)' /\ ModelOK(p)' /\ AgainOK(p)' /\ KindOK(p)' /\ IdOK(p)'
  BY <1>1, <1>6 DEF StoreOK, LabelOK, TodoOK, ModelOK, AgainOK, KindOK, IdOK, Post
<1>10. FilesOK(p)' /\ OthersStay(p) /\ CacheOK'
  BY <1>1, <1>4, <1>8, <1>9, CacheStays DEF FilesOK, Starts, FilesInv, WorldGrows
<1> QED
  BY <1>1, <1>10, OtherFiles

\* A push is handled, up to its scan; releases and majors go on.
LEMMA PlainFiles ==
    ASSUME FlowInv, WorldInv, WorldInv', WorldGrows, FilesInv, NEW p \in Clients,
           \/ EnsurePushed(p) \/ ReadDependencies(p) \/ ReadIndex(p) \/ ReplaceIndex(p)
           \/ FindUsers(p) \/ AskScan(p) \/ PushRejected(p)
           \/ ChooseVersion(p) \/ Publish(p) \/ SetTag(p) \/ ReleaseRejected(p)
           \/ \E s \in Sources : ApplyMajor(p, s)
    PROVE  FilesInv'
<1>1. UNCHANGED <<heads, updates, cache>>
  BY DEF EnsurePushed, ReadDependencies, ReadIndex, ReplaceIndex, FindUsers, AskScan, PushRejected,
         ChooseVersion, Publish, SetTag, ReleaseRejected, ApplyMajor, PushStep, ReleaseStep, gerritVars
<1>2. /\ LabelsStay({}) /\ CacheOK'
  BY <1>1, CacheStays DEF FilesInv, WorldGrows, LabelsStay
<1>3. Frame({}) /\ FilesOK(p)
  BY <1>2, FrameIs DEF FilesInv
<1>4. \/ Ends(p)
      \/ /\ task[p].at \in Plain /\ OthersStay(p)
         /\ \A x \in TaskFields \ {"at", "todo", "tried", "late", "version"} : task'[p][x] = task[p][x]
         /\ task'[p].at \in Plain
         /\ task'[p].at = "read" => task'[p].todo \subseteq Deps
         /\ task'[p].at = "scan" => task'[p].kind = "push"
  <2>1. CASE EnsurePushed(p)
    BY <2>1, EnsurePushedDoes DEF FlowInv, Moves, Plain
  <2>2. CASE ReadDependencies(p)
    <3>1. /\ task[p].at = "dependencies" /\ Moves(p, {"at", "todo"}) /\ task'[p].at = "read"
          /\ task'[p].todo \subseteq Deps
      BY <2>2, ReadDependenciesDoes, UsedByIs DEF FlowInv
    <3> QED
      BY <3>1 DEF Moves, Plain
  <2>3. CASE ReadIndex(p)
    BY <2>3, ReadIndexDoes DEF FlowInv, Moves, Plain
  <2>4. CASE ReplaceIndex(p)
    BY <2>4, ReplaceIndexDoes DEF FlowInv
  <2>5. CASE FindUsers(p)
    BY <2>5, FindUsersDoes DEF FlowInv, Moves, Plain
  <2>6. CASE AskScan(p)
    <3>1. /\ task[p].at = "ask" /\ task[p].kind = "push" /\ Moves(p, {"at"}) /\ task'[p].at = "scan"
      BY <2>6, AskScanDoes DEF FlowInv
    <3>2. task'[p].kind = task[p].kind
      BY <3>1, TaskFieldsAre DEF Moves
    <3> QED
      BY <3>1, <3>2 DEF Moves, Plain
  <2>7. CASE PushRejected(p)
    BY <2>7, PushRejectedDoes DEF FlowInv, Moves, Plain
  <2>8. CASE ChooseVersion(p) \/ Publish(p) \/ SetTag(p) \/ ReleaseRejected(p)
    <3>1. Ends(p) \/ (Moves(p, {"at", "version"}) /\ task'[p].at \in {"publications", "tag"})
      BY <2>8, ReleaseDoes DEF FlowInv
    <3>2. CASE ReleaseRejected(p)
      BY <3>2, EndEnds DEF ReleaseRejected, FlowInv
    <3>3. CASE ChooseVersion(p) \/ Publish(p) \/ SetTag(p)
      <4>1. task[p].at \in Plain
        BY <3>3 DEF ChooseVersion, Publish, SetTag, ReleaseStep, At, Plain
      <4> QED
        BY <3>1, <4>1 DEF Moves, Plain
    <3> QED
      BY <2>8, <3>2, <3>3
  <2>9. CASE \E s \in Sources : ApplyMajor(p, s)
    <3>1. (Ends(p) \/ Moves(p, {"todo"})) /\ task[p].at = "apply"
      BY <2>9, ApplyMajorDoes DEF FlowInv
    <3>2. Moves(p, {"todo"}) => task'[p].at = task[p].at
      BY TaskFieldsAre DEF Moves
    <3> QED
      BY <3>1, <3>2 DEF Moves, Plain
  <2> QED
    BY <2>1, <2>2, <2>3, <2>4, <2>5, <2>6, <2>7, <2>8, <2>9
<1>5. OthersStay(p) /\ FilesOK(p)' /\ task'[p].at # "label"
  <2>1. CASE Ends(p)
    <3>1. task'[p].at = "done"
      BY <2>1 DEF Ends, Idle
    <3> QED
      BY <2>1, <3>1, IdleOK DEF Ends
  <2>2. CASE ~Ends(p)
    BY <1>3, <1>4, <2>2, PlainOK
  <2> QED
    BY <2>1, <2>2
<1> QED
  BY <1>1, <1>2, <1>5, OtherFiles

\* The cached lists are dropped, and those read before are late.
LEMMA InvalidateFiles ==
    ASSUME FlowInv, WorldInv, WorldInv', WorldGrows, FilesInv, NEW p \in Clients, Invalidate(p)
    PROVE  FilesInv'
<1>1. /\ UNCHANGED <<heads, updates>>
      /\ cache' = [r \in Refs |-> IF r \in ReleasedRefs THEN None ELSE cache[r]]
  BY DEF Invalidate, PushStep, gerritVars
<1>2. CacheOK'
  BY <1>1 DEF CacheOK, FilesInv, WorldGrows
<1>3. ChangesTypeOK(Values, Labels)' /\ LabelsStay({})
  BY <1>1, ChangesStay DEF FilesInv, WorldGrows
<1>4. Frame({})
  BY <1>3, FrameIs
<1>5. /\ task[p].at = "invalidate"
      /\ \A q \in Clients : /\ \A x \in TaskFields \ {"at", "late"} : task'[q][x] = task[q][x]
                            /\ q # p => task'[q].at = task[q].at
      /\ task'[p].at = "lookup"
  BY InvalidateDoes DEF FlowInv
<1>6. \A q \in Clients : FilesOK(q)'
  <2> TAKE q \in Clients
  <2>1. FilesOK(q) /\ task[q].id \notin {}
    BY DEF FilesInv
  <2>2. CASE q = p
    BY <1>4, <1>5, <2>1, <2>2, PlainOK DEF Plain
  <2>3. CASE q # p
    <3>1. \A x \in TaskFields \ {"late"} : task'[q][x] = task[q][x]
      BY <1>5, <2>3
    <3> QED
      BY <1>4, <2>1, <3>1, FilesStay
  <2> QED
    BY <2>2, <2>3
<1>7. OwnLabels'
  <2>1. \A q \in Clients : task'[q].id = task[q].id /\ (task'[q].at = "label" => task[q].at = "label")
    BY <1>5, TaskFieldsAre
  <2> QED
    BY <2>1 DEF FilesInv, OwnLabels
<1> QED
  BY <1>2, <1>3, <1>6, <1>7 DEF FilesInv

\* What happens to no task; and a restart, which leaves none.
LEMMA RestFiles ==
    ASSUME WorldInv, WorldInv', WorldGrows, FilesInv,
           \/ UNCHANGED vars \/ MergeLib \/ PushTopic \/ \E m \in 1 .. 3 : CreatePatch(m)
           \/ \E d \in Refs : CacheExpires(d)
           \/ \E o \in Ops : BeginScan(o)
           \/ \E c \in calls : Land(c)
           \/ Restart \/ \E c \in calls : UploadFails(c)
    PROVE  FilesInv'
<1>1. UNCHANGED <<heads, updates>>
  BY DEF vars, gerritVars, MergeLib, PushTopic, CreatePatch, CacheExpires, BeginScan, Land, Restart,
         UploadFails, Restarted
<1>2. CacheOK'
  <2>1. CASE \E d \in Refs : CacheExpires(d)
    <3>1. PICK d \in Refs : cache' = [cache EXCEPT ![d] = None]
      BY <2>1 DEF CacheExpires
    <3>2. CacheOK /\ Known \subseteq Known'
      BY DEF FilesInv, WorldGrows
    <3> QED
      BY <3>1, <3>2, CacheWrites
  <2>2. CASE UNCHANGED cache
    BY <2>2, CacheStays DEF FilesInv, WorldGrows
  <2>3. UNCHANGED cache \/ \E d \in Refs : CacheExpires(d)
    BY DEF vars, MergeLib, PushTopic, CreatePatch, Outside, BeginScan, Land, Restart, UploadFails, Restarted
  <2> QED
    BY <2>1, <2>2, <2>3
<1>3. ChangesTypeOK(Values, Labels)' /\ LabelsStay({})
  BY <1>1, ChangesStay DEF FilesInv, WorldGrows
<1>4. Frame({})
  BY <1>3, FrameIs
<1>5. CASE UNCHANGED task
  BY <1>2, <1>3, <1>4, <1>5, TasksStayFiles
<1>6. CASE task' = [p \in Clients |-> Idle]
  <2>1. \A p \in Clients : task'[p] = Idle /\ Idle.at = "done"
    BY <1>6 DEF Idle
  <2>2. OwnLabels'
    BY <2>1 DEF OwnLabels
  <2> QED
    BY <1>2, <1>3, <2>1, <2>2, IdleOK DEF FilesInv
<1>7. UNCHANGED task \/ task' = [p \in Clients |-> Idle]
  BY DEF vars, MergeLib, PushTopic, CreatePatch, Outside, CacheExpires, BeginScan, Land, Restart,
         UploadFails, Restarted
<1> QED
  BY <1>5, <1>6, <1>7

\* Every step.
LEMMA NextFiles ==
    ASSUME FlowInv, ChangesInv, WorldInv, WorldInv', WorldGrows, FilesInv, [Next]_vars PROVE FilesInv'
<1>1. CASE \E p \in Clients : \/ ReadModel(p) \/ ListUpdates(p) \/ ScannedBranch(p) \/ ScannedUpdate(p)
                              \/ FindUpload(p)
                              \/ \E d \in Deps : LookUp(p, d) \/ StoreVersions(p, d) \/ LookUpFails(p, d)
                              \/ \E l \in DOMAIN task[p].want : TakeLabel(p, l)
  BY <1>1, ReadModelFiles, ListUpdatesFiles, ScannedBranchFiles, ScannedUpdateFiles, FindUploadFiles,
     LookUpFiles, TakeLabelFiles
<1>2. CASE \E p \in Clients : \/ Create(p) \/ LabelUpdate(p) \/ ShowUpdate(p) \/ EditUpdate(p)
                              \/ PublishUpdate(p) \/ WorkRejected(p)
  BY <1>2, CreateFiles, LabelUpdateFiles, ShowUpdateFiles, EditUpdateFiles, PublishUpdateFiles,
     WorkRejectedFiles
<1>3. CASE \E p \in Clients : \/ Deliver(p)
                              \/ \E m \in 1 .. 3 : AddMajor(p, m)
                              \/ \E m \in 1 .. 3, sha \in 1 .. Main(Lib) : RequestRelease(p, m, sha)
                              \/ \E d \in Deps, v \in Tagged : UploadContent(p, d, v)
  BY <1>3, StartFiles, UploadContentFiles
<1>4. CASE \E p \in Clients : \/ EnsurePushed(p) \/ ReadDependencies(p) \/ ReadIndex(p) \/ ReplaceIndex(p)
                              \/ FindUsers(p) \/ AskScan(p) \/ PushRejected(p)
                              \/ ChooseVersion(p) \/ Publish(p) \/ SetTag(p) \/ ReleaseRejected(p)
                              \/ \E s \in Sources : ApplyMajor(p, s)
  BY <1>4, PlainFiles
<1>5. CASE \E p \in Clients : Invalidate(p)
  BY <1>5, InvalidateFiles
<1>6. CASE (\E u \in DOMAIN updates : MergeProposal(u)) \/ \E d \in Deps : EditApp(d)
  BY <1>6, MergeProposalFiles, EditAppFiles
<1>7. CASE \/ UNCHANGED vars \/ MergeLib \/ PushTopic \/ \E m \in 1 .. 3 : CreatePatch(m)
           \/ \E d \in Refs : CacheExpires(d)
           \/ \E o \in Ops : BeginScan(o)
           \/ \E c \in calls : Land(c)
           \/ Restart \/ \E c \in calls : UploadFails(c)
  BY <1>7, RestFiles
<1> QED
  BY <1>1, <1>2, <1>3, <1>4, <1>5, <1>6, <1>7 DEF Next, Step

\* At first all files have the release that was announced.
LEMMA InitFiles == Init => FilesInv
<1> SUFFICES ASSUME Init PROVE FilesInv
  OBVIOUS
<1> DEFINE file == [d \in Deps |-> First]
<1>1. /\ heads = <<file>> /\ updates = <<>> /\ cache = [d \in Refs |-> IF d = "flat" THEN {} ELSE {First}]
      /\ \A p \in Clients : task[p] = Idle
  BY DEF Init
<1>2. First \in Known
  BY InitWorld DEF WorldInv, KnownOK
<1>3. file \in Files
  BY <1>2 DEF Files, Values
<1> HIDE DEF file
<1>4. (\A n \in DOMAIN heads : heads[n] \in Files) /\ DOMAIN updates = {}
  BY <1>1, <1>3
<1>5. ChangesTypeOK(Values, Labels)
  BY <1>4 DEF ChangesTypeOK, Files
<1>6. CacheOK
  BY <1>1, <1>2 DEF CacheOK
<1>7. OwnLabels
  BY <1>1 DEF OwnLabels, Idle
<1>8. ASSUME NEW p \in Clients PROVE FilesOK(p)
  <2>1. /\ task[p].base = NoFile /\ task[p].seen = <<>> /\ task[p].found = <<>> /\ task[p].want = <<>>
        /\ task[p].store = {} /\ task[p].at = "done" /\ task[p].again = FALSE
    BY <1>1 DEF Idle, NoOne
  <2>2. DOMAIN <<>> = {} /\ NoFile \in Files
    BY DEF NoFile, Files, Values
  <2> QED
    BY <2>1, <2>2 DEF FilesOK, BaseOK, SeenOK, FoundOK, StoreOK, WantOK, LabelOK, TodoOK, ModelOK, IdOK,
                      AgainOK, KindOK, Post
<1> QED
  BY <1>5, <1>6, <1>7, <1>8 DEF FilesInv

-----------------------------------------------------------------------------
\* Types.

\* The index goes on to hold references of sources: what is registered for the
\* application are dependencies of a file.
LEMMA NextIndexTypes == ASSUME DSTypeOK, FilesInv, [Next]_vars PROVE DSTypeOK'
<1>1. CASE \E p \in Clients : ReadIndex(p)
  <2>1. PICK p \in Clients : ReadExisting(p, App, task[p].todo) /\ task[p].at = "read"
    BY <1>1 DEF ReadIndex, PushStep, At
  <2>2. task[p].todo \subseteq Refs
    BY <2>1, DepsAreRefs DEF FilesInv, FilesOK, TodoOK
  <2> QED
    BY <2>1, <2>2, LibIsSource DEF DSTypeOK, ReadExisting
<1>2. CASE \E p \in Clients : ReplaceIndex(p)
  <2>1. PICK p \in Clients : Replace(p)
    BY <1>2 DEF ReplaceIndex
  <2> DEFINE a == asked[p]
  <2>2. a.source \in Sources /\ a.old \subseteq Refs /\ a.new \subseteq Refs
    BY <2>1 DEF DSTypeOK, Replace
  <2>3. bySource' \in [Sources -> SUBSET Refs] /\ torn' \subseteq Sources
    BY <2>1, <2>2 DEF DSTypeOK, Replace
  <2>4. byRef' \in [Refs -> SUBSET Sources]
    BY <2>1, <2>2 DEF DSTypeOK, Replace
  <2>5. asked' \in [Clients -> [source : Sources \cup {Nobody}, old : SUBSET Refs, new : SUBSET Refs]]
    BY <2>1 DEF DSTypeOK, Replace, Nothing
  <2> QED
    BY <2>3, <2>4, <2>5 DEF DSTypeOK
<1>3. CASE Restart \/ (\E c \in calls : UploadFails(c)) \/ (\E p \in Clients : PushRejected(p))
  <2>1. PICK C \in SUBSET Clients : Abandon(C)
    BY <1>3 DEF Restart, UploadFails, Restarted, PushRejected
  <2> QED
    BY <2>1 DEF DSTypeOK, Abandon, Nothing
<1>4. CASE UNCHANGED dsVars
  BY <1>4 DEF dsVars, DSTypeOK
<1>5. CASE UNCHANGED vars
  BY <1>4, <1>5 DEF vars
<1>6. CASE /\ Next /\ ~UNCHANGED vars
           /\ ~\E p \in Clients : ReadIndex(p) \/ ReplaceIndex(p) \/ PushRejected(p)
           /\ ~(Restart \/ \E c \in calls : UploadFails(c))
  BY <1>4, <1>6, OutsideLeavesIndex, FlowLeavesIndex, ScanLeavesIndex DEF Next, Step
<1> QED
  BY <1>1, <1>2, <1>3, <1>5, <1>6

\* At first the application uses all of its dependencies.
LEMMA InitIndexTypes == Init => DSTypeOK
<1> SUFFICES ASSUME Init PROVE DSTypeOK
  OBVIOUS
<1> DEFINE initial == [s \in Sources |-> IF s = App THEN Deps ELSE {}]
<1>1. DSInit(initial) /\ initial \in [Sources -> SUBSET Refs]
  BY DepsAreRefs DEF Init
<1> HIDE DEF initial
<1> QED
  BY <1>1 DEF DSInit, DSTypeOK, Nothing

TypesInv == FlowInv /\ LineInv /\ ChangesInv /\ WorldInv /\ FilesInv /\ DSTypeOK

\* All of it together goes on to hold, and says what the property says.
LEMMA NextTypes == TypesInv /\ [Next]_vars => TypesInv' /\ WorldGrows
<1> SUFFICES ASSUME TypesInv, [Next]_vars PROVE TypesInv' /\ WorldGrows
  OBVIOUS
<1>1. FlowInv' /\ LineInv' /\ ChangesInv'
  BY NextFlowInv, NextScanInv DEF TypesInv
<1>2. WorldInv' /\ WorldGrows
  BY NextWorld DEF TypesInv
<1>3. FilesInv'
  BY <1>2, NextFiles DEF TypesInv
<1>4. DSTypeOK'
  BY NextIndexTypes DEF TypesInv
<1> QED
  BY <1>1, <1>2, <1>3, <1>4 DEF TypesInv

\* What TypeOK says.
LEMMA TypesAre == TypesInv => TypeOK
<1> SUFFICES ASSUME TypesInv PROVE TypeOK
  OBVIOUS
<1>1. promise \in [Ops -> {"unused", "waiting", "running", "fulfilled", "rejected"}]
  BY DEF TypesInv, LineInv, ESInv, ESTypeOK
<1>2. \A s \in Sources : repo[s].clone.main \in 1 .. Main(s)
  BY DEF TypesInv, WorldInv, RefsOK, CopyOf, Main
<1>3. Len(heads) = Main(App)
  BY DEF TypesInv, WorldInv, HeadsLen
<1>4. /\ op \in [Clients -> Ops \cup {None}]
      /\ \A p \in Clients : op[p] # None => task[p].kind = "push"
  BY DEF TypesInv, LineInv, OpTypeOK, FlowInv, TaskInv
<1>5. ChangesTypeOK({Undefined} \cup (UNION {DOMAIN published[k] : k \in Publications}) \cup Tagged,
                    {LabelOf[d] : d \in Deps})
  <2>1. {Undefined} \cup (UNION {DOMAIN published[k] : k \in Publications}) \cup Tagged = Values
    BY DEF Values, Known
  <2>2. ChangesTypeOK(Values, Labels)
    BY DEF TypesInv, FilesInv
  <2> QED
    BY <2>1, <2>2 DEF Labels
<1> QED
  BY <1>1, <1>2, <1>3, <1>4, <1>5 DEF TypesInv, TypeOK

\* The first state is as it should be.
LEMMA InitTypes == Init => TypesInv
BY InitFlowInv, InitScanInv, InitWorld, InitFiles, InitIndexTypes DEF TypesInv

\* Every version that is in a file, in a change or in an edit of one is a tag of the
\* library or has binaries, however scans, uploads, merges and restarts interleave;
\* the clones are behind what they are clones of (GerritRepositoryAccess, LocalGit).
THEOREM FlowIsTyped == Spec => []TypeOK
BY InitTypes, NextTypes, TypesAre, PTL DEF Spec
=============================================================================
