------------------------ MODULE ReleaseProposalProofs ------------------------
(***************************************************************************)
(* Proof that releases are proposed to the application that uses them: what  *)
(* the handler of a push and the scan it asks for rely on, stage by stage,   *)
(* while releases, uploads, merges, other scans and failures go on.          *)
(***************************************************************************)
EXTENDS ReleaseFlowProofs

\* How a push goes on.

\* The stages after the cached lists were dropped.
Heard == {"lookup", "ask", "scan", "list"} \cup Post

PushGoes(p) == task'[p].kind = "push" /\ task'[p].at # "ensure" =>
    /\ task[p].kind = "push"
    /\ \A x \in {"source", "ref", "version"} : task'[p][x] = task[p][x]
    /\ task[p].at = "ensure" => EnsurePushed(p)
    /\ task'[p].at \in Heard => task[p].at \in Heard \/ Invalidate(p)
    /\ task'[p].at \in Post => task[p].at \in Post \/ ListUpdates(p)
    /\ task'[p].at \in Post /\ task[p].at \in Post =>
          task'[p].major = task[p].major /\ task'[p].seen = task[p].seen

\* A task that stays goes on.
LEMMA StayGoes ==
    ASSUME NEW p \in Clients, \A x \in TaskFields \ {"late"} : task'[p][x] = task[p][x]
    PROVE  PushGoes(p)
<1>1. \A x \in {"kind", "source", "ref", "version", "at", "major", "seen"} : task'[p][x] = task[p][x]
  BY TaskFieldsAre
<1>2. /\ task'[p].kind = task[p].kind /\ task'[p].at = task[p].at /\ task'[p].major = task[p].major
      /\ task'[p].seen = task[p].seen
  BY <1>1
<1> QED
  BY <1>1, <1>2 DEF PushGoes

\* So does one that moves in the order of the handlers.
LEMMA MoveGoes ==
    ASSUME NEW p \in Clients, NEW X, Moves(p, X),
           {"kind", "source", "ref", "version"} \cap X = {},
           task'[p].kind = "push" /\ task'[p].at # "ensure" =>
              /\ task[p].at = "ensure" => EnsurePushed(p)
              /\ task'[p].at \in Heard => task[p].at \in Heard \/ Invalidate(p)
              /\ task'[p].at \in Post => task[p].at \in Post \/ ListUpdates(p),
           task'[p].at \in Post /\ task[p].at \in Post => {"major", "seen"} \cap X = {}
    PROVE  \A q \in Clients : PushGoes(q)
<1>1. \A x \in {"kind", "source", "ref", "version"} : task'[p][x] = task[p][x]
  BY TaskFieldsAre DEF Moves
<1>2. task'[p].at \in Post /\ task[p].at \in Post =>
          task'[p].major = task[p].major /\ task'[p].seen = task[p].seen
  BY TaskFieldsAre DEF Moves
<1>3. task'[p].kind = task[p].kind
  BY <1>1
<1>4. PushGoes(p)
  BY <1>1, <1>2, <1>3 DEF PushGoes
<1>5. \A q \in Clients \ {p} : PushGoes(q)
  <2> TAKE q \in Clients \ {p}
  <2>1. \A x \in TaskFields \ {"late"} : task'[q][x] = task[q][x]
    BY DEF Moves, OthersStay
  <2> QED
    BY <2>1, StayGoes
<1> QED
  BY <1>4, <1>5

\* A task that is no push goes nowhere.
LEMMA OtherGoes ==
    ASSUME NEW p \in Clients, OthersStay(p), task'[p].kind # "push" \/ task'[p].at = "ensure"
    PROVE  \A q \in Clients : PushGoes(q)
<1>1. PushGoes(p)
  BY DEF PushGoes
<1>2. \A q \in Clients \ {p} : PushGoes(q)
  <2> TAKE q \in Clients \ {p}
  <2>1. \A x \in TaskFields \ {"late"} : task'[q][x] = task[q][x]
    BY DEF OthersStay
  <2> QED
    BY <2>1, StayGoes
<1> QED
  BY <1>1, <1>2

\* Nor does one that ends.
LEMMA EndGoes == ASSUME NEW p \in Clients, Ends(p) PROVE \A q \in Clients : PushGoes(q)
<1>1. OthersStay(p) /\ task'[p].kind # "push"
  BY DEF Ends, Idle
<1> QED
  BY <1>1, OtherGoes

\* A task that turns to another label goes on.
LEMMA RelabelGoes ==
    ASSUME NEW p \in Clients, task[p].at \in Post, Relabels(p, task[p].kind)
    PROVE  \A q \in Clients : PushGoes(q)
<1>1. OthersStay(p) /\ task'[p].at = "labels" /\ task'[p].kind = task[p].kind
  BY DEF Relabels, Moves
<1>2. \A x \in {"source", "ref", "version", "major", "seen"} : task'[p][x] = task[p][x]
  BY TaskFieldsAre DEF Relabels, Moves
<1>3. task'[p].major = task[p].major /\ task'[p].seen = task[p].seen
  BY <1>2
<1>4. PushGoes(p)
  BY <1>1, <1>2, <1>3 DEF PushGoes, Post, Heard
<1>5. \A q \in Clients \ {p} : PushGoes(q)
  <2> TAKE q \in Clients \ {p}
  <2>1. \A x \in TaskFields \ {"late"} : task'[q][x] = task[q][x]
    BY <1>1 DEF OthersStay
  <2> QED
    BY <2>1, StayGoes
<1> QED
  BY <1>4, <1>5

\* The work of a scan.
LEMMA WorkGoes ==
    ASSUME TaskInv, NEW p \in Clients,
           \/ ReadModel(p) \/ ListUpdates(p) \/ ScannedBranch(p) \/ ScannedUpdate(p)
           \/ FindUpload(p) \/ Create(p) \/ LabelUpdate(p) \/ ShowUpdate(p)
           \/ EditUpdate(p) \/ PublishUpdate(p) \/ WorkRejected(p)
           \/ \E d \in Deps : LookUp(p, d) \/ StoreVersions(p, d) \/ LookUpFails(p, d)
           \/ \E l \in DOMAIN task[p].want : TakeLabel(p, l)
    PROVE  \A q \in Clients : PushGoes(q)
<1> USE DEF Post, Heard
<1>1. CASE ReadModel(p)
  <2>1. Moves(p, {"model", "at"}) /\ task[p].at = "scan" /\ task'[p].at = "list"
    BY <1>1, ReadModelDoes
  <2> QED
    BY <2>1, MoveGoes
<1>2. CASE ListUpdates(p)
  <2>1. \/ Ends(p)
        \/ /\ Moves(p, {"at", "seen", "model", "major", "base", "todo"}) /\ task[p].at = "list"
           /\ task'[p].at = "look"
    BY <1>2, ListUpdatesDoes
  <2>2. CASE Ends(p)
    BY <2>2, EndGoes
  <2>3. CASE /\ Moves(p, {"at", "seen", "model", "major", "base", "todo"}) /\ task[p].at = "list"
             /\ task'[p].at = "look"
    BY <1>2, <2>3, MoveGoes
  <2> QED
    BY <2>1, <2>2, <2>3
<1>3. CASE ScannedBranch(p)
  <2>1. \/ Ends(p)
        \/ Moves(p, {"want", "at"}) /\ task[p].at = "look" /\ task'[p].at = "labels"
    BY <1>3, ScannedBranchDoes
  <2>2. CASE Ends(p)
    BY <2>2, EndGoes
  <2>3. CASE Moves(p, {"want", "at"}) /\ task[p].at = "look" /\ task'[p].at = "labels"
    BY <2>3, MoveGoes
  <2> QED
    BY <2>1, <2>2, <2>3
<1>4. CASE LabelDone(p) /\ task[p].at \in Post
  BY <1>4, LabelDoneDoes, EndGoes, RelabelGoes
<1>5. CASE WorkFails(p)
  <2>1. Ends(p) \/ Relabels(p, "orphan")
    BY <1>5, WorkFailsDoes
  <2>2. Relabels(p, "orphan") => OthersStay(p) /\ task'[p].kind # "push"
    BY DEF Relabels, Moves
  <2> QED
    BY <2>1, <2>2, EndGoes, OtherGoes
<1>6. CASE ScannedUpdate(p)
  <2>1. /\ task[p].at = "look"
        /\ LabelDone(p) \/ (Moves(p, {"want", "at"}) /\ task'[p].at = "edit")
    BY <1>6, ScannedUpdateDoes
  <2>2. CASE Moves(p, {"want", "at"}) /\ task'[p].at = "edit"
    BY <2>1, <2>2, MoveGoes
  <2> QED
    BY <1>4, <2>1, <2>2
<1>7. CASE FindUpload(p)
  <2>1. task[p].kind = "upload" /\ OthersStay(p)
        /\ ((\A x \in TaskFields \ {"id", "at"} : task'[p][x] = task[p][x]))
    BY <1>7, FindUploadDoes DEF Moves
  <2>2. task'[p].kind # "push"
    BY <2>1, TaskFieldsAre
  <2> QED
    BY <2>1, <2>2, OtherGoes
<1>8. CASE Create(p) \/ LabelUpdate(p) \/ ShowUpdate(p)
  <2>1. /\ task[p].at \in Post /\ Moves(p, {"at", "id"}) /\ task'[p].at \in Post
    BY <1>8, CreateDoes, LabelUpdateDoes, ShowUpdateDoes DEF Moves
  <2> QED
    BY <2>1, MoveGoes
<1>9. CASE EditUpdate(p)
  <2>1. /\ task[p].at = "edit"
        /\ LabelDone(p) \/ (Moves(p, {"at"}) /\ task'[p].at = "publish")
    BY <1>9, EditUpdateDoes
  <2>2. CASE Moves(p, {"at"}) /\ task'[p].at = "publish"
    BY <2>1, <2>2, MoveGoes
  <2> QED
    BY <1>4, <2>1, <2>2
<1>10. CASE PublishUpdate(p)
  BY <1>4, <1>5, <1>10, PublishUpdateDoes
<1>11. CASE WorkRejected(p)
  BY <1>5, <1>11 DEF WorkRejected
<1>12. CASE \E d \in Deps : LookUp(p, d) \/ StoreVersions(p, d) \/ LookUpFails(p, d)
  <2>1. task[p].at = "look" /\ Moves(p, {"found", "todo", "store", "late"})
    BY <1>12, LookUpDoes, StoreVersionsDoes, LookUpFailsDoes DEF Moves
  <2>2. task'[p].at = task[p].at
    BY <2>1, TaskFieldsAre DEF Moves
  <2> QED
    BY <2>1, <2>2, MoveGoes
<1>13. CASE \E l \in DOMAIN task[p].want : TakeLabel(p, l)
  <2>1. /\ task[p].at = "labels" /\ Moves(p, {"label", "id", "at", "again", "base", "found", "todo"})
        /\ task'[p].at \in {"create", "look"}
    BY <1>13, TakeLabelDoes DEF Moves
  <2> QED
    BY <2>1, MoveGoes
<1> QED
  BY <1>1, <1>2, <1>3, <1>6, <1>7, <1>8, <1>9, <1>10, <1>11, <1>12, <1>13

\* Other steps of tasks.
LEMMA PushStepGoes ==
    ASSUME TaskInv, NEW p \in Clients,
           \/ EnsurePushed(p) \/ ReadDependencies(p) \/ ReadIndex(p) \/ ReplaceIndex(p)
           \/ FindUsers(p) \/ AskScan(p) \/ PushRejected(p) \/ Invalidate(p)
    PROVE  \A q \in Clients : PushGoes(q)
<1> USE DEF Post, Heard
<1>1. CASE EnsurePushed(p)
  <2>1. Ends(p) \/ (Moves(p, {"at"}) /\ task'[p].at \in {"dependencies", "invalidate"})
    BY <1>1, EnsurePushedDoes
  <2> QED
    BY <1>1, <2>1, EndGoes, MoveGoes
<1>2. CASE ReadDependencies(p)
  <2>1. Moves(p, {"at", "todo"}) /\ task[p].at = "dependencies" /\ task'[p].at = "read"
    BY <1>2, ReadDependenciesDoes
  <2> QED
    BY <2>1, MoveGoes
<1>3. CASE ReadIndex(p)
  <2>1. Moves(p, {"at"}) /\ task[p].at = "read" /\ task'[p].at = "replace"
    BY <1>3, ReadIndexDoes
  <2> QED
    BY <2>1, MoveGoes
<1>4. CASE ReplaceIndex(p)
  BY <1>4, ReplaceIndexDoes, EndGoes
<1>5. CASE FindUsers(p)
  <2>1. Ends(p) \/ (Moves(p, {"at"}) /\ task[p].at = "lookup" /\ task'[p].at = "ask")
    BY <1>5, FindUsersDoes
  <2> QED
    BY <2>1, EndGoes, MoveGoes
<1>6. CASE AskScan(p)
  <2>1. Moves(p, {"at"}) /\ task[p].at = "ask" /\ task'[p].at = "scan"
    BY <1>6, AskScanDoes
  <2> QED
    BY <2>1, MoveGoes
<1>7. CASE PushRejected(p)
  <2>1. Ends(p) \/ (OthersStay(p) /\ task'[p].at = "ensure")
    BY <1>7, PushRejectedDoes DEF Moves
  <2> QED
    BY <2>1, EndGoes, OtherGoes
<1>8. CASE Invalidate(p)
  <2>1. /\ task[p].at = "invalidate" /\ task[p].kind = "push"
        /\ \A q \in Clients : /\ \A x \in TaskFields \ {"at", "late"} : task'[q][x] = task[q][x]
                              /\ q # p => task'[q].at = task[q].at
        /\ task'[p].at = "lookup"
    BY <1>8, InvalidateDoes
  <2>2. PushGoes(p)
    <3>1. \A x \in {"source", "ref", "version"} : task'[p][x] = task[p][x]
      BY <2>1, TaskFieldsAre
    <3> QED
      BY <1>8, <2>1, <3>1 DEF PushGoes
  <2>3. ASSUME NEW q \in Clients \ {p} PROVE PushGoes(q)
    <3>1. \A x \in TaskFields \ {"late"} : task'[q][x] = task[q][x]
      BY <2>1
    <3> QED
      BY <3>1, StayGoes
  <2> QED
    BY <2>2, <2>3
<1> QED
  BY <1>1, <1>2, <1>3, <1>4, <1>5, <1>6, <1>7, <1>8

\* A task that starts is at its first stage.
LEMMA StartGoes ==
    ASSUME TaskInv, NEW p \in Clients,
           \/ Deliver(p)
           \/ \E m \in 1 .. 3 : AddMajor(p, m)
           \/ \E m \in 1 .. 3, sha \in 1 .. Main(Lib) : RequestRelease(p, m, sha)
           \/ \E d \in Deps, v \in Tagged : UploadContent(p, d, v)
    PROVE  \A q \in Clients : PushGoes(q)
<1>1. OthersStay(p) /\ (task'[p].kind # "push" \/ task'[p].at = "ensure")
  BY DeliverDoes, AddMajorDoes, RequestReleaseDoes, UploadContentDoes DEF Starts
<1> QED
  BY <1>1, OtherGoes

\* Releases are no pushes.
LEMMA ReleaseGoes ==
    ASSUME TaskInv, NEW p \in Clients,
           \/ ChooseVersion(p) \/ Publish(p) \/ SetTag(p) \/ ReleaseRejected(p)
           \/ \E s \in Sources : ApplyMajor(p, s)
    PROVE  \A q \in Clients : PushGoes(q)
<1>1. task[p].kind # "push" /\ (Ends(p) \/ Moves(p, {"at", "version", "todo"}))
  BY ReleaseDoes, ApplyMajorDoes DEF Moves
<1>2. Moves(p, {"at", "version", "todo"}) => OthersStay(p) /\ task'[p].kind = task[p].kind
  BY TaskFieldsAre DEF Moves
<1> QED
  BY <1>1, <1>2, EndGoes, OtherGoes

\* What is not a step of a task.
LEMMA RestGoes ==
    ASSUME \/ UNCHANGED task \/ task' = [p \in Clients |-> Idle]
    PROVE  \A q \in Clients : PushGoes(q)
<1>1. CASE UNCHANGED task
  BY <1>1, StayGoes
<1>2. CASE task' = [p \in Clients |-> Idle]
  BY <1>2 DEF PushGoes, Idle
<1> QED
  BY <1>1, <1>2

\* Every step.
LEMMA NextGoes == ASSUME FlowInv, [Next]_vars PROVE \A p \in Clients : PushGoes(p)
<1>1. CASE \E p \in Clients :
              \/ ReadModel(p) \/ ListUpdates(p) \/ ScannedBranch(p) \/ ScannedUpdate(p)
              \/ FindUpload(p) \/ Create(p) \/ LabelUpdate(p) \/ ShowUpdate(p)
              \/ EditUpdate(p) \/ PublishUpdate(p) \/ WorkRejected(p)
              \/ \E d \in Deps : LookUp(p, d) \/ StoreVersions(p, d) \/ LookUpFails(p, d)
              \/ \E l \in DOMAIN task[p].want : TakeLabel(p, l)
  BY <1>1, WorkGoes DEF FlowInv
<1>2. CASE \E p \in Clients :
              \/ EnsurePushed(p) \/ ReadDependencies(p) \/ ReadIndex(p) \/ ReplaceIndex(p)
              \/ FindUsers(p) \/ AskScan(p) \/ PushRejected(p) \/ Invalidate(p)
  BY <1>2, PushStepGoes DEF FlowInv
<1>3. CASE \E p \in Clients :
              \/ Deliver(p)
              \/ \E m \in 1 .. 3 : AddMajor(p, m)
              \/ \E m \in 1 .. 3, sha \in 1 .. Main(Lib) : RequestRelease(p, m, sha)
              \/ \E d \in Deps, v \in Tagged : UploadContent(p, d, v)
  BY <1>3, StartGoes DEF FlowInv
<1>4. CASE \E p \in Clients : \/ ChooseVersion(p) \/ Publish(p) \/ SetTag(p) \/ ReleaseRejected(p)
                              \/ \E s \in Sources : ApplyMajor(p, s)
  BY <1>4, ReleaseGoes DEF FlowInv
<1>5. CASE \/ UNCHANGED vars \/ MergeLib \/ PushTopic \/ \E m \in 1 .. 3 : CreatePatch(m)
           \/ \E d \in Refs : CacheExpires(d)
           \/ \E o \in Ops : BeginScan(o)
           \/ \E c \in calls : Land(c)
           \/ Restart \/ \E c \in calls : UploadFails(c)
           \/ \E u \in DOMAIN updates : MergeProposal(u)
           \/ \E d \in Deps : EditApp(d)
  <2>1. UNCHANGED task \/ task' = [p \in Clients |-> Idle]
    BY <1>5 DEF vars, MergeLib, PushTopic, CreatePatch, Outside, CacheExpires, BeginScan, Land, Restart,
                UploadFails, Restarted, MergeProposal, EditApp, AppMoves
  <2> QED
    BY <2>1, RestGoes
<1> QED
  BY <1>1, <1>2, <1>3, <1>4, <1>5 DEF Next, Step

-----------------------------------------------------------------------------
\* What is proposed stays proposed.

\* The main branch has no version older than x, or an open change has not.
Up(x, d) == Tip[d] = Undefined \/ ~Lower(Tip[d], x)
Holds(u, x, d) == u \in OpenUpdates /\ ~Lower(updates[u].file[d], x)
Kept == \A x \in Values, d \in Deps :
    /\ Up(x, d) => Up(x, d)'
    /\ \A u \in DOMAIN updates : Holds(u, x, d) => Holds(u, x, d)' \/ Up(x, d)'

\* Values in order.
LEMMA ValuesGoOn ==
    ASSUME WorldInv, NEW x \in Values, NEW y \in Values, NEW z \in Values
    PROVE  /\ ~Lower(x, y) /\ ~Lower(y, z) => ~Lower(x, z)
           /\ ~Lower(x, x)
<1>1. Values \subseteq Release \cup {Undefined}
  BY DEF WorldInv, KnownOK, Values
<1>2. x \in Release \cup {Undefined} /\ y \in Release \cup {Undefined} /\ z \in Release \cup {Undefined}
  BY <1>1
<1> QED
  BY <1>2, NotLowerGoesOn

\* Changes that keep their files and stay open.
LEMMA FilesStayKept ==
    ASSUME UNCHANGED heads, \A u \in OpenUpdates : u \in OpenUpdates' /\ updates'[u].file = updates[u].file
    PROVE  Kept
<1>1. Tip' = Tip
  BY DEF Tip
<1> QED
  BY <1>1 DEF Kept, Up, Holds

\* A label, or the end of being private, changes no content.
LEMMA SetsKept ==
    ASSUME UNCHANGED heads, NEW u \in DOMAIN updates, NEW F, Sets(u, F), "file" \notin F, "open" \notin F
    PROVE  Kept
<1>1. updates'[u].file = updates[u].file /\ updates'[u].open = updates[u].open
  BY FieldsStay
<1>2. DOMAIN updates' = DOMAIN updates /\ \A w \in DOMAIN updates \ {u} : updates'[w] = updates[w]
  BY DEF Sets
<1> QED
  BY <1>1, <1>2, FilesStayKept DEF OpenUpdates

\* A file is published that has nothing older than the one before.
LEMMA PublishKept ==
    ASSUME WorldInv, ChangesInv, FilesInv, NEW p \in Clients, PublishUpdate(p), missed' # missed \cup Tagged
    PROVE  Kept
<1> DEFINE u == task[p].id
<1>1. /\ task[p].at = "publish"
      /\ \/ CanPublish(u) /\ PublishEdit(u)
         \/ ~CanPublish(u) /\ UNCHANGED updates
      /\ MissedIf(~CanPublish(u) \/ TakesBack(u)) /\ UNCHANGED heads
  BY DEF PublishUpdate, WorkStep
<1>2. CanPublish(u) /\ PublishEdit(u) /\ ~TakesBack(u) /\ UNCHANGED heads
  BY <1>1 DEF MissedIf
<1>3. u \in DOMAIN updates
  BY <1>1 DEF FilesInv, FilesOK, IdOK
<1>4. PICK w : w = u
  OBVIOUS
<1> HIDE DEF u
<1>5. w \in DOMAIN updates /\ PublishEdit(w)
  BY <1>2, <1>3, <1>4
<1>6. Sets(w, {"file", "edit"}) /\ updates'[w].file = updates[w].edit
  BY <1>5, PublishEditDoes
<1>7. updates'[w].open = updates[w].open
  BY <1>6, FieldsStay
<1>8. Edited(w) \in Files /\ updates[w].file \in Files
  BY <1>5, ChangeIsTyped DEF FilesInv
<1>9. updates[w].edit \in Files
  BY <1>2, <1>4, <1>8 DEF CanPublish, Edited
<1>10. \A d \in Deps : ~Lower(updates[w].edit[d], updates[w].file[d])
  BY <1>2, <1>4 DEF TakesBack
<1>11. Tip' = Tip
  BY <1>2 DEF Tip
<1>12. ASSUME NEW x \in Values, NEW d \in Deps, ~Lower(updates[w].file[d], x)
       PROVE  ~Lower(updates'[w].file[d], x)
  <2>1. updates[w].edit[d] \in Values /\ updates[w].file[d] \in Values
    BY <1>8, <1>9 DEF Files
  <2> QED
    BY <1>6, <1>10, <1>12, <2>1, ValuesGoOn
<1>13. ASSUME NEW x \in Values, NEW d \in Deps, NEW y \in DOMAIN updates, Holds(y, x, d)
       PROVE  Holds(y, x, d)'
  <2>1. CASE y = w
    BY <1>6, <1>7, <1>12, <1>13, <2>1 DEF Holds, OpenUpdates, Sets
  <2>2. CASE y # w
    BY <1>6, <1>13, <2>2 DEF Holds, OpenUpdates, Sets
  <2> QED
    BY <2>1, <2>2
<1> QED
  BY <1>11, <1>13 DEF Kept, Up

\* A change is merged and nothing is lost by it.
LEMMA MergeKept ==
    ASSUME WorldInv, ChangesInv, FilesInv, NEW u \in DOMAIN updates, MergeProposal(u),
           missed' # missed \cup Tagged
    PROVE  Kept
<1> DEFINE m == Merged(updates[u])
<1>1. MergeUpdate(u) /\ ~MergeLoses(u)
  BY DEF MergeProposal
<1>2. Sets(u, {"open"}) /\ heads' = Append(heads, m)
  BY <1>1, MergeUpdateDoes
<1>3. m \in Files /\ Tip \in Files /\ updates[u].file \in Files
  BY MergedIsTyped, TipIsTyped, ChangeIsTyped DEF FilesInv
<1>4. \A d \in Deps : \/ m[d] = Undefined
                      \/ /\ Tip[d] # Undefined
                         /\ ~Lower(m[d], Tip[d]) /\ ~Lower(m[d], updates[u].file[d])
  BY <1>1 DEF MergeLoses
<1> HIDE DEF m
<1>5. Tip' = m
  <2>1. PICK S : heads \in Seq(S)
    BY DEF WorldInv, HeadsLen
  <2>2. heads \in Seq(S \cup {m})
    BY <2>1
  <2>3. Len(heads') = Len(heads) + 1 /\ heads'[Len(heads) + 1] = m
    BY <1>2, <2>2
  <2> QED
    BY <2>3 DEF Tip
<1>6. ASSUME NEW x \in Values, NEW d \in Deps PROVE Up(x, d) => Up(x, d)'
  <2>1. m[d] \in Values /\ Tip[d] \in Values
    BY <1>3 DEF Files
  <2> QED
    BY <1>4, <1>5, <2>1, ValuesGoOn DEF Up
<1>7. ASSUME NEW x \in Values, NEW d \in Deps, NEW w \in DOMAIN updates, Holds(w, x, d)
      PROVE  Holds(w, x, d)' \/ Up(x, d)'
  <2>1. CASE w = u
    <3>1. m[d] \in Values /\ updates[u].file[d] \in Values /\ ~Lower(updates[u].file[d], x)
      BY <1>3, <1>7, <2>1 DEF Files, Holds
    <3> QED
      BY <1>4, <1>5, <3>1, ValuesGoOn DEF Up
  <2>2. CASE w # u
    BY <1>2, <1>7, <2>2 DEF Holds, OpenUpdates, Sets
  <2> QED
    BY <2>1, <2>2
<1> QED
  BY <1>6, <1>7 DEF Kept

\* The other requests of a scan or an upload.
LEMMA WritesKept ==
    ASSUME ChangesInv, FilesInv, NEW p \in Clients,
           Create(p) \/ LabelUpdate(p) \/ ShowUpdate(p) \/ EditUpdate(p)
    PROVE  Kept
<1>0. UNCHANGED heads
  BY DEF Create, LabelUpdate, ShowUpdate, EditUpdate, WorkStep
<1>1. PICK u : u = task[p].id
  OBVIOUS
<1>2. CASE Create(p)
  <2>1. \A w \in DOMAIN updates : w \in DOMAIN updates' /\ updates'[w] = updates[w]
    BY <1>2, CreateUpdateDoes DEF Create
  <2> QED
    BY <1>0, <2>1, FilesStayKept DEF OpenUpdates
<1>3. CASE LabelUpdate(p)
  <2>1. u \in DOMAIN updates /\ SetHashTags(u, task[p].label)
    BY <1>1, <1>3 DEF LabelUpdate, WorkStep, FilesInv, FilesOK, IdOK
  <2>2. Sets(u, {"label"})
    BY <2>1, SetHashTagsDoes
  <2> QED
    BY <1>0, <2>1, <2>2, SetsKept
<1>4. CASE ShowUpdate(p)
  <2>1. u \in DOMAIN updates /\ MakePublic(u)
    BY <1>1, <1>4 DEF ShowUpdate, WorkStep, FilesInv, FilesOK, IdOK
  <2>2. Sets(u, {"private"})
    BY <2>1, MakePublicDoes
  <2> QED
    BY <1>0, <2>1, <2>2, SetsKept
<1>5. CASE EditUpdate(p)
  <2>1. PICK c : c = task[p].want[task[p].label]
    OBVIOUS
  <2>2. task[p].at = "edit" /\ (PutEdit(u, c) \/ UNCHANGED updates)
    BY <1>1, <1>5, <2>1 DEF EditUpdate, WorkStep
  <2>3. u \in DOMAIN updates
    BY <1>1, <2>2 DEF FilesInv, FilesOK, IdOK
  <2>4. CASE PutEdit(u, c)
    <3>1. Sets(u, {"edit"})
      BY <2>3, <2>4, PutEditDoes
    <3> QED
      BY <1>0, <2>3, <3>1, SetsKept
  <2>5. CASE UNCHANGED updates
    BY <1>0, <2>5, FilesStayKept DEF OpenUpdates
  <2> QED
    BY <2>2, <2>4, <2>5
<1> QED
  BY <1>2, <1>3, <1>4, <1>5

\* The steps that write to the changes or to the main branch.
LEMMA WhatWrites ==
    ASSUME [Next]_vars
    PROVE  \/ UNCHANGED <<heads, updates>>
           \/ \E p \in Clients : Create(p) \/ LabelUpdate(p) \/ ShowUpdate(p) \/ EditUpdate(p) \/ PublishUpdate(p)
           \/ \E u \in DOMAIN updates : MergeProposal(u)
           \/ \E d \in Deps : EditApp(d)
<1>1. CASE \/ \E p \in Clients :
              \/ ReadModel(p) \/ ListUpdates(p) \/ ScannedBranch(p) \/ ScannedUpdate(p)
              \/ FindUpload(p) \/ WorkRejected(p)
              \/ \E d \in Deps : LookUp(p, d) \/ StoreVersions(p, d) \/ LookUpFails(p, d)
              \/ \E l \in DOMAIN task[p].want : TakeLabel(p, l)
           \/ \E p \in Clients :
              \/ EnsurePushed(p) \/ ReadDependencies(p) \/ ReadIndex(p) \/ ReplaceIndex(p)
              \/ FindUsers(p) \/ AskScan(p) \/ PushRejected(p) \/ Invalidate(p)
  <2>1. ASSUME NEW p \in Clients,
               \/ ReadModel(p) \/ ListUpdates(p) \/ ScannedBranch(p) \/ ScannedUpdate(p)
               \/ FindUpload(p) \/ WorkRejected(p)
               \/ \E l \in DOMAIN task[p].want : TakeLabel(p, l)
        PROVE  UNCHANGED <<heads, updates>>
    BY <2>1 DEF ReadModel, ListUpdates, ScannedBranch, ScannedUpdate, FindUpload, WorkRejected, TakeLabel,
                WorkStep, gerritVars
  <2>2. ASSUME NEW p \in Clients, NEW d \in Deps, LookUp(p, d) \/ StoreVersions(p, d) \/ LookUpFails(p, d)
        PROVE  UNCHANGED <<heads, updates>>
    BY <2>2 DEF LookUp, StoreVersions, LookUpFails, WorkStep
  <2>3. ASSUME NEW p \in Clients,
               \/ EnsurePushed(p) \/ ReadDependencies(p) \/ ReadIndex(p) \/ ReplaceIndex(p)
               \/ FindUsers(p) \/ AskScan(p) \/ PushRejected(p) \/ Invalidate(p)
        PROVE  UNCHANGED <<heads, updates>>
    BY <2>3 DEF EnsurePushed, ReadDependencies, ReadIndex, ReplaceIndex, FindUsers, AskScan, PushRejected,
                Invalidate, PushStep, gerritVars
  <2> QED
    BY <1>1, <2>1, <2>2, <2>3
<1>2. CASE \/ \E p \in Clients :
              \/ Deliver(p)
              \/ \E m \in 1 .. 3 : AddMajor(p, m)
              \/ \E m \in 1 .. 3, sha \in 1 .. Main(Lib) : RequestRelease(p, m, sha)
              \/ \E d \in Deps, v \in Tagged : UploadContent(p, d, v)
           \/ \E p \in Clients : \/ ChooseVersion(p) \/ Publish(p) \/ SetTag(p) \/ ReleaseRejected(p)
                                 \/ \E s \in Sources : ApplyMajor(p, s)
           \/ UNCHANGED vars \/ MergeLib \/ PushTopic \/ \E m \in 1 .. 3 : CreatePatch(m)
           \/ \E d \in Refs : CacheExpires(d)
           \/ \E o \in Ops : BeginScan(o)
           \/ \E c \in calls : Land(c)
           \/ Restart \/ \E c \in calls : UploadFails(c)
  <2>1. UNCHANGED <<heads, updates>>
    BY <1>2 DEF Deliver, AddMajor, RequestRelease, UploadContent, StartTask, ChooseVersion, Publish, SetTag,
         ReleaseRejected, ApplyMajor, ReleaseStep, vars, MergeLib, PushTopic, CreatePatch, CacheExpires,
         BeginScan, Land, Restart, UploadFails, Restarted, gerritVars
  <2> QED
    BY <2>1
<1> QED
  BY <1>1, <1>2 DEF Next, Step

\* Every step, unless it may lose every version.
LEMMA NextKeeps ==
    ASSUME TypesInv, [Next]_vars, missed' # missed \cup Tagged PROVE Kept
<1>0. WorldInv /\ ChangesInv /\ FilesInv
  BY DEF TypesInv
<1>1. CASE UNCHANGED <<heads, updates>>
  BY <1>1, FilesStayKept DEF OpenUpdates
<1>2. CASE \E p \in Clients : Create(p) \/ LabelUpdate(p) \/ ShowUpdate(p) \/ EditUpdate(p)
  BY <1>0, <1>2, WritesKept
<1>3. CASE \E p \in Clients : PublishUpdate(p)
  BY <1>0, <1>3, PublishKept
<1>4. CASE \E u \in DOMAIN updates : MergeProposal(u)
  BY <1>0, <1>4, MergeKept
<1>5. CASE \E d \in Deps : EditApp(d)
  BY <1>5 DEF EditApp
<1> QED
  BY <1>1, <1>2, <1>3, <1>4, <1>5, WhatWrites

-----------------------------------------------------------------------------
\* What is about to be published.

\* The edit of a change has no version older than x.
Waits(u, x, d) == updates[u].edit # NoEdit /\ ~Lower(updates[u].edit[d], x)
LabelStays(u) == u \in DOMAIN updates' /\ (updates[u].label # NoLabel => updates'[u].label = updates[u].label)
EditsKept == \A u \in DOMAIN updates :
    /\ LabelStays(u)
    /\ \A x, d : Waits(u, x, d) => Waits(u, x, d)' \/ Holds(u, x, d)'

\* What is published was in the edit.
LEMMA PublishEdits ==
    ASSUME ChangesInv, FilesInv, NEW p \in Clients, PublishUpdate(p), missed' # missed \cup Tagged
    PROVE  EditsKept
<1> DEFINE u == task[p].id
<1>1. /\ task[p].at = "publish"
      /\ \/ CanPublish(u) /\ PublishEdit(u)
         \/ ~CanPublish(u) /\ UNCHANGED updates
      /\ MissedIf(~CanPublish(u) \/ TakesBack(u))
  BY DEF PublishUpdate, WorkStep
<1>2. CanPublish(u) /\ PublishEdit(u)
  BY <1>1 DEF MissedIf
<1>3. u \in DOMAIN updates
  BY <1>1 DEF FilesInv, FilesOK, IdOK
<1>4. PICK w : w = u
  OBVIOUS
<1> HIDE DEF u
<1>5. w \in DOMAIN updates /\ PublishEdit(w) /\ updates[w].open
  BY <1>2, <1>3, <1>4 DEF CanPublish
<1>6. Sets(w, {"file", "edit"}) /\ updates'[w].file = updates[w].edit
  BY <1>5, PublishEditDoes
<1>7. updates'[w].open = updates[w].open /\ updates'[w].label = updates[w].label
  BY <1>6, FieldsStay
<1>8. /\ DOMAIN updates' = DOMAIN updates
      /\ \A y \in DOMAIN updates \ {w} : updates'[y] = updates[y]
  BY <1>6 DEF Sets
<1>9. ASSUME NEW x, NEW d, Waits(w, x, d) PROVE Holds(w, x, d)'
  BY <1>5, <1>6, <1>7, <1>8, <1>9 DEF Waits, Holds, OpenUpdates
<1>10. LabelStays(w)
  BY <1>5, <1>7, <1>8 DEF LabelStays
<1>11. ASSUME NEW y \in DOMAIN updates \ {w}
       PROVE  LabelStays(y) /\ \A x, d : Waits(y, x, d) => Waits(y, x, d)'
  BY <1>8 DEF LabelStays, Waits
<1> QED
  BY <1>9, <1>10, <1>11 DEF EditsKept

\* What is written to an edit leaves the others alone.
LEMMA EditEdits ==
    ASSUME ChangesInv, FilesInv, NEW p \in Clients, EditUpdate(p), missed' # missed \cup Tagged
    PROVE  EditsKept
<1>1. PICK u : u = task[p].id
  OBVIOUS
<1>2. PICK c : c = task[p].want[task[p].label]
  OBVIOUS
<1>3. /\ task[p].at = "edit" /\ (PutEdit(u, c) \/ UNCHANGED updates)
      /\ MissedIf(~updates[u].open \/ updates[u].edit # NoEdit)
  BY <1>1, <1>2 DEF EditUpdate, WorkStep
<1>4. u \in DOMAIN updates /\ updates[u].edit = NoEdit
  BY <1>1, <1>3 DEF FilesInv, FilesOK, IdOK, MissedIf
<1>5. CASE UNCHANGED updates
  BY <1>5 DEF EditsKept, LabelStays, Waits
<1>6. CASE PutEdit(u, c)
  <2>1. Sets(u, {"edit"})
    BY <1>4, <1>6, PutEditDoes
  <2>2. updates'[u].label = updates[u].label
    BY <2>1, FieldsStay
  <2>3. /\ DOMAIN updates' = DOMAIN updates
        /\ \A y \in DOMAIN updates \ {u} : updates'[y] = updates[y]
    BY <2>1 DEF Sets
  <2>4. LabelStays(u) /\ \A x, d : ~Waits(u, x, d)
    BY <1>4, <2>2, <2>3 DEF LabelStays, Waits
  <2>5. ASSUME NEW y \in DOMAIN updates \ {u}
        PROVE  LabelStays(y) /\ \A x, d : Waits(y, x, d) => Waits(y, x, d)'
    BY <2>3 DEF LabelStays, Waits
  <2> QED
    BY <2>4, <2>5 DEF EditsKept
<1> QED
  BY <1>3, <1>5, <1>6

\* A label, or the end of being private, changes no edit.
LEMMA SetsEdits ==
    ASSUME NEW u \in DOMAIN updates, NEW F, Sets(u, F), "edit" \notin F,
           "label" \in F => updates[u].label = NoLabel
    PROVE  EditsKept
<1>1. updates'[u].edit = updates[u].edit /\ (updates[u].label # NoLabel => updates'[u].label = updates[u].label)
  BY FieldsStay
<1>2. DOMAIN updates' = DOMAIN updates /\ \A w \in DOMAIN updates \ {u} : updates'[w] = updates[w]
  BY DEF Sets
<1>3. LabelStays(u) /\ \A x, d : Waits(u, x, d) => Waits(u, x, d)'
  BY <1>1, <1>2 DEF LabelStays, Waits
<1>4. ASSUME NEW y \in DOMAIN updates \ {u}
      PROVE  LabelStays(y) /\ \A x, d : Waits(y, x, d) => Waits(y, x, d)'
  BY <1>2 DEF LabelStays, Waits
<1> QED
  BY <1>3, <1>4 DEF EditsKept

\* Every step.
LEMMA NextEdits ==
    ASSUME TypesInv, [Next]_vars, missed' # missed \cup Tagged PROVE EditsKept
<1>0. WorldInv /\ ChangesInv /\ FilesInv
  BY DEF TypesInv
<1>1. CASE UNCHANGED updates
  BY <1>1 DEF EditsKept, LabelStays, Waits
<1>2. ASSUME NEW p \in Clients, Create(p) PROVE EditsKept
  <2>1. \A w \in DOMAIN updates : w \in DOMAIN updates' /\ updates'[w] = updates[w]
    BY <1>0, <1>2, CreateUpdateDoes DEF Create
  <2> QED
    BY <2>1 DEF EditsKept, LabelStays, Waits
<1>3. ASSUME NEW p \in Clients, LabelUpdate(p) PROVE EditsKept
  <2>0. PICK u : u = task[p].id
    OBVIOUS
  <2>1. u \in DOMAIN updates /\ SetHashTags(u, task[p].label) /\ updates[u].label = NoLabel
    BY <1>0, <1>3, <2>0 DEF LabelUpdate, WorkStep, FilesInv, FilesOK, IdOK
  <2>2. Sets(u, {"label"})
    BY <1>0, <2>1, SetHashTagsDoes
  <2> QED
    BY <2>1, <2>2, SetsEdits
<1>4. ASSUME NEW p \in Clients, ShowUpdate(p) PROVE EditsKept
  <2>0. PICK u : u = task[p].id
    OBVIOUS
  <2>1. u \in DOMAIN updates /\ MakePublic(u)
    BY <1>0, <1>4, <2>0 DEF ShowUpdate, WorkStep, FilesInv, FilesOK, IdOK
  <2>2. Sets(u, {"private"})
    BY <1>0, <2>1, MakePublicDoes
  <2> QED
    BY <2>1, <2>2, SetsEdits
<1>5. ASSUME NEW u \in DOMAIN updates, MergeProposal(u) PROVE EditsKept
  <2>1. Sets(u, {"open"})
    BY <1>0, <1>5, MergeUpdateDoes DEF MergeProposal
  <2> QED
    BY <2>1, SetsEdits
<1>6. CASE \E d \in Deps : EditApp(d)
  BY <1>1, <1>6 DEF EditApp
<1> QED
  BY <1>0, <1>1, <1>2, <1>3, <1>4, <1>5, <1>6, WhatWrites, EditEdits, PublishEdits

-----------------------------------------------------------------------------
\* The majors: none that a reference names is above the values of the serie.

Covered(n) == n \in Nat /\ \E m \in majorValues : n <= m
LibMajors == Majors(repo[Lib].remote)
MajorsInv == Subscribed =>
    /\ majorValues \subseteq Nat /\ \E h \in majorValues : \A m \in majorValues : m <= h
    /\ \A m \in LibMajors : Covered(m)
    /\ \A p \in Clients : task[p].kind = "apply" => Covered(task[p].major)
    /\ \A p \in Clients : task[p].kind = "release" =>
          Covered(task[p].major) /\ (task[p].at # "next" => task[p].version[1] = task[p].major)

\* The tasks that bring majors stay as they are.
MajorsGoOn == \A q \in Clients : task'[q].kind \in {"apply", "release"} =>
    \A x \in {"kind", "major", "at", "version"} : task'[q][x] = task[q][x]

\* Where majors and the tasks that bring them stay, so does what is known of them.
LEMMA MajorsStay ==
    ASSUME MajorsInv, MajorsGoOn, majorValues' = majorValues,
           Subscribed => \A m \in LibMajors' : m \in LibMajors \/ Covered(m)
    PROVE  MajorsInv'
<1> SUFFICES ASSUME Subscribed PROVE MajorsInv'
  BY DEF MajorsInv
<1>1. \A n : Covered(n)' <=> Covered(n)
  BY DEF Covered
<1>2. ASSUME NEW q \in Clients, task'[q].kind \in {"apply", "release"}
      PROVE  /\ task[q].kind = task'[q].kind /\ task[q].major = task'[q].major
             /\ task[q].at = task'[q].at /\ task[q].version = task'[q].version
  BY <1>2 DEF MajorsGoOn
<1> QED
  BY <1>1, <1>2 DEF MajorsInv

\* Scans and uploads are none of them, and become none.
LEMMA AlikeMajors ==
    ASSUME NEW p \in Clients, OthersStay(p), task'[p].kind \notin {"apply", "release"}
    PROVE  MajorsGoOn
BY DEF OthersStay, MajorsGoOn

\* A move that leaves kind, stage, version and major.
LEMMA MoveMajors ==
    ASSUME NEW p \in Clients, NEW X, Moves(p, X), "kind" \notin X, task[p].kind \notin {"apply", "release"}
    PROVE  MajorsGoOn
<1>1. task'[p].kind = task[p].kind
  BY TaskFieldsAre DEF Moves
<1> QED
  BY <1>1, AlikeMajors DEF Moves

\* A task that ends brings no major.
LEMMA EndMajors == ASSUME NEW p \in Clients, Ends(p) PROVE MajorsGoOn
<1>1. OthersStay(p) /\ task'[p].kind = "none"
  BY DEF Ends, Idle
<1> QED
  BY <1>1, AlikeMajors

\* Nor do scans and uploads.
LEMMA WorkMajors ==
    ASSUME TaskInv, NEW p \in Clients,
           \/ ReadModel(p) \/ ListUpdates(p) \/ ScannedBranch(p) \/ ScannedUpdate(p)
           \/ FindUpload(p) \/ Create(p) \/ LabelUpdate(p) \/ ShowUpdate(p)
           \/ EditUpdate(p) \/ PublishUpdate(p) \/ WorkRejected(p)
           \/ \E d \in Deps : LookUp(p, d) \/ StoreVersions(p, d) \/ LookUpFails(p, d)
           \/ \E l \in DOMAIN task[p].want : TakeLabel(p, l)
    PROVE  MajorsGoOn
<1>0. Working(p)
  <2>1. CASE \/ ReadModel(p) \/ ListUpdates(p) \/ ScannedBranch(p) \/ ScannedUpdate(p)
             \/ FindUpload(p) \/ Create(p) \/ LabelUpdate(p) \/ ShowUpdate(p)
             \/ EditUpdate(p) \/ PublishUpdate(p) \/ WorkRejected(p)
    BY <2>1 DEF ReadModel, ListUpdates, ScannedBranch, ScannedUpdate, FindUpload, Create, LabelUpdate,
                ShowUpdate, EditUpdate, PublishUpdate, WorkRejected, WorkStep
  <2>2. CASE \/ \E d \in Deps : LookUp(p, d) \/ StoreVersions(p, d) \/ LookUpFails(p, d)
             \/ \E l \in DOMAIN task[p].want : TakeLabel(p, l)
    BY <2>2 DEF LookUp, StoreVersions, LookUpFails, TakeLabel, WorkStep
  <2> QED
    BY <2>1, <2>2
<1>1. task[p].kind \in {"push", "upload", "orphan"}
  BY <1>0 DEF Working, TaskInv
<1>2. ASSUME NEW Y, Moves(p, Y), "kind" \notin Y PROVE MajorsGoOn
  BY <1>1, <1>2, MoveMajors
<1>3. ASSUME NEW k \in {task[p].kind, "orphan"}, Relabels(p, k) PROVE MajorsGoOn
  <2>1. OthersStay(p) /\ task'[p].kind = k
    BY <1>3 DEF Relabels, Moves
  <2> QED
    BY <1>1, <2>1, AlikeMajors
<1>4. CASE LabelDone(p)
  BY <1>3, <1>4, LabelDoneDoes, EndMajors
<1>5. CASE WorkFails(p)
  BY <1>3, <1>5, WorkFailsDoes, EndMajors
<1>6. CASE ReadModel(p)
  BY <1>2, <1>6, ReadModelDoes
<1>7. CASE ListUpdates(p)
  BY <1>2, <1>7, ListUpdatesDoes, EndMajors
<1>8. CASE ScannedBranch(p)
  <2>1. Ends(p) \/ Moves(p, {"want", "at"})
    BY <1>8, ScannedBranchDoes
  <2> QED
    BY <1>2, <2>1, EndMajors
<1>9. CASE ScannedUpdate(p)
  <2>1. LabelDone(p) \/ Moves(p, {"want", "at"})
    BY <1>9, ScannedUpdateDoes
  <2> QED
    BY <1>2, <1>4, <2>1
<1>10. CASE FindUpload(p) \/ Create(p) \/ LabelUpdate(p) \/ ShowUpdate(p) \/ EditUpdate(p)
            \/ PublishUpdate(p)
  <2>1. Moves(p, {"at"}) \/ Moves(p, {"id", "at"}) \/ LabelDone(p) \/ WorkFails(p)
    <3>1. CASE FindUpload(p)
      BY <3>1, FindUploadDoes
    <3>2. CASE Create(p)
      BY <3>2, CreateDoes
    <3>3. CASE LabelUpdate(p) \/ ShowUpdate(p)
      BY <3>3, LabelUpdateDoes, ShowUpdateDoes
    <3>4. CASE EditUpdate(p)
      BY <3>4, EditUpdateDoes
    <3>5. CASE PublishUpdate(p)
      BY <3>5, PublishUpdateDoes
    <3> QED
      BY <1>10, <3>1, <3>2, <3>3, <3>4, <3>5
  <2> QED
    BY <1>2, <1>4, <1>5, <2>1
<1>11. CASE WorkRejected(p)
  BY <1>5, <1>11 DEF WorkRejected
<1>12. CASE \E d \in Deps : LookUp(p, d) \/ StoreVersions(p, d) \/ LookUpFails(p, d)
  <2>1. \/ Moves(p, {"found", "store"}) \/ Moves(p, {"found", "todo"})
        \/ Moves(p, {"todo", "store", "late"}) \/ Moves(p, {"found", "todo", "store", "late"})
    BY <1>12, LookUpDoes, StoreVersionsDoes, LookUpFailsDoes
  <2> QED
    BY <1>2, <2>1
<1>13. CASE \E l \in DOMAIN task[p].want : TakeLabel(p, l)
  <2>1. \/ Moves(p, {"label", "at"})
        \/ Moves(p, {"label", "id", "at", "again", "base", "found", "todo"})
    BY <1>13, TakeLabelDoes
  <2> QED
    BY <1>2, <2>1
<1> QED
  BY <1>6, <1>7, <1>8, <1>9, <1>10, <1>11, <1>12, <1>13

\* The handlers of a push are none of them either.
LEMMA PushMajors ==
    ASSUME TaskInv, NEW p \in Clients,
           \/ EnsurePushed(p) \/ ReadDependencies(p) \/ ReadIndex(p) \/ ReplaceIndex(p)
           \/ FindUsers(p) \/ AskScan(p) \/ PushRejected(p) \/ Invalidate(p)
    PROVE  MajorsGoOn
<1>1. ASSUME NEW Y, Moves(p, Y), "kind" \notin Y, task[p].kind = "push" PROVE MajorsGoOn
  BY <1>1, MoveMajors
<1>2. CASE \/ EnsurePushed(p) \/ ReadDependencies(p) \/ ReadIndex(p) \/ ReplaceIndex(p)
           \/ FindUsers(p) \/ AskScan(p) \/ PushRejected(p)
  <2>1. /\ task[p].kind = "push"
        /\ Ends(p) \/ Moves(p, {"at"}) \/ Moves(p, {"at", "todo"}) \/ Moves(p, {"at", "tried", "todo"})
    <3>1. CASE EnsurePushed(p)
      BY <3>1, EnsurePushedDoes
    <3>2. CASE ReadDependencies(p)
      BY <3>2, ReadDependenciesDoes
    <3>3. CASE ReadIndex(p) \/ ReplaceIndex(p) \/ AskScan(p)
      BY <3>3, ReadIndexDoes, ReplaceIndexDoes, AskScanDoes
    <3>4. CASE FindUsers(p)
      BY <3>4, FindUsersDoes
    <3>5. CASE PushRejected(p)
      BY <3>5, PushRejectedDoes
    <3> QED
      BY <1>2, <3>1, <3>2, <3>3, <3>4, <3>5
  <2> QED
    BY <1>1, <2>1, EndMajors
<1>3. CASE Invalidate(p)
  <2>1. /\ task[p].kind = "push"
        /\ \A q \in Clients : \A x \in TaskFields \ {"at", "late"} : task'[q][x] = task[q][x]
        /\ \A q \in Clients \ {p} : task'[q].at = task[q].at
    BY <1>3, InvalidateDoes
  <2> QED
    BY <2>1, TaskFieldsAre DEF MajorsGoOn
<1> QED
  BY <1>2, <1>3

\* A major that a branch of the clone is for is covered (RepositoryModelReader).
LEMMA BranchIsCovered ==
    ASSUME WorldInv, MajorsInv, Subscribed, NEW m
    PROVE  /\ m \in Majors(repo[Lib].clone) => Covered(m)
           /\ WriteBranchExists(repo[Lib].clone, m) => Covered(m)
<1> DEFINE C == repo[Lib].clone
           R == repo[Lib].remote
<1>1. CopyOf(C, R)
  BY LibIsSource DEF WorldInv, RefsOK
<1>2. Majors(C) \subseteq LibMajors
  BY <1>1 DEF CopyOf, Agree, Majors, Heads, LibMajors
<1>3. \A n \in Majors(C) : Covered(n)
  BY <1>2 DEF MajorsInv
<1>4. PICK h \in majorValues : h \in Nat /\ \A n \in majorValues : n \in Nat /\ n <= h
  BY DEF MajorsInv
<1>5. Majors(C) \in SUBSET Nat /\ \A n \in Majors(C) : n <= h
  BY <1>3, <1>4 DEF Covered
<1>6. Covered(MainMajor(C))
  <2>1. CASE Majors(C) = {}
    BY <1>4, <2>1 DEF MainMajor, Covered
  <2>2. CASE Majors(C) # {}
    <3>1. Highest(Majors(C)) \in Majors(C)
      BY <1>4, <1>5, <2>2, HighestExists
    <3> QED
      BY <1>3, <2>2, <3>1 DEF MainMajor
  <2> QED
    BY <2>1, <2>2
<1>7. ASSUME WriteBranchExists(C, m) PROVE Covered(m)
  <2>1. CASE m = MainMajor(C)
    BY <1>6, <2>1
  <2>2. CASE m # MainMajor(C)
    <3>1. PatchesOf(C, m) # {}
      BY <1>7, <2>2 DEF WriteBranchExists, FindBranch
    <3>2. m \in Majors(C)
      BY <3>1 DEF PatchesOf, Majors, Heads
    <3> QED
      BY <1>3, <3>2
  <2> QED
    BY <2>1, <2>2
<1> QED
  BY <1>3, <1>7

\* The references of the library at Gerrit that stay name no other majors.
LEMMA SameMajors ==
    ASSUME UNCHANGED <<repo[Lib].remote.releases, repo[Lib].remote.majors, repo[Lib].remote.patches>>
    PROVE  LibMajors' = LibMajors
BY DEF LibMajors, Majors, Heads

\* A merge leaves the majors.
LEMMA MainAlike ==
    ASSUME FlowInv, NEW s \in Sources, repo' = [repo EXCEPT ![s].remote.main = @ + 1]
    PROVE  LibMajors' = LibMajors
<1>0. repo' = [repo EXCEPT ![s].remote.main = repo[s].remote.main + 1]
  OBVIOUS
<1>1. /\ Elsewhere(s)
      /\ \A x \in RefFields : repo'[s].remote[x] = IF x = "main" THEN repo[s].remote.main + 1 ELSE repo[s].remote[x]
  BY <1>0, RemoteMainChanges DEF FlowInv, RepoInv
<1>2. \A x \in {"releases", "majors", "patches"} : repo'[Lib].remote[x] = repo[Lib].remote[x]
  BY <1>1, LibIsSource DEF Elsewhere, RefFields
<1>3. /\ repo'[Lib].remote.releases = repo[Lib].remote.releases
      /\ repo'[Lib].remote.majors = repo[Lib].remote.majors
      /\ repo'[Lib].remote.patches = repo[Lib].remote.patches
  BY <1>2
<1> QED
  BY <1>3, SameMajors

\* A fetch writes to a clone.
LEMMA FetchChanges ==
    ASSUME FlowInv, WorldInv, NEW p \in Clients, EnsurePushed(p) \/ PushRejected(p)
    PROVE  /\ task[p].source \in Sources
           /\ \/ UNCHANGED repo
              \/ \E C : RefsShape(C) /\ repo' = [repo EXCEPT ![task[p].source].clone = C]
<1>0. PICK s : s = task[p].source
  OBVIOUS
<1>1. s \in Sources /\ task[p].kind = "push"
  BY <1>0 DEF EnsurePushed, PushRejected, PushStep, At, FlowInv, TaskInv
<1>2. UNCHANGED repo \/ \E C : RefsShape(C) /\ repo' = [repo EXCEPT ![s].clone = C]
  <2>1. CASE EnsurePushed(p)
    <3>1. NamedIn(repo[s].remote, task[p].ref, task[p].version)
      BY <1>0, <1>1 DEF WorldInv, PushesOK
    <3>2. PICK C : C = Fetched(s, task[p].ref, task[p].version)
      OBVIOUS
    <3>3. RefsShape(C)
      BY <1>1, <3>1, <3>2, FetchedShape DEF FlowInv, RepoInv
    <3>4. UNCHANGED repo \/ repo' = [repo EXCEPT ![s].clone = C]
      BY <1>0, <2>1, <3>2 DEF EnsurePushed
    <3> QED
      BY <3>3, <3>4
  <2>2. CASE PushRejected(p)
    <3>1. RefsShape(repo[s].remote)
      BY <1>1 DEF FlowInv, RepoInv, RepoShape
    <3>2. repo' = [repo EXCEPT ![s].clone = repo[s].remote]
      BY <1>0, <2>2 DEF PushRejected
    <3> QED
      BY <3>1, <3>2
  <2> QED
    BY <2>1, <2>2
<1> QED
  BY <1>0, <1>1, <1>2

\* So does a fetch.
LEMMA CloneAlike ==
    ASSUME FlowInv, WorldInv, NEW p \in Clients, EnsurePushed(p) \/ PushRejected(p)
    PROVE  LibMajors' = LibMajors
<1>0. PICK s : s = task[p].source
  OBVIOUS
<1>1. s \in Sources
  BY <1>0, FetchChanges
<1>2. UNCHANGED repo \/ \E C : RefsShape(C) /\ repo' = [repo EXCEPT ![s].clone = C]
  BY <1>0, FetchChanges
<1>3. CASE UNCHANGED repo
  BY <1>3, SameMajors
<1>4. CASE \E C : RefsShape(C) /\ repo' = [repo EXCEPT ![s].clone = C]
  <2>1. Elsewhere(s) /\ repo'[s].remote = repo[s].remote
    BY <1>1, <1>4, CloneChanges DEF FlowInv, RepoInv
  <2>2. repo'[Lib].remote = repo[Lib].remote
    BY <2>1, LibIsSource DEF Elsewhere
  <2> QED
    BY <2>2, SameMajors
<1> QED
  BY <1>2, <1>3, <1>4

\* A tag or a branch more of the library.
LEMMA SetTagMajors ==
    ASSUME FlowInv, WorldInv, MajorsInv, NEW p \in Clients, SetTag(p)
    PROVE  MajorsInv'
<1>1. PICK v, sha : v = task[p].version /\ sha = task[p].sha
  OBVIOUS
<1>2. /\ task[p].kind = "release" /\ task[p].at = "tag" /\ End(p) /\ majorValues' = majorValues
      /\ \/ UNCHANGED repo
         \/ repo' = [repo EXCEPT ![Lib].remote.releases = Put(@, v, sha)]
  BY <1>1 DEF SetTag, ReleaseStep, At
<1>3. MajorsGoOn
  BY <1>2, EndEnds, EndMajors DEF FlowInv
<1>4. CASE UNCHANGED repo
  BY <1>2, <1>3, <1>4, SameMajors, MajorsStay
<1>5. CASE repo' = [repo EXCEPT ![Lib].remote.releases = Put(@, v, sha)]
  <2> DEFINE y == Put(repo[Lib].remote.releases, v, sha)
  <2>1. repo' = [repo EXCEPT ![Lib].remote.releases = y]
    BY <1>5
  <2>2. DOMAIN y = DOMAIN repo[Lib].remote.releases \cup {v}
    BY DEF Put, Over
  <2> HIDE DEF y
  <2>3. \A x \in RefFields : repo'[Lib].remote[x] = IF x = "releases" THEN y ELSE repo[Lib].remote[x]
    BY <2>1, LibIsSource, RemoteReleasesChanges DEF FlowInv, RepoInv
  <2>4. /\ repo'[Lib].remote.releases = y /\ repo'[Lib].remote.majors = repo[Lib].remote.majors
        /\ repo'[Lib].remote.patches = repo[Lib].remote.patches
    BY <2>3 DEF RefFields
  <2>5. LibMajors' \subseteq LibMajors \cup {v[1]}
    BY <2>2, <2>4 DEF LibMajors, Majors, Heads
  <2>6. Subscribed => Covered(v[1])
    BY <1>1, <1>2 DEF MajorsInv
  <2> QED
    BY <1>2, <1>3, <2>5, <2>6, MajorsStay
<1> QED
  BY <1>2, <1>4, <1>5

\* applyMajors sets the tag of a value.
LEMMA ApplyMajorMajors ==
    ASSUME FlowInv, WorldInv, MajorsInv, NEW p \in Clients, NEW s \in Sources, ApplyMajor(p, s)
    PROVE  MajorsInv'
<1>0. PICK m : m = task[p].major
  OBVIOUS
<1>1. /\ task[p].kind = "apply" /\ majorValues' = majorValues
      /\ UNCHANGED repo \/ \E n : repo' = [repo EXCEPT ![s].remote.majors = Put(@, m, n)]
  BY <1>0 DEF ApplyMajor, At
<1>2. MajorsGoOn
  <2>1. Ends(p) \/ Moves(p, {"todo"})
    BY ApplyMajorDoes DEF FlowInv
  <2>2. CASE Moves(p, {"todo"})
    <3>1. \A x \in {"kind", "major", "at", "version"} : task'[p][x] = task[p][x]
      BY <2>2, TaskFieldsAre DEF Moves
    <3> QED
      BY <2>2, <3>1 DEF Moves, OthersStay, MajorsGoOn
  <2> QED
    BY <2>1, <2>2, EndMajors
<1>3. CASE UNCHANGED repo
  BY <1>1, <1>2, <1>3, SameMajors, MajorsStay
<1>4. CASE \E n : repo' = [repo EXCEPT ![s].remote.majors = Put(@, m, n)]
  <2>0. PICK n : repo' = [repo EXCEPT ![s].remote.majors = Put(@, m, n)]
    BY <1>4
  <2> DEFINE y == Put(repo[s].remote.majors, m, n)
  <2>1. repo' = [repo EXCEPT ![s].remote.majors = y]
    BY <2>0
  <2>2. DOMAIN y = DOMAIN repo[s].remote.majors \cup {m}
    BY DEF Put, Over
  <2> HIDE DEF y
  <2>3. /\ Elsewhere(s)
        /\ \A x \in RefFields : repo'[s].remote[x] = IF x = "majors" THEN y ELSE repo[s].remote[x]
    BY <2>1, RemoteMajorsChanges DEF FlowInv, RepoInv
  <2>4. CASE s = Lib
    <3>1. /\ repo'[Lib].remote.majors = y /\ repo'[Lib].remote.releases = repo[Lib].remote.releases
          /\ repo'[Lib].remote.patches = repo[Lib].remote.patches
      BY <2>3, <2>4 DEF RefFields
    <3>2. LibMajors' \subseteq LibMajors \cup {m}
      BY <2>2, <2>4, <3>1 DEF LibMajors, Majors, Heads
    <3>3. Subscribed => Covered(m)
      BY <1>0, <1>1 DEF MajorsInv
    <3> QED
      BY <1>1, <1>2, <3>2, <3>3, MajorsStay
  <2>5. CASE s # Lib
    <3>1. repo'[Lib] = repo[Lib]
      BY <2>3, <2>5, LibIsSource DEF Elsewhere
    <3>2. LibMajors' = LibMajors
      BY <3>1, SameMajors
    <3> QED
      BY <1>1, <1>2, <3>2, MajorsStay
  <2> QED
    BY <2>4, <2>5
<1> QED
  BY <1>1, <1>3, <1>4

\* A patch branch is for a major below one that has a branch.
LEMMA CreatePatchMajors ==
    ASSUME FlowInv, WorldInv, MajorsInv, NEW m, CreatePatch(m)
    PROVE  MajorsInv'
<1>0. PICK n : n = repo[Lib].clone.majors[NextMajor(repo[Lib].clone, m)]
  OBVIOUS
<1>1. /\ m \in Majors(repo[Lib].clone) /\ UNCHANGED <<task, majorValues>>
      /\ repo' = [repo EXCEPT ![Lib].remote.patches = Put(@, <<m>>, n)]
  BY <1>0 DEF CreatePatch, CreateBranch, HasNextMajor, Outside
<1>2. MajorsGoOn
  BY <1>1 DEF MajorsGoOn
<1> DEFINE y == Put(repo[Lib].remote.patches, <<m>>, n)
<1>3. repo' = [repo EXCEPT ![Lib].remote.patches = y]
  BY <1>1
<1>4. DOMAIN y = DOMAIN repo[Lib].remote.patches \cup {<<m>>}
  BY DEF Put, Over
<1> HIDE DEF y
<1>5. \A x \in RefFields : repo'[Lib].remote[x] = IF x = "patches" THEN y ELSE repo[Lib].remote[x]
  BY <1>3, LibIsSource, RemotePatchesChanges DEF FlowInv, RepoInv
<1>6. /\ repo'[Lib].remote.patches = y /\ repo'[Lib].remote.majors = repo[Lib].remote.majors
      /\ repo'[Lib].remote.releases = repo[Lib].remote.releases
  BY <1>5 DEF RefFields
<1>7. <<m>>[1] = m
  OBVIOUS
<1>8. LibMajors' \subseteq LibMajors \cup {m}
  BY <1>4, <1>6, <1>7 DEF LibMajors, Majors, Heads
<1>9. Subscribed => Covered(m)
  BY <1>1, BranchIsCovered
<1> QED
  BY <1>1, <1>2, <1>8, <1>9, MajorsStay

\* A release is asked for, and its version is of its major.
LEMMA ReleaseMajors ==
    ASSUME FlowInv, WorldInv, MajorsInv, NEW p \in Clients,
           \/ ChooseVersion(p) \/ Publish(p) \/ ReleaseRejected(p)
           \/ \E m \in 1 .. 3, sha \in 1 .. Main(Lib) : RequestRelease(p, m, sha)
    PROVE  MajorsInv'
<1> SUFFICES ASSUME Subscribed PROVE MajorsInv'
  BY DEF MajorsInv
<1>0. UNCHANGED <<repo, majorValues>>
  BY DEF ChooseVersion, Publish, ReleaseRejected, ReleaseStep, RequestRelease, StartTask
<1>1. LibMajors' = LibMajors
  BY <1>0, SameMajors
<1>2. CASE ReleaseRejected(p)
  BY <1>0, <1>1, <1>2, EndEnds, EndMajors, MajorsStay DEF ReleaseRejected, FlowInv
<1>3. ASSUME OthersStay(p), task'[p].kind = "release", Covered(task'[p].major),
             task'[p].at # "next" => task'[p].version[1] = task'[p].major
      PROVE  MajorsInv'
  <2>1. \A n : Covered(n)' <=> Covered(n)
    BY <1>0 DEF Covered
  <2>2. \A q \in Clients \ {p} : task'[q] = task[q]
    BY <1>3 DEF OthersStay
  <2>3. ASSUME NEW q \in Clients, task'[q].kind = "release"
        PROVE  /\ Covered(task'[q].major)
               /\ task'[q].at # "next" => task'[q].version[1] = task'[q].major
    <3>1. CASE q = p
      BY <1>3, <3>1
    <3>2. CASE q # p
      BY <2>2, <2>3, <3>2 DEF MajorsInv
    <3> QED
      BY <3>1, <3>2
  <2>4. ASSUME NEW q \in Clients, task'[q].kind = "apply" PROVE Covered(task'[q].major)
    BY <1>3, <2>2, <2>4 DEF MajorsInv
  <2> QED
    BY <1>0, <1>1, <2>1, <2>3, <2>4 DEF MajorsInv
<1>4. CASE Publish(p)
  <2>1. task[p].kind = "release" /\ task[p].at = "publications"
        /\ Moves(p, {"at"}) /\ task'[p].at = "tag"
    BY <1>4, GoMoves DEF Publish, ReleaseStep, At, FlowInv
  <2>2. \A x \in {"kind", "major", "version"} : task'[p][x] = task[p][x]
    BY <2>1, TaskFieldsAre DEF Moves
  <2> QED
    BY <1>3, <2>1, <2>2 DEF Moves, MajorsInv
<1>5. CASE ChooseVersion(p)
  <2> DEFINE v == NextVersion(repo[Lib].clone, task[p].major, "minor")
  <2>1. task[p].kind = "release" /\ Become(p, [version |-> v, at |-> "publications"])
    BY <1>5 DEF ChooseVersion, ReleaseStep, At
  <2>2. v[1] = task[p].major
    BY DEF NextVersion
  <2> HIDE DEF v
  <2>3. Moves(p, {"version", "at"}) /\ task'[p].version = v
    BY <2>1, BecomeMoves, TaskFieldsAre DEF FlowInv
  <2>4. \A x \in {"kind", "major"} : task'[p][x] = task[p][x]
    BY <2>3, TaskFieldsAre DEF Moves
  <2> QED
    BY <1>3, <2>1, <2>2, <2>3, <2>4 DEF Moves, MajorsInv
<1>6. CASE \E m \in 1 .. 3, sha \in 1 .. Main(Lib) : RequestRelease(p, m, sha)
  <2>1. PICK m \in 1 .. 3, sha \in 1 .. Main(Lib) : RequestRelease(p, m, sha)
    BY <1>6
  <2>2. OthersStay(p) /\ task'[p].kind = "release" /\ task'[p].at = "next" /\ task'[p].major = m
    BY <2>1, RequestReleaseDoes DEF FlowInv, Starts
  <2>3. Covered(m)
    BY <2>1, BranchIsCovered DEF RequestRelease
  <2> QED
    BY <1>3, <2>2, <2>3
<1> QED
  BY <1>2, <1>4, <1>5, <1>6

\* A value more covers as much.
LEMMA AddMajorMajors ==
    ASSUME FlowInv, WorldInv, MajorsInv, NEW p \in Clients, NEW m \in 1 .. 3, AddMajor(p, m)
    PROVE  MajorsInv'
<1> SUFFICES ASSUME Subscribed PROVE MajorsInv'
  BY DEF MajorsInv
<1>1. /\ majorValues' = majorValues \cup {m} /\ UNCHANGED repo /\ \A n \in majorValues : n < m
  BY DEF AddMajor, StartTask
<1>2. OthersStay(p) /\ task'[p].kind = "apply" /\ task'[p].major = m
  BY AddMajorDoes DEF FlowInv, Starts
<1>3. LibMajors' = LibMajors
  BY <1>1, SameMajors
<1>4. \A n : Covered(n) => Covered(n)'
  BY <1>1 DEF Covered
<1>5. Covered(m)'
  BY <1>1 DEF Covered
<1>6. /\ majorValues' \subseteq Nat /\ m \in majorValues' /\ \A n \in majorValues' : n <= m
  BY <1>1 DEF MajorsInv
<1>7. ASSUME NEW q \in Clients, NEW n, n = task'[q].major, task'[q].kind \in {"apply", "release"}
      PROVE  Covered(n)' /\ (task'[q].kind = "release" /\ task'[q].at # "next" => task'[q].version[1] = n)
  <2>1. CASE q = p
    BY <1>2, <1>5, <1>7, <2>1
  <2>2. CASE q # p
    <3>1. task'[q] = task[q]
      BY <1>2, <2>2 DEF OthersStay
    <3>2. Covered(n)
      BY <1>7, <3>1 DEF MajorsInv
    <3> QED
      BY <1>4, <1>7, <3>1, <3>2 DEF MajorsInv
  <2> QED
    BY <2>1, <2>2
<1>8. \A n \in LibMajors' : Covered(n)'
  BY <1>3, <1>4 DEF MajorsInv
<1>9. ASSUME NEW q \in Clients, task'[q].kind \in {"apply", "release"}
      PROVE  /\ task'[q].major \in Nat /\ \E k \in majorValues' : task'[q].major <= k
             /\ task'[q].kind = "release" /\ task'[q].at # "next" => task'[q].version[1] = task'[q].major
  BY <1>7, <1>9 DEF Covered
<1> QED
  BY <1>6, <1>8, <1>9 DEF MajorsInv, Covered

\* Two majors at first, and no release above them.
LEMMA InitMajors == Init => MajorsInv
<1> SUFFICES ASSUME Init, Subscribed PROVE MajorsInv
  BY DEF MajorsInv
<1> DEFINE all == {First} \cup Range(Pending)
           R == repo[Lib].remote
<1>1. /\ R.releases = [v \in all |-> 1] /\ R.majors = [m \in {1, 2} |-> 1]
      /\ R.patches = [b \in {} |-> 0]
  BY InitRefs, LibIsSource
<1>2. majorValues = {1, 2} /\ \A p \in Clients : task[p] = Idle
  BY DEF Init
<1>3. \A v \in all : v[1] \in Nat /\ v[1] <= 2
  <2>1. First[1] = 1
    BY DEF First
  <2>2. \A n \in DOMAIN Pending : Pending[n][1] \in Nat /\ Pending[n][1] <= 2
    BY PendingAreReleases, MajorsAreValues
  <2> QED
    BY <2>1, <2>2 DEF Range
<1>4. LibMajors = Heads(all) \cup {1, 2} \cup Heads({})
  <2> HIDE DEF all
  <2> QED
    BY <1>1 DEF LibMajors, Majors
<1>5. \A m \in LibMajors : m \in Nat /\ m <= 2
  BY <1>3, <1>4 DEF Heads
<1>6. \A m \in LibMajors : Covered(m)
  BY <1>2, <1>5 DEF Covered
<1>7. /\ majorValues \subseteq Nat /\ 2 \in majorValues /\ \A m \in majorValues : m <= 2
  BY <1>2
<1>8. \A p \in Clients : task[p].kind = "none"
  BY <1>2 DEF Idle
<1> QED
  BY <1>6, <1>7, <1>8 DEF MajorsInv

\* Every step.
LEMMA NextMajors ==
    ASSUME FlowInv, WorldInv, MajorsInv, [Next]_vars PROVE MajorsInv'
<1>0. ASSUME MajorsGoOn, majorValues' = majorValues, LibMajors' = LibMajors PROVE MajorsInv'
  BY <1>0, MajorsStay
<1>1. CASE \E p \in Clients :
              \/ ReadModel(p) \/ ListUpdates(p) \/ ScannedBranch(p) \/ ScannedUpdate(p)
              \/ FindUpload(p) \/ Create(p) \/ LabelUpdate(p) \/ ShowUpdate(p)
              \/ EditUpdate(p) \/ PublishUpdate(p) \/ WorkRejected(p)
              \/ \E d \in Deps : LookUp(p, d) \/ StoreVersions(p, d) \/ LookUpFails(p, d)
              \/ \E l \in DOMAIN task[p].want : TakeLabel(p, l)
  <2>1. MajorsGoOn
    BY <1>1, WorkMajors DEF FlowInv
  <2>2. UNCHANGED repo
    BY <1>1, WorkLeavesReleases
  <2>3. majorValues' = majorValues
    BY <1>1, WorkLeavesWorld
  <2> QED
    BY <1>0, <2>1, <2>2, <2>3, SameMajors
<1>2. CASE \E p \in Clients :
              \/ EnsurePushed(p) \/ ReadDependencies(p) \/ ReadIndex(p) \/ ReplaceIndex(p)
              \/ FindUsers(p) \/ AskScan(p) \/ PushRejected(p) \/ Invalidate(p)
  <2>1. MajorsGoOn
    BY <1>2, PushMajors DEF FlowInv
  <2>2. majorValues' = majorValues
    BY <1>2 DEF EnsurePushed, ReadDependencies, ReadIndex, ReplaceIndex, FindUsers, AskScan, PushRejected,
                Invalidate, PushStep
  <2>3. UNCHANGED repo \/ \E p \in Clients : EnsurePushed(p) \/ PushRejected(p)
    BY <1>2 DEF ReadDependencies, ReadIndex, ReplaceIndex, FindUsers, AskScan, Invalidate
  <2>4. LibMajors' = LibMajors
    BY <2>3, SameMajors, CloneAlike
  <2> QED
    BY <1>0, <2>1, <2>2, <2>4
<1>3. CASE \E p \in Clients : Deliver(p) \/ \E d \in Deps, v \in Tagged : UploadContent(p, d, v)
  <2>1. PICK p \in Clients : Deliver(p) \/ \E d \in Deps, v \in Tagged : UploadContent(p, d, v)
    BY <1>3
  <2>2. OthersStay(p) /\ task'[p].kind \in {"push", "upload"}
    BY <2>1, DeliverDoes, UploadContentDoes DEF FlowInv, Starts
  <2>3. MajorsGoOn
    BY <2>2, AlikeMajors
  <2>4. UNCHANGED <<repo, majorValues>>
    BY <2>1 DEF Deliver, UploadContent, StartTask
  <2> QED
    BY <1>0, <2>3, <2>4, SameMajors
<1>4. CASE \E p \in Clients :
              \/ ChooseVersion(p) \/ Publish(p) \/ ReleaseRejected(p) \/ SetTag(p)
              \/ \E s \in Sources : ApplyMajor(p, s)
              \/ \E m \in 1 .. 3 : AddMajor(p, m)
              \/ \E m \in 1 .. 3, sha \in 1 .. Main(Lib) : RequestRelease(p, m, sha)
  BY <1>4, ReleaseMajors, SetTagMajors, ApplyMajorMajors, AddMajorMajors
<1>5. CASE \/ MergeLib \/ (\E u \in DOMAIN updates : MergeProposal(u)) \/ \E d \in Deps : EditApp(d)
  <2>1. /\ UNCHANGED <<task, majorValues>>
        /\ \E s \in {Lib, App} : repo' = [repo EXCEPT ![s].remote.main = @ + 1]
    BY <1>5 DEF MergeLib, MergeProposal, EditApp, AppMoves, Outside
  <2>2. MajorsGoOn
    BY <2>1 DEF MajorsGoOn
  <2>3. LibMajors' = LibMajors
    BY <2>1, LibIsSource, MainAlike
  <2> QED
    BY <1>0, <2>1, <2>2, <2>3
<1>6. CASE \E m \in 1 .. 3 : CreatePatch(m)
  BY <1>6, CreatePatchMajors
<1>7. CASE \/ UNCHANGED vars \/ PushTopic
           \/ \E d \in Refs : CacheExpires(d)
           \/ \E o \in Ops : BeginScan(o)
           \/ \E c \in calls : Land(c)
           \/ Restart \/ \E c \in calls : UploadFails(c)
  <2>1. /\ UNCHANGED <<repo, majorValues>>
        /\ UNCHANGED task \/ task' = [p \in Clients |-> Idle]
    BY <1>7 DEF vars, PushTopic, Outside, CacheExpires, BeginScan, Land, Restart, UploadFails, Restarted
  <2>2. MajorsGoOn
    <3>1. CASE UNCHANGED task
      BY <3>1 DEF MajorsGoOn
    <3>2. CASE task' = [p \in Clients |-> Idle]
      BY <3>2 DEF MajorsGoOn, Idle
    <3> QED
      BY <2>1, <3>1, <3>2
  <2> QED
    BY <1>0, <2>1, <2>2, SameMajors
<1> QED
  BY <1>1, <1>2, <1>3, <1>4, <1>5, <1>6, <1>7 DEF Next, Step

-----------------------------------------------------------------------------
\* What the push of a release relies on.

\* What may be missed stays so.
LEMMA MissedGrows == ASSUME [Next]_vars PROVE missed \subseteq missed'
<1>1. CASE \E p \in Clients :
              \/ ReadModel(p) \/ ListUpdates(p) \/ ScannedBranch(p) \/ ScannedUpdate(p)
              \/ FindUpload(p) \/ Create(p) \/ LabelUpdate(p) \/ ShowUpdate(p)
              \/ EditUpdate(p) \/ PublishUpdate(p) \/ WorkRejected(p)
              \/ \E d \in Deps : LookUp(p, d) \/ StoreVersions(p, d) \/ LookUpFails(p, d)
              \/ \E l \in DOMAIN task[p].want : TakeLabel(p, l)
  <2>1. missed' = missed \/ \E c : MissedIf(c)
    <3>1. CASE \E p \in Clients :
                  \/ ReadModel(p) \/ ListUpdates(p) \/ ScannedBranch(p) \/ ScannedUpdate(p)
      BY <3>1 DEF ReadModel, ListUpdates, ScannedBranch, ScannedUpdate
    <3>2. CASE \E p \in Clients :
                  \/ \E d \in Deps : LookUp(p, d) \/ StoreVersions(p, d) \/ LookUpFails(p, d)
                  \/ \E l \in DOMAIN task[p].want : TakeLabel(p, l)
      BY <3>2 DEF LookUp, StoreVersions, LookUpFails, TakeLabel
    <3>3. CASE \E p \in Clients : FindUpload(p) \/ Create(p) \/ LabelUpdate(p) \/ ShowUpdate(p)
      BY <3>3 DEF FindUpload, Create, LabelUpdate, ShowUpdate
    <3>4. CASE \E p \in Clients : EditUpdate(p) \/ PublishUpdate(p) \/ WorkRejected(p)
      BY <3>4 DEF EditUpdate, PublishUpdate, WorkRejected
    <3> QED
      BY <1>1, <3>1, <3>2, <3>3, <3>4
  <2> QED
    BY <2>1 DEF MissedIf
<1>2. CASE \E p \in Clients :
              \/ EnsurePushed(p) \/ ReadDependencies(p) \/ ReadIndex(p) \/ ReplaceIndex(p)
              \/ FindUsers(p) \/ AskScan(p) \/ PushRejected(p) \/ Invalidate(p)
  <2>1. missed \subseteq missed' \/ \E c : MissedIf(c)
    BY <1>2 DEF EnsurePushed, ReadDependencies, ReadIndex, ReplaceIndex, FindUsers, AskScan, PushRejected,
                Invalidate
  <2> QED
    BY <2>1 DEF MissedIf
<1>3. CASE \/ \E p \in Clients :
              \/ Deliver(p)
              \/ \E m \in 1 .. 3 : AddMajor(p, m)
              \/ \E m \in 1 .. 3, sha \in 1 .. Main(Lib) : RequestRelease(p, m, sha)
              \/ \E d \in Deps, v \in Tagged : UploadContent(p, d, v)
           \/ \E p \in Clients : \/ ChooseVersion(p) \/ Publish(p) \/ SetTag(p) \/ ReleaseRejected(p)
                                 \/ \E s \in Sources : ApplyMajor(p, s)
           \/ UNCHANGED vars \/ MergeLib \/ PushTopic \/ \E m \in 1 .. 3 : CreatePatch(m)
           \/ \E d \in Refs : CacheExpires(d)
           \/ \E o \in Ops : BeginScan(o)
           \/ \E c \in calls : Land(c)
  BY <1>3 DEF Deliver, AddMajor, RequestRelease, UploadContent, StartTask, ChooseVersion, Publish, SetTag,
       ReleaseRejected, ApplyMajor, vars, MergeLib, PushTopic, CreatePatch, CacheExpires, BeginScan, Land
<1>4. CASE \/ Restart \/ \E c \in calls : UploadFails(c)
           \/ \E u \in DOMAIN updates : MergeProposal(u)
           \/ \E d \in Deps : EditApp(d)
  BY <1>4 DEF Restart, UploadFails, Restarted, MergeProposal, EditApp
<1> QED
  BY <1>1, <1>2, <1>3, <1>4 DEF Next, Step

\* The push of a release of the library, and one that is scanned for.
Announced(p) == task[p].kind = "push" /\ task[p].source = Lib /\ task[p].ref = "release"
Scanning(p) == Announced(p) /\ task[p].at \in Post

HasTag == \A p \in Clients : Announced(p) /\ task[p].at # "ensure" =>
    task[p].version \in DOMAIN repo[Lib].clone.releases
HighEnough == \A p \in Clients : Scanning(p) /\ Subscribed =>
    task[p].version[1] = task[p].major \/ task[p].version[1] < task[p].major
\* The changes that were listed still hold what they held, or the main branch does.
SeenUp == \A p \in Clients : Scanning(p) /\ task[p].version \notin missed =>
    \A u \in DOMAIN task[p].seen, d \in Deps :
       LET x == task[p].seen[u].file[d] IN Holds(u, x, d) \/ Up(x, d)

\* What was announced was announced before.
LEMMA AnnouncedBefore ==
    ASSUME NEW p \in Clients, PushGoes(p), Announced(p)', task'[p].at # "ensure"
    PROVE  Announced(p) /\ task'[p].version = task[p].version
BY DEF PushGoes, Announced

\* The clone keeps its tags.
LEMMA NextHasTag ==
    ASSUME TypesInv, [Next]_vars, \A p \in Clients : PushGoes(p), WorldGrows, HasTag PROVE HasTag'
<1> SUFFICES ASSUME NEW p \in Clients, Announced(p)', task'[p].at # "ensure"
             PROVE  task'[p].version \in DOMAIN repo'[Lib].clone.releases
  BY DEF HasTag
<1>1. Announced(p) /\ task'[p].version = task[p].version /\ PushGoes(p)
  BY AnnouncedBefore
<1>2. CASE task[p].at = "ensure"
  <2>1. EnsurePushed(p) /\ task'[p].kind = "push"
    BY <1>1, <1>2 DEF PushGoes, Announced
  <2>2. FlowInv /\ WorldInv
    BY DEF TypesInv
  <2> QED
    BY <1>1, <2>1, <2>2, FetchWorld DEF Announced
<1>3. CASE task[p].at # "ensure"
  <2>1. task[p].version \in DOMAIN repo[Lib].clone.releases
    BY <1>1, <1>3 DEF HasTag
  <2> QED
    BY <1>1, <2>1, LibIsSource DEF WorldGrows, RefsGrow
<1> QED
  BY <1>2, <1>3

\* What is announced is a tag.
LEMMA AnnouncedIsTagged ==
    ASSUME WorldInv, NEW p \in Clients, Announced(p) PROVE task[p].version \in Tagged
BY DEF WorldInv, PushesOK, NamedIn, Announced, Tagged

\* The scan looks at the top major, which no release is above (ScannerManagerImpl).
LEMMA TopIsHigh ==
    ASSUME WorldInv, MajorsInv, Subscribed, NEW v \in Tagged
    PROVE  v[1] = Highest(majorValues) \/ v[1] < Highest(majorValues)
<1>1. PICK h \in majorValues : h \in Nat /\ \A n \in majorValues : n \in Nat /\ n <= h
  BY DEF MajorsInv
<1>2. Highest(majorValues) \in majorValues /\ \A n \in majorValues : n <= Highest(majorValues)
  <2>1. majorValues \in SUBSET Nat /\ majorValues # {} /\ \A n \in majorValues : n <= h
    BY <1>1
  <2> QED
    BY <1>1, <2>1, HighestExists
<1>3. v[1] \in LibMajors
  BY DEF LibMajors, Majors, Heads, Tagged
<1>4. PICK m \in majorValues : v[1] \in Nat /\ v[1] <= m
  BY <1>3 DEF MajorsInv, Covered
<1>5. PICK k : k = Highest(majorValues)
  OBVIOUS
<1>6. k \in Nat /\ m \in Nat /\ m <= k
  BY <1>1, <1>2, <1>5
<1>7. v[1] = k \/ v[1] < k
  BY <1>4, <1>6
<1> QED
  BY <1>5, <1>7

\* The major that is looked at does not get too low.
LEMMA NextHighEnough ==
    ASSUME TypesInv, MajorsInv, \A p \in Clients : PushGoes(p), HighEnough PROVE HighEnough'
<1> SUFFICES ASSUME NEW p \in Clients, Scanning(p)', Subscribed
             PROVE  task'[p].version[1] = task'[p].major \/ task'[p].version[1] < task'[p].major
  BY DEF HighEnough
<1>1. Announced(p) /\ task'[p].version = task[p].version /\ PushGoes(p) /\ task'[p].at \in Post
      /\ task'[p].kind = "push" /\ task'[p].at # "ensure"
  <2>1. task'[p].at \in Post /\ Announced(p)' /\ "ensure" \notin Post
    BY DEF Scanning, Post
  <2> QED
    BY <2>1, AnnouncedBefore DEF Announced
<1>2. CASE task[p].at \in Post
  BY <1>1, <1>2 DEF PushGoes, Scanning, HighEnough
<1>3. CASE task[p].at \notin Post
  <2>1. ListUpdates(p)
    BY <1>1, <1>3 DEF PushGoes
  <2>2. task'[p].major = TopMajor(task[p].model)
    <3>1. ~Ends(p) /\ TaskInv
      BY <1>1 DEF Ends, Idle, TypesInv, FlowInv
    <3> QED
      BY <2>1, <3>1, ListUpdatesDoes
  <2>3. task[p].version \in Tagged
    BY <1>1, AnnouncedIsTagged DEF TypesInv
  <2> QED
    BY <1>1, <2>2, <2>3, TopIsHigh DEF TopMajor, TypesInv
<1> QED
  BY <1>2, <1>3

\* What was held when the changes were listed is not lost.
LEMMA NextSeenUp ==
    ASSUME TypesInv, [Next]_vars, \A p \in Clients : PushGoes(p), SeenUp PROVE SeenUp'
<1> SUFFICES ASSUME NEW p \in Clients, Scanning(p)', task'[p].version \notin missed',
                    NEW u \in DOMAIN task'[p].seen, NEW d \in Deps, NEW x, x = task'[p].seen[u].file[d]
             PROVE  Holds(u, x, d)' \/ Up(x, d)'
  BY DEF SeenUp
<1>1. Announced(p) /\ task'[p].version = task[p].version /\ PushGoes(p) /\ task'[p].at \in Post
      /\ task'[p].kind = "push" /\ task'[p].at # "ensure"
  <2>1. task'[p].at \in Post /\ Announced(p)' /\ "ensure" \notin Post
    BY DEF Scanning, Post
  <2> QED
    BY <2>1, AnnouncedBefore DEF Announced
<1>2. task[p].version \in Tagged
  BY <1>1, AnnouncedIsTagged DEF TypesInv
<1>3. task[p].version \notin missed /\ missed' # missed \cup Tagged
  BY <1>1, <1>2, MissedGrows
<1>4. Kept
  BY <1>3, NextKeeps
<1>5. CASE task[p].at \in Post
  <2>1. task'[p].seen = task[p].seen
    BY <1>1, <1>5 DEF PushGoes
  <2>2. Holds(u, x, d) \/ Up(x, d)
    BY <1>1, <1>3, <1>5, <2>1 DEF SeenUp, Scanning
  <2>3. u \in DOMAIN updates /\ task[p].seen[u].file \in Files
    BY <2>1 DEF TypesInv, FilesInv, FilesOK, SeenOK
  <2>4. x \in Values
    BY <2>1, <2>3 DEF Files
  <2> QED
    BY <1>4, <2>2, <2>3, <2>4 DEF Kept
<1>6. CASE task[p].at \notin Post
  <2>1. ListUpdates(p)
    BY <1>1, <1>6 DEF PushGoes
  <2>2. task'[p].seen = [w \in OpenUpdates |-> [label |-> updates[w].label, file |-> updates[w].file]]
    <3>1. ~Ends(p) /\ TaskInv
      BY <1>1 DEF Ends, Idle, TypesInv, FlowInv
    <3> QED
      BY <2>1, <3>1, ListUpdatesDoes
  <2>3. u \in OpenUpdates /\ x = updates[u].file[d]
    BY <2>2
  <2>4. x \in Values
    BY <2>3, ChangeIsTyped DEF TypesInv, FilesInv, OpenUpdates, Files
  <2>5. Holds(u, x, d)
    BY <2>3, <2>4, ValuesGoOn DEF Holds, TypesInv
  <2>6. UNCHANGED <<heads, updates>>
    BY <2>1 DEF ListUpdates, WorkStep
  <2> QED
    BY <2>5, <2>6 DEF Holds, OpenUpdates
<1> QED
  BY <1>5, <1>6

-----------------------------------------------------------------------------
\* The cached lists.

\* No list that is cached, or is about to be, lacks the version.
IsFresh(v) == \A d \in Refs :
    /\ cache[d] = None \/ cache[d] = Invalid \/ v \in cache[d]
    /\ \A q \in Clients : d \in task[q].store \ task[q].late => v \in task[q].found[d]
FreshCache == \A p \in Clients :
    Announced(p) /\ task[p].at \in Heard /\ task[p].version \notin missed => IsFresh(task[p].version)

\* What is about to be cached was so before.
KeepStore(q) == \A d \in task'[q].store \ task'[q].late :
    d \in task[q].store \ task[q].late /\ task'[q].found[d] = task[q].found[d]

\* A move that leaves what is looked up.
LEMMA MoveStore ==
    ASSUME NEW p \in Clients, NEW X, Moves(p, X), {"store", "late", "found"} \cap X = {}
    PROVE  \A q \in Clients : KeepStore(q)
<1>1. /\ task'[p].store = task[p].store /\ task'[p].late = task[p].late
      /\ task'[p].found = task[p].found
  BY TaskFieldsAre DEF Moves
<1>2. \A q \in Clients \ {p} : task'[q] = task[q]
  BY DEF Moves, OthersStay
<1> QED
  BY <1>1, <1>2 DEF KeepStore

\* A task with nothing to cache.
LEMMA EmptyStore ==
    ASSUME NEW p \in Clients, OthersStay(p), task'[p].store = {} PROVE \A q \in Clients : KeepStore(q)
BY DEF OthersStay, KeepStore

\* A task that ends.
LEMMA EndStore == ASSUME NEW p \in Clients, Ends(p) PROVE \A q \in Clients : KeepStore(q)
BY EmptyStore DEF Ends, Idle

\* A task that turns to another label.
LEMMA RelabelStore ==
    ASSUME NEW p \in Clients, NEW k, Relabels(p, k) PROVE \A q \in Clients : KeepStore(q)
BY MoveStore DEF Relabels

\* Scans and uploads, but for a lookup.
LEMMA WorkStore ==
    ASSUME TaskInv, FilesInv, NEW p \in Clients,
           \/ ReadModel(p) \/ ListUpdates(p) \/ ScannedBranch(p) \/ ScannedUpdate(p)
           \/ FindUpload(p) \/ Create(p) \/ LabelUpdate(p) \/ ShowUpdate(p)
           \/ EditUpdate(p) \/ PublishUpdate(p) \/ WorkRejected(p)
           \/ \E d \in Deps : StoreVersions(p, d) \/ LookUpFails(p, d)
           \/ \E l \in DOMAIN task[p].want : TakeLabel(p, l)
    PROVE  \A q \in Clients : KeepStore(q)
<1>4. CASE LabelDone(p)
  BY <1>4, LabelDoneDoes, EndStore, RelabelStore
<1>5. CASE WorkFails(p)
  BY <1>5, WorkFailsDoes, EndStore, RelabelStore
<1>6. CASE ReadModel(p)
  BY <1>6, ReadModelDoes, MoveStore
<1>7. CASE ListUpdates(p)
  <2>1. Ends(p) \/ Moves(p, {"at", "seen", "model", "major", "base", "todo"})
    BY <1>7, ListUpdatesDoes
  <2> QED
    BY <2>1, EndStore, MoveStore
<1>8. CASE ScannedBranch(p)
  <2>1. Ends(p) \/ Moves(p, {"want", "at"})
    BY <1>8, ScannedBranchDoes
  <2> QED
    BY <2>1, EndStore, MoveStore
<1>9. CASE ScannedUpdate(p)
  <2>1. LabelDone(p) \/ Moves(p, {"want", "at"})
    BY <1>9, ScannedUpdateDoes
  <2> QED
    BY <1>4, <2>1, MoveStore
<1>10. CASE FindUpload(p) \/ Create(p) \/ LabelUpdate(p) \/ ShowUpdate(p) \/ EditUpdate(p)
            \/ PublishUpdate(p)
  <2>1. Moves(p, {"at"}) \/ Moves(p, {"id", "at"}) \/ LabelDone(p) \/ WorkFails(p)
    <3>1. CASE FindUpload(p)
      BY <3>1, FindUploadDoes
    <3>2. CASE Create(p)
      BY <3>2, CreateDoes
    <3>3. CASE LabelUpdate(p) \/ ShowUpdate(p)
      BY <3>3, LabelUpdateDoes, ShowUpdateDoes
    <3>4. CASE EditUpdate(p)
      BY <3>4, EditUpdateDoes
    <3>5. CASE PublishUpdate(p)
      BY <3>5, PublishUpdateDoes
    <3> QED
      BY <1>10, <3>1, <3>2, <3>3, <3>4, <3>5
  <2>2. Moves(p, {"at"}) \/ Moves(p, {"id", "at"}) => \A q \in Clients : KeepStore(q)
    BY MoveStore
  <2> QED
    BY <1>4, <1>5, <2>1, <2>2
<1>11. CASE WorkRejected(p)
  BY <1>5, <1>11 DEF WorkRejected
<1>12. ASSUME NEW d \in Deps, StoreVersions(p, d) \/ LookUpFails(p, d) PROVE \A q \in Clients : KeepStore(q)
  <2>1. /\ OthersStay(p)
        /\ task'[p].store = task[p].store \ {d} /\ task'[p].late = task[p].late \ {d}
        /\ task'[p].found = task[p].found \/ task'[p].found = Put(task[p].found, d, {})
    <3>1. CASE StoreVersions(p, d)
      BY <3>1, StoreVersionsDoes, TaskFieldsAre DEF Moves
    <3>2. CASE LookUpFails(p, d)
      BY <3>2, LookUpFailsDoes, TaskFieldsAre DEF Moves
    <3> QED
      BY <1>12, <3>1, <3>2
  <2>2. task[p].store \subseteq DOMAIN task[p].found
    BY DEF FilesInv, FilesOK, StoreOK
  <2>3. \A e \in task[p].store \ {d} : task'[p].found[e] = task[p].found[e]
    BY <2>1, <2>2 DEF Put, Over
  <2> QED
    BY <2>1, <2>3 DEF OthersStay, KeepStore
<1>13. CASE \E l \in DOMAIN task[p].want : TakeLabel(p, l)
  <2>1. /\ task[p].at = "labels"
        /\ Moves(p, {"label", "at"}) \/ Moves(p, {"label", "id", "at", "again", "base", "found", "todo"})
    BY <1>13, TakeLabelDoes
  <2>2. task[p].store = {}
    BY <2>1 DEF FilesInv, FilesOK, StoreOK
  <2>3. OthersStay(p) /\ task'[p].store = task[p].store
    BY <2>1, TaskFieldsAre DEF Moves
  <2> QED
    BY <2>2, <2>3, EmptyStore
<1> QED
  BY <1>6, <1>7, <1>8, <1>9, <1>10, <1>11, <1>12, <1>13

\* The handlers of a push: the one that drops the lists makes those that are read late.
LEMMA PushStore ==
    ASSUME TaskInv, FilesInv, NEW p \in Clients,
           \/ EnsurePushed(p) \/ ReadDependencies(p) \/ ReadIndex(p) \/ ReplaceIndex(p)
           \/ FindUsers(p) \/ AskScan(p) \/ PushRejected(p) \/ Invalidate(p)
    PROVE  /\ \A q \in Clients : KeepStore(q)
           /\ Invalidate(p) => \A q \in Clients : task'[q].store \ task'[q].late = {}
<1>1. CASE \/ EnsurePushed(p) \/ ReadDependencies(p) \/ ReadIndex(p) \/ ReplaceIndex(p)
           \/ FindUsers(p) \/ AskScan(p) \/ PushRejected(p)
  <2>1. Ends(p) \/ Moves(p, {"at"}) \/ Moves(p, {"at", "todo"}) \/ Moves(p, {"at", "tried", "todo"})
    <3>1. CASE EnsurePushed(p)
      BY <3>1, EnsurePushedDoes
    <3>2. CASE ReadDependencies(p)
      BY <3>2, ReadDependenciesDoes
    <3>3. CASE ReadIndex(p) \/ ReplaceIndex(p) \/ AskScan(p)
      BY <3>3, ReadIndexDoes, ReplaceIndexDoes, AskScanDoes
    <3>4. CASE FindUsers(p)
      BY <3>4, FindUsersDoes
    <3>5. CASE PushRejected(p)
      BY <3>5, PushRejectedDoes
    <3> QED
      BY <1>1, <3>1, <3>2, <3>3, <3>4, <3>5
  <2>2. ~Invalidate(p)
    <3>1. Invalidate(p) => task[p].at = "invalidate"
      BY InvalidateDoes
    <3>2. task[p].at # "invalidate"
      BY <1>1, EnsurePushedDoes, ReadDependenciesDoes, ReadIndexDoes, ReplaceIndexDoes, FindUsersDoes,
         AskScanDoes, PushRejectedDoes
    <3> QED
      BY <3>1, <3>2
  <2> QED
    BY <2>1, <2>2, EndStore, MoveStore
<1>2. CASE Invalidate(p)
  <2>1. /\ task[p].at = "invalidate"
        /\ \A q \in Clients : /\ \A x \in TaskFields \ {"at", "late"} : task'[q][x] = task[q][x]
                              /\ q # p => task'[q].late = task[q].late \cup task[q].store
    BY <1>2, InvalidateDoes
  <2>2. \A q \in Clients : task'[q].store = task[q].store
    BY <2>1, TaskFieldsAre
  <2>3. task[p].store = {}
    BY <2>1 DEF FilesInv, FilesOK, StoreOK
  <2>4. \A q \in Clients : task'[q].store \ task'[q].late = {}
    BY <2>1, <2>2, <2>3
  <2> QED
    BY <2>4 DEF KeepStore
<1> QED
  BY <1>1, <1>2

\* Releases and what starts.
LEMMA OtherStore ==
    ASSUME TaskInv, NEW p \in Clients,
           \/ Deliver(p)
           \/ \E m \in 1 .. 3 : AddMajor(p, m)
           \/ \E m \in 1 .. 3, sha \in 1 .. Main(Lib) : RequestRelease(p, m, sha)
           \/ \E d \in Deps, v \in Tagged : UploadContent(p, d, v)
           \/ ChooseVersion(p) \/ Publish(p) \/ SetTag(p) \/ ReleaseRejected(p)
           \/ \E s \in Sources : ApplyMajor(p, s)
    PROVE  \A q \in Clients : KeepStore(q)
<1>1. CASE \/ Deliver(p)
           \/ \E m \in 1 .. 3 : AddMajor(p, m)
           \/ \E m \in 1 .. 3, sha \in 1 .. Main(Lib) : RequestRelease(p, m, sha)
           \/ \E d \in Deps, v \in Tagged : UploadContent(p, d, v)
  <2>1. \E X : Starts(p, X) /\ "store" \notin X
    <3>1. CASE Deliver(p)
      BY <3>1, DeliverDoes
    <3>2. CASE \E m \in 1 .. 3 : AddMajor(p, m)
      BY <3>2, AddMajorDoes
    <3>3. CASE \E m \in 1 .. 3, sha \in 1 .. Main(Lib) : RequestRelease(p, m, sha)
      BY <3>3, RequestReleaseDoes
    <3>4. CASE \E d \in Deps, v \in Tagged : UploadContent(p, d, v)
      <4>1. Starts(p, {"kind", "at", "label", "want"})
        BY <3>4, UploadContentDoes
      <4> QED
        BY <4>1
    <3> QED
      BY <1>1, <3>1, <3>2, <3>3, <3>4
  <2>2. OthersStay(p) /\ task'[p].store = Idle.store
    BY <2>1, TaskFieldsAre DEF Starts
  <2> QED
    BY <2>2, EmptyStore DEF Idle
<1>2. CASE \/ ChooseVersion(p) \/ Publish(p) \/ SetTag(p) \/ ReleaseRejected(p)
           \/ \E s \in Sources : ApplyMajor(p, s)
  <2>1. Ends(p) \/ Moves(p, {"at", "version"}) \/ Moves(p, {"todo"})
    BY <1>2, ReleaseDoes, ApplyMajorDoes
  <2> QED
    BY <2>1, EndStore, MoveStore
<1> QED
  BY <1>1, <1>2

\* The tasks stay, or are lost in a restart.
LEMMA RestStore ==
    ASSUME \/ UNCHANGED task \/ task' = [p \in Clients |-> Idle]
    PROVE  \A q \in Clients : KeepStore(q)
BY DEF KeepStore, Idle

\* Every step.
LEMMA NextStore ==
    ASSUME FlowInv, FilesInv, [Next]_vars, ~ \E p \in Clients, d \in Deps : LookUp(p, d)
    PROVE  \A q \in Clients : KeepStore(q)
<1>1. CASE \E p \in Clients :
              \/ ReadModel(p) \/ ListUpdates(p) \/ ScannedBranch(p) \/ ScannedUpdate(p)
              \/ FindUpload(p) \/ Create(p) \/ LabelUpdate(p) \/ ShowUpdate(p)
              \/ EditUpdate(p) \/ PublishUpdate(p) \/ WorkRejected(p)
              \/ \E d \in Deps : StoreVersions(p, d) \/ LookUpFails(p, d)
              \/ \E l \in DOMAIN task[p].want : TakeLabel(p, l)
  BY <1>1, WorkStore DEF FlowInv
<1>2. CASE \E p \in Clients :
              \/ EnsurePushed(p) \/ ReadDependencies(p) \/ ReadIndex(p) \/ ReplaceIndex(p)
              \/ FindUsers(p) \/ AskScan(p) \/ PushRejected(p) \/ Invalidate(p)
  BY <1>2, PushStore DEF FlowInv
<1>3. CASE \E p \in Clients :
              \/ Deliver(p)
              \/ \E m \in 1 .. 3 : AddMajor(p, m)
              \/ \E m \in 1 .. 3, sha \in 1 .. Main(Lib) : RequestRelease(p, m, sha)
              \/ \E d \in Deps, v \in Tagged : UploadContent(p, d, v)
              \/ ChooseVersion(p) \/ Publish(p) \/ SetTag(p) \/ ReleaseRejected(p)
              \/ \E s \in Sources : ApplyMajor(p, s)
  BY <1>3, OtherStore DEF FlowInv
<1>4. CASE \/ UNCHANGED vars \/ MergeLib \/ PushTopic \/ \E m \in 1 .. 3 : CreatePatch(m)
           \/ \E d \in Refs : CacheExpires(d)
           \/ \E o \in Ops : BeginScan(o)
           \/ \E c \in calls : Land(c)
           \/ Restart \/ \E c \in calls : UploadFails(c)
           \/ \E u \in DOMAIN updates : MergeProposal(u)
           \/ \E d \in Deps : EditApp(d)
  <2>1. UNCHANGED task \/ task' = [p \in Clients |-> Idle]
    BY <1>4 DEF vars, MergeLib, PushTopic, CreatePatch, Outside, CacheExpires, BeginScan, Land, Restart,
                UploadFails, Restarted, MergeProposal, EditApp, AppMoves
  <2> QED
    BY <2>1, RestStore
<1> QED
  BY <1>1, <1>2, <1>3, <1>4 DEF Next, Step

\* The steps that write to the cache.
LEMMA WhatCaches ==
    ASSUME [Next]_vars
    PROVE  \/ UNCHANGED cache
           \/ \E p \in Clients, d \in Deps : StoreVersions(p, d) \/ LookUpFails(p, d)
           \/ \E d \in Refs : CacheExpires(d)
           \/ \E p \in Clients : Invalidate(p)
<1>1. CASE \/ \E p \in Clients :
              \/ ReadModel(p) \/ ListUpdates(p) \/ ScannedBranch(p) \/ ScannedUpdate(p)
              \/ FindUpload(p) \/ Create(p) \/ LabelUpdate(p) \/ ShowUpdate(p)
              \/ EditUpdate(p) \/ PublishUpdate(p) \/ WorkRejected(p)
              \/ \E d \in Deps : LookUp(p, d)
              \/ \E l \in DOMAIN task[p].want : TakeLabel(p, l)
           \/ \E p \in Clients :
              \/ EnsurePushed(p) \/ ReadDependencies(p) \/ ReadIndex(p) \/ ReplaceIndex(p)
              \/ FindUsers(p) \/ AskScan(p) \/ PushRejected(p)
  <2>1. CASE \E p \in Clients :
                \/ ReadModel(p) \/ ListUpdates(p) \/ ScannedBranch(p) \/ ScannedUpdate(p)
                \/ FindUpload(p) \/ Create(p) \/ LabelUpdate(p) \/ ShowUpdate(p)
                \/ EditUpdate(p) \/ PublishUpdate(p) \/ WorkRejected(p)
    BY <2>1 DEF ReadModel, ListUpdates, ScannedBranch, ScannedUpdate, FindUpload, Create, LabelUpdate,
                ShowUpdate, EditUpdate, PublishUpdate, WorkRejected
  <2>2. CASE \E p \in Clients :
                \/ \E d \in Deps : LookUp(p, d)
                \/ \E l \in DOMAIN task[p].want : TakeLabel(p, l)
                \/ EnsurePushed(p) \/ ReadDependencies(p) \/ ReadIndex(p) \/ ReplaceIndex(p)
                \/ FindUsers(p) \/ AskScan(p) \/ PushRejected(p)
    BY <2>2 DEF LookUp, TakeLabel, EnsurePushed, ReadDependencies, ReadIndex, ReplaceIndex, FindUsers, AskScan,
                PushRejected
  <2> QED
    BY <1>1, <2>1, <2>2
<1>2. CASE \/ \E p \in Clients :
              \/ Deliver(p)
              \/ \E m \in 1 .. 3 : AddMajor(p, m)
              \/ \E m \in 1 .. 3, sha \in 1 .. Main(Lib) : RequestRelease(p, m, sha)
              \/ \E d \in Deps, v \in Tagged : UploadContent(p, d, v)
           \/ \E p \in Clients : \/ ChooseVersion(p) \/ Publish(p) \/ SetTag(p) \/ ReleaseRejected(p)
                                 \/ \E s \in Sources : ApplyMajor(p, s)
           \/ UNCHANGED vars \/ MergeLib \/ PushTopic \/ \E m \in 1 .. 3 : CreatePatch(m)
           \/ \E u \in DOMAIN updates : MergeProposal(u)
           \/ \E d \in Deps : EditApp(d)
           \/ \E o \in Ops : BeginScan(o)
           \/ \E c \in calls : Land(c)
           \/ Restart \/ \E c \in calls : UploadFails(c)
  BY <1>2 DEF Deliver, AddMajor, RequestRelease, UploadContent, StartTask, ChooseVersion, Publish, SetTag,
       ReleaseRejected, ApplyMajor, ReleaseStep, vars, MergeLib, PushTopic, CreatePatch, Outside,
       MergeProposal, EditApp, AppMoves, BeginScan, Land, Restart, UploadFails, Restarted
<1> QED
  BY <1>1, <1>2 DEF Next, Step

\* A list that is read has the version.
LEMMA LookUpStore ==
    ASSUME TypesInv, NEW p \in Clients, NEW d \in Deps, LookUp(p, d), missed' # missed \cup Tagged,
           NEW v \in Tagged, IsFresh(v), v \in DOMAIN repo[Lib].clone.releases,
           NEW q \in Clients, NEW e \in task'[q].store \ task'[q].late
    PROVE  v \in task'[q].found[e]
<1>0. TaskInv /\ FilesInv
  BY DEF TypesInv, FlowInv
<1>1. CASE q # p
  <2>1. task'[q] = task[q]
    BY <1>0, <1>1, LookUpDoes DEF Moves, OthersStay
  <2>2. e \in Refs
    BY <1>0, <2>1, DepsAreRefs DEF FilesInv, FilesOK, StoreOK, TodoOK
  <2> QED
    BY <2>1, <2>2 DEF IsFresh
<1>2. CASE q = p /\ cache[d] = None
  <2>1. /\ Moves(p, {"found", "store"})
        /\ task'[p].found = Put(task[p].found, d, Listing(d))
        /\ task'[p].store = task[p].store \cup {d}
    BY <1>0, <1>2, LookUpDoes
  <2>2. task'[p].late = task[p].late
    BY <2>1, TaskFieldsAre DEF Moves
  <2>3. CASE e = d
    <3>1. task'[p].found[d] = Listing(d)
      BY <2>1 DEF Put, Over
    <3>2. d # "git" => Tagged \subseteq Listing(d)
      BY <1>2 DEF LookUp, MissedIf
    <3>3. d = "git" => Listing(d) = DOMAIN repo[Lib].clone.releases
      BY DEF Listing, AllVersions
    <3> QED
      BY <1>2, <2>3, <3>1, <3>2, <3>3
  <2>4. CASE e # d
    <3>1. e \in task[p].store \ task[p].late
      BY <1>2, <2>1, <2>2, <2>4
    <3>2. e \in DOMAIN task[p].found /\ e \in Refs
      BY <1>0, <3>1, DepsAreRefs DEF FilesInv, FilesOK, StoreOK, TodoOK
    <3>3. task'[p].found[e] = task[p].found[e]
      BY <2>1, <2>4, <3>2 DEF Put, Over
    <3> QED
      BY <1>2, <3>1, <3>2, <3>3 DEF IsFresh
  <2> QED
    BY <2>3, <2>4
<1>3. CASE q = p /\ cache[d] # None
  <2>1. /\ Moves(p, {"found", "todo"}) /\ d \notin task[p].store
        /\ \E y : task'[p].found = Put(task[p].found, d, y)
    BY <1>0, <1>3, LookUpDoes
  <2>2. task'[p].late = task[p].late /\ task'[p].store = task[p].store
    BY <2>1, TaskFieldsAre DEF Moves
  <2>3. e \in task[p].store \ task[p].late /\ e # d
    BY <1>3, <2>1, <2>2
  <2>4. e \in DOMAIN task[p].found /\ e \in Refs
    BY <1>0, <2>3, DepsAreRefs DEF FilesInv, FilesOK, StoreOK, TodoOK
  <2>5. task'[p].found[e] = task[p].found[e]
    BY <2>1, <2>3, <2>4 DEF Put, Over
  <2> QED
    BY <1>3, <2>3, <2>4, <2>5 DEF IsFresh
<1> QED
  BY <1>1, <1>2, <1>3

\* Once the lists are dropped none is cached that lacks the version.
LEMMA NextFresh ==
    ASSUME TypesInv, [Next]_vars, \A p \in Clients : PushGoes(p), HasTag, FreshCache PROVE FreshCache'
<1> SUFFICES ASSUME NEW p \in Clients, Announced(p)', task'[p].at \in Heard, task'[p].version \notin missed',
                    NEW v, v = task'[p].version
             PROVE  IsFresh(v)'
  BY DEF FreshCache
<1>0. TaskInv /\ FilesInv /\ WorldInv /\ FlowInv
  BY DEF TypesInv, FlowInv
<1>1. Announced(p) /\ v = task[p].version /\ PushGoes(p) /\ task'[p].kind = "push" /\ task'[p].at # "ensure"
  <2>1. task'[p].at # "ensure"
    BY DEF Heard, Post
  <2> QED
    BY <2>1, AnnouncedBefore DEF Announced
<1>2. v \in Tagged /\ v \notin missed /\ missed' # missed \cup Tagged
  BY <1>0, <1>1, AnnouncedIsTagged, MissedGrows
<1>3. CASE \E q \in Clients : Invalidate(q)
  <2>1. PICK q \in Clients : Invalidate(q)
    BY <1>3
  <2>2. \A d \in Refs : cache'[d] = None
    BY <2>1, SourcesAreTwo DEF Invalidate, ReleasedRefs
  <2>3. \A w \in Clients : task'[w].store \ task'[w].late = {}
    BY <1>0, <2>1, PushStore
  <2> QED
    BY <2>2, <2>3 DEF IsFresh
<1>4. CASE ~ \E q \in Clients : Invalidate(q)
  <2>1. task[p].at \in Heard /\ task[p].at # "ensure"
    BY <1>1, <1>4 DEF PushGoes, Heard, Post
  <2>2. IsFresh(v) /\ v \in DOMAIN repo[Lib].clone.releases
    BY <1>1, <1>2, <2>1 DEF FreshCache, HasTag
  <2>3. ASSUME NEW d \in Refs PROVE cache'[d] = None \/ cache'[d] = Invalid \/ v \in cache'[d]
    <3>1. CASE UNCHANGED cache
      BY <2>2, <3>1 DEF IsFresh
    <3>2. ASSUME NEW q \in Clients, NEW e \in Deps, StoreVersions(q, e)
          PROVE  cache'[d] = None \/ cache'[d] = Invalid \/ v \in cache'[d]
      <4>1. e \in task[q].store \ task[q].late /\ e \in Refs
        BY <1>2, <3>2, DepsAreRefs DEF StoreVersions, MissedIf
      <4>2. v \in task[q].found[e]
        BY <2>2, <4>1 DEF IsFresh
      <4>3. cache'[d] = cache[d] \/ (d = e /\ cache'[d] = task[q].found[e])
        BY <3>2 DEF StoreVersions
      <4> QED
        BY <2>2, <4>2, <4>3 DEF IsFresh
    <3>3. ASSUME NEW q \in Clients, NEW e \in Deps, LookUpFails(q, e) PROVE FALSE
      BY <1>2, <3>3 DEF LookUpFails, MissedIf
    <3>4. ASSUME NEW e \in Refs, CacheExpires(e) PROVE cache'[d] = cache[d] \/ cache'[d] = None
      BY <3>4 DEF CacheExpires
    <3> QED
      BY <1>4, <2>2, <3>1, <3>2, <3>3, <3>4, WhatCaches DEF IsFresh
  <2>4. ASSUME NEW d \in Refs, NEW q \in Clients, d \in task'[q].store \ task'[q].late
        PROVE  v \in task'[q].found[d]
    <3>1. CASE \E w \in Clients, e \in Deps : LookUp(w, e)
      BY <1>2, <2>2, <2>4, <3>1, LookUpStore
    <3>2. CASE ~ \E w \in Clients, e \in Deps : LookUp(w, e)
      <4>1. KeepStore(q)
        BY <1>0, <3>2, NextStore
      <4> QED
        BY <2>2, <2>4, <4>1 DEF KeepStore, IsFresh
    <3> QED
      BY <3>1, <3>2
  <2> QED
    BY <2>3, <2>4 DEF IsFresh
<1> QED
  BY <1>3, <1>4

-----------------------------------------------------------------------------
\* Whose step it is.

Same(q) == \A x \in TaskFields \ {"late"} : task'[q][x] = task[q][x]
WorkActs(p) ==
    \/ ReadModel(p) \/ ListUpdates(p) \/ ScannedBranch(p) \/ ScannedUpdate(p)
    \/ FindUpload(p) \/ Create(p) \/ LabelUpdate(p) \/ ShowUpdate(p)
    \/ EditUpdate(p) \/ PublishUpdate(p) \/ WorkRejected(p)
    \/ \E d \in Deps : LookUp(p, d) \/ StoreVersions(p, d) \/ LookUpFails(p, d)
    \/ \E l \in DOMAIN task[p].want : TakeLabel(p, l)
PushActs(p) ==
    \/ EnsurePushed(p) \/ ReadDependencies(p) \/ ReadIndex(p) \/ ReplaceIndex(p)
    \/ FindUsers(p) \/ AskScan(p) \/ PushRejected(p) \/ Invalidate(p)
Acts(p) == WorkActs(p) \/ PushActs(p)

\* What others do not touch.
LEMMA OtherSame ==
    ASSUME NEW p \in Clients, OthersStay(p), NEW q \in Clients, q # p PROVE Same(q)
BY DEF OthersStay, Same

\* A task that ends is no business of others.
LEMMA EndOthers == ASSUME NEW p \in Clients, Ends(p) PROVE OthersStay(p)
BY DEF Ends

\* Nor is one that moves.
LEMMA MoveOthers == ASSUME NEW p \in Clients, NEW X, Moves(p, X) PROVE OthersStay(p)
BY DEF Moves

\* Scans and uploads leave the tasks of others alone.
LEMMA WorkOthers ==
    ASSUME TaskInv, NEW p \in Clients, WorkActs(p) PROVE OthersStay(p)
<1>4. CASE LabelDone(p)
  BY <1>4, LabelDoneDoes, EndOthers, MoveOthers DEF Relabels
<1>5. CASE WorkFails(p)
  BY <1>5, WorkFailsDoes, EndOthers, MoveOthers DEF Relabels
<1>6. CASE ReadModel(p)
  BY <1>6, ReadModelDoes, MoveOthers
<1>7. CASE ListUpdates(p)
  <2>1. Ends(p) \/ Moves(p, {"at", "seen", "model", "major", "base", "todo"})
    BY <1>7, ListUpdatesDoes
  <2> QED
    BY <2>1, EndOthers, MoveOthers
<1>8. CASE ScannedBranch(p)
  <2>1. Ends(p) \/ Moves(p, {"want", "at"})
    BY <1>8, ScannedBranchDoes
  <2> QED
    BY <2>1, EndOthers, MoveOthers
<1>9. CASE ScannedUpdate(p)
  <2>1. LabelDone(p) \/ Moves(p, {"want", "at"})
    BY <1>9, ScannedUpdateDoes
  <2> QED
    BY <1>4, <2>1, MoveOthers
<1>10. CASE FindUpload(p) \/ Create(p) \/ LabelUpdate(p) \/ ShowUpdate(p) \/ EditUpdate(p)
            \/ PublishUpdate(p)
  <2>1. Moves(p, {"at"}) \/ Moves(p, {"id", "at"}) \/ LabelDone(p) \/ WorkFails(p)
    <3>1. CASE FindUpload(p)
      BY <3>1, FindUploadDoes
    <3>2. CASE Create(p)
      BY <3>2, CreateDoes
    <3>3. CASE LabelUpdate(p) \/ ShowUpdate(p)
      BY <3>3, LabelUpdateDoes, ShowUpdateDoes
    <3>4. CASE EditUpdate(p)
      BY <3>4, EditUpdateDoes
    <3>5. CASE PublishUpdate(p)
      BY <3>5, PublishUpdateDoes
    <3> QED
      BY <1>10, <3>1, <3>2, <3>3, <3>4, <3>5
  <2> QED
    BY <1>4, <1>5, <2>1, MoveOthers
<1>11. CASE WorkRejected(p)
  BY <1>5, <1>11 DEF WorkRejected
<1>12. CASE \E d \in Deps : LookUp(p, d) \/ StoreVersions(p, d) \/ LookUpFails(p, d)
  <2>1. \/ Moves(p, {"found", "store"}) \/ Moves(p, {"found", "todo"})
        \/ Moves(p, {"todo", "store", "late"}) \/ Moves(p, {"found", "todo", "store", "late"})
    BY <1>12, LookUpDoes, StoreVersionsDoes, LookUpFailsDoes
  <2> QED
    BY <2>1, MoveOthers
<1>13. CASE \E l \in DOMAIN task[p].want : TakeLabel(p, l)
  <2>1. \/ Moves(p, {"label", "at"})
        \/ Moves(p, {"label", "id", "at", "again", "base", "found", "todo"})
    BY <1>13, TakeLabelDoes
  <2> QED
    BY <2>1, MoveOthers
<1> QED
  BY <1>6, <1>7, <1>8, <1>9, <1>10, <1>11, <1>12, <1>13 DEF WorkActs

\* The handlers of a push do, but for what they make late.
LEMMA PushOthers ==
    ASSUME TaskInv, NEW p \in Clients, PushActs(p), NEW q \in Clients, q # p PROVE Same(q)
<1>1. CASE \/ EnsurePushed(p) \/ ReadDependencies(p) \/ ReadIndex(p) \/ ReplaceIndex(p)
           \/ FindUsers(p) \/ AskScan(p) \/ PushRejected(p)
  <2>1. Ends(p) \/ Moves(p, {"at"}) \/ Moves(p, {"at", "todo"}) \/ Moves(p, {"at", "tried", "todo"})
    <3>1. CASE EnsurePushed(p)
      BY <3>1, EnsurePushedDoes
    <3>2. CASE ReadDependencies(p)
      BY <3>2, ReadDependenciesDoes
    <3>3. CASE ReadIndex(p) \/ ReplaceIndex(p) \/ AskScan(p)
      BY <3>3, ReadIndexDoes, ReplaceIndexDoes, AskScanDoes
    <3>4. CASE FindUsers(p)
      BY <3>4, FindUsersDoes
    <3>5. CASE PushRejected(p)
      BY <3>5, PushRejectedDoes
    <3> QED
      BY <1>1, <3>1, <3>2, <3>3, <3>4, <3>5
  <2> QED
    BY <2>1, EndOthers, MoveOthers, OtherSame
<1>2. CASE Invalidate(p)
  <2>1. /\ \A x \in TaskFields \ {"at", "late"} : task'[q][x] = task[q][x]
        /\ task'[q].at = task[q].at
    BY <1>2, InvalidateDoes
  <2> QED
    BY <2>1 DEF Same
<1> QED
  BY <1>1, <1>2 DEF PushActs

\* Releases and what starts do, and are no step of a push.
LEMMA PlainOthers ==
    ASSUME TaskInv, NEW p \in Clients,
           \/ Deliver(p)
           \/ \E m \in 1 .. 3 : AddMajor(p, m)
           \/ \E m \in 1 .. 3, sha \in 1 .. Main(Lib) : RequestRelease(p, m, sha)
           \/ \E d \in Deps, v \in Tagged : UploadContent(p, d, v)
           \/ ChooseVersion(p) \/ Publish(p) \/ SetTag(p) \/ ReleaseRejected(p)
           \/ \E s \in Sources : ApplyMajor(p, s)
    PROVE  OthersStay(p) /\ task[p].kind # "push"
<1>1. CASE \/ Deliver(p)
           \/ \E m \in 1 .. 3 : AddMajor(p, m)
           \/ \E m \in 1 .. 3, sha \in 1 .. Main(Lib) : RequestRelease(p, m, sha)
           \/ \E d \in Deps, v \in Tagged : UploadContent(p, d, v)
  BY <1>1, DeliverDoes, AddMajorDoes, RequestReleaseDoes, UploadContentDoes DEF Starts
<1>2. CASE \/ ChooseVersion(p) \/ Publish(p) \/ SetTag(p) \/ ReleaseRejected(p)
           \/ \E s \in Sources : ApplyMajor(p, s)
  BY <1>2, ReleaseDoes, ApplyMajorDoes, EndOthers, MoveOthers
<1> QED
  BY <1>1, <1>2

\* A task that is a push stays as it is, but for what is late, or it is its step.
LEMMA NextActor ==
    ASSUME TaskInv, [Next]_vars, NEW r \in Tagged, r \notin missed', NEW q \in Clients, task[q].kind = "push"
    PROVE  Same(q) \/ Acts(q)
<1>1. CASE \E p \in Clients : WorkActs(p)
  BY <1>1, WorkOthers, OtherSame DEF Acts
<1>2. CASE \E p \in Clients : PushActs(p)
  BY <1>2, PushOthers DEF Acts
<1>3. CASE \E p \in Clients :
              \/ Deliver(p)
              \/ \E m \in 1 .. 3 : AddMajor(p, m)
              \/ \E m \in 1 .. 3, sha \in 1 .. Main(Lib) : RequestRelease(p, m, sha)
              \/ \E d \in Deps, v \in Tagged : UploadContent(p, d, v)
              \/ ChooseVersion(p) \/ Publish(p) \/ SetTag(p) \/ ReleaseRejected(p)
              \/ \E s \in Sources : ApplyMajor(p, s)
  BY <1>3, PlainOthers, OtherSame
<1>4. CASE \/ UNCHANGED vars \/ MergeLib \/ PushTopic \/ \E m \in 1 .. 3 : CreatePatch(m)
           \/ \E d \in Refs : CacheExpires(d)
           \/ \E o \in Ops : BeginScan(o)
           \/ \E c \in calls : Land(c)
           \/ Restart \/ \E c \in calls : UploadFails(c)
           \/ \E u \in DOMAIN updates : MergeProposal(u)
           \/ \E d \in Deps : EditApp(d)
  <2>1. UNCHANGED task \/ Restart \/ \E c \in calls : UploadFails(c)
    BY <1>4 DEF vars, MergeLib, PushTopic, CreatePatch, Outside, CacheExpires, BeginScan, Land,
                MergeProposal, EditApp, AppMoves
  <2>2. CASE UNCHANGED task
    BY <2>2 DEF Same
  <2>3. ASSUME Restart \/ \E c \in calls : UploadFails(c)
        PROVE  FALSE
    <3>1. \E C : missed' = missed \cup Tagged \cup C
      BY <2>3 DEF Restart, UploadFails, Restarted
    <3> QED
      BY <3>1
  <2> QED
    BY <2>1, <2>2, <2>3
<1> QED
  BY <1>1, <1>2, <1>3, <1>4 DEF Next, Step, WorkActs, PushActs

-----------------------------------------------------------------------------
\* A release is on its way: Gerrit tells of it, or the push is handled and not scanned
\* for yet.

On(p, v) == Announced(p) /\ task[p].version = v
Early == {"ensure", "invalidate", "lookup", "ask", "scan", "list"}
Coming(v) ==
    \/ \E n \in DOMAIN stream : stream[n] = Event(Lib, "release", v)
    \/ \E p \in Clients : On(p, v) /\ task[p].at \in Early

\* The version is found, or what was found is still to be read; the content to be
\* written has it.
Found(p, d) ==
    \/ d \in task[p].todo \ task[p].store
    \/ d \in DOMAIN task[p].found /\ task[p].version \in task[p].found[d]
Wants(p, d) == LET l == LabelOf[d] IN
    /\ l \in DOMAIN task[p].want /\ d \in DOMAIN task[p].want[l]
    /\ ~Lower(task[p].want[l][d], task[p].version)

\* What a scan is about to do for a dependency: the main branch is scanned, the change
\* that has the label is, a label waits or is worked on, another label is.
Reads(p, d) == LET t == task[p] IN
    t.at = "look" /\ ~t.again /\ t.base[d] # Undefined /\ Lower(t.base[d], t.version) /\ Found(p, d)
ReadsAgain(p, d) == LET t == task[p] IN
    /\ t.at = "look" /\ t.again /\ LabelOf[d] = t.label /\ t.base[d] # Undefined /\ Found(p, d)
    /\ t.id \in DOMAIN t.seen /\ t.seen[t.id].label = t.label /\ t.base = t.seen[t.id].file
Writes(p, d) == task[p].at \in {"labels", "create", "label", "show", "edit"} /\ Wants(p, d)
Later(p, d) == LET t == task[p] IN
    /\ t.at = "publish" \/ (t.at = "look" /\ t.again)
    /\ LabelOf[d] # t.label /\ Wants(p, d)
Publishes(p, d) == LET t == task[p] IN
    t.at = "publish" /\ LabelOf[d] = t.label /\ Waits(t.id, t.version, d)
ForDep(p, d) == Reads(p, d) \/ ReadsAgain(p, d) \/ Writes(p, d) \/ Later(p, d) \/ Publishes(p, d)

\* A release that may not be missed is proposed, on its way, or about to be proposed.
Cared(v, d) == Proposed(v, d) \/ Coming(v) \/ \E p \in Clients : On(p, v) /\ ForDep(p, d)
Handled == \A v \in Tagged \ missed, d \in Deps : Cared(v, d)

\* What is proposed stays so.
LEMMA ProposedStays ==
    ASSUME TypesInv, [Next]_vars, NEW v \in Tagged, NEW d \in Deps, missed' # missed \cup Tagged, Proposed(v, d)
    PROVE  Proposed(v, d)'
<1>1. Kept /\ EditsKept
  BY NextKeeps, NextEdits
<1>2. v \in Values
  BY DEF Values, Known
<1>3. CASE Up(v, d)
  BY <1>1, <1>2, <1>3 DEF Kept, Up, Proposed
<1>4. ASSUME NEW u \in OpenUpdates, updates[u].label = LabelOf[d], ~Lower(updates[u].file[d], v)
      PROVE  Proposed(v, d)'
  <2>1. u \in DOMAIN updates /\ Holds(u, v, d) /\ updates[u].label # NoLabel
    BY <1>4, DepsAreRefs DEF OpenUpdates, Holds
  <2>2. updates'[u].label = LabelOf[d]
    BY <1>1, <1>4, <2>1 DEF EditsKept, LabelStays
  <2>3. Holds(u, v, d)' \/ Up(v, d)'
    BY <1>1, <1>2, <2>1 DEF Kept
  <2> QED
    BY <2>2, <2>3 DEF Holds, Up, Proposed
<1> QED
  BY <1>3, <1>4 DEF Proposed, Up

\* What is proposed by the edit of a change that has the label.
LEMMA HeldIsProposed ==
    ASSUME NEW v, NEW d \in Deps, NEW u, Holds(u, v, d), updates[u].label = LabelOf[d]
    PROVE  Proposed(v, d)
BY DEF Holds, Proposed

-----------------------------------------------------------------------------
\* The events.

\* Events come at the end, and are taken at the front by those who handle them.
LEMMA NextStream ==
    ASSUME [Next]_vars
    PROVE  \/ UNCHANGED stream
           \/ \E e : stream' = Append(stream, e)
           \/ \E p \in Clients : Deliver(p)
<1>1. CASE \/ \E p \in Clients : WorkActs(p) \/ PushActs(p)
           \/ \E p \in Clients :
              \/ \E m \in 1 .. 3 : AddMajor(p, m)
              \/ \E m \in 1 .. 3, sha \in 1 .. Main(Lib) : RequestRelease(p, m, sha)
              \/ \E d \in Deps, v \in Tagged : UploadContent(p, d, v)
              \/ ChooseVersion(p) \/ Publish(p) \/ ReleaseRejected(p)
           \/ UNCHANGED vars
           \/ \E d \in Refs : CacheExpires(d)
           \/ \E o \in Ops : BeginScan(o)
           \/ \E c \in calls : Land(c)
           \/ Restart \/ \E c \in calls : UploadFails(c)
  <2>1. CASE \E p \in Clients : WorkActs(p) \/ PushActs(p)
    <3>1. ASSUME NEW p \in Clients, WorkActs(p) PROVE UNCHANGED stream
      BY <3>1, WorkLeavesWorld DEF WorkActs
    <3>2. ASSUME NEW p \in Clients, PushActs(p) PROVE UNCHANGED stream
      BY <3>2 DEF PushActs, EnsurePushed, ReadDependencies, ReadIndex, ReplaceIndex, FindUsers, AskScan,
           PushRejected, Invalidate, PushStep
    <3> QED
      BY <2>1, <3>1, <3>2
  <2>2. CASE \/ \E p \in Clients :
                \/ \E m \in 1 .. 3 : AddMajor(p, m)
                \/ \E m \in 1 .. 3, sha \in 1 .. Main(Lib) : RequestRelease(p, m, sha)
                \/ \E d \in Deps, v \in Tagged : UploadContent(p, d, v)
                \/ ChooseVersion(p) \/ Publish(p) \/ ReleaseRejected(p)
    BY <2>2 DEF AddMajor, RequestRelease, UploadContent, ChooseVersion, Publish, ReleaseRejected
  <2>3. CASE \/ UNCHANGED vars
             \/ \E d \in Refs : CacheExpires(d)
             \/ \E o \in Ops : BeginScan(o)
             \/ \E c \in calls : Land(c)
             \/ Restart \/ \E c \in calls : UploadFails(c)
    BY <2>3 DEF vars, CacheExpires, BeginScan, Land, Restart, UploadFails, Restarted
  <2> QED
    BY <1>1, <2>1, <2>2, <2>3
<1>2. CASE \E p \in Clients : SetTag(p) \/ \E s \in Sources : ApplyMajor(p, s)
  BY <1>2 DEF SetTag, ApplyMajor
<1>3. CASE MergeLib \/ PushTopic \/ \E m \in 1 .. 3 : CreatePatch(m)
  BY <1>3 DEF MergeLib, PushTopic, CreatePatch
<1>4. CASE (\E u \in DOMAIN updates : MergeProposal(u)) \/ \E d \in Deps : EditApp(d)
  BY <1>4 DEF MergeProposal, EditApp, AppMoves
<1> QED
  BY <1>1, <1>2, <1>3, <1>4 DEF Next, Step, WorkActs, PushActs

\* A release that is told of is, or is being handled.
LEMMA EventComes ==
    ASSUME TaskInv, [Next]_vars, NEW v, NEW n \in DOMAIN stream, stream[n] = Event(Lib, "release", v)
    PROVE  Coming(v)'
<1>0. PICK S : stream \in Seq(S)
  BY DEF TaskInv
<1>1. CASE UNCHANGED stream
  BY <1>1 DEF Coming
<1>2. CASE \E e : stream' = Append(stream, e)
  <2>1. PICK e : stream' = Append(stream, e)
    BY <1>2
  <2>2. stream \in Seq(S \cup {e}) /\ e \in S \cup {e}
    BY <1>0
  <2>3. n \in DOMAIN stream' /\ stream'[n] = stream[n]
    BY <2>1, <2>2
  <2> QED
    BY <2>3 DEF Coming
<1>3. ASSUME NEW p \in Clients, Deliver(p) PROVE Coming(v)'
  <2>1. stream # <<>> /\ stream' = Tail(stream)
    BY <1>3, DeliverDoes
  <2>2. CASE n = 1
    <3>1. Head(stream) = Event(Lib, "release", v)
      BY <1>0, <2>1, <2>2
    <3>2. /\ task'[p].kind = "push" /\ task'[p].at = "ensure" /\ task'[p].source = Lib
          /\ task'[p].ref = "release" /\ task'[p].version = v
      BY <1>3, <3>1, DeliverDoes DEF Event
    <3> QED
      BY <3>2 DEF Coming, On, Announced, Early
  <2>3. CASE n # 1
    <3>1. n - 1 \in DOMAIN stream' /\ stream'[n - 1] = stream[n]
      BY <1>0, <2>1, <2>3
    <3> QED
      BY <3>1 DEF Coming
  <2> QED
    BY <2>2, <2>3
<1> QED
  BY <1>1, <1>2, <1>3, NextStream

\* A merge sets no tag.
LEMMA MainSetsNoTag ==
    ASSUME FlowInv, NEW s \in Sources, NEW y, repo' = [repo EXCEPT ![s].remote.main = y]
    PROVE  Tagged' = Tagged
<1>1. /\ Elsewhere(s)
      /\ \A x \in RefFields : repo'[s].remote[x] = IF x = "main" THEN y ELSE repo[s].remote[x]
  BY RemoteMainChanges DEF FlowInv, RepoInv
<1>2. repo'[s].remote.releases = repo[s].remote.releases
  BY <1>1 DEF RefFields
<1> QED
  BY <1>1, <1>2, LibIsSource DEF Elsewhere, Tagged

\* Nor does a new major.
LEMMA MajorsSetNoTag ==
    ASSUME FlowInv, NEW s \in Sources, NEW y, repo' = [repo EXCEPT ![s].remote.majors = y]
    PROVE  Tagged' = Tagged
<1>1. /\ Elsewhere(s)
      /\ \A x \in RefFields : repo'[s].remote[x] = IF x = "majors" THEN y ELSE repo[s].remote[x]
  BY RemoteMajorsChanges DEF FlowInv, RepoInv
<1>2. repo'[s].remote.releases = repo[s].remote.releases
  BY <1>1 DEF RefFields
<1> QED
  BY <1>1, <1>2, LibIsSource DEF Elsewhere, Tagged

\* Nor does a new patch branch.
LEMMA PatchesSetNoTag ==
    ASSUME FlowInv, NEW s \in Sources, NEW y, repo' = [repo EXCEPT ![s].remote.patches = y]
    PROVE  Tagged' = Tagged
<1>1. /\ Elsewhere(s)
      /\ \A x \in RefFields : repo'[s].remote[x] = IF x = "patches" THEN y ELSE repo[s].remote[x]
  BY RemotePatchesChanges DEF FlowInv, RepoInv
<1>2. repo'[s].remote.releases = repo[s].remote.releases
  BY <1>1 DEF RefFields
<1> QED
  BY <1>1, <1>2, LibIsSource DEF Elsewhere, Tagged

\* Nor does a fetch.
LEMMA CloneSetsNoTag ==
    ASSUME FlowInv, NEW s \in Sources, NEW C, RefsShape(C), repo' = [repo EXCEPT ![s].clone = C]
    PROVE  Tagged' = Tagged
BY CloneChanges, LibIsSource DEF Elsewhere, Tagged, FlowInv, RepoInv

\* Other references come and go without a tag.
LEMMA SameTags ==
    ASSUME FlowInv, NEW s \in Sources,
           \/ UNCHANGED repo
           \/ \E y : repo' = [repo EXCEPT ![s].remote.main = y]
           \/ \E y : repo' = [repo EXCEPT ![s].remote.majors = y]
           \/ \E y : repo' = [repo EXCEPT ![s].remote.patches = y]
           \/ \E C : RefsShape(C) /\ repo' = [repo EXCEPT ![s].clone = C]
    PROVE  Tagged' = Tagged
BY MainSetsNoTag, MajorsSetNoTag, PatchesSetNoTag, CloneSetsNoTag DEF Tagged

\* createTag alone sets a tag.
LEMMA NextTags ==
    ASSUME FlowInv, WorldInv, [Next]_vars, ~ \E p \in Clients : SetTag(p) PROVE Tagged' = Tagged
<1>1. CASE \E p \in Clients : WorkActs(p)
  <2>1. UNCHANGED repo
    BY <1>1, WorkLeavesReleases DEF WorkActs
  <2> QED
    BY <2>1, SameTags, LibIsSource
<1>2. CASE \E p \in Clients : PushActs(p)
  <2>1. PICK p \in Clients : PushActs(p)
    BY <1>2
  <2>2. CASE EnsurePushed(p) \/ PushRejected(p)
    <3>1. PICK s : s = task[p].source
      OBVIOUS
    <3>2. /\ s \in Sources
          /\ UNCHANGED repo \/ \E C : RefsShape(C) /\ repo' = [repo EXCEPT ![s].clone = C]
      BY <2>2, <3>1, FetchChanges
    <3> QED
      BY <3>2, SameTags
  <2>3. CASE ~(EnsurePushed(p) \/ PushRejected(p))
    <3>1. UNCHANGED repo
      BY <2>1, <2>3 DEF PushActs, ReadDependencies, ReadIndex, ReplaceIndex, FindUsers, AskScan, Invalidate
    <3> QED
      BY <3>1, SameTags, LibIsSource
  <2> QED
    BY <2>2, <2>3
<1>3. CASE \E p \in Clients, s \in Sources : ApplyMajor(p, s)
  <2>1. PICK p \in Clients, s \in Sources : ApplyMajor(p, s)
    BY <1>3
  <2>2. UNCHANGED repo \/ \E y : repo' = [repo EXCEPT ![s].remote.majors = y]
    BY <2>1 DEF ApplyMajor
  <2> QED
    BY <2>2, SameTags
<1>4. CASE MergeLib \/ (\E u \in DOMAIN updates : MergeProposal(u)) \/ \E d \in Deps : EditApp(d)
  <2>1. \E s \in {Lib, App} : repo' = [repo EXCEPT ![s].remote.main = @ + 1]
    BY <1>4 DEF MergeLib, MergeProposal, EditApp, AppMoves
  <2>2. PICK s \in Sources : \E y : repo' = [repo EXCEPT ![s].remote.main = y]
    BY <2>1, SourcesAreTwo
  <2> QED
    BY <2>2, SameTags
<1>5. CASE \E m \in 1 .. 3 : CreatePatch(m)
  <2>1. \E y : repo' = [repo EXCEPT ![Lib].remote.patches = y]
    BY <1>5 DEF CreatePatch, CreateBranch
  <2> QED
    BY <2>1, SameTags, LibIsSource
<1>6. CASE \/ \E p \in Clients :
              \/ Deliver(p)
              \/ \E m \in 1 .. 3 : AddMajor(p, m)
              \/ \E m \in 1 .. 3, sha \in 1 .. Main(Lib) : RequestRelease(p, m, sha)
              \/ \E d \in Deps, v \in Tagged : UploadContent(p, d, v)
              \/ ChooseVersion(p) \/ Publish(p) \/ ReleaseRejected(p)
           \/ UNCHANGED vars \/ PushTopic
           \/ \E d \in Refs : CacheExpires(d)
           \/ \E o \in Ops : BeginScan(o)
           \/ \E c \in calls : Land(c)
           \/ Restart \/ \E c \in calls : UploadFails(c)
  <2>1. UNCHANGED repo
    BY <1>6 DEF Deliver, AddMajor, RequestRelease, UploadContent, StartTask, ChooseVersion, Publish,
                ReleaseRejected, vars, PushTopic, CacheExpires, BeginScan, Land, Restart, UploadFails,
                Restarted
  <2> QED
    BY <2>1, SameTags, LibIsSource
<1> QED
  BY <1>1, <1>2, <1>3, <1>4, <1>5, <1>6 DEF Next, Step, WorkActs, PushActs

\* A tag that is set is told of.
LEMMA NewTagComes ==
    ASSUME FlowInv, WorldInv, [Next]_vars, NEW v, v \in Tagged', v \notin Tagged PROVE Coming(v)'
<1>1. PICK p \in Clients : SetTag(p)
  BY NextTags
<1>2. PICK w, sha : w = task[p].version /\ sha = task[p].sha
  OBVIOUS
<1>3. \/ UNCHANGED repo
      \/ /\ repo' = [repo EXCEPT ![Lib].remote.releases = Put(@, w, sha)]
         /\ stream' = Append(stream, Event(Lib, "release", w))
  BY <1>1, <1>2 DEF SetTag
<1>4. CASE UNCHANGED repo
  BY <1>4 DEF Tagged
<1>5. CASE /\ repo' = [repo EXCEPT ![Lib].remote.releases = Put(@, w, sha)]
           /\ stream' = Append(stream, Event(Lib, "release", w))
  <2> DEFINE y == Put(repo[Lib].remote.releases, w, sha)
  <2>1. repo' = [repo EXCEPT ![Lib].remote.releases = y]
    BY <1>5
  <2>2. DOMAIN y = DOMAIN repo[Lib].remote.releases \cup {w}
    BY DEF Put, Over
  <2> HIDE DEF y
  <2>3. \A x \in RefFields : repo'[Lib].remote[x] = IF x = "releases" THEN y ELSE repo[Lib].remote[x]
    BY <2>1, LibIsSource, RemoteReleasesChanges DEF FlowInv, RepoInv
  <2>4. repo'[Lib].remote.releases = y
    BY <2>3 DEF RefFields
  <2>5. v = w
    BY <2>2, <2>4 DEF Tagged
  <2>6. PICK S : stream \in Seq(S)
    BY DEF FlowInv, TaskInv
  <2>7. PICK e : e = Event(Lib, "release", w)
    OBVIOUS
  <2>8. stream \in Seq(S \cup {e}) /\ e \in S \cup {e} /\ stream' = Append(stream, e)
    BY <1>5, <2>6, <2>7
  <2>9. Len(stream) + 1 \in DOMAIN stream' /\ stream'[Len(stream) + 1] = e
    BY <2>8
  <2> QED
    BY <2>5, <2>7, <2>9 DEF Coming, Event
<1> QED
  BY <1>3, <1>4, <1>5

\* The fields of a task that is not that of the step.
LEMMA SameFields ==
    ASSUME NEW p \in Clients, Same(p)
    PROVE  /\ task'[p].kind = task[p].kind /\ task'[p].at = task[p].at /\ task'[p].source = task[p].source
           /\ task'[p].ref = task[p].ref /\ task'[p].version = task[p].version
           /\ task'[p].todo = task[p].todo /\ task'[p].store = task[p].store
           /\ task'[p].base = task[p].base /\ task'[p].seen = task[p].seen
           /\ task'[p].found = task[p].found /\ task'[p].want = task[p].want
           /\ task'[p].label = task[p].label /\ task'[p].id = task[p].id /\ task'[p].again = task[p].again
BY TaskFieldsAre DEF Same

\* A push that moves on is the push of the same release.
LEMMA MoveOn ==
    ASSUME NEW p \in Clients, NEW X, Moves(p, X), {"kind", "source", "ref", "version"} \cap X = {},
           NEW v, On(p, v)
    PROVE  On(p, v)'
<1>1. /\ task'[p].kind = task[p].kind /\ task'[p].source = task[p].source
      /\ task'[p].ref = task[p].ref /\ task'[p].version = task[p].version
  BY TaskFieldsAre DEF Moves
<1> QED
  BY <1>1 DEF On, Announced

\* The steps of others leave to the scan what it is about to do; an edit that waits is
\* published at most.
LEMMA ForDepStays ==
    ASSUME TypesInv, [Next]_vars, NEW p \in Clients, Same(p), NEW v \in Tagged, missed' # missed \cup Tagged,
           NEW d \in Deps, On(p, v), ForDep(p, d)
    PROVE  Cared(v, d)'
<1>1. On(p, v)'
  BY SameFields DEF On, Announced
<1>2. CASE Reads(p, d) \/ ReadsAgain(p, d)
  <2>1. Found(p, d) => Found(p, d)'
    BY SameFields DEF Found
  <2>2. Reads(p, d) => Reads(p, d)'
    BY <2>1, SameFields DEF Reads
  <2>3. ReadsAgain(p, d) => ReadsAgain(p, d)'
    BY <2>1, SameFields DEF ReadsAgain
  <2> QED
    BY <1>1, <1>2, <2>2, <2>3 DEF Cared, ForDep
<1>3. CASE Writes(p, d) \/ Later(p, d)
  <2>1. Wants(p, d) => Wants(p, d)'
    BY SameFields DEF Wants
  <2>2. Writes(p, d) => Writes(p, d)'
    BY <2>1, SameFields DEF Writes
  <2>3. Later(p, d) => Later(p, d)'
    BY <2>1, SameFields DEF Later
  <2> QED
    BY <1>1, <1>3, <2>2, <2>3 DEF Cared, ForDep
<1>4. CASE Publishes(p, d)
  <2>1. PICK u : u = task[p].id
    OBVIOUS
  <2>2. task[p].at = "publish" /\ LabelOf[d] = task[p].label /\ Waits(u, v, d) /\ task[p].version = v
    BY <1>4, <2>1 DEF Publishes, On
  <2>3. u \in DOMAIN updates /\ updates[u].label = LabelOf[d] /\ updates[u].label # NoLabel
    BY <2>1, <2>2 DEF TypesInv, FilesInv, FilesOK, IdOK
  <2>4. EditsKept
    BY NextEdits
  <2>5. updates'[u].label = LabelOf[d] /\ (Waits(u, v, d)' \/ Holds(u, v, d)')
    BY <2>2, <2>3, <2>4 DEF EditsKept, LabelStays
  <2>6. CASE Holds(u, v, d)'
    BY <2>5, <2>6 DEF Holds, Proposed, Cared
  <2>7. CASE Waits(u, v, d)'
    <3>1. /\ task'[p].at = "publish" /\ LabelOf[d] = task'[p].label /\ task'[p].id = u
          /\ task'[p].version = v
      BY <2>1, <2>2, SameFields
    <3>2. Publishes(p, d)'
      BY <2>7, <3>1 DEF Publishes
    <3> QED
      BY <1>1, <3>2 DEF Cared, ForDep
  <2> QED
    BY <2>5, <2>6, <2>7
<1> QED
  BY <1>2, <1>3, <1>4 DEF ForDep

-----------------------------------------------------------------------------
\* The push, up to the scan.

\* A file uses all of the dependencies that are in it.
LEMMA UsesAll == ASSUME NEW file, NEW d \in Deps, file[d] # Undefined PROVE d \in UsedBy(file)
BY FilesHoldDeps DEF UsedBy, InManifest, InDependencies, InBuild

\* The scan begins: of the newest file, or what is scanned may miss something.
LEMMA ListCares ==
    ASSUME TypesInv, NEW p \in Clients, ListUpdates(p), NEW v \in Tagged, v \notin missed',
           NEW d \in Deps, On(p, v)
    PROVE  Cared(v, d)'
<1>0. TaskInv /\ FilesInv /\ WorldInv
  BY DEF TypesInv, FlowInv
<1>1. PICK R : R = task[p].model
  OBVIOUS
<1>2. PICK sha : sha = ReadSha(R, TopMajor(R))
  OBVIOUS
<1>3. /\ task[p].at = "list" /\ task[p].kind = "push"
      /\ \/ sha = 0 /\ Ends(p)
         \/ /\ sha # 0
            /\ Moves(p, {"at", "seen", "model", "major", "base", "todo"})
            /\ task'[p].at = "look"
            /\ task'[p].base = heads[sha] /\ task'[p].todo = UsedBy(heads[sha])
  BY <1>0, <1>1, <1>2, ListUpdatesDoes
<1>4. MissedIf(sha < Main(App)) /\ UNCHANGED <<heads, updates>>
  BY <1>1, <1>2 DEF ListUpdates, WorkStep
<1>5. Main(App) \in Nat \ {0} /\ Len(heads) = Main(App)
  BY <1>0, SourcesAreTwo DEF WorldInv, RefsOK, RefsWithin, HeadsLen, Main
<1>6. sha \in 0 .. Main(App)
  BY <1>0, <1>1, <1>2, <1>3, <1>5, ReadShaIs DEF FilesInv, FilesOK, ModelOK
<1>7. sha = Main(App) /\ heads[sha] = Tip
  BY <1>4, <1>5, <1>6 DEF MissedIf, Tip
<1>8. CASE Tip[d] = Undefined \/ ~Lower(Tip[d], v)
  BY <1>4, <1>8 DEF Cared, Proposed, Tip
<1>9. CASE Tip[d] # Undefined /\ Lower(Tip[d], v)
  <2>1. /\ Moves(p, {"at", "seen", "model", "major", "base", "todo"})
        /\ task'[p].at = "look" /\ task'[p].base = Tip /\ task'[p].todo = UsedBy(Tip)
    BY <1>3, <1>5, <1>7
  <2>2. /\ task'[p].again = task[p].again /\ task'[p].store = task[p].store
        /\ task'[p].version = task[p].version
    BY <2>1, TaskFieldsAre DEF Moves
  <2>3. task[p].again = FALSE /\ task[p].store = {}
    BY <1>0, <1>3 DEF FilesInv, FilesOK, AgainOK, StoreOK, Post
  <2>4. d \in UsedBy(Tip)
    BY <1>9, UsesAll
  <2>5. Found(p, d)'
    BY <2>1, <2>2, <2>3, <2>4 DEF Found
  <2>6. Reads(p, d)'
    BY <1>9, <2>1, <2>2, <2>3, <2>5 DEF Reads, On
  <2>7. On(p, v)'
    BY <2>1, MoveOn
  <2> QED
    BY <2>6, <2>7 DEF Cared, ForDep
<1> QED
  BY <1>8, <1>9

\* The other stages lead to the next, or to the first after a failure.
LEMMA EarlyCares ==
    ASSUME TypesInv, NEW p \in Clients, Acts(p), NEW v \in Tagged, v \notin missed',
           NEW d \in Deps, On(p, v), task[p].at \in Early
    PROVE  Cared(v, d)'
<1>0. TaskInv /\ task[p].kind = "push" /\ task[p].source = Lib /\ task[p].ref = "release"
      /\ task[p].version = v /\ Lib # App
  BY SourcesAreTwo DEF TypesInv, FlowInv, On, Announced
<1>1. ASSUME NEW X, Moves(p, X), {"kind", "source", "ref", "version"} \cap X = {}, task'[p].at \in Early
      PROVE  Cared(v, d)'
  <2>1. On(p, v)'
    BY <1>1, MoveOn
  <2> QED
    BY <1>1, <2>1 DEF Cared, Coming
<1>2. CASE PushActs(p)
  <2>1. CASE EnsurePushed(p)
    <3>1. Moves(p, {"at"}) /\ task'[p].at = "invalidate"
      BY <1>0, <2>1, EnsurePushedDoes
    <3> QED
      BY <1>1, <3>1 DEF Early
  <2>2. CASE ReadDependencies(p) \/ ReadIndex(p) \/ ReplaceIndex(p)
    BY <1>0, <2>2, ReadDependenciesDoes, ReadIndexDoes, ReplaceIndexDoes DEF Early
  <2>3. CASE FindUsers(p)
    <3>1. Moves(p, {"at"}) /\ task'[p].at = "ask"
      BY <1>0, <2>3, FindUsersDoes
    <3> QED
      BY <1>1, <3>1 DEF Early
  <2>4. CASE AskScan(p)
    <3>1. Moves(p, {"at"}) /\ task'[p].at = "scan"
      BY <1>0, <2>4, AskScanDoes
    <3> QED
      BY <1>1, <3>1 DEF Early
  <2>5. CASE PushRejected(p)
    <3>1. Moves(p, {"at", "tried", "todo"}) /\ task'[p].at = "ensure"
      BY <1>0, <2>5, PushRejectedDoes
    <3> QED
      BY <1>1, <3>1 DEF Early
  <2>6. CASE Invalidate(p)
    <3>1. /\ \A x \in TaskFields \ {"at", "late"} : task'[p][x] = task[p][x]
          /\ task'[p].at = "lookup"
      BY <1>0, <2>6, InvalidateDoes
    <3>2. /\ task'[p].kind = task[p].kind /\ task'[p].source = task[p].source
          /\ task'[p].ref = task[p].ref /\ task'[p].version = task[p].version
      BY <3>1, TaskFieldsAre
    <3>3. On(p, v)' /\ task'[p].at \in Early
      BY <1>0, <3>1, <3>2 DEF On, Announced, Early
    <3> QED
      BY <3>3 DEF Cared, Coming
  <2> QED
    BY <1>2, <2>1, <2>2, <2>3, <2>4, <2>5, <2>6 DEF PushActs
<1>3. CASE WorkActs(p)
  <2>1. CASE ReadModel(p)
    <3>1. Moves(p, {"model", "at"}) /\ task'[p].at = "list"
      BY <1>0, <2>1, ReadModelDoes
    <3> QED
      BY <1>1, <3>1 DEF Early
  <2>2. CASE ListUpdates(p)
    BY <2>2, ListCares
  <2>3. CASE WorkRejected(p)
    BY <2>3 DEF WorkRejected, MissedIf
  <2>4. CASE FindUpload(p)
    BY <1>0, <2>4, FindUploadDoes
  <2>5. CASE \/ ScannedBranch(p) \/ ScannedUpdate(p) \/ Create(p) \/ LabelUpdate(p) \/ ShowUpdate(p)
             \/ EditUpdate(p) \/ PublishUpdate(p)
             \/ \E e \in Deps : LookUp(p, e) \/ StoreVersions(p, e) \/ LookUpFails(p, e)
             \/ \E l \in DOMAIN task[p].want : TakeLabel(p, l)
    <3>1. task[p].at \in Post
      BY <2>5 DEF ScannedBranch, ScannedUpdate, Create, LabelUpdate, ShowUpdate, EditUpdate, PublishUpdate,
           LookUp, StoreVersions, LookUpFails, TakeLabel, WorkStep, Post
    <3> QED
      BY <3>1 DEF Early, Post
  <2> QED
    BY <1>3, <2>1, <2>2, <2>3, <2>4, <2>5 DEF WorkActs
<1> QED
  BY <1>2, <1>3 DEF Acts

-----------------------------------------------------------------------------
\* The scan.

\* What is found goes on to be, or is found by the lookup.
LEMMA LookFound ==
    ASSUME TypesInv, NEW p \in Clients, NEW e \in Deps, LookUp(p, e) \/ StoreVersions(p, e),
           NEW v \in Tagged, v \notin missed', task[p].version = v, IsFresh(v),
           v \in DOMAIN repo[Lib].clone.releases, NEW d \in Deps, Found(p, d)
    PROVE  Found(p, d)'
<1>0. TaskInv /\ e \in Refs
  BY DepsAreRefs DEF TypesInv, FlowInv
<1>1. CASE LookUp(p, e) /\ cache[e] = None
  <2>1. /\ Moves(p, {"found", "store"}) /\ task'[p].found = Put(task[p].found, e, Listing(e))
        /\ task'[p].store = task[p].store \cup {e}
    BY <1>0, <1>1, LookUpDoes
  <2>2. task'[p].todo = task[p].todo /\ task'[p].version = v
    BY <2>1, TaskFieldsAre DEF Moves
  <2>3. CASE d = e
    <3>1. e \in DOMAIN task'[p].found /\ task'[p].found[e] = Listing(e)
      BY <2>1 DEF Put, Over
    <3>2. e # "git" => Tagged \subseteq Listing(e)
      BY <1>1 DEF LookUp, MissedIf
    <3>3. e = "git" => Listing(e) = DOMAIN repo[Lib].clone.releases
      BY DEF Listing, AllVersions
    <3> QED
      BY <2>2, <2>3, <3>1, <3>2, <3>3 DEF Found
  <2>4. CASE d # e
    <3>1. d \in DOMAIN task[p].found => d \in DOMAIN task'[p].found /\ task'[p].found[d] = task[p].found[d]
      BY <2>1, <2>4 DEF Put, Over
    <3> QED
      BY <2>1, <2>2, <2>4, <3>1 DEF Found
  <2> QED
    BY <2>3, <2>4
<1>2. CASE LookUp(p, e) /\ cache[e] # None
  <2>1. /\ Moves(p, {"found", "todo"})
        /\ task'[p].found = Put(task[p].found, e, IF cache[e] = Invalid THEN {} ELSE cache[e])
        /\ task'[p].todo = task[p].todo \ {e}
    BY <1>0, <1>2, LookUpDoes
  <2>2. task'[p].store = task[p].store /\ task'[p].version = v
    BY <2>1, TaskFieldsAre DEF Moves
  <2>3. CASE d = e
    <3>1. cache[e] # Invalid
      BY <1>2 DEF LookUp, MissedIf
    <3>2. v \in cache[e]
      BY <1>0, <1>2, <3>1 DEF IsFresh
    <3>3. e \in DOMAIN task'[p].found /\ task'[p].found[e] = cache[e]
      BY <2>1, <3>1 DEF Put, Over
    <3> QED
      BY <2>2, <2>3, <3>2, <3>3 DEF Found
  <2>4. CASE d # e
    <3>1. d \in DOMAIN task[p].found => d \in DOMAIN task'[p].found /\ task'[p].found[d] = task[p].found[d]
      BY <2>1, <2>4 DEF Put, Over
    <3> QED
      BY <2>1, <2>2, <2>4, <3>1 DEF Found
  <2> QED
    BY <2>3, <2>4
<1>3. CASE StoreVersions(p, e)
  <2>1. /\ Moves(p, {"todo", "store", "late"}) /\ e \in task[p].store
        /\ task'[p].todo = task[p].todo \ {e} /\ task'[p].store = task[p].store \ {e}
    BY <1>0, <1>3, StoreVersionsDoes
  <2>2. task'[p].found = task[p].found /\ task'[p].version = v
    BY <2>1, TaskFieldsAre DEF Moves
  <2> QED
    BY <2>1, <2>2 DEF Found
<1> QED
  BY <1>1, <1>2, <1>3

\* A lookup finds the release, or leaves what others found.
LEMMA LookUpCares ==
    ASSUME TypesInv, NEW p \in Clients, NEW e \in Deps, LookUp(p, e) \/ StoreVersions(p, e) \/ LookUpFails(p, e),
           NEW v \in Tagged, v \notin missed', On(p, v), IsFresh(v), v \in DOMAIN repo[Lib].clone.releases,
           NEW d \in Deps, ForDep(p, d)
    PROVE  Cared(v, d)'
<1>0. TaskInv /\ task[p].version = v
  BY DEF TypesInv, FlowInv, On
<1>1. LookUp(p, e) \/ StoreVersions(p, e)
  BY DEF LookUpFails, MissedIf
<1>2. task[p].at = "look" /\ (Moves(p, {"found", "store"}) \/ Moves(p, {"found", "todo"})
        \/ Moves(p, {"todo", "store", "late"}))
  BY <1>0, <1>1, LookUpDoes, StoreVersionsDoes
<1>3. Moves(p, {"found", "todo", "store", "late"})
  BY <1>2 DEF Moves
<1>4. /\ task'[p].at = task[p].at /\ task'[p].version = task[p].version /\ task'[p].again = task[p].again
      /\ task'[p].base = task[p].base /\ task'[p].label = task[p].label /\ task'[p].id = task[p].id
      /\ task'[p].seen = task[p].seen /\ task'[p].want = task[p].want
  BY <1>3, TaskFieldsAre DEF Moves
<1>5. On(p, v)'
  BY <1>3, MoveOn
<1>6. Found(p, d) => Found(p, d)'
  BY <1>0, <1>1, LookFound
<1>7. Reads(p, d) => Reads(p, d)'
  BY <1>4, <1>6 DEF Reads
<1>8. ReadsAgain(p, d) => ReadsAgain(p, d)'
  BY <1>4, <1>6 DEF ReadsAgain
<1>9. Later(p, d) => Later(p, d)'
  BY <1>4 DEF Later, Wants
<1>10. Reads(p, d) \/ ReadsAgain(p, d) \/ Later(p, d)
  BY <1>2 DEF ForDep, Writes, Publishes
<1> QED
  BY <1>5, <1>7, <1>8, <1>9, <1>10 DEF Cared, ForDep

\* What is written for a dependency that is older than what was found is none older
\* than the release.
LEMMA WrittenIs ==
    ASSUME TypesInv, HighEnough, NEW p \in Clients, NEW v \in Tagged, On(p, v), task[p].at = "look",
           NEW d \in Deps, d \in DOMAIN task[p].found, v \in task[p].found[d],
           task[p].base[d] # Undefined, Lower(task[p].base[d], v)
    PROVE  /\ d \in DOMAIN ScanOf(p, LabelOf[d])
           /\ ~Lower(ScanOf(p, LabelOf[d])[d], v)
<1>0. WorldInv /\ FilesInv
  BY DEF TypesInv
<1>1. task[p].found[d] \subseteq Known
  BY <1>0 DEF FilesInv, FilesOK, FoundOK
<1>2. Subscribed => v[1] = task[p].major \/ v[1] < task[p].major
  BY DEF HighEnough, Scanning, On, Post
<1>3. ~Lower(Newest(p, d), v)
  BY <1>0, <1>1, <1>2, NewestIs
<1>4. v \in Release
  BY <1>0 DEF WorldInv, KnownOK, Known
<1>5. Newest(p, d) # Undefined /\ Newest(p, d) # task[p].base[d]
  BY <1>3, <1>4, LowerMeans
<1>6. d \in OutOf(p, LabelOf[d])
  BY <1>5 DEF OutOf
<1>7. d \in FileWith(d)
  BY DEF FileWith
<1>8. d \in DOMAIN ScanOf(p, LabelOf[d])
  <2>1. DOMAIN ScanOf(p, LabelOf[d]) = UNION {FileWith(e) : e \in OutOf(p, LabelOf[d])}
    BY ScanOfIs
  <2> QED
    BY <1>6, <1>7, <2>1
<1>9. ScanOf(p, LabelOf[d])[d] = Newest(p, d)
  BY <1>6, <1>8, ScanOfIs
<1> QED
  BY <1>3, <1>8, <1>9

\* Nothing is left to be looked up.
LEMMA AllFound ==
    ASSUME NEW p, NEW d, Found(p, d), task[p].todo = {}
    PROVE  d \in DOMAIN task[p].found /\ task[p].version \in task[p].found[d]
BY DEF Found

\* The scan of the main branch wants the release for what is older.
LEMMA ScannedBranchCares ==
    ASSUME TypesInv, HighEnough, NEW p \in Clients, ScannedBranch(p), NEW v \in Tagged, On(p, v),
           NEW d \in Deps, ForDep(p, d)
    PROVE  Cared(v, d)'
<1>0. TaskInv /\ task[p].version = v
  BY DEF TypesInv, FlowInv, On
<1>1. PICK labels : labels = {l \in {LabelOf[e] : e \in Deps} : ScanOf(p, l) # <<>>}
  OBVIOUS
<1>2. /\ task[p].at = "look" /\ task[p].todo = {} /\ ~task[p].again
      /\ \/ labels = {} /\ Ends(p)
         \/ /\ labels # {} /\ Moves(p, {"want", "at"})
            /\ task'[p].at = "labels" /\ task'[p].want = [l \in labels |-> ScanOf(p, l)]
  BY <1>0, <1>1, ScannedBranchDoes
<1>3. Reads(p, d)
  BY <1>2 DEF ForDep, ReadsAgain, Writes, Later, Publishes
<1>4. /\ d \in DOMAIN task[p].found /\ v \in task[p].found[d]
      /\ task[p].base[d] # Undefined /\ Lower(task[p].base[d], v)
  BY <1>0, <1>2, <1>3, AllFound DEF Reads
<1>5. /\ d \in DOMAIN ScanOf(p, LabelOf[d])
      /\ ~Lower(ScanOf(p, LabelOf[d])[d], v)
  BY <1>2, <1>4, WrittenIs
<1>6. ScanOf(p, LabelOf[d]) # <<>>
  BY <1>5
<1>7. LabelOf[d] \in labels
  BY <1>1, <1>6
<1>8. /\ Moves(p, {"want", "at"}) /\ task'[p].at = "labels" /\ task'[p].want = [l \in labels |-> ScanOf(p, l)]
  BY <1>2, <1>7
<1>9. task'[p].version = v
  BY <1>0, <1>8, TaskFieldsAre DEF Moves
<1>10. PICK f : f = ScanOf(p, LabelOf[d])
  OBVIOUS
<1>11. task'[p].want[LabelOf[d]] = f /\ LabelOf[d] \in DOMAIN task'[p].want
  BY <1>7, <1>8, <1>10
<1>12. Wants(p, d)'
  BY <1>5, <1>9, <1>10, <1>11 DEF Wants
<1>13. On(p, v)'
  BY <1>8, MoveOn
<1> QED
  BY <1>8, <1>12, <1>13 DEF Cared, ForDep, Writes

\* The change that has the label has the release, or is scanned in its turn.
LEMMA TakeLabelCares ==
    ASSUME TypesInv, NEW p \in Clients, NEW l, TakeLabel(p, l), NEW v \in Tagged, v \notin missed', On(p, v),
           NEW d \in Deps, ForDep(p, d)
    PROVE  Cared(v, d)'
<1>0. TaskInv /\ FilesInv /\ WorldInv /\ task[p].version = v
  BY DEF TypesInv, FlowInv, On
<1>1. task[p].at = "labels" /\ l \in DOMAIN task[p].want
  BY <1>0, TakeLabelDoes
<1>2. Wants(p, d)
  BY <1>1 DEF ForDep, Reads, ReadsAgain, Writes, Later, Publishes
<1>3. CASE Moves(p, {"label", "at"}) /\ task'[p].at = "create"
  <2>1. task'[p].want = task[p].want /\ task'[p].version = task[p].version
    BY <1>3, TaskFieldsAre DEF Moves
  <2>2. Writes(p, d)'
    BY <1>2, <1>3, <2>1 DEF Writes, Wants
  <2>3. On(p, v)'
    BY <1>3, MoveOn
  <2> QED
    BY <2>2, <2>3 DEF Cared, ForDep
<1>4. ASSUME NEW u \in DOMAIN task[p].seen, task[p].seen[u].label = l,
             Moves(p, {"label", "id", "at", "again", "base", "found", "todo"}),
             task'[p].label = l, task'[p].id = u, task'[p].at = "look", task'[p].again = TRUE,
             task'[p].base = task[p].seen[u].file,
             task'[p].todo = {e \in UsedBy(task[p].seen[u].file) : LabelOf[e] = l},
             MissedIf(Lacks(task[p].seen[u].file, task[p].want[l]))
      PROVE  Cared(v, d)'
  <2>1. /\ task'[p].want = task[p].want /\ task'[p].version = task[p].version
        /\ task'[p].seen = task[p].seen /\ task'[p].store = task[p].store
    BY <1>4, TaskFieldsAre DEF Moves
  <2>2. On(p, v)'
    BY <1>4, MoveOn
  <2>3. CASE LabelOf[d] # l
    <3>1. Later(p, d)'
      BY <1>2, <1>4, <2>1, <2>3 DEF Later, Wants
    <3> QED
      BY <2>2, <3>1 DEF Cared, ForDep
  <2>4. CASE LabelOf[d] = l
    <3>1. ~Lacks(task[p].seen[u].file, task[p].want[l])
      BY <1>4 DEF MissedIf
    <3>2. v \in Release
      BY <1>0 DEF WorldInv, KnownOK, Known
    <3>3. d \in DOMAIN task[p].want[l] /\ task[p].want[l][d] # Undefined
      BY <1>0, <1>2, <2>4, <3>2, LowerMeans DEF Wants
    <3>4. task[p].seen[u].file[d] # Undefined
      BY <3>1, <3>3 DEF Lacks
    <3>5. d \in UsedBy(task[p].seen[u].file)
      BY <3>4, UsesAll
    <3>6. task[p].store = {}
      BY <1>0, <1>1 DEF FilesInv, FilesOK, StoreOK
    <3>7. Found(p, d)'
      BY <1>4, <2>1, <2>4, <3>5, <3>6 DEF Found
    <3>8. ReadsAgain(p, d)'
      BY <1>4, <2>1, <2>4, <3>4, <3>7 DEF ReadsAgain
    <3> QED
      BY <2>2, <3>8 DEF Cared, ForDep
  <2> QED
    BY <2>3, <2>4
<1>5. \/ Moves(p, {"label", "at"}) /\ task'[p].at = "create"
      \/ \E u \in DOMAIN task[p].seen :
            /\ task[p].seen[u].label = l
            /\ Moves(p, {"label", "id", "at", "again", "base", "found", "todo"})
            /\ task'[p].label = l /\ task'[p].id = u /\ task'[p].at = "look" /\ task'[p].again = TRUE
            /\ task'[p].base = task[p].seen[u].file
            /\ task'[p].todo = {e \in UsedBy(task[p].seen[u].file) : LabelOf[e] = l}
            /\ MissedIf(Lacks(task[p].seen[u].file, task[p].want[l]))
  BY <1>0, TakeLabelDoes
<1> QED
  BY <1>3, <1>4, <1>5

\* A label is done; what is wanted for another still is.
LEMMA LabelDoneCares ==
    ASSUME TypesInv, NEW p \in Clients, LabelDone(p), NEW v \in Tagged, On(p, v),
           NEW d \in Deps, Wants(p, d), LabelOf[d] # task[p].label
    PROVE  Cared(v, d)'
<1>0. TaskInv /\ task[p].version = v
  BY DEF TypesInv, FlowInv, On
<1>1. PICK L : L = LabelsLeft(p)
  OBVIOUS
<1>2. LabelOf[d] \in L
  BY <1>1 DEF Wants, LabelsLeft
<1>3. NextLabels(p, task[p].kind, L)
  BY <1>1, <1>2 DEF LabelDone
<1>4. PICK r : r = [kind |-> task[p].kind, at |-> "labels", again |-> FALSE, want |-> Restrict(task[p].want, L)]
  OBVIOUS
<1>5. Become(p, r) /\ DOMAIN r = {"kind", "at", "again", "want"}
  BY <1>3, <1>4 DEF NextLabels
<1>6. Moves(p, {"kind", "at", "again", "want"}) /\ \A x \in DOMAIN r : task'[p][x] = r[x]
  BY <1>0, <1>5, TaskFieldsAre, BecomeMoves
<1>7. /\ task'[p].kind = task[p].kind /\ task'[p].at = "labels"
      /\ task'[p].want = Restrict(task[p].want, L)
  BY <1>4, <1>6
<1>8. /\ task'[p].source = task[p].source /\ task'[p].ref = task[p].ref
      /\ task'[p].version = task[p].version
  BY <1>6, TaskFieldsAre DEF Moves
<1>9. On(p, v)'
  BY <1>7, <1>8 DEF On, Announced
<1>10. LabelOf[d] \in DOMAIN task'[p].want /\ task'[p].want[LabelOf[d]] = task[p].want[LabelOf[d]]
  BY <1>2, <1>7 DEF Restrict, Wants
<1>11. Wants(p, d)'
  BY <1>8, <1>10 DEF Wants
<1> QED
  BY <1>7, <1>9, <1>11 DEF Cared, ForDep, Writes

\* The scan of a change: it has the release, or is to have it.
LEMMA ScannedUpdateCares ==
    ASSUME TypesInv, HighEnough, SeenUp, [Next]_vars, NEW p \in Clients, ScannedUpdate(p),
           NEW v \in Tagged, v \notin missed, v \notin missed', On(p, v), NEW d \in Deps, ForDep(p, d)
    PROVE  Cared(v, d)'
<1>0. TaskInv /\ FilesInv /\ WorldInv /\ task[p].version = v
  BY DEF TypesInv, FlowInv, On
<1>1. PICK l, content : l = task[p].label /\ content = ScanOf(p, l)
  OBVIOUS
<1>2. /\ task[p].at = "look" /\ task[p].todo = {} /\ task[p].again
      /\ \/ content = <<>> /\ LabelDone(p)
         \/ /\ content # <<>> /\ Moves(p, {"want", "at"})
            /\ task'[p].at = "edit" /\ task'[p].want = Put(task[p].want, l, content)
  BY <1>0, <1>1, ScannedUpdateDoes
<1>3. CASE ReadsAgain(p, d)
  <2>1. PICK u, x : u = task[p].id /\ x = task[p].base[d]
    OBVIOUS
  <2>2. /\ LabelOf[d] = l /\ x # Undefined /\ u \in DOMAIN task[p].seen /\ task[p].seen[u].label = l
        /\ x = task[p].seen[u].file[d] /\ d \in DOMAIN task[p].found /\ v \in task[p].found[d]
    BY <1>0, <1>1, <1>2, <1>3, <2>1, AllFound DEF ReadsAgain
  <2>3. CASE Lower(x, v)
    <3>1. d \in DOMAIN content /\ ~Lower(content[d], v)
      BY <1>1, <1>2, <2>1, <2>2, <2>3, WrittenIs
    <3>2. /\ Moves(p, {"want", "at"}) /\ task'[p].at = "edit"
          /\ task'[p].want = Put(task[p].want, l, content)
      BY <1>2, <3>1
    <3>3. task'[p].version = v
      BY <1>0, <3>2, TaskFieldsAre DEF Moves
    <3>4. LabelOf[d] \in DOMAIN task'[p].want /\ task'[p].want[LabelOf[d]] = content
      BY <2>2, <3>2 DEF Put, Over
    <3>5. Wants(p, d)'
      BY <3>1, <3>3, <3>4 DEF Wants
    <3>6. On(p, v)'
      BY <3>2, MoveOn
    <3> QED
      BY <3>2, <3>5, <3>6 DEF Cared, ForDep, Writes
  <2>4. CASE ~Lower(x, v)
    <3>1. Holds(u, x, d) \/ Up(x, d)
      BY <1>0, <1>2, <2>2 DEF SeenUp, Scanning, On, Post
    <3>2. u \in DOMAIN updates /\ task[p].seen[u].file \in Files /\ updates[u].label = l
      BY <1>0, <2>2, LabelsAre DEF FilesInv, FilesOK, SeenOK, Labels
    <3>3. x \in Values /\ v \in Values
      BY <2>2, <3>2 DEF Files, Values, Known
    <3>4. CASE Holds(u, x, d)
      <4>1. updates[u].file[d] \in Values
        BY <1>0, <3>2, ChangeIsTyped DEF FilesInv, Files
      <4>2. Holds(u, v, d)
        BY <1>0, <2>4, <3>3, <3>4, <4>1, ValuesGoOn DEF Holds
      <4> QED
        BY <2>2, <3>2, <4>2, HeldIsProposed, ProposedStays DEF Cared
    <3>5. CASE Up(x, d)
      <4>1. Tip[d] \in Values
        BY <1>0, TipIsTyped DEF FilesInv, Files
      <4>2. Proposed(v, d)
        BY <1>0, <2>4, <3>3, <3>5, <4>1, ValuesGoOn DEF Up, Proposed
      <4> QED
        BY <4>2, ProposedStays DEF Cared
    <3> QED
      BY <3>1, <3>4, <3>5
  <2> QED
    BY <2>3, <2>4
<1>4. CASE Later(p, d)
  <2>1. Wants(p, d) /\ LabelOf[d] # l
    BY <1>1, <1>4 DEF Later
  <2>2. CASE LabelDone(p)
    BY <1>1, <2>1, <2>2, LabelDoneCares
  <2>3. CASE /\ Moves(p, {"want", "at"}) /\ task'[p].at = "edit"
             /\ task'[p].want = Put(task[p].want, l, content)
    <3>1. task'[p].version = v
      BY <1>0, <2>3, TaskFieldsAre DEF Moves
    <3>2. LabelOf[d] \in DOMAIN task'[p].want /\ task'[p].want[LabelOf[d]] = task[p].want[LabelOf[d]]
      BY <2>1, <2>3 DEF Put, Over, Wants
    <3>3. Wants(p, d)'
      BY <1>0, <2>1, <3>1, <3>2 DEF Wants
    <3>4. On(p, v)'
      BY <2>3, MoveOn
    <3> QED
      BY <2>3, <3>3, <3>4 DEF Cared, ForDep, Writes
  <2> QED
    BY <1>2, <2>2, <2>3
<1>5. ReadsAgain(p, d) \/ Later(p, d)
  BY <1>2 DEF ForDep, Reads, Writes, Publishes
<1> QED
  BY <1>3, <1>4, <1>5

\* A change is made for the label.
LEMMA CreateCares ==
    ASSUME TypesInv, NEW p \in Clients, Create(p) \/ LabelUpdate(p) \/ ShowUpdate(p),
           NEW v \in Tagged, On(p, v), NEW d \in Deps, ForDep(p, d)
    PROVE  Cared(v, d)'
<1>0. TaskInv
  BY DEF TypesInv, FlowInv
<1>1. /\ task[p].at \in {"create", "label", "show"} /\ task'[p].at \in {"label", "show", "edit"}
      /\ Moves(p, {"id", "at"})
  <2>1. CASE Create(p)
    BY <1>0, <2>1, CreateDoes
  <2>2. CASE LabelUpdate(p)
    BY <1>0, <2>2, LabelUpdateDoes DEF Moves
  <2>3. CASE ShowUpdate(p)
    BY <1>0, <2>3, ShowUpdateDoes DEF Moves
  <2> QED
    BY <2>1, <2>2, <2>3
<1>2. Wants(p, d)
  BY <1>1 DEF ForDep, Reads, ReadsAgain, Writes, Later, Publishes
<1>3. task'[p].want = task[p].want /\ task'[p].version = task[p].version
  BY <1>1, TaskFieldsAre DEF Moves
<1>4. Writes(p, d)'
  BY <1>1, <1>2, <1>3 DEF Writes, Wants
<1>5. On(p, v)'
  BY <1>1, MoveOn
<1> QED
  BY <1>4, <1>5 DEF Cared, ForDep

\* An edit is a file.
LEMMA NoEditNoFile == ASSUME WorldInv PROVE NoEdit \notin Files
<1>1. Values \subseteq Seq(Nat)
  <2>1. \A x \in Known : x \in Seq(Nat)
    BY VersionsAreSeqs DEF WorldInv, KnownOK
  <2>2. Undefined \in Seq(Nat)
    BY DEF Undefined
  <2> QED
    BY <2>1, <2>2 DEF Values
<1> QED
  BY <1>1, NoEditIsNoFile DEF Files

\* What is wanted is put into the edit, or the change has it.
LEMMA EditCares ==
    ASSUME TypesInv, [Next]_vars, NEW p \in Clients, EditUpdate(p),
           NEW v \in Tagged, v \notin missed', On(p, v), NEW d \in Deps, ForDep(p, d)
    PROVE  Cared(v, d)'
<1>0. TaskInv /\ FilesInv /\ WorldInv /\ ChangesInv /\ task[p].version = v
  BY DEF TypesInv, FlowInv, On
<1>1. PICK u, c : u = task[p].id /\ c = task[p].want[task[p].label]
  OBVIOUS
<1>2. /\ task[p].at = "edit"
      /\ \/ Accepts(u, c) /\ PutEdit(u, c) /\ Moves(p, {"at"}) /\ task'[p].at = "publish"
         \/ ~Accepts(u, c) /\ UNCHANGED updates /\ LabelDone(p)
      /\ MissedIf(~updates[u].open \/ updates[u].edit # NoEdit)
  BY <1>0, <1>1, EditUpdateDoes
<1>3. Wants(p, d)
  BY <1>2 DEF ForDep, Reads, ReadsAgain, Writes, Later, Publishes
<1>4. updates[u].open /\ updates[u].edit = NoEdit /\ Edited(u) = updates[u].file
  BY <1>2 DEF MissedIf, Edited
<1>5. /\ u \in DOMAIN updates /\ updates[u].label = task[p].label
      /\ task[p].label \in DOMAIN task[p].want
  BY <1>0, <1>1, <1>2 DEF FilesInv, FilesOK, IdOK, LabelOK
<1>6. Partial(c) /\ updates[u].file \in Files
  BY <1>0, <1>1, <1>5, ChangeIsTyped DEF FilesInv, FilesOK, WantOK
<1>7. CASE Accepts(u, c) /\ PutEdit(u, c) /\ Moves(p, {"at"}) /\ task'[p].at = "publish"
  <2>1. /\ task'[p].want = task[p].want /\ task'[p].version = v
        /\ task'[p].label = task[p].label /\ task'[p].id = u
    BY <1>0, <1>1, <1>7, TaskFieldsAre DEF Moves
  <2>2. On(p, v)'
    BY <1>7, MoveOn
  <2>3. CASE LabelOf[d] # task[p].label
    <3>1. Later(p, d)'
      BY <1>0, <1>3, <1>7, <2>1, <2>3 DEF Later, Wants
    <3> QED
      BY <2>2, <3>1 DEF Cared, ForDep
  <2>4. CASE LabelOf[d] = task[p].label
    <3>1. d \in DOMAIN c /\ ~Lower(c[d], v)
      BY <1>0, <1>1, <1>3, <2>4 DEF Wants
    <3>2. updates'[u].edit = Over(c, updates[u].file)
      BY <1>0, <1>4, <1>5, <1>7, PutEditDoes
    <3>3. Over(c, updates[u].file) # NoEdit
      BY <1>0, <1>6, OverIsTyped, NoEditNoFile
    <3>4. Over(c, updates[u].file)[d] = c[d]
      BY <3>1 DEF Over
    <3>5. Waits(u, v, d)'
      BY <3>1, <3>2, <3>3, <3>4 DEF Waits
    <3>6. Publishes(p, d)'
      BY <1>7, <2>1, <2>4, <3>5 DEF Publishes
    <3> QED
      BY <2>2, <3>6 DEF Cared, ForDep
  <2> QED
    BY <2>3, <2>4
<1>8. CASE ~Accepts(u, c) /\ UNCHANGED updates /\ LabelDone(p)
  <2>1. CASE LabelOf[d] # task[p].label
    BY <1>3, <1>8, <2>1, LabelDoneCares
  <2>2. CASE LabelOf[d] = task[p].label
    <3>1. d \in DOMAIN c /\ ~Lower(c[d], v)
      BY <1>0, <1>1, <1>3, <2>2 DEF Wants
    <3>2. Over(c, updates[u].file) = updates[u].file
      BY <1>4, <1>8 DEF Accepts
    <3>3. Over(c, updates[u].file)[d] = c[d]
      BY <3>1 DEF Over
    <3>4. Holds(u, v, d)
      BY <1>4, <1>5, <3>1, <3>2, <3>3 DEF Holds, OpenUpdates
    <3>5. Proposed(v, d)
      BY <1>5, <2>2, <3>4, HeldIsProposed
    <3>6. missed' # missed \cup Tagged
      OBVIOUS
    <3> QED
      BY <3>5, <3>6, ProposedStays DEF Cared
  <2> QED
    BY <2>1, <2>2
<1> QED
  BY <1>2, <1>7, <1>8

\* What waits is published.
LEMMA PublishCares ==
    ASSUME TypesInv, NEW p \in Clients, PublishUpdate(p), NEW v \in Tagged, v \notin missed', On(p, v),
           NEW d \in Deps, ForDep(p, d)
    PROVE  Cared(v, d)'
<1>0. TaskInv /\ FilesInv /\ ChangesInv /\ task[p].version = v
  BY DEF TypesInv, FlowInv, On
<1>1. PICK u : u = task[p].id
  OBVIOUS
<1>2. task[p].at = "publish" /\ CanPublish(u) /\ PublishEdit(u) /\ LabelDone(p)
  <2>1. /\ task[p].at = "publish"
        /\ \/ CanPublish(u) /\ PublishEdit(u) /\ LabelDone(p)
           \/ ~CanPublish(u) /\ UNCHANGED updates /\ WorkFails(p)
        /\ MissedIf(~CanPublish(u) \/ TakesBack(u))
    BY <1>0, <1>1, PublishUpdateDoes
  <2> QED
    BY <2>1 DEF MissedIf
<1>3. CASE Later(p, d)
  BY <1>2, <1>3, LabelDoneCares DEF Later
<1>4. CASE Publishes(p, d)
  <2>1. LabelOf[d] = task[p].label /\ Waits(u, v, d)
    BY <1>0, <1>1, <1>4 DEF Publishes
  <2>2. u \in DOMAIN updates /\ updates[u].label = LabelOf[d] /\ updates[u].open
    BY <1>0, <1>1, <1>2, <2>1 DEF FilesInv, FilesOK, IdOK, CanPublish
  <2>3. Sets(u, {"file", "edit"}) /\ updates'[u].file = updates[u].edit
    BY <1>0, <1>2, <2>2, PublishEditDoes
  <2>4. updates'[u].open /\ updates'[u].label = LabelOf[d] /\ u \in DOMAIN updates'
    BY <2>2, <2>3, FieldsStay DEF Sets
  <2>5. ~Lower(updates'[u].file[d], v)
    BY <2>1, <2>3 DEF Waits
  <2> QED
    BY <2>4, <2>5 DEF Cared, Proposed, OpenUpdates
<1>5. Later(p, d) \/ Publishes(p, d)
  BY <1>2 DEF ForDep, Reads, ReadsAgain, Writes
<1> QED
  BY <1>3, <1>4, <1>5

\* All of the scan.
LEMMA ScanCares ==
    ASSUME TypesInv, HighEnough, SeenUp, [Next]_vars, NEW p \in Clients, Acts(p),
           NEW v \in Tagged, v \notin missed, v \notin missed', On(p, v),
           IsFresh(v), v \in DOMAIN repo[Lib].clone.releases, NEW d \in Deps, ForDep(p, d)
    PROVE  Cared(v, d)'
<1>0. TaskInv /\ task[p].at \in Post /\ task[p].kind = "push"
  BY DEF TypesInv, FlowInv, On, Announced, ForDep, Reads, ReadsAgain, Writes, Later, Publishes, Post
<1>1. ~PushActs(p)
  BY <1>0, EnsurePushedDoes, ReadDependenciesDoes, ReadIndexDoes, ReplaceIndexDoes, FindUsersDoes, AskScanDoes,
     PushRejectedDoes, InvalidateDoes DEF PushActs, Post
<1>2. ~ReadModel(p) /\ ~ListUpdates(p) /\ ~FindUpload(p) /\ ~WorkRejected(p)
  <2>1. ~ReadModel(p)
    BY <1>0, ReadModelDoes DEF Post
  <2>2. ~ListUpdates(p)
    BY <1>0, ListUpdatesDoes DEF Post
  <2>3. ~FindUpload(p)
    BY <1>0, FindUploadDoes DEF Post
  <2>4. ~WorkRejected(p)
    BY DEF WorkRejected, MissedIf
  <2> QED
    BY <2>1, <2>2, <2>3, <2>4
<1>3. CASE ScannedBranch(p)
  BY <1>3, ScannedBranchCares
<1>4. CASE ScannedUpdate(p)
  BY <1>4, ScannedUpdateCares
<1>5. CASE Create(p) \/ LabelUpdate(p) \/ ShowUpdate(p)
  BY <1>5, CreateCares
<1>6. CASE EditUpdate(p)
  BY <1>6, EditCares
<1>7. CASE PublishUpdate(p)
  BY <1>7, PublishCares
<1>8. CASE \E e \in Deps : LookUp(p, e) \/ StoreVersions(p, e) \/ LookUpFails(p, e)
  BY <1>8, LookUpCares
<1>9. CASE \E l \in DOMAIN task[p].want : TakeLabel(p, l)
  BY <1>9, TakeLabelCares
<1> QED
  BY <1>1, <1>2, <1>3, <1>4, <1>5, <1>6, <1>7, <1>8, <1>9 DEF Acts, WorkActs

-----------------------------------------------------------------------------
\* A release is proposed.

ProposalInv == TypesInv /\ MajorsInv /\ HasTag /\ HighEnough /\ SeenUp /\ FreshCache /\ Handled

\* No step leaves a release alone.
LEMMA NextHandled ==
    ASSUME ProposalInv, [Next]_vars PROVE Handled'
<1> SUFFICES ASSUME NEW v, v \in Tagged', v \notin missed', NEW d \in Deps PROVE Cared(v, d)'
  BY DEF Handled
<1>0. TypesInv /\ FlowInv /\ WorldInv /\ TaskInv
  BY DEF ProposalInv, TypesInv, FlowInv
<1>1. CASE v \notin Tagged
  BY <1>0, <1>1, NewTagComes DEF Cared
<1>2. CASE v \in Tagged
  <2>1. v \notin missed /\ missed' # missed \cup Tagged
    BY <1>2, MissedGrows
  <2>2. Cared(v, d)
    BY <1>2, <2>1 DEF ProposalInv, Handled
  <2>3. CASE Proposed(v, d)
    BY <1>0, <1>2, <2>1, <2>3, ProposedStays DEF Cared
  <2>4. CASE \E n \in DOMAIN stream : stream[n] = Event(Lib, "release", v)
    BY <1>0, <2>4, EventComes DEF Cared
  <2>5. ASSUME NEW p \in Clients, On(p, v), task[p].at \in Early PROVE Cared(v, d)'
    <3>1. Same(p) \/ Acts(p)
      BY <1>0, <1>2, <2>5, NextActor DEF On, Announced
    <3>2. CASE Same(p)
      <4>1. On(p, v)' /\ task'[p].at \in Early
        BY <2>5, <3>2, SameFields DEF On, Announced
      <4> QED
        BY <4>1 DEF Cared, Coming
    <3>3. CASE Acts(p)
      BY <1>0, <1>2, <2>5, <3>3, EarlyCares
    <3> QED
      BY <3>1, <3>2, <3>3
  <2>6. ASSUME NEW p \in Clients, On(p, v), ForDep(p, d) PROVE Cared(v, d)'
    <3>1. Same(p) \/ Acts(p)
      BY <1>0, <1>2, <2>6, NextActor DEF On, Announced
    <3>2. CASE Same(p)
      BY <1>0, <1>2, <2>1, <2>6, <3>2, ForDepStays
    <3>3. CASE Acts(p)
      <4>1. task[p].at \in Post /\ task[p].at \in Heard /\ task[p].at # "ensure"
        BY <2>6 DEF ForDep, Reads, ReadsAgain, Writes, Later, Publishes, Post, Heard
      <4>2. IsFresh(v) /\ v \in DOMAIN repo[Lib].clone.releases
        BY <2>1, <2>6, <4>1 DEF ProposalInv, FreshCache, HasTag, On
      <4> QED
        BY <1>0, <1>2, <2>1, <2>6, <3>3, <4>2, ScanCares DEF ProposalInv
    <3> QED
      BY <3>1, <3>2, <3>3
  <2> QED
    BY <2>2, <2>3, <2>4, <2>5, <2>6 DEF Cared, Coming
<1> QED
  BY <1>1, <1>2

\* Every step keeps the invariant.
LEMMA NextProposals == ProposalInv /\ [Next]_vars => ProposalInv'
<1> SUFFICES ASSUME ProposalInv, [Next]_vars PROVE ProposalInv'
  OBVIOUS
<1>0. TypesInv /\ FlowInv /\ WorldInv /\ MajorsInv /\ HasTag /\ HighEnough /\ SeenUp /\ FreshCache
  BY DEF ProposalInv, TypesInv
<1>1. TypesInv' /\ WorldGrows
  BY <1>0, NextTypes
<1>2. \A p \in Clients : PushGoes(p)
  BY <1>0, NextGoes
<1>3. MajorsInv'
  BY <1>0, NextMajors
<1>4. HasTag'
  BY <1>0, <1>1, <1>2, NextHasTag
<1>5. HighEnough'
  BY <1>0, <1>2, NextHighEnough
<1>6. SeenUp'
  BY <1>0, <1>2, NextSeenUp
<1>7. FreshCache'
  BY <1>0, <1>2, NextFresh
<1>8. Handled'
  BY NextHandled
<1> QED
  BY <1>1, <1>3, <1>4, <1>5, <1>6, <1>7, <1>8 DEF ProposalInv

\* The first state has it.
LEMMA InitProposals == Init => ProposalInv
<1> SUFFICES ASSUME Init PROVE ProposalInv
  OBVIOUS
<1>1. TypesInv
  BY InitTypes
<1>2. MajorsInv
  BY InitMajors
<1>3. \A p \in Clients : task[p].kind = "none"
  BY DEF Init, Idle
<1>4. HasTag /\ HighEnough /\ SeenUp /\ FreshCache
  BY <1>3 DEF HasTag, HighEnough, SeenUp, FreshCache, Scanning, Announced
<1>5. ASSUME NEW v \in Tagged, NEW d \in Deps PROVE Cared(v, d)
  <2>1. v \in {First} \cup Range(Pending)
    BY InitRefs DEF Tagged
  <2>2. CASE v = First
    <3>1. heads = <<[e \in Deps |-> First]>>
      BY DEF Init
    <3>2. Tip = [e \in Deps |-> First]
      BY <3>1 DEF Tip
    <3>3. v \in Values
      BY DEF Values, Known
    <3>4. Tip[d] = v
      BY <2>2, <3>2
    <3>5. ~Lower(v, v)
      BY <1>1, <3>3, ValuesGoOn DEF TypesInv
    <3>6. Proposed(v, d)
      BY <3>4, <3>5 DEF Proposed
    <3> QED
      BY <3>6 DEF Cared
  <2>3. CASE v \in Range(Pending)
    <3>1. PICK n \in DOMAIN Pending : v = Pending[n]
      BY <2>3 DEF Range
    <3>2. stream = [k \in DOMAIN Pending |-> Event(Lib, "release", Pending[k])]
      BY DEF Init
    <3> QED
      BY <3>1, <3>2 DEF Cared, Coming
  <2> QED
    BY <2>1, <2>2, <2>3
<1> QED
  BY <1>1, <1>2, <1>4, <1>5 DEF ProposalInv, Handled

\* At rest nothing is on its way and nobody is at work.
LEMMA ProposedAtRest == ProposalInv => ReleaseIsProposed
<1> SUFFICES ASSUME ProposalInv, AtRest, NEW v \in Tagged \ missed, NEW d \in Deps PROVE Proposed(v, d)
  BY DEF ReleaseIsProposed
<1>1. Cared(v, d)
  BY DEF ProposalInv, Handled
<1>2. ~Coming(v)
  BY DEF Coming, AtRest, Busy, On, Announced
<1>3. \A p \in Clients : ~On(p, v)
  BY DEF AtRest, Busy, On, Announced
<1> QED
  BY <1>1, <1>2, <1>3 DEF Cared

\* When nothing is left to do, every release that may not be missed is proposed for
\* every dependency of the application: its main branch or an open change has it or a
\* newer one, however pushes, scans, uploads, merges, failures and restarts interleave
\* (BuildSystemImpl.onPush, ScannerManagerImpl, DependencyLookupCacheImpl).
THEOREM ReleasesAreProposed == Spec => []ReleaseIsProposed
<1>1. Spec => []ProposalInv
  BY InitProposals, NextProposals, PTL DEF Spec
<1>2. []ProposalInv => []ReleaseIsProposed
  BY ProposedAtRest, PTL
<1> QED
  BY <1>1, <1>2, PTL
=============================================================================
