------------------------------ MODULE ReleaseFlow ------------------------------
(***************************************************************************)
(* From a release to the changes that propose it.  The library is released:  *)
(* its binaries are copied to the version and a tag is set.  When Gerrit     *)
(* tells of the tag, the application that uses the library is scanned, and   *)
(* for every label whose dependencies have newer versions a change is made   *)
(* or brought up to date.  The cached model of a repository is that of its   *)
(* clone here; Repositories is about when it is not.                         *)
(***************************************************************************)
EXTENDS Versions, ExecutionSerializer, DependencyStorage, GerritChanges, Functions

CONSTANTS
    Lib, App, Invalid,
    Publications, \* what the library publishes: "artifact", "image", and "flat", an
                  \* artifact whose path is one segment
    LabelOf,      \* the label of a dependency of the application
    FileOf,       \* the file that it is in
    Pending,      \* releases that are tagged at first
    Subscribed,   \* both repositories follow the serie of majors
    Budget        \* bound: on what comes from outside and on the failures that nothing else bounds

ASSUME OpsAreClients == Ops = Clients \X {0, 1}
ASSUME SourcesAreTwo == Lib # App /\ Sources = {Lib, App} /\ Refs = {"git"} \cup Publications
ASSUME PublicationsAreThree == Publications \subseteq {"artifact", "flat", "image"}
ASSUME PendingAreReleases == Pending \in Seq(Nat \X Nat \X Nat)
ASSUME MajorsAreValues == Subscribed => \A n \in DOMAIN Pending : Pending[n][1] <= 2
ASSUME DepsAreRefs == Deps \subseteq Refs /\ DOMAIN LabelOf = Deps /\ \A d \in Deps : LabelOf[d] # NoLabel
ASSUME FilesHoldDeps == \A d \in Deps : FileOf[d] \in
    IF d = "git" THEN {"manifest"} ELSE IF d = "image" THEN {"dependencies", "build"} ELSE {"dependencies"}

VARIABLES
    repo,        \* per repository, its refs at Gerrit (remote) and in the clone
    published,   \* per kind of binary, the commit that a version is a copy of
    calls,       \* copies asked for and not made yet
    cache,       \* dependency-lookup-cache:<ref>: versions, Invalid or None
    majorValues, \* the values of the serie of majors
    stream,      \* events on their way from Gerrit
    task,        \* per client, what it does and where it is
    op,          \* per client, its promise in the line for scanning
    spent,
    excused,     \* history: versions whose binaries may not be those of the tag
    missed       \* history: versions that may not be proposed

gerritVars == <<heads, updates>>
releaseVars == <<published, calls, excused>>
vars == <<esVars, dsVars, gerritVars, releaseVars, repo, cache, majorValues, stream,
          task, op, spent, missed>>

NoFile == [d \in Deps |-> Undefined]
NoOne == <<>>
Idle == [kind |-> "none", at |-> "done", source |-> Lib, ref |-> "main", version |-> Undefined,
         major |-> 0, sha |-> 0, todo |-> {}, store |-> {}, late |-> {}, base |-> NoFile,
         model |-> None, seen |-> <<>>, found |-> NoOne, want |-> NoOne,
         label |-> NoLabel, id |-> 0, again |-> FALSE, tried |-> FALSE]

First == <<1, 0, 0>>
Tagged == DOMAIN repo[Lib].remote.releases
Main(s) == repo[s].remote.main

\* f with y for x.
Put(f, x, y) == Over([z \in {x} |-> y], f)

Event(source, ref, version) == [source |-> source, ref |-> ref, version |-> version]

\* Two majors, one release announced and others tagged of which Gerrit has not told.
\* What has a path of one segment was never copied to a version.
Init ==
    /\ ESInit
    /\ LET file == [d \in Deps |-> First]
           refs(V) == [main |-> 1, releases |-> [v \in V |-> 1],
                       majors |-> [m \in {1, 2} |-> 1], patches |-> [b \in {} |-> 0]]
           told == refs({First})
           all == refs({First} \cup Range(Pending)) IN
       /\ repo = [s \in Sources |-> IF s = Lib THEN [remote |-> all, clone |-> told]
                                    ELSE [remote |-> refs({}), clone |-> refs({})]]
       /\ heads = <<file>>
       /\ DSInit([s \in Sources |-> IF s = App THEN Deps ELSE {}])
       /\ published = [k \in Publications |-> IF k = "flat" THEN refs({}).releases ELSE all.releases]
    /\ updates = <<>>
    /\ calls = {}
    /\ cache = [d \in Refs |-> IF d = "flat" THEN {} ELSE {First}]
    /\ majorValues = {1, 2}
    /\ stream = [n \in DOMAIN Pending |-> Event(Lib, "release", Pending[n])]
    /\ task = [p \in Clients |-> Idle]
    /\ op = [p \in Clients |-> None]
    /\ spent = 0
    /\ excused = {}
    /\ missed = {}

\* The files of the application. A provider knows the kinds of references in its
\* file: repositories in the manifest, artifacts and images in the file of
\* dependencies, images of build steps in the build configuration.
FileWith(d) == {e \in Deps : FileOf[e] = FileOf[d]}
InManifest(file) == {d \in Deps : FileOf[d] = "manifest" /\ file[d] # Undefined}
InDependencies(file) == {d \in Deps : FileOf[d] = "dependencies" /\ file[d] # Undefined}
InBuild(file) == {d \in Deps : FileOf[d] = "build" /\ file[d] # Undefined}
UsedBy(file) == InManifest(file) \cup InDependencies(file) \cup InBuild(file)

Busy(p) == task[p].kind # "none"
Spend == spent < Budget /\ spent' = spent + 1

\* What follows a settled promise runs before anything else.
Quiet == \A o \in Ops : ~CanBegin(o)

At(p, kind, stage) == task[p].kind = kind /\ task[p].at = stage /\ Quiet
\* The task changes in what r says of it.
Become(p, r) == task' = [task EXCEPT ![p] = Over(r, @)]
Go(p, stage) == Become(p, [at |-> stage])
End(p) == task' = [task EXCEPT ![p] = Idle]

-----------------------------------------------------------------------------
\* What comes from outside.

StartTask(p, r) ==
    /\ ~Busy(p) /\ Quiet
    /\ task' = [task EXCEPT ![p] = Over(r, Idle)]
    /\ UNCHANGED <<esVars, dsVars, gerritVars, releaseVars, repo, cache, op, missed>>

Outside ==
    /\ Spend /\ Quiet
    /\ UNCHANGED <<esVars, dsVars, releaseVars, cache, majorValues, op, task>>

\* A change of the library is merged.
MergeLib ==
    /\ Outside
    /\ repo' = [repo EXCEPT ![Lib].remote.main = @ + 1]
    /\ stream' = Append(stream, Event(Lib, "main", <<Main(Lib) + 1>>))
    /\ UNCHANGED <<gerritVars, missed>>

\* router /release, for any commit and a major that has a branch, and the release
\* that follows a merge.
RequestRelease(p, m, sha) ==
    /\ WriteBranchExists(repo[Lib].clone, m)
    /\ Spend
    /\ StartTask(p, [kind |-> "release", at |-> "next", major |-> m, sha |-> sha])
    /\ UNCHANGED <<majorValues, stream>>

\* router /majors/values/add: the value is in the file, see Repositories. All
\* active repositories are asked to follow.
AddMajor(p, m) ==
    /\ \A n \in majorValues : n < m
    /\ Spend
    /\ StartTask(p, [kind |-> "apply", at |-> "apply", major |-> m, todo |-> Sources])
    /\ majorValues' = majorValues \cup {m}
    /\ UNCHANGED stream

\* A branch or a tag is pushed whose name means nothing to the backend.
PushTopic ==
    /\ Outside
    /\ stream' = Append(stream, Event(Lib, "topic", <<>>))
    /\ UNCHANGED <<gerritVars, repo, missed>>

\* createBranch
CreateBranch(m, sha) == repo' = [repo EXCEPT ![Lib].remote.patches = Put(@, <<m>>, sha)]

\* router /patch: the branch of a major starts where the next one does.
CreatePatch(m) ==
    LET R == repo[Lib].clone IN
    /\ HasNextMajor(R, m) /\ NextMajor(R, m) \in DOMAIN R.majors
    /\ <<m>> \notin DOMAIN repo[Lib].remote.patches
    /\ Outside
    /\ CreateBranch(m, R.majors[NextMajor(R, m)])
    /\ stream' = Append(stream, Event(Lib, "patch", <<m>>))
    /\ UNCHANGED <<gerritVars, missed>>

AppMoves ==
    /\ Outside
    /\ repo' = [repo EXCEPT ![App].remote.main = @ + 1]
    /\ stream' = Append(stream, Event(App, "main", <<Main(App) + 1>>))

\* What a merge leaves in a file is older than what was there or than what the change
\* has, or was taken out by someone else.
MergeLoses(u) == \E d \in Deps :
    LET merged == Merged(updates[u])[d] IN
    /\ merged # Undefined
    /\ \/ Tip[d] = Undefined
       \/ Lower(merged, Tip[d]) \/ Lower(merged, updates[u].file[d])

\* A change of the backend is merged into the application.
MergeProposal(u) ==
    /\ AppMoves /\ MergeUpdate(u)
    /\ missed' = IF MergeLoses(u) THEN missed \cup Tagged ELSE missed

\* Someone else takes out a dependency, or adds it at an old version.
EditApp(d) ==
    /\ AppMoves
    /\ heads' = Append(heads, [Tip EXCEPT ![d] = IF @ = Undefined THEN First ELSE Undefined])
    /\ missed' = missed \cup Tagged
    /\ UNCHANGED updates

\* router /update-content: a change of a label with a file of its own.
UploadContent(p, d, v) ==
    /\ Tip[d] # Undefined
    /\ Spend
    /\ StartTask(p, [kind |-> "upload", at |-> "list", label |-> LabelOf[d],
                     want |-> [l \in {LabelOf[d]} |-> [Tip EXCEPT ![d] = v]]])
    /\ UNCHANGED <<majorValues, stream>>

\* GerritStreamListener: onPush
Deliver(p) ==
    /\ stream # <<>>
    /\ StartTask(p, Over([kind |-> "push", at |-> "ensure"], Head(stream)))
    /\ stream' = Tail(stream)
    /\ UNCHANGED <<majorValues, spent>>

-----------------------------------------------------------------------------
\* BuildSystemImpl.release

ReleaseStep(p, stage) ==
    /\ At(p, "release", stage)
    /\ UNCHANGED <<esVars, dsVars, gerritVars, cache, majorValues, op, spent>>

\* The version is one that another release works on, or has left behind, or it has
\* a tag that the clone does not know yet.
Contested(p, v) ==
    \/ v \in Tagged \ AllVersions(repo[Lib].clone)
    \/ \E c \in calls : c.version = v
    \/ \E q \in Clients \ {p} : task[q].kind = "release" /\ task[q].version = v

ChooseVersion(p) ==
    LET v == NextVersion(repo[Lib].clone, task[p].major, "minor") IN
    /\ ReleaseStep(p, "next")
    /\ Become(p, [version |-> v, at |-> "publications"])
    /\ excused' = IF Contested(p, v) THEN excused \cup {v} ELSE excused
    /\ UNCHANGED <<published, calls, repo, stream, missed>>

\* The newest commit whose objects a clone has.
Have(R) == Highest({R.main} \cup Range(R.releases) \cup Range(R.majors) \cup Range(R.patches))

\* PublisherManagerImpl.publications: a commit that the clone does not have
\* publishes nothing.
PublicationsAt(sha) == IF sha <= Have(repo[Lib].clone) THEN Publications ELSE {}

\* ArtifactoryImpl.copy warns of a path of one segment and resolves: there is no
\* request, and the publisher does not know.
Copies(kinds) == kinds \ {"flat"}

\* PublisherManagerImpl.publish
Publish(p) ==
    LET t == task[p]
        kinds == PublicationsAt(t.sha) IN
    /\ ReleaseStep(p, "publications")
    /\ calls' = calls \cup
          {[by |-> p, kind |-> k, version |-> t.version, sha |-> t.sha] : k \in Copies(kinds)}
    /\ excused' = IF kinds = Publications THEN excused ELSE excused \cup {t.version}
    /\ Go(p, "tag")
    /\ UNCHANGED <<published, repo, stream, missed>>

\* The request of ArtifactoryImpl.copy is waited for.  ArtifactoryDockerRegistryImpl.copy waits for
\* the manifest, not for its upload.
Awaited(p) == {c \in calls : c.by = p /\ c.kind = "artifact"}

\* Fault: no copy is waited for.
SetTagAtOnce(p) ==
    LET t == task[p] IN
    /\ ReleaseStep(p, "tag")
    /\ IF t.version \in Tagged THEN UNCHANGED <<repo, stream>>
       ELSE /\ repo' = [repo EXCEPT ![Lib].remote.releases = Put(@, t.version, t.sha)]
            /\ stream' = Append(stream, Event(Lib, "release", t.version))
    /\ End(p)
    /\ UNCHANGED <<releaseVars, missed>>

\* createTag, refused when the tag exists
SetTag(p) ==
    LET t == task[p] IN
    /\ ReleaseStep(p, "tag")
    /\ Awaited(p) = {}
    /\ IF t.version \in Tagged THEN UNCHANGED <<repo, stream>>
       ELSE /\ repo' = [repo EXCEPT ![Lib].remote.releases = Put(@, t.version, t.sha)]
            /\ stream' = Append(stream, Event(Lib, "release", t.version))
    /\ End(p)
    /\ UNCHANGED <<releaseVars, missed>>

\* A copy is made.
Land(c) ==
    /\ calls' = calls \ {c} /\ Quiet
    /\ published' = [published EXCEPT ![c.kind] = Put(@, c.version, c.sha)]
    /\ UNCHANGED <<esVars, dsVars, gerritVars, excused, repo, cache, majorValues, stream,
                   task, op, spent, missed>>

\* MajorApplicationServiceImpl.applyMajors: where the main branch is, if the value
\* is higher; an error is taken for a tag that exists.
ApplyMajor(p, s) ==
    LET R == repo[s].clone
        m == task[p].major
        tags == Subscribed /\ m > MainMajor(R) /\ m \notin DOMAIN repo[s].remote.majors IN
    /\ At(p, "apply", "apply") /\ s \in task[p].todo
    /\ IF tags THEN /\ repo' = [repo EXCEPT ![s].remote.majors = Put(@, m, R.main)]
                    /\ stream' = Append(stream, Event(s, "major", <<m>>))
       ELSE UNCHANGED <<repo, stream>>
    /\ IF task[p].todo = {s} THEN End(p) ELSE Become(p, [todo |-> task[p].todo \ {s}])
    /\ UNCHANGED <<esVars, dsVars, gerritVars, releaseVars, cache, majorValues, op, spent, missed>>

-----------------------------------------------------------------------------
\* BuildSystemImpl.onPush

PushStep(p, stage) ==
    /\ At(p, "push", stage)
    /\ UNCHANGED <<gerritVars, releaseVars, majorValues, stream, spent>>

InClone(R, ref, version) ==
    CASE ref = "release" -> version \in DOMAIN R.releases
      [] ref = "major" -> version[1] \in DOMAIN R.majors
      [] ref = "patch" -> version \in DOMAIN R.patches
      [] ref = "main" -> version[1] <= R.main
      [] OTHER -> FALSE

\* git fetch origin with the refspec of the ref: tags on commits that are there
\* come along.
UpTo(f, n) == Restrict(f, {x \in DOMAIN f : f[x] <= n})
Fetched(s, ref, version) ==
    LET C == repo[s].clone
        R == repo[s].remote
        with == CASE ref = "release" -> [C EXCEPT !.releases = Put(@, version, R.releases[version])]
                  [] ref = "major" -> [C EXCEPT !.majors = Put(@, version[1], R.majors[version[1]])]
                  [] ref = "patch" -> [C EXCEPT !.patches = Put(@, version, R.patches[version])]
                  [] ref = "main" -> [C EXCEPT !.main = R.main]
                  [] OTHER -> C IN
    [with EXCEPT !.releases = UpTo(R.releases, Have(with)),
                 !.majors = UpTo(R.majors, Have(with))]

\* NormalizedModelUtil.normalize
Normalized(ref) == ref \in {"main", "patch", "release", "major"}

\* The library depends on nothing: registering it writes nothing.
EnsurePushed(p) ==
    LET t == task[p] IN
    /\ PushStep(p, "ensure")
    /\ repo' = IF InClone(repo[t.source].clone, t.ref, t.version) THEN repo
               ELSE [repo EXCEPT ![t.source].clone = Fetched(t.source, t.ref, t.version)]
    /\ IF ~Normalized(t.ref) THEN End(p)
       ELSE IF t.source = App THEN Go(p, "dependencies")
       ELSE IF t.ref = "release" THEN Go(p, "invalidate") ELSE End(p)
    /\ UNCHANGED <<esVars, dsVars, cache, op, missed>>

\* registerDependencies: the model, the serie and the files; what the top major
\* uses.
TopMajor(R) == IF Subscribed THEN Highest(majorValues) ELSE MainMajor(R)
ReadDependencies(p) ==
    LET R == repo[App].clone
        sha == ReadSha(R, TopMajor(R)) IN
    /\ PushStep(p, "dependencies")
    /\ Become(p, [at |-> "read", todo |-> IF sha = 0 THEN {} ELSE UsedBy(heads[sha])])
    /\ UNCHANGED <<esVars, dsVars, repo, cache, op, missed>>

ReadIndex(p) ==
    /\ PushStep(p, "read")
    /\ ReadExisting(p, App, task[p].todo)
    /\ Go(p, "replace")
    /\ UNCHANGED <<esVars, repo, cache, op, missed>>

ReplaceIndex(p) ==
    /\ PushStep(p, "replace")
    /\ Replace(p)
    /\ End(p)
    /\ UNCHANGED <<esVars, repo, cache, op, missed>>

\* DependencyLookupCacheImpl.invalidate: DEL
ReleasedRefs == {"git"} \cup Publications

\* Fault: what is known of the binaries stays.
InvalidateGit(p) ==
    /\ PushStep(p, "invalidate")
    /\ cache' = [cache EXCEPT !["git"] = None]
    /\ Go(p, "lookup")
    /\ UNCHANGED <<esVars, dsVars, repo, op, missed>>

\* History: what others have listed and not stored is out of date.
Invalidate(p) ==
    /\ PushStep(p, "invalidate")
    /\ cache' = [r \in Refs |-> IF r \in ReleasedRefs THEN None ELSE cache[r]]
    /\ task' = [q \in Clients |-> IF q = p THEN Over([at |-> "lookup"], task[q])
                        ELSE Over([late |-> task[q].late \cup task[q].store], task[q])]
    /\ UNCHANGED <<esVars, dsVars, repo, op, missed>>

\* processByReferences: those who use it, but for the library itself.
FindUsers(p) ==
    LET users == Lookup(ReleasedRefs) \ {Lib} IN
    /\ PushStep(p, "lookup")
    /\ IF App \in users THEN Go(p, "ask") ELSE End(p)
    /\ missed' = IF App \in users THEN missed ELSE missed \cup {task[p].version}
    /\ UNCHANGED <<esVars, dsVars, repo, cache, op>>

\* processRepository: one scan of a repository at a time
AskScan(p) ==
    /\ PushStep(p, "ask") /\ ~Doomed
    /\ \E o \in {p} \X {0, 1} :
          /\ Fresh(<<p, 0>>) => o = <<p, 0>>
          /\ Execute(o)
          /\ op' = [op EXCEPT ![p] = o]
    /\ Go(p, "scan")
    /\ UNCHANGED <<dsVars, repo, cache, missed>>

BeginScan(o) ==
    /\ ~Doomed
    /\ Begin(o)
    /\ UNCHANGED <<dsVars, gerritVars, releaseVars, repo, cache, majorValues, stream, task, op,
                   spent, missed>>

-----------------------------------------------------------------------------
\* ScannerManagerImpl.processRepository, and the end of /update-content, which
\* does not queue for it.  The labels of a scan are worked on one by one here, in
\* any order. When one fails the scan is over for those who wait for it, while the
\* work on the others goes on.

Working(p) ==
    /\ Quiet
    /\ \/ task[p].kind \in {"upload", "orphan"}
       \/ op[p] # None /\ promise[op[p]] = "running"
WorkStep(p, stage) ==
    /\ Working(p) /\ task[p].at = stage
    /\ UNCHANGED <<dsVars, heads, releaseVars, repo, majorValues, stream>>
Goes == UNCHANGED <<esVars, op>>

Settles(p, v) ==
    IF op[p] = None THEN Goes
    ELSE Settle(op[p], v) /\ op' = [op EXCEPT ![p] = None]
WorkEnds(p) == End(p) /\ Settles(p, "fulfilled")
NextLabels(p, kind, labels) == Become(p,
    [kind |-> kind, at |-> "labels", again |-> FALSE, want |-> Restrict(task[p].want, labels)])
LabelsLeft(p) == DOMAIN task[p].want \ {task[p].label}
WorkFails(p) ==
    /\ Settles(p, "rejected")
    /\ IF LabelsLeft(p) = {} THEN End(p) ELSE NextLabels(p, "orphan", LabelsLeft(p))
MissedIf(condition) == missed' = IF condition THEN missed \cup Tagged ELSE missed

ReadModel(p) ==
    /\ WorkStep(p, "scan")
    /\ Become(p, [model |-> repo[App].clone, at |-> "list"])
    /\ Goes /\ UNCHANGED <<updates, cache, missed, spent>>

\* getUpdates, then the serie.  A major that the model does not know is left alone.
ListUpdates(p) ==
    LET R == task[p].model
        sha == ReadSha(R, TopMajor(R))
        seen == [u \in OpenUpdates |-> [label |-> updates[u].label, file |-> updates[u].file]] IN
    /\ WorkStep(p, "list") /\ task[p].kind = "push"
    /\ IF sha = 0 THEN WorkEnds(p)
       ELSE /\ Become(p, [at |-> "look", seen |-> seen, model |-> None, major |-> TopMajor(R),
                          base |-> heads[sha], todo |-> UsedBy(heads[sha])])
            /\ Goes
    /\ MissedIf(sha < Main(App))
    /\ UNCHANGED <<updates, cache, spent>>

\* ArtifactoryImpl.getArtifacts, ArtifactoryDockerRegistryImpl.getTags
ArtifactVersions(d) == DOMAIN published[d]
ImageVersions == DOMAIN published["image"]

\* DependencyLookupCacheImpl.getAllVersions
Listing(d) == CASE d = "git" -> AllVersions(repo[Lib].clone)
                [] d \in {"artifact", "flat"} -> ArtifactVersions(d)
                [] d = "image" -> ImageVersions

LookUp(p, d) ==
    /\ WorkStep(p, "look") /\ d \in task[p].todo \ task[p].store
    /\ IF cache[d] = None
       THEN /\ Become(p, [found |-> Put(task[p].found, d, Listing(d)),
                          store |-> task[p].store \cup {d}])
            /\ MissedIf(d # "git" /\ ~(Tagged \subseteq Listing(d)))
       ELSE /\ Become(p, [found |-> Put(task[p].found, d, IF cache[d] = Invalid THEN {} ELSE cache[d]),
                          todo |-> task[p].todo \ {d}])
            /\ MissedIf(cache[d] = Invalid)
    /\ Goes /\ UNCHANGED <<updates, cache, spent>>

Stored(p, d) == [todo |-> task[p].todo \ {d}, store |-> task[p].store \ {d},
                late |-> task[p].late \ {d}]

StoreVersions(p, d) ==
    /\ WorkStep(p, "look") /\ d \in task[p].store
    /\ cache' = [cache EXCEPT ![d] = task[p].found[d]]
    /\ Become(p, Stored(p, d))
    /\ MissedIf(d \in task[p].late)
    /\ Goes /\ UNCHANGED <<updates, spent>>

\* The registry cannot be asked: that is remembered, too.
LookUpFails(p, d) ==
    /\ WorkStep(p, "look") /\ d \in task[p].store /\ Spend
    /\ cache' = [cache EXCEPT ![d] = Invalid]
    /\ Become(p, Over([found |-> Put(task[p].found, d, {})], Stored(p, d)))
    /\ MissedIf(TRUE)
    /\ Goes /\ UNCHANGED updates

\* EXPIRE: after a quarter of an hour, or three minutes when the lookup failed.
CacheExpires(d) ==
    /\ cache[d] # None /\ Spend /\ Quiet
    /\ cache' = [cache EXCEPT ![d] = None]
    /\ UNCHANGED <<esVars, dsVars, gerritVars, releaseVars, repo, majorValues, stream, task, op,
                   missed>>

\* DependencyProviderImpl.getVersion: an image has no origin, hence no serie.
Newest(p, d) == Pick(task[p].found[d], IF Subscribed THEN <<task[p].major>> ELSE Undefined,
                     "serie", IF d = "image" THEN "none" ELSE "serie")

\* The file with another version for what has the label and is not at the version
\* picked, or nothing.
Outdated(p, used, l) == {d \in used \cap DOMAIN task[p].found :
    LabelOf[d] = l /\ Newest(p, d) \notin {Undefined, task[p].base[d]}}
Rewritten(p, D) == [e \in UNION {FileWith(d) : d \in D} |->
    IF e \in D THEN Newest(p, e) ELSE task[p].base[e]]
ScanManifest(p, l) == Rewritten(p, Outdated(p, InManifest(task[p].base), l))
ScanDependencies(p, l) == Rewritten(p, Outdated(p, InDependencies(task[p].base), l))
ScanBuild(p, l) == Rewritten(p, Outdated(p, InBuild(task[p].base), l))
ScanOf(p, l) == Over(ScanManifest(p, l), Over(ScanDependencies(p, l), ScanBuild(p, l)))

LabelDone(p) ==
    IF LabelsLeft(p) = {} THEN WorkEnds(p)
    ELSE NextLabels(p, task[p].kind, LabelsLeft(p)) /\ Goes

\* Scanner.scan of the branch: what to write for every label.
ScannedBranch(p) ==
    LET t == task[p]
        labels == {l \in {LabelOf[d] : d \in Deps} : ScanOf(p, l) # <<>>} IN
    /\ WorkStep(p, "look") /\ t.todo = {} /\ ~t.again
    /\ IF labels = {} THEN WorkEnds(p)
       ELSE /\ Become(p, [want |-> [l \in labels |-> ScanOf(p, l)], at |-> "labels"])
            /\ Goes
    /\ UNCHANGED <<updates, cache, missed, spent>>

\* A file without a dependency for which there is something to write.
Lacks(file, content) == \E d \in DOMAIN content : file[d] = Undefined /\ content[d] # Undefined

\* The change that has the label is scanned in its turn, or one is created.
TakeLabel(p, l) ==
    LET seen == task[p].seen
        existing == {u \in DOMAIN seen : seen[u].label = l} IN
    /\ WorkStep(p, "labels") /\ l \in DOMAIN task[p].want
    /\ IF existing = {} THEN Become(p, [label |-> l, at |-> "create"]) /\ UNCHANGED missed
       ELSE \E u \in existing :
               /\ Become(p, [label |-> l, id |-> u, at |-> "look", again |-> TRUE,
                             base |-> seen[u].file, found |-> NoOne,
                             todo |-> {d \in UsedBy(seen[u].file) : LabelOf[d] = l}])
               /\ MissedIf(Lacks(seen[u].file, task[p].want[l]))
    /\ Goes /\ UNCHANGED <<updates, cache, spent>>

ScannedUpdate(p) ==
    LET l == task[p].label
        content == ScanOf(p, l) IN
    /\ WorkStep(p, "look") /\ task[p].todo = {} /\ task[p].again
    /\ IF content = <<>> THEN LabelDone(p)
       ELSE /\ Become(p, [want |-> Put(task[p].want, l, content), at |-> "edit"])
            /\ Goes
    /\ UNCHANGED <<updates, cache, missed, spent>>

\* router /update-content
FindUpload(p) ==
    LET existing == {u \in OpenUpdates : updates[u].label = task[p].label} IN
    /\ WorkStep(p, "list") /\ task[p].kind = "upload"
    /\ IF existing = {} THEN Go(p, "create")
       ELSE \E u \in existing : Become(p, [id |-> u, at |-> "edit"])
    /\ Goes /\ UNCHANGED <<updates, cache, missed, spent>>

-----------------------------------------------------------------------------
\* GerritRepositoryAccess.createUpdate and updateUpdate

Create(p) ==
    /\ WorkStep(p, "create")
    /\ CreateUpdate(task[p].kind)
    /\ Become(p, [id |-> Len(updates) + 1, at |-> "label"])
    /\ Goes /\ UNCHANGED <<cache, missed, spent>>

LabelUpdate(p) ==
    /\ WorkStep(p, "label")
    /\ SetHashTags(task[p].id, task[p].label)
    /\ Go(p, "show")
    /\ Goes /\ UNCHANGED <<cache, missed, spent>>

ShowUpdate(p) ==
    /\ WorkStep(p, "show")
    /\ MakePublic(task[p].id)
    /\ Go(p, "edit")
    /\ Goes /\ UNCHANGED <<cache, missed, spent>>

\* An edit that someone else has not published is replaced, or stays where it is.
EditUpdate(p) ==
    LET u == task[p].id
        content == task[p].want[task[p].label] IN
    /\ WorkStep(p, "edit")
    /\ IF Accepts(u, content) THEN PutEdit(u, content) /\ Go(p, "publish") /\ Goes
       ELSE LabelDone(p) /\ UNCHANGED updates
    /\ MissedIf(~updates[u].open \/ updates[u].edit # NoEdit)
    /\ UNCHANGED <<cache, spent>>

\* What is written was read before someone else wrote.
TakesBack(u) == \E d \in Deps : Lower(updates[u].edit[d], updates[u].file[d])

PublishUpdate(p) ==
    LET u == task[p].id IN
    /\ WorkStep(p, "publish")
    /\ IF CanPublish(u) THEN PublishEdit(u) /\ LabelDone(p) ELSE WorkFails(p) /\ UNCHANGED updates
    /\ MissedIf(~CanPublish(u) \/ TakesBack(u))
    /\ UNCHANGED <<cache, spent>>

-----------------------------------------------------------------------------
\* A request fails.  Those of a scan reject its promise: reading the model, what
\* Gerrit is asked, and ensureRef of a change that is scanned in its turn.  A push
\* is handled once more after everything was fetched.

WorkRejected(p) ==
    /\ Working(p)
    /\ \/ task[p].at \in {"scan", "list", "create", "label", "show", "edit", "publish"}
       \/ task[p].at = "look" /\ task[p].again /\ task[p].store = {}
    /\ Spend /\ WorkFails(p) /\ MissedIf(TRUE)
    /\ UNCHANGED <<dsVars, gerritVars, releaseVars, repo, cache, majorValues, stream>>

ReleaseRejected(p) == \E lost \in SUBSET {c \in calls : c.by = p /\ c.version = task[p].version} :
    /\ task[p].kind = "release" /\ Quiet /\ End(p)
    /\ calls' = calls \ lost
    /\ UNCHANGED <<esVars, dsVars, gerritVars, published, excused, repo, cache, majorValues,
                   stream, op, spent, missed>>

PushRejected(p) ==
    LET t == task[p] IN
    /\ t.kind = "push" /\ t.at \in {"ensure", "dependencies", "read", "replace"} /\ Quiet /\ Spend
    /\ IF t.tried THEN End(p) ELSE Become(p, [at |-> "ensure", tried |-> TRUE, todo |-> {}])
    /\ repo' = [repo EXCEPT ![t.source].clone = repo[t.source].remote]
    /\ Abandon({p})
    /\ MissedIf(t.tried)
    /\ UNCHANGED <<esVars, gerritVars, releaseVars, cache, majorValues, stream, op>>

\* The process ends and is started again; what it has asked for is done or is not.
Restarted(lost) ==
    /\ Forget /\ Abandon(Clients)
    /\ task' = [p \in Clients |-> Idle]
    /\ op' = [p \in Clients |-> None]
    /\ calls' = calls \ lost
    /\ excused' = excused \cup {c.version : c \in lost}
    /\ missed' = missed \cup Tagged \cup {c.version : c \in lost}
    /\ UNCHANGED <<gerritVars, published, repo, cache, majorValues, stream>>

Restart == \E lost \in SUBSET calls :
    /\ IF Doomed THEN UNCHANGED spent ELSE Quiet /\ Spend
    /\ Restarted(lost)

\* An upload of a manifest is refused. Nobody handles that, which ends the process.
UploadFails(c) == \E lost \in SUBSET calls :
    /\ c.kind = "image" /\ Quiet
    /\ Restarted(lost \cup {c})
    /\ UNCHANGED spent

\* Whatever came in has been dealt with.
AtRest == stream = <<>> /\ \A p \in Clients : ~Busy(p)

Step ==
    \/ \E p \in Clients :
          \/ Deliver(p)
          \/ ChooseVersion(p) \/ Publish(p) \/ SetTag(p)
          \/ \E s \in Sources : ApplyMajor(p, s)
          \/ EnsurePushed(p) \/ ReadDependencies(p) \/ ReadIndex(p) \/ ReplaceIndex(p)
          \/ Invalidate(p) \/ FindUsers(p) \/ AskScan(p)
          \/ ReadModel(p) \/ ListUpdates(p) \/ ScannedBranch(p) \/ ScannedUpdate(p)
          \/ FindUpload(p)
          \/ Create(p) \/ LabelUpdate(p) \/ ShowUpdate(p) \/ EditUpdate(p) \/ PublishUpdate(p)
    \/ \E p \in Clients, d \in Deps : LookUp(p, d) \/ StoreVersions(p, d)
    \/ \E p \in Clients : \E l \in DOMAIN task[p].want : TakeLabel(p, l)
    \/ \E c \in calls : Land(c)
    \/ \E o \in Ops : BeginScan(o)
    \/ Doomed /\ Restart

Next ==
    \/ Step
    \/ MergeLib
    \/ \E p \in Clients, m \in 1 .. 3, sha \in 1 .. Main(Lib) : RequestRelease(p, m, sha)
    \/ \E p \in Clients, m \in 1 .. 3 : AddMajor(p, m)
    \/ \E m \in 1 .. 3 : CreatePatch(m)
    \/ PushTopic
    \/ \E d \in Refs : CacheExpires(d)
    \/ \E u \in DOMAIN updates : MergeProposal(u)
    \/ \E d \in Deps : EditApp(d)
    \/ \E p \in Clients, d \in Deps, v \in Tagged : UploadContent(p, d, v)
    \/ \E c \in calls : UploadFails(c)
    \/ \E p \in Clients, d \in Deps : LookUpFails(p, d)
    \/ \E p \in Clients : WorkRejected(p) \/ ReleaseRejected(p) \/ PushRejected(p)
    \/ Restart
    \/ AtRest /\ UNCHANGED vars

Spec == Init /\ [][Next]_vars

-----------------------------------------------------------------------------
TypeOK ==
    /\ DSTypeOK
    /\ promise \in [Ops -> {"unused", "waiting", "running", "fulfilled", "rejected"}]
    /\ \A s \in Sources : repo[s].clone.main \in 1 .. Main(s)
    /\ Len(heads) = Main(App)
    /\ op \in [Clients -> Ops \cup {None}]
    /\ \A p \in Clients : op[p] # None => task[p].kind = "push"
    /\ ChangesTypeOK({Undefined} \cup (UNION {DOMAIN published[k] : k \in Publications}) \cup Tagged,
                     {LabelOf[d] : d \in Deps})

\* What is released as a version was built from the commit that has the tag: the
\* release computes the version from its model and publishes before it tags.  What
\* has a path of one segment is never copied, neither from that commit nor from
\* another: its version is tagged all the same.  Not so when another release is about
\* the same version, when the clone did not have the commit or the tag yet, or when
\* the process ends before the image, which is not waited for, is uploaded
\* (BuildSystemImpl.release, PublisherManagerImpl.publish, ArtifactoryImpl.copy).
PublishedIsTagged == \A v \in Tagged \ excused, k \in Publications :
    LET sha == repo[Lib].remote.releases[v] IN
    \/ v \in DOMAIN published[k] /\ published[k][v] = sha
    \/ k = "image" /\ \E c \in calls : c.kind = k /\ c.version = v /\ c.sha = sha
    \/ k = "flat" /\ v \notin DOMAIN published[k]

\* A label has at most one open change, unless /update-content, or a scan that
\* went on after one of its labels had failed, made one while the next was under way
\* (ScannerManagerImpl.processRepository: one scan of a source at a time).
OneUpdatePerLabel == \A u, w \in OpenUpdates :
    u # w /\ updates[u].label = updates[w].label /\ updates[u].label # NoLabel
    => {updates[u].by, updates[w].by} \cap {"upload", "orphan"} # {}

Proposed(v, d) ==
    \/ Tip[d] = Undefined
    \/ ~Lower(Tip[d], v)
    \/ \E u \in OpenUpdates : updates[u].label = LabelOf[d] /\ ~Lower(updates[u].file[d], v)

\* When nothing is left to do, a release is proposed to the application that uses
\* it: its main branch or an open change of the label has the version or a newer
\* one, but for the ways to miss it that are written down where they happen: a
\* failure or restart, an image not yet uploaded or a list of versions stored late
\* when the versions are looked up, an application not registered or fetched yet,
\* a change merged or edited by others under the scan or that takes back what was
\* there, and an open change without the dependency, which is scanned by its own file
\* (BuildSystemImpl.onPush, DependencyLookupCacheImpl, ScannerManagerImpl).
ReleaseIsProposed == AtRest => \A v \in Tagged \ missed, d \in Deps : Proposed(v, d)
=============================================================================
