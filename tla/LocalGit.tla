------------------------------- MODULE LocalGit -------------------------------
(***************************************************************************)
(* One Git repository and the local clone of it that the backend works on.  *)
(* Every command runs on the clone as an operation of the execution         *)
(* serializer, is retried, and is at last run on a fresh clone.  The history *)
(* of the main branch is a line: commit n has the commits 1..n-1 before it.  *)
(***************************************************************************)
EXTENDS ExecutionSerializer, FiniteSets

CONSTANTS
    Tags, Changes,   \* the names of tags, the patch sets of changes
    Values,          \* what a file on the main branch lists
    Budget,          \* bound: what others do, and what fails, altogether
    GIT_RETRY_COUNT, RETRY_COUNT

Main == "main"

ASSUME LocalGitAssumption ==
    /\ Tags \cap Changes = {} /\ {Main, "meta"} \cap (Tags \cup Changes) = {}
    /\ GIT_RETRY_COUNT \in Nat /\ RETRY_COUNT \in Nat
ASSUME NoneIsNoCommand ==
    None \notin [at : {"init", "command"}, tries : Nat, retries : Nat, refresh : BOOLEAN]

VARIABLES
    remote, \* main, tags, the uploaded changes, and the file at every commit
    clone,  \* ready (.git exists), meta/config, main, tags, the changes, and
            \* the newest commit whose objects are there
    cmd,    \* per operation, the command it is to run
    git,    \* the command that runs: where it is, and what is left to try
    spent   \* how much of Budget

gitVars == <<remote, clone, cmd, git, spent>>

NoTags == [t \in Tags |-> 0]
Empty == [ready |-> TRUE, meta |-> FALSE, main |-> 0, tags |-> NoTags,
          changes |-> {}, have |-> 0]
NoClone == [Empty EXCEPT !.ready = FALSE]
NoCmd == [name |-> "none", ref |-> Main, sha |-> 0]

GitInit ==
    /\ remote = [main |-> 1, tags |-> NoTags, changes |-> {},
                 file |-> <<{}>>]
    /\ clone = [Empty EXCEPT !.meta = TRUE, !.main = 1, !.have = 1]
    /\ cmd = [o \in Ops |-> NoCmd]
    /\ git = None
    /\ spent = 0

Spend == spent < Budget /\ spent' = spent + 1

Larger(m, n) == IF m < n THEN n ELSE m

-----------------------------------------------------------------------------
\* What git itself does to a clone.

\* Tags on commits that are there, or are fetched, come along if they are not there.
Followed(c, n) == [t \in Tags |->
    IF c.tags[t] = 0 /\ remote.tags[t] \in 1 .. n THEN remote.tags[t] ELSE c.tags[t]]

FetchMain(c) == [c EXCEPT !.main = remote.main, !.have = Larger(@, remote.main),
                          !.tags = Followed(c, remote.main)]

\* git fetch origin
FetchDefaultRemotes(c) == [FetchMain(c) EXCEPT !.meta = TRUE]

\* git fetch origin --prune --prune-tags: a tag that was moved is not replaced,
\* and the command then fails.
FetchPrune(c) == [FetchDefaultRemotes(c) EXCEPT !.tags = [t \in Tags |->
    IF remote.tags[t] # 0 /\ c.tags[t] # 0 THEN c.tags[t] ELSE remote.tags[t]]]
Clobbers(c) == \E t \in Tags : 0 \notin {remote.tags[t], c.tags[t]} /\ remote.tags[t] # c.tags[t]

\* git fetch origin with the refspec of a ref: it fails when there is no such ref,
\* but that of a change is a pattern.
Missing(ref) == ref \in Tags /\ remote.tags[ref] = 0
Fetch(c, ref) ==
    CASE ref = Main -> FetchMain(c)
      [] ref \in Tags ->
           LET have == Larger(c.have, remote.tags[ref]) IN
           [c EXCEPT !.tags = [Followed(c, have) EXCEPT ![ref] = remote.tags[ref]], !.have = have]
      [] ref \in Changes -> [c EXCEPT !.changes = @ \cup ({ref} \cap remote.changes),
                                      !.tags = Followed(c, c.have)]

-----------------------------------------------------------------------------
\* The commands.

Cmd(o) == cmd[o]

\* Fault: merge-base --is-ancestor with its arguments swapped.
ExistsSwapped(c, ref, sha) ==
    CASE ref = Main -> c.main <= sha
      [] ref \in Tags -> c.tags[ref] # 0
      [] ref \in Changes -> ref \in c.changes

\* Fault: a commit is taken to be there.
ExistsAnyhow(c, ref, sha) ==
    CASE ref = Main -> sha <= c.main
      [] ref \in Tags -> c.tags[ref] # 0
      [] ref \in Changes -> TRUE

\* EntityExists of a branch, RefExists of a tag or a commit.
Exists(c, ref, sha) ==
    CASE ref = Main -> sha <= c.main
      [] ref \in Tags -> c.tags[ref] # 0
      [] ref \in Changes -> ref \in c.changes

\* GetFile: whether the commit (or meta/config) can be read.
Readable(c, ref, sha) ==
    CASE ref = "meta" -> c.meta
      [] ref \in Changes -> ref \in c.changes
      [] OTHER -> sha <= c.have

\* A macro is content: the ref is there, or is deleted.
Ensured(c, m) == (m.name = "ensure") = Exists(c, m.ref, m.sha)
Macro(m) == m.name \in {"ensure", "deleted"}

\* Fault: one try too many.
StartOnceMore(at, retries, refresh) == [at |-> at, tries |-> RETRY_COUNT + 1,
                                        retries |-> retries, refresh |-> refresh]

Start(at, retries, refresh) == [at |-> at, tries |-> RETRY_COUNT,
                                retries |-> retries, refresh |-> refresh]
At(o, place) == /\ promise[o] = "running" /\ git # None /\ git.at = place

\* executeInternal: the fetch of a new clone comes before the command.
BeginCommand(o) ==
    /\ Begin(o)
    /\ git' = Start(IF clone.ready THEN "command" ELSE "init", GIT_RETRY_COUNT, FALSE)
    /\ clone' = [clone EXCEPT !.ready = TRUE]
    /\ UNCHANGED <<remote, cmd, spent>>

\* executeCommand runs the command again, from its beginning.
Retry ==
    /\ git.retries > 0
    /\ git' = Start(git.at, git.retries - 1, git.refresh)

\* execute: the clone is emptied, initialised and fetched, the command repeated.
Refresh ==
    /\ git.retries = 0 /\ ~git.refresh
    /\ git' = Start("init", GIT_RETRY_COUNT, TRUE)
    /\ clone' = Empty

RefreshFailed == git.retries = 0 /\ git.refresh

\* A connection fails, and may go on failing, or a command fails whatever the
\* connection.
Transient == IF git.retries = GIT_RETRY_COUNT THEN Spend ELSE UNCHANGED spent
Lasting == UNCHANGED spent

InitFetch(o) ==
    /\ At(o, "init")
    /\ clone' = FetchDefaultRemotes(clone)
    /\ git' = Start("command", GIT_RETRY_COUNT, git.refresh)
    /\ UNCHANGED <<esVars, remote, cmd, spent>>

\* A macro that is not content yet fetches and looks again; what the last
\* fetch brought is not looked at.
MacroFetch(o) ==
    LET m == Cmd(o) IN
    /\ At(o, "command") /\ Macro(m) /\ git.tries > 0 /\ ~Ensured(clone, m)
    /\ IF m.name = "ensure"
       THEN ~Missing(m.ref) /\ clone' = Fetch(clone, m.ref)
       ELSE ~Clobbers(clone) /\ clone' = FetchPrune(clone)
    /\ git' = [git EXCEPT !.tries = @ - 1]
    /\ UNCHANGED <<esVars, remote, cmd, spent>>

UsesConnection(o) ==
    LET m == Cmd(o) IN
    \/ git.at = "init"
    \/ Macro(m) /\ git.tries > 0 /\ ~Ensured(clone, m)
    \/ m.name \in {"prune", "fetchAll", "update"}

\* It fails however often it is tried on this clone, and what it did fetch.
CannotSucceed(o) ==
    LET m == Cmd(o) IN
    /\ git.at = "command"
    /\ \/ Macro(m) /\ git.tries > 0 /\ ~Ensured(clone, m)
          /\ IF m.name = "ensure" THEN Missing(m.ref) ELSE Clobbers(clone)
       \/ m.name = "prune" /\ Clobbers(clone)
       \/ m.name = "entities" /\ clone.main = 0 /\ clone.tags = NoTags
       \/ m.name = "update" /\ clone.main # remote.main

Partial(o) == IF Cmd(o).name \in {"deleted", "prune"} /\ CannotSucceed(o)
              THEN FetchPrune(clone) ELSE clone

\* An attempt fails and there is another one.
AttemptFails(o) ==
    /\ promise[o] = "running" /\ git # None
    /\ \/ UsesConnection(o) /\ Transient
       \/ CannotSucceed(o) /\ Lasting
    /\ \/ Retry /\ clone' = Partial(o)
       \/ Refresh
    /\ UNCHANGED <<esVars, remote, cmd>>

\* The last attempt fails.
CommandFails(o) ==
    /\ promise[o] = "running" /\ git # None
    /\ \/ UsesConnection(o) /\ Transient
       \/ CannotSucceed(o) /\ Lasting
    /\ RefreshFailed

CommandRejected(o) ==
    /\ CommandFails(o)
    /\ clone' = Partial(o)
    /\ Settle(o, "rejected")
    /\ git' = None
    /\ cmd' = [cmd EXCEPT ![o] = NoCmd]
    /\ UNCHANGED remote

Resolve(o) ==
    /\ Settle(o, "fulfilled")
    /\ git' = None
    /\ cmd' = [cmd EXCEPT ![o] = NoCmd]
    /\ UNCHANGED spent

\* MacroEnsure...: "no_action", "updated" or "not_found".
EnsureResult(o) ==
    IF git.tries = 0 THEN "not_found"
    ELSE IF git.tries = RETRY_COUNT THEN "no_action" ELSE "updated"

\* Fault: it never gives up.
MacroDoneWhenThere(o) ==
    /\ At(o, "command") /\ Macro(Cmd(o))
    /\ Ensured(clone, Cmd(o))
    /\ Resolve(o)
    /\ UNCHANGED <<remote, clone>>

MacroDone(o) ==
    /\ At(o, "command") /\ Macro(Cmd(o))
    /\ git.tries = 0 \/ Ensured(clone, Cmd(o))
    /\ Resolve(o)
    /\ UNCHANGED <<remote, clone>>

FetchDone(o) ==
    /\ At(o, "command")
    /\ \/ Cmd(o).name = "fetchAll" /\ clone' = FetchDefaultRemotes(clone)
       \/ Cmd(o).name = "prune" /\ ~Clobbers(clone) /\ clone' = FetchPrune(clone)
    /\ Resolve(o)
    /\ UNCHANGED remote

\* git show-ref, git show.
ReadDone(o) ==
    /\ At(o, "command")
    /\ Cmd(o).name \in {"entities", "file"}
    /\ ~CannotSucceed(o)
    /\ Resolve(o)
    /\ UNCHANGED <<remote, clone>>

\* Fault: the remote-tracking branch stays where it was.
UpdateDoneUnseen(o, values) ==
    /\ At(o, "command") /\ Cmd(o).name = "update"
    /\ LET n == remote.main + 1 IN remote' = [remote EXCEPT !.main = n, !.file = Append(@, values)]
    /\ Resolve(o)
    /\ UNCHANGED clone

\* UpdateBranch: a commit on top of the cloned branch is pushed; git moves the
\* remote-tracking branch with it.
UpdateDone(o, values) ==
    /\ At(o, "command") /\ Cmd(o).name = "update"
    /\ clone.main = remote.main
    /\ LET n == remote.main + 1 IN
       /\ remote' = [remote EXCEPT !.main = n, !.file = Append(@, values)]
       /\ clone' = [clone EXCEPT !.main = n, !.have = Larger(@, n)]
    /\ Resolve(o)

Request(o, m) ==
    /\ Execute(o)
    /\ cmd' = [cmd EXCEPT ![o] = m]
    /\ UNCHANGED <<remote, clone, git, spent>>

\* The process left its clone like that; a new container has none.
GitRestart(kept, left) ==
    /\ Forget
    /\ clone' = IF kept THEN left ELSE NoClone
    /\ git' = None
    /\ cmd' = [o \in Ops |-> NoCmd]
    /\ UNCHANGED remote
=============================================================================
