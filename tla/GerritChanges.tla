----------------------------- MODULE GerritChanges -----------------------------
(***************************************************************************)
(* The changes that the backend makes in Gerrit for a repository that uses   *)
(* others: each has a label (a hashtag), starts as a private one and gets    *)
(* its content by an edit that is published.  What counts of the content are *)
(* the dependencies in its files, a function from references to the versions *)
(* used (Undefined where the reference is not).                              *)
(***************************************************************************)
EXTENDS Integers, Sequences

CONSTANTS Deps, NoLabel, NoEdit

\* What stands for "no edit yet" is not a content.
ASSUME NoEditIsNoFile == NoEdit \notin [Deps -> Seq(Nat)]

VARIABLES
    heads,  \* the file at every commit of the main branch
    updates \* the changes, in the order they were created

Tip == heads[Len(heads)]

\* The entries of g, but for those that f has.
Over(f, g) == [x \in DOMAIN f \cup DOMAIN g |-> IF x \in DOMAIN f THEN f[x] ELSE g[x]]

\* Fault: the change is public at once.
CreatePublicUpdate(who) == updates' = Append(updates,
    [label |-> NoLabel, private |-> FALSE, open |-> TRUE, by |-> who,
     base |-> Tip, file |-> Tip, edit |-> NoEdit])

\* createUpdate: POST changes/
CreateUpdate(who) == updates' = Append(updates,
    [label |-> NoLabel, private |-> TRUE, open |-> TRUE, by |-> who,
     base |-> Tip, file |-> Tip, edit |-> NoEdit])

\* internalSetHashTags
SetHashTags(u, label) == updates' = [updates EXCEPT ![u].label = label]

\* createUpdate: DELETE private
MakePublic(u) == updates' = [updates EXCEPT ![u].private = FALSE]

\* internalUpsertFileContent: Gerrit answers 409 when the change is closed or the
\* edit has that content already, and both are taken for success. The content is
\* that of some of the files, or of one.
Edited(u) == IF updates[u].edit = NoEdit THEN updates[u].file ELSE updates[u].edit
Accepts(u, content) == updates[u].open /\ Over(content, Edited(u)) # Edited(u)
PutEdit(u, content) == updates' = [updates EXCEPT ![u].edit = Over(content, Edited(u))]

\* internalUpsertFileContent: edit:publish
CanPublish(u) == updates[u].open /\ updates[u].edit # NoEdit
PublishEdit(u) == updates' =
    [updates EXCEPT ![u].file = updates[u].edit, ![u].edit = NoEdit]

\* Three files merged, entry by entry.
Merged(u) == [d \in Deps |-> IF u.file[d] = u.base[d] THEN Tip[d] ELSE u.file[d]]
Mergeable(u) ==
    /\ u.open /\ ~u.private /\ u.file # u.base
    /\ \A d \in Deps : u.file[d] = u.base[d] \/ Tip[d] \in {u.base[d], u.file[d]}
MergeUpdate(u) ==
    /\ Mergeable(updates[u])
    /\ heads' = Append(heads, Merged(updates[u]))
    /\ updates' = [updates EXCEPT ![u].open = FALSE]

\* getUpdates: the open changes, the private ones of the backend among them.
OpenUpdates == {u \in DOMAIN updates : updates[u].open}

ChangesTypeOK(versions, labels) ==
    /\ \A n \in DOMAIN heads : heads[n] \in [Deps -> versions]
    /\ \A u \in DOMAIN updates :
          /\ {updates[u].base, updates[u].file, Edited(u)} \subseteq [Deps -> versions]
          /\ updates[u].label \in labels \cup {NoLabel}
          /\ ~updates[u].private => updates[u].label # NoLabel
=============================================================================
