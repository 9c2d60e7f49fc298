------------------------------- MODULE Versions -------------------------------
(***************************************************************************)
(* Versions, the containers that pick one of them, and the model of the      *)
(* refs of a repository from which the next version is computed.  A version  *)
(* is a sequence of numbers: three in a release tag, two or three in the     *)
(* tag of an image.  The refs of a repository are the commit of the main     *)
(* branch and functions from release tags (v1.2.3), major tags (major-1) and *)
(* patch branches (patch-1, patch-1.2) to commits.                           *)
(***************************************************************************)
EXTENDS Integers, Sequences

\* No version, no commit, no limit.
Undefined == <<>>

Highest(S) == CHOOSE n \in S : \A m \in S : m <= n

\* Version.compare < 0
Lower(v, w) == \E i \in 1 .. Len(w) :
    /\ \A j \in 1 .. i - 1 : j <= Len(v) /\ v[j] = w[j]
    /\ i > Len(v) \/ v[i] < w[i]

-----------------------------------------------------------------------------
\* VersionContainer: at every level the branches, the versions that go on, come
\* before the releases, those that end.

GoingOn(S) == {v \in S : Len(v) > 1}
Heads(S) == {v[1] : v \in S}
Under(S, n) == {Tail(v) : v \in {w \in GoingOn(S) : w[1] = n}}

Last1(S) == IF S = {} THEN Undefined ELSE <<Highest(Heads(S))>>
Last2(S) == IF GoingOn(S) = {} THEN Last1(S)
            ELSE LET n == Highest(Heads(GoingOn(S))) IN <<n>> \o Last1(Under(S, n))
GetHighest(S, maxMajor) ==
    LET within == {v \in S : maxMajor = Undefined \/ <<v[1]>> = maxMajor \/ v[1] < maxMajor[1]}
    IN IF within = {} THEN Undefined
       ELSE LET n == Highest(Heads(within)) IN <<n>> \o Last2(Under(within, n))

\* DependencySelector.pick.  A serie is named, its major limits the version when
\* the dependency is of the same serie; otherwise the highest version is taken.
\* The selector that is to keep the major of the current version is never used:
\* its INSTANCE is one of HighestDependencySelector.
Pick(S, target, targetSerie, serie) ==
    GetHighest(S, IF target # Undefined /\ targetSerie = serie THEN target ELSE Undefined)

-----------------------------------------------------------------------------
\* RawDataToModelConverter: the majors that any ref names.  The highest is that
\* of the main branch.

Majors(R) == Heads(DOMAIN R.releases) \cup DOMAIN R.majors \cup Heads(DOMAIN R.patches)
MainMajor(R) == IF Majors(R) = {} THEN 0 ELSE Highest(Majors(R))
Releases(R, major) == {v \in DOMAIN R.releases : v[1] = major}

\* Every patch branch of a major sets the branch of the major: the test for a
\* single number assigns it, so patch-1.2 counts as patch-1 and, read last, wins.
PatchesOf(R, major) == {b \in DOMAIN R.patches : b[1] = major}
BranchOf(R, major) == CHOOSE b \in PatchesOf(R, major) :
    \A c \in PatchesOf(R, major) : c = b \/ Lower(c, b)

-----------------------------------------------------------------------------
\* RepositoryModelReader

NextVersion(R, major, type) ==
    LET released == Releases(R, major)
        minor == Highest({v[2] : v \in released}) IN
    IF released = {} THEN <<major, 0, 0>>
    ELSE IF type = "minor" THEN <<major, minor + 1, 0>>
    ELSE <<major, minor, Highest({v[3] : v \in {w \in released : w[2] = minor}}) + 1>>

AllVersions(R) == DOMAIN R.releases

\* The next higher major that any ref names.
NextMajor(R, major) == CHOOSE m \in Majors(R) :
    m > major /\ \A n \in Majors(R) : n <= major \/ m <= n
HasNextMajor(R, major) == major \in Majors(R) /\ major # MainMajor(R)

\* findBranch without a minor: main, the branch of a lower major, or none.
FindBranch(R, major) ==
    IF major = MainMajor(R) THEN "main"
    ELSE IF PatchesOf(R, major) # {} THEN "patch" ELSE "none"

\* resolveReadSha, resolveWriteBranch: a major that has no branch ends where the
\* next one starts.
ReadSha(R, major) ==
    CASE FindBranch(R, major) = "main" -> R.main
      [] FindBranch(R, major) = "patch" -> R.patches[BranchOf(R, major)]
      [] OTHER -> IF HasNextMajor(R, major) /\ NextMajor(R, major) \in DOMAIN R.majors
                  THEN R.majors[NextMajor(R, major)] ELSE 0
WriteBranchExists(R, major) == FindBranch(R, major) # "none"
=============================================================================
