---------------------------- MODULE MCReleaseFlow ----------------------------
(* The library publishes two artifacts, one with a path of one segment, and an image.   *)
(* An artifact and the image are used in one file, under two labels.                  *)
EXTENDS ReleaseFlow, TLC

CONSTANTS p1, p2

TwoClientsOps == {p1, p2} \X {0, 1}
ClientsAreAlike == Permutations(Clients)
TwoSources == {"lib", "app"}
AllRefs == {"git", "artifact", "flat", "image"}
TwoReleases == <<<<2, 0, 0>>, <<2, 1, 0>>>>
TwoLabels == [artifact |-> "default", image |-> "tools"]
TwoFiles == [artifact |-> "dependencies", image |-> "dependencies"]

(* A larger instance, too large to be run every time: the manifest and the label *)
(* "default" in two files as well.                                             *)
ThreeLabels == [git |-> "default", artifact |-> "default", image |-> "tools"]
ThreeFiles == [git |-> "manifest", artifact |-> "dependencies", image |-> "dependencies"]
=============================================================================
