---------------------------- MODULE MCBuildSystem ----------------------------
(* One target branch: the changes of all instances share a local queue. *)
EXTENDS BuildSystem
CONSTANT q1
MCQueueOf == [c \in Canonicals |-> q1]
=============================================================================
