-------------------------- MODULE IntegrationQueue --------------------------
(***************************************************************************)
(* What the build queue promises its users, without counters, scores and   *)
(* the bookkeeping of which queue is busy.  A change waits or is built with *)
(* the newest patch set submitted for it and with no other; a queue builds  *)
(* at most one change; a new patch set of the change being built ends that  *)
(* build and makes the change wait again.                                   *)
(***************************************************************************)
EXTENDS Naturals

CONSTANTS Queues, Canonicals, Shas, None

VARIABLES
    newest,  \* the newest patch set submitted for a change, None before the first
    phase    \* what a change does in a queue: "idle", "waiting" or "building"

iqVars == <<newest, phase>>

Init ==
    /\ newest = [q \in Queues |-> [c \in Canonicals |-> None]]
    /\ phase = [q \in Queues |-> [c \in Canonicals |-> "idle"]]

Submit(q, c, s) ==
    /\ newest' = [newest EXCEPT ![q][c] = s]
    /\ phase' = [phase EXCEPT ![q][c] = "waiting"]

\* The queues of S, none of which builds, each begin to build a waiting change.
Begin(S, c) ==
    /\ \A q \in S : /\ phase[q][c[q]] = "waiting"
                    /\ \A d \in Canonicals : phase[q][d] # "building"
    /\ phase' = [q \in Queues |-> [d \in Canonicals |->
                   IF q \in S /\ d = c[q] THEN "building" ELSE phase[q][d]]]
    /\ UNCHANGED newest

Finish(q, c) ==
    /\ phase[q][c] = "building"
    /\ phase' = [phase EXCEPT ![q][c] = "idle"]
    /\ UNCHANGED newest

Next ==
    \/ \E q \in Queues, c \in Canonicals, s \in Shas : Submit(q, c, s)
    \/ \E S \in SUBSET Queues : \E c \in [S -> Canonicals] : Begin(S, c)
    \/ \E q \in Queues, c \in Canonicals : Finish(q, c)

Spec == Init /\ [][Next]_iqVars
=============================================================================
