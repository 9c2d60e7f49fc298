------------------------- MODULE ExecutionSerializer -------------------------
(***************************************************************************)
(* The chain of promises by which the operations on one key (one local git  *)
(* repository, one source to be scanned) are run one after the other.       *)
(***************************************************************************)
EXTENDS Sequences, Naturals

CONSTANTS Ops, None

ASSUME NoneIsNoOp == None \notin Ops

VARIABLES
    last,    \* lastPromiseByKey: the promise of the operation asked for last
    after,   \* per operation that waits, the promise it waits for
    promise, \* per operation, the state of its promise
    line     \* history: the operations asked for and not settled, in order

esVars == <<last, after, promise, line>>

ESInit ==
    /\ last = None
    /\ after = [o \in Ops |-> None]
    /\ promise = [o \in Ops |-> "unused"]
    /\ line = <<>>

Settled(o) == promise[o] \in {"fulfilled", "rejected"}

\* The promise that finally() derives from a rejected predecessor is rejected
\* too and has no handler: the process ends.
Doomed == \E o \in Ops :
    /\ promise[o] = "waiting"
    /\ after[o] \in Ops
    /\ promise[after[o]] = "rejected"

\* A name of a promise that nothing refers to any more.
Fresh(o) ==
    /\ promise[o] \notin {"waiting", "running"}
    /\ o # last
    /\ \A q \in Ops : after[q] # o

\* Fault: nobody waits for the predecessor.
ExecuteAtOnce(o) ==
    /\ Fresh(o)
    /\ last' = o
    /\ promise' = [promise EXCEPT ![o] = "waiting"]
    /\ line' = Append(line, o)
    /\ UNCHANGED after

Execute(o) ==
    /\ Fresh(o)
    /\ after' = [after EXCEPT ![o] = last]
    /\ last' = o
    /\ promise' = [promise EXCEPT ![o] = "waiting"]
    /\ line' = Append(line, o)

\* The predecessor is settled, if there is one: f is called, and nothing refers
\* to the predecessor any more.
CanBegin(o) ==
    /\ promise[o] = "waiting"
    /\ after[o] \in Ops => Settled(after[o])

Begin(o) ==
    /\ CanBegin(o)
    /\ promise' = [q \in Ops |-> IF q = o THEN "running"
                                ELSE IF q = after[o] THEN "unused" ELSE promise[q]]
    /\ after' = [after EXCEPT ![o] = None]
    /\ UNCHANGED <<last, line>>

Settle(o, v) ==
    /\ promise[o] = "running"
    /\ promise' = [promise EXCEPT ![o] = v]
    /\ line' = IF line # <<>> /\ Head(line) = o THEN Tail(line) ELSE line
    /\ UNCHANGED <<last, after>>

\* The process ends and is started again.
Forget ==
    /\ last' = None
    /\ after' = [o \in Ops |-> None]
    /\ promise' = [o \in Ops |-> "unused"]
    /\ line' = <<>>

ESNext ==
    \/ \E o \in Ops : Execute(o) \/ Begin(o)
    \/ \E o \in Ops, v \in {"fulfilled", "rejected"} : Settle(o, v)
    \/ Forget

ESSpec == ESInit /\ [][ESNext]_esVars

-----------------------------------------------------------------------------
\* An operation runs only when all that were asked for before it are settled,
\* so no two run at once and none overtakes another, whether those before it
\* succeed or fail (ExecutionSerializerImpl.execute: lastPromise.finally).
ServedInOrder == \A o \in Ops : promise[o] = "running" => line # <<>> /\ Head(line) = o
=============================================================================
