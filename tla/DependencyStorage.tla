-------------------------- MODULE DependencyStorage --------------------------
(***************************************************************************)
(* The index of dependencies in Redis: the references a repository uses and, *)
(* the other way round, the repositories that use a reference.               *)
(***************************************************************************)
EXTENDS Integers

CONSTANTS Sources, Refs, Clients, Nobody

ASSUME NobodyIsNoSource == Nobody \notin Sources

VARIABLES
    bySource, \* dependencies-source:<source>
    byRef,    \* dependencies-refs:<ref>
    asked,    \* per client, the update it has begun: the old references are read
    torn      \* history: sources that were updated from old references no longer true

dsVars == <<bySource, byRef, asked, torn>>

Nothing == [source |-> Nobody, old |-> {}, new |-> {}]

DSInit(initial) ==
    /\ bySource = initial
    /\ byRef = [r \in Refs |-> {s \in Sources : r \in initial[s]}]
    /\ asked = [c \in Clients |-> Nothing]
    /\ torn = {}

\* DependencyStoragImpl.lookup: one transaction
Lookup(refs) == UNION {byRef[r] : r \in refs}

\* update: smembers
ReadExisting(c, s, refs) ==
    /\ asked[c].source = Nobody
    /\ asked' = [asked EXCEPT ![c] = [source |-> s, old |-> bySource[s], new |-> refs]]
    /\ UNCHANGED <<bySource, byRef, torn>>

\* Fault: what is no longer used is not removed.
ReplaceAdding(c) ==
    LET a == asked[c] IN
    /\ a.source # Nobody
    /\ bySource' = [bySource EXCEPT ![a.source] = a.new]
    /\ byRef' = [r \in Refs |-> IF r \in a.new \ a.old THEN byRef[r] \cup {a.source} ELSE byRef[r]]
    /\ torn' = IF a.old = bySource[a.source] THEN torn ELSE torn \cup {a.source}
    /\ asked' = [asked EXCEPT ![c] = Nothing]

\* update: multi, del, sadd and the differences with what was read
Replace(c) ==
    LET a == asked[c] IN
    /\ a.source # Nobody
    /\ bySource' = [bySource EXCEPT ![a.source] = a.new]
    /\ byRef' = [r \in Refs |->
            IF r \in a.new \ a.old THEN byRef[r] \cup {a.source}
            ELSE IF r \in a.old \ a.new THEN byRef[r] \ {a.source} ELSE byRef[r]]
    /\ torn' = IF a.old = bySource[a.source] THEN torn ELSE torn \cup {a.source}
    /\ asked' = [asked EXCEPT ![c] = Nothing]

\* The process ends, or the command fails.
Abandon(C) ==
    /\ asked' = [c \in Clients |-> IF c \in C THEN Nothing ELSE asked[c]]
    /\ UNCHANGED <<bySource, byRef, torn>>

DSNext ==
    \/ \E c \in Clients, s \in Sources, refs \in SUBSET Refs : ReadExisting(c, s, refs)
    \/ \E c \in Clients : Replace(c)
    \/ \E C \in SUBSET Clients : Abandon(C)

DSSpec == (\E initial \in [Sources -> SUBSET Refs] : DSInit(initial)) /\ [][DSNext]_dsVars

-----------------------------------------------------------------------------
DSTypeOK ==
    /\ bySource \in [Sources -> SUBSET Refs]
    /\ byRef \in [Refs -> SUBSET Sources]
    /\ asked \in [Clients -> [source : Sources \cup {Nobody}, old : SUBSET Refs, new : SUBSET Refs]]
    /\ torn \subseteq Sources

\* The two directions of the index agree for every source, unless an update of it
\* came between the read and the write of another (DependencyStoragImpl.update:
\* the read is not part of the transaction, nor is the source locked).
IndexIsTwoWay == \A s \in Sources \ torn, r \in Refs : s \in byRef[r] <=> r \in bySource[s]
=============================================================================
