------------------------------ MODULE PoolConns ------------------------------
(***************************************************************************)
(* The connections of the shared pools.  Every saved connection has one    *)
(* pool of MaxConns connections for all runs; the workers of a run send    *)
(* single queries to both sides at once, or merge rows, for which they     *)
(* take a connection of the source and keep it while they wait for one of  *)
(* the target.                                                             *)
(***************************************************************************)
EXTENDS Naturals, FiniteSets

CONSTANTS
    Databases,           \* saved connections
    Projects,            \* projects with a run in progress
    Source, Target,      \* the connections a project compares
    MaxConns,            \* MAX_CONNS_PER_DB
    MaxParallelTables    \* MAX_PARALLEL_TABLES

ASSUME ConstantsAssumption ==
    /\ IsFiniteSet(Databases) /\ IsFiniteSet(Projects)
    /\ Source \in [Projects -> Databases]
    /\ Target \in [Projects -> Databases]
    /\ \A p \in Projects : Source[p] # Target[p]
    /\ MaxConns \in Nat /\ MaxConns >= 2
    /\ MaxParallelTables \in Nat \ {0}

(* Tables a run compares at a time: the cap the Manager is given.           *)
Parallelism == IF MaxParallelTables < MaxConns - 1 THEN MaxParallelTables ELSE MaxConns - 1

Workers == Projects \X (1..Parallelism)
SourceOf(w) == Source[w[1]]
TargetOf(w) == Target[w[1]]

VARIABLES
    doing,    \* what a worker is at: "nothing", "queries" or "merge"
    source,   \* its connection of the source: "none", "want" or "held"
    target    \* its connection of the target

vars == <<doing, source, target>>

TypeOK ==
    /\ doing \in [Workers -> {"nothing", "queries", "merge"}]
    /\ source \in [Workers -> {"none", "want", "held"}]
    /\ target \in [Workers -> {"none", "want", "held"}]
    /\ \A w \in Workers : doing[w] = "nothing" => source[w] = "none" /\ target[w] = "none"

Init ==
    /\ doing = [w \in Workers |-> "nothing"]
    /\ source = [w \in Workers |-> "none"]
    /\ target = [w \in Workers |-> "none"]

-----------------------------------------------------------------------------
Holders(d) == {w \in Workers : \/ source[w] = "held" /\ SourceOf(w) = d
                               \/ target[w] = "held" /\ TargetOf(w) = d}

\* Mutation: the pool is opened with one connection less.
AvailableOneLess(d) == Cardinality(Holders(d)) < MaxConns - 1
(* The limit of the pool. *)
Available(d) == Cardinality(Holders(d)) < MaxConns

(* Summarize and rangeUnchanged: a query on each side, side by side.        *)
StartQueries(w) ==
    /\ doing[w] = "nothing"
    /\ doing' = [doing EXCEPT ![w] = "queries"]
    /\ source' = [source EXCEPT ![w] = "want"]
    /\ target' = [target EXCEPT ![w] = "want"]

(* mergeRange: first the source. *)
StartMerge(w) ==
    /\ doing[w] = "nothing"
    /\ doing' = [doing EXCEPT ![w] = "merge"]
    /\ source' = [source EXCEPT ![w] = "want"]
    /\ UNCHANGED target

GetSource(w) ==
    /\ source[w] = "want"
    /\ Available(SourceOf(w))
    /\ source' = [source EXCEPT ![w] = "held"]
    /\ UNCHANGED <<doing, target>>

(* The rows of the source are open: now those of the target.                *)
OpenTarget(w) ==
    /\ doing[w] = "merge" /\ source[w] = "held" /\ target[w] = "none"
    /\ target' = [target EXCEPT ![w] = "want"]
    /\ UNCHANGED <<doing, source>>

GetTarget(w) ==
    /\ target[w] = "want"
    /\ Available(TargetOf(w))
    /\ target' = [target EXCEPT ![w] = "held"]
    /\ UNCHANGED <<doing, source>>

(* A single query ends without regard to the one on the other side.         *)
EndSourceQuery(w) ==
    /\ doing[w] = "queries" /\ source[w] = "held"
    /\ source' = [source EXCEPT ![w] = "none"]
    /\ UNCHANGED <<doing, target>>

EndTargetQuery(w) ==
    /\ doing[w] = "queries" /\ target[w] = "held"
    /\ target' = [target EXCEPT ![w] = "none"]
    /\ UNCHANGED <<doing, source>>

EndQueries(w) ==
    /\ doing[w] = "queries" /\ source[w] = "none" /\ target[w] = "none"
    /\ doing' = [doing EXCEPT ![w] = "nothing"]
    /\ UNCHANGED <<source, target>>

\* Mutation: the rows of the source are not closed.
SourceLeftOpen(w) == source
SourceClosed(w) == [source EXCEPT ![w] = "none"]

(* The merge returns, and closes the rows of both sides. *)
EndMerge(w) ==
    /\ doing[w] = "merge" /\ source[w] = "held" /\ target[w] = "held"
    /\ doing' = [doing EXCEPT ![w] = "nothing"]
    /\ source' = SourceClosed(w)
    /\ target' = [target EXCEPT ![w] = "none"]

(* QueryTimeout, a cancellation or an error ends all of it.                 *)
Timeout(w) ==
    /\ doing[w] # "nothing"
    /\ doing' = [doing EXCEPT ![w] = "nothing"]
    /\ source' = [source EXCEPT ![w] = "none"]
    /\ target' = [target EXCEPT ![w] = "none"]

Ends(w) == EndSourceQuery(w) \/ EndTargetQuery(w) \/ EndQueries(w) \/ EndMerge(w)

Next == \E w \in Workers :
    \/ StartQueries(w) \/ StartMerge(w)
    \/ GetSource(w) \/ OpenTarget(w) \/ GetTarget(w)
    \/ Ends(w) \/ Timeout(w)

Spec == Init /\ [][Next]_vars

(* Queries end and workers go on.  database/sql gives a connection that     *)
(* becomes free to one of those who wait, drawn at random, so whoever waits *)
(* for a pool that becomes available again and again is served with         *)
(* probability one: strong fairness stands for that.  Timeouts are not      *)
(* counted on.                                                              *)
Fairness ==
    \A w \in Workers :
        /\ WF_vars(OpenTarget(w)) /\ WF_vars(Ends(w))
        /\ SF_vars(GetSource(w)) /\ SF_vars(GetTarget(w))

FairSpec == Spec /\ Fairness

-----------------------------------------------------------------------------
(* Workers wait for each other when each wants a connection of a pool all   *)
(* of whose connections are held by these workers, none of which is at work *)
(* with it.                                                                 *)
AtWork(w, d) ==
    \/ doing[w] = "queries"
    \/ doing[w] = "merge" /\ target[w] # "want"

MutualWait(S) ==
    \A w \in S : \E d \in Databases :
        /\ \/ source[w] = "want" /\ d = SourceOf(w)
           \/ target[w] = "want" /\ d = TargetOf(w)
        /\ ~Available(d)
        /\ Holders(d) \subseteq S
        /\ \A v \in Holders(d) : ~AtWork(v, d)

(* A source is shared when several running projects have it.  One project   *)
(* leaves a connection of every pool to others (main's MaxParallelism).     *)
Shared(d) == \E p, q \in Projects : p # q /\ Source[p] = d /\ Source[q] = d

(* While no project compares two databases that are both shared sources, no *)
(* workers wait for each other, in whatever directions projects compare.    *)
NoMutualWait ==
    (\A p \in Projects : ~(Shared(Source[p]) /\ Shared(Target[p])))
        => \A S \in SUBSET Workers : S # {} => ~MutualWait(S)

(* Then whatever a worker begins comes to an end, without a timeout.        *)
MergesEnd == \A w \in Workers : doing[w] = "merge" ~> doing[w] = "nothing"
=============================================================================
