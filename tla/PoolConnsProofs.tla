--------------------------- MODULE PoolConnsProofs ---------------------------
(* Theorems about PoolConns, for any databases, projects and limits. *)
EXTENDS PoolConns, FunctionTheorems, FiniteSetTheorems, TLAPS

(* A run has fewer workers than a pool has connections. *)
LEMMA ParallelismType ==
    /\ Parallelism \in Nat
    /\ Parallelism < MaxConns
BY ConstantsAssumption DEF Parallelism

(* Every variable keeps its type, and a worker at nothing has no connection:*)
(* each way out of Summarize, rangeUnchanged and mergeRange closes its rows.*)
THEOREM TypeCorrect == Spec => []TypeOK
<1>1. Init => TypeOK
  BY DEF Init, TypeOK
<1>2. TypeOK /\ [Next]_vars => TypeOK'
  <2> SUFFICES ASSUME TypeOK, [Next]_vars PROVE TypeOK'
    OBVIOUS
  <2>1. CASE UNCHANGED vars
    BY <2>1 DEF vars, TypeOK
  <2>2. ASSUME NEW w \in Workers, StartQueries(w) \/ StartMerge(w) PROVE TypeOK'
    BY <2>2 DEF StartQueries, StartMerge, TypeOK
  <2>3. ASSUME NEW w \in Workers, GetSource(w) \/ OpenTarget(w) \/ GetTarget(w)
        PROVE  TypeOK'
    BY <2>3 DEF GetSource, OpenTarget, GetTarget, TypeOK
  <2>4. ASSUME NEW w \in Workers, Ends(w) PROVE TypeOK'
    <3>1. CASE EndSourceQuery(w) \/ EndTargetQuery(w) \/ EndQueries(w)
      BY <3>1 DEF EndSourceQuery, EndTargetQuery, EndQueries, TypeOK
    <3>2. CASE EndMerge(w)
      BY <3>2 DEF EndMerge, SourceClosed, TypeOK
    <3> QED BY <2>4, <3>1, <3>2 DEF Ends
  <2>5. ASSUME NEW w \in Workers, Timeout(w) PROVE TypeOK'
    BY <2>5 DEF Timeout, TypeOK
  <2> QED BY <2>1, <2>2, <2>3, <2>4, <2>5 DEF Next
<1> QED BY <1>1, <1>2, PTL DEF Spec

-----------------------------------------------------------------------------
(* The workers of one project cannot hold all connections of a pool.        *)
LEMMA OneProjectLeavesOne ==
    ASSUME NEW p \in Projects, NEW H \in SUBSET ({p} \X (1..Parallelism))
    PROVE  Cardinality(H) < MaxConns
<1> DEFINE f == [w \in H |-> w[2]]
<1>1. f \in Injection(H, 1..Parallelism)
  BY DEF Injection, IsInjective
<1>2. /\ IsFiniteSet(1..Parallelism)
      /\ Cardinality(1..Parallelism) = Parallelism
  BY ParallelismType, FS_Interval
<1>3. IsFiniteSet(H) /\ Cardinality(H) <= Parallelism
  BY <1>1, <1>2, FS_Injection
<1>4. Cardinality(H) \in Nat
  BY <1>3, FS_CardinalityType
<1> QED BY <1>3, <1>4, ParallelismType, ConstantsAssumption

(* Only merges that wait for their target hold connections of a pool at     *)
(* which nobody is at work: they hold them as the source.                   *)
LEMMA IdleHoldersMerge ==
    ASSUME TypeOK, NEW d \in Databases, NEW v \in Holders(d), ~AtWork(v, d)
    PROVE  /\ v \in Workers
           /\ source[v] = "held" /\ SourceOf(v) = d
           /\ target[v] = "want"
<1>1. v \in Workers /\ (source[v] = "held" \/ target[v] = "held")
  BY DEF Holders
<1>2. doing[v] = "merge" /\ target[v] = "want"
  BY <1>1 DEF TypeOK, AtWork
<1> QED BY <1>1, <1>2 DEF Holders

(* A pool that such merges exhaust is one of a shared source.               *)
LEMMA ExhaustedIsShared ==
    ASSUME TypeOK, NEW d \in Databases, ~Available(d),
           \A v \in Holders(d) : ~AtWork(v, d)
    PROVE  Shared(d) /\ Holders(d) # {}
<1>1. Holders(d) # {}
  BY FS_EmptySet, ConstantsAssumption DEF Available
<1>2. ASSUME ~Shared(d) PROVE FALSE
  <2>1. PICK v \in Holders(d) : TRUE
    BY <1>1
  <2>2. v \in Workers /\ SourceOf(v) = d
    BY <2>1, IdleHoldersMerge
  <2>3. v[1] \in Projects /\ Source[v[1]] = d
    BY <2>2 DEF Workers, SourceOf
  <2>4. ASSUME NEW w \in Holders(d) PROVE w \in {v[1]} \X (1..Parallelism)
    <3>1. w \in Workers /\ SourceOf(w) = d
      BY <2>4, IdleHoldersMerge
    <3>2. w[1] \in Projects /\ Source[w[1]] = d
      BY <3>1 DEF Workers, SourceOf
    <3>3. w[1] = v[1]
      BY <1>2, <2>3, <3>2 DEF Shared
    <3> QED BY <3>1, <3>3 DEF Workers
  <2>5. Holders(d) \in SUBSET ({v[1]} \X (1..Parallelism))
    BY <2>4
  <2>6. Cardinality(Holders(d)) < MaxConns
    BY <2>3, <2>5, OneProjectLeavesOne
  <2> QED BY <2>6 DEF Available
<1> QED BY <1>1, <1>2

-----------------------------------------------------------------------------
(* No workers wait for each other while no project compares two shared      *)
(* sources: in a mutual wait the pool somebody wants is exhausted by merges *)
(* of which it is the source, and each of these wants its own target, whose *)
(* pool is exhausted in the same way.  This is what main's cap of the       *)
(* parallelism, one less than the connections, is good for.                 *)
THEOREM NobodyWaitsInACircle == Spec => []NoMutualWait
<1>1. TypeOK => NoMutualWait
  <2> SUFFICES ASSUME TypeOK,
                      \A p \in Projects : ~(Shared(Source[p]) /\ Shared(Target[p])),
                      NEW S \in SUBSET Workers, NEW w \in S, MutualWait(S)
               PROVE  FALSE
    BY DEF NoMutualWait
  <2>1. PICK d \in Databases :
            /\ ~Available(d)
            /\ Holders(d) \subseteq S
            /\ \A v \in Holders(d) : ~AtWork(v, d)
    BY DEF MutualWait
  <2>2. Shared(d) /\ Holders(d) # {}
    BY <2>1, ExhaustedIsShared
  <2>3. PICK v \in Holders(d) : TRUE
    BY <2>2
  <2>4. /\ v \in S /\ v \in Workers
        /\ source[v] = "held" /\ SourceOf(v) = d
        /\ target[v] = "want"
    BY <2>1, <2>3, IdleHoldersMerge
  <2>5. PICK e \in Databases :
            /\ e = TargetOf(v)
            /\ ~Available(e)
            /\ \A u \in Holders(e) : ~AtWork(u, e)
    BY <2>4 DEF MutualWait
  <2>6. Shared(e)
    BY <2>5, ExhaustedIsShared
  <2>7. v[1] \in Projects /\ Source[v[1]] = d /\ Target[v[1]] = e
    BY <2>4, <2>5 DEF Workers, SourceOf, TargetOf
  <2> QED BY <2>2, <2>6, <2>7
<1> QED BY <1>1, TypeCorrect, PTL
=============================================================================
