------------------------- MODULE DependenciesProofs -------------------------
(***************************************************************************)
(* The static cycle check, for every set of nodes and any number of adds   *)
(* in flight.  Reachability is the intersection of the closed sets, so     *)
(* each lemma about it exhibits one closed set.                            *)
(***************************************************************************)
EXTENDS Dependencies, TLAPS

\* The nodes x waits for.
From(E, x) == {y \in Node : Reaches(E, x, y)}

\* From(E, x) is closed and holds the blockers of x.
LEMMA FromClosed ==
  ASSUME NEW E \in SUBSET (Node \X Node), NEW x \in Node
  PROVE  /\ ClosedUnder(E, From(E, x))
         /\ \A e \in E : e[1] = x => e[2] \in From(E, x)
BY DEF From, Reaches, ClosedUnder

\* Waiting is transitive.
LEMMA ReachesTransitive ==
  ASSUME NEW E \in SUBSET (Node \X Node), NEW x \in Node, NEW y \in Node, NEW z \in Node,
         Reaches(E, x, y), Reaches(E, y, z)
  PROVE  Reaches(E, x, z)
<1>1. SUFFICES ASSUME NEW S \in SUBSET Node, ClosedUnder(E, S),
                      \A e \in E : e[1] = x => e[2] \in S
               PROVE  z \in S
  BY DEF Reaches
<1>2. y \in S BY <1>1 DEF Reaches
<1>3. \A e \in E : e[1] = y => e[2] \in S BY <1>1, <1>2 DEF ClosedUnder
<1> QED BY <1>1, <1>3 DEF Reaches

\* Fewer edges, fewer waits.
LEMMA ReachesMonotone ==
  ASSUME NEW E \in SUBSET (Node \X Node), NEW F \in SUBSET E,
         NEW x \in Node, NEW y \in Node, Reaches(F, x, y)
  PROVE  Reaches(E, x, y)
BY DEF Reaches, ClosedUnder

\* WouldCycle is the right question: an edge it does not refuse puts no node on
\* a cycle that was not on one before.
LEMMA CheckedEdgeClosesNothing ==
  ASSUME NEW E \in SUBSET (Node \X Node), NEW b \in Node, NEW k \in Node,
         ~WouldCycle(E, b, k), NEW n \in Node,
         Reaches(E \cup {<<b, k>>}, n, n)
  PROVE  Reaches(E, n, n)
<1> DEFINE F == E \cup {<<b, k>>}
<1>1. SUFFICES ASSUME ~Reaches(E, n, n) PROVE FALSE OBVIOUS
<1>2. b # k /\ ~Reaches(E, k, b) BY DEF WouldCycle
<1>3. CASE n # b /\ ~Reaches(E, n, b)
  <2> DEFINE S == From(E, n)
  <2>1. ClosedUnder(F, S) BY <1>3, FromClosed DEF ClosedUnder, From
  <2>2. \A e \in F : e[1] = n => e[2] \in S BY <1>3, FromClosed
  <2>3. n \in S BY <2>1, <2>2 DEF Reaches, From
  <2> QED BY <2>3, <1>1 DEF From
<1>4. CASE n = b \/ Reaches(E, n, b)
  <2> DEFINE S == From(E, n) \cup {k} \cup From(E, k)
  <2>1. S \in SUBSET Node BY DEF From
  <2>2. ClosedUnder(F, S)
    <3>1. ClosedUnder(E, From(E, n)) BY FromClosed
    <3>2. ClosedUnder(E, From(E, k)) /\ \A e \in E : e[1] = k => e[2] \in From(E, k)
      BY FromClosed
    <3> HIDE DEF From
    <3> QED BY <3>1, <3>2 DEF ClosedUnder
  <2>3. \A e \in F : e[1] = n => e[2] \in S BY FromClosed
  <2>4. n \in S BY <2>1, <2>2, <2>3 DEF Reaches
  <2>5. n # k BY <1>2, <1>4
  <2>6. n \notin From(E, n) BY <1>1 DEF From
  <2>7. n \notin From(E, k)
    <3>1. ~Reaches(E, k, n) BY <1>2, <1>4, ReachesTransitive
    <3> QED BY <3>1 DEF From
  <2> QED BY <2>4, <2>5, <2>6, <2>7
<1> QED BY <1>3, <1>4

----------------------------------------------------------------------------
\* A request whose check is current still passes it: between check and commit
\* the graph can only have lost edges.
CurrentChecksHold ==
  \A r \in inflight : r.current => ~WouldCycle(InForce, r.blocked, r.blocker)

DepInv == TypeOK /\ CurrentChecksHold /\ CycleOnlyByOverlap

LEMMA InForceType ==
  ASSUME TypeOK PROVE InForce \in SUBSET (Node \X Node)
BY DEF TypeOK, InForce

\* The state is typed: rows and requests name nodes, only Steps are tombstoned
\* (RemoveStep, insertEdge).
THEOREM TypeCorrect == Spec => []TypeOK
<1>1. Init => TypeOK BY DEF Init, TypeOK
<1>2. ASSUME TypeOK, [Next]_vars PROVE TypeOK'
  <2> USE NodeAssumption
  <2>1. CASE RequestAdd
    <3>1. PICK b \in Node, k \in Node :
            inflight' = inflight \cup {[blocked |-> b, blocker |-> k, current |-> TRUE]}
      BY <2>1 DEF RequestAdd
    <3>2. [blocked |-> b, blocker |-> k, current |-> TRUE] \in Request BY DEF Request
    <3>3. inflight' \subseteq Request BY <1>2, <3>1, <3>2 DEF TypeOK
    <3>4. UNCHANGED <<removed, edges, overlapped>> BY <2>1 DEF RequestAdd
    <3> QED BY <1>2, <3>3, <3>4 DEF TypeOK
  <2>2. ASSUME NEW req \in inflight, CommitAdd(req) PROVE TypeOK'
    <3>1. req \in Request BY <1>2 DEF TypeOK
    <3>2. req.blocked \in Node /\ req.blocker \in Node /\ req.current \in BOOLEAN
      BY <3>1 DEF Request
    <3>3. \A r \in Request : [r EXCEPT !.current = FALSE] \in Request BY DEF Request
    <3>4. inflight' \subseteq Request BY <1>2, <2>2, <3>3 DEF TypeOK, CommitAdd
    <3>5. edges' \subseteq Node \X Node BY <1>2, <2>2, <3>2 DEF TypeOK, CommitAdd, InsertEdge
    <3> QED BY <1>2, <2>2, <3>4, <3>5 DEF TypeOK, CommitAdd
  <2>3. ASSUME NEW req \in inflight, Abandon(req) PROVE TypeOK'
    BY <1>2, <2>3 DEF TypeOK, Abandon
  <2>4. ASSUME NEW e \in edges, DependRemove(e) PROVE TypeOK'
    BY <1>2, <2>4 DEF TypeOK, DependRemove
  <2>5. ASSUME NEW n \in Node, RemoveStep(n) PROVE TypeOK'
    BY <1>2, <2>5 DEF TypeOK, RemoveStep
  <2>6. CASE UNCHANGED vars BY <1>2, <2>6 DEF TypeOK, vars
  <2> QED BY <1>2, <2>1, <2>2, <2>3, <2>4, <2>5, <2>6 DEF Next
<1> QED BY <1>1, <1>2, PTL DEF Spec

\* A step that is not a commit adds no edge to the graph.
LEMMA OnlyCommitsAdd ==
  ASSUME TypeOK, [Next]_vars, \A req \in inflight : ~CommitAdd(req)
  PROVE  /\ InForce' \subseteq InForce
         /\ overlapped' = overlapped
         /\ \A r \in inflight' : r.current => r \in inflight
              \/ ~WouldCycle(InForce, r.blocked, r.blocker)
<1>1. CASE RequestAdd
  <2>1. PICK b \in Node, k \in Node :
          /\ ~WouldCycle(InForce, b, k)
          /\ inflight' = inflight \cup {[blocked |-> b, blocker |-> k, current |-> TRUE]}
    BY <1>1 DEF RequestAdd
  <2>2. \A r \in inflight' : r \in inflight \/ ~WouldCycle(InForce, r.blocked, r.blocker)
    BY <2>1
  <2>3. InForce' = InForce /\ overlapped' = overlapped BY <1>1 DEF RequestAdd, InForce
  <2> QED BY <2>2, <2>3
<1>2. ASSUME NEW req \in inflight, Abandon(req)
      PROVE  InForce' \subseteq InForce /\ overlapped' = overlapped /\ inflight' \subseteq inflight
  BY <1>2 DEF Abandon, InForce
<1>3. ASSUME NEW e \in edges, DependRemove(e)
      PROVE  InForce' \subseteq InForce /\ overlapped' = overlapped /\ inflight' \subseteq inflight
  BY <1>3 DEF DependRemove, InForce
<1>4. ASSUME NEW n \in Node, RemoveStep(n)
      PROVE  InForce' \subseteq InForce /\ overlapped' = overlapped /\ inflight' \subseteq inflight
  BY <1>4 DEF RemoveStep, InForce
<1>5. CASE UNCHANGED vars BY <1>5 DEF vars, InForce
<1> QED BY <1>1, <1>2, <1>3, <1>4, <1>5 DEF Next

\* What a commit does to the graph: one edge more, or none when an end of it has
\* been removed meanwhile.
LEMMA CommitAddsOneEdge ==
  ASSUME TypeOK, NEW req \in inflight, CommitAdd(req)
  PROVE  /\ InForce' \subseteq InForce \cup {<<req.blocked, req.blocker>>}
         /\ \A r \in inflight' : ~r.current
         /\ ~overlapped' => req.current /\ ~overlapped
<1>1. InForce' \subseteq InForce \cup {<<req.blocked, req.blocker>>}
  BY DEF CommitAdd, InsertEdge, InForce
<1>2. \A r \in inflight' : ~r.current BY DEF CommitAdd, TypeOK, Request
<1>3. ~overlapped' => req.current /\ ~overlapped BY DEF CommitAdd, TypeOK, Request
<1> QED BY <1>1, <1>2, <1>3

LEMMA NextDep ==
  ASSUME TypeOK, TypeOK', CurrentChecksHold, CycleOnlyByOverlap, [Next]_vars
  PROVE  CurrentChecksHold' /\ CycleOnlyByOverlap'
<1>0. InForce \in SUBSET (Node \X Node) /\ InForce' \in SUBSET (Node \X Node)
  BY DEF TypeOK, InForce
<1>1. CASE \A req \in inflight : ~CommitAdd(req)
  <2>1. InForce' \subseteq InForce /\ overlapped' = overlapped BY <1>1, OnlyCommitsAdd
  <2>2. \A x, y \in Node : Reaches(InForce', x, y) => Reaches(InForce, x, y)
    BY <2>1, <1>0, ReachesMonotone
  <2>3. ASSUME NEW r \in inflight', r.current
        PROVE  ~WouldCycle(InForce, r.blocked, r.blocker)
    BY <1>1, <2>3, OnlyCommitsAdd DEF CurrentChecksHold
  <2>4. CurrentChecksHold'
    <3>1. ASSUME NEW r \in inflight', r.current
          PROVE  ~WouldCycle(InForce', r.blocked, r.blocker)
      <4>1. r.blocked \in Node /\ r.blocker \in Node BY <3>1 DEF TypeOK, Request
      <4> QED BY <3>1, <2>2, <2>3, <4>1 DEF WouldCycle
    <3> QED BY <3>1 DEF CurrentChecksHold
  <2>5. CycleOnlyByOverlap' BY <2>1, <2>2 DEF CycleOnlyByOverlap, Acyclic
  <2> QED BY <2>4, <2>5
<1>2. ASSUME NEW req \in inflight, CommitAdd(req)
      PROVE  CurrentChecksHold' /\ CycleOnlyByOverlap'
  <2> DEFINE G == InForce \cup {<<req.blocked, req.blocker>>}
  <2>1. /\ InForce' \subseteq G
        /\ \A r \in inflight' : ~r.current
        /\ ~overlapped' => req.current /\ ~overlapped
    BY <1>2, CommitAddsOneEdge
  <2>2. CurrentChecksHold' BY <2>1 DEF CurrentChecksHold
  <2>3. req.blocked \in Node /\ req.blocker \in Node BY DEF TypeOK, Request
  <2>4. G \in SUBSET (Node \X Node) BY <1>0, <2>3
  <2>5. ASSUME ~overlapped', NEW n \in Node, Reaches(InForce', n, n) PROVE FALSE
    <3>1. Reaches(G, n, n) BY <2>1, <2>4, <2>5, ReachesMonotone
    <3>2. ~WouldCycle(InForce, req.blocked, req.blocker)
      BY <2>1, <2>5 DEF CurrentChecksHold
    <3>3. Reaches(InForce, n, n)
      BY <3>1, <3>2, <2>3, <1>0, CheckedEdgeClosesNothing
    <3> QED BY <2>1, <2>5, <3>3 DEF CycleOnlyByOverlap, Acyclic
  <2>6. CycleOnlyByOverlap' BY <2>5 DEF CycleOnlyByOverlap, Acyclic
  <2> QED BY <2>2, <2>6
<1> QED BY <1>1, <1>2

LEMMA InitDep == Init => CurrentChecksHold /\ CycleOnlyByOverlap
<1>1. ASSUME Init, NEW n \in Node PROVE ~Reaches(InForce, n, n)
  <2>1. {} \in SUBSET Node /\ ClosedUnder(InForce, {}) BY DEF ClosedUnder
  <2> QED BY <1>1, <2>1 DEF Init, InForce, Reaches, ClosedUnder
<1> QED BY <1>1 DEF Init, CurrentChecksHold, CycleOnlyByOverlap, Acyclic

\* For any nodes and any number of concurrent adds: while no add commits on a
\* check that another add has overtaken, the edges in force are acyclic
\* (WouldCycle before the transaction of DependAdd).
THEOREM CyclesNeedOverlap == Spec => []CycleOnlyByOverlap
<1>1. Init => DepInv BY InitDep DEF Init, TypeOK, DepInv
<1>2. ASSUME TypeOK, [Next]_vars, CurrentChecksHold, CycleOnlyByOverlap, TypeOK'
      PROVE  CurrentChecksHold' /\ CycleOnlyByOverlap'
  BY <1>2, NextDep
<1>3. Spec => []TypeOK BY TypeCorrect
<1> QED BY <1>1, <1>2, <1>3, PTL DEF Spec, DepInv

\* A commit on a current check puts no further node on a cycle, whatever cycles
\* the store already holds (WouldCycle answers for the new edge alone).
THEOREM CurrentAddsAreSafe == Spec => CurrentAddClosesNothing
<1>1. ASSUME TypeOK, CurrentChecksHold, NEW req \in inflight, req.current, CommitAdd(req),
             NEW n \in Node, Reaches(InForce', n, n), TypeOK'
      PROVE  Reaches(InForce, n, n)
  <2> DEFINE G == InForce \cup {<<req.blocked, req.blocker>>}
  <2>0. InForce \in SUBSET (Node \X Node) BY <1>1 DEF TypeOK, InForce
  <2>1. req.blocked \in Node /\ req.blocker \in Node BY <1>1 DEF TypeOK, Request
  <2>2. InForce' \subseteq G BY <1>1, CommitAddsOneEdge
  <2>3. G \in SUBSET (Node \X Node) BY <2>0, <2>1
  <2>4. Reaches(G, n, n) BY <1>1, <2>2, <2>3, ReachesMonotone
  <2> QED BY <1>1, <2>0, <2>1, <2>4, CheckedEdgeClosesNothing DEF CurrentChecksHold
<1>2. TypeOK /\ TypeOK' /\ CurrentChecksHold /\ [Next]_vars =>
        [\A req \in inflight : req.current /\ CommitAdd(req) =>
           \A n \in Node : Reaches(InForce', n, n) => Reaches(InForce, n, n)]_vars
  BY <1>1
<1>3. Init => DepInv BY InitDep DEF Init, TypeOK, DepInv
<1>4. ASSUME TypeOK, [Next]_vars, CurrentChecksHold, CycleOnlyByOverlap, TypeOK'
      PROVE  CurrentChecksHold' /\ CycleOnlyByOverlap'
  BY <1>4, NextDep
<1>5. Spec => []TypeOK BY TypeCorrect
<1> QED BY <1>2, <1>3, <1>4, <1>5, PTL DEF Spec, DepInv, CurrentAddClosesNothing
=============================================================================
