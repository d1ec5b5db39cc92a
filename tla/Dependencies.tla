---------------------------- MODULE Dependencies ----------------------------
(***************************************************************************)
(* `blocked-by` edges: the `edges` table, the view edges_in_force, the     *)
(* static cycle check and the verbs that add and remove edges or the Steps *)
(* at their ends.                                                          *)
(*                                                                         *)
(* `depend add` resolves both ends and runs WouldCycle on the store BEFORE *)
(* its transaction; the transaction only inserts the row.  So an add is a  *)
(* request and a commit, and other processes may commit between the two.   *)
(* `depend remove` looks its edge up before the transaction too, but the   *)
(* fold refuses an edge that is no longer live, which makes it one step.   *)
(***************************************************************************)
EXTENDS Naturals, FiniteSets

CONSTANTS
  Node,         \* the live Matters, Stages and Steps of the store
  Step,         \* those of them that step remove and step replace accept
  MaxInFlight   \* bound: adds between their cycle check and their commit

ASSUME NodeAssumption == Step \subseteq Node /\ MaxInFlight \in Nat

VARIABLES
  removed,      \* nodes whose tombstone_event is set
  edges,        \* live rows of `edges`, <<blocked, blocker>>
  inflight,     \* adds that passed WouldCycle; `current` until an edge is
                \* added after the check
  overlapped    \* history: an add committed on a check that was not current

vars == <<removed, edges, inflight, overlapped>>

----------------------------------------------------------------------------
(* Reads. *)

\* An edge is in force while both its ends are live.
InForce == {e \in edges : e[1] \notin removed /\ e[2] \notin removed}

ClosedUnder(E, S) == \A e \in E : e[1] \in S => e[2] \in S

\* The nodes `from` waits for, transitively, are in every set that holds the
\* blockers of `from` and is closed under the edges: the fixpoint the search of
\* `reaches` computes with its seen set and stack.
Reaches(E, from, to) ==
  \A S \in SUBSET Node :
    ClosedUnder(E, S) /\ (\A e \in E : e[1] = from => e[2] \in S) => to \in S

\* Only a direct edge back counts.
MutWouldCycle(E, blocked, blocker) ==
  blocked = blocker \/ <<blocker, blocked>> \in E

WouldCycle(E, blocked, blocker) ==
  blocked = blocker \/ Reaches(E, blocker, blocked)

Acyclic(E) == \A n \in Node : ~Reaches(E, n, n)

----------------------------------------------------------------------------
(* Verbs. *)

Init ==
  /\ removed = {}
  /\ edges = {}
  /\ inflight = {}
  /\ overlapped = FALSE

\* DependAdd up to the transaction: both ends resolve and the edge would close
\* no cycle.
RequestAdd ==
  /\ Cardinality(inflight) < MaxInFlight
  /\ \E blocked, blocker \in Node \ removed :
       /\ ~WouldCycle(InForce, blocked, blocker)
       /\ inflight' = inflight \cup
            {[blocked |-> blocked, blocker |-> blocker, current |-> TRUE]}
  /\ UNCHANGED <<removed, edges, overlapped>>

\* insertEdge and the constraints of the table: no self-edge, one live row per
\* pair.  Whether the ends are still live is not asked.
InsertEdge(blocked, blocker) ==
  /\ blocked # blocker
  /\ <<blocked, blocker>> \notin edges
  /\ edges' = edges \cup {<<blocked, blocker>>}

\* The transaction of DependAdd.  Every add still in flight now holds an answer
\* about an older graph.
CommitAdd(req) ==
  /\ req \in inflight
  /\ InsertEdge(req.blocked, req.blocker)
  /\ inflight' = {[r EXCEPT !.current = FALSE] : r \in inflight \ {req}}
  /\ overlapped' = (overlapped \/ ~req.current)
  /\ UNCHANGED removed

\* The add's process dies, or the table refuses its row.
Abandon(req) ==
  /\ req \in inflight
  /\ inflight' = inflight \ {req}
  /\ UNCHANGED <<removed, edges, overlapped>>

\* EdgeBetween reads edges_in_force, tombstoneEdge marks the row.
DependRemove(e) ==
  /\ e \in InForce
  /\ edges' = edges \ {e}
  /\ UNCHANGED <<removed, inflight, overlapped>>

\* step remove, and the half of step replace that tombstones: the edges of the
\* node stay live rows and go out of force.  The replacement has no edges.
RemoveStep(n) ==
  /\ n \in Step \ removed
  /\ removed' = removed \cup {n}
  /\ UNCHANGED <<edges, inflight, overlapped>>

Next ==
  \/ RequestAdd
  \/ \E req \in inflight : CommitAdd(req) \/ Abandon(req)
  \/ \E e \in edges : DependRemove(e)
  \/ \E n \in Node : RemoveStep(n)

Spec == Init /\ [][Next]_vars

----------------------------------------------------------------------------
(* Properties. *)

Request == [blocked : Node, blocker : Node, current : BOOLEAN]

\* Every row of `edges` and every add in flight names nodes of the store, only
\* Steps are tombstoned.
TypeOK ==
  /\ removed \subseteq Step
  /\ edges \subseteq Node \X Node
  /\ inflight \subseteq Request
  /\ overlapped \in BOOLEAN

\* Static refusal works one add at a time: as long as every committed add was
\* checked against a graph to which nothing had been added since (edges and
\* Steps may have been removed), the edges in force have no cycle (WouldCycle,
\* DependAdd).
CycleOnlyByOverlap == ~overlapped => Acyclic(InForce)

\* An add that commits on a current check does not close a cycle even in a
\* store that already has one: every cycle of the graph after it was there
\* before (WouldCycle answers for the new edge alone).
CurrentAddClosesNothing ==
  [][\A req \in inflight :
       req.current /\ CommitAdd(req) =>
         \A n \in Node : Reaches(InForce', n, n) => Reaches(InForce, n, n)]_vars
=============================================================================
