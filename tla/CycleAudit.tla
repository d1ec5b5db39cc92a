----------------------------- MODULE CycleAudit -----------------------------
(***************************************************************************)
(* The two graph searches of cycle.go as the code runs them, over the      *)
(* graphs a store can reach: `reaches`, the stack search behind the        *)
(* add-time check, and `Cycles`, the enumeration behind doctor's audit.    *)
(* Identities are compared as strings there; here they are numbers.        *)
(***************************************************************************)
EXTENDS Dependencies, Sequences, SequencesExt

ASSUME OrderedNodes == Node \subseteq Nat

\* graph[n] in ascending order (sort.Strings).
Targets(E, n) == SetToSortSeq({e[2] : e \in {f \in E : f[1] = n}}, <)

RECURSIVE Search(_, _, _, _)

\* One pop of the stack per step; unseen blockers are pushed in order.
Search(E, to, seen, stack) ==
  IF stack = <<>> THEN FALSE
  ELSE LET next == Targets(E, Last(stack))
           new == SelectSeq(next, LAMBDA n : n \notin seen)
       IN  \/ to \in ToSet(next)
           \/ Search(E, to, seen \cup ToSet(next), Front(stack) \o new)

\* `from` is never marked and neither is anything past the first hop.
Mutreaches(E, from, to) ==
  \E n \in {from} \cup ToSet(Targets(E, from)) : to \in ToSet(Targets(E, n))

reaches(E, from, to) == Search(E, to, {from}, <<from>>)

RECURSIVE Walk(_, _, _)

\* The walk may step below its start.
MutWalk(E, start, path) ==
  FlattenSeq([i \in DOMAIN Targets(E, Last(path)) |->
    LET target == Targets(E, Last(path))[i] IN
      IF target = start THEN <<path>>
      ELSE IF target \in ToSet(path) THEN <<>>
      ELSE Walk(E, start, Append(path, target))])

\* The loop closes, or the path grows by a target above its start that is not
\* on it, or the target is passed over.
Walk(E, start, path) ==
  FlattenSeq([i \in DOMAIN Targets(E, Last(path)) |->
    LET target == Targets(E, Last(path))[i] IN
      IF target = start THEN <<path>>
      ELSE IF target < start \/ target \in ToSet(path) THEN <<>>
      ELSE Walk(E, start, Append(path, target))])

Cycles(E) ==
  LET starts == SetToSortSeq({e[1] : e \in E}, <)
  IN  FlattenSeq([i \in DOMAIN starts |-> Walk(E, starts[i], <<starts[i]>>)])

----------------------------------------------------------------------------
(* Properties.  They speak of the edges in force alone, and every edge set  *)
(* is reached with no add in flight (Abandon), so they are asked there.    *)

Quiet == inflight = {}

\* The paths a loop can be written as: no node twice, the smallest first.
CanonicalPaths ==
  {p \in UNION {[1 .. k -> Node] : k \in 1 .. Cardinality(Node)} :
     IsInjective(p) /\ \A i \in DOMAIN p : p[1] <= p[i]}

IsLoop(E, p) ==
  \A i \in DOMAIN p : <<p[i], p[IF i = Len(p) THEN 1 ELSE i + 1]>> \in E

\* The stack search of `reaches` answers what its comment says, whether `from`
\* waits transitively for `to`, on every graph of the store.
SearchIsReachability ==
  Quiet => \A x, y \in Node : reaches(InForce, x, y) <=> Reaches(InForce, x, y)

\* The audit reports every distinct loop of the edges in force and each of them
\* exactly once, rotated to its smallest node (View.Cycles).
AuditReportsEachLoopOnce ==
  LET found == Cycles(InForce)
  IN  Quiet =>
      /\ ToSet(found) = {p \in CanonicalPaths : IsLoop(InForce, p)}
      /\ IsInjective(found)
=============================================================================
