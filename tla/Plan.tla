-------------------------------- MODULE Plan --------------------------------
(***************************************************************************)
(* The tree of Matters, Stages and Steps: births, locators, sort keys and  *)
(* the four amendment verbs insert, reorder, replace and remove.           *)
(*                                                                         *)
(* Every verb but step remove computes what it is about to record (the     *)
(* locator, the sort key, the sibling order) from reads BEFORE its         *)
(* transaction, so it is a request that carries those values and a commit  *)
(* in which only the folds and the constraints of the `nodes` table can    *)
(* still refuse.  Any number of other commits may happen in between.       *)
(***************************************************************************)
EXTENDS Integers, Sequences, FiniteSets, SequencesExt

CONSTANTS
  Slug,          \* the locators titles slugify to; a title may be "Step 02"
  Gap,           \* sortKeyGap, 1000 in the code
  Process,       \* wip processes; each runs one verb at a time
  MaxNodes       \* bound: nodes ever born

StepLocator(n) == <<"step", n>>

ASSUME PlanAssumption ==
  /\ Gap \in Nat /\ Gap > 1
  /\ MaxNodes \in Nat

VARIABLES
  nodes,         \* rows of `nodes` in birth order; the index is the identity
  pending,       \* per process, the verb between its reads and its commit;
                 \* `current` until somebody else commits
  overlapped     \* history: a verb committed on reads that were not current

vars == <<nodes, pending, overlapped>>

NoParent == 0
Idle == [op |-> "idle"]
Kinds == {"matter", "stage", "step"}

----------------------------------------------------------------------------
(* Reads. *)

\* The live children of a parent, and those of them that are Steps.
Children(p) == {i \in DOMAIN nodes : nodes[i].parent = p /\ nodes[i].live}
StepChildren(p) == {i \in Children(p) : nodes[i].kind = "step"}

\* ORDER BY sort_key, birth_event.
Before(i, j) ==
  \/ nodes[i].key < nodes[j].key
  \/ nodes[i].key = nodes[j].key /\ i < j

\* liveSteps: the Step children in sibling order.
LiveSteps(p) == SetToSortSeq(StepChildren(p), Before)

NextSortKey(p) == Gap + Max({0} \cup {nodes[i].key : i \in Children(p)})

\* SortKeyBetween, its verdict and its key.
Fits(before, after) == after - before >= 2
SortKeyBetween(before, after) == before + (after - before) \div 2

StepsOf(m) == {i \in DOMAIN nodes : nodes[i].matter = m /\ nodes[i].kind = "step"}

\* Only the live Steps are counted.
MutNextStepLocator(m) ==
  StepLocator(Cardinality({i \in StepsOf(m) : nodes[i].live}) + 1)

\* Tombstoned Steps count too.
NextStepLocator(m) == StepLocator(Cardinality(StepsOf(m)) + 1)

LiveMatters == {i \in DOMAIN nodes : nodes[i].kind = "matter" /\ nodes[i].live}

\* Where a Step may hang: under a live Matter or Stage.
StepParents == {i \in DOMAIN nodes : nodes[i].kind # "step" /\ nodes[i].live}

----------------------------------------------------------------------------
(* Folds and the constraints of the table. *)

\* The unique index nodes_locator: one live row per locator in a Matter.
LocatorFree(ns, m, locator) ==
  \A i \in DOMAIN ns : ns[i].live /\ ns[i].matter = m => ns[i].locator # locator

\* The index is not there.
MutInsertNode(ns, kind, parent, locator, key) ==
  /\ Len(ns) < MaxNodes
  /\ kind # "matter" => ns[parent].live
  /\ nodes' = Append(ns,
       [kind |-> kind, parent |-> parent, locator |-> locator, key |-> key, live |-> TRUE,
        matter |-> IF kind = "matter" THEN Len(ns) + 1 ELSE ns[parent].matter])

\* insertNode with matterOf, the trigger nodes_depth and the index.
InsertNode(ns, kind, parent, locator, key) ==
  LET m == IF kind = "matter" THEN Len(ns) + 1 ELSE ns[parent].matter
  IN /\ Len(ns) < MaxNodes
     /\ kind # "matter" => ns[parent].live
     /\ kind = "stage" => ns[parent].kind = "matter"
     /\ kind = "step" => ns[parent].kind # "step"
     /\ LocatorFree(ns, m, locator)
     /\ nodes' = Append(ns, [kind |-> kind, matter |-> m, parent |-> parent,
                             locator |-> locator, key |-> key, live |-> TRUE])

\* applyReorder: one UPDATE per position, each of which must hit a live Step of
\* the parent; an identity named twice keeps its last position.  Siblings the
\* order does not name keep their keys.
CanReorder(p, order) ==
  order # <<>> /\ \A k \in DOMAIN order : order[k] \in StepChildren(p)

LastPosition(order, i) == Max({k \in DOMAIN order : order[k] = i})

ApplyReorder(order) ==
  [i \in DOMAIN nodes |->
     IF \E k \in DOMAIN order : order[k] = i
     THEN [nodes[i] EXCEPT !.key = LastPosition(order, i) * Gap]
     ELSE nodes[i]]

Tombstone(i) == [nodes EXCEPT ![i].live = FALSE]

----------------------------------------------------------------------------
(* The verbs up to their transaction. *)

Init ==
  /\ nodes = <<>>
  /\ pending = [w \in Process |-> Idle]
  /\ overlapped = FALSE

\* What a verb will record: its subject (the parent, or the Step replaced), the
\* locator and key computed, the order to write first (<<>>: none), and the
\* sibling position asked for.
Ask(w, op, subject, locator, key, order, position) ==
  /\ pending[w] = Idle
  /\ pending' = [pending EXCEPT ![w] =
       [op |-> op, subject |-> subject, locator |-> locator, key |-> key,
        order |-> order, position |-> position, current |-> TRUE]]
  /\ UNCHANGED <<nodes, overlapped>>

RequestMatter(w, locator) ==
  /\ \A i \in LiveMatters : nodes[i].locator # locator
  /\ Ask(w, "matter", NoParent, locator, 0, <<>>, 0)

RequestStage(w, p, locator) ==
  /\ p \in LiveMatters
  /\ LocatorFree(nodes, p, locator)
  /\ Ask(w, "stage", p, locator, NextSortKey(p), <<>>, 0)

RequestStep(w, p) ==
  /\ p \in StepParents
  /\ Ask(w, "step", p, NextStepLocator(nodes[p].matter), NextSortKey(p), <<>>,
         Cardinality(StepChildren(p)))

\* The slot after the position is taken.
MutRebalancedKey(position) == (position + 1) * Gap + Gap \div 2

\* The slot a renumbering opens at a position.
RebalancedKey(position) == position * Gap + Gap \div 2

\* InsertStep: at the end like a creation, otherwise at the middle of the gap
\* between the two neighbours, or with a renumbering when the gap is exhausted.
RequestInsert(w, p, position) ==
  LET siblings == LiveSteps(p)
      before == IF position = 0 THEN 0 ELSE nodes[siblings[position]].key
      after == nodes[siblings[position + 1]].key
      locator == NextStepLocator(nodes[p].matter)
  IN /\ p \in StepParents
     /\ position \in 0 .. Len(siblings)
     /\ \/ /\ position = Len(siblings)
           /\ Ask(w, "insert", p, locator, NextSortKey(p), <<>>, position)
        \/ /\ position < Len(siblings)
           /\ Fits(before, after)
           /\ Ask(w, "insert", p, locator, SortKeyBetween(before, after), <<>>, position)
        \/ /\ position < Len(siblings)
           /\ ~Fits(before, after)
           /\ Ask(w, "insert", p, locator, RebalancedKey(position), siblings, position)

\* ReorderStep compares the length of the order with the number of siblings and
\* asks of each name that it is a sibling.
RequestReorder(w, p, order) ==
  /\ p \in StepParents
  /\ Len(order) = Cardinality(StepChildren(p))
  /\ \A k \in DOMAIN order : order[k] \in StepChildren(p)
  /\ Ask(w, "reorder", p, StepLocator(0), 0, order, 0)

RequestReplace(w, i) ==
  /\ nodes[i].kind = "step" /\ nodes[i].live
  /\ Ask(w, "replace", i, NextStepLocator(nodes[i].matter), 0, <<>>, 0)

----------------------------------------------------------------------------
(* The transactions. *)

Stale(q) == IF q = Idle THEN Idle ELSE [q EXCEPT !.current = FALSE]

Committed(w) ==
  /\ pending' = [v \in Process |-> IF v = w THEN Idle ELSE Stale(pending[v])]
  /\ overlapped' = (overlapped \/ ~pending[w].current)

CommitBirth(w) ==
  LET r == pending[w]
  IN /\ r.op \in Kinds
     /\ InsertNode(nodes, r.op, r.subject, r.locator, r.key)
     /\ Committed(w)

CommitInsert(w) ==
  LET r == pending[w]
  IN /\ r.op = "insert"
     /\ \/ r.order = <<>> /\ InsertNode(nodes, "step", r.subject, r.locator, r.key)
        \/ /\ CanReorder(r.subject, r.order)
           /\ InsertNode(ApplyReorder(r.order), "step", r.subject, r.locator, r.key)
     /\ Committed(w)

CommitReorder(w) ==
  LET r == pending[w]
  IN /\ r.op = "reorder"
     /\ CanReorder(r.subject, r.order)
     /\ nodes' = ApplyReorder(r.order)
     /\ Committed(w)

\* The replacement takes the sort key its Step has when the event is folded.
CommitReplace(w) ==
  LET r == pending[w]
  IN /\ r.op = "replace"
     /\ nodes[r.subject].live
     /\ InsertNode(Tombstone(r.subject), "step", nodes[r.subject].parent, r.locator,
                   nodes[r.subject].key)
     /\ Committed(w)

\* The fold refuses a node that is no longer live, so removal is one step.
RemoveStep(i) ==
  /\ nodes[i].kind = "step" /\ nodes[i].live
  /\ nodes' = Tombstone(i)
  /\ pending' = [v \in Process |-> Stale(pending[v])]
  /\ UNCHANGED overlapped

\* The process dies, or its transaction is refused.
Abandon(w) ==
  /\ pending[w] # Idle
  /\ pending' = [pending EXCEPT ![w] = Idle]
  /\ UNCHANGED <<nodes, overlapped>>

Orders(p) == [1 .. Cardinality(StepChildren(p)) -> StepChildren(p)]

Next ==
  \/ \E w \in Process :
       \/ \E l \in Slug :
            RequestMatter(w, l) \/ \E p \in DOMAIN nodes : RequestStage(w, p, l)
       \/ \E p \in DOMAIN nodes :
            \/ RequestStep(w, p)
            \/ \E position \in 0 .. Cardinality(StepChildren(p)) : RequestInsert(w, p, position)
            \/ \E order \in Orders(p) : RequestReorder(w, p, order)
            \/ RequestReplace(w, p)
       \/ CommitBirth(w) \/ CommitInsert(w) \/ CommitReorder(w) \/ CommitReplace(w)
       \/ Abandon(w)
  \/ \E i \in DOMAIN nodes : RemoveStep(i)

Spec == Init /\ [][Next]_vars

----------------------------------------------------------------------------
(* Properties. *)

\* No step-NN of a Matter was ever given to two Steps, removed ones included
\* (the comment in NextStepLocator, D16).
StepLocatorsNeverReused ==
  \A i, j \in DOMAIN nodes :
    /\ nodes[i].kind = "step" /\ nodes[j].kind = "step"
    /\ nodes[i].matter = nodes[j].matter
    /\ nodes[i].locator = nodes[j].locator
    => i = j

\* A locator addresses at most one live Matter of the Repo (CreateMatter).
MatterLocatorsUnique ==
  \A i, j \in LiveMatters : nodes[i].locator = nodes[j].locator => i = j

\* A locator addresses at most one live node of a Matter, whatever locators the
\* overlapping births, inserts and replacements computed (nodes_locator); and
\* without a verb that committed on outdated reads, both promises hold: the
\* checks before the transaction are enough for one writer at a time, whatever
\* Steps were removed or replaced before.
LocatorsHold ==
  /\ \A i, j \in DOMAIN nodes :
       /\ nodes[i].live /\ nodes[j].live
       /\ nodes[i].matter = nodes[j].matter
       /\ nodes[i].locator = nodes[j].locator
       => i = j
  /\ ~overlapped => StepLocatorsNeverReused /\ MatterLocatorsUnique

\* A verb that commits on current reads leaves the Steps in the order asked: a
\* new Step at its position and nobody else moved, also when the gap was
\* exhausted and the siblings were renumbered, also between siblings with equal
\* keys; a reorder that names each sibling once gives exactly that order.
AmendmentLands ==
  [][\A w \in Process : \A r \in {pending[w]} \ {Idle} :
       \A p \in {r.subject}, old \in {LiveSteps(r.subject)} :
         r.current =>
           /\ ((r.op = "step" /\ CommitBirth(w)) \/ CommitInsert(w)) =>
                LiveSteps(p)' = InsertAt(old, r.position + 1, Len(nodes'))
           /\ (CommitReorder(w) /\ IsInjective(r.order)) => LiveSteps(p)' = r.order]_vars

\* "order must name exactly that set": an accepted reorder names every live Step
\* of its parent.  An order that names one twice is accepted, so this does not
\* hold.
ReorderIsComplete ==
  [][\A w \in Process :
       CommitReorder(w) =>
         Range(pending[w].order) = StepChildren(pending[w].subject)]_vars
=============================================================================
