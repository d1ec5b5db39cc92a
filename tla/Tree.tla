-------------------------------- MODULE Tree --------------------------------
(***************************************************************************)
(* The operations on a claimed Matter: its Stages and Steps (create,        *)
(* insert, reorder, replace, remove), its locator repair, the lifecycle of  *)
(* its nodes, and its content.  All but matter.finish and the locator       *)
(* repair are claim-delivered: they enter the claim's journal when they are *)
(* submitted.  A command is submitted against a claim and completed later,  *)
(* when the claim may have been closed by another Environment.              *)
(***************************************************************************)
EXTENDS Claims

treeVars == <<steps, births, claims, nonces, segments>>

(* validateStep4ClaimTx.                                                     *)
Step4Claim(e, c) ==
  /\ JournalOpen(e, c)
  /\ Live(claims[c].matter)
  /\ LifeState(claims[c].matter) \in {"planned", "in-progress"}

MutStep4Fenced(e) == FALSE
Step4Fenced(e) == ~Step4Claim(e, pending[e].claim)

SubmitStep4(e, cmd) ==
  /\ Step4Claim(e, cmd.claim)
  /\ cmd.op = "stage.create" => cmd.node = claims[cmd.claim].matter
  /\ Submit(e, cmd)
  /\ IF cmd.op = "locator-repair" THEN UNCHANGED journals
     ELSE Appendable(e, cmd.claim) /\ AppendClaimJournalEntry(e, cmd.claim)
  /\ UNCHANGED <<nodes, treeVars>>

(* verifyStep4MatterClaim, once the node of the command is resolved.         *)
Within(e, n) == ~Step4Fenced(e) /\ claims[pending[e].claim].matter = nodes[n].matter

ChildKeys(parent) == {nodes[n].key : n \in {x \in DOMAIN nodes : nodes[x].parent = parent /\ Live(x)}}
nextM6SortKey(parent) == Gap + Max({0} \cup ChildKeys(parent))

nextM6StepLocator(m) ==
  LET used == StepLocators(m) IN Min((Cardinality(used) + 1 .. 2 * Cardinality(used) + 1) \ used)

SiblingOrder(parent) == SetToSortSeq(LiveSteps(parent), LAMBDA a, b : nodes[a].key < nodes[b].key)

(* The Steps of a parent are renumbered above its Stages.                    *)
Base(parent) ==
  Max({0} \cup {nodes[n].key : n \in {x \in DOMAIN nodes : nodes[x].parent = parent
                                                          /\ nodes[x].kind = "stage" /\ Live(x)}})
applyM6StepOrder(ns, order, base, pos) ==
  [n \in DOMAIN ns |->
     IF \E i \in DOMAIN order : order[i] = n
     THEN [ns[n] EXCEPT !.key = base + Gap * (CHOOSE i \in DOMAIN order : order[i] = n), !.last = pos]
     ELSE ns[n]]

Change(ns) == nodes' = ns /\ UNCHANGED <<treeVars, journals>>
Parent(n) == Live(n) /\ nodes[n].kind \in {"matter", "stage"}
Step(n) == Live(n) /\ nodes[n].kind = "step"

-----------------------------------------------------------------------------
CompleteStageCreate(e) ==
  LET m == pending[e].node
      n == NextNode
      pos == Len(log) + 1
      key == nextM6SortKey(m)
      ok == /\ Parent(m) /\ nodes[m].kind = "matter" /\ Within(e, m)
            /\ ~\E x \in DOMAIN nodes : nodes[x].kind = "stage" /\ nodes[x].matter = m
                                        /\ nodes[x].loc = pending[e].slug
  IN  /\ Op(e) = "stage.create"
      /\ \/ /\ ok
            /\ Finish(e, TRUE, <<Event(e, "stage.created", n, <<m, pending[e].slug, key>>)>>)
            /\ Change((n :> Node("stage", m, m, pending[e].slug, key, pos, pos, NoSlug)) @@ nodes)
         \/ ~ok /\ Refuse(e)

createM6Step(e) ==
  LET p == pending[e].node
      n == NextNode
      pos == Len(log) + 1
      ok == Parent(p) /\ Within(e, p)
      loc == nextM6StepLocator(nodes[p].matter)
  IN  /\ Op(e) = "step.create@2"
      /\ \/ /\ ok
            /\ Finish(e, TRUE, <<Event(e, "step.created", n, <<p, loc, nextM6SortKey(p)>>)>>)
            /\ Change((n :> Node("step", nodes[p].matter, p, loc, nextM6SortKey(p), pos, pos, NoSlug)) @@ nodes)
         \/ ~ok /\ Refuse(e)

midpoint(before, after) == before + (after - before) \div 2

(* The place of the new Step among its siblings: 0 is in front of all.       *)
Place(order, anchor, side) ==
  IF anchor = 0 THEN Len(order)
  ELSE (CHOOSE i \in DOMAIN order : order[i] = anchor) - (IF side = "before" THEN 1 ELSE 0)

(* Between two keys that leave no room, or on a key that is taken, the        *)
(* siblings are renumbered first, by an event of its own.                    *)
insertM6Step(e) ==
  LET p == pending[e].node
      order == SiblingOrder(p)
      ok == /\ Parent(p) /\ Within(e, p)
            /\ pending[e].anchor # 0 => \E i \in DOMAIN order : order[i] = pending[e].anchor
      at == Place(order, pending[e].anchor, pending[e].side)
      before == IF at = 0 THEN 0 ELSE nodes[order[at]].key
      end == at = Len(order)
      key == IF end THEN nextM6SortKey(p) ELSE midpoint(before, nodes[order[at + 1]].key)
      fit == end \/ (nodes[order[at + 1]].key - before > 1 /\ key \notin ChildKeys(p))
      n == NextNode
      pos == Len(log) + (IF fit THEN 1 ELSE 2)
      loc == nextM6StepLocator(nodes[p].matter)
      new == IF fit THEN key ELSE Base(p) + at * Gap + Gap \div 2
      inserted == <<Event(e, "step.inserted", n, <<p, loc, new, pending[e].anchor, pending[e].side>>)>>
      ns == IF fit THEN nodes ELSE applyM6StepOrder(nodes, order, Base(p), pos - 1)
  IN  /\ Op(e) = "step.insert"
      /\ \/ /\ ok
            /\ Finish(e, TRUE, IF fit THEN inserted
                               ELSE <<Event(e, "step.reordered", p, <<order>>)>> \o inserted)
            /\ Change((n :> Node("step", nodes[p].matter, p, loc, new, pos, pos, NoSlug)) @@ ns)
         \/ ~ok /\ Refuse(e)

(* A reorder must name every live Step of the parent exactly once.           *)
CompleteStepReorder(e) ==
  LET p == pending[e].node
      order == pending[e].order
      ok == /\ Parent(p) /\ Within(e, p)
            /\ order # <<>> /\ Len(order) = Cardinality(LiveSteps(p)) /\ Range(order) = LiveSteps(p)
  IN  /\ Op(e) = "step.reorder"
      /\ \/ /\ ok
            /\ Finish(e, TRUE, <<Event(e, "step.reordered", p, <<order>>)>>)
            /\ Change(applyM6StepOrder(nodes, order, Base(p), Len(log) + 1))
         \/ ~ok /\ Refuse(e)

(* A replacement takes the place of the removed Step, under a new locator.   *)
CompleteStepReplace(e) ==
  LET old == pending[e].node
      n == NextNode
      pos == Len(log) + 1
      ok == Step(old) /\ Within(e, old)
      loc == nextM6StepLocator(nodes[old].matter)
      gone == [nodes EXCEPT ![old].dead = pos, ![old].last = pos]
  IN  /\ Op(e) = "step.replace"
      /\ \/ /\ ok
            /\ Finish(e, TRUE, <<Event(e, "step.replaced", old, <<n, loc>>)>>)
            /\ Change((n :> Node("step", nodes[old].matter, nodes[old].parent, loc, nodes[old].key,
                                 pos, pos, NoSlug)) @@ gone)
         \/ ~ok /\ Refuse(e)

CompleteStepRemove(e) ==
  LET old == pending[e].node
      pos == Len(log) + 1
      ok == Step(old) /\ Within(e, old)
  IN  /\ Op(e) = "step.remove"
      /\ \/ /\ ok
            /\ Finish(e, TRUE, <<Event(e, "step.removed", old, <<0>>)>>)
            /\ Change([nodes EXCEPT ![old].dead = pos, ![old].last = pos])
         \/ ~ok /\ Refuse(e)

(* accept keeps the locator that was assigned, rename chooses another one.   *)
CompleteLocatorRepair(e) ==
  LET m == pending[e].node
      to == IF pending[e].slug = NoSlug THEN nodes[m].loc ELSE <<pending[e].slug>>
      others == {nodes[x].loc : x \in Matters \ {m}}
      ok == /\ Parent(m) /\ nodes[m].kind = "matter" /\ Within(e, m) /\ nodes[m].req # NoSlug
            /\ pending[e].slug # NoSlug => to # nodes[m].loc /\ to \notin others
  IN  /\ Op(e) = "locator-repair"
      /\ \/ /\ ok
            /\ Finish(e, TRUE, <<Event(e, "locator-repaired", m, <<nodes[m].req, nodes[m].loc, to>>)>>)
            /\ Change([nodes EXCEPT ![m].loc = to, ![m].req = NoSlug, ![m].last = Len(log) + 1])
         \/ ~ok /\ Refuse(e)
=============================================================================
