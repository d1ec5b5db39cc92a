----------------------------- MODULE WorkCheck ------------------------------
(***************************************************************************)
(* What the authority checks before it opens an existing store, as          *)
(* predicates over the work tables and the log, and what the work           *)
(* operations must keep true.                                               *)
(***************************************************************************)
EXTENDS Progress

-----------------------------------------------------------------------------
(* foldStep12Event and its helpers: the nodes that the log of Matter, Stage   *)
(* and Step events describes.  ns is the fold so far, v the event at i.      *)
Kids(ns, parent) == {x \in DOMAIN ns : ns[x].parent = parent /\ ns[x].dead = 0}
StepKids(ns, parent) == {x \in Kids(ns, parent) : ns[x].kind = "step"}
step12NextSort(ns, parent) == Gap + Max({0} \cup {ns[x].key : x \in Kids(ns, parent)})
step12NonStepSort(ns, parent) == Max({0} \cup {ns[x].key : x \in Kids(ns, parent) \ StepKids(ns, parent)})
step12Steps(ns, m) == {x \in DOMAIN ns : ns[x].kind = "step" /\ ns[x].matter = m}
step12NextStepLocator(ns, m) ==
  LET used == {ns[x].loc : x \in step12Steps(ns, m)}
      count == Cardinality(step12Steps(ns, m))
  IN  Min((count + 1 .. 2 * count + 1) \ used)
step12SiblingOrder(ns, parent) == SetToSortSeq(StepKids(ns, parent), LAMBDA a, b : ns[a].key < ns[b].key)

FoldMatter(ns, v, i) ==
  LET loc == v.p[1]
      taken == {ns[x].loc : x \in {y \in DOMAIN ns : ns[y].kind = "matter"}}
      want == IF v.p[3] = 2 /\ v.p[2] \in taken THEN <<v.p[2][1], v.s>> ELSE v.p[2]
  IN  [ok |-> v.s \notin DOMAIN ns /\ loc = want,
       ns |-> (v.s :> Node("matter", v.s, 0, loc, 0, i, i, NoSlug)) @@ ns]

FoldStage(ns, v, i) ==
  LET m == v.p[1]
  IN  [ok |-> /\ v.s \notin DOMAIN ns /\ m \in DOMAIN ns /\ ns[m].kind = "matter" /\ ns[m].dead = 0
              /\ v.p[3] = step12NextSort(ns, m)
              /\ ~\E x \in DOMAIN ns : ns[x].kind = "stage" /\ ns[x].matter = m /\ ns[x].loc = v.p[2],
       ns |-> (v.s :> Node("stage", m, m, v.p[2], v.p[3], i, i, NoSlug)) @@ ns]

(* step12InsertionOrderValid: the new Step stands where it was asked for.     *)
Inserted(ns, v) ==
  LET order == step12SiblingOrder(ns, v.p[1])
      at == CHOOSE j \in DOMAIN order : order[j] = v.s
  IN  CASE v.p[4] = 0 -> at = Len(order)
        [] v.p[5] = "before" -> at < Len(order) /\ order[at + 1] = v.p[4]
        [] v.p[5] = "after" -> at > 1 /\ order[at - 1] = v.p[4]

FoldStep(ns, v, i) ==
  LET p == v.p[1]
      m == ns[p].matter
      new == (v.s :> Node("step", m, p, v.p[2], v.p[3], i, i, NoSlug)) @@ ns
  IN  [ok |-> /\ v.s \notin DOMAIN ns /\ p \in DOMAIN ns /\ ns[p].dead = 0
              /\ ns[p].kind \in (IF v.k = "step.created@1" THEN {"matter"} ELSE {"matter", "stage"})
              /\ v.p[2] = step12NextStepLocator(ns, m)
              /\ IF v.k = "step.inserted" THEN Inserted(new, v) ELSE v.p[3] = step12NextSort(ns, p),
       ns |-> new]

FoldReorder(ns, v, i) ==
  LET order == v.p[1]
      ahead == i < Len(log) /\ log[i + 1].c = v.c    \* it makes room for an insertion
  IN  [ok |-> /\ order # <<>> /\ Len(order) = Cardinality(StepKids(ns, v.s)) /\ Range(order) = StepKids(ns, v.s)
              /\ ahead => order = step12SiblingOrder(ns, v.s),
       ns |-> applyM6StepOrder(ns, order, step12NonStepSort(ns, v.s), i)]

FoldReplace(ns, v, i) ==
  LET old == ns[v.s]
      gone == [ns EXCEPT ![v.s].dead = i, ![v.s].last = i]
  IN  [ok |-> /\ v.s \in DOMAIN ns /\ old.kind = "step" /\ old.dead = 0 /\ v.p[1] \notin DOMAIN ns
              /\ v.p[2] = step12NextStepLocator(ns, old.matter),
       ns |-> (v.p[1] :> Node("step", old.matter, old.parent, v.p[2], old.key, i, i, NoSlug)) @@ gone]

FoldRemove(ns, v, i) ==
  [ok |-> v.s \in DOMAIN ns /\ ns[v.s].kind = "step" /\ ns[v.s].dead = 0,
   ns |-> [ns EXCEPT ![v.s].dead = i, ![v.s].last = i]]

FoldRepairRequired(ns, v, i) ==
  [ok |-> v.s \in DOMAIN ns /\ ns[v.s].req = NoSlug /\ v.p[2] = ns[v.s].loc,
   ns |-> [ns EXCEPT ![v.s].req = v.p[1], ![v.s].last = i]]

FoldRepaired(ns, v, i) ==
  [ok |-> /\ v.s \in DOMAIN ns /\ ns[v.s].req = v.p[1] /\ ns[v.s].loc = v.p[2]
          /\ v.p[3] # v.p[2] => ~\E x \in DOMAIN ns \ {v.s} : ns[x].kind = "matter" /\ ns[x].loc = v.p[3],
   ns |-> [ns EXCEPT ![v.s].req = NoSlug, ![v.s].loc = v.p[3], ![v.s].last = i]]

foldStep12Event(ns, v, i) ==
  CASE v.k = "matter.created" -> FoldMatter(ns, v, i)
    [] v.k = "stage.created" -> FoldStage(ns, v, i)
    [] v.k \in {"step.created", "step.created@1", "step.inserted"} -> FoldStep(ns, v, i)
    [] v.k = "step.reordered" -> FoldReorder(ns, v, i)
    [] v.k = "step.replaced" -> FoldReplace(ns, v, i)
    [] v.k = "step.removed" -> FoldRemove(ns, v, i)
    [] v.k = "repair-required" -> FoldRepairRequired(ns, v, i)
    [] v.k = "locator-repaired" -> FoldRepaired(ns, v, i)
    [] v.k = "life" -> [ok |-> v.s \in DOMAIN ns /\ ns[v.s].dead = 0, ns |-> [ns EXCEPT ![v.s].last = i]]
    [] OTHER -> [ok |-> TRUE, ns |-> ns]

SameProjection(ns) == DOMAIN ns = DOMAIN nodes /\ \A n \in DOMAIN ns : ns[n] = nodes[n]

checkStep12State ==
  LET fold[i \in 0 .. Len(log)] ==
        IF i = 0 THEN [ok |-> TRUE, ns |-> <<>>]
        ELSE LET before == fold[i - 1] IN IF before.ok THEN foldStep12Event(before.ns, log[i], i) ELSE before
      all == fold[Len(log)]
  IN  all.ok /\ SameProjection(all.ns)

-----------------------------------------------------------------------------
(* checkStep8State: the n-th version 1 Step of a Matter has the n-th locator  *)
(* and the n-th sort key, and each comes from an event of the birth's owner. *)
Birth(n) == nodes[n].birth
checkImplicitClaims ==
  /\ DOMAIN births = Matters
  /\ \A m \in Matters : births[m].owner = log[Birth(m)].c[1]

checkStepEvents == DOMAIN steps = {log[i].s : i \in {j \in DOMAIN log : log[j].k = "step.created@1"}}

checkSteps ==
  \A n \in DOMAIN steps :
    LET m == steps[n].matter
        rank == Cardinality({x \in V1Steps(m) : Birth(x) <= Birth(n)})
        v == log[Birth(n)]
    IN  /\ steps[n].loc = rank /\ steps[n].key = Gap * rank
        /\ v.p = <<m, steps[n].loc, steps[n].key>>
        /\ v.c[1] = births[m].owner /\ v.c[2] > log[Birth(m)].c[2]
        /\ receipts[v.c] = [ok |-> TRUE, last |-> Birth(n)]

checkStep8State == checkImplicitClaims /\ checkStepEvents /\ checkSteps

checkBirthJournalState ==
  \A m \in DOMAIN births :
    LET es == births[m].entries IN
    /\ es[1].cmd = log[Birth(m)].c
    /\ \A i \in DOMAIN es :
         /\ es[i].cmd[1] = births[m].owner /\ Submitted(es[i].cmd)
         /\ es[i].st = "returned" => es[i].cmd \in DOMAIN receipts
    /\ births[m].state = "released" =>
         birthBarrierStatus(m) /\ births[m].barrier = Len(es)
    /\ \A n \in V1Steps(m) : \E i \in DOMAIN es : i > 1 /\ es[i].cmd = log[Birth(n)].c

-----------------------------------------------------------------------------
(* checkStep5State and checkClaimGrant: the claims, their grants, the         *)
(* generations of their journals and their closes.                           *)
checkClaimSubmissionEvidence ==
  /\ \A e \in Env : Op(e) = "claim.acquire" => pending[e].start <= Len(log)
  /\ \A c \in DOMAIN claims : claims[c].start <= Len(log)

checkClaim(c) ==
  LET k == claims[c] IN
  /\ k.matter \in Matters
  /\ k.acquired \in DOMAIN receipts /\ receipts[k.acquired].ok /\ k.acquired[1] = k.owner

checkClaimGrant(c) ==
  LET k == claims[c] IN
  k.start <= k.end /\ receipts[k.acquired].last <= k.end /\ k.end <= Len(log)

checkJournal(c) ==
  \A g \in DOMAIN journals[c] :
    LET es == journals[c][g].entries IN
    /\ (journals[c][g].state = "quarantined") <=> g < Len(journals[c])
    /\ \A i \in DOMAIN es :
         /\ es[i].cmd[1] = claims[c].owner
         /\ i > 1 => es[i - 1].cmd[2] < es[i].cmd[2]
         /\ es[i].st # "pending" => es[i].cmd \in DOMAIN receipts

checkClose(c) ==
  /\ claims[c].closed = "release" =>
       claims[c].by = claims[c].owner /\ Gen(c).state = "sealed" /\ Settled(Gen(c).entries)
  /\ claims[c].closed = "stand-down" => claims[c].by # claims[c].owner

checkBatches ==
  \A m \in Matters : Cardinality({i \in DOMAIN log : log[i].k = "batch.anonymous-created" /\ log[i].s = m})
                        = (IF ClaimsOf(m) = {} THEN 0 ELSE 1)

checkEpochs(c) ==
  \A d \in ClaimsOf(claims[c].matter) : d < c => claims[d].epoch < claims[c].epoch

checkStep5State ==
  /\ checkClaimSubmissionEvidence
  /\ checkBatches
  /\ \A c \in DOMAIN claims :
       /\ journals[c] # <<>>
       /\ checkEpochs(c) /\ checkClaim(c) /\ checkClaimGrant(c) /\ checkJournal(c) /\ checkClose(c)

-----------------------------------------------------------------------------
(* checkM6LifecycleEvents: every transition starts from the state that the    *)
(* log before it gives, and a start has exactly the cascade it should.       *)
lifecycleNodeLive(n, first, last) == Birth(n) <= first /\ (nodes[n].dead = 0 \/ nodes[n].dead > last)

(* matterSubtreeCompleteBefore walks the nodes in birth order; it fails on a  *)
(* node born later, unless it has already met one that is not done.          *)
matterSubtreeReadable(m, first) ==
  LET below == {n \in DOMAIN nodes : nodes[n].matter = m /\ n # m}
      later == {n \in below : Birth(n) > first}
      there == {n \in below \ later : lifecycleNodeLive(n, first, first)}
  IN  later = {} \/ \E n \in there : LifeBefore(n, first) # "done"

checkMatterFinishHistory(m, first, last) == first = last /\ matterSubtreeReadable(m, first)

checkM6LifecycleEvents ==
  \A last \in {i \in DOMAIN log : log[i].k = "life" /\ ~log[i].p[3]} :
    LET n == log[last].s
        group == {i \in DOMAIN log : log[i].c = log[last].c}
        first == Min(group)
        above == SelectSeq(Path(n), LAMBDA a : a # n /\ LifeBefore(a, first) = "planned")
        want == IF log[last].p[1] = "planned" THEN Append(above, n) ELSE <<n>>
    IN  /\ n \in DOMAIN nodes /\ lifecycleNodeLive(n, first, last)
        /\ LifeBefore(n, first) = log[last].p[1]
        /\ group = first .. last /\ Len(want) = last - first + 1
        /\ \A i \in group : log[i].k = "life" /\ log[i].s = want[i - first + 1]
        /\ nodes[n].kind = "matter" /\ log[last].p[2] = "done" => checkMatterFinishHistory(n, first, last)

checkWork ==
  /\ checkStep12State
  /\ checkStep8State
  /\ checkBirthJournalState
  /\ checkStep5State
  /\ checkM6LifecycleEvents

-----------------------------------------------------------------------------

(* A Step was born through the birth claim of a Matter that had been claimed *)
(* explicitly before.                                                        *)
BornUnderClaim ==
  \E j \in Logged({"step.created@1"}) : \E i \in Logged({"claim.acquired"}) : i < j /\ log[i].p[1] = log[j].p[1]

Opened(i) == log[i].k = "claim.acquired"
Closed(i, c) == log[i].k \in {"claim.released", "claim.stood-down"} /\ log[i].p[1] = c /\ c > 0
WorkKinds == {"stage.created", "step.created", "step.inserted", "step.reordered", "step.replaced",
              "step.removed", "locator-repaired", "life", "content"}
HeldAt(c, i) == /\ \E j \in 1 .. i - 1 : Opened(j) /\ log[j].s = c
                /\ ~\E j \in 1 .. i - 1 : Closed(j, c)

(* Every change to a claimed Matter was logged while the Environment that     *)
(* issued it held the Matter's one open claim: completing a command that was *)
(* submitted under a claim since closed, or granting a second claim, would   *)
(* break this.                                                               *)
WorkUnderClaim ==
  \A i \in DOMAIN log :
    log[i].k \in WorkKinds =>
      LET m == nodes[log[i].s].matter
          held == {c \in ClaimsOf(m) : HeldAt(c, i)}
      IN  Cardinality(held) = 1 /\ \A c \in held : claims[c].owner = log[i].c[1]

(* A journal entry that a repair gave up has no effect, then or later: its    *)
(* command neither succeeded before nor can succeed after the repair.        *)
AbandonedHasNoEffect ==
  \A c \in DOMAIN journals : \A g \in 1 .. Len(journals[c]) - 1 :
    \A i \in DOMAIN journals[c][g].entries :
      LET x == journals[c][g].entries[i] IN
      x.st = "terminal" \/ (~\E j \in DOMAIN log : log[j].c = x.cmd)
=============================================================================
