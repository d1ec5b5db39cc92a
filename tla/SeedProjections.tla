--------------------------- MODULE SeedProjections ---------------------------
(***************************************************************************)
(* The other folds a transfer must pass: the gate projection (wipdseed      *)
(* step7_projection.go), relations and tracker candidates (wipdjournal      *)
(* step8_projection.go) and content.  Each goes through the log once and    *)
(* carries its own tables; the authority computes the same facts by looking *)
(* back through the log at a position.                                      *)
(***************************************************************************)
EXTENDS SeedFold

Above(ns, n) == LET p == ns[n].parent
                    q == IF p = 0 THEN 0 ELSE ns[p].parent
                IN  {n, p, q, IF q = 0 THEN 0 ELSE ns[q].parent} \ {0}

-----------------------------------------------------------------------------
(* foldStep7GateProjection.  The nodes are collected first, with the position *)
(* of their birth and of their removal.                                      *)
BirthKinds == {"matter.created", "stage.created", "step.created", "step.created@1"}
KindOf(v) == CASE v.k = "matter.created" -> "matter" [] v.k = "stage.created" -> "stage" [] OTHER -> "step"
step7Nodes ==
  LET born == {i \in DOMAIN log : log[i].k \in BirthKinds}
      gone(n) == {i \in DOMAIN log : log[i].k = "step.removed" /\ log[i].s = n}
      at(n) == CHOOSE i \in born : log[i].s = n
  IN  [n \in {log[i].s : i \in born} |->
        [kind |-> KindOf(log[at(n)]), parent |-> IF log[at(n)].k = "matter.created" THEN 0 ELSE log[at(n)].p[1],
         birth |-> at(n), dead |-> IF gone(n) = {} THEN 0 ELSE Min(gone(n))]]

step7Empty == [ok |-> TRUE, decls |-> <<>>, states |-> {}, life |-> <<>>, prev |-> <<>>]
step7LiveAt(ns, n, i) == n \in DOMAIN ns /\ ns[n].birth < i /\ (ns[n].dead = 0 \/ ns[n].dead > i)
step7Done(f, n) == n \in DOMAIN f.life /\ f.life[n] = "done"

step7ClientGateSealed(f, ns, n, target, i) ==
  /\ step7Done(f, n)
  /\ \A a \in Above(ns, n) :
       /\ ns[a].dead = 0 \/ ns[a].dead > i
       /\ \A g \in DOMAIN f.decls : f.decls[g].scale = ns[a].kind => <<a, g>> \in f.states \/ (a = n /\ g = target)

step7ClientRepairEligibleAtDeclaration(f, ns, g, i) ==
  {n \in DOMAIN ns : /\ ns[n].kind = f.decls[g].scale /\ step7LiveAt(ns, n, i)
                     /\ step7ClientGateSealed(f, ns, n, g, i)}

step7Declared(f, ns, v, i) ==
  LET g == v.p[1]
      next == [f EXCEPT !.decls = (g :> [scale |-> v.p[2], eligible |-> {}]) @@ @,
                        !.states = @ \cup {<<n, g>> : n \in v.p[3]}]
  IN  Keep(f, /\ g \notin DOMAIN f.decls
              /\ \A n \in v.p[3] : step7LiveAt(ns, n, i) /\ ns[n].kind = v.p[2],
           [next EXCEPT !.decls[g].eligible = step7ClientRepairEligibleAtDeclaration(next, ns, g, i)])

step7State(f, ns, v, i) ==
  LET n == v.s
      g == v.p[1]
  IN  Keep(f, /\ step7LiveAt(ns, n, i) /\ g \in DOMAIN f.decls /\ f.decls[g].scale = ns[n].kind
              /\ <<n, g>> \notin f.states
              /\ v.k = "gate.dismissed" => step7Done(f, n)
              /\ v.k = "gate.exemption-repaired" => n \in f.decls[g].eligible /\ step7ClientGateSealed(f, ns, n, g, i),
           [f EXCEPT !.states = @ \cup {<<n, g>>}])

(* A sweep in the command of the finish before it is not looked at here.      *)
step7Event(f, ns, v, i) ==
  LET inline == f.prev = <<v.c, "done">>
      g == IF v.k = "life" THEN [f EXCEPT !.life = (v.s :> v.p[2]) @@ @] ELSE f
      h == CASE v.k = "batch.swept" -> Keep(g, inline \/ step7ClientGateSealed(g, ns, v.s, "", i), g)
             [] v.k = "gate.declared" -> step7Declared(g, ns, v, i)
             [] v.k \in {"gate.closed", "gate.dismissed", "gate.exemption-repaired"} -> step7State(g, ns, v, i)
             [] OTHER -> g
  IN  [h EXCEPT !.prev = IF v.k = "life" /\ ns[v.s].kind = "matter" THEN <<v.c, v.p[2]>> ELSE <<>>]

foldStep7GateProjection ==
  LET ns == step7Nodes
      fold[i \in 0 .. Len(log)] ==
        IF i = 0 THEN step7Empty
        ELSE LET f == fold[i - 1] IN IF f.ok THEN step7Event(f, ns, log[i], i) ELSE f
  IN  fold[Len(log)]

-----------------------------------------------------------------------------
(* FoldStep8Projection: nodes, edges, gates and references as they stand     *)
(* after each event, and the candidates the event gives the outbox.  A push   *)
(* level in a payload has to be the one in force.                            *)
step8Empty == [ok |-> TRUE, nodes |-> <<>>, edges |-> {}, used |-> {}, decls |-> {}, gates |-> {}, refs |-> {}, cands |-> {}]
step8Live(f, n) == n \in DOMAIN f.nodes /\ ~f.nodes[n].gone
step8Node(kind, p) == [kind |-> kind, parent |-> p, state |-> "planned", gone |-> FALSE]

step8Sealed(f, n) ==
  /\ f.nodes[n].state = "done"
  /\ \A a \in Above(f.nodes, n) :
       /\ ~f.nodes[a].gone
       /\ \A d \in f.decls : d[2] = f.nodes[a].kind => <<a, d[1]>> \in f.gates

step8Aggregate(f, r) ==
  LET ms == {m \in DOMAIN f.nodes : <<m, r>> \in f.refs /\ ~f.nodes[m].gone}
      standing == {m \in ms : f.nodes[m].state # "canceled"}
  IN  IF \A m \in ms : f.nodes[m].state = "planned" THEN ""
      ELSE IF \E m \in standing : ~step8Sealed(f, m) THEN "active"
      ELSE IF standing # {} THEN "completed" ELSE "canceled"

step8Created(f, v) ==
  LET p == IF v.k = "matter.created" THEN 0 ELSE v.p[1]
      kind == KindOf(v)
  IN  Keep(f, /\ v.s \notin DOMAIN f.nodes
              /\ kind # "matter" => step8Live(f, p)
              /\ kind = "stage" => f.nodes[p].kind = "matter",
           [f EXCEPT !.nodes = (v.s :> step8Node(kind, p)) @@ @])

step8Edited(f, v) ==
  LET gone == [f EXCEPT !.nodes[v.s].gone = TRUE]
  IN  Keep(f, /\ step8Live(f, v.s) /\ f.nodes[v.s].kind = "step"
              /\ v.k = "step.replaced" => v.p[1] \notin DOMAIN f.nodes,
           IF v.k = "step.removed" THEN gone
           ELSE [gone EXCEPT !.nodes = (v.p[1] :> step8Node("step", f.nodes[v.s].parent)) @@ @])

step8Dependency(f, v) ==
  LET edge == <<v.p[1], v.s, v.p[2]>>
      live == {<<x[2], x[3]>> : x \in {y \in f.edges : step8Live(f, y[2]) /\ step8Live(f, y[3])}}
      ends == /\ step8Live(f, v.s) /\ step8Live(f, v.p[2]) /\ v.s # v.p[2]
              /\ {f.nodes[v.s].kind, f.nodes[v.p[2]].kind} \subseteq {"matter", "step"}
  IN  IF v.k = "dependency.removed"
      THEN Keep(f, ends /\ edge \in f.edges, [f EXCEPT !.edges = @ \ {edge}])
      ELSE Keep(f, ends /\ v.p[1] \notin f.used /\ <<v.s, v.p[2]>> \notin live /\ ~dependencyReachable(v.p[2], v.s, live),
                [f EXCEPT !.edges = @ \cup {edge}, !.used = @ \cup {v.p[1]}])

step8Gate(f, v) ==
  LET g == v.p[1] IN
  IF v.k = "gate.declared"
  THEN Keep(f, /\ \A d \in f.decls : d[1] # g
               /\ \A n \in v.p[3] : step8Live(f, n) /\ f.nodes[n].kind = v.p[2],
            [f EXCEPT !.decls = @ \cup {<<g, v.p[2]>>}, !.gates = @ \cup {<<n, g>> : n \in v.p[3]}])
  ELSE Keep(f, /\ step8Live(f, v.s) /\ <<g, f.nodes[v.s].kind>> \in f.decls /\ <<v.s, g>> \notin f.gates
               /\ v.k = "gate.dismissed" => f.nodes[v.s].state = "done",
            [f EXCEPT !.gates = @ \cup {<<v.s, g>>}])

step8Reference(f, v) ==
  LET bound == <<v.s, v.p[Len(v.p)]>>
      from == <<v.s, v.p[1]>>
      known == step8Live(f, v.s) /\ f.nodes[v.s].kind = "matter"
  IN  CASE v.k = "reference.removed" -> Keep(f, known /\ from \in f.refs, [f EXCEPT !.refs = @ \ {from}])
        [] v.k = "reference.added" -> Keep(f, known /\ bound \notin f.refs, [f EXCEPT !.refs = @ \cup {bound}])
        [] v.k = "reference.rebound" ->
             Keep(f, known /\ bound \notin f.refs /\ from \in f.refs, [f EXCEPT !.refs = (@ \ {from}) \cup {bound}])

step8Lifecycle(f, v) ==
  IF v.s \notin DOMAIN f.nodes THEN f
  ELSE Keep(f, step8Live(f, v.s) /\ f.nodes[v.s].state = v.p[1], [f EXCEPT !.nodes[v.s].state = v.p[2]])

(* The references an event says something about, once it is applied.          *)
step8Affected(f, v) ==
  LET active == {r \in Ref : <<v.s, r>> \in f.refs}
      told == \/ v.k = "life" /\ f.nodes[v.s].kind = "matter"
                   /\ (v.p[1] = "planned" \/ v.p[2] = "canceled" \/ (v.p[2] = "done" /\ step8Sealed(f, v.s)))
              \/ v.k \in {"gate.closed", "gate.dismissed"} /\ f.nodes[v.s].kind = "matter" /\ step8Sealed(f, v.s)
  IN  IF v.k \in ReferenceKinds THEN Range(v.p) ELSE IF told THEN active ELSE {}
step8Candidates(f, v, i) ==
  IF ~Pushes(v) THEN {}
  ELSE {<<i, r, step8Aggregate(f, r)>> : r \in {x \in step8Affected(f, v) : step8Aggregate(f, x) # ""}}

step8Level(v) == PushLevel(v) # "" => PushLevel(v) = Level
step8Event(f, v, i) ==
  LET g == CASE ~step8Level(v) -> [f EXCEPT !.ok = FALSE]
             [] v.k \in BirthKinds \cup {"step.inserted"} -> step8Created(f, v)
             [] v.k \in {"step.removed", "step.replaced"} -> step8Edited(f, v)
             [] v.k \in {"dependency.added", "dependency.removed"} -> step8Dependency(f, v)
             [] v.k = "gate.declared" \/ v.k \in GateEvents -> step8Gate(f, v)
             [] v.k \in ReferenceKinds -> step8Reference(f, v)
             [] v.k = "life" -> step8Lifecycle(f, v)
             [] OTHER -> f
  IN  IF g.ok THEN [g EXCEPT !.cands = @ \cup step8Candidates(g, v, i)] ELSE g

FoldStep8Projection ==
  LET fold[i \in 0 .. Len(log)] ==
        IF i = 0 THEN step8Empty
        ELSE LET f == fold[i - 1] IN IF f.ok THEN step8Event(f, log[i], i) ELSE f
  IN  fold[Len(log)]

(* foldContentEvents: a subject must be born, and everything but findings is  *)
(* written once.                                                             *)
foldContentEvents ==
  \A i \in DOMAIN log : log[i].k = "content" =>
    /\ \E j \in 1 .. i - 1 : log[j].k \in BirthKinds /\ log[j].s = log[i].s
    /\ log[i].p[1] # "findings" =>
         ~\E j \in 1 .. i - 1 : log[j].k = "content" /\ log[j].s = log[i].s /\ log[j].p[1] = log[i].p[1]

-----------------------------------------------------------------------------
(* The histories the fold does not follow although the authority wrote them:  *)
(* an edit of a plan or of a locator, or a claim ended by another             *)
(* Environment, for which the fold has no case; a Step that its Matter's      *)
(* creator bore under a claim before it released the birth claim, which the   *)
(* fold counts as an entry of the birth journal and the authority does not;   *)
(* a sweep on the evidence of a release that was not the last; and a role     *)
(* whose id was used before.                                                 *)
UnknownKinds == {"step.inserted", "step.reordered", "step.replaced", "step.removed", "repair-required",
                 "locator-repaired", "claim.stood-down", "claim.journal-repaired"}
UnknownKind == Logged(UnknownKinds) # {}
UnjournaledBirth ==
  \E i \in Logged({"step.created"}) : \E j \in Logged({"claim.released"}) :
    i < j /\ log[j].p = <<0>> /\ nodes[log[i].s].matter = log[j].s /\ log[i].c[1] = log[j].c[1]
LastRelease(m, i) ==
  Max({j \in 1 .. i : /\ log[j].k = "claim.released"
                      /\ IF log[j].p = <<0>> THEN log[j].s = m ELSE claims[log[j].s].matter = m})
EarlierRelease == \E i \in Logged({"batch.swept"}) : log[LastRelease(log[i].s, i)].c[1] # log[i].c[1]
RoleAgain == \E i, j \in Logged({"role.spawned"}) : i < j /\ log[i].s = log[j].s
ClientGap == UnknownKind \/ BornUnderClaim \/ UnjournaledBirth \/ EarlierRelease \/ RoleAgain

(* What the folds say of work, claims, runs, roles, batches, gates,          *)
(* dependencies and references is what the authority's tables say.           *)
Agrees(f, g, r) ==
  LET pos == Len(log) IN
  /\ DOMAIN f.nodes = DOMAIN nodes
  /\ \A n \in DOMAIN nodes : /\ f.nodes[n].state = LifeState(n) /\ f.nodes[n].matter = nodes[n].matter
                             /\ r.nodes[n].state = LifeState(n)
  /\ \A m \in Matters : /\ f.matters[m].claim.id = (IF OpenClaimAt(m, pos) THEN CHOOSE c \in ClaimsOf(m) : Open(c) ELSE 0)
                        /\ f.matters[m].freed = (births[m].state = "released")
                        /\ f.matters[m].swept = SweptBefore(m, pos)
  /\ DOMAIN f.runs = {x \in Run : RunActive(x, pos)}
  /\ DOMAIN f.roles = {log[i].s : i \in ActiveRolesAt(pos)}
  /\ \A b \in DOMAIN batches : f.named[b] = [gone |-> batches[b].gone, members |-> batches[b].members]
  /\ g.states = {x \in (DOMAIN nodes) \X (DOMAIN g.decls) : Satisfied(x[1], x[2], pos)}
  /\ r.gates = g.states
  /\ {<<x[2], x[3]>> : x \in r.edges} = Pairs(pos)
  /\ r.refs = {x \in Matters \X Ref : isActive(x[1], x[2], pos)}
  /\ r.cands = UNION {{<<i, x[1], x[2]>> : x \in Candidates(i)} : i \in DOMAIN log}

(* VerifyPullTransfer on the whole log: what a seed, a pull or a claim grant  *)
(* of any Environment would be judged by.                                    *)
ClientFolds == foldEventRecordsCore.ok /\ foldStep7GateProjection.ok /\ FoldStep8Projection.ok /\ foldContentEvents

(* An Environment that folds the authority's log accepts it and arrives at   *)
(* the authority's own state, whatever commands two Environments interleaved, *)
(* outside of the histories above.                                           *)
OnlyGapsLose ==
  LET f == foldEventRecordsCore
      g == foldStep7GateProjection
      r == FoldStep8Projection
  IN  ClientGap \/ (f.ok /\ g.ok /\ r.ok /\ foldContentEvents /\ Agrees(f, g, r))
=============================================================================
