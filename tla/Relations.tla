----------------------------- MODULE Relations ------------------------------
(***************************************************************************)
(* What connects Matters on the authority: dependencies between nodes,      *)
(* tracker references shared by Matters, named batches, and the sweep of    *)
(* the anonymous batch of a finished Matter.  Dependencies and references   *)
(* are rebuilt from the log by every command that changes them; named       *)
(* batches are kept in tables of their own.                                 *)
(* Log: dependency.added, dependency.removed s = blocked, p = <<edge,       *)
(* blocker>>; reference.added, reference.removed s = Matter, p = <<ref>>;   *)
(* reference.rebound p = <<from, to>>; batch.created s = batch, p = <<name>>;*)
(* batch.joined, batch.left p = <<Matter>>; batch.dismissed; batch.swept    *)
(* s = Matter (the anonymous batch of a Matter is named by the Matter).     *)
(***************************************************************************)
EXTENDS AuthorityGates

CONSTANTS Ref,     \* tracker references
          Name,    \* names of batches
          Level    \* the Repo's tracker.push-level, "off", "boundary" or "narrated";
                   \* no command of the authority changes it

VARIABLES batches,   \* m6_named_batches, _memberships  id -> [name, gone, members]
          sweeps     \* batch_sweep_boundaries          command id -> [in, pos, code]

relationVars == <<batches, sweeps>>
allTables == <<gateTables, relationVars>>
allVars == <<vars, repairs, batches, sweeps>>

-----------------------------------------------------------------------------
(* validateTargetClaimsTx: an open claim of the Environment on every target. *)
TargetClaim(e, m) == \E c \in ClaimsOf(m) : Owns(e, c) /\ Gen(c).state = "open"
targetClaims(e, ms) == \A m \in ms : TargetClaim(e, m)

(* Submission checks nothing but the Environment and its sequence.           *)
SubmitRelation(e, cmd) == Submit(e, cmd) /\ UNCHANGED allTables

RefuseAll(e) == Refuse(e) /\ UNCHANGED <<repairs, relationVars>>
AcceptAll(e, events) == Finish(e, TRUE, events) /\ UNCHANGED allTables

-----------------------------------------------------------------------------
(* Dependencies.  An edge is in force while it is not removed and both of    *)
(* its nodes are live.                                                       *)
EdgeNode(n, pos) == n \in DOMAIN nodes /\ nodes[n].kind \in {"matter", "step"} /\ LiveAt(n, pos)
EdgesAt(pos) ==
  {i \in 1 .. pos :
     /\ log[i].k = "dependency.added"
     /\ LiveAt(log[i].s, pos) /\ LiveAt(log[i].p[2], pos)
     /\ ~\E j \in i + 1 .. pos : log[j].k = "dependency.removed" /\ log[j].p[1] = log[i].p[1]}
Pairs(pos) == {<<log[i].s, log[i].p[2]>> : i \in EdgesAt(pos)}

dependencyReachable(from, to, pairs) ==
  LET step(S) == S \cup {p[2] : p \in {q \in pairs : q[1] \in S}}
      reach[k \in 0 .. Cardinality(pairs)] == IF k = 0 THEN {from} ELSE step(reach[k - 1])
  IN  to \in reach[Cardinality(pairs)]

DependencyOk(e, a, b, pos) ==
  EdgeNode(a, pos) /\ EdgeNode(b, pos) /\ a # b /\ targetClaims(e, {nodes[a].matter, nodes[b].matter})

completeDependency(e) ==
  LET a == pending[e].blocked
      b == pending[e].blocker
      pos == Len(log)
      held == {i \in EdgesAt(pos) : log[i].s = a /\ log[i].p[2] = b}
      adds == pending[e].op = "dependency.add"
      ok == /\ pending[e].ver = 2
            /\ DependencyOk(e, a, b, pos)
            /\ IF adds THEN held = {} /\ ~dependencyReachable(b, a, Pairs(pos)) ELSE held # {}
      edge == IF adds THEN Cid(e) ELSE log[Max(held)].p[1]
  IN  /\ Op(e) \in {"dependency.add", "dependency.remove"}
      /\ \/ ok /\ AcceptAll(e, <<Event(e, IF adds THEN "dependency.added" ELSE "dependency.removed", a, <<edge, b>>)>>)
         \/ ~ok /\ RefuseAll(e)

(* deriveDependencyProjection fails on an event that could not follow.       *)
dependencyEvent(i) ==
  LET v == log[i]
      before == Pairs(i - 1)
  IN  /\ v.k \in {"dependency.added", "dependency.removed"} =>
           EdgeNode(v.s, i) /\ EdgeNode(v.p[2], i) /\ v.s # v.p[2] /\ Birth(v.s) < i /\ Birth(v.p[2]) < i
      /\ v.k = "dependency.added" => <<v.s, v.p[2]>> \notin before /\ ~dependencyReachable(v.p[2], v.s, before)
      /\ v.k = "dependency.removed" =>
           \E j \in 1 .. i - 1 : /\ log[j].k = "dependency.added" /\ log[j].p = v.p /\ log[j].s = v.s
                                 /\ ~\E h \in j .. i - 1 : log[h].k = "dependency.removed" /\ log[h].p = v.p
checkDependencyState == \A i \in DOMAIN log : dependencyEvent(i)

-----------------------------------------------------------------------------
(* Tracker references.                                                       *)
Binds(i, m, r) == log[i].s = m /\ (\/ log[i].k = "reference.added" /\ log[i].p[1] = r
                                   \/ log[i].k = "reference.rebound" /\ log[i].p[2] = r)
Frees(i, m, r) == log[i].s = m /\ log[i].k \in {"reference.removed", "reference.rebound"} /\ log[i].p[1] = r
isActive(m, r, pos) ==
  \E i \in 1 .. pos : Binds(i, m, r) /\ ~\E j \in i + 1 .. pos : Frees(j, m, r)

completeReference(e) ==
  LET m == pending[e].matter
      pos == Len(log)
      op == pending[e].op
      ok == /\ pending[e].ver = 2 /\ m \in Matters /\ Live(m)
            /\ targetClaims(e, {m})
            /\ op # "reference.bind" => isActive(m, pending[e].from, pos)
            /\ op # "reference.unbind" => ~isActive(m, pending[e].to, pos)
      event == CASE op = "reference.bind" -> Event(e, "reference.added", m, <<pending[e].to>>)
                 [] op = "reference.unbind" -> Event(e, "reference.removed", m, <<pending[e].from>>)
                 [] op = "reference.rebind" -> Event(e, "reference.rebound", m, <<pending[e].from, pending[e].to>>)
  IN  /\ Op(e) \in {"reference.bind", "reference.unbind", "reference.rebind"}
      /\ \/ ok /\ AcceptAll(e, <<event>>)
         \/ ~ok /\ RefuseAll(e)

referenceEvent(i) ==
  LET v == log[i] IN
  /\ v.k = "reference.added" => ~isActive(v.s, v.p[1], i - 1)
  /\ v.k \in {"reference.removed", "reference.rebound"} => isActive(v.s, v.p[1], i - 1)
  /\ v.k = "reference.rebound" => v.p[1] # v.p[2] /\ ~isActive(v.s, v.p[2], i - 1)

(* step13Aggregate: what the Matters bound to r say together.                *)
Members(r, pos) == {m \in Matters : Birth(m) <= pos /\ LiveAt(m, pos) /\ isActive(m, r, pos)}
step13Aggregate(r, pos) ==
  LET ms == Members(r, pos)
      life == [m \in ms |-> LifeBefore(m, pos + 1)]
      standing == {m \in ms : life[m] # "canceled"}
  IN  IF \A m \in ms : life[m] = "planned" THEN ""
      ELSE IF \E m \in standing : ~step13Sealed(m, pos) THEN "active"
      ELSE IF standing # {} THEN "completed" ELSE "canceled"

(* tracker_push_level in the payload of an event.  Gate and reference commands *)
(* write the level in force; lifecycle commands and repairs write none.       *)
ReferenceKinds == {"reference.added", "reference.removed", "reference.rebound"}
PushLevel(v) == IF v.k \in {"gate.closed", "gate.dismissed"} \cup ReferenceKinds THEN Level ELSE ""
Pushes(v) == PushLevel(v) \notin {"", "off"}

(* The state candidates of event i: the references it tells the tracker of.   *)
step13StateCandidates(i) == {<<r, step13Aggregate(r, i)>> : r \in {x \in Ref : isActive(log[i].s, x, i)}}
step13LifecycleCandidates(i) ==
  IF ~Pushes(log[i]) \/ log[i].s \notin Matters THEN {}
  ELSE CASE log[i].p[1] = "planned" \/ log[i].p[2] = "canceled" -> step13StateCandidates(i)
         [] log[i].p[2] = "done" -> IF step13Sealed(log[i].s, i) THEN step13StateCandidates(i) ELSE {}
         [] OTHER -> {}
MutStep13GateCandidates(i) == {}
step13GateCandidates(i) ==
  IF Pushes(log[i]) /\ log[i].s \in Matters /\ step13Sealed(log[i].s, i) THEN step13StateCandidates(i) ELSE {}
step13ReferenceCandidates(i) ==
  IF ~Pushes(log[i]) THEN {}
  ELSE {<<r, step13Aggregate(r, i)>> : r \in {x \in Range(log[i].p) : Members(x, i) # {}}}
Candidates(i) ==
  {x \in CASE log[i].k = "life" -> step13LifecycleCandidates(i)
           [] log[i].k \in {"gate.closed", "gate.dismissed"} -> step13GateCandidates(i)
           [] log[i].k \in ReferenceKinds -> step13ReferenceCandidates(i)
           [] OTHER -> {} : x[2] # ""}

-----------------------------------------------------------------------------
(* Named batches.  No claim is needed; a dismissed batch keeps its name.     *)
CompleteBatchCreate(e) ==
  LET id == Cardinality(DOMAIN batches) + 1
      taken == \E b \in DOMAIN batches : batches[b].name = pending[e].name
  IN  /\ Op(e) = "batch.create"
      /\ \/ taken /\ RefuseAll(e)
         \/ /\ ~taken
            /\ Finish(e, TRUE, <<Event(e, "batch.created", id, <<pending[e].name>>)>>)
            /\ batches' = (id :> [name |-> pending[e].name, gone |-> FALSE, members |-> {}]) @@ batches
            /\ UNCHANGED <<gateTables, sweeps>>

BatchEvent(e, kind, b, p, row) ==
  /\ Finish(e, TRUE, <<Event(e, kind, b, p)>>)
  /\ batches' = [batches EXCEPT ![b] = row]
  /\ UNCHANGED <<gateTables, sweeps>>

completeNamedBatchMembership(e) ==
  LET b == pending[e].batch
      m == pending[e].matter
      row == batches[b]
      op == pending[e].op
      found == b \in DOMAIN batches /\ ~row.gone /\ (op = "batch.dismiss" \/ m \in Matters)
  IN  /\ Op(e) \in {"batch.join", "batch.leave", "batch.dismiss"}
      /\ \/ ~found /\ RefuseAll(e)
         \/ found /\ op = "batch.leave" /\ m \notin row.members /\ RefuseAll(e)
         \/ found /\ op = "batch.join" /\ m \in row.members /\ AcceptAll(e, <<>>)
         \/ found /\ op = "batch.join" /\ m \notin row.members
              /\ BatchEvent(e, "batch.joined", b, <<m>>, [row EXCEPT !.members = @ \cup {m}])
         \/ found /\ op = "batch.leave" /\ m \in row.members
              /\ BatchEvent(e, "batch.left", b, <<m>>, [row EXCEPT !.members = @ \ {m}])
         \/ found /\ op = "batch.dismiss"
              /\ BatchEvent(e, "batch.dismissed", b, <<>>, [row EXCEPT !.gone = TRUE])

(* checkNamedBatchState and checkNamedBatchMembershipState: the tables are    *)
(* the fold of the events, and no event follows the dismissal of its batch.  *)
NamedBatchEvents == {"batch.joined", "batch.left", "batch.dismissed"}
GoneBefore(b, i) == \E j \in 1 .. i - 1 : log[j].k = "batch.dismissed" /\ log[j].s = b
Joined(b, m, i) ==
  \E j \in 1 .. i - 1 : /\ log[j].k = "batch.joined" /\ log[j].s = b /\ log[j].p[1] = m
                        /\ ~\E h \in j + 1 .. i - 1 : log[h].k = "batch.left" /\ log[h].s = b /\ log[h].p[1] = m
Created(b) == {i \in DOMAIN log : log[i].k = "batch.created" /\ log[i].s = b}

checkNamedBatchState ==
  \A b \in DOMAIN batches :
    /\ Cardinality(Created(b)) = 1
    /\ \A i \in Created(b) : log[i].p[1] = batches[b].name
    /\ \A d \in DOMAIN batches \ {b} : batches[d].name # batches[b].name

checkNamedBatchMembershipState ==
  /\ \A i \in DOMAIN log :
       /\ log[i].k \in NamedBatchEvents => ~GoneBefore(log[i].s, i)
       /\ log[i].k = "batch.joined" => ~Joined(log[i].s, log[i].p[1], i)
       /\ log[i].k = "batch.left" => Joined(log[i].s, log[i].p[1], i)
  /\ \A b \in DOMAIN batches :
       /\ batches[b].gone = GoneBefore(b, Len(log) + 1)
       /\ batches[b].members = {m \in Matters : Joined(b, m, Len(log) + 1)}

-----------------------------------------------------------------------------
(* The sweep of the anonymous batch of Matter m, on the evidence that the     *)
(* Environment released claim c (0: the birth claim) and installed the log    *)
(* up to anchor.  batchSweepResultAt judges it on the first pos events.      *)
ReleasedAt(c, m) ==
  {i \in DOMAIN log : log[i].k = "claim.released" /\ log[i].p = <<c>> /\ (c = 0 => log[i].s = m)}
batchSweepCloseEvidence(id, in, pos) ==
  /\ in.claim > 0 => in.claim \in ClaimsOf(in.matter) /\ claims[in.claim].closed = "release"
  /\ \E i \in ReleasedAt(in.claim, in.matter) :
       i <= pos /\ log[i].c[1] = id[1] /\ log[i].c[2] < id[2] /\ i <= in.anchor
  /\ in.anchor <= pos

OpenClaimAt(m, pos) ==
  \E i \in 1 .. pos : /\ log[i].k = "claim.acquired" /\ log[i].p[1] = m
                      /\ ~\E j \in i + 1 .. pos : Closed(j, log[i].s)
OpenBirthAt(m, pos) == ~\E i \in ReleasedAt(0, m) : i <= pos

(* Runs, dispatches and roles of the Matter that are still open at pos.       *)
OpenRunAt(m, pos) ==
  \E i \in 1 .. pos : /\ log[i].k = "run.started" /\ log[i].p[1] = m
                      /\ ~\E j \in i + 1 .. pos : log[j].k = "run.finished" /\ log[j].s = log[i].s
OpenRoleAt(m, pos) == \E i \in ActiveRolesAt(pos) : claims[log[i].p[2]].matter = m
batchSweepOpenBrackets(m, pos) == OpenRunAt(m, pos) \/ OpenClaimAt(m, pos) \/ OpenRoleAt(m, pos)

SweptBefore(m, pos) == \E i \in 1 .. pos : log[i].k = "batch.swept" /\ log[i].s = m
BatchAt(m, pos) == \E i \in 1 .. pos : log[i].k = "batch.anonymous-created" /\ log[i].s = m

batchSweepResultAt(id, in, pos) ==
  LET m == in.matter IN
  IF m \notin Matters \/ ~BatchAt(m, pos) THEN "target-missing"
  ELSE IF ~batchSweepCloseEvidence(id, in, pos) THEN "claim-close"
  ELSE IF OpenClaimAt(m, pos) \/ OpenBirthAt(m, pos) \/ ~step13Sealed(m, pos) THEN "not-eligible"
  ELSE IF batchSweepOpenBrackets(m, pos) THEN "unsupported"
  ELSE IF SweptBefore(m, pos) THEN "already-swept" ELSE "swept"

(* Submission, boundary, event and receipt are one transaction.              *)
sweepAnonymousBatch(e, m, c, anchor) ==
  LET id == Cid(e)
      in == [matter |-> m, claim |-> c, anchor |-> anchor]
      pos == Len(log)
      code == batchSweepResultAt(id, in, pos)
      events == IF code = "swept" THEN <<Event(e, "batch.swept", m, <<>>)>> ELSE <<>>
  IN  /\ pending[e] = NoCmd /\ id[2] <= MaxSeq
      /\ Finish(e, code \in {"swept", "already-swept"}, events)
      /\ sweeps' = (id :> [in |-> in, pos |-> pos, code |-> code]) @@ sweeps
      /\ UNCHANGED <<gateTables, batches>>

(* checkBatchSweepTerminal judges every sweep again at its own boundary.     *)
checkBatchSweepTerminal(id) ==
  LET s == sweeps[id]
      own == {i \in DOMAIN log : log[i].c = id}
  IN  /\ ~\E i \in 1 .. s.pos : log[i].c[1] = id[1] /\ log[i].c[2] >= id[2]
      /\ batchSweepResultAt(id, s.in, s.pos) = s.code
      /\ own = IF s.code = "swept" THEN {s.pos + 1} ELSE {}

checkSweeps == \A id \in DOMAIN sweeps : checkBatchSweepTerminal(id)

CompleteRelation(e) ==
  \/ completeDependency(e)
  \/ completeReference(e)
  \/ CompleteBatchCreate(e)
  \/ completeNamedBatchMembership(e)

checkRelations ==
  /\ checkDependencyState
  /\ \A i \in DOMAIN log : referenceEvent(i)
  /\ checkNamedBatchState
  /\ checkNamedBatchMembershipState
  /\ checkSweeps

-----------------------------------------------------------------------------
(* Where what the Matters bound to r say together changes, and where it       *)
(* changes by an event that carries no push level.                           *)
Changes(r) == {i \in DOMAIN log : step13Aggregate(r, i) # step13Aggregate(r, i - 1)}
Untold(r) == {i \in Changes(r) : log[i].k \in {"life", "gate.exemption-repaired"}}
Told(r) == {i \in DOMAIN log : \E x \in Candidates(i) : x[1] = r}

(* Lifecycle commands and repairs tell the tracker nothing.  Since the last   *)
(* of them that changed what the Matters bound to a reference say together,   *)
(* every change was told, whichever of several Matters it came from: a bind,  *)
(* an unbind, a rebind or the gate that seals a finished Matter; and what the *)
(* tracker was told last is how they stand now (step13GateCandidates, the     *)
(* reference cases of deriveStep13Projection).                               *)
TrackerFollows ==
  \A r \in Ref :
    LET now == step13Aggregate(r, Len(log))
        since(S) == {i \in S : \A j \in Untold(r) : j < i}
    IN  Level # "off" /\ now # "" /\ Members(r, Len(log)) # {} /\ since(Changes(r)) # {} =>
          since(Told(r)) # {} /\ <<r, now>> \in Candidates(Max(since(Told(r))))

(* A Matter whose batch was swept stays sealed: a gate declared afterwards    *)
(* exempts it.                                                               *)
SweptStaysSealed ==
  \A m \in Matters : SweptBefore(m, Len(log)) => step13Sealed(m, Len(log))
=============================================================================
