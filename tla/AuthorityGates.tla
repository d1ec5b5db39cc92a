--------------------------- MODULE AuthorityGates ---------------------------
(***************************************************************************)
(* Gates on the authority's side: gate.declare, gate.close, gate.dismiss    *)
(* and the owner-attested gate.exemption-repair, over the claims and the    *)
(* tree of Work.  Declarations and gate states are rebuilt from the log in  *)
(* the transaction that appends a gate, lifecycle or reference event        *)
(* (step13ProjectionTx), so they are operators over the log here.           *)
(* Log: gate.declared s = 0, p = <<gate, scale, exempt nodes>>;             *)
(*      gate.closed, gate.dismissed s = node, p = <<gate, actor>>;          *)
(*      gate.exemption-repaired s = node, p = <<gate>>.                     *)
(***************************************************************************)
EXTENDS WorkCheck

CONSTANT NoRun
VARIABLE repairs   \* admissions and terminals of exemption repairs: command id -> record

gateTables == <<tables, repairs>>

Scales == {"step", "stage", "matter"}
GateOrder == [verified |-> 0, reviewed |-> 2]        \* of the ordered gates, the two used here
ScaleRank == [step |-> 0, stage |-> 1, matter |-> 2]
GateOwner == [verified |-> "role:verifier", reviewed |-> "role:warden"]
Unowned(g) == g \notin DOMAIN GateOwner

-----------------------------------------------------------------------------
(* The projection after the first pos events.                               *)
Declarations(pos) == {i \in 1 .. pos : log[i].k = "gate.declared"}
Declared(g, scale, pos) == \E i \in Declarations(pos) : log[i].p[1] = g /\ log[i].p[2] = scale
Named(g, pos) == \E i \in Declarations(pos) : log[i].p[1] = g

GateEvents == {"gate.closed", "gate.dismissed", "gate.exemption-repaired"}
Exempted(n, g, pos) ==
  \E i \in 1 .. pos : \/ log[i].k = "gate.declared" /\ log[i].p[1] = g /\ n \in log[i].p[3]
                      \/ log[i].k = "gate.exemption-repaired" /\ log[i].s = n /\ log[i].p[1] = g
Satisfied(n, g, pos) ==
  Exempted(n, g, pos) \/ \E i \in 1 .. pos : log[i].k \in GateEvents /\ log[i].s = n /\ log[i].p[1] = g

LiveAt(n, pos) == nodes[n].dead = 0 \/ nodes[n].dead > pos
Bound(n, pos) == {log[i].p[1] : i \in {j \in Declarations(pos) : log[j].p[2] = nodes[n].kind}}

(* Every gate on the node and above it is satisfied, but for the pairs in     *)
(* except.                                                                   *)
GatesMet(n, pos, except) ==
  \A i \in DOMAIN Path(n) :
    LET a == Path(n)[i] IN
    LiveAt(a, pos) /\ \A g \in Bound(a, pos) : <<a, g>> \in except \/ Satisfied(a, g, pos)

step13Sealed(n, pos) == LifeBefore(n, pos + 1) = "done" /\ GatesMet(n, pos, {})

MutSealedNodesAtScale(scale) == {}
sealedNodesAtScale(scale) ==
  {n \in DOMAIN nodes : nodes[n].kind = scale /\ Live(n) /\ step13Sealed(n, Len(log))}

-----------------------------------------------------------------------------
(* validateGateClaimTx: the claim and its journal are open, and the Matter   *)
(* may already be done.                                                      *)
GateClaim(e, c) ==
  /\ JournalOpen(e, c)
  /\ Live(claims[c].matter)
  /\ LifeState(claims[c].matter) \in {"planned", "in-progress", "done"}

(* Journaled submission of a gate command.                                   *)
submitGateCommand(e, cmd) ==
  /\ GateClaim(e, cmd.claim)
  /\ Submit(e, cmd)
  /\ Appendable(e, cmd.claim) /\ AppendClaimJournalEntry(e, cmd.claim)
  /\ UNCHANGED <<nodes, treeVars, repairs>>

RefuseGate(e) == Refuse(e) /\ UNCHANGED repairs
AcceptGate(e, events) == Finish(e, TRUE, events) /\ UNCHANGED gateTables

gateOrderConflict(g, scale) ==
  /\ g \in DOMAIN GateOrder
  /\ \E i \in Declarations(Len(log)) :
       LET h == log[i].p[1] IN
       /\ h \in DOMAIN GateOrder
       /\ \/ GateOrder[h] < GateOrder[g] /\ ScaleRank[log[i].p[2]] > ScaleRank[scale]
          \/ GateOrder[h] > GateOrder[g] /\ ScaleRank[scale] > ScaleRank[log[i].p[2]]

(* A declaration exempts the nodes that are sealed when it is made.          *)
CompleteGateDeclare(e) ==
  LET g == pending[e].gate
      scale == pending[e].scale
      fenced == ~GateClaim(e, pending[e].claim) \/ pending[e].actor # "human"
      same == Declared(g, scale, Len(log))
      clash == (Named(g, Len(log)) /\ ~same) \/ (~same /\ gateOrderConflict(g, scale))
  IN  /\ Op(e) = "gate.declare"
      /\ \/ (fenced \/ clash) /\ RefuseGate(e)
         \/ ~fenced /\ same /\ AcceptGate(e, <<>>)
         \/ /\ ~fenced /\ ~clash /\ ~same
            /\ AcceptGate(e, <<Event(e, "gate.declared", 0, <<g, scale, sealedNodesAtScale(scale)>>)>>)

(* gateSubjectTx.                                                            *)
gateSubject(c, g, n) == Live(n) /\ Declared(g, nodes[n].kind, Len(log)) /\ claims[c].matter = nodes[n].matter

(* The roles of a claim that have been spawned and not closed.  Log:         *)
(* role.spawned s = role id, p = <<name, claim, run>>; role.closed s = id.   *)
ActiveRolesAt(pos) ==
  {i \in 1 .. pos : log[i].k = "role.spawned"
                      /\ ~\E j \in i + 1 .. pos : log[j].k = "role.closed" /\ log[j].s = log[i].s}
activeRoleForGate(e) ==
  \E i \in ActiveRolesAt(Len(log)) :
    log[i].p[1] = pending[e].actor /\ log[i].p[2] = pending[e].claim /\ log[i].p[3] = pending[e].run

MutAuthorizeGateActor(actor, g, dismissal) == TRUE
authorizeGateActor(actor, g, dismissal) ==
  IF actor = "human" THEN dismissal \/ Unowned(g) ELSE ~Unowned(g) /\ actor = GateOwner[g]
authorizeGateCommandActor(e, dismissal) ==
  /\ authorizeGateActor(pending[e].actor, pending[e].gate, dismissal)
  /\ pending[e].actor # "human" => activeRoleForGate(e)

(* validateStep10VerifiedGateTx: the close names a Verifier result on this    *)
(* Matter, a pass retained under the same claim by the role still active.    *)
(* Log: scheduler.hook-completed s = node, p = <<role id, result, claim>>.   *)
verifiedGateEvidence(e, n) ==
  \E i \in DOMAIN log :
    /\ log[i].k = "scheduler.hook-completed" /\ log[i].c = pending[e].cause
    /\ log[i].p[2] = "verified" /\ log[i].p[3] = pending[e].claim
    /\ log[i].s = n /\ nodes[n].kind = "matter"
    /\ \E j \in ActiveRolesAt(Len(log)) : log[j].s = log[i].p[1] /\ log[j].p[1] = "role:verifier"

CompleteGateClose(e) ==
  LET n == pending[e].node
      g == pending[e].gate
      ok == /\ GateClaim(e, pending[e].claim)
            /\ gateSubject(pending[e].claim, g, n)
            /\ authorizeGateCommandActor(e, FALSE)
            /\ g = "verified" /\ pending[e].actor = "role:verifier" => verifiedGateEvidence(e, n)
            /\ ~Satisfied(n, g, Len(log))
  IN  /\ Op(e) = "gate.close"
      /\ \/ ok /\ AcceptGate(e, <<Event(e, "gate.closed", n, <<g, pending[e].actor>>)>>)
         \/ ~ok /\ RefuseGate(e)

CompleteGateDismiss(e) ==
  LET n == pending[e].node
      g == pending[e].gate
      ok == /\ GateClaim(e, pending[e].claim)
            /\ gateSubject(pending[e].claim, g, n)
            /\ authorizeGateCommandActor(e, TRUE)
            /\ LifeState(n) = "done"
            /\ ~Satisfied(n, g, Len(log))
  IN  /\ Op(e) = "gate.dismiss"
      /\ \/ ok /\ AcceptGate(e, <<Event(e, "gate.dismissed", n, <<g, pending[e].actor>>)>>)
         \/ ~ok /\ RefuseGate(e)

-----------------------------------------------------------------------------
(* gate.exemption-repair.  A declaration written by an older version may lack *)
(* an exemption; the owner attests it, bound to the command and to the        *)
(* position of the declaration (the boundary).                               *)
NoTerminal == [code |-> "pending", obs |-> 0, fence |-> "", gen |-> 0, journal |-> ""]

(* verifyGateExemptionRepairBoundary, as the admission asks for it.          *)
RepairBoundary(c, n, g, bound) ==
  /\ gateSubject(c, g, n)
  /\ bound \in Declarations(Len(log)) /\ log[bound].p[1] = g /\ log[bound].p[2] = nodes[n].kind
  /\ nodes[n].birth < bound /\ LiveAt(n, bound) /\ n \notin log[bound].p[3]
  /\ Satisfied(n, g, Len(log)) => Exempted(n, g, Len(log))

(* The admission reserves the next sequence number and the nonce, and enters *)
(* the claim journal; expiry after it does not revoke it.                    *)
admitGateRepair(e, c, n, g, bound, nonce) ==
  /\ GateClaim(e, c)
  /\ RepairBoundary(c, n, g, bound)
  /\ \A r \in DOMAIN repairs : repairs[r].nonce # nonce
  /\ Submit(e, [op |-> "gate.exemption-repair", claim |-> c])
  /\ Appendable(e, c) /\ AppendClaimJournalEntry(e, c)
  /\ repairs' = (Cid(e) :> ([claim |-> c, node |-> n, gate |-> g, bound |-> bound, nonce |-> nonce]
                            @@ NoTerminal)) @@ repairs
  /\ UNCHANGED <<nodes, treeVars>>

(* captureGateRepairFence: why the claim no longer carries the repair.       *)
ClosedBy(c, pos) == \E i \in 1 .. pos : log[i].k \in {"claim.released", "claim.stood-down"} /\ log[i].s = c
RepairFence(e, c) ==
  IF ClosedBy(c, Len(log)) THEN "claim-closed"
  ELSE IF Gen(c).state # "open" THEN "journal-state"
  ELSE IF GateClaim(e, c) THEN "clear" ELSE "matter-state"

(* assessGateExemptionRepair on the log up to pos: "" or the refusal.        *)
assessGateExemptionRepair(n, g, pos, allowExempt) ==
  CASE ~LiveAt(n, pos) -> "gate-repair-subject"
    [] LiveAt(n, pos) /\ ~Declared(g, nodes[n].kind, pos) -> "gate-repair-scale"
    [] LiveAt(n, pos) /\ Declared(g, nodes[n].kind, pos) ->
         IF LifeBefore(n, pos + 1) # "done" THEN "gate-repair-lifecycle"
         ELSE IF allowExempt /\ Exempted(n, g, pos) THEN ""
         ELSE IF Satisfied(n, g, pos) THEN "gate-already-satisfied"
         ELSE IF GatesMet(n, pos, {<<n, g>>}) THEN "" ELSE "gate-repair-prerequisite"

RepairRefusal(r, pos) ==
  LET now == assessGateExemptionRepair(r.node, r.gate, pos, TRUE)
  IN  IF now # "" \/ Exempted(r.node, r.gate, pos) THEN now
      ELSE assessGateExemptionRepair(r.node, r.gate, r.bound, FALSE)

completeGateRepair(e) ==
  LET id == Cid(e)
      r == repairs[id]
      fence == RepairFence(e, r.claim)
      pos == Len(log)
      refusal == IF fence # "clear" THEN "claim-fenced" ELSE RepairRefusal(r, pos)
      appends == refusal = "" /\ ~Exempted(r.node, r.gate, pos)
  IN  /\ Op(e) = "gate.exemption-repair"
      /\ Finish(e, refusal = "", IF appends THEN <<Event(e, "gate.exemption-repaired", r.node, <<r.gate>>)>> ELSE <<>>)
      /\ repairs' = [repairs EXCEPT ![id].code = IF refusal = "" THEN "ok" ELSE refusal, ![id].obs = pos,
                                    ![id].fence = fence, ![id].gen = Len(journals[r.claim]),
                                    ![id].journal = Gen(r.claim).state]
      /\ UNCHANGED tables

CompleteGate(e) ==
  \/ CompleteGateDeclare(e)
  \/ CompleteGateClose(e)
  \/ CompleteGateDismiss(e)
  \/ completeGateRepair(e)

-----------------------------------------------------------------------------
(* deriveStep13Projection fails on an event that could not follow the events *)
(* before it.                                                                *)
step13Event(i) ==
  LET v == log[i]
      there == v.s \in DOMAIN nodes /\ nodes[v.s].birth < i /\ LiveAt(v.s, i)
      open(g) == there /\ Declared(g, nodes[v.s].kind, i - 1) /\ ~Satisfied(v.s, g, i - 1)
  IN  CASE v.k = "life" -> there /\ LifeBefore(v.s, i) = v.p[1]
        [] v.k = "gate.declared" ->
             /\ ~Named(v.p[1], i - 1)
             /\ \A n \in v.p[3] : nodes[n].kind = v.p[2] /\ nodes[n].birth < i /\ LiveAt(n, i)
        [] v.k \in {"gate.closed", "gate.exemption-repaired"} -> open(v.p[1])
        [] v.k = "gate.dismissed" -> open(v.p[1]) /\ LifeBefore(v.s, i) = "done"
        [] OTHER -> TRUE

gateEventActorAllowed(actor, g, dismissal) == actor = "human" /\ (dismissal \/ Unowned(g))

validateGateCommandEffects(i) ==
  log[i].k \in {"gate.closed", "gate.dismissed"} =>
    gateEventActorAllowed(log[i].p[2], log[i].p[1], log[i].k = "gate.dismissed")

checkStep13State == \A i \in DOMAIN log : step13Event(i)
checkStep13GateCommands == \A i \in DOMAIN log : validateGateCommandEffects(i)

-----------------------------------------------------------------------------
(* checkStep14State: a repair that is only admitted still owns the next       *)
(* sequence number of its Environment.                                       *)
checkStep14State ==
  \A id \in DOMAIN repairs : repairs[id].code = "pending" => pending[id[1]] # NoCmd /\ Cid(id[1]) = id

(* validateGateRepairBoundaryWitness, for the fences one epoch can have.      *)
journalStateCanFollow(was, is) == was = is \/ (was = "open" /\ is \in {"sealed", "quarantined"})
                                           \/ (was = "sealed" /\ is = "quarantined")
validateGateRepairBoundaryWitness(id) ==
  LET r == repairs[id]
      m == claims[r.claim].matter
      state == LifeBefore(m, r.obs + 1)
  IN  /\ r.obs \in 1 .. Len(log)
      /\ (r.code = "claim-fenced") = (r.fence # "clear")
      /\ journalStateCanFollow(r.journal, journals[r.claim][r.gen].state)
      /\ CASE r.fence = "clear" -> claims[r.claim].owner = id[1] /\ r.journal = "open" /\ ~ClosedBy(r.claim, r.obs)
           [] r.fence = "claim-closed" -> ClosedBy(r.claim, r.obs)
           [] r.fence = "journal-state" -> ~ClosedBy(r.claim, r.obs) /\ r.journal # "open"
           [] r.fence = "matter-state" ->
                /\ ~ClosedBy(r.claim, r.obs) /\ r.journal = "open" /\ claims[r.claim].owner = id[1]
                /\ ~(LiveAt(m, r.obs) /\ state \in {"planned", "in-progress", "done"})

validateGateExemptionRepairTerminal(id) ==
  LET r == repairs[id]
      own == {i \in DOMAIN log : log[i].c = id}
  IN  /\ validateGateRepairBoundaryWitness(id)
      /\ receipts[id].ok = (r.code = "ok")
      /\ CASE r.code = "claim-fenced" -> own = {}
           [] r.code = "ok" /\ own = {} -> Exempted(r.node, r.gate, r.obs)
           [] r.code = "ok" /\ own # {} ->
                /\ own = {r.obs + 1} /\ log[r.obs + 1].k = "gate.exemption-repaired"
                /\ assessGateExemptionRepair(r.node, r.gate, r.obs, FALSE) = ""
                /\ assessGateExemptionRepair(r.node, r.gate, r.bound, FALSE) = ""
           [] OTHER -> own = {} /\ RepairRefusal(r, r.obs) = r.code

checkStep15State ==
  \A id \in DOMAIN repairs : repairs[id].code # "pending" => validateGateExemptionRepairTerminal(id)

checkGates == checkStep13State /\ checkStep13GateCommands /\ checkStep14State /\ checkStep15State
=============================================================================
