------------------------------- MODULE Gates -------------------------------
(***************************************************************************)
(* Lifecycle, gates, sealing and the anonymous Batch of a Matter: the      *)
(* `nodes`, `gate_declarations`, `gate_state`, `gate_exemptions` and       *)
(* `batches` projections of one Repo, and the verbs that write them.       *)
(*                                                                         *)
(* Store.Commit runs every decide function and its fold in one             *)
(* transaction, so a commit is one action.  Several processes (a person's  *)
(* shell, agents, a scheduler pass) share the database, and four verbs     *)
(* check their preconditions BEFORE the transaction and do not check all   *)
(* of them again inside it: gate close, exemption repair, gate declare and *)
(* the scheduler's finish.  Each of these is two actions, a request that   *)
(* passed its checks and the commit; `inflight` holds the requests between *)
(* the two.  A verb whose checks are all repeated inside the transaction   *)
(* is one action with those checks as its guard.                           *)
(***************************************************************************)
EXTENDS Naturals, FiniteSets

CONSTANTS
  Node,         \* every Matter, Stage and Step that may ever be born
  Gate,         \* gate names
  Actor,        \* the human and the roles
  Human,        \* the human actor
  NoNode,       \* the parent of a Matter
  Kind,         \* Node -> Scales
  Parent,       \* Node -> Node or NoNode
  GateOwner,    \* who closes a gate: its owning role, else the human
  GateRank,     \* position of the ordered gates in verify..ci-green
  MaxInFlight   \* bound: requests between their checks and their commit

Scales == {"matter", "stage", "step"}
Undeclared == "undeclared"
Lifecycles == {"planned", "in_progress", "paused", "done", "canceled"}
Unborn == "unborn"

Matters == {n \in Node : Kind[n] = "matter"}

\* Max depth Matter -> Stage -> Step (nodes_depth, D20).
ASSUME TreeAssumption ==
  /\ NoNode \notin Node
  /\ Kind \in [Node -> Scales]
  /\ Parent \in [Node -> Node \cup {NoNode}]
  /\ \A n \in Node :
       /\ Kind[n] = "matter" => Parent[n] = NoNode
       /\ Kind[n] = "stage" => Parent[n] \in Node /\ Kind[Parent[n]] = "matter"
       /\ Kind[n] = "step" => Parent[n] \in Node /\ Kind[Parent[n]] # "step"

ASSUME GateAssumption ==
  /\ Human \in Actor
  /\ GateOwner \in [Gate -> Actor]
  /\ DOMAIN GateRank \subseteq Gate
  /\ \A g \in DOMAIN GateRank : GateRank[g] \in Nat
  /\ MaxInFlight \in Nat

VARIABLES
  lifecycle,   \* nodes.lifecycle, Unborn before the birth event
  removed,     \* nodes whose tombstone_event is set
  declared,    \* gate_declarations: the scale a gate binds to
  gateState,   \* gate_state joined with its event: open, closed, dismissed
  exempt,      \* gate_exemptions
  batch,       \* the anonymous Batch of a Matter: none, live, swept
  inflight     \* requests past their checks, before their transaction

vars == <<lifecycle, removed, declared, gateState, exempt, batch, inflight>>

Born(n) == lifecycle[n] # Unborn
Live(n) == Born(n) /\ n \notin removed

----------------------------------------------------------------------------
(* Reads: gate requirements and completion (store/gates.go). *)

ParentsOf(S) == {Parent[n] : n \in S} \ {NoNode}

\* The node and its enclosing nodes.
Chain(n) == {n} \cup ParentsOf({n}) \cup ParentsOf(ParentsOf({n}))

\* Every declaration that applies to n: its own and its enclosing ones.
EffectiveGateRequirements(n) ==
  {r \in Chain(n) \X Gate : declared[r[2]] = Kind[r[1]]}

GateSatisfied(r) == gateState[r] \in {"closed", "dismissed"} \/ r \in exempt

\* Completion against committed state plus a prospective finish or gate close.
SealedWithOverlay(n, finishing, closing) ==
  /\ lifecycle[n] = "done" \/ finishing
  /\ \A r \in EffectiveGateRequirements(n) : GateSatisfied(r) \/ r \in closing

Sealed(n) == SealedWithOverlay(n, FALSE, {})

\* The live Done nodes a new declaration at this scale exempts.
MutSealedNodesAtScale(scale) ==
  {n \in Node : Kind[n] = scale /\ Live(n) /\ Sealed(n) /\ Kind[n] # "matter"}
SealedNodesAtScale(scale) ==
  {n \in Node : Kind[n] = scale /\ Live(n) /\ Sealed(n)}

\* Declaring g at scale puts an earlier gate at a coarser scale than a later.
ScaleRank == [s \in Scales |-> CASE s = "step" -> 0 [] s = "stage" -> 1
                                 [] s = "matter" -> 2]
WouldViolate(g, scale) ==
  \E h \in DOMAIN GateRank \ {g} :
    /\ g \in DOMAIN GateRank
    /\ declared[h] # Undeclared
    /\ \/ GateRank[g] < GateRank[h] /\ ScaleRank[scale] > ScaleRank[declared[h]]
       \/ GateRank[h] < GateRank[g] /\ ScaleRank[declared[h]] > ScaleRank[scale]

----------------------------------------------------------------------------
Requests ==
  [op : {"close", "repair"}, node : Node, gate : Gate]
    \cup [op : {"declare"}, gate : Gate, scale : Scales]
    \cup [op : {"finish"}, node : Node]

TypeOK ==
  /\ lifecycle \in [Node -> Lifecycles \cup {Unborn}]
  /\ removed \in SUBSET Node
  /\ declared \in [Gate -> Scales \cup {Undeclared}]
  /\ gateState \in [Node \X Gate -> {"open", "closed", "dismissed"}]
  /\ exempt \in SUBSET (Node \X Gate)
  /\ batch \in [Matters -> {"none", "live", "swept"}]
  /\ inflight \in SUBSET Requests

Init ==
  /\ lifecycle = [n \in Node |-> Unborn]
  /\ removed = {}
  /\ declared = [g \in Gate |-> Undeclared]
  /\ gateState = [r \in Node \X Gate |-> "open"]
  /\ exempt = {}
  /\ batch = [m \in Matters |-> "none"]
  /\ inflight = {}

----------------------------------------------------------------------------
(* The folds: what applyEvent does with one event, refusal included. *)

InsertNode(n) ==
  /\ ~Born(n)
  /\ Parent[n] # NoNode => Live(Parent[n])
  /\ lifecycle' = [lifecycle EXCEPT ![n] = "planned"]

TombstoneNode(n) == Live(n) /\ removed' = removed \cup {n}

ApplyTransition(n, from, to) ==
  /\ Live(n) /\ lifecycle[n] = from
  /\ lifecycle' = [lifecycle EXCEPT ![n] = to]

\* gate_state is keyed by (node, gate): a second row is refused.
FoldGateClosed(n, g) ==
  /\ gateState[<<n, g>>] = "open"
  /\ gateState' = [gateState EXCEPT ![<<n, g>>] = "closed"]

DismissalActorAllowed(actor, g) == actor \in {Human, GateOwner[g]}

FoldGateDismissed(n, g, actor) ==
  /\ DismissalActorAllowed(actor, g)
  /\ Live(n) /\ lifecycle[n] = "done"
  /\ declared[g] = Kind[n]
  /\ ~GateSatisfied(<<n, g>>)
  /\ gateState' = [gateState EXCEPT ![<<n, g>>] = "dismissed"]

RequireExemptNode(n, scale) == Live(n) /\ Kind[n] = scale

\* A second declaration of a gate is refused at any scale.
FoldGateDeclared(g, scale, snapshot) ==
  /\ declared[g] = Undeclared
  /\ \A n \in snapshot : RequireExemptNode(n, scale)
  /\ declared' = [declared EXCEPT ![g] = scale]
  /\ exempt' = exempt \cup (snapshot \X {g})

\* Idempotent: a repeated repair lands on the row that is there.
MutFoldExemptionRepaired(n, g) ==
  exempt' = exempt \cup (({n} \cup {c \in Node : Parent[c] = n}) \X {g})
FoldExemptionRepaired(n, g) ==
  /\ declared[g] # Undeclared
  /\ RequireExemptNode(n, declared[g])
  /\ exempt' = exempt \cup {<<n, g>>}

\* A live anonymous Batch is swept by the event that seals its Matter.
MutSealSweep(n, becameSealed) ==
  batch' = IF n \in Matters /\ batch[n] = "live"
           THEN [batch EXCEPT ![n] = "swept"] ELSE batch
SealSweep(n, becameSealed) ==
  batch' = IF becameSealed /\ n \in Matters /\ batch[n] = "live"
           THEN [batch EXCEPT ![n] = "swept"] ELSE batch

----------------------------------------------------------------------------
(* Births and amendments. *)

CreateNode(n) ==
  /\ InsertNode(n)
  /\ UNCHANGED <<removed, declared, gateState, exempt, batch, inflight>>

RemoveStep(n) ==
  /\ Kind[n] = "step"
  /\ TombstoneNode(n)
  /\ UNCHANGED <<lifecycle, declared, gateState, exempt, batch, inflight>>

ReplaceStep(n, replacement) ==
  /\ Kind[n] = "step" /\ Kind[replacement] = "step"
  /\ Parent[replacement] = Parent[n]
  /\ TombstoneNode(n)
  /\ InsertNode(replacement)
  /\ UNCHANGED <<declared, gateState, exempt, batch, inflight>>

----------------------------------------------------------------------------
(* Lifecycle verbs. *)

\* Start the node and every Planned enclosing node in one commit (D57).
MutStart(n) ==
  /\ ApplyTransition(n, "planned", "in_progress")
  /\ UNCHANGED <<removed, declared, gateState, exempt, batch, inflight>>
Start(n) ==
  /\ Live(n) /\ lifecycle[n] = "planned"
  /\ lifecycle' = [a \in Node |->
       IF a \in Chain(n) /\ lifecycle[a] = "planned"
       THEN "in_progress" ELSE lifecycle[a]]
  /\ UNCHANGED <<removed, declared, gateState, exempt, batch, inflight>>

SimpleTransition(n, from, to) ==
  /\ ApplyTransition(n, from, to)
  /\ SealSweep(n, to = "done" /\ SealedWithOverlay(n, TRUE, {}))
  /\ UNCHANGED <<removed, declared, gateState, exempt, inflight>>

Finish(n) == SimpleTransition(n, "in_progress", "done")
Cancel(n) == SimpleTransition(n, "in_progress", "canceled")
Pause(n)  == SimpleTransition(n, "in_progress", "paused")
Resume(n) == SimpleTransition(n, "paused", "in_progress")

----------------------------------------------------------------------------
(* Requests that checked before their transaction. *)

Submit(req) ==
  /\ Cardinality(inflight) < MaxInFlight
  /\ inflight' = inflight \cup {req}
  /\ UNCHANGED <<lifecycle, removed, declared, gateState, exempt, batch>>

\* The commit is refused, or the process dies before it.
Abandon(req) ==
  /\ inflight' = inflight \ {req}
  /\ UNCHANGED <<lifecycle, removed, declared, gateState, exempt, batch>>

LiveChildren(n) == {c \in Node : Parent[c] = n /\ Live(c)}

\* The scheduler finishes a node it worked, or a grouping whose interior is
\* over; it reads both outside the commit, and its commit sweeps nothing.
RequestFinish(n) ==
  /\ Live(n) /\ lifecycle[n] = "in_progress"
  /\ \A c \in LiveChildren(n) : lifecycle[c] \in {"done", "canceled"}
  /\ Submit([op |-> "finish", node |-> n])

CommitFinish(req) ==
  /\ req.op = "finish"
  /\ ApplyTransition(req.node, "in_progress", "done")
  /\ inflight' = inflight \ {req}
  /\ UNCHANGED <<removed, declared, gateState, exempt, batch>>

RequestDeclare(g, scale) ==
  /\ declared[g] = Undeclared
  /\ ~WouldViolate(g, scale)
  /\ Submit([op |-> "declare", gate |-> g, scale |-> scale])

\* The exemption snapshot is read inside the transaction; the order is not.
CommitDeclare(req) ==
  /\ req.op = "declare"
  /\ FoldGateDeclared(req.gate, req.scale, SealedNodesAtScale(req.scale))
  /\ inflight' = inflight \ {req}
  /\ UNCHANGED <<lifecycle, removed, gateState, batch>>

RequestClose(n, g, actor) ==
  /\ Live(n) /\ declared[g] = Kind[n]
  /\ ~GateSatisfied(<<n, g>>)
  /\ actor = GateOwner[g]
  /\ Submit([op |-> "close", node |-> n, gate |-> g])

BecomesSealed(n, g) == ~Sealed(n) /\ SealedWithOverlay(n, FALSE, {<<n, g>>})

\* The node, the declaration and the scale are read again; an exemption that
\* came between is not looked for.
CommitClose(req) ==
  /\ req.op = "close"
  /\ Live(req.node) /\ declared[req.gate] = Kind[req.node]
  /\ FoldGateClosed(req.node, req.gate)
  /\ SealSweep(req.node, BecomesSealed(req.node, req.gate))
  /\ inflight' = inflight \ {req}
  /\ UNCHANGED <<lifecycle, removed, declared, exempt>>

RequestRepair(n, g) ==
  /\ Live(n) /\ lifecycle[n] = "done"
  /\ declared[g] = Kind[n]
  /\ ~GateSatisfied(<<n, g>>)
  /\ \A r \in EffectiveGateRequirements(n) \ {<<n, g>>} : GateSatisfied(r)
  /\ Submit([op |-> "repair", node |-> n, gate |-> g])

\* Nothing is swept, although the repair may seal a Matter.
CommitRepair(req) ==
  /\ req.op = "repair"
  /\ FoldExemptionRepaired(req.node, req.gate)
  /\ inflight' = inflight \ {req}
  /\ UNCHANGED <<lifecycle, removed, declared, gateState, batch>>

----------------------------------------------------------------------------
(* Dismissal reads everything again in its transaction. *)

DismissGate(n, g, actor) ==
  /\ FoldGateDismissed(n, g, actor)
  /\ SealSweep(n, BecomesSealed(n, g))
  /\ UNCHANGED <<lifecycle, removed, declared, exempt, inflight>>

\* One anonymous Batch per Matter, ever; whether the Matter is sealed is not
\* asked.
CreateAnonymousBatch(m) ==
  /\ Live(m) /\ batch[m] = "none"
  /\ batch' = [batch EXCEPT ![m] = "live"]
  /\ UNCHANGED <<lifecycle, removed, declared, gateState, exempt, inflight>>

Next ==
  \/ \E n \in Node : CreateNode(n) \/ RemoveStep(n)
  \/ \E n, r \in Node : ReplaceStep(n, r)
  \/ \E n \in Node : Start(n) \/ Finish(n) \/ Cancel(n) \/ Pause(n) \/ Resume(n)
  \/ \E n \in Node : RequestFinish(n)
  \/ \E g \in Gate, s \in Scales : RequestDeclare(g, s)
  \/ \E n \in Node, g \in Gate, a \in Actor :
       RequestClose(n, g, a) \/ DismissGate(n, g, a)
  \/ \E n \in Node, g \in Gate : RequestRepair(n, g)
  \/ \E req \in inflight :
       \/ CommitFinish(req) \/ CommitDeclare(req)
       \/ CommitClose(req) \/ CommitRepair(req) \/ Abandon(req)
  \/ \E m \in Matters : CreateAnonymousBatch(m)

Spec == Init /\ [][Next]_vars
----------------------------------------------------------------------------
(* What the code promises. *)

\* A Matter that is sealed is sealed for good: no verb reopens Done work, and a
\* gate declared later exempts it in the same transaction (DeclareGate,
\* "Sealed Matters remain untouched").
SealedMatterStaysSealed ==
  [][\A m \in Matters : Sealed(m) => Sealed(m)']_vars

\* A Batch is swept by the very commit that seals its Matter: never by a finish
\* or a close that leaves a gate open, never after the fact (sealSweepDraft).
SweepOnlyAtSeal ==
  [][\A m \in Matters :
       batch[m] # "swept" /\ batch'[m] = "swept" => ~Sealed(m) /\ Sealed(m)']_vars

\* What closed with a Batch stays closed: the Matter of a swept Batch is sealed,
\* whatever was declared since.
SweptMatterIsSealed == \A m \in Matters : batch[m] = "swept" => Sealed(m)

\* Gate evidence of any form sits on a node of the scale its gate is declared
\* at, although closes and repairs checked that before their transaction.
EvidenceAtDeclaredScale ==
  \A r \in Node \X Gate : GateSatisfied(r) => declared[r[2]] = Kind[r[1]]

\* A gate is satisfied without its owner's close only on Done work: dismissals
\* and exemptions, the snapshot and the repaired ones, name Done nodes.
BypassOnlyOnDone ==
  \A n \in Node, g \in Gate :
    gateState[<<n, g>>] = "dismissed" \/ <<n, g>> \in exempt => lifecycle[n] = "done"

\* Work under way has its enclosing nodes under way or over: the start cascade
\* (D57) never leaves a Planned or unborn ancestor above started work.
StartedAncestors ==
  \A n \in Node : \A a \in Chain(n) :
    lifecycle[n] \notin {Unborn, "planned"} => lifecycle[a] \notin {Unborn, "planned"}

\* "An anonymous Batch is swept when its Matter seals": the commit that seals a
\* Matter sweeps its live Batch.  Finish, close and dismiss do; the scheduler's
\* finish and the exemption repair do not, so this does not hold.
SealSweepsBatch ==
  [][\A m \in Matters :
       ~Sealed(m) /\ Sealed(m)' /\ batch[m] = "live" => batch'[m] = "swept"]_vars
=============================================================================
