---------------------------- MODULE GatesProofs ----------------------------
(* Proofs about module Gates, for every tree of nodes, every set of gates    *)
(* and any number of requests in flight.                                     *)
EXTENDS Gates, TLAPS

----------------------------------------------------------------------------
(* Type correctness. *)

\* A request that passes Submit is a request.
LEMMA SubmitType ==
  ASSUME TypeOK, NEW req \in Requests, Submit(req)
  PROVE  inflight' \in SUBSET Requests
BY DEF TypeOK, Submit

\* SealSweep keeps the Batch table well typed.
LEMMA SweepType ==
  ASSUME TypeOK, NEW n, NEW became, SealSweep(n, became)
  PROVE  batch' \in [Matters -> {"none", "live", "swept"}]
<1>1. CASE became /\ n \in Matters /\ batch[n] = "live"
  BY <1>1 DEF TypeOK, SealSweep
<1>2. CASE ~(became /\ n \in Matters /\ batch[n] = "live")
  BY <1>2 DEF TypeOK, SealSweep
<1>. QED BY <1>1, <1>2

\* Every step of Next preserves the types of the projections (TypeOK).
LEMMA NextType ==
  ASSUME TypeOK, [Next]_vars
  PROVE  TypeOK'
<1>. USE DEF Lifecycles
<1>1. ASSUME NEW n \in Node, CreateNode(n) PROVE TypeOK'
  BY <1>1 DEF TypeOK, CreateNode, InsertNode
<1>2. ASSUME NEW n \in Node, RemoveStep(n) PROVE TypeOK'
  BY <1>2 DEF TypeOK, RemoveStep, TombstoneNode
<1>3. ASSUME NEW n \in Node, NEW r \in Node, ReplaceStep(n, r) PROVE TypeOK'
  BY <1>3 DEF TypeOK, ReplaceStep, InsertNode, TombstoneNode
<1>4. ASSUME NEW n \in Node, Start(n) PROVE TypeOK'
  <2>1. lifecycle' \in [Node -> Lifecycles \cup {Unborn}]
    BY <1>4 DEF TypeOK, Start
  <2>. QED BY <1>4, <2>1 DEF TypeOK, Start
<1>5. ASSUME NEW n \in Node, Finish(n) PROVE TypeOK'
  <2>1. batch' \in [Matters -> {"none", "live", "swept"}]
    BY <1>5, SweepType DEF Finish, SimpleTransition
  <2>. QED BY <1>5, <2>1 DEF TypeOK, Finish, SimpleTransition, ApplyTransition
<1>6. ASSUME NEW n \in Node, Cancel(n) \/ Pause(n) \/ Resume(n) PROVE TypeOK'
  <2>1. batch' \in [Matters -> {"none", "live", "swept"}]
    BY <1>6, SweepType DEF Cancel, Pause, Resume, SimpleTransition
  <2>. QED BY <1>6, <2>1 DEF TypeOK, Cancel, Pause, Resume, SimpleTransition, ApplyTransition
<1>7. ASSUME NEW n \in Node, RequestFinish(n) PROVE TypeOK'
  <2>1. [op |-> "finish", node |-> n] \in Requests
    BY DEF Requests
  <2>2. inflight' \in SUBSET Requests
    BY <1>7, <2>1, SubmitType DEF RequestFinish
  <2>. QED BY <1>7, <2>2 DEF TypeOK, RequestFinish, Submit
<1>8. ASSUME NEW g \in Gate, NEW s \in Scales, RequestDeclare(g, s) PROVE TypeOK'
  <2>1. [op |-> "declare", gate |-> g, scale |-> s] \in Requests
    BY DEF Requests
  <2>2. inflight' \in SUBSET Requests
    BY <1>8, <2>1, SubmitType DEF RequestDeclare
  <2>. QED BY <1>8, <2>2 DEF TypeOK, RequestDeclare, Submit
<1>9. ASSUME NEW n \in Node, NEW g \in Gate, NEW a \in Actor, RequestClose(n, g, a)
      PROVE  TypeOK'
  <2>1. [op |-> "close", node |-> n, gate |-> g] \in Requests
    BY DEF Requests
  <2>2. inflight' \in SUBSET Requests
    BY <1>9, <2>1, SubmitType DEF RequestClose
  <2>. QED BY <1>9, <2>2 DEF TypeOK, RequestClose, Submit
<1>10. ASSUME NEW n \in Node, NEW g \in Gate, NEW a \in Actor, DismissGate(n, g, a)
       PROVE  TypeOK'
  <2>1. batch' \in [Matters -> {"none", "live", "swept"}]
    BY <1>10, SweepType DEF DismissGate
  <2>. QED BY <1>10, <2>1 DEF TypeOK, DismissGate, FoldGateDismissed
<1>11. ASSUME NEW n \in Node, NEW g \in Gate, RequestRepair(n, g) PROVE TypeOK'
  <2>1. [op |-> "repair", node |-> n, gate |-> g] \in Requests
    BY DEF Requests
  <2>2. inflight' \in SUBSET Requests
    BY <1>11, <2>1, SubmitType DEF RequestRepair
  <2>. QED BY <1>11, <2>2 DEF TypeOK, RequestRepair, Submit
<1>12. ASSUME NEW req \in inflight, CommitFinish(req) PROVE TypeOK'
  BY <1>12 DEF TypeOK, CommitFinish, ApplyTransition
<1>13. ASSUME NEW req \in inflight, CommitDeclare(req) PROVE TypeOK'
  <2>1. req.gate \in Gate /\ req.scale \in Scales
    BY <1>13 DEF TypeOK, CommitDeclare, Requests
  <2>2. SealedNodesAtScale(req.scale) \X {req.gate} \subseteq Node \X Gate
    BY <2>1 DEF SealedNodesAtScale
  <2>. QED BY <1>13, <2>1, <2>2 DEF TypeOK, CommitDeclare, FoldGateDeclared
<1>14. ASSUME NEW req \in inflight, CommitClose(req) PROVE TypeOK'
  <2>1. batch' \in [Matters -> {"none", "live", "swept"}]
    BY <1>14, SweepType DEF CommitClose, TypeOK
  <2>. QED BY <1>14, <2>1 DEF TypeOK, CommitClose, FoldGateClosed
<1>15. ASSUME NEW req \in inflight, CommitRepair(req) PROVE TypeOK'
  <2>1. req.gate \in Gate /\ req.node \in Node
    BY <1>15 DEF TypeOK, CommitRepair, Requests
  <2>. QED BY <1>15, <2>1 DEF TypeOK, CommitRepair, FoldExemptionRepaired
<1>16. ASSUME NEW m \in Matters, CreateAnonymousBatch(m) PROVE TypeOK'
  BY <1>16 DEF TypeOK, CreateAnonymousBatch
<1>17. ASSUME NEW req \in inflight, Abandon(req) PROVE TypeOK'
  BY <1>17 DEF TypeOK, Abandon
<1>18. CASE UNCHANGED vars
  BY <1>18 DEF TypeOK, vars
<1>. QED
  BY <1>1, <1>2, <1>3, <1>4, <1>5, <1>6, <1>7, <1>8, <1>9, <1>10, <1>11, <1>12,
     <1>13, <1>14, <1>15, <1>16, <1>17, <1>18 DEF Next

\* The projections of the node, gate and Batch tables are well typed in every
\* reachable state.
THEOREM TypeCorrect == Spec => []TypeOK
<1>1. Init => TypeOK
  BY DEF Init, TypeOK
<1>. QED BY <1>1, NextType, PTL DEF Spec

----------------------------------------------------------------------------
(* What no step takes back: Done work, gate evidence, a declaration.         *)

Persists ==
  /\ \A n \in Node : lifecycle[n] = "done" => lifecycle'[n] = "done"
  /\ \A r \in Node \X Gate : GateSatisfied(r) => GateSatisfied(r)'
  /\ \A g \in Gate : declared[g] # Undeclared => declared'[g] = declared[g]

\* No verb of the write surface or the scheduler undoes a finish, a gate close,
\* a dismissal, an exemption or a declaration.
LEMMA NextPersists ==
  ASSUME TypeOK, [Next]_vars
  PROVE  Persists
<1>. USE DEF Persists, GateSatisfied
<1>1. ASSUME NEW n \in Node, CreateNode(n) PROVE Persists
  BY <1>1 DEF TypeOK, CreateNode, InsertNode, Born, Unborn
<1>2. ASSUME NEW n \in Node, RemoveStep(n) PROVE Persists
  BY <1>2 DEF RemoveStep
<1>3. ASSUME NEW n \in Node, NEW r \in Node, ReplaceStep(n, r) PROVE Persists
  BY <1>3 DEF TypeOK, ReplaceStep, InsertNode, Born, Unborn
<1>4. ASSUME NEW n \in Node, Start(n) PROVE Persists
  BY <1>4 DEF TypeOK, Start
<1>5. ASSUME NEW n \in Node, Finish(n) \/ Cancel(n) \/ Pause(n) \/ Resume(n)
      PROVE Persists
  BY <1>5 DEF TypeOK, Finish, Cancel, Pause, Resume, SimpleTransition, ApplyTransition
<1>6. ASSUME NEW n \in Node, RequestFinish(n) PROVE Persists
  BY <1>6 DEF RequestFinish, Submit
<1>7. ASSUME NEW g \in Gate, NEW s \in Scales, RequestDeclare(g, s) PROVE Persists
  BY <1>7 DEF RequestDeclare, Submit
<1>8. ASSUME NEW n \in Node, NEW g \in Gate, NEW a \in Actor, RequestClose(n, g, a)
      PROVE  Persists
  BY <1>8 DEF RequestClose, Submit
<1>9. ASSUME NEW n \in Node, NEW g \in Gate, NEW a \in Actor, DismissGate(n, g, a)
      PROVE  Persists
  BY <1>9 DEF TypeOK, DismissGate, FoldGateDismissed
<1>10. ASSUME NEW n \in Node, NEW g \in Gate, RequestRepair(n, g) PROVE Persists
  BY <1>10 DEF RequestRepair, Submit
<1>11. ASSUME NEW req \in inflight, CommitFinish(req) PROVE Persists
  BY <1>11 DEF TypeOK, CommitFinish, ApplyTransition
<1>12. ASSUME NEW req \in inflight, CommitDeclare(req) PROVE Persists
  BY <1>12 DEF TypeOK, CommitDeclare, FoldGateDeclared
<1>13. ASSUME NEW req \in inflight, CommitClose(req) PROVE Persists
  BY <1>13 DEF TypeOK, CommitClose, FoldGateClosed
<1>14. ASSUME NEW req \in inflight, CommitRepair(req) PROVE Persists
  BY <1>14 DEF CommitRepair, FoldExemptionRepaired
<1>15. ASSUME NEW m \in Matters, CreateAnonymousBatch(m) PROVE Persists
  BY <1>15 DEF CreateAnonymousBatch
<1>16. ASSUME NEW req \in inflight, Abandon(req) PROVE Persists
  BY <1>16 DEF Abandon
<1>17. CASE UNCHANGED vars
  BY <1>17 DEF vars
<1>. QED
  BY <1>1, <1>2, <1>3, <1>4, <1>5, <1>6, <1>7, <1>8, <1>9, <1>10, <1>11, <1>12,
     <1>13, <1>14, <1>15, <1>16, <1>17 DEF Next

----------------------------------------------------------------------------
(* Sealed Matters. *)

\* A Matter has no enclosing node.
LEMMA MatterChain ==
  ASSUME NEW m \in Matters
  PROVE  m \in Node /\ Kind[m] = "matter" /\ Chain(m) = {m}
BY TreeAssumption DEF Matters, Chain, ParentsOf

\* So only Matter-scale gates bear on it.
LEMMA MatterSealed ==
  ASSUME NEW m \in Matters
  PROVE  Sealed(m) <=> /\ lifecycle[m] = "done"
                       /\ \A g \in Gate : declared[g] = "matter" => GateSatisfied(<<m, g>>)
BY MatterChain DEF Sealed, SealedWithOverlay, EffectiveGateRequirements

\* Amendment removes Steps only, so a Matter that was born is live.
RemovedAreSteps == \A n \in removed : Kind[n] = "step"

LEMMA NextRemoved ==
  ASSUME RemovedAreSteps, [Next]_vars
  PROVE  RemovedAreSteps'
BY DEF RemovedAreSteps, Next, vars, CreateNode, RemoveStep, ReplaceStep, Start, Finish,
       Cancel, Pause, Resume, SimpleTransition, RequestFinish, RequestDeclare, RequestClose,
       DismissGate, RequestRepair, CommitFinish, CommitDeclare, CommitClose,
       CommitRepair, CreateAnonymousBatch, Submit, Abandon, TombstoneNode

\* A gate that a step declares at Matter scale exempts every sealed Matter in
\* that same step (sealedNodesAtScale inside DeclareGate's transaction).
LEMMA DeclarationExempts ==
  ASSUME TypeOK, RemovedAreSteps, [Next]_vars,
         NEW m \in Matters, NEW g \in Gate,
         Sealed(m), declared[g] = Undeclared, declared'[g] = "matter"
  PROVE  GateSatisfied(<<m, g>>)'
<1>1. PICK req \in inflight : CommitDeclare(req)
  BY DEF Next, vars, Undeclared, CreateNode, RemoveStep, ReplaceStep, Start, Finish,
         Cancel, Pause, Resume, SimpleTransition, RequestFinish, RequestDeclare, RequestClose,
         DismissGate, RequestRepair, CommitFinish, CommitClose, CommitRepair,
         CreateAnonymousBatch, Submit, Abandon
<1>2. req.gate = g /\ req.scale = "matter" /\ declared[req.gate] = Undeclared
  BY <1>1 DEF CommitDeclare, FoldGateDeclared, TypeOK, Undeclared
<1>3. m \in Node /\ Kind[m] = "matter" /\ lifecycle[m] = "done"
  BY MatterSealed DEF Matters
<1>4. Live(m)
  BY <1>3 DEF Live, Born, RemovedAreSteps, Unborn
<1>5. m \in SealedNodesAtScale("matter")
  BY <1>3, <1>4 DEF SealedNodesAtScale
<1>6. exempt' = exempt \cup (SealedNodesAtScale(req.scale) \X {req.gate})
  BY <1>1, <1>2 DEF CommitDeclare, FoldGateDeclared
<1>7. <<m, g>> \in exempt'
  BY <1>2, <1>5, <1>6
<1>. QED BY <1>7 DEF GateSatisfied

\* One step keeps a sealed Matter sealed.
LEMMA NextSealed ==
  ASSUME TypeOK, RemovedAreSteps, [Next]_vars, NEW m \in Matters, Sealed(m)
  PROVE  Sealed(m)'
<1>1. Persists
  BY NextPersists
<1>2. m \in Node /\ lifecycle[m] = "done"
  BY MatterSealed DEF Matters
<1>3. TypeOK'
  BY NextType
<1>4. lifecycle'[m] = "done"
  BY <1>1, <1>2 DEF Persists
<1>5. ASSUME NEW g \in Gate, declared'[g] = "matter" PROVE GateSatisfied(<<m, g>>)'
  <2>1. CASE declared[g] = Undeclared
    BY <1>5, <2>1, DeclarationExempts
  <2>2. CASE declared[g] # Undeclared
    <3>1. declared[g] = "matter"
      BY <1>1, <1>5, <2>2 DEF Persists
    <3>2. GateSatisfied(<<m, g>>)
      BY <3>1, MatterSealed
    <3>3. <<m, g>> \in Node \X Gate
      BY <1>2
    <3>. QED BY <1>1, <3>2, <3>3 DEF Persists
  <2>. QED BY <2>1, <2>2
<1>. QED
  BY <1>4, <1>5, MatterChain DEF Sealed, SealedWithOverlay, EffectiveGateRequirements

\* A sealed Matter stays sealed, whatever is started, closed, declared, repaired
\* or amended by whichever process.
THEOREM SealIsPermanent == Spec => SealedMatterStaysSealed
<1>1. Init => TypeOK /\ RemovedAreSteps
  BY DEF Init, TypeOK, RemovedAreSteps
<1>2. ASSUME TypeOK, RemovedAreSteps, [Next]_vars
      PROVE  /\ TypeOK' /\ RemovedAreSteps'
             /\ \A m \in Matters : Sealed(m) => Sealed(m)'
  BY <1>2, NextType, NextRemoved, NextSealed
<1>. QED BY <1>1, <1>2, PTL DEF Spec, SealedMatterStaysSealed

----------------------------------------------------------------------------
(* The sweep. *)

\* A step that sweeps a Batch seals its Matter, which was not sealed before:
\* only Finish, CommitClose and DismissGate sweep, on their own overlay.
LEMMA NextSweep ==
  ASSUME TypeOK, [Next]_vars, NEW m \in Matters,
         batch[m] # "swept", batch'[m] = "swept"
  PROVE  ~Sealed(m) /\ Sealed(m)'
<1>. USE MatterChain
     DEF Sealed, SealedWithOverlay, EffectiveGateRequirements, GateSatisfied
<1>1. ASSUME NEW n \in Node, Finish(n) PROVE ~Sealed(m) /\ Sealed(m)'
  <2>1. n = m /\ SealedWithOverlay(n, TRUE, {})
    BY <1>1 DEF Finish, SimpleTransition, SealSweep, TypeOK
  <2>2. lifecycle[m] = "in_progress" /\ lifecycle'[m] = "done"
    BY <1>1, <2>1 DEF Finish, SimpleTransition, ApplyTransition, TypeOK
  <2>. QED BY <1>1, <2>1, <2>2 DEF Finish, SimpleTransition
<1>2. ASSUME NEW n \in Node, NEW g \in Gate, NEW a \in Actor, DismissGate(n, g, a)
      PROVE  ~Sealed(m) /\ Sealed(m)'
  <2>1. n = m /\ BecomesSealed(n, g)
    BY <1>2 DEF DismissGate, SealSweep, TypeOK
  <2>2. gateState'[<<m, g>>] = "dismissed"
        /\ \A r \in Node \X Gate : r # <<m, g>> => gateState'[r] = gateState[r]
    BY <1>2, <2>1 DEF DismissGate, FoldGateDismissed, TypeOK
  <2>. QED BY <1>2, <2>1, <2>2 DEF DismissGate, BecomesSealed
<1>3. ASSUME NEW req \in inflight, CommitClose(req) PROVE ~Sealed(m) /\ Sealed(m)'
  <2>. DEFINE g == req.gate
  <2>1. req.node \in Node /\ g \in Gate
    BY <1>3 DEF CommitClose, TypeOK, Requests
  <2>2. req.node = m /\ BecomesSealed(m, g) /\ gateState' = [gateState EXCEPT ![<<m, g>>] = "closed"]
    BY <1>3, <2>1 DEF CommitClose, FoldGateClosed, SealSweep, TypeOK
  <2>3. gateState'[<<m, g>>] = "closed"
        /\ \A r \in Node \X Gate : r # <<m, g>> => gateState'[r] = gateState[r]
    BY <2>1, <2>2 DEF TypeOK
  <2>. QED BY <1>3, <2>1, <2>2, <2>3 DEF CommitClose, BecomesSealed
<1>4. ASSUME NEW k \in Matters, CreateAnonymousBatch(k) PROVE FALSE
  BY <1>4 DEF CreateAnonymousBatch, TypeOK
<1>5. ASSUME NEW n \in Node, Cancel(n) \/ Pause(n) \/ Resume(n) PROVE FALSE
  BY <1>5 DEF Cancel, Pause, Resume, SimpleTransition, SealSweep
<1>6. ASSUME batch' = batch PROVE FALSE
  BY <1>6
<1>. QED
  BY <1>1, <1>2, <1>3, <1>4, <1>5, <1>6
  DEF Next, vars, CreateNode, RemoveStep, ReplaceStep, Start, Submit, Abandon,
      RequestFinish, RequestDeclare, RequestClose, RequestRepair, CommitFinish,
      CommitDeclare, CommitRepair

\* No step takes a swept Batch back.
LEMMA NextSwept ==
  ASSUME TypeOK, [Next]_vars, NEW m \in Matters, batch[m] = "swept"
  PROVE  batch'[m] = "swept"
BY DEF TypeOK, Next, vars, CreateNode, RemoveStep, ReplaceStep, Start, Finish, Cancel,
       Pause, Resume, SimpleTransition, RequestFinish, RequestDeclare, RequestClose, DismissGate,
       RequestRepair, CommitFinish, CommitDeclare, CommitClose, CommitRepair,
       CreateAnonymousBatch, SealSweep, Submit, Abandon

\* Sweeping and sealing happen in one commit.
THEOREM SweepExactlyAtSeal == Spec => SweepOnlyAtSeal
<1>1. ASSUME TypeOK, [Next]_vars
      PROVE  \A m \in Matters :
               batch[m] # "swept" /\ batch'[m] = "swept" => ~Sealed(m) /\ Sealed(m)'
  BY <1>1, NextSweep
<1>. QED BY <1>1, TypeCorrect, PTL DEF Spec, SweepOnlyAtSeal

\* The Matter of a swept Batch is sealed.
THEOREM SweptIsSealed == Spec => []SweptMatterIsSealed
<1>. DEFINE J == TypeOK /\ RemovedAreSteps /\ SweptMatterIsSealed
<1>1. Init => J
  BY DEF Init, TypeOK, RemovedAreSteps, SweptMatterIsSealed
<1>2. ASSUME J, [Next]_vars PROVE J'
  <2>1. TypeOK' /\ RemovedAreSteps'
    BY <1>2, NextType, NextRemoved
  <2>2. ASSUME NEW m \in Matters, batch'[m] = "swept" PROVE Sealed(m)'
    <3>1. CASE batch[m] = "swept"
      BY <1>2, <3>1, NextSealed DEF SweptMatterIsSealed
    <3>2. CASE batch[m] # "swept"
      BY <1>2, <2>2, <3>2, NextSweep
    <3>. QED BY <3>1, <3>2
  <2>. QED BY <2>1, <2>2 DEF SweptMatterIsSealed
<1>. QED BY <1>1, <1>2, PTL DEF Spec

----------------------------------------------------------------------------
(* Gate evidence and exemptions. *)

\* What a repair checked before its transaction still holds in it: Done and the
\* declared scale are both permanent.
RepairsSound ==
  \A req \in inflight :
    req.op = "repair" => /\ lifecycle[req.node] = "done"
                         /\ declared[req.gate] = Kind[req.node]

EvidenceInv ==
  TypeOK /\ RepairsSound /\ EvidenceAtDeclaredScale /\ BypassOnlyOnDone

LEMMA NextEvidence ==
  ASSUME EvidenceInv, [Next]_vars
  PROVE  RepairsSound' /\ EvidenceAtDeclaredScale' /\ BypassOnlyOnDone'
<1>. USE DEF EvidenceInv
<1>1. Persists
  BY NextPersists
<1>2. RepairsSound'
  <2>1. ASSUME NEW req \in inflight', req.op = "repair", req \in inflight
        PROVE  /\ lifecycle'[req.node] = "done"
               /\ declared'[req.gate] = Kind[req.node]
    <3>1. req.node \in Node /\ req.gate \in Gate
      BY <2>1 DEF TypeOK, Requests
    <3>. QED BY <1>1, <2>1, <3>1, TreeAssumption
             DEF Persists, RepairsSound, Undeclared, Scales
  <2>2. ASSUME NEW req \in inflight', req.op = "repair", req \notin inflight
        PROVE  /\ lifecycle'[req.node] = "done"
               /\ declared'[req.gate] = Kind[req.node]
    <3>a. ASSUME NEW n \in Node, RequestFinish(n) PROVE FALSE
      BY <2>2, <3>a DEF RequestFinish, Submit
    <3>b. ASSUME NEW g \in Gate, NEW s \in Scales, RequestDeclare(g, s) PROVE FALSE
      BY <2>2, <3>b DEF RequestDeclare, Submit
    <3>c. ASSUME NEW n \in Node, NEW g \in Gate, NEW a \in Actor, RequestClose(n, g, a)
          PROVE  FALSE
      BY <2>2, <3>c DEF RequestClose, Submit
    <3>1. PICK n \in Node, g \in Gate : RequestRepair(n, g)
      BY <2>2, <3>a, <3>b, <3>c
      DEF Next, vars, CreateNode, RemoveStep, ReplaceStep, Start, Finish,
         Cancel, Pause, Resume, SimpleTransition, DismissGate, CommitFinish, CommitDeclare,
         CommitClose, CommitRepair, CreateAnonymousBatch, Abandon
    <3>2. req = [op |-> "repair", node |-> n, gate |-> g]
      BY <2>2, <3>1 DEF RequestRepair, Submit
    <3>. QED BY <3>1, <3>2 DEF RequestRepair, Submit
  <2>. QED BY <2>1, <2>2 DEF RepairsSound
<1>3. ASSUME NEW n \in Node, NEW g \in Gate, <<n, g>> \in exempt'
      PROVE  declared'[g] = Kind[n] /\ lifecycle'[n] = "done"
  <2>1. CASE <<n, g>> \in exempt
    BY <1>1, <2>1, TreeAssumption
    DEF Persists, EvidenceAtDeclaredScale, BypassOnlyOnDone, GateSatisfied, Undeclared, Scales
  <2>2. CASE <<n, g>> \notin exempt
    <3>1. PICK req \in inflight : CommitDeclare(req) \/ CommitRepair(req)
      BY <1>3, <2>2 DEF Next, vars, CreateNode, RemoveStep, ReplaceStep, Start, Finish,
         Cancel, Pause, Resume, SimpleTransition, RequestFinish, RequestDeclare, RequestClose,
         DismissGate, RequestRepair, CommitFinish, CommitClose, CreateAnonymousBatch,
         Submit, Abandon
    <3>2. CASE CommitDeclare(req)
      BY <1>3, <2>2, <3>2 DEF CommitDeclare, FoldGateDeclared, SealedNodesAtScale, Sealed,
         SealedWithOverlay, TypeOK
    <3>3. CASE CommitRepair(req)
      BY <1>3, <2>2, <3>3 DEF CommitRepair, FoldExemptionRepaired, RepairsSound
    <3>. QED BY <3>1, <3>2, <3>3
  <2>. QED BY <2>1, <2>2
<1>4. ASSUME NEW n \in Node, NEW g \in Gate, gateState'[<<n, g>>] # "open"
      PROVE  /\ declared'[g] = Kind[n]
             /\ gateState'[<<n, g>>] = "dismissed" => lifecycle'[n] = "done"
  <2>1. CASE gateState'[<<n, g>>] = gateState[<<n, g>>]
    <3>1. declared[g] = Kind[n] /\ (gateState[<<n, g>>] = "dismissed" => lifecycle[n] = "done")
      BY <1>4, <2>1 DEF TypeOK, EvidenceAtDeclaredScale, BypassOnlyOnDone, GateSatisfied
    <3>. QED BY <1>1, <2>1, <3>1, TreeAssumption DEF Persists, Undeclared, Scales
  <2>2. CASE gateState'[<<n, g>>] # gateState[<<n, g>>]
    <3>1. \/ \E k \in Node, h \in Gate, a \in Actor : DismissGate(k, h, a)
          \/ \E req \in inflight : CommitClose(req)
      BY <2>2 DEF Next, vars, CreateNode, RemoveStep, ReplaceStep, Start, Finish,
         Cancel, Pause, Resume, SimpleTransition, RequestFinish, RequestDeclare, RequestClose,
         RequestRepair, CommitFinish, CommitDeclare, CommitRepair, CreateAnonymousBatch,
         Submit, Abandon
    <3>2. ASSUME NEW k \in Node, NEW h \in Gate, NEW a \in Actor, DismissGate(k, h, a)
          PROVE  declared'[g] = Kind[n] /\ lifecycle'[n] = "done"
      BY <2>2, <3>2 DEF DismissGate, FoldGateDismissed, TypeOK
    <3>3. ASSUME NEW req \in inflight, CommitClose(req)
          PROVE  declared'[g] = Kind[n] /\ gateState'[<<n, g>>] = "closed"
      BY <2>2, <3>3 DEF CommitClose, FoldGateClosed, TypeOK
    <3>. QED BY <3>1, <3>2, <3>3
  <2>. QED BY <2>1, <2>2
<1>5. EvidenceAtDeclaredScale'
  <2>1. TypeOK'
    BY NextType
  <2>. QED BY <1>3, <1>4, <2>1 DEF EvidenceAtDeclaredScale, GateSatisfied, TypeOK
<1>6. BypassOnlyOnDone'
  BY <1>3, <1>4 DEF BypassOnlyOnDone
<1>. QED BY <1>2, <1>5, <1>6

\* Gate evidence sits at the declared scale, and evidence that is not a close
\* sits on Done work.
THEOREM EvidenceIsSound == Spec => [](EvidenceAtDeclaredScale /\ BypassOnlyOnDone)
<1>1. Init => EvidenceInv
  BY DEF Init, EvidenceInv, TypeOK, RepairsSound, EvidenceAtDeclaredScale,
         BypassOnlyOnDone, GateSatisfied
<1>2. ASSUME EvidenceInv, [Next]_vars PROVE EvidenceInv'
  BY <1>2, NextType, NextEvidence DEF EvidenceInv
<1>. QED BY <1>1, <1>2, PTL DEF Spec, EvidenceInv

----------------------------------------------------------------------------
(* The start cascade. *)

Started(n) == lifecycle[n] \notin {Unborn, "planned"}

\* The inductive form of StartedAncestors: one hop at a time, and a born node
\* has a born parent.
ParentsStarted ==
  \A n \in Node : Parent[n] \in Node => /\ Started(n) => Started(Parent[n])
                                        /\ Born(n) => Born(Parent[n])

\* Every step keeps started work under started parents; only births and Start
\* need more than that no verb returns to Planned.
LEMMA NextStarted ==
  ASSUME TypeOK, ParentsStarted, [Next]_vars
  PROVE  ParentsStarted'
<1>. USE DEF Started, Born, Unborn
<1>1. ASSUME NEW n \in Node, CreateNode(n) PROVE ParentsStarted'
  BY <1>1, TreeAssumption DEF CreateNode, InsertNode, TypeOK, ParentsStarted, Live
<1>2. ASSUME NEW n \in Node, NEW r \in Node, ReplaceStep(n, r) PROVE ParentsStarted'
  BY <1>2, TreeAssumption DEF ReplaceStep, InsertNode, TypeOK, ParentsStarted, Live
<1>3. ASSUME NEW n \in Node, Start(n) PROVE ParentsStarted'
  <2>1. \A a \in Node : Parent[a] \in Node /\ a \in Chain(n) => Parent[a] \in Chain(n)
    BY TreeAssumption DEF Chain, ParentsOf, Scales
  <2>2. \A a \in Node : lifecycle'[a] = IF a \in Chain(n) /\ lifecycle[a] = "planned"
                                        THEN "in_progress" ELSE lifecycle[a]
    BY <1>3 DEF Start
  <2>. QED BY <2>1, <2>2 DEF ParentsStarted, TypeOK
<1>4. ASSUME NEW n \in Node, Finish(n) \/ Cancel(n) \/ Pause(n) \/ Resume(n)
      PROVE  ParentsStarted'
  BY <1>4 DEF Finish, Cancel, Pause, Resume, SimpleTransition, ApplyTransition, TypeOK,
              ParentsStarted
<1>5. ASSUME NEW req \in inflight, CommitFinish(req) PROVE ParentsStarted'
  BY <1>5 DEF CommitFinish, ApplyTransition, TypeOK, ParentsStarted, Live
<1>6. CASE lifecycle' = lifecycle
  BY <1>6 DEF ParentsStarted
<1>. QED
  BY <1>1, <1>2, <1>3, <1>4, <1>5, <1>6
  DEF Next, vars, RemoveStep, RequestFinish, RequestDeclare, RequestClose, DismissGate,
      RequestRepair, CommitDeclare, CommitClose, CommitRepair, CreateAnonymousBatch,
      Submit, Abandon

\* Work that is under way or over never has a Planned or unborn ancestor.
THEOREM AncestorsStarted == Spec => []StartedAncestors
<1>1. Init => TypeOK /\ ParentsStarted
  BY TreeAssumption DEF Init, TypeOK, ParentsStarted, Started, Born
<1>2. ASSUME TypeOK, ParentsStarted, [Next]_vars PROVE TypeOK' /\ ParentsStarted'
  BY <1>2, NextType, NextStarted
<1>3. ASSUME ParentsStarted PROVE StartedAncestors
  BY <1>3, TreeAssumption DEF ParentsStarted, StartedAncestors, Started, Chain, ParentsOf
<1>. QED BY <1>1, <1>2, <1>3, PTL DEF Spec
=============================================================================
