-------------------------- MODULE ExecutionProofs --------------------------
(***************************************************************************)
(* OneWorker, ClosedIsQuiet and ClosedRunIsSettled, for any plan, any Runs  *)
(* and any number of passes from any number of worktrees.                  *)
(***************************************************************************)
EXTENDS Execution, WellFoundedInduction, TLAPS

-----------------------------------------------------------------------------
(* The inductive invariant.                                                  *)

Lifecycles == {"unborn", "planned", "in_progress", "done", "canceled", "paused"}

\* Where a pass has a node in hand and its Matter claimed, and where it has a node.
Holding == {"plan", "author", "start", "builder", "work", "finish", "fail", "close_builder",
            "release", "containers", "finish_matter"}
AtNode == Holding \cup {"claim", "skip"}
Unlocked == {"unbegun", "lock", "ended"}
Unclaimed == Unlocked \cup {"spawn", "reap"}

Passes ==
  [pc : AtNode \cup Unclaimed \cup {"derive", "settle", "return"},
   run : Run \cup {None}, tree : Worktree \cup {None}, resume : BOOLEAN,
   node : Node \cup {None}, fresh : BOOLEAN, claims : SUBSET Matter, skipped : SUBSET Matter,
   todo : SUBSET Matter, standby : BOOLEAN]

RoleRows == [name : {"orchestrator", "researcher", "builder"}, pass : Pass, matter : Matter \cup {None}]

TypeInv ==
  /\ lifecycle \in [Node -> Lifecycles]
  /\ closed \subseteq Matter /\ swept \subseteq Matter
  /\ run \in [Run -> {"unborn", "open", "finished", "stood-down", "reaped"}]
  /\ claim \in [Matter -> Pass \cup {None}]
  /\ bracket \subseteq Worktree
  /\ role \subseteq RoleRows
  /\ lock \in [Run -> Pass \cup {None}]
  /\ pass \in [Pass -> Passes]

Begun(i) == pass[i].pc # "unbegun"

\* A pass past the lock holds it, and what it believes it has claimed is claimed by it
\* unless the Matter is sealed.
GoodPass(i, p) ==
  /\ p.pc # "unbegun" => p.run \in Run
  /\ p.pc \notin Unlocked => lock[p.run] = i
  /\ p.pc \in Unclaimed => p.claims = {}
  /\ p.pc \in AtNode => p.node \in Node
  /\ p.pc \in Holding => MatterOf(p.node) \in p.claims
  /\ p.pc = "claim" => MatterOf(p.node) \in Frozen[p.run]
  /\ \A m \in p.claims : m \in Frozen[p.run] /\ (claim[m] = i \/ Sealed(m))

PassInv == \A i \in Pass : GoodPass(i, pass[i])

\* Claims and roles belong to passes that have begun; a role is inside its bracket.
ClaimInv == \A m \in Matter : claim[m] # None => Begun(claim[m])

RoleInv ==
  \A r \in role :
    /\ Begun(r.pass)
    /\ IF r.matter = None THEN pass[r.pass].tree \in bracket ELSE claim[r.matter] = r.pass

\* A swept Batch has no open Run and no claim.
SweptInv ==
  \A m \in swept, r \in Run :
    Anonymous[r] = m => run[r] # "open" /\ OpenDispatchesForRun(r) = {}

ExecInv == TypeInv /\ PassInv /\ ClaimInv /\ RoleInv /\ SweptInv

-----------------------------------------------------------------------------
(* The plan's shape: the Matter of a node is a Matter, and None is neither a  *)
(* node nor a pass.                                                          *)
LEMMA Shape ==
  /\ \A n \in Node : MatterOf(n) \in Matter
  /\ \A m \in Matter : MatterOf(m) = m /\ m \in Node
  /\ None \notin Node /\ None \notin Matter /\ None \notin Pass
  /\ Node \subseteq Nat
BY ExecutionAssumption DEF MatterOf, Node, Pass, None

(* A set of nodes that is not empty has a first one, which Min gives.        *)
LEMMA MinIn ==
  ASSUME NEW S, S \subseteq Node, S # {}
  PROVE  Min(S) \in S
<1>1. S \subseteq Nat BY Shape
<1> DEFINE R == {ss \in Nat \X Nat : ss[1] < ss[2]}
<1>2. \A a, b \in Nat : a < b => <<a, b>> \in R OBVIOUS
<1>3. IsWellFoundedOn(R, Nat) BY NatLessThanWellFounded, Zenon DEF OpToRel
<1> HIDE DEF R
<1>4. PICK x \in S : \A y \in S : ~(<<y, x>> \in R) BY <1>1, <1>3, WFMin, Zenon
<1>5. ASSUME NEW y \in S PROVE x =< y
  <2>1. x \in Nat /\ y \in Nat BY <1>1
  <2>2. ~(y < x) BY <1>2, <1>4, <2>1, Zenon
  <2> QED BY <2>1, <2>2
<1> QED BY <1>4, <1>5 DEF Min

(* Before anything is started the invariant holds.                           *)
LEMMA InitInv == Init => ExecInv
<1> SUFFICES ASSUME Init PROVE ExecInv OBVIOUS
<1>1. Unbegun \in Passes /\ Unbegun.pc = "unbegun" /\ Unbegun.claims = {}
  BY DEF Unbegun, Passes, Unclaimed, Unlocked
<1>2. TypeInv BY <1>1 DEF Init, TypeInv, Lifecycles
<1>3. \A i \in Pass : pass[i] = Unbegun BY DEF Init
<1>4. PassInv BY <1>1, <1>3 DEF PassInv, GoodPass, Unlocked, AtNode, Holding
<1>5. ClaimInv /\ RoleInv /\ SweptInv BY DEF Init, ClaimInv, RoleInv, SweptInv
<1> QED BY <1>2, <1>4, <1>5 DEF ExecInv

(* The lifecycle of every node stays a lifecycle, done stays done, canceled   *)
(* stays canceled and a closed gate closed, whoever moves.                   *)
LEMMA PlanMoves ==
  ASSUME TypeInv, PassInv, Next
  PROVE  /\ lifecycle' \in [Node -> Lifecycles]
         /\ \A n \in Node : lifecycle[n] \in {"done", "canceled"} => lifecycle'[n] = lifecycle[n]
         /\ closed \subseteq closed' /\ closed' \subseteq Matter
<1>1. CASE UNCHANGED <<lifecycle, closed>> BY <1>1 DEF TypeInv
<1>2. ASSUME NEW n \in Node, lifecycle' = Started(n), UNCHANGED closed
      PROVE  /\ lifecycle' \in [Node -> Lifecycles]
             /\ \A a \in Node : lifecycle[a] \in {"done", "canceled"} => lifecycle'[a] = lifecycle[a]
  BY <1>2 DEF TypeInv, Started, Lifecycles
<1>3. ASSUME NEW n \in Node, NEW to \in Lifecycles, lifecycle[n] \notin {"done", "canceled"},
             lifecycle' = [lifecycle EXCEPT ![n] = to]
      PROVE  /\ lifecycle' \in [Node -> Lifecycles]
             /\ \A a \in Node : lifecycle[a] \in {"done", "canceled"} => lifecycle'[a] = lifecycle[a]
  BY <1>3 DEF TypeInv
<1>4. ASSUME NEW n \in Handled, NEW from \in {"in_progress", "paused"},
             NEW to \in {"done", "canceled", "paused", "in_progress"}, Transition(n, from, to)
      PROVE  UNCHANGED closed /\ lifecycle' \in [Node -> Lifecycles]
             /\ \A a \in Node : lifecycle[a] \in {"done", "canceled"} => lifecycle'[a] = lifecycle[a]
  <2>1. n \in Node BY ExecutionAssumption
  <2>2. to \in Lifecycles BY DEF Lifecycles
  <2>3. lifecycle[n] \notin {"done", "canceled"} /\ lifecycle' = [lifecycle EXCEPT ![n] = to] /\ UNCHANGED closed
    BY <1>4 DEF Transition
  <2> QED BY <1>3, <2>1, <2>2, <2>3
<1>5. ASSUME NEW m \in Matter, CloseGate(m)
      PROVE  /\ closed \subseteq closed' /\ closed' \subseteq Matter
             /\ lifecycle' \in [Node -> Lifecycles]
             /\ \A a \in Node : lifecycle[a] \in {"done", "canceled"} => lifecycle'[a] = lifecycle[a]
  BY <1>5 DEF CloseGate, TypeInv
<1>6. ASSUME NEW i \in Pass, PassStep(i)
      PROVE  UNCHANGED closed /\ lifecycle' \in [Node -> Lifecycles]
             /\ \A a \in Node : lifecycle[a] \in {"done", "canceled"} => lifecycle'[a] = lifecycle[a]
  <2>1. CASE UNCHANGED lifecycle /\ UNCHANGED closed BY <2>1 DEF TypeInv
  <2>2. CASE Author(i)
    <3>1. CASE UNCHANGED lifecycle BY <2>2, <3>1 DEF Author, TypeInv
    <3>2. CASE ~UNCHANGED lifecycle
      <4> DEFINE new == {s \in Unplanned : ParentOf[s] = pass[i].node /\ lifecycle[s] = "unborn"}
      <4>1. new # {} /\ lifecycle' = [lifecycle EXCEPT ![Min(new)] = "planned"] /\ UNCHANGED closed
        BY <2>2, <3>2 DEF Author
      <4>2. new \subseteq Node BY ExecutionAssumption DEF Node
      <4>3. Min(new) \in new BY <4>1, <4>2, MinIn
      <4>4. Min(new) \in Node /\ lifecycle[Min(new)] = "unborn" BY <4>2, <4>3
      <4>5. "planned" \in Lifecycles BY DEF Lifecycles
      <4> HIDE DEF new
      <4> QED BY <1>3, <4>1, <4>4, <4>5
    <3> QED BY <3>1, <3>2
  <2>3. CASE StartNode(i)
    <3>1. pass[i].node \in Node BY <2>3 DEF StartNode, PassInv, GoodPass, AtNode, Holding
    <3> QED BY <1>2, <2>3, <3>1 DEF StartNode
  <2>4. CASE FinishNode(i)
    <3>1. pass[i].node \in Node BY <2>4 DEF FinishNode, PassInv, GoodPass, AtNode, Holding
    <3>2. "done" \in Lifecycles BY DEF Lifecycles
    <3> QED BY <1>3, <2>4, <3>1, <3>2 DEF FinishNode
  <2>5. CASE FinishMatter(i)
    <3>1. pass[i].node \in Node BY <2>5 DEF FinishMatter, PassInv, GoodPass, AtNode, Holding
    <3>2. M(i) \in Node BY <3>1, Shape DEF M
    <3>3. "done" \in Lifecycles BY DEF Lifecycles
    <3> QED BY <1>3, <2>5, <3>2, <3>3 DEF FinishMatter
  <2> QED BY <1>6, <2>1, <2>2, <2>3, <2>4, <2>5
          DEF PassStep, plan, Acquire, SpawnOrchestrator, ReapOrphans, Derive, Claim, Plan, SpawnBuilder, Work,
              CloseBuilder, Release, Containers, Skip, SettleMember, Conclude, Return, Die
<1>7. ASSUME NEW n \in Handled, Start(n)
      PROVE  UNCHANGED closed /\ lifecycle' \in [Node -> Lifecycles]
             /\ \A a \in Node : lifecycle[a] \in {"done", "canceled"} => lifecycle'[a] = lifecycle[a]
  BY <1>2, <1>7, ExecutionAssumption DEF Start
<1>8. ASSUME \/ \E r \in Run : StartRun(r) \/ StandDownRun(r)
             \/ \E w \in Worktree : OpenBracket(w) \/ CloseBracket(w) \/ CloseRole(w)
             \/ \E i \in Pass, w \in Worktree, r \in Run, resume \in BOOLEAN : Begin(i, w, r, resume)
      PROVE  UNCHANGED <<lifecycle, closed>>
  BY <1>8 DEF plan, StartRun, StandDownRun, OpenBracket, CloseBracket, CloseRole, Begin
<1>9. closed \subseteq Matter BY DEF TypeInv
<1>10. CASE \E n \in Handled : \/ \E to \in {"done", "canceled", "paused"} : Transition(n, "in_progress", to)
                               \/ Transition(n, "paused", "in_progress")
  BY <1>4, <1>9, <1>10
<1> QED BY <1>1, <1>5, <1>6, <1>7, <1>8, <1>9, <1>10 DEF Next

(* A sealed Matter stays sealed.                                             *)
LEMMA SealedStays ==
  ASSUME TypeInv, PassInv, Next, NEW m \in Matter, Sealed(m)
  PROVE  Sealed(m)'
BY PlanMoves, Shape DEF Sealed

\* What a step makes of the pass that takes it.
Moves(i, q) ==
  /\ pass' = [pass EXCEPT ![i] = q]
  /\ Begun(i) /\ q.pc # "unbegun" /\ q.run = pass[i].run /\ q.tree = pass[i].tree
  /\ GoodPass(i, q)'

(* What the pass takes up next is a node of a Matter of its Run (Frontier).  *)
LEMMA SelectedIn ==
  ASSUME NEW i \in Pass, NEW n \in Selected(i)
  PROVE  n \in Node /\ MatterOf(n) \in Frozen[pass[i].run]
<1> DEFINE engaged == Unskipped(i, Engaged(pass[i].run))
           ready == Unskipped(i, Ready(pass[i].run))
<1>1. /\ engaged \subseteq {a \in Node : MatterOf(a) \in Frozen[pass[i].run]}
      /\ ready \subseteq {a \in Node : MatterOf(a) \in Frozen[pass[i].run]}
  BY DEF Unskipped, Engaged, Ready, Leaves
<1> DEFINE first == pass[i].resume /\ engaged # {}
           second == ready # {} /\ Cardinality(engaged) < Cap
<1>2. Selected(i) = CASE first -> {Min(engaged)} [] ~first /\ second -> {Min(ready)} [] OTHER -> {}
  BY Zenon DEF Selected
<1>3. (n = Min(engaged) /\ first) \/ (n = Min(ready) /\ second)
  <2> HIDE DEF first, second, engaged, ready
  <2> QED BY <1>2
<1> HIDE DEF engaged, ready
<1> QED BY <1>1, <1>3, MinIn

(* A step of a pass leaves it in its Run and worktree, at a place its lock and *)
(* its claims bear out.                                                      *)
LEMMA PassMoves ==
  ASSUME ExecInv, Next, NEW i \in Pass, PassStep(i)
  PROVE  \E q \in Passes : Moves(i, q)
<1>1. PICK p : p = pass[i] OBVIOUS
<1>2. p \in Passes /\ GoodPass(i, p) /\ TypeInv /\ PassInv BY <1>1 DEF ExecInv, TypeInv, PassInv
<1>3. ASSUME NEW q \in Passes, pass' = [pass EXCEPT ![i] = q], q.run = p.run, q.tree = p.tree,
             p.pc \notin Unlocked, q.pc \notin Unlocked, UNCHANGED lock,
             q.pc \in Unclaimed => q.claims = {},
             q.pc \in AtNode => q.node \in Node,
             q.pc \in Holding => MatterOf(q.node) \in q.claims,
             q.pc = "claim" => MatterOf(q.node) \in Frozen[q.run],
             \A m \in q.claims : \/ claim'[m] = i /\ m \in Frozen[p.run]
                                 \/ m \in p.claims /\ claim'[m] = claim[m]
      PROVE  \E r \in Passes : Moves(i, r)
  <2>1. q.pc # "unbegun" /\ Begun(i) BY <1>1, <1>3 DEF Unlocked, Begun
  <2>2. lock'[q.run] = i /\ q.run \in Run BY <1>2, <1>3 DEF GoodPass, Unlocked
  <2>3. ASSUME NEW m \in q.claims PROVE m \in Frozen[q.run] /\ (claim'[m] = i \/ Sealed(m)')
    <3>1. m \in Matter BY DEF Passes
    <3>2. Sealed(m) => Sealed(m)' BY <1>2, <3>1, SealedStays
    <3> QED BY <1>2, <1>3, <3>2 DEF GoodPass
  <2>4. GoodPass(i, q)' BY <1>3, <2>2, <2>3 DEF GoodPass
  <2> QED BY <1>1, <1>3, <2>1, <2>4 DEF Moves
<1> DEFINE
  Goal == \E q \in Passes : Moves(i, q)
  Pc(pc) == [p EXCEPT !.pc = pc]
<1>4. \A pc \in AtNode \cup Unclaimed \cup {"derive", "settle", "return"} :
        /\ Pc(pc) \in Passes /\ Pc(pc).pc = pc /\ Pc(pc).run = p.run /\ Pc(pc).tree = p.tree
        /\ Pc(pc).claims = p.claims /\ Pc(pc).node = p.node
  BY <1>2 DEF Passes
<1>5. ASSUME NEW pc \in (Holding \cup {"derive", "skip", "settle", "return"}),
             p.pc \in AtNode \cup {"settle"}, pass' = [pass EXCEPT ![i] = Pc(pc)], UNCHANGED <<lock, claim>>,
             pc \in Holding => p.pc \in Holding, pc \in AtNode => p.pc \in AtNode
      PROVE  Goal
  <2>1. /\ pc \in AtNode \cup Unclaimed \cup {"derive", "settle", "return"}
        /\ pc \notin Unclaimed /\ p.pc \notin Unlocked /\ pc # "claim" /\ pc \notin Unlocked
    BY <1>5 DEF AtNode, Holding, Unclaimed, Unlocked
  <2>2. pc \in AtNode => p.node \in Node BY <1>2, <1>5 DEF GoodPass
  <2>3. pc \in Holding => MatterOf(p.node) \in p.claims BY <1>2, <1>5 DEF GoodPass
  <2> HIDE DEF Pc
  <2> QED BY <1>3, <1>4, <1>5, <2>1, <2>2, <2>3
<1>6. CASE Claim(i) /\ UNCHANGED claim
  <2>1. p.pc = "claim" /\ UNCHANGED lock BY <1>1, <1>6 DEF Claim
  <2>2. CASE pass' = [pass EXCEPT ![i] = Pc("skip")] BY <1>5, <1>6, <2>1, <2>2 DEF AtNode, Holding
  <2>3. CASE OpenClaim(i)
    <3>1. M(i) \in Matter BY <1>1, <1>2, <2>1, Shape DEF M, GoodPass, AtNode
    <3> QED BY <1>2, <1>6, <2>3, <3>1, Shape DEF OpenClaim, TypeInv
  <2> QED BY <1>1, <1>6, <2>2, <2>3 DEF Claim, Goto, To
<1>7. CASE \/ Plan(i) \/ StartNode(i) \/ SpawnBuilder(i) \/ Work(i) \/ FinishNode(i)
           \/ CloseBuilder(i) \/ Containers(i) \/ FinishMatter(i)
  <2>1. p.pc \in Holding /\ UNCHANGED <<lock, claim>>
    BY <1>1, <1>7 DEF Plan, StartNode, SpawnBuilder, Work, FinishNode, CloseBuilder, Containers, FinishMatter, Holding
  <2>2. PICK pc \in Holding \cup {"derive"} : pass' = [pass EXCEPT ![i] = Pc(pc)]
    BY <1>1, <1>7 DEF Goto, To, Plan, StartNode, SpawnBuilder, Work, FinishNode, CloseBuilder, Containers,
       FinishMatter, Holding
  <2> QED BY <1>5, <2>1, <2>2 DEF AtNode
<1>8. CASE Author(i)
  <2>1. p.pc = "author" /\ UNCHANGED <<lock, claim>> BY <1>1, <1>8 DEF Author
  <2>2. CASE pass' = [pass EXCEPT ![i] = Pc("derive")] BY <1>5, <2>1, <2>2 DEF AtNode, Holding
  <2>3. CASE UNCHANGED pass
    <3>1. pass' = [pass EXCEPT ![i] = p] BY <1>1, <1>2, <2>3 DEF TypeInv
    <3>2. p.pc \notin Unclaimed /\ p.pc \notin Unlocked /\ p.pc # "claim" BY <2>1 DEF Unclaimed, Unlocked
    <3> QED BY <1>2, <1>3, <2>1, <3>1, <3>2 DEF GoodPass
  <2> QED BY <1>1, <1>8, <2>2, <2>3 DEF Author, Goto, To
<1>9. CASE Conclude(i)
  <2>1. p.pc = "settle" /\ UNCHANGED <<lock, claim>> /\ pass' = [pass EXCEPT ![i] = Pc("return")]
    BY <1>1, <1>9 DEF Conclude, Goto, To
  <2> QED BY <1>5, <2>1 DEF AtNode, Holding
<1>10. CASE Derive(i)
  <2>1. p.pc = "derive" /\ UNCHANGED <<lock, claim>> BY <1>1, <1>10 DEF Derive
  <2>2. p.pc \notin Unlocked /\ p.run \in Run BY <1>2, <2>1 DEF GoodPass, Unlocked
  <2>3. ASSUME NEW n \in Selected(i),
               pass' = [pass EXCEPT ![i] =
                  [p EXCEPT !.pc = IF MatterOf(n) \in p.claims THEN "plan" ELSE "claim",
                            !.node = n, !.fresh = lifecycle[n] = "planned"]]
        PROVE  Goal
    <3>1. n \in Node /\ MatterOf(n) \in Frozen[p.run] BY <1>1, SelectedIn
    <3>2. PICK c : c = IF MatterOf(n) \in p.claims THEN "plan" ELSE "claim" OBVIOUS
    <3>3. PICK f \in BOOLEAN : f = (lifecycle[n] = "planned") OBVIOUS
    <3>4. PICK q : q = [p EXCEPT !.pc = c, !.node = n, !.fresh = f] OBVIOUS
    <3>5. pass' = [pass EXCEPT ![i] = q] BY <2>3, <3>2, <3>3, <3>4, Zenon
    <3>6. c \in AtNode /\ c \notin Unclaimed /\ c \notin Unlocked /\ (c \in Holding => MatterOf(n) \in p.claims)
      BY <3>2 DEF AtNode, Holding, Unclaimed, Unlocked
    <3>7. q \in Passes /\ q.run = p.run /\ q.tree = p.tree /\ q.claims = p.claims /\ q.node = n /\ q.pc = c
      BY <1>2, <3>1, <3>3, <3>4, <3>6 DEF Passes
    <3> QED BY <1>3, <2>1, <2>2, <3>1, <3>5, <3>6, <3>7
  <2>4. ASSUME pass' = [pass EXCEPT ![i] = [p EXCEPT !.pc = "settle", !.node = None, !.fresh = FALSE,
                                                     !.todo = Frozen[p.run]]]
        PROVE  Goal
    <3>1. PICK q : q = [p EXCEPT !.pc = "settle", !.node = None, !.fresh = FALSE, !.todo = Frozen[p.run]] OBVIOUS
    <3>2. Frozen[p.run] \subseteq Matter BY <2>2, ExecutionAssumption
    <3>3. /\ q \in Passes /\ q.run = p.run /\ q.tree = p.tree /\ q.claims = p.claims /\ q.pc = "settle"
      BY <1>2, <3>1, <3>2 DEF Passes
    <3>4. q.pc \notin Unclaimed /\ q.pc \notin Unlocked /\ q.pc \notin AtNode /\ q.pc \notin Holding
      BY <3>3 DEF Unclaimed, Unlocked, AtNode, Holding
    <3> QED BY <1>3, <2>1, <2>2, <2>4, <3>1, <3>3, <3>4
  <2> QED BY <1>1, <1>10, <2>3, <2>4 DEF Derive, To
<1>11. CASE Claim(i) /\ OpenClaim(i) /\ To(i, [pass[i] EXCEPT !.pc = "plan", !.claims = @ \cup {M(i)}])
  <2>1. PICK m : m = M(i) OBVIOUS
  <2>2. p.pc = "claim" /\ UNCHANGED lock BY <1>1, <1>11 DEF Claim
  <2>3. p.pc \notin Unlocked BY <2>2 DEF Unlocked
  <2>4. p.node \in Node /\ m = MatterOf(p.node) /\ m \in Matter /\ m \in Frozen[p.run]
    BY <1>1, <1>2, <2>1, <2>2, Shape DEF M, GoodPass, AtNode
  <2>5. PICK q : q = [p EXCEPT !.pc = "plan", !.claims = @ \cup {m}] OBVIOUS
  <2>6. /\ q \in Passes /\ q.run = p.run /\ q.tree = p.tree /\ q.claims = p.claims \cup {m} /\ q.pc = "plan"
        /\ q.node = p.node
    BY <1>2, <2>4, <2>5 DEF Passes, AtNode, Holding
  <2>7. q.pc \notin Unclaimed /\ q.pc \notin Unlocked /\ q.pc # "claim" BY <2>6 DEF Unclaimed, Unlocked
  <2>8. claim' = [claim EXCEPT ![m] = i] BY <1>11, <2>1 DEF OpenClaim
  <2>9. claim'[m] = i /\ \A k \in Matter \ {m} : claim'[k] = claim[k] BY <1>2, <2>4, <2>8 DEF TypeInv
  <2>10. \A k \in q.claims : \/ claim'[k] = i /\ k \in Frozen[p.run]
                             \/ k \in p.claims /\ claim'[k] = claim[k]
    BY <1>2, <2>4, <2>6, <2>9 DEF Passes
  <2>11. pass' = [pass EXCEPT ![i] = q] BY <1>1, <1>11, <2>1, <2>5 DEF To
  <2> QED BY <1>3, <2>2, <2>3, <2>4, <2>6, <2>7, <2>10, <2>11
<1>12. CASE Skip(i)
  <2>1. PICK next \in {"derive", "return"} :
          pass' = [pass EXCEPT ![i] = [p EXCEPT !.pc = next, !.skipped = Skipped(i, M(i))]]
    BY <1>1, <1>12 DEF Skip, To
  <2>2. p.pc = "skip" /\ UNCHANGED <<lock, claim>> BY <1>1, <1>12 DEF Skip
  <2>3. p.pc \notin Unlocked BY <2>2 DEF Unlocked
  <2>4. M(i) \in Matter BY <1>1, <1>2, <2>2, Shape DEF M, GoodPass, AtNode
  <2>5. PICK s : s = Skipped(i, M(i)) OBVIOUS
  <2>6. s \subseteq Matter BY <1>1, <1>2, <2>4, <2>5 DEF Skipped, Passes
  <2>7. PICK q : q = [p EXCEPT !.pc = next, !.skipped = s] OBVIOUS
  <2>8. q \in Passes /\ q.run = p.run /\ q.tree = p.tree /\ q.claims = p.claims /\ q.pc = next
    BY <1>2, <2>6, <2>7 DEF Passes
  <2>9. q.pc \notin Unclaimed /\ q.pc \notin Unlocked /\ q.pc \notin AtNode /\ q.pc \notin Holding /\ q.pc # "claim"
    BY <2>8 DEF Unclaimed, Unlocked, AtNode, Holding
  <2> QED BY <1>3, <2>1, <2>2, <2>3, <2>5, <2>7, <2>8, <2>9
<1>13. CASE Release(i)
  <2>1. PICK m : m = M(i) OBVIOUS
  <2>2. p.pc \in {"release", "fail"} /\ UNCHANGED lock /\ CloseClaims({m}) BY <1>1, <1>13, <2>1 DEF Release, CloseClaim
  <2>3. p.pc \notin Unlocked /\ p.pc \in AtNode BY <2>2 DEF Unlocked, AtNode, Holding
  <2>4. \A k \in Matter \ {m} : claim'[k] = claim[k] BY <2>2 DEF CloseClaims
  <2>5. PICK pc \in {"skip", "derive"} : pass' = [pass EXCEPT ![i] = [p EXCEPT !.pc = pc, !.claims = @ \ {m}]]
    <3>1. pass' = [pass EXCEPT ![i] = [p EXCEPT !.pc = IF p.pc = "fail" THEN "skip" ELSE "derive",
                                                !.claims = @ \ {m}]]
      BY <1>1, <1>13, <2>1 DEF Release, To
    <3> QED BY <3>1
  <2>6. PICK q : q = [p EXCEPT !.pc = pc, !.claims = @ \ {m}] OBVIOUS
  <2>7. /\ q \in Passes /\ q.run = p.run /\ q.tree = p.tree /\ q.claims = p.claims \ {m} /\ q.pc = pc
        /\ q.node = p.node
    BY <1>2, <2>6 DEF Passes, AtNode
  <2>8. q.pc \notin Unclaimed /\ q.pc \notin Unlocked /\ q.pc \notin Holding /\ q.pc # "claim"
    BY <2>7 DEF Unclaimed, Unlocked, Holding
  <2>9. p.node \in Node BY <1>2, <2>3 DEF GoodPass
  <2>10. \A k \in q.claims : k \in p.claims /\ claim'[k] = claim[k] BY <1>2, <2>4, <2>7 DEF Passes
  <2> QED BY <1>3, <2>2, <2>3, <2>5, <2>6, <2>7, <2>8, <2>9, <2>10
<1>14. CASE SettleMember(i)
  <2>1. PICK m : m = Min(p.todo) OBVIOUS
  <2>2. p.pc = "settle" /\ p.todo # {} /\ UNCHANGED lock BY <1>1, <1>14 DEF SettleMember
  <2>3. p.pc \notin Unlocked BY <2>2 DEF Unlocked
  <2>4. m \in Matter
    <3>1. p.todo \subseteq Matter BY <1>2 DEF Passes
    <3>2. p.todo \subseteq Node BY <3>1, Shape
    <3> QED BY <2>1, <2>2, <3>1, <3>2, MinIn
  <2>5. ASSUME NEW next \in {"settle", "return"}, UNCHANGED claim,
               pass' = [pass EXCEPT ![i] = [p EXCEPT !.pc = next, !.skipped = @ \cup {m}, !.standby = TRUE]]
        PROVE  Goal
    <3>1. PICK q : q = [p EXCEPT !.pc = next, !.skipped = @ \cup {m}, !.standby = TRUE] OBVIOUS
    <3>2. q \in Passes /\ q.run = p.run /\ q.tree = p.tree /\ q.claims = p.claims /\ q.pc = next
      BY <1>2, <2>4, <3>1 DEF Passes
    <3>3. q.pc \notin Unclaimed /\ q.pc \notin Unlocked /\ q.pc \notin AtNode /\ q.pc \notin Holding /\ q.pc # "claim"
      BY <3>2 DEF Unclaimed, Unlocked, AtNode, Holding
    <3> QED BY <1>3, <2>2, <2>3, <2>5, <3>1, <3>2, <3>3
  <2>6. ASSUME NEW b \in BOOLEAN, \A k \in Matter \ {m} : claim'[k] = claim[k],
               pass' = [pass EXCEPT ![i] = [p EXCEPT !.todo = @ \ {m}, !.claims = @ \ {m}, !.standby = b]]
        PROVE  Goal
    <3>1. PICK q : q = [p EXCEPT !.todo = @ \ {m}, !.claims = @ \ {m}, !.standby = b] OBVIOUS
    <3>2. q \in Passes /\ q.run = p.run /\ q.tree = p.tree /\ q.claims = p.claims \ {m} /\ q.pc = "settle"
      BY <1>2, <2>2, <3>1 DEF Passes
    <3>3. q.pc \notin Unclaimed /\ q.pc \notin Unlocked /\ q.pc \notin AtNode /\ q.pc \notin Holding /\ q.pc # "claim"
      BY <3>2 DEF Unclaimed, Unlocked, AtNode, Holding
    <3>4. \A k \in q.claims : k \in p.claims /\ claim'[k] = claim[k] BY <1>2, <2>6, <3>2 DEF Passes
    <3> QED BY <1>3, <2>2, <2>3, <2>6, <3>1, <3>2, <3>3, <3>4
  <2>7. \/ \E next \in {"settle", "return"} :
             /\ UNCHANGED claim
             /\ pass' = [pass EXCEPT ![i] = [p EXCEPT !.pc = next, !.skipped = @ \cup {m}, !.standby = TRUE]]
        \/ /\ CloseClaims({m}) \/ UNCHANGED claim
           /\ pass' = [pass EXCEPT ![i] = [p EXCEPT !.todo = @ \ {m}, !.claims = @ \ {m},
                                                     !.standby = p.standby \/ StandsBy(m)]]
    BY <1>1, <1>14, <2>1 DEF SettleMember, CloseClaim, To
  <2>8. CloseClaims({m}) \/ UNCHANGED claim => \A k \in Matter \ {m} : claim'[k] = claim[k]
    BY DEF CloseClaims
  <2>9. (p.standby \/ StandsBy(m)) \in BOOLEAN OBVIOUS
  <2> QED BY <2>5, <2>6, <2>7, <2>8, <2>9
<1>15. CASE SpawnOrchestrator(i) \/ ReapOrphans(i)
  <2>1. p.pc \in {"spawn", "reap"} /\ UNCHANGED lock BY <1>1, <1>15 DEF SpawnOrchestrator, ReapOrphans
  <2>2. p.pc \notin Unlocked /\ p.pc \in Unclaimed BY <2>1 DEF Unlocked, Unclaimed
  <2>3. PICK pc \in {"reap", "derive"} : pass' = [pass EXCEPT ![i] = Pc(pc)]
    BY <1>1, <1>15 DEF SpawnOrchestrator, ReapOrphans, Goto, To
  <2>4. p.claims = {} BY <1>2, <2>2 DEF GoodPass
  <2>5. /\ pc \in AtNode \cup Unclaimed \cup {"derive", "settle", "return"}
        /\ pc \notin Unlocked /\ pc \notin AtNode /\ pc \notin Holding /\ pc # "claim"
    BY DEF Unclaimed, Unlocked, AtNode, Holding
  <2> HIDE DEF Pc
  <2> QED BY <1>3, <1>4, <2>1, <2>2, <2>3, <2>4, <2>5
<1>16. CASE Acquire(i)
  <2>1. /\ p.pc = "lock" /\ lock' = [lock EXCEPT ![p.run] = i]
        /\ pass' = [pass EXCEPT ![i] = Pc("spawn")]
    BY <1>1, <1>16 DEF Acquire, Goto, To
  <2>2. p.run \in Run /\ p.claims = {} BY <1>2, <2>1 DEF GoodPass, Unclaimed, Unlocked
  <2>3. lock'[p.run] = i BY <1>2, <2>1, <2>2 DEF TypeInv
  <2>4. "spawn" \in Unclaimed /\ "spawn" \notin AtNode /\ "spawn" \notin Holding
    BY DEF Unclaimed, AtNode, Holding
  <2>5. PICK q : q = Pc("spawn") OBVIOUS
  <2>6. q \in Passes /\ q.pc = "spawn" /\ q.run = p.run /\ q.tree = p.tree /\ q.claims = p.claims
    BY <1>4, <2>4, <2>5
  <2>7. GoodPass(i, q)' BY <2>2, <2>3, <2>4, <2>6 DEF GoodPass
  <2>8. Begun(i) BY <1>1, <2>1 DEF Begun
  <2> QED BY <1>1, <2>1, <2>5, <2>6, <2>7, <2>8 DEF Moves
<1>17. CASE Return(i) \/ Die(i)
  <2>1. PICK q : q = [Unbegun EXCEPT !.pc = "ended", !.run = p.run, !.tree = p.tree] OBVIOUS
  <2>2. pass' = [pass EXCEPT ![i] = q] /\ p.pc # "unbegun"
    BY <1>1, <1>17, <2>1 DEF Return, Die, To, Active
  <2>3. q \in Passes /\ q.pc = "ended" /\ q.run = p.run /\ q.tree = p.tree /\ q.claims = {}
    BY <1>2, <2>1 DEF Unbegun, Passes, Unclaimed, Unlocked
  <2>4. "ended" \in Unlocked /\ "ended" \notin AtNode /\ "ended" \notin Holding
    BY DEF Unlocked, AtNode, Holding
  <2>5. p.run \in Run BY <1>2, <2>2 DEF GoodPass
  <2>6. GoodPass(i, q)' BY <2>3, <2>4, <2>5 DEF GoodPass
  <2> QED BY <1>1, <2>2, <2>3, <2>6 DEF Moves, Begun
<1>18. CASE Claim(i) BY <1>6, <1>11, <1>18 DEF Claim
<1> QED BY <1>7, <1>8, <1>9, <1>10, <1>12, <1>13, <1>14, <1>15, <1>16, <1>17, <1>18 DEF PassStep

\* What a step does to claims: nothing, closes those on some Matters, or opens one.
Closes == \E ms \in SUBSET Matter : CloseClaims(ms) /\ UNCHANGED bracket
Opens ==
  \E i \in Pass :
    /\ Begun(i) /\ M(i) \in Matter /\ OpenClaim(i)
    /\ M(i) \in Frozen[pass[i].run] /\ M(i) \in pass'[i].claims
    /\ UNCHANGED <<role, bracket, run, swept>>

(* Claims change in no other way (openDispatch, closeDispatch, sweepBatch,    *)
(* standDownRun).                                                            *)
LEMMA ClaimMoves ==
  ASSUME ExecInv, Next
  PROVE  UNCHANGED claim \/ Closes \/ Opens
<1>1. TypeInv /\ PassInv BY DEF ExecInv
<1>2. \A r \in Run : OpenDispatchesForRun(r) \subseteq Matter BY DEF OpenDispatchesForRun
<1>3. ASSUME NEW m, NEW b, SealSweep(m, b), UNCHANGED bracket PROVE UNCHANGED claim \/ Closes
  <2> DEFINE ms == UNION {OpenDispatchesForRun(r) : r \in {q \in Run : Anonymous[q] = m}}
  <2>1. ms \in SUBSET Matter BY <1>2
  <2>2. CloseClaims(ms) \/ UNCHANGED claim BY <1>3 DEF SealSweep
  <2> HIDE DEF ms
  <2> QED BY <1>3, <2>1, <2>2 DEF Closes
<1>4. ASSUME NEW r \in Run, StartRun(r) \/ StandDownRun(r) PROVE UNCHANGED claim \/ Closes
  <2>1. CASE StandDownRun(r)
    <3>1. CloseClaims(OpenDispatchesForRun(r)) /\ UNCHANGED bracket BY <2>1 DEF StandDownRun
    <3> QED BY <1>2, <3>1 DEF Closes
  <2> QED BY <1>4, <2>1 DEF StartRun
<1>5. ASSUME NEW n \in Handled, NEW from, NEW to, Transition(n, from, to) PROVE UNCHANGED claim \/ Closes
  BY <1>3, <1>5 DEF Transition
<1>6. ASSUME NEW m \in Matter, CloseGate(m) PROVE UNCHANGED claim \/ Closes
  BY <1>3, <1>6 DEF CloseGate
<1>7. ASSUME NEW i \in Pass, PassStep(i) PROVE UNCHANGED claim \/ Closes \/ Opens
  <2>1. ASSUME pass[i].pc \in AtNode PROVE M(i) \in Matter
    BY <1>1, <2>1, Shape DEF PassInv, GoodPass, M
  <2>2. CASE Claim(i)
    <3>1. pass[i].pc = "claim" /\ UNCHANGED <<plan, run, bracket, role, lock>> BY <2>2 DEF Claim
    <3>2. Begun(i) /\ pass[i].pc \in AtNode /\ UNCHANGED swept BY <3>1 DEF Begun, AtNode, plan
    <3>3. M(i) \in Frozen[pass[i].run] BY <1>1, <3>1 DEF PassInv, GoodPass, M
    <3>4. ASSUME OpenClaim(i), To(i, [pass[i] EXCEPT !.pc = "plan", !.claims = @ \cup {M(i)}])
          PROVE  M(i) \in pass'[i].claims
      BY <1>1, <3>4 DEF To, TypeInv, Passes
    <3> QED BY <2>1, <2>2, <3>1, <3>2, <3>3, <3>4 DEF Claim, Opens
  <2>3. CASE Release(i)
    <3>1. pass[i].pc \in AtNode /\ UNCHANGED bracket /\ CloseClaims({M(i)})
      BY <2>3 DEF Release, CloseClaim, AtNode, Holding
    <3> QED BY <2>1, <3>1 DEF Closes
  <2>4. CASE SettleMember(i)
    <3>1. PICK m : m = Min(pass[i].todo) OBVIOUS
    <3>2. UNCHANGED claim \/ (m \in pass[i].claims /\ CloseClaims({m})) BY <2>4, <3>1 DEF SettleMember, CloseClaim
    <3>3. pass[i].claims \subseteq Matter BY <1>1 DEF TypeInv, Passes
    <3>4. UNCHANGED bracket BY <2>4 DEF SettleMember
    <3> QED BY <3>2, <3>3, <3>4 DEF Closes
  <2>5. CASE ReapOrphans(i)
    <3>1. pass[i].run \in Run BY <1>1, <2>5 DEF ReapOrphans, PassInv, GoodPass
    <3>2. CloseClaims(OpenDispatchesForRun(pass[i].run)) /\ UNCHANGED bracket BY <2>5 DEF ReapOrphans
    <3> QED BY <1>2, <3>1, <3>2 DEF Closes
  <2> QED BY <1>7, <2>2, <2>3, <2>4, <2>5
          DEF PassStep, Acquire, SpawnOrchestrator, Derive, Plan, Author, StartNode, SpawnBuilder, Work, FinishNode,
              CloseBuilder, Containers, FinishMatter, Skip, Conclude, Return, Die
<1>8. ASSUME \/ \E n \in Handled : Start(n)
             \/ \E w \in Worktree : OpenBracket(w) \/ CloseBracket(w) \/ CloseRole(w)
             \/ \E i \in Pass, w \in Worktree, r \in Run, resume \in BOOLEAN : Begin(i, w, r, resume)
      PROVE  UNCHANGED claim
  BY <1>8 DEF Start, OpenBracket, CloseBracket, CloseRole, Begin
<1> QED BY <1>4, <1>5, <1>6, <1>7, <1>8 DEF Next

(* A pass that has begun stays begun, over the Run and from the worktree it   *)
(* began with (Orchestrate, Resume).                                         *)
LEMMA SamePasses ==
  ASSUME ExecInv, Next
  PROVE  /\ pass' \in [Pass -> Passes]
         /\ \A j \in Pass : Begun(j) => /\ Begun(j)'
                                        /\ pass'[j].run = pass[j].run /\ pass'[j].tree = pass[j].tree
<1>1. pass \in [Pass -> Passes] BY DEF ExecInv, TypeInv
<1>2. CASE UNCHANGED pass BY <1>1, <1>2 DEF Begun
<1>3. ASSUME NEW i \in Pass, PassStep(i)
      PROVE  /\ pass' \in [Pass -> Passes]
             /\ \A j \in Pass : Begun(j) => /\ Begun(j)'
                                            /\ pass'[j].run = pass[j].run /\ pass'[j].tree = pass[j].tree
  <2>1. PICK q \in Passes : Moves(i, q) BY <1>3, PassMoves
  <2> QED BY <1>1, <2>1 DEF Moves, Begun
<1>4. ASSUME NEW i \in Pass, NEW w \in Worktree, NEW r \in Run, NEW resume \in BOOLEAN, Begin(i, w, r, resume)
      PROVE  /\ pass' \in [Pass -> Passes]
             /\ \A j \in Pass : Begun(j) => /\ Begun(j)'
                                            /\ pass'[j].run = pass[j].run /\ pass'[j].tree = pass[j].tree
  <2>1. PICK q : q = [Unbegun EXCEPT !.pc = "lock", !.run = r, !.tree = w, !.resume = resume] OBVIOUS
  <2>2. q = [pc |-> "lock", run |-> r, tree |-> w, resume |-> resume,
             node |-> None, fresh |-> FALSE, claims |-> {}, skipped |-> {}, todo |-> {}, standby |-> FALSE]
    BY <2>1 DEF Unbegun
  <2>3. q \in Passes BY <2>2 DEF Passes, Unclaimed, Unlocked
  <2>4. pass' = [pass EXCEPT ![i] = q] /\ pass[i].pc = "unbegun" BY <1>4, <2>1 DEF Begin, To
  <2> QED BY <1>1, <2>3, <2>4 DEF Begun
<1>5. ASSUME \/ \E r \in Run : StartRun(r) \/ StandDownRun(r)
             \/ \E n \in Handled : \/ Start(n)
                                   \/ \E to \in {"done", "canceled", "paused"} : Transition(n, "in_progress", to)
                                   \/ Transition(n, "paused", "in_progress")
             \/ \E m \in Matter : CloseGate(m)
             \/ \E w \in Worktree : OpenBracket(w) \/ CloseBracket(w) \/ CloseRole(w)
      PROVE  UNCHANGED pass
  BY <1>5 DEF StartRun, StandDownRun, Start, Transition, CloseGate, OpenBracket, CloseBracket, CloseRole
<1> QED BY <1>2, <1>3, <1>4, <1>5 DEF Next

(* Nobody but its holder gives a Run lock up (lockRun).                      *)
LEMMA LockHeld ==
  ASSUME ExecInv, Next, NEW j \in Pass, ~PassStep(j), NEW r \in Run, lock[r] = j
  PROVE  lock'[r] = j
<1>1. TypeInv /\ PassInv /\ j # None BY Shape DEF ExecInv
<1>2. ASSUME NEW i \in Pass, PassStep(i) PROVE lock'[r] = j
  <2>1. i # j BY <1>2
  <2>2. CASE Acquire(i)
    <3>1. lock[pass[i].run] = None /\ lock' = [lock EXCEPT ![pass[i].run] = i] BY <2>2 DEF Acquire
    <3> QED BY <1>1, <3>1 DEF TypeInv
  <2>3. CASE Return(i) \/ Die(i) BY <2>1, <2>3 DEF Return, Die
  <2> QED BY <1>2, <2>2, <2>3
          DEF PassStep, SpawnOrchestrator, ReapOrphans, Derive, Claim, Plan, Author, StartNode, SpawnBuilder, Work,
              FinishNode, CloseBuilder, Release, Containers, FinishMatter, Skip, SettleMember, Conclude
<1> QED BY <1>2 DEF Next, StartRun, StandDownRun, Start, Transition, CloseGate, OpenBracket, CloseBracket,
                    CloseRole, Begin

(* What a pass has claimed stays its own while others step: a stand-down and   *)
(* a resume need the Run lock, and the sweep of an anonymous Batch closes the  *)
(* claim on the Matter that has just sealed (standDownRun, sweepBatch).       *)
LEMMA ClaimHeld ==
  ASSUME ExecInv, Next, NEW j \in Pass, ~PassStep(j), NEW m \in pass[j].claims, claim[m] = j
  PROVE  claim'[m] = j \/ Sealed(m)'
<1>1. TypeInv /\ PassInv /\ j # None BY Shape DEF ExecInv
<1>2. pass[j].pc \notin Unclaimed /\ lock[pass[j].run] = j /\ pass[j].run \in Run /\ m \in Frozen[pass[j].run]
      /\ m \in Matter
  <2>1. GoodPass(j, pass[j]) /\ pass[j] \in Passes BY <1>1 DEF PassInv, TypeInv
  <2>2. pass[j].pc \notin Unclaimed BY <2>1 DEF GoodPass
  <2>3. pass[j].pc \notin Unlocked /\ pass[j].pc # "unbegun" BY <2>2 DEF Unclaimed, Unlocked
  <2> QED BY <2>1, <2>2, <2>3 DEF GoodPass, Passes
<1>3. ASSUME NEW ms, CloseClaims(ms), m \notin ms PROVE claim'[m] = j
  BY <1>2, <1>3 DEF CloseClaims
<1>4. ASSUME NEW a \in Matter, NEW b, b => Sealed(a)', SealSweep(a, b) PROVE claim'[m] = j \/ Sealed(m)'
  <2>1. CASE m = a /\ b BY <1>4, <2>1
  <2>2. CASE m # a /\ Anonymous[pass[j].run] = a
    BY <1>2, <2>2, Shape, ExecutionAssumption
  <2>3. CASE Anonymous[pass[j].run] # a
    <3> DEFINE ms == UNION {OpenDispatchesForRun(r) : r \in {q \in Run : Anonymous[q] = a}}
    <3>1. m \notin ms BY <2>3 DEF OpenDispatchesForRun
    <3>2. CloseClaims(ms) \/ UNCHANGED claim BY <1>4 DEF SealSweep
    <3> HIDE DEF ms
    <3> QED BY <1>3, <3>1, <3>2
  <2>4. CASE ~b BY <1>4, <2>4 DEF SealSweep
  <2> QED BY <2>1, <2>2, <2>3, <2>4
<1>5. ASSUME NEW n \in Handled, NEW from, NEW to, Transition(n, from, to) PROVE claim'[m] = j \/ Sealed(m)'
  <2> DEFINE b == n \in Matter /\ to = "done" /\ (n \in Gated => n \in closed)
  <2>1. SealSweep(n, b) /\ UNCHANGED closed /\ lifecycle' = [lifecycle EXCEPT ![n] = to] BY <1>5 DEF Transition
  <2>2. n \in Node BY ExecutionAssumption
  <2>3. b => Sealed(n)' BY <1>1, <2>1, <2>2 DEF Sealed, TypeInv
  <2>4. CASE n \in Matter
    <3> HIDE DEF b
    <3> QED BY <1>4, <2>1, <2>3, <2>4
  <2>5. CASE n \notin Matter BY <2>1, <2>5 DEF SealSweep
  <2> QED BY <2>4, <2>5
<1>6. ASSUME NEW a \in Matter, CloseGate(a) PROVE claim'[m] = j \/ Sealed(m)'
  <2>1. SealSweep(a, lifecycle[a] = "done") /\ UNCHANGED lifecycle /\ closed' = closed \cup {a} BY <1>6 DEF CloseGate
  <2>2. lifecycle[a] = "done" => Sealed(a)' BY <2>1 DEF Sealed
  <2> QED BY <1>4, <2>1, <2>2
<1>7. ASSUME NEW r \in Run, StandDownRun(r) PROVE claim'[m] = j
  <2>1. CloseClaims(OpenDispatchesForRun(r)) /\ lock[r] = None BY <1>7 DEF StandDownRun
  <2>2. m \notin OpenDispatchesForRun(r) BY <1>1, <1>2, <2>1 DEF OpenDispatchesForRun
  <2> QED BY <1>3, <2>1, <2>2
<1>8. ASSUME NEW i \in Pass, PassStep(i) PROVE claim'[m] = j
  <2>1. i # j BY <1>8
  <2>2. CASE Claim(i) BY <1>1, <1>2, <2>2 DEF Claim, OpenClaim, TypeInv
  <2>3. CASE Release(i)
    <3>1. CloseClaims({M(i)}) /\ claim[M(i)] = i BY <2>3 DEF Release, CloseClaim
    <3> QED BY <1>3, <2>1, <3>1
  <2>4. CASE SettleMember(i)
    <3>1. PICK a : a = Min(pass[i].todo) OBVIOUS
    <3>2. UNCHANGED claim \/ (claim[a] = i /\ CloseClaims({a})) BY <2>4, <3>1 DEF SettleMember, CloseClaim
    <3> QED BY <1>3, <2>1, <3>2
  <2>5. CASE ReapOrphans(i)
    <3>1. CloseClaims(OpenDispatchesForRun(pass[i].run)) /\ pass[i].pc = "reap" BY <2>5 DEF ReapOrphans
    <3>2. lock[pass[i].run] = i BY <1>1, <3>1 DEF PassInv, GoodPass, Unlocked
    <3>3. m \notin OpenDispatchesForRun(pass[i].run) BY <1>2, <2>1, <3>2 DEF OpenDispatchesForRun
    <3> QED BY <1>3, <3>1, <3>3
  <2> QED BY <1>8, <2>2, <2>3, <2>4, <2>5
          DEF PassStep, Acquire, SpawnOrchestrator, Derive, Plan, Author, StartNode, SpawnBuilder, Work, FinishNode,
              CloseBuilder, Containers, FinishMatter, Skip, Conclude, Return, Die
<1>9. ASSUME \/ \E r \in Run : StartRun(r)
             \/ \E n \in Handled : Start(n)
             \/ \E w \in Worktree : OpenBracket(w) \/ CloseBracket(w) \/ CloseRole(w)
             \/ \E i \in Pass, w \in Worktree, r \in Run, resume \in BOOLEAN : Begin(i, w, r, resume)
      PROVE  UNCHANGED claim
  BY <1>9 DEF StartRun, Start, OpenBracket, CloseBracket, CloseRole, Begin
<1> QED BY <1>5, <1>6, <1>7, <1>8, <1>9 DEF Next

(* Every pass keeps to its part of the invariant, the one that steps and the   *)
(* ones that look on.                                                        *)
LEMMA PassesKept ==
  ASSUME ExecInv, Next
  PROVE  PassInv'
<1>1. TypeInv /\ PassInv BY DEF ExecInv
<1> SUFFICES ASSUME NEW j \in Pass PROVE GoodPass(j, pass[j])' BY DEF PassInv
<1>2. CASE PassStep(j)
  <2>1. PICK q \in Passes : Moves(j, q) BY <1>2, PassMoves
  <2>2. pass'[j] = q BY <1>1, <2>1 DEF Moves, TypeInv
  <2> QED BY <2>1, <2>2 DEF Moves, GoodPass
<1>3. CASE ~PassStep(j) /\ pass'[j] = pass[j]
  <2>1. PICK p : p = pass[j] OBVIOUS
  <2>2. GoodPass(j, p) /\ p \in Passes /\ p = pass'[j] BY <1>1, <1>3, <2>1 DEF PassInv, TypeInv
  <2>3. p.pc # "unbegun" => p.run \in Run BY <2>2 DEF GoodPass
  <2>4. p.pc \notin Unlocked => lock'[p.run] = j
    BY <1>3, <2>2, <2>3, LockHeld DEF GoodPass, Unlocked
  <2>5. ASSUME NEW m \in p.claims PROVE m \in Frozen[p.run] /\ (claim'[m] = j \/ Sealed(m)')
    <3>1. m \in Matter /\ m \in Frozen[p.run] /\ (claim[m] = j \/ Sealed(m)) BY <2>2 DEF GoodPass, Passes
    <3>2. CASE claim[m] = j BY <1>3, <2>1, <3>1, <3>2, ClaimHeld
    <3>3. CASE Sealed(m) BY <1>1, <3>1, <3>3, SealedStays
    <3> QED BY <3>1, <3>2, <3>3
  <2> QED BY <2>2, <2>3, <2>4, <2>5 DEF GoodPass
<1>4. ASSUME NEW w \in Worktree, NEW r \in Run, NEW resume \in BOOLEAN, Begin(j, w, r, resume)
      PROVE  GoodPass(j, pass[j])'
  <2>1. PICK q : q = [Unbegun EXCEPT !.pc = "lock", !.run = r, !.tree = w, !.resume = resume] OBVIOUS
  <2>2. q = [pc |-> "lock", run |-> r, tree |-> w, resume |-> resume,
             node |-> None, fresh |-> FALSE, claims |-> {}, skipped |-> {}, todo |-> {}, standby |-> FALSE]
    BY <2>1 DEF Unbegun
  <2>3. pass'[j] = q BY <1>1, <1>4, <2>1 DEF Begin, To, TypeInv
  <2>4. q.pc = "lock" /\ q.run = r /\ q.claims = {} BY <2>2
  <2> HIDE DEF Pass
  <2> QED BY <2>3, <2>4 DEF GoodPass, Unlocked, AtNode, Holding
<1>5. ASSUME NEW i \in Pass, PassStep(i), i # j PROVE pass'[j] = pass[j]
  <2>1. PICK q \in Passes : Moves(i, q) BY <1>5, PassMoves
  <2> QED BY <1>1, <1>5, <2>1 DEF Moves, TypeInv
<1>6. ASSUME NEW i \in Pass, i # j, NEW w \in Worktree, NEW r \in Run, NEW resume \in BOOLEAN, Begin(i, w, r, resume)
      PROVE  pass'[j] = pass[j]
  <2>1. PICK q : q = [Unbegun EXCEPT !.pc = "lock", !.run = r, !.tree = w, !.resume = resume] OBVIOUS
  <2>2. pass' = [pass EXCEPT ![i] = q] BY <1>6, <2>1 DEF Begin, To
  <2> QED BY <1>1, <1>6, <2>2 DEF TypeInv
<1>7. ASSUME \/ \E r \in Run : StartRun(r) \/ StandDownRun(r)
             \/ \E n \in Handled : \/ Start(n)
                                   \/ \E to \in {"done", "canceled", "paused"} : Transition(n, "in_progress", to)
                                   \/ Transition(n, "paused", "in_progress")
             \/ \E m \in Matter : CloseGate(m)
             \/ \E w \in Worktree : OpenBracket(w) \/ CloseBracket(w) \/ CloseRole(w)
      PROVE  pass'[j] = pass[j]
  BY <1>7 DEF StartRun, StandDownRun, Start, Transition, CloseGate, OpenBracket, CloseBracket, CloseRole
<1> QED BY <1>2, <1>3, <1>4, <1>5, <1>6, <1>7 DEF Next

(* A claim belongs to a pass that has begun.                                 *)
LEMMA ClaimsKept ==
  ASSUME ExecInv, Next
  PROVE  ClaimInv' /\ claim' \in [Matter -> Pass \cup {None}]
<1>1. TypeInv /\ ClaimInv BY DEF ExecInv
<1>2. \A j \in Pass : Begun(j) => Begun(j)' BY SamePasses
<1>3. CASE UNCHANGED claim BY <1>1, <1>2, <1>3 DEF TypeInv, ClaimInv
<1>4. CASE Closes BY <1>1, <1>2, <1>4 DEF TypeInv, ClaimInv, Closes, CloseClaims
<1>5. CASE Opens
  <2>1. PICK i \in Pass : Begun(i) /\ M(i) \in Matter /\ OpenClaim(i) BY <1>5 DEF Opens
  <2>2. claim' = [claim EXCEPT ![M(i)] = i] BY <2>1 DEF OpenClaim
  <2> QED BY <1>1, <1>2, <2>1, <2>2 DEF TypeInv, ClaimInv
<1> QED BY <1>3, <1>4, <1>5, ClaimMoves

(* A role lives inside its bracket: closing a Dispatch reaps the roles in it,  *)
(* and a role is spawned only into one that is open (closeDispatch, spawn).    *)
LEMMA RolesKept ==
  ASSUME ExecInv, Next
  PROVE  RoleInv' /\ role' \subseteq RoleRows /\ bracket' \subseteq Worktree
<1> DEFINE Goal == RoleInv' /\ role' \subseteq RoleRows /\ bracket' \subseteq Worktree
<1>1. TypeInv /\ PassInv /\ RoleInv BY DEF ExecInv
<1>2. \A j \in Pass : Begun(j) => Begun(j)' /\ pass'[j].tree = pass[j].tree BY SamePasses
<1>3. \A r \in role : r \in RoleRows /\ r.pass \in Pass /\ r.matter \in Matter \cup {None}
  BY <1>1 DEF TypeInv, RoleRows
<1>4. ASSUME role' \subseteq role, UNCHANGED claim, bracket \subseteq bracket', bracket' \subseteq Worktree PROVE Goal
  BY <1>1, <1>2, <1>3, <1>4 DEF RoleInv
<1>5. ASSUME NEW ms, CloseClaims(ms), UNCHANGED bracket PROVE Goal
  <2>1. role' \subseteq role BY <1>5 DEF CloseClaims, RolesWithout
  <2>2. ASSUME NEW r \in role'
        PROVE  IF r.matter = None THEN pass'[r.pass].tree \in bracket' ELSE claim'[r.matter] = r.pass
    <3>1. r \in role /\ (r.matter = None \/ r.matter \notin ms \/ r.pass # claim[r.matter])
      BY <1>5 DEF CloseClaims, RolesWithout
    <3>2. Begun(r.pass) /\ IF r.matter = None THEN pass[r.pass].tree \in bracket ELSE claim[r.matter] = r.pass
      BY <1>1, <3>1 DEF RoleInv
    <3> QED BY <1>2, <1>3, <1>5, <3>1, <3>2 DEF CloseClaims
  <2>3. ASSUME NEW r \in role' PROVE Begun(r.pass)' BY <1>1, <1>2, <1>3, <2>1 DEF RoleInv
  <2> QED BY <1>1, <1>5, <2>1, <2>2, <2>3 DEF RoleInv, TypeInv
<1>6. ASSUME NEW x \in RoleRows, role' = role \cup {x}, UNCHANGED <<claim, bracket>>, Begun(x.pass),
             IF x.matter = None THEN pass[x.pass].tree \in bracket ELSE claim[x.matter] = x.pass
      PROVE  Goal
  <2>1. x.pass \in Pass BY DEF RoleRows
  <2>2. ASSUME NEW r \in role'
        PROVE  Begun(r.pass)' /\ IF r.matter = None THEN pass'[r.pass].tree \in bracket' ELSE claim'[r.matter] = r.pass
    <3>1. r.pass \in Pass /\ Begun(r.pass)
          /\ IF r.matter = None THEN pass[r.pass].tree \in bracket ELSE claim[r.matter] = r.pass
      BY <1>1, <1>3, <1>6, <2>1 DEF RoleInv
    <3> QED BY <1>2, <1>6, <3>1
  <2> QED BY <1>1, <1>6, <2>2 DEF RoleInv, TypeInv
<1>7. ASSUME NEW w \in Worktree, CloseBracket(w) PROVE Goal
  <2>1. /\ bracket' = bracket \ {w} /\ UNCHANGED <<claim, pass>>
        /\ role' = {r \in role : r.matter # None \/ pass[r.pass].tree # w}
    BY <1>7 DEF CloseBracket
  <2>2. bracket' \subseteq Worktree /\ role' \subseteq RoleRows BY <1>1, <2>1 DEF TypeInv
  <2> QED BY <1>1, <1>3, <2>1, <2>2 DEF RoleInv, Begun
<1>8. ASSUME NEW a, NEW b, SealSweep(a, b), UNCHANGED bracket PROVE Goal
  <2>1. (\E ms : CloseClaims(ms)) \/ UNCHANGED <<claim, role>> BY <1>8 DEF SealSweep
  <2> QED BY <1>1, <1>4, <1>5, <1>8, <2>1 DEF TypeInv
<1>9. bracket \subseteq Worktree BY <1>1 DEF TypeInv
<1>10. ASSUME NEW i \in Pass, PassStep(i) PROVE Goal
  <2>1. ASSUME NEW name \in {"builder", "researcher"}, SpawnRole(i, name, M(i)), pass[i].pc \in Holding,
               UNCHANGED <<claim, bracket>>
        PROVE  Goal
    <3>1. PICK x : x = Instance(name, i, M(i)) OBVIOUS
    <3>2. M(i) \in Matter /\ M(i) # None
      BY <1>1, <2>1, Shape DEF PassInv, GoodPass, AtNode, M
    <3>3. x \in RoleRows /\ x.pass = i /\ x.matter = M(i) BY <3>1, <3>2 DEF Instance, RoleRows
    <3>4. role' = role \cup {x} /\ claim[M(i)] = i BY <2>1, <3>1 DEF SpawnRole
    <3>5. Begun(i) BY <2>1 DEF Begun, Holding
    <3> HIDE DEF Goal
    <3> QED BY <1>6, <2>1, <3>2, <3>3, <3>4, <3>5
  <2>2. CASE SpawnOrchestrator(i)
    <3>1. PICK x : x = Orchestrator(i) OBVIOUS
    <3>2. x \in RoleRows /\ x.pass = i /\ x.matter = None BY <3>1 DEF Orchestrator, Instance, RoleRows
    <3>3. role' = role \cup {x} /\ UNCHANGED <<claim, bracket>> /\ pass[i].tree \in bracket /\ Begun(i)
      BY <2>2, <3>1 DEF SpawnOrchestrator, Begun
    <3> HIDE DEF Goal
    <3> QED BY <1>6, <3>2, <3>3
  <2>3. CASE SpawnBuilder(i) BY <2>1, <2>3 DEF SpawnBuilder, Holding
  <2>4. CASE Plan(i)
    <3>1. UNCHANGED <<claim, bracket>> /\ pass[i].pc \in Holding /\ (SpawnRole(i, "researcher", M(i)) \/ UNCHANGED role)
      BY <2>4 DEF Plan, Holding
    <3> HIDE DEF Goal
    <3> QED BY <1>4, <1>9, <2>1, <3>1
  <2>5. CASE Claim(i)
    <3>1. UNCHANGED <<role, bracket>> /\ (UNCHANGED claim \/ OpenClaim(i)) BY <2>5 DEF Claim
    <3>2. CASE OpenClaim(i)
      <4>1. claim' = [claim EXCEPT ![M(i)] = i] /\ claim[M(i)] = None BY <3>2 DEF OpenClaim
      <4>2. \A r \in role : r.matter # None => claim'[r.matter] = claim[r.matter]
        BY <1>1, <1>3, <4>1, Shape DEF RoleInv, TypeInv
      <4> QED BY <1>1, <1>2, <1>3, <1>9, <3>1, <4>2 DEF RoleInv
    <3> HIDE DEF Goal
    <3> QED BY <1>4, <1>9, <3>1, <3>2
  <2>6. ASSUME ReapOrphans(i) \/ Release(i) \/ SettleMember(i) PROVE Goal
    <3>1. UNCHANGED bracket /\ ((\E ms : CloseClaims(ms)) \/ UNCHANGED <<claim, role>>)
      BY <2>6 DEF ReapOrphans, Release, SettleMember, CloseClaim
    <3> HIDE DEF Goal
    <3> QED BY <1>4, <1>5, <1>9, <3>1
  <2>7. ASSUME \/ Acquire(i) \/ Derive(i) \/ Author(i) \/ StartNode(i) \/ Work(i) \/ FinishNode(i) \/ CloseBuilder(i)
               \/ Containers(i) \/ FinishMatter(i) \/ Skip(i) \/ Conclude(i) \/ Return(i) \/ Die(i)
        PROVE  Goal
    <3>1. UNCHANGED <<claim, bracket>> /\ role' \subseteq role
      BY <2>7 DEF Acquire, Derive, Author, StartNode, Work, FinishNode, CloseBuilder, Containers, FinishMatter, Skip,
                  Conclude, Return, Die, CloseOwnRole
    <3> HIDE DEF Goal
    <3> QED BY <1>4, <1>9, <3>1
  <2> HIDE DEF Goal
  <2> QED BY <1>10, <2>2, <2>3, <2>4, <2>5, <2>6, <2>7 DEF PassStep
<1>11. ASSUME NEW n \in Handled, NEW from, NEW to, Transition(n, from, to) PROVE Goal
  <2> HIDE DEF Goal
  <2> QED BY <1>8, <1>11 DEF Transition
<1>12. ASSUME NEW m \in Matter, CloseGate(m) PROVE Goal
  <2> HIDE DEF Goal
  <2> QED BY <1>8, <1>12 DEF CloseGate
<1>13. ASSUME NEW r \in Run, StandDownRun(r) PROVE Goal
  <2> HIDE DEF Goal
  <2> QED BY <1>5, <1>13 DEF StandDownRun
<1>14. ASSUME \/ \E r \in Run : StartRun(r)
              \/ \E n \in Handled : Start(n)
              \/ \E w \in Worktree : OpenBracket(w) \/ CloseRole(w)
              \/ \E i \in Pass, w \in Worktree, r \in Run, resume \in BOOLEAN : Begin(i, w, r, resume)
       PROVE  Goal
  <2>1. UNCHANGED claim /\ role' \subseteq role /\ bracket \subseteq bracket' /\ bracket' \subseteq Worktree
    BY <1>9, <1>14 DEF StartRun, Start, OpenBracket, CloseRole, Begin
  <2> HIDE DEF Goal
  <2> QED BY <1>4, <2>1
<1> HIDE DEF Goal
<1>15. Goal BY <1>7, <1>10, <1>11, <1>12, <1>13, <1>14 DEF Next
<1> QED BY <1>15 DEF Goal

(* Whatever closes claims, or leaves them, gives no Run a claim.              *)
LEMMA ClaimsShrink ==
  ASSUME ExecInv, Next, NEW r \in Run, NEW ms, UNCHANGED claim \/ CloseClaims(ms)
  PROVE  /\ OpenDispatchesForRun(r)' \subseteq OpenDispatchesForRun(r)
         /\ CloseClaims(ms) => OpenDispatchesForRun(r)' \cap ms = {}
<1>1. TypeInv /\ ClaimInv BY DEF ExecInv
<1>2. \A j \in Pass : Begun(j) => pass'[j].run = pass[j].run BY SamePasses
<1>3. ASSUME NEW m \in Matter, claim'[m] # None
      PROVE  claim'[m] = claim[m] /\ pass'[claim[m]].run = pass[claim[m]].run
  <2>1. claim'[m] = claim[m] BY <1>3 DEF CloseClaims
  <2>2. claim[m] \in Pass /\ Begun(claim[m]) BY <1>1, <1>3, <2>1 DEF TypeInv, ClaimInv
  <2> QED BY <1>2, <2>1, <2>2
<1>4. OpenDispatchesForRun(r)' \subseteq OpenDispatchesForRun(r) BY <1>3 DEF OpenDispatchesForRun
<1>5. CloseClaims(ms) => OpenDispatchesForRun(r)' \cap ms = {} BY DEF OpenDispatchesForRun, CloseClaims
<1> QED BY <1>4, <1>5

(* The Runs of a swept Batch stay closed and without claims: startRun wants a  *)
(* live Batch, openDispatch an open Run.                                     *)
LEMMA SweptKept ==
  ASSUME ExecInv, Next
  PROVE  /\ SweptInv' /\ swept' \subseteq Matter
         /\ run' \in [Run -> {"unborn", "open", "finished", "stood-down", "reaped"}]
<1> DEFINE States == {"unborn", "open", "finished", "stood-down", "reaped"}
           Goal == SweptInv' /\ swept' \subseteq Matter /\ run' \in [Run -> States]
<1>1. TypeInv /\ SweptInv /\ PassInv /\ ClaimInv BY DEF ExecInv
<1>2. swept \subseteq Matter /\ run \in [Run -> States] BY <1>1 DEF TypeInv
<1>3. ASSUME UNCHANGED swept, run' \in [Run -> States],
             \A r \in Run : run'[r] = "open" => run[r] = "open",
             UNCHANGED claim \/ \E ms : CloseClaims(ms)
      PROVE  Goal
  <2>1. \A r \in Run : OpenDispatchesForRun(r)' \subseteq OpenDispatchesForRun(r) BY <1>3, ClaimsShrink
  <2> QED BY <1>1, <1>2, <1>3, <2>1 DEF SweptInv
<1>4. ASSUME NEW r \in Run, StartRun(r) PROVE Goal
  <2>1. UNCHANGED <<swept, claim>> /\ run' = [run EXCEPT ![r] = "open"] /\ Anonymous[r] \notin swept
    BY <1>4 DEF StartRun, plan
  <2>2. \A q \in Run : OpenDispatchesForRun(q)' \subseteq OpenDispatchesForRun(q) BY <2>1, ClaimsShrink
  <2>3. run' \in [Run -> States] /\ \A q \in Run : q # r => run'[q] = run[q] BY <1>2, <2>1
  <2> QED BY <1>1, <1>2, <2>1, <2>2, <2>3 DEF SweptInv
<1>5. ASSUME NEW a \in Matter, NEW b, SealSweep(a, b) PROVE Goal
  <2>1. CASE UNCHANGED <<swept, run, claim, role>>
    <3> HIDE DEF Goal
    <3> QED BY <1>2, <1>3, <2>1
  <2>2. CASE ~UNCHANGED <<swept, run, claim, role>>
    <3> DEFINE ms == UNION {OpenDispatchesForRun(r) : r \in {q \in Run : Anonymous[q] = a}}
    <3>1. /\ swept' = swept \cup {a}
          /\ run' = [r \in Run |-> IF Anonymous[r] = a /\ run[r] = "open" THEN "reaped" ELSE run[r]]
          /\ CloseClaims(ms)
      BY <1>5, <2>2 DEF SealSweep
    <3>2. \A r \in Run : Anonymous[r] = a => OpenDispatchesForRun(r) \subseteq ms OBVIOUS
    <3> HIDE DEF ms
    <3>3. \A r \in Run : OpenDispatchesForRun(r)' \subseteq OpenDispatchesForRun(r)
                         /\ OpenDispatchesForRun(r)' \cap ms = {}
      BY <3>1, ClaimsShrink
    <3>4. run' \in [Run -> States] BY <1>2, <3>1
    <3>5. SweptInv' BY <1>1, <3>1, <3>2, <3>3 DEF SweptInv
    <3> QED BY <1>2, <3>1, <3>4, <3>5
  <2> QED BY <2>1, <2>2
<1>6. ASSUME Opens PROVE Goal
  <2>1. PICK i \in Pass : Begun(i) /\ M(i) \in Matter /\ OpenClaim(i) /\ UNCHANGED <<run, swept>> BY <1>6 DEF Opens
  <2>2. run[pass[i].run] = "open" /\ claim' = [claim EXCEPT ![M(i)] = i] BY <2>1 DEF OpenClaim, RunIsOpen
  <2>3. \A j \in Pass : Begun(j) => pass'[j].run = pass[j].run BY SamePasses
  <2>4. ASSUME NEW r \in Run, run[r] # "open" PROVE OpenDispatchesForRun(r)' \subseteq OpenDispatchesForRun(r)
    <3>1. ASSUME NEW m \in Matter, claim'[m] # None, pass'[claim'[m]].run = r
          PROVE  claim[m] # None /\ pass[claim[m]].run = r
      <4>1. CASE m = M(i) BY <1>1, <2>1, <2>2, <2>3, <2>4, <3>1, <4>1 DEF TypeInv
      <4>2. CASE m # M(i)
        <5>1. claim'[m] = claim[m] BY <1>1, <2>2, <4>2 DEF TypeInv
        <5>2. claim[m] \in Pass /\ Begun(claim[m]) BY <1>1, <3>1, <5>1 DEF TypeInv, ClaimInv
        <5> QED BY <2>3, <3>1, <5>1, <5>2
      <4> QED BY <4>1, <4>2
    <3> QED BY <3>1 DEF OpenDispatchesForRun
  <2> QED BY <1>1, <1>2, <2>1, <2>4 DEF SweptInv
<1>7. ASSUME NEW i \in Pass, PassStep(i) PROVE Goal
  <2>1. UNCHANGED swept
    BY <1>7 DEF PassStep, Acquire, SpawnOrchestrator, ReapOrphans, Derive, Claim, Plan, Author, StartNode, SpawnBuilder,
                Work, FinishNode, CloseBuilder, Release, Containers, FinishMatter, Skip, SettleMember, Conclude, Return,
                Die, plan
  <2>2. run' \in [Run -> States] /\ \A r \in Run : run'[r] = "open" => run[r] = "open"
    <3>1. CASE Conclude(i)
      <4>1. UNCHANGED run \/ run' = [run EXCEPT ![pass[i].run] = "finished"] BY <3>1 DEF Conclude, FinishRun
      <4> QED BY <1>2, <4>1
    <3>2. CASE UNCHANGED run BY <1>2, <3>2
    <3> QED BY <1>7, <3>1, <3>2
            DEF PassStep, Acquire, SpawnOrchestrator, ReapOrphans, Derive, Claim, Plan, Author, StartNode, SpawnBuilder,
                Work, FinishNode, CloseBuilder, Release, Containers, FinishMatter, Skip, SettleMember, Return, Die
  <2>3. CASE UNCHANGED claim \/ Closes
    <3>1. UNCHANGED claim \/ \E ms : CloseClaims(ms) BY <2>3 DEF Closes
    <3> HIDE DEF Goal
    <3> QED BY <1>3, <2>1, <2>2, <3>1
  <2> HIDE DEF Goal
  <2> QED BY <1>6, <2>3, ClaimMoves
<1>8. ASSUME NEW n \in Handled, NEW from, NEW to, Transition(n, from, to) PROVE Goal
  <2> DEFINE b == n \in Matter /\ to = "done" /\ (n \in Gated => n \in closed)
  <2>1. SealSweep(n, b) BY <1>8 DEF Transition
  <2>2. CASE n \in Matter
    <3> HIDE DEF b, Goal
    <3> QED BY <1>5, <2>1, <2>2
  <2>3. CASE n \notin Matter
    <3>1. UNCHANGED <<swept, run, claim>> BY <2>1, <2>3 DEF SealSweep
    <3> HIDE DEF Goal
    <3> QED BY <1>2, <1>3, <3>1
  <2> QED BY <2>2, <2>3
<1>9. ASSUME NEW m \in Matter, CloseGate(m) PROVE Goal
  <2> HIDE DEF Goal
  <2> QED BY <1>5, <1>9 DEF CloseGate
<1>10. ASSUME NEW r \in Run, StandDownRun(r) PROVE Goal
  <2>1. UNCHANGED swept /\ run' = [run EXCEPT ![r] = "stood-down"] /\ \E ms : CloseClaims(ms)
    BY <1>10 DEF StandDownRun, plan
  <2>2. run' \in [Run -> States] /\ \A q \in Run : run'[q] = "open" => run[q] = "open" BY <1>2, <2>1
  <2> HIDE DEF Goal
  <2> QED BY <1>3, <2>1, <2>2
<1>11. ASSUME \/ \E n \in Handled : Start(n)
              \/ \E w \in Worktree : OpenBracket(w) \/ CloseBracket(w) \/ CloseRole(w)
              \/ \E i \in Pass, w \in Worktree, r \in Run, resume \in BOOLEAN : Begin(i, w, r, resume)
       PROVE  Goal
  <2>1. UNCHANGED <<swept, run, claim>> BY <1>11 DEF Start, OpenBracket, CloseBracket, CloseRole, Begin, plan
  <2> HIDE DEF Goal
  <2> QED BY <1>2, <1>3, <2>1
<1> HIDE DEF Goal
<1>12. Goal BY <1>4, <1>7, <1>8, <1>9, <1>10, <1>11 DEF Next
<1> QED BY <1>12 DEF Goal

(* A Run lock is held by a pass or by nobody.                                *)
LEMMA LocksKept ==
  ASSUME ExecInv, Next
  PROVE  lock' \in [Run -> Pass \cup {None}]
<1>1. lock \in [Run -> Pass \cup {None}] BY DEF ExecInv, TypeInv
<1>2. ASSUME NEW i \in Pass, PassStep(i) PROVE lock' \in [Run -> Pass \cup {None}]
  <2>1. CASE Acquire(i) BY <1>1, <2>1 DEF Acquire
  <2>2. CASE Return(i) \/ Die(i) BY <1>1, <2>2 DEF Return, Die
  <2> QED BY <1>1, <1>2, <2>1, <2>2
          DEF PassStep, SpawnOrchestrator, ReapOrphans, Derive, Claim, Plan, Author, StartNode, SpawnBuilder, Work,
              FinishNode, CloseBuilder, Release, Containers, FinishMatter, Skip, SettleMember, Conclude
<1> QED BY <1>1, <1>2 DEF Next, StartRun, StandDownRun, Start, Transition, CloseGate, OpenBracket, CloseBracket,
                          CloseRole, Begin

(* Every step of every process keeps the invariant.                          *)
LEMMA NextInv == ExecInv /\ [Next]_vars => ExecInv'
<1> SUFFICES ASSUME ExecInv, [Next]_vars PROVE ExecInv' OBVIOUS
<1>1. CASE Next
  <2>1. TypeInv /\ PassInv BY DEF ExecInv
  <2>2. TypeInv'
    BY <1>1, <2>1, PlanMoves, SamePasses, ClaimsKept, RolesKept, SweptKept, LocksKept DEF TypeInv
  <2> QED BY <1>1, <2>2, PassesKept, ClaimsKept, RolesKept, SweptKept DEF ExecInv
<1>2. CASE UNCHANGED vars
  <2>1. UNCHANGED <<lifecycle, closed, swept, run, claim, bracket, role, lock, pass>> BY <1>2 DEF vars
  <2>2. TypeInv' BY <2>1 DEF ExecInv, TypeInv
  <2>3. PassInv' BY <2>1 DEF ExecInv, PassInv, GoodPass, Sealed
  <2>4. ClaimInv' /\ RoleInv' BY <2>1 DEF ExecInv, ClaimInv, RoleInv, Begun
  <2>5. SweptInv' BY <2>1 DEF ExecInv, SweptInv, OpenDispatchesForRun
  <2> QED BY <2>2, <2>3, <2>4, <2>5 DEF ExecInv
<1> QED BY <1>1, <1>2

-----------------------------------------------------------------------------
(* What a Run leaves behind when it closes.                                  *)

Resolved(m) == lifecycle[m] = "canceled" \/ Sealed(m)

\* settle has resolved what it went through, or the pass stands by; it keeps no claim on
\* what it went through.
Settles(p) ==
  p.pc = "settle" =>
    /\ p.todo \subseteq Frozen[p.run] /\ p.claims \subseteq p.todo
    /\ \A m \in Frozen[p.run] \ p.todo : p.standby \/ Resolved(m)

SettleInv == \A i \in Pass : Settles(pass[i])

\* A claim is on a Matter of its Run, and the pass that opened it, while it lives, knows it.
OwnInv ==
  \A m \in Matter : claim[m] # None =>
    /\ m \in Frozen[pass[claim[m]].run]
    /\ pass[claim[m]].pc # "ended" => m \in pass[claim[m]].claims

\* A pass begins over a Run that was started.
StartedInv == \A i \in Pass : Begun(i) => run[pass[i].run] # "unborn"

CloseInv == SettleInv /\ OwnInv /\ StartedInv /\ ClosedRunIsSettled

(* A canceled or sealed Matter stays so, whoever moves.                      *)
LEMMA ResolvedStays ==
  ASSUME ExecInv, Next, NEW m \in Matter, Resolved(m)
  PROVE  Resolved(m)'
<1>1. TypeInv /\ PassInv /\ m \in Node BY Shape DEF ExecInv
<1>2. lifecycle[m] = "canceled" => lifecycle'[m] = "canceled" BY <1>1, PlanMoves
<1>3. Sealed(m) => Sealed(m)' BY <1>1, SealedStays
<1> QED BY <1>2, <1>3 DEF Resolved

(* Only the process of a pass moves it once it has begun, and an ended one     *)
(* moves no more (Return, Die).                                              *)
LEMMA OthersStay ==
  ASSUME ExecInv, Next, NEW j \in Pass, Begun(j)
  PROVE  /\ PassStep(j) \/ pass'[j] = pass[j]
         /\ pass[j].pc = "ended" => pass'[j] = pass[j]
<1>1. pass \in [Pass -> Passes] BY DEF ExecInv, TypeInv
<1>2. ASSUME NEW i \in Pass, PassStep(i), i # j PROVE pass'[j] = pass[j]
  <2>1. PICK q \in Passes : Moves(i, q) BY <1>2, PassMoves
  <2> QED BY <1>1, <1>2, <2>1 DEF Moves
<1>3. ASSUME NEW i \in Pass, NEW w \in Worktree, NEW r \in Run, NEW resume \in BOOLEAN, Begin(i, w, r, resume)
      PROVE  pass'[j] = pass[j]
  <2>1. i # j BY <1>3 DEF Begin, Begun
  <2>2. PICK q : q = [Unbegun EXCEPT !.pc = "lock", !.run = r, !.tree = w, !.resume = resume] OBVIOUS
  <2>3. pass' = [pass EXCEPT ![i] = q] BY <1>3, <2>2 DEF Begin, To
  <2> QED BY <1>1, <2>1, <2>3
<1>4. ASSUME \/ \E r \in Run : StartRun(r) \/ StandDownRun(r)
             \/ \E n \in Handled : \/ Start(n)
                                   \/ \E to \in {"done", "canceled", "paused"} : Transition(n, "in_progress", to)
                                   \/ Transition(n, "paused", "in_progress")
             \/ \E m \in Matter : CloseGate(m)
             \/ \E w \in Worktree : OpenBracket(w) \/ CloseBracket(w) \/ CloseRole(w)
      PROVE  pass'[j] = pass[j]
  BY <1>4 DEF StartRun, StandDownRun, Start, Transition, CloseGate, OpenBracket, CloseBracket, CloseRole
<1>5. PassStep(j) \/ pass'[j] = pass[j] BY <1>2, <1>3, <1>4 DEF Next
<1>6. PassStep(j) => pass[j].pc # "ended"
  BY DEF PassStep, Active, Acquire, SpawnOrchestrator, ReapOrphans, Derive, Claim, Plan, Author, StartNode, SpawnBuilder,
         Work, FinishNode, CloseBuilder, Release, Containers, FinishMatter, Skip, SettleMember, Conclude, Return, Die
<1> QED BY <1>5, <1>6

(* A pass forgets a claim of its own only by closing it or by ending           *)
(* (closeClaim, settle, Return, Die).                                        *)
LEMMA OwnClaims ==
  ASSUME ExecInv, Next, NEW i \in Pass, PassStep(i), NEW m \in pass[i].claims, claim[m] = i
  PROVE  pass'[i].pc = "ended" \/ m \in pass'[i].claims \/ claim'[m] = None
<1>1. PICK p : p = pass[i] OBVIOUS
<1>2. p \in Passes /\ m \in p.claims /\ m \in Matter /\ pass \in [Pass -> Passes] BY <1>1 DEF ExecInv, TypeInv, Passes
<1> DEFINE Goal == pass'[i].pc = "ended" \/ m \in pass'[i].claims \/ claim'[m] = None
<1> SUFFICES Goal OBVIOUS
<1>3. ASSUME NEW q, pass' = [pass EXCEPT ![i] = q], q.pc = "ended" \/ m \in q.claims PROVE Goal
  BY <1>2, <1>3
<1>4. ASSUME NEW pc, pass' = [pass EXCEPT ![i] = [p EXCEPT !.pc = pc]] PROVE Goal
  BY <1>2, <1>4 DEF Passes
<1>5. CASE Return(i) \/ Die(i)
  <2>1. PICK q : q = [Unbegun EXCEPT !.pc = "ended", !.run = p.run, !.tree = p.tree] OBVIOUS
  <2>2. pass' = [pass EXCEPT ![i] = q] BY <1>1, <1>5, <2>1 DEF Return, Die, To
  <2>3. q.pc = "ended" BY <2>1 DEF Unbegun
  <2> QED BY <1>3, <2>2, <2>3
<1>6. CASE Release(i)
  <2>1. PICK a : a = M(i) OBVIOUS
  <2>2. CloseClaims({a}) BY <1>6, <2>1 DEF Release, CloseClaim
  <2>3. CASE m = a BY <1>2, <2>2, <2>3 DEF CloseClaims
  <2>4. CASE m # a
    <3>1. PICK pc : pass' = [pass EXCEPT ![i] = [p EXCEPT !.pc = pc, !.claims = @ \ {a}]]
      <4>1. pass' = [pass EXCEPT ![i] = [p EXCEPT !.pc = IF p.pc = "fail" THEN "skip" ELSE "derive",
                                                  !.claims = @ \ {a}]]
        BY <1>1, <1>6, <2>1 DEF Release, To
      <4> QED BY <4>1
    <3>2. PICK q : q = [p EXCEPT !.pc = pc, !.claims = @ \ {a}] OBVIOUS
    <3>3. m \in q.claims BY <1>2, <2>4, <3>2 DEF Passes
    <3> QED BY <1>3, <3>1, <3>2, <3>3
  <2> QED BY <2>3, <2>4
<1>7. CASE SettleMember(i)
  <2>1. PICK a : a = Min(p.todo) OBVIOUS
  <2>2. ASSUME NEW next, pass' = [pass EXCEPT ![i] = [p EXCEPT !.pc = next, !.skipped = @ \cup {a}, !.standby = TRUE]]
        PROVE  Goal
    <3>1. PICK q : q = [p EXCEPT !.pc = next, !.skipped = @ \cup {a}, !.standby = TRUE] OBVIOUS
    <3>2. m \in q.claims BY <1>2, <3>1 DEF Passes
    <3> QED BY <1>3, <2>2, <3>1, <3>2
  <2>3. ASSUME a \in p.claims => CloseClaims({a}), NEW b,
               pass' = [pass EXCEPT ![i] = [p EXCEPT !.todo = @ \ {a}, !.claims = @ \ {a}, !.standby = b]]
        PROVE  Goal
    <3>1. PICK q : q = [p EXCEPT !.todo = @ \ {a}, !.claims = @ \ {a}, !.standby = b] OBVIOUS
    <3>2. m # a => m \in q.claims BY <1>2, <3>1 DEF Passes
    <3>3. m = a => claim'[m] = None BY <1>2, <2>3 DEF CloseClaims
    <3> QED BY <1>3, <2>3, <3>1, <3>2, <3>3
  <2>4. \/ \E next \in {"settle", "return"} :
             pass' = [pass EXCEPT ![i] = [p EXCEPT !.pc = next, !.skipped = @ \cup {a}, !.standby = TRUE]]
        \/ /\ a \in p.claims => CloseClaims({a})
           /\ pass' = [pass EXCEPT ![i] = [p EXCEPT !.todo = @ \ {a}, !.claims = @ \ {a},
                                                     !.standby = p.standby \/ StandsBy(a)]]
    BY <1>1, <1>7, <2>1 DEF SettleMember, CloseClaim, To
  <2> HIDE DEF Goal
  <2> QED BY <2>2, <2>3, <2>4
<1>8. CASE Derive(i)
  <2>1. ASSUME NEW n, pass' = [pass EXCEPT ![i] =
                  [p EXCEPT !.pc = IF MatterOf(n) \in p.claims THEN "plan" ELSE "claim",
                            !.node = n, !.fresh = lifecycle[n] = "planned"]]
        PROVE  Goal
    <3>1. PICK c : c = IF MatterOf(n) \in p.claims THEN "plan" ELSE "claim" OBVIOUS
    <3>2. PICK f \in BOOLEAN : f = (lifecycle[n] = "planned") OBVIOUS
    <3>3. PICK q : q = [p EXCEPT !.pc = c, !.node = n, !.fresh = f] OBVIOUS
    <3>4. pass' = [pass EXCEPT ![i] = q] BY <2>1, <3>1, <3>2, <3>3, Zenon
    <3>5. m \in q.claims BY <1>2, <3>3 DEF Passes
    <3> QED BY <1>3, <3>4, <3>5
  <2>2. ASSUME pass' = [pass EXCEPT ![i] = [p EXCEPT !.pc = "settle", !.node = None, !.fresh = FALSE,
                                                     !.todo = Frozen[p.run]]]
        PROVE  Goal
    <3>1. PICK q : q = [p EXCEPT !.pc = "settle", !.node = None, !.fresh = FALSE, !.todo = Frozen[p.run]] OBVIOUS
    <3>2. m \in q.claims BY <1>2, <3>1 DEF Passes
    <3> QED BY <1>3, <2>2, <3>1, <3>2
  <2> HIDE DEF Goal
  <2> QED BY <1>1, <1>8, <2>1, <2>2 DEF Derive, To
<1>9. CASE Claim(i)
  <2>1. ASSUME pass' = [pass EXCEPT ![i] = [p EXCEPT !.pc = "plan", !.claims = @ \cup {M(i)}]] PROVE Goal
    <3>1. PICK q : q = [p EXCEPT !.pc = "plan", !.claims = @ \cup {M(i)}] OBVIOUS
    <3>2. m \in q.claims BY <1>2, <3>1 DEF Passes
    <3> QED BY <1>3, <2>1, <3>1, <3>2
  <2> HIDE DEF Goal
  <2> QED BY <1>1, <1>4, <1>9, <2>1 DEF Claim, Goto, To
<1>10. CASE Skip(i)
  <2>1. PICK next \in {"derive", "return"} :
          pass' = [pass EXCEPT ![i] = [p EXCEPT !.pc = next, !.skipped = Skipped(i, M(i))]]
    BY <1>1, <1>10 DEF Skip, To
  <2>2. PICK q : q = [p EXCEPT !.pc = next, !.skipped = Skipped(i, M(i))] OBVIOUS
  <2>3. m \in q.claims BY <1>2, <2>2 DEF Passes
  <2> QED BY <1>3, <2>1, <2>2, <2>3
<1>11. CASE Author(i)
  <2> HIDE DEF Goal
  <2>1. CASE UNCHANGED pass BY <1>1, <1>2, <2>1 DEF Goal
  <2> QED BY <1>1, <1>4, <1>11, <2>1 DEF Author, Goto, To
<1> HIDE DEF Goal
<1>12. CASE \/ Acquire(i) \/ SpawnOrchestrator(i) \/ ReapOrphans(i) \/ Plan(i) \/ StartNode(i) \/ SpawnBuilder(i)
            \/ Work(i) \/ FinishNode(i) \/ CloseBuilder(i) \/ Containers(i) \/ FinishMatter(i) \/ Conclude(i)
  <2>1. PICK pc : pass' = [pass EXCEPT ![i] = [p EXCEPT !.pc = pc]]
    BY <1>1, <1>12 DEF Goto, To, Acquire, SpawnOrchestrator, ReapOrphans, Plan, StartNode, SpawnBuilder, Work,
                       FinishNode, CloseBuilder, Containers, FinishMatter, Conclude
  <2> QED BY <1>4, <2>1
<1> QED BY <1>5, <1>6, <1>7, <1>8, <1>9, <1>10, <1>11, <1>12 DEF PassStep

(* settle keeps to its account: it leaves a member only resolved or standing by, *)
(* and closes the claim it has on it.                                        *)
LEMMA SettleMoves ==
  ASSUME ExecInv, Next, NEW i \in Pass, PassStep(i), Settles(pass[i])
  PROVE  Settles(pass[i])'
<1>1. PICK p : p = pass[i] OBVIOUS
<1>2. /\ p \in Passes /\ pass \in [Pass -> Passes] /\ GoodPass(i, p) /\ Settles(p)
  BY <1>1 DEF ExecInv, TypeInv, PassInv
<1> DEFINE Goal == Settles(pass[i])'
<1> SUFFICES Goal OBVIOUS
<1>3. ASSUME NEW q, pass' = [pass EXCEPT ![i] = q], q.pc # "settle" PROVE Goal
  <2>1. pass'[i] = q BY <1>2, <1>3
  <2> QED BY <1>3, <2>1 DEF Settles
<1>4. ASSUME NEW q, pass' = [pass EXCEPT ![i] = q], q.run = p.run,
             q.todo \subseteq Frozen[q.run], q.claims \subseteq q.todo,
             \A m \in Frozen[q.run] \ q.todo : q.standby \/ Resolved(m)'
      PROVE  Goal
  <2>1. pass'[i] = q BY <1>2, <1>4
  <2> QED BY <1>4, <2>1 DEF Settles, Resolved, Sealed
<1>5. \A pc : [p EXCEPT !.pc = pc].pc = pc BY <1>2 DEF Passes
<1>6. CASE SettleMember(i)
  <2>1. PICK a : a = Min(p.todo) OBVIOUS
  <2>2. p.pc = "settle" /\ p.todo # {} BY <1>1, <1>6 DEF SettleMember
  <2>3. p.run \in Run /\ Frozen[p.run] \subseteq Matter BY <1>2, <2>2, ExecutionAssumption DEF GoodPass
  <2>4. /\ p.todo \subseteq Frozen[p.run] /\ p.claims \subseteq p.todo
        /\ \A m \in Frozen[p.run] \ p.todo : p.standby \/ Resolved(m)'
    BY <1>2, <2>2, <2>3, ResolvedStays DEF Settles
  <2>5. ASSUME NEW next \in {"settle", "return"},
               pass' = [pass EXCEPT ![i] = [p EXCEPT !.pc = next, !.skipped = @ \cup {a}, !.standby = TRUE]]
        PROVE  Goal
    <3>1. PICK q : q = [p EXCEPT !.pc = next, !.skipped = @ \cup {a}, !.standby = TRUE] OBVIOUS
    <3>2. q.run = p.run /\ q.todo = p.todo /\ q.claims = p.claims /\ q.standby = TRUE BY <1>2, <3>1 DEF Passes
    <3> HIDE DEF Goal
    <3> QED BY <1>4, <2>4, <2>5, <3>1, <3>2
  <2>6. ASSUME UNCHANGED <<lifecycle, closed>>, NEW b \in BOOLEAN, b = (p.standby \/ StandsBy(a)),
               pass' = [pass EXCEPT ![i] = [p EXCEPT !.todo = @ \ {a}, !.claims = @ \ {a}, !.standby = b]]
        PROVE  Goal
    <3>1. PICK q : q = [p EXCEPT !.todo = @ \ {a}, !.claims = @ \ {a}, !.standby = b] OBVIOUS
    <3>2. q.run = p.run /\ q.todo = p.todo \ {a} /\ q.claims = p.claims \ {a} /\ q.standby = b
      BY <1>2, <3>1 DEF Passes
    <3>3. b \/ Resolved(a)' BY <2>6 DEF StandsBy, Resolved, Sealed
    <3>4. \A m \in Frozen[q.run] \ q.todo : q.standby \/ Resolved(m)' BY <2>4, <2>6, <3>2, <3>3
    <3> HIDE DEF Goal
    <3> QED BY <1>4, <2>4, <2>6, <3>1, <3>2, <3>4
  <2>7. \/ \E next \in {"settle", "return"} :
             pass' = [pass EXCEPT ![i] = [p EXCEPT !.pc = next, !.skipped = @ \cup {a}, !.standby = TRUE]]
        \/ pass' = [pass EXCEPT ![i] = [p EXCEPT !.todo = @ \ {a}, !.claims = @ \ {a},
                                                  !.standby = p.standby \/ StandsBy(a)]]
    BY <1>1, <1>6, <2>1 DEF SettleMember, To
  <2>8. PICK b \in BOOLEAN : b = (p.standby \/ StandsBy(a)) OBVIOUS
  <2>9. UNCHANGED <<lifecycle, closed>> BY <1>6 DEF SettleMember, plan
  <2> HIDE DEF Goal
  <2>10. CASE pass' = [pass EXCEPT ![i] = [p EXCEPT !.todo = @ \ {a}, !.claims = @ \ {a},
                                                     !.standby = p.standby \/ StandsBy(a)]]
    <3>1. pass' = [pass EXCEPT ![i] = [p EXCEPT !.todo = @ \ {a}, !.claims = @ \ {a}, !.standby = b]]
      BY <2>8, <2>10, Zenon
    <3> QED BY <2>6, <2>8, <2>9, <3>1
  <2> QED BY <2>5, <2>7, <2>10
<1>7. CASE Derive(i)
  <2>1. ASSUME NEW n, pass' = [pass EXCEPT ![i] =
                  [p EXCEPT !.pc = IF MatterOf(n) \in p.claims THEN "plan" ELSE "claim",
                            !.node = n, !.fresh = lifecycle[n] = "planned"]]
        PROVE  Goal
    <3>1. PICK c : c = IF MatterOf(n) \in p.claims THEN "plan" ELSE "claim" OBVIOUS
    <3>2. PICK f \in BOOLEAN : f = (lifecycle[n] = "planned") OBVIOUS
    <3>3. PICK q : q = [p EXCEPT !.pc = c, !.node = n, !.fresh = f] OBVIOUS
    <3>4. pass' = [pass EXCEPT ![i] = q] BY <2>1, <3>1, <3>2, <3>3, Zenon
    <3>5. q.pc = c /\ c # "settle" BY <1>2, <3>1, <3>3 DEF Passes
    <3> HIDE DEF Goal
    <3> QED BY <1>3, <3>4, <3>5
  <2>2. ASSUME pass' = [pass EXCEPT ![i] = [p EXCEPT !.pc = "settle", !.node = None, !.fresh = FALSE,
                                                     !.todo = Frozen[p.run]]]
        PROVE  Goal
    <3>1. PICK q : q = [p EXCEPT !.pc = "settle", !.node = None, !.fresh = FALSE, !.todo = Frozen[p.run]] OBVIOUS
    <3>2. q.run = p.run /\ q.claims = p.claims /\ q.todo = Frozen[p.run] BY <1>2, <3>1 DEF Passes
    <3>3. p.claims \subseteq Frozen[p.run] BY <1>2 DEF GoodPass
    <3> HIDE DEF Goal
    <3> QED BY <1>4, <2>2, <3>1, <3>2, <3>3
  <2> HIDE DEF Goal
  <2> QED BY <1>1, <1>7, <2>1, <2>2 DEF Derive, To
<1>8. CASE Author(i) /\ UNCHANGED pass
  <2>1. pass'[i] = p /\ p.pc = "author" BY <1>1, <1>8 DEF Author
  <2> QED BY <2>1 DEF Settles
<1>9. CASE Return(i) \/ Die(i)
  <2>1. PICK q : q = [Unbegun EXCEPT !.pc = "ended", !.run = p.run, !.tree = p.tree] OBVIOUS
  <2>2. pass' = [pass EXCEPT ![i] = q] BY <1>1, <1>9, <2>1 DEF Return, Die, To
  <2>3. q.pc = "ended" BY <2>1 DEF Unbegun
  <2> HIDE DEF Goal
  <2> QED BY <1>3, <2>2, <2>3
<1>10. CASE Claim(i)
  <2>1. ASSUME pass' = [pass EXCEPT ![i] = [p EXCEPT !.pc = "plan", !.claims = @ \cup {M(i)}]] PROVE Goal
    <3>1. PICK q : q = [p EXCEPT !.pc = "plan", !.claims = @ \cup {M(i)}] OBVIOUS
    <3>2. q.pc = "plan" BY <1>2, <3>1 DEF Passes
    <3> HIDE DEF Goal
    <3> QED BY <1>3, <2>1, <3>1, <3>2
  <2> HIDE DEF Goal
  <2>2. CASE pass' = [pass EXCEPT ![i] = [p EXCEPT !.pc = "skip"]]
    <3>1. PICK q : q = [p EXCEPT !.pc = "skip"] OBVIOUS
    <3>2. q.pc = "skip" BY <1>5, <3>1
    <3> QED BY <1>3, <2>2, <3>1, <3>2
  <2> QED BY <1>1, <1>10, <2>1, <2>2 DEF Claim, Goto, To
<1>11. CASE Skip(i)
  <2>1. PICK next \in {"derive", "return"} :
          pass' = [pass EXCEPT ![i] = [p EXCEPT !.pc = next, !.skipped = Skipped(i, M(i))]]
    BY <1>1, <1>11 DEF Skip, To
  <2>2. PICK q : q = [p EXCEPT !.pc = next, !.skipped = Skipped(i, M(i))] OBVIOUS
  <2>3. q.pc = next BY <1>2, <2>2 DEF Passes
  <2> HIDE DEF Goal
  <2> QED BY <1>3, <2>1, <2>2, <2>3
<1>12. CASE Release(i)
  <2>1. PICK a : a = M(i) OBVIOUS
  <2>2. pass' = [pass EXCEPT ![i] = [p EXCEPT !.pc = IF p.pc = "fail" THEN "skip" ELSE "derive", !.claims = @ \ {a}]]
    BY <1>1, <1>12, <2>1 DEF Release, To
  <2>3. PICK q : q = [p EXCEPT !.pc = IF p.pc = "fail" THEN "skip" ELSE "derive", !.claims = @ \ {a}] OBVIOUS
  <2>4. q.pc # "settle" BY <1>2, <2>3 DEF Passes
  <2> HIDE DEF Goal
  <2> QED BY <1>3, <2>2, <2>3, <2>4
<1> HIDE DEF Goal
<1>13. CASE \/ Acquire(i) \/ SpawnOrchestrator(i) \/ ReapOrphans(i) \/ Plan(i) \/ StartNode(i) \/ SpawnBuilder(i)
            \/ Work(i) \/ FinishNode(i) \/ CloseBuilder(i) \/ Containers(i) \/ FinishMatter(i) \/ Conclude(i)
            \/ (Author(i) /\ ~UNCHANGED pass)
  <2>1. PICK pc : pc # "settle" /\ pass' = [pass EXCEPT ![i] = [p EXCEPT !.pc = pc]]
    BY <1>1, <1>13 DEF Goto, To, Acquire, SpawnOrchestrator, ReapOrphans, Plan, StartNode, SpawnBuilder, Work,
                       FinishNode, CloseBuilder, Containers, FinishMatter, Conclude, Author
  <2> QED BY <1>3, <1>5, <2>1
<1> QED BY <1>6, <1>7, <1>8, <1>9, <1>10, <1>11, <1>12, <1>13 DEF PassStep

(* A Run that is over stays as it is; one that is open is finished by a pass,  *)
(* or stood down or reaped with every claim closed (finishRun, standDownRun,   *)
(* sweepBatch).                                                              *)
LEMMA RunMoves ==
  ASSUME ExecInv, Next, NEW r \in Run
  PROVE  \/ run'[r] = run[r]
         \/ run[r] = "unborn" /\ run'[r] = "open"
         \/ /\ run'[r] = "finished"
            /\ \E i \in Pass : Conclude(i) /\ pass[i].run = r /\ ~pass[i].standby
         \/ run'[r] \in {"stood-down", "reaped"} /\ OpenDispatchesForRun(r)' = {}
<1> DEFINE Goal == \/ run'[r] = run[r]
                   \/ run[r] = "unborn" /\ run'[r] = "open"
                   \/ /\ run'[r] = "finished"
                      /\ \E i \in Pass : Conclude(i) /\ pass[i].run = r /\ ~pass[i].standby
                   \/ run'[r] \in {"stood-down", "reaped"} /\ OpenDispatchesForRun(r)' = {}
<1> SUFFICES Goal OBVIOUS
<1>1. run \in [Run -> {"unborn", "open", "finished", "stood-down", "reaped"}] BY DEF ExecInv, TypeInv
<1>2. CASE UNCHANGED run BY <1>2
<1>3. ASSUME NEW q \in Run, StartRun(q) PROVE Goal
  BY <1>1, <1>3 DEF StartRun
<1>4. ASSUME NEW q \in Run, StandDownRun(q) PROVE Goal
  <2>1. CloseClaims(OpenDispatchesForRun(q)) /\ run' = [run EXCEPT ![q] = "stood-down"] BY <1>4 DEF StandDownRun
  <2>2. CASE q = r
    <3>1. /\ OpenDispatchesForRun(r)' \subseteq OpenDispatchesForRun(r)
          /\ OpenDispatchesForRun(r)' \cap OpenDispatchesForRun(r) = {}
      BY <2>1, <2>2, ClaimsShrink
    <3> QED BY <1>1, <2>1, <2>2, <3>1
  <2>3. CASE q # r BY <1>1, <2>1, <2>3
  <2> QED BY <2>2, <2>3
<1>5. ASSUME NEW a, NEW b, SealSweep(a, b), ~UNCHANGED run PROVE Goal
  <2> DEFINE ms == UNION {OpenDispatchesForRun(x) : x \in {q \in Run : Anonymous[q] = a}}
  <2>1. /\ run' = [x \in Run |-> IF Anonymous[x] = a /\ run[x] = "open" THEN "reaped" ELSE run[x]]
        /\ CloseClaims(ms)
    BY <1>5 DEF SealSweep
  <2>2. Anonymous[r] = a => OpenDispatchesForRun(r) \subseteq ms OBVIOUS
  <2> HIDE DEF ms
  <2>3. OpenDispatchesForRun(r)' \subseteq OpenDispatchesForRun(r) /\ OpenDispatchesForRun(r)' \cap ms = {}
    BY <2>1, ClaimsShrink
  <2> QED BY <2>1, <2>2, <2>3
<1>6. ASSUME NEW i \in Pass, PassStep(i) PROVE Goal
  <2>1. CASE Conclude(i)
    <3>1. \/ UNCHANGED run
          \/ ~pass[i].standby /\ run' = [run EXCEPT ![pass[i].run] = "finished"]
      BY <2>1 DEF Conclude, FinishRun
    <3>2. CASE ~pass[i].standby /\ run' = [run EXCEPT ![pass[i].run] = "finished"] /\ pass[i].run = r
      BY <1>1, <2>1, <3>2
    <3> QED BY <1>1, <1>2, <3>1, <3>2
  <2> HIDE DEF Goal
  <2> QED BY <1>2, <1>6, <2>1
          DEF PassStep, Acquire, SpawnOrchestrator, ReapOrphans, Derive, Claim, Plan, Author, StartNode, SpawnBuilder,
              Work, FinishNode, CloseBuilder, Release, Containers, FinishMatter, Skip, SettleMember, Return, Die
<1> HIDE DEF Goal
<1>7. ASSUME NEW n \in Handled, NEW from, NEW to, Transition(n, from, to) PROVE Goal
  BY <1>2, <1>5, <1>7 DEF Transition
<1>8. ASSUME NEW m \in Matter, CloseGate(m) PROVE Goal BY <1>2, <1>5, <1>8 DEF CloseGate
<1> QED BY <1>2, <1>3, <1>4, <1>6, <1>7, <1>8
        DEF Next, Start, OpenBracket, CloseBracket, CloseRole, Begin

(* Every pass begins over a started Run, and no Run is unborn again.          *)
LEMMA StartedKept ==
  ASSUME ExecInv, Next, StartedInv
  PROVE  StartedInv'
<1> SUFFICES ASSUME NEW j \in Pass, Begun(j)' PROVE run'[pass'[j].run] # "unborn" BY DEF StartedInv
<1>1. \A r \in Run : run[r] # "unborn" => run'[r] # "unborn" BY RunMoves
<1>2. CASE Begun(j)
  <2>1. pass'[j].run = pass[j].run BY <1>2, SamePasses
  <2>2. pass[j].run \in Run BY <1>2 DEF ExecInv, PassInv, GoodPass, Begun
  <2> QED BY <1>1, <1>2, <2>1, <2>2 DEF StartedInv
<1>3. CASE ~Begun(j)
  <2>1. pass \in [Pass -> Passes] BY DEF ExecInv, TypeInv
  <2>2. ASSUME NEW i \in Pass, PassStep(i) PROVE FALSE
    <3>1. PICK q \in Passes : Moves(i, q) BY <2>2, PassMoves
    <3> QED BY <1>3, <2>1, <3>1 DEF Moves, Begun
  <2>3. ASSUME UNCHANGED pass PROVE FALSE BY <1>3, <2>3 DEF Begun
  <2>4. PICK i \in Pass, w \in Worktree, r \in Run, resume \in BOOLEAN : Begin(i, w, r, resume)
    BY <2>2, <2>3
       DEF Next, StartRun, StandDownRun, Start, Transition, CloseGate, OpenBracket, CloseBracket, CloseRole
  <2>5. PICK q : q = [Unbegun EXCEPT !.pc = "lock", !.run = r, !.tree = w, !.resume = resume] OBVIOUS
  <2>6. pass' = [pass EXCEPT ![i] = q] /\ run[r] = "open" /\ UNCHANGED run BY <2>4, <2>5 DEF Begin, To
  <2>7. q.run = r BY <2>5 DEF Unbegun
  <2>8. i = j BY <1>3, <2>1, <2>6 DEF Begun
  <2> QED BY <2>1, <2>6, <2>7, <2>8
<1> QED BY <1>2, <1>3

(* A living pass knows the claims that are open in its name.                 *)
LEMMA OwnKept ==
  ASSUME ExecInv, Next, OwnInv
  PROVE  OwnInv'
<1>1. TypeInv /\ ClaimInv BY DEF ExecInv
<1> SUFFICES ASSUME NEW m \in Matter, claim'[m] # None
             PROVE  /\ m \in Frozen[pass'[claim'[m]].run]
                    /\ pass'[claim'[m]].pc # "ended" => m \in pass'[claim'[m]].claims
  BY DEF OwnInv
<1>2. CASE claim'[m] = claim[m]
  <2>1. PICK j \in Pass : j = claim[m] /\ j # None /\ Begun(j) BY <1>1, <1>2 DEF TypeInv, ClaimInv
  <2>2. m \in Frozen[pass[j].run] /\ (pass[j].pc # "ended" => m \in pass[j].claims) BY <2>1 DEF OwnInv
  <2>3. pass'[j].run = pass[j].run BY <2>1, SamePasses
  <2>4. CASE pass'[j] = pass[j] BY <1>2, <2>1, <2>2, <2>4
  <2>5. CASE PassStep(j) /\ pass'[j] # pass[j]
    <3>1. pass[j].pc # "ended" BY <2>1, <2>5, OthersStay
    <3>2. pass'[j].pc = "ended" \/ m \in pass'[j].claims \/ claim'[m] = None
      BY <2>1, <2>2, <2>5, <3>1, OwnClaims
    <3> QED BY <1>2, <2>1, <2>2, <2>3, <3>2
  <2> QED BY <2>1, <2>4, <2>5, OthersStay
<1>3. CASE claim'[m] # claim[m]
  <2>1. ~Closes BY <1>3 DEF Closes, CloseClaims
  <2>2. Opens BY <1>3, <2>1, ClaimMoves
  <2>3. PICK i \in Pass : /\ Begun(i) /\ M(i) \in Matter /\ OpenClaim(i)
                          /\ M(i) \in Frozen[pass[i].run] /\ M(i) \in pass'[i].claims
    BY <2>2 DEF Opens
  <2>4. claim' = [claim EXCEPT ![M(i)] = i] BY <2>3 DEF OpenClaim
  <2>5. m = M(i) /\ claim'[m] = i BY <1>1, <1>3, <2>3, <2>4 DEF TypeInv
  <2>6. pass'[i].run = pass[i].run BY <2>3, SamePasses
  <2> QED BY <2>3, <2>5, <2>6
<1> QED BY <1>2, <1>3

(* Whichever way a Run closes, nothing is left in it but a claim that an ended *)
(* pass forgot on a completed Matter: a living pass with a claim would hold the *)
(* lock that the finishing one holds (lockRun, settle, finishRun).            *)
LEMMA ClosedKept ==
  ASSUME ExecInv, CloseInv, Next
  PROVE  ClosedRunIsSettled'
<1>1. TypeInv /\ PassInv /\ ClaimInv /\ SettleInv /\ OwnInv /\ StartedInv /\ ClosedRunIsSettled
  BY DEF ExecInv, CloseInv
<1>2. \A r \in Run : Frozen[r] \subseteq Matter BY ExecutionAssumption
<1>3. ASSUME NEW i \in Pass, Conclude(i), ~pass[i].standby
      PROVE  /\ \A m \in Frozen[pass[i].run] : Resolved(m)'
             /\ lock[pass[i].run] = i /\ pass[i].claims = {} /\ UNCHANGED claim
  <2>1. pass[i].pc = "settle" /\ pass[i].todo = {} /\ UNCHANGED claim BY <1>3 DEF Conclude
  <2>2. GoodPass(i, pass[i]) /\ Settles(pass[i]) BY <1>1 DEF PassInv, SettleInv
  <2>3. pass[i].run \in Run /\ lock[pass[i].run] = i BY <2>1, <2>2 DEF GoodPass, Unlocked
  <2>4. pass[i].claims = {} /\ \A m \in Frozen[pass[i].run] : Resolved(m) BY <1>3, <2>1, <2>2 DEF Settles
  <2> QED BY <1>2, <2>1, <2>3, <2>4, ResolvedStays
<1>4. ASSUME NEW r \in Run, run'[r] = "finished", NEW m \in Frozen[r] PROVE Resolved(m)'
  <2>1. CASE run[r] = "finished"
    <3>1. Resolved(m) BY <1>1, <2>1 DEF ClosedRunIsSettled, Resolved
    <3> QED BY <1>2, <3>1, ResolvedStays
  <2>2. CASE run[r] # "finished"
    <3>1. PICK i \in Pass : Conclude(i) /\ pass[i].run = r /\ ~pass[i].standby BY <1>4, <2>2, RunMoves
    <3> QED BY <1>3, <3>1
  <2> QED BY <2>1, <2>2
<1>5. ASSUME NEW m \in Matter, claim'[m] # None, run'[pass'[claim'[m]].run] # "open"
      PROVE  /\ run'[pass'[claim'[m]].run] = "finished"
             /\ pass'[claim'[m]].pc = "ended"
             /\ lifecycle'[m] \in {"done", "canceled"}
  <2>1. claim'[m] = claim[m]
    <3>1. SUFFICES ASSUME claim'[m] # claim[m] PROVE FALSE OBVIOUS
    <3>2. Opens BY <1>5, <3>1, ClaimMoves DEF Closes, CloseClaims
    <3>3. PICK i \in Pass : Begun(i) /\ M(i) \in Matter /\ OpenClaim(i) /\ UNCHANGED run BY <3>2 DEF Opens
    <3>4. claim' = [claim EXCEPT ![M(i)] = i] /\ run[pass[i].run] = "open" BY <3>3 DEF OpenClaim, RunIsOpen
    <3>5. claim'[m] = i BY <1>1, <3>1, <3>3, <3>4 DEF TypeInv
    <3>6. pass'[i].run = pass[i].run BY <3>3, SamePasses
    <3> QED BY <1>5, <3>3, <3>4, <3>5, <3>6
  <2>2. PICK j \in Pass : j = claim[m] /\ j # None /\ Begun(j) BY <1>1, <1>5, <2>1 DEF TypeInv, ClaimInv
  <2>3. PICK r \in Run : r = pass[j].run /\ pass'[j].run = r
    BY <1>1, <2>2, SamePasses DEF PassInv, GoodPass, Begun
  <2>4. lifecycle[m] \in {"done", "canceled"} => lifecycle'[m] \in {"done", "canceled"}
    BY <1>1, Shape, PlanMoves
  <2>5. run[r] # "unborn" /\ m \in Frozen[r] /\ (pass[j].pc # "ended" => m \in pass[j].claims)
    BY <1>1, <2>2, <2>3 DEF StartedInv, OwnInv
  <2>6. CASE run'[r] = run[r]
    <3>1. run[r] = "finished" /\ pass[j].pc = "ended" /\ lifecycle[m] \in {"done", "canceled"}
      BY <1>1, <1>5, <2>1, <2>2, <2>3, <2>6 DEF ClosedRunIsSettled
    <3> QED BY <2>1, <2>2, <2>3, <2>4, <2>6, <3>1, OthersStay
  <2>7. ASSUME NEW i \in Pass, Conclude(i), pass[i].run = r, ~pass[i].standby, run'[r] = "finished"
        PROVE  pass'[claim'[m]].pc = "ended" /\ lifecycle'[m] \in {"done", "canceled"}
    <3>1. Resolved(m)' /\ lock[r] = i /\ pass[i].claims = {} BY <1>3, <2>5, <2>7
    <3>2. lifecycle'[m] \in {"done", "canceled"} BY <3>1 DEF Resolved, Sealed
    <3>3. pass[j].pc = "ended"
      <4>1. SUFFICES ASSUME pass[j].pc # "ended" PROVE FALSE OBVIOUS
      <4>2. m \in pass[j].claims BY <2>5, <4>1
      <4>3. GoodPass(j, pass[j]) BY <1>1 DEF PassInv
      <4>4. pass[j].pc \notin Unclaimed BY <4>2, <4>3 DEF GoodPass
      <4>5. lock[r] = j BY <2>3, <4>3, <4>4 DEF GoodPass, Unclaimed
      <4> QED BY <3>1, <4>2, <4>5
    <3> QED BY <2>1, <2>2, <3>2, <3>3, OthersStay
  <2>8. OpenDispatchesForRun(r)' # {} BY <1>5, <2>1, <2>2, <2>3 DEF OpenDispatchesForRun
  <2> QED BY <1>5, <2>1, <2>2, <2>3, <2>5, <2>6, <2>7, <2>8, RunMoves
<1> QED BY <1>4, <1>5 DEF ClosedRunIsSettled, Resolved, Sealed

(* Every step keeps what a closing Run leaves behind.                        *)
LEMMA CloseKept == ExecInv /\ CloseInv /\ [Next]_vars => CloseInv'
<1> SUFFICES ASSUME ExecInv, CloseInv, [Next]_vars PROVE CloseInv' OBVIOUS
<1>1. CASE Next
  <2>1. SettleInv'
    <3> SUFFICES ASSUME NEW j \in Pass PROVE Settles(pass[j])' BY DEF SettleInv
    <3>1. pass \in [Pass -> Passes] /\ Settles(pass[j]) BY DEF ExecInv, TypeInv, CloseInv, SettleInv
    <3>2. CASE PassStep(j) BY <1>1, <3>1, <3>2, SettleMoves
    <3>3. CASE pass'[j].pc # "settle" BY <3>3 DEF Settles
    <3>4. CASE pass'[j].pc = "settle" /\ ~PassStep(j)
      <4>1. pass'[j] = pass[j]
        <5>1. CASE Begun(j) BY <1>1, <3>4, <5>1, OthersStay
        <5>2. CASE ~Begun(j)
          <6>1. ASSUME NEW i \in Pass, PassStep(i) PROVE pass'[j] = pass[j]
            <7>1. PICK q \in Passes : Moves(i, q) BY <1>1, <6>1, PassMoves
            <7> QED BY <3>1, <3>4, <6>1, <7>1 DEF Moves
          <6>2. ASSUME NEW i \in Pass, NEW w \in Worktree, NEW r \in Run, NEW resume \in BOOLEAN, Begin(i, w, r, resume)
                PROVE  pass'[j] = pass[j]
            <7>1. PICK q : q = [Unbegun EXCEPT !.pc = "lock", !.run = r, !.tree = w, !.resume = resume] OBVIOUS
            <7>2. pass' = [pass EXCEPT ![i] = q] BY <6>2, <7>1 DEF Begin, To
            <7>3. q.pc = "lock" BY <7>1 DEF Unbegun
            <7> QED BY <3>1, <3>4, <7>2, <7>3
          <6> QED BY <1>1, <6>1, <6>2
                  DEF Next, StartRun, StandDownRun, Start, Transition, CloseGate, OpenBracket, CloseBracket, CloseRole
        <5> QED BY <5>1, <5>2
      <4>2. PICK p : p = pass[j] OBVIOUS
      <4>3. /\ p = pass'[j] /\ p.pc = "settle" /\ p.todo \subseteq Frozen[p.run] /\ p.claims \subseteq p.todo
            /\ \A m \in Frozen[p.run] \ p.todo : p.standby \/ Resolved(m)
        BY <3>1, <3>4, <4>1, <4>2 DEF Settles
      <4>4. p.run \in Run /\ Frozen[p.run] \subseteq Matter
        BY <4>2, <4>3, ExecutionAssumption DEF ExecInv, PassInv, GoodPass
      <4>5. \A m \in Frozen[p.run] \ p.todo : p.standby \/ Resolved(m)' BY <1>1, <4>3, <4>4, ResolvedStays
      <4> QED BY <4>3, <4>5 DEF Settles, Resolved, Sealed
    <3> QED BY <3>2, <3>3, <3>4
  <2> QED BY <1>1, <2>1, OwnKept, StartedKept, ClosedKept DEF CloseInv
<1>2. CASE UNCHANGED vars
  <2>1. UNCHANGED <<lifecycle, closed, swept, run, claim, bracket, role, lock, pass>> BY <1>2 DEF vars
  <2>2. SettleInv' BY <2>1 DEF CloseInv, SettleInv, Settles, Resolved, Sealed
  <2>3. OwnInv' /\ StartedInv' BY <2>1 DEF CloseInv, OwnInv, StartedInv, Begun
  <2>4. ClosedRunIsSettled' BY <2>1 DEF CloseInv, ClosedRunIsSettled, Sealed
  <2> QED BY <2>2, <2>3, <2>4 DEF CloseInv
<1> QED BY <1>1, <1>2

-----------------------------------------------------------------------------
(* Results.                                                                  *)

(* The invariant holds in every behaviour of the passes and of the people      *)
(* around them.                                                              *)
THEOREM InvariantHolds == Spec => []ExecInv
BY InitInv, NextInv, PTL DEF Spec

(* Two passes never work in one Matter at a time, unless it was sealed under   *)
(* one of them: the claim that openDispatch gives out is exclusive, and the    *)
(* Run lock keeps stand-down and resume from taking it away.                  *)
THEOREM ExclusiveWork == Spec => []OneWorker
<1>1. ExecInv => OneWorker
  <2> SUFFICES ASSUME ExecInv, NEW i \in Pass, NEW j \in Pass, i # j,
                      pass[i].pc = "work", pass[j].pc = "work", M(i) = M(j)
               PROVE  Sealed(M(i))
    BY DEF OneWorker
  <2>1. GoodPass(i, pass[i]) /\ GoodPass(j, pass[j]) BY DEF ExecInv, PassInv
  <2>2. M(i) \in pass[i].claims /\ M(i) \in pass[j].claims BY <2>1 DEF GoodPass, Holding, M
  <2>3. (claim[M(i)] = i \/ Sealed(M(i))) /\ (claim[M(i)] = j \/ Sealed(M(i))) BY <2>1, <2>2 DEF GoodPass
  <2> QED BY <2>3
<1> QED BY <1>1, InvariantHolds, PTL

(* No role outlives its bracket and no Run of a swept anonymous Batch is open   *)
(* or claims anything, although sweepBatch takes no Run lock.                 *)
THEOREM QuietWhenClosed == Spec => []ClosedIsQuiet
<1>1. ExecInv => ClosedIsQuiet BY DEF ExecInv, RoleInv, SweptInv, ClosedIsQuiet
<1> QED BY <1>1, InvariantHolds, PTL

(* A Run is finished only with every member canceled or sealed, although settle *)
(* reads them one by one; a closed Run leaves no claim open but one that an    *)
(* ended pass forgot on a completed Matter (settle, finishRun, standDownRun).  *)
THEOREM NothingLeftBehind == Spec => []ClosedRunIsSettled
<1>1. Init => CloseInv
  <2> SUFFICES ASSUME Init PROVE CloseInv OBVIOUS
  <2>1. \A i \in Pass : pass[i].pc = "unbegun" BY DEF Init, Unbegun
  <2>2. SettleInv /\ StartedInv BY <2>1 DEF SettleInv, Settles, StartedInv, Begun
  <2>3. OwnInv /\ ClosedRunIsSettled BY DEF Init, OwnInv, ClosedRunIsSettled
  <2> QED BY <2>2, <2>3 DEF CloseInv
<1>2. CloseInv => ClosedRunIsSettled BY DEF CloseInv
<1> QED BY <1>1, <1>2, CloseKept, InvariantHolds, PTL DEF Spec
=============================================================================
