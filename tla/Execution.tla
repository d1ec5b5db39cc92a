----------------------------- MODULE Execution -----------------------------
(***************************************************************************)
(* Runs over Matters: the advisory Run lock, the claim Dispatch of a       *)
(* Matter, the roles bound to a bracket, and the Orchestrator's pass, in   *)
(* its first form (Orchestrate) and after an interruption (Resume).        *)
(*                                                                         *)
(* A pass is one process.  Each of its commits is a step; it may fail or   *)
(* die at any of them.  Meanwhile other passes run from other worktrees,   *)
(* and people start, finish, pause and cancel nodes, close gates, stand    *)
(* Runs down and close brackets and roles.                                 *)
(*                                                                         *)
(* Runs belong to one Clone here.  Nodes are numbered in creation order.   *)
(***************************************************************************)
EXTENDS Naturals, FiniteSets, FiniteSetsExt

CONSTANTS
  Matter, Step, ParentOf,   \* plan nodes; the Matter of each Step
  Unplanned,                \* Steps that only the Researcher authors
  BlockedBy,                \* edges in force: <<node, blocker>>
  Gated,                    \* Matters under a gate declared at Matter scale
  Run, Frozen,              \* Runs (numbered) and the frozen dispatch set of each
  Anonymous,                \* the Matter whose anonymous Batch a Run is over
  Worktree,
  Handled,                  \* bound: nodes that people move by hand
  Cap,                      \* the Run cap
  MaxPasses                 \* bound: passes ever begun

Node == Matter \cup Step
Pass == 1 .. MaxPasses
None == 0

ASSUME ExecutionAssumption ==
  /\ Node \subseteq Nat \ {None} /\ Matter \cap Step = {} /\ IsFiniteSet(Node)
  /\ ParentOf \in [Step -> Matter]
  /\ Unplanned \subseteq Step
  /\ BlockedBy \subseteq Node \X Node
  /\ Gated \subseteq Matter /\ Handled \subseteq Node
  /\ Frozen \in [Run -> SUBSET Matter]
  /\ Anonymous \in [Run -> Matter \cup {None}]
  /\ \A r \in Run : Anonymous[r] # None => Frozen[r] \subseteq {Anonymous[r]}   \* its sole Matter
  /\ Cap \in Nat \ {0} /\ MaxPasses \in Nat

VARIABLES
  lifecycle,    \* nodes: lifecycle, or unborn
  closed,       \* Matters whose gate is closed
  swept,        \* Matters whose anonymous Batch was swept
  run,          \* runs: unborn, open, or the reason it was closed for
  claim,        \* dispatches: the pass whose claim on the Matter is open
  bracket,      \* worktrees with an open plain Dispatch
  role,         \* roles: the open instances
  lock,         \* the pass that holds the flock of a Run
  pass          \* per pass, the state of its process

vars == <<lifecycle, closed, swept, run, claim, bracket, role, lock, pass>>
plan == <<lifecycle, closed, swept>>

MatterOf(n) == IF n \in Step THEN ParentOf[n] ELSE n
Children(m) == {s \in Step : ParentOf[s] = m /\ lifecycle[s] # "unborn"}
Sealed(m) == lifecycle[m] = "done" /\ (m \in Gated => m \in closed)

Unbegun == [pc |-> "unbegun", run |-> None, tree |-> None, resume |-> FALSE,
            node |-> None, fresh |-> FALSE, claims |-> {}, skipped |-> {},
            todo |-> {}, standby |-> FALSE]

\* An open role: its name, the pass it was spawned for and, unless it is in a
\* plain bracket, the Matter whose claim it is in.
Instance(name, i, m) == [name |-> name, pass |-> i, matter |-> m]
Orchestrator(i) == Instance("orchestrator", i, None)

Active(i) == pass[i].pc \notin {"unbegun", "ended"}
To(i, p) == pass' = [pass EXCEPT ![i] = p]
Goto(i, pc) == To(i, [pass[i] EXCEPT !.pc = pc])

\* verifyRoleActor: a commit that speaks as a role needs an open instance of it
\* in the worktree.
Speaks(i, name) == \E r \in role : r.name = name /\ pass[r.pass].tree = pass[i].tree

Init ==
  /\ lifecycle = [n \in Node |-> IF n \in Unplanned THEN "unborn" ELSE "planned"]
  /\ closed = {} /\ swept = {}
  /\ run = [r \in Run |-> "unborn"]
  /\ claim = [m \in Matter |-> None]
  /\ bracket = {}
  /\ role = {}
  /\ lock = [r \in Run |-> None]
  /\ pass = [i \in Pass |-> Unbegun]

----------------------------------------------------------------------------
(* Folds. *)

\* Roles left when the claims on ms close: the close reaps those inside.
RolesWithout(ms) == {r \in role : r.matter = None \/ r.matter \notin ms \/ r.pass # claim[r.matter]}

CloseClaims(ms) ==
  /\ claim' = [m \in Matter |-> IF m \in ms THEN None ELSE claim[m]]
  /\ role' = RolesWithout(ms)

OpenDispatchesForRun(r) == {m \in Matter : claim[m] # None /\ pass[claim[m]].run = r}

\* validateRunContext, requireOpen.
RunIsOpen(r) == run[r] = "open"

\* finishRun.
FinishRun(r) == RunIsOpen(r) /\ run' = [run EXCEPT ![r] = "finished"]

\* The run.skipped of a pass is accepted; it changes no row.
RunSkipped(i) == Speaks(i, "orchestrator") /\ RunIsOpen(pass[i].run)

\* The Orchestrator spawns a role into its claim on m: an open bracket with no
\* open role of that name.
SpawnRole(i, name, m) ==
  /\ Speaks(i, "orchestrator")
  /\ claim[m] = i
  /\ Instance(name, i, m) \notin role
  /\ role' = role \cup {Instance(name, i, m)}

\* A pass closes a role of its own; one that its bracket reaped stays closed.
CloseOwnRole(r) == role' = role \ {r}

\* startRun: its Batch must be live.
StartRun(r) ==
  /\ run[r] = "unborn"
  /\ Anonymous[r] \notin swept
  /\ run' = [run EXCEPT ![r] = "open"]
  /\ UNCHANGED <<plan, claim, bracket, role, lock, pass>>

\* sweepBatch, if the Matter m has just sealed.
SealSweep(m, seals) ==
  IF seals /\ m \notin swept /\ \E r \in Run : Anonymous[r] = m
  THEN LET rs == {r \in Run : Anonymous[r] = m /\ run[r] = "open"}
       IN /\ swept' = swept \cup {m}
          /\ run' = [r \in Run |-> IF r \in rs THEN "reaped" ELSE run[r]]
          /\ CloseClaims(UNION {OpenDispatchesForRun(r) : r \in {q \in Run : Anonymous[q] = m}})
  ELSE UNCHANGED <<swept, run, claim, role>>

----------------------------------------------------------------------------
(* People and their verbs. *)

\* Start with its cascade.
Started(n) == [a \in Node |-> IF a \in {n, MatterOf(n)} /\ lifecycle[a] = "planned"
                              THEN "in_progress" ELSE lifecycle[a]]

Start(n) ==
  /\ lifecycle[n] = "planned"
  /\ lifecycle' = Started(n)
  /\ UNCHANGED <<closed, swept, run, claim, bracket, role, lock, pass>>

\* Finish, Cancel, Pause and Resume of a node.
Transition(n, from, to) ==
  /\ lifecycle[n] = from
  /\ lifecycle' = [lifecycle EXCEPT ![n] = to]
  /\ SealSweep(n, n \in Matter /\ to = "done" /\ (n \in Gated => n \in closed))
  /\ UNCHANGED <<closed, bracket, lock, pass>>

CloseGate(m) ==
  /\ m \in Gated \ closed
  /\ closed' = closed \cup {m}
  /\ SealSweep(m, lifecycle[m] = "done")
  /\ UNCHANGED <<lifecycle, bracket, lock, pass>>

\* wip refresh opens a plain bracket, wip dispatch close ends it.
OpenBracket(w) ==
  /\ w \notin bracket
  /\ bracket' = bracket \cup {w}
  /\ UNCHANGED <<plan, run, claim, role, lock, pass>>

CloseBracket(w) ==
  /\ w \in bracket
  /\ bracket' = bracket \ {w}
  /\ role' = {r \in role : r.matter # None \/ pass[r.pass].tree # w}
  /\ UNCHANGED <<plan, run, claim, lock, pass>>

\* wip role close orchestrator.
CloseRole(w) ==
  /\ w \in bracket
  /\ \E r \in role :
       /\ r.matter = None /\ pass[r.pass].tree = w
       /\ role' = role \ {r}
  /\ UNCHANGED <<plan, run, claim, bracket, lock, pass>>

\* The lock is taken and given back around the one commit.
StandDownRun(r) ==
  /\ run[r] = "open"
  /\ lock[r] = None
  /\ run' = [run EXCEPT ![r] = "stood-down"]
  /\ CloseClaims(OpenDispatchesForRun(r))
  /\ UNCHANGED <<plan, bracket, lock, pass>>

----------------------------------------------------------------------------
(* A pass up to its loop. *)

\* Orchestrate or Resume finds the Run open.
Begin(i, w, r, resume) ==
  /\ pass[i].pc = "unbegun" /\ \A j \in 1 .. i - 1 : pass[j].pc # "unbegun"
  /\ run[r] = "open"
  /\ To(i, [Unbegun EXCEPT !.pc = "lock", !.run = r, !.tree = w, !.resume = resume])
  /\ UNCHANGED <<plan, run, claim, bracket, role, lock>>

\* Two passes may hold the lock of one Run.
MutAcquire(i) ==
  /\ pass[i].pc = "lock"
  /\ lock' = [lock EXCEPT ![pass[i].run] = i]
  /\ Goto(i, "spawn")
  /\ UNCHANGED <<plan, run, claim, bracket, role>>

Acquire(i) ==
  /\ pass[i].pc = "lock"
  /\ lock[pass[i].run] = None
  /\ lock' = [lock EXCEPT ![pass[i].run] = i]
  /\ Goto(i, "spawn")
  /\ UNCHANGED <<plan, run, claim, bracket, role>>

\* One open Orchestrator per bracket.
SpawnOrchestrator(i) ==
  /\ pass[i].pc = "spawn"
  /\ pass[i].tree \in bracket
  /\ \A r \in role : r.matter = None => pass[r.pass].tree # pass[i].tree
  /\ role' = role \cup {Orchestrator(i)}
  /\ Goto(i, IF pass[i].resume THEN "reap" ELSE "derive")
  /\ UNCHANGED <<plan, run, claim, bracket, lock>>

ReapOrphans(i) ==
  /\ pass[i].pc = "reap"
  /\ Speaks(i, "orchestrator") /\ RunIsOpen(pass[i].run)
  /\ CloseClaims(OpenDispatchesForRun(pass[i].run))
  /\ Goto(i, "derive")
  /\ UNCHANGED <<plan, run, bracket, lock>>

----------------------------------------------------------------------------
(* The frontier. *)

\* LocallyComplete, with gates at Matter scale only.
LocallyComplete(n) == lifecycle[n] = "done" /\ (n \in Gated => n \in closed)

EdgesSatisfied(n) ==
  \A e \in BlockedBy : e[1] = n /\ lifecycle[e[2]] # "unborn" => LocallyComplete(e[2])

\* The workable nodes of a Run: a grouping is attention, not work.
Leaves(r) ==
  {n \in Node : MatterOf(n) \in Frozen[r] /\ lifecycle[n] # "unborn"
                /\ (n \in Matter => Children(n) = {})}

Ready(r) ==
  {n \in Leaves(r) :
     /\ lifecycle[n] = "planned"
     /\ EdgesSatisfied(n) /\ EdgesSatisfied(MatterOf(n))
     /\ lifecycle[MatterOf(n)] \in {"planned", "in_progress"}}

Engaged(r) == {n \in Leaves(r) : lifecycle[n] = "in_progress"}

Unskipped(i, ns) == {n \in ns : MatterOf(n) \notin pass[i].skipped}

\* What the pass takes up next; {} if nothing.  Orphans come first.
Selected(i) ==
  LET engaged == Unskipped(i, Engaged(pass[i].run))
      ready == Unskipped(i, Ready(pass[i].run))
  IN CASE pass[i].resume /\ engaged # {} -> {Min(engaged)}
       [] ~(pass[i].resume /\ engaged # {}) /\ ready # {} /\ Cardinality(engaged) < Cap -> {Min(ready)}
       [] OTHER -> {}

----------------------------------------------------------------------------
(* engage: derive, take one node up, work it, derive again. *)

\* The pass takes one node, or leaves the loop.
Derive(i) ==
  /\ pass[i].pc = "derive"
  /\ \/ \E n \in Selected(i) :
          To(i, [pass[i] EXCEPT !.pc = IF MatterOf(n) \in pass[i].claims THEN "plan" ELSE "claim",
                                !.node = n, !.fresh = lifecycle[n] = "planned"])
     \/ /\ Selected(i) = {}
        /\ To(i, [pass[i] EXCEPT !.pc = "settle", !.node = None, !.fresh = FALSE,
                                 !.todo = Frozen[pass[i].run]])
  /\ UNCHANGED <<plan, run, claim, bracket, role, lock>>

M(i) == MatterOf(pass[i].node)

\* The fold does not look at the Run.
MutOpenClaim(i) ==
  /\ claim[M(i)] = None
  /\ claim' = [claim EXCEPT ![M(i)] = i]

\* openDispatch: the Run is open and the Matter has no open Dispatch.
OpenClaim(i) ==
  /\ RunIsOpen(pass[i].run)
  /\ claim[M(i)] = None
  /\ claim' = [claim EXCEPT ![M(i)] = i]

Claim(i) ==
  /\ pass[i].pc = "claim"
  /\ Speaks(i, "orchestrator")
  /\ \/ /\ OpenClaim(i)
        /\ To(i, [pass[i] EXCEPT !.pc = "plan", !.claims = @ \cup {M(i)}])
     \/ /\ RunIsOpen(pass[i].run) /\ claim[M(i)] # None   \* contention
        /\ Goto(i, "skip")
        /\ UNCHANGED claim
  /\ UNCHANGED <<plan, run, bracket, role, lock>>

\* The Plan hook is asked about an unplanned Matter; it may have nothing to say.
Plan(i) ==
  /\ pass[i].pc = "plan"
  /\ \/ /\ pass[i].node \in Matter /\ pass[i].fresh
        /\ \E s \in Unplanned : ParentOf[s] = pass[i].node /\ lifecycle[s] = "unborn"
        /\ SpawnRole(i, "researcher", M(i))
        /\ Goto(i, "author")
     \/ /\ Goto(i, IF pass[i].fresh THEN "start" ELSE "builder")
        /\ UNCHANGED role
  /\ UNCHANGED <<plan, run, claim, bracket, lock>>

\* The Researcher births the Steps one by one, then closes its role.
Author(i) ==
  LET new == {s \in Unplanned : ParentOf[s] = pass[i].node /\ lifecycle[s] = "unborn"}
  IN /\ pass[i].pc = "author"
     /\ \/ /\ new # {} /\ Speaks(i, "researcher")
           /\ lifecycle' = [lifecycle EXCEPT ![Min(new)] = "planned"]
           /\ UNCHANGED <<role, pass>>
        \/ /\ new = {}
           /\ CloseOwnRole(Instance("researcher", i, M(i)))
           /\ Goto(i, "derive")
           /\ UNCHANGED lifecycle
     /\ UNCHANGED <<closed, swept, run, claim, bracket, lock>>

StartNode(i) ==
  /\ pass[i].pc = "start"
  /\ Speaks(i, "orchestrator")
  /\ lifecycle[pass[i].node] = "planned"
  /\ lifecycle' = Started(pass[i].node)
  /\ Goto(i, "builder")
  /\ UNCHANGED <<closed, swept, run, claim, bracket, role, lock>>

SpawnBuilder(i) ==
  /\ pass[i].pc = "builder"
  /\ SpawnRole(i, "builder", M(i))
  /\ Goto(i, "work")
  /\ UNCHANGED <<plan, run, claim, bracket, lock>>

\* The Work hook returns.
Work(i) ==
  /\ pass[i].pc = "work"
  /\ \E next \in {"finish", "fail"} : Goto(i, next)
  /\ UNCHANGED <<plan, run, claim, bracket, role, lock>>

FinishNode(i) ==
  /\ pass[i].pc = "finish"
  /\ Speaks(i, "builder")
  /\ lifecycle[pass[i].node] = "in_progress"
  /\ lifecycle' = [lifecycle EXCEPT ![pass[i].node] = "done"]
  /\ Goto(i, "close_builder")
  /\ UNCHANGED <<closed, swept, run, claim, bracket, role, lock>>

CloseBuilder(i) ==
  /\ pass[i].pc = "close_builder"
  /\ CloseOwnRole(Instance("builder", i, M(i)))
  /\ Goto(i, IF pass[i].node \in Matter THEN "release" ELSE "containers")
  /\ UNCHANGED <<plan, run, claim, bracket, lock>>

\* closeDispatch of this pass's own claim: it must be the open one still.
CloseClaim(i, m) ==
  /\ Speaks(i, "orchestrator")
  /\ claim[m] = i
  /\ CloseClaims({m})

\* closeClaim, after the Matter is done or its work failed.
Release(i) ==
  /\ pass[i].pc \in {"release", "fail"}
  /\ CloseClaim(i, M(i))
  /\ To(i, [pass[i] EXCEPT !.pc = IF @ = "fail" THEN "skip" ELSE "derive",
                           !.claims = @ \ {M(i)}])
  /\ UNCHANGED <<plan, run, bracket, lock>>

\* completeContainers reads the Matter and its Steps ...
Containers(i) ==
  /\ pass[i].pc = "containers"
  /\ Goto(i, IF /\ lifecycle[M(i)] = "in_progress"
                /\ Children(M(i)) # {}
                /\ \A s \in Children(M(i)) : lifecycle[s] \in {"done", "canceled"}
             THEN "finish_matter" ELSE "derive")
  /\ UNCHANGED <<plan, run, claim, bracket, role, lock>>

\* ... and finishes it.
FinishMatter(i) ==
  /\ pass[i].pc = "finish_matter"
  /\ Speaks(i, "orchestrator")
  /\ lifecycle[M(i)] = "in_progress"
  /\ lifecycle' = [lifecycle EXCEPT ![M(i)] = "done"]
  /\ Goto(i, "release")
  /\ UNCHANGED <<closed, swept, run, claim, bracket, role, lock>>

\* The Matter is not marked.
MutSkipped(i, m) == pass[i].skipped

Skipped(i, m) == pass[i].skipped \cup {m}

\* run.skipped, then on with the loop or, by policy, a halt.
Skip(i) ==
  /\ pass[i].pc = "skip"
  /\ RunSkipped(i)
  /\ \E next \in {"derive", "return"} :
       To(i, [pass[i] EXCEPT !.pc = next, !.skipped = Skipped(i, M(i))])
  /\ UNCHANGED <<plan, run, claim, bracket, role, lock>>

----------------------------------------------------------------------------
(* settle. *)

\* The Matter keeps the Run from being finished: undone, or done and parked at
\* its gate.
StandsBy(m) == lifecycle[m] # "canceled" /\ ~Sealed(m)

SettleMember(i) ==
  LET p == pass[i]
      m == Min(p.todo)
      undone == lifecycle[m] \notin {"done", "canceled"}
  IN /\ p.pc = "settle" /\ p.todo # {}
     /\ \/ /\ undone /\ m \notin p.skipped                    \* run.skipped, blocked
           /\ RunSkipped(i)
           /\ \E next \in {"settle", "return"} :
                To(i, [p EXCEPT !.pc = next, !.skipped = @ \cup {m}, !.standby = TRUE])
           /\ UNCHANGED <<claim, role>>
        \/ /\ undone => m \in p.skipped
           /\ IF m \in p.claims THEN CloseClaim(i, m) ELSE UNCHANGED <<claim, role>>
           /\ To(i, [p EXCEPT !.todo = @ \ {m}, !.claims = @ \ {m},
                              !.standby = @ \/ StandsBy(m)])
     /\ UNCHANGED <<plan, run, bracket, lock>>

\* Standing by, or run.finished.
Conclude(i) ==
  LET p == pass[i]
  IN /\ p.pc = "settle" /\ p.todo = {}
     /\ \/ p.standby /\ UNCHANGED run
        \/ /\ ~p.standby
           /\ Speaks(i, "orchestrator") /\ FinishRun(p.run)
     /\ Goto(i, "return")
     /\ UNCHANGED <<plan, claim, bracket, role, lock>>

\* The pass returns, with an error if a commit was refused: the deferred calls
\* close the Orchestrator's role and release the lock.
Return(i) ==
  /\ Active(i)
  /\ CloseOwnRole(Orchestrator(i))
  /\ lock' = [r \in Run |-> IF lock[r] = i THEN None ELSE lock[r]]
  /\ To(i, [Unbegun EXCEPT !.pc = "ended", !.run = pass[i].run, !.tree = pass[i].tree])
  /\ UNCHANGED <<plan, run, claim, bracket>>

\* The process dies; the kernel releases its lock.
Die(i) ==
  /\ Active(i)
  /\ lock' = [r \in Run |-> IF lock[r] = i THEN None ELSE lock[r]]
  /\ To(i, [Unbegun EXCEPT !.pc = "ended", !.run = pass[i].run, !.tree = pass[i].tree])
  /\ UNCHANGED <<plan, run, claim, bracket, role>>

PassStep(i) ==
  \/ Acquire(i) \/ SpawnOrchestrator(i) \/ ReapOrphans(i) \/ Derive(i) \/ Claim(i)
  \/ Plan(i) \/ Author(i) \/ StartNode(i) \/ SpawnBuilder(i) \/ Work(i)
  \/ FinishNode(i) \/ CloseBuilder(i) \/ Release(i) \/ Containers(i)
  \/ FinishMatter(i) \/ Skip(i) \/ SettleMember(i) \/ Conclude(i)
  \/ Return(i) \/ Die(i)

Next ==
  \/ \E r \in Run : StartRun(r) \/ StandDownRun(r)
  \/ \E n \in Handled :
       \/ Start(n)
       \/ \E to \in {"done", "canceled", "paused"} : Transition(n, "in_progress", to)
       \/ Transition(n, "paused", "in_progress")
  \/ \E m \in Matter : CloseGate(m)
  \/ \E w \in Worktree : OpenBracket(w) \/ CloseBracket(w) \/ CloseRole(w)
  \/ \E i \in Pass :
       \/ \E w \in Worktree, r \in Run, resume \in BOOLEAN : Begin(i, w, r, resume)
       \/ PassStep(i)

Spec == Init /\ [][Next]_vars

\* A process that runs takes its next step.
FairSpec == Spec /\ \A i \in Pass : WF_vars(PassStep(i))

----------------------------------------------------------------------------
(* Properties. *)

\* Two passes never work in one Matter at a time (the claim of F4, "a Matter
\* worked from one Clone at a time"), whatever dies, is stood down or resumed
\* around them.  Only a Matter that a person has finished and sealed meanwhile
\* loses its claim under the pass that works in it.
OneWorker ==
  \A i, j \in Pass :
    i # j /\ pass[i].pc = "work" /\ pass[j].pc = "work" /\ M(i) = M(j) => Sealed(M(i))

\* What is closed leaves nothing behind.  No role outlives its bracket, whatever
\* closed the Dispatch (closeDispatch, sweepBatch).  After the sweep of an
\* anonymous Batch none of its Runs is open, claims a Matter or can do so again,
\* although the sweep takes no Run lock and a pass may be in the middle of one
\* of them (openDispatch).
ClosedIsQuiet ==
  /\ \A r \in role : IF r.matter = None THEN pass[r.pass].tree \in bracket
                     ELSE claim[r.matter] = r.pass
  /\ \A m \in swept, r \in Run :
       Anonymous[r] = m => run[r] # "open" /\ OpenDispatchesForRun(r) = {}

\* A Run is finished only when nothing is left to dispatch or to review, although
\* settle reads the members one by one while people and other passes go on.  And
\* a closed Run leaves a claim open only in one way: a pass ended without closing
\* it, its Matter was completed, and a later pass that did not resume finished
\* the Run.  Neither a stand-down nor a sweep leaves one.
ClosedRunIsSettled ==
  /\ \A r \in Run : run[r] = "finished" =>
       \A m \in Frozen[r] : lifecycle[m] = "canceled" \/ Sealed(m)
  /\ \A m \in Matter :
       claim[m] # None /\ run[pass[claim[m]].run] # "open" =>
         /\ run[pass[claim[m]].run] = "finished"
         /\ pass[claim[m]].pc = "ended"
         /\ lifecycle[m] \in {"done", "canceled"}

\* Every pass ends: the loop does not take up again what it skipped or worked,
\* if the hooks return and the process keeps running (engage).
PassEnds == \A i \in Pass : Active(i) ~> ~Active(i)
=============================================================================
