------------------------------- MODULE Roles --------------------------------
(***************************************************************************)
(* Runs, roles and the scheduler's hook commands on a claimed Matter, and   *)
(* the brackets they keep a claim open with (authoritystore, step10).       *)
(* Runs, roles and hook results are derived from the log.  A role or run    *)
(* command that no longer fits at completion is not refused: the completion *)
(* fails and the command stays submitted.                                   *)
(* Log: run.started s = run, p = <<Matter>>; run.finished, run.resumed;     *)
(* scheduler.hook-completed s = target, p = <<role, outcome, claim, unit,   *)
(* number of planned Steps>>, with unit = <<kind, run, Matter, ...>>.       *)
(***************************************************************************)
EXTENDS Relations

CONSTANTS Run, Role,         \* ids of runs and of roles
          MaxPlan            \* bound: Steps of a plan
VARIABLE causes              \* cause of a Step's birth command: command id -> hook command

roleVars == <<repairs, batches, sweeps, causes>>
RoleRefuse(e) == RefuseAll(e) /\ UNCHANGED causes
RoleAccept(e, events) == AcceptAll(e, events) /\ UNCHANGED causes

-----------------------------------------------------------------------------
(* step10RunStateTx, step10RolesAtTx.                                        *)
Started(r, pos) == {i \in 1 .. pos : log[i].k = "run.started" /\ log[i].s = r}
RunActive(r, pos) ==
  Started(r, pos) # {} /\ ~\E i \in 1 .. pos : log[i].k = "run.finished" /\ log[i].s = r
RunOwner(r) == log[Min(Started(r, Len(log)))].c[1]
RunMatter(r) == log[Min(Started(r, Len(log)))].p[1]
step10RolesAt(r, pos) == {i \in ActiveRolesAt(pos) : log[i].p[3] = r}

(* The plans and the work that hook commands of claim c reported, of role id *)
(* when it is given.                                                         *)
Hooks(c, kind, id) ==
  {i \in DOMAIN log : /\ log[i].k = "scheduler.hook-completed" /\ log[i].p[3] = c /\ log[i].p[4][1] = kind
                      /\ id # NoRun => log[i].p[1] = id}
HookPending(c, kinds, id) ==
  \E e \in Env : /\ Op(e) = "scheduler.orchestrate" /\ pending[e].kind \in kinds /\ pending[e].claim = c
                 /\ id # NoRun => pending[e].role = id

BirthsOf(plan) == {id \in DOMAIN causes : causes[id] = plan}
step10PlanBirthsIncomplete(c, id) ==
  \/ HookPending(c, {"plan"}, id)
  \/ \E i \in Hooks(c, "plan", id) :
       \/ Cardinality(BirthsOf(log[i].c)) # log[i].p[5]
       \/ \E b \in BirthsOf(log[i].c) : b \notin DOMAIN receipts
step10WorkConsumptionIncomplete(c, id) ==
  \/ HookPending(c, {"work"}, id)
  \/ \E i \in Hooks(c, "work", id) :
       \/ log[i].p[2] = "verified" /\ ~Satisfied(claims[c].matter, "verified", Len(log))
       \/ log[i].p[2] = "completed" /\ ~(Live(log[i].s) /\ LifeState(log[i].s) = "done")

(* What keeps a claim from being sealed and released.                        *)
MutClaimHasUnresolvedWork(c) == FALSE
step10ClaimHasUnresolvedWork(c) ==
  \/ \E i \in ActiveRolesAt(Len(log)) : log[i].p[2] = c
  \/ HookPending(c, {"plan", "work"}, NoRun)
  \/ step10PlanBirthsIncomplete(c, NoRun)
  \/ step10WorkConsumptionIncomplete(c, NoRun)

SealClaimJournal(e, c) == ~step10ClaimHasUnresolvedWork(c) /\ SealOwnedClaimJournal(e, c) /\ UNCHANGED roleVars

CompleteClaimRelease(e) ==
  /\ Op(e) = "claim.release"
  /\ \/ step10ClaimHasUnresolvedWork(pending[e].claim) /\ RoleRefuse(e)
     \/ ~step10ClaimHasUnresolvedWork(pending[e].claim) /\ CompleteRelease(e) /\ UNCHANGED roleVars

-----------------------------------------------------------------------------
(* role.spawn and role.close.  The first role of a run starts it.            *)
RoleFits(e, cmd) ==
  LET c == cmd.claim
      pos == Len(log)
      active == ActiveRolesAt(pos)
  IN  /\ Step4Claim(e, c)
      /\ IF Started(cmd.run, pos) = {} THEN cmd.op = "role.spawn"
         ELSE RunActive(cmd.run, pos) /\ RunOwner(cmd.run) = e /\ RunMatter(cmd.run) = claims[c].matter
      /\ cmd.name = "role:verifier" => Named("verified", pos)
      /\ IF cmd.op = "role.spawn"
         THEN \A i \in active : log[i].s # cmd.role /\ <<log[i].p[1], log[i].p[2]>> # <<cmd.name, c>>
         ELSE /\ \E i \in active : log[i].s = cmd.role /\ log[i].p[1] = cmd.name /\ log[i].p[2] = c
              /\ ~step10PlanBirthsIncomplete(c, cmd.role)
              /\ ~step10WorkConsumptionIncomplete(c, cmd.role)

submitStep10Role(e, cmd) ==
  /\ RoleFits(e, cmd)
  /\ Submit(e, cmd)
  /\ Appendable(e, cmd.claim) /\ AppendClaimJournalEntry(e, cmd.claim)
  /\ UNCHANGED <<nodes, treeVars, roleVars>>

completeStep10Role(e) ==
  LET cmd == pending[e]
      who == <<cmd.name, cmd.claim, cmd.run>>
      start == IF Started(cmd.run, Len(log)) = {} THEN <<Event(e, "run.started", cmd.run, <<claims[cmd.claim].matter>>)>>
               ELSE <<>>
  IN  /\ Op(e) \in {"role.spawn", "role.close"}
      /\ RoleFits(e, cmd)
      /\ \/ cmd.op = "role.spawn" /\ RoleAccept(e, Append(start, Event(e, "role.spawned", cmd.role, who)))
         \/ cmd.op = "role.close" /\ RoleAccept(e, <<Event(e, "role.closed", cmd.role, who)>>)

-----------------------------------------------------------------------------
(* run.finish and scheduler.resume, which need the run to be idle.           *)
RunIdle(e, r) ==
  /\ RunActive(r, Len(log)) /\ RunOwner(r) = e
  /\ step10RolesAt(r, Len(log)) = {}
  /\ ~\E c \in ClaimsOf(RunMatter(r)) : Open(c)
RunFits(e, cmd) == RunIdle(e, cmd.run) /\ (cmd.op = "run.finish" => LifeState(RunMatter(cmd.run)) = "done")

SubmitRun(e, cmd) == RunFits(e, cmd) /\ SubmitRelation(e, cmd) /\ UNCHANGED causes

CompleteRun(e) ==
  /\ Op(e) \in {"run.finish", "scheduler.resume"}
  /\ RunFits(e, pending[e])
  /\ RoleAccept(e, <<Event(e, IF Op(e) = "run.finish" THEN "run.finished" ELSE "run.resumed", pending[e].run, <<>>)>>)

-----------------------------------------------------------------------------
(* scheduler.orchestrate.  A unit of work is bound to the first command that *)
(* names it: a plan is one unit of a run and Matter, work is one unit of a   *)
(* role activation.                                                          *)
Unit(cmd) == IF cmd.kind = "work" THEN <<"work", cmd.run, cmd.matter, cmd.target, cmd.role>>
             ELSE <<cmd.kind, cmd.run, cmd.matter>>
MutSchedulerHookUnit(cmd) == ~\E e \in Env : Op(e) = "scheduler.orchestrate" /\ Unit(pending[e]) = Unit(cmd)
validateSchedulerHookUnit(cmd) ==
  /\ ~\E i \in DOMAIN log : log[i].k = "scheduler.hook-completed" /\ log[i].p[4] = Unit(cmd)
  /\ ~\E e \in Env : Op(e) = "scheduler.orchestrate" /\ Unit(pending[e]) = Unit(cmd)

HookContext(e, cmd) ==
  /\ RunActive(cmd.run, Len(log)) /\ RunOwner(cmd.run) = e /\ RunMatter(cmd.run) = cmd.matter
  /\ cmd.kind # "ask" =>
       /\ Open(cmd.claim) /\ claims[cmd.claim].matter = cmd.matter
       /\ \E i \in step10RolesAt(cmd.run, Len(log)) :
            log[i].s = cmd.role /\ log[i].p[1] = cmd.name /\ log[i].p[2] = cmd.claim

submitSchedulerHook(e, cmd) ==
  /\ HookContext(e, cmd)
  /\ cmd.kind = "work" => Live(cmd.target) /\ nodes[cmd.target].matter = cmd.matter
  /\ validateSchedulerHookUnit(cmd)
  /\ cmd.kind # "ask" => Step4Claim(e, cmd.claim) /\ TargetClaim(e, cmd.matter)
  /\ SubmitRelation(e, cmd)
  /\ UNCHANGED causes

(* The outcome is what the adapter returned: a plan of n Steps, the report of *)
(* a builder, the verdict of the Verifier.                                   *)
Outcomes(cmd) ==
  CASE cmd.kind = "plan" -> {<<"planned", n>> : n \in 0 .. MaxPlan}
    [] cmd.kind = "work" /\ cmd.name = "role:verifier" -> {<<"verified", 0>>, <<"not-verified", 0>>}
    [] cmd.kind = "work" /\ cmd.name # "role:verifier" -> {<<"completed", 0>>, <<"blocked", 0>>}
    [] cmd.kind = "ask" -> {<<"asked", 0>>}

CompleteSchedulerHook(e) ==
  LET cmd == pending[e] IN
  /\ Op(e) = "scheduler.orchestrate"
  /\ HookContext(e, cmd)
  /\ \E o \in Outcomes(cmd) :
       RoleAccept(e, <<Event(e, "scheduler.hook-completed", cmd.target, <<cmd.role, o[1], cmd.claim, Unit(cmd), o[2]>>)>>)

(* The births that a plan caused, one after the other, and the one correction *)
(* Step that a failed verification may cause.                                *)
validateSchedulerPlanStep(e, c, plan) ==
  \E i \in DOMAIN log :
    /\ log[i].k = "scheduler.hook-completed" /\ log[i].c = plan /\ plan[1] = e
    /\ log[i].p[4][3] = claims[c].matter
    /\ \/ /\ log[i].p[2] = "planned"
          /\ Cardinality(BirthsOf(plan)) < log[i].p[5]
          /\ \A b \in BirthsOf(plan) : b \in DOMAIN receipts /\ receipts[b].ok
       \/ log[i].p[2] = "not-verified" /\ BirthsOf(plan) = {}

SubmitPlanStep(e, c, plan) ==
  /\ validateSchedulerPlanStep(e, c, plan)
  /\ SubmitStep4(e, [op |-> "step.create@2", claim |-> c, node |-> claims[c].matter])
  /\ causes' = (Cid(e) :> plan) @@ causes
  /\ UNCHANGED <<repairs, relationVars>>

-----------------------------------------------------------------------------
(* What a reopen asks of the role and run events.                            *)
validateStep10History(i) ==
  LET v == log[i] IN
  /\ v.k = "role.spawned" => ~\E j \in ActiveRolesAt(i - 1) : log[j].s = v.s
  /\ v.k = "role.closed" => \E j \in ActiveRolesAt(i - 1) : log[j].s = v.s /\ log[j].p = v.p
  /\ v.k \in {"role.spawned", "role.closed"} => claims[v.p[2]].owner = v.c[1]
  /\ v.k = "run.started" => Started(v.s, i - 1) = {} /\ claims[log[i + 1].p[2]].matter = v.p[1]
  /\ v.k = "run.finished" => RunActive(v.s, i - 1) /\ RunOwner(v.s) = v.c[1]
  /\ v.k = "run.resumed" => /\ RunActive(v.s, i - 1) /\ RunOwner(v.s) = v.c[1]
                            /\ step10RolesAt(v.s, i - 1) = {} /\ ~OpenClaimAt(RunMatter(v.s), i - 1)
checkStep10History == \A i \in DOMAIN log : validateStep10History(i)

CompleteRoles(e) ==
  \/ CompleteClaimRelease(e)
  \/ completeStep10Role(e)
  \/ CompleteRun(e)
  \/ CompleteSchedulerHook(e)

(* Completion of whatever command of the authority is submitted.             *)
CompleteAny(e) ==
  \/ Op(e) # "claim.release" /\ Complete(e) /\ UNCHANGED roleVars
  \/ CompleteGate(e) /\ UNCHANGED <<relationVars, causes>>
  \/ CompleteRelation(e) /\ UNCHANGED causes
  \/ CompleteRoles(e)

-----------------------------------------------------------------------------
(* A claim that was released left nothing open: no role, no planned Step that *)
(* was not born, no reported work that was not recorded on its target.       *)
ReleasedIsResolved ==
  \A c \in DOMAIN claims : claims[c].closed = "release" =>
    /\ ~\E i \in ActiveRolesAt(Len(log)) : log[i].p[2] = c
    /\ ~HookPending(c, {"plan", "work"}, NoRun)
    /\ \A i \in Hooks(c, "plan", NoRun) : Cardinality(BirthsOf(log[i].c)) = log[i].p[5]
    /\ \A i \in Hooks(c, "work", NoRun) :
         /\ log[i].p[2] = "completed" => LifeState(log[i].s) = "done"
         /\ log[i].p[2] = "verified" => Satisfied(claims[c].matter, "verified", Len(log))

(* A unit of scheduler work is done by at most one command, whatever is       *)
(* retried or restarted in between.                                          *)
UnitOnce ==
  \A i, j \in Logged({"scheduler.hook-completed"}) : log[i].p[4] = log[j].p[4] => i = j

(* The authority never writes a store that it would refuse to open again.    *)
(* It does: this fails once the Verifier closes its gate.                    *)
AuthorityReopens == checkWork /\ checkGates /\ checkRelations /\ checkStep10History

RoleClosedGate == \E i \in DOMAIN log : log[i].k \in {"gate.closed", "gate.dismissed"} /\ log[i].p[2] # "human"

(* What the completions commit passes every check of the next start, for the *)
(* histories in which no role closed a gate (the Verifier may, and           *)
(* gateEventActorAllowed then refuses the store) and no Step was born through*)
(* the birth claim of a claimed Matter (its sort key ignores the siblings).  *)
OnlyRoleClosedGatesLose == RoleClosedGate \/ BornUnderClaim \/ AuthorityReopens
=============================================================================
