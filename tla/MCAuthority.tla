---------------------------- MODULE MCAuthority -----------------------------
(***************************************************************************)
(* Instances of the operations on work: births, claims, the tree, gates,     *)
(* relations, batches, sweeps and roles.  mode names the scenario: how the   *)
(* store was filled before, and which operations the clients go on to use.   *)
(***************************************************************************)
EXTENDS SeedProjections

CONSTANTS e1, e2, s1, s2, d1, d2, d3, n1, x1, x2, run1, r1, r2,
          MaxBirths, MaxClaims, MaxTree,   \* bounds: commands of a scenario
          MaxGate, MaxRelation, MaxTracker, MaxBatch, MaxSweep, MaxRole

VARIABLE mode
mcVars == <<allVars, causes, mode>>

AtMost(k) ==
  pending' # pending => Cardinality(DOMAIN receipts) + Cardinality({e \in Env : pending[e] # NoCmd}) < k

MatterOf(m, loc, last) == Node("matter", m, 0, <<loc>>, 0, m, last, NoSlug)
Ev(k, n, s, p) == [k |-> k, c |-> <<e1, n>>, s |-> s, p |-> p]
Ok(last) == [ok |-> TRUE, last |-> last]
BirthOf(m, state) == [owner |-> e1, state |-> state, barrier |-> IF state = "open" THEN 0 ELSE 1,
                      entries |-> <<[cmd |-> <<e1, m>>, st |-> IF state = "open" THEN "pending" ELSE "returned"]>>]
ClaimOf(m, d, start) == [matter |-> m, epoch |-> 1, owner |-> e1, closed |-> "", by |-> e1, dispatch |-> d,
                         acquired |-> <<e1, m + 2>>, start |-> start, end |-> start + 3]
JournalOf(state, ns) == <<[state |-> state, entries |-> [i \in DOMAIN ns |-> [cmd |-> <<e1, ns[i]>>, st |-> "terminal"]]]>>
ReceiptsOf(lasts) == [id \in {<<e1, n>> : n \in DOMAIN lasts} |-> Ok(lasts[id[2]])]

(* e1 has created two Matters and acquired them.                             *)
Claimed == <<Ev("matter.created", 1, 1, <<<<s1>>, <<s1>>, 2>>), Ev("matter.created", 2, 2, <<<<s2>>, <<s2>>, 2>>),
             Ev("batch.anonymous-created", 3, 1, <<1>>), Ev("claim.acquired", 3, 1, <<1, 1>>), Ev("dispatch.opened", 3, d1, <<1>>),
             Ev("batch.anonymous-created", 4, 2, <<2>>), Ev("claim.acquired", 4, 2, <<2, 1>>), Ev("dispatch.opened", 4, d2, <<2>>)>>
ClaimedLasts == <<1, 2, 5, 8>>
Life(n, s, from, to, cascade) == Ev("life", n, s, <<from, to, cascade>>)

Provisioned(lasts, events, ns, first, js) ==
  /\ pending = [e \in Env |-> NoCmd]
  /\ receipts = ReceiptsOf(ClaimedLasts \o lasts) /\ log = Claimed \o events
  /\ nodes = ns /\ steps = <<>> /\ births = (1 :> BirthOf(1, first)) @@ (2 :> BirthOf(2, "open"))
  /\ claims = <<ClaimOf(1, d1, 2), ClaimOf(2, d2, 5)>> /\ journals = js
  /\ nonces = {} /\ segments = {} /\ repairs = <<>> /\ batches = <<>> /\ sweeps = <<>> /\ causes = <<>>

(* A Step is done, and an older version declared a gate at its scale without  *)
(* exempting it.                                                             *)
InitGates ==
  /\ mode = "gates"
  /\ Provisioned(<<9, 11, 12, 13>>,
       <<Ev("step.created", 5, 3, <<1, 1, Gap>>), Life(6, 1, "planned", "in-progress", TRUE),
         Life(6, 3, "planned", "in-progress", FALSE), Life(7, 3, "in-progress", "done", FALSE),
         Ev("gate.declared", 8, 0, <<"tested", "step", {}>>)>>,
       (1 :> MatterOf(1, s1, 10)) @@ (2 :> MatterOf(2, s2, 2)) @@ (3 :> Node("step", 1, 1, 1, Gap, 9, 12, NoSlug)),
       "open", <<JournalOf("open", <<5, 6, 7, 8>>), JournalOf("open", <<>>)>>)

(* Matter 1 is started.                                                      *)
InitRelations ==
  /\ mode \in {"relations", "tracker", "batches"}
  /\ Provisioned(<<9>>, <<Life(5, 1, "planned", "in-progress", FALSE)>>,
                 (1 :> MatterOf(1, s1, 9)) @@ (2 :> MatterOf(2, s2, 2)), "open",
                 <<JournalOf("open", <<5>>), JournalOf("open", <<>>)>>)

(* Matter 1 is done, its birth claim is released and its journal is sealed.   *)
InitSweep ==
  /\ mode = "sweep"
  /\ Provisioned(<<9, 10, 11>>,
       <<Ev("claim.released", 5, 1, <<0>>), Life(6, 1, "planned", "in-progress", FALSE),
         Life(7, 1, "in-progress", "done", FALSE)>>,
       (1 :> MatterOf(1, s1, 11)) @@ (2 :> MatterOf(2, s2, 2)), "released",
       <<JournalOf("sealed", <<6>>), JournalOf("open", <<>>)>>)

(* verified is declared for Matters, Matter 1 is started.                    *)
InitRoles ==
  /\ mode = "roles"
  /\ Provisioned(<<9, 10>>,
       <<Ev("gate.declared", 5, 0, <<"verified", "matter", {}>>), Life(6, 1, "planned", "in-progress", FALSE)>>,
       (1 :> MatterOf(1, s1, 10)) @@ (2 :> MatterOf(2, s2, 2)), "open",
       <<JournalOf("open", <<5, 6>>), JournalOf("open", <<>>)>>)

Bare(lasts, events, ns) ==
  /\ pending = [e \in Env |-> NoCmd]
  /\ receipts = ReceiptsOf(lasts) /\ log = events
  /\ nodes = ns /\ steps = <<>> /\ births = (IF ns = <<>> THEN <<>> ELSE 1 :> BirthOf(1, "open"))
  /\ nonces = {} /\ segments = {} /\ repairs = <<>> /\ batches = <<>> /\ sweeps = <<>> /\ causes = <<>>

(* Nothing was done yet.                                                     *)
InitBirths == mode = "births" /\ Bare(<<>>, <<>>, <<>>) /\ claims = <<>> /\ journals = <<>>

(* e1 has created a Matter, and that is all.                                  *)
InitClaims ==
  /\ mode = "claims" /\ claims = <<>> /\ journals = <<>>
  /\ Bare(<<1>>, <<Ev("matter.created", 1, 1, <<<<s1>>, <<s1>>, 2>>)>>, 1 :> MatterOf(1, s1, 1))

(* ... and has acquired it, created a Step and a Stage, and acknowledged them.*)
InitTree ==
  /\ mode = "tree"
  /\ Bare(<<1, 4, 5, 6>>,
       <<Ev("matter.created", 1, 1, <<<<s1>>, <<s1>>, 2>>), Ev("batch.anonymous-created", 2, 1, <<1>>),
         Ev("claim.acquired", 2, 1, <<1, 1>>), Ev("dispatch.opened", 2, d1, <<1>>),
         Ev("step.created", 3, 2, <<1, 1, Gap>>), Ev("stage.created", 4, 3, <<1, s1, 2 * Gap>>)>>,
       (1 :> MatterOf(1, s1, 1)) @@ (2 :> Node("step", 1, 1, 1, Gap, 5, 5, NoSlug))
         @@ (3 :> Node("stage", 1, 1, s1, 2 * Gap, 6, 6, NoSlug)))
  /\ claims = <<[ClaimOf(1, d1, 1) EXCEPT !.acquired = <<e1, 2>>]>> /\ journals = <<JournalOf("open", <<3, 4>>)>>

-----------------------------------------------------------------------------
Kept(A) == A /\ UNCHANGED roleVars
Acknowledge(e) == \E c \in DOMAIN claims : \E i \in DOMAIN Gen(c).entries : AcknowledgeOwnedClaimJournalEntry(e, c, i)
Ack(e) == Kept(Acknowledge(e))
Lifecycle(e, c, n, verbs) == \E v \in verbs : Kept(SubmitConnectedLifecycle(e, c, n, v))
StandDown(c) == Kept(SubmitStandDown(e2, c, n1))
GateCommand(e, cmd) == submitGateCommand(e, cmd) /\ UNCHANGED <<relationVars, causes>>
Declare(e, c, g, scale) == GateCommand(e, [op |-> "gate.declare", claim |-> c, gate |-> g, scale |-> scale, actor |-> "human"])
GateOp(e, o, c, n, g, actor, run, cause) ==
  GateCommand(e, [op |-> o, claim |-> c, node |-> n, gate |-> g, actor |-> actor, run |-> run, cause |-> cause])
Relation(e, cmd) == SubmitRelation(e, cmd) /\ UNCHANGED causes

GateStep ==
  \/ \E g \in {"tested", "reviewed"}, s \in {"step", "matter"} : Declare(e1, 1, g, s)
  \/ \E o \in {"gate.close", "gate.dismiss"}, n \in {1, 3}, g \in {"tested", "reviewed"} :
       GateOp(e1, o, 1, n, g, "human", NoRun, NoRun)
  \/ \E b \in {13} : admitGateRepair(e1, 1, 3, "tested", b, n1) /\ UNCHANGED <<relationVars, causes>>
  \/ Lifecycle(e1, 1, 1, {"finish", "pause"})
  \/ Ack(e1)
  \/ Kept(SealOwnedClaimJournal(e1, 1))
  \/ StandDown(1)

TrackerStep ==
  \/ \E m \in {1, 2} : Relation(e1, [op |-> "reference.bind", ver |-> 2, matter |-> m, from |-> x1, to |-> x1])
  \/ \E m \in {1, 2} : Relation(e1, [op |-> "reference.rebind", ver |-> 2, matter |-> m, from |-> x1, to |-> x2])
  \/ Lifecycle(e1, 1, 1, {"finish", "cancel"})
  \/ Declare(e1, 2, "tested", "matter")
  \/ GateOp(e1, "gate.close", 1, 1, "tested", "human", NoRun, NoRun)
  \/ Ack(e1)

RelationStep ==
  \/ \E o \in {"dependency.add", "dependency.remove"}, p \in {<<1, 2>>, <<2, 1>>} :
       Relation(e1, [op |-> o, ver |-> 2, blocked |-> p[1], blocker |-> p[2]])
  \/ Relation(e1, [op |-> "reference.bind", ver |-> 1, matter |-> 1, from |-> x1, to |-> x1])
  \/ \E m \in {1, 2} : Relation(e1, [op |-> "reference.unbind", ver |-> 2, matter |-> m, from |-> x1, to |-> x1])
  \/ Lifecycle(e1, 2, 2, {"start", "cancel"})
  \/ TrackerStep
  \/ StandDown(2)

BatchStep(e) ==
  \/ \E n \in Name : Relation(e, [op |-> "batch.create", name |-> n])
  \/ \E o \in {"batch.join", "batch.leave", "batch.dismiss"}, b \in {1, 2}, m \in {1, 3} :
       Relation(e, [op |-> o, batch |-> b, matter |-> m])

SweepStep(e) ==
  \/ e = e1 /\ Kept(SubmitRelease(e, 1, Len(Gen(1).entries)))
  \/ \E c \in {0, 1, 3} \cap ({0} \cup DOMAIN claims), a \in {11, Len(log)} :
       Cardinality(DOMAIN receipts) < MaxSweep /\ sweepAnonymousBatch(e, 1, c, a) /\ UNCHANGED causes
  \/ Kept(SubmitClaimAcquire(e, 1, Len(log), d3))
  \/ \E c \in {3} \cap DOMAIN claims : Kept(SealOwnedClaimJournal(e, c)) \/ Kept(SubmitRelease(e, c, Len(Gen(c).entries)))
  \/ \E c \in {2, 3} \cap DOMAIN claims : Declare(e, c, "tested", "matter")
  \/ \E c \in {3} \cap DOMAIN claims : GateOp(e, "gate.close", c, 1, "tested", "human", NoRun, NoRun)

Hook(kind, role, name, target) ==
  [op |-> "scheduler.orchestrate", kind |-> kind, run |-> run1, matter |-> 1, target |-> target,
   role |-> role, name |-> name, claim |-> IF kind = "ask" THEN 0 ELSE 1]
Names == (r1 :> "role:builder") @@ (r2 :> "role:verifier")

RoleStep ==
  \/ \E r \in Role, o \in {"role.spawn", "role.close"} :
       submitStep10Role(e1, [op |-> o, claim |-> 1, role |-> r, name |-> Names[r], run |-> run1])
  \/ submitSchedulerHook(e1, Hook("plan", r1, "role:builder", 1))
  \/ ~Open(1) /\ submitSchedulerHook(e1, Hook("ask", r1, "role:builder", 1))
  \/ submitSchedulerHook(e1, Hook("work", r2, "role:verifier", 1))
  \/ \E n \in DOMAIN nodes : nodes[n].kind = "step" /\ submitSchedulerHook(e1, Hook("work", r1, "role:builder", n))
  \/ \E i \in DOMAIN log : log[i].k = "scheduler.hook-completed" /\ SubmitPlanStep(e1, 1, log[i].c)
  \/ \E n \in DOMAIN nodes : nodes[n].kind = "step" /\ Lifecycle(e1, 1, n, {"start", "finish"})
  \/ Lifecycle(e1, 1, 1, {"finish"})
  \/ \E i \in DOMAIN log : log[i].k = "scheduler.hook-completed"
       /\ GateOp(e1, "gate.close", 1, 1, "verified", "role:verifier", run1, log[i].c)
  \/ \E o \in {"run.finish", "scheduler.resume"} : SubmitRun(e1, [op |-> o, run |-> run1])
  \/ SealClaimJournal(e1, 1)
  \/ Kept(SubmitRelease(e1, 1, Len(Gen(1).entries)))
  \/ Ack(e1)
  \/ StandDown(1)

Acquire(e, m, d) == SubmitClaimAcquire(e, m, Len(log), d)
Content(e) == \E c \in DOMAIN claims : \E n \in DOMAIN nodes : \E k \in {"outcome", "findings"} :
                submitConnectedContent(e, c, n, k)

BirthStep(e) ==
  \/ \E v \in {1, 2} : Cardinality(Matters) < 2 /\ (e = e2 => v = 2) /\ SubmitMatterCreate(e, v, s1)
  \/ \E m \in Matters : e = e1 /\ SubmitStepCreateV1(e, m)
  \/ \E m \in Matters : \E i \in DOMAIN births[m].entries : AcknowledgeBirthJournalEntry(e, m, i)
  \/ \E m \in Matters : \E k \in {Len(births[m].entries) - 1, Len(births[m].entries)} :
       e = e1 /\ SubmitBirthRelease(e, m, k)
  \/ \E m \in Matters : Acquire(e, m, d1)
  \/ \E c \in DOMAIN claims : e = e1 /\ SubmitStep4(e, [op |-> "stage.create", claim |-> c, node |-> claims[c].matter, slug |-> s2])
  \/ \E c \in DOMAIN claims, s \in {s2, NoSlug} :
       e = e2 /\ SubmitStep4(e, [op |-> "locator-repair", claim |-> c, node |-> claims[c].matter, slug |-> s])
  \/ Acknowledge(e)

ClaimStep(e) ==
  \/ \E m \in {1, 2}, d \in {d1, d2} : (d = d1 <=> claims = <<>>) /\ Acquire(e, m, d)
  \/ \E c \in DOMAIN claims : SubmitStep4(e, [op |-> "step.create@2", claim |-> c, node |-> claims[c].matter])
  \/ Content(e)
  \/ Acknowledge(e)
  \/ \E c \in DOMAIN claims : SealOwnedClaimJournal(e, c)
  \/ \E c \in DOMAIN claims : \E k \in {Len(Gen(c).entries) - 1, Len(Gen(c).entries)} : SubmitRelease(e, c, k)
  \/ \E c \in DOMAIN claims : SubmitStandDown(e, c, n1)
  \/ \E c \in DOMAIN claims : \E h \in DOMAIN Gen(c).entries, a \in {"replace", "abandon"} : SubmitRepair(e, c, h, a)

TreeStep(e) ==
  \/ \E n \in DOMAIN nodes :
       \/ \E s \in {s1, s2} : SubmitStep4(e, [op |-> "stage.create", claim |-> 1, node |-> n, slug |-> s])
       \/ \E o \in {"step.create@2", "step.replace", "step.remove"} : SubmitStep4(e, [op |-> o, claim |-> 1, node |-> n])
       \/ \E a \in {0} \cup DOMAIN nodes, s \in {"before", "after"} :
            SubmitStep4(e, [op |-> "step.insert", claim |-> 1, node |-> n, anchor |-> a, side |-> s])
       \/ \E o \in SetToSeqs(LiveSteps(n)) :
            SubmitStep4(e, [op |-> "step.reorder", claim |-> 1, node |-> n, order |-> o])
       \/ \E v \in DOMAIN From : SubmitConnectedLifecycle(e, 1, n, v)
  \/ Acknowledge(e)

MCInit == InitBirths \/ InitClaims \/ InitTree \/ InitGates \/ InitRelations \/ InitSweep \/ InitRoles
MCNext ==
  /\ \/ mode = "gates" /\ GateStep /\ AtMost(MaxGate)
     \/ mode = "relations" /\ RelationStep /\ AtMost(MaxRelation)
     \/ mode = "tracker" /\ TrackerStep /\ AtMost(MaxTracker)
     \/ mode = "batches" /\ (\E e \in Env : BatchStep(e)) /\ AtMost(MaxBatch)
     \/ mode = "sweep" /\ (\E e \in Env : SweepStep(e)) /\ AtMost(MaxSweep)
     \/ mode = "births" /\ Kept(\E e \in Env : BirthStep(e)) /\ AtMost(MaxBirths)
     \/ mode = "claims" /\ Kept(\E e \in Env : ClaimStep(e)) /\ AtMost(MaxClaims)
     \/ mode = "tree" /\ Kept(TreeStep(e1)) /\ AtMost(MaxTree)
     \/ mode = "roles" /\ RoleStep /\ AtMost(MaxRole)
     \/ \E e \in Env : CompleteAny(e)
  /\ UNCHANGED mode

MCSpec == MCInit /\ [][MCNext]_mcVars
(* One Environment amends the tree of its Matter.                             *)
TreeSpec == InitTree /\ [][MCNext]_mcVars
=============================================================================
