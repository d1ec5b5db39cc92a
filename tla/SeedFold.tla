------------------------------ MODULE SeedFold ------------------------------
(***************************************************************************)
(* What an Environment makes of the authority's log (wipdseed).  Before a   *)
(* seed, a pull or a claim grant is installed, the client folds the whole   *)
(* history again, on its own, and refuses the transfer if any event does    *)
(* not follow from the ones before it.  The fold reads the log only; one    *)
(* operator per group of event kinds.  On the wire both versions of         *)
(* step.create write the kind step.created.                                 *)
(***************************************************************************)
EXTENDS Roles

NoPend == [stage |-> "", cmd |-> <<>>, matter |-> 0, id |-> 0]
NoClaim == [id |-> 0, by |-> <<>>, dispatch |-> 0]
EmptyFold == [ok |-> TRUE, seen |-> {}, ids |-> {}, locs |-> {}, nodes |-> <<>>, matters |-> <<>>,
              names |-> {}, named |-> <<>>, runs |-> <<>>, roles |-> <<>>, pend |-> NoPend]

Keep(f, fits, next) == IF fits THEN next ELSE [f EXCEPT !.ok = FALSE]
Pend(stage, v, m, id) == [stage |-> stage, cmd |-> v.c, matter |-> m, id |-> id]

(* nodeMatter, ancestors, activeMatterForClaim.                              *)
Up(f, n) == IF f.nodes[n].parent = 0 THEN {} ELSE {f.nodes[n].parent, f.nodes[f.nodes[n].parent].parent} \ {0}
Under(f, p) == {n \in DOMAIN f.nodes : f.nodes[n].parent = p}
StepsUnder(f, m) == {n \in DOMAIN f.nodes : f.nodes[n].kind = "step" /\ f.nodes[n].matter = m}
HeldBy(f, m, e) == f.matters[m].claim.id # 0 /\ f.matters[m].claim.by[1] = e
ClaimMatter(f, c) == {m \in DOMAIN f.matters : f.matters[m].claim.id = c}
FoldNode(kind, m, p, loc, i) == [kind |-> kind, matter |-> m, parent |-> p, loc |-> loc, state |-> "planned", birth |-> i]

-----------------------------------------------------------------------------
(* Births.  A Step's locator and sort key must be what counting the Steps    *)
(* and the children gives.  A Step born by the creator of the Matter before   *)
(* it released the birth claim is an entry of the birth journal.             *)
foldMatterCreated(f, v, i) ==
  Keep(f, v.s \notin DOMAIN f.nodes /\ v.p[1] \notin f.locs,
       [f EXCEPT !.nodes = (v.s :> FoldNode("matter", v.s, 0, v.p[1], i)) @@ @,
                 !.locs = @ \cup {v.p[1]},
                 !.matters = (v.s :> [env |-> v.c[1], entries |-> {v.c}, freed |-> FALSE, batch |-> FALSE,
                                      swept |-> FALSE, epoch |-> 0, claim |-> NoClaim, close |-> <<>>]) @@ @])

NextKey(f, p) == (Cardinality(Under(f, p)) + 1) * Gap

foldStageCreated(f, v, i) ==
  Keep(f, /\ v.s \notin DOMAIN f.nodes /\ v.p[1] \in DOMAIN f.matters
          /\ v.p[3] = NextKey(f, v.p[1])
          /\ \A n \in Under(f, v.p[1]) : f.nodes[n].kind = "stage" => f.nodes[n].loc # v.p[2],
       [f EXCEPT !.nodes = (v.s :> FoldNode("stage", v.p[1], v.p[1], v.p[2], i)) @@ @])

foldStepCreated(f, v, i) ==
  LET p == v.p[1]
      m == f.nodes[p].matter
      journaled == ~f.matters[m].freed /\ f.matters[m].env = v.c[1]
  IN  Keep(f, /\ p \in DOMAIN f.nodes /\ f.nodes[p].kind \in {"matter", "stage"}
              /\ v.s \notin DOMAIN f.nodes
              /\ v.p[2] = Cardinality(StepsUnder(f, m)) + 1 /\ v.p[3] = NextKey(f, p)
              /\ journaled => v.c \notin f.matters[m].entries,
           [f EXCEPT !.nodes = (v.s :> FoldNode("step", m, p, v.p[2], i)) @@ @,
                     !.matters[m].entries = IF journaled THEN @ \cup {v.c} ELSE @])

(* Named batches: a name and a command serve once, a dismissed batch is over. *)
foldBatchCreated(f, v) ==
  Keep(f, v.s \notin DOMAIN f.named /\ v.p[1] \notin f.names,
       [f EXCEPT !.names = @ \cup {v.p[1]}, !.named = (v.s :> [gone |-> FALSE, members |-> {}]) @@ @])

foldBatchMembership(f, v) ==
  LET open == v.s \in DOMAIN f.named /\ ~f.named[v.s].gone
      known == v.p[1] \in DOMAIN f.matters
  IN  CASE v.k = "batch.dismissed" -> Keep(f, open, [f EXCEPT !.named[v.s].gone = TRUE])
        [] v.k = "batch.joined" ->
             Keep(f, open /\ known /\ v.p[1] \notin f.named[v.s].members, [f EXCEPT !.named[v.s].members = @ \cup {v.p[1]}])
        [] v.k = "batch.left" ->
             Keep(f, open /\ known /\ v.p[1] \in f.named[v.s].members, [f EXCEPT !.named[v.s].members = @ \ {v.p[1]}])

-----------------------------------------------------------------------------
(* An acquisition: the anonymous batch (once), the claim, the dispatch, one   *)
(* right after the other and by one command.                                 *)
foldAnonymousBatch(f, v) ==
  Keep(f, v.s \in DOMAIN f.matters /\ ~f.matters[v.s].batch,
       [f EXCEPT !.matters[v.s].batch = TRUE, !.pend = Pend("claim", v, v.s, 0)])

foldClaimAcquired(f, v) ==
  LET m == v.p[1] IN
  Keep(f, /\ m \in DOMAIN f.matters /\ f.matters[m].batch
          /\ f.pend.stage = "claim" => f.pend.cmd = v.c /\ f.pend.matter = m
          /\ v.p[2] = f.matters[m].epoch + 1
          /\ f.matters[m].claim = NoClaim
          /\ <<"claim", v.s>> \notin f.ids,
       [f EXCEPT !.matters[m].epoch = v.p[2], !.matters[m].close = <<>>,
                 !.matters[m].claim = [id |-> v.s, by |-> v.c, dispatch |-> 0],
                 !.ids = @ \cup {<<"claim", v.s>>}, !.pend = Pend("dispatch", v, m, v.s)])

foldDispatchOpened(f, v) ==
  Keep(f, /\ f.pend.stage = "dispatch" /\ f.pend.cmd = v.c /\ f.pend.id = v.p[1]
          /\ <<"dispatch", v.s>> \notin f.ids,
       [f EXCEPT !.matters[f.pend.matter].claim.dispatch = v.s, !.ids = @ \cup {<<"dispatch", v.s>>}, !.pend = NoPend])

(* A release closes the dispatch first.  A birth release proves the birth     *)
(* journal: its barrier is the digest over the entries of the authority.     *)
foldDispatchClosed(f, v) ==
  LET m == CHOOSE x \in ClaimMatter(f, v.p[1]) : TRUE IN
  Keep(f, /\ ClaimMatter(f, v.p[1]) # {} /\ f.pend = NoPend
          /\ f.matters[m].claim.dispatch = v.s /\ HeldBy(f, m, v.c[1])
          /\ v.c[2] > f.matters[m].claim.by[2]
          /\ \A r \in DOMAIN f.roles : f.roles[r][2] # v.p[1],
       [f EXCEPT !.pend = Pend("release", v, m, v.p[1])])

Barrier(m) == {births[m].entries[i].cmd : i \in DOMAIN births[m].entries}

MutFoldClaimReleased(f, v) ==
  LET m == f.pend.matter
      b == v.s
  IN  IF v.p[1] # 0
      THEN Keep(f, f.pend.stage = "release" /\ f.pend.cmd = v.c /\ f.pend.id = v.p[1],
                [f EXCEPT !.matters[m].claim = NoClaim, !.pend = NoPend])
      ELSE Keep(f, /\ f.pend = NoPend /\ b \in DOMAIN f.matters
                   /\ f.matters[b].env = v.c[1] /\ ~f.matters[b].freed
                   /\ \A c \in f.matters[b].entries : v.c[2] > c[2]
                   /\ f.matters[b].entries = Barrier(b),
                [f EXCEPT !.matters[b].freed = TRUE, !.matters[b].close = v.c])

foldClaimReleased(f, v) ==
  LET m == f.pend.matter
      b == v.s
  IN  IF v.p[1] # 0
      THEN Keep(f, f.pend.stage = "release" /\ f.pend.cmd = v.c /\ f.pend.id = v.p[1],
                [f EXCEPT !.matters[m].claim = NoClaim, !.matters[m].close = v.c, !.pend = NoPend])
      ELSE Keep(f, /\ f.pend = NoPend /\ b \in DOMAIN f.matters
                   /\ f.matters[b].env = v.c[1] /\ ~f.matters[b].freed
                   /\ \A c \in f.matters[b].entries : v.c[2] > c[2]
                   /\ f.matters[b].entries = Barrier(b),
                [f EXCEPT !.matters[b].freed = TRUE, !.matters[b].close = v.c])

-----------------------------------------------------------------------------
(* Lifecycle.  A start that cascades names the event that caused it; only the *)
(* first event of the command has none.                                      *)
foldStarted(f, v) ==
  LET n == v.s
      m == f.nodes[n].matter
      caused == v.c \in f.seen
  IN  Keep(f, /\ n \in DOMAIN f.nodes /\ f.nodes[n].state = "planned"
              /\ HeldBy(f, m, v.c[1]) /\ f.matters[m].batch
              /\ \A a \in Up(f, n) : f.nodes[a].state # "planned"
              /\ IF f.pend = NoPend THEN ~caused
                 ELSE /\ f.pend.stage = "cascade" /\ caused /\ f.pend.cmd = v.c
                      /\ f.pend.matter = m /\ f.pend.id \in Up(f, n),
           [f EXCEPT !.nodes[n].state = "in-progress", !.pend = IF v.p[3] THEN Pend("cascade", v, m, n) ELSE NoPend])

lifecycleTransition == {<<From[verb], To[verb]>> : verb \in {"finish", "pause", "resume", "cancel"}}
foldedMatterSubtreeDone(f, m) ==
  \A n \in DOMAIN f.nodes : f.nodes[n].matter = m /\ n # m => f.nodes[n].state = "done"

foldTransition(f, v) ==
  LET n == v.s
      m == f.nodes[n].matter
      finished == n = m /\ v.p[2] = "done"
      next == [f EXCEPT !.nodes[n].state = v.p[2]]
  IN  Keep(f, /\ n \in DOMAIN f.nodes /\ <<v.p[1], v.p[2]>> \in lifecycleTransition
              /\ f.nodes[n].state = v.p[1] /\ HeldBy(f, m, v.c[1]) /\ f.pend = NoPend
              /\ finished => f.matters[m].batch /\ ~f.matters[m].swept,
           IF finished /\ foldedMatterSubtreeDone(next, m) THEN [next EXCEPT !.pend = Pend("sweep", v, m, 0)] ELSE next)

(* A sweep follows the finish of its Matter in the same command, or it is a   *)
(* command of its own, of the Environment whose claim was closed last.       *)
foldBatchSwept(f, v) ==
  LET m == v.s
      inline == f.pend.stage = "sweep" /\ f.pend.cmd = v.c /\ f.pend.matter = m
      close == f.matters[m].close
  IN  Keep(f, /\ m \in DOMAIN f.matters /\ f.matters[m].batch /\ ~f.matters[m].swept
              /\ inline \/ (/\ f.nodes[m].state = "done" /\ f.matters[m].claim = NoClaim /\ f.matters[m].freed
                            /\ close # <<>> /\ close[1] = v.c[1] /\ close[2] < v.c[2]
                            /\ v.c \notin f.seen),
           [f EXCEPT !.matters[m].swept = TRUE, !.pend = NoPend])

-----------------------------------------------------------------------------
(* Runs and roles.                                                           *)
foldRunStarted(f, v) ==
  LET m == v.p[1] IN
  Keep(f, /\ m \in DOMAIN f.matters /\ HeldBy(f, m, v.c[1]) /\ f.matters[m].batch
          /\ <<"run", v.s>> \notin f.ids,
       [f EXCEPT !.runs = (v.s :> [env |-> v.c[1], matter |-> m]) @@ @, !.ids = @ \cup {<<"run", v.s>>}])

foldRunEnded(f, v) ==
  LET r == v.s
      idle == /\ r \in DOMAIN f.runs /\ f.runs[r].env = v.c[1]
              /\ \A x \in DOMAIN f.roles : f.roles[x][3] # r
  IN  IF v.k = "run.finished"
      THEN Keep(f, idle /\ f.nodes[f.runs[r].matter].state = "done", [f EXCEPT !.runs = Restrict(@, DOMAIN @ \ {r})])
      ELSE Keep(f, idle /\ v.c \notin f.seen /\ f.matters[f.runs[r].matter].claim = NoClaim, f)

foldRole(f, v) ==
  LET run == f.runs[v.p[3]]
      bound == /\ ClaimMatter(f, v.p[2]) # {} /\ \A m \in ClaimMatter(f, v.p[2]) : HeldBy(f, m, v.c[1])
  IN  IF v.k = "role.spawned"
      THEN Keep(f, /\ bound /\ v.p[3] \in DOMAIN f.runs /\ run.env = v.c[1] /\ run.matter \in ClaimMatter(f, v.p[2])
                   /\ <<"role", v.s>> \notin f.ids
                   /\ \A x \in DOMAIN f.roles : <<f.roles[x][1], f.roles[x][2]>> # <<v.p[1], v.p[2]>>,
                [f EXCEPT !.roles = (v.s :> v.p) @@ @, !.ids = @ \cup {<<"role", v.s>>}])
      ELSE Keep(f, bound /\ v.s \in DOMAIN f.roles /\ f.roles[v.s] = v.p, [f EXCEPT !.roles = Restrict(@, DOMAIN @ \ {v.s})])

foldHookCompleted(f, v) ==
  LET m == v.p[4][3] IN
  Keep(f, m \in DOMAIN f.matters /\ (v.p[4][1] \in {"work", "plan"} => HeldBy(f, m, v.c[1])), f)

-----------------------------------------------------------------------------
(* foldEventRecordsCore.  What an event may follow, then its own case; a kind *)
(* without a case is refused.                                                *)
Follows(p, v) ==
  /\ p.stage = "claim" => v.k = "claim.acquired"
  /\ p.stage = "dispatch" => v.k = "dispatch.opened"
  /\ p.stage = "cascade" => v.k = "life" /\ v.p[1] = "planned"
  /\ p.stage = "release" => v.k = "claim.released"

Envelope == {"gate.declared", "gate.closed", "gate.dismissed", "gate.exemption-repaired", "dependency.added",
             "dependency.removed", "reference.added", "reference.removed", "reference.rebound", "content"}

foldCase(f, v, i) ==
  CASE v.k = "matter.created" -> foldMatterCreated(f, v, i)
    [] v.k = "stage.created" -> foldStageCreated(f, v, i)
    [] v.k \in {"step.created", "step.created@1"} -> foldStepCreated(f, v, i)
    [] v.k = "batch.created" -> foldBatchCreated(f, v)
    [] v.k \in NamedBatchEvents -> foldBatchMembership(f, v)
    [] v.k = "batch.anonymous-created" -> foldAnonymousBatch(f, v)
    [] v.k = "claim.acquired" -> foldClaimAcquired(f, v)
    [] v.k = "dispatch.opened" -> foldDispatchOpened(f, v)
    [] v.k = "dispatch.closed" -> foldDispatchClosed(f, v)
    [] v.k = "claim.released" -> foldClaimReleased(f, v)
    [] v.k = "life" -> IF v.p[1] = "planned" THEN foldStarted(f, v) ELSE foldTransition(f, v)
    [] v.k = "batch.swept" -> foldBatchSwept(f, v)
    [] v.k = "run.started" -> foldRunStarted(f, v)
    [] v.k \in {"run.finished", "run.resumed"} -> foldRunEnded(f, v)
    [] v.k \in {"role.spawned", "role.closed"} -> foldRole(f, v)
    [] v.k = "scheduler.hook-completed" -> foldHookCompleted(f, v)
    [] v.k \in Envelope -> f
    [] OTHER -> [f EXCEPT !.ok = FALSE]

foldEvent(f, v, i) ==
  LET g == IF f.pend.stage = "sweep" /\ v.k # "batch.swept" THEN [f EXCEPT !.pend = NoPend] ELSE f
      h == Keep(g, Follows(g.pend, v), foldCase(g, v, i))
  IN  [h EXCEPT !.seen = @ \cup {v.c}]

foldEventRecordsCore ==
  LET fold[i \in 0 .. Len(log)] ==
        IF i = 0 THEN EmptyFold
        ELSE LET f == fold[i - 1] IN IF f.ok THEN foldEvent(f, log[i], i) ELSE f
      last == fold[Len(log)]
  IN  [last EXCEPT !.ok = @ /\ last.pend.stage \in {"", "sweep"}]
=============================================================================
