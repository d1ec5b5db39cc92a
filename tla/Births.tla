------------------------------- MODULE Births -------------------------------
(***************************************************************************)
(* Matter births and the provisional claim that comes with them:            *)
(* matter.create (both versions), step.create version 1 under the implicit  *)
(* birth claim, the birth journal, its acknowledgements and its release.    *)
(***************************************************************************)
EXTENDS Work

MatterLocators == {nodes[m].loc : m \in Matters}

Node(kind, matter, parent, loc, key, pos, last, req) ==
  [kind |-> kind, matter |-> matter, parent |-> parent, loc |-> loc, key |-> key,
   birth |-> pos, last |-> last, dead |-> 0, req |-> req]

(* A successful Matter birth also inserts the claim at epoch 1, an open      *)
(* birth journal and its first entry.                                        *)
Born(e, m, node) ==
  /\ nodes' = (m :> node) @@ nodes
  /\ births' = (m :> [owner |-> e, state |-> "open", barrier |-> 0,
                      entries |-> <<[cmd |-> Cid(e), st |-> "pending"]>>]) @@ births
  /\ UNCHANGED <<steps, claims, journals, nonces, segments>>

SubmitMatterCreate(e, version, slug) ==
  /\ Submit(e, [op |-> "matter.create", version |-> version, loc |-> slug])
  /\ UNCHANGED tables

(* Version 1 does not refuse a locator that is taken: the completion fails,  *)
(* and the command stays submitted.                                          *)
CompleteMatterCreateV1(e) ==
  LET loc == <<pending[e].loc>>
      m == NextNode
      pos == Len(log) + 1
  IN  /\ Op(e) = "matter.create" /\ pending[e].version = 1
      /\ loc \notin MatterLocators
      /\ Finish(e, TRUE, <<Event(e, "matter.created", m, <<loc, loc, 1>>)>>)
      /\ Born(e, m, Node("matter", m, 0, loc, 0, pos, pos, NoSlug))

(* Version 2 assigns another locator and records that it needs repair.       *)
CompleteMatterCreateV2(e) ==
  LET asked == <<pending[e].loc>>
      m == NextNode
      repair == asked \in MatterLocators
      loc == IF repair THEN <<pending[e].loc, m>> ELSE asked
      pos == Len(log) + 1
      created == <<Event(e, "matter.created", m, <<loc, asked, 2>>)>>
  IN  /\ Op(e) = "matter.create" /\ pending[e].version = 2
      /\ Finish(e, TRUE, IF repair THEN Append(created, Event(e, "repair-required", m, <<asked, loc>>))
                                   ELSE created)
      /\ Born(e, m, Node("matter", m, 0, loc, 0, pos, IF repair THEN pos + 1 ELSE pos,
                         IF repair THEN asked ELSE NoSlug))

(* validateImplicitBirthClaim: the Matter's birth journal is still open and   *)
(* is this Environment's.                                                    *)
BirthClaim(e, m) == m \in DOMAIN births /\ births[m].owner = e /\ births[m].state = "open"

SubmitStepCreateV1(e, m) ==
  /\ BirthClaim(e, m)
  /\ Submit(e, [op |-> "step.create@1", matter |-> m])
  /\ births' = [births EXCEPT ![m].entries = Append(@, [cmd |-> Cid(e), st |-> "pending"])]
  /\ UNCHANGED <<nodes, steps, claims, journals, nonces, segments>>

(* The locator and the sort key are computed from the steps table, which      *)
(* holds the version 1 Steps only.                                           *)
V1Steps(m) == {n \in DOMAIN steps : steps[n].matter = m}
V1Locator(m) == Cardinality(V1Steps(m)) + 1
V1Key(m) == Gap + Max({0} \cup {steps[n].key : n \in V1Steps(m)})

StepLocators(m) == {nodes[n].loc : n \in {x \in DOMAIN nodes : nodes[x].kind = "step" /\ nodes[x].matter = m}}
LiveSteps(parent) == {n \in DOMAIN nodes : nodes[n].kind = "step" /\ nodes[n].parent = parent /\ Live(n)}
StepKeys(parent) == {nodes[n].key : n \in LiveSteps(parent)}

(* A clash with the unique indexes of m6_nodes makes the completion fail.    *)
V1Clash(m) == V1Locator(m) \in StepLocators(m) \/ V1Key(m) \in StepKeys(m)

CompleteStepCreateV1(e) ==
  LET m == pending[e].matter
      n == NextNode
      pos == Len(log) + 1
  IN  /\ Op(e) = "step.create@1"
      /\ BirthClaim(e, m)
      /\ ~V1Clash(m)
      /\ Finish(e, TRUE, <<Event(e, "step.created@1", n, <<m, V1Locator(m), V1Key(m)>>)>>)
      /\ nodes' = (n :> Node("step", m, m, V1Locator(m), V1Key(m), pos, pos, NoSlug)) @@ nodes
      /\ steps' = (n :> [matter |-> m, loc |-> V1Locator(m), key |-> V1Key(m)]) @@ steps
      /\ UNCHANGED <<births, claims, journals, nonces, segments>>

(* A Step birth whose evaluation did not succeed quarantines its entry.      *)
FailStepCreateV1(e) ==
  LET m == pending[e].matter
      i == CHOOSE i \in DOMAIN births[m].entries : births[m].entries[i].cmd = Cid(e)
  IN  /\ Op(e) = "step.create@1"
      /\ Finish(e, FALSE, <<>>)
      /\ births' = [births EXCEPT ![m].entries[i].st = "quarantined"]
      /\ UNCHANGED <<nodes, steps, claims, journals, nonces, segments>>

(* The owner reports entry i as returned: its receipt is installed and every *)
(* earlier entry has been returned.                                          *)
AcknowledgeBirthJournalEntry(e, m, i) ==
  /\ m \in DOMAIN births /\ births[m].owner = e /\ i \in DOMAIN births[m].entries
  /\ births[m].entries[i].st = "pending"
  /\ \A j \in 1 .. i - 1 : births[m].entries[j].st = "returned"
  /\ births[m].entries[i].cmd \in DOMAIN receipts
  /\ receipts[births[m].entries[i].cmd].ok
  /\ births' = [births EXCEPT ![m].entries[i].st = "returned"]
  /\ UNCHANGED <<pending, receipts, log, nodes, steps, claims, journals, nonces, segments>>

(* claim.release without a worktree: the barrier counts the entries the       *)
(* client has seen.                                                          *)
SubmitBirthRelease(e, m, count) ==
  /\ BirthClaim(e, m)
  /\ Submit(e, [op |-> "birth.release", matter |-> m, barrier |-> count])
  /\ UNCHANGED tables

birthBarrierStatus(m) == \A i \in DOMAIN births[m].entries : births[m].entries[i].st = "returned"

CompleteBirthRelease(e) ==
  LET m == pending[e].matter
      met == /\ BirthClaim(e, m)
             /\ birthBarrierStatus(m)
             /\ pending[e].barrier = Len(births[m].entries)
  IN  /\ Op(e) = "birth.release"
      /\ \/ /\ met
            /\ Finish(e, TRUE, <<Event(e, "claim.released", m, <<0>>)>>)
            /\ births' = [births EXCEPT ![m].state = "released", ![m].barrier = pending[e].barrier]
            /\ UNCHANGED <<nodes, steps, claims, journals, nonces, segments>>
         \/ ~met /\ Refuse(e)
=============================================================================
