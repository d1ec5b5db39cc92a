------------------------------ MODULE Progress ------------------------------
(***************************************************************************)
(* The connected lifecycle operations of the nodes of a claimed Matter, and *)
(* its create-once and append-only content.                                 *)
(***************************************************************************)
EXTENDS Tree

From == [start |-> "planned", finish |-> "in-progress", pause |-> "in-progress",
         cancel |-> "in-progress", resume |-> "paused"]
To == [start |-> "in-progress", finish |-> "done", pause |-> "paused",
       cancel |-> "canceled", resume |-> "in-progress"]

resolveConnectedLifecycleMatter(n) == Live(n)

(* matter.finish is delivered by the authority; every other transition is     *)
(* claim-delivered.                                                          *)
SubmitConnectedLifecycle(e, c, n, verb) ==
  /\ resolveConnectedLifecycleMatter(n) /\ Owns(e, c) /\ nodes[n].matter = claims[c].matter
  /\ Submit(e, [op |-> "lifecycle", claim |-> c, node |-> n, verb |-> verb])
  /\ IF verb = "finish" /\ nodes[n].kind = "matter" THEN UNCHANGED journals
     ELSE Appendable(e, c) /\ AppendClaimJournalEntry(e, c)
  /\ UNCHANGED <<nodes, treeVars>>

(* The node and its ancestors, from the Matter down.                         *)
Path(n) == LET p == nodes[n].parent IN
           IF p = 0 THEN <<n>>
           ELSE IF nodes[p].parent = 0 THEN <<p, n>> ELSE <<nodes[p].parent, p, n>>

(* A start also starts every planned ancestor, outermost first.              *)
Cascade(n) == SelectSeq(Path(n), LAMBDA a : a = n \/ LifeState(a) = "planned")

LifecycleFenced(e) == ~Owns(e, pending[e].claim)

CompleteConnectedLifecycle(e) ==
  LET n == pending[e].node
      verb == pending[e].verb
      ok == ~LifecycleFenced(e) /\ LifeState(n) = From[verb]
      moved == IF verb = "start" THEN Cascade(n) ELSE <<n>>
  IN  /\ Op(e) = "lifecycle"
      /\ resolveConnectedLifecycleMatter(n)
      /\ \/ /\ ok
            /\ Finish(e, TRUE, [i \in DOMAIN moved |->
                                 Event(e, "life", moved[i], <<From[verb], To[verb], moved[i] # n>>)])
            /\ nodes' = [x \in DOMAIN nodes |->
                           IF \E i \in DOMAIN moved : moved[i] = x
                           THEN [nodes[x] EXCEPT !.last = Len(log) + (CHOOSE i \in DOMAIN moved : moved[i] = x)]
                           ELSE nodes[x]]
            /\ UNCHANGED <<treeVars, journals>>
         \/ ~ok /\ Refuse(e)

-----------------------------------------------------------------------------
(* Content is attached to the Matter or to one of its version 1 Steps.       *)
ContentClaim(e, c, subject) ==
  /\ Owns(e, c)
  /\ IF subject \in Matters THEN subject = claims[c].matter
     ELSE subject \in DOMAIN steps /\ steps[subject].matter = claims[c].matter

submitConnectedContent(e, c, subject, kind) ==
  /\ ContentClaim(e, c, subject)
  /\ Submit(e, [op |-> "content", claim |-> c, node |-> subject, kind |-> kind])
  /\ Appendable(e, c) /\ AppendClaimJournalEntry(e, c)
  /\ UNCHANGED <<nodes, treeVars>>

CompleteContent(e) ==
  LET item == <<pending[e].node, pending[e].kind>>
      ok == /\ ContentClaim(e, pending[e].claim, pending[e].node)
            /\ pending[e].kind # "findings" => item \notin segments
  IN  /\ Op(e) = "content"
      /\ \/ /\ ok
            /\ Finish(e, TRUE, <<Event(e, "content", pending[e].node, <<pending[e].kind>>)>>)
            /\ segments' = segments \cup {item}
            /\ UNCHANGED <<nodes, steps, births, claims, journals, nonces>>
         \/ ~ok /\ Refuse(e)

-----------------------------------------------------------------------------
(* Completion of the submitted command of Environment e.                     *)
CompleteBirth(e) ==
  \/ CompleteMatterCreateV1(e)
  \/ CompleteMatterCreateV2(e)
  \/ CompleteStepCreateV1(e)
  \/ FailStepCreateV1(e)
  \/ CompleteBirthRelease(e)

CompleteClaim(e) ==
  \/ CompleteClaimAcquire(e)
  \/ CompleteRelease(e)
  \/ CompleteStandDown(e)
  \/ CompleteRepair(e)

CompleteTree(e) ==
  \/ CompleteStageCreate(e)
  \/ createM6Step(e)
  \/ insertM6Step(e)
  \/ CompleteStepReorder(e)
  \/ CompleteStepReplace(e)
  \/ CompleteStepRemove(e)
  \/ CompleteLocatorRepair(e)

Complete(e) ==
  \/ CompleteBirth(e)
  \/ CompleteClaim(e)
  \/ CompleteTree(e)
  \/ CompleteConnectedLifecycle(e)
  \/ CompleteContent(e)
=============================================================================
