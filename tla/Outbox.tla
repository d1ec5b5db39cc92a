------------------------------- MODULE Outbox -------------------------------
(***************************************************************************)
(* The tracker outbox of a Repo, the flush that delivers it and the GitHub *)
(* adapter behind the seam, for the entries of one external issue.         *)
(*                                                                         *)
(* A flush reads the outbox once and then works from that read: it         *)
(* classifies the approved entries, withholds regressions and superseded   *)
(* candidates, and delivers the rest in creation order.  Every withhold,   *)
(* every provider request and every recorded result is a step of its own;  *)
(* nothing keeps a second flush, a person's decline or an edit at the      *)
(* provider out of the gaps, and the process may die in any of them.       *)
(***************************************************************************)
EXTENDS Naturals, FiniteSets, FiniteSetsExt

CONSTANTS
  Entry,        \* outbox entries, numbered in creation order
  Candidate,    \* what may be proposed: a kind, and the disposition if a state
  Process,      \* processes that run wip outbox flush
  MaxVersion    \* bound: changes of the issue's updated_at

Dispositions == {"active", "completed", "canceled"}

ASSUME OutboxAssumption ==
  /\ Entry \subseteq Nat /\ IsFiniteSet(Entry)
  /\ Candidate \subseteq [kind : {"create", "comment", "state"},
                          disposition : Dispositions]
  /\ MaxVersion \in Nat

VARIABLES
  candidate,    \* outbox_entries: kind and payload, immutable from birth
  entry,        \* outbox_entries: state, attempts > 0, reason <> ''
  record,       \* the tracker_push_records row of the issue's reference
  issue,        \* the issue: its state and its updated_at
  posted,       \* objects at the provider that carry an entry's marker
  flush,        \* per process, the flush it runs
  approvals,    \* history: entries a person approved
  history       \* history: dispositions the issue was ever at, whether two
                \* flushes overlapped and whether anybody else edited the issue

vars == <<candidate, entry, record, issue, posted, flush, approvals, history>>

NoLease == 0
Unborn == [kind |-> "none", disposition |-> "none"]
NoRecord == [disposition |-> "none", lease |-> NoLease]
Idle == [pc |-> "idle", todo |-> {}, group |-> {}, selected |-> {}, lease |-> NoLease,
         outcome |-> "none", newLease |-> NoLease]

Kind(e) == candidate[e].kind
Disposition(e) == candidate[e].disposition

Row(state, attempted, reason) == [state |-> state, attempted |-> attempted, reason |-> reason]

----------------------------------------------------------------------------
(* The folds of the outbox events. *)

Update(e, row) == entry' = [entry EXCEPT ![e] = row]

\* insertTrackerCandidate: a candidate of the lifecycle, a gate, a reference or a
\* person's proposal is born queued.
Propose(e, c) ==
  /\ entry[e].state = "unborn"
  /\ \A d \in Entry : d < e => entry[d].state # "unborn"
  /\ Update(e, Row("queued", FALSE, FALSE))
  /\ candidate' = [candidate EXCEPT ![e] = c]
  /\ UNCHANGED <<record, issue, posted, flush, approvals, history>>

Approve(e) ==
  /\ entry[e] = Row("queued", FALSE, FALSE)
  /\ Update(e, Row("approved", FALSE, FALSE))
  /\ approvals' = approvals \cup {e}
  /\ UNCHANGED <<candidate, record, issue, posted, flush, history>>

Decline(e) ==
  /\ entry[e].state \in {"queued", "approved", "withheld"}
  /\ Update(e, Row("declined", entry[e].attempted, TRUE))
  /\ UNCHANGED <<candidate, record, issue, posted, flush, approvals, history>>

\* Failed or withheld work becomes eligible again.
Retry(e) ==
  /\ \/ entry[e].state = "withheld"
     \/ entry[e] = Row("queued", TRUE, TRUE)
  /\ Update(e, Row("approved", entry[e].attempted, FALSE))
  /\ UNCHANGED <<candidate, record, issue, posted, flush, approvals, history>>

WithholdOutbox(e, attempted) ==
  /\ entry[e].state = "approved"
  /\ Update(e, Row("withheld", entry[e].attempted \/ attempted, TRUE))

FailOutbox(e) ==
  /\ entry[e].state = "approved"
  /\ Update(e, Row("queued", TRUE, TRUE))

Flushed(e, from) ==
  /\ entry[e].state \in from
  /\ Update(e, Row("flushed", TRUE, FALSE))

\* recordTrackerStatePush, which alone keeps the lease of its answer: a terminal disposition is never replaced by another.
RecordPush(e, lease) ==
  /\ Flushed(e, {"approved"})
  /\ record.disposition \in {"none", "active", Disposition(e)}
  /\ record' = [disposition |-> Disposition(e), lease |-> lease]

----------------------------------------------------------------------------
(* Flush up to the first delivery. *)

Init ==
  /\ candidate = [e \in Entry |-> Unborn]
  /\ entry = [e \in Entry |-> Row("unborn", FALSE, FALSE)]
  /\ record = NoRecord
  /\ issue = [state |-> "active", version |-> 1]
  /\ posted = [e \in Entry |-> 0]
  /\ flush = [p \in Process |-> Idle]
  /\ approvals = {}
  /\ history = [reached |-> {"active"}, overlap |-> FALSE, foreign |-> FALSE]

Step(p, f) == flush' = [flush EXCEPT ![p] = f]

\* Queued entries are taken too.
MutEligible(e) == entry[e].state \in {"queued", "approved"}

Eligible(e) == entry[e].state = "approved"

\* Flush reads the outbox; a state entry carries the lease of the push record.
Start(p) ==
  /\ flush[p].pc = "idle"
  /\ \E e \in Entry : Eligible(e)
  /\ Step(p, [Idle EXCEPT !.pc = "classify", !.todo = {e \in Entry : Eligible(e)},
                          !.lease = record.lease])
  /\ history' = [history EXCEPT !.overlap =
                   @ \/ \E q \in Process : flush[q].pc # "idle"]
  /\ UNCHANGED <<candidate, entry, record, issue, posted, approvals>>

regresses(previous, next) == previous \notin {"none", "active"} /\ next # previous

\* One entry of the read, in creation order: a regression against the push record
\* of this moment is withheld.
Classify(p) ==
  LET f == flush[p]
      e == Min(f.todo)
  IN /\ f.pc = "classify" /\ f.todo # {}
     /\ \/ /\ Kind(e) # "state"
           /\ Step(p, [f EXCEPT !.todo = @ \ {e}, !.selected = @ \cup {e}])
           /\ UNCHANGED entry
        \/ /\ Kind(e) = "state" /\ ~regresses(record.disposition, Disposition(e))
           /\ Step(p, [f EXCEPT !.todo = @ \ {e}, !.group = @ \cup {e}])
           /\ UNCHANGED entry
        \/ /\ Kind(e) = "state" /\ regresses(record.disposition, Disposition(e))
           /\ WithholdOutbox(e, FALSE)
           /\ Step(p, [f EXCEPT !.todo = @ \ {e}])
     /\ UNCHANGED <<candidate, record, issue, posted, approvals, history>>

\* The newest candidate of the group is selected and the older ones are withheld
\* one by one.
Supersede(p) ==
  LET f == flush[p]
      e == Min(f.group)
  IN /\ f.pc = "classify" /\ f.todo = {}
     /\ \/ /\ Cardinality(f.group) > 1
           /\ WithholdOutbox(e, FALSE)
           /\ Step(p, [f EXCEPT !.group = @ \ {e}])
        \/ /\ Cardinality(f.group) <= 1
           /\ Step(p, [f EXCEPT !.pc = "deliver", !.group = {}, !.selected = @ \cup f.group])
           /\ UNCHANGED entry
     /\ UNCHANGED <<candidate, record, issue, posted, approvals, history>>

----------------------------------------------------------------------------
(* The adapter: one read, then at most one write. *)

Answer(f, outcome, lease) ==
  [f EXCEPT !.pc = "record", !.outcome = outcome, !.newLease = lease]

\* The request fails, retryably or for good.
RequestFails(p) ==
  /\ \E outcome \in {"retryable", "refused"} : Step(p, Answer(flush[p], outcome, NoLease))
  /\ UNCHANGED issue

\* The adapter posts without looking for the marker.
MutFindMarker(e) == FALSE

\* findIssue and findComment: an object that carries the entry's marker.
FindMarker(e) == posted[e] > 0

AtCandidate(e) == issue.state = Disposition(e)

\* What the state call does with the issue it reads.  A lease mismatch is
\* recorded like a refusal.
Verdict(e, lease) ==
  IF lease = NoLease
  THEN CASE issue.state # "active" -> "refused"
         [] issue.state = "active" /\ Disposition(e) = "active" -> "converged"
         [] OTHER -> "write"
  ELSE CASE Disposition(e) = "active" \/ AtCandidate(e) -> "converged"
         [] Disposition(e) # "active" /\ ~AtCandidate(e)
              /\ (issue.state # "active" \/ lease # issue.version) -> "refused"
         [] OTHER -> "write"

\* The read of a delivery.
Observe(p) ==
  LET f == flush[p]
      e == Min(f.selected)
  IN /\ f.pc = "deliver" /\ f.selected # {}
     /\ \/ RequestFails(p)
        \/ /\ UNCHANGED issue
           /\ IF Kind(e) = "state"
              THEN LET v == Verdict(e, f.lease)
                   IN Step(p, IF v = "write" THEN [f EXCEPT !.pc = "write"]
                              ELSE Answer(f, v, NoLease))
              ELSE Step(p, IF FindMarker(e) THEN Answer(f, "converged", NoLease)
                           ELSE [f EXCEPT !.pc = "write"])
     /\ UNCHANGED <<candidate, entry, record, posted, approvals, history>>

\* The write takes effect at the provider; its answer may be lost on the way,
\* replaced by an error of a gateway, or unreadable.
Write(p) ==
  LET f == flush[p]
      e == Min(f.selected)
  IN /\ f.pc = "write"
     /\ \/ RequestFails(p) /\ UNCHANGED <<posted, history>>
        \/ \E outcome \in {"delivered", "retryable", "refused"} :
             IF Kind(e) = "state"
             THEN /\ issue.version < MaxVersion
                  /\ issue' = [state |-> Disposition(e), version |-> issue.version + 1]
                  /\ history' = [history EXCEPT !.reached = @ \cup {Disposition(e)}]
                  /\ Step(p, Answer(f, outcome, IF outcome = "delivered" THEN issue.version + 1
                                                ELSE NoLease))
                  /\ UNCHANGED posted
             ELSE /\ posted' = [posted EXCEPT ![e] = @ + 1]
                  /\ Step(p, Answer(f, outcome, NoLease))
                  /\ UNCHANGED <<issue, history>>
     /\ UNCHANGED <<candidate, entry, record, approvals>>

----------------------------------------------------------------------------
(* recordResult. *)

Delivered(f) == [f EXCEPT !.pc = "deliver", !.selected = @ \ {Min(f.selected)},
                          !.outcome = "none", !.newLease = NoLease]

Succeeded(outcome) == outcome \in {"delivered", "converged"}

\* An observation advances the push record like a write.
MutRecordState(e, f) == RecordPush(e, f.newLease)

\* PushTrackerState after a write; ObserveTrackerState leaves the push record.
RecordState(e, f) ==
  IF f.outcome = "delivered" THEN RecordPush(e, f.newLease)
  ELSE Flushed(e, {"approved"}) /\ UNCHANGED record

\* The commit of the result.  One that is refused ends the flush (Stop).
RecordResult(p) ==
  LET f == flush[p]
      e == Min(f.selected)
  IN /\ f.pc = "record"
     /\ \/ /\ Succeeded(f.outcome) /\ Kind(e) = "state"
           /\ RecordState(e, f)
           /\ Step(p, Delivered(f))
        \/ /\ Succeeded(f.outcome) /\ Kind(e) = "comment"
           /\ Flushed(e, {"approved"})
           /\ Step(p, Delivered(f))
           /\ UNCHANGED record
        \/ /\ Succeeded(f.outcome) /\ Kind(e) = "create"
           /\ entry[e].state = "approved"
           /\ Step(p, [f EXCEPT !.pc = "confirm"])
           /\ UNCHANGED <<entry, record>>
        \/ /\ ~Succeeded(f.outcome)
           /\ IF f.outcome = "retryable" THEN FailOutbox(e) ELSE WithholdOutbox(e, TRUE)
           /\ Step(p, Delivered(f))
           /\ UNCHANGED record
     /\ UNCHANGED <<candidate, issue, posted, approvals, history>>

\* The transaction of ConfirmBacklogDelegation, whose fold takes queued entries
\* too.
Confirm(p) ==
  LET f == flush[p]
  IN /\ f.pc = "confirm"
     /\ Flushed(Min(f.selected), {"queued", "approved"})
     /\ Step(p, Delivered(f))
     /\ UNCHANGED <<candidate, record, issue, posted, approvals, history>>

\* Nothing is left, a commit was refused, or the process dies.
Stop(p) ==
  /\ flush[p].pc # "idle"
  /\ Step(p, Idle)
  /\ UNCHANGED <<candidate, entry, record, issue, posted, approvals, history>>

\* Somebody edits the issue at the provider.
Edit ==
  /\ issue.version < MaxVersion
  /\ \E s \in Dispositions :
       /\ issue' = [state |-> s, version |-> issue.version + 1]
       /\ history' = [history EXCEPT !.reached = @ \cup {s}, !.foreign = TRUE]
  /\ UNCHANGED <<candidate, entry, record, posted, flush, approvals>>

Next ==
  \/ \E e \in Entry :
       \/ \E c \in Candidate : Propose(e, c)
       \/ Approve(e) \/ Decline(e) \/ Retry(e)
  \/ \E p \in Process :
       \/ Start(p) \/ Classify(p) \/ Supersede(p) \/ Observe(p) \/ Write(p)
       \/ RecordResult(p) \/ Confirm(p) \/ Stop(p)
  \/ Edit

Spec == Init /\ [][Next]_vars

----------------------------------------------------------------------------
(* Properties. *)

Outcomes == {"none", "delivered", "converged", "retryable", "refused"}

\* Nothing is posted twice for one entry unless two flushes overlapped: a write
\* whose answer was lost, or whose flush died before the record, is found by its
\* marker on the next delivery.
PostedOnce == \A e \in Entry : posted[e] > 1 => history.overlap

\* Nothing reaches the provider for an entry no person has approved ("the human
\* boundary before the first seam call", OutboxApprove).
OnlyApproved ==
  /\ \A e \in Entry : posted[e] > 0 => e \in approvals
  /\ \A p \in Process : flush[p].pc = "write" => Min(flush[p].selected) \in approvals

\* What is recorded is so.  An entry recorded as flushed is at the provider: its
\* item or comment exists, the issue was at the terminal disposition it asked
\* for, whatever flush died, was overtaken or lost its answer.  And while one
\* flush runs at a time and nobody else edits the issue, the issue is at the
\* disposition the push record claims.
RecordIsTrue ==
  /\ \A e \in Entry : entry[e].state = "flushed" =>
       IF Kind(e) = "state"
       THEN Disposition(e) # "active" => Disposition(e) \in history.reached
       ELSE posted[e] > 0
  /\ record.disposition # "none" /\ ~history.overlap /\ ~history.foreign =>
       issue.state = record.disposition
=============================================================================
