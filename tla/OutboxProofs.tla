---------------------------- MODULE OutboxProofs ----------------------------
(***************************************************************************)
(* What the outbox promises for any number of entries and of processes that *)
(* flush: PostedOnce, OnlyApproved and RecordIsTrue.                        *)
(***************************************************************************)
EXTENDS Outbox, WellFoundedInduction, FiniteSetTheorems, TLAPS

-----------------------------------------------------------------------------
(* The inductive invariant.                                                  *)

Rows == [state : {"unborn", "queued", "approved", "declined", "withheld", "flushed"},
         attempted : BOOLEAN, reason : BOOLEAN]

Records == [disposition : Dispositions \cup {"none"}, lease : Nat]

Flushes == [pc : {"idle", "classify", "deliver", "write", "record", "confirm"},
            todo : SUBSET Entry, group : SUBSET Entry, selected : SUBSET Entry,
            lease : Nat, outcome : Outcomes, newLease : Nat]

TypeInv ==
  /\ candidate \in [Entry -> Candidate \cup {Unborn}]
  /\ entry \in [Entry -> Rows]
  /\ record \in Records
  /\ issue \in [state : Dispositions, version : Nat]
  /\ posted \in [Entry -> Nat]
  /\ flush \in [Process -> Flushes]
  /\ approvals \subseteq Entry
  /\ history \in [reached : SUBSET Dispositions, overlap : BOOLEAN, foreign : BOOLEAN]

\* The entry is at the provider.
There(e) ==
  IF Kind(e) = "state" THEN Disposition(e) # "active" => Disposition(e) \in history.reached
  ELSE posted[e] > 0

\* What was ever eligible was approved, and what is flushed is at the provider.
EntryInv ==
  /\ \A e \in approvals : entry[e].state # "unborn"
  /\ \A e \in Entry : entry[e].state \in {"approved", "withheld", "flushed"} => e \in approvals
  /\ \A e \in Entry : entry[e].state = "queued" /\ entry[e].attempted => e \in approvals
  /\ \A e \in Entry : posted[e] > 0 => e \in approvals
  /\ \A e \in Entry : entry[e].state = "flushed" => There(e)

\* While flushes do not overlap, one runs and posts nothing twice.
AloneInv ==
  ~history.overlap =>
    /\ \A p, q \in Process : flush[p].pc # "idle" /\ flush[q].pc # "idle" => p = q
    /\ \A e \in Entry : posted[e] <= 1

\* The push record holds a terminal disposition, the issue's if nobody interfered.
Undisturbed == ~history.overlap /\ ~history.foreign

RecordInv ==
  /\ issue.state \in history.reached
  /\ record.disposition # "active"
  /\ Undisturbed /\ record.disposition # "none" => issue.state = record.disposition

\* The entry a flush delivers.
Target(f) == Min(f.selected)

Delivering(f) == f.pc \in {"write", "record", "confirm"}
WritesState(f) == f.pc = "write" /\ Kind(Target(f)) = "state"
WroteState(f) == f.pc = "record" /\ f.outcome = "delivered" /\ Kind(Target(f)) = "state"

\* What a flush has read and done so far still bears out what it does next.
GoodFlush(f) ==
  /\ Delivering(f) => f.selected # {}
  /\ f.todo \cup f.group \cup f.selected \subseteq approvals
  /\ ~history.overlap /\ f.pc = "write" /\ Kind(Target(f)) # "state" => posted[Target(f)] = 0
  /\ f.pc = "record" /\ Succeeded(f.outcome) => There(Target(f))
  /\ f.pc = "confirm" => There(Target(f))
  /\ WritesState(f) \/ WroteState(f) => Disposition(Target(f)) # "active"
  /\ Undisturbed /\ WritesState(f) => issue.state = "active"
  /\ Undisturbed /\ WroteState(f) => issue.state = Disposition(Target(f))

FlushInv == \A p \in Process : GoodFlush(flush[p])

OutboxInv == TypeInv /\ EntryInv /\ AloneInv /\ RecordInv /\ FlushInv
-----------------------------------------------------------------------------
(* A set of entries that is not empty has a first one, which the loops of     *)
(* Flush take: Min of it is one of them.                                     *)
LEMMA MinIn ==
  ASSUME NEW S, S \subseteq Entry, S # {}
  PROVE  Min(S) \in S
<1>1. S \subseteq Nat BY OutboxAssumption
<1> DEFINE R == {ss \in Nat \X Nat : ss[1] < ss[2]}
<1>2. \A a, b \in Nat : a < b => <<a, b>> \in R OBVIOUS
<1>3. IsWellFoundedOn(R, Nat) BY NatLessThanWellFounded, Zenon DEF OpToRel
<1> HIDE DEF R
<1>4. PICK x \in S : \A y \in S : ~(<<y, x>> \in R) BY <1>1, <1>3, WFMin, Zenon
<1>5. ASSUME NEW y \in S PROVE x =< y
  <2>1. x \in Nat /\ y \in Nat BY <1>1
  <2>2. ~(y < x) BY <1>2, <1>4, <2>1, Zenon
  <2> QED BY <2>1, <2>2
<1> QED BY <1>4, <1>5 DEF Min

(* Before anything is proposed the invariant holds.                          *)
LEMMA InitInv == Init => OutboxInv
<1> SUFFICES ASSUME Init PROVE OutboxInv OBVIOUS
<1>1. TypeInv
  BY DEF Init, TypeInv, Row, Rows, Records, Idle, NoLease, NoRecord, Unborn, Flushes, Outcomes, Dispositions
<1>2. EntryInv BY DEF Init, EntryInv, Row
<1>3. AloneInv BY DEF Init, AloneInv, Idle
<1>4. RecordInv BY DEF Init, RecordInv, NoRecord
<1>5. FlushInv BY DEF Init, FlushInv, GoodFlush, Idle, Delivering, WritesState, WroteState
<1> QED BY <1>1, <1>2, <1>3, <1>4, <1>5 DEF OutboxInv

(* A flush that has selected entries is at one of them, which a person has    *)
(* approved.                                                                 *)
LEMMA TargetIn ==
  ASSUME TypeInv, NEW f \in Flushes, GoodFlush(f), f.selected # {}
  PROVE  Target(f) \in f.selected /\ Target(f) \in Entry /\ Target(f) \in approvals
<1>1. f.selected \subseteq Entry BY DEF Flushes
<1>2. Target(f) \in f.selected BY <1>1, MinIn DEF Target
<1> QED BY <1>1, <1>2 DEF GoodFlush

(* The rows that the folds write are rows of outbox_entries.                  *)
LEMMA RowIn ==
  ASSUME NEW attempted \in BOOLEAN
  PROVE  /\ Row("queued", FALSE, FALSE) \in Rows /\ Row("queued", TRUE, TRUE) \in Rows
         /\ Row("approved", FALSE, FALSE) \in Rows /\ Row("approved", attempted, FALSE) \in Rows
         /\ Row("declined", attempted, TRUE) \in Rows /\ Row("withheld", attempted, TRUE) \in Rows
         /\ Row("flushed", TRUE, FALSE) \in Rows
BY DEF Row, Rows

(* What people do to an entry (propose, approve, decline, retry) keeps the    *)
(* invariant: no flush is at an entry that is not born yet.                   *)
LEMMA PeopleKeep ==
  ASSUME OutboxInv, NEW e \in Entry,
         (\E c \in Candidate : Propose(e, c)) \/ Approve(e) \/ Decline(e) \/ Retry(e)
  PROVE  OutboxInv'
<1> USE DEF OutboxInv
<1>1. UNCHANGED <<record, issue, posted, flush, history>>
  BY DEF Propose, Approve, Decline, Retry
<1>2. \A d \in approvals : candidate'[d] = candidate[d]
  BY DEF Propose, Approve, Decline, Retry, EntryInv, TypeInv
<1>3. \A d \in Entry : entry'[d].state = "flushed" => entry[d].state = "flushed"
  BY DEF Propose, Approve, Decline, Retry, Update, Row, TypeInv
<1>4. approvals \subseteq approvals'
  BY DEF Propose, Approve, Decline, Retry
<1>5. TypeInv'
  <2>1. candidate' \in [Entry -> Candidate \cup {Unborn}] BY DEF Propose, Approve, Decline, Retry, TypeInv
  <2>2. entry' \in [Entry -> Rows]
    <3>1. entry[e].attempted \in BOOLEAN BY DEF TypeInv, Rows
    <3>2. PICK row \in Rows : entry' = [entry EXCEPT ![e] = row]
      BY <3>1, RowIn DEF Propose, Approve, Decline, Retry, Update
    <3> QED BY <3>2 DEF TypeInv
  <2>3. approvals' \subseteq Entry BY DEF Propose, Approve, Decline, Retry, TypeInv
  <2> QED BY <1>1, <2>1, <2>2, <2>3 DEF TypeInv
<1>6. \A d \in approvals : There(d)' = There(d) BY <1>1, <1>2 DEF There, Kind, Disposition
<1>7. EntryInv'
  <2>1. \A d \in approvals' : entry'[d].state # "unborn"
    BY DEF Propose, Approve, Decline, Retry, Update, Row, TypeInv, EntryInv
  <2>2. \A d \in Entry : entry'[d].state \in {"approved", "withheld", "flushed"} => d \in approvals'
    BY DEF Propose, Approve, Decline, Retry, Update, Row, TypeInv, EntryInv
  <2>3. \A d \in Entry : entry'[d].state = "queued" /\ entry'[d].attempted => d \in approvals'
    BY DEF Propose, Approve, Decline, Retry, Update, Row, TypeInv, EntryInv
  <2>4. \A d \in Entry : entry'[d].state = "flushed" => There(d)' BY <1>3, <1>6 DEF EntryInv
  <2> QED BY <1>1, <1>4, <2>1, <2>2, <2>3, <2>4 DEF EntryInv
<1>8. AloneInv' /\ RecordInv' BY <1>1 DEF AloneInv, RecordInv, Undisturbed
<1>9. ASSUME NEW p \in Process PROVE GoodFlush(flush[p])'
  <2> DEFINE f == flush[p]
  <2>1. f' = f /\ f \in Flushes /\ GoodFlush(f) BY <1>1 DEF TypeInv, FlushInv
  <2>2. CASE ~Delivering(f)
    BY <1>1, <1>4, <2>1, <2>2 DEF GoodFlush, Delivering, WritesState, WroteState
  <2>3. CASE Delivering(f)
    <3>1. Target(f) \in approvals BY <2>1, <2>3, TargetIn DEF GoodFlush
    <3>2. Target(f)' = Target(f) BY <2>1 DEF Target
    <3>3. There(Target(f))' = There(Target(f)) BY <1>1, <1>2, <3>1, <3>2 DEF There, Kind, Disposition
    <3>4. Kind(Target(f))' = Kind(Target(f)) /\ Disposition(Target(f))' = Disposition(Target(f))
      BY <1>2, <3>1, <3>2 DEF Kind, Disposition
    <3> QED BY <1>1, <1>4, <2>1, <3>2, <3>3, <3>4 DEF GoodFlush, Delivering, WritesState, WroteState, Undisturbed
  <2> QED BY <2>2, <2>3
<1> QED BY <1>5, <1>7, <1>8, <1>9 DEF FlushInv

(* A step of a flush that leaves the provider alone keeps the invariant if    *)
(* what the flush has become is good, and the rows it committed are.          *)
LEMMA FlushStep ==
  ASSUME OutboxInv, NEW p \in Process, NEW g \in Flushes, Step(p, g), GoodFlush(g),
         g.pc # "idle" => flush[p].pc # "idle",
         UNCHANGED <<candidate, issue, posted, approvals, history>>,
         entry' \in [Entry -> Rows], EntryInv', record' \in Records, RecordInv'
  PROVE  OutboxInv'
<1> USE DEF OutboxInv
<1>1. flush' \in [Process -> Flushes] /\ flush'[p] = g /\ \A q \in Process \ {p} : flush'[q] = flush[q]
  BY DEF Step, TypeInv
<1>2. TypeInv' BY <1>1 DEF TypeInv
<1>3. AloneInv'
  <2>1. \A q \in Process : flush'[q].pc # "idle" => flush[q].pc # "idle" BY <1>1
  <2> QED BY <2>1 DEF AloneInv
<1>4. ASSUME NEW q \in Process PROVE GoodFlush(flush[q])'
  <2>1. GoodFlush(flush'[q]) BY <1>1 DEF FlushInv
  <2> QED BY <2>1 DEF GoodFlush, There, Undisturbed, Kind, Disposition, Target, WritesState, WroteState
<1> QED BY <1>2, <1>3, <1>4 DEF FlushInv

(* What keeps the rows in the invariant: an approved entry is withheld, fails *)
(* or is flushed once it is at the provider.                                 *)
LEMMA EntryStep ==
  ASSUME OutboxInv, NEW e \in approvals, NEW row \in Rows, Update(e, row),
         row.state # "unborn", row.state = "flushed" => There(e),
         UNCHANGED <<candidate, posted, approvals, history>>
  PROVE  entry' \in [Entry -> Rows] /\ EntryInv'
<1> USE DEF OutboxInv
<1>1. e \in Entry BY DEF TypeInv
<1>2. entry' \in [Entry -> Rows] /\ entry'[e] = row /\ \A d \in Entry \ {e} : entry'[d] = entry[d]
  BY <1>1 DEF Update, TypeInv
<1>3. \A d \in Entry : There(d)' = There(d) BY DEF There, Kind, Disposition
<1>4. \A d \in approvals : entry'[d].state # "unborn" BY <1>2 DEF EntryInv, TypeInv
<1>5. \A d \in Entry : entry'[d].state \in {"approved", "withheld", "flushed"} => d \in approvals
  BY <1>2 DEF EntryInv
<1>6. \A d \in Entry : entry'[d].state = "queued" /\ entry'[d].attempted => d \in approvals
  BY <1>2 DEF EntryInv
<1>7. \A d \in Entry : entry'[d].state = "flushed" => There(d)' BY <1>2, <1>3 DEF EntryInv
<1> QED BY <1>2, <1>4, <1>5, <1>6, <1>7 DEF EntryInv

(* Flush up to the first delivery, and its end, keep the invariant.          *)
LEMMA SelectionKeeps ==
  ASSUME OutboxInv, NEW p \in Process, Classify(p) \/ Supersede(p) \/ Stop(p)
  PROVE  OutboxInv'
<1> USE DEF OutboxInv
<1> DEFINE f == flush[p]
<1>1. f \in Flushes /\ GoodFlush(f) BY DEF TypeInv, FlushInv
<1>2. UNCHANGED <<candidate, record, issue, posted, approvals, history>>
  BY DEF Classify, Supersede, Stop
<1>3. record' \in Records /\ RecordInv' BY <1>2 DEF TypeInv, RecordInv, Undisturbed
<1>4. ASSUME UNCHANGED entry PROVE entry' \in [Entry -> Rows] /\ EntryInv'
  BY <1>2, <1>4 DEF TypeInv, EntryInv, There, Kind, Disposition
<1>5. ASSUME NEW e \in approvals, WithholdOutbox(e, FALSE) PROVE entry' \in [Entry -> Rows] /\ EntryInv'
  <2>1. entry[e].attempted \/ FALSE \in BOOLEAN OBVIOUS
  <2>2. Row("withheld", entry[e].attempted \/ FALSE, TRUE) \in Rows BY <2>1, RowIn
  <2>3. Update(e, Row("withheld", entry[e].attempted \/ FALSE, TRUE)) BY <1>5 DEF WithholdOutbox
  <2>4. Row("withheld", entry[e].attempted \/ FALSE, TRUE).state = "withheld" BY DEF Row
  <2> QED BY <1>2, <2>2, <2>3, <2>4, EntryStep
<1>6. CASE Classify(p)
  <2> DEFINE e == Min(f.todo)
  <2>1. e \in f.todo /\ e \in approvals /\ e \in Entry BY <1>1, <1>6, MinIn DEF Classify, GoodFlush, Flushes
  <2>2. entry' \in [Entry -> Rows] /\ EntryInv' BY <1>4, <1>5, <1>6, <2>1 DEF Classify
  <2>3. PICK g : /\ Step(p, g)
                 /\ \/ g = [f EXCEPT !.todo = @ \ {e}, !.selected = @ \cup {e}]
                    \/ g = [f EXCEPT !.todo = @ \ {e}, !.group = @ \cup {e}]
                    \/ g = [f EXCEPT !.todo = @ \ {e}]
    BY <1>6 DEF Classify
  <2>4. f.pc = "classify" /\ flush[p].pc # "idle" BY <1>6 DEF Classify
  <2> HIDE DEF e, f
  <2>5. g \in Flushes /\ g.pc = "classify"
    <3>1. CASE g = [f EXCEPT !.todo = @ \ {e}, !.selected = @ \cup {e}] BY <1>1, <2>1, <2>4, <3>1 DEF Flushes
    <3>2. CASE g = [f EXCEPT !.todo = @ \ {e}, !.group = @ \cup {e}] BY <1>1, <2>1, <2>4, <3>2 DEF Flushes
    <3>3. CASE g = [f EXCEPT !.todo = @ \ {e}] BY <1>1, <2>4, <3>3 DEF Flushes
    <3> QED BY <2>3, <3>1, <3>2, <3>3
  <2>6. g.todo \cup g.group \cup g.selected \subseteq approvals
    <3>1. f.todo \cup f.group \cup f.selected \subseteq approvals BY <1>1 DEF GoodFlush
    <3>2. CASE g = [f EXCEPT !.todo = @ \ {e}, !.selected = @ \cup {e}] BY <1>1, <2>1, <3>1, <3>2 DEF Flushes
    <3>3. CASE g = [f EXCEPT !.todo = @ \ {e}, !.group = @ \cup {e}] BY <1>1, <2>1, <3>1, <3>3 DEF Flushes
    <3>4. CASE g = [f EXCEPT !.todo = @ \ {e}] BY <1>1, <3>1, <3>4 DEF Flushes
    <3> QED BY <2>3, <3>2, <3>3, <3>4
  <2>7. GoodFlush(g) BY <2>5, <2>6 DEF GoodFlush, Delivering, WritesState, WroteState
  <2> QED BY <1>2, <1>3, <2>2, <2>3, <2>5, <2>7, <2>4, FlushStep
<1>7. CASE Supersede(p)
  <2> DEFINE e == Min(f.group)
  <2>1. entry' \in [Entry -> Rows] /\ EntryInv'
    <3>1. Cardinality(f.group) \in Nat
      BY <1>1, OutboxAssumption, FS_Subset, FS_CardinalityType DEF Flushes
    <3>2. CASE Cardinality(f.group) > 1
      <4>1. f.group # {} BY <3>2, FS_EmptySet
      <4>2. e \in approvals BY <1>1, <4>1, MinIn DEF GoodFlush, Flushes
      <4>3. ~(Cardinality(f.group) <= 1) BY <3>1, <3>2
      <4>4. WithholdOutbox(e, FALSE) BY <1>7, <4>3, Zenon DEF Supersede
      <4> QED BY <1>5, <4>2, <4>4
    <3>3. CASE ~(Cardinality(f.group) > 1) BY <1>4, <1>7, <3>3 DEF Supersede
    <3> QED BY <3>2, <3>3
  <2>2. PICK g : /\ Step(p, g)
                 /\ \/ g = [f EXCEPT !.group = @ \ {e}]
                    \/ g = [f EXCEPT !.pc = "deliver", !.group = {}, !.selected = @ \cup f.group]
    BY <1>7 DEF Supersede
  <2>3. g \in Flushes /\ g.pc \in {"classify", "deliver"}
    <3>1. f.pc = "classify" BY <1>7 DEF Supersede
    <3> HIDE DEF f, e
    <3>2. CASE g = [f EXCEPT !.group = @ \ {e}] BY <1>1, <3>1, <3>2 DEF Flushes
    <3>3. CASE g = [f EXCEPT !.pc = "deliver", !.group = {}, !.selected = @ \cup f.group]
      BY <1>1, <3>3 DEF Flushes
    <3> QED BY <2>2, <3>2, <3>3
  <2>4. g.todo \cup g.group \cup g.selected \subseteq approvals BY <1>1, <2>2 DEF GoodFlush, Flushes
  <2>5. GoodFlush(g) BY <2>3, <2>4 DEF GoodFlush, Delivering, WritesState, WroteState
  <2>6. f.pc # "idle" BY <1>7 DEF Supersede
  <2> QED BY <1>2, <1>3, <2>1, <2>2, <2>3, <2>5, <2>6, FlushStep
<1>8. CASE Stop(p)
  <2>1. Idle \in Flushes /\ Idle.pc = "idle" BY DEF Idle, Flushes, Outcomes, NoLease
  <2>2. GoodFlush(Idle) BY DEF Idle, GoodFlush, Delivering, WritesState, WroteState
  <2>3. entry' \in [Entry -> Rows] /\ EntryInv' BY <1>4, <1>8 DEF Stop
  <2> QED BY <1>2, <1>3, <1>8, <2>1, <2>2, <2>3, FlushStep DEF Stop
<1> QED BY <1>6, <1>7, <1>8

(* Flush begins with the approved entries of the moment.  If another flush is *)
(* under way the two overlap from then on.                                   *)
LEMMA StartKeeps ==
  ASSUME OutboxInv, NEW p \in Process, Start(p)
  PROVE  OutboxInv'
<1> USE DEF OutboxInv
<1> DEFINE g == [Idle EXCEPT !.pc = "classify", !.todo = {e \in Entry : Eligible(e)}, !.lease = record.lease]
<1>1. UNCHANGED <<candidate, entry, record, issue, posted, approvals>> /\ flush' = [flush EXCEPT ![p] = g]
  BY DEF Start, Step
<1>2. /\ history' = [history EXCEPT !.overlap = @ \/ \E q \in Process : flush[q].pc # "idle"]
      /\ history'.reached = history.reached /\ history'.foreign = history.foreign
      /\ history.overlap => history'.overlap
      /\ ~history'.overlap => \A q \in Process : flush[q].pc = "idle"
  BY DEF Start, TypeInv
<1>3. g \in Flushes /\ g.pc = "classify" BY DEF TypeInv, Records, Idle, Flushes, Outcomes, NoLease
<1>4. g.todo \cup g.group \cup g.selected \subseteq approvals BY DEF Idle, Eligible, EntryInv
<1> HIDE DEF g
<1>5. flush' \in [Process -> Flushes] /\ flush'[p] = g /\ \A q \in Process \ {p} : flush'[q] = flush[q]
  BY <1>1, <1>3 DEF TypeInv
<1>6. TypeInv'
  <2>1. history' \in [reached : SUBSET Dispositions, overlap : BOOLEAN, foreign : BOOLEAN]
    BY <1>2 DEF TypeInv
  <2> QED BY <1>1, <1>5, <2>1 DEF TypeInv
<1>7. EntryInv' BY <1>1, <1>2 DEF EntryInv, There, Kind, Disposition
<1>8. AloneInv' BY <1>1, <1>2, <1>5 DEF AloneInv
<1>9. RecordInv' BY <1>1, <1>2 DEF RecordInv, Undisturbed
<1>10. ASSUME NEW q \in Process PROVE GoodFlush(flush[q])'
  <2>1. CASE q = p
    BY <1>1, <1>3, <1>4, <1>5, <2>1 DEF GoodFlush, Delivering, WritesState, WroteState
  <2>2. CASE q # p
    <3>1. flush'[q] = flush[q] /\ GoodFlush(flush[q]) BY <1>5, <2>2 DEF FlushInv
    <3> QED BY <1>1, <1>2, <3>1
            DEF GoodFlush, There, Undisturbed, Kind, Disposition, Target, Delivering, WritesState, WroteState
  <2> QED BY <2>1, <2>2
<1> QED BY <1>6, <1>7, <1>8, <1>9, <1>10 DEF FlushInv

(* The adapter's read keeps the invariant: it goes on to write only what is   *)
(* not at the provider, and onto an active issue only (findIssue,             *)
(* findComment, the state call's verdict).                                   *)
LEMMA ObserveKeeps ==
  ASSUME OutboxInv, NEW p \in Process, Observe(p)
  PROVE  OutboxInv'
<1> USE DEF OutboxInv
<1> DEFINE f == flush[p]
           e == Target(f)
<1>1. f \in Flushes /\ GoodFlush(f) /\ f.pc = "deliver" /\ f.selected # {}
  BY DEF TypeInv, FlushInv, Observe
<1>2. e \in Entry /\ e \in approvals BY <1>1, TargetIn
<1>3. UNCHANGED <<candidate, entry, record, issue, posted, approvals, history>>
  BY DEF Observe, RequestFails
<1>4. entry' \in [Entry -> Rows] /\ EntryInv' BY <1>3 DEF TypeInv, EntryInv, There, Kind, Disposition
<1>5. record' \in Records /\ RecordInv' BY <1>3 DEF TypeInv, RecordInv, Undisturbed
<1>6. NoLease \in Nat BY DEF NoLease
<1>7. PICK g : /\ Step(p, g)
               /\ \/ g \in {Answer(f, "retryable", NoLease), Answer(f, "refused", NoLease)}
                  \/ Kind(e) = "state" /\ Verdict(e, f.lease) = "write" /\ g = [f EXCEPT !.pc = "write"]
                  \/ Kind(e) = "state" /\ Verdict(e, f.lease) # "write" /\ g = Answer(f, Verdict(e, f.lease), NoLease)
                  \/ Kind(e) # "state" /\ FindMarker(e) /\ g = Answer(f, "converged", NoLease)
                  \/ Kind(e) # "state" /\ ~FindMarker(e) /\ g = [f EXCEPT !.pc = "write"]
  BY DEF Observe, RequestFails, Target
<1>8. Verdict(e, f.lease) \in {"refused", "converged", "write"} BY DEF Verdict
<1>9. Verdict(e, f.lease) = "write" => issue.state = "active" /\ Disposition(e) # "active"
  BY DEF Verdict
<1>10. Verdict(e, f.lease) = "converged" => Disposition(e) = "active" \/ Disposition(e) = issue.state
  BY DEF Verdict, AtCandidate
<1>11. flush[p].pc # "idle" BY <1>1
<1> HIDE DEF f, e
<1>12. e = Target(f) BY DEF e
<1>13. ASSUME NEW o \in Outcomes \ {"delivered"}, g = Answer(f, o, NoLease), o = "converged" => There(e)
       PROVE  g \in Flushes /\ GoodFlush(g)
  <2>1. g \in Flushes /\ g.pc = "record" /\ g.outcome = o /\ g.selected = f.selected
        /\ g.todo = f.todo /\ g.group = f.group
    BY <1>1, <1>6, <1>13 DEF Answer, Flushes
  <2>2. Target(g) = e BY <1>12, <2>1 DEF Target
  <2> QED BY <1>1, <1>13, <2>1, <2>2 DEF GoodFlush, Delivering, WritesState, WroteState, Succeeded
<1>14. ASSUME g = [f EXCEPT !.pc = "write"],
              Kind(e) = "state" => issue.state = "active" /\ Disposition(e) # "active",
              Kind(e) # "state" => ~FindMarker(e)
       PROVE  g \in Flushes /\ GoodFlush(g)
  <2>1. g \in Flushes /\ g.pc = "write" /\ g.selected = f.selected /\ g.todo = f.todo /\ g.group = f.group
    BY <1>1, <1>14 DEF Flushes
  <2>2. Target(g) = e BY <1>12, <2>1 DEF Target
  <2>3. Kind(e) # "state" => posted[e] = 0 BY <1>2, <1>14 DEF FindMarker, TypeInv
  <2> QED BY <1>1, <1>14, <2>1, <2>2, <2>3 DEF GoodFlush, Delivering, WritesState, WroteState
<1>15. g \in Flushes /\ GoodFlush(g)
  <2>1. CASE g \in {Answer(f, "retryable", NoLease), Answer(f, "refused", NoLease)}
    BY <1>13, <2>1 DEF Outcomes
  <2>2. CASE Kind(e) = "state" /\ Verdict(e, f.lease) = "write" /\ g = [f EXCEPT !.pc = "write"]
    BY <1>9, <1>14, <2>2
  <2>3. CASE Kind(e) = "state" /\ Verdict(e, f.lease) # "write" /\ g = Answer(f, Verdict(e, f.lease), NoLease)
    <3>1. Verdict(e, f.lease) = "converged" => There(e) BY <1>10, <2>3 DEF There, RecordInv
    <3> QED BY <1>8, <1>13, <2>3, <3>1 DEF Outcomes
  <2>4. CASE Kind(e) # "state" /\ FindMarker(e) /\ g = Answer(f, "converged", NoLease)
    BY <1>13, <2>4 DEF Outcomes, There, FindMarker
  <2>5. CASE Kind(e) # "state" /\ ~FindMarker(e) /\ g = [f EXCEPT !.pc = "write"]
    BY <1>14, <2>5
  <2> QED BY <1>7, <2>1, <2>2, <2>3, <2>4, <2>5
<1> QED BY <1>3, <1>4, <1>5, <1>7, <1>11, <1>15, FlushStep

(* The adapter's write keeps the invariant, whatever becomes of its answer.  *)
LEMMA WriteKeeps ==
  ASSUME OutboxInv, NEW p \in Process, Write(p)
  PROVE  OutboxInv'
<1> USE DEF OutboxInv
<1>1. PICK f, e : f = flush[p] /\ e = Target(f) OBVIOUS
<1>2. f \in Flushes /\ GoodFlush(f) /\ f.pc = "write" /\ f.selected # {}
  BY <1>1 DEF TypeInv, FlushInv, Write, GoodFlush, Delivering
<1>3. e \in Entry /\ e \in approvals BY <1>1, <1>2, TargetIn
<1>4. UNCHANGED <<candidate, entry, record, approvals>> BY DEF Write
<1>5. NoLease \in Nat BY DEF NoLease
<1>6. flush[p].pc # "idle" BY <1>1, <1>2
<1>7. PICK o \in Outcomes, l \in Nat :
        /\ Step(p, Answer(f, o, l))
        /\ \/ o \in {"retryable", "refused"} /\ UNCHANGED <<issue, posted, history>>
           \/ /\ Kind(e) = "state" /\ UNCHANGED posted
              /\ issue' = [state |-> Disposition(e), version |-> issue.version + 1]
              /\ history' = [history EXCEPT !.reached = @ \cup {Disposition(e)}]
           \/ /\ Kind(e) # "state" /\ UNCHANGED <<issue, history>>
              /\ posted' = [posted EXCEPT ![e] = @ + 1]
  <2>1. issue.version + 1 \in Nat BY DEF TypeInv
  <2>2. CASE RequestFails(p) /\ UNCHANGED <<posted, history>> BY <1>5, <1>1, <2>2 DEF RequestFails, Outcomes
  <2>3. CASE ~(RequestFails(p) /\ UNCHANGED <<posted, history>>)
    <3>1. PICK o \in {"delivered", "retryable", "refused"} :
             IF Kind(e) = "state"
             THEN /\ issue' = [state |-> Disposition(e), version |-> issue.version + 1]
                  /\ history' = [history EXCEPT !.reached = @ \cup {Disposition(e)}]
                  /\ Step(p, Answer(f, o, IF o = "delivered" THEN issue.version + 1 ELSE NoLease))
                  /\ UNCHANGED posted
             ELSE /\ posted' = [posted EXCEPT ![e] = @ + 1]
                  /\ Step(p, Answer(f, o, NoLease))
                  /\ UNCHANGED <<issue, history>>
      BY <1>1, <2>3 DEF Write, Target
    <3>2. (IF o = "delivered" THEN issue.version + 1 ELSE NoLease) \in Nat BY <1>5, <2>1
    <3> QED BY <1>5, <3>1, <3>2 DEF Outcomes
  <2> QED BY <2>2, <2>3
<1>8. PICK g : g = Answer(f, o, l) OBVIOUS
<1>9. /\ g \in Flushes /\ g.pc = "record" /\ g.outcome = o /\ g.selected = f.selected
      /\ g.todo = f.todo /\ g.group = f.group
  BY <1>2, <1>8 DEF Answer, Flushes
<1>10. /\ flush' \in [Process -> Flushes] /\ flush'[p] = g
      /\ \A q \in Process \ {p} : flush'[q] = flush[q]
  BY <1>7, <1>9, <1>8 DEF Step, TypeInv
<1>11. \A q \in Process \ {p} : ~history.overlap => flush[q].pc = "idle" BY <1>6 DEF AloneInv
<1>12. Target(g) = e BY <1>1, <1>9 DEF Target
<1>13. CASE o \in {"retryable", "refused"} /\ UNCHANGED <<issue, posted, history>>
  <2>1. entry' \in [Entry -> Rows] /\ EntryInv'
    BY <1>4, <1>13 DEF TypeInv, EntryInv, There, Kind, Disposition
  <2>2. record' \in Records /\ RecordInv' BY <1>4, <1>13 DEF TypeInv, RecordInv, Undisturbed
  <2>3. GoodFlush(g)
    BY <1>2, <1>9, <1>13 DEF GoodFlush, Delivering, WritesState, WroteState, Succeeded
  <2> QED BY <1>4, <1>6, <1>7, <1>9, <1>8, <1>13, <2>1, <2>2, <2>3, FlushStep
<1>14. CASE /\ Kind(e) = "state" /\ UNCHANGED posted
            /\ issue' = [state |-> Disposition(e), version |-> issue.version + 1]
            /\ history' = [history EXCEPT !.reached = @ \cup {Disposition(e)}]
  <2>1. Disposition(e) \in Dispositions
    <3>1. candidate[e] \in Candidate BY <1>3, <1>14 DEF TypeInv, Kind, Unborn
    <3> QED BY <3>1, OutboxAssumption DEF Disposition
  <2>2. /\ history'.reached = history.reached \cup {Disposition(e)}
        /\ history'.overlap = history.overlap /\ history'.foreign = history.foreign
    BY <1>14 DEF TypeInv
  <2>3. TypeInv'
    <3>1. issue' \in [state : Dispositions, version : Nat] BY <1>14, <2>1 DEF TypeInv
    <3>2. history' \in [reached : SUBSET Dispositions, overlap : BOOLEAN, foreign : BOOLEAN]
      BY <1>14, <2>1 DEF TypeInv
    <3> QED BY <1>4, <1>10, <1>14, <3>1, <3>2 DEF TypeInv
  <2>4. \A d : There(d) => There(d)' BY <1>4, <1>14, <2>2 DEF There, Kind, Disposition
  <2>5. EntryInv' BY <1>4, <1>14, <2>4 DEF EntryInv
  <2>6. AloneInv' BY <1>10, <1>11, <1>14, <2>2 DEF AloneInv
  <2>7. Undisturbed => issue.state = "active" BY <1>1, <1>2, <1>14 DEF GoodFlush, WritesState
  <2>8. RecordInv' BY <1>4, <1>14, <2>2, <2>7 DEF RecordInv, Undisturbed
  <2>9. There(e)' BY <1>4, <1>14, <2>2 DEF There, Kind, Disposition
  <2>10. Disposition(e) # "active" BY <1>1, <1>2, <1>14 DEF GoodFlush, WritesState
  <2>11. GoodFlush(flush[p])'
    <3>1. Target(g)' = e BY <1>12 DEF Target
    <3>2. Kind(e)' = Kind(e) /\ Disposition(e)' = Disposition(e) BY <1>4 DEF Kind, Disposition
    <3>3. g.todo \cup g.group \cup g.selected \subseteq approvals' /\ g.selected # {}
      BY <1>2, <1>4, <1>9 DEF GoodFlush
    <3>4. GoodFlush(g)'
      BY <1>9, <1>14, <2>2, <2>9, <2>10, <3>1, <3>2, <3>3
         DEF GoodFlush, Delivering, WritesState, WroteState, Undisturbed
    <3> QED BY <1>10, <3>4
  <2>12. ASSUME NEW q \in Process \ {p} PROVE GoodFlush(flush[q])'
    <3>1. PICK h : h = flush[q] OBVIOUS
    <3>2. flush'[q] = h /\ GoodFlush(h) /\ (~history.overlap => h.pc = "idle")
      BY <1>10, <1>11, <3>1 DEF FlushInv
    <3>3. There(Target(h)) => There(Target(h))' BY <2>4 DEF Target
    <3>4. GoodFlush(h)'
      BY <1>4, <1>14, <2>2, <3>2, <3>3
         DEF GoodFlush, Delivering, WritesState, WroteState, Undisturbed, Target, Kind, Disposition
    <3> QED BY <3>2, <3>4
  <2> QED BY <2>3, <2>5, <2>6, <2>8, <2>11, <2>12 DEF FlushInv
<1>15. CASE Kind(e) # "state" /\ UNCHANGED <<issue, history>> /\ posted' = [posted EXCEPT ![e] = @ + 1]
  <2>1. /\ posted' \in [Entry -> Nat] /\ posted'[e] = posted[e] + 1 /\ posted'[e] > 0
        /\ \A d \in Entry \ {e} : posted'[d] = posted[d]
        /\ \A d \in Entry : posted[d] > 0 => posted'[d] > 0
    BY <1>3, <1>15 DEF TypeInv
  <2>2. TypeInv' BY <1>4, <1>10, <1>15, <2>1 DEF TypeInv
  <2>3. \A d \in Entry : There(d) => There(d)' BY <1>4, <1>15, <2>1 DEF There, Kind, Disposition
  <2>4. EntryInv'
    <3>1. \A d \in Entry : posted'[d] > 0 => d \in approvals BY <1>3, <2>1 DEF EntryInv
    <3> QED BY <1>4, <2>3, <3>1 DEF EntryInv
  <2>5. AloneInv'
    <3>1. ~history.overlap => posted[e] = 0 BY <1>1, <1>2, <1>15 DEF GoodFlush
    <3>2. ~history.overlap => \A d \in Entry : posted'[d] <= 1 BY <2>1, <3>1 DEF AloneInv
    <3> QED BY <1>10, <1>11, <1>15, <3>2 DEF AloneInv
  <2>6. RecordInv' BY <1>4, <1>15 DEF RecordInv, Undisturbed
  <2>7. GoodFlush(flush[p])'
    <3>1. Target(g)' = e BY <1>12 DEF Target
    <3>2. Kind(e)' = Kind(e) /\ There(e)' BY <1>4, <1>15, <2>1 DEF Kind, There
    <3>3. g.todo \cup g.group \cup g.selected \subseteq approvals' /\ g.selected # {}
      BY <1>2, <1>4, <1>9 DEF GoodFlush
    <3>4. GoodFlush(g)'
      BY <1>9, <1>15, <3>1, <3>2, <3>3 DEF GoodFlush, Delivering, WritesState, WroteState
    <3> QED BY <1>10, <3>4
  <2>8. ASSUME NEW q \in Process \ {p} PROVE GoodFlush(flush[q])'
    <3>1. PICK h : h = flush[q] OBVIOUS
    <3>2. flush'[q] = h /\ h \in Flushes /\ GoodFlush(h) /\ (~history.overlap => h.pc = "idle")
      BY <1>10, <1>11, <3>1 DEF FlushInv, TypeInv
    <3>3. Delivering(h) => Target(h) \in Entry BY <3>2, TargetIn DEF GoodFlush
    <3>4. Delivering(h) /\ There(Target(h)) => There(Target(h))' BY <2>3, <3>3 DEF Target
    <3>5. GoodFlush(h)'
      BY <1>4, <1>15, <3>2, <3>4
         DEF GoodFlush, Delivering, WritesState, WroteState, Undisturbed, Target, Kind, Disposition
    <3> QED BY <3>2, <3>5
  <2> QED BY <2>2, <2>4, <2>5, <2>6, <2>7, <2>8 DEF FlushInv
<1> QED BY <1>7, <1>13, <1>14, <1>15

(* The commit of a result keeps the invariant: only what is at the provider   *)
(* is recorded as flushed (recordResult, ConfirmBacklogDelegation).           *)
LEMMA ResultKeeps ==
  ASSUME OutboxInv, NEW p \in Process, RecordResult(p) \/ Confirm(p)
  PROVE  OutboxInv'
<1> USE DEF OutboxInv
<1>1. PICK f, e : f = flush[p] /\ e = Target(f) OBVIOUS
<1>2. f \in Flushes /\ GoodFlush(f) /\ f.pc \in {"record", "confirm"} /\ f.selected # {} /\ flush[p].pc # "idle"
  BY <1>1 DEF TypeInv, FlushInv, RecordResult, Confirm, GoodFlush, Delivering
<1>3. e \in Entry /\ e \in approvals BY <1>1, <1>2, TargetIn
<1>4. UNCHANGED <<candidate, issue, posted, approvals, history>> BY DEF RecordResult, Confirm
<1>5. There(e) <=> There(e)' BY <1>4 DEF There, Kind, Disposition
<1>6. Delivered(f) \in Flushes /\ GoodFlush(Delivered(f)) /\ Delivered(f).pc = "deliver"
  <2>1. PICK g : g = Delivered(f) OBVIOUS
  <2>2. g \in Flushes /\ g.pc = "deliver" /\ g.todo = f.todo /\ g.group = f.group /\ g.selected \subseteq f.selected
    BY <1>2, <2>1 DEF Delivered, Flushes, Outcomes, NoLease
  <2>3. GoodFlush(g) BY <1>2, <2>2 DEF GoodFlush, Delivering, WritesState, WroteState
  <2> QED BY <2>1, <2>2, <2>3
<1>7. ASSUME NEW from, Flushed(e, from), There(e) PROVE entry' \in [Entry -> Rows] /\ EntryInv'
  <2>1. Row("flushed", TRUE, FALSE) \in Rows /\ Row("flushed", TRUE, FALSE).state = "flushed" BY RowIn DEF Row
  <2> QED BY <1>3, <1>4, <1>7, <2>1, EntryStep DEF Flushed
<1>8. ASSUME UNCHANGED record PROVE record' \in Records /\ RecordInv'
  BY <1>4, <1>8 DEF TypeInv, RecordInv, Undisturbed
<1>9. CASE Confirm(p)
  <2>1. Flushed(e, {"queued", "approved"}) /\ Step(p, Delivered(f)) /\ UNCHANGED record /\ There(e)
    BY <1>1, <1>2, <1>9 DEF Confirm, Target, GoodFlush
  <2> QED BY <1>2, <1>4, <1>6, <1>7, <1>8, <2>1, FlushStep
<1>10. CASE RecordResult(p)
  <2>1. f.pc = "record" /\ (Succeeded(f.outcome) => There(e)) BY <1>1, <1>2, <1>10 DEF RecordResult, GoodFlush
  <2>2. CASE Succeeded(f.outcome) /\ Kind(e) = "state" /\ RecordState(e, f) /\ Step(p, Delivered(f))
    <3>1. entry' \in [Entry -> Rows] /\ EntryInv' BY <1>7, <2>1, <2>2 DEF RecordState, RecordPush
    <3>2. record' \in Records /\ RecordInv'
      <4>1. CASE f.outcome = "delivered"
        <5>1. record' = [disposition |-> Disposition(e), lease |-> f.newLease]
          BY <2>2, <4>1 DEF RecordState, RecordPush
        <5>2. /\ Disposition(e) # "active"
              /\ Undisturbed => issue.state = Disposition(e)
          BY <1>1, <1>2, <2>1, <2>2, <4>1 DEF GoodFlush, WroteState
        <5>3. Disposition(e) \in Dispositions /\ f.newLease \in Nat
          <6>1. candidate[e] \in Candidate BY <1>3, <2>2 DEF TypeInv, Kind, Unborn
          <6> QED BY <1>2, <6>1, OutboxAssumption DEF Disposition, Flushes
        <5> QED BY <1>4, <5>1, <5>2, <5>3 DEF RecordInv, Undisturbed, Records
      <4>2. CASE f.outcome # "delivered" BY <1>8, <2>2, <4>2 DEF RecordState
      <4> QED BY <4>1, <4>2
    <3> QED BY <1>2, <1>4, <1>6, <2>2, <3>1, <3>2, FlushStep
  <2>3. CASE /\ Succeeded(f.outcome) /\ Kind(e) = "comment" /\ Flushed(e, {"approved"})
             /\ Step(p, Delivered(f)) /\ UNCHANGED record
    BY <1>2, <1>4, <1>6, <1>7, <1>8, <2>1, <2>3, FlushStep
  <2>4. CASE Succeeded(f.outcome) /\ Step(p, [f EXCEPT !.pc = "confirm"]) /\ UNCHANGED <<entry, record>>
    <3>1. PICK g : g = [f EXCEPT !.pc = "confirm"] OBVIOUS
    <3>2. /\ g \in Flushes /\ g.pc = "confirm" /\ g.todo = f.todo /\ g.group = f.group
          /\ g.selected = f.selected
      BY <1>2, <3>1 DEF Flushes
    <3>3. Target(g) = e BY <1>1, <3>2 DEF Target
    <3>4. GoodFlush(g) BY <1>2, <2>1, <2>4, <3>2, <3>3 DEF GoodFlush, Delivering, WritesState, WroteState
    <3>5. entry' \in [Entry -> Rows] /\ EntryInv'
      BY <1>4, <2>4 DEF TypeInv, EntryInv, There, Kind, Disposition
    <3> QED BY <1>2, <1>4, <1>8, <2>4, <3>1, <3>2, <3>4, <3>5, FlushStep
  <2>5. CASE (FailOutbox(e) \/ WithholdOutbox(e, TRUE)) /\ Step(p, Delivered(f)) /\ UNCHANGED record
    <3>1. entry[e].attempted \/ TRUE \in BOOLEAN OBVIOUS
    <3>2. PICK row \in Rows : row.state \in {"queued", "withheld"} /\ Update(e, row)
      <4>1. CASE FailOutbox(e) BY <4>1, RowIn DEF FailOutbox, Row
      <4>2. CASE WithholdOutbox(e, TRUE)
        <5>1. PICK row : row = Row("withheld", entry[e].attempted \/ TRUE, TRUE) OBVIOUS
        <5>2. row \in Rows /\ row.state = "withheld" BY <3>1, <5>1, RowIn DEF Row
        <5> QED BY <4>2, <5>1, <5>2 DEF WithholdOutbox
      <4> QED BY <2>5, <4>1, <4>2
    <3>3. entry' \in [Entry -> Rows] /\ EntryInv' BY <1>3, <1>4, <3>2, EntryStep
    <3> QED BY <1>2, <1>4, <1>6, <1>8, <2>5, <3>3, FlushStep
  <2> QED BY <1>1, <1>10, <2>2, <2>3, <2>4, <2>5 DEF RecordResult, Target
<1> QED BY <1>9, <1>10

(* An edit of somebody else disturbs what the push record claims, and nothing *)
(* else.                                                                     *)
LEMMA EditKeeps ==
  ASSUME OutboxInv, Edit
  PROVE  OutboxInv'
<1> USE DEF OutboxInv
<1>1. UNCHANGED <<candidate, entry, record, posted, flush, approvals>> BY DEF Edit
<1>2. PICK s \in Dispositions :
        /\ issue' = [state |-> s, version |-> issue.version + 1]
        /\ history' = [history EXCEPT !.reached = @ \cup {s}, !.foreign = TRUE]
  BY DEF Edit
<1>3. /\ history'.reached = history.reached \cup {s} /\ history'.foreign
      /\ history'.overlap = history.overlap
  BY <1>2 DEF TypeInv
<1>4. TypeInv'
  <2>1. issue' \in [state : Dispositions, version : Nat] BY <1>2 DEF TypeInv
  <2>2. history' \in [reached : SUBSET Dispositions, overlap : BOOLEAN, foreign : BOOLEAN]
    BY <1>2 DEF TypeInv
  <2> QED BY <1>1, <2>1, <2>2 DEF TypeInv
<1>5. \A d : There(d) => There(d)' BY <1>1, <1>3 DEF There, Kind, Disposition
<1>6. EntryInv' BY <1>1, <1>5 DEF EntryInv
<1>7. AloneInv' BY <1>1, <1>3 DEF AloneInv
<1>8. RecordInv' BY <1>1, <1>2, <1>3 DEF RecordInv, Undisturbed
<1>9. ASSUME NEW q \in Process PROVE GoodFlush(flush[q])'
  <2>1. PICK h : h = flush[q] OBVIOUS
  <2>2. flush'[q] = h /\ GoodFlush(h) BY <1>1, <2>1 DEF FlushInv
  <2>3. There(Target(h)) => There(Target(h))' BY <1>5 DEF Target
  <2>4. GoodFlush(h)'
    BY <1>1, <1>3, <2>2, <2>3
       DEF GoodFlush, Delivering, WritesState, WroteState, Undisturbed, Target, Kind, Disposition
  <2> QED BY <2>2, <2>4
<1> QED BY <1>4, <1>6, <1>7, <1>8, <1>9 DEF FlushInv

(* Every step keeps the invariant, those of any number of flushes included.  *)
LEMMA NextInv == OutboxInv /\ [Next]_vars => OutboxInv'
<1> SUFFICES ASSUME OutboxInv, [Next]_vars PROVE OutboxInv' OBVIOUS
<1>1. CASE UNCHANGED vars
  BY <1>1 DEF vars, OutboxInv, TypeInv, EntryInv, AloneInv, RecordInv, FlushInv, GoodFlush, There, Undisturbed,
     Kind, Disposition, Target, Delivering, WritesState, WroteState
<1> QED BY <1>1, PeopleKeep, StartKeeps, SelectionKeeps, ObserveKeeps, WriteKeeps, ResultKeeps, EditKeeps DEF Next

(* The invariant holds of every state the outbox reaches.                    *)
THEOREM InvariantHolds == Spec => []OutboxInv
BY InitInv, NextInv, PTL DEF Spec

(* Nothing is posted twice for one entry unless two flushes overlapped: a lost *)
(* answer or a flush that died is made good by the marker (findIssue,         *)
(* findComment).                                                             *)
THEOREM DeliveredOnce == Spec => []PostedOnce
<1>1. OutboxInv => PostedOnce BY DEF OutboxInv, TypeInv, AloneInv, PostedOnce
<1> QED BY <1>1, InvariantHolds, PTL

(* Nothing is posted, and no write is under way, for an entry that no person  *)
(* has approved (OutboxApprove).                                             *)
THEOREM HumanBoundary == Spec => []OnlyApproved
<1>1. OutboxInv => OnlyApproved
  <2> SUFFICES ASSUME OutboxInv PROVE OnlyApproved OBVIOUS
  <2>1. \A e \in Entry : posted[e] > 0 => e \in approvals BY DEF OutboxInv, EntryInv
  <2>2. ASSUME NEW p \in Process, flush[p].pc = "write" PROVE Min(flush[p].selected) \in approvals
    <3>1. flush[p] \in Flushes /\ GoodFlush(flush[p]) /\ flush[p].selected # {}
      BY <2>2 DEF OutboxInv, TypeInv, FlushInv, GoodFlush, Delivering
    <3> QED BY <3>1, TargetIn DEF OutboxInv, Target
  <2> QED BY <2>1, <2>2 DEF OnlyApproved
<1> QED BY <1>1, InvariantHolds, PTL

(* What is recorded as flushed is at the provider, and the issue is where the *)
(* push record says while nobody interferes (recordResult,                    *)
(* recordTrackerStatePush).                                                  *)
THEOREM RecordsAreTrue == Spec => []RecordIsTrue
<1>1. OutboxInv => RecordIsTrue
  BY DEF OutboxInv, EntryInv, RecordInv, RecordIsTrue, Undisturbed, There
<1> QED BY <1>1, InvariantHolds, PTL
=============================================================================
