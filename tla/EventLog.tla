------------------------------ MODULE EventLog ------------------------------
(***************************************************************************)
(* The store's one write path: Store.Commit, identity minting, the         *)
(* append-only event log and the projection folded from it, shared by      *)
(* several processes that each hold their own handle on the database.      *)
(*                                                                         *)
(* SQLite gives a transaction a snapshot at its first read, one writer at  *)
(* a time, and refuses the first write of a transaction whose snapshot is  *)
(* no longer the latest.  Nothing of a transaction is visible before it    *)
(* commits.  An event id is minted in Go before the INSERT takes the write *)
(* lock, so another process may commit in between.                         *)
(*                                                                         *)
(* The fold is kept free: the projection is the sequence of events folded  *)
(* into it with the derivation version each was folded under.  Two         *)
(* projections equal here are equal under every applyEvent.                *)
(***************************************************************************)
EXTENDS Integers, Sequences

CONSTANTS
  Process,     \* running wip processes
  NoProcess,   \* nobody holds the write lock
  Version,     \* projectionVersions of the binaries in use
  Random,      \* size of an id's random half
  MaxClock,    \* bound: milliseconds
  MaxEvents,   \* bound: events in the log
  MaxDrafts    \* bound: events of one command

ASSUME LogAssumption ==
  /\ NoProcess \notin Process
  /\ Version \subseteq Nat /\ Version # {}
  /\ Random \in Nat \ {0}
  /\ MaxClock \in Nat /\ MaxEvents \in Nat /\ MaxDrafts \in Nat

VARIABLES
  clock,      \* the wall clock; it may step back
  log,        \* events: [id, corr, size], size the events of the command
  projected,  \* the projection: [id, version] per event folded
  recorded,   \* store_meta.projection_version
  writer,     \* holder of the database's write lock
  pc,         \* where each process is
  version,    \* projectionVersion of the process's binary
  floor,      \* Store.floor
  lastMs,     \* idSource.lastMS
  lastRand,   \* idSource.lastRand
  snapshot,   \* length of the log at the transaction's first read, or NoRead
  minted,     \* the id of the event being stamped
  left,       \* drafts of the command not yet inserted
  staged,     \* events inserted by the open transaction
  seen        \* the events Rebuild read before its transaction

handleVars == <<version, floor, lastMs, lastRand>>
txVars == <<snapshot, minted, left, staged, seen>>
storeVars == <<log, projected, recorded>>
vars == <<clock, storeVars, writer, pc, handleVars, txVars>>

NoRead == -1
Inside == {"tx", "stamped", "written"}   \* a Commit transaction is open

MaxId(s) == IF s = <<>> THEN 0 ELSE s[Len(s)].id

Init ==
  /\ clock = 1
  /\ log = <<>>
  /\ projected = <<>>
  /\ recorded \in Version
  /\ writer = NoProcess
  /\ pc = [p \in Process |-> "closed"]
  /\ version \in [Process -> Version]
  /\ floor = [p \in Process |-> 0]
  /\ lastMs = [p \in Process |-> 0]
  /\ lastRand = [p \in Process |-> 0]
  /\ snapshot = [p \in Process |-> NoRead]
  /\ minted = [p \in Process |-> 0]
  /\ left = [p \in Process |-> 0]
  /\ staged = [p \in Process |-> <<>>]
  /\ seen = [p \in Process |-> <<>>]

----------------------------------------------------------------------------
(* Opening a handle. *)

\* openAt: the floor is read once; a projection of an older derivation is
\* rebuilt, one of a newer derivation refuses the open.
Open(p) ==
  /\ pc[p] = "closed"
  /\ recorded <= version[p]
  /\ floor' = [floor EXCEPT ![p] = MaxId(log)]
  /\ lastMs' = [lastMs EXCEPT ![p] = 0]
  /\ lastRand' = [lastRand EXCEPT ![p] = 0]
  /\ pc' = [pc EXCEPT ![p] = IF recorded = version[p] THEN "idle" ELSE "outdated"]
  /\ UNCHANGED <<clock, storeVars, writer, version, txVars>>

\* Rebuild reads the events before it begins its transaction.
ReadEvents(p) ==
  /\ pc[p] = "outdated"
  /\ seen' = [seen EXCEPT ![p] = log]
  /\ pc' = [pc EXCEPT ![p] = "refold"]
  /\ UNCHANGED <<clock, storeVars, writer, handleVars, snapshot, minted, left, staged>>

Folded(events, v) == [i \in 1 .. Len(events) |-> [id |-> events[i].id, version |-> v]]

\* The derivation forgets the last event it read.
MutRefold(p) ==
  /\ pc[p] = "refold"
  /\ writer = NoProcess
  /\ projected' = Folded(SubSeq(seen[p], 1, Len(seen[p]) - 1), version[p])
  /\ pc' = [pc EXCEPT ![p] = "refolded"]
  /\ UNCHANGED <<clock, log, recorded, writer, handleVars, txVars>>

\* The one transaction of Rebuild: clear, fold what was read.  Its first
\* statement writes, so it has no older snapshot to conflict with.
Refold(p) ==
  /\ pc[p] = "refold"
  /\ writer = NoProcess
  /\ projected' = Folded(seen[p], version[p])
  /\ pc' = [pc EXCEPT ![p] = "refolded"]
  /\ UNCHANGED <<clock, log, recorded, writer, handleVars, txVars>>

\* setMeta, a statement of its own after Rebuild has committed.
RecordVersion(p) ==
  /\ pc[p] = "refolded"
  /\ writer = NoProcess
  /\ recorded' = version[p]
  /\ pc' = [pc EXCEPT ![p] = "idle"]
  /\ UNCHANGED <<clock, log, projected, writer, handleVars, txVars>>

----------------------------------------------------------------------------
(* Store.Commit. *)

\* BeginTx and decide.  A decide function that reads, and a role actor's check,
\* fix the snapshot; a command that only writes has none until its INSERT.
Begin(p) ==
  /\ pc[p] = "idle"
  /\ \E n \in 1 .. MaxDrafts, reads \in BOOLEAN :
       /\ left' = [left EXCEPT ![p] = n]
       /\ snapshot' = [snapshot EXCEPT ![p] = IF reads THEN Len(log) ELSE NoRead]
  /\ pc' = [pc EXCEPT ![p] = "tx"]
  /\ UNCHANGED <<clock, storeVars, writer, handleVars, minted, staged, seen>>

\* idSource.next: a fresh random half in a new millisecond, the last one plus
\* one, wrapping, in the same or an earlier one.
NextId(p, ms, rand) ==
  \/ clock > lastMs[p] /\ ms = clock /\ rand \in 0 .. Random - 1
  \/ clock <= lastMs[p] /\ ms = lastMs[p] /\ rand = (lastRand[p] + 1) % Random

\* One round of NewID inside stamp: an id above the floor is taken, any other
\* is dropped and the loop sleeps.
Mint(p) ==
  /\ pc[p] \in {"tx", "written"} /\ left[p] > 0
  /\ \E ms \in 0 .. MaxClock, rand \in 0 .. Random - 1 :
       LET id == ms * Random + rand IN
       /\ NextId(p, ms, rand)
       /\ lastMs' = [lastMs EXCEPT ![p] = ms]
       /\ lastRand' = [lastRand EXCEPT ![p] = rand]
       /\ IF id > floor[p]
          THEN /\ floor' = [floor EXCEPT ![p] = id]
               /\ minted' = [minted EXCEPT ![p] = id]
               /\ pc' = [pc EXCEPT ![p] = "stamped"]
          ELSE UNCHANGED <<floor, minted, pc>>
  /\ UNCHANGED <<clock, storeVars, writer, version, snapshot, left, staged, seen>>

\* A transaction whose snapshot is old writes all the same.
MutCanWrite(p) == writer \in {p, NoProcess}

\* The upgrade to the write lock: free or already held, and no commit since the
\* snapshot.
CanWrite(p) ==
  \/ writer = p
  \/ writer = NoProcess /\ (snapshot[p] = NoRead \/ snapshot[p] = Len(log))

\* The trigger events_monotonic is gone.
MutInsert(p) ==
  /\ pc[p] = "stamped"
  /\ CanWrite(p)
  /\ Len(log) + Len(staged[p]) < MaxEvents
  /\ writer' = p
  /\ snapshot' = [snapshot EXCEPT ![p] = IF @ = NoRead THEN Len(log) ELSE @]
  /\ staged' = [staged EXCEPT ![p] = Append(@,
       [id |-> minted[p], corr |-> IF @ = <<>> THEN minted[p] ELSE @[1].id,
        size |-> Len(@) + left[p]])]
  /\ left' = [left EXCEPT ![p] = @ - 1]
  /\ pc' = [pc EXCEPT ![p] = "written"]
  /\ UNCHANGED <<clock, storeVars, handleVars, minted, seen>>

\* appendEvent under the trigger events_monotonic, and applyEvent, which did not
\* refuse.
Insert(p) ==
  /\ pc[p] = "stamped"
  /\ CanWrite(p)
  /\ minted[p] > MaxId(log \o staged[p])
  /\ Len(log) + Len(staged[p]) < MaxEvents
  /\ writer' = p
  /\ snapshot' = [snapshot EXCEPT ![p] = IF @ = NoRead THEN Len(log) ELSE @]
  /\ staged' = [staged EXCEPT ![p] = Append(@,
       [id |-> minted[p], corr |-> IF @ = <<>> THEN minted[p] ELSE @[1].id,
        size |-> Len(@) + left[p]])]
  /\ left' = [left EXCEPT ![p] = @ - 1]
  /\ pc' = [pc EXCEPT ![p] = "written"]
  /\ UNCHANGED <<clock, storeVars, handleVars, minted, seen>>

\* The transaction a process leaves behind.
CloseTx(p) ==
  /\ writer' = IF writer = p THEN NoProcess ELSE writer
  /\ snapshot' = [snapshot EXCEPT ![p] = NoRead]
  /\ minted' = [minted EXCEPT ![p] = 0]
  /\ left' = [left EXCEPT ![p] = 0]
  /\ staged' = [staged EXCEPT ![p] = <<>>]
  /\ seen' = [seen EXCEPT ![p] = <<>>]

\* tx.Commit: the events and what was folded from them become visible together.
TxCommit(p) ==
  /\ pc[p] = "written" /\ left[p] = 0
  /\ log' = log \o staged[p]
  /\ projected' = projected \o Folded(staged[p], version[p])
  /\ CloseTx(p)
  /\ pc' = [pc EXCEPT ![p] = "idle"]
  /\ UNCHANGED <<clock, recorded, handleVars>>

\* Any error of decide, stamp, appendEvent or applyEvent, SQLITE_BUSY included:
\* the deferred Rollback.
Rollback(p) ==
  /\ pc[p] \in Inside
  /\ CloseTx(p)
  /\ pc' = [pc EXCEPT ![p] = "idle"]
  /\ UNCHANGED <<clock, storeVars, handleVars>>

\* The process ends or dies anywhere; SQLite rolls its transaction back.  The
\* next process in its place may be another binary.
Exit(p) ==
  /\ pc[p] # "closed"
  /\ CloseTx(p)
  /\ pc' = [pc EXCEPT ![p] = "closed"]
  /\ \E v \in Version : version' = [version EXCEPT ![p] = v]
  /\ floor' = [floor EXCEPT ![p] = 0]
  /\ lastMs' = [lastMs EXCEPT ![p] = 0]
  /\ lastRand' = [lastRand EXCEPT ![p] = 0]
  /\ UNCHANGED <<clock, storeVars>>

Tick ==
  /\ clock' \in 1 .. MaxClock
  /\ UNCHANGED <<storeVars, writer, pc, handleVars, txVars>>

Next ==
  \/ Tick
  \/ \E p \in Process :
       \/ Open(p) \/ ReadEvents(p) \/ Refold(p) \/ RecordVersion(p)
       \/ Begin(p) \/ Mint(p) \/ Insert(p) \/ TxCommit(p)
       \/ Rollback(p) \/ Exit(p)

Spec == Init /\ [][Next]_vars

----------------------------------------------------------------------------
(* Properties. *)

Event == [id : Nat, corr : Nat, size : Nat]

\* The state is typed; in particular a command never stamps more events than it
\* has drafts.
TypeOK ==
  /\ clock \in Nat
  /\ log \in Seq(Event)
  /\ projected \in Seq([id : Nat, version : Version])
  /\ recorded \in Version
  /\ writer \in Process \cup {NoProcess}
  /\ pc \in [Process -> {"closed", "outdated", "refold", "refolded", "idle"} \cup Inside]
  /\ version \in [Process -> Version]
  /\ floor \in [Process -> Nat]
  /\ lastMs \in [Process -> Nat]
  /\ lastRand \in [Process -> Nat]
  /\ snapshot \in [Process -> Nat \cup {NoRead}]
  /\ minted \in [Process -> Nat]
  /\ left \in [Process -> Nat]
  /\ staged \in [Process -> Seq(Event)]
  /\ seen \in [Process -> Seq(Event)]

Ascends(s) == \A i, j \in 1 .. Len(s) : i < j => s[i].id < s[j].id

\* The id is the total order: whatever the clocks and random halves of the
\* processes' handles did, every id in the log is above all ids before it
\* (NewID's floor is read once per open; events_monotonic closes the gap).
LogAscends == Ascends(log)

\* A command that has written holds the lock, and decided on the log as it
\* still stands: no event slipped in between what decide read and what its
\* events will be folded onto.
DecidedOnTheLatest ==
  \A p \in Process :
    staged[p] # <<>> => writer = p /\ snapshot[p] = Len(log)

SameEvents ==
  /\ Len(projected) = Len(log)
  /\ \A i \in 1 .. Len(log) : projected[i].id = log[i].id

\* A step that folds what it appends, or refolds the whole log, keeps the
\* projection a fold of the log; the only step that can lose an event from it
\* is a Rebuild whose read of the log another commit has overtaken.
OnlyStaleRefoldLoses ==
  [][SameEvents /\ ~(\E p \in Process : Refold(p) /\ seen[p] # log) => SameEvents']_vars

\* doc.go: every durable table is maintained in the same transaction as the
\* append and rebuildable from the log alone, so the projection is always the
\* fold of the log.  Rebuild reads the log before its transaction begins, so
\* this does not hold.
ProjectionFollowsLog == SameEvents
=============================================================================
