--------------------------- MODULE EventLogProofs ---------------------------
(***************************************************************************)
(* The order of the log and the isolation of a command, for any number of  *)
(* processes, any clock and any width of the random half.                  *)
(***************************************************************************)
EXTENDS EventLog, SequenceTheorems, TLAPS

LEMMA FoldedType ==
  ASSUME NEW s \in Seq(Event), NEW v \in Version
  PROVE  /\ Folded(s, v) \in Seq([id : Nat, version : Version])
         /\ Len(Folded(s, v)) = Len(s)
         /\ \A i \in 1 .. Len(s) : Folded(s, v)[i].id = s[i].id
<1>0. Len(s) \in Nat /\ \A i \in 1 .. Len(s) : s[i] \in Event OBVIOUS
<1>1. Len(s) \in Nat /\ \A i \in 1 .. Len(s) : s[i].id \in Nat BY <1>0 DEF Event
<1>2. \A i \in 1 .. Len(s) : [id |-> s[i].id, version |-> v] \in [id : Nat, version : Version]
  BY <1>1
<1>3. Folded(s, v) \in [1 .. Len(s) -> [id : Nat, version : Version]]
  BY <1>2 DEF Folded
<1>4. Folded(s, v) \in Seq([id : Nat, version : Version])
  <2> DEFINE R == [id : Nat, version : Version]
             f == Folded(s, v)
             n == Len(s)
  <2>1. n \in Nat /\ f \in [1 .. n -> R] BY <1>1, <1>3
  <2>2. Seq(R) = UNION {[1 .. k -> R] : k \in Nat} BY SeqDef
  <2> HIDE DEF R, f, n
  <2>3. f \in Seq(R) BY <2>1, <2>2
  <2> QED BY <2>3 DEF f, R
<1>5. Len(Folded(s, v)) = Len(s) BY <1>1 DEF Folded
<1>6. \A i \in 1 .. Len(s) : Folded(s, v)[i].id = s[i].id BY DEF Folded
<1> QED BY <1>4, <1>5, <1>6

LEMMA MaxIdType ==
  ASSUME NEW s \in Seq(Event) PROVE MaxId(s) \in Nat
<1>1. s # <<>> => s[Len(s)] \in Event OBVIOUS
<1> QED BY <1>1 DEF MaxId, Event

\* Closing a transaction keeps the types of what it clears.
LEMMA CloseTxType ==
  ASSUME TypeOK, NEW p \in Process, CloseTx(p)
  PROVE  /\ writer' \in Process \cup {NoProcess}
         /\ snapshot' \in [Process -> Nat \cup {NoRead}]
         /\ minted' \in [Process -> Nat]
         /\ left' \in [Process -> Nat]
         /\ staged' \in [Process -> Seq(Event)]
         /\ seen' \in [Process -> Seq(Event)]
<1>1. <<>> \in Seq(Event) OBVIOUS
<1> QED BY <1>1 DEF CloseTx, TypeOK, NoRead

LEMMA NextIdType ==
  ASSUME NEW ms \in 0 .. MaxClock, NEW rand \in 0 .. Random - 1
  PROVE  ms \in Nat /\ rand \in Nat /\ ms * Random + rand \in Nat
BY LogAssumption

\* What Insert adds to the staged events.
NewEvent(p) ==
  [id |-> minted[p],
   corr |-> IF staged[p] = <<>> THEN minted[p] ELSE staged[p][1].id,
   size |-> Len(staged[p]) + left[p]]

LEMMA InsertStages ==
  ASSUME TypeOK, NEW p \in Process, Insert(p)
  PROVE  /\ NewEvent(p) \in Event
         /\ staged' = [staged EXCEPT ![p] = Append(staged[p], NewEvent(p))]
<1>1. staged[p] \in Seq(Event) /\ minted[p] \in Nat /\ left[p] \in Nat BY DEF TypeOK
<1>2. staged[p] # <<>> => staged[p][1] \in Event BY <1>1
<1>3. staged[p] # <<>> => staged[p][1].id \in Nat BY <1>2 DEF Event
<1>4. Len(staged[p]) + left[p] \in Nat BY <1>1
<1>5. NewEvent(p) \in Event BY <1>1, <1>3, <1>4 DEF NewEvent, Event
<1>6. staged' = [staged EXCEPT ![p] = Append(staged[p], NewEvent(p))]
  BY DEF Insert, NewEvent, TypeOK
<1> QED BY <1>5, <1>6

\* A process inserts only while it has a draft left.
DraftLeft == \A p \in Process : pc[p] = "stamped" => left[p] > 0

LEMMA NextType ==
  ASSUME TypeOK, DraftLeft, [Next]_vars PROVE TypeOK' /\ DraftLeft'
<1> USE LogAssumption
<1>1. CASE Tick
  <2>1. clock' \in Nat BY <1>1 DEF Tick
  <2>2. UNCHANGED <<log, projected, recorded, writer, pc, version, floor, lastMs, lastRand,
                    snapshot, minted, left, staged, seen>>
    BY <1>1 DEF Tick, storeVars, handleVars, txVars
  <2>3. DraftLeft' BY <2>2, Zenon DEF DraftLeft
  <2> QED BY <2>1, <2>2, <2>3, Zenon DEF TypeOK
<1>2. ASSUME NEW p \in Process, Open(p) PROVE TypeOK' /\ DraftLeft'
  <2>1. MaxId(log) \in Nat BY MaxIdType DEF TypeOK
  <2> QED BY <1>2, <2>1 DEF Open, TypeOK, DraftLeft, storeVars, txVars
<1>3. ASSUME NEW p \in Process, ReadEvents(p) PROVE TypeOK' /\ DraftLeft'
  BY <1>3 DEF ReadEvents, TypeOK, DraftLeft, storeVars, handleVars
<1>4. ASSUME NEW p \in Process, Refold(p) PROVE TypeOK' /\ DraftLeft'
  <2>1. Folded(seen[p], version[p]) \in Seq([id : Nat, version : Version])
    BY FoldedType DEF TypeOK
  <2> QED BY <1>4, <2>1 DEF Refold, TypeOK, DraftLeft, handleVars, txVars
<1>5. ASSUME NEW p \in Process, RecordVersion(p) PROVE TypeOK' /\ DraftLeft'
  BY <1>5 DEF RecordVersion, TypeOK, DraftLeft, handleVars, txVars
<1>6. ASSUME NEW p \in Process, Begin(p) PROVE TypeOK' /\ DraftLeft'
  <2>1. PICK n \in 1 .. MaxDrafts, reads \in BOOLEAN :
          /\ left' = [left EXCEPT ![p] = n]
          /\ snapshot' = [snapshot EXCEPT ![p] = IF reads THEN Len(log) ELSE NoRead]
    BY <1>6 DEF Begin
  <2>2. n \in Nat /\ Len(log) \in Nat BY DEF TypeOK
  <2>3. left' \in [Process -> Nat] /\ snapshot' \in [Process -> Nat \cup {NoRead}]
    BY <2>1, <2>2 DEF TypeOK
  <2> QED BY <1>6, <2>1, <2>2, <2>3 DEF Begin, TypeOK, DraftLeft, Inside, storeVars, handleVars
<1>7. ASSUME NEW p \in Process, Mint(p) PROVE TypeOK' /\ DraftLeft'
  <2>1. PICK ms \in 0 .. MaxClock, rand \in 0 .. Random - 1 :
          /\ lastMs' = [lastMs EXCEPT ![p] = ms]
          /\ lastRand' = [lastRand EXCEPT ![p] = rand]
          /\ \/ /\ floor' = [floor EXCEPT ![p] = ms * Random + rand]
                /\ minted' = [minted EXCEPT ![p] = ms * Random + rand]
                /\ pc' = [pc EXCEPT ![p] = "stamped"]
             \/ UNCHANGED <<floor, minted, pc>>
    BY <1>7 DEF Mint
  <2>2. ms \in Nat /\ rand \in Nat /\ ms * Random + rand \in Nat BY NextIdType
  <2> DEFINE id == ms * Random + rand
  <2> HIDE DEF id
  <2>3. /\ floor' \in [Process -> Nat] /\ minted' \in [Process -> Nat]
        /\ lastMs' \in [Process -> Nat] /\ lastRand' \in [Process -> Nat]
    <3>1. id \in Nat BY <2>2 DEF id
    <3>2. \/ floor' = [floor EXCEPT ![p] = id] /\ minted' = [minted EXCEPT ![p] = id]
          \/ UNCHANGED <<floor, minted>>
      BY <2>1 DEF id
    <3>3. floor' \in [Process -> Nat] BY <3>1, <3>2 DEF TypeOK
    <3>4. minted' \in [Process -> Nat] BY <3>1, <3>2 DEF TypeOK
    <3>5. lastMs' \in [Process -> Nat] BY <2>1, <2>2 DEF TypeOK
    <3>6. lastRand' \in [Process -> Nat] BY <2>1, <2>2 DEF TypeOK
    <3> QED BY <3>3, <3>4, <3>5, <3>6
  <2>4. pc' \in [Process -> {"closed", "outdated", "refold", "refolded", "idle"} \cup Inside]
    BY <2>1 DEF TypeOK, Inside
  <2>5. DraftLeft' BY <1>7, <2>1 DEF DraftLeft, Mint, TypeOK
  <2> QED BY <1>7, <2>3, <2>4, <2>5 DEF Mint, TypeOK, storeVars
<1>8. ASSUME NEW p \in Process, Insert(p) PROVE TypeOK' /\ DraftLeft'
  <2>0. Append(staged[p], NewEvent(p)) \in Seq(Event)
    BY <1>8, InsertStages, AppendProperties DEF TypeOK
  <2>1. staged' \in [Process -> Seq(Event)]
    <3>1. staged' = [staged EXCEPT ![p] = Append(staged[p], NewEvent(p))]
      BY <1>8, InsertStages
    <3>2. staged \in [Process -> Seq(Event)] BY DEF TypeOK
    <3> QED BY <2>0, <3>1, <3>2, Zenon
  <2>2. left[p] \in Nat /\ left[p] > 0 BY <1>8 DEF DraftLeft, Insert, TypeOK
  <2>3. left' \in [Process -> Nat]
    <3>1. left' = [left EXCEPT ![p] = left[p] - 1] BY <1>8 DEF Insert
    <3>2. left[p] - 1 \in Nat BY <2>2
    <3>3. left \in [Process -> Nat] BY DEF TypeOK
    <3> QED BY <3>1, <3>2, <3>3
  <2>4. snapshot' \in [Process -> Nat \cup {NoRead}]
    <3> DEFINE first == IF snapshot[p] = NoRead THEN Len(log) ELSE snapshot[p]
    <3>1. snapshot' = [snapshot EXCEPT ![p] = first] BY <1>8 DEF Insert
    <3>2. snapshot \in [Process -> Nat \cup {NoRead}] /\ Len(log) \in Nat BY DEF TypeOK
    <3>3. first \in Nat \cup {NoRead} BY <3>2
    <3> HIDE DEF first
    <3> QED BY <3>1, <3>2, <3>3, Zenon
  <2>5. pc' \in [Process -> {"closed", "outdated", "refold", "refolded", "idle"} \cup Inside]
    BY <1>8 DEF Insert, TypeOK, Inside
  <2>6. DraftLeft' BY <1>8 DEF Insert, DraftLeft, TypeOK
  <2> QED BY <1>8, <2>1, <2>3, <2>4, <2>5, <2>6 DEF Insert, TypeOK, storeVars, handleVars
<1>9. ASSUME NEW p \in Process, TxCommit(p) PROVE TypeOK' /\ DraftLeft'
  <2>1. CloseTx(p) BY <1>9 DEF TxCommit
  <2>2. log' \in Seq(Event) BY <1>9 DEF TxCommit, TypeOK
  <2>3. Folded(staged[p], version[p]) \in Seq([id : Nat, version : Version])
    BY FoldedType DEF TypeOK
  <2>4. projected' \in Seq([id : Nat, version : Version])
    BY <1>9, <2>3 DEF TxCommit, TypeOK
  <2>5. DraftLeft' BY <1>9 DEF TxCommit, CloseTx, DraftLeft, TypeOK
  <2> QED BY <1>9, <2>1, <2>2, <2>4, <2>5, CloseTxType DEF TxCommit, TypeOK, handleVars
<1>10. ASSUME NEW p \in Process, Rollback(p) PROVE TypeOK' /\ DraftLeft'
  <2>1. CloseTx(p) BY <1>10 DEF Rollback
  <2>2. DraftLeft' BY <1>10 DEF Rollback, CloseTx, DraftLeft, TypeOK
  <2> QED BY <1>10, <2>1, <2>2, CloseTxType DEF Rollback, TypeOK, storeVars, handleVars
<1>11. ASSUME NEW p \in Process, Exit(p) PROVE TypeOK' /\ DraftLeft'
  <2>1. CloseTx(p) BY <1>11 DEF Exit
  <2>2. DraftLeft' BY <1>11 DEF Exit, CloseTx, DraftLeft, TypeOK
  <2>3. PICK v \in Version : version' = [version EXCEPT ![p] = v] BY <1>11 DEF Exit
  <2>4. version' \in [Process -> Version] BY <2>3 DEF TypeOK
  <2>5. /\ floor' \in [Process -> Nat] /\ lastMs' \in [Process -> Nat]
        /\ lastRand' \in [Process -> Nat]
    BY <1>11 DEF Exit, TypeOK
  <2>6. UNCHANGED <<clock, storeVars>> /\ pc' = [pc EXCEPT ![p] = "closed"] BY <1>11 DEF Exit
  <2> QED BY <2>1, <2>2, <2>4, <2>5, <2>6, CloseTxType DEF TypeOK, storeVars
<1>12. CASE UNCHANGED vars
  BY <1>12 DEF vars, TypeOK, DraftLeft, storeVars, handleVars, txVars
<1> QED BY <1>1, <1>2, <1>3, <1>4, <1>5, <1>6, <1>7, <1>8, <1>9, <1>10, <1>11, <1>12 DEF Next

LEMMA InitType == Init => TypeOK /\ DraftLeft
<1>1. <<>> \in Seq(Event) /\ <<>> \in Seq([id : Nat, version : Version]) OBVIOUS
<1> QED BY <1>1 DEF Init, TypeOK, DraftLeft, NoRead

\* The state is typed and no command stamps more events than it has drafts
\* (Commit's loop over drafts).
THEOREM TypeCorrect == Spec => []TypeOK
BY InitType, NextType, PTL DEF Spec

----------------------------------------------------------------------------
(* The order of the log. *)

LEMMA AscendsAppend ==
  ASSUME NEW s \in Seq(Event), NEW e \in Event, Ascends(s), e.id > MaxId(s)
  PROVE  Ascends(Append(s, e))
<1> DEFINE t == Append(s, e)
<1>1. /\ Len(t) = Len(s) + 1 /\ Len(s) \in Nat
      /\ \A i \in 1 .. Len(s) : t[i] = s[i]
      /\ t[Len(s) + 1] = e
  BY AppendProperties
<1>2. \A i \in 1 .. Len(s) : s[i] \in Event OBVIOUS
<1>3. \A i \in 1 .. Len(s) : s[i].id \in Nat BY <1>2 DEF Event
<1>4. \A i \in 1 .. Len(s) : s[i].id <= MaxId(s)
  <2> SUFFICES ASSUME NEW i \in 1 .. Len(s) PROVE s[i].id <= MaxId(s) OBVIOUS
  <2>1. s # <<>> /\ MaxId(s) = s[Len(s)].id /\ Len(s) \in 1 .. Len(s)
    BY <1>1 DEF MaxId
  <2>2. s[i].id \in Nat /\ s[Len(s)].id \in Nat BY <2>1, <1>3
  <2>3. CASE i = Len(s) BY <2>1, <2>2, <2>3
  <2>4. CASE i < Len(s)
    <3>1. s[i].id < s[Len(s)].id BY <2>1, <2>4 DEF Ascends
    <3> QED BY <2>1, <2>2, <3>1
  <2> QED BY <2>3, <2>4, <1>1
<1>5. MaxId(s) \in Nat /\ e.id \in Nat BY MaxIdType DEF Event
<1> HIDE DEF t
<1>6. \A i \in 1 .. Len(s) : t[i].id < t[Len(s) + 1].id BY <1>1, <1>3, <1>4, <1>5
<1>7. \A i, j \in 1 .. Len(s) : i < j => t[i].id < t[j].id BY <1>1 DEF Ascends
<1>8. ASSUME NEW i \in 1 .. Len(t), NEW j \in 1 .. Len(t), i < j PROVE t[i].id < t[j].id
  <2>1. i \in 1 .. Len(s) /\ (j \in 1 .. Len(s) \/ j = Len(s) + 1) BY <1>1, <1>8
  <2> QED BY <1>6, <1>7, <1>8, <2>1
<1>9. Ascends(t) BY <1>8 DEF Ascends
<1> QED BY <1>9 DEF t

LEMMA ConcatAppend ==
  ASSUME NEW a \in Seq(Event), NEW b \in Seq(Event), NEW e \in Event
  PROVE  a \o Append(b, e) = Append(a \o b, e)
<1>1. Append(b, e) = b \o <<e>> BY AppendIsConcat
<1>2. a \o b \in Seq(Event) BY ConcatProperties
<1>3. Append(a \o b, e) = (a \o b) \o <<e>> BY <1>2, AppendIsConcat
<1>4. <<e>> \in Seq(Event) OBVIOUS
<1> QED BY <1>1, <1>3, <1>4, ConcatAssociative

\* Who holds the lock has written, who has written is inside its transaction.
LockInv ==
  /\ \A p \in Process : writer = p => staged[p] # <<>>
  /\ \A p \in Process : staged[p] # <<>> => pc[p] \in Inside
  /\ \A p \in Process : pc[p] = "written" => staged[p] # <<>>

\* The staged events extend the log in order.
StagedAscend == \A p \in Process : Ascends(log \o staged[p])

OrderInv == LockInv /\ DecidedOnTheLatest /\ StagedAscend /\ LogAscends

LEMMA NextOrder ==
  ASSUME TypeOK, OrderInv, [Next]_vars PROVE OrderInv'
<1> USE LogAssumption
<1>0. NoProcess \notin Process BY DEF LogAssumption
<1>1. CASE Tick
  BY <1>1 DEF Tick, OrderInv, LockInv, DecidedOnTheLatest, StagedAscend, LogAscends,
              storeVars, txVars
<1>2. ASSUME NEW p \in Process, Open(p) \/ ReadEvents(p) \/ Refold(p) \/ RecordVersion(p)
      PROVE  OrderInv'
  <2>1. UNCHANGED <<log, staged, writer, snapshot>>
    BY <1>2 DEF Open, ReadEvents, Refold, RecordVersion, storeVars, txVars
  <2>2. \E w \in {"idle", "outdated", "refold", "refolded"} : pc' = [pc EXCEPT ![p] = w]
    BY <1>2 DEF Open, ReadEvents, Refold, RecordVersion
  <2>3. pc[p] \notin Inside BY <1>2 DEF Open, ReadEvents, Refold, RecordVersion, Inside
  <2>4. LockInv' BY <2>1, <2>2, <2>3 DEF OrderInv, LockInv, TypeOK, Inside
  <2> QED BY <2>1, <2>4 DEF OrderInv, DecidedOnTheLatest, StagedAscend, LogAscends
<1>3. ASSUME NEW p \in Process, Begin(p) PROVE OrderInv'
  <2>1. UNCHANGED <<log, staged, writer>> /\ pc' = [pc EXCEPT ![p] = "tx"]
    BY <1>3 DEF Begin, storeVars
  <2>2. \A q \in Process : q # p => snapshot'[q] = snapshot[q] BY <1>3 DEF Begin, TypeOK
  <2>3. staged[p] = <<>> BY <1>3 DEF Begin, OrderInv, LockInv, Inside
  <2>4. LockInv' BY <2>1, <2>3 DEF OrderInv, LockInv, TypeOK, Inside
  <2>5. DecidedOnTheLatest' BY <2>1, <2>2, <2>3 DEF OrderInv, DecidedOnTheLatest
  <2> QED BY <2>1, <2>4, <2>5 DEF OrderInv, StagedAscend, LogAscends
<1>4. ASSUME NEW p \in Process, Mint(p) PROVE OrderInv'
  <2>1. UNCHANGED <<log, staged, writer, snapshot>> BY <1>4 DEF Mint, storeVars
  <2>2. pc' = pc \/ pc' = [pc EXCEPT ![p] = "stamped"] BY <1>4 DEF Mint
  <2>3. LockInv' BY <2>1, <2>2 DEF OrderInv, LockInv, TypeOK, Inside
  <2> QED BY <2>1, <2>3 DEF OrderInv, DecidedOnTheLatest, StagedAscend, LogAscends
<1>5. ASSUME NEW p \in Process, Insert(p) PROVE OrderInv'
  <2>1. /\ UNCHANGED log /\ writer' = p /\ pc' = [pc EXCEPT ![p] = "written"]
        /\ CanWrite(p) /\ minted[p] > MaxId(log \o staged[p])
        /\ snapshot' = [snapshot EXCEPT ![p] = IF @ = NoRead THEN Len(log) ELSE @]
    BY <1>5 DEF Insert, storeVars
  <2>2. /\ NewEvent(p) \in Event
        /\ staged' = [staged EXCEPT ![p] = Append(staged[p], NewEvent(p))]
    BY <1>5, InsertStages
  <2>3. /\ log \in Seq(Event) /\ staged \in [Process -> Seq(Event)]
        /\ staged[p] \in Seq(Event)
        /\ log \o staged[p] \in Seq(Event)
    BY DEF TypeOK
  <2>4. Append(staged[p], NewEvent(p)) # <<>> BY <2>2, <2>3, AppendProperties
  <2>5. /\ staged'[p] = Append(staged[p], NewEvent(p))
        /\ \A q \in Process : q # p => staged'[q] = staged[q]
    BY <2>2, <2>3
  <2>6. \A q \in Process : q # p => staged[q] = <<>>
    BY <2>1, <1>0 DEF CanWrite, OrderInv, DecidedOnTheLatest
  <2>7. LockInv'
    <3>1. \A q \in Process : writer' = q => staged'[q] # <<>> BY <2>1, <2>4, <2>5
    <3>2. \A q \in Process : staged'[q] # <<>> => pc'[q] \in Inside
      BY <2>1, <2>5, <2>6 DEF TypeOK, Inside
    <3>3. \A q \in Process : pc'[q] = "written" => staged'[q] # <<>>
      BY <2>1, <2>4, <2>5 DEF OrderInv, LockInv, TypeOK
    <3> QED BY <3>1, <3>2, <3>3 DEF LockInv
  <2>8. snapshot'[p] = Len(log)
    <3>1. snapshot[p] = NoRead \/ snapshot[p] = Len(log)
      BY <2>1 DEF CanWrite, OrderInv, LockInv, DecidedOnTheLatest
    <3> QED BY <2>1, <3>1 DEF TypeOK
  <2>9. DecidedOnTheLatest' BY <2>1, <2>5, <2>6, <2>8 DEF DecidedOnTheLatest
  <2>10. Ascends(log \o staged'[p])
    <3>1. NewEvent(p).id = minted[p] BY DEF NewEvent
    <3>2. Ascends(Append(log \o staged[p], NewEvent(p)))
      BY <2>1, <2>2, <2>3, <3>1, AscendsAppend DEF OrderInv, StagedAscend
    <3> QED BY <2>2, <2>3, <2>5, <3>2, ConcatAppend
  <2>11. StagedAscend' BY <2>1, <2>5, <2>10 DEF OrderInv, StagedAscend
  <2> QED BY <2>1, <2>7, <2>9, <2>11 DEF OrderInv, LogAscends
<1>6. ASSUME NEW p \in Process, TxCommit(p) PROVE OrderInv'
  <2>1. /\ log' = log \o staged[p] /\ pc' = [pc EXCEPT ![p] = "idle"] /\ pc[p] = "written"
        /\ writer' = IF writer = p THEN NoProcess ELSE writer
        /\ staged' = [staged EXCEPT ![p] = <<>>]
    BY <1>6 DEF TxCommit, CloseTx
  <2>2. staged[p] # <<>> /\ writer = p
    BY <2>1 DEF OrderInv, LockInv, DecidedOnTheLatest
  <2>3. \A q \in Process : staged'[q] = <<>>
    BY <2>1, <2>2 DEF OrderInv, DecidedOnTheLatest, TypeOK
  <2>4. LockInv'
    BY <2>1, <2>2, <2>3, <1>0 DEF OrderInv, LockInv, DecidedOnTheLatest, TypeOK
  <2>5. DecidedOnTheLatest' BY <2>3 DEF DecidedOnTheLatest
  <2>6. LogAscends' BY <2>1 DEF OrderInv, StagedAscend, LogAscends
  <2>7. log' \in Seq(Event) BY <2>1 DEF TypeOK
  <2>8. StagedAscend' BY <2>3, <2>6, <2>7, ConcatEmptySeq DEF StagedAscend, LogAscends
  <2> QED BY <2>4, <2>5, <2>6, <2>8 DEF OrderInv
<1>7. ASSUME NEW p \in Process, Rollback(p) \/ Exit(p) PROVE OrderInv'
  <2>1. /\ UNCHANGED log
        /\ writer' = IF writer = p THEN NoProcess ELSE writer
        /\ staged' = [staged EXCEPT ![p] = <<>>]
        /\ snapshot' = [snapshot EXCEPT ![p] = NoRead]
    BY <1>7 DEF Rollback, Exit, CloseTx, storeVars
  <2>2. \E w \in {"idle", "closed"} : pc' = [pc EXCEPT ![p] = w] BY <1>7 DEF Rollback, Exit
  <2>3. staged'[p] = <<>> /\ \A q \in Process : q # p => staged'[q] = staged[q]
    BY <2>1 DEF TypeOK
  <2>4. LockInv' BY <2>1, <2>2, <2>3, <1>0 DEF OrderInv, LockInv, TypeOK
  <2>5. DecidedOnTheLatest'
    <3> SUFFICES ASSUME NEW q \in Process, staged'[q] # <<>>
                 PROVE  writer' = q /\ snapshot'[q] = Len(log')
      BY DEF DecidedOnTheLatest
    <3>1. q # p /\ staged[q] # <<>> BY <2>3
    <3>2. writer = q /\ snapshot[q] = Len(log) BY <3>1 DEF OrderInv, DecidedOnTheLatest
    <3> QED BY <2>1, <3>1, <3>2 DEF TypeOK
  <2>6. StagedAscend'
    <3>1. log \o <<>> = log BY ConcatEmptySeq DEF TypeOK
    <3> QED BY <2>1, <2>3, <3>1 DEF OrderInv, StagedAscend, LogAscends
  <2> QED BY <2>1, <2>4, <2>5, <2>6 DEF OrderInv, LogAscends
<1>8. CASE UNCHANGED vars
  BY <1>8 DEF vars, OrderInv, LockInv, DecidedOnTheLatest, StagedAscend, LogAscends,
              storeVars, txVars
<1> QED BY <1>1, <1>2, <1>3, <1>4, <1>5, <1>6, <1>7, <1>8 DEF Next

LEMMA InitOrder == Init => OrderInv
<1> SUFFICES ASSUME Init PROVE OrderInv OBVIOUS
<1>1. <<>> \o <<>> = <<>> BY ConcatEmptySeq, EmptySeq
<1>2. Ascends(<<>>) BY DEF Ascends
<1> QED BY <1>1, <1>2, LogAssumption
     DEF Init, OrderInv, LockInv, DecidedOnTheLatest, StagedAscend, LogAscends, Inside

\* Every id in the log is above all ids before it, for any number of processes
\* and whatever their clocks and random halves do (NewID, events_monotonic).
THEOREM LogIsOrdered == Spec => []LogAscends
<1>1. TypeOK /\ OrderInv /\ [Next]_vars => OrderInv' BY NextOrder
<1>2. OrderInv => LogAscends BY DEF OrderInv
<1> QED BY InitOrder, TypeCorrect, <1>1, <1>2, PTL DEF Spec

\* A command that has written decided on the log as it stands when it commits
\* (SQLite's snapshot conflict and write lock around Commit).
THEOREM CommandsAreIsolated == Spec => []DecidedOnTheLatest
<1>1. TypeOK /\ OrderInv /\ [Next]_vars => OrderInv' BY NextOrder
<1>2. OrderInv => DecidedOnTheLatest BY DEF OrderInv
<1> QED BY InitOrder, TypeCorrect, <1>1, <1>2, PTL DEF Spec

----------------------------------------------------------------------------
(* The projection. *)

LEMMA NextProjection ==
  ASSUME TypeOK, [Next]_vars, SameEvents,
         ~(\E p \in Process : Refold(p) /\ seen[p] # log)
  PROVE  SameEvents'
<1>1. ASSUME NEW p \in Process, Refold(p) PROVE SameEvents'
  <2>1. seen[p] = log /\ log' = log BY <1>1 DEF Refold
  <2>2. projected' = Folded(log, version[p]) BY <1>1, <2>1 DEF Refold
  <2>3. log \in Seq(Event) /\ version[p] \in Version BY DEF TypeOK
  <2>4. /\ Len(projected') = Len(log)
        /\ \A i \in 1 .. Len(log) : projected'[i].id = log[i].id
    BY <2>2, <2>3, FoldedType
  <2> QED BY <2>1, <2>4 DEF SameEvents
<1>2. ASSUME NEW p \in Process, TxCommit(p) PROVE SameEvents'
  <2> DEFINE f == Folded(staged[p], version[p])
             R == [id : Nat, version : Version]
  <2>1. log' = log \o staged[p] /\ projected' = projected \o f BY <1>2 DEF TxCommit
  <2>2. /\ log \in Seq(Event) /\ staged[p] \in Seq(Event)
        /\ projected \in Seq(R) /\ version[p] \in Version
    BY DEF TypeOK
  <2>3. /\ f \in Seq(R) /\ Len(f) = Len(staged[p])
        /\ \A i \in 1 .. Len(staged[p]) : f[i].id = staged[p][i].id
    BY <2>2, FoldedType
  <2> HIDE DEF f, R
  <2>4. /\ Len(log') = Len(log) + Len(staged[p])
        /\ \A i \in 1 .. Len(log) + Len(staged[p]) :
             log'[i] = IF i <= Len(log) THEN log[i] ELSE staged[p][i - Len(log)]
    BY <2>1, <2>2, ConcatProperties
  <2>5. /\ Len(projected') = Len(projected) + Len(f)
        /\ \A i \in 1 .. Len(projected) + Len(f) :
             projected'[i] = IF i <= Len(projected) THEN projected[i] ELSE f[i - Len(projected)]
    <3>1. f \in Seq(R) /\ projected \in Seq(R) BY <2>2, <2>3
    <3>2. /\ Len(projected \o f) = Len(projected) + Len(f)
          /\ \A i \in 1 .. Len(projected) + Len(f) :
               (projected \o f)[i] =
                 IF i <= Len(projected) THEN projected[i] ELSE f[i - Len(projected)]
      BY <3>1, ConcatProperties
    <3> QED BY <2>1, <3>2
  <2>6. Len(log) \in Nat /\ Len(staged[p]) \in Nat BY <2>2
  <2>7. Len(projected) = Len(log) /\ \A i \in 1 .. Len(log) : projected[i].id = log[i].id
    BY DEF SameEvents
  <2>8. Len(projected') = Len(log') BY <2>3, <2>4, <2>5, <2>7
  <2>9. ASSUME NEW i \in 1 .. Len(log') PROVE projected'[i].id = log'[i].id
    <3>1. CASE i <= Len(log)
      <4>1. i \in 1 .. Len(log) /\ i \in 1 .. Len(log) + Len(staged[p]) BY <2>4, <2>6, <3>1
      <4>2. log'[i] = log[i] BY <2>4, <3>1, <4>1
      <4>3. projected'[i] = projected[i] BY <2>3, <2>5, <2>7, <3>1, <4>1
      <4> QED BY <2>7, <4>1, <4>2, <4>3
    <3>2. CASE ~(i <= Len(log))
      <4>1. i - Len(log) \in 1 .. Len(staged[p]) BY <2>4, <2>6, <3>2
      <4>2. log'[i] = staged[p][i - Len(log)] BY <2>4, <3>2
      <4>3. projected'[i] = f[i - Len(log)] BY <2>3, <2>4, <2>5, <2>7, <3>2
      <4> QED BY <2>3, <4>1, <4>2, <4>3
    <3> QED BY <3>1, <3>2
  <2> QED BY <2>8, <2>9 DEF SameEvents
<1>3. ASSUME \A p \in Process : ~Refold(p) /\ ~TxCommit(p) PROVE UNCHANGED <<log, projected>>
  BY <1>3 DEF Next, vars, storeVars, Tick, Open, ReadEvents, RecordVersion, Begin, Mint,
              Insert, Rollback, Exit
<1> QED BY <1>1, <1>2, <1>3 DEF SameEvents

\* The projection stays a fold of the log through every append, rollback, crash
\* and rebuild except a Rebuild that another commit has overtaken since it read
\* the log (Commit, Rebuild).
THEOREM ProjectionIsKept == Spec => OnlyStaleRefoldLoses
<1>1. TypeOK /\ [Next]_vars =>
        [SameEvents /\ ~(\E p \in Process : Refold(p) /\ seen[p] # log) => SameEvents']_vars
  BY NextProjection
<1> QED BY <1>1, TypeCorrect, PTL DEF Spec, OnlyStaleRefoldLoses
=============================================================================
