------------------------------ MODULE Attempts ------------------------------
(***************************************************************************)
(* The attempts of the Environment journal: acquiring a claim, releasing    *)
(* the provisional claim of a birth, releasing an acquired claim, and the   *)
(* local pin of a claim's journal.  Then what a reopened store must satisfy.*)
(***************************************************************************)
EXTENDS Journal

NewAttempt(from, barrier) == [seq |-> NextSeq, code |-> Open, from |-> from, barrier |-> barrier]
Insert(a, from, barrier) ==
  /\ attempts' = (a :> NewAttempt(from, barrier)) @@ attempts
  /\ UNCHANGED <<commands, receipts, grants, bindings, installed, overlay>>

(* PrepareClaimAcquire pins the installed anchor the grant must start from.  *)
PrepareClaimAcquire(a) ==
  /\ a \notin DOMAIN attempts
  /\ Unresolved = {}
  /\ ~Pending(BirthRelease) /\ ~Pending(Acquire) /\ ~Pending(ClaimRelease) /\ ~Quarantined
  /\ Insert(a, Len(installed), 0)

(* The grant runs from the anchor of the attempt, which is still installed.  *)
InstallClaimAcquireGrant(a, tail) ==
  /\ attempts[a].code = Open
  /\ attempts[a].from = tail.start
  /\ Appends(tail)
  /\ Fits(a, Success, installed')
  /\ attempts' = [attempts EXCEPT ![a].code = Success]
  /\ grants' = (a :> [start |-> tail.start, end |-> Len(installed'), pinned |-> 0]) @@ grants
  /\ overlay' = rebuildOverlay(commands, installed')
  /\ UNCHANGED <<commands, receipts, bindings>>

InstallClaimAcquireRefusal(a, code) ==
  /\ attempts[a].code = Open
  /\ attempts' = [attempts EXCEPT ![a].code = code]
  /\ UNCHANGED <<commands, receipts, grants, bindings, installed, overlay>>

-----------------------------------------------------------------------------
(* The journal of a provisional claim: the birth of the Matter and the Steps *)
(* created under it, all returned with success.                              *)
BirthMembers(m) == {c \in DOMAIN commands : Delivery[c] = "provisional" /\ Claim[c] = m}
BirthJournal(m) == Succeeded(m) /\ \A c \in BirthMembers(m) : Succeeded(c)
Released(k, events) == \E i \in DOMAIN events : events[i].kind = "claim.released" /\ events[i].claim = k

(* Every command must be in state returned: an authority command never is.   *)
PrepareBirthRelease(b) ==
  /\ b \notin DOMAIN attempts
  /\ ~Released(Claim[b], installed)
  /\ \A c \in DOMAIN commands : commands[c].state = "returned"
  /\ ~Pending(BirthRelease) /\ ~Pending(Acquire) /\ ~Pending(ClaimRelease) /\ ~Quarantined
  /\ Insert(b, Len(installed), Cardinality(BirthMembers(Claim[b])))

InstallBirthRelease(b, code, tail) ==
  /\ attempts[b].code = Open
  /\ Appends(tail)
  /\ Fits(b, code, installed')
  /\ attempts' = [attempts EXCEPT ![b].code = code]
  /\ overlay' = rebuildOverlay(commands, installed')
  /\ UNCHANGED <<commands, receipts, grants, bindings>>

-----------------------------------------------------------------------------
(* The journal of an acquired claim.                                         *)
ClaimMembers(k) == {c \in DOMAIN commands : Member(c) /\ Claim[c] = k}
ClaimJournal(k) == \A c \in ClaimMembers(k) : Succeeded(c)

(* A pin may repeat the stored one or move it from open to sealed.           *)
Pinnable(k, state) ==
  /\ k \in DOMAIN grants
  /\ k \in DOMAIN bindings => bindings[k] = state \/ (bindings[k] = "open" /\ state = "sealed")
Pin(k, state) == (k :> state) @@ bindings

PinClaimJournalIdentity(k, state) ==
  /\ Pinnable(k, state)
  /\ bindings' = Pin(k, state)
  /\ UNCHANGED <<commands, receipts, attempts, grants, installed, overlay>>

PrepareClaimJournalRelease(r) ==
  /\ r \notin DOMAIN attempts
  /\ Claim[r] \in DOMAIN bindings /\ bindings[Claim[r]] = "sealed"
  /\ Unresolved = {}
  /\ ~Pending(BirthRelease) /\ ~Pending(ClaimRelease)
  /\ Insert(r, Len(installed), Cardinality(ClaimMembers(Claim[r])))

(* The two events of the release must be in the tail, none of them before.   *)
InstallClaimJournalRelease(r, code, tail) ==
  /\ attempts[r].code = Open
  /\ Appends(tail)
  /\ Fits(r, code, tail.events) /\ EventsBy(r, installed) = {}
  /\ attempts' = [attempts EXCEPT ![r].code = code]
  /\ bindings' = IF code = Success THEN [bindings EXCEPT ![Claim[r]] = "released"] ELSE bindings
  /\ overlay' = rebuildOverlay(commands, installed')
  /\ UNCHANGED <<commands, receipts, grants>>

-----------------------------------------------------------------------------
(* checkDatabase and the checks it calls, run whenever the store is opened.  *)
Seqs == [x \in DOMAIN commands \cup DOMAIN attempts |->
           IF x \in DOMAIN commands THEN commands[x].seq ELSE attempts[x].seq]
Positions == {commands[c].pos : c \in {d \in DOMAIN commands : ~ByAuthority(d)}}

checkDatabase ==
  /\ \A x, y \in DOMAIN Seqs : Seqs[x] = Seqs[y] => x = y
  /\ Range(Seqs) = 1 .. Cardinality(DOMAIN Seqs)
  /\ Positions = 1 .. NextPos - 1
  /\ \A c \in DOMAIN commands :
       /\ commands[c].pos = 0 <=> ByAuthority(c)
       /\ commands[c].state = "attempt-prepared" <=> ByAuthority(c)

checkInstalledReceipts ==
  /\ \A c \in DOMAIN receipts : c \in DOMAIN commands /\ Fits(c, receipts[c], installed)
  /\ \A c \in DOMAIN commands : commands[c].state = "returned"
       <=> ~ByAuthority(c) /\ c \in DOMAIN receipts

checkOverlay == overlay = rebuildOverlay(commands, installed)

checkClaimHydrationState ==
  \A k \in DOMAIN grants :
    /\ grants[k].pinned <= Required[k]
    /\ grants[k].end <= Len(installed) /\ attempts[k].from = grants[k].start
    /\ EventsBy(k, installed) \subseteq grants[k].start + 1 .. grants[k].end

checkAttempts ==
  \A a \in DOMAIN attempts :
    /\ a \in Acquire => (attempts[a].code = Success <=> a \in DOMAIN grants)
    /\ a \notin Acquire /\ attempts[a].code # Open => Fits(a, attempts[a].code, installed)
    /\ a \in ClaimRelease /\ attempts[a].code # Open =>
         bindings[Claim[a]] = IF attempts[a].code = Success THEN "released" ELSE "sealed"
checkClaimJournalCloseState == DOMAIN bindings \subseteq DOMAIN grants

(* Wherever an operation of the journal or the coordinator ends, the checks  *)
(* of the next open hold of what it committed: in particular the overlay is  *)
(* the one that base and pending commands give.                              *)
Reopens ==
  /\ checkDatabase /\ checkInstalledReceipts /\ checkOverlay
  /\ checkClaimHydrationState /\ checkAttempts /\ checkClaimJournalCloseState
=============================================================================
