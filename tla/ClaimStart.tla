----------------------------- MODULE ClaimStart -----------------------------
(***************************************************************************)
(* The claim operations of the coordinator, which hold the same lane:       *)
(* AcquireClaim, ReleaseBirthClaim and ReleaseClaimJournal.  Each returns   *)
(* the pending commands and pulls, prepares a durable attempt, submits it   *)
(* and installs the answer; a retry goes straight to the submission of the  *)
(* attempt it finds.                                                        *)
(***************************************************************************)
EXTENDS CommandStart

CONSTANTS Matter    \* [Acquire -> the Matter it claims]

Known(a) == a \in DOMAIN attempts
IsOpen(a) == Known(a) /\ attempts[a].code = Open
KeepAll == UNCHANGED <<journalVars, authorityVars>>

(* The barrier of a claim operation looks at every command.                  *)
Blocked ==
  \E c \in DOMAIN commands :
    \/ c \in DOMAIN receipts /\ receipts[c] # Success
    \/ c \notin DOMAIN receipts /\ commands[c].state # "pending-return"

-----------------------------------------------------------------------------
(* AcquireClaim.  The retry needs the anchor of the attempt.                 *)
StartAcquire(a) ==
  /\ lane = Idle
  /\ ~Pending(BirthRelease)
  /\ \A o \in Acquire \ {a} : ~IsOpen(o)
  /\ \/ ~Known(a) /\ ~Blocked /\ Begin(a, "return")
     \/ IsOpen(a) /\ Len(installed) = attempts[a].from /\ Begin(a, "submit")
  /\ KeepAll

(* A claim that the authority has given is open until it is released.        *)
Contended(a) == \E k \in DOMAIN journals \cap Acquire : Matter[k] = Matter[a] /\ journals[k].state # "released"

DecideAcquire(a, code) ==
  /\ attempts[a].seq = EnvironmentHead + 1
  /\ verdict' = (a :> code) @@ verdict
  /\ \/ /\ code = Success /\ ~Contended(a)
        /\ log' = log \o <<Event(a, "claim.acquired", a), Event(a, "dispatch.opened", a)>>
        /\ products' = (a :> [start |-> attempts[a].from, end |-> Len(log')]) @@ products
        /\ journals' = (a :> [state |-> "open", entries |-> <<>>]) @@ journals
     \/ code # Success /\ UNCHANGED <<log, products, journals>>

PrepareAcquire ==
  /\ lane.pc = "prepare" /\ lane.id \in Acquire
  /\ PrepareClaimAcquire(lane.id)
  /\ Step("submit")
  /\ UNCHANGED authorityVars

SubmitAcquire ==
  /\ lane.pc = "submit" /\ lane.id \in Acquire
  /\ \/ lane.id \in DOMAIN verdict /\ UNCHANGED authorityVars
     \/ lane.id \notin DOMAIN verdict /\ \E code \in Code : DecideAcquire(lane.id, code)
  /\ Step("install")
  /\ UNCHANGED journalVars

(* The pinned product is the same on every answer.                           *)
GrantTail(a) == [start |-> products[a].start, events |-> SubSeq(log, products[a].start + 1, products[a].end)]

InstallAcquire ==
  /\ lane.pc = "install" /\ lane.id \in Acquire
  /\ IF verdict[lane.id] = Success THEN InstallClaimAcquireGrant(lane.id, GrantTail(lane.id))
                                   ELSE InstallClaimAcquireRefusal(lane.id, verdict[lane.id])
  /\ Drop
  /\ UNCHANGED authorityVars

-----------------------------------------------------------------------------
(* ReleaseBirthClaim.                                                        *)
StartBirthRelease(b) ==
  /\ lane = Idle
  /\ \/ ~Known(b) /\ ~Blocked /\ Begin(b, "return")
     \/ IsOpen(b) /\ BirthJournal(Claim[b]) /\ Begin(b, "submit")
  /\ KeepAll

(* Each entry of the birth journal is acknowledged, in order.                *)
AcknowledgeBirth ==
  /\ lane.pc = "births"
  /\ IF lane.acks = <<>> THEN Step("prepare") /\ UNCHANGED journals
     ELSE /\ JournalOpen(Claim[lane.id]) /\ Ackable(lane.acks[1])
          /\ journals' = Acked(lane.acks[1])
          /\ lane' = [lane EXCEPT !.acks = Tail(@)]
  /\ UNCHANGED <<journalVars, log, verdict, products>>

PrepareBirth ==
  /\ lane.pc = "prepare" /\ lane.id \in BirthRelease
  /\ PrepareBirthRelease(lane.id)
  /\ Step("submit")
  /\ UNCHANGED authorityVars

(* The authority releases when the barrier covers the acknowledged journal;  *)
(* it refuses an acquired claim also while a role or a plan is open in it.   *)
Barred(r) ==
  LET j == journals[Claim[r]] IN Len(j.entries) = attempts[r].barrier /\ Settled(j.entries)

DecideRelease(r, ready, refusable, events) ==
  /\ attempts[r].seq = EnvironmentHead + 1
  /\ \/ /\ ready
        /\ verdict' = (r :> Success) @@ verdict
        /\ log' = log \o events
        /\ journals' = [journals EXCEPT ![Claim[r]].state = "released"]
     \/ /\ refusable
        /\ verdict' = (r :> "result.refused") @@ verdict
        /\ UNCHANGED <<log, journals>>
  /\ UNCHANGED products

SubmitBirth ==
  /\ lane.pc = "submit" /\ lane.id \in BirthRelease
  /\ \/ lane.id \in DOMAIN verdict /\ UNCHANGED authorityVars
     \/ /\ lane.id \notin DOMAIN verdict
        /\ LET ready == JournalOpen(Claim[lane.id]) /\ Barred(lane.id) IN
           DecideRelease(lane.id, ready, ~ready,
                         <<Event(lane.id, "claim.released", Claim[lane.id])>>)
  /\ Step("install")
  /\ UNCHANGED journalVars

InstallBirth ==
  /\ lane.pc = "install" /\ lane.id \in BirthRelease
  /\ InstallBirthRelease(lane.id, verdict[lane.id], Pulled)
  /\ Drop
  /\ UNCHANGED authorityVars

-----------------------------------------------------------------------------
(* ReleaseClaimJournal.  Also the retry checks that the claim is still held  *)
(* in the installed prefix.                                                  *)
StartClaimRelease(r) ==
  /\ lane = Idle
  /\ ClaimReady(Claim[r])
  /\ \/ /\ ~Known(r) /\ ~Blocked
        /\ ~Pending(ClaimRelease) /\ ~Pending(BirthRelease) /\ ~Pending(Acquire)
        /\ Begin(r, "return")
     \/ IsOpen(r) /\ Begin(r, "submit")
  /\ KeepAll

(* The current generation is looked up and pinned; the journal must be       *)
(* complete; an open one is acknowledged entry by entry.                     *)
PinCurrent ==
  /\ lane.pc = "pin"
  /\ LET k == Claim[lane.id] IN
     /\ journals[k].state \in {"open", "sealed"}
     /\ PinClaimJournalIdentity(k, journals[k].state)
     /\ IF ClaimJournal(k)
          THEN lane' = [lane EXCEPT !.pc = "members",
                          !.acks = IF journals[k].state = "open" THEN InOrder(ClaimMembers(k)) ELSE <<>>]
          ELSE Drop
  /\ UNCHANGED authorityVars

AcknowledgeMember ==
  /\ lane.pc = "members"
  /\ IF lane.acks = <<>> THEN Step("seal") /\ UNCHANGED journals
     ELSE /\ JournalOpen(Claim[lane.id]) /\ Ackable(lane.acks[1])
          /\ journals' = Acked(lane.acks[1])
          /\ lane' = [lane EXCEPT !.acks = Tail(@)]
  /\ UNCHANGED <<journalVars, log, verdict, products>>

(* The authority seals a settled journal once and answers the same again;    *)
(* the Environment compares the count.                                       *)
Seal ==
  /\ lane.pc = "seal"
  /\ LET k == Claim[lane.id] IN
     /\ Settled(journals[k].entries) /\ journals[k].state \in {"open", "sealed"}
     /\ journals' = [journals EXCEPT ![k].state = "sealed"]
     /\ IF Len(journals[k].entries) = Cardinality(ClaimMembers(k)) THEN Step("pinSealed") ELSE Drop
  /\ UNCHANGED <<journalVars, log, verdict, products>>

PinSealed ==
  /\ lane.pc = "pinSealed"
  /\ PinClaimJournalIdentity(Claim[lane.id], "sealed")
  /\ Step("prepare")
  /\ UNCHANGED authorityVars

PrepareRelease ==
  /\ lane.pc = "prepare" /\ lane.id \in ClaimRelease
  /\ PrepareClaimJournalRelease(lane.id)
  /\ Step("submit")
  /\ UNCHANGED authorityVars

SubmitRelease ==
  /\ lane.pc = "submit" /\ lane.id \in ClaimRelease
  /\ \/ lane.id \in DOMAIN verdict /\ UNCHANGED authorityVars
     \/ /\ lane.id \notin DOMAIN verdict
        /\ DecideRelease(lane.id, journals[Claim[lane.id]].state = "sealed" /\ Barred(lane.id), TRUE,
                         <<Event(lane.id, "dispatch.closed", Claim[lane.id]),
                           Event(lane.id, "claim.released", Claim[lane.id])>>)
  /\ Step("install")
  /\ UNCHANGED journalVars

InstallRelease ==
  /\ lane.pc = "install" /\ lane.id \in ClaimRelease
  /\ InstallClaimJournalRelease(lane.id, verdict[lane.id], Pulled)
  /\ Drop
  /\ UNCHANGED authorityVars

-----------------------------------------------------------------------------
(* The pull of a claim operation, and where it goes on.                      *)
PullForClaim ==
  /\ lane.pc = "pull" /\ lane.id \notin Command
  /\ InstallPull(Pulled)
  /\ \/ lane.id \in Acquire /\ Step("prepare")
     \/ /\ lane.id \in BirthRelease
        /\ IF BirthJournal(Claim[lane.id])
             THEN lane' = [lane EXCEPT !.pc = "births", !.acks = InOrder(BirthMembers(Claim[lane.id]))]
             ELSE Drop
     \/ lane.id \in ClaimRelease /\ Step("pin")
  /\ UNCHANGED authorityVars

Hydrate ==
  /\ \E k \in Acquire : HydrateClaimBlob(k)
  /\ UNCHANGED <<authorityVars, lane>>

ClaimStep == PullForClaim \/ PrepareAcquire \/ SubmitAcquire \/ InstallAcquire \/ AcknowledgeBirth
               \/ PrepareBirth \/ SubmitBirth \/ InstallBirth \/ PinCurrent \/ AcknowledgeMember \/ Seal
               \/ PinSealed \/ PrepareRelease \/ SubmitRelease \/ InstallRelease

(* The requests that reach the daemon are those of ids.                      *)
Start(ids) == \/ \E c \in Command \cap ids : StartCommand(c)
              \/ \E a \in Acquire \cap ids : StartAcquire(a)
              \/ \E b \in BirthRelease \cap ids : StartBirthRelease(b)
              \/ \E r \in ClaimRelease \cap ids : StartClaimRelease(r)
=============================================================================
