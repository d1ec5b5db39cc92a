---------------------------- MODULE CommandStart ----------------------------
(***************************************************************************)
(* The command-start coordinator of the daemon (internal/wipd) over the     *)
(* Environment journal: it returns the pending commands, pulls and installs *)
(* the tail of the authority's log, admits the current command, submits it  *)
(* and installs the outcome.  One operation holds the lane of the domain;   *)
(* an error, a cancellation, a lost answer or a crash ends it between any   *)
(* two steps, and what is durable stays.                                    *)
(*                                                                          *)
(* The authority is what Commands and Claims show of it: it takes the next  *)
(* command of the Environment and answers a repeated one with its receipt.  *)
(***************************************************************************)
EXTENDS Attempts

CONSTANTS Gate,     \* commands that declare, close or dismiss a gate
          MaxOthers,   \* bound: events of other Environments
          NoId

VARIABLES log,       \* the authority's events: [by, kind, claim]
          verdict,   \* the authority's terminal receipts   id -> code
          products,  \* the grants it pinned                claim -> [start, end]
          journals,  \* the journals of the claims          claim -> [state, entries]
          lane       \* the operation that holds the lane   [id, pc, head, acks]

authorityVars == <<log, verdict, products, journals>>
startVars == <<journalVars, authorityVars, lane>>

Foreign == "foreign"
Event(id, kind, k) == [by |-> id, kind |-> kind, claim |-> k]
Entry(c, st) == [cmd |-> c, st |-> st]
Settled(entries) == \A i \in DOMAIN entries : entries[i].st = "terminal"
JournalOpen(k) == k \in DOMAIN journals /\ journals[k].state = "open"

Idle == [id |-> NoId, pc |-> "idle", head |-> NoId, acks |-> <<>>]
Step(pc) == lane' = [lane EXCEPT !.pc = pc]
Drop == lane' = Idle

CommandStartInit ==
  /\ commands = <<>> /\ receipts = <<>> /\ attempts = <<>> /\ grants = <<>> /\ bindings = <<>>
  /\ installed = <<>> /\ overlay = rebuildOverlay(<<>>, <<>>)
  /\ log = <<>> /\ verdict = <<>> /\ products = <<>> /\ journals = <<>>
  /\ lane = Idle

-----------------------------------------------------------------------------
(* The authority.  Another Environment appends an event; this one's next     *)
(* command is decided.  A claim command joins the journal of its claim.      *)
OthersAppend ==
  /\ Cardinality(EventsBy(Foreign, log)) < MaxOthers
  /\ log' = Append(log, Event(Foreign, "other", NoClaim))
  /\ UNCHANGED <<journalVars, verdict, products, journals, lane>>

EnvironmentHead == Cardinality(DOMAIN verdict)

(* What the authority needs to take a claim's command: the journal is open   *)
(* and every earlier entry is acknowledged with success.  Otherwise it       *)
(* answers with a problem and no receipt, and the operation ends.            *)
Admits(c) ==
  /\ commands[c].seq = EnvironmentHead + 1
  /\ Member(c) => JournalOpen(Claim[c]) /\ Settled(journals[Claim[c]].entries)
  /\ Delivery[c] = "provisional" /\ c # Claim[c] => JournalOpen(Claim[c])

MutJoined(c) ==
  IF Member(c) THEN [journals EXCEPT ![Claim[c]].entries = Append(@, Entry(c, "terminal"))] ELSE journals
Joined(c) ==
  IF Member(c) \/ (Delivery[c] = "provisional" /\ c # Claim[c])
    THEN [journals EXCEPT ![Claim[c]].entries = Append(@, Entry(c, "pending"))]
    ELSE journals

Decide(c, code) ==
  /\ Admits(c)
  /\ verdict' = (c :> code) @@ verdict
  /\ \/ code = Success /\ log' = Append(log, Event(c, "effect", NoClaim))
     \/ (code # Success \/ c \in Idempotent) /\ UNCHANGED log
  /\ journals' = IF Delivery[c] = "provisional" /\ c = Claim[c]
                   THEN IF code = Success
                          THEN (c :> [state |-> "open", entries |-> <<Entry(c, "pending")>>]) @@ journals
                          ELSE journals
                   ELSE Joined(c)
  /\ UNCHANGED products

(* command.submit: a first submission is decided, a repeated one replayed.   *)
Submit(c) ==
  \/ c \in DOMAIN verdict /\ UNCHANGED authorityVars
  \/ c \notin DOMAIN verdict /\ \E code \in Code : Decide(c, code)

(* The tail of the log from the installed anchor, as a pull delivers it.     *)
Pulled == [start |-> Len(installed), events |-> SubSeq(log, Len(installed) + 1, Len(log))]

-----------------------------------------------------------------------------
(* commandStartPending.  seq is the sequence of the current command, or past *)
(* every command for the barrier of a claim operation.                       *)
Earlier(c, seq) == commands'[c].seq < seq
Held(seq) ==
  \E c \in DOMAIN commands' : Earlier(c, seq) /\
    \/ c \in DOMAIN receipts /\ receipts[c] # Success
    \/ c \notin DOMAIN receipts /\ commands'[c].state # "pending-return"

MutQueue(seq) == InOrder({c \in PendingReturn(commands) : commands[c].seq < seq})
Queue(seq) == InOrder({c \in PendingReturn(commands) : commands[c].seq <= seq})

(* validateReturnEligibility: a caused command follows its cause's success.  *)
Eligible(c) == Cause[c] # NoClaim => Succeeded(Cause[c])

NeedsClaim(c) == Claim[c] \in Acquire

-----------------------------------------------------------------------------
(* runConnectedPrepared.  The command is prepared, or found from an earlier  *)
(* try, before what came before it is looked at.                             *)
CommandMayStart == ~Pending(BirthRelease) /\ ~Pending(ClaimRelease) /\ ~Quarantined
Begin(id, pc) == lane' = [id |-> id, pc |-> pc, head |-> NoId, acks |-> <<>>]

StartCommand(c) ==
  /\ lane = Idle
  /\ CommandMayStart
  /\ NeedsClaim(c) /\ ~Succeeded(c) /\ ~(c \in Gate /\ c \in DOMAIN commands) => ClaimReady(Claim[c])
  /\ \/ PrepareCommand(c)
     \/ c \in DOMAIN commands /\ UNCHANGED journalVars
  /\ IF Held(commands'[c].seq) THEN lane' = Idle ELSE Begin(c, "return")
  /\ UNCHANGED authorityVars

(* An installed receipt that is no success is answered at once; a gate's is  *)
(* acknowledged again first.                                                 *)
Answered == lane.id \in DOMAIN receipts /\ receipts[lane.id] # Success
Answer ==
  /\ lane.pc = "return" /\ Answered
  /\ lane' = IF lane.id \in Gate THEN [lane EXCEPT !.pc = "ackOutcome", !.acks = <<lane.id>>] ELSE Idle
  /\ UNCHANGED <<journalVars, authorityVars>>

-----------------------------------------------------------------------------
(* returnPending and the loop of returnEligiblePrefix: the first pending     *)
(* command is submitted and its outcome folded; only returnPending then      *)
(* acknowledges it.  The authority's answer never asks to continue, so a     *)
(* second pending command waits for another operation.                       *)
Waiting == Queue(IF lane.id \in Command THEN commands[lane.id].seq ELSE NextSeq)

ReturnHead ==
  /\ lane.pc = "return" /\ ~Answered /\ Waiting # <<>>
  /\ Eligible(Waiting[1])
  /\ Submit(Waiting[1])
  /\ lane' = [lane EXCEPT !.pc = "fold", !.head = Waiting[1]]
  /\ UNCHANGED journalVars

FoldHead ==
  /\ lane.pc = "fold"
  /\ InstallFold(lane.head, verdict[lane.head], Pulled)
  /\ lane' = [lane EXCEPT !.pc = "ackHead",
                          !.acks = IF Member(lane.head) /\ lane.id \in Command \cup Acquire
                                     THEN <<lane.head>> ELSE <<>>]
  /\ UNCHANGED authorityVars

HeadReturned ==
  /\ lane.pc = "ackHead" /\ lane.acks = <<>>
  /\ IF Succeeded(lane.head) /\ Waiting = <<>> THEN Step("pull") ELSE Drop
  /\ UNCHANGED <<journalVars, authorityVars>>

NothingPending ==
  /\ lane.pc = "return" /\ ~Answered /\ Waiting = <<>>
  /\ Step("pull")
  /\ UNCHANGED <<journalVars, authorityVars>>

-----------------------------------------------------------------------------
(* acknowledgeClaimJournalReceipt: the journal must be open at the authority;*)
(* its identity is pinned; then the entry is acknowledged.  The operation    *)
(* may end after the pin.                                                    *)
PositionIn(c, entries) == CHOOSE i \in DOMAIN entries : entries[i].cmd = c
Acked(c) ==
  LET k == Claim[c]
      i == PositionIn(c, journals[k].entries)
  IN  [journals EXCEPT ![k].entries[i].st =
         IF @ # "pending" THEN @ ELSE IF verdict[c] = Success THEN "terminal" ELSE "quarantined"]
Ackable(c) ==
  LET es == journals[Claim[c]].entries
      i == PositionIn(c, es)
  IN  i > 1 => es[i - 1].st = "terminal"

PinOpen(c) ==
  /\ JournalOpen(Claim[c]) /\ Pinnable(Claim[c], "open")
  /\ bindings' = Pin(Claim[c], "open")
  /\ UNCHANGED <<commands, receipts, attempts, grants, installed, overlay, log, verdict, products>>

Acknowledging == lane.pc \in {"ackHead", "heads", "ackOutcome"} /\ lane.acks # <<>>
Acknowledge ==
  /\ Acknowledging
  /\ PinOpen(lane.acks[1])
  /\ Ackable(lane.acks[1])
  /\ journals' = Acked(lane.acks[1])
  /\ lane' = [lane EXCEPT !.acks = Tail(@)]

AcknowledgeFails ==
  /\ Acknowledging
  /\ PinOpen(lane.acks[1])
  /\ Drop
  /\ UNCHANGED journals

(* acknowledgeLatestClaimJournalHeads: for every claim whose journal is not  *)
(* known to be sealed, the last entry that has a receipt.                    *)
NeedsAck(k) == k \in DOMAIN bindings => bindings[k] = "open"
Resolved(k, seq) == {c \in ClaimMembers(k) : c \in DOMAIN receipts /\ commands[c].seq <= seq}
LatestHeads(seq) ==
  {Last(InOrder(Resolved(k, seq))) : k \in {j \in Acquire : NeedsAck(j) /\ Resolved(j, seq) # {}}}

PullForCommand ==
  /\ lane.pc = "pull" /\ lane.id \in Command
  /\ InstallPull(Pulled)
  /\ lane' = [lane EXCEPT !.pc = "heads", !.acks = InOrder(LatestHeads(commands[lane.id].seq))]
  /\ UNCHANGED authorityVars

-----------------------------------------------------------------------------
(* Admission, submission and the outcome of the current command.             *)
Admit ==
  /\ lane.pc = "heads" /\ lane.acks = <<>>
  /\ LET c == lane.id IN
     \/ c \in DOMAIN receipts /\ Drop /\ UNCHANGED journalVars
     \/ ByAuthority(c) /\ c \notin DOMAIN receipts /\ Step("write") /\ UNCHANGED journalVars
     \/ ~ByAuthority(c) /\ Eligible(c) /\ AdmitPending(c) /\ Step("write")
  /\ UNCHANGED authorityVars

SubmitCommand ==
  /\ lane.pc = "write"
  /\ NeedsClaim(lane.id) => ClaimReady(Claim[lane.id])
  /\ Submit(lane.id)
  /\ Step("outcome")
  /\ UNCHANGED journalVars

InstallOutcome ==
  /\ lane.pc = "outcome"
  /\ LET c == lane.id IN
     /\ IF ByAuthority(c) THEN InstallAuthorityOutcome(c, verdict[c], Pulled)
                          ELSE InstallFold(c, verdict[c], Pulled)
     /\ lane' = IF Member(c) THEN [lane EXCEPT !.pc = "ackOutcome", !.acks = <<c>>] ELSE Idle
  /\ UNCHANGED authorityVars

Finish ==
  /\ lane.pc = "ackOutcome" /\ lane.acks = <<>>
  /\ Drop
  /\ UNCHANGED <<journalVars, authorityVars>>

(* An error, a refusal of the authority to take a command, a cancellation, a *)
(* lost answer, a crash.                                                     *)
Fail ==
  /\ lane # Idle
  /\ Drop
  /\ UNCHANGED <<journalVars, authorityVars>>

CommandStep == ReturnHead \/ FoldHead \/ HeadReturned \/ NothingPending \/ Answer \/ Acknowledge
                 \/ PullForCommand \/ Admit \/ SubmitCommand \/ InstallOutcome \/ Finish
=============================================================================
