------------------------------ MODULE Journal ------------------------------
(***************************************************************************)
(* The durable store of one Environment (internal/wipdjournal): the        *)
(* commands it has prepared, the prefix of the authority's log it has      *)
(* installed, the receipts that came with it, and the attempts to acquire  *)
(* and to release claims.  Every operation below is one transaction of the *)
(* store; the triggers of its schema are conjuncts of the inserts.         *)
(* A claim is named by the command that acquires it, a provisional claim   *)
(* by the command that creates its Matter.                                 *)
(***************************************************************************)
EXTENDS Integers, Sequences, FiniteSets, FiniteSetsExt, SequencesExt, TLC

CONSTANTS Command,       \* ids of journal commands
          Acquire,       \* ids of claim.acquire attempts
          BirthRelease,  \* ids of releases of provisional claims
          ClaimRelease,  \* ids of releases of acquired claims
          Delivery,      \* [Command -> delivery class; "repair" is gate.exemption.repair]
          Claim,         \* [Command \cup releases -> the claim it works under, or NoClaim]
          Cause,         \* [Command -> the command that caused it, or NoClaim]
          Idempotent,    \* commands that succeed without an event when there is nothing to do
          Required,      \* [Acquire -> number of blobs to pin before use]
          NoClaim

VARIABLES commands,   \* commands             id -> [seq, pos, state]
          receipts,   \* installed_receipts, authority_command_outcomes   id -> code
          attempts,   \* the three attempt tables   id -> [seq, code, from, barrier]
          grants,     \* installed_claim_grants, hydration_pins   claim -> [start, end, pinned]
          bindings,   \* installed_claim_journals   claim -> "open", "sealed" or "released"
          installed,  \* installed_events, in order of position
          overlay     \* environment_overlay        [base, provisional]

journalVars == <<commands, receipts, attempts, grants, bindings, installed, overlay>>

Success == "result.succeeded"
Code == {Success, "result.refused"}
Open == "attempt-prepared"   \* the code of an attempt that has no receipt yet

-----------------------------------------------------------------------------
(* gate.exemption.repair goes to the authority and is an entry of its claim.  *)
ByAuthority(c) == Delivery[c] \in {"authority", "repair"}
Member(c) == Delivery[c] \in {"claim", "repair"}

(* environment_state: both counters advance with the insert that uses them.  *)
NextSeq == Cardinality(DOMAIN commands) + Cardinality(DOMAIN attempts) + 1
NextPos == Cardinality({c \in DOMAIN commands : commands[c].pos > 0}) + 1

(* The commands in the order of their Environment sequence.                  *)
InOrder(S) == SetToSortSeq(S, LAMBDA c, d : commands[c].seq < commands[d].seq)
PendingReturn(cs) == {c \in DOMAIN cs : cs[c].state = "pending-return"}

(* A command is unresolved until its receipt or its outcome is installed.    *)
Unresolved == {c \in DOMAIN commands : commands[c].state # "returned" /\ c \notin DOMAIN receipts}
Pending(kind) == \E a \in kind \cap DOMAIN attempts : attempts[a].code = Open
Quarantined == \E r \in ClaimRelease \cap DOMAIN attempts : attempts[r].code \notin {Open, Success}

eventMatchesCommand(e, id) == e.by = id
EventsBy(id, events) == {i \in DOMAIN events : eventMatchesCommand(events[i], id)}
Succeeded(c) == c \in DOMAIN receipts /\ receipts[c] = Success

(* A declaration that was made, an exemption that was repaired, a Batch that *)
(* was swept or joined: the receipt of success accepts no event.             *)
receiptNoEvent(id) == id \in Idempotent

(* The accepted events of a success are one range of the history; without    *)
(* success the history has none of the command's events.                     *)
receiptEventRange(id, events) ==
  LET E == EventsBy(id, events) IN
    /\ E = {} => receiptNoEvent(id)
    /\ \A i, j \in E : i .. j \subseteq E
validFoldEvents(id, events) == EventsBy(id, events) = {}
Fits(id, code, events) ==
  IF code = Success THEN receiptEventRange(id, events) ELSE validFoldEvents(id, events)

-----------------------------------------------------------------------------
(* Claim readiness: the grant is installed, its blobs are pinned, and no     *)
(* installed event after the grant ends the claim.                           *)
OfflineReady(k) == k \in DOMAIN grants /\ grants[k].pinned = Required[k]
Ended(k) == \E i \in DOMAIN installed :
              /\ i > grants[k].end
              /\ installed[i].kind = "claim.released" /\ installed[i].claim = k
ClaimReady(k) == OfflineReady(k) /\ ~Ended(k)

HydrateClaimBlob(k) ==
  /\ k \in DOMAIN grants /\ grants[k].pinned < Required[k]
  /\ grants' = [grants EXCEPT ![k].pinned = @ + 1]
  /\ UNCHANGED <<commands, receipts, attempts, bindings, installed, overlay>>

-----------------------------------------------------------------------------
(* PrepareCommand, PrepareCanonicalSubmission.  The insert is refused while  *)
(* the outcome of an attempt is open and after a refused claim release.      *)
Insertable ==
  ~Pending(BirthRelease) /\ ~Pending(Acquire) /\ ~Pending(ClaimRelease) /\ ~Quarantined

Prepared(c) ==
  (c :> IF ByAuthority(c)
          THEN [seq |-> NextSeq, pos |-> 0, state |-> "attempt-prepared"]
          ELSE [seq |-> NextSeq, pos |-> NextPos, state |-> "pre-admission"]) @@ commands

PrepareCommand(c) ==
  /\ c \notin DOMAIN commands
  /\ Insertable
  /\ Delivery[c] = "claim" => OfflineReady(Claim[c])
  /\ commands' = Prepared(c)
  /\ UNCHANGED <<receipts, attempts, grants, bindings, installed, overlay>>

-----------------------------------------------------------------------------
(* The installs.  Each takes a tail of the log that starts at the installed  *)
(* anchor, and rebuilds the overlay from the base and the pending commands.  *)
rebuildOverlay(cs, base) == [base |-> Len(base), provisional |-> PendingReturn(cs)]

Appends(tail) == tail.start = Len(installed) /\ installed' = installed \o tail.events

MutAdmitPending(c) ==
  /\ commands[c].state = "pre-admission"
  /\ commands' = [commands EXCEPT ![c].state = "pending-return"]
  /\ UNCHANGED <<receipts, attempts, grants, bindings, installed, overlay>>
AdmitPending(c) ==
  /\ commands[c].state = "pre-admission"
  /\ commands' = [commands EXCEPT ![c].state = "pending-return"]
  /\ overlay' = rebuildOverlay(commands', installed)
  /\ UNCHANGED <<receipts, attempts, grants, bindings, installed>>

InstallPull(tail) ==
  /\ Appends(tail)
  /\ overlay' = rebuildOverlay(commands, installed')
  /\ UNCHANGED <<commands, receipts, attempts, grants, bindings>>

MutInstallFold(c, code, tail) ==
  /\ commands[c].state = "pending-return"
  /\ Appends(tail)
  /\ receipts' = (c :> Success) @@ receipts
  /\ commands' = [commands EXCEPT ![c].state = "returned"]
  /\ overlay' = rebuildOverlay(commands', installed')
  /\ UNCHANGED <<attempts, grants, bindings>>
InstallFold(c, code, tail) ==
  /\ commands[c].state = "pending-return"
  /\ Appends(tail)
  /\ Fits(c, code, installed')
  /\ receipts' = (c :> code) @@ receipts
  /\ commands' = [commands EXCEPT ![c].state = "returned"]
  /\ overlay' = rebuildOverlay(commands', installed')
  /\ UNCHANGED <<attempts, grants, bindings>>

InstallAuthorityOutcome(c, code, tail) ==
  /\ ByAuthority(c) /\ c \notin DOMAIN receipts
  /\ Appends(tail)
  /\ Fits(c, code, installed')
  /\ receipts' = (c :> code) @@ receipts
  /\ overlay' = rebuildOverlay(commands, installed')
  /\ UNCHANGED <<commands, attempts, grants, bindings>>
=============================================================================
