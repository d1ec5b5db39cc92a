------------------------------- MODULE Claims -------------------------------
(***************************************************************************)
(* Acquired claims: claim.acquire and its grant, the ordered journal of a   *)
(* claim (append, acknowledge, seal), and the three operations that change  *)
(* or close a claim: claim.release, claim.stand-down, claim.journal-repair. *)
(* A generation of a journal is [state, entries]; an entry is [cmd, st].    *)
(***************************************************************************)
EXTENDS Births

claimVars == <<nodes, steps, births, segments>>

-----------------------------------------------------------------------------
(* claim.acquire.  start is the prefix the Environment has installed; the    *)
(* authority keeps it as the intent of the command.                          *)
SubmitClaimAcquire(e, m, start, d) ==
  /\ start \in 0 .. Len(log)
  /\ Submit(e, [op |-> "claim.acquire", matter |-> m, start |-> start, dispatch |-> d])
  /\ UNCHANGED tables

ClaimsOf(m) == {c \in DOMAIN claims : claims[c].matter = m}
Contended(m, d) == (\E c \in ClaimsOf(m) : Open(c)) \/ (\E c \in DOMAIN claims : claims[c].dispatch = d)

(* The grant runs from the installed prefix to the end of the log after the  *)
(* events of the acquisition.                                                *)
Grant(e, epoch, end) ==
  [matter |-> pending[e].matter, epoch |-> epoch, owner |-> e, closed |-> "", by |-> e,
   dispatch |-> pending[e].dispatch, acquired |-> Cid(e), start |-> pending[e].start, end |-> end]

(* A Matter gets its anonymous batch with its first claim.                   *)
CompleteClaimAcquire(e) ==
  LET m == pending[e].matter
      id == Len(claims) + 1
      epoch == Max({0} \cup {claims[c].epoch : c \in ClaimsOf(m)}) + 1
      batch == IF ClaimsOf(m) = {} THEN <<Event(e, "batch.anonymous-created", m, <<m>>)>> ELSE <<>>
      opened == <<Event(e, "claim.acquired", id, <<m, epoch>>),
                  Event(e, "dispatch.opened", pending[e].dispatch, <<id>>)>>
  IN  /\ Op(e) = "claim.acquire"
      /\ \/ m \notin Matters /\ Refuse(e)
         \/ m \in Matters /\ Contended(m, pending[e].dispatch) /\ Refuse(e)
         \/ /\ m \in Matters /\ ~Contended(m, pending[e].dispatch)
            /\ Finish(e, TRUE, batch \o opened)
            /\ claims' = Append(claims, Grant(e, epoch, Len(log')))
            /\ journals' = Append(journals, <<[state |-> "open", entries |-> <<>>]>>)
            /\ UNCHANGED <<claimVars, nonces>>

-----------------------------------------------------------------------------
(* The journal.  A claim-delivered command is appended in the transaction of *)
(* its submission, and only behind entries that are all terminal.            *)
JournalOpen(e, c) == Owns(e, c) /\ Gen(c).state = "open"

Appendable(e, c) == JournalOpen(e, c) /\ Settled(Gen(c).entries)

AppendClaimJournalEntry(e, c) ==
  journals' = [journals EXCEPT ![c][Len(journals[c])].entries = Append(@, [cmd |-> Cid(e), st |-> "pending"])]

(* The owner acknowledges entry i with its retained receipt, installed.      *)
AcknowledgeOwnedClaimJournalEntry(e, c, i) ==
  LET es == Gen(c).entries IN
  /\ JournalOpen(e, c) /\ i \in DOMAIN es
  /\ es[i].st = "pending" /\ es[i].cmd \in DOMAIN receipts
  /\ i > 1 => es[i - 1].st = "terminal"
  /\ journals' = [journals EXCEPT ![c][Len(journals[c])].entries[i].st =
                    IF receipts[es[i].cmd].ok THEN "terminal" ELSE "quarantined"]
  /\ UNCHANGED <<pending, receipts, log, claimVars, claims, nonces>>

SealOwnedClaimJournal(e, c) ==
  /\ JournalOpen(e, c)
  /\ Settled(Gen(c).entries)
  /\ journals' = [journals EXCEPT ![c][Len(journals[c])].state = "sealed"]
  /\ UNCHANGED <<pending, receipts, log, claimVars, claims, nonces>>

-----------------------------------------------------------------------------
(* claim.release, claim.stand-down and claim.journal-repair.                 *)
SubmitRelease(e, c, count) ==
  /\ Owns(e, c)
  /\ Submit(e, [op |-> "claim.release", claim |-> c, gen |-> Len(journals[c]), barrier |-> count])
  /\ UNCHANGED tables

(* The acting Environment brings the owner's attestation; its nonce may not  *)
(* have served another command.                                              *)
SubmitStandDown(e, c, nonce) ==
  /\ c \in DOMAIN claims /\ nonce \notin nonces
  /\ Submit(e, [op |-> "claim.stand-down", claim |-> c])
  /\ nonces' = nonces \cup {nonce}
  /\ UNCHANGED <<claimVars, claims, journals>>

(* A repair names the generation and the head it replaces or abandons.       *)
SubmitRepair(e, c, head, action) ==
  /\ Owns(e, c)
  /\ Submit(e, [op |-> "claim.journal-repair", claim |-> c, gen |-> Len(journals[c]),
                head |-> head, action |-> action])
  /\ UNCHANGED tables

Close(e, c, kind, word) ==
  /\ Finish(e, TRUE, <<Event(e, "dispatch.closed", claims[c].dispatch, <<c>>), Event(e, word, c, <<c>>)>>)
  /\ claims' = [claims EXCEPT ![c].closed = kind, ![c].by = e]
  /\ UNCHANGED <<claimVars, journals, nonces>>

CompleteRelease(e) ==
  LET c == pending[e].claim
      met == /\ Owns(e, c) /\ Len(journals[c]) = pending[e].gen /\ Gen(c).state = "sealed"
             /\ pending[e].barrier = Len(Gen(c).entries) /\ Settled(Gen(c).entries)
  IN  /\ Op(e) = "claim.release"
      /\ \/ met /\ Close(e, c, "release", "claim.released")
         \/ ~met /\ Refuse(e)

CompleteStandDown(e) ==
  LET c == pending[e].claim
  IN  /\ Op(e) = "claim.stand-down"
      /\ \/ Open(c) /\ claims[c].owner # e /\ Close(e, c, "stand-down", "claim.stood-down")
         \/ ~(Open(c) /\ claims[c].owner # e) /\ Refuse(e)

(* The head of a journal is its first entry that is not terminal.  It may be *)
(* given up when its command ended without success or was never submitted.   *)
HeadOf(entries) == Min({i \in DOMAIN entries : entries[i].st # "terminal"} \cup {Len(entries) + 1})
Submitted(cmd) == cmd \in DOMAIN receipts \/ (pending[cmd[1]] # NoCmd /\ Cid(cmd[1]) = cmd)
MutHopeless(cmd) == TRUE
Hopeless(cmd) == IF cmd \in DOMAIN receipts THEN ~receipts[cmd].ok ELSE ~Submitted(cmd)

CompleteRepair(e) ==
  LET c == pending[e].claim
      g == pending[e].gen
      es == journals[c][g].entries
      next == Append(<<e, Cid(e)[2] + 1>>, "replacement")
      met == /\ JournalOpen(e, c) /\ Len(journals[c]) = g
             /\ pending[e].head = HeadOf(es) /\ pending[e].head \in DOMAIN es
             /\ Hopeless(es[pending[e].head].cmd)
      fresh == IF pending[e].action = "replace" THEN <<[cmd |-> next, st |-> "pending"]>> ELSE <<>>
  IN  /\ Op(e) = "claim.journal-repair"
      /\ \/ /\ met
            /\ Finish(e, TRUE, <<Event(e, "claim.journal-repaired", c, <<g>>)>>)
            /\ journals' = [journals EXCEPT ![c] = Append([@ EXCEPT ![g].state = "quarantined"],
                                                          [state |-> "open", entries |-> fresh])]
            /\ UNCHANGED <<claimVars, claims, nonces>>
         \/ ~met /\ Refuse(e)
=============================================================================
