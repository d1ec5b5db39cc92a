------------------------------- MODULE Commands -------------------------------
(***************************************************************************)
(* How the authority admits, executes, resumes and finishes a command:     *)
(* internal/authoritystore/commands.go (submitIdentity, RecoverCommand,    *)
(* ReleasePendingCommandExecution, ClaimPendingCommandCompletion,          *)
(* CompleteCommand, finishCommandTx) driven by the handlers of             *)
(* internal/wipdauthority (m5_commands.go, m5_scheduler_hook_result.go),   *)
(* over connections that lose answers and with restarts of the process.    *)
(*                                                                         *)
(* What a command means is left to the modules of the operations; here a   *)
(* completion succeeds with some number of events or is refused with none. *)
(* A command is its Environment and its sequence number (the Environment's *)
(* journal never reuses one), and its family, which decides how it is      *)
(* executed:                                                               *)
(*   "fold"      CompleteCommand, whose first completion is retained;      *)
(*   "lifecycle" CompleteConnectedLifecycle, which retains nothing;        *)
(*   "claim"     claim operations, whose owner is abandoned on failure;    *)
(*   "hook"      finished by a later scheduler hook result;                *)
(*   "sweep"     submitted and finished in one transaction.                *)
(***************************************************************************)
EXTENDS Enrollment

CONSTANTS
    Effects, \* how many events a finished command can have appended
    Family,  \* the families the Environments submit
    MaxSeq,  \* bound: commands per Environment
    MaxDraw, \* bound: completions evaluated
    Ahead    \* how far past the clock an event id can lie

ASSUME CommandConstants ==
    /\ Family \subseteq {"fold", "lifecycle", "claim", "hook", "sweep"}
    /\ Effects \subseteq Nat /\ MaxSeq \in Nat /\ MaxDraw \in Nat /\ Ahead \in Nat \ {0}

Cmd == Env \X (1..MaxSeq)

VARIABLES
    rows,    \* submissions: Cmd -> absent, submitted or terminal
    family,  \* submissions.operation_name, as a family
    head,    \* environments.sequence_head
    log,     \* authority_events in position order: id, cmd
    ranges,  \* terminal_receipts: Cmd -> first and last position, 0 for none
    exec     \* Store.owners and Store.executions, with the goroutine using them

rowVars == <<rows, family, head, log, ranges>>
commandVars == <<rowVars, exec>>
vars == <<identityVars, clock, commandVars>>

\* exec[c].at: no owner ("none"); owned and not evaluated ("fresh"); evaluated and
\* on its way to CompleteCommand ("drawn"); completion retained with nobody
\* running it ("kept"); completion retained and claimed by a retry ("claimed");
\* owned, nothing retained, nobody running ("wedged").
NoOwner == [at |-> "none", id |-> 0, when |-> 0]

Init ==
    /\ IdentityInit
    /\ clock = 1
    /\ rows = [c \in Cmd |-> "absent"]
    /\ family = [c \in Cmd |-> "fold"]
    /\ head = [e \in Env |-> 0]
    /\ log = <<>>
    /\ ranges = [c \in Cmd |-> [first |-> 0, last |-> 0]]
    /\ exec = [c \in Cmd |-> NoOwner]

LastId == IF log = <<>> THEN 0 ELSE log[Len(log)].id
UsedIds == {exec[c].id : c \in Cmd} \cup {log[i].id : i \in DOMAIN log}

-----------------------------------------------------------------------------
(* Admission *)

\* submitIdentity for a new id, in one transaction, then the in-memory owner.
\* A scheduler hook's owner is released at once.
SubmitCommand(c, f) ==
    /\ VerifyPeer(c[1])
    /\ rows[c] = "absent"
    /\ c[2] = head[c[1]] + 1
    /\ f # "sweep"
    /\ rows' = [rows EXCEPT ![c] = "submitted"]
    /\ family' = [family EXCEPT ![c] = f]
    /\ exec' = [exec EXCEPT ![c] = IF f = "hook" THEN NoOwner ELSE [NoOwner EXCEPT !.at = "fresh"]]
    /\ UNCHANGED <<identityVars, clock, head, log, ranges>>

\* Mutant: a retry evaluates again instead of claiming what is retained.
MutRetryCommand(c) ==
    /\ VerifyPeer(c[1])
    /\ rows[c] = "submitted"
    /\ exec[c].at \in {"kept", "none"}
    /\ exec' = [exec EXCEPT ![c] = [NoOwner EXCEPT !.at = "fresh"]]
    /\ UNCHANGED <<identityVars, clock, rowVars>>

\* An exact retry of a submitted command: it claims the retained completion,
\* or recovers a submission no owner of this process holds, or only waits.
RetryCommand(c) ==
    /\ VerifyPeer(c[1])
    /\ rows[c] = "submitted"
    /\ family[c] # "hook"
    /\ \/ /\ exec[c].at = "kept"
          /\ family[c] = "fold"
          /\ exec' = [exec EXCEPT ![c].at = "claimed"]
       \/ /\ exec[c].at = "none"
          /\ exec' = [exec EXCEPT ![c].at = "fresh"]
    /\ UNCHANGED <<identityVars, clock, rowVars>>

\* A scheduler hook result: it claims the retained completion or recovers the
\* submission and evaluates at once.
HookResult(c) ==
    /\ VerifyPeer(c[1])
    /\ rows[c] = "submitted"
    /\ family[c] = "hook"
    /\ \/ /\ exec[c].at = "kept"
          /\ exec' = [exec EXCEPT ![c].at = "claimed"]
          /\ UNCHANGED clock
       \/ /\ exec[c].at = "none"
          /\ clock <= MaxDraw
          /\ exec' = [exec EXCEPT ![c] = [at |-> "drawn", id |-> clock + 1, when |-> clock + 1]]
          /\ clock + 1 \notin UsedIds
          /\ clock' = clock + 1
    /\ UNCHANGED <<identityVars, rowVars>>

\* A hook result that recovers the submission and is refused by CompleteCommand
\* before it takes the lock: an owner that has retained nothing is left.  (One
\* that differs from a retained completion is released again: no change.)
MismatchedHookResult(c) ==
    /\ VerifyPeer(c[1])
    /\ rows[c] = "submitted"
    /\ family[c] = "hook"
    /\ exec[c].at = "none"
    /\ exec' = [exec EXCEPT ![c].at = "wedged"]
    /\ UNCHANGED <<identityVars, clock, rowVars>>

-----------------------------------------------------------------------------
(* Execution *)

\* executeSubmitted draws its event id from the wall clock outside the store's
\* lock; lifecycle and birth ids lie a little ahead of it.
Evaluate(c, id) ==
    /\ exec[c].at = "fresh"
    /\ clock <= MaxDraw
    /\ id \in (clock + 1)..(clock + IF family[c] \in {"fold", "lifecycle"} THEN Ahead ELSE 1)
    /\ id \notin UsedIds
    /\ exec' = [exec EXCEPT ![c] = [at |-> "drawn", id |-> id, when |-> clock + 1]]
    /\ clock' = clock + 1
    /\ UNCHANGED <<identityVars, rowVars>>

Running(c) == exec[c].at \in {"drawn", "claimed"}

\* finishCommandTx: events, receipt, signed artifact, terminal state and
\* sequence head in one transaction; then the owner is dropped.
Finish(c, id, when, events) ==
    /\ c[2] = head[c[1]] + 1
    /\ KeySigns(when)
    /\ log' = log \o [i \in 1..events |-> [id |-> id, cmd |-> c]]
    /\ ranges' = [ranges EXCEPT ![c] = IF events = 0 THEN @
                     ELSE [first |-> Len(log) + 1, last |-> Len(log) + events]]
    /\ artifacts' = Append(artifacts, [gen |-> Len(artifactKeys), cmd |-> c, at |-> when])
    /\ rows' = [rows EXCEPT ![c] = "terminal"]
    /\ head' = [head EXCEPT ![c[1]] = c[2]]

\* CompleteCommand, CompleteConnectedLifecycle or CompleteClaimLifecycle
\* commits; an event id must lie above the last one of the log.
CompleteCommand(c, events) ==
    /\ Running(c)
    /\ rows[c] = "submitted"
    /\ events > 0 => exec[c].id > LastId
    /\ Finish(c, exec[c].id, exec[c].when, events)
    /\ exec' = [exec EXCEPT ![c] = NoOwner]
    /\ UNCHANGED <<artifactKeys, cas, certs, consumed, leaf, clock, family>>

\* Mutant: abandoning a failed attempt also withdraws the submission.
MutCompletionFails(c) ==
    /\ Running(c)
    /\ exec' = [exec EXCEPT ![c] = NoOwner]
    /\ rows' = [rows EXCEPT ![c] = "absent"]
    /\ UNCHANGED <<identityVars, clock, family, head, log, ranges>>

\* The attempt fails after the lock is taken, because the signer failed or
\* because the transaction refused the completion: the submission stays.
CompletionFails(c) ==
    /\ Running(c)
    /\ exec' = [exec EXCEPT ![c] =
           CASE family[c] \in {"fold", "hook"} -> [@ EXCEPT !.at = "kept"]
             [] family[c] = "claim" -> NoOwner
             [] OTHER -> [NoOwner EXCEPT !.at = "wedged"]]
    /\ UNCHANGED <<identityVars, clock, rowVars>>

\* SweepAnonymousBatch: admission and terminal transaction are one.
Sweep(c, events) ==
    /\ VerifyPeer(c[1])
    /\ rows[c] = "absent"
    /\ clock <= MaxDraw
    /\ clock + 1 \notin UsedIds
    /\ events > 0 => clock + 1 > LastId
    /\ Finish(c, clock + 1, clock + 1, events)
    /\ family' = [family EXCEPT ![c] = "sweep"]
    /\ clock' = clock + 1
    /\ UNCHANGED <<artifactKeys, cas, certs, consumed, leaf, exec>>

-----------------------------------------------------------------------------
(* What reopening a store verifies of these tables *)

Events(c) == {i \in DOMAIN log : log[i].cmd = c}

\* A submission is of a family the store knows and has a sequence number.
checkSubmissions ==
    \A c \in Cmd : rows[c] # "absent" => family[c] \in Family /\ c[2] > 0

\* A submission without a receipt is pending, and of no family that is finished
\* at once; one with a receipt is terminal and signed exactly once.
checkReceipts ==
    \A c \in Cmd :
        LET signed == {i \in DOMAIN artifacts : artifacts[i].cmd = c}
        IN  /\ rows[c] = "submitted" => family[c] # "sweep"
            /\ Cardinality(signed) = IF rows[c] = "terminal" THEN 1 ELSE 0

\* A command's events are exactly the range of its receipt.
checkRanges ==
    \A c \in Cmd :
        Events(c) = IF ranges[c].first = 0 THEN {} ELSE ranges[c].first..ranges[c].last

checkCounts == Len(artifacts) = Cardinality({c \in Cmd : rows[c] = "terminal"})

\* Ids ascend from command to command, and every event's command is terminal.
checkEventChain ==
    /\ \A i, j \in DOMAIN log : i < j /\ log[i].cmd # log[j].cmd => log[i].id < log[j].id
    /\ \A i \in DOMAIN log : rows[log[i].cmd] = "terminal"

\* A head counts the terminal commands and is the last of them; a pending
\* command is the next one.
checkSequenceHeads ==
    /\ \A e \in Env :
           LET done == {n \in 1..MaxSeq : rows[<<e, n>>] = "terminal"}
           IN  Cardinality(done) = head[e] /\ \A n \in done : n <= head[e]
    /\ \A c \in Cmd : rows[c] = "submitted" => c[2] = head[c[1]] + 1

checkSchema ==
    /\ checkStep3State
    /\ checkSubmissions /\ checkReceipts /\ checkRanges /\ checkCounts  \* checkStep4State
    /\ checkEventChain /\ checkSequenceHeads                            \* checkStep4Events

\* The process dies and OpenExisting builds a new Store over the same files:
\* every owner and retained completion is gone.
Restart ==
    /\ checkSchema
    /\ exec' = [c \in Cmd |-> NoOwner]
    /\ UNCHANGED <<identityVars, clock, rowVars>>

-----------------------------------------------------------------------------
IdentityStep == IdentityNext /\ UNCHANGED commandVars

CommandStep ==
    \/ \E c \in Cmd, f \in Family : SubmitCommand(c, f)
    \/ \E c \in Cmd :
           \/ RetryCommand(c) \/ HookResult(c) \/ MismatchedHookResult(c)
           \/ CompletionFails(c)
           \/ \E id \in (clock + 1)..(clock + Ahead) : Evaluate(c, id)
           \/ \E n \in Effects : CompleteCommand(c, n)
           \/ "sweep" \in Family /\ \E n \in Effects : Sweep(c, n)

Next == IdentityStep \/ CommandStep \/ Restart

Spec == Init /\ [][Next]_vars

-----------------------------------------------------------------------------
(* Properties *)

\* The files of a running authority can always be reopened: whatever the
\* interleaving of rotation, fencing, submission, failure and completion,
\* every check of OpenExisting holds of what is committed.
Reopens == checkSchema

\* The refinement mapping to Ledger.
L == INSTANCE Ledger WITH
    open <- [e \in Env |-> \E n \in 1..MaxSeq : rows[<<e, n>>] = "submitted"],
    head <- head,
    finished <- [i \in DOMAIN artifacts |->
                    [env |-> artifacts[i].cmd[1], seq |-> artifacts[i].cmd[2],
                     events |-> Cardinality(Events(artifacts[i].cmd))]]

\* The code implements the promise of Ledger: accepted and finished in
\* sequence, one at a time, each exactly once.
KeepsLedger == L!Spec

\* A completion is evaluated at most once while the process lives: a retry
\* that finds an owner continues with what the first evaluation retained.
EvaluatedOnce ==
    [][\A c \in Cmd : exec[c].at \in {"drawn", "kept", "claimed"} /\ family[c] \in {"fold", "hook"}
           => exec'[c] = NoOwner \/ (exec'[c].id = exec[c].id /\ exec'[c].when = exec[c].when)]_vars

\* "Recovery MUST resume or finish the one durable submission": a submission
\* whose Environment keeps retrying it is finished.  It is not once a later
\* event id of another Environment is committed before the retained one.
RetryFinishes == \A c \in Cmd : rows[c] = "submitted" ~> rows[c] = "terminal"
===============================================================================
