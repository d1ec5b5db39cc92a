--------------------------- MODULE CommandsProofs ---------------------------
(***************************************************************************)
(* That the command path of the authority implements Ledger, for any number *)
(* of Environments and commands, through retries, failures, restarts and    *)
(* rotations; that a retained completion is not evaluated again; and that   *)
(* every check of OpenExisting passes on what is committed.                 *)
(***************************************************************************)
EXTENDS Commands, SequenceTheorems, FiniteSetTheorems, TLAPS

-----------------------------------------------------------------------------
(* Sequences whose elements have no common type.                             *)
IsSeq(s) == \E S : s \in Seq(S)

(* A function on 1..n is a sequence of length n: the events that             *)
(* finishCommandTx inserts.                                                  *)
LEMMA FunctionIsSeq ==
  ASSUME NEW n \in Nat, NEW S, NEW f \in [1 .. n -> S]
  PROVE  f \in Seq(S) /\ Len(f) = n
<1>1. Seq(S) = UNION {[1 .. k -> S] : k \in Nat} BY SeqDef
<1>2. f \in Seq(S) BY <1>1
<1> QED BY <1>2

(* What Append does to domain and elements: the receipt that finishCommandTx *)
(* adds to the signed artifacts.                                             *)
LEMMA AppendIsSeq ==
  ASSUME NEW s, IsSeq(s), NEW x
  PROVE  /\ IsSeq(Append(s, x))
         /\ Len(s) \in Nat
         /\ DOMAIN s = 1 .. Len(s)
         /\ DOMAIN Append(s, x) = 1 .. Len(s) + 1
         /\ \A i \in 1 .. Len(s) : Append(s, x)[i] = s[i]
         /\ Append(s, x)[Len(s) + 1] = x
<1>1. PICK S : s \in Seq(S) BY DEF IsSeq
<1>2. s \in Seq(S \cup {x}) BY <1>1, SeqMonotonic
<1>3. Append(s, x) \in Seq(S \cup {x}) BY <1>2
<1> QED BY <1>1, <1>2, <1>3, AppendProperties DEF IsSeq

(* What appending n equal elements does to domain and elements: the events   *)
(* of one command at the end of authority_events.                            *)
LEMMA ConcatIsSeq ==
  ASSUME NEW s, IsSeq(s), NEW x, NEW n \in Nat, NEW u \in [1 .. n -> {x}]
  PROVE  /\ IsSeq(s \o u)
         /\ Len(s) \in Nat
         /\ DOMAIN s = 1 .. Len(s)
         /\ DOMAIN (s \o u) = 1 .. Len(s) + n
         /\ \A i \in 1 .. Len(s) : (s \o u)[i] = s[i]
         /\ \A i \in Len(s) + 1 .. Len(s) + n : (s \o u)[i] = x
<1>1. PICK S : s \in Seq(S) BY DEF IsSeq
<1>2. s \in Seq(S \cup {x}) BY <1>1, SeqMonotonic
<1>3. u \in Seq(S \cup {x}) /\ Len(u) = n
  <2>1. u \in [1 .. n -> S \cup {x}] OBVIOUS
  <2> QED BY <2>1, FunctionIsSeq
<1>4. \A i \in 1 .. n : u[i] = x OBVIOUS
<1>5. s \o u \in Seq(S \cup {x}) BY <1>2, <1>3
<1>6. Len(s \o u) = Len(s) + n BY <1>2, <1>3
<1>7. \A i \in 1 .. Len(s) : (s \o u)[i] = s[i] BY <1>2, <1>3
<1>8. \A i \in Len(s) + 1 .. Len(s) + n : (s \o u)[i] = x
  <2> SUFFICES ASSUME NEW i \in Len(s) + 1 .. Len(s) + n PROVE (s \o u)[i] = x OBVIOUS
  <2>1. (s \o u)[i] = u[i - Len(s)] BY <1>2, <1>3
  <2> QED BY <2>1, <1>2, <1>3, <1>4
<1>9. Len(s) \in Nat /\ DOMAIN s = 1 .. Len(s) /\ DOMAIN (s \o u) = 1 .. Len(s) + n
  BY <1>1, <1>5, <1>6
<1> QED BY <1>5, <1>7, <1>8, <1>9 DEF IsSeq

(* A function on 1..n+1 that agrees with s on 1..n and is x at n+1 is        *)
(* Append(s, x).                                                             *)
LEMMA IsAppend ==
  ASSUME NEW n \in Nat, NEW S, NEW x \in S, NEW s \in [1 .. n -> S], NEW t \in [1 .. n + 1 -> S],
         \A i \in 1 .. n : t[i] = s[i], t[n + 1] = x
  PROVE  t = Append(s, x)
<1>1. n + 1 \in Nat OBVIOUS
<1>2. s \in Seq(S) /\ Len(s) = n BY FunctionIsSeq
<1>3. t \in Seq(S) /\ Len(t) = n + 1 BY <1>1, FunctionIsSeq
<1>4. Append(s, x) \in Seq(S) /\ Len(Append(s, x)) = n + 1 BY <1>2
<1>5. \A i \in 1 .. n + 1 : t[i] = Append(s, x)[i]
  <2>1. Append(s, x)[n + 1] = x BY <1>2, AppendProperties
  <2>2. \A i \in 1 .. n : Append(s, x)[i] = s[i] BY <1>2, AppendProperties
  <2>3. \A i \in 1 .. n + 1 : i \in 1 .. n \/ i = n + 1 OBVIOUS
  <2> QED BY <2>1, <2>2, <2>3
<1> QED BY <1>3, <1>4, <1>5, SeqEqual
-----------------------------------------------------------------------------
(* The inductive invariant: what is finished lies below the head of its       *)
(* Environment, what is submitted lies right above it, and only finished      *)
(* commands have events and receipts.                                        *)
RowInv ==
  /\ rows \in [Cmd -> {"absent", "submitted", "terminal"}]
  /\ head \in [Env -> Nat]
  /\ \A c \in Cmd : rows[c] = "terminal" => c[2] <= head[c[1]]
  /\ \A c \in Cmd : rows[c] = "submitted" => c[2] = head[c[1]] + 1

LogInv ==
  /\ IsSeq(log) /\ IsSeq(artifacts)
  /\ \A i \in DOMAIN log : log[i].cmd \in Cmd /\ rows[log[i].cmd] = "terminal"
  /\ \A i \in DOMAIN artifacts : artifacts[i].cmd \in Cmd /\ rows[artifacts[i].cmd] = "terminal"

Places == {"none", "fresh", "drawn", "kept", "claimed", "wedged"}
ExecInv ==
  /\ clock \in Nat
  /\ exec \in [Cmd -> [at : Places, id : Int, when : Int]]
  /\ \A c \in Cmd : rows[c] # "submitted" => exec[c].at = "none"

CommandInv == RowInv /\ LogInv /\ ExecInv

(* A command is its Environment and its sequence number.                     *)
LEMMA CmdParts ==
  ASSUME NEW c \in Cmd
  PROVE  c[1] \in Env /\ c[2] \in 1 .. MaxSeq /\ c[2] \in Nat /\ c = <<c[1], c[2]>>
BY CommandConstants DEF Cmd

(* The freshly created store satisfies the invariant: it has no submission,  *)
(* event, receipt or owner.                                                  *)
LEMMA InitInv == Init => CommandInv
<1> SUFFICES ASSUME Init PROVE CommandInv OBVIOUS
<1>1. RowInv BY CmdParts DEF Init, RowInv
<1>2. log = <<>> /\ artifacts = <<>> BY DEF Init, IdentityInit
<1>3. <<>> \in Seq({}) OBVIOUS
<1>4. LogInv BY <1>2, <1>3 DEF LogInv, IsSeq
<1>5. ExecInv BY DEF Init, ExecInv, NoOwner, Places
<1> QED BY <1>1, <1>4, <1>5 DEF CommandInv

(* finishCommandTx keeps the rows, the log and the receipts in the           *)
(* invariant.                                                                *)
LEMMA FinishInv ==
  ASSUME CommandInv, NEW c \in Cmd, NEW id, NEW when, NEW n \in Nat,
         rows[c] # "terminal", Finish(c, id, when, n)
  PROVE  RowInv' /\ LogInv'
<1>1. RowInv'
  <2>1. rows' \in [Cmd -> {"absent", "submitted", "terminal"}] BY DEF Finish, CommandInv, RowInv
  <2>2. head' \in [Env -> Nat] BY CmdParts DEF Finish, CommandInv, RowInv
  <2>3. ASSUME NEW d \in Cmd, rows'[d] = "terminal" PROVE d[2] <= head'[d[1]]
    <3>1. CASE d = c BY <3>1, CmdParts DEF Finish, CommandInv, RowInv
    <3>2. CASE d # c
      <4>1. rows[d] = "terminal" BY <2>3, <3>2 DEF Finish, CommandInv, RowInv
      <4>2. d[2] <= head[d[1]] BY <4>1 DEF CommandInv, RowInv
      <4> QED BY <4>2, CmdParts DEF Finish, CommandInv, RowInv
    <3> QED BY <3>1, <3>2
  <2>4. ASSUME NEW d \in Cmd, rows'[d] = "submitted" PROVE d[2] = head'[d[1]] + 1
    <3>1. d # c BY <2>4 DEF Finish, CommandInv, RowInv
    <3>2. rows[d] = "submitted" BY <2>4, <3>1 DEF Finish, CommandInv, RowInv
    <3>3. d[2] = head[d[1]] + 1 BY <3>2 DEF CommandInv, RowInv
    <3>4. d[1] # c[1] BY <3>1, <3>3, CmdParts DEF Finish
    <3> QED BY <3>3, <3>4, CmdParts DEF Finish, CommandInv, RowInv
  <2> QED BY <2>1, <2>2, <2>3, <2>4 DEF RowInv
<1>2. \A d \in Cmd : rows[d] = "terminal" => rows'[d] = "terminal"
  BY DEF Finish, CommandInv, RowInv
<1>3. rows'[c] = "terminal" BY DEF Finish, CommandInv, RowInv
<1>4. IsSeq(log') /\ \A i \in DOMAIN log' : log'[i].cmd \in Cmd /\ rows'[log'[i].cmd] = "terminal"
  <2> DEFINE x == [id |-> id, cmd |-> c]
             u == [i \in 1 .. n |-> x]
             t == log \o u
  <2>1. IsSeq(log) BY DEF CommandInv, LogInv
  <2>2. log' = t BY DEF Finish
  <2>3. x.cmd = c OBVIOUS
  <2>4. u \in [1 .. n -> {x}] OBVIOUS
  <2> HIDE DEF x, u
  <2>5. IsSeq(t) BY <2>4, <2>1, ConcatIsSeq DEF IsSeq
  <2>6. /\ Len(log) \in Nat /\ DOMAIN log = 1 .. Len(log)
        /\ DOMAIN t = 1 .. Len(log) + n
        /\ \A i \in 1 .. Len(log) : t[i] = log[i]
        /\ \A i \in Len(log) + 1 .. Len(log) + n : t[i] = x
    BY <2>4, <2>1, ConcatIsSeq
  <2> HIDE DEF t
  <2>7. ASSUME NEW i \in DOMAIN t PROVE t[i].cmd \in Cmd /\ rows'[t[i].cmd] = "terminal"
    <3>1. CASE i \in 1 .. Len(log) BY <3>1, <2>6, <1>2 DEF CommandInv, LogInv
    <3>2. CASE i \in Len(log) + 1 .. Len(log) + n BY <3>2, <2>3, <2>6, <1>3
    <3> QED BY <3>1, <3>2, <2>6
  <2> QED BY <2>2, <2>5, <2>7
<1>5. /\ IsSeq(artifacts')
      /\ \A i \in DOMAIN artifacts' : artifacts'[i].cmd \in Cmd /\ rows'[artifacts'[i].cmd] = "terminal"
  <2> DEFINE x == [gen |-> Len(artifactKeys), cmd |-> c, at |-> when]
  <2>1. IsSeq(artifacts) BY DEF CommandInv, LogInv
  <2>2. artifacts' = Append(artifacts, x) BY DEF Finish
  <2>3. x.cmd = c OBVIOUS
  <2> HIDE DEF x
  <2>4. /\ IsSeq(Append(artifacts, x)) /\ Len(artifacts) \in Nat /\ DOMAIN artifacts = 1 .. Len(artifacts)
        /\ DOMAIN Append(artifacts, x) = 1 .. Len(artifacts) + 1
        /\ \A i \in 1 .. Len(artifacts) : Append(artifacts, x)[i] = artifacts[i]
        /\ Append(artifacts, x)[Len(artifacts) + 1] = x
    BY <2>1, AppendIsSeq
  <2>5. ASSUME NEW i \in DOMAIN artifacts'
        PROVE  artifacts'[i].cmd \in Cmd /\ rows'[artifacts'[i].cmd] = "terminal"
    <3>1. CASE i \in 1 .. Len(artifacts) BY <3>1, <2>2, <2>4, <1>2 DEF CommandInv, LogInv
    <3>2. CASE i = Len(artifacts) + 1 BY <3>2, <2>2, <2>3, <2>4, <1>3
    <3> QED BY <3>1, <3>2, <2>2, <2>4
  <2> QED BY <2>2, <2>4, <2>5
<1> QED BY <1>1, <1>4, <1>5 DEF LogInv

(* Every step keeps the invariant: admission, retry, hook result,            *)
(* evaluation, completion, its failure, sweep, rotation and restart.         *)
LEMMA NextInv == CommandInv /\ [Next]_vars => CommandInv'
<1> SUFFICES ASSUME CommandInv, [Next]_vars PROVE CommandInv' OBVIOUS
<1>1. ASSUME UNCHANGED <<artifacts, rows, head, log>> PROVE RowInv' /\ LogInv'
  BY <1>1 DEF CommandInv, RowInv, LogInv
<1>2. ASSUME UNCHANGED <<clock, rows, exec>> PROVE ExecInv'
  BY <1>2 DEF CommandInv, ExecInv
<1>3. ASSUME NEW c \in Cmd, UNCHANGED <<clock, rows>>, rows[c] = "submitted",
             NEW x \in [at : Places, id : Int, when : Int], exec' = [exec EXCEPT ![c] = x]
      PROVE  ExecInv'
  BY <1>3 DEF CommandInv, ExecInv
<1>4. CASE IdentityStep
  <2>1. UNCHANGED <<rows, head, log, exec, clock>>
    BY <1>4 DEF IdentityStep, commandVars, rowVars, IdentityNext, InstallEnvironmentCA, RegisterArtifactKey,
       FenceArtifactKey, FenceEnvironmentCA, IssueEnvironmentCertificate, ReissueEnvironmentCertificate,
       RenewEnvironmentCertificate, RevokeEnvironmentCertificate
  <2>2. UNCHANGED artifacts
    BY <1>4 DEF IdentityStep, IdentityNext, InstallEnvironmentCA, RegisterArtifactKey,
       FenceArtifactKey, FenceEnvironmentCA, IssueEnvironmentCertificate, ReissueEnvironmentCertificate,
       RenewEnvironmentCertificate, RevokeEnvironmentCertificate
  <2> QED BY <2>1, <2>2, <1>1, <1>2 DEF CommandInv
<1>5. CASE Restart
  <2>1. UNCHANGED <<artifacts, rows, head, log, clock>> BY <1>5 DEF Restart, rowVars, identityVars
  <2>2. ExecInv' BY <1>5, <2>1 DEF Restart, CommandInv, ExecInv, NoOwner, Places
  <2> QED BY <2>1, <2>2, <1>1 DEF CommandInv
<1>6. CASE UNCHANGED vars
  BY <1>6, <1>1, <1>2 DEF vars, commandVars, rowVars, identityVars, CommandInv
<1>7. ASSUME NEW c \in Cmd, NEW f \in Family, SubmitCommand(c, f) PROVE CommandInv'
  <2>1. c[1] \in Env /\ c[2] \in Nat /\ c = <<c[1], c[2]>> BY CmdParts
  <2>2. RowInv'
    <3>1. rows' \in [Cmd -> {"absent", "submitted", "terminal"}] /\ head' = head
      BY <1>7 DEF SubmitCommand, CommandInv, RowInv
    <3>2. \A d \in Cmd : rows'[d] = "terminal" => d[2] <= head[d[1]]
      BY <1>7 DEF SubmitCommand, CommandInv, RowInv
    <3>3. \A d \in Cmd : rows'[d] = "submitted" => d[2] = head[d[1]] + 1
      BY <1>7 DEF SubmitCommand, CommandInv, RowInv
    <3> QED BY <3>1, <3>2, <3>3 DEF CommandInv, RowInv
  <2>3. LogInv'
    <3>1. \A d \in Cmd : rows[d] = "terminal" => rows'[d] = "terminal"
      BY <1>7 DEF SubmitCommand, CommandInv, RowInv
    <3>2. UNCHANGED <<artifacts, log>> BY <1>7 DEF SubmitCommand, identityVars
    <3> QED BY <3>1, <3>2 DEF CommandInv, LogInv
  <2>4. ExecInv'
    <3> DEFINE x == IF f = "hook" THEN NoOwner ELSE [NoOwner EXCEPT !.at = "fresh"]
    <3>1. x \in [at : Places, id : Int, when : Int] BY DEF NoOwner, Places
    <3>2. exec' = [exec EXCEPT ![c] = x] BY <1>7 DEF SubmitCommand
    <3>3. clock' = clock /\ rows' = [rows EXCEPT ![c] = "submitted"] BY <1>7 DEF SubmitCommand
    <3> HIDE DEF x
    <3> QED BY <3>1, <3>2, <3>3 DEF CommandInv, RowInv, ExecInv
  <2> QED BY <2>2, <2>3, <2>4 DEF CommandInv
<1>8. ASSUME NEW c \in Cmd, RetryCommand(c) \/ MismatchedHookResult(c) PROVE CommandInv'
  <2>1. UNCHANGED <<artifacts, rows, head, log, clock>> /\ rows[c] = "submitted"
    BY <1>8 DEF RetryCommand, MismatchedHookResult, rowVars, identityVars
  <2>2. PICK p \in Places : exec' = [exec EXCEPT ![c].at = p]
    BY <1>8 DEF RetryCommand, MismatchedHookResult, Places
  <2>3. ExecInv' BY <2>1, <2>2 DEF CommandInv, ExecInv
  <2> QED BY <2>1, <2>3, <1>1 DEF CommandInv
<1>9. ASSUME NEW c \in Cmd, HookResult(c) PROVE CommandInv'
  <2>1. UNCHANGED <<artifacts, rows, head, log>> /\ rows[c] = "submitted"
    BY <1>9 DEF HookResult, rowVars, identityVars
  <2>2. clock \in Nat /\ clock' \in Nat BY <1>9 DEF HookResult, CommandInv, ExecInv
  <2>3. exec' \in [Cmd -> [at : Places, id : Int, when : Int]]
    BY <1>9, <2>2 DEF HookResult, CommandInv, ExecInv, Places
  <2>4. \A d \in Cmd \ {c} : exec'[d] = exec[d] BY <1>9 DEF HookResult, CommandInv, ExecInv
  <2>5. ExecInv' BY <2>1, <2>2, <2>3, <2>4 DEF CommandInv, ExecInv
  <2> QED BY <2>1, <2>5, <1>1 DEF CommandInv
<1>10. ASSUME NEW c \in Cmd, CompletionFails(c) PROVE CommandInv'
  <2>1. UNCHANGED <<artifacts, rows, head, log, clock>>
    BY <1>10 DEF CompletionFails, rowVars, identityVars
  <2>2. rows[c] = "submitted" BY <1>10 DEF CompletionFails, Running, CommandInv, ExecInv
  <2> DEFINE x == CASE family[c] \in {"fold", "hook"} -> [exec[c] EXCEPT !.at = "kept"]
                    [] family[c] = "claim" -> NoOwner
                    [] OTHER -> [NoOwner EXCEPT !.at = "wedged"]
  <2>3. x \in [at : Places, id : Int, when : Int]
    <3>1. exec[c] \in [at : Places, id : Int, when : Int] BY DEF CommandInv, ExecInv
    <3>2. [exec[c] EXCEPT !.at = "kept"] \in [at : Places, id : Int, when : Int] BY <3>1 DEF Places
    <3>3. [NoOwner EXCEPT !.at = "wedged"] \in [at : Places, id : Int, when : Int] BY DEF NoOwner, Places
    <3>4. NoOwner \in [at : Places, id : Int, when : Int] BY DEF NoOwner, Places
    <3> QED BY <3>2, <3>3, <3>4
  <2>4. exec' = [exec EXCEPT ![c] = x] BY <1>10 DEF CompletionFails
  <2> HIDE DEF x
  <2> QED BY <2>1, <2>2, <2>3, <2>4, <1>1, <1>3 DEF CommandInv
<1>11. ASSUME NEW c \in Cmd, NEW id \in (clock + 1) .. (clock + Ahead), Evaluate(c, id) PROVE CommandInv'
  <2>1. UNCHANGED <<artifacts, rows, head, log>> BY <1>11 DEF Evaluate, rowVars, identityVars
  <2>2. rows[c] = "submitted" BY <1>11 DEF Evaluate, CommandInv, ExecInv
  <2>3. clock \in Nat /\ clock' \in Nat /\ id \in Int /\ clock + 1 \in Int
    BY <1>11 DEF Evaluate, CommandInv, ExecInv
  <2>4. exec' = [exec EXCEPT ![c] = [at |-> "drawn", id |-> id, when |-> clock + 1]] BY <1>11 DEF Evaluate
  <2>5. ExecInv' BY <2>1, <2>2, <2>3, <2>4 DEF CommandInv, ExecInv, Places
  <2> QED BY <2>1, <2>5, <1>1 DEF CommandInv
<1>12. ASSUME NEW c \in Cmd, NEW n \in Effects, CompleteCommand(c, n) PROVE CommandInv'
  <2>1. n \in Nat BY CommandConstants
  <2>2. RowInv' /\ LogInv' BY <1>12, <2>1, FinishInv DEF CompleteCommand
  <2>3. clock' = clock /\ exec' = [exec EXCEPT ![c] = NoOwner] /\ rows' = [rows EXCEPT ![c] = "terminal"]
    BY <1>12 DEF CompleteCommand, Finish
  <2>4. ExecInv' BY <2>3 DEF CommandInv, RowInv, ExecInv, NoOwner, Places
  <2> QED BY <2>2, <2>4 DEF CommandInv
<1>13. ASSUME NEW c \in Cmd, NEW n \in Effects, Sweep(c, n) PROVE CommandInv'
  <2>1. n \in Nat BY CommandConstants
  <2>2. RowInv' /\ LogInv' BY <1>13, <2>1, FinishInv DEF Sweep
  <2>3. clock' = clock + 1 /\ exec' = exec /\ rows' = [rows EXCEPT ![c] = "terminal"] /\ rows[c] = "absent"
    BY <1>13 DEF Sweep, Finish
  <2>4. ExecInv' BY <2>3 DEF CommandInv, RowInv, ExecInv
  <2> QED BY <2>2, <2>4 DEF CommandInv
<1> QED BY <1>4, <1>5, <1>6, <1>7, <1>8, <1>9, <1>10, <1>11, <1>12, <1>13 DEF Next, CommandStep

(* In every reachable state of the store the finished commands of an         *)
(* Environment lie at or below its sequence head, a submitted one right      *)
(* above it, only finished commands have events and receipts, and only       *)
(* submitted ones have an owner in memory (submitIdentity, CompleteCommand,  *)
(* finishCommandTx).                                                         *)
THEOREM InvariantHolds == Spec => []CommandInv
BY InitInv, NextInv, PTL DEF Spec

-----------------------------------------------------------------------------
(* A retained completion is evaluated once: whatever Environments submit and *)
(* retry, the event id and the time of a drawn completion stay what they are *)
(* until the process has dropped its owner (ClaimPendingCommandCompletion).  *)
THEOREM CompletionsAreKept == Spec => EvaluatedOnce
<1> DEFINE Held(c) == exec[c].at \in {"drawn", "kept", "claimed"} /\ family[c] \in {"fold", "hook"}
           Same(c) == exec'[c] = NoOwner \/ (exec'[c].id = exec[c].id /\ exec'[c].when = exec[c].when)
<1>1. ASSUME CommandInv, [Next]_vars, NEW c \in Cmd, Held(c) PROVE Same(c)
  <2>1. /\ exec \in [Cmd -> [at : Places, id : Int, when : Int]]
        /\ rows[c] = "submitted"
    BY <1>1 DEF CommandInv, ExecInv
  <2>2. CASE IdentityStep BY <2>2 DEF IdentityStep, commandVars
  <2>3. CASE Restart BY <2>3 DEF Restart
  <2>4. CASE UNCHANGED vars BY <2>4 DEF vars, commandVars
  <2>5. ASSUME NEW d \in Cmd, NEW f \in Family, SubmitCommand(d, f) PROVE Same(c)
    BY <2>1, <2>5 DEF SubmitCommand
  <2>6. ASSUME NEW d \in Cmd, RetryCommand(d) \/ MismatchedHookResult(d) PROVE Same(c)
    BY <2>1, <2>6 DEF RetryCommand, MismatchedHookResult
  <2>7. ASSUME NEW d \in Cmd, HookResult(d) PROVE Same(c) BY <1>1, <2>1, <2>7 DEF HookResult
  <2>8. ASSUME NEW d \in Cmd, CompletionFails(d) PROVE Same(c)
    <3>1. CASE d # c BY <2>1, <2>8, <3>1 DEF CompletionFails
    <3>2. CASE d = c
      <4>1. exec'[c] = [exec[c] EXCEPT !.at = "kept"] BY <1>1, <2>1, <2>8, <3>2 DEF CompletionFails
      <4> QED BY <2>1, <4>1
    <3> QED BY <3>1, <3>2
  <2>9. ASSUME NEW d \in Cmd, NEW id, Evaluate(d, id) PROVE Same(c)
    <3>1. d # c BY <1>1, <2>9 DEF Evaluate
    <3> QED BY <2>1, <2>9, <3>1 DEF Evaluate
  <2>10. ASSUME NEW d \in Cmd, NEW n, CompleteCommand(d, n) PROVE Same(c) BY <2>1, <2>10 DEF CompleteCommand
  <2>11. ASSUME NEW d \in Cmd, NEW n, Sweep(d, n) PROVE Same(c) BY <2>11 DEF Sweep
  <2> QED BY <1>1, <2>2, <2>3, <2>4, <2>5, <2>6, <2>7, <2>8, <2>9, <2>10, <2>11 DEF Next, CommandStep
<1>2. CommandInv /\ [Next]_vars => [\A c \in Cmd : Held(c) => Same(c)]_vars BY <1>1
<1> QED BY <1>2, InvariantHolds, PTL DEF Spec, EvaluatedOnce
-----------------------------------------------------------------------------
(* The refinement.  OpenOf and FinishedOf are what L puts for the variables   *)
(* of Ledger.                                                                *)
OpenOf == [e \in Env |-> \E n \in 1 .. MaxSeq : rows[<<e, n>>] = "submitted"]
Row(i) == [env |-> artifacts[i].cmd[1], seq |-> artifacts[i].cmd[2],
           events |-> Cardinality(Events(artifacts[i].cmd))]
FinishedOf == [i \in DOMAIN artifacts |-> Row(i)]

(* An Environment has a submitted command only right above its head.         *)
LEMMA OpenAtHead ==
  ASSUME CommandInv, NEW c \in Cmd, c[2] = head[c[1]] + 1
  PROVE  OpenOf[c[1]] <=> rows[c] = "submitted"
<1>1. c[1] \in Env /\ c[2] \in 1 .. MaxSeq /\ c = <<c[1], c[2]>> BY CmdParts
<1>2. ASSUME NEW n \in 1 .. MaxSeq, rows[<<c[1], n>>] = "submitted" PROVE n = c[2]
  <2>1. <<c[1], n>> \in Cmd BY <1>1 DEF Cmd
  <2> QED BY <1>2, <2>1 DEF CommandInv, RowInv
<1> QED BY <1>1, <1>2 DEF OpenOf

(* The terminal transaction appends one entry to the history, with as many   *)
(* events as it wrote, and leaves the entries before it as they are.         *)
LEMMA FinishAppends ==
  ASSUME CommandInv, NEW c \in Cmd, NEW id, NEW when, NEW n \in Nat,
         rows[c] # "terminal", Finish(c, id, when, n)
  PROVE  FinishedOf' = Append(FinishedOf, [env |-> c[1], seq |-> head[c[1]] + 1, events |-> n])
<1> DEFINE x == [id |-> id, cmd |-> c]
           u == [i \in 1 .. n |-> x]
           a == [gen |-> Len(artifactKeys), cmd |-> c, at |-> when]
           r == [env |-> c[1], seq |-> head[c[1]] + 1, events |-> n]
<1>1. log' = log \o u /\ artifacts' = Append(artifacts, a) /\ c[2] = head[c[1]] + 1 BY DEF Finish
<1>2. x.cmd = c /\ a.cmd = c OBVIOUS
<1>3. u \in [1 .. n -> {x}] OBVIOUS
<1>4. IsSeq(log) /\ IsSeq(artifacts) BY DEF CommandInv, LogInv
<1> HIDE DEF x, u, a
<1>5. /\ Len(log) \in Nat /\ DOMAIN log = 1 .. Len(log)
      /\ DOMAIN (log \o u) = 1 .. Len(log) + n
      /\ \A i \in 1 .. Len(log) : (log \o u)[i] = log[i]
      /\ \A i \in Len(log) + 1 .. Len(log) + n : (log \o u)[i] = x
  BY <1>3, <1>4, ConcatIsSeq
<1>6. /\ Len(log) \in Nat /\ DOMAIN log = 1 .. Len(log)
      /\ DOMAIN log' = 1 .. Len(log) + n
      /\ \A i \in 1 .. Len(log) : log'[i] = log[i]
      /\ \A i \in Len(log) + 1 .. Len(log) + n : log'[i] = x
  BY <1>1, <1>5, Zenon
<1>7. PICK k : k = Len(artifacts) OBVIOUS
<1>8. /\ k \in Nat /\ DOMAIN artifacts = 1 .. k
      /\ DOMAIN artifacts' = 1 .. k + 1
      /\ \A i \in 1 .. k : artifacts'[i] = artifacts[i]
      /\ artifacts'[k + 1] = a
  BY <1>7, <1>1, <1>4, AppendIsSeq
<1>9. ASSUME NEW d \in Cmd, rows[d] = "terminal" PROVE Events(d)' = Events(d)
  <2>1. d # c BY <1>9
  <2>2. \A i \in 1 .. Len(log) + n : i \in 1 .. Len(log) \/ i \in Len(log) + 1 .. Len(log) + n BY <1>6
  <2> QED BY <1>2, <1>6, <2>1, <2>2 DEF Events
<1>10. Cardinality(Events(c)') = n
  <2>1. \A i \in 1 .. Len(log) : log[i].cmd # c BY <1>6 DEF CommandInv, LogInv
  <2>2. \A i \in 1 .. Len(log) + n : i \in 1 .. Len(log) \/ i \in Len(log) + 1 .. Len(log) + n BY <1>6
  <2>3. Events(c)' = Len(log) + 1 .. Len(log) + n BY <1>2, <1>6, <2>1, <2>2 DEF Events
  <2>4. Cardinality(Len(log) + 1 .. Len(log) + n) = n BY <1>6, FS_Interval
  <2> QED BY <2>3, <2>4
<1>11. ASSUME NEW i \in 1 .. k PROVE Row(i)' = Row(i)
  <2>1. artifacts[i].cmd \in Cmd /\ rows[artifacts[i].cmd] = "terminal" BY <1>8 DEF CommandInv, LogInv
  <2>2. artifacts'[i] = artifacts[i] BY <1>8
  <2>3. Events(artifacts[i].cmd)' = Events(artifacts[i].cmd) BY <1>9, <2>1, <2>2 DEF Events
  <2> QED BY <2>2, <2>3 DEF Row
<1>12. Row(k + 1)' = [env |-> c[1], seq |-> head[c[1]] + 1, events |-> n]
  BY <1>1, <1>2, <1>8, <1>10 DEF Row, Events
<1> DEFINE S == {Row(i) : i \in 1 .. k} \cup {r}
<1>13. FinishedOf \in [1 .. k -> S] /\ \A i \in 1 .. k : FinishedOf[i] = Row(i)
  BY <1>8 DEF FinishedOf
<1>14. \A i \in 1 .. k + 1 : i \in 1 .. k \/ i = k + 1 BY <1>8
<1>15. \A i \in 1 .. k + 1 : Row(i)' \in S BY <1>11, <1>12, <1>14
<1>16. FinishedOf' \in [1 .. k + 1 -> S] /\ \A i \in 1 .. k + 1 : FinishedOf'[i] = Row(i)'
  BY <1>8, <1>15 DEF FinishedOf
<1>17. \A i \in 1 .. k : FinishedOf'[i] = FinishedOf[i] BY <1>8, <1>11, <1>13, <1>16
<1>18. FinishedOf'[k + 1] = r BY <1>8, <1>12, <1>16
<1>19. r \in S OBVIOUS
<1> HIDE DEF S, r
<1>20. FinishedOf' = Append(FinishedOf, r) BY <1>8, <1>13, <1>16, <1>17, <1>18, <1>19, IsAppend
<1> QED BY <1>20 DEF r

(* The terminal transaction leaves its Environment without an accepted       *)
(* command, and every other Environment as it is.                            *)
LEMMA FinishCloses ==
  ASSUME CommandInv, NEW c \in Cmd, NEW id, NEW when, NEW n, Finish(c, id, when, n)
  PROVE  OpenOf' = [OpenOf EXCEPT ![c[1]] = FALSE]
<1>1. c[1] \in Env /\ c[2] \in 1 .. MaxSeq /\ c = <<c[1], c[2]>> BY CmdParts
<1>2. \A e \in Env, m \in 1 .. MaxSeq : <<e, m>> \in Cmd BY DEF Cmd
<1>3. \A m \in 1 .. MaxSeq : rows'[<<c[1], m>>] # "submitted"
  <2> SUFFICES ASSUME NEW m \in 1 .. MaxSeq, rows'[<<c[1], m>>] = "submitted" PROVE FALSE OBVIOUS
  <2>1. <<c[1], m>> \in Cmd BY <1>1, <1>2
  <2>2. <<c[1], m>> # c BY <2>1 DEF Finish, CommandInv, RowInv
  <2>3. rows[<<c[1], m>>] = "submitted" BY <2>1, <2>2 DEF Finish, CommandInv, RowInv
  <2>4. m = c[2] BY <2>1, <2>3 DEF Finish, CommandInv, RowInv
  <2> QED BY <1>1, <2>2, <2>4
<1>4. ASSUME NEW e \in Env, e # c[1] PROVE OpenOf'[e] = OpenOf[e]
  <2>1. \A m \in 1 .. MaxSeq : rows'[<<e, m>>] = rows[<<e, m>>]
    BY <1>1, <1>2, <1>4 DEF Finish, CommandInv, RowInv
  <2> QED BY <2>1 DEF OpenOf
<1>5. OpenOf'[c[1]] = FALSE BY <1>1, <1>3 DEF OpenOf
<1> QED BY <1>4, <1>5 DEF OpenOf

(* Every step of the command path is a step of Ledger or changes nothing of  *)
(* it.                                                                       *)
LEMMA StepRefines ==
  ASSUME CommandInv, [Next]_vars
  PROVE  L!Next \/ UNCHANGED <<OpenOf, head, FinishedOf>>
<1>1. ASSUME UNCHANGED <<rows, head, log, artifacts>> PROVE UNCHANGED <<OpenOf, head, FinishedOf>>
  BY <1>1 DEF OpenOf, FinishedOf, Row, Events
<1>2. CASE IdentityStep
  <2>1. UNCHANGED <<rows, head, log>> BY <1>2 DEF IdentityStep, commandVars, rowVars
  <2>2. UNCHANGED artifacts
    BY <1>2 DEF IdentityStep, IdentityNext, InstallEnvironmentCA, RegisterArtifactKey,
       FenceArtifactKey, FenceEnvironmentCA, IssueEnvironmentCertificate, ReissueEnvironmentCertificate,
       RenewEnvironmentCertificate, RevokeEnvironmentCertificate
  <2> QED BY <2>1, <2>2, <1>1
<1>3. CASE Restart \/ UNCHANGED vars
  BY <1>1, <1>3 DEF Restart, vars, commandVars, rowVars, identityVars
<1>4. ASSUME NEW c \in Cmd, NEW id,
             RetryCommand(c) \/ HookResult(c) \/ MismatchedHookResult(c) \/ CompletionFails(c) \/ Evaluate(c, id)
      PROVE  UNCHANGED <<OpenOf, head, FinishedOf>>
  BY <1>1, <1>4 DEF RetryCommand, HookResult, MismatchedHookResult, CompletionFails, Evaluate, rowVars, identityVars
<1>5. ASSUME NEW c \in Cmd, NEW f \in Family, SubmitCommand(c, f) PROVE L!Next
  <2>1. c[1] \in Env /\ c[2] \in 1 .. MaxSeq /\ c = <<c[1], c[2]>> BY CmdParts
  <2>2. ~OpenOf[c[1]] BY <1>5, OpenAtHead DEF SubmitCommand
  <2>3. \A e \in Env, n \in 1 .. MaxSeq : <<e, n>> \in Cmd BY DEF Cmd
  <2>4. OpenOf' = [OpenOf EXCEPT ![c[1]] = TRUE]
    <3>1. rows'[<<c[1], c[2]>>] = "submitted" BY <1>5, <2>1 DEF SubmitCommand, CommandInv, RowInv
    <3>2. OpenOf'[c[1]] = TRUE BY <2>1, <3>1 DEF OpenOf
    <3>3. ASSUME NEW e \in Env, e # c[1] PROVE OpenOf'[e] = OpenOf[e]
      <4>1. \A n \in 1 .. MaxSeq : rows'[<<e, n>>] = rows[<<e, n>>]
        BY <1>5, <2>1, <2>3, <3>3 DEF SubmitCommand, CommandInv, RowInv
      <4> QED BY <4>1 DEF OpenOf
    <3> QED BY <3>2, <3>3 DEF OpenOf
  <2>5. UNCHANGED <<head, FinishedOf>>
    BY <1>5 DEF SubmitCommand, FinishedOf, Row, Events, identityVars
  <2>6. L!Accept(c[1]) BY <2>1, <2>2, <2>4, <2>5 DEF L!Accept, OpenOf, FinishedOf, Row
  <2> QED BY <2>1, <2>6 DEF L!Next
<1>6. ASSUME NEW c \in Cmd, NEW n \in Effects, CompleteCommand(c, n) PROVE L!Next
  <2>1. c[1] \in Env /\ c[2] \in 1 .. MaxSeq /\ c = <<c[1], c[2]>> BY CmdParts
  <2>2. n \in Nat BY CommandConstants
  <2>3. rows[c] = "submitted" /\ Finish(c, exec[c].id, exec[c].when, n) BY <1>6 DEF CompleteCommand
  <2>4. OpenOf[c[1]] BY <2>3, OpenAtHead DEF Finish
  <2>5. OpenOf' = [OpenOf EXCEPT ![c[1]] = FALSE] BY <2>3, FinishCloses
  <2>6. head' = [head EXCEPT ![c[1]] = @ + 1] BY <2>1, <2>3 DEF Finish, CommandInv, RowInv
  <2>7. FinishedOf' = Append(FinishedOf, [env |-> c[1], seq |-> head[c[1]] + 1, events |-> n])
    BY <2>2, <2>3, FinishAppends
  <2>8. L!Finish(c[1], n) BY <2>4, <2>5, <2>6, <2>7 DEF L!Finish, OpenOf, FinishedOf, Row
  <2> QED BY <2>1, <2>8 DEF L!Next
<1>7. ASSUME NEW c \in Cmd, NEW n \in Effects, Sweep(c, n) PROVE L!Next
  <2>1. c[1] \in Env /\ c[2] \in 1 .. MaxSeq /\ c = <<c[1], c[2]>> BY CmdParts
  <2>2. n \in Nat BY CommandConstants
  <2>3. rows[c] = "absent" /\ Finish(c, clock + 1, clock + 1, n) BY <1>7 DEF Sweep
  <2>4. ~OpenOf[c[1]] BY <2>3, OpenAtHead DEF Finish
  <2>5. OpenOf' = [OpenOf EXCEPT ![c[1]] = FALSE] BY <2>3, FinishCloses
  <2>6. OpenOf' = OpenOf BY <2>1, <2>4, <2>5 DEF OpenOf
  <2>7. head' = [head EXCEPT ![c[1]] = @ + 1] BY <2>1, <2>3 DEF Finish, CommandInv, RowInv
  <2>8. FinishedOf' = Append(FinishedOf, [env |-> c[1], seq |-> head[c[1]] + 1, events |-> n])
    BY <2>2, <2>3, FinishAppends
  <2>9. L!AcceptAndFinish(c[1], n) BY <2>4, <2>6, <2>7, <2>8 DEF L!AcceptAndFinish, OpenOf, FinishedOf, Row
  <2> QED BY <2>1, <2>9 DEF L!Next
<1> QED BY <1>2, <1>3, <1>4, <1>5, <1>6, <1>7 DEF Next, CommandStep

(* The command path implements Ledger: whatever is lost, repeated, refused   *)
(* or restarted, the commands of an Environment are accepted and finished    *)
(* one at a time in sequence, each exactly once, with the events its         *)
(* terminal transaction wrote and no others later (submitIdentity,           *)
(* finishCommandTx).                                                         *)
THEOREM CommandsKeepLedger == Spec => KeepsLedger
<1>1. Init => L!Init
  <2> SUFFICES ASSUME Init PROVE L!Init OBVIOUS
  <2>1. rows = [c \in Cmd |-> "absent"] /\ head = [e \in Env |-> 0] /\ artifacts = <<>>
    BY DEF Init, IdentityInit
  <2>2. OpenOf = [e \in Env |-> FALSE]
    <3>1. \A e \in Env, n \in 1 .. MaxSeq : rows[<<e, n>>] # "submitted" BY <2>1 DEF Cmd
    <3> QED BY <3>1 DEF OpenOf
  <2>3. FinishedOf = <<>> BY <2>1 DEF FinishedOf
  <2> QED BY <2>1, <2>2, <2>3 DEF L!Init, OpenOf, FinishedOf, Row
<1>2. CommandInv /\ [Next]_vars => [L!Next]_(L!ledgerVars)
  BY StepRefines DEF L!ledgerVars, OpenOf, FinishedOf, Row
<1> QED BY <1>1, <1>2, InvariantHolds, PTL DEF Spec, KeepsLedger, L!Spec
-----------------------------------------------------------------------------
(* That the store reopens.  The checks of the identity tables are inductive   *)
(* once the rows have their types; the chains also need that an artifact names *)
(* a generation that exists.                                                 *)
KeyRow == [key : KeyId, from : Int, fenced : BOOLEAN, final : Nat]
CARow == [key : KeyId, fenced : BOOLEAN]
LeafRow == [ca : Nat, spki : KeyId, revoked : BOOLEAN]
UseRow == [grant : Grant, scope : {"enroll", "rotate"}, env : Env, spki : KeyId, gen : Nat]
ArtifactRow == [gen : Nat, cmd : Cmd, at : Int]

IdentityTypes ==
  /\ artifactKeys \in Seq(KeyRow) /\ cas \in Seq(CARow) /\ consumed \in Seq(UseRow)
  /\ certs \in [Env -> Seq(LeafRow)]
  /\ artifacts \in Seq(ArtifactRow)

ChainInv == \A i \in DOMAIN artifacts : artifacts[i].gen \in DOMAIN artifactKeys

IdentityInv == IdentityTypes /\ ChainInv /\ checkStep3State /\ IsFiniteSet(CAKeyIds)

\* The finished commands of an Environment are exactly those up to its head, each with
\* one artifact; a command that is not finished has no range; ids ascend.
Terminals == {c \in Cmd : rows[c] = "terminal"}

FamilyInv ==
  /\ family \in [Cmd -> {"fold", "lifecycle", "claim", "hook", "sweep"}]
  /\ checkSubmissions
  /\ \A c \in Cmd : rows[c] = "submitted" => family[c] # "sweep"

HeadInv ==
  /\ \A e \in Env : head[e] <= MaxSeq
  /\ \A c \in Cmd : c[2] <= head[c[1]] => rows[c] = "terminal"

SignedInv ==
  /\ \A i, j \in DOMAIN artifacts : artifacts[i].cmd = artifacts[j].cmd => i = j
  /\ \A c \in Terminals : \E i \in DOMAIN artifacts : artifacts[i].cmd = c
  /\ IsFiniteSet(Terminals) /\ Cardinality(Terminals) = Len(artifacts)

RangeInv ==
  /\ ranges \in [Cmd -> [first : Nat, last : Nat]]
  /\ \A c \in Cmd : rows[c] # "terminal" => ranges[c] = [first |-> 0, last |-> 0]
  /\ checkRanges

IdInv ==
  /\ \A i \in DOMAIN log : log[i].id \in Int
  /\ \A i, j \in DOMAIN log : i < j => log[i].id <= log[j].id
                                       /\ (log[i].cmd # log[j].cmd => log[i].id < log[j].id)

StoreInv == IdentityInv /\ FamilyInv /\ HeadInv /\ SignedInv /\ RangeInv /\ IdInv

(* What Append and EXCEPT do to rows of one type: a new generation, and the   *)
(* fence or revocation of one.                                               *)
LEMMA Appended ==
  ASSUME NEW S, NEW s \in Seq(S), NEW x \in S, NEW t, t = Append(s, x)
  PROVE  /\ t \in Seq(S) /\ Len(s) \in Nat /\ Len(t) = Len(s) + 1
         /\ DOMAIN s = 1 .. Len(s) /\ DOMAIN t = 1 .. Len(s) + 1
         /\ \A i \in DOMAIN s : t[i] = s[i]
         /\ t[Len(s) + 1] = x
         /\ \A i \in DOMAIN t : i \in DOMAIN s \/ i = Len(s) + 1
<1>1. t \in Seq(S) /\ Len(t) = Len(s) + 1 /\ t[Len(s) + 1] = x /\ \A i \in 1 .. Len(s) : t[i] = s[i]
  BY AppendProperties
<1>2. Len(s) \in Nat /\ DOMAIN s = 1 .. Len(s) /\ DOMAIN t = 1 .. Len(s) + 1 BY <1>1
<1> QED BY <1>1, <1>2

LEMMA Replaced ==
  ASSUME NEW S, NEW s \in Seq(S), NEW n \in DOMAIN s, NEW x \in S, NEW t, t = [s EXCEPT ![n] = x]
  PROVE  /\ t \in Seq(S) /\ Len(s) \in Nat /\ Len(t) = Len(s)
         /\ DOMAIN s = 1 .. Len(s) /\ DOMAIN t = DOMAIN s
         /\ \A i \in DOMAIN s : i # n => t[i] = s[i]
         /\ t[n] = x
<1>1. Len(s) \in Nat /\ DOMAIN s = 1 .. Len(s) OBVIOUS
<1>2. t \in Seq(S) /\ Len(t) = Len(s) /\ \A j \in 1 .. Len(s) : t[j] = IF j = n THEN x ELSE s[j]
  BY <1>1, ExceptSeq
<1>3. DOMAIN t = 1 .. Len(s) BY <1>2
<1> QED BY <1>1, <1>2, <1>3

(* A row of a table, and the last row of one that is not empty.              *)
LEMMA RowOf ==
  ASSUME NEW S, NEW s \in Seq(S), NEW i \in DOMAIN s
  PROVE  s[i] \in S
OBVIOUS

LEMMA LastRow ==
  ASSUME NEW S, NEW s \in Seq(S)
  PROVE  Len(s) \in Nat /\ DOMAIN s = 1 .. Len(s) /\ (s # <<>> <=> Len(s) > 0) /\ (s # <<>> => Len(s) \in DOMAIN s)
OBVIOUS

(* A new artifact key generation follows a fenced one and has signed nothing  *)
(* (registerArtifactKey).                                                    *)
LEMMA RegisterKeeps ==
  ASSUME IdentityInv, clock \in Nat, NEW k \in KeyId, NEW from \in {0, clock}, RegisterArtifactKey(k, from)
  PROVE  IdentityInv'
<1> DEFINE x == [key |-> k, from |-> from, fenced |-> FALSE, final |-> 0]
<1>1. x \in KeyRow BY DEF KeyRow
<1>2. /\ artifactKeys' = Append(artifactKeys, x) /\ k \notin CAKeyIds \cup LeafKeyIds \cup ArtifactKeyIds
      /\ artifactKeys # <<>> => artifactKeys[Len(artifactKeys)].fenced
      /\ UNCHANGED <<artifacts, cas, certs, consumed>>
  BY DEF RegisterArtifactKey
<1>3. x.key = k /\ x.fenced = FALSE OBVIOUS
<1> HIDE DEF x
<1>4. artifactKeys \in Seq(KeyRow) BY DEF IdentityInv, IdentityTypes
<1>5. PICK n : n = Len(artifactKeys) OBVIOUS
<1>6. /\ artifactKeys' \in Seq(KeyRow) /\ n \in Nat /\ Len(artifactKeys') = n + 1
      /\ DOMAIN artifactKeys = 1 .. n /\ DOMAIN artifactKeys' = 1 .. n + 1
      /\ \A i \in 1 .. n : artifactKeys'[i] = artifactKeys[i]
      /\ artifactKeys'[n + 1] = x
  BY <1>1, <1>2, <1>4, <1>5, Appended
<1>7. IdentityTypes' /\ ChainInv' BY <1>2, <1>6 DEF IdentityInv, IdentityTypes, ChainInv
<1>8. checkArtifactKeys'
  <2>1. k # Owner BY EnrollmentConstants
  <2>2. \A i \in 1 .. n : artifactKeys[i].key # Owner /\ (i < n => artifactKeys[i].fenced)
    BY <1>5, <1>6 DEF IdentityInv, checkStep3State, checkArtifactKeys
  <2>3. n > 0 => artifactKeys[n].fenced BY <1>2, <1>4, <1>5, LastRow
  <2> QED BY <1>3, <1>6, <2>1, <2>2, <2>3 DEF checkArtifactKeys
<1>9. checkArtifactChains'
  <2>1. \A g : Chain(g)' = Chain(g) BY <1>2 DEF Chain
  <2>2. Chain(n + 1) = {} BY <1>6 DEF IdentityInv, ChainInv, Chain
  <2>3. \A g \in 1 .. n : /\ \A i \in Chain(g) : artifactKeys[g].from <= artifacts[i].at
                          /\ artifactKeys[g].fenced => artifactKeys[g].final = Cardinality(Chain(g))
    BY <1>6 DEF IdentityInv, checkStep3State, checkArtifactChains
  <2> QED BY <1>2, <1>3, <1>6, <2>1, <2>2, <2>3 DEF checkArtifactChains
<1>10. UNCHANGED <<CAKeyIds, LeafKeyIds>> BY <1>2 DEF CAKeyIds, LeafKeyIds
<1>11. ArtifactKeyIds' = ArtifactKeyIds \cup {k} BY <1>3, <1>6 DEF ArtifactKeyIds
<1>12. checkCAs' BY <1>2 DEF IdentityInv, checkStep3State, checkCAs
<1>13. checkEnvironments'
  <2>1. /\ CAKeyIds' \cap (ArtifactKeyIds' \cup LeafKeyIds' \cup {Owner}) = {}
        /\ LeafKeyIds' \cap (ArtifactKeyIds' \cup {Owner}) = {}
    BY <1>2, <1>10, <1>11 DEF IdentityInv, checkStep3State, checkEnvironments
  <2> QED BY <1>2, <1>10, <2>1 DEF IdentityInv, checkStep3State, checkEnvironments, Enrolled
<1> QED BY <1>7, <1>8, <1>9, <1>10, <1>12, <1>13 DEF IdentityInv, checkStep3State

(* The fence of a key names the exact length of its chain (FenceArtifactKey). *)
LEMMA FenceKeeps ==
  ASSUME IdentityInv, FenceArtifactKey
  PROVE  IdentityInv'
<1>1. PICK n : n = Len(artifactKeys) OBVIOUS
<1>2. PICK old : old = artifactKeys[n] OBVIOUS
<1>3. PICK x : x = [old EXCEPT !.fenced = TRUE, !.final = Cardinality(Chain(n))] OBVIOUS
<1>4. /\ artifactKeys' = [artifactKeys EXCEPT ![n] = x] /\ artifactKeys # <<>>
      /\ UNCHANGED <<artifacts, cas, certs, consumed>>
  BY <1>1, <1>2, <1>3 DEF FenceArtifactKey
<1>5. artifactKeys \in Seq(KeyRow) /\ artifacts \in Seq(ArtifactRow) BY DEF IdentityInv, IdentityTypes
<1>6. n \in DOMAIN artifactKeys /\ old \in KeyRow BY <1>1, <1>2, <1>4, <1>5, LastRow
<1>7. Cardinality(Chain(n)) \in Nat
  <2>1. IsFiniteSet(1 .. Len(artifacts)) BY <1>5, FS_Interval
  <2>2. Chain(n) \subseteq 1 .. Len(artifacts) BY <1>5 DEF Chain
  <2> QED BY <2>1, <2>2, FS_Subset, FS_CardinalityType
<1>8. x \in KeyRow /\ x.fenced = TRUE /\ x.final = Cardinality(Chain(n)) /\ x.key = old.key /\ x.from = old.from
  BY <1>3, <1>6, <1>7 DEF KeyRow
<1>9. /\ artifactKeys' \in Seq(KeyRow) /\ n \in Nat /\ Len(artifactKeys') = n
      /\ DOMAIN artifactKeys = 1 .. n /\ DOMAIN artifactKeys' = 1 .. n
      /\ \A i \in 1 .. n : i # n => artifactKeys'[i] = artifactKeys[i]
      /\ artifactKeys'[n] = x
  BY <1>1, <1>4, <1>5, <1>6, <1>8, Replaced
<1>10. IdentityTypes' /\ ChainInv' BY <1>4, <1>9 DEF IdentityInv, IdentityTypes, ChainInv
<1>11. checkArtifactKeys'
  <2>1. \A i \in 1 .. n : artifactKeys[i].key # Owner /\ (i < n => artifactKeys[i].fenced)
    BY <1>1, <1>9 DEF IdentityInv, checkStep3State, checkArtifactKeys
  <2> QED BY <1>2, <1>6, <1>8, <1>9, <2>1 DEF checkArtifactKeys
<1>12. checkArtifactChains'
  <2>1. \A g : Chain(g)' = Chain(g) BY <1>4 DEF Chain
  <2>2. \A g \in 1 .. n : /\ \A i \in Chain(g) : artifactKeys[g].from <= artifacts[i].at
                          /\ artifactKeys[g].fenced => artifactKeys[g].final = Cardinality(Chain(g))
    BY <1>9 DEF IdentityInv, checkStep3State, checkArtifactChains
  <2>3. \A i \in Chain(n) : x.from <= artifacts[i].at BY <1>2, <1>6, <1>8, <1>9, <2>2
  <2> QED BY <1>4, <1>8, <1>9, <2>1, <2>2, <2>3 DEF checkArtifactChains
<1>13. UNCHANGED <<CAKeyIds, LeafKeyIds>> BY <1>4 DEF CAKeyIds, LeafKeyIds
<1>14. ArtifactKeyIds' = ArtifactKeyIds
  <2>1. \A i \in 1 .. n : artifactKeys'[i].key = artifactKeys[i].key BY <1>2, <1>8, <1>9
  <2> QED BY <1>9, <2>1 DEF ArtifactKeyIds
<1>15. checkCAs' BY <1>4 DEF IdentityInv, checkStep3State, checkCAs
<1>16. checkEnvironments'
  BY <1>4, <1>13, <1>14 DEF IdentityInv, checkStep3State, checkEnvironments, Enrolled
<1> QED BY <1>10, <1>11, <1>12, <1>13, <1>15, <1>16 DEF IdentityInv, checkStep3State

(* A new CA generation follows a fenced one, with a key of its own            *)
(* (InstallEnvironmentCA).                                                   *)
LEMMA InstallCAKeeps ==
  ASSUME IdentityInv, NEW k \in KeyId, InstallEnvironmentCA(k)
  PROVE  IdentityInv'
<1> DEFINE x == [key |-> k, fenced |-> FALSE]
<1>1. x \in CARow BY DEF CARow
<1>2. /\ cas' = Append(cas, x) /\ k \notin ArtifactKeyIds \cup LeafKeyIds \cup CAKeyIds
      /\ cas # <<>> => cas[Len(cas)].fenced
      /\ UNCHANGED <<artifactKeys, artifacts, certs, consumed>>
  BY DEF InstallEnvironmentCA
<1>3. x.key = k OBVIOUS
<1> HIDE DEF x
<1>4. cas \in Seq(CARow) BY DEF IdentityInv, IdentityTypes
<1>5. PICK n : n = Len(cas) OBVIOUS
<1>6. /\ cas' \in Seq(CARow) /\ n \in Nat /\ Len(cas') = n + 1
      /\ DOMAIN cas = 1 .. n /\ DOMAIN cas' = 1 .. n + 1
      /\ \A i \in 1 .. n : cas'[i] = cas[i]
      /\ cas'[n + 1] = x
  BY <1>1, <1>2, <1>4, <1>5, Appended
<1>7. IdentityTypes' /\ ChainInv' BY <1>2, <1>6 DEF IdentityInv, IdentityTypes, ChainInv
<1>8. checkCAs'
  <2>1. k # Owner BY EnrollmentConstants
  <2>2. \A i \in 1 .. n : cas[i].key # Owner /\ (i < n => cas[i].fenced)
    BY <1>5, <1>6 DEF IdentityInv, checkStep3State, checkCAs
  <2>3. n > 0 => cas[n].fenced BY <1>2, <1>4, <1>5, LastRow
  <2> QED BY <1>3, <1>6, <2>1, <2>2, <2>3 DEF checkCAs
<1>9. checkArtifactKeys' /\ checkArtifactChains'
  BY <1>2 DEF IdentityInv, checkStep3State, checkArtifactKeys, checkArtifactChains, Chain
<1>10. UNCHANGED <<ArtifactKeyIds, LeafKeyIds>> BY <1>2 DEF ArtifactKeyIds, LeafKeyIds
<1>11. CAKeyIds' = CAKeyIds \cup {k} BY <1>3, <1>6 DEF CAKeyIds
<1>12. IsFiniteSet(CAKeyIds') /\ Cardinality(CAKeyIds') = Len(cas')
  <2>1. IsFiniteSet(CAKeyIds) /\ Cardinality(CAKeyIds) = n /\ k \notin CAKeyIds
    BY <1>2, <1>5 DEF IdentityInv, checkStep3State, checkEnvironments
  <2> QED BY <1>6, <1>11, <2>1, FS_AddElement
<1>13. checkEnvironments'
  <2>1. /\ CAKeyIds' \cap (ArtifactKeyIds' \cup LeafKeyIds' \cup {Owner}) = {}
        /\ LeafKeyIds' \cap (ArtifactKeyIds' \cup {Owner}) = {}
    BY <1>2, <1>10, <1>11, EnrollmentConstants DEF IdentityInv, checkStep3State, checkEnvironments
  <2>2. DOMAIN cas \subseteq DOMAIN cas' BY <1>6
  <2> QED BY <1>2, <1>12, <2>1, <2>2 DEF IdentityInv, checkStep3State, checkEnvironments, Enrolled
<1> QED BY <1>7, <1>8, <1>9, <1>12, <1>13 DEF IdentityInv, checkStep3State

(* A fenced CA keeps its key and its generation (FenceEnvironmentCA).        *)
LEMMA FenceCAKeeps ==
  ASSUME IdentityInv, FenceEnvironmentCA
  PROVE  IdentityInv'
<1>1. PICK n : n = Len(cas) OBVIOUS
<1>2. PICK old : old = cas[n] OBVIOUS
<1>3. PICK x : x = [old EXCEPT !.fenced = TRUE] OBVIOUS
<1>4. /\ cas' = [cas EXCEPT ![n] = x] /\ cas # <<>>
      /\ UNCHANGED <<artifactKeys, artifacts, certs, consumed>>
  BY <1>1, <1>2, <1>3 DEF FenceEnvironmentCA
<1>5. cas \in Seq(CARow) BY DEF IdentityInv, IdentityTypes
<1>6. n \in DOMAIN cas /\ old \in CARow BY <1>1, <1>2, <1>4, <1>5, LastRow
<1>7. x \in CARow /\ x.key = old.key BY <1>3, <1>6 DEF CARow
<1>8. /\ cas' \in Seq(CARow) /\ n \in Nat /\ Len(cas') = n
      /\ DOMAIN cas = 1 .. n /\ DOMAIN cas' = 1 .. n
      /\ \A i \in 1 .. n : i # n => cas'[i] = cas[i]
      /\ cas'[n] = x
  BY <1>1, <1>4, <1>5, <1>6, <1>7, Replaced
<1>9. IdentityTypes' /\ ChainInv' BY <1>4, <1>8 DEF IdentityInv, IdentityTypes, ChainInv
<1>10. checkCAs'
  <2>1. \A i \in 1 .. n : cas[i].key # Owner /\ (i < n => cas[i].fenced)
    BY <1>1, <1>8 DEF IdentityInv, checkStep3State, checkCAs
  <2> QED BY <1>2, <1>6, <1>7, <1>8, <2>1 DEF checkCAs
<1>11. checkArtifactKeys' /\ checkArtifactChains'
  BY <1>4 DEF IdentityInv, checkStep3State, checkArtifactKeys, checkArtifactChains, Chain
<1>12. UNCHANGED <<ArtifactKeyIds, LeafKeyIds>> BY <1>4 DEF ArtifactKeyIds, LeafKeyIds
<1>13. CAKeyIds' = CAKeyIds
  <2>1. \A i \in 1 .. n : cas'[i].key = cas[i].key BY <1>2, <1>7, <1>8
  <2> QED BY <1>8, <2>1 DEF CAKeyIds
<1>14. checkEnvironments'
  BY <1>1, <1>4, <1>8, <1>12, <1>13 DEF IdentityInv, checkStep3State, checkEnvironments, Enrolled
<1> QED BY <1>9, <1>10, <1>11, <1>13, <1>14 DEF IdentityInv, checkStep3State

(* What the checks ask of the leaves of one Environment, and of the grants     *)
(* consumed when those of e become t.                                        *)
LeavesPass(t) ==
  \A i \in DOMAIN t : /\ i < Len(t) => t[i].revoked
                      /\ t[i].ca \in DOMAIN cas
                      /\ t[i].spki \notin ArtifactKeyIds \cup CAKeyIds

UsesPass(e, t) ==
  /\ \A i \in DOMAIN consumed' :
       \/ i \in DOMAIN consumed /\ consumed'[i] = consumed[i]
       \/ /\ consumed'[i].env = e /\ consumed'[i].gen \in DOMAIN t
          /\ consumed'[i].scope = "enroll" <=> consumed'[i].gen = 1
  /\ \A i \in DOMAIN consumed : i \in DOMAIN consumed' /\ consumed'[i] = consumed[i]
  /\ \E i \in DOMAIN consumed' : consumed'[i].env = e /\ consumed'[i].gen = 1

(* What the checks say of one leaf, and of the grant that an enrolled           *)
(* Environment has consumed (checkEnvironments).                              *)
LEMMA LeafApart ==
  ASSUME IdentityInv, NEW e \in Env, NEW i \in DOMAIN certs[e]
  PROVE  certs[e][i].ca \in DOMAIN cas /\ certs[e][i].spki \notin ArtifactKeyIds \cup CAKeyIds
<1>1. certs[e][i].spki \in LeafKeyIds BY DEF LeafKeyIds
<1> QED BY <1>1 DEF IdentityInv, checkStep3State, checkEnvironments

LEMMA EnrolledByGrant ==
  ASSUME IdentityInv, NEW e \in Env, certs[e] # <<>>
  PROVE  \E i \in DOMAIN consumed : consumed[i].env = e /\ consumed[i].gen = 1
BY DEF IdentityInv, checkStep3State, checkEnvironments, Enrolled

(* The key ids are those of the rows.                                        *)
LEMMA KeyIdsSame ==
  ASSUME UNCHANGED <<artifactKeys, cas>>
  PROVE  UNCHANGED <<ArtifactKeyIds, CAKeyIds>>
BY DEF ArtifactKeyIds, CAKeyIds

(* A newly issued leaf follows leaves that are all revoked, and is signed by   *)
(* the current CA (the rows that the issue and the renewal of a leaf write).   *)
LEMMA LeafRows ==
  ASSUME IdentityInv, NEW e \in Env, NEW k \in KeyId, CAUsable, k \notin ArtifactKeyIds \cup CAKeyIds,
         NEW t, t = WithLeaf(e, k), NEW n, n = Len(certs[e])
  PROVE  /\ t \in Seq(LeafRow) /\ LeavesPass(t) /\ n \in Nat
         /\ DOMAIN certs[e] = 1 .. n /\ DOMAIN t = 1 .. n + 1
<1>1. PICK s : s = certs[e] OBVIOUS
<1>2. n = Len(s) BY <1>1
<1>3. PICK x : x = [ca |-> Len(cas), spki |-> k, revoked |-> FALSE] OBVIOUS
<1>4. s \in Seq(LeafRow) /\ cas \in Seq(CARow) BY <1>1 DEF IdentityInv, IdentityTypes
<1>5. x \in LeafRow /\ x.ca \in DOMAIN cas /\ x.spki = k BY <1>3, <1>4, LastRow DEF CAUsable, LeafRow
<1>6. n \in Nat /\ DOMAIN s = 1 .. n /\ (s # <<>> <=> n > 0) BY <1>2, <1>4, LastRow
<1>7. PICK u : u = IF s # <<>> THEN [s EXCEPT ![n].revoked = TRUE] ELSE <<>> OBVIOUS
<1>8. WithLeaf(e, k) = Append(u, x) BY <1>1, <1>2, <1>3, <1>7 DEF WithLeaf, Enrolled
<1>9. /\ u \in Seq(LeafRow) /\ Len(u) = n
      /\ \A i \in 1 .. n : u[i].revoked /\ u[i].ca = s[i].ca /\ u[i].spki = s[i].spki
  <2>1. CASE s = <<>> BY <1>6, <1>7, <2>1
  <2>2. CASE s # <<>>
    <3>1. PICK y : y = [s[n] EXCEPT !.revoked = TRUE] OBVIOUS
    <3>2. n \in DOMAIN s /\ s[n] \in LeafRow BY <1>4, <1>6, <2>2
    <3>3. y \in LeafRow /\ y.revoked = TRUE /\ y.ca = s[n].ca /\ y.spki = s[n].spki BY <3>1, <3>2 DEF LeafRow
    <3>4. u = [s EXCEPT ![n] = y] BY <1>7, <2>2, <3>1
    <3>5. u \in Seq(LeafRow) /\ Len(u) = n /\ u[n] = y /\ \A i \in 1 .. n : i # n => u[i] = s[i]
      BY <1>2, <1>4, <1>6, <3>2, <3>3, <3>4, Replaced
    <3>6. \A i \in 1 .. n : i < n => s[i].revoked
      BY <1>1, <1>2, <1>6 DEF IdentityInv, checkStep3State, checkEnvironments
    <3> QED BY <1>6, <3>3, <3>5, <3>6
  <2> QED BY <2>1, <2>2
<1>10. /\ t \in Seq(LeafRow) /\ Len(t) = n + 1 /\ DOMAIN t = 1 .. n + 1
       /\ t[n + 1] = x /\ \A i \in 1 .. n : t[i] = u[i]
  <2>1. DOMAIN u = 1 .. n BY <1>9
  <2>2. /\ t \in Seq(LeafRow) /\ Len(t) = Len(u) + 1 /\ DOMAIN t = 1 .. Len(u) + 1
        /\ t[Len(u) + 1] = x /\ \A i \in DOMAIN u : t[i] = u[i]
    <3>1. u \in Seq(LeafRow) /\ x \in LeafRow BY <1>5, <1>9
    <3>2. t = Append(u, x) BY <1>8
    <3> QED BY <3>1, <3>2, Appended
  <2> QED BY <1>9, <2>1, <2>2
<1>11. LeavesPass(t)
  <2> SUFFICES ASSUME NEW i \in 1 .. n + 1
               PROVE  /\ i < n + 1 => t[i].revoked
                      /\ t[i].ca \in DOMAIN cas
                      /\ t[i].spki \notin ArtifactKeyIds \cup CAKeyIds
    BY <1>10 DEF LeavesPass
  <2>1. CASE i \in 1 .. n
    <3>1. t[i].revoked /\ t[i].ca = s[i].ca /\ t[i].spki = s[i].spki BY <1>9, <1>10, <2>1
    <3>2. i \in DOMAIN certs[e] BY <1>1, <1>6, <2>1
    <3> QED BY <1>1, <3>1, <3>2, LeafApart
  <2>2. CASE i = n + 1 BY <1>5, <1>6, <1>10, <2>2
  <2> QED BY <1>6, <2>1, <2>2
<1> QED BY <1>1, <1>6, <1>10, <1>11

(* The rows of one Environment change and the rest of the identities stays: a  *)
(* change that revokes all but the last leaf, keeps the keys apart and counts   *)
(* on a consumed grant passes the checks.                                    *)
LEMMA LeavesKeep ==
  ASSUME IdentityInv, NEW e \in Env, NEW t \in Seq(LeafRow), certs' = [certs EXCEPT ![e] = t],
         UNCHANGED <<artifactKeys, artifacts, cas>>, LeavesPass(t), DOMAIN certs[e] \subseteq DOMAIN t,
         consumed' \in Seq(UseRow), UsesPass(e, t)
  PROVE  IdentityInv'
<1>1. certs \in [Env -> Seq(LeafRow)] /\ consumed \in Seq(UseRow) BY DEF IdentityInv, IdentityTypes
<1>2. certs'[e] = t /\ \A f \in Env : f # e => certs'[f] = certs[f] BY <1>1
<1>3. IdentityTypes' /\ ChainInv' BY <1>1 DEF IdentityInv, IdentityTypes, ChainInv
<1>4. checkArtifactKeys' /\ checkArtifactChains' /\ checkCAs'
  BY DEF IdentityInv, checkStep3State, checkArtifactKeys, checkArtifactChains, checkCAs, Chain
<1>5. ArtifactKeyIds' = ArtifactKeyIds /\ CAKeyIds' = CAKeyIds BY KeyIdsSame
<1>6. \A k \in LeafKeyIds' : k \notin ArtifactKeyIds \cup CAKeyIds /\ k # Owner
  <2> SUFFICES ASSUME NEW f \in Env, NEW i \in DOMAIN certs'[f]
               PROVE  /\ certs'[f][i].spki \notin ArtifactKeyIds \cup CAKeyIds
                      /\ certs'[f][i].spki # Owner
    BY DEF LeafKeyIds
  <2>1. CASE f = e
    <3>1. t[i] \in LeafRow BY <1>2, <2>1
    <3> QED BY <1>2, <2>1, <3>1, EnrollmentConstants DEF LeafRow, LeavesPass
  <2>2. CASE f # e
    <3>1. certs[f][i].spki \in LeafKeyIds /\ certs'[f][i] = certs[f][i] BY <1>2, <2>2 DEF LeafKeyIds
    <3> QED BY <3>1 DEF IdentityInv, checkStep3State, checkEnvironments
  <2> QED BY <2>1, <2>2
<1>7. \A f \in Env : DOMAIN certs[f] \subseteq DOMAIN certs'[f] BY <1>2
<1>8. checkEnvironments'
  <2>1. ASSUME NEW f \in Env, NEW i \in DOMAIN certs'[f]
        PROVE  (i < Len(certs'[f]) => certs'[f][i].revoked) /\ certs'[f][i].ca \in DOMAIN cas'
    <3>1. CASE f = e BY <1>2, <2>1, <3>1 DEF LeavesPass
    <3>2. CASE f # e BY <1>2, <2>1, <3>2 DEF IdentityInv, checkStep3State, checkEnvironments
    <3> QED BY <3>1, <3>2
  <2>2. ASSUME NEW i \in DOMAIN consumed'
        PROVE  /\ consumed'[i].gen \in DOMAIN certs'[consumed'[i].env]
               /\ consumed'[i].scope = "enroll" <=> consumed'[i].gen = 1
    <3>1. CASE i \in DOMAIN consumed /\ consumed'[i] = consumed[i]
      <4>1. consumed[i] \in UseRow BY <1>1, <3>1, RowOf, Zenon
      <4>2. consumed[i].env \in Env BY <4>1 DEF UseRow
      <4> QED BY <1>7, <3>1, <4>2 DEF IdentityInv, checkStep3State, checkEnvironments
    <3> QED BY <1>2, <3>1 DEF UsesPass
  <2>3. ASSUME NEW f \in Env, certs'[f] # <<>>
        PROVE  \E i \in DOMAIN consumed' : consumed'[i].env = f /\ consumed'[i].gen = 1
    <3>1. CASE f = e BY <3>1 DEF UsesPass
    <3>2. CASE f # e
      <4>1. PICK i \in DOMAIN consumed : consumed[i].env = f /\ consumed[i].gen = 1
        BY <1>2, <2>3, <3>2, EnrolledByGrant
      <4> QED BY <4>1 DEF UsesPass
    <3> QED BY <3>1, <3>2
  <2>4. /\ CAKeyIds' \cap (ArtifactKeyIds' \cup LeafKeyIds' \cup {Owner}) = {}
        /\ LeafKeyIds' \cap (ArtifactKeyIds' \cup {Owner}) = {}
        /\ Cardinality(CAKeyIds') = Len(cas')
    BY <1>5, <1>6 DEF IdentityInv, checkStep3State, checkEnvironments
  <2> QED BY <2>1, <2>2, <2>3, <2>4 DEF checkEnvironments, Enrolled
<1> QED BY <1>3, <1>4, <1>5, <1>8 DEF IdentityInv, checkStep3State

(* Enrollment, rotation, renewal and revocation of a leaf                     *)
(* (IssueEnvironmentCertificate, RenewEnvironmentCertificate,                 *)
(* RevokeEnvironmentCertificate).                                            *)
LEMMA IssueKeeps ==
  ASSUME IdentityInv, NEW e \in Env, NEW g \in Grant, NEW k \in KeyId, NEW answered \in BOOLEAN,
         IssueEnvironmentCertificate(e, g, k, answered)
  PROVE  IdentityInv'
<1>1. PICK t : t = WithLeaf(e, k) OBVIOUS
<1>2. PICK n : n = Len(certs[e]) OBVIOUS
<1>3. PICK scope \in {"enroll", "rotate"} : scope = IF Enrolled(e) THEN "rotate" ELSE "enroll" OBVIOUS
<1>4. PICK x : x = [grant |-> g, scope |-> scope, env |-> e, spki |-> k, gen |-> n + 1] OBVIOUS
<1>5. /\ certs' = [certs EXCEPT ![e] = t] /\ consumed' = Append(consumed, x)
      /\ CAUsable /\ k \notin ArtifactKeyIds \cup CAKeyIds /\ UNCHANGED <<artifactKeys, artifacts, cas>>
  BY <1>1, <1>2, <1>3, <1>4 DEF IssueEnvironmentCertificate
<1>6. /\ t \in Seq(LeafRow) /\ LeavesPass(t) /\ n \in Nat
      /\ DOMAIN certs[e] = 1 .. n /\ DOMAIN t = 1 .. n + 1
  BY <1>1, <1>2, <1>5, LeafRows
<1>7. certs[e] \in Seq(LeafRow) /\ consumed \in Seq(UseRow) BY DEF IdentityInv, IdentityTypes
<1>8. certs[e] # <<>> <=> n > 0 BY <1>2, <1>7, LastRow
<1>9. x \in UseRow
  <2>1. n + 1 \in Nat BY <1>6
  <2> QED BY <1>4, <2>1 DEF UseRow
<1>10. x.env = e /\ x.gen = n + 1 /\ x.scope = scope BY <1>4
<1>11. x.gen \in 1 .. n + 1 /\ (x.scope = "enroll" <=> x.gen = 1) BY <1>3, <1>6, <1>8, <1>10 DEF Enrolled
<1>12. PICK m : m = Len(consumed) + 1 OBVIOUS
<1>13. /\ consumed' \in Seq(UseRow) /\ m \in DOMAIN consumed' /\ consumed'[m] = x
       /\ \A i \in DOMAIN consumed : consumed'[i] = consumed[i]
       /\ \A i \in DOMAIN consumed' : i \in DOMAIN consumed \/ i = m
       /\ DOMAIN consumed \subseteq DOMAIN consumed'
  <2>1. /\ consumed' \in Seq(UseRow) /\ Len(consumed) \in Nat
        /\ DOMAIN consumed = 1 .. Len(consumed) /\ DOMAIN consumed' = 1 .. Len(consumed) + 1
        /\ \A i \in DOMAIN consumed : consumed'[i] = consumed[i]
        /\ consumed'[Len(consumed) + 1] = x
        /\ \A i \in DOMAIN consumed' : i \in DOMAIN consumed \/ i = Len(consumed) + 1
    BY <1>5, <1>7, <1>9, Appended
  <2> QED BY <1>12, <2>1
<1>14. UsesPass(e, t)
  <2>1. \A i \in DOMAIN consumed' :
          \/ i \in DOMAIN consumed /\ consumed'[i] = consumed[i]
          \/ /\ consumed'[i].env = e /\ consumed'[i].gen \in DOMAIN t
             /\ consumed'[i].scope = "enroll" <=> consumed'[i].gen = 1
    BY <1>6, <1>10, <1>11, <1>13
  <2>2. \E i \in DOMAIN consumed' : consumed'[i].env = e /\ consumed'[i].gen = 1
    <3>1. CASE n = 0 BY <1>10, <1>13, <3>1
    <3>2. CASE n # 0
      <4>1. PICK i \in DOMAIN consumed : consumed[i].env = e /\ consumed[i].gen = 1
        BY <1>6, <1>8, <3>2, EnrolledByGrant
      <4> QED BY <1>13, <4>1
    <3> QED BY <3>1, <3>2
  <2> QED BY <1>13, <2>1, <2>2 DEF UsesPass
<1>15. DOMAIN certs[e] \subseteq DOMAIN t BY <1>6
<1> QED BY <1>5, <1>6, <1>13, <1>14, <1>15, LeavesKeep

LEMMA RenewKeeps ==
  ASSUME IdentityInv, NEW e \in Env, NEW answered \in BOOLEAN, RenewEnvironmentCertificate(e, answered)
  PROVE  IdentityInv'
<1>1. PICK k : k = CurrentLeaf(e).spki OBVIOUS
<1>2. PICK t : t = WithLeaf(e, k) OBVIOUS
<1>3. PICK n : n = Len(certs[e]) OBVIOUS
<1>4. /\ certs' = [certs EXCEPT ![e] = t] /\ CAUsable /\ Enrolled(e)
      /\ UNCHANGED <<artifactKeys, artifacts, cas, consumed>>
  BY <1>1, <1>2 DEF RenewEnvironmentCertificate, VerifyPeer
<1>5. certs[e] \in Seq(LeafRow) /\ consumed \in Seq(UseRow) BY DEF IdentityInv, IdentityTypes
<1>6. k \in KeyId /\ k \notin ArtifactKeyIds \cup CAKeyIds
  <2>1. n \in DOMAIN certs[e] /\ certs[e][n] \in LeafRow BY <1>3, <1>4, <1>5, LastRow DEF Enrolled
  <2>2. k = certs[e][n].spki BY <1>1, <1>3 DEF CurrentLeaf
  <2> QED BY <2>1, <2>2, LeafApart DEF LeafRow
<1>7. /\ t \in Seq(LeafRow) /\ LeavesPass(t) /\ n \in Nat
      /\ DOMAIN certs[e] = 1 .. n /\ DOMAIN t = 1 .. n + 1
  BY <1>2, <1>3, <1>4, <1>6, LeafRows
<1>8. UsesPass(e, t)
  <2>1. \E i \in DOMAIN consumed : consumed[i].env = e /\ consumed[i].gen = 1
    BY <1>4, EnrolledByGrant DEF Enrolled
  <2> QED BY <1>4, <2>1 DEF UsesPass
<1>9. DOMAIN certs[e] \subseteq DOMAIN t BY <1>7
<1>10. certs' = [certs EXCEPT ![e] = t] /\ consumed' \in Seq(UseRow) /\ UNCHANGED <<artifactKeys, artifacts, cas>>
  BY <1>4, <1>5
<1> QED BY <1>7, <1>8, <1>9, <1>10, LeavesKeep

LEMMA RevokeKeeps ==
  ASSUME IdentityInv, NEW e \in Env, RevokeEnvironmentCertificate(e)
  PROVE  IdentityInv'
<1>1. PICK s : s = certs[e] OBVIOUS
<1>2. PICK n : n = Len(s) OBVIOUS
<1>3. PICK y : y = [s[n] EXCEPT !.revoked = TRUE] OBVIOUS
<1>4. PICK t : t = [s EXCEPT ![n] = y] OBVIOUS
<1>5. s \in Seq(LeafRow) /\ consumed \in Seq(UseRow) /\ certs \in [Env -> Seq(LeafRow)]
  BY <1>1 DEF IdentityInv, IdentityTypes
<1>6. /\ certs' = [certs EXCEPT ![e] = t] /\ s # <<>> /\ UNCHANGED <<artifactKeys, artifacts, cas, consumed>>
  BY <1>1, <1>2, <1>3, <1>4, <1>5 DEF RevokeEnvironmentCertificate, Enrolled
<1>7. n \in DOMAIN s /\ s[n] \in LeafRow BY <1>2, <1>5, <1>6, LastRow
<1>8. y \in LeafRow /\ y.revoked = TRUE /\ y.ca = s[n].ca /\ y.spki = s[n].spki BY <1>3, <1>7 DEF LeafRow
<1>9. /\ t \in Seq(LeafRow) /\ Len(t) = n /\ DOMAIN t = DOMAIN s /\ t[n] = y
      /\ \A i \in DOMAIN s : i # n => t[i] = s[i]
  BY <1>2, <1>4, <1>5, <1>7, <1>8, Replaced
<1>10. \A i \in DOMAIN s : i < n => s[i].revoked
  BY <1>1, <1>2 DEF IdentityInv, checkStep3State, checkEnvironments
<1>11. \A i \in DOMAIN s : s[i].ca \in DOMAIN cas /\ s[i].spki \notin ArtifactKeyIds \cup CAKeyIds
  BY <1>1, LeafApart
<1>12. LeavesPass(t) BY <1>7, <1>8, <1>9, <1>10, <1>11 DEF LeavesPass
<1>13. UsesPass(e, t)
  <2>1. \E i \in DOMAIN consumed : consumed[i].env = e /\ consumed[i].gen = 1
    BY <1>1, <1>6, EnrolledByGrant
  <2> QED BY <1>6, <2>1 DEF UsesPass
<1>14. /\ certs' = [certs EXCEPT ![e] = t] /\ consumed' \in Seq(UseRow) /\ DOMAIN certs[e] \subseteq DOMAIN t
       /\ UNCHANGED <<artifactKeys, artifacts, cas>> /\ t \in Seq(LeafRow)
  BY <1>1, <1>5, <1>6, <1>9
<1> QED BY <1>12, <1>13, <1>14, LeavesKeep

(* A step that leaves the identity tables alone leaves their checks alone (the *)
(* reissue of a lost leaf, and every command that is not finished).            *)
LEMMA IdentitySame ==
  ASSUME IdentityInv, UNCHANGED <<artifactKeys, artifacts, cas, certs, consumed>>
  PROVE  IdentityInv'
<1>1. IdentityTypes' /\ ChainInv' BY DEF IdentityInv, IdentityTypes, ChainInv
<1>2. UNCHANGED <<ArtifactKeyIds, CAKeyIds, LeafKeyIds>> BY DEF ArtifactKeyIds, CAKeyIds, LeafKeyIds
<1>3. checkArtifactKeys' /\ checkArtifactChains' /\ checkCAs'
  BY DEF IdentityInv, checkStep3State, checkArtifactKeys, checkArtifactChains, checkCAs, Chain
<1>4. checkEnvironments' BY <1>2 DEF IdentityInv, checkStep3State, checkEnvironments, Enrolled
<1> QED BY <1>1, <1>2, <1>3, <1>4 DEF IdentityInv, checkStep3State

(* No identity operation breaks a check of checkStep3State.                  *)
LEMMA IdentityKept ==
  ASSUME IdentityInv, clock \in Nat, IdentityNext
  PROVE  IdentityInv'
<1>1. ASSUME NEW i \in DOMAIN consumed, ReissueEnvironmentCertificate(i) PROVE IdentityInv'
  BY <1>1, IdentitySame DEF ReissueEnvironmentCertificate
<1> QED BY <1>1, RegisterKeeps, FenceKeeps, InstallCAKeeps, FenceCAKeeps, IssueKeeps, RenewKeeps, RevokeKeeps
        DEF IdentityNext

(* A finished command is signed by a key that is in use, so the chains of the  *)
(* fenced keys keep their length (the artifact that finishCommandTx inserts).  *)
LEMMA FinishIdentity ==
  ASSUME IdentityInv, NEW c \in Cmd, NEW id, NEW when \in Int, NEW n, Finish(c, id, when, n),
         UNCHANGED <<artifactKeys, cas, certs, consumed>>
  PROVE  IdentityInv'
<1>1. PICK g : g = Len(artifactKeys) OBVIOUS
<1>2. PICK x : x = [gen |-> g, cmd |-> c, at |-> when] OBVIOUS
<1>3. artifactKeys \in Seq(KeyRow) /\ artifacts \in Seq(ArtifactRow) BY DEF IdentityInv, IdentityTypes
<1>4. g \in Nat /\ g \in DOMAIN artifactKeys /\ ~artifactKeys[g].fenced /\ artifactKeys[g].from <= when
  BY <1>1, <1>3, LastRow DEF Finish, KeySigns
<1>5. x \in ArtifactRow /\ x.gen = g /\ x.at = when BY <1>2, <1>4 DEF ArtifactRow
<1>6. artifacts' = Append(artifacts, x) BY <1>1, <1>2 DEF Finish
<1>7. /\ artifacts' \in Seq(ArtifactRow) /\ Len(artifacts) \in Nat
      /\ DOMAIN artifacts = 1 .. Len(artifacts) /\ DOMAIN artifacts' = 1 .. Len(artifacts) + 1
      /\ \A i \in DOMAIN artifacts : artifacts'[i] = artifacts[i]
      /\ artifacts'[Len(artifacts) + 1] = x
      /\ \A i \in DOMAIN artifacts' : i \in DOMAIN artifacts \/ i = Len(artifacts) + 1
      /\ \A i \in DOMAIN artifacts : i \in DOMAIN artifacts'
  <2>1. /\ artifacts' \in Seq(ArtifactRow) /\ Len(artifacts) \in Nat
        /\ DOMAIN artifacts = 1 .. Len(artifacts) /\ DOMAIN artifacts' = 1 .. Len(artifacts) + 1
        /\ \A i \in DOMAIN artifacts : artifacts'[i] = artifacts[i]
        /\ artifacts'[Len(artifacts) + 1] = x
        /\ \A i \in DOMAIN artifacts' : i \in DOMAIN artifacts \/ i = Len(artifacts) + 1
    BY <1>3, <1>5, <1>6, Appended
  <2> QED BY <2>1
<1>8. IdentityTypes' BY <1>7 DEF IdentityInv, IdentityTypes
<1>9. ChainInv' BY <1>4, <1>5, <1>7 DEF IdentityInv, ChainInv
<1>10. UNCHANGED <<ArtifactKeyIds, CAKeyIds, LeafKeyIds>> BY DEF ArtifactKeyIds, CAKeyIds, LeafKeyIds
<1>11. checkArtifactKeys' /\ checkCAs'
  BY DEF IdentityInv, checkStep3State, checkArtifactKeys, checkCAs
<1>12. checkEnvironments' BY <1>10 DEF IdentityInv, checkStep3State, checkEnvironments, Enrolled
<1>13. ASSUME NEW h, h # g PROVE Chain(h)' = Chain(h)
  <2>1. \A i : i \in Chain(h)' => i \in Chain(h) BY <1>5, <1>7, <1>13 DEF Chain
  <2>2. \A i : i \in Chain(h) => i \in Chain(h)' BY <1>7 DEF Chain
  <2> QED BY <2>1, <2>2
<1>14. \A i \in Chain(g)' : artifactKeys[g].from <= artifacts'[i].at
  BY <1>4, <1>5, <1>7 DEF IdentityInv, checkStep3State, checkArtifactChains, Chain
<1>15. checkArtifactChains'
  <2> SUFFICES ASSUME NEW h \in DOMAIN artifactKeys
               PROVE  /\ \A i \in Chain(h)' : artifactKeys[h].from <= artifacts'[i].at
                      /\ artifactKeys[h].fenced => artifactKeys[h].final = Cardinality(Chain(h)')
    BY DEF checkArtifactChains
  <2>1. CASE h = g BY <1>4, <1>14, <2>1
  <2>2. CASE h # g
    <3>1. Chain(h)' = Chain(h) BY <1>13, <2>2
    <3>2. \A i \in Chain(h) : artifacts'[i] = artifacts[i] BY <1>7 DEF Chain
    <3> QED BY <3>1, <3>2 DEF IdentityInv, checkStep3State, checkArtifactChains
  <2> QED BY <2>1, <2>2
<1> QED BY <1>8, <1>9, <1>10, <1>11, <1>12, <1>15 DEF IdentityInv, checkStep3State

(* A finished command is the one after the head and gets its one artifact      *)
(* (the terminal state, the head and the artifact of finishCommandTx).         *)
LEMMA FinishSigned ==
  ASSUME CommandInv, HeadInv, SignedInv, NEW c \in Cmd, NEW id, NEW when, NEW n,
         rows[c] # "terminal", Finish(c, id, when, n)
  PROVE  HeadInv' /\ SignedInv'
<1>1. rows' = [rows EXCEPT ![c] = "terminal"] /\ head' = [head EXCEPT ![c[1]] = c[2]] /\ c[2] = head[c[1]] + 1
  BY DEF Finish
<1>2. rows \in [Cmd -> {"absent", "submitted", "terminal"}] /\ head \in [Env -> Nat] BY DEF CommandInv, RowInv
<1>3. c[1] \in Env /\ c[2] \in 1 .. MaxSeq /\ c = <<c[1], c[2]>> BY CmdParts
<1>4. HeadInv'
  <2>1. \A e \in Env : head'[e] <= MaxSeq BY <1>1, <1>2, <1>3, CommandConstants DEF HeadInv
  <2>2. ASSUME NEW d \in Cmd, d[2] <= head'[d[1]] PROVE rows'[d] = "terminal"
    <3>1. d[1] \in Env /\ d[2] \in Nat /\ d = <<d[1], d[2]>> BY CmdParts
    <3>2. CASE d[2] <= head[d[1]] BY <1>1, <1>2, <3>2 DEF HeadInv
    <3>3. CASE ~(d[2] <= head[d[1]])
      <4>1. d[1] = c[1] BY <1>1, <1>2, <2>2, <3>1, <3>3
      <4>2. d[2] = c[2] BY <1>1, <1>2, <1>3, <2>2, <3>1, <3>3, <4>1
      <4>3. d = c BY <1>3, <3>1, <4>1, <4>2
      <4> QED BY <1>1, <1>2, <4>3
    <3> QED BY <3>2, <3>3
  <2> QED BY <2>1, <2>2 DEF HeadInv
<1>5. PICK x : x = [gen |-> Len(artifactKeys), cmd |-> c, at |-> when] OBVIOUS
<1>6. artifacts' = Append(artifacts, x) /\ x.cmd = c BY <1>5 DEF Finish
<1>7. PICK m : m = Len(artifacts) OBVIOUS
<1>8. IsSeq(artifacts) /\ \A i \in DOMAIN artifacts : rows[artifacts[i].cmd] = "terminal" BY DEF CommandInv, LogInv
<1>9. /\ m \in Nat /\ DOMAIN artifacts = 1 .. m /\ DOMAIN artifacts' = 1 .. m + 1 /\ IsSeq(artifacts')
      /\ \A i \in 1 .. m : artifacts'[i] = artifacts[i]
      /\ artifacts'[m + 1] = x
  BY <1>6, <1>7, <1>8, AppendIsSeq
<1>10. \A i \in 1 .. m + 1 : i \in 1 .. m \/ i = m + 1 BY <1>9
<1>11. \A i \in 1 .. m : artifacts'[i].cmd # c BY <1>8, <1>9
<1>12. \A i, j \in DOMAIN artifacts' : artifacts'[i].cmd = artifacts'[j].cmd => i = j
  BY <1>6, <1>9, <1>10, <1>11 DEF SignedInv
<1>13. Terminals' = Terminals \cup {c} BY <1>1, <1>2 DEF Terminals
<1>14. \A d \in Terminals' : \E i \in DOMAIN artifacts' : artifacts'[i].cmd = d
  <2>1. m + 1 \in 1 .. m + 1 /\ \A i \in 1 .. m : i \in 1 .. m + 1 BY <1>9
  <2>2. \A d \in Terminals : \E i \in 1 .. m : artifacts[i].cmd = d BY <1>9 DEF SignedInv
  <2>3. \A d \in Terminals : \E i \in 1 .. m + 1 : artifacts'[i].cmd = d BY <1>9, <2>1, <2>2
  <2>4. artifacts'[m + 1].cmd = c BY <1>6, <1>9
  <2> QED BY <1>9, <1>13, <2>1, <2>3, <2>4
<1>15. IsFiniteSet(Terminals') /\ Cardinality(Terminals') = Len(artifacts')
  <2>1. Len(artifacts') = m + 1
    <3>1. PICK S : artifacts' \in Seq(S) BY <1>9 DEF IsSeq
    <3>2. Len(artifacts') \in Nat /\ DOMAIN artifacts' = 1 .. Len(artifacts') BY <3>1
    <3> QED BY <1>9, <3>2
  <2>2. c \notin Terminals BY DEF Terminals
  <2>3. IsFiniteSet(Terminals) /\ Cardinality(Terminals) = m BY <1>7 DEF SignedInv
  <2>4. IsFiniteSet(Terminals \cup {c}) /\ Cardinality(Terminals \cup {c}) = m + 1
    BY <2>2, <2>3, FS_AddElement
  <2> QED BY <1>13, <2>1, <2>4
<1> QED BY <1>4, <1>12, <1>14, <1>15 DEF SignedInv

(* The events of a finished command are the range of its receipt and their id  *)
(* lies above the last one (the events that finishCommandTx inserts).          *)
LEMMA FinishRange ==
  ASSUME CommandInv, RangeInv, IdInv, NEW c \in Cmd, NEW id \in Int, NEW when, NEW n \in Nat,
         rows[c] # "terminal", n > 0 => id > LastId, Finish(c, id, when, n)
  PROVE  RangeInv' /\ IdInv'
<1>1. PICK x : x = [id |-> id, cmd |-> c] OBVIOUS
<1>2. PICK u : u = [i \in 1 .. n |-> x] OBVIOUS
<1>3. log' = log \o u /\ u \in [1 .. n -> {x}] /\ x.id = id /\ x.cmd = c BY <1>1, <1>2 DEF Finish
<1>4. PICK m : m = Len(log) OBVIOUS
<1>5. IsSeq(log) BY DEF CommandInv, LogInv
<1>6. /\ m \in Nat /\ DOMAIN log = 1 .. m /\ DOMAIN log' = 1 .. m + n
      /\ \A i \in 1 .. m : log'[i] = log[i]
      /\ \A i \in m + 1 .. m + n : log'[i] = x
  <2> DEFINE t == log \o u
  <2>1. log' = t BY <1>3
  <2>2. u \in [1 .. n -> {x}] BY <1>3
  <2>3. /\ Len(log) \in Nat /\ DOMAIN log = 1 .. Len(log) /\ DOMAIN t = 1 .. Len(log) + n
        /\ \A i \in 1 .. Len(log) : t[i] = log[i]
        /\ \A i \in Len(log) + 1 .. Len(log) + n : t[i] = x
    BY <1>5, <2>2, ConcatIsSeq
  <2> HIDE DEF t
  <2> QED BY <1>4, <2>1, <2>3
<1>7. \A i \in 1 .. m + n : i \in 1 .. m \/ i \in m + 1 .. m + n BY <1>6
<1>8. \A i \in 1 .. m : i \in 1 .. m + n BY <1>6
<1>9. \A i \in m + 1 .. m + n : i \in 1 .. m + n BY <1>6
<1>10. /\ rows' = [rows EXCEPT ![c] = "terminal"]
       /\ ranges' = [ranges EXCEPT ![c] = IF n = 0 THEN ranges[c] ELSE [first |-> m + 1, last |-> m + n]]
  BY <1>4 DEF Finish
<1>11. rows \in [Cmd -> {"absent", "submitted", "terminal"}] BY DEF CommandInv, RowInv
<1>12. ranges \in [Cmd -> [first : Nat, last : Nat]] /\ ranges[c] = [first |-> 0, last |-> 0] BY DEF RangeInv
<1>13. PICK r : r = IF n = 0 THEN ranges[c] ELSE [first |-> m + 1, last |-> m + n] OBVIOUS
<1>14. r \in [first : Nat, last : Nat] /\ (n = 0 => r.first = 0) /\ (n # 0 => r.first = m + 1 /\ r.last = m + n)
  BY <1>6, <1>12, <1>13
<1>15. ranges' = [ranges EXCEPT ![c] = r] BY <1>10, <1>13
<1>16. ranges' \in [Cmd -> [first : Nat, last : Nat]] /\ ranges'[c] = r
       /\ \A d \in Cmd : d # c => ranges'[d] = ranges[d] /\ rows'[d] = rows[d]
  BY <1>10, <1>11, <1>12, <1>14, <1>15
<1>17. rows'[c] = "terminal" BY <1>10, <1>11
<1>18. ASSUME NEW d \in Cmd, d # c
       PROVE  Events(d)' = IF ranges'[d].first = 0 THEN {} ELSE ranges'[d].first .. ranges'[d].last
  <2>1. Events(d) = IF ranges[d].first = 0 THEN {} ELSE ranges[d].first .. ranges[d].last BY DEF RangeInv, checkRanges
  <2>2. \A i : i \in Events(d)' => i \in Events(d) BY <1>3, <1>6, <1>7, <1>18 DEF Events
  <2>3. \A i : i \in Events(d) => i \in Events(d)' BY <1>6, <1>8 DEF Events
  <2>4. Events(d)' = Events(d) BY <2>2, <2>3
  <2> QED BY <1>16, <1>18, <2>1, <2>4
<1>19. Events(c)' = IF r.first = 0 THEN {} ELSE r.first .. r.last
  <2>1. Events(c) = {} BY <1>12 DEF RangeInv, checkRanges
  <2>2. \A i \in 1 .. m : log[i].cmd # c BY <1>6, <2>1 DEF Events
  <2>3. \A i : i \in Events(c)' => i \in m + 1 .. m + n BY <1>6, <1>7, <2>2 DEF Events
  <2>4. \A i : i \in m + 1 .. m + n => i \in Events(c)' BY <1>3, <1>6, <1>9 DEF Events
  <2>5. Events(c)' = m + 1 .. m + n BY <2>3, <2>4
  <2>6. CASE n = 0
    <3>1. m + 1 .. m + n = {} BY <1>6, <2>6
    <3> QED BY <1>14, <2>5, <2>6, <3>1
  <2>7. CASE n # 0
    <3>1. r.first # 0 BY <1>6, <1>14, <2>7
    <3> QED BY <1>14, <2>5, <2>7, <3>1
  <2> QED BY <2>6, <2>7
<1>20. RangeInv'
  <2>1. \A d \in Cmd : rows'[d] # "terminal" => ranges'[d] = [first |-> 0, last |-> 0]
    BY <1>16, <1>17 DEF RangeInv
  <2>2. checkRanges' BY <1>16, <1>18, <1>19 DEF checkRanges
  <2> QED BY <1>16, <2>1, <2>2 DEF RangeInv
<1>21. ASSUME n # 0, NEW i \in 1 .. m PROVE log[i].id < id
  <2>1. m \in 1 .. m /\ LastId = log[m].id
    <3>1. log # <<>> BY <1>6, <1>21
    <3> QED BY <1>4, <1>6, <1>21, <3>1 DEF LastId
  <2>2. log[i].id <= log[m].id
    <3>1. CASE i = m BY <1>6, <2>1, <3>1 DEF IdInv
    <3>2. CASE i < m BY <1>6, <2>1, <3>2 DEF IdInv
    <3> QED BY <1>6, <3>1, <3>2
  <2>3. log[i].id \in Int /\ log[m].id \in Int BY <1>6, <2>1 DEF IdInv
  <2> QED BY <1>21, <2>1, <2>2, <2>3
<1>22. IdInv'
  <2>1. \A i \in DOMAIN log' : log'[i].id \in Int BY <1>3, <1>6, <1>7 DEF IdInv
  <2>2. ASSUME NEW i \in 1 .. m + n, NEW j \in 1 .. m + n, i < j
        PROVE  log'[i].id <= log'[j].id /\ (log'[i].cmd # log'[j].cmd => log'[i].id < log'[j].id)
    <3>1. CASE j \in 1 .. m
      <4>1. i \in 1 .. m
        <5>1. m \in Nat BY <1>6
        <5> QED BY <2>2, <3>1, <5>1
      <4> QED BY <1>6, <2>2, <3>1, <4>1 DEF IdInv
    <3>2. CASE i \in 1 .. m /\ j \in m + 1 .. m + n
      <4>1. n # 0 BY <1>6, <3>2
      <4>2. log[i].id < id /\ log[i].id \in Int BY <1>6, <1>21, <3>2, <4>1 DEF IdInv
      <4>3. log'[i] = log[i] /\ log'[j].id = id BY <1>3, <1>6, <3>2
      <4> QED BY <4>2, <4>3
    <3>3. CASE i \in m + 1 .. m + n /\ j \in m + 1 .. m + n
      BY <1>3, <1>6, <3>3
    <3> QED BY <1>7, <3>1, <3>2, <3>3
  <2> QED BY <1>6, <2>1, <2>2 DEF IdInv
<1> QED BY <1>20, <1>22

(* The freshly created store: every table is empty.                          *)
LEMMA StoreInit == Init => StoreInv
<1> SUFFICES ASSUME Init PROVE StoreInv OBVIOUS
<1>1. artifactKeys = <<>> /\ artifacts = <<>> /\ cas = <<>> /\ consumed = <<>> /\ certs = [e \in Env |-> <<>>]
      /\ log = <<>>
  BY DEF Init, IdentityInit
<1>2. \A S : <<>> \in Seq(S) /\ DOMAIN <<>> = {} /\ Len(<<>>) = 0 OBVIOUS
<1>3. IdentityTypes /\ ChainInv BY <1>1, <1>2 DEF IdentityTypes, ChainInv
<1>4. CAKeyIds = {} /\ ArtifactKeyIds = {} /\ LeafKeyIds = {}
  BY <1>1, <1>2 DEF CAKeyIds, ArtifactKeyIds, LeafKeyIds
<1>5. checkStep3State
  <2>1. checkArtifactKeys /\ checkArtifactChains /\ checkCAs
    BY <1>1, <1>2 DEF checkArtifactKeys, checkArtifactChains, checkCAs
  <2>2. checkEnvironments BY <1>1, <1>2, <1>4, FS_EmptySet DEF checkEnvironments, Enrolled
  <2> QED BY <2>1, <2>2 DEF checkStep3State
<1>6. IdentityInv BY <1>3, <1>4, <1>5, FS_EmptySet DEF IdentityInv
<1>7. rows = [c \in Cmd |-> "absent"] /\ family = [c \in Cmd |-> "fold"] /\ head = [e \in Env |-> 0]
      /\ ranges = [c \in Cmd |-> [first |-> 0, last |-> 0]]
  BY DEF Init
<1>8. FamilyInv BY <1>7 DEF FamilyInv, checkSubmissions
<1>9. HeadInv BY <1>7, CmdParts, CommandConstants DEF HeadInv
<1>10. SignedInv
  <2>1. Terminals = {} BY <1>7 DEF Terminals
  <2> QED BY <1>1, <1>2, <2>1, FS_EmptySet DEF SignedInv
<1>11. RangeInv
  <2>1. \A c \in Cmd : Events(c) = {} /\ ranges[c].first = 0 BY <1>1, <1>2, <1>7 DEF Events
  <2> QED BY <1>7, <2>1 DEF RangeInv, checkRanges
<1>12. IdInv BY <1>1, <1>2 DEF IdInv
<1> QED BY <1>6, <1>8, <1>9, <1>10, <1>11, <1>12 DEF StoreInv

(* Every step keeps what the checks verify: rotation and fencing of the keys,  *)
(* enrollment, admission, failure, completion, sweep and restart.             *)
LEMMA StoreKept == CommandInv /\ StoreInv /\ [Next]_vars => StoreInv'
<1> SUFFICES ASSUME CommandInv, StoreInv, [Next]_vars PROVE StoreInv' OBVIOUS
<1> USE DEF StoreInv
<1>1. /\ rows \in [Cmd -> {"absent", "submitted", "terminal"}] /\ head \in [Env -> Nat]
      /\ clock \in Nat /\ exec \in [Cmd -> [at : Places, id : Int, when : Int]]
  BY DEF CommandInv, RowInv, ExecInv
<1>2. ASSUME UNCHANGED <<artifacts, rows, head, log, ranges>> PROVE HeadInv' /\ SignedInv' /\ RangeInv' /\ IdInv'
  <2>1. HeadInv' /\ IdInv' BY <1>2 DEF HeadInv, IdInv
  <2>2. SignedInv' BY <1>2 DEF SignedInv, Terminals
  <2>3. RangeInv' BY <1>2 DEF RangeInv, checkRanges, Events
  <2> QED BY <2>1, <2>2, <2>3
<1>3. ASSUME UNCHANGED <<rows, family>> PROVE FamilyInv' BY <1>3 DEF FamilyInv, checkSubmissions
<1>4. ASSUME UNCHANGED <<artifactKeys, artifacts, cas, certs, consumed>> PROVE IdentityInv' BY <1>4, IdentitySame
<1>5. ASSUME UNCHANGED <<identityVars, rowVars>> PROVE StoreInv' BY <1>2, <1>3, <1>4, <1>5 DEF identityVars, rowVars
<1>6. CASE IdentityStep
  <2>1. UNCHANGED <<rows, head, log, ranges, family>> BY <1>6 DEF IdentityStep, commandVars, rowVars
  <2>2. UNCHANGED artifacts
    BY <1>6 DEF IdentityStep, IdentityNext, InstallEnvironmentCA, RegisterArtifactKey,
       FenceArtifactKey, FenceEnvironmentCA, IssueEnvironmentCertificate, ReissueEnvironmentCertificate,
       RenewEnvironmentCertificate, RevokeEnvironmentCertificate
  <2>3. IdentityInv' BY <1>1, <1>6, IdentityKept DEF IdentityStep
  <2> QED BY <1>2, <1>3, <2>1, <2>2, <2>3
<1>7. CASE Restart BY <1>5, <1>7 DEF Restart
<1>8. CASE UNCHANGED vars BY <1>5, <1>8 DEF vars, commandVars
<1>9. ASSUME NEW c \in Cmd, NEW f \in Family, SubmitCommand(c, f) PROVE StoreInv'
  <2>1. /\ rows' = [rows EXCEPT ![c] = "submitted"] /\ family' = [family EXCEPT ![c] = f] /\ f # "sweep"
        /\ rows[c] = "absent" /\ UNCHANGED <<artifactKeys, artifacts, cas, certs, consumed, head, log, ranges>>
    BY <1>9 DEF SubmitCommand, identityVars
  <2>2. c[1] \in Env /\ c[2] \in Nat /\ c[2] > 0 BY CmdParts
  <2>3. FamilyInv'
    BY <1>1, <2>1, <2>2, CommandConstants DEF FamilyInv, checkSubmissions
  <2>4. \A d \in Cmd : rows'[d] = "terminal" <=> rows[d] = "terminal" BY <1>1, <2>1
  <2>5. HeadInv' /\ IdInv' BY <2>1, <2>4 DEF HeadInv, IdInv
  <2>6. SignedInv'
    <3>1. Terminals' = Terminals BY <2>4 DEF Terminals
    <3> QED BY <2>1, <3>1 DEF SignedInv
  <2>7. RangeInv' BY <2>1, <2>4 DEF RangeInv, checkRanges, Events
  <2> QED BY <1>4, <2>1, <2>3, <2>5, <2>6, <2>7
<1>10. ASSUME NEW c \in Cmd, RetryCommand(c) \/ HookResult(c) \/ MismatchedHookResult(c) \/ CompletionFails(c)
       PROVE  StoreInv'
  BY <1>5, <1>10 DEF RetryCommand, HookResult, MismatchedHookResult, CompletionFails
<1>11. ASSUME NEW c \in Cmd, NEW id, Evaluate(c, id) PROVE StoreInv' BY <1>5, <1>11 DEF Evaluate
<1>12. ASSUME NEW c \in Cmd, NEW n \in Effects, CompleteCommand(c, n) PROVE StoreInv'
  <2>1. n \in Nat /\ exec[c].id \in Int /\ exec[c].when \in Int BY <1>1, CommandConstants
  <2>2. /\ rows[c] = "submitted" /\ Finish(c, exec[c].id, exec[c].when, n) /\ (n > 0 => exec[c].id > LastId)
        /\ UNCHANGED <<artifactKeys, cas, certs, consumed, family>>
    BY <1>12 DEF CompleteCommand
  <2>3. IdentityInv' BY <2>1, <2>2, FinishIdentity
  <2>4. HeadInv' /\ SignedInv' BY <2>2, FinishSigned
  <2>5. RangeInv' /\ IdInv' BY <2>1, <2>2, FinishRange
  <2>6. rows' = [rows EXCEPT ![c] = "terminal"] BY <2>2 DEF Finish
  <2>7. FamilyInv' BY <1>1, <2>2, <2>6 DEF FamilyInv, checkSubmissions
  <2> QED BY <2>3, <2>4, <2>5, <2>7
<1>13. ASSUME NEW c \in Cmd, NEW n \in Effects, "sweep" \in Family, Sweep(c, n) PROVE StoreInv'
  <2>1. n \in Nat /\ clock + 1 \in Int /\ c[2] > 0 BY <1>1, CommandConstants, CmdParts
  <2>2. /\ rows[c] = "absent" /\ Finish(c, clock + 1, clock + 1, n) /\ (n > 0 => clock + 1 > LastId)
        /\ UNCHANGED <<artifactKeys, cas, certs, consumed>> /\ family' = [family EXCEPT ![c] = "sweep"]
    BY <1>13 DEF Sweep
  <2>3. IdentityInv' BY <2>1, <2>2, FinishIdentity
  <2>4. HeadInv' /\ SignedInv' BY <2>2, FinishSigned
  <2>5. RangeInv' /\ IdInv' BY <2>1, <2>2, FinishRange
  <2>6. rows' = [rows EXCEPT ![c] = "terminal"] BY <2>2 DEF Finish
  <2>7. FamilyInv' BY <1>1, <1>13, <2>1, <2>2, <2>6 DEF FamilyInv, checkSubmissions
  <2> QED BY <2>3, <2>4, <2>5, <2>7
<1> QED BY <1>6, <1>7, <1>8, <1>9, <1>10, <1>11, <1>12, <1>13 DEF Next, CommandStep

(* The invariant implies every check of OpenExisting: what it counts (receipts, *)
(* artifacts, heads) is what the rows say.                                    *)
LEMMA ChecksPass == CommandInv /\ StoreInv => Reopens
<1> SUFFICES ASSUME CommandInv, StoreInv PROVE Reopens OBVIOUS
<1> USE DEF StoreInv
<1>1. rows \in [Cmd -> {"absent", "submitted", "terminal"}] /\ head \in [Env -> Nat] BY DEF CommandInv, RowInv
<1>2. checkStep3State /\ checkSubmissions /\ checkRanges BY DEF IdentityInv, FamilyInv, RangeInv
<1>3. checkReceipts
  <2> SUFFICES ASSUME NEW c \in Cmd
               PROVE  Cardinality({i \in DOMAIN artifacts : artifacts[i].cmd = c}) =
                        IF rows[c] = "terminal" THEN 1 ELSE 0
    BY DEF checkReceipts, FamilyInv
  <2>1. CASE rows[c] = "terminal"
    <3>1. PICK i \in DOMAIN artifacts : artifacts[i].cmd = c BY <2>1 DEF SignedInv, Terminals
    <3>2. {j \in DOMAIN artifacts : artifacts[j].cmd = c} = {i} BY <3>1 DEF SignedInv
    <3> QED BY <2>1, <3>2, FS_Singleton
  <2>2. CASE rows[c] # "terminal"
    <3>1. {j \in DOMAIN artifacts : artifacts[j].cmd = c} = {} BY <2>2 DEF CommandInv, LogInv
    <3> QED BY <2>2, <3>1, FS_EmptySet
  <2> QED BY <2>1, <2>2
<1>4. checkCounts BY DEF checkCounts, SignedInv, Terminals
<1>5. checkEventChain BY DEF checkEventChain, IdInv, CommandInv, LogInv
<1>6. checkSequenceHeads
  <2>1. ASSUME NEW e \in Env
        PROVE  /\ Cardinality({n \in 1 .. MaxSeq : rows[<<e, n>>] = "terminal"}) = head[e]
               /\ \A n \in {k \in 1 .. MaxSeq : rows[<<e, k>>] = "terminal"} : n <= head[e]
    <3>1. head[e] \in Nat /\ head[e] <= MaxSeq BY <1>1 DEF HeadInv
    <3>2. ASSUME NEW n \in 1 .. MaxSeq PROVE rows[<<e, n>>] = "terminal" <=> n <= head[e]
      <4>1. PICK c : c = <<e, n>> OBVIOUS
      <4>2. c \in Cmd /\ c[1] = e /\ c[2] = n BY <4>1 DEF Cmd
      <4>3. rows[c] = "terminal" <=> n <= head[e] BY <4>2 DEF HeadInv, CommandInv, RowInv
      <4> QED BY <4>1, <4>3
    <3>3. {n \in 1 .. MaxSeq : rows[<<e, n>>] = "terminal"} = 1 .. head[e]
      BY <3>1, <3>2, CommandConstants
    <3>4. Cardinality(1 .. head[e]) = head[e] BY <3>1, FS_Interval
    <3> QED BY <3>2, <3>3, <3>4
  <2>2. \A c \in Cmd : rows[c] = "submitted" => c[2] = head[c[1]] + 1 BY DEF CommandInv, RowInv
  <2> QED BY <2>1, <2>2 DEF checkSequenceHeads
<1> QED BY <1>2, <1>3, <1>4, <1>5, <1>6 DEF Reopens, checkSchema

(* The files of a running authority can always be reopened, for any number of   *)
(* Environments, commands, keys and grants: every check that OpenExisting runs *)
(* (checkStep3State, checkStep4State, checkStep4Events) holds of what the       *)
(* identity operations and finishCommandTx have committed, whenever the process *)
(* dies.                                                                     *)
THEOREM StoreAlwaysReopens == Spec => []Reopens
<1>1. StoreInv /\ CommandInv => Reopens BY ChecksPass
<1>2. CommandInv /\ StoreInv /\ [Next]_vars => (CommandInv /\ StoreInv)' BY NextInv, StoreKept
<1>3. Init => CommandInv /\ StoreInv BY InitInv, StoreInit
<1> QED BY <1>1, <1>2, <1>3, PTL DEF Spec
=============================================================================
