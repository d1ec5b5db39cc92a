-------------------------------- MODULE Ledger --------------------------------
(***************************************************************************)
(* What the authority promises a registered Environment about its          *)
(* commands, whatever happens to connections and to the authority process: *)
(* the commands of one Environment are numbered 1, 2, 3, ..., are accepted *)
(* and finished in that order with at most one unfinished at a time, each  *)
(* is finished exactly once, and a finished command keeps exactly the      *)
(* events that it was finished with.                                       *)
(*                                                                         *)
(* src/docs/wipd/result-receipt-idempotency-contract.md states it in       *)
(* prose; Commands.tla, translated from the code, is shown to implement it *)
(***************************************************************************)
EXTENDS Naturals, Sequences

CONSTANTS
    Env,    \* the Environments of one authority domain
    Effects \* how many events a finished command can have appended

VARIABLES
    open,    \* [Env -> BOOLEAN]: a command is accepted and not yet finished
    head,    \* [Env -> Nat]: how many commands of the Environment are finished
    finished \* the finished commands, in the order they were finished

ledgerVars == <<open, head, finished>>

Init ==
    /\ open = [e \in Env |-> FALSE]
    /\ head = [e \in Env |-> 0]
    /\ finished = <<>>

\* The submission point: the next command of an idle Environment is accepted.
Accept(e) ==
    /\ ~open[e]
    /\ open' = [open EXCEPT ![e] = TRUE]
    /\ UNCHANGED <<head, finished>>

\* The terminal transaction: receipt, events and sequence head together.
Finish(e, n) ==
    /\ open[e]
    /\ open' = [open EXCEPT ![e] = FALSE]
    /\ head' = [head EXCEPT ![e] = @ + 1]
    /\ finished' = Append(finished, [env |-> e, seq |-> head[e] + 1, events |-> n])

\* An operation whose submission and terminal transaction are one.
AcceptAndFinish(e, n) ==
    /\ ~open[e]
    /\ head' = [head EXCEPT ![e] = @ + 1]
    /\ finished' = Append(finished, [env |-> e, seq |-> head[e] + 1, events |-> n])
    /\ UNCHANGED open

Next ==
    \E e \in Env :
        \/ Accept(e)
        \/ \E n \in Effects : Finish(e, n) \/ AcceptAndFinish(e, n)

Spec == Init /\ [][Next]_ledgerVars
===============================================================================
