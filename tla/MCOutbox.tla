------------------------------ MODULE MCOutbox ------------------------------
(* Instances of Outbox for TLC. *)
EXTENDS Outbox, TLC

\* A creation, a comment and the three dispositions.
Candidates ==
  {[kind |-> k, disposition |-> "active"] : k \in {"create", "comment", "state"}}
    \cup [kind : {"state"}, disposition : {"completed", "canceled"}]

Symmetric == Permutations(Process)

\* Nothing tells completed and canceled apart, so of the two the one that is
\* proposed or set first is completed.
Mentioned == history.reached \cup {candidate[e].disposition : e \in Entry}
CompletedFirst == "canceled" \in Mentioned' => "completed" \in Mentioned
MCSpec == Init /\ [][Next /\ CompletedFirst]_vars
=============================================================================
