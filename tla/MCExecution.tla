---- MODULE MCExecution ----
(* Instances of Execution for TLC. *)
EXTENDS Execution, TLC

CONSTANTS w1, w2

\* One gated Matter with a Step for the Researcher to author, in two Runs: Run 1
\* is over the Matter's anonymous Batch, Run 2 over a named one.
Parents == [s \in {2} |-> 1]
FrozenSets == [r \in {1, 2} |-> {1}]
Batches == [r \in {1, 2} |-> IF r = 1 THEN 1 ELSE 0]
Symmetric == Permutations({w1, w2})

\* One Run of a named Batch over that Matter and a Matter 3 it blocks.
Edges == {<<3, 1>>}
BothMatters == [r \in {1} |-> {1, 3}]
NamedBatch == [r \in {1} |-> 0]
====
