------------------------------ MODULE MCGates ------------------------------
(***************************************************************************)
(* Two instances of Gates in one: a Matter with the whole depth under it    *)
(* and two ordered gates, and a Matter with a Step and its replacement, one *)
(* gate, and two requests in flight.  Only one of the Matters is ever born. *)
(***************************************************************************)
EXTENDS Gates

CONSTANTS m1, s1, t1, m2, t2, t3, verified, reviewedLocal, human, verifier, none

MCNode == {m1, s1, t1, m2, t2, t3}
MCKind == [n \in MCNode |-> CASE n \in {m1, m2} -> "matter" [] n = s1 -> "stage"
                              [] n \in {t1, t2, t3} -> "step"]
MCParent == [n \in MCNode |-> CASE n \in {m1, m2} -> none [] n = s1 -> m1
                                [] n = t1 -> s1 [] n \in {t2, t3} -> m2]

MCGate == {verified, reviewedLocal}
MCOwner == [g \in MCGate |-> IF g = verified THEN verifier ELSE human]
MCRank == [g \in MCGate |-> IF g = verified THEN 0 ELSE 1]

\* The nodes and gates of a scenario, and its bound on the requests in flight.
Scenarios ==
  {[nodes |-> {m1, s1, t1}, gates |-> MCGate, inflight |-> 1],
   [nodes |-> {m2, t2, t3}, gates |-> {reviewedLocal}, inflight |-> MaxInFlight]}

\* The step stays within a scenario.
Within ==
  \E s \in Scenarios :
    /\ \A n \in Node \ s.nodes : lifecycle'[n] = Unborn
    /\ \A g \in Gate \ s.gates : declared'[g] = Undeclared
    /\ \A r \in inflight' : r.op = "declare" => r.gate \in s.gates
    /\ Cardinality(inflight') <= s.inflight

MCSpec == Init /\ [][Next /\ Within]_vars
=============================================================================
