------------------------------- MODULE MCPlan -------------------------------
(***************************************************************************)
(* Two processes on a small tree; the fourth node is for one process alone, *)
(* with the plan's order left to explore.                                   *)
(***************************************************************************)
EXTENDS Plan

CONSTANTS p1, p2, MaxShared   \* MaxShared: bound: nodes born while both work

\* Titles that slugify to ordinary locators.
Slug1 == <<"slug", 1>>
TwoSlugs == {Slug1, <<"slug", 2>>}

Within ==
  \/ Len(nodes') <= MaxShared
  \/ /\ pending'[p2] = Idle /\ ~overlapped'
     /\ \A i \in DOMAIN nodes' : nodes'[i].locator \in TwoSlugs => nodes'[i].locator = Slug1

MCSpec == Init /\ [][Next /\ Within]_vars
=============================================================================
