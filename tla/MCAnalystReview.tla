--------------------------- MODULE MCAnalystReview ---------------------------
(* Instances of AnalystReview for TLC. Reports and sessions are             *)
(* interchangeable.                                                         *)
EXTENDS AnalystReview, TLC

\* Two transactions that overlap, with as little data as their races need, and one
\* at a time with every tier, two damages and both kinds of report.
TwoWorlds ==
    {[open |-> 2, top |-> 0, tiers |-> {0}, damages |-> {3}, photos |-> {FALSE}],
     [open |-> 1, top |-> 2, tiers |-> 0..2, damages |-> {1, 3}, photos |-> BOOLEAN]}

ReviewSymmetry == Permutations(Reports) \cup Permutations(Sessions)
=============================================================================
