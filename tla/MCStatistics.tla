----------------------------- MODULE MCStatistics -----------------------------
(* Clicks and visitors of Statistics are interchangeable. *)
EXTENDS Statistics, TLC

ClickSymmetry == Permutations(Visits) \cup Permutations(Hashes)
===============================================================================
