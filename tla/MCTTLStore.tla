----------------------------- MODULE MCTTLStore -----------------------------
(* TTLStore on small instances: keys are interchangeable when none is "". *)
EXTENDS TTLStore, TLC

Symmetry == Permutations(Clients) \cup Permutations(Keys)
=============================================================================
