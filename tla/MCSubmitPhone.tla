----------------------------- MODULE MCSubmitPhone -----------------------------
(* Finite instances of SubmitPhone for TLC. *)
EXTENDS SubmitPhone, TLC

CONSTANTS r1, r2, r3, p1, p2, w1, w2

MCRequests == {r1, r2, r3}
MCPhones   == {p1, p2}
MCWorkers  == {w1, w2}

(* Requests, numbers and processes are interchangeable. *)
Symmetric ==
  Permutations(MCRequests) \cup Permutations(MCPhones) \cup Permutations(MCWorkers)

(* The same with one number, where permuting the numbers has no meaning. *)
SymmetricOne == Permutations(MCRequests) \cup Permutations(MCWorkers)
=============================================================================
