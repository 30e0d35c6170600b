---------------------------- MODULE MCLandingSystem ----------------------------
(* Finite instances of LandingSystem for TLC. *)
EXTENDS LandingSystem, TLC

CONSTANTS r1, r2, w1, w2

MCRequests == {r1, r2}
MCWorkers  == {w1, w2}

(* Requests and processes are interchangeable. *)
Symmetric == Permutations(MCRequests) \cup Permutations(MCWorkers)
=============================================================================
