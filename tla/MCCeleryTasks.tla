----------------------------- MODULE MCCeleryTasks -----------------------------
(* Finite instances of CeleryTasks for TLC. *)
EXTENDS CeleryTasks, TLC

CONSTANTS r1, r2, n1, n2, c1, c2

MCRequests == {r1, r2}
MCMessages == [task : {"save", "log"}, id : MCRequests]

Message(task, r) == [task |-> task, id |-> r]

(* Two accepted submissions: the save task of one is there twice, after a  *)
(* lost answer to its publication, and the log task of the other is done.  *)
MCBacklog ==
  <<Message("log", r1), Message("save", r1), Message("save", r1), Message("save", r2)>>

(* Nodes, and the children of every node, are interchangeable. *)
Symmetric == Permutations({n1, n2}) \cup Permutations({c1, c2})
=============================================================================
