------------------------------ MODULE LeadCapture ------------------------------
(***************************************************************************)
(* What the landing page promises about the numbers visitors leave: within *)
(* any window only one submission of a number is accepted, and what is     *)
(* accepted is stored, once.  No process, cache or queue appears here; a   *)
(* duplicate or failed submission changes nothing.                         *)
(***************************************************************************)
EXTENDS Naturals

CONSTANTS
  Requests,   \* the submissions
  Phones,     \* the numbers they carry
  None,       \* the number of a submission not (yet) accepted
  Window,     \* how long an accepted number is refused again
  MaxTime     \* bound of the clock

VARIABLES
  now,          \* the clock
  accepted,     \* accepted[r]: the number submission r was accepted for
  closedUntil,  \* closedUntil[p]: until when p is refused
  stored        \* stored[r]: how many rows submission r made

lead == <<now, accepted, closedUntil, stored>>

Init ==
  /\ now = 0
  /\ accepted = [r \in Requests |-> None]
  /\ closedUntil = [p \in Phones |-> 0]
  /\ stored = [r \in Requests |-> 0]

Accept(r, p) ==
  /\ accepted[r] = None
  /\ closedUntil[p] <= now
  /\ accepted' = [accepted EXCEPT ![r] = p]
  /\ closedUntil' = [closedUntil EXCEPT ![p] = now + Window]
  /\ UNCHANGED <<now, stored>>

StoreAgain(r) ==
  /\ accepted[r] # None
  /\ stored' = [stored EXCEPT ![r] = @ + 1]
  /\ UNCHANGED <<now, accepted, closedUntil>>

Store(r) == stored[r] = 0 /\ StoreAgain(r)

(* A number can be refused for a window although no submission of it was   *)
(* accepted: the service failed half way.                                  *)
Waste(p) ==
  /\ closedUntil[p] <= now
  /\ closedUntil' = [closedUntil EXCEPT ![p] = now + Window]
  /\ UNCHANGED <<now, accepted, stored>>

Tick ==
  /\ now < MaxTime
  /\ now' = now + 1
  /\ UNCHANGED <<accepted, closedUntil, stored>>

Accepting == \E r \in Requests, p \in Phones : Accept(r, p)

Next == Tick \/ Accepting \/ \E r \in Requests : Store(r)

(* What is left of it when processes, nodes and connections fail: a stored *)
(* number was accepted, and acceptances keep their distance, but a number  *)
(* may be stored again, never, or be refused for nothing.                  *)
LossyNext ==
  \/ Tick \/ Accepting
  \/ \E r \in Requests : StoreAgain(r)
  \/ \E p \in Phones : Waste(p)

LossySpec == Init /\ [][LossyNext]_lead

Spec == Init /\ [][Next]_lead /\ \A r \in Requests : WF_lead(Store(r))
=============================================================================
