----------------------------- MODULE LandingSystem -----------------------------
(***************************************************************************)
(* The submission pipeline as docker-compose.yml assembles it: the gunicorn*)
(* processes of "web" (SubmitPhone) and the pools of "worker"              *)
(* (CeleryTasks) around one Redis, which holds the dedup keys of the first *)
(* and the queue both share.                                               *)
(***************************************************************************)
EXTENDS Naturals, Sequences

CONSTANTS Requests, Phones, Workers, None, Window, MaxTime,
          Nodes, Slots, Prefetch, Failing, MaxCrashes

ASSUME SystemAssumption ==
  None \notin Phones /\ None \notin Workers /\ Window \in Nat /\ MaxTime \in Nat

VARIABLES now, store, pc, phone, worker, isNew, addedAt, metrics,
          queue,
          up, reserved, job, orphans, rows, docs, failures, crashes

Web  == INSTANCE SubmitPhone WITH LocMem <- FALSE
Pool == INSTANCE CeleryTasks WITH Messages <- Web!Messages, Backlog <- <<>>

webOnly  == <<now, store, pc, phone, worker, isNew, addedAt, metrics>>
poolOnly == <<up, reserved, job, orphans, rows, docs, failures, crashes>>
vars     == <<webOnly, queue, poolOnly>>

Init == Web!Init /\ Pool!Init

WebStep  == Web!Next /\ UNCHANGED poolOnly
WebFault == Web!Faults /\ UNCHANGED poolOnly
PoolStep == Pool!CeleryNext /\ UNCHANGED webOnly

Next       == WebStep \/ PoolStep
FaultyNext == Next \/ WebFault

(* A process that has taken a request goes on with post(), and the pools   *)
(* keep working.  Clients may stop sending, and the clock may stop.        *)
HandlerStep(r) == Web!Handle(r) /\ UNCHANGED poolOnly
PoolAct(A)     == A /\ UNCHANGED webOnly

Fairness ==
  /\ \A r \in Requests : WF_vars(HandlerStep(r))
  /\ \A n \in Nodes : WF_vars(PoolAct(Pool!Deliver(n)))
  /\ \A c \in Pool!Children :
       /\ WF_vars(PoolAct(Pool!Start(c))) /\ WF_vars(PoolAct(Pool!Ack(c)))
       /\ WF_vars(PoolAct(Pool!Finish(c))) /\ WF_vars(PoolAct(Pool!Fail(c)))
       /\ WF_vars(PoolAct(Pool!Save(c)))
       /\ "log" \notin Failing => WF_vars(PoolAct(Pool!Log(c)))

Spec       == Init /\ [][Next]_vars /\ Fairness
FaultySpec == Init /\ [][FaultyNext]_vars

-----------------------------------------------------------------------------
(* The pipeline implements LeadCapture: the promise is made by cache.add   *)
(* and kept by the INSERT of the save task.                                *)
Lead == INSTANCE LeadCapture WITH
  accepted    <- [r \in Requests |-> IF isNew[r] THEN phone[r] ELSE None],
  closedUntil <- store["redis"],
  stored      <- rows

(* While every process, node and call behaves, each number is accepted     *)
(* once per window, stored once, and stored in the end, also when MongoDB  *)
(* is down (post(), save_phone_in_sql_task).                               *)
KeepsPromise == Lead!Spec

(* Whatever fails between the processes, Redis and the workers, nothing is *)
(* stored that was not accepted and the windows still hold.                *)
KeepsWindows == Lead!LossySpec

(* Every 200 response comes true: "queued" means this submission gets its  *)
(* row, "duplicate" that another one of the same number has or gets one.   *)
RepliesComeTrue ==
  \A r \in Requests :
    /\ pc[r] = "queued" ~> rows[r] = 1
    /\ pc[r] = "duplicate" ~> \E s \in Requests : phone[s] = phone[r] /\ rows[s] = 1
=============================================================================
