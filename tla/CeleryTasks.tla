------------------------------ MODULE CeleryTasks ------------------------------
(***************************************************************************)
(* The Celery workers (`celery -A config worker`) that take tasks from the *)
(* Redis queue and run landing/tasks.py in the child processes of their    *)
(* pools.  settings.py keeps Celery's defaults for everything but the time *)
(* limits: a message is acknowledged when a child has begun the task, a    *)
(* task that fails is not retried, and both tasks share the one queue.  An *)
(* unacknowledged message of a worker that died returns to the queue after *)
(* the visibility timeout.                                                 *)
(***************************************************************************)
EXTENDS Naturals, Sequences, FiniteSets, Bags

CONSTANTS
  Requests,   \* the submissions that tasks are about
  Messages,   \* the messages the endpoint publishes: [task, id, ...]
  Backlog,    \* the queue the workers find, next message first
  Nodes,      \* the worker containers
  Slots,      \* the child processes of each node
  Prefetch,   \* how many unacknowledged messages a node may hold
  Failing,    \* the tasks whose database refuses or hangs, of "save" and "log"
  MaxCrashes  \* bound on the deaths of nodes and children

(* post() publishes at most one log task and one save task per submission; *)
(* they may be in the queue twice.                                         *)
ASSUME CeleryAssumption ==
  /\ \A m \in Messages : m.task \in {"save", "log"} /\ m.id \in Requests
  /\ Backlog \in Seq(Messages)
  /\ \A i, j \in DOMAIN Backlog :
       Backlog[i].task = Backlog[j].task /\ Backlog[i].id = Backlog[j].id
         => Backlog[i] = Backlog[j]
  /\ IsFiniteSet(Nodes) /\ IsFiniteSet(Slots)
  /\ Prefetch \in Nat \ {0}
  /\ Failing \subseteq {"save", "log"}
  /\ MaxCrashes \in Nat

Children  == Nodes \X Slots
NodeOf(c) == c[1]

VARIABLES
  queue,      \* the Redis list "celery", next message first
  up,         \* up[n]: node n is running
  reserved,   \* reserved[n]: messages node n has taken and not begun
  job,        \* job[c]: the task child c is in
  orphans,    \* the bag of unacknowledged messages of nodes that died
  rows,       \* rows[r]: how many rows of landing_phone submission r made
  docs,       \* docs[r]: how many request-log documents r made
  failures,   \* the tasks whose result in the result backend is FAILURE
  crashes     \* how many nodes and children have died so far

vars == <<queue, up, reserved, job, orphans, rows, docs, failures, crashes>>

(* A child is idle, runs a task, or has made its write and not returned.   *)
Idle   == [phase |-> "idle"]
Active == [phase : {"running", "written"}, message : Messages, acked : BOOLEAN]

TypeOK ==
  /\ queue \in Seq(Messages)
  /\ up \in [Nodes -> BOOLEAN]
  /\ reserved \in [Nodes -> Seq(Messages)]
  /\ job \in [Children -> {Idle} \cup Active]
  /\ IsABag(orphans) /\ BagToSet(orphans) \subseteq Messages
  /\ rows \in [Requests -> Nat]
  /\ docs \in [Requests -> Nat]
  /\ failures \subseteq Messages
  /\ crashes \in 0..MaxCrashes

Init ==
  /\ queue = Backlog
  /\ up = [n \in Nodes |-> TRUE]
  /\ reserved = [n \in Nodes |-> <<>>]
  /\ job = [c \in Children |-> Idle]
  /\ orphans = EmptyBag
  /\ rows = [r \in Requests |-> 0]
  /\ docs = [r \in Requests |-> 0]
  /\ failures = {}
  /\ crashes = 0

-----------------------------------------------------------------------------
Busy(c) == job[c].phase # "idle"

Runs(c, task) == job[c].phase = "running" /\ job[c].message.task = task

(* The children of n whose message Redis still lists as unacknowledged.    *)
UnackedOf(n) == {c \in Children : NodeOf(c) = n /\ Busy(c) /\ ~job[c].acked}

Copies(seq, m) == Cardinality({i \in DOMAIN seq : seq[i] = m})

(* Mutant of UnackedMessages: messages are acknowledged when prefetched.   *)
UnackedOnlyBegun(n) ==
  [m \in {job[c].message : c \in UnackedOf(n)} |->
     Cardinality({c \in UnackedOf(n) : job[c].message = m})]

(* Everything Redis lists as unacknowledged for n: prefetched or begun.    *)
UnackedMessages(n) ==
  LET begun == {job[c].message : c \in UnackedOf(n)}
      held  == {reserved[n][i] : i \in DOMAIN reserved[n]}
  IN  [m \in begun \cup held |->
         Copies(reserved[n], m) + Cardinality({c \in UnackedOf(n) : job[c].message = m})]

-----------------------------------------------------------------------------
(* A node and its children at work.                                        *)

(* The node takes the next message while its prefetch count allows.        *)
Deliver(n) ==
  /\ up[n]
  /\ queue # <<>>
  /\ Len(reserved[n]) + Cardinality(UnackedOf(n)) < Prefetch
  /\ queue' = Tail(queue)
  /\ reserved' = [reserved EXCEPT ![n] = Append(@, Head(queue))]
  /\ UNCHANGED <<up, job, orphans, rows, failures, docs, crashes>>

(* A free child begins the oldest task its node holds.                     *)
Start(c) ==
  LET n == NodeOf(c) IN
  /\ ~Busy(c)
  /\ reserved[n] # <<>>
  /\ job' = [job EXCEPT ![c] =
       [phase |-> "running", message |-> Head(reserved[n]), acked |-> FALSE]]
  /\ reserved' = [reserved EXCEPT ![n] = Tail(@)]
  /\ UNCHANGED <<queue, up, orphans, rows, failures, docs, crashes>>

(* The node learns that the child has begun and acknowledges the message:  *)
(* without acks_late it does not wait for the outcome of the task.         *)
Ack(c) ==
  /\ Busy(c)
  /\ ~job[c].acked
  /\ job' = [job EXCEPT ![c].acked = TRUE]
  /\ UNCHANGED <<queue, up, reserved, orphans, rows, failures, docs, crashes>>

(* Phone.objects.create(phone=phone): always one more row.                 *)
Save(c) ==
  /\ Runs(c, "save")
  /\ rows' = [rows EXCEPT ![job[c].message.id] = @ + 1]
  /\ job' = [job EXCEPT ![c].phase = "written"]
  /\ UNCHANGED <<queue, up, reserved, orphans, docs, failures, crashes>>

(* _mongo_collection().insert_one(meta).                                   *)
Log(c) ==
  /\ Runs(c, "log")
  /\ docs' = [docs EXCEPT ![job[c].message.id] = @ + 1]
  /\ job' = [job EXCEPT ![c].phase = "written"]
  /\ UNCHANGED <<queue, up, reserved, orphans, rows, failures, crashes>>

(* Mutant of Finish: the child keeps the message it has worked off.        *)
FinishKeepsMessage(c) ==
  /\ job[c].phase = "written"
  /\ job[c].acked
  /\ job' = [job EXCEPT ![c].phase = "idle"]
  /\ UNCHANGED <<queue, up, reserved, orphans, rows, failures, docs, crashes>>

(* The task returns.  The node hears "begun" before "returned" from the    *)
(* child, so the message is acknowledged by now.                           *)
Finish(c) ==
  /\ job[c].phase = "written"
  /\ job[c].acked
  /\ job' = [job EXCEPT ![c] = Idle]
  /\ UNCHANGED <<queue, up, reserved, orphans, rows, failures, docs, crashes>>

(* Mutants of Fail: a failed task is retried for ever, or only save tasks  *)
(* have a time limit.                                                      *)
FailRetries(c) ==
  /\ \E task \in Failing : Runs(c, task)
  /\ job[c].acked
  /\ job' = [job EXCEPT ![c] = Idle]
  /\ queue' = Append(queue, job[c].message)
  /\ UNCHANGED <<up, reserved, orphans, rows, failures, docs, crashes>>

FailSaveOnly(c) ==
  /\ "save" \in Failing /\ Runs(c, "save")
  /\ job[c].acked
  /\ job' = [job EXCEPT ![c] = Idle]
  /\ failures' = failures \cup {job[c].message}
  /\ UNCHANGED <<queue, up, reserved, orphans, rows, docs, crashes>>

(* The database raises, or hangs until a time limit ends the task.  The    *)
(* tasks set no retry, so this is the end of the message.                  *)
Fail(c) ==
  /\ \E task \in Failing : Runs(c, task)
  /\ job[c].acked
  /\ job' = [job EXCEPT ![c] = Idle]
  /\ failures' = failures \cup {job[c].message}
  /\ UNCHANGED <<queue, up, reserved, orphans, rows, docs, crashes>>

Work(c) == Start(c) \/ Ack(c) \/ Save(c) \/ Log(c) \/ Finish(c) \/ Fail(c)

-----------------------------------------------------------------------------
(* Deaths.  docker-compose.yml sets no restart policy, but an operator may *)
(* start a node again.                                                     *)

(* The container is killed with everything in it.                          *)
NodeCrash(n) ==
  /\ up[n]
  /\ crashes < MaxCrashes
  /\ crashes' = crashes + 1
  /\ up' = [up EXCEPT ![n] = FALSE]
  /\ orphans' = orphans (+) UnackedMessages(n)
  /\ reserved' = [reserved EXCEPT ![n] = <<>>]
  /\ job' = [c \in Children |-> IF NodeOf(c) = n THEN Idle ELSE job[c]]
  /\ UNCHANGED <<queue, rows, failures, docs>>

NodeStart(n) ==
  /\ ~up[n]
  /\ up' = [up EXCEPT ![n] = TRUE]
  /\ UNCHANGED <<queue, reserved, job, orphans, rows, failures, docs, crashes>>

(* A child is killed (out of memory); its node starts another in its place *)
(* and gives the task, acknowledged by then, up as lost.                   *)
ChildKilled(c) ==
  /\ Busy(c)
  /\ job[c].acked
  /\ crashes < MaxCrashes
  /\ crashes' = crashes + 1
  /\ job' = [job EXCEPT ![c] = Idle]
  /\ UNCHANGED <<queue, up, reserved, orphans, rows, failures, docs>>

(* Mutant of Redeliver: the restored message stays listed.                 *)
RedeliverKeeps ==
  /\ \E n \in Nodes : up[n]
  /\ \E m \in BagToSet(orphans) : queue' = <<m>> \o queue
  /\ UNCHANGED <<up, reserved, job, orphans, rows, failures, docs, crashes>>

(* After the visibility timeout a live node puts an orphan back where the  *)
(* next message is taken from.                                             *)
Redeliver ==
  /\ \E n \in Nodes : up[n]
  /\ \E m \in BagToSet(orphans) :
       /\ queue' = <<m>> \o queue
       /\ orphans' = orphans (-) SetToBag({m})
  /\ UNCHANGED <<up, reserved, job, rows, failures, docs, crashes>>

CeleryNext ==
  \/ \E n \in Nodes : Deliver(n) \/ NodeCrash(n) \/ NodeStart(n)
  \/ \E c \in Children : Work(c) \/ ChildKilled(c)
  \/ Redeliver

(* Nodes that run poll the queue and restore orphans, children take work,  *)
(* and the time limits end a task whose database hangs.  Nothing is asked  *)
(* of a database in Failing, nor of an operator: NodeStart is not fair.    *)
CeleryFairness ==
  /\ WF_vars(Redeliver)
  /\ \A n \in Nodes : WF_vars(Deliver(n))
  /\ \A c \in Children :
       /\ WF_vars(Start(c)) /\ WF_vars(Ack(c)) /\ WF_vars(Finish(c)) /\ WF_vars(Fail(c))
       /\ "save" \notin Failing => WF_vars(Save(c))
       /\ "log" \notin Failing => WF_vars(Log(c))

Spec     == Init /\ [][CeleryNext]_vars
FairSpec == Spec /\ CeleryFairness

-----------------------------------------------------------------------------
(* Where a message can still be that has not made its write.               *)
Executing(m) == {c \in Children : job[c].phase = "running" /\ job[c].message = m}

HeldBy(n, m) == Copies(reserved[n], m)

Pending(m) ==
  \/ Copies(queue, m) > 0
  \/ \E n \in Nodes : HeldBy(n, m) > 0
  \/ BagIn(m, orphans)
  \/ Executing(m) # {}

Published == {Backlog[i] : i \in DOMAIN Backlog}

Written(m) == IF m.task = "save" THEN rows[m.id] ELSE docs[m.id]

Lost(m) == Written(m) = 0 /\ ~Pending(m) /\ m \notin failures

(* A task is lost only with the child that had begun it: the deaths so far *)
(* cost at most one task per child of the dead node, and never what a node *)
(* had merely prefetched (early acknowledgement, visibility timeout).      *)
DeathsCostOnlyBegunTasks ==
  Cardinality({m \in Published : Lost(m)}) <= crashes * Cardinality(Slots)

(* A task runs again only when a node died between its write and its       *)
(* acknowledgement, so each copy in the queue makes at most one more write *)
(* per death.                                                              *)
OneMoreWritePerDeath ==
  \A m \in Published : Written(m) <= Copies(Backlog, m) * (crashes + 1)

(* Whatever dies or hangs, as long as one node runs no task waits for      *)
(* ever: each one makes its write, fails or is lost with its child.        *)
EveryTaskEnds ==
  \A m \in Published : <>[](Pending(m) => \A n \in Nodes : ~up[n])

(* A save task is never lost: it is still on its way, has made its row, or *)
(* has failed ("Worker crash mid-task": "Task reprocessed").               *)
SaveNotLost == \A m \in Published : m.task = "save" => ~Lost(m)
=============================================================================
