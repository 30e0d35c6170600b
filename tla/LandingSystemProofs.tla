-------------------------- MODULE LandingSystemProofs --------------------------
(* The pipeline implements LossySpec whatever fails, for any number of     *)
(* processes, nodes, children, submissions and numbers.                    *)
EXTENDS LandingSystem, SequenceTheorems, TLAPS

-----------------------------------------------------------------------------
(* A message that may be on its way: a save task has an accepted number.   *)
Good  == {m \in Web!Messages : m.task = "save" => isNew[m.id]}
Begun == [phase : {"running", "written"}, message : Good, acked : BOOLEAN]

(* What cache.add has said, and to whom.                                   *)
WebInv ==
  /\ now \in Nat
  /\ store \in [{"redis"} -> [Phones -> Nat]]
  /\ pc \in [Requests -> {"unsent"} \cup Web!InHandler \cup Web!Outcomes]
  /\ phone \in [Requests -> Phones \cup {None}]
  /\ isNew \in [Requests -> BOOLEAN]
  /\ \A r \in Requests :
       /\ pc[r] \in Web!InHandler \/ isNew[r] => phone[r] \in Phones
       /\ pc[r] \in {"unsent", "dedup"} => ~isNew[r]
       /\ pc[r] = "save" => isNew[r]

(* Wherever a message is: in the queue, with a node, with a child, or left *)
(* behind by a node that died.                                             *)
PoolInv ==
  /\ queue \in Seq(Good)
  /\ reserved \in [Nodes -> Seq(Good)]
  /\ job \in [Pool!Children -> {Pool!Idle} \cup Begun]
  /\ DOMAIN orphans \subseteq Good
  /\ rows \in [Requests -> Nat]

SystemInv == WebInv /\ PoolInv

LEMMA SystemInit == Init => SystemInv
<1>. SUFFICES ASSUME Init PROVE SystemInv
  OBVIOUS
<1>1. WebInv
  BY DEF Init, Web!Init, Web!Caches, WebInv, Web!InHandler
<1>2. queue = <<>> /\ <<>> \in Seq(Good) /\ reserved = [n \in Nodes |-> <<>>]
  BY DEF Init, Pool!Init
<1>3. DOMAIN orphans = {}
  BY DEF Init, Pool!Init, Pool!EmptyBag, Pool!SetToBag
<1>4. job = [c \in Pool!Children |-> Pool!Idle] /\ rows = [r \in Requests |-> 0]
  BY DEF Init, Pool!Init
<1>. QED  BY <1>1, <1>2, <1>3, <1>4 DEF SystemInv, PoolInv

-----------------------------------------------------------------------------
(* Steps of the web processes.  What is accepted stays accepted, so what   *)
(* is on its way may stay there.                                           *)
LEMMA GoodStays ==
  ASSUME WebInv, \A r \in Requests : isNew[r] => isNew'[r]
  PROVE  Good \subseteq Good' /\ Begun \subseteq Begun'
<1>1. ASSUME NEW m \in Good
      PROVE  m \in Good'
  <2>1. m \in Web!Messages /\ m.id \in Requests /\ (m.task = "save" => isNew[m.id])
    BY DEF Good, Web!Messages
  <2>. QED  BY <2>1 DEF Good
<1>. QED  BY <1>1 DEF Begun

LEMMA PoolWaits ==
  ASSUME SystemInv, UNCHANGED poolOnly, \A r \in Requests : isNew[r] => isNew'[r],
         queue' \in Seq(Good')
  PROVE  PoolInv'
<1>1. Good \subseteq Good' /\ Begun \subseteq Begun'
  BY GoodStays DEF SystemInv
<1>2. reserved' = reserved /\ job' = job /\ orphans' = orphans /\ rows' = rows
  BY DEF poolOnly
<1>3. \A n \in Nodes : reserved[n] \in Seq(Good')
  BY <1>1, SeqMonotonic DEF SystemInv, PoolInv
<1>. QED  BY <1>1, <1>2, <1>3 DEF SystemInv, PoolInv, Pool!Children

LEMMA Published ==
  ASSUME WebInv, NEW r \in Requests, phone[r] \in Phones, NEW q \in Seq(Good)
  PROVE  /\ Append(q, Web!LogMessage(r)) \in Seq(Good)
         /\ isNew[r] => Append(q, Web!SaveMessage(r)) \in Seq(Good)
<1>1. Web!LogMessage(r) \in Good
  BY DEF Good, Web!LogMessage, Web!Messages, WebInv
<1>2. isNew[r] => Web!SaveMessage(r) \in Good
  BY DEF Good, Web!SaveMessage, Web!Messages
<1>. QED  BY <1>1, <1>2, AppendProperties

LEMMA WebPublishes ==
  ASSUME SystemInv, NEW r \in Requests,
         Web!PublishLog(r) \/ Web!PublishSave(r) \/ Web!PublishFails(r) \/ Web!PublishTwice(r)
  PROVE  UNCHANGED <<now, store, phone, isNew>> /\ WebInv' /\ queue' \in Seq(Good')
<1>1. UNCHANGED <<now, store, phone, isNew>>
  BY DEF Web!PublishLog, Web!PublishSave, Web!PublishFails, Web!PublishTwice
<1>2. phone[r] \in Phones /\ (pc[r] = "save" => isNew[r])
  BY DEF SystemInv, WebInv, Web!InHandler, Web!PublishLog, Web!PublishSave, Web!PublishFails,
         Web!PublishTwice
<1>3. /\ pc' \in [Requests -> {"unsent"} \cup Web!InHandler \cup Web!Outcomes]
      /\ \A s \in Requests : s # r => pc'[s] = pc[s]
      /\ pc'[r] \notin {"unsent", "dedup"} /\ (pc'[r] = "save" => isNew[r])
  BY DEF SystemInv, WebInv, Web!InHandler, Web!Outcomes, Web!Replies, Web!PublishLog,
         Web!PublishSave, Web!PublishFails, Web!PublishTwice, Web!AfterLog, Web!Reply
<1>4. WebInv'
  BY <1>1, <1>2, <1>3 DEF SystemInv, WebInv
<1>5. Good' = Good
  BY <1>1 DEF Good
<1>6. /\ queue \in Seq(Good)
      /\ Append(queue, Web!LogMessage(r)) \in Seq(Good)
      /\ Append(Append(queue, Web!LogMessage(r)), Web!LogMessage(r)) \in Seq(Good)
  BY <1>2, Published DEF SystemInv, PoolInv
<1>7. pc[r] = "save" =>
        /\ Append(queue, Web!SaveMessage(r)) \in Seq(Good)
        /\ Append(Append(queue, Web!SaveMessage(r)), Web!SaveMessage(r)) \in Seq(Good)
  BY <1>2, <1>6, Published DEF SystemInv
<1>8. queue' \in Seq(Good)
  BY <1>6, <1>7 DEF Web!PublishLog, Web!PublishSave, Web!PublishFails, Web!PublishTwice
<1>. QED  BY <1>1, <1>4, <1>5, <1>8

(* cache.add and its failures: what the key becomes.                       *)
LEMMA WebTakesKey ==
  ASSUME SystemInv, NEW r \in Requests, Web!CacheAdd(r) \/ Web!CacheAddFails(r)
  PROVE  /\ phone[r] \in Phones /\ UNCHANGED <<now, phone, queue>>
         /\ \/ UNCHANGED store
            \/ /\ store["redis"][phone[r]] <= now
               /\ store'["redis"] = [store["redis"] EXCEPT ![phone[r]] = now + Window]
         /\ WebInv' /\ \A s \in Requests : isNew[s] => isNew'[s]
<1>1. phone[r] \in Phones /\ ~isNew[r] /\ UNCHANGED <<now, phone, queue>>
  BY DEF SystemInv, WebInv, Web!InHandler, Web!CacheAdd, Web!CacheAddFails
<1>2. \/ UNCHANGED store
      \/ /\ store["redis"][phone[r]] <= now
         /\ store' = [store EXCEPT !["redis"][phone[r]] = now + Window]
  BY DEF Web!CacheAdd, Web!CacheAddFails, Web!CacheOf, Web!KeyAbsent
<1>3. /\ store' \in [{"redis"} -> [Phones -> Nat]]
      /\ \/ UNCHANGED store
         \/ /\ store["redis"][phone[r]] <= now
            /\ store'["redis"] = [store["redis"] EXCEPT ![phone[r]] = now + Window]
  BY <1>1, <1>2, SystemAssumption DEF SystemInv, WebInv
<1>4. /\ isNew' \in [Requests -> BOOLEAN]
      /\ \A s \in Requests \ {r} : isNew'[s] = isNew[s]
  <2>1. CASE Web!CacheAdd(r)
    <3>1. Web!KeyAbsent(Web!CacheOf(worker[r]), phone[r]) \in BOOLEAN
      BY DEF Web!KeyAbsent
    <3>2. isNew' = [isNew EXCEPT ![r] = Web!KeyAbsent(Web!CacheOf(worker[r]), phone[r])]
      BY <2>1 DEF Web!CacheAdd
    <3>3. isNew \in [Requests -> BOOLEAN]
      BY DEF SystemInv, WebInv
    <3>. QED  BY <3>1, <3>2, <3>3, Zenon
  <2>2. CASE Web!CacheAddFails(r)
    BY <2>2 DEF Web!CacheAddFails, SystemInv, WebInv
  <2>. QED  BY <2>1, <2>2
<1>5. /\ pc'[r] \in {"log", "error"}
      /\ pc' \in [Requests -> {"unsent"} \cup Web!InHandler \cup Web!Outcomes]
      /\ \A s \in Requests \ {r} : pc'[s] = pc[s]
  BY DEF SystemInv, WebInv, Web!CacheAdd, Web!CacheAddFails, Web!Reply,
         Web!InHandler, Web!Outcomes, Web!Replies
<1>6. WebInv'
  BY <1>1, <1>3, <1>4, <1>5 DEF SystemInv, WebInv
<1>. QED  BY <1>1, <1>3, <1>4, <1>6

(* The others touch neither keys, nor the queue, nor what was accepted.    *)
LEMMA WebOthers ==
  ASSUME SystemInv,
         \/ \E r \in Requests : Web!Arrive(r) \/ Web!Return(r)
         \/ \E w \in Workers : Web!WorkerKilled(w)
  PROVE  /\ UNCHANGED <<now, store, isNew, queue>> /\ WebInv'
         /\ \A r \in Requests : isNew[r] => phone'[r] = phone[r]
<1>1. ASSUME NEW r \in Requests, Web!Arrive(r)
      PROVE  /\ UNCHANGED <<now, store, isNew, queue>> /\ WebInv'
             /\ \A s \in Requests : isNew[s] => phone'[s] = phone[s]
  <2>1. UNCHANGED <<now, store, isNew, queue>> /\ pc[r] = "unsent"
    BY <1>1 DEF Web!Arrive, Web!Receive, Web!Reject
  <2>2. /\ pc' \in [Requests -> {"unsent"} \cup Web!InHandler \cup Web!Outcomes]
        /\ phone' \in [Requests -> Phones \cup {None}]
        /\ pc'[r] = "error" \/ (pc'[r] = "dedup" /\ phone'[r] \in Phones)
        /\ \A s \in Requests \ {r} : pc'[s] = pc[s] /\ phone'[s] = phone[s]
    BY <1>1 DEF Web!Arrive, Web!Receive, Web!Reject, SystemInv, WebInv,
                Web!InHandler, Web!Outcomes, Web!Replies
  <2>3. WebInv'
    BY <2>1, <2>2 DEF SystemInv, WebInv, Web!InHandler
  <2>. QED  BY <2>1, <2>2, <2>3 DEF SystemInv, WebInv
<1>2. ASSUME NEW r \in Requests, Web!Return(r)
      PROVE  UNCHANGED <<now, store, isNew, queue, phone>> /\ WebInv'
  <2>1. UNCHANGED <<now, store, isNew, queue, phone>>
    BY <1>2 DEF Web!Return
  <2>2. /\ pc' \in [Requests -> {"unsent"} \cup Web!InHandler \cup Web!Outcomes]
        /\ pc'[r] \in {"queued", "duplicate"}
        /\ \A s \in Requests \ {r} : pc'[s] = pc[s]
    BY <1>2 DEF Web!Return, Web!Reply, SystemInv, WebInv, Web!InHandler, Web!Outcomes, Web!Replies
  <2>3. WebInv'
    BY <2>1, <2>2 DEF SystemInv, WebInv, Web!InHandler
  <2>. QED  BY <2>1, <2>3
<1>3. ASSUME NEW w \in Workers, Web!WorkerKilled(w)
      PROVE  UNCHANGED <<now, store, isNew, queue, phone>> /\ WebInv'
  <2>1. UNCHANGED <<now, store, isNew, queue, phone>>
    BY <1>3 DEF Web!WorkerKilled
  <2>2. /\ pc' \in [Requests -> {"unsent"} \cup Web!InHandler \cup Web!Outcomes]
        /\ \A s \in Requests : pc'[s] = pc[s] \/ pc'[s] = "dropped"
    BY <1>3 DEF Web!WorkerKilled, SystemInv, WebInv, Web!Outcomes
  <2>3. WebInv'
    BY <2>1, <2>2 DEF SystemInv, WebInv, Web!InHandler
  <2>. QED  BY <2>1, <2>3
<1>. QED  BY <1>1, <1>2, <1>3
-----------------------------------------------------------------------------
(* Steps of the pools.  A message only moves: queue, node, child, orphan,  *)
(* queue.  A row is made for a save task, so for an accepted submission.   *)
NewRow == \E id \in Requests : isNew[id] /\ rows' = [rows EXCEPT ![id] = @ + 1]

LEMMA Taken ==
  ASSUME PoolInv, NEW n \in Nodes, Pool!Deliver(n)
  PROVE  UNCHANGED <<job, orphans, rows>> /\ queue' \in Seq(Good)
         /\ reserved' \in [Nodes -> Seq(Good)]
<1>1. queue \in Seq(Good) /\ queue # <<>> /\ reserved[n] \in Seq(Good)
  BY DEF PoolInv, Pool!Deliver
<1>2. Head(queue) \in Good /\ Tail(queue) \in Seq(Good)
  BY <1>1, HeadTailProperties
<1>3. Append(reserved[n], Head(queue)) \in Seq(Good)
  BY <1>1, <1>2, AppendProperties
<1>. QED  BY <1>2, <1>3 DEF PoolInv, Pool!Deliver

LEMMA Worked ==
  ASSUME PoolInv, NEW c \in Pool!Children, Pool!Work(c) \/ Pool!ChildKilled(c)
  PROVE  /\ UNCHANGED <<queue, orphans>>
         /\ reserved' \in [Nodes -> Seq(Good)]
         /\ job' \in [Pool!Children -> {Pool!Idle} \cup Begun]
         /\ rows' \in [Requests -> Nat]
         /\ UNCHANGED rows \/ NewRow
<1>1. job[c] \in {Pool!Idle} \cup Begun /\ Pool!Idle.phase = "idle"
  BY DEF PoolInv, Pool!Idle
<1>2. CASE Pool!Start(c)
  <2>1. Pool!NodeOf(c) \in Nodes
    BY DEF Pool!Children, Pool!NodeOf
  <2>2. reserved[Pool!NodeOf(c)] \in Seq(Good) /\ reserved[Pool!NodeOf(c)] # <<>>
    BY <1>2, <2>1 DEF PoolInv, Pool!Start
  <2>3. Head(reserved[Pool!NodeOf(c)]) \in Good /\ Tail(reserved[Pool!NodeOf(c)]) \in Seq(Good)
    BY <2>2, HeadTailProperties
  <2>4. [phase |-> "running", message |-> Head(reserved[Pool!NodeOf(c)]), acked |-> FALSE] \in Begun
    BY <2>3 DEF Begun
  <2>. QED  BY <1>2, <2>3, <2>4 DEF PoolInv, Pool!Start
<1>3. CASE Pool!Ack(c)
  <2>1. job[c] \in Begun
    BY <1>1, <1>3 DEF Pool!Ack, Pool!Busy
  <2>2. [job[c] EXCEPT !.acked = TRUE] \in Begun
    BY <2>1, Zenon DEF Begun
  <2>3. job' = [job EXCEPT ![c] = [job[c] EXCEPT !.acked = TRUE]]
    BY <1>3 DEF Pool!Ack
  <2>. QED  BY <1>3, <2>2, <2>3 DEF PoolInv, Pool!Ack
<1>4. CASE Pool!Save(c) \/ Pool!Log(c)
  <2>1. job[c] \in Begun
    BY <1>1, <1>4 DEF Pool!Save, Pool!Log, Pool!Runs
  <2>2. [job[c] EXCEPT !.phase = "written"] \in Begun
    BY <2>1 DEF Begun
  <2>3. job' = [job EXCEPT ![c] = [job[c] EXCEPT !.phase = "written"]]
    BY <1>4 DEF Pool!Save, Pool!Log
  <2>4. job[c].message \in Good /\ job[c].message.id \in Requests
    BY <2>1 DEF Begun, Good, Web!Messages
  <2>5. CASE Pool!Save(c)
    <3>1. isNew[job[c].message.id]
      BY <2>4, <2>5 DEF Pool!Save, Pool!Runs, Good
    <3>2. rows' = [rows EXCEPT ![job[c].message.id] = @ + 1]
      BY <2>5 DEF Pool!Save
    <3>3. NewRow
      BY <2>4, <3>1, <3>2, Zenon DEF NewRow
    <3>4. rows' \in [Requests -> Nat] /\ reserved' \in [Nodes -> Seq(Good)]
      BY <2>4, <2>5, <3>2 DEF PoolInv, Pool!Save
    <3>5. job' \in [Pool!Children -> {Pool!Idle} \cup Begun] /\ UNCHANGED <<queue, orphans>>
      BY <2>2, <2>3, <2>5 DEF PoolInv, Pool!Save
    <3>. QED  BY <3>3, <3>4, <3>5
  <2>. QED  BY <1>4, <2>2, <2>3, <2>5 DEF PoolInv, Pool!Log
<1>5. CASE Pool!Finish(c) \/ Pool!Fail(c) \/ Pool!ChildKilled(c)
  BY <1>5 DEF PoolInv, Pool!Finish, Pool!Fail, Pool!ChildKilled
<1>. QED  BY <1>2, <1>3, <1>4, <1>5 DEF Pool!Work

LEMMA Crashed ==
  ASSUME PoolInv, NEW n \in Nodes, Pool!NodeCrash(n) \/ Pool!NodeStart(n)
  PROVE  /\ UNCHANGED <<queue, rows>>
         /\ reserved' \in [Nodes -> Seq(Good)]
         /\ job' \in [Pool!Children -> {Pool!Idle} \cup Begun]
         /\ DOMAIN orphans' \subseteq Good
<1>1. CASE Pool!NodeStart(n)
  BY <1>1 DEF PoolInv, Pool!NodeStart
<1>2. CASE Pool!NodeCrash(n)
  <2>1. ASSUME NEW c \in Pool!UnackedOf(n)
        PROVE  job[c].message \in Good
    BY <2>1 DEF PoolInv, Begun, Pool!UnackedOf, Pool!Busy, Pool!Idle
  <2>2. ASSUME NEW i \in DOMAIN reserved[n]
        PROVE  reserved[n][i] \in Good
    BY <2>2 DEF PoolInv
  <2>3. DOMAIN Pool!UnackedMessages(n) \subseteq Good
    BY <2>1, <2>2 DEF Pool!UnackedMessages
  <2>4. DOMAIN orphans' \subseteq DOMAIN orphans \cup DOMAIN Pool!UnackedMessages(n)
    BY <1>2 DEF Pool!NodeCrash, Pool!(+)
  <2>5. job' \in [Pool!Children -> {Pool!Idle} \cup Begun]
    BY <1>2 DEF PoolInv, Pool!NodeCrash
  <2>6. reserved' \in [Nodes -> Seq(Good)]
    <3>1. <<>> \in Seq(Good)
      OBVIOUS
    <3>. QED  BY <1>2, <3>1 DEF PoolInv, Pool!NodeCrash
  <2>. QED  BY <1>2, <2>3, <2>4, <2>5, <2>6 DEF PoolInv, Pool!NodeCrash
<1>. QED  BY <1>1, <1>2

LEMMA Returned ==
  ASSUME PoolInv, Pool!Redeliver
  PROVE  UNCHANGED <<reserved, job, rows>> /\ queue' \in Seq(Good) /\ DOMAIN orphans' \subseteq Good
<1>1. PICK m \in Pool!BagToSet(orphans) :
        queue' = <<m>> \o queue /\ orphans' = Pool!(-)(orphans, Pool!SetToBag({m}))
  BY DEF Pool!Redeliver
<1>2. m \in Good
  BY <1>1 DEF PoolInv, Pool!BagToSet
<1>3. queue' \in Seq(Good)
  <2>1. <<m>> \in Seq(Good) /\ queue \in Seq(Good)
    BY <1>2 DEF PoolInv
  <2>. QED  BY <1>1, <2>1, ConcatProperties
<1>4. DOMAIN orphans' \subseteq DOMAIN orphans
  BY <1>1 DEF Pool!(-)
<1>. QED  BY <1>3, <1>4 DEF PoolInv, Pool!Redeliver

LEMMA PoolSteps ==
  ASSUME SystemInv, Pool!CeleryNext, UNCHANGED webOnly
  PROVE  SystemInv' /\ (UNCHANGED rows \/ NewRow)
<1>1. WebInv' /\ Good' = Good /\ Begun' = Begun
  BY DEF SystemInv, WebInv, webOnly, Good, Begun
<1>2. PoolInv
  BY DEF SystemInv
<1>3. ASSUME NEW n \in Nodes, Pool!Deliver(n)
      PROVE  PoolInv' /\ UNCHANGED rows
  BY <1>1, <1>2, <1>3, Taken DEF PoolInv, Pool!Children
<1>4. ASSUME NEW n \in Nodes, Pool!NodeCrash(n) \/ Pool!NodeStart(n)
      PROVE  PoolInv' /\ UNCHANGED rows
  BY <1>1, <1>2, <1>4, Crashed DEF PoolInv, Pool!Children
<1>5. ASSUME NEW c \in Pool!Children, Pool!Work(c) \/ Pool!ChildKilled(c)
      PROVE  PoolInv' /\ (UNCHANGED rows \/ NewRow)
  BY <1>1, <1>2, <1>5, Worked DEF PoolInv, Pool!Children
<1>6. ASSUME Pool!Redeliver
      PROVE  PoolInv' /\ UNCHANGED rows
  BY <1>1, <1>2, <1>6, Returned DEF PoolInv, Pool!Children
<1>. QED  BY <1>1, <1>3, <1>4, <1>5, <1>6 DEF SystemInv, Pool!CeleryNext

-----------------------------------------------------------------------------
(* Steps of the web processes as LeadCapture sees them: cache.add accepts  *)
(* a number, the clock moves, the rest is invisible.                       *)
accepted == [r \in Requests |-> IF isNew[r] THEN phone[r] ELSE None]

LEMMA KeyStep ==
  ASSUME SystemInv, UNCHANGED poolOnly, NEW r \in Requests,
         Web!CacheAdd(r) \/ Web!CacheAddFails(r)
  PROVE  /\ SystemInv'
         /\ Web!CacheAdd(r) => Lead!Accepting \/ UNCHANGED Lead!lead
         /\ Web!CacheAddFails(r) => Lead!Waste(phone[r]) \/ UNCHANGED Lead!lead
         /\ phone[r] \in Phones
<1>1. rows' = rows
  BY DEF poolOnly
<1>2. /\ phone[r] \in Phones /\ UNCHANGED <<now, phone, queue>>
      /\ \/ UNCHANGED store
         \/ /\ store["redis"][phone[r]] <= now
            /\ store'["redis"] = [store["redis"] EXCEPT ![phone[r]] = now + Window]
      /\ WebInv' /\ \A s \in Requests : isNew[s] => isNew'[s]
  BY WebTakesKey
<1>3. ~isNew[r] /\ isNew \in [Requests -> BOOLEAN] /\ phone[r] # None
  BY <1>2, SystemAssumption DEF SystemInv, WebInv, Web!CacheAdd, Web!CacheAddFails
<1>4. SystemInv'
  <2>1. Good \subseteq Good'
    BY <1>2, GoodStays DEF SystemInv
  <2>2. queue' \in Seq(Good')
    BY <1>2, <2>1, SeqMonotonic DEF SystemInv, PoolInv
  <2>. QED  BY <1>2, <2>2, PoolWaits DEF SystemInv
<1>5. ASSUME Web!CacheAddFails(r)
      PROVE  Lead!Waste(phone[r]) \/ UNCHANGED Lead!lead
  <2>1. isNew' = isNew
    BY <1>5 DEF Web!CacheAddFails
  <2>. QED  BY <1>1, <1>2, <2>1 DEF Lead!lead, Lead!Waste
<1>6. ASSUME Web!CacheAdd(r)
      PROVE  Lead!Accepting \/ UNCHANGED Lead!lead
  <2>1. /\ isNew' = [isNew EXCEPT ![r] = Web!KeyAbsent("redis", phone[r])]
        /\ store' = IF Web!KeyAbsent("redis", phone[r])
                    THEN [store EXCEPT !["redis"][phone[r]] = now + Window] ELSE store
    BY <1>6 DEF Web!CacheAdd, Web!CacheOf
  <2>2. CASE Web!KeyAbsent("redis", phone[r])
    <3>1. isNew' = [isNew EXCEPT ![r] = TRUE]
      BY <2>1, <2>2
    <3>2. /\ store["redis"][phone[r]] <= now
          /\ store'["redis"] = [store["redis"] EXCEPT ![phone[r]] = now + Window]
      BY <1>2, <2>1, <2>2 DEF Web!KeyAbsent, SystemInv, WebInv
    <3>3. accepted[r] = None /\ accepted' = [accepted EXCEPT ![r] = phone[r]]
      BY <1>2, <1>3, <3>1 DEF accepted
    <3>4. Lead!Accept(r, phone[r])
      BY <1>1, <1>2, <3>2, <3>3 DEF Lead!Accept, accepted
    <3>. QED  BY <1>2, <3>4 DEF Lead!Accepting, Lead!Accept
  <2>3. CASE ~Web!KeyAbsent("redis", phone[r])
    <3>1. Web!KeyAbsent("redis", phone[r]) = FALSE
      BY <2>3 DEF Web!KeyAbsent
    <3>2. isNew' = [isNew EXCEPT ![r] = FALSE] /\ isNew[r] = FALSE
      BY <1>3, <2>1, <3>1
    <3>3. isNew' = isNew /\ store' = store
      BY <1>3, <2>1, <2>3, <3>2
    <3>. QED  BY <1>1, <1>2, <3>3 DEF Lead!lead
  <2>. QED  BY <2>2, <2>3
<1>. QED  BY <1>2, <1>4, <1>5, <1>6

LEMMA QuietStep ==
  ASSUME SystemInv, UNCHANGED poolOnly,
         \/ \E r \in Requests : \/ Web!PublishLog(r) \/ Web!PublishSave(r)
                               \/ Web!PublishFails(r) \/ Web!PublishTwice(r)
                               \/ Web!Arrive(r) \/ Web!Return(r)
         \/ \E w \in Workers : Web!WorkerKilled(w)
  PROVE  SystemInv' /\ UNCHANGED Lead!lead
<1>1. ASSUME UNCHANGED <<now, store, isNew>>, WebInv', queue' \in Seq(Good'),
             \A r \in Requests : isNew[r] => phone'[r] = phone[r]
      PROVE  SystemInv' /\ UNCHANGED Lead!lead
  <2>1. SystemInv'
    BY <1>1, PoolWaits DEF SystemInv
  <2>2. \A r \in Requests :
          (IF isNew'[r] THEN phone'[r] ELSE None) = (IF isNew[r] THEN phone[r] ELSE None)
    BY <1>1
  <2>. QED  BY <1>1, <2>1, <2>2 DEF Lead!lead, poolOnly
<1>2. ASSUME NEW r \in Requests,
             Web!PublishLog(r) \/ Web!PublishSave(r) \/ Web!PublishFails(r) \/ Web!PublishTwice(r)
      PROVE  SystemInv' /\ UNCHANGED Lead!lead
  BY <1>1, <1>2, WebPublishes
<1>3. ASSUME \/ \E r \in Requests : Web!Arrive(r) \/ Web!Return(r)
             \/ \E w \in Workers : Web!WorkerKilled(w)
      PROVE  SystemInv' /\ UNCHANGED Lead!lead
  <2>1. UNCHANGED <<now, store, isNew, queue>> /\ WebInv'
        /\ \A r \in Requests : isNew[r] => phone'[r] = phone[r]
    BY <1>3, WebOthers
  <2>2. Good' = Good
    BY <2>1 DEF Good
  <2>. QED  BY <1>1, <2>1, <2>2 DEF SystemInv, PoolInv
<1>. QED  BY <1>2, <1>3

LEMMA TickStep ==
  ASSUME SystemInv, UNCHANGED poolOnly, Web!Tick
  PROVE  SystemInv' /\ Lead!Tick
<1>1. now < MaxTime /\ now' = now + 1 /\ UNCHANGED <<store, isNew, phone, queue, pc>>
  BY DEF Web!Tick
<1>2. WebInv'
  BY <1>1 DEF SystemInv, WebInv
<1>3. Good' = Good
  BY <1>1 DEF Good
<1>4. SystemInv'
  BY <1>1, <1>2, <1>3, PoolWaits DEF SystemInv, PoolInv
<1>. QED  BY <1>1, <1>4 DEF Lead!Tick, poolOnly

(* Without faults the web processes keep the promise as it is.             *)
LEMMA WebSteps ==
  ASSUME SystemInv, Web!Next, UNCHANGED poolOnly
  PROVE  SystemInv' /\ [Lead!Tick \/ Lead!Accepting]_(Lead!lead)
BY KeyStep, QuietStep, TickStep DEF Web!Next, Web!Handle

LEMMA WebFaultSteps ==
  ASSUME SystemInv, Web!Faults, UNCHANGED poolOnly
  PROVE  SystemInv' /\ [Lead!LossyNext]_(Lead!lead)
BY KeyStep, QuietStep DEF Web!Faults, Lead!LossyNext

-----------------------------------------------------------------------------
(* The refinement of LossySpec.                                            *)
LEMMA SystemStep ==
  ASSUME SystemInv, [FaultyNext]_vars
  PROVE  SystemInv' /\ [Lead!LossyNext]_(Lead!lead)
<1>1. CASE WebStep \/ WebFault
  BY <1>1, WebSteps, WebFaultSteps DEF WebStep, WebFault, Lead!LossyNext
<1>2. CASE PoolStep
  <2>1. SystemInv' /\ (UNCHANGED rows \/ NewRow) /\ UNCHANGED webOnly
    BY <1>2, PoolSteps DEF PoolStep
  <2>2. UNCHANGED <<now, store, isNew, phone>>
    BY <2>1 DEF webOnly
  <2>3. CASE UNCHANGED rows
    BY <2>1, <2>2, <2>3 DEF Lead!lead
  <2>4. CASE NewRow
    <3>1. PICK id \in Requests : isNew[id] /\ rows' = [rows EXCEPT ![id] = @ + 1]
      BY <2>4 DEF NewRow
    <3>2. phone[id] # None
      BY <3>1, SystemAssumption DEF SystemInv, WebInv
    <3>3. Lead!StoreAgain(id)
      BY <2>2, <3>1, <3>2 DEF Lead!StoreAgain
    <3>. QED  BY <2>1, <3>3 DEF Lead!LossyNext
  <2>. QED  BY <2>1, <2>3, <2>4
<1>3. CASE UNCHANGED vars
  <2>1. SystemInv'
    BY <1>3 DEF SystemInv, WebInv, PoolInv, Good, Begun, vars, webOnly, poolOnly
  <2>2. UNCHANGED Lead!lead
    BY <1>3 DEF vars, webOnly, poolOnly, Lead!lead
  <2>. QED  BY <2>1, <2>2
<1>. QED  BY <1>1, <1>2, <1>3 DEF FaultyNext, Next

LEMMA LeadInit == Init => Lead!Init
  BY DEF Init, Web!Init, Web!Caches, Pool!Init, Lead!Init

(* Whatever fails between the processes, Redis and the workers, a stored   *)
(* number was accepted, and no number is accepted twice within a window    *)
(* (post(), save_phone_in_sql_task).                                       *)
THEOREM PipelineKeepsWindows == FaultySpec => KeepsWindows
<1>1. SystemInv /\ [FaultyNext]_vars => SystemInv' /\ [Lead!LossyNext]_(Lead!lead)
  BY SystemStep
<1>. QED  BY <1>1, SystemInit, LeadInit, PTL DEF FaultySpec, KeepsWindows, Lead!LossySpec
-----------------------------------------------------------------------------
(* Without faults and deaths the save task of a submission is in one place *)
(* at a time.  It moves from the process that has not published it yet to  *)
(* the queue, a node, a child, and ends as a row.                          *)
Saves(m, r)   == m.task = "save" /\ m.id = r
HasSave(s, r) == \E i \in DOMAIN s : Saves(s[i], r)
OneSave(s, r) == \A i, j \in DOMAIN s : Saves(s[i], r) /\ Saves(s[j], r) => i = j

Unpublished == {"unsent", "dedup", "log", "save"}

Holders(r) ==
  {h \in {<<"web", r>>}   : pc[r] \in Unpublished} \cup
  {h \in {<<"queue", r>>} : HasSave(queue, r)} \cup
  {h \in {"node"} \X Nodes : HasSave(reserved[h[2]], r)} \cup
  {h \in {"child"} \X Pool!Children :
     Pool!Runs(h[2], "save") /\ job[h[2]].message.id = r} \cup
  {h \in {<<"row", r>>}   : rows[r] # 0}

TokenInv ==
  /\ crashes = 0 /\ Pool!BagToSet(orphans) = {}
  /\ \A r \in Requests :
       /\ \A g, h \in Holders(r) : g = h
       /\ OneSave(queue, r)
       /\ \A n \in Nodes : OneSave(reserved[n], r)

(* A set of at most one element stays one when its element is replaced.    *)
LEMMA TokenMoves ==
  ASSUME NEW H, NEW J, NEW g, NEW h,
         \A x, y \in H : x = y,
         J \subseteq H \/ (g \in H /\ g \notin J /\ J \subseteq H \cup {h})
  PROVE  \A x, y \in J : x = y
OBVIOUS

LEMMA SavesAppended ==
  ASSUME NEW S, NEW s \in Seq(S), NEW m \in S, NEW r, OneSave(s, r),
         ~(HasSave(s, r) /\ Saves(m, r))
  PROVE  /\ OneSave(Append(s, m), r)
         /\ HasSave(Append(s, m), r) <=> HasSave(s, r) \/ Saves(m, r)
<1> DEFINE t == Append(s, m)
<1>1. /\ DOMAIN s = 1..Len(s) /\ DOMAIN t = 1..(Len(s) + 1) /\ Len(s) \in Nat
      /\ \A i \in DOMAIN s : t[i] = s[i]
      /\ t[Len(s) + 1] = m
  BY AppendProperties
<1>2. \A i \in DOMAIN t : i \in DOMAIN s \/ i = Len(s) + 1
  BY <1>1
<1>3. DOMAIN s \subseteq DOMAIN t /\ Len(s) + 1 \in DOMAIN t
  BY <1>1
<1> HIDE DEF t
<1>4. OneSave(t, r)
  BY <1>1, <1>2 DEF OneSave, HasSave
<1>5. HasSave(t, r) <=> HasSave(s, r) \/ Saves(m, r)
  BY <1>1, <1>2, <1>3 DEF HasSave
<1> QED
  BY <1>4, <1>5 DEF t

LEMMA SavesTaken ==
  ASSUME NEW S, NEW s \in Seq(S), s # <<>>, NEW r, OneSave(s, r)
  PROVE  /\ OneSave(Tail(s), r)
         /\ HasSave(Tail(s), r) => HasSave(s, r) /\ ~Saves(Head(s), r)
         /\ Saves(Head(s), r) => HasSave(s, r)
<1>1. /\ DOMAIN s = 1..Len(s) /\ Len(s) \in Nat \ {0}
      /\ DOMAIN Tail(s) = 1..(Len(s) - 1)
      /\ \A i \in DOMAIN Tail(s) : Tail(s)[i] = s[i + 1]
      /\ Head(s) = s[1]
  BY HeadTailProperties
<1>2. 1 \in DOMAIN s /\ \A i \in DOMAIN Tail(s) : i + 1 \in DOMAIN s /\ i + 1 # 1
  BY <1>1
<1>3. OneSave(Tail(s), r)
  <2> SUFFICES ASSUME NEW i \in DOMAIN Tail(s), NEW j \in DOMAIN Tail(s),
                      Saves(Tail(s)[i], r), Saves(Tail(s)[j], r)
               PROVE  i = j
    BY DEF OneSave
  <2>1. i + 1 = j + 1
    BY <1>1, <1>2 DEF OneSave
  <2> QED
    BY <1>1, <2>1
<1>4. ASSUME HasSave(Tail(s), r)
      PROVE  HasSave(s, r) /\ ~Saves(Head(s), r)
  <2>1. PICK i \in DOMAIN Tail(s) : Saves(Tail(s)[i], r)
    BY <1>4 DEF HasSave
  <2> QED
    BY <1>1, <1>2, <2>1 DEF HasSave, OneSave
<1> QED
  BY <1>1, <1>2, <1>3, <1>4 DEF HasSave

-----------------------------------------------------------------------------
(* The token through the steps of the web processes.                       *)
LEMMA TokenInit == Init => TokenInv
<1> SUFFICES ASSUME Init PROVE TokenInv
  OBVIOUS
<1>1. queue = <<>> /\ crashes = 0 /\ Pool!BagToSet(orphans) = {}
  BY DEF Init, Pool!Init, Pool!EmptyBag, Pool!SetToBag, Pool!BagToSet
<1>2. /\ \A n \in Nodes : reserved[n] = <<>>
      /\ \A c \in Pool!Children : ~Pool!Runs(c, "save")
      /\ \A r \in Requests : rows[r] = 0
  BY DEF Init, Pool!Init, Pool!Idle, Pool!Runs
<1>3. \A r \in Requests : ~HasSave(<<>>, r) /\ OneSave(<<>>, r)
  BY DEF HasSave, OneSave
<1>4. \A r \in Requests : Holders(r) \subseteq {<<"web", r>>}
  BY <1>1, <1>2, <1>3 DEF Holders
<1> QED
  BY <1>1, <1>2, <1>3, <1>4 DEF TokenInv

LEMMA WebMovesToken ==
  ASSUME SystemInv, TokenInv, Web!Next, UNCHANGED poolOnly
  PROVE  TokenInv'
<1>1. UNCHANGED <<reserved, job, orphans, rows, crashes>>
  BY DEF poolOnly
<1>2. pc \in [Requests -> {"unsent"} \cup Web!InHandler \cup Web!Outcomes] /\ queue \in Seq(Good)
  BY DEF SystemInv, WebInv, PoolInv
<1>3. ASSUME NEW r \in Requests, Web!PublishSave(r)
      PROVE  TokenInv'
  <2>1. phone[r] \in Phones /\ isNew[r] /\ pc[r] = "save" /\ pc'[r] = "return"
        /\ \A q \in Requests : q # r => pc'[q] = pc[q]
    BY <1>2, <1>3 DEF Web!PublishSave, Web!InHandler, SystemInv, WebInv
  <2>2. Web!SaveMessage(r) \in Good /\ \A q : Saves(Web!SaveMessage(r), q) <=> q = r
    BY <2>1 DEF Good, Web!SaveMessage, Web!Messages, Saves
  <2>3. queue' = Append(queue, Web!SaveMessage(r))
    BY <1>3 DEF Web!PublishSave
  <2>4. ASSUME NEW q \in Requests
        PROVE  /\ \A g, h \in Holders(q)' : g = h
               /\ OneSave(queue', q)
    <3>1. /\ \A g, h \in Holders(q) : g = h
          /\ OneSave(queue, q)
      BY DEF TokenInv
    <3>2. ~(HasSave(queue, q) /\ q = r)
      <4>1. q = r => <<"web", q>> \in Holders(q)
        BY <2>1 DEF Holders, Unpublished
      <4>2. HasSave(queue, q) => <<"queue", q>> \in Holders(q)
        BY DEF Holders
      <4> QED
        BY <3>1, <4>1, <4>2
    <3>3. OneSave(queue', q) /\ (HasSave(queue', q) <=> HasSave(queue, q) \/ q = r)
      BY <1>2, <2>2, <2>3, <3>1, <3>2, SavesAppended
    <3>4. CASE q = r
      <4>1. <<"web", q>> \in Holders(q) /\ <<"web", q>> \notin Holders(q)'
        BY <2>1, <3>4 DEF Holders, Unpublished
      <4>2. Holders(q)' \subseteq Holders(q) \cup {<<"queue", q>>}
        BY <1>1, <2>1, <3>4 DEF Holders, Unpublished, Pool!Runs, Pool!Children
      <4> QED
        BY <3>1, <3>3, <4>1, <4>2, TokenMoves
    <3>5. CASE q # r
      <4>1. Holders(q)' \subseteq Holders(q)
        BY <1>1, <2>1, <3>3, <3>5 DEF Holders, Pool!Runs, Pool!Children
      <4> QED
        BY <3>1, <3>3, <4>1
    <3> QED
      BY <3>4, <3>5
  <2> QED
    BY <1>1, <2>4 DEF TokenInv
<1>4. ASSUME \A q \in Requests : pc'[q] \in Unpublished => pc[q] \in Unpublished,
             \A q \in Requests : OneSave(queue', q) /\ (HasSave(queue', q) => HasSave(queue, q))
      PROVE  TokenInv'
  <2>1. ASSUME NEW q \in Requests
        PROVE  \A g, h \in Holders(q)' : g = h
    <3>1. Holders(q)' \subseteq Holders(q)
      BY <1>1, <1>4 DEF Holders, Pool!Runs, Pool!Children
    <3> QED
      BY <3>1 DEF TokenInv
  <2> QED
    BY <1>1, <1>4, <2>1 DEF TokenInv
<1>5. ASSUME NEW r \in Requests, Web!PublishLog(r)
      PROVE  TokenInv'
  <2>1. phone[r] \in Phones
    BY <1>5 DEF Web!PublishLog, Web!InHandler, SystemInv, WebInv
  <2>2. Web!LogMessage(r) \in Good /\ \A q : ~Saves(Web!LogMessage(r), q)
    BY <2>1 DEF Good, Web!LogMessage, Web!Messages, Saves, SystemInv, WebInv
  <2>3. \A q \in Requests : OneSave(queue', q) /\ (HasSave(queue', q) => HasSave(queue, q))
    BY <1>2, <1>5, <2>2, SavesAppended DEF Web!PublishLog, TokenInv
  <2>4. \A q \in Requests : pc'[q] \in Unpublished => pc[q] \in Unpublished
    BY <1>2, <1>5 DEF Web!PublishLog, Web!AfterLog, Unpublished
  <2> QED
    BY <1>4, <2>3, <2>4
<1>6. ASSUME NEW r \in Requests, Web!Arrive(r) \/ Web!CacheAdd(r) \/ Web!Return(r)
      PROVE  TokenInv'
  <2>1. queue' = queue
    BY <1>6 DEF Web!Arrive, Web!Receive, Web!Reject, Web!CacheAdd, Web!Return
  <2>2. \A q \in Requests : pc'[q] \in Unpublished => pc[q] \in Unpublished
    BY <1>2, <1>6 DEF Web!Arrive, Web!Receive, Web!Reject, Web!CacheAdd, Web!Return, Web!Reply,
                      Unpublished
  <2> QED
    BY <1>4, <2>1, <2>2 DEF TokenInv
<1>7. CASE Web!Tick
  BY <1>4, <1>7 DEF Web!Tick, TokenInv
<1> QED
  BY <1>3, <1>5, <1>6, <1>7 DEF Web!Next, Web!Handle

(* The token through the steps of the pools.                               *)
LEMMA DeliverMovesToken ==
  ASSUME SystemInv, TokenInv, NEW n \in Nodes, Pool!Deliver(n), UNCHANGED webOnly
  PROVE  TokenInv'
<1>1. UNCHANGED <<job, orphans, rows, crashes, pc>>
  BY DEF Pool!Deliver, webOnly
<1>2. /\ queue \in Seq(Good) /\ queue # <<>> /\ queue' = Tail(queue)
      /\ reserved \in [Nodes -> Seq(Good)]
      /\ reserved' = [reserved EXCEPT ![n] = Append(reserved[n], Head(queue))]
  BY DEF Pool!Deliver, SystemInv, PoolInv
<1>3. Head(queue) \in Good /\ reserved[n] \in Seq(Good)
      /\ reserved'[n] = Append(reserved[n], Head(queue))
      /\ \A k \in Nodes \ {n} : reserved'[k] = reserved[k]
  BY <1>2, HeadTailProperties
<1>4. ASSUME NEW r \in Requests
      PROVE  /\ \A g, h \in Holders(r)' : g = h
             /\ OneSave(queue', r)
             /\ \A k \in Nodes : OneSave(reserved'[k], r)
  <2>1. /\ \A g, h \in Holders(r) : g = h
        /\ OneSave(queue, r) /\ \A k \in Nodes : OneSave(reserved[k], r)
    BY DEF TokenInv
  <2>2. /\ OneSave(queue', r)
        /\ HasSave(queue', r) => HasSave(queue, r) /\ ~Saves(Head(queue), r)
        /\ Saves(Head(queue), r) => HasSave(queue, r)
    BY <1>2, <2>1, SavesTaken
  <2>3. ~(HasSave(reserved[n], r) /\ Saves(Head(queue), r))
    <3>1. HasSave(queue, r) => <<"queue", r>> \in Holders(r)
      BY DEF Holders
    <3>2. HasSave(reserved[n], r) => <<"node", n>> \in Holders(r)
      BY DEF Holders
    <3> QED
      BY <2>1, <2>2, <3>1, <3>2
  <2>4. /\ OneSave(reserved'[n], r)
        /\ HasSave(reserved'[n], r) <=> HasSave(reserved[n], r) \/ Saves(Head(queue), r)
    BY <1>3, <2>1, <2>3, SavesAppended
  <2>5. CASE Saves(Head(queue), r)
    <3>1. <<"queue", r>> \in Holders(r) /\ <<"queue", r>> \notin Holders(r)'
      BY <2>2, <2>5 DEF Holders
    <3>2. Holders(r)' \subseteq Holders(r) \cup {<<"node", n>>}
      BY <1>1, <1>3, <2>2, <2>4 DEF Holders, Pool!Runs, Pool!Children
    <3> QED
      BY <1>3, <2>1, <2>2, <2>4, <3>1, <3>2, TokenMoves
  <2>6. CASE ~Saves(Head(queue), r)
    <3>1. Holders(r)' \subseteq Holders(r)
      BY <1>1, <1>3, <2>2, <2>4, <2>6 DEF Holders, Pool!Runs, Pool!Children
    <3> QED
      BY <1>3, <2>1, <2>2, <2>4, <3>1
  <2> QED
    BY <2>5, <2>6
<1> QED
  BY <1>1, <1>4 DEF TokenInv
LEMMA StartMovesToken ==
  ASSUME SystemInv, TokenInv, NEW c \in Pool!Children, Pool!Start(c), UNCHANGED webOnly
  PROVE  TokenInv'
<1> DEFINE n == Pool!NodeOf(c)
           m == Head(reserved[n])
<1>1. UNCHANGED <<queue, orphans, rows, crashes, pc>>
  BY DEF Pool!Start, webOnly
<1>2. n \in Nodes
  BY DEF Pool!Children, Pool!NodeOf
<1>3. /\ reserved[n] \in Seq(Good) /\ reserved[n] # <<>>
      /\ reserved'[n] = Tail(reserved[n])
      /\ \A k \in Nodes \ {n} : reserved'[k] = reserved[k]
  BY <1>2 DEF Pool!Start, SystemInv, PoolInv
<1>4. /\ job'[c] = [phase |-> "running", message |-> m, acked |-> FALSE]
      /\ \A d \in Pool!Children \ {c} : job'[d] = job[d]
  BY DEF Pool!Start, SystemInv, PoolInv
<1> HIDE DEF n, m
<1>5. /\ Pool!Runs(c, "save")' <=> m.task = "save"
      /\ job'[c].message = m
      /\ \A d \in Pool!Children \ {c} : Pool!Runs(d, "save")' <=> Pool!Runs(d, "save")
  BY <1>4 DEF Pool!Runs
<1>6. ASSUME NEW r \in Requests
      PROVE  /\ \A g, h \in Holders(r)' : g = h
             /\ \A k \in Nodes : OneSave(reserved'[k], r)
  <2>1. /\ \A g, h \in Holders(r) : g = h
        /\ \A k \in Nodes : OneSave(reserved[k], r)
    BY DEF TokenInv
  <2>2. /\ OneSave(reserved'[n], r)
        /\ HasSave(reserved'[n], r) => HasSave(reserved[n], r) /\ ~Saves(m, r)
        /\ Saves(m, r) => HasSave(reserved[n], r)
    BY <1>2, <1>3, <2>1, SavesTaken DEF m
  <2>3. CASE Saves(m, r)
    <3>1. <<"node", n>> \in Holders(r) /\ <<"node", n>> \notin Holders(r)'
      BY <1>2, <2>2, <2>3 DEF Holders
    <3>2. Holders(r)' \subseteq Holders(r) \cup {<<"child", c>>}
      BY <1>1, <1>3, <1>4, <1>5, <2>2, <2>3 DEF Holders, Pool!Children
    <3> QED
      BY <1>3, <2>1, <2>2, <3>1, <3>2, TokenMoves
  <2>4. CASE ~Saves(m, r)
    <3>1. Holders(r)' \subseteq Holders(r)
      BY <1>1, <1>3, <1>4, <1>5, <2>2, <2>4 DEF Holders, Pool!Children, Saves
    <3> QED
      BY <1>3, <2>1, <2>2, <3>1
  <2> QED
    BY <2>3, <2>4
<1> QED
  BY <1>1, <1>6 DEF TokenInv

(* A child that does not write the row loses the token or keeps it.        *)
LEMMA ChildKeepsToken ==
  ASSUME SystemInv, TokenInv, NEW c \in Pool!Children,
         Pool!Ack(c) \/ Pool!Log(c) \/ Pool!Finish(c) \/ Pool!Fail(c), UNCHANGED webOnly
  PROVE  TokenInv' /\ UNCHANGED rows
<1>1. UNCHANGED <<queue, orphans, rows, reserved, crashes, pc>>
  BY DEF Pool!Ack, Pool!Log, Pool!Finish, Pool!Fail, webOnly
<1>2. /\ \A d \in Pool!Children \ {c} : job'[d] = job[d]
      /\ Pool!Runs(c, "save")' => Pool!Runs(c, "save") /\ job'[c].message = job[c].message
  <2>1. job[c] \in {Pool!Idle} \cup Begun
    BY DEF SystemInv, PoolInv
  <2>2. CASE Pool!Ack(c)
    <3>1. job' = [job EXCEPT ![c] = [job[c] EXCEPT !.acked = TRUE]]
      BY <2>2 DEF Pool!Ack
    <3>2. job[c] \in Begun
      BY <2>1, <2>2 DEF Pool!Ack, Pool!Busy, Pool!Idle
    <3>3. job'[c].phase = job[c].phase /\ job'[c].message = job[c].message
      BY <3>1, <3>2 DEF SystemInv, PoolInv, Begun
    <3> QED
      BY <3>1, <3>3 DEF SystemInv, PoolInv, Pool!Runs
  <2>3. CASE Pool!Log(c)
    <3>1. job' = [job EXCEPT ![c] = [job[c] EXCEPT !.phase = "written"]]
      BY <2>3 DEF Pool!Log
    <3>2. job[c] \in Begun
      BY <2>1, <2>3 DEF Pool!Log, Pool!Runs, Pool!Idle
    <3>3. job'[c].phase = "written"
      BY <3>1, <3>2 DEF SystemInv, PoolInv, Begun
    <3> QED
      BY <3>1, <3>3 DEF SystemInv, PoolInv, Pool!Runs
  <2>4. CASE Pool!Finish(c) \/ Pool!Fail(c)
    <3>1. job' = [job EXCEPT ![c] = Pool!Idle]
      BY <2>4 DEF Pool!Finish, Pool!Fail
    <3> QED
      BY <3>1 DEF SystemInv, PoolInv, Pool!Runs, Pool!Idle
  <2> QED
    BY <2>2, <2>3, <2>4
<1>3. ASSUME NEW r \in Requests
      PROVE  \A g, h \in Holders(r)' : g = h
  <2>1. Holders(r)' \subseteq Holders(r)
    <3>1. ASSUME NEW d \in Pool!Children, Pool!Runs(d, "save")', job'[d].message.id = r
          PROVE  Pool!Runs(d, "save") /\ job[d].message.id = r
      BY <1>2, <3>1 DEF Pool!Runs
    <3> QED
      BY <1>1, <3>1 DEF Holders, Pool!Children
  <2> QED
    BY <2>1 DEF TokenInv
<1> QED
  BY <1>1, <1>3 DEF TokenInv

(* The child that writes the row is the only place, so it is the first.    *)
LEMMA SaveMovesToken ==
  ASSUME SystemInv, TokenInv, NEW c \in Pool!Children, Pool!Save(c), UNCHANGED webOnly
  PROVE  /\ TokenInv'
         /\ \E r \in Requests : isNew[r] /\ rows[r] = 0 /\ rows' = [rows EXCEPT ![r] = @ + 1]
<1> DEFINE id == job[c].message.id
<1>1. UNCHANGED <<queue, orphans, reserved, crashes, pc>>
  BY DEF Pool!Save, webOnly
<1>2. job[c] \in Begun /\ Pool!Runs(c, "save")
  BY DEF Pool!Save, Pool!Runs, SystemInv, PoolInv, Pool!Idle
<1>3. id \in Requests /\ isNew[id]
  BY <1>2 DEF Begun, Good, Pool!Runs, Web!Messages
<1>4. <<"child", c>> \in Holders(id)
  BY <1>2 DEF Holders
<1>5. rows[id] = 0
  <2>1. rows[id] # 0 => <<"row", id>> \in Holders(id)
    BY DEF Holders
  <2> QED
    BY <1>3, <1>4, <2>1 DEF TokenInv
<1>6. rows' = [rows EXCEPT ![id] = @ + 1]
  BY DEF Pool!Save
<1>7. /\ \A d \in Pool!Children \ {c} : job'[d] = job[d]
      /\ ~Pool!Runs(c, "save")'
  <2>1. job' = [job EXCEPT ![c] = [job[c] EXCEPT !.phase = "written"]]
    BY DEF Pool!Save
  <2>2. job'[c].phase = "written"
    BY <1>2, <2>1 DEF SystemInv, PoolInv, Begun
  <2> QED
    BY <2>1, <2>2 DEF SystemInv, PoolInv, Pool!Runs
<1>8. ASSUME NEW r \in Requests
      PROVE  \A g, h \in Holders(r)' : g = h
  <2> HIDE DEF id
  <2>1. /\ \A g, h \in Holders(r) : g = h
    BY DEF TokenInv
  <2>2. \A d \in Pool!Children : Pool!Runs(d, "save")' =>
          d # c /\ Pool!Runs(d, "save") /\ job'[d].message = job[d].message
    BY <1>7 DEF Pool!Runs
  <2>3. r # id => rows'[r] = rows[r]
    BY <1>6 DEF SystemInv, PoolInv
  <2>4. CASE r = id
    <3>1. <<"child", c>> \in Holders(r) /\ <<"child", c>> \notin Holders(r)'
      BY <1>4, <1>7, <2>4 DEF Holders
    <3>2. Holders(r)' \subseteq Holders(r) \cup {<<"row", r>>}
      BY <1>1, <2>2 DEF Holders, Pool!Children
    <3> QED
      BY <2>1, <3>1, <3>2, TokenMoves
  <2>5. CASE r # id
    <3>1. Holders(r)' \subseteq Holders(r)
      BY <1>1, <2>2, <2>3, <2>5 DEF Holders, Pool!Children
    <3> QED
      BY <2>1, <3>1
  <2> QED
    BY <2>4, <2>5
<1>9. TokenInv'
  BY <1>1, <1>8 DEF TokenInv
<1> QED
  BY <1>3, <1>5, <1>6, <1>9

(* Without deaths nothing is redelivered and nobody crashes.               *)
LEMMA PoolMovesToken ==
  ASSUME MaxCrashes = 0, SystemInv, TokenInv, Pool!CeleryNext, UNCHANGED webOnly
  PROVE  /\ TokenInv'
         /\ \/ UNCHANGED rows
            \/ \E r \in Requests : isNew[r] /\ rows[r] = 0 /\ rows' = [rows EXCEPT ![r] = @ + 1]
<1>1. ~Pool!Redeliver
  BY DEF TokenInv, Pool!Redeliver
<1>2. ASSUME NEW n \in Nodes
      PROVE  ~Pool!NodeCrash(n)
  BY DEF TokenInv, Pool!NodeCrash
<1>3. ASSUME NEW c \in Pool!Children
      PROVE  ~Pool!ChildKilled(c)
  BY DEF TokenInv, Pool!ChildKilled
<1>4. ASSUME NEW n \in Nodes, Pool!NodeStart(n)
      PROVE  TokenInv' /\ UNCHANGED rows
  <2>1. UNCHANGED <<queue, orphans, rows, reserved, job, crashes, pc>>
    BY <1>4 DEF Pool!NodeStart, webOnly
  <2> QED
    BY <2>1 DEF TokenInv, Holders, Pool!Runs, Pool!Children
<1>5. ASSUME NEW n \in Nodes, Pool!Deliver(n)
      PROVE  TokenInv' /\ UNCHANGED rows
  BY <1>5, DeliverMovesToken DEF Pool!Deliver
<1>6. ASSUME NEW c \in Pool!Children, Pool!Start(c)
      PROVE  TokenInv' /\ UNCHANGED rows
  BY <1>6, StartMovesToken DEF Pool!Start
<1> QED
  BY <1>1, <1>2, <1>3, <1>4, <1>5, <1>6, ChildKeepsToken, SaveMovesToken
     DEF Pool!CeleryNext, Pool!Work

(* While every process, node and call behaves, each number is accepted     *)
(* once per window and stored at most once, and nothing else is stored:    *)
(* every step is a step of LeadCapture's Next or invisible to it (post(),  *)
(* save_phone_in_sql_task).  That what is accepted is stored in the end    *)
(* takes fairness and is left to the run.                                  *)
THEOREM PipelineStoresOnce ==
  ASSUME MaxCrashes = 0
  PROVE  Spec => Lead!Init /\ [][Lead!Next]_(Lead!lead)
<1>1. ASSUME SystemInv, TokenInv, [Next]_vars
      PROVE  SystemInv' /\ TokenInv' /\ [Lead!Next]_(Lead!lead)
  <2>1. CASE WebStep
    BY <1>1, <2>1, WebSteps, WebMovesToken DEF WebStep, Lead!Next
  <2>2. CASE PoolStep
    <3>1. /\ SystemInv' /\ TokenInv' /\ UNCHANGED webOnly
          /\ \/ UNCHANGED rows
             \/ \E r \in Requests : isNew[r] /\ rows[r] = 0 /\ rows' = [rows EXCEPT ![r] = @ + 1]
      BY <1>1, <2>2, PoolSteps, PoolMovesToken DEF PoolStep
    <3>2. UNCHANGED <<now, store, isNew, phone>>
      BY <3>1 DEF webOnly
    <3>3. CASE UNCHANGED rows
      BY <3>1, <3>2, <3>3 DEF Lead!lead
    <3>4. ASSUME NEW r \in Requests, isNew[r], rows[r] = 0, rows' = [rows EXCEPT ![r] = @ + 1]
          PROVE  Lead!Store(r)
      <4>1. phone[r] # None
        BY <1>1, <3>4, SystemAssumption DEF SystemInv, WebInv
      <4> QED
        BY <3>2, <3>4, <4>1 DEF Lead!Store, Lead!StoreAgain
    <3> QED
      BY <3>1, <3>3, <3>4 DEF Lead!Next
  <2>3. CASE UNCHANGED vars
    <3>1. SystemInv' /\ UNCHANGED Lead!lead
      BY <1>1, <2>3 DEF SystemInv, WebInv, PoolInv, Good, Begun, vars, webOnly, poolOnly, Lead!lead
    <3>2. TokenInv'
      BY <1>1, <2>3 DEF TokenInv, Holders, Pool!Runs, Pool!Children, vars, webOnly, poolOnly
    <3> QED
      BY <3>1, <3>2
  <2> QED
    BY <1>1, <2>1, <2>2, <2>3 DEF Next
<1>2. SystemInv /\ TokenInv /\ [Next]_vars => SystemInv' /\ TokenInv' /\ [Lead!Next]_(Lead!lead)
  BY <1>1
<1> QED
  BY <1>2, SystemInit, TokenInit, LeadInit, PTL DEF Spec
=============================================================================
