--------------------------- MODULE SubmitPhoneProofs ---------------------------
(* Proofs about the submission endpoint, for every number of requests,     *)
(* phone numbers, processes and every window.                              *)
EXTENDS SubmitPhone, TLAPS, FiniteSetTheorems

-----------------------------------------------------------------------------
LEMMA CacheOfType ==
  ASSUME NEW w \in Workers
  PROVE  CacheOf(w) \in Caches
  BY SubmitAssumption DEF CacheOf, Caches

LEMMA CountReplyType ==
  ASSUME TypeOK, NEW w \in Workers, NEW outcome \in Outcomes, CountReply(w, outcome)
  PROVE  metrics' \in [Workers -> Counters]
  BY DEF TypeOK, CountReply, Counters

(* The messages post() publishes are well formed when its locals are, and  *)
(* so is the queue with one of them at its end, once or twice.             *)
LEMMA MessagesType ==
  ASSUME TypeOK, NEW r \in Requests, phone[r] \in Phones
  PROVE  SaveMessage(r) \in Messages /\ LogMessage(r) \in Messages
  BY DEF TypeOK, SaveMessage, LogMessage, Messages

LEMMA AppendType ==
  ASSUME NEW S, NEW q \in Seq(S), NEW m \in S
  PROVE  Append(q, m) \in Seq(S)
  OBVIOUS

LEMMA PublishedType ==
  ASSUME TypeOK, NEW r \in Requests, phone[r] \in Phones,
         NEW m \in {SaveMessage(r), LogMessage(r)}
  PROVE  Append(queue, m) \in Seq(Messages) /\ Append(Append(queue, m), m) \in Seq(Messages)
<1>1. m \in Messages
  BY MessagesType
<1>2. queue \in Seq(Messages)
  BY DEF TypeOK
<1>3. Append(queue, m) \in Seq(Messages)
  BY <1>1, <1>2, AppendType
<1>. QED  BY <1>1, <1>3, AppendType

LEMMA TakenKeyType ==
  ASSUME TypeOK, NEW c \in Caches, NEW p \in Phones
  PROVE  [store EXCEPT ![c][p] = now + Window] \in [Caches -> [Phones -> Nat]]
  BY SubmitAssumption DEF TypeOK

(* Type correctness, with failures: no step leaves the typed states.       *)
LEMMA TypeStep ==
  ASSUME TypeOK, [FaultyNext]_vars
  PROVE  TypeOK'
<1> USE SubmitAssumption
<1>1. ASSUME NEW r \in Requests, NEW w \in Workers, NEW p \in Phones, Receive(r, w, p)
      PROVE  TypeOK'
  BY <1>1 DEF TypeOK, Receive, InHandler
<1>2. ASSUME NEW r \in Requests, NEW w \in Workers, Reject(r, w)
      PROVE  TypeOK'
  <2>1. metrics' \in [Workers -> Counters]
    BY <1>2, CountReplyType DEF Reject, Outcomes, Replies
  <2>. QED  BY <1>2, <2>1 DEF TypeOK, Reject, InHandler, Outcomes, Replies
<1>3. ASSUME NEW r \in Requests, CacheAdd(r)
      PROVE  TypeOK'
  <2>1. CacheOf(worker[r]) \in Caches /\ phone[r] \in Phones
    BY <1>3, CacheOfType DEF TypeOK, CacheAdd, InHandler
  <2>2. store' \in [Caches -> [Phones -> Nat]]
    BY <1>3, <2>1 DEF TypeOK, CacheAdd
  <2>3. isNew' \in [Requests -> BOOLEAN] /\ addedAt' \in [Requests -> Nat]
    BY <1>3 DEF TypeOK, CacheAdd, KeyAbsent
  <2>. QED  BY <1>3, <2>1, <2>2, <2>3 DEF TypeOK, CacheAdd, InHandler
<1>4. ASSUME NEW r \in Requests, PublishLog(r)
      PROVE  TypeOK'
  <2>1. LogMessage(r) \in Messages
    BY <1>4, MessagesType DEF TypeOK, PublishLog, InHandler
  <2>. QED  BY <1>4, <2>1 DEF TypeOK, PublishLog, AfterLog, InHandler
<1>5. ASSUME NEW r \in Requests, PublishSave(r)
      PROVE  TypeOK'
  <2>1. SaveMessage(r) \in Messages
    BY <1>5, MessagesType DEF TypeOK, PublishSave, InHandler
  <2>. QED  BY <1>5, <2>1 DEF TypeOK, PublishSave, InHandler
<1>6. ASSUME NEW r \in Requests, Return(r)
      PROVE  TypeOK'
  <2>1. metrics' \in [Workers -> Counters]
    BY <1>6, CountReplyType DEF TypeOK, Return, Reply, InHandler, Outcomes, Replies
  <2>. QED  BY <1>6, <2>1 DEF TypeOK, Return, Reply, InHandler, Outcomes, Replies
<1>7. CASE Tick
  BY <1>7 DEF TypeOK, Tick
<1>8. ASSUME NEW r \in Requests, CacheAddFails(r)
      PROVE  TypeOK'
  <2>1. CacheOf(worker[r]) \in Caches /\ phone[r] \in Phones /\ worker[r] \in Workers
    BY <1>8, CacheOfType DEF TypeOK, CacheAddFails, InHandler
  <2>2. store' \in [Caches -> [Phones -> Nat]]
    BY <1>8, <2>1, TakenKeyType DEF TypeOK, CacheAddFails
  <2>3. metrics' \in [Workers -> Counters]
    BY <1>8, <2>1, CountReplyType DEF CacheAddFails, Reply, Outcomes, Replies
  <2>. QED
    BY <1>8, <2>2, <2>3 DEF TypeOK, CacheAddFails, Reply, InHandler, Outcomes, Replies
<1>9. ASSUME NEW r \in Requests, PublishFails(r)
      PROVE  TypeOK'
  <2>1. phone[r] \in Phones /\ worker[r] \in Workers
    BY <1>9 DEF TypeOK, PublishFails, InHandler
  <2>2. queue' \in Seq(Messages)
    <3>1. \A m \in {SaveMessage(r), LogMessage(r)} :
            /\ Append(queue, m) \in Seq(Messages)
            /\ Append(Append(queue, m), m) \in Seq(Messages)
      BY <2>1, PublishedType
    <3>2. queue \in Seq(Messages)
      BY DEF TypeOK
    <3>. QED  BY <1>9, <3>1, <3>2 DEF PublishFails
  <2>3. metrics' \in [Workers -> Counters]
    BY <1>9, <2>1, CountReplyType DEF PublishFails, Reply, Outcomes, Replies
  <2>. QED
    BY <1>9, <2>2, <2>3 DEF TypeOK, PublishFails, Reply, InHandler, Outcomes, Replies
<1>10. ASSUME NEW r \in Requests, PublishTwice(r)
       PROVE  TypeOK'
  <2>1. phone[r] \in Phones
    BY <1>10 DEF TypeOK, PublishTwice, InHandler
  <2>2. queue' \in Seq(Messages)
    <3>1. \A m \in {SaveMessage(r), LogMessage(r)} :
            /\ Append(queue, m) \in Seq(Messages)
            /\ Append(Append(queue, m), m) \in Seq(Messages)
      BY <2>1, PublishedType
    <3>2. queue \in Seq(Messages)
      BY DEF TypeOK
    <3>. QED  BY <1>10, <3>1, <3>2 DEF PublishTwice
  <2>. QED  BY <1>10, <2>2 DEF TypeOK, PublishTwice, AfterLog, InHandler
<1>11. ASSUME NEW w \in Workers, WorkerKilled(w)
       PROVE  TypeOK'
  <2>1. store' \in [Caches -> [Phones -> Nat]]
    BY <1>11 DEF TypeOK, WorkerKilled, Caches
  <2>2. metrics' \in [Workers -> Counters]
    BY <1>11 DEF TypeOK, WorkerKilled, Zero, Counters
  <2>3. pc' \in [Requests -> {"unsent"} \cup InHandler \cup Outcomes]
    BY <1>11 DEF TypeOK, WorkerKilled, Outcomes
  <2>4. \A r \in Requests : pc'[r] \in InHandler => pc[r] \in InHandler
    BY <1>11 DEF TypeOK, WorkerKilled, InHandler
  <2>. QED  BY <1>11, <2>1, <2>2, <2>3, <2>4 DEF TypeOK, WorkerKilled
<1>12. CASE UNCHANGED vars
  BY <1>12 DEF TypeOK, vars
<1>. QED
  BY <1>1, <1>2, <1>3, <1>4, <1>5, <1>6, <1>7, <1>8, <1>9, <1>10, <1>11, <1>12
  DEF FaultyNext, Next, Faults, Arrive, Handle

LEMMA TypeInit == Init => TypeOK
  BY SubmitAssumption DEF Init, TypeOK, InHandler, Zero, Counters, Outcomes

(* The typing invariant of the endpoint, whatever fails.                   *)
THEOREM FaultyTypeCorrect == FaultySpec => []TypeOK
  BY TypeInit, TypeStep, PTL DEF FaultySpec

(* The typing invariant of the endpoint when nothing fails.                *)
THEOREM TypeCorrect == Spec => []TypeOK
<1>1. TypeOK /\ [Next]_vars => TypeOK'
  BY TypeStep DEF FaultyNext
<1>. QED  BY <1>1, TypeInit, PTL DEF Spec

-----------------------------------------------------------------------------
(* The dedup window.  DedupWindow is not inductive: it says nothing of the *)
(* key.  What keeps it true is that the key of an accepted number outlives *)
(* the acceptance by a window, so cache.add can only succeed after it.     *)

(* Before cache.add a request is not new.                                  *)
NotYetNew == \A r \in Requests : pc[r] \in {"unsent", "dedup"} => ~isNew[r]

KeyOutlivesAcceptance ==
  \A r \in Requests : isNew[r] =>
    phone[r] \in Phones /\ addedAt[r] + Window <= store["redis"][phone[r]]

WindowInv == TypeOK /\ NotYetNew /\ KeyOutlivesAcceptance /\ DedupWindow

(* Steps that leave the classification of every request alone and take no  *)
(* time from a key.                                                        *)
LEMMA WindowFrame ==
  ASSUME WindowInv, TypeOK', ~LocMem,
         UNCHANGED <<isNew, addedAt>>,
         \A r \in Requests : pc'[r] \in {"unsent", "dedup"} => pc[r] \in {"unsent", "dedup"},
         \A r \in Requests : phone'[r] # phone[r] => pc[r] = "unsent",
         \A p \in Phones : store["redis"][p] <= store'["redis"][p]
  PROVE  WindowInv'
<1>1. NotYetNew'
  BY DEF WindowInv, NotYetNew
<1>2. ASSUME NEW r \in Requests, isNew'[r]
      PROVE  isNew[r] /\ phone'[r] = phone[r] /\ addedAt'[r] = addedAt[r]
  BY <1>2 DEF WindowInv, NotYetNew
<1>3. KeyOutlivesAcceptance'
  <2>. SUFFICES ASSUME NEW r \in Requests, isNew'[r]
                PROVE  /\ phone'[r] \in Phones
                       /\ addedAt'[r] + Window <= store'["redis"][phone'[r]]
    BY DEF KeyOutlivesAcceptance
  <2>1. phone[r] \in Phones /\ addedAt[r] + Window <= store["redis"][phone[r]]
    BY <1>2 DEF WindowInv, KeyOutlivesAcceptance
  <2>2. "redis" \in Caches
    BY DEF Caches
  <2>3. /\ store["redis"][phone[r]] \in Nat /\ store'["redis"][phone[r]] \in Nat
        /\ addedAt[r] + Window \in Nat
    BY <2>1, <2>2, SubmitAssumption DEF WindowInv, TypeOK
  <2>4. store["redis"][phone[r]] <= store'["redis"][phone[r]]
    BY <2>1
  <2>. QED  BY <1>2, <2>1, <2>3, <2>4
<1>4. DedupWindow'
  BY <1>2 DEF WindowInv, DedupWindow
<1>. QED  BY <1>1, <1>3, <1>4 DEF WindowInv

(* The step that matters: cache.add says "new" only if the key is gone,    *)
(* and then every earlier acceptance of the number is a window old.        *)
LEMMA WindowCacheAdd ==
  ASSUME WindowInv, TypeOK', ~LocMem, NEW r \in Requests, CacheAdd(r)
  PROVE  WindowInv'
<1>. DEFINE p == phone[r]
<1>1. /\ p \in Phones /\ CacheOf(worker[r]) = "redis" /\ "redis" \in Caches
      /\ now \in Nat /\ Window \in Nat
  BY SubmitAssumption DEF WindowInv, TypeOK, CacheAdd, InHandler, CacheOf, Caches
<1>2. ~isNew[r] /\ phone' = phone
  BY DEF WindowInv, NotYetNew, CacheAdd
<1>3. \A s \in Requests \ {r} : isNew'[s] = isNew[s] /\ addedAt'[s] = addedAt[s]
  BY DEF WindowInv, TypeOK, CacheAdd
<1>4. NotYetNew'
  BY <1>3 DEF WindowInv, TypeOK, NotYetNew, CacheAdd
<1>5. CASE ~KeyAbsent("redis", p)
  <2>1. ~isNew'[r] /\ store' = store
    BY <1>1, <1>5 DEF WindowInv, TypeOK, CacheAdd
  <2>2. KeyOutlivesAcceptance' /\ DedupWindow'
    BY <1>2, <1>3, <2>1 DEF WindowInv, KeyOutlivesAcceptance, DedupWindow
  <2>. QED  BY <1>4, <2>2 DEF WindowInv
<1>6. CASE KeyAbsent("redis", p)
  <2>1. isNew'[r] /\ addedAt'[r] = now /\ store' = [store EXCEPT !["redis"][p] = now + Window]
    BY <1>1, <1>6 DEF WindowInv, TypeOK, CacheAdd
  <2>2. store'["redis"][p] = now + Window
    BY <1>1, <2>1 DEF WindowInv, TypeOK
  <2>3. \A q \in Phones \ {p} : store'["redis"][q] = store["redis"][q]
    BY <1>1, <2>1 DEF WindowInv, TypeOK
  <2>4. \A s \in Requests : isNew[s] /\ phone[s] = p => addedAt[s] + Window <= now
    <3>. SUFFICES ASSUME NEW s \in Requests, isNew[s], phone[s] = p
                  PROVE  addedAt[s] + Window <= now
      OBVIOUS
    <3>1. addedAt[s] + Window <= store["redis"][p]
      BY DEF WindowInv, KeyOutlivesAcceptance
    <3>2. store["redis"][p] <= now
      BY <1>6 DEF KeyAbsent
    <3>3. addedAt[s] \in Nat /\ store["redis"][p] \in Nat
      BY <1>1 DEF WindowInv, TypeOK
    <3>. QED  BY <1>1, <3>1, <3>2, <3>3
  <2>5. KeyOutlivesAcceptance'
    <3>. SUFFICES ASSUME NEW s \in Requests, isNew'[s]
                  PROVE  /\ phone[s] \in Phones
                         /\ addedAt'[s] + Window <= store'["redis"][phone[s]]
      BY <1>2 DEF KeyOutlivesAcceptance
    <3>1. CASE s = r
      BY <1>1, <2>1, <2>2, <3>1
    <3>2. CASE s # r
      <4>1. isNew[s] /\ addedAt'[s] = addedAt[s] /\ addedAt[s] \in Nat
        BY <1>3, <3>2 DEF WindowInv, TypeOK
      <4>2. phone[s] \in Phones /\ addedAt[s] + Window <= store["redis"][phone[s]]
        BY <4>1 DEF WindowInv, KeyOutlivesAcceptance
      <4>3. CASE phone[s] = p
        BY <1>1, <2>2, <2>4, <4>1, <4>2, <4>3
      <4>4. CASE phone[s] # p
        BY <2>3, <4>1, <4>2, <4>4
      <4>. QED  BY <4>3, <4>4
    <3>. QED  BY <3>1, <3>2
  <2>6. DedupWindow'
    <3>. SUFFICES ASSUME NEW s \in Requests, NEW t \in Requests,
                         s # t, isNew'[s], isNew'[t], phone[s] = phone[t]
                  PROVE  \/ addedAt'[s] + Window <= addedAt'[t]
                         \/ addedAt'[t] + Window <= addedAt'[s]
      BY <1>2 DEF DedupWindow
    <3>1. CASE s = r
      BY <1>3, <2>1, <2>4, <3>1
    <3>2. CASE t = r
      BY <1>3, <2>1, <2>4, <3>2
    <3>3. CASE s # r /\ t # r
      BY <1>3, <3>3 DEF WindowInv, DedupWindow
    <3>. QED  BY <3>1, <3>2, <3>3
  <2>. QED  BY <1>4, <2>5, <2>6 DEF WindowInv
<1>. QED  BY <1>5, <1>6

LEMMA WindowStep ==
  ASSUME WindowInv, [FaultyNext]_vars, ~LocMem
  PROVE  WindowInv'
<1>. USE SubmitAssumption
<1>1. TypeOK'
  BY TypeStep DEF WindowInv
<1>2. \A p \in Phones : store["redis"][p] \in Nat
  BY DEF WindowInv, TypeOK, Caches
<1>3. ASSUME NEW r \in Requests, NEW w \in Workers, NEW p \in Phones, Receive(r, w, p)
      PROVE  WindowInv'
  <2>1. \A s \in Requests : pc'[s] \in {"unsent", "dedup"} => pc[s] \in {"unsent", "dedup"}
    BY <1>3 DEF WindowInv, TypeOK, Receive
  <2>2. \A s \in Requests : phone'[s] # phone[s] => pc[s] = "unsent"
    BY <1>3 DEF WindowInv, TypeOK, Receive
  <2>. QED  BY <1>1, <1>2, <1>3, <2>1, <2>2, WindowFrame DEF Receive
<1>4. ASSUME NEW r \in Requests, CacheAdd(r)
      PROVE  WindowInv'
  BY <1>1, <1>4, WindowCacheAdd
<1>5. ASSUME NEW r \in Requests, CacheAddFails(r)
      PROVE  WindowInv'
  <2>1. \A s \in Requests : pc'[s] \in {"unsent", "dedup"} => pc[s] \in {"unsent", "dedup"}
    BY <1>5 DEF WindowInv, TypeOK, CacheAddFails, Reply
  <2>2. phone[r] \in Phones /\ CacheOf(worker[r]) = "redis" /\ "redis" \in Caches
    BY <1>5 DEF WindowInv, TypeOK, CacheAddFails, InHandler, CacheOf, Caches
  <2>3. now \in Nat /\ Window \in Nat
    BY DEF WindowInv, TypeOK
  <2>4. \A p \in Phones : store["redis"][p] <= store'["redis"][p]
    <3>1. CASE UNCHANGED store
      BY <1>2, <3>1
    <3>2. CASE KeyAbsent("redis", phone[r]) /\ store' = [store EXCEPT !["redis"][phone[r]] = now + Window]
      <4>1. store["redis"][phone[r]] <= now
        BY <3>2 DEF KeyAbsent
      <4>2. store'["redis"][phone[r]] = now + Window
        BY <2>2, <3>2 DEF WindowInv, TypeOK
      <4>3. \A p \in Phones \ {phone[r]} : store'["redis"][p] = store["redis"][p]
        BY <2>2, <3>2 DEF WindowInv, TypeOK
      <4>. QED  BY <1>2, <2>2, <2>3, <4>1, <4>2, <4>3
    <3>. QED  BY <1>5, <2>2, <3>1, <3>2 DEF CacheAddFails
  <2>. QED  BY <1>1, <1>5, <2>1, <2>4, WindowFrame DEF CacheAddFails
<1>6. ASSUME NEW w \in Workers, WorkerKilled(w)
      PROVE  WindowInv'
  <2>1. \A s \in Requests : pc'[s] \in {"unsent", "dedup"} => pc[s] \in {"unsent", "dedup"}
    BY <1>6 DEF WindowInv, TypeOK, WorkerKilled
  <2>. QED  BY <1>1, <1>2, <1>6, <2>1, WindowFrame DEF WorkerKilled
<1>7. ASSUME UNCHANGED <<store, phone, isNew, addedAt>>,
             \A s \in Requests : pc'[s] \in {"unsent", "dedup"} => pc[s] \in {"unsent", "dedup"}
      PROVE  WindowInv'
  BY <1>1, <1>2, <1>7, WindowFrame
<1>8. ASSUME NEW r \in Requests, NEW w \in Workers, Reject(r, w)
      PROVE  WindowInv'
  BY <1>7, <1>8 DEF WindowInv, TypeOK, Reject
<1>9. ASSUME NEW r \in Requests,
             PublishLog(r) \/ PublishSave(r) \/ Return(r) \/ PublishFails(r) \/ PublishTwice(r)
      PROVE  WindowInv'
  BY <1>7, <1>9 DEF WindowInv, TypeOK, PublishLog, PublishSave, Return, PublishFails,
                    PublishTwice, AfterLog, Reply
<1>10. CASE Tick \/ UNCHANGED vars
  BY <1>7, <1>10 DEF Tick, vars
<1>. QED
  BY <1>3, <1>4, <1>5, <1>6, <1>8, <1>9, <1>10
  DEF FaultyNext, Next, Faults, Arrive, Handle

(* With the one Redis cache, two acceptances of a number are a window      *)
(* apart, whatever fails and for any number of processes (post()).         *)
THEOREM DedupWindowHolds ==
  ASSUME ~LocMem
  PROVE  FaultySpec => []DedupWindow
<1>1. Init => WindowInv
  BY TypeInit DEF Init, WindowInv, NotYetNew, KeyOutlivesAcceptance, DedupWindow
<1>2. WindowInv /\ [FaultyNext]_vars => WindowInv'
  BY WindowStep
<1>3. WindowInv => DedupWindow
  BY DEF WindowInv
<1>. QED  BY <1>1, <1>2, <1>3, PTL DEF FaultySpec

-----------------------------------------------------------------------------
(* What a client may conclude from "duplicate" when nothing fails.  The    *)
(* strengthening names the owner of every key: the request whose cache.add *)
(* set it, which is on its way to its save task or past it.                *)

OnItsWay(s) == isNew[s] /\ pc[s] \in {"log", "save", "return", "queued"}

(* s is the submission that makes r a duplicate.                           *)
Covers(s, r) ==
  /\ OnItsWay(s) /\ phone[s] = phone[r]
  /\ addedAt[s] <= addedAt[r] /\ addedAt[r] < addedAt[s] + Window

KeysHaveOwners ==
  \A c \in Caches, p \in Phones : store[c][p] > 0 =>
    \E s \in Requests :
      /\ OnItsWay(s) /\ phone[s] = p
      /\ addedAt[s] <= now /\ store[c][p] = addedAt[s] + Window

DuplicatesAreCovered ==
  \A r \in Requests :
    (~isNew[r] /\ pc[r] \in {"log", "return", "duplicate"}) => \E s \in Requests : Covers(s, r)

(* Only new requests reach the save task, only the others are duplicates.  *)
BranchesFollowIsNew ==
  \A r \in Requests :
    /\ pc[r] \in {"save", "queued"} => isNew[r]
    /\ pc[r] = "duplicate" => ~isNew[r]

OwnerInv == TypeOK /\ NotYetNew /\ BranchesFollowIsNew /\ KeysHaveOwners /\ DuplicatesAreCovered

(* Without failures a request on its way to its save task stays so.        *)
OwnersStay ==
  \A s \in Requests : OnItsWay(s) =>
    OnItsWay(s)' /\ phone'[s] = phone[s] /\ addedAt'[s] = addedAt[s]

LEMMA OwnersStayOnTheWay ==
  ASSUME OwnerInv, [Next]_vars
  PROVE  OwnersStay
<1>1. ASSUME NEW r \in Requests, NEW w \in Workers,
             Reject(r, w) \/ \E p \in Phones : Receive(r, w, p)
      PROVE  OwnersStay
  BY <1>1 DEF OwnerInv, TypeOK, OwnersStay, OnItsWay, Receive, Reject
<1>2. ASSUME NEW r \in Requests, CacheAdd(r)
      PROVE  OwnersStay
  BY <1>2 DEF OwnerInv, TypeOK, OwnersStay, OnItsWay, CacheAdd
<1>3. ASSUME NEW r \in Requests, PublishLog(r) \/ PublishSave(r) \/ Return(r)
      PROVE  OwnersStay
  BY <1>3 DEF OwnerInv, TypeOK, OwnersStay, OnItsWay, PublishLog, AfterLog, PublishSave,
              Return, Reply
<1>4. CASE Tick \/ UNCHANGED vars
  BY <1>4 DEF OwnersStay, OnItsWay, Tick, vars
<1>. QED  BY <1>1, <1>2, <1>3, <1>4 DEF Next, Arrive, Handle

(* Steps that change neither keys nor their classification of requests.    *)
LEMMA OwnerFrame ==
  ASSUME OwnerInv, TypeOK', OwnersStay, UNCHANGED store, now <= now',
         \A r \in Requests :
           (~isNew'[r] /\ pc'[r] \in {"log", "return", "duplicate"}) =>
             /\ ~isNew[r] /\ pc[r] \in {"log", "return", "duplicate"}
             /\ phone'[r] = phone[r] /\ addedAt'[r] = addedAt[r]
  PROVE  KeysHaveOwners' /\ DuplicatesAreCovered'
<1>1. KeysHaveOwners'
  <2>. SUFFICES ASSUME NEW c \in Caches, NEW p \in Phones, store'[c][p] > 0
                PROVE  \E s \in Requests :
                         /\ OnItsWay(s)' /\ phone'[s] = p
                         /\ addedAt'[s] <= now' /\ store'[c][p] = addedAt'[s] + Window
    BY DEF KeysHaveOwners, Caches
  <2>1. PICK s \in Requests : /\ OnItsWay(s) /\ phone[s] = p
                              /\ addedAt[s] <= now /\ store[c][p] = addedAt[s] + Window
    BY DEF OwnerInv, KeysHaveOwners
  <2>2. addedAt[s] \in Nat /\ now \in Nat /\ now' \in Nat
    BY SubmitAssumption DEF OwnerInv, TypeOK
  <2>3. OnItsWay(s)' /\ phone'[s] = p /\ addedAt'[s] = addedAt[s]
    BY <2>1 DEF OwnersStay
  <2>. QED  BY <2>1, <2>2, <2>3
<1>2. DuplicatesAreCovered'
  <2>. SUFFICES ASSUME NEW r \in Requests, ~isNew'[r], pc'[r] \in {"log", "return", "duplicate"}
                PROVE  \E s \in Requests : Covers(s, r)'
    BY DEF DuplicatesAreCovered
  <2>1. PICK s \in Requests : Covers(s, r)
    BY DEF OwnerInv, DuplicatesAreCovered
  <2>2. OnItsWay(s)' /\ phone'[s] = phone[s] /\ addedAt'[s] = addedAt[s]
    BY <2>1 DEF OwnersStay, Covers
  <2>3. Covers(s, r)'
    BY <2>1, <2>2 DEF Covers
  <2>. QED  BY <2>3
<1>. QED  BY <1>1, <1>2

(* cache.add either makes the request the owner of the key, or finds the   *)
(* owner, whose window has not ended.                                      *)
LEMMA OwnerCacheAdd ==
  ASSUME OwnerInv, TypeOK', OwnersStay, NEW r \in Requests, CacheAdd(r)
  PROVE  KeysHaveOwners' /\ DuplicatesAreCovered'
<1>. DEFINE d == CacheOf(worker[r])
            p == phone[r]
<1>1. /\ p \in Phones /\ d \in Caches /\ now \in Nat /\ Window \in Nat \ {0}
      /\ phone' = phone /\ now' = now
  BY SubmitAssumption, CacheOfType DEF OwnerInv, TypeOK, CacheAdd, InHandler
<1>2. \A s \in Requests \ {r} : isNew'[s] = isNew[s] /\ addedAt'[s] = addedAt[s] /\ pc'[s] = pc[s]
  BY DEF OwnerInv, TypeOK, CacheAdd
<1>3. pc'[r] = "log" /\ addedAt'[r] = now /\ isNew'[r] = KeyAbsent(d, p)
  BY DEF OwnerInv, TypeOK, CacheAdd
<1>4. \A c \in Caches, q \in Phones : (c # d \/ q # p \/ ~KeyAbsent(d, p)) => store'[c][q] = store[c][q]
  BY <1>1 DEF OwnerInv, TypeOK, CacheAdd
<1>5. KeyAbsent(d, p) => store'[d][p] = now + Window
  BY <1>1 DEF OwnerInv, TypeOK, CacheAdd
<1>6. ASSUME NEW c \in Caches, NEW q \in Phones, store[c][q] > 0
      PROVE  \E s \in Requests :
               /\ OnItsWay(s) /\ OnItsWay(s)' /\ phone[s] = q /\ s # r
               /\ addedAt'[s] = addedAt[s] /\ addedAt[s] <= now /\ addedAt[s] \in Nat
               /\ store[c][q] = addedAt[s] + Window
  <2>1. PICK s \in Requests : /\ OnItsWay(s) /\ phone[s] = q
                              /\ addedAt[s] <= now /\ store[c][q] = addedAt[s] + Window
    BY <1>6 DEF OwnerInv, KeysHaveOwners
  <2>2. OnItsWay(s)' /\ addedAt'[s] = addedAt[s]
    BY <2>1 DEF OwnersStay
  <2>3. s # r
    BY <2>1 DEF OnItsWay, CacheAdd
  <2>4. addedAt[s] \in Nat
    BY DEF OwnerInv, TypeOK
  <2>. QED  BY <2>1, <2>2, <2>3, <2>4
<1>7. KeysHaveOwners'
  <2>. SUFFICES ASSUME NEW c \in Caches, NEW q \in Phones, store'[c][q] > 0
                PROVE  \E s \in Requests :
                         /\ OnItsWay(s)' /\ phone[s] = q
                         /\ addedAt'[s] <= now /\ store'[c][q] = addedAt'[s] + Window
    BY <1>1 DEF KeysHaveOwners, Caches
  <2>1. CASE c = d /\ q = p /\ KeyAbsent(d, p)
    <3>1. OnItsWay(r)'
      BY <1>3, <2>1 DEF OnItsWay
    <3>. QED  BY <1>1, <1>3, <1>5, <2>1, <3>1
  <2>2. CASE c # d \/ q # p \/ ~KeyAbsent(d, p)
    BY <1>4, <1>6, <2>2
  <2>. QED  BY <2>1, <2>2
<1>8. DuplicatesAreCovered'
  <2>. SUFFICES ASSUME NEW t \in Requests, ~isNew'[t], pc'[t] \in {"log", "return", "duplicate"}
                PROVE  \E s \in Requests : Covers(s, t)'
    BY DEF DuplicatesAreCovered
  <2>1. CASE t = r
    <3>1. ~KeyAbsent(d, p)
      BY <1>3, <2>1
    <3>2. store[d][p] > now /\ store[d][p] \in Nat
      BY <1>1, <3>1 DEF KeyAbsent, OwnerInv, TypeOK
    <3>3. PICK s \in Requests :
            /\ OnItsWay(s)' /\ phone[s] = p
            /\ addedAt'[s] = addedAt[s] /\ addedAt[s] <= now /\ addedAt[s] \in Nat
            /\ store[d][p] = addedAt[s] + Window
      BY <1>1, <1>6, <3>2
    <3>4. Covers(s, t)'
      BY <1>1, <1>3, <2>1, <3>2, <3>3 DEF Covers
    <3>. QED  BY <3>4
  <2>2. CASE t # r
    <3>1. PICK s \in Requests : Covers(s, t)
      BY <1>2, <2>2 DEF OwnerInv, DuplicatesAreCovered
    <3>2. OnItsWay(s)' /\ addedAt'[s] = addedAt[s]
      BY <3>1 DEF OwnersStay, Covers
    <3>3. Covers(s, t)'
      BY <1>1, <1>2, <2>2, <3>1, <3>2 DEF Covers
    <3>. QED  BY <3>3
  <2>. QED  BY <2>1, <2>2
<1>. QED  BY <1>7, <1>8

LEMMA OwnerStep ==
  ASSUME OwnerInv, [Next]_vars
  PROVE  OwnerInv'
<1>1. TypeOK'
  BY TypeStep DEF OwnerInv, FaultyNext
<1>2. OwnersStay
  BY OwnersStayOnTheWay
<1>3. now \in Nat
  BY SubmitAssumption DEF OwnerInv, TypeOK
<1>4. ASSUME NEW r \in Requests, CacheAdd(r)
      PROVE  OwnerInv'
  <2>1. NotYetNew' /\ BranchesFollowIsNew'
    BY <1>4 DEF OwnerInv, TypeOK, NotYetNew, BranchesFollowIsNew, CacheAdd
  <2>. QED  BY <1>1, <1>2, <1>4, <2>1, OwnerCacheAdd DEF OwnerInv
<1>5. ASSUME NEW r \in Requests, NEW w \in Workers,
             Reject(r, w) \/ \E p \in Phones : Receive(r, w, p)
      PROVE  OwnerInv'
  <2>1. NotYetNew' /\ BranchesFollowIsNew'
    BY <1>5 DEF OwnerInv, TypeOK, NotYetNew, BranchesFollowIsNew, Receive, Reject
  <2>2. UNCHANGED <<store, now, isNew, addedAt>>
    BY <1>5 DEF Receive, Reject
  <2>3. \A s \in Requests : pc'[s] \in {"log", "return", "duplicate"} =>
          pc'[s] = pc[s] /\ phone'[s] = phone[s]
    BY <1>5 DEF OwnerInv, TypeOK, Receive, Reject
  <2>. QED  BY <1>1, <1>2, <1>3, <2>1, <2>2, <2>3, OwnerFrame DEF OwnerInv
<1>6. ASSUME NEW r \in Requests, PublishLog(r) \/ PublishSave(r) \/ Return(r)
      PROVE  OwnerInv'
  <2>1. NotYetNew' /\ BranchesFollowIsNew'
    BY <1>6 DEF OwnerInv, TypeOK, NotYetNew, BranchesFollowIsNew, PublishLog, AfterLog,
                PublishSave, Return, Reply
  <2>2. UNCHANGED <<store, now, phone, isNew, addedAt>>
    BY <1>6 DEF PublishLog, PublishSave, Return
  <2>3. \A s \in Requests : ~isNew[s] /\ pc'[s] \in {"log", "return", "duplicate"} =>
          pc[s] \in {"log", "return", "duplicate"}
    BY <1>6 DEF OwnerInv, TypeOK, BranchesFollowIsNew, PublishLog, AfterLog, PublishSave,
                Return, Reply
  <2>. QED  BY <1>1, <1>2, <1>3, <2>1, <2>2, <2>3, OwnerFrame DEF OwnerInv
<1>7. CASE Tick \/ UNCHANGED vars
  <2>1. UNCHANGED <<store, pc, phone, isNew, addedAt>> /\ now <= now'
    BY <1>3, <1>7 DEF Tick, vars
  <2>2. NotYetNew' /\ BranchesFollowIsNew'
    BY <2>1 DEF OwnerInv, NotYetNew, BranchesFollowIsNew
  <2>. QED  BY <1>1, <1>2, <2>1, <2>2, OwnerFrame DEF OwnerInv
<1>. QED  BY <1>4, <1>5, <1>6, <1>7 DEF Next, Arrive, Handle

(* When nothing fails, "duplicate" always means that the same number was   *)
(* queued less than a window before, or is about to be (post()), in the    *)
(* one Redis cache as well as in the cache of each process.                *)
THEOREM DuplicateMeansQueuedHolds == Spec => []DuplicateMeansQueued
<1>1. Init => OwnerInv
  BY TypeInit DEF Init, OwnerInv, NotYetNew, BranchesFollowIsNew, KeysHaveOwners,
                  DuplicatesAreCovered
<1>2. OwnerInv /\ [Next]_vars => OwnerInv'
  BY OwnerStep
<1>3. OwnerInv => DuplicateMeansQueued
  BY DEF OwnerInv, BranchesFollowIsNew, DuplicatesAreCovered, Covers, OnItsWay,
         DuplicateMeansQueued
<1>. QED  BY <1>1, <1>2, <1>3, PTL DEF Spec

-----------------------------------------------------------------------------
(* The order of the queue.  SaveFollowsItsLog becomes inductive with the   *)
(* log tasks of the requests that are about to publish their save task.    *)

(* One of the first n messages of q is the log task of a new submission.   *)
LoggedIn(q, n, id, number) ==
  \E j \in 1..n :
    q[j].task = "log" /\ q[j].id = id /\ q[j].phone = number /\ ~q[j].duplicate

Ordered(q) ==
  \A i \in 1..Len(q) : q[i].task = "save" => LoggedIn(q, i - 1, q[i].id, q[i].phone)

SavesAreLogged ==
  \A r \in Requests : pc[r] = "save" => isNew[r] /\ LoggedIn(queue, Len(queue), r, phone[r])

OrderInv == TypeOK /\ Ordered(queue) /\ SavesAreLogged

LEMMA LoggedStays ==
  ASSUME NEW q \in Seq(Messages), NEW m, NEW n \in 0..Len(q), NEW id, NEW number,
         LoggedIn(q, n, id, number)
  PROVE  LoggedIn(Append(q, m), n, id, number) /\ LoggedIn(Append(q, m), Len(q) + 1, id, number)
<1>1. PICK j \in 1..n :
        q[j].task = "log" /\ q[j].id = id /\ q[j].phone = number /\ ~q[j].duplicate
  BY DEF LoggedIn
<1>2. j \in 1..Len(q) /\ j \in 1..(Len(q) + 1) /\ Append(q, m)[j] = q[j]
  OBVIOUS
<1>. QED  BY <1>1, <1>2 DEF LoggedIn

LEMMA OrderedAppend ==
  ASSUME NEW q \in Seq(Messages), NEW m \in Messages, Ordered(q),
         m.task = "save" => LoggedIn(q, Len(q), m.id, m.phone)
  PROVE  Ordered(Append(q, m))
<1>. DEFINE Q == Append(q, m)
<1>1. Len(Q) = Len(q) + 1 /\ Q[Len(q) + 1] = m /\ \A i \in 1..Len(q) : Q[i] = q[i]
  OBVIOUS
<1>2. SUFFICES ASSUME NEW i \in 1..Len(Q), Q[i].task = "save"
               PROVE  LoggedIn(Q, i - 1, Q[i].id, Q[i].phone)
  BY DEF Ordered
<1>3. CASE i = Len(q) + 1
  <2>1. LoggedIn(q, Len(q), m.id, m.phone)
    BY <1>1, <1>2, <1>3
  <2>2. LoggedIn(Q, Len(q), m.id, m.phone)
    BY <2>1, LoggedStays
  <2>. QED  BY <1>1, <1>3, <2>2
<1>4. CASE i \in 1..Len(q)
  <2>1. LoggedIn(q, i - 1, q[i].id, q[i].phone)
    BY <1>1, <1>2, <1>4 DEF Ordered
  <2>2. i - 1 \in 0..Len(q)
    BY <1>4
  <2>3. LoggedIn(Q, i - 1, q[i].id, q[i].phone)
    BY <2>1, <2>2, LoggedStays
  <2>. QED  BY <1>1, <1>4, <2>3
<1>. QED  BY <1>1, <1>3, <1>4

(* One more log task: it never breaks the order, and logs its request.     *)
LEMMA LogPublished ==
  ASSUME TypeOK, NEW r \in Requests, phone[r] \in Phones,
         NEW q \in Seq(Messages), Ordered(q)
  PROVE  /\ Append(q, LogMessage(r)) \in Seq(Messages)
         /\ Ordered(Append(q, LogMessage(r)))
         /\ isNew[r] => LoggedIn(Append(q, LogMessage(r)), Len(q) + 1, r, phone[r])
<1>. DEFINE m == LogMessage(r)
<1>1. m \in Messages
  BY MessagesType
<1>2. m.task = "log" /\ m.id = r /\ m.phone = phone[r] /\ m.duplicate = ~isNew[r]
  BY DEF LogMessage
<1>3. Append(q, m) \in Seq(Messages) /\ Append(q, m)[Len(q) + 1] = m /\ Len(q) + 1 \in 1..(Len(q) + 1)
  BY <1>1
<1>4. Ordered(Append(q, m))
  BY <1>1, <1>2, OrderedAppend
<1>5. isNew[r] => LoggedIn(Append(q, m), Len(q) + 1, r, phone[r])
  BY <1>2, <1>3 DEF LoggedIn
<1>. QED  BY <1>3, <1>4, <1>5

(* One more save task of a request whose log task is in the queue.         *)
LEMMA SavePublished ==
  ASSUME TypeOK, NEW r \in Requests, phone[r] \in Phones,
         NEW q \in Seq(Messages), Ordered(q), LoggedIn(q, Len(q), r, phone[r])
  PROVE  /\ Append(q, SaveMessage(r)) \in Seq(Messages)
         /\ Ordered(Append(q, SaveMessage(r)))
<1>1. SaveMessage(r) \in Messages
  BY MessagesType
<1>2. SaveMessage(r).task = "save" /\ SaveMessage(r).id = r /\ SaveMessage(r).phone = phone[r]
  BY DEF SaveMessage
<1>. QED  BY <1>1, <1>2, OrderedAppend, AppendType

(* q holds everything the queue holds, in its place.                       *)
Extends(q) == \A s \in Requests, number \in Phones :
  LoggedIn(queue, Len(queue), s, number) => LoggedIn(q, Len(q), s, number)

LEMMA AppendExtends ==
  ASSUME TypeOK, NEW q \in Seq(Messages), Extends(q), NEW m \in Messages
  PROVE  Extends(Append(q, m))
<1>1. Len(Append(q, m)) = Len(q) + 1 /\ Len(q) \in 0..Len(q)
  OBVIOUS
<1>2. SUFFICES ASSUME NEW s \in Requests, NEW number \in Phones,
                      LoggedIn(queue, Len(queue), s, number)
               PROVE  LoggedIn(Append(q, m), Len(Append(q, m)), s, number)
  BY DEF Extends
<1>3. LoggedIn(q, Len(q), s, number)
  BY <1>2 DEF Extends
<1>. QED  BY <1>1, <1>3, LoggedStays

(* Steps after which the requests about to save are the same, or one that  *)
(* has just published its log task as new.                                 *)
LEMMA OrderFrame ==
  ASSUME OrderInv, TypeOK', Ordered(queue'), Extends(queue'), UNCHANGED isNew,
         \A s \in Requests : pc'[s] = "save" =>
           /\ phone'[s] = phone[s]
           /\ pc[s] = "save" \/ (isNew[s] /\ LoggedIn(queue', Len(queue'), s, phone[s]))
  PROVE  OrderInv'
<1>1. ASSUME NEW s \in Requests, pc'[s] = "save"
      PROVE  isNew[s] /\ LoggedIn(queue', Len(queue'), s, phone'[s])
  <2>1. phone'[s] = phone[s] /\ phone[s] \in Phones
    BY <1>1 DEF TypeOK, InHandler
  <2>2. CASE pc[s] = "save"
    BY <2>1, <2>2 DEF OrderInv, SavesAreLogged, Extends
  <2>. QED  BY <1>1, <2>1, <2>2
<1>2. SavesAreLogged'
  BY <1>1 DEF SavesAreLogged, LoggedIn
<1>3. Ordered(queue)'
  BY DEF Ordered, LoggedIn
<1>. QED  BY <1>2, <1>3 DEF OrderInv

LEMMA OrderStep ==
  ASSUME OrderInv, [FaultyNext]_vars
  PROVE  OrderInv'
<1>. DEFINE Logged(q, s) == LoggedIn(q, Len(q), s, phone[s])
<1>1. TypeOK /\ TypeOK' /\ queue \in Seq(Messages) /\ Ordered(queue) /\ Extends(queue)
  BY TypeStep DEF OrderInv, TypeOK, Extends
(* The steps that publish nothing. *)
<1>2. ASSUME UNCHANGED <<queue, isNew>>,
             \A s \in Requests : pc'[s] = "save" => pc[s] = "save" /\ phone'[s] = phone[s]
      PROVE  OrderInv'
  BY <1>1, <1>2, OrderFrame
<1>3. ASSUME NEW r \in Requests, NEW w \in Workers,
             Reject(r, w) \/ \E p \in Phones : Receive(r, w, p)
      PROVE  OrderInv'
  <2>1. \A s \in Requests : pc'[s] = "save" => pc[s] = "save" /\ phone'[s] = phone[s]
    BY <1>1, <1>3 DEF TypeOK, Reject, Receive
  <2>. QED  BY <1>2, <1>3, <2>1 DEF Reject, Receive
<1>4. ASSUME NEW r \in Requests, Return(r) \/ CacheAddFails(r)
      PROVE  OrderInv'
  <2>1. \A s \in Requests : pc'[s] = "save" => pc[s] = "save" /\ phone'[s] = phone[s]
    BY <1>1, <1>4 DEF TypeOK, Return, CacheAddFails, Reply
  <2>. QED  BY <1>2, <1>4, <2>1 DEF Return, CacheAddFails
<1>5. ASSUME NEW w \in Workers, WorkerKilled(w)
      PROVE  OrderInv'
  <2>1. \A s \in Requests : pc'[s] = "save" => pc[s] = "save" /\ phone'[s] = phone[s]
    BY <1>1, <1>5 DEF TypeOK, WorkerKilled
  <2>. QED  BY <1>2, <1>5, <2>1 DEF WorkerKilled
<1>6. CASE Tick \/ UNCHANGED vars
  BY <1>2, <1>6 DEF Tick, vars
(* cache.add changes isNew only of a request that is not about to save.    *)
<1>7. ASSUME NEW r \in Requests, CacheAdd(r)
      PROVE  OrderInv'
  <2>1. \A s \in Requests : pc'[s] = "save" => pc[s] = "save" /\ isNew'[s] = isNew[s]
    BY <1>1, <1>7 DEF TypeOK, CacheAdd
  <2>2. queue' = queue /\ phone' = phone
    BY <1>7 DEF CacheAdd
  <2>3. SavesAreLogged'
    BY <2>1, <2>2 DEF OrderInv, SavesAreLogged, LoggedIn
  <2>4. Ordered(queue)'
    BY <1>1, <2>2 DEF Ordered, LoggedIn
  <2>. QED  BY <1>1, <2>3, <2>4 DEF OrderInv
(* The steps that publish: what the queue becomes with one more message.   *)
<1>8. ASSUME NEW r \in Requests, pc[r] \in {"log", "save"}
      PROVE  /\ phone[r] \in Phones
             /\ LogMessage(r) \in Messages /\ SaveMessage(r) \in Messages
  BY <1>1, <1>8, MessagesType DEF TypeOK, InHandler
<1>9. ASSUME NEW r \in Requests, pc[r] = "log", NEW q \in Seq(Messages), Ordered(q), Extends(q)
      PROVE  LET Q == Append(q, LogMessage(r)) IN
             Q \in Seq(Messages) /\ Ordered(Q) /\ Extends(Q) /\ (isNew[r] => Logged(Q, r))
  <2>1. Len(Append(q, LogMessage(r))) = Len(q) + 1
    OBVIOUS
  <2>. QED  BY <1>1, <1>8, <1>9, <2>1, LogPublished, AppendExtends
<1>10. ASSUME NEW r \in Requests, pc[r] = "save", NEW q \in Seq(Messages), Ordered(q), Extends(q)
       PROVE  LET Q == Append(q, SaveMessage(r)) IN
              Q \in Seq(Messages) /\ Ordered(Q) /\ Extends(Q)
  <2>1. LoggedIn(q, Len(q), r, phone[r])
    BY <1>8, <1>10 DEF OrderInv, SavesAreLogged, Extends
  <2>. QED  BY <1>1, <1>8, <1>10, <2>1, SavePublished, AppendExtends
<1>11. ASSUME NEW r \in Requests, PublishLog(r)
       PROVE  OrderInv'
  <2>1. Ordered(queue') /\ Extends(queue') /\ (isNew[r] => Logged(queue', r))
    BY <1>1, <1>9, <1>11 DEF PublishLog
  <2>2. UNCHANGED <<phone, isNew>> /\ pc' = [pc EXCEPT ![r] = AfterLog(r)]
    BY <1>11 DEF PublishLog
  <2>3. \A s \in Requests : pc'[s] = "save" => pc[s] = "save" \/ (s = r /\ isNew[r])
    BY <1>1, <2>2 DEF TypeOK, AfterLog
  <2>. QED  BY <1>1, <2>1, <2>2, <2>3, OrderFrame
<1>12. ASSUME NEW r \in Requests, PublishSave(r)
       PROVE  OrderInv'
  <2>1. Ordered(queue') /\ Extends(queue')
    BY <1>1, <1>10, <1>12 DEF PublishSave
  <2>2. UNCHANGED <<phone, isNew>> /\ pc' = [pc EXCEPT ![r] = "return"]
    BY <1>12 DEF PublishSave
  <2>3. \A s \in Requests : pc'[s] = "save" => pc[s] = "save"
    BY <1>1, <2>2 DEF TypeOK
  <2>. QED  BY <1>1, <2>1, <2>2, <2>3, OrderFrame
<1>13. ASSUME NEW r \in Requests, PublishFails(r)
       PROVE  OrderInv'
  <2>1. Ordered(queue') /\ Extends(queue')
    BY <1>1, <1>9, <1>10, <1>13 DEF PublishFails
  <2>2. UNCHANGED <<phone, isNew>> /\ pc' = [pc EXCEPT ![r] = "error"]
    BY <1>13 DEF PublishFails, Reply
  <2>3. \A s \in Requests : pc'[s] = "save" => pc[s] = "save"
    BY <1>1, <2>2 DEF TypeOK
  <2>. QED  BY <1>1, <2>1, <2>2, <2>3, OrderFrame
<1>14. ASSUME NEW r \in Requests, PublishTwice(r)
       PROVE  OrderInv'
  <2>1. UNCHANGED <<phone, isNew>>
    BY <1>14 DEF PublishTwice
  <2>2. CASE /\ pc[r] = "log"
             /\ queue' = Append(Append(queue, LogMessage(r)), LogMessage(r))
             /\ pc' = [pc EXCEPT ![r] = AfterLog(r)]
    <3>1. Ordered(queue') /\ Extends(queue') /\ (isNew[r] => Logged(queue', r))
      BY <1>1, <1>9, <2>2
    <3>2. \A s \in Requests : pc'[s] = "save" => pc[s] = "save" \/ (s = r /\ isNew[r])
      BY <1>1, <2>2 DEF TypeOK, AfterLog
    <3>. QED  BY <1>1, <2>1, <3>1, <3>2, OrderFrame
  <2>3. CASE /\ pc[r] = "save"
             /\ queue' = Append(Append(queue, SaveMessage(r)), SaveMessage(r))
             /\ pc' = [pc EXCEPT ![r] = "return"]
    <3>1. Ordered(queue') /\ Extends(queue')
      BY <1>1, <1>10, <2>3
    <3>2. \A s \in Requests : pc'[s] = "save" => pc[s] = "save"
      BY <1>1, <2>3 DEF TypeOK
    <3>. QED  BY <1>1, <2>1, <3>1, <3>2, OrderFrame
  <2>. QED  BY <1>14, <2>2, <2>3 DEF PublishTwice
<1>. QED
  BY <1>3, <1>4, <1>5, <1>6, <1>7, <1>11, <1>12, <1>13, <1>14
  DEF FaultyNext, Next, Faults, Arrive, Handle

(* Whatever fails, a save task in the queue stands behind a log task of    *)
(* the same request that calls it new (post() publishes the log first).    *)
THEOREM SaveFollowsItsLogHolds == FaultySpec => []SaveFollowsItsLog
<1>1. Init => OrderInv
  BY TypeInit DEF Init, OrderInv, Ordered, SavesAreLogged
<1>2. OrderInv /\ [FaultyNext]_vars => OrderInv'
  BY OrderStep
<1>3. OrderInv => SaveFollowsItsLog
  BY DEF OrderInv, Ordered, LoggedIn, SaveFollowsItsLog
<1>. QED  BY <1>1, <1>2, <1>3, PTL DEF FaultySpec

-----------------------------------------------------------------------------
(* What the queue, the request log and the counters say of the replies,    *)
(* for any number of requests and processes.                               *)

(* A message is where it was, or it is the one that was published.         *)
LEMMA AppendedMessage ==
  ASSUME NEW q \in Seq(Messages), NEW m \in Messages, NEW i \in 1..Len(Append(q, m))
  PROVE  \/ i \in 1..Len(q) /\ Append(q, m)[i] = q[i]
         \/ i = Len(q) + 1 /\ Append(q, m)[i] = m
  OBVIOUS

-----------------------------------------------------------------------------
(* The request log.  LogAgreesWithReply is not inductive: it says nothing  *)
(* of a request that has logged and not yet replied.                       *)

NotLogged == {"unsent", "dedup", "log"}

(* What the log says of its request is what cache.add said, and is said    *)
(* when the request has got past it.                                       *)
LogIsTrue(m) == m.task = "log" => pc[m.id] \notin NotLogged /\ (m.duplicate <=> ~isNew[m.id])

LogsAreTrue == \A i \in 1..Len(queue) : LogIsTrue(queue[i])

LogInv == TypeOK /\ BranchesFollowIsNew /\ LogsAreTrue

(* A step keeps the log true if all it publishes is true, and if it leaves *)
(* alone what cache.add said to the requests that have logged.             *)
LEMMA LogFrame ==
  ASSUME LogInv, TypeOK',
         \A s \in Requests : pc[s] \notin NotLogged => pc'[s] \notin NotLogged /\ isNew'[s] = isNew[s],
         \A i \in 1..Len(queue') : (i \in 1..Len(queue) /\ queue'[i] = queue[i]) \/ LogIsTrue(queue[i])'
  PROVE  LogsAreTrue'
<1>. SUFFICES ASSUME NEW i \in 1..Len(queue')
              PROVE  LogIsTrue(queue[i])'
  BY DEF LogsAreTrue
<1>1. CASE i \in 1..Len(queue) /\ queue'[i] = queue[i]
  <2>1. queue \in Seq(Messages) /\ LogIsTrue(queue[i])
    BY <1>1 DEF LogInv, TypeOK, LogsAreTrue
  <2>2. queue[i].id \in Requests
    <3>1. queue[i] \in Messages
      BY <1>1, <2>1
    <3>. QED  BY <3>1 DEF Messages
  <2>. QED  BY <1>1, <2>1, <2>2 DEF LogIsTrue
<1>. QED  BY <1>1

LEMMA LogBranches ==
  ASSUME LogInv, [FaultyNext]_vars
  PROVE  BranchesFollowIsNew'
<1>1. ASSUME NEW r \in Requests, NEW w \in Workers,
             Reject(r, w) \/ \E p \in Phones : Receive(r, w, p)
      PROVE  BranchesFollowIsNew'
  BY <1>1 DEF LogInv, TypeOK, BranchesFollowIsNew, Receive, Reject
<1>2. ASSUME NEW r \in Requests, CacheAdd(r)
      PROVE  BranchesFollowIsNew'
  BY <1>2 DEF LogInv, TypeOK, BranchesFollowIsNew, CacheAdd
<1>3. ASSUME NEW r \in Requests, PublishLog(r) \/ PublishSave(r) \/ PublishTwice(r)
      PROVE  BranchesFollowIsNew'
  BY <1>3 DEF LogInv, TypeOK, BranchesFollowIsNew, PublishLog, PublishSave, PublishTwice, AfterLog
<1>4. ASSUME NEW r \in Requests, Return(r) \/ CacheAddFails(r) \/ PublishFails(r)
      PROVE  BranchesFollowIsNew'
  BY <1>4 DEF LogInv, TypeOK, BranchesFollowIsNew, Return, CacheAddFails, PublishFails, Reply
<1>5. ASSUME NEW w \in Workers, WorkerKilled(w)
      PROVE  BranchesFollowIsNew'
  BY <1>5 DEF LogInv, TypeOK, BranchesFollowIsNew, WorkerKilled
<1>6. CASE Tick \/ UNCHANGED vars
  BY <1>6 DEF LogInv, BranchesFollowIsNew, Tick, vars
<1>. QED
  BY <1>1, <1>2, <1>3, <1>4, <1>5, <1>6 DEF FaultyNext, Next, Faults, Arrive, Handle

(* The steps that publish a message or two, once the request has moved on. *)
LEMMA LogPublishing ==
  ASSUME LogInv, TypeOK', NEW r \in Requests, pc[r] \in {"log", "save"},
         NEW m \in {LogMessage(r), SaveMessage(r)},
         queue' \in {Append(queue, m), Append(Append(queue, m), m)},
         NEW next, next \notin NotLogged, pc' = [pc EXCEPT ![r] = next], UNCHANGED <<phone, isNew>>
  PROVE  LogsAreTrue'
<1>1. m \in Messages /\ queue \in Seq(Messages) /\ Append(queue, m) \in Seq(Messages)
  BY MessagesType, PublishedType DEF LogInv, TypeOK, InHandler
<1>2. m.id = r /\ (m.task = "log" => (m.duplicate <=> ~isNew[r]))
  <2>1. LogMessage(r).id = r /\ LogMessage(r).duplicate = ~isNew[r]
    BY DEF LogMessage
  <2>2. SaveMessage(r).id = r /\ SaveMessage(r).task = "save"
    BY DEF SaveMessage
  <2>. QED  BY <2>1, <2>2, Zenon
<1>3. pc'[r] \notin NotLogged
  BY DEF LogInv, TypeOK
<1>4. ASSUME NEW i \in 1..Len(queue')
      PROVE  (i \in 1..Len(queue) /\ queue'[i] = queue[i]) \/ queue'[i] = m
  <2>1. CASE queue' = Append(queue, m)
    BY <1>1, <1>4, <2>1, AppendedMessage
  <2>2. CASE queue' = Append(Append(queue, m), m)
    <3>1. \/ i \in 1..Len(Append(queue, m)) /\ queue'[i] = Append(queue, m)[i]
          \/ queue'[i] = m
      BY <1>1, <1>4, <2>2, AppendedMessage
    <3>. QED  BY <1>1, <3>1, AppendedMessage
  <2>. QED  BY <2>1, <2>2
<1>5. \A i \in 1..Len(queue') : queue'[i] = m => LogIsTrue(queue[i])'
  BY <1>2, <1>3 DEF LogIsTrue
<1>6. \A s \in Requests : pc[s] \notin NotLogged => pc'[s] \notin NotLogged /\ isNew'[s] = isNew[s]
  BY <1>3 DEF LogInv, TypeOK
<1>. QED  BY <1>4, <1>5, <1>6, LogFrame

LEMMA LogStep ==
  ASSUME LogInv, [FaultyNext]_vars
  PROVE  LogInv'
<1>1. TypeOK' /\ BranchesFollowIsNew'
  BY TypeStep, LogBranches DEF LogInv
<1>2. SUFFICES LogsAreTrue'
  BY <1>1 DEF LogInv
<1>3. ASSUME UNCHANGED queue,
             \A s \in Requests : pc[s] \notin NotLogged => pc'[s] \notin NotLogged /\ isNew'[s] = isNew[s]
      PROVE  LogsAreTrue'
  BY <1>1, <1>3, LogFrame
<1>4. ASSUME NEW r \in Requests, NEW w \in Workers,
             Reject(r, w) \/ \E p \in Phones : Receive(r, w, p)
      PROVE  LogsAreTrue'
  <2>1. \A s \in Requests : pc[s] \notin NotLogged => pc'[s] \notin NotLogged /\ isNew'[s] = isNew[s]
    BY <1>4 DEF LogInv, TypeOK, Receive, Reject, NotLogged
  <2>. QED  BY <1>3, <1>4, <2>1 DEF Receive, Reject
<1>5. ASSUME NEW r \in Requests, CacheAdd(r)
      PROVE  LogsAreTrue'
  <2>1. \A s \in Requests : pc[s] \notin NotLogged => pc'[s] \notin NotLogged /\ isNew'[s] = isNew[s]
    BY <1>5 DEF LogInv, TypeOK, CacheAdd, NotLogged
  <2>. QED  BY <1>3, <1>5, <2>1 DEF CacheAdd
<1>6. ASSUME NEW r \in Requests, Return(r) \/ CacheAddFails(r)
      PROVE  LogsAreTrue'
  <2>1. \A s \in Requests : pc[s] \notin NotLogged => pc'[s] \notin NotLogged /\ isNew'[s] = isNew[s]
    BY <1>6 DEF LogInv, TypeOK, Return, CacheAddFails, Reply, NotLogged
  <2>. QED  BY <1>3, <1>6, <2>1 DEF Return, CacheAddFails
<1>7. ASSUME NEW w \in Workers, WorkerKilled(w)
      PROVE  LogsAreTrue'
  <2>1. \A s \in Requests : pc[s] \notin NotLogged => pc'[s] \notin NotLogged /\ isNew'[s] = isNew[s]
    BY <1>7 DEF LogInv, TypeOK, WorkerKilled, NotLogged
  <2>. QED  BY <1>3, <1>7, <2>1 DEF WorkerKilled
<1>8. CASE Tick \/ UNCHANGED vars
  BY <1>3, <1>8 DEF Tick, vars
<1>9. ASSUME NEW r \in Requests, PublishLog(r)
      PROVE  LogsAreTrue'
  <2>1. AfterLog(r) \notin NotLogged
    BY DEF AfterLog, NotLogged
  <2>. QED  BY <1>1, <1>9, <2>1, LogPublishing DEF PublishLog
<1>10. ASSUME NEW r \in Requests, PublishSave(r)
       PROVE  LogsAreTrue'
  <2>1. "return" \notin NotLogged
    BY DEF NotLogged
  <2>. QED  BY <1>1, <1>10, <2>1, LogPublishing DEF PublishSave
<1>11. ASSUME NEW r \in Requests, PublishFails(r)
       PROVE  LogsAreTrue'
  <2>1. "error" \notin NotLogged
    BY DEF NotLogged
  <2>2. pc' = [pc EXCEPT ![r] = "error"] /\ UNCHANGED <<phone, isNew>>
    BY <1>11 DEF PublishFails, Reply
  <2>3. CASE UNCHANGED queue
    <3>1. \A s \in Requests : pc[s] \notin NotLogged => pc'[s] \notin NotLogged /\ isNew'[s] = isNew[s]
      BY <2>1, <2>2 DEF LogInv, TypeOK
    <3>. QED  BY <1>3, <2>3, <3>1
  <2>4. CASE pc[r] = "log" /\ queue' = Append(queue, LogMessage(r))
    BY <1>1, <2>1, <2>2, <2>4, LogPublishing
  <2>5. CASE pc[r] = "save" /\ queue' = Append(queue, SaveMessage(r))
    BY <1>1, <2>1, <2>2, <2>5, LogPublishing
  <2>. QED  BY <1>11, <2>3, <2>4, <2>5 DEF PublishFails
<1>12. ASSUME NEW r \in Requests, PublishTwice(r)
       PROVE  LogsAreTrue'
  <2>1. "return" \notin NotLogged /\ AfterLog(r) \notin NotLogged
    BY DEF AfterLog, NotLogged
  <2>2. UNCHANGED <<phone, isNew>>
    BY <1>12 DEF PublishTwice
  <2>3. CASE /\ pc[r] = "log"
             /\ queue' = Append(Append(queue, LogMessage(r)), LogMessage(r))
             /\ pc' = [pc EXCEPT ![r] = AfterLog(r)]
    BY <1>1, <2>1, <2>2, <2>3, LogPublishing
  <2>4. CASE /\ pc[r] = "save"
             /\ queue' = Append(Append(queue, SaveMessage(r)), SaveMessage(r))
             /\ pc' = [pc EXCEPT ![r] = "return"]
    BY <1>1, <2>1, <2>2, <2>4, LogPublishing
  <2>. QED  BY <1>12, <2>3, <2>4 DEF PublishTwice
<1>. QED
  BY <1>4, <1>5, <1>6, <1>7, <1>8, <1>9, <1>10, <1>11, <1>12
  DEF FaultyNext, Next, Faults, Arrive, Handle

(* Whatever fails, the request log never contradicts the reply (post()     *)
(* logs what cache.add said and decides by it).                            *)
THEOREM LogAgreesWithReplyHolds == FaultySpec => []LogAgreesWithReply
<1>1. Init => LogInv
  BY TypeInit DEF Init, LogInv, BranchesFollowIsNew, LogsAreTrue
<1>2. LogInv /\ [FaultyNext]_vars => LogInv'
  BY LogStep
<1>3. ASSUME LogInv, NEW i \in 1..Len(queue), queue[i].task = "log"
      PROVE  /\ queue[i].duplicate => pc[queue[i].id] \notin {"save", "queued"}
             /\ ~queue[i].duplicate => pc[queue[i].id] # "duplicate"
  <2>1. queue[i] \in Messages /\ LogIsTrue(queue[i])
    BY <1>3 DEF LogInv, TypeOK, LogsAreTrue
  <2>2. queue[i].id \in Requests
    BY <2>1 DEF Messages
  <2>. QED  BY <1>3, <2>1, <2>2 DEF LogInv, BranchesFollowIsNew, LogIsTrue
<1>4. LogInv => LogAgreesWithReply
  BY <1>3 DEF LogAgreesWithReply
<1>. QED  BY <1>1, <1>2, <1>4, PTL DEF FaultySpec

-----------------------------------------------------------------------------
(* The save tasks in the queue.                                            *)

Saves(q, r) == {i \in 1..Len(q) : q[i].task = "save" /\ q[i].id = r}

LEMMA SavesFinite ==
  ASSUME NEW q \in Seq(Messages), NEW r
  PROVE  IsFiniteSet(Saves(q, r))
<1>1. IsFiniteSet(1..Len(q))
  BY FS_Interval
<1>2. Saves(q, r) \in SUBSET (1..Len(q))
  BY DEF Saves
<1>. QED  BY <1>1, <1>2, FS_Subset

LEMMA SavesAppended ==
  ASSUME NEW q \in Seq(Messages), NEW m \in Messages, NEW r
  PROVE  Cardinality(Saves(Append(q, m), r)) =
           Cardinality(Saves(q, r)) + (IF m.task = "save" /\ m.id = r THEN 1 ELSE 0)
<1>. DEFINE Q == Append(q, m)
            n == Len(q) + 1
<1>1. Len(Q) = n /\ Q[n] = m /\ \A i \in 1..Len(q) : Q[i] = q[i]
  OBVIOUS
<1>2. IsFiniteSet(Saves(q, r)) /\ Cardinality(Saves(q, r)) \in Nat
  BY SavesFinite, FS_CardinalityType
<1>3. n \notin Saves(q, r)
  BY DEF Saves
<1>4. CASE m.task = "save" /\ m.id = r
  <2>1. Saves(Q, r) = Saves(q, r) \cup {n}
    BY <1>1, <1>4 DEF Saves
  <2>. QED  BY <1>2, <1>3, <1>4, <2>1, FS_AddElement
<1>5. CASE ~(m.task = "save" /\ m.id = r)
  <2>1. Saves(Q, r) = Saves(q, r)
    BY <1>1, <1>5 DEF Saves
  <2>. QED  BY <1>2, <1>5, <2>1
<1>. QED  BY <1>4, <1>5

(* Whose save task should be in the queue.                                 *)
HasSaved(r) == isNew[r] /\ pc[r] \in {"return", "queued"}

OneSaveEach == \A r \in Requests : Cardinality(Saves(queue, r)) = IF HasSaved(r) THEN 1 ELSE 0

SaveInv == TypeOK /\ BranchesFollowIsNew /\ OneSaveEach

LEMMA SaveStep ==
  ASSUME SaveInv, [Next]_vars
  PROVE  SaveInv'
<1>1. TypeOK' /\ queue \in Seq(Messages)
  BY TypeStep DEF SaveInv, TypeOK, FaultyNext
<1>2. ASSUME UNCHANGED queue, \A s \in Requests : HasSaved(s)' = HasSaved(s)
      PROVE  OneSaveEach'
  BY <1>2 DEF SaveInv, OneSaveEach
<1>3. ASSUME NEW r \in Requests, NEW w \in Workers,
             Reject(r, w) \/ \E p \in Phones : Receive(r, w, p)
      PROVE  SaveInv'
  <2>1. BranchesFollowIsNew'
    BY <1>3 DEF SaveInv, TypeOK, BranchesFollowIsNew, Receive, Reject
  <2>2. \A s \in Requests : HasSaved(s)' = HasSaved(s)
    BY <1>3 DEF SaveInv, TypeOK, HasSaved, Receive, Reject
  <2>. QED  BY <1>1, <1>2, <1>3, <2>1, <2>2 DEF SaveInv, Receive, Reject
<1>4. ASSUME NEW r \in Requests, CacheAdd(r) \/ Return(r)
      PROVE  SaveInv'
  <2>1. BranchesFollowIsNew'
    BY <1>4 DEF SaveInv, TypeOK, BranchesFollowIsNew, CacheAdd, Return, Reply
  <2>2. \A s \in Requests : HasSaved(s)' = HasSaved(s)
    BY <1>4 DEF SaveInv, TypeOK, HasSaved, CacheAdd, Return, Reply
  <2>. QED  BY <1>1, <1>2, <1>4, <2>1, <2>2 DEF SaveInv, CacheAdd, Return
<1>5. CASE Tick \/ UNCHANGED vars
  BY <1>1, <1>2, <1>5 DEF SaveInv, BranchesFollowIsNew, HasSaved, Tick, vars
<1>6. ASSUME NEW r \in Requests, PublishLog(r)
      PROVE  SaveInv'
  <2>1. LogMessage(r) \in Messages /\ LogMessage(r).task = "log"
    BY <1>6, MessagesType DEF SaveInv, TypeOK, PublishLog, InHandler, LogMessage
  <2>2. BranchesFollowIsNew'
    BY <1>6 DEF SaveInv, TypeOK, BranchesFollowIsNew, PublishLog, AfterLog
  <2>3. \A s \in Requests : HasSaved(s)' = HasSaved(s)
    BY <1>6 DEF SaveInv, TypeOK, HasSaved, PublishLog, AfterLog
  <2>4. ASSUME NEW s \in Requests
        PROVE  Cardinality(Saves(queue', s)) = IF HasSaved(s)' THEN 1 ELSE 0
    <3>1. Cardinality(Saves(queue', s)) = Cardinality(Saves(queue, s)) + 0
      BY <1>1, <1>6, <2>1, SavesAppended DEF PublishLog
    <3>. QED  BY <2>3, <3>1 DEF SaveInv, OneSaveEach
  <2>. QED  BY <1>1, <2>2, <2>4 DEF SaveInv, OneSaveEach, Saves
<1>7. ASSUME NEW r \in Requests, PublishSave(r)
      PROVE  SaveInv'
  <2>1. /\ SaveMessage(r) \in Messages
        /\ SaveMessage(r).task = "save" /\ SaveMessage(r).id = r
    BY <1>7, MessagesType DEF SaveInv, TypeOK, PublishSave, InHandler, SaveMessage
  <2>2. BranchesFollowIsNew'
    BY <1>7 DEF SaveInv, TypeOK, BranchesFollowIsNew, PublishSave
  <2>3. ~HasSaved(r) /\ HasSaved(r)' /\ \A s \in Requests \ {r} : HasSaved(s)' = HasSaved(s)
    BY <1>7 DEF SaveInv, TypeOK, BranchesFollowIsNew, HasSaved, PublishSave
  <2>4. ASSUME NEW s \in Requests
        PROVE  Cardinality(Saves(queue', s)) = IF HasSaved(s)' THEN 1 ELSE 0
    <3>1. Cardinality(Saves(queue', s)) = Cardinality(Saves(queue, s)) + (IF s = r THEN 1 ELSE 0)
      BY <1>1, <1>7, <2>1, SavesAppended DEF PublishSave
    <3>. QED  BY <2>3, <3>1 DEF SaveInv, OneSaveEach
  <2>. QED  BY <1>1, <2>2, <2>4 DEF SaveInv, OneSaveEach, Saves
<1>. QED  BY <1>3, <1>4, <1>5, <1>6, <1>7 DEF Next, Arrive, Handle

(* When nothing fails, a client told "queued" has one save task in the     *)
(* queue, and nobody else has one (post() publishes it between cache.add   *)
(* and the reply).                                                         *)
THEOREM QueuedMeansOneSaveHolds == Spec => []QueuedMeansOneSave
<1>1. ASSUME Init
      PROVE  SaveInv
  <2>1. \A r \in Requests : Saves(queue, r) = {} /\ ~HasSaved(r)
    BY <1>1 DEF Init, Saves, HasSaved
  <2>. QED  BY <1>1, <2>1, TypeInit, FS_EmptySet DEF Init, SaveInv, BranchesFollowIsNew, OneSaveEach
<1>2. SaveInv /\ [Next]_vars => SaveInv'
  BY SaveStep
<1>3. SaveInv => QueuedMeansOneSave
  BY DEF SaveInv, OneSaveEach, HasSaved, Saves, QueuedMeansOneSave
<1>. QED  BY <1>1, <1>2, <1>3, PTL DEF Spec

-----------------------------------------------------------------------------
(* The counters.  A step answers one request or none.                      *)

AnsweredBy(w, outcomes) == {r \in Requests : worker[r] = w /\ pc[r] \in outcomes}

CounterInv == TypeOK /\ AnswersAreTimed

LEMMA NobodyAnswered ==
  ASSUME \A s \in Requests : (pc'[s] = pc[s] /\ worker'[s] = worker[s])
                               \/ (pc[s] \notin Replies /\ pc'[s] \notin Replies),
         NEW w, NEW outcomes \in SUBSET Replies
  PROVE  Answered(w, outcomes)' = Answered(w, outcomes)
<1>1. AnsweredBy(w, outcomes)' = AnsweredBy(w, outcomes)
  BY DEF AnsweredBy
<1>. QED  BY <1>1 DEF Answered, AnsweredBy

LEMMA ReplyCounted ==
  ASSUME IsFiniteSet(Requests), CounterInv, NEW r \in Requests, NEW v \in Workers,
         NEW outcome \in Replies, pc[r] \notin Replies, pc' = [pc EXCEPT ![r] = outcome],
         worker' = [worker EXCEPT ![r] = v], CountReply(v, outcome)
  PROVE  AnswersAreTimed'
<1>. SUFFICES ASSUME NEW w \in Workers
              PROVE  /\ metrics'[w].latency = Answered(w, Replies)'
                     /\ metrics'[w].error = Answered(w, {"error"})'
  BY DEF AnswersAreTimed
<1>1. TypeOK /\ metrics[w] \in Counters
  BY DEF CounterInv, TypeOK
<1>2. metrics'[w] = IF w = v
                    THEN [success |-> metrics[w].success + (IF outcome = "queued" THEN 1 ELSE 0),
                          error   |-> metrics[w].error + (IF outcome = "error" THEN 1 ELSE 0),
                          latency |-> metrics[w].latency + 1]
                    ELSE metrics[w]
  BY <1>1 DEF CountReply, TypeOK
<1>3. /\ metrics[w].latency = Answered(w, Replies)
      /\ metrics[w].error = Answered(w, {"error"})
  BY DEF CounterInv, AnswersAreTimed
<1>4. {"error"} \in SUBSET Replies /\ Replies \in SUBSET Replies
  BY DEF Replies
<1>5. ASSUME NEW outcomes \in SUBSET Replies
      PROVE  /\ Answered(w, outcomes) \in Nat
             /\ Answered(w, outcomes)' =
                  Answered(w, outcomes) + (IF w = v /\ outcome \in outcomes THEN 1 ELSE 0)
  <2>. DEFINE A == AnsweredBy(w, outcomes)
  <2>1. IsFiniteSet(A) /\ Cardinality(A) \in Nat /\ r \notin A
    BY FS_Subset, FS_CardinalityType DEF AnsweredBy
  <2>2. pc'[r] = outcome /\ worker'[r] = v
    BY <1>1 DEF TypeOK
  <2>3. \A s \in Requests \ {r} : pc'[s] = pc[s] /\ worker'[s] = worker[s]
    BY <1>1 DEF TypeOK
  <2>4. Answered(w, outcomes) = Cardinality(A) /\ Answered(w, outcomes)' = Cardinality(A')
    BY DEF Answered, AnsweredBy
  <2>. HIDE DEF A
  <2>5. CASE w = v /\ outcome \in outcomes
    <3>1. A' = A \cup {r}
      BY <2>2, <2>3, <2>5 DEF A, AnsweredBy
    <3>. QED  BY <2>1, <2>4, <2>5, <3>1, FS_AddElement
  <2>6. CASE ~(w = v /\ outcome \in outcomes)
    <3>1. A' = A
      BY <2>1, <2>2, <2>3, <2>6 DEF A, AnsweredBy
    <3>. QED  BY <2>1, <2>4, <2>6, <3>1
  <2>. QED  BY <2>5, <2>6
<1>6. Answered(w, Replies)' = Answered(w, Replies) + (IF w = v THEN 1 ELSE 0)
  BY <1>4, <1>5
<1>7. Answered(w, {"error"})' =
        Answered(w, {"error"}) + (IF w = v /\ outcome = "error" THEN 1 ELSE 0)
  BY <1>4, <1>5
<1>. QED  BY <1>1, <1>2, <1>3, <1>6, <1>7 DEF Counters

LEMMA CounterStep ==
  ASSUME IsFiniteSet(Requests), CounterInv, [Next]_vars
  PROVE  CounterInv'
<1>1. TypeOK'
  BY TypeStep DEF CounterInv, FaultyNext
<1>2. SUFFICES AnswersAreTimed'
  BY <1>1 DEF CounterInv
<1>3. ASSUME UNCHANGED metrics,
             \A s \in Requests : (pc'[s] = pc[s] /\ worker'[s] = worker[s])
                                   \/ (pc[s] \notin Replies /\ pc'[s] \notin Replies)
      PROVE  AnswersAreTimed'
  <2>1. \A w \in Workers, outcomes \in SUBSET Replies : Answered(w, outcomes)' = Answered(w, outcomes)
    BY <1>3, NobodyAnswered
  <2>2. {"error"} \in SUBSET Replies /\ Replies \in SUBSET Replies
    BY DEF Replies
  <2>3. \A w \in Workers : /\ Answered(w, Replies)' = Answered(w, Replies)
                           /\ Answered(w, {"error"})' = Answered(w, {"error"})
    BY <2>1, <2>2
  <2>. QED  BY <1>3, <2>3 DEF CounterInv, AnswersAreTimed
<1>4. ASSUME NEW r \in Requests, NEW w \in Workers, NEW p \in Phones, Receive(r, w, p)
      PROVE  AnswersAreTimed'
  <2>1. \A s \in Requests : (pc'[s] = pc[s] /\ worker'[s] = worker[s])
                              \/ (pc[s] \notin Replies /\ pc'[s] \notin Replies)
    BY <1>4 DEF CounterInv, TypeOK, Receive, Replies
  <2>. QED  BY <1>3, <1>4, <2>1 DEF Receive
<1>5. ASSUME NEW r \in Requests, NEW w \in Workers, Reject(r, w)
      PROVE  AnswersAreTimed'
  <2>1. "error" \in Replies /\ pc[r] \notin Replies
    BY <1>5 DEF Reject, Replies
  <2>. QED  BY <1>5, <2>1, ReplyCounted DEF Reject
<1>6. ASSUME NEW r \in Requests, CacheAdd(r) \/ PublishLog(r) \/ PublishSave(r)
      PROVE  AnswersAreTimed'
  <2>1. \A s \in Requests : (pc'[s] = pc[s] /\ worker'[s] = worker[s])
                              \/ (pc[s] \notin Replies /\ pc'[s] \notin Replies)
    BY <1>6 DEF CounterInv, TypeOK, CacheAdd, PublishLog, PublishSave, AfterLog, Replies
  <2>. QED  BY <1>3, <1>6, <2>1 DEF CacheAdd, PublishLog, PublishSave
<1>7. ASSUME NEW r \in Requests, Return(r)
      PROVE  AnswersAreTimed'
  <2>1. pc[r] \notin Replies /\ worker[r] \in Workers /\ worker' = [worker EXCEPT ![r] = worker[r]]
    BY <1>7 DEF CounterInv, TypeOK, Return, Replies, InHandler
  <2>2. "queued" \in Replies /\ "duplicate" \in Replies
    BY DEF Replies
  <2>. QED  BY <1>7, <2>1, <2>2, ReplyCounted DEF Return, Reply
<1>8. CASE Tick \/ UNCHANGED vars
  BY <1>3, <1>8 DEF Tick, vars
<1>. QED  BY <1>4, <1>5, <1>6, <1>7, <1>8 DEF Next, Arrive, Handle

(* As long as no process is killed its latencies and errors account for    *)
(* each of its replies, refused numbers and duplicates among them (post(), *)
(* the except and finally clauses).                                        *)
THEOREM AnswersAreTimedHolds ==
  ASSUME IsFiniteSet(Requests)
  PROVE  Spec => []AnswersAreTimed
<1>1. ASSUME Init
      PROVE  CounterInv
  <2>1. \A w \in Workers, outcomes \in SUBSET Replies : AnsweredBy(w, outcomes) = {}
    BY <1>1 DEF Init, AnsweredBy, Replies
  <2>2. {"error"} \in SUBSET Replies /\ Replies \in SUBSET Replies
    BY DEF Replies
  <2>3. \A w \in Workers : /\ Answered(w, Replies) = 0
                           /\ Answered(w, {"error"}) = 0
    BY <2>1, <2>2, FS_EmptySet DEF Answered, AnsweredBy
  <2>. QED  BY <1>1, <2>3, TypeInit DEF Init, CounterInv, AnswersAreTimed, Zero
<1>2. CounterInv /\ [Next]_vars => CounterInv'
  BY CounterStep
<1>3. CounterInv => AnswersAreTimed
  BY DEF CounterInv
<1>. QED  BY <1>1, <1>2, <1>3, PTL DEF Spec
=============================================================================
