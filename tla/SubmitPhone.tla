------------------------------ MODULE SubmitPhone ------------------------------
(***************************************************************************)
(* The submission endpoint POST /api/submit (SubmitPhoneView.post) as the  *)
(* gunicorn worker processes run it: each process serves one request at a  *)
(* time, and the processes share the dedup cache and the Celery queue.     *)
(*                                                                         *)
(* A request is the series of steps at which post() touches state that     *)
(* others see: cache.add, the publication of the log task, the publication *)
(* of the save task.  What happens in between (serializer, metrics, the    *)
(* response) is local to the process and belongs to the neighbouring step. *)
(***************************************************************************)
EXTENDS Naturals, Sequences, FiniteSets

CONSTANTS
  Requests,   \* the POST requests clients send, one element per request
  Phones,     \* the phone numbers that pass SubmitPhoneSerializer
  Workers,    \* the gunicorn worker processes
  None,       \* no phone, no process
  Window,     \* timeout of a dedup key (24 * 3600 s), in ticks of the clock
  MaxTime,    \* bound of the clock
  LocMem      \* TRUE: CACHE_BACKEND unset, so each process has its own cache

ASSUME SubmitAssumption ==
  /\ None \notin Phones /\ None \notin Workers
  /\ Window \in Nat \ {0}
  /\ MaxTime \in Nat
  /\ LocMem \in BOOLEAN

(* Every process reaches the one Redis cache, or only its own LocMemCache. *)
Caches     == IF LocMem THEN Workers ELSE {"redis"}
CacheOf(w) == IF LocMem THEN w ELSE "redis"

VARIABLES
  now,      \* the clock dedup keys expire by
  store,    \* store[c][p]: when the key dedup:phone:p of cache c expires
  pc,       \* pc[r]: the step of post() request r is at, or its outcome
  phone,    \* phone[r]: the validated number of r
  worker,   \* worker[r]: the process that serves r
  isNew,    \* isNew[r]: is_new_submission, what cache.add returned
  addedAt,  \* addedAt[r]: when r called cache.add
  metrics,  \* metrics[w]: the Prometheus counters in the memory of process w
  queue     \* the Celery queue, oldest message first

vars == <<now, store, pc, phone, worker, isNew, addedAt, metrics, queue>>

(* The steps of post() still to run, and the ways a request can end.  A    *)
(* "dropped" request never gets a response from Django.                    *)
InHandler == {"dedup", "log", "save", "return"}
Replies   == {"queued", "duplicate", "error"}
Outcomes  == Replies \cup {"dropped"}

(* The two tasks post() hands to Celery; id stands for the request.        *)
Messages == [task : {"save"}, id : Requests, phone : Phones]
              \cup [task : {"log"}, id : Requests, phone : Phones, duplicate : BOOLEAN]

SaveMessage(r) == [task |-> "save", id |-> r, phone |-> phone[r]]
(* Mutant of LogMessage: the flag is not negated.                          *)
LogMessageFlagged(r) == [task |-> "log", id |-> r, phone |-> phone[r], duplicate |-> isNew[r]]

LogMessage(r)  == [task |-> "log", id |-> r, phone |-> phone[r], duplicate |-> ~isNew[r]]

Counters == [success : Nat, error : Nat, latency : Nat]
Zero     == [success |-> 0, error |-> 0, latency |-> 0]

TypeOK ==
  /\ now \in 0..MaxTime
  /\ store \in [Caches -> [Phones -> Nat]]
  /\ pc \in [Requests -> {"unsent"} \cup InHandler \cup Outcomes]
  /\ phone \in [Requests -> Phones \cup {None}]
  /\ worker \in [Requests -> Workers \cup {None}]
  /\ isNew \in [Requests -> BOOLEAN]
  /\ addedAt \in [Requests -> Nat]
  /\ metrics \in [Workers -> Counters]
  /\ queue \in Seq(Messages)
  /\ \A r \in Requests :
        pc[r] \in InHandler => phone[r] \in Phones /\ worker[r] \in Workers

Init ==
  /\ now = 0
  /\ store = [c \in Caches |-> [p \in Phones |-> 0]]
  /\ pc = [r \in Requests |-> "unsent"]
  /\ phone = [r \in Requests |-> None]
  /\ worker = [r \in Requests |-> None]
  /\ isNew = [r \in Requests |-> FALSE]
  /\ addedAt = [r \in Requests |-> 0]
  /\ metrics = [w \in Workers |-> Zero]
  /\ queue = <<>>

-----------------------------------------------------------------------------
(* Parts of post() that several steps share.                               *)

Idle(w) == \A r \in Requests : worker[r] = w => pc[r] \notin InHandler

(* Mutant of KeyAbsent: keys expire one tick early.                        *)
KeyAbsentEarly(c, p) == store[c][p] <= now + 1

(* The key is missing, or its timeout has passed.                          *)
KeyAbsent(c, p) == store[c][p] <= now

(* Mutant of CountReply: the latency is observed without the finally.      *)
CountReplyNoFinally(w, outcome) ==
  metrics' = [metrics EXCEPT ![w] =
    [success |-> @.success + (IF outcome = "queued" THEN 1 ELSE 0),
     error   |-> @.error + (IF outcome = "error" THEN 1 ELSE 0),
     latency |-> @.latency + (IF outcome = "error" THEN 0 ELSE 1)]]

(* finally: endpoint_latency.observe.  The two returns and the except      *)
(* branch differ in the counter they increment before it.                  *)
CountReply(w, outcome) ==
  metrics' = [metrics EXCEPT ![w] =
    [success |-> @.success + (IF outcome = "queued" THEN 1 ELSE 0),
     error   |-> @.error + (IF outcome = "error" THEN 1 ELSE 0),
     latency |-> @.latency + 1]]

Reply(r, outcome) ==
  /\ pc' = [pc EXCEPT ![r] = outcome]
  /\ CountReply(worker[r], outcome)

-----------------------------------------------------------------------------
(* The steps of post() when Redis answers.                                 *)

(* Mutant of Receive: is_valid without raise_exception, so a refused body  *)
(* goes on without a validated phone.                                      *)
ReceiveUnvalidated(r, w, p) ==
  /\ pc[r] = "unsent"
  /\ Idle(w)
  /\ pc' = [pc EXCEPT ![r] = "dedup"]
  /\ worker' = [worker EXCEPT ![r] = w]
  /\ UNCHANGED <<now, store, phone, isNew, addedAt, metrics, queue>>

(* A free process takes the request and the serializer accepts the phone.  *)
Receive(r, w, p) ==
  /\ pc[r] = "unsent"
  /\ Idle(w)
  /\ pc' = [pc EXCEPT ![r] = "dedup"]
  /\ phone' = [phone EXCEPT ![r] = p]
  /\ worker' = [worker EXCEPT ![r] = w]
  /\ UNCHANGED <<now, store, isNew, addedAt, metrics, queue>>

(* The body cannot be parsed or the serializer refuses it: is_valid raises *)
(* inside the try, and the except branch answers 500 for it too.           *)
Reject(r, w) ==
  /\ pc[r] = "unsent"
  /\ Idle(w)
  /\ pc' = [pc EXCEPT ![r] = "error"]
  /\ worker' = [worker EXCEPT ![r] = w]
  /\ CountReply(w, "error")
  /\ UNCHANGED <<now, store, phone, isNew, addedAt, queue>>

(* Mutant of CacheAdd: get_or_set followed by touch, so each duplicate      *)
(* extends the window.                                                     *)
CacheAddTouch(r) ==
  LET c == CacheOf(worker[r])
      p == phone[r]
  IN
  /\ pc[r] = "dedup"
  /\ isNew' = [isNew EXCEPT ![r] = KeyAbsent(c, p)]
  /\ addedAt' = [addedAt EXCEPT ![r] = now]
  /\ store' = [store EXCEPT ![c][p] = now + Window]
  /\ pc' = [pc EXCEPT ![r] = "log"]
  /\ UNCHANGED <<now, phone, worker, metrics, queue>>

(* cache.add(dedup_key, "1", timeout=24 * 3600), atomic in the cache.      *)
CacheAdd(r) ==
  LET c == CacheOf(worker[r])
      p == phone[r]
  IN
  /\ pc[r] = "dedup"
  /\ isNew' = [isNew EXCEPT ![r] = KeyAbsent(c, p)]
  /\ addedAt' = [addedAt EXCEPT ![r] = now]
  /\ store' = IF KeyAbsent(c, p) THEN [store EXCEPT ![c][p] = now + Window] ELSE store
  /\ pc' = [pc EXCEPT ![r] = "log"]
  /\ UNCHANGED <<now, phone, worker, metrics, queue>>

(* Mutants of AfterLog: the early return for duplicates is missing, or is   *)
(* taken by everyone.                                                      *)
AfterLogAlwaysSave(r)   == "save"
AfterLogAlwaysReturn(r) == "return"

(* Once the log task is published, a duplicate skips the save task.        *)
AfterLog(r) == IF isNew[r] THEN "save" ELSE "return"

(* log_request_in_mongo_task.delay({...}).                                 *)
PublishLog(r) ==
  /\ pc[r] = "log"
  /\ queue' = Append(queue, LogMessage(r))
  /\ pc' = [pc EXCEPT ![r] = AfterLog(r)]
  /\ UNCHANGED <<now, store, phone, worker, isNew, addedAt, metrics>>

(* save_phone_in_sql_task.delay(phone=phone).                              *)
PublishSave(r) ==
  /\ pc[r] = "save"
  /\ queue' = Append(queue, SaveMessage(r))
  /\ pc' = [pc EXCEPT ![r] = "return"]
  /\ UNCHANGED <<now, store, phone, worker, isNew, addedAt, metrics>>

(* One of the two 200 responses; a duplicate has no counter of its own.    *)
Return(r) ==
  /\ pc[r] = "return"
  /\ Reply(r, IF isNew[r] THEN "queued" ELSE "duplicate")
  /\ UNCHANGED <<now, store, phone, worker, isNew, addedAt, queue>>

Tick ==
  /\ now < MaxTime
  /\ now' = now + 1
  /\ UNCHANGED <<store, pc, phone, worker, isNew, addedAt, metrics, queue>>

Handle(r) == CacheAdd(r) \/ PublishLog(r) \/ PublishSave(r) \/ Return(r)

Arrive(r) == \E w \in Workers : Reject(r, w) \/ \E p \in Phones : Receive(r, w, p)

-----------------------------------------------------------------------------
(* What can go wrong between the process, the cache and the broker.        *)

(* cache.add raises: Redis is unreachable, or it stored the key and the    *)
(* answer was lost.                                                        *)
CacheAddFails(r) ==
  LET c == CacheOf(worker[r])
      p == phone[r]
  IN
  /\ pc[r] = "dedup"
  /\ \/ UNCHANGED store
     \/ KeyAbsent(c, p) /\ store' = [store EXCEPT ![c][p] = now + Window]
  /\ Reply(r, "error")
  /\ UNCHANGED <<now, phone, worker, isNew, addedAt, queue>>

(* Mutants of PublishFails: the except branch deletes the dedup key again,  *)
(* or a failed log task is ignored.                                        *)
PublishFailsFreesKey(r) ==
  /\ pc[r] \in {"log", "save"}
  /\ store' = [store EXCEPT ![CacheOf(worker[r])][phone[r]] = 0]
  /\ Reply(r, "error")
  /\ UNCHANGED <<now, phone, worker, isNew, addedAt, queue>>

PublishFailsIgnored(r) ==
  /\ pc[r] = "log"
  /\ pc' = [pc EXCEPT ![r] = AfterLog(r)]
  /\ UNCHANGED <<now, store, phone, worker, isNew, addedAt, metrics, queue>>

(* A delay() raises: the broker is unreachable, or it took the message and *)
(* the answer was lost.                                                    *)
PublishFails(r) ==
  /\ \/ pc[r] \in {"log", "save"} /\ UNCHANGED queue
     \/ pc[r] = "log"  /\ queue' = Append(queue, LogMessage(r))
     \/ pc[r] = "save" /\ queue' = Append(queue, SaveMessage(r))
  /\ Reply(r, "error")
  /\ UNCHANGED <<now, store, phone, worker, isNew, addedAt>>

(* Celery publishes again after a lost answer (its default retry policy):  *)
(* delay() returns normally and the message is in the queue twice.         *)
PublishTwice(r) ==
  /\ \/ /\ pc[r] = "log"
        /\ queue' = Append(Append(queue, LogMessage(r)), LogMessage(r))
        /\ pc' = [pc EXCEPT ![r] = AfterLog(r)]
     \/ /\ pc[r] = "save"
        /\ queue' = Append(Append(queue, SaveMessage(r)), SaveMessage(r))
        /\ pc' = [pc EXCEPT ![r] = "return"]
  /\ UNCHANGED <<now, store, phone, worker, isNew, addedAt, metrics>>

(* gunicorn's master kills a silent process, or the container stops, and   *)
(* a fresh process takes its place: the request gets no response, counters *)
(* and a process-local cache start again from nothing.                     *)
WorkerKilled(w) ==
  /\ pc' = [r \in Requests |->
              IF worker[r] = w /\ pc[r] \in InHandler THEN "dropped" ELSE pc[r]]
  /\ metrics' = [metrics EXCEPT ![w] = Zero]
  /\ store' = IF LocMem THEN [store EXCEPT ![w] = [p \in Phones |-> 0]] ELSE store
  /\ UNCHANGED <<now, phone, worker, isNew, addedAt, queue>>

-----------------------------------------------------------------------------
Next ==
  \/ \E r \in Requests : Arrive(r) \/ Handle(r)
  \/ Tick

Faults ==
  \/ \E r \in Requests : CacheAddFails(r) \/ PublishFails(r) \/ PublishTwice(r)
  \/ \E w \in Workers : WorkerKilled(w)

FaultyNext == Next \/ Faults

Spec       == Init /\ [][Next]_vars
FaultySpec == Init /\ [][FaultyNext]_vars

(* Only delay() raises; the cache and the processes do as they should.     *)
PublishFaultySpec == Init /\ [][Next \/ \E r \in Requests : PublishFails(r)]_vars

-----------------------------------------------------------------------------
(* Two requests whose cache.add said "new" for the same number are at      *)
(* least the 24-hour window apart, whatever the interleaving of the        *)
(* processes, and whichever calls fail (cache.add, post()).                *)
DedupWindow ==
  \A r, s \in Requests :
    (r # s /\ isNew[r] /\ isNew[s] /\ phone[r] = phone[s])
      => (addedAt[r] + Window <= addedAt[s] \/ addedAt[s] + Window <= addedAt[r])

(* A client told "duplicate" can rely on an earlier submission of the same *)
(* number, made less than a window before its own, whose save task is      *)
(* queued or about to be queued by a request still in post().              *)
DuplicateMeansQueued ==
  \A r \in Requests : pc[r] = "duplicate" =>
    \E s \in Requests :
      /\ isNew[s] /\ phone[s] = phone[r]
      /\ addedAt[s] <= addedAt[r] /\ addedAt[r] < addedAt[s] + Window
      /\ pc[s] \in {"log", "save", "return", "queued"}

(* A client told "queued" has its save task in the queue, and no request   *)
(* has it there twice, or at all before cache.add called it new.           *)
QueuedMeansOneSave ==
  \A r \in Requests :
    LET copies == {i \in 1..Len(queue) : queue[i].task = "save" /\ queue[i].id = r}
    IN  Cardinality(copies) = IF isNew[r] /\ pc[r] \in {"return", "queued"} THEN 1 ELSE 0

(* A save task never overtakes the audit trail: before it in the queue is  *)
(* the log task of the same request, and that says duplicate = False.      *)
SaveFollowsItsLog ==
  \A i \in 1..Len(queue) : queue[i].task = "save" =>
    \E j \in 1..(i - 1) :
      /\ queue[j].task = "log" /\ queue[j].id = queue[i].id
      /\ queue[j].phone = queue[i].phone /\ ~queue[j].duplicate

(* The request log never contradicts the reply: a submission logged as a   *)
(* duplicate is not queued, one logged as new is not answered "duplicate". *)
LogAgreesWithReply ==
  \A i \in 1..Len(queue) : queue[i].task = "log" =>
    /\ queue[i].duplicate => pc[queue[i].id] \notin {"save", "queued"}
    /\ ~queue[i].duplicate => pc[queue[i].id] # "duplicate"

(* The finally clause observes the latency of every response once, and the *)
(* errors that are counted are the 500s, on whichever of the paths through *)
(* post() a request leaves it.  The counter is no such total: a duplicate  *)
(* has no status in it, although metrics.py:6 calls it the "Total number   *)
(* of requests".                                                           *)
Answered(w, outcomes) == Cardinality({r \in Requests : worker[r] = w /\ pc[r] \in outcomes})

AnswersAreTimed ==
  \A w \in Workers :
    /\ metrics[w].latency = Answered(w, Replies)
    /\ metrics[w].error = Answered(w, {"error"})
=============================================================================
