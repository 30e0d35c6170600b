---------------------------- MODULE StartupProofs ----------------------------
(***************************************************************************)
(* Startup, for any limit of the waits and any number of tasks: the state  *)
(* keeps its type, the site is never served without its tables and static  *)
(* files, a script ends early only for a reason, and while no service goes *)
(* down every save task finds its database.                                *)
(***************************************************************************)
EXTENDS Startup, TLAPS

-----------------------------------------------------------------------------
(* The scripts, command by command.                                        *)
LEMMA ScriptFacts ==
  /\ Containers = {"web", "worker"}
  /\ DOMAIN Script["web"] = 1..9 /\ DOMAIN Script["worker"] = 1..2
  /\ Script["web"][1] = "redis" /\ Script["web"][2] = "db"
  /\ Script["web"][3] = "mongo" /\ Script["web"][4] = "minio"
  /\ Script["web"][5] = "makemigrations" /\ Script["web"][6] = "migrate"
  /\ Script["web"][7] = "collectstatic" /\ Script["web"][8] = "setup_minio"
  /\ Script["web"][9] = "serve"
  /\ Script["worker"][1] = "redis" /\ Script["worker"][2] = "serve"
BY DEF Containers, Script

(* Serving is the last command of both scripts, migrating the sixth of the *)
(* web service, waiting for the database its second.                       *)
LEMMA Commands ==
  ASSUME NEW c \in Containers, NEW k \in DOMAIN Script[c]
  PROVE  /\ k \in Nat \ {0}
         /\ Script[c][k] # "serve" => k + 1 \in DOMAIN Script[c]
         /\ Script[c][k] = "migrate" <=> c = "web" /\ k = 6
         /\ Script[c][k] = "collectstatic" <=> c = "web" /\ k = 7
         /\ Script[c][k] = "db" <=> c = "web" /\ k = 2
         /\ c = "web" /\ Script[c][k] = "serve" => k = 9
<1>1. CASE c = "web"
  <2>1. k \in 1..9
    BY <1>1, ScriptFacts
  <2>2. \/ k = 1 \/ k = 2 \/ k = 3 \/ k = 4 \/ k = 5 \/ k = 6 \/ k = 7 \/ k = 8 \/ k = 9
    BY <2>1
  <2> QED
    BY <1>1, <2>2, ScriptFacts
<1>2. CASE c = "worker"
  <2>1. k = 1 \/ k = 2
    BY <1>2, ScriptFacts
  <2> QED
    BY <1>2, <2>1, ScriptFacts
<1> QED
  BY <1>1, <1>2, ScriptFacts

(* A web service past its migration has migrated, and tasks in the queue   *)
(* come from one that has: an earlier one, or this one, which then serves. *)
(* A script that is still running has not counted past the limit, and what *)
(* it has counted is how often its service was missing.                    *)
Progress ==
  /\ step \in [Containers -> Nat]
  /\ step["web"] > 6 => migrated
  /\ step["web"] > 7 => collected
  /\ queued > 0 => migrated
  /\ \A c \in Containers : missed[c] = count[c] /\ (exited[c] \/ count[c] <= Limit)

TypeInv == TypeOK /\ Progress

LEMMA TypeInvInductive ==
  ASSUME TypeInv, [Next]_vars
  PROVE  TypeInv'
<1> USE DEF TypeInv, Progress
<1>1. ASSUME NEW c \in Containers, Run(c)
      PROVE  TypeInv'
  <2>1. step[c] \in DOMAIN Script[c] /\ Limit \in Nat /\ "web" \in Containers
    BY StartupAssumption, ScriptFacts DEF TypeOK
  <2>2. CASE ServiceFound(c)
    <3>1. Script[c][step[c]] \in Services
      BY <2>2 DEF ServiceFound, At, Command
    <3>2. /\ step[c] + 1 \in DOMAIN Script[c]
          /\ ~(c = "web" /\ step[c] \in {6, 7})
      BY <2>1, <3>1, Commands DEF Services
    <3> QED
      BY <2>1, <2>2, <3>2 DEF ServiceFound, GoOn, TypeOK, database
  <2>3. CASE WaitSecond(c)
    <3>1. ~exited[c] /\ count[c] \in 0..Limit /\ missed[c] = count[c]
      BY <2>1, <2>3 DEF WaitSecond, At, TypeOK
    <3>2. /\ count' = [count EXCEPT ![c] = @ + 1] /\ missed' = [missed EXCEPT ![c] = @ + 1]
          /\ UNCHANGED <<ready, collected, migrated, queued, new, failed, outage, step>>
      <4>1. OneMore(missed[c]) = missed[c] + 1
        BY <2>1, <3>1 DEF OneMore, MaxMissed
      <4> QED
        BY <2>3, <4>1 DEF WaitSecond, Exit, database
    <3>3. /\ count'[c] = count[c] + 1 /\ missed'[c] = count[c] + 1
          /\ \A d \in Containers \ {c} : count'[d] = count[d] /\ missed'[d] = missed[d]
          /\ count' \in [Containers -> 0..(Limit + 1)] /\ missed' \in [Containers -> Nat]
      BY <2>1, <3>1, <3>2 DEF TypeOK
    <3>4. CASE count'[c] > Limit
      <4>1. exited' = [exited EXCEPT ![c] = TRUE]
        BY <2>3, <3>4 DEF WaitSecond, Exit
      <4>2. exited' \in [Containers -> BOOLEAN] /\ exited'[c]
            /\ \A d \in Containers \ {c} : exited'[d] = exited[d]
        BY <4>1 DEF TypeOK
      <4> QED
        BY <3>2, <3>3, <4>2 DEF TypeOK
    <3>5. CASE ~(count'[c] > Limit)
      <4>1. exited' = exited /\ count'[c] <= Limit
        BY <2>1, <2>3, <3>1, <3>3, <3>5 DEF WaitSecond
      <4> QED
        BY <3>2, <3>3, <4>1 DEF TypeOK
    <3> QED
      BY <3>4, <3>5
  <2>4. CASE Continue(c)
    <3>1. Script[c][step[c]] \in {"makemigrations", "setup_minio"}
      BY <2>4 DEF Continue, At, Command
    <3>2. /\ step[c] + 1 \in DOMAIN Script[c]
          /\ ~(c = "web" /\ step[c] \in {6, 7})
      BY <2>1, <3>1, Commands
    <3> QED
      BY <2>1, <2>4, <3>2 DEF Continue, GoOn, TypeOK, database
  <2>5. CASE Migrate(c)
    <3>1. Script[c][step[c]] = "migrate"
      BY <2>5 DEF Migrate, At, Command
    <3>2. step[c] + 1 \in DOMAIN Script[c] /\ step[c] # 7
      BY <2>1, <3>1, Commands
    <3>3. CASE ready["db"] /\ migrated' = TRUE /\ GoOn(c)
      BY <2>1, <2>5, <3>2, <3>3 DEF Migrate, GoOn, TypeOK
    <3>4. CASE ~ready["db"] /\ Exit(c) /\ UNCHANGED migrated
      BY <2>1, <2>5, <3>4 DEF Migrate, Exit, TypeOK
    <3> QED
      BY <2>5, <3>3, <3>4 DEF Migrate
  <2>6. CASE CollectStatic(c)
    <3>1. Script[c][step[c]] = "collectstatic"
      BY <2>6 DEF CollectStatic, At, Command
    <3>2. step[c] + 1 \in DOMAIN Script[c] /\ step[c] # 6
      BY <2>1, <3>1, Commands
    <3>3. CASE collected' = TRUE /\ GoOn(c)
      BY <2>1, <2>6, <3>2, <3>3 DEF CollectStatic, GoOn, TypeOK, database
    <3>4. CASE Exit(c) /\ UNCHANGED collected
      BY <2>1, <2>6, <3>4 DEF CollectStatic, Exit, TypeOK, database
    <3> QED
      BY <2>6, <3>3, <3>4 DEF CollectStatic
  <2> QED
    BY <1>1, <2>2, <2>3, <2>4, <2>5, <2>6 DEF Run
<1>2. ASSUME NEW s \in Services, ServiceUp(s) \/ ServiceDown(s)
      PROVE  TypeInv'
  BY <1>2 DEF ServiceUp, ServiceDown, TypeOK, database
<1>3. CASE Submit
  <2>1. "web" \in Containers /\ step["web"] = 9
    BY <1>3, ScriptFacts, Commands DEF Submit, Serving, At, Command, TypeOK
  <2> QED
    BY <1>3, <2>1, StartupAssumption DEF Submit, TypeOK
<1>4. CASE RunSave
  BY <1>4 DEF RunSave, TypeOK
<1>5. CASE UNCHANGED vars
  BY <1>5 DEF vars, TypeOK
<1> QED
  BY <1>1, <1>2, <1>3, <1>4, <1>5 DEF Next

LEMMA TypeInvariant == Spec => []TypeInv
<1>1. Init => TypeInv
  <2> SUFFICES ASSUME Init PROVE TypeInv
    OBVIOUS
  <2>1. \A c \in Containers : 1 \in DOMAIN Script[c]
    BY ScriptFacts
  <2>2. queued \in Nat /\ (queued > 0 => migrated) /\ failed \in Nat /\ new \in 0..NewSaves
    BY StartupAssumption DEF Init
  <2>3. step \in [Containers -> Nat] /\ ~(step["web"] > 6) /\ ~(step["web"] > 7)
    BY ScriptFacts DEF Init
  <2>4. /\ count \in [Containers -> 0..(Limit + 1)] /\ missed \in [Containers -> Nat]
        /\ \A c \in Containers : missed[c] = count[c] /\ count[c] <= Limit
    BY StartupAssumption DEF Init
  <2>5. \A c \in Containers : step[c] \in DOMAIN Script[c]
    BY <2>1 DEF Init
  <2>6. ready \in [Services -> BOOLEAN] /\ exited \in [Containers -> BOOLEAN]
    BY DEF Init
  <2> QED
    BY <2>2, <2>3, <2>4, <2>5, <2>6 DEF Init, TypeInv, TypeOK, Progress
<1> QED
  BY <1>1, TypeInvInductive, PTL DEF Spec

(* Every variable keeps its type: no script runs past its last command, no *)
(* wait past its limit (wait_for_service).                                 *)
THEOREM TypeCorrect == Spec => []TypeOK
<1>1. TypeInv => TypeOK
  BY DEF TypeInv
<1> QED
  BY <1>1, TypeInvariant, PTL

(* entrypoint.sh runs migrate and collectstatic before gunicorn and set -e *)
(* stops it if one fails, so the site is never served without its tables   *)
(* and static files.                                                       *)
THEOREM SiteIsServedComplete == Spec => []SiteIsComplete
<1>1. TypeInv => SiteIsComplete
  <2> SUFFICES ASSUME TypeInv, Serving("web") PROVE migrated /\ collected
    BY DEF SiteIsComplete
  <2>1. step["web"] = 9
    BY ScriptFacts, Commands DEF TypeInv, TypeOK, Serving, At, Command
  <2> QED
    BY <2>1 DEF TypeInv, Progress
<1> QED
  BY <1>1, TypeInvariant, PTL

(* wait_for_service, set -e and || echo: a script ends early only because  *)
(* its service was missing at Limit + 1 polls of this wait, because the    *)
(* database was gone at migrate, or because collectstatic failed.          *)
THEOREM ScriptsExitForAReason == Spec => ExitsForAReason
<1> DEFINE Reason(c) == \/ \E s \in Services : At(c, s) /\ ~ready[s] /\ missed'[c] = Limit + 1
                        \/ At(c, "migrate") /\ ~ready["db"]
                        \/ At(c, "collectstatic")
<1>1. ASSUME TypeInv, NEW c \in Containers, NEW d \in Containers, Run(d), exited'[c], ~exited[c]
      PROVE  Reason(c)
  <2>1. Limit \in Nat /\ exited \in [Containers -> BOOLEAN] /\ missed \in [Containers -> Nat]
        /\ count \in [Containers -> 0..(Limit + 1)]
        /\ missed[c] = count[c] /\ count[c] <= Limit
    BY <1>1, StartupAssumption DEF TypeInv, TypeOK, Progress
  <2>2. CASE ServiceFound(d) \/ Continue(d)
    BY <1>1, <2>2 DEF ServiceFound, Continue, GoOn
  <2>3. CASE WaitSecond(d)
    <3>1. count'[d] > Limit /\ exited' = [exited EXCEPT ![d] = TRUE]
      BY <1>1, <2>3 DEF WaitSecond, Exit
    <3>2. c = d
      BY <1>1, <2>1, <3>1
    <3>3. count'[c] = count[c] + 1 /\ missed'[c] = missed[c] + 1
      BY <2>1, <2>3, <3>2 DEF WaitSecond, OneMore, MaxMissed
    <3>4. missed'[c] = Limit + 1
      BY <2>1, <3>1, <3>2, <3>3
    <3> QED
      BY <2>3, <3>2, <3>4 DEF WaitSecond
  <2>4. CASE Migrate(d)
    <3>1. ~ready["db"] /\ exited' = [exited EXCEPT ![d] = TRUE] /\ At(d, "migrate")
      BY <1>1, <2>4 DEF Migrate, GoOn, Exit
    <3> QED
      BY <1>1, <2>1, <3>1
  <2>5. CASE CollectStatic(d)
    <3>1. exited' = [exited EXCEPT ![d] = TRUE] /\ At(d, "collectstatic")
      BY <1>1, <2>5 DEF CollectStatic, GoOn, Exit
    <3> QED
      BY <1>1, <2>1, <3>1
  <2> QED
    BY <1>1, <2>2, <2>3, <2>4, <2>5 DEF Run
<1>2. ASSUME TypeInv, [Next]_vars, NEW c \in Containers, exited'[c], ~exited[c]
      PROVE  Reason(c)
  <2>1. \E d \in Containers : Run(d)
    BY <1>2 DEF Next, ServiceUp, ServiceDown, Submit, RunSave, vars
  <2> QED
    BY <1>1, <1>2, <2>1
<1>3. TypeInv /\ [Next]_vars => [\A c \in Containers : exited'[c] /\ ~exited[c] => Reason(c)]_vars
  BY <1>2
<1> QED
  BY <1>3, TypeInvariant, PTL DEF Spec, ExitsForAReason

-----------------------------------------------------------------------------
(* While no service has gone down the database the web service once found  *)
(* is there, and a task in the queue is one it has accepted since.         *)
DatabaseStays ==
  ~outage => /\ step["web"] > 2 => ready["db"]
             /\ queued > 0 => ready["db"]
             /\ failed = 0

LEMMA DatabaseStaysInductive ==
  ASSUME TypeInv, DatabaseStays, [Next]_vars
  PROVE  DatabaseStays'
<1> SUFFICES ASSUME ~outage'
             PROVE  /\ step'["web"] > 2 => ready'["db"]
                    /\ queued' > 0 => ready'["db"]
                    /\ failed' = 0
  BY DEF DatabaseStays
<1> USE DEF DatabaseStays
<1>1. /\ "web" \in Containers /\ "db" \in Services
      /\ step \in [Containers -> Nat] /\ queued \in Nat
      /\ \A c \in Containers : step[c] \in DOMAIN Script[c]
  BY ScriptFacts DEF TypeInv, TypeOK, Progress, Services
<1>2. ASSUME NEW c \in Containers, Run(c)
      PROVE  DatabaseStays'
  <2>1. UNCHANGED <<ready, queued, failed, outage>>
    BY <1>2 DEF Run, ServiceFound, WaitSecond, Continue, Migrate, CollectStatic, database
  <2>2. ~outage
    BY <2>1
  <2>3. CASE UNCHANGED step
    BY <2>1, <2>2, <2>3
  <2>4. CASE GoOn(c)
    <3>1. CASE c = "web" /\ step[c] = 2
      <4>1. Script[c][step[c]] = "db"
        BY <1>1, <3>1, ScriptFacts
      <4>2. ready["db"]
        BY <1>2, <2>4, <4>1, <1>1 DEF Run, ServiceFound, WaitSecond, Continue, Migrate,
                                      CollectStatic, At, Command, GoOn, Exit, Services
      <4> QED
        BY <2>1, <2>2, <4>2
    <3>2. CASE c = "web" /\ step[c] > 2
      BY <2>1, <2>2, <3>2
    <3>3. CASE ~(c = "web" /\ step[c] >= 2)
      <4>1. step'["web"] > 2 => step["web"] > 2
        BY <1>1, <2>4, <3>3 DEF GoOn
      <4> QED
        BY <2>1, <2>2, <4>1
    <3> QED
      BY <1>1, <3>1, <3>2, <3>3
  <2> QED
    BY <1>2, <2>3, <2>4 DEF Run, ServiceFound, WaitSecond, Continue, Migrate, CollectStatic, Exit
<1>3. ASSUME NEW s \in Services, ServiceUp(s) \/ ServiceDown(s)
      PROVE  DatabaseStays'
  <2>1. ServiceUp(s)
    BY <1>3 DEF ServiceDown
  <2> QED
    BY <1>1, <2>1 DEF ServiceUp, TypeInv, TypeOK, database
<1>4. CASE Submit
  <2>1. step["web"] = 9
    BY <1>1, <1>4, Commands DEF Submit, Serving, At, Command
  <2> QED
    BY <1>4, <2>1 DEF Submit
<1>5. CASE RunSave
  <2>1. ready["db"] /\ migrated
    BY <1>5 DEF RunSave, TypeInv, Progress
  <2> QED
    BY <1>1, <1>5, <2>1 DEF RunSave
<1>6. CASE UNCHANGED vars
  BY <1>6 DEF vars
<1> QED
  BY <1>2, <1>3, <1>4, <1>5, <1>6 DEF Next

(* docker-compose.yml and entrypoint.sh: the worker waits for Redis only,  *)
(* yet no save task meets a missing database or table while no service     *)
(* goes down, because tasks come from a web service that has waited for    *)
(* the database and migrated.  Tasks of a former run, which it has not     *)
(* waited for, are what the theorem excludes.                              *)
THEOREM NewSavesSucceed ==
  ASSUME OldSaves = 0
  PROVE  Spec => []NoSaveFails
<1>1. Init => DatabaseStays
  BY ScriptFacts DEF Init, DatabaseStays
<1>2. DatabaseStays => NoSaveFails
  BY DEF DatabaseStays, NoSaveFails
<1> QED
  BY <1>1, <1>2, DatabaseStaysInductive, TypeInvariant, PTL DEF Spec
=============================================================================
