-------------------------------- MODULE Startup --------------------------------
(***************************************************************************)
(* entrypoint.sh in the containers "web" and "worker" of                   *)
(* docker-compose.yml, which start in any order beside the services they   *)
(* wait for.  The worker's command is `celery -A config worker`, which the *)
(* pattern *"celery worker"* of the script does not match, so the worker   *)
(* waits for Redis only.  Nothing restarts a container that exits.         *)
(***************************************************************************)
EXTENDS Naturals, Sequences

CONSTANTS
  Limit,      \* wait_for_service gives up when count > Limit (60)
  OldSaves,   \* save tasks a former run of the stack left in the queue
  NewSaves    \* bound on the save tasks visitors cause

ASSUME StartupAssumption == Limit \in Nat \ {0} /\ OldSaves \in Nat /\ NewSaves \in Nat

Services == {"redis", "db", "mongo", "minio"}

(* Mutant of Script: docker-compose.yml overrides the entrypoint of "web". *)
ScriptNoEntrypoint == [web |-> <<"serve">>, worker |-> <<"redis", "serve">>]

(* What each container runs in turn: the services it waits for, the        *)
(* management commands of the web service, and the exec of its command.    *)
Script == [
  web    |-> <<"redis", "db", "mongo", "minio", "makemigrations", "migrate",
               "collectstatic", "setup_minio", "serve">>,
  worker |-> <<"redis", "serve">>]

Containers == DOMAIN Script

VARIABLES
  ready,      \* ready[s]: nc -z finds the port of s open
  step,       \* step[c]: where container c is in its script
  count,      \* count[c]: the seconds c has waited for the current service
  missed,     \* history: polls of the current service by c that failed (MaxMissed: or more)
  exited,     \* exited[c]: the script of c ended with an error
  migrated,   \* the tables of the landing app exist
  collected,  \* collectstatic has put the static files in place
  queued,     \* save tasks in Redis
  new,        \* how many of them visitors caused so far
  failed,     \* save tasks that raised, and are not retried
  outage      \* some service has gone down since the start

database == <<migrated, queued, new, failed>>
vars == <<ready, step, count, missed, exited, migrated, collected, queued, new, failed, outage>>

TypeOK ==
  /\ ready \in [Services -> BOOLEAN]
  /\ \A c \in Containers : step[c] \in DOMAIN Script[c]
  /\ count \in [Containers -> 0..(Limit + 1)]
  /\ missed \in [Containers -> Nat]
  /\ exited \in [Containers -> BOOLEAN]
  /\ migrated \in BOOLEAN /\ collected \in BOOLEAN
  /\ queued \in Nat /\ new \in 0..NewSaves /\ failed \in Nat
  /\ outage \in BOOLEAN

(* The volume of the database may hold the tables already, and it does if  *)
(* a former run left tasks: that run served after its migrations.          *)
Init ==
  /\ ready = [s \in Services |-> FALSE]
  /\ step = [c \in Containers |-> 1]
  /\ count = [c \in Containers |-> 0]
  /\ missed = [c \in Containers |-> 0]
  /\ exited = [c \in Containers |-> FALSE]
  /\ migrated \in BOOLEAN
  /\ collected = FALSE
  /\ queued = IF migrated THEN OldSaves ELSE 0
  /\ new = 0
  /\ failed = 0
  /\ outage = FALSE

-----------------------------------------------------------------------------
Command(c) == Script[c][step[c]]

At(c, command) == ~exited[c] /\ Command(c) = command

Serving(c) == At(c, "serve")

GoOn(c) == step' = [step EXCEPT ![c] = @ + 1] /\ UNCHANGED exited
Exit(c) == exited' = [exited EXCEPT ![c] = TRUE] /\ UNCHANGED step

(* Mutant of ServiceFound: count is not local to wait_for_service.         *)
ServiceFoundKeepsCount(c) ==
  /\ \E s \in Services : At(c, s) /\ ready[s]
  /\ GoOn(c)
  /\ missed' = [missed EXCEPT ![c] = 0]
  /\ UNCHANGED <<ready, count, collected, database, outage>>

(* nc -z finds the port open: the function returns, and the next call      *)
(* counts from 0.                                                          *)
ServiceFound(c) ==
  /\ \E s \in Services : At(c, s) /\ ready[s]
  /\ GoOn(c)
  /\ count' = [count EXCEPT ![c] = 0]
  /\ missed' = [missed EXCEPT ![c] = 0]
  /\ UNCHANGED <<ready, collected, database, outage>>

(* The history tells apart what is below, at and above the limit.          *)
MaxMissed  == Limit + 2
OneMore(n) == IF n < MaxMissed THEN n + 1 ELSE n

(* Mutants of WaitSecond: the count is started anew in every round, or is  *)
(* tested before it is increased.                                          *)
WaitSecondForgets(c) ==
  /\ \E s \in Services : At(c, s) /\ ~ready[s]
  /\ count' = [count EXCEPT ![c] = 1]
  /\ missed' = [missed EXCEPT ![c] = OneMore(@)]
  /\ IF count'[c] > Limit THEN Exit(c) ELSE UNCHANGED <<exited, step>>
  /\ UNCHANGED <<ready, collected, database, outage>>

WaitSecondOnceMore(c) ==
  /\ \E s \in Services : At(c, s) /\ ~ready[s]
  /\ count' = [count EXCEPT ![c] = @ + 1]
  /\ missed' = [missed EXCEPT ![c] = OneMore(@)]
  /\ IF count[c] > Limit THEN Exit(c) ELSE UNCHANGED <<exited, step>>
  /\ UNCHANGED <<ready, collected, database, outage>>

(* A round of the loop: nc -z fails, a second passes, and a count above    *)
(* the limit exits with 1.                                                 *)
WaitSecond(c) ==
  /\ \E s \in Services : At(c, s) /\ ~ready[s]
  /\ count' = [count EXCEPT ![c] = @ + 1]
  /\ missed' = [missed EXCEPT ![c] = OneMore(@)]
  /\ IF count'[c] > Limit THEN Exit(c) ELSE UNCHANGED <<exited, step>>
  /\ UNCHANGED <<ready, collected, database, outage>>

(* Commands that end well, or whose failure || echo ignores.               *)
Continue(c) ==
  /\ \E command \in {"makemigrations", "setup_minio"} : At(c, command)
  /\ GoOn(c)
  /\ UNCHANGED <<ready, count, missed, collected, database, outage>>

(* Mutant of Migrate: its failure is ignored like that of setup_minio.     *)
MigrateOrWarn(c) ==
  /\ At(c, "migrate")
  /\ migrated' = (migrated \/ ready["db"])
  /\ GoOn(c)
  /\ UNCHANGED <<ready, count, missed, collected, queued, new, failed, outage>>

(* manage.py migrate; without the database it fails and set -e exits.      *)
Migrate(c) ==
  /\ At(c, "migrate")
  /\ \/ ready["db"]  /\ migrated' = TRUE /\ GoOn(c)
     \/ ~ready["db"] /\ Exit(c) /\ UNCHANGED migrated
  /\ UNCHANGED <<ready, count, missed, collected, queued, new, failed, outage>>

(* manage.py collectstatic needs no service, but can fail on its files;    *)
(* nothing ignores that, so set -e exits.                                  *)
CollectStatic(c) ==
  /\ At(c, "collectstatic")
  /\ \/ collected' = TRUE /\ GoOn(c)
     \/ Exit(c) /\ UNCHANGED collected
  /\ UNCHANGED <<ready, count, missed, database, outage>>

Run(c) == ServiceFound(c) \/ WaitSecond(c) \/ Continue(c) \/ Migrate(c) \/ CollectStatic(c)

-----------------------------------------------------------------------------
(* gunicorn serves: a visitor submits a number and its task is queued.     *)
Submit ==
  /\ Serving("web")
  /\ ready["redis"]
  /\ new < NewSaves
  /\ new' = new + 1
  /\ queued' = queued + 1
  /\ UNCHANGED <<ready, step, count, missed, exited, migrated, collected, failed, outage>>

(* The worker runs save_phone_in_sql_task, which needs the table.          *)
RunSave ==
  /\ Serving("worker")
  /\ ready["redis"]
  /\ queued > 0
  /\ queued' = queued - 1
  /\ failed' = IF ready["db"] /\ migrated THEN failed ELSE failed + 1
  /\ UNCHANGED <<ready, step, count, missed, exited, migrated, collected, new, outage>>

ServiceUp(s) ==
  /\ ~ready[s]
  /\ ready' = [ready EXCEPT ![s] = TRUE]
  /\ UNCHANGED <<step, count, missed, exited, collected, database, outage>>

ServiceDown(s) ==
  /\ ready[s]
  /\ ready' = [ready EXCEPT ![s] = FALSE]
  /\ outage' = TRUE
  /\ UNCHANGED <<step, count, missed, exited, collected, database>>

Next ==
  \/ \E c \in Containers : Run(c)
  \/ \E s \in Services : ServiceUp(s) \/ ServiceDown(s)
  \/ Submit \/ RunSave

(* A script runs on; services come, go or stay away as they like.          *)
ScriptFairness == \A c \in Containers : WF_vars(Run(c))

Spec == Init /\ [][Next]_vars /\ ScriptFairness

-----------------------------------------------------------------------------
(* The site is never served without its tables and its static files, in    *)
(* whatever order the services come and go while the script runs: a        *)
(* failure of migrate or collectstatic ends the script (set -e).           *)
SiteIsComplete == Serving("web") => migrated /\ collected

(* A script ends early only for a reason: the service it waits for was     *)
(* absent at Limit + 1 polls of this wait, whatever it waited for before,  *)
(* the database was gone at migrate, or collectstatic failed.  A service   *)
(* that is late by less, or a command whose failure is ignored, does not   *)
(* end it.                                                                 *)
ExitsForAReason ==
  [][\A c \in Containers : exited'[c] /\ ~exited[c] =>
       \/ \E s \in Services : At(c, s) /\ ~ready[s] /\ missed'[c] = Limit + 1
       \/ At(c, "migrate") /\ ~ready["db"]
       \/ At(c, "collectstatic")]_vars

(* No script hangs: each container serves or exits in the end, even if a   *)
(* service never comes (the bound in wait_for_service).                    *)
ScriptsEnd == \A c \in Containers : <>(Serving(c) \/ exited[c])

(* While no service goes down, no save task meets a missing database or    *)
(* table, although the worker may serve long before the web service has    *)
(* migrated ("Worker needs DB for tasks that access models").              *)
NoSaveFails == ~outage => failed = 0
=============================================================================
