# Verification of Bistland

TLA+ models, TLC runs and TLAPS proofs for the landing page service: a visitor
leaves a phone number, the service accepts it once per 24 hours, answers at
once, and stores it in the background. The pages the service hands out run
scripts of their own: the form of the landing page, the site for its
administrators, and the API page of REST framework, all served from
`templates/` and `staticfiles/`.

## The system

| Component | State | Operations | Interaction |
|---|---|---|---|
| Submission endpoint (`landing/apis/submit_phone_apis.py`) | one request per gunicorn process, Prometheus counters of the process | `post()`: validate, `cache.add`, publish the log task, publish the save task, reply | shares the cache and the queue with the other processes |
| Dedup cache (`config/settings.py` `CACHES`) | keys `dedup:phone:<number>` with an expiry | `add` (atomic) | Redis db 1, or a `LocMemCache` in each process when `CACHE_BACKEND` is unset |
| Celery queue (Redis db 0) | list of messages, unacknowledged messages | publish, deliver, acknowledge, restore after the visibility timeout | endpoint to workers |
| Workers (`celery -A config worker`, `landing/tasks.py`) | prefetched messages, the task of each child process | `save_phone_in_sql_task` (INSERT), `log_request_in_mongo_task` (insert_one) | write to PostgreSQL and MongoDB |
| Phone validation (`landing/serializers/phone_submission.py`, form in `templates/landing.html`) | none | trim, length, pattern | decides what becomes a dedup key |
| Container startup (`entrypoint.sh`, `docker-compose.yml`) | position in the script, seconds waited | wait for a port, migrate, exec | web and worker start in any order beside the services |
| Browser form (`templates/landing.html`) | field, button, requests in flight | click, Enter, answer | calls the endpoint |
| Metrics (`landing/metrics.py`, `prometheus.yml`) | counters per process | inc, observe, scrape | read by Prometheus through one of the processes |
| Landing page (`landing/apis/landing_apis.py`) | page cached 60 s | GET | same cache backend |
| Admin change list (`staticfiles/admin/js/actions.js`) | boxes, highlights, counter, `select_across`, `lastChecked`, `shiftPressed` | check, range, all, all pages, Go, Save, leave and return | the browser's page cache and form restoration |
| Two-box filter (`SelectBox.js`, `SelectFilter2.js`) | a cache and a `<select>` per box, filters, active links, warning | move, filter, keys, submit | pop-ups add to the cache; inline rows make new ones |
| Inline forms (`inlines.js`, `prepopulate.js`) | rows with numbers, `TOTAL_FORMS`, `nextIndex` | add, remove, renumber | two-box filters, slugs and date shortcuts of the rows |
| Date shortcuts and calendar (`admin/DateTimeShortcuts.js`, `calendar.js`, `core.js`) | a number, links, a box and a listener per input; month and year drawn | init, open, pick, dismiss | init is called again by the inline forms |
| Related-object pop-ups (`admin/RelatedObjectLookups.js`, `popup_response.js`) | windows, their openers and levels | open, answer, dismiss, unload | windows call functions of each other |
| API page (`rest_framework/docs/js/api.js`, `js/coreapi-0.1.1.js`) | `window.auth`, `responseDisplay`, requests, what each dialog shows | submit, answer, toggle, authenticate | fetch; the session's cookie |
| Rate limit (`landing/throttles.py`) | request history per address | allow | not enabled in the view |

What is hard here: three gunicorn processes interleave between `cache.add` and
two publications; each call can fail before or after it took effect; a process,
a worker node or a child can die between any two steps; a task is acknowledged
before it has written; everything restarts in any order. What makes the system
correct is the relation between three places nobody updates together: the key
in the cache, the message in the queue, and the row in the table.

The browser's scripts are hard for the same reason on a smaller scale: what a
user sees, what the script remembers and what will be submitted are three
states, changed by events in any order: keys, clicks and answers, a page that
comes back from the cache, rows that are numbered again under their widgets,
windows that go while others load. The full list
of hazards, with lines, is under `hazards` in `PROJECT.json`.

## Modules

### SubmitPhone (`landing/apis/submit_phone_apis.py`)

A request `r` goes through the steps at which `post()` touches state others
see; `pc[r]` is the next one.

| Code | Model |
|---|---|
| `request.data`, `is_valid`, 36-40 | `Receive(r, w, p)` (accepted, by process `w`), `Reject(r, w)` (raises; the `except` branch answers 500) |
| `cache.add(key, "1", timeout=24*3600)`, 45-46 | `CacheAdd(r)`: sets `isNew`, takes the key until `now + Window` if it is absent or expired |
| `log_request_in_mongo_task.delay`, 49-55 | `PublishLog(r)`; then `AfterLog`: a duplicate skips the save task (58) |
| `save_phone_in_sql_task.delay`, 63 | `PublishSave(r)` |
| both 200 responses, counters, `finally`, 58-70, 80-83 | `Return(r)`, `CountReply` |
| `except Exception`, 72-78 | `CacheAddFails`, `PublishFails`: the call did or did not take effect |
| kombu's publication retry | `PublishTwice` |
| gunicorn kills a process | `WorkerKilled(w)`: its counters, its request and (LocMem) its cache are gone |

Every process serves one request at a time (`Idle`), as gunicorn's sync worker
does. `LocMem` selects the cache backend. The number, the client address and
the user agent are data; a number is a model value. `addedAt` is a history
variable: when `cache.add` was called. A request that is retried by its client is
another element of `Requests`.

Properties: `DedupWindow` (two acceptances of a number are a window apart),
`DuplicateMeansQueued` (a duplicate reply has an accepted submission of the same
number less than a window before it, queued or about to be),
`QueuedMeansOneSave`, `SaveFollowsItsLog` (queue order), `LogAgreesWithReply`,
`AnswersAreTimed` (the histogram has every reply once, the status "error" every
500). The counter is not the total the documents say it is (below), so no property
says so.

### CeleryTasks (`landing/tasks.py`, Celery settings)

Nodes prefetch (`Deliver`), children begin (`Start`), the node acknowledges when
the child has begun (`Ack`, since the settings leave `acks_late` off), the task
writes (`Save`, `Log`), returns (`Finish`), or raises or hits a time limit
(`Fail`, no retry). `NodeCrash`, `NodeStart`, `ChildKilled` and `Redeliver`
model deaths and the visibility timeout of the Redis transport. `Failing` names
the tasks whose database is down. `Backlog` is the queue the workers find: since
`Deliver` may wait as long as it likes, messages that are there from the start
interleave as freely as messages that arrive later. The behaviour of Celery and
kombu is modelled from how the repository configures it and is marked external
in the map. `failures` is what the result backend says of a task.

A message is where it is as often as it was published: kombu's publication retry can
put a task into the queue twice.

Properties: `DeathsCostOnlyBegunTasks` (a death costs at most one task per child,
never a prefetched one), `OneMoreWritePerDeath` (each published copy of a task makes
at most one write more than there were deaths), `EveryTaskEnds` (liveness).

### LeadCapture and LandingSystem

`LeadCapture` is the promise without processes or queues: `Accept` at most once
per number and window, `Store` once for each acceptance, in the end.
`LossySpec` is what is left when things fail: nothing is stored that was not
accepted and acceptances keep their distance, but a lead may be lost, stored
again, or a number blocked for nothing (`Waste`).

`LandingSystem` composes `SubmitPhone` (Redis cache) and `CeleryTasks` around one
`queue`. The refinement mapping takes `accepted[r]` from `isNew[r]` and
`phone[r]`, `closedUntil` from the keys in Redis and `stored` from the rows. So
the promise is made by `cache.add` and kept by the INSERT. `KeepsPromise` is
`LeadCapture!Spec`, with its fairness, `KeepsWindows` is `LossySpec`, and
`RepliesComeTrue` says that "queued" leads to one row of this submission and
"duplicate" to one row of another submission of the same number.

### PhoneNumber

The serializer's pipeline (trim, blank, `max_length`, strip, `PHONE_REGEX`) and
the form's pattern over classes of characters: `"plus"`, `9`, `8`, the other ASCII
digits, a decimal digit of another script (Python's `\d` takes it, JavaScript's
does not), `"blank"`, anything else. The string grows one character at a time, so
the states are all strings up to the bound. `FormAgreesWithServer`: what the form
sends is accepted and kept as it is. `BlanksDoNotMatter`: blanks around a number
change neither acceptance nor key.

### Startup

`entrypoint.sh` in `web` and `worker` as a script of commands (`Script`), with
the bounded wait (`ServiceFound`, and `WaitSecond`, which exits when its count is
above the limit), commands whose failure is ignored (`Continue`: `makemigrations`,
`setup_minio`), and two whose failure ends the script under `set -e`: `Migrate`,
which fails without the database, and `CollectStatic`, which needs no service and
may fail on its files. Services come and go. Once serving, visitors queue save tasks
and the worker runs them. `SiteIsComplete` (tables and static files), `ExitsForAReason`,
`ScriptsEnd`, `NoSaveFails`. `outage` and `missed` are history variables; `missed` counts
the failed polls of the current wait, up to `MaxMissed` (one more than the script
allows), apart from the script's own `count`.

### LandingForm (`templates/landing.html`)

`SubmitPhone` is `submitPhone()` up to its first `await`; `Answer` is the rest of
it, `catch` and `finally` included, for any request under way. `Click` looks at
the button, `Enter` does not. `eager` remembers that Enter was pressed while a
request was under way; then requests overlap, the first answer enables the button
and an accepted one clears the field, whatever it holds by then.
`ClicksDoNotOverlap`, `ButtonComesBack` (liveness).

### ChangeList (`actions.js`)

One action per listener. `UpdateCounter`, with which all of them end, recounts
and shows the question or takes `select_across` back. The page is left by `Go`
and `Save` and comes back as it was (`BackCached`, with the `pageshow` listener),
loaded with its form restored (`BackRestored`: boxes and `select_across` are the
browser's, highlights and closures are new), or fresh (`Load`). `visit` remembers
the worst of these since the last fresh load. `AcrossMeansAll`, `LooksSelected`.

### SelectFilter (`SelectBox.js`, `SelectFilter2.js`)

A box is its cache in order, the options with `displayed = 0`, the shown options
and the selected ones. `Redisplay`, `Filter`, `AddToCache`, `DeleteFromCache`, `Move`
and `MoveAll` are `SelectBox`'s; its loops are recursive functions over the positions
of what they run through (`Only`, `Transfer`). The actions are the listeners and the
three key handlers. A filter text is the set of options it matches; `SubmitBoxes` is
the form's listener. `NothingLost`, `SentIsChosen`, `WarningIsTrue`. `JsArrays` holds
`indexOf` and `splice`, which the pop-ups use too.

### Formset and InlineForms (`inlines.js`, `prepopulate.js`)

`Formset` is the rows and their numbers alone: `AddRow` and `DeleteRow`.
`InlineForms` uses these two actions and adds what other scripts keep of
the numbers: the id in the closures of a two-box filter and as the key of
`SelectBox.cache`, and the ids of the fields a slug is made of. One option and one
title are enough, so a box is a Boolean. `NamesAreInSequence`, `SentIsShown`,
`SlugIsOwn`; `stable` is a history variable, the first position that was ever
numbered again.

### DateShortcuts and Calendar

`DateShortcuts` numbers the inputs as `init` does. A link or a box knows its
number, a number its input, a dismiss function is registered or not. The click
that adds or removes a row is also a click on the document (`Clicked`).
`OneLinkPerInput`, `ShownBoxesListen`, `WritesGoToThePage`. Clocks and calendars
have separate counters in the code; one sequence of numbers stands for both.

`Calendar` is one date input: the month drawn, the day selected, the text, four
formats of `DATE_INPUT_FORMATS[0]`. A text is its numbers, and one that is no date has
fewer than three. JavaScript's `Date` is modelled by the proleptic Gregorian calendar,
the script's `isLeapYear` and `getDaysInMonth` as written; `MonthsJoinUp` compares the
two. A `Date` is a `Moment`, a day and hours from midnight UTC: the callback makes one in
local time (`LocalDate`), `strftime` reads it with local getters (`LocalDay`), `strptime`
makes one in UTC (`UTCDate`), and `openCalendar` and `draw` read that with UTC getters
(`UTCDay`, `SelectedDay`). `zone` is a whole number of hours, without daylight saving.
`ShortYear` is `substr(2, 4)` of a year. What is not `Drawable` (no date, or a year
without four digits) leaves the calendar as it was. `PickedDayIsRead` follows a day from
the click through all this to the day marked when the calendar is opened again. It is
stated from the year 1000 on, and for formats with two digits from 1969 to 2068, since
other years are read back as a year of these.

### RelatedPopups (`RelatedObjectLookups.js`, `popup_response.js`)

Windows with an opener, a level, the list `relatedWindows` and the page they show,
which may be loading: then it has no functions yet. `Show`, `SubmitPage`, `Close`,
`LoadForm`, `LoadAnswer`, `Choose`; `Unload` is part of each action after which a
page is gone. `DismissChildPopups` is `dismissChildPopups`: a recursive function over
the levels below the window, and `DismissWindows` its loop over the list, with
`DismissWindow` for one entry. The code pushes a window each time it is shown; `Show`
keeps one entry for it, since a second one would only ever meet a window that the first
has closed. Calling it on a window that is loading is a TypeError,
which ends the loops of all callers; `spared` remembers that one happened.
`AnswersReachTheirPage`, `NoWindowIsLeft`.

### ApiExplorer (`api.js`, `coreapi-0.1.1.js`)

Forms in dialogs, requests on their way, `window.auth`. `Submit` builds a client,
authenticates the request with what is chosen now and fills in the request line;
`Respond` is the answer as fetch, `parseResponse`, `negotiateDecoder` and the two
ends of the promise treat it: 204 and a network failure never reach
`responseCallback`, an unknown media type does before it fails. `SubmitInvalid` is a
`ParameterError`, which nothing catches. `OnePanelAtATime`, `ShowsItsRequest`. No
property is about the headers of a request: they are read in the event that sets them,
and nothing touches them afterwards. No URL of `config/urls.py` leads to a page with these scripts;
they are collected and served as files.

### BrowserPages

A tab with one of these pages, or with the strings of `PhoneNumber`. It extends the
modules of all pages (whose names differ for that reason: `ListInit`, `FilterNext`)
and takes the steps of the page that is `loaded`. The pages share no state, so those
that are not loaded stay in one initial state each, the state space is the sum of
theirs, and one run checks the properties of all of them. `MCBrowserPages` gives the
calendar its dates and time zones.

## Runs

| Run | Bounds | What it shows |
|---|---|---|
| `submit_ok` | 3 requests, 2 numbers, 2 processes, window 2, clock to 3 | the window, both replies, latency and errors, without failures |
| `submit_faults` | 3 requests, 1 number, 2 processes, window 2, clock to 2 | the window, the queue order and the log under every failure |
| `tasks_crash` | 4 messages, one of them a copy, 2 nodes with 1 child, prefetch 2, 2 deaths, both databases failing | losses and repetitions per death; every task ends |
| `system_promise` | 2 requests, 1 number, 2 processes, 1 node with 2 children, window 1, MongoDB down | the system implements `LeadCapture`; replies come true |
| `system_faults` | the same with 1 child, one death of a worker, all failures of the endpoint | the system implements `LossySpec` |
| `browser_pages` | see below | form and serializer agree on every string, and the properties of all pages |
| `startup_fresh` | wait limit 2, empty queue, 2 visitors | the site is served only with its tables and static files; scripts end, early only for a reason; no save task fails without an outage |
| `submit_lost_lead` (violation) | as `submit_faults`, 1 process, only publications fail (`PublishFaultySpec`) | the `delay()` of the log task raises after `cache.add`: the retry is told "duplicate", nothing is queued |
| `submit_locmem` (violation) | as `submit_ok`, `LocMem` | with the default cache each process accepts the number |
| `tasks_early_ack` (violation) | 1 node, 1 child, 1 death | a begun task dies with its worker |
| `phone_two_keys` (violation) | strings up to 5 characters | digits of another script make a second key for the same number |
| `startup_restart` (violation) | one save task left in the queue | the worker runs it before PostgreSQL is up |

Why the bounds are enough. Three requests are the acceptance, one that meets
its key, and one after both; the window (2 ticks) ends inside the clock of
`submit_ok`, so keys expire and numbers are accepted again, and in
`submit_faults` exactly at its end. Two processes are what it takes to interleave
two calls of `post()`; the proofs below cover any number. Two nodes let one die
while the other takes over, and two deaths let a redelivered task die again. In
`PhoneNumber` one digit stands for the others, which the rules treat alike; the
length bound leaves strings one longer than the longest accepted number.

In `browser_pages`: strings of at most 6 characters; a list of 3 rows, so that a
range has a row between its ends; two options, one that a pop-up adds, and a filter
that hides one or none, so that a move meets hidden and shown options; 1 to 3 inline rows, at
most 2 of them loaded, so that both limits are met and a row is removed before
another; two inputs and 5 numbers, enough for three calls of `init`; calendars
through the years 1900, 1999, 2000, 2068, 2069 and 2100, which have both kinds of
century and the ends of the pivot, in a time zone on either side of UTC, with typed
dates that run over, years of two and three digits, and days at both ends of
a month; three windows
on two levels; two forms and two requests, one that may be under way when the
other is sent or answered.
Symmetry is used for invariants and for the box property `KeepsWindows` only.

Deadlock is not checked: every request is answered, every task done and the
clock at its bound is a proper end of these systems.

Fairness. A process that has taken a request runs `post()` on (`HandlerStep`);
clients need not send, and the clock need not tick. A running node polls its
queue and restores orphans, children take work. The time limits of
`settings.py` 96-97 justify `WF(Fail)` for a database that hangs; a database in
`Failing` owes no write. No fairness is asked of `NodeStart`, because
`docker-compose.yml` sets no restart policy. In `Startup` a script runs on;
services may stay away for ever. In
the tab only the answers of the landing form are fair (`LandingAnswered`): a fetch
settles, if only by the browser's own time limit. Users owe nothing, and neither does
the API page, whose `ShowsItsRequest` is a safety property.

## Proofs

`tlapm` checks every theorem for all values of the constants, under the assumption
named with it. Every safety invariant that a passing run checks has a theorem; where the
theorem needs more than the named assumption, the further hypothesis is given, with what
happens without it.

### SubmitPhoneProofs (`SubmitAssumption`)

* `FaultyTypeCorrect`, `TypeCorrect`: the typing invariant, with and without failures.
* `DedupWindowHolds` (`~LocMem`, with failures). `DedupWindow` says nothing of the
  keys, so it is not inductive. `WindowInv` adds that a request before `cache.add`
  is not new (`NotYetNew`) and that the key of an accepted number lives until a
  window after the acceptance (`KeyOutlivesAcceptance`). Then an absent key means
  that every earlier acceptance is a window old. `WindowFrame` disposes of the
  steps that neither classify a request nor shorten a key, `WindowCacheAdd` is the
  step that matters.
* `DuplicateMeansQueuedHolds` (both cache backends, no failures). `OwnerInv` gives
  every key an owner, the request that set it, which is on its way to its save
  task or past it, and every duplicate a submission that covers it. With
  failures the theorem is false: that is `submit_lost_lead`.
* `SaveFollowsItsLogHolds` (both backends, with failures). `OrderInv` adds that a
  request about to publish its save task has its log task in the queue;
  `LoggedStays` and `OrderedAppend` are the facts about sequences it rests on.
* `LogAgreesWithReplyHolds` (with failures): each log message in the queue says what
  `cache.add` said, and the branch a request takes follows the same answer.
* `QueuedMeansOneSaveHolds` (no failures): the positions of a request's save tasks in
  the queue are a set that is empty before `PublishSave`, and has one element after it.
* `AnswersAreTimedHolds` (finitely many requests, no failures): a reply adds one
  element to the set of requests a process has answered, and one to its histogram.

### CeleryTasksProofs (`CeleryAssumption`)

* `TypeCorrect`: every message on its way is one of the backlog (`Published`).
* `DeathsCostOnlyBegunTasksHolds`. The property is inductive with the typing, but the
  steps have to be compared: `DeliverLosesNothing`, `RedeliverLosesNothing` and
  `WorkLosesNothing` say that no step of the living turns a task into a lost one, and
  what a crash or the death of a child turns into one is `InHand(n)`, which has at most
  one element per slot (`InHandIsSmall`). Redis still lists what was only prefetched.
* `OneMoreWritePerDeathHolds`. `WritesInv` counts, for each message, the copies that can
  still be delivered (`Live`: waiting anywhere, or begun and not acknowledged) and those
  that will be written (`ToWrite`). `Live` never exceeds the copies that were published,
  and a death adds at most `Live` to what will be written, so
  `Written + ToWrite <= Copies(Backlog) * (crashes + 1)`. The factor `Copies` came from
  the proof: with a single copy in the bound the crash step could not be proved, and TLC
  finds the counterexample as soon as a task is in the queue twice, which is why the
  backlog of `tasks_crash` has one.

### LandingSystemProofs (`SystemAssumption`)

* `PipelineKeepsWindows` is the refinement: every step of the composed system, failures
  included, is a step of `LossySpec` or leaves `lead` alone. It needs to know what may be
  on its way: `Good` messages, whose save tasks belong to accepted submissions. `PoolInv`
  says that queue, nodes, children and orphans hold no others, so that a row is only ever
  made for an accepted submission; `WebInv` that a request before `cache.add` is not new
  and one about to publish its save task is. `GoodStays` carries the messages over the
  steps of the endpoint, which accept more and never take back.
* `PipelineStoresOnce` (`MaxCrashes = 0`, no failures): every step is one of
  `LeadCapture!Next` or invisible to it, which is the safety half of `KeepsPromise`. A row must be the first
  of its submission. `TokenInv` says where its save task can be: `Holders(r)`, the
  process before the publication, the queue, a node, a child or the row, has at most one
  element, and each sequence holds the task at most once. With deaths or failures a task
  can be in two places, and a lead is stored twice (`LossySpec`).

### StartupProofs (`StartupAssumption`)

* `TypeCorrect`; `SiteIsServedComplete` from `Progress`: a web service past its sixth
  command has migrated, one past its seventh has collected its files, and only such a
  one fills the queue.
* `ScriptsExitForAReason` needs that `count` and `missed` agree in every wait, whatever
  the script waited for before.
* `NewSavesSucceed` (`OldSaves = 0`). `DatabaseStays`: while nothing goes down, the
  database that the web service found at its second command is there, and a task in the
  queue came later. With a task left from before (`OldSaves = 1`) it is false:
  `startup_restart`.

### LandingPageProofs

* `ClicksNeverOverlap` (`LandingForm`): the property itself does not say that requests are
  numbered by `asked`, so `Alone` adds that a visitor who only clicks has no request or one
  under way and the button knows it, and that the next number is new.
* `FormAndServerAgree`, `BlanksAreIgnored` (`PhoneNumberAssumption`), for numbers and
  strings of any length. `StripIs` says what `strip` keeps, between the first and the last
  character that is not blank; `StripTwice` and `StripPadded` follow. `MinIsLeast` and
  `MaxIsGreatest`, for the definitions of `FiniteSetsExt`, come from well-foundedness.

### AdminFormProofs

* `RowsAreNamedInSequence`, `RowsStayWithinLimits` (`FormsetAssumption`) from `RowsInv`:
  the numbers agree and each button is shown exactly when the limits allow it.
* `StableRowsSendWhatTheyShow`, `SlugsAreTheirOwn` from `FieldsInv`, which gives every
  stable row (`GoodField`) the id its widgets were made with, and their cache. The
  properties speak of what is sent and shown only; without the ids they are not
  inductive, since a handler of another row could write here.
* `DisplayedBoxesListen`, `NoWriteOutsideThePage` (`DateShortcutsAssumption`) from
  `ShortcutsInv`: a box that is shown belongs to an input of the page, because the click
  that removes the row reaches the listener that closes it.
* `EachInputHasOneLink` from `OnlyLink`: the numbers of one `init` are a bijection
  with the inputs of the page (a surjection between sets of one size).
* `EveryMonthJoinsUp` (`CalendarAssumption`, `Today` and all `Years` from 100 on).
  `MonthLength` compares the script's table with the browser's dates. Below 100 the
  theorem is false (`new Date`).
* `ClickedDayIsMarked` (`CalendarAssumption` alone). `CalendarInv` says what the text is
  after a click, and that the day selected is read from it while the calendar is
  displayed. `WrittenIsRead` follows the day through the local getters and the UTC ones:
  midnight here is some hour of the same day here, in every zone, and a year survives
  its last two digits between 1969 and 2068.

### AdminChoiceProofs

* `AcrossNeedsAllRows`, `SelectionIsVisible` (`RowsAssumption`) from `ListInv`: the head's
  box, the counter and the parts of the bar follow the boxes, in each of the three ways the
  page has come. `UpdateKeepsInv` proves it once for `UpdateCounter`, whatever handler
  calls it.
* `EveryOptionIsKept`, `ChosenOptionsAreSent`, `WarningCountsHidden` (`WidgetAssumption`)
  from `WidgetInv`. `Divided`: the caches have no option twice and none in common, and
  together all; `Displayed`: a box shows what its cache displays. During the loop of a move
  the second half is false, so `TransferOk` carries `Divided` and `SameHidden` through the
  loop, and what redisplays or filters afterwards restores it.
* `AnswersAreForTheirPage`, `WindowsGoWithTheirPage` (`PopupAssumption`) from `PopupInv`,
  for windows down to any level. `Linked`: a window is one level below its opener, and so
  is whatever is in its list. `KeptAt`: an open window is in the list of its opener, which
  is open and has not lost it. The properties alone are not inductive, because what unload
  closes depends on the lists. `Dismissed` is the contract of `dismissChildPopups`: it closes
  only deeper windows, and unless it fails it closes with every window all of its list.
  `DismissWindowsKeeps` proves the contract for a level from the contract of the next
  one, `DismissIs` for all levels.

Loops of the scripts are recursive functions here, `f[n \in 0..N] == ...`. That such a
function exists is proved (`Recursion`), and facts about it by induction up to `N`
(`UpTo`, from the well-foundedness of `<` on `Nat`, which the library states without an
operator parameter).

### What only TLC checks

Liveness and the refinement with fairness: `KeepsPromise` (its safety half is
`PipelineStoresOnce`), `RepliesComeTrue`, `EveryTaskEnds`, `ScriptsEnd`,
`ButtonComesBack`. They need ENABLED, which is out of the prover's reach, as are the
induction theorems of the library that take a predicate as a parameter.

## Disagreements between code and documents

The five violation runs are listed under `findings`. Met while reading, and not
run because the disagreement is plain from the text:

* `ARCHITECTURE.md` 236, 785: retries "3x with exponential backoff" and an idempotent
  `get_or_create`; `tasks.py` has neither (a repeated write per death is what
  `OneMoreWritePerDeath` allows, and `Fail` is final).
* `README.md` 274 ("Total requests"), `metrics.py` 6 ("Total number of requests to the
  heavy endpoint") and `ARCHITECTURE.md` 385 call the counter a total; the early return
  for a duplicate, `submit_phone_apis.py` 58-60, increments it under no status (`Return`,
  `CountReply`), so only the latency histogram counts every request.
* `README.md` 250-252 and its example 221 describe numbers the serializer refuses.
* `submit_phone_schemas.py` 32-49: 400 and 429 responses; the endpoint answers 500
  for an invalid number (`Reject`) and never limits.
* `ARCHITECTURE.md` 458: a queue of its own for log tasks; both tasks share one.
* `ARCHITECTURE.md` 35, 229: AOF persistence; the Redis service is configured without.
* `ARCHITECTURE.md` 796-807: health checks of three services; `HealthzView` always says ok.
* `templates/landing.html` 34 gives `09121234567` as an example in the field; the form
  refuses it (`LandingForm`, `PhoneNumber`).
* `SelectFilter2.js` 232: "Active if the corresponding box isn't empty";
  `move_selection` refreshes the icons before the filters apply again, so "Choose
  all" can be active over an empty box and stay inactive over a full one.
* `calendar.js` 85: "year = 1-9999"; `new Date` takes the years 0 to 99 for 1900 to 1999.

Limits of the pages' scripts that the models show, as exceptions in the properties:

* `inlines.js` 158-161 numbers the rows after a removed one again, while their two-box
  filters and slugs keep the old ids: these rows are submitted with the choices of
  the row that has the id now (`SentIsShown`, `SlugIsOwn` hold for rows below `stable`).
* `RelatedObjectLookups.js` 10-17 stops with a TypeError at a window that is still
  loading and leaves the rest of the list open (`spared`).
* `pageshow` offers "Select all" again while `select_across` is set already; a form
  the browser restores has boxes without highlights (`visit`).
* An answer of the API page that comes out of order replaces the data under the
  request line of a later one (`overlapped`).
* Enter on the landing page sends again while a request is under way (`eager`).

## Not modelled

Declarations for Django's admin, the migration file, the OpenAPI text, nginx, Grafana
and Locust have no state of the service's own. `SKIP_WAIT`, sample media and `beat`
(no schedule) are left out of `Startup`. The result backend is written and never
read. Logging is left out.

* A restart of Redis from its last snapshot: keys, queue and unacknowledged messages
  go back together, and no promise stated here survives it.
* Scrapes of the metrics: nothing says what the sums of one process should show. The
  cached landing page, a template without data. The throttle is never enabled.
* Of `staticfiles/`: minified and vendored libraries; the tables of `urlify.js`; the
  polyfills, codecs and URL templates inside `coreapi-0.1.1.js`, which transform data;
  single listeners (`theme.js`, `nav_sidebar.js`, `filters.js`, `collapse.js`,
  `ajax-form.js`). Of the modelled scripts: markup, positions, labels, the time zone
  warning, today's highlight, the options of sibling selects.

## Work left

1. A restart of Redis as a fault of `LandingSystem`, with a promise that survives it.
2. The landing form composed with the endpoint, several tabs, and a lost answer that a
   visitor answers with another click.
3. Proofs: `DedupWindow` for each process of its own under `LocMem`; how many rows a lead
   can have in `LandingSystem` when things fail, from `OneMoreWritePerDeath`.
