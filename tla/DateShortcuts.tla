---------------------------- MODULE DateShortcuts -----------------------------
(***************************************************************************)
(* The "Today"/"Now" links, the calendar and clock boxes beside the date   *)
(* and time inputs of the admin (staticfiles/admin/js/admin/               *)
(* DateTimeShortcuts.js).  init gives every input a number and a box; the  *)
(* inline forms call it again after each added row, when they have thrown  *)
(* away all links but none of the boxes (inlines.js).                      *)
(***************************************************************************)
EXTENDS Naturals, Sequences, FiniteSets

CONSTANTS
  Inputs,     \* date and time inputs that may be in the page
  Clocks,     \* those with the class vTimeField
  MaxNums     \* bound on the numbers given out

DateShortcutsAssumption == IsFiniteSet(Inputs)

VARIABLES
  page,        \* the inputs in the page
  numbers,     \* calendarInputs and clockInputs: the input each number was given to
  linked,      \* the numbers whose links are in the page
  shown,       \* the numbers whose box is displayed
  listening,   \* the numbers whose dismiss function listens to clicks on the document
  picked       \* history: for each input, the number that wrote it last; 0 for none

shortcutVars == <<page, numbers, linked, shown, listening, picked>>

Nums == DOMAIN numbers

(* init: addClock or addCalendar for every input of the page.              *)
Numbered(inputs) ==
  {s \in [1..Cardinality(inputs) -> inputs] : {s[i] : i \in DOMAIN s} = inputs}

(* Mutant of Reinit: the links of before stay.                             *)
ReinitKeepsLinks(inputs) ==
  /\ Len(numbers) + Cardinality(inputs) <= MaxNums
  /\ \E s \in Numbered(inputs) : numbers' = numbers \o s
  /\ linked' = linked \cup {n \in DOMAIN numbers' : n > Len(numbers)}
  /\ page' = inputs

Reinit(inputs) ==
  /\ Len(numbers) + Cardinality(inputs) <= MaxNums
  /\ \E s \in Numbered(inputs) : numbers' = numbers \o s
  /\ linked' = {n \in DOMAIN numbers' : n > Len(numbers)}
  /\ page' = inputs

ShortcutInit ==
  /\ \E inputs \in SUBSET Inputs : \E s \in Numbered(inputs) :
       /\ page = inputs /\ numbers = s /\ linked = DOMAIN s
  /\ shown = {} /\ listening = {}
  /\ picked = [i \in Inputs |-> 0]

-----------------------------------------------------------------------------
(* An inline row with the input i is added, or removed with its links.     *)
(* Both buttons are links outside the boxes: a click elsewhere, below.     *)
Clicked == /\ shown' = shown \ listening
           /\ listening' = {}

AddInput(i) ==
  /\ i \notin page
  /\ Reinit(page \cup {i})
  /\ Clicked
  /\ UNCHANGED picked

RemoveInput(i) ==
  /\ i \in page
  /\ page' = page \ {i}
  /\ linked' = {n \in linked : numbers[n] # i}
  /\ Clicked
  /\ UNCHANGED <<numbers, picked>>

(* Mutant of Open: it listens only when no box does yet.                   *)
OpenListensOnce(n) ==
  /\ n \in linked
  /\ shown' = shown \cup {n}
  /\ listening' = IF listening = {} THEN {n} ELSE listening
  /\ UNCHANGED <<page, numbers, linked, picked>>

(* openClock, openCalendar: stopPropagation keeps the click from the other *)
(* boxes, which stay.                                                      *)
Open(n) ==
  /\ n \in linked
  /\ shown' = shown \cup {n}
  /\ listening' = listening \cup {n}
  /\ UNCHANGED <<page, numbers, linked, picked>>

(* dismissClock, dismissCalendar.                                          *)
Dismiss(nums) ==
  /\ shown' = shown \ nums
  /\ listening' = listening \ nums

Writes(n) == picked' = [picked EXCEPT ![numbers[n]] = n]

(* A day of the calendar: it hides the box and leaves the listener.        *)
PickDay(n) ==
  /\ n \in shown /\ numbers[n] \notin Clocks
  /\ Writes(n)
  /\ shown' = shown \ {n}
  /\ UNCHANGED <<page, numbers, linked, listening>>

(* A quick link in the box: handleClockQuicklink, handleCalendarQuickLink. *)
PickInBox(n) ==
  /\ n \in shown
  /\ Writes(n) /\ Dismiss({n})
  /\ UNCHANGED <<page, numbers, linked>>

(* The link beside the input: the click also reaches the document.         *)
PickByLink(n) ==
  /\ n \in linked
  /\ Writes(n) /\ Dismiss({n} \cup listening)
  /\ UNCHANGED <<page, numbers, linked>>

Cancel(n) ==
  /\ n \in shown
  /\ Dismiss({n})
  /\ UNCHANGED <<page, numbers, linked, picked>>

Escape ==
  /\ Dismiss(Nums)
  /\ UNCHANGED <<page, numbers, linked, picked>>

ClickElsewhere ==
  /\ Clicked
  /\ UNCHANGED <<page, numbers, linked, picked>>

ShortcutNext ==
  \/ \E i \in Inputs : AddInput(i) \/ RemoveInput(i)
  \/ \E n \in Nums : \/ Open(n) \/ PickDay(n) \/ PickInBox(n)
                     \/ PickByLink(n) \/ Cancel(n)
  \/ Escape \/ ClickElsewhere

ShortcutSpec == ShortcutInit /\ [][ShortcutNext]_shortcutVars

-----------------------------------------------------------------------------
(* However often the rows change under them, a box that is displayed is    *)
(* closed by the next click elsewhere: its dismiss function listens.       *)
ShownBoxesListen == shown \subseteq listening

(* After any number of init calls each input of the page has one pair of   *)
(* links, and no link writes to an input that has gone.                    *)
OneLinkPerInput ==
  /\ \A i \in page : Cardinality({n \in linked : numbers[n] = i}) = 1
  /\ \A n \in linked : numbers[n] \in page

(* A box never writes into an input whose row was removed, although the    *)
(* box itself is not: the click that removes the row closes it.            *)
WritesGoToThePage ==
  [][\A i \in Inputs : picked'[i] # picked[i] => i \in page]_shortcutVars
=============================================================================
