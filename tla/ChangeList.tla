------------------------------ MODULE ChangeList ------------------------------
(***************************************************************************)
(* The change list of the admin site: rows with a check box each, the bar  *)
(* above them that counts the selection and offers to extend it to all     *)
(* pages, the Go and Save buttons (staticfiles/admin/js/actions.js).  The  *)
(* page can be left and come back, from the browser's page cache or loaded *)
(* again with its form restored.                                           *)
(***************************************************************************)
EXTENDS Naturals, FiniteSets

CONSTANT Rows   \* how many rows this page of the list has

(* The script is not started for a list without rows (actions.js:199-203). *)
RowsAssumption == Rows \in Nat /\ Rows > 0

VARIABLES
  checked,       \* the rows whose box is checked
  highlighted,   \* the rows with the class "selected"
  allToggle,     \* the box in the table's head
  bar,           \* the parts of the bar that are not hidden; the hidden input select_across
  count,         \* the number in the counter's text
  lastChecked,   \* the row changed last, 0 for none
  shiftPressed,  \* what the last key event said of the shift key
  listEditableChanged,
  chosen,        \* an action is chosen in the bar
  here,          \* the page is shown, not another one
  visit          \* history: how the page has come, the worst since it was loaded

listVars == <<checked, highlighted, allToggle, bar, count, lastChecked, shiftPressed,
              listEditableChanged, chosen, here, visit>>

Boxes == 1..Rows
Parts == {"question", "clear", "all", "counter"}
Visits == {"loaded", "cached", "restored"}

TypeOK ==
  /\ checked \subseteq Boxes /\ highlighted \subseteq Boxes
  /\ allToggle \in BOOLEAN
  /\ bar \in [shown : SUBSET Parts, across : {0, 1}]
  /\ count \in 0..Rows /\ lastChecked \in 0..Rows
  /\ shiftPressed \in BOOLEAN /\ listEditableChanged \in BOOLEAN
  /\ chosen \in BOOLEAN
  /\ here \in BOOLEAN /\ visit \in Visits

-----------------------------------------------------------------------------
(* The bar.                                                                *)
ShowQuestion(b) == [b EXCEPT !.shown = (@ \ {"clear", "all"}) \cup {"question"}]
ShowClear(b)    == [b EXCEPT !.shown = (@ \ {"question", "counter"}) \cup {"clear", "all"}]
Reset(b)        == [b EXCEPT !.shown = {"counter"}]

(* Mutant of ClearAcross: select_across keeps its value.                   *)
ClearAcrossKeeps(b) == Reset(b)

ClearAcross(b)  == [Reset(b) EXCEPT !.across = 0]

(* checker: targets get the state "on", in the boxes or in the highlights. *)
Checker(set, targets, on) == IF on THEN set \cup targets ELSE set \ targets
CheckerBar(b, on)         == IF on THEN ShowQuestion(b) ELSE Reset(b)

(* updateCounter, with which every handler ends: the selection is now sel. *)
UpdateCounter(sel, b) ==
  /\ checked' = sel
  /\ count' = Cardinality(sel)
  /\ allToggle' = (sel = Boxes)
  /\ bar' = IF sel = Boxes THEN ShowQuestion(b) ELSE ClearAcross(b)

(* The rows from lastChecked to the target, when shift is down.            *)
AffectedCheckboxes(target) ==
  IF shiftPressed /\ lastChecked \notin {0, target}
  THEN {b \in Boxes : \/ lastChecked <= b /\ b <= target
                      \/ target <= b /\ b <= lastChecked}
  ELSE {target}

(* What the template says of the bar.                                      *)
NewBar == [shown |-> {"counter"}, across |-> 0]

ListInit ==
  /\ checked = {} /\ highlighted = {} /\ allToggle = FALSE
  /\ bar = NewBar /\ count = 0
  /\ lastChecked = 0 /\ shiftPressed = FALSE
  /\ listEditableChanged = FALSE /\ chosen = FALSE
  /\ here = TRUE /\ visit = "loaded"

editing == <<listEditableChanged, chosen>>

-----------------------------------------------------------------------------
ToggleAll ==
  /\ here
  /\ highlighted' = Checker(highlighted, Boxes, ~allToggle)
  /\ UpdateCounter(Checker(checked, Boxes, ~allToggle), CheckerBar(bar, ~allToggle))
  /\ UNCHANGED <<lastChecked, shiftPressed, editing, here, visit>>

(* "Select all N": the link in the question.                               *)
SelectAcross ==
  /\ here /\ "question" \in bar.shown
  /\ bar' = ShowClear([bar EXCEPT !.across = 1])
  /\ UNCHANGED <<checked, highlighted, allToggle, count, lastChecked, shiftPressed,
                 editing, here, visit>>

(* "Clear selection".                                                      *)
ClearSelection ==
  /\ here /\ "clear" \in bar.shown
  /\ highlighted' = Checker(highlighted, Boxes, FALSE)
  /\ UpdateCounter({}, CheckerBar(ClearAcross(bar), FALSE))
  /\ UNCHANGED <<lastChecked, shiftPressed, editing, here, visit>>

(* Mutant of ChangeRow: of a range only the target's row is highlighted.   *)
ChangeRowNarrow(target) ==
  LET on == target \notin checked IN
  /\ here
  /\ highlighted' = Checker(highlighted, {target}, on)
  /\ UpdateCounter(Checker(checked, AffectedCheckboxes(target), on), CheckerBar(bar, on))
  /\ lastChecked' = target
  /\ UNCHANGED <<shiftPressed, editing, here, visit>>

(* The browser changes the target's box, then the handler runs.            *)
ChangeRow(target) ==
  LET on == target \notin checked
      affected == AffectedCheckboxes(target) IN
  /\ here
  /\ highlighted' = Checker(highlighted, affected, on)
  /\ UpdateCounter(Checker(checked, affected, on), CheckerBar(bar, on))
  /\ lastChecked' = target
  /\ UNCHANGED <<shiftPressed, editing, here, visit>>

Key(shift) ==
  /\ here
  /\ shiftPressed' = shift
  /\ UNCHANGED <<checked, highlighted, allToggle, bar, count, lastChecked, editing, here, visit>>

(* A field of the list is edited: any other change in the table.           *)
EditField ==
  /\ here
  /\ listEditableChanged' = TRUE
  /\ UNCHANGED <<checked, highlighted, allToggle, bar, count, lastChecked, shiftPressed,
                 chosen, here, visit>>

ChooseAction ==
  /\ here
  /\ \E c \in BOOLEAN : chosen' = c
  /\ UNCHANGED <<checked, highlighted, allToggle, bar, count, lastChecked, shiftPressed,
                 listEditableChanged, here, visit>>

(* Go and Save ask when something would be lost; a refusal changes nothing.*)
Go(confirmed) ==
  /\ here /\ (listEditableChanged => confirmed)
  /\ here' = FALSE
  /\ UNCHANGED <<checked, highlighted, allToggle, bar, count, lastChecked, shiftPressed,
                 editing, visit>>

Save(confirmed) ==
  /\ here /\ (chosen => confirmed)
  /\ here' = FALSE
  /\ UNCHANGED <<checked, highlighted, allToggle, bar, count, lastChecked, shiftPressed,
                 editing, visit>>

-----------------------------------------------------------------------------
(* The page comes back as it was; pageshow calls updateCounter.            *)
BackCached ==
  /\ ~here /\ here' = TRUE
  /\ visit' = IF visit = "loaded" THEN "cached" ELSE visit
  /\ UpdateCounter(checked, bar)
  /\ UNCHANGED <<highlighted, lastChecked, shiftPressed, editing>>

(* The page is loaded again: the script starts afresh on the template's    *)
(* classes, the browser puts back the values of the form.                  *)
BackRestored ==
  /\ ~here /\ here' = TRUE
  /\ visit' = "restored"
  /\ highlighted' = {} /\ lastChecked' = 0 /\ shiftPressed' = FALSE
  /\ listEditableChanged' = FALSE
  /\ UpdateCounter(checked, [NewBar EXCEPT !.across = bar.across])
  /\ UNCHANGED chosen

(* The list is opened again by a link or after the redirect.               *)
Load ==
  /\ ~here /\ here' = TRUE
  /\ visit' = "loaded"
  /\ highlighted' = {} /\ lastChecked' = 0 /\ shiftPressed' = FALSE
  /\ listEditableChanged' = FALSE /\ chosen' = FALSE
  /\ UpdateCounter({}, NewBar)

ListNext ==
  \/ ToggleAll \/ SelectAcross \/ ClearSelection
  \/ \E b \in Boxes : ChangeRow(b)
  \/ \E s \in BOOLEAN : Key(s)
  \/ EditField \/ ChooseAction
  \/ \E c \in BOOLEAN : Go(c) \/ Save(c)
  \/ BackCached \/ BackRestored \/ Load

ListSpec == ListInit /\ [][ListNext]_listVars

-----------------------------------------------------------------------------
(* An action runs on all pages of the list (select_across) only while      *)
(* every row of this page is checked and the head's box says so, however   *)
(* the page was left and came back.  Until it has come back from elsewhere *)
(* the bar says so too; then it may offer what is already set              *)
(* (showQuestion, called by the pageshow handler).                         *)
AcrossMeansAll ==
  /\ bar.across = 1 => checked = Boxes /\ allToggle
  /\ visit = "loaded" => (bar.across = 1 <=> "clear" \in bar.shown)

(* What looks selected is selected, ranges included, and is what the       *)
(* counter says, unless the browser restored the boxes by itself.          *)
LooksSelected ==
  /\ visit # "restored" => highlighted = checked
  /\ "counter" \in bar.shown => count = Cardinality(checked)
=============================================================================
