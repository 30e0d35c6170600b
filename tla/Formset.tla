------------------------------- MODULE Formset --------------------------------
(***************************************************************************)
(* The rows of an inline formset in the admin's change form: "Add another" *)
(* copies the empty form, the X of an unsaved row removes it and numbers   *)
(* the others again (staticfiles/admin/js/inlines.js).  The server reads   *)
(* the rows prefix-0 .. prefix-(TOTAL_FORMS - 1) and nothing else.         *)
(***************************************************************************)
EXTENDS Integers, Sequences

CONSTANTS
  MinForms, MaxForms,   \* MIN_NUM_FORMS and MAX_NUM_FORMS
  MaxLoaded             \* bound on the rows the page comes with

FormsetAssumption ==
  MinForms \in Nat /\ MaxForms \in Nat /\ MaxLoaded \in Nat /\ MinForms <= MaxLoaded

VARIABLES
  rows,        \* the rows in page order: was it saved, its id, the index in its fields' names
  total,       \* the hidden input TOTAL_FORMS
  nextIndex,   \* the index of the next row, kept in a closure
  addShown,    \* the "Add another" button is shown
  deleteShown  \* the X buttons are shown

formset == <<rows, total, nextIndex, addShown, deleteShown>>

RowOf(saved, id, ndx) == [saved |-> saved, id |-> id, ndx |-> ndx]
Row == [saved : BOOLEAN, id : Nat, ndx : Nat]

(* updateElementIndex on every row and all that is in it.                  *)
Renumber(rs) == [i \in DOMAIN rs |-> RowOf(rs[i].saved, i - 1, i - 1)]

Without(s, k) == [i \in 1..(Len(s) - 1) |-> IF i < k THEN s[i] ELSE s[i + 1]]

(* toggleDeleteButtonVisibility; the add button is shown below the maximum.*)
DeleteVisible(n) == MinForms - n < 0
AddVisible(n)    == MaxForms - n > 0

(* The page as the server renders it: saved rows first, then empty ones.   *)
FormsetInit ==
  /\ \E n \in MinForms..MaxLoaded, saved \in 0..MaxLoaded :
       rows = [i \in 1..n |-> RowOf(i <= saved, i - 1, i - 1)]
  /\ total = Len(rows) /\ nextIndex = Len(rows)
  /\ addShown = AddVisible(Len(rows))
  /\ deleteShown = DeleteVisible(Len(rows))

(* addInlineClickHandler: the row is numbered with nextIndex, the fields   *)
(* in it with TOTAL_FORMS.                                                 *)
AddRow ==
  /\ addShown
  /\ rows' = Append(rows, RowOf(FALSE, nextIndex, total))
  /\ total' = total + 1
  /\ nextIndex' = nextIndex + 1
  /\ addShown' = (AddVisible(total') /\ addShown)
  /\ deleteShown' = DeleteVisible(total')

(* Mutant of DeleteRow: the closure's index is forgotten.                  *)
DeleteRowKeepsIndex(k) ==
  /\ deleteShown /\ k \in DOMAIN rows /\ ~rows[k].saved
  /\ rows' = Renumber(Without(rows, k))
  /\ total' = Len(rows')
  /\ nextIndex' = nextIndex
  /\ addShown' = (AddVisible(Len(rows')) \/ addShown)
  /\ deleteShown' = DeleteVisible(total')

(* inlineDeleteHandler of the k-th row.                                    *)
DeleteRow(k) ==
  /\ deleteShown /\ k \in DOMAIN rows /\ ~rows[k].saved
  /\ rows' = Renumber(Without(rows, k))
  /\ total' = Len(rows')
  /\ nextIndex' = nextIndex - 1
  /\ addShown' = (AddVisible(Len(rows')) \/ addShown)
  /\ deleteShown' = DeleteVisible(total')

FormsetNext == AddRow \/ \E k \in DOMAIN rows : DeleteRow(k)
FormsetSpec == FormsetInit /\ [][FormsetNext]_formset

-----------------------------------------------------------------------------
(* Whatever was added and removed, the rows are named 0, 1, 2 .. in page   *)
(* order, TOTAL_FORMS counts them all, and the next one gets a new name.   *)
NamesAreInSequence ==
  /\ \A i \in DOMAIN rows : rows[i].id = i - 1 /\ rows[i].ndx = i - 1
  /\ total = Len(rows) /\ nextIndex = Len(rows)

(* Buttons keep the number of rows within what the server accepts: adding  *)
(* stops at MAX_NUM_FORMS, removing at MIN_NUM_FORMS.                      *)
StaysWithinLimits ==
  [][/\ Len(rows') > Len(rows) => Len(rows') <= MaxForms
     /\ Len(rows') < Len(rows) => Len(rows') >= MinForms]_formset
=============================================================================
