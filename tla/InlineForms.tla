----------------------------- MODULE InlineForms ------------------------------
(***************************************************************************)
(* What the scripts on a change form do to the fields of inline rows when  *)
(* the rows are numbered again (inlines.js): the two-box widget keeps the  *)
(* id it was made with, both in its handlers (SelectFilter2.js) and as the *)
(* key of SelectBox.cache (SelectBox.js); a slug keeps the ids of the      *)
(* fields it is made of (prepopulate.js).  A lookup by such an id finds    *)
(* the row that has it now, or none, which ends the handler.  There is     *)
(* one option to choose and one title, so a box is a Boolean.              *)
(***************************************************************************)
EXTENDS Formset

VARIABLES
  fields,    \* fields[i]: those of rows[i]; id is what its handlers were given
  cache,     \* SelectBox.cache: for the id of a chosen box, whether it has the option
  stable,    \* history: rows before this position were never numbered again
  sent,      \* the chosen boxes as submitted
  seen       \* history: the chosen boxes as they were seen before

inlineVars == <<formset, fields, cache, stable, sent, seen>>

none == <<>>
Ids == 0..(IF MaxForms > MaxLoaded THEN MaxForms ELSE MaxLoaded) - 1
Titles == {"", "title"}

(* A saved row comes with its slug; prepopulate then binds nothing.        *)
Field(saved, id, chosen) ==
  [id |-> id, chosen |-> chosen, title |-> IF saved THEN "title" ELSE "",
   slug |-> IF saved THEN "saved" ELSE "", bound |-> ~saved, changed |-> FALSE]

-----------------------------------------------------------------------------
(* SelectFilter.init on the rows the page comes with.                      *)
InlineInit ==
  /\ FormsetInit
  /\ \E c \in [Ids -> BOOLEAN] :
       /\ \A i \in Ids : i >= Len(rows) => ~c[i]
       /\ fields = [i \in DOMAIN rows |-> Field(rows[i].saved, i - 1, c[i - 1])]
       /\ cache = [i \in 0..(Len(rows) - 1) |-> c[i]]
  /\ stable = MaxForms + MaxLoaded
  /\ sent = none /\ seen = none

open == sent = none

(* The row found by document.getElementById.                               *)
Found(id) == {i \in DOMAIN rows : rows[i].ndx = id}

(* Mutant of Add: the cache keeps what it has for this id.                 *)
AddKeepsCache ==
  /\ open /\ AddRow
  /\ fields' = Append(fields, Field(FALSE, total, FALSE))
  /\ cache' = [i \in DOMAIN cache \cup {total} |-> i \in DOMAIN cache /\ cache[i]]
  /\ UNCHANGED <<stable, sent, seen>>

(* added: the new row's widget is made, under its name of now.             *)
Add ==
  /\ open /\ AddRow
  /\ fields' = Append(fields, Field(FALSE, total, FALSE))
  /\ cache' = [i \in DOMAIN cache \cup {total} |-> i # total /\ cache[i]]
  /\ UNCHANGED <<stable, sent, seen>>

(* removed: the row goes, what its widget registered stays, and the rows   *)
(* after it are numbered again.                                            *)
Remove(k) ==
  /\ open /\ DeleteRow(k)
  /\ fields' = Without(fields, k)
  /\ stable' = IF k < stable /\ k < Len(rows) THEN k ELSE stable
  /\ UNCHANGED <<cache, sent, seen>>

(* "Choose all" and "Remove all" of row i: SelectBox.move_all, then the    *)
(* icons.  Only the link that is active does it: the one of the box that   *)
(* the row shows filled.                                                   *)
MoveAllInRow(i) ==
  /\ open
  /\ \E d \in Found(fields[i].id) :
       LET id   == fields[i].id
           to   == ~fields[i].chosen
           kept == IF fields[d].chosen = cache[id] /\ cache[id] # to THEN to ELSE cache[id]
       IN  /\ cache' = [cache EXCEPT ![id] = kept]
           /\ fields' = [fields EXCEPT ![d].chosen = kept]
  /\ UNCHANGED <<formset, stable, sent, seen>>

(* Mutant of Populate: it does not look whether the slug was edited.       *)
PopulateAlways(i, typed) ==
  LET fs == [fields EXCEPT ![i].title = typed] IN
  /\ open
  /\ fields' = IF fields[i].bound /\ Found(fields[i].id) # {}
               THEN [fs EXCEPT ![i].slug = fs[CHOOSE d \in Found(fields[i].id) : TRUE].title]
               ELSE fs
  /\ UNCHANGED <<formset, cache, stable, sent, seen>>

(* Keys in the title of row i; populate, unless the slug was edited.       *)
Populate(i, typed) ==
  LET fs == [fields EXCEPT ![i].title = typed] IN
  /\ open
  /\ fields' = IF fields[i].bound /\ ~fields[i].changed /\ Found(fields[i].id) # {}
               THEN [fs EXCEPT ![i].slug = fs[CHOOSE d \in Found(fields[i].id) : TRUE].title]
               ELSE fs
  /\ UNCHANGED <<formset, cache, stable, sent, seen>>

EditSlug(i) ==
  /\ open
  /\ fields' = [fields EXCEPT ![i].slug = "own", ![i].changed = TRUE]
  /\ UNCHANGED <<formset, cache, stable, sent, seen>>

(* Every widget made on this page filters and marks the box of its id.     *)
SubmitRows ==
  /\ open /\ Len(rows) > 0
  /\ seen' = [i \in DOMAIN rows |-> fields[i].chosen]
  /\ sent' = [i \in DOMAIN rows |-> cache[rows[i].ndx]]
  /\ fields' = [i \in DOMAIN fields |-> [fields[i] EXCEPT !.chosen = sent'[i]]]
  /\ UNCHANGED <<formset, cache, stable>>

InlineNext ==
  \/ Add \/ SubmitRows
  \/ \E k \in DOMAIN rows :
       \/ Remove(k) \/ MoveAllInRow(k) \/ EditSlug(k)
       \/ \E typed \in Titles : Populate(k, typed)

InlineSpec == InlineInit /\ [][InlineNext]_inlineVars

-----------------------------------------------------------------------------
(* A row is submitted with the choices it shows, and shows what SelectBox  *)
(* holds for it, as long as no row before it was removed.  (For the others *)
(* this fails: they get the choices of the row before them.)               *)
SentIsShown ==
  /\ \A i \in DOMAIN sent : i < stable => sent[i] = seen[i]
  /\ \A i \in DOMAIN rows : i < stable => fields[i].chosen = cache[rows[i].ndx]

(* A slug its user has edited is never replaced, whatever is typed into    *)
(* any row and whichever rows come and go; an unedited slug of a new row   *)
(* is that of its own row's title, as long as no row before it was removed.*)
SlugIsOwn ==
  \A i \in DOMAIN fields :
    IF fields[i].changed THEN fields[i].slug = "own"
    ELSE i < stable /\ fields[i].bound => fields[i].slug = fields[i].title
=============================================================================
