----------------------------- MODULE SelectFilter -----------------------------
(***************************************************************************)
(* The two-box widget of the admin forms: options are moved between        *)
(* "available" and "chosen", both can be filtered, and what is submitted   *)
(* is the chosen box (staticfiles/admin/js/SelectBox.js, SelectFilter2.js).*)
(* Each box exists twice: as a cache that knows all its options and as the *)
(* <select> of the page, which shows those that pass the filter.           *)
(***************************************************************************)
EXTENDS JsArrays

CONSTANTS
  Values,    \* the options the page is loaded with
  Later,     \* options a popup can add ("+" beside the widget)
  Texts      \* what can be typed into a filter, each as the options it matches

ASSUME WidgetAssumption ==
  IsFiniteSet(Values) /\ IsFiniteSet(Later) /\ Texts \subseteq SUBSET (Values \cup Later)

VARIABLES
  boxes,        \* boxes[s]: cache, hidden (displayed = 0), shown and selected options
  typed,        \* typed[s]: the text in the filter input
  active,       \* the links with the class "active"
  warned,       \* the number in "n selected options not visible"
  sentOptions,  \* what was submitted
  submitted

filterVars == <<boxes, typed, active, warned, sentOptions, submitted>>

Sides   == {"from", "to"}
Other(s) == IF s = "from" THEN "to" ELSE "from"
Links   == {"add", "remove", "add_all", "remove_all"}
Source(l) == IF l \in {"add", "add_all"} THEN "from" ELSE "to"
Options == Values \cup Later

-----------------------------------------------------------------------------
(* SelectBox.                                                              *)
(* The options of s that are in S, in the order of s.                      *)
Only(s, S) ==
  LET only[n \in 0..Len(s)] ==
        IF n = 0 THEN <<>>
        ELSE IF s[n] \in S THEN Append(only[n - 1], s[n]) ELSE only[n - 1]
  IN  only[Len(s)]

Redisplay(b) ==
  [b EXCEPT !.shown = Only(b.cache, Range(b.cache) \ b.hidden), !.selected = {}]

Filter(b, text) == Redisplay([b EXCEPT !.hidden = Range(b.cache) \ text])

AddToCache(b, v) == [b EXCEPT !.cache = Append(@, v), !.hidden = @ \ {v}]

(* Mutant of DeleteFromCache: by position in the box, not by value.        *)
DeleteByPosition(b, v) == [b EXCEPT !.cache = Splice(@, IndexOf(b.shown, v))]

DeleteFromCache(b, v) == [b EXCEPT !.cache = Splice(@, IndexOf(@, v))]

(* One turn of the loop of move and move_all.                              *)
MoveOption(bs, s, v) ==
  IF v \in Range(bs[s].cache)
  THEN [bs EXCEPT ![Other(s)] = AddToCache(@, v), ![s] = DeleteFromCache(@, v)]
  ELSE bs

Transfer(bs, s, picked) ==
  LET turn[n \in 0..Len(picked)] ==
        IF n = 0 THEN bs ELSE MoveOption(turn[n - 1], s, picked[n])
  IN  [t \in Sides |-> Redisplay(turn[Len(picked)][t])]

Move(bs, s) == Transfer(bs, s, Only(bs[s].shown, bs[s].selected))

(* move_all takes what the box shows.                                      *)
MoveAll(bs, s) == Transfer(bs, s, bs[s].shown)

(* selectedIndex, from 1, 0 for none.                                      *)
SelectedIndex(b) ==
  IF b.selected = {} THEN 0 ELSE Min({i \in DOMAIN b.shown : b.shown[i] \in b.selected})

SelectIndex(b, i) ==
  [b EXCEPT !.selected = IF i \in DOMAIN b.shown THEN {b.shown[i]} ELSE {}]

-----------------------------------------------------------------------------
(* SelectFilter: what the page says of the boxes.                          *)
HiddenCount(bs) == Cardinality(bs["to"].hidden)

RefreshIcons(bs) ==
  {l \in {"add", "remove"} : bs[Source(l)].selected # {}} \cup
  {l \in {"add_all", "remove_all"} : bs[Source(l)].shown # <<>>}

RefreshFilteredSelects(bs) == [s \in Sides |-> Filter(bs[s], typed[s])]

Loaded(chosen) ==
  LET all == CHOOSE f \in Bijection(1..Cardinality(Values), Values) : TRUE
      from == [cache |-> all, hidden |-> {}, shown |-> all, selected |-> chosen]
      none == [cache |-> <<>>, hidden |-> {}, shown |-> <<>>, selected |-> {}]
  IN  Move([s \in Sides |-> IF s = "from" THEN from ELSE none], "from")

(* init: the options selected in the template are moved to the new box.    *)
FilterInit ==
  /\ \E chosen \in SUBSET Values : boxes = Loaded(chosen)
  /\ typed = [s \in Sides |-> Options]
  /\ active = RefreshIcons(boxes)
  /\ warned = 0
  /\ sentOptions = {} /\ submitted = FALSE

rest == <<sentOptions, submitted>>

-----------------------------------------------------------------------------
(* The user marks options of a box: the change event.                      *)
Mark(s, marked) ==
  /\ ~submitted
  /\ marked \subseteq Range(boxes[s].shown)
  /\ boxes' = [boxes EXCEPT ![s].selected = marked]
  /\ active' = RefreshIcons(boxes') /\ warned' = HiddenCount(boxes')
  /\ UNCHANGED <<typed, rest>>

(* Mutant of ClickLink: the warning is that of before the filters.         *)
ClickLinkWarnsEarly(l) ==
  LET moved == IF l \in {"add_all", "remove_all"} THEN MoveAll(boxes, Source(l))
                                                  ELSE Move(boxes, Source(l))
  IN
  /\ ~submitted /\ l \in active
  /\ active' = RefreshIcons(moved)
  /\ boxes' = RefreshFilteredSelects(moved)
  /\ warned' = HiddenCount(moved)
  /\ UNCHANGED <<typed, rest>>

(* move_selection: the icons are refreshed before the filters apply again. *)
ClickLink(l) ==
  LET moved == IF l \in {"add_all", "remove_all"} THEN MoveAll(boxes, Source(l))
                                                  ELSE Move(boxes, Source(l))
  IN
  /\ ~submitted /\ l \in active
  /\ active' = RefreshIcons(moved)
  /\ boxes' = RefreshFilteredSelects(moved)
  /\ warned' = HiddenCount(boxes')
  /\ UNCHANGED <<typed, rest>>

(* A double click marks one option and moves it; filters are not applied.  *)
DoubleClick(s, v) ==
  /\ ~submitted /\ v \in Range(boxes[s].shown)
  /\ boxes' = Move([boxes EXCEPT ![s].selected = {v}], s)
  /\ active' = RefreshIcons(boxes') /\ warned' = HiddenCount(boxes')
  /\ UNCHANGED <<typed, rest>>

(* The footer under the chosen box clears its filter.                      *)
ClearFilter ==
  /\ ~submitted
  /\ typed' = [typed EXCEPT !["to"] = Options]
  /\ boxes' = [boxes EXCEPT !["to"] = Filter(@, Options)]
  /\ active' = RefreshIcons(boxes') /\ warned' = HiddenCount(boxes')
  /\ UNCHANGED rest

(* Keys in a filter input.  The text changes between keydown and keyup.    *)
Type(s, text) ==
  /\ ~submitted
  /\ typed' = [typed EXCEPT ![s] = text]
  /\ UNCHANGED <<boxes, active, warned, rest>>

FilterKeyUp(s) ==
  /\ ~submitted
  /\ boxes' = [boxes EXCEPT ![s] = SelectIndex(Filter(@, typed[s]), SelectedIndex(@))]
  /\ active' = RefreshIcons(boxes') /\ warned' = HiddenCount(boxes')
  /\ UNCHANGED <<typed, rest>>

(* filter_key_press, Enter: moves the first option of the box.             *)
FilterKeyEnter(s) ==
  LET moved == Move([boxes EXCEPT ![s] = SelectIndex(@, 1)], s) IN
  /\ ~submitted
  /\ boxes' = [moved EXCEPT ![s] = SelectIndex(@, 1)]
  /\ UNCHANGED <<typed, active, warned, rest>>

(* filter_key_down, the arrow that points to the other box.                *)
FilterKeyAcross(s) ==
  LET old      == SelectedIndex(boxes[s])
      filtered == RefreshFilteredSelects(Move(boxes, s))
      len      == Len(filtered[s].shown)
  IN
  /\ ~submitted
  /\ boxes' = [filtered EXCEPT ![s] = SelectIndex(@, IF old = len + 1 THEN len ELSE old)]
  /\ warned' = HiddenCount(boxes')
  /\ UNCHANGED <<typed, active, rest>>

(* filter_key_down, down and up: the mark wraps around.                    *)
FilterKeyVertical(s) ==
  LET old == SelectedIndex(boxes[s])
      len == Len(boxes[s].shown)
  IN
  /\ ~submitted
  /\ \E i \in {IF old = len THEN 1 ELSE old + 1, IF old = 1 THEN len ELSE old - 1} :
       boxes' = [boxes EXCEPT ![s] = SelectIndex(@, i)]
  /\ UNCHANGED <<typed, active, warned, rest>>

(* dismissAddRelatedObjectPopup: a new object, added to the chosen ones.   *)
PopupAdds(v) ==
  /\ ~submitted
  /\ \A s \in Sides : v \notin Range(boxes[s].cache)
  /\ boxes' = [boxes EXCEPT !["to"] = Redisplay(AddToCache(@, v))]
  /\ UNCHANGED <<typed, active, warned, rest>>

(* Mutant of SubmitBoxes: what the box shows.                              *)
SubmitShown ==
  /\ ~submitted /\ submitted' = TRUE
  /\ sentOptions' = Range(boxes["to"].shown)
  /\ UNCHANGED <<boxes, typed, active, warned>>

(* The form is sent: the filter of the chosen box is lifted, all marked.   *)
SubmitBoxes ==
  LET full == Filter(boxes["to"], Options) IN
  /\ ~submitted /\ submitted' = TRUE
  /\ sentOptions' = Range(full.shown)
  /\ boxes' = [boxes EXCEPT !["to"] = [full EXCEPT !.selected = Range(full.shown)]]
  /\ UNCHANGED <<typed, active, warned>>

FilterNext ==
  \/ \E s \in Sides, marked \in SUBSET Options : Mark(s, marked)
  \/ \E l \in Links : ClickLink(l)
  \/ \E s \in Sides, v \in Options : DoubleClick(s, v)
  \/ ClearFilter
  \/ \E s \in Sides, text \in Texts : Type(s, text)
  \/ \E s \in Sides : \/ FilterKeyUp(s) \/ FilterKeyEnter(s)
                      \/ FilterKeyAcross(s) \/ FilterKeyVertical(s)
  \/ \E v \in Later : PopupAdds(v)
  \/ SubmitBoxes

FilterSpec == FilterInit /\ [][FilterNext]_filterVars

-----------------------------------------------------------------------------
Places(v, s) == {i \in DOMAIN boxes[s].cache : boxes[s].cache[i] = v}

(* Whatever is moved, filtered and added, an option is in exactly one of   *)
(* the two boxes (add_to_cache and delete_from_cache agree).               *)
NothingLost ==
  /\ \A v \in Values : Cardinality(Places(v, "from")) + Cardinality(Places(v, "to")) = 1
  /\ \A v \in Later  : Cardinality(Places(v, "from")) + Cardinality(Places(v, "to")) <= 1

(* The server gets all chosen options, those the filter hides included.    *)
SentIsChosen == submitted => sentOptions = Range(boxes["to"].cache)

(* The warning under the chosen box counts what is hidden in it, through   *)
(* every order of moves and filters.                                       *)
WarningIsTrue ==
  ~submitted =>
    warned = Cardinality(Range(boxes["to"].cache) \ Range(boxes["to"].shown))
=============================================================================
