--------------------------- MODULE AdminChoiceProofs ---------------------------
(***************************************************************************)
(* What an administrator chooses: the rows of a change list (ChangeList),  *)
(* for any number of rows on the page, the options of a two-box filter     *)
(* (SelectFilter), for any options, and the windows in which a related     *)
(* object is chosen (RelatedPopups), down to any level.                    *)
(***************************************************************************)
EXTENDS ChangeList, SelectFilter, RelatedPopups, FiniteSetTheorems, SequenceTheorems,
        WellFoundedInduction, TLAPS

-----------------------------------------------------------------------------
(* The change list.                                                        *)

(* The question can be answered only while all is selected, the number     *)
(* that is kept is the number of rows checked, and what the properties say.*)
ListInv ==
  /\ TypeOK
  /\ "question" \in bar.shown \/ bar.across = 1 => checked = Boxes /\ allToggle
  /\ visit = "loaded" => (bar.across = 1 <=> "clear" \in bar.shown)
  /\ visit # "restored" => highlighted = checked
  /\ count = Cardinality(checked)

Bar == [shown : SUBSET Parts, across : {0, 1}]

LEMMA Counted ==
  ASSUME RowsAssumption, NEW sel \in SUBSET Boxes
  PROVE  Cardinality(sel) \in 0..Rows
<1>1. IsFiniteSet(Boxes) /\ Cardinality(Boxes) = Rows
  BY FS_Interval DEF Boxes, RowsAssumption
<1>2. IsFiniteSet(sel) /\ Cardinality(sel) <= Rows
  BY <1>1, FS_Subset
<1> QED
  BY <1>2, FS_CardinalityType DEF RowsAssumption

(* What each function on the bar does to its parts.                        *)
LEMMA BarParts ==
  ASSUME NEW b \in Bar
  PROVE  /\ ShowQuestion(b) \in Bar /\ ShowQuestion(b).across = b.across
         /\ "clear" \notin ShowQuestion(b).shown
         /\ ShowClear(b) \in Bar /\ ShowClear(b).across = b.across
         /\ "clear" \in ShowClear(b).shown /\ "question" \notin ShowClear(b).shown
         /\ Reset(b) \in Bar /\ Reset(b).across = b.across /\ Reset(b).shown = {"counter"}
         /\ ClearAcross(b) \in Bar /\ ClearAcross(b).across = 0
         /\ ClearAcross(b).shown = {"counter"}
BY DEF Bar, Parts, ShowQuestion, ShowClear, Reset, ClearAcross

(* updateCounter, whatever was done to boxes and bar before it: unless all *)
(* is selected the bar is reset, and select_across with it.                *)
LEMMA CounterUpdated ==
  ASSUME RowsAssumption, NEW sel \in SUBSET Boxes, NEW b \in Bar, UpdateCounter(sel, b)
  PROVE  /\ checked' = sel /\ checked' \subseteq Boxes
         /\ count' \in 0..Rows /\ count' = Cardinality(checked')
         /\ allToggle' \in BOOLEAN /\ bar' \in Bar
         /\ "question" \in bar'.shown \/ bar'.across = 1 => checked' = Boxes /\ allToggle'
         /\ "clear" \notin bar'.shown
         /\ bar'.across = 1 => sel = Boxes /\ b.across = 1
<1>1. checked' = sel /\ count' = Cardinality(sel) /\ count' \in 0..Rows
  BY Counted DEF UpdateCounter
<1>2. CASE sel = Boxes
  <2>1. allToggle' = TRUE /\ bar' = ShowQuestion(b)
    BY <1>2 DEF UpdateCounter
  <2> QED
    BY <1>1, <1>2, <2>1, BarParts
<1>3. CASE sel # Boxes
  <2>1. allToggle' = FALSE /\ bar' = ClearAcross(b)
    BY <1>3 DEF UpdateCounter
  <2>2. bar' \in Bar /\ bar'.across = 0 /\ bar'.shown = {"counter"}
    BY <2>1, BarParts
  <2>3. "question" \notin bar'.shown /\ "clear" \notin bar'.shown
    BY <2>2
  <2>4. allToggle' \in BOOLEAN
    BY <2>1, Zenon
  <2>5. ~(bar'.across = 1)
    BY <2>2
  <2> QED
    BY <1>1, <2>2, <2>3, <2>4, <2>5, Zenon
<1> QED
  BY <1>2, <1>3

(* A handler that ends with updateCounter keeps the invariant when it has  *)
(* not extended the selection of a page on which all was selected before.  *)
LEMMA UpdateKeepsInv ==
  ASSUME RowsAssumption, ListInv, NEW sel \in SUBSET Boxes, NEW b \in Bar,
         UpdateCounter(sel, b),
         highlighted' \subseteq Boxes /\ lastChecked' \in 0..Rows /\ shiftPressed' \in BOOLEAN,
         listEditableChanged' \in BOOLEAN /\ chosen' \in BOOLEAN,
         here' \in BOOLEAN /\ visit' \in Visits,
         visit' = "loaded" => sel # Boxes \/ b.across = 0,
         visit' # "restored" => highlighted' = sel
  PROVE  ListInv'
<1>1. /\ checked' = sel /\ checked' \subseteq Boxes
      /\ count' \in 0..Rows /\ count' = Cardinality(checked')
      /\ allToggle' \in BOOLEAN /\ bar' \in Bar
      /\ "question" \in bar'.shown \/ bar'.across = 1 => checked' = Boxes /\ allToggle'
      /\ "clear" \notin bar'.shown
      /\ bar'.across = 1 => sel = Boxes /\ b.across = 1
  BY CounterUpdated
<1>2. TypeOK'
  BY <1>1 DEF TypeOK, Bar
<1> QED
  BY <1>1, <1>2 DEF ListInv

(* Nothing but the selection, its bar and its counter matters to the rest. *)
LEMMA OthersKeepInv ==
  ASSUME ListInv, UNCHANGED <<checked, highlighted, allToggle, bar, count, lastChecked, visit>>,
         shiftPressed' \in BOOLEAN, listEditableChanged' \in BOOLEAN,
         chosen' \in BOOLEAN, here' \in BOOLEAN
  PROVE  ListInv'
BY DEF ListInv, TypeOK

-----------------------------------------------------------------------------
LEMMA ListInvInit ==
  ASSUME RowsAssumption, ListInit
  PROVE  ListInv
<1>1. bar = [shown |-> {"counter"}, across |-> 0]
  BY DEF ListInit, NewBar
<1>2. bar.across = 0 /\ bar.shown = {"counter"} /\ bar \in Bar
  BY <1>1 DEF Bar, Parts
<1>3. "question" \notin bar.shown /\ "clear" \notin bar.shown
  BY <1>2
<1>4. Cardinality(checked) = 0
  BY FS_EmptySet DEF ListInit
<1>5. TypeOK
  <2>1. allToggle \in BOOLEAN /\ shiftPressed \in BOOLEAN /\ listEditableChanged \in BOOLEAN
    BY Zenon DEF ListInit
  <2>2. chosen \in BOOLEAN /\ here \in BOOLEAN
    BY Zenon DEF ListInit
  <2>3. checked \subseteq Boxes /\ highlighted \subseteq Boxes /\ count \in 0..Rows
        /\ lastChecked \in 0..Rows /\ visit \in Visits
    BY DEF ListInit, Visits, RowsAssumption
  <2> QED
    BY <1>2, <2>1, <2>2, <2>3 DEF TypeOK, Bar
<1>6. bar.across # 1
  BY <1>2
<1> QED
  BY <1>3, <1>4, <1>5, <1>6, Zenon DEF ListInv, ListInit

LEMMA ToggleAllKeepsInv ==
  ASSUME RowsAssumption, ListInv, ToggleAll
  PROVE  ListInv'
<1> DEFINE sel == Checker(checked, Boxes, ~allToggle)
           b   == CheckerBar(bar, ~allToggle)
<1>1. /\ bar \in Bar /\ checked \subseteq Boxes /\ highlighted \subseteq Boxes
      /\ lastChecked \in 0..Rows /\ shiftPressed \in BOOLEAN /\ visit \in Visits
      /\ listEditableChanged \in BOOLEAN /\ chosen \in BOOLEAN /\ here \in BOOLEAN
  BY DEF ListInv, TypeOK, Bar
<1>2. UpdateCounter(sel, b) /\ highlighted' = Checker(highlighted, Boxes, ~allToggle)
  BY DEF ToggleAll
<1>3. UNCHANGED <<lastChecked, shiftPressed, listEditableChanged, chosen, here, visit>>
  BY DEF ToggleAll, editing
<1>4. CASE allToggle
  <2>1. sel = {} /\ highlighted' = {} /\ b = Reset(bar)
    BY <1>1, <1>2, <1>4 DEF Checker, CheckerBar
  <2>2. sel # Boxes
    BY <2>1 DEF Boxes, RowsAssumption
  <2>3. b \in Bar
    BY <1>1, <2>1, BarParts
  <2> HIDE DEF sel, b
  <2> QED
    BY <1>1, <1>2, <1>3, <2>1, <2>2, <2>3, UpdateKeepsInv
<1>5. CASE ~allToggle
  <2>1. sel = Boxes /\ highlighted' = Boxes /\ b = ShowQuestion(bar)
    BY <1>1, <1>2, <1>5 DEF Checker, CheckerBar
  <2>2. bar.across = 0
    BY <1>1, <1>5 DEF ListInv, Bar
  <2>3. b \in Bar /\ b.across = 0
    BY <1>1, <2>1, <2>2, BarParts
  <2> HIDE DEF sel, b
  <2> QED
    BY <1>1, <1>2, <1>3, <2>1, <2>3, UpdateKeepsInv
<1> QED
  BY <1>4, <1>5

LEMMA SelectAcrossKeepsInv ==
  ASSUME ListInv, SelectAcross
  PROVE  ListInv'
<1> DEFINE b == [bar EXCEPT !.across = 1]
<1>1. bar \in Bar /\ "question" \in bar.shown /\ bar' = ShowClear(b)
  BY DEF ListInv, TypeOK, Bar, SelectAcross
<1>2. b \in Bar /\ b.across = 1
  BY <1>1 DEF Bar
<1> HIDE DEF b
<1>3. bar' \in Bar /\ bar'.across = 1 /\ "clear" \in bar'.shown
  BY <1>1, <1>2, BarParts
<1> QED
  BY <1>1, <1>3 DEF ListInv, TypeOK, Bar, SelectAcross, editing

LEMMA ClearSelectionKeepsInv ==
  ASSUME RowsAssumption, ListInv, ClearSelection
  PROVE  ListInv'
<1> DEFINE b == CheckerBar(ClearAcross(bar), FALSE)
<1>1. /\ bar \in Bar /\ highlighted \subseteq Boxes
      /\ lastChecked \in 0..Rows /\ shiftPressed \in BOOLEAN /\ visit \in Visits
      /\ listEditableChanged \in BOOLEAN /\ chosen \in BOOLEAN /\ here \in BOOLEAN
  BY DEF ListInv, TypeOK, Bar
<1>2. UpdateCounter({}, b) /\ highlighted' = {}
  BY <1>1 DEF ClearSelection, Checker
<1>3. UNCHANGED <<lastChecked, shiftPressed, listEditableChanged, chosen, here, visit>>
  BY DEF ClearSelection, editing
<1>4. b \in Bar
  <2>1. b = Reset(ClearAcross(bar))
    BY DEF CheckerBar
  <2> QED
    BY <1>1, <2>1, BarParts
<1>5. {} # Boxes /\ {} \in SUBSET Boxes
  BY DEF Boxes, RowsAssumption
<1> HIDE DEF b
<1> QED
  BY <1>1, <1>2, <1>3, <1>4, <1>5, UpdateKeepsInv

LEMMA ChangeRowKeepsInv ==
  ASSUME RowsAssumption, ListInv, NEW target \in Boxes, ChangeRow(target)
  PROVE  ListInv'
<1> DEFINE on  == target \notin checked
           affected == AffectedCheckboxes(target)
           sel == Checker(checked, affected, on)
           b   == CheckerBar(bar, on)
<1>1. /\ bar \in Bar /\ checked \subseteq Boxes /\ highlighted \subseteq Boxes
      /\ lastChecked \in 0..Rows /\ shiftPressed \in BOOLEAN /\ visit \in Visits
      /\ listEditableChanged \in BOOLEAN /\ chosen \in BOOLEAN /\ here \in BOOLEAN
  BY DEF ListInv, TypeOK, Bar
<1>2. /\ UpdateCounter(sel, b) /\ highlighted' = Checker(highlighted, affected, on)
      /\ lastChecked' = target
  BY DEF ChangeRow
<1>3. UNCHANGED <<shiftPressed, listEditableChanged, chosen, here, visit>>
  BY DEF ChangeRow, editing
<1>4. affected \subseteq Boxes /\ target \in affected /\ target \in 0..Rows
  BY <1>1 DEF AffectedCheckboxes, Boxes, RowsAssumption
<1> HIDE DEF affected
<1>5. sel \in SUBSET Boxes /\ highlighted' \subseteq Boxes
  BY <1>1, <1>2, <1>4 DEF Checker
<1>6. visit # "restored" => highlighted' = sel
  BY <1>2 DEF ListInv
<1>7. b \in Bar
  BY <1>1, BarParts DEF CheckerBar
<1>8. sel # Boxes \/ b.across = 0
  <2>1. CASE on
    <3>1. bar.across = 0 /\ b = ShowQuestion(bar)
      BY <1>1, <2>1 DEF ListInv, Bar, CheckerBar
    <3> QED
      BY <1>1, <3>1, BarParts
  <2>2. CASE ~on
    BY <1>4, <2>2 DEF Checker
  <2> QED
    BY <2>1, <2>2
<1> HIDE DEF sel, b, on
<1> QED
  BY <1>1, <1>2, <1>3, <1>4, <1>5, <1>6, <1>7, <1>8, UpdateKeepsInv

(* The three ways back, each with the bar the page then has.               *)
LEMMA ComingBackKeepsInv ==
  ASSUME RowsAssumption, ListInv, BackCached \/ BackRestored \/ Load
  PROVE  ListInv'
<1>1. /\ bar \in Bar /\ checked \subseteq Boxes /\ highlighted \subseteq Boxes
      /\ lastChecked \in 0..Rows /\ shiftPressed \in BOOLEAN /\ visit \in Visits
      /\ listEditableChanged \in BOOLEAN /\ chosen \in BOOLEAN /\ bar.across \in {0, 1}
  BY DEF ListInv, TypeOK, Bar
<1>2. 0 \in 0..Rows /\ {} # Boxes
  BY DEF RowsAssumption, Boxes
<1>3. CASE BackCached
  <2>1. visit' \in Visits /\ visit' # "loaded" /\ (visit' = "restored" <=> visit = "restored")
    BY <1>1, <1>3 DEF BackCached, Visits
  <2> QED
    BY <1>1, <1>3, <2>1, UpdateKeepsInv DEF BackCached, editing, ListInv
<1>4. CASE BackRestored
  <2> DEFINE b == [NewBar EXCEPT !.across = bar.across]
  <2>1. b \in Bar
    BY <1>1 DEF Bar, NewBar, Parts
  <2>2. UpdateCounter(checked, b) /\ visit' = "restored"
    BY <1>4 DEF BackRestored
  <2> HIDE DEF b
  <2> QED
    BY <1>1, <1>2, <1>4, <2>1, <2>2, UpdateKeepsInv DEF BackRestored, Visits
<1>5. CASE Load
  <2>1. NewBar \in Bar /\ NewBar.across = 0
    BY DEF Bar, NewBar, Parts
  <2> QED
    BY <1>2, <1>5, <2>1, UpdateKeepsInv DEF Load, Visits
<1> QED
  BY <1>3, <1>4, <1>5

LEMMA ListInvInductive ==
  ASSUME RowsAssumption, ListInv, [ListNext]_listVars
  PROVE  ListInv'
<1>1. /\ shiftPressed \in BOOLEAN /\ listEditableChanged \in BOOLEAN
      /\ chosen \in BOOLEAN /\ here \in BOOLEAN
  BY DEF ListInv, TypeOK
<1>2. ASSUME NEW s \in BOOLEAN, Key(s) PROVE ListInv'
  BY <1>1, <1>2, OthersKeepInv DEF Key, editing
<1>3. CASE EditField
  BY <1>1, <1>3, OthersKeepInv DEF EditField
<1>4. CASE ChooseAction
  BY <1>1, <1>4, OthersKeepInv DEF ChooseAction
<1>5. ASSUME NEW c \in BOOLEAN, Go(c) \/ Save(c) PROVE ListInv'
  BY <1>1, <1>5, OthersKeepInv DEF Go, Save, editing
<1>6. CASE UNCHANGED listVars
  BY <1>1, <1>6, OthersKeepInv DEF listVars
<1> QED
  BY <1>2, <1>3, <1>4, <1>5, <1>6, ToggleAllKeepsInv, SelectAcrossKeepsInv,
     ClearSelectionKeepsInv, ChangeRowKeepsInv, ComingBackKeepsInv DEF ListNext

LEMMA ListInvariant ==
  ASSUME RowsAssumption
  PROVE  ListSpec => []ListInv
<1>1. ListInit => ListInv
  BY ListInvInit
<1>2. ListInv /\ [ListNext]_listVars => ListInv'
  BY ListInvInductive
<1> QED
  BY <1>1, <1>2, PTL DEF ListSpec

-----------------------------------------------------------------------------
(* actions.js: for any number of rows, select_across is set only while all *)
(* rows of the page are checked, however the page was left and came back,  *)
(* and until then the bar tells of it.                                     *)
THEOREM AcrossNeedsAllRows ==
  ASSUME RowsAssumption
  PROVE  ListSpec => []AcrossMeansAll
<1>1. ListInv => AcrossMeansAll
  BY DEF ListInv, AcrossMeansAll
<1> QED
  BY <1>1, ListInvariant, PTL

(* actions.js: for any number of rows and ranges of them, highlighting and *)
(* counter agree with the boxes.                                           *)
THEOREM SelectionIsVisible ==
  ASSUME RowsAssumption
  PROVE  ListSpec => []LooksSelected
<1>1. ListInv => LooksSelected
  BY DEF ListInv, LooksSelected
<1> QED
  BY <1>1, ListInvariant, PTL

-----------------------------------------------------------------------------
(* The two-box filter.  Its loops are recursive functions up to n, about   *)
(* which induction up to n can be used.                                    *)
Less == {p \in Nat \X Nat : p[1] < p[2]}

LEMMA LessWellFounded == IsWellFoundedOn(Less, Nat)
<1>1. OpToRel(<, Nat) = Less
  BY DEF OpToRel, Less
<1> QED
  BY <1>1, NatLessThanWellFounded

(* Induction up to n.                                                      *)
LEMMA UpTo ==
  ASSUME NEW n \in Nat, NEW T, 0 \in T, \A k \in 1..n : k - 1 \in T => k \in T
  PROVE  0..n \subseteq T
<1> DEFINE U == (0..n) \ T
<1> SUFFICES ASSUME U # {}
             PROVE  FALSE
  OBVIOUS
<1>1. U \subseteq Nat /\ U # {}
  OBVIOUS
<1>2. PICK x \in U : \A y \in U : ~ (<<y, x>> \in Less)
  <2> HIDE DEF U
  <2> QED
    BY <1>1, WFMin, LessWellFounded
<1>3. x \in 1..n /\ x - 1 \in 0..n
  OBVIOUS
<1>4. <<x - 1, x>> \in Less
  BY <1>3 DEF Less
<1> QED
  BY <1>2, <1>3, <1>4

(* A recursion up to n has a solution.                                     *)
Solves(f, n, V, base, step) ==
  /\ f \in [0..n -> V]
  /\ f[0] = base
  /\ \A i \in 1..n : f[i] = step[<<i, f[i - 1]>>]

LEMMA Recursion ==
  ASSUME NEW n \in Nat, NEW V, NEW base \in V, NEW step \in [(1..n) \X V -> V]
  PROVE  \E f : Solves(f, n, V, base, step)
<1> DEFINE T == {k \in 0..n : \E f : Solves(f, k, V, base, step)}
<1>1. 0 \in T
  <2>1. Solves([i \in 0..0 |-> base], 0, V, base, step)
    BY DEF Solves
  <2> QED
    BY <2>1
<1>2. ASSUME NEW k \in 1..n, k - 1 \in T
      PROVE  k \in T
  <2>1. PICK f : Solves(f, k - 1, V, base, step)
    BY <1>2
  <2> DEFINE g == [i \in 0..k |-> IF i = k THEN step[<<k, f[k - 1]>>] ELSE f[i]]
  <2>2. f[k - 1] \in V
    BY <2>1 DEF Solves
  <2>3. step[<<k, f[k - 1]>>] \in V
    BY <2>2
  <2>4. g \in [0..k -> V] /\ g[0] = base
    BY <2>1, <2>3 DEF Solves
  <2>5. ASSUME NEW i \in 1..k
        PROVE  g[i] = step[<<i, g[i - 1]>>]
    <3>1. i - 1 \in 0..k /\ i - 1 # k /\ g[i - 1] = f[i - 1]
      OBVIOUS
    <3>2. CASE i = k
      BY <3>1, <3>2
    <3>3. CASE i # k
      BY <2>1, <3>1, <3>3 DEF Solves
    <3> QED
      BY <3>2, <3>3
  <2> HIDE DEF g
  <2>6. Solves(g, k, V, base, step)
    BY <2>4, <2>5 DEF Solves
  <2> QED
    BY <2>6
<1>3. 0..n \subseteq T
  <2> HIDE DEF T
  <2> QED
    BY <1>1, <1>2, UpTo
<1> QED
  BY <1>3

-----------------------------------------------------------------------------
(* The function of which Only is the last value.                           *)
Selects(f, C, s, S) ==
  /\ f \in [0..Len(s) -> Seq(C)]
  /\ f[0] = <<>>
  /\ \A n \in 1..Len(s) : f[n] = IF s[n] \in S THEN Append(f[n - 1], s[n]) ELSE f[n - 1]
  /\ Only(s, S) = f[Len(s)]

LEMMA OnlyRecursion ==
  ASSUME NEW C, NEW s \in Seq(C), NEW S
  PROVE  \E f : Selects(f, C, s, S)
<1> DEFINE n    == Len(s)
           V    == Seq(C)
           base == <<>>
           step == [p \in (1..n) \X V |-> IF s[p[1]] \in S THEN Append(p[2], s[p[1]]) ELSE p[2]]
<1>1. n \in Nat /\ base \in V /\ step \in [(1..n) \X V -> V]
  BY AppendProperties
<1>2. \A v \in V, k \in 1..n :
        /\ (IF s[k] \in S THEN Append(v, s[k]) ELSE v) \in V
        /\ step[<<k, v>>] = IF s[k] \in S THEN Append(v, s[k]) ELSE v
  BY AppendProperties
<1> HIDE DEF n, V, base, step
<1>3. \E f : Solves(f, n, V, base, step)
  BY <1>1, Recursion
<1>4. PICK f \in [0..n -> V] : f[0] = base /\ \A k \in 1..n : f[k] = step[<<k, f[k - 1]>>]
  BY <1>3 DEF Solves
<1>5. \A k \in 1..n : f[k] = IF s[k] \in S THEN Append(f[k - 1], s[k]) ELSE f[k - 1]
  <2> TAKE k \in 1..n
  <2>1. f[k - 1] \in V
    BY <1>1, <1>4
  <2> QED
    BY <1>2, <1>4, <2>1
<1> DEFINE next(g, i) == IF s[i] \in S THEN Append(g[i - 1], s[i]) ELSE g[i - 1]
           body(g) == [i \in 0..n |-> IF i = 0 THEN base ELSE next(g, i)]
           only == CHOOSE g : g = body(g)
<1>6. Only(s, S) = only[n]
  BY DEF Only, n, base
<1>7. f = body(f)
  <2>1. \A k \in 1..n : f[k] = next(f, k)
    BY <1>5
  <2> HIDE DEF next
  <2>2. f = [i \in 0..n |-> IF i = 0 THEN base ELSE next(f, i)]
    BY <1>1, <1>4, <2>1
  <2> QED
    BY <2>2
<1>8. only = body(only)
  <2> HIDE DEF body
  <2> QED
    BY <1>7
<1> HIDE DEF only
<1>9. DOMAIN only = 0..n /\ only = [i \in 0..n |-> only[i]]
      /\ only[0] = base /\ \A k \in 1..n : only[k] = next(only, k)
  <2> HIDE DEF next
  <2>1. 0 \in 0..n /\ 1..n \subseteq 0..n
    BY <1>1
  <2>2. /\ body(only) = [i \in 0..n |-> body(only)[i]] /\ DOMAIN body(only) = 0..n
        /\ \A i \in 0..n : body(only)[i] = IF i = 0 THEN base ELSE next(only, i)
    OBVIOUS
  <2> HIDE DEF body
  <2> QED
    BY <1>8, <2>1, <2>2
<1>10. \A k \in 1..n : only[k - 1] \in V => only[k] \in V
  BY <1>2, <1>9
<1>11. 0..n \subseteq {k \in 0..n : only[k] \in V}
  <2> DEFINE T == {k \in 0..n : only[k] \in V}
  <2>1. 0 \in T
    BY <1>1, <1>9
  <2>2. \A k \in 1..n : k - 1 \in T => k \in T
    BY <1>1, <1>10
  <2> HIDE DEF T
  <2>3. 0..n \subseteq T
    BY <1>1, <2>1, <2>2, UpTo
  <2> QED
    BY <2>3 DEF T
<1>12. only \in [0..n -> V]
  BY <1>9, <1>11
<1>13. Selects(only, C, s, S)
  BY <1>6, <1>9, <1>12 DEF Selects, n, V, base
<1> QED
  BY <1>13

-----------------------------------------------------------------------------
LEMMA AppendRange ==
  ASSUME NEW C, NEW s \in Seq(C), NEW e \in C
  PROVE  /\ Append(s, e) \in Seq(C)
         /\ Range(Append(s, e)) = Range(s) \cup {e}
         /\ IsInjective(s) /\ e \notin Range(s) => IsInjective(Append(s, e))
<1>1. /\ Len(s) \in Nat /\ DOMAIN s = 1..Len(s)
      /\ Append(s, e) \in Seq(C) /\ DOMAIN Append(s, e) = 1..(Len(s) + 1)
      /\ Append(s, e)[Len(s) + 1] = e
      /\ \A i \in 1..Len(s) : Append(s, e)[i] = s[i]
  BY AppendProperties
<1> DEFINE t == Append(s, e)
<1> HIDE DEF t
<1>2. \A i \in DOMAIN t : (i = Len(s) + 1 /\ t[i] = e) \/ (i \in DOMAIN s /\ t[i] = s[i])
  BY <1>1 DEF t
<1>3. Range(t) = Range(s) \cup {e}
  <2>1. Range(t) \subseteq Range(s) \cup {e}
    BY <1>2 DEF Range
  <2>2. Range(s) \subseteq Range(t)
    BY <1>1 DEF Range, t
  <2>3. e \in Range(t)
    <3>1. Len(s) + 1 \in DOMAIN t /\ t[Len(s) + 1] = e
      BY <1>1 DEF t
    <3> QED
      BY <3>1 DEF Range
  <2> QED
    BY <2>1, <2>2, <2>3
<1>4. ASSUME IsInjective(s), e \notin Range(s)
      PROVE  IsInjective(t)
  <2>1. \A i \in DOMAIN s : s[i] # e
    BY <1>4 DEF Range
  <2> QED
    BY <1>2, <1>4, <2>1 DEF IsInjective
<1> QED
  BY <1>1, <1>3, <1>4 DEF t

LEMMA OnlyIs ==
  ASSUME NEW C, NEW s \in Seq(C), NEW S
  PROVE  Only(s, S) \in Seq(C) /\ Range(Only(s, S)) = Range(s) \cap S
<1> DEFINE n == Len(s)
           Done(k) == {s[i] : i \in 1..k} \cap S
<1>1. n \in Nat /\ DOMAIN s = 1..n
  OBVIOUS
<1>2. PICK f \in [0..n -> Seq(C)] :
        /\ f[0] = <<>>
        /\ \A k \in 1..n : f[k] = IF s[k] \in S THEN Append(f[k - 1], s[k]) ELSE f[k - 1]
        /\ Only(s, S) = f[n]
  <2>1. \E f : Selects(f, C, s, S)
    BY OnlyRecursion
  <2> QED
    BY <2>1 DEF Selects
<1> DEFINE T == {k \in 0..n : Range(f[k]) = Done(k)}
<1>3. 0 \in T
  <2>1. Range(<<>>) = {} /\ Done(0) = {}
    BY DEF Range
  <2> QED
    BY <1>1, <1>2, <2>1
<1>4. ASSUME NEW k \in 1..n, k - 1 \in T
      PROVE  k \in T
  <2>1. k - 1 \in 0..n /\ k \in 0..n
    BY <1>1
  <2>2. k \in 0..n /\ f[k - 1] \in Seq(C) /\ s[k] \in C
    BY <1>1, <1>2, <2>1
  <2>3. {s[i] : i \in 1..k} = {s[i] : i \in 1..(k - 1)} \cup {s[k]}
    <3>1. 1..k = 1..(k - 1) \cup {k}
      BY <1>1
    <3> QED
      BY <3>1
  <2>4. Range(f[k - 1]) = Done(k - 1)
    BY <1>4
  <2>5. CASE s[k] \in S
    <3>1. f[k] = Append(f[k - 1], s[k])
      BY <1>2, <2>5
    <3>2. Range(f[k]) = Range(f[k - 1]) \cup {s[k]}
      BY <2>2, <3>1, AppendRange
    <3> QED
      BY <2>2, <2>3, <2>4, <2>5, <3>2
  <2>6. CASE s[k] \notin S
    BY <1>2, <2>2, <2>3, <2>4, <2>6
  <2> QED
    BY <2>5, <2>6
<1>5. n \in T
  <2> HIDE DEF T
  <2>1. 0..n \subseteq T
    BY <1>1, <1>3, <1>4, UpTo
  <2> QED
    BY <1>1, <2>1
<1>6. Done(n) = Range(s) \cap S
  BY <1>1 DEF Range
<1> QED
  BY <1>1, <1>2, <1>5, <1>6

LEMMA DeleteIs ==
  ASSUME NEW C, NEW c \in Seq(C), IsInjective(c), NEW v \in Range(c)
  PROVE  LET d == Splice(c, IndexOf(c, v))
         IN  d \in Seq(C) /\ Range(d) = Range(c) \ {v} /\ IsInjective(d)
<1> DEFINE n == Len(c)
           d == Splice(c, IndexOf(c, v))
<1>1. n \in Nat /\ DOMAIN c = 1..n /\ \A i \in 1..n : c[i] \in C
  OBVIOUS
<1>2. PICK at \in 1..n : c[at] = v
  BY <1>1 DEF Range
<1>3. IndexOf(c, v) = at
  <2>1. {i \in DOMAIN c : c[i] = v} = {at}
    BY <1>1, <1>2 DEF IsInjective
  <2>2. Min({at}) = at
    BY <1>1 DEF Min
  <2> QED
    BY <2>1, <2>2 DEF IndexOf
<1> DEFINE from(j) == IF j < at THEN j ELSE j + 1
<1>4. d = [j \in 1..(n - 1) |-> c[from(j)]]
  BY <1>3 DEF Splice
<1> HIDE DEF d, n
<1>5. \A j \in 1..(n - 1) : from(j) \in 1..n /\ from(j) # at
  BY <1>1
<1>6. \A j, k \in 1..(n - 1) : from(j) = from(k) => j = k
  BY <1>1
<1>7. \A i \in 1..n : i # at => \E j \in 1..(n - 1) : from(j) = i
  <2> TAKE i \in 1..n
  <2>1. CASE i < at
    <3>1. i \in 1..(n - 1) /\ from(i) = i
      BY <1>1, <2>1
    <3> QED
      BY <3>1
  <2>2. CASE i > at
    <3>1. i - 1 \in 1..(n - 1) /\ from(i - 1) = i
      BY <1>1, <2>2
    <3> QED
      BY <3>1
  <2> QED
    BY <1>1, <2>1, <2>2
<1> HIDE DEF from
<1>8. DOMAIN d = 1..(n - 1) /\ \A j \in 1..(n - 1) : d[j] = c[from(j)]
  BY <1>4
<1>9. d \in Seq(C)
  <2>1. d \in [1..(n - 1) -> C]
    BY <1>1, <1>4, <1>5
  <2>2. n - 1 \in Nat
    BY <1>1, <1>2
  <2> QED
    BY <2>1, <2>2
<1>10. IsInjective(d)
  <2> SUFFICES ASSUME NEW j \in 1..(n - 1), NEW k \in 1..(n - 1), d[j] = d[k]
               PROVE  j = k
    BY <1>8 DEF IsInjective
  <2>1. c[from(j)] = c[from(k)]
    BY <1>8
  <2>2. from(j) = from(k)
    BY <1>1, <1>5, <2>1 DEF IsInjective
  <2> QED
    BY <1>6, <2>2
<1>11. Range(d) \subseteq Range(c) \ {v}
  BY <1>1, <1>2, <1>5, <1>8 DEF Range, IsInjective
<1>12. ASSUME NEW w \in Range(c) \ {v}
       PROVE  w \in Range(d)
  <2>1. PICK i \in 1..n : c[i] = w
    BY <1>1 DEF Range
  <2>2. PICK j \in 1..(n - 1) : from(j) = i
    BY <1>2, <1>7, <2>1
  <2> QED
    BY <1>8, <2>1, <2>2 DEF Range
<1> QED
  BY <1>9, <1>10, <1>11, <1>12 DEF d

-----------------------------------------------------------------------------
(* Two boxes between which the options are divided.                        *)
BoxType ==
  [cache : Seq(Options), hidden : SUBSET Options,
   shown : Seq(Options), selected : SUBSET Options]

Divided(bs) ==
  /\ bs \in [Sides -> BoxType]
  /\ \A s \in Sides : IsInjective(bs[s].cache) /\ bs[s].hidden \subseteq Range(bs[s].cache)
  /\ \A s, t \in Sides : s # t => Range(bs[s].cache) \cap Range(bs[t].cache) = {}
  /\ \A v \in Values : \E s \in Sides : v \in Range(bs[s].cache)

(* The <select> shows what the cache says is displayed.                    *)
Displayed(b) == Range(b.shown) = Range(b.cache) \ b.hidden

Whole(bs) == Divided(bs) /\ \A s \in Sides : Displayed(bs[s])

SameHidden(bs, cs) == \A s \in Sides : cs[s].hidden = bs[s].hidden

LEMMA SidesAre ==
  ASSUME NEW s \in Sides
  PROVE  Other(s) \in Sides /\ Other(s) # s /\ Sides = {s, Other(s)}
BY DEF Sides, Other

(* Nothing but the caches and what they hide decides who has an option.    *)
LEMMA SameCaches ==
  ASSUME NEW bs, Divided(bs), NEW cs \in [Sides -> BoxType],
         \A t \in Sides : /\ cs[t].cache = bs[t].cache
                          /\ cs[t].hidden \subseteq Range(cs[t].cache)
  PROVE  Divided(cs)
<1>1. \A t \in Sides : IsInjective(cs[t].cache)
  BY DEF Divided
<1>2. \A t, u \in Sides : t # u => Range(cs[t].cache) \cap Range(cs[u].cache) = {}
  BY DEF Divided
<1>3. \A v \in Values : \E t \in Sides : v \in Range(cs[t].cache)
  BY DEF Divided
<1> QED
  BY <1>1, <1>2, <1>3 DEF Divided

LEMMA MoveOptionOk ==
  ASSUME NEW bs, Divided(bs), NEW s \in Sides, NEW v \in Options, v \notin bs[s].hidden
  PROVE  Divided(MoveOption(bs, s, v)) /\ SameHidden(bs, MoveOption(bs, s, v))
<1> DEFINE o   == Other(s)
           new == MoveOption(bs, s, v)
<1>1. o \in Sides /\ o # s /\ Sides = {s, o}
  BY SidesAre
<1>2. CASE v \notin Range(bs[s].cache)
  BY <1>2 DEF MoveOption, SameHidden
<1>3. CASE v \in Range(bs[s].cache)
  <2> DEFINE grown  == Append(bs[o].cache, v)
             shrunk == Splice(bs[s].cache, IndexOf(bs[s].cache, v))
  <2> HIDE DEF o
  <2>1. /\ bs \in [Sides -> BoxType] /\ bs[s] \in BoxType /\ bs[o] \in BoxType
        /\ bs[s].cache \in Seq(Options) /\ bs[o].cache \in Seq(Options)
        /\ IsInjective(bs[s].cache) /\ IsInjective(bs[o].cache)
        /\ bs[s].hidden \subseteq Range(bs[s].cache) /\ bs[o].hidden \subseteq Range(bs[o].cache)
        /\ Range(bs[s].cache) \cap Range(bs[o].cache) = {}
        /\ \A w \in Values : w \in Range(bs[s].cache) \/ w \in Range(bs[o].cache)
    BY <1>1 DEF Divided, BoxType
  <2>2. v \notin Range(bs[o].cache) /\ bs[o].hidden \ {v} = bs[o].hidden
    BY <1>3, <2>1
  <2>3. grown \in Seq(Options) /\ Range(grown) = Range(bs[o].cache) \cup {v} /\ IsInjective(grown)
    BY <2>1, <2>2, AppendRange
  <2>4. /\ shrunk \in Seq(Options) /\ Range(shrunk) = Range(bs[s].cache) \ {v}
        /\ IsInjective(shrunk)
    BY <1>3, <2>1, DeleteIs
  <2> HIDE DEF grown, shrunk
  <2> DEFINE newO == AddToCache(bs[o], v)
             newS == DeleteFromCache(bs[s], v)
  <2>5. new = [bs EXCEPT ![o] = newO, ![s] = newS]
    BY <1>1, <1>3, <2>1 DEF MoveOption, o
  <2>6. /\ newO \in BoxType /\ newO.cache = grown /\ newO.hidden = bs[o].hidden
        /\ newS \in BoxType /\ newS.cache = shrunk /\ newS.hidden = bs[s].hidden
    <3>1. newO = [bs[o] EXCEPT !.cache = grown, !.hidden = bs[o].hidden]
      BY <2>1, <2>2 DEF grown, AddToCache
    <3>2. newS = [bs[s] EXCEPT !.cache = shrunk]
      BY <2>1 DEF shrunk, DeleteFromCache
    <3> HIDE DEF newO, newS
    <3> QED
      BY <2>1, <2>3, <2>4, <3>1, <3>2 DEF BoxType
  <2> HIDE DEF newO, newS
  <2> HIDE DEF new
  <2>7. /\ new \in [Sides -> BoxType]
        /\ new[o].cache = grown /\ new[o].hidden = bs[o].hidden
        /\ new[s].cache = shrunk /\ new[s].hidden = bs[s].hidden
    BY <1>1, <2>1, <2>5, <2>6
  <2>8. SameHidden(bs, new)
    BY <1>1, <2>7 DEF SameHidden
  <2>9. Divided(new)
    <3>1. \A t \in Sides : IsInjective(new[t].cache) /\ new[t].hidden \subseteq Range(new[t].cache)
      BY <1>1, <2>1, <2>3, <2>4, <2>7
    <3>2. Range(new[s].cache) \cap Range(new[o].cache) = {}
      BY <2>1, <2>3, <2>4, <2>7
    <3>3. \A t, u \in Sides : t # u => Range(new[t].cache) \cap Range(new[u].cache) = {}
      BY <1>1, <3>2
    <3>4. \A w \in Values : w \in Range(new[s].cache) \/ w \in Range(new[o].cache)
      BY <2>1, <2>3, <2>4, <2>7
    <3> QED
      BY <1>1, <2>7, <3>1, <3>3, <3>4 DEF Divided
  <2> QED
    BY <2>8, <2>9 DEF new
<1> QED
  BY <1>2, <1>3

LEMMA RedisplayOk ==
  ASSUME NEW b \in BoxType
  PROVE  /\ Redisplay(b) \in BoxType /\ Displayed(Redisplay(b))
         /\ Redisplay(b).cache = b.cache /\ Redisplay(b).hidden = b.hidden
<1> DEFINE S == Range(b.cache) \ b.hidden
           shown == Only(b.cache, S)
<1>1. b.cache \in Seq(Options) /\ b.hidden \in SUBSET Options
  BY DEF BoxType
<1>2. shown \in Seq(Options) /\ Range(shown) = S
  <2>1. shown \in Seq(Options) /\ Range(shown) = Range(b.cache) \cap S
    <3> HIDE DEF S
    <3> QED
      BY <1>1, OnlyIs
  <2> QED
    BY <2>1
<1>3. Redisplay(b) = [b EXCEPT !.shown = shown, !.selected = {}]
  BY DEF Redisplay
<1> HIDE DEF shown
<1> QED
  BY <1>1, <1>2, <1>3 DEF BoxType, Displayed

LEMMA FilterOk ==
  ASSUME NEW b \in BoxType, NEW text
  PROVE  /\ Filter(b, text) \in BoxType /\ Displayed(Filter(b, text))
         /\ Filter(b, text).cache = b.cache
         /\ Filter(b, text).hidden = Range(b.cache) \ text
<1> DEFINE c == [b EXCEPT !.hidden = Range(b.cache) \ text]
<1>1. Range(b.cache) \subseteq Options
  BY DEF BoxType, Range
<1>2. c \in BoxType /\ c.cache = b.cache /\ c.hidden = Range(b.cache) \ text
  BY <1>1 DEF BoxType
<1>3. Filter(b, text) = Redisplay(c)
  BY DEF Filter
<1> HIDE DEF c
<1> QED
  BY <1>2, <1>3, RedisplayOk

LEMMA SelectIndexOk ==
  ASSUME NEW b \in BoxType, NEW i
  PROVE  /\ SelectIndex(b, i) \in BoxType
         /\ SelectIndex(b, i).cache = b.cache /\ SelectIndex(b, i).hidden = b.hidden
         /\ SelectIndex(b, i).shown = b.shown
<1>1. (IF i \in DOMAIN b.shown THEN {b.shown[i]} ELSE {}) \subseteq Options
  BY DEF BoxType
<1> QED
  BY <1>1 DEF SelectIndex, BoxType

-----------------------------------------------------------------------------
(* move and move_all divide the options again and hide or show none.       *)
LEMMA TransferOk ==
  ASSUME NEW bs, Divided(bs), NEW s \in Sides,
         NEW picked \in Seq(Options), Range(picked) \cap bs[s].hidden = {}
  PROVE  Whole(Transfer(bs, s, picked)) /\ SameHidden(bs, Transfer(bs, s, picked))
<1> DEFINE n == Len(picked)
           V == {cs \in [Sides -> BoxType] : Divided(cs) /\ SameHidden(bs, cs)}
           step == [p \in (1..n) \X V |-> MoveOption(p[2], s, picked[p[1]])]
<1>1. n \in Nat /\ bs \in V
  <2>1. bs \in [Sides -> BoxType] /\ SameHidden(bs, bs)
    BY DEF Divided, SameHidden
  <2>2. n \in Nat
    OBVIOUS
  <2> QED
    BY <2>1, <2>2
<1>2. ASSUME NEW k \in 1..n, NEW cs \in V
      PROVE  MoveOption(cs, s, picked[k]) \in V
  <2>1. picked[k] \in Options /\ picked[k] \in Range(picked)
    BY DEF Range
  <2>2. Divided(cs) /\ picked[k] \notin cs[s].hidden
    BY <2>1 DEF SameHidden
  <2> DEFINE ds == MoveOption(cs, s, picked[k])
  <2>3. Divided(ds) /\ SameHidden(cs, ds)
    BY <2>1, <2>2, MoveOptionOk
  <2> HIDE DEF ds
  <2>4. SameHidden(bs, ds)
    BY <2>3 DEF SameHidden
  <2> QED
    BY <2>3, <2>4 DEF Divided, ds
<1>3. step \in [(1..n) \X V -> V]
  BY <1>2
<1>4. \A k \in 1..n, cs \in V : step[<<k, cs>>] = MoveOption(cs, s, picked[k])
  OBVIOUS
<1> HIDE DEF n, V, step
<1>5. \E f : Solves(f, n, V, bs, step)
  BY <1>1, <1>3, Recursion
<1>6. PICK f : Solves(f, n, V, bs, step)
  BY <1>5
<1> DEFINE next(g, i) == MoveOption(g[i - 1], s, picked[i])
           body(g) == [i \in 0..n |-> IF i = 0 THEN bs ELSE next(g, i)]
           turn == CHOOSE g : g = body(g)
<1>7. Transfer(bs, s, picked) = [t \in Sides |-> Redisplay(turn[n][t])]
  BY DEF Transfer, n
<1>8. f = body(f)
  <2>1. \A k \in 1..n : f[k] = next(f, k)
    <3> TAKE k \in 1..n
    <3>1. k - 1 \in 0..n
      BY <1>1
    <3>2. f[k - 1] \in V
      BY <1>6, <3>1 DEF Solves
    <3> QED
      BY <1>4, <1>6, <3>2 DEF Solves
  <2> HIDE DEF next
  <2>2. f = [i \in 0..n |-> IF i = 0 THEN bs ELSE next(f, i)]
    BY <1>1, <1>6, <2>1 DEF Solves
  <2> QED
    BY <2>2
<1>9. turn = body(turn)
  <2> HIDE DEF body
  <2> QED
    BY <1>8
<1> HIDE DEF turn
<1>10. turn[0] = bs /\ \A k \in 1..n : turn[k] = next(turn, k)
  <2> HIDE DEF next
  <2>1. 0 \in 0..n /\ 1..n \subseteq 0..n
    BY <1>1
  <2>2. \A i \in 0..n : body(turn)[i] = IF i = 0 THEN bs ELSE next(turn, i)
    OBVIOUS
  <2> HIDE DEF body
  <2> QED
    BY <1>9, <2>1, <2>2
<1>11. \A k \in 1..n : turn[k - 1] \in V => turn[k] \in V
  BY <1>2, <1>10
<1>12. turn[n] \in V
  <2> DEFINE T == {k \in 0..n : turn[k] \in V}
  <2>1. 0 \in T
    BY <1>1, <1>10
  <2>2. \A k \in 1..n : k - 1 \in T => k \in T
    BY <1>1, <1>11
  <2> HIDE DEF T
  <2>3. 0..n \subseteq T
    BY <1>1, <2>1, <2>2, UpTo
  <2>4. n \in 0..n
    BY <1>1
  <2>5. n \in T
    BY <2>3, <2>4
  <2> QED
    BY <2>5 DEF T
<1> DEFINE end == turn[n]
           new == Transfer(bs, s, picked)
<1>13. Divided(end) /\ SameHidden(bs, end)
  BY <1>12 DEF V
<1> HIDE DEF end
<1>14. \A t \in Sides : Redisplay(end[t]) \in BoxType /\ Displayed(Redisplay(end[t]))
         /\ Redisplay(end[t]).cache = end[t].cache /\ Redisplay(end[t]).hidden = end[t].hidden
  <2>1. \A t \in Sides : end[t] \in BoxType
    BY <1>13 DEF Divided
  <2> QED
    BY <2>1, RedisplayOk
<1>15. new = [t \in Sides |-> Redisplay(end[t])]
  BY <1>7 DEF end
<1> HIDE DEF new
<1>16. /\ new \in [Sides -> BoxType]
       /\ \A t \in Sides : /\ Displayed(new[t])
                           /\ new[t].cache = end[t].cache /\ new[t].hidden = end[t].hidden
  BY <1>14, <1>15
<1>17. Divided(new)
  <2>1. \A t \in Sides : end[t].hidden \subseteq Range(end[t].cache)
    BY <1>13 DEF Divided
  <2>2. \A t \in Sides : new[t].cache = end[t].cache /\ new[t].hidden \subseteq Range(new[t].cache)
    BY <1>16, <2>1
  <2> QED
    BY <1>13, <1>16, <2>2, SameCaches
<1>18. SameHidden(bs, new)
  BY <1>13, <1>16 DEF SameHidden
<1> QED
  BY <1>16, <1>17, <1>18 DEF Whole, new

LEMMA MoveOk ==
  ASSUME NEW bs, Whole(bs), NEW s \in Sides
  PROVE  /\ Whole(Move(bs, s)) /\ SameHidden(bs, Move(bs, s))
         /\ Whole(MoveAll(bs, s)) /\ SameHidden(bs, MoveAll(bs, s))
<1>1. /\ Divided(bs) /\ bs[s].shown \in Seq(Options)
      /\ Range(bs[s].shown) \cap bs[s].hidden = {}
  BY DEF Whole, Divided, Displayed, BoxType
<1> DEFINE picked == Only(bs[s].shown, bs[s].selected)
<1>2. picked \in Seq(Options) /\ Range(picked) \cap bs[s].hidden = {}
  <2>1. picked \in Seq(Options) /\ Range(picked) = Range(bs[s].shown) \cap bs[s].selected
    BY <1>1, OnlyIs
  <2> QED
    BY <1>1, <2>1
<1> HIDE DEF picked
<1>3. Whole(Transfer(bs, s, picked)) /\ SameHidden(bs, Transfer(bs, s, picked))
  BY <1>1, <1>2, TransferOk
<1>4. Whole(Transfer(bs, s, bs[s].shown)) /\ SameHidden(bs, Transfer(bs, s, bs[s].shown))
  BY <1>1, TransferOk
<1> QED
  BY <1>3, <1>4 DEF Move, MoveAll, picked

-----------------------------------------------------------------------------
LEMMA SetBoxOk ==
  ASSUME NEW bs, Whole(bs), NEW s \in Sides, NEW b \in BoxType,
         b.cache = bs[s].cache, b.hidden \subseteq Range(b.cache), Displayed(b)
  PROVE  /\ Whole([bs EXCEPT ![s] = b])
         /\ b.hidden = bs[s].hidden => SameHidden(bs, [bs EXCEPT ![s] = b])
<1> DEFINE cs == [bs EXCEPT ![s] = b]
<1>1. bs \in [Sides -> BoxType] /\ Divided(bs) /\ \A t \in Sides : Displayed(bs[t])
  BY DEF Whole, Divided
<1>2. \A t \in Sides : bs[t].hidden \subseteq Range(bs[t].cache)
  BY <1>1 DEF Divided
<1>3. cs \in [Sides -> BoxType] /\ cs[s] = b /\ \A t \in Sides : t # s => cs[t] = bs[t]
  BY <1>1
<1> HIDE DEF cs
<1>4. \A t \in Sides : /\ cs[t].cache = bs[t].cache
                       /\ cs[t].hidden \subseteq Range(cs[t].cache)
  BY <1>2, <1>3
<1>5. Divided(cs)
  BY <1>1, <1>3, <1>4, SameCaches
<1>6. \A t \in Sides : Displayed(cs[t])
  BY <1>1, <1>3
<1>7. b.hidden = bs[s].hidden => SameHidden(bs, cs)
  BY <1>3 DEF SameHidden
<1> QED
  BY <1>5, <1>6, <1>7 DEF Whole, cs

(* The user marks what is shown, or a key moves the mark.                  *)
LEMMA SelectOk ==
  ASSUME NEW bs, Whole(bs), NEW s \in Sides
  PROVE  /\ \A S : S \subseteq Range(bs[s].shown) =>
              /\ Whole([bs EXCEPT ![s].selected = S])
              /\ SameHidden(bs, [bs EXCEPT ![s].selected = S])
         /\ \A i : /\ Whole([bs EXCEPT ![s] = SelectIndex(@, i)])
                   /\ SameHidden(bs, [bs EXCEPT ![s] = SelectIndex(@, i)])
<1>1. /\ bs \in [Sides -> BoxType] /\ bs[s] \in BoxType
      /\ bs[s].hidden \subseteq Range(bs[s].cache) /\ Displayed(bs[s])
  BY DEF Whole, Divided
<1>2. ASSUME NEW S, S \subseteq Range(bs[s].shown)
      PROVE  /\ Whole([bs EXCEPT ![s].selected = S])
             /\ SameHidden(bs, [bs EXCEPT ![s].selected = S])
  <2> DEFINE b == [bs[s] EXCEPT !.selected = S]
  <2>1. Range(bs[s].shown) \subseteq Options
    BY <1>1 DEF BoxType, Range
  <2>2. b \in BoxType /\ b.cache = bs[s].cache /\ b.hidden = bs[s].hidden /\ b.shown = bs[s].shown
    BY <1>1, <1>2, <2>1 DEF BoxType
  <2>3. [bs EXCEPT ![s].selected = S] = [bs EXCEPT ![s] = b]
    BY <1>1
  <2> HIDE DEF b
  <2>4. Displayed(b)
    BY <1>1, <2>2 DEF Displayed
  <2> QED
    BY <1>1, <2>2, <2>3, <2>4, SetBoxOk
<1>3. ASSUME NEW i
      PROVE  /\ Whole([bs EXCEPT ![s] = SelectIndex(@, i)])
             /\ SameHidden(bs, [bs EXCEPT ![s] = SelectIndex(@, i)])
  <2> DEFINE b == SelectIndex(bs[s], i)
  <2>1. b \in BoxType /\ b.cache = bs[s].cache /\ b.hidden = bs[s].hidden /\ b.shown = bs[s].shown
    BY <1>1, SelectIndexOk
  <2> HIDE DEF b
  <2>2. Displayed(b)
    BY <1>1, <2>1 DEF Displayed
  <2>3. Whole([bs EXCEPT ![s] = b]) /\ SameHidden(bs, [bs EXCEPT ![s] = b])
    BY <1>1, <2>1, <2>2, SetBoxOk
  <2> QED
    BY <2>3 DEF b
<1> QED
  BY <1>2, <1>3

LEMMA FilterBoxOk ==
  ASSUME NEW bs, Whole(bs), NEW s \in Sides, NEW text
  PROVE  /\ Whole([bs EXCEPT ![s] = Filter(@, text)])
         /\ [bs EXCEPT ![s] = Filter(@, text)][s] = Filter(bs[s], text)
<1> DEFINE b == Filter(bs[s], text)
<1>1. bs[s] \in BoxType /\ bs \in [Sides -> BoxType]
  BY DEF Whole, Divided
<1>2. /\ b \in BoxType /\ Displayed(b) /\ b.cache = bs[s].cache
      /\ b.hidden = Range(bs[s].cache) \ text
  BY <1>1, FilterOk
<1> HIDE DEF b
<1>3. Whole([bs EXCEPT ![s] = b])
  BY <1>2, SetBoxOk
<1> QED
  BY <1>1, <1>3 DEF b

LEMMA RefreshOk ==
  ASSUME NEW bs, Whole(bs)
  PROVE  Whole(RefreshFilteredSelects(bs))
<1> DEFINE cs == RefreshFilteredSelects(bs)
<1>1. bs \in [Sides -> BoxType] /\ Divided(bs)
  BY DEF Whole, Divided
<1>2. \A s \in Sides : /\ Filter(bs[s], typed[s]) \in BoxType
                       /\ Displayed(Filter(bs[s], typed[s]))
                       /\ Filter(bs[s], typed[s]).cache = bs[s].cache
                       /\ Filter(bs[s], typed[s]).hidden = Range(bs[s].cache) \ typed[s]
  BY <1>1, FilterOk
<1>3. cs = [s \in Sides |-> Filter(bs[s], typed[s])]
  BY DEF RefreshFilteredSelects
<1> HIDE DEF cs
<1>4. cs \in [Sides -> BoxType]
  BY <1>2, <1>3
<1>5. \A s \in Sides : /\ cs[s].cache = bs[s].cache /\ Displayed(cs[s])
                       /\ cs[s].hidden \subseteq Range(cs[s].cache)
  BY <1>2, <1>3
<1>6. Divided(cs)
  BY <1>1, <1>4, <1>5, SameCaches
<1> QED
  BY <1>5, <1>6 DEF Whole, cs

-----------------------------------------------------------------------------
WidgetInv ==
  /\ Whole(boxes)
  /\ submitted \in BOOLEAN
  /\ ~submitted => warned = HiddenCount(boxes)
  /\ submitted => sentOptions = Range(boxes["to"].cache)

(* What every listener leaves: whole boxes, and the warning up to date.    *)
LEMMA UserStep ==
  ASSUME WidgetInv, ~submitted,
         \/ \E s \in Sides, marked \in SUBSET Options : Mark(s, marked)
         \/ \E l \in Links : ClickLink(l)
         \/ \E s \in Sides, v \in Options : DoubleClick(s, v)
         \/ ClearFilter
         \/ \E s \in Sides, text \in Texts : Type(s, text)
         \/ \E s \in Sides : \/ FilterKeyUp(s) \/ FilterKeyEnter(s)
                             \/ FilterKeyAcross(s) \/ FilterKeyVertical(s)
         \/ \E v \in Later : PopupAdds(v)
  PROVE  Whole(boxes') /\ warned' = HiddenCount(boxes') /\ submitted' = submitted
<1>1. Whole(boxes) /\ warned = HiddenCount(boxes) /\ "to" \in Sides /\ "from" \in Sides
  BY DEF WidgetInv, Sides
<1>2. ASSUME NEW s \in Sides, NEW marked \in SUBSET Options, Mark(s, marked)
      PROVE  Whole(boxes') /\ warned' = HiddenCount(boxes') /\ submitted' = submitted
  <2>1. Whole([boxes EXCEPT ![s].selected = marked])
    BY <1>1, <1>2, SelectOk DEF Mark
  <2> QED
    BY <1>2, <2>1 DEF Mark, rest
<1>3. ASSUME NEW l \in Links, ClickLink(l)
      PROVE  Whole(boxes') /\ warned' = HiddenCount(boxes') /\ submitted' = submitted
  <2>1. Source(l) \in Sides
    BY DEF Source, Sides
  <2>2. PICK moved \in {MoveAll(boxes, Source(l)), Move(boxes, Source(l))} :
          boxes' = RefreshFilteredSelects(moved)
    BY <1>3 DEF ClickLink
  <2>3. Whole(moved)
    BY <1>1, <2>1, <2>2, MoveOk
  <2>4. Whole(RefreshFilteredSelects(moved))
    BY <2>3, RefreshOk
  <2> QED
    BY <1>3, <2>2, <2>4 DEF ClickLink, rest
<1>4. ASSUME NEW s \in Sides, NEW v \in Options, DoubleClick(s, v)
      PROVE  Whole(boxes') /\ warned' = HiddenCount(boxes') /\ submitted' = submitted
  <2> DEFINE marked == [boxes EXCEPT ![s].selected = {v}]
  <2>1. Whole(marked)
    BY <1>1, <1>4, SelectOk DEF DoubleClick
  <2>2. boxes' = Move(marked, s)
    BY <1>4 DEF DoubleClick
  <2> HIDE DEF marked
  <2>3. Whole(Move(marked, s))
    BY <2>1, MoveOk
  <2> QED
    BY <1>4, <2>2, <2>3 DEF DoubleClick, rest
<1>5. ASSUME ClearFilter
      PROVE  Whole(boxes') /\ warned' = HiddenCount(boxes') /\ submitted' = submitted
  <2>1. Whole([boxes EXCEPT !["to"] = Filter(@, Options)])
    BY <1>1, FilterBoxOk
  <2> QED
    BY <1>5, <2>1 DEF ClearFilter, rest
<1>6. ASSUME NEW s \in Sides, NEW text \in Texts, Type(s, text)
      PROVE  Whole(boxes') /\ warned' = HiddenCount(boxes') /\ submitted' = submitted
  BY <1>1, <1>6 DEF Type, rest, HiddenCount
<1>7. ASSUME NEW s \in Sides, FilterKeyUp(s)
      PROVE  Whole(boxes') /\ warned' = HiddenCount(boxes') /\ submitted' = submitted
  <2> DEFINE i == SelectedIndex(boxes[s])
             filtered == [boxes EXCEPT ![s] = Filter(@, typed[s])]
  <2>1. Whole(filtered) /\ filtered[s] = Filter(boxes[s], typed[s])
    BY <1>1, FilterBoxOk
  <2>2. boxes' = [boxes EXCEPT ![s] = SelectIndex(Filter(@, typed[s]), i)]
    BY <1>7 DEF FilterKeyUp
  <2> HIDE DEF i
  <2>3. boxes' = [filtered EXCEPT ![s] = SelectIndex(@, i)]
    BY <2>1, <2>2
  <2> HIDE DEF filtered
  <2>4. Whole([filtered EXCEPT ![s] = SelectIndex(@, i)])
    BY <2>1, SelectOk
  <2> QED
    BY <1>7, <2>3, <2>4 DEF FilterKeyUp, rest
<1>8. ASSUME NEW s \in Sides, FilterKeyEnter(s)
      PROVE  Whole(boxes') /\ warned' = HiddenCount(boxes') /\ submitted' = submitted
  <2> DEFINE first == [boxes EXCEPT ![s] = SelectIndex(@, 1)]
             moved == Move(first, s)
             again == [moved EXCEPT ![s] = SelectIndex(@, 1)]
  <2>1. Whole(first) /\ SameHidden(boxes, first)
    BY <1>1, SelectOk
  <2>2. boxes' = again
    BY <1>8 DEF FilterKeyEnter
  <2> HIDE DEF first
  <2>3. Whole(moved) /\ SameHidden(first, moved)
    BY <2>1, MoveOk
  <2> HIDE DEF moved
  <2>4. Whole(again) /\ SameHidden(moved, again)
    BY <2>3, SelectOk
  <2> HIDE DEF again
  <2>5. HiddenCount(again) = HiddenCount(boxes)
    BY <1>1, <2>1, <2>3, <2>4 DEF HiddenCount, SameHidden
  <2> QED
    BY <1>1, <1>8, <2>2, <2>4, <2>5 DEF FilterKeyEnter, rest
<1>9. ASSUME NEW s \in Sides, FilterKeyAcross(s)
      PROVE  Whole(boxes') /\ warned' = HiddenCount(boxes') /\ submitted' = submitted
  <2> DEFINE moved    == Move(boxes, s)
             filtered == RefreshFilteredSelects(moved)
  <2>1. Whole(moved)
    BY <1>1, MoveOk
  <2>2. PICK i : boxes' = [filtered EXCEPT ![s] = SelectIndex(@, i)]
    BY <1>9 DEF FilterKeyAcross
  <2> HIDE DEF moved
  <2>3. Whole(filtered)
    BY <2>1, RefreshOk
  <2> HIDE DEF filtered
  <2>4. Whole([filtered EXCEPT ![s] = SelectIndex(@, i)])
    BY <2>3, SelectOk
  <2> QED
    BY <1>9, <2>2, <2>4 DEF FilterKeyAcross, rest
<1>10. ASSUME NEW s \in Sides, FilterKeyVertical(s)
      PROVE  Whole(boxes') /\ warned' = HiddenCount(boxes') /\ submitted' = submitted
  <2>1. PICK i : boxes' = [boxes EXCEPT ![s] = SelectIndex(@, i)]
    BY <1>10 DEF FilterKeyVertical
  <2> DEFINE new == [boxes EXCEPT ![s] = SelectIndex(@, i)]
  <2>2. Whole(new) /\ SameHidden(boxes, new)
    BY <1>1, SelectOk
  <2>3. Whole(boxes') /\ SameHidden(boxes, boxes')
    BY <2>1, <2>2
  <2>4. HiddenCount(boxes') = HiddenCount(boxes)
    BY <1>1, <2>3 DEF HiddenCount, SameHidden
  <2> QED
    BY <1>1, <1>10, <2>3, <2>4 DEF FilterKeyVertical, rest
<1>11. ASSUME NEW v \in Later, PopupAdds(v)
      PROVE  Whole(boxes') /\ warned' = HiddenCount(boxes') /\ submitted' = submitted
  <2> DEFINE b     == boxes["to"]
             more  == AddToCache(b, v)
             new   == Redisplay(more)
             grown == Append(b.cache, v)
  <2>1. /\ boxes \in [Sides -> BoxType] /\ b \in BoxType /\ b.cache \in Seq(Options)
        /\ IsInjective(b.cache) /\ b.hidden \subseteq Range(b.cache)
        /\ Divided(boxes) /\ \A s \in Sides : Displayed(boxes[s])
    BY <1>1 DEF Whole, Divided, BoxType
  <2>2. /\ v \in Options /\ \A s \in Sides : v \notin Range(boxes[s].cache)
        /\ v \notin Range(b.cache)
        /\ boxes' = [boxes EXCEPT !["to"] = new]
    BY <1>1, <1>11 DEF PopupAdds, Options
  <2>3. grown \in Seq(Options) /\ Range(grown) = Range(b.cache) \cup {v} /\ IsInjective(grown)
    BY <2>1, <2>2, AppendRange
  <2>4. more = [b EXCEPT !.cache = grown, !.hidden = b.hidden]
    BY <2>1, <2>2 DEF AddToCache
  <2> HIDE DEF grown, more
  <2>5. more \in BoxType /\ more.cache = grown /\ more.hidden = b.hidden
    BY <2>1, <2>3, <2>4 DEF BoxType
  <2>6. new \in BoxType /\ Displayed(new) /\ new.cache = grown /\ new.hidden = b.hidden
    BY <2>5, RedisplayOk
  <2> HIDE DEF new
  <2>7. /\ boxes' \in [Sides -> BoxType] /\ boxes'["to"] = new
        /\ boxes'["from"] = boxes["from"] /\ Sides = {"from", "to"}
    BY <2>1, <2>2, <2>6 DEF Sides
  <2>8. Divided(boxes')
    <3>1. \A s \in Sides : /\ IsInjective(boxes'[s].cache)
                           /\ boxes'[s].hidden \subseteq Range(boxes'[s].cache)
      BY <2>1, <2>3, <2>6, <2>7 DEF Divided
    <3>2. Range(boxes["from"].cache) \cap Range(b.cache) = {}
      BY <2>1, <2>7 DEF Divided
    <3>3. Range(boxes'["from"].cache) \cap Range(boxes'["to"].cache) = {}
      BY <2>2, <2>3, <2>6, <2>7, <3>2
    <3>4. \A s, t \in Sides : s # t => Range(boxes'[s].cache) \cap Range(boxes'[t].cache) = {}
      BY <2>7, <3>3
    <3>5. \A w \in Values : w \in Range(boxes["from"].cache) \/ w \in Range(b.cache)
      BY <2>1, <2>7 DEF Divided
    <3>6. \A w \in Values : \E s \in Sides : w \in Range(boxes'[s].cache)
      BY <2>3, <2>6, <2>7, <3>5
    <3> QED
      BY <2>7, <3>1, <3>4, <3>6 DEF Divided
  <2>9. \A s \in Sides : Displayed(boxes'[s])
    BY <2>1, <2>6, <2>7
  <2>10. HiddenCount(boxes') = HiddenCount(boxes)
    BY <2>6, <2>7 DEF HiddenCount
  <2> QED
    BY <1>1, <1>11, <2>8, <2>9, <2>10 DEF PopupAdds, rest, Whole
<1> QED
  BY <1>2, <1>3, <1>4, <1>5, <1>6, <1>7, <1>8, <1>9, <1>10, <1>11

LEMMA SubmitStep ==
  ASSUME WidgetInv, SubmitBoxes
  PROVE  WidgetInv'
<1> DEFINE b    == boxes["to"]
           full == Filter(b, Options)
           sent == [full EXCEPT !.selected = Range(full.shown)]
<1>1. Whole(boxes) /\ b \in BoxType /\ "to" \in Sides /\ Range(b.cache) \subseteq Options
  <2>1. "to" \in Sides /\ Whole(boxes)
    BY DEF WidgetInv, Sides
  <2>2. b \in BoxType
    BY <2>1 DEF Whole, Divided
  <2>3. b.cache \in Seq(Options)
    BY <2>2 DEF BoxType
  <2> QED
    BY <2>1, <2>2, <2>3 DEF Range
<1>2. /\ full \in BoxType /\ Displayed(full) /\ full.cache = b.cache
      /\ full.hidden = Range(b.cache) \ Options
  BY <1>1, FilterOk
<1>3. /\ submitted' = TRUE /\ sentOptions' = Range(full.shown)
      /\ boxes' = [boxes EXCEPT !["to"] = sent]
  BY DEF SubmitBoxes
<1> HIDE DEF full
<1>4. full.hidden = {} /\ Range(full.shown) = Range(b.cache)
  BY <1>1, <1>2 DEF Displayed
<1>5. /\ sent \in BoxType /\ sent.cache = b.cache /\ sent.hidden = {}
      /\ sent.shown = full.shown
  BY <1>1, <1>2, <1>4 DEF BoxType
<1> HIDE DEF sent
<1>6. Displayed(sent)
  BY <1>4, <1>5 DEF Displayed
<1>7. Whole([boxes EXCEPT !["to"] = sent])
  BY <1>1, <1>5, <1>6, SetBoxOk
<1>8. boxes'["to"].cache = b.cache
  <2>1. boxes \in [Sides -> BoxType]
    BY <1>1 DEF Whole, Divided
  <2> QED
    BY <1>1, <1>3, <1>5, <2>1
<1> QED
  BY <1>3, <1>4, <1>7, <1>8 DEF WidgetInv

(* The boxes init makes from the options of the page.                      *)
LEMMA LoadedOk ==
  ASSUME NEW marked \in SUBSET Values
  PROVE  Whole(Loaded(marked)) /\ HiddenCount(Loaded(marked)) = 0
<1> DEFINE n    == Cardinality(Values)
           all  == CHOOSE f \in Bijection(1..n, Values) : TRUE
           from == [cache |-> all, hidden |-> {}, shown |-> all, selected |-> marked]
           none == [cache |-> <<>>, hidden |-> {}, shown |-> <<>>, selected |-> {}]
           bs   == [s \in Sides |-> IF s = "from" THEN from ELSE none]
<1>1. IsFiniteSet(Values) /\ n \in Nat /\ all \in Bijection(1..n, Values)
  <2>1. IsFiniteSet(Values)
    BY WidgetAssumption
  <2>2. n \in Nat /\ ExistsBijection(1..n, Values)
    BY <2>1, FS_CardinalityType
  <2> QED
    BY <2>1, <2>2 DEF ExistsBijection
<1>2. Loaded(marked) = Move(bs, "from")
  BY DEF Loaded
<1> HIDE DEF all, n
<1>3. /\ all \in [1..n -> Values] /\ IsInjective(all)
      /\ \A v \in Values : \E i \in 1..n : all[i] = v
  BY <1>1 DEF Bijection, Injection, Surjection
<1>4. all \in Seq(Options) /\ Range(all) = Values
  <2>1. all \in Seq(Values) /\ DOMAIN all = 1..n
    BY <1>1, <1>3
  <2>2. Values \subseteq Options
    BY DEF Options
  <2>3. all \in [1..n -> Options]
    BY <1>3, <2>2
  <2> QED
    BY <1>1, <1>3, <2>1, <2>3 DEF Range
<1>5. <<>> \in Seq(Options) /\ Range(<<>>) = {} /\ IsInjective(<<>>)
  BY DEF Range, IsInjective
<1>6. from \in BoxType /\ none \in BoxType /\ Displayed(from) /\ Displayed(none)
  <2>1. from \in BoxType
    BY <1>4 DEF BoxType, Options
  <2>2. none \in BoxType
    BY <1>5 DEF BoxType
  <2> QED
    BY <2>1, <2>2 DEF Displayed
<1>7. /\ Sides = {"from", "to"} /\ "from" # "to"
      /\ from.cache = all /\ none.cache = <<>> /\ from.hidden = {} /\ none.hidden = {}
  BY DEF Sides
<1> HIDE DEF from, none
<1>8. bs \in [Sides -> BoxType] /\ bs["from"] = from /\ bs["to"] = none
  BY <1>6, <1>7
<1> HIDE DEF bs
<1>9. Whole(bs)
  <2>1. \A s \in Sides : IsInjective(bs[s].cache) /\ bs[s].hidden \subseteq Range(bs[s].cache)
    BY <1>3, <1>5, <1>7, <1>8
  <2>2. \A s, t \in Sides : s # t => Range(bs[s].cache) \cap Range(bs[t].cache) = {}
    BY <1>5, <1>7, <1>8
  <2>3. \A v \in Values : \E s \in Sides : v \in Range(bs[s].cache)
    BY <1>4, <1>7, <1>8
  <2>4. \A s \in Sides : Displayed(bs[s])
    BY <1>6, <1>7, <1>8
  <2> QED
    BY <1>8, <2>1, <2>2, <2>3, <2>4 DEF Whole, Divided
<1>10. Whole(Move(bs, "from")) /\ SameHidden(bs, Move(bs, "from"))
  BY <1>7, <1>9, MoveOk
<1>11. HiddenCount(Move(bs, "from")) = Cardinality({})
  BY <1>7, <1>8, <1>10 DEF HiddenCount, SameHidden
<1> QED
  BY <1>2, <1>10, <1>11, FS_EmptySet

LEMMA WidgetInvariant == FilterSpec => []WidgetInv
<1>1. FilterInit => WidgetInv
  <2> SUFFICES ASSUME FilterInit
               PROVE  WidgetInv
    OBVIOUS
  <2>1. PICK marked \in SUBSET Values : boxes = Loaded(marked)
    BY DEF FilterInit
  <2>2. Whole(boxes) /\ HiddenCount(boxes) = 0
    BY <2>1, LoadedOk
  <2> QED
    BY <2>2 DEF FilterInit, WidgetInv
<1>2. WidgetInv /\ [FilterNext]_filterVars => WidgetInv'
  <2> SUFFICES ASSUME WidgetInv, [FilterNext]_filterVars
               PROVE  WidgetInv'
    OBVIOUS
  <2>1. CASE SubmitBoxes
    BY <2>1, SubmitStep
  <2>2. CASE UNCHANGED filterVars
    BY <2>2 DEF WidgetInv, filterVars, HiddenCount, Whole, Divided, Displayed
  <2>3. CASE \/ \E s \in Sides, marked \in SUBSET Options : Mark(s, marked)
             \/ \E l \in Links : ClickLink(l)
             \/ \E s \in Sides, v \in Options : DoubleClick(s, v)
             \/ ClearFilter
             \/ \E s \in Sides, text \in Texts : Type(s, text)
             \/ \E s \in Sides : \/ FilterKeyUp(s) \/ FilterKeyEnter(s)
                                 \/ FilterKeyAcross(s) \/ FilterKeyVertical(s)
             \/ \E v \in Later : PopupAdds(v)
    <3>1. submitted = FALSE
      BY <2>3 DEF WidgetInv, Mark, ClickLink, DoubleClick, ClearFilter, Type, FilterKeyUp,
                  FilterKeyEnter, FilterKeyAcross, FilterKeyVertical, PopupAdds
    <3>2. Whole(boxes') /\ warned' = HiddenCount(boxes') /\ submitted' = submitted
      BY <2>3, <3>1, UserStep
    <3> QED
      BY <3>1, <3>2 DEF WidgetInv
  <2> QED
    BY <2>1, <2>2, <2>3 DEF FilterNext
<1> QED
  BY <1>1, <1>2, PTL DEF FilterSpec

-----------------------------------------------------------------------------
LEMMA PlacesAre ==
  ASSUME WidgetInv, NEW v, NEW s \in Sides
  PROVE  /\ v \in Range(boxes[s].cache) => Cardinality(Places(v, s)) = 1
         /\ v \notin Range(boxes[s].cache) => Cardinality(Places(v, s)) = 0
<1>1. IsInjective(boxes[s].cache)
  BY DEF WidgetInv, Whole, Divided
<1>2. ASSUME v \in Range(boxes[s].cache)
      PROVE  Cardinality(Places(v, s)) = 1
  <2>1. PICK i \in DOMAIN boxes[s].cache : boxes[s].cache[i] = v
    BY <1>2 DEF Range
  <2>2. Places(v, s) = {i}
    BY <1>1, <2>1 DEF Places, IsInjective
  <2> QED
    BY <2>2, FS_Singleton
<1>3. ASSUME v \notin Range(boxes[s].cache)
      PROVE  Cardinality(Places(v, s)) = 0
  <2>1. Places(v, s) = {}
    BY <1>3 DEF Places, Range
  <2> QED
    BY <2>1, FS_EmptySet
<1> QED
  BY <1>2, <1>3

(* SelectBox.js move, move_all, filter and add_to_cache: an option of the  *)
(* page is always in exactly one of the two boxes, whatever is moved,      *)
(* filtered and added.                                                     *)
THEOREM EveryOptionIsKept == FilterSpec => []NothingLost
<1>1. ASSUME WidgetInv
      PROVE  NothingLost
  <2> DEFINE F == Range(boxes["from"].cache)
             T == Range(boxes["to"].cache)
             nf(v) == Cardinality(Places(v, "from"))
             nt(v) == Cardinality(Places(v, "to"))
  <2>1. "from" \in Sides /\ "to" \in Sides /\ "from" # "to" /\ Sides = {"from", "to"}
    BY DEF Sides
  <2>2. \A v : /\ v \in F => nf(v) = 1
               /\ v \notin F => nf(v) = 0
               /\ v \in T => nt(v) = 1
               /\ v \notin T => nt(v) = 0
    BY <1>1, <2>1, PlacesAre
  <2>3. F \cap T = {} /\ \A v \in Values : v \in F \/ v \in T
    BY <1>1, <2>1 DEF WidgetInv, Whole, Divided
  <2> HIDE DEF F, T
  <2>4. \A v : (v \in F \/ v \in T) => nf(v) + nt(v) = 1
    BY <2>2, <2>3
  <2>5. \A v : nf(v) + nt(v) <= 1
    BY <2>2, <2>3
  <2> QED
    BY <2>3, <2>4, <2>5 DEF NothingLost
<1> QED
  BY <1>1, WidgetInvariant, PTL

(* SelectFilter2.js, the submit listener: the server gets all chosen       *)
(* options, with those the filter hides.                                   *)
THEOREM ChosenOptionsAreSent == FilterSpec => []SentIsChosen
<1>1. WidgetInv => SentIsChosen
  BY DEF WidgetInv, SentIsChosen
<1> QED
  BY <1>1, WidgetInvariant, PTL

(* SelectFilter2.js refresh_filtered_warning: until the form is sent the   *)
(* warning counts what the filter hides of the chosen options.             *)
THEOREM WarningCountsHidden == FilterSpec => []WarningIsTrue
<1>1. ASSUME WidgetInv
      PROVE  WarningIsTrue
  <2> DEFINE b == boxes["to"]
  <2>1. b.hidden \subseteq Range(b.cache) /\ Range(b.shown) = Range(b.cache) \ b.hidden
    BY <1>1 DEF WidgetInv, Whole, Divided, Displayed, Sides
  <2>2. b.hidden = Range(b.cache) \ Range(b.shown)
    BY <2>1
  <2> QED
    BY <1>1, <2>2 DEF WidgetInv, WarningIsTrue, HiddenCount
<1> QED
  BY <1>1, WidgetInvariant, PTL

-----------------------------------------------------------------------------
(* The windows of the related fields.                                      *)

Window ==
  [open : BOOLEAN, field : Fields \cup {"none"}, level : 0..MaxLevel, opener : Nat,
   page : Pages, related : Seq(Nat), orphan : BOOLEAN]

(* Every window is one level below its opener, and so are the windows in   *)
(* its list, which only a form has.                                        *)
Linked(ws) ==
  /\ \E n \in Nat : ws \in [0..n -> Window]
  /\ \A w \in DOMAIN ws \ {0} :
       ws[w].opener \in DOMAIN ws /\ ws[w].level = ws[ws[w].opener].level + 1
  /\ \A w \in DOMAIN ws : \A v \in Range(ws[w].related) :
       v \in DOMAIN ws /\ ws[v].level = ws[w].level + 1
  /\ \A w \in DOMAIN ws : ws[w].page # "form" => ws[w].related = <<>>

Opened(ws) == {v \in DOMAIN ws : ws[v].open}
Result(ws) == [open : SUBSET DOMAIN ws, ok : BOOLEAN]
Froms(ws)  == (SUBSET DOMAIN ws) \X DOMAIN ws

(* What dismissChildPopups of w promises.  The windows it has closed are   *)
(* deeper than w.  Without an error, it has closed all that w has opened,  *)
(* and with each window all that this one has opened.                      *)
Dismissed(ws, from, r) ==
  /\ r.open \subseteq from[1]
  /\ \A u \in from[1] \ r.open : ws[u].level > ws[from[2]].level
  /\ r.ok => /\ \A v \in Range(ws[from[2]].related) : v \notin r.open
             /\ \A u \in from[1] \ r.open :
                  \A v \in Range(ws[u].related) : v \notin r.open

LEMMA DismissWindowTyped ==
  ASSUME NEW ws, NEW win \in DOMAIN ws, NEW before \in Result(ws),
         NEW dismiss \in [Froms(ws) -> Result(ws)]
  PROVE  DismissWindow(ws, win, before, dismiss) \in Result(ws)
<1> DEFINE inside == dismiss[<<before.open, win>>]
<1>1. <<before.open, win>> \in Froms(ws)
  BY DEF Froms, Result
<1>2. inside \in Result(ws)
  BY <1>1
<1> HIDE DEF inside
<1> QED
  BY <1>2 DEF DismissWindow, Result, inside

(* The loop, one window after the other.                                   *)
Loops(f, ws, from, dismiss) ==
  LET list == ws[from[2]].related IN
  /\ f \in [0..Len(list) -> Result(ws)]
  /\ f[0] = [open |-> from[1], ok |-> TRUE]
  /\ \A n \in 1..Len(list) : f[n] = DismissWindow(ws, list[n], f[n - 1], dismiss)
  /\ DismissWindows(ws, from, dismiss) = f[Len(list)]

LEMMA DismissLoop ==
  ASSUME NEW ws, Linked(ws), NEW from \in Froms(ws),
         NEW dismiss \in [Froms(ws) -> Result(ws)]
  PROVE  \E f : Loops(f, ws, from, dismiss)
<1> DEFINE list  == ws[from[2]].related
           n     == Len(list)
           V     == Result(ws)
           start == [open |-> from[1], ok |-> TRUE]
           step  == [p \in (1..n) \X V |-> DismissWindow(ws, list[p[1]], p[2], dismiss)]
<1>1. from[1] \in SUBSET DOMAIN ws /\ from[2] \in DOMAIN ws
  BY DEF Froms
<1>2. n \in Nat /\ \A k \in 1..n : list[k] \in DOMAIN ws
  <2>1. list \in Seq(Nat)
    BY <1>1 DEF Linked, Window
  <2>2. \A v \in Range(list) : v \in DOMAIN ws
    BY <1>1 DEF Linked
  <2> HIDE DEF list
  <2> QED
    BY <2>1, <2>2 DEF Range
<1>3. start \in V
  BY <1>1 DEF Result
<1>4. \A k \in 1..n, r \in V : DismissWindow(ws, list[k], r, dismiss) \in V
  BY <1>2, DismissWindowTyped
<1>5. /\ step \in [(1..n) \X V -> V]
      /\ \A k \in 1..n, r \in V : step[<<k, r>>] = DismissWindow(ws, list[k], r, dismiss)
  <2> HIDE DEF V, n, list
  <2> QED
    BY <1>4
<1> HIDE DEF n, V, start, step, list
<1>6. \E f : Solves(f, n, V, start, step)
  BY <1>2, <1>3, <1>5, Recursion
<1>7. PICK f : Solves(f, n, V, start, step)
  BY <1>6
<1> DEFINE next(g, i) == DismissWindow(ws, list[i], g[i - 1], dismiss)
           body(g) == [i \in 0..n |-> IF i = 0 THEN start ELSE next(g, i)]
           upTo == CHOOSE g : g = body(g)
<1>8. DismissWindows(ws, from, dismiss) = upTo[n]
  BY DEF DismissWindows, n, list, start
<1>9. f = body(f)
  <2>1. \A k \in 1..n : f[k] = next(f, k)
    <3> TAKE k \in 1..n
    <3>1. k - 1 \in 0..n
      BY <1>2
    <3>2. f[k - 1] \in V
      BY <1>7, <3>1 DEF Solves
    <3> QED
      BY <1>5, <1>7, <3>2 DEF Solves
  <2> HIDE DEF next
  <2>2. f = [i \in 0..n |-> IF i = 0 THEN start ELSE next(f, i)]
    BY <1>2, <1>7, <2>1 DEF Solves
  <2> QED
    BY <2>2
<1>10. upTo = body(upTo)
  <2> HIDE DEF body
  <2> QED
    BY <1>9
<1> HIDE DEF upTo
<1>11. /\ DOMAIN upTo = 0..n /\ upTo = [i \in 0..n |-> upTo[i]]
       /\ upTo[0] = start /\ \A k \in 1..n : upTo[k] = next(upTo, k)
  <2> HIDE DEF next
  <2>1. 0 \in 0..n /\ 1..n \subseteq 0..n
    BY <1>2
  <2>2. /\ body(upTo) = [i \in 0..n |-> body(upTo)[i]] /\ DOMAIN body(upTo) = 0..n
        /\ \A i \in 0..n : body(upTo)[i] = IF i = 0 THEN start ELSE next(upTo, i)
    OBVIOUS
  <2> HIDE DEF body
  <2> QED
    BY <1>10, <2>1, <2>2
<1>12. \A k \in 1..n : upTo[k - 1] \in V => upTo[k] \in V
  BY <1>4, <1>11 DEF V
<1>13. 0..n \subseteq {k \in 0..n : upTo[k] \in V}
  <2> DEFINE T == {k \in 0..n : upTo[k] \in V}
  <2>1. 0 \in T
    BY <1>2, <1>3, <1>11
  <2>2. \A k \in 1..n : k - 1 \in T => k \in T
    BY <1>2, <1>12
  <2> HIDE DEF T
  <2>3. 0..n \subseteq T
    BY <1>2, <2>1, <2>2, UpTo
  <2> QED
    BY <2>3 DEF T
<1>14. upTo \in [0..n -> V]
  BY <1>11, <1>13
<1>15. Loops(upTo, ws, from, dismiss)
  BY <1>8, <1>11, <1>14 DEF Loops, n, V, start, list
<1> QED
  BY <1>15

LEMMA DismissWindowsTyped ==
  ASSUME NEW ws, Linked(ws), NEW from \in Froms(ws),
         NEW dismiss \in [Froms(ws) -> Result(ws)]
  PROVE  DismissWindows(ws, from, dismiss) \in Result(ws)
<1> DEFINE n == Len(ws[from[2]].related)
<1>1. PICK f : Loops(f, ws, from, dismiss)
  BY DismissLoop
<1>2. n \in Nat
  <2>1. from[2] \in DOMAIN ws
    BY DEF Froms
  <2>2. ws[from[2]].related \in Seq(Nat)
    BY <2>1 DEF Linked, Window
  <2> QED
    BY <2>2
<1>3. f \in [0..n -> Result(ws)] /\ DismissWindows(ws, from, dismiss) = f[n]
  BY <1>1 DEF Loops
<1> HIDE DEF n
<1> QED
  BY <1>2, <1>3

(* If the windows one level down keep the promise, so does w.              *)
LEMMA DismissWindowsKeeps ==
  ASSUME NEW ws, Linked(ws), NEW from \in Froms(ws),
         NEW dismiss \in [Froms(ws) -> Result(ws)],
         \A p \in Froms(ws) : ws[p[2]].level = ws[from[2]].level + 1
                                => Dismissed(ws, p, dismiss[p])
  PROVE  Dismissed(ws, from, DismissWindows(ws, from, dismiss))
<1> DEFINE w    == from[2]
           list == ws[w].related
           n    == Len(list)
<1>1. from[1] \in SUBSET DOMAIN ws /\ w \in DOMAIN ws
  BY DEF Froms
<1>2. list \in Seq(Nat) /\ n \in Nat
  BY <1>1 DEF Linked, Window
<1>3. \A k \in 1..n : list[k] \in DOMAIN ws /\ ws[list[k]].level = ws[w].level + 1
  <2>1. \A v \in Range(list) : v \in DOMAIN ws /\ ws[v].level = ws[w].level + 1
    BY <1>1 DEF Linked
  <2> HIDE DEF list
  <2> QED
    BY <1>2, <2>1 DEF Range
<1>4. PICK f : Loops(f, ws, from, dismiss)
  BY DismissLoop
<1>5. /\ f \in [0..n -> Result(ws)] /\ f[0] = [open |-> from[1], ok |-> TRUE]
      /\ \A k \in 1..n : f[k] = DismissWindow(ws, list[k], f[k - 1], dismiss)
      /\ DismissWindows(ws, from, dismiss) = f[n]
  BY <1>4 DEF Loops
<1>6. \A u \in DOMAIN ws : ws[u].level \in Nat
  BY DEF Linked, Window
<1> HIDE DEF w, list, n
<1> DEFINE Closes(k, r) ==
             /\ r.open \subseteq from[1]
             /\ \A u \in from[1] \ r.open : ws[u].level > ws[w].level
             /\ r.ok => /\ \A i \in 1..k : list[i] \notin r.open
                        /\ \A u \in from[1] \ r.open :
                             \A v \in Range(ws[u].related) : v \notin r.open
           T == {k \in 0..n : Closes(k, f[k])}
<1>7. 0 \in T
  BY <1>2, <1>5
<1>8. ASSUME NEW k \in 1..n, k - 1 \in T
      PROVE  k \in T
  <2> DEFINE before == f[k - 1]
             win    == list[k]
             inside == dismiss[<<before.open, win>>]
             after  == f[k]
  <2>1. Closes(k - 1, before) /\ k - 1 \in 0..n
    BY <1>8
  <2>2. before \in Result(ws) /\ after = DismissWindow(ws, win, before, dismiss)
    BY <1>5, <2>1
  <2>3. win \in DOMAIN ws /\ ws[win].level = ws[w].level + 1
    BY <1>3
  <2>4. \A i \in 1..k : i = k \/ i \in 1..(k - 1)
    BY <1>2
  <2>5. <<before.open, win>> \in Froms(ws) /\ Dismissed(ws, <<before.open, win>>, inside)
    <3>1. <<before.open, win>> \in Froms(ws)
      BY <2>2, <2>3 DEF Froms, Result
    <3> QED
      BY <2>3, <3>1 DEF w
  <2>6. inside \in Result(ws)
    BY <2>5
  <2>7. /\ inside.open \subseteq before.open
        /\ \A u \in before.open \ inside.open : ws[u].level > ws[win].level
        /\ inside.ok => /\ \A v \in Range(ws[win].related) : v \notin inside.open
                        /\ \A u \in before.open \ inside.open :
                             \A v \in Range(ws[u].related) : v \notin inside.open
    BY <2>5 DEF Dismissed
  <2> HIDE DEF before, win, inside, after
  <2>8. CASE ~before.ok \/ win \notin before.open
    <3>1. after = before
      BY <2>2, <2>8 DEF DismissWindow
    <3> QED
      BY <2>1, <2>4, <2>8, <3>1 DEF after, win
  <2>9. CASE before.ok /\ win \in before.open /\ ws[win].page # "form"
    <3>1. after = [before EXCEPT !.ok = FALSE]
      BY <2>2, <2>9 DEF DismissWindow
    <3>2. after.open = before.open /\ after.ok = FALSE
      BY <2>2, <3>1 DEF Result
    <3> QED
      BY <2>1, <3>2 DEF after
  <2>10. CASE before.ok /\ win \in before.open /\ ws[win].page = "form" /\ ~inside.ok
    <3>1. after = inside
      BY <2>2, <2>10 DEF DismissWindow, inside
    <3>2. \A u \in from[1] \ inside.open : ws[u].level > ws[w].level
      <4> TAKE u \in from[1] \ inside.open
      <4>1. CASE u \notin before.open
        BY <2>1, <4>1
      <4>2. CASE u \in before.open
        <5>1. ws[u].level > ws[win].level /\ ws[u].level \in Nat /\ ws[w].level \in Nat
          BY <1>1, <1>6, <2>7, <4>2 DEF w
        <5> QED
          BY <2>3, <5>1
      <4> QED
        BY <4>1, <4>2
    <3> QED
      BY <2>1, <2>7, <2>10, <3>1, <3>2 DEF after
  <2>11. CASE before.ok /\ win \in before.open /\ ws[win].page = "form" /\ inside.ok
    <3>1. after = [inside EXCEPT !.open = @ \ {win}]
      BY <2>2, <2>11 DEF DismissWindow, inside
    <3>2. after.open = inside.open \ {win} /\ after.ok = TRUE
      BY <2>6, <2>11, <3>1 DEF Result
    <3>3. \A u \in from[1] \ after.open : ws[u].level > ws[w].level
      <4> TAKE u \in from[1] \ after.open
      <4>1. CASE u \notin before.open
        BY <2>1, <4>1
      <4>2. CASE u \in before.open
        <5>1. ws[u].level \in Nat /\ ws[w].level \in Nat
          BY <1>1, <1>6 DEF w
        <5>2. u = win \/ ws[u].level > ws[win].level
          BY <2>7, <3>2, <4>2
        <5> QED
          BY <2>3, <5>1, <5>2
      <4> QED
        BY <4>1, <4>2
    <3>4. \A i \in 1..k : list[i] \notin after.open
      BY <2>1, <2>4, <2>7, <2>11, <3>2 DEF win
    <3>5. \A u \in from[1] \ after.open : \A v \in Range(ws[u].related) : v \notin after.open
      <4> TAKE u \in from[1] \ after.open
      <4> TAKE v \in Range(ws[u].related)
      <4>1. CASE u \notin before.open
        BY <2>1, <2>7, <2>11, <3>2, <4>1
      <4>2. CASE u = win
        BY <2>7, <2>11, <3>2, <4>2
      <4>3. CASE u \in before.open /\ u # win
        BY <2>7, <2>11, <3>2, <4>3
      <4> QED
        BY <4>1, <4>2, <4>3
    <3> QED
      BY <2>1, <2>7, <3>2, <3>3, <3>4, <3>5 DEF after
  <2> QED
    BY <2>8, <2>9, <2>10, <2>11
<1>9. Closes(n, f[n])
  <2>1. 0..n \subseteq T
    <3> HIDE DEF T
    <3> QED
      BY <1>2, <1>7, <1>8, UpTo
  <2>2. n \in 0..n
    BY <1>2
  <2>3. n \in T
    <3> HIDE DEF T
    <3> QED
      BY <2>1, <2>2
  <2> HIDE DEF Closes
  <2> QED
    BY <2>3
<1>10. \A v \in Range(list) : \E i \in 1..n : v = list[i]
  BY <1>2 DEF Range, n
<1> QED
  BY <1>5, <1>9, <1>10 DEF Dismissed, list, w

(* dismissChildPopups, from the last level up.                             *)
Closing(f, ws) ==
  /\ f \in [0..MaxLevel -> [Froms(ws) -> Result(ws)]]
  /\ f[0] = [from \in Froms(ws) |-> [open |-> from[1], ok |-> TRUE]]
  /\ \A k \in 1..MaxLevel :
       f[k] = [from \in Froms(ws) |-> DismissWindows(ws, from, f[k - 1])]
  /\ \A w \in DOMAIN ws :
       DismissChildPopups(ws, w) = f[MaxLevel - ws[w].level][<<Opened(ws), w>>]

LEMMA DismissLevels ==
  ASSUME PopupAssumption, NEW ws, Linked(ws)
  PROVE  \E f : Closing(f, ws)
<1> DEFINE V     == [Froms(ws) -> Result(ws)]
           start == [from \in Froms(ws) |-> [open |-> from[1], ok |-> TRUE]]
           again(d) == [from \in Froms(ws) |-> DismissWindows(ws, from, d)]
           step  == [p \in (1..MaxLevel) \X V |-> again(p[2])]
<1>1. MaxLevel \in Nat
  BY DEF PopupAssumption
<1>2. start \in V
  BY DEF Froms, Result
<1>3. \A d \in V : again(d) \in V
  BY DismissWindowsTyped
<1>4. /\ step \in [(1..MaxLevel) \X V -> V]
      /\ \A k \in 1..MaxLevel, d \in V : step[<<k, d>>] = again(d)
  <2> HIDE DEF V, again
  <2> QED
    BY <1>3
<1> HIDE DEF V, start, step
<1>5. \E f : Solves(f, MaxLevel, V, start, step)
  BY <1>1, <1>2, <1>4, Recursion
<1>6. PICK f : Solves(f, MaxLevel, V, start, step)
  BY <1>5
<1> DEFINE body(g) == [k \in 0..MaxLevel |-> IF k = 0 THEN start ELSE again(g[k - 1])]
           dismiss == CHOOSE g : g = body(g)
<1>7. \A w \in DOMAIN ws :
        DismissChildPopups(ws, w) = dismiss[MaxLevel - ws[w].level][<<Opened(ws), w>>]
  BY DEF DismissChildPopups, start, Froms, Opened
<1> HIDE DEF again
<1>8. f = body(f)
  <2>1. \A k \in 1..MaxLevel : f[k] = again(f[k - 1])
    <3> TAKE k \in 1..MaxLevel
    <3>1. k - 1 \in 0..MaxLevel
      BY <1>1
    <3>2. f[k - 1] \in V
      BY <1>6, <3>1 DEF Solves
    <3> QED
      BY <1>4, <1>6, <3>2 DEF Solves
  <2> QED
    BY <1>1, <1>6, <2>1 DEF Solves
<1>9. dismiss = body(dismiss)
  <2> HIDE DEF body
  <2> QED
    BY <1>8
<1> HIDE DEF dismiss
<1>10. /\ DOMAIN dismiss = 0..MaxLevel
       /\ dismiss = [k \in 0..MaxLevel |-> dismiss[k]]
       /\ dismiss[0] = start
       /\ \A k \in 1..MaxLevel : dismiss[k] = again(dismiss[k - 1])
  <2>1. 0 \in 0..MaxLevel /\ 1..MaxLevel \subseteq 0..MaxLevel
    BY <1>1
  <2>2. /\ body(dismiss) = [k \in 0..MaxLevel |-> body(dismiss)[k]]
        /\ DOMAIN body(dismiss) = 0..MaxLevel
        /\ \A k \in 0..MaxLevel :
             body(dismiss)[k] = IF k = 0 THEN start ELSE again(dismiss[k - 1])
    OBVIOUS
  <2> HIDE DEF body
  <2> QED
    BY <1>9, <2>1, <2>2
<1>11. 0..MaxLevel \subseteq {k \in 0..MaxLevel : dismiss[k] \in V}
  <2> DEFINE T == {k \in 0..MaxLevel : dismiss[k] \in V}
  <2>1. 0 \in T
    BY <1>1, <1>2, <1>10
  <2>2. \A k \in 1..MaxLevel : k - 1 \in T => k \in T
    BY <1>1, <1>3, <1>10
  <2> HIDE DEF T
  <2>3. 0..MaxLevel \subseteq T
    BY <1>1, <2>1, <2>2, UpTo
  <2> QED
    BY <2>3 DEF T
<1>12. dismiss \in [0..MaxLevel -> V]
  BY <1>10, <1>11
<1>13. Closing(dismiss, ws)
  BY <1>7, <1>10, <1>12 DEF Closing, V, start, again
<1> QED
  BY <1>13

LEMMA DismissIs ==
  ASSUME PopupAssumption, NEW ws, Linked(ws), NEW w \in DOMAIN ws
  PROVE  /\ DismissChildPopups(ws, w) \in Result(ws)
         /\ Dismissed(ws, <<Opened(ws), w>>, DismissChildPopups(ws, w))
<1>1. PICK f : Closing(f, ws)
  BY DismissLevels
<1>2. MaxLevel \in Nat /\ \A u \in DOMAIN ws : ws[u].level \in 0..MaxLevel
  BY DEF PopupAssumption, Linked, Window
<1> DEFINE T == {k \in 0..MaxLevel :
                   \A p \in Froms(ws) : ws[p[2]].level = MaxLevel - k => Dismissed(ws, p, f[k][p])}
<1>3. 0 \in T
  <2> SUFFICES ASSUME NEW p \in Froms(ws), ws[p[2]].level = MaxLevel
               PROVE  Dismissed(ws, p, f[0][p])
    BY <1>2
  <2>1. f[0][p] = [open |-> p[1], ok |-> TRUE]
    BY <1>1 DEF Closing
  <2>2. p[2] \in DOMAIN ws
    BY DEF Froms
  <2>3. \A v \in Range(ws[p[2]].related) : FALSE
    <3> TAKE v \in Range(ws[p[2]].related)
    <3>1. v \in DOMAIN ws /\ ws[v].level = MaxLevel + 1
      BY <2>2 DEF Linked
    <3> QED
      BY <1>2, <3>1
  <2> QED
    BY <2>1, <2>3 DEF Dismissed
<1>4. ASSUME NEW k \in 1..MaxLevel, k - 1 \in T
      PROVE  k \in T
  <2> SUFFICES ASSUME NEW p \in Froms(ws), ws[p[2]].level = MaxLevel - k
               PROVE  Dismissed(ws, p, f[k][p])
    BY <1>2
  <2>1. f[k][p] = DismissWindows(ws, p, f[k - 1])
    BY <1>1 DEF Closing
  <2>2. f[k - 1] \in [Froms(ws) -> Result(ws)]
    BY <1>1, <1>2 DEF Closing
  <2>3. \A q \in Froms(ws) : ws[q[2]].level = ws[p[2]].level + 1 => Dismissed(ws, q, f[k - 1][q])
    BY <1>2, <1>4
  <2> QED
    BY <2>1, <2>2, <2>3, DismissWindowsKeeps
<1>5. 0..MaxLevel \subseteq T
  <2> HIDE DEF T
  <2> QED
    BY <1>2, <1>3, <1>4, UpTo
<1> DEFINE k == MaxLevel - ws[w].level
<1>6. k \in 0..MaxLevel /\ ws[w].level = MaxLevel - k
  BY <1>2
<1>7. <<Opened(ws), w>> \in Froms(ws)
  BY DEF Froms, Opened
<1>8. DismissChildPopups(ws, w) = f[k][<<Opened(ws), w>>]
  BY <1>1 DEF Closing
<1>9. f[k] \in [Froms(ws) -> Result(ws)]
  BY <1>1, <1>6 DEF Closing
<1> HIDE DEF k
<1>10. f[k][<<Opened(ws), w>>] \in Result(ws)
  BY <1>7, <1>9
<1>11. Dismissed(ws, <<Opened(ws), w>>, f[k][<<Opened(ws), w>>])
  BY <1>5, <1>6, <1>7
<1> QED
  BY <1>8, <1>10, <1>11

-----------------------------------------------------------------------------
(* A window is shown by its opener, which lists it, and has not lost it.   *)
KeptAt(ws, v) ==
  ws[v].open => /\ ~ws[v].orphan
                /\ ws[ws[v].opener].open
                /\ v \in Range(ws[ws[v].opener].related)

(* Only what is open, and who has lost its opener, may differ.             *)
Alike(us, ws) ==
  /\ DOMAIN us = DOMAIN ws /\ us = [v \in DOMAIN us |-> us[v]]
  /\ \A v \in DOMAIN ws :
       /\ us[v] \in Window
       /\ us[v].field = ws[v].field /\ us[v].level = ws[v].level
       /\ us[v].opener = ws[v].opener /\ us[v].page = ws[v].page
       /\ us[v].related = ws[v].related

LEMMA AlikeLinked ==
  ASSUME NEW ws, Linked(ws), NEW us, Alike(us, ws)
  PROVE  Linked(us)
<1>1. PICK n \in Nat : ws \in [0..n -> Window]
  BY DEF Linked
<1>2. us \in [0..n -> Window]
  BY <1>1 DEF Alike
<1>3. \A w \in DOMAIN us \ {0} :
        us[w].opener \in DOMAIN us /\ us[w].level = us[us[w].opener].level + 1
  BY DEF Linked, Alike
<1>4. \A w \in DOMAIN us : \A v \in Range(us[w].related) :
        v \in DOMAIN us /\ us[v].level = us[w].level + 1
  BY DEF Linked, Alike
<1>5. \A w \in DOMAIN us : us[w].page # "form" => us[w].related = <<>>
  BY DEF Linked, Alike
<1> QED
  BY <1>2, <1>3, <1>4, <1>5 DEF Linked

LEMMA LinkedTypes ==
  ASSUME NEW ws, Linked(ws)
  PROVE  /\ 0 \in DOMAIN ws /\ DOMAIN ws \subseteq Nat
         /\ \A w \in DOMAIN ws :
              /\ ws[w] \in Window /\ ws[w].level \in Nat /\ ws[w].level \in 0..MaxLevel
              /\ ws[w].related \in Seq(Nat) /\ ws[w].open \in BOOLEAN /\ ws[w].orphan \in BOOLEAN
         /\ ws = [w \in DOMAIN ws |-> ws[w]]
BY DEF Linked, Window

(* What the unload of w closes.                                            *)
LEMMA UnloadIs ==
  ASSUME PopupAssumption, NEW ws, Linked(ws), NEW w \in DOMAIN ws
  PROVE  /\ Unload(ws, w).ok \in BOOLEAN
         /\ Alike(Unload(ws, w).windows, ws) /\ Linked(Unload(ws, w).windows)
         /\ \A v \in DOMAIN ws :
              /\ Unload(ws, w).windows[v].open => ws[v].open
              /\ ws[v].open /\ ~Unload(ws, w).windows[v].open => ws[v].level > ws[w].level
         /\ Unload(ws, w).ok => \A v \in DOMAIN ws \ {0} : KeptAt(ws, v) =>
              /\ KeptAt(Unload(ws, w).windows, v)
              /\ Unload(ws, w).windows[v].open => ws[v].opener # w
<1> DEFINE r == IF ws[w].page = "form" THEN DismissChildPopups(ws, w)
                ELSE [open |-> {v \in DOMAIN ws : ws[v].open}, ok |-> TRUE]
           us == Unload(ws, w).windows
           lost(v) == ws[v].orphan \/ (v # 0 /\ v \in r.open /\ ws[v].opener = w)
<1>1. r \in Result(ws) /\ Dismissed(ws, <<Opened(ws), w>>, r)
  <2>1. CASE ws[w].page = "form"
    BY <2>1, DismissIs
  <2>2. CASE ws[w].page # "form"
    <3>1. r = [open |-> Opened(ws), ok |-> TRUE]
      BY <2>2 DEF Opened
    <3>2. Opened(ws) \subseteq DOMAIN ws
      BY DEF Opened
    <3>3. ws[w].related = <<>>
      BY <2>2 DEF Linked
    <3>4. Range(ws[w].related) = {}
      BY <3>3 DEF Range
    <3> HIDE DEF r
    <3> QED
      BY <3>1, <3>2, <3>4 DEF Result, Dismissed
  <2> QED
    BY <2>1, <2>2
<1>2. /\ Unload(ws, w).ok = r.ok
      /\ us = [v \in DOMAIN ws |-> [ws[v] EXCEPT !.open = v \in r.open, !.orphan = lost(v)]]
  BY DEF Unload
<1>3. /\ 0 \in DOMAIN ws /\ DOMAIN ws \subseteq Nat
      /\ \A v \in DOMAIN ws : ws[v] \in Window
  BY LinkedTypes
<1>4. r.ok \in BOOLEAN /\ r.open \subseteq DOMAIN ws
  BY <1>1 DEF Result
<1>5. /\ r.open \subseteq Opened(ws)
      /\ \A u \in Opened(ws) \ r.open : ws[u].level > ws[w].level
      /\ r.ok => /\ \A v \in Range(ws[w].related) : v \notin r.open
                 /\ \A u \in Opened(ws) \ r.open :
                      \A v \in Range(ws[u].related) : v \notin r.open
  BY <1>1 DEF Dismissed
<1> HIDE DEF r
<1>6. \A v \in DOMAIN ws : lost(v) \in BOOLEAN
  BY <1>3 DEF Window
<1>7. /\ DOMAIN us = DOMAIN ws /\ us = [v \in DOMAIN us |-> us[v]]
      /\ \A v \in DOMAIN ws : us[v] = [ws[v] EXCEPT !.open = v \in r.open, !.orphan = lost(v)]
  <2> HIDE DEF us
  <2> QED
    BY <1>2
<1> HIDE DEF us, lost
<1>8. \A v \in DOMAIN ws :
        /\ us[v] \in Window
        /\ us[v].field = ws[v].field /\ us[v].level = ws[v].level
        /\ us[v].opener = ws[v].opener /\ us[v].page = ws[v].page
        /\ us[v].related = ws[v].related
        /\ us[v].open = (v \in r.open) /\ us[v].orphan = lost(v)
  <2> TAKE v \in DOMAIN ws
  <2> DEFINE isOpen == v \in r.open
             isLost == lost(v)
  <2>1. isOpen \in BOOLEAN /\ isLost \in BOOLEAN
    BY <1>6
  <2>2. us[v] = [ws[v] EXCEPT !.open = isOpen, !.orphan = isLost] /\ ws[v] \in Window
    BY <1>3, <1>7
  <2> HIDE DEF isOpen, isLost
  <2>3. /\ us[v] \in Window
        /\ us[v].field = ws[v].field /\ us[v].level = ws[v].level
        /\ us[v].opener = ws[v].opener /\ us[v].page = ws[v].page
        /\ us[v].related = ws[v].related
    BY <2>1, <2>2 DEF Window
  <2>4. us[v].open = isOpen
    BY <2>2 DEF Window
  <2>5. us[v].orphan = isLost
    BY <2>2 DEF Window
  <2> QED
    BY <2>3, <2>4, <2>5 DEF isOpen, isLost
<1>9. Alike(us, ws)
  BY <1>7, <1>8 DEF Alike
<1>10. \A v \in DOMAIN ws : /\ us[v].open => ws[v].open
                            /\ ws[v].open /\ ~us[v].open => ws[v].level > ws[w].level
  BY <1>5, <1>8 DEF Opened
<1>11. ASSUME r.ok, NEW v \in DOMAIN ws \ {0}, KeptAt(ws, v), us[v].open
       PROVE  ~us[v].orphan /\ us[ws[v].opener].open /\ v \in Range(us[ws[v].opener].related)
                /\ ws[v].opener # w
  <2> DEFINE o == ws[v].opener
  <2>1. v \in r.open /\ ws[v].open
    BY <1>5, <1>8, <1>11 DEF Opened
  <2>2. ~ws[v].orphan /\ ws[o].open /\ v \in Range(ws[o].related) /\ o \in DOMAIN ws
    BY <1>11, <2>1 DEF KeptAt, Linked
  <2>3. o # w
    BY <1>5, <1>11, <2>1, <2>2
  <2>4. o \in r.open
    BY <1>5, <1>11, <2>1, <2>2 DEF Opened
  <2>5. ~lost(v)
    BY <2>2, <2>3 DEF lost
  <2> QED
    BY <1>8, <2>2, <2>3, <2>4, <2>5
<1>12. \A v \in DOMAIN ws : us[v].opener = ws[v].opener
  BY <1>8
<1>13. r.ok => \A v \in DOMAIN ws \ {0} : KeptAt(ws, v) =>
                 KeptAt(us, v) /\ (us[v].open => ws[v].opener # w)
  BY <1>11, <1>12 DEF KeptAt
<1>14. Linked(us)
  BY <1>9, AlikeLinked
<1> QED
  BY <1>2, <1>4, <1>9, <1>10, <1>13, <1>14 DEF us

(* A window of the same level in the place of w.                           *)
LEMMA ReplaceLinked ==
  ASSUME NEW ws, Linked(ws), NEW w \in DOMAIN ws, NEW state \in Window,
         state.level = ws[w].level,
         w # 0 => state.opener \in DOMAIN ws /\ ws[w].level = ws[state.opener].level + 1,
         \A v \in Range(state.related) : v \in DOMAIN ws /\ ws[v].level = ws[w].level + 1,
         state.page # "form" => state.related = <<>>
  PROVE  Linked([ws EXCEPT ![w] = state])
<1> DEFINE us == [ws EXCEPT ![w] = state]
<1>1. PICK n \in Nat : ws \in [0..n -> Window]
  BY DEF Linked
<1>2. us \in [0..n -> Window] /\ DOMAIN us = DOMAIN ws
  BY <1>1
<1>3. us[w] = state /\ \A v \in DOMAIN ws \ {w} : us[v] = ws[v]
  BY <1>1
<1> HIDE DEF us
<1>4. \A v \in DOMAIN ws : us[v].level = ws[v].level
  BY <1>3
<1>5. \A v \in DOMAIN us \ {0} :
        us[v].opener \in DOMAIN us /\ us[v].level = us[us[v].opener].level + 1
  <2> TAKE v \in DOMAIN us \ {0}
  <2>1. CASE v = w
    BY <1>2, <1>3, <1>4, <2>1
  <2>2. CASE v # w
    <3>1. us[v] = ws[v] /\ ws[v].opener \in DOMAIN ws /\ ws[v].level = ws[ws[v].opener].level + 1
      BY <1>2, <1>3, <2>2 DEF Linked
    <3> QED
      BY <1>2, <1>4, <3>1
  <2> QED
    BY <2>1, <2>2
<1>6. \A u \in DOMAIN us : \A v \in Range(us[u].related) :
        v \in DOMAIN us /\ us[v].level = us[u].level + 1
  <2> TAKE u \in DOMAIN us
  <2>1. CASE u = w
    BY <1>2, <1>3, <1>4, <2>1
  <2>2. CASE u # w
    <3>1. us[u] = ws[u] /\ \A v \in Range(ws[u].related) :
                             v \in DOMAIN ws /\ ws[v].level = ws[u].level + 1
      BY <1>2, <1>3, <2>2 DEF Linked
    <3> QED
      BY <1>2, <1>4, <3>1
  <2> QED
    BY <2>1, <2>2
<1>7. \A u \in DOMAIN us : us[u].page # "form" => us[u].related = <<>>
  BY <1>2, <1>3 DEF Linked
<1>8. Linked(us)
  BY <1>2, <1>5, <1>6, <1>7 DEF Linked
<1> QED
  BY <1>8 DEF us

(* splice(indexOf(v), 1) takes one entry away, and none that is not v.     *)
LEMMA SpliceIs ==
  ASSUME NEW C, NEW c \in Seq(C), NEW v \in Range(c)
  PROVE  LET d == Splice(c, IndexOf(c, v))
         IN  d \in Seq(C) /\ Range(d) \subseteq Range(c) /\ Range(c) \ {v} \subseteq Range(d)
<1> DEFINE n  == Len(c)
           at == IndexOf(c, v)
           d  == Splice(c, at)
           places == {i \in DOMAIN c : c[i] = v}
           from(j) == IF j < at THEN j ELSE j + 1
<1>1. n \in Nat /\ DOMAIN c = 1..n /\ \A i \in 1..n : c[i] \in C
  OBVIOUS
<1>2. places \subseteq 1..n /\ places # {} /\ \A i \in places : c[i] = v
  BY <1>1 DEF Range
<1>3. at \in 1..n /\ c[at] = v
  <2>1. at = Min(places)
    BY DEF IndexOf
  <2> HIDE DEF places, at
  <2>2. \E x \in places : \A y \in places : ~ (<<y, x>> \in Less)
    <3>1. places \subseteq Nat
      BY <1>1, <1>2
    <3> QED
      BY <1>2, <3>1, WFMin, LessWellFounded
  <2>3. PICK x \in places : \A y \in places : ~ (<<y, x>> \in Less)
    BY <2>2
  <2>4. \A y \in places : x <= y
    <3> TAKE y \in places
    <3>1. x \in Nat /\ y \in Nat
      BY <1>1, <1>2
    <3>2. y < x => <<y, x>> \in Less
      BY <3>1 DEF Less
    <3> QED
      BY <2>3, <3>1, <3>2
  <2>5. Min(places) \in places
    BY <2>4 DEF Min
  <2> QED
    BY <1>2, <2>1, <2>5
<1>4. d = [j \in 1..(n - 1) |-> c[from(j)]]
  BY DEF Splice
<1> HIDE DEF d, n, at, places
<1>5. \A j \in 1..(n - 1) : from(j) \in 1..n
  BY <1>1, <1>3
<1>6. \A i \in 1..n : i # at => \E j \in 1..(n - 1) : from(j) = i
  <2> TAKE i \in 1..n
  <2>1. CASE i < at
    <3>1. i \in 1..(n - 1) /\ from(i) = i
      BY <1>1, <1>3, <2>1
    <3> QED
      BY <3>1
  <2>2. CASE i > at
    <3>1. i - 1 \in 1..(n - 1) /\ from(i - 1) = i
      BY <1>1, <1>3, <2>2
    <3> QED
      BY <3>1
  <2> QED
    BY <1>1, <1>3, <2>1, <2>2
<1> HIDE DEF from
<1>7. DOMAIN d = 1..(n - 1) /\ \A j \in 1..(n - 1) : d[j] = c[from(j)]
  BY <1>4
<1>8. d \in Seq(C)
  <2>1. d \in [1..(n - 1) -> C]
    BY <1>1, <1>4, <1>5
  <2>2. n - 1 \in Nat
    BY <1>1, <1>3
  <2> QED
    BY <2>1, <2>2
<1>9. Range(d) \subseteq Range(c)
  BY <1>1, <1>5, <1>7 DEF Range
<1>10. ASSUME NEW u \in Range(c) \ {v}
       PROVE  u \in Range(d)
  <2>1. PICK i \in 1..n : c[i] = u
    BY <1>1 DEF Range
  <2>2. PICK j \in 1..(n - 1) : from(j) = i
    BY <1>3, <1>6, <2>1
  <2> QED
    BY <1>7, <2>1, <2>2 DEF Range
<1> QED
  BY <1>8, <1>9, <1>10 DEF d, at

-----------------------------------------------------------------------------
(* Every window is kept, until an error has spared one.                    *)
Kept(ws) == \A v \in DOMAIN ws \ {0} : KeptAt(ws, v)

PopupInv ==
  /\ Linked(windows) /\ windows[0].page \in {"form", "loadingForm"}
  /\ spared \in BOOLEAN /\ (~spared => Kept(windows))
  /\ written.field = written.wanted /\ (written.orphan => spared)

LEMMA PopupInvInit ==
  ASSUME PopupAssumption, PopupInit
  PROVE  PopupInv
<1> DEFINE new   == NewWindow("none", 0, 0)
           first == [new EXCEPT !.page = "form"]
<1>1. windows = [w \in {0} |-> first]
  BY DEF PopupInit
<1>2. new \in Window /\ new.related = <<>>
  BY DEF PopupAssumption, NewWindow, Window, Pages
<1> HIDE DEF new
<1>3. first \in Window /\ first.page = "form" /\ first.related = <<>>
  BY <1>2 DEF Window, Pages
<1> HIDE DEF first
<1>4. windows \in [0..0 -> Window] /\ DOMAIN windows = {0}
  <2>1. 0..0 = {0}
    OBVIOUS
  <2> QED
    BY <1>1, <1>3, <2>1
<1>5. windows[0].page = "form" /\ windows[0].related = <<>>
  BY <1>1, <1>3
<1>6. Range(windows[0].related) = {}
  BY <1>5 DEF Range
<1>7. Linked(windows)
  BY <1>4, <1>5, <1>6 DEF Linked
<1>8. Kept(windows)
  BY <1>4 DEF Kept
<1>9. spared = FALSE /\ written.field = written.wanted /\ written.orphan = FALSE
  BY DEF PopupInit, NothingWritten
<1> QED
  BY <1>5, <1>7, <1>8, <1>9 DEF PopupInv

(* The page of w goes, and the window goes on, or is closed, as state says.*)
LEMMA UnloadedKeeps ==
  ASSUME PopupAssumption, NEW ws, Linked(ws), NEW w \in DOMAIN ws, NEW state \in Window,
         state.level = ws[w].level,
         state.opener = ws[w].opener,
         \A v \in Range(state.related) : v \in DOMAIN ws /\ ws[v].level = ws[w].level + 1,
         state.page # "form" => state.related = <<>>,
         state.open => Unload(ws, w).windows[w].open,
         state.orphan = Unload(ws, w).windows[w].orphan
  PROVE  LET us == [Unload(ws, w).windows EXCEPT ![w] = state]
         IN  /\ Linked(us) /\ DOMAIN us = DOMAIN ws
             /\ us[w] = state /\ \A v \in DOMAIN ws \ {w} : us[v].page = ws[v].page
             /\ Unload(ws, w).ok => \A v \in DOMAIN ws \ {0} :
                  (KeptAt(ws, v) \/ (v = w /\ ~state.open)) => KeptAt(us, v)
<1> DEFINE mid == Unload(ws, w).windows
           us  == [mid EXCEPT ![w] = state]
<1>1. /\ Alike(mid, ws) /\ Linked(mid)
      /\ Unload(ws, w).ok => \A v \in DOMAIN ws \ {0} : KeptAt(ws, v) =>
              /\ KeptAt(mid, v)
              /\ mid[v].open => ws[v].opener # w
  BY UnloadIs
<1> HIDE DEF mid
<1>2. DOMAIN mid = DOMAIN ws /\ w \in DOMAIN mid
  BY <1>1 DEF Alike
<1>3. \A v \in DOMAIN ws : /\ mid[v].level = ws[v].level /\ mid[v].opener = ws[v].opener
                           /\ mid[v].page = ws[v].page /\ mid[v].related = ws[v].related
  BY <1>1 DEF Alike
<1>4. w # 0 => /\ ws[w].opener \in DOMAIN ws /\ ws[w].level = ws[ws[w].opener].level + 1
               /\ ws[w].opener # w
  <2>1. ws[w].level \in Nat
    BY LinkedTypes
  <2> QED
    BY <2>1 DEF Linked
<1>5. Linked(us)
  <2>1. state.level = mid[w].level
    BY <1>3
  <2>2. w # 0 => state.opener \in DOMAIN mid /\ mid[w].level = mid[state.opener].level + 1
    BY <1>2, <1>3, <1>4
  <2>3. \A v \in Range(state.related) : v \in DOMAIN mid /\ mid[v].level = mid[w].level + 1
    BY <1>2, <1>3
  <2> QED
    BY <1>1, <1>2, <2>1, <2>2, <2>3, ReplaceLinked
<1>6. DOMAIN us = DOMAIN ws /\ us[w] = state /\ \A v \in DOMAIN ws \ {w} : us[v] = mid[v]
  BY <1>2
<1> HIDE DEF us
<1>7. ASSUME Unload(ws, w).ok, NEW v \in DOMAIN ws \ {0},
             KeptAt(ws, v) \/ (v = w /\ ~state.open), us[v].open
      PROVE  ~us[v].orphan /\ us[us[v].opener].open /\ v \in Range(us[us[v].opener].related)
  <2>1. KeptAt(ws, v)
    BY <1>6, <1>7
  <2>2. KeptAt(mid, v) /\ (mid[v].open => ws[v].opener # w)
    BY <1>1, <1>7, <2>1
  <2>3. mid[v].open
    BY <1>6, <1>7 DEF mid
  <2>4. us[v].orphan = mid[v].orphan /\ us[v].opener = ws[v].opener
    BY <1>3, <1>6 DEF mid
  <2>5. ws[v].opener \in DOMAIN ws /\ ws[v].opener # w
    BY <2>2, <2>3 DEF Linked
  <2>6. us[ws[v].opener] = mid[ws[v].opener]
    BY <1>6, <2>5
  <2> QED
    BY <1>3, <2>2, <2>3, <2>4, <2>6 DEF KeptAt
<1>8. Unload(ws, w).ok => \A v \in DOMAIN ws \ {0} :
        (KeptAt(ws, v) \/ (v = w /\ ~state.open)) => KeptAt(us, v)
  BY <1>7 DEF KeptAt
<1>9. \A v \in DOMAIN ws \ {w} : us[v].page = ws[v].page
  BY <1>3, <1>6
<1> QED
  BY <1>5, <1>6, <1>8, <1>9 DEF us, mid

LEMMA AfterUnloadKeepsInv ==
  ASSUME PopupAssumption, spared \in BOOLEAN,
         NEW ws, Linked(ws), ws[0].page \in {"form", "loadingForm"},
         NEW w \in DOMAIN ws, NEW state \in Window,
         state.level = ws[w].level, state.opener = ws[w].opener,
         \A v \in Range(state.related) : v \in DOMAIN ws /\ ws[v].level = ws[w].level + 1,
         state.page # "form" => state.related = <<>>,
         state.open => Unload(ws, w).windows[w].open,
         state.orphan = Unload(ws, w).windows[w].orphan,
         w = 0 => state.page = "loadingForm",
         ~spared => \A v \in DOMAIN ws \ {0} : KeptAt(ws, v) \/ (v = w /\ ~state.open),
         AfterUnload(Unload(ws, w), w, state),
         written'.field = written'.wanted, written'.orphan => spared
  PROVE  PopupInv'
<1> DEFINE us == [Unload(ws, w).windows EXCEPT ![w] = state]
<1>1. windows' = us /\ spared' = (spared \/ ~Unload(ws, w).ok)
  BY DEF AfterUnload
<1>2. Unload(ws, w).ok \in BOOLEAN
  BY UnloadIs
<1>3. /\ Linked(us) /\ DOMAIN us = DOMAIN ws
      /\ us[w] = state /\ \A v \in DOMAIN ws \ {w} : us[v].page = ws[v].page
      /\ Unload(ws, w).ok => \A v \in DOMAIN ws \ {0} :
           (KeptAt(ws, v) \/ (v = w /\ ~state.open)) => KeptAt(us, v)
  BY UnloadedKeeps
<1> HIDE DEF us
<1>4. us[0].page \in {"form", "loadingForm"}
  <2>1. 0 \in DOMAIN ws
    BY LinkedTypes
  <2> QED
    BY <1>3, <2>1
<1>5. spared' \in BOOLEAN
  BY <1>1, <1>2
<1>6. ~spared' => Kept(us)
  BY <1>1, <1>3 DEF Kept
<1>7. Linked(windows') /\ (~spared' => Kept(windows'))
  BY <1>1, <1>3, <1>6
<1>8. windows'[0].page \in {"form", "loadingForm"}
  BY <1>1, <1>4
<1>9. written'.orphan => spared'
  BY <1>1
<1> QED
  BY <1>5, <1>7, <1>8, <1>9 DEF PopupInv

LEMMA SubmitPageKeepsInv ==
  ASSUME PopupAssumption, PopupInv, NEW w \in DOMAIN windows,
         NEW page \in {"loadingForm", "loadingAnswer"}, SubmitPage(w, page)
  PROVE  PopupInv'
<1> DEFINE mid   == Unload(windows, w).windows
           state == [mid[w] EXCEPT !.page = page, !.related = <<>>]
<1>1. Alike(mid, windows)
  BY UnloadIs DEF PopupInv
<1>2. mid[w] \in Window /\ mid[w].level = windows[w].level /\ mid[w].opener = windows[w].opener
  BY <1>1 DEF Alike
<1>3. AfterUnload(Unload(windows, w), w, state) /\ written' = written
  BY DEF SubmitPage
<1>4. page = "loadingAnswer" => w # 0
  BY DEF SubmitPage
<1> HIDE DEF mid
<1>5. /\ state \in Window /\ state.level = windows[w].level /\ state.opener = windows[w].opener
      /\ state.related = <<>> /\ state.page = page
  <2>1. page \in Pages
    BY DEF Pages
  <2> DEFINE none == <<>>
  <2>2. none \in Seq(Nat)
    OBVIOUS
  <2> HIDE DEF none
  <2>3. state = [mid[w] EXCEPT !.page = page, !.related = none]
    BY DEF none
  <2>4. state.level = mid[w].level /\ state.opener = mid[w].opener
    BY <1>2, <2>3 DEF Window
  <2>5. state.related = none /\ state.page = page
    BY <1>2, <2>3 DEF Window
  <2>6. state \in Window
    BY <1>2, <2>1, <2>2, <2>3 DEF Window
  <2> QED
    BY <1>2, <2>4, <2>5, <2>6 DEF none
<1>6. state.open = mid[w].open
  BY <1>2 DEF Window
<1>7. state.orphan = mid[w].orphan
  BY <1>2 DEF Window
<1>8. \A v \in Range(state.related) :
        v \in DOMAIN windows /\ windows[v].level = windows[w].level + 1
  BY <1>5 DEF Range
<1> HIDE DEF state
<1>9. ~spared => \A v \in DOMAIN windows \ {0} : KeptAt(windows, v)
  BY DEF PopupInv, Kept
<1>10. w = 0 => state.page = "loadingForm"
  BY <1>4, <1>5
<1>11. state.open => Unload(windows, w).windows[w].open
  BY <1>6 DEF mid
<1>12. state.orphan = Unload(windows, w).windows[w].orphan
  BY <1>7 DEF mid
<1> QED
  BY <1>3, <1>5, <1>8, <1>9, <1>10, <1>11, <1>12, AfterUnloadKeepsInv DEF PopupInv

(* A window that is closed when its page is gone.                          *)
LEMMA ClosingKeepsInv ==
  ASSUME PopupAssumption, spared \in BOOLEAN,
         NEW ws, Linked(ws), ws[0].page \in {"form", "loadingForm"},
         NEW w \in DOMAIN ws \ {0},
         ~spared => \A v \in DOMAIN ws \ {0, w} : KeptAt(ws, v),
         AfterUnload(Unload(ws, w), w, [Unload(ws, w).windows[w] EXCEPT !.open = FALSE]),
         written'.field = written'.wanted, written'.orphan => spared
  PROVE  PopupInv'
<1> DEFINE mid   == Unload(ws, w).windows
           state == [mid[w] EXCEPT !.open = FALSE]
<1>1. Alike(mid, ws)
  BY UnloadIs
<1>2. /\ mid[w] \in Window /\ mid[w].level = ws[w].level /\ mid[w].opener = ws[w].opener
      /\ mid[w].page = ws[w].page /\ mid[w].related = ws[w].related
  BY <1>1 DEF Alike
<1>3. AfterUnload(Unload(ws, w), w, state)
  OBVIOUS
<1> HIDE DEF mid
<1>4. /\ state \in Window /\ state.level = ws[w].level /\ state.opener = ws[w].opener
      /\ state.related = ws[w].related /\ state.page = ws[w].page /\ ~state.open
  BY <1>2 DEF Window
<1>5. state.orphan = mid[w].orphan
  BY <1>2 DEF Window
<1> HIDE DEF state
<1>6. /\ \A v \in Range(state.related) : v \in DOMAIN ws /\ ws[v].level = ws[w].level + 1
      /\ state.page # "form" => state.related = <<>>
  BY <1>4 DEF Linked
<1>7. ~spared => \A v \in DOMAIN ws \ {0} : KeptAt(ws, v) \/ (v = w /\ ~state.open)
  BY <1>4
<1>8. state.orphan = Unload(ws, w).windows[w].orphan
  BY <1>5 DEF mid
<1> QED
  BY <1>3, <1>4, <1>6, <1>7, <1>8, AfterUnloadKeepsInv

LEMMA CloseKeepsInv ==
  ASSUME PopupAssumption, PopupInv, NEW w \in DOMAIN windows, Close(w)
  PROVE  PopupInv'
<1>1. /\ w \in DOMAIN windows \ {0} /\ written' = written
      /\ AfterUnload(Unload(windows, w), w, [Unload(windows, w).windows[w] EXCEPT !.open = FALSE])
  BY DEF Close
<1>2. ~spared => \A v \in DOMAIN windows \ {0, w} : KeptAt(windows, v)
  BY DEF PopupInv, Kept
<1> QED
  BY <1>1, <1>2, ClosingKeepsInv DEF PopupInv

(* The window that answers leaves the list of the page it answers.         *)
LEMMA DismissPopupKeepsInv ==
  ASSUME PopupAssumption, spared \in BOOLEAN,
         NEW ws, Linked(ws), ws[0].page \in {"form", "loadingForm"}, ~spared => Kept(ws),
         NEW w \in DOMAIN ws \ {0}, ws[w].open, ws[ws[w].opener].page = "form",
         DismissPopup(ws, w)
  PROVE  PopupInv'
<1> DEFINE asker  == ws[w].opener
           old    == ws[asker].related
           list   == IF w \in Range(old) THEN Splice(old, IndexOf(old, w)) ELSE old
           listed == [ws EXCEPT ![asker].related = list]
           state  == [ws[asker] EXCEPT !.related = list]
<1>1. /\ written' = [field  |-> IF ws[w].level = ws[asker].level + 1 THEN ws[w].field ELSE "none",
                     wanted |-> ws[w].field, orphan |-> ws[w].orphan]
      /\ AfterUnload(Unload(listed, w), w, [Unload(listed, w).windows[w] EXCEPT !.open = FALSE])
  BY DEF DismissPopup
<1>2. asker \in DOMAIN ws /\ ws[w].level = ws[asker].level + 1
  BY DEF Linked
<1>3. written'.field = written'.wanted /\ written'.orphan = ws[w].orphan
  BY <1>1, <1>2
<1>4. written'.orphan => spared
  BY <1>3 DEF Kept, KeptAt
<1>5. old \in Seq(Nat) /\ ws[asker] \in Window /\ ws = [v \in DOMAIN ws |-> ws[v]]
  BY <1>2, LinkedTypes
<1>6. list \in Seq(Nat) /\ Range(list) \subseteq Range(old) /\ Range(old) \ {w} \subseteq Range(list)
  <2> HIDE DEF old
  <2>1. CASE w \in Range(old)
    BY <1>5, <2>1, SpliceIs
  <2>2. CASE w \notin Range(old)
    BY <1>5, <2>2
  <2> QED
    BY <2>1, <2>2
<1> HIDE DEF list
<1>7. listed = [ws EXCEPT ![asker] = state]
  BY <1>2, <1>5
<1>8. /\ state \in Window /\ state.level = ws[asker].level /\ state.opener = ws[asker].opener
      /\ state.page = ws[asker].page /\ state.related = list
  BY <1>5, <1>6 DEF Window
<1>9. state.open = ws[asker].open
  BY <1>5 DEF Window
<1>10. state.orphan = ws[asker].orphan
  BY <1>5 DEF Window
<1> HIDE DEF state, listed
<1>11. Linked(listed)
  <2>1. asker # 0 => state.opener \in DOMAIN ws /\ ws[asker].level = ws[state.opener].level + 1
    BY <1>2, <1>8 DEF Linked
  <2>2. \A v \in Range(state.related) : v \in DOMAIN ws /\ ws[v].level = ws[asker].level + 1
    BY <1>2, <1>6, <1>8 DEF Linked
  <2>3. state.page # "form" => state.related = <<>>
    BY <1>8
  <2> QED
    BY <1>2, <1>7, <1>8, <2>1, <2>2, <2>3, ReplaceLinked
<1>12. /\ DOMAIN listed = DOMAIN ws /\ listed[asker] = state
       /\ \A v \in DOMAIN ws \ {asker} : listed[v] = ws[v]
  BY <1>2, <1>7
<1>13. listed[0].page \in {"form", "loadingForm"}
  <2>1. 0 \in DOMAIN ws
    BY LinkedTypes
  <2> QED
    BY <1>8, <1>12, <2>1
<1>14. \A v \in DOMAIN ws : /\ listed[v].open = ws[v].open /\ listed[v].orphan = ws[v].orphan
                            /\ listed[v].opener = ws[v].opener
                            /\ Range(ws[v].related) \ {w} \subseteq Range(listed[v].related)
  BY <1>6, <1>8, <1>9, <1>10, <1>12
<1>15. ~spared => \A v \in DOMAIN listed \ {0, w} : KeptAt(listed, v)
  <2> SUFFICES ASSUME ~spared, NEW v \in DOMAIN ws \ {0, w}, listed[v].open
               PROVE  KeptAt(listed, v)
    BY <1>12 DEF KeptAt
  <2>1. ws[v].opener \in DOMAIN ws
    BY DEF Linked
  <2>2. /\ ~ws[v].orphan /\ ws[ws[v].opener].open /\ v \in Range(ws[ws[v].opener].related)
    BY <1>14 DEF Kept, KeptAt
  <2> QED
    BY <1>14, <2>1, <2>2 DEF KeptAt
<1> QED
  BY <1>1, <1>3, <1>4, <1>11, <1>12, <1>13, <1>15, ClosingKeepsInv

(* A window is added to the list of the one that opened it.                *)
Pushed(ws, w, v) ==
  [ws EXCEPT ![w].related = IF v \in Range(@) THEN @ ELSE Append(@, v)]

LEMMA PushedKeeps ==
  ASSUME NEW ws, Linked(ws), NEW w \in DOMAIN ws, NEW v \in DOMAIN ws,
         ws[w].page = "form", ws[w].open,
         ws[v].level = ws[w].level + 1, ws[v].opener = w, ~ws[v].orphan
  PROVE  /\ Linked(Pushed(ws, w, v))
         /\ \A u \in DOMAIN ws : Pushed(ws, w, v)[u].page = ws[u].page
         /\ \A u \in DOMAIN ws \ {0} : KeptAt(ws, u) \/ u = v => KeptAt(Pushed(ws, w, v), u)
         /\ DOMAIN Pushed(ws, w, v) = DOMAIN ws
<1> DEFINE old   == ws[w].related
           list  == IF v \in Range(old) THEN old ELSE Append(old, v)
           us    == Pushed(ws, w, v)
           state == [ws[w] EXCEPT !.related = list]
<1>1. /\ old \in Seq(Nat) /\ ws[w] \in Window /\ ws = [u \in DOMAIN ws |-> ws[u]]
      /\ v \in Nat
  BY LinkedTypes
<1>2. list \in Seq(Nat) /\ Range(list) = Range(old) \cup {v}
  <2> HIDE DEF old
  <2>1. CASE v \in Range(old)
    BY <1>1, <2>1
  <2>2. CASE v \notin Range(old)
    <3>1. list = Append(old, v)
      BY <2>2
    <3>2. Len(list) = Len(old) + 1 /\ list[Len(old) + 1] = v
            /\ \A i \in 1..Len(old) : list[i] = old[i]
      BY <1>1, <3>1
    <3>3. list \in Seq(Nat)
      BY <1>1, <3>1
    <3>4. DOMAIN list = 1..(Len(old) + 1) /\ DOMAIN old = 1..Len(old) /\ Len(old) \in Nat
      BY <1>1, <3>2, <3>3
    <3> HIDE DEF list
    <3> QED
      BY <3>2, <3>3, <3>4 DEF Range
  <2> QED
    BY <2>1, <2>2
<1>3. us = [ws EXCEPT ![w] = state]
  BY <1>1 DEF Pushed
<1> HIDE DEF list
<1>4. /\ state \in Window /\ state.level = ws[w].level /\ state.opener = ws[w].opener
      /\ state.page = ws[w].page /\ state.related = list
  BY <1>1, <1>2 DEF Window
<1>5. state.open = ws[w].open
  BY <1>1 DEF Window
<1>6. state.orphan = ws[w].orphan
  BY <1>1 DEF Window
<1> HIDE DEF state, us
<1>7. Linked(us)
  <2>1. w # 0 => state.opener \in DOMAIN ws /\ ws[w].level = ws[state.opener].level + 1
    BY <1>4 DEF Linked
  <2>2. \A u \in Range(state.related) : u \in DOMAIN ws /\ ws[u].level = ws[w].level + 1
    BY <1>2, <1>4 DEF Linked
  <2>3. state.page # "form" => state.related = <<>>
    BY <1>4
  <2> QED
    BY <1>3, <1>4, <2>1, <2>2, <2>3, ReplaceLinked
<1>8. DOMAIN us = DOMAIN ws /\ us[w] = state /\ \A u \in DOMAIN ws \ {w} : us[u] = ws[u]
  BY <1>1, <1>3
<1>9. \A u \in DOMAIN ws : /\ us[u].open = ws[u].open /\ us[u].orphan = ws[u].orphan
                           /\ us[u].opener = ws[u].opener /\ us[u].page = ws[u].page
                           /\ Range(ws[u].related) \subseteq Range(us[u].related)
  BY <1>2, <1>4, <1>5, <1>6, <1>8
<1>10. v \in Range(us[w].related)
  BY <1>2, <1>4, <1>8
<1>11. \A u \in DOMAIN ws \ {0} : KeptAt(ws, u) \/ u = v => KeptAt(us, u)
  <2> TAKE u \in DOMAIN ws \ {0}
  <2>1. ws[u].opener \in DOMAIN ws
    BY DEF Linked
  <2>2. CASE u = v
    BY <1>9, <1>10, <2>2 DEF KeptAt
  <2>3. CASE KeptAt(ws, u)
    BY <1>9, <2>1, <2>3 DEF KeptAt
  <2> QED
    BY <2>2, <2>3
<1> QED
  BY <1>7, <1>8, <1>9, <1>11 DEF us

LEMMA FreshIs ==
  ASSUME PopupAssumption, NEW field \in Fields, NEW level \in 0..MaxLevel, NEW w \in Nat
  PROVE  /\ NewWindow(field, level, w) \in Window
         /\ NewWindow(field, level, w).level = level /\ NewWindow(field, level, w).opener = w
         /\ ~NewWindow(field, level, w).orphan /\ NewWindow(field, level, w).related = <<>>
BY DEF PopupAssumption, NewWindow, Window, Pages

(* window.open makes a window, or finds one: another page is loaded there. *)
LEMMA ShowKeepsInv ==
  ASSUME PopupAssumption, PopupInv, NEW w \in DOMAIN windows, NEW field \in Fields,
         Show(w, field)
  PROVE  PopupInv'
<1> DEFINE level == windows[w].level + 1
           fresh == NewWindow(field, level, w)
           new   == Cardinality(DOMAIN windows)
           ext   == [v \in 0..new |-> IF v = new THEN fresh ELSE windows[v]]
           named == {v \in Popups : /\ windows[v].open /\ windows[v].field = field
                                    /\ windows[v].level = windows[w].level + 1}
           took(v) == [Unload(windows, v).windows EXCEPT ![v] = fresh]
<1>1. /\ Linked(windows) /\ windows[0].page \in {"form", "loadingForm"}
      /\ spared \in BOOLEAN /\ (~spared => Kept(windows))
      /\ written.field = written.wanted /\ (written.orphan => spared)
  BY DEF PopupInv
<1>2. /\ 0 \in DOMAIN windows /\ DOMAIN windows \subseteq Nat /\ windows[w].level \in 0..MaxLevel
      /\ windows[w].open /\ windows[w].page = "form" /\ windows[w].level < MaxLevel
      /\ written' = written
  BY <1>1, LinkedTypes DEF Show, IsOpen
<1>3. level \in 0..MaxLevel /\ level = windows[w].level + 1
  BY <1>2 DEF PopupAssumption
<1>4. /\ fresh \in Window /\ fresh.level = windows[w].level + 1 /\ fresh.opener = w
      /\ ~fresh.orphan /\ fresh.related = <<>>
  BY <1>2, <1>3, FreshIs
<1>5. \/ named = {} /\ windows' = Pushed(ext, w, new) /\ spared' = spared
      \/ \E v \in named : /\ windows' = Pushed(took(v), w, v)
                          /\ spared' = (spared \/ ~Unload(windows, v).ok)
  BY DEF Show, Pushed
<1> HIDE DEF level, fresh
<1>6. CASE windows' = Pushed(ext, w, new) /\ spared' = spared
  <2>1. PICK n \in Nat : windows \in [0..n -> Window]
    BY <1>1 DEF Linked
  <2>2. DOMAIN windows = 0..n /\ new = n + 1
    <3>1. DOMAIN windows = 0..n
      BY <2>1
    <3>2. Cardinality(0..n) = n + 1
      BY FS_Interval
    <3> QED
      BY <3>1, <3>2
  <2> HIDE DEF new
  <2>3. ext \in [0..(n + 1) -> Window]
    BY <1>4, <2>1, <2>2
  <2>4. /\ DOMAIN ext = 0..(n + 1) /\ ext[new] = fresh
        /\ \A v \in DOMAIN windows : ext[v] = windows[v] /\ v \in DOMAIN ext /\ v # new
        /\ new \in DOMAIN ext /\ new # 0
        /\ \A v \in DOMAIN ext : v = new \/ v \in DOMAIN windows
    BY <2>1, <2>2
  <2> HIDE DEF ext
  <2>5. Linked(ext)
    <3>1. \A v \in DOMAIN ext \ {0} :
            ext[v].opener \in DOMAIN ext /\ ext[v].level = ext[ext[v].opener].level + 1
      <4> TAKE v \in DOMAIN ext \ {0}
      <4>1. CASE v = new
        BY <1>4, <2>4, <4>1
      <4>2. CASE v # new
        <5>1. v \in DOMAIN windows \ {0}
          BY <2>4, <4>2
        <5>2. /\ windows[v].opener \in DOMAIN windows
              /\ windows[v].level = windows[windows[v].opener].level + 1
          BY <1>1, <5>1 DEF Linked
        <5> QED
          BY <2>4, <5>1, <5>2
      <4> QED
        BY <4>1, <4>2
    <3>2. \A u \in DOMAIN ext : \A v \in Range(ext[u].related) :
            v \in DOMAIN ext /\ ext[v].level = ext[u].level + 1
      <4> TAKE u \in DOMAIN ext
      <4>1. CASE u = new
        BY <1>4, <2>4, <4>1 DEF Range
      <4>2. CASE u # new
        <5>1. u \in DOMAIN windows /\ ext[u] = windows[u]
          BY <2>4, <4>2
        <5>2. \A v \in Range(windows[u].related) :
                v \in DOMAIN windows /\ windows[v].level = windows[u].level + 1
          BY <1>1, <5>1 DEF Linked
        <5> QED
          BY <2>4, <5>1, <5>2
      <4> QED
        BY <4>1, <4>2
    <3>3. \A u \in DOMAIN ext : ext[u].page # "form" => ext[u].related = <<>>
      <4> TAKE u \in DOMAIN ext
      <4>1. CASE u = new
        BY <1>4, <2>4, <4>1
      <4>2. CASE u # new
        BY <1>1, <2>4, <4>2 DEF Linked
      <4> QED
        BY <4>1, <4>2
    <3>4. n + 1 \in Nat
      BY <2>1
    <3> QED
      BY <2>3, <3>1, <3>2, <3>3, <3>4 DEF Linked
  <2>6. /\ ext[w].page = "form" /\ ext[w].open
        /\ ext[new].level = ext[w].level + 1 /\ ext[new].opener = w /\ ~ext[new].orphan
    BY <1>2, <1>4, <2>4
  <2>7. /\ Linked(Pushed(ext, w, new)) /\ DOMAIN Pushed(ext, w, new) = DOMAIN ext
        /\ Pushed(ext, w, new)[0].page = windows[0].page
        /\ \A u \in DOMAIN ext \ {0} : KeptAt(ext, u) \/ u = new => KeptAt(Pushed(ext, w, new), u)
    BY <1>2, <2>4, <2>5, <2>6, PushedKeeps
  <2>8. ~spared => \A u \in DOMAIN ext \ {0} : KeptAt(ext, u) \/ u = new
    <3> SUFFICES ASSUME ~spared, NEW u \in DOMAIN windows \ {0}
                 PROVE  KeptAt(ext, u)
      BY <2>4
    <3>1. KeptAt(windows, u) /\ windows[u].opener \in DOMAIN windows
      BY <1>1 DEF Kept, Linked
    <3> QED
      BY <2>4, <3>1 DEF KeptAt
  <2>9. ~spared => Kept(Pushed(ext, w, new))
    BY <2>7, <2>8 DEF Kept
  <2>10. Linked(windows') /\ windows'[0].page \in {"form", "loadingForm"}
    BY <1>1, <1>6, <2>7
  <2>11. ~spared' => Kept(windows')
    BY <1>6, <2>9
  <2> QED
    BY <1>1, <1>2, <1>6, <2>10, <2>11 DEF PopupInv
<1>7. ASSUME NEW v \in named, windows' = Pushed(took(v), w, v),
             spared' = (spared \/ ~Unload(windows, v).ok)
      PROVE  PopupInv'
  <2> DEFINE mid == Unload(windows, v).windows
             us  == took(v)
  <2>1. v \in DOMAIN windows \ {0} /\ windows[v].level = windows[w].level + 1
    BY DEF Popups
  <2>2. /\ Unload(windows, v).ok \in BOOLEAN /\ Alike(mid, windows) /\ Linked(mid)
        /\ \A u \in DOMAIN windows :
             windows[u].open /\ ~mid[u].open => windows[u].level > windows[v].level
        /\ Unload(windows, v).ok => \A u \in DOMAIN windows \ {0} : KeptAt(windows, u) =>
             KeptAt(mid, u) /\ (mid[u].open => windows[u].opener # v)
    BY <1>1, <2>1, UnloadIs
  <2> HIDE DEF mid
  <2>3. /\ DOMAIN mid = DOMAIN windows
        /\ \A u \in DOMAIN windows :
             /\ mid[u].level = windows[u].level /\ mid[u].opener = windows[u].opener
             /\ mid[u].page = windows[u].page
    BY <2>2 DEF Alike
  <2>4. v # w /\ mid[w].open
    <3>1. windows[w].level \in Nat
      BY <1>2
    <3> QED
      BY <1>2, <2>1, <2>2, <3>1
  <2>5. /\ DOMAIN us = DOMAIN windows /\ us[v] = fresh
        /\ \A u \in DOMAIN windows \ {v} : us[u] = mid[u]
    BY <2>1, <2>3 DEF mid
  <2>6. Linked(us)
    <3>1. us = [mid EXCEPT ![v] = fresh] /\ v \in DOMAIN mid /\ fresh.level = mid[v].level
      BY <1>4, <2>1, <2>3 DEF mid
    <3>2. fresh.opener \in DOMAIN mid /\ mid[v].level = mid[fresh.opener].level + 1
      BY <1>4, <2>1, <2>3
    <3>3. Range(fresh.related) = {}
      BY <1>4 DEF Range
    <3> HIDE DEF us
    <3> QED
      BY <1>4, <2>2, <3>1, <3>2, <3>3, ReplaceLinked
  <2> HIDE DEF us
  <2>7. /\ us[w].page = "form" /\ us[w].open
        /\ us[v].level = us[w].level + 1 /\ us[v].opener = w /\ ~us[v].orphan
    BY <1>2, <1>4, <2>3, <2>4, <2>5
  <2>8. /\ Linked(Pushed(us, w, v)) /\ DOMAIN Pushed(us, w, v) = DOMAIN us
        /\ Pushed(us, w, v)[0].page = us[0].page
        /\ \A u \in DOMAIN us \ {0} : KeptAt(us, u) \/ u = v => KeptAt(Pushed(us, w, v), u)
    BY <1>2, <2>1, <2>5, <2>6, <2>7, PushedKeeps
  <2>9. us[0].page = windows[0].page
    BY <1>2, <2>1, <2>3, <2>5
  <2>10. ASSUME ~spared, Unload(windows, v).ok, NEW u \in DOMAIN us \ {0}
         PROVE  KeptAt(us, u) \/ u = v
    <3> SUFFICES ASSUME u # v, us[u].open
                 PROVE  KeptAt(us, u)
      BY DEF KeptAt
    <3>1. us[u] = mid[u] /\ u \in DOMAIN windows \ {0}
      BY <2>5
    <3>2. KeptAt(windows, u) /\ windows[u].opener \in DOMAIN windows
      BY <1>1, <2>10, <3>1 DEF Kept, Linked
    <3>3. KeptAt(mid, u) /\ mid[u].opener # v /\ mid[u].opener \in DOMAIN windows
      BY <2>2, <2>3, <2>10, <3>1, <3>2
    <3>4. us[mid[u].opener] = mid[mid[u].opener]
      BY <2>5, <3>3
    <3> QED
      BY <3>1, <3>3, <3>4 DEF KeptAt
  <2>11. ~spared' => ~spared /\ Unload(windows, v).ok
    BY <1>7
  <2>12. ~spared' => Kept(Pushed(us, w, v))
    BY <2>8, <2>10, <2>11 DEF Kept
  <2>13. windows' = Pushed(us, w, v)
    BY <1>7 DEF us
  <2>14. Linked(windows') /\ windows'[0].page \in {"form", "loadingForm"}
    BY <1>1, <2>8, <2>9, <2>13
  <2>15. ~spared' => Kept(windows')
    BY <2>12, <2>13
  <2>16. spared' \in BOOLEAN /\ (spared => spared')
    BY <1>1, <1>7, <2>2
  <2> QED
    BY <1>1, <1>2, <2>14, <2>15, <2>16 DEF PopupInv
<1> QED
  BY <1>5, <1>6, <1>7

(* The page of a window has loaded.                                        *)
LEMMA LoadedKeeps ==
  ASSUME NEW ws, Linked(ws), NEW w \in DOMAIN ws, NEW page \in {"form", "answer"},
         ws[w].page \in {"loadingForm", "loadingAnswer"}
  PROVE  LET us == [ws EXCEPT ![w].page = page]
         IN  /\ Linked(us) /\ DOMAIN us = DOMAIN ws
             /\ us[w].page = page /\ \A v \in DOMAIN ws \ {w} : us[v].page = ws[v].page
             /\ us[w].open = ws[w].open
             /\ Kept(ws) => Kept(us)
             /\ \A v \in DOMAIN ws : us[v].opener = ws[v].opener
<1> DEFINE us    == [ws EXCEPT ![w].page = page]
           state == [ws[w] EXCEPT !.page = page]
<1>1. ws[w] \in Window /\ ws = [v \in DOMAIN ws |-> ws[v]]
  BY LinkedTypes
<1>2. us = [ws EXCEPT ![w] = state]
  BY <1>1
<1>3. page \in Pages
  BY DEF Pages
<1>4. /\ state \in Window /\ state.level = ws[w].level /\ state.opener = ws[w].opener
      /\ state.page = page /\ state.related = ws[w].related
  BY <1>1, <1>3 DEF Window
<1>5. state.open = ws[w].open
  BY <1>1 DEF Window
<1>6. state.orphan = ws[w].orphan
  BY <1>1 DEF Window
<1>7. DOMAIN us = DOMAIN ws /\ us[w] = state /\ \A v \in DOMAIN ws \ {w} : us[v] = ws[v]
  BY <1>1, <1>2
<1> HIDE DEF us, state
<1>8. ws[w].related = <<>>
  BY DEF Linked
<1>9. Linked(us)
  <2>1. w # 0 => state.opener \in DOMAIN ws /\ ws[w].level = ws[state.opener].level + 1
    BY <1>4 DEF Linked
  <2>2. Range(state.related) = {}
    BY <1>4, <1>8 DEF Range
  <2> QED
    BY <1>2, <1>4, <1>8, <2>1, <2>2, ReplaceLinked
<1>10. \A v \in DOMAIN ws : /\ us[v].open = ws[v].open /\ us[v].orphan = ws[v].orphan
                            /\ us[v].opener = ws[v].opener /\ us[v].related = ws[v].related
  BY <1>4, <1>5, <1>6, <1>7
<1>11. Kept(ws) => Kept(us)
  <2> SUFFICES ASSUME NEW v \in DOMAIN ws \ {0}, KeptAt(ws, v)
               PROVE  KeptAt(us, v)
    BY <1>7 DEF Kept
  <2>1. ws[v].opener \in DOMAIN ws
    BY DEF Linked
  <2> QED
    BY <1>10, <2>1 DEF KeptAt
<1>12. us[w].page = page /\ \A v \in DOMAIN ws \ {w} : us[v].page = ws[v].page
  BY <1>4, <1>7
<1> QED
  BY <1>7, <1>9, <1>10, <1>11, <1>12 DEF us

LEMMA LoadFormKeepsInv ==
  ASSUME PopupInv, NEW w \in DOMAIN windows, LoadForm(w)
  PROVE  PopupInv'
<1>1. /\ windows[w].page = "loadingForm" /\ windows' = [windows EXCEPT ![w].page = "form"]
      /\ written' = written /\ spared' = spared
  BY DEF LoadForm
<1>2. /\ Linked(windows') /\ windows'[w].page = "form"
      /\ \A v \in DOMAIN windows \ {w} : windows'[v].page = windows[v].page
      /\ Kept(windows) => Kept(windows')
  BY <1>1, LoadedKeeps DEF PopupInv
<1>3. 0 \in DOMAIN windows
  BY LinkedTypes DEF PopupInv
<1>4. windows'[0].page \in {"form", "loadingForm"}
  BY <1>2, <1>3 DEF PopupInv
<1> QED
  BY <1>1, <1>2, <1>4 DEF PopupInv

LEMMA LoadAnswerKeepsInv ==
  ASSUME PopupAssumption, PopupInv, NEW w \in DOMAIN windows, LoadAnswer(w)
  PROVE  PopupInv'
<1> DEFINE loaded == [windows EXCEPT ![w].page = "answer"]
<1>1. /\ windows[w].open /\ windows[w].page = "loadingAnswer" /\ w # 0
      /\ \/ CanAnswer(w) /\ DismissPopup(loaded, w)
         \/ windows' = loaded /\ written' = written /\ spared' = spared
  BY DEF LoadAnswer, IsOpen, PopupInv
<1>2. /\ Linked(loaded) /\ DOMAIN loaded = DOMAIN windows
      /\ \A v \in DOMAIN windows \ {w} : loaded[v].page = windows[v].page
      /\ loaded[w].open = windows[w].open /\ (Kept(windows) => Kept(loaded))
      /\ \A v \in DOMAIN windows : loaded[v].opener = windows[v].opener
  BY <1>1, LoadedKeeps DEF PopupInv
<1>3. 0 \in DOMAIN windows
  BY LinkedTypes DEF PopupInv
<1> HIDE DEF loaded
<1>4. loaded[0].page \in {"form", "loadingForm"}
  BY <1>1, <1>2, <1>3 DEF PopupInv
<1>5. CASE windows' = loaded /\ written' = written /\ spared' = spared
  <2>1. Linked(windows') /\ windows'[0].page \in {"form", "loadingForm"}
    BY <1>2, <1>4, <1>5
  <2>2. ~spared' => Kept(windows')
    BY <1>2, <1>5 DEF PopupInv
  <2> QED
    BY <1>5, <2>1, <2>2 DEF PopupInv
<1>6. CASE CanAnswer(w) /\ DismissPopup(loaded, w)
  <2>1. windows[w].opener \in DOMAIN windows /\ windows[windows[w].opener].page = "form"
    BY <1>1, <1>6 DEF CanAnswer, Linked, PopupInv
  <2>2. loaded[loaded[w].opener].page = "form"
    BY <1>1, <1>2, <2>1
  <2>3. spared \in BOOLEAN /\ (~spared => Kept(loaded))
    BY <1>2 DEF PopupInv
  <2> QED
    BY <1>1, <1>2, <1>4, <1>6, <2>2, <2>3, DismissPopupKeepsInv
<1> QED
  BY <1>1, <1>5, <1>6

LEMMA ChooseKeepsInv ==
  ASSUME PopupAssumption, PopupInv, NEW w \in DOMAIN windows, Choose(w)
  PROVE  PopupInv'
<1>1. /\ w \in DOMAIN windows \ {0} /\ windows[w].open
      /\ windows[windows[w].opener].page = "form" /\ DismissPopup(windows, w)
  BY DEF Choose, IsOpen, CanAnswer
<1> QED
  BY <1>1, DismissPopupKeepsInv DEF PopupInv

LEMMA PopupInvariant == PopupSpec => []PopupInv
<1>1. PopupInit => PopupInv
  BY PopupAssumption, PopupInvInit
<1>2. PopupInv /\ [PopupNext]_popupVars => PopupInv'
  <2> SUFFICES ASSUME PopupInv, [PopupNext]_popupVars
               PROVE  PopupInv'
    OBVIOUS
  <2>1. CASE UNCHANGED popupVars
    BY <2>1 DEF popupVars, PopupInv, Kept
  <2>2. ASSUME NEW w \in DOMAIN windows, NEW field \in Fields, Show(w, field)
        PROVE  PopupInv'
    BY <2>2, PopupAssumption, ShowKeepsInv
  <2>3. ASSUME NEW w \in DOMAIN windows, NEW page \in {"loadingForm", "loadingAnswer"},
               SubmitPage(w, page)
        PROVE  PopupInv'
    BY <2>3, PopupAssumption, SubmitPageKeepsInv
  <2>4. ASSUME NEW w \in DOMAIN windows, Close(w) \/ LoadForm(w) \/ LoadAnswer(w) \/ Choose(w)
        PROVE  PopupInv'
    BY <2>4, PopupAssumption, CloseKeepsInv, LoadFormKeepsInv, LoadAnswerKeepsInv,
       ChooseKeepsInv
  <2> QED
    BY <2>1, <2>2, <2>3, <2>4 DEF PopupNext
<1> QED
  BY <1>1, <1>2, PTL DEF PopupSpec

(* No page is written to by a window that another page opened, and no      *)
(* answer goes to another field: an answer comes from an open window, which *)
(* still has the page that asked for it unless one was spared.             *)
THEOREM AnswersAreForTheirPage == PopupSpec => []AnswersReachTheirPage
<1>1. PopupInv => AnswersReachTheirPage
  BY DEF PopupInv, AnswersReachTheirPage
<1> QED
  BY <1>1, PopupInvariant, PTL

(* A page that goes leaves no window behind that it opened, or that one of *)
(* those opened, down to any level, unless dismissChildPopups has failed.  *)
THEOREM WindowsGoWithTheirPage == PopupSpec => []NoWindowIsLeft
<1>1. PopupInv => NoWindowIsLeft
  <2> SUFFICES ASSUME PopupInv, ~spared, NEW w \in Popups, windows[w].open
               PROVE  ~windows[w].orphan /\ windows[windows[w].opener].open
    BY DEF NoWindowIsLeft
  <2>1. KeptAt(windows, w)
    BY DEF PopupInv, Kept, Popups
  <2> QED
    BY <2>1 DEF KeptAt
<1> QED
  BY <1>1, PopupInvariant, PTL
=============================================================================
