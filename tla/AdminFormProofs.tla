---------------------------- MODULE AdminFormProofs ----------------------------
(***************************************************************************)
(* The widgets of the admin's forms.                                       *)
(*                                                                         *)
(* Inline rows, for any limits on their number: their names (Formset), and *)
(* what happens to their fields (InlineForms), whose steps leave the facts *)
(* about rows alone.                                                       *)
(*                                                                         *)
(* Date and time shortcuts, for any inputs and any number of init calls:   *)
(* every input has one pair of links, boxes that are displayed are closed  *)
(* by a click elsewhere, and no box writes into an input that has gone.    *)
(*                                                                         *)
(* The calendar, for any texts: its months join up from the year 100 on,   *)
(* and a day that is clicked is the day that is marked later, in any time  *)
(* zone.                                                                   *)
(***************************************************************************)
EXTENDS InlineForms, DateShortcuts, Calendar, FiniteSetTheorems, SequenceTheorems, TLAPS

-----------------------------------------------------------------------------
(* Inline rows.                                                            *)

(* NamesAreInSequence with the type of rows and what the buttons know.     *)
RowsInv ==
  /\ rows \in Seq(Row)
  /\ NamesAreInSequence
  /\ deleteShown = DeleteVisible(Len(rows))
  /\ addShown => AddVisible(Len(rows))

(* The rows without the k-th are one fewer, and still rows.                *)
LEMMA WithoutSeq ==
  ASSUME NEW S, NEW s \in Seq(S), NEW k \in DOMAIN s
  PROVE  /\ Without(s, k) \in Seq(S)
         /\ Len(Without(s, k)) = Len(s) - 1
         /\ \A i \in 1..(Len(s) - 1) : Without(s, k)[i] = IF i < k THEN s[i] ELSE s[i + 1]
<1> DEFINE w == [i \in 1..(Len(s) - 1) |-> IF i < k THEN s[i] ELSE s[i + 1]]
<1>1. Len(s) - 1 \in Nat /\ DOMAIN s = 1..Len(s)
  OBVIOUS
<1>2. ASSUME NEW i \in 1..(Len(s) - 1)
      PROVE  (IF i < k THEN s[i] ELSE s[i + 1]) \in S
  BY <1>1
<1>3. w \in [1..(Len(s) - 1) -> S]
  BY <1>2
<1>4. w \in Seq(S) /\ Len(w) = Len(s) - 1
  BY <1>1, <1>3
<1> QED
  BY <1>4 DEF Without

(* Renumbering names any sequence of rows 0, 1, 2 .. in page order.        *)
LEMMA RenumberSeq ==
  ASSUME NEW rs \in Seq(Row)
  PROVE  /\ Renumber(rs) \in Seq(Row)
         /\ Len(Renumber(rs)) = Len(rs)
         /\ \A i \in 1..Len(rs) : Renumber(rs)[i].id = i - 1 /\ Renumber(rs)[i].ndx = i - 1
<1> DEFINE r == [i \in 1..Len(rs) |-> RowOf(rs[i].saved, i - 1, i - 1)]
<1>1. ASSUME NEW i \in 1..Len(rs)
      PROVE  RowOf(rs[i].saved, i - 1, i - 1) \in Row
  <2>1. rs[i] \in Row /\ i - 1 \in Nat
    OBVIOUS
  <2>2. rs[i].saved \in BOOLEAN
    BY <2>1 DEF Row
  <2> QED
    BY <2>1, <2>2 DEF RowOf, Row
<1>2. r \in [1..Len(rs) -> Row]
  BY <1>1
<1>3. r \in Seq(Row) /\ Len(r) = Len(rs)
  BY <1>2
<1> QED
  BY <1>3 DEF Renumber, RowOf

LEMMA RowsInvInit ==
  ASSUME FormsetAssumption, FormsetInit
  PROVE  RowsInv /\ Len(rows) <= MaxLoaded
<1>1. PICK n \in MinForms..MaxLoaded, saved \in 0..MaxLoaded :
        rows = [i \in 1..n |-> RowOf(i <= saved, i - 1, i - 1)]
  BY DEF FormsetInit
<1>2. n \in Nat
  BY DEF FormsetAssumption
<1>3. \A i \in 1..n : RowOf(i <= saved, i - 1, i - 1) \in Row
  BY <1>2 DEF RowOf, Row
<1>4. rows \in [1..n -> Row]
  BY <1>1, <1>3
<1>5. rows \in Seq(Row) /\ Len(rows) = n
  BY <1>2, <1>4
<1>6. \A i \in 1..n : rows[i].id = i - 1 /\ rows[i].ndx = i - 1
  BY <1>1 DEF RowOf
<1>7. NamesAreInSequence
  BY <1>5, <1>6 DEF NamesAreInSequence, FormsetInit
<1>8. deleteShown = DeleteVisible(Len(rows)) /\ (addShown => AddVisible(Len(rows)))
  BY Zenon DEF FormsetInit
<1> QED
  BY <1>5, <1>7, <1>8 DEF RowsInv, FormsetAssumption

LEMMA RowsInvAdd ==
  ASSUME FormsetAssumption, RowsInv, AddRow
  PROVE  RowsInv'
<1> DEFINE new == RowOf(FALSE, nextIndex, total)
<1>1. total = Len(rows) /\ nextIndex = Len(rows) /\ Len(rows) \in Nat
  BY DEF RowsInv, NamesAreInSequence
<1>2. new \in Row
  BY <1>1 DEF RowOf, Row
<1>3. /\ rows' \in Seq(Row) /\ Len(rows') = Len(rows) + 1
      /\ \A i \in 1..Len(rows) : rows'[i] = rows[i]
      /\ rows'[Len(rows) + 1] = new
  <2>1. rows \in Seq(Row) /\ rows' = Append(rows, new)
    BY DEF RowsInv, AddRow
  <2> HIDE DEF new
  <2> QED
    BY <1>2, <2>1, AppendProperties
<1>4. \A i \in 1..(Len(rows) + 1) : rows'[i].id = i - 1 /\ rows'[i].ndx = i - 1
  <2> SUFFICES ASSUME NEW i \in 1..(Len(rows) + 1)
               PROVE  rows'[i].id = i - 1 /\ rows'[i].ndx = i - 1
    OBVIOUS
  <2>1. CASE i = Len(rows) + 1
    <3>1. new.id = Len(rows) /\ new.ndx = Len(rows)
      BY <1>1 DEF RowOf
    <3> HIDE DEF new
    <3>2. rows'[i] = new /\ i - 1 = Len(rows)
      BY <1>1, <1>3, <2>1
    <3> QED
      BY <3>1, <3>2
  <2>2. CASE i \in 1..Len(rows)
    BY <1>3, <2>2 DEF RowsInv, NamesAreInSequence
  <2> QED
    BY <1>1, <2>1, <2>2
<1>5. total' = Len(rows') /\ nextIndex' = Len(rows')
  BY <1>1, <1>3 DEF AddRow
<1>6. deleteShown' = DeleteVisible(Len(rows')) /\ (addShown' => AddVisible(Len(rows')))
  BY <1>5, Zenon DEF AddRow
<1>7. NamesAreInSequence'
  <2>1. DOMAIN rows' = 1..(Len(rows) + 1)
    BY <1>1, <1>3
  <2> QED
    BY <1>4, <1>5, <2>1 DEF NamesAreInSequence
<1> QED
  BY <1>3, <1>6, <1>7 DEF RowsInv

LEMMA RowsInvDelete ==
  ASSUME FormsetAssumption, RowsInv, NEW k \in DOMAIN rows, DeleteRow(k)
  PROVE  RowsInv' /\ Len(rows') = Len(rows) - 1
<1>1. /\ Without(rows, k) \in Seq(Row)
      /\ Len(Without(rows, k)) = Len(rows) - 1
  BY WithoutSeq DEF RowsInv
<1>2. /\ rows' \in Seq(Row) /\ Len(rows') = Len(rows) - 1
      /\ \A i \in 1..Len(rows') : rows'[i].id = i - 1 /\ rows'[i].ndx = i - 1
  BY <1>1, RenumberSeq DEF DeleteRow
<1>3. total' = Len(rows') /\ nextIndex' = Len(rows')
  BY <1>2 DEF DeleteRow, RowsInv, NamesAreInSequence
<1>4. AddVisible(Len(rows)) => AddVisible(Len(rows'))
  BY <1>2 DEF RowsInv, AddVisible, FormsetAssumption
<1>5. addShown' => AddVisible(Len(rows'))
  BY <1>4, Zenon DEF DeleteRow, RowsInv
<1>6. deleteShown' = DeleteVisible(Len(rows'))
  BY <1>3 DEF DeleteRow
<1>7. NamesAreInSequence'
  BY <1>2, <1>3 DEF NamesAreInSequence
<1> QED
  BY <1>2, <1>5, <1>6, <1>7 DEF RowsInv

LEMMA RowsInvInductive ==
  ASSUME FormsetAssumption, RowsInv, [FormsetNext]_formset
  PROVE  RowsInv'
<1>1. CASE UNCHANGED formset
  BY <1>1 DEF RowsInv, NamesAreInSequence, formset
<1> QED
  BY <1>1, RowsInvAdd, RowsInvDelete DEF FormsetNext

LEMMA RowsInvariant ==
  ASSUME FormsetAssumption
  PROVE  FormsetSpec => []RowsInv
<1>1. FormsetInit => RowsInv
  BY RowsInvInit
<1>2. RowsInv /\ [FormsetNext]_formset => RowsInv'
  BY RowsInvInductive
<1> QED
  BY <1>1, <1>2, PTL DEF FormsetSpec

(* inlines.js, updateElementIndex and the closure's nextIndex: for any     *)
(* limits the rows are named in sequence, TOTAL_FORMS counts them all, and *)
(* the next row gets a name that is not taken.                             *)
THEOREM RowsAreNamedInSequence ==
  ASSUME FormsetAssumption
  PROVE  FormsetSpec => []NamesAreInSequence
<1>1. RowsInv => NamesAreInSequence
  BY DEF RowsInv
<1> QED
  BY <1>1, RowsInvariant, PTL

(* inlines.js, toggleDeleteButtonVisibility and the add button: for any    *)
(* limits no row is added above the maximum or removed below the minimum.  *)
THEOREM RowsStayWithinLimits ==
  ASSUME FormsetAssumption
  PROVE  FormsetSpec => StaysWithinLimits
<1> DEFINE Within == /\ Len(rows') > Len(rows) => Len(rows') <= MaxForms
                     /\ Len(rows') < Len(rows) => Len(rows') >= MinForms
<1>1. ASSUME RowsInv, AddRow PROVE Within
  <2>1. Len(rows') = Len(rows) + 1 /\ Len(rows) \in Nat
    BY <1>1 DEF RowsInv, AddRow
  <2>2. MaxForms - Len(rows) > 0
    BY <1>1 DEF RowsInv, AddRow, AddVisible
  <2> QED
    BY <2>1, <2>2 DEF FormsetAssumption
<1>2. ASSUME RowsInv, NEW k \in DOMAIN rows, DeleteRow(k) PROVE Within
  <2>1. Len(rows') = Len(rows) - 1 /\ Len(rows) \in Nat
    BY <1>2, RowsInvDelete DEF RowsInv
  <2>2. MinForms - Len(rows) < 0
    BY <1>2 DEF RowsInv, DeleteRow, DeleteVisible
  <2> QED
    BY <2>1, <2>2 DEF FormsetAssumption
<1>3. RowsInv /\ [FormsetNext]_formset => [Within]_formset
  BY <1>1, <1>2 DEF FormsetNext
<1> QED
  BY <1>3, RowsInvariant, PTL DEF FormsetSpec, StaysWithinLimits

-----------------------------------------------------------------------------
(* Fields.                                                                 *)

Slugs == Titles \cup {"saved", "own"}
FieldRecord == [id : Nat, chosen : BOOLEAN, title : Titles, slug : Slugs,
                bound : BOOLEAN, changed : BOOLEAN]

(* What holds of the fields f of the i-th row, when rows before s were     *)
(* never numbered again and the cache has c for the row's name.            *)
GoodField(f, i, s, c) ==
  /\ f \in FieldRecord
  /\ i < s => f.id = i - 1 /\ f.chosen = c
  /\ f.changed => f.slug = "own"
  /\ ~f.changed /\ i < s /\ f.bound => f.slug = f.title

FieldsInv ==
  /\ fields \in Seq(FieldRecord) /\ Len(fields) = Len(rows)
  /\ cache \in [DOMAIN cache -> BOOLEAN] /\ 0..(Len(rows) - 1) \subseteq DOMAIN cache
  /\ stable \in Nat
  /\ \A i \in 1..Len(rows) : GoodField(fields[i], i, stable, cache[i - 1])
  /\ \A i \in DOMAIN sent : i < stable => sent[i] = seen[i]

(* What the invariant of the rows says of one of them.                     *)
LEMMA RowsByIndex ==
  ASSUME RowsInv
  PROVE  /\ rows \in Seq(Row) /\ Len(rows) \in Nat /\ DOMAIN rows = 1..Len(rows)
         /\ total = Len(rows)
         /\ \A i \in 1..Len(rows) : rows[i].ndx = i - 1
         /\ \A id \in Nat : Found(id) = {id + 1} \cap 1..Len(rows)
<1>1. /\ rows \in Seq(Row) /\ Len(rows) \in Nat /\ DOMAIN rows = 1..Len(rows)
      /\ total = Len(rows)
      /\ \A i \in 1..Len(rows) : rows[i].ndx = i - 1
  BY DEF RowsInv, NamesAreInSequence
<1>2. ASSUME NEW id \in Nat PROVE Found(id) = {id + 1} \cap 1..Len(rows)
  BY <1>1 DEF Found
<1> QED
  BY <1>1, <1>2

(* The fields of a row of the page, or of a new one.                       *)
LEMMA FieldTyped ==
  /\ \A s \in BOOLEAN, j \in Nat, b \in BOOLEAN : Field(s, j, b) \in FieldRecord
  /\ \A s \in BOOLEAN, j \in Nat, b \in BOOLEAN : Field(s, j, b).id = j
  /\ \A s \in BOOLEAN, j \in Nat, b \in BOOLEAN : Field(s, j, b).chosen = b
  /\ \A s \in BOOLEAN, j \in Nat, b \in BOOLEAN : Field(s, j, b).changed = FALSE
  /\ \A s \in BOOLEAN, j \in Nat, b \in BOOLEAN :
       Field(s, j, b).bound => Field(s, j, b).slug = Field(s, j, b).title
<1>1. ASSUME NEW s \in BOOLEAN, NEW j \in Nat, NEW b \in BOOLEAN
      PROVE  /\ Field(s, j, b) \in FieldRecord
             /\ Field(s, j, b).id = j
             /\ Field(s, j, b).chosen = b
             /\ Field(s, j, b).changed = FALSE
             /\ Field(s, j, b).bound => Field(s, j, b).slug = Field(s, j, b).title
  <2> DEFINE f == Field(s, j, b)
  <2>1. /\ f.id = j /\ f.chosen = b /\ f.changed = FALSE /\ f.bound = ~s
        /\ f.title = (IF s THEN "title" ELSE "") /\ f.slug = (IF s THEN "saved" ELSE "")
    BY Zenon DEF Field
  <2>2. f.title \in Titles /\ f.slug \in Slugs
    BY <2>1 DEF Titles, Slugs
  <2>3. f.bound \in BOOLEAN
    BY <2>1, Zenon
  <2>4. f \in FieldRecord
    BY <2>1, <2>2, <2>3 DEF Field, FieldRecord
  <2>5. f.bound => f.slug = f.title
    BY <2>1
  <2> QED
    BY <2>1, <2>4, <2>5
<1> QED
  BY <1>1, Zenon

LEMMA NewFieldGood ==
  ASSUME NEW saved \in BOOLEAN, NEW i \in Nat, i - 1 \in Nat, NEW s, NEW c \in BOOLEAN
  PROVE  GoodField(Field(saved, i - 1, c), i, s, c)
<1> DEFINE f == Field(saved, i - 1, c)
<1>1. f \in FieldRecord
  BY FieldTyped, Zenon
<1>2. f.id = i - 1
  BY FieldTyped, Zenon
<1>3. f.chosen = c
  BY FieldTyped, Zenon
<1>4. f.changed = FALSE
  BY FieldTyped, Zenon
<1>5. f.bound => f.slug = f.title
  BY FieldTyped, Zenon
<1> HIDE DEF f
<1>6. GoodField(f, i, s, c)
  BY <1>1, <1>2, <1>3, <1>4, <1>5, Zenon DEF GoodField
<1> QED
  BY <1>6 DEF f

(* A row keeps what holds of it when fewer rows are stable.                *)
LEMMA GoodFieldStays ==
  ASSUME NEW f, NEW i \in Nat, NEW s \in Nat, NEW t \in Nat, t <= s, NEW c,
         GoodField(f, i, s, c)
  PROVE  GoodField(f, i, t, c)
BY DEF GoodField

LEMMA FieldsInvInit ==
  ASSUME FormsetAssumption, RowsInv, InlineInit
  PROVE  FieldsInv
<1>1. /\ rows \in Seq(Row) /\ Len(rows) \in Nat /\ DOMAIN rows = 1..Len(rows)
  BY RowsByIndex
<1>2. PICK c \in [Ids -> BOOLEAN] :
        /\ fields = [i \in DOMAIN rows |-> Field(rows[i].saved, i - 1, c[i - 1])]
        /\ cache = [i \in 0..(Len(rows) - 1) |-> c[i]]
  BY DEF InlineInit
<1>3. Len(rows) <= MaxLoaded
  BY RowsInvInit DEF InlineInit
<1>4. \A i \in 1..Len(rows) : i - 1 \in Ids
  BY <1>1, <1>3 DEF Ids, FormsetAssumption
<1>5. ASSUME NEW i \in 1..Len(rows)
      PROVE  GoodField(fields[i], i, stable, cache[i - 1])
  <2>1. rows[i].saved \in BOOLEAN
    <3>1. rows[i] \in Row
      BY <1>1
    <3> QED
      BY <3>1 DEF Row
  <2>2. i - 1 \in Nat /\ c[i - 1] \in BOOLEAN /\ cache[i - 1] = c[i - 1]
    BY <1>1, <1>2, <1>4
  <2>3. fields[i] = Field(rows[i].saved, i - 1, c[i - 1])
    BY <1>1, <1>2
  <2>4. GoodField(Field(rows[i].saved, i - 1, c[i - 1]), i, stable, c[i - 1])
    BY <2>1, <2>2, NewFieldGood
  <2> QED
    BY <2>2, <2>3, <2>4
<1>6. fields \in [1..Len(rows) -> FieldRecord]
  BY <1>1, <1>2, <1>5 DEF GoodField
<1>7. fields \in Seq(FieldRecord) /\ Len(fields) = Len(rows)
  BY <1>1, <1>6
<1>8. cache \in [DOMAIN cache -> BOOLEAN] /\ DOMAIN cache = 0..(Len(rows) - 1)
  <2>1. \A j \in 0..(Len(rows) - 1) : j \in Ids
    BY <1>1, <1>3 DEF Ids, FormsetAssumption
  <2> QED
    BY <1>2, <2>1
<1>9. stable \in Nat
  BY DEF InlineInit, FormsetAssumption
<1>10. DOMAIN sent = {}
  <2>1. sent = <<>>
    BY Zenon DEF InlineInit, none
  <2> QED
    BY <2>1
<1> QED
  BY <1>5, <1>7, <1>8, <1>9, <1>10 DEF FieldsInv

LEMMA FieldsInvAdd ==
  ASSUME FormsetAssumption, RowsInv, RowsInv', FieldsInv, Add
  PROVE  FieldsInv'
<1> DEFINE n == Len(rows)
           new == Field(FALSE, n, FALSE)
<1>1. n \in Nat /\ total = n
  BY RowsByIndex
<1>2. Len(rows') = n + 1
  BY <1>1 DEF Add, AddRow, RowsInv
<1>3. GoodField(new, n + 1, stable, FALSE) /\ new \in FieldRecord
  <2>1. GoodField(Field(FALSE, (n + 1) - 1, FALSE), n + 1, stable, FALSE)
    <3>1. n + 1 \in Nat /\ (n + 1) - 1 \in Nat /\ FALSE \in BOOLEAN
      BY <1>1
    <3> QED
      BY <3>1, NewFieldGood, Zenon
  <2>2. (n + 1) - 1 = n
    BY <1>1
  <2> QED
    BY <2>1, <2>2 DEF GoodField
<1>4. fields \in Seq(FieldRecord) /\ Len(fields) = n /\ fields' = Append(fields, new)
  BY <1>1 DEF FieldsInv, Add
<1> HIDE DEF new
<1>5. /\ fields' \in Seq(FieldRecord) /\ Len(fields') = n + 1
      /\ fields'[n + 1] = new
      /\ \A i \in 1..n : fields'[i] = fields[i]
  BY <1>1, <1>3, <1>4, AppendProperties
<1>6. cache' = [id \in DOMAIN cache \cup {n} |-> id # n /\ cache[id]]
  BY <1>1 DEF Add
<1>7. cache' \in [DOMAIN cache' -> BOOLEAN] /\ cache'[n] = FALSE
  BY <1>6
<1>8. /\ cache \in [DOMAIN cache -> BOOLEAN] /\ 0..(n - 1) \subseteq DOMAIN cache
      /\ \A i \in 1..n : GoodField(fields[i], i, stable, cache[i - 1])
      /\ \A i \in DOMAIN sent : i < stable => sent[i] = seen[i]
      /\ stable \in Nat
  BY DEF FieldsInv
<1>9. ASSUME NEW i \in 1..n PROVE cache'[i - 1] = cache[i - 1]
  <2>1. i - 1 \in DOMAIN cache /\ i - 1 # n
    BY <1>1, <1>8
  <2>2. cache[i - 1] \in BOOLEAN
    BY <1>8, <2>1
  <2>3. cache'[i - 1] = (i - 1 # n /\ cache[i - 1])
    BY <1>6, <2>1
  <2> QED
    BY <2>1, <2>2, <2>3
<1>10. ASSUME NEW i \in 1..(n + 1)
       PROVE  GoodField(fields'[i], i, stable, cache'[i - 1])
  <2>1. CASE i = n + 1
    <3>1. i - 1 = n
      BY <1>1, <2>1
    <3> QED
      BY <1>3, <1>5, <1>7, <2>1, <3>1, Zenon
  <2>2. CASE i \in 1..n
    BY <1>5, <1>8, <1>9, <2>2
  <2> QED
    BY <1>1, <2>1, <2>2
<1>11. 0..(Len(rows') - 1) \subseteq DOMAIN cache'
  BY <1>1, <1>2, <1>6, <1>8
<1>12. UNCHANGED <<stable, sent, seen>>
  BY DEF Add
<1> QED
  BY <1>2, <1>5, <1>7, <1>8, <1>10, <1>11, <1>12 DEF FieldsInv

LEMMA FieldsInvRemove ==
  ASSUME FormsetAssumption, RowsInv, RowsInv', FieldsInv, NEW k \in DOMAIN rows, Remove(k)
  PROVE  FieldsInv'
<1> DEFINE n == Len(rows)
<1>1. n \in Nat /\ k \in 1..n
  BY RowsByIndex
<1>2. Len(rows') = n - 1
  BY <1>1, RowsInvDelete DEF Remove
<1>3. /\ fields \in Seq(FieldRecord) /\ Len(fields) = n /\ stable \in Nat
      /\ cache \in [DOMAIN cache -> BOOLEAN] /\ 0..(n - 1) \subseteq DOMAIN cache
      /\ \A i \in 1..n : GoodField(fields[i], i, stable, cache[i - 1])
  BY DEF FieldsInv
<1>4. /\ fields' \in Seq(FieldRecord) /\ Len(fields') = n - 1
      /\ \A i \in 1..(n - 1) : fields'[i] = IF i < k THEN fields[i] ELSE fields[i + 1]
  <2>1. k \in DOMAIN fields
    BY <1>1, <1>3
  <2> QED
    BY <1>3, <2>1, WithoutSeq DEF Remove
<1>5. /\ stable' \in Nat /\ stable' <= stable
      /\ \A i \in 1..(n - 1) : i < stable' => i < k
  BY <1>1, <1>3 DEF Remove
<1>6. cache' = cache /\ sent' = <<>>
  BY DEF Remove, open, none
<1>7. ASSUME NEW i \in 1..(n - 1)
      PROVE  GoodField(fields'[i], i, stable', cache'[i - 1])
  <2>1. i \in Nat /\ i \in 1..n /\ i + 1 \in 1..n
    BY <1>1
  <2>2. CASE i < k
    <3>1. fields'[i] = fields[i]
      BY <1>4, <2>2
    <3>2. GoodField(fields[i], i, stable, cache[i - 1])
      BY <1>3, <2>1
    <3>3. GoodField(fields[i], i, stable', cache[i - 1])
      BY <1>3, <1>5, <2>1, <3>2, GoodFieldStays, Zenon
    <3> QED
      BY <1>6, <3>1, <3>3, Zenon
  <2>3. CASE ~(i < k)
    <3>1. fields'[i] = fields[i + 1] /\ ~(i < stable')
      BY <1>4, <1>5, <2>3
    <3>2. GoodField(fields[i + 1], i + 1, stable, cache[(i + 1) - 1])
      BY <1>3, <2>1
    <3>3. GoodField(fields[i + 1], i, stable', cache'[i - 1])
      BY <2>1, <3>1, <3>2 DEF GoodField, FieldRecord
    <3> QED
      BY <3>1, <3>3, Zenon
  <2> QED
    BY <2>2, <2>3
<1>8. 0..(Len(rows') - 1) \subseteq DOMAIN cache'
  BY <1>1, <1>2, <1>3, <1>6
<1> QED
  BY <1>2, <1>3, <1>4, <1>5, <1>6, <1>7, <1>8 DEF FieldsInv

LEMMA FieldsInvMoveAll ==
  ASSUME FormsetAssumption, RowsInv, FieldsInv, NEW i \in DOMAIN rows, MoveAllInRow(i)
  PROVE  FieldsInv'
<1> DEFINE n == Len(rows)
           id == fields[i].id
           to == ~fields[i].chosen
<1>1. n \in Nat /\ i \in 1..n /\ rows' = rows /\ stable' = stable /\ sent' = <<>>
  BY RowsByIndex DEF MoveAllInRow, formset, open, none
<1>2. /\ fields \in Seq(FieldRecord) /\ Len(fields) = n /\ stable \in Nat
      /\ cache \in [DOMAIN cache -> BOOLEAN] /\ 0..(n - 1) \subseteq DOMAIN cache
      /\ \A j \in 1..n : GoodField(fields[j], j, stable, cache[j - 1])
  BY DEF FieldsInv
<1>3. id \in Nat
  <2>1. GoodField(fields[i], i, stable, cache[i - 1])
    BY <1>1, <1>2
  <2> QED
    BY <2>1 DEF GoodField, FieldRecord
<1>4. PICK d \in Found(id) :
        LET kept == IF fields[d].chosen = cache[id] /\ cache[id] # to THEN to ELSE cache[id]
        IN  /\ cache' = [cache EXCEPT ![id] = kept]
            /\ fields' = [fields EXCEPT ![d].chosen = kept]
  BY Zenon DEF MoveAllInRow
<1> DEFINE kept == IF fields[d].chosen = cache[id] /\ cache[id] # to THEN to ELSE cache[id]
<1>5. d = id + 1 /\ d \in 1..n /\ id \in DOMAIN cache
  BY <1>1, <1>2, <1>3, RowsByIndex
<1>6. kept \in BOOLEAN
  <2>1. cache[id] \in BOOLEAN
    BY <1>2, <1>5
  <2>2. to \in BOOLEAN
    BY Zenon
  <2> HIDE DEF to
  <2> QED
    BY <2>1, <2>2
<1>7. cache' = [cache EXCEPT ![id] = kept] /\ fields' = [fields EXCEPT ![d].chosen = kept]
  BY <1>4, Zenon
<1> HIDE DEF kept, to, id
<1>8. /\ cache' \in [DOMAIN cache' -> BOOLEAN] /\ DOMAIN cache' = DOMAIN cache
      /\ cache'[id] = kept
      /\ \A j \in DOMAIN cache : j # id => cache'[j] = cache[j]
  BY <1>2, <1>5, <1>6, <1>7
<1> DEFINE moved == [fields[d] EXCEPT !.chosen = kept]
<1>9. GoodField(fields[d], d, stable, cache[d - 1]) /\ fields[d] \in FieldRecord
  BY <1>2, <1>5 DEF GoodField
<1>10. moved \in FieldRecord /\ GoodField(moved, d, stable, kept)
  BY <1>6, <1>9 DEF GoodField, FieldRecord
<1>11. /\ fields' \in Seq(FieldRecord) /\ Len(fields') = n
       /\ \A j \in 1..n : fields'[j] = IF j = d THEN moved ELSE fields[j]
  <2>1. fields' = [fields EXCEPT ![d] = moved]
    BY <1>7
  <2> HIDE DEF moved
  <2> QED
    BY <1>2, <1>5, <1>10, <2>1, ExceptSeq
<1> HIDE DEF moved
<1>12. ASSUME NEW j \in 1..n
       PROVE  GoodField(fields'[j], j, stable, cache'[j - 1])
  <2>1. CASE j = d
    <3>1. j - 1 = id
      BY <1>3, <1>5, <2>1
    <3> QED
      BY <1>8, <1>10, <1>11, <2>1, <3>1, Zenon
  <2>2. CASE j # d
    <3>1. j - 1 # id /\ j - 1 \in DOMAIN cache
      BY <1>1, <1>2, <1>3, <1>5, <2>2
    <3>2. cache'[j - 1] = cache[j - 1] /\ fields'[j] = fields[j]
      BY <1>8, <1>11, <2>2, <3>1
    <3> QED
      BY <1>2, <3>2, Zenon
  <2> QED
    BY <2>1, <2>2
<1> QED
  BY <1>1, <1>2, <1>8, <1>11, <1>12 DEF FieldsInv

(* One row's fields are replaced and nothing else.                         *)
LEMMA FieldsInvEdit ==
  ASSUME RowsInv, FieldsInv, NEW i \in 1..Len(rows), NEW f \in FieldRecord,
         fields' = [fields EXCEPT ![i] = f], UNCHANGED <<rows, cache, stable, sent, seen>>,
         GoodField(fields[i], i, stable, cache[i - 1]) => GoodField(f, i, stable, cache[i - 1])
  PROVE  FieldsInv'
<1> DEFINE n == Len(rows)
<1>1. /\ fields \in Seq(FieldRecord) /\ Len(fields) = n
      /\ \A j \in 1..n : GoodField(fields[j], j, stable, cache[j - 1])
  BY DEF FieldsInv
<1>2. /\ fields' \in Seq(FieldRecord) /\ Len(fields') = n
      /\ \A j \in 1..n : fields'[j] = IF j = i THEN f ELSE fields[j]
  BY <1>1, ExceptSeq
<1>3. ASSUME NEW j \in 1..n
      PROVE  GoodField(fields'[j], j, stable, cache[j - 1])
  BY <1>1, <1>2
<1> QED
  BY <1>2, <1>3 DEF FieldsInv

LEMMA FieldsInvPopulate ==
  ASSUME FormsetAssumption, RowsInv, FieldsInv, NEW i \in DOMAIN rows, NEW typed \in Titles,
         Populate(i, typed)
  PROVE  FieldsInv'
<1> DEFINE old == fields[i]
           fs  == [fields EXCEPT ![i].title = typed]
           new == [old EXCEPT !.title = typed]
<1>1. i \in 1..Len(rows) /\ Len(rows) \in Nat
      /\ UNCHANGED <<rows, cache, stable, sent, seen>>
  BY RowsByIndex DEF Populate, formset
<1>2. /\ fields \in Seq(FieldRecord) /\ Len(fields) = Len(rows)
      /\ GoodField(old, i, stable, cache[i - 1]) /\ old \in FieldRecord /\ old.id \in Nat
      /\ new \in FieldRecord
  BY <1>1 DEF FieldsInv, GoodField, FieldRecord
<1>3. fs = [fields EXCEPT ![i] = new]
  OBVIOUS
<1> HIDE DEF new, fs
<1>4. /\ fs \in Seq(FieldRecord) /\ Len(fs) = Len(rows)
      /\ \A j \in 1..Len(rows) : fs[j] = IF j = i THEN new ELSE fields[j]
  BY <1>1, <1>2, <1>3, ExceptSeq
<1>5. CASE ~(old.bound /\ ~old.changed /\ Found(old.id) # {})
  <2>1. fields' = [fields EXCEPT ![i] = new]
    BY <1>3, <1>5 DEF Populate, fs
  <2>2. i < stable => Found(old.id) # {}
    BY <1>1, <1>2, RowsByIndex DEF GoodField
  <2>3. GoodField(new, i, stable, cache[i - 1])
    BY <1>2, <1>5, <2>2 DEF GoodField, FieldRecord, new
  <2> QED
    BY <1>1, <1>2, <2>1, <2>3, FieldsInvEdit
<1>6. CASE old.bound /\ ~old.changed /\ Found(old.id) # {}
  <2> DEFINE d == CHOOSE d \in Found(old.id) : TRUE
             t == fs[d].title
             own == [new EXCEPT !.slug = t]
  <2>1. d \in Found(old.id) /\ Found(old.id) = {old.id + 1} \cap 1..Len(rows)
    BY <1>2, <1>6, RowsByIndex
  <2>2. d = old.id + 1 /\ d \in 1..Len(rows)
    BY <2>1
  <2>3. fields' = [fs EXCEPT ![i].slug = t]
    BY <1>6, Zenon DEF Populate, fs
  <2> HIDE DEF d
  <2>4. t \in Titles
    <3>1. fs[d] \in FieldRecord
      BY <1>4, <2>2
    <3> QED
      BY <3>1 DEF FieldRecord
  <2>5. i < stable => t = new.title
    BY <1>1, <1>2, <1>4, <2>2 DEF GoodField
  <2> HIDE DEF t
  <2>6. own \in FieldRecord /\ own.title = new.title /\ own.slug = t
    BY <1>2, <2>4 DEF FieldRecord, Slugs
  <2>7. GoodField(own, i, stable, cache[i - 1])
    BY <1>2, <1>6, <2>5, <2>6 DEF GoodField, FieldRecord, new
  <2>8. fields' = [fields EXCEPT ![i] = own]
    BY <1>1, <1>2, <1>3, <2>3
  <2> HIDE DEF own
  <2> QED
    BY <1>1, <2>6, <2>7, <2>8, FieldsInvEdit
<1> QED
  BY <1>5, <1>6

LEMMA FieldsInvEditSlug ==
  ASSUME FormsetAssumption, RowsInv, FieldsInv, NEW i \in DOMAIN rows, EditSlug(i)
  PROVE  FieldsInv'
<1> DEFINE new == [fields[i] EXCEPT !.slug = "own", !.changed = TRUE]
<1>1. i \in 1..Len(rows) /\ UNCHANGED <<rows, cache, stable, sent, seen>>
  BY RowsByIndex DEF EditSlug, formset
<1>2. GoodField(fields[i], i, stable, cache[i - 1])
  BY <1>1 DEF FieldsInv
<1>3. new \in FieldRecord /\ GoodField(new, i, stable, cache[i - 1])
  BY <1>2 DEF GoodField, FieldRecord, Slugs
<1>4. fields' = [fields EXCEPT ![i] = new]
  BY DEF EditSlug
<1> HIDE DEF new
<1> QED
  BY <1>1, <1>3, <1>4, FieldsInvEdit

LEMMA FieldsInvSubmit ==
  ASSUME FormsetAssumption, RowsInv, FieldsInv, SubmitRows
  PROVE  FieldsInv'
<1> DEFINE n == Len(rows)
<1>1. n \in Nat /\ DOMAIN rows = 1..n /\ UNCHANGED <<rows, cache, stable>>
  BY RowsByIndex DEF SubmitRows, formset
<1>2. /\ fields \in Seq(FieldRecord) /\ Len(fields) = n /\ DOMAIN fields = 1..n
      /\ cache \in [DOMAIN cache -> BOOLEAN] /\ 0..(n - 1) \subseteq DOMAIN cache
      /\ \A j \in 1..n : GoodField(fields[j], j, stable, cache[j - 1])
  BY <1>1 DEF FieldsInv
<1>3. \A j \in 1..n : rows[j].ndx = j - 1 /\ j - 1 \in DOMAIN cache
  BY <1>1, <1>2, RowsByIndex
<1>4. sent' = [j \in 1..n |-> cache[j - 1]]
  BY <1>1, <1>3 DEF SubmitRows
<1>5. seen' = [j \in 1..n |-> fields[j].chosen]
  BY <1>1 DEF SubmitRows
<1> DEFINE f(j) == [fields[j] EXCEPT !.chosen = cache[j - 1]]
<1>6. fields' = [j \in 1..n |-> f(j)]
  BY <1>2, <1>4 DEF SubmitRows
<1>7. ASSUME NEW j \in 1..n
      PROVE  f(j) \in FieldRecord /\ GoodField(f(j), j, stable, cache[j - 1])
  <2>1. cache[j - 1] \in BOOLEAN
    BY <1>2, <1>3
  <2>2. GoodField(fields[j], j, stable, cache[j - 1])
    BY <1>2
  <2> QED
    BY <2>1, <2>2 DEF GoodField, FieldRecord
<1> HIDE DEF f
<1>8. fields' \in [1..n -> FieldRecord]
  BY <1>6, <1>7
<1>9. fields' \in Seq(FieldRecord) /\ Len(fields') = n
  BY <1>1, <1>8
<1>10. ASSUME NEW j \in DOMAIN sent', j < stable
       PROVE  sent'[j] = seen'[j]
  <2>1. j \in 1..n
    BY <1>4
  <2>2. fields[j].chosen = cache[j - 1]
    BY <1>2, <1>10, <2>1 DEF GoodField
  <2> QED
    BY <1>4, <1>5, <2>1, <2>2
<1>11. \A j \in 1..n : GoodField(fields'[j], j, stable, cache[j - 1])
  BY <1>6, <1>7
<1> QED
  BY <1>1, <1>2, <1>9, <1>10, <1>11 DEF FieldsInv

LEMMA FieldsInvInductive ==
  ASSUME FormsetAssumption, RowsInv, RowsInv', FieldsInv, [InlineNext]_inlineVars
  PROVE  FieldsInv'
<1>1. CASE UNCHANGED inlineVars
  BY <1>1 DEF FieldsInv, GoodField, inlineVars, formset
<1> QED
  BY <1>1, FieldsInvAdd, FieldsInvRemove, FieldsInvMoveAll, FieldsInvPopulate,
     FieldsInvEditSlug, FieldsInvSubmit DEF InlineNext

-----------------------------------------------------------------------------
(* The whole form.                                                         *)

(* No handler of a widget in a row has a part of the formset in it.        *)
LEMMA FormImplementsFormset == InlineSpec => FormsetSpec
<1>1. InlineInit => FormsetInit
  BY DEF InlineInit
<1>2. ASSUME [InlineNext]_inlineVars PROVE [FormsetNext]_formset
  <2>1. CASE Add
    BY <2>1 DEF Add, FormsetNext
  <2>2. ASSUME NEW k \in DOMAIN rows, Remove(k) PROVE FormsetNext
    BY <2>2 DEF Remove, FormsetNext
  <2>3. ASSUME NEW k \in DOMAIN rows, MoveAllInRow(k) PROVE UNCHANGED formset
    BY <2>3 DEF MoveAllInRow
  <2>4. ASSUME NEW k \in DOMAIN rows, NEW typed \in Titles, Populate(k, typed)
        PROVE  UNCHANGED formset
    BY <2>4 DEF Populate
  <2>5. ASSUME NEW k \in DOMAIN rows, EditSlug(k) PROVE UNCHANGED formset
    BY <2>5 DEF EditSlug
  <2>6. CASE SubmitRows
    BY <2>6 DEF SubmitRows
  <2>7. CASE UNCHANGED inlineVars
    BY <2>7 DEF inlineVars
  <2> QED
    BY <1>2, <2>1, <2>2, <2>3, <2>4, <2>5, <2>6, <2>7 DEF InlineNext
<1> QED
  BY <1>1, <1>2, PTL DEF InlineSpec, FormsetSpec

LEMMA FieldsInvariant ==
  ASSUME FormsetAssumption
  PROVE  InlineSpec => [](RowsInv /\ FieldsInv)
<1>1. InlineSpec => []RowsInv
  BY FormImplementsFormset, RowsInvariant, PTL
<1>2. RowsInv /\ InlineInit => FieldsInv
  BY FieldsInvInit
<1>3. RowsInv /\ RowsInv' /\ FieldsInv /\ [InlineNext]_inlineVars => FieldsInv'
  BY FieldsInvInductive
<1> QED
  BY <1>1, <1>2, <1>3, PTL DEF InlineSpec

(* SelectBox.js with inlines.js: for any limits, before the first row that *)
(* was numbered again every row shows what SelectBox holds for it, and is  *)
(* submitted with what it shows.                                           *)
THEOREM StableRowsSendWhatTheyShow ==
  ASSUME FormsetAssumption
  PROVE  InlineSpec => []SentIsShown
<1>1. ASSUME RowsInv, FieldsInv PROVE SentIsShown
  <2>1. DOMAIN rows = 1..Len(rows) /\ \A i \in 1..Len(rows) : rows[i].ndx = i - 1
    BY <1>1, RowsByIndex
  <2> QED
    BY <1>1, <2>1 DEF SentIsShown, FieldsInv, GoodField
<1> QED
  BY <1>1, FieldsInvariant, PTL

(* prepopulate.js with inlines.js: for any limits an edited slug is never  *)
(* replaced, and an unedited one of a stable new row follows its own title.*)
THEOREM SlugsAreTheirOwn ==
  ASSUME FormsetAssumption
  PROVE  InlineSpec => []SlugIsOwn
<1>1. ASSUME RowsInv, FieldsInv PROVE SlugIsOwn
  <2>1. Len(rows) \in Nat
    BY <1>1, RowsByIndex
  <2>2. DOMAIN fields = 1..Len(rows)
    BY <1>1, <2>1 DEF FieldsInv
  <2> QED
    BY <1>1, <2>2 DEF SlugIsOwn, FieldsInv, GoodField, FieldRecord
<1> QED
  BY <1>1, FieldsInvariant, PTL

-----------------------------------------------------------------------------
(* Date and time shortcuts.                                                *)

(* n is the only number linked for the input i.                            *)
OnlyLink(n, i) == {m \in linked : numbers[m] = i} = {n}

ShortcutsInv ==
  /\ numbers \in Seq(Inputs) /\ page \subseteq Inputs
  /\ linked \subseteq Nums /\ shown \subseteq Nums
  /\ picked \in [Inputs -> Nat]
  /\ ShownBoxesListen
  /\ \A n \in linked \cup shown : numbers[n] \in page
  /\ \A i \in page : \E n \in linked : OnlyLink(n, i)

-----------------------------------------------------------------------------
(* init numbers each input once.                                           *)
LEMMA NumberedOnce ==
  ASSUME NEW inputs, IsFiniteSet(inputs), NEW s \in Numbered(inputs)
  PROVE  /\ Cardinality(inputs) \in Nat
         /\ s \in Seq(inputs) /\ Len(s) = Cardinality(inputs)
         /\ \A i \in inputs : \E k \in 1..Len(s) : s[k] = i
         /\ \A k, m \in 1..Len(s) : s[k] = s[m] => k = m
<1> DEFINE c == Cardinality(inputs)
<1>1. c \in Nat
  BY FS_CardinalityType
<1>2. s \in [1..c -> inputs] /\ {s[k] : k \in 1..c} = inputs
  BY DEF Numbered
<1>3. s \in Seq(inputs) /\ Len(s) = c
  BY <1>1, <1>2
<1>4. s \in Surjection(1..c, inputs)
  BY <1>2 DEF Surjection
<1>5. IsFiniteSet(1..c) /\ Cardinality(1..c) = c
  BY <1>1, FS_Interval
<1>6. s \in Injection(1..c, inputs)
  BY <1>4, <1>5, FS_SurjSameCardinalityImpliesInj
<1> QED
  BY <1>1, <1>2, <1>3, <1>6 DEF Injection, IsInjective

NewNums(old, s) == {n \in DOMAIN (old \o s) : n > Len(old)}
OneEach(all, new, inputs) ==
  /\ \A n \in new : all[n] \in inputs
  /\ \A i \in inputs : \E n \in new : {m \in new : all[m] = i} = {n}

(* Of the numbers given out after those of old there is one for each input.*)
LEMMA NewLinks ==
  ASSUME NEW inputs \in SUBSET Inputs, IsFiniteSet(inputs), NEW s \in Numbered(inputs),
         NEW old \in Seq(Inputs)
  PROVE  old \o s \in Seq(Inputs) /\ OneEach(old \o s, NewNums(old, s), inputs)
<1> DEFINE all == old \o s
           new == {n \in DOMAIN all : n > Len(old)}
           l   == Len(old)
<1>1. /\ s \in Seq(inputs) /\ s \in Seq(Inputs) /\ Len(s) \in Nat
      /\ \A i \in inputs : \E k \in 1..Len(s) : s[k] = i
      /\ \A k, m \in 1..Len(s) : s[k] = s[m] => k = m
  BY NumberedOnce
<1>2. l \in Nat /\ all \in Seq(Inputs) /\ Len(all) = l + Len(s)
  BY <1>1, ConcatProperties
<1>3. \A k \in 1..Len(s) : all[k + l] = s[k]
  BY <1>1, <1>2
<1>4. DOMAIN all = 1..(l + Len(s)) /\ DOMAIN old = 1..l
  BY <1>1, <1>2
<1> HIDE DEF all, l
<1>5. /\ \A n \in new : n - l \in 1..Len(s) /\ n \in Int /\ (n - l) + l = n
      /\ \A k \in 1..Len(s) : k + l \in new
  BY <1>1, <1>2, <1>4 DEF l
<1>6. \A n \in new : all[n] = s[n - l]
  BY <1>3, <1>5
<1>7. \A n \in new : all[n] \in inputs
  <2>1. \A k \in 1..Len(s) : s[k] \in inputs
    BY <1>1
  <2> QED
    BY <1>5, <1>6, <2>1
<1>8. ASSUME NEW i \in inputs
      PROVE  \E n \in new : {m \in new : all[m] = i} = {n}
  <2>1. PICK k \in 1..Len(s) : s[k] = i
    BY <1>1
  <2>2. k + l \in new /\ all[k + l] = i
    BY <1>3, <1>5, <2>1
  <2>3. ASSUME NEW m \in new, all[m] = i PROVE m = k + l
    <3>1. m - l = k
      <4>1. m - l \in 1..Len(s)
        BY <1>5
      <4>2. s[m - l] = s[k]
        BY <1>6, <2>1, <2>3
      <4> QED
        BY <1>1, <4>1, <4>2
    <3> QED
      BY <1>5, <3>1
  <2> QED
    BY <2>2, <2>3
<1> QED
  BY <1>2, <1>7, <1>8, Zenon DEF all, l, OneEach, NewNums

LEMMA FinitePage ==
  ASSUME DateShortcutsAssumption, NEW inputs \in SUBSET Inputs
  PROVE  IsFiniteSet(inputs)
BY FS_Subset DEF DateShortcutsAssumption

-----------------------------------------------------------------------------
(* The invariant.                                                          *)

LEMMA ShortcutsInvInit ==
  ASSUME DateShortcutsAssumption, ShortcutInit
  PROVE  ShortcutsInv
<1>1. PICK inputs \in SUBSET Inputs :
        \E s \in Numbered(inputs) : page = inputs /\ numbers = s /\ linked = DOMAIN s
  BY DEF ShortcutInit
<1>2. PICK s \in Numbered(inputs) : page = inputs /\ numbers = s /\ linked = DOMAIN s
  BY <1>1
<1>3. IsFiniteSet(inputs)
  BY FinitePage
<1>4. /\ s \in Seq(inputs) /\ s \in Seq(Inputs) /\ DOMAIN s = 1..Len(s)
      /\ \A i \in inputs : \E k \in 1..Len(s) : s[k] = i
      /\ \A k, m \in 1..Len(s) : s[k] = s[m] => k = m
  BY <1>3, NumberedOnce
<1>5. ASSUME NEW i \in page PROVE \E n \in linked : OnlyLink(n, i)
  <2>1. PICK k \in 1..Len(s) : s[k] = i
    BY <1>2, <1>4
  <2> QED
    BY <1>2, <1>4, <2>1 DEF OnlyLink
<1>6. picked \in [Inputs -> Nat] /\ shown = {} /\ listening = {}
  BY DEF ShortcutInit
<1>7. \A n \in linked : numbers[n] \in page
  BY <1>2, <1>4
<1> QED
  BY <1>2, <1>4, <1>5, <1>6, <1>7 DEF ShortcutsInv, Nums, ShownBoxesListen

LEMMA AddKeepsInv ==
  ASSUME DateShortcutsAssumption, ShortcutsInv, NEW i \in Inputs, AddInput(i)
  PROVE  ShortcutsInv'
<1> DEFINE inputs == page \cup {i}
<1>1. inputs \in SUBSET Inputs /\ IsFiniteSet(inputs)
  BY FinitePage DEF ShortcutsInv
<1>2. PICK s \in Numbered(inputs) : numbers' = numbers \o s
  BY DEF AddInput, Reinit
<1>3. linked' = {n \in DOMAIN numbers' : n > Len(numbers)} /\ page' = inputs
  BY DEF AddInput, Reinit
<1> HIDE DEF inputs
<1>4. /\ numbers' \in Seq(Inputs)
      /\ \A n \in linked' : numbers'[n] \in inputs
      /\ \A j \in inputs : \E n \in linked' : {m \in linked' : numbers'[m] = j} = {n}
  <2>1. numbers \in Seq(Inputs)
    BY DEF ShortcutsInv
  <2>2. numbers \o s \in Seq(Inputs) /\ OneEach(numbers \o s, NewNums(numbers, s), inputs)
    BY <1>1, <2>1, NewLinks
  <2>3. linked' = NewNums(numbers, s)
    BY <1>2, <1>3 DEF NewNums
  <2> QED
    BY <1>2, <2>2, <2>3, Zenon DEF OneEach
<1>5. shown' = {} /\ picked' = picked
  BY DEF AddInput, Clicked, ShortcutsInv, ShownBoxesListen
<1>6. linked' \subseteq Nums'
  BY <1>3 DEF Nums
<1> QED
  BY <1>1, <1>3, <1>4, <1>5, <1>6 DEF ShortcutsInv, ShownBoxesListen, OnlyLink

LEMMA RemoveKeepsInv ==
  ASSUME ShortcutsInv, NEW i \in Inputs, RemoveInput(i)
  PROVE  ShortcutsInv'
<1>1. shown' = {} /\ picked' = picked /\ numbers' = numbers
  BY DEF RemoveInput, Clicked, ShortcutsInv, ShownBoxesListen
<1>2. page' = page \ {i} /\ linked' = {n \in linked : numbers[n] # i}
  BY DEF RemoveInput
<1>3. ASSUME NEW j \in page' PROVE \E n \in linked' : OnlyLink(n, j)'
  <2>1. PICK n \in linked : OnlyLink(n, j)
    BY <1>2 DEF ShortcutsInv
  <2>2. n \in linked'
    BY <1>2, <2>1 DEF OnlyLink
  <2>3. {m \in linked' : numbers[m] = j} = {m \in linked : numbers[m] = j}
    BY <1>2
  <2> QED
    BY <1>1, <2>1, <2>2, <2>3 DEF OnlyLink
<1> QED
  BY <1>1, <1>2, <1>3 DEF ShortcutsInv, ShownBoxesListen, Nums

(* A click in or beside a box, or elsewhere, leaves rows and links alone,  *)
(* opens boxes of the page only, and closes only with the listener.        *)
LEMMA ClickKeepsInv ==
  ASSUME ShortcutsInv, UNCHANGED <<page, numbers, linked>>,
         shown' \subseteq shown \cup linked, shown' \subseteq listening',
         picked' \in [Inputs -> Nat]
  PROVE  ShortcutsInv'
<1>1. \A n \in linked' \cup shown' : numbers'[n] \in page'
  BY DEF ShortcutsInv
<1>2. \A i \in page' : \E n \in linked' : OnlyLink(n, i)'
  BY DEF ShortcutsInv, OnlyLink
<1> QED
  BY <1>1, <1>2 DEF ShortcutsInv, ShownBoxesListen, Nums

LEMMA WriteTyped ==
  ASSUME ShortcutsInv, NEW n \in Nums, Writes(n)
  PROVE  picked' \in [Inputs -> Nat]
BY DEF ShortcutsInv, Writes, Nums

LEMMA ShortcutsInvInductive ==
  ASSUME DateShortcutsAssumption, ShortcutsInv, [ShortcutNext]_shortcutVars
  PROVE  ShortcutsInv'
<1> USE DEF ShownBoxesListen
<1>1. ASSUME NEW i \in Inputs, AddInput(i) \/ RemoveInput(i) PROVE ShortcutsInv'
  BY <1>1, AddKeepsInv, RemoveKeepsInv
<1>2. ASSUME NEW n \in Nums, Open(n) PROVE ShortcutsInv'
  BY <1>2, ClickKeepsInv DEF Open, ShortcutsInv
<1>3. ASSUME NEW n \in Nums, PickDay(n) PROVE ShortcutsInv'
  BY <1>3, ClickKeepsInv, WriteTyped DEF PickDay, ShortcutsInv
<1>4. ASSUME NEW n \in Nums, PickInBox(n) PROVE ShortcutsInv'
  BY <1>4, ClickKeepsInv, WriteTyped DEF PickInBox, Dismiss, ShortcutsInv
<1>5. ASSUME NEW n \in Nums, PickByLink(n) PROVE ShortcutsInv'
  BY <1>5, ClickKeepsInv, WriteTyped DEF PickByLink, Dismiss, ShortcutsInv
<1>6. ASSUME NEW n \in Nums, Cancel(n) PROVE ShortcutsInv'
  BY <1>6, ClickKeepsInv DEF Cancel, Dismiss, ShortcutsInv
<1>7. CASE Escape
  BY <1>7, ClickKeepsInv DEF Escape, Dismiss, ShortcutsInv
<1>8. CASE ClickElsewhere
  BY <1>8, ClickKeepsInv DEF ClickElsewhere, Clicked, ShortcutsInv
<1>9. CASE UNCHANGED shortcutVars
  BY <1>9, ClickKeepsInv DEF shortcutVars, ShortcutsInv
<1> QED
  BY <1>1, <1>2, <1>3, <1>4, <1>5, <1>6, <1>7, <1>8, <1>9 DEF ShortcutNext

LEMMA ShortcutsInvariant ==
  ASSUME DateShortcutsAssumption
  PROVE  ShortcutSpec => []ShortcutsInv
<1>1. ShortcutInit => ShortcutsInv
  BY ShortcutsInvInit
<1>2. ShortcutsInv /\ [ShortcutNext]_shortcutVars => ShortcutsInv'
  BY ShortcutsInvInductive
<1> QED
  BY <1>1, <1>2, PTL DEF ShortcutSpec

-----------------------------------------------------------------------------
(* openClock, openCalendar: for any inputs and numbers, a box that is      *)
(* displayed has its dismiss function on the document.                     *)
THEOREM DisplayedBoxesListen ==
  ASSUME DateShortcutsAssumption
  PROVE  ShortcutSpec => []ShownBoxesListen
<1>1. ShortcutsInv => ShownBoxesListen
  BY DEF ShortcutsInv
<1> QED
  BY <1>1, ShortcutsInvariant, PTL

(* DateTimeShortcuts.init, called again for each added row: every input of *)
(* the page has exactly one pair of links and no link is for another.      *)
THEOREM EachInputHasOneLink ==
  ASSUME DateShortcutsAssumption
  PROVE  ShortcutSpec => []OneLinkPerInput
<1>1. ASSUME ShortcutsInv PROVE OneLinkPerInput
  <2>1. ASSUME NEW i \in page PROVE Cardinality({n \in linked : numbers[n] = i}) = 1
    <3>1. PICK n \in linked : {m \in linked : numbers[m] = i} = {n}
      BY <1>1 DEF ShortcutsInv, OnlyLink
    <3> QED
      BY <3>1, FS_Singleton
  <2> QED
    BY <1>1, <2>1 DEF OneLinkPerInput, ShortcutsInv
<1> QED
  BY <1>1, ShortcutsInvariant, PTL

(* handleCalendarCallback, the quick links and the clock: no step writes   *)
(* into an input whose row was removed.                                    *)
THEOREM NoWriteOutsideThePage ==
  ASSUME DateShortcutsAssumption
  PROVE  ShortcutSpec => WritesGoToThePage
<1> DEFINE InPage == \A i \in Inputs : picked'[i] # picked[i] => i \in page
<1>1. ASSUME ShortcutsInv, NEW n \in shown \cup linked, Writes(n) PROVE InPage
  BY <1>1 DEF ShortcutsInv, Writes
<1>2. ASSUME ShortcutsInv, ShortcutNext PROVE InPage
  <2>1. CASE UNCHANGED picked
    BY <2>1
  <2>2. ASSUME NEW n \in Nums, PickDay(n) \/ PickInBox(n) \/ PickByLink(n) PROVE InPage
    BY <1>1, <1>2, <2>2 DEF PickDay, PickInBox, PickByLink
  <2> QED
    BY <1>2, <2>1, <2>2 DEF ShortcutNext, AddInput, RemoveInput, Open, Cancel, Escape, ClickElsewhere
<1>3. ShortcutsInv /\ [ShortcutNext]_shortcutVars => [InPage]_shortcutVars
  BY <1>2
<1> QED
  BY <1>3, ShortcutsInvariant, PTL DEF ShortcutSpec, WritesGoToThePage
-----------------------------------------------------------------------------
(* The calendar.                                                           *)

(* A day of the month in its year, from the year 100 on.                   *)
Exists(day) ==
  /\ day \in [d : Nat, m : 1..12, y : Nat] /\ day.y >= 100
  /\ day.d \in 1..GetDaysInMonth(day.m, day.y)

(* The text of a day.                                                      *)
Written(format, day) ==
  Text(format, day.d, day.m, IF HasFullYear(format) THEN day.y ELSE ShortYear(day.y))

(* The last click has left its day in the input, or, open again, marked.   *)
CalendarInv ==
  /\ order \in Formats /\ firstDay \in 0..6 /\ zone \in -12..14
  /\ month \in 1..12 /\ year \in Nat
  /\ value \in Seq(Nat)
  /\ clicked.y >= 1000 => Exists(clicked) /\ value = Written(order, clicked)
  /\ PickedDayIsRead

(* What the leap years of the script's table are for the browser's Date.   *)
LEMMA LeapDay ==
  ASSUME NEW y \in Nat \ {0}
  PROVE  LeapsBefore(y + 1) - LeapsBefore(y) = IF IsLeapYear(y) THEN 1 ELSE 0
<1>1. (y \div 4) - ((y - 1) \div 4) = IF y % 4 = 0 THEN 1 ELSE 0
  OBVIOUS
<1>2. (y \div 100) - ((y - 1) \div 100) = IF y % 100 = 0 THEN 1 ELSE 0
  OBVIOUS
<1>3. (y \div 400) - ((y - 1) \div 400) = IF y % 400 = 0 THEN 1 ELSE 0
  OBVIOUS
<1>4. (y % 400 = 0 => y % 100 = 0) /\ (y % 100 = 0 => y % 4 = 0)
  OBVIOUS
<1>5. LeapsBefore(y + 1) - LeapsBefore(y) =
        ((y \div 4) - ((y - 1) \div 4)) - ((y \div 100) - ((y - 1) \div 100))
          + ((y \div 400) - ((y - 1) \div 400))
  BY DEF LeapsBefore
<1> QED
  BY <1>1, <1>2, <1>3, <1>4, <1>5 DEF IsLeapYear

LEMMA LeapsTyped ==
  ASSUME NEW y \in Nat
  PROVE  LeapsBefore(y) \in Int /\ YearDay(y) \in Int
<1>1. LeapsBefore(y) \in Int
  BY DEF LeapsBefore
<1> QED
  BY <1>1 DEF YearDay

(* The days of a month are those up to the first of the next.              *)
LEMMA MonthLength ==
  ASSUME NEW m \in 1..12, NEW y \in Nat \ {0}
  PROVE  /\ MonthDay(m, y) \in Int
         /\ GetDaysInMonth(m, y) \in 28..31
         /\ MonthDay((m % 12) + 1, y + (m \div 12)) - MonthDay(m, y) = GetDaysInMonth(m, y)
<1> DEFINE leap == LeapsBefore(y + 1) - LeapsBefore(y)
<1>1. leap = IF IsLeapYear(y) THEN 1 ELSE 0
  BY LeapDay
<1>2. LeapsBefore(y) \in Int /\ LeapsBefore(y + 1) \in Int /\ YearDay(y) \in Int
      /\ YearDay(y + 1) = YearDay(y) + 365 + leap
  <2>1. LeapsBefore(y) \in Int /\ LeapsBefore(y + 1) \in Int
    BY LeapsTyped
  <2> QED
    BY <2>1 DEF YearDay
<1>3. leap \in Int
  BY <1>1
<1>4. \A k \in Nat : MonthDay(k, y) =
        YearDay(y) + CumulativeDays[k] + IF k > 2 THEN leap ELSE 0
  BY DEF MonthDay
<1>5. MonthDay(1, y + 1) = YearDay(y + 1) + 0
  BY <1>2 DEF MonthDay, CumulativeDays
<1> HIDE DEF leap
<1>6. CASE m = 1
  BY <1>1, <1>2, <1>3, <1>4, <1>6 DEF CumulativeDays, GetDaysInMonth
<1>7. CASE m = 2
  BY <1>1, <1>2, <1>3, <1>4, <1>7 DEF CumulativeDays, GetDaysInMonth
<1>8. CASE m \in {3, 4, 5, 6, 7}
  BY <1>1, <1>2, <1>3, <1>4, <1>8 DEF CumulativeDays, GetDaysInMonth
<1>9. CASE m \in {8, 9, 10, 11}
  BY <1>1, <1>2, <1>3, <1>4, <1>9 DEF CumulativeDays, GetDaysInMonth
<1>10. CASE m = 12
  BY <1>1, <1>2, <1>3, <1>4, <1>5, <1>10 DEF CumulativeDays, GetDaysInMonth
<1> QED
  BY <1>6, <1>7, <1>8, <1>9, <1>10

LEMMA FullYearLarge ==
  ASSUME NEW y \in Nat
  PROVE  FullYear(y) \in Nat /\ FullYear(y) >= 100 /\ (y >= 100 => FullYear(y) = y)
BY DEF FullYear

(* The numbers of a date that new Date makes are integers.                 *)
LEMMA MakeDateTyped ==
  ASSUME NEW d \in Nat, NEW m \in Nat, NEW y \in Nat
  PROVE  MakeDate(d, m, y).m \in Int /\ MakeDate(d, m, y).y \in Int
<1> DEFINE y1 == FullYear(y) + ((m - 1) \div 12)
           m1 == ((m - 1) % 12) + 1
           y2 == y1 + (m1 \div 12)
           m2 == (m1 % 12) + 1
           y0 == IF m1 = 1 THEN y1 - 1 ELSE y1
           m0 == IF m1 = 1 THEN 12 ELSE m1 - 1
           before == MonthDay(m1, y1) - MonthDay(m0, y0)
           length == MonthDay(m2, y2) - MonthDay(m1, y1)
<1>1. y1 \in Int /\ m1 \in 1..12
  BY FullYearLarge
<1> HIDE DEF y1, m1
<1>2. y2 \in Int /\ m2 \in Int /\ y0 \in Int /\ m0 \in Int
  BY <1>1
<1>3. MonthDay(m1, y1) \in Int /\ MonthDay(m2, y2) \in Int
  <2>1. \A k \in 1..12, z \in Int : MonthDay(k, z) \in Int
    BY DEF MonthDay, YearDay, LeapsBefore, CumulativeDays
  <2>2. m2 \in 1..12
    BY <1>1
  <2> HIDE DEF m2, y2
  <2> QED
    BY <1>1, <1>2, <2>1, <2>2
<1>4. MakeDate(d, m, y) \in {Date(d + before, m0, y0), Date(d, m1, y1), Date(d - length, m2, y2)}
  <2> DEFINE made == CASE d < 1 -> Date(d + before, m0, y0)
                       [] d \in 1..length -> Date(d, m1, y1)
                       [] d > length -> Date(d - length, m2, y2)
  <2>1. MakeDate(d, m, y) = made
    BY DEF MakeDate, y1, m1
  <2>2. length \in Int
    BY <1>3
  <2> HIDE DEF before, length, y2, m2, y0, m0
  <2>3. d < 1 \/ d \in 1..length \/ d > length
    BY <2>2
  <2> QED
    BY <2>1, <2>3
<1> HIDE DEF before, length, y2, m2, y0, m0
<1> QED
  BY <1>1, <1>2, <1>4 DEF Date

(* new Date of a day that exists is that day.                              *)
LEMMA MakeDateExact ==
  ASSUME NEW m \in 1..12, NEW y \in Nat, NEW d \in 1..GetDaysInMonth(m, FullYear(y))
  PROVE  MakeDate(d, m, y) = Date(d, m, FullYear(y))
<1> DEFINE y1 == FullYear(y)
<1>1. y1 \in Nat \ {0}
  BY FullYearLarge
<1>2. ((m - 1) \div 12) = 0 /\ ((m - 1) % 12) + 1 = m
  OBVIOUS
<1>3. y1 + ((m - 1) \div 12) = y1
  BY <1>1, <1>2
<1> HIDE DEF y1
<1>4. MonthDay((m % 12) + 1, y1 + (m \div 12)) - MonthDay(m, y1) = GetDaysInMonth(m, y1)
  BY <1>1, MonthLength, Zenon
<1>5. d \in 1..GetDaysInMonth(m, y1) /\ ~(d < 1) /\ GetDaysInMonth(m, y1) \in Int
  BY <1>1, MonthLength DEF y1
<1> QED
  BY <1>2, <1>3, <1>4, <1>5 DEF MakeDate, y1

-----------------------------------------------------------------------------
(* strftime writes what it is where the browser is, strptime what it is in *)
(* Greenwich.                                                              *)
LEMMA Midnights ==
  ASSUME NEW day
  PROVE  /\ zone \in -12..14 =>
              \A format : Strftime(format, Moment(day, -zone)) = Written(format, day)
         /\ UTCDay(Moment(day, 0)) = day
<1>1. zone \in -12..14 => LocalDay(Moment(day, -zone)) = day
  BY DEF LocalDay, DayThere, Moment
<1>2. UTCDay(Moment(day, 0)) = day
  BY DEF UTCDay, DayThere, Moment
<1> QED
  BY <1>1, <1>2 DEF Strftime, Written

(* The fields of a text are where the format has them.                     *)
LEMMA FieldsRead ==
  ASSUME NEW format \in Formats, NEW d, NEW m, NEW y
  PROVE  LET text == Text(format, d, m, y) IN
         /\ FieldOf(format, "%d", text) = d
         /\ FieldOf(format, "%m", text) = m
         /\ HasFullYear(format) => FieldOf(format, "%Y", text) = y
         /\ ~HasFullYear(format) => FieldOf(format, "%y", text) = y
<1> DEFINE text == Text(format, d, m, y)
<1>1. /\ \E i \in DOMAIN format : format[i] = "%d"
      /\ \E i \in DOMAIN format : format[i] = "%m"
      /\ ~HasFullYear(format) => \E i \in DOMAIN format : format[i] = "%y"
  BY DEF Formats, HasFullYear
<1>2. ASSUME NEW i \in DOMAIN format
      PROVE  /\ format[i] = "%d" => text[i] = d
             /\ format[i] = "%m" => text[i] = m
             /\ format[i] = "%Y" => text[i] = y
             /\ format[i] = "%y" => text[i] = y
  BY DEF Text
<1> HIDE DEF text
<1>3. FieldOf(format, "%d", text) = d
  BY <1>1, <1>2 DEF FieldOf
<1>4. FieldOf(format, "%m", text) = m
  BY <1>1, <1>2 DEF FieldOf
<1>5. HasFullYear(format) => FieldOf(format, "%Y", text) = y
  BY <1>2 DEF FieldOf, HasFullYear
<1>6. ~HasFullYear(format) => FieldOf(format, "%y", text) = y
  BY <1>1, <1>2 DEF FieldOf
<1> QED
  BY <1>3, <1>4, <1>5, <1>6 DEF text

(* A text of at least three numbers has a number for every field.          *)
LEMMA FieldsTyped ==
  ASSUME NEW format \in Formats, NEW text \in Seq(Nat), Len(text) >= 3
  PROVE  /\ FieldOf(format, "%d", text) \in Nat
         /\ FieldOf(format, "%m", text) \in Nat
         /\ HasFullYear(format) => FieldOf(format, "%Y", text) \in Nat
         /\ ~HasFullYear(format) => FieldOf(format, "%y", text) \in Nat
<1>1. \A i \in DOMAIN format : text[i] \in Nat
  BY DEF Formats
<1>2. /\ \E i \in DOMAIN format : format[i] = "%d"
      /\ \E i \in DOMAIN format : format[i] = "%m"
      /\ ~HasFullYear(format) => \E i \in DOMAIN format : format[i] = "%y"
  BY DEF Formats, HasFullYear
<1> QED
  BY <1>1, <1>2 DEF FieldOf, HasFullYear

(* A text of numbers is a sequence of them.                                *)
LEMMA TextTyped ==
  ASSUME NEW format \in Formats, NEW d \in Nat, NEW m \in Nat, NEW y \in Nat
  PROVE  Text(format, d, m, y) \in Seq(Nat) /\ Len(Text(format, d, m, y)) = 3
<1>1. format \in [1..3 -> {"%d", "%m", "%Y", "%y"}]
  BY DEF Formats
<1>2. Text(format, d, m, y) \in [1..3 -> Nat]
  BY <1>1 DEF Text
<1> DEFINE text == Text(format, d, m, y)
<1> HIDE DEF text
<1>3. text \in [1..3 -> Nat]
  BY <1>2 DEF text
<1>4. text \in Seq(Nat)
  BY <1>3, SeqDef
<1>5. Len(text) = 3
  BY <1>3, <1>4, LenProperties
<1> QED
  BY <1>4, <1>5 DEF text

(* What is left of a year when its first two digits are cut off.           *)
LEMMA ShortYearTyped ==
  ASSUME NEW y \in Nat
  PROVE  /\ ShortYear(y) \in Nat
         /\ y \in 1000..9999 => ShortYear(y) = y % 100 /\ ShortYear(y) \in 0..99
<1>1. y % 10 \in Nat /\ y % 100 \in 0..99 /\ y % 1000 \in Nat
  OBVIOUS
<1>2. ShortYear(y) \in {0, y % 10, y % 100, y % 1000}
  BY DEF ShortYear
<1>3. y \in 1000..9999 => ShortYear(y) = y % 100
  BY DEF ShortYear
<1> QED
  BY <1>1, <1>2, <1>3

(* A two-digit year stands for Date's years from 69 on, and for a century  *)
(* later before.                                                           *)
LEMMA ShortYearStandsFor ==
  ASSUME NEW z \in Nat, z <= 99
  PROVE  MakeDate(1, 1, z).y = 1900 + z
<1>1. FullYear(z) = 1900 + z
  BY DEF FullYear
<1>2. 1 \in 1..GetDaysInMonth(1, FullYear(z))
  BY DEF GetDaysInMonth
<1>3. MakeDate(1, 1, z) = Date(1, 1, FullYear(z))
  BY <1>2, MakeDateExact
<1> QED
  BY <1>1, <1>3 DEF Date

LEMMA ReadYearTyped ==
  ASSUME NEW format \in Formats, NEW text \in Seq(Nat), Len(text) >= 3
  PROVE  ReadYear(format, text) \in Nat
<1>1. ASSUME NEW yy \in Nat
      PROVE  (IF yy >= 69 THEN yy ELSE MakeDate(1, 1, yy).y + 100) \in Nat
  <2>1. CASE yy < 69
    <3>1. yy <= 99
      BY <2>1
    <3>2. MakeDate(1, 1, yy).y = 1900 + yy
      BY <3>1, ShortYearStandsFor
    <3> QED
      BY <2>1, <3>2
  <2> QED
    BY <2>1
<1>2. CASE HasFullYear(format)
  BY <1>2, FieldsTyped DEF ReadYear
<1>3. CASE ~HasFullYear(format)
  <2>1. FieldOf(format, "%y", text) \in Nat
    BY <1>3, FieldsTyped
  <2> QED
    BY <1>1, <1>3, <2>1 DEF ReadYear
<1> QED
  BY <1>2, <1>3

(* The text that strftime writes for a day that exists is read as that day,*)
(* with two-digit years from 1969 to 2068.                                 *)
LEMMA WrittenIsRead ==
  ASSUME NEW format \in Formats, NEW day, Exists(day), day.y >= 1000,
         day.y \in 1969..2068 \/ HasFullYear(format)
  PROVE  LET text == Written(format, day) IN
         Len(text) = 3 /\ Strptime(format, text) = Moment(day, 0)
<1> DEFINE short == ShortYear(day.y)
           y     == IF HasFullYear(format) THEN day.y ELSE short
           text  == Written(format, day)
<1>1. day.d \in Nat /\ day.m \in 1..12 /\ day.y \in Nat
  BY DEF Exists
<1>2. text = Text(format, day.d, day.m, y)
  BY DEF Written
<1>3. ASSUME day.y \in 1969..2068 PROVE short \in 0..99 /\ short = day.y % 100
  <2>1. ShortYear(day.y) = day.y % 100
    BY <1>1, <1>3 DEF ShortYear
  <2> QED
    BY <1>1, <2>1
<1>4. y \in Nat
  <2>1. short \in Nat
    BY <1>1, ShortYearTyped
  <2> HIDE DEF short
  <2> QED
    BY <1>1, <2>1
<1> HIDE DEF text, y
<1>5. Len(text) = 3
  <2>1. day.m \in Nat
    BY <1>1
  <2> QED
    BY <1>1, <1>2, <1>4, <2>1, TextTyped
<1>6. FieldOf(format, "%d", text) = day.d /\ FieldOf(format, "%m", text) = day.m
  BY <1>2, FieldsRead
<1>7. FullYear(ReadYear(format, text)) = day.y /\ ReadYear(format, text) \in Nat
  <2>1. CASE HasFullYear(format)
    <3>1. ReadYear(format, text) = day.y
      BY <1>2, <2>1, FieldsRead DEF ReadYear, y
    <3> QED
      BY <1>1, <3>1 DEF FullYear
  <2>2. CASE ~HasFullYear(format)
    <3>1. day.y \in 1969..2068 /\ short \in 0..99 /\ short = day.y % 100
      BY <1>3, <2>2
    <3>2. ReadYear(format, text) = IF short >= 69 THEN short ELSE MakeDate(1, 1, short).y + 100
      BY <1>2, <2>2, FieldsRead DEF ReadYear, y
    <3> HIDE DEF short
    <3>3. MakeDate(1, 1, short).y = 1900 + short
      <4>1. short \in Nat /\ short <= 99
        BY <3>1
      <4> QED
        BY <4>1, ShortYearStandsFor
    <3>4. CASE short >= 69
      <4>1. day.y = 1900 + short
        BY <1>1, <3>1, <3>4
      <4> QED
        BY <3>1, <3>2, <3>4, <4>1 DEF FullYear
    <3>5. CASE short < 69
      <4>1. day.y = 2000 + short
        BY <1>1, <3>1, <3>5
      <4>2. ReadYear(format, text) = 2000 + short
        BY <3>1, <3>2, <3>3, <3>5
      <4> QED
        BY <3>1, <4>1, <4>2 DEF FullYear
    <3> QED
      BY <3>1, <3>4, <3>5
  <2> QED
    BY <2>1, <2>2
<1>8. MakeDate(day.d, day.m, ReadYear(format, text)) = Date(day.d, day.m, day.y)
  BY <1>1, <1>7, MakeDateExact DEF Exists
<1>9. Date(day.d, day.m, day.y) = day
  BY DEF Exists, Date
<1>10. Strptime(format, text) = Moment(day, 0)
  BY <1>6, <1>8, <1>9 DEF Strptime, UTCDate
<1> QED
  BY <1>5, <1>10 DEF text

-----------------------------------------------------------------------------
(* Opening the calendar marks the day that was clicked.                    *)
LEMMA OpenCalendarKeepsInv ==
  ASSUME CalendarInv, OpenCalendar
  PROVE  CalendarInv'
<1> USE DEF CalendarInv
<1> DEFINE read == Strptime(order, value)
<1>1. UNCHANGED <<order, firstDay, zone, value, clicked>>
  BY DEF OpenCalendar
<1>2. month' \in 1..12 /\ year' \in Nat
  <2>1. CASE Drawable(value)
    <3>1. month' = UTCDay(read).m /\ year' = UTCDay(read).y
      BY <2>1 DEF OpenCalendar
    <3>2. UTCDay(read).y >= 1000 /\ UTCDay(read).m \in 1..12 /\ Len(value) >= 3
      BY <2>1 DEF Drawable
    <3>3. UTCDay(read).y \in Int
      <4>1. /\ FieldOf(order, "%d", value) \in Nat /\ FieldOf(order, "%m", value) \in Nat
            /\ ReadYear(order, value) \in Nat
        BY <3>2, FieldsTyped, ReadYearTyped
      <4> DEFINE made == MakeDate(FieldOf(order, "%d", value), FieldOf(order, "%m", value),
                                  ReadYear(order, value))
      <4>2. made.y \in Int
        BY <4>1, MakeDateTyped
      <4>3. UTCDay(read) = made
        BY Midnights DEF Strptime, UTCDate
      <4> QED
        BY <4>2, <4>3
    <3> HIDE DEF read
    <3> QED
      BY <3>1, <3>2, <3>3
  <2>2. CASE ~Drawable(value)
    BY <2>2 DEF OpenCalendar
  <2> QED
    BY <2>1, <2>2
<1>3. ASSUME clicked.y >= 1000, clicked.y \in 1969..2068 \/ HasFullYear(order)
      PROVE  SelectedDay' = clicked
  <2>1. Exists(clicked) /\ value = Written(order, clicked)
    BY <1>3
  <2>2. Len(value) = 3 /\ read = Moment(clicked, 0)
    BY <1>3, <2>1, WrittenIsRead
  <2>3. UTCDay(read) = clicked
    BY <2>2, Midnights
  <2>4. Drawable(value)
    <3>1. clicked.m \in 1..12
      BY <2>1 DEF Exists
    <3>2. UTCDay(Strptime(order, value)) = clicked
      BY <2>3
    <3> QED
      BY <1>3, <2>2, <3>1, <3>2 DEF Drawable
  <2>5. selected' = read
    BY <2>4 DEF OpenCalendar
  <2> QED
    BY <2>3, <2>5 DEF SelectedDay, UTCDay, DayThere
<1>4. (clicked.y >= 1000 => Exists(clicked) /\ value = Written(order, clicked))'
  BY <1>1
<1>5. PickedDayIsRead'
  BY <1>1, <1>3 DEF PickedDayIsRead
<1> QED
  BY <1>1, <1>2, <1>4, <1>5

(* What new Date makes of a cell's numbers can be written.                 *)
LEMMA CellTyped ==
  ASSUME NEW d \in 1..31, NEW m \in 1..12, NEW y \in Nat
  PROVE  LET made == MakeDate(d, m, y) IN made.d \in Nat /\ made.m \in Nat /\ made.y \in Nat
<1> DEFINE y1 == FullYear(y)
           y2 == y1 + (m \div 12)
           m2 == (m % 12) + 1
           length == MonthDay(m2, y2) - MonthDay(m, y1)
           made == MakeDate(d, m, y)
<1>1. y1 \in Nat \ {0} /\ y2 \in Nat /\ m2 \in Nat
  BY FullYearLarge
<1>2. y1 + ((m - 1) \div 12) = y1 /\ ((m - 1) % 12) + 1 = m
  BY <1>1
<1>3. length \in Nat
  <2>1. length = GetDaysInMonth(m, y1) /\ GetDaysInMonth(m, y1) \in 28..31
    BY <1>1, MonthLength, Zenon
  <2> QED
    BY <2>1
<1> HIDE DEF y1
<1>4. made = IF d \in 1..length THEN Date(d, m, y1) ELSE Date(d - length, m2, y2)
  <2>1. length \in Nat => ~(d < 1) /\ (d \in 1..length \/ d > length) /\ ~(d \in 1..length /\ d > length)
    <3> HIDE DEF length
    <3> QED
      OBVIOUS
  <2> QED
    BY <1>2, <1>3, <2>1 DEF MakeDate, y1
<1> HIDE DEF length, y2, m2
<1>5. /\ made.d = IF d \in 1..length THEN d ELSE d - length
      /\ made.m = IF d \in 1..length THEN m ELSE m2
      /\ made.y = IF d \in 1..length THEN y1 ELSE y2
  BY <1>4 DEF Date
<1> HIDE DEF made
<1>6. made.d \in Nat /\ made.m \in Nat /\ made.y \in Nat
  BY <1>1, <1>3, <1>5
<1> QED
  BY <1>6 DEF made

(* A click writes the day of the cell.                                     *)
LEMMA ClickDayKeepsInv ==
  ASSUME CalendarInv, NEW d \in Days, ClickDay(d)
  PROVE  CalendarInv'
<1> DEFINE made == MakeDate(d, month, year)
<1>1. /\ order \in Formats /\ zone \in -12..14 /\ month \in 1..12 /\ year \in Nat
  BY DEF CalendarInv
<1>2. /\ d \in 1..GetDaysInMonth(month, year) /\ clicked' = Date(d, month, year)
      /\ value' = Written(order, made) /\ displayed' = FALSE
      /\ UNCHANGED <<order, firstDay, zone, month, year, selected>>
  BY <1>1, Midnights DEF ClickDay, LocalDate
<1>3. d \in 1..31
  BY <1>1, <1>2 DEF GetDaysInMonth
<1>4. value' \in Seq(Nat)
  <2>1. made.d \in Nat /\ made.m \in Nat /\ made.y \in Nat
    BY <1>1, <1>3, CellTyped
  <2> HIDE DEF made
  <2>2. ShortYear(made.y) \in Nat
    BY <2>1, ShortYearTyped
  <2>3. value' = Text(order, made.d, made.m, IF HasFullYear(order) THEN made.y ELSE ShortYear(made.y))
    BY <1>2 DEF Written
  <2> QED
    BY <1>1, <2>1, <2>2, <2>3, TextTyped
<1>5. ASSUME clicked'.y >= 1000
      PROVE  Exists(clicked') /\ value' = Written(order, clicked')
  <2>1. clicked'.d = d /\ clicked'.m = month /\ clicked'.y = year
    BY <1>2 DEF Date
  <2>2. clicked' \in [d : Nat, m : 1..12, y : Nat]
    BY <1>1, <1>2, <1>3 DEF Date
  <2>3. year >= 1000 /\ FullYear(year) = year
    BY <1>1, <1>5, <2>1 DEF FullYear
  <2>4. Exists(clicked')
    BY <1>1, <1>2, <2>1, <2>2, <2>3 DEF Exists
  <2>5. made = Date(d, month, year)
    BY <1>1, <1>2, <2>3, MakeDateExact
  <2> QED
    BY <1>2, <2>4, <2>5
<1>6. (clicked.y >= 1000 => Exists(clicked) /\ value = Written(order, clicked))'
  BY <1>2, <1>5
<1>7. PickedDayIsRead'
  BY <1>2 DEF PickedDayIsRead
<1> QED
  BY <1>2, <1>4, <1>6, <1>7 DEF CalendarInv

(* The other steps leave the day that is marked, and forget the click when *)
(* the text is changed.                                                    *)
LEMMA CalendarInvInductive ==
  ASSUME CalendarInv, [CalendarNext]_calendarVars
  PROVE  CalendarInv'
<1> DEFINE Same == UNCHANGED <<order, firstDay, zone, selected>>
<1>1. /\ order \in Formats /\ month \in 1..12 /\ year \in Nat
  BY DEF CalendarInv
<1>2. ASSUME Same, UNCHANGED <<value, clicked>>, month' \in 1..12, year' \in Nat, displayed' => displayed
      PROVE  CalendarInv'
  <2>1. SelectedDay' = SelectedDay
    BY <1>2 DEF SelectedDay, UTCDay, DayThere
  <2> QED
    BY <1>2, <2>1 DEF CalendarInv, PickedDayIsRead
<1>3. ASSUME NEW text \in Seq(Nat), TypeText(text)
      PROVE  CalendarInv'
  <2>1. clicked'.y = 0
    BY <1>3 DEF TypeText, noDate
  <2> QED
    BY <1>3, <2>1 DEF TypeText, CalendarInv, PickedDayIsRead
<1>4. CASE DismissCalendar
  BY <1>1, <1>2, <1>4 DEF DismissCalendar
<1>5. CASE DrawPreviousMonth \/ DrawNextMonth
  <2>1. month' \in 1..12 /\ year' \in Nat
    BY <1>1, <1>5, CalendarAssumption DEF DrawPreviousMonth, DrawNextMonth
  <2> QED
    BY <1>2, <1>5, <2>1 DEF DrawPreviousMonth, DrawNextMonth
<1>6. ASSUME NEW date \in Typed, TypeDate(date)
      PROVE  CalendarInv'
  <2>1. date.d \in Nat /\ date.m \in Nat /\ date.y \in Nat
    BY CalendarAssumption
  <2> QED
    BY <1>1, <1>3, <1>6, <2>1, TextTyped DEF TypeDate
<1>7. CASE TypeOther
  <2>1. <<0>> \in Seq(Nat) /\ TypeText(<<0>>)
    BY <1>7 DEF TypeOther
  <2> QED
    BY <1>3, <2>1
<1>8. CASE UNCHANGED calendarVars
  BY <1>1, <1>2, <1>8 DEF calendarVars
<1> QED
  BY <1>4, <1>5, <1>6, <1>7, <1>8, OpenCalendarKeepsInv, ClickDayKeepsInv DEF CalendarNext

LEMMA CalendarInvariant == CalendarSpec => []CalendarInv
<1>1. CalendarInit => CalendarInv
  <2> SUFFICES ASSUME CalendarInit PROVE CalendarInv
    OBVIOUS
  <2>1. /\ month \in 1..12 /\ year \in Nat /\ firstDay \in 0..6 /\ zone \in -12..14
        /\ order \in Formats /\ value = <<>>
    BY CalendarAssumption DEF CalendarInit
  <2>2. clicked.y = 0
    BY DEF CalendarInit, noDate
  <2> QED
    BY <2>1, <2>2 DEF CalendarInv, PickedDayIsRead
<1>2. CalendarInv /\ [CalendarNext]_calendarVars => CalendarInv'
  BY CalendarInvInductive
<1> QED
  BY <1>1, <1>2, PTL DEF CalendarSpec

(* The calendar stays in the years it is moved through, or in one with     *)
(* four digits that was read.                                              *)
YearsInv == year >= 100

LEMMA YearsDrawn ==
  ASSUME Today.y >= 100, \A y \in Years : y >= 100
  PROVE  CalendarSpec => []YearsInv
<1>1. CalendarInit => YearsInv
  BY DEF CalendarInit, YearsInv
<1>2. ASSUME CalendarInv, YearsInv, [CalendarNext]_calendarVars PROVE YearsInv'
  <2>1. CASE OpenCalendar
    <3>1. year' \in Nat
      BY <1>2, CalendarInvInductive DEF CalendarInv
    <3>2. year' = year \/ year' >= 1000
      BY <2>1 DEF OpenCalendar, Drawable
    <3> QED
      BY <1>2, <3>1, <3>2 DEF YearsInv
  <2>2. CASE DrawPreviousMonth \/ DrawNextMonth
    BY <2>2 DEF DrawPreviousMonth, DrawNextMonth, YearsInv
  <2>3. CASE UNCHANGED year
    BY <1>2, <2>3 DEF YearsInv
  <2> QED
    BY <1>2, <2>1, <2>2, <2>3
       DEF CalendarNext, DismissCalendar, ClickDay, TypeDate, TypeOther, TypeText, calendarVars
<1>3. CalendarInv /\ YearsInv /\ [CalendarNext]_calendarVars => YearsInv'
  BY <1>2
<1> QED
  BY <1>1, <1>3, CalendarInvariant, PTL DEF CalendarSpec

(* calendar.js draw, getDaysInMonth: the weekdays of a month go on where   *)
(* those of the month before ended, in every year from 100 on.             *)
THEOREM EveryMonthJoinsUp ==
  ASSUME Today.y >= 100, \A y \in Years : y >= 100
  PROVE  CalendarSpec => []MonthsJoinUp
<1>1. ASSUME CalendarInv, YearsInv
      PROVE  MonthsJoinUp
  <2> DEFINE days == GetDaysInMonth(month, year)
             m2   == (month % 12) + 1
             y2   == year + (month \div 12)
             a    == MonthDay(month, year) + 1 - YearDay(1)
             b    == MonthDay(m2, y2) + 1 - YearDay(1)
  <2>1. month \in 1..12 /\ year \in Nat \ {0} /\ year >= 100 /\ firstDay \in Int
    BY <1>1 DEF CalendarInv, YearsInv
  <2>2. m2 \in 1..12 /\ y2 \in Nat \ {0} /\ y2 >= 100
    BY <2>1
  <2>3. FullYear(year) = year /\ FullYear(y2) = y2
    BY <2>1, <2>2, FullYearLarge
  <2>4. /\ MonthDay(month, year) \in Int /\ MonthDay(m2, y2) \in Int /\ days \in Int
        /\ MonthDay(m2, y2) - MonthDay(month, year) = days /\ YearDay(1) \in Int
    <3>1. /\ MonthDay(month, year) \in Int /\ days \in 28..31
          /\ MonthDay(m2, y2) - MonthDay(month, year) = days
      BY <2>1, MonthLength, Zenon
    <3>2. YearDay(1) \in Int
      BY LeapsTyped
    <3> HIDE DEF m2, y2, days
    <3>3. MonthDay(m2, y2) \in Int
      BY <2>2, MonthLength
    <3> QED
      BY <3>1, <3>2, <3>3
  <2>5. /\ StartingPos(month, year) = ((a % 7) - firstDay) % 7
        /\ StartingPos(m2, y2) = ((b % 7) - firstDay) % 7
    BY <2>3 DEF StartingPos, GetDay
  <2> HIDE DEF days, m2, y2
  <2>6. a \in Int /\ b = a + days
    BY <2>4
  <2> HIDE DEF a, b
  <2>7. ((((a % 7) - firstDay) % 7) + days) % 7 = ((b % 7) - firstDay) % 7
    BY <2>1, <2>4, <2>6
  <2> QED
    BY <2>5, <2>7 DEF MonthsJoinUp, days, m2, y2
<1> QED
  BY <1>1, CalendarInvariant, YearsDrawn, PTL

(* DateTimeShortcuts.js handleCalendarCallback, openCalendar, core.js      *)
(* strftime, strptime, calendar.js draw: for any time zone the day that is *)
(* clicked is the one that is marked when the calendar is opened again,    *)
(* from the year 1000 on, and with two-digit years from 1969 to 2068.      *)
THEOREM ClickedDayIsMarked == CalendarSpec => []PickedDayIsRead
<1>1. CalendarInv => PickedDayIsRead
  BY DEF CalendarInv
<1> QED
  BY <1>1, CalendarInvariant, PTL
=============================================================================
