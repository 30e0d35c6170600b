--------------------------- MODULE LandingPageProofs ---------------------------
(***************************************************************************)
(* The landing page.  Its form, for any number of requests: a visitor who  *)
(* only clicks never has two requests under way (LandingForm).  Its field, *)
(* for numbers of any length and strings of any length: what the form      *)
(* sends is accepted as it is, and blanks around it do not matter          *)
(* (PhoneNumber).                                                          *)
(***************************************************************************)
EXTENDS PhoneNumber, LandingForm, FiniteSetTheorems, SequenceTheorems, WellFoundedInduction, TLAPS

-----------------------------------------------------------------------------
(* The form.                                                               *)

(* Without Enter the button knows whether there is a request.  The set of  *)
(* requests is described without Cardinality: a step is then first-order.  *)
Alone ==
  ~eager => \/ pending = {} /\ disabled = FALSE
            \/ disabled = TRUE /\ \E r \in pending : pending = {r}

(* submitPhone, entered with no request under way, sends one and disables. *)
LEMMA SubmitPhoneAlone ==
  ASSUME pending = {}, disabled = FALSE, SubmitPhone
  PROVE  \/ pending' = {} /\ disabled' = FALSE
         \/ disabled' = TRUE /\ \E r \in pending' : pending' = {r}
BY DEF SubmitPhone

(* Alone is inductive.                                                     *)
LEMMA AloneInductive ==
  ASSUME Alone, [FormNext]_formVars
  PROVE  Alone'
<1>1. CASE Click
  <2> SUFFICES ASSUME ~eager PROVE Alone'
    BY <1>1 DEF Alone, Click
  <2>1. pending = {} /\ disabled = FALSE
    BY <1>1 DEF Alone, Click
  <2> QED
    BY <1>1, <2>1, SubmitPhoneAlone DEF Alone, Click
<1>2. CASE Enter
  <2> SUFFICES ASSUME ~eager' PROVE Alone'
    BY DEF Alone
  <2>1. ~eager /\ pending = {}
    BY <1>2 DEF Enter
  <2>2. disabled = FALSE
    BY <2>1 DEF Alone
  <2> QED
    BY <1>2, <2>1, <2>2, SubmitPhoneAlone DEF Alone, Enter
<1>3. ASSUME NEW r \in pending, NEW answer \in Replies, Answer(r, answer)
      PROVE  Alone'
  BY <1>3 DEF Alone, Answer
<1>4. ASSUME NEW text \in FieldTexts, Edit(text)
      PROVE  Alone'
  BY <1>4 DEF Alone, Edit
<1>5. CASE UNCHANGED formVars
  BY <1>5 DEF Alone, formVars
<1> QED
  BY <1>1, <1>2, <1>3, <1>4, <1>5 DEF FormNext, Answered

LEMMA AloneInvariant == FormSpec => []Alone
<1>1. FormInit => Alone
  BY DEF FormInit, Alone
<1> QED
  BY <1>1, AloneInductive, PTL DEF FormSpec

(* landing.html submitPhone, submitBtn.disabled: until Enter is pressed    *)
(* during a request there is at most one, and exactly while the button is  *)
(* disabled, whatever the answers are and however they are ordered.        *)
THEOREM ClicksNeverOverlap == FormSpec => []ClicksDoNotOverlap
<1>1. Alone => ClicksDoNotOverlap
  <2> SUFFICES ASSUME Alone, ~eager
               PROVE  Cardinality(pending) <= 1 /\ (disabled <=> pending # {})
    BY DEF ClicksDoNotOverlap
  <2>1. CASE pending = {} /\ disabled = FALSE
    BY <2>1, FS_EmptySet
  <2>2. CASE disabled = TRUE /\ \E r \in pending : pending = {r}
    <3>1. PICK r \in pending : pending = {r}
      BY <2>2
    <3>2. Cardinality(pending) = 1
      BY <3>1, FS_Singleton
    <3> QED
      BY <2>2, <3>1, <3>2
  <2> QED
    BY <2>1, <2>2 DEF Alone
<1> QED
  BY <1>1, AloneInvariant, PTL

-----------------------------------------------------------------------------
(* The first and the last of finitely many positions.                      *)
Less == {p \in Nat \X Nat : p[1] < p[2]}

LEMMA LessWellFounded == IsWellFoundedOn(Less, Nat)
<1>1. OpToRel(<, Nat) = Less
  BY DEF OpToRel, Less
<1> QED
  BY <1>1, NatLessThanWellFounded

LEMMA MinIsLeast ==
  ASSUME NEW T, T \subseteq Nat, T # {}
  PROVE  Min(T) \in T /\ \A y \in T : Min(T) <= y
<1>1. PICK x \in T : \A y \in T : ~ (<<y, x>> \in Less)
  BY WFMin, LessWellFounded
<1>2. \A y \in T : x <= y
  <2> TAKE y \in T
  <2>1. y < x => <<y, x>> \in Less
    BY DEF Less
  <2> QED
    BY <1>1, <2>1
<1> QED
  BY <1>2 DEF Min

LEMMA MaxIsGreatest ==
  ASSUME NEW n \in Nat, NEW T, T \subseteq 1..n, T # {}
  PROVE  Max(T) \in T /\ \A y \in T : y <= Max(T)
<1> DEFINE M == {m \in 0..n : n - m \in T}
<1>1. M \subseteq Nat
  OBVIOUS
<1>2. M \subseteq Nat /\ M # {}
  <2>1. PICK x \in T : TRUE
    OBVIOUS
  <2>2. n - x \in 0..n /\ n - (n - x) = x
    OBVIOUS
  <2>3. n - x \in M
    BY <2>2
  <2> HIDE DEF M
  <2> QED
    BY <1>1, <2>3
<1>3. n - Min(M) \in T /\ \A m \in M : Min(M) <= m
  BY <1>2, MinIsLeast
<1>4. \A y \in T : n - y \in M
  OBVIOUS
<1>5. Min(M) \in 0..n
  BY <1>2, MinIsLeast
<1>6. \A y \in T : y <= n - Min(M)
  <2> TAKE y \in T
  <2>1. Min(M) <= n - y
    BY <1>3, <1>4
  <2> QED
    BY <1>5, <2>1
<1> HIDE DEF M
<1>7. \E x \in T : \A y \in T : x >= y
  BY <1>3, <1>5, <1>6
<1> QED
  BY <1>7 DEF Max

-----------------------------------------------------------------------------
(* strip() keeps what lies between the first and the last solid character. *)
SolidEnds(s, a, b) ==
  /\ a \in DOMAIN s /\ b \in DOMAIN s
  /\ s[a] # "blank" /\ s[b] # "blank"
  /\ \A i \in DOMAIN s : s[i] # "blank" => a <= i /\ i <= b

LEMMA StripIs ==
  ASSUME NEW C, NEW s \in Seq(C), NEW a, NEW b, SolidEnds(s, a, b)
  PROVE  /\ Strip(s) = SubSeq(s, a, b) /\ Strip(s) \in Seq(C)
         /\ a \in 1..Len(s) /\ b \in a..Len(s)
         /\ Len(Strip(s)) = b - a + 1
         /\ \A i \in 1..(b - a + 1) : Strip(s)[i] = s[a + i - 1]
<1> DEFINE solid == {i \in DOMAIN s : s[i] # "blank"}
<1>1. /\ Len(s) \in Nat /\ DOMAIN s = 1..Len(s)
      /\ a \in solid /\ b \in solid /\ \A i \in solid : a <= i /\ i <= b
      /\ solid \subseteq 1..Len(s) /\ solid \subseteq Nat /\ solid # {}
  BY DEF SolidEnds
<1>2. Strip(s) = SubSeq(s, Min(solid), Max(solid))
  BY <1>1 DEF Strip
<1> HIDE DEF solid
<1>3. Min(solid) = a /\ Max(solid) = b
  <2>1. Min(solid) \in solid /\ Min(solid) <= a
    BY <1>1, MinIsLeast
  <2>2. Max(solid) \in solid /\ b <= Max(solid)
    BY <1>1, MaxIsGreatest
  <2>3. a <= Min(solid) /\ Max(solid) <= b
    BY <1>1, <2>1, <2>2
  <2>4. {a, b, Min(solid), Max(solid)} \subseteq Nat
    BY <1>1, <2>1, <2>2
  <2> QED
    BY <2>1, <2>2, <2>3, <2>4
<1>4. a \in 1..Len(s) /\ b \in a..Len(s)
  BY <1>1
<1>5. Strip(s) = SubSeq(s, a, b)
  BY <1>2, <1>3
<1> QED
  BY <1>4, <1>5, SubSeqProperties

LEMMA StripOfBlanks ==
  ASSUME NEW s, \A i \in DOMAIN s : s[i] = "blank"
  PROVE  Strip(s) = <<>>
BY DEF Strip

LEMMA SolidOrBlank ==
  ASSUME NEW C, NEW s \in Seq(C)
  PROVE  (\A i \in DOMAIN s : s[i] = "blank") \/ \E a, b \in DOMAIN s : SolidEnds(s, a, b)
<1> DEFINE solid == {i \in DOMAIN s : s[i] # "blank"}
<1>1. /\ Len(s) \in Nat /\ DOMAIN s = 1..Len(s)
      /\ solid \subseteq 1..Len(s) /\ solid \subseteq Nat
  OBVIOUS
<1>2. ASSUME solid # {}
      PROVE  \E a, b \in DOMAIN s : SolidEnds(s, a, b)
  <2> HIDE DEF solid
  <2>1. Min(solid) \in solid /\ \A i \in solid : Min(solid) <= i
    BY <1>1, <1>2, MinIsLeast
  <2>2. Max(solid) \in solid /\ \A i \in solid : i <= Max(solid)
    BY <1>1, <1>2, MaxIsGreatest
  <2>3. SolidEnds(s, Min(solid), Max(solid))
    BY <2>1, <2>2 DEF SolidEnds, solid
  <2> QED
    BY <2>3 DEF SolidEnds
<1> QED
  BY <1>2

(* Stripping twice is stripping once.                                      *)
LEMMA StripTwice ==
  ASSUME NEW C, NEW s \in Seq(C)
  PROVE  Strip(s) \in Seq(C) /\ Strip(Strip(s)) = Strip(s)
<1>1. CASE \A i \in DOMAIN s : s[i] = "blank"
  <2>1. Strip(s) = <<>>
    BY <1>1, StripOfBlanks
  <2>2. Strip(<<>>) = <<>>
    BY StripOfBlanks
  <2> QED
    BY <2>1, <2>2
<1>2. ASSUME NEW a \in DOMAIN s, NEW b \in DOMAIN s, SolidEnds(s, a, b)
      PROVE  Strip(s) \in Seq(C) /\ Strip(Strip(s)) = Strip(s)
  <2> DEFINE v == Strip(s)
  <2>1. /\ v \in Seq(C) /\ a \in 1..Len(s) /\ b \in a..Len(s) /\ Len(s) \in Nat
        /\ Len(v) = b - a + 1
        /\ \A i \in 1..(b - a + 1) : v[i] = s[a + i - 1]
    BY <1>2, StripIs
  <2> HIDE DEF v
  <2>2. v[1] = s[a] /\ v[Len(v)] = s[b] /\ DOMAIN v = 1..Len(v) /\ Len(v) \in Nat \ {0}
    BY <2>1
  <2>3. SolidEnds(v, 1, Len(v))
    BY <1>2, <2>2 DEF SolidEnds
  <2>4. Strip(v) = SubSeq(v, 1, Len(v))
    <3>1. \A b2 : SolidEnds(v, 1, b2) => Strip(v) = SubSeq(v, 1, b2)
      BY <2>1, StripIs
    <3> QED
      BY <2>3, <3>1
  <2>5. SubSeq(v, 1, Len(v)) = v
    BY <2>1, SubSeqFull
  <2> QED
    BY <2>1, <2>4, <2>5 DEF v
<1> QED
  BY <1>1, <1>2, SolidOrBlank

(* A blank before and one after it make no difference to what is kept.     *)
LEMMA StripPadded ==
  ASSUME NEW C, "blank" \in C, NEW s \in Seq(C)
  PROVE  Strip(<<"blank">> \o s \o <<"blank">>) = Strip(s)
<1> DEFINE p == <<"blank">> \o s \o <<"blank">>
<1>1. /\ Len(s) \in Nat /\ DOMAIN s = 1..Len(s)
      /\ p \in Seq(C) /\ Len(p) = Len(s) + 2 /\ DOMAIN p = 1..(Len(s) + 2)
      /\ p[1] = "blank" /\ p[Len(s) + 2] = "blank"
      /\ \A i \in 1..Len(s) : p[i + 1] = s[i]
  <2>1. <<"blank">> \in Seq(C) /\ Len(<<"blank">>) = 1 /\ <<"blank">>[1] = "blank"
    OBVIOUS
  <2>2. /\ <<"blank">> \o s \in Seq(C) /\ Len(<<"blank">> \o s) = Len(s) + 1
        /\ (<<"blank">> \o s)[1] = "blank"
        /\ \A i \in 1..Len(s) : (<<"blank">> \o s)[i + 1] = s[i]
    BY <2>1, ConcatProperties
  <2> QED
    BY <2>1, <2>2, ConcatProperties
<1> HIDE DEF p
<1>2. \A k \in DOMAIN p : p[k] = "blank" \/ (k - 1 \in DOMAIN s /\ p[k] = s[k - 1])
  <2> TAKE k \in DOMAIN p
  <2>1. k = 1 \/ k = Len(s) + 2 \/ (k - 1 \in 1..Len(s) /\ (k - 1) + 1 = k)
    BY <1>1
  <2> QED
    BY <1>1, <2>1
<1>3. CASE \A i \in DOMAIN s : s[i] = "blank"
  BY <1>2, <1>3, StripOfBlanks DEF p
<1>4. ASSUME NEW a \in DOMAIN s, NEW b \in DOMAIN s, SolidEnds(s, a, b)
      PROVE  Strip(p) = Strip(s)
  <2>1. /\ a \in 1..Len(s) /\ b \in a..Len(s) /\ Strip(s) \in Seq(C)
        /\ Len(Strip(s)) = b - a + 1
        /\ \A i \in 1..(b - a + 1) : Strip(s)[i] = s[a + i - 1]
    BY <1>4, StripIs
  <2>2. SolidEnds(p, a + 1, b + 1)
    <3>1. a + 1 \in DOMAIN p /\ b + 1 \in DOMAIN p /\ p[a + 1] = s[a] /\ p[b + 1] = s[b]
      BY <1>1, <2>1
    <3>2. ASSUME NEW k \in DOMAIN p, p[k] # "blank"
          PROVE  a + 1 <= k /\ k <= b + 1
      <4>1. k - 1 \in DOMAIN s /\ s[k - 1] # "blank"
        BY <1>2, <3>2
      <4>2. a <= k - 1 /\ k - 1 <= b
        BY <1>4, <4>1 DEF SolidEnds
      <4> QED
        BY <1>1, <2>1, <4>2
    <3> QED
      BY <1>4, <3>1, <3>2 DEF SolidEnds
  <2>3. /\ Strip(p) \in Seq(C)
        /\ Len(Strip(p)) = (b + 1) - (a + 1) + 1
        /\ \A i \in 1..((b + 1) - (a + 1) + 1) : Strip(p)[i] = p[(a + 1) + i - 1]
    <3>1. \A c, d : SolidEnds(p, c, d) =>
            /\ Strip(p) \in Seq(C)
            /\ Len(Strip(p)) = d - c + 1
            /\ \A i \in 1..(d - c + 1) : Strip(p)[i] = p[c + i - 1]
      BY <1>1, StripIs
    <3> QED
      BY <2>2, <3>1
  <2>4. Len(Strip(p)) = Len(Strip(s))
    BY <1>1, <2>1, <2>3
  <2>5. ASSUME NEW i \in 1..Len(Strip(s))
        PROVE  Strip(p)[i] = Strip(s)[i]
    <3>1. i \in 1..(b - a + 1) /\ i \in 1..((b + 1) - (a + 1) + 1)
      BY <1>1, <2>1
    <3>2. a + i - 1 \in 1..Len(s) /\ (a + 1) + i - 1 = (a + i - 1) + 1
      BY <1>1, <2>1, <3>1
    <3>3. p[(a + 1) + i - 1] = s[a + i - 1]
      BY <1>1, <3>2
    <3> QED
      BY <2>1, <2>3, <3>1, <3>3
  <2> QED
    BY <2>1, <2>3, <2>4, <2>5, SeqEqual
<1> QED
  BY <1>3, <1>4, SolidOrBlank DEF p

-----------------------------------------------------------------------------
LEMMA InputTyped == Spec => [](input \in Seq(Chars))
<1>1. Init => input \in Seq(Chars)
  BY DEF Init
<1>2. input \in Seq(Chars) /\ [Next]_input => (input \in Seq(Chars))'
  <2> SUFFICES ASSUME input \in Seq(Chars), [Next]_input
               PROVE  input' \in Seq(Chars)
    OBVIOUS
  <2> QED
    BY AppendProperties DEF Next
<1> QED
  BY <1>1, <1>2, PTL DEF Spec

(* landing.html validatePhoneFormat and SubmitPhoneSerializer: a number    *)
(* the form lets pass is never refused by the server, and it is stored as  *)
(* it was sent.                                                            *)
THEOREM FormAndServerAgree == Spec => []FormAgreesWithServer
<1>1. input \in Seq(Chars) => FormAgreesWithServer
  <2> SUFFICES ASSUME input \in Seq(Chars), FormSends(input)
               PROVE  Accepts(Strip(input)) /\ Number(Strip(input)) = Strip(input)
    BY DEF FormAgreesWithServer
  <2> DEFINE v == Strip(input)
  <2>1. v \in Seq(Chars) /\ Strip(v) = v
    BY StripTwice
  <2>2. MatchesWith(AsciiDigits, v)
    BY DEF FormSends
  <2> HIDE DEF v
  <2>3. Len(v) = MaxLength /\ MatchesWith(AsciiDigits \cup {"eastern0"}, v)
    BY <2>2 DEF MatchesWith, MaxLength
  <2>4. v # <<>> /\ Len(v) <= MaxLength
    BY <2>3, PhoneNumberAssumption DEF MaxLength
  <2> QED
    BY <2>1, <2>3, <2>4 DEF Accepts, Number, v
<1> QED
  BY <1>1, InputTyped, PTL

(* SubmitPhoneSerializer trims: blanks around a number change neither      *)
(* whether it is accepted nor the dedup key it gets.                       *)
THEOREM BlanksAreIgnored == Spec => []BlanksDoNotMatter
<1>1. input \in Seq(Chars) => BlanksDoNotMatter
  <2> SUFFICES ASSUME input \in Seq(Chars) PROVE BlanksDoNotMatter
    OBVIOUS
  <2>1. Strip(<<"blank">> \o input \o <<"blank">>) = Strip(input)
    BY StripPadded DEF Chars
  <2> QED
    BY <2>1 DEF BlanksDoNotMatter, Accepts, Number
<1> QED
  BY <1>1, InputTyped, PTL
=============================================================================
