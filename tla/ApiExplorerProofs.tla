--------------------------- MODULE ApiExplorerProofs ---------------------------
(***************************************************************************)
(* ApiExplorer, for any forms and any number of requests.                  *)
(***************************************************************************)
EXTENDS ApiExplorer, FiniteSetTheorems, TLAPS

Form == [line : Nat, awaiting : BOOLEAN, toggle : BOOLEAN, status : Nat, raw : Nat,
         data : Nat, panels : SUBSET Displays]

(* A form shows one panel once there is data, and offers the raw response  *)
(* only when there is one, which is never newer than the data.             *)
GoodForm(f) ==
  /\ f \in Form
  /\ f.data <= issued
  /\ f.data = 0 => f.panels = {} /\ f.raw = 0
  /\ f.data # 0 => \E d \in Displays : f.panels = {d}
  /\ f.toggle <=> f.raw # 0

GoodRequest(r) == r.id \in 1..issued /\ r.form \in Forms

(* A form that was never sent twice has at most one request under way, the *)
(* one of its first line, newer than all it shows.                         *)
InStep(f) ==
  /\ forms[f].raw <= forms[f].data /\ forms[f].raw = forms[f].status
  /\ \/ (\A r \in requests : r.form # f) /\ forms[f].data = forms[f].line
     \/ /\ \E r \in requests : r.form = f
        /\ \A r \in requests : r.form = f => r.id = forms[f].line
        /\ \A r, s \in requests : r.form = f /\ s.form = f => r = s
        /\ forms[f].data < forms[f].line

ExplorerInv ==
  /\ display \in Displays /\ issued \in Nat
  /\ DOMAIN forms = Forms /\ \A f \in Forms : GoodForm(forms[f])
  /\ \A r \in requests : GoodRequest(r)
  /\ \A f \in Forms \ overlapped : InStep(f)

-----------------------------------------------------------------------------
LEMMA ExplorerInvInit ==
  ASSUME ExplorerInit
  PROVE  ExplorerInv
<1>1. /\ display = "data" /\ issued = 0
      /\ requests = {} /\ forms = [f \in Forms |-> NewForm]
  BY DEF ExplorerInit
<1>2. NewForm \in Form
  BY DEF NewForm, Form
<1>3. ASSUME NEW f \in Forms PROVE GoodForm(forms[f]) /\ InStep(f)
  <2>1. forms[f] = NewForm
    BY <1>1
  <2>2. /\ NewForm.data = 0 /\ NewForm.panels = {} /\ NewForm.raw = 0 /\ NewForm.toggle = FALSE
        /\ NewForm.line = 0 /\ NewForm.status = 0
    BY DEF NewForm
  <2> QED
    BY <1>1, <1>2, <2>1, <2>2 DEF GoodForm, InStep
<1> QED
  BY <1>1, <1>3 DEF ExplorerInv, Displays

LEMMA SubmitKeepsInv ==
  ASSUME ExplorerInv, NEW f \in Forms, NEW method \in Methods, Submit(f, method)
  PROVE  ExplorerInv'
<1> DEFINE q == [id |-> issued + 1, form |-> f, headers |-> Authenticate(auth, method)]
<1>1. /\ display \in Displays /\ issued \in Nat
      /\ DOMAIN forms = Forms /\ \A g \in Forms : GoodForm(forms[g]) /\ forms[g] \in Form
      /\ \A r \in requests : GoodRequest(r)
      /\ \A g \in Forms \ overlapped : InStep(g)
  BY DEF ExplorerInv, GoodForm
<1>2. /\ issued' = issued + 1 /\ requests' = requests \cup {q}
      /\ forms' = [forms EXCEPT ![f].line = issued + 1]
      /\ overlapped' = overlapped \cup ({r.form : r \in requests} \cap {f})
      /\ UNCHANGED <<auth, csrf, display>>
  BY DEF Submit
<1>3. q.id = issued + 1 /\ q.form = f
  OBVIOUS
<1> HIDE DEF q
<1>4. ASSUME NEW r \in requests' PROVE GoodRequest(r)'
  <2>1. CASE r = q
    BY <1>1, <1>2, <1>3, <2>1 DEF GoodRequest
  <2>2. CASE r \in requests
    BY <1>1, <1>2, <2>2 DEF GoodRequest
  <2> QED
    BY <1>2, <2>1, <2>2
<1>5. ASSUME NEW g \in Forms
      PROVE  /\ forms'[g] \in Form
             /\ forms'[g].line = IF g = f THEN issued + 1 ELSE forms[g].line
             /\ forms'[g].data = forms[g].data /\ forms'[g].raw = forms[g].raw
             /\ forms'[g].status = forms[g].status /\ forms'[g].panels = forms[g].panels
             /\ forms'[g].toggle = forms[g].toggle
  <2>1. forms[g] \in Form
    BY <1>1
  <2> QED
    BY <1>1, <1>2, <2>1 DEF Form
<1>6. ASSUME NEW g \in Forms PROVE GoodForm(forms[g])'
  <2>1. GoodForm(forms[g])
    BY <1>1
  <2>2. forms'[g].data \in Nat
    BY <1>5 DEF Form
  <2> QED
    BY <1>1, <1>2, <1>5, <2>1, <2>2 DEF GoodForm
<1>7. ASSUME NEW g \in Forms \ overlapped' PROVE InStep(g)'
  <2>1. InStep(g) /\ GoodForm(forms[g])
    BY <1>1, <1>2
  <2>2. CASE g = f
    <3>1. \A r \in requests : r.form # f
      BY <1>2, <2>2
    <3>2. forms[g].data \in Nat /\ forms[g].data <= issued
      BY <2>1 DEF GoodForm, Form
    <3> QED
      BY <1>1, <1>2, <1>3, <1>5, <2>1, <2>2, <3>1, <3>2 DEF InStep
  <2>3. CASE g # f
    BY <1>2, <1>3, <1>5, <2>1, <2>3 DEF InStep
  <2> QED
    BY <2>2, <2>3
<1> QED
  BY <1>1, <1>2, <1>4, <1>6, <1>7 DEF ExplorerInv

(* What responseCallback and then or catch leave of a form.                *)
LEMMA Responded ==
  ASSUME NEW f \in Form, NEW id \in Nat, NEW answer \in Answers, display \in Displays
  PROVE  LET g == ShowData(ResponseCallback(f, id, answer), id) IN
         /\ g \in Form /\ g.line = f.line /\ g.data = id /\ g.panels = {display}
         /\ \/ g.toggle = TRUE /\ g.raw = id /\ g.status = id
            \/ g.toggle = f.toggle /\ g.raw = f.raw /\ g.status = f.status
<1> DEFINE c == ResponseCallback(f, id, answer)
           g == ShowData(c, id)
<1>1. /\ c \in Form /\ c.line = f.line
      /\ \/ c.toggle = TRUE /\ c.raw = id /\ c.status = id
         \/ c.toggle = f.toggle /\ c.raw = f.raw /\ c.status = f.status
  <2>1. CASE CallsBack(answer)
    <3>1. c = [f EXCEPT !.toggle = TRUE, !.status = id, !.raw = id]
      BY <2>1 DEF ResponseCallback
    <3> QED
      BY <3>1 DEF Form
  <2>2. CASE ~CallsBack(answer)
    BY <2>2 DEF ResponseCallback
  <2> QED
    BY <2>1, <2>2
<1> HIDE DEF c
<1>2. g = [c EXCEPT !.awaiting = FALSE, !.data = id, !.panels = {display}]
  BY DEF ShowData
<1>3. /\ g \in Form /\ g.line = c.line /\ g.data = id /\ g.panels = {display}
      /\ g.toggle = c.toggle /\ g.raw = c.raw /\ g.status = c.status
  BY <1>1, <1>2 DEF Form
<1> HIDE DEF g
<1>4. /\ g \in Form /\ g.line = f.line /\ g.data = id /\ g.panels = {display}
      /\ \/ g.toggle = TRUE /\ g.raw = id /\ g.status = id
         \/ g.toggle = f.toggle /\ g.raw = f.raw /\ g.status = f.status
  BY <1>1, <1>3
<1> QED
  BY <1>4, Zenon DEF g, c

LEMMA RespondKeepsInv ==
  ASSUME ExplorerInv, NEW q \in requests, NEW answer \in Answers, Respond(q, answer)
  PROVE  ExplorerInv'
<1> DEFINE f == q.form
           g == ShowData(ResponseCallback(forms[f], q.id, answer), q.id)
<1>1. /\ display \in Displays /\ issued \in Nat
      /\ DOMAIN forms = Forms /\ \A h \in Forms : GoodForm(forms[h]) /\ forms[h] \in Form
      /\ \A r \in requests : GoodRequest(r)
      /\ \A h \in Forms \ overlapped : InStep(h)
  BY DEF ExplorerInv, GoodForm
<1>2. f \in Forms /\ q.id \in 1..issued /\ q.id \in Nat
  BY <1>1 DEF GoodRequest
<1>3. /\ requests' = requests \ {q} /\ forms' = [forms EXCEPT ![f] = g]
      /\ UNCHANGED <<auth, csrf, display, issued, overlapped>>
  BY DEF Respond
<1>4. /\ g \in Form /\ g.line = forms[f].line /\ g.data = q.id /\ g.panels = {display}
      /\ \/ g.toggle = TRUE /\ g.raw = q.id /\ g.status = q.id
         \/ g.toggle = forms[f].toggle /\ g.raw = forms[f].raw /\ g.status = forms[f].status
  BY <1>1, <1>2, Responded
<1> HIDE DEF g
<1>5. DOMAIN forms' = Forms /\ \A h \in Forms : forms'[h] = IF h = f THEN g ELSE forms[h]
  BY <1>1, <1>2, <1>3
<1>6. GoodForm(g)
  <2>1. GoodForm(forms[f])
    BY <1>1, <1>2
  <2>2. g.data # 0 /\ g.data <= issued
    BY <1>1, <1>2, <1>4
  <2>3. g.toggle <=> g.raw # 0
    BY <1>2, <1>4, <2>1 DEF GoodForm
  <2> QED
    BY <1>1, <1>4, <2>2, <2>3 DEF GoodForm
<1>7. ASSUME NEW h \in Forms PROVE GoodForm(forms[h])'
  BY <1>1, <1>3, <1>5, <1>6 DEF GoodForm
<1>8. ASSUME NEW r \in requests' PROVE GoodRequest(r)'
  BY <1>1, <1>3 DEF GoodRequest
<1>9. ASSUME NEW h \in Forms \ overlapped' PROVE InStep(h)'
  <2>1. InStep(h) /\ forms[h] \in Form
    BY <1>1, <1>3
  <2>2. CASE h = f
    <3>1. /\ q.id = forms[f].line /\ forms[f].data < q.id
          /\ \A r \in requests : r.form = f => r = q
      BY <2>1, <2>2 DEF InStep
    <3>2. \A r \in requests' : r.form # f
      BY <1>3, <3>1
    <3>3. g.raw <= g.data /\ g.raw = g.status
      BY <1>2, <1>4, <2>1, <2>2, <3>1 DEF InStep, Form
    <3> QED
      BY <1>4, <1>5, <2>2, <3>1, <3>2, <3>3 DEF InStep
  <2>3. CASE h # f
    BY <1>3, <1>5, <2>1, <2>3 DEF InStep
  <2> QED
    BY <2>2, <2>3
<1> QED
  BY <1>1, <1>3, <1>5, <1>7, <1>8, <1>9 DEF ExplorerInv

LEMMA ToggleViewKeepsInv ==
  ASSUME ExplorerInv, NEW f \in Forms, NEW to \in Displays, ToggleView(f, to)
  PROVE  ExplorerInv'
<1>1. /\ issued \in Nat /\ DOMAIN forms = Forms
      /\ \A h \in Forms : GoodForm(forms[h]) /\ forms[h] \in Form
      /\ \A r \in requests : GoodRequest(r)
      /\ \A h \in Forms \ overlapped : InStep(h)
  BY DEF ExplorerInv, GoodForm
<1> DEFINE g == [forms[f] EXCEPT !.panels = {to}]
<1>2. /\ display' = to /\ forms' = [forms EXCEPT ![f] = g] /\ forms[f].toggle
      /\ UNCHANGED <<auth, csrf, requests, issued, overlapped>>
  BY DEF ToggleView
<1>3. forms[f] \in Form /\ GoodForm(forms[f])
  BY <1>1
<1>4. /\ g \in Form /\ g.panels = {to} /\ g.line = forms[f].line /\ g.data = forms[f].data
      /\ g.raw = forms[f].raw /\ g.status = forms[f].status /\ g.toggle = forms[f].toggle
  BY <1>3 DEF Form
<1> HIDE DEF g
<1>5. GoodForm(g)
  <2>1. forms[f].raw # 0 /\ forms[f].data # 0
    BY <1>2, <1>3 DEF GoodForm
  <2> QED
    BY <1>3, <1>4, <2>1 DEF GoodForm
<1>6. DOMAIN forms' = Forms /\ \A h \in Forms : forms'[h] = IF h = f THEN g ELSE forms[h]
  BY <1>1, <1>2
<1>7. ASSUME NEW h \in Forms PROVE GoodForm(forms[h])'
  BY <1>1, <1>2, <1>5, <1>6 DEF GoodForm
<1>8. ASSUME NEW r \in requests' PROVE GoodRequest(r)'
  BY <1>1, <1>2 DEF GoodRequest
<1>9. ASSUME NEW h \in Forms \ overlapped' PROVE InStep(h)'
  BY <1>1, <1>2, <1>4, <1>6 DEF InStep
<1> QED
  BY <1>2, <1>6, <1>7, <1>8, <1>9 DEF ExplorerInv

LEMMA ExplorerInvInductive ==
  ASSUME ExplorerInv, [ExplorerNext]_explorerVars
  PROVE  ExplorerInv'
<1> USE DEF ExplorerInv, GoodForm, GoodRequest, InStep
<1>1. ASSUME NEW f \in Forms, SubmitInvalid(f) PROVE ExplorerInv'
  BY <1>1 DEF SubmitInvalid, explorerVars
<1>2. ASSUME NEW type \in AuthTypes, SetAuth(type) PROVE ExplorerInv'
  BY <1>2 DEF SetAuth
<1>3. CASE ChangeCookie
  BY <1>3 DEF ChangeCookie
<1>4. CASE UNCHANGED explorerVars
  BY <1>4 DEF explorerVars
<1> QED
  BY <1>1, <1>2, <1>3, <1>4, SubmitKeepsInv, RespondKeepsInv, ToggleViewKeepsInv DEF ExplorerNext

LEMMA ExplorerInvariant == ExplorerSpec => []ExplorerInv
<1>1. ExplorerInit => ExplorerInv
  BY ExplorerInvInit
<1>2. ExplorerInv /\ [ExplorerNext]_explorerVars => ExplorerInv'
  BY ExplorerInvInductive
<1> QED
  BY <1>1, <1>2, PTL DEF ExplorerSpec

-----------------------------------------------------------------------------
(* api.js, the toggle buttons and the answers: for any forms, in any order,*)
(* a form with data shows exactly one of its panels.                       *)
THEOREM OnePanelIsShown == ExplorerSpec => []OnePanelAtATime
<1>1. ASSUME ExplorerInv, NEW f \in Forms
      PROVE  /\ forms[f].data = 0 <=> forms[f].panels = {}
             /\ Cardinality(forms[f].panels) <= 1
             /\ forms[f].toggle <=> forms[f].raw # 0
  <2>1. GoodForm(forms[f])
    BY <1>1 DEF ExplorerInv
  <2>2. CASE forms[f].data = 0
    <3>1. forms[f].panels = {}
      BY <2>1, <2>2 DEF GoodForm
    <3>2. Cardinality(forms[f].panels) = 0
      BY <3>1, FS_EmptySet
    <3> QED
      BY <2>1, <2>2, <3>1, <3>2 DEF GoodForm
  <2>3. CASE forms[f].data # 0
    <3>1. PICK d \in Displays : forms[f].panels = {d}
      BY <2>1, <2>3 DEF GoodForm
    <3>2. Cardinality(forms[f].panels) = 1
      BY <3>1, FS_Singleton
    <3> QED
      BY <2>1, <2>3, <3>1, <3>2 DEF GoodForm
  <2> QED
    BY <2>2, <2>3
<1>2. ExplorerInv => OnePanelAtATime
  BY <1>1 DEF OnePanelAtATime
<1> QED
  BY <1>2, ExplorerInvariant, PTL

(* api.js, submit and the callbacks: for any number of requests, without a *)
(* second one under way a form ends with the data of its own request.      *)
THEOREM FormsShowTheirRequests == ExplorerSpec => []ShowsItsRequest
<1>1. ExplorerInv => ShowsItsRequest
  BY DEF ExplorerInv, InStep, ShowsItsRequest
<1> QED
  BY <1>1, ExplorerInvariant, PTL
=============================================================================
