----------------------------- MODULE ApiExplorer ------------------------------
(***************************************************************************)
(* The interactive API page of REST framework: forms that send requests    *)
(* through the coreapi client and show what comes back, as data or as the  *)
(* raw response (staticfiles/rest_framework/docs/js/api.js,                *)
(* staticfiles/rest_framework/js/coreapi-0.1.1.js).                        *)
(***************************************************************************)
EXTENDS Naturals, FiniteSets

CONSTANTS
  Forms,         \* the forms, each in a dialog of its own
  MaxRequests    \* bound on the requests sent

VARIABLES
  auth,       \* window.auth
  csrf,       \* the browser has the cookie csrftoken
  display,    \* responseDisplay, one for all dialogs
  requests,   \* the requests on their way, by their numbers
  issued,     \* how many were sent
  forms,      \* what each form shows; requests are named by their numbers, 0 is none
  overlapped \* history: the forms sent again before the answer

explorerVars == <<auth, csrf, display, requests, issued, forms, overlapped>>

AuthTypes == {"none", "token", "basic", "session"}
Methods   == {"GET", "POST"}
Displays  == {"data", "raw"}

(* What can come back: 204, an answer with a decoder, an error answer, an  *)
(* answer without a decoder or that it cannot read, or nothing.            *)
Answers == {"no content", "ok", "error", "undecodable", "failure"}

NewForm == [line     |-> 0,          \* request-method and request-url
            awaiting |-> TRUE,       \* request-awaiting is shown
            toggle   |-> FALSE,      \* toggle-view is shown
            status   |-> 0,          \* response-status-code
            raw      |-> 0,          \* response-raw-response
            data     |-> 0,          \* response-data
            panels   |-> {}]         \* which of the two are not hidden

ExplorerInit ==
  /\ auth = "none" /\ csrf \in BOOLEAN /\ display = "data"
  /\ requests = {} /\ issued = 0
  /\ forms = [f \in Forms |-> NewForm] /\ overlapped = {}

-----------------------------------------------------------------------------
(* The coreapi client.                                                     *)
CsrfSafeMethod(m) == m \in {"GET", "HEAD", "OPTIONS", "TRACE"}

(* authenticate of the three classes: the Authorization header, or the     *)
(* credentials of the session with its token for unsafe methods.           *)
Authenticate(type, method) ==
  CASE type = "none"    -> {}
    [] type = "token"   -> {"token"}
    [] type = "basic"   -> {"basic"}
    [] type = "session" -> {"credentials"} \cup
                           IF csrf /\ ~CsrfSafeMethod(method) THEN {"X-CSRFToken"} ELSE {}

(* How negotiateDecoder and decode, or fetch itself, let the promise end:  *)
(* responseCallback is called before the decoder is looked for, and is not *)
(* called for 204, nor when fetch fails.                                   *)
CallsBack(answer) == answer \in {"ok", "error", "undecodable"}

ResponseCallback(form, r, answer) ==
  IF ~CallsBack(answer) THEN form
  ELSE [form EXCEPT !.toggle = TRUE, !.status = r, !.raw = r]

(* then and catch show the same: the content, or "undefined", in the panel *)
(* that is chosen now.                                                     *)
ShowData(form, r) ==
  [form EXCEPT !.awaiting = FALSE, !.data = r, !.panels = {display}]

-----------------------------------------------------------------------------
(* Submit: a parameter that is missing or not known ends it with an error  *)
(* nobody catches.  Otherwise buildRequest has read auth and cookie, and   *)
(* the request line is shown.                                              *)
Submit(f, method) ==
  /\ issued < MaxRequests
  /\ issued' = issued + 1
  /\ requests' = requests \cup
       {[id |-> issued + 1, form |-> f, headers |-> Authenticate(auth, method)]}
  /\ forms' = [forms EXCEPT ![f].line = issued + 1]
  /\ overlapped' = overlapped \cup ({r.form : r \in requests} \cap {f})
  /\ UNCHANGED <<auth, csrf, display>>

(* Mutant of SubmitInvalid: the request line is filled in first.           *)
SubmitInvalidShown(f) ==
  /\ issued < MaxRequests
  /\ issued' = issued + 1
  /\ forms' = [forms EXCEPT ![f].line = issued + 1]
  /\ UNCHANGED <<auth, csrf, display, requests, overlapped>>

SubmitInvalid(f) == f \in Forms /\ UNCHANGED explorerVars

(* The answer to a request has been read.                                  *)
Respond(r, answer) ==
  /\ requests' = requests \ {r}
  /\ forms' = [forms EXCEPT ![r.form] = ShowData(ResponseCallback(@, r.id, answer), r.id)]
  /\ UNCHANGED <<auth, csrf, display, issued, overlapped>>

(* Mutant of ToggleView: it only shows what is chosen.                     *)
ToggleViewShows(f, to) ==
  /\ forms[f].toggle
  /\ display' = to
  /\ forms' = [forms EXCEPT ![f].panels = @ \cup {to}]
  /\ UNCHANGED <<auth, csrf, requests, issued, overlapped>>

(* The Data and Raw buttons of one dialog.                                 *)
ToggleView(f, to) ==
  /\ forms[f].toggle
  /\ display' = to
  /\ forms' = [forms EXCEPT ![f].panels = {to}]
  /\ UNCHANGED <<auth, csrf, requests, issued, overlapped>>

SetAuth(type) ==
  /\ auth' = type
  /\ UNCHANGED <<csrf, display, requests, issued, forms, overlapped>>

(* Logging in or out in another tab.                                       *)
ChangeCookie ==
  /\ csrf' = ~csrf
  /\ UNCHANGED <<auth, display, requests, issued, forms, overlapped>>

ExplorerNext ==
  \/ \E f \in Forms : \/ \E m \in Methods : Submit(f, m)
                      \/ SubmitInvalid(f)
                      \/ \E to \in Displays : ToggleView(f, to)
  \/ \E r \in requests, answer \in Answers : Respond(r, answer)
  \/ \E type \in AuthTypes : SetAuth(type)
  \/ ChangeCookie

ExplorerSpec == ExplorerInit /\ [][ExplorerNext]_explorerVars

-----------------------------------------------------------------------------
(* Once something has come back a form shows exactly one of the two panels,*)
(* however answers and clicks in any dialog are interleaved, and offers    *)
(* the raw one only when there is one.                                     *)
OnePanelAtATime ==
  \A f \in Forms : /\ forms[f].data = 0 <=> forms[f].panels = {}
                   /\ Cardinality(forms[f].panels) <= 1
                   /\ forms[f].toggle <=> forms[f].raw # 0

(* A form that never had two requests under way shows, once nothing is     *)
(* awaited, the data of the very request its first line names, and no raw  *)
(* response of a later one.                                                *)
ShowsItsRequest ==
  \A f \in Forms \ overlapped :
    /\ (\A r \in requests : r.form # f) => forms[f].data = forms[f].line
    /\ forms[f].raw <= forms[f].data /\ forms[f].raw = forms[f].status
=============================================================================
