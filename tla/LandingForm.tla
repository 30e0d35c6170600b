----------------------------- MODULE LandingForm ------------------------------
(***************************************************************************)
(* The form of the landing page in one browser tab (templates/landing.html): *)
(* the button, the Enter key, requests on their way and their answers in   *)
(* any order.                                                              *)
(***************************************************************************)
EXTENDS Naturals, FiniteSets

CONSTANT MaxSubmits   \* bound on the requests sent

VARIABLES
  field,     \* what is in phoneInput: nothing, a number that passes, another text
  disabled,  \* submitBtn.disabled
  pending,   \* the requests whose answer is awaited
  asked,     \* how many were sent
  message,   \* what is displayed under the form
  eager      \* history: Enter was pressed while a request was under way

formVars == <<field, disabled, pending, asked, message, eager>>

FieldTexts == {"", "number", "other"}
Replies    == {"accepted", "duplicate", "refused", "network"}

FormInit ==
  /\ field = "" /\ disabled = FALSE
  /\ pending = {} /\ asked = 0
  /\ message = "none" /\ eager = FALSE

(* submitPhone up to its first await.                                      *)
SubmitPhone ==
  IF field # "number"
  THEN message' = "invalid" /\ UNCHANGED <<disabled, pending, asked>>
  ELSE /\ asked < MaxSubmits
       /\ asked' = asked + 1
       /\ pending' = pending \cup {asked + 1}
       /\ disabled' = TRUE
       /\ message' = "submitting"

(* Mutant of Click: the button is not looked at.                           *)
ClickAnyway == SubmitPhone /\ UNCHANGED <<field, eager>>

Click == ~disabled /\ SubmitPhone /\ UNCHANGED <<field, eager>>

(* Enter in the field calls it too, whatever the button.                   *)
Enter ==
  /\ SubmitPhone
  /\ eager' = (eager \/ pending # {})
  /\ UNCHANGED field

(* Mutant of Answer: the button is enabled again only on success.          *)
AnswerEnablesOnSuccess(r, answer) ==
  /\ pending' = pending \ {r}
  /\ message' = answer
  /\ field' = IF answer = "accepted" THEN "" ELSE field
  /\ disabled' = (disabled /\ answer \notin {"accepted", "duplicate"})
  /\ UNCHANGED <<asked, eager>>

(* The rest of submitPhone.  An answer without JSON counts as "network".   *)
Answer(r, answer) ==
  /\ pending' = pending \ {r}
  /\ message' = answer
  /\ field' = IF answer = "accepted" THEN "" ELSE field
  /\ disabled' = FALSE
  /\ UNCHANGED <<asked, eager>>

Edit(text) ==
  /\ text # field /\ field' = text
  /\ UNCHANGED <<disabled, pending, asked, message, eager>>

Answered == \E r \in pending, answer \in Replies : Answer(r, answer)

FormNext ==
  \/ Click \/ Enter \/ Answered
  \/ \E text \in FieldTexts : Edit(text)

FormSpec == FormInit /\ [][FormNext]_formVars /\ WF_formVars(Answered)

-----------------------------------------------------------------------------
(* The disabled button keeps a visitor who clicks from sending a number    *)
(* twice; only Enter can, while a request is under way.                    *)
ClicksDoNotOverlap ==
  ~eager => Cardinality(pending) <= 1 /\ (disabled <=> pending # {})

(* The button never stays disabled: every fetch settles (Answered), and    *)
(* whatever it brings enables the button (finally).                        *)
ButtonComesBack == disabled ~> ~disabled
=============================================================================
