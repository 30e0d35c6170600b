---------------------------- MODULE RelatedPopups -----------------------------
(***************************************************************************)
(* The pop-up windows of the admin's related fields ("+", the pencil, the  *)
(* lens): a window opens others, each tells its opener what was saved or   *)
(* chosen and is closed by it, and a page that goes takes the windows it   *)
(* opened with it (staticfiles/admin/js/admin/RelatedObjectLookups.js,     *)
(* popup_response.js).                                                     *)
(***************************************************************************)
EXTENDS JsArrays

CONSTANTS
  Fields,       \* the fields with such links; every form has them all
  MaxLevel,     \* bound on how deep windows are opened
  MaxWindows    \* bound on how many are opened

ASSUME PopupAssumption == MaxLevel \in Nat

VARIABLES
  windows,   \* windows[w] for the form, 0, and each window that was opened
  written,   \* the last answer: the field written and the one that asked for it
  spared     \* history: dismissChildPopups has stopped with an error

popupVars == <<windows, written, spared>>

Pages   == {"form", "answer", "loadingForm", "loadingAnswer"}
Popups  == DOMAIN windows \ {0}
IsOpen(w)  == w \in DOMAIN windows /\ windows[w].open

(* name is field__level; popupIndex is the level again (setPopupIndex).    *)
NewWindow(field, level, opener) ==
  [open |-> TRUE, field |-> field, level |-> level, opener |-> opener,
   page |-> "loadingForm", related |-> <<>>,
   orphan |-> FALSE]   \* history: the page that asked is gone

NothingWritten == [field |-> "none", wanted |-> "none", orphan |-> FALSE]

PopupInit ==
  /\ windows = [w \in {0} |-> [NewWindow("none", 0, 0) EXCEPT !.page = "form"]]
  /\ written = NothingWritten /\ spared = FALSE

-----------------------------------------------------------------------------
(* dismissChildPopups, with ws at first, for one window of a list: unless  *)
(* it is closed it dismisses its own and is closed.  One whose scripts     *)
(* have not run has no such function: a TypeError, and all stays as it is. *)
(* `before' and the result: what is open, and that there was no error.     *)
DismissWindow(ws, win, before, dismiss) ==
  LET inside == dismiss[<<before.open, win>>] IN
  IF ~before.ok \/ win \notin before.open THEN before
  ELSE IF ws[win].page # "form" THEN [before EXCEPT !.ok = FALSE]
  ELSE IF ~inside.ok THEN inside
  ELSE [inside EXCEPT !.open = @ \ {win}]

(* For the windows that w = from[2] has opened, while from[1] are open.    *)
DismissWindows(ws, from, dismiss) ==
  LET list == ws[from[2]].related
      upTo[n \in 0..Len(list)] ==
        IF n = 0 THEN [open |-> from[1], ok |-> TRUE]
        ELSE DismissWindow(ws, list[n], upTo[n - 1], dismiss)
  IN  upTo[Len(list)]

(* dismissChildPopups of w.  Windows of the last level have opened none.   *)
DismissChildPopups(ws, w) ==
  LET Froms == (SUBSET DOMAIN ws) \X DOMAIN ws
      dismiss[below \in 0..MaxLevel] ==
        IF below = 0 THEN [from \in Froms |-> [open |-> from[1], ok |-> TRUE]]
        ELSE [from \in Froms |-> DismissWindows(ws, from, dismiss[below - 1])]
  IN  dismiss[MaxLevel - ws[w].level][<<{v \in DOMAIN ws : ws[v].open}, w>>]

(* Mutant of Unload: there is no listener for it.                          *)
UnloadSilently(ws, w) ==
  [ok |-> TRUE,
   windows |-> [v \in DOMAIN ws |->
     IF v # 0 /\ ws[v].open /\ ws[v].opener = w THEN [ws[v] EXCEPT !.orphan = TRUE] ELSE ws[v]]]

(* The page of w goes: the windows it opened are dismissed; those that are *)
(* left have lost the page that asked for them.                            *)
Unload(ws, w) ==
  LET result == IF ws[w].page = "form" THEN DismissChildPopups(ws, w)
                ELSE [open |-> {v \in DOMAIN ws : ws[v].open}, ok |-> TRUE]
  IN  [ok |-> result.ok,
       windows |-> [v \in DOMAIN ws |->
         [ws[v] EXCEPT !.open   = v \in result.open,
                       !.orphan = @ \/ (v # 0 /\ v \in result.open /\ ws[v].opener = w)]]]

(* After an unload, window w is as given; spared remembers the error.      *)
AfterUnload(result, w, state) ==
  /\ windows' = [result.windows EXCEPT ![w] = state]
  /\ spared' = (spared \/ ~result.ok)

-----------------------------------------------------------------------------
(* showAdminPopup in window w.  window.open finds a window of this name    *)
(* and loads the page there, or opens one; w becomes its opener.           *)
Show(w, field) ==
  /\ IsOpen(w) /\ windows[w].page = "form" /\ windows[w].level < MaxLevel
  /\ LET named == {v \in Popups : /\ windows[v].open /\ windows[v].field = field
                                  /\ windows[v].level = windows[w].level + 1}
         new   == Cardinality(DOMAIN windows)
         fresh == NewWindow(field, windows[w].level + 1, w)
         Pushed(ws, v) == [ws EXCEPT ![w].related =
                             IF v \in Range(@) THEN @ ELSE Append(@, v)]
     IN  IF named = {}
         THEN /\ new <= MaxWindows
              /\ windows' = Pushed([v \in 0..new |-> IF v = new THEN fresh ELSE windows[v]], new)
              /\ UNCHANGED spared
         ELSE \E v \in named :
                /\ windows' = Pushed([Unload(windows, v).windows EXCEPT ![v] = fresh], v)
                /\ spared' = (spared \/ ~Unload(windows, v).ok)
  /\ UNCHANGED written

(* The form of w is sent; what comes is the form again, or the answer page.*)
SubmitPage(w, page) ==
  /\ IsOpen(w) /\ windows[w].page = "form"
  /\ page = "loadingAnswer" => w # 0
  /\ LET result == Unload(windows, w) IN
     AfterUnload(result, w, [result.windows[w] EXCEPT !.page = page, !.related = <<>>])
  /\ UNCHANGED written

(* The user closes a window.                                               *)
Close(w) ==
  /\ w # 0 /\ IsOpen(w)
  /\ LET result == Unload(windows, w) IN
     AfterUnload(result, w, [result.windows[w] EXCEPT !.open = FALSE])
  /\ UNCHANGED written

(* dismiss...Popup in the opener: the field with the window's name without *)
(* its level is written, the window leaves the list and is closed.         *)
DismissPopup(ws, w) ==
  LET asker == ws[w].opener IN
  /\ written' = [field  |-> IF ws[w].level = ws[asker].level + 1 THEN ws[w].field ELSE "none",
                 wanted |-> ws[w].field, orphan |-> ws[w].orphan]
  /\ LET listed == [ws EXCEPT ![asker].related =
                       IF w \in Range(@) THEN Splice(@, IndexOf(@, w)) ELSE @]
         result == Unload(listed, w)
     IN  AfterUnload(result, w, [result.windows[w] EXCEPT !.open = FALSE])

CanAnswer(w) == IsOpen(windows[w].opener) /\ windows[windows[w].opener].page = "form"

LoadForm(w) ==
  /\ IsOpen(w) /\ windows[w].page = "loadingForm"
  /\ windows' = [windows EXCEPT ![w].page = "form"]
  /\ UNCHANGED <<written, spared>>

(* popup_response.js: an opener that is closed, or is loading, has not the *)
(* function that is called, and the window stays.                          *)
LoadAnswer(w) ==
  /\ IsOpen(w) /\ windows[w].page = "loadingAnswer"
  /\ LET loaded == [windows EXCEPT ![w].page = "answer"] IN
     IF CanAnswer(w) THEN DismissPopup(loaded, w)
     ELSE windows' = loaded /\ UNCHANGED <<written, spared>>

(* An object is chosen in a list opened with the lens.                     *)
Choose(w) ==
  /\ w # 0 /\ IsOpen(w) /\ windows[w].page = "form" /\ CanAnswer(w)
  /\ DismissPopup(windows, w)

PopupNext ==
  \E w \in DOMAIN windows :
    \/ \E field \in Fields : Show(w, field)
    \/ \E page \in {"loadingForm", "loadingAnswer"} : SubmitPage(w, page)
    \/ Close(w) \/ LoadForm(w) \/ LoadAnswer(w) \/ Choose(w)

PopupSpec == PopupInit /\ [][PopupNext]_popupVars

-----------------------------------------------------------------------------
(* An answer is only ever written by a window to the page that opened it,  *)
(* never to one that has replaced that page, unless a window was spared    *)
(* because it was still loading when it should have been dismissed.        *)
AnswersReachTheirPage ==
  /\ written.orphan => spared
  /\ written.field = written.wanted

(* A page takes all it has opened with it, over all levels, with the same  *)
(* exception.                                                              *)
NoWindowIsLeft ==
  ~spared => \A w \in Popups : windows[w].open =>
               ~windows[w].orphan /\ windows[windows[w].opener].open
=============================================================================
