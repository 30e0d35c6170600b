----------------------------- MODULE BrowserPages -----------------------------
(***************************************************************************)
(* One browser tab with one of the pages the web server hands out: the     *)
(* landing page's form, the rules of its field (PhoneNumber), a change     *)
(* list or a change form of the admin, or the API page.  A page's scripts  *)
(* share no state with another page's, so the state spaces add up: the     *)
(* variables of the pages that are not loaded stay in one initial state.   *)
(***************************************************************************)
EXTENDS PhoneNumber, LandingForm, ChangeList, SelectFilter, InlineForms,
        DateShortcuts, Calendar, RelatedPopups, ApiExplorer

VARIABLE loaded   \* the page in the tab

tab == <<loaded, input, formVars, listVars, filterVars, inlineVars, shortcutVars,
         calendarVars, popupVars, explorerVars>>

PagesServed == {"numbers", "landing", "list", "filter", "inlines", "shortcuts", "calendar",
           "popups", "explorer"}

(* Of the initial states of a page, one stands for its not being loaded.   *)
TabInit ==
  /\ loaded \in PagesServed
  /\ Init /\ FormInit /\ ListInit /\ FilterInit /\ InlineInit /\ ShortcutInit
  /\ CalendarInit /\ PopupInit /\ ExplorerInit
  /\ loaded # "filter"    => boxes = Loaded({})
  /\ loaded # "inlines"   => /\ Len(rows) = MinForms
                             /\ \A i \in DOMAIN rows : ~rows[i].saved /\ ~fields[i].chosen
  /\ loaded # "shortcuts" => page = {}
  /\ loaded # "calendar"  => /\ order = <<"%Y", "%m", "%d">>
                             /\ zone = CHOOSE z \in Zones : TRUE
  /\ loaded # "explorer"  => ~csrf

-----------------------------------------------------------------------------
Numbers ==
  /\ loaded = "numbers" /\ Next
  /\ UNCHANGED <<loaded, formVars, listVars, filterVars, inlineVars,
                 shortcutVars, calendarVars, popupVars, explorerVars>>

LandingPage ==
  /\ loaded = "landing" /\ FormNext
  /\ UNCHANGED <<loaded, input, listVars, filterVars, inlineVars,
                 shortcutVars, calendarVars, popupVars, explorerVars>>

ListPage ==
  /\ loaded = "list" /\ ListNext
  /\ UNCHANGED <<loaded, input, formVars, filterVars, inlineVars,
                 shortcutVars, calendarVars, popupVars, explorerVars>>

FilterPage ==
  /\ loaded = "filter" /\ FilterNext
  /\ UNCHANGED <<loaded, input, formVars, listVars, inlineVars,
                 shortcutVars, calendarVars, popupVars, explorerVars>>

InlinesPage ==
  /\ loaded = "inlines" /\ InlineNext
  /\ UNCHANGED <<loaded, input, formVars, listVars, filterVars,
                 shortcutVars, calendarVars, popupVars, explorerVars>>

ShortcutsPage ==
  /\ loaded = "shortcuts" /\ ShortcutNext
  /\ UNCHANGED <<loaded, input, formVars, listVars, filterVars, inlineVars,
                 calendarVars, popupVars, explorerVars>>

CalendarPage ==
  /\ loaded = "calendar" /\ CalendarNext
  /\ UNCHANGED <<loaded, input, formVars, listVars, filterVars, inlineVars,
                 shortcutVars, popupVars, explorerVars>>

PopupsPage ==
  /\ loaded = "popups" /\ PopupNext
  /\ UNCHANGED <<loaded, input, formVars, listVars, filterVars, inlineVars,
                 shortcutVars, calendarVars, explorerVars>>

ExplorerPage ==
  /\ loaded = "explorer" /\ ExplorerNext
  /\ UNCHANGED <<loaded, input, formVars, listVars, filterVars, inlineVars,
                 shortcutVars, calendarVars, popupVars>>

TabNext ==
  \/ Numbers \/ LandingPage \/ ListPage \/ FilterPage \/ InlinesPage
  \/ ShortcutsPage \/ CalendarPage \/ PopupsPage \/ ExplorerPage

(* Every fetch of the landing page settles.                                *)
LandingAnswered ==
  /\ loaded = "landing" /\ Answered
  /\ UNCHANGED <<loaded, input, listVars, filterVars, inlineVars,
                 shortcutVars, calendarVars, popupVars, explorerVars>>

TabSpec == TabInit /\ [][TabNext]_tab /\ WF_tab(LandingAnswered)
=============================================================================
