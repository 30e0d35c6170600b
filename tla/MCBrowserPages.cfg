CONSTANTS
  Digits = 1
  MaxInput = 6
  MaxSubmits = 2
  Rows = 3
  Values = {"a", "b"}
  Later = {"c"}
  Texts = {{"a", "b", "c"}, {"a"}}
  MinForms = 1
  MaxForms = 3
  MaxLoaded = 2
  Inputs = {"date", "time"}
  Clocks = {"time"}
  MaxNums = 5
  Years <- MCYears
  Typed <- MCTyped
  Today <- MCToday
  Zones <- MCZones
  Days = {1, 29, 31}
  FirstDays = {1}
  Fields = {"a", "b"}
  MaxLevel = 2
  MaxWindows = 3
  Forms = {"a", "b"}
  MaxRequests = 2
SPECIFICATION TabSpec
INVARIANTS
  FormAgreesWithServer
  BlanksDoNotMatter
  ClicksDoNotOverlap
  AcrossMeansAll
  LooksSelected
  NothingLost
  SentIsChosen
  WarningIsTrue
  NamesAreInSequence
  SentIsShown
  SlugIsOwn
  OneLinkPerInput
  MonthsJoinUp
  PickedDayIsRead
  AnswersReachTheirPage
  NoWindowIsLeft
  OnePanelAtATime
  ShowsItsRequest
PROPERTIES
  ButtonComesBack
  WritesGoToThePage
CHECK_DEADLOCK FALSE
