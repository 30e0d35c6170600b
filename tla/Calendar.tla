------------------------------- MODULE Calendar -------------------------------
(***************************************************************************)
(* One date input and its calendar: what is drawn, what a click on a day   *)
(* writes and what is read back from it (staticfiles/admin/js/calendar.js, *)
(* core.js, admin/DateTimeShortcuts.js).  Dates are written in local time  *)
(* and read in UTC.  A text is the numbers between its dots, dashes or     *)
(* slashes; one that is no date has fewer than three.                      *)
(***************************************************************************)
EXTENDS Integers, Sequences

CONSTANTS
  Years,        \* the years the calendar is moved through
  Typed,        \* dates people type, as records of a day, a month and a year
  Zones,        \* time zones: the hours local time is ahead of UTC
  Today,        \* the date it is for the browser
  Days,         \* the days people click
  FirstDays     \* what FIRST_DAY_OF_WEEK may be

ASSUME CalendarAssumption ==
  /\ Years \subseteq Nat /\ FirstDays \subseteq 0..6
  /\ Typed \subseteq [d : 0..31, m : Nat, y : Nat]
  /\ Zones \subseteq -12..14
  /\ Today \in [d : 1..31, m : 1..12, y : Nat]

VARIABLES
  order,        \* DATE_INPUT_FORMATS[0]: the order of %d, %m and %Y or %y
  firstDay,     \* FIRST_DAY_OF_WEEK
  zone,         \* the browser's time zone
  month, year,  \* currentMonth, currentYear
  selected,     \* calendars[num].selected
  displayed,    \* the calendar is displayed
  value,        \* the text of the input
  clicked       \* history: the date last clicked in the calendar, if nothing was typed since

calendarVars == <<order, firstDay, zone, month, year, selected, displayed, value, clicked>>

Formats == {<<"%Y", "%m", "%d">>, <<"%d", "%m", "%Y">>, <<"%m", "%d", "%y">>, <<"%d", "%m", "%y">>}
noDate == [d |-> 0, m |-> 0, y |-> 0]
Date(d, m, y) == [d |-> d, m |-> m, y |-> y]

-----------------------------------------------------------------------------
(* JavaScript's Date: the proleptic Gregorian calendar by days, where the  *)
(* years 0 to 99 stand for 1900 to 1999.                                   *)
FullYear(y) == IF y \in 0..99 THEN 1900 + y ELSE y

LeapsBefore(y) == ((y - 1) \div 4) - ((y - 1) \div 100) + ((y - 1) \div 400)
YearDay(y)     == 365 * y + LeapsBefore(y)   \* days before 1 January of y

(* Days before the month of a common year, and how far it begins in y.     *)
CumulativeDays == <<0, 31, 59, 90, 120, 151, 181, 212, 243, 273, 304, 334>>
MonthDay(m, y) ==
  YearDay(y) + CumulativeDays[m] + IF m > 2 THEN LeapsBefore(y + 1) - LeapsBefore(y) ELSE 0

(* getDay() of new Date(y, m - 1, d): 0 is Sunday.  1 January 1 was a Monday. *)
GetDay(d, m, y) == (MonthDay(m, FullYear(y)) + d - YearDay(1)) % 7

(* The date that new Date and Date.UTC make of these numbers, for days     *)
(* that fall into the month before or after.                               *)
MakeDate(d, m, y) ==
  LET y1 == FullYear(y) + ((m - 1) \div 12)
      m1 == ((m - 1) % 12) + 1
      y2 == y1 + (m1 \div 12)
      m2 == (m1 % 12) + 1
      y0 == IF m1 = 1 THEN y1 - 1 ELSE y1
      m0 == IF m1 = 1 THEN 12 ELSE m1 - 1
      before == MonthDay(m1, y1) - MonthDay(m0, y0)
      length == MonthDay(m2, y2) - MonthDay(m1, y1)
  IN  CASE d < 1            -> Date(d + before, m0, y0)
        [] d \in 1..length  -> Date(d, m1, y1)
        [] d > length       -> Date(d - length, m2, y2)

(* A Date is the moment some hours after, or before, midnight UTC.         *)
Moment(date, hours) == [date |-> date, hours |-> hours]
LocalDate(d, m, y)  == Moment(MakeDate(d, m, y), -zone)   \* new Date(y, m - 1, d)
UTCDate(d, m, y)    == Moment(MakeDate(d, m, y), 0)       \* new Date(Date.UTC(y, m - 1, d))

(* The day it is then in a place so many hours ahead.                      *)
DayThere(t, ahead) ==
  LET h == t.hours + ahead
  IN  CASE h < 0       -> MakeDate(t.date.d - 1, t.date.m, t.date.y)
        [] h \in 0..23 -> t.date
        [] h > 23      -> MakeDate(t.date.d + 1, t.date.m, t.date.y)

LocalDay(t) == DayThere(t, zone)   \* getFullYear(), getMonth() and getDate()
UTCDay(t)   == DayThere(t, 0)      \* getUTCFullYear(), getUTCMonth() and getUTCDate()

-----------------------------------------------------------------------------
(* Mutant of IsLeapYear: the rule of the centuries is forgotten.           *)
IsLeapYearJulian(y) == y % 4 = 0

IsLeapYear(y) == (y % 4 = 0 /\ y % 100 # 0) \/ y % 400 = 0

GetDaysInMonth(m, y) ==
  IF m \in {1, 3, 5, 7, 8, 10, 12} THEN 31
  ELSE IF m \in {4, 6, 9, 11} THEN 30
  ELSE IF IsLeapYear(y) THEN 29 ELSE 28

(* draw: the cells before day 1 and the days.                              *)
StartingPos(m, y) == (GetDay(1, m, y) - firstDay) % 7

(* Mutant of SelectedDay: it is taken in local time.                      *)
SelectedDayLocal == LocalDay(selected)

(* draw: the day that is marked as selected when its month is drawn.       *)
SelectedDay == UTCDay(selected)

-----------------------------------------------------------------------------
(* strftime and strptime, for formats made of these fields.                *)
HasFullYear(format) == \E i \in DOMAIN format : format[i] = "%Y"

Text(format, d, m, y) ==
  [i \in DOMAIN format |-> CASE format[i] = "%d" -> d
                             [] format[i] = "%m" -> m
                             [] format[i] \in {"%Y", "%y"} -> y]

(* substr(2, 4) of a year: what follows its first two digits; no digit at  *)
(* all is 0 when it is read.                                               *)
ShortYear(y) ==
  IF y < 100 THEN 0
  ELSE IF y < 1000 THEN y % 10
  ELSE IF y < 10000 THEN y % 100
  ELSE y % 1000

Strftime(format, t) ==
  LET day == LocalDay(t)
  IN  Text(format, day.d, day.m, IF HasFullYear(format) THEN day.y ELSE ShortYear(day.y))

FieldOf(format, field, text) == text[CHOOSE i \in DOMAIN format : format[i] = field]

(* %y: from 69 on as it is, the rest a century after Date's.               *)
ReadYear(format, text) ==
  IF HasFullYear(format) THEN FieldOf(format, "%Y", text)
  ELSE LET y == FieldOf(format, "%y", text) IN
       IF y >= 69 THEN y ELSE MakeDate(1, 1, y).y + 100

Strptime(format, text) ==
  UTCDate(FieldOf(format, "%d", text), FieldOf(format, "%m", text), ReadYear(format, text))

-----------------------------------------------------------------------------
CalendarInit ==
  /\ order \in Formats /\ firstDay \in FirstDays /\ zone \in Zones
  /\ month = Today.m /\ year = Today.y   \* drawn when the page was loaded
  /\ selected = Moment(noDate, 0)
  /\ displayed = FALSE /\ value = <<>> /\ clicked = noDate

(* A text that is no date, or one of a year without four digits, is not    *)
(* drawn.                                                                  *)
Drawable(text) ==
  /\ Len(text) >= 3
  /\ LET day == UTCDay(Strptime(order, text)) IN day.y >= 1000 /\ day.m \in 1..12

(* openCalendar: the month of the date in the input is drawn; without one, *)
(* what was drawn before is shown again.                                   *)
OpenCalendar ==
  /\ displayed' = TRUE
  /\ IF Drawable(value)
     THEN LET read == Strptime(order, value)
          IN  selected' = read /\ month' = UTCDay(read).m /\ year' = UTCDay(read).y
     ELSE UNCHANGED <<month, year, selected>>
  /\ UNCHANGED <<order, firstDay, zone, value, clicked>>

DismissCalendar ==
  /\ displayed /\ displayed' = FALSE
  /\ UNCHANGED <<order, firstDay, zone, month, year, selected, value, clicked>>

DrawPreviousMonth ==
  /\ displayed
  /\ month' = IF month = 1 THEN 12 ELSE month - 1
  /\ year'  = IF month = 1 THEN year - 1 ELSE year
  /\ year' \in Years
  /\ UNCHANGED <<order, firstDay, zone, selected, displayed, value, clicked>>

DrawNextMonth ==
  /\ displayed
  /\ month' = IF month = 12 THEN 1 ELSE month + 1
  /\ year'  = IF month = 12 THEN year + 1 ELSE year
  /\ year' \in Years
  /\ UNCHANGED <<order, firstDay, zone, selected, displayed, value, clicked>>

(* handleCalendarCallback: a cell is clicked.                              *)
ClickDay(d) ==
  /\ displayed /\ displayed' = FALSE
  /\ d \in 1..GetDaysInMonth(month, year)
  /\ value' = Strftime(order, LocalDate(d, month, year))
  /\ clicked' = Date(d, month, year)
  /\ UNCHANGED <<order, firstDay, zone, month, year, selected>>

(* Something is typed: a date, its year in full or short, or another text. *)
TypeText(text) ==
  /\ value' = text
  /\ clicked' = noDate
  /\ UNCHANGED <<order, firstDay, zone, month, year, selected, displayed>>

TypeDate(date) == TypeText(Text(order, date.d, date.m, date.y))
TypeOther      == TypeText(<<0>>)

CalendarNext ==
  \/ OpenCalendar \/ DismissCalendar \/ DrawPreviousMonth \/ DrawNextMonth
  \/ \E d \in Days : ClickDay(d)
  \/ \E date \in Typed : TypeDate(date)
  \/ TypeOther

CalendarSpec == CalendarInit /\ [][CalendarNext]_calendarVars

-----------------------------------------------------------------------------
(* Each month that is drawn ends on the day of the week before the one the *)
(* next month starts with: the script's own table of days agrees with the  *)
(* browser's Date, in every year and for every first day of the week.      *)
MonthsJoinUp ==
  (StartingPos(month, year) + GetDaysInMonth(month, year)) % 7
    = StartingPos((month % 12) + 1, year + (month \div 12))

(* A day clicked in the calendar is the day that is marked when the        *)
(* calendar is open again, in every time zone and format, although it was  *)
(* written in local time and is read in UTC: from the year 1000 on, and    *)
(* with two-digit years from 1969 to 2068.                                 *)
PickedDayIsRead ==
  displayed /\ clicked.y >= 1000 /\ (clicked.y \in 1969..2068 \/ HasFullYear(order))
    => SelectedDay = clicked
=============================================================================
