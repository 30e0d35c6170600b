---------------------------- MODULE MCBrowserPages ----------------------------
(* The dates of BrowserPages for TLC.                                      *)
EXTENDS BrowserPages

(* A century that is not leap, one that is, the ends of a two-digit year's *)
(* reach and the century after it.                                         *)
MCYears == {1900, 1999, 2000, 2068, 2069, 2100}

(* Dates that are typed to get to them, three of which do not exist, and   *)
(* one that is not drawn.                                                  *)
MCTyped == {Date(28, 2, 1900), Date(31, 12, 2068), Date(30, 2, 2100), Date(5, 13, 1968),
            Date(0, 1, 69), Date(1, 1, 999)}

(* A place west of Greenwich and one east of it.                           *)
MCZones == {-8, 3}

MCToday == Date(31, 1, 2000)
=============================================================================
