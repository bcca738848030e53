----------------------------- MODULE MCRunTags -----------------------------
(* Instances of RunTags for TLC, on those of Pivot. The expiry of the      *)
(* first run falls on a leap day, that of a later one on the day after.    *)
EXTENDS MCPivot, RunTags

Always == {TRUE}
Never  == {FALSE}

(* The calendar's conversions on the first days and the last of every      *)
(* month, around the leap rules' boundaries and past one 400-year cycle.   *)
YearsChecked == (1970 .. 1973) \cup (1999 .. 2032) \cup {2099, 2100, 2101}
                  \cup {2369, 2370, 2371, 2400, 2401}

DatesChecked ==
  {<<y, m_, d>> : y \in YearsChecked, m_ \in 1 .. 12, d \in {1, 2, 27, 28}}
    \cup {<<y, m_, DaysInMonth(y, m_)>> : y \in YearsChecked, m_ \in 1 .. 12}

ASSUME CalendarsAgree == \A date \in DatesChecked : Exact(date)
=============================================================================
