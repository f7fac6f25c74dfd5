----------------------------- MODULE MonthCycle -----------------------------
(***************************************************************************)
(* The financial month (utils/period.py).  A user's month starts on a day  *)
(* of their own, 1 to 28; the cycle labelled with a year and a month runs  *)
(* from that day to the day before it in the next month.                   *)
(***************************************************************************)
EXTENDS Integers

Labels == [year : Nat, month : 1..12]
Date(l, d) == [year |-> l.year, month |-> l.month, day |-> d]
LabelOf(date) == [year |-> date.year, month |-> date.month]

IsLeap(y) == y % 4 = 0 /\ (y % 100 # 0 \/ y % 400 = 0)
MonthDays(l) == IF l.month = 2 THEN IF IsLeap(l.year) THEN 29 ELSE 28
                ELSE IF l.month \in {4, 6, 9, 11} THEN 30 ELSE 31
Dates == {date \in [year : Nat, month : 1..12, day : 1..31] :
            date.day <= MonthDays(LabelOf(date))}

\* Where a month and a date stand in time.
MonthNumber(l) == 12 * l.year + l.month
Order(date) == 32 * MonthNumber(date) + date.day

ClampDay(d) == IF d < 1 THEN 1 ELSE IF d > 28 THEN 28 ELSE d
NextMonth(l) == IF l.month = 12 THEN [year |-> l.year + 1, month |-> 1]
                ELSE [l EXCEPT !.month = @ + 1]
PrevMonth(l) == IF l.month = 1 THEN [year |-> l.year - 1, month |-> 12]
                ELSE [l EXCEPT !.month = @ - 1]

DayBefore(date) == IF date.day > 1 THEN [date EXCEPT !.day = @ - 1]
                   ELSE LET l == PrevMonth(LabelOf(date)) IN Date(l, MonthDays(l))
DayAfter(date) == IF date.day < MonthDays(LabelOf(date)) THEN [date EXCEPT !.day = @ + 1]
                  ELSE Date(NextMonth(LabelOf(date)), 1)

PeriodWindowTooLong(l, startDay) ==      \* mutant: the next cycle's first day too
  [start |-> Date(l, ClampDay(startDay)), end |-> Date(NextMonth(l), ClampDay(startDay))]

\* The cycle labelled l, both ends included.
PeriodWindow(l, startDay) ==
  [start |-> Date(l, ClampDay(startDay)),
   end   |-> DayBefore(Date(NextMonth(l), ClampDay(startDay)))]
Holds(w, date) == Order(w.start) <= Order(date) /\ Order(date) <= Order(w.end)

\* Asked for the month of today before its start day: the one before is meant.
ResolveAnchor(l, startDay, today) ==
  IF l = LabelOf(today) /\ today.day < ClampDay(startDay) THEN PrevMonth(l) ELSE l
CurrentLabel(startDay, today) == ResolveAnchor(LabelOf(today), startDay, today)

\* n months before l.
Back(l, n) == LET before == MonthNumber(l) - 1 - n
              IN  [year |-> before \div 12, month |-> (before % 12) + 1]

CurrentWindow(startDay, today) == PeriodWindow(CurrentLabel(startDay, today), startDay)
PreviousWindowByDate(startDay, today) == \* mutant: as if the cycle had begun
  PeriodWindow(PrevMonth(LabelOf(today)), startDay)
PreviousWindow(startDay, today) ==
  PeriodWindow(PrevMonth(CurrentLabel(startDay, today)), startDay)

\* The n cycles before the current one, or up to it; the oldest is the first.
RecentWindows(startDay, today, n, withCurrent) ==
  LET last == IF withCurrent THEN CurrentLabel(startDay, today)
              ELSE PrevMonth(CurrentLabel(startDay, today))
  IN  [i \in 1..n |-> PeriodWindow(Back(last, n - i), startDay)]
=============================================================================
