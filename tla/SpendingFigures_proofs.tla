------------------------ MODULE SpendingFigures_proofs ------------------------
(***************************************************************************)
(* Proofs about the financial month, for every year, start day and date,   *)
(* and about what the pages that sum expenses by it say, for any number of *)
(* users, expenses and categories.                                         *)
(***************************************************************************)
EXTENDS SpendingFigures, Sums_proofs

-----------------------------------------------------------------------------
(* The financial month *)

\* A start day is one that every month has.
LEMMA ClampRange == ASSUME NEW d \in Int PROVE ClampDay(d) \in 1..28
BY DEF ClampDay

\* A month has 28 to 31 days.
LEMMA MonthDaysRange == ASSUME NEW l \in Labels PROVE MonthDays(l) \in 28..31
BY DEF MonthDays, Labels

\* The month after a month is a month.
LEMMA NextIsLabel == ASSUME NEW l \in Labels PROVE NextMonth(l) \in Labels
BY DEF NextMonth, Labels

\* Stepping forward and back returns to where one was.
LEMMA PrevOfNext == ASSUME NEW l \in Labels PROVE PrevMonth(NextMonth(l)) = l
<1>1. CASE l.month = 12
  <2>1. NextMonth(l) = [year |-> l.year + 1, month |-> 1]
    BY <1>1 DEF NextMonth
  <2>2. PrevMonth(NextMonth(l)) = [year |-> l.year, month |-> 12]
    BY <2>1, <1>1 DEF PrevMonth, Labels
  <2> QED BY <2>2, <1>1 DEF Labels
<1>2. CASE l.month # 12
  <2>1. NextMonth(l) = [year |-> l.year, month |-> l.month + 1]
    BY <1>2 DEF NextMonth, Labels
  <2>2. PrevMonth(NextMonth(l)) = [year |-> l.year, month |-> l.month]
    BY <2>1, <1>2 DEF PrevMonth, Labels
  <2> QED BY <2>2 DEF Labels
<1> QED BY <1>1, <1>2

\* The day before a start day: in the same month, or the last of the one before.
LEMMA DayBeforeStart ==
  ASSUME NEW l \in Labels, NEW s \in 1..28
  PROVE  DayBefore(Date(NextMonth(l), s)) =
           IF s > 1 THEN Date(NextMonth(l), s - 1) ELSE Date(l, MonthDays(l))
<1>1. NextMonth(l) \in Labels
  BY NextIsLabel
<1>2. LabelOf(Date(NextMonth(l), s)) = NextMonth(l)
  BY <1>1 DEF LabelOf, Date, Labels
<1>3. Date(NextMonth(l), s).day = s
  BY DEF Date
<1>4. CASE s > 1
  <2>1. DayBefore(Date(NextMonth(l), s)) = [Date(NextMonth(l), s) EXCEPT !.day = @ - 1]
    BY <1>3, <1>4 DEF DayBefore
  <2> QED BY <2>1, <1>4 DEF Date
<1>5. CASE s = 1
  <2>1. DayBefore(Date(NextMonth(l), s))
          = Date(PrevMonth(NextMonth(l)), MonthDays(PrevMonth(NextMonth(l))))
    BY <1>2, <1>3, <1>5 DEF DayBefore
  <2> QED BY <2>1, <1>5, PrevOfNext
<1> QED BY <1>4, <1>5

\* Cycles adjoin: the day after one cycle's last is the next one's first, so
\* that no day falls between two (period_window).
THEOREM CyclesAdjoin ==
  ASSUME NEW l \in Labels, NEW sd \in Int
  PROVE  DayAfter(PeriodWindow(l, sd).end) = PeriodWindow(NextMonth(l), sd).start
<1> DEFINE s == ClampDay(sd)
           n == NextMonth(l)
<1>1. s \in 1..28
  BY ClampRange
<1>2. n \in Labels /\ MonthDays(n) \in 28..31 /\ MonthDays(l) \in 28..31
  BY NextIsLabel, MonthDaysRange
<1>3. PeriodWindow(l, sd).end = IF s > 1 THEN Date(n, s - 1) ELSE Date(l, MonthDays(l))
  BY <1>1, DayBeforeStart DEF PeriodWindow
<1>4. PeriodWindow(NextMonth(l), sd).start = Date(n, s)
  BY DEF PeriodWindow
<1>5. CASE s > 1
  <2>1. LabelOf(Date(n, s - 1)) = n
    BY <1>2 DEF LabelOf, Date, Labels
  <2>2. Date(n, s - 1).day = s - 1
    BY DEF Date
  <2>3. DayAfter(Date(n, s - 1)) = [Date(n, s - 1) EXCEPT !.day = @ + 1]
    BY <1>1, <1>2, <1>5, <2>1, <2>2 DEF DayAfter
  <2>4. [Date(n, s - 1) EXCEPT !.day = @ + 1] = Date(n, s)
    BY <1>1 DEF Date
  <2> QED BY <1>3, <1>4, <1>5, <2>3, <2>4
<1>6. CASE s = 1
  <2>1. LabelOf(Date(l, MonthDays(l))) = l
    BY DEF LabelOf, Date, Labels
  <2>2. Date(l, MonthDays(l)).day = MonthDays(l)
    BY DEF Date
  <2>3. DayAfter(Date(l, MonthDays(l))) = Date(n, 1)
    BY <1>2, <2>1, <2>2 DEF DayAfter
  <2> QED BY <1>3, <1>4, <1>6, <2>3
<1> QED BY <1>1, <1>5, <1>6

\* The month before one is a month, except before the year 0 begins, and one
\* less in the count of months.
LEMMA PrevIsLabel ==
  ASSUME NEW l \in Labels, MonthNumber(l) > 1
  PROVE  /\ PrevMonth(l) \in Labels /\ NextMonth(PrevMonth(l)) = l
         /\ MonthNumber(PrevMonth(l)) = MonthNumber(l) - 1
<1>0. l.month = 1 => l.year # 0
  BY DEF MonthNumber, Labels
<1>1. CASE l.month = 1
  <2>1. PrevMonth(l) = [year |-> l.year - 1, month |-> 12]
    BY <1>1 DEF PrevMonth
  <2>2. NextMonth(PrevMonth(l)) = [year |-> l.year, month |-> 1]
    BY <2>1 DEF NextMonth, Labels
  <2>3. [year |-> l.year, month |-> 1] = l
    BY <1>1 DEF Labels
  <2> QED BY <1>0, <1>1, <2>1, <2>2, <2>3 DEF Labels, MonthNumber
<1>2. CASE l.month # 1
  <2>1. PrevMonth(l) = [year |-> l.year, month |-> l.month - 1]
    BY <1>2 DEF PrevMonth, Labels
  <2>2. NextMonth(PrevMonth(l)) = [year |-> l.year, month |-> l.month]
    BY <2>1, <1>2 DEF NextMonth, Labels
  <2>3. [year |-> l.year, month |-> l.month] = l
    BY DEF Labels
  <2> QED BY <1>2, <2>1, <2>2, <2>3 DEF Labels, MonthNumber
<1> QED BY <1>1, <1>2

\* The next month is one more in the count of months.
LEMMA NextNumber ==
  ASSUME NEW l \in Labels PROVE MonthNumber(NextMonth(l)) = MonthNumber(l) + 1
<1>1. CASE l.month = 12
  BY <1>1 DEF NextMonth, MonthNumber, Labels
<1>2. CASE l.month # 12
  <2>1. NextMonth(l) = [year |-> l.year, month |-> l.month + 1]
    BY <1>2 DEF NextMonth, Labels
  <2> QED BY <2>1 DEF MonthNumber, Labels
<1> QED BY <1>1, <1>2

\* Dates are ordered by their month and then by their day.
LEMMA OrderOfDate ==
  ASSUME NEW l \in Labels, NEW d \in Int PROVE Order(Date(l, d)) = 32 * MonthNumber(l) + d
BY DEF Order, Date, MonthNumber, Labels

\* Months are counted by integers.
LEMMA NumberIsInt == ASSUME NEW l \in Labels PROVE MonthNumber(l) \in Int
BY DEF MonthNumber, Labels

\* Where a cycle begins and ends in time.
LEMMA Bounds ==
  ASSUME NEW l \in Labels, NEW sd \in Int
  PROVE  LET s == ClampDay(sd)
             w == PeriodWindow(l, sd)
         IN  /\ s \in 1..28
             /\ w.start = Date(l, s) /\ Order(w.start) = 32 * MonthNumber(l) + s
             /\ w.end = IF s > 1 THEN Date(NextMonth(l), s - 1) ELSE Date(l, MonthDays(l))
             /\ Order(w.end) = IF s > 1 THEN 32 * MonthNumber(l) + 32 + s - 1
                               ELSE 32 * MonthNumber(l) + MonthDays(l)
<1> DEFINE s == ClampDay(sd)
           n == NextMonth(l)
           w == PeriodWindow(l, sd)
<1>1. s \in 1..28
  BY ClampRange
<1>2. n \in Labels /\ MonthNumber(n) = MonthNumber(l) + 1 /\ MonthNumber(l) \in Int
  BY NextIsLabel, NextNumber, NumberIsInt
<1>3. w.start = Date(l, s)
  BY DEF PeriodWindow
<1>4. Order(w.start) = 32 * MonthNumber(l) + s
  BY <1>1, <1>3, OrderOfDate
<1>5. w.end = IF s > 1 THEN Date(n, s - 1) ELSE Date(l, MonthDays(l))
  BY <1>1, DayBeforeStart DEF PeriodWindow
<1>6. MonthDays(l) \in Int
  BY MonthDaysRange
<1>7. CASE s > 1
  <2>1. Order(Date(n, s - 1)) = 32 * MonthNumber(n) + (s - 1)
    BY <1>1, <1>2, OrderOfDate
  <2> QED BY <1>1, <1>2, <1>3, <1>4, <1>5, <1>7, <2>1
<1>8. CASE s = 1
  <2>1. Order(Date(l, MonthDays(l))) = 32 * MonthNumber(l) + MonthDays(l)
    BY <1>6, OrderOfDate
  <2> QED BY <1>1, <1>3, <1>4, <1>5, <1>8, <2>1
<1> QED BY <1>1, <1>7, <1>8

\* A date is a day of its own month.
LEMMA DateParts ==
  ASSUME NEW date \in Dates
  PROVE  /\ LabelOf(date) \in Labels /\ date.day \in 1..MonthDays(LabelOf(date))
         /\ date = Date(LabelOf(date), date.day)
         /\ Order(date) = 32 * MonthNumber(LabelOf(date)) + date.day
<1>1. LabelOf(date) \in Labels /\ date.day \in 1..31 /\ date.day <= MonthDays(LabelOf(date))
  BY DEF Dates, LabelOf, Labels
<1>2. date = Date(LabelOf(date), date.day)
  BY DEF Dates, LabelOf, Date
<1>3. Order(date) = 32 * MonthNumber(LabelOf(date)) + date.day
  BY DEF Order, MonthNumber, LabelOf
<1>4. MonthDays(LabelOf(date)) \in 28..31
  BY <1>1, MonthDaysRange
<1> QED BY <1>1, <1>2, <1>3, <1>4

\* What is called the current month is a month, of the year before at the worst.
LEMMA CurrentIsLabel ==
  ASSUME NEW day \in Dates, day.year # 0, NEW sd \in Int
  PROVE  CurrentLabel(sd, day) \in Labels /\ MonthNumber(CurrentLabel(sd, day)) >= 12
<1>1. LabelOf(day) \in Labels /\ LabelOf(day).year # 0
  BY DateParts DEF LabelOf
<1>2. MonthNumber(LabelOf(day)) >= 13 /\ MonthNumber(LabelOf(day)) \in Int
  BY <1>1 DEF MonthNumber, Labels
<1> QED BY <1>1, <1>2, PrevIsLabel DEF CurrentLabel, ResolveAnchor

\* The cycle that is called the current one has today in it, wherever in a
\* month today is (resolve_anchor, current_period_window).
THEOREM CurrentHoldsToday ==
  ASSUME NEW day \in Dates, day.year # 0, NEW sd \in Int
  PROVE  Holds(CurrentWindow(sd, day), day)
<1> DEFINE s == ClampDay(sd)
           l == LabelOf(day)
           p == PrevMonth(l)
<1>1. /\ l \in Labels /\ day.day \in 1..MonthDays(l) /\ MonthDays(l) \in 28..31
      /\ Order(day) = 32 * MonthNumber(l) + day.day /\ MonthNumber(l) \in Int
  BY DateParts, MonthDaysRange, NumberIsInt
<1>2. MonthNumber(l) > 1
  BY <1>1 DEF LabelOf, MonthNumber, Labels
<1>3. s \in 1..28
  BY ClampRange
<1>4. CASE day.day < s
  <2>1. CurrentLabel(sd, day) = p
    BY <1>4 DEF CurrentLabel, ResolveAnchor
  <2>2. p \in Labels /\ MonthNumber(p) = MonthNumber(l) - 1
    BY <1>1, <1>2, PrevIsLabel
  <2>3. /\ Order(PeriodWindow(p, sd).start) = 32 * MonthNumber(p) + s
        /\ Order(PeriodWindow(p, sd).end) = 32 * MonthNumber(p) + 32 + s - 1
    BY <1>1, <1>3, <1>4, <2>2, Bounds
  <2> QED BY <1>1, <1>3, <1>4, <2>1, <2>2, <2>3 DEF CurrentWindow, Holds
<1>5. CASE ~ (day.day < s)
  <2>1. CurrentLabel(sd, day) = l
    BY <1>5 DEF CurrentLabel, ResolveAnchor
  <2>2. /\ Order(PeriodWindow(l, sd).start) = 32 * MonthNumber(l) + s
        /\ Order(PeriodWindow(l, sd).end) =
             IF s > 1 THEN 32 * MonthNumber(l) + 32 + s - 1
             ELSE 32 * MonthNumber(l) + MonthDays(l)
    BY <1>1, Bounds
  <2> QED BY <1>1, <1>3, <1>5, <2>1, <2>2 DEF CurrentWindow, Holds
<1> QED BY <1>4, <1>5

\* No day is in two cycles, so that no expense is counted twice.
THEOREM OneCycle ==
  ASSUME NEW k \in Labels, NEW l \in Labels, NEW sd \in Int, NEW date \in Dates,
         Holds(PeriodWindow(k, sd), date), Holds(PeriodWindow(l, sd), date)
  PROVE  k = l
<1> DEFINE s == ClampDay(sd)
<1>1. /\ s \in 1..28 /\ MonthNumber(k) \in Int /\ MonthNumber(l) \in Int
      /\ MonthDays(k) \in 28..31 /\ MonthDays(l) \in 28..31
  BY ClampRange, NumberIsInt, MonthDaysRange
<1>2. /\ 32 * MonthNumber(k) + s <= Order(date) /\ Order(date) < 32 * MonthNumber(k) + 32 + s
      /\ Order(date) \in Int
  <2>1. Order(date) \in Int
    BY DateParts, NumberIsInt, MonthDaysRange
  <2> QED BY <1>1, <2>1, Bounds DEF Holds
<1>3. 32 * MonthNumber(l) + s <= Order(date) /\ Order(date) < 32 * MonthNumber(l) + 32 + s
  BY <1>1, <1>2, Bounds DEF Holds
<1>4. MonthNumber(k) = MonthNumber(l)
  BY <1>1, <1>2, <1>3
<1>5. k.year = l.year /\ k.month = l.month
  BY <1>4 DEF MonthNumber, Labels
<1> QED BY <1>5 DEF Labels

\* On the day after a cycle's last day that cycle is the previous one, and the
\* next one is current (previous_period_window).
THEOREM CycleBecomesPrevious ==
  ASSUME NEW day \in Dates, day.year # 0, NEW sd \in Int,
         day = CurrentWindow(sd, day).end
  PROVE  /\ CurrentLabel(sd, DayAfter(day)) = NextMonth(CurrentLabel(sd, day))
         /\ PreviousWindow(sd, DayAfter(day)) = CurrentWindow(sd, day)
<1> DEFINE s == ClampDay(sd)
           c == CurrentLabel(sd, day)
           n == NextMonth(c)
<1>1. c \in Labels /\ n \in Labels
  BY CurrentIsLabel, NextIsLabel
<1>2. DayAfter(day) = PeriodWindow(n, sd).start
  BY <1>1, CyclesAdjoin DEF CurrentWindow
<1>3. DayAfter(day) = Date(n, s) /\ s \in 1..28
  BY <1>1, <1>2, Bounds
<1>4. LabelOf(DayAfter(day)) = n /\ DayAfter(day).day = s
  BY <1>1, <1>3 DEF LabelOf, Date, Labels
<1>5. CurrentLabel(sd, DayAfter(day)) = n
  BY <1>3, <1>4 DEF CurrentLabel, ResolveAnchor
<1>6. PrevMonth(n) = c
  BY <1>1, PrevOfNext
<1> QED BY <1>5, <1>6 DEF PreviousWindow, CurrentWindow

-----------------------------------------------------------------------------
(* Types *)

\* The day after a date is a date, in the same month or the first of the next.
LEMMA DayAfterIsDate ==
  ASSUME NEW day \in Dates, day.year # 0
  PROVE  /\ DayAfter(day) \in Dates /\ DayAfter(day).year # 0
         /\ DayAfter(day) = IF day.day < MonthDays(LabelOf(day)) THEN Date(LabelOf(day), day.day + 1)
                            ELSE Date(NextMonth(LabelOf(day)), 1)
<1> DEFINE l == LabelOf(day)
<1>1. /\ l \in Labels /\ day.day \in 1..MonthDays(l) /\ MonthDays(l) \in 28..31
      /\ day = Date(l, day.day) /\ l.year # 0
  BY DateParts, MonthDaysRange DEF LabelOf
<1>2. NextMonth(l) \in Labels /\ MonthDays(NextMonth(l)) \in 28..31
  BY <1>1, NextIsLabel, MonthDaysRange
<1>3. CASE day.day < MonthDays(l)
  <2>1. DayAfter(day) = Date(l, day.day + 1)
    BY <1>1, <1>3 DEF DayAfter, Date, Dates
  <2>2. LabelOf(Date(l, day.day + 1)) = l
    BY <1>1 DEF LabelOf, Date, Labels
  <2> QED
    BY <1>1, <1>3, <2>1, <2>2 DEF Dates, Date, Labels
<1>4. CASE ~ (day.day < MonthDays(l))
  <2>1. DayAfter(day) = Date(NextMonth(l), 1)
    BY <1>4 DEF DayAfter
  <2>2. LabelOf(Date(NextMonth(l), 1)) = NextMonth(l)
    BY <1>2 DEF LabelOf, Date, Labels
  <2>3. NextMonth(l).year # 0
    BY <1>1 DEF NextMonth, Labels
  <2> QED
    BY <1>2, <1>4, <2>1, <2>2, <2>3 DEF Dates, Date, Labels
<1> QED
  BY <1>3, <1>4

\* Rows and settings are well formed, finitely many rows are saved, and the year
\* is one that Python's dates have.
TypeInv == TypeOK /\ today.year # 0 /\ IsFiniteSet(Saved)

\* The books a program starts with are of their types.
LEMMA TypeInit == Init => TypeInv
<1> SUFFICES ASSUME Init PROVE TypeInv
  OBVIOUS
<1>1. Saved = {}
  BY DEF Init, Saved
<1>2. TypeOK
  BY FiguresAssumption DEF Init, TypeOK
<1> QED
  BY <1>1, <1>2, FiguresAssumption, FS_EmptySet DEF Init, TypeInv

\* What is saved or corrected is a row, of an id that was free or its own.
LEMMA TypeRow ==
  ASSUME TypeInv, NEW i \in Ids, NEW r \in Row \union {NoRow},
         rows' = [rows EXCEPT ![i] = r], UNCHANGED <<parent, startDay, income, today>>
  PROVE  TypeInv'
<1>1. Saved' \subseteq Saved \union {i}
  BY DEF Saved, TypeInv, TypeOK
<1>2. IsFiniteSet(Saved \union {i})
  BY FS_AddElement DEF TypeInv
<1>3. IsFiniteSet(Saved')
  BY <1>1, <1>2, FS_Subset
<1> QED
  BY <1>3 DEF TypeInv, TypeOK

\* No operation breaks the types.
LEMMA TypeStep == TypeInv /\ [Next]_vars => TypeInv'
<1> SUFFICES ASSUME TypeInv, [Next]_vars PROVE TypeInv'
  OBVIOUS
<1>1. ASSUME NEW i \in Ids, Erase(i) PROVE TypeInv'
  BY <1>1, TypeRow DEF Erase
<1>2. ASSUME NEW i \in Ids, NEW r \in Row, Save(i, r) PROVE TypeInv'
  BY <1>2, TypeRow DEF Save
<1>3. ASSUME NEW i \in Ids, NEW r \in Row, Correct(i, r) PROVE TypeInv'
  BY <1>3, TypeRow DEF Correct
<1>4. ASSUME NEW c \in Cats, DropCategory(c) PROVE TypeInv'
  <2>1. \A i \in Ids : rows'[i] = rows[i] \/ (i \in Saved /\ rows'[i] = [rows[i] EXCEPT !.cat = NoCat])
    BY <1>4 DEF DropCategory
  <2>2. ASSUME NEW i \in Ids PROVE rows'[i] \in Row \union {NoRow}
    <3>1. CASE rows'[i] = rows[i]
      BY <3>1 DEF TypeInv, TypeOK
    <3>2. CASE i \in Saved /\ rows'[i] = [rows[i] EXCEPT !.cat = NoCat]
      <4>1. rows[i] \in Row
        BY <3>2 DEF TypeInv, TypeOK, Saved
      <4> DEFINE r == rows[i]
      <4>2. [r EXCEPT !.cat = NoCat] \in Row
        BY <4>1 DEF Row
      <4> QED
        BY <3>2, <4>2
    <3> QED
      BY <2>1, <3>1, <3>2
  <2>3. DOMAIN rows' = Ids /\ rows' = [i \in Ids |-> rows'[i]]
    BY <1>4 DEF DropCategory
  <2>4. rows' \in [Ids -> Row \union {NoRow}]
    BY <2>2, <2>3
  <2>5. parent' \in [Cats -> Cats \union {"root", "gone"}]
    BY <1>4 DEF DropCategory, TypeInv, TypeOK
  <2>6. UNCHANGED <<startDay, income, today>>
    BY <1>4 DEF DropCategory
  <2>7. Saved' \subseteq Saved
    BY <2>1 DEF Saved
  <2>8. IsFiniteSet(Saved')
    BY <2>7, FS_Subset DEF TypeInv
  <2> QED
    BY <2>4, <2>5, <2>6, <2>8 DEF TypeInv, TypeOK
<1>5. ASSUME NEW c \in Cats, NEW p \in Cats \union {"root"}, Drag(c, p) PROVE TypeInv'
  BY <1>5 DEF Drag, TypeInv, TypeOK, Saved
<1>6. ASSUME NEW u \in Users, NEW d \in StartDays, SetStartDay(u, d) PROVE TypeInv'
  <2>1. ClampDay(d) \in 0..28
    BY FiguresAssumption, ClampRange
  <2> QED
    BY <1>6, <2>1 DEF SetStartDay, TypeInv, TypeOK, Saved
<1>7. ASSUME NEW u \in Users, NEW x \in Incomes, SetIncome(u, x) PROVE TypeInv'
  BY <1>7 DEF SetIncome, TypeInv, TypeOK, Saved
<1>8. CASE Midnight
  <2>1. DayAfter(today) \in Dates /\ DayAfter(today).year # 0
    BY DayAfterIsDate DEF TypeInv, TypeOK
  <2> QED
    BY <1>8, <2>1 DEF Midnight, TypeInv, TypeOK, Saved
<1>9. CASE UNCHANGED vars
  BY <1>9 DEF vars, TypeInv, TypeOK, Saved
<1> QED
  BY <1>1, <1>2, <1>3, <1>4, <1>5, <1>6, <1>7, <1>8, <1>9 DEF Next

\* Rows, categories and settings stay well formed, finitely many rows are saved
\* and today is a date, whatever is saved, dragged or deleted.
THEOREM TypeCorrect == Spec => []TypeInv
BY TypeInit, TypeStep, PTL DEF Spec

-----------------------------------------------------------------------------
(* Sums of amounts *)

AmountsOf(r, S) == [i \in S |-> r[i].amount]
TotalOf(r, S) == SumOf(AmountsOf(r, S), S)

\* The community module's sum of the rows' amounts is the sum of a function.
LEMMA AmountSum ==
  ASSUME NEW r, NEW S
  PROVE  MapThenSumSet(LAMBDA i : r[i].amount, S) = TotalOf(r, S)
<1> DEFINE f == AmountsOf(r, S)
           A(g) == [U \in SUBSET S |-> IF U = {} THEN 0
                      ELSE r[Chosen(U)].amount + g[U \ {Chosen(U)}]]
<1>1. MapThenSumSet(LAMBDA i : r[i].amount, S) = (CHOOSE g : g = A(g))[S]
  BY Zenon DEF MapThenSumSet, MapThenFoldSet, Chosen
<1>2. SumOf(f, S) = (CHOOSE g : g = Unfolded(f, S, g))[S]
  BY Zenon DEF SumOf, MapThenSumSet, MapThenFoldSet, Unfolded, Chosen
<1>3. ASSUME NEW g PROVE A(g) = Unfolded(f, S, g)
  <2>1. ASSUME NEW U \in SUBSET S, U # {} PROVE r[Chosen(U)].amount = f[Chosen(U)]
    <3>1. Chosen(U) \in S
      BY <2>1, ChosenIn
    <3> QED
      BY <3>1 DEF AmountsOf
  <2> HIDE DEF f
  <2> QED
    BY <2>1 DEF Unfolded
<1> HIDE DEF A, f
<1>4. (CHOOSE g : g = A(g)) = (CHOOSE g : g = Unfolded(f, S, g))
  BY <1>3, Zenon
<1> QED
  BY <1>1, <1>2, <1>4 DEF f, TotalOf

\* The same of the current rows.
LEMMA TotalIs == \A S : Total(S) = TotalOf(rows, S)
BY AmountSum DEF Total

\* Amounts of saved rows are numbers, of which there are finitely many.
LEMMA SavedAmounts ==
  ASSUME TypeInv, NEW S, S \subseteq Saved
  PROVE  /\ IsFiniteSet(S) /\ Total(S) \in Nat
         /\ \A i \in S : rows[i].amount \in Nat /\ AmountsOf(rows, S)[i] = rows[i].amount
<1>1. IsFiniteSet(S)
  BY FS_Subset DEF TypeInv
<1>2. \A i \in S : rows[i] \in Row
  BY DEF TypeInv, TypeOK, Saved
<1>3. \A i \in S : rows[i].amount \in Nat
  BY <1>2, FiguresAssumption DEF Row
<1>4. \A i \in S : AmountsOf(rows, S)[i] = rows[i].amount
  BY DEF AmountsOf
<1>5. SumOf(AmountsOf(rows, S), S) \in Nat
  BY <1>1, <1>3, <1>4, SumNat
<1> QED
  BY <1>1, <1>3, <1>4, <1>5, TotalIs DEF TotalOf

\* Two sets of rows without a common one add up.
LEMMA TotalUnion ==
  ASSUME TypeInv, NEW S, NEW R, S \subseteq Saved, R \subseteq Saved, S \intersect R = {}
  PROVE  Total(S \union R) = Total(S) + Total(R)
<1> DEFINE f == AmountsOf(rows, S \union R)
<1>1. IsFiniteSet(S) /\ IsFiniteSet(R)
  BY SavedAmounts
<1>2. \A i \in S \union R : rows[i].amount \in Nat /\ f[i] = rows[i].amount
  <2>1. S \union R \subseteq Saved
    OBVIOUS
  <2> QED
    BY <2>1, SavedAmounts
<1>3. SumOf(f, S) = Total(S)
  <2>1. \A i \in S : f[i] = AmountsOf(rows, S)[i]
    BY DEF AmountsOf
  <2> HIDE DEF f
  <2> QED
    BY <2>1, SumSame, TotalIs DEF TotalOf
<1>4. SumOf(f, R) = Total(R)
  <2>1. \A i \in R : f[i] = AmountsOf(rows, R)[i]
    BY DEF AmountsOf
  <2> HIDE DEF f
  <2> QED
    BY <2>1, SumSame, TotalIs DEF TotalOf
<1>5. SumOf(f, S \union R) = Total(S \union R)
  BY TotalIs DEF TotalOf
<1> HIDE DEF f
<1>6. SumOf(f, S \union R) = SumOf(f, S) + SumOf(f, R)
  BY <1>1, <1>2, SumUnion
<1> QED
  BY <1>3, <1>4, <1>5, <1>6

\* Totals by the values of a key, of which K are all.
TotalsBy(S, key, K) == [k \in K |-> Total({i \in S : key[i] = k})]

\* Added up, they are the total.
LEMMA TotalGroups ==
  ASSUME TypeInv, NEW S, S \subseteq Saved, NEW key, NEW K, IsFiniteSet(K),
         \A i \in S : key[i] \in K
  PROVE  SumOf(TotalsBy(S, key, K), K) = Total(S)
<1> DEFINE f == AmountsOf(rows, S)
           t == TotalsBy(S, key, K)
<1>1. IsFiniteSet(S) /\ \A i \in S : f[i] \in Nat
  BY SavedAmounts
<1>2. ASSUME NEW k \in K PROVE t[k] = SumOf(f, {i \in S : key[i] = k})
  <2> DEFINE R == {i \in S : key[i] = k}
  <2>1. \A i \in R : f[i] = AmountsOf(rows, R)[i]
    BY DEF AmountsOf
  <2>2. t[k] = Total(R)
    BY DEF TotalsBy
  <2> HIDE DEF f, R, t
  <2>3. t[k] = SumOf(f, R)
    BY <2>1, <2>2, SumSame, TotalIs DEF TotalOf
  <2> QED
    BY <2>3 DEF R
<1>3. Total(S) = SumOf(f, S)
  BY TotalIs DEF TotalOf
<1> HIDE DEF f, t
<1>4. \A k \in K : t[k] = ByKey(f, S, key, K)[k]
  BY <1>2 DEF ByKey
<1>5. SumOf(t, K) = SumOf(f, S)
  BY <1>1, <1>4, SumGroups, SumSame
<1> QED
  BY <1>3, <1>5 DEF t

\* The values that a key has.
ValuesOf(S, key) == {key[i] : i \in S}

\* Those of finitely many rows are finitely many.
LEMMA ValuesFinite ==
  ASSUME NEW S, IsFiniteSet(S), NEW key
  PROVE  IsFiniteSet(ValuesOf(S, key))
<1> DEFINE f == [i \in S |-> key[i]]
<1>1. f \in Surjection(S, ValuesOf(S, key))
  BY DEF Surjection, ValuesOf
<1> QED
  BY <1>1, FS_Surjection

\* What Added adds.
LEMMA AddedIs == \A f : Added(f) = SumOf(f, DOMAIN f)
BY Zenon DEF Added, SumOf

-----------------------------------------------------------------------------
(* Cycles counted backwards, and the dates of one *)

\* A month is told by its number.
LEMMA SameNumber ==
  ASSUME NEW k \in Labels, NEW l \in Labels, MonthNumber(k) = MonthNumber(l) PROVE k = l
<1>1. k.year = l.year /\ k.month = l.month
  BY DEF MonthNumber, Labels
<1> QED
  BY <1>1 DEF Labels

\* n months back is n less in the count of months.
LEMMA BackNumber ==
  ASSUME NEW l \in Labels, NEW n \in Nat, n < MonthNumber(l)
  PROVE  Back(l, n) \in Labels /\ MonthNumber(Back(l, n)) = MonthNumber(l) - n
<1> DEFINE before == MonthNumber(l) - 1 - n
           y == before \div 12
           m == before % 12
<1>1. before \in Nat
  BY NumberIsInt
<1> HIDE DEF before
<1>2. y \in Nat /\ m \in 0..11 /\ before = 12 * y + m
  BY <1>1
<1>3. Back(l, n) = [year |-> y, month |-> m + 1]
  BY DEF Back, before
<1> HIDE DEF y, m
<1>4. Back(l, n) \in Labels
  BY <1>2, <1>3 DEF Labels
<1>5. MonthNumber(Back(l, n)) = before + 1
  BY <1>2, <1>3 DEF MonthNumber
<1>6. MonthNumber(l) \in Int
  BY NumberIsInt
<1> QED
  BY <1>4, <1>5, <1>6 DEF before

\* The months counted back from the current one, and from the one before it.
LEMMA BackSteps ==
  ASSUME NEW l \in Labels, MonthNumber(l) >= 12
  PROVE  /\ Back(l, 0) = l /\ Back(l, 1) = PrevMonth(l)
         /\ \A n \in 0..9 : Back(PrevMonth(l), n) = Back(l, n + 1)
<1>1. MonthNumber(l) \in Int
  BY NumberIsInt
<1>2. /\ PrevMonth(l) \in Labels
      /\ MonthNumber(PrevMonth(l)) = MonthNumber(l) - 1
  BY <1>1, PrevIsLabel
<1>3. \A n \in 0..10 : Back(l, n) \in Labels /\ MonthNumber(Back(l, n)) = MonthNumber(l) - n
  BY <1>1, BackNumber
<1>4. \A n \in 0..9 : /\ Back(PrevMonth(l), n) \in Labels
                      /\ MonthNumber(Back(PrevMonth(l), n)) = MonthNumber(l) - 1 - n
  BY <1>1, <1>2, BackNumber
<1>5. Back(l, 0) = l
  BY <1>1, <1>3, SameNumber
<1>6. Back(l, 1) = PrevMonth(l)
  BY <1>1, <1>2, <1>3, SameNumber
<1>7. ASSUME NEW n \in 0..9 PROVE Back(PrevMonth(l), n) = Back(l, n + 1)
  <2>1. n + 1 \in 0..10 /\ MonthNumber(l) - 1 - n = MonthNumber(l) - (n + 1)
    BY <1>1
  <2> QED
    BY <1>3, <1>4, <2>1, SameNumber
<1> QED
  BY <1>5, <1>6, <1>7

\* A cycle begins in the month it is called by, and ends in the next one unless
\* it is the calendar's month.
LEMMA EndsOfCycle ==
  ASSUME NEW l \in Labels, NEW sd \in Int
  PROVE  /\ LabelOf(PeriodWindow(l, sd).start) = l
         /\ LabelOf(PeriodWindow(l, sd).end) = IF ClampDay(sd) > 1 THEN NextMonth(l) ELSE l
<1>1. NextMonth(l) \in Labels
  BY NextIsLabel
<1>2. ASSUME NEW k \in Labels, NEW d PROVE LabelOf(Date(k, d)) = k
  BY DEF LabelOf, Date, Labels
<1> QED
  BY <1>1, <1>2, Bounds

\* A date in a cycle is in the month the cycle begins in or in the one it ends in.
LEMMA MonthsOfCycle ==
  ASSUME NEW l \in Labels, NEW sd \in Int, NEW date \in Dates, Holds(PeriodWindow(l, sd), date)
  PROVE  LET w == PeriodWindow(l, sd) IN LabelOf(date) \in {LabelOf(w.start), LabelOf(w.end)}
<1> DEFINE s == ClampDay(sd)
           w == PeriodWindow(l, sd)
           k == LabelOf(date)
           n == NextMonth(l)
<1>1. /\ k \in Labels /\ date.day \in 1..31 /\ MonthNumber(k) \in Int /\ MonthNumber(l) \in Int
      /\ Order(date) = 32 * MonthNumber(k) + date.day /\ MonthDays(l) \in 28..31
  BY DateParts, MonthDaysRange, NumberIsInt
<1>2. n \in Labels /\ MonthNumber(n) = MonthNumber(l) + 1
  BY NextIsLabel, NextNumber
<1>3. /\ s \in 1..28 /\ w.start = Date(l, s) /\ Order(w.start) = 32 * MonthNumber(l) + s
      /\ w.end = IF s > 1 THEN Date(n, s - 1) ELSE Date(l, MonthDays(l))
      /\ Order(w.end) = IF s > 1 THEN 32 * MonthNumber(l) + 32 + s - 1
                        ELSE 32 * MonthNumber(l) + MonthDays(l)
  BY Bounds
<1>4. Order(w.start) <= Order(date) /\ Order(date) <= Order(w.end)
  BY DEF Holds
<1>5. LabelOf(w.start) = l /\ LabelOf(w.end) = IF s > 1 THEN n ELSE l
  BY EndsOfCycle
<1> HIDE DEF s, w, k, n
<1>6. MonthNumber(k) = MonthNumber(l) \/ (s > 1 /\ MonthNumber(k) = MonthNumber(n))
  <2>1. 32 * MonthNumber(l) + s <= 32 * MonthNumber(k) + date.day
    BY <1>1, <1>3, <1>4
  <2>2. MonthNumber(k) >= MonthNumber(l)
    BY <1>1, <1>3, <2>1
  <2>3. CASE s > 1
    <3>1. 32 * MonthNumber(k) + date.day <= 32 * MonthNumber(l) + 32 + s - 1
      BY <1>1, <1>3, <1>4, <2>3
    <3> QED
      BY <1>1, <1>2, <1>3, <2>2, <2>3, <3>1
  <2>4. CASE s = 1
    <3>1. 32 * MonthNumber(k) + date.day <= 32 * MonthNumber(l) + MonthDays(l)
      BY <1>1, <1>3, <1>4, <2>4
    <3> QED
      BY <1>1, <2>2, <3>1
  <2> QED
    BY <1>3, <2>3, <2>4
<1>7. k = l \/ (s > 1 /\ k = n)
  BY <1>1, <1>2, <1>6, SameNumber
<1> QED
  BY <1>5, <1>7 DEF w, k

\* A cycle has finitely many dates, and its list has each date that falls into it.
LEMMA DatesListed ==
  ASSUME NEW l \in Labels, NEW sd \in Int
  PROVE  /\ IsFiniteSet(DatesFrom(PeriodWindow(l, sd)))
         /\ \A date \in Dates : Holds(PeriodWindow(l, sd), date)
                                  => date \in DatesFrom(PeriodWindow(l, sd))
<1> DEFINE w == PeriodWindow(l, sd)
           DaysOf(k) == {Date(k, d) : d \in 1..MonthDays(k)}
           a == LabelOf(w.start)
           b == LabelOf(w.end)
<1>1. DatesFrom(w) = {d \in DaysOf(a) \union DaysOf(b) : Holds(w, d)}
  BY DEF DatesFrom
<1>2. a \in Labels /\ b \in Labels
  <2>1. NextMonth(l) \in Labels
    BY NextIsLabel
  <2>2. a = l /\ (b = l \/ b = NextMonth(l))
    BY EndsOfCycle
  <2> QED
    BY <2>1, <2>2
<1>3. ASSUME NEW k \in Labels PROVE IsFiniteSet(DaysOf(k))
  <2>1. MonthDays(k) \in Int
    BY MonthDaysRange
  <2>2. IsFiniteSet(1..MonthDays(k))
    BY <2>1, FS_Interval
  <2> DEFINE f == [d \in 1..MonthDays(k) |-> Date(k, d)]
  <2>3. IsFiniteSet(ValuesOf(1..MonthDays(k), f))
    BY <2>2, ValuesFinite
  <2>4. DaysOf(k) = ValuesOf(1..MonthDays(k), f)
    BY DEF ValuesOf
  <2> QED
    BY <2>3, <2>4
<1>4. IsFiniteSet(DatesFrom(w))
  <2>1. IsFiniteSet(DaysOf(a)) /\ IsFiniteSet(DaysOf(b))
    BY <1>2, <1>3
  <2> HIDE DEF DaysOf, a, b, w
  <2>2. IsFiniteSet(DaysOf(a) \union DaysOf(b))
    BY <2>1, FS_Union
  <2>3. DatesFrom(w) \subseteq DaysOf(a) \union DaysOf(b)
    BY <1>1
  <2> QED
    BY <2>2, <2>3, FS_Subset
<1>5. ASSUME NEW date \in Dates, Holds(w, date) PROVE date \in DatesFrom(w)
  <2>1. LabelOf(date) \in {a, b}
    BY <1>5, MonthsOfCycle
  <2>2. date \in DaysOf(LabelOf(date))
    BY DateParts
  <2> HIDE DEF DaysOf, a, b, w
  <2> QED
    BY <1>1, <1>5, <2>1, <2>2
<1> QED
  BY <1>4, <1>5

-----------------------------------------------------------------------------
(* What one page says *)

\* The start days that the pages use are days that every month has.
LEMMA StartDaysRange ==
  ASSUME TypeInv, NEW u \in Users
  PROVE  MonthStartDay(u) \in 1..28 /\ \A shared : ScopeStartDay(u, shared) \in 1..28
<1>1. \A v \in Users : MonthStartDay(v) \in 1..28
  BY ClampRange DEF MonthStartDay, TypeInv, TypeOK
<1>2. Owner \in Users
  BY FiguresAssumption
<1> QED
  BY <1>1, <1>2 DEF ScopeStartDay

\* A query takes saved rows, whose dates are dates.
LEMMA Taken ==
  ASSUME TypeInv
  PROVE  /\ \A u : Mine(u) \subseteq Saved /\ \A shared : Scope(u, shared) \subseteq Saved
         /\ \A S, w : During(S, w) \subseteq S
         /\ \A i \in Saved : rows[i] \in Row /\ rows[i].date \in Dates
<1>1. \A i \in Saved : rows[i] \in Row
  BY DEF TypeInv, TypeOK, Saved
<1>2. \A i \in Saved : rows[i].date \in Dates
  BY <1>1, FiguresAssumption DEF Row
<1>3. \A u : Mine(u) \subseteq Saved
  BY DEF Mine
<1>4. \A u, shared : Scope(u, shared) \subseteq Saved
  BY <1>3 DEF Scope
<1> QED
  BY <1>1, <1>2, <1>3, <1>4 DEF During

\* This month and the one before it are months, and stand for cycles.
LEMMA Anchored ==
  ASSUME TypeInv, NEW sd \in Int, NEW l \in {ThisLabel, PrevMonth(ThisLabel)}
  PROVE  ResolveAnchor(l, sd, today) \in Labels
<1>1. /\ today \in Dates /\ today.year # 0 /\ ThisLabel \in Labels
      /\ MonthNumber(ThisLabel) >= 13 /\ MonthNumber(ThisLabel) \in Int
  <2>1. ThisLabel \in Labels /\ ThisLabel.year # 0
    BY DateParts DEF ThisLabel, TypeInv, TypeOK, LabelOf
  <2> QED
    BY <2>1 DEF MonthNumber, Labels, TypeInv, TypeOK
<1>2. /\ PrevMonth(ThisLabel) \in Labels
      /\ MonthNumber(PrevMonth(ThisLabel)) = MonthNumber(ThisLabel) - 1
  BY <1>1, PrevIsLabel
<1>3. PrevMonth(ThisLabel) # ThisLabel
  BY <1>1, <1>2
<1>4. ResolveAnchor(PrevMonth(ThisLabel), sd, today) = PrevMonth(ThisLabel)
  BY <1>3 DEF ResolveAnchor, ThisLabel
<1>5. ResolveAnchor(ThisLabel, sd, today) = CurrentLabel(sd, today)
  BY DEF CurrentLabel, ThisLabel
<1> QED
  BY <1>1, <1>2, <1>4, <1>5, CurrentIsLabel

\* The months of the last nine cycles, and the cycle the pages of this month show.
LEMMA CurrentCycle ==
  ASSUME TypeInv, NEW sd \in 1..28
  PROVE  LET c == CurrentLabel(sd, today)
         IN  /\ c \in Labels /\ MonthNumber(c) >= 12 /\ MonthNumber(c) \in Int
             /\ PeriodWindow(c, sd) = CurrentWindow(sd, today)
             /\ PeriodWindow(PrevMonth(c), sd) = PreviousWindow(sd, today)
             /\ ResolveAnchor(ThisLabel, sd, today) = c
             /\ Back(c, 0) = c /\ Back(c, 1) = PrevMonth(c)
             /\ \A n \in 0..9 : Back(PrevMonth(c), n) = Back(c, n + 1)
<1> DEFINE c == CurrentLabel(sd, today)
<1>1. c \in Labels /\ MonthNumber(c) >= 12 /\ MonthNumber(c) \in Int
  BY CurrentIsLabel, NumberIsInt DEF TypeInv, TypeOK
<1>2. /\ Back(c, 0) = c /\ Back(c, 1) = PrevMonth(c)
      /\ \A n \in 0..9 : Back(PrevMonth(c), n) = Back(c, n + 1)
  BY <1>1, BackSteps
<1>3. /\ PeriodWindow(c, sd) = CurrentWindow(sd, today)
      /\ PeriodWindow(PrevMonth(c), sd) = PreviousWindow(sd, today)
      /\ ResolveAnchor(ThisLabel, sd, today) = c
  BY DEF CurrentWindow, PreviousWindow, CurrentLabel, ThisLabel
<1> QED
  BY <1>1, <1>2, <1>3

\* The monthly page adds up the days it lists to what was spent in the cycle.
LEMMA MonthlyTotal ==
  ASSUME TypeInv, NEW u \in Users, NEW shared, NEW l \in {ThisLabel, PrevMonth(ThisLabel)}
  PROVE  Monthly(u, l, shared).total
           = Total(During(Scope(u, shared), WindowOf(u, shared, l)))
<1> DEFINE w == WindowOf(u, shared, l)
           S == During(Scope(u, shared), w)
           K == DatesFrom(w)
           key == [i \in S |-> rows[i].date]
           t == [d \in K |-> Total({i \in S : rows[i].date = d})]
<1>1. Monthly(u, l, shared).total = SumOf(t, K)
  <2>1. Monthly(u, l, shared).total = Added(t)
    BY DEF Monthly
  <2>2. DOMAIN t = K
    OBVIOUS
  <2> HIDE DEF t, K
  <2> QED
    BY <2>1, <2>2, AddedIs
<1>2. PICK r \in Labels, sd \in 1..28 : w = PeriodWindow(r, sd)
  <2>1. ScopeStartDay(u, shared) \in 1..28
    BY StartDaysRange
  <2>2. ResolveAnchor(l, ScopeStartDay(u, shared), today) \in Labels
    BY <2>1, Anchored
  <2> QED
    BY <2>1, <2>2 DEF WindowOf
<1>3. S \subseteq Saved /\ \A i \in S : rows[i].date \in Dates /\ Holds(w, rows[i].date)
  BY Taken DEF During
<1>4. IsFiniteSet(K) /\ \A i \in S : key[i] \in K
  <2>1. IsFiniteSet(K) /\ \A d \in Dates : Holds(w, d) => d \in K
    BY <1>2, DatesListed
  <2> HIDE DEF w, K
  <2> QED
    BY <1>3, <2>1
<1>5. t = TotalsBy(S, key, K)
  <2>1. \A k \in K : {i \in S : key[i] = k} = {i \in S : rows[i].date = k}
    OBVIOUS
  <2> QED
    BY <2>1 DEF TotalsBy
<1> HIDE DEF K, key, S, t
<1>6. SumOf(t, K) = Total(S)
  BY <1>3, <1>4, <1>5, TotalGroups
<1> QED
  BY <1>1, <1>6 DEF S

\* Totals by the values that a key has.
Grouped(S, key) == TotalsBy(S, key, ValuesOf(S, key))

\* Whatever the key, the groups of a page add up to its total.
LEMMA GroupsAdd ==
  ASSUME TypeInv, NEW S, S \subseteq Saved, NEW key
  PROVE  Added(Grouped(S, key)) = Total(S)
<1> DEFINE K == ValuesOf(S, key)
<1>1. IsFiniteSet(S)
  BY SavedAmounts
<1>2. IsFiniteSet(K)
  BY <1>1, ValuesFinite
<1>3. \A i \in S : key[i] \in K
  BY DEF ValuesOf
<1>4. Grouped(S, key) = TotalsBy(S, key, K)
  BY DEF Grouped
<1> HIDE DEF K
<1>5. SumOf(TotalsBy(S, key, K), K) = Total(S)
  BY <1>2, <1>3, TotalGroups
<1>6. DOMAIN TotalsBy(S, key, K) = K
  BY DEF TotalsBy
<1> QED
  BY <1>4, <1>5, <1>6, AddedIs

\* The keys that the pages group by.
NameKey(S) == [i \in S |-> CategoryName(i)]
MethodKey(S) == [i \in S |-> rows[i].method]
MemberKey(S) == [i \in S |-> rows[i].by]

\* What the pages group, as sums over the rows of each key.
LEMMA GroupedAre ==
  ASSUME NEW S
  PROVE  /\ GroupedBy(S, CategoryName) = Grouped(S, NameKey(S))
         /\ GroupedBy(S, LAMBDA i : rows[i].method) = Grouped(S, MethodKey(S))
         /\ GroupedBy(S, LAMBDA i : rows[i].by) = Grouped(S, MemberKey(S))
<1>1. GroupedBy(S, CategoryName) = Grouped(S, NameKey(S))
  <2> DEFINE f == NameKey(S)
  <2>1. \A i \in S : f[i] = CategoryName(i)
    BY DEF NameKey
  <2>2. {CategoryName(i) : i \in S} = {f[i] : i \in S}
    BY <2>1
  <2>3. \A k : {i \in S : CategoryName(i) = k} = {i \in S : f[i] = k}
    BY <2>1
  <2> HIDE DEF f
  <2> QED
    BY <2>2, <2>3 DEF GroupedBy, Grouped, TotalsBy, ValuesOf, f
<1>2. GroupedBy(S, LAMBDA i : rows[i].method) = Grouped(S, MethodKey(S))
  <2> DEFINE f == MethodKey(S)
  <2>1. \A i \in S : f[i] = rows[i].method
    BY DEF MethodKey
  <2>2. {rows[i].method : i \in S} = {f[i] : i \in S}
    BY <2>1
  <2>3. \A k : {i \in S : rows[i].method = k} = {i \in S : f[i] = k}
    BY <2>1
  <2> HIDE DEF f
  <2> QED
    BY <2>2, <2>3 DEF GroupedBy, Grouped, TotalsBy, ValuesOf, f
<1>3. GroupedBy(S, LAMBDA i : rows[i].by) = Grouped(S, MemberKey(S))
  <2> DEFINE f == MemberKey(S)
  <2>1. \A i \in S : f[i] = rows[i].by
    BY DEF MemberKey
  <2>2. {rows[i].by : i \in S} = {f[i] : i \in S}
    BY <2>1
  <2>3. \A k : {i \in S : rows[i].by = k} = {i \in S : f[i] = k}
    BY <2>1
  <2> HIDE DEF f
  <2> QED
    BY <2>2, <2>3 DEF GroupedBy, Grouped, TotalsBy, ValuesOf, f
<1> QED
  BY <1>1, <1>2, <1>3

\* The main category a row is shown in, and what it is called below that.
RootKey(u, shared, S) ==
  [i \in S |-> IF rows[i].cat \in Known(u, shared) THEN RootIn(Known(u, shared), rows[i].cat)
               ELSE NoCat]
SubKey(u, shared, S) ==
  [i \in S |-> IF rows[i].cat \in Known(u, shared) \ {RootKey(u, shared, S)[i]}
               THEN Name[rows[i].cat] ELSE "General"]

\* The rows of a breakdown, and of its part for k.
ShownRows(u, l, shared) == During(Scope(u, shared), WindowOf(u, shared, l))
RootOfRow(u, l, shared) == RootKey(u, shared, ShownRows(u, l, shared))
PartRows(u, l, shared, k) ==
  {i \in ShownRows(u, l, shared) : RootOfRow(u, l, shared)[i] = k}

\* The breakdown has a part for each main category, with its rows.
LEMMA BreakdownIs ==
  ASSUME NEW u, NEW l, NEW shared
  PROVE  /\ DOMAIN Breakdown(u, l, shared)
               = ValuesOf(ShownRows(u, l, shared), RootOfRow(u, l, shared))
         /\ \A k \in DOMAIN Breakdown(u, l, shared) :
              /\ Breakdown(u, l, shared)[k].amount = Total(PartRows(u, l, shared, k))
              /\ Breakdown(u, l, shared)[k].count = Cardinality(PartRows(u, l, shared, k))
              /\ Breakdown(u, l, shared)[k].subs
                   = Grouped(PartRows(u, l, shared, k), SubKey(u, shared, PartRows(u, l, shared, k)))
<1> DEFINE S == During(Scope(u, shared), WindowOf(u, shared, l))
           key == RootKey(u, shared, S)
           known == Known(u, shared)
           Key(i) == IF rows[i].cat \in known THEN RootIn(known, rows[i].cat) ELSE NoCat
           Sub(i) == IF rows[i].cat \in known \ {Key(i)} THEN Name[rows[i].cat] ELSE "General"
           bucket(k) == {i \in S : Key(i) = k}
           B == [k \in {Key(i) : i \in S} |->
                   [amount |-> Total(bucket(k)), count |-> Cardinality(bucket(k)),
                    subs |-> GroupedBy(bucket(k), Sub)]]
<1>1. Breakdown(u, l, shared) = B
  BY DEF Breakdown
<1>2. \A i \in S : key[i] = Key(i)
  BY DEF RootKey
<1>3. {Key(i) : i \in S} = ValuesOf(S, key)
  BY <1>2 DEF ValuesOf
<1>4. \A k : bucket(k) = {i \in S : key[i] = k}
  BY <1>2
<1>5. ASSUME NEW k PROVE GroupedBy(bucket(k), Sub) = Grouped(bucket(k), SubKey(u, shared, bucket(k)))
  <2> DEFINE R == bucket(k)
             f == SubKey(u, shared, R)
  <2>1. \A i \in R : f[i] = Sub(i)
    <3>1. \A i \in R : RootKey(u, shared, R)[i] = Key(i)
      BY DEF RootKey
    <3> QED
      BY <3>1 DEF SubKey
  <2>2. {Sub(i) : i \in R} = {f[i] : i \in R}
    BY <2>1
  <2>3. \A n : {i \in R : Sub(i) = n} = {i \in R : f[i] = n}
    BY <2>1
  <2>4. GroupedBy(R, Sub) = [n \in {Sub(i) : i \in R} |-> Total({i \in R : Sub(i) = n})]
    BY DEF GroupedBy
  <2> HIDE DEF f, R, Sub
  <2> QED
    BY <2>2, <2>3, <2>4 DEF Grouped, TotalsBy, ValuesOf, f, R
<1>6. DOMAIN B = {Key(i) : i \in S}
  OBVIOUS
<1>7. ASSUME NEW k \in DOMAIN B
      PROVE  /\ B[k].amount = Total(bucket(k)) /\ B[k].count = Cardinality(bucket(k))
             /\ B[k].subs = GroupedBy(bucket(k), Sub)
  BY <1>7
<1> HIDE DEF B, bucket, Sub, Key, key, S
<1>8. S = ShownRows(u, l, shared) /\ key = RootOfRow(u, l, shared)
  BY DEF S, key, ShownRows, RootOfRow
<1>9. \A k : bucket(k) = PartRows(u, l, shared, k)
  BY <1>4, <1>8 DEF PartRows
<1> QED
  BY <1>1, <1>3, <1>5, <1>6, <1>7, <1>8, <1>9

\* The parts of the breakdown add up to what was spent in the cycle.
LEMMA BreakdownTotal ==
  ASSUME TypeInv, NEW u, NEW l, NEW shared
  PROVE  Bucketed(Breakdown(u, l, shared)) = Total(ShownRows(u, l, shared))
<1> DEFINE S == ShownRows(u, l, shared)
           key == RootOfRow(u, l, shared)
           B == Breakdown(u, l, shared)
           D == DOMAIN B
<1>1. D = ValuesOf(S, key) /\ \A k \in D : B[k].amount = Total({i \in S : key[i] = k})
  <2>1. D = ValuesOf(S, key)
    BY BreakdownIs, Zenon
  <2>2. \A k \in D : B[k].amount = Total(PartRows(u, l, shared, k))
    BY BreakdownIs, Zenon
  <2>3. \A k : PartRows(u, l, shared, k) = {i \in S : key[i] = k}
    BY DEF PartRows
  <2> QED
    BY <2>1, <2>2, <2>3, Zenon
<1>2. S \subseteq Saved
  BY Taken DEF ShownRows
<1>3. Bucketed(B) = TotalOf(B, D)
  BY AmountSum DEF Bucketed
<1> HIDE DEF S, key, B
<1>4. \A k \in D : AmountsOf(B, D)[k] = Grouped(S, key)[k]
  BY <1>1 DEF AmountsOf, Grouped, TotalsBy
<1>5. DOMAIN Grouped(S, key) = D
  BY <1>1 DEF Grouped, TotalsBy
<1> HIDE DEF D
<1>6. SumOf(AmountsOf(B, D), D) = SumOf(Grouped(S, key), D)
  BY <1>4, SumSame
<1>7. Added(Grouped(S, key)) = Total(S)
  BY <1>2, GroupsAdd
<1> QED
  BY <1>3, <1>5, <1>6, <1>7, AddedIs DEF TotalOf, B, S

-----------------------------------------------------------------------------
(* The pages agree *)

\* What the last cycles' totals are for the trend and the health score.
LEMMA TrendIs ==
  ASSUME TypeInv, NEW u \in Users, NEW shared
  PROVE  LET S == Scope(u, shared)
             sd == ScopeStartDay(u, shared)
             c == CurrentLabel(sd, today)
         IN  /\ Trend(u, 1, shared)[1] = SpentNow(S, sd)
             /\ Trend(u, 4, shared)[4] = SpentNow(S, sd)
             /\ Trend(u, 4, shared)[3] = Total(During(S, PreviousWindow(sd, today)))
             /\ <<Trend(u, 4, shared)[1], Trend(u, 4, shared)[2], Trend(u, 4, shared)[3]>>
                  = TrailingTotals(S, sd)
<1> DEFINE S == Scope(u, shared)
           sd == ScopeStartDay(u, shared)
           c == CurrentLabel(sd, today)
<1>1. sd \in 1..28
  BY StartDaysRange
<1>2. /\ PeriodWindow(c, sd) = CurrentWindow(sd, today)
      /\ PeriodWindow(PrevMonth(c), sd) = PreviousWindow(sd, today)
      /\ Back(c, 0) = c /\ Back(c, 1) = PrevMonth(c)
      /\ \A n \in 0..9 : Back(PrevMonth(c), n) = Back(c, n + 1)
  BY <1>1, CurrentCycle
<1>3. Trend(u, 1, shared)[1] = Total(During(S, PeriodWindow(Back(c, 0), sd)))
  BY DEF Trend
<1>4. /\ Trend(u, 4, shared)[1] = Total(During(S, PeriodWindow(Back(c, 3), sd)))
      /\ Trend(u, 4, shared)[2] = Total(During(S, PeriodWindow(Back(c, 2), sd)))
      /\ Trend(u, 4, shared)[3] = Total(During(S, PeriodWindow(Back(c, 1), sd)))
      /\ Trend(u, 4, shared)[4] = Total(During(S, PeriodWindow(Back(c, 0), sd)))
  BY DEF Trend
<1>5. /\ RecentWindows(sd, today, 3, FALSE)[1] = PeriodWindow(Back(PrevMonth(c), 2), sd)
      /\ RecentWindows(sd, today, 3, FALSE)[2] = PeriodWindow(Back(PrevMonth(c), 1), sd)
      /\ RecentWindows(sd, today, 3, FALSE)[3] = PeriodWindow(Back(PrevMonth(c), 0), sd)
  BY DEF RecentWindows
<1>6. /\ Back(PrevMonth(c), 2) = Back(c, 3) /\ Back(PrevMonth(c), 1) = Back(c, 2)
      /\ Back(PrevMonth(c), 0) = Back(c, 1)
  BY <1>2
<1>7. TrailingTotals(S, sd) = <<Total(During(S, PeriodWindow(Back(c, 3), sd))),
                                Total(During(S, PeriodWindow(Back(c, 2), sd))),
                                Total(During(S, PeriodWindow(Back(c, 1), sd)))>>
  BY <1>5, <1>6 DEF TrailingTotals
<1> QED
  BY <1>2, <1>3, <1>4, <1>7 DEF SpentNow

\* The family's pages follow the owner's cycle, whoever opens them.
LEMMA FamilyScope ==
  ASSUME TypeInv, NEW u \in Family
  PROVE  /\ u \in Users /\ Shares(u, TRUE)
         /\ Scope(u, TRUE) = {i \in Saved : rows[i].book = "family"}
         /\ ScopeStartDay(u, TRUE) = MonthStartDay(Owner)
         /\ \A l : WindowOf(u, TRUE, l) = WindowOf(Owner, TRUE, l)
<1>1. Owner \in Family /\ Family \subseteq Users
  BY FiguresAssumption
<1>2. Shares(u, TRUE) /\ Shares(Owner, TRUE)
  BY <1>1 DEF Shares
<1> QED
  BY <1>1, <1>2 DEF Scope, ScopeStartDay, WindowOf

\* Whatever is saved, the family's pages add up.
LEMMA FamilyPages == TypeInv => FamilyPagesAgree
<1> SUFFICES ASSUME TypeInv, NEW u \in Family, NEW l \in {ThisLabel, PrevMonth(ThisLabel)}
             PROVE  /\ Total(ExpenseList(u, l, TRUE)) = FamilyPage(l).total
                    /\ Monthly(u, l, TRUE).total = FamilyPage(l).total
                    /\ Bucketed(Breakdown(u, l, TRUE)) = FamilyPage(l).total
                    /\ Added(FamilyPage(l).members) = FamilyPage(l).total
                    /\ SpentNow(Scope(u, TRUE), MonthStartDay(Owner)) = Trend(u, 1, TRUE)[1]
                    /\ ScopeIncome(u, TRUE) = ScopeIncome(Owner, TRUE)
  BY DEF FamilyPagesAgree
<1> DEFINE S == During({i \in Saved : rows[i].book = "family"}, WindowOf(Owner, TRUE, l))
<1>1. /\ u \in Users /\ Shares(u, TRUE)
      /\ During(Scope(u, TRUE), WindowOf(u, TRUE, l)) = S
      /\ ScopeStartDay(u, TRUE) = MonthStartDay(Owner)
  BY FamilyScope
<1>2. FamilyPage(l).total = Total(S) /\ FamilyPage(l).members = Grouped(S, MemberKey(S))
  BY GroupedAre DEF FamilyPage
<1>3. S \subseteq Saved
  BY DEF During
<1> HIDE DEF S
<1>4. ExpenseList(u, l, TRUE) = S
  BY <1>1 DEF ExpenseList
<1>5. Monthly(u, l, TRUE).total = Total(S)
  BY <1>1, MonthlyTotal
<1>6. Bucketed(Breakdown(u, l, TRUE)) = Total(S)
  BY <1>1, BreakdownTotal DEF ShownRows
<1>7. Added(FamilyPage(l).members) = Total(S)
  BY <1>2, <1>3, GroupsAdd
<1>8. SpentNow(Scope(u, TRUE), MonthStartDay(Owner)) = Trend(u, 1, TRUE)[1]
  BY <1>1, TrendIs
<1>9. ScopeIncome(u, TRUE) = ScopeIncome(Owner, TRUE)
  <2>1. Shares(Owner, TRUE)
    BY FiguresAssumption DEF Shares
  <2> QED
    BY <1>1, <2>1 DEF ScopeIncome
<1> QED
  BY <1>2, <1>4, <1>5, <1>6, <1>7, <1>8, <1>9

\* All members of a family see the same of its spending, on every page and
\* whatever their own start days (api/v1/analytics, expenses, family).
THEOREM FamilyPagesHold == Spec => []FamilyPagesAgree
BY TypeCorrect, FamilyPages, PTL

\* A cycle that starts on the first is the calendar's month.
LEMMA CalendarCycle ==
  ASSUME NEW l \in Labels, NEW date \in Dates
  PROVE  Holds(PeriodWindow(l, 1), date) <=> LabelOf(date) = l
<1> DEFINE k == LabelOf(date)
           w == PeriodWindow(l, 1)
<1>1. /\ k \in Labels /\ date.day \in 1..MonthDays(k) /\ MonthNumber(k) \in Int
      /\ MonthDays(k) \in 28..31 /\ Order(date) = 32 * MonthNumber(k) + date.day
      /\ MonthNumber(l) \in Int /\ MonthDays(l) \in 28..31
  BY DateParts, MonthDaysRange, NumberIsInt
<1>2. Order(w.start) = 32 * MonthNumber(l) + 1 /\ Order(w.end) = 32 * MonthNumber(l) + MonthDays(l)
  <2>1. ClampDay(1) = 1
    BY DEF ClampDay
  <2> QED
    BY <2>1, Bounds
<1>3. ASSUME k = l PROVE Holds(w, date)
  BY <1>1, <1>2, <1>3 DEF Holds
<1>4. ASSUME Holds(w, date) PROVE k = l
  <2>1. /\ 32 * MonthNumber(l) + 1 <= 32 * MonthNumber(k) + date.day
        /\ 32 * MonthNumber(k) + date.day <= 32 * MonthNumber(l) + MonthDays(l)
    BY <1>1, <1>2, <1>4 DEF Holds
  <2>2. MonthNumber(k) = MonthNumber(l)
    BY <1>1, <2>1
  <2> QED
    BY <1>1, <2>2, SameNumber
<1> QED
  BY <1>3, <1>4

\* The pages of one user that leave the family's rows out.
LEMMA OwnPages ==
  ASSUME TypeInv, NEW u \in Users
  PROVE  LET S == Scope(u, FALSE)
             sd == MonthStartDay(u)
             w == CurrentWindow(sd, today)
             monthly == Monthly(u, ThisLabel, FALSE)
             trend == Trend(u, 4, FALSE)
         IN  /\ monthly.total = Total(During(S, w))
             /\ monthly.total = SpentNow(S, sd)
             /\ monthly.total = trend[4] /\ monthly.previous = trend[3]
             /\ monthly.total = Bucketed(Breakdown(u, ThisLabel, FALSE))
             /\ monthly.total = Added(Categories(u, w)) /\ monthly.total = AiTotal(u, ThisLabel)
             /\ monthly.total = Total(ExpenseList(u, ThisLabel, FALSE))
             /\ monthly.total = Profile(u).thisMonth
             /\ <<trend[1], trend[2], trend[3]>> = TrailingTotals(S, sd)
<1> DEFINE S == Scope(u, FALSE)
           sd == MonthStartDay(u)
           w == CurrentWindow(sd, today)
           R == During(S, w)
<1>1. ScopeStartDay(u, FALSE) = sd /\ sd \in 1..28
  BY StartDaysRange DEF ScopeStartDay, Shares
<1>2. /\ WindowOf(u, FALSE, ThisLabel) = w
      /\ PrevWindowOf(u, FALSE, ThisLabel) = PreviousWindow(sd, today)
  BY <1>1, CurrentCycle DEF WindowOf, PrevWindowOf
<1>3. S \subseteq Saved /\ R \subseteq Saved
  BY Taken
<1>4. Monthly(u, ThisLabel, FALSE).total = Total(R)
  BY <1>2, MonthlyTotal
<1>5. SpentNow(S, sd) = Total(R)
  BY DEF SpentNow
<1>6. /\ Trend(u, 4, FALSE)[4] = SpentNow(S, sd)
      /\ Trend(u, 4, FALSE)[3] = Total(During(S, PreviousWindow(sd, today)))
      /\ <<Trend(u, 4, FALSE)[1], Trend(u, 4, FALSE)[2], Trend(u, 4, FALSE)[3]>> = TrailingTotals(S, sd)
  BY <1>1, TrendIs
<1>7. Monthly(u, ThisLabel, FALSE).previous = Total(During(S, PreviousWindow(sd, today)))
  BY <1>2 DEF Monthly
<1>8. Bucketed(Breakdown(u, ThisLabel, FALSE)) = Total(R)
  BY <1>2, BreakdownTotal DEF ShownRows
<1>9. Added(Categories(u, w)) = Total(R)
  <2>1. Categories(u, w) = Grouped(R, NameKey(R))
    BY GroupedAre DEF Categories
  <2> HIDE DEF R
  <2> QED
    BY <1>3, <2>1, GroupsAdd
<1>10. AiTotal(u, ThisLabel) = Total(R) /\ Total(ExpenseList(u, ThisLabel, FALSE)) = Total(R)
  BY <1>2 DEF AiTotal, ExpenseList
<1>11. Profile(u).thisMonth = Total(R)
  BY DEF Profile
<1> QED
  BY <1>4, <1>5, <1>6, <1>7, <1>8, <1>9, <1>10, <1>11

\* The pages of one user that count what the user spent for the family too.
LEMMA WholePages ==
  ASSUME TypeInv, NEW u \in Users
  PROVE  LET w == CurrentWindow(MonthStartDay(u), today)
             report == MonthlyReport(u, ThisLabel)
         IN  /\ report.total = Total(During(Mine(u), w))
             /\ report.total = Dashboard(u).thisMonth
             /\ report.total = ExpenseSummary(u).thisMonth
             /\ Dashboard(u).lastMonth = ExpenseSummary(u).lastMonth
             /\ Dashboard(u).topCategories = ExpenseSummary(u).categories
             /\ report.total = Added(ExpenseSummary(u).methods)
             /\ Dashboard(u).lastMonth = IncomeVsExpense(u, 2)[1]
             /\ report.total = IncomeVsExpense(u, 2)[2]
             /\ report.categories = Summary(u, w)
             /\ MonthStartDay(u) = 1 => report.total = Total(CsvReport(u, "monthly", ThisLabel))
<1> DEFINE sd == MonthStartDay(u)
           c == CurrentLabel(sd, today)
           w == CurrentWindow(sd, today)
           v == PreviousWindow(sd, today)
           R == During(Mine(u), w)
<1>1. ScopeStartDay(u, FALSE) = sd /\ sd \in 1..28
  BY StartDaysRange DEF ScopeStartDay, Shares
<1>2. WindowOf(u, FALSE, ThisLabel) = w
  BY <1>1, CurrentCycle DEF WindowOf
<1>3. R \subseteq Saved
  BY Taken
<1>4. /\ MonthlyReport(u, ThisLabel).total = Total(R)
      /\ MonthlyReport(u, ThisLabel).categories = GroupedBy(R, CategoryName)
  BY <1>2 DEF MonthlyReport
<1>5. /\ Dashboard(u).thisMonth = Total(R)
      /\ Dashboard(u).lastMonth = Total(During(Mine(u), v))
      /\ Dashboard(u).topCategories = GroupedBy({i \in R : rows[i].cat # NoCat}, CategoryName)
  BY DEF Dashboard
<1>6. /\ ExpenseSummary(u).thisMonth = Total(R)
      /\ ExpenseSummary(u).lastMonth = Total(During(Mine(u), v))
      /\ ExpenseSummary(u).categories = GroupedBy({i \in R : rows[i].cat # NoCat}, CategoryName)
      /\ ExpenseSummary(u).methods = GroupedBy(R, LAMBDA i : rows[i].method)
  BY DEF ExpenseSummary
<1>7. Added(ExpenseSummary(u).methods) = Total(R)
  <2>1. ExpenseSummary(u).methods = Grouped(R, MethodKey(R))
    BY <1>6, GroupedAre
  <2> HIDE DEF R
  <2> QED
    BY <1>3, <2>1, GroupsAdd
<1>8. IncomeVsExpense(u, 2)[1] = Total(During(Mine(u), v)) /\ IncomeVsExpense(u, 2)[2] = Total(R)
  <2>1. /\ PeriodWindow(c, sd) = w /\ PeriodWindow(PrevMonth(c), sd) = v
        /\ Back(c, 0) = c /\ Back(c, 1) = PrevMonth(c)
    BY <1>1, CurrentCycle
  <2>2. /\ IncomeVsExpense(u, 2)[1] = Total(During(Mine(u), PeriodWindow(Back(c, 1), sd)))
        /\ IncomeVsExpense(u, 2)[2] = Total(During(Mine(u), PeriodWindow(Back(c, 0), sd)))
    BY DEF IncomeVsExpense
  <2> QED
    BY <2>1, <2>2
<1>9. Summary(u, w) = GroupedBy(R, CategoryName)
  BY DEF Summary
<1>10. ASSUME sd = 1 PROVE Total(CsvReport(u, "monthly", ThisLabel)) = Total(R)
  <2>1. today \in Dates /\ today.day \in Int /\ today.day >= 1 /\ ThisLabel \in Labels
    BY DateParts DEF ThisLabel, TypeInv, TypeOK, Dates
  <2>2. c = ThisLabel
    BY <1>10, <2>1 DEF CurrentLabel, ResolveAnchor, ClampDay, ThisLabel
  <2>3. w = PeriodWindow(ThisLabel, 1)
    BY <1>10, <2>2 DEF CurrentWindow
  <2>4. \A i \in Mine(u) : rows[i].date \in Dates
    BY Taken
  <2>5. \A i \in Mine(u) : Holds(w, rows[i].date) <=> LabelOf(rows[i].date) = ThisLabel
    BY <2>1, <2>3, <2>4, CalendarCycle
  <2>6. InMonth(Mine(u), ThisLabel) = R
    BY <2>5 DEF InMonth, During
  <2> QED
    BY <2>6 DEF CsvReport
<1> QED
  BY <1>4, <1>5, <1>6, <1>7, <1>8, <1>9, <1>10

\* Whatever is saved, one person's pages add up.
LEMMA PersonalPages == TypeInv => PersonalPagesAgree
<1> SUFFICES ASSUME TypeInv, NEW u \in Users
             PROVE  MonthlyReport(u, ThisLabel).total
                      = Monthly(u, ThisLabel, FALSE).total
                          + Total(During({i \in Mine(u) : rows[i].book = "family"},
                                         CurrentWindow(MonthStartDay(u), today)))
  BY OwnPages, WholePages, Zenon DEF PersonalPagesAgree
<1> DEFINE w == CurrentWindow(MonthStartDay(u), today)
           S == During(Scope(u, FALSE), w)
           F == During({i \in Mine(u) : rows[i].book = "family"}, w)
<1>1. MonthlyReport(u, ThisLabel).total = Total(During(Mine(u), w))
  BY WholePages
<1>2. Monthly(u, ThisLabel, FALSE).total = Total(S)
  BY OwnPages
<1>3. \A i \in Mine(u) : rows[i].book \in {"own", "family"}
  BY Taken DEF Row
<1>4. Scope(u, FALSE) = {i \in Mine(u) : rows[i].book = "own"}
  BY DEF Scope, Shares
<1>5. During(Mine(u), w) = S \union F
  BY <1>3, <1>4 DEF During
<1>6. S \subseteq Saved /\ F \subseteq Saved /\ S \intersect F = {}
  BY <1>4, Taken DEF During
<1> HIDE DEF S, F
<1>7. Total(S \union F) = Total(S) + Total(F)
  BY <1>6, TotalUnion
<1> QED
  BY <1>1, <1>2, <1>5, <1>7 DEF F

\* All pages that a user opens for this month agree, in two groups that differ by
\* what the user spent for the family (api/v1/analytics, reports, dashboard).
THEOREM PersonalPagesHold == Spec => []PersonalPagesAgree
BY TypeCorrect, PersonalPages, PTL

-----------------------------------------------------------------------------
(* A month is over *)

\* The dashboard, of the rows, the start day and the date it is opened on.
MineOf(r, u) == {i \in Ids : r[i] # NoRow /\ r[i].by = u}
HeldOf(r, u, w) == {i \in MineOf(r, u) : Holds(w, r[i].date)}
NameIn(r, i) == IF r[i].cat = NoCat THEN "Uncategorized" ELSE Name[r[i].cat]
NamedTotals(r, S) == [k \in {NameIn(r, i) : i \in S} |-> TotalOf(r, {i \in S : NameIn(r, i) = k})]
DashboardOf(r, u, sd, day) ==
  [thisMonth |-> TotalOf(r, HeldOf(r, u, CurrentWindow(sd, day))),
   lastMonth |-> TotalOf(r, HeldOf(r, u, PreviousWindow(sd, day))),
   topCategories |-> NamedTotals(r, {i \in HeldOf(r, u, CurrentWindow(sd, day)) : r[i].cat # NoCat})]
DashboardShown == \A u : Dashboard(u) = DashboardOf(rows, u, MonthStartDay(u), today)

\* The dashboard is a function of the rows, the start day and the date.
LEMMA DashboardIs == DashboardShown
<1> SUFFICES ASSUME NEW u PROVE Dashboard(u) = DashboardOf(rows, u, MonthStartDay(u), today)
  BY DEF DashboardShown
<1>1. Mine(u) = MineOf(rows, u)
  BY DEF Mine, MineOf, Saved
<1>2. \A w : During(Mine(u), w) = HeldOf(rows, u, w)
  BY <1>1 DEF During, HeldOf
<1>3. \A i : CategoryName(i) = NameIn(rows, i)
  BY DEF CategoryName, NameIn
<1>4. ASSUME NEW S PROVE GroupedBy(S, CategoryName) = NamedTotals(rows, S)
  <2>1. GroupedBy(S, CategoryName)
          = [k \in {CategoryName(i) : i \in S} |-> Total({i \in S : CategoryName(i) = k})]
    BY DEF GroupedBy
  <2>2. {CategoryName(i) : i \in S} = {NameIn(rows, i) : i \in S}
    BY <1>3
  <2>3. \A k : {i \in S : CategoryName(i) = k} = {i \in S : NameIn(rows, i) = k}
    BY <1>3
  <2> QED
    BY <2>1, <2>2, <2>3, TotalIs DEF NamedTotals
<1> DEFINE now == During(Mine(u), CurrentWindow(MonthStartDay(u), today))
<1>5. Dashboard(u) = [thisMonth |-> Total(now),
                      lastMonth |-> Total(During(Mine(u), PreviousWindow(MonthStartDay(u), today))),
                      topCategories |-> GroupedBy({i \in now : rows[i].cat # NoCat}, CategoryName)]
  BY DEF Dashboard
<1>6. now = HeldOf(rows, u, CurrentWindow(MonthStartDay(u), today))
  BY <1>2
<1> HIDE DEF now
<1> QED
  BY <1>2, <1>4, <1>5, <1>6, TotalIs DEF DashboardOf

\* The current cycle changes on the day after its last only.
LEMMA CycleEnds ==
  ASSUME NEW day \in Dates, day.year # 0, NEW sd \in Int,
         day # CurrentWindow(sd, day).end
  PROVE  CurrentLabel(sd, DayAfter(day)) = CurrentLabel(sd, day)
<1> DEFINE s == ClampDay(sd)
           l == LabelOf(day)
           n == NextMonth(l)
           p == PrevMonth(l)
<1>1. /\ l \in Labels /\ day.day \in 1..MonthDays(l) /\ MonthDays(l) \in 28..31
      /\ day = Date(l, day.day)
  BY DateParts, MonthDaysRange
<1>2. s \in 1..28
  BY ClampRange
<1>3. n \in Labels /\ PrevMonth(n) = l /\ p \in Labels /\ NextMonth(p) = l
  <2>1. MonthNumber(l) > 1
    BY <1>1 DEF LabelOf, MonthNumber, Labels
  <2> QED
    BY <1>1, <2>1, NextIsLabel, PrevOfNext, PrevIsLabel
<1>4. \A k \in Labels : \A d : LabelOf(Date(k, d)) = k /\ Date(k, d).day = d
  BY DEF LabelOf, Date, Labels
<1>5. CASE day.day < MonthDays(l)
  <2>1. DayAfter(day) = Date(l, day.day + 1)
    BY <1>1, <1>5, DayAfterIsDate
  <2>2. LabelOf(DayAfter(day)) = l /\ DayAfter(day).day = day.day + 1
    BY <1>1, <1>4, <2>1
  <2>3. ~ (day.day < s /\ day.day + 1 >= s)
    <3>1. SUFFICES ASSUME day.day = s - 1 PROVE FALSE
      BY <1>1, <1>2
    <3>2. CurrentLabel(sd, day) = p
      BY <1>1, <1>2, <3>1 DEF CurrentLabel, ResolveAnchor
    <3>3. CurrentWindow(sd, day).end = Date(l, s - 1)
      BY <1>1, <1>2, <1>3, <3>1, <3>2, Bounds DEF CurrentWindow
    <3> QED
      BY <1>1, <3>1, <3>3
  <2> QED
    BY <1>1, <1>2, <2>2, <2>3 DEF CurrentLabel, ResolveAnchor
<1>6. CASE ~ (day.day < MonthDays(l))
  <2>1. DayAfter(day) = Date(n, 1)
    BY <1>6, DayAfterIsDate
  <2>2. LabelOf(DayAfter(day)) = n /\ DayAfter(day).day = 1
    BY <1>3, <1>4, <2>1
  <2>3. CurrentLabel(sd, day) = l
    BY <1>1, <1>2, <1>6 DEF CurrentLabel, ResolveAnchor
  <2>4. s # 1
    <3>1. SUFFICES ASSUME s = 1 PROVE FALSE
      OBVIOUS
    <3>2. CurrentWindow(sd, day).end = Date(l, MonthDays(l))
      BY <1>1, <2>3, <3>1, Bounds DEF CurrentWindow
    <3> QED
      BY <1>1, <1>6, <3>2
  <2> QED
    BY <1>2, <1>3, <2>2, <2>3, <2>4 DEF CurrentLabel, ResolveAnchor
<1> QED
  BY <1>5, <1>6

\* On the first day of a cycle the dashboard shows last month what it showed this
\* month the day before, and on any other day what it showed the day before.
LEMMA TurnsOver ==
  ASSUME TypeInv, Midnight, DashboardShown', NEW u \in Users
  PROVE  IF CurrentWindow(MonthStartDay(u), today)' = CurrentWindow(MonthStartDay(u), today)
         THEN Dashboard(u)' = Dashboard(u)
         ELSE /\ Dashboard(u).lastMonth' = Dashboard(u).thisMonth
              /\ Dashboard(u).thisMonth' = Total(During(Mine(u), CurrentWindow(MonthStartDay(u), today')))
<1> DEFINE sd == MonthStartDay(u)
           next == DayAfter(today)
<1>1. /\ today \in Dates /\ today.year # 0 /\ sd \in 1..28
      /\ next \in Dates /\ next.year # 0
  BY StartDaysRange, DayAfterIsDate DEF TypeInv, TypeOK
<1>2. rows' = rows /\ today' = next /\ MonthStartDay(u)' = sd
  BY DEF Midnight, MonthStartDay
<1>3. CurrentWindow(MonthStartDay(u), today)' = CurrentWindow(sd, next)
  BY <1>2
<1>4. Dashboard(u) = DashboardOf(rows, u, sd, today)
  BY DashboardIs DEF DashboardShown
<1>5. Dashboard(u)' = DashboardOf(rows, u, sd, next)
  BY <1>2 DEF DashboardShown
<1>6. \A w : Total(During(Mine(u), w)) = TotalOf(rows, HeldOf(rows, u, w))
  <2>1. Mine(u) = MineOf(rows, u)
    BY DEF Mine, MineOf, Saved
  <2>2. \A w : During(Mine(u), w) = HeldOf(rows, u, w)
    BY <2>1 DEF During, HeldOf
  <2> QED
    BY <2>2, TotalIs
<1> HIDE DEF sd, next
<1>7. CASE today = CurrentWindow(sd, today).end
  <2>1. /\ CurrentLabel(sd, next) = NextMonth(CurrentLabel(sd, today))
        /\ PreviousWindow(sd, next) = CurrentWindow(sd, today)
    BY <1>1, <1>7, CycleBecomesPrevious DEF next
  <2>2. CurrentWindow(sd, next) # CurrentWindow(sd, today)
    <3> DEFINE c == CurrentLabel(sd, today)
    <3>1. c \in Labels /\ NextMonth(c) \in Labels /\ MonthNumber(NextMonth(c)) = MonthNumber(c) + 1
      BY <1>1, CurrentIsLabel, NextIsLabel, NextNumber
    <3>2. LabelOf(CurrentWindow(sd, today).start) = c /\ LabelOf(CurrentWindow(sd, next).start) = NextMonth(c)
      BY <1>1, <2>1, <3>1, EndsOfCycle DEF CurrentWindow
    <3>3. MonthNumber(c) \in Int
      BY <3>1, NumberIsInt
    <3> QED
      BY <3>1, <3>2, <3>3
  <2>3. /\ Dashboard(u)'.lastMonth = TotalOf(rows, HeldOf(rows, u, CurrentWindow(sd, today)))
        /\ Dashboard(u)'.thisMonth = TotalOf(rows, HeldOf(rows, u, CurrentWindow(sd, next)))
    BY <1>5, <2>1 DEF DashboardOf
  <2>4. Dashboard(u).thisMonth = TotalOf(rows, HeldOf(rows, u, CurrentWindow(sd, today)))
    BY <1>4 DEF DashboardOf
  <2>5. Total(During(Mine(u), CurrentWindow(MonthStartDay(u), today')))
          = TotalOf(rows, HeldOf(rows, u, CurrentWindow(sd, next)))
    BY <1>2, <1>6 DEF sd
  <2> QED
    BY <1>3, <2>2, <2>3, <2>4, <2>5 DEF sd
<1>8. CASE today # CurrentWindow(sd, today).end
  <2>1. CurrentLabel(sd, next) = CurrentLabel(sd, today)
    BY <1>1, <1>8, CycleEnds DEF next
  <2>2. CurrentWindow(sd, next) = CurrentWindow(sd, today) /\ PreviousWindow(sd, next) = PreviousWindow(sd, today)
    BY <2>1 DEF CurrentWindow, PreviousWindow
  <2>3. Dashboard(u)' = Dashboard(u)
    BY <1>4, <1>5, <2>2 DEF DashboardOf
  <2> QED
    BY <1>3, <2>2, <2>3 DEF sd
<1> QED
  BY <1>7, <1>8

\* When a month of a user is over, what was this month's is last month's, however
\* long the months are and whatever the start day (dashboard/service.py).
THEOREM CyclesTurnOver == Spec => CycleTurnsOver
<1> DEFINE Turns == today' # today => \A u \in Users :
             IF CurrentWindow(MonthStartDay(u), today)' = CurrentWindow(MonthStartDay(u), today)
             THEN Dashboard(u)' = Dashboard(u)
             ELSE /\ Dashboard(u).lastMonth' = Dashboard(u).thisMonth
                  /\ Dashboard(u).thisMonth'
                       = Total(During(Mine(u), CurrentWindow(MonthStartDay(u), today')))
<1>1. DashboardShown'
  BY DashboardIs, PTL
<1>2. TypeInv /\ [Next]_vars => [Turns]_vars
  <2> SUFFICES ASSUME TypeInv, Next, today' # today PROVE Turns
    OBVIOUS
  <2>1. Midnight
    BY DEF Next, Erase, Save, Correct, DropCategory, Drag, SetStartDay, SetIncome
  <2> QED
    BY <1>1, <2>1, TurnsOver
<1>3. Spec => [][Turns]_vars
  <2> HIDE DEF Turns
  <2> QED
    BY <1>2, TypeCorrect, PTL DEF Spec
<1> QED
  BY <1>3 DEF CycleTurnsOver

-----------------------------------------------------------------------------
(* The health score *)

\* A set of numbers up to n has a greatest one.
LEMMA GreatestOf ==
  ASSUME NEW n \in Nat, NEW S, S \subseteq 0..n, S # {}
  PROVE  Max(S) \in S /\ \A y \in S : Max(S) >= y
<1> DEFINE T == {k..n : k \in S}
<1>1. \A U \in T : IsFiniteSet(U)
  BY FS_Interval
<1>2. T # {}
  OBVIOUS
<1>3. PICK U \in T : \A V \in T : V \subseteq U => V = U
  <2> HIDE DEF T
  <2> QED
    BY <1>1, <1>2, Smallest
<1>4. PICK k \in S : U = k..n
  OBVIOUS
<1>5. ASSUME NEW j \in S PROVE k >= j
  <2> SUFFICES ASSUME j > k PROVE FALSE
    OBVIOUS
  <2>1. j..n \in T /\ j..n \subseteq k..n
    OBVIOUS
  <2>2. j..n = k..n
    BY <1>3, <1>4, <2>1
  <2>3. k \in k..n /\ k \notin j..n
    OBVIOUS
  <2> QED
    BY <2>2, <2>3
<1>6. \E x \in S : \A y \in S : x >= y
  BY <1>5
<1> QED
  BY <1>6 DEF Max

\* Consistency gives 0 to 30 points.
LEMMA ConsistencyRange == ASSUME NEW t PROVE ConsistencyPoints(t) \in 0..30
<1> DEFINE sum == t[1] + t[2] + t[3]
           squares == t[1] * t[1] + t[2] * t[2] + t[3] * t[3]
           K == {k \in 0..30 : 900 * (3 * squares - sum * sum) <= (30 - k) * (30 - k) * sum * sum}
<1>1. ConsistencyPoints(t) = IF sum = 0 THEN 0 ELSE Max({0} \union K)
  BY DEF ConsistencyPoints
<1>2. K \subseteq 0..30
  OBVIOUS
<1> HIDE DEF sum, K
<1>3. {0} \union K \subseteq 0..30 /\ {0} \union K # {}
  BY <1>2
<1>4. Max({0} \union K) \in 0..30
  BY <1>3, GreatestOf
<1> QED
  BY <1>1, <1>4

\* Savings give 0 to 40 points, no more for more spending, and all of them to who
\* keeps a fifth of the income.
LEMMA SavingsRange ==
  ASSUME NEW inc \in Nat, NEW spent \in Nat
  PROVE  /\ SavingsPoints(inc, spent) \in 0..40
         /\ \A less \in 0..spent : SavingsPoints(inc, spent) <= SavingsPoints(inc, less)
         /\ (SavingsAdvice(inc, spent) = "positive") <=> (SavingsPoints(inc, spent) = 40)
<1> DEFINE kept(s) == (inc - s) * 200
           q(s) == kept(s) \div inc
<1>1. ASSUME NEW s \in Nat, s < inc
      PROVE  q(s) \in Nat /\ inc * q(s) <= kept(s) /\ kept(s) < inc * q(s) + inc
  <2>1. kept(s) \in Nat /\ inc \in Nat \ {0}
    BY <1>1
  <2> HIDE DEF kept
  <2> QED
    BY <2>1
<1>2. ASSUME NEW s \in Nat PROVE SavingsPoints(inc, s) \in 0..40
  <2>1. CASE s < inc
    BY <1>1, <2>1 DEF SavingsPoints, Least
  <2>2. CASE ~ (s < inc)
    BY <2>2 DEF SavingsPoints
  <2> QED
    BY <2>1, <2>2
<1>3. ASSUME NEW less \in 0..spent PROVE SavingsPoints(inc, spent) <= SavingsPoints(inc, less)
  <2>1. CASE spent < inc
    <3>1. kept(spent) \in Nat /\ kept(less) \in Nat /\ kept(spent) <= kept(less) /\ inc \in Nat \ {0}
      BY <2>1
    <3>2. q(spent) <= q(less) /\ q(spent) \in Nat /\ q(less) \in Nat
      <4> HIDE DEF kept
      <4> QED
        BY <3>1
    <3>3. SavingsPoints(inc, spent) = Least(40, q(spent)) /\ SavingsPoints(inc, less) = Least(40, q(less))
      BY <2>1 DEF SavingsPoints
    <3> HIDE DEF q
    <3> QED
      BY <3>2, <3>3 DEF Least
  <2>2. CASE ~ (spent < inc)
    BY <1>2, <2>2 DEF SavingsPoints
  <2> QED
    BY <2>1, <2>2
<1>4. (SavingsAdvice(inc, spent) = "positive") <=> (SavingsPoints(inc, spent) = 40)
  <2>1. CASE spent < inc
    <3>1. SavingsPoints(inc, spent) = Least(40, q(spent))
      BY <2>1 DEF SavingsPoints
    <3>2. /\ q(spent) \in Nat /\ inc * q(spent) <= 200 * (inc - spent)
          /\ 200 * (inc - spent) < inc * q(spent) + inc
      BY <1>1, <2>1
    <3> HIDE DEF q
    <3>3. SavingsPoints(inc, spent) = 40 <=> q(spent) >= 40
      BY <3>1, <3>2 DEF Least
    <3>4. q(spent) >= 40 => inc * q(spent) >= inc * 40
      BY <3>2
    <3>5. q(spent) <= 39 => inc * q(spent) <= inc * 39
      BY <3>2
    <3>6. q(spent) >= 40 <=> 5 * (inc - spent) >= inc
      BY <3>2, <3>4, <3>5
    <3>7. SavingsAdvice(inc, spent) = "positive" <=> 5 * (inc - spent) >= inc
      BY <2>1 DEF SavingsAdvice
    <3> QED
      BY <3>3, <3>6, <3>7
  <2>2. CASE ~ (spent < inc)
    <3>1. SavingsPoints(inc, spent) = 0
      BY <2>2 DEF SavingsPoints
    <3>2. SavingsAdvice(inc, spent) # "positive"
      BY <2>2 DEF SavingsAdvice
    <3> QED
      BY <3>1, <3>2
  <2> QED
    BY <2>1, <2>2
<1> QED
  BY <1>2, <1>3, <1>4

\* The income a score is about is a number.
LEMMA ScopeIncomeNat ==
  ASSUME TypeInv, NEW u \in Users, NEW shared
  PROVE  ScopeIncome(u, shared) \in Nat
<1>1. \A v \in Users : income[v] \in Nat
  BY FiguresAssumption DEF TypeInv, TypeOK
<1>2. MapThenSumSet(LAMBDA m : income[m], Family) = SumOf(income, Family)
  BY Zenon DEF SumOf
<1>3. SumOf(income, Family) \in Nat
  <2>1. \A m \in Family : income[m] \in Nat
    BY <1>1, FiguresAssumption
  <2> QED
    BY <2>1, SumNat, FiguresAssumption
<1> QED
  BY <1>1, <1>2, <1>3 DEF ScopeIncome

\* A row of the current cycle is in none of the three before it.
LEMMA TrailingWithout ==
  ASSUME TypeInv, NEW sd \in 1..28, NEW S, S \subseteq Saved,
         NEW i \in During(S, CurrentWindow(sd, today))
  PROVE  TrailingTotals(S \ {i}, sd) = TrailingTotals(S, sd)
<1> DEFINE c == CurrentLabel(sd, today)
           w == RecentWindows(sd, today, 3, FALSE)
<1>1. /\ c \in Labels /\ MonthNumber(c) >= 12 /\ MonthNumber(c) \in Int
      /\ PeriodWindow(c, sd) = CurrentWindow(sd, today)
  BY CurrentCycle
<1>2. PrevMonth(c) \in Labels /\ MonthNumber(PrevMonth(c)) = MonthNumber(c) - 1
  BY <1>1, PrevIsLabel
<1>3. i \in S /\ rows[i].date \in Dates /\ Holds(PeriodWindow(c, sd), rows[i].date)
  BY <1>1, Taken DEF During
<1>4. ASSUME NEW n \in 1..3 PROVE ~ Holds(w[n], rows[i].date)
  <2> DEFINE b == Back(PrevMonth(c), 3 - n)
  <2>1. w[n] = PeriodWindow(b, sd)
    BY DEF RecentWindows
  <2>2. b \in Labels /\ MonthNumber(b) = MonthNumber(c) - 1 - (3 - n)
    <3>1. 3 - n \in Nat /\ 3 - n < MonthNumber(PrevMonth(c))
      BY <1>1, <1>2
    <3> QED
      BY <1>2, <3>1, BackNumber
  <2>3. b # c
    BY <1>1, <2>2
  <2> SUFFICES ASSUME Holds(w[n], rows[i].date) PROVE FALSE
    OBVIOUS
  <2>4. Holds(PeriodWindow(b, sd), rows[i].date)
    BY <2>1
  <2> HIDE DEF b, c
  <2>5. b = c
    BY <1>1, <1>3, <2>2, <2>4, OneCycle
  <2> QED
    BY <2>3, <2>5
<1>5. \A n \in 1..3 : During(S \ {i}, w[n]) = During(S, w[n])
  BY <1>4 DEF During
<1>6. \A X : TrailingTotals(X, sd)
               = <<Total(During(X, w[1])), Total(During(X, w[2])), Total(During(X, w[3]))>>
  BY DEF TrailingTotals
<1> HIDE DEF w
<1>7. /\ During(S \ {i}, w[1]) = During(S, w[1]) /\ During(S \ {i}, w[2]) = During(S, w[2])
      /\ During(S \ {i}, w[3]) = During(S, w[3])
  BY <1>5
<1> QED
  BY <1>6, <1>7

\* Without a row of the current cycle, less is spent in it.
LEMMA SpentWithout ==
  ASSUME TypeInv, NEW sd, NEW S, S \subseteq Saved,
         NEW i \in During(S, CurrentWindow(sd, today))
  PROVE  SpentNow(S \ {i}, sd) \in Nat /\ SpentNow(S, sd) \in Nat /\ SpentNow(S \ {i}, sd) <= SpentNow(S, sd)
<1> DEFINE R == During(S \ {i}, CurrentWindow(sd, today))
<1>1. R \subseteq Saved /\ {i} \subseteq Saved /\ R \intersect {i} = {}
  BY DEF During
<1>2. R \union {i} = During(S, CurrentWindow(sd, today))
  BY DEF During
<1>3. Total(R) \in Nat /\ Total({i}) \in Nat
  BY <1>1, SavedAmounts
<1>4. SpentNow(S \ {i}, sd) = Total(R) /\ SpentNow(S, sd) = Total(R \union {i})
  BY <1>2 DEF SpentNow
<1> HIDE DEF R
<1>5. Total(R \union {i}) = Total(R) + Total({i})
  BY <1>1, TotalUnion
<1> QED
  BY <1>3, <1>4, <1>5

\* Whatever is saved, one more expense scores no higher.
LEMMA SpendingScores == TypeInv => SpendingNeverScores
<1> SUFFICES ASSUME TypeInv, NEW u \in Users, NEW shared \in BOOLEAN
             PROVE  LET sd == ScopeStartDay(u, shared)
                        inc == ScopeIncome(u, shared)
                        S == Scope(u, shared)
                        score == HealthScore(S, sd, inc, 1, 2)
                    IN  /\ score \in 0..100
                        /\ \A i \in During(S, CurrentWindow(sd, today)) :
                             /\ score <= HealthScore(S \ {i}, sd, inc, 1, 2)
                             /\ score <= HealthScore(S \ {i}, sd, inc, 2, 2)
                        /\ (SavingsAdvice(inc, SpentNow(S, sd)) = "positive")
                             <=> (SavingsPoints(inc, SpentNow(S, sd)) = 40)
                        /\ Forecast(S, sd).confident => Forecast(S, sd).nextMonth > 0
  BY DEF SpendingNeverScores
<1> DEFINE sd == ScopeStartDay(u, shared)
           inc == ScopeIncome(u, shared)
           S == Scope(u, shared)
           spent == SpentNow(S, sd)
           t == TrailingTotals(S, sd)
<1>1. sd \in 1..28 /\ inc \in Nat /\ S \subseteq Saved
  BY StartDaysRange, ScopeIncomeNat, Taken
<1>2. \A w : Total(During(S, w)) \in Nat
  <2>1. \A w : During(S, w) \subseteq Saved
    BY Taken, <1>1 DEF During
  <2> QED
    BY <2>1, SavedAmounts
<1>3. spent \in Nat
  BY <1>2 DEF SpentNow
<1>4. BudgetPoints(1, 2) = 15 /\ BudgetPoints(2, 2) = 30
  BY DEF BudgetPoints
<1>5. ConsistencyPoints(t) \in 0..30 /\ SavingsPoints(inc, spent) \in 0..40
  BY <1>1, <1>3, ConsistencyRange, SavingsRange
<1>6. HealthScore(S, sd, inc, 1, 2) = SavingsPoints(inc, spent) + 15 + ConsistencyPoints(t)
  BY <1>4, <1>5 DEF HealthScore, Least
<1>7. ASSUME NEW i \in During(S, CurrentWindow(sd, today))
      PROVE  /\ HealthScore(S, sd, inc, 1, 2) <= HealthScore(S \ {i}, sd, inc, 1, 2)
             /\ HealthScore(S, sd, inc, 1, 2) <= HealthScore(S \ {i}, sd, inc, 2, 2)
  <2> DEFINE less == SpentNow(S \ {i}, sd)
  <2>1. less \in Nat /\ less <= spent
    BY <1>1, SpentWithout
  <2>2. TrailingTotals(S \ {i}, sd) = t
    BY <1>1, TrailingWithout
  <2>3. SavingsPoints(inc, less) \in 0..40 /\ SavingsPoints(inc, spent) <= SavingsPoints(inc, less)
    <3>1. less \in 0..spent
      BY <1>3, <2>1
    <3> HIDE DEF less, spent, inc
    <3> QED
      BY <1>1, <1>3, <2>1, <3>1, SavingsRange
  <2>4. /\ HealthScore(S \ {i}, sd, inc, 1, 2)
             = Least(100, SavingsPoints(inc, less) + 15 + ConsistencyPoints(t))
        /\ HealthScore(S \ {i}, sd, inc, 2, 2)
             = Least(100, SavingsPoints(inc, less) + 30 + ConsistencyPoints(t))
    BY <1>4, <2>2 DEF HealthScore
  <2> HIDE DEF less, spent, inc, t, S, sd
  <2> QED
    BY <1>5, <1>6, <2>3, <2>4 DEF Least
<1>8. Forecast(S, sd).confident => Forecast(S, sd).nextMonth > 0
  <2>1. t[1] \in Nat /\ t[2] \in Nat /\ t[3] \in Nat
    BY <1>2 DEF TrailingTotals
  <2>2. /\ Forecast(S, sd).nextMonth = (t[1] + t[2] + t[3]) \div 3
        /\ Forecast(S, sd).confident = (\A n \in 1..3 : t[n] > 0)
    BY DEF Forecast
  <2> HIDE DEF t, S, sd
  <2>3. ASSUME \A n \in 1..3 : t[n] > 0 PROVE (t[1] + t[2] + t[3]) \div 3 > 0
    <3>1. t[1] > 0 /\ t[2] > 0 /\ t[3] > 0
      BY <2>3
    <3> QED
      BY <2>1, <3>1
  <2> QED
    BY <2>2, <2>3, Zenon
<1>9. HealthScore(S, sd, inc, 1, 2) \in 0..100
  BY <1>5, <1>6
<1> QED
  BY <1>1, <1>3, <1>7, <1>8, <1>9, SavingsRange

\* The health score is 0 to 100, no row of the current month raises it, and who
\* is praised for the savings has all the points for them (ai/service.py).
THEOREM SpendingNeverScored == Spec => []SpendingNeverScores
BY TypeCorrect, SpendingScores, PTL

-----------------------------------------------------------------------------
(* From a category upwards *)

\* The parent, as far as it is known, and the function that follows it N times.
StepUp(known, x) == IF x \in known /\ parent[x] \in known THEN parent[x] ELSE NoCat
Climbs(known, c, N, g) ==
  g = [k \in 0..N |-> IF k = 0 THEN c ELSE StepUp(known, g[k - 1])]

\* There is such a function.
LEMMA CanClimb == ASSUME NEW known, NEW c, NEW N \in Nat PROVE \E g : Climbs(known, c, N, g)
<1> DEFINE T == {0..n : n \in {m \in Nat : ~ \E g : Climbs(known, c, m, g)}}
<1>1. SUFFICES ASSUME T # {} PROVE FALSE
  OBVIOUS
<1>2. \A U \in T : IsFiniteSet(U)
  BY FS_Interval
<1>3. PICK U \in T : \A V \in T : V \subseteq U => V = U
  <2> HIDE DEF T
  <2> QED
    BY <1>1, <1>2, Smallest
<1>4. PICK n \in Nat : U = 0..n /\ ~ \E g : Climbs(known, c, n, g)
  OBVIOUS
<1>5. n # 0
  <2> SUFFICES ASSUME n = 0 PROVE FALSE
    OBVIOUS
  <2> DEFINE g == [k \in 0..0 |-> c]
  <2>1. Climbs(known, c, 0, g)
    BY DEF Climbs
  <2> QED
    BY <1>4, <2>1
<1>6. \E g : Climbs(known, c, n - 1, g)
  <2> SUFFICES ASSUME ~ \E g : Climbs(known, c, n - 1, g) PROVE FALSE
    OBVIOUS
  <2>1. n - 1 \in Nat
    BY <1>5
  <2>2. 0..(n - 1) \in T
    BY <2>1
  <2>3. 0..(n - 1) \subseteq 0..n /\ n \in 0..n /\ n \notin 0..(n - 1)
    OBVIOUS
  <2> QED
    BY <1>3, <1>4, <2>2, <2>3
<1>7. PICK g : Climbs(known, c, n - 1, g)
  BY <1>6
<1> DEFINE h == [k \in 0..n |-> IF k = n THEN StepUp(known, g[n - 1]) ELSE g[k]]
<1>8. ASSUME NEW k \in 0..n
      PROVE  h[k] = IF k = 0 THEN c ELSE StepUp(known, h[k - 1])
  <2>1. \A j \in 0..(n - 1) : g[j] = IF j = 0 THEN c ELSE StepUp(known, g[j - 1])
    BY <1>7 DEF Climbs
  <2>2. \A j \in 0..(n - 1) : h[j] = g[j]
    OBVIOUS
  <2>3. h[n] = StepUp(known, g[n - 1])
    OBVIOUS
  <2> HIDE DEF h
  <2>4. CASE k = n
    BY <1>5, <2>2, <2>3, <2>4
  <2>5. CASE k # n
    <3>1. k \in 0..(n - 1) /\ (k # 0 => k - 1 \in 0..(n - 1))
      BY <2>5
    <3> QED
      BY <2>1, <2>2, <3>1
  <2> QED
    BY <2>4, <2>5
<1>9. Climbs(known, c, n, h)
  <2>1. h = [k \in 0..n |-> h[k]]
    OBVIOUS
  <2> HIDE DEF h
  <2> QED
    BY <1>8, <2>1 DEF Climbs
<1> QED
  BY <1>4, <1>9

\* What the way up from a category is, and where it may stop.
Passed(g, k) == {g[j] : j \in 0..k}
Stops(g) == {k \in 0..Cardinality(Cats) :
               NoCat \notin Passed(g, k) /\ Cardinality(Passed(g, k)) = k + 1}
IsWay(known, c, g) ==
  /\ g[0] = c
  /\ \A k \in 1..Cardinality(Cats) : g[k] = StepUp(known, g[k - 1])
  /\ DOMAIN Upwards(known, c) = Stops(g)
  /\ \A k \in Stops(g) : Upwards(known, c)[k] = g[k]

\* The way up from a category is the part of a climb that repeats nothing.
LEMMA UpwardsIs == ASSUME NEW known, NEW c PROVE \E g : IsWay(known, c, g)
<1> DEFINE N == Cardinality(Cats)
           Way(g) == [k \in 0..N |-> IF k = 0 THEN c
                        ELSE IF g[k - 1] \in known /\ parent[g[k - 1]] \in known
                             THEN parent[g[k - 1]] ELSE NoCat]
           g == CHOOSE f : f = Way(f)
           seen(k) == {g[j] : j \in 0..k}
<1>1. N \in Nat
  BY FiguresAssumption, FS_CardinalityType
<1>2. Upwards(known, c) = [k \in {k \in DOMAIN g : NoCat \notin seen(k) /\ Cardinality(seen(k)) = k + 1} |-> g[k]]
  BY Zenon DEF Upwards
<1>3. \E f : f = Way(f)
  <2>1. PICK f : Climbs(known, c, N, f)
    BY <1>1, CanClimb
  <2>2. f = Way(f)
    BY <2>1 DEF Climbs, StepUp
  <2> QED
    BY <2>2
<1>4. g = Way(g)
  <2> HIDE DEF Way
  <2> QED
    BY <1>3
<1> HIDE DEF g
<1>5. DOMAIN g = 0..N /\ \A k \in 0..N : g[k] = IF k = 0 THEN c ELSE StepUp(known, g[k - 1])
  BY <1>4 DEF StepUp
<1>6. g[0] = c /\ \A k \in 1..N : g[k] = StepUp(known, g[k - 1])
  BY <1>1, <1>5
<1>7. \A k : Passed(g, k) = seen(k)
  BY DEF Passed
<1>8. {k \in DOMAIN g : NoCat \notin seen(k) /\ Cardinality(seen(k)) = k + 1} = Stops(g)
  BY <1>5, <1>7 DEF Stops
<1>9. Upwards(known, c) = [k \in Stops(g) |-> g[k]]
  BY <1>2, <1>8
<1> QED
  BY <1>6, <1>9 DEF IsWay

\* One thing is one.
LEMMA One == ASSUME NEW a PROVE Cardinality({a}) = 1 /\ IsFiniteSet({a})
BY FS_Singleton

\* Two different things are two.
LEMMA Two ==
  ASSUME NEW a, NEW b, a # b PROVE Cardinality({a, b}) = 2 /\ IsFiniteSet({a, b})
<1> DEFINE S == {a}
<1>1. S \union {b} = {a, b} /\ b \notin S
  OBVIOUS
<1>2. Cardinality(S) = 1 /\ IsFiniteSet(S)
  BY One
<1> HIDE DEF S
<1>3. IsFiniteSet(S \union {b}) /\ Cardinality(S \union {b}) = 2
  BY <1>1, <1>2, FS_AddElement
<1> QED
  BY <1>1, <1>3

\* Three different things are three.
LEMMA Three ==
  ASSUME NEW a, NEW b, NEW c, a # b, a # c, b # c PROVE Cardinality({a, b, c}) = 3
<1> DEFINE S == {a, b}
<1>1. S \union {c} = {a, b, c} /\ c \notin S
  OBVIOUS
<1>2. Cardinality(S) = 2 /\ IsFiniteSet(S)
  BY Two
<1> HIDE DEF S
<1>3. Cardinality(S \union {c}) = 3
  BY <1>1, <1>2, FS_AddElement
<1> QED
  BY <1>1, <1>3

\* What hangs below a known category, in its book, is known.
LEMMA BelowKnown ==
  ASSUME NEW u, NEW shared, NEW c \in Known(u, shared), OneBook(c)
  PROVE  Below(c) \subseteq Known(u, shared)
<1>1. /\ c \in Cats /\ parent[c] # "gone" /\ (c \in FamilyCats) = Shares(u, shared)
      /\ \A d \in Cats : parent[d] # "gone" /\ ((d \in FamilyCats) = Shares(u, shared))
                           => d \in Known(u, shared)
  BY DEF Known
<1>2. ASSUME NEW d \in Below(c) PROVE d \in Cats /\ parent[d] # "gone"
  BY <1>1, <1>2, FiguresAssumption DEF Below
<1> QED
  BY <1>1, <1>2 DEF OneBook

\* The way up ends after n steps when the next one leads nowhere.
LEMMA WayEnds ==
  ASSUME NEW known, NEW d, NEW g, IsWay(known, d, g), NEW n \in Stops(g),
         n + 1 \in 0..Cardinality(Cats) => g[n + 1] = NoCat
  PROVE  RootIn(known, d) = g[n]
<1>1. Cardinality(Cats) \in Nat /\ Stops(g) \subseteq 0..Cardinality(Cats)
  BY FiguresAssumption, FS_CardinalityType DEF Stops
<1>2. ASSUME NEW k \in Stops(g) PROVE n >= k
  <2> SUFFICES ASSUME n < k PROVE FALSE
    BY <1>1
  <2>1. n + 1 \in 0..k /\ n + 1 \in 0..Cardinality(Cats)
    BY <1>1
  <2>2. g[n + 1] = NoCat
    BY <2>1
  <2>3. NoCat \in Passed(g, k)
    BY <2>1, <2>2 DEF Passed
  <2> QED
    BY <2>3 DEF Stops
<1>3. Max(Stops(g)) \in Stops(g) /\ \A y \in Stops(g) : Max(Stops(g)) >= y
  BY <1>1, GreatestOf
<1>4. Max(Stops(g)) = n
  BY <1>1, <1>2, <1>3
<1> QED
  BY <1>4 DEF RootIn, IsWay

\* Unless the tree is deeper than budgets look or mixes books, the categories below a main one
\* are the known ones whose way up ends there.
LEMMA BelowMain ==
  ASSUME NEW u, NEW shared, NEW c \in Known(u, shared),
         parent[c] = "root", NoDeeper(c), OneBook(c), NEW d
  PROVE  d \in Below(c) <=> d \in Known(u, shared) /\ RootIn(Known(u, shared), d) = c
<1> DEFINE known == Known(u, shared)
           N == Cardinality(Cats)
<1>0. N \in Nat
  BY FiguresAssumption, FS_CardinalityType
<1>1. known \subseteq Cats /\ c \in Cats /\ Below(c) \subseteq known /\ "root" \notin Cats /\ NoCat \notin Cats
  BY BelowKnown, FiguresAssumption DEF Known
<1>2. PICK g : IsWay(known, d, g)
  BY UpwardsIs
<1>7. /\ g[0] = d /\ \A k \in 1..N : g[k] = StepUp(known, g[k - 1])
      /\ DOMAIN Upwards(known, d) = Stops(g) /\ \A k \in Stops(g) : Upwards(known, d)[k] = g[k]
  BY <1>2 DEF IsWay
<1>3. StepUp(known, c) = NoCat
  BY <1>1 DEF StepUp
<1>4. ASSUME NEW n \in 0..N, NEW P, Passed(g, n) = P, NoCat \notin P, Cardinality(P) = n + 1,
             g[n] = c
      PROVE  RootIn(known, d) = c
  <2>1. n \in Stops(g)
    BY <1>4 DEF Stops
  <2>2. n + 1 \in 0..N => g[n + 1] = NoCat
    <3> SUFFICES ASSUME n + 1 \in 0..N PROVE g[n + 1] = NoCat
      OBVIOUS
    <3>1. n + 1 \in 1..N /\ (n + 1) - 1 = n
      OBVIOUS
    <3> QED
      BY <1>3, <1>4, <1>7, <3>1
  <2> HIDE DEF known
  <2> QED
    BY <1>2, <1>4, <2>1, <2>2, WayEnds
<1>5. ASSUME d \in Below(c) PROVE RootIn(known, d) = c
  <2>1. CASE d = c
    <3>1. Passed(g, 0) = {c} /\ g[0] = c
      BY <1>7, <2>1 DEF Passed
    <3>2. NoCat \notin {c} /\ 0 \in 0..N
      BY <1>0, <1>1
    <3>3. Cardinality({c}) = 0 + 1
      <4>1. Cardinality({c}) = 1
        BY One
      <4> QED
        BY <4>1
    <3> QED
      BY <1>4, <3>1, <3>2, <3>3
  <2>2. CASE d # c /\ parent[d] = c
    <3>1. d \in Cats /\ N >= 2
      <4>1. {d, c} \subseteq Cats
        BY <1>1, <1>5
      <4>2. Cardinality({d, c}) = 2
        BY <2>2, Two
      <4> QED
        BY <4>1, <4>2, FS_Subset, FiguresAssumption
    <3>2. g[1] = c
      <4>1. 1 \in 1..N /\ 1 - 1 = 0
        BY <1>0, <3>1
      <4> QED
        BY <1>1, <1>5, <1>7, <2>2, <4>1 DEF StepUp
    <3>3. Passed(g, 1) = {d, c}
      <4>1. 0..1 = {0, 1}
        OBVIOUS
      <4> QED
        BY <1>7, <3>2, <4>1 DEF Passed
    <3>4. NoCat \notin {d, c} /\ 1 \in 0..N
      BY <1>0, <1>1, <3>1
    <3>5. Cardinality({d, c}) = 1 + 1
      <4>1. Cardinality({d, c}) = 2
        BY <2>2, Two
      <4> QED
        BY <4>1
    <3> QED
      BY <1>4, <3>2, <3>3, <3>4, <3>5
  <2>3. CASE d # c /\ parent[d] # c
    <3>1. PICK e \in Cats : parent[e] = c /\ parent[d] = e /\ d \in Cats
      BY <1>5, <2>3 DEF Below
    <3>2. e # c /\ e # d
      BY <1>1, <2>3, <3>1
    <3>3. N >= 3
      <4>1. {d, e, c} \subseteq Cats
        BY <1>1, <3>1
      <4>2. Cardinality({d, e, c}) = 3
        BY <2>3, <3>2, Three
      <4> QED
        BY <4>1, <4>2, FS_Subset, FiguresAssumption
    <3>4. e \in known
      <4>1. e \in Below(c)
        BY <3>1 DEF Below
      <4> QED
        BY <1>1, <4>1
    <3>5. g[1] = e
      <4>1. 1 \in 1..N /\ 1 - 1 = 0
        BY <1>0, <3>3
      <4> QED
        BY <1>1, <1>5, <1>7, <3>1, <3>4, <4>1 DEF StepUp
    <3>6. g[2] = c
      <4>1. 2 \in 1..N /\ 2 - 1 = 1
        BY <1>0, <3>3
      <4>2. g[2] = StepUp(known, g[1])
        BY <1>7, <4>1
      <4> QED
        BY <1>1, <3>1, <3>4, <3>5, <4>2 DEF StepUp
    <3>7. Passed(g, 2) = {d, e, c}
      <4>1. 0..2 = {0, 1, 2}
        OBVIOUS
      <4> QED
        BY <1>7, <3>5, <3>6, <4>1 DEF Passed
    <3>8. NoCat \notin {d, e, c} /\ 2 \in 0..N
      BY <1>0, <1>1, <3>1, <3>3
    <3>9. Cardinality({d, e, c}) = 2 + 1
      <4>1. Cardinality({d, e, c}) = 3
        BY <2>3, <3>2, Three
      <4> QED
        BY <4>1
    <3> QED
      BY <1>4, <3>6, <3>7, <3>8, <3>9
  <2> QED
    BY <2>1, <2>2, <2>3
<1>6. ASSUME d \in known, RootIn(known, d) = c PROVE d \in Below(c)
  <2>1. 0 \in Stops(g) /\ Stops(g) \subseteq 0..N
    <3>1. Passed(g, 0) = {d}
      BY <1>7 DEF Passed
    <3>2. Cardinality({d}) = 0 + 1
      <4>1. Cardinality({d}) = 1
        BY One
      <4> QED
        BY <4>1
    <3> QED
      BY <1>0, <1>1, <1>6, <3>1, <3>2 DEF Stops
  <2>2. PICK m \in Stops(g) : g[m] = c
    <3>1. Max(Stops(g)) \in Stops(g)
      BY <1>0, <2>1, GreatestOf
    <3>2. RootIn(known, d) = Upwards(known, d)[Max(Stops(g))]
      BY <1>7 DEF RootIn
    <3> QED
      BY <1>6, <1>7, <3>1, <3>2
  <2> DEFINE B == {k \in 0..m : g[k] \notin Below(c)}
  <2>3. SUFFICES ASSUME 0 \in B PROVE FALSE
    BY <1>7, <2>1, <2>2
  <2>4. PICK k \in B : \A y \in B : k >= y
    <3>1. B \subseteq 0..N
      BY <1>0, <2>1
    <3> HIDE DEF B
    <3> QED
      BY <1>0, <2>3, <3>1, GreatestOf
  <2>5. m \in 0..N
    BY <2>1, <2>2
  <2>6. g[m] \in Below(c)
    BY <1>1, <2>2 DEF Below
  <2>7. k \in 0..m /\ k # m
    BY <2>4, <2>6
  <2>8. k + 1 \in 0..m /\ k + 1 \in 1..N /\ (k + 1) - 1 = k
    BY <1>0, <2>5, <2>7
  <2>9. g[k + 1] \in Below(c)
    BY <2>4, <2>7, <2>8
  <2>10. g[k + 1] = StepUp(known, g[k])
    BY <1>7, <2>8
  <2>11. g[k] \in known /\ parent[g[k]] \in Below(c)
    BY <1>1, <2>9, <2>10 DEF StepUp
  <2>12. g[k] \in Below(c)
    BY <1>1, <2>11 DEF NoDeeper
  <2> QED
    BY <2>4, <2>12
<1> QED
  BY <1>1, <1>5, <1>6

-----------------------------------------------------------------------------
(* Every row is counted once *)

\* The last four cycles hold each date between them once, and today is in the last.
LEMMA FourCycles ==
  ASSUME TypeInv, NEW sd \in 1..28
  PROVE  LET w == RecentWindows(sd, today, 4, TRUE)
         IN  /\ w[4] = CurrentWindow(sd, today) /\ Holds(w[4], today)
             /\ \A d \in Days : Order(w[1].start) <= Order(d) /\ Order(d) <= Order(w[4].end)
                                  => Cardinality({k \in 1..4 : Holds(w[k], d)}) = 1
<1> DEFINE c == CurrentLabel(sd, today)
           w == RecentWindows(sd, today, 4, TRUE)
           b(k) == Back(c, 4 - k)
<1>1. /\ c \in Labels /\ MonthNumber(c) >= 12 /\ MonthNumber(c) \in Int
      /\ PeriodWindow(c, sd) = CurrentWindow(sd, today) /\ Back(c, 0) = c
  BY CurrentCycle
<1>2. \A k \in 1..4 : w[k] = PeriodWindow(b(k), sd)
  BY DEF RecentWindows
<1>3. ASSUME NEW k \in 1..4 PROVE b(k) \in Labels /\ MonthNumber(b(k)) = MonthNumber(c) - (4 - k)
  <2>1. 4 - k \in Nat /\ 4 - k < MonthNumber(c)
    BY <1>1
  <2> QED
    BY <1>1, <2>1, BackNumber
<1>4. w[4] = CurrentWindow(sd, today)
  <2>1. 4 \in 1..4 /\ 4 - 4 = 0
    OBVIOUS
  <2>2. w[4] = PeriodWindow(Back(c, 0), sd)
    BY <1>2, <2>1
  <2> HIDE DEF w, c
  <2> QED
    BY <1>1, <2>2
<1>5. Holds(CurrentWindow(sd, today), today)
  BY CurrentHoldsToday DEF TypeInv, TypeOK
<1>6. ClampDay(sd) = sd
  BY DEF ClampDay
<1> HIDE DEF w, c, b
<1>7. ASSUME NEW d \in Days, Order(w[1].start) <= Order(d), Order(d) <= Order(w[4].end)
      PROVE  Cardinality({k \in 1..4 : Holds(w[k], d)}) = 1
  <2> DEFINE l == LabelOf(d)
             n == MonthNumber(l)
             m == MonthNumber(c)
  <2>1. /\ d \in Dates /\ l \in Labels /\ d.day \in 1..31 /\ n \in Int /\ m \in Int
        /\ Order(d) = 32 * n + d.day
    BY <1>1, DateParts, MonthDaysRange, NumberIsInt, FiguresAssumption
  <2>2. ASSUME NEW k \in 1..4
        PROVE  /\ Order(w[k].start) = 32 * (m - (4 - k)) + sd
               /\ Order(w[k].end) = IF sd > 1 THEN 32 * (m - (4 - k)) + 32 + sd - 1
                                    ELSE 32 * (m - (4 - k)) + MonthDays(b(k))
               /\ MonthDays(b(k)) \in 28..31
    BY <1>2, <1>3, <1>6, Bounds, MonthDaysRange
  <2> HIDE DEF l, n, m
  <2>3. /\ 32 * (m - 3) + sd <= 32 * n + d.day
        /\ 32 * n + d.day <= IF sd > 1 THEN 32 * m + 32 + sd - 1 ELSE 32 * m + MonthDays(b(4))
        /\ MonthDays(b(4)) \in 28..31
    BY <1>7, <2>1, <2>2
  <2>4. \E k \in 1..4 : Holds(w[k], d)
    <3>1. CASE sd > 1
      <4>1. PICK k \in 1..4 : /\ 32 * (m - (4 - k)) + sd <= 32 * n + d.day
                              /\ 32 * n + d.day <= 32 * (m - (4 - k)) + 32 + sd - 1
        <5>1. CASE n = m + 1
          BY <2>1, <2>3, <3>1, <5>1
        <5>2. CASE n <= m /\ d.day >= sd
          <6>1. n - m + 4 \in 1..4 /\ m - (4 - (n - m + 4)) = n
            BY <2>1, <2>3, <3>1, <5>2
          <6> QED
            BY <2>1, <5>2, <6>1
        <5>3. CASE n <= m /\ d.day < sd
          <6>1. n - m + 3 \in 1..4 /\ m - (4 - (n - m + 3)) = n - 1
            BY <2>1, <2>3, <3>1, <5>3
          <6> QED
            BY <2>1, <5>3, <6>1
        <5> QED
          BY <2>1, <2>3, <3>1, <5>1, <5>2, <5>3
      <4> QED
        BY <2>1, <2>2, <3>1, <4>1 DEF Holds
    <3>2. CASE sd = 1
      <4>1. n - m + 4 \in 1..4 /\ m - (4 - (n - m + 4)) = n
        BY <2>1, <2>3, <3>2
      <4> DEFINE k == n - m + 4
      <4>2. b(k) \in Labels /\ MonthNumber(b(k)) = n
        BY <1>3, <4>1 DEF m
      <4>3. b(k) = l
        BY <2>1, <4>2, SameNumber DEF n
      <4>4. Holds(PeriodWindow(b(k), 1), d)
        BY <2>1, <4>3, CalendarCycle DEF l
      <4> QED
        BY <1>2, <3>2, <4>1, <4>4
    <3> QED
      BY <3>1, <3>2
  <2>5. PICK k \in 1..4 : Holds(w[k], d)
    BY <2>4
  <2>6. ASSUME NEW j \in 1..4, Holds(w[j], d) PROVE j = k
    <3>1. b(j) = b(k)
      BY <1>2, <1>3, <2>1, <2>5, <2>6, OneCycle
    <3> QED
      BY <1>1, <1>3, <3>1
  <2>7. {j \in 1..4 : Holds(w[j], d)} = {k}
    BY <2>5, <2>6
  <2> QED
    BY <2>7, One
<1> QED
  BY <1>4, <1>5, <1>7 DEF w

\* A part of the breakdown is split by what its rows are called.
LEMMA PartsSplit ==
  ASSUME TypeInv, NEW u, NEW l, NEW shared, NEW k \in DOMAIN Breakdown(u, l, shared)
  PROVE  Added(Breakdown(u, l, shared)[k].subs) = Breakdown(u, l, shared)[k].amount
<1> DEFINE R == PartRows(u, l, shared, k)
<1>1. R \subseteq Saved
  BY Taken DEF PartRows, ShownRows
<1>2. /\ Breakdown(u, l, shared)[k].amount = Total(R)
      /\ Breakdown(u, l, shared)[k].subs = Grouped(R, SubKey(u, shared, R))
  BY BreakdownIs, Zenon
<1> HIDE DEF R
<1> QED
  BY <1>1, <1>2, GroupsAdd

\* The community module's sum of counts is the sum of a function.
LEMMA CountSum ==
  ASSUME NEW r, NEW S
  PROVE  MapThenSumSet(LAMBDA k : r[k].count, S) = SumOf([k \in S |-> r[k].count], S)
<1> DEFINE f == [k \in S |-> r[k].count]
           A(g) == [U \in SUBSET S |-> IF U = {} THEN 0
                      ELSE r[Chosen(U)].count + g[U \ {Chosen(U)}]]
<1>1. MapThenSumSet(LAMBDA k : r[k].count, S) = (CHOOSE g : g = A(g))[S]
  BY Zenon DEF MapThenSumSet, MapThenFoldSet, Chosen
<1>2. SumOf(f, S) = (CHOOSE g : g = Unfolded(f, S, g))[S]
  BY Zenon DEF SumOf, MapThenSumSet, MapThenFoldSet, Unfolded, Chosen
<1>3. ASSUME NEW g PROVE A(g) = Unfolded(f, S, g)
  <2>1. ASSUME NEW U \in SUBSET S, U # {} PROVE r[Chosen(U)].count = f[Chosen(U)]
    <3>1. Chosen(U) \in S
      BY <2>1, ChosenIn
    <3> QED
      BY <3>1
  <2> HIDE DEF f
  <2> QED
    BY <2>1 DEF Unfolded
<1> HIDE DEF A, f
<1>4. (CHOOSE g : g = A(g)) = (CHOOSE g : g = Unfolded(f, S, g))
  BY <1>3, Zenon
<1> QED
  BY <1>1, <1>2, <1>4 DEF f

\* The parts of the breakdown have all rows of the cycle, each once.
LEMMA PartsCount ==
  ASSUME TypeInv, NEW u, NEW l, NEW shared
  PROVE  MapThenSumSet(LAMBDA k : Breakdown(u, l, shared)[k].count, DOMAIN Breakdown(u, l, shared))
           = Cardinality(ShownRows(u, l, shared))
<1> DEFINE S == ShownRows(u, l, shared)
           key == RootOfRow(u, l, shared)
           B == Breakdown(u, l, shared)
           D == DOMAIN B
           ones == [i \in S |-> 1]
           f == [k \in D |-> B[k].count]
<1>1. D = ValuesOf(S, key)
  BY BreakdownIs, Zenon
<1>2. \A k \in D : B[k].count = Cardinality(PartRows(u, l, shared, k))
  BY BreakdownIs, Zenon
<1>3. \A k : PartRows(u, l, shared, k) = {x \in S : key[x] = k}
  BY DEF PartRows
<1>4. IsFiniteSet(S)
  BY SavedAmounts, Taken DEF ShownRows
<1>5. IsFiniteSet(D)
  BY <1>1, <1>4, ValuesFinite
<1>6. \A x \in S : key[x] \in D
  BY <1>1 DEF ValuesOf
<1>7. MapThenSumSet(LAMBDA k : B[k].count, D) = SumOf(f, D)
  BY CountSum
<1>8. ASSUME NEW k \in D PROVE f[k] = ByKey(ones, S, key, D)[k]
  <2> DEFINE R == {x \in S : key[x] = k}
  <2>1. IsFiniteSet(R)
    BY <1>4, FS_Subset
  <2>2. \A x \in R : ones[x] = 1
    OBVIOUS
  <2>3. f[k] = Cardinality(R)
    BY <1>2, <1>3
  <2>4. ByKey(ones, S, key, D)[k] = SumOf(ones, R)
    BY DEF ByKey
  <2> HIDE DEF R, ones
  <2>5. SumOf(ones, R) = Cardinality(R)
    BY <2>1, <2>2, SumOnes
  <2> QED
    BY <2>3, <2>4, <2>5
<1>9. \A x \in S : ones[x] = 1
  OBVIOUS
<1> HIDE DEF S, key, B, D, ones, f
<1>10. \A x \in S : ones[x] \in Nat
  BY <1>9
<1>11. SumOf(ByKey(ones, S, key, D), D) = SumOf(ones, S)
  BY <1>4, <1>5, <1>6, <1>10, SumGroups
<1>12. SumOf(f, D) = SumOf(ByKey(ones, S, key, D), D)
  BY <1>8, SumSame
<1>13. SumOf(ones, S) = Cardinality(S)
  BY <1>4, <1>9, SumOnes
<1> QED
  BY <1>7, <1>11, <1>12, <1>13 DEF S, B, D

\* A budget on a main category counts what is shown below that category, and for
\* one's own also what one spent for the family on it.
LEMMA BudgetShown ==
  ASSUME TypeInv, NEW u \in Users, NEW shared \in BOOLEAN,
         NEW c \in Known(u, shared), parent[c] = "root", NoDeeper(c), OneBook(c)
  PROVE  BudgetSpent(u, c, ThisLabel, shared)
           = (IF c \in DOMAIN Breakdown(u, ThisLabel, shared)
              THEN Breakdown(u, ThisLabel, shared)[c].amount ELSE 0)
             + (IF Shares(u, shared) THEN 0
                ELSE Total({i \in During(Mine(u), WindowOf(u, shared, ThisLabel)) :
                              rows[i].book = "family" /\ rows[i].cat \in Below(c)}))
<1> DEFINE w == WindowOf(u, shared, ThisLabel)
           R == ShownRows(u, ThisLabel, shared)
           P == PartRows(u, ThisLabel, shared, c)
           B == Breakdown(u, ThisLabel, shared)
           X == {i \in During(Mine(u), w) : rows[i].book = "family" /\ rows[i].cat \in Below(c)}
<1>1. \A d : d \in Below(c) <=> d \in Known(u, shared) /\ RootIn(Known(u, shared), d) = c
  BY BelowMain
<1>2. c # NoCat
  BY FiguresAssumption DEF Known
<1>3. \A i \in R : RootOfRow(u, ThisLabel, shared)[i] = c <=> rows[i].cat \in Below(c)
  BY <1>1, <1>2 DEF RootOfRow, RootKey
<1>4. P = {i \in R : rows[i].cat \in Below(c)}
  BY <1>3 DEF PartRows
<1>5. (IF c \in DOMAIN B THEN B[c].amount ELSE 0) = Total(P)
  <2>1. CASE c \in DOMAIN B
    BY <2>1, BreakdownIs, Zenon
  <2>2. CASE c \notin DOMAIN B
    <3>1. DOMAIN B = ValuesOf(R, RootOfRow(u, ThisLabel, shared))
      BY BreakdownIs, Zenon
    <3>2. P = {}
      BY <2>2, <3>1 DEF PartRows, ValuesOf
    <3>3. Total({}) = 0
      BY TotalIs, SumEmpty DEF TotalOf
    <3> QED
      BY <2>2, <3>2, <3>3
  <2> QED
    BY <2>1, <2>2
<1>6. P \subseteq Saved /\ X \subseteq Saved
  BY <1>4, Taken DEF During, ShownRows
<1>7. Total(P) \in Nat /\ Total(X) \in Nat
  <2> HIDE DEF P, X
  <2> QED
    BY <1>6, SavedAmounts
<1>8. CASE Shares(u, shared)
  <2>1. shared = TRUE
    BY <1>8 DEF Shares
  <2>2. {i \in During(Scope(u, TRUE), w) : rows[i].cat \in Below(c)} = P
    BY <1>4, <2>1 DEF ShownRows
  <2>3. BudgetSpent(u, c, ThisLabel, shared) = Total(P)
    BY <1>8, <2>2 DEF BudgetSpent
  <2> HIDE DEF P, B, X
  <2>4. BudgetSpent(u, c, ThisLabel, shared)
          = (IF c \in DOMAIN B THEN B[c].amount ELSE 0) + (IF Shares(u, shared) THEN 0 ELSE Total(X))
    BY <1>5, <1>7, <1>8, <2>3
  <2> QED
    BY <2>4 DEF B, X
<1>9. CASE ~ Shares(u, shared)
  <2>1. Scope(u, shared) = {i \in Mine(u) : rows[i].book = "own"}
    BY <1>9 DEF Scope
  <2>2. \A i \in Mine(u) : rows[i].book \in {"own", "family"}
    BY Taken DEF Row
  <2>3. {i \in During(Mine(u), w) : rows[i].cat \in Below(c)} = P \union X
    BY <1>4, <2>1, <2>2 DEF ShownRows, During
  <2>4. P \intersect X = {}
    BY <1>4, <2>1 DEF ShownRows, During
  <2>5. BudgetSpent(u, c, ThisLabel, shared) = Total(P \union X)
    BY <1>9, <2>3 DEF BudgetSpent
  <2> HIDE DEF P, X, B
  <2>6. Total(P \union X) = Total(P) + Total(X)
    BY <1>6, <2>4, TotalUnion
  <2>7. BudgetSpent(u, c, ThisLabel, shared)
          = (IF c \in DOMAIN B THEN B[c].amount ELSE 0) + (IF Shares(u, shared) THEN 0 ELSE Total(X))
    BY <1>5, <1>9, <2>5, <2>6
  <2> QED
    BY <2>7 DEF B, X
<1> QED
  BY <1>8, <1>9

\* The calendar pages count what the files they export hold.
LEMMA CalendarPages ==
  ASSUME TypeInv, NEW u \in Users
  PROVE  /\ Total(TaxReport(u, today.year))
              = Added([n \in {k \in Deductible : \E i \in CsvReport(u, "yearly", ThisLabel) : CategoryName(i) = k}
                         |-> GroupedBy(CsvReport(u, "yearly", ThisLabel), CategoryName)[n]])
         /\ YearlyReport(u, today.year).total = Total(CsvReport(u, "yearly", ThisLabel))
         /\ Total(CsvReport(u, "monthly", ThisLabel)) = Added(PaymentMethods(u, ThisLabel))
<1> DEFINE y == today.year
           C == InYear(Mine(u), y)
           T == {i \in C : CategoryName(i) \in Deductible}
<1>1. CsvReport(u, "yearly", ThisLabel) = C /\ CsvReport(u, "monthly", ThisLabel) = InMonth(Mine(u), ThisLabel)
  BY DEF CsvReport, ThisLabel, LabelOf
<1>2. C \subseteq Saved /\ T \subseteq Saved /\ InMonth(Mine(u), ThisLabel) \subseteq Saved
  BY Taken DEF InYear, InMonth
<1>3. Total(TaxReport(u, y))
        = Added([n \in {k \in Deductible : \E i \in C : CategoryName(i) = k} |-> GroupedBy(C, CategoryName)[n]])
  <2> DEFINE K == {k \in Deductible : \E i \in C : CategoryName(i) = k}
             f == NameKey(T)
  <2>1. TaxReport(u, y) = T
    BY DEF TaxReport
  <2>2. \A i \in T : f[i] = CategoryName(i)
    BY DEF NameKey
  <2>3. K = ValuesOf(T, f)
    BY <2>2 DEF ValuesOf
  <2>4. GroupedBy(C, CategoryName)
          = [k \in {CategoryName(i) : i \in C} |-> Total({i \in C : CategoryName(i) = k})]
    BY DEF GroupedBy
  <2>5. ASSUME NEW n \in K PROVE GroupedBy(C, CategoryName)[n] = Grouped(T, f)[n]
    <3>1. n \in {CategoryName(i) : i \in C}
      OBVIOUS
    <3>2. {i \in C : CategoryName(i) = n} = {i \in T : f[i] = n}
      BY <2>2
    <3>3. n \in ValuesOf(T, f)
      BY <2>3
    <3> HIDE DEF C, T, f, K
    <3> QED
      BY <2>4, <3>1, <3>2, <3>3 DEF Grouped, TotalsBy
  <2>6. DOMAIN Grouped(T, f) = K /\ Grouped(T, f) = [n \in K |-> Grouped(T, f)[n]]
    BY <2>3 DEF Grouped, TotalsBy
  <2>7. Added(Grouped(T, f)) = Total(T)
    <3> HIDE DEF T, f
    <3> QED
      BY <1>2, GroupsAdd
  <2>8. [n \in K |-> GroupedBy(C, CategoryName)[n]] = Grouped(T, f)
    <3> HIDE DEF K, T, f, C
    <3> QED
      BY <2>5, <2>6
  <2> QED
    BY <2>1, <2>7, <2>8
<1>4. YearlyReport(u, y).total = Total(C)
  <2> DEFINE t == YearlyByMonth(u, y)
             key == [i \in C |-> rows[i].date.month]
             K == 1..12
  <2>1. YearlyReport(u, y).total = Added(t)
    BY DEF YearlyReport
  <2>2. DOMAIN t = K
    BY DEF YearlyByMonth
  <2>3. \A i \in C : rows[i].date \in Dates
    BY Taken DEF InYear
  <2>4. \A i \in C : key[i] \in K
    BY <2>3 DEF Dates
  <2>5. ASSUME NEW m \in K PROVE t[m] = TotalsBy(C, key, K)[m]
    <3>1. InMonth(Mine(u), [year |-> y, month |-> m]) = {i \in C : key[i] = m}
      BY DEF InMonth, InYear, LabelOf
    <3>2. t[m] = Total(InMonth(Mine(u), [year |-> y, month |-> m]))
      BY DEF YearlyByMonth
    <3> QED
      BY <3>1, <3>2 DEF TotalsBy
  <2>6. IsFiniteSet(K)
    <3>1. 1 \in Int /\ 12 \in Int
      OBVIOUS
    <3>2. IsFiniteSet(1..12)
      BY <3>1, FS_Interval
    <3> QED
      BY <3>2
  <2> HIDE DEF t, key, K, C
  <2>7. SumOf(TotalsBy(C, key, K), K) = Total(C)
    BY <1>2, <2>4, <2>6, TotalGroups
  <2>8. SumOf(t, K) = SumOf(TotalsBy(C, key, K), K)
    BY <2>5, SumSame
  <2> QED
    BY <2>1, <2>2, <2>7, <2>8, AddedIs
<1>5. Total(InMonth(Mine(u), ThisLabel)) = Added(PaymentMethods(u, ThisLabel))
  <2> DEFINE S == InMonth(Mine(u), ThisLabel)
  <2>1. PaymentMethods(u, ThisLabel) = Grouped(S, MethodKey(S))
    BY GroupedAre DEF PaymentMethods
  <2> HIDE DEF S
  <2> QED
    BY <1>2, <2>1, GroupsAdd DEF S
<1> QED
  BY <1>1, <1>3, <1>4, <1>5

\* Whatever is saved, every row is counted once.
LEMMA EachOnce == TypeInv => CountedOnce
<1> SUFFICES ASSUME TypeInv, NEW u \in Users, NEW shared \in BOOLEAN
    PROVE LET w == RecentWindows(ScopeStartDay(u, shared), today, 4, TRUE)
              shown == Breakdown(u, ThisLabel, shared)
          IN  /\ \A d \in Days : Order(w[1].start) <= Order(d) /\ Order(d) <= Order(w[4].end)
                                   => Cardinality({k \in 1..4 : Holds(w[k], d)}) = 1
              /\ Holds(w[4], today)
              /\ \A k \in DOMAIN shown : Added(shown[k].subs) = shown[k].amount
              /\ MapThenSumSet(LAMBDA k : shown[k].count, DOMAIN shown)
                   = Cardinality(During(Scope(u, shared), w[4]))
              /\ \A c \in Known(u, shared) : parent[c] = "root" /\ NoDeeper(c) /\ OneBook(c) =>
                   BudgetSpent(u, c, ThisLabel, shared)
                     = (IF c \in DOMAIN shown THEN shown[c].amount ELSE 0)
                       + (IF Shares(u, shared) THEN 0
                          ELSE Total({i \in During(Mine(u), w[4]) : rows[i].book = "family"
                                                                   /\ rows[i].cat \in Below(c)}))
  BY CalendarPages, Zenon DEF CountedOnce
<1> DEFINE sd == ScopeStartDay(u, shared)
           w == RecentWindows(sd, today, 4, TRUE)
<1>1. sd \in 1..28
  BY StartDaysRange
<1>2. /\ w[4] = CurrentWindow(sd, today) /\ Holds(w[4], today)
      /\ \A d \in Days : Order(w[1].start) <= Order(d) /\ Order(d) <= Order(w[4].end)
                           => Cardinality({k \in 1..4 : Holds(w[k], d)}) = 1
  BY <1>1, FourCycles
<1>3. WindowOf(u, shared, ThisLabel) = w[4]
  BY <1>1, <1>2, CurrentCycle DEF WindowOf
<1>4. ShownRows(u, ThisLabel, shared) = During(Scope(u, shared), w[4])
  BY <1>3 DEF ShownRows
<1> HIDE DEF w, sd
<1>5. MapThenSumSet(LAMBDA k : Breakdown(u, ThisLabel, shared)[k].count, DOMAIN Breakdown(u, ThisLabel, shared))
        = Cardinality(During(Scope(u, shared), w[4]))
  BY <1>4, PartsCount
<1>6. \A k \in DOMAIN Breakdown(u, ThisLabel, shared) :
        Added(Breakdown(u, ThisLabel, shared)[k].subs) = Breakdown(u, ThisLabel, shared)[k].amount
  BY PartsSplit
<1>7. ASSUME NEW c \in Known(u, shared), parent[c] = "root", NoDeeper(c), OneBook(c)
      PROVE  BudgetSpent(u, c, ThisLabel, shared)
               = (IF c \in DOMAIN Breakdown(u, ThisLabel, shared)
                  THEN Breakdown(u, ThisLabel, shared)[c].amount ELSE 0)
                 + (IF Shares(u, shared) THEN 0
                    ELSE Total({i \in During(Mine(u), w[4]) : rows[i].book = "family"
                                                             /\ rows[i].cat \in Below(c)}))
  BY <1>3, <1>7, BudgetShown
<1> QED
  BY <1>2, <1>5, <1>6, <1>7 DEF w, sd

\* Nothing falls between two cycles or into both, every row of a cycle is in one
\* part of the breakdown, budgets count what is shown below their category and
\* calendar pages what they export (utils/period.py, api/v1/analytics, budgets).
THEOREM EachCountedOnce == Spec => []CountedOnce
BY TypeCorrect, EachOnce, PTL

=============================================================================
