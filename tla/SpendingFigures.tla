-------------------------- MODULE SpendingFigures --------------------------
(***************************************************************************)
(* What the screens say was spent: analytics, reports, the dashboard, the  *)
(* expense list, the family page and the health score each query the same  *)
(* rows by themselves, while rows are added, corrected and deleted,        *)
(* categories are dragged and deleted, start days change and time passes.  *)
(* Amounts are whole; percentages, colours and merchants are left out.     *)
(***************************************************************************)
EXTENDS MonthCycle, FiniteSets, FiniteSetsExt

CONSTANTS
  Users, Family, Owner,  \* the members of one family and who made it
  Ids,                   \* ids of expenses
  Days, FirstDay, LastDay, \* dates of expenses; the first and last day of "today"
  Amounts, Methods,
  Cats, FamilyCats, Name, \* categories; those of the family book; their names
  Deductible,            \* names that tell a category is tax-deductible
  StartDays, Incomes,
  NoRow, NoCat

ASSUME FiguresAssumption ==
  /\ Family \subseteq Users /\ Owner \in Family /\ IsFiniteSet(Family)
  /\ Days \subseteq Dates /\ {FirstDay, LastDay} \subseteq Dates
  /\ FirstDay.year # 0                   \* datetime.MINYEAR is 1
  /\ IsFiniteSet(Cats) /\ "root" \notin Cats /\ "gone" \notin Cats
  /\ Amounts \subseteq Nat /\ StartDays \subseteq 0..28 /\ Incomes \subseteq Nat
  /\ FamilyCats \subseteq Cats /\ NoCat \notin Cats

VARIABLES
  rows,     \* expenses
  parent,   \* of each category; itself gone: "gone"
  startDay, \* user_preferences.month_start_day; 0: no row
  income,   \* users.monthly_income; a member's share of the family's is the same
  today

vars == <<rows, parent, startDay, income, today>>

Row == [by : Users, book : {"own", "family"}, date : Days, amount : Amounts,
        method : Methods, cat : Cats \union {NoCat}]
Saved == {i \in Ids : rows[i] # NoRow}

Total(S) == MapThenSumSet(LAMBDA i : rows[i].amount, S)
During(S, w) == {i \in S : Holds(w, rows[i].date)}
InMonth(S, l) == {i \in S : LabelOf(rows[i].date) = l}
InYear(S, y) == {i \in S : rows[i].date.year = y}
GroupedBy(S, Key(_)) == [k \in {Key(i) : i \in S} |-> Total({i \in S : Key(i) = k})]
Added(f) == MapThenSumSet(LAMBDA k : f[k], DOMAIN f)

(* Whose rows a query takes, and whose month it follows. *)
Shares(u, shared) == shared /\ u \in Family
Mine(u) == {i \in Saved : rows[i].by = u}
Scope(u, shared) == IF Shares(u, shared) THEN {i \in Saved : rows[i].book = "family"}
                    ELSE {i \in Mine(u) : rows[i].book = "own"}
MonthStartDay(u) == IF startDay[u] = 0 THEN 1 ELSE ClampDay(startDay[u])
ScopeStartDayOwn(u, shared) == MonthStartDay(u)      \* mutant: the reader's month
ScopeStartDay(u, shared) == MonthStartDay(IF Shares(u, shared) THEN Owner ELSE u)
WindowOf(u, shared, l) ==
  LET sd == ScopeStartDay(u, shared) IN PeriodWindow(ResolveAnchor(l, sd, today), sd)
PrevWindowOf(u, shared, l) ==
  LET sd == ScopeStartDay(u, shared)
  IN  PeriodWindow(PrevMonth(ResolveAnchor(l, sd, today)), sd)

(* Analytics. *)
DatesFrom(w) ==
  {d \in UNION {{Date(l, k) : k \in 1..MonthDays(l)} : l \in {LabelOf(w.start), LabelOf(w.end)}} :
     Holds(w, d)}
MonthlyByCalendar(u, l, shared) ==       \* mutant: the calendar's month
  [daily |-> <<>>, total |-> Total(InMonth(Scope(u, shared), l)),
   previous |-> Total(InMonth(Scope(u, shared), PrevMonth(l)))]
Monthly(u, l, shared) ==
  LET S == During(Scope(u, shared), WindowOf(u, shared, l))
      daily == [d \in DatesFrom(WindowOf(u, shared, l)) |-> Total({i \in S : rows[i].date = d})]
  IN  [daily |-> daily, total |-> Added(daily),
       previous |-> Total(During(Scope(u, shared), PrevWindowOf(u, shared, l)))]
Trend(u, n, shared) ==
  LET sd == ScopeStartDay(u, shared)
  IN  [i \in 1..n |-> Total(During(Scope(u, shared),
         PeriodWindow(Back(CurrentLabel(sd, today), n - i), sd)))]
CategoryName(i) == IF rows[i].cat = NoCat THEN "Uncategorized" ELSE Name[rows[i].cat]
Categories(u, w) == GroupedBy(During(Scope(u, FALSE), w), CategoryName)
YearlyByMonth(u, y) == [m \in 1..12 |-> Total(InMonth(Mine(u), [year |-> y, month |-> m]))]
PaymentMethods(u, l) == GroupedBy(InMonth(Mine(u), l), LAMBDA i : rows[i].method)
IncomeVsExpense(u, n) ==
  LET sd == MonthStartDay(u)
  IN  [i \in 1..n |-> Total(During(Mine(u), PeriodWindow(Back(CurrentLabel(sd, today), n - i), sd)))]

AiTotal(u, l) == Total(During(Scope(u, FALSE), WindowOf(u, FALSE, l)))

(* The categories from c upwards, as far as they are known and not passed. *)
Known(u, shared) == {c \in Cats : /\ parent[c] # "gone"
                                  /\ (c \in FamilyCats) = Shares(u, shared)}
Upwards(known, c) ==
  LET up[k \in 0..Cardinality(Cats)] ==
        IF k = 0 THEN c
        ELSE IF up[k - 1] \in known /\ parent[up[k - 1]] \in known THEN parent[up[k - 1]] ELSE NoCat
      seen(k) == {up[j] : j \in 0..k}
  IN  [k \in {k \in DOMAIN up : NoCat \notin seen(k) /\ Cardinality(seen(k)) = k + 1} |-> up[k]]
RootIn(known, c) == LET up == Upwards(known, c) IN up[Max(DOMAIN up)]
Breakdown(u, l, shared) ==
  LET S == During(Scope(u, shared), WindowOf(u, shared, l))
      known == Known(u, shared)
      Key(i) == IF rows[i].cat \in known THEN RootIn(known, rows[i].cat) ELSE NoCat
      Sub(i) == IF rows[i].cat \in known \ {Key(i)} THEN Name[rows[i].cat] ELSE "General"
      bucket(k) == {i \in S : Key(i) = k}
  IN  [k \in {Key(i) : i \in S} |->
         [amount |-> Total(bucket(k)), count |-> Cardinality(bucket(k)),
          subs |-> GroupedBy(bucket(k), Sub)]]

\* A budget on category c follows two levels below it (get_descendant_ids); a
\* personal one counts what its owner saved, a shared one what the family did.
Below(c) ==
  LET children == {d \in Cats : parent[d] = c}
  IN  {c} \union children \union {d \in Cats : parent[d] \in children}
BudgetSpent(u, c, l, shared) ==
  LET S == IF Shares(u, shared) THEN Scope(u, TRUE) ELSE Mine(u)
  IN  Total({i \in During(S, WindowOf(u, shared, l)) : rows[i].cat \in Below(c)})

(* Reports, the dashboard, the summaries, the expense list and the family page. *)
MonthlyReport(u, l) ==
  LET S == During(Mine(u), WindowOf(u, FALSE, l))
  IN  [total |-> Total(S), saved |-> income[u] - Total(S), count |-> Cardinality(S),
       categories |-> GroupedBy(S, CategoryName)]
YearlyReport(u, y) ==
  LET expense == YearlyByMonth(u, y)
  IN  [total |-> Added(expense), saved |-> 12 * income[u] - Added(expense),
       best |-> {m \in 1..12 : \A k \in 1..12 : expense[m] <= expense[k]}]
CsvReport(u, period, l) == IF period = "monthly" THEN InMonth(Mine(u), l) ELSE InYear(Mine(u), l.year)
\* A row without a category goes by what the client called it, here nothing.
TaxReport(u, y) == {i \in InYear(Mine(u), y) : CategoryName(i) \in Deductible}
Summary(u, w) == GroupedBy(During(Mine(u), w), CategoryName)
Dashboard(u) ==
  LET now == During(Mine(u), CurrentWindow(MonthStartDay(u), today))
  IN  [thisMonth |-> Total(now),
       lastMonth |-> Total(During(Mine(u), PreviousWindow(MonthStartDay(u), today))),
       topCategories |-> GroupedBy({i \in now : rows[i].cat # NoCat}, CategoryName)]
ExpenseSummary(u) ==
  LET now == During(Mine(u), CurrentWindow(MonthStartDay(u), today))
  IN  [thisMonth |-> Total(now),
       lastMonth |-> Total(During(Mine(u), PreviousWindow(MonthStartDay(u), today))),
       categories |-> GroupedBy({i \in now : rows[i].cat # NoCat}, CategoryName),
       methods |-> GroupedBy(now, LAMBDA i : rows[i].method)]
Profile(u) ==
  LET own == Scope(u, FALSE)
  IN  [total |-> Total(own), count |-> Cardinality(own),
       thisMonth |-> Total(During(own, CurrentWindow(MonthStartDay(u), today)))]
ExpenseList(u, l, shared) ==
  IF shared /\ u \notin Family THEN {} ELSE During(Scope(u, shared), WindowOf(u, shared, l))
FamilyPage(l) ==
  LET S == During({i \in Saved : rows[i].book = "family"}, WindowOf(Owner, TRUE, l))
  IN  [total |-> Total(S), members |-> GroupedBy(S, LAMBDA i : rows[i].by)]

(* The health score and the forecast. *)
Least(a, b) == IF a < b THEN a ELSE b
ScopeIncome(u, shared) == IF Shares(u, shared) THEN MapThenSumSet(LAMBDA m : income[m], Family)
                          ELSE income[u]
SavingsPointsSigned(inc, spent) == Least(40, ((inc - spent) * 200) \div inc)    \* mutant
SavingsPoints(inc, spent) == IF spent >= inc THEN 0 ELSE Least(40, ((inc - spent) * 200) \div inc)
\* What the user is told about it.
SavingsAdvice(inc, spent) ==
  IF inc = 0 THEN "none" ELSE IF spent > inc THEN "warning"
  ELSE IF 5 * (inc - spent) < inc THEN "suggestion" ELSE "positive"
BudgetPoints(kept, n) == IF n = 0 THEN 0 ELSE (kept * 30) \div n
\* 30 (1 - s / a) rounded down, s the standard deviation and a the mean of t:
\* k points if k <= 30 - 30 s / a, that is 30 s <= (30 - k) a.
ConsistencyPoints(t) ==
  LET sum == t[1] + t[2] + t[3]
      squares == t[1] * t[1] + t[2] * t[2] + t[3] * t[3]
  IN  IF sum = 0 THEN 0
      ELSE Max({0} \union {k \in 0..30 : 900 * (3 * squares - sum * sum)
                                            <= (30 - k) * (30 - k) * sum * sum})
TrailingTotals(S, sd) ==
  LET w == RecentWindows(sd, today, 3, FALSE)
  IN  <<Total(During(S, w[1])), Total(During(S, w[2])), Total(During(S, w[3]))>>
SpentNow(S, sd) == Total(During(S, CurrentWindow(sd, today)))
\* What the score would be if S were the rows, and kept of n budgets.
HealthScore(S, sd, inc, kept, n) ==
  Least(100, SavingsPoints(inc, SpentNow(S, sd)) + BudgetPoints(kept, n)
               + ConsistencyPoints(TrailingTotals(S, sd)))
Forecast(S, sd) ==
  LET t == TrailingTotals(S, sd)
  IN  [nextMonth |-> (t[1] + t[2] + t[3]) \div 3, confident |-> \A i \in 1..3 : t[i] > 0]
-----------------------------------------------------------------------------
Init ==
  /\ rows = [i \in Ids |-> NoRow]
  /\ parent \in [Cats -> {"root"}]
  /\ startDay \in [Users -> StartDays]
  /\ income \in [Users -> Incomes]
  /\ today = FirstDay

Usable(r) == /\ r.book = "family" => r.by \in Family
             /\ r.cat # NoCat => parent[r.cat] # "gone"
Save(i, r) ==
  /\ rows[i] = NoRow /\ Usable(r)
  /\ rows' = [rows EXCEPT ![i] = r]
  /\ UNCHANGED <<parent, startDay, income, today>>
Correct(i, r) ==
  /\ i \in Saved /\ r.by = rows[i].by /\ r.book = rows[i].book /\ Usable(r)
  /\ rows' = [rows EXCEPT ![i] = r]
  /\ UNCHANGED <<parent, startDay, income, today>>
Erase(i) ==
  /\ i \in Saved
  /\ rows' = [rows EXCEPT ![i] = NoRow]
  /\ UNCHANGED <<parent, startDay, income, today>>

\* A category is dragged, whatever hangs below it and whatever book the new parent
\* is in (so does a new category, which is personal below a family's one as well;
\* levels are CategoryTree's); or deleted with all of that, and the rows keep none.
Drag(c, p) ==
  /\ parent[c] # "gone" /\ p # c
  /\ p \in Cats => parent[p] # "gone"
  /\ parent' = [parent EXCEPT ![c] = p]
  /\ UNCHANGED <<rows, startDay, income, today>>
DropCategory(c) ==
  LET live == {d \in Cats : parent[d] # "gone"}
      Above(d) == LET up == Upwards(live, d) IN {up[k] : k \in DOMAIN up}
      lost == {d \in live : c \in Above(d)}
  IN  /\ c \in live /\ parent[c] \notin lost
      /\ parent' = [d \in Cats |-> IF d \in lost THEN "gone" ELSE parent[d]]
      /\ rows' = [i \in Ids |-> IF i \in Saved /\ rows[i].cat \in lost
                                THEN [rows[i] EXCEPT !.cat = NoCat] ELSE rows[i]]
      /\ UNCHANGED <<startDay, income, today>>

SetStartDay(u, d) ==
  /\ startDay' = [startDay EXCEPT ![u] = ClampDay(d)]
  /\ UNCHANGED <<rows, parent, income, today>>
SetIncome(u, x) ==
  /\ income' = [income EXCEPT ![u] = x]
  /\ UNCHANGED <<rows, parent, startDay, today>>
Midnight ==
  /\ today # LastDay
  /\ today' = DayAfter(today)
  /\ UNCHANGED <<rows, parent, startDay, income>>

Next ==
  \/ \E i \in Ids : Erase(i) \/ \E r \in Row : Save(i, r) \/ Correct(i, r)
  \/ \E c \in Cats : DropCategory(c) \/ \E p \in Cats \union {"root"} : Drag(c, p)
  \/ \E u \in Users : (\E d \in StartDays : SetStartDay(u, d)) \/ (\E x \in Incomes : SetIncome(u, x))
  \/ Midnight

Spec == Init /\ [][Next]_vars
-----------------------------------------------------------------------------
TypeOK ==
  /\ rows \in [Ids -> Row \union {NoRow}]
  /\ parent \in [Cats -> Cats \union {"root", "gone"}]
  /\ startDay \in [Users -> 0..28] /\ income \in [Users -> Incomes]
  /\ today \in Dates

ThisLabel == LabelOf(today)
Bucketed(f) == MapThenSumSet(LAMBDA k : f[k].amount, DOMAIN f)

\* Every personal page that is opened for this month says the same: the
\* analytics pages, the list, the profile and the health score agree, the
\* dashboard, the report, the summary and the income page agree, and the second
\* group has more by what the user spent for the family, which the first leaves
\* out.
PersonalPagesAgree ==
  \A u \in Users :
    LET monthly == Monthly(u, ThisLabel, FALSE)
        w == CurrentWindow(MonthStartDay(u), today)
        trend == Trend(u, 4, FALSE)
        report == MonthlyReport(u, ThisLabel)
        forFamily == Total(During({i \in Mine(u) : rows[i].book = "family"}, w))
    IN  /\ monthly.total = SpentNow(Scope(u, FALSE), MonthStartDay(u))
        /\ monthly.total = trend[4] /\ monthly.previous = trend[3]
        /\ monthly.total = Bucketed(Breakdown(u, ThisLabel, FALSE))
        /\ monthly.total = Added(Categories(u, w)) /\ monthly.total = AiTotal(u, ThisLabel)
        /\ monthly.total = Total(ExpenseList(u, ThisLabel, FALSE))
        /\ monthly.total = Profile(u).thisMonth
        /\ <<trend[1], trend[2], trend[3]>> = TrailingTotals(Scope(u, FALSE), MonthStartDay(u))
        /\ report.total = Dashboard(u).thisMonth
        /\ report.total = ExpenseSummary(u).thisMonth
        /\ Dashboard(u).lastMonth = ExpenseSummary(u).lastMonth
        /\ Dashboard(u).topCategories = ExpenseSummary(u).categories
        /\ report.total = Added(ExpenseSummary(u).methods)
        /\ Dashboard(u).lastMonth = IncomeVsExpense(u, 2)[1]
        /\ report.total = IncomeVsExpense(u, 2)[2]
        /\ report.categories = Summary(u, w)
        /\ report.total = monthly.total + forFamily
        /\ MonthStartDay(u) = 1 => report.total = Total(CsvReport(u, "monthly", ThisLabel))

\* All members see the same of the family's spending, on every page, whatever
\* their own start day (the cycle is the owner's).
FamilyPagesAgree ==
  \A u \in Family, l \in {ThisLabel, PrevMonth(ThisLabel)} :
    /\ Total(ExpenseList(u, l, TRUE)) = FamilyPage(l).total
    /\ Monthly(u, l, TRUE).total = FamilyPage(l).total
    /\ Bucketed(Breakdown(u, l, TRUE)) = FamilyPage(l).total
    /\ Added(FamilyPage(l).members) = FamilyPage(l).total
    /\ SpentNow(Scope(u, TRUE), MonthStartDay(Owner)) = Trend(u, 1, TRUE)[1]
    /\ ScopeIncome(u, TRUE) = ScopeIncome(Owner, TRUE)

\* No category is three levels below c, where the budgets stop looking; all that
\* they find is in the book of c.
NoDeeper(c) == \A d \in Cats : parent[d] \in Below(c) => d \in Below(c)
OneBook(c) == \A d \in Below(c) : (d \in FamilyCats) = (c \in FamilyCats)

\* Nothing falls between two cycles or into both, no row is shown in two
\* categories or in none, however the categories are dragged, a budget on a main
\* category counts what is shown below it, unless a drag has made the tree deeper
\* than budgets look or hung one book's category below the other's (and, if it is
\* personal, what its owner spent for the family on those categories), and the calendar pages count what the files they export
\* hold.
CountedOnce ==
  \A u \in Users, shared \in BOOLEAN :
    LET w == RecentWindows(ScopeStartDay(u, shared), today, 4, TRUE)
        shown == Breakdown(u, ThisLabel, shared)
    IN  /\ \A d \in Days : Order(w[1].start) <= Order(d) /\ Order(d) <= Order(w[4].end)
                             => Cardinality({k \in 1..4 : Holds(w[k], d)}) = 1
        /\ Holds(w[4], today)
        /\ \A k \in DOMAIN shown : Added(shown[k].subs) = shown[k].amount
        /\ MapThenSumSet(LAMBDA k : shown[k].count, DOMAIN shown)
             = Cardinality(During(Scope(u, shared), w[4]))
        /\ \A c \in Known(u, shared) : parent[c] = "root" /\ NoDeeper(c) /\ OneBook(c) =>
             BudgetSpent(u, c, ThisLabel, shared)
               = (IF c \in DOMAIN shown THEN shown[c].amount ELSE 0)
                 + (IF Shares(u, shared) THEN 0
                    ELSE Total({i \in During(Mine(u), w[4]) : rows[i].book = "family"
                                                             /\ rows[i].cat \in Below(c)}))
        /\ Total(TaxReport(u, today.year))
             = Added([n \in {k \in Deductible : \E i \in CsvReport(u, "yearly", ThisLabel) : CategoryName(i) = k}
                        |-> GroupedBy(CsvReport(u, "yearly", ThisLabel), CategoryName)[n]])
        /\ YearlyReport(u, today.year).total = Total(CsvReport(u, "yearly", ThisLabel))
        /\ Total(CsvReport(u, "monthly", ThisLabel)) = Added(PaymentMethods(u, ThisLabel))

\* When a month of the user is over, what was this month's is last month's.
CycleTurnsOver ==
  [][today' # today => \A u \in Users :
       IF CurrentWindow(MonthStartDay(u), today)' = CurrentWindow(MonthStartDay(u), today)
       THEN Dashboard(u)' = Dashboard(u)
       ELSE /\ Dashboard(u).lastMonth' = Dashboard(u).thisMonth
            /\ Dashboard(u).thisMonth' = Total(During(Mine(u), CurrentWindow(MonthStartDay(u), today')))]_vars

\* The health score is 0 to 100, no row of the current month raises it, whether
\* or not it pushes a budget over its limit, and who is praised for the savings
\* has all the points for them.
SpendingNeverScores ==
  \A u \in Users, shared \in BOOLEAN :
    LET sd == ScopeStartDay(u, shared)
        inc == ScopeIncome(u, shared)
        S == Scope(u, shared)
        score == HealthScore(S, sd, inc, 1, 2)
    IN  /\ score \in 0..100
        /\ \A i \in During(S, CurrentWindow(sd, today)) :
             /\ score <= HealthScore(S \ {i}, sd, inc, 1, 2)
             /\ score <= HealthScore(S \ {i}, sd, inc, 2, 2)
        /\ (SavingsAdvice(inc, SpentNow(S, sd)) = "positive")
             <=> (SavingsPoints(inc, SpentNow(S, sd)) = 40)
        /\ Forecast(S, sd).confident => Forecast(S, sd).nextMonth > 0
=============================================================================
