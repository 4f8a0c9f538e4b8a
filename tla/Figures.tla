------------------------------ MODULE Figures ------------------------------
(***************************************************************************)
(* The figures of one cooperative and one of its partners: the dashboards of *)
(* the console, of the partner and of the courier, the partner's week, the   *)
(* staff's finances and stock, and the income from partners.  Each is        *)
(* computed from the orders when it is asked for.  Time is counted in hours  *)
(* since 1 January 00:00 UTC; the server's clock is UTC, the village is      *)
(* seven hours ahead.                                                       *)
(***************************************************************************)
EXTENDS Requests, FiniteSetsExt, Integers

CONSTANTS Sales,           \* what an order can be like
          Goods,           \* stock, minStock and isActive of a product
          Moments,         \* the hours at which figures are asked for
          OrderIds,        \* the orders there are, numbered as they were made
          GoodIds          \* the products there are

VARIABLES sales,           \* the orders, each made before it is asked
          goods,           \* the cooperative's products, the removed ones included
          figure           \* what was asked, when, and the answer

figureVars == <<sales, goods, figure>>

(* Amounts are whole rupiahs; the moments lie in the calendar below, after    *)
(* its first month.                                                         *)
NotBrought == -1

ASSUME SalesAssumption ==
    Sales \subseteq [id : {0}, made : Nat, brought : Nat \cup {NotBrought}, own : Nat,
                    mitra : Nat, status : STRING, cod : BOOLEAN, refunded : BOOLEAN]
ASSUME GoodsAssumption ==
    Goods \subseteq [id : {0}, stock : Int, min : Nat, active : BOOLEAN]
ASSUME MomentsAssumption == Moments \subseteq 24 * 31 .. 24 * 120 - 1

ASSUME IdsAssumption == IsFiniteSet(OrderIds) /\ OrderIds \subseteq Nat /\ IsFiniteSet(GoodIds)

NoFigure == [of |-> None]

FiguresInit == sales = {} /\ goods = {} /\ figure = NoFigure

(* The rows are written by other handlers: here they are there, each with    *)
(* its number.                                                              *)
Traded ==
    /\ sales = {} /\ goods = {} /\ figure = NoFigure
    /\ \/ \E sold \in [OrderIds -> Sales] :
            sales' = {[sold[i] EXCEPT !.id = i] : i \in OrderIds} /\ UNCHANGED goods
       \/ \E kept \in [GoodIds -> Goods] :
            goods' = {[kept[i] EXCEPT !.id = i] : i \in GoodIds} /\ UNCHANGED sales
    /\ UNCHANGED <<figure, job>>

-----------------------------------------------------------------------------
(* The calendar: days, weeks from Monday, the months of a year that begins   *)
(* on a Thursday.                                                           *)
Server == 0
Village == 7

DayOf(at, zone) == (at + zone) \div 24

MidnightOf_Mutant(at, zone) == (at \div 24) * 24
MidnightOf(at, zone) == DayOf(at, zone) * 24 - zone

Monday(day) == day - ((day + 3) % 7)

MonthStarts == {0, 31, 59, 90, 120}
Month(day) == Max({s \in MonthStarts : s <= day})
NextMonth(day) == Min({s \in MonthStarts : s > day})
PreviousMonth(day) == Max({s \in MonthStarts : s < Month(day)})

MonthStartOf(at, zone) == Month(DayOf(at, zone)) * 24 - zone

-----------------------------------------------------------------------------
Earned == {"PAID", "DELIVERED", "COMPLETED"}
RevenueStatuses ==
    {"PAID", "PROCESSING", "READY_FOR_DELIVERY", "OUT_FOR_DELIVERY", "DELIVERED",
     "COMPLETED"}

Own(s) == s.own            \* what the cooperative's goods cost
Mitra(s) == s.mitra        \* what the partner's goods cost
Amount(s) == s.own + s.mitra

Since(rows, from) == {s \in rows : s.made >= from}
Between(rows, from, to) == {s \in rows : from <= s.made /\ s.made < to}

Sum(rows, Worth(_)) ==
    [amount |-> MapThenSumSet(Worth, rows), orders |-> Cardinality(rows)]

(* Of an order with goods of both, each side counts its own goods, and the   *)
(* order.                                                                   *)
OwnSales == {s \in sales : s.own > 0 /\ s.status \in Earned}
MitraSales == {s \in sales : s.mitra > 0 /\ s.status \in Earned}

(* KopdesConsoleService.dashboard: since midnight and the first, in the      *)
(* village.  Products on offer without stock are low on stock.              *)
Dashboard(now) ==
    [today |-> Sum(Since(OwnSales, MidnightOf(now, Village)), Own),
     month |-> Sum(Since(OwnSales, MonthStartOf(now, Village)), Own),
     lowStock |-> Cardinality({g \in goods : g.active /\ g.stock <= g.min})]

(* SellerService.getDashboard: by the server's clock.                       *)
PartnerDashboard(now) ==
    [today |-> Sum(Since(MitraSales, MidnightOf(now, Server)), Mitra),
     month |-> Sum(Since(MitraSales, MonthStartOf(now, Server)), Mitra)]

(* getStatistics: seven days of the server, today last.                     *)
Statistics(now) ==
    [i \in 1..7 |-> LET day == MidnightOf(now, Server) - 24 * (7 - i)
                    IN  Sum(Between(MitraSales, day, day + 24), Mitra).amount]

(* periodRanges: the running day, week or month and the one before, by the   *)
(* server's clock.                                                          *)
PeriodRanges(period, now) ==
    LET day == DayOf(now, Server)
        start == CASE period = "today" -> day
                   [] period = "week" -> Monday(day)
                   [] period = "month" -> Month(day)
        end == CASE period = "today" -> start + 1
                 [] period = "week" -> start + 7
                 [] period = "month" -> NextMonth(start)
        before == CASE period = "today" -> start - 1
                    [] period = "week" -> start - 7
                    [] period = "month" -> PreviousMonth(start)
    IN  [from |-> 24 * start, to |-> 24 * end, before |-> 24 * before]

(* finance, financeSlice: every order with goods of the cooperative, by its  *)
(* whole amount.                                                            *)
FinanceSlice(from, to) ==
    LET rows == {s \in Between(sales, from, to) : s.own > 0}
        counted == {s \in rows : s.status \in RevenueStatuses}
    IN  [gross |-> Sum(counted, Amount),
         cod |-> Sum({s \in counted : s.cod}, Amount).amount,
         refund |-> Sum({s \in rows : s.refunded}, Amount).amount]

Finance(period, now) ==
    LET range == PeriodRanges(period, now)
    IN  [period |-> period, current |-> FinanceSlice(range.from, range.to),
         previous |-> FinanceSlice(range.before, range.from)]

(* splitFee: five per cent, to the nearest rupiah.                          *)
SplitFee(gross) == (gross * 5 + 50) \div 100

(* mitraIncome: the partner's completed sales, newest first, a fee for each; *)
(* mitraIncomeTotals: the fee of the sum, of all time and of the village's   *)
(* month.                                                                   *)
IncomeRows == {s \in sales : s.mitra > 0 /\ s.status = "COMPLETED" /\ ~s.refunded}

MitraIncome(now, page, limit) ==
    LET newer(s) == {r \in IncomeRows : r.made > s.made \/ (r.made = s.made /\ r.id > s.id)}
        shown == {s \in IncomeRows : Cardinality(newer(s)) \div limit = page - 1}
        all == Sum(IncomeRows, Mitra).amount
        month == Sum(Since(IncomeRows, MonthStartOf(now, Village)), Mitra).amount
    IN  [fees |-> [s \in shown |-> SplitFee(s.mitra)], total |-> Cardinality(IncomeRows),
         feeAllTime |-> SplitFee(all), feeThisMonth |-> SplitFee(month)]

(* CourierService.summary: what the courier brought since the village's      *)
(* midnight, and the cash he took.                                          *)
CourierSummary(now) ==
    LET done == {s \in sales : s.brought # NotBrought /\ s.brought >= MidnightOf(now, Village)}
    IN  [today |-> Cardinality(done), total |-> Cardinality({s \in sales : s.brought # NotBrought}),
         cash |-> Sum({s \in done : s.cod}, Amount).amount]

(* StaffService.summary: the queues, and lowStockCount.                      *)
StaffSummary ==
    [newOrders |-> Cardinality({s \in sales : s.own > 0 /\ s.status \in {"PENDING", "PAID"}}),
     needProcessing |-> Cardinality({s \in sales : s.own > 0 /\ s.status = "PROCESSING"}),
     lowStock |-> Cardinality({g \in goods : g.active /\ g.stock > 0 /\ g.stock <= g.min})]

(* stockRange and the counts of the console's product list: a removed        *)
(* product is a row with isActive false, and is counted too.                 *)
StockRange(status) ==
    {g \in goods : CASE status = "out" -> g.stock <= 0
                     [] status = "low" -> g.stock > 0 /\ g.stock <= g.min
                     [] status = "safe" -> g.stock > 0 /\ g.stock > g.min}

ProductCounts ==
    [status \in {"safe", "low", "out"} |-> Cardinality(StockRange(status))]

Report(name, now, answer) ==
    /\ figure = NoFigure
    /\ sales # {} \/ goods # {}
    /\ \A s \in sales : s.made <= now /\ (s.brought # NotBrought => s.brought <= now)
    /\ figure' = [of |-> name, at |-> now, answer |-> answer]
    /\ UNCHANGED <<sales, goods, job>>

AskDashboard(now) == Report("dashboard", now, Dashboard(now))
AskSeller(now) ==
    Report("seller", now, [dashboard |-> PartnerDashboard(now), week |-> Statistics(now)])
AskFinance(now, period) == Report("finance", now, Finance(period, now))
AskIncome(now, page, limit) == Report("income", now, MitraIncome(now, page, limit))
AskCourier(now) == Report("courier", now, CourierSummary(now))
AskStock(now) ==
    Report("stock", now, [counts |-> ProductCounts, staff |-> StaffSummary,
                          console |-> Dashboard(now).lowStock])

FiguresNext ==
    \/ Traded
    \/ \E now \in Moments :
         \/ AskDashboard(now) \/ AskSeller(now) \/ AskCourier(now) \/ AskStock(now)
         \/ \E period \in {"today", "week", "month"} : AskFinance(now, period)
         \/ \E page \in 1..2, limit \in 1..2 : AskIncome(now, page, limit)

-----------------------------------------------------------------------------
(* "The server runs in UTC, and its midnight is seven in the morning in the  *)
(* village": the console and the courier count what happened on the          *)
(* village's own day and month.                                             *)
VillageDay(now, a) ==
    LET sameDay(at) == DayOf(at, Village) = DayOf(now, Village)
        sameMonth(at) == Month(DayOf(at, Village)) = Month(DayOf(now, Village))
    IN  /\ figure.of = "dashboard" =>
             /\ a.today = Sum({s \in OwnSales : sameDay(s.made)}, Own)
             /\ a.month = Sum({s \in OwnSales : sameMonth(s.made)}, Own)
        /\ figure.of = "courier" =>
             a.today = Cardinality({s \in sales : s.brought # NotBrought /\ sameDay(s.brought)})

(* The moment of asking lies in the current period of the finances, and what *)
(* they compare it with is what was the current one in the last hour before  *)
(* it: between the two no sale is counted twice or in neither.               *)
PeriodsMeet(now, a) ==
    LET range == PeriodRanges(a.period, now)
        last == PeriodRanges(a.period, range.from - 1)
        both == Between({s \in sales : s.own > 0 /\ s.status \in RevenueStatuses},
                        last.from, range.to)
    IN  /\ range.from <= now /\ now < range.to
        /\ last.to = range.from /\ last.from = range.before
        /\ a.current.gross.orders + a.previous.gross.orders = Cardinality(both)

(* A partner's week adds up to what he sold in it, its last day to what the  *)
(* dashboard shows for today.                                               *)
WeekAddsUp(now, a) ==
    LET week == Since(MitraSales, MidnightOf(now, Server) - 6 * 24)
    IN  /\ MapThenSumSet(LAMBDA n : a.week[n], 1..7) = Sum(week, Mitra).amount
        /\ a.week[7] = a.dashboard.today.amount

(* The fees of the sales on all pages differ from the fee of their sum by    *)
(* the rounding of each, half a rupiah, and no more.                         *)
FeesAddUp(a) ==
    LET rows == DOMAIN a.fees
        shown == MapThenSumSet(LAMBDA s : a.fees[s], rows)
        off == 2 * (shown - a.feeAllTime)
    IN  Cardinality(rows) = a.total => -a.total <= off /\ off <= a.total

(* Every product, removed or not, is in one of the console's three lists.    *)
(* The lists count removed products, the dashboard and the staff's page do   *)
(* not: that is the whole difference between them.                           *)
ListsPartition(a) ==
    LET removed(rows) == Cardinality({g \in rows : ~g.active})
    IN  /\ a.counts["safe"] + a.counts["low"] + a.counts["out"] = Cardinality(goods)
        /\ (a.counts["low"] + a.counts["out"]) - a.console
             = removed(StockRange("low") \cup StockRange("out"))
        /\ a.counts["low"] - a.staff.lowStock = removed(StockRange("low"))

(* The figures that different people read of the same orders fit together.   *)
FiguresAddUp ==
    LET a == figure.answer
        now == figure.at
    IN  /\ figure.of \in {"dashboard", "courier"} => VillageDay(now, a)
        /\ figure.of = "finance" => PeriodsMeet(now, a)
        /\ figure.of = "seller" => WeekAddsUp(now, a)
        /\ figure.of = "income" => FeesAddUp(a)
        /\ figure.of = "stock" => ListsPartition(a)
=============================================================================
