-------------------------------- MODULE Books --------------------------------
(***************************************************************************)
(* Books: a dealership's expenses, its tax filing periods, and the figures *)
(* three pages compute from the same rows (expenses.service.js,            *)
(* recurring-expenses.js, reports.service.js, payroll-engine.js,           *)
(* dashboard.service.js, wholesale.service.js, tax.service.js).            *)
(*                                                                         *)
(* Dates are months, reports cover whole months, and a year has YearMonths *)
(* of them.  Every amount is one unit, kept in thousandths because a       *)
(* weekly one counts 4.333 times a month; the report rounds to cents.  A   *)
(* jacket makes one unit of gross profit.  One sales rep and one member of *)
(* staff stand for all.  What a report is asked for never changes a row,   *)
(* so the reports are operators.                                           *)
(***************************************************************************)
EXTENDS Requests, Functions

CONSTANTS Months, YearMonths, Bills

ASSUME BooksAssumption ==
  /\ Months \in Nat /\ YearMonths \in Nat \ {0} /\ IsFiniteSet(Bills)
  /\ None \notin {"open", "closed", "gone"}

VARIABLES
  bill,         \* dealership expenses, or None
  jackets,      \* approved deal jackets, by the month of their sale
  commissions,  \* commissions paid to the rep, by month
  staffed,      \* whether there is an active salaried member of staff
  filing,       \* a tax filing period: its status, "gone", or None
  filed,        \* the months whose jackets are linked to it
  closed,       \* history: the status the period was last given was "closed"
  raced         \* history: it was closed while a deletion was under way

booksVars == <<bill, jackets, commissions, staffed, filing, filed, closed, raced>>

Month == 0..(Months - 1)
Unit == 1000
Base == 2 * Unit   \* the rep's guaranteed monthly pay
Cent == 10

\* roundMoney: to the next cent, half a cent upwards.
Rounded(x) == ((x + 5) \div Cent) * Cent
Frequencies == {"One-Time", "Weekly", "Monthly", "Quarterly", "Annual"}
BillKinds == {"dealership", "vehicle", "payroll"}

-----------------------------------------------------------------------------
(* Recurring expenses.                                                     *)

Recurs(e) == e.recurring /\ e.freq # "One-Time"
SameMonth(m, n) == m % YearMonths = n % YearMonths

\* Mutant: a quarterly expense is due every second month.
OccursSecond(e, m) ==
  /\ m >= e.on
  /\ e.end = None \/ m <= e.end
  /\ \/ e.freq \in {"Weekly", "Monthly"}
     \/ e.freq = "Quarterly" /\ (m - e.on) % 2 = 0
     \/ e.freq = "Annual" /\ SameMonth(m, e.on)

Occurs(e, m) ==
  /\ m >= e.on
  /\ e.end = None \/ m <= e.end
  /\ \/ e.freq \in {"Weekly", "Monthly"}
     \/ e.freq = "Quarterly" /\ (m - e.on) % 3 = 0
     \/ e.freq = "Annual" /\ SameMonth(m, e.on)

Occurrence(e) == IF e.freq = "Weekly" THEN 4333 ELSE Unit

\* What e costs in a range when only the active months count.
AmountInRange(e, range, active) ==
  IF Recurs(e) THEN Occurrence(e) * Cardinality({m \in range \cap active : Occurs(e, m)})
  ELSE IF e.on \in range THEN Unit ELSE 0

-----------------------------------------------------------------------------
(* The profit and loss report of a range of months.                        *)

Booked == {b \in Bills : bill[b] # None /\ bill[b].live}
EnginePayroll(e) == e.kind = "payroll"
Charged == {b \in Booked : bill[b].kind # "vehicle" /\ ~EnginePayroll(bill[b])}

Gross(range) == Unit * SumFunctionOnSet(jackets, range)

\* A range of several months skips recurring costs in months without a sale; it
\* knows a month by its name, not by its year.
Active(range) ==
  IF Cardinality(range) = 1 THEN Month
  ELSE {m \in Month : \E n \in range : jackets[n] > 0 /\ SameMonth(m, n)}

Cost(range) == SumFunction([b \in Charged |-> AmountInRange(bill[b], range, Active(range))])
Operating(range) == Rounded(Cost(range))

Paid(range) == Unit * SumFunctionOnSet(commissions, range)
StaffWages(range) == IF staffed THEN Unit * Cardinality(range) ELSE 0
TopUp(range) == LET owed == Base * Cardinality(range) - Paid(range) IN IF owed > 0 THEN owed ELSE 0
PayrollTotal(range) == Rounded(Paid(range) + StaffWages(range) + TopUp(range))
Net(range) == Rounded(Gross(range) - Operating(range) - PayrollTotal(range))

\* The dashboard's expenseTotal, and the wholesale page's operating expenses,
\* which know neither ends of recurrences nor kinds of expenses, and are not rounded.
ExpenseTotal(m) == Rounded(Unit * Cardinality({b \in Booked : bill[b].on = m}))
WholesaleOperating(range) ==
  SumFunction([b \in Booked |-> AmountInRange([bill[b] EXCEPT !.end = None], range, Month)])

-----------------------------------------------------------------------------
(* Expenses.                                                               *)

Quick(kept) == begun < MaxRequests /\ begun' = begun + 1 /\ UNCHANGED <<kept, pc, local>>

\* The schema makes an expense recur when it has a frequency, or when asked to.
CreateExpense == \E b \in Bills, on \in Month, freq \in Frequencies, kind \in BillKinds,
                    end \in Month \cup {None}, asked \in BOOLEAN :
  /\ bill[b] = None
  /\ bill' = [bill EXCEPT ![b] = [on |-> on, freq |-> freq, recurring |-> asked \/ freq # "One-Time",
                                  end |-> end, kind |-> kind, live |-> TRUE]]
  /\ Quick(<<jackets, commissions, staffed, filing, filed, closed, raced>>)

WholesaleCreateExpense == \E b \in Bills, on \in Month, kind \in BillKinds :
  /\ bill[b] = None
  /\ bill' = [bill EXCEPT ![b] = [on |-> on, freq |-> "One-Time", recurring |-> FALSE,
                                  end |-> None, kind |-> kind, live |-> TRUE]]
  /\ Quick(<<jackets, commissions, staffed, filing, filed, closed, raced>>)

\* A patch of one field; the wholesale form has neither of the first two.
Patched(e) ==
  {[e EXCEPT !.freq = f] : f \in Frequencies} \cup {[e EXCEPT !.recurring = r] : r \in BOOLEAN}
    \cup {[e EXCEPT !.on = m] : m \in Month} \cup {[e EXCEPT !.kind = k] : k \in BillKinds}
    \cup {[e EXCEPT !.end = m] : m \in Month \cup {None}}

FindExpense(h) == \E b \in Booked, op \in {"updateExpense", "deleteExpense"} :
  /\ Begin(h, op, [bill |-> b])
  /\ UNCHANGED booksVars

UpdateExpense(h) == LET b == local[h].bill IN
  /\ pc[h] = "updateExpense"
  /\ \E e \in Patched(bill[b]) : bill' = [bill EXCEPT ![b] = e]
  /\ Answer(h)
  /\ UNCHANGED <<jackets, commissions, staffed, filing, filed, closed, raced>>

DeleteExpense(h) ==
  /\ pc[h] = "deleteExpense"
  /\ bill' = [bill EXCEPT ![local[h].bill].live = FALSE]
  /\ Answer(h)
  /\ UNCHANGED <<jackets, commissions, staffed, filing, filed, closed, raced>>

\* What the deal desk and the payroll page write (DealDesk, Payroll).
Business == \E m \in Month :
  /\ \/ jackets' = [jackets EXCEPT ![m] = @ + 1] /\ UNCHANGED <<commissions, staffed>>
     \/ commissions' = [commissions EXCEPT ![m] = @ + 3] /\ UNCHANGED <<jackets, staffed>>
     \/ staffed' = ~staffed /\ UNCHANGED <<jackets, commissions>>
  /\ Quick(<<bill, filing, filed, closed, raced>>)

-----------------------------------------------------------------------------
(* The tax filing period.  Statuses but "closed" count as "open".          *)

Kept == filing \in {"open", "closed"}

CreateTaxPeriod == \E status \in {"open", "closed"} :
  /\ filing = None
  /\ filing' = status /\ closed' = (status = "closed")
  /\ raced' = FALSE
  /\ Quick(<<bill, jackets, commissions, staffed, filed>>)

FindPeriod(h) == \E op \in {"updatePeriod", "deletePeriod", "linkDeal", "unlinkDeal"} :
  /\ Kept
  /\ op = "deletePeriod" => filing # "closed"
  /\ Begin(h, op, [found |-> filing])
  /\ UNCHANGED booksVars

SetStatus(status) ==
  /\ IF Kept THEN /\ filing' = status /\ closed' = (status = "closed")
                  /\ raced' = (closed' /\ \E h \in Handlers : pc[h] = "deletePeriod")
             ELSE UNCHANGED <<filing, closed, raced>>
  /\ UNCHANGED <<bill, jackets, commissions, staffed, filed>>

\* updateTaxPeriodStatus needs no lookup.
UpdateTaxPeriodStatus == \E status \in {"open", "closed"} :
  /\ begun < MaxRequests /\ begun' = begun + 1
  /\ SetStatus(status)
  /\ UNCHANGED <<pc, local>>

UpdateTaxPeriod(h) == \E status \in {"open", "closed"} :
  /\ pc[h] = "updatePeriod"
  /\ SetStatus(status)
  /\ Answer(h)

\* With its links, whatever its status is by now.
DeleteTaxPeriod(h) ==
  /\ pc[h] = "deletePeriod"
  /\ filing' = "gone" /\ filed' = {}
  /\ Answer(h)
  /\ UNCHANGED <<bill, jackets, commissions, staffed, closed, raced>>

\* The key on both ids refuses a second link; a period that is gone, any.
LinkDeal(h) ==
  /\ pc[h] = "linkDeal"
  /\ \E m \in Month : jackets[m] > 0 /\ filed' = IF Kept THEN filed \cup {m} ELSE filed
  /\ Answer(h)
  /\ UNCHANGED <<bill, jackets, commissions, staffed, filing, closed, raced>>

UnlinkDeal(h) ==
  /\ pc[h] = "unlinkDeal"
  /\ \E m \in filed : filed' = filed \ {m}
  /\ Answer(h)
  /\ UNCHANGED <<bill, jackets, commissions, staffed, filing, closed, raced>>

BooksFail(h) ==
  /\ pc[h] # "idle"
  /\ Answer(h)
  /\ UNCHANGED booksVars

-----------------------------------------------------------------------------
BooksInit ==
  /\ bill = [b \in Bills |-> None]
  /\ jackets = [m \in Month |-> 0]
  /\ commissions = [m \in Month |-> 0]
  /\ staffed = FALSE
  /\ filing = None /\ filed = {}
  /\ closed = FALSE /\ raced = FALSE

BooksNext ==
  \/ CreateExpense \/ WholesaleCreateExpense \/ Business
  \/ CreateTaxPeriod \/ UpdateTaxPeriodStatus
  \/ \E h \in Handlers :
       \/ FindExpense(h) \/ UpdateExpense(h) \/ DeleteExpense(h)
       \/ FindPeriod(h) \/ UpdateTaxPeriod(h) \/ DeleteTaxPeriod(h)
       \/ LinkDeal(h) \/ UnlinkDeal(h)
       \/ BooksFail(h)

BooksSpec == BooksInit /\ RequestsInit /\ [][BooksNext]_<<booksVars, handlerVars>>

-----------------------------------------------------------------------------
\* The months in which e is due, by stepping on from its first one.
Step(e) == CASE e.freq = "Quarterly" -> 3 [] e.freq = "Annual" -> YearMonths [] OTHER -> 1
DueMonths(e) == {m \in {e.on + k * Step(e) : k \in Month} :
             m < Months /\ (e.end = None \/ m <= e.end)}

\* Recurring costs the report of a longer range should leave out: "Multi-month /
\* yearly ranges: only charge recurring costs in months that actually have sales".
Spared(range) ==
  LET idle == {m \in range : jackets[m] = 0}
  IN  IF Cardinality(range) = 1 THEN 0
      ELSE SumFunction([b \in Charged |-> IF ~Recurs(bill[b]) THEN 0
                              ELSE Occurrence(bill[b]) * Cardinality(DueMonths(bill[b]) \cap idle)])

\* What rounding can make of n figures, of a range and of its months.
Slack(n, range) == 5 * n * (Cardinality(range) + 1)

\* To the rounding of each figure, the report of a longer range is that of its
\* months but for the recurring costs of months without a sale, where a range of
\* more than a year still charges those named like a month with one; and for the
\* rep's guarantee, which is shared among them.  The other pages' figures for a
\* month are those of its report when no expense recurs, ends, or belongs to a
\* vehicle or to payroll.  A closed filing period is deleted only if it was closed
\* while the deletion was under way (profitLoss, expenseAmountInRange, roundMoney,
\* summary, deleteTaxPeriod).
BooksAddUp ==
  /\ \A a, b \in Month : LET range == a..b
                            months == SumFunction([m \in range |-> Operating({m})]) IN a <= b =>
       /\ Operating(range) + Spared(range) >= months - Slack(1, range)
       /\ Cardinality(range) <= YearMonths => Operating(range) + Spared(range) <= months + Slack(1, range)
       /\ Net(range) >= SumFunction([m \in range |-> Net({m})]) - Slack(3, range)
  /\ \A m \in Month :
       /\ Rounded(WholesaleOperating({m})) >= Operating({m})
       /\ (\A b \in Booked : bill[b].kind = "dealership" /\ bill[b].end = None)
            => Rounded(WholesaleOperating({m})) = Operating({m})
       /\ (\A b \in Booked : bill[b].kind = "dealership" /\ ~Recurs(bill[b]))
            => ExpenseTotal(m) = Operating({m})
  /\ closed /\ filing = "gone" => raced

=============================================================================
