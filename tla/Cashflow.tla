------------------------------- MODULE Cashflow -------------------------------
(***************************************************************************)
(* The money of a month: what the bank reports, what has been planned,     *)
(* ordered and has to be repaid, and the forecast made of it.              *)
(*                                                                         *)
(* Facts: the balance of an account is its newest snapshot and the ledger  *)
(* entries posted after it (domain/finance-facts.ts).  Plans become facts: *)
(* an item is ordered and the order paid (domain/budget-cashflow.ts reads  *)
(* both), a plan is linked to the entry that carried it out                *)
(* (domain/budget-ledger-links.ts), an obligation is settled by an entry.  *)
(* Forecast: the fold over the days (domain/cashflow-engine.ts).  Review:  *)
(* the sums of domain/budget-period-review.ts.                             *)
(*                                                                         *)
(* One debit account of one consumer, linked, its month active.  The bank  *)
(* is external: it posts entries, reports them later and out of order with *)
(* its snapshots, and marks obligations paid; nothing in the repository    *)
(* but its demonstration data does so.  Order of posting is the order of   *)
(* the instants posted_at; a snapshot covers what was posted up to it, so  *)
(* its as_of and covered_through_at are one instant here.                  *)
(* Versions and locks are PurchaseAdmission's and BudgetPlan's subject:    *)
(* every write here is one that passed them.                               *)
(***************************************************************************)
EXTENDS Integers, FiniteSets, FiniteSetsExt

CONSTANTS
    Entries,      \* finance_ledger_entries that may come to be
    Items,        \* budget_items
    Dues,         \* finance_obligations
    Opening,      \* balance of the first snapshot
    Target,       \* savings_target_minor of this month
    NextTarget,   \* and of the next
    MonthEnd,     \* last day of the month; its first is 1
    Window,       \* days of the rolling forecast
    Posted,       \* bound: amounts of entries, an inflow below zero
    Amounts,      \* bound: user_estimated_amount_minor
    Prices,       \* bound: amounts of the order
    Starts,       \* what a run starts with: [dues, nextMonth]
    None

ASSUME CashflowAssumption ==
    /\ IsFiniteSet(Entries) /\ IsFiniteSet(Items) /\ IsFiniteSet(Dues)
    /\ Opening \in Nat /\ Target \in Nat /\ NextTarget \in Nat
    /\ MonthEnd \in Nat \ {0} /\ Window \in Nat \ {0}
    /\ Posted \subseteq Int \ {0}
    /\ Amounts \subseteq Nat \ {0} /\ Prices \subseteq Nat \ {0}
    /\ None \notin Entries \cup Items \cup Dues
    /\ Starts \subseteq
           [dues : [Dues -> [outstanding : Nat, on : Nat, in : Dues \cup {None}]],
            nextMonth : BOOLEAN]

VARIABLES
    today,
    instants,   \* how many entries the bank has posted
    entry,      \* ledger: when posted, amount, delivered, linked item
    snapshot,   \* the newest that was captured
    inFlight,   \* the one the bank has taken and not delivered, if any
    item, order, due,
    nextMonth   \* is there an active period for it

bank == <<instants, entry, snapshot, inFlight, due>>
plans == <<item, order, nextMonth>>
vars == <<today, bank, plans>>

NoEntry == [at |-> 0, day |-> 0, amount |-> 0, delivered |-> FALSE,
            order |-> FALSE, link |-> None, covered |-> 0]
\* An item nothing reads: not entered yet, or ended.
NoItem == [kind |-> "planned_spend", status |-> "none", on |-> 1, amount |-> 0]
NoOrder == [state |-> "none", item |-> None, amount |-> 0, debited |-> FALSE]

IsPosted(e) == entry[e].at > 0
Ledger == {e \in Entries : entry[e].delivered}
Sum(f) == MapThenSumSet(LAMBDA x : f[x], DOMAIN f)

Init ==
    /\ today = 1 /\ instants = 0
    /\ entry = [e \in Entries |-> NoEntry]
    /\ snapshot = [asOf |-> 0, day |-> 1]
    /\ inFlight = {}
    /\ item = [i \in Items |-> NoItem]
    /\ order = NoOrder
    /\ \E start \in Starts :
           /\ nextMonth = start.nextMonth
           /\ due = [o \in Dues |->
                  [outstanding |-> start.dues[o].outstanding,
                   on |-> start.dues[o].on, in |-> start.dues[o].in,
                   status |-> "upcoming", settled |-> None]]

------------------------------------------------------------------------------
(* What the facts say.                                                     *)

\* What the bank has of the account after its first n entries.
Balance(n) ==
    LET posted == {e \in Entries : IsPosted(e) /\ entry[e].at <= n}
    IN  Opening - Sum([e \in posted |-> entry[e].amount])

\* postedAfterCoverage
After == {e \in Ledger : entry[e].at > snapshot.asOf}

\* confirmedCashMinor; the snapshot is too old the day after the next.
Cash == Balance(snapshot.asOf) - Sum([e \in After |-> entry[e].amount])
BasisKnown == today - snapshot.day <= 1 /\ Cash >= 0

\* The chain of obligations one is included in, up to n links.
Chain(o) ==
    LET walk[n \in 0 .. Cardinality(Dues)] ==
            IF n = 0 THEN {o}
            ELSE walk[n - 1] \cup
                 ({due[p].in : p \in walk[n - 1]} \ {None})
    IN  walk[Cardinality(Dues)]
InCycle(o) == \A p \in Chain(o) : due[p].in # None

\* obligationState: what makes an obligation's amount unknown.
DueUnknown(o) ==
    \/ InCycle(o)
    \/ due[o].status = "paid" /\ due[o].settled = None
    \/ due[o].settled # None /\ due[o].settled \notin Ledger

\* remainingDueMinor: what another obligation contains is not due by itself.
Remaining(o) ==
    IF due[o].status = "paid" \/ due[o].in # None THEN 0
    ELSE due[o].outstanding

Covered(i) ==
    Sum([e \in {d \in Entries : entry[d].link = i} |-> entry[e].covered])

------------------------------------------------------------------------------
(* The forecast.                                                           *)

Late(day) == IF day < today THEN today ELSE day

ActiveOrder == order.state \in {"pending", "unknown", "paid"} \/ order.debited

\* Fault variant of OrderEvents: a paid order is expected once more.
OrderEventsPaidTwice ==
    {[on |-> today, amount |-> order.amount,
      kind |-> "committed_order", of |-> order.item] : x \in IF ActiveOrder THEN {1} ELSE {}}

OrderEvents ==
    {[on |-> today, amount |-> order.amount,
      kind |-> "committed_order", of |-> order.item] : x \in IF ActiveOrder /\ ~order.debited THEN {1} ELSE {}}

\* Items still to be spent: the order stands for the one it was made of.
Open == {i \in Items : /\ item[i].status \in {"planned", "committed"}
                       /\ item[i].kind # "expected_income"
                       /\ ~(ActiveOrder /\ order.item = i)}

ItemEvents(last) ==
    {[on |-> Late(item[i].on), amount |-> item[i].amount - Covered(i),
      kind |-> "planned_expense", of |-> i] :
        i \in {j \in Open : item[j].on <= last /\ item[j].amount > Covered(j)}}

DueEvents(last) ==
    {[on |-> Late(due[o].on), amount |-> Remaining(o),
      kind |-> "repayment", of |-> o] :
        o \in {p \in Dues : due[p].on <= last /\ Remaining(p) > 0}}

\* buildCashflowEvents: all that is still to be paid, an expense above zero.
Events(last) == OrderEvents \cup ItemEvents(last) \cup DueEvents(last)

\* Its reason codes: a result or a commitment that nothing explains.
Contradiction ==
    \/ (ActiveOrder /\ order.state = "unknown")
    \/ \E i \in Open : item[i].status = "committed" \/ Covered(i) > item[i].amount

\* The month to its end, or the days from today whose months may differ.
Views == {"month", "rolling"}
Last(view) == IF view = "month" THEN MonthEnd ELSE today + Window - 1
TargetOn(view, d) ==
    IF view = "rolling" /\ d > MonthEnd /\ nextMonth THEN NextTarget ELSE Target
UnknownDays(view) ==
    IF nextMonth THEN {} ELSE {d \in today .. Last(view) : d > MonthEnd}

\* Display only: what it would be with the income that is expected.
IncomeOn(view, d) ==
    LET expected == {i \in Items : item[i].status = "planned" /\ item[i].on = d
                                   /\ item[i].kind = "expected_income"}
    IN  IF view = "rolling" THEN Sum([i \in expected |-> item[i].amount]) ELSE 0

OutOn(events, d) == Sum([v \in {w \in events : w.on = d} |-> v.amount])

\* Fault variant of Step: the lowest balance is that of the last day.
StepForgetful(view, before, d, cash) ==
    IF before.unknown \/ d \in UnknownDays(view)
    THEN [before EXCEPT !.unknown = TRUE]
    ELSE [cash |-> cash, low |-> cash, head |-> cash - TargetOn(view, d),
          unknown |-> FALSE]

\* One day of the fold; nothing is known after a day that is unknown.
Step(view, before, d, cash) ==
    IF before.unknown \/ d \in UnknownDays(view)
    THEN [before EXCEPT !.unknown = TRUE]
    ELSE [cash |-> cash, low |-> Min({before.low, cash}),
          head |-> Min({before.head, cash - TargetOn(view, d)}),
          unknown |-> FALSE]

\* calculateDailyCashflow, from the balance before the first day.
Days(view, income) ==
    LET events == Events(Last(view))
        in(d) == IF income THEN IncomeOn(view, d) ELSE 0
        day[d \in today - 1 .. Last(view)] ==
            IF d < today
            THEN [cash |-> Cash, low |-> Cash, unknown |-> FALSE,
                  head |-> Cash - TargetOn(view, today)]
            ELSE Step(view, day[d - 1], d,
                      day[d - 1].cash - OutOn(events, d) + in(d))
    IN  day
Status(day) ==
    IF day.unknown THEN "unknown" ELSE IF day.low < 0 THEN "blocked"
    ELSE IF day.head < 0 THEN "needs_adjustment" ELSE "allowed"

\* forecastBudgetCashflow has a forecast at all.
Known ==
    /\ today <= MonthEnd /\ BasisKnown
    /\ \A o \in Dues : ~DueUnknown(o)
    /\ ~Contradiction

------------------------------------------------------------------------------
(* The bank.                                                               *)

Tomorrow ==
    /\ today <= MonthEnd /\ today' = today + 1
    /\ UNCHANGED <<bank, plans>>

\* Posted at the bank; the ledger does not have it yet.
Post(e, amount) ==
    /\ ~IsPosted(e)
    /\ instants' = instants + 1
    /\ entry' = [entry EXCEPT ![e] = [NoEntry EXCEPT
           !.at = instants + 1, !.day = today, !.amount = amount]]
    /\ UNCHANGED <<today, snapshot, inFlight, due, plans>>

Deliver(e) ==
    /\ IsPosted(e) /\ ~entry[e].delivered
    /\ entry' = [entry EXCEPT ![e].delivered = TRUE]
    /\ UNCHANGED <<today, instants, snapshot, inFlight, due, plans>>

Now == [asOf |-> instants, day |-> today]

\* Fault variant of Newer: the last one captured is the newest.
NewerCapture(s) == s.day <= today

\* ORDER BY as_of DESC, captured_at DESC
Newer(s) ==
    \/ s.asOf > snapshot.asOf
    \/ s.asOf = snapshot.asOf /\ s.day >= snapshot.day

\* A snapshot is captured as it is taken, or later, after another.
Observe ==
    /\ snapshot # Now /\ snapshot' = Now
    /\ UNCHANGED <<today, instants, entry, inFlight, due, plans>>
TakeSnapshot ==
    /\ inFlight = {} /\ snapshot # Now /\ inFlight' = {Now}
    /\ UNCHANGED <<today, instants, entry, snapshot, due, plans>>
Capture(s) ==
    /\ snapshot' = IF Newer(s) THEN s ELSE snapshot
    /\ inFlight' = inFlight \ {s}
    /\ UNCHANGED <<today, instants, entry, due, plans>>

\* The obligation is paid, by an entry the ledger has or without proof.
MarkPaid(o, e) ==
    /\ due[o].status = "upcoming" /\ due[o].in = None
    /\ e # None => /\ e \in Ledger /\ entry[e].amount > 0
                   /\ entry[e].link = None /\ ~entry[e].order
                   /\ \A p \in Dues : due[p].settled # e
    /\ due' = [due EXCEPT ![o].status = "paid", ![o].settled = e]
    /\ UNCHANGED <<today, instants, entry, snapshot, inFlight, plans>>

------------------------------------------------------------------------------
(* The plan.                                                               *)

\* noActualLink
Rewritable(i) == item[i].status = "planned" /\ Covered(i) = 0

\* applyBudgetItemChange, cancelBudgetItem
ChangeItem(i, kind, day, amount) ==
    /\ item[i].status = "none" \/ Rewritable(i)
    /\ item' = [item EXCEPT ![i] = [kind |-> kind, status |-> "planned",
                                    on |-> day, amount |-> amount]]
    /\ UNCHANGED <<today, bank, order, nextMonth>>
CancelItem(i) ==
    /\ Rewritable(i)
    /\ item' = [item EXCEPT ![i] = [NoItem EXCEPT !.status = "cancelled"]]
    /\ UNCHANGED <<today, bank, order, nextMonth>>

\* Fault variant of Linkable: an entry carries out two plans.
LinkableTwice(e, i, covered) ==
    /\ e \in Ledger /\ entry[e].amount >= covered /\ ~entry[e].order
    /\ \A o \in Dues : due[o].settled # e
    /\ covered <= item[i].amount - Covered(i)

\* A posted expense of the month that nothing else explains.
Linkable(e, i, covered) ==
    /\ e \in Ledger /\ entry[e].amount >= covered /\ ~entry[e].order
    /\ entry[e].day <= MonthEnd
    /\ \A o \in Dues : due[o].settled # e
    /\ entry[e].link = None
    /\ covered <= item[i].amount - Covered(i)

\* linkBudgetLedgerEntry
Link(e, i, covered) ==
    /\ item[i].status = "planned" /\ item[i].kind # "expected_income"
    /\ Linkable(e, i, covered)
    /\ entry' = [entry EXCEPT ![e].link = i, ![e].covered = covered]
    /\ UNCHANGED <<today, instants, snapshot, inFlight, due, plans>>

\* unlinkBudgetLedgerEntry
Unlink(e) ==
    /\ entry[e].link # None
    /\ entry' = [entry EXCEPT ![e].link = None, ![e].covered = 0]
    /\ UNCHANGED <<today, instants, snapshot, inFlight, due, plans>>

\* A confirmed purchase: the item is committed, the order replaces it.
PlaceOrder(i, price) ==
    /\ order.state = "none" /\ today <= MonthEnd
    /\ item[i].kind = "planned_spend" /\ Rewritable(i)
    /\ order' = [state |-> "pending", item |-> i, amount |-> price,
                 debited |-> FALSE]
    /\ item' = [item EXCEPT ![i].status = "committed"]
    /\ UNCHANGED <<today, bank, nextMonth>>

PaymentUnknown ==
    /\ order.state = "pending"
    /\ order' = [order EXCEPT !.state = "unknown"]
    /\ UNCHANGED <<today, bank, item, nextMonth>>

\* The simulated payment posts its entry; applyVerifiedMoneyEvent settles the
\* item.
PayOrder(e) ==
    /\ order.state \in {"pending", "unknown"} /\ ~IsPosted(e)
    /\ instants' = instants + 1
    /\ entry' = [entry EXCEPT ![e] = [NoEntry EXCEPT !.at = instants + 1,
           !.day = today, !.amount = order.amount, !.delivered = TRUE,
           !.order = TRUE]]
    /\ order' = [order EXCEPT !.state = "paid", !.debited = TRUE]
    /\ item' = [item EXCEPT ![order.item] = [NoItem EXCEPT
           !.status = "settled"]]
    /\ UNCHANGED <<today, snapshot, inFlight, due, nextMonth>>

\* finishClosedOrderBudget
CloseOrder ==
    /\ order.state \in {"pending", "unknown"}
    /\ order' = [NoOrder EXCEPT !.state = "closed"]
    /\ item' = [item EXCEPT ![order.item] = [NoItem EXCEPT
           !.status = "cancelled"]]
    /\ UNCHANGED <<today, bank, nextMonth>>

------------------------------------------------------------------------------
Next ==
    \/ Tomorrow
    \/ \E e \in Entries :
           \/ \E amount \in Posted : Post(e, amount)
           \/ Deliver(e) \/ Unlink(e) \/ PayOrder(e)
           \/ \E i \in Items : \E covered \in 1 .. entry[e].amount :
                  Link(e, i, covered)
    \/ Observe \/ TakeSnapshot
    \/ \E s \in inFlight : Capture(s)
    \/ \E o \in Dues, e \in Entries \cup {None} : MarkPaid(o, e)
    \/ \E i \in Items :
           \/ \E kind \in {"planned_spend", "expected_income"},
                 day \in 1 .. MonthEnd, amount \in Amounts :
                 ChangeItem(i, kind, day, amount)
           \/ CancelItem(i)
           \/ \E price \in Prices : PlaceOrder(i, price)
    \/ PaymentUnknown \/ CloseOrder

Spec == Init /\ [][Next]_vars

------------------------------------------------------------------------------
(* The review of the month.                                                *)

\* Posted in the month, an expense, not an order's.
Expenses == {e \in Ledger : entry[e].day <= MonthEnd /\ entry[e].amount > 0}
PlainExpenses == {e \in Expenses : ~entry[e].order}
LinkedActual ==
    Sum([e \in {d \in Ledger : entry[d].link # None} |-> entry[e].covered])
UnlinkedPosted ==
    Max({0, Sum([e \in PlainExpenses |-> entry[e].amount]) - LinkedActual})

------------------------------------------------------------------------------
(* Properties.                                                             *)

ItemStates == {"none", "planned", "committed", "cancelled", "settled"}
TypeOK ==
    /\ today \in 1 .. MonthEnd + 1 /\ instants \in 0 .. Cardinality(Entries)
    /\ \A e \in Entries :
           /\ entry[e].at \in 0 .. instants /\ entry[e].covered \in Nat
           /\ entry[e].link \in Items \cup {None}
           /\ entry[e].amount \in Int /\ entry[e].delivered \in BOOLEAN
    /\ snapshot.asOf \in 0 .. instants /\ snapshot.day \in 1 .. today
    /\ \A i \in Items : item[i].status \in ItemStates
    /\ order.state \in {"none", "pending", "unknown", "paid", "closed"}
    /\ \A o \in Dues : due[o].settled \in Entries \cup {None}
    /\ nextMonth \in BOOLEAN

\* The forecast of a day is the balance less everything planned up to it, and
\* its verdict names the worst day: no day is skipped, none counted twice, an
\* event in the past falls on today, nothing is known after an unknown day,
\* and the income that is only expected never makes a verdict better
\* (cashflow-engine.ts, budget-cashflow.ts).
DayByDay ==
    Known => \A view \in Views :
        LET all == today .. Last(view)
            end == Days(view, FALSE)[Last(view)]
            events == Events(Last(view))
            left == [d \in all |->
                        Cash - Sum([v \in {w \in events : w.on <= d} |-> v.amount])]
            safe == {d \in all : left[d] >= TargetOn(view, d)}
        IN  /\ Status(end) = "unknown" <=> all \cap UnknownDays(view) # {}
            /\ Status(end) = "allowed" => safe = all
            /\ Status(end) = "blocked" => \E d \in all : left[d] < 0
            /\ Status(end) = "needs_adjustment" =>
                  safe # all /\ \A d \in all : left[d] >= 0
            /\ ~end.unknown => end.cash = left[Last(view)]
            /\ Days(view, TRUE)[Last(view)].head >= end.head
            /\ \A v \in events : v.on \in all

\* What of the bank's postings the account's balance contains.
Visible(e) == IsPosted(e) /\ (entry[e].at <= snapshot.asOf \/ entry[e].delivered)

Seen == {e \in Entries : Visible(e)}

\* The confirmed balance is the bank's less what has not been reported, in
\* whatever order entries and snapshots arrive, and what has once been seen
\* is not lost: "A later captured old observation must never replace a newer
\* as_of fact" (finance-facts.ts).
CashIsBank ==
    [][/\ Cash' = (Opening - Sum([e \in Seen |-> entry[e].amount]))'
       /\ \A e \in Entries : Visible(e) => Visible(e)']_vars

\* What was spent and nothing planned, ordered or due explains.
Unforeseen ==
    Sum([e \in Seen |-> entry[e].amount - entry[e].covered])
    - (IF order.debited THEN order.amount ELSE 0)
    - Sum([o \in {p \in Dues : due[p].status = "paid" /\ due[p].on <= MonthEnd}
               |-> due[o].outstanding])
SamePlan ==
    /\ order'.state = "closed" => order' = order
    /\ order'.item = order.item
    /\ \A i \in Items : item'[i] = item[i] \/ item'[i].status = "settled"

\* The end of the month is foreseen once: as long as the plan stays, the
\* foreseen balance changes only by what is spent outside it.  A payment, a
\* link, a settlement, a snapshot or another day moves an amount from the
\* plan to the facts and neither loses nor counts it twice (opening cash,
\* committed orders, coveredMinor, remainingDueMinor).
ForeseenOnce ==
    [][(SamePlan /\ Known /\ Known') =>
         Days("month", FALSE)[MonthEnd].cash' + Unforeseen'
             = Days("month", FALSE)[MonthEnd].cash + Unforeseen]_vars

\* The review adds up: each expense of the month is linked or not, by its
\* amount, and no plan is covered beyond its estimate.  The links of
\* budget-ledger-links.ts are what makes the difference of two sums in
\* budget-period-review.ts an amount of its own.
ReviewAddsUp ==
    /\ TypeOK
    /\ UnlinkedPosted =
           Sum([e \in PlainExpenses |-> entry[e].amount - entry[e].covered])
    /\ \A e \in PlainExpenses : entry[e].covered <= entry[e].amount
    /\ LinkedActual = Sum([i \in Items |-> Covered(i)])
    /\ \A i \in Items : Covered(i) <= item[i].amount
    /\ \A i \in Items : Covered(i) > 0 => item[i].status = "planned"
==============================================================================
