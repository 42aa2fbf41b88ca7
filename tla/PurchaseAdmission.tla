-------------------------- MODULE PurchaseAdmission --------------------------
(***************************************************************************)
(* How a purchase is admitted against a monthly budget: the preview that   *)
(* assesses one quote for one budget item (domain/purchase-assessment.ts), *)
(* the intent that reserves the item (domain/purchase-intents.ts), its     *)
(* confirmation, which forecasts the money once more and writes the order  *)
(* (domain/purchase-commit.ts, domain/consumer-orders.ts), its rejection   *)
(* and expiry (domain/purchase-intent-lifecycle.ts), and everything that   *)
(* changes the budget meanwhile: items, savings target, ledger links, bank *)
(* facts, the account's authorisation, quotes, the worker and the end of   *)
(* the month.                                                              *)
(*                                                                         *)
(* One consumer, one debit account, the active periods of that account.    *)
(* Every update of the account, its facts and its orders raises the        *)
(* account's financial_version, every update of a period, its items or its *)
(* links that period's version (triggers of migrations 016 and 017).       *)
(* A period keeps the items of an earlier month in its forecast without    *)
(* carrying their changes in its version.                                  *)
(*                                                                         *)
(* The confirmation and every change of a period lock the account, the     *)
(* period and the item and are one step.  The preview locks nothing and    *)
(* the creation of an intent locks the item, its quote and the offer only: *)
(* these two take two steps each.                                          *)
(*                                                                         *)
(* All planned items are purchases, the necessities of the month are       *)
(* confirmed and no repayment is due: no day adds money to the forecast    *)
(* and its lowest point is its end.                                        *)
(***************************************************************************)
EXTENDS Integers, FiniteSets, FiniteSetsExt

CONSTANTS
    Periods,      \* budget_periods of the account
    Current,      \* the one of the running month; the others have ended
    Items,        \* budget_items
    PeriodOf,     \* budget_items.period_id
    Assessments,  \* funding_assessments
    Intents,      \* purchase_intents; each has at most one order
    Prices,       \* offer_quotes.price_minor by quote_version
    Estimates,    \* bound: user_estimated_amount_minor of an item
    Opening,      \* bound: estimates at the start, 0 for an item not planned
    Targets,      \* bound: savings_target_minor
    CashLevels,   \* bound: balances a bank snapshot may show
    MaxVersions   \* bound: sum of all versions up to which others act

ASSUME AdmissionAssumption ==
    /\ Current \in Periods
    /\ PeriodOf \in [Items -> Periods]
    /\ IsFiniteSet(Periods) /\ IsFiniteSet(Items) /\ IsFiniteSet(Intents)
    /\ Prices \in [DOMAIN Prices -> Nat \ {0}] /\ DOMAIN Prices \subseteq Nat
    /\ Estimates \subseteq Nat \ {0} /\ Estimates # {}
    /\ Opening \subseteq [Items -> Estimates \cup {0}] /\ Opening # {}
    /\ Targets \subseteq Nat /\ Min(Targets) \in Targets
    /\ CashLevels \subseteq Nat /\ Max(CashLevels) \in CashLevels
    /\ MaxVersions \in Nat

Quotes == DOMAIN Prices

VARIABLES
    account,  \* linked, financial_version, confirmed cash, snapshot not stale
    period,   \* status, version, savings target
    month,    \* the month of Current: running or over
    item,     \* status, estimate, amount covered by a ledger link
    quote,    \* offer_quotes.status; "none" until it is offered
    assess,   \* the assessments, from the first read of their transaction on
    intent,   \* status and assessment of an intent
    order     \* payment_status of the order of an intent

budgetVars == <<period, item>>
offerVars == <<assess, intent>>
vars == <<account, budgetVars, month, quote, offerVars, order>>

ItemOf(k) == assess[intent[k].of].item
AmountOf(k) == Prices[assess[intent[k].of].quote]
IntentsOf(i) == {k \in Intents : intent[k].state # "none" /\ ItemOf(k) = i}
Expired(k) == assess[intent[k].of].expired

------------------------------------------------------------------------------
(* The forecast of a period, with the item of a purchase at its price.     *)

Ordered == {k \in Intents : order[k] # "none"}

\* Orders that count: neither closed nor failed, or posted by the bank.
ActiveOrders == {k \in Ordered : order[k] # "closed"}
ActiveOrdersOf(i) == {k \in ActiveOrders : ItemOf(k) = i}

\* What the events of one kind take from the cash together.
Total(f) == MapThenSumSet(LAMBDA x : f[x], DOMAIN f)

\* A posted payment is in the cash already.
Due == {k \in ActiveOrders : order[k] # "paid"}
Committed == Total([k \in Due |-> AmountOf(k)])

Remaining(i) == item[i].estimate - item[i].covered

\* Items of all active periods whose estimate still stands for the expense.
Standing(p) == {i \in Items : /\ PeriodOf[i] = p
                              /\ period[p].status = "active"
                              /\ item[i].status \in {"planned", "committed"}
                              /\ ActiveOrdersOf(i) = {}}
Planned(p, without) == Total([i \in Standing(p) \ without |-> Remaining(i)])
PlannedElsewhere(p) == Total([q \in Periods \ {p} |-> Planned(q, {})])

Headroom(p, without, extra) ==
    account.cash - Committed - Planned(p, without) - PlannedElsewhere(p)
        - extra - period[p].target

\* Facts that leave the forecast unknown.
Unknown(p) ==
    \/ period[p].status # "active" \/ p # Current \/ month = "over"
    \/ ~account.fresh \/ account.cash < 0
    \/ \E k \in Ordered : order[k] = "unknown"
    \/ \E i \in Items : Cardinality(ActiveOrdersOf(i)) > 1
    \/ \E q \in Periods : \E i \in Standing(q) :
           item[i].status = "committed" \/ Remaining(i) < 0

Forecast(p, i, amount) ==
    LET left == Headroom(p, {i}, amount)
    IN  CASE Unknown(p) -> "unknown"
          [] ~Unknown(p) /\ left + period[p].target < 0 -> "blocked"
          [] ~Unknown(p) /\ left < 0 /\ left + period[p].target >= 0
                 -> "needs_adjustment"
          [] OTHER -> "allowed"

\* What the two versions stand for: the facts of this account and period.
Basis(p) == [cash |-> account.cash, committed |-> Committed,
             planned |-> Planned(p, {}), target |-> period[p].target]
Versions(p) == [financial |-> account.version, period |-> period[p].version]

NoBasis == [cash |-> 0, committed |-> 0, planned |-> 0, target |-> 0]
NoVersions == [financial |-> 0, period |-> 0]
NoAssessment ==
    [state |-> "none", item |-> "none", quote |-> 0, versions |-> NoVersions,
     estimate |-> 0, seen |-> NoBasis, status |-> "unknown",
     expired |-> FALSE, stale |-> {}]
NoItem == [status |-> "none", estimate |-> 0, covered |-> 0]
PlannedItem(estimate) ==
    [status |-> "planned", estimate |-> estimate, covered |-> 0]
NoIntent == [state |-> "none", of |-> "none"]

Init ==
    /\ account \in [linked : {TRUE}, version : {1}, cash : {Max(CashLevels)},
                    fresh : {TRUE}]
    /\ period \in [Periods -> [status : {"active"}, version : {1},
                               target : {Min(Targets)}]]
    /\ month = "running"
    /\ \E plan \in Opening : item = [i \in Items |->
           IF plan[i] = 0 THEN NoItem ELSE PlannedItem(plan[i])]
    /\ quote = [q \in Quotes |-> "none"]
    /\ assess = [a \in Assessments |-> NoAssessment]
    /\ intent = [k \in Intents |-> NoIntent]
    /\ order = [k \in Intents |-> "none"]

------------------------------------------------------------------------------
(* Rows read by every step of a purchase.                                  *)

\* Bound: others act only up to it; the purchase, the worker and what undoes
\* a revocation or a link are bounded by themselves.
Bounded == account.version + MapThenSumSet(LAMBDA p : period[p].version, Periods)
               < MaxVersions

RaiseAccount(n) == account' = [account EXCEPT !.version = @ + n]
RaisePeriod(p) == period' = [period EXCEPT ![p].version = @ + 1]

\* The transaction that creates an intent holds its item, quote and offer.
Creating == {k \in Intents : intent[k].state = "creating"}
Locked(i) == \E k \in Creating : ItemOf(k) = i

\* Other transactions do not see an intent before it is committed.
Proposed(i) == {k \in IntentsOf(i) : intent[k].state = "proposed"}

\* expireStalePurchaseIntents: proposed intents of the item that have expired.
Stale(i) == {k \in Proposed(i) : Expired(k)}
Expire(K) == [k \in Intents |->
    IF k \in K /\ intent[k].state = "proposed"
    THEN [intent[k] EXCEPT !.state = "expired"] ELSE intent[k]]

\* An intent, other than k, that keeps the item for itself.
Open(i) == {k \in IntentsOf(i) : \/ intent[k].state = "ordered"
                                 \/ intent[k].state = "proposed" /\ ~Expired(k)}

\* readPurchaseItem, for a purchase that may already have an intent.
Orderable(i, own) == /\ item[i].status = "planned"
                     /\ item[i].covered = 0
                     /\ Open(i) \subseteq own

\* readPurchaseQuote: valid, and no newer one is.
Usable(q) == /\ quote[q] = "valid"
             /\ \A n \in Quotes : n > q => quote[n] # "valid"

------------------------------------------------------------------------------
(* The preview.                                                            *)

\* assessPurchasePreview up to the read of period and account: the request
\* names the versions it expects, so those of an earlier read are refused.
BeginAssessment(a, i, q) ==
    /\ assess[a].state = "none"
    /\ Orderable(i, {}) /\ Usable(q)
    /\ account.linked
    /\ assess' = [assess EXCEPT ![a] =
           [@ EXCEPT !.state = "reading", !.item = i, !.quote = q,
                     !.estimate = item[i].estimate, !.stale = Stale(i),
                     !.versions = Versions(PeriodOf[i]),
                     !.seen = [NoBasis EXCEPT !.target =
                                   period[PeriodOf[i]].target]]]
    /\ UNCHANGED <<account, budgetVars, month, quote, intent, order>>

\* Fault variant of StoredVersions: read again when the row is written.
StoredVersionsLate(a) == Versions(PeriodOf[assess[a].item])

\* The versions an assessment is stored with: those read with the period.
StoredVersions(a) == assess[a].versions

\* Facts, items and orders are read after the period, without its lock.
\* Without a snapshot to refer to nothing is stored (AbortAssessment).
FinishAssessment(a) ==
    LET i == assess[a].item  p == PeriodOf[i] IN
    /\ assess[a].state = "reading"
    /\ account.fresh
    /\ assess' = [assess EXCEPT ![a] =
           [@ EXCEPT !.state = "made", !.versions = StoredVersions(a),
                     !.seen = [Basis(p) EXCEPT !.target = assess[a].seen.target],
                     !.status = Forecast(p, i, Prices[assess[a].quote]),
                     !.stale = {}]]
    /\ intent' = Expire(assess[a].stale)
    /\ UNCHANGED <<account, budgetVars, month, quote, order>>

AbortAssessment(a) ==
    /\ assess[a].state = "reading"
    /\ assess' = [assess EXCEPT ![a] = NoAssessment]
    /\ UNCHANGED <<account, budgetVars, month, quote, intent, order>>

\* Five minutes, or the validity of the quote, have passed.  An assessment
\* that no intent used is of no further use, its name is free again.
AssessmentExpires(a) ==
    /\ assess[a].state = "made" /\ ~assess[a].expired
    /\ assess' = [assess EXCEPT ![a] =
           IF \E k \in Intents : intent[k].of = a
           THEN [@ EXCEPT !.expired = TRUE] ELSE NoAssessment]
    /\ UNCHANGED <<account, budgetVars, month, quote, intent, order>>

------------------------------------------------------------------------------
(* The intent.                                                             *)

\* createPurchaseIntent up to its INSERT.  The offer is locked: one at a time.
BeginIntent(k, a) ==
    LET i == assess[a].item  p == PeriodOf[i] IN
    /\ Creating = {} /\ intent[k].state = "none"
    /\ assess[a].state = "made"
    /\ Orderable(i, {}) /\ Usable(assess[a].quote)
    /\ account.linked /\ period[p].status = "active"
    /\ assess[a].versions = Versions(p)
    /\ assess[a].estimate = item[i].estimate
    /\ assess[a].status = "allowed" /\ ~assess[a].expired
    /\ intent' = [intent EXCEPT ![k] = [state |-> "creating", of |-> a]]
    /\ UNCHANGED <<account, budgetVars, month, quote, assess, order>>

\* The INSERT and the commit, with the stale intents of the item expired.
\* An index allows one open intent per item.
InsertIntent(k) ==
    /\ intent[k].state = "creating"
    /\ intent' = [Expire(Proposed(ItemOf(k))) EXCEPT ![k].state = "proposed"]
    /\ UNCHANGED <<account, budgetVars, month, quote, assess, order>>

AbortIntent(k) ==
    /\ intent[k].state = "creating"
    /\ intent' = [intent EXCEPT ![k] = NoIntent]
    /\ UNCHANGED <<account, budgetVars, month, quote, assess, order>>

\* rejectPurchaseIntent
RejectIntent(k) ==
    /\ intent[k].state = "proposed" /\ ~Locked(ItemOf(k))
    /\ intent' = [intent EXCEPT ![k].state =
           IF Expired(k) THEN "expired" ELSE "rejected"]
    /\ UNCHANGED <<account, budgetVars, month, quote, assess, order>>

\* Fault variant of VersionsHold: only the account's.
AccountVersionHolds(k) ==
    assess[intent[k].of].versions.financial = account.version

\* The versions the consumer accepted, the intent's and the assessment's are
\* those of the rows.
VersionsHold(k) ==
    assess[intent[k].of].versions = Versions(PeriodOf[ItemOf(k)])

\* Fault variant of FinalForecast: the stored status is trusted.
FinalForecastStored(k) == assess[intent[k].of].status = "allowed"

\* The last forecast, under the locks.
FinalForecast(k) ==
    Forecast(PeriodOf[ItemOf(k)], ItemOf(k), AmountOf(k)) = "allowed"

\* commitPurchaseAssessment with writeConfirmedOrder: proposed, confirmed and
\* ordered in one transaction; the order raises the financial version, the
\* item the version of its period.
ConfirmIntent(k) ==
    LET i == ItemOf(k)  p == PeriodOf[i]  a == intent[k].of IN
    /\ intent[k].state = "proposed" /\ Creating = {}
    /\ account.linked /\ period[p].status = "active"
    /\ VersionsHold(k)
    /\ Orderable(i, {k}) /\ Usable(assess[a].quote)
    /\ ~assess[a].expired /\ assess[a].status = "allowed"
    /\ FinalForecast(k)
    /\ intent' = [intent EXCEPT ![k].state = "ordered"]
    /\ order' = [order EXCEPT ![k] = "pending"]
    /\ item' = [item EXCEPT ![i].status = "committed"]
    /\ RaiseAccount(1) /\ RaisePeriod(p)
    /\ UNCHANGED <<month, quote, assess>>

------------------------------------------------------------------------------
(* Changes of the budget.                                                  *)

\* accountThenPeriod, with the versions the request names.
Changeable(p) == account.linked /\ period[p].status # "closed"

\* The item is planned, without open intent and without link.
Free(i) == /\ item[i].status = "planned" /\ item[i].covered = 0
           /\ Open(i) = {} /\ ~Locked(i)

\* applyBudgetItemChange
ChangeItem(i, estimate) ==
    /\ Changeable(PeriodOf[i]) /\ Bounded
    /\ item[i].status = "none" \/ Free(i)
    /\ item' = [item EXCEPT ![i] = PlannedItem(estimate)]
    /\ intent' = Expire(Stale(i))
    /\ RaisePeriod(PeriodOf[i])
    /\ UNCHANGED <<account, month, quote, assess, order>>

\* cancelBudgetItem
CancelItem(i) ==
    /\ Changeable(PeriodOf[i]) /\ Bounded /\ Free(i)
    /\ item' = [item EXCEPT ![i].status = "cancelled"]
    /\ intent' = Expire(Stale(i))
    /\ RaisePeriod(PeriodOf[i])
    /\ UNCHANGED <<account, month, quote, assess, order>>

\* linkBudgetLedgerEntry; bound: one link at a time
LinkEntry(i, amount) ==
    /\ Changeable(PeriodOf[i]) /\ Bounded /\ Free(i)
    /\ amount <= Remaining(i)
    /\ item' = [item EXCEPT ![i].covered = amount]
    /\ intent' = Expire(Stale(i))
    /\ RaisePeriod(PeriodOf[i])
    /\ UNCHANGED <<account, month, quote, assess, order>>

\* unlinkBudgetLedgerEntry: whatever became of the item
UnlinkEntry(i) ==
    /\ Changeable(PeriodOf[i]) /\ item[i].covered > 0
    /\ item' = [item EXCEPT ![i].covered = 0]
    /\ RaisePeriod(PeriodOf[i])
    /\ UNCHANGED <<account, month, quote, offerVars, order>>

\* changeSavingsTarget
ChangeTarget(p, target) ==
    /\ Changeable(p) /\ Bounded /\ period[p].target # target
    /\ period' = [period EXCEPT ![p].target = target, ![p].version = @ + 1]
    /\ UNCHANGED <<account, month, item, quote, offerVars, order>>

\* A snapshot of the bank, or ledger entries after it.
BankFact(cash) ==
    /\ Bounded
    /\ account' = [account EXCEPT !.cash = cash, !.fresh = TRUE,
                                  !.version = @ + 1]
    /\ UNCHANGED <<budgetVars, month, quote, offerVars, order>>

\* Twenty-four hours after the last snapshot; no version shows it.
SnapshotAges ==
    /\ account.fresh
    /\ account' = [account EXCEPT !.fresh = FALSE]
    /\ UNCHANGED <<budgetVars, month, quote, offerVars, order>>

\* revokeAccount raises the version of all periods, reauthorizeDemoAccount
\* only that of the account.
Revoke ==
    /\ account.linked /\ Bounded
    /\ account' = [account EXCEPT !.linked = FALSE, !.version = @ + 1]
    /\ period' = [p \in Periods |-> [period[p] EXCEPT !.version = @ + 1]]
    /\ UNCHANGED <<month, item, quote, offerVars, order>>

Reauthorize ==
    /\ ~account.linked
    /\ account' = [account EXCEPT !.linked = TRUE, !.version = @ + 1]
    /\ UNCHANGED <<budgetVars, month, quote, offerVars, order>>

\* The provider offers, expires or withdraws a quote; the creation of an
\* intent holds the rows meanwhile.
OfferQuote(q) ==
    /\ Creating = {} /\ quote[q] = "none"
    /\ \A n \in Quotes : n < q => quote[n] # "none"
    /\ quote' = [quote EXCEPT ![q] = "valid"]
    /\ UNCHANGED <<account, budgetVars, month, offerVars, order>>

WithdrawQuote(q) ==
    /\ Creating = {} /\ quote[q] = "valid"
    /\ quote' = [quote EXCEPT ![q] = "withdrawn"]
    /\ UNCHANGED <<account, budgetVars, month, offerVars, order>>

MonthEnds ==
    /\ month = "running"
    /\ month' = "over"
    /\ UNCHANGED <<account, budgetVars, quote, offerVars, order>>

\* POST closures: a proposed intent blocks it even after its expiry.
ClosePeriod(p) ==
    /\ period[p].status = "active"
    /\ p # Current \/ month = "over"
    /\ \A i \in Items : PeriodOf[i] = p =>
           /\ Proposed(i) = {}
           /\ \A k \in ActiveOrdersOf(i) : order[k] = "paid"
    /\ period' = [period EXCEPT ![p].status = "closed", ![p].version = @ + 1]
    /\ UNCHANGED <<account, month, item, quote, offerVars, order>>

------------------------------------------------------------------------------
(* The worker (SimulatedOrder, SandboxTrade) as far as the forecast sees   *)
(* it.                                                                     *)

\* processPayment: the ledger entry and the order raise the version.
PayOrder(k) ==
    /\ order[k] = "pending"
    /\ order' = [order EXCEPT ![k] = "paid"]
    /\ item' = [item EXCEPT ![ItemOf(k)].status = "settled"]
    /\ account' = [account EXCEPT !.cash = @ - AmountOf(k), !.version = @ + 2]
    /\ RaisePeriod(PeriodOf[ItemOf(k)])
    /\ UNCHANGED <<month, quote, offerVars>>

PaymentUnclear(k) ==
    /\ order[k] = "pending"
    /\ order' = [order EXCEPT ![k] = "unknown"]
    /\ RaiseAccount(1)
    /\ UNCHANGED <<budgetVars, month, quote, offerVars>>

\* Fault variant of CloseOrder: the item is free again.
CloseOrderFrees(k) ==
    /\ order[k] \in {"pending", "unknown"}
    /\ order' = [order EXCEPT ![k] = "closed"]
    /\ item' = [item EXCEPT ![ItemOf(k)].status = "planned"]
    /\ RaiseAccount(1) /\ RaisePeriod(PeriodOf[ItemOf(k)])
    /\ UNCHANGED <<month, quote, offerVars>>

\* processClose with finishClosedOrderBudget
CloseOrder(k) ==
    /\ order[k] \in {"pending", "unknown"}
    /\ order' = [order EXCEPT ![k] = "closed"]
    /\ item' = [item EXCEPT ![ItemOf(k)].status = "cancelled"]
    /\ RaiseAccount(1) /\ RaisePeriod(PeriodOf[ItemOf(k)])
    /\ UNCHANGED <<month, quote, offerVars>>

------------------------------------------------------------------------------
PurchaseStep ==
    \/ \E a \in Assessments :
           \/ \E i \in Items, q \in Quotes : BeginAssessment(a, i, q)
           \/ FinishAssessment(a)
           \/ AbortAssessment(a)
           \/ AssessmentExpires(a)
    \/ \E k \in Intents :
           \/ \E a \in Assessments : BeginIntent(k, a)
           \/ InsertIntent(k)
           \/ AbortIntent(k)
           \/ RejectIntent(k)
           \/ ConfirmIntent(k)

BudgetStep ==
    \/ \E i \in Items :
           \/ \E e \in Estimates : ChangeItem(i, e)
           \/ CancelItem(i)
           \/ \E e \in Estimates : LinkEntry(i, e)
           \/ UnlinkEntry(i)
    \/ \E p \in Periods :
           \/ \E t \in Targets : ChangeTarget(p, t)
           \/ ClosePeriod(p)

FactStep ==
    \/ \E c \in CashLevels : BankFact(c)
    \/ SnapshotAges
    \/ Revoke
    \/ Reauthorize
    \/ \E q \in Quotes : OfferQuote(q) \/ WithdrawQuote(q)
    \/ MonthEnds
    \/ \E k \in Intents : PayOrder(k) \/ PaymentUnclear(k) \/ CloseOrder(k)

Next == PurchaseStep \/ BudgetStep \/ FactStep

Spec == Init /\ [][Next]_vars

------------------------------------------------------------------------------
(* Properties.                                                             *)

BasisRecord == [cash : Int, committed : Nat, planned : Int, target : Nat]

AssessmentRecord ==
    [state : {"none", "reading", "made"}, item : Items \cup {"none"},
     quote : Quotes \cup {0}, versions : [financial : Nat, period : Nat], estimate : Nat,
     seen : BasisRecord,
     status : {"allowed", "needs_adjustment", "blocked", "unknown"},
     expired : BOOLEAN, stale : SUBSET Intents]

\* Every row holds values its table allows.
TypeOK ==
    /\ account \in [linked : BOOLEAN, version : Nat, cash : Int,
                    fresh : BOOLEAN]
    /\ period \in [Periods -> [status : {"active", "closed"}, version : Nat,
                               target : Targets]]
    /\ month \in {"running", "over"}
    /\ item \in [Items -> [status : {"none", "planned", "committed",
                                     "settled", "cancelled"},
                           estimate : Estimates \cup {0}, covered : Nat]]
    /\ quote \in [Quotes -> {"none", "valid", "withdrawn"}]
    /\ assess \in [Assessments -> AssessmentRecord]
    /\ intent \in [Intents -> [state : {"none", "creating", "proposed",
                                        "ordered", "expired", "rejected"},
                               of : Assessments \cup {"none"}]]
    /\ order \in [Intents -> {"none", "pending", "unknown", "paid", "closed"}]

\* An item is bought at most once, by an intent that stays ordered, and its
\* status is that of the order: committed while the payment is open, settled
\* when it is posted, cancelled when it is closed; without order it is free.
\* (unique index purchase_intents_one_open_item_idx, readPurchaseItem,
\* finishClosedOrderBudget, applyVerifiedMoneyEvent)
ItemFollowsOrder ==
    /\ \A k \in Intents : (order[k] # "none") <=> (intent[k].state = "ordered")
    /\ \A i \in Items :
           LET bought == {k \in Ordered : ItemOf(k) = i} IN
           /\ Cardinality(bought) <= 1
           /\ bought = {} => item[i].status \in {"none", "planned", "cancelled"}
           /\ \A k \in bought : item[i].status =
                  CASE order[k] \in {"pending", "unknown"} -> "committed"
                    [] order[k] = "paid" -> "settled"
                    [] order[k] = "closed" -> "cancelled"

\* A live intent reserves the item it was made for: nobody cancels it, links
\* it, buys it or changes the estimate the intent replaces, not even between
\* the check and the INSERT of the intent.  (noOpenIntent and the item lock of
\* createPurchaseIntent)
ReservationMatchesItem ==
    \A k \in Intents :
        intent[k].state = "proposed" /\ ~Expired(k)
            => /\ item[ItemOf(k)].status = "planned"
               /\ item[ItemOf(k)].covered = 0
               /\ item[ItemOf(k)].estimate = assess[intent[k].of].estimate

\* Item, intent and order agree: who reserved the item, who bought it, and what
\* became of the order (createPurchaseIntent, confirmPurchaseIntent, the worker).
IntentHoldsItem == ItemFollowsOrder /\ ReservationMatchesItem

\* As long as both versions are those of an assessment, the facts of its
\* account and period are those it was made from, although it read them one
\* after the other and without locks; and the rows hold what their tables allow.
BasisIsCurrent ==
    /\ TypeOK
    /\ \A a \in Assessments :
           LET p == PeriodOf[assess[a].item] IN
           assess[a].state = "made" /\ assess[a].versions = Versions(p)
               => assess[a].seen = Basis(p)

Confirms(k) == intent[k].state = "proposed" /\ intent'[k].state = "ordered"

\* After a purchase is confirmed the plan of the month still holds with the
\* order in it: cash covers all orders, all plans of all active periods and the
\* savings target, whatever was changed since the preview.
ConfirmKeepsBudget ==
    [][\A k \in Intents : Confirms(k) =>
           LET p == PeriodOf[ItemOf(k)] IN
           ~Unknown(p)' /\ Headroom(p, {}, 0)' >= 0]_vars

\* What the consumer confirms is what was shown: cash, orders, plan and target
\* of the period, and the estimate that the price replaces.
ConfirmedAsShown ==
    [][\A k \in Intents : Confirms(k) =>
           LET a == intent[k].of IN
           /\ assess[a].seen = Basis(PeriodOf[ItemOf(k)])
           /\ assess[a].estimate = item[ItemOf(k)].estimate]_vars
==============================================================================
