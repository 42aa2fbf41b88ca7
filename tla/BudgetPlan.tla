------------------------------ MODULE BudgetPlan ------------------------------
(***************************************************************************)
(* The plan of one month and what changes it: the life of the budget       *)
(* period and of its items (domain/budget-periods.ts,                      *)
(* routes/budget-periods.ts), the page that shows the effect of an edit    *)
(* before it is saved (the mini program's item/edit.vue), and the          *)
(* adjustment for an unexpected expense, which cancels items or a paid     *)
(* order in the same transaction (domain/budget-adjustments.ts,            *)
(* emergency/index.vue), up to the refund of that order.                   *)
(*                                                                         *)
(* One consumer, one debit account, one month.  One item, Bought, may be   *)
(* committed with a paid order whose payment has left the account.  The    *)
(* purchase itself is PurchaseAdmission's subject; a refund is followed up *)
(* to its success or to the question it leaves, its tasks and retries are  *)
(* SimulatedOrder's and SandboxRefund's.                                   *)
(*                                                                         *)
(* A write locks the account and the period and is one step; a refused     *)
(* one changes nothing.  The page reads first and writes later, and the    *)
(* proposal of an adjustment is assessed and inserted without a lock:      *)
(* these take two steps.  The forecast is one balance at the end of the    *)
(* month; its days are Cashflow's subject.                                 *)
(***************************************************************************)
EXTENDS Integers, Sequences, FiniteSets, FiniteSetsExt

CONSTANTS
    Items,        \* budget_items
    Bought,       \* the one that may have a paid order
    Adjustments,  \* budget_adjustment_proposals
    Amounts,      \* bound: user_estimated_amount_minor
    Expenses,     \* bound: amount_minor of an unexpected expense
    CashLevels,   \* bound: balances the bank may report
    Targets,      \* bound: savings_target_minor
    Price, Fee,   \* amount_minor of the order, fee of its rule
    Rules,        \* cancellation rules the run considers
    MaxAccount,   \* bound: version of the account up to which it is changed
    MaxPeriod,    \* bound: version of the period up to which it is edited
    None

AllRules == {"full_refund", "fee_80", "two_batches", "reject", "delay"}

\* orders.refund_simulation_mode, copied from the catalogue: OPEN for PENDING
\* and for UNKNOWN, which the sandbox's orders have.
Results == {"SUCCESS", "OPEN"}

ASSUME PlanAssumption ==
    /\ IsFiniteSet(Items) /\ Cardinality(Items) > 1
    /\ Bought \in Items /\ None \notin Items \cup Adjustments
    /\ Amounts \subseteq Nat \ {0} /\ Max(Amounts) \in Amounts
    /\ CashLevels \subseteq Nat /\ Max(CashLevels) \in CashLevels
    /\ Expenses \subseteq Nat \ {0}
    /\ Targets \subseteq Nat /\ Min(Targets) \in Targets /\ Rules \subseteq AllRules
    /\ Fee \in Nat \ {0} /\ Price \in Nat /\ Price > Fee + 1
    /\ MaxAccount \in Nat /\ MaxPeriod \in Nat

\* Cancellation requests: one by each adjustment, one by the order's page.
Requests == Adjustments \cup {None}

VARIABLES
    environment, \* of the order: simulation or sandbox
    account,     \* linked, financial_version, confirmed cash
    month,       \* running or over
    period,      \* status, version, savings target
    item,        \* status, priority, estimate
    order,       \* the paid order: status, its rule and rule_version, and
                 \* the result a simulated refund has
    request,     \* cancellation_requests with the batches still to be paid
    adj,         \* adjustments
    page         \* what the consumer has before him

orderVars == <<order, request>>
vars == <<environment, account, month, period, item, orderVars, adj, page>>

NoItem == [status |-> "none", priority |-> "adjustable", amount |-> 0]
Planned(priority, amount) ==
    [status |-> "planned", priority |-> priority, amount |-> amount]
Versions == [account |-> account.version, period |-> period.version]
NoVersions == [account |-> 0, period |-> 0]
NoForecast == [known |-> FALSE, headroom |-> 0]
NoOption == [cancel |-> {}, order |-> FALSE]
NoAdjustment == [state |-> "none", basis |-> NoVersions, amount |-> 0,
                 options |-> {}, rule |-> 0, expired |-> FALSE,
                 chosen |-> NoOption, item |-> None]
NoRequest == [state |-> "none", left |-> << >>]
NoChange == [item |-> None, to |-> NoItem]
NoPage == [at |-> "away", read |-> NoVersions, change |-> NoChange,
           after |-> NoForecast]

------------------------------------------------------------------------------
(* The forecast.                                                           *)

\* Items whose estimate still stands for the expense, each at its amount.
Plan == [i \in Items |-> IF item[i].status = "planned" THEN item[i].amount
                         ELSE 0]

Reserved(plan) == MapThenSumSet(LAMBDA i : plan[i], Items)

Left(plan, extra) == account.cash - period.target - extra - Reserved(plan)

\* forecastBudgetCashflow: the balance left above the savings target.
Forecast(plan, extra) ==
    IF period.status = "active" /\ month = "running"
    THEN [known |-> TRUE, headroom |-> Left(plan, extra)] ELSE NoForecast

Allowed(forecast) == forecast.known /\ forecast.headroom >= 0

\* cancellationRuleDetails: fee and batches of a refund.
Batches(rule) ==
    LET back == IF rule \in {"fee_80", "two_batches"} THEN Price - Fee
                ELSE Price
    IN  CASE rule = "reject" -> << >>
          [] rule = "two_batches" -> <<back \div 2, back - back \div 2>>
          [] OTHER -> <<back>>

\* initialDecisionForRule
Decision(rule) == IF rule \in {"reject", "delay"} THEN rule ELSE "approve"

Running(r) == request[r].state \in {"approved", "delayed", "refund_processing",
                                   "pending_review"}

\* The order can be cancelled: paid, nothing refunded, no request running.
Cancellable == order.state = "paid" /\ \A r \in Requests : ~Running(r)

First == CHOOSE i \in Items \ {Bought} : TRUE

\* Plans and orders at the start: no period yet, or an active one.
Init ==
    /\ environment \in {"simulation", "sandbox"}
    /\ account = [linked |-> TRUE, version |-> 1, cash |-> Max(CashLevels)]
    /\ month = "running"
    /\ \/ /\ period = [status |-> "none", version |-> 0, target |-> 0]
          /\ item = [i \in Items |-> NoItem]
          /\ order = [state |-> "none", rule |-> "reject", version |-> 0,
                      result |-> "OPEN"]
       \/ /\ period = [status |-> "active", version |-> 1,
                       target |-> Min(Targets)]
          /\ item = [i \in Items |->
                 CASE i = Bought -> [Planned("adjustable", Max(Amounts))
                                       EXCEPT !.status = "committed"]
                   [] i = First -> Planned("adjustable", Max(Amounts))
                   [] OTHER -> NoItem]
          /\ \E rule \in Rules, result \in Results :
                 /\ environment = "sandbox" => result = "OPEN"
                 /\ order = [state |-> "paid", rule |-> rule, version |-> 1,
                             result |-> result]
    /\ request = [r \in Requests |-> NoRequest]
    /\ adj = [a \in Adjustments |-> NoAdjustment]
    /\ page = NoPage

RaiseAccount(n) == account' = [account EXCEPT !.version = @ + n]
Fresh == CHOOSE i \in Items : item[i].status = "none"
HasFresh == \E i \in Items : item[i].status = "none"

------------------------------------------------------------------------------
(* The account, the month and the rules.                                   *)

\* A snapshot or a ledger entry of the bank.
BankFact(cash) ==
    /\ account.version < MaxAccount /\ account.linked /\ cash # account.cash
    /\ account' = [account EXCEPT !.cash = cash, !.version = @ + 1]
    /\ UNCHANGED <<environment, month, period, item, orderVars, adj, page>>

MonthEnds ==
    /\ month = "running" /\ month' = "over"
    /\ UNCHANGED <<environment, account, period, item, orderVars, adj, page>>

\* revokeAccount: the periods' versions, then the account.
Revoke ==
    /\ account.version < MaxAccount /\ account.linked
    /\ account' = [account EXCEPT !.linked = FALSE, !.version = @ + 1]
    /\ period' = [period EXCEPT
           !.version = IF period.status = "none" THEN @ ELSE @ + 1]
    /\ UNCHANGED <<environment, month, item, orderVars, adj, page>>

\* reauthorizeDemoAccount; a bank account needs its bank.
Reauthorize ==
    /\ ~account.linked /\ environment = "simulation"
    /\ account' = [account EXCEPT !.linked = TRUE, !.version = @ + 1]
    /\ UNCHANGED <<environment, month, period, item, orderVars, adj, page>>

\* PUT /api/merchant/catalog/:id/rule, once.
ChangeRule(rule) ==
    /\ order.state # "none" /\ order.version = 1
    /\ order' = [order EXCEPT !.rule = rule, !.version = 2]
    /\ UNCHANGED <<environment, account, month, period, item, request, adj,
                   page>>

------------------------------------------------------------------------------
(* The period.                                                             *)

\* The page's versions are those of the rows.
ReadIsCurrent == page.at # "away" /\ page.read = Versions

\* createBudgetPeriod
CreatePeriod(target) ==
    /\ period.status = "none" /\ account.linked
    /\ period' = [status |-> "draft", version |-> 1, target |-> target]
    /\ UNCHANGED <<environment, account, month, item, orderVars, adj, page>>

\* activateBudgetPeriod, from the page of the period, which shows its answer.
Activate ==
    /\ ReadIsCurrent /\ account.linked
    /\ period.status = "draft" /\ month = "running"
    /\ period' = [period EXCEPT !.status = "active", !.version = @ + 1]
    /\ page' = [NoPage EXCEPT !.at = "open", !.read =
           [Versions EXCEPT !.period = @ + 1]]
    /\ UNCHANGED <<environment, account, month, item, orderVars, adj>>

\* Fault variant of Changeable: the authorisation is not looked at.
ChangeableUnlinked == period.status \in {"draft", "active"}

\* accountThenPeriod, open: the account is authorised, the period not closed.
Changeable == account.linked /\ period.status \in {"draft", "active"}

\* changeSavingsTarget: the period's version only, nothing if it is the same.
ChangeTarget(target) ==
    /\ page.at = "open" /\ page.read.period = period.version
    /\ Changeable /\ period.version < MaxPeriod /\ target # period.target
    /\ period' = [period EXCEPT !.target = target, !.version = @ + 1]
    /\ page' = NoPage
    /\ UNCHANGED <<environment, account, month, item, orderVars, adj>>

\* What keeps a month from being archived.
NothingOpen ==
    /\ \A r \in Requests : ~Running(r)
    /\ \A a \in Adjustments :
           adj[a].state \notin {"proposed", "executing", "pending_review"}

\* POST /budget-periods/:id/closures: the account may be revoked.
Close ==
    /\ page.at = "open" /\ page.read.period = period.version
    /\ period.status = "active" /\ month = "over"
    /\ NothingOpen
    /\ period' = [period EXCEPT !.status = "closed", !.version = @ + 1]
    /\ page' = NoPage
    /\ UNCHANGED <<environment, account, month, item, orderVars, adj>>

------------------------------------------------------------------------------
(* The items and the page that edits them.                                 *)

\* GET /budget-periods/:id, by any page that then works with its versions.
OpenPage ==
    /\ page.at = "away" /\ period.status # "none"
    /\ page' = [NoPage EXCEPT !.at = "open", !.read = Versions]
    /\ UNCHANGED <<environment, account, month, period, item, orderVars, adj>>

LeavePage ==
    /\ page.at = "open" /\ page' = NoPage
    /\ UNCHANGED <<environment, account, month, period, item, orderVars, adj>>

\* A new item, or a planned one with another amount or cancelled.
Changes ==
    {[item |-> i, to |-> to] : i \in {j \in Items : item[j].status = "planned"},
         to \in {[Planned("adjustable", n) EXCEPT !.status = s] :
                     n \in Amounts, s \in {"planned", "cancelled"}}}
    \cup {[item |-> Fresh, to |-> Planned("adjustable", n)] :
              n \in IF HasFresh THEN Amounts ELSE {}}

With(change) == [Plan EXCEPT ![change.item] =
    IF change.to.status = "planned" THEN change.to.amount ELSE 0]

\* showPreview and showCancel: the preview has the versions the page read.
\* previewBudgetItemChange, previewBudgetItemImpact
ShowChange(change) ==
    /\ page.at = "open" /\ ReadIsCurrent
    /\ Changeable /\ period.version < MaxPeriod
    /\ page' = [page EXCEPT !.at = "shown", !.change = change,
                            !.after = Forecast(With(change), 0)]
    /\ UNCHANGED <<environment, account, month, period, item, orderVars, adj>>

\* Fault variant of Unchanged: only the period's version is compared.
PeriodUnchanged == page.read.period = period.version

\* The versions a write names are those of the rows it has locked.
Unchanged == page.read = Versions

\* applyBudgetItemChange, cancelBudgetItem
Save ==
    /\ page.at = "shown" /\ Changeable /\ Unchanged
    /\ item' = [item EXCEPT ![page.change.item] = page.change.to]
    /\ period' = [period EXCEPT !.version = @ + 1]
    /\ page' = NoPage
    /\ UNCHANGED <<environment, account, month, orderVars, adj>>

\* The server refuses; the page keeps what it read.
SaveRefused ==
    /\ page.at = "shown" /\ ~(Changeable /\ Unchanged)
    /\ page' = [NoPage EXCEPT !.at = "open", !.read = page.read]
    /\ UNCHANGED <<environment, account, month, period, item, orderVars, adj>>

------------------------------------------------------------------------------
(* The adjustment for an unexpected expense.                               *)

Candidates == {i \in Items : item[i].status = "planned"
                             /\ item[i].priority = "adjustable"}

\* Keep the plan, cancel one item or all of them, or cancel the order.
Options ==
    {NoOption} \cup {[cancel |-> {i}, order |-> FALSE] : i \in Candidates}
    \cup (IF Cardinality(Candidates) > 1
          THEN {[cancel |-> Candidates, order |-> FALSE]} ELSE {})
    \cup (IF Cancellable THEN {[cancel |-> {}, order |-> TRUE]} ELSE {})

\* createBudgetAdjustment up to its INSERT: no row is locked, and the last
\* of its forecasts still found the versions of the page.
Assess(a, amount) ==
    /\ adj[a].state = "none"
    /\ page.at = "open" /\ ReadIsCurrent /\ account.linked
    /\ period.status = "active" /\ month = "running"
    /\ adj' = [adj EXCEPT ![a] =
           [NoAdjustment EXCEPT !.state = "assessed", !.basis = Versions,
                !.amount = amount, !.options = Options, !.rule = order.version]]
    /\ UNCHANGED <<environment, account, month, period, item, orderVars, page>>

\* The INSERT: the period may have changed meanwhile, even closed.
Propose(a) ==
    /\ adj[a].state = "assessed"
    /\ adj' = [adj EXCEPT ![a].state = "proposed"]
    /\ UNCHANGED <<environment, account, month, period, item, orderVars, page>>

\* The server stops before the commit.
AbortAssessment(a) ==
    /\ adj[a].state = "assessed"
    /\ adj' = [adj EXCEPT ![a] = NoAdjustment]
    /\ UNCHANGED <<environment, account, month, period, item, orderVars, page>>

\* Fifteen minutes have passed; no row changes.
ProposalExpires(a) ==
    /\ adj[a].state = "proposed" /\ ~adj[a].expired
    /\ adj' = [adj EXCEPT ![a] =
           [NoAdjustment EXCEPT !.state = "proposed", !.expired = TRUE]]
    /\ UNCHANGED <<environment, account, month, period, item, orderVars, page>>

Without(items) == [i \in Items |-> IF i \in items THEN 0 ELSE Plan[i]]

\* Fault variant of ExtraOf: the expected refund is spent already.
ExtraAfterRefund(a, o) ==
    adj[a].amount - IF o.order /\ Batches(order.rule) # << >> THEN Price ELSE 0

\* What the forecast of an option adds to the plan: the expense alone.
ExtraOf(a, o) == adj[a].amount

\* Fault variant of ItemsAfter: a failure between two writes is kept.
ItemsAfterLoss(a, o, new) ==
    [item EXCEPT ![new] = Planned("required", adj[a].amount)]

\* cancelBudgetItem for each item of the option, applyBudgetItemChange.
ItemsAfter(a, o, new) ==
    [i \in Items |->
        CASE i = new -> Planned("required", adj[a].amount)
          [] i \in o.cancel /\ i # new -> [item[i] EXCEPT !.status = "cancelled"]
          [] OTHER -> item[i]]

\* Status of the request and of the adjustment by the rule's decision.
RequestFor(rule) ==
    CASE Decision(rule) = "approve" ->
             [state |-> "refund_processing", left |-> Batches(rule)]
      [] Decision(rule) = "delay" -> [NoRequest EXCEPT !.state = "delayed"]
      [] Decision(rule) = "reject" -> [NoRequest EXCEPT !.state = "rejected"]
StateFor(o, rule) ==
    CASE o.order /\ Decision(rule) = "approve" -> "executing"
      [] o.order /\ Decision(rule) = "delay" -> "pending_review"
      [] OTHER -> "complete"

\* confirmBudgetAdjustment: the proposal stands, the option is one of its own
\* and still allowed, the order and its rule are as proposed.  Confirmed and
\* executing are states within the transaction.  A delayed request leaves the
\* order as it is.
Confirm(a, o) ==
    LET refund == o.order /\ Decision(order.rule) = "approve" IN
    /\ adj[a].state = "proposed" /\ ~adj[a].expired
    /\ o \in adj[a].options /\ HasFresh
    /\ account.linked /\ adj[a].basis = Versions
    /\ Allowed(Forecast(Without(o.cancel), ExtraOf(a, o)))
    /\ o.order => Cancellable /\ order.version = adj[a].rule
    /\ item' = ItemsAfter(a, o, Fresh)
    /\ period' = [period EXCEPT !.version = @ + Cardinality(o.cancel) + 1]
    /\ request' = IF o.order THEN [request EXCEPT ![a] = RequestFor(order.rule)]
                  ELSE request
    /\ order' = IF refund THEN [order EXCEPT !.state = "cancelling"] ELSE order
    /\ RaiseAccount(IF refund THEN 1 ELSE 0)
    /\ adj' = [adj EXCEPT ![a] = [NoAdjustment EXCEPT
           !.state = StateFor(o, order.rule), !.chosen = o, !.item = Fresh]]
    /\ UNCHANGED <<environment, month, page>>

------------------------------------------------------------------------------
(* The cancelled order.                                                    *)

OrderFree == Cancellable

\* confirmAftercare, on the page of the order.
CancelOrder ==
    /\ request[None].state = "none" /\ OrderFree
    /\ request' = [request EXCEPT ![None] = RequestFor(order.rule)]
    /\ order' = [order EXCEPT !.state =
           IF Decision(order.rule) = "reject" THEN @ ELSE "cancelling"]
    /\ RaiseAccount(1)
    /\ UNCHANGED <<environment, month, period, item, adj, page>>

\* decideMerchantConsumerCancellation
Decide(r, approve) ==
    /\ request[r].state = "delayed"
    /\ request' = [request EXCEPT ![r].state =
           IF approve THEN "approved" ELSE "rejected"]
    /\ order' = [order EXCEPT !.state = IF approve THEN "cancelling" ELSE "paid"]
    /\ RaiseAccount(1)
    /\ UNCHANGED <<environment, month, period, item, adj, page>>

\* scheduleMerchantConsumerRefund, by the rule the request was made under.
ScheduleRefund(r) ==
    /\ request[r].state = "approved"
    /\ request' = [request EXCEPT ![r] =
           [state |-> "refund_processing", left |-> Batches("delay")]]
    /\ UNCHANGED <<environment, account, month, period, item, order, adj, page>>

\* Fault variant of Completes: one batch is compared with the whole refund.
CompletesInOneBatch(r) ==
    r # None /\ environment = "simulation" /\ Head(request[r].left) >= Price - Fee

\* The simulated refund that ends the last request of an adjustment ends it;
\* the sandbox's does not look at adjustments.
Completes(r) ==
    r # None /\ environment = "simulation" /\ Len(request[r].left) = 1

\* processRefundBatch finds the request as it was confirmed and its result is
\* a success, or the sandbox's refund is booked.  The simulation posts the
\* batch to the account, the sandbox leaves that to the bank.
RefundBatch(r) ==
    LET last == Len(request[r].left) = 1 IN
    /\ request[r].state = "refund_processing"
    /\ environment = "simulation" => order.result = "SUCCESS"
    /\ request' = [request EXCEPT ![r] =
           [state |-> IF last THEN "completed" ELSE @.state,
            left |-> Tail(@.left)]]
    /\ order' = [order EXCEPT !.state = IF last THEN "cancelled" ELSE @]
    /\ account' = [account EXCEPT !.version = @ + 1, !.cash = @ +
           IF environment = "simulation" THEN Head(request[r].left) ELSE 0]
    /\ adj' = IF Completes(r) THEN [adj EXCEPT ![r].state = "complete"] ELSE adj
    /\ UNCHANGED <<environment, month, period, item, page>>

\* processRefundBatch without a success, or for another batch of a request
\* that has become a question: the job ends, the request waits for a person,
\* and so does the adjustment.
RefundQuestion(r) ==
    /\ environment = "simulation" /\ request[r].left # << >>
    /\ order.result = "OPEN" \/ request[r].state # "refund_processing"
    /\ request' = [request EXCEPT ![r] =
           [state |-> "pending_review", left |-> Tail(@.left)]]
    /\ UNCHANGED <<environment, account, month, period, item, order, adj, page>>

------------------------------------------------------------------------------
Next ==
    \/ \E cash \in CashLevels : BankFact(cash)
    \/ MonthEnds \/ Revoke \/ Reauthorize
    \/ \E rule \in Rules : ChangeRule(rule)
    \/ \E target \in Targets : CreatePeriod(target) \/ ChangeTarget(target)
    \/ Activate \/ Close
    \/ OpenPage \/ LeavePage \/ Save \/ SaveRefused
    \/ \E change \in Changes : ShowChange(change)
    \/ \E a \in Adjustments :
           \/ \E amount \in Expenses : Assess(a, amount)
           \/ Propose(a) \/ AbortAssessment(a) \/ ProposalExpires(a)
           \/ \E o \in adj[a].options : Confirm(a, o)
    \/ CancelOrder
    \/ \E r \in Requests :
           \/ \E approve \in BOOLEAN : Decide(r, approve)
           \/ ScheduleRefund(r) \/ RefundBatch(r) \/ RefundQuestion(r)

\* The worker takes every job of the simulation again until it is done
\* (JobLease), with whichever result; a sandbox refund may need a person.
Fairness ==
    \A r \in Requests :
        WF_vars(environment = "simulation"
                  /\ (RefundBatch(r) \/ RefundQuestion(r)))

Spec == Init /\ [][Next]_vars /\ Fairness

------------------------------------------------------------------------------
(* Properties.                                                             *)

Confirmed == {"executing", "pending_review", "complete"}
ItemStates == {"none", "planned", "committed", "cancelled"}
RequestStates == {"none", "delayed", "approved", "rejected",
                  "refund_processing", "pending_review", "completed"}

TypeOK ==
    /\ environment \in {"simulation", "sandbox"}
    /\ account \in [linked : BOOLEAN, version : Nat, cash : Nat]
    /\ month \in {"running", "over"}
    /\ period \in [status : {"none", "draft", "active", "closed"},
                   version : Nat, target : Nat]
    /\ item \in [Items -> [status : ItemStates, amount : Nat,
                           priority : {"adjustable", "required"}]]
    /\ order \in [state : {"none", "paid", "cancelling", "cancelled"},
                  rule : AllRules, version : 0 .. 2, result : Results]
    /\ \A r \in Requests : request[r].state \in RequestStates
    /\ \A a \in Adjustments :
           adj[a].state \in Confirmed \cup {"none", "assessed", "proposed"}
    /\ page.at \in {"away", "open", "shown"}

\* A confirmed adjustment has all its effects, an unconfirmed one none.
AdjustmentWhole ==
    \A a \in Adjustments :
        /\ adj[a].state \in Confirmed =>
              /\ item[adj[a].item].status # "none"
              /\ \A i \in adj[a].chosen.cancel : item[i].status = "cancelled"
              /\ adj[a].chosen.order <=> request[a].state # "none"
        /\ adj[a].state \notin Confirmed =>
              adj[a].item = None /\ request[a] = NoRequest

\* No adjustment of an archived month is still to be carried out.  Its order
\* can be cancelled later, on the order's own page.
ClosedIsSettled ==
    period.status = "closed" => \A a \in Adjustments :
        ~Running(a) /\ adj[a].state \notin {"executing", "pending_review"}

Total(left) == IF left = << >> THEN 0
               ELSE Head(left) + (IF Len(left) = 2 THEN left[2] ELSE 0)

\* An order is cancelled once: never by the order's page and an adjustment,
\* or by two adjustments, at a time (cancellation_requests_active_order_idx),
\* and a cancelled order is not cancelled again.
OrderCancelledOnce ==
    /\ Cardinality({r \in Requests : Running(r)}) <= 1
    /\ Cardinality({r \in Requests :
           request[r].state \in {"refund_processing", "pending_review",
                                 "completed"}}) <= 1
    /\ order.state = "cancelled" => \A r \in Requests : ~Running(r)
    /\ \A r \in Requests : Total(request[r].left) <= Price

\* Adjustments are all or nothing although they are several writes of items,
\* a period, an order and a request (budget-adjustments.ts), and an archived
\* month (routes/budget-periods.ts) leaves no adopted adjustment behind, also
\* when a proposal is inserted while the month is being archived; nor do they
\* cancel an order twice.
PlanSound == TypeOK /\ AdjustmentWhole /\ ClosedIsSettled /\ OrderCancelledOnce

\* Item/edit.vue: a change is saved with the effect that was shown before.
\* Whatever happens in between, the forecast after the write is the one of
\* the preview, unless the month has ended.
EditedAsShown ==
    [][(page.at = "shown" /\ item' # item /\ page' = NoPage
          /\ month = "running")
       => Forecast(Plan, 0)' = page.after]_vars

\* An adjustment is adopted only if the month still keeps its target with
\* the unexpected expense and without the refund that is only expected.
AdjustmentFits ==
    [][\A a \in Adjustments :
           adj[a].state \notin Confirmed /\ adj'[a].state \in Confirmed
             => Left(Plan, 0)' >= 0]_vars

\* The plan of an archived month or of a revoked account stays: no item, no
\* target, no adjustment, however old the page or the proposal is.
FrozenPlanStays ==
    [][(period.status = "closed" \/ ~account.linked)
       => /\ item' = item /\ period'.target = period.target
          /\ \A a \in Adjustments : adj[a].state = "proposed"
                 => adj'[a].state = "proposed"]_vars

\* The refund of a simulated order (worker-runtime.ts) brings its adjustment
\* to an end, in one batch or in two, also when the merchant has decided it
\* meanwhile.  If the result is open, the request comes to wait for a person,
\* with no job left to try, and the adjustment must not pass for complete.
AdjustmentEnds ==
    \A a \in Adjustments :
        (request[a].state = "refund_processing" /\ environment = "simulation")
            ~> IF order.result = "SUCCESS" THEN adj[a].state = "complete"
               ELSE /\ request[a] = [state |-> "pending_review", left |-> << >>]
                    /\ adj[a].state \in {"executing", "pending_review"}

\* routes/budget-periods.ts: "处理完成后才能归档" - what blocks the archive of
\* a month can be dealt with.  An adjustment whose cancellation has ended,
\* by a refund or by the merchant's rejection, is complete.
EndedAdjustmentIsComplete ==
    \A a \in Adjustments :
        request[a].state \in {"completed", "rejected"}
            => adj[a].state = "complete"
==============================================================================
