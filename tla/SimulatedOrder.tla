---------------------------- MODULE SimulatedOrder ----------------------------
(***************************************************************************)
(* One consumer order in simulation mode, from its confirmation to its     *)
(* last refund: the payment handoff (domain/consumer-orders.ts), aftercare *)
(* previews and their confirmation (domain/consumer-aftercare.ts), the     *)
(* merchant's decision and refund plan (domain/merchant-consumer.ts), the  *)
(* worker's transactions (domain/worker-runtime.ts), the money events they *)
(* post (domain/verified-money-event.ts) and the archival of the budget    *)
(* period (routes/budget-periods.ts).                                      *)
(*                                                                         *)
(* An action is one database transaction.  An operation that is "open" has *)
(* its job in the queue; JobLease shows that the transaction that settles  *)
(* it commits once, so here that transaction is one step.                  *)
(*                                                                         *)
(* A cancellation request is named by the preview it was confirmed from    *)
(* and keeps the rule that preview showed.                                 *)
(***************************************************************************)
EXTENDS Naturals

CONSTANTS
    Previews,        \* aftercare previews the consumer may ask for
    Amount,          \* orders.amount_minor
    Fee,             \* the fee of fee_80 and two_batches
    MaxRuleVersion   \* bound: changes of the rule by the merchant

ASSUME OrderAssumption ==
    /\ Amount \in Nat \ {0}
    /\ Fee \in Nat \ {0}
    /\ MaxRuleVersion \in Nat \ {0}

VARIABLES
    modes,        \* simulation outcomes copied into the order
    order,        \* status, payment_status and refunded_minor of the order
    item,         \* budget_items.status
    posted,       \* a payment_posted event and its ledger entry exist
    refundPosted, \* sum of the refund_posted events
    rule,         \* rule and version of the catalogue item
    preview,      \* consumer_aftercare_previews
    cancel,       \* cancellation_requests.status
    batch,        \* refund_batches.status by number
    op,           \* operations.state: payment and close
    reviewOp,     \* operations.state of merchant_cancellation_review
    refundOp,     \* operations.state by batch
    followUp,     \* manual task on a delayed request
    recheck,      \* a refund_recheck task exists, by batch
    period,       \* status of the budget period, and whether its month ended
    linked        \* the account is linked

moneyVars == <<order, item, posted, refundPosted>>
requestVars == <<cancel, batch, reviewOp, refundOp, followUp, recheck>>
scopeVars == <<modes, rule, period, linked>>
vars == <<moneyVars, requestVars, scopeVars, preview, op>>

Outcomes == {"SUCCESS", "PENDING", "UNKNOWN"}
Rules == {"full_refund", "fee_80", "two_batches", "reject", "delay"}
Numbers == {1, 2}

------------------------------------------------------------------------------
(* The rules.                                                              *)

TakesFee(r) == r \in {"fee_80", "two_batches"}

\* Registering or applying such a rule needs an amount above the fee.
RuleApplies(r) == TakesFee(r) => Amount > Fee

FeeOf(r) == IF TakesFee(r) THEN Fee ELSE IF r = "reject" THEN Amount ELSE 0

RefundOf(r) == Amount - FeeOf(r)

BatchNumbers(r) ==
    IF r = "two_batches" THEN {1, 2} ELSE IF r = "reject" THEN {} ELSE {1}

BatchAmount(r, n) ==
    LET half == RefundOf(r) \div 2
    IN IF r # "two_batches" THEN RefundOf(r)
       ELSE IF n = 1 THEN half ELSE RefundOf(r) - half

\* The plan of one request: what its batches hold after batch n succeeded.
Returned(p, b) ==
    LET part(n) == IF b[n] = "succeeded"
                   THEN BatchAmount(preview[p].rule, n) ELSE 0
    IN part(1) + part(2)

Active(s) == s \in {"approved", "delayed", "refund_processing",
                    "pending_review"}

------------------------------------------------------------------------------
NoPreview == [state |-> "none", action |-> "none", status |-> "none",
              payment |-> "none", rule |-> "none", version |-> 0]

\* The order was just confirmed: its price is committed in the budget.
Init ==
    /\ modes \in [pay : Outcomes, close : Outcomes, refund : Outcomes]
    /\ order = [status |-> "created", payment |-> "pending", refunded |-> 0]
    /\ item = "committed"
    /\ posted = FALSE
    /\ refundPosted = 0
    /\ rule \in {[name |-> r, version |-> 1] : r \in {x \in Rules :
                                                        RuleApplies(x)}}
    /\ preview = [p \in Previews |-> NoPreview]
    /\ cancel = [p \in Previews |-> "none"]
    /\ batch = [p \in Previews |-> [n \in Numbers |-> "none"]]
    /\ op = [pay |-> "none", close |-> "none"]
    /\ reviewOp = [p \in Previews |-> "none"]
    /\ refundOp = [p \in Previews |-> [n \in Numbers |-> "none"]]
    /\ followUp = [p \in Previews |-> "none"]
    /\ recheck = [p \in Previews |-> [n \in Numbers |-> FALSE]]
    /\ period = [status |-> "active", ended |-> FALSE]
    /\ linked = TRUE

------------------------------------------------------------------------------
(* Payment.                                                                *)

\* The first handoff; a later one returns the same operation.
PrepareHandoff ==
    /\ linked
    /\ order.payment = "pending"
    /\ op.pay = "none"
    /\ op' = [op EXCEPT !.pay = "open"]
    /\ UNCHANGED <<moneyVars, requestVars, scopeVars, preview>>

\* Fault variant: the payment is applied to whatever the order has become.
ProcessPaymentLate ==
    /\ op.pay = "open"
    /\ order' = [order EXCEPT !.status = "fulfilling", !.payment = "paid"]
    /\ posted' = TRUE
    /\ item' = "settled"
    /\ op' = [op EXCEPT !.pay = "succeeded"]
    /\ UNCHANGED <<refundPosted, requestVars, scopeVars, preview>>

\* processPayment: a closed order is skipped; otherwise the mode decides.
\* payment_posted settles a committed item in the same transaction.
ProcessPayment ==
    /\ op.pay = "open"
    /\ \/ /\ order.payment # "pending"
          /\ op' = [op EXCEPT !.pay = "failed"]
          /\ UNCHANGED moneyVars
       \/ /\ order.payment = "pending"
          /\ modes.pay = "SUCCESS"
          /\ order' = [order EXCEPT !.status = "fulfilling",
                                    !.payment = "paid"]
          /\ ~posted
          /\ posted' = TRUE
          /\ item' = IF item = "committed" THEN "settled" ELSE item
          /\ op' = [op EXCEPT !.pay = "succeeded"]
          /\ UNCHANGED refundPosted
       \/ /\ order.payment = "pending"
          /\ modes.pay = "PENDING"
          /\ op' = [op EXCEPT !.pay = "pending_review"]
          /\ UNCHANGED moneyVars
       \/ /\ order.payment = "pending"
          /\ modes.pay = "UNKNOWN"
          /\ order' = [order EXCEPT !.payment = "unknown"]
          /\ op' = [op EXCEPT !.pay = "unknown"]
          /\ UNCHANGED <<item, posted, refundPosted>>
    /\ UNCHANGED <<requestVars, scopeVars, preview>>

------------------------------------------------------------------------------
(* Previews and their confirmation.                                        *)

CreatePreview(p) ==
    /\ preview[p].state = "none"
    /\ order.payment # "closed"
    /\ order.status # "cancelled"
    /\ \E action \in {"close", "cancel"} :
          /\ action = "close" => order.payment \in {"pending", "unknown"}
          /\ action = "cancel" => order.payment = "paid" /\ RuleApplies(rule.name)
          /\ preview' = [preview EXCEPT ![p] =
                [state |-> "proposed", action |-> action,
                 status |-> order.status, payment |-> order.payment,
                 rule |-> rule.name, version |-> rule.version]]
    /\ UNCHANGED <<moneyVars, requestVars, scopeVars, op>>

\* Fifteen minutes pass.  The row keeps its state, because the transaction
\* that would mark it expired throws; expires_at is what counts.
PreviewExpires(p) ==
    /\ preview[p].state = "proposed"
    /\ preview' = [preview EXCEPT ![p].state = "expired"]
    /\ UNCHANGED <<moneyVars, requestVars, scopeVars, op>>

\* What was previewed still holds.
ScopeUnchanged(p) ==
    /\ order.status = preview[p].status
    /\ order.payment = preview[p].payment
    /\ rule = [name |-> preview[p].rule, version |-> preview[p].version]

MayConfirm(p, action) ==
    /\ preview[p].state = "proposed"
    /\ preview[p].action = action
    /\ ScopeUnchanged(p)

Accept(p) == preview' = [preview EXCEPT ![p].state = "accepted"]

\* An earlier close operation of the order is returned whatever became of it.
ConfirmClose(p) ==
    /\ MayConfirm(p, "close")
    /\ order.payment \in {"pending", "unknown"}
    /\ op' = [op EXCEPT !.close = IF @ = "none" THEN "open" ELSE @]
    /\ Accept(p)
    /\ UNCHANGED <<moneyVars, requestVars, scopeVars>>

MayCancel(p) ==
    /\ MayConfirm(p, "cancel")
    /\ order.payment = "paid"
    /\ order.refunded = 0
    /\ \A q \in Previews : ~Active(cancel[q])

\* The batches of a plan, each with its operation and job; the table takes
\* positive amounts only.
PlanRefund(p, r) ==
    /\ \A n \in BatchNumbers(r) : BatchAmount(r, n) > 0
    /\ batch' = [batch EXCEPT ![p] =
          [n \in Numbers |-> IF n \in BatchNumbers(r) THEN "pending"
                             ELSE "none"]]
    /\ refundOp' = [refundOp EXCEPT ![p] =
          [n \in Numbers |-> IF n \in BatchNumbers(r) THEN "open"
                             ELSE "none"]]

\* The rule approves and something is left to refund.
ConfirmApproved(p) ==
    /\ MayCancel(p)
    /\ preview[p].rule \in {"full_refund", "fee_80", "two_batches"}
    /\ RefundOf(preview[p].rule) > 0
    /\ PlanRefund(p, preview[p].rule)
    /\ cancel' = [cancel EXCEPT ![p] = "refund_processing"]
    /\ order' = [order EXCEPT !.status = "cancellation_processing"]
    /\ Accept(p)
    /\ UNCHANGED <<item, posted, refundPosted, reviewOp, followUp, recheck,
                   scopeVars, op>>

ConfirmRejected(p) ==
    /\ MayCancel(p)
    /\ preview[p].rule = "reject"
    /\ cancel' = [cancel EXCEPT ![p] = "rejected"]
    /\ reviewOp' = [reviewOp EXCEPT ![p] = "succeeded"]
    /\ order' = [order EXCEPT !.status = "cancellation_rejected"]
    /\ Accept(p)
    /\ UNCHANGED <<item, posted, refundPosted, batch, refundOp, followUp,
                   recheck, scopeVars, op>>

ConfirmDelayed(p) ==
    /\ MayCancel(p)
    /\ preview[p].rule = "delay"
    /\ cancel' = [cancel EXCEPT ![p] = "delayed"]
    /\ reviewOp' = [reviewOp EXCEPT ![p] = "pending_review"]
    /\ order' = [order EXCEPT !.status = "cancellation_processing"]
    /\ followUp' = [followUp EXCEPT ![p] = "open"]
    /\ Accept(p)
    /\ UNCHANGED <<item, posted, refundPosted, batch, refundOp, recheck,
                   scopeVars, op>>

------------------------------------------------------------------------------
(* Close.                                                                  *)

\* Fault variant: the budget item is left as it is.
ProcessCloseOrderOnly ==
    /\ op.close = "open"
    /\ order.payment \in {"pending", "unknown"}
    /\ modes.close = "SUCCESS"
    /\ order' = [order EXCEPT !.status = "cancelled", !.payment = "closed"]
    /\ op' = [op EXCEPT !.close = "succeeded"]
    /\ UNCHANGED <<item, posted, refundPosted, requestVars, scopeVars, preview>>

\* processClose and finishClosedOrderBudget, which refuses when a payment was
\* posted and, by a trigger, when the period is closed.
ProcessClose ==
    /\ op.close = "open"
    /\ \/ /\ order.payment \notin {"pending", "unknown"}
          /\ op' = [op EXCEPT !.close = "failed"]
          /\ UNCHANGED moneyVars
       \/ /\ order.payment \in {"pending", "unknown"}
          /\ modes.close # "SUCCESS"
          /\ op' = [op EXCEPT !.close = IF modes.close = "PENDING"
                                        THEN "pending_review" ELSE "unknown"]
          /\ UNCHANGED moneyVars
       \/ /\ order.payment \in {"pending", "unknown"}
          /\ modes.close = "SUCCESS"
          /\ ~posted /\ item # "settled"
          /\ item = "committed" => period.status = "active"
          /\ order' = [order EXCEPT !.status = "cancelled",
                                    !.payment = "closed"]
          /\ item' = IF item = "committed" THEN "cancelled" ELSE item
          /\ op' = [op EXCEPT !.close = "succeeded"]
          /\ UNCHANGED <<posted, refundPosted>>
    /\ UNCHANGED <<requestVars, scopeVars, preview>>

------------------------------------------------------------------------------
(* Refunds.                                                                *)

\* The merchant decides a delayed request.
Decide(p) ==
    /\ cancel[p] = "delayed"
    /\ \E approve \in BOOLEAN :
          /\ cancel' = [cancel EXCEPT ![p] =
                            IF approve THEN "approved" ELSE "rejected"]
          /\ order' = [order EXCEPT !.status =
                            IF approve THEN "cancellation_processing"
                            ELSE "cancellation_rejected"]
    /\ reviewOp' = [reviewOp EXCEPT ![p] = "succeeded"]
    /\ followUp' = [followUp EXCEPT ![p] = "resolved"]
    /\ UNCHANGED <<item, posted, refundPosted, batch, refundOp, recheck,
                   scopeVars, preview, op>>

\* Fault variant: existing batches are not looked for.
ScheduleRefundAgain(p) ==
    /\ cancel[p] \in {"approved", "refund_processing", "completed"}
    /\ PlanRefund(p, preview[p].rule)
    /\ cancel' = [cancel EXCEPT ![p] = "refund_processing"]
    /\ UNCHANGED <<moneyVars, reviewOp, followUp, recheck, scopeVars, preview,
                   op>>

\* The merchant schedules the refund of an approved request, once.
ScheduleRefund(p) ==
    /\ \A n \in Numbers : batch[p][n] = "none"
    /\ cancel[p] = "approved"
    /\ order.payment = "paid"
    /\ BatchNumbers(preview[p].rule) # {}
    /\ order.refunded + RefundOf(preview[p].rule) <= Amount
    /\ PlanRefund(p, preview[p].rule)
    /\ cancel' = [cancel EXCEPT ![p] = "refund_processing"]
    /\ UNCHANGED <<moneyVars, reviewOp, followUp, recheck, scopeVars, preview,
                   op>>

\* Fault variant: no manual task is made.
RefuseBatchQuietly(p, n) ==
    /\ cancel[p] \notin {"approved", "refund_processing"} \/ order.payment # "paid"
    /\ batch' = [batch EXCEPT ![p][n] = "failed"]
    /\ cancel' = [cancel EXCEPT ![p] = "pending_review"]
    /\ refundOp' = [refundOp EXCEPT ![p][n] = "pending_review"]
    /\ UNCHANGED <<moneyVars, reviewOp, followUp, recheck>>

\* The request left the states in which a batch may be paid, because its other
\* batch has no clear result.
RefuseBatch(p, n) ==
    /\ cancel[p] \notin {"approved", "refund_processing"} \/ order.payment # "paid"
    /\ batch' = [batch EXCEPT ![p][n] = "failed"]
    /\ cancel' = [cancel EXCEPT ![p] = "pending_review"]
    /\ recheck' = [recheck EXCEPT ![p][n] = TRUE]
    /\ refundOp' = [refundOp EXCEPT ![p][n] = "pending_review"]
    /\ UNCHANGED <<moneyVars, reviewOp, followUp>>

\* The mode gives no clear result.
QuestionBatch(p, n) ==
    /\ cancel[p] \in {"approved", "refund_processing"}
    /\ order.payment = "paid"
    /\ modes.refund # "SUCCESS"
    /\ LET s == IF modes.refund = "PENDING" THEN "pending_review" ELSE "unknown"
       IN /\ batch' = [batch EXCEPT ![p][n] = s]
          /\ refundOp' = [refundOp EXCEPT ![p][n] = s]
    /\ cancel' = [cancel EXCEPT ![p] = "pending_review"]
    /\ recheck' = [recheck EXCEPT ![p][n] = TRUE]
    /\ UNCHANGED <<moneyVars, reviewOp, followUp>>

\* Fault variant: the request is measured against the price instead of the
\* accepted refund.
CompletedAtFullPrice(p, total) == total = Amount

Completed(p, total) == total = RefundOf(preview[p].rule)

\* The refund is made, its ledger entry written and its events posted.
PayBatch(p, n) ==
    /\ cancel[p] \in {"approved", "refund_processing"}
    /\ order.payment = "paid"
    /\ modes.refund = "SUCCESS"
    /\ LET amount == BatchAmount(preview[p].rule, n)
           paid == [batch[p] EXCEPT ![n] = "succeeded"]
           total == Returned(p, paid)
       IN /\ order.refunded + amount <= Amount
          /\ total <= RefundOf(preview[p].rule)
          /\ refundPosted + amount <= Amount
          /\ batch' = [batch EXCEPT ![p] = paid]
          /\ cancel' = [cancel EXCEPT ![p] =
                IF Completed(p, total) THEN "completed"
                ELSE "refund_processing"]
          /\ order' = [order EXCEPT !.refunded = @ + amount,
                !.status = IF Completed(p, total) THEN "cancelled"
                           ELSE "cancellation_processing"]
          /\ refundPosted' = refundPosted + amount
    /\ refundOp' = [refundOp EXCEPT ![p][n] = "succeeded"]
    /\ UNCHANGED <<item, posted, reviewOp, followUp, recheck>>

ProcessRefundBatch(p, n) ==
    /\ refundOp[p][n] = "open"
    /\ RefuseBatch(p, n) \/ QuestionBatch(p, n) \/ PayBatch(p, n)
    /\ UNCHANGED <<scopeVars, preview, op>>

------------------------------------------------------------------------------
(* The catalogue, the account and the period.                              *)

ChangeRule ==
    /\ rule.version < MaxRuleVersion
    /\ \E r \in Rules :
          /\ RuleApplies(r)
          /\ rule' = [name |-> r, version |-> rule.version + 1]
    /\ UNCHANGED <<moneyVars, requestVars, modes, period, linked, preview, op>>

\* Revocation, and a new authorisation of the demo account.
ToggleAccount ==
    /\ linked' = ~linked
    /\ UNCHANGED <<moneyVars, requestVars, modes, rule, period, preview, op>>

MonthEnds ==
    /\ ~period.ended
    /\ period' = [period EXCEPT !.ended = TRUE]
    /\ UNCHANGED <<moneyVars, requestVars, modes, rule, linked, preview, op>>

Unfinished(s) == s \in {"open", "unknown", "pending_review"}

\* Fault variant: only requests are counted.
BlockedByRequest == \E p \in Previews : Active(cancel[p])

Blocked ==
    \/ order.payment \in {"pending", "unknown"}
    \/ \E p \in Previews : Active(cancel[p])
    \/ Unfinished(op.pay)
    \/ Unfinished(op.close)
    \/ \E p \in Previews : Unfinished(reviewOp[p])
    \/ \E p \in Previews, n \in Numbers : Unfinished(refundOp[p][n])

ClosePeriod ==
    /\ period.status = "active"
    /\ period.ended
    /\ ~Blocked
    /\ period' = [period EXCEPT !.status = "closed"]
    /\ UNCHANGED <<moneyVars, requestVars, modes, rule, linked, preview, op>>

------------------------------------------------------------------------------
ConsumerStep(p) ==
    \/ CreatePreview(p)
    \/ PreviewExpires(p)
    \/ ConfirmClose(p)
    \/ ConfirmApproved(p)
    \/ ConfirmRejected(p)
    \/ ConfirmDelayed(p)

MerchantStep(p) == Decide(p) \/ ScheduleRefund(p)

Next ==
    \/ PrepareHandoff
    \/ ProcessPayment
    \/ ProcessClose
    \/ \E p \in Previews : ConsumerStep(p) \/ MerchantStep(p)
    \/ \E p \in Previews, n \in Numbers : ProcessRefundBatch(p, n)
    \/ ChangeRule
    \/ ToggleAccount
    \/ MonthEnds
    \/ ClosePeriod

Spec == Init /\ [][Next]_vars

\* The worker takes every job of its queue in the end (JobLease); what people
\* do is never owed.
Fairness ==
    /\ WF_vars(ProcessPayment)
    /\ WF_vars(ProcessClose)
    /\ \A p \in Previews, n \in Numbers : WF_vars(ProcessRefundBatch(p, n))

FairSpec == Spec /\ Fairness

------------------------------------------------------------------------------
(* Properties.                                                             *)

OperationStates == {"none", "open", "succeeded", "failed", "unknown",
                    "pending_review"}

PreviewRecord ==
    [state : {"none", "proposed", "expired", "accepted"},
     action : {"none", "close", "cancel"},
     status : {"none", "created", "fulfilling", "cancellation_processing",
               "cancellation_rejected"},
     payment : {"none", "pending", "paid", "unknown"},
     rule : Rules \cup {"none"}, version : Nat]

MoneyType ==
    /\ order \in [status : {"created", "fulfilling",
                            "cancellation_processing", "cancelled",
                            "cancellation_rejected"},
                  payment : {"pending", "paid", "unknown", "closed"},
                  refunded : Nat]
    /\ item \in {"committed", "settled", "cancelled"}
    /\ posted \in BOOLEAN
    /\ refundPosted \in Nat

RequestType ==
    /\ cancel \in [Previews -> {"none", "approved", "delayed", "rejected",
                                "refund_processing", "pending_review",
                                "completed"}]
    /\ batch \in [Previews -> [Numbers -> {"none", "pending", "succeeded",
                                           "unknown", "pending_review",
                                           "failed"}]]
    /\ reviewOp \in [Previews -> OperationStates]
    /\ refundOp \in [Previews -> [Numbers -> OperationStates]]
    /\ followUp \in [Previews -> {"none", "open", "resolved"}]
    /\ recheck \in [Previews -> [Numbers -> BOOLEAN]]

ScopeType ==
    /\ modes \in [pay : Outcomes, close : Outcomes, refund : Outcomes]
    /\ rule \in [name : Rules, version : Nat]
    /\ period \in [status : {"active", "closed"}, ended : BOOLEAN]
    /\ linked \in BOOLEAN

TypeOK ==
    /\ MoneyType
    /\ RequestType
    /\ ScopeType
    /\ preview \in [Previews -> PreviewRecord]
    /\ op \in [pay : OperationStates, close : OperationStates]

\* The order, its budget item and the posted payment tell one story, in
\* whatever order the worker takes a payment and a close that race
\* (processPayment, processClose, finishClosedOrderBudget).
BudgetFollowsOrder ==
    /\ order.payment = "paid" <=> posted
    /\ posted <=> item = "settled"
    /\ order.payment = "closed" <=> item = "cancelled"

\* There is one refund plan at most, and what the order, its batches and the
\* posted events say was returned is the same sum, within what the consumer
\* accepted.
HasPlan(p) == \E n \in Numbers : batch[p][n] # "none"

RefundsAgree ==
    /\ \A p, q \in Previews : HasPlan(p) /\ HasPlan(q) => p = q
    /\ order.refunded = refundPosted
    /\ \A p \in Previews :
          HasPlan(p) =>
              /\ order.refunded = Returned(p, batch[p])
              /\ order.refunded <= RefundOf(preview[p].rule)
    /\ order.refunded > 0 => \E p \in Previews : HasPlan(p)

\* A consumer has one request under way at most, and the request that is
\* completed is exactly the one whose whole refund came back (confirmAftercare,
\* scheduleMerchantConsumerRefund, processRefundBatch).
CompletedWhenReturned ==
    \A p \in Previews :
        cancel[p] = "completed" <=>
            HasPlan(p) /\ Returned(p, batch[p]) = RefundOf(preview[p].rule)

OneRequest ==
    /\ \A p, q \in Previews : Active(cancel[p]) /\ Active(cancel[q]) => p = q
    /\ CompletedWhenReturned

\* An order is cancelled only when it was closed unpaid or fully refunded.
CancelledForAReason ==
    order.status = "cancelled" <=>
        \/ order.payment = "closed"
        \/ \E p \in Previews : cancel[p] = "completed"

\* No question is left without somebody to answer it: a delayed request has an
\* open follow-up, and each batch that was settled without being paid has its
\* recheck task.
QuestionsHaveTasks ==
    /\ \A p \in Previews : cancel[p] = "delayed" <=> followUp[p] = "open"
    /\ \A p \in Previews, n \in Numbers :
          /\ batch[p][n] \in {"unknown", "pending_review", "failed"}
             <=> recheck[p][n]
          /\ recheck[p][n] => cancel[p] = "pending_review"

\* Every request of the consumer is accounted for: its rows are well formed, one
\* is under way at most, a cancelled order has its reason, and what waits for a
\* person has a task (confirmAftercare, processRefundBatch, manual_tasks).
RequestsAccountedFor ==
    TypeOK /\ OneRequest /\ CancelledForAReason /\ QuestionsHaveTasks

\* A period is archived only after the promise to buy was kept or dropped.
ArchivedWithoutPromise ==
    period.status = "closed" => item # "committed" /\ order.payment \in {"paid", "closed"}

\* Paid and closed are final (processPayment, processClose), and money once returned is never taken back.
SettledIsFinal ==
    [][/\ order.payment \in {"paid", "closed"} => order'.payment = order.payment
       /\ order'.refunded >= order.refunded]_vars

\* When the simulated channel refunds, every request whose batches were planned
\* ends with all of them paid.
RefundsComplete ==
    \A p \in Previews :
        cancel[p] = "refund_processing" /\ modes.refund = "SUCCESS"
            ~> cancel[p] = "completed"

\* A close the consumer confirmed has a result in the end, and when the
\* channel closes orders the order does not stay unpaid.
CloseAnswered ==
    op.close = "open" ~>
        /\ op.close \in {"succeeded", "failed", "unknown", "pending_review"}
        /\ modes.close = "SUCCESS" => order.payment \in {"paid", "closed"}

\* Whatever the consumer, the merchant and the account do meanwhile, an order
\* settles: its close gets a result (processClose) and its planned batches are
\* all paid when the channel refunds (processRefundBatch).
OrderSettles == RefundsComplete /\ CloseAnswered

\* The order implements the promise to the payer.
Money == INSTANCE OrderMoney WITH
    hold <- IF posted THEN "spent"
            ELSE IF item = "cancelled" THEN "released" ELSE "held",
    returned <- refundPosted

ImplementsMoney == Money!Spec

\* A rule that applies to the amount can be carried out: a request that may be
\* confirmed has a plan the database takes (cancellationRuleDetails refuses only
\* amounts up to the fee; refund_batches takes no batch of nothing).
PreviewedRefundFits ==
    \A p \in Previews :
        MayCancel(p) =>
            \A n \in BatchNumbers(preview[p].rule) :
                BatchAmount(preview[p].rule, n) > 0

\* What the review document asks of archival: only matters that are still
\* undecided block it.  The operation of a payment that stayed without a result
\* blocks it for good once the order is closed.
OnlyOpenMattersBlock ==
    /\ order.payment \in {"paid", "closed"}
    /\ \A p \in Previews : ~Active(cancel[p])
    /\ op.pay # "open"
    /\ op.close # "open"
    => ~Blocked
==============================================================================
