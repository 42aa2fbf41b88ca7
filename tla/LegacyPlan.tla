------------------------------ MODULE LegacyPlan ------------------------------
(***************************************************************************)
(* A plan of the older flow, simulated environment: previews and           *)
(* confirmations of purchases and changes (domain/proposals.ts,            *)
(* routes/api.ts), the orders and changes carried out under them           *)
(* (domain/business-actions.ts), the merchant's decision and refund        *)
(* batches, tasks and rechecks, and the worker's transactions.             *)
(*                                                                         *)
(* An action is one transaction.  Those of the consumer hold the plan's    *)
(* row, those of the merchant the request's and the order's, so each is    *)
(* one step; one that throws leaves nothing behind and is no step.  A job  *)
(* is in the queue while its operation is "accepted": JobLease shows that  *)
(* the transaction that settles it commits once.                           *)
(*                                                                         *)
(* Every item is a catalogue item of its own that can be booked, and there *)
(* is one merchant.  What only keeps a step from being taken has no state: *)
(* a preview or an authority that expires is one that nobody uses again,   *)
(* and a plan under LEGACY_PURCHASE_DISABLED one that nobody orders from.  *)
(***************************************************************************)
EXTENDS Integers, FiniteSets, Functions

CONSTANTS
    Items,           \* plan_items
    Price,           \* price of each item
    Fee,             \* the fee of fee_80 and two_batches
    FirstRule,       \* cancellation rule of each item when the plan is made
    Rules,           \* rules the merchant changes it to
    Modes,           \* outcomes of payment, close and refund, by item
    Limits,          \* limits the consumer may confirm
    FirstLimit,      \* plans.purchase_limit_minor of a new plan
    Changed,         \* bound: items whose rule and orders are changed
    Pauses,          \* bound: sets of items that are paused
    Rechecked,       \* bound: operations somebody asks to check again
    MaxProposals,    \* bound: previews and renewals
    MaxVersion,      \* bound: plans.version
    MaxRuleVersion   \* bound: catalog_items.rule_version

VARIABLES
    plan,       \* version, purchase limit and paused items
    item,       \* plan_items.status
    catalog,    \* rule and rule version of each item
    proposal,   \* proposals with their snapshot and confirmation
    auth,       \* authorizations of type purchase or aftercare, by proposal
    queryAuth,  \* authorizations of type query, by proposal
    order,      \* orders, at most one for an item
    op,         \* operations.state of payments and of changes
    request,    \* cancellation_requests with their refund batches
    task        \* manual_tasks.state by dedupe_key

consumerVars == <<plan, proposal, auth, queryAuth>>
vars == <<consumerVars, item, catalog, order, op, request, task>>

AllRules == {"full_refund", "fee_80", "two_batches", "reject", "delay"}
Proposals == 1 .. MaxProposals
Changes == Proposals \X Items
None == [state |-> "none"]
EmptyProposal == [type |-> "none", version |-> 0, status |-> "none",
                  lines |-> [i \in {} |-> None]]
Waiting == {"accepted", "processing", "unknown", "pending_review"}
Unsettled == {"pending", "processing", "unknown", "pending_review"}
Active == {"submitted", "approved", "delayed", "refund_processing",
           "pending_review"}

Ordered(i) == order[i] # None
Requested(c) == request[c] # None
Sum(f) == FoldFunction(LAMBDA x, y : x + y, 0, f)

PayOps == {<<"pay", i>> : i \in Items}
ChangeOps == {<<"change", c>> : c \in Changes}
Ops == PayOps \cup ChangeOps
Numbers == {1, 2}
TaskKeys == ({"delay"} \X Changes) \cup ({"refund"} \X Changes \X Numbers)
            \cup ({"recheck"} \X Ops)

------------------------------------------------------------------------------
(* Rules, money and what a page shows.                                     *)

cancellationRuleDetails(rule) ==
    [fee |-> CASE rule \in {"fee_80", "two_batches"} -> Fee
               [] OTHER -> 0,
     batches |-> CASE rule = "two_batches" -> 2
                   [] rule = "reject" -> 0
                   [] OTHER -> 1]

\* The fee of reject is the whole price, and a fixed fee needs a higher price.
FeeOf(rule, i) ==
    IF rule = "reject" THEN Price[i] ELSE cancellationRuleDetails(rule).fee
RuleFits(rule, i) ==
    rule \in {"fee_80", "two_batches"} => Price[i] > Fee

ASSUME LegacyAssumption ==
    /\ IsFiniteSet(Items) /\ Changed \subseteq Items
    /\ Pauses \subseteq SUBSET Items
    /\ Price \in [Items -> Nat \ {0}]
    /\ Fee \in Nat \ {0}
    /\ FirstRule \in [Items -> AllRules] /\ Rules \subseteq AllRules
    /\ \A i \in Items : RuleFits(FirstRule[i], i)
    /\ Limits \subseteq Nat /\ FirstLimit \in Nat
    /\ MaxProposals \in Nat
    /\ MaxVersion \in Nat \ {0} /\ MaxRuleVersion \in Nat \ {0}

Decision(rule) ==
    CASE rule = "reject" -> "rejected"
      [] rule = "delay" -> "delayed"
      [] OTHER -> "approved"

\* Paid counts the whole price of an order, whatever came back of it.
budgetForPlan ==
    LET held(S, f) == Sum([i \in {j \in Items : /\ Ordered(j)
                                                /\ order[j].payment \in S} |->
                               order[i][f]])
    IN  [paid |-> held({"paid"}, "price"),
         reserved |-> held({"pending", "unknown"}, "reserved")]

BatchSum(c, S) ==
    Sum([n \in {k \in DOMAIN request[c].batches :
                    request[c].batches[k].status \in S} |->
             request[c].batches[n].amount])

planSnapshot ==
    [remaining |-> plan.limit - budgetForPlan.paid - budgetForPlan.reserved,
     paid |-> budgetForPlan.paid
              - Sum([i \in {j \in Items : Ordered(j)} |-> order[i].refunded]),
     cancellations |->
         [c \in {d \in Changes : Requested(d)} |->
              [refunded |-> BatchSum(c, {"succeeded"}),
               pending |-> BatchSum(c, Unsettled)]],
     pending |-> {o \in Ops : op[o] \in Waiting}]

------------------------------------------------------------------------------
(* A plan is created from catalogue items under the rule each has then.    *)

Init ==
    /\ plan = [version |-> 1, limit |-> FirstLimit, paused |-> {}]
    /\ item = [i \in Items |-> "pending"]
    /\ catalog = [i \in Items |-> [rule |-> FirstRule[i], version |-> 1]]
    /\ proposal = [p \in Proposals |-> EmptyProposal]
    /\ auth = [p \in Proposals |-> "none"]
    /\ queryAuth = [p \in Proposals |-> "none"]
    /\ order = [i \in Items |-> None]
    /\ op = [o \in Ops |-> "none"]
    /\ request = [c \in Changes |-> None]
    /\ task = [k \in TaskKeys |-> "none"]

\* The merchant changes the rule of an item from the version that is shown.
UpdateRule(i) ==
    /\ catalog[i].version < MaxRuleVersion
    /\ \E rule \in Rules :
           /\ RuleFits(rule, i)
           /\ catalog' = [catalog EXCEPT
                  ![i] = [rule |-> rule, version |-> @.version + 1]]
    /\ UNCHANGED <<consumerVars, item, order, op, request, task>>

------------------------------------------------------------------------------
(* Previews and confirmations.                                             *)

NextProposal(p) ==
    /\ proposal[p] = EmptyProposal
    /\ \A q \in Proposals : q < p => proposal[q] # EmptyProposal

Preview(p, type, status, lines) ==
    proposal' = [proposal EXCEPT ![p] =
        [type |-> type, version |-> plan.version, status |-> status,
         lines |-> lines]]

createPurchaseProposal(p) ==
    /\ NextProposal(p)
    /\ \E S \in SUBSET Items \ {{}} :
           /\ \A i \in S : ~Ordered(i) /\ item[i] # "stopped"
           /\ Preview(p, "purchase", "pending",
                  [i \in S |-> [intent |-> "buy", fee |-> 0,
                                refund |-> Price[i], rule |-> catalog[i]]])
    /\ UNCHANGED <<plan, auth, queryAuth, item, catalog, order, op, request, task>>

\* What the preview of a change accepts for an item in its present state.
MayIntend(i, intent) ==
    \/ intent = "stop" /\ ~Ordered(i)
    \/ intent = "close" /\ Ordered(i) /\ order[i].payment = "pending"
    \/ /\ intent = "cancel" /\ Ordered(i) /\ order[i].payment = "paid"
       /\ order[i].refunded = 0
       /\ order[i].status \notin {"cancellation_processing", "cancelled"}
       /\ RuleFits(catalog[i].rule, i)

Quote(i, intent) ==
    [intent |-> intent, rule |-> catalog[i],
     fee |-> IF intent = "cancel" THEN FeeOf(catalog[i].rule, i) ELSE 0,
     refund |-> IF intent = "cancel"
                THEN Price[i] - FeeOf(catalog[i].rule, i) ELSE 0]

createChangeProposal(p) ==
    /\ NextProposal(p)
    /\ \E S \in SUBSET Changed \ {{}} :
       \E intent \in [S -> {"stop", "close", "cancel"}] :
           /\ \A i \in S : MayIntend(i, intent[i])
           /\ Preview(p, "change", "pending", [i \in S |-> Quote(i, intent[i])])
    /\ UNCHANGED <<plan, auth, queryAuth, item, catalog, order, op, request, task>>

assertProposalActive(p) ==
    /\ proposal[p].status = "pending"
    /\ proposal[p].version = plan.version

QuoteHolds(p, i) == proposal[p].lines[i].rule.version = catalog[i].version
TotalOf(p) == Sum([i \in DOMAIN proposal[p].lines |-> Price[i]])

\* The limit covers this purchase, and all that was paid or is held before.
LimitHoldsForNew(p, limit) == limit >= TotalOf(p)
LimitHolds(p, limit) ==
    /\ limit >= TotalOf(p)
    /\ limit >= budgetForPlan.paid + budgetForPlan.reserved

Withdraw(p, state) ==
    [q \in Proposals |->
        IF proposal[q].type = "purchase" /\ auth[q] = "active"
        THEN state ELSE auth[q]]

ConfirmPurchase(p) ==
    /\ proposal[p].type = "purchase" /\ assertProposalActive(p)
    /\ plan.version < MaxVersion
    /\ \A i \in DOMAIN proposal[p].lines : QuoteHolds(p, i)
    /\ \E limit \in Limits, restored \in SUBSET DOMAIN proposal[p].lines :
           /\ LimitHolds(p, limit)
           /\ plan' = [version |-> plan.version + 1, limit |-> limit,
                       paused |-> plan.paused \ restored]
    /\ proposal' = [proposal EXCEPT ![p].status = "confirmed"]
    /\ auth' = [Withdraw(p, "paused") EXCEPT ![p] = "active"]
    /\ UNCHANGED <<queryAuth, item, catalog, order, op, request, task>>

\* The accepted sums and orders are those of the preview.
ConfirmChange(p) ==
    /\ proposal[p].type = "change" /\ assertProposalActive(p)
    /\ proposal' = [proposal EXCEPT ![p].status = "confirmed"]
    /\ auth' = [auth EXCEPT ![p] = "active"]
    /\ queryAuth' = [queryAuth EXCEPT ![p] = "active"]
    /\ UNCHANGED <<plan, item, catalog, order, op, request, task>>

------------------------------------------------------------------------------
(* What ends an authority.                                                 *)

pausePurchases ==
    /\ plan.version < MaxVersion
    /\ \E S \in Pauses :
           LET paused == plan.paused \cup S
           IN  /\ plan' = [plan EXCEPT !.paused = paused,
                                       !.version = @ + 1]
               /\ auth' = IF paused = Items THEN Withdraw(0, "paused") ELSE auth
    /\ UNCHANGED <<proposal, queryAuth, item, catalog, order, op, request, task>>

RevokeAftercare ==
    /\ auth' = [p \in Proposals |->
           IF proposal[p].type = "change" /\ auth[p] = "active"
           THEN "revoked" ELSE auth[p]]
    /\ queryAuth' = [p \in Proposals |->
           IF queryAuth[p] = "active" THEN "revoked" ELSE queryAuth[p]]
    /\ UNCHANGED <<plan, proposal, item, catalog, order, op, request, task>>

\* A renewal is kept as a change that was confirmed and has no lines to run.
RenewQuery(p) ==
    /\ NextProposal(p)
    /\ \E S \in SUBSET {i \in Items : Ordered(i)} \ {{}} :
           Preview(p, "renewal", "confirmed",
               [i \in S |-> [intent |-> "ask", fee |-> 0, refund |-> 0,
                             rule |-> catalog[i]]])
    /\ queryAuth' = [[q \in Proposals |->
           IF queryAuth[q] = "active" THEN "expired" ELSE queryAuth[q]]
           EXCEPT ![p] = "active"]
    /\ UNCHANGED <<plan, auth, item, catalog, order, op, request, task>>

------------------------------------------------------------------------------
(* A purchase is carried out, item by item.                                *)

OrderableIfFree(p, i) ==
    /\ i \in DOMAIN proposal[p].lines /\ ~Ordered(i)
    /\ i \notin plan.paused
    /\ QuoteHolds(p, i)
Orderable(p, i) ==
    /\ i \in DOMAIN proposal[p].lines /\ ~Ordered(i)
    /\ i \notin plan.paused
    /\ item[i] # "stopped"
    /\ QuoteHolds(p, i)

createConfirmedOrder(p, i) ==
    /\ proposal[p].type = "purchase" /\ proposal[p].status = "confirmed"
    /\ auth[p] = "active"
    /\ Orderable(p, i)
    /\ planSnapshot.remaining >= Price[i]
    /\ \E modes \in Modes[i] :
           order' = [order EXCEPT ![i] =
               [by |-> p, price |-> Price[i], status |-> "created",
                payment |-> "pending", reserved |-> Price[i], refunded |-> 0,
                modes |-> modes]]
    /\ item' = [item EXCEPT ![i] = "in_progress"]
    /\ op' = [op EXCEPT ![<<"pay", i>>] = "accepted"]
    /\ UNCHANGED <<consumerVars, catalog, request, task>>

Outcome(mode) == IF mode = "PENDING" THEN "pending_review" ELSE "unknown"

processPayment(i) ==
    LET mode == order[i].modes.pay
    IN  /\ op[<<"pay", i>>] = "accepted"
        /\ \/ /\ order[i].payment # "pending"
              /\ op' = [op EXCEPT ![<<"pay", i>>] = "failed"]
              /\ UNCHANGED order
           \/ /\ order[i].payment = "pending" /\ mode = "SUCCESS"
              /\ order' = [order EXCEPT ![i].payment = "paid",
                                        ![i].status = "fulfilling"]
              /\ op' = [op EXCEPT ![<<"pay", i>>] = "succeeded"]
           \/ /\ order[i].payment = "pending" /\ mode # "SUCCESS"
              /\ order' = [order EXCEPT ![i].payment =
                     IF mode = "UNKNOWN" THEN "unknown" ELSE "pending"]
              /\ op' = [op EXCEPT ![<<"pay", i>>] = Outcome(mode)]
        /\ UNCHANGED <<consumerVars, item, catalog, request, task>>

------------------------------------------------------------------------------
(* A change is carried out, all its lines in one transaction.              *)

LiveRequest(i) ==
    \E p \in Proposals : Requested(<<p, i>>) /\ request[<<p, i>>].status \in Active

CancelHolds(i, line) ==
    /\ order[i].payment = "paid" /\ order[i].refunded = 0
    /\ line.rule = catalog[i]
    /\ ~LiveRequest(i)

LineHolds(i, line) ==
    \/ line.intent = "stop" /\ ~Ordered(i)
    \/ line.intent = "close" /\ order[i].payment = "pending"
    \/ line.intent = "cancel" /\ CancelHolds(i, line)

StateOf(line) ==
    CASE line.intent = "stop" -> "succeeded"
      [] line.intent = "close" -> "accepted"
      [] OTHER -> IF Decision(line.rule.rule) = "delayed"
                  THEN "pending_review" ELSE "succeeded"

NewRequest(line) ==
    [status |-> Decision(line.rule.rule), rule |-> line.rule.rule,
     fee |-> line.fee, refund |-> line.refund,
     batches |-> [n \in {} |-> None]]

submitConfirmedChange(p) ==
    LET lines == proposal[p].lines
        of(intent) == {i \in DOMAIN lines : lines[i].intent = intent}
    IN  /\ proposal[p].type = "change" /\ proposal[p].status = "confirmed"
        /\ auth[p] = "active"
        /\ \A i \in DOMAIN lines : LineHolds(i, lines[i])
        /\ item' = [i \in Items |-> IF i \in of("stop") THEN "stopped" ELSE item[i]]
        /\ order' = [i \in Items |->
               IF i \in of("cancel")
               THEN [order[i] EXCEPT !.status =
                        IF Decision(lines[i].rule.rule) = "rejected"
                        THEN "cancellation_rejected"
                        ELSE "cancellation_processing"]
               ELSE order[i]]
        /\ request' = [c \in Changes |->
               IF c[1] = p /\ c[2] \in of("cancel")
               THEN NewRequest(lines[c[2]]) ELSE request[c]]
        /\ op' = [o \in Ops |->
               IF o \in ChangeOps /\ o[2][1] = p /\ o[2][2] \in DOMAIN lines
               THEN StateOf(lines[o[2][2]]) ELSE op[o]]
        /\ task' = [k \in TaskKeys |->
               IF /\ k[1] = "delay" /\ k[2][1] = p /\ k[2][2] \in of("cancel")
                  /\ Decision(lines[k[2][2]].rule.rule) = "delayed"
               THEN "open" ELSE task[k]]
        /\ proposal' = [proposal EXCEPT ![p].status = "executing"]
        /\ UNCHANGED <<plan, auth, queryAuth, catalog>>

processClose(c) ==
    LET i == c[2]
        mode == order[i].modes.close
        open == order[i].payment \in {"pending", "unknown"}
        settle(state) == op' = [op EXCEPT ![<<"change", c>>] = state]
    IN  /\ op[<<"change", c>>] = "accepted"
        /\ \/ ~open /\ settle("failed") /\ UNCHANGED order
           \/ open /\ mode # "SUCCESS" /\ settle(Outcome(mode)) /\ UNCHANGED order
           \/ /\ open /\ mode = "SUCCESS" /\ settle("succeeded")
              /\ order' = [order EXCEPT ![i].payment = "closed",
                                        ![i].status = "cancelled",
                                        ![i].reserved = 0]
        /\ UNCHANGED <<consumerVars, item, catalog, request, task>>

------------------------------------------------------------------------------
(* The merchant: decisions, refund batches, tasks.                         *)

\* The delayed request is the only one a decision still finds open.
DecideCancellation(c) ==
    /\ Requested(c) /\ request[c].status = "delayed"
    /\ \E decision \in {"approved", "rejected"} :
           /\ request' = [request EXCEPT ![c].status = decision]
           /\ order' = IF decision = "rejected"
                       THEN [order EXCEPT ![c[2]].status = "cancellation_rejected"]
                       ELSE order
    /\ op' = [op EXCEPT ![<<"change", c>>] = "succeeded"]
    /\ task' = [task EXCEPT ![<<"delay", c>>] = "resolved"]
    /\ UNCHANGED <<consumerVars, item, catalog>>

BatchRunning(c) ==
    \E n \in DOMAIN request[c].batches : request[c].batches[n].status \in Unsettled
MayScheduleUnlessFull(c) ==
    Cardinality(DOMAIN request[c].batches)
        < cancellationRuleDetails(request[c].rule).batches
MaySchedule(c) ==
    /\ ~BatchRunning(c)
    /\ Cardinality(DOMAIN request[c].batches)
           < cancellationRuleDetails(request[c].rule).batches

ScheduleBatch(c) ==
    LET r == request[c]
        two == cancellationRuleDetails(r.rule).batches = 2
        number == Cardinality(DOMAIN r.batches) + 1
        amount == IF two THEN r.refund \div 2 ELSE r.refund
        batches == [n \in DOMAIN r.batches \cup {number} |->
            IF n = number THEN [amount |-> amount, status |-> "pending"]
            ELSE r.batches[n]]
    IN  /\ Requested(c) /\ r.status \in {"approved", "refund_processing"}
        /\ r.fee = FeeOf(r.rule, c[2]) /\ r.refund = Price[c[2]] - r.fee
        /\ r.refund > 0
        /\ two => r.refund % 2 = 0
        /\ MaySchedule(c)
        /\ BatchSum(c, Unsettled \cup {"succeeded", "failed"}) + amount <= r.refund
        /\ order[c[2]].refunded + amount <= order[c[2]].price
        /\ request' = [request EXCEPT ![c].status = "refund_processing",
                                      ![c].batches = batches]
        /\ UNCHANGED <<consumerVars, item, catalog, order, op, task>>

\* The worker's transaction on a batch.
processRefundBatch(c, n) ==
    LET r == request[c]
        i == c[2]
        mode == order[i].modes.refund
        returned == BatchSum(c, {"succeeded"}) + r.batches[n].amount
        complete == returned = r.refund
    IN  /\ Requested(c) /\ n \in DOMAIN r.batches
        /\ r.batches[n].status = "pending"
        /\ r.status \in {"approved", "refund_processing"}
        /\ order[i].payment = "paid"
        /\ \/ /\ mode # "SUCCESS"
              /\ request' = [request EXCEPT ![c].status = "pending_review",
                                            ![c].batches[n].status = Outcome(mode)]
              /\ task' = [task EXCEPT ![<<"refund", c, n>>] = "open"]
              /\ UNCHANGED order
           \/ /\ mode = "SUCCESS"
              /\ order[i].refunded + r.batches[n].amount <= order[i].price
              /\ returned <= r.refund
              /\ request' = [request EXCEPT
                     ![c].status = IF complete THEN "completed" ELSE "refund_processing",
                     ![c].batches[n].status = "succeeded"]
              /\ order' = [order EXCEPT
                     ![i].refunded = @ + r.batches[n].amount,
                     ![i].status = IF complete THEN "cancelled"
                                   ELSE "cancellation_processing"]
              /\ UNCHANGED task
        /\ UNCHANGED <<consumerVars, item, catalog, op>>

\* A task is claimed by the merchant; a note only moves its next review.
ClaimTask(k) ==
    /\ task[k] = "open"
    /\ task' = [task EXCEPT ![k] = "claimed"]
    /\ UNCHANGED <<consumerVars, item, catalog, order, op, request>>

ItemOf(o) == IF o[1] = "pay" THEN o[2] ELSE o[2][2]

\* A task exists once by its key.
ensureManualTask(k) ==
    [task EXCEPT ![k] = IF task[k] = "none" THEN "open" ELSE task[k]]

\* The order is in the scope of a query authority that is active.
MayQuery(i) ==
    \E p \in Proposals : /\ queryAuth[p] = "active"
                          /\ i \in DOMAIN proposal[p].lines
                          /\ proposal[p].lines[i].intent # "stop"

\* Somebody asks for a check, the merchant without more; the answer in the
\* simulated environment is a task.
RequestRecheck(o) ==
    /\ op[o] # "none" /\ Ordered(ItemOf(o))
    /\ \E who \in {"consumer", "merchant_admin"} :
           who = "consumer" => MayQuery(ItemOf(o))
    /\ task' = ensureManualTask(<<"recheck", o>>)
    /\ UNCHANGED <<consumerVars, item, catalog, order, op, request>>

------------------------------------------------------------------------------
Consumer ==
    \/ \E p \in Proposals :
           \/ createPurchaseProposal(p) \/ createChangeProposal(p)
           \/ ConfirmPurchase(p) \/ ConfirmChange(p)
           \/ submitConfirmedChange(p) \/ RenewQuery(p)
           \/ \E i \in Items : createConfirmedOrder(p, i)
    \/ pausePurchases \/ RevokeAftercare

Merchant ==
    \/ \E i \in Changed : UpdateRule(i)
    \/ \E c \in Changes : DecideCancellation(c) \/ ScheduleBatch(c)
    \/ \E k \in TaskKeys : ClaimTask(k)

Worker ==
    \/ \E i \in Items : processPayment(i)
    \/ \E c \in Changes : processClose(c)
    \/ \E c \in Changes, n \in Numbers : processRefundBatch(c, n)

Next ==
    \/ Consumer \/ Merchant \/ Worker
    \/ \E o \in Rechecked : RequestRecheck(o)

Spec == Init /\ [][Next]_vars

------------------------------------------------------------------------------
Line == [intent : {"buy", "stop", "close", "cancel", "ask"}, fee : Nat,
         refund : Nat, rule : [rule : AllRules, version : 1 .. MaxRuleVersion]]

TypeOK ==
    /\ plan.version \in 1 .. MaxVersion /\ plan.paused \subseteq Items
    /\ plan.limit \in Limits \cup {FirstLimit}
    /\ item \in [Items -> {"pending", "in_progress", "stopped"}]
    /\ \A p \in Proposals :
           /\ proposal[p].type \in {"none", "purchase", "change", "renewal"}
           /\ proposal[p].status \in
                  {"none", "pending", "confirmed", "executing"}
           /\ DOMAIN proposal[p].lines \subseteq Items
           /\ \A i \in DOMAIN proposal[p].lines : proposal[p].lines[i] \in Line
           /\ auth[p] \in {"none", "active", "paused", "revoked"}
           /\ queryAuth[p] \in {"none", "active", "revoked", "expired"}
    /\ \A i \in Items : Ordered(i) =>
           /\ order[i].payment \in {"pending", "paid", "unknown", "closed"}
           /\ order[i].status \in {"created", "fulfilling", "cancelled",
                  "cancellation_processing", "cancellation_rejected"}
           /\ order[i].refunded \in 0 .. Price[i]
    /\ op \in [Ops -> {"none", "accepted", "succeeded", "failed", "unknown",
                       "pending_review"}]
    /\ task \in [TaskKeys -> {"none", "open", "claimed", "resolved"}]

\* An item that was stopped is never ordered; an order exists and stands as a purchase was
\* confirmed and ends as a change was: it is closed by one close that a person
\* confirmed, and a request asks what its preview showed, one at a time.
CarriedOutAsConfirmed ==
    /\ \A p \in Proposals : proposal[p].status = "executing" =>
           \A i \in DOMAIN proposal[p].lines :
               proposal[p].lines[i].intent = "stop"
                   => item[i] = "stopped" /\ ~Ordered(i)
    /\ \A i \in Items : Ordered(i) =>
           /\ proposal[order[i].by].type = "purchase"
           /\ proposal[order[i].by].status = "confirmed"
           /\ i \in DOMAIN proposal[order[i].by].lines
           /\ Cardinality({p \in Proposals : Requested(<<p, i>>)
                  /\ request[<<p, i>>].status \in Active}) <= 1
           /\ order[i].payment = "closed" <=>
                  \E p \in Proposals : /\ op[<<"change", <<p, i>>>>] = "succeeded"
                                       /\ proposal[p].lines[i].intent = "close"
    /\ \A c \in Changes : Requested(c) =>
           /\ proposal[c[1]].status = "executing"
           /\ order[c[2]].payment = "paid"
           /\ LET line == proposal[c[1]].lines[c[2]]
              IN  /\ line.intent = "cancel"
                  /\ request[c].fee = line.fee /\ request[c].refund = line.refund
                  /\ line.fee + line.refund = order[c[2]].price

\* Type correctness, and everything done as it was confirmed.
LegacySound == TypeOK /\ CarriedOutAsConfirmed

\* What the page of a plan shows never goes below zero or above what was
\* agreed: paid and held stay within the limit, whichever limits were
\* confirmed since, and what came back and is under way within the refund.
ShownMoneyAgrees ==
    /\ planSnapshot.remaining >= 0
    /\ planSnapshot.paid >= 0
    /\ \A c \in DOMAIN planSnapshot.cancellations :
           planSnapshot.cancellations[c].refunded
               + planSnapshot.cancellations[c].pending <= request[c].refund

\* The refund of an order: one batch at a time, the order's sum is what its
\* batches returned, it is cancelled with the last of it and never before,
\* and a request that waits for a person has a task that is not resolved.
RefundsAddUp ==
    /\ \A c \in Changes : Requested(c) =>
           /\ Cardinality({n \in DOMAIN request[c].batches :
                  request[c].batches[n].status \in Unsettled}) <= 1
           /\ \A n \in DOMAIN request[c].batches :
                  /\ request[c].batches[n].status = "pending"
                         => request[c].status = "refund_processing"
                  /\ request[c].batches[n].status \in {"unknown", "pending_review"}
                         => /\ request[c].status = "pending_review"
                            /\ task[<<"refund", c, n>>] \in {"open", "claimed"}
           /\ request[c].status = "completed"
                  <=> request[c].refund > 0
                      /\ BatchSum(c, {"succeeded"}) = request[c].refund
           /\ request[c].status = "delayed"
                  <=> task[<<"delay", c>>] \in {"open", "claimed"}
    /\ \A i \in Items : Ordered(i) =>
           LET asked == {c \in Changes : c[2] = i /\ Requested(c)}
           IN  /\ order[i].refunded =
                      Sum([c \in asked |-> BatchSum(c, {"succeeded"})])
               /\ order[i].status = "cancellation_processing" <=> LiveRequest(i)
               /\ order[i].status = "cancelled" <=>
                      \/ order[i].payment = "closed"
                      \/ \E c \in asked : request[c].status = "completed"
==============================================================================
