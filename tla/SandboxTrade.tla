----------------------------- MODULE SandboxTrade -----------------------------
(***************************************************************************)
(* The payment of one consumer order through the external channel          *)
(* (Alipay sandbox), until the order is paid or closed: the handoff        *)
(* (domain/consumer-orders.ts), the consumer's own enquiry and the         *)
(* channel's notifications (routes/api.ts), the close and the enquiry that *)
(* the worker carries out (domain/channel-worker.ts) and the end of the    *)
(* budget commitment (domain/closed-order-budget.ts).                      *)
(*                                                                         *)
(* Every observation of the channel is made outside a transaction and is   *)
(* applied later, by a transaction of its own, to whatever the order has   *)
(* become.  Notifications arrive late, twice and in any order.             *)
(*                                                                         *)
(* Previews are those of SimulatedOrder; leases those of JobLease.  The    *)
(* account is the demo account, the only source the handoff accepts, and   *)
(* an "open" operation is accepted, processing, or unknown with its job in *)
(* the queue.                                                              *)
(***************************************************************************)
EXTENDS Naturals

CONSTANTS
    Checkers,    \* enquiries of the consumer that may overlap
    MaxRetries,  \* bound: retries within thirty minutes
    MaxCrashes   \* bound: workers that stop between two steps

ASSUME TradeAssumption == MaxRetries \in Nat /\ MaxCrashes \in Nat

VARIABLES
    trade,     \* the trade at the channel, and whether it was ever paid
    inbox,     \* notifications the channel has issued
    log,       \* payment_notifications.processing_state by notification
    order,     \* status and payment_status of the order
    attempt,   \* payment_attempts.status
    item,      \* budget_items.status
    recorded,  \* money events with a fixed id: ALIPAY_PAYMENT_, ALIPAY_CLOSED_
    handoff,   \* operations.state of sandbox_payment_handoff
    check,     \* the consumer's enquiries: what was seen, not yet applied
    job,       \* operations.state of sandbox_close and the merchant's enquiry
    sent,      \* operations.sent_at of the close
    call,      \* what the worker does for each of these operations
    task,      \* manual tasks: of the conflict and of each operation
    retries,   \* unknown results of the close so far
    crashes

channelVars == <<trade, inbox>>
orderVars == <<order, attempt, item, recorded>>
workerVars == <<job, sent, call, retries, crashes>>
tradeVars == <<channelVars, log, orderVars, handoff, check, workerVars, task>>

Jobs == {"close", "query"}
Kinds == {"wait", "paid", "closed"}

\* What an enquiry may see: the state of the trade, that there is none, or an
\* answer that identifies nothing (an error, another amount or seller).
Seen == Kinds \cup {"none", "doubt"}

NoCheck == [seen |-> "nothing", handoff |-> FALSE]
NoCall == [step |-> "idle", fresh |-> FALSE, paid |-> FALSE, seen |-> "nothing"]

Undecided == order.payment \in {"pending", "unknown"}

------------------------------------------------------------------------------
TradeInit ==
    /\ trade = [state |-> "none", everPaid |-> FALSE]
    /\ inbox = {}
    /\ log = [k \in Kinds |-> "none"]
    /\ order = [status |-> "created", payment |-> "pending"]
    /\ attempt = "pending"
    /\ item = "committed"
    /\ recorded = {}
    /\ handoff = "none"
    /\ check = [c \in Checkers |-> NoCheck]
    /\ job = [j \in Jobs |-> "none"]
    /\ sent = FALSE
    /\ call = [j \in Jobs |-> NoCall]
    /\ task = [t \in Jobs \cup {"conflict"} |-> "none"]
    /\ retries = 0
    /\ crashes = 0

------------------------------------------------------------------------------
(* The channel and the buyer.                                              *)

TradeBecomes(s) ==
    /\ trade' = [state |-> s, everPaid |-> trade.everPaid \/ s = "paid"]
    /\ inbox' = inbox \cup {s}

LocalUnchanged == UNCHANGED <<log, orderVars, handoff, check, workerVars,
                              task>>

\* The cashier page creates the trade.
BuyerOpens ==
    /\ handoff # "none"
    /\ trade.state = "none"
    /\ TradeBecomes("wait")
    /\ LocalUnchanged

BuyerPays ==
    /\ trade.state = "wait"
    /\ TradeBecomes("paid")
    /\ LocalUnchanged

\* A trade that waits times out; one that was paid is closed when the channel
\* returns the whole sum.
ChannelCloses ==
    /\ trade.state \in {"wait", "paid"}
    /\ TradeBecomes("closed")
    /\ LocalUnchanged

------------------------------------------------------------------------------
(* Facts about the payment, as the transactions write them.                *)

\* Records a money event under its own number; the same number with another
\* time is a conflict and rolls the transaction back.
Record(event) ==
    /\ event \notin recorded
    /\ recorded' = recorded \cup {event}

MarkPaid ==
    /\ order' = [status |-> "fulfilling", payment |-> "paid"]
    /\ attempt' = "paid"
    /\ Record("paid")
    /\ UNCHANGED item

\* The enquiry and the notification close the order only.
MarkClosed ==
    /\ order' = [status |-> "cancelled", payment |-> "closed"]
    /\ attempt' = "closed"
    /\ UNCHANGED item

MarkPayment(s) ==
    /\ order' = [order EXCEPT !.payment = s]
    /\ attempt' = s
    /\ UNCHANGED <<item, recorded>>

\* An operation that exists changes; one that does not, does not.
SetHandoff(exists, s) == handoff' = IF exists THEN s ELSE handoff

------------------------------------------------------------------------------
(* The consumer.                                                           *)

\* The first handoff; later ones renew the address.  Refused to a revoked
\* account and when the channel is not configured.
PrepareHandoff ==
    /\ order.payment = "pending"
    /\ handoff = "none"
    /\ handoff' = "processing"
    /\ UNCHANGED <<channelVars, log, orderVars, check, workerVars, task>>

\* A close preview confirmed while the order is as it was previewed.
ConfirmClose ==
    /\ Undecided
    /\ job["close"] = "none"
    /\ job' = [job EXCEPT !["close"] = "open"]
    /\ UNCHANGED <<channelVars, log, orderVars, handoff, check, sent, call,
                   retries, crashes, task>>

\* The channel is asked for the trade: it says what that is, or the answer is
\* none, an error, or about another sum or seller.
queryAlipayTrade == {trade.state, "doubt"}

\* POST payment-rechecks, first half: the order is read, the channel asked.
AskChannel(c) ==
    /\ check[c] = NoCheck
    /\ Undecided
    /\ \E seen \in queryAlipayTrade :
          check' = [check EXCEPT ![c] =
                        [seen |-> seen, handoff |-> handoff # "none"]]
    /\ UNCHANGED <<channelVars, log, orderVars, handoff, workerVars, task>>

\* Fault variant: the order is not read again.
ApplyAnswerLate(c) ==
    /\ check[c] # NoCheck
    /\ CASE check[c].seen = "paid" -> MarkPaid
         [] check[c].seen = "closed" -> MarkClosed /\ Record("closed")
         [] OTHER -> MarkPayment("pending")
    /\ check' = [check EXCEPT ![c] = NoCheck]
    /\ UNCHANGED <<channelVars, log, handoff, workerVars, task>>

\* POST payment-rechecks, second half: what was seen is applied to an order
\* that is still undecided.
ApplyAnswer(c) ==
    /\ check[c] # NoCheck
    /\ LET had == check[c].handoff IN
       \/ ~Undecided /\ UNCHANGED <<orderVars, handoff>>
       \/ /\ Undecided /\ check[c].seen = "none"
          /\ MarkPayment("pending")
          /\ SetHandoff(had, "processing")
       \/ /\ Undecided /\ check[c].seen = "doubt"
          /\ MarkPayment("unknown")
          /\ SetHandoff(had, "unknown")
       \/ /\ Undecided /\ check[c].seen = "paid"
          /\ MarkPaid
          /\ SetHandoff(had, "succeeded")
       \/ /\ Undecided /\ check[c].seen = "closed"
          /\ MarkClosed
          /\ Record("closed")
          /\ SetHandoff(had, "succeeded")
       \/ /\ Undecided /\ check[c].seen = "wait"
          /\ attempt' = "pending"
          /\ SetHandoff(had, "processing")
          /\ UNCHANGED <<order, item, recorded>>
    /\ check' = [check EXCEPT ![c] = NoCheck]
    /\ UNCHANGED <<channelVars, log, workerVars, task>>

------------------------------------------------------------------------------
(* Notifications.  One that was processed before changes nothing.          *)

\* A payment is reported for an order that was closed here.
Conflicts(k) == k = "paid" /\ order.payment = "closed"

\* Fault variant: the conflict is logged only.
QuarantineQuietly(k) ==
    /\ k = "paid" /\ order.payment = "closed"
    /\ log' = [log EXCEPT ![k] = "quarantined"]
    /\ UNCHANGED <<task, orderVars, handoff>>

Quarantine(k) ==
    /\ Conflicts(k)
    /\ log' = [log EXCEPT ![k] = "quarantined"]
    /\ task' = [task EXCEPT !["conflict"] = "open"]
    /\ UNCHANGED <<orderVars, handoff>>

\* Fault variant: a payment is applied to a pending order only.
ApplyNotificationIfPending(k) ==
    /\ log' = [log EXCEPT ![k] = "applied"]
    /\ IF order.payment = "pending" /\ k = "paid"
       THEN MarkPaid /\ SetHandoff(handoff # "none", "succeeded")
       ELSE UNCHANGED <<orderVars, handoff>>
    /\ UNCHANGED task

ApplyNotification(k) ==
    /\ ~Conflicts(k)
    /\ log' = [log EXCEPT ![k] = "applied"]
    /\ \/ /\ order.payment = "paid"
          /\ UNCHANGED <<orderVars, handoff>>
       \/ /\ order.payment # "paid" /\ k = "wait"
          /\ UNCHANGED <<orderVars, handoff>>
       \/ /\ order.payment # "paid" /\ k = "paid"
          /\ MarkPaid
          /\ SetHandoff(handoff # "none", "succeeded")
       \/ /\ order.payment # "paid" /\ k = "closed"
          /\ MarkClosed
          /\ Record("closed")
          /\ SetHandoff(handoff # "none", "succeeded")
    /\ UNCHANGED task

\* Only what the channel issued, possibly more than once, bears its signature.
verifyAlipayNotification(k) == k \in inbox

Notify(k) ==
    /\ verifyAlipayNotification(k)
    /\ log[k] = "none"
    /\ Quarantine(k) \/ ApplyNotification(k)
    /\ UNCHANGED <<channelVars, check, workerVars>>

------------------------------------------------------------------------------
(* The worker.                                                             *)

\* The merchant asks for an enquiry; one that is under way is returned.
RequestRecheck ==
    /\ job["query"] # "open"
    /\ handoff # "none" \/ job["close"] # "none"
    /\ job' = [job EXCEPT !["query"] = "open"]
    /\ task' = [task EXCEPT !["query"] = "none"]
    /\ UNCHANGED <<channelVars, log, orderVars, handoff, check, sent, call,
                   retries, crashes>>

\* First transaction: the order is read, and for a close sent_at is set.
BeginCall(j) ==
    /\ job[j] = "open"
    /\ call[j].step = "idle"
    /\ call' = [call EXCEPT ![j] =
                   [step |-> "begun", fresh |-> j = "close" /\ ~sent,
                    paid |-> order.payment = "paid", seen |-> "nothing"]]
    /\ sent' = (sent \/ j = "close")
    /\ UNCHANGED <<channelVars, log, orderVars, handoff, check, job, retries,
                   crashes, task>>

\* The trade is looked up; only then a waiting one may be closed, once.
QueryTrade(j) ==
    /\ call[j].step = "begun"
    /\ \E seen \in queryAlipayTrade :
          call' = [call EXCEPT
              ![j].seen = seen,
              ![j].step = IF seen = "wait" /\ call[j].fresh THEN "closing"
                          ELSE "answered"]
    /\ UNCHANGED <<channelVars, log, orderVars, handoff, check, job, sent,
                   retries, crashes, task>>

\* The close request: it may fail, and the buyer may have paid meanwhile.
closeAlipayTrade ==
    \/ trade.state = "wait" /\ TradeBecomes("closed")
    \/ UNCHANGED channelVars

\* Its answer is not taken for the result.
CloseTrade(j) ==
    /\ call[j].step = "closing"
    /\ closeAlipayTrade
    /\ call' = [call EXCEPT ![j].step = "answered"]
    /\ UNCHANGED <<log, orderVars, handoff, check, job, sent, retries, crashes,
                   task>>

\* An operation ends; a person is asked about one that is not answered.
EndJob(j, s) ==
    /\ job' = [job EXCEPT ![j] = s]
    /\ task' = [task EXCEPT ![j] =
                   IF s = "pending_review" THEN "open"
                   ELSE IF @ = "open" THEN "resolved" ELSE @]
    /\ UNCHANGED retries

\* A payment was seen: a close ends in review, and so does a conflict.
FinishPaid(j) ==
    /\ call[j].seen = "paid"
    /\ \/ /\ order.payment = "closed"
          /\ EndJob(j, "pending_review")
          /\ UNCHANGED orderVars
       \/ /\ order.payment # "closed"
          /\ EndJob(j, IF j = "close" THEN "pending_review" ELSE "succeeded")
          /\ IF order.payment = "paid" THEN UNCHANGED orderVars ELSE MarkPaid

\* The trade was seen closed: the order is closed and its budget commitment
\* ends, unless a payment was applied in between.
FinishClosed(j) ==
    /\ call[j].seen = "closed" /\ ~call[j].paid
    /\ \/ /\ order.payment = "paid"
          /\ EndJob(j, "pending_review")
          /\ UNCHANGED orderVars
       \/ /\ order.payment # "paid"
          /\ EndJob(j, "succeeded")
          /\ order' = [status |-> "cancelled", payment |-> "closed"]
          /\ attempt' = "closed"
          /\ item' = IF item = "committed" THEN "cancelled" ELSE item
          /\ UNCHANGED recorded

Unanswered(j) ==
    \/ call[j].seen \in {"none", "wait", "doubt"}
    \/ call[j].seen = "closed" /\ call[j].paid

\* Fault variant: a close that is not answered is asked again without end.
FinishUnansweredRetry(j) ==
    /\ Unanswered(j)
    /\ IF j = "query" THEN EndJob(j, "pending_review")
       ELSE UNCHANGED <<job, task, retries>>
    /\ UNCHANGED orderVars

\* Nothing decisive was seen: the close is tried again, and after thirty
\* minutes, as an enquiry at once, it becomes a question for a person.
FinishUnanswered(j) ==
    /\ Unanswered(j)
    /\ \/ EndJob(j, "pending_review")
       \/ /\ j = "close"
          /\ retries < MaxRetries
          /\ retries' = retries + 1
          /\ UNCHANGED <<job, task>>
    /\ UNCHANGED orderVars

\* Second transaction.
FinishCall(j) ==
    /\ call[j].step = "answered"
    /\ FinishPaid(j) \/ FinishClosed(j) \/ FinishUnanswered(j)
    /\ call' = [call EXCEPT ![j] = NoCall]
    /\ UNCHANGED <<channelVars, log, handoff, check, sent, crashes>>

\* The worker stops; another claims the job when the lease runs out.
Crash(j) ==
    /\ call[j].step # "idle"
    /\ crashes < MaxCrashes
    /\ crashes' = crashes + 1
    /\ call' = [call EXCEPT ![j] = NoCall]
    /\ UNCHANGED <<channelVars, log, orderVars, handoff, check, job, sent,
                   retries, task>>

------------------------------------------------------------------------------
WorkerStep(j) == BeginCall(j) \/ QueryTrade(j) \/ CloseTrade(j) \/ FinishCall(j)

TradeNext ==
    \/ BuyerOpens \/ BuyerPays \/ ChannelCloses
    \/ PrepareHandoff \/ ConfirmClose \/ RequestRecheck
    \/ \E c \in Checkers : AskChannel(c) \/ ApplyAnswer(c)
    \/ \E k \in Kinds : Notify(k)
    \/ \E j \in Jobs : WorkerStep(j) \/ Crash(j)

TradeSpec == TradeInit /\ [][TradeNext]_tradeVars

\* The worker runs, and the channel repeats the report of a payment until it is
\* acknowledged; the buyer and people owe nothing.
TradeFairSpec ==
    /\ TradeSpec
    /\ \A j \in Jobs : WF_tradeVars(WorkerStep(j))
    /\ WF_tradeVars(Notify("paid"))

------------------------------------------------------------------------------
(* Properties.                                                             *)

TradeTypeOK ==
    /\ trade \in [state : Kinds \cup {"none"}, everPaid : BOOLEAN]
    /\ inbox \subseteq Kinds
    /\ log \in [Kinds -> {"none", "applied", "quarantined"}]
    /\ order \in [status : {"created", "fulfilling", "cancelled"},
                  payment : {"pending", "unknown", "paid", "closed"}]
    /\ attempt \in {"pending", "unknown", "paid", "closed"}
    /\ item \in {"committed", "cancelled"}
    /\ recorded \subseteq {"paid", "closed"}
    /\ handoff \in {"none", "processing", "unknown", "succeeded"}
    /\ check \in [Checkers -> [seen : Seen \cup {"nothing"},
                               handoff : BOOLEAN]]
    /\ job \in [Jobs -> {"none", "open", "succeeded", "pending_review"}]
    /\ sent \in BOOLEAN
    /\ call \in [Jobs -> [step : {"idle", "begun", "closing", "answered"},
                          fresh : BOOLEAN, paid : BOOLEAN,
                          seen : Seen \cup {"nothing"}]]
    /\ task \in [Jobs \cup {"conflict"} -> {"none", "open", "resolved"}]
    /\ retries \in 0 .. MaxRetries
    /\ crashes \in 0 .. MaxCrashes

\* Whatever order the answers, notifications and worker results are applied
\* in, the order never claims more than the channel has done: it is paid only
\* if the buyer paid, closed only if the trade is closed.
FactsComeFromChannel ==
    /\ order.payment = "paid" => trade.everPaid
    /\ order.payment = "closed" => trade.state = "closed"
    /\ {attempt, order.payment} \cap {"paid", "closed"} # {}
          => attempt = order.payment

\* The budget commitment ends only with an order that is closed, and a close
\* that is reported as done has closed the order and ended the commitment.
CommitmentEndsWithOrder ==
    /\ item = "cancelled" => order.payment = "closed"
    /\ job["close"] = "succeeded" =>
          order.payment = "closed" /\ item = "cancelled"

\* A payment the channel reports is never lost: it is on the order, or a
\* person has been asked about it.
PaymentReportSurfaces ==
    log["paid"] # "none" => order.payment = "paid" \/ task["conflict"] = "open"

\* The order follows the channel and the budget the order, whatever arrives in
\* whatever sequence (payment-rechecks, notify, processChannelJob).
OrderFollowsChannel ==
    /\ TradeTypeOK
    /\ FactsComeFromChannel
    /\ CommitmentEndsWithOrder
    /\ PaymentReportSurfaces

\* Paid and closed are final, whatever is applied late.
DecidedIsFinal ==
    [][order.payment \in {"paid", "closed"} =>
          order'.payment = order.payment]_tradeVars

\* A confirmed close is answered in the end.
CloseSettles == job["close"] = "open" ~> job["close"] # "open"

\* What the buyer paid is learned in the end, whichever close, enquiry or
\* notification came first: the order is paid, or a person is asked.
PaymentLearned ==
    trade.everPaid ~> order.payment = "paid" \/ task["conflict"] = "open"

\* A close ends the budget commitment, however it became known.
ClosedReleasesBudget == order.payment = "closed" => item # "committed"

\* A notification that says what the order says can be acknowledged.
AgreeingNotificationAccepted ==
    \A k \in inbox :
        log[k] = "none" /\ order.payment = k => ENABLED Notify(k)

\* An order whose payment was learned and acknowledged has no payment operation
\* left open: nothing would end it any more, and it keeps the period from being
\* archived.
HandoffEndsWithOrder ==
    order.payment = "paid" /\ log["paid"] = "applied" => handoff = "succeeded"
==============================================================================
