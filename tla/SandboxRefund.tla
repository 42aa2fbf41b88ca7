---------------------------- MODULE SandboxRefund ----------------------------
(***************************************************************************)
(* The refund of one cancellation through the external channel: its one or *)
(* two batches, made when the consumer confirms                            *)
(* (domain/consumer-aftercare.ts) or, if the rule asks the merchant first, *)
(* by the merchant (domain/merchant-consumer.ts), the request that the     *)
(* worker sends once and then only asks about (domain/channel-worker.ts),  *)
(* and the enquiries that the consumer (routes/consumer-aftercare.ts) and  *)
(* the merchant (domain/operation-rechecks.ts) start beside it.            *)
(*                                                                         *)
(* The batches that a merchant schedules carry the merchant, those of a    *)
(* consumer the provider.  The worker takes only the latter: an order of a *)
(* consumer has no merchant_id to compare.                                 *)
(*                                                                         *)
(* An enquiry is an operation of its own about the refund number of the    *)
(* batch.  It can settle the operation that requested the refund, whatever *)
(* that one is doing.                                                      *)
(*                                                                         *)
(* The order is paid and stays so (SandboxTrade), the cancellation is not  *)
(* rejected (SimulatedOrder has that); a refund whose request              *)
(* was sent may take effect at any time after, even when the worker that   *)
(* sent it is gone.  Leases are those of JobLease: a worker that was       *)
(* overtaken is one that crashed.                                          *)
(***************************************************************************)
EXTENDS Naturals

CONSTANTS
    Enquiries,      \* operations of type sandbox_refund_recheck
    First, Second,  \* refund_batches.amount_minor by number
    Amount,         \* orders.amount_minor
    MaxRefundRetries,     \* bound: retries of one refund within thirty minutes
    MaxRefundCrashes      \* bound: workers that stop between two steps

Numbers == {1, 2}

ASSUME RefundAssumption ==
    /\ Enquiries \cap Numbers = {}
    /\ First \in Nat \ {0} /\ Second \in Nat \ {0}
    /\ Amount \in Nat /\ First + Second <= Amount
    /\ MaxRefundRetries \in Nat /\ MaxRefundCrashes \in Nat

\* A refund operation is named by the number of its batch.
Ops == Numbers \cup Enquiries

VARIABLES
    plan,          \* the numbers of the batches the rule asks for
    refund,        \* each refund number at the channel
    finished,      \* payment_attempts.provider_status = TRADE_FINISHED
    planner,       \* who made the batches: merchant_id or responsible_provider
    request,       \* cancellation_requests.status
    refundOrder,   \* status and refunded_minor of the order
    batch,         \* refund_batches.status
    verified,      \* batches with a refund_verified event
    op,            \* operations.state
    about,         \* what an enquiry was asked about, and by whom
    refundSent,    \* operations.sent_at of a refund is not null
    refundCall,    \* the worker that has claimed the operation
    refundTask,    \* the manual task of the operation
    refundRetries, \* retries of a refund so far
    refundCrashes

refundVars == <<request, refundOrder, batch, verified>>
sandboxRefundVars == <<plan, planner, refund, finished, refundVars, op, about,
                       refundSent, refundCall, refundTask, refundRetries,
                       refundCrashes>>

NoQuestion == [by |-> "nobody", op |-> 1, batch |-> 1]
NoRefundCall == [step |-> "idle", seen |-> "nothing"]

Sum(S) == (IF 1 \in S THEN First ELSE 0) + (IF 2 \in S THEN Second ELSE 0)
Succeeded == {n \in plan : batch[n] = "succeeded"}

\* cancellation_requests.accepted_refund_minor
Accepted == Sum(plan)

BatchOf(o) == IF o \in Numbers THEN o ELSE about[o].batch

\* accepted or processing: what the routes take for an enquiry under way
Running(o) == op[o] \in {"accepted", "processing"}

------------------------------------------------------------------------------
RefundInit ==
    /\ plan \in {{1}, {1, 2}}
    /\ planner = "nobody"
    /\ refund = [n \in Numbers |-> "none"]
    /\ finished = FALSE
    /\ request = "none"
    /\ refundOrder = [status |-> "fulfilling", refunded |-> 0]
    /\ batch = [n \in Numbers |-> "none"]
    /\ verified = {}
    /\ op = [o \in Ops |-> "none"]
    /\ about = [e \in Enquiries |-> NoQuestion]
    /\ refundSent = [n \in Numbers |-> FALSE]
    /\ refundCall = [o \in Ops |-> NoRefundCall]
    /\ refundTask = [o \in Ops |-> "none"]
    /\ refundRetries = [n \in Numbers |-> 0]
    /\ refundCrashes = 0

\* The batches and their operations.
MakeBatches(who) ==
    /\ batch = [n \in Numbers |-> "none"]
    /\ planner' = who
    /\ request' = "refund_processing"
    /\ refundOrder' = [refundOrder EXCEPT !.status = "cancellation_processing"]
    /\ batch' = [n \in Numbers |-> IF n \in plan THEN "pending" ELSE "none"]
    /\ op' = [o \in Ops |-> IF o \in plan THEN "accepted" ELSE op[o]]
    /\ UNCHANGED <<plan, refund, finished, verified, about, refundSent,
                   refundCall, refundTask, refundRetries, refundCrashes>>

\* The consumer confirms a cancellation that the rule approves.
ConfirmApproved ==
    /\ request = "none"
    /\ MakeBatches("consumer")

Decision(status) ==
    /\ request' = status
    /\ refundOrder' = [refundOrder EXCEPT !.status = "cancellation_processing"]
    /\ UNCHANGED <<plan, planner, refund, finished, batch, verified, op,
                   about, refundSent, refundCall, refundTask, refundRetries,
                   refundCrashes>>

\* The consumer confirms a cancellation that the merchant has to decide.
ConfirmDelayed == request = "none" /\ Decision("delayed")

\* The merchant approves, and then schedules the refund; once.
Decide == request = "delayed" /\ Decision("approved")

ScheduleRefund ==
    /\ request = "approved"
    /\ refundOrder.refunded + Accepted <= Amount
    /\ MakeBatches("merchant")

------------------------------------------------------------------------------
(* The channel.                                                            *)

\* A refund that was requested takes effect.
ChannelReturns(n) ==
    /\ refund[n] = "requested"
    /\ refund' = [refund EXCEPT ![n] = "returned"]
    /\ UNCHANGED <<plan, planner, finished, refundVars, op, about, refundSent,
                   refundCall, refundTask, refundRetries, refundCrashes>>

\* An enquiry about the payment observes that the trade is finished.
TradeFinishes ==
    /\ ~finished
    /\ finished' = TRUE
    /\ UNCHANGED <<plan, planner, refund, refundVars, op, about, refundSent,
                   refundCall, refundTask, refundRetries, refundCrashes>>

------------------------------------------------------------------------------
(* Enquiries.                                                              *)

LastBatch == IF 2 \in plan THEN 2 ELSE 1

StartEnquiry(e, by, o, n) ==
    /\ op[e] = "none"
    /\ op' = [op EXCEPT ![e] = "accepted"]
    /\ about' = [about EXCEPT ![e] = [by |-> by, op |-> o, batch |-> n]]
    /\ UNCHANGED <<plan, planner, refund, finished, refundVars, refundSent,
                   refundCall, refundTask, refundRetries, refundCrashes>>

\* POST refund-rechecks: about the last batch, unless something runs for it.
ConsumerAsks(e) ==
    /\ batch[LastBatch] \notin {"none", "succeeded"}
    /\ \A o \in Ops : op[o] # "none" /\ BatchOf(o) = LastBatch => ~Running(o)
    /\ StartEnquiry(e, "consumer", LastBatch, LastBatch)

\* requestOperationRecheck: about any operation, in any state, unless an
\* enquiry about the same operation runs.
MerchantAsks(e, o) ==
    /\ op[o] # "none"
    /\ \A f \in Enquiries :
          about[f].by = "merchant" /\ about[f].op = o => ~Running(f)
    /\ StartEnquiry(e, "merchant", o, BatchOf(o))

------------------------------------------------------------------------------
(* The worker.                                                             *)

Claim(o) ==
    /\ op[o] \in {"accepted", "processing", "unknown"}
    /\ refundCall[o].step = "idle"
    /\ op' = [op EXCEPT ![o] = "processing"]
    /\ refundCall' = [refundCall EXCEPT ![o].step = "claimed"]
    /\ UNCHANGED <<plan, planner, refund, finished, refundVars, about,
                   refundSent, refundTask, refundRetries, refundCrashes>>

\* The fence of both transactions.
Holds(o) == op[o] = "processing"

\* What both transactions demand of the batch besides.
Known == planner = "consumer"

\* Any other batch is an error: the transaction rolls back, the claim runs out
\* and the job is claimed again.
Throw(o) ==
    /\ refundCall[o].step # "idle"
    /\ Holds(o)
    /\ ~Known
    /\ refundCall' = [refundCall EXCEPT ![o] = NoRefundCall]
    /\ UNCHANGED <<plan, planner, refund, finished, refundVars, op, about,
                   refundSent, refundTask, refundRetries, refundCrashes>>

\* The decision or the amount no longer allows the refund, or it was never sent
\* and the channel does not refund a finished trade.
Blocked(n) ==
    \/ request \notin {"approved", "refund_processing"}
    \/ /\ ~refundSent[n]
       /\ \/ finished
          \/ refundOrder.refunded + (IF n = 1 THEN First ELSE Second) > Amount

\* The request for a refund number; what the channel answers to it is not taken
\* for the result.
refundAlipayTrade(n) == refund' = [refund EXCEPT ![n] = "requested"]

\* First transaction of a refund, and the request if it was never sent.
BeginRefund(n) ==
    /\ refundCall[n].step = "claimed"
    /\ Holds(n) /\ Known
    /\ \/ /\ Blocked(n)
          /\ refundCall' = [refundCall EXCEPT
                 ![n] = [step |-> "answered", seen |-> "blocked"]]
          /\ UNCHANGED <<refund, batch, refundSent>>
       \/ /\ ~Blocked(n) /\ ~refundSent[n]
          /\ batch' = [batch EXCEPT ![n] = "processing"]
          /\ refundSent' = [refundSent EXCEPT ![n] = TRUE]
          /\ refundAlipayTrade(n)
          /\ refundCall' = [refundCall EXCEPT
                 ![n] = [step |-> "answered", seen |-> "receipt"]]
       \/ /\ ~Blocked(n) /\ refundSent[n]
          /\ refundCall' = [refundCall EXCEPT ![n].step = "asking"]
          /\ UNCHANGED <<refund, batch, refundSent>>
    /\ UNCHANGED <<plan, planner, finished, request, refundOrder, verified,
                   op, about, refundTask, refundRetries, refundCrashes>>

BeginEnquiry(e) ==
    /\ refundCall[e].step = "claimed"
    /\ Holds(e) /\ Known
    /\ refundCall' = [refundCall EXCEPT ![e].step = "asking"]
    /\ UNCHANGED <<plan, planner, refund, finished, refundVars, op, about,
                   refundSent, refundTask, refundRetries, refundCrashes>>

\* The channel is asked about the refund number; the answer may say nothing,
\* or be about something else.
queryAlipayRefund(n) == {refund[n], "doubt"}

\* An answer counts if it is about this number, order and sum.
refundQueryConfirmed(answer) == answer = "returned"

QueryRefund(o) ==
    /\ refundCall[o].step = "asking"
    /\ \E answer \in queryAlipayRefund(BatchOf(o)) :
          refundCall' = [refundCall EXCEPT ![o] =
              [step |-> "answered",
               seen |-> IF refundQueryConfirmed(answer) THEN "returned"
                        ELSE "doubt"]]
    /\ UNCHANGED <<plan, planner, refund, finished, refundVars, op, about,
                   refundSent, refundTask, refundRetries, refundCrashes>>

\* Tasks are resolved: those of an operation, or all about a batch.
Resolve(S) ==
    refundTask' = [o \in Ops |-> IF o \in S /\ refundTask[o] = "open" THEN "resolved"
                                 ELSE refundTask[o]]

TasksOf(n) == {o \in Ops : op[o] # "none" /\ BatchOf(o) = n}

\* The batch is paid, with everything that follows from it: the order, the
\* request, the event under the refund number and the operation that asked for
\* the refund, which an enquiry settles with its own.
ConfirmBatch(o, n) ==
    /\ batch[n] # "succeeded"
    /\ Sum(Succeeded) + Sum({n}) <= Accepted
    /\ refundOrder.refunded + Sum({n}) <= Amount
    /\ n \notin verified
    /\ batch' = [batch EXCEPT ![n] = "succeeded"]
    /\ verified' = verified \cup {n}
    /\ LET completed == Sum(Succeeded) + Sum({n}) = Accepted IN
       /\ refundOrder' = [status |-> IF completed THEN "cancelled"
                                     ELSE "cancellation_processing",
                    refunded |-> refundOrder.refunded + Sum({n})]
       /\ request' = IF completed THEN "completed" ELSE "refund_processing"
    /\ op' = [op EXCEPT ![n] = "succeeded", ![o] = "succeeded"]

\* Fault variant: what was refunded is added again.
FinishReturnedAgain(o) ==
    /\ refundCall[o].seen = "returned"
    /\ LET n == BatchOf(o) IN
       /\ batch' = [batch EXCEPT ![n] = "succeeded"]
       /\ refundOrder' = [refundOrder EXCEPT !.refunded = @ + Sum({n})]
       /\ verified' = verified \cup {n}
       /\ op' = [op EXCEPT ![n] = "succeeded", ![o] = "succeeded"]
       /\ Resolve(TasksOf(n) \cup {o})
    /\ UNCHANGED <<request, refundRetries>>

\* The refund number is known to have been refunded.
FinishReturned(o) ==
    /\ refundCall[o].seen = "returned"
    /\ LET n == BatchOf(o) IN
       /\ \/ ConfirmBatch(o, n)
          \/ /\ batch[n] = "succeeded"
             /\ op' = [op EXCEPT ![o] = "succeeded"]
             /\ UNCHANGED refundVars
       /\ Resolve(TasksOf(n) \cup {o})
    /\ UNCHANGED refundRetries

\* A person is asked.
Question(o) ==
    /\ op' = [op EXCEPT ![o] = "pending_review"]
    /\ refundTask' = [refundTask EXCEPT ![o] = "open"]

\* Fault variant: after thirty minutes the refund is given up quietly.
FinishRefundQuietly(n) ==
    /\ refundCall[n].seen \in {"doubt", "receipt", "blocked"}
    /\ op' = [op EXCEPT ![n] = "pending_review"]
    /\ batch' = [batch EXCEPT ![n] = "pending_review"]
    /\ UNCHANGED <<request, refundOrder, verified, refundRetries, refundTask>>

\* Nothing certain about a refund: it is asked about again, and after thirty
\* minutes, or when it was not allowed, it is a question for a person.
FinishRefund(n) ==
    /\ refundCall[n].seen \in {"doubt", "receipt", "blocked"}
    /\ \/ /\ Question(n)
          /\ batch' = [batch EXCEPT ![n] = "pending_review"]
          /\ UNCHANGED refundRetries
       \/ /\ refundCall[n].seen # "blocked"
          /\ refundRetries[n] < MaxRefundRetries
          /\ refundRetries' = [refundRetries EXCEPT ![n] = @ + 1]
          /\ op' = [op EXCEPT ![n] = "unknown"]
          /\ batch' = [batch EXCEPT ![n] = "unknown"]
          /\ UNCHANGED refundTask
    /\ UNCHANGED <<request, refundOrder, verified>>

\* An enquiry that learned nothing is a question for a person at once; the
\* batch keeps its status.
FinishEnquiry(e) ==
    /\ refundCall[e].seen = "doubt"
    /\ Question(e)
    /\ UNCHANGED <<refundVars, refundRetries>>

\* Fault variant: the second transaction has no fence.
FinishCallUnfenced(o) ==
    /\ refundCall[o].step = "answered"
    /\ \/ FinishReturned(o)
       \/ o \in Numbers /\ FinishRefund(o)
       \/ o \in Enquiries /\ FinishEnquiry(o)
    /\ refundCall' = [refundCall EXCEPT ![o] = NoRefundCall]
    /\ UNCHANGED <<plan, planner, refund, finished, about, refundSent,
                   refundCrashes>>

\* Second transaction.
FinishRefundCall(o) ==
    /\ refundCall[o].step = "answered"
    /\ Holds(o) /\ Known
    /\ \/ FinishReturned(o)
       \/ o \in Numbers /\ FinishRefund(o)
       \/ o \in Enquiries /\ FinishEnquiry(o)
    /\ refundCall' = [refundCall EXCEPT ![o] = NoRefundCall]
    /\ UNCHANGED <<plan, planner, refund, finished, about, refundSent,
                   refundCrashes>>

\* The fence fails: the operation was settled by an enquiry.
DropStaleClaim(o) ==
    /\ refundCall[o].step # "idle"
    /\ ~Holds(o)
    /\ refundCall' = [refundCall EXCEPT ![o] = NoRefundCall]
    /\ UNCHANGED <<plan, planner, refund, finished, refundVars, op, about,
                   refundSent, refundTask, refundRetries, refundCrashes>>

\* The worker stops, or throws and rolls back; another claims the job when the
\* lease runs out.
RefundCrash(o) ==
    /\ refundCall[o].step # "idle"
    /\ refundCrashes < MaxRefundCrashes
    /\ refundCrashes' = refundCrashes + 1
    /\ refundCall' = [refundCall EXCEPT ![o] = NoRefundCall]
    /\ UNCHANGED <<plan, planner, refund, finished, refundVars, op, about,
                   refundSent, refundTask, refundRetries>>

------------------------------------------------------------------------------
RefundWorkerStep(o) ==
    \/ Claim(o)
    \/ Throw(o)
    \/ o \in Numbers /\ BeginRefund(o)
    \/ o \in Enquiries /\ BeginEnquiry(o)
    \/ QueryRefund(o)
    \/ FinishRefundCall(o)
    \/ DropStaleClaim(o)

RefundNext ==
    \/ ConfirmApproved \/ ConfirmDelayed
    \/ Decide \/ ScheduleRefund
    \/ TradeFinishes
    \/ \E n \in Numbers : ChannelReturns(n)
    \/ \E e \in Enquiries : ConsumerAsks(e)
    \/ \E e \in Enquiries, o \in Ops : MerchantAsks(e, o)
    \/ \E o \in Ops : RefundWorkerStep(o) \/ RefundCrash(o)

RefundSpec == RefundInit /\ [][RefundNext]_sandboxRefundVars

\* The worker runs.  The channel, the consumer and the merchant owe nothing.
RefundFairSpec ==
    RefundSpec /\ \A o \in Ops : WF_sandboxRefundVars(RefundWorkerStep(o))

------------------------------------------------------------------------------
(* Properties.                                                             *)

RefundTypeOK ==
    /\ plan \in {{1}, {1, 2}}
    /\ refund \in [Numbers -> {"none", "requested", "returned"}]
    /\ finished \in BOOLEAN
    /\ planner \in {"nobody", "consumer", "merchant"}
    /\ request \in {"none", "delayed", "approved", "refund_processing",
                    "completed"}
    /\ refundOrder \in [status : {"fulfilling", "cancellation_processing",
                             "cancelled"},
                  refunded : Nat]
    /\ batch \in [Numbers -> {"none", "pending", "processing", "unknown",
                              "pending_review", "succeeded"}]
    /\ verified \subseteq Numbers
    /\ op \in [Ops -> {"none", "accepted", "processing", "unknown",
                       "pending_review", "succeeded"}]
    /\ about \in [Enquiries -> [by : {"nobody", "consumer", "merchant"},
                                op : Ops, batch : Numbers]]
    /\ refundSent \in [Numbers -> BOOLEAN]
    /\ refundCall \in [Ops -> [step : {"idle", "claimed", "asking", "answered"},
                               seen : {"nothing", "returned", "doubt", "receipt",
                                       "blocked"}]]
    /\ refundTask \in [Ops -> {"none", "open", "resolved"}]
    /\ refundRetries \in [Numbers -> 0 .. MaxRefundRetries]
    /\ refundCrashes \in 0 .. MaxRefundCrashes

\* A batch is booked as paid only when the channel has returned it, whoever
\* asked, and the refund of each is requested before it is asked about.
RefundsFollowChannel ==
    \A n \in Numbers :
        /\ batch[n] = "succeeded" => refund[n] = "returned"
        /\ refund[n] # "none" <=> refundSent[n]

\* What several workers and enquiries book about the same refund numbers is
\* booked once: the order, the events and the request agree with the batches.
RefundBookedOnce ==
    /\ refundOrder.refunded = Sum(Succeeded)
    /\ verified = Succeeded
    /\ request = "completed" <=> Succeeded = plan
    /\ refundOrder.status = "cancelled" <=> Succeeded = plan

\* An operation and its batch are settled together, also by an enquiry, and a
\* refund that is given up has a person who was asked.
OperationFollowsBatch ==
    \A n \in plan :
        /\ batch[n] = "succeeded" <=> op[n] = "succeeded"
        /\ batch[n] = "pending_review" <=> op[n] = "pending_review"
        /\ batch[n] = "pending_review" <=> refundTask[n] = "open"

\* Batch, operation, request, order and events tell one story about a refund,
\* and it is the story of the channel (processChannelJob, second transaction).
RefundTellsOneStory ==
    /\ RefundTypeOK
    /\ RefundsFollowChannel
    /\ RefundBookedOnce
    /\ OperationFollowsBatch

\* A worker that comes late takes nothing back: a booked refund stays booked,
\* and a settled operation changes at most from an open question to a success.
SettledStays ==
    [][/\ \A n \in Numbers : batch[n] = "succeeded" => batch'[n] = "succeeded"
       /\ \A o \in Ops :
             /\ op[o] = "succeeded" => op'[o] = "succeeded"
             /\ op[o] = "pending_review" =>
                   op'[o] \in {"pending_review", "succeeded"}]_sandboxRefundVars

\* A refund the channel made is learned, or a person is asked.
ReturnLearned ==
    \A n \in Numbers :
        refund[n] = "returned" ~> batch[n] = "succeeded" \/ refundTask[n] = "open"

\* Every refund the worker may take, and every enquiry about one, gets a result.
OperationsSettle ==
    \A o \in Ops :
        op[o] = "accepted" /\ Known ~> op[o] \in {"succeeded", "pending_review"}

\* No refund is forgotten, through crashes, retries and late answers
\* (processChannelJob): neither the money nor the operation about it.
RefundsSettle == ReturnLearned /\ OperationsSettle

\* A refund that was scheduled, by whomever, is requested from the channel, or
\* a person is asked.
ScheduledRefundIsSent ==
    \A n \in Numbers :
        batch[n] = "pending" ~> refundSent[n] \/ refundTask[n] = "open"

\* A refund that is booked leaves no question about it open.
BookedRefundAsksNobody ==
    \A o \in Ops :
        op[o] # "none" /\ batch[BatchOf(o)] = "succeeded" => refundTask[o] # "open"
==============================================================================
