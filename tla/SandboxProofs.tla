---------------------------- MODULE SandboxProofs ----------------------------
(***************************************************************************)
(* Proofs about one order and the external channel: its payment, for any   *)
(* overlapping enquiries, retries and crashes; its refund, for any amounts,*)
(* enquiries and bounds on retries and crashes.                            *)
(***************************************************************************)
EXTENDS SandboxTrade, SandboxRefund, TLAPS

------------------------------------------------------------------------------
(***************************************************************************)
(* The payment: the inductive invariant, and every step of it.             *)
(***************************************************************************)
\* Something that was seen of the trade and still holds: it was paid, and a
\* trade that was closed stays so.
StillTrue(seen) ==
    /\ seen = "paid" => trade.everPaid
    /\ seen = "closed" => trade.state = "closed"

\* Everything that is on its way to the order is still true of the channel,
\* however long ago it was seen.
SeenIsTrue ==
    /\ trade.state = "paid" => trade.everPaid
    /\ \A k \in inbox : StillTrue(k)
    /\ \A c \in Checkers : StillTrue(check[c].seen)
    /\ \A j \in Jobs : StillTrue(call[j].seen)

TradeIInv == OrderFollowsChannel /\ SeenIsTrue

LEMMA TradeInitInv == TradeInit => TradeIInv
  <1> SUFFICES ASSUME TradeInit PROVE TradeIInv
    OBVIOUS
  <1> USE DEF TradeInit
  <1>1. 0 \in 0 .. MaxRetries /\ 0 \in 0 .. MaxCrashes
    BY TradeAssumption
  <1>2. NoCheck \in [seen : Seen \cup {"nothing"}, handoff : BOOLEAN]
    BY DEF NoCheck
  <1>3. NoCall \in [step : {"idle", "begun", "closing", "answered"},
                    fresh : BOOLEAN, paid : BOOLEAN, seen : Seen \cup {"nothing"}]
    BY DEF NoCall
  <1>4. TradeTypeOK
    BY <1>1, <1>2, <1>3 DEF TradeTypeOK, Kinds
  <1>5. NoCheck.seen = "nothing" /\ NoCall.seen = "nothing"
    BY DEF NoCheck, NoCall
  <1>6. SeenIsTrue
    BY <1>5 DEF SeenIsTrue, StillTrue
  <1>7. FactsComeFromChannel /\ CommitmentEndsWithOrder /\ PaymentReportSurfaces
    BY DEF FactsComeFromChannel, CommitmentEndsWithOrder, PaymentReportSurfaces,
           Jobs, Kinds
  <1>q. QED BY <1>4, <1>6, <1>7 DEF TradeIInv, OrderFollowsChannel

------------------------------------------------------------------------------
(* The order, its payment attempt and its commitment.                      *)

OrderTyped ==
    /\ order \in [status : {"created", "fulfilling", "cancelled"},
                  payment : {"pending", "unknown", "paid", "closed"}]
    /\ attempt \in {"pending", "unknown", "paid", "closed"}
    /\ item \in {"committed", "cancelled"}
    /\ recorded \subseteq {"paid", "closed"}

\* What a step must not do to a payment that is decided.
Final ==
    order.payment \in {"paid", "closed"} => order'.payment = order.payment

\* What a step that changes the order owes to the rest of the invariant.
OrderSound ==
    /\ OrderTyped' /\ FactsComeFromChannel' /\ Final
    /\ item' = "cancelled" => order'.payment = "closed"
    /\ item = "cancelled" => item' = "cancelled"
    /\ order.payment = "paid" => order'.payment = "paid"

LEMMA OrderParts ==
    ASSUME TradeIInv
    PROVE  /\ OrderTyped /\ FactsComeFromChannel
           /\ item = "cancelled" => order.payment = "closed"
  BY DEF TradeIInv, OrderFollowsChannel, TradeTypeOK, OrderTyped, CommitmentEndsWithOrder

LEMMA OrderKept ==
    ASSUME TradeIInv, UNCHANGED <<order, attempt, item, recorded>>,
                trade.everPaid => trade'.everPaid,
                trade.state = "closed" => trade'.state = "closed"
    PROVE  OrderSound
  BY OrderParts DEF OrderSound, OrderTyped, FactsComeFromChannel, Final

LEMMA OrderPaid ==
    ASSUME TradeIInv, MarkPaid, UNCHANGED trade, trade.everPaid, order.payment # "closed"
    PROVE  OrderSound /\ order'.payment = "paid"
  BY OrderParts
  DEF OrderSound, OrderTyped, FactsComeFromChannel, Final, MarkPaid, Record

LEMMA OrderClosed ==
    ASSUME TradeIInv, order' = [status |-> "cancelled", payment |-> "closed"],
                attempt' = "closed", item' \in {item, "cancelled"},
                recorded' \subseteq {"paid", "closed"},
                UNCHANGED trade, trade.state = "closed", order.payment # "paid"
    PROVE  OrderSound /\ order'.payment = "closed"
  BY OrderParts DEF OrderSound, OrderTyped, FactsComeFromChannel, Final

LEMMA OrderUndecided ==
    ASSUME TradeIInv, Undecided, UNCHANGED <<trade, item, recorded>>,
                attempt' \in {"pending", "unknown"},
                order'.status = order.status, order'.payment \in {"pending", "unknown"},
                order' = [order EXCEPT !.payment = order'.payment]
    PROVE  OrderSound
  <1>1. order' \in [status : {"created", "fulfilling", "cancelled"},
                    payment : {"pending", "unknown", "paid", "closed"}]
    BY OrderParts DEF OrderTyped
  <1>q. QED BY <1>1, OrderParts
            DEF OrderSound, OrderTyped, FactsComeFromChannel, Final, Undecided

------------------------------------------------------------------------------
(* Steps that leave the order alone.                                       *)

\* The channel moves on: what was seen stays true.
LEMMA ChannelInv ==
    ASSUME TradeIInv, NEW s \in {"wait", "paid", "closed"}, TradeBecomes(s), LocalUnchanged,
                trade.state # "closed"
    PROVE  TradeIInv' /\ OrderSound
  <1>1. TradeTypeOK /\ SeenIsTrue
    BY DEF TradeIInv, OrderFollowsChannel
  <1>2. /\ trade' = [state |-> s, everPaid |-> trade.everPaid \/ s = "paid"]
        /\ inbox' = inbox \cup {s}
        /\ UNCHANGED <<log, order, attempt, item, recorded, handoff, check,
                       job, sent, call, retries, crashes, task>>
    BY DEF TradeBecomes, LocalUnchanged, orderVars, workerVars
  <1>3. trade'.state = s /\ (s = "paid" => trade'.everPaid)
        /\ (trade.everPaid => trade'.everPaid)
        /\ trade' \in [state : Kinds \cup {"none"}, everPaid : BOOLEAN]
    BY <1>1, <1>2 DEF TradeTypeOK, Kinds
  <1>4. OrderSound
    BY <1>1, <1>2, <1>3, OrderKept
  <1>5. TradeTypeOK'
    BY <1>1, <1>2, <1>3 DEF TradeTypeOK, Kinds
  <1>6. \A x : StillTrue(x) => StillTrue(x)'
    BY <1>1, <1>3 DEF StillTrue
  <1>7. StillTrue(s)'
    BY <1>3 DEF StillTrue
  <1>8. SeenIsTrue'
    BY <1>1, <1>2, <1>3, <1>6, <1>7 DEF SeenIsTrue
  <1>9. CommitmentEndsWithOrder' /\ PaymentReportSurfaces'
    BY <1>2 DEF TradeIInv, OrderFollowsChannel, CommitmentEndsWithOrder, PaymentReportSurfaces
  <1>q. QED BY <1>4, <1>5, <1>8, <1>9 DEF TradeIInv, OrderFollowsChannel, OrderSound

\* A step of this program: it leaves the channel alone, treats the order as
\* it must, and writes down nothing it has not seen.
LEMMA LocalInv ==
    ASSUME TradeIInv, UNCHANGED <<trade, inbox>>, OrderSound, TradeTypeOK',
                \A c \in Checkers : StillTrue(check'[c].seen),
                \A j \in Jobs : StillTrue(call'[j].seen),
                job'["close"] = "succeeded" =>
                   job["close"] = "succeeded" \/ (order'.payment = "closed" /\ item' = "cancelled"),
                log'["paid"] # "none" =>
                   log["paid"] # "none" \/ order'.payment = "paid" \/ task'["conflict"] = "open",
                task["conflict"] = "open" => task'["conflict"] = "open"
    PROVE  TradeIInv'
  <1>1. \A x : StillTrue(x)' <=> StillTrue(x)
    BY DEF StillTrue
  <1>2. SeenIsTrue'
    BY <1>1 DEF TradeIInv, SeenIsTrue, StillTrue
  <1>3. CommitmentEndsWithOrder'
    BY DEF TradeIInv, OrderFollowsChannel, CommitmentEndsWithOrder, OrderSound, Final
  <1>4. PaymentReportSurfaces'
    BY DEF TradeIInv, OrderFollowsChannel, PaymentReportSurfaces, OrderSound
  <1>q. QED BY <1>2, <1>3, <1>4 DEF TradeIInv, OrderFollowsChannel, OrderSound

\* What is known of the state before a step.
LEMMA Before ==
    ASSUME TradeIInv
    PROVE  /\ TradeTypeOK
           /\ \A k \in inbox : StillTrue(k)
           /\ \A c \in Checkers : StillTrue(check[c].seen)
           /\ \A j \in Jobs : StillTrue(call[j].seen)
  BY DEF TradeIInv, OrderFollowsChannel, SeenIsTrue

------------------------------------------------------------------------------
(* The consumer, the merchant and the worker before its second transaction.*)

LEMMA PrepareHandoffInv == ASSUME TradeIInv, PrepareHandoff PROVE TradeIInv' /\ OrderSound
  <1>1. /\ handoff' = "processing"
        /\ UNCHANGED <<trade, inbox, log, order, attempt, item, recorded,
                       check, job, sent, call, retries, crashes, task>>
    BY DEF PrepareHandoff, channelVars, orderVars, workerVars
  <1>2. OrderSound
    BY <1>1, OrderKept
  <1>3. TradeTypeOK'
    BY <1>1, Before DEF TradeTypeOK
  <1>q. QED BY <1>1, <1>2, <1>3, Before, LocalInv

LEMMA ConfirmCloseInv == ASSUME TradeIInv, ConfirmClose PROVE TradeIInv' /\ OrderSound
  <1>1. /\ job' = [job EXCEPT !["close"] = "open"]
        /\ UNCHANGED <<trade, inbox, log, order, attempt, item, recorded,
                       handoff, check, sent, call, retries, crashes, task>>
    BY DEF ConfirmClose, channelVars, orderVars
  <1>2. OrderSound
    BY <1>1, OrderKept
  <1>3. TradeTypeOK' /\ job'["close"] = "open"
    BY <1>1, Before DEF TradeTypeOK, Jobs
  <1>q. QED BY <1>1, <1>2, <1>3, Before, LocalInv

\* What an enquiry sees is true.
LEMMA QueryTrue ==
    ASSUME TradeIInv, NEW seen \in queryAlipayTrade
    PROVE  StillTrue(seen) /\ seen \in Seen
  BY Before DEF StillTrue, queryAlipayTrade, TradeIInv, SeenIsTrue, TradeTypeOK, Seen, Kinds

LEMMA AskChannelInv ==
    ASSUME TradeIInv, NEW c \in Checkers, AskChannel(c) PROVE TradeIInv' /\ OrderSound
  <1>1. PICK seen \in queryAlipayTrade :
          check' = [check EXCEPT ![c] = [seen |-> seen, handoff |-> handoff # "none"]]
    BY DEF AskChannel
  <1>2. UNCHANGED <<trade, inbox, log, order, attempt, item, recorded,
                    handoff, job, sent, call, retries, crashes, task>>
    BY DEF AskChannel, channelVars, orderVars, workerVars
  <1>3. StillTrue(seen) /\ seen \in Seen
    BY QueryTrue
  <1>4. OrderSound
    BY <1>2, OrderKept
  <1>5. /\ check' \in [Checkers -> [seen : Seen \cup {"nothing"}, handoff : BOOLEAN]]
        /\ \A x \in Checkers : StillTrue(check'[x].seen)
    BY <1>1, <1>3, Before DEF TradeTypeOK
  <1>6. TradeTypeOK'
    BY <1>2, <1>5, Before DEF TradeTypeOK
  <1>q. QED BY <1>2, <1>4, <1>5, <1>6, Before, LocalInv

LEMMA RequestRecheckInv == ASSUME TradeIInv, RequestRecheck PROVE TradeIInv' /\ OrderSound
  <1>1. /\ job' = [job EXCEPT !["query"] = "open"]
        /\ task' = [task EXCEPT !["query"] = "none"]
        /\ UNCHANGED <<trade, inbox, log, order, attempt, item, recorded,
                       handoff, check, sent, call, retries, crashes>>
    BY DEF RequestRecheck, channelVars, orderVars
  <1>2. OrderSound
    BY <1>1, OrderKept
  <1>3. TradeTypeOK' /\ job'["close"] = job["close"] /\ task'["conflict"] = task["conflict"]
    BY <1>1, Before DEF TradeTypeOK, Jobs
  <1>q. QED BY <1>1, <1>2, <1>3, Before, LocalInv

CallType == [step : {"idle", "begun", "closing", "answered"},
             fresh : BOOLEAN, paid : BOOLEAN, seen : Seen \cup {"nothing"}]

\* The worker goes on with one call, without touching the order.
LEMMA CallInv ==
    ASSUME TradeIInv, NEW j \in Jobs, NEW new \in CallType, StillTrue(new.seen),
                call' = [call EXCEPT ![j] = new],
                sent' \in BOOLEAN, crashes' \in 0 .. MaxCrashes,
                UNCHANGED <<trade, inbox, log, order, attempt, item, recorded,
                            handoff, check, job, retries, task>>
    PROVE  TradeIInv' /\ OrderSound
  <1>1. OrderSound
    BY OrderKept
  <1>2. call' \in [Jobs -> CallType] /\ \A x \in Jobs : StillTrue(call'[x].seen)
    BY Before DEF TradeTypeOK, CallType
  <1>3. TradeTypeOK'
    BY <1>2, Before DEF TradeTypeOK, CallType
  <1>q. QED BY <1>1, <1>2, <1>3, Before, LocalInv

LEMMA BeginCallInv == ASSUME TradeIInv, NEW j \in Jobs, BeginCall(j) PROVE TradeIInv' /\ OrderSound
  <1> DEFINE new == [step |-> "begun", fresh |-> j = "close" /\ ~sent,
                     paid |-> order.payment = "paid", seen |-> "nothing"]
  <1>1. /\ call' = [call EXCEPT ![j] = new]
        /\ sent' = (sent \/ j = "close")
        /\ UNCHANGED <<trade, inbox, log, order, attempt, item, recorded,
                       handoff, check, job, retries, crashes, task>>
    BY DEF BeginCall, channelVars, orderVars
  <1>2. new \in CallType /\ StillTrue(new.seen)
    BY DEF CallType, StillTrue
  <1> HIDE DEF new
  <1>3. sent' \in BOOLEAN /\ crashes' \in 0 .. MaxCrashes
    BY <1>1, Before DEF TradeTypeOK
  <1>q. QED BY <1>1, <1>2, <1>3, CallInv

LEMMA QueryTradeInv == ASSUME TradeIInv, NEW j \in Jobs, QueryTrade(j) PROVE TradeIInv' /\ OrderSound
  <1>1. PICK seen \in queryAlipayTrade :
          call' = [call EXCEPT ![j].seen = seen,
                               ![j].step = IF seen = "wait" /\ call[j].fresh THEN "closing"
                                           ELSE "answered"]
    BY DEF QueryTrade
  <1> DEFINE new == [call[j] EXCEPT !.seen = seen,
                        !.step = IF seen = "wait" /\ call[j].fresh THEN "closing"
                                 ELSE "answered"]
  <1>2. call[j] \in CallType /\ call \in [Jobs -> CallType]
    BY Before DEF TradeTypeOK, CallType
  <1>3. call' = [call EXCEPT ![j] = new]
    BY <1>1, <1>2
  <1>4. new \in CallType /\ StillTrue(new.seen)
    BY <1>2, QueryTrue DEF CallType
  <1> HIDE DEF new
  <1>5. UNCHANGED <<trade, inbox, log, order, attempt, item, recorded,
                    handoff, check, job, sent, retries, crashes, task>>
    BY DEF QueryTrade, channelVars, orderVars
  <1>6. sent' \in BOOLEAN /\ crashes' \in 0 .. MaxCrashes
    BY <1>5, Before DEF TradeTypeOK
  <1>q. QED BY <1>3, <1>4, <1>5, <1>6, CallInv

LEMMA CrashInv == ASSUME TradeIInv, NEW j \in Jobs, Crash(j) PROVE TradeIInv' /\ OrderSound
  <1>1. /\ call' = [call EXCEPT ![j] = NoCall]
        /\ crashes < MaxCrashes /\ crashes' = crashes + 1
        /\ UNCHANGED <<trade, inbox, log, order, attempt, item, recorded,
                       handoff, check, job, sent, retries, task>>
    BY DEF Crash, channelVars, orderVars
  <1>2. NoCall \in CallType /\ StillTrue(NoCall.seen)
    BY DEF CallType, NoCall, StillTrue
  <1>3. sent' \in BOOLEAN /\ crashes' \in 0 .. MaxCrashes
    BY <1>1, Before, TradeAssumption DEF TradeTypeOK
  <1>q. QED BY <1>1, <1>2, <1>3, CallInv

\* The close request is answered: the channel has closed the trade or not.
LEMMA CloseTradeInv == ASSUME TradeIInv, NEW j \in Jobs, CloseTrade(j) PROVE TradeIInv' /\ OrderSound
  <1> DEFINE new == [call[j] EXCEPT !.step = "answered"]
  <1>1. /\ closeAlipayTrade
        /\ call' = [call EXCEPT ![j].step = "answered"]
        /\ UNCHANGED <<log, order, attempt, item, recorded, handoff, check,
                       job, sent, retries, crashes, task>>
    BY DEF CloseTrade, orderVars
  <1>2. TradeTypeOK /\ SeenIsTrue /\ call[j] \in CallType /\ call \in [Jobs -> CallType]
    BY Before DEF TradeIInv, TradeTypeOK, CallType
  <1>3. call' = [call EXCEPT ![j] = new] /\ new \in CallType /\ new.seen = call[j].seen
    BY <1>1, <1>2 DEF CallType
  <1> HIDE DEF new
  <1>4. CASE UNCHANGED channelVars
    <2>1. UNCHANGED <<trade,
                      inbox>> /\ sent' \in BOOLEAN /\ crashes' \in 0 .. MaxCrashes
      BY <1>1, <1>2, <1>4 DEF channelVars, TradeTypeOK
    <2>2. StillTrue(new.seen)
      BY <1>3, Before
    <2>q. QED BY <1>1, <1>3, <2>1, <2>2, CallInv
  <1>5. CASE trade.state = "wait" /\ TradeBecomes("closed")
    <2>1. /\ trade' = [state |-> "closed", everPaid |-> trade.everPaid]
          /\ inbox' = inbox \cup {"closed"}
      BY <1>2, <1>5 DEF TradeBecomes, TradeTypeOK
    <2>2. trade' \in [state : Kinds \cup {"none"}, everPaid : BOOLEAN]
          /\ trade'.state = "closed" /\ trade'.everPaid = trade.everPaid
      BY <1>2, <2>1 DEF TradeTypeOK, Kinds
    <2>3. OrderSound
      BY <1>1, <2>2, OrderKept
    <2>4. call' \in [Jobs -> CallType] /\ \A x \in Jobs : call'[x].seen = call[x].seen
      BY <1>2, <1>3
    <2>5. TradeTypeOK'
      BY <1>1, <1>2, <2>1, <2>2, <2>4 DEF TradeTypeOK, Kinds, CallType
    <2>6. \A x : StillTrue(x) => StillTrue(x)'
      BY <2>2 DEF StillTrue
    <2>7. SeenIsTrue'
      BY <1>1, <1>2, <2>1, <2>2, <2>4, <2>6 DEF SeenIsTrue, StillTrue
    <2>8. CommitmentEndsWithOrder' /\ PaymentReportSurfaces'
      BY <1>1 DEF TradeIInv, OrderFollowsChannel, CommitmentEndsWithOrder, PaymentReportSurfaces
    <2>q. QED BY <2>3, <2>5, <2>7, <2>8 DEF TradeIInv, OrderFollowsChannel, OrderSound
  <1>q. QED BY <1>1, <1>4, <1>5 DEF closeAlipayTrade

------------------------------------------------------------------------------
(* An answer of the channel is applied.                                    *)

LEMMA HandoffTyped ==
    ASSUME TradeTypeOK, NEW s \in {"processing", "unknown", "succeeded"},
                NEW exists \in BOOLEAN, SetHandoff(exists, s)
    PROVE  handoff' \in {"none", "processing", "unknown", "succeeded"}
  BY DEF SetHandoff, TradeTypeOK

LEMMA ApplyAnswerInv ==
    ASSUME TradeIInv, NEW c \in Checkers, ApplyAnswer(c) PROVE TradeIInv' /\ OrderSound
  <1> DEFINE had == check[c].handoff
  <1>1. /\ check' = [check EXCEPT ![c] = NoCheck]
        /\ UNCHANGED <<trade, inbox, log, job, sent, call, retries, crashes,
                       task>>
    BY DEF ApplyAnswer, channelVars, workerVars
  <1>2. TradeTypeOK /\ StillTrue(check[c].seen) /\ had \in BOOLEAN
    BY Before DEF TradeTypeOK
  <1>3. OrderSound /\ handoff' \in {"none", "processing", "unknown", "succeeded"}
    <2>1. CASE ~Undecided /\ UNCHANGED <<orderVars, handoff>>
      BY <1>1, <1>2, <2>1, OrderKept DEF orderVars, TradeTypeOK
    <2>2. CASE /\ Undecided /\ check[c].seen = "none"
               /\ MarkPayment("pending") /\ SetHandoff(had, "processing")
      <3>1. /\ order' = [order EXCEPT !.payment = "pending"] /\ attempt' = "pending"
            /\ UNCHANGED <<item, recorded>>
        BY <2>2 DEF MarkPayment
      <3>2. order'.payment = "pending" /\ order'.status = order.status
        BY <1>2, <3>1 DEF TradeTypeOK
      <3>q. QED BY <1>1, <1>2, <2>2, <3>1, <3>2, OrderUndecided, HandoffTyped
    <2>3. CASE /\ Undecided /\ check[c].seen = "doubt"
               /\ MarkPayment("unknown") /\ SetHandoff(had, "unknown")
      <3>1. /\ order' = [order EXCEPT !.payment = "unknown"] /\ attempt' = "unknown"
            /\ UNCHANGED <<item, recorded>>
        BY <2>3 DEF MarkPayment
      <3>2. order'.payment = "unknown" /\ order'.status = order.status
        BY <1>2, <3>1 DEF TradeTypeOK
      <3>q. QED BY <1>1, <1>2, <2>3, <3>1, <3>2, OrderUndecided, HandoffTyped
    <2>4. CASE /\ Undecided /\ check[c].seen = "paid"
               /\ MarkPaid /\ SetHandoff(had, "succeeded")
      BY <1>1, <1>2, <2>4, OrderPaid, HandoffTyped DEF StillTrue, Undecided
    <2>5. CASE /\ Undecided /\ check[c].seen = "closed"
               /\ MarkClosed /\ Record("closed") /\ SetHandoff(had, "succeeded")
      <3>1. /\ order' = [status |-> "cancelled", payment |-> "closed"]
            /\ attempt' = "closed" /\ item' \in {item, "cancelled"}
            /\ recorded' \subseteq {"paid", "closed"}
        BY <1>2, <2>5 DEF MarkClosed, Record, TradeTypeOK
      <3>2. trade.state = "closed" /\ order.payment # "paid"
        BY <1>2, <2>5 DEF StillTrue, Undecided
      <3>q. QED BY <1>1, <1>2, <2>5, <3>1, <3>2, OrderClosed, HandoffTyped
    <2>6. CASE /\ Undecided /\ check[c].seen = "wait"
               /\ attempt' = "pending" /\ SetHandoff(had, "processing")
               /\ UNCHANGED <<order, item, recorded>>
      <3>1. /\ order'.payment \in {"pending", "unknown"} /\ order'.status = order.status
            /\ order' = [order EXCEPT !.payment = order'.payment]
        BY <1>2, <2>6 DEF Undecided, TradeTypeOK
      <3>q. QED BY <1>1, <1>2, <2>6, <3>1, OrderUndecided, HandoffTyped
    <2>q. QED BY <2>1, <2>2, <2>3, <2>4, <2>5, <2>6 DEF ApplyAnswer
  <1>4. /\ check' \in [Checkers -> [seen : Seen \cup {"nothing"}, handoff : BOOLEAN]]
        /\ \A x \in Checkers : StillTrue(check'[x].seen)
    <2>1. NoCheck \in [seen : Seen \cup {"nothing"}, handoff : BOOLEAN]
          /\ NoCheck.seen = "nothing"
      BY DEF NoCheck
    <2>q. QED BY <1>1, <1>2, <2>1, Before DEF TradeTypeOK, StillTrue
  <1>5. TradeTypeOK'
    BY <1>1, <1>2, <1>3, <1>4 DEF TradeTypeOK, OrderSound, OrderTyped
  <1>q. QED BY <1>1, <1>3, <1>4, <1>5, Before, LocalInv

------------------------------------------------------------------------------
(* A notification is processed.                                            *)

LEMMA NotifyInv ==
    ASSUME TradeIInv, NEW k \in Kinds, Notify(k) PROVE TradeIInv' /\ OrderSound
  <1>1. /\ k \in inbox /\ log[k] = "none"
        /\ UNCHANGED <<trade, inbox, check, job, sent, call, retries, crashes>>
    BY DEF Notify, verifyAlipayNotification, channelVars, workerVars
  <1>2. TradeTypeOK /\ StillTrue(k)
    BY <1>1, Before
  <1>3. CASE Quarantine(k)
    <2>1. /\ k = "paid" /\ log' = [log EXCEPT ![k] = "quarantined"]
          /\ task' = [task EXCEPT !["conflict"] = "open"]
          /\ UNCHANGED <<order, attempt, item, recorded, handoff>>
      BY <1>3 DEF Quarantine, Conflicts, orderVars
    <2>2. OrderSound
      BY <1>1, <2>1, OrderKept
    <2>3. TradeTypeOK' /\ task'["conflict"] = "open"
      BY <1>1, <1>2, <2>1 DEF TradeTypeOK, Jobs, Kinds
    <2>q. QED BY <1>1, <2>2, <2>3, Before, LocalInv
  <1>4. CASE ApplyNotification(k)
    <2>1. ~Conflicts(k) /\ log' = [log EXCEPT ![k] = "applied"] /\ UNCHANGED task
      BY <1>4 DEF ApplyNotification
    <2>2. OrderSound /\ handoff' \in {"none", "processing", "unknown", "succeeded"}
          /\ (k = "paid" => order'.payment = "paid")
      <3>1. CASE order.payment = "paid" /\ UNCHANGED <<orderVars, handoff>>
        BY <1>1, <1>2, <3>1, OrderKept DEF orderVars, TradeTypeOK
      <3>2. CASE k = "wait" /\ UNCHANGED <<orderVars, handoff>>
        BY <1>1, <1>2, <3>2, OrderKept DEF orderVars, TradeTypeOK
      <3>3. CASE k = "paid" /\ MarkPaid /\ SetHandoff(handoff # "none", "succeeded")
        BY <1>1, <1>2, <2>1, <3>3, OrderPaid, HandoffTyped DEF StillTrue, Conflicts
      <3>4. CASE /\ order.payment # "paid" /\ k = "closed"
                 /\ MarkClosed /\ Record("closed")
                 /\ SetHandoff(handoff # "none", "succeeded")
        <4>1. /\ order' = [status |-> "cancelled", payment |-> "closed"]
              /\ attempt' = "closed" /\ item' \in {item, "cancelled"}
              /\ recorded' \subseteq {"paid", "closed"}
          BY <1>2, <3>4 DEF MarkClosed, Record, TradeTypeOK
        <4>2. trade.state = "closed"
          BY <1>2, <3>4 DEF StillTrue
        <4>q. QED BY <1>1, <1>2, <3>4, <4>1, <4>2, OrderClosed, HandoffTyped
      <3>q. QED BY <1>4, <3>1, <3>2, <3>3, <3>4 DEF ApplyNotification
    <2>3. log' \in [Kinds -> {"none", "applied", "quarantined"}]
          /\ (log'["paid"] # "none" => log["paid"] # "none" \/ k = "paid")
      BY <1>2, <2>1 DEF TradeTypeOK, Kinds
    <2>4. TradeTypeOK'
      BY <1>1, <1>2, <2>1, <2>2, <2>3 DEF TradeTypeOK, OrderSound, OrderTyped
    <2>q. QED BY <1>1, <2>1, <2>2, <2>3, <2>4, Before, LocalInv
  <1>q. QED BY <1>3, <1>4 DEF Notify

------------------------------------------------------------------------------
(* The worker's second transaction.                                        *)

LEMMA EndJobTyped ==
    ASSUME TradeTypeOK, NEW j \in Jobs, NEW s \in {"succeeded", "pending_review"}, EndJob(j, s)
    PROVE  /\ job' \in [Jobs -> {"none", "open", "succeeded", "pending_review"}]
           /\ task' \in [Jobs \cup {"conflict"} -> {"none", "open", "resolved"}]
           /\ retries' \in 0 .. MaxRetries
           /\ task'["conflict"] = task["conflict"]
           /\ job'["close"] = "succeeded" =>
                 job["close"] = "succeeded" \/ (j = "close" /\ s = "succeeded")
  <1>1. job' = [job EXCEPT ![j] = s] /\ retries' = retries
    BY DEF EndJob
  <1>2. task' = [task EXCEPT ![j] = IF s = "pending_review" THEN "open"
                                    ELSE IF task[j] = "open" THEN "resolved" ELSE task[j]]
    BY DEF EndJob
  <1>3. j # "conflict"
    BY DEF Jobs
  <1>q. QED BY <1>1, <1>2, <1>3 DEF TradeTypeOK, Jobs

LEMMA FinishCallInv ==
    ASSUME TradeIInv, NEW j \in Jobs, FinishCall(j) PROVE TradeIInv' /\ OrderSound
  <1>1. /\ call' = [call EXCEPT ![j] = NoCall]
        /\ UNCHANGED <<trade, inbox, log, handoff, check, sent, crashes>>
    BY DEF FinishCall, channelVars
  <1>2. TradeTypeOK /\ StillTrue(call[j].seen)
    BY Before
  <1> DEFINE Ends == /\ job' \in [Jobs -> {"none", "open", "succeeded", "pending_review"}]
                     /\ task' \in [Jobs \cup {"conflict"} -> {"none", "open", "resolved"}]
                     /\ retries' \in 0 .. MaxRetries
                     /\ task'["conflict"] = task["conflict"]
                     /\ job'["close"] = "succeeded" =>
                           job["close"] = "succeeded"
                              \/ (order'.payment = "closed" /\ item' = "cancelled")
  <1>3. OrderSound /\ Ends
    <2>1. CASE FinishPaid(j)
      <3>1. CASE /\ EndJob(j, "pending_review") /\ UNCHANGED orderVars
        BY <1>1, <1>2, <3>1, OrderKept, EndJobTyped DEF orderVars
      <3>2. CASE /\ order.payment # "closed"
                 /\ EndJob(j, IF j = "close" THEN "pending_review" ELSE "succeeded")
                 /\ IF order.payment = "paid" THEN UNCHANGED orderVars ELSE MarkPaid
        <4>1. OrderSound
          BY <1>1, <1>2, <2>1, <3>2, OrderKept, OrderPaid DEF FinishPaid, StillTrue, orderVars
        <4>2. Ends
          BY <1>2, <3>2, EndJobTyped
        <4>q. QED BY <4>1, <4>2
      <3>q. QED BY <2>1, <3>1, <3>2 DEF FinishPaid
    <2>2. CASE FinishClosed(j)
      <3>1. CASE /\ EndJob(j, "pending_review") /\ UNCHANGED orderVars
        BY <1>1, <1>2, <3>1, OrderKept, EndJobTyped DEF orderVars
      <3>2. CASE /\ order.payment # "paid"
                 /\ EndJob(j, "succeeded")
                 /\ order' = [status |-> "cancelled", payment |-> "closed"]
                 /\ attempt' = "closed"
                 /\ item' = IF item = "committed" THEN "cancelled" ELSE item
                 /\ UNCHANGED recorded
        <4>1. item' = "cancelled" /\ recorded' \subseteq {"paid", "closed"}
              /\ trade.state = "closed"
          BY <1>2, <2>2, <3>2 DEF TradeTypeOK, FinishClosed, StillTrue
        <4>2. OrderSound /\ order'.payment = "closed"
          BY <1>1, <3>2, <4>1, OrderClosed
        <4>3. Ends
          BY <1>2, <3>2, <4>1, <4>2, EndJobTyped
        <4>q. QED BY <4>2, <4>3
      <3>q. QED BY <2>2, <3>1, <3>2 DEF FinishClosed
    <2>3. CASE FinishUnanswered(j)
      <3>1. UNCHANGED <<order, attempt, item, recorded>>
        BY <2>3 DEF FinishUnanswered, orderVars
      <3>2. OrderSound
        BY <1>1, <3>1, OrderKept
      <3>3. CASE EndJob(j, "pending_review")
        BY <1>2, <3>2, <3>3, EndJobTyped
      <3>4. CASE /\ retries < MaxRetries /\ retries' = retries + 1
                 /\ UNCHANGED <<job, task>>
        BY <1>2, <3>2, <3>4, TradeAssumption DEF TradeTypeOK
      <3>q. QED BY <2>3, <3>3, <3>4 DEF FinishUnanswered
    <2>q. QED BY <2>1, <2>2, <2>3 DEF FinishCall
  <1>4. /\ call' \in [Jobs -> CallType]
        /\ \A x \in Jobs : StillTrue(call'[x].seen)
    <2>1. NoCall \in CallType /\ NoCall.seen = "nothing"
      BY DEF NoCall, CallType
    <2>q. QED BY <1>1, <1>2, <2>1, Before DEF TradeTypeOK, StillTrue, CallType
  <1>5. TradeTypeOK'
    BY <1>1, <1>2, <1>3, <1>4 DEF TradeTypeOK, OrderSound, OrderTyped, CallType
  <1>q. QED BY <1>1, <1>3, <1>4, <1>5, Before, LocalInv

------------------------------------------------------------------------------
(* The theorems.                                                           *)

LEMMA TradeStepInv == TradeIInv /\ [TradeNext]_tradeVars => TradeIInv' /\ Final
  <1> SUFFICES ASSUME TradeIInv, [TradeNext]_tradeVars PROVE TradeIInv' /\ OrderSound
    BY DEF OrderSound
  <1>1. CASE UNCHANGED tradeVars
    <2>1. UNCHANGED <<trade, inbox, log, order, attempt, item, recorded,
                      handoff, check, job, sent, call, retries, crashes,
                      task>>
      BY <1>1 DEF tradeVars, channelVars, orderVars, workerVars
    <2>2. OrderSound
      BY <2>1, OrderKept
    <2>3. TradeTypeOK'
      BY <2>1, Before DEF TradeTypeOK
    <2>q. QED BY <2>1, <2>2, <2>3, Before, LocalInv
  <1>2. CASE BuyerOpens
    BY <1>2, ChannelInv DEF BuyerOpens
  <1>3. CASE BuyerPays
    BY <1>3, ChannelInv DEF BuyerPays
  <1>4. CASE ChannelCloses
    BY <1>4, ChannelInv DEF ChannelCloses
  <1>5. CASE PrepareHandoff \/ ConfirmClose \/ RequestRecheck
    BY <1>5, PrepareHandoffInv, ConfirmCloseInv, RequestRecheckInv
  <1>6. CASE \E c \in Checkers : AskChannel(c) \/ ApplyAnswer(c)
    BY <1>6, AskChannelInv, ApplyAnswerInv
  <1>7. CASE \E k \in Kinds : Notify(k)
    BY <1>7, NotifyInv
  <1>8. CASE \E j \in Jobs : WorkerStep(j) \/ Crash(j)
    BY <1>8, BeginCallInv, QueryTradeInv, CloseTradeInv, FinishCallInv, CrashInv
    DEF WorkerStep
  <1>q. QED BY <1>1, <1>2, <1>3, <1>4, <1>5, <1>6, <1>7, <1>8 DEF TradeNext

LEMMA TradeInvAlways == TradeSpec => []TradeIInv
  BY TradeInitInv, TradeStepInv, PTL DEF TradeSpec

\* The order never claims more than the channel has done, its budget
\* commitment ends with the order only, and a payment that was reported is on
\* the order or before a person (payment-rechecks, notify, processChannelJob).
THEOREM OrderFollowsChannelAlways == TradeSpec => []OrderFollowsChannel
  <1>1. TradeIInv => OrderFollowsChannel
    BY DEF TradeIInv
  <1>q. QED BY <1>1, TradeInvAlways, PTL

\* Paid and closed are final, whatever is applied late (the row is read again
\* under its lock before an answer is applied, api.ts, channel-worker.ts).
THEOREM DecidedIsFinalAlways == TradeSpec => DecidedIsFinal
  <1>1. TradeIInv /\ [TradeNext]_tradeVars =>
          [order.payment \in {"paid", "closed"} => order'.payment = order.payment]_tradeVars
    BY TradeStepInv DEF Final
  <1>q. QED BY <1>1, TradeInvAlways, PTL DEF TradeSpec, DecidedIsFinal

------------------------------------------------------------------------------
(***************************************************************************)
(* The refund: the inductive invariant, and every step of it.              *)
(***************************************************************************)
\* A worker claims an operation that exists, knows nothing before it asked, and
\* reports as returned only what the channel did return.
ClaimsKnow ==
    \A o \in Ops :
        /\ refundCall[o].step # "idle" => op[o] # "none"
        /\ refundCall[o].step # "answered" => refundCall[o].seen = "nothing"
        /\ refundCall[o].seen = "returned" => refund[BatchOf(o)] = "returned"

\* The batches are made once, together with their operations, and only an
\* operation that exists sends anything.
BatchesArePlanned ==
    /\ planner = "nobody" <=> request \in {"none", "delayed", "approved"}
    /\ \A n \in Numbers :
          /\ batch[n] # "none" <=> n \in plan /\ planner # "nobody"
          /\ op[n] = "none" <=> batch[n] = "none"
          /\ refundSent[n] => op[n] # "none"

RefundIInv ==
    /\ RefundTypeOK
    /\ ClaimsKnow
    /\ BatchesArePlanned
    /\ RefundsFollowChannel
    /\ RefundBookedOnce
    /\ OperationFollowsBatch

------------------------------------------------------------------------------
(* Sums of batches.                                                        *)

\* The sum over some batches grows by the amount of one that was not among them.
LEMMA SumAdds ==
    ASSUME NEW S, NEW n \in Numbers, n \notin S
    PROVE  /\ Sum(S) \in Nat
           /\ Sum({n}) \in Nat
           /\ Sum(S \cup {n}) = Sum(S) + Sum({n})
  <1>1. First \in Nat /\ Second \in Nat
    BY RefundAssumption
  <1>2. (IF 1 \in S THEN First ELSE 0) \in Nat
        /\ (IF 2 \in S THEN Second ELSE 0) \in Nat
    BY <1>1
  <1>3. CASE n = 1
    <2>1. /\ Sum({n}) = First
          /\ Sum(S) = (IF 2 \in S THEN Second ELSE 0)
          /\ Sum(S \cup {n}) = First + (IF 2 \in S THEN Second ELSE 0)
      BY <1>1, <1>2, <1>3 DEF Sum
    <2>q. QED BY <1>1, <1>2, <2>1
  <1>4. CASE n = 2
    <2>1. /\ Sum({n}) = Second
          /\ Sum(S) = (IF 1 \in S THEN First ELSE 0)
          /\ Sum(S \cup {n}) = (IF 1 \in S THEN First ELSE 0) + Second
      BY <1>1, <1>2, <1>4 DEF Sum
    <2>q. QED BY <1>1, <1>2, <2>1
  <1>q. QED BY <1>3, <1>4 DEF Numbers

\* Only all batches of the plan add up to the refund that was accepted.
LEMMA SumFull ==
    ASSUME plan \in {{1}, {1, 2}}, NEW S \in SUBSET plan
    PROVE  Sum(S) = Accepted <=> S = plan
  <1>1. /\ First \in Nat \ {0} /\ Second \in Nat \ {0}
    BY RefundAssumption
  <1>2. CASE plan = {1}
    <2>1. Accepted = First
      BY <1>1, <1>2 DEF Accepted, Sum
    <2>2. CASE S = {}
      BY <1>1, <1>2, <2>1, <2>2 DEF Sum
    <2>3. CASE S # {}
      BY <1>2, <2>3 DEF Accepted
    <2>q. QED BY <2>2, <2>3
  <1>3. CASE plan = {1, 2}
    <2>1. Accepted = First + Second
      BY <1>1, <1>3 DEF Accepted, Sum
    <2>2. CASE 1 \notin S
      BY <1>1, <1>3, <2>1, <2>2 DEF Sum
    <2>3. CASE 1 \in S /\ 2 \notin S
      BY <1>1, <1>3, <2>1, <2>3 DEF Sum
    <2>4. CASE 1 \in S /\ 2 \in S
      BY <1>3, <2>4 DEF Accepted
    <2>q. QED BY <2>2, <2>3, <2>4
  <1>q. QED BY <1>2, <1>3

\* Operations name a batch by its number.
LEMMA OpsFacts ==
    /\ \A n \in Numbers : n \in Ops /\ BatchOf(n) = n /\ n \notin Enquiries
    /\ \A e \in Enquiries : e \in Ops /\ e \notin Numbers /\ BatchOf(e) = about[e].batch
  BY RefundAssumption DEF Ops, BatchOf

LEMMA BatchOfType ==
    ASSUME RefundTypeOK, NEW o \in Ops
    PROVE  BatchOf(o) \in Numbers
  BY OpsFacts DEF RefundTypeOK, Ops, BatchOf

------------------------------------------------------------------------------
(* Steps that keep the batches: what they must not disturb.                *)

\* Steps that leave the batches, the order, the operations of the refunds and
\* their tasks alone keep what is said about them.
LEMMA QuietStep ==
    ASSUME RefundIInv,
                 UNCHANGED <<plan, planner, refund, refundVars, refundSent>>,
                 \A n \in Numbers : op'[n] = op[n] /\ refundTask'[n] = refundTask[n]
    PROVE  /\ BatchesArePlanned'
           /\ RefundsFollowChannel'
           /\ RefundBookedOnce'
           /\ OperationFollowsBatch'
  <1>1. /\ BatchesArePlanned'
        /\ RefundsFollowChannel'
    BY DEF RefundIInv, BatchesArePlanned, RefundsFollowChannel, refundVars
  <1>2. RefundBookedOnce'
    BY DEF RefundIInv, RefundBookedOnce, Succeeded, refundVars
  <1>3. OperationFollowsBatch'
    BY DEF RefundIInv, OperationFollowsBatch, refundVars, RefundTypeOK, Numbers
  <1>q. QED BY <1>1, <1>2, <1>3

\* The batches are made: nothing was claimed, sent or asked about them before.
LEMMA MakeBatchesStep ==
    ASSUME RefundIInv, NEW who \in {"consumer", "merchant"}, MakeBatches(who),
                 request \in {"none", "approved"}
    PROVE  RefundIInv'
  <1> USE DEF MakeBatches
  <1>1. \A n \in Numbers : batch[n] = "none" /\ op[n] = "none" /\ ~refundSent[n]
    BY DEF RefundIInv, BatchesArePlanned
  <1>2. RefundTypeOK'
    <2>1. batch' \in [Numbers -> {"none", "pending"}]
      OBVIOUS
    <2>2. op' \in [Ops -> {"none", "accepted", "processing", "unknown",
                           "pending_review", "succeeded"}]
      BY DEF RefundIInv, RefundTypeOK
    <2>q. QED BY <2>1, <2>2 DEF RefundIInv, RefundTypeOK
  <1>3. ClaimsKnow'
    BY DEF RefundIInv, ClaimsKnow, BatchOf
  <1>4. BatchesArePlanned'
    <2>1. \A n \in Numbers :
              /\ batch'[n] = (IF n \in plan THEN "pending" ELSE "none")
              /\ op'[n] = (IF n \in plan THEN "accepted" ELSE op[n])
      BY OpsFacts
    <2>q. QED BY <1>1, <2>1 DEF BatchesArePlanned
  <1>5. RefundsFollowChannel'
    <2>1. \A n \in Numbers : batch'[n] # "succeeded"
      OBVIOUS
    <2>q. QED BY <2>1 DEF RefundIInv, RefundsFollowChannel
  <1>6. RefundBookedOnce'
    <2>1. Succeeded = {} /\ Succeeded' = {}
      <3>1. plan \subseteq Numbers
        BY DEF RefundIInv, RefundTypeOK, Numbers
      <3>2. \A n \in plan : batch[n] # "succeeded" /\ batch'[n] # "succeeded"
        BY <3>1
      <3>q. QED BY <3>2 DEF Succeeded
    <2>2. plan # {}
      BY DEF RefundIInv, RefundTypeOK
    <2>3. refundOrder.status # "cancelled"
      BY <2>1, <2>2 DEF RefundIInv, RefundBookedOnce
    <2>4. refundOrder'.refunded = refundOrder.refunded /\ refundOrder'.status # "cancelled"
      BY DEF RefundIInv, RefundTypeOK
    <2>q. QED BY <2>1, <2>2, <2>4 DEF RefundIInv, RefundBookedOnce
  <1>7. OperationFollowsBatch'
    <2>1. plan \subseteq Numbers
      BY DEF RefundIInv, RefundTypeOK, Numbers
    <2>2. \A n \in plan : /\ batch'[n] = "pending" /\ op'[n] = "accepted"
                          /\ refundTask[n] # "open"
      BY <1>1, <2>1, OpsFacts DEF RefundIInv, OperationFollowsBatch
    <2>q. QED BY <2>2 DEF OperationFollowsBatch
  <1>q. QED BY <1>2, <1>3, <1>4, <1>5, <1>6, <1>7 DEF RefundIInv

\* A decision changes the request and the order before any batch exists.
LEMMA DecisionStep ==
    ASSUME RefundIInv, NEW s \in {"delayed", "approved"}, Decision(s),
                 request \in {"none", "delayed"}
    PROVE  RefundIInv'
  <1> USE DEF Decision
  <1>1. RefundTypeOK' /\ ClaimsKnow' /\ BatchesArePlanned' /\ RefundsFollowChannel'
              /\ OperationFollowsBatch'
    BY DEF RefundIInv, RefundTypeOK, ClaimsKnow, BatchesArePlanned, RefundsFollowChannel,
                 OperationFollowsBatch, BatchOf
  <1>2. RefundBookedOnce'
    <2>1. /\ refundOrder'.refunded = refundOrder.refunded
          /\ refundOrder'.status = "cancellation_processing"
          /\ Succeeded' = Succeeded
      BY DEF RefundIInv, RefundTypeOK, Succeeded
    <2>2. Succeeded # plan
      BY DEF RefundIInv, RefundBookedOnce
    <2>q. QED BY <2>1, <2>2 DEF RefundIInv, RefundBookedOnce
  <1>q. QED BY <1>1, <1>2 DEF RefundIInv

------------------------------------------------------------------------------
(* Steps of the channel, of enquiries and of claims.                       *)

LEMMA ChannelStep ==
    ASSUME RefundIInv, NEW n \in Numbers, ChannelReturns(n)
    PROVE  RefundIInv'
  <1> USE DEF ChannelReturns
  <1>1. RefundTypeOK' /\ ClaimsKnow'
    BY DEF RefundIInv, RefundTypeOK, ClaimsKnow, refundVars, BatchOf
  <1>2. BatchesArePlanned' /\ RefundsFollowChannel'
    BY DEF RefundIInv, RefundTypeOK, BatchesArePlanned, RefundsFollowChannel, refundVars
  <1>3. RefundBookedOnce' /\ OperationFollowsBatch'
    BY DEF RefundIInv, RefundBookedOnce, Succeeded, OperationFollowsBatch, refundVars
  <1>q. QED BY <1>1, <1>2, <1>3 DEF RefundIInv

LEMMA EnquiryStep ==
    ASSUME RefundIInv, NEW e \in Enquiries, NEW by \in {"consumer", "merchant"},
                 NEW o \in Ops, NEW n \in Numbers, StartEnquiry(e, by, o, n)
    PROVE  RefundIInv'
  <1> USE DEF StartEnquiry
  <1>0. e \in Ops /\ e \notin Numbers
    BY OpsFacts
  <1>1. RefundTypeOK'
    <2>1. op' \in [Ops -> {"none", "accepted", "processing", "unknown",
                           "pending_review", "succeeded"}]
      BY DEF RefundIInv, RefundTypeOK
    <2>2. about' \in [Enquiries -> [by : {"nobody", "consumer", "merchant"},
                                    op : Ops, batch : Numbers]]
      BY DEF RefundIInv, RefundTypeOK
    <2>q. QED BY <2>1, <2>2 DEF RefundIInv, RefundTypeOK, refundVars
  <1>2. ClaimsKnow'
    <2>1. refundCall[e].step = "idle" /\ refundCall[e].seen = "nothing"
      BY <1>0 DEF RefundIInv, ClaimsKnow
    <2>2. \A p \in Ops : p # e => op'[p] = op[p] /\ BatchOf(p)' = BatchOf(p)
      BY DEF RefundIInv, RefundTypeOK, BatchOf, Ops
    <2>q. QED BY <2>1, <2>2 DEF RefundIInv, ClaimsKnow
  <1>3. \A m \in Numbers : op'[m] = op[m] /\ refundTask'[m] = refundTask[m]
    BY <1>0, OpsFacts DEF RefundIInv, RefundTypeOK
  <1>q. QED BY <1>1, <1>2, <1>3, QuietStep DEF RefundIInv, refundVars

LEMMA ClaimStep ==
    ASSUME RefundIInv, NEW o \in Ops, Claim(o)
    PROVE  RefundIInv'
  <1> USE DEF Claim
  <1>1. RefundTypeOK'
    <2>1. op' \in [Ops -> {"none", "accepted", "processing", "unknown",
                           "pending_review", "succeeded"}]
      BY DEF RefundIInv, RefundTypeOK
    <2>2. refundCall' \in [Ops -> [step : {"idle", "claimed", "asking", "answered"},
                                   seen : {"nothing", "returned", "doubt", "receipt",
                                           "blocked"}]]
      BY DEF RefundIInv, RefundTypeOK
    <2>q. QED BY <2>1, <2>2 DEF RefundIInv, RefundTypeOK, refundVars
  <1>2. ClaimsKnow'
    <2>1. /\ op'[o] # "none" /\ refundCall'[o].step = "claimed"
          /\ refundCall'[o].seen = "nothing"
      BY DEF RefundIInv, RefundTypeOK, ClaimsKnow
    <2>2. \A p \in Ops : p # o => op'[p] = op[p] /\ refundCall'[p] = refundCall[p]
      BY DEF RefundIInv, RefundTypeOK
    <2>3. \A p \in Ops : BatchOf(p)' = BatchOf(p)
      BY DEF BatchOf
    <2>q. QED BY <2>1, <2>2, <2>3 DEF RefundIInv, ClaimsKnow
  <1>3. \A p \in Ops : \/ op'[p] = op[p]
                      \/ /\ op[p] \in {"accepted", "processing", "unknown"}
                         /\ op'[p] = "processing"
    BY DEF RefundIInv, RefundTypeOK
  <1>4. BatchesArePlanned' /\ RefundsFollowChannel'
    BY <1>3, OpsFacts DEF RefundIInv, BatchesArePlanned, RefundsFollowChannel, refundVars
  <1>5. RefundBookedOnce'
    BY DEF RefundIInv, RefundBookedOnce, Succeeded, refundVars
  <1>6. OperationFollowsBatch'
    <2>1. plan \subseteq Ops
      BY OpsFacts DEF RefundIInv, RefundTypeOK, Numbers
    <2>q. QED BY <1>3, <2>1 DEF RefundIInv, OperationFollowsBatch, refundVars
  <1>q. QED BY <1>1, <1>2, <1>4, <1>5, <1>6 DEF RefundIInv

\* A worker lets go of its claim, or asks the channel about its batch.
LEMMA CallStep ==
    ASSUME RefundIInv, NEW o \in Ops,
                 UNCHANGED <<plan, planner, refund, finished, refundVars, op,
                             about, refundSent, refundTask, refundRetries>>,
                 refundCrashes' \in 0 .. MaxRefundCrashes,
                 refundCall' = [refundCall EXCEPT ![o] = refundCall'[o]],
                 refundCall'[o] \in [step : {"idle", "asking", "answered"},
                                     seen : {"nothing", "returned", "doubt", "receipt",
                                             "blocked"}],
                 refundCall'[o].step # "idle" => refundCall[o].step # "idle",
                 refundCall'[o].step # "answered" => refundCall'[o].seen = "nothing",
                 refundCall'[o].seen = "returned" => refund[BatchOf(o)] = "returned"
    PROVE  RefundIInv'
  <1>1. RefundTypeOK'
    <2>1. refundCall' \in [Ops -> [step : {"idle", "claimed", "asking", "answered"},
                                   seen : {"nothing", "returned", "doubt", "receipt",
                                           "blocked"}]]
      BY DEF RefundIInv, RefundTypeOK
    <2>q. QED BY <2>1 DEF RefundIInv, RefundTypeOK, refundVars
  <1>2. ClaimsKnow'
    <2>1. \A p \in Ops : BatchOf(p)' = BatchOf(p)
      BY DEF BatchOf
    <2>2. \A p \in Ops : p # o => refundCall'[p] = refundCall[p]
      BY DEF RefundIInv, RefundTypeOK
    <2>q. QED BY <2>1, <2>2 DEF RefundIInv, ClaimsKnow
  <1>q. QED BY <1>1, <1>2, QuietStep DEF RefundIInv, refundVars

\* The request is sent once: a refund that is not sent is unknown to the channel.
LEMMA BeginRefundStep ==
    ASSUME RefundIInv, NEW n \in Numbers, BeginRefund(n)
    PROVE  RefundIInv'
  <1> USE DEF BeginRefund, refundAlipayTrade
  <1>0. n \in Ops /\ BatchOf(n) = n
    BY OpsFacts
  <1>1. CASE Blocked(n) /\ UNCHANGED <<refund, batch, refundSent>>
             /\ refundCall' = [refundCall EXCEPT ![n] = [step |-> "answered",
                                                        seen |-> "blocked"]]
    <2>1. refundCall'[n] = [step |-> "answered", seen |-> "blocked"]
      BY <1>0, <1>1 DEF RefundIInv, RefundTypeOK
    <2>2. refundCrashes' \in 0 .. MaxRefundCrashes
      BY DEF RefundIInv, RefundTypeOK
    <2>3. UNCHANGED <<plan, planner, refund, finished, refundVars, op, about,
                      refundSent, refundTask, refundRetries>>
      BY <1>1 DEF refundVars
    <2>4. refundCall' = [refundCall EXCEPT ![n] = refundCall'[n]]
      BY <1>1, <2>1
    <2>q. QED BY <1>0, <2>1, <2>2, <2>3, <2>4, CallStep
  <1>2. CASE refundSent[n] /\ UNCHANGED <<refund, batch, refundSent>>
             /\ refundCall' = [refundCall EXCEPT ![n].step = "asking"]
    <2>1. refundCall'[n] = [step |-> "asking", seen |-> "nothing"]
      BY <1>0, <1>2 DEF RefundIInv, RefundTypeOK, ClaimsKnow
    <2>2. refundCall' = [refundCall EXCEPT ![n] = refundCall'[n]]
      BY <1>0, <1>2 DEF RefundIInv, RefundTypeOK
    <2>3. refundCrashes' \in 0 .. MaxRefundCrashes
      BY DEF RefundIInv, RefundTypeOK
    <2>4. UNCHANGED <<plan, planner, refund, finished, refundVars, op, about,
                      refundSent, refundTask, refundRetries>>
      BY <1>2 DEF refundVars
    <2>5. refundCall[n].step # "idle"
      OBVIOUS
    <2>q. QED BY <1>0, <2>1, <2>2, <2>3, <2>4, <2>5, CallStep
  <1>3. CASE /\ ~refundSent[n]
             /\ batch' = [batch EXCEPT ![n] = "processing"]
             /\ refundSent' = [refundSent EXCEPT ![n] = TRUE]
             /\ refund' = [refund EXCEPT ![n] = "requested"]
             /\ refundCall' = [refundCall EXCEPT ![n] = [step |-> "answered",
                                                        seen |-> "receipt"]]
    <2>1. /\ op[n] = "processing" /\ refund[n] = "none"
          /\ batch[n] \notin {"none", "succeeded"} /\ n \in plan
      BY <1>3 DEF RefundIInv, RefundTypeOK, Holds, RefundsFollowChannel, BatchesArePlanned
    <2>2. RefundTypeOK'
      <3>1. /\ batch' \in [Numbers -> {"none", "pending", "processing", "unknown",
                                       "pending_review", "succeeded"}]
            /\ refundSent' \in [Numbers -> BOOLEAN]
            /\ refund' \in [Numbers -> {"none", "requested", "returned"}]
        BY <1>3 DEF RefundIInv, RefundTypeOK
      <3>2. refundCall' \in [Ops -> [step : {"idle", "claimed", "asking", "answered"},
                                     seen : {"nothing", "returned", "doubt",
                                             "receipt", "blocked"}]]
        BY <1>3 DEF RefundIInv, RefundTypeOK
      <3>q. QED BY <3>1, <3>2 DEF RefundIInv, RefundTypeOK
    <2>3. ClaimsKnow'
      <3>1. \A p \in Ops : /\ BatchOf(p)' = BatchOf(p)
                           /\ BatchOf(p) = n => refundCall[p].seen # "returned"
        BY <2>1 DEF BatchOf, RefundIInv, ClaimsKnow
      <3>2. \A p \in Ops : IF p = n THEN refundCall'[p] = [step |-> "answered",
                                                           seen |-> "receipt"]
                           ELSE refundCall'[p] = refundCall[p]
        BY <1>3 DEF RefundIInv, RefundTypeOK
      <3>3. \A m \in Numbers : m # n => refund'[m] = refund[m]
        BY <1>3 DEF RefundIInv, RefundTypeOK
      <3>4. \A p \in Ops : BatchOf(p) \in Numbers
        BY BatchOfType DEF RefundIInv
      <3>5. ASSUME NEW p \in Ops, refundCall'[p].seen = "returned"
            PROVE  refund'[BatchOf(p)] = "returned"
        <4>1. p # n /\ refundCall[p].seen = "returned"
          BY <3>2, <3>5
        <4>2. BatchOf(p) # n /\ refund[BatchOf(p)] = "returned"
          BY <3>1, <4>1 DEF RefundIInv, ClaimsKnow
        <4>q. QED BY <3>3, <3>4, <4>2
      <3>q. QED BY <2>1, <3>1, <3>2, <3>5 DEF RefundIInv, ClaimsKnow
    <2>4. \A m \in Numbers : m # n => /\ batch'[m] = batch[m]
                                      /\ refundSent'[m] = refundSent[m]
                                      /\ refund'[m] = refund[m]
      BY <1>3 DEF RefundIInv, RefundTypeOK
    <2>5. batch'[n] = "processing" /\ refundSent'[n] /\ refund'[n] = "requested"
      BY <1>3 DEF RefundIInv, RefundTypeOK
    <2>6. BatchesArePlanned' /\ RefundsFollowChannel'
      BY <2>1, <2>4, <2>5 DEF RefundIInv, BatchesArePlanned, RefundsFollowChannel
    <2>7. RefundBookedOnce'
      <3>1. plan \subseteq Numbers
        BY DEF RefundIInv, RefundTypeOK, Numbers
      <3>2. Succeeded' = Succeeded
        BY <2>1, <2>4, <2>5, <3>1 DEF Succeeded
      <3>q. QED BY <3>2 DEF RefundIInv, RefundBookedOnce
    <2>8. OperationFollowsBatch'
      <3>1. plan \subseteq Numbers
        BY DEF RefundIInv, RefundTypeOK, Numbers
      <3>q. QED BY <2>1, <2>4, <2>5, <3>1 DEF RefundIInv, OperationFollowsBatch
    <2>q. QED BY <2>2, <2>3, <2>6, <2>7, <2>8 DEF RefundIInv
  <1>q. QED BY <1>1, <1>2, <1>3

------------------------------------------------------------------------------
(* The second transaction.                                                 *)

\* The claim is given back with the result.
LEMMA ClaimReturned ==
    ASSUME RefundIInv, NEW o \in Ops, refundCall' = [refundCall EXCEPT ![o] = NoRefundCall],
                 UNCHANGED <<refund, about>>,
                 \A p \in Ops : op[p] # "none" => op'[p] # "none"
    PROVE  /\ ClaimsKnow'
           /\ refundCall' \in [Ops -> [step : {"idle", "claimed", "asking", "answered"},
                                       seen : {"nothing", "returned", "doubt",
                                               "receipt", "blocked"}]]
  <1>1. \A p \in Ops : refundCall'[p] = IF p = o THEN NoRefundCall ELSE refundCall[p]
    BY DEF RefundIInv, RefundTypeOK
  <1>2. \A p \in Ops : BatchOf(p)' = BatchOf(p)
    BY DEF BatchOf
  <1>3. ClaimsKnow'
    BY <1>1, <1>2 DEF RefundIInv, ClaimsKnow, NoRefundCall
  <1>4. NoRefundCall \in [step : {"idle", "claimed", "asking", "answered"},
                          seen : {"nothing", "returned", "doubt", "receipt",
                                  "blocked"}]
    BY DEF NoRefundCall
  <1>q. QED BY <1>3, <1>4 DEF RefundIInv, RefundTypeOK

\* Booking a refund: what every variable becomes.
LEMMA ConfirmBatchFacts ==
    ASSUME RefundIInv, NEW o \in Ops, NEW n \in plan \cap Numbers, ConfirmBatch(o, n),
                 UNCHANGED plan
    PROVE  /\ Succeeded' = Succeeded \cup {n}
           /\ \A m \in Numbers : batch'[m] = IF m = n THEN "succeeded" ELSE batch[m]
           /\ refundOrder'.refunded \in Nat
           /\ refundOrder'.refunded = Sum(Succeeded')
           /\ refundOrder' \in [status : {"cancelled", "cancellation_processing"},
                                refunded : Nat]
           /\ request' \in {"completed", "refund_processing"}
           /\ request' = "completed" <=> Succeeded' = plan
           /\ refundOrder'.status = "cancelled" <=> Succeeded' = plan
  <1> USE DEF ConfirmBatch
  <1>1. plan \subseteq Numbers /\ plan \in {{1}, {1, 2}}
    BY DEF RefundIInv, RefundTypeOK, Numbers
  <1>2. \A m \in Numbers : batch'[m] = IF m = n THEN "succeeded" ELSE batch[m]
    BY DEF RefundIInv, RefundTypeOK
  <1>3. Succeeded' = Succeeded \cup {n} /\ n \notin Succeeded
    BY <1>1, <1>2 DEF Succeeded
  <1>4. /\ Sum(Succeeded) \in Nat /\ Sum({n}) \in Nat
        /\ Sum(Succeeded') = Sum(Succeeded) + Sum({n})
    BY <1>3, SumAdds
  <1>5. Succeeded' \in SUBSET plan
    BY <1>3 DEF Succeeded
  <1>6. Sum(Succeeded') = Accepted <=> Succeeded' = plan
    BY <1>1, <1>5, SumFull
  <1>7. refundOrder.refunded = Sum(Succeeded)
    BY DEF RefundIInv, RefundBookedOnce
  <1> DEFINE completed == Sum(Succeeded) + Sum({n}) = Accepted
  <1>8. completed <=> Succeeded' = plan
    BY <1>4, <1>6
  <1>9. /\ refundOrder' = [status |-> IF completed THEN "cancelled"
                               ELSE "cancellation_processing",
                     refunded |-> refundOrder.refunded + Sum({n})]
        /\ request' = IF completed THEN "completed" ELSE "refund_processing"
    OBVIOUS
  <1> HIDE DEF completed
  <1>q. QED BY <1>2, <1>3, <1>4, <1>7, <1>8, <1>9

\* What a worker knows to be returned is settled for the batch, its operation
\* and its own, whoever of them comes first.
LEMMA FinishReturnedStep ==
    ASSUME RefundIInv, NEW o \in Ops, FinishReturned(o), op[o] = "processing",
                 refundCall[o].step = "answered", refundCall' = [refundCall EXCEPT ![o] = NoRefundCall],
                 UNCHANGED <<plan, planner, refund, finished, about,
                             refundSent, refundCrashes>>
    PROVE  RefundIInv'
  <1> DEFINE n == BatchOf(o)
  <1>1. refund[n] = "returned" /\ refundCall[o].seen = "returned"
    BY DEF FinishReturned, RefundIInv, ClaimsKnow
  <1>2. n \in Numbers /\ n \in Ops
    BY BatchOfType, OpsFacts DEF RefundIInv
  <1>3. n \in plan
    BY <1>1, <1>2 DEF RefundIInv, RefundsFollowChannel, BatchesArePlanned
  <1>4. plan \subseteq Numbers /\ Numbers \subseteq Ops
    BY OpsFacts DEF RefundIInv, RefundTypeOK, Numbers
  <1>5. o \in Numbers => o = n
    BY OpsFacts
  <1>6. /\ op' = [op EXCEPT ![n] = "succeeded", ![o] = "succeeded"]
        /\ \A m \in Numbers :
              batch'[m] = IF m = n THEN "succeeded" ELSE batch[m]
        /\ batch' \in [Numbers -> {"none", "pending", "processing", "unknown",
                                   "pending_review", "succeeded"}]
        /\ request' \in {"none", "delayed", "approved", "refund_processing",
                         "completed"}
        /\ (request' \in {"none", "delayed", "approved"}
              <=> request \in {"none", "delayed", "approved"})
        /\ refundOrder' \in [status : {"fulfilling", "cancellation_processing",
                                       "cancelled"}, refunded : Nat]
        /\ verified' \in SUBSET Numbers
        /\ RefundBookedOnce'
    <2>1. CASE ConfirmBatch(o, n)
      <3>1. n \in plan \cap Numbers
        BY <1>2, <1>3
      <3>2. /\ Succeeded' = Succeeded \cup {n}
            /\ \A m \in Numbers :
                  batch'[m] = IF m = n THEN "succeeded" ELSE batch[m]
            /\ refundOrder'.refunded = Sum(Succeeded')
            /\ refundOrder' \in [status : {"cancelled", "cancellation_processing"},
                                 refunded : Nat]
            /\ request' \in {"completed", "refund_processing"}
            /\ request' = "completed" <=> Succeeded' = plan
            /\ refundOrder'.status = "cancelled" <=> Succeeded' = plan
        BY <2>1, <3>1, ConfirmBatchFacts
      <3>3. verified' = Succeeded'
        BY <2>1, <3>2 DEF ConfirmBatch, RefundIInv, RefundBookedOnce
      <3>4. request \notin {"none", "delayed", "approved"}
        BY <1>1, <1>2 DEF RefundIInv, RefundsFollowChannel, BatchesArePlanned
      <3>5. /\ op' = [op EXCEPT ![n] = "succeeded", ![o] = "succeeded"]
            /\ batch' = [batch EXCEPT ![n] = "succeeded"]
            /\ verified' \in SUBSET Numbers
        BY <1>2, <2>1 DEF ConfirmBatch, RefundIInv, RefundTypeOK
      <3>q. QED BY <3>2, <3>3, <3>4, <3>5 DEF RefundIInv, RefundTypeOK, RefundBookedOnce
    <2>2. CASE /\ batch[n] = "succeeded"
               /\ op' = [op EXCEPT ![o] = "succeeded"]
               /\ UNCHANGED refundVars
      <3>1. op[n] = "succeeded"
        BY <1>3, <2>2 DEF RefundIInv, OperationFollowsBatch
      <3>2. op' = [op EXCEPT ![n] = "succeeded", ![o] = "succeeded"]
        BY <1>2, <2>2, <3>1 DEF RefundIInv, RefundTypeOK
      <3>3. RefundBookedOnce'
        BY <2>2 DEF RefundIInv, RefundBookedOnce, Succeeded, refundVars
      <3>q. QED BY <2>2, <3>2, <3>3 DEF RefundIInv, RefundTypeOK, refundVars
    <2>q. QED BY <2>1, <2>2 DEF FinishReturned
  <1>7. \A p \in Ops : op'[p] = IF p \in {n, o} THEN "succeeded" ELSE op[p]
    BY <1>2, <1>6 DEF RefundIInv, RefundTypeOK
  <1>8. refundTask' = [p \in Ops |-> IF p \in TasksOf(n) \cup {o} /\ refundTask[p] = "open"
                              THEN "resolved" ELSE refundTask[p]]
    BY DEF FinishReturned, Resolve
  <1>9. /\ ClaimsKnow'
        /\ refundCall' \in [Ops -> [step : {"idle", "claimed", "asking", "answered"},
                                    seen : {"nothing", "returned", "doubt",
                                            "receipt", "blocked"}]]
    BY <1>7, ClaimReturned
  <1>10. RefundTypeOK'
    <2>1. op' \in [Ops -> {"none", "accepted", "processing", "unknown",
                           "pending_review", "succeeded"}]
      BY <1>6 DEF RefundIInv, RefundTypeOK
    <2>2. refundTask' \in [Ops -> {"none", "open", "resolved"}]
      BY <1>8 DEF RefundIInv, RefundTypeOK
    <2>3. refundRetries' = refundRetries
      BY DEF FinishReturned
    <2>q. QED BY <1>6, <1>9, <2>1, <2>2, <2>3 DEF RefundIInv, RefundTypeOK
  <1>11. BatchesArePlanned'
    <2>1. \A m \in Numbers : (op'[m] = "none" <=> op[m] = "none")
      BY <1>1, <1>2, <1>4, <1>5, <1>7 DEF RefundIInv, RefundsFollowChannel, BatchesArePlanned
    <2>2. \A m \in Numbers : (batch'[m] = "none" <=> batch[m] = "none")
      BY <1>1, <1>2, <1>6 DEF RefundIInv, RefundsFollowChannel, BatchesArePlanned
    <2>q. QED BY <1>6, <2>1, <2>2 DEF RefundIInv, BatchesArePlanned
  <1>12. RefundsFollowChannel'
    BY <1>1, <1>6 DEF RefundIInv, RefundsFollowChannel
  <1>13. OperationFollowsBatch'
    <2>1. \A m \in plan : m # n =>
              /\ op'[m] = op[m] /\ batch'[m] = batch[m] /\ refundTask'[m] = refundTask[m]
      <3>1. \A m \in Numbers : m # n => m \notin TasksOf(n) \cup {o}
        BY <1>5, OpsFacts DEF TasksOf
      <3>q. QED BY <1>4, <1>5, <1>6, <1>7, <1>8, <3>1
    <2>2. op'[n] = "succeeded" /\ batch'[n] = "succeeded"
      BY <1>2, <1>6, <1>7
    <2>3. refundTask'[n] # "open"
      <3>1. n \in TasksOf(n)
        BY <1>1, <1>2, OpsFacts DEF TasksOf, RefundIInv, RefundsFollowChannel,
                                    BatchesArePlanned
      <3>q. QED BY <1>2, <1>8, <3>1
    <2>q. QED BY <1>3, <2>1, <2>2, <2>3 DEF RefundIInv, OperationFollowsBatch
  <1>q. QED BY <1>6, <1>9, <1>10, <1>11, <1>12, <1>13 DEF RefundIInv

\* A refund without a result keeps its batch beside its operation, and asks a
\* person whenever both wait for one.
LEMMA FinishRefundStep ==
    ASSUME RefundIInv, NEW n \in Numbers, FinishRefund(n), op[n] = "processing",
                 refundCall' = [refundCall EXCEPT ![n] = NoRefundCall],
                 UNCHANGED <<plan, planner, refund, finished, about,
                             refundSent, refundCrashes>>
    PROVE  RefundIInv'
  <1> USE DEF FinishRefund
  <1>1. n \in Ops /\ Numbers \subseteq Ops
    BY OpsFacts
  <1>2. batch[n] \notin {"none", "succeeded", "pending_review"} /\ n \in plan
        /\ refundTask[n] # "open"
    BY DEF RefundIInv, BatchesArePlanned, OperationFollowsBatch
  <1>3. \E s \in {"unknown", "pending_review"} :
            /\ op' = [op EXCEPT ![n] = s]
            /\ batch' = [batch EXCEPT ![n] = s]
            /\ refundTask' = IF s = "unknown" THEN refundTask
                             ELSE [refundTask EXCEPT ![n] = "open"]
    BY DEF Question
  <1>4. PICK s \in {"unknown", "pending_review"} :
            /\ op' = [op EXCEPT ![n] = s]
            /\ batch' = [batch EXCEPT ![n] = s]
            /\ refundTask' = IF s = "unknown" THEN refundTask
                             ELSE [refundTask EXCEPT ![n] = "open"]
    BY <1>3
  <1>5. /\ \A p \in Ops : op'[p] = IF p = n THEN s ELSE op[p]
        /\ \A m \in Numbers : batch'[m] = IF m = n THEN s ELSE batch[m]
    BY <1>4 DEF RefundIInv, RefundTypeOK
  <1>6. \A p \in Ops : refundTask'[p] = IF p = n /\ s = "pending_review" THEN "open"
                                        ELSE refundTask[p]
    BY <1>4 DEF RefundIInv, RefundTypeOK
  <1>7. /\ ClaimsKnow'
        /\ refundCall' \in [Ops -> [step : {"idle", "claimed", "asking", "answered"},
                                    seen : {"nothing", "returned", "doubt",
                                            "receipt", "blocked"}]]
    BY <1>1, <1>5, ClaimReturned
  <1>8. RefundTypeOK'
    <2>1. op' \in [Ops -> {"none", "accepted", "processing", "unknown",
                           "pending_review", "succeeded"}]
      BY <1>4 DEF RefundIInv, RefundTypeOK
    <2>2. batch' \in [Numbers -> {"none", "pending", "processing", "unknown",
                                 "pending_review", "succeeded"}]
      BY <1>4 DEF RefundIInv, RefundTypeOK
    <2>3. refundTask' \in [Ops -> {"none", "open", "resolved"}]
      BY <1>4 DEF RefundIInv, RefundTypeOK
    <2>4. refundRetries' \in [Numbers -> 0 .. MaxRefundRetries]
      <3>1. CASE UNCHANGED refundRetries
        BY <3>1 DEF RefundIInv, RefundTypeOK
      <3>2. CASE refundRetries[n] < MaxRefundRetries
                 /\ refundRetries' = [refundRetries EXCEPT ![n] = @ + 1]
        <4>1. refundRetries[n] + 1 \in 0 .. MaxRefundRetries
          BY <3>2, RefundAssumption DEF RefundIInv, RefundTypeOK
        <4>q. QED BY <3>2, <4>1 DEF RefundIInv, RefundTypeOK
      <3>q. QED BY <3>1, <3>2
    <2>q. QED BY <1>7, <2>1, <2>2, <2>3, <2>4 DEF RefundIInv, RefundTypeOK
  <1>9. BatchesArePlanned' /\ RefundsFollowChannel'
    BY <1>1, <1>2, <1>5 DEF RefundIInv, BatchesArePlanned, RefundsFollowChannel
  <1>10. RefundBookedOnce'
    <2>1. plan \subseteq Numbers
      BY DEF RefundIInv, RefundTypeOK, Numbers
    <2>2. Succeeded' = Succeeded
      BY <1>2, <1>5, <2>1 DEF Succeeded
    <2>q. QED BY <2>2 DEF RefundIInv, RefundBookedOnce
  <1>11. OperationFollowsBatch'
    <2>1. plan \subseteq Numbers
      BY DEF RefundIInv, RefundTypeOK, Numbers
    <2>q. QED BY <1>1, <1>2, <1>5, <1>6, <2>1 DEF RefundIInv, OperationFollowsBatch
  <1>q. QED BY <1>7, <1>8, <1>9, <1>10, <1>11 DEF RefundIInv

\* An enquiry without a result touches nothing but itself.
LEMMA FinishEnquiryStep ==
    ASSUME RefundIInv, NEW e \in Enquiries, FinishEnquiry(e),
                 refundCall' = [refundCall EXCEPT ![e] = NoRefundCall],
                 UNCHANGED <<plan, planner, refund, finished, about,
                             refundSent, refundCrashes>>
    PROVE  RefundIInv'
  <1> USE DEF FinishEnquiry, Question
  <1>1. e \in Ops
    BY OpsFacts
  <1>2. /\ \A p \in Ops : op'[p] = IF p = e THEN "pending_review" ELSE op[p]
        /\ \A m \in Numbers : op'[m] = op[m] /\ refundTask'[m] = refundTask[m]
    BY OpsFacts DEF RefundIInv, RefundTypeOK
  <1>3. /\ ClaimsKnow'
        /\ refundCall' \in [Ops -> [step : {"idle", "claimed", "asking", "answered"},
                                    seen : {"nothing", "returned", "doubt",
                                            "receipt", "blocked"}]]
    <2>1. \A p \in Ops : op[p] # "none" => op'[p] # "none"
      BY <1>2
    <2>q. QED BY <1>1, <2>1, ClaimReturned
  <1>4. RefundTypeOK'
    <2>1. op' \in [Ops -> {"none", "accepted", "processing", "unknown",
                           "pending_review", "succeeded"}]
      BY DEF RefundIInv, RefundTypeOK
    <2>2. refundTask' \in [Ops -> {"none", "open", "resolved"}]
      BY DEF RefundIInv, RefundTypeOK
    <2>q. QED BY <1>3, <2>1, <2>2 DEF RefundIInv, RefundTypeOK, refundVars
  <1>q. QED BY <1>2, <1>3, <1>4, QuietStep DEF RefundIInv

------------------------------------------------------------------------------
(* The invariant and what follows from it.                                 *)

LEMMA RefundInitInv == RefundInit => RefundIInv
  <1> SUFFICES ASSUME RefundInit PROVE RefundIInv
    OBVIOUS
  <1> USE DEF RefundInit
  <1>1. RefundTypeOK
    <2>2. about \in [Enquiries -> [by : {"nobody", "consumer", "merchant"},
                                  op : Ops, batch : Numbers]]
      BY DEF NoQuestion, Ops, Numbers
    <2>3. 0 \in 0 .. MaxRefundRetries /\ 0 \in 0 .. MaxRefundCrashes
      BY RefundAssumption
    <2>q. QED BY <2>2, <2>3 DEF RefundTypeOK, NoRefundCall
  <1>2. ClaimsKnow
    BY DEF ClaimsKnow, NoRefundCall
  <1>3. BatchesArePlanned /\ RefundsFollowChannel
    BY OpsFacts DEF BatchesArePlanned, RefundsFollowChannel
  <1>4. RefundBookedOnce
    <2>1. plan \subseteq Numbers /\ plan # {}
      BY DEF Numbers
    <2>2. Succeeded = {}
      BY <2>1 DEF Succeeded
    <2>3. Sum({}) = 0
      BY DEF Sum
    <2>q. QED BY <2>1, <2>2, <2>3 DEF RefundBookedOnce
  <1>5. OperationFollowsBatch
    BY OpsFacts DEF OperationFollowsBatch, Numbers
  <1>q. QED BY <1>1, <1>2, <1>3, <1>4, <1>5 DEF RefundIInv

LEMMA NextInv ==
    ASSUME RefundIInv, [RefundNext]_sandboxRefundVars
    PROVE  RefundIInv'
  <1>1. CASE UNCHANGED sandboxRefundVars
    <2>1. RefundTypeOK' /\ ClaimsKnow'
      BY <1>1 DEF sandboxRefundVars, refundVars, RefundIInv, RefundTypeOK, ClaimsKnow, BatchOf
    <2>2. \A n \in Numbers : op'[n] = op[n] /\ refundTask'[n] = refundTask[n]
      BY <1>1 DEF sandboxRefundVars
    <2>q. QED BY <1>1, <2>1, <2>2, QuietStep DEF sandboxRefundVars, refundVars, RefundIInv
  <1>2. CASE ConfirmApproved
    BY <1>2, MakeBatchesStep DEF ConfirmApproved
  <1>3. CASE ConfirmDelayed
    BY <1>3, DecisionStep DEF ConfirmDelayed
  <1>4. CASE Decide
    BY <1>4, DecisionStep DEF Decide
  <1>5. CASE ScheduleRefund
    BY <1>5, MakeBatchesStep DEF ScheduleRefund
  <1>6. CASE TradeFinishes
    <2>1. RefundTypeOK' /\ ClaimsKnow'
      BY <1>6 DEF TradeFinishes, refundVars, RefundIInv, RefundTypeOK, ClaimsKnow, BatchOf
    <2>2. \A n \in Numbers : op'[n] = op[n] /\ refundTask'[n] = refundTask[n]
      BY <1>6 DEF TradeFinishes
    <2>q. QED BY <1>6, <2>1, <2>2, QuietStep DEF TradeFinishes, refundVars, RefundIInv
  <1>7. ASSUME NEW n \in Numbers, ChannelReturns(n)
        PROVE  RefundIInv'
    BY <1>7, ChannelStep
  <1>8. ASSUME NEW e \in Enquiries, ConsumerAsks(e)
        PROVE  RefundIInv'
    <2>1. LastBatch \in Numbers /\ LastBatch \in Ops
      BY OpsFacts DEF LastBatch, Numbers
    <2>q. QED BY <1>8, <2>1, EnquiryStep DEF ConsumerAsks
  <1>9. ASSUME NEW e \in Enquiries, NEW o \in Ops, MerchantAsks(e, o)
        PROVE  RefundIInv'
    BY <1>9, EnquiryStep, BatchOfType DEF MerchantAsks, RefundIInv
  <1>10. ASSUME NEW o \in Ops, RefundWorkerStep(o)
         PROVE  RefundIInv'
    <2>1. CASE Claim(o)
      BY <2>1, ClaimStep
    <2>2. CASE Throw(o) \/ DropStaleClaim(o)
      <3>1. refundCall'[o] = [step |-> "idle", seen |-> "nothing"]
        BY <2>2 DEF Throw, DropStaleClaim, NoRefundCall, RefundIInv, RefundTypeOK
      <3>2. refundCall' = [refundCall EXCEPT ![o] = refundCall'[o]]
        BY <2>2, <3>1 DEF Throw, DropStaleClaim, NoRefundCall
      <3>3. refundCrashes' \in 0 .. MaxRefundCrashes
        BY <2>2 DEF Throw, DropStaleClaim, RefundIInv, RefundTypeOK
      <3>4. UNCHANGED <<plan, planner, refund, finished, refundVars, op, about,
                        refundSent, refundTask, refundRetries>>
        BY <2>2 DEF Throw, DropStaleClaim
      <3>q. QED BY <3>1, <3>2, <3>3, <3>4, CallStep
    <2>3. CASE o \in Numbers /\ BeginRefund(o)
      BY <2>3, BeginRefundStep
    <2>4. CASE o \in Enquiries /\ BeginEnquiry(o)
      <3>1. refundCall'[o] = [step |-> "asking", seen |-> "nothing"]
            /\ refundCall[o].step = "claimed"
        BY <2>4 DEF BeginEnquiry, RefundIInv, RefundTypeOK, ClaimsKnow
      <3>2. refundCall' = [refundCall EXCEPT ![o] = refundCall'[o]]
        BY <2>4 DEF BeginEnquiry, RefundIInv, RefundTypeOK
      <3>3. refundCrashes' \in 0 .. MaxRefundCrashes
        BY <2>4 DEF BeginEnquiry, RefundIInv, RefundTypeOK
      <3>4. UNCHANGED <<plan, planner, refund, finished, refundVars, op, about,
                        refundSent, refundTask, refundRetries>>
        BY <2>4 DEF BeginEnquiry
      <3>q. QED BY <3>1, <3>2, <3>3, <3>4, CallStep
    <2>5. CASE QueryRefund(o)
      <3>1. PICK seen \in {"doubt"} \cup ({refund[BatchOf(o)]} \cap {"returned"}) :
                refundCall' = [refundCall EXCEPT ![o] = [step |-> "answered", seen |-> seen]]
        BY <2>5 DEF QueryRefund, queryAlipayRefund, refundQueryConfirmed
      <3>2. refundCall'[o] = [step |-> "answered", seen |-> seen]
        BY <3>1 DEF RefundIInv, RefundTypeOK
      <3>3. refundCall' = [refundCall EXCEPT ![o] = refundCall'[o]]
        BY <3>1, <3>2
      <3>4. refundCrashes' \in 0 .. MaxRefundCrashes /\ refundCall[o].step = "asking"
        BY <2>5 DEF QueryRefund, RefundIInv, RefundTypeOK
      <3>5. UNCHANGED <<plan, planner, refund, finished, refundVars, op, about,
                        refundSent, refundTask, refundRetries>>
        BY <2>5 DEF QueryRefund
      <3>6. /\ refundCall'[o] \in [step : {"idle", "asking", "answered"},
                                   seen : {"nothing", "returned", "doubt", "receipt",
                                           "blocked"}]
            /\ refundCall'[o].step = "answered"
            /\ refundCall'[o].seen = "returned" => refund[BatchOf(o)] = "returned"
        BY <3>2
      <3>q. QED BY <3>3, <3>4, <3>5, <3>6, CallStep
    <2>6. CASE FinishRefundCall(o)
      <3>1. /\ op[o] = "processing" /\ refundCall[o].step = "answered"
            /\ refundCall' = [refundCall EXCEPT ![o] = NoRefundCall]
            /\ UNCHANGED <<plan, planner, refund, finished, about, refundSent,
                           refundCrashes>>
        BY <2>6 DEF FinishRefundCall, Holds
      <3>2. CASE FinishReturned(o)
        BY <3>1, <3>2, FinishReturnedStep
      <3>3. CASE o \in Numbers /\ FinishRefund(o)
        BY <3>1, <3>3, FinishRefundStep
      <3>4. CASE o \in Enquiries /\ FinishEnquiry(o)
        BY <3>1, <3>4, FinishEnquiryStep
      <3>q. QED BY <2>6, <3>2, <3>3, <3>4 DEF FinishRefundCall
    <2>q. QED BY <1>10, <2>1, <2>2, <2>3, <2>4, <2>5, <2>6 DEF RefundWorkerStep
  <1>11. ASSUME NEW o \in Ops, RefundCrash(o)
         PROVE  RefundIInv'
    <2>1. refundCall'[o] = [step |-> "idle", seen |-> "nothing"]
      BY <1>11 DEF RefundCrash, NoRefundCall, RefundIInv, RefundTypeOK
    <2>2. refundCall' = [refundCall EXCEPT ![o] = refundCall'[o]]
      BY <1>11, <2>1 DEF RefundCrash, NoRefundCall
    <2>3. refundCrashes' \in 0 .. MaxRefundCrashes
      BY <1>11, RefundAssumption DEF RefundCrash, RefundIInv, RefundTypeOK
    <2>4. UNCHANGED <<plan, planner, refund, finished, refundVars, op, about,
                      refundSent, refundTask, refundRetries>>
      BY <1>11 DEF RefundCrash
    <2>q. QED BY <2>1, <2>2, <2>3, <2>4, CallStep
  <1>q. QED BY <1>1, <1>2, <1>3, <1>4, <1>5, <1>6, <1>7, <1>8, <1>9, <1>10,
               <1>11 DEF RefundNext

THEOREM Invariance == RefundSpec => []RefundIInv
  BY RefundInitInv, NextInv, PTL DEF RefundSpec

\* Every variable keeps its type.
THEOREM RefundTypeCorrect == RefundSpec => []RefundTypeOK
  BY Invariance, PTL DEF RefundIInv

\* A batch is booked only after the channel returned it, and asked about only
\* after it was requested.
THEOREM RefundsFollowChannelAlways == RefundSpec => []RefundsFollowChannel
  BY Invariance, PTL DEF RefundIInv

\* Whatever the number of enquiries, each refund is booked once.
THEOREM RefundBookedOnceAlways == RefundSpec => []RefundBookedOnce
  BY Invariance, PTL DEF RefundIInv

\* Batch, operation and task of a refund agree.
THEOREM OperationFollowsBatchAlways == RefundSpec => []OperationFollowsBatch
  BY Invariance, PTL DEF RefundIInv

\* A step that leaves something alone, or goes forward.
Kept ==
    /\ \A n \in Numbers : batch[n] = "succeeded" => batch'[n] = "succeeded"
    /\ \A o \in Ops :
          /\ op[o] = "succeeded" => op'[o] = "succeeded"
          /\ op[o] = "pending_review" =>
                op'[o] \in {"pending_review", "succeeded"}

\* A worker that passes the fence settles only what was not settled.
LEMMA FinishKeeps ==
    ASSUME RefundIInv, NEW o \in Ops, FinishRefundCall(o)
    PROVE  Kept
  <1>1. op[o] = "processing"
    BY DEF FinishRefundCall, Holds
  <1>2. CASE FinishReturned(o)
    <2>1. CASE ConfirmBatch(o, BatchOf(o))
      <3>1. \A n \in Numbers : batch[n] = "succeeded" => batch'[n] = "succeeded"
        BY <2>1 DEF ConfirmBatch, RefundIInv, RefundTypeOK
      <3>2. \A p \in Ops : op'[p] \in {op[p], "succeeded"}
        BY <2>1 DEF ConfirmBatch, RefundIInv, RefundTypeOK
      <3>q. QED BY <3>1, <3>2 DEF Kept
    <2>2. CASE op' = [op EXCEPT ![o] = "succeeded"] /\ UNCHANGED refundVars
      BY <2>2 DEF Kept, refundVars, RefundIInv, RefundTypeOK
    <2>q. QED BY <1>2, <2>1, <2>2 DEF FinishReturned
  <1>3. CASE o \in Numbers /\ FinishRefund(o)
    <2>1. batch[o] # "succeeded"
      BY <1>1, <1>3 DEF RefundIInv, OperationFollowsBatch, BatchesArePlanned
    <2>2. /\ \A n \in Numbers : n # o => batch'[n] = batch[n]
          /\ \A p \in Ops : p # o => op'[p] = op[p]
      BY <1>3 DEF FinishRefund, Question, RefundIInv, RefundTypeOK
    <2>q. QED BY <1>1, <2>1, <2>2 DEF Kept
  <1>4. CASE o \in Enquiries /\ FinishEnquiry(o)
    <2>1. /\ UNCHANGED batch
          /\ \A p \in Ops : p # o => op'[p] = op[p]
      BY <1>4 DEF FinishEnquiry, Question, refundVars, RefundIInv, RefundTypeOK
    <2>q. QED BY <1>1, <2>1 DEF Kept
  <1>q. QED BY <1>2, <1>3, <1>4 DEF FinishRefundCall

\* No step takes back a refund that was booked or an operation that was settled.
THEOREM SettledStaysAlways == RefundSpec => SettledStays
  <1>1. ASSUME RefundIInv, RefundNext
        PROVE  Kept
    <2>1. ASSUME NEW who, MakeBatches(who)
          PROVE  Kept
      <3>1. \A n \in Numbers : batch[n] = "none" /\ op[n] = "none"
        BY <1>1, <2>1 DEF MakeBatches, RefundIInv, BatchesArePlanned
      <3>2. \A o \in Ops : op[o] # "none" => op'[o] = op[o]
        <4>1. plan \subseteq Numbers
          BY <1>1 DEF RefundIInv, RefundTypeOK, Numbers
        <4>q. QED BY <2>1, <3>1, <4>1 DEF MakeBatches
      <3>q. QED BY <3>1, <3>2 DEF Kept
    <2>2. CASE ConfirmApproved \/ ScheduleRefund
      BY <2>1, <2>2 DEF ConfirmApproved, ScheduleRefund
    <2>3. CASE ConfirmDelayed \/ Decide \/ TradeFinishes
               \/ \E n \in Numbers : ChannelReturns(n)
      BY <2>3 DEF ConfirmDelayed, Decide, Decision, TradeFinishes,
                  ChannelReturns, refundVars, Kept
    <2>4. ASSUME NEW e, NEW by, NEW o, NEW n, StartEnquiry(e, by, o, n)
          PROVE  Kept
      <3>1. \A p \in Ops : op[p] # "none" => op'[p] = op[p]
        BY <1>1, <2>4 DEF StartEnquiry, RefundIInv, RefundTypeOK
      <3>q. QED BY <2>4, <3>1 DEF StartEnquiry, refundVars, Kept
    <2>5. ASSUME NEW o \in Ops, Claim(o)
          PROVE  Kept
      <3>1. \A p \in Ops :
                op[p] \in {"succeeded", "pending_review"} => op'[p] = op[p]
        BY <1>1, <2>5 DEF Claim, RefundIInv, RefundTypeOK
      <3>q. QED BY <2>5, <3>1 DEF Claim, refundVars, Kept
    <2>6. ASSUME NEW n \in Numbers, BeginRefund(n)
          PROVE  Kept
      <3>1. UNCHANGED op /\ op[n] = "processing"
        BY <2>6 DEF BeginRefund, Holds
      <3>2. batch[n] # "succeeded"
        BY <1>1, <3>1 DEF RefundIInv, OperationFollowsBatch, BatchesArePlanned
      <3>3. \A m \in Numbers : m # n => batch'[m] = batch[m]
        BY <1>1, <2>6 DEF BeginRefund, RefundIInv, RefundTypeOK
      <3>q. QED BY <3>1, <3>2, <3>3 DEF Kept
    <2>7. ASSUME NEW o \in Ops,
                 \/ Throw(o) \/ BeginEnquiry(o) \/ QueryRefund(o)
                 \/ DropStaleClaim(o) \/ RefundCrash(o)
          PROVE  Kept
      BY <2>7 DEF Throw, BeginEnquiry, QueryRefund, DropStaleClaim, RefundCrash,
                  refundVars, Kept
    <2>8. ASSUME NEW o \in Ops, FinishRefundCall(o)
          PROVE  Kept
      BY <1>1, <2>8, FinishKeeps
    <2>9. ASSUME NEW e \in Enquiries, ConsumerAsks(e)
          PROVE  Kept
      BY <2>4, <2>9 DEF ConsumerAsks
    <2>10. ASSUME NEW e \in Enquiries, NEW o \in Ops, MerchantAsks(e, o)
           PROVE  Kept
      BY <2>4, <2>10 DEF MerchantAsks
    <2>11. ASSUME NEW o \in Ops, RefundWorkerStep(o)
           PROVE  Kept
      BY <2>5, <2>6, <2>7, <2>8, <2>11 DEF RefundWorkerStep
    <2>q. QED BY <1>1, <2>2, <2>3, <2>7, <2>9, <2>10, <2>11 DEF RefundNext
  <1>q. QED BY <1>1, Invariance, PTL DEF RefundSpec, SettledStays, Kept

\* Batch, operation, request, order and events tell the story of the channel,
\* for any amounts, enquiries and bounds.
THEOREM RefundTellsOneStoryAlways == RefundSpec => []RefundTellsOneStory
  BY RefundTypeCorrect, RefundsFollowChannelAlways, RefundBookedOnceAlways,
           OperationFollowsBatchAlways, PTL DEF RefundTellsOneStory

==============================================================================
