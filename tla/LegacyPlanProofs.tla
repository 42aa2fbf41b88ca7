-------------------------- MODULE LegacyPlanProofs ---------------------------
(***************************************************************************)
(* Proofs about a plan of the older flow, for any items, prices, rules,    *)
(* outcomes and bounds: what is carried out is what was confirmed, the     *)
(* money a page shows never goes below zero, and every refund adds up.     *)
(***************************************************************************)
EXTENDS LegacyPlan, FiniteSums

------------------------------------------------------------------------------
(* The inductive invariant of LegacySound.                                 *)

RuleType == [rule : AllRules, version : 1 .. MaxRuleVersion]
Lines == UNION {[S -> Line] : S \in SUBSET Items}
Drafted ==
    [type : {"purchase", "change", "renewal"}, version : Nat,
     status : {"pending", "confirmed", "executing"}, lines : Lines]
OrderType ==
    [by : Proposals, price : Nat,
     status : {"created", "fulfilling", "cancelled", "cancellation_processing",
               "cancellation_rejected"},
     payment : {"pending", "paid", "unknown", "closed"},
     reserved : Nat, refunded : Nat, modes : UNION {Modes[i] : i \in Items}]
BatchType ==
    [amount : Nat, status : {"pending", "unknown", "pending_review", "succeeded"}]
\* Batches are numbered from one without a gap.
BatchesType == [{} -> BatchType] \cup [{1} -> BatchType] \cup [{1, 2} -> BatchType]
RequestType ==
    [status : {"delayed", "approved", "rejected", "refund_processing",
               "pending_review", "completed"},
     rule : AllRules, fee : Nat, refund : Nat, batches : BatchesType]
OpStates == {"none", "accepted", "succeeded", "failed", "unknown", "pending_review"}
TaskStates == {"none", "open", "claimed", "resolved"}

Typed ==
    /\ plan \in [version : 1 .. MaxVersion, limit : Limits \cup {FirstLimit},
                 paused : SUBSET Items]
    /\ item \in [Items -> {"pending", "in_progress", "stopped"}]
    /\ catalog \in [Items -> RuleType]
    /\ proposal \in [Proposals -> Drafted \cup {EmptyProposal}]
    /\ auth \in [Proposals -> {"none", "active", "paused", "revoked"}]
    /\ queryAuth \in [Proposals -> {"none", "active", "revoked", "expired"}]
    /\ order \in [Items -> OrderType \cup {None}]
    /\ op \in [Ops -> OpStates]
    /\ request \in [Changes -> RequestType \cup {None}]
    /\ task \in [TaskKeys -> TaskStates]

\* What a line of a change proposal is about: an order that exists is closed
\* or cancelled, and a cancellation splits its price.
LineKnown(line, i) ==
    /\ line.intent \in {"stop", "close", "cancel"}
    /\ line.intent # "stop" => Ordered(i)
    /\ line.intent = "cancel" => line.fee + line.refund = Price[i]

ProposalKnown(p) ==
    /\ proposal[p].type = "change" =>
           \A i \in DOMAIN proposal[p].lines : LineKnown(proposal[p].lines[i], i)
    /\ proposal[p].status = "executing" =>
           /\ proposal[p].type = "change"
           /\ \A i \in DOMAIN proposal[p].lines :
                  proposal[p].lines[i].intent = "stop"
                      => item[i] = "stopped" /\ ~Ordered(i)

\* Only a proposal that is carried out has operations, and only one that
\* closes an order is still in the queue.
ChangeKnown(p, i) ==
    op[<<"change", <<p, i>>>>] # "none" =>
        /\ proposal[p].status = "executing" /\ i \in DOMAIN proposal[p].lines
        /\ op[<<"change", <<p, i>>>>] = "accepted"
               => proposal[p].lines[i].intent = "close"

RequestKnown(p, i) ==
    Requested(<<p, i>>) =>
        /\ proposal[p].status = "executing" /\ i \in DOMAIN proposal[p].lines
        /\ proposal[p].lines[i].intent = "cancel"
        /\ request[<<p, i>>].fee = proposal[p].lines[i].fee
        /\ request[<<p, i>>].refund = proposal[p].lines[i].refund
        /\ order[i].payment = "paid"

ClosedBy(p, i) ==
    op[<<"change", <<p, i>>>>] = "succeeded" /\ proposal[p].lines[i].intent = "close"

OrderKnown(i) ==
    Ordered(i) =>
        /\ proposal[order[i].by].type = "purchase"
        /\ proposal[order[i].by].status = "confirmed"
        /\ i \in DOMAIN proposal[order[i].by].lines
        /\ order[i].price = Price[i] /\ order[i].refunded <= Price[i]
        /\ order[i].payment = "closed" <=> \E p \in Proposals : ClosedBy(p, i)

PayKnown(i) == op[<<"pay", i>>] # "none" => Ordered(i)

ActiveAt(p, i) == Requested(<<p, i>>) /\ request[<<p, i>>].status \in Active
OneActive(i) == \A p, q \in Proposals : ActiveAt(p, i) /\ ActiveAt(q, i) => p = q

Carried ==
    /\ \A p \in Proposals : ProposalKnown(p)
    /\ \A p \in Proposals, i \in Items : ChangeKnown(p, i) /\ RequestKnown(p, i)
    /\ \A i \in Items : OrderKnown(i) /\ PayKnown(i) /\ OneActive(i)

LegacyIInv == Typed /\ Carried

LEMMA NothingIsNone ==
    /\ \A o \in OrderType : o # None
    /\ \A r \in RequestType : r # None
    /\ \A d \in Drafted : d # EmptyProposal
    /\ EmptyProposal.type = "none" /\ EmptyProposal.status = "none"
  BY DEF OrderType, RequestType, Drafted, None, EmptyProposal

\* A set of which any two elements are equal has one at most.
LEMMA AtMostOneElement ==
    ASSUME NEW S, IsFiniteSet(S), \A x, y \in S : x = y PROVE Cardinality(S) <= 1
  <1>1. CASE S = {}
    BY <1>1, FS_EmptySet
  <1>2. ASSUME NEW x \in S PROVE Cardinality(S) <= 1
    <2>1. S = {x}
      BY <1>2
    <2>q. QED BY <2>1, FS_Singleton
  <1>q. QED BY <1>1, <1>2

LEMMA LegacyIInvImplies == LegacyIInv => LegacySound
  <1> SUFFICES ASSUME LegacyIInv PROVE LegacySound
    OBVIOUS
  <1>1. TypeOK
    <2>1. \A p \in Proposals : /\ DOMAIN proposal[p].lines \subseteq Items
                               /\ \A i \in DOMAIN proposal[p].lines :
                                      proposal[p].lines[i] \in Line
      BY DEF LegacyIInv, Typed, Drafted, Lines, EmptyProposal
    <2>2. \A p \in Proposals :
              /\ proposal[p].type \in {"none", "purchase", "change", "renewal"}
              /\ proposal[p].status \in {"none", "pending", "confirmed", "executing"}
      BY DEF LegacyIInv, Typed, Drafted, EmptyProposal
    <2>3. \A i \in Items : Ordered(i) => order[i] \in OrderType /\ OrderKnown(i)
      BY DEF LegacyIInv, Typed, Carried, Ordered
    <2>4. \A i \in Items : Price[i] \in Nat
      BY LegacyAssumption
    <2>q. QED BY <2>1, <2>2, <2>3, <2>4 DEF TypeOK, LegacyIInv, Typed, OrderType,
                OrderKnown, OpStates, TaskStates
  <1>2. ASSUME NEW i \in Items
        PROVE  Cardinality({p \in Proposals : Requested(<<p, i>>)
                              /\ request[<<p, i>>].status \in Active}) <= 1
    <2>1. IsFiniteSet(Proposals)
      BY FS_Interval, LegacyAssumption DEF Proposals
    <2> DEFINE S == {p \in Proposals : Requested(<<p, i>>)
                              /\ request[<<p, i>>].status \in Active}
    <2>2. IsFiniteSet(S)
      BY <2>1, FS_Subset
    <2>3. \A p, q \in S : p = q
      BY DEF LegacyIInv, Carried, OneActive, ActiveAt
    <2> HIDE DEF S
    <2>4. Cardinality(S) <= 1
      BY <2>2, <2>3, AtMostOneElement
    <2>q. QED BY <2>4 DEF S
  <1>3. ASSUME NEW p \in Proposals, NEW i \in Items, Requested(<<p, i>>)
        PROVE  LET line == proposal[p].lines[i]
               IN  line.intent = "cancel" /\ line.fee + line.refund = order[i].price
    <2>1. RequestKnown(p, i) /\ ProposalKnown(p) /\ OrderKnown(i)
      BY DEF LegacyIInv, Carried
    <2>2. proposal[p].type = "change" /\ LineKnown(proposal[p].lines[i], i)
      BY <1>3, <2>1 DEF RequestKnown, ProposalKnown
    <2>q. QED BY <1>3, <2>1, <2>2 DEF RequestKnown, LineKnown, OrderKnown
  <1>4. \A c \in Changes : c[1] \in Proposals /\ c[2] \in Items /\ c = <<c[1], c[2]>>
    BY DEF Changes
  <1>5. \A c \in Changes : Requested(c) =>
            /\ proposal[c[1]].status = "executing"
            /\ order[c[2]].payment = "paid"
            /\ request[c].fee = proposal[c[1]].lines[c[2]].fee
            /\ request[c].refund = proposal[c[1]].lines[c[2]].refund
    BY <1>4 DEF LegacyIInv, Carried, RequestKnown
  <1>6. \A c \in Changes : Requested(c) =>
            LET line == proposal[c[1]].lines[c[2]]
            IN  line.intent = "cancel" /\ line.fee + line.refund = order[c[2]].price
    BY <1>3, <1>4
  <1>7. \A p \in Proposals : ProposalKnown(p)
    BY DEF LegacyIInv, Carried
  <1>8. \A i \in Items : OrderKnown(i)
    BY DEF LegacyIInv, Carried
  <1>q. QED BY <1>1, <1>2, <1>5, <1>6, <1>7, <1>8
            DEF LegacySound, CarriedOutAsConfirmed, ProposalKnown, OrderKnown, ClosedBy

LEMMA LegacyInit == Init => LegacyIInv
  <1> SUFFICES ASSUME Init PROVE LegacyIInv
    OBVIOUS
  <1>1. Typed
    BY LegacyAssumption DEF Init, Typed, RuleType, OpStates, TaskStates
  <1>2. Carried
    BY NothingIsNone DEF Init, Carried, ProposalKnown, ChangeKnown, RequestKnown, OrderKnown,
       PayKnown, OneActive, ActiveAt, Requested, Ordered, Ops, PayOps, ChangeOps, Changes
  <1>q. QED BY <1>1, <1>2 DEF LegacyIInv

------------------------------------------------------------------------------
(* Steps that leave orders, operations and requests alone.                 *)

\* The state that lines and orders depend on.
Concerned == <<item, order, op, request>>

\* A new proposal, or one that is confirmed.
Fresh(p) ==
    /\ proposal[p] = EmptyProposal
    /\ proposal'[p].type \in {"purchase", "change", "renewal"}
    /\ proposal'[p].status # "executing"
    /\ proposal'[p].type = "change" =>
           \A i \in DOMAIN proposal'[p].lines : LineKnown(proposal'[p].lines[i], i)
Approved(p) ==
    /\ proposal[p].status = "pending" /\ proposal'[p].status = "confirmed"
    /\ proposal'[p].type = proposal[p].type /\ proposal'[p].lines = proposal[p].lines

LEMMA ProposalStep ==
    ASSUME LegacyIInv, UNCHANGED Concerned,
           \A p \in Proposals : proposal'[p] = proposal[p] \/ Fresh(p) \/ Approved(p)
    PROVE  Carried'
  <1>0. /\ UNCHANGED <<item, order, op, request>>
        /\ \A p \in Proposals : ProposalKnown(p)
        /\ \A p \in Proposals, i \in Items : ChangeKnown(p, i) /\ RequestKnown(p, i)
        /\ \A i \in Items : OrderKnown(i) /\ PayKnown(i) /\ OneActive(i)
        /\ Typed
    BY DEF Concerned, LegacyIInv, Carried
  <1>1. \A p \in Proposals : proposal[p].status \in {"executing", "confirmed"} =>
            /\ proposal'[p].status = proposal[p].status
            /\ proposal'[p].type = proposal[p].type
            /\ proposal'[p].lines = proposal[p].lines
    BY NothingIsNone DEF Fresh, Approved
  <1>2. ASSUME NEW p \in Proposals PROVE ProposalKnown(p)'
    <2>1. CASE proposal'[p] = proposal[p]
      BY <1>0, <2>1 DEF ProposalKnown, LineKnown, Ordered
    <2>2. CASE Fresh(p)
      BY <1>0, <2>2 DEF Fresh, ProposalKnown, LineKnown, Ordered
    <2>3. CASE Approved(p)
      BY <1>0, <2>3 DEF Approved, ProposalKnown, LineKnown, Ordered
    <2>q. QED BY <2>1, <2>2, <2>3
  <1>3. ASSUME NEW p \in Proposals, NEW i \in Items
        PROVE  /\ ChangeKnown(p, i)' /\ RequestKnown(p, i)'
               /\ ClosedBy(p, i)' <=> ClosedBy(p, i)
    BY <1>0, <1>1 DEF ChangeKnown, RequestKnown, ClosedBy, Requested
  <1>4. ASSUME NEW i \in Items PROVE OrderKnown(i)' /\ PayKnown(i)' /\ OneActive(i)'
    <2>1. Ordered(i) => order[i].by \in Proposals
      BY <1>0 DEF Typed, OrderType, Ordered
    <2>2. OneActive(i)' /\ PayKnown(i)'
      BY <1>0 DEF OneActive, ActiveAt, Requested, PayKnown, Ordered
    <2>3. OrderKnown(i)'
      BY <1>0, <1>1, <1>3, <2>1 DEF OrderKnown, Ordered
    <2>q. QED BY <2>2, <2>3
  <1>q. QED BY <1>2, <1>3, <1>4 DEF Carried

LEMMA QuietStep ==
    ASSUME LegacyIInv, UNCHANGED <<item, order, op, request, proposal>>
    PROVE  Carried'
  BY ProposalStep DEF Concerned

LEMMA UpdateRuleInv ==
    ASSUME LegacyIInv, NEW i \in Items, UpdateRule(i) PROVE LegacyIInv'
  <1>1. Carried'
    BY QuietStep DEF UpdateRule, consumerVars
  <1>2. Typed'
    <2>1. PICK rule \in Rules : catalog' = [catalog EXCEPT
                  ![i] = [rule |-> rule, version |-> catalog[i].version + 1]]
      BY DEF UpdateRule, LegacyIInv, Typed
    <2>2. [rule |-> rule, version |-> catalog[i].version + 1] \in RuleType
      BY LegacyAssumption DEF UpdateRule, LegacyIInv, Typed, RuleType
    <2>3. catalog' \in [Items -> RuleType]
      BY <2>1, <2>2 DEF LegacyIInv, Typed
    <2>q. QED BY <2>3 DEF UpdateRule, consumerVars, LegacyIInv, Typed
  <1>q. QED BY <1>1, <1>2 DEF LegacyIInv

LEMMA EndAuthorityInv ==
    ASSUME LegacyIInv, pausePurchases \/ RevokeAftercare PROVE LegacyIInv'
  <1>1. Carried'
    BY QuietStep DEF pausePurchases, RevokeAftercare
  <1>2. CASE pausePurchases
    <2>1. PICK S \in Pauses :
              /\ plan' = [plan EXCEPT !.paused = plan.paused \cup S,
                                      !.version = plan.version + 1]
              /\ auth' = auth \/ auth' = Withdraw(0, "paused")
      BY <1>2 DEF pausePurchases
    <2>2. plan' \in [version : 1 .. MaxVersion, limit : Limits \cup {FirstLimit},
                     paused : SUBSET Items]
      <3>1. plan' = [version |-> plan.version + 1, limit |-> plan.limit,
                     paused |-> plan.paused \cup S]
        BY <2>1 DEF LegacyIInv, Typed
      <3>2. plan.version + 1 \in 1 .. MaxVersion
        <4>1. /\ plan.version \in 1 .. MaxVersion /\ plan.version < MaxVersion
              /\ MaxVersion \in Nat
          BY <1>2, LegacyAssumption DEF pausePurchases, LegacyIInv, Typed
        <4>q. QED BY <4>1
      <3>3. plan.paused \cup S \in SUBSET Items
        BY LegacyAssumption DEF LegacyIInv, Typed
      <3>q. QED BY <3>1, <3>2, <3>3 DEF LegacyIInv, Typed
    <2>3. auth' \in [Proposals -> {"none", "active", "paused", "revoked"}]
      BY <2>1 DEF Withdraw, LegacyIInv, Typed
    <2>q. QED BY <1>1, <1>2, <2>2, <2>3 DEF pausePurchases, LegacyIInv, Typed
  <1>3. CASE RevokeAftercare
    BY <1>1, <1>3 DEF RevokeAftercare, LegacyIInv, Typed
  <1>q. QED BY <1>1, <1>2, <1>3 DEF LegacyIInv

LEMMA TaskStepInv ==
    ASSUME LegacyIInv, \/ \E k \in TaskKeys : ClaimTask(k)
                       \/ \E o \in Rechecked : RequestRecheck(o)
    PROVE  LegacyIInv'
  <1>1. Carried'
    BY QuietStep DEF ClaimTask, RequestRecheck, consumerVars
  <1>2. task' \in [TaskKeys -> TaskStates]
    BY ZenonT(30) DEF ClaimTask, RequestRecheck, ensureManualTask, LegacyIInv, Typed, TaskStates
  <1>3. UNCHANGED <<consumerVars, item, catalog, order, op, request>>
    BY DEF ClaimTask, RequestRecheck
  <1>q. QED BY <1>1, <1>2, <1>3 DEF consumerVars, LegacyIInv, Typed

------------------------------------------------------------------------------
(* Previews and confirmations.                                             *)

LEMMA PreviewStep ==
    ASSUME LegacyIInv, NEW p \in Proposals, NextProposal(p),
           NEW type \in {"purchase", "change", "renewal"},
           NEW status \in {"pending", "confirmed"}, NEW lines \in Lines,
           Preview(p, type, status, lines),
           type = "change" => \A i \in DOMAIN lines : LineKnown(lines[i], i),
           UNCHANGED <<plan, auth, item, catalog, order, op, request, task>>,
           queryAuth' \in [Proposals -> {"none", "active", "revoked", "expired"}]
    PROVE  LegacyIInv'
  <1> DEFINE new == [type |-> type, version |-> plan.version, status |-> status,
                     lines |-> lines]
  <1>1. proposal' = [proposal EXCEPT ![p] = new]
    BY DEF Preview
  <1>2. new \in Drafted
    BY DEF LegacyIInv, Typed, Drafted
  <1>3. Typed'
    BY <1>1, <1>2 DEF LegacyIInv, Typed
  <1>4. /\ proposal'[p] = new
        /\ \A q \in Proposals \ {p} : proposal'[q] = proposal[q]
    BY <1>1 DEF LegacyIInv, Typed
  <1>5. Fresh(p)
    BY <1>4 DEF Fresh, NextProposal
  <1>6. Carried'
    BY <1>4, <1>5, ProposalStep DEF Concerned
  <1>q. QED BY <1>3, <1>6 DEF LegacyIInv

LEMMA FeeFits ==
    ASSUME NEW i \in Items, NEW rule \in AllRules, RuleFits(rule, i)
    PROVE  /\ FeeOf(rule, i) \in Nat /\ Price[i] - FeeOf(rule, i) \in Nat
  BY LegacyAssumption DEF AllRules, RuleFits, FeeOf, cancellationRuleDetails

LEMMA PurchasePreviewInv ==
    ASSUME LegacyIInv, NEW p \in Proposals, createPurchaseProposal(p) PROVE LegacyIInv'
  <1>1. PICK S \in SUBSET Items :
            Preview(p, "purchase", "pending",
                  [i \in S |-> [intent |-> "buy", fee |-> 0,
                                refund |-> Price[i], rule |-> catalog[i]]])
    BY DEF createPurchaseProposal
  <1> DEFINE lines == [i \in S |-> [intent |-> "buy", fee |-> 0,
                                    refund |-> Price[i], rule |-> catalog[i]]]
  <1>2. lines \in Lines
    <2>1. \A i \in S : lines[i] \in Line
      BY LegacyAssumption DEF Line, LegacyIInv, Typed, RuleType
    <2>2. lines \in [S -> Line]
      BY <2>1
    <2>q. QED BY <2>2 DEF Lines
  <1>3. Preview(p, "purchase", "pending", lines)
    BY <1>1
  <1> HIDE DEF lines
  <1>4. /\ UNCHANGED <<plan, auth, queryAuth, item, catalog, order, op, request, task>>
        /\ NextProposal(p)
    BY DEF createPurchaseProposal
  <1>5. queryAuth' \in [Proposals -> {"none", "active", "revoked", "expired"}]
    BY <1>4 DEF LegacyIInv, Typed
  <1>q. QED BY <1>2, <1>3, <1>4, <1>5, PreviewStep

LEMMA ChangePreviewInv ==
    ASSUME LegacyIInv, NEW p \in Proposals, createChangeProposal(p) PROVE LegacyIInv'
  <1>0. PICK S \in SUBSET Items :
            \E intent \in [S -> {"stop", "close", "cancel"}] :
                /\ \A i \in S : MayIntend(i, intent[i])
                /\ Preview(p, "change", "pending", [i \in S |-> Quote(i, intent[i])])
    BY LegacyAssumption DEF createChangeProposal
  <1>1. PICK intent \in [S -> {"stop", "close", "cancel"}] :
            /\ \A i \in S : MayIntend(i, intent[i])
            /\ Preview(p, "change", "pending", [i \in S |-> Quote(i, intent[i])])
    BY <1>0
  <1> DEFINE lines == [i \in S |-> Quote(i, intent[i])]
  <1>2. ASSUME NEW i \in S PROVE lines[i] \in Line /\ LineKnown(lines[i], i)
    <2>1. catalog[i] \in RuleType /\ catalog[i].rule \in AllRules /\ Price[i] \in Nat
      BY LegacyAssumption DEF LegacyIInv, Typed, RuleType
    <2>2. CASE intent[i] = "cancel"
      <3>1. RuleFits(catalog[i].rule, i) /\ Ordered(i)
        BY <1>1, <2>2 DEF MayIntend
      <3> DEFINE fee == FeeOf(catalog[i].rule, i)
      <3>2. fee \in Nat /\ Price[i] - fee \in Nat
        BY <2>1, <3>1, FeeFits
      <3>3. lines[i] = [intent |-> "cancel", rule |-> catalog[i],
                        fee |-> fee, refund |-> Price[i] - fee]
        BY <2>2 DEF Quote
      <3> HIDE DEF fee, lines
      <3>q. QED BY <2>1, <3>1, <3>2, <3>3 DEF Line, RuleType, LineKnown
    <2>3. CASE intent[i] # "cancel"
      <3>1. intent[i] \in {"stop", "close"} /\ (intent[i] = "close" => Ordered(i))
        BY <1>1, <2>3 DEF MayIntend
      <3>2. lines[i] = [intent |-> intent[i], rule |-> catalog[i], fee |-> 0, refund |-> 0]
        BY <2>3 DEF Quote
      <3> HIDE DEF lines
      <3>q. QED BY <2>1, <3>1, <3>2 DEF Line, RuleType, LineKnown
    <2>q. QED BY <2>2, <2>3
  <1>3. lines \in [S -> Line] /\ DOMAIN lines = S
    BY <1>2
  <1>4. lines \in Lines
    BY <1>3 DEF Lines
  <1>5. Preview(p, "change", "pending", lines)
    BY <1>1
  <1>6. \A i \in DOMAIN lines : LineKnown(lines[i], i)
    BY <1>2
  <1> HIDE DEF lines
  <1>7. /\ UNCHANGED <<plan, auth, queryAuth, item, catalog, order, op, request, task>>
        /\ NextProposal(p)
    BY DEF createChangeProposal
  <1>8. queryAuth' \in [Proposals -> {"none", "active", "revoked", "expired"}]
    BY <1>7 DEF LegacyIInv, Typed
  <1>q. QED BY <1>4, <1>5, <1>6, <1>7, <1>8, PreviewStep

LEMMA RenewQueryInv ==
    ASSUME LegacyIInv, NEW p \in Proposals, RenewQuery(p) PROVE LegacyIInv'
  <1>1. PICK S \in SUBSET Items :
            Preview(p, "renewal", "confirmed",
               [i \in S |-> [intent |-> "ask", fee |-> 0, refund |-> 0,
                             rule |-> catalog[i]]])
    BY DEF RenewQuery
  <1> DEFINE lines == [i \in S |-> [intent |-> "ask", fee |-> 0, refund |-> 0,
                                    rule |-> catalog[i]]]
  <1>2. lines \in Lines
    <2>1. \A i \in S : lines[i] \in Line
      BY DEF Line, LegacyIInv, Typed, RuleType
    <2>2. lines \in [S -> Line]
      BY <2>1
    <2>q. QED BY <2>2 DEF Lines
  <1>3. Preview(p, "renewal", "confirmed", lines)
    BY <1>1
  <1> HIDE DEF lines
  <1>4. /\ UNCHANGED <<plan, auth, item, catalog, order, op, request, task>>
        /\ NextProposal(p)
        /\ queryAuth' \in [Proposals -> {"none", "active", "revoked", "expired"}]
    BY DEF RenewQuery, LegacyIInv, Typed
  <1>q. QED BY <1>2, <1>3, <1>4, PreviewStep

LEMMA ApproveStep ==
    ASSUME LegacyIInv, NEW p \in Proposals, proposal[p].status = "pending",
           proposal' = [proposal EXCEPT ![p].status = "confirmed"]
    PROVE  /\ proposal' \in [Proposals -> Drafted \cup {EmptyProposal}]
           /\ \A q \in Proposals : proposal'[q] = proposal[q] \/ Approved(q)
  <1>1. proposal[p] \in Drafted
    BY NothingIsNone DEF LegacyIInv, Typed
  <1> DEFINE new == [type |-> proposal[p].type, version |-> proposal[p].version,
                     status |-> "confirmed", lines |-> proposal[p].lines]
  <1>2. [proposal[p] EXCEPT !.status = "confirmed"] = new /\ new \in Drafted
    BY <1>1 DEF Drafted
  <1>3. proposal' = [proposal EXCEPT ![p] = new]
    BY <1>2
  <1>4. proposal'[p] = new /\ \A q \in Proposals \ {p} : proposal'[q] = proposal[q]
    BY <1>3 DEF LegacyIInv, Typed
  <1>5. Approved(p)
    BY <1>4 DEF Approved
  <1>6. proposal' \in [Proposals -> Drafted \cup {EmptyProposal}]
    BY <1>2, <1>3 DEF LegacyIInv, Typed
  <1>q. QED BY <1>4, <1>5, <1>6

LEMMA ConfirmPurchaseInv ==
    ASSUME LegacyIInv, NEW p \in Proposals, ConfirmPurchase(p) PROVE LegacyIInv'
  <1>1. /\ proposal[p].status = "pending"
        /\ proposal' = [proposal EXCEPT ![p].status = "confirmed"]
        /\ UNCHANGED <<queryAuth, item, catalog, order, op, request, task>>
    BY DEF ConfirmPurchase, assertProposalActive
  <1>2. Carried'
    BY <1>1, ApproveStep, ProposalStep DEF Concerned
  <1>3. plan' \in [version : 1 .. MaxVersion, limit : Limits \cup {FirstLimit},
                   paused : SUBSET Items]
    <2>1. PICK limit \in Limits, restored \in SUBSET DOMAIN proposal[p].lines :
              plan' = [version |-> plan.version + 1, limit |-> limit,
                       paused |-> plan.paused \ restored]
      BY DEF ConfirmPurchase
    <2>2. plan.version + 1 \in 1 .. MaxVersion /\ plan.paused \ restored \in SUBSET Items
      BY LegacyAssumption DEF ConfirmPurchase, LegacyIInv, Typed
    <2>q. QED BY <2>1, <2>2
  <1>4. auth' \in [Proposals -> {"none", "active", "paused", "revoked"}]
    BY DEF ConfirmPurchase, Withdraw, LegacyIInv, Typed
  <1>q. QED BY <1>1, <1>2, <1>3, <1>4, ApproveStep DEF LegacyIInv, Typed

LEMMA ConfirmChangeInv ==
    ASSUME LegacyIInv, NEW p \in Proposals, ConfirmChange(p) PROVE LegacyIInv'
  <1>1. /\ proposal[p].status = "pending"
        /\ proposal' = [proposal EXCEPT ![p].status = "confirmed"]
        /\ auth' = [auth EXCEPT ![p] = "active"]
        /\ queryAuth' = [queryAuth EXCEPT ![p] = "active"]
        /\ UNCHANGED <<plan, item, catalog, order, op, request, task>>
    BY DEF ConfirmChange, assertProposalActive
  <1>2. Carried'
    BY <1>1, ApproveStep, ProposalStep DEF Concerned
  <1>q. QED BY <1>1, <1>2, ApproveStep DEF LegacyIInv, Typed

------------------------------------------------------------------------------
(* A purchase is carried out, and steps of orders, requests and batches.   *)

LEMMA OpsApart ==
    /\ \A i \in Items : <<"pay", i>> \in Ops
    /\ \A c \in Changes : <<"change", c>> \in Ops
    /\ \A i \in Items, c \in Changes : <<"pay", i>> # <<"change", c>>
    /\ \A p \in Proposals, i \in Items : <<p, i>> \in Changes
    /\ \A c \in Changes : c[1] \in Proposals /\ c[2] \in Items /\ c = <<c[1], c[2]>>
  BY DEF Ops, PayOps, ChangeOps, Changes

\* Lines that close or cancel, and requests, are of orders that exist.
LEMMA OrderBehind ==
    ASSUME LegacyIInv, NEW p \in Proposals, NEW i \in Items
    PROVE  /\ Requested(<<p, i>>) => Ordered(i)
           /\ ClosedBy(p, i) => Ordered(i)
           /\ op[<<"change", <<p, i>>>>] = "accepted" => Ordered(i)
           /\ Requested(<<p, i>>) => proposal[p].lines[i].intent = "cancel"
  BY DEF LegacyIInv, Carried, ProposalKnown, LineKnown, ChangeKnown, RequestKnown, ClosedBy

LEMMA OrderInv ==
    ASSUME LegacyIInv, NEW p \in Proposals, NEW i \in Items, createConfirmedOrder(p, i)
    PROVE  LegacyIInv'
  <1>1. PICK modes \in Modes[i] :
            order' = [order EXCEPT ![i] =
               [by |-> p, price |-> Price[i], status |-> "created",
                payment |-> "pending", reserved |-> Price[i], refunded |-> 0,
                modes |-> modes]]
    BY DEF createConfirmedOrder
  <1> DEFINE new == [by |-> p, price |-> Price[i], status |-> "created",
                     payment |-> "pending", reserved |-> Price[i], refunded |-> 0,
                     modes |-> modes]
  <1>2. /\ item' = [item EXCEPT ![i] = "in_progress"]
        /\ op' = [op EXCEPT ![<<"pay", i>>] = "accepted"]
        /\ UNCHANGED <<plan, proposal, auth, queryAuth, catalog, request, task>>
        /\ ~Ordered(i) /\ item[i] # "stopped" /\ i \in DOMAIN proposal[p].lines
        /\ proposal[p].type = "purchase" /\ proposal[p].status = "confirmed"
    BY DEF createConfirmedOrder, consumerVars, Orderable
  <1>3. new \in OrderType /\ new # None /\ Price[i] \in Nat
    BY LegacyAssumption, NothingIsNone DEF OrderType
  <1>4. /\ order'[i] = new
        /\ \A j \in Items \ {i} : order'[j] = order[j] /\ item'[j] = item[j]
        /\ \A j \in Items : Ordered(j)' <=> Ordered(j) \/ j = i
        /\ \A j \in Items \ {i} : op'[<<"pay", j>>] = op[<<"pay", j>>]
        /\ \A q \in Proposals, j \in Items :
               op'[<<"change", <<q, j>>>>] = op[<<"change", <<q, j>>>>]
    BY <1>1, <1>2, <1>3, OpsApart DEF LegacyIInv, Typed, Ordered
  <1>5. Typed'
    BY <1>1, <1>2, <1>3 DEF LegacyIInv, Typed, OpStates
  <1>6. Carried'
    <2>0. /\ \A q \in Proposals : ProposalKnown(q)
          /\ \A q \in Proposals, j \in Items : ChangeKnown(q, j) /\ RequestKnown(q, j)
          /\ \A j \in Items : OrderKnown(j) /\ PayKnown(j) /\ OneActive(j)
          /\ proposal \in [Proposals -> Drafted \cup {EmptyProposal}]
      BY DEF LegacyIInv, Carried, Typed
    <2>1. \A q \in Proposals : DOMAIN proposal[q].lines \subseteq Items
      BY <2>0 DEF Drafted, Lines, EmptyProposal
    <2>2. ASSUME NEW q \in Proposals PROVE ProposalKnown(q)'
      <3>1. ProposalKnown(q)
        BY <2>0
      <3>q. QED BY <1>2, <1>4, <2>1, <3>1 DEF ProposalKnown, LineKnown
    <2>3. ASSUME NEW q \in Proposals, NEW j \in Items
          PROVE  /\ ChangeKnown(q, j)' /\ RequestKnown(q, j)'
                 /\ ClosedBy(q, j)' <=> ClosedBy(q, j)
      <3>1. ChangeKnown(q, j) /\ RequestKnown(q, j) /\ (Requested(<<q, j>>) => j # i)
        BY <1>2, <2>0, OrderBehind
      <3>q. QED BY <1>2, <1>4, <3>1
                DEF ChangeKnown, RequestKnown, ClosedBy, Requested
    <2>4. ASSUME NEW j \in Items PROVE OrderKnown(j)' /\ PayKnown(j)' /\ OneActive(j)'
      <3>1. PayKnown(j)' /\ OneActive(j)'
        BY <1>2, <1>4, <2>0 DEF PayKnown, OneActive, ActiveAt, Requested
      <3>2. CASE j # i
        <4>1. OrderKnown(j)
          BY <2>0
        <4>q. QED BY <1>2, <1>4, <2>3, <3>1, <3>2, <4>1 DEF OrderKnown
      <3>3. CASE j = i
        <4>1. \A q \in Proposals : ~ClosedBy(q, i)'
          BY <1>2, <2>3, OrderBehind
        <4>q. QED BY <1>2, <1>3, <1>4, <3>1, <3>3, <4>1 DEF OrderKnown
      <3>q. QED BY <3>2, <3>3
    <2>q. QED BY <2>2, <2>3, <2>4 DEF Carried
  <1>q. QED BY <1>5, <1>6 DEF LegacyIInv

\* What a step of an order, of a request or of an operation may do.
OrderMoves(i) ==
    /\ Ordered(i) /\ Ordered(i)'
    /\ order'[i].by = order[i].by /\ order'[i].price = order[i].price
    /\ order'[i].refunded <= Price[i]
    /\ \/ order'[i].payment = order[i].payment
       \/ order[i].payment = "pending" /\ order'[i].payment \in {"paid", "unknown"}
RequestMoves(c) ==
    /\ Requested(c) /\ Requested(c)'
    /\ request'[c].fee = request[c].fee /\ request'[c].refund = request[c].refund
    /\ request'[c].status \in Active => request[c].status \in Active

LEMMA MoveStep ==
    ASSUME LegacyIInv, UNCHANGED <<proposal, item>>,
           \A i \in Items : order'[i] = order[i] \/ OrderMoves(i),
           \A c \in Changes : request'[c] = request[c] \/ RequestMoves(c),
           \A i \in Items : op'[<<"pay", i>>] = op[<<"pay", i>>] \/ Ordered(i)',
           \A c \in Changes :
               \/ op'[<<"change", c>>] = op[<<"change", c>>]
               \/ Requested(c) /\ op'[<<"change", c>>] = "succeeded"
    PROVE  Carried'
  <1>0. /\ \A p \in Proposals : ProposalKnown(p)
        /\ \A p \in Proposals, i \in Items : ChangeKnown(p, i) /\ RequestKnown(p, i)
        /\ \A i \in Items : OrderKnown(i) /\ PayKnown(i) /\ OneActive(i)
        /\ proposal \in [Proposals -> Drafted \cup {EmptyProposal}]
    BY DEF LegacyIInv, Carried, Typed
  <1>1. /\ \A i \in Items : Ordered(i)' <=> Ordered(i)
        /\ \A p \in Proposals, i \in Items : Requested(<<p, i>>)' <=> Requested(<<p, i>>)
    BY OpsApart DEF OrderMoves, RequestMoves, Ordered, Requested
  <1>2. \A p \in Proposals : DOMAIN proposal[p].lines \subseteq Items
    BY <1>0 DEF Drafted, Lines, EmptyProposal
  <1>3. ASSUME NEW p \in Proposals PROVE ProposalKnown(p)'
    <2>1. ProposalKnown(p)
      BY <1>0
    <2>q. QED BY <1>1, <1>2, <2>1 DEF ProposalKnown, LineKnown
  <1>4. ASSUME NEW p \in Proposals, NEW i \in Items
        PROVE  /\ ChangeKnown(p, i)' /\ RequestKnown(p, i)'
               /\ ClosedBy(p, i)' <=> ClosedBy(p, i)
               /\ ActiveAt(p, i)' => ActiveAt(p, i)
    <2>1. ChangeKnown(p, i) /\ RequestKnown(p, i) /\ <<p, i>> \in Changes
      BY <1>0, OpsApart
    <2>2. \/ op'[<<"change", <<p, i>>>>] = op[<<"change", <<p, i>>>>]
          \/ Requested(<<p, i>>) /\ op'[<<"change", <<p, i>>>>] = "succeeded"
      BY <2>1
    <2>3. request'[<<p, i>>] = request[<<p, i>>] \/ RequestMoves(<<p, i>>)
      BY <2>1
    <2>4. ChangeKnown(p, i)' /\ (ClosedBy(p, i)' <=> ClosedBy(p, i))
      <3>1. Requested(<<p, i>>) => proposal[p].lines[i].intent = "cancel"
        BY OrderBehind
      <3>q. QED BY <2>1, <2>2, <3>1 DEF ChangeKnown, RequestKnown, ClosedBy
    <2>5. order[i].payment = "paid" => order'[i].payment = "paid"
      BY DEF OrderMoves
    <2>6. RequestKnown(p, i)' /\ (ActiveAt(p, i)' => ActiveAt(p, i))
      BY <1>1, <2>1, <2>3, <2>5 DEF RequestKnown, RequestMoves, ActiveAt
    <2>q. QED BY <2>4, <2>6
  <1>5. ASSUME NEW i \in Items PROVE OrderKnown(i)' /\ PayKnown(i)' /\ OneActive(i)'
    <2>1. OrderKnown(i) /\ PayKnown(i) /\ OneActive(i)
      BY <1>0
    <2>2. PayKnown(i)'
      BY <1>1, <2>1 DEF PayKnown
    <2>3. OneActive(i)'
      BY <1>4, <2>1 DEF OneActive
    <2>4. OrderKnown(i)'
      BY <1>1, <1>4, <2>1 DEF OrderKnown, OrderMoves
    <2>q. QED BY <2>2, <2>3, <2>4
  <1>q. QED BY <1>3, <1>4, <1>5 DEF Carried

LEMMA OrderFields ==
    ASSUME NEW r \in OrderType, NEW payment, NEW status
    PROVE  [r EXCEPT !.payment = payment, !.status = status]
           = [by |-> r.by, price |-> r.price, status |-> status, payment |-> payment,
              reserved |-> r.reserved, refunded |-> r.refunded, modes |-> r.modes]
  <1> DEFINE paid == [r EXCEPT !.payment = payment]
  <1>1. [r EXCEPT !.payment = payment, !.status = status]
        = [paid EXCEPT !.status = status]
    OBVIOUS
  <1>2. paid = [by |-> r.by, price |-> r.price, status |-> r.status, payment |-> payment,
                reserved |-> r.reserved, refunded |-> r.refunded, modes |-> r.modes]
    BY DEF OrderType
  <1> HIDE DEF paid
  <1>3. [paid EXCEPT !.status = status]
        = [by |-> r.by, price |-> r.price, status |-> status, payment |-> payment,
           reserved |-> r.reserved, refunded |-> r.refunded, modes |-> r.modes]
    BY <1>2
  <1>q. QED BY <1>1, <1>3

LEMMA OrderShut ==
    ASSUME NEW r \in OrderType
    PROVE  [r EXCEPT !.payment = "closed", !.status = "cancelled", !.reserved = 0]
           = [by |-> r.by, price |-> r.price, status |-> "cancelled", payment |-> "closed",
              reserved |-> 0, refunded |-> r.refunded, modes |-> r.modes]
  <1> DEFINE shut == [r EXCEPT !.payment = "closed", !.status = "cancelled"]
  <1>1. [r EXCEPT !.payment = "closed", !.status = "cancelled", !.reserved = 0]
        = [shut EXCEPT !.reserved = 0]
    OBVIOUS
  <1>2. shut = [by |-> r.by, price |-> r.price, status |-> "cancelled",
                payment |-> "closed", reserved |-> r.reserved,
                refunded |-> r.refunded, modes |-> r.modes]
    BY OrderFields
  <1> HIDE DEF shut
  <1>3. [shut EXCEPT !.reserved = 0]
        = [by |-> r.by, price |-> r.price, status |-> "cancelled", payment |-> "closed",
           reserved |-> 0, refunded |-> r.refunded, modes |-> r.modes]
    BY <1>2
  <1>q. QED BY <1>1, <1>3

LEMMA PaymentInv ==
    ASSUME LegacyIInv, NEW i \in Items, processPayment(i) PROVE LegacyIInv'
  <1>1. /\ Ordered(i) /\ order[i] \in OrderType /\ order[i].refunded <= Price[i]
        /\ order \in [Items -> OrderType \cup {None}] /\ op \in [Ops -> OpStates]
        /\ UNCHANGED <<plan, proposal, auth, queryAuth, item, catalog, request, task>>
    BY DEF processPayment, consumerVars, LegacyIInv, Carried, Typed, PayKnown, OrderKnown,
       Ordered
  <1>2. PICK state \in OpStates : op' = [op EXCEPT ![<<"pay", i>>] = state]
    BY DEF processPayment, Outcome, OpStates
  <1>3. PICK payment \in {"pending", "paid", "unknown", "closed"},
             status \in {order[i].status, "fulfilling"} :
            /\ order' = [order EXCEPT ![i] = [order[i] EXCEPT !.payment = payment,
                                                              !.status = status]]
            /\ \/ payment = order[i].payment
               \/ order[i].payment = "pending" /\ payment \in {"paid", "unknown"}
    <2>1. CASE UNCHANGED order
      <3>1. order' = [order EXCEPT ![i] = [order[i] EXCEPT
                         !.payment = order[i].payment, !.status = order[i].status]]
        BY <1>1, <2>1 DEF OrderType
      <3>2. order[i].payment \in {"pending", "paid", "unknown", "closed"}
        BY <1>1 DEF OrderType
      <3>q. QED BY <3>1, <3>2
    <2>2. CASE order' = [order EXCEPT ![i].payment = "paid", ![i].status = "fulfilling"]
               /\ order[i].payment = "pending"
      <3>1. order' = [order EXCEPT ![i] = [order[i] EXCEPT
                         !.payment = "paid", !.status = "fulfilling"]]
        BY <1>1, <2>2
      <3>q. QED BY <2>2, <3>1
    <2>3. ASSUME NEW payment \in {"pending", "unknown"}, order[i].payment = "pending",
                 order' = [order EXCEPT ![i].payment = payment]
          PROVE  order' = [order EXCEPT ![i] = [order[i] EXCEPT
                         !.payment = payment, !.status = order[i].status]]
      BY <1>1, <2>3 DEF OrderType
    <2>q. QED BY <2>1, <2>2, <2>3 DEF processPayment
  <1> DEFINE new == [order[i] EXCEPT !.payment = payment, !.status = status]
  <1>4. /\ new \in OrderType /\ new # None /\ new.payment = payment
        /\ new.by = order[i].by /\ new.price = order[i].price
        /\ new.refunded = order[i].refunded
    <2>1. new = [by |-> order[i].by, price |-> order[i].price, status |-> status,
                 payment |-> payment, reserved |-> order[i].reserved,
                 refunded |-> order[i].refunded, modes |-> order[i].modes]
      BY <1>1, OrderFields
    <2>2. new \in OrderType
      BY <1>1, <2>1 DEF OrderType
    <2>q. QED BY <2>1, <2>2, NothingIsNone
  <1>5. order' = [order EXCEPT ![i] = new]
    BY <1>3
  <1> HIDE DEF new
  <1>6. Typed'
    BY <1>1, <1>2, <1>4, <1>5 DEF LegacyIInv, Typed
  <1>7. \A j \in Items : order'[j] = order[j] \/ OrderMoves(j)
    BY <1>1, <1>3, <1>4, <1>5 DEF OrderMoves, Ordered
  <1>8. \A j \in Items : op'[<<"pay", j>>] = op[<<"pay", j>>] \/ Ordered(j)'
    BY <1>1, <1>2, <1>4, <1>5, OpsApart DEF Ordered
  <1>9. Carried'
    BY <1>1, <1>2, <1>7, <1>8, OpsApart, MoveStep
  <1>q. QED BY <1>6, <1>9 DEF LegacyIInv

LEMMA DecideInv ==
    ASSUME LegacyIInv, NEW c \in Changes, DecideCancellation(c) PROVE LegacyIInv'
  <1> DEFINE i == c[2]
  <1>1. /\ Requested(c) /\ request[c] \in RequestType /\ request[c].status = "delayed"
        /\ i \in Items /\ c = <<c[1], i>> /\ c[1] \in Proposals
        /\ Ordered(i) /\ order[i] \in OrderType /\ order[i].refunded <= Price[i]
        /\ UNCHANGED <<plan, proposal, auth, queryAuth, item, catalog>>
        /\ op' = [op EXCEPT ![<<"change", c>>] = "succeeded"]
        /\ task' = [task EXCEPT ![<<"delay", c>>] = "resolved"]
    <2>1. c[1] \in Proposals /\ i \in Items /\ c = <<c[1], i>> /\ Requested(c)
      BY OpsApart DEF DecideCancellation
    <2>2. Ordered(i)
      BY <2>1, OrderBehind
    <2>q. QED BY <2>1, <2>2 DEF DecideCancellation, consumerVars, LegacyIInv, Carried,
              Typed, Requested, Ordered, OrderKnown
  <1>2. PICK decision \in {"approved", "rejected"} :
            /\ request' = [request EXCEPT ![c].status = decision]
            /\ \/ order' = [order EXCEPT ![i].status = "cancellation_rejected"]
               \/ order' = order
    BY DEF DecideCancellation
  <1> HIDE DEF i
  <1>3. /\ request'[c] \in RequestType /\ request'[c].status = decision
        /\ request'[c].fee = request[c].fee /\ request'[c].refund = request[c].refund
        /\ \A d \in Changes \ {c} : request'[d] = request[d]
        /\ request' \in [Changes -> RequestType \cup {None}]
    <2> DEFINE new == [status |-> decision, rule |-> request[c].rule,
                       fee |-> request[c].fee, refund |-> request[c].refund,
                       batches |-> request[c].batches]
    <2>1. [request[c] EXCEPT !.status = decision] = new /\ new \in RequestType
      BY <1>1 DEF RequestType
    <2>2. request' = [request EXCEPT ![c] = new]
      BY <1>2, <2>1
    <2>q. QED BY <2>1, <2>2 DEF LegacyIInv, Typed
  <1>4. /\ \A j \in Items : order'[j] = order[j] \/ OrderMoves(j)
        /\ order' \in [Items -> OrderType \cup {None}]
    <2>1. CASE order' = order
      BY <2>1 DEF LegacyIInv, Typed
    <2>2. CASE order' = [order EXCEPT ![i].status = "cancellation_rejected"]
      <3> DEFINE new == [order[i] EXCEPT !.status = "cancellation_rejected"]
      <3>1. new = [by |-> order[i].by, price |-> order[i].price,
                   status |-> "cancellation_rejected", payment |-> order[i].payment,
                   reserved |-> order[i].reserved, refunded |-> order[i].refunded,
                   modes |-> order[i].modes]
        BY <1>1 DEF OrderType
      <3>2. new \in OrderType /\ new # None
        BY <1>1, <3>1, NothingIsNone DEF OrderType
      <3>3. order' = [order EXCEPT ![i] = new]
        BY <2>2
      <3>4. /\ new.by = order[i].by /\ new.price = order[i].price
            /\ new.refunded = order[i].refunded /\ new.payment = order[i].payment
        BY <3>1
      <3> HIDE DEF new
      <3>q. QED BY <1>1, <3>2, <3>3, <3>4 DEF OrderMoves, Ordered, LegacyIInv, Typed
    <2>q. QED BY <1>2, <2>1, <2>2
  <1>5. op' \in [Ops -> OpStates] /\ task' \in [TaskKeys -> TaskStates]
    BY <1>1 DEF LegacyIInv, Typed, OpStates, TaskStates
  <1>6. Typed'
    BY <1>1, <1>3, <1>4, <1>5 DEF LegacyIInv, Typed
  <1>7. RequestMoves(c)
    BY <1>1, <1>3, NothingIsNone DEF RequestMoves, Requested, Active
  <1>8. /\ \A j \in Items : op'[<<"pay", j>>] = op[<<"pay", j>>]
        /\ \A d \in Changes : \/ op'[<<"change", d>>] = op[<<"change", d>>]
                              \/ d = c /\ op'[<<"change", d>>] = "succeeded"
    BY <1>1, OpsApart DEF LegacyIInv, Typed
  <1>9. Carried'
    BY <1>1, <1>3, <1>4, <1>7, <1>8, MoveStep
  <1>q. QED BY <1>6, <1>9 DEF LegacyIInv

LEMMA CloseInv ==
    ASSUME LegacyIInv, NEW c \in Changes, processClose(c) PROVE LegacyIInv'
  <1>1. PICK p \in Proposals, i \in Items : c = <<p, i>>
    BY DEF Changes
  <1>2. /\ op[<<"change", c>>] = "accepted" /\ Ordered(i) /\ order[i] \in OrderType
        /\ order \in [Items -> OrderType \cup {None}] /\ op \in [Ops -> OpStates]
        /\ proposal[p].status = "executing" /\ i \in DOMAIN proposal[p].lines
        /\ proposal[p].lines[i].intent = "close"
        /\ UNCHANGED <<plan, proposal, auth, queryAuth, item, catalog, request, task>>
    <2>1. op[<<"change", c>>] = "accepted" /\ ChangeKnown(p, i)
      BY <1>1 DEF processClose, LegacyIInv, Carried
    <2>2. Ordered(i)
      BY <1>1, <2>1, OrderBehind
    <2>q. QED BY <1>1, <2>1, <2>2 DEF processClose, ChangeKnown, consumerVars, LegacyIInv,
              Typed, Ordered
  <1>3. CASE UNCHANGED order /\ \E s \in OpStates \ {"accepted", "succeeded", "none"} :
                                    op' = [op EXCEPT ![<<"change", c>>] = s]
    <2>1. PICK s \in OpStates \ {"accepted", "succeeded", "none"} :
              op' = [op EXCEPT ![<<"change", c>>] = s]
      BY <1>3
    <2>2. Typed'
      BY <1>2, <1>3, <2>1 DEF LegacyIInv, Typed
    <2>3. /\ op'[<<"change", c>>] = s
          /\ \A d \in Changes \ {c} : op'[<<"change", d>>] = op[<<"change", d>>]
          /\ \A j \in Items : op'[<<"pay", j>>] = op[<<"pay", j>>]
      BY <1>2, <2>1, OpsApart
    <2>4. \A q \in Proposals, j \in Items : ClosedBy(q, j)' <=> ClosedBy(q, j)
      BY <1>1, <1>2, <2>1, <2>3, OpsApart DEF ClosedBy
    <2>5. \A q \in Proposals, j \in Items : ChangeKnown(q, j)' /\ RequestKnown(q, j)'
      <3>1. ASSUME NEW q \in Proposals, NEW j \in Items
            PROVE  ChangeKnown(q, j)' /\ RequestKnown(q, j)'
        <4>1. ChangeKnown(q, j) /\ RequestKnown(q, j)
          BY DEF LegacyIInv, Carried
        <4>2. RequestKnown(q, j)'
          BY <1>2, <1>3, <4>1 DEF RequestKnown, Requested
        <4>3. ChangeKnown(q, j)'
          BY <1>1, <1>2, <2>1, <2>3, <4>1, OpsApart DEF ChangeKnown
        <4>q. QED BY <4>2, <4>3
      <3>q. QED BY <3>1
    <2>6. \A q \in Proposals : ProposalKnown(q)'
      BY <1>2, <1>3 DEF LegacyIInv, Carried, ProposalKnown, LineKnown, Ordered
    <2>7. \A j \in Items : OrderKnown(j)' /\ PayKnown(j)' /\ OneActive(j)'
      <3>1. ASSUME NEW j \in Items PROVE OrderKnown(j)' /\ PayKnown(j)' /\ OneActive(j)'
        <4>1. OrderKnown(j) /\ PayKnown(j) /\ OneActive(j)
          BY DEF LegacyIInv, Carried
        <4>2. OrderKnown(j)'
          BY <1>2, <1>3, <2>4, <4>1 DEF OrderKnown, Ordered
        <4>3. PayKnown(j)' /\ OneActive(j)'
          BY <1>2, <1>3, <2>3, <4>1 DEF PayKnown, OneActive, ActiveAt, Requested, Ordered
        <4>q. QED BY <4>2, <4>3
      <3>q. QED BY <3>1
    <2>q. QED BY <2>2, <2>5, <2>6, <2>7 DEF LegacyIInv, Carried
  <1>4. CASE /\ order[i].payment \in {"pending", "unknown"}
             /\ op' = [op EXCEPT ![<<"change", c>>] = "succeeded"]
             /\ order' = [order EXCEPT ![i].payment = "closed", ![i].status = "cancelled",
                                       ![i].reserved = 0]
    <2> DEFINE new == [by |-> order[i].by, price |-> order[i].price, status |-> "cancelled",
                       payment |-> "closed", reserved |-> 0,
                       refunded |-> order[i].refunded, modes |-> order[i].modes]
    <2>1. order' = [order EXCEPT ![i] = [order[i] EXCEPT
                       !.payment = "closed", !.status = "cancelled", !.reserved = 0]]
      BY <1>2, <1>4
    <2>2. order' = [order EXCEPT ![i] = new]
      BY <1>2, <2>1, OrderShut
    <2>3. new \in OrderType /\ new # None
      BY <1>2, NothingIsNone DEF OrderType
    <2>0. /\ new.by = order[i].by /\ new.price = order[i].price
           /\ new.refunded = order[i].refunded /\ new.payment = "closed"
      OBVIOUS
    <2> HIDE DEF new
    <2>4. order' = [order EXCEPT ![i] = new] /\ new \in OrderType /\ new # None
      BY <2>2, <2>3
    <2>5. Typed'
      <3>1. order' \in [Items -> OrderType \cup {None}]
        BY <1>2, <2>4
      <3>2. op' \in [Ops -> OpStates]
        BY <1>2, <1>4 DEF OpStates
      <3>q. QED BY <1>2, <3>1, <3>2 DEF LegacyIInv, Typed
    <2>6. /\ op'[<<"change", c>>] = "succeeded"
          /\ \A d \in Changes \ {c} : op'[<<"change", d>>] = op[<<"change", d>>]
          /\ \A j \in Items : op'[<<"pay", j>>] = op[<<"pay", j>>]
          /\ order'[i] = new /\ \A j \in Items \ {i} : order'[j] = order[j]
          /\ \A j \in Items : Ordered(j)' <=> Ordered(j)
      BY <1>2, <1>4, <2>4, OpsApart DEF Ordered
    <2>7. ClosedBy(p, i)' /\ ~ClosedBy(p, i)
      BY <1>1, <1>2, <2>6 DEF ClosedBy
    <2>8. \A q \in Proposals, j \in Items :
              <<q, j>> # c => (ClosedBy(q, j)' <=> ClosedBy(q, j))
      BY <1>1, <1>2, <2>6, OpsApart DEF ClosedBy
    <2>9. ASSUME NEW q \in Proposals, NEW j \in Items
          PROVE  ChangeKnown(q, j)' /\ RequestKnown(q, j)'
      <3>1. ChangeKnown(q, j) /\ RequestKnown(q, j)
        BY DEF LegacyIInv, Carried
      <3>2. RequestKnown(q, j)'
        BY <1>2, <1>4, <2>6, <3>1 DEF RequestKnown, Requested
      <3>3. ChangeKnown(q, j)'
        BY <1>1, <1>2, <2>6, <3>1, OpsApart DEF ChangeKnown
      <3>q. QED BY <3>2, <3>3
    <2>10. \A q \in Proposals : ProposalKnown(q)'
      <3>1. \A q \in Proposals : DOMAIN proposal[q].lines \subseteq Items
        BY DEF LegacyIInv, Typed, Drafted, Lines, EmptyProposal
      <3>q. QED BY <1>2, <2>6, <3>1 DEF LegacyIInv, Carried, ProposalKnown, LineKnown
    <2>11. ASSUME NEW j \in Items PROVE OrderKnown(j)' /\ PayKnown(j)' /\ OneActive(j)'
      <3>1. OrderKnown(j) /\ PayKnown(j) /\ OneActive(j)
        BY DEF LegacyIInv, Carried
      <3>2. PayKnown(j)' /\ OneActive(j)'
        BY <1>2, <2>6, <3>1 DEF PayKnown, OneActive, ActiveAt, Requested
      <3>3. CASE j = i
        BY <1>2, <2>0, <2>6, <2>7, <3>1, <3>2, <3>3 DEF OrderKnown
      <3>4. CASE j # i
        <4>1. \A q \in Proposals : ClosedBy(q, j)' <=> ClosedBy(q, j)
          BY <1>1, <2>8, <3>4
        <4>q. QED BY <1>2, <2>6, <3>1, <3>2, <3>4, <4>1 DEF OrderKnown
      <3>q. QED BY <3>3, <3>4
    <2>q. QED BY <2>5, <2>9, <2>10, <2>11 DEF LegacyIInv, Carried
  <1>5. \/ UNCHANGED order /\ \E s \in OpStates \ {"accepted", "succeeded", "none"} :
                                  op' = [op EXCEPT ![<<"change", c>>] = s]
        \/ /\ order[i].payment \in {"pending", "unknown"}
           /\ op' = [op EXCEPT ![<<"change", c>>] = "succeeded"]
           /\ order' = [order EXCEPT ![i].payment = "closed", ![i].status = "cancelled",
                                     ![i].reserved = 0]
    <2>1. "failed" \in OpStates /\ \A m : Outcome(m) \in {"pending_review", "unknown"}
      BY DEF Outcome, OpStates
    <2>q. QED BY <1>1, <2>1 DEF processClose, OpStates
  <1>q. QED BY <1>3, <1>4, <1>5

------------------------------------------------------------------------------
(* A change is carried out.                                                *)

Cancels(p, i) ==
    i \in DOMAIN proposal[p].lines /\ proposal[p].lines[i].intent = "cancel"

\* What a step leaves of an order besides its status.
StatusMoves(i) ==
    /\ Ordered(i) /\ order'[i] \in OrderType
    /\ order'[i].by = order[i].by /\ order'[i].price = order[i].price
    /\ order'[i].payment = order[i].payment /\ order'[i].refunded = order[i].refunded
    /\ order'[i].reserved = order[i].reserved

LEMMA StatusSet ==
    ASSUME LegacyIInv, NEW i \in Items, Ordered(i),
           NEW status \in {"created", "fulfilling", "cancelled", "cancellation_processing",
                           "cancellation_rejected"},
           order'[i] = [order[i] EXCEPT !.status = status]
    PROVE  StatusMoves(i) /\ order'[i].status = status
  <1>1. order[i] \in OrderType
    BY DEF LegacyIInv, Typed, Ordered
  <1>2. order'[i] = [by |-> order[i].by, price |-> order[i].price, status |-> status,
                     payment |-> order[i].payment, reserved |-> order[i].reserved,
                     refunded |-> order[i].refunded, modes |-> order[i].modes]
    BY <1>1 DEF OrderType
  <1>q. QED BY <1>1, <1>2 DEF StatusMoves, OrderType

LEMMA NewRequestType ==
    ASSUME NEW line \in Line
    PROVE  /\ NewRequest(line) \in RequestType /\ NewRequest(line) # None
           /\ NewRequest(line).status \in {"rejected", "delayed", "approved"}
           /\ NewRequest(line).status = "rejected" <=> Decision(line.rule.rule) = "rejected"
           /\ NewRequest(line).status = "delayed" <=> Decision(line.rule.rule) = "delayed"
           /\ NewRequest(line).rule = line.rule.rule
           /\ NewRequest(line).fee = line.fee /\ NewRequest(line).refund = line.refund
           /\ DOMAIN NewRequest(line).batches = {}
  <1>1. line.rule.rule \in AllRules /\ line.fee \in Nat /\ line.refund \in Nat
    BY DEF Line
  <1>2. Decision(line.rule.rule) \in {"rejected", "delayed", "approved"}
    BY DEF Decision
  <1>3. [n \in {} |-> None] \in BatchesType /\ DOMAIN [n \in {} |-> None] = {}
    BY DEF BatchesType
  <1>4. NewRequest(line) \in RequestType
    BY <1>1, <1>2, <1>3 DEF NewRequest, RequestType
  <1>q. QED BY <1>2, <1>3, <1>4, NothingIsNone DEF NewRequest

LEMMA SubmitEffect ==
    ASSUME LegacyIInv, NEW p \in Proposals, submitConfirmedChange(p)
    PROVE  /\ proposal[p].type = "change" /\ proposal[p].status = "confirmed"
           /\ DOMAIN proposal[p].lines \subseteq Items
           /\ \A i \in DOMAIN proposal[p].lines :
                  /\ proposal[p].lines[i] \in Line
                  /\ LineKnown(proposal[p].lines[i], i)
                  /\ LineHolds(i, proposal[p].lines[i])
           /\ \A i \in Items : op[<<"change", <<p, i>>>>] = "none" /\ ~Requested(<<p, i>>)
           /\ \A i \in Items : IF Cancels(p, i) THEN StatusMoves(i)
                                                ELSE order'[i] = order[i]
           /\ \A i \in Items : Cancels(p, i) => order'[i].status =
                  IF Decision(proposal[p].lines[i].rule.rule) = "rejected"
                  THEN "cancellation_rejected" ELSE "cancellation_processing"
           /\ \A i \in Items : request'[<<p, i>>] =
                  IF Cancels(p, i) THEN NewRequest(proposal[p].lines[i]) ELSE None
           /\ \A q \in Proposals \ {p}, i \in Items :
                  /\ request'[<<q, i>>] = request[<<q, i>>]
                  /\ op'[<<"change", <<q, i>>>>] = op[<<"change", <<q, i>>>>]
           /\ \A i \in Items : op'[<<"change", <<p, i>>>>] =
                  IF i \in DOMAIN proposal[p].lines
                  THEN StateOf(proposal[p].lines[i]) ELSE "none"
           /\ \A i \in Items : op'[<<"pay", i>>] = op[<<"pay", i>>]
           /\ \A i \in Items : item'[i] =
                  IF i \in DOMAIN proposal[p].lines /\ proposal[p].lines[i].intent = "stop"
                  THEN "stopped" ELSE item[i]
           /\ proposal'[p].status = "executing" /\ proposal'[p].type = "change"
           /\ proposal'[p].lines = proposal[p].lines
           /\ \A q \in Proposals \ {p} : proposal'[q] = proposal[q]
           /\ Typed'
  <1>0. PICK lines : lines = proposal[p].lines
    OBVIOUS
  <1>1. proposal[p].type = "change" /\ proposal[p].status = "confirmed"
    BY DEF submitConfirmedChange
  <1>2. /\ ProposalKnown(p) /\ proposal[p] \in Drafted
        /\ \A i \in Items : ChangeKnown(p, i) /\ RequestKnown(p, i)
    BY <1>1, NothingIsNone DEF LegacyIInv, Carried, Typed
  <1>3. /\ DOMAIN lines \subseteq Items
        /\ \A i \in DOMAIN lines : lines[i] \in Line /\ LineKnown(lines[i], i)
    BY <1>0, <1>1, <1>2 DEF Drafted, Lines, ProposalKnown
  <1>4. \A i \in DOMAIN lines : LineHolds(i, lines[i])
    BY <1>0 DEF submitConfirmedChange
  <1>5. \A i \in Items : op[<<"change", <<p, i>>>>] = "none" /\ ~Requested(<<p, i>>)
    BY <1>1, <1>2 DEF ChangeKnown, RequestKnown
  <1>6. \A i \in Items : Cancels(p, i) <=> i \in DOMAIN lines /\ lines[i].intent = "cancel"
    BY <1>0 DEF Cancels
  <1>7. \A i \in Items : Cancels(p, i) => Ordered(i)
    BY <1>3, <1>6 DEF LineKnown
  <1>8. order' = [i \in Items |->
               IF i \in DOMAIN lines /\ lines[i].intent = "cancel"
               THEN [order[i] EXCEPT !.status =
                        IF Decision(lines[i].rule.rule) = "rejected"
                        THEN "cancellation_rejected"
                        ELSE "cancellation_processing"]
               ELSE order[i]]
    BY <1>0, Zenon DEF submitConfirmedChange
  <1>9. ASSUME NEW i \in Items
        PROVE  /\ IF Cancels(p, i) THEN StatusMoves(i) ELSE order'[i] = order[i]
               /\ Cancels(p, i) => order'[i].status =
                      IF Decision(lines[i].rule.rule) = "rejected"
                      THEN "cancellation_rejected" ELSE "cancellation_processing"
    <2>1. CASE Cancels(p, i)
      <3>1. PICK status \in {"cancellation_rejected", "cancellation_processing"} :
                status = IF Decision(lines[i].rule.rule) = "rejected"
                         THEN "cancellation_rejected" ELSE "cancellation_processing"
        OBVIOUS
      <3>2. order'[i] = [order[i] EXCEPT !.status = status]
        BY <1>6, <1>8, <2>1, <3>1
      <3>q. QED BY <1>7, <2>1, <3>1, <3>2, StatusSet
    <2>2. CASE ~Cancels(p, i)
      BY <1>6, <1>8, <2>2
    <2>q. QED BY <2>1, <2>2
  <1>10. order' \in [Items -> OrderType \cup {None}]
    <2>1. \A i \in Items : order'[i] \in OrderType \cup {None}
      BY <1>9 DEF StatusMoves, LegacyIInv, Typed
    <2>2. order' = [i \in Items |-> order'[i]]
      BY <1>8
    <2>q. QED BY <2>1, <2>2
  <1>11. request' = [c \in Changes |->
               IF c[1] = p /\ c[2] \in DOMAIN lines /\ lines[c[2]].intent = "cancel"
               THEN NewRequest(lines[c[2]]) ELSE request[c]]
    BY <1>0 DEF submitConfirmedChange
  <1>12. /\ \A i \in Items : request'[<<p, i>>] =
                IF Cancels(p, i) THEN NewRequest(lines[i]) ELSE None
         /\ \A q \in Proposals \ {p}, i \in Items : request'[<<q, i>>] = request[<<q, i>>]
         /\ request' \in [Changes -> RequestType \cup {None}]
    <2>1. \A i \in Items : request[<<p, i>>] = None
      BY <1>5 DEF Requested
    <2>2. \A i \in DOMAIN lines : NewRequest(lines[i]) \in RequestType
      BY <1>3, NewRequestType
    <2>3. request' \in [Changes -> RequestType \cup {None}]
      BY <1>11, <2>2 DEF LegacyIInv, Typed
    <2>q. QED BY <1>6, <1>11, <2>1, <2>3, OpsApart
  <1>13. op' = [o \in Ops |->
               IF o \in ChangeOps /\ o[2][1] = p /\ o[2][2] \in DOMAIN lines
               THEN StateOf(lines[o[2][2]]) ELSE op[o]]
    BY <1>0 DEF submitConfirmedChange
  <1>14. /\ \A i \in Items : op'[<<"change", <<p, i>>>>] =
                IF i \in DOMAIN lines THEN StateOf(lines[i]) ELSE "none"
         /\ \A q \in Proposals \ {p}, i \in Items :
                op'[<<"change", <<q, i>>>>] = op[<<"change", <<q, i>>>>]
         /\ \A i \in Items : op'[<<"pay", i>>] = op[<<"pay", i>>]
         /\ op' \in [Ops -> OpStates]
    <2>1. \A i \in DOMAIN lines : StateOf(lines[i]) \in OpStates
      BY DEF StateOf, OpStates
    <2>2. op' \in [Ops -> OpStates]
      BY <1>13, <2>1 DEF LegacyIInv, Typed
    <2>3. /\ \A c \in Changes : <<"change", c>> \in ChangeOps
          /\ \A i \in Items : <<"pay", i>> \notin ChangeOps
      BY DEF ChangeOps
    <2>4. \A i \in Items : op'[<<"pay", i>>] = op[<<"pay", i>>]
      BY <1>13, <2>3, OpsApart
    <2>5. \A q \in Proposals, i \in Items : op'[<<"change", <<q, i>>>>] =
              IF q = p /\ i \in DOMAIN lines THEN StateOf(lines[i])
              ELSE op[<<"change", <<q, i>>>>]
      BY <1>13, <2>3, OpsApart
    <2>q. QED BY <1>5, <2>2, <2>4, <2>5
  <1>15. item' = [i \in Items |-> IF i \in DOMAIN lines /\ lines[i].intent = "stop"
                                  THEN "stopped" ELSE item[i]]
    BY <1>0 DEF submitConfirmedChange
  <1>16. task' \in [TaskKeys -> TaskStates]
    BY DEF submitConfirmedChange, LegacyIInv, Typed, TaskStates
  <1> DEFINE new == [type |-> "change", version |-> proposal[p].version,
                     status |-> "executing", lines |-> lines]
  <1>17. proposal' = [proposal EXCEPT ![p] = new] /\ new \in Drafted
    <2>1. [proposal[p] EXCEPT !.status = "executing"] = new
      BY <1>0, <1>1, <1>2 DEF Drafted
    <2>2. new \in Drafted
      BY <1>0, <1>2 DEF Drafted
    <2>q. QED BY <2>1, <2>2 DEF submitConfirmedChange
  <1>18. /\ proposal'[p] = new /\ \A q \in Proposals \ {p} : proposal'[q] = proposal[q]
         /\ proposal' \in [Proposals -> Drafted \cup {EmptyProposal}]
         /\ new.status = "executing" /\ new.type = "change" /\ new.lines = lines
    BY <1>17 DEF LegacyIInv, Typed
  <1>19. UNCHANGED <<plan, auth, queryAuth, catalog>>
    BY DEF submitConfirmedChange
  <1> HIDE DEF new
  <1>20. Typed'
    BY <1>10, <1>12, <1>14, <1>15, <1>16, <1>18, <1>19 DEF LegacyIInv, Typed
  <1>q. QED BY <1>0, <1>1, <1>3, <1>4, <1>5, <1>9, <1>12, <1>14, <1>15, <1>18, <1>20

LEMMA SubmitInv ==
    ASSUME LegacyIInv, NEW p \in Proposals, submitConfirmedChange(p) PROVE LegacyIInv'
  <1> DEFINE lines == proposal[p].lines
  <1>0. /\ \A q \in Proposals : ProposalKnown(q)
        /\ \A q \in Proposals, i \in Items : ChangeKnown(q, i) /\ RequestKnown(q, i)
        /\ \A i \in Items : OrderKnown(i) /\ PayKnown(i) /\ OneActive(i)
        /\ \A q \in Proposals : DOMAIN proposal[q].lines \subseteq Items
        /\ \A i \in Items : Ordered(i) => order[i].by \in Proposals
    BY DEF LegacyIInv, Carried, Typed, Drafted, Lines, EmptyProposal, OrderType, Ordered
  <1>1. \A i \in Items : /\ Ordered(i)' <=> Ordered(i)
                         /\ Ordered(i) => /\ order'[i].by = order[i].by
                                          /\ order'[i].price = order[i].price
                                          /\ order'[i].payment = order[i].payment
                                          /\ order'[i].refunded = order[i].refunded
    BY SubmitEffect, NothingIsNone DEF StatusMoves, Ordered
  <1>2. ASSUME NEW q \in Proposals PROVE ProposalKnown(q)'
    <2>1. CASE q = p
      <3>1. /\ proposal'[p].type = "change" /\ proposal'[p].lines = lines
            /\ DOMAIN lines \subseteq Items
            /\ \A i \in DOMAIN lines : LineKnown(lines[i], i) /\ LineHolds(i, lines[i])
            /\ \A i \in DOMAIN lines : lines[i].intent = "stop" => item'[i] = "stopped"
        BY SubmitEffect
      <3> HIDE DEF lines
      <3>2. \A i \in DOMAIN lines : lines[i].intent = "stop" => ~Ordered(i)
        BY <3>1 DEF LineHolds
      <3>q. QED BY <1>1, <2>1, <3>1, <3>2 DEF ProposalKnown, LineKnown
    <2>2. CASE q # p
      <3>1. /\ proposal'[q] = proposal[q]
            /\ \A i \in Items : item'[i] = "stopped" \/ item'[i] = item[i]
        BY <2>2, SubmitEffect
      <3>q. QED BY <1>0, <1>1, <3>1 DEF ProposalKnown, LineKnown
    <2>q. QED BY <2>1, <2>2
  <1>3. ASSUME NEW i \in Items PROVE ChangeKnown(p, i)' /\ ~ClosedBy(p, i)'
    <2>1. /\ proposal'[p].status = "executing" /\ proposal'[p].lines = lines
          /\ op'[<<"change", <<p, i>>>>]
             = IF i \in DOMAIN lines THEN StateOf(lines[i]) ELSE "none"
      BY SubmitEffect
    <2> HIDE DEF lines
    <2>2. /\ StateOf(lines[i]) = "accepted" <=> lines[i].intent = "close"
          /\ StateOf(lines[i]) # "none"
      BY DEF StateOf
    <2>q. QED BY <2>1, <2>2 DEF ChangeKnown, ClosedBy
  <1>4. ASSUME NEW i \in Items PROVE RequestKnown(p, i)'
    <2>1. /\ proposal'[p].status = "executing" /\ proposal'[p].lines = lines
          /\ request'[<<p, i>>] = IF Cancels(p, i) THEN NewRequest(lines[i]) ELSE None
      BY SubmitEffect
    <2>2. CASE Cancels(p, i)
      <3>1. /\ i \in DOMAIN lines /\ lines[i].intent = "cancel" /\ lines[i] \in Line
            /\ LineHolds(i, lines[i]) /\ StatusMoves(i)
        BY <2>2, SubmitEffect DEF Cancels
      <3> HIDE DEF lines
      <3>2. order'[i].payment = "paid"
        BY <3>1 DEF LineHolds, CancelHolds, StatusMoves
      <3>q. QED BY <2>1, <2>2, <3>1, <3>2, NewRequestType DEF RequestKnown
    <2>3. CASE ~Cancels(p, i)
      BY <2>1, <2>3 DEF RequestKnown, Requested
    <2>q. QED BY <2>2, <2>3
  <1>5. ASSUME NEW q \in Proposals \ {p}, NEW i \in Items
        PROVE  /\ ChangeKnown(q, i)' /\ RequestKnown(q, i)'
               /\ ClosedBy(q, i)' <=> ClosedBy(q, i)
               /\ ActiveAt(q, i)' <=> ActiveAt(q, i)
    <2>1. /\ proposal'[q] = proposal[q] /\ request'[<<q, i>>] = request[<<q, i>>]
          /\ op'[<<"change", <<q, i>>>>] = op[<<"change", <<q, i>>>>]
          /\ ChangeKnown(q, i) /\ RequestKnown(q, i)
      BY <1>0, SubmitEffect, SMTT(30)
    <2>2. Requested(<<q, i>>) => Ordered(i)
      BY OrderBehind
    <2>q. QED BY <1>1, <2>1, <2>2
              DEF ChangeKnown, RequestKnown, ClosedBy, ActiveAt, Requested
  <1>6. ASSUME NEW i \in Items PROVE OrderKnown(i)' /\ PayKnown(i)' /\ OneActive(i)'
    <2>1. OrderKnown(i) /\ PayKnown(i) /\ OneActive(i)
      BY <1>0
    <2>2. PayKnown(i)'
      BY <1>1, <2>1, SubmitEffect DEF PayKnown
    <2>3. OneActive(i)'
      <3>1. ActiveAt(p, i)' => \A q \in Proposals : ~ActiveAt(q, i)
        <4>1. /\ ActiveAt(p, i)' => Cancels(p, i)
              /\ Cancels(p, i) => LineHolds(i, lines[i]) /\ lines[i].intent = "cancel"
          BY SubmitEffect DEF ActiveAt, Requested, Cancels
        <4> HIDE DEF lines
        <4>q. QED BY <4>1 DEF LineHolds, CancelHolds, LiveRequest, ActiveAt
      <3>q. QED BY <1>5, <2>1, <3>1 DEF OneActive
    <2>4. OrderKnown(i)'
      <3>1. ASSUME Ordered(i)
            PROVE  /\ proposal'[order[i].by].type = "purchase"
                   /\ proposal'[order[i].by].status = "confirmed"
                   /\ i \in DOMAIN proposal'[order[i].by].lines
        <4>1. order[i].by \in Proposals /\ proposal[order[i].by].type = "purchase"
          BY <1>0, <2>1, <3>1 DEF OrderKnown
        <4>2. proposal[p].type = "change"
          BY SubmitEffect
        <4>3. proposal'[order[i].by] = proposal[order[i].by]
          BY <4>1, <4>2, SubmitEffect
        <4>q. QED BY <2>1, <3>1, <4>3 DEF OrderKnown
      <3>2. ~ClosedBy(p, i)
        BY SubmitEffect DEF ClosedBy
      <3>3. \A q \in Proposals : ClosedBy(q, i)' <=> ClosedBy(q, i)
        BY <1>3, <1>5, <3>2
      <3>q. QED BY <1>1, <2>1, <3>1, <3>3 DEF OrderKnown
    <2>q. QED BY <2>2, <2>3, <2>4
  <1>7. Typed'
    BY SubmitEffect
  <1>q. QED BY <1>2, <1>3, <1>4, <1>5, <1>6, <1>7 DEF LegacyIInv, Carried

------------------------------------------------------------------------------
(* Refund batches.                                                         *)

LEMMA BatchNumbers ==
    ASSUME NEW b \in BatchesType
    PROVE  /\ DOMAIN b = {} \/ DOMAIN b = {1} \/ DOMAIN b = {1, 2}
           /\ \A n \in DOMAIN b : b[n] \in BatchType
           /\ Cardinality(DOMAIN b) \in {0, 1, 2}
           /\ Cardinality(DOMAIN b) = 0 <=> DOMAIN b = {}
           /\ Cardinality(DOMAIN b) = 1 <=> DOMAIN b = {1}
  <1>1. Cardinality({}) = 0 /\ Cardinality({1}) = 1 /\ Cardinality({1, 2}) = 2
    <2>1. {1, 2} = {1} \cup {2} /\ 2 \notin {1}
      OBVIOUS
    <2>2. IsFiniteSet({1}) /\ Cardinality({1}) = 1
      BY FS_Singleton
    <2>3. Cardinality({1} \cup {2}) = Cardinality({1}) + 1
      BY <2>1, <2>2, FS_AddElement
    <2>q. QED BY <2>1, <2>2, <2>3, FS_EmptySet
  <1>2. \/ b \in [{} -> BatchType] \/ b \in [{1} -> BatchType] \/ b \in [{1, 2} -> BatchType]
    BY DEF BatchesType
  <1>q. QED BY <1>1, <1>2

Scheduled(c, number, amount, batches) ==
    /\ \/ number = 1 /\ DOMAIN request[c].batches = {}
       \/ /\ number = 2 /\ DOMAIN request[c].batches = {1}
          /\ request[c].rule = "two_batches"
    /\ DOMAIN batches = DOMAIN request[c].batches \cup {number}
    /\ batches[number] = [amount |-> amount, status |-> "pending"]
    /\ \A n \in DOMAIN request[c].batches : batches[n] = request[c].batches[n]
    /\ amount = IF request[c].rule = "two_batches" THEN request[c].refund \div 2
                                                   ELSE request[c].refund
    /\ request' = [request EXCEPT ![c] =
           [status |-> "refund_processing", rule |-> request[c].rule,
            fee |-> request[c].fee, refund |-> request[c].refund, batches |-> batches]]

LEMMA ScheduleEffect ==
    ASSUME LegacyIInv, NEW c \in Changes, ScheduleBatch(c)
    PROVE  /\ request[c] \in RequestType /\ Requested(c)
           /\ request[c].status \in {"approved", "refund_processing"}
           /\ \E number \in {1, 2}, amount \in Nat, batches \in BatchesType :
                  Scheduled(c, number, amount, batches)
  <1> DEFINE r == request[c]
             two == cancellationRuleDetails(r.rule).batches = 2
             number == Cardinality(DOMAIN r.batches) + 1
             amount == IF two THEN r.refund \div 2 ELSE r.refund
             batches == [n \in DOMAIN r.batches \cup {number} |->
                IF n = number THEN [amount |-> amount, status |-> "pending"]
                ELSE r.batches[n]]
  <1>1. /\ r \in RequestType /\ Requested(c)
        /\ r.status \in {"approved", "refund_processing"}
        /\ Cardinality(DOMAIN r.batches) < cancellationRuleDetails(r.rule).batches
        /\ request' = [request EXCEPT ![c].status = "refund_processing",
                                      ![c].batches = batches]
    BY DEF ScheduleBatch, MaySchedule, LegacyIInv, Typed, Requested
  <1>2. /\ r.rule \in AllRules /\ r.refund \in Nat /\ r.batches \in BatchesType
        /\ two <=> r.rule = "two_batches"
        /\ cancellationRuleDetails(r.rule).batches \in {0, 1, 2}
    BY <1>1 DEF RequestType, cancellationRuleDetails
  <1>3. \/ number = 1 /\ DOMAIN r.batches = {}
        \/ number = 2 /\ DOMAIN r.batches = {1} /\ r.rule = "two_batches"
    <2>1. /\ Cardinality(DOMAIN r.batches) \in {0, 1, 2}
          /\ Cardinality(DOMAIN r.batches) = 0 <=> DOMAIN r.batches = {}
          /\ Cardinality(DOMAIN r.batches) = 1 <=> DOMAIN r.batches = {1}
      BY <1>2, BatchNumbers
    <2>q. QED BY <1>1, <1>2, <2>1
  <1>4. amount \in Nat
    BY <1>2
  <1> HIDE DEF number, amount
  <1>5. batches \in BatchesType
    <2>1. [amount |-> amount, status |-> "pending"] \in BatchType
      BY <1>4 DEF BatchType
    <2>2. \A n \in DOMAIN r.batches : r.batches[n] \in BatchType
      BY <1>2, BatchNumbers
    <2>3. batches \in [DOMAIN r.batches \cup {number} -> BatchType]
      BY <2>1, <2>2
    <2>4. DOMAIN r.batches \cup {number} = {1} \/ DOMAIN r.batches \cup {number} = {1, 2}
      BY <1>3
    <2>q. QED BY <2>3, <2>4 DEF BatchesType
  <1>6. /\ DOMAIN batches = DOMAIN r.batches \cup {number}
        /\ batches[number] = [amount |-> amount, status |-> "pending"]
        /\ \A n \in DOMAIN r.batches : batches[n] = r.batches[n]
    BY <1>3
  <1> HIDE DEF batches
  <1>7. request' = [request EXCEPT ![c] =
           [status |-> "refund_processing", rule |-> r.rule,
            fee |-> r.fee, refund |-> r.refund, batches |-> batches]]
    <2> DEFINE moved == [r EXCEPT !.status = "refund_processing"]
    <2>1. request' = [request EXCEPT ![c] = [moved EXCEPT !.batches = batches]]
      BY <1>1
    <2>2. moved = [status |-> "refund_processing", rule |-> r.rule, fee |-> r.fee,
                   refund |-> r.refund, batches |-> r.batches]
      BY <1>1 DEF RequestType
    <2> HIDE DEF moved
    <2>3. [moved EXCEPT !.batches = batches]
          = [status |-> "refund_processing", rule |-> r.rule, fee |-> r.fee,
             refund |-> r.refund, batches |-> batches]
      BY <2>2
    <2>q. QED BY <2>1, <2>3
  <1>8. amount = IF r.rule = "two_batches" THEN r.refund \div 2 ELSE r.refund
    BY <1>2 DEF amount
  <1>9. Scheduled(c, number, amount, batches) /\ number \in {1, 2}
    BY <1>3, <1>6, <1>7, <1>8 DEF Scheduled
  <1>q. QED BY <1>1, <1>4, <1>5, <1>9

LEMMA ScheduleInv ==
    ASSUME LegacyIInv, NEW c \in Changes, ScheduleBatch(c) PROVE LegacyIInv'
  <1>1. PICK number \in {1, 2}, amount \in Nat, batches \in BatchesType :
            Scheduled(c, number, amount, batches)
    BY ScheduleEffect
  <1>2. /\ request[c] \in RequestType /\ Requested(c)
        /\ request[c].status \in {"approved", "refund_processing"}
        /\ UNCHANGED <<plan, proposal, auth, queryAuth, item, catalog, order, op, task>>
    BY ScheduleEffect DEF ScheduleBatch, consumerVars
  <1> DEFINE new == [status |-> "refund_processing", rule |-> request[c].rule,
                     fee |-> request[c].fee, refund |-> request[c].refund,
                     batches |-> batches]
  <1>3. new \in RequestType /\ request' = [request EXCEPT ![c] = new]
    BY <1>1, <1>2 DEF Scheduled, RequestType
  <1>4. new.fee = request[c].fee /\ new.refund = request[c].refund
    OBVIOUS
  <1> HIDE DEF new
  <1>5. Typed'
    BY <1>2, <1>3 DEF LegacyIInv, Typed
  <1>6. /\ request'[c] = new /\ \A d \in Changes \ {c} : request'[d] = request[d]
    BY <1>3 DEF LegacyIInv, Typed
  <1>7. RequestMoves(c)
    BY <1>2, <1>3, <1>4, <1>6, NothingIsNone DEF RequestMoves, Requested, Active
  <1>8. Carried'
    BY <1>2, <1>6, <1>7, MoveStep
  <1>q. QED BY <1>5, <1>8 DEF LegacyIInv

Complete(c, n) ==
    BatchSum(c, {"succeeded"}) + request[c].batches[n].amount = request[c].refund

\* A batch is answered: its mark, and where that leaves its request.
Answered(c, n, mark, status, batches) ==
    /\ DOMAIN batches = DOMAIN request[c].batches
    /\ batches[n] = [amount |-> request[c].batches[n].amount, status |-> mark]
    /\ \A m \in DOMAIN request[c].batches \ {n} : batches[m] = request[c].batches[m]
    /\ request' = [request EXCEPT ![c] =
           [status |-> status, rule |-> request[c].rule,
            fee |-> request[c].fee, refund |-> request[c].refund, batches |-> batches]]

LEMMA BatchAnswered ==
    ASSUME LegacyIInv, NEW c \in Changes, Requested(c), NEW n \in DOMAIN request[c].batches,
           NEW mark \in {"unknown", "pending_review", "succeeded"},
           NEW status \in {"refund_processing", "pending_review", "completed"},
           request' = [request EXCEPT ![c].status = status, ![c].batches[n].status = mark]
    PROVE  \E batches \in BatchesType : Answered(c, n, mark, status, batches)
  <1> DEFINE r == request[c]
             batch == [r.batches[n] EXCEPT !.status = mark]
             batches == [r.batches EXCEPT ![n] = batch]
             moved == [r EXCEPT !.status = status]
  <1>1. r \in RequestType /\ r.batches \in BatchesType /\ r.batches[n] \in BatchType
    <2>1. r \in RequestType /\ r.batches \in BatchesType
      BY DEF LegacyIInv, Typed, Requested, RequestType
    <2>q. QED BY <2>1, BatchNumbers
  <1>2. request' = [request EXCEPT ![c] = [moved EXCEPT !.batches = batches]]
    BY <1>1 DEF RequestType
  <1>3. /\ batch = [amount |-> r.batches[n].amount, status |-> mark]
        /\ batch \in BatchType
    BY <1>1 DEF BatchType
  <1>4. moved = [status |-> status, rule |-> r.rule, fee |-> r.fee,
                 refund |-> r.refund, batches |-> r.batches]
    BY <1>1 DEF RequestType
  <1> HIDE DEF batch, moved
  <1>5. /\ DOMAIN batches = DOMAIN r.batches /\ batches[n] = batch
        /\ \A m \in DOMAIN r.batches \ {n} : batches[m] = r.batches[m]
    BY <1>1 DEF BatchesType
  <1>6. batches \in BatchesType
    BY <1>1, <1>3 DEF BatchesType
  <1> HIDE DEF batches
  <1>7. [moved EXCEPT !.batches = batches]
        = [status |-> status, rule |-> r.rule, fee |-> r.fee,
           refund |-> r.refund, batches |-> batches]
    BY <1>4
  <1>q. QED BY <1>2, <1>3, <1>5, <1>6, <1>7 DEF Answered

\* A batch that fails goes to a person, one that succeeds to the order.
Settled(c, n, mark, status, batches) ==
    /\ Answered(c, n, mark, status, batches)
    /\ \/ /\ mark # "succeeded" /\ status = "pending_review"
          /\ task' = [task EXCEPT ![<<"refund", c, n>>] = "open"]
          /\ UNCHANGED order
       \/ /\ mark = "succeeded"
          /\ status = IF Complete(c, n) THEN "completed" ELSE "refund_processing"
          /\ order[c[2]].refunded + request[c].batches[n].amount <= order[c[2]].price
          /\ order' = [order EXCEPT
                 ![c[2]].refunded = @ + request[c].batches[n].amount,
                 ![c[2]].status = IF Complete(c, n) THEN "cancelled"
                                  ELSE "cancellation_processing"]
          /\ UNCHANGED task

LEMMA RefundEffect ==
    ASSUME LegacyIInv, NEW c \in Changes, NEW n \in Numbers, processRefundBatch(c, n)
    PROVE  /\ Requested(c) /\ request[c] \in RequestType
           /\ n \in DOMAIN request[c].batches /\ request[c].batches[n].status = "pending"
           /\ request[c].batches[n] \in BatchType
           /\ request[c].status \in {"approved", "refund_processing"}
           /\ Ordered(c[2]) /\ order[c[2]].payment = "paid"
           /\ UNCHANGED <<plan, proposal, auth, queryAuth, item, catalog, op>>
           /\ \E mark \in {"unknown", "pending_review", "succeeded"},
                 status \in {"refund_processing", "pending_review", "completed"},
                 batches \in BatchesType :
                 Settled(c, n, mark, status, batches)
  <1>1. /\ Requested(c) /\ n \in DOMAIN request[c].batches
        /\ request[c].batches[n].status = "pending"
        /\ request[c].status \in {"approved", "refund_processing"}
        /\ order[c[2]].payment = "paid"
        /\ UNCHANGED <<plan, proposal, auth, queryAuth, item, catalog, op>>
    BY DEF processRefundBatch, consumerVars
  <1>2. Ordered(c[2])
    BY <1>1, OpsApart, OrderBehind
  <1>3. request[c] \in RequestType /\ request[c].batches[n] \in BatchType
    <2>1. request[c] \in RequestType /\ request[c].batches \in BatchesType
      BY <1>1 DEF LegacyIInv, Typed, Requested, RequestType
    <2>q. QED BY <1>1, <2>1, BatchNumbers
  <1>4. CASE order[c[2]].modes.refund # "SUCCESS"
    <2>1. PICK mark \in {"unknown", "pending_review"} :
              mark = Outcome(order[c[2]].modes.refund)
      BY DEF Outcome
    <2>2. /\ request' = [request EXCEPT ![c].status = "pending_review",
                                        ![c].batches[n].status = mark]
          /\ task' = [task EXCEPT ![<<"refund", c, n>>] = "open"]
          /\ UNCHANGED order
      BY <1>4, <2>1 DEF processRefundBatch
    <2>3. PICK batches \in BatchesType : Answered(c, n, mark, "pending_review", batches)
      BY <1>1, <2>2, BatchAnswered
    <2>4. Settled(c, n, mark, "pending_review", batches)
      BY <2>2, <2>3 DEF Settled
    <2>q. QED BY <1>1, <1>2, <1>3, <2>4
  <1>5. CASE order[c[2]].modes.refund = "SUCCESS"
    <2>1. PICK status \in {"refund_processing", "completed"} :
              status = IF Complete(c, n) THEN "completed" ELSE "refund_processing"
      OBVIOUS
    <2>2. /\ request' = [request EXCEPT ![c].status = status,
                                        ![c].batches[n].status = "succeeded"]
          /\ order[c[2]].refunded + request[c].batches[n].amount <= order[c[2]].price
          /\ order' = [order EXCEPT
                 ![c[2]].refunded = @ + request[c].batches[n].amount,
                 ![c[2]].status = IF Complete(c, n) THEN "cancelled"
                                  ELSE "cancellation_processing"]
          /\ UNCHANGED task
      BY <1>5, <2>1 DEF processRefundBatch, Complete
    <2>3. PICK batches \in BatchesType : Answered(c, n, "succeeded", status, batches)
      BY <1>1, <2>2, BatchAnswered
    <2>4. Settled(c, n, "succeeded", status, batches)
      BY <2>1, <2>2, <2>3 DEF Settled
    <2>q. QED BY <1>1, <1>2, <1>3, <2>4
  <1>q. QED BY <1>4, <1>5

LEMMA OrderRefunded ==
    ASSUME NEW r \in OrderType, NEW refunded, NEW status
    PROVE  [r EXCEPT !.refunded = refunded, !.status = status]
           = [by |-> r.by, price |-> r.price, status |-> status, payment |-> r.payment,
              reserved |-> r.reserved, refunded |-> refunded, modes |-> r.modes]
  <1> DEFINE back == [r EXCEPT !.refunded = refunded]
  <1>1. [r EXCEPT !.refunded = refunded, !.status = status]
        = [back EXCEPT !.status = status]
    OBVIOUS
  <1>2. back = [by |-> r.by, price |-> r.price, status |-> r.status, payment |-> r.payment,
                reserved |-> r.reserved, refunded |-> refunded, modes |-> r.modes]
    BY DEF OrderType
  <1> HIDE DEF back
  <1>3. [back EXCEPT !.status = status]
        = [by |-> r.by, price |-> r.price, status |-> status, payment |-> r.payment,
           reserved |-> r.reserved, refunded |-> refunded, modes |-> r.modes]
    BY <1>2
  <1>q. QED BY <1>1, <1>3

\* What the order becomes when a batch of that amount comes back.
LEMMA BackEffect ==
    ASSUME LegacyIInv, NEW i \in Items, Ordered(i), NEW amount \in Nat,
           NEW status \in {"cancelled", "cancellation_processing"},
           order[i].refunded + amount <= order[i].price,
           order' = [order EXCEPT ![i].refunded = @ + amount, ![i].status = status]
    PROVE  /\ order' \in [Items -> OrderType \cup {None}] /\ Ordered(i)'
           /\ \A j \in Items \ {i} : order'[j] = order[j]
           /\ order'[i] \in OrderType /\ order'[i].by = order[i].by
           /\ order'[i].price = order[i].price /\ order'[i].payment = order[i].payment
           /\ order'[i].reserved = order[i].reserved
           /\ order'[i].refunded = order[i].refunded + amount
           /\ order'[i].status = status
           /\ OrderMoves(i)
  <1>1. order[i] \in OrderType /\ order \in [Items -> OrderType \cup {None}]
        /\ order[i].price = Price[i]
    BY DEF LegacyIInv, Typed, Carried, OrderKnown, Ordered
  <1> DEFINE new == [by |-> order[i].by, price |-> order[i].price, status |-> status,
                     payment |-> order[i].payment, reserved |-> order[i].reserved,
                     refunded |-> order[i].refunded + amount, modes |-> order[i].modes]
  <1>2. order' = [order EXCEPT ![i] = [order[i] EXCEPT
                     !.refunded = order[i].refunded + amount, !.status = status]]
    BY <1>1
  <1>3. order' = [order EXCEPT ![i] = new]
    <2>1. [order[i] EXCEPT !.refunded = order[i].refunded + amount, !.status = status] = new
      BY <1>1, OrderRefunded, ZenonT(30)
    <2>q. QED BY <1>2, <2>1
  <1>4. new \in OrderType /\ new # None
    BY <1>1, NothingIsNone DEF OrderType
  <1>5. /\ new.by = order[i].by /\ new.price = order[i].price
        /\ new.payment = order[i].payment /\ new.reserved = order[i].reserved
        /\ new.refunded = order[i].refunded + amount /\ new.status = status
    OBVIOUS
  <1> HIDE DEF new
  <1>6. order'[i] = new /\ \A j \in Items \ {i} : order'[j] = order[j]
    BY <1>1, <1>3
  <1>q. QED BY <1>1, <1>3, <1>4, <1>5, <1>6 DEF Ordered, OrderMoves

LEMMA RefundInv ==
    ASSUME LegacyIInv, NEW c \in Changes, NEW n \in Numbers, processRefundBatch(c, n)
    PROVE  LegacyIInv'
  <1>1. PICK mark \in {"unknown", "pending_review", "succeeded"},
             status \in {"refund_processing", "pending_review", "completed"},
             batches \in BatchesType : Settled(c, n, mark, status, batches)
    BY RefundEffect
  <1>2. /\ request[c] \in RequestType /\ Requested(c)
        /\ request[c].status \in {"approved", "refund_processing"}
        /\ request[c].batches[n] \in BatchType
        /\ Ordered(c[2]) /\ c[2] \in Items
        /\ UNCHANGED <<plan, proposal, auth, queryAuth, item, catalog, op>>
    BY RefundEffect, OpsApart
  <1> DEFINE new == [status |-> status, rule |-> request[c].rule,
                     fee |-> request[c].fee, refund |-> request[c].refund,
                     batches |-> batches]
  <1>3. new \in RequestType /\ request' = [request EXCEPT ![c] = new]
    BY <1>1, <1>2 DEF Settled, Answered, RequestType
  <1>4. new.fee = request[c].fee /\ new.refund = request[c].refund
    OBVIOUS
  <1> HIDE DEF new
  <1>5. /\ order' \in [Items -> OrderType \cup {None}]
        /\ \A j \in Items : order'[j] = order[j] \/ OrderMoves(j)
    <2>1. request[c].batches[n].amount \in Nat
      BY <1>2 DEF BatchType
    <2>2. CASE UNCHANGED order
      BY <2>2 DEF LegacyIInv, Typed
    <2>3. CASE ~UNCHANGED order
      <3>1. PICK s \in {"cancelled", "cancellation_processing"} :
              s = IF Complete(c, n) THEN "cancelled" ELSE "cancellation_processing"
        OBVIOUS
      <3>2. /\ order[c[2]].refunded + request[c].batches[n].amount <= order[c[2]].price
            /\ order' = [order EXCEPT
                 ![c[2]].refunded = @ + request[c].batches[n].amount, ![c[2]].status = s]
        BY <1>1, <2>3, <3>1 DEF Settled
      <3>q. QED BY <1>2, <2>1, <3>2, BackEffect
    <2>q. QED BY <2>2, <2>3
  <1>6. task' \in [TaskKeys -> TaskStates]
    BY <1>1 DEF Settled, LegacyIInv, Typed, TaskStates
  <1>7. Typed'
    BY <1>2, <1>3, <1>5, <1>6 DEF LegacyIInv, Typed
  <1>8. request'[c] = new /\ \A d \in Changes \ {c} : request'[d] = request[d]
    BY <1>3 DEF LegacyIInv, Typed
  <1>9. RequestMoves(c)
    BY <1>2, <1>3, <1>4, <1>8, NothingIsNone DEF RequestMoves, Requested, Active
  <1>10. Carried'
    BY <1>2, <1>5, <1>8, <1>9, MoveStep
  <1>q. QED BY <1>7, <1>10 DEF LegacyIInv

------------------------------------------------------------------------------
(* Every step.                                                             *)

LEMMA LegacyStep == LegacyIInv /\ [Next]_vars => LegacyIInv'
  <1> SUFFICES ASSUME LegacyIInv, [Next]_vars PROVE LegacyIInv'
    OBVIOUS
  <1>1. CASE Consumer
    <2>1. CASE \E p \in Proposals : createPurchaseProposal(p) \/ createChangeProposal(p)
                                    \/ RenewQuery(p)
      BY <2>1, PurchasePreviewInv, ChangePreviewInv, RenewQueryInv
    <2>2. CASE \E p \in Proposals : ConfirmPurchase(p) \/ ConfirmChange(p)
                                    \/ submitConfirmedChange(p)
      BY <2>2, ConfirmPurchaseInv, ConfirmChangeInv, SubmitInv
    <2>3. CASE \E p \in Proposals, i \in Items : createConfirmedOrder(p, i)
      BY <2>3, OrderInv
    <2>4. CASE pausePurchases \/ RevokeAftercare
      BY <2>4, EndAuthorityInv
    <2>q. QED BY <1>1, <2>1, <2>2, <2>3, <2>4 DEF Consumer
  <1>2. CASE Merchant
    <2>1. CASE \E i \in Changed : UpdateRule(i)
      BY <2>1, UpdateRuleInv, LegacyAssumption
    <2>2. CASE \E c \in Changes : DecideCancellation(c) \/ ScheduleBatch(c)
      BY <2>2, DecideInv, ScheduleInv
    <2>3. CASE \E k \in TaskKeys : ClaimTask(k)
      BY <2>3, TaskStepInv
    <2>q. QED BY <1>2, <2>1, <2>2, <2>3 DEF Merchant
  <1>3. CASE Worker
    BY <1>3, PaymentInv, CloseInv, RefundInv DEF Worker
  <1>4. CASE \E o \in Rechecked : RequestRecheck(o)
    BY <1>4, TaskStepInv
  <1>5. CASE UNCHANGED vars
    <2>1. UNCHANGED <<plan, proposal, auth, queryAuth, item, catalog, order, op, request,
                      task>>
      BY <1>5 DEF vars, consumerVars
    <2>q. QED BY <2>1, QuietStep DEF LegacyIInv, Typed
  <1>q. QED BY <1>1, <1>2, <1>3, <1>4, <1>5 DEF Next

\* Whatever the consumer, the merchant and the worker do, and in whichever
\* order, orders, closes and requests are those that somebody confirmed: the
\* orders of proposals.ts, the changes of business-actions.ts.
THEOREM LegacySoundAlways == Spec => []LegacySound
  <1>1. Init => LegacyIInv
    BY LegacyInit
  <1>2. LegacyIInv /\ [Next]_vars => LegacyIInv'
    BY LegacyStep
  <1>3. LegacyIInv => LegacySound
    BY LegacyIInvImplies
  <1>q. QED BY <1>1, <1>2, <1>3, PTL DEF Spec

------------------------------------------------------------------------------
(* The inductive invariant of the money of a plan and of its refunds.      *)

HeldAt(i) == IF Ordered(i) /\ order[i].payment # "closed" THEN Price[i] ELSE 0
Held == [i \in Items |-> HeldAt(i)]
ReservedKnown(i) ==
    Ordered(i) /\ order[i].payment \in {"pending", "unknown"}
        => order[i].reserved = Price[i]

Portion(r) == IF r.rule = "two_batches" THEN r.refund \div 2 ELSE r.refund
LastBatch(r) == IF r.rule = "two_batches" THEN 2 ELSE 1
AllBack(r) ==
    LastBatch(r) \in DOMAIN r.batches /\ r.batches[LastBatch(r)].status = "succeeded"
Stuck(batch) == batch.status \in {"unknown", "pending_review"}

\* The second batch follows a first one that succeeded, so no more than one is
\* on its way, and the status of the request follows from its batches.
BatchesFit(r) ==
    /\ DOMAIN r.batches # {} =>
           r.refund > 0 /\ (r.rule = "two_batches" => r.refund % 2 = 0)
    /\ \A n \in DOMAIN r.batches : r.batches[n].amount = Portion(r)
    /\ 2 \in DOMAIN r.batches =>
           r.rule = "two_batches" /\ r.batches[1].status = "succeeded"
    /\ r.status \in {"delayed", "approved", "rejected"} <=> DOMAIN r.batches = {}
    /\ r.status = "completed" <=> AllBack(r)
    /\ r.status = "pending_review" <=> \E n \in DOMAIN r.batches : Stuck(r.batches[n])

BatchesKnown(c) == Requested(c) => BatchesFit(request[c])

TaskKnown(c) ==
    /\ ~Requested(c) => task[<<"delay", c>>] = "none"
    /\ Requested(c) =>
           /\ request[c].status = "delayed"
                  <=> task[<<"delay", c>>] \in {"open", "claimed"}
           /\ \A n \in DOMAIN request[c].batches :
                  Stuck(request[c].batches[n])
                      => task[<<"refund", c, n>>] \in {"open", "claimed"}

\* One request of an order at most is carried out or may be, and what came
\* back of the order is what came back of that one.
SettlingAt(p, i) == Requested(<<p, i>>) /\ request[<<p, i>>].status # "rejected"
CompletedAt(p, i) == Requested(<<p, i>>) /\ request[<<p, i>>].status = "completed"
Back(c) == BatchSum(c, {"succeeded"})
OrderAddsUp(i) ==
    /\ \A p, q \in Proposals : SettlingAt(p, i) /\ SettlingAt(q, i) => p = q
    /\ Ordered(i) =>
           /\ \A p \in Proposals :
                  SettlingAt(p, i) => order[i].refunded = Back(<<p, i>>)
           /\ (\A p \in Proposals : ~SettlingAt(p, i)) => order[i].refunded = 0
           /\ order[i].status = "cancellation_processing"
                  <=> \E p \in Proposals : ActiveAt(p, i)
           /\ order[i].status = "cancelled"
                  <=> \/ order[i].payment = "closed"
                      \/ \E p \in Proposals : CompletedAt(p, i)

WithinLimit == SumOf(Held) <= plan.limit
Refunds ==
    /\ \A c \in Changes : BatchesKnown(c) /\ TaskKnown(c)
    /\ \A i \in Items : ReservedKnown(i) /\ OrderAddsUp(i)
MoneyIInv == LegacyIInv /\ WithinLimit /\ Refunds

LEMMA SumIs == \A f : Sum(f) = SumOf(f)
  BY DEF Sum, FoldFunction, FoldFunctionOnSet, SumOf

\* What the batches of a request come to.
Part(b, n, S) == IF n \in DOMAIN b /\ b[n].status \in S THEN b[n].amount ELSE 0
PartSum(b, S) == Part(b, 1, S) + Part(b, 2, S)

LEMMA PartsAddUp ==
    ASSUME NEW b \in BatchesType, NEW S
    PROVE  /\ SumOf([n \in {k \in DOMAIN b : b[k].status \in S} |-> b[n].amount])
              = PartSum(b, S)
           /\ Part(b, 1, S) \in Nat /\ Part(b, 2, S) \in Nat
  <1> DEFINE f == [n \in {k \in DOMAIN b : b[k].status \in S} |-> b[n].amount]
             g == [n \in {1, 2} |-> Part(b, n, S)]
             h == [n \in {2} |-> Part(b, n, S)]
             e == [n \in {} |-> 0]
  <1>1. /\ DOMAIN b \subseteq {1, 2}
        /\ \A n \in DOMAIN b : b[n].amount \in Nat
    BY BatchNumbers DEF BatchType
  <1>2. \A n \in {1, 2} : Part(b, n, S) \in Nat
    BY <1>1 DEF Part
  <1>3. IsFiniteSet({1, 2}) /\ IsFiniteSet({2}) /\ {2} = {1, 2} \ {1}
    <2>1. IsFiniteSet({2})
      BY FS_Singleton
    <2>2. IsFiniteSet({2} \cup {1})
      BY <2>1, FS_AddElement
    <2>3. {2} \cup {1} = {1, 2} /\ {2} = {1, 2} \ {1}
      OBVIOUS
    <2>q. QED BY <2>1, <2>2, <2>3
  <1>4. Summands(g) /\ DOMAIN g = {1, 2} /\ Summands(h) /\ DOMAIN h = {2} /\ DOMAIN e = {}
    BY <1>2, <1>3 DEF Summands
  <1>5. /\ DOMAIN f \subseteq {1, 2}
        /\ \A n \in {1, 2} : IF n \in DOMAIN f THEN g[n] = f[n] ELSE g[n] = 0
    BY <1>1 DEF Part
  <1>6. g[1] = Part(b, 1, S) /\ h[2] = Part(b, 2, S) /\ \A n \in DOMAIN h : h[n] = g[n]
    OBVIOUS
  <1> HIDE DEF f, g, h, e
  <1>7. SumOf(f) = SumOf(g)
    BY <1>4, <1>5, SumSkipsZeros
  <1>8. SumOf(g) = g[1] + SumOf(h)
    <2>1. 1 \in DOMAIN g /\ DOMAIN h = DOMAIN g \ {1}
      BY <1>3, <1>4
    <2>q. QED BY <1>4, <1>6, <2>1, SumAdds
  <1>9. SumOf(h) = h[2] + SumOf(e)
    BY <1>4, SumAdds
  <1>10. SumOf(e) = 0
    BY <1>4, SumEmpty
  <1>11. SumOf(f) = PartSum(b, S)
    BY <1>2, <1>6, <1>7, <1>8, <1>9, <1>10 DEF PartSum
  <1>q. QED BY <1>2, <1>11 DEF f

LEMMA BatchSumIs ==
    ASSUME NEW c \in Changes, request[c].batches \in BatchesType, NEW S
    PROVE  BatchSum(c, S) = PartSum(request[c].batches, S)
  BY SumIs, PartsAddUp DEF BatchSum

LEMMA BatchSumIsNext ==
    ASSUME NEW c \in Changes, request'[c].batches \in BatchesType, NEW S
    PROVE  BatchSum(c, S)' = PartSum(request'[c].batches, S)
  BY SumIs, PartsAddUp DEF BatchSum

\* What a request whose batches fit has returned and has under way.
Returned(r) == PartSum(r.batches, {"succeeded"})

LEMMA RequestSums ==
    ASSUME NEW r \in RequestType, BatchesFit(r)
    PROVE  /\ Returned(r) \in Nat
           /\ Returned(r) + PartSum(r.batches, Unsettled) <= r.refund
           /\ r.status = "completed" <=> r.refund > 0 /\ Returned(r) = r.refund
           /\ DOMAIN r.batches = {} => Returned(r) = 0
           /\ \A m, n \in DOMAIN r.batches :
                  r.batches[m].status \in Unsettled /\ r.batches[n].status \in Unsettled
                      => m = n
           /\ \A n \in DOMAIN r.batches :
                  r.batches[n].status = "pending" => r.status = "refund_processing"
  <1> DEFINE b == r.batches
  <1>1. /\ b \in BatchesType /\ r.refund \in Nat
        /\ r.status \in {"delayed", "approved", "rejected", "refund_processing",
                         "pending_review", "completed"}
    BY DEF RequestType
  <1>2. /\ DOMAIN b = {} \/ DOMAIN b = {1} \/ DOMAIN b = {1, 2}
        /\ \A n \in DOMAIN b : b[n] \in BatchType
    BY <1>1, BatchNumbers
  <1>3. /\ DOMAIN b # {} => r.refund > 0 /\ (r.rule = "two_batches" => r.refund % 2 = 0)
        /\ \A n \in DOMAIN b : b[n].amount = Portion(r)
        /\ 2 \in DOMAIN b => r.rule = "two_batches" /\ b[1].status = "succeeded"
        /\ r.status \in {"delayed", "approved", "rejected"} <=> DOMAIN b = {}
        /\ r.status = "completed" <=> AllBack(r)
        /\ r.status = "pending_review" <=> \E n \in DOMAIN b : Stuck(b[n])
    BY DEF BatchesFit
  <1>4. \A n \in DOMAIN b :
            /\ b[n].status \in {"pending", "unknown", "pending_review", "succeeded"}
            /\ b[n].status \in Unsettled <=> b[n].status # "succeeded"
    BY <1>2 DEF BatchType, Unsettled
  <1>5. PICK portion : portion = Portion(r)
    OBVIOUS
  <1>6. /\ portion \in Nat
        /\ r.rule # "two_batches" => portion = r.refund
        /\ r.rule = "two_batches" /\ DOMAIN b # {} => portion + portion = r.refund
    <2>1. r.rule = "two_batches" => portion = r.refund \div 2
      BY <1>5 DEF Portion
    <2>2. r.rule = "two_batches" /\ DOMAIN b # {} => r.refund % 2 = 0
      BY <1>3
    <2>3. r.rule # "two_batches" => portion = r.refund
      BY <1>5 DEF Portion
    <2>q. QED BY <1>1, <2>1, <2>2, <2>3
  <1>7. CASE DOMAIN b = {}
    <2>1. \A S : PartSum(b, S) = 0
      BY <1>7 DEF PartSum, Part
    <2>2. ~AllBack(r)
      BY <1>7 DEF AllBack
    <2>q. QED BY <1>1, <1>3, <1>7, <2>1, <2>2 DEF Returned
  <1>8. CASE DOMAIN b = {1}
    <2>1. \A S : PartSum(b, S) = IF b[1].status \in S THEN portion ELSE 0
      BY <1>3, <1>5, <1>6, <1>8 DEF PartSum, Part
    <2>2. /\ Returned(r) = IF b[1].status = "succeeded" THEN portion ELSE 0
          /\ PartSum(b, Unsettled) = IF b[1].status = "succeeded" THEN 0 ELSE portion
      BY <1>4, <1>8, <2>1 DEF Returned
    <2>3. r.refund > 0
      BY <1>3, <1>8
    <2>4. AllBack(r) <=> r.rule # "two_batches" /\ b[1].status = "succeeded"
      BY <1>8 DEF AllBack, LastBatch
    <2>5. r.status = "completed" <=> Returned(r) = r.refund
      BY <1>1, <1>3, <1>6, <1>8, <2>2, <2>3, <2>4
    <2>6. portion <= r.refund
      BY <1>1, <1>6, <1>8
    <2>7. b[1].status = "pending" => r.status = "refund_processing"
      BY <1>1, <1>3, <1>8, <2>4 DEF Stuck
    <2> HIDE DEF b
    <2>8. /\ Returned(r) \in Nat
          /\ Returned(r) + PartSum(b, Unsettled) <= r.refund
      BY <1>1, <1>6, <2>2, <2>6
    <2>q. QED BY <1>8, <2>3, <2>5, <2>7, <2>8 DEF b
  <1>9. CASE DOMAIN b = {1, 2}
    <2>1. r.rule = "two_batches" /\ b[1].status = "succeeded" /\ r.refund > 0
      BY <1>3, <1>9
    <2>2. \A S : "succeeded" \in S =>
              PartSum(b, S) = portion + (IF b[2].status \in S THEN portion ELSE 0)
      BY <1>3, <1>5, <1>9, <2>1 DEF PartSum, Part
    <2>3. Returned(r) = portion + (IF b[2].status = "succeeded" THEN portion ELSE 0)
      BY <2>2 DEF Returned
    <2>4. "succeeded" \notin Unsettled /\ (b[2].status \in Unsettled <=> b[2].status # "succeeded")
      BY <1>4, <1>9 DEF Unsettled
    <2>5. PartSum(b, Unsettled) = IF b[2].status = "succeeded" THEN 0 ELSE portion
      BY <1>3, <1>5, <1>6, <1>9, <2>1, <2>4 DEF PartSum, Part
    <2>6. AllBack(r) <=> b[2].status = "succeeded"
      BY <1>9, <2>1 DEF AllBack, LastBatch
    <2>7. b[2].status = "pending" => r.status = "refund_processing"
      BY <1>1, <1>3, <1>9, <2>1, <2>6 DEF Stuck
    <2>8. /\ Returned(r) \in Nat
          /\ Returned(r) + PartSum(b, Unsettled) <= r.refund
          /\ Returned(r) = r.refund <=> b[2].status = "succeeded"
      BY <1>1, <1>6, <1>9, <2>1, <2>3, <2>5
    <2>q. QED BY <1>3, <1>9, <2>1, <2>4, <2>6, <2>7, <2>8
  <1>q. QED BY <1>2, <1>7, <1>8, <1>9

------------------------------------------------------------------------------
(* What the invariant says of the page of a plan and of its refunds.       *)

PaidAt(i) == IF Ordered(i) /\ order[i].payment = "paid" THEN Price[i] ELSE 0
WaitsAt(i) == IF Ordered(i) /\ order[i].payment \in {"pending", "unknown"}
              THEN Price[i] ELSE 0
BackAt(i) == IF Ordered(i) THEN order[i].refunded ELSE 0

LEMMA ItemSums ==
    ASSUME NEW f, DOMAIN f = Items, \A i \in Items : f[i] \in Nat
    PROVE  Summands(f) /\ SumOf(f) \in Nat
  <1>1. IsFiniteSet(DOMAIN f) /\ \A i \in DOMAIN f : f[i] \in Nat
    BY LegacyAssumption
  <1>2. SumOf(f) \in Nat
    BY <1>1, SumNatural
  <1>q. QED BY <1>1, <1>2 DEF Summands

LEMMA SumOverSome ==
    ASSUME NEW S \in SUBSET Items, NEW f, DOMAIN f = S, NEW g, DOMAIN g = Items,
           \A i \in Items : g[i] \in Nat,
           \A i \in Items : g[i] = IF i \in S THEN f[i] ELSE 0
    PROVE  Sum(f) = SumOf(g)
  <1>1. Summands(g)
    BY ItemSums
  <1>2. SumOf(f) = SumOf(g)
    BY <1>1, SumSkipsZeros
  <1>q. QED BY <1>2, SumIs

LEMMA BudgetIs ==
    ASSUME LegacyIInv, \A i \in Items : ReservedKnown(i)
    PROVE  /\ budgetForPlan.paid = SumOf([i \in Items |-> PaidAt(i)])
           /\ budgetForPlan.reserved = SumOf([i \in Items |-> WaitsAt(i)])
           /\ budgetForPlan.paid \in Nat /\ budgetForPlan.reserved \in Nat
           /\ SumOf(Held) \in Nat
           /\ budgetForPlan.paid + budgetForPlan.reserved = SumOf(Held)
  <1>1. ASSUME NEW i \in Items, Ordered(i)
        PROVE  /\ order[i].payment \in {"pending", "paid", "unknown", "closed"}
               /\ order[i].price = Price[i]
    BY <1>1 DEF LegacyIInv, Typed, Carried, OrderType, OrderKnown, Ordered
  <1>2. \A i \in Items : Price[i] \in Nat
    BY LegacyAssumption
  <1> DEFINE P == {j \in Items : Ordered(j) /\ order[j].payment \in {"paid"}}
             W == {j \in Items : Ordered(j) /\ order[j].payment \in {"pending", "unknown"}}
             paid == [i \in P |-> order[i]["price"]]
             waits == [i \in W |-> order[i]["reserved"]]
             allPaid == [i \in Items |-> PaidAt(i)]
             allWaits == [i \in Items |-> WaitsAt(i)]
  <1>3. /\ budgetForPlan.paid = Sum(paid) /\ budgetForPlan.reserved = Sum(waits)
    BY DEF budgetForPlan
  <1>4. /\ DOMAIN allPaid = Items /\ DOMAIN allWaits = Items /\ DOMAIN Held = Items
        /\ \A i \in Items : /\ allPaid[i] \in Nat /\ allWaits[i] \in Nat
                            /\ Held[i] \in Nat
                            /\ Held[i] = allPaid[i] + allWaits[i]
    BY <1>1, <1>2 DEF Held, HeldAt, PaidAt, WaitsAt
  <1>5. \A i \in Items : /\ allPaid[i] = IF i \in P THEN paid[i] ELSE 0
                         /\ allWaits[i] = IF i \in W THEN waits[i] ELSE 0
    <2>1. \A i \in W : order[i].reserved = Price[i]
      BY DEF ReservedKnown
    <2>q. QED BY <1>1, <2>1 DEF PaidAt, WaitsAt
  <1>6. P \in SUBSET Items /\ W \in SUBSET Items /\ DOMAIN paid = P /\ DOMAIN waits = W
    OBVIOUS
  <1> HIDE DEF P, W, paid, waits, allPaid, allWaits
  <1>7. Sum(paid) = SumOf(allPaid) /\ Sum(waits) = SumOf(allWaits)
    <2>1. /\ \A i \in Items : allPaid[i] \in Nat /\ allWaits[i] \in Nat
          /\ \A i \in Items : allPaid[i] = IF i \in P THEN paid[i] ELSE 0
          /\ \A i \in Items : allWaits[i] = IF i \in W THEN waits[i] ELSE 0
          /\ DOMAIN allPaid = Items /\ DOMAIN allWaits = Items
      BY <1>4, <1>5
    <2>2. Sum(paid) = SumOf(allPaid)
      BY <1>6, <2>1, SumOverSome
    <2>3. Sum(waits) = SumOf(allWaits)
      BY <1>6, <2>1, SumOverSome
    <2>q. QED BY <2>2, <2>3
  <1>8. /\ Summands(allPaid) /\ SumOf(allPaid) \in Nat
        /\ Summands(allWaits) /\ SumOf(allWaits) \in Nat
        /\ SumOf(Held) \in Nat
    BY <1>4, ItemSums
  <1>9. SumOf(Held) = SumOf(allPaid) + SumOf(allWaits)
    BY <1>4, <1>8, SumOfSums
  <1>q. QED BY <1>3, <1>7, <1>8, <1>9 DEF allPaid, allWaits

LEMMA RequestFits ==
    ASSUME MoneyIInv, NEW c \in Changes, Requested(c)
    PROVE  /\ request[c] \in RequestType /\ BatchesFit(request[c])
           /\ \A S : BatchSum(c, S) = PartSum(request[c].batches, S)
           /\ Back(c) = Returned(request[c])
  <1>1. request[c] \in RequestType /\ BatchesFit(request[c])
    BY DEF MoneyIInv, LegacyIInv, Typed, Requested, Refunds, BatchesKnown
  <1>2. request[c].batches \in BatchesType
    BY <1>1 DEF RequestType
  <1>3. \A S : BatchSum(c, S) = PartSum(request[c].batches, S)
    BY <1>2, BatchSumIs
  <1>q. QED BY <1>1, <1>3 DEF Back, Returned

\* An order of which something came back is paid, and no request is completed
\* of one of which nothing came back.
LEMMA OrderBack ==
    ASSUME MoneyIInv, NEW i \in Items, Ordered(i)
    PROVE  /\ order[i].refunded \in Nat /\ order[i].refunded <= Price[i]
           /\ order[i].refunded > 0 => order[i].payment = "paid"
           /\ order[i].refunded = 0 => \A p \in Proposals : ~CompletedAt(p, i)
  <1>1. order[i].refunded \in Nat /\ order[i].refunded <= Price[i] /\ OrderAddsUp(i)
    BY DEF MoneyIInv, LegacyIInv, Typed, Carried, OrderKnown, OrderType, Ordered, Refunds
  <1>2. order[i].refunded > 0 => order[i].payment = "paid"
    <2>1. SUFFICES ASSUME order[i].refunded > 0 PROVE order[i].payment = "paid"
      OBVIOUS
    <2>2. PICK p \in Proposals : SettlingAt(p, i)
      BY <1>1, <2>1 DEF OrderAddsUp
    <2>3. RequestKnown(p, i)
      BY DEF MoneyIInv, LegacyIInv, Carried
    <2>q. QED BY <2>2, <2>3 DEF SettlingAt, RequestKnown
  <1>3. ASSUME NEW p \in Proposals, CompletedAt(p, i) PROVE order[i].refunded > 0
    <2>1. <<p, i>> \in Changes /\ Requested(<<p, i>>)
          /\ request[<<p, i>>].status = "completed" /\ SettlingAt(p, i)
      BY <1>3, OpsApart DEF CompletedAt, SettlingAt
    <2>2. order[i].refunded = Back(<<p, i>>)
      BY <1>1, <2>1 DEF OrderAddsUp
    <2>3. /\ request[<<p, i>>] \in RequestType /\ BatchesFit(request[<<p, i>>])
          /\ Back(<<p, i>>) = Returned(request[<<p, i>>])
      BY <2>1, RequestFits
    <2>4. request[<<p, i>>].refund > 0
          /\ Returned(request[<<p, i>>]) = request[<<p, i>>].refund
      BY <2>1, <2>3, RequestSums
    <2>q. QED BY <2>2, <2>3, <2>4
  <1>q. QED BY <1>1, <1>2, <1>3

LEMMA ShownMoney == MoneyIInv => ShownMoneyAgrees
  <1> SUFFICES ASSUME MoneyIInv PROVE ShownMoneyAgrees
    OBVIOUS
  <1>1. LegacyIInv /\ WithinLimit /\ \A i \in Items : ReservedKnown(i)
    BY DEF MoneyIInv, Refunds
  <1>2. plan.limit \in Nat
    BY <1>1, LegacyAssumption DEF LegacyIInv, Typed
  <1>3. /\ budgetForPlan.paid = SumOf([i \in Items |-> PaidAt(i)])
        /\ budgetForPlan.paid \in Nat /\ budgetForPlan.reserved \in Nat
        /\ budgetForPlan.paid + budgetForPlan.reserved <= plan.limit
    BY <1>1, BudgetIs DEF WithinLimit
  <1>4. planSnapshot.remaining >= 0
    BY <1>2, <1>3 DEF planSnapshot
  <1>5. planSnapshot.paid >= 0
    <2> DEFINE S == {j \in Items : Ordered(j)}
               back == [i \in S |-> order[i].refunded]
               allBack == [i \in Items |-> BackAt(i)]
               allPaid == [i \in Items |-> PaidAt(i)]
    <2>1. /\ S \in SUBSET Items /\ DOMAIN back = S
          /\ DOMAIN allBack = Items /\ DOMAIN allPaid = Items
          /\ \A i \in Items : allBack[i] = IF i \in S THEN back[i] ELSE 0
      BY DEF BackAt
    <2>2. \A i \in Items : /\ allBack[i] \in Nat /\ allPaid[i] \in Nat
                           /\ allBack[i] <= allPaid[i]
      <3>1. ASSUME NEW i \in Items
            PROVE  BackAt(i) \in Nat /\ PaidAt(i) \in Nat /\ BackAt(i) <= PaidAt(i)
        <4>1. Price[i] \in Nat
          BY LegacyAssumption
        <4>2. Ordered(i) => /\ order[i].refunded \in Nat /\ order[i].refunded <= Price[i]
                            /\ order[i].refunded > 0 => order[i].payment = "paid"
          BY OrderBack
        <4>q. QED BY <4>1, <4>2 DEF BackAt, PaidAt
      <3>q. QED BY <3>1
    <2>3. planSnapshot.paid = budgetForPlan.paid - Sum(back)
      BY DEF planSnapshot
    <2>4. budgetForPlan.paid = SumOf(allPaid)
      BY <1>3
    <2> HIDE DEF S, back, allBack, allPaid
    <2>5. Sum(back) = SumOf(allBack)
      BY <2>1, <2>2, SumOverSome
    <2>6. /\ Summands(allBack) /\ SumOf(allBack) \in Nat
          /\ Summands(allPaid) /\ SumOf(allPaid) \in Nat
      BY <2>1, <2>2, ItemSums
    <2>7. SumOf(allBack) <= SumOf(allPaid)
      BY <2>1, <2>2, <2>6, SumAtMost
    <2>q. QED BY <2>3, <2>4, <2>5, <2>6, <2>7
  <1>6. \A c \in DOMAIN planSnapshot.cancellations :
            planSnapshot.cancellations[c].refunded
                + planSnapshot.cancellations[c].pending <= request[c].refund
    <2>1. planSnapshot.cancellations
          = [c \in {d \in Changes : Requested(d)} |->
                 [refunded |-> BatchSum(c, {"succeeded"}),
                  pending |-> BatchSum(c, Unsettled)]]
      BY DEF planSnapshot
    <2>2. ASSUME NEW c \in Changes, Requested(c)
          PROVE  BatchSum(c, {"succeeded"}) + BatchSum(c, Unsettled) <= request[c].refund
      <3>1. /\ request[c] \in RequestType /\ BatchesFit(request[c])
            /\ \A S : BatchSum(c, S) = PartSum(request[c].batches, S)
        BY <2>2, RequestFits
      <3>q. QED BY <3>1, RequestSums DEF Returned
    <2>q. QED BY <2>1, <2>2
  <1>q. QED BY <1>4, <1>5, <1>6 DEF ShownMoneyAgrees

LEMMA ChangesFinite == IsFiniteSet(Changes)
  <1>1. IsFiniteSet(Proposals)
    BY FS_Interval, LegacyAssumption DEF Proposals
  <1>q. QED BY <1>1, FS_Product, LegacyAssumption DEF Changes

\* What came back of the requests of an order is what came back of the one
\* that may be carried out.
LEMMA OrderIsItsBatches ==
    ASSUME MoneyIInv, NEW i \in Items, Ordered(i)
    PROVE  order[i].refunded =
               Sum([c \in {d \in Changes : d[2] = i /\ Requested(d)} |->
                        BatchSum(c, {"succeeded"})])
  <1> DEFINE asked == {d \in Changes : d[2] = i /\ Requested(d)}
             f == [c \in asked |-> BatchSum(c, {"succeeded"})]
  <1>1. OrderAddsUp(i) /\ \A p \in Proposals : <<p, i>> \in Changes
    BY OpsApart DEF MoneyIInv, Refunds
  <1>2. ASSUME NEW c \in asked
        PROVE  /\ f[c] = Back(c) /\ f[c] \in Nat
               /\ c[1] \in Proposals /\ c = <<c[1], i>>
               /\ ~SettlingAt(c[1], i) => f[c] = 0
    <2>1. f[c] = Back(c) /\ c[1] \in Proposals /\ c = <<c[1], i>>
      BY OpsApart DEF Back
    <2> HIDE DEF f
    <2>2. /\ request[c] \in RequestType /\ BatchesFit(request[c])
          /\ Back(c) = Returned(request[c])
      BY RequestFits
    <2>3. Back(c) \in Nat /\ (DOMAIN request[c].batches = {} => Back(c) = 0)
      BY <2>2, RequestSums
    <2>4. request[c].status = "rejected" => DOMAIN request[c].batches = {}
      BY <2>2 DEF BatchesFit
    <2>5. ~SettlingAt(c[1], i) => request[c].status = "rejected"
      BY <2>1 DEF SettlingAt
    <2>q. QED BY <2>1, <2>3, <2>4, <2>5
  <1>3. Summands(f) /\ DOMAIN f = asked
    <2>1. IsFiniteSet(asked)
      BY ChangesFinite, FS_Subset
    <2>2. DOMAIN f = asked
      OBVIOUS
    <2>q. QED BY <1>2, <2>1, <2>2 DEF Summands
  <1>4. CASE \E p \in Proposals : SettlingAt(p, i)
    <2>1. PICK p \in Proposals : SettlingAt(p, i)
      BY <1>4
    <2>2. <<p, i>> \in asked /\ order[i].refunded = Back(<<p, i>>)
      BY <1>1, <2>1 DEF SettlingAt, OrderAddsUp
    <2>3. \A c \in asked \ {<<p, i>>} : ~SettlingAt(c[1], i)
      BY <1>1, <1>2, <2>1 DEF OrderAddsUp
    <2>4. f[<<p, i>>] = Back(<<p, i>>) /\ \A c \in asked \ {<<p, i>>} : f[c] = 0
      BY <1>2, <2>2, <2>3
    <2> HIDE DEF f, asked
    <2>5. SumOf(f) = f[<<p, i>>]
      BY <1>3, <2>2, <2>4, SumOfOne
    <2>6. Sum(f) = order[i].refunded
      BY <2>2, <2>4, <2>5, SumIs
    <2>q. QED BY <2>6 DEF f, asked
  <1>5. CASE \A p \in Proposals : ~SettlingAt(p, i)
    <2>1. order[i].refunded = 0
      BY <1>1, <1>5 DEF OrderAddsUp
    <2>2. \A c \in asked : f[c] = 0
      BY <1>2, <1>5
    <2> HIDE DEF f, asked
    <2>3. Sum(f) = order[i].refunded
      BY <1>3, <2>1, <2>2, SumOfZeros, SumIs
    <2>q. QED BY <2>3 DEF f, asked
  <1>q. QED BY <1>4, <1>5

LEMMA RefundsSum == MoneyIInv => RefundsAddUp
  <1> SUFFICES ASSUME MoneyIInv PROVE RefundsAddUp
    OBVIOUS
  <1>1. ASSUME NEW c \in Changes, Requested(c)
        PROVE  /\ Cardinality({n \in DOMAIN request[c].batches :
                      request[c].batches[n].status \in Unsettled}) <= 1
               /\ \A n \in DOMAIN request[c].batches :
                      /\ request[c].batches[n].status = "pending"
                             => request[c].status = "refund_processing"
                      /\ request[c].batches[n].status \in {"unknown", "pending_review"}
                             => /\ request[c].status = "pending_review"
                                /\ task[<<"refund", c, n>>] \in {"open", "claimed"}
               /\ request[c].status = "completed"
                      <=> request[c].refund > 0
                          /\ BatchSum(c, {"succeeded"}) = request[c].refund
               /\ request[c].status = "delayed"
                      <=> task[<<"delay", c>>] \in {"open", "claimed"}
    <2> DEFINE r == request[c]
               S == {n \in DOMAIN r.batches : r.batches[n].status \in Unsettled}
    <2>1. /\ r \in RequestType /\ BatchesFit(r) /\ TaskKnown(c)
          /\ BatchSum(c, {"succeeded"}) = Returned(r)
      BY <1>1, RequestFits DEF MoneyIInv, Refunds, Returned
    <2>2. /\ r.status = "completed" <=> r.refund > 0 /\ Returned(r) = r.refund
          /\ \A n \in DOMAIN r.batches :
                 r.batches[n].status = "pending" => r.status = "refund_processing"
          /\ \A m, n \in S : m = n
      BY <2>1, RequestSums
    <2>3. IsFiniteSet(S)
      <3>1. \/ DOMAIN r.batches = {} \/ DOMAIN r.batches = {1}
            \/ DOMAIN r.batches = {1, 2}
        BY <2>1, BatchNumbers DEF RequestType
      <3>2. DOMAIN r.batches \subseteq 1 .. 2
        BY <3>1
      <3>3. S \subseteq 1 .. 2
        BY <3>2
      <3>4. IsFiniteSet(1 .. 2)
        <4>1. 1 \in Int /\ 2 \in Int
          OBVIOUS
        <4>q. QED BY <4>1, FS_Interval, Zenon
      <3> HIDE DEF S
      <3>q. QED BY <3>3, <3>4, FS_Subset
    <2>4. Cardinality(S) <= 1
      <3> HIDE DEF S
      <3>q. QED BY <2>2, <2>3, AtMostOneElement
    <2>5. \A n \in DOMAIN r.batches :
              Stuck(r.batches[n]) => /\ r.status = "pending_review"
                                     /\ task[<<"refund", c, n>>] \in {"open", "claimed"}
      BY <1>1, <2>1 DEF BatchesFit, TaskKnown
    <2>6. r.status = "delayed" <=> task[<<"delay", c>>] \in {"open", "claimed"}
      BY <1>1, <2>1 DEF TaskKnown
    <2>q. QED BY <2>1, <2>2, <2>4, <2>5, <2>6 DEF Stuck
  <1>2. ASSUME NEW i \in Items, Ordered(i)
        PROVE  LET asked == {c \in Changes : c[2] = i /\ Requested(c)}
               IN  /\ order[i].refunded =
                          Sum([c \in asked |-> BatchSum(c, {"succeeded"})])
                   /\ order[i].status = "cancellation_processing" <=> LiveRequest(i)
                   /\ order[i].status = "cancelled" <=>
                          \/ order[i].payment = "closed"
                          \/ \E c \in asked : request[c].status = "completed"
    <2> DEFINE asked == {c \in Changes : c[2] = i /\ Requested(c)}
    <2>1. OrderAddsUp(i)
      BY DEF MoneyIInv, Refunds
    <2>2. (\E p \in Proposals : CompletedAt(p, i))
              <=> \E c \in asked : request[c].status = "completed"
      <3>1. ASSUME NEW p \in Proposals, CompletedAt(p, i)
            PROVE  <<p, i>> \in asked /\ request[<<p, i>>].status = "completed"
        BY <3>1, OpsApart DEF CompletedAt
      <3>2. ASSUME NEW c \in asked, request[c].status = "completed"
            PROVE  c[1] \in Proposals /\ CompletedAt(c[1], i)
        <4>1. c[1] \in Proposals /\ c = <<c[1], i>> /\ Requested(c)
          BY OpsApart
        <4>q. QED BY <3>2, <4>1 DEF CompletedAt
      <3> HIDE DEF asked
      <3>q. QED BY <3>1, <3>2
    <2>3. (\E p \in Proposals : ActiveAt(p, i)) <=> LiveRequest(i)
      BY DEF LiveRequest, ActiveAt
    <2>4. order[i].refunded = Sum([c \in asked |-> BatchSum(c, {"succeeded"})])
      BY <1>2, OrderIsItsBatches
    <2>q. QED BY <1>2, <2>1, <2>2, <2>3, <2>4 DEF OrderAddsUp
  <1>q. QED BY <1>1, <1>2 DEF RefundsAddUp

------------------------------------------------------------------------------
(* What a step leaves of the money alone.                                  *)

LEMMA HeldType ==
    /\ DOMAIN Held = Items /\ Summands(Held) /\ SumOf(Held) \in Nat
    /\ \A i \in Items : Held[i] = HeldAt(i) /\ HeldAt(i) \in Nat
  <1>1. \A i \in Items : HeldAt(i) \in Nat
    BY LegacyAssumption DEF HeldAt
  <1>2. DOMAIN Held = Items /\ \A i \in Items : Held[i] = HeldAt(i)
    BY DEF Held
  <1>3. Summands(Held) /\ SumOf(Held) \in Nat
    BY <1>1, <1>2, ItemSums
  <1>q. QED BY <1>1, <1>2, <1>3

LEMMA HeldTypeNext ==
    /\ DOMAIN Held' = Items /\ Summands(Held') /\ SumOf(Held)' \in Nat
    /\ SumOf(Held)' = SumOf(Held')
    /\ \A i \in Items : Held'[i] = HeldAt(i)' /\ HeldAt(i)' \in Nat
  <1>1. \A i \in Items : HeldAt(i)' \in Nat
    BY LegacyAssumption DEF HeldAt
  <1>2. DOMAIN Held' = Items /\ \A i \in Items : Held'[i] = HeldAt(i)'
    BY DEF Held
  <1>3. Summands(Held') /\ SumOf(Held') \in Nat
    BY <1>1, <1>2, ItemSums
  <1>q. QED BY <1>1, <1>2, <1>3

\* No step but an order holds more, and only a confirmation moves the limit.
LEMMA HeldKept ==
    ASSUME MoneyIInv, plan'.limit = plan.limit, \A i \in Items : HeldAt(i)' <= HeldAt(i)
    PROVE  WithinLimit'
  <1>1. plan.limit \in Nat /\ SumOf(Held) <= plan.limit
    BY LegacyAssumption DEF MoneyIInv, WithinLimit, LegacyIInv, Typed
  <1>2. PICK f, g : f = Held /\ g = Held'
    OBVIOUS
  <1>3. /\ DOMAIN g = DOMAIN f /\ Summands(f) /\ Summands(g)
        /\ \A i \in DOMAIN f : g[i] <= f[i]
    BY <1>2, HeldType, HeldTypeNext
  <1>4. SumOf(g) <= SumOf(f)
    BY <1>3, SumAtMost
  <1>5. SumOf(Held)' <= SumOf(Held) /\ SumOf(Held)' \in Nat /\ SumOf(Held) \in Nat
    BY <1>2, <1>4, HeldType, HeldTypeNext
  <1>q. QED BY <1>1, <1>5 DEF WithinLimit

LEMMA TaskKeysApart ==
    ASSUME NEW c \in Changes, NEW n \in {1, 2}
    PROVE  /\ <<"delay", c>> \in TaskKeys /\ <<"refund", c, n>> \in TaskKeys
           /\ \A o : <<"recheck", o>> # <<"delay", c>> /\ <<"recheck", o>> # <<"refund", c, n>>
           /\ \A d \in Changes, m \in {1, 2} :
                  /\ <<"delay", d>> # <<"refund", c, n>>
                  /\ <<"delay", d>> = <<"delay", c>> => d = c
                  /\ <<"refund", d, m>> = <<"refund", c, n>> => d = c /\ m = n
  BY DEF TaskKeys, Numbers

\* A task that is open may be claimed.
Kept(k) == task'[k] = task[k] \/ (task[k] = "open" /\ task'[k] = "claimed")

LEMMA SameRequest ==
    ASSUME LegacyIInv, NEW c \in Changes, BatchesKnown(c), TaskKnown(c),
           request'[c] = request[c], Kept(<<"delay", c>>),
           \A n \in {1, 2} : Kept(<<"refund", c, n>>)
    PROVE  BatchesKnown(c)' /\ TaskKnown(c)'
  <1>1. Requested(c) => DOMAIN request[c].batches \subseteq {1, 2}
    BY BatchNumbers DEF LegacyIInv, Typed, Requested, RequestType
  <1>2. (Requested(c)' <=> Requested(c)) /\ BatchesKnown(c)'
    BY DEF BatchesKnown, Requested
  <1>3. TaskKnown(c)'
    BY <1>1, <1>2 DEF TaskKnown, Kept
  <1>q. QED BY <1>2, <1>3

LEMMA SameOrder ==
    ASSUME NEW i \in Items, ReservedKnown(i), OrderAddsUp(i), order'[i] = order[i],
           \A p \in Proposals : request'[<<p, i>>] = request[<<p, i>>]
    PROVE  ReservedKnown(i)' /\ OrderAddsUp(i)'
  <1>1. \A p \in Proposals :
            /\ SettlingAt(p, i)' <=> SettlingAt(p, i)
            /\ CompletedAt(p, i)' <=> CompletedAt(p, i)
            /\ ActiveAt(p, i)' <=> ActiveAt(p, i)
            /\ Back(<<p, i>>)' = Back(<<p, i>>)
    BY DEF SettlingAt, CompletedAt, ActiveAt, Requested, Back, BatchSum
  <1>q. QED BY <1>1 DEF ReservedKnown, OrderAddsUp, Ordered

LEMMA RefundsQuiet ==
    ASSUME MoneyIInv, UNCHANGED <<order, request>>,
           \A c \in Changes : Kept(<<"delay", c>>) /\ \A n \in {1, 2} : Kept(<<"refund", c, n>>)
    PROVE  Refunds'
  <1>1. /\ \A c \in Changes : BatchesKnown(c) /\ TaskKnown(c)
        /\ \A i \in Items : ReservedKnown(i) /\ OrderAddsUp(i)
        /\ LegacyIInv
    BY DEF MoneyIInv, Refunds
  <1>2. \A c \in Changes : BatchesKnown(c)' /\ TaskKnown(c)'
    BY <1>1, SameRequest
  <1>3. \A i \in Items : ReservedKnown(i)' /\ OrderAddsUp(i)'
    BY <1>1, SameOrder
  <1>q. QED BY <1>2, <1>3 DEF Refunds

LEMMA MoneyQuiet ==
    ASSUME MoneyIInv, UNCHANGED <<order, request>>, plan'.limit = plan.limit,
           \/ UNCHANGED task
           \/ \E k \in TaskKeys : ClaimTask(k)
           \/ \E o \in Rechecked : RequestRecheck(o)
    PROVE  WithinLimit' /\ Refunds'
  <1>1. \A i \in Items : HeldAt(i)' = HeldAt(i) /\ HeldAt(i) \in Nat
    BY HeldType DEF HeldAt, Ordered
  <1>2. WithinLimit'
    BY <1>1, HeldKept
  <1>3. task \in [TaskKeys -> TaskStates]
    BY DEF MoneyIInv, LegacyIInv, Typed
  <1>4. ASSUME NEW c \in Changes, NEW n \in {1, 2}
        PROVE  Kept(<<"delay", c>>) /\ Kept(<<"refund", c, n>>)
    <2>1. CASE UNCHANGED task
      BY <2>1 DEF Kept
    <2>2. CASE \E k \in TaskKeys : ClaimTask(k)
      BY <1>3, <2>2, TaskKeysApart DEF ClaimTask, Kept
    <2>3. CASE \E o \in Rechecked : RequestRecheck(o)
      <3>1. PICK o : RequestRecheck(o)
        BY <2>3
      <3>2. PICK state : task' = [task EXCEPT ![<<"recheck", o>>] = state]
        BY <3>1 DEF RequestRecheck, ensureManualTask
      <3>q. QED BY <1>3, <3>2, TaskKeysApart DEF Kept
    <2>q. QED BY <2>1, <2>2, <2>3
  <1>5. Refunds'
    BY <1>4, RefundsQuiet
  <1>q. QED BY <1>2, <1>5

LEMMA MoneyInit == Init => MoneyIInv
  <1> SUFFICES ASSUME Init PROVE MoneyIInv
    OBVIOUS
  <1>1. LegacyIInv
    BY LegacyInit
  <1>2. WithinLimit
    <2>1. \A i \in DOMAIN Held : Held[i] = 0
      BY HeldType DEF HeldAt, Ordered, Init
    <2>2. SumOf(Held) = 0
      BY <2>1, HeldType, SumOfZeros
    <2>3. plan.limit \in Nat
      BY LegacyAssumption DEF Init
    <2>q. QED BY <2>2, <2>3 DEF WithinLimit
  <1>3. \A c \in Changes : ~Requested(c) /\ task[<<"delay", c>>] = "none"
    BY TaskKeysApart DEF Init, Requested
  <1>4. \A i \in Items : ~Ordered(i) /\ \A p \in Proposals : ~Requested(<<p, i>>)
    BY <1>3, OpsApart DEF Init, Ordered
  <1>5. Refunds
    BY <1>3, <1>4 DEF Refunds, BatchesKnown, TaskKnown, ReservedKnown, OrderAddsUp, SettlingAt
  <1>q. QED BY <1>1, <1>2, <1>5 DEF MoneyIInv

------------------------------------------------------------------------------
(* The steps of the money.                                                 *)

LEMMA ConfirmPurchaseMoney ==
    ASSUME MoneyIInv, NEW p \in Proposals, ConfirmPurchase(p)
    PROVE  WithinLimit' /\ Refunds'
  <1>1. UNCHANGED <<order, request, task>>
    BY DEF ConfirmPurchase
  <1>2. Refunds'
    BY <1>1, RefundsQuiet DEF Kept
  <1>3. PICK limit \in Limits : LimitHolds(p, limit) /\ plan'.limit = limit
    BY DEF ConfirmPurchase
  <1>4. SumOf(Held) <= limit
    <2>1. LegacyIInv /\ \A i \in Items : ReservedKnown(i)
      BY DEF MoneyIInv, Refunds
    <2>2. budgetForPlan.paid + budgetForPlan.reserved = SumOf(Held)
      BY <2>1, BudgetIs
    <2>3. limit >= budgetForPlan.paid + budgetForPlan.reserved
      BY <1>3 DEF LimitHolds
    <2>4. limit \in Nat /\ SumOf(Held) \in Nat
      BY HeldType, LegacyAssumption
    <2>q. QED BY <2>2, <2>3, <2>4
  <1>5. \A i \in Items : HeldAt(i)' = HeldAt(i)
    BY <1>1 DEF HeldAt, Ordered
  <1>6. Held' = Held
    BY <1>5 DEF Held
  <1>q. QED BY <1>2, <1>3, <1>4, <1>6 DEF WithinLimit

LEMMA OrderMoney ==
    ASSUME MoneyIInv, NEW p \in Proposals, NEW i \in Items, createConfirmedOrder(p, i)
    PROVE  WithinLimit' /\ Refunds'
  <1>1. PICK modes \in Modes[i] :
            order' = [order EXCEPT ![i] =
               [by |-> p, price |-> Price[i], status |-> "created",
                payment |-> "pending", reserved |-> Price[i], refunded |-> 0,
                modes |-> modes]]
    BY DEF createConfirmedOrder
  <1>2. /\ UNCHANGED <<plan, request, task>> /\ ~Ordered(i)
        /\ planSnapshot.remaining >= Price[i]
    BY DEF createConfirmedOrder, consumerVars, Orderable
  <1>3. /\ LegacyIInv /\ WithinLimit /\ order \in [Items -> OrderType \cup {None}]
        /\ \A c \in Changes : BatchesKnown(c) /\ TaskKnown(c)
        /\ \A j \in Items : ReservedKnown(j) /\ OrderAddsUp(j)
    BY DEF MoneyIInv, LegacyIInv, Typed, Refunds
  <1>4. /\ order'[i].payment = "pending" /\ order'[i].reserved = Price[i]
        /\ order'[i].refunded = 0 /\ order'[i].status = "created"
        /\ \A j \in Items \ {i} : order'[j] = order[j]
    BY <1>1, <1>3
  <1>5. HeldAt(i) = 0 /\ HeldAt(i)' <= Price[i] /\ \A j \in Items \ {i} : HeldAt(j)' = HeldAt(j)
    <2>1. Price[i] \in Nat
      BY LegacyAssumption
    <2>q. QED BY <1>2, <1>4, <2>1 DEF HeldAt, Ordered
  <1>6. WithinLimit'
    <2>1. SumOf(Held) + Price[i] <= plan.limit
      <3>1. /\ budgetForPlan.paid + budgetForPlan.reserved = SumOf(Held)
            /\ budgetForPlan.paid \in Nat /\ budgetForPlan.reserved \in Nat
        BY <1>3, BudgetIs
      <3>2. plan.limit - budgetForPlan.paid - budgetForPlan.reserved >= Price[i]
        BY <1>2 DEF planSnapshot
      <3>3. plan.limit \in Nat /\ Price[i] \in Nat
        BY <1>3, LegacyAssumption DEF LegacyIInv, Typed
      <3>q. QED BY <3>1, <3>2, <3>3
    <2>2. PICK f, g : f = Held /\ g = Held'
      OBVIOUS
    <2>3. /\ Summands(f) /\ i \in DOMAIN f /\ DOMAIN g = DOMAIN f /\ g[i] \in Int
          /\ \A j \in DOMAIN f \ {i} : g[j] = f[j]
          /\ f[i] = 0 /\ g[i] <= Price[i]
      BY <1>5, <2>2, HeldType, HeldTypeNext
    <2>4. SumOf(g) = SumOf(f) + g[i] - f[i]
      BY <2>3, SumUpdate
    <2>5. SumOf(Held)' = SumOf(g) /\ SumOf(Held) = SumOf(f) /\ SumOf(f) \in Nat
      BY <2>2, HeldType, HeldTypeNext
    <2>6. plan' = plan /\ plan.limit \in Nat /\ Price[i] \in Nat
      BY <1>2, <1>3, LegacyAssumption DEF LegacyIInv, Typed
    <2>q. QED BY <2>1, <2>3, <2>4, <2>5, <2>6 DEF WithinLimit
  <1>7. \A c \in Changes : BatchesKnown(c)' /\ TaskKnown(c)'
    BY <1>2, <1>3, SameRequest DEF Kept
  <1>8. \A j \in Items \ {i} : ReservedKnown(j)' /\ OrderAddsUp(j)'
    BY <1>2, <1>3, <1>4, SameOrder
  <1>9. ReservedKnown(i)' /\ OrderAddsUp(i)'
    <2>1. \A q \in Proposals : ~Requested(<<q, i>>)'
      BY <1>2, <1>3, OrderBehind DEF Requested
    <2>q. QED BY <1>4, <2>1
              DEF ReservedKnown, OrderAddsUp, SettlingAt, CompletedAt, ActiveAt
  <1>q. QED BY <1>6, <1>7, <1>8, <1>9 DEF Refunds

\* A step of one order of which nobody asked anything back.
LEMMA UnaskedMoney ==
    ASSUME MoneyIInv, NEW i \in Items, Ordered(i), order[i].payment # "paid",
           UNCHANGED <<plan, request, task>>, Ordered(i)',
           \A j \in Items \ {i} : order'[j] = order[j],
           order[i].payment # "closed",
           order'[i].refunded = order[i].refunded,
           order'[i].payment \in {"pending", "unknown"} =>
               /\ order[i].payment \in {"pending", "unknown"}
               /\ order'[i].reserved = order[i].reserved,
           \/ order'[i].status = "cancelled" /\ order'[i].payment = "closed"
           \/ order'[i].status = "fulfilling" /\ order'[i].payment # "closed"
           \/ order'[i].status = order[i].status /\ order'[i].payment # "closed"
    PROVE  WithinLimit' /\ Refunds'
  <1>1. /\ LegacyIInv
        /\ \A c \in Changes : BatchesKnown(c) /\ TaskKnown(c)
        /\ \A j \in Items : ReservedKnown(j) /\ OrderAddsUp(j)
    BY DEF MoneyIInv, Refunds
  <1>2. \A p \in Proposals : ~Requested(<<p, i>>) /\ ~Requested(<<p, i>>)'
    <2>1. \A p \in Proposals : RequestKnown(p, i)
      BY <1>1 DEF LegacyIInv, Carried
    <2>q. QED BY <2>1 DEF RequestKnown, Requested
  <1>3. \A j \in Items : HeldAt(j)' <= HeldAt(j)
    <2>1. Price \in [Items -> Nat]
      BY LegacyAssumption
    <2>q. QED BY <2>1 DEF HeldAt, Ordered
  <1>4. WithinLimit'
    BY <1>3, HeldKept
  <1>5. \A c \in Changes : BatchesKnown(c)' /\ TaskKnown(c)'
    BY <1>1, SameRequest DEF Kept
  <1>6. \A j \in Items \ {i} : ReservedKnown(j)' /\ OrderAddsUp(j)'
    BY <1>1, SameOrder
  <1>7. ReservedKnown(i)' /\ OrderAddsUp(i)'
    <2>1. ReservedKnown(i) /\ OrderAddsUp(i)
      BY <1>1
    <2>2. ReservedKnown(i)'
      BY <2>1 DEF ReservedKnown
    <2>3. order[i].refunded = 0 /\ order[i].status # "cancelled"
          /\ order[i].status # "cancellation_processing"
      BY <1>2, <2>1 DEF OrderAddsUp, SettlingAt, CompletedAt, ActiveAt
    <2>q. QED BY <1>2, <2>2, <2>3 DEF OrderAddsUp, SettlingAt, CompletedAt, ActiveAt
  <1>q. QED BY <1>4, <1>5, <1>6, <1>7 DEF Refunds

LEMMA PaymentMoney ==
    ASSUME MoneyIInv, NEW i \in Items, processPayment(i) PROVE WithinLimit' /\ Refunds'
  <1>1. /\ Ordered(i) /\ order[i] \in OrderType
        /\ order \in [Items -> OrderType \cup {None}]
        /\ UNCHANGED <<plan, request, task>>
    BY DEF processPayment, consumerVars, MoneyIInv, LegacyIInv, Carried, Typed, PayKnown,
       Ordered
  <1>2. CASE UNCHANGED order
    BY <1>1, <1>2, MoneyQuiet
  <1>3. CASE order[i].payment = "pending"
             /\ order' = [order EXCEPT ![i].payment = "paid", ![i].status = "fulfilling"]
    <2>1. order'[i] = [by |-> order[i].by, price |-> order[i].price,
                       status |-> "fulfilling", payment |-> "paid",
                       reserved |-> order[i].reserved,
                       refunded |-> order[i].refunded, modes |-> order[i].modes]
      <3>1. order'[i] = [order[i] EXCEPT !.payment = "paid", !.status = "fulfilling"]
        BY <1>1, <1>3
      <3>q. QED BY <1>1, <3>1, OrderFields, ZenonT(30)
    <2>2. /\ order'[i].payment = "paid" /\ order'[i].status = "fulfilling"
          /\ order'[i].refunded = order[i].refunded /\ order'[i] # None
          /\ \A j \in Items \ {i} : order'[j] = order[j]
      BY <1>1, <1>3, <2>1 DEF None
    <2>q. QED BY <1>1, <1>3, <2>2, UnaskedMoney DEF Ordered
  <1>4. ASSUME NEW payment \in {"pending", "unknown"}, order[i].payment = "pending",
               order' = [order EXCEPT ![i].payment = payment]
        PROVE  WithinLimit' /\ Refunds'
    <2>1. order'[i] = [by |-> order[i].by, price |-> order[i].price,
                       status |-> order[i].status, payment |-> payment,
                       reserved |-> order[i].reserved,
                       refunded |-> order[i].refunded, modes |-> order[i].modes]
      BY <1>1, <1>4 DEF OrderType
    <2>2. /\ order'[i].payment = payment /\ order'[i].status = order[i].status
          /\ order'[i].reserved = order[i].reserved
          /\ order'[i].refunded = order[i].refunded /\ order'[i] # None
          /\ \A j \in Items \ {i} : order'[j] = order[j]
      BY <1>1, <1>4, <2>1 DEF None
    <2>q. QED BY <1>1, <1>4, <2>2, UnaskedMoney DEF Ordered
  <1>q. QED BY <1>2, <1>3, <1>4 DEF processPayment

LEMMA CloseMoney ==
    ASSUME MoneyIInv, NEW c \in Changes, processClose(c) PROVE WithinLimit' /\ Refunds'
  <1>1. PICK p \in Proposals, i \in Items : c = <<p, i>>
    BY DEF Changes
  <1>2. /\ Ordered(i) /\ order[i] \in OrderType
        /\ order \in [Items -> OrderType \cup {None}]
        /\ UNCHANGED <<plan, request, task>>
    <2>1. op[<<"change", c>>] = "accepted" /\ LegacyIInv
      BY DEF processClose, MoneyIInv
    <2>2. Ordered(i)
      BY <1>1, <2>1, OrderBehind
    <2>q. QED BY <2>1, <2>2 DEF processClose, consumerVars, LegacyIInv, Typed, Ordered
  <1>3. CASE UNCHANGED order
    BY <1>2, <1>3, MoneyQuiet
  <1>4. CASE /\ order[i].payment \in {"pending", "unknown"}
             /\ order' = [order EXCEPT ![i].payment = "closed", ![i].status = "cancelled",
                                       ![i].reserved = 0]
    <2>1. order'[i] = [by |-> order[i].by, price |-> order[i].price, status |-> "cancelled",
                       payment |-> "closed", reserved |-> 0,
                       refunded |-> order[i].refunded, modes |-> order[i].modes]
      <3>1. order'[i] = [order[i] EXCEPT !.payment = "closed", !.status = "cancelled",
                                         !.reserved = 0]
        BY <1>2, <1>4
      <3>q. QED BY <1>2, <3>1, OrderShut
    <2>2. /\ order'[i].payment = "closed" /\ order'[i].status = "cancelled"
          /\ order'[i].refunded = order[i].refunded /\ order'[i] # None
          /\ \A j \in Items \ {i} : order'[j] = order[j]
      BY <1>2, <1>4, <2>1 DEF None
    <2>q. QED BY <1>2, <1>4, <2>2, UnaskedMoney DEF Ordered
  <1>q. QED BY <1>1, <1>3, <1>4 DEF processClose

\* An order of which one request at most counts adds up with that one.
LEMMA OneRequest ==
    ASSUME NEW p \in Proposals, NEW i \in Items,
           \A q \in Proposals \ {p} :
               ~SettlingAt(q, i) /\ request'[<<q, i>>] = request[<<q, i>>],
           Ordered(i)',
           SettlingAt(p, i)' => order'[i].refunded = Back(<<p, i>>)',
           ~SettlingAt(p, i)' => order'[i].refunded = 0,
           order'[i].status = "cancellation_processing" <=> ActiveAt(p, i)',
           order'[i].status = "cancelled"
               <=> order'[i].payment = "closed" \/ CompletedAt(p, i)'
    PROVE  OrderAddsUp(i)'
  <1>1. \A q \in Proposals \ {p} :
            ~SettlingAt(q, i)' /\ ~ActiveAt(q, i)' /\ ~CompletedAt(q, i)'
    BY DEF SettlingAt, ActiveAt, CompletedAt, Requested, Active
  <1>q. QED BY <1>1 DEF OrderAddsUp

\* An order that nobody asked anything back of, or that was refused it.
LEMMA NothingSettles ==
    ASSUME MoneyIInv, NEW i \in Items, Ordered(i), order[i].refunded = 0, ~LiveRequest(i)
    PROVE  \A q \in Proposals : ~SettlingAt(q, i)
  <1>1. ASSUME NEW q \in Proposals, SettlingAt(q, i) PROVE FALSE
    <2>1. Requested(<<q, i>>) /\ request[<<q, i>>].status # "rejected"
          /\ <<q, i>> \in Changes
      BY <1>1, OpsApart DEF SettlingAt
    <2>2. request[<<q, i>>] \in RequestType
      BY <2>1 DEF MoneyIInv, LegacyIInv, Typed, Requested
    <2>3. request[<<q, i>>].status \in Active \cup {"completed"}
      BY <2>1, <2>2 DEF RequestType, Active
    <2>4. ~CompletedAt(q, i)
      BY OrderBack
    <2>q. QED BY <2>1, <2>3, <2>4 DEF CompletedAt, LiveRequest
  <1>q. QED BY <1>1

LEMMA SubmitMoney ==
    ASSUME MoneyIInv, NEW p \in Proposals, submitConfirmedChange(p)
    PROVE  WithinLimit' /\ Refunds'
  <1> DEFINE lines == proposal[p].lines
  <1>1. /\ LegacyIInv /\ WithinLimit /\ UNCHANGED plan
        /\ task \in [TaskKeys -> TaskStates]
        /\ \A c \in Changes : BatchesKnown(c) /\ TaskKnown(c)
        /\ \A i \in Items : ReservedKnown(i) /\ OrderAddsUp(i)
    BY DEF submitConfirmedChange, MoneyIInv, Refunds, LegacyIInv, Typed
  <1>2. /\ \A i \in Items : ~Requested(<<p, i>>)
        /\ \A i \in Items : IF Cancels(p, i) THEN StatusMoves(i) ELSE order'[i] = order[i]
        /\ \A i \in Items : request'[<<p, i>>] =
               IF Cancels(p, i) THEN NewRequest(lines[i]) ELSE None
        /\ \A q \in Proposals \ {p}, i \in Items : request'[<<q, i>>] = request[<<q, i>>]
    BY <1>1, SubmitEffect
  <1>3. ASSUME NEW i \in Items, Cancels(p, i)
        PROVE  /\ lines[i] \in Line /\ CancelHolds(i, lines[i]) /\ Ordered(i)
               /\ order'[i].status = IF Decision(lines[i].rule.rule) = "rejected"
                                     THEN "cancellation_rejected"
                                     ELSE "cancellation_processing"
    <2>1. /\ lines[i] \in Line /\ LineHolds(i, lines[i]) /\ lines[i].intent = "cancel"
          /\ StatusMoves(i)
          /\ order'[i].status = IF Decision(lines[i].rule.rule) = "rejected"
                                     THEN "cancellation_rejected"
                                     ELSE "cancellation_processing"
      BY <1>1, <1>3, SubmitEffect DEF Cancels
    <2> HIDE DEF lines
    <2>q. QED BY <2>1 DEF LineHolds, StatusMoves
  <1>4. /\ \A q \in Proposals, i \in Items : task'[<<"delay", <<q, i>>>>] =
               IF q = p /\ Cancels(p, i) /\ Decision(lines[i].rule.rule) = "delayed"
               THEN "open" ELSE task[<<"delay", <<q, i>>>>]
        /\ \A c \in Changes, n \in {1, 2} :
               task'[<<"refund", c, n>>] = task[<<"refund", c, n>>]
    <2>1. PICK L : L = lines
      OBVIOUS
    <2>2. task' = [k \in TaskKeys |->
               IF /\ k[1] = "delay" /\ k[2][1] = p
                  /\ k[2][2] \in {i \in DOMAIN L : L[i].intent = "cancel"}
                  /\ Decision(L[k[2][2]].rule.rule) = "delayed"
               THEN "open" ELSE task[k]]
      BY <2>1 DEF submitConfirmedChange
    <2>3. \A q \in Proposals, i \in Items :
              Cancels(q, i) /\ q = p <=> i \in {j \in DOMAIN L : L[j].intent = "cancel"} /\ q = p
      BY <2>1 DEF Cancels
    <2>4. \A c \in Changes, n \in {1, 2} :
              task'[<<"refund", c, n>>] = task[<<"refund", c, n>>]
      BY <2>2, TaskKeysApart
    <2>5. \A q \in Proposals, i \in Items : task'[<<"delay", <<q, i>>>>] =
               IF q = p /\ Cancels(q, i) /\ Decision(L[i].rule.rule) = "delayed"
               THEN "open" ELSE task[<<"delay", <<q, i>>>>]
      BY <2>2, <2>3, TaskKeysApart, OpsApart
    <2>q. QED BY <2>1, <2>4, <2>5
  <1> HIDE DEF lines
  <1>5. ASSUME NEW i \in Items, Cancels(p, i)
        PROVE  /\ request'[<<p, i>>] = NewRequest(lines[i]) /\ Requested(<<p, i>>)'
               /\ NewRequest(lines[i]) \in RequestType
               /\ NewRequest(lines[i]).status \in {"rejected", "delayed", "approved"}
               /\ NewRequest(lines[i]).status = "rejected"
                      <=> Decision(lines[i].rule.rule) = "rejected"
               /\ NewRequest(lines[i]).status = "delayed"
                      <=> Decision(lines[i].rule.rule) = "delayed"
               /\ DOMAIN NewRequest(lines[i]).batches = {}
    BY <1>2, <1>3, <1>5, NewRequestType DEF Requested
  <1>6. ASSUME NEW q \in Proposals, NEW i \in Items
        PROVE  BatchesKnown(<<q, i>>)' /\ TaskKnown(<<q, i>>)'
    <2>0. <<q, i>> \in Changes
      BY OpsApart
    <2>1. CASE q # p
      <3>1. request'[<<q, i>>] = request[<<q, i>>] /\ Kept(<<"delay", <<q, i>>>>)
            /\ \A n \in {1, 2} : Kept(<<"refund", <<q, i>>, n>>)
        BY <1>2, <1>4, <2>0, <2>1 DEF Kept
      <3>q. QED BY <1>1, <2>0, <3>1, SameRequest
    <2>2. CASE q = p /\ ~Cancels(p, i)
      <3>1. ~Requested(<<q, i>>)' /\ ~Requested(<<q, i>>)
        BY <1>2, <2>2 DEF Requested
      <3>2. task'[<<"delay", <<q, i>>>>] = "none"
        BY <1>1, <1>4, <2>0, <2>2, <3>1 DEF TaskKnown
      <3>q. QED BY <3>1, <3>2 DEF BatchesKnown, TaskKnown
    <2>3. CASE q = p /\ Cancels(p, i)
      <3>1. task[<<"delay", <<q, i>>>>] = "none"
        BY <1>1, <1>2, <2>0, <2>3 DEF TaskKnown
      <3>2. PICK r : r = NewRequest(lines[i])
        OBVIOUS
      <3>3. /\ request'[<<q, i>>] = r /\ Requested(<<q, i>>)' /\ DOMAIN r.batches = {}
            /\ r.status \in {"rejected", "delayed", "approved"}
            /\ r.status = "delayed" <=> Decision(lines[i].rule.rule) = "delayed"
        BY <1>5, <2>3, <3>2
      <3>4. BatchesKnown(<<q, i>>)'
        BY <3>3 DEF BatchesKnown, BatchesFit, AllBack
      <3>5. TaskKnown(<<q, i>>)'
        BY <1>4, <2>3, <3>1, <3>3 DEF TaskKnown
      <3>q. QED BY <3>4, <3>5
    <2>q. QED BY <2>1, <2>2, <2>3
  <1>7. ASSUME NEW i \in Items
        PROVE  ReservedKnown(i)' /\ OrderAddsUp(i)' /\ HeldAt(i)' <= HeldAt(i)
    <2>0. HeldAt(i) \in Nat
      BY HeldType
    <2>1. CASE ~Cancels(p, i)
      <3>1. order'[i] = order[i] /\ \A q \in Proposals : request'[<<q, i>>] = request[<<q, i>>]
        BY <1>2, <2>1 DEF Requested
      <3>2. ReservedKnown(i)' /\ OrderAddsUp(i)'
        BY <1>1, <3>1, SameOrder
      <3>q. QED BY <2>0, <3>1, <3>2 DEF HeldAt, Ordered
    <2>2. CASE Cancels(p, i)
      <3>1. /\ StatusMoves(i) /\ CancelHolds(i, lines[i]) /\ Ordered(i) /\ Ordered(i)'
            /\ order'[i].status = IF Decision(lines[i].rule.rule) = "rejected"
                                  THEN "cancellation_rejected"
                                  ELSE "cancellation_processing"
        BY <1>2, <1>3, <2>2, NothingIsNone DEF StatusMoves, Ordered
      <3>2. /\ order'[i].payment = "paid" /\ order'[i].refunded = 0
            /\ order[i].payment = "paid" /\ order[i].refunded = 0 /\ ~LiveRequest(i)
        BY <3>1 DEF StatusMoves, CancelHolds
      <3>3. \A q \in Proposals : ~SettlingAt(q, i)
        BY <3>1, <3>2, NothingSettles
      <3>4. Back(<<p, i>>)' = 0
        <4>1. request'[<<p, i>>].batches \in BatchesType
              /\ DOMAIN request'[<<p, i>>].batches = {}
          BY <1>5, <2>2 DEF RequestType
        <4>2. <<p, i>> \in Changes
          BY OpsApart
        <4>3. BatchSum(<<p, i>>, {"succeeded"})' = PartSum(request'[<<p, i>>].batches, {"succeeded"})
          BY <4>1, <4>2, BatchSumIsNext
        <4>q. QED BY <4>1, <4>3 DEF Back, PartSum, Part
      <3>5. /\ order'[i].status = "cancellation_processing" <=> ActiveAt(p, i)'
            /\ ~CompletedAt(p, i)'
        BY <1>5, <2>2, <3>1 DEF ActiveAt, CompletedAt, Active
      <3>6. OrderAddsUp(i)'
        BY <1>2, <3>1, <3>2, <3>3, <3>4, <3>5, OneRequest
      <3>q. QED BY <2>0, <3>1, <3>2, <3>6 DEF ReservedKnown, HeldAt
    <2>q. QED BY <2>1, <2>2
  <1>8. WithinLimit'
    BY <1>1, <1>7, HeldKept
  <1>9. Refunds'
    <2>1. \A c \in Changes : BatchesKnown(c)' /\ TaskKnown(c)'
      BY <1>6, OpsApart
    <2>q. QED BY <1>7, <2>1 DEF Refunds
  <1>q. QED BY <1>8, <1>9

\* A step of one request and of its order, of which the batches are known.
LEMMA RequestMoney ==
    ASSUME MoneyIInv, NEW p \in Proposals, NEW i \in Items, NEW r \in RequestType,
           Requested(<<p, i>>), r.batches \in BatchesType, UNCHANGED plan,
           request' = [request EXCEPT ![<<p, i>>] = r],
           SettlingAt(p, i), BatchesFit(r),
           \A k \in TaskKeys : Kept(k) \/ k = <<"delay", <<p, i>>>>
                               \/ \E n \in {1, 2} : k = <<"refund", <<p, i>>, n>>,
           r.status # "delayed", task'[<<"delay", <<p, i>>>>] \notin {"open", "claimed"},
           \A n \in DOMAIN r.batches : Stuck(r.batches[n]) =>
               task'[<<"refund", <<p, i>>, n>>] \in {"open", "claimed"},
           \A j \in Items \ {i} : order'[j] = order[j],
           Ordered(i), Ordered(i)', order'[i].payment = order[i].payment,
           order'[i].refunded = IF r.status = "rejected" THEN 0 ELSE Returned(r),
           order'[i].status = "cancellation_processing" <=> r.status \in Active,
           order'[i].status = "cancelled" <=> r.status = "completed"
    PROVE  WithinLimit' /\ Refunds'
  <1> DEFINE c == <<p, i>>
  <1>1. /\ LegacyIInv /\ c \in Changes /\ request \in [Changes -> RequestType \cup {None}]
        /\ \A d \in Changes : BatchesKnown(d) /\ TaskKnown(d)
        /\ \A j \in Items : ReservedKnown(j) /\ OrderAddsUp(j)
    BY OpsApart DEF MoneyIInv, LegacyIInv, Typed, Refunds
  <1>2. /\ request'[c] = r /\ Requested(c)'
        /\ \A d \in Changes \ {c} : request'[d] = request[d]
    BY <1>1, NothingIsNone DEF Requested
  <1>3. order[i].payment = "paid" /\ order'[i].payment = "paid"
    BY <1>1 DEF LegacyIInv, Carried, RequestKnown
  <1>4. \A j \in Items : HeldAt(j)' <= HeldAt(j)
    <2>1. \A j \in Items : HeldAt(j)' = HeldAt(j) /\ HeldAt(j) \in Nat
      BY HeldType DEF HeldAt, Ordered
    <2>q. QED BY <2>1
  <1>5. WithinLimit'
    BY <1>4, HeldKept
  <1>6. ASSUME NEW d \in Changes \ {c} PROVE BatchesKnown(d)' /\ TaskKnown(d)'
    <2>1. Kept(<<"delay", d>>) /\ \A n \in {1, 2} : Kept(<<"refund", d, n>>)
      BY <1>1, TaskKeysApart
    <2>q. QED BY <1>1, <1>2, <2>1, SameRequest
  <1>7. BatchesKnown(c)' /\ TaskKnown(c)'
    BY <1>2 DEF BatchesKnown, TaskKnown
  <1>8. ASSUME NEW j \in Items \ {i} PROVE ReservedKnown(j)' /\ OrderAddsUp(j)'
    <2>1. \A q \in Proposals : request'[<<q, j>>] = request[<<q, j>>]
      BY <1>2, OpsApart
    <2>q. QED BY <1>1, <2>1, SameOrder
  <1>9. ReservedKnown(i)'
    BY <1>3 DEF ReservedKnown
  <1>10. OrderAddsUp(i)'
    <2>1. \A q \in Proposals \ {p} :
              ~SettlingAt(q, i) /\ request'[<<q, i>>] = request[<<q, i>>]
      <3>1. \A q \in Proposals \ {p} : <<q, i>> \in Changes \ {c}
        BY OpsApart
      <3>q. QED BY <1>1, <1>2, <3>1 DEF OrderAddsUp
    <2>2. Back(c)' = Returned(r)
      <3>1. BatchSum(c, {"succeeded"})' = PartSum(request'[c].batches, {"succeeded"})
        BY <1>1, <1>2, BatchSumIsNext
      <3>q. QED BY <1>2, <3>1 DEF Back, Returned
    <2>3. /\ SettlingAt(p, i)' <=> r.status # "rejected"
          /\ ActiveAt(p, i)' <=> r.status \in Active
          /\ CompletedAt(p, i)' <=> r.status = "completed"
      BY <1>2 DEF SettlingAt, ActiveAt, CompletedAt
    <2>q. QED BY <1>3, <2>1, <2>2, <2>3, OneRequest
  <1>11. Refunds'
    <2>1. \A d \in Changes : BatchesKnown(d)' /\ TaskKnown(d)'
      BY <1>6, <1>7
    <2>2. \A j \in Items : ReservedKnown(j)' /\ OrderAddsUp(j)'
      BY <1>8, <1>9, <1>10
    <2>q. QED BY <2>1, <2>2 DEF Refunds
  <1>q. QED BY <1>5, <1>11

\* What is known of a request before a step of it.
LEMMA RequestBefore ==
    ASSUME MoneyIInv, NEW p \in Proposals, NEW i \in Items, Requested(<<p, i>>),
           request[<<p, i>>].status \notin {"rejected", "completed"}
    PROVE  /\ request[<<p, i>>] \in RequestType /\ request[<<p, i>>].batches \in BatchesType
           /\ SettlingAt(p, i) /\ BatchesFit(request[<<p, i>>]) /\ Ordered(i)
           /\ order[i] \in OrderType /\ order \in [Items -> OrderType \cup {None}]
           /\ order[i].refunded = Returned(request[<<p, i>>])
           /\ order[i].status = "cancellation_processing"
           /\ task \in [TaskKeys -> TaskStates]
           /\ request[<<p, i>>].status = "delayed"
                  <=> task[<<"delay", <<p, i>>>>] \in {"open", "claimed"}
           /\ BatchSum(<<p, i>>, {"succeeded"}) = Returned(request[<<p, i>>])
  <1>1. LegacyIInv /\ <<p, i>> \in Changes /\ OrderAddsUp(i) /\ TaskKnown(<<p, i>>)
    BY OpsApart DEF MoneyIInv, Refunds
  <1>2. /\ request[<<p, i>>] \in RequestType /\ BatchesFit(request[<<p, i>>])
        /\ BatchSum(<<p, i>>, {"succeeded"}) = Returned(request[<<p, i>>])
        /\ Back(<<p, i>>) = Returned(request[<<p, i>>])
    BY <1>1, RequestFits DEF Returned
  <1>3. SettlingAt(p, i) /\ ActiveAt(p, i) /\ Ordered(i)
    BY <1>1, <1>2, OrderBehind DEF SettlingAt, ActiveAt, Active, RequestType
  <1>4. order[i].refunded = Back(<<p, i>>) /\ order[i].status = "cancellation_processing"
    BY <1>1, <1>3 DEF OrderAddsUp
  <1>q. QED BY <1>1, <1>2, <1>3, <1>4
            DEF LegacyIInv, Typed, Ordered, TaskKnown, RequestType

LEMMA DecideMoney ==
    ASSUME MoneyIInv, NEW c \in Changes, DecideCancellation(c)
    PROVE  WithinLimit' /\ Refunds'
  <1>1. PICK p \in Proposals, i \in Items : c = <<p, i>>
    BY DEF Changes
  <1>2. /\ Requested(c) /\ request[c].status = "delayed" /\ UNCHANGED plan
        /\ task' = [task EXCEPT ![<<"delay", c>>] = "resolved"]
    BY DEF DecideCancellation, consumerVars
  <1>3. /\ request[c] \in RequestType /\ request[c].batches \in BatchesType
        /\ SettlingAt(p, i) /\ BatchesFit(request[c]) /\ Ordered(i)
        /\ order[i] \in OrderType /\ order \in [Items -> OrderType \cup {None}]
        /\ order[i].refunded = Returned(request[c])
        /\ order[i].status = "cancellation_processing"
        /\ task \in [TaskKeys -> TaskStates]
    BY <1>1, <1>2, RequestBefore
  <1>4. DOMAIN request[c].batches = {} /\ Returned(request[c]) = 0
    BY <1>2, <1>3, RequestSums DEF BatchesFit
  <1>5. PICK decision \in {"approved", "rejected"} :
            /\ request' = [request EXCEPT ![c].status = decision]
            /\ order' = IF decision = "rejected"
                        THEN [order EXCEPT ![i].status = "cancellation_rejected"]
                        ELSE order
    BY <1>1 DEF DecideCancellation
  <1> DEFINE r == [status |-> decision, rule |-> request[c].rule, fee |-> request[c].fee,
                   refund |-> request[c].refund, batches |-> request[c].batches]
  <1>6. request' = [request EXCEPT ![c] = r]
    <2>1. [request[c] EXCEPT !.status = decision] = r
      BY <1>3 DEF RequestType
    <2>q. QED BY <1>5, <2>1
  <1>7. /\ r \in RequestType /\ r.batches = request[c].batches /\ r.status = decision
    BY <1>3 DEF RequestType
  <1> HIDE DEF r
  <1>8. BatchesFit(r) /\ \A n \in DOMAIN r.batches : ~Stuck(r.batches[n])
    BY <1>4, <1>7 DEF BatchesFit, AllBack
  <1>9. Returned(r) = 0
    BY <1>4, <1>7 DEF Returned
  <1>10. /\ Ordered(i)' /\ order'[i].payment = order[i].payment /\ order'[i].refunded = 0
         /\ order'[i].status = IF decision = "rejected" THEN "cancellation_rejected"
                               ELSE "cancellation_processing"
         /\ \A j \in Items \ {i} : order'[j] = order[j]
    <2>1. CASE decision = "rejected"
      <3>1. order'[i] = [order[i] EXCEPT !.status = "cancellation_rejected"]
            /\ \A j \in Items \ {i} : order'[j] = order[j]
        BY <1>3, <1>5, <2>1
      <3>2. StatusMoves(i) /\ order'[i].status = "cancellation_rejected"
        BY <1>3, <3>1, StatusSet DEF MoneyIInv
      <3>q. QED BY <1>3, <1>4, <2>1, <3>1, <3>2, NothingIsNone DEF StatusMoves, Ordered
    <2>2. CASE decision = "approved"
      BY <1>3, <1>4, <1>5, <2>2 DEF Ordered
    <2>q. QED BY <2>1, <2>2
  <1>11. /\ \A k \in TaskKeys : Kept(k) \/ k = <<"delay", c>>
         /\ task'[<<"delay", c>>] = "resolved"
    BY <1>2, <1>3, TaskKeysApart DEF Kept
  <1>q. QED BY <1>1, <1>2, <1>3, <1>6, <1>7, <1>8, <1>9, <1>10, <1>11, RequestMoney
            DEF Active

LEMMA ScheduleMoney ==
    ASSUME MoneyIInv, NEW c \in Changes, ScheduleBatch(c)
    PROVE  WithinLimit' /\ Refunds'
  <1>1. PICK p \in Proposals, i \in Items : c = <<p, i>>
    BY DEF Changes
  <1>2. /\ request[c].status \in {"approved", "refund_processing"} /\ Requested(c)
        /\ UNCHANGED <<plan, order, task>> /\ request[c].refund > 0
        /\ request[c].rule = "two_batches" => request[c].refund % 2 = 0
        /\ ~BatchRunning(c)
    BY DEF ScheduleBatch, MaySchedule, consumerVars, cancellationRuleDetails
  <1>3. /\ request[c] \in RequestType /\ request[c].batches \in BatchesType
        /\ SettlingAt(p, i) /\ BatchesFit(request[c]) /\ Ordered(i)
        /\ order[i].refunded = Returned(request[c])
        /\ order[i].status = "cancellation_processing"
        /\ task \in [TaskKeys -> TaskStates]
        /\ task[<<"delay", c>>] \notin {"open", "claimed"}
    BY <1>1, <1>2, RequestBefore
  <1>4. PICK number \in {1, 2}, amount \in Nat, batches \in BatchesType :
            Scheduled(c, number, amount, batches)
    BY ScheduleEffect DEF MoneyIInv
  <1> DEFINE r == [status |-> "refund_processing", rule |-> request[c].rule,
                   fee |-> request[c].fee, refund |-> request[c].refund,
                   batches |-> batches]
  <1>5. /\ request' = [request EXCEPT ![c] = r] /\ r \in RequestType
        /\ r.status = "refund_processing" /\ r.batches = batches
        /\ r.rule = request[c].rule /\ r.refund = request[c].refund
    BY <1>3, <1>4 DEF Scheduled, RequestType
  <1> HIDE DEF r
  <1>6. /\ \A n \in DOMAIN request[c].batches : request[c].batches[n].status = "succeeded"
        /\ \A n \in DOMAIN request[c].batches : batches[n] = request[c].batches[n]
        /\ batches[number] = [amount |-> amount, status |-> "pending"]
        /\ DOMAIN batches = DOMAIN request[c].batches \cup {number}
        /\ amount = Portion(r)
        /\ \/ number = 1 /\ DOMAIN request[c].batches = {}
           \/ /\ number = 2 /\ DOMAIN request[c].batches = {1}
              /\ request[c].rule = "two_batches"
    <2>1. \A n \in DOMAIN request[c].batches : request[c].batches[n] \in BatchType
      BY <1>3, BatchNumbers
    <2>2. \A n \in DOMAIN request[c].batches : request[c].batches[n].status = "succeeded"
      BY <1>2, <2>1 DEF BatchRunning, BatchType, Unsettled
    <2>q. QED BY <1>4, <1>5, <2>2 DEF Scheduled, Portion
  <1>7. \A n \in DOMAIN request[c].batches : request[c].batches[n].amount = Portion(r)
    BY <1>3, <1>5 DEF BatchesFit, Portion
  <1>8. BatchesFit(r) /\ \A n \in DOMAIN batches : ~Stuck(batches[n])
    <2>1. /\ \A n \in DOMAIN batches : batches[n].amount = Portion(r)
          /\ \A n \in DOMAIN batches : ~Stuck(batches[n])
          /\ 2 \in DOMAIN batches =>
                 request[c].rule = "two_batches" /\ batches[1].status = "succeeded"
          /\ DOMAIN batches # {}
      BY <1>6, <1>7 DEF Stuck
    <2>2. ~AllBack(r)
      BY <1>5, <1>6 DEF AllBack, LastBatch
    <2>q. QED BY <1>2, <1>5, <2>1, <2>2 DEF BatchesFit
  <1>9. Returned(r) = Returned(request[c])
    <2>1. /\ Part(batches, 1, {"succeeded"}) = Part(request[c].batches, 1, {"succeeded"})
          /\ Part(batches, 2, {"succeeded"}) = Part(request[c].batches, 2, {"succeeded"})
      BY <1>6 DEF Part
    <2>q. QED BY <1>5, <2>1 DEF Returned, PartSum
  <1>10. Ordered(i)' /\ \A k \in TaskKeys : Kept(k)
    BY <1>2, <1>3 DEF Ordered, Kept
  <1>q. QED BY <1>1, <1>2, <1>3, <1>5, <1>8, <1>9, <1>10, RequestMoney DEF Active

LEMMA RefundMoney ==
    ASSUME MoneyIInv, NEW c \in Changes, NEW n \in Numbers, processRefundBatch(c, n)
    PROVE  WithinLimit' /\ Refunds'
  <1>1. PICK p \in Proposals, i \in Items : c = <<p, i>>
    BY DEF Changes
  <1>2. /\ Requested(c) /\ n \in DOMAIN request[c].batches /\ n \in {1, 2}
        /\ request[c].batches[n].status = "pending"
        /\ request[c].status \in {"approved", "refund_processing"}
        /\ UNCHANGED plan
    BY RefundEffect DEF MoneyIInv, Numbers
  <1>3. PICK mark \in {"unknown", "pending_review", "succeeded"},
             status \in {"refund_processing", "pending_review", "completed"},
             batches \in BatchesType : Settled(c, n, mark, status, batches)
    BY RefundEffect DEF MoneyIInv
  <1>4. /\ request[c] \in RequestType /\ request[c].batches \in BatchesType
        /\ SettlingAt(p, i) /\ BatchesFit(request[c]) /\ Ordered(i)
        /\ order[i] \in OrderType /\ order \in [Items -> OrderType \cup {None}]
        /\ order[i].refunded = Returned(request[c])
        /\ order[i].status = "cancellation_processing"
        /\ task \in [TaskKeys -> TaskStates]
        /\ task[<<"delay", c>>] \notin {"open", "claimed"}
        /\ BatchSum(c, {"succeeded"}) = Returned(request[c])
    BY <1>1, <1>2, RequestBefore
  <1> DEFINE r == [status |-> status, rule |-> request[c].rule, fee |-> request[c].fee,
                   refund |-> request[c].refund, batches |-> batches]
  <1>5. /\ request' = [request EXCEPT ![c] = r] /\ r \in RequestType
        /\ r.status = status /\ r.batches = batches
        /\ r.rule = request[c].rule /\ r.refund = request[c].refund
    BY <1>3, <1>4 DEF Settled, Answered, RequestType
  <1> HIDE DEF r
  <1>6. /\ DOMAIN batches = DOMAIN request[c].batches
        /\ batches[n].amount = request[c].batches[n].amount /\ batches[n].status = mark
        /\ \A m \in DOMAIN batches \ {n} : batches[m] = request[c].batches[m]
        /\ \A m \in DOMAIN batches : batches[m].amount = Portion(r)
        /\ Portion(r) = request[c].batches[n].amount
        /\ \A m \in DOMAIN batches \ {n} : batches[m].status = "succeeded"
    <2>1. /\ DOMAIN batches = DOMAIN request[c].batches
          /\ batches[n] = [amount |-> request[c].batches[n].amount, status |-> mark]
          /\ \A m \in DOMAIN batches \ {n} : batches[m] = request[c].batches[m]
      BY <1>3 DEF Settled, Answered
    <2>2. Portion(r) = Portion(request[c])
      BY <1>5 DEF Portion
    <2>3. \A m \in DOMAIN request[c].batches : request[c].batches[m].amount = Portion(r)
      BY <1>4, <2>2 DEF BatchesFit
    <2>4. \A m \in DOMAIN request[c].batches :
              request[c].batches[m].status \in
                  {"pending", "unknown", "pending_review", "succeeded"}
      BY <1>4, BatchNumbers DEF BatchType
    <2>5. ASSUME NEW m \in DOMAIN request[c].batches \ {n}
          PROVE  request[c].batches[m].status = "succeeded"
      <3>1. \A k, l \in DOMAIN request[c].batches :
                request[c].batches[k].status \in Unsettled
                    /\ request[c].batches[l].status \in Unsettled => k = l
        BY <1>4, RequestSums
      <3>q. QED BY <1>2, <2>4, <3>1 DEF Unsettled
    <2>q. QED BY <1>2, <2>1, <2>3, <2>5
  <1>7. /\ DOMAIN batches = {1} \/ (DOMAIN batches = {1, 2} /\ n = 2)
        /\ DOMAIN batches = {1} => n = 1
        /\ 2 \in DOMAIN batches => r.rule = "two_batches" /\ batches[1].status = "succeeded"
        /\ r.refund > 0 /\ r.refund \in Nat /\ Portion(r) \in Nat
        /\ r.rule = "two_batches" => Portion(r) + Portion(r) = r.refund
        /\ r.rule # "two_batches" => Portion(r) = r.refund
    <2>1. /\ DOMAIN batches = {} \/ DOMAIN batches = {1} \/ DOMAIN batches = {1, 2}
          /\ n \in DOMAIN batches
      BY <1>2, <1>6, BatchNumbers
    <2>2. /\ DOMAIN batches = {1, 2} => r.rule = "two_batches"
                                        /\ request[c].batches[1].status = "succeeded"
          /\ r.refund > 0 /\ (r.rule = "two_batches" => r.refund % 2 = 0)
      BY <1>4, <1>5, <1>6, <2>1 DEF BatchesFit
    <2>3. DOMAIN batches = {1, 2} => n = 2
      BY <1>2, <2>1, <2>2
    <2>4. r.refund \in Nat
      BY <1>5 DEF RequestType
    <2>5. r.rule = "two_batches" => Portion(r) = r.refund \div 2
      BY DEF Portion
    <2>6. r.rule # "two_batches" => Portion(r) = r.refund
      BY DEF Portion
    <2>7. r.rule = "two_batches" => Portion(r) + Portion(r) = r.refund /\ Portion(r) \in Nat
      BY <2>2, <2>4, <2>5
    <2>q. QED BY <1>6, <2>1, <2>2, <2>3, <2>4, <2>6, <2>7
  <1>8. /\ Returned(request[c]) = IF n = 2 THEN Portion(r) ELSE 0
        /\ Returned(r) = Returned(request[c]) + (IF mark = "succeeded" THEN Portion(r) ELSE 0)
    <2>1. /\ Part(request[c].batches, 1, {"succeeded"}) = IF n = 2 THEN Portion(r) ELSE 0
          /\ Part(request[c].batches, 2, {"succeeded"}) = 0
      BY <1>2, <1>6, <1>7 DEF Part
    <2>2. CASE n = 1
      <3>1. /\ Part(batches, 1, {"succeeded"}) = IF mark = "succeeded" THEN Portion(r) ELSE 0
            /\ Part(batches, 2, {"succeeded"}) = 0
        BY <1>6, <1>7, <2>2 DEF Part
      <3>q. QED BY <1>5, <1>7, <2>1, <2>2, <3>1 DEF Returned, PartSum
    <2>3. CASE n = 2
      <3>1. /\ Part(batches, 2, {"succeeded"}) = IF mark = "succeeded" THEN Portion(r) ELSE 0
            /\ Part(batches, 1, {"succeeded"}) = Portion(r)
        BY <1>6, <1>7, <2>3 DEF Part
      <3>q. QED BY <1>5, <1>7, <2>1, <2>3, <3>1 DEF Returned, PartSum
    <2>q. QED BY <1>2, <2>2, <2>3
  <1>9. Complete(c, n) <=> (n = 2 \/ r.rule # "two_batches")
    <2>1. Complete(c, n) <=> Returned(request[c]) + Portion(r) = r.refund
      BY <1>4, <1>5, <1>6 DEF Complete
    <2>q. QED BY <1>2, <1>7, <1>8, <2>1
  <1>10. AllBack(r) <=> mark = "succeeded" /\ (n = 2 \/ r.rule # "two_batches")
    BY <1>2, <1>5, <1>6, <1>7 DEF AllBack, LastBatch
  <1>11. (\E m \in DOMAIN batches : Stuck(batches[m])) <=> mark # "succeeded"
    BY <1>2, <1>6 DEF Stuck
  <1>12. /\ status = "completed" <=> AllBack(r)
         /\ status = "pending_review" <=> mark # "succeeded"
    BY <1>3, <1>9, <1>10 DEF Settled
  <1>13. BatchesFit(r)
    <2>1. DOMAIN batches # {} /\ (r.rule = "two_batches" => r.refund % 2 = 0)
      BY <1>2, <1>4, <1>5, <1>6 DEF BatchesFit
    <2>q. QED BY <1>5, <1>6, <1>7, <1>11, <1>12, <2>1 DEF BatchesFit
  <1>14. /\ \A k \in TaskKeys : Kept(k) \/ k = <<"refund", c, n>>
         /\ task'[<<"delay", c>>] \notin {"open", "claimed"}
         /\ \A m \in DOMAIN batches :
                Stuck(batches[m]) => task'[<<"refund", c, m>>] \in {"open", "claimed"}
    <2>1. CASE mark = "succeeded"
      <3>1. UNCHANGED task
        BY <1>3, <2>1 DEF Settled
      <3>q. QED BY <1>4, <1>11, <2>1, <3>1 DEF Kept
    <2>2. CASE mark # "succeeded"
      <3>1. task' = [task EXCEPT ![<<"refund", c, n>>] = "open"]
        BY <1>3, <2>2 DEF Settled
      <3>2. \A m \in DOMAIN batches : Stuck(batches[m]) => m = n
        BY <1>6 DEF Stuck
      <3>3. /\ <<"refund", c, n>> \in TaskKeys /\ <<"delay", c>> \in TaskKeys
            /\ <<"refund", c, n>> # <<"delay", c>>
        BY <1>2, TaskKeysApart
      <3>q. QED BY <1>4, <3>1, <3>2, <3>3 DEF Kept
    <2>q. QED BY <2>1, <2>2
  <1>15. /\ Ordered(i)' /\ order'[i].payment = order[i].payment
         /\ order'[i].refunded = Returned(r)
         /\ order'[i].status = IF status = "completed" THEN "cancelled"
                               ELSE "cancellation_processing"
         /\ \A j \in Items \ {i} : order'[j] = order[j]
    <2>1. CASE mark # "succeeded"
      <3>1. UNCHANGED order /\ status = "pending_review"
        BY <1>3, <2>1 DEF Settled
      <3>2. Returned(r) = Returned(request[c])
        BY <1>7, <1>8, <2>1
      <3>q. QED BY <1>4, <3>1, <3>2 DEF Ordered
    <2>2. CASE mark = "succeeded"
      <3>1. PICK s \in {"cancelled", "cancellation_processing"} :
                s = IF Complete(c, n) THEN "cancelled" ELSE "cancellation_processing"
        OBVIOUS
      <3>2. PICK amount \in Nat : amount = request[c].batches[n].amount
        BY <1>6, <1>7
      <3>3. /\ order[i].refunded + amount <= order[i].price
            /\ order' = [order EXCEPT ![i].refunded = @ + amount, ![i].status = s]
            /\ s = "cancelled" <=> status = "completed"
        BY <1>1, <1>3, <2>2, <3>1, <3>2 DEF Settled
      <3>4. /\ Ordered(i)' /\ order'[i].payment = order[i].payment
            /\ order'[i].refunded = order[i].refunded + amount /\ order'[i].status = s
            /\ \A j \in Items \ {i} : order'[j] = order[j]
        BY <1>4, <3>3, BackEffect DEF MoneyIInv
      <3>5. Returned(r) = order[i].refunded + amount
        BY <1>4, <1>6, <1>8, <2>2, <3>2
      <3>q. QED BY <3>3, <3>4, <3>5
    <2>q. QED BY <2>1, <2>2
  <1>16. /\ \A k \in TaskKeys : Kept(k) \/ k = <<"delay", <<p, i>>>>
                                \/ \E m \in {1, 2} : k = <<"refund", <<p, i>>, m>>
         /\ status # "delayed" /\ status # "rejected"
         /\ order'[i].status = "cancellation_processing" <=> status \in Active
         /\ order'[i].status = "cancelled" <=> status = "completed"
    BY <1>1, <1>2, <1>14, <1>15 DEF Active
  <1>q. QED BY <1>1, <1>2, <1>4, <1>5, <1>13, <1>14, <1>15, <1>16, RequestMoney

LEMMA MoneyStep == MoneyIInv /\ [Next]_vars => MoneyIInv'
  <1> SUFFICES ASSUME MoneyIInv, [Next]_vars PROVE MoneyIInv'
    OBVIOUS
  <1>1. LegacyIInv'
    BY LegacyStep DEF MoneyIInv
  <1>2. WithinLimit' /\ Refunds'
    <2>1. CASE Consumer
      <3>1. CASE \E p \in Proposals : createPurchaseProposal(p) \/ createChangeProposal(p)
                                      \/ RenewQuery(p) \/ ConfirmChange(p)
        <4>1. UNCHANGED <<plan, order, request, task>>
          BY <3>1 DEF createPurchaseProposal, createChangeProposal, RenewQuery, ConfirmChange
        <4>q. QED BY <4>1, MoneyQuiet
      <3>2. CASE \E p \in Proposals : ConfirmPurchase(p) \/ submitConfirmedChange(p)
        BY <3>2, ConfirmPurchaseMoney, SubmitMoney
      <3>3. CASE \E p \in Proposals, i \in Items : createConfirmedOrder(p, i)
        BY <3>3, OrderMoney
      <3>4. CASE pausePurchases
        <4>1. UNCHANGED <<order, request, task>> /\ plan'.limit = plan.limit
          BY <3>4 DEF pausePurchases, MoneyIInv, LegacyIInv, Typed
        <4>q. QED BY <4>1, MoneyQuiet
      <3>5. CASE RevokeAftercare
        <4>1. UNCHANGED <<plan, order, request, task>>
          BY <3>5 DEF RevokeAftercare
        <4>q. QED BY <4>1, MoneyQuiet
      <3>q. QED BY <2>1, <3>1, <3>2, <3>3, <3>4, <3>5 DEF Consumer
    <2>2. CASE Merchant
      <3>1. CASE \E i \in Changed : UpdateRule(i)
        <4>1. UNCHANGED <<plan, order, request, task>>
          BY <3>1 DEF UpdateRule, consumerVars
        <4>q. QED BY <4>1, MoneyQuiet
      <3>2. CASE \E c \in Changes : DecideCancellation(c) \/ ScheduleBatch(c)
        BY <3>2, DecideMoney, ScheduleMoney
      <3>3. CASE \E k \in TaskKeys : ClaimTask(k)
        <4>1. UNCHANGED <<plan, order, request>>
          BY <3>3 DEF ClaimTask, consumerVars
        <4>q. QED BY <3>3, <4>1, MoneyQuiet
      <3>q. QED BY <2>2, <3>1, <3>2, <3>3 DEF Merchant
    <2>3. CASE Worker
      BY <2>3, PaymentMoney, CloseMoney, RefundMoney DEF Worker
    <2>4. CASE \E o \in Rechecked : RequestRecheck(o)
      <3>1. UNCHANGED <<plan, order, request>>
        BY <2>4 DEF RequestRecheck, consumerVars
      <3>q. QED BY <2>4, <3>1, MoneyQuiet
    <2>5. CASE UNCHANGED vars
      <3>1. UNCHANGED <<plan, order, request, task>>
        BY <2>5 DEF vars, consumerVars
      <3>q. QED BY <3>1, MoneyQuiet
    <2>q. QED BY <2>1, <2>2, <2>3, <2>4, <2>5 DEF Next
  <1>q. QED BY <1>1, <1>2 DEF MoneyIInv

\* The page of a plan never shows less than nothing left or paid, nor more
\* returned and on its way than the refund that was confirmed: planSnapshot
\* and budgetForPlan, whichever limits were confirmed and orders closed since.
THEOREM ShownMoneyAlwaysAgrees == Spec => []ShownMoneyAgrees
  <1>1. Init => MoneyIInv
    BY MoneyInit
  <1>2. MoneyIInv /\ [Next]_vars => MoneyIInv'
    BY MoneyStep
  <1>3. MoneyIInv => ShownMoneyAgrees
    BY ShownMoney
  <1>q. QED BY <1>1, <1>2, <1>3, PTL DEF Spec

\* One batch at a time, the order returned what its batches did and is
\* cancelled with the last of them, and whatever waits for a person has a
\* task: the decisions and batches of api.ts and the worker's transactions.
THEOREM RefundsAlwaysAddUp == Spec => []RefundsAddUp
  <1>1. Init => MoneyIInv
    BY MoneyInit
  <1>2. MoneyIInv /\ [Next]_vars => MoneyIInv'
    BY MoneyStep
  <1>3. MoneyIInv => RefundsAddUp
    BY RefundsSum
  <1>q. QED BY <1>1, <1>2, <1>3, PTL DEF Spec
==============================================================================
