----------------------- MODULE PurchaseAdmissionProofs -----------------------
(***************************************************************************)
(* Proofs about the admission of purchases, for any items, assessments,    *)
(* intents, prices, amounts and bounds: an item is bought once, its status *)
(* is that of its order, and a live intent keeps its item as it was        *)
(* assessed, although the intent is checked and inserted in two steps; an  *)
(* assessment shows what its versions stand for, what is confirmed is what *)
(* it has shown, and after the purchase the plan of the month still holds. *)
(***************************************************************************)
EXTENDS PurchaseAdmission, FiniteSums

------------------------------------------------------------------------------
(* The inductive invariant.                                                *)

Fields == {"state", "item", "quote", "versions", "estimate", "seen", "status",
           "expired", "stale"}
ItemType == [status : {"none", "planned", "committed", "settled", "cancelled"},
             estimate : Estimates \cup {0}, covered : Nat]
IntentType == [state : {"none", "creating", "proposed", "ordered", "expired", "rejected"},
               of : Assessments \cup {"none"}]
OrderStates == {"none", "pending", "unknown", "paid", "closed"}

Formed ==
    /\ item \in [Items -> ItemType]
    /\ assess = [a \in Assessments |-> assess[a]]
    /\ \A a \in Assessments : DOMAIN assess[a] = Fields
    /\ intent \in [Intents -> IntentType]
    /\ order \in [Intents -> OrderStates]

\* An assessment that was read is about an item, and one with an intent stays.
AssessmentKnown(a) == assess[a].state # "none" => assess[a].item \in Items
Used(k) == intent[k].state # "none"
UsedIsMade(k) ==
    Used(k) => /\ intent[k].of \in Assessments
               /\ assess[intent[k].of].state = "made"

\* An intent that reserves its item, in the transaction that creates it too,
\* and one that keeps it, as a reservation or bought.
Live(k) == \/ intent[k].state = "creating"
           \/ intent[k].state = "proposed" /\ ~Expired(k)
Keeps(k) == Live(k) \/ intent[k].state = "ordered"

Held(k) == /\ item[ItemOf(k)].status = "planned"
           /\ item[ItemOf(k)].covered = 0
           /\ item[ItemOf(k)].estimate = assess[intent[k].of].estimate

StatusOf(k) ==
    CASE order[k] \in {"pending", "unknown"} -> "committed"
      [] order[k] = "paid" -> "settled"
      [] order[k] = "closed" -> "cancelled"

OneKeeper ==
    \A k, m \in Intents : Keeps(k) /\ Keeps(m) /\ ItemOf(k) = ItemOf(m) => k = m
OrderKnown(k) ==
    /\ order[k] # "none" <=> intent[k].state = "ordered"
    /\ order[k] # "none" => item[ItemOf(k)].status = StatusOf(k)
BoughtKnown(i) ==
    item[i].status \in {"committed", "settled"}
        => \E k \in Intents : order[k] # "none" /\ ItemOf(k) = i

IInv ==
    /\ Formed
    /\ \A a \in Assessments : AssessmentKnown(a)
    /\ \A k \in Intents : UsedIsMade(k)
    /\ \A k \in Intents : Live(k) => Held(k)
    /\ OneKeeper
    /\ \A k \in Intents : OrderKnown(k)
    /\ \A i \in Items : BoughtKnown(i)

------------------------------------------------------------------------------
(* What the invariant says of the property.                                *)

LEMMA AtMostOne ==
    ASSUME NEW S, \A x, y \in S : x = y
    PROVE  Cardinality(S) <= 1
  <1>1. CASE S = {}
    BY <1>1, FS_EmptySet
  <1>2. CASE S # {}
    <2>1. PICK x \in S : S = {x}
      BY <1>2
    <2>q. QED BY <2>1, FS_Singleton
  <1>q. QED BY <1>1, <1>2

LEMMA InvImplies == IInv => IntentHoldsItem
  <1> SUFFICES ASSUME IInv PROVE IntentHoldsItem
    OBVIOUS
  <1>1. \A k \in Intents : (order[k] # "none") <=> (intent[k].state = "ordered")
    BY DEF IInv, OrderKnown
  <1>2. ASSUME NEW i \in Items,
               NEW bought, bought = {k \in Ordered : ItemOf(k) = i}
        PROVE  /\ Cardinality(bought) <= 1
               /\ bought = {} => item[i].status \in {"none", "planned", "cancelled"}
               /\ \A k \in bought : item[i].status = StatusOf(k)
    <2>1. \A k, m \in bought : k = m
      BY <1>1, <1>2 DEF IInv, OneKeeper, Keeps, Ordered
    <2>2. Cardinality(bought) <= 1
      BY <2>1, AtMostOne
    <2>3. bought = {} => item[i].status \in {"none", "planned", "cancelled"}
      BY <1>2 DEF IInv, Formed, ItemType, BoughtKnown, Ordered
    <2>4. \A k \in bought : item[i].status = StatusOf(k)
      BY <1>2 DEF IInv, OrderKnown, Ordered
    <2>q. QED BY <2>2, <2>3, <2>4
  <1>3. ItemFollowsOrder
    BY <1>1, <1>2 DEF ItemFollowsOrder, StatusOf
  <1>4. ReservationMatchesItem
    BY DEF IInv, Live, Held, ReservationMatchesItem
  <1>q. QED BY <1>3, <1>4 DEF IntentHoldsItem

LEMMA InitInv == Init => IInv
  <1> SUFFICES ASSUME Init PROVE IInv
    OBVIOUS
  <1>1. /\ assess = [a \in Assessments |-> NoAssessment]
        /\ intent = [k \in Intents |-> NoIntent]
        /\ order = [k \in Intents |-> "none"]
    BY DEF Init
  <1>2. NoAssessment.state = "none" /\ DOMAIN NoAssessment = Fields
    BY DEF NoAssessment, Fields
  <1>3. NoIntent \in IntentType /\ NoIntent.state = "none"
    BY DEF NoIntent, IntentType
  <1>4. /\ item \in [Items -> ItemType]
        /\ \A i \in Items : item[i].status \in {"none", "planned"}
    <2>1. PICK plan \in Opening : item = [i \in Items |->
              IF plan[i] = 0 THEN NoItem ELSE PlannedItem(plan[i])]
      BY DEF Init
    <2>2. plan \in [Items -> Estimates \cup {0}]
      BY AdmissionAssumption
    <2>3. \A i \in Items : /\ PlannedItem(plan[i]) \in ItemType
                           /\ PlannedItem(plan[i]).status = "planned"
      BY <2>2 DEF PlannedItem, ItemType
    <2>4. NoItem \in ItemType /\ NoItem.status = "none"
      BY DEF NoItem, ItemType
    <2>q. QED BY <2>1, <2>3, <2>4
  <1>5. Formed
    BY <1>1, <1>2, <1>3, <1>4 DEF Formed, OrderStates
  <1>6. \A a \in Assessments : AssessmentKnown(a)
    BY <1>1, <1>2 DEF AssessmentKnown
  <1>7. \A k \in Intents : UsedIsMade(k) /\ ~Keeps(k) /\ ~Live(k) /\ OrderKnown(k)
    BY <1>1, <1>3 DEF UsedIsMade, Used, Keeps, Live, OrderKnown
  <1>8. \A i \in Items : BoughtKnown(i)
    BY <1>4 DEF BoughtKnown
  <1>q. QED BY <1>5, <1>6, <1>7, <1>8 DEF IInv, OneKeeper

------------------------------------------------------------------------------
(* Steps that let nobody reserve or buy anything.                          *)

\* An assessment that has an intent stays what it was made from.
AssessmentsStay ==
    \A k \in Intents : Used(k) =>
        /\ assess'[intent[k].of].state = "made"
        /\ assess'[intent[k].of].item = ItemOf(k)
        /\ assess'[intent[k].of].estimate = assess[intent[k].of].estimate
        /\ ~assess'[intent[k].of].expired => ~assess[intent[k].of].expired

\* An intent begins nowhere, and none comes back to life.
IntentsEnd ==
    \A k \in Intents :
        /\ Used(k)' => Used(k) /\ intent'[k].of = intent[k].of
        /\ Live(k)' => Live(k)
        /\ intent'[k].state = "ordered" <=> intent[k].state = "ordered"

\* An item changes only if nobody keeps it, or in what no live intent is about.
ItemsFree ==
    \A i \in Items :
        \/ item'[i] = item[i]
        \/ /\ item'[i].status = item[i].status
           /\ \A k \in Intents : Live(k) => ItemOf(k) # i
        \/ /\ item'[i].status \in {"planned", "cancelled"}
           /\ \A k \in Intents : Keeps(k) => ItemOf(k) # i

LEMMA UsedItem ==
    ASSUME IInv, NEW k \in Intents, Used(k)
    PROVE  ItemOf(k) \in Items /\ intent[k].of \in Assessments
  BY DEF IInv, UsedIsMade, AssessmentKnown, ItemOf

LEMMA QuietInv ==
    ASSUME IInv, Formed', UNCHANGED order,
           \A a \in Assessments : AssessmentKnown(a)',
           AssessmentsStay, IntentsEnd, ItemsFree
    PROVE  IInv'
  <1>1. ASSUME NEW k \in Intents, Used(k)'
        PROVE  /\ Used(k) /\ intent'[k].of = intent[k].of /\ ItemOf(k)' = ItemOf(k)
               /\ assess'[intent'[k].of].state = "made"
               /\ assess'[intent'[k].of].estimate = assess[intent[k].of].estimate
    BY <1>1 DEF AssessmentsStay, IntentsEnd, ItemOf
  <1>2. \A k \in Intents : /\ Live(k) \/ Keeps(k) => Used(k)
                           /\ Live(k)' \/ Keeps(k)' => Used(k)'
                           /\ Live(k)' => Live(k)
                           /\ Keeps(k)' => Keeps(k)
    BY DEF Live, Keeps, Used, IntentsEnd
  <1>3. \A k \in Intents : UsedIsMade(k)'
    BY <1>1, UsedItem DEF UsedIsMade
  <1>4. ASSUME NEW k \in Intents, Live(k)' PROVE Held(k)'
    <2>1. Live(k) /\ Used(k)' /\ Used(k) /\ Held(k) /\ Keeps(k)
      BY <1>1, <1>2, <1>4 DEF IInv, Keeps
    <2>2. ItemOf(k) \in Items /\ ItemOf(k)' = ItemOf(k)
      BY <1>1, <2>1, UsedItem
    <2>3. item'[ItemOf(k)] = item[ItemOf(k)]
      BY <2>1, <2>2 DEF ItemsFree
    <2>q. QED BY <1>1, <2>1, <2>2, <2>3 DEF Held
  <1>5. OneKeeper'
    BY <1>1, <1>2 DEF IInv, OneKeeper
  <1>6. ASSUME NEW k \in Intents PROVE OrderKnown(k)'
    <2>1. OrderKnown(k) /\ (order[k] # "none" => Used(k)' /\ Keeps(k))
      BY DEF IInv, OrderKnown, IntentsEnd, Used, Keeps
    <2>2. CASE order[k] = "none"
      BY <2>1, <2>2 DEF OrderKnown, IntentsEnd
    <2>3. CASE order[k] # "none"
      <3>1. ItemOf(k)' = ItemOf(k) /\ ItemOf(k) \in Items
        BY <1>1, <2>1, <2>3, UsedItem
      <3>2. item'[ItemOf(k)].status = item[ItemOf(k)].status
        BY <2>1, <2>3, <3>1 DEF ItemsFree
      <3>3. StatusOf(k)' = StatusOf(k)
        BY DEF StatusOf
      <3>q. QED BY <2>1, <2>3, <3>1, <3>2, <3>3 DEF OrderKnown, IntentsEnd
    <2>q. QED BY <2>2, <2>3
  <1>7. ASSUME NEW i \in Items PROVE BoughtKnown(i)'
    <2> SUFFICES ASSUME item'[i].status \in {"committed", "settled"}
                 PROVE  \E k \in Intents : order[k] # "none" /\ ItemOf(k)' = i
      BY DEF BoughtKnown
    <2>1. item[i].status \in {"committed", "settled"}
      BY DEF ItemsFree
    <2>2. PICK k \in Intents : order[k] # "none" /\ ItemOf(k) = i
      BY <2>1 DEF IInv, BoughtKnown
    <2>3. Used(k)'
      BY <2>2 DEF IInv, OrderKnown, IntentsEnd, Used
    <2>q. QED BY <1>1, <2>2, <2>3
  <1>q. QED BY <1>3, <1>4, <1>5, <1>6, <1>7 DEF IInv

LEMMA SameAssess ==
    ASSUME IInv, UNCHANGED assess
    PROVE  (\A a \in Assessments : AssessmentKnown(a)') /\ AssessmentsStay
  BY DEF IInv, AssessmentKnown, AssessmentsStay, UsedIsMade, ItemOf

LEMMA SameIntent ==
    ASSUME IInv, UNCHANGED intent, AssessmentsStay
    PROVE  IntentsEnd
  <1>1. \A k \in Intents : Live(k)' => Live(k)
    BY DEF Live, Expired, AssessmentsStay, Used
  <1>q. QED BY <1>1 DEF IntentsEnd, Used

LEMMA SameItems == ASSUME UNCHANGED item PROVE ItemsFree
  BY DEF ItemsFree

\* What the step does to the offers is nothing, and to the items little.
LEMMA BudgetInv ==
    ASSUME IInv, UNCHANGED <<assess, intent, order>>, ItemsFree,
           item' \in [Items -> ItemType]
    PROVE  IInv'
  BY SameAssess, SameIntent, QuietInv DEF IInv, Formed

LEMMA FactInv ==
    ASSUME IInv, UNCHANGED <<item, assess, intent, order>>
    PROVE  IInv'
  BY SameItems, BudgetInv DEF IInv, Formed

------------------------------------------------------------------------------
(* The preview.                                                            *)

LEMMA AssessFormed ==
    ASSUME IInv, NEW a \in Assessments, NEW new, DOMAIN new = Fields,
           assess' = [assess EXCEPT ![a] = new]
    PROVE  /\ assess' = [b \in Assessments |-> assess'[b]]
           /\ \A b \in Assessments : DOMAIN assess'[b] = Fields
           /\ assess'[a] = new
           /\ \A b \in Assessments \ {a} : assess'[b] = assess[b]
  BY DEF IInv, Formed

\* A step about an assessment no intent was made from.
LEMMA UnusedStep ==
    ASSUME IInv, NEW a \in Assessments, NEW new, DOMAIN new = Fields,
           assess' = [assess EXCEPT ![a] = new],
           new.state # "none" => new.item \in Items,
           \A k \in Intents : Used(k) => intent[k].of # a
    PROVE  (\A b \in Assessments : AssessmentKnown(b)') /\ AssessmentsStay
  <1>1. \A b \in Assessments : AssessmentKnown(b)'
    BY AssessFormed DEF IInv, AssessmentKnown
  <1>2. \A k \in Intents : Used(k) => assess'[intent[k].of] = assess[intent[k].of]
    BY AssessFormed, UsedItem
  <1>3. AssessmentsStay
    BY <1>2 DEF AssessmentsStay, IInv, UsedIsMade, ItemOf
  <1>q. QED BY <1>1, <1>3

LEMMA ExpireEnds ==
    ASSUME IInv, NEW K, intent' = Expire(K), AssessmentsStay
    PROVE  intent' \in [Intents -> IntentType] /\ IntentsEnd
  <1> DEFINE gone(k) == [intent[k] EXCEPT !.state = "expired"]
  <1>1. intent \in [Intents -> IntentType]
    BY DEF IInv, Formed
  <1>2. \A k \in Intents : /\ gone(k) \in IntentType /\ gone(k).state = "expired"
                           /\ gone(k).of = intent[k].of
    BY <1>1 DEF IntentType
  <1>3. intent' = [k \in Intents |-> IF k \in K /\ intent[k].state = "proposed"
                                     THEN gone(k) ELSE intent[k]]
    BY DEF Expire
  <1> HIDE DEF gone
  <1>4. intent' \in [Intents -> IntentType]
    BY <1>1, <1>2, <1>3
  <1>5. ASSUME NEW k \in Intents
        PROVE  /\ Used(k)' => Used(k) /\ intent'[k].of = intent[k].of
               /\ Live(k)' => Live(k)
               /\ intent'[k].state = "ordered" <=> intent[k].state = "ordered"
    <2>1. CASE intent'[k] = intent[k]
      BY <2>1 DEF Live, Expired, AssessmentsStay, Used
    <2>2. CASE intent[k].state = "proposed" /\ intent'[k] = gone(k)
      BY <1>2, <2>2 DEF Live, Used
    <2>q. QED BY <1>3, <2>1, <2>2
  <1>q. QED BY <1>4, <1>5 DEF IntentsEnd

LEMMA ReadingIsUnused ==
    ASSUME IInv, NEW a \in Assessments, assess[a].state # "made"
    PROVE  \A k \in Intents : Used(k) => intent[k].of # a
  BY DEF IInv, UsedIsMade

LEMMA PreviewInv ==
    ASSUME IInv, NEW a \in Assessments,
           \/ \E i \in Items, q \in Quotes : BeginAssessment(a, i, q)
           \/ FinishAssessment(a) \/ AbortAssessment(a) \/ AssessmentExpires(a)
    PROVE  IInv'
  <1>1. UNCHANGED <<item, order>>
    BY DEF BeginAssessment, FinishAssessment, AbortAssessment, AssessmentExpires, budgetVars
  <1>2. /\ DOMAIN NoAssessment = Fields /\ NoAssessment.state = "none"
        /\ DOMAIN assess[a] = Fields
        /\ assess[a].state # "none" => assess[a].item \in Items
    BY DEF IInv, NoAssessment, Fields, Formed, AssessmentKnown
  <1>3. ItemsFree /\ item' \in [Items -> ItemType] /\ order' \in [Intents -> OrderStates]
    BY <1>1, SameItems DEF IInv, Formed
  <1>4. ASSUME NEW i \in Items, NEW q \in Quotes, BeginAssessment(a, i, q) PROVE IInv'
    <2> DEFINE new == [assess[a] EXCEPT !.state = "reading", !.item = i, !.quote = q,
                          !.estimate = item[i].estimate, !.stale = Stale(i),
                          !.versions = Versions(PeriodOf[i]),
                          !.seen = [NoBasis EXCEPT !.target = period[PeriodOf[i]].target]]
    <2>1. /\ assess[a].state = "none" /\ UNCHANGED intent
          /\ assess' = [assess EXCEPT ![a] = new]
      BY <1>4 DEF BeginAssessment
    <2>2. DOMAIN new = Fields /\ new.item = i
      BY <1>2 DEF Fields
    <2> HIDE DEF new
    <2>3. (\A b \in Assessments : AssessmentKnown(b)') /\ AssessmentsStay
      BY <2>1, <2>2, ReadingIsUnused, UnusedStep
    <2>4. IntentsEnd
      BY <2>1, <2>3, SameIntent
    <2>5. Formed'
      BY <1>3, <2>1, <2>2, AssessFormed DEF IInv, Formed
    <2>q. QED BY <1>1, <1>3, <2>3, <2>4, <2>5, QuietInv
  <1>5. CASE FinishAssessment(a)
    <2> DEFINE new == [assess[a] EXCEPT !.state = "made", !.versions = StoredVersions(a),
                 !.seen = [Basis(PeriodOf[assess[a].item])
                             EXCEPT !.target = assess[a].seen.target],
                 !.status = Forecast(PeriodOf[assess[a].item], assess[a].item,
                                     Prices[assess[a].quote]),
                 !.stale = {}]
    <2>1. /\ assess[a].state = "reading" /\ intent' = Expire(assess[a].stale)
          /\ assess' = [assess EXCEPT ![a] = new]
      BY <1>5 DEF FinishAssessment
    <2>2. DOMAIN new = Fields /\ new.item = assess[a].item
      BY <1>2 DEF Fields
    <2> HIDE DEF new
    <2>3. (\A b \in Assessments : AssessmentKnown(b)') /\ AssessmentsStay
      BY <1>2, <2>1, <2>2, ReadingIsUnused, UnusedStep
    <2>4. intent' \in [Intents -> IntentType] /\ IntentsEnd
      BY <2>1, <2>3, ExpireEnds
    <2>5. Formed'
      BY <1>3, <2>1, <2>2, <2>4, AssessFormed DEF Formed
    <2>q. QED BY <1>1, <1>3, <2>3, <2>4, <2>5, QuietInv
  <1>6. ASSUME \A k \in Intents : Used(k) => intent[k].of # a,
               UNCHANGED intent, assess' = [assess EXCEPT ![a] = NoAssessment]
        PROVE  IInv'
    <2>1. (\A b \in Assessments : AssessmentKnown(b)') /\ AssessmentsStay
      BY <1>2, <1>6, UnusedStep
    <2>2. IntentsEnd
      BY <1>6, <2>1, SameIntent
    <2>3. Formed'
      BY <1>2, <1>3, <1>6, AssessFormed DEF IInv, Formed
    <2>q. QED BY <1>1, <1>3, <2>1, <2>2, <2>3, QuietInv
  <1>7. CASE AbortAssessment(a)
    BY <1>6, <1>7, ReadingIsUnused DEF AbortAssessment
  <1>8. CASE AssessmentExpires(a) /\ ~\E k \in Intents : intent[k].of = a
    BY <1>6, <1>8 DEF AssessmentExpires
  <1>9. CASE AssessmentExpires(a) /\ \E k \in Intents : intent[k].of = a
    <2> DEFINE new == [assess[a] EXCEPT !.expired = TRUE]
    <2>1. /\ assess[a].state = "made" /\ UNCHANGED intent
          /\ assess' = [assess EXCEPT ![a] = new]
      BY <1>9 DEF AssessmentExpires
    <2>2. /\ DOMAIN new = Fields /\ new.item = assess[a].item /\ new.state = "made"
          /\ new.estimate = assess[a].estimate /\ new.expired
      BY <1>2, <2>1 DEF Fields
    <2> HIDE DEF new
    <2>3. /\ assess' = [b \in Assessments |-> assess'[b]]
          /\ \A b \in Assessments : DOMAIN assess'[b] = Fields
          /\ assess'[a] = new
          /\ \A b \in Assessments \ {a} : assess'[b] = assess[b]
      BY <2>1, <2>2, AssessFormed
    <2>4. \A b \in Assessments : AssessmentKnown(b)'
      BY <1>2, <2>1, <2>2, <2>3 DEF IInv, AssessmentKnown
    <2>5. AssessmentsStay
      BY <2>1, <2>2, <2>3, UsedItem DEF AssessmentsStay, ItemOf, IInv, UsedIsMade
    <2>6. IntentsEnd
      BY <2>1, <2>5, SameIntent
    <2>7. Formed'
      BY <1>3, <2>1, <2>3 DEF IInv, Formed
    <2>q. QED BY <1>1, <1>3, <2>4, <2>5, <2>6, <2>7, QuietInv
  <1>q. QED BY <1>4, <1>5, <1>7, <1>8, <1>9

------------------------------------------------------------------------------
(* The intent.                                                             *)

\* What readPurchaseItem finds: the item is planned, without link, and nobody
\* but the own intent keeps it, unless one is being created.
LEMMA OrderableIsFree ==
    ASSUME IInv, NEW i, NEW own, Orderable(i, own), Creating = {}
    PROVE  /\ item[i].status = "planned" /\ item[i].covered = 0
           /\ \A k \in Intents \ own : Keeps(k) => ItemOf(k) # i
  <1>1. ASSUME NEW k \in Intents, Keeps(k), ItemOf(k) = i PROVE k \in own
    <2>1. intent[k].state # "creating"
      BY DEF Creating
    <2>2. k \in Open(i)
      BY <1>1, <2>1 DEF Open, IntentsOf, Keeps, Live
    <2>q. QED BY <2>2 DEF Orderable
  <1>q. QED BY <1>1 DEF Orderable

LEMMA BeginIntentInv ==
    ASSUME IInv, NEW k \in Intents, NEW a \in Assessments, BeginIntent(k, a)
    PROVE  IInv'
  <1> DEFINE i == assess[a].item
  <1>1. /\ Creating = {} /\ intent[k].state = "none" /\ assess[a].state = "made"
        /\ Orderable(i, {}) /\ assess[a].estimate = item[i].estimate
        /\ intent' = [intent EXCEPT ![k] = [state |-> "creating", of |-> a]]
        /\ UNCHANGED <<item, assess, order>>
    BY DEF BeginIntent, budgetVars
  <1>2. i \in Items
    BY <1>1 DEF IInv, AssessmentKnown
  <1>3. /\ item[i].status = "planned" /\ item[i].covered = 0
        /\ \A m \in Intents : Keeps(m) => ItemOf(m) # i
    BY <1>1, OrderableIsFree
  <1> HIDE DEF i
  <1>4. /\ intent' \in [Intents -> IntentType]
        /\ intent'[k].state = "creating" /\ intent'[k].of = a
        /\ \A m \in Intents \ {k} : intent'[m] = intent[m]
    <2>1. [state |-> "creating", of |-> a] \in IntentType
      BY DEF IntentType
    <2>q. QED BY <1>1, <2>1 DEF IInv, Formed
  <1>5. /\ ItemOf(k)' = i
        /\ \A m \in Intents \ {k} :
               /\ ItemOf(m)' = ItemOf(m) /\ Live(m)' = Live(m) /\ Keeps(m)' = Keeps(m)
    BY <1>1, <1>4 DEF ItemOf, Live, Keeps, Expired, i
  <1>6. Formed' /\ \A b \in Assessments : AssessmentKnown(b)'
    BY <1>1, <1>4 DEF IInv, Formed, AssessmentKnown
  <1>7. \A m \in Intents : UsedIsMade(m)'
    BY <1>1, <1>4 DEF IInv, UsedIsMade, Used
  <1>8. \A m \in Intents : Live(m)' => Held(m)'
    <2>1. Held(k)'
      BY <1>1, <1>3, <1>4, <1>5 DEF Held
    <2>2. \A m \in Intents \ {k} : Live(m)' => Held(m)'
      BY <1>1, <1>4, <1>5 DEF IInv, Held
    <2>q. QED BY <2>1, <2>2
  <1>9. OneKeeper'
    <2>1. \A m \in Intents \ {k} : Keeps(m)' => ItemOf(m)' # ItemOf(k)'
      BY <1>3, <1>5
    <2>2. \A m, n \in Intents \ {k} :
              Keeps(m)' /\ Keeps(n)' /\ ItemOf(m)' = ItemOf(n)' => m = n
      BY <1>5 DEF IInv, OneKeeper
    <2>q. QED BY <2>1, <2>2 DEF OneKeeper
  <1>10. ASSUME NEW m \in Intents PROVE OrderKnown(m)'
    <2>1. OrderKnown(m) /\ StatusOf(m)' = StatusOf(m)
      BY <1>1 DEF IInv, StatusOf
    <2>2. CASE m = k
      BY <1>1, <1>4, <2>1, <2>2 DEF OrderKnown
    <2>3. CASE m # k
      <3>1. intent'[m] = intent[m] /\ ItemOf(m)' = ItemOf(m)
        BY <1>4, <1>5, <2>3
      <3>q. QED BY <1>1, <2>1, <3>1 DEF OrderKnown
    <2>q. QED BY <2>2, <2>3
  <1>11. ASSUME NEW j \in Items PROVE BoughtKnown(j)'
    <2>1. order[k] = "none"
      BY <1>1 DEF IInv, OrderKnown
    <2> SUFFICES ASSUME item[j].status \in {"committed", "settled"}
                 PROVE  \E m \in Intents : order[m] # "none" /\ ItemOf(m)' = j
      BY <1>1 DEF BoughtKnown
    <2>2. PICK m \in Intents : order[m] # "none" /\ ItemOf(m) = j
      BY DEF IInv, BoughtKnown
    <2>q. QED BY <1>5, <2>1, <2>2
  <1>q. QED BY <1>6, <1>7, <1>8, <1>9, <1>10, <1>11 DEF IInv

LEMMA IntentEndsInv ==
    ASSUME IInv, NEW k \in Intents, InsertIntent(k) \/ AbortIntent(k) \/ RejectIntent(k)
    PROVE  IInv'
  <1>1. UNCHANGED <<item, assess, order>>
    BY DEF InsertIntent, AbortIntent, RejectIntent, budgetVars
  <1>2. (\A a \in Assessments : AssessmentKnown(a)') /\ AssessmentsStay /\ ItemsFree
    BY <1>1, SameAssess, SameItems
  <1>3. intent \in [Intents -> IntentType] /\ intent[k] \in IntentType
    BY DEF IInv, Formed
  <1>4. intent' \in [Intents -> IntentType] /\ IntentsEnd
    <2>1. CASE InsertIntent(k)
      <3> DEFINE K == Proposed(ItemOf(k))
                 gone(m) == [intent[m] EXCEPT !.state = "expired"]
                 rest == [m \in Intents |-> IF m \in K /\ intent[m].state = "proposed"
                                            THEN gone(m) ELSE intent[m]]
                 new == [intent[k] EXCEPT !.state = "proposed"]
      <3>1. intent[k].state = "creating"
            /\ intent' = [Expire(K) EXCEPT ![k].state = "proposed"]
        BY <2>1 DEF InsertIntent
      <3>2. Expire(K) = rest
        BY DEF Expire
      <3>3. \A m \in Intents : /\ gone(m) \in IntentType /\ gone(m).state = "expired"
                               /\ gone(m).of = intent[m].of
        BY <1>3 DEF IntentType
      <3>4. new \in IntentType /\ new.state = "proposed" /\ new.of = intent[k].of
        BY <1>3 DEF IntentType
      <3>5. rest \in [Intents -> IntentType] /\ rest[k] = intent[k]
        BY <1>3, <3>1, <3>3
      <3>6. intent' = [rest EXCEPT ![k] = new]
        BY <3>1, <3>2, <3>5
      <3>7. /\ intent' \in [Intents -> IntentType] /\ intent'[k] = new
            /\ \A m \in Intents \ {k} : \/ intent'[m] = intent[m]
                                        \/ /\ intent'[m] = gone(m)
                                           /\ intent[m].state = "proposed"
        BY <3>4, <3>5, <3>6
      <3> HIDE DEF gone, new, rest, K
      <3>8. \A m \in Intents :
                /\ Used(m)' => Used(m) /\ intent'[m].of = intent[m].of
                /\ Live(m)' => Live(m)
                /\ intent'[m].state = "ordered" <=> intent[m].state = "ordered"
        BY <1>1, <3>1, <3>3, <3>4, <3>7 DEF Used, Live, Expired
      <3>q. QED BY <3>7, <3>8 DEF IntentsEnd
    <2>2. CASE AbortIntent(k)
      <3>1. NoIntent \in IntentType /\ NoIntent.state = "none"
        BY DEF NoIntent, IntentType
      <3>2. /\ intent[k].state = "creating" /\ intent' = [intent EXCEPT ![k] = NoIntent]
        BY <2>2 DEF AbortIntent
      <3>3. /\ intent' \in [Intents -> IntentType] /\ intent'[k] = NoIntent
            /\ \A m \in Intents \ {k} : intent'[m] = intent[m]
        BY <1>3, <3>1, <3>2
      <3>q. QED BY <1>1, <3>1, <3>2, <3>3 DEF IntentsEnd, Used, Live, Expired
    <2>3. CASE RejectIntent(k)
      <3> DEFINE state == IF Expired(k) THEN "expired" ELSE "rejected"
                 new == [intent[k] EXCEPT !.state = state]
      <3>1. intent[k].state = "proposed" /\ intent' = [intent EXCEPT ![k] = new]
        BY <2>3 DEF RejectIntent
      <3>2. state \in {"expired", "rejected"}
        OBVIOUS
      <3> HIDE DEF state
      <3>3. new \in IntentType /\ new.state = state /\ new.of = intent[k].of
        BY <1>3, <3>2 DEF IntentType
      <3> HIDE DEF new
      <3>4. /\ intent' \in [Intents -> IntentType] /\ intent'[k] = new
            /\ \A m \in Intents \ {k} : intent'[m] = intent[m]
        BY <1>3, <3>1, <3>3
      <3>q. QED BY <1>1, <3>1, <3>2, <3>3, <3>4 DEF IntentsEnd, Used, Live, Expired
    <2>q. QED BY <2>1, <2>2, <2>3
  <1>5. Formed'
    BY <1>1, <1>4 DEF IInv, Formed
  <1>q. QED BY <1>1, <1>2, <1>4, <1>5, QuietInv

\* A purchase: k keeps its item now as its order, and nobody else does.
LEMMA ConfirmInv == ASSUME IInv, NEW k \in Intents, ConfirmIntent(k) PROVE IInv'
  <1> DEFINE i == ItemOf(k)
             bought == [item[i] EXCEPT !.status = "committed"]
             new == [intent[k] EXCEPT !.state = "ordered"]
  <1>1. /\ intent[k].state = "proposed" /\ Creating = {} /\ Orderable(i, {k})
        /\ ~assess[intent[k].of].expired
        /\ intent' = [intent EXCEPT ![k] = new]
        /\ order' = [order EXCEPT ![k] = "pending"]
        /\ item' = [item EXCEPT ![i] = bought]
        /\ UNCHANGED assess
    BY DEF ConfirmIntent
  <1>2. i \in Items /\ Live(k) /\ Keeps(k) /\ Used(k)
    BY <1>1, UsedItem DEF Used, Live, Keeps, Expired
  <1>3. \A m \in Intents \ {k} : Keeps(m) => ItemOf(m) # i
    BY <1>1, OrderableIsFree
  <1>4. item[i].status = "planned"
    BY <1>1, OrderableIsFree
  <1>5. /\ intent[k] \in IntentType /\ item[i] \in ItemType
        /\ intent \in [Intents -> IntentType] /\ item \in [Items -> ItemType]
        /\ order \in [Intents -> OrderStates]
    BY <1>2 DEF IInv, Formed
  <1>6. new \in IntentType /\ new.state = "ordered" /\ new.of = intent[k].of
    BY <1>5 DEF IntentType
  <1>7. bought \in ItemType /\ bought.status = "committed"
    BY <1>5 DEF ItemType
  <1> HIDE DEF i, bought, new
  <1>8. /\ intent' \in [Intents -> IntentType] /\ intent'[k] = new
        /\ \A m \in Intents \ {k} : intent'[m] = intent[m]
        /\ item' \in [Items -> ItemType] /\ item'[i] = bought
        /\ \A j \in Items \ {i} : item'[j] = item[j]
        /\ order' \in [Intents -> OrderStates] /\ order'[k] = "pending"
        /\ \A m \in Intents \ {k} : order'[m] = order[m]
    BY <1>1, <1>2, <1>5, <1>6, <1>7 DEF OrderStates
  <1>9. /\ ItemOf(k)' = i /\ ~Live(k)' /\ Keeps(k)'
        /\ \A m \in Intents \ {k} :
               /\ ItemOf(m)' = ItemOf(m) /\ Live(m)' = Live(m) /\ Keeps(m)' = Keeps(m)
    BY <1>1, <1>6, <1>8 DEF ItemOf, Live, Keeps, Expired, i
  <1>10. Formed' /\ \A b \in Assessments : AssessmentKnown(b)'
    BY <1>1, <1>8 DEF IInv, Formed, AssessmentKnown
  <1>11. \A m \in Intents : UsedIsMade(m)'
    BY <1>1, <1>2, <1>6, <1>8 DEF IInv, UsedIsMade, Used
  <1>12. ASSUME NEW m \in Intents, Live(m)' PROVE Held(m)'
    <2>1. m # k /\ Live(m) /\ Held(m) /\ Keeps(m)
      BY <1>9, <1>12 DEF IInv, Keeps
    <2>2. ItemOf(m) \in Items \ {i}
      BY <1>3, <2>1, UsedItem DEF Used, Live
    <2>q. QED BY <1>1, <1>8, <1>9, <2>1, <2>2 DEF Held
  <1>13. OneKeeper'
    <2>1. \A m \in Intents \ {k} : Keeps(m)' => ItemOf(m)' # ItemOf(k)'
      BY <1>3, <1>9
    <2>2. \A m, n \in Intents \ {k} :
              Keeps(m)' /\ Keeps(n)' /\ ItemOf(m)' = ItemOf(n)' => m = n
      BY <1>9 DEF IInv, OneKeeper
    <2>q. QED BY <2>1, <2>2 DEF OneKeeper
  <1>14. ASSUME NEW m \in Intents PROVE OrderKnown(m)'
    <2>1. CASE m = k
      BY <1>6, <1>7, <1>8, <1>9, <2>1 DEF OrderKnown, StatusOf
    <2>2. CASE m # k
      <3>1. OrderKnown(m) /\ (order[m] # "none" => Keeps(m) /\ Used(m))
        BY DEF IInv, OrderKnown, Keeps, Used
      <3>2. order'[m] = order[m] /\ intent'[m] = intent[m] /\ ItemOf(m)' = ItemOf(m)
            /\ StatusOf(m)' = StatusOf(m)
        BY <1>8, <1>9, <2>2 DEF StatusOf
      <3>3. order[m] # "none" => ItemOf(m) \in Items \ {i}
        BY <1>3, <2>2, <3>1, UsedItem
      <3>4. order[m] # "none" => item'[ItemOf(m)] = item[ItemOf(m)]
        BY <1>8, <3>3
      <3>q. QED BY <3>1, <3>2, <3>4 DEF OrderKnown
    <2>q. QED BY <2>1, <2>2
  <1>15. ASSUME NEW j \in Items PROVE BoughtKnown(j)'
    <2>1. CASE j = i
      <3>1. order'[k] # "none" /\ ItemOf(k)' = j
        BY <1>8, <1>9, <2>1
      <3>q. QED BY <3>1 DEF BoughtKnown
    <2>2. CASE j # i
      <3> SUFFICES ASSUME item[j].status \in {"committed", "settled"}
                   PROVE  \E m \in Intents : order'[m] # "none" /\ ItemOf(m)' = j
        BY <1>8, <2>2 DEF BoughtKnown
      <3>1. PICK m \in Intents : order[m] # "none" /\ ItemOf(m) = j
        BY DEF IInv, BoughtKnown
      <3>q. QED BY <1>8, <1>9, <2>2, <3>1 DEF i
    <2>q. QED BY <2>1, <2>2
  <1>q. QED BY <1>10, <1>11, <1>12, <1>13, <1>14, <1>15 DEF IInv

------------------------------------------------------------------------------
(* The worker and the budget.                                              *)

\* The order of k moves on, and its item with it.
LEMMA WorkerInv ==
    ASSUME IInv, NEW k \in Intents, PayOrder(k) \/ PaymentUnclear(k) \/ CloseOrder(k)
    PROVE  IInv'
  <1> DEFINE i == ItemOf(k)
  <1>1. order[k] \in {"pending", "unknown"} /\ UNCHANGED <<assess, intent>>
    BY DEF PayOrder, PaymentUnclear, CloseOrder, offerVars
  <1>2. /\ intent[k].state = "ordered" /\ Used(k) /\ Keeps(k) /\ i \in Items
        /\ item[i].status = "committed"
    BY <1>1, UsedItem DEF IInv, OrderKnown, StatusOf, Used, Keeps
  <1>3. item[i] \in ItemType /\ item \in [Items -> ItemType] /\ order \in [Intents -> OrderStates]
    BY <1>2 DEF IInv, Formed
  <1> HIDE DEF i
  <1>4. PICK new \in {"paid", "unknown", "closed"}, state \in {"settled", "committed", "cancelled"} :
            /\ order' = [order EXCEPT ![k] = new]
            /\ item' = [item EXCEPT ![i].status = state]
            /\ new = "paid" => state = "settled"
            /\ new = "unknown" => state = "committed"
            /\ new = "closed" => state = "cancelled"
    <2>1. CASE PayOrder(k)
      BY <2>1 DEF PayOrder, i
    <2>2. CASE PaymentUnclear(k)
      <3>1. item' = item /\ order' = [order EXCEPT ![k] = "unknown"]
        BY <2>2 DEF PaymentUnclear, budgetVars
      <3>2. [item[i] EXCEPT !.status = "committed"] = item[i]
        BY <1>2, <1>3 DEF ItemType
      <3>3. item = [item EXCEPT ![i].status = "committed"]
        BY <1>2, <1>3, <3>2
      <3>q. QED BY <3>1, <3>3
    <2>3. CASE CloseOrder(k)
      BY <2>3 DEF CloseOrder, i
    <2>q. QED BY <2>1, <2>2, <2>3
  <1>5. [item[i] EXCEPT !.status = state] \in ItemType
        /\ [item[i] EXCEPT !.status = state].status = state
    BY <1>3 DEF ItemType
  <1>6. /\ item' \in [Items -> ItemType] /\ item'[i].status = state
        /\ \A j \in Items \ {i} : item'[j] = item[j]
        /\ order' \in [Intents -> OrderStates] /\ order'[k] = new
        /\ \A m \in Intents \ {k} : order'[m] = order[m]
    BY <1>2, <1>3, <1>4, <1>5 DEF OrderStates
  <1>7. \A m \in Intents : /\ ItemOf(m)' = ItemOf(m) /\ Live(m)' = Live(m)
                           /\ Keeps(m)' = Keeps(m) /\ UsedIsMade(m)'
    BY <1>1 DEF ItemOf, Live, Keeps, Expired, IInv, UsedIsMade, Used
  <1>8. Formed' /\ (\A b \in Assessments : AssessmentKnown(b)') /\ OneKeeper'
    BY <1>1, <1>6, <1>7 DEF IInv, Formed, AssessmentKnown, OneKeeper
  <1>9. \A m \in Intents \ {k} : Keeps(m) => ItemOf(m) # i
    BY <1>2 DEF IInv, OneKeeper, i
  <1>10. ASSUME NEW m \in Intents, Live(m)' PROVE Held(m)'
    <2>1. Live(m) /\ Held(m) /\ m # k
      BY <1>2, <1>7, <1>10 DEF IInv, Live
    <2>2. ItemOf(m) \in Items \ {i}
      BY <1>9, <2>1, UsedItem DEF Used, Live, Keeps
    <2>q. QED BY <1>1, <1>6, <1>7, <2>1, <2>2 DEF Held
  <1>11. ASSUME NEW m \in Intents PROVE OrderKnown(m)'
    <2>1. CASE m = k
      <3>1. StatusOf(k)' = state /\ order'[k] # "none" /\ ItemOf(k)' = i
        BY <1>4, <1>6, <1>7 DEF StatusOf, i
      <3>q. QED BY <1>1, <1>2, <1>6, <2>1, <3>1 DEF OrderKnown
    <2>2. CASE m # k
      <3>1. OrderKnown(m) /\ (order[m] # "none" => Keeps(m) /\ Used(m))
        BY DEF IInv, OrderKnown, Keeps, Used
      <3>2. order'[m] = order[m] /\ StatusOf(m)' = StatusOf(m)
        BY <1>6, <2>2 DEF StatusOf
      <3>3. order[m] # "none" => item'[ItemOf(m)] = item[ItemOf(m)]
        BY <1>6, <1>9, <2>2, <3>1, UsedItem
      <3>q. QED BY <1>1, <1>7, <3>1, <3>2, <3>3 DEF OrderKnown
    <2>q. QED BY <2>1, <2>2
  <1>12. ASSUME NEW j \in Items PROVE BoughtKnown(j)'
    <2>1. CASE j = i
      BY <1>4, <1>6, <1>7, <2>1 DEF BoughtKnown, i
    <2>2. CASE j # i
      <3> SUFFICES ASSUME item[j].status \in {"committed", "settled"}
                   PROVE  \E m \in Intents : order'[m] # "none" /\ ItemOf(m)' = j
        BY <1>6, <2>2 DEF BoughtKnown
      <3>1. PICK m \in Intents : order[m] # "none" /\ ItemOf(m) = j
        BY DEF IInv, BoughtKnown
      <3>q. QED BY <1>6, <1>7, <2>2, <3>1 DEF i
    <2>q. QED BY <2>1, <2>2
  <1>q. QED BY <1>7, <1>8, <1>10, <1>11, <1>12 DEF IInv

\* An item that may be changed is kept by nobody.
LEMMA FreeIsKeptByNobody ==
    ASSUME IInv, NEW i \in Items, item[i].status = "none" \/ Free(i)
    PROVE  \A k \in Intents : Keeps(k) => ItemOf(k) # i
  <1> SUFFICES ASSUME NEW k \in Intents, Keeps(k), ItemOf(k) = i PROVE FALSE
    OBVIOUS
  <1>1. CASE item[i].status = "none"
    <2>1. CASE Live(k)
      BY <1>1, <2>1 DEF IInv, Held
    <2>2. CASE intent[k].state = "ordered"
      <3>1. order[k] \in OrderStates \ {"none"} /\ item[i].status = StatusOf(k)
        BY <2>2 DEF IInv, OrderKnown, Formed
      <3>q. QED BY <1>1, <3>1 DEF StatusOf, OrderStates
    <2>q. QED BY <2>1, <2>2 DEF Keeps
  <1>2. CASE Free(i)
    <2>1. k \notin Open(i) /\ k \notin Creating
      BY <1>2 DEF Free, Locked
    <2>q. QED BY <2>1 DEF Open, IntentsOf, Creating, Keeps, Live
  <1>q. QED BY <1>1, <1>2

\* A row of an item is replaced that nobody keeps.
LEMMA FreeItemInv ==
    ASSUME IInv, NEW i \in Items, item[i].status = "none" \/ Free(i),
           NEW new \in ItemType, new.status \in {"planned", "cancelled"},
           item' = [item EXCEPT ![i] = new], intent' = Expire(Stale(i)),
           UNCHANGED <<assess, order>>
    PROVE  IInv'
  <1>1. /\ item' \in [Items -> ItemType] /\ item'[i] = new
        /\ \A j \in Items \ {i} : item'[j] = item[j]
    BY DEF IInv, Formed
  <1>2. (\A a \in Assessments : AssessmentKnown(a)') /\ AssessmentsStay
    BY SameAssess
  <1>3. intent' \in [Intents -> IntentType] /\ IntentsEnd
    BY <1>2, ExpireEnds
  <1>4. ItemsFree
    BY <1>1, FreeIsKeptByNobody DEF ItemsFree
  <1>5. Formed'
    BY <1>1, <1>3 DEF IInv, Formed
  <1>q. QED BY <1>2, <1>3, <1>4, <1>5, QuietInv

LEMMA ItemInv ==
    ASSUME IInv, NEW i \in Items,
           \/ \E e \in Estimates : ChangeItem(i, e) \/ LinkEntry(i, e)
           \/ CancelItem(i) \/ UnlinkEntry(i)
    PROVE  IInv'
  <1>1. item[i] \in ItemType /\ item \in [Items -> ItemType]
    BY DEF IInv, Formed
  <1>2. ASSUME NEW e \in Estimates, ChangeItem(i, e) PROVE IInv'
    <2>1. /\ item' = [item EXCEPT ![i] = PlannedItem(e)] /\ intent' = Expire(Stale(i))
          /\ UNCHANGED <<assess, order>>
      BY <1>2 DEF ChangeItem
    <2>2. PlannedItem(e) \in ItemType /\ PlannedItem(e).status = "planned"
      BY DEF PlannedItem, ItemType
    <2>3. item[i].status = "none" \/ Free(i)
      BY <1>2 DEF ChangeItem
    <2>q. QED BY <2>1, <2>2, <2>3, FreeItemInv
  <1>3. ASSUME NEW e \in Estimates, LinkEntry(i, e) PROVE IInv'
    <2> DEFINE new == [item[i] EXCEPT !.covered = e]
    <2>1. /\ item' = [item EXCEPT ![i] = new] /\ intent' = Expire(Stale(i))
          /\ Free(i) /\ UNCHANGED <<assess, order>> /\ e \in Nat
      BY <1>3, AdmissionAssumption DEF LinkEntry
    <2>2. new \in ItemType /\ new.status = "planned"
      BY <1>1, <2>1 DEF ItemType, Free
    <2> HIDE DEF new
    <2>q. QED BY <2>1, <2>2, FreeItemInv
  <1>4. CASE CancelItem(i)
    <2> DEFINE new == [item[i] EXCEPT !.status = "cancelled"]
    <2>1. /\ item' = [item EXCEPT ![i] = new] /\ intent' = Expire(Stale(i))
          /\ Free(i) /\ UNCHANGED <<assess, order>>
      BY <1>4 DEF CancelItem
    <2>2. new \in ItemType /\ new.status = "cancelled"
      BY <1>1 DEF ItemType
    <2> HIDE DEF new
    <2>q. QED BY <2>1, <2>2, FreeItemInv
  <1>5. CASE UnlinkEntry(i)
    <2> DEFINE new == [item[i] EXCEPT !.covered = 0]
    <2>1. /\ item' = [item EXCEPT ![i] = new] /\ item[i].covered > 0
          /\ UNCHANGED <<assess, intent, order>>
      BY <1>5 DEF UnlinkEntry, offerVars
    <2>2. new \in ItemType /\ new.status = item[i].status
      BY <1>1 DEF ItemType
    <2> HIDE DEF new
    <2>3. /\ item' \in [Items -> ItemType] /\ item'[i].status = item[i].status
          /\ \A j \in Items \ {i} : item'[j] = item[j]
      BY <1>1, <2>1, <2>2
    <2>4. \A k \in Intents : Live(k) => ItemOf(k) # i
      BY <2>1 DEF IInv, Held
    <2>5. ItemsFree
      BY <2>3, <2>4 DEF ItemsFree
    <2>q. QED BY <2>1, <2>3, <2>5, BudgetInv
  <1>q. QED BY <1>2, <1>3, <1>4, <1>5

LEMMA OutsideInv ==
    ASSUME IInv,
           \/ \E p \in Periods : (\E t \in Targets : ChangeTarget(p, t)) \/ ClosePeriod(p)
           \/ \E c \in CashLevels : BankFact(c)
           \/ SnapshotAges \/ Revoke \/ Reauthorize \/ MonthEnds
           \/ \E q \in Quotes : OfferQuote(q) \/ WithdrawQuote(q)
    PROVE  IInv'
  <1>1. UNCHANGED <<item, assess, intent, order>>
    BY DEF ChangeTarget, ClosePeriod, BankFact, SnapshotAges, Revoke, Reauthorize,
           MonthEnds, OfferQuote, WithdrawQuote, budgetVars, offerVars
  <1>q. QED BY <1>1, FactInv

------------------------------------------------------------------------------
(* The theorem.                                                            *)

LEMMA StepInv == ASSUME IInv, [Next]_vars PROVE IInv'
  <1>1. CASE UNCHANGED vars
    BY <1>1, FactInv DEF vars, budgetVars, offerVars
  <1>2. CASE PurchaseStep
    BY <1>2, PreviewInv, BeginIntentInv, IntentEndsInv, ConfirmInv DEF PurchaseStep
  <1>3. CASE BudgetStep
    BY <1>3, ItemInv, OutsideInv DEF BudgetStep
  <1>4. CASE FactStep
    BY <1>4, OutsideInv, WorkerInv DEF FactStep
  <1>q. QED BY <1>1, <1>2, <1>3, <1>4 DEF Next

\* An item is bought at most once and goes the way of its order, and a live
\* intent keeps the item it was made for as it was assessed: no edit, link or
\* cancellation gets between the check and the INSERT of the intent.
THEOREM IntentHoldsItemAlways == Spec => []IntentHoldsItem
  <1>1. IInv /\ [Next]_vars => IInv'
    BY StepInv
  <1>q. QED BY InitInv, <1>1, InvImplies, PTL DEF Spec
------------------------------------------------------------------------------
(* The facts behind the versions.                                          *)

AccountType == [linked : BOOLEAN, version : Nat, cash : Int, fresh : BOOLEAN]
PeriodType == [status : {"active", "closed"}, version : Nat, target : Targets]
VersionType == [financial : Nat, period : Nat]

RowsFormed == account \in AccountType /\ period \in [Periods -> PeriodType]

\* What a step changes of the facts shows in a version of the account or of the
\* period, and no version is ever taken back.
FactsFollowVersions ==
    /\ account'.version >= account.version
    /\ account'.version = account.version =>
           account'.cash = account.cash /\ order' = order
    /\ \A p \in Periods :
           /\ period'[p].version >= period[p].version
           /\ period'[p].version = period[p].version =>
                  /\ period'[p].status = period[p].status
                  /\ period'[p].target = period[p].target
                  /\ \A i \in Items : PeriodOf[i] = p => item'[i] = item[i]

\* An order keeps its intent, and an intent that was used its assessment.
BoughtStays ==
    \A k \in Intents : order[k] # "none" =>
        ItemOf(k)' = ItemOf(k) /\ AmountOf(k)' = AmountOf(k)

\* The account's version rises, or nothing it stands for changes.
AccountMoves ==
    /\ account' \in AccountType
    /\ \/ account'.version > account.version
       \/ account'.version = account.version /\ account'.cash = account.cash /\ order' = order

LEMMA AccountRaised ==
    ASSUME RowsFormed, RaiseAccount(1)
    PROVE  AccountMoves
  <1>1. account \in AccountType
    BY DEF RowsFormed
  <1>2. account' = [account EXCEPT !.version = @ + 1]
    BY DEF RaiseAccount
  <1>3. account' \in AccountType /\ account'.version > account.version
    BY <1>1, <1>2 DEF AccountType
  <1>q. QED BY <1>3 DEF AccountMoves

LEMMA AccountReplaced ==
    ASSUME RowsFormed, NEW linked \in BOOLEAN, NEW cash \in Int, NEW fresh \in BOOLEAN,
           account' = [linked |-> linked, version |-> account.version + 1, cash |-> cash,
                       fresh |-> fresh]
    PROVE  AccountMoves
  <1>1. account.version \in Nat
    BY DEF RowsFormed, AccountType
  <1>2. account.version + 1 \in Nat /\ account.version + 1 > account.version
    BY <1>1
  <1>3. account'.version > account.version
    BY <1>2
  <1>4. account' \in AccountType
    BY <1>2 DEF AccountType
  <1>q. QED BY <1>3, <1>4 DEF AccountMoves

LEMMA AccountStays ==
    ASSUME RowsFormed, UNCHANGED <<account, order>>
    PROVE  AccountMoves
  BY DEF RowsFormed, AccountType, AccountMoves

LEMMA PeriodsStay ==
    ASSUME RowsFormed, AccountMoves, UNCHANGED <<period, item>>
    PROVE  RowsFormed' /\ FactsFollowVersions
  <1>1. /\ account'.version \in Nat /\ account.version \in Nat
        /\ \A p \in Periods : period[p].version \in Nat
    BY DEF RowsFormed, AccountMoves, AccountType, PeriodType
  <1>q. QED BY <1>1 DEF RowsFormed, FactsFollowVersions, AccountMoves

\* A period is replaced with a higher version, and with it at most its items.
LEMMA PeriodReplaced ==
    ASSUME RowsFormed, AccountMoves, NEW p \in Periods, NEW new \in PeriodType,
           new.version > period[p].version, period' = [period EXCEPT ![p] = new],
           \A i \in Items : PeriodOf[i] # p => item'[i] = item[i]
    PROVE  RowsFormed' /\ FactsFollowVersions
  <1>1. /\ account'.version \in Nat /\ account.version \in Nat
        /\ \A q \in Periods : period[q].version \in Nat
        /\ new.version \in Nat
    BY DEF RowsFormed, AccountMoves, AccountType, PeriodType
  <1>2. /\ period' \in [Periods -> PeriodType] /\ period'[p] = new
        /\ \A q \in Periods \ {p} : period'[q] = period[q]
    BY DEF RowsFormed
  <1>3. /\ period'[p].version >= period[p].version
        /\ period'[p].version # period[p].version
    BY <1>1, <1>2
  <1>4. \A q \in Periods \ {p} : \A i \in Items : PeriodOf[i] = q => item'[i] = item[i]
    OBVIOUS
  <1>5. \A q \in Periods :
           /\ period'[q].version >= period[q].version
           /\ period'[q].version = period[q].version =>
                  /\ period'[q].status = period[q].status
                  /\ period'[q].target = period[q].target
                  /\ \A i \in Items : PeriodOf[i] = q => item'[i] = item[i]
    BY <1>1, <1>2, <1>3, <1>4
  <1>6. /\ account'.version >= account.version
        /\ account'.version = account.version =>
               account'.cash = account.cash /\ order' = order
    BY <1>1 DEF AccountMoves
  <1>q. QED BY <1>2, <1>5, <1>6 DEF RowsFormed, FactsFollowVersions, AccountMoves

LEMMA ItemTouched ==
    ASSUME RowsFormed, AccountMoves, NEW i \in Items, RaisePeriod(PeriodOf[i]),
           \A j \in Items \ {i} : item'[j] = item[j]
    PROVE  RowsFormed' /\ FactsFollowVersions
  <1> DEFINE p == PeriodOf[i]
             new == [period[p] EXCEPT !.version = @ + 1]
  <1>1. p \in Periods
    BY AdmissionAssumption
  <1>2. period[p] \in PeriodType
    BY <1>1 DEF RowsFormed
  <1>3. new \in PeriodType /\ new.version > period[p].version
    BY <1>2 DEF PeriodType
  <1>4. period' = [period EXCEPT ![p] = new]
    BY DEF RaisePeriod
  <1>5. \A j \in Items : PeriodOf[j] # p => item'[j] = item[j]
    OBVIOUS
  <1> HIDE DEF new, p
  <1>q. QED BY <1>1, <1>3, <1>4, <1>5, PeriodReplaced

\* What an assessment that was begun is about; so its price is an amount.
QuoteKnown == \A a \in Assessments : assess[a].state # "none" => assess[a].quote \in Quotes

LEMMA UsedAmount ==
    ASSUME IInv, QuoteKnown, NEW k \in Intents, Used(k)
    PROVE  AmountOf(k) \in Nat \ {0}
  <1>1. intent[k].of \in Assessments /\ assess[intent[k].of].state = "made"
    BY DEF IInv, UsedIsMade
  <1>2. assess[intent[k].of].quote \in Quotes
    BY <1>1 DEF QuoteKnown
  <1>q. QED BY <1>2, AdmissionAssumption DEF AmountOf, Quotes

LEMMA FactsOfPurchase ==
    ASSUME IInv, RowsFormed, PurchaseStep
    PROVE  RowsFormed' /\ FactsFollowVersions
  <1>1. ASSUME NEW a \in Assessments,
               \/ \E i \in Items, q \in Quotes : BeginAssessment(a, i, q)
               \/ FinishAssessment(a) \/ AbortAssessment(a) \/ AssessmentExpires(a)
        PROVE  UNCHANGED <<account, period, item, order>>
    BY <1>1 DEF BeginAssessment, FinishAssessment, AbortAssessment, AssessmentExpires, budgetVars
  <1>2. ASSUME NEW k \in Intents,
               \/ \E a \in Assessments : BeginIntent(k, a)
               \/ InsertIntent(k) \/ AbortIntent(k) \/ RejectIntent(k)
        PROVE  UNCHANGED <<account, period, item, order>>
    BY <1>2 DEF BeginIntent, InsertIntent, AbortIntent, RejectIntent, budgetVars
  <1>3. ASSUME NEW k \in Intents, ConfirmIntent(k)
        PROVE  RowsFormed' /\ FactsFollowVersions
    <2> DEFINE i == ItemOf(k)
    <2>1. /\ RaiseAccount(1) /\ RaisePeriod(PeriodOf[i]) /\ intent[k].state = "proposed"
          /\ item' = [item EXCEPT ![i].status = "committed"]
      BY <1>3 DEF ConfirmIntent
    <2>2. i \in Items
      BY <2>1, UsedItem DEF Used
    <2> HIDE DEF i
    <2>3. \A j \in Items \ {i} : item'[j] = item[j]
      BY <2>1 DEF IInv, Formed
    <2>q. QED BY <2>1, <2>2, <2>3, AccountRaised, ItemTouched
  <1>q. QED BY <1>1, <1>2, <1>3, AccountStays, PeriodsStay DEF PurchaseStep

\* A row of a period with another target or status, and a version more.
LEMMA PeriodRow ==
    ASSUME NEW old \in PeriodType, NEW t \in Targets, NEW new,
           \/ new = [old EXCEPT !.target = t, !.version = @ + 1]
           \/ new = [old EXCEPT !.status = "closed", !.version = @ + 1]
    PROVE  new \in PeriodType /\ new.version > old.version
  <1>1. /\ old.version + 1 \in Nat /\ old.version + 1 > old.version
        /\ old.status \in {"active", "closed"} /\ old.target \in Targets
    BY DEF PeriodType
  <1>2. CASE new = [old EXCEPT !.target = t, !.version = @ + 1]
    <2>1. new = [status |-> old.status, version |-> old.version + 1, target |-> t]
      BY <1>2 DEF PeriodType
    <2>q. QED BY <1>1, <2>1 DEF PeriodType
  <1>3. CASE new = [old EXCEPT !.status = "closed", !.version = @ + 1]
    <2>1. new = [status |-> "closed", version |-> old.version + 1, target |-> old.target]
      BY <1>3 DEF PeriodType
    <2>q. QED BY <1>1, <2>1 DEF PeriodType
  <1>q. QED BY <1>2, <1>3

LEMMA FactsOfBudget ==
    ASSUME IInv, RowsFormed, BudgetStep
    PROVE  RowsFormed' /\ FactsFollowVersions
  <1>1. ASSUME NEW i \in Items,
               \/ \E e \in Estimates : ChangeItem(i, e) \/ LinkEntry(i, e)
               \/ CancelItem(i) \/ UnlinkEntry(i)
        PROVE  RowsFormed' /\ FactsFollowVersions
    <2>1. item = [j \in Items |-> item[j]]
      BY DEF IInv, Formed
    <2>2. /\ UNCHANGED <<account, order>> /\ RaisePeriod(PeriodOf[i])
          /\ \A j \in Items \ {i} : item'[j] = item[j]
      BY <1>1, <2>1 DEF ChangeItem, LinkEntry, CancelItem, UnlinkEntry, offerVars
    <2>q. QED BY <2>2, AccountStays, ItemTouched
  <1>2. ASSUME NEW p \in Periods, NEW t \in Targets, ChangeTarget(p, t)
        PROVE  RowsFormed' /\ FactsFollowVersions
    <2> DEFINE new == [period[p] EXCEPT !.target = t, !.version = @ + 1]
    <2>a. period[p] \in PeriodType
      BY DEF RowsFormed
    <2>1. new \in PeriodType /\ new.version > period[p].version
      BY <2>a, PeriodRow, AdmissionAssumption
    <2>2. period' = [period EXCEPT ![p] = new] /\ UNCHANGED <<account, item, order>>
      BY <1>2 DEF ChangeTarget, offerVars
    <2> HIDE DEF new
    <2>q. QED BY <2>1, <2>2, AccountStays, PeriodReplaced
  <1>3. ASSUME NEW p \in Periods, ClosePeriod(p)
        PROVE  RowsFormed' /\ FactsFollowVersions
    <2> DEFINE new == [period[p] EXCEPT !.status = "closed", !.version = @ + 1]
    <2>a. period[p] \in PeriodType
      BY DEF RowsFormed
    <2>1. new \in PeriodType /\ new.version > period[p].version
      BY <2>a, PeriodRow, AdmissionAssumption
    <2>2. period' = [period EXCEPT ![p] = new] /\ UNCHANGED <<account, item, order>>
      BY <1>3 DEF ClosePeriod, offerVars
    <2> HIDE DEF new
    <2>q. QED BY <2>1, <2>2, AccountStays, PeriodReplaced
  <1>q. QED BY <1>1, <1>2, <1>3 DEF BudgetStep

LEMMA FactsOfWorker ==
    ASSUME IInv, RowsFormed, QuoteKnown, NEW k \in Intents,
           PayOrder(k) \/ PaymentUnclear(k) \/ CloseOrder(k)
    PROVE  RowsFormed' /\ FactsFollowVersions
  <1> DEFINE i == ItemOf(k)
  <1>1. order[k] \in {"pending", "unknown"}
    BY DEF PayOrder, PaymentUnclear, CloseOrder
  <1>2. Used(k) /\ i \in Items
    BY <1>1, UsedItem DEF IInv, OrderKnown, Used
  <1>3. AmountOf(k) \in Nat
    BY <1>2, UsedAmount
  <1>4. item = [j \in Items |-> item[j]]
    BY DEF IInv, Formed
  <1>5. CASE PaymentUnclear(k)
    BY <1>5, AccountRaised, PeriodsStay DEF PaymentUnclear, budgetVars
  <1>6. CASE CloseOrder(k)
    <2>1. /\ RaiseAccount(1) /\ RaisePeriod(PeriodOf[i])
          /\ \A j \in Items \ {i} : item'[j] = item[j]
      BY <1>4, <1>6 DEF CloseOrder
    <2>q. QED BY <1>2, <2>1, AccountRaised, ItemTouched
  <1>7. CASE PayOrder(k)
    <2>1. /\ account' = [account EXCEPT !.cash = @ - AmountOf(k), !.version = @ + 2]
          /\ RaisePeriod(PeriodOf[i])
          /\ \A j \in Items \ {i} : item'[j] = item[j]
      BY <1>4, <1>7 DEF PayOrder
    <2>2. account \in AccountType
      BY DEF RowsFormed
    <2>a. account' = [linked |-> account.linked, version |-> account.version + 2,
                      cash |-> account.cash - AmountOf(k), fresh |-> account.fresh]
      BY <2>1, <2>2 DEF AccountType
    <2>b. /\ account.linked \in BOOLEAN /\ account.fresh \in BOOLEAN
          /\ account.version \in Nat /\ account.cash \in Int
      BY <2>2 DEF AccountType
    <2>c. account.version + 2 \in Nat /\ account.cash - AmountOf(k) \in Int
      BY <1>3, <2>b
    <2>d. account'.version > account.version
      BY <2>a, <2>b
    <2>e. account' \in AccountType
      BY <2>a, <2>b, <2>c DEF AccountType
    <2>4. AccountMoves
      BY <2>d, <2>e DEF AccountMoves
    <2>q. QED BY <1>2, <2>1, <2>4, ItemTouched
  <1>q. QED BY <1>5, <1>6, <1>7

LEMMA FactsOfOutside ==
    ASSUME IInv, RowsFormed, QuoteKnown, FactStep
    PROVE  RowsFormed' /\ FactsFollowVersions
  <1>1. account \in AccountType /\ period \in [Periods -> PeriodType]
    BY DEF RowsFormed
  <1>2. ASSUME NEW c \in CashLevels, BankFact(c)
        PROVE  RowsFormed' /\ FactsFollowVersions
    <2>1. c \in Int
      BY AdmissionAssumption
    <2>2. /\ account' = [account EXCEPT !.cash = c, !.fresh = TRUE, !.version = @ + 1]
          /\ UNCHANGED <<period, item>>
      BY <1>2 DEF BankFact, budgetVars
    <2>3. account' = [linked |-> account.linked, version |-> account.version + 1,
                      cash |-> c, fresh |-> TRUE]
      BY <1>1, <2>2 DEF AccountType
    <2>4. account.linked \in BOOLEAN
      BY <1>1 DEF AccountType
    <2>5. AccountMoves
      BY <2>1, <2>3, <2>4, AccountReplaced
    <2>q. QED BY <2>2, <2>5, PeriodsStay
  <1>3. CASE SnapshotAges
    <2>1. account' = [account EXCEPT !.fresh = FALSE] /\ UNCHANGED <<period, item, order>>
      BY <1>3 DEF SnapshotAges, budgetVars
    <2>2. account' = [linked |-> account.linked, version |-> account.version,
                      cash |-> account.cash, fresh |-> FALSE]
      BY <1>1, <2>1 DEF AccountType
    <2>3. /\ account.linked \in BOOLEAN /\ account.version \in Nat /\ account.cash \in Int
      BY <1>1 DEF AccountType
    <2>4. account' \in AccountType
      BY <2>2, <2>3 DEF AccountType
    <2>5. AccountMoves
      BY <2>1, <2>2, <2>4 DEF AccountMoves
    <2>q. QED BY <2>1, <2>5, PeriodsStay
  <1>4. CASE Reauthorize
    <2>1. /\ account' = [account EXCEPT !.linked = TRUE, !.version = @ + 1]
          /\ UNCHANGED <<period, item>>
      BY <1>4 DEF Reauthorize, budgetVars
    <2>2. account' = [linked |-> TRUE, version |-> account.version + 1,
                      cash |-> account.cash, fresh |-> account.fresh]
      BY <1>1, <2>1 DEF AccountType
    <2>3. account.cash \in Int /\ account.fresh \in BOOLEAN
      BY <1>1 DEF AccountType
    <2>4. AccountMoves
      BY <2>2, <2>3, AccountReplaced
    <2>q. QED BY <2>1, <2>4, PeriodsStay
  <1>5. CASE Revoke
    <2>1. /\ account' = [account EXCEPT !.linked = FALSE, !.version = @ + 1]
          /\ period' = [p \in Periods |-> [period[p] EXCEPT !.version = @ + 1]]
      BY <1>5 DEF Revoke
    <2>a. account' = [linked |-> FALSE, version |-> account.version + 1,
                      cash |-> account.cash, fresh |-> account.fresh]
      BY <1>1, <2>1 DEF AccountType
    <2>b. account.cash \in Int /\ account.fresh \in BOOLEAN /\ account.version \in Nat
      BY <1>1 DEF AccountType
    <2>c. AccountMoves
      BY <2>a, <2>b, AccountReplaced
    <2>2. account' \in AccountType /\ account'.version > account.version
      BY <2>a, <2>b, <2>c DEF AccountMoves
    <2>3. \A p \in Periods : /\ period'[p] \in PeriodType
                             /\ period'[p].version > period[p].version
                             /\ period[p].version \in Nat /\ period'[p].version \in Nat
      BY <1>1, <2>1 DEF PeriodType
    <2>4. period' \in [Periods -> PeriodType]
      BY <2>1, <2>3
    <2>5. account.version \in Nat /\ account'.version \in Nat
      BY <1>1, <2>2 DEF AccountType
    <2>6. FactsFollowVersions
      BY <2>2, <2>3, <2>5 DEF FactsFollowVersions
    <2>q. QED BY <2>2, <2>4, <2>6 DEF RowsFormed
  <1>6. CASE MonthEnds \/ \E q \in Quotes : OfferQuote(q) \/ WithdrawQuote(q)
    <2>1. UNCHANGED <<account, period, item, order>>
      BY <1>6 DEF MonthEnds, OfferQuote, WithdrawQuote, budgetVars
    <2>q. QED BY <2>1, AccountStays, PeriodsStay
  <1>q. QED BY <1>2, <1>3, <1>4, <1>5, <1>6, FactsOfWorker DEF FactStep

LEMMA FactsKept ==
    ASSUME IInv, RowsFormed, QuoteKnown, [Next]_vars
    PROVE  RowsFormed' /\ FactsFollowVersions
  <1>1. CASE UNCHANGED vars
    BY <1>1, AccountStays, PeriodsStay DEF vars, budgetVars
  <1>q. QED BY <1>1, FactsOfPurchase, FactsOfBudget, FactsOfOutside DEF Next

------------------------------------------------------------------------------
(* What a step does to an assessment, and to an intent with an order.      *)

AssessmentStep(a) ==
    \/ assess'[a] = assess[a]
    \/ /\ assess'[a] = NoAssessment
       /\ assess[a].state = "made" => \A k \in Intents : intent[k].of # a
    \/ /\ assess[a].state = "made"
       /\ assess'[a] = [assess[a] EXCEPT !.expired = TRUE]
    \/ \E i \in Items, q \in Quotes : BeginAssessment(a, i, q)
    \/ FinishAssessment(a)

LEMMA AssessmentSteps ==
    ASSUME IInv, [Next]_vars
    PROVE  \A a \in Assessments : AssessmentStep(a)
  <1>a. assess = [a \in Assessments |-> assess[a]]
    BY DEF IInv, Formed
  <1>1. ASSUME NEW b \in Assessments,
               \/ \E i \in Items, q \in Quotes : BeginAssessment(b, i, q)
               \/ FinishAssessment(b)
        PROVE  \A a \in Assessments : AssessmentStep(a)
    <2>1. \A a \in Assessments \ {b} : assess'[a] = assess[a]
      BY <1>a, <1>1 DEF BeginAssessment, FinishAssessment
    <2>q. QED BY <1>1, <2>1 DEF AssessmentStep
  <1>2. ASSUME NEW b \in Assessments, AbortAssessment(b)
        PROVE  \A a \in Assessments : AssessmentStep(a)
    <2>1. \A a \in Assessments \ {b} : assess'[a] = assess[a]
      BY <1>a, <1>2 DEF AbortAssessment
    <2>2. assess'[b] = NoAssessment /\ assess[b].state = "reading"
      BY <1>a, <1>2 DEF AbortAssessment
    <2>q. QED BY <2>1, <2>2 DEF AssessmentStep
  <1>3. ASSUME NEW b \in Assessments, AssessmentExpires(b)
        PROVE  \A a \in Assessments : AssessmentStep(a)
    <2>1. \A a \in Assessments \ {b} : assess'[a] = assess[a]
      BY <1>a, <1>3 DEF AssessmentExpires
    <2>2. /\ assess[b].state = "made"
          /\ assess'[b] = IF \E k \in Intents : intent[k].of = b
                          THEN [assess[b] EXCEPT !.expired = TRUE] ELSE NoAssessment
      BY <1>a, <1>3 DEF AssessmentExpires
    <2>q. QED BY <2>1, <2>2 DEF AssessmentStep
  <1>4. CASE UNCHANGED assess
    BY <1>4 DEF AssessmentStep
  <1>5. ASSUME NEW k \in Intents,
               \/ \E a \in Assessments : BeginIntent(k, a)
               \/ InsertIntent(k) \/ AbortIntent(k) \/ RejectIntent(k) \/ ConfirmIntent(k)
               \/ PayOrder(k) \/ PaymentUnclear(k) \/ CloseOrder(k)
        PROVE  UNCHANGED assess
    BY <1>5 DEF BeginIntent, InsertIntent, AbortIntent, RejectIntent, ConfirmIntent,
                PayOrder, PaymentUnclear, CloseOrder, offerVars
  <1>6. ASSUME NEW i \in Items,
               \/ \E e \in Estimates : ChangeItem(i, e) \/ LinkEntry(i, e)
               \/ CancelItem(i) \/ UnlinkEntry(i)
        PROVE  UNCHANGED assess
    BY <1>6 DEF ChangeItem, LinkEntry, CancelItem, UnlinkEntry, offerVars
  <1>7. CASE \/ \E p \in Periods : (\E t \in Targets : ChangeTarget(p, t)) \/ ClosePeriod(p)
             \/ \E c \in CashLevels : BankFact(c)
             \/ SnapshotAges \/ Revoke \/ Reauthorize \/ MonthEnds
             \/ \E q \in Quotes : OfferQuote(q) \/ WithdrawQuote(q)
    BY <1>4, <1>7 DEF ChangeTarget, ClosePeriod, BankFact, SnapshotAges, Revoke, Reauthorize,
                      MonthEnds, OfferQuote, WithdrawQuote, offerVars
  <1>8. CASE UNCHANGED vars
    BY <1>4, <1>8 DEF vars, offerVars
  <1>9. CASE PurchaseStep
    BY <1>1, <1>2, <1>3, <1>4, <1>5, <1>9 DEF PurchaseStep
  <1>10. CASE BudgetStep
    BY <1>4, <1>6, <1>7, <1>10 DEF BudgetStep
  <1>11. CASE FactStep
    BY <1>4, <1>5, <1>7, <1>11 DEF FactStep
  <1>q. QED BY <1>8, <1>9, <1>10, <1>11 DEF Next

\* How an intent moves: not at all, by its own steps, or because it expires.
IntentStep(k) ==
    \/ intent'[k] = intent[k]
    \/ intent[k].state \in {"none", "creating"}
    \/ intent[k].state = "proposed" /\ intent'[k].state \in {"expired", "rejected"}
    \/ ConfirmIntent(k)

LEMMA ExpireStep ==
    ASSUME IInv, NEW K, intent' = Expire(K)
    PROVE  \A k \in Intents : IntentStep(k)
  <1> TAKE k \in Intents
  <1>1. intent[k] \in IntentType
    BY DEF IInv, Formed
  <1>2. intent'[k] = IF k \in K /\ intent[k].state = "proposed"
                     THEN [intent[k] EXCEPT !.state = "expired"] ELSE intent[k]
    BY DEF Expire
  <1>3. [intent[k] EXCEPT !.state = "expired"].state = "expired"
    BY <1>1 DEF IntentType
  <1>q. QED BY <1>2, <1>3 DEF IntentStep

LEMMA IntentSteps ==
    ASSUME IInv, [Next]_vars
    PROVE  \A k \in Intents : IntentStep(k)
  <1>a. intent \in [Intents -> IntentType]
    BY DEF IInv, Formed
  <1>1. ASSUME NEW m \in Intents,
               (\E a \in Assessments : BeginIntent(m, a)) \/ AbortIntent(m)
        PROVE  \A k \in Intents : IntentStep(k)
    BY <1>a, <1>1 DEF BeginIntent, AbortIntent, IntentStep
  <1>2. ASSUME NEW m \in Intents, InsertIntent(m)
        PROVE  \A k \in Intents : IntentStep(k)
    <2> TAKE k \in Intents
    <2>1. intent[m].state = "creating"
      BY <1>2 DEF InsertIntent
    <2>2. CASE k = m
      BY <2>1, <2>2 DEF IntentStep
    <2>3. CASE k # m
      <3>1. intent'[k] = Expire(Proposed(ItemOf(m)))[k]
        BY <1>2, <2>3 DEF InsertIntent, Expire
      <3>2. intent'[k] = IF k \in Proposed(ItemOf(m)) /\ intent[k].state = "proposed"
                         THEN [intent[k] EXCEPT !.state = "expired"] ELSE intent[k]
        BY <3>1 DEF Expire
      <3>3. [intent[k] EXCEPT !.state = "expired"].state = "expired"
        BY <1>a DEF IntentType
      <3>q. QED BY <3>2, <3>3 DEF IntentStep
    <2>q. QED BY <2>2, <2>3
  <1>3. ASSUME NEW m \in Intents, RejectIntent(m)
        PROVE  \A k \in Intents : IntentStep(k)
    <2>1. /\ intent[m].state = "proposed" /\ intent[m] \in IntentType
          /\ \A k \in Intents \ {m} : intent'[k] = intent[k]
          /\ intent'[m] = [intent[m] EXCEPT !.state =
                              IF Expired(m) THEN "expired" ELSE "rejected"]
      BY <1>a, <1>3 DEF RejectIntent
    <2>2. intent'[m].state \in {"expired", "rejected"}
      BY <2>1 DEF IntentType
    <2>q. QED BY <2>1, <2>2 DEF IntentStep
  <1>4. ASSUME NEW m \in Intents, ConfirmIntent(m)
        PROVE  \A k \in Intents : IntentStep(k)
    <2>1. \A k \in Intents \ {m} : intent'[k] = intent[k]
      BY <1>a, <1>4 DEF ConfirmIntent
    <2>q. QED BY <1>4, <2>1 DEF IntentStep
  <1>5. CASE UNCHANGED intent
    BY <1>5 DEF IntentStep
  <1>6. ASSUME NEW a \in Assessments,
               \/ \E i \in Items, q \in Quotes : BeginAssessment(a, i, q)
               \/ FinishAssessment(a) \/ AbortAssessment(a) \/ AssessmentExpires(a)
        PROVE  UNCHANGED intent \/ \E K : intent' = Expire(K)
    BY <1>6 DEF BeginAssessment, FinishAssessment, AbortAssessment, AssessmentExpires
  <1>7. ASSUME NEW i \in Items,
               \/ \E e \in Estimates : ChangeItem(i, e) \/ LinkEntry(i, e)
               \/ CancelItem(i) \/ UnlinkEntry(i)
        PROVE  UNCHANGED intent \/ \E K : intent' = Expire(K)
    BY <1>7 DEF ChangeItem, LinkEntry, CancelItem, UnlinkEntry, offerVars
  <1>8. CASE \/ \E p \in Periods : (\E t \in Targets : ChangeTarget(p, t)) \/ ClosePeriod(p)
             \/ \E c \in CashLevels : BankFact(c)
             \/ SnapshotAges \/ Revoke \/ Reauthorize \/ MonthEnds
             \/ \E q \in Quotes : OfferQuote(q) \/ WithdrawQuote(q)
             \/ \E k \in Intents : PayOrder(k) \/ PaymentUnclear(k) \/ CloseOrder(k)
    BY <1>5, <1>8 DEF ChangeTarget, ClosePeriod, BankFact, SnapshotAges, Revoke, Reauthorize,
                      MonthEnds, OfferQuote, WithdrawQuote, offerVars, PayOrder,
                      PaymentUnclear, CloseOrder
  <1>9. CASE UNCHANGED vars
    BY <1>5, <1>9 DEF vars, offerVars
  <1>10. CASE PurchaseStep
    BY <1>1, <1>2, <1>3, <1>4, <1>5, <1>6, <1>10, ExpireStep DEF PurchaseStep
  <1>11. CASE BudgetStep
    BY <1>5, <1>7, <1>8, <1>11, ExpireStep DEF BudgetStep
  <1>12. CASE FactStep
    BY <1>8, <1>12 DEF FactStep
  <1>q. QED BY <1>9, <1>10, <1>11, <1>12 DEF Next

LEMMA WhoConfirms ==
    ASSUME IInv, [Next]_vars, NEW k \in Intents, Confirms(k)
    PROVE  ConfirmIntent(k)
  <1>1. IntentStep(k)
    BY IntentSteps
  <1>q. QED BY <1>1 DEF IntentStep, Confirms

LEMMA BoughtKept ==
    ASSUME IInv, [Next]_vars
    PROVE  BoughtStays
  <1> SUFFICES ASSUME NEW k \in Intents, order[k] # "none"
               PROVE  ItemOf(k)' = ItemOf(k) /\ AmountOf(k)' = AmountOf(k)
    BY DEF BoughtStays
  <1> DEFINE a == intent[k].of
  <1>1. intent[k].state = "ordered" /\ a \in Assessments /\ assess[a].state = "made"
    BY DEF IInv, OrderKnown, UsedIsMade, Used
  <1>2. intent'[k] = intent[k]
    <2>1. IntentStep(k)
      BY IntentSteps
    <2>q. QED BY <1>1, <2>1 DEF IntentStep, ConfirmIntent
  <1>3. assess'[a].item = assess[a].item /\ assess'[a].quote = assess[a].quote
    <2>1. AssessmentStep(a) /\ DOMAIN assess[a] = Fields
      BY <1>1, AssessmentSteps DEF IInv, Formed
    <2>2. CASE assess'[a] = assess[a]
      BY <2>2
    <2>3. CASE assess'[a] = [assess[a] EXCEPT !.expired = TRUE]
      BY <2>1, <2>3 DEF Fields
    <2>q. QED BY <1>1, <2>1, <2>2, <2>3 DEF AssessmentStep, BeginAssessment, FinishAssessment
  <1>q. QED BY <1>2, <1>3 DEF ItemOf, AmountOf

------------------------------------------------------------------------------
(* What was shown is what the versions stand for.                          *)

\* Neither version of an assessment is ahead of the rows.  While it is made, the
\* target is that of its period's version; what it was made from is what both
\* versions stand for.
SeenKnown(a) ==
    LET p == PeriodOf[assess[a].item]  versions == assess[a].versions IN
    assess[a].state # "none" =>
        /\ versions \in VersionType
        /\ versions.financial <= account.version
        /\ versions.period <= period[p].version
        /\ assess[a].state = "reading" /\ versions.period = period[p].version
               => assess[a].seen.target = period[p].target
        /\ assess[a].state = "made" /\ versions = Versions(p)
               => assess[a].seen = Basis(p)

FactsInv == RowsFormed /\ QuoteKnown /\ \A a \in Assessments : SeenKnown(a)

\* Equal functions have equal sums, in the next state too.
LEMMA SameStanding ==
    ASSUME IInv, BoughtStays, UNCHANGED order, NEW p \in Periods,
           period'[p].status = period[p].status,
           \A i \in Items : PeriodOf[i] = p => item'[i] = item[i]
    PROVE  /\ ActiveOrders' = ActiveOrders
           /\ Standing(p)' = Standing(p) /\ Planned(p, {})' = Planned(p, {})
  <1>1. /\ Ordered' = Ordered /\ ActiveOrders' = ActiveOrders
        /\ \A k \in ActiveOrders : order[k] # "none" /\ k \in Intents
    BY DEF Ordered, ActiveOrders
  <1>2. \A k \in ActiveOrders : ItemOf(k)' = ItemOf(k)
    BY <1>1 DEF BoughtStays
  <1>3. \A i \in Items : ActiveOrdersOf(i)' = ActiveOrdersOf(i)
    BY <1>1, <1>2 DEF ActiveOrdersOf
  <1>4. Standing(p)' = Standing(p)
    BY <1>3 DEF Standing
  <1>5. \A i \in Standing(p) : Remaining(i)' = Remaining(i)
    BY DEF Standing, Remaining
  <1>6. [i \in Standing(p) \ {} |-> Remaining(i)]' = [i \in Standing(p) \ {} |-> Remaining(i)]
    BY <1>4, <1>5
  <1>7. Planned(p, {})' = Planned(p, {})
    BY <1>6 DEF Planned
  <1>q. QED BY <1>1, <1>4, <1>7

LEMMA SameBasis ==
    ASSUME IInv, BoughtStays, FactsFollowVersions, NEW p \in Periods,
           account'.version = account.version, period'[p].version = period[p].version
    PROVE  Basis(p)' = Basis(p)
  <1>1. /\ account'.cash = account.cash /\ order' = order
        /\ period'[p].status = period[p].status /\ period'[p].target = period[p].target
        /\ \A i \in Items : PeriodOf[i] = p => item'[i] = item[i]
    BY DEF FactsFollowVersions
  <1>2. ActiveOrders' = ActiveOrders /\ Planned(p, {})' = Planned(p, {})
    BY <1>1, SameStanding
  <1>3. Due' = Due /\ \A k \in Due : order[k] # "none" /\ k \in Intents
    BY <1>1, <1>2 DEF Due, ActiveOrders, Ordered
  <1>4. [k \in Due |-> AmountOf(k)]' = [k \in Due |-> AmountOf(k)]
    BY <1>3 DEF BoughtStays
  <1>5. Committed' = Committed
    BY <1>4 DEF Committed
  <1>q. QED BY <1>1, <1>2, <1>5 DEF Basis

\* A row of an assessment that only expires, or stays.
LEMMA SeenStays ==
    ASSUME IInv, FactsInv, RowsFormed', FactsFollowVersions, BoughtStays,
           NEW a \in Assessments, assess[a].state # "none",
           assess'[a].item = assess[a].item, assess'[a].versions = assess[a].versions,
           assess'[a].seen = assess[a].seen, assess'[a].state = assess[a].state
    PROVE  SeenKnown(a)'
  <1>1. PICK p \in Periods : p = PeriodOf[assess[a].item]
    BY AdmissionAssumption DEF IInv, AssessmentKnown
  <1>2. PICK versions \in VersionType : versions = assess[a].versions
    BY DEF FactsInv, SeenKnown
  <1>3. /\ versions.financial <= account.version /\ versions.period <= period[p].version
        /\ assess[a].state = "reading" /\ versions.period = period[p].version
               => assess[a].seen.target = period[p].target
        /\ assess[a].state = "made" /\ versions = Versions(p) => assess[a].seen = Basis(p)
    BY <1>1, <1>2 DEF FactsInv, SeenKnown
  <1>4. /\ account.version \in Nat /\ account'.version \in Nat
        /\ period[p].version \in Nat /\ period'[p].version \in Nat
        /\ versions.financial \in Nat /\ versions.period \in Nat
    BY DEF FactsInv, RowsFormed, AccountType, PeriodType, VersionType
  <1>5. /\ account'.version >= account.version /\ period'[p].version >= period[p].version
        /\ period'[p].version = period[p].version => period'[p].target = period[p].target
    BY DEF FactsFollowVersions
  <1>6. versions.financial <= account'.version /\ versions.period <= period'[p].version
    BY <1>3, <1>4, <1>5
  <1>7. versions.period = period'[p].version => period'[p].version = period[p].version
    BY <1>3, <1>4, <1>5
  <1>8. ASSUME versions = Versions(p)'
        PROVE  versions = Versions(p) /\ Basis(p)' = Basis(p)
    <2>1. versions.period = period'[p].version /\ versions.financial = account'.version
      BY <1>8 DEF Versions
    <2>2. account'.version = account.version /\ period'[p].version = period[p].version
      BY <1>3, <1>4, <1>5, <2>1
    <2>3. Basis(p)' = Basis(p)
      BY <2>2, SameBasis
    <2>q. QED BY <1>8, <2>2, <2>3 DEF Versions
  <1>9. /\ assess[a].state = "reading" /\ versions.period = period'[p].version
               => assess[a].seen.target = period'[p].target
        /\ assess[a].state = "made" /\ versions = Versions(p)' => assess[a].seen = Basis(p)'
    BY <1>3, <1>5, <1>7, <1>8
  <1>10. PeriodOf[assess'[a].item] = p /\ assess'[a].versions = versions
    BY <1>1, <1>2
  <1>q. QED BY <1>6, <1>9, <1>10 DEF SeenKnown

LEMMA SeenBegins ==
    ASSUME IInv, FactsInv, NEW a \in Assessments, NEW i \in Items, NEW q \in Quotes,
           BeginAssessment(a, i, q)
    PROVE  SeenKnown(a)' /\ assess'[a].quote \in Quotes
  <1>1. PICK p \in Periods : p = PeriodOf[i]
    BY AdmissionAssumption
  <1>2. DOMAIN assess[a] = Fields /\ assess = [b \in Assessments |-> assess[b]]
    BY DEF IInv, Formed
  <1> DEFINE seen == [NoBasis EXCEPT !.target = period[p].target]
  <1>3. /\ assess'[a].state = "reading" /\ assess'[a].item = i /\ assess'[a].quote = q
        /\ assess'[a].versions = Versions(p) /\ assess'[a].seen = seen
        /\ UNCHANGED <<account, period>>
    BY <1>1, <1>2 DEF BeginAssessment, Fields, budgetVars
  <1>4. seen.target = period[p].target
    BY DEF NoBasis
  <1>5. /\ Versions(p) \in VersionType /\ Versions(p).period = period[p].version
        /\ Versions(p).financial = account.version
        /\ account.version <= account.version /\ period[p].version <= period[p].version
    BY DEF Versions, VersionType, FactsInv, RowsFormed, AccountType, PeriodType
  <1> HIDE DEF seen
  <1>6. PeriodOf[assess'[a].item] = p
    BY <1>1, <1>3
  <1>q. QED BY <1>3, <1>4, <1>5, <1>6 DEF SeenKnown

\* The facts are read at the end; they are those of the versions unless one has
\* risen since, and then it never is that of the assessment again.
LEMMA SeenFinished ==
    ASSUME IInv, FactsInv, FactsFollowVersions, BoughtStays, NEW a \in Assessments,
           FinishAssessment(a)
    PROVE  SeenKnown(a)' /\ assess'[a].quote \in Quotes
  <1>1. assess[a].state = "reading" /\ UNCHANGED <<account, period>>
    BY DEF FinishAssessment, budgetVars
  <1>2. PICK p \in Periods : p = PeriodOf[assess[a].item]
    BY <1>1, AdmissionAssumption DEF IInv, AssessmentKnown
  <1>3. DOMAIN assess[a] = Fields /\ assess = [b \in Assessments |-> assess[b]]
    BY DEF IInv, Formed
  <1> DEFINE seen == [Basis(p) EXCEPT !.target = assess[a].seen.target]
  <1>4. /\ assess'[a].state = "made" /\ assess'[a].item = assess[a].item
        /\ assess'[a].quote = assess[a].quote /\ assess'[a].versions = assess[a].versions
        /\ assess'[a].seen = seen
    BY <1>2, <1>3 DEF FinishAssessment, StoredVersions, Fields
  <1>5. Versions(p)' = Versions(p) /\ Basis(p)' = Basis(p)
    <2>1. Basis(p)' = Basis(p)
      BY <1>1, SameBasis
    <2>q. QED BY <1>1, <2>1 DEF Versions
  <1>6. assess[a].versions = Versions(p) => seen = Basis(p)
    <2>1. assess[a].versions = Versions(p) => assess[a].seen.target = period[p].target
      BY <1>1, <1>2 DEF FactsInv, SeenKnown, Versions
    <2>2. assess[a].seen.target = period[p].target => seen = Basis(p)
      BY DEF Basis
    <2>q. QED BY <2>1, <2>2
  <1>7. /\ assess[a].versions \in VersionType
        /\ assess[a].versions.financial <= account.version
        /\ assess[a].versions.period <= period[p].version
    BY <1>1, <1>2 DEF FactsInv, SeenKnown
  <1> HIDE DEF seen
  <1>8. PeriodOf[assess'[a].item] = p
    BY <1>2, <1>4
  <1>9. SeenKnown(a)'
    BY <1>1, <1>4, <1>5, <1>6, <1>7, <1>8 DEF SeenKnown
  <1>q. QED BY <1>1, <1>4, <1>9 DEF FactsInv, QuoteKnown

LEMMA FactsStep ==
    ASSUME IInv, FactsInv, [Next]_vars
    PROVE  FactsInv'
  <1>1. RowsFormed' /\ FactsFollowVersions /\ BoughtStays
    BY FactsKept, BoughtKept DEF FactsInv
  <1>2. ASSUME NEW a \in Assessments
        PROVE  SeenKnown(a)' /\ (assess'[a].state # "none" => assess'[a].quote \in Quotes)
    <2>1. AssessmentStep(a) /\ DOMAIN assess[a] = Fields
      BY AssessmentSteps DEF IInv, Formed
    <2>2. assess[a].state # "none" => assess[a].quote \in Quotes
      BY DEF FactsInv, QuoteKnown
    <2>3. CASE assess'[a].state = "none"
      BY <2>3 DEF SeenKnown
    <2>4. CASE assess[a].state # "none" /\ assess'[a] = assess[a]
      BY <1>1, <2>2, <2>4, SeenStays
    <2>5. CASE assess[a].state = "made" /\ assess'[a] = [assess[a] EXCEPT !.expired = TRUE]
      <3>1. /\ assess'[a].item = assess[a].item /\ assess'[a].versions = assess[a].versions
            /\ assess'[a].seen = assess[a].seen /\ assess'[a].state = assess[a].state
            /\ assess'[a].quote = assess[a].quote
        BY <2>1, <2>5 DEF Fields
      <3>q. QED BY <1>1, <2>2, <2>5, <3>1, SeenStays
    <2>6. CASE \E i \in Items, q \in Quotes : BeginAssessment(a, i, q)
      BY <2>6, SeenBegins
    <2>7. CASE FinishAssessment(a)
      BY <1>1, <2>7, SeenFinished
    <2>8. NoAssessment.state = "none"
      BY DEF NoAssessment
    <2>q. QED BY <2>1, <2>3, <2>4, <2>5, <2>6, <2>7, <2>8 DEF AssessmentStep
  <1>q. QED BY <1>1, <1>2 DEF FactsInv, QuoteKnown

LEMMA FactsInit == Init => FactsInv
  <1> SUFFICES ASSUME Init PROVE FactsInv
    OBVIOUS
  <1>1. account = [linked |-> TRUE, version |-> 1, cash |-> Max(CashLevels), fresh |-> TRUE]
    BY DEF Init
  <1>2. Max(CashLevels) \in Int
    BY AdmissionAssumption
  <1>3. account \in AccountType
    BY <1>1, <1>2 DEF AccountType
  <1>4. period \in [Periods -> PeriodType]
    BY AdmissionAssumption DEF Init, PeriodType
  <1>5. \A a \in Assessments : assess[a].state = "none"
    BY DEF Init, NoAssessment
  <1>q. QED BY <1>3, <1>4, <1>5 DEF FactsInv, RowsFormed, QuoteKnown, SeenKnown

LEMMA FactsAlways == Spec => [](IInv /\ FactsInv)
  <1>1. IInv /\ FactsInv /\ [Next]_vars => (IInv /\ FactsInv)'
    BY StepInv, FactsStep
  <1>q. QED BY InitInv, FactsInit, <1>1, PTL DEF Spec

------------------------------------------------------------------------------
(* What is confirmed.                                                      *)

AsShown ==
    \A k \in Intents : Confirms(k) =>
        LET a == intent[k].of IN
        /\ assess[a].seen = Basis(PeriodOf[ItemOf(k)])
        /\ assess[a].estimate = item[ItemOf(k)].estimate

LEMMA ConfirmShows ==
    ASSUME IInv, FactsInv, [Next]_vars
    PROVE  AsShown
  <1> SUFFICES ASSUME NEW k \in Intents, Confirms(k)
               PROVE  /\ assess[intent[k].of].seen = Basis(PeriodOf[ItemOf(k)])
                      /\ assess[intent[k].of].estimate = item[ItemOf(k)].estimate
    BY DEF AsShown
  <1>1. /\ intent[k].state = "proposed" /\ VersionsHold(k)
        /\ ~assess[intent[k].of].expired
    BY WhoConfirms DEF ConfirmIntent
  <1>2. Live(k) /\ Used(k)
    BY <1>1 DEF Live, Expired, Used
  <1>3. /\ Held(k) /\ assess[intent[k].of].state = "made"
        /\ intent[k].of \in Assessments /\ SeenKnown(intent[k].of)
    BY <1>2 DEF IInv, UsedIsMade, FactsInv
  <1>q. QED BY <1>1, <1>3 DEF Held, VersionsHold, SeenKnown, ItemOf

\* The order that a confirmation writes is the purchase that was shown: cash,
\* orders, plan and target are those the preview has read, although it has read
\* them without locks and anything may have changed since.
THEOREM ConfirmedAsShownAlways == Spec => ConfirmedAsShown
  <1>1. IInv /\ FactsInv /\ [Next]_vars => [AsShown]_vars
    BY ConfirmShows
  <1>2. [AsShown]_vars =>
            [\A k \in Intents : Confirms(k) =>
                 LET a == intent[k].of IN
                 /\ assess[a].seen = Basis(PeriodOf[ItemOf(k)])
                 /\ assess[a].estimate = item[ItemOf(k)].estimate]_vars
    BY DEF AsShown
  <1>q. QED BY FactsAlways, <1>1, <1>2, PTL DEF Spec, ConfirmedAsShown

------------------------------------------------------------------------------
(* The budget after a purchase.                                            *)

LEMMA TotalIsSum == ASSUME NEW f PROVE Total(f) = SumOf(f)
  BY DEF Total, SumOf, MapThenSumSet, MapThenFoldSet

\* The sums of the forecast are numbers.
LEMMA SumsAreNumbers ==
    ASSUME IInv, FactsInv
    PROVE  /\ Committed \in Nat
           /\ \A p \in Periods : \A without : Planned(p, without) \in Int
           /\ \A p \in Periods : PlannedElsewhere(p) \in Int
  <1>1. ASSUME NEW k \in Due PROVE k \in Intents /\ AmountOf(k) \in Nat
    <2>1. k \in Intents /\ Used(k)
      BY DEF Due, ActiveOrders, Ordered, IInv, OrderKnown, Used
    <2>q. QED BY <2>1, UsedAmount DEF FactsInv
  <1>2. Committed \in Nat
    <2> DEFINE f == [k \in Due |-> AmountOf(k)]
    <2>1. IsFiniteSet(Due)
      BY <1>1, FS_Subset, AdmissionAssumption
    <2>2. IsFiniteSet(DOMAIN f) /\ \A k \in DOMAIN f : f[k] \in Nat
      BY <1>1, <2>1
    <2> HIDE DEF f
    <2>3. Total(f) \in Nat
      BY <2>2, SumNatural, TotalIsSum
    <2>q. QED BY <2>3 DEF f, Committed
  <1>3. ASSUME NEW p \in Periods, NEW without PROVE Planned(p, without) \in Int
    <2> DEFINE f == [i \in Standing(p) \ without |-> Remaining(i)]
    <2>1. IsFiniteSet(Standing(p) \ without)
      BY FS_Subset, AdmissionAssumption DEF Standing
    <2>2. \A i \in Standing(p) : Remaining(i) \in Int
      BY AdmissionAssumption DEF Standing, Remaining, IInv, Formed, ItemType
    <2>3. Summands(f)
      BY <2>1, <2>2 DEF Summands
    <2> HIDE DEF f
    <2>4. Total(f) \in Int
      BY <2>3, SumType, TotalIsSum
    <2>q. QED BY <2>4 DEF f, Planned
  <1>4. ASSUME NEW p \in Periods PROVE PlannedElsewhere(p) \in Int
    <2> DEFINE f == [q \in Periods \ {p} |-> Planned(q, {})]
    <2>1. IsFiniteSet(Periods \ {p})
      BY FS_Subset, AdmissionAssumption
    <2>2. Summands(f)
      BY <1>3, <2>1 DEF Summands
    <2> HIDE DEF f
    <2>3. Total(f) \in Int
      BY <2>2, SumType, TotalIsSum
    <2>q. QED BY <2>3 DEF f, PlannedElsewhere
  <1>q. QED BY <1>2, <1>3, <1>4

LEMMA Allowed ==
    ASSUME IInv, FactsInv, NEW p \in Periods, NEW i \in Items, NEW amount \in Nat,
           Forecast(p, i, amount) = "allowed"
    PROVE  ~Unknown(p) /\ Headroom(p, {i}, amount) >= 0
  <1>1. Headroom(p, {i}, amount) \in Int /\ period[p].target \in Nat
    BY SumsAreNumbers, AdmissionAssumption
       DEF Headroom, FactsInv, RowsFormed, AccountType, PeriodType
  <1> DEFINE left == Headroom(p, {i}, amount)
  <1>2. ~Unknown(p) /\ ~(left + period[p].target < 0)
        /\ ~(left < 0 /\ left + period[p].target >= 0)
    BY DEF Forecast
  <1> HIDE DEF left
  <1>3. left >= 0
    BY <1>1, <1>2 DEF left
  <1>q. QED BY <1>2, <1>3 DEF left

\* What a purchase changes of what the forecast reads.
Purchased(k, i, p) ==
    /\ k \notin Ordered /\ ActiveOrdersOf(i) = {}
    /\ account'.cash = account.cash /\ account'.fresh = account.fresh /\ month' = month
    /\ \A q \in Periods : /\ period'[q].status = period[q].status
                          /\ period'[q].target = period[q].target
    /\ \A j \in Items \ {i} : item'[j] = item[j]
    /\ order' \in [Intents -> OrderStates] /\ order'[k] = "pending"
    /\ \A m \in Intents \ {k} : order'[m] = order[m]
    /\ \A m \in Intents : ItemOf(m)' = ItemOf(m) /\ AmountOf(m)' = AmountOf(m)

LEMMA PurchaseChanges ==
    ASSUME IInv, FactsInv, NEW k \in Intents, NEW i \in Items, NEW p \in Periods,
           i = ItemOf(k), p = PeriodOf[i], ConfirmIntent(k)
    PROVE  Purchased(k, i, p)
  <1>1. /\ intent[k].state = "proposed" /\ Creating = {} /\ Orderable(i, {k})
        /\ intent' = [intent EXCEPT ![k].state = "ordered"]
        /\ order' = [order EXCEPT ![k] = "pending"]
        /\ item' = [item EXCEPT ![i].status = "committed"]
        /\ account' = [account EXCEPT !.version = @ + 1]
        /\ period' = [period EXCEPT ![p].version = @ + 1]
        /\ UNCHANGED <<month, assess>>
    BY DEF ConfirmIntent, RaiseAccount, RaisePeriod
  <1>2. /\ order \in [Intents -> OrderStates] /\ item \in [Items -> ItemType]
        /\ intent \in [Intents -> IntentType] /\ account \in AccountType
        /\ period \in [Periods -> PeriodType]
    BY DEF IInv, Formed, FactsInv, RowsFormed
  <1>3. k \notin Ordered
    BY <1>1 DEF IInv, OrderKnown, Ordered
  <1>4. ActiveOrdersOf(i) = {}
    <2>1. \A m \in Intents \ {k} : Keeps(m) => ItemOf(m) # i
      BY <1>1, OrderableIsFree
    <2>2. \A m \in Ordered : m \in Intents \ {k} /\ Keeps(m)
      BY <1>3 DEF Ordered, IInv, OrderKnown, Keeps
    <2>q. QED BY <2>1, <2>2 DEF ActiveOrdersOf, ActiveOrders
  <1>5. account'.cash = account.cash /\ account'.fresh = account.fresh
    BY <1>1, <1>2 DEF AccountType
  <1>6. \A q \in Periods : /\ period'[q].status = period[q].status
                           /\ period'[q].target = period[q].target
    BY <1>1, <1>2 DEF PeriodType
  <1>7. /\ \A j \in Items \ {i} : item'[j] = item[j]
        /\ order' \in [Intents -> OrderStates] /\ order'[k] = "pending"
        /\ \A m \in Intents \ {k} : order'[m] = order[m]
    BY <1>1, <1>2 DEF OrderStates
  <1>8. \A m \in Intents : intent'[m].of = intent[m].of
    BY <1>1, <1>2 DEF IntentType
  <1>9. \A m \in Intents : ItemOf(m)' = ItemOf(m) /\ AmountOf(m)' = AmountOf(m)
    BY <1>1, <1>8 DEF ItemOf, AmountOf
  <1>q. QED BY <1>1, <1>3, <1>4, <1>5, <1>6, <1>7, <1>9 DEF Purchased

\* The order takes the place of the estimate.
LEMMA OrderReplacesPlan ==
    ASSUME IInv, FactsInv, NEW k \in Intents, NEW i \in Items, NEW p \in Periods,
           i = ItemOf(k), p = PeriodOf[i], Purchased(k, i, p)
    PROVE  /\ ActiveOrders' = ActiveOrders \cup {k} /\ k \notin ActiveOrders
           /\ \A j \in Items \ {i} : ActiveOrdersOf(j)' = ActiveOrdersOf(j)
           /\ ActiveOrdersOf(i)' = {k}
           /\ Standing(p)' = Standing(p) \ {i}
           /\ \A q \in Periods \ {p} : Standing(q)' = Standing(q) /\ i \notin Standing(q)
  <1>1. ActiveOrders' = ActiveOrders \cup {k} /\ k \notin ActiveOrders
    BY DEF Purchased, ActiveOrders, Ordered
  <1>2. \A j \in Items : ActiveOrdersOf(j)' =
            ActiveOrdersOf(j) \cup (IF j = i THEN {k} ELSE {})
    <2> TAKE j \in Items
    <2>1. ActiveOrdersOf(j)' = {m \in ActiveOrders \cup {k} : ItemOf(m) = j}
      BY <1>1 DEF ActiveOrdersOf, Purchased, ActiveOrders, Ordered
    <2>q. QED BY <2>1 DEF ActiveOrdersOf
  <1>3. ActiveOrdersOf(i)' = {k} /\ \A j \in Items \ {i} : ActiveOrdersOf(j)' = ActiveOrdersOf(j)
    BY <1>2 DEF Purchased
  <1>4. Standing(p)' = Standing(p) \ {i}
    BY <1>3 DEF Standing, Purchased
  <1>5. \A q \in Periods \ {p} : Standing(q)' = Standing(q) /\ i \notin Standing(q)
    BY <1>3 DEF Standing, Purchased
  <1>q. QED BY <1>1, <1>3, <1>4, <1>5

LEMMA HeadroomKept ==
    ASSUME IInv, FactsInv, NEW k \in Intents, NEW i \in Items, NEW p \in Periods,
           NEW amount \in Nat, i = ItemOf(k), p = PeriodOf[i], amount = AmountOf(k),
           Purchased(k, i, p)
    PROVE  Headroom(p, {}, 0)' = Headroom(p, {i}, amount)
  <1>a. /\ ActiveOrders' = ActiveOrders \cup {k} /\ k \notin ActiveOrders
        /\ Standing(p)' = Standing(p) \ {i}
        /\ \A q \in Periods \ {p} : Standing(q)' = Standing(q) /\ i \notin Standing(q)
    BY OrderReplacesPlan
  <1>1. Planned(p, {})' = Planned(p, {i})
    <2>1. \A j \in Standing(p) \ {i} : Remaining(j)' = Remaining(j)
      BY DEF Standing, Remaining, Purchased
    <2>2. [j \in Standing(p) \ {} |-> Remaining(j)]' = [j \in Standing(p) \ {i} |-> Remaining(j)]
      BY <1>a, <2>1
    <2>q. QED BY <2>2 DEF Planned
  <1>2. ASSUME NEW q \in Periods \ {p} PROVE Planned(q, {})' = Planned(q, {})
    <2>1. \A j \in Standing(q) : Remaining(j)' = Remaining(j)
      BY <1>a DEF Standing, Remaining, Purchased
    <2>2. [j \in Standing(q) \ {} |-> Remaining(j)]' = [j \in Standing(q) \ {} |-> Remaining(j)]
      BY <1>a, <2>1
    <2>q. QED BY <2>2 DEF Planned
  <1>3. PlannedElsewhere(p)' = PlannedElsewhere(p)
    <2>1. [q \in Periods \ {p} |-> Planned(q, {})]' = [q \in Periods \ {p} |-> Planned(q, {})]
      BY <1>2
    <2>q. QED BY <2>1 DEF PlannedElsewhere
  <1>4. Committed' = amount + Committed
    <2> DEFINE g == [m \in Due |-> AmountOf(m)]
               f == [m \in Due \cup {k} |-> AmountOf(m)]
    <2>1. Due' = Due \cup {k} /\ k \notin Due /\ Due \subseteq Intents
      BY <1>a DEF Due, Purchased, ActiveOrders, Ordered
    <2>2. [m \in Due |-> AmountOf(m)]' = f
      BY <2>1 DEF Purchased
    <2>3. IsFiniteSet(Due \cup {k})
      BY <2>1, FS_Subset, FS_AddElement, AdmissionAssumption
    <2>4. \A m \in Due : AmountOf(m) \in Nat
      <3>1. \A m \in Due : m \in Intents /\ Used(m)
        BY DEF Due, ActiveOrders, Ordered, IInv, OrderKnown, Used
      <3>q. QED BY <3>1, UsedAmount DEF FactsInv
    <2>5. Summands(f)
      BY <2>3, <2>4 DEF Summands
    <2>6. /\ k \in DOMAIN f /\ f[k] = amount /\ DOMAIN g = DOMAIN f \ {k}
          /\ \A m \in DOMAIN g : g[m] = f[m]
      BY <2>1
    <2>7. Committed' = Total(f) /\ Committed = Total(g)
      BY <2>2 DEF Committed
    <2> HIDE DEF f, g
    <2>8. Total(f) = f[k] + Total(g)
      BY <2>5, <2>6, SumAdds, TotalIsSum
    <2>q. QED BY <2>6, <2>7, <2>8
  <1>5. /\ account.cash \in Int /\ Committed \in Int /\ Planned(p, {i}) \in Int
        /\ PlannedElsewhere(p) \in Int /\ period[p].target \in Int
    BY SumsAreNumbers, AdmissionAssumption DEF FactsInv, RowsFormed, AccountType, PeriodType
  <1>6. account'.cash = account.cash /\ period'[p].target = period[p].target
    BY DEF Purchased
  <1>7. Headroom(p, {}, 0)' = account.cash - (amount + Committed) - Planned(p, {i})
                                 - PlannedElsewhere(p) - 0 - period[p].target
    BY <1>1, <1>3, <1>4, <1>6 DEF Headroom
  <1>8. Headroom(p, {i}, amount) = account.cash - Committed - Planned(p, {i})
                                      - PlannedElsewhere(p) - amount - period[p].target
    BY DEF Headroom
  <1>q. QED BY <1>5, <1>7, <1>8

LEMMA StaysKnown ==
    ASSUME IInv, FactsInv, NEW k \in Intents, NEW i \in Items, NEW p \in Periods,
           i = ItemOf(k), p = PeriodOf[i], Purchased(k, i, p), ~Unknown(p)
    PROVE  ~Unknown(p)'
  <1>a. /\ \A j \in Items \ {i} : ActiveOrdersOf(j)' = ActiveOrdersOf(j)
        /\ ActiveOrdersOf(i)' = {k}
        /\ Standing(p)' = Standing(p) \ {i}
        /\ \A q \in Periods \ {p} : Standing(q)' = Standing(q) /\ i \notin Standing(q)
    BY OrderReplacesPlan
  <1>1. ~ \E m \in Ordered' : order'[m] = "unknown"
    BY DEF Unknown, Ordered, Purchased
  <1>2. ASSUME NEW j \in Items PROVE ~(Cardinality(ActiveOrdersOf(j)') > 1)
    <2>1. CASE j = i
      BY <1>a, <2>1, FS_Singleton
    <2>2. CASE j # i
      BY <1>a, <2>2 DEF Unknown
    <2>q. QED BY <2>1, <2>2
  <1>3. ASSUME NEW q \in Periods, NEW j \in Standing(q)'
        PROVE  ~(item'[j].status = "committed" \/ Remaining(j)' < 0)
    <2>1. j \in Standing(q) /\ j \in Items /\ j # i
      BY <1>a DEF Standing
    <2>2. ~(item[j].status = "committed" \/ Remaining(j) < 0)
      BY <2>1 DEF Unknown
    <2>3. item'[j] = item[j]
      BY <2>1 DEF Purchased
    <2>q. QED BY <2>2, <2>3 DEF Remaining
  <1>4. /\ period'[p].status = "active" /\ p = Current /\ month' # "over"
        /\ account'.fresh /\ ~(account'.cash < 0)
    BY DEF Unknown, Purchased
  <1>q. QED BY <1>1, <1>2, <1>3, <1>4 DEF Unknown

PlanHolds ==
    \A k \in Intents : Confirms(k) =>
        LET p == PeriodOf[ItemOf(k)] IN
        ~Unknown(p)' /\ Headroom(p, {}, 0)' >= 0

LEMMA ConfirmHolds ==
    ASSUME IInv, FactsInv, [Next]_vars
    PROVE  PlanHolds
  <1> SUFFICES ASSUME NEW k \in Intents, Confirms(k)
               PROVE  /\ ~Unknown(PeriodOf[ItemOf(k)])'
                      /\ Headroom(PeriodOf[ItemOf(k)], {}, 0)' >= 0
    BY DEF PlanHolds
  <1>1. ConfirmIntent(k) /\ intent[k].state = "proposed"
    BY WhoConfirms DEF ConfirmIntent
  <1>2. PICK i \in Items : i = ItemOf(k)
    BY <1>1, UsedItem DEF Used
  <1>3. PICK p \in Periods : p = PeriodOf[i]
    BY AdmissionAssumption
  <1>4. PICK amount \in Nat : amount = AmountOf(k)
    BY <1>1, UsedAmount DEF Used, FactsInv
  <1>5. Forecast(p, i, amount) = "allowed"
    BY <1>1, <1>2, <1>3, <1>4 DEF ConfirmIntent, FinalForecast
  <1>6. ~Unknown(p) /\ Headroom(p, {i}, amount) >= 0
    BY <1>5, Allowed
  <1>7. Purchased(k, i, p)
    BY <1>1, <1>2, <1>3, PurchaseChanges
  <1>8. Headroom(p, {}, 0)' = Headroom(p, {i}, amount)
    BY <1>2, <1>3, <1>4, <1>7, HeadroomKept
  <1>9. ~Unknown(p)'
    BY <1>2, <1>3, <1>6, <1>7, StaysKnown
  <1>10. PeriodOf[ItemOf(k)]' = p
    BY <1>2, <1>3, <1>7 DEF Purchased
  <1>q. QED BY <1>6, <1>8, <1>9, <1>10

\* After a purchase is confirmed the plan of the month holds with the order in
\* it, for any items, prices, targets and balances: cash covers all orders, all
\* plans of all active periods and the savings target.
THEOREM ConfirmKeepsBudgetAlways == Spec => ConfirmKeepsBudget
  <1>1. IInv /\ FactsInv /\ [Next]_vars => [PlanHolds]_vars
    BY ConfirmHolds
  <1>2. [PlanHolds]_vars =>
            [\A k \in Intents : Confirms(k) =>
                 LET p == PeriodOf[ItemOf(k)] IN
                 ~Unknown(p)' /\ Headroom(p, {}, 0)' >= 0]_vars
    BY DEF PlanHolds
  <1>q. QED BY FactsAlways, <1>1, <1>2, PTL DEF Spec, ConfirmKeepsBudget

------------------------------------------------------------------------------
(* Types, and what an assessment may be relied on for.                     *)

RestTyped ==
    /\ month \in {"running", "over"}
    /\ quote \in [Quotes -> {"none", "valid", "withdrawn"}]
    /\ \A a \in Assessments : assess[a] \in AssessmentRecord

LEMMA NoneTyped == NoAssessment \in AssessmentRecord
  BY DEF NoAssessment, AssessmentRecord, NoVersions, NoBasis, BasisRecord

\* A row is what its fields are.
LEMMA RowTyped ==
    ASSUME NEW row, DOMAIN row = Fields, row = [f \in DOMAIN row |-> row[f]],
           row.state \in {"none", "reading", "made"}, row.item \in Items \cup {"none"},
           row.quote \in Quotes \cup {0}, row.versions \in VersionType,
           row.estimate \in Nat, row.seen \in BasisRecord,
           row.status \in {"allowed", "needs_adjustment", "blocked", "unknown"},
           row.expired \in BOOLEAN, row.stale \in SUBSET Intents
    PROVE  row \in AssessmentRecord
  BY DEF AssessmentRecord, VersionType, Fields

LEMMA FieldsTyped ==
    ASSUME NEW row \in AssessmentRecord
    PROVE  /\ DOMAIN row = Fields
           /\ row.state \in {"none", "reading", "made"} /\ row.item \in Items \cup {"none"}
           /\ row.quote \in Quotes \cup {0} /\ row.versions \in VersionType
           /\ row.estimate \in Nat /\ row.seen \in BasisRecord
           /\ row.status \in {"allowed", "needs_adjustment", "blocked", "unknown"}
           /\ row.expired \in BOOLEAN /\ row.stale \in SUBSET Intents
  BY DEF AssessmentRecord, VersionType, Fields

LEMMA ExpiredTyped ==
    ASSUME NEW row \in AssessmentRecord
    PROVE  [row EXCEPT !.expired = TRUE] \in AssessmentRecord
  <1> DEFINE new == [row EXCEPT !.expired = TRUE]
  <1>1. DOMAIN row = Fields
    BY FieldsTyped
  <1>2. /\ DOMAIN new = Fields /\ new = [f \in DOMAIN new |-> new[f]]
        /\ new.expired = TRUE /\ new.state = row.state /\ new.item = row.item
        /\ new.quote = row.quote /\ new.versions = row.versions
        /\ new.estimate = row.estimate /\ new.seen = row.seen
        /\ new.status = row.status /\ new.stale = row.stale
    BY <1>1 DEF Fields
  <1> HIDE DEF new
  <1>3. new \in AssessmentRecord
    BY <1>2, FieldsTyped, RowTyped
  <1>q. QED BY <1>3 DEF new

LEMMA BeginTyped ==
    ASSUME IInv, FactsInv, RestTyped, NEW a \in Assessments, NEW i \in Items,
           NEW q \in Quotes, BeginAssessment(a, i, q)
    PROVE  assess'[a] \in AssessmentRecord
  <1> DEFINE new == [assess[a] EXCEPT !.state = "reading", !.item = i, !.quote = q,
                        !.estimate = item[i].estimate, !.stale = Stale(i),
                        !.versions = Versions(PeriodOf[i]),
                        !.seen = [NoBasis EXCEPT !.target = period[PeriodOf[i]].target]]
  <1>1. assess'[a] = new
    BY DEF BeginAssessment, IInv, Formed
  <1>2. assess[a] \in AssessmentRecord
    BY DEF RestTyped
  <1>3. PeriodOf[i] \in Periods
    BY AdmissionAssumption
  <1>4. Versions(PeriodOf[i]) \in VersionType
    BY <1>3 DEF Versions, VersionType, FactsInv, RowsFormed, AccountType, PeriodType
  <1>5. [NoBasis EXCEPT !.target = period[PeriodOf[i]].target] \in BasisRecord
    <2>1. period[PeriodOf[i]].target \in Nat
      BY <1>3, AdmissionAssumption DEF FactsInv, RowsFormed, PeriodType
    <2>q. QED BY <2>1 DEF NoBasis, BasisRecord
  <1>6. item[i].estimate \in Nat
    BY AdmissionAssumption DEF IInv, Formed, ItemType
  <1>7. Stale(i) \in SUBSET Intents
    BY DEF Stale, Proposed, IntentsOf
  <1>8. /\ DOMAIN new = Fields /\ new = [f \in DOMAIN new |-> new[f]]
        /\ new.state = "reading" /\ new.item = i /\ new.quote = q
        /\ new.estimate = item[i].estimate /\ new.stale = Stale(i)
        /\ new.versions = Versions(PeriodOf[i])
        /\ new.seen = [NoBasis EXCEPT !.target = period[PeriodOf[i]].target]
        /\ new.status = assess[a].status /\ new.expired = assess[a].expired
    BY <1>2, FieldsTyped DEF Fields
  <1> HIDE DEF new
  <1>9. new \in AssessmentRecord
    BY <1>2, <1>4, <1>5, <1>6, <1>7, <1>8, FieldsTyped, RowTyped
  <1>q. QED BY <1>1, <1>9

LEMMA FinishTyped ==
    ASSUME IInv, FactsInv, RestTyped, NEW a \in Assessments, FinishAssessment(a)
    PROVE  assess'[a] \in AssessmentRecord
  <1>1. assess[a].state = "reading" /\ assess[a] \in AssessmentRecord
    BY DEF FinishAssessment, RestTyped
  <1>2. PICK p \in Periods : p = PeriodOf[assess[a].item]
    BY <1>1, AdmissionAssumption DEF IInv, AssessmentKnown
  <1> DEFINE i == assess[a].item
             status == Forecast(p, i, Prices[assess[a].quote])
             seen == [Basis(p) EXCEPT !.target = assess[a].seen.target]
             new == [assess[a] EXCEPT !.state = "made", !.versions = StoredVersions(a),
                        !.seen = seen, !.status = status, !.stale = {}]
  <1>3. assess'[a] = new
    BY <1>2 DEF FinishAssessment, IInv, Formed
  <1>4. status \in {"allowed", "needs_adjustment", "blocked", "unknown"}
    BY DEF Forecast
  <1>5. seen \in BasisRecord
    <2>1. /\ account.cash \in Int /\ Committed \in Nat /\ Planned(p, {}) \in Int
      BY SumsAreNumbers DEF FactsInv, RowsFormed, AccountType
    <2>2. assess[a].seen.target \in Nat
      BY <1>1, FieldsTyped DEF BasisRecord
    <2>3. seen = [cash |-> account.cash, committed |-> Committed,
                  planned |-> Planned(p, {}), target |-> assess[a].seen.target]
      BY DEF Basis
    <2>q. QED BY <2>1, <2>2, <2>3 DEF BasisRecord
  <1> HIDE DEF status, seen
  <1>6. /\ DOMAIN new = Fields /\ new = [f \in DOMAIN new |-> new[f]]
        /\ new.state = "made" /\ new.item = assess[a].item /\ new.quote = assess[a].quote
        /\ new.estimate = assess[a].estimate /\ new.stale = {}
        /\ new.versions = assess[a].versions /\ new.seen = seen
        /\ new.status = status /\ new.expired = assess[a].expired
    BY <1>1, FieldsTyped, ZenonT(30) DEF Fields, StoredVersions
  <1> HIDE DEF new
  <1>7. new \in AssessmentRecord
    BY <1>1, <1>4, <1>5, <1>6, FieldsTyped, RowTyped
  <1>q. QED BY <1>3, <1>7

LEMMA RestStep ==
    ASSUME IInv, FactsInv, RestTyped, [Next]_vars
    PROVE  RestTyped'
  <1>1. ASSUME NEW a \in Assessments PROVE assess'[a] \in AssessmentRecord
    <2>1. AssessmentStep(a) /\ assess[a] \in AssessmentRecord
      BY AssessmentSteps DEF RestTyped
    <2>q. QED BY <2>1, NoneTyped, ExpiredTyped, BeginTyped, FinishTyped DEF AssessmentStep
  <1>2. ASSUME NEW a \in Assessments,
               \/ \E i \in Items, q \in Quotes : BeginAssessment(a, i, q)
               \/ FinishAssessment(a) \/ AbortAssessment(a) \/ AssessmentExpires(a)
        PROVE  UNCHANGED <<month, quote>>
    BY <1>2 DEF BeginAssessment, FinishAssessment, AbortAssessment, AssessmentExpires
  <1>3. ASSUME NEW k \in Intents,
               \/ \E a \in Assessments : BeginIntent(k, a)
               \/ InsertIntent(k) \/ AbortIntent(k) \/ RejectIntent(k) \/ ConfirmIntent(k)
               \/ PayOrder(k) \/ PaymentUnclear(k) \/ CloseOrder(k)
        PROVE  UNCHANGED <<month, quote>>
    BY <1>3 DEF BeginIntent, InsertIntent, AbortIntent, RejectIntent, ConfirmIntent,
                PayOrder, PaymentUnclear, CloseOrder
  <1>4. ASSUME NEW i \in Items,
               \/ \E e \in Estimates : ChangeItem(i, e) \/ LinkEntry(i, e)
               \/ CancelItem(i) \/ UnlinkEntry(i)
        PROVE  UNCHANGED <<month, quote>>
    BY <1>4 DEF ChangeItem, LinkEntry, CancelItem, UnlinkEntry
  <1>6. CASE \/ \E p \in Periods : (\E t \in Targets : ChangeTarget(p, t)) \/ ClosePeriod(p)
             \/ \E c \in CashLevels : BankFact(c)
             \/ SnapshotAges \/ Revoke \/ Reauthorize
    <2>1. UNCHANGED <<month, quote>>
      BY <1>6 DEF ChangeTarget, ClosePeriod, BankFact, SnapshotAges, Revoke, Reauthorize
    <2>q. QED BY <1>1, <2>1 DEF RestTyped
  <1>7. CASE MonthEnds
    BY <1>1, <1>7 DEF RestTyped, MonthEnds
  <1>8. ASSUME NEW q \in Quotes, OfferQuote(q) \/ WithdrawQuote(q)
        PROVE  RestTyped'
    BY <1>1, <1>8 DEF RestTyped, OfferQuote, WithdrawQuote
  <1>9. CASE UNCHANGED <<month, quote>>
    BY <1>1, <1>9 DEF RestTyped
  <1>10. CASE UNCHANGED vars
    BY <1>9, <1>10 DEF vars
  <1>11. CASE PurchaseStep
    BY <1>2, <1>3, <1>9, <1>11 DEF PurchaseStep
  <1>12. CASE BudgetStep
    BY <1>4, <1>6, <1>9, <1>12 DEF BudgetStep
  <1>13. CASE FactStep
    BY <1>3, <1>6, <1>7, <1>8, <1>9, <1>13 DEF FactStep
  <1>q. QED BY <1>10, <1>11, <1>12, <1>13 DEF Next

LEMMA RestInit == Init => RestTyped
  <1> SUFFICES ASSUME Init PROVE RestTyped
    OBVIOUS
  <1>1. \A a \in Assessments : assess[a] \in AssessmentRecord
    BY NoneTyped DEF Init
  <1>2. month = "running" /\ quote = [q \in Quotes |-> "none"]
    BY DEF Init
  <1>q. QED BY <1>1, <1>2 DEF RestTyped

LEMMA BasisFollows ==
    IInv /\ FactsInv /\ RestTyped => BasisIsCurrent
  <1> SUFFICES ASSUME IInv, FactsInv, RestTyped PROVE BasisIsCurrent
    OBVIOUS
  <1>1. account \in [linked : BOOLEAN, version : Nat, cash : Int, fresh : BOOLEAN]
    BY DEF FactsInv, RowsFormed, AccountType
  <1>2. period \in [Periods -> [status : {"active", "closed"}, version : Nat,
                               target : Targets]]
    BY DEF FactsInv, RowsFormed, PeriodType
  <1>3. item \in [Items -> [status : {"none", "planned", "committed",
                                     "settled", "cancelled"},
                           estimate : Estimates \cup {0}, covered : Nat]]
    BY DEF IInv, Formed, ItemType
  <1>4. assess \in [Assessments -> AssessmentRecord]
    BY DEF IInv, Formed, RestTyped
  <1>5. intent \in [Intents -> [state : {"none", "creating", "proposed",
                                        "ordered", "expired", "rejected"},
                               of : Assessments \cup {"none"}]]
    BY DEF IInv, Formed, IntentType
  <1>6. order \in [Intents -> {"none", "pending", "unknown", "paid", "closed"}]
    BY DEF IInv, Formed, OrderStates
  <1>7. TypeOK
    BY <1>1, <1>2, <1>3, <1>4, <1>5, <1>6 DEF TypeOK, RestTyped
  <1>q. QED BY <1>7 DEF BasisIsCurrent, FactsInv, SeenKnown

\* Rows hold what their tables allow, and as long as both versions are those of
\* an assessment, the facts of its account and period are those it was made
\* from, although it read them one after the other and without locks.
THEOREM BasisIsCurrentAlways == Spec => []BasisIsCurrent
  <1>1. IInv /\ FactsInv /\ RestTyped /\ [Next]_vars => RestTyped'
    BY RestStep
  <1>q. QED BY FactsAlways, RestInit, <1>1, BasisFollows, PTL DEF Spec

==============================================================================
