--------------------------- MODULE BudgetPlanProofs ---------------------------
(***************************************************************************)
(* Proofs about the plan of a month, for any items, adjustments, amounts   *)
(* and bounds: an adjustment has all its effects or none, an archived      *)
(* month leaves none to be carried out, an order is cancelled once, the    *)
(* plan of an archived month or of a revoked account stays, and a saved    *)
(* edit has the effect that was shown.                                     *)
(***************************************************************************)
EXTENDS BudgetPlan, FiniteSums

------------------------------------------------------------------------------
(* The inductive invariant.                                                *)

ItemType == [status : ItemStates, amount : Nat, priority : {"adjustable", "required"}]
AccountType == [linked : BOOLEAN, version : Nat, cash : Nat]
PeriodType == [status : {"none", "draft", "active", "closed"}, version : Nat, target : Nat]
OrderType == [state : {"none", "paid", "cancelling", "cancelled"},
              rule : AllRules, version : 0 .. 2, result : Results]
RequestType == [state : RequestStates, left : Seq(Nat)]
VersionType == [account : Nat, period : Nat]
ChangeType == [item : Items \cup {None}, to : ItemType]
PageType == [at : {"away", "open", "shown"}, read : VersionType,
             change : ChangeType, after : {page.after}]
OptionType == [cancel : SUBSET Items, order : BOOLEAN]
AdjType ==
    [state : Confirmed \cup {"none", "assessed", "proposed"}, basis : VersionType,
     amount : Nat, options : SUBSET OptionType, rule : 0 .. 2, expired : BOOLEAN,
     chosen : OptionType, item : Items \cup {None}]

\* A refund has begun: the request alone decides what the order pays back.
Paying(r) == request[r].state \in {"refund_processing", "pending_review", "completed"}

\* The batches of a refund that are still to be paid: two at most, and no
\* more than the price together.
LeftOK(left) ==
    \/ left = << >>
    \/ \E n \in 0 .. Price : left = <<n>>
    \/ \E m, n \in 0 .. Price : m + n <= Price /\ left = <<m, n>>

RequestKnown(r) ==
    /\ LeftOK(request[r].left)
    /\ request[r].state = "refund_processing" => request[r].left # << >>
    /\ request[r].left # << >> => Paying(r) /\ Running(r)

FormKnown ==
    /\ request \in [Requests -> RequestType]
    /\ \A r \in Requests : RequestKnown(r)
    /\ adj \in [Adjustments -> AdjType]
    /\ page \in PageType

\* Versions only rise, so what was read is never ahead of the rows.
NotAhead(read) == read.account <= account.version /\ read.period <= period.version

\* A page, and a proposal, whose versions are still those of the rows knows
\* the state of the items it is about.
ShownKnown ==
    /\ page.at # "away" => NotAhead(page.read)
    /\ page.at = "shown" =>
          /\ page.change.item \in Items
          /\ page.change.to.status \in {"planned", "cancelled"}
          /\ page.read = Versions => item[page.change.item].status \in {"none", "planned"}

ProposalKnown(a) ==
    adj[a].state \in {"assessed", "proposed"} =>
        /\ NotAhead(adj[a].basis)
        /\ adj[a].basis = Versions /\ ~adj[a].expired =>
              \A o \in adj[a].options : \A i \in o.cancel : item[i].status = "planned"

BasisKnown ==
    /\ period.status = "none" => period.version = 0
    /\ ShownKnown
    /\ \A a \in Adjustments : ProposalKnown(a)

\* At most one request is under way, and only one ever pays.
Once ==
    /\ \A r, q \in Requests : Running(r) /\ Running(q) => r = q
    /\ \A r, q \in Requests : Paying(r) /\ Paying(q) => r = q
    /\ order.state = "cancelled" => \A r \in Requests : ~Running(r)
    /\ \A r \in Requests : request[r].state = "completed" => order.state = "cancelled"

Whole(a) ==
    /\ adj[a].state \in Confirmed =>
          /\ adj[a].item \in Items /\ item[adj[a].item].status # "none"
          /\ \A i \in adj[a].chosen.cancel : item[i].status = "cancelled"
          /\ adj[a].chosen.order <=> request[a].state # "none"
    /\ adj[a].state \notin Confirmed =>
          adj[a].item = None /\ request[a] = NoRequest

IInv ==
    /\ TypeOK /\ FormKnown /\ BasisKnown /\ Once /\ ClosedIsSettled
    /\ \A a \in Adjustments : Whole(a)

------------------------------------------------------------------------------
(* What the invariant says of the properties.                              *)

LEMMA AtMostOne ==
    ASSUME NEW S, \A x, y \in S : x = y
    PROVE  Cardinality(S) <= 1
  <1>1. CASE S = {}
    BY <1>1, FS_EmptySet
  <1>2. CASE S # {}
    <2>1. PICK x \in S : S = {x}
      BY <1>2
    <2>q. QED BY <2>1, FS_Singleton
  <1>q. QED BY <1>1, <1>2

LEMMA TotalBounded ==
    ASSUME NEW left, LeftOK(left), Price \in Nat
    PROVE  Total(left) <= Price
  <1>1. CASE left = << >>
    BY <1>1 DEF Total
  <1>2. ASSUME NEW n \in 0 .. Price, left = <<n>>
        PROVE  Total(left) <= Price
    BY <1>2 DEF Total
  <1>3. ASSUME NEW m \in 0 .. Price, NEW n \in 0 .. Price, m + n <= Price, left = <<m, n>>
        PROVE  Total(left) <= Price
    <2>1. left # << >> /\ Head(left) = m /\ Len(left) = 2 /\ left[2] = n
      BY <1>3
    <2>q. QED BY <1>3, <2>1 DEF Total
  <1>q. QED BY <1>1, <1>2, <1>3 DEF LeftOK

LEMMA InvImplies == IInv => PlanSound
  <1> SUFFICES ASSUME IInv PROVE PlanSound
    OBVIOUS
  <1>1. Cardinality({r \in Requests : Running(r)}) <= 1
    BY AtMostOne DEF IInv, Once
  <1>2. Cardinality({r \in Requests :
             request[r].state \in {"refund_processing", "pending_review",
                                   "completed"}}) <= 1
    BY AtMostOne DEF IInv, Once, Paying
  <1>3. \A r \in Requests : Total(request[r].left) <= Price
    BY TotalBounded, PlanAssumption DEF IInv, FormKnown, RequestKnown
  <1>4. OrderCancelledOnce
    BY <1>1, <1>2, <1>3 DEF OrderCancelledOnce, IInv, Once
  <1>5. AdjustmentWhole
    BY DEF IInv, Whole, AdjustmentWhole
  <1>q. QED BY <1>4, <1>5 DEF IInv, PlanSound

LEMMA EmptyIsKnown ==
    /\ NoRequest \in RequestType
    /\ NoRequest.state = "none" /\ NoRequest.left = << >>
    /\ NoAdjustment \in AdjType
    /\ NoAdjustment.state = "none" /\ NoAdjustment.item = None
    /\ NoAdjustment.options = {}
    /\ page = NoPage => page \in PageType
    /\ NoPage.at = "away" /\ NoChange \in ChangeType
    /\ NoItem \in ItemType /\ NoItem.status = "none"
  BY DEF NoRequest, RequestStates, RequestType, NoAdjustment, AdjType, NoVersions,
         VersionType, NoOption, OptionType, NoPage, PageType, NoChange, ChangeType,
         NoForecast, NoItem, ItemType, ItemStates

LEMMA PageFits ==
    ASSUME NEW at \in {"away", "open", "shown"}, NEW read \in VersionType,
           NEW change \in ChangeType, NEW after,
           page' = [at |-> at, read |-> read, change |-> change, after |-> after]
    PROVE  page' \in PageType'
  BY DEF PageType

LEMMA AwayIsKnown == ASSUME page' = NoPage PROVE page' \in PageType'
  <1>1. page' = [at |-> "away", read |-> NoVersions, change |-> NoChange,
                 after |-> NoForecast]
    BY DEF NoPage
  <1>2. NoVersions \in VersionType
    BY DEF NoVersions, VersionType
  <1>q. QED BY <1>1, <1>2, EmptyIsKnown, PageFits

\* The page when it has read the versions.
LEMMA OpenIsKnown ==
    ASSUME NEW read \in VersionType,
           page' = [NoPage EXCEPT !.at = "open", !.read = read]
    PROVE  page' \in PageType' /\ page'.at = "open" /\ page'.read = read
  <1>1. page' = [at |-> "open", read |-> read, change |-> NoChange, after |-> NoForecast]
    BY DEF NoPage
  <1>2. page'.at = "open" /\ page'.read = read
    BY <1>1
  <1>3. page' \in PageType'
    BY ONLY <1>1, PageFits, EmptyIsKnown, read \in VersionType
  <1>q. QED BY <1>2, <1>3

LEMMA InitInv == Init => IInv
  <1> SUFFICES ASSUME Init PROVE IInv
    OBVIOUS
  <1>1. /\ environment \in {"simulation", "sandbox"} /\ month = "running"
        /\ account = [linked |-> TRUE, version |-> 1, cash |-> Max(CashLevels)]
        /\ request = [r \in Requests |-> NoRequest]
        /\ adj = [a \in Adjustments |-> NoAdjustment]
        /\ page = NoPage
    BY DEF Init
  <1>2. /\ period \in [status : {"none", "active"}, version : Nat, target : Nat]
        /\ period.status = "none" => period.version = 0
        /\ item \in [Items -> ItemType]
        /\ order \in [state : {"none", "paid"}, rule : AllRules, version : 0 .. 2,
                      result : Results]
    <2>1. CASE /\ period = [status |-> "none", version |-> 0, target |-> 0]
               /\ item = [i \in Items |-> NoItem]
               /\ order = [state |-> "none", rule |-> "reject", version |-> 0,
                           result |-> "OPEN"]
      BY <2>1, EmptyIsKnown DEF AllRules, Results
    <2>2. CASE /\ period = [status |-> "active", version |-> 1, target |-> Min(Targets)]
               /\ item = [i \in Items |->
                      CASE i = Bought -> [Planned("adjustable", Max(Amounts))
                                            EXCEPT !.status = "committed"]
                        [] i = First -> Planned("adjustable", Max(Amounts))
                        [] OTHER -> NoItem]
               /\ \E rule \in Rules, result \in Results :
                      /\ environment = "sandbox" => result = "OPEN"
                      /\ order = [state |-> "paid", rule |-> rule, version |-> 1,
                                  result |-> result]
      <3>1. Planned("adjustable", Max(Amounts)) \in ItemType
        BY PlanAssumption DEF Planned, ItemType, ItemStates
      <3>2. [Planned("adjustable", Max(Amounts)) EXCEPT !.status = "committed"] \in ItemType
        BY <3>1 DEF ItemType, ItemStates
      <3>3. item \in [Items -> ItemType]
        BY <2>2, <3>1, <3>2, EmptyIsKnown
      <3>q. QED BY <2>2, <3>3, PlanAssumption
    <2>q. QED BY <2>1, <2>2 DEF Init
  <1>3. TypeOK
    BY <1>1, <1>2, EmptyIsKnown, PlanAssumption DEF TypeOK, ItemType, AdjType, RequestType
  <1>4. FormKnown
    BY <1>1, EmptyIsKnown DEF FormKnown, RequestKnown, LeftOK
  <1>5. BasisKnown
    BY <1>1, <1>2, EmptyIsKnown DEF BasisKnown, ShownKnown, ProposalKnown
  <1>6. Once /\ ClosedIsSettled /\ \A a \in Adjustments : Whole(a)
    BY <1>1, <1>2, EmptyIsKnown
    DEF Once, Running, Paying, ClosedIsSettled, Whole, Confirmed, Requests
  <1>q. QED BY <1>3, <1>4, <1>5, <1>6 DEF IInv

------------------------------------------------------------------------------
(* What was read, and what a step leaves alone.                            *)

\* Versions rise, and whoever changes an item raises the period's.
Grows ==
    /\ account'.version \in Nat /\ account'.version >= account.version
    /\ period'.version \in Nat /\ period'.version >= period.version
    /\ item' = item \/ period'.version > period.version

LEMMA Basics ==
    ASSUME IInv
    PROVE  /\ account.version \in Nat /\ account.version + 1 \in Nat
           /\ period.version \in Nat /\ period.version + 1 \in Nat
           /\ account \in AccountType /\ period \in PeriodType /\ order \in OrderType
           /\ item \in [Items -> ItemType]
           /\ page \in PageType /\ page.read \in VersionType
           /\ \A a \in Adjustments : adj[a] \in AdjType /\ adj[a].basis \in VersionType
           /\ \A r \in Requests : request[r] \in RequestType
  <1>1. /\ account \in AccountType /\ period \in PeriodType /\ order \in OrderType
        /\ item \in [Items -> ItemType]
    BY DEF IInv, TypeOK, AccountType, PeriodType, OrderType, ItemType
  <1>2. /\ account.version \in Nat /\ account.version + 1 \in Nat
        /\ period.version \in Nat /\ period.version + 1 \in Nat
    BY <1>1 DEF AccountType, PeriodType
  <1>3. page \in PageType /\ page.read \in VersionType
    BY DEF IInv, FormKnown, PageType
  <1>4. \A a \in Adjustments : adj[a] \in AdjType /\ adj[a].basis \in VersionType
    BY DEF IInv, FormKnown, AdjType
  <1>5. \A r \in Requests : request[r] \in RequestType
    BY DEF IInv, FormKnown
  <1>q. QED BY <1>1, <1>2, <1>3, <1>4, <1>5

LEMMA SameVersions ==
    ASSUME IInv, Grows, NEW read \in VersionType, NotAhead(read)
    PROVE  /\ NotAhead(read)'
           /\ read = Versions' => read = Versions /\ item' = item
  BY Basics DEF Grows, NotAhead, VersionType, Versions

LEMMA PageBasis ==
    ASSUME IInv, Grows, UNCHANGED page
    PROVE  ShownKnown'
  <1>1. ShownKnown /\ page.read \in VersionType
    BY Basics DEF IInv, BasisKnown
  <1>2. CASE page.at = "away"
    BY <1>2 DEF ShownKnown
  <1>3. CASE page.at # "away"
    BY <1>1, <1>3, SameVersions DEF ShownKnown
  <1>q. QED BY <1>2, <1>3

LEMMA ProposalBasis ==
    ASSUME IInv, Grows, NEW a \in Adjustments, adj'[a] = adj[a]
    PROVE  ProposalKnown(a)'
  <1>1. ProposalKnown(a) /\ adj[a].basis \in VersionType
    BY Basics DEF IInv, BasisKnown
  <1>2. CASE adj[a].state \in {"assessed", "proposed"}
    BY <1>1, <1>2, SameVersions DEF ProposalKnown
  <1>3. CASE adj[a].state \notin {"assessed", "proposed"}
    BY <1>3 DEF ProposalKnown
  <1>q. QED BY <1>2, <1>3

\* Items only go on in their life.
ItemsGoOn ==
    \A i \in Items :
        /\ item[i].status # "none" => item'[i].status # "none"
        /\ item[i].status = "cancelled" => item'[i].status = "cancelled"

LEMMA WholeKept ==
    ASSUME IInv, NEW a \in Adjustments, ItemsGoOn,
           adj'[a] = adj[a], request'[a] = request[a]
    PROVE  Whole(a)'
  <1>1. Whole(a) /\ adj[a].chosen.cancel \subseteq Items
    BY Basics DEF IInv, AdjType, OptionType
  <1>q. QED BY <1>1 DEF Whole, ItemsGoOn

LEMMA OnceKept ==
    ASSUME IInv, UNCHANGED request, order'.state = order.state
    PROVE  Once'
  BY DEF IInv, Once, Running, Paying

\* What a step may not do to the plan of an archived month or of a revoked
\* account.
Frozen ==
    (period.status = "closed" \/ ~account.linked) =>
        /\ item' = item /\ period'.target = period.target
        /\ \A a \in Adjustments : adj[a].state = "proposed" => adj'[a].state = "proposed"

LEMMA ClosedKept ==
    ASSUME IInv, UNCHANGED <<request, adj>>, period'.status = "closed" => period.status = "closed"
    PROVE  ClosedIsSettled'
  BY DEF IInv, ClosedIsSettled, Running

\* A step that touches neither requests nor adjustments nor the order's state,
\* given what it does to the page and the items.
LEMMA QuietInv ==
    ASSUME IInv, UNCHANGED <<request, adj>>, order'.state = order.state,
           Grows, ItemsGoOn, TypeOK', ShownKnown',
           page' \in PageType',
           period'.status = "none" => period'.version = 0,
           ClosedIsSettled'
    PROVE  IInv'
  <1>1. \A a \in Adjustments : ProposalKnown(a)' /\ Whole(a)'
    BY ProposalBasis, WholeKept DEF Requests
  <1>2. Once'
    BY OnceKept
  <1>3. FormKnown'
    BY DEF IInv, FormKnown, RequestKnown, Paying, Running
  <1>q. QED BY <1>1, <1>2, <1>3 DEF IInv, BasisKnown

------------------------------------------------------------------------------
(* The account, the month, the rule of the order and the period.           *)

LEMMA AccountInv ==
    ASSUME IInv, \/ \E cash \in CashLevels : BankFact(cash)
                 \/ MonthEnds \/ Revoke \/ Reauthorize
    PROVE  IInv' /\ Frozen
  <1>1. UNCHANGED <<environment, item, order, request, adj, page>>
    BY DEF BankFact, MonthEnds, Revoke, Reauthorize, orderVars
  <1>2. TypeOK /\ account \in AccountType /\ period \in PeriodType
    BY Basics DEF IInv
  <1>3. /\ account' \in AccountType /\ account'.version >= account.version
        /\ period' \in PeriodType /\ period'.version >= period.version
        /\ period'.status = period.status /\ period'.target = period.target
        /\ period.status = "none" => period'.version = period.version
        /\ month' \in {"running", "over"}
    <2>1. ASSUME NEW cash \in CashLevels, BankFact(cash) PROVE <1>3!:
      <3>1. account' = [account EXCEPT !.cash = cash, !.version = @ + 1]
            /\ UNCHANGED <<period, month>>
        BY <2>1 DEF BankFact
      <3>2. cash \in Nat /\ account.version + 1 \in Nat
        BY <1>2, PlanAssumption DEF AccountType
      <3>3. account' \in AccountType /\ account'.version = account.version + 1
        BY <1>2, <3>1, <3>2 DEF AccountType
      <3>q. QED BY <1>2, <3>1, <3>3 DEF TypeOK, AccountType, PeriodType
    <2>2. CASE MonthEnds
      BY <1>2, <2>2 DEF MonthEnds, AccountType, PeriodType
    <2>3. CASE Revoke
      <3>1. account' = [account EXCEPT !.linked = FALSE, !.version = @ + 1]
            /\ period' = [period EXCEPT
                   !.version = IF period.status = "none" THEN @ ELSE @ + 1]
            /\ UNCHANGED month
        BY <2>3 DEF Revoke
      <3>2. account' \in AccountType /\ account'.version = account.version + 1
        BY <1>2, <3>1, Basics DEF AccountType
      <3>3. /\ period' \in PeriodType /\ period'.version >= period.version
            /\ period'.status = period.status /\ period'.target = period.target
            /\ period.status = "none" => period'.version = period.version
        BY <1>2, <3>1, Basics DEF PeriodType
      <3>q. QED BY <1>2, <3>1, <3>2, <3>3 DEF TypeOK, AccountType
    <2>4. CASE Reauthorize
      <3>1. account' = [account EXCEPT !.linked = TRUE, !.version = @ + 1]
            /\ UNCHANGED <<period, month>>
        BY <2>4 DEF Reauthorize
      <3>2. account' \in AccountType /\ account'.version = account.version + 1
        BY <1>2, <3>1, Basics DEF AccountType
      <3>q. QED BY <1>2, <3>1, <3>2 DEF TypeOK, AccountType, PeriodType
    <2>q. QED BY <2>1, <2>2, <2>3, <2>4
  <1>4. TypeOK'
    BY <1>1, <1>2, <1>3 DEF TypeOK, AccountType, PeriodType
  <1>5. Grows /\ ItemsGoOn /\ Frozen
    BY <1>1, <1>3 DEF Grows, ItemsGoOn, Frozen, AccountType, PeriodType
  <1>6. ShownKnown' /\ ClosedIsSettled'
    BY <1>1, <1>3, <1>5, PageBasis, ClosedKept
  <1>q. QED BY <1>1, <1>3, <1>4, <1>5, <1>6, QuietInv
    DEF IInv, FormKnown, BasisKnown, PageType

LEMMA ChangeRuleInv == ASSUME IInv, NEW rule \in Rules, ChangeRule(rule) PROVE IInv' /\ Frozen
  <1>1. UNCHANGED <<environment, account, month, period, item, request, adj, page>>
    BY DEF ChangeRule
  <1>2. order' \in OrderType /\ order'.state = order.state
    <2>1. order \in OrderType /\ rule \in AllRules /\ 2 \in 0 .. 2
      BY Basics, PlanAssumption
    <2>2. order' = [order EXCEPT !.rule = rule, !.version = 2]
      BY DEF ChangeRule
    <2>q. QED BY <2>1, <2>2 DEF OrderType
  <1>3. TypeOK'
    BY <1>1, <1>2 DEF IInv, TypeOK, OrderType
  <1>4. Grows /\ ItemsGoOn /\ Frozen
    BY <1>1, Basics DEF Grows, ItemsGoOn, Frozen
  <1>5. ShownKnown' /\ ClosedIsSettled'
    BY <1>1, <1>4, PageBasis, ClosedKept
  <1>q. QED BY <1>1, <1>2, <1>3, <1>4, <1>5, QuietInv
    DEF IInv, FormKnown, BasisKnown, PageType

\* The period is created, activated, given another target or archived.
LEMMA PeriodInv ==
    ASSUME IInv, \/ \E target \in Targets : CreatePeriod(target) \/ ChangeTarget(target)
                 \/ Activate \/ Close
    PROVE  IInv' /\ Frozen
  <1>1. UNCHANGED <<environment, account, month, item, order, request, adj>>
    BY DEF CreatePeriod, ChangeTarget, Activate, Close, orderVars
  <1>2. TypeOK /\ period \in PeriodType /\ (period.status = "none" => period.version = 0)
    BY Basics DEF IInv, BasisKnown
  <1>3. /\ period' \in PeriodType
        /\ period'.version >= period.version /\ period'.status # "none"
        /\ period.status = "closed" \/ ~account.linked => period'.target = period.target
        /\ period'.status = "closed" => NothingOpen
    <2>1. ASSUME NEW target \in Targets, CreatePeriod(target) PROVE <1>3!:
      <3>1. target \in Nat
            /\ period' = [status |-> "draft", version |-> 1, target |-> target]
            /\ period.status = "none" /\ account.linked
        BY <2>1, PlanAssumption DEF CreatePeriod
      <3>q. QED BY <1>2, <3>1, Basics DEF PeriodType
    <2>2. ASSUME NEW target \in Targets, ChangeTarget(target) PROVE <1>3!:
      <3>1. target \in Nat
            /\ period' = [period EXCEPT !.target = target, !.version = @ + 1]
            /\ period.status \in {"draft", "active"} /\ account.linked
        BY <2>2, PlanAssumption DEF ChangeTarget, Changeable
      <3>2. /\ period' \in PeriodType /\ period'.version = period.version + 1
            /\ period'.status = period.status
        BY <1>2, <3>1, Basics DEF PeriodType
      <3>q. QED BY <1>2, <3>1, <3>2 DEF PeriodType
    <2>3. CASE Activate
      <3>1. /\ period' = [period EXCEPT !.status = "active", !.version = @ + 1]
            /\ period.status = "draft"
        BY <2>3 DEF Activate
      <3>2. /\ period' \in PeriodType /\ period'.version = period.version + 1
            /\ period'.status = "active" /\ period'.target = period.target
        BY <1>2, <3>1, Basics DEF PeriodType
      <3>q. QED BY <1>2, <3>2 DEF PeriodType
    <2>4. CASE Close
      <3>1. /\ period' = [period EXCEPT !.status = "closed", !.version = @ + 1]
            /\ NothingOpen
        BY <2>4 DEF Close
      <3>2. /\ period' \in PeriodType /\ period'.version = period.version + 1
            /\ period'.status = "closed" /\ period'.target = period.target
        BY <1>2, <3>1, Basics DEF PeriodType
      <3>q. QED BY <1>2, <3>1, <3>2 DEF PeriodType
    <2>q. QED BY <2>1, <2>2, <2>3, <2>4
  <1>4. Grows /\ ItemsGoOn /\ Frozen
    BY <1>1, <1>3, Basics DEF Grows, ItemsGoOn, Frozen, PeriodType
  <1>5. /\ page' \in PageType' /\ ShownKnown'
    <2>1. CASE \E target \in Targets : CreatePeriod(target)
      BY <1>4, <2>1, PageBasis, Basics DEF CreatePeriod, PageType
    <2>2. CASE Close \/ \E target \in Targets : ChangeTarget(target)
      <3>1. page' = NoPage
        BY <2>2 DEF Close, ChangeTarget
      <3>q. QED BY <3>1, EmptyIsKnown, AwayIsKnown DEF ShownKnown
    <2>3. CASE Activate
      <3> DEFINE read == [Versions EXCEPT !.period = @ + 1]
      <3>1. page' = [NoPage EXCEPT !.at = "open", !.read = read]
            /\ period' = [period EXCEPT !.status = "active", !.version = @ + 1]
        BY <2>3 DEF Activate
      <3>2. Versions \in VersionType /\ Versions.account = account.version
            /\ Versions.period = period.version
        BY Basics DEF VersionType, Versions
      <3>3. read \in VersionType /\ read.account = account.version
            /\ read.period = period.version + 1
        BY <3>2 DEF VersionType
      <3>4. period'.version = period.version + 1
        BY <1>2, <3>1, Basics DEF PeriodType
      <3> HIDE DEF read
      <3>5. page' \in PageType' /\ page'.at = "open" /\ page'.read = read
        BY <3>1, <3>3, OpenIsKnown
      <3>6. ShownKnown'
        BY <1>1, <3>3, <3>4, <3>5, Basics DEF ShownKnown, NotAhead
      <3>q. QED BY <3>5, <3>6
    <2>q. QED BY <2>1, <2>2, <2>3
  <1>6. TypeOK'
    BY <1>1, <1>2, <1>3, <1>5 DEF TypeOK, PeriodType, PageType
  <1>7. ClosedIsSettled'
    BY <1>1, <1>3 DEF NothingOpen, ClosedIsSettled, Requests, Running
  <1>q. QED BY <1>1, <1>3, <1>4, <1>5, <1>6, <1>7, QuietInv

------------------------------------------------------------------------------
(* The page and the items.                                                 *)

\* A change the page may show is about an item that is new or planned.
LEMMA ChangeKnown ==
    ASSUME IInv, NEW change \in Changes
    PROVE  /\ change \in ChangeType /\ change.item \in Items
           /\ change.to.status \in {"planned", "cancelled"}
           /\ item[change.item].status \in {"none", "planned"}
  <1>1. \A n \in Amounts : n \in Nat
    BY PlanAssumption
  <1>2. ASSUME NEW n \in Amounts, NEW s \in {"planned", "cancelled"}
        PROVE  /\ Planned("adjustable", n) \in ItemType
               /\ Planned("adjustable", n).status = "planned"
               /\ [Planned("adjustable", n) EXCEPT !.status = s] \in ItemType
               /\ [Planned("adjustable", n) EXCEPT !.status = s].status = s
    <2>1. Planned("adjustable", n) \in ItemType /\ Planned("adjustable", n).status = "planned"
      BY <1>1 DEF Planned, ItemType, ItemStates
    <2>q. QED BY <2>1 DEF ItemType, ItemStates
  <1>3. CASE \E i \in {j \in Items : item[j].status = "planned"},
                n \in Amounts, s \in {"planned", "cancelled"} :
                change = [item |-> i, to |-> [Planned("adjustable", n) EXCEPT !.status = s]]
    <2>1. PICK i \in {j \in Items : item[j].status = "planned"},
               n \in Amounts, s \in {"planned", "cancelled"} :
               change = [item |-> i, to |-> [Planned("adjustable", n) EXCEPT !.status = s]]
      BY <1>3
    <2> DEFINE to == [Planned("adjustable", n) EXCEPT !.status = s]
    <2>2. to \in ItemType /\ to.status = s
      BY <1>2
    <2>3. change = [item |-> i, to |-> to]
      BY <2>1
    <2> HIDE DEF to
    <2>q. QED BY <2>2, <2>3 DEF ChangeType
  <1>4. CASE HasFresh /\ \E n \in Amounts :
                 change = [item |-> Fresh, to |-> Planned("adjustable", n)]
    <2>1. PICK n \in Amounts : change = [item |-> Fresh, to |-> Planned("adjustable", n)]
      BY <1>4
    <2>2. Fresh \in Items /\ item[Fresh].status = "none"
      BY <1>4 DEF HasFresh, Fresh
    <2>3. Planned("adjustable", n) \in ItemType /\ Planned("adjustable", n).status = "planned"
      BY <1>2
    <2>q. QED BY <2>1, <2>2, <2>3 DEF ChangeType
  <1>5. \/ \E i \in {j \in Items : item[j].status = "planned"},
              n \in Amounts, s \in {"planned", "cancelled"} :
              change = [item |-> i, to |-> [Planned("adjustable", n) EXCEPT !.status = s]]
        \/ HasFresh /\ \E n \in Amounts :
               change = [item |-> Fresh, to |-> Planned("adjustable", n)]
    BY DEF Changes
  <1>q. QED BY <1>3, <1>4, <1>5

LEMMA PageInv ==
    ASSUME IInv, \/ OpenPage \/ LeavePage \/ SaveRefused
                 \/ \E change \in Changes : ShowChange(change)
    PROVE  IInv' /\ Frozen
  <1>1. UNCHANGED <<environment, account, month, period, item, order, request, adj>>
    BY DEF OpenPage, LeavePage, SaveRefused, ShowChange, orderVars
  <1>2. page' \in PageType' /\ ShownKnown'
    <2>1. CASE OpenPage
      <3>1. page' = [NoPage EXCEPT !.at = "open", !.read = Versions]
        BY <2>1 DEF OpenPage
      <3>2. Versions \in VersionType /\ NotAhead(Versions)
        BY Basics DEF Versions, VersionType, NotAhead
      <3>3. page' \in PageType' /\ page'.at = "open" /\ page'.read = Versions
        BY <3>1, <3>2, OpenIsKnown
      <3>q. QED BY <1>1, <3>2, <3>3 DEF ShownKnown, NotAhead
    <2>2. CASE LeavePage
      <3>1. page' = NoPage
        BY <2>2 DEF LeavePage
      <3>q. QED BY <3>1, EmptyIsKnown, AwayIsKnown DEF ShownKnown
    <2>3. CASE SaveRefused
      <3>1. page' = [NoPage EXCEPT !.at = "open", !.read = page.read]
            /\ page.at = "shown"
        BY <2>3 DEF SaveRefused
      <3>2. page' \in PageType' /\ page'.at = "open" /\ page'.read = page.read
        BY <3>1, Basics, OpenIsKnown
      <3>q. QED BY <1>1, <3>1, <3>2 DEF IInv, BasisKnown, ShownKnown, NotAhead
    <2>4. ASSUME NEW change \in Changes, ShowChange(change)
          PROVE  page' \in PageType' /\ ShownKnown'
      <3> DEFINE after == Forecast(With(change), 0)
      <3>1. /\ page' = [page EXCEPT !.at = "shown", !.change = change, !.after = after]
            /\ page.at # "away"
        BY <2>4 DEF ShowChange
      <3> HIDE DEF after
      <3>2. page = [at |-> page.at, read |-> page.read, change |-> page.change,
                    after |-> page.after]
        BY Basics DEF PageType
      <3>3. page' = [at |-> "shown", read |-> page.read, change |-> change, after |-> after]
        BY <3>1, <3>2
      <3>4. page' \in PageType'
        BY <3>3, PageFits, ChangeKnown, Basics
      <3>q. QED BY <1>1, <3>1, <3>3, <3>4, ChangeKnown
            DEF IInv, BasisKnown, ShownKnown, NotAhead
    <2>q. QED BY <2>1, <2>2, <2>3, <2>4
  <1>3. TypeOK'
    BY <1>1, <1>2 DEF IInv, TypeOK, PageType
  <1>4. Grows /\ ItemsGoOn /\ Frozen
    BY <1>1, Basics DEF Grows, ItemsGoOn, Frozen
  <1>5. ClosedIsSettled'
    BY <1>1, ClosedKept
  <1>q. QED BY <1>1, <1>2, <1>3, <1>4, <1>5, QuietInv DEF IInv, BasisKnown

LEMMA SaveInv == ASSUME IInv, Save PROVE IInv' /\ Frozen
  <1> DEFINE i == page.change.item
             to == page.change.to
  <1>1. /\ UNCHANGED <<environment, account, month, order, request, adj>>
        /\ item' = [item EXCEPT ![i] = to]
        /\ period' = [period EXCEPT !.version = @ + 1]
        /\ page' = NoPage
        /\ Changeable /\ page.at = "shown" /\ page.read = Versions
    BY DEF Save, Unchanged, orderVars
  <1>2. /\ i \in Items /\ to \in ItemType /\ to.status \in {"planned", "cancelled"}
        /\ item[i].status \in {"none", "planned"}
    BY <1>1, Basics DEF IInv, BasisKnown, ShownKnown, PageType, ChangeType
  <1> HIDE DEF i, to
  <1>3. item' \in [Items -> ItemType] /\ ItemsGoOn
    BY <1>1, <1>2, Basics DEF ItemsGoOn
  <1>4. /\ period' \in PeriodType /\ period'.version = period.version + 1
        /\ period'.status = period.status
    BY <1>1, Basics DEF PeriodType
  <1>5. Grows
    BY <1>1, <1>4, Basics DEF Grows
  <1>6. page' \in PageType' /\ ShownKnown'
    BY <1>1, EmptyIsKnown, AwayIsKnown DEF ShownKnown
  <1>7. TypeOK'
    BY <1>1, <1>3, <1>4, <1>6 DEF IInv, TypeOK, ItemType, PeriodType, PageType
  <1>8. Frozen /\ period'.status # "none" /\ ClosedIsSettled'
    BY <1>1, <1>4, ClosedKept DEF Frozen, Changeable
  <1>q. QED BY <1>1, <1>3, <1>5, <1>6, <1>7, <1>8, QuietInv

------------------------------------------------------------------------------
(* Proposals.                                                              *)

\* A step that replaces one adjustment that is not confirmed by another such.
LEMMA ProposalStep ==
    ASSUME IInv, NEW a \in Adjustments, NEW new \in AdjType,
           adj[a].state \notin Confirmed, new.state \notin Confirmed, new.item = None,
           adj[a].state = "proposed" => new.state = "proposed",
           new.state \in {"assessed", "proposed"} =>
               /\ NotAhead(new.basis)
               /\ new.basis = Versions /\ ~new.expired =>
                     \A o \in new.options : \A i \in o.cancel : item[i].status = "planned",
           adj' = [adj EXCEPT ![a] = new],
           UNCHANGED <<environment, account, month, period, item, order, request, page>>
    PROVE  IInv' /\ Frozen
  <1>1. adj' \in [Adjustments -> AdjType] /\ adj'[a] = new
        /\ \A b \in Adjustments \ {a} : adj'[b] = adj[b]
    BY DEF IInv, FormKnown
  <1>2. Grows /\ ItemsGoOn /\ Frozen
    BY <1>1, Basics DEF Grows, ItemsGoOn, Frozen
  <1>3. TypeOK'
    BY <1>1 DEF IInv, TypeOK, AdjType
  <1>4. FormKnown'
    BY <1>1 DEF IInv, FormKnown, RequestKnown, Paying, Running, PageType
  <1>5. \A b \in Adjustments : ProposalKnown(b)'
    <2>1. ProposalKnown(a)'
      BY <1>1 DEF ProposalKnown, NotAhead, Versions
    <2>2. \A b \in Adjustments \ {a} : ProposalKnown(b)'
      BY <1>1, <1>2, ProposalBasis
    <2>q. QED BY <2>1, <2>2
  <1>6. BasisKnown'
    BY <1>2, <1>5, PageBasis DEF IInv, BasisKnown
  <1>7. Once'
    BY OnceKept
  <1>8. ClosedIsSettled'
    BY <1>1 DEF IInv, ClosedIsSettled, Running, Confirmed
  <1>9. \A b \in Adjustments : Whole(b)'
    <2>1. Whole(a)'
      BY <1>1 DEF IInv, Whole
    <2>2. \A b \in Adjustments \ {a} : Whole(b)'
      BY <1>1, <1>2, WholeKept DEF Requests
    <2>q. QED BY <2>1, <2>2
  <1>q. QED BY <1>2, <1>3, <1>4, <1>6, <1>7, <1>8, <1>9 DEF IInv

LEMMA AssessInv ==
    ASSUME IInv, NEW a \in Adjustments, NEW amount \in Expenses, Assess(a, amount)
    PROVE  IInv' /\ Frozen
  <1> DEFINE new == [NoAdjustment EXCEPT !.state = "assessed", !.basis = Versions,
                        !.amount = amount, !.options = Options, !.rule = order.version]
  <1>1. /\ adj' = [adj EXCEPT ![a] = new] /\ adj[a].state = "none"
        /\ UNCHANGED <<environment, account, month, period, item, order, request, page>>
    BY DEF Assess, orderVars
  <1>2. Versions \in VersionType /\ NotAhead(Versions)
    BY Basics DEF Versions, VersionType, NotAhead
  <1>3. ASSUME NEW o \in Options
        PROVE  o \in OptionType /\ \A i \in o.cancel : item[i].status = "planned"
    <2>1. CASE \E b \in BOOLEAN : o = [cancel |-> {}, order |-> b]
      BY <2>1 DEF OptionType
    <2>2. CASE \E i \in Candidates : o = [cancel |-> {i}, order |-> FALSE]
      BY <2>2 DEF Candidates, OptionType
    <2>3. CASE o = [cancel |-> Candidates, order |-> FALSE]
      BY <2>3 DEF Candidates, OptionType
    <2>q. QED BY <2>1, <2>2, <2>3 DEF Options, NoOption
  <1>4. amount \in Nat /\ order.version \in 0 .. 2
    BY Basics, PlanAssumption DEF OrderType
  <1>5. Options \in SUBSET OptionType
    BY <1>3
  <1>6. NoAdjustment \in AdjType /\ NoAdjustment.item = None
    BY EmptyIsKnown
  <1>7. /\ new \in AdjType /\ new.state = "assessed" /\ new.basis = Versions
        /\ new.options = Options /\ new.item = None
    BY <1>2, <1>4, <1>5, <1>6 DEF AdjType
  <1> HIDE DEF new
  <1>q. QED BY <1>1, <1>2, <1>3, <1>7, ProposalStep DEF Confirmed

LEMMA ProposalInv ==
    ASSUME IInv, NEW a \in Adjustments,
           Propose(a) \/ AbortAssessment(a) \/ ProposalExpires(a)
    PROVE  IInv' /\ Frozen
  <1>1. UNCHANGED <<environment, account, month, period, item, order, request, page>>
    BY DEF Propose, AbortAssessment, ProposalExpires, orderVars
  <1>2. adj[a] \in AdjType /\ adj \in [Adjustments -> AdjType] /\ Whole(a) /\ ProposalKnown(a)
    BY Basics DEF IInv, BasisKnown, FormKnown
  <1>3. CASE Propose(a)
    <2> DEFINE new == [adj[a] EXCEPT !.state = "proposed"]
    <2>1. adj' = [adj EXCEPT ![a] = new] /\ adj[a].state = "assessed"
      BY <1>3 DEF Propose
    <2>2. /\ new \in AdjType /\ new.state = "proposed" /\ new.basis = adj[a].basis
          /\ new.options = adj[a].options /\ new.item = adj[a].item
          /\ new.expired = adj[a].expired
      BY <1>2 DEF AdjType, Confirmed
    <2> HIDE DEF new
    <2>q. QED BY <1>1, <1>2, <2>1, <2>2, ProposalStep DEF Whole, ProposalKnown, Confirmed
  <1>4. CASE AbortAssessment(a)
    BY <1>1, <1>4, EmptyIsKnown, ProposalStep DEF AbortAssessment, Confirmed
  <1>5. CASE ProposalExpires(a)
    <2> DEFINE new == [NoAdjustment EXCEPT !.state = "proposed", !.expired = TRUE]
    <2>1. adj' = [adj EXCEPT ![a] = new] /\ adj[a].state = "proposed"
      BY <1>5 DEF ProposalExpires
    <2>2. NoAdjustment \in AdjType /\ NoAdjustment.item = None
          /\ NoAdjustment.basis = NoVersions
      BY EmptyIsKnown DEF NoAdjustment
    <2>3. NotAhead(NoVersions)
      BY Basics DEF NoVersions, NotAhead
    <2>4. new \in AdjType /\ new.state = "proposed" /\ new.basis = NoVersions
          /\ new.expired /\ new.item = None
      BY <2>2 DEF AdjType
    <2> HIDE DEF new
    <2>q. QED BY <1>1, <2>1, <2>3, <2>4, ProposalStep DEF Confirmed
  <1>q. QED BY <1>3, <1>4, <1>5

------------------------------------------------------------------------------
(* What the rule makes of a cancellation.                                  *)

LEMMA BatchesFit ==
    ASSUME NEW rule \in AllRules
    PROVE  /\ LeftOK(Batches(rule)) /\ Batches(rule) \in Seq(Nat)
           /\ rule # "reject" => Batches(rule) # << >>
  <1> DEFINE back == IF rule \in {"fee_80", "two_batches"} THEN Price - Fee ELSE Price
  <1>1. back \in 0 .. Price
    BY PlanAssumption
  <1>2. CASE rule = "reject"
    BY <1>2 DEF Batches, LeftOK
  <1>3. CASE rule = "two_batches"
    <2>1. Batches(rule) = <<back \div 2, back - back \div 2>>
      BY <1>3 DEF Batches
    <2> HIDE DEF back
    <2>2. back \div 2 \in 0 .. Price /\ back - back \div 2 \in 0 .. Price
          /\ back \div 2 + (back - back \div 2) <= Price
      BY <1>1, PlanAssumption
    <2> DEFINE m == back \div 2
               n == back - back \div 2
    <2>3. Batches(rule) = <<m, n>> /\ m \in 0 .. Price /\ n \in 0 .. Price /\ m + n <= Price
      BY <2>1, <2>2
    <2> HIDE DEF m, n
    <2>4. Batches(rule) # << >> /\ Batches(rule) \in Seq(Nat)
      BY <2>3, PlanAssumption
    <2>5. LeftOK(Batches(rule))
      BY <2>3 DEF LeftOK
    <2>q. QED BY <2>4, <2>5
  <1>4. CASE rule \notin {"reject", "two_batches"}
    <2>1. Batches(rule) = <<back>>
      BY <1>4 DEF Batches
    <2> HIDE DEF back
    <2>q. QED BY <1>1, <1>4, <2>1, PlanAssumption DEF LeftOK
  <1>q. QED BY <1>2, <1>3, <1>4

\* A request under the rule: it pays, waits for the merchant or is refused.
LEMMA RequestForFits ==
    ASSUME NEW rule \in AllRules
    PROVE  /\ RequestFor(rule) \in RequestType
           /\ LeftOK(RequestFor(rule).left)
           /\ RequestFor(rule).state = "refund_processing"
                  <=> RequestFor(rule).left # << >>
           /\ RequestFor(rule).state =
                  CASE Decision(rule) = "approve" -> "refund_processing"
                    [] Decision(rule) = "delay" -> "delayed"
                    [] Decision(rule) = "reject" -> "rejected"
           /\ Decision(rule) \in {"approve", "delay", "reject"}
  <1>1. Decision(rule) \in {"approve", "delay", "reject"}
        /\ (Decision(rule) = "approve" => rule # "reject")
    BY DEF Decision
  <1>2. CASE Decision(rule) = "approve"
    <2>1. RequestFor(rule) = [state |-> "refund_processing", left |-> Batches(rule)]
      BY <1>2 DEF RequestFor
    <2>q. QED BY <1>1, <1>2, <2>1, BatchesFit DEF RequestType, RequestStates
  <1>3. CASE Decision(rule) = "delay"
    <2>1. RequestFor(rule) = [state |-> "delayed", left |-> << >>]
      BY <1>3 DEF RequestFor, NoRequest
    <2>q. QED BY <1>1, <1>3, <2>1 DEF RequestType, RequestStates, LeftOK
  <1>4. CASE Decision(rule) = "reject"
    <2>1. RequestFor(rule) = [state |-> "rejected", left |-> << >>]
      BY <1>4 DEF RequestFor, NoRequest
    <2>q. QED BY <1>1, <1>4, <2>1 DEF RequestType, RequestStates, LeftOK
  <1>q. QED BY <1>1, <1>2, <1>3, <1>4

LEMMA ItemsAfterFit ==
    ASSUME IInv, NEW a \in Adjustments, NEW o \in OptionType, HasFresh,
           \A i \in o.cancel : item[i].status = "planned",
           item' = ItemsAfter(a, o, Fresh)
    PROVE  /\ Fresh \in Items /\ item' \in [Items -> ItemType] /\ ItemsGoOn
           /\ item'[Fresh].status = "planned"
           /\ \A i \in o.cancel : item'[i].status = "cancelled"
  <1> DEFINE bill == Planned("required", adj[a].amount)
             gone(i) == [item[i] EXCEPT !.status = "cancelled"]
  <1>1. Fresh \in Items /\ item[Fresh].status = "none"
    BY DEF HasFresh, Fresh
  <1>2. item \in [Items -> ItemType] /\ o.cancel \subseteq Items /\ adj[a].amount \in Nat
    BY Basics DEF OptionType, AdjType
  <1>3. bill \in ItemType /\ bill.status = "planned"
    BY <1>2 DEF Planned, ItemType, ItemStates
  <1>4. \A i \in Items : gone(i) \in ItemType /\ gone(i).status = "cancelled"
    BY <1>2 DEF ItemType, ItemStates
  <1>5. item' = [i \in Items |->
            CASE i = Fresh -> bill
              [] i \in o.cancel /\ i # Fresh -> gone(i)
              [] OTHER -> item[i]]
    BY DEF ItemsAfter
  <1> HIDE DEF bill, gone
  <1>6. /\ item'[Fresh] = bill
        /\ \A i \in o.cancel : item'[i] = gone(i)
        /\ \A i \in Items \ (o.cancel \cup {Fresh}) : item'[i] = item[i]
    BY <1>1, <1>2, <1>5
  <1>7. item' \in [Items -> ItemType]
    BY <1>2, <1>3, <1>4, <1>5
  <1>8. item'[Fresh].status = "planned" /\ \A i \in o.cancel : item'[i].status = "cancelled"
    BY <1>2, <1>3, <1>4, <1>6
  <1>9. ItemsGoOn
    <2> SUFFICES ASSUME NEW i \in Items
                 PROVE  /\ item[i].status # "none" => item'[i].status # "none"
                        /\ item[i].status = "cancelled" => item'[i].status = "cancelled"
      BY DEF ItemsGoOn
    <2>1. CASE i = Fresh
      BY <1>1, <1>8, <2>1
    <2>2. CASE i \in o.cancel
      BY <1>8, <2>2
    <2>3. CASE i \notin o.cancel \cup {Fresh}
      BY <1>6, <2>3
    <2>q. QED BY <2>1, <2>2, <2>3
  <1>q. QED BY <1>1, <1>7, <1>8, <1>9

LEMMA ConfirmInv ==
    ASSUME IInv, NEW a \in Adjustments, NEW o \in adj[a].options, Confirm(a, o)
    PROVE  IInv' /\ Frozen
  <1> DEFINE refund == o.order /\ Decision(order.rule) = "approve"
             new == [NoAdjustment EXCEPT
                 !.state = StateFor(o, order.rule), !.chosen = o, !.item = Fresh]
             rises == period.version + Cardinality(o.cancel) + 1
  <1>1. /\ adj[a].state = "proposed" /\ ~adj[a].expired /\ adj[a].basis = Versions
        /\ HasFresh /\ account.linked /\ (o.order => Cancellable)
        /\ Allowed(Forecast(Without(o.cancel), ExtraOf(a, o)))
        /\ item' = ItemsAfter(a, o, Fresh)
        /\ period' = [period EXCEPT !.version = rises]
        /\ request' = IF o.order THEN [request EXCEPT ![a] = RequestFor(order.rule)]
                      ELSE request
        /\ order' = IF refund THEN [order EXCEPT !.state = "cancelling"] ELSE order
        /\ account' = [account EXCEPT !.version = @ + (IF refund THEN 1 ELSE 0)]
        /\ adj' = [adj EXCEPT ![a] = new]
        /\ UNCHANGED <<environment, month, page>>
    BY DEF Confirm, RaiseAccount
  <1>2. o \in OptionType /\ (\A i \in o.cancel : item[i].status = "planned")
    <2>1. ProposalKnown(a) /\ adj[a] \in AdjType
      BY Basics DEF IInv, BasisKnown
    <2>q. QED BY <1>1, <2>1 DEF ProposalKnown, AdjType
  <1>3. period.status = "active"
    BY <1>1 DEF Allowed, Forecast, NoForecast
  <1>4. request[a] = NoRequest /\ a \in Requests /\ order.rule \in AllRules
    BY <1>1, Basics DEF IInv, Whole, Confirmed, Requests, OrderType
  <1>5. /\ Fresh \in Items /\ item' \in [Items -> ItemType] /\ ItemsGoOn
        /\ item'[Fresh].status = "planned"
        /\ \A i \in o.cancel : item'[i].status = "cancelled"
    BY <1>1, <1>2, ItemsAfterFit
  <1>6. rises \in Nat /\ rises > period.version
    <2>1. Cardinality(o.cancel) \in Nat
      <3>1. o.cancel \subseteq Items /\ IsFiniteSet(Items)
        BY <1>2, PlanAssumption DEF OptionType
      <3>2. IsFiniteSet(o.cancel)
        BY <3>1, FS_Subset
      <3>q. QED BY <3>2, FS_CardinalityType
    <2>q. QED BY <2>1, Basics
  <1>7. NoAdjustment \in AdjType /\ StateFor(o, order.rule) \in Confirmed
    BY EmptyIsKnown DEF StateFor, Confirmed
  <1>8. new \in AdjType /\ new.state \in Confirmed /\ new.chosen = o /\ new.item = Fresh
    BY <1>2, <1>5, <1>7 DEF AdjType
  <1> HIDE DEF new, rises
  <1>9. adj' \in [Adjustments -> AdjType] /\ adj'[a] = new
        /\ \A b \in Adjustments \ {a} : adj'[b] = adj[b]
    BY <1>1, <1>8 DEF IInv, FormKnown
  <1>10. period' \in PeriodType /\ period'.version > period.version
         /\ period'.status = "active"
    BY <1>1, <1>3, <1>6, Basics DEF PeriodType
  <1>11. account' \in AccountType /\ account'.version >= account.version
    <2>1. (IF refund THEN 1 ELSE 0) \in {0, 1}
      OBVIOUS
    <2> HIDE DEF refund
    <2>q. QED BY <1>1, <2>1, Basics DEF AccountType
  <1>12. order' \in OrderType /\ order'.state = IF refund THEN "cancelling" ELSE order.state
    <2> HIDE DEF refund
    <2>q. QED BY <1>1, Basics DEF OrderType
  <1>13. /\ request' \in [Requests -> RequestType]
         /\ \A r \in Requests \ {a} : request'[r] = request[r]
         /\ request'[a] = IF o.order THEN RequestFor(order.rule) ELSE NoRequest
    <2>1. request \in [Requests -> RequestType] /\ RequestFor(order.rule) \in RequestType
      BY <1>4, RequestForFits DEF IInv, FormKnown
    <2>q. QED BY <1>1, <1>4, <2>1
  <1>14. Grows /\ Frozen
    <2>1. Frozen
      BY <1>1, <1>3 DEF Frozen
    <2>2. account'.version \in Nat /\ period'.version \in Nat
      BY <1>10, <1>11 DEF AccountType, PeriodType
    <2>3. Grows
      BY <1>10, <1>11, <2>2, Basics DEF Grows
    <2>q. QED BY <2>1, <2>3
  <1>15. TypeOK'
    BY <1>1, <1>5, <1>9, <1>10, <1>11, <1>12, <1>13
    DEF IInv, TypeOK, AccountType, PeriodType, OrderType, ItemType, RequestType, AdjType
  <1>16. FormKnown'
    <2>1. RequestKnown(a)'
      BY <1>4, <1>13, RequestForFits, EmptyIsKnown
      DEF RequestKnown, LeftOK, Paying, Running
    <2>2. \A r \in Requests \ {a} : RequestKnown(r)'
      BY <1>13 DEF IInv, FormKnown, RequestKnown, Paying, Running
    <2>q. QED BY <1>1, <1>9, <1>13, <2>1, <2>2 DEF IInv, FormKnown, PageType
  <1>17. BasisKnown'
    <2>1. ShownKnown'
      BY <1>1, <1>14, PageBasis
    <2>2. ProposalKnown(a)'
      BY <1>8, <1>9 DEF ProposalKnown, Confirmed
    <2>3. \A b \in Adjustments \ {a} : ProposalKnown(b)'
      BY <1>9, <1>14, ProposalBasis
    <2>q. QED BY <1>10, <2>1, <2>2, <2>3 DEF BasisKnown
  <1>18. Once'
    <2>1. CASE ~o.order
      BY <1>1, <2>1, OnceKept
    <2>2. CASE o.order
      <3>1. order.state = "paid" /\ \A r \in Requests : ~Running(r)
        BY <1>1, <2>2 DEF Cancellable
      <3>2. \A r \in Requests : ~Paying(r)
        BY <3>1 DEF IInv, Once, Paying, Running
      <3>3. \A r \in Requests \ {a} : Running(r)' = Running(r) /\ Paying(r)' = Paying(r)
        BY <1>13 DEF Running, Paying
      <3>4. order'.state \in {"paid", "cancelling"}
        BY <1>12, <3>1
      <3>5. request'[a].state \in {"refund_processing", "delayed", "rejected"}
        BY <1>4, <1>13, <2>2, RequestForFits
      <3>q. QED BY <1>13, <3>1, <3>2, <3>3, <3>4, <3>5 DEF Once, Running, Paying
    <2>q. QED BY <2>1, <2>2
  <1>19. ClosedIsSettled'
    BY <1>10 DEF ClosedIsSettled
  <1>20. \A b \in Adjustments : Whole(b)'
    <2>1. Whole(a)'
      <3>1. request'[a].state # "none" <=> o.order
        BY <1>4, <1>13, RequestForFits, EmptyIsKnown
      <3>q. QED BY <1>5, <1>8, <1>9, <3>1 DEF Whole
    <2>2. \A b \in Adjustments \ {a} : Whole(b)'
      BY <1>5, <1>9, <1>13, WholeKept DEF Requests
    <2>q. QED BY <2>1, <2>2
  <1>q. QED BY <1>14, <1>15, <1>16, <1>17, <1>18, <1>19, <1>20 DEF IInv

------------------------------------------------------------------------------
(* The cancelled order.                                                    *)

\* An adjustment stays, or one that is confirmed comes to its end.
StaysOrEnds(a) ==
    \/ adj'[a] = adj[a]
    \/ /\ adj[a].state \in Confirmed /\ adj'[a].state = "complete"
       /\ adj'[a].chosen = adj[a].chosen /\ adj'[a].item = adj[a].item

\* A step of one request, given what it does to the order and that no two
\* requests are under way or pay.
LEMMA RequestStep ==
    ASSUME IInv, NEW r \in Requests, NEW new \in RequestType,
           request' = [request EXCEPT ![r] = new], LeftOK(new.left),
           new.state = "refund_processing" => new.left # << >>,
           new.left # << >> => new.state \in {"refund_processing", "pending_review"},
           new.state # "none", r \in Adjustments => request[r].state # "none",
           order' \in OrderType, account' \in AccountType,
           account'.version >= account.version,
           UNCHANGED <<environment, month, period, item, page>>,
           adj' \in [Adjustments -> AdjType], \A a \in Adjustments : StaysOrEnds(a),
           Once', r \in Adjustments /\ Running(r)' => Running(r)
    PROVE  IInv' /\ Frozen
  <1>1. /\ request' \in [Requests -> RequestType] /\ request'[r] = new
        /\ \A q \in Requests \ {r} : request'[q] = request[q]
    BY DEF IInv, FormKnown
  <1>2. account'.version \in Nat
    BY DEF AccountType
  <1>3. Grows /\ ItemsGoOn
    BY <1>2, Basics DEF Grows, ItemsGoOn
  <1>4. \A a \in Adjustments : /\ adj[a].state \notin Confirmed => adj'[a] = adj[a]
                               /\ adj'[a].state \in Confirmed <=> adj[a].state \in Confirmed
                               /\ adj'[a].chosen = adj[a].chosen
                               /\ adj'[a].item = adj[a].item
    BY DEF StaysOrEnds, Confirmed
  <1>5. Frozen
    BY <1>4 DEF Frozen, Confirmed
  <1>6. TypeOK'
    BY <1>1 DEF IInv, TypeOK, AccountType, OrderType, RequestType, AdjType
  <1>7. FormKnown'
    BY <1>1 DEF IInv, FormKnown, RequestKnown, Paying, Running, PageType
  <1>8. BasisKnown'
    <2>1. ASSUME NEW a \in Adjustments PROVE ProposalKnown(a)'
      <3>1. CASE adj'[a] = adj[a]
        BY <1>3, <3>1, ProposalBasis
      <3>2. CASE adj'[a].state = "complete"
        BY <3>2 DEF ProposalKnown
      <3>q. QED BY <3>1, <3>2 DEF StaysOrEnds
    <2>q. QED BY <1>3, <2>1, PageBasis DEF IInv, BasisKnown
  <1>9. ClosedIsSettled'
    <2> SUFFICES ASSUME period.status = "closed", NEW a \in Adjustments
                 PROVE  ~Running(a)' /\ adj'[a].state \notin {"executing", "pending_review"}
      BY DEF ClosedIsSettled
    <2>1. ~Running(a) /\ adj[a].state \notin {"executing", "pending_review"}
      BY DEF IInv, ClosedIsSettled
    <2>2. ~Running(a)'
      BY <1>1, <2>1 DEF Running, Requests
    <2>q. QED BY <2>1, <2>2 DEF StaysOrEnds
  <1>10. \A a \in Adjustments : Whole(a)'
    <2> SUFFICES ASSUME NEW a \in Adjustments PROVE Whole(a)'
      OBVIOUS
    <2>1. Whole(a)
      BY DEF IInv
    <2>2. CASE a = r
      <3>1. adj[a].state \in Confirmed
        BY <2>1, <2>2, EmptyIsKnown DEF Whole
      <3>q. QED BY <1>1, <1>4, <2>1, <2>2, <3>1 DEF Whole
    <2>3. CASE a # r
      <3>1. request'[a] = request[a]
        BY <1>1, <2>3 DEF Requests
      <3>q. QED BY <1>4, <2>1, <3>1 DEF Whole
    <2>q. QED BY <2>2, <2>3
  <1>q. QED BY <1>5, <1>6, <1>7, <1>8, <1>9, <1>10 DEF IInv

\* The account's version, raised by one.
LEMMA RaiseByOne ==
    ASSUME IInv, RaiseAccount(1)
    PROVE  account' \in AccountType /\ account'.version >= account.version
  <1>1. account' = [account EXCEPT !.version = @ + 1] /\ account \in AccountType
        /\ account.version \in Nat /\ account.version + 1 \in Nat
    BY Basics DEF RaiseAccount
  <1>2. account' \in AccountType /\ account'.version = account.version + 1
    BY <1>1 DEF AccountType
  <1>q. QED BY <1>1, <1>2

LEMMA CancelOrderInv == ASSUME IInv, CancelOrder PROVE IInv' /\ Frozen
  <1> DEFINE new == RequestFor(order.rule)
             state == IF Decision(order.rule) = "reject" THEN order.state ELSE "cancelling"
  <1>1. /\ Cancellable /\ request' = [request EXCEPT ![None] = new]
        /\ order' = [order EXCEPT !.state = state] /\ RaiseAccount(1)
        /\ UNCHANGED <<environment, month, period, item, adj, page>>
    BY DEF CancelOrder, OrderFree
  <1>2. None \in Requests /\ None \notin Adjustments
    BY PlanAssumption DEF Requests
  <1>3. /\ new \in RequestType /\ LeftOK(new.left)
        /\ new.state = "refund_processing" <=> new.left # << >>
        /\ new.state \in {"refund_processing", "delayed", "rejected"}
    BY Basics, RequestForFits DEF OrderType
  <1>4. order.state = "paid" /\ \A r \in Requests : ~Running(r)
    BY <1>1 DEF Cancellable
  <1> HIDE DEF new
  <1>5. order' \in OrderType /\ order'.state \in {"paid", "cancelling"}
    <2>1. state \in {"paid", "cancelling"}
      BY <1>4
    <2> HIDE DEF state
    <2>q. QED BY <1>1, <2>1, Basics DEF OrderType
  <1>6. Once'
    <2>1. \A r \in Requests : ~Paying(r)
      BY <1>4 DEF IInv, Once, Paying, Running
    <2>2. /\ request'[None] = new
          /\ \A r \in Requests \ {None} : request'[r] = request[r]
      BY <1>1, <1>2 DEF IInv, FormKnown
    <2>3. \A r \in Requests \ {None} : ~Running(r)' /\ ~Paying(r)'
      BY <1>4, <2>1, <2>2 DEF Running, Paying
    <2>4. \A r \in Requests : request'[r].state # "completed"
      BY <1>3, <2>1, <2>2 DEF Paying
    <2>q. QED BY <1>5, <2>3, <2>4 DEF Once
  <1>7. \A a \in Adjustments : StaysOrEnds(a)
    BY <1>1 DEF StaysOrEnds
  <1>8. account' \in AccountType /\ account'.version >= account.version
    BY <1>1, RaiseByOne
  <1>9. adj' \in [Adjustments -> AdjType]
    BY <1>1 DEF IInv, FormKnown
  <1>q. QED BY <1>1, <1>2, <1>3, <1>5, <1>6, <1>7, <1>8, <1>9, RequestStep

LEMMA DecideInv ==
    ASSUME IInv, NEW r \in Requests, NEW approve \in BOOLEAN, Decide(r, approve)
    PROVE  IInv' /\ Frozen
  <1> DEFINE new == [request[r] EXCEPT !.state = IF approve THEN "approved" ELSE "rejected"]
             state == IF approve THEN "cancelling" ELSE "paid"
  <1>1. /\ request[r].state = "delayed" /\ request' = [request EXCEPT ![r] = new]
        /\ order' = [order EXCEPT !.state = state] /\ RaiseAccount(1)
        /\ UNCHANGED <<environment, month, period, item, adj, page>>
    BY DEF Decide
  <1>2. /\ new \in RequestType /\ new.left = request[r].left
        /\ new.state \in {"approved", "rejected"}
    BY Basics DEF RequestType, RequestStates
  <1>3. RequestKnown(r) /\ request[r].left = << >>
    BY <1>1 DEF IInv, FormKnown, RequestKnown, Paying
  <1>4. order' \in OrderType /\ order'.state \in {"paid", "cancelling"}
    <2>1. state \in {"paid", "cancelling"}
      OBVIOUS
    <2> HIDE DEF state, new
    <2>q. QED BY <1>1, <2>1, Basics DEF OrderType
  <1> HIDE DEF new
  <1>5. Once'
    <2>1. /\ request'[r] = new /\ \A q \in Requests \ {r} : request'[q] = request[q]
      BY <1>1 DEF IInv, FormKnown
    <2>2. Running(r) /\ ~Paying(r)'
      BY <1>1, <1>2, <2>1 DEF Running, Paying
    <2>3. \A q \in Requests : Running(q)' => q = r
      BY <2>1, <2>2 DEF IInv, Once, Running
    <2>4. \A q \in Requests : request[q].state # "completed"
      BY <2>2 DEF IInv, Once
    <2>5. \A q \in Requests : Paying(q)' => FALSE
      BY <2>1, <2>2, <2>3, <2>4 DEF Paying, Running
    <2>6. \A q \in Requests : request'[q].state # "completed"
      BY <1>2, <2>1, <2>4
    <2>q. QED BY <1>4, <2>3, <2>5, <2>6 DEF Once
  <1>6. \A a \in Adjustments : StaysOrEnds(a)
    BY <1>1 DEF StaysOrEnds
  <1>7. account' \in AccountType /\ account'.version >= account.version
    BY <1>1, RaiseByOne
  <1>8. adj' \in [Adjustments -> AdjType] /\ Running(r)
    BY <1>1 DEF IInv, FormKnown, Running
  <1>q. QED BY <1>1, <1>2, <1>3, <1>4, <1>5, <1>6, <1>7, <1>8, RequestStep DEF LeftOK

LEMMA ScheduleInv ==
    ASSUME IInv, NEW r \in Requests, ScheduleRefund(r)
    PROVE  IInv' /\ Frozen
  <1> DEFINE new == [state |-> "refund_processing", left |-> Batches("delay")]
  <1>1. /\ request[r].state = "approved" /\ request' = [request EXCEPT ![r] = new]
        /\ UNCHANGED <<environment, account, month, period, item, order, adj, page>>
    BY DEF ScheduleRefund
  <1>2. /\ new \in RequestType /\ LeftOK(new.left) /\ new.left # << >>
        /\ new.state = "refund_processing"
    <2>1. LeftOK(Batches("delay")) /\ Batches("delay") \in Seq(Nat) /\ Batches("delay") # << >>
      BY BatchesFit DEF AllRules
    <2>q. QED BY <2>1 DEF RequestType, RequestStates
  <1> HIDE DEF new
  <1>3. Once'
    <2>1. /\ request'[r] = new /\ \A q \in Requests \ {r} : request'[q] = request[q]
      BY <1>1 DEF IInv, FormKnown
    <2>2. Running(r)
      BY <1>1 DEF Running
    <2>3. \A q \in Requests : Running(q)' => q = r
      BY <2>1, <2>2 DEF IInv, Once, Running
    <2>4. \A q \in Requests : request[q].state # "completed"
      BY <2>2 DEF IInv, Once
    <2>5. \A q \in Requests : Paying(q)' => q = r
      BY <2>1, <2>3, <2>4 DEF Paying, Running
    <2>6. \A q \in Requests : request'[q].state # "completed"
      BY <1>2, <2>1, <2>4
    <2>7. order'.state # "cancelled"
      BY <1>1, <2>2 DEF IInv, Once
    <2>q. QED BY <2>3, <2>5, <2>6, <2>7 DEF Once
  <1>4. \A a \in Adjustments : StaysOrEnds(a)
    BY <1>1 DEF StaysOrEnds
  <1>5. order' \in OrderType /\ account' \in AccountType /\ account'.version >= account.version
    BY <1>1, Basics
  <1>6. adj' \in [Adjustments -> AdjType] /\ Running(r)
    BY <1>1 DEF IInv, FormKnown, Running
  <1>q. QED BY <1>1, <1>2, <1>3, <1>4, <1>5, <1>6, RequestStep

\* What is left to pay after one batch.
LEMMA OneBatchLess ==
    ASSUME NEW left \in Seq(Nat), LeftOK(left), left # << >>
    PROVE  /\ Head(left) \in Nat /\ Tail(left) \in Seq(Nat) /\ LeftOK(Tail(left))
           /\ Len(left) = 1 <=> Tail(left) = << >>
  <1>1. ASSUME NEW n \in 0 .. Price, left = <<n>>
        PROVE  Len(left) = 1 /\ Tail(left) = << >>
    BY <1>1
  <1>2. ASSUME NEW m \in 0 .. Price, NEW n \in 0 .. Price, left = <<m, n>>
        PROVE  Len(left) = 2 /\ Tail(left) = <<n>> /\ Tail(left) # << >> /\ LeftOK(Tail(left))
    BY <1>2 DEF LeftOK
  <1>3. CASE \E n \in 0 .. Price : left = <<n>>
    BY <1>1, <1>3 DEF LeftOK
  <1>4. CASE \E m, n \in 0 .. Price : m + n <= Price /\ left = <<m, n>>
    <2>1. PICK m \in 0 .. Price, n \in 0 .. Price : left = <<m, n>>
      BY <1>4
    <2>2. Len(left) = 2 /\ Tail(left) # << >> /\ LeftOK(Tail(left))
      BY <1>2, <2>1
    <2>q. QED BY <2>2
  <1>q. QED BY <1>3, <1>4 DEF LeftOK

LEMMA RefundBatchInv ==
    ASSUME IInv, NEW r \in Requests, RefundBatch(r)
    PROVE  IInv' /\ Frozen
  <1> DEFINE left == request[r].left
             last == Len(left) = 1
             new == [state |-> IF last THEN "completed" ELSE request[r].state,
                     left |-> Tail(left)]
             posted == IF environment = "simulation" THEN Head(left) ELSE 0
             state == IF last THEN "cancelled" ELSE order.state
  <1>1. /\ request[r].state = "refund_processing" /\ request' = [request EXCEPT ![r] = new]
        /\ order' = [order EXCEPT !.state = state]
        /\ account' = [account EXCEPT !.version = @ + 1, !.cash = @ + posted]
        /\ adj' = IF Completes(r) THEN [adj EXCEPT ![r].state = "complete"] ELSE adj
        /\ UNCHANGED <<environment, month, period, item, page>>
    BY DEF RefundBatch
  <1>2. /\ left \in Seq(Nat) /\ LeftOK(left) /\ left # << >> /\ Running(r)
    BY <1>1, Basics DEF IInv, FormKnown, RequestKnown, RequestType, Running
  <1>3. /\ Head(left) \in Nat /\ Tail(left) \in Seq(Nat) /\ LeftOK(Tail(left))
        /\ last <=> Tail(left) = << >>
    BY <1>2, OneBatchLess
  <1>4. posted \in Nat
    BY <1>3
  <1> HIDE DEF left, last, posted
  <1>5. /\ new \in RequestType /\ new.left = Tail(left)
        /\ new.state = IF last THEN "completed" ELSE "refund_processing"
    BY <1>1, <1>3 DEF RequestType, RequestStates
  <1> HIDE DEF new
  <1>6. order.state # "cancelled" /\ \A q \in Requests : request[q].state # "completed"
    BY <1>2 DEF IInv, Once
  <1>7. order' \in OrderType /\ order'.state = IF last THEN "cancelled" ELSE order.state
    BY <1>1, Basics DEF OrderType
  <1>8. account' \in AccountType /\ account'.version >= account.version
    <2>1. account.cash + posted \in Nat
      BY <1>4, Basics DEF AccountType
    <2>2. account' \in AccountType /\ account'.version = account.version + 1
      BY <1>1, <2>1, Basics DEF AccountType
    <2>q. QED BY <2>2, Basics
  <1>9. /\ adj' \in [Adjustments -> AdjType] /\ \A a \in Adjustments : StaysOrEnds(a)
    <2>1. CASE ~Completes(r)
      BY <1>1, <2>1 DEF IInv, FormKnown, StaysOrEnds
    <2>2. CASE Completes(r)
      <3>1. r \in Adjustments
        BY <2>2 DEF Completes, Requests
      <3>2. adj[r].state \in Confirmed
        BY <1>1, <3>1, EmptyIsKnown DEF IInv, Whole
      <3> DEFINE end == [adj[r] EXCEPT !.state = "complete"]
      <3>3. /\ end \in AdjType /\ end.state = "complete"
            /\ end.chosen = adj[r].chosen /\ end.item = adj[r].item
        BY <3>1, Basics DEF AdjType, Confirmed
      <3>4. adj' = [adj EXCEPT ![r] = end]
        BY <1>1, <2>2
      <3> HIDE DEF end
      <3>5. /\ adj' \in [Adjustments -> AdjType] /\ adj'[r] = end
            /\ \A a \in Adjustments \ {r} : adj'[a] = adj[a]
        BY <3>1, <3>3, <3>4 DEF IInv, FormKnown
      <3>q. QED BY <3>2, <3>3, <3>5 DEF StaysOrEnds
    <2>q. QED BY <2>1, <2>2
  <1>10. Once'
    <2>1. /\ request'[r] = new /\ \A q \in Requests \ {r} : request'[q] = request[q]
      BY <1>1 DEF IInv, FormKnown
    <2>2. \A q \in Requests \ {r} : ~Running(q)'
      BY <1>2, <2>1 DEF IInv, Once, Running
    <2>3. \A q \in Requests \ {r} : ~Paying(q)'
      BY <1>6, <2>1, <2>2 DEF Paying, Running
    <2>4. order'.state = "cancelled" => ~Running(r)'
      BY <1>5, <1>6, <1>7, <2>1 DEF Running
    <2>5. \A q \in Requests : request'[q].state = "completed" => order'.state = "cancelled"
      BY <1>5, <1>6, <1>7, <2>1
    <2>q. QED BY <2>2, <2>3, <2>4, <2>5 DEF Once
  <1>11. /\ LeftOK(new.left) /\ (new.state = "refund_processing" <=> new.left # << >>)
         /\ new.state # "none" /\ request[r].state # "none"
    BY <1>1, <1>3, <1>5
  <1>q. QED BY <1>1, <1>2, <1>5, <1>7, <1>8, <1>9, <1>10, <1>11, RequestStep

LEMMA QuestionInv ==
    ASSUME IInv, NEW r \in Requests, RefundQuestion(r)
    PROVE  IInv' /\ Frozen
  <1> DEFINE left == request[r].left
             new == [state |-> "pending_review", left |-> Tail(left)]
  <1>1. /\ left # << >> /\ request' = [request EXCEPT ![r] = new]
        /\ UNCHANGED <<environment, account, month, period, item, order, adj, page>>
    BY DEF RefundQuestion
  <1>2. left \in Seq(Nat) /\ LeftOK(left) /\ Running(r) /\ Paying(r)
    BY <1>1, Basics DEF IInv, FormKnown, RequestKnown, RequestType
  <1>3. Tail(left) \in Seq(Nat) /\ LeftOK(Tail(left))
    BY <1>1, <1>2, OneBatchLess
  <1> HIDE DEF left
  <1>4. new \in RequestType /\ new.left = Tail(left) /\ new.state = "pending_review"
    BY <1>3 DEF RequestType, RequestStates
  <1> HIDE DEF new
  <1>5. Once'
    <2>1. /\ request'[r] = new /\ \A q \in Requests \ {r} : request'[q] = request[q]
      BY <1>1 DEF IInv, FormKnown
    <2>2. \A q \in Requests : (Running(q)' => Running(q)) /\ (Paying(q)' => Paying(q))
      BY <1>2, <1>4, <2>1 DEF Running, Paying
    <2>3. \A q \in Requests : request'[q].state = "completed" => request[q].state = "completed"
      BY <1>4, <2>1
    <2>q. QED BY <1>1, <2>2, <2>3 DEF IInv, Once
  <1>6. \A a \in Adjustments : StaysOrEnds(a)
    BY <1>1 DEF StaysOrEnds
  <1>7. order' \in OrderType /\ account' \in AccountType /\ account'.version >= account.version
    BY <1>1, Basics
  <1>8. adj' \in [Adjustments -> AdjType] /\ request[r].state # "none"
    BY <1>1, <1>2 DEF IInv, FormKnown, Paying
  <1>q. QED BY <1>1, <1>2, <1>3, <1>4, <1>5, <1>6, <1>7, <1>8, RequestStep

------------------------------------------------------------------------------
(* The theorems.                                                           *)

LEMMA StutterInv == ASSUME IInv, UNCHANGED vars PROVE IInv' /\ Frozen
  <1>1. UNCHANGED <<environment, account, month, period, item, order, request, adj, page>>
    BY DEF vars, orderVars
  <1>2. TypeOK' /\ page' \in PageType'
    BY <1>1, Basics DEF IInv, TypeOK, PageType
  <1>3. Grows /\ ItemsGoOn /\ Frozen
    BY <1>1, Basics DEF Grows, ItemsGoOn, Frozen
  <1>4. ShownKnown' /\ ClosedIsSettled'
    BY <1>1, <1>3, PageBasis, ClosedKept
  <1>q. QED BY <1>1, <1>2, <1>3, <1>4, QuietInv DEF IInv, BasisKnown

LEMMA StepInv == ASSUME IInv, [Next]_vars PROVE IInv' /\ Frozen
  <1>1. CASE UNCHANGED vars
    BY <1>1, StutterInv
  <1>2. CASE \/ \E cash \in CashLevels : BankFact(cash)
             \/ MonthEnds \/ Revoke \/ Reauthorize
    BY <1>2, AccountInv
  <1>3. CASE \E rule \in Rules : ChangeRule(rule)
    BY <1>3, ChangeRuleInv
  <1>4. CASE \/ \E target \in Targets : CreatePeriod(target) \/ ChangeTarget(target)
             \/ Activate \/ Close
    BY <1>4, PeriodInv
  <1>5. CASE \/ OpenPage \/ LeavePage \/ SaveRefused
             \/ \E change \in Changes : ShowChange(change)
    BY <1>5, PageInv
  <1>6. CASE Save
    BY <1>6, SaveInv
  <1>7. ASSUME NEW a \in Adjustments,
               \/ \E amount \in Expenses : Assess(a, amount)
               \/ Propose(a) \/ AbortAssessment(a) \/ ProposalExpires(a)
               \/ \E o \in adj[a].options : Confirm(a, o)
        PROVE  IInv' /\ Frozen
    BY <1>7, AssessInv, ProposalInv, ConfirmInv
  <1>8. CASE CancelOrder
    BY <1>8, CancelOrderInv
  <1>9. ASSUME NEW r \in Requests,
               \/ \E approve \in BOOLEAN : Decide(r, approve)
               \/ ScheduleRefund(r) \/ RefundBatch(r) \/ RefundQuestion(r)
        PROVE  IInv' /\ Frozen
    BY <1>9, DecideInv, ScheduleInv, RefundBatchInv, QuestionInv
  <1>q. QED
    BY <1>1, <1>2, <1>3, <1>4, <1>5, <1>6, <1>7, <1>8, <1>9 DEF Next

THEOREM Invariance == Spec => []IInv
  <1>1. IInv /\ [Next]_vars => IInv'
    BY StepInv
  <1>q. QED BY InitInv, <1>1, PTL DEF Spec

\* An adjustment has all its effects or none, an archived month leaves none to
\* be carried out, and an order is cancelled and paid back once, by whichever of
\* the order's page and the adjustments comes first.
THEOREM PlanSoundAlways == Spec => []PlanSound
  BY Invariance, InvImplies, PTL

\* However old the page or the proposal is, nothing changes the items, the
\* target or the adjustments of an archived month or of a revoked account.
THEOREM FrozenPlanStaysAlways == Spec => FrozenPlanStays
  <1>1. IInv /\ [Next]_vars => [Frozen]_vars
    BY StepInv
  <1>2. [Frozen]_vars => [(period.status = "closed" \/ ~account.linked)
            => /\ item' = item /\ period'.target = period.target
               /\ \A a \in Adjustments : adj[a].state = "proposed"
                      => adj'[a].state = "proposed"]_vars
    BY DEF Frozen
  <1>q. QED BY Invariance, <1>1, <1>2, PTL DEF Spec, FrozenPlanStays

------------------------------------------------------------------------------
(* What a page has shown.                                                  *)

\* Whoever changes the cash, the target or the state of the period raises the
\* version of its row.
FactsFollowVersions ==
    /\ Grows
    /\ account'.version = account.version => account'.cash = account.cash
    /\ period'.version = period.version =>
           period'.status = period.status /\ period'.target = period.target
    /\ month' = "running" => month = "running"

LEMMA ConfirmRaises ==
    ASSUME IInv, NEW a \in Adjustments, NEW o \in adj[a].options, Confirm(a, o)
    PROVE  FactsFollowVersions
  <1>1. o.cancel \in SUBSET Items
    BY Basics DEF AdjType, OptionType
  <1>2. Cardinality(o.cancel) \in Nat
    BY <1>1, FS_Subset, FS_CardinalityType, PlanAssumption
  <1>3. /\ period' = [period EXCEPT !.version = @ + Cardinality(o.cancel) + 1]
        /\ \E n \in {0, 1} : account' = [account EXCEPT !.version = @ + n]
        /\ month' = month
    BY DEF Confirm, RaiseAccount
  <1>4. account'.version \in Nat /\ account'.version >= account.version
        /\ account'.cash = account.cash
    BY <1>3, Basics DEF AccountType
  <1>5. period'.version \in Nat /\ period'.version > period.version
    BY <1>2, <1>3, Basics DEF PeriodType
  <1>q. QED BY <1>3, <1>4, <1>5, Basics DEF FactsFollowVersions, Grows

\* The rows of account and period rise by one where they change at all.
Rises ==
    /\ account' = account \/ account'.version = account.version + 1
    /\ period' = period \/ period'.version = period.version + 1
    /\ item' = item \/ period'.version = period.version + 1
    /\ month' = "running" => month = "running"

LEMMA RisingFacts == ASSUME IInv, Rises PROVE FactsFollowVersions
  <1>1. account.version \in Nat /\ period.version \in Nat
    BY Basics
  <1>q. QED BY <1>1 DEF Rises, FactsFollowVersions, Grows

LEMMA FactsKept ==
    ASSUME IInv, [Next]_vars
    PROVE  FactsFollowVersions
  <1>a. /\ account \in AccountType /\ period \in PeriodType
        /\ period.status = "none" => period.version = 0
    BY Basics DEF IInv, BasisKnown
  <1> USE <1>a DEF AccountType, PeriodType, Rises, orderVars
  <1>1. CASE UNCHANGED vars
    <2>1. Rises
      BY <1>1 DEF vars
    <2>q. QED BY <2>1, RisingFacts
  <1>2. CASE \E cash \in CashLevels : BankFact(cash)
    <2>1. Rises
      BY <1>2 DEF BankFact
    <2>q. QED BY <2>1, RisingFacts
  <1>3. CASE MonthEnds
    <2>1. Rises
      BY <1>3 DEF MonthEnds
    <2>q. QED BY <2>1, RisingFacts
  <1>4. CASE Revoke
    <2>1. Rises
      BY <1>4 DEF Revoke
    <2>q. QED BY <2>1, RisingFacts
  <1>5. CASE Reauthorize
    <2>1. Rises
      BY <1>5 DEF Reauthorize
    <2>q. QED BY <2>1, RisingFacts
  <1>6. CASE \E rule \in Rules : ChangeRule(rule)
    <2>1. Rises
      BY <1>6 DEF ChangeRule
    <2>q. QED BY <2>1, RisingFacts
  <1>7. CASE \E target \in Targets : CreatePeriod(target)
    <2>1. Rises
      BY <1>7 DEF CreatePeriod
    <2>q. QED BY <2>1, RisingFacts
  <1>8. CASE \E target \in Targets : ChangeTarget(target)
    <2>1. Rises
      BY <1>8 DEF ChangeTarget
    <2>q. QED BY <2>1, RisingFacts
  <1>9. CASE Activate
    <2>1. Rises
      BY <1>9 DEF Activate
    <2>q. QED BY <2>1, RisingFacts
  <1>10. CASE Close
    <2>1. Rises
      BY <1>10 DEF Close
    <2>q. QED BY <2>1, RisingFacts
  <1>11. CASE OpenPage
    <2>1. Rises
      BY <1>11 DEF OpenPage
    <2>q. QED BY <2>1, RisingFacts
  <1>12. CASE LeavePage
    <2>1. Rises
      BY <1>12 DEF LeavePage
    <2>q. QED BY <2>1, RisingFacts
  <1>13. CASE Save
    <2>1. Rises
      BY <1>13 DEF Save
    <2>q. QED BY <2>1, RisingFacts
  <1>14. CASE SaveRefused
    <2>1. Rises
      BY <1>14 DEF SaveRefused
    <2>q. QED BY <2>1, RisingFacts
  <1>15. CASE \E change \in Changes : ShowChange(change)
    <2>1. Rises
      BY <1>15 DEF ShowChange
    <2>q. QED BY <2>1, RisingFacts
  <1>16. ASSUME NEW a \in Adjustments, \E amount \in Expenses : Assess(a, amount)
        PROVE  FactsFollowVersions
    <2>1. Rises
      BY <1>16 DEF Assess
    <2>q. QED BY <2>1, RisingFacts
  <1>17. ASSUME NEW a \in Adjustments, Propose(a) \/ AbortAssessment(a) \/ ProposalExpires(a)
        PROVE  FactsFollowVersions
    <2>1. Rises
      BY <1>17 DEF Propose, AbortAssessment, ProposalExpires
    <2>q. QED BY <2>1, RisingFacts
  <1>18. ASSUME NEW a \in Adjustments, \E o \in adj[a].options : Confirm(a, o)
        PROVE  FactsFollowVersions
    BY <1>18, ConfirmRaises
  <1>19. CASE CancelOrder
    <2>1. Rises
      BY <1>19 DEF CancelOrder, RaiseAccount
    <2>q. QED BY <2>1, RisingFacts
  <1>20. ASSUME NEW r \in Requests, \E approve \in BOOLEAN : Decide(r, approve)
        PROVE  FactsFollowVersions
    <2>1. Rises
      BY <1>20 DEF Decide, RaiseAccount
    <2>q. QED BY <2>1, RisingFacts
  <1>21. ASSUME NEW r \in Requests, ScheduleRefund(r) \/ RefundQuestion(r)
        PROVE  FactsFollowVersions
    <2>1. Rises
      BY <1>21 DEF ScheduleRefund, RefundQuestion
    <2>q. QED BY <2>1, RisingFacts
  <1>22. ASSUME NEW r \in Requests, RefundBatch(r)
        PROVE  FactsFollowVersions
    <2>1. Rises
      BY <1>22 DEF RefundBatch
    <2>q. QED BY <2>1, RisingFacts
  <1>q. QED
    BY <1>1, <1>2, <1>3, <1>4, <1>5, <1>6, <1>7, <1>8, <1>9, <1>10, <1>11, <1>12, <1>13,
       <1>14, <1>15, <1>16, <1>17, <1>18, <1>19, <1>20, <1>21, <1>22 DEF Next

\* The effect a page shows is still that of its change, as long as the versions
\* it has read are those of the rows and the month runs.
ShownHolds ==
    page.at = "shown" /\ page.read = Versions /\ month = "running" =>
        page.after = Forecast(With(page.change), 0)

LEMMA PageStep ==
    ASSUME [Next]_vars
    PROVE  \/ page' = page
           \/ page'.at # "shown" /\ (Save \/ page'.at = "open" \/ page.at # "shown")
           \/ \E change \in Changes : ShowChange(change)
  <1> USE DEF NoPage
  <1>1. CASE UNCHANGED vars
    BY <1>1 DEF vars
  <1>2. CASE \/ \E cash \in CashLevels : BankFact(cash)
             \/ MonthEnds \/ Revoke \/ Reauthorize
             \/ \E rule \in Rules : ChangeRule(rule)
             \/ \E target \in Targets : CreatePeriod(target)
    BY <1>2 DEF BankFact, MonthEnds, Revoke, Reauthorize, ChangeRule, CreatePeriod
  <1>3. CASE \E target \in Targets : ChangeTarget(target)
    BY <1>3 DEF ChangeTarget
  <1>4. CASE Activate
    BY <1>4 DEF Activate
  <1>5. CASE Close \/ LeavePage
    BY <1>5 DEF Close, LeavePage
  <1>6. CASE OpenPage
    BY <1>6 DEF OpenPage
  <1>7. CASE SaveRefused
    BY <1>7 DEF SaveRefused
  <1>8. CASE Save
    BY <1>8 DEF Save
  <1>9. ASSUME NEW a \in Adjustments,
               \/ \E amount \in Expenses : Assess(a, amount)
               \/ Propose(a) \/ AbortAssessment(a) \/ ProposalExpires(a)
               \/ \E o \in adj[a].options : Confirm(a, o)
        PROVE  page' = page
    BY <1>9 DEF Assess, Propose, AbortAssessment, ProposalExpires, Confirm
  <1>10. CASE CancelOrder
    BY <1>10 DEF CancelOrder
  <1>11. ASSUME NEW r \in Requests,
                \/ \E approve \in BOOLEAN : Decide(r, approve)
                \/ ScheduleRefund(r) \/ RefundBatch(r) \/ RefundQuestion(r)
         PROVE  page' = page
    BY <1>11 DEF Decide, ScheduleRefund, RefundBatch, RefundQuestion
  <1>q. QED
    BY <1>1, <1>2, <1>3, <1>4, <1>5, <1>6, <1>7, <1>8, <1>9, <1>10, <1>11 DEF Next

LEMMA SamePlan ==
    ASSUME UNCHANGED <<item, page>>
    PROVE  /\ With(page.change)' = With(page.change)
           /\ Reserved(With(page.change))' = Reserved(With(page.change))
  <1>1. With(page.change)' = With(page.change)
    BY DEF With, Plan
  <1>q. QED BY <1>1

LEMMA ShownStep ==
    ASSUME IInv, ShownHolds, [Next]_vars
    PROVE  ShownHolds'
  <1>1. FactsFollowVersions
    BY FactsKept
  <1>2. CASE page' = page /\ page.at = "shown" /\ page.read = Versions' /\ month' = "running"
    <2>1. page.read \in VersionType /\ NotAhead(page.read)
      BY <1>2, Basics DEF IInv, BasisKnown, ShownKnown
    <2>2. page.read = Versions /\ item' = item
      BY <1>1, <1>2, <2>1, SameVersions DEF FactsFollowVersions
    <2>3. account'.version = account.version /\ period'.version = period.version
      BY <1>2, <2>2 DEF Versions
    <2>4. /\ account'.cash = account.cash /\ period'.target = period.target
          /\ period'.status = period.status /\ month = "running"
      BY <1>1, <1>2, <2>3 DEF FactsFollowVersions
    <2>5. page.after = Forecast(With(page.change), 0)
      BY <1>2, <2>2, <2>4 DEF ShownHolds
    <2>6. Forecast(With(page.change), 0)' = Forecast(With(page.change), 0)
      BY <1>2, <2>2, <2>4, SamePlan DEF Forecast, Left
    <2>q. QED BY <1>2, <2>5, <2>6 DEF ShownHolds
  <1>3. ASSUME NEW change \in Changes, ShowChange(change)
        PROVE  ShownHolds'
    <2>1. /\ UNCHANGED <<account, period, month, item>>
          /\ page'.change = change /\ page'.after = Forecast(With(change), 0)
      BY <1>3, Basics DEF ShowChange, PageType
    <2>2. With(page.change)' = With(change)
      BY <2>1 DEF With, Plan
    <2>3. Forecast(With(page.change), 0)' = Forecast(With(change), 0)
      BY <2>1, <2>2 DEF Forecast, Left
    <2>q. QED BY <2>1, <2>3 DEF ShownHolds
  <1>q. QED BY <1>2, <1>3, PageStep DEF ShownHolds

LEMMA ShownAlways == Spec => []ShownHolds
  <1>1. Init => ShownHolds
    BY DEF Init, ShownHolds, NoPage
  <1>2. IInv /\ ShownHolds /\ [Next]_vars => ShownHolds'
    BY ShownStep
  <1>q. QED BY <1>1, <1>2, Invariance, PTL DEF Spec

\* What Save leaves is what was shown.
SavedAsShown ==
    page.at = "shown" /\ item' # item /\ page' = NoPage /\ month = "running" =>
        Forecast(Plan, 0)' = page.after

LEMMA SaveOnly ==
    ASSUME IInv, [Next]_vars, page.at = "shown", page' = NoPage
    PROVE  Save
  <1>1. page'.at = "away"
    BY DEF NoPage
  <1>2. ~ \E change \in Changes : ShowChange(change)
    BY DEF ShowChange
  <1>q. QED BY <1>1, <1>2, PageStep

LEMMA SaveShows ==
    ASSUME IInv, ShownHolds, [Next]_vars
    PROVE  SavedAsShown
  <1> SUFFICES ASSUME page.at = "shown", page' = NoPage, month = "running"
               PROVE  Forecast(Plan, 0)' = page.after
    BY DEF SavedAsShown
  <1> DEFINE change == page.change
  <1>1. /\ item' = [item EXCEPT ![change.item] = change.to]
        /\ period' = [period EXCEPT !.version = @ + 1]
        /\ UNCHANGED <<account, month>>
        /\ page.read = Versions
    BY SaveOnly DEF Save, Unchanged
  <1>2. change.item \in Items /\ item \in [Items -> ItemType]
    BY Basics DEF IInv, BasisKnown, ShownKnown
  <1>3. Plan' = With(change)
    BY <1>1, <1>2 DEF Plan, With
  <1>4. period'.status = period.status /\ period'.target = period.target
    BY <1>1, Basics DEF PeriodType
  <1>5. Forecast(Plan, 0)' = Forecast(With(change), 0)
    BY <1>1, <1>3, <1>4 DEF Forecast, Left
  <1>q. QED BY <1>1, <1>5 DEF ShownHolds

\* A saved edit has the effect its page showed, for every plan and every amount:
\* whatever would change that effect raises a version that Save compares.
THEOREM EditedAsShownAlways == Spec => EditedAsShown
  <1>1. IInv /\ ShownHolds /\ [Next]_vars => [SavedAsShown]_vars
    BY SaveShows
  <1>2. [SavedAsShown]_vars =>
            [(page.at = "shown" /\ item' # item /\ page' = NoPage
                /\ month = "running")
             => Forecast(Plan, 0)' = page.after]_vars
    BY DEF SavedAsShown
  <1>q. QED BY Invariance, ShownAlways, <1>1, <1>2, PTL DEF Spec, EditedAsShown

------------------------------------------------------------------------------
(* An adopted adjustment fits the month.                                   *)

LEMMA ReservedIsSum ==
    ASSUME NEW plan, DOMAIN plan = Items
    PROVE  Reserved(plan) = SumOf(plan)
  BY DEF Reserved, MapThenSumSet, SumOf

LEMMA PlanIsCounted ==
    ASSUME IInv
    PROVE  /\ Summands(Plan) /\ DOMAIN Plan = Items
           /\ \A cancelled : /\ Summands(Without(cancelled))
                             /\ DOMAIN Without(cancelled) = Items
  <1>1. IsFiniteSet(Items) /\ \A i \in Items : item[i].amount \in Nat
    BY Basics, PlanAssumption DEF ItemType
  <1>q. QED BY <1>1 DEF Summands, Plan, Without

\* The items after the confirmation: the plan without those cancelled, and the
\* new one at the amount of the expense.
LEMMA PlanAfter ==
    ASSUME IInv, NEW a \in Adjustments, NEW o \in OptionType, HasFresh,
           \A i \in o.cancel : item[i].status = "planned",
           item' = ItemsAfter(a, o, Fresh)
    PROVE  /\ Plan'[Fresh] = adj[a].amount /\ Without(o.cancel)[Fresh] = 0
           /\ Fresh \in Items
           /\ \A i \in Items \ {Fresh} : Plan'[i] = Without(o.cancel)[i]
           /\ DOMAIN Plan' = Items
  <1>1. Fresh \in Items /\ item[Fresh].status = "none"
    BY DEF HasFresh, Fresh
  <1>2. item \in [Items -> ItemType]
    BY Basics
  <1>3. item'[Fresh] = Planned("required", adj[a].amount)
    BY <1>1 DEF ItemsAfter
  <1>4. \A i \in o.cancel \cap Items : item'[i].status = "cancelled"
    BY <1>1, <1>2 DEF ItemsAfter, ItemType
  <1>5. \A i \in Items : i \notin o.cancel /\ i # Fresh => item'[i] = item[i]
    BY <1>1 DEF ItemsAfter
  <1>6. Plan' = [i \in Items |-> IF item'[i].status = "planned" THEN item'[i].amount ELSE 0]
    BY DEF Plan
  <1>7. Without(o.cancel) = [i \in Items |-> IF i \in o.cancel THEN 0
            ELSE IF item[i].status = "planned" THEN item[i].amount ELSE 0]
    BY DEF Without, Plan
  <1>8. Plan'[Fresh] = adj[a].amount
    BY <1>1, <1>3, <1>6 DEF Planned
  <1>9. Without(o.cancel)[Fresh] = 0
    BY <1>1, <1>7
  <1>10. \A i \in Items \ {Fresh} : Plan'[i] = Without(o.cancel)[i]
    BY <1>4, <1>5, <1>6, <1>7
  <1>q. QED BY <1>1, <1>6, <1>8, <1>9, <1>10

LEMMA ConfirmFits ==
    ASSUME IInv, NEW a \in Adjustments, NEW o \in adj[a].options, Confirm(a, o)
    PROVE  Left(Plan, 0)' >= 0
  <1>1. /\ adj[a].state = "proposed" /\ ~adj[a].expired /\ adj[a].basis = Versions
        /\ HasFresh
        /\ Allowed(Forecast(Without(o.cancel), adj[a].amount))
        /\ item' = ItemsAfter(a, o, Fresh)
        /\ period'.target = period.target
        /\ account'.cash = account.cash
    BY Basics DEF Confirm, RaiseAccount, ExtraOf, PeriodType, AccountType
  <1>2. o \in OptionType /\ (\A i \in o.cancel : item[i].status = "planned")
    <2>1. ProposalKnown(a) /\ adj[a] \in AdjType
      BY Basics DEF IInv, BasisKnown
    <2>q. QED BY <1>1, <2>1 DEF ProposalKnown, AdjType
  <1>3. Left(Without(o.cancel), adj[a].amount) >= 0
    BY <1>1 DEF Allowed, Forecast, NoForecast
  <1>4. PICK before : before = Without(o.cancel)
    OBVIOUS
  <1>5. PICK after : after = Plan'
    OBVIOUS
  <1>6. /\ after[Fresh] = adj[a].amount /\ before[Fresh] = 0 /\ Fresh \in Items
        /\ \A i \in Items \ {Fresh} : after[i] = before[i]
        /\ DOMAIN after = Items
    BY <1>1, <1>2, <1>4, <1>5, PlanAfter
  <1>7. Summands(before) /\ DOMAIN before = Items
    BY <1>4, PlanIsCounted
  <1>8. adj[a].amount \in Nat /\ account.cash \in Nat /\ period.target \in Nat
    BY Basics DEF AdjType, AccountType, PeriodType
  <1>9. SumOf(after) = SumOf(before) + after[Fresh] - before[Fresh]
    BY <1>6, <1>7, <1>8, SumUpdate
  <1>10. SumOf(before) \in Int
    BY <1>7, SumType
  <1>11. Reserved(Without(o.cancel)) = SumOf(before)
    BY <1>4, <1>7, ReservedIsSum
  <1>12. Reserved(Plan)' = Reserved(after)
    BY <1>5
  <1>13. Reserved(after) = SumOf(after)
    BY <1>6, ReservedIsSum
  <1>14. Left(Plan, 0)' = account.cash - period.target - 0 - SumOf(after)
    BY <1>1, <1>12, <1>13 DEF Left
  <1>15. account.cash - period.target - adj[a].amount - SumOf(before) >= 0
    BY <1>3, <1>11 DEF Left
  <1>q. QED BY <1>6, <1>8, <1>9, <1>10, <1>14, <1>15

\* Only a confirmation takes an adjustment to a state in which it is adopted.
Adopted(a) == adj[a].state \notin Confirmed /\ adj'[a].state \in Confirmed

LEMMA OnlyConfirmAdopts ==
    ASSUME IInv, [Next]_vars, NEW a \in Adjustments, Adopted(a)
    PROVE  \E o \in adj[a].options : Confirm(a, o)
  <1>a. adj \in [Adjustments -> AdjType] /\ adj'[a] # adj[a]
    BY DEF Adopted, IInv, FormKnown
  <1>1. CASE UNCHANGED vars
    BY <1>1, <1>a DEF vars
  <1>2. CASE \/ \E cash \in CashLevels : BankFact(cash)
             \/ MonthEnds \/ Revoke \/ Reauthorize
             \/ \E rule \in Rules : ChangeRule(rule)
             \/ \E target \in Targets : CreatePeriod(target) \/ ChangeTarget(target)
             \/ Activate \/ Close
             \/ OpenPage \/ LeavePage \/ Save \/ SaveRefused
             \/ \E change \in Changes : ShowChange(change)
             \/ CancelOrder
    BY <1>2, <1>a DEF BankFact, MonthEnds, Revoke, Reauthorize, ChangeRule, CreatePeriod,
        ChangeTarget, Activate, Close, OpenPage, LeavePage, Save, SaveRefused, ShowChange,
        CancelOrder
  <1>3. ASSUME NEW b \in Adjustments,
               \/ \E amount \in Expenses : Assess(b, amount)
               \/ Propose(b) \/ AbortAssessment(b) \/ ProposalExpires(b)
        PROVE  FALSE
    <2>1. \A s \in {"none", "assessed", "proposed"} : s \notin Confirmed
      BY DEF Confirmed
    <2>2. ASSUME NEW amount \in Expenses, Assess(b, amount)
          PROVE  \E new : adj' = [adj EXCEPT ![b] = new] /\ new.state = "assessed"
      <3>1. adj' = [adj EXCEPT ![b] =
                [NoAdjustment EXCEPT !.state = "assessed", !.basis = Versions, !.amount = amount,
                     !.options = Options, !.rule = order.version]]
        BY <2>2 DEF Assess
      <3>2. [NoAdjustment EXCEPT !.state = "assessed", !.basis = Versions, !.amount = amount,
                 !.options = Options, !.rule = order.version].state = "assessed"
        BY DEF NoAdjustment
      <3>q. QED BY <3>1, <3>2
    <2>3. ASSUME Propose(b)
          PROVE  \E new : adj' = [adj EXCEPT ![b] = new] /\ new.state = "proposed"
      <3>1. adj' = [adj EXCEPT ![b] = [adj[b] EXCEPT !.state = "proposed"]]
        BY <2>3 DEF Propose
      <3>2. [adj[b] EXCEPT !.state = "proposed"].state = "proposed"
        BY <1>a DEF AdjType
      <3>q. QED BY <3>1, <3>2
    <2>4. ASSUME AbortAssessment(b) \/ ProposalExpires(b)
          PROVE  \E new : /\ adj' = [adj EXCEPT ![b] = new]
                          /\ new.state \in {"none", "proposed"}
      <3>1. \/ adj' = [adj EXCEPT ![b] = NoAdjustment]
            \/ adj' = [adj EXCEPT ![b] =
                   [NoAdjustment EXCEPT !.state = "proposed", !.expired = TRUE]]
        BY <2>4 DEF AbortAssessment, ProposalExpires
      <3>2. /\ NoAdjustment.state = "none"
            /\ [NoAdjustment EXCEPT !.state = "proposed", !.expired = TRUE].state = "proposed"
        BY DEF NoAdjustment
      <3>q. QED BY <3>1, <3>2
    <2>5. PICK new : /\ adj' = [adj EXCEPT ![b] = new]
                     /\ new.state \in {"none", "assessed", "proposed"}
      BY <1>3, <2>2, <2>3, <2>4
    <2>6. adj'[b] = new /\ \A c \in Adjustments \ {b} : adj'[c] = adj[c]
      BY <1>a, <2>5
    <2>q. QED BY <1>a, <2>1, <2>5, <2>6 DEF Adopted
  <1>4. ASSUME NEW b \in Adjustments, NEW o \in adj[b].options, Confirm(b, o)
        PROVE  \E p \in adj[a].options : Confirm(a, p)
    <2>1. \A c \in Adjustments \ {b} : adj'[c] = adj[c]
      BY <1>4, <1>a DEF Confirm
    <2>2. a = b
      BY <1>a, <2>1
    <2>q. QED BY <1>4, <2>2
  <1>5. ASSUME NEW r \in Requests,
               \/ \E approve \in BOOLEAN : Decide(r, approve)
               \/ ScheduleRefund(r) \/ RefundQuestion(r)
        PROVE  FALSE
    BY <1>5, <1>a DEF Decide, ScheduleRefund, RefundQuestion
  <1>6. ASSUME NEW r \in Requests, RefundBatch(r)
        PROVE  FALSE
    <2>1. adj' = adj \/ (r # None /\ request[r].state = "refund_processing"
                         /\ adj' = [adj EXCEPT ![r].state = "complete"])
      BY <1>6 DEF RefundBatch, Completes
    <2>2. r = a /\ r \in Adjustments /\ request[r].state = "refund_processing"
      BY <1>a, <2>1 DEF Requests
    <2>3. request[a] = NoRequest
      BY <2>2 DEF Adopted, IInv, Whole
    <2>q. QED BY <2>2, <2>3, EmptyIsKnown
  <1>q. QED BY <1>1, <1>2, <1>3, <1>4, <1>5, <1>6 DEF Next

AdoptedFits == \A a \in Adjustments : Adopted(a) => Left(Plan, 0)' >= 0

\* An adjustment is adopted only if the month still keeps its savings target
\* with the whole expense, and without the refund that is only expected: for
\* every plan, every expense and every option that was proposed.
THEOREM AdjustmentFitsAlways == Spec => AdjustmentFits
  <1>1. IInv /\ [Next]_vars => [AdoptedFits]_vars
    BY OnlyConfirmAdopts, ConfirmFits DEF AdoptedFits
  <1>2. [AdoptedFits]_vars =>
            [\A a \in Adjustments :
                 adj[a].state \notin Confirmed /\ adj'[a].state \in Confirmed
                   => Left(Plan, 0)' >= 0]_vars
    BY DEF AdoptedFits, Adopted
  <1>q. QED BY Invariance, <1>1, <1>2, PTL DEF Spec, AdjustmentFits
==============================================================================
