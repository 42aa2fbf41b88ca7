---------------------------- MODULE CashflowProofs -----------------------------
(***************************************************************************)
(* Proofs about the money of a month, for any entries, items, obligations, *)
(* amounts and any length of the month and of the window: the balance is   *)
(* the bank's whatever the order of its reports, the review adds up, the   *)
(* fold over the days says what it should, and the end of the month is     *)
(* foreseen once.                                                          *)
(***************************************************************************)
EXTENDS Cashflow, FiniteSums

------------------------------------------------------------------------------
(* The inductive invariant.                                                *)

EntryType == [at : Nat, day : Nat, amount : Int, delivered : BOOLEAN,
              order : BOOLEAN, link : Items \cup {None}, covered : Nat]
ItemType == [kind : {"planned_spend", "expected_income"}, status : ItemStates,
             on : 1 .. MonthEnd, amount : Nat]
OrderType == [state : {"none", "pending", "unknown", "paid", "closed"},
              item : Items \cup {None}, amount : Nat, debited : BOOLEAN]
DueType == [outstanding : Nat, on : Nat, in : Dues \cup {None},
            status : {"upcoming", "paid"}, settled : Entries \cup {None}]
SnapshotType == [asOf : Nat, day : Nat]

RowsTyped ==
    /\ entry \in [Entries -> EntryType] /\ item \in [Items -> ItemType]
    /\ order \in OrderType /\ due \in [Dues -> DueType]
    /\ snapshot \in SnapshotType /\ inFlight \in SUBSET SnapshotType
    /\ today \in 1 .. MonthEnd + 1 /\ instants \in Nat /\ nextMonth \in BOOLEAN

\* An entry is reported after it is posted; a link is of a reported expense of
\* the month that is no order's, by a part of its amount.
EntryFits(x) ==
    /\ x.at = 0 => x = NoEntry
    /\ x.delivered => x.at > 0
    /\ x.link = None => x.covered = 0
    /\ x.link # None => /\ x.delivered /\ ~x.order /\ x.day <= MonthEnd
                        /\ x.covered > 0 /\ x.covered <= x.amount

PostedIn(E) == {e \in Entries : E[e].at > 0}
Postings(E, n) ==
    /\ n = Cardinality(PostedIn(E))
    /\ \A e \in Entries : EntryFits(E[e]) /\ E[e].at <= n

\* No snapshot is of a later instant, or taken on a later day.
Observed(s) == s.asOf <= instants /\ s.day >= 1 /\ s.day <= today
Observations == Observed(snapshot) /\ \A s \in inFlight : Observed(s)

\* A plan is covered by what is linked to it, which is at most its estimate; a
\* covered plan is neither rewritten nor ordered.
PartOf(x, i) == IF x.link = i THEN x.covered ELSE 0
CoveredIn(E, i) == SumOf([e \in Entries |-> PartOf(E[e], i)])
PlansCovered(E, I) ==
    \A i \in Items :
        /\ CoveredIn(E, i) <= I[i].amount
        /\ CoveredIn(E, i) > 0 =>
              I[i].status = "planned" /\ I[i].kind # "expected_income"

\* The item of an order that is not closed waits for it or is settled by it.
OrderFits(o, I) ==
    /\ o.debited <=> o.state = "paid"
    /\ o.state \in {"pending", "unknown"} =>
          o.item \in Items /\ I[o.item].status = "committed"
    /\ o.state = "paid" => o.item \in Items /\ I[o.item].status = "settled"

\* What is paid by itself is included in nothing.
DueFits(x) == x.status = "paid" => x.in = None

IInv ==
    /\ RowsTyped /\ Postings(entry, instants) /\ Observations
    /\ PlansCovered(entry, item) /\ OrderFits(order, item)
    /\ \A o \in Dues : DueFits(due[o])

LEMMA Constants ==
    /\ IsFiniteSet(Entries) /\ IsFiniteSet(Items) /\ IsFiniteSet(Dues)
    /\ Opening \in Nat /\ Target \in Nat /\ NextTarget \in Nat
    /\ MonthEnd \in Nat \ {0} /\ Window \in Nat \ {0}
    /\ Posted \subseteq Int \ {0} /\ Amounts \subseteq Nat \ {0} /\ Prices \subseteq Nat \ {0}
    /\ None \notin Entries /\ None \notin Items /\ None \notin Dues
  BY CashflowAssumption

\* The sums of the model are the sums the lemmas are about.
LEMMA SumIs == \A f : Sum(f) = SumOf(f)
  BY DEF Sum, MapThenSumSet, SumOf

------------------------------------------------------------------------------
(* What is linked to a plan.                                               *)

LEMMA PartIs ==
    ASSUME NEW x \in EntryType, NEW i
    PROVE  PartOf(x, i) \in Nat
  BY DEF PartOf, EntryType

LEMMA CoveredType ==
    ASSUME NEW E \in [Entries -> EntryType], NEW i
    PROVE  CoveredIn(E, i) \in Nat
  <1> DEFINE f == [e \in Entries |-> PartOf(E[e], i)]
  <1>1. \A e \in Entries : f[e] \in Nat
    BY PartIs
  <1>2. IsFiniteSet(DOMAIN f)
    BY Constants
  <1>q. QED BY <1>1, <1>2, SumNatural DEF CoveredIn

LEMMA CoveredIs ==
    ASSUME NEW E \in [Entries -> EntryType], NEW i
    PROVE  Sum([e \in {d \in Entries : E[d].link = i} |-> E[e].covered]) = CoveredIn(E, i)
  <1> DEFINE f == [e \in Entries |-> PartOf(E[e], i)]
             g == [e \in {d \in Entries : E[d].link = i} |-> E[e].covered]
  <1>1. Summands(f)
    BY Constants, PartIs DEF Summands
  <1>2. DOMAIN g \subseteq DOMAIN f
    OBVIOUS
  <1>3. \A e \in DOMAIN f : IF e \in DOMAIN g THEN f[e] = g[e] ELSE f[e] = 0
    BY DEF PartOf
  <1>4. SumOf(g) = SumOf(f)
    BY <1>1, <1>2, <1>3, SumSkipsZeros
  <1>q. QED BY <1>4, SumIs DEF CoveredIn

\* One entry is linked, unlinked, posted or reported.
LEMMA CoveredStep ==
    ASSUME NEW E \in [Entries -> EntryType], NEW e \in Entries, NEW x \in EntryType, NEW i
    PROVE  CoveredIn([E EXCEPT ![e] = x], i) = CoveredIn(E, i) + PartOf(x, i) - PartOf(E[e], i)
  <1> DEFINE f == [d \in Entries |-> PartOf(E[d], i)]
             g == [d \in Entries |-> PartOf([E EXCEPT ![e] = x][d], i)]
  <1>1. Summands(f)
    BY Constants, PartIs DEF Summands
  <1>2. g[e] = PartOf(x, i) /\ f[e] = PartOf(E[e], i)
    OBVIOUS
  <1>3. g[e] \in Int
    BY <1>2, PartIs
  <1>4. \A d \in Entries \ {e} : g[d] = f[d]
    OBVIOUS
  <1>5. DOMAIN f = Entries /\ DOMAIN g = Entries
    OBVIOUS
  <1>6. SumOf(f) = CoveredIn(E, i) /\ SumOf(g) = CoveredIn([E EXCEPT ![e] = x], i)
    BY DEF CoveredIn
  <1> HIDE DEF f, g
  <1>7. SumOf(g) = SumOf(f) + g[e] - f[e]
    BY <1>1, <1>3, <1>4, <1>5, SumUpdate
  <1>q. QED BY <1>2, <1>6, <1>7

------------------------------------------------------------------------------
(* The start.                                                              *)

LEMMA EmptyFits ==
    /\ NoEntry \in EntryType /\ EntryFits(NoEntry) /\ NoEntry.at = 0
    /\ NoEntry.link = None /\ NoEntry.covered = 0
    /\ NoItem \in ItemType /\ NoItem.amount = 0 /\ NoItem.status = "none"
    /\ NoOrder \in OrderType
  BY Constants DEF NoEntry, EntryType, EntryFits, NoItem, ItemType, ItemStates, NoOrder, OrderType

LEMMA NothingCovered ==
    ASSUME NEW E, \A e \in Entries : E[e] = NoEntry, NEW i
    PROVE  CoveredIn(E, i) = 0
  <1> DEFINE f == [e \in Entries |-> PartOf(E[e], i)]
  <1>1. \A e \in DOMAIN f : f[e] = 0
    BY EmptyFits DEF PartOf
  <1>2. Summands(f)
    BY <1>1, Constants DEF Summands
  <1>q. QED BY <1>1, <1>2, SumOfZeros DEF CoveredIn

LEMMA InitInv == Init => IInv
  <1> SUFFICES ASSUME Init PROVE IInv
    OBVIOUS
  <1>1. PICK start \in Starts :
            /\ nextMonth = start.nextMonth
            /\ due = [o \in Dues |-> [outstanding |-> start.dues[o].outstanding,
                          on |-> start.dues[o].on, in |-> start.dues[o].in,
                          status |-> "upcoming", settled |-> None]]
    BY DEF Init
  <1>2. /\ start.nextMonth \in BOOLEAN
        /\ \A o \in Dues : /\ start.dues[o].outstanding \in Nat /\ start.dues[o].on \in Nat
                           /\ start.dues[o].in \in Dues \cup {None}
    BY CashflowAssumption
  <1>3. due \in [Dues -> DueType] /\ \A o \in Dues : DueFits(due[o])
    BY <1>1, <1>2 DEF DueType, DueFits
  <1>4. /\ today = 1 /\ instants = 0 /\ snapshot = [asOf |-> 0, day |-> 1] /\ inFlight = {}
        /\ entry = [e \in Entries |-> NoEntry] /\ item = [i \in Items |-> NoItem]
        /\ order = NoOrder
    BY DEF Init
  <1>5. RowsTyped
    BY <1>1, <1>2, <1>3, <1>4, EmptyFits, Constants DEF RowsTyped, SnapshotType
  <1>6. Postings(entry, instants)
    <2>1. PostedIn(entry) = {}
      BY <1>4, EmptyFits DEF PostedIn
    <2>q. QED BY <1>4, <2>1, EmptyFits, FS_EmptySet DEF Postings
  <1>7. Observations
    BY <1>4 DEF Observations, Observed
  <1>8. PlansCovered(entry, item)
    <2>1. \A i \in Items : CoveredIn(entry, i) = 0
      BY <1>4, NothingCovered
    <2>q. QED BY <1>4, <2>1, EmptyFits DEF PlansCovered
  <1>9. OrderFits(order, item)
    BY <1>4 DEF OrderFits, NoOrder
  <1>q. QED BY <1>3, <1>5, <1>6, <1>7, <1>8, <1>9 DEF IInv

------------------------------------------------------------------------------
(* The steps.                                                              *)

\* A step that leaves the ledger and the plans.
LEMMA QuietInv ==
    ASSUME IInv, UNCHANGED <<instants, entry, item, order>>,
           snapshot' \in SnapshotType, inFlight' \in SUBSET SnapshotType,
           due' \in [Dues -> DueType], today' \in 1 .. MonthEnd + 1, nextMonth' = nextMonth,
           Observations', \A o \in Dues : DueFits(due'[o])
    PROVE  IInv'
  BY DEF IInv, RowsTyped

LEMMA BankInv ==
    ASSUME IInv,
           \/ Tomorrow \/ Observe \/ TakeSnapshot \/ UNCHANGED vars
           \/ \E s \in inFlight : Capture(s)
           \/ \E o \in Dues, e \in Entries \cup {None} : MarkPaid(o, e)
    PROVE  IInv'
  <1> USE DEF bank, plans, vars
  <1>a. /\ snapshot \in SnapshotType /\ inFlight \in SUBSET SnapshotType
        /\ due \in [Dues -> DueType] /\ today \in 1 .. MonthEnd + 1 /\ instants \in Nat
        /\ Observed(snapshot) /\ (\A s \in inFlight : Observed(s))
        /\ \A o \in Dues : DueFits(due[o])
    BY DEF IInv, RowsTyped, Observations
  <1>b. MonthEnd \in Nat
    BY Constants
  <1>c. Now \in SnapshotType /\ Now.asOf = instants /\ Now.day = today /\ Observed(Now)
    BY <1>a, <1>b DEF Now, SnapshotType, Observed
  <1>1. CASE Tomorrow
    <2>1. today' \in 1 .. MonthEnd + 1 /\ today' = today + 1
      BY <1>1, <1>a, <1>b DEF Tomorrow
    <2>2. \A s \in SnapshotType : Observed(s) => Observed(s)'
      BY <1>1, <1>a, <1>b, <2>1 DEF Tomorrow, Observed, SnapshotType
    <2>3. Observations'
      BY <1>1, <1>a, <2>2 DEF Tomorrow, Observations
    <2>q. QED BY <1>1, <1>a, <2>1, <2>3, QuietInv DEF Tomorrow
  <1>2. CASE UNCHANGED vars
    <2>1. Observations'
      BY <1>2, <1>a DEF Observations, Observed
    <2>q. QED BY <1>2, <1>a, <2>1, QuietInv
  <1>3. CASE Observe \/ TakeSnapshot \/ \E s \in inFlight : Capture(s)
    <2>1. /\ UNCHANGED <<today, instants, entry, due, item, order, nextMonth>>
          /\ snapshot' \in inFlight \cup {Now, snapshot}
          /\ inFlight' \subseteq inFlight \cup {Now}
      BY <1>3 DEF Observe, TakeSnapshot, Capture
    <2>2. \A s \in inFlight \cup {Now, snapshot} : s \in SnapshotType /\ Observed(s)
      BY <1>a, <1>c
    <2>3. \A s : Observed(s) => Observed(s)'
      BY <2>1 DEF Observed
    <2>4. Observations'
      BY <2>1, <2>2, <2>3 DEF Observations
    <2>5. snapshot' \in SnapshotType /\ inFlight' \in SUBSET SnapshotType
      BY <2>1, <2>2
    <2>q. QED BY <1>a, <2>1, <2>4, <2>5, QuietInv
  <1>4. ASSUME NEW o \in Dues, NEW e \in Entries \cup {None}, MarkPaid(o, e)
        PROVE  IInv'
    <2>1. /\ due[o].in = None
          /\ due' = [due EXCEPT ![o] = [due[o] EXCEPT !.status = "paid", !.settled = e]]
          /\ UNCHANGED <<today, instants, entry, snapshot, inFlight, item, order, nextMonth>>
      BY <1>4, <1>a DEF MarkPaid, DueType
    <2>2. [due[o] EXCEPT !.status = "paid", !.settled = e] \in DueType
          /\ DueFits([due[o] EXCEPT !.status = "paid", !.settled = e])
      BY <1>a, <2>1 DEF DueType, DueFits
    <2>3. due' \in [Dues -> DueType] /\ \A p \in Dues : DueFits(due'[p])
      BY <1>a, <2>1, <2>2
    <2>4. Observations'
      BY <1>a, <2>1 DEF Observations, Observed
    <2>q. QED BY <1>a, <2>1, <2>3, <2>4, QuietInv
  <1>q. QED BY <1>1, <1>2, <1>3, <1>4

LEMMA Rows ==
    ASSUME IInv
    PROVE  /\ entry \in [Entries -> EntryType] /\ item \in [Items -> ItemType]
           /\ order \in OrderType /\ due \in [Dues -> DueType]
           /\ today \in Nat /\ today >= 1 /\ today <= MonthEnd + 1 /\ instants \in Nat
           /\ nextMonth \in BOOLEAN
           /\ snapshot \in SnapshotType /\ MonthEnd \in Nat /\ MonthEnd >= 1
           /\ \A e \in Entries : EntryFits(entry[e]) /\ entry[e].at <= instants
           /\ \A i \in Items : Covered(i) = CoveredIn(entry, i) /\ Covered(i) \in Nat
  <1>1. entry \in [Entries -> EntryType]
    BY DEF IInv, RowsTyped
  <1>2. \A i \in Items : Covered(i) = CoveredIn(entry, i) /\ Covered(i) \in Nat
    BY <1>1, CoveredIs, CoveredType DEF Covered
  <1>3. MonthEnd \in Nat /\ MonthEnd >= 1
    BY Constants
  <1>q. QED BY <1>1, <1>2, <1>3 DEF IInv, RowsTyped, Postings

\* An entry is posted at the next instant.
LEMMA NewPosting ==
    ASSUME IInv, NEW e \in Entries, ~IsPosted(e), NEW x \in EntryType,
           x.at = instants + 1, EntryFits(x), entry' = [entry EXCEPT ![e] = x]
    PROVE  Postings(entry', instants + 1)
  <1>a. entry \in [Entries -> EntryType] /\ instants \in Nat
        /\ instants = Cardinality(PostedIn(entry))
        /\ \A d \in Entries : EntryFits(entry[d]) /\ entry[d].at <= instants
    BY Rows DEF IInv, Postings
  <1>b. \A d \in Entries : entry[d].at \in Nat
    BY <1>a DEF EntryType
  <1>1. e \notin PostedIn(entry)
    BY DEF IsPosted, PostedIn
  <1>2. entry'[e] = x /\ \A d \in Entries \ {e} : entry'[d] = entry[d]
    BY <1>a
  <1>3. x.at > 0
    BY <1>a
  <1>4. PostedIn(entry') = PostedIn(entry) \cup {e}
    BY <1>2, <1>3 DEF PostedIn
  <1>5. IsFiniteSet(PostedIn(entry))
    BY Constants, FS_Subset DEF PostedIn
  <1>6. Cardinality(PostedIn(entry')) = instants + 1
    BY <1>a, <1>1, <1>4, <1>5, FS_AddElement
  <1>7. \A d \in Entries : EntryFits(entry'[d]) /\ entry'[d].at <= instants + 1
    <2> SUFFICES ASSUME NEW d \in Entries
                 PROVE  EntryFits(entry'[d]) /\ entry'[d].at <= instants + 1
      OBVIOUS
    <2>1. CASE d = e
      BY <1>2, <1>a, <2>1
    <2>2. CASE d # e
      <3>1. entry'[d] = entry[d] /\ entry[d].at \in Nat /\ entry[d].at <= instants
            /\ EntryFits(entry[d])
        BY <1>2, <1>a, <1>b, <2>2
      <3>q. QED BY <3>1, <1>a
    <2>q. QED BY <2>1, <2>2
  <1>q. QED BY <1>6, <1>7 DEF Postings

\* A posted entry is reported, linked or unlinked.
LEMMA SamePosting ==
    ASSUME IInv, NEW e \in Entries, NEW x \in EntryType, x.at = entry[e].at, EntryFits(x),
           entry' = [entry EXCEPT ![e] = x]
    PROVE  Postings(entry', instants)
  <1>a. entry \in [Entries -> EntryType] /\ Postings(entry, instants)
    BY Rows DEF IInv
  <1>1. entry'[e] = x /\ \A d \in Entries \ {e} : entry'[d] = entry[d]
    BY <1>a
  <1>2. \A d \in Entries : entry'[d].at = entry[d].at /\ EntryFits(entry'[d])
    BY <1>a, <1>1 DEF Postings
  <1>3. PostedIn(entry') = PostedIn(entry)
    BY <1>2 DEF PostedIn
  <1>q. QED BY <1>a, <1>2, <1>3 DEF Postings

\* What the links of one entry mean for the plans.
LEMMA CoverageKept ==
    ASSUME IInv, NEW e \in Entries, NEW x \in EntryType, entry' = [entry EXCEPT ![e] = x],
           \A i \in Items : PartOf(x, i) <= PartOf(entry[e], i)
    PROVE  PlansCovered(entry', item)
  <1> SUFFICES ASSUME NEW i \in Items
               PROVE  /\ CoveredIn(entry', i) <= item[i].amount
                      /\ CoveredIn(entry', i) > 0 =>
                            item[i].status = "planned" /\ item[i].kind # "expected_income"
    BY DEF PlansCovered
  <1>a. entry \in [Entries -> EntryType] /\ item[i].amount \in Nat /\ entry[e] \in EntryType
    BY Rows DEF ItemType
  <1>1. CoveredIn(entry', i) = CoveredIn(entry, i) + PartOf(x, i) - PartOf(entry[e], i)
    BY <1>a, CoveredStep
  <1>2. PartOf(x, i) \in Nat /\ PartOf(entry[e], i) \in Nat
    BY <1>a, PartIs
  <1>3. PartOf(x, i) <= PartOf(entry[e], i)
    OBVIOUS
  <1>4. CoveredIn(entry, i) \in Nat
    BY <1>a, CoveredType
  <1>5. CoveredIn(entry', i) <= CoveredIn(entry, i)
    BY <1>1, <1>2, <1>3, <1>4
  <1>6. CoveredIn(entry', i) \in Int
    BY <1>1, <1>2, <1>4
  <1>7. /\ CoveredIn(entry, i) <= item[i].amount
        /\ CoveredIn(entry, i) > 0 =>
              item[i].status = "planned" /\ item[i].kind # "expected_income"
    BY DEF IInv, PlansCovered
  <1>q. QED BY <1>a, <1>4, <1>5, <1>6, <1>7

\* Only one entry changes: the rest of the invariant.
LEMMA LedgerInv ==
    ASSUME IInv, NEW e \in Entries, NEW x \in EntryType, entry' = [entry EXCEPT ![e] = x],
           Postings(entry', instants'), instants' \in {instants, instants + 1},
           item' \in [Items -> ItemType], order' \in OrderType,
           PlansCovered(entry', item'), OrderFits(order', item'),
           UNCHANGED <<today, snapshot, inFlight, due, nextMonth>>
    PROVE  IInv'
  <1>1. instants \in Nat /\ instants' \in Nat /\ instants <= instants'
    BY Rows
  <1>2. RowsTyped'
    BY <1>1 DEF IInv, RowsTyped
  <1>3. \A s \in SnapshotType : Observed(s) => Observed(s)'
    BY <1>1 DEF Observed, SnapshotType
  <1>4. Observations'
    BY <1>3 DEF IInv, RowsTyped, Observations
  <1>q. QED BY <1>2, <1>4 DEF IInv

\* The entry of a posting, of a payment, of a report, with and without a link.
Posting(n, amount) ==
    [NoEntry EXCEPT !.at = n, !.day = today, !.amount = amount]
Payment(n) ==
    [NoEntry EXCEPT !.at = n, !.day = today, !.amount = order.amount,
                    !.delivered = TRUE, !.order = TRUE]

LEMMA PostInv ==
    ASSUME IInv, NEW e \in Entries, NEW amount \in Posted, Post(e, amount)
    PROVE  IInv'
  <1>1. /\ ~IsPosted(e) /\ instants' = instants + 1
        /\ entry' = [entry EXCEPT ![e] = Posting(instants + 1, amount)]
        /\ UNCHANGED <<today, snapshot, inFlight, due, item, order, nextMonth>>
    BY DEF Post, Posting, plans
  <1>2. PICK x : x = Posting(instants + 1, amount)
    OBVIOUS
  <1>a. today \in Nat /\ instants \in Nat /\ amount \in Int /\ entry \in [Entries -> EntryType]
        /\ item \in [Items -> ItemType] /\ order \in OrderType
    BY Rows, Constants
  <1>3. x \in EntryType /\ x.at = instants + 1 /\ EntryFits(x) /\ x.link = None
    <2>1. x = [at |-> instants + 1, day |-> today, amount |-> amount, delivered |-> FALSE,
               order |-> FALSE, link |-> None, covered |-> 0]
      BY <1>2 DEF Posting, NoEntry
    <2>2. instants + 1 \in Nat /\ instants + 1 # 0
      BY <1>a
    <2>q. QED BY <1>a, <2>1, <2>2 DEF EntryType, EntryFits
  <1>4. Postings(entry', instants')
    BY <1>1, <1>2, <1>3, NewPosting
  <1>5. \A i \in Items : PartOf(x, i) <= PartOf(entry[e], i)
    <2>1. \A i \in Items : PartOf(x, i) = 0 /\ PartOf(entry[e], i) \in Nat
      BY <1>3, <1>a, PartIs, Constants DEF PartOf
    <2>q. QED BY <2>1
  <1>6. PlansCovered(entry', item)
    BY <1>1, <1>2, <1>3, <1>5, CoverageKept
  <1>7. OrderFits(order, item)
    BY DEF IInv
  <1>q. QED BY <1>1, <1>2, <1>3, <1>4, <1>6, <1>7, <1>a, LedgerInv

LEMMA DeliverInv == ASSUME IInv, NEW e \in Entries, Deliver(e) PROVE IInv'
  <1>1. /\ IsPosted(e) /\ instants' = instants
        /\ entry' = [entry EXCEPT ![e] = [entry[e] EXCEPT !.delivered = TRUE]]
        /\ UNCHANGED <<today, snapshot, inFlight, due, item, order, nextMonth>>
    BY DEF Deliver, plans
  <1>2. PICK x : x = [entry[e] EXCEPT !.delivered = TRUE]
    OBVIOUS
  <1>a. entry[e] \in EntryType /\ EntryFits(entry[e]) /\ item \in [Items -> ItemType]
        /\ order \in OrderType /\ OrderFits(order, item)
    BY Rows DEF IInv
  <1>3. /\ x \in EntryType /\ x.at = entry[e].at
        /\ x.link = entry[e].link /\ x.covered = entry[e].covered
    BY <1>2, <1>a DEF EntryType
  <1>4. EntryFits(x)
    BY <1>1, <1>2, <1>3, <1>a DEF EntryType, EntryFits, IsPosted
  <1>5. Postings(entry', instants')
    BY <1>1, <1>2, <1>3, <1>4, SamePosting
  <1>6. \A i \in Items : PartOf(x, i) <= PartOf(entry[e], i)
    <2>1. \A i \in Items : PartOf(x, i) = PartOf(entry[e], i) /\ PartOf(x, i) \in Nat
      BY <1>3, <1>a, PartIs DEF PartOf
    <2>q. QED BY <2>1
  <1>7. PlansCovered(entry', item)
    BY <1>1, <1>2, <1>3, <1>6, CoverageKept
  <1>q. QED BY <1>1, <1>2, <1>3, <1>5, <1>7, <1>a, LedgerInv

LEMMA UnlinkInv == ASSUME IInv, NEW e \in Entries, Unlink(e) PROVE IInv'
  <1>1. /\ entry' = [entry EXCEPT ![e] = [entry[e] EXCEPT !.link = None, !.covered = 0]]
        /\ UNCHANGED <<today, instants, snapshot, inFlight, due, item, order, nextMonth>>
        /\ entry[e].link # None
    BY Rows DEF Unlink, plans, EntryType
  <1>2. PICK x : x = [entry[e] EXCEPT !.link = None, !.covered = 0]
    OBVIOUS
  <1>a. entry[e] \in EntryType /\ EntryFits(entry[e]) /\ item \in [Items -> ItemType]
        /\ order \in OrderType /\ OrderFits(order, item)
    BY Rows DEF IInv
  <1>3. x \in EntryType /\ x.at = entry[e].at /\ x.link = None
    BY <1>2, <1>a DEF EntryType
  <1>4. EntryFits(x)
    BY <1>1, <1>2, <1>3, <1>a DEF EntryType, EntryFits, NoEntry
  <1>5. Postings(entry', instants')
    BY <1>1, <1>2, <1>3, <1>4, SamePosting
  <1>6. \A i \in Items : PartOf(x, i) <= PartOf(entry[e], i)
    <2>1. \A i \in Items : PartOf(x, i) = 0 /\ PartOf(entry[e], i) \in Nat
      BY <1>3, <1>a, PartIs, Constants DEF PartOf
    <2>q. QED BY <2>1
  <1>7. PlansCovered(entry', item)
    BY <1>1, <1>2, <1>3, <1>6, CoverageKept
  <1>q. QED BY <1>1, <1>2, <1>3, <1>5, <1>7, <1>a, LedgerInv

LEMMA LinkInv ==
    ASSUME IInv, NEW e \in Entries, NEW i \in Items, NEW covered \in 1 .. entry[e].amount,
           Link(e, i, covered)
    PROVE  IInv'
  <1>1. /\ entry' = [entry EXCEPT ![e] = [entry[e] EXCEPT !.link = i, !.covered = covered]]
        /\ UNCHANGED <<today, instants, snapshot, inFlight, due, item, order, nextMonth>>
        /\ entry[e].link = None /\ entry[e].delivered /\ ~entry[e].order
        /\ entry[e].day <= MonthEnd /\ covered <= item[i].amount - Covered(i)
        /\ item[i].status = "planned" /\ item[i].kind # "expected_income"
    BY Rows DEF Link, Linkable, Ledger, plans, EntryType
  <1>2. PICK x : x = [entry[e] EXCEPT !.link = i, !.covered = covered]
    OBVIOUS
  <1>a. entry[e] \in EntryType /\ EntryFits(entry[e]) /\ item \in [Items -> ItemType]
        /\ order \in OrderType /\ OrderFits(order, item) /\ entry \in [Entries -> EntryType]
    BY Rows DEF IInv
  <1>b. covered \in Nat /\ covered > 0 /\ covered <= entry[e].amount /\ entry[e].amount \in Int
    BY <1>a DEF EntryType
  <1>3. /\ x \in EntryType /\ x.at = entry[e].at /\ x.link = i /\ x.covered = covered
        /\ x.delivered = entry[e].delivered /\ x.order = entry[e].order
        /\ x.day = entry[e].day /\ x.amount = entry[e].amount
    BY <1>2, <1>a, <1>b DEF EntryType
  <1>c. i # None
    BY Constants
  <1>4. EntryFits(x)
    <2>1. entry[e].at > 0 /\ entry[e].at \in Nat
      BY <1>1, <1>a DEF EntryFits, EntryType
    <2>2. x.at # 0
      BY <1>3, <2>1
    <2>q. QED BY <1>1, <1>3, <1>b, <1>c, <2>1, <2>2 DEF EntryFits
  <1>5. Postings(entry', instants')
    BY <1>1, <1>2, <1>3, <1>4, SamePosting
  <1>6. PlansCovered(entry', item)
    <2> SUFFICES ASSUME NEW j \in Items
                 PROVE  /\ CoveredIn(entry', j) <= item[j].amount
                        /\ CoveredIn(entry', j) > 0 =>
                              item[j].status = "planned" /\ item[j].kind # "expected_income"
      BY DEF PlansCovered
    <2>1. CoveredIn(entry', j) = CoveredIn(entry, j) + PartOf(x, j) - PartOf(entry[e], j)
      BY <1>1, <1>2, <1>3, <1>a, CoveredStep
    <2>2. PartOf(entry[e], j) = 0 /\ PartOf(x, j) = IF i = j THEN covered ELSE 0
      BY <1>1, <1>3, Constants DEF PartOf
    <2>3. CoveredIn(entry, j) \in Nat /\ item[j].amount \in Nat
      BY <1>a, CoveredType DEF ItemType
    <2>4. /\ CoveredIn(entry, j) <= item[j].amount
          /\ CoveredIn(entry, j) > 0 =>
                item[j].status = "planned" /\ item[j].kind # "expected_income"
      BY DEF IInv, PlansCovered
    <2>5. CASE i # j
      <3>1. CoveredIn(entry', j) = CoveredIn(entry, j)
        BY <2>1, <2>2, <2>3, <2>5
      <3>q. QED BY <2>4, <3>1
    <2>6. CASE i = j
      <3>1. CoveredIn(entry', j) = CoveredIn(entry, j) + covered
        BY <1>b, <2>1, <2>2, <2>3, <2>6
      <3>2. covered <= item[j].amount - CoveredIn(entry, j)
        BY <1>1, <2>6, Rows
      <3>3. CoveredIn(entry', j) <= item[j].amount
        BY <1>b, <2>3, <3>1, <3>2
      <3>q. QED BY <1>1, <2>6, <3>3
    <2>q. QED BY <2>5, <2>6
  <1>q. QED BY <1>1, <1>2, <1>3, <1>5, <1>6, <1>a, LedgerInv

\* An item that nothing covers is rewritten.
LEMMA UncoveredKept ==
    ASSUME IInv, NEW E, PlansCovered(E, item), NEW i \in Items, CoveredIn(E, i) = 0,
           NEW x \in ItemType
    PROVE  PlansCovered(E, [item EXCEPT ![i] = x])
  <1>1. item \in [Items -> ItemType]
    BY Rows
  <1>2. x.amount \in Nat
    BY DEF ItemType
  <1>q. QED BY <1>1, <1>2 DEF PlansCovered

LEMMA PlanInv ==
    ASSUME IInv, NEW i \in Items, Covered(i) = 0, NEW x \in ItemType,
           item' = [item EXCEPT ![i] = x], order' \in OrderType, OrderFits(order', item'),
           UNCHANGED <<today, instants, entry, snapshot, inFlight, due, nextMonth>>
    PROVE  IInv'
  <1>1. CoveredIn(entry, i) = 0 /\ item \in [Items -> ItemType]
    BY Rows
  <1>2. PlansCovered(entry', item')
    BY <1>1, UncoveredKept DEF IInv
  <1>3. RowsTyped'
    BY <1>1 DEF IInv, RowsTyped
  <1>4. Observations'
    BY DEF IInv, Observations, Observed
  <1>q. QED BY <1>2, <1>3, <1>4 DEF IInv

\* What is not planned is not covered.
LEMMA PlannedOnly ==
    ASSUME IInv, NEW i \in Items, item[i].status # "planned"
    PROVE  Covered(i) = 0
  <1>1. Covered(i) = CoveredIn(entry, i) /\ Covered(i) \in Nat
    BY Rows
  <1>2. ~(CoveredIn(entry, i) > 0)
    BY DEF IInv, PlansCovered
  <1>q. QED BY <1>1, <1>2

LEMMA ItemInv ==
    ASSUME IInv, NEW i \in Items,
           \/ \E kind \in {"planned_spend", "expected_income"}, day \in 1 .. MonthEnd,
                 amount \in Amounts : ChangeItem(i, kind, day, amount)
           \/ CancelItem(i)
    PROVE  IInv'
  <1>a. item \in [Items -> ItemType] /\ order \in OrderType /\ OrderFits(order, item)
    BY Rows DEF IInv
  <1>1. PICK x \in ItemType : item' = [item EXCEPT ![i] = x]
    <2>1. ASSUME NEW kind \in {"planned_spend", "expected_income"}, NEW day \in 1 .. MonthEnd,
                 NEW amount \in Amounts, ChangeItem(i, kind, day, amount)
          PROVE  \E x \in ItemType : item' = [item EXCEPT ![i] = x]
      <3>1. [kind |-> kind, status |-> "planned", on |-> day, amount |-> amount] \in ItemType
        BY Constants DEF ItemType, ItemStates
      <3>q. QED BY <2>1, <3>1 DEF ChangeItem
    <2>2. ASSUME CancelItem(i)
          PROVE  \E x \in ItemType : item' = [item EXCEPT ![i] = x]
      <3>1. [NoItem EXCEPT !.status = "cancelled"] \in ItemType
        BY EmptyFits DEF ItemType, ItemStates
      <3>q. QED BY <2>2, <3>1 DEF CancelItem
    <2>q. QED BY <2>1, <2>2
  <1>2. /\ UNCHANGED <<today, instants, entry, snapshot, inFlight, due, order, nextMonth>>
        /\ item[i].status = "none" \/ Rewritable(i)
    BY DEF ChangeItem, CancelItem, bank
  <1>3. Covered(i) = 0 /\ item[i].status \in {"none", "planned"}
    BY <1>2, PlannedOnly DEF Rewritable
  <1>4. OrderFits(order', item')
    BY <1>1, <1>2, <1>3, <1>a DEF OrderFits
  <1>q. QED BY <1>1, <1>2, <1>3, <1>4, <1>a, PlanInv

LEMMA OrderInv ==
    ASSUME IInv,
           \/ \E i \in Items, price \in Prices : PlaceOrder(i, price)
           \/ PaymentUnknown \/ CloseOrder
    PROVE  IInv'
  <1>a. item \in [Items -> ItemType] /\ order \in OrderType /\ OrderFits(order, item)
    BY Rows DEF IInv
  <1>1. ASSUME NEW i \in Items, NEW price \in Prices, PlaceOrder(i, price)
        PROVE  IInv'
    <2>1. /\ item' = [item EXCEPT ![i] = [item[i] EXCEPT !.status = "committed"]]
          /\ order' = [state |-> "pending", item |-> i, amount |-> price, debited |-> FALSE]
          /\ UNCHANGED <<today, instants, entry, snapshot, inFlight, due, nextMonth>>
          /\ Covered(i) = 0
      BY <1>1, <1>a DEF PlaceOrder, Rewritable, bank, ItemType
    <2>2. PICK x : x = [item[i] EXCEPT !.status = "committed"]
      OBVIOUS
    <2>3. x \in ItemType /\ x.status = "committed"
      BY <1>a, <2>2 DEF ItemType, ItemStates
    <2>4. order' \in OrderType
      BY <2>1, Constants DEF OrderType
    <2>5. item'[i] = x
      BY <1>a, <2>1, <2>2
    <2>6. OrderFits(order', item')
      BY <2>1, <2>3, <2>5 DEF OrderFits
    <2>q. QED BY <2>1, <2>2, <2>3, <2>4, <2>6, PlanInv
  <1>2. CASE CloseOrder
    <2>1. /\ order.item \in Items /\ item[order.item].status = "committed"
          /\ item' = [item EXCEPT ![order.item] = [NoItem EXCEPT !.status = "cancelled"]]
          /\ order' = [NoOrder EXCEPT !.state = "closed"]
          /\ UNCHANGED <<today, instants, entry, snapshot, inFlight, due, nextMonth>>
      BY <1>2, <1>a DEF CloseOrder, OrderFits, bank
    <2>2. [NoItem EXCEPT !.status = "cancelled"] \in ItemType
      BY EmptyFits DEF ItemType, ItemStates
    <2>3. order' \in OrderType /\ OrderFits(order', item')
      BY <2>1, EmptyFits DEF OrderType, OrderFits, NoOrder
    <2>4. Covered(order.item) = 0
      BY <2>1, PlannedOnly
    <2>q. QED BY <2>1, <2>2, <2>3, <2>4, PlanInv
  <1>3. CASE PaymentUnknown
    <2>1. /\ order.state = "pending" /\ order' = [order EXCEPT !.state = "unknown"]
          /\ UNCHANGED <<today, instants, entry, snapshot, inFlight, due, item, nextMonth>>
      BY <1>3 DEF PaymentUnknown, bank
    <2>2. order' \in OrderType /\ OrderFits(order', item)
      BY <1>a, <2>1 DEF OrderType, OrderFits
    <2>3. RowsTyped' /\ Observations'
      BY <2>1, <2>2 DEF IInv, RowsTyped, Observations, Observed
    <2>q. QED BY <2>1, <2>2, <2>3 DEF IInv
  <1>q. QED BY <1>1, <1>2, <1>3

LEMMA PayOrderInv == ASSUME IInv, NEW e \in Entries, PayOrder(e) PROVE IInv'
  <1>a. /\ item \in [Items -> ItemType] /\ order \in OrderType /\ OrderFits(order, item)
        /\ today \in Nat /\ instants \in Nat /\ order.amount \in Nat
        /\ entry \in [Entries -> EntryType]
    BY Rows DEF IInv, OrderType
  <1>1. /\ order.item \in Items /\ item[order.item].status = "committed"
        /\ ~IsPosted(e) /\ instants' = instants + 1
        /\ entry' = [entry EXCEPT ![e] = Payment(instants + 1)]
        /\ order' = [order EXCEPT !.state = "paid", !.debited = TRUE]
        /\ item' = [item EXCEPT ![order.item] = [NoItem EXCEPT !.status = "settled"]]
        /\ UNCHANGED <<today, snapshot, inFlight, due, nextMonth>>
    BY <1>a DEF PayOrder, Payment, OrderFits
  <1>2. PICK x : x = Payment(instants + 1)
    OBVIOUS
  <1>3. x \in EntryType /\ x.at = instants + 1 /\ EntryFits(x) /\ x.link = None
    <2>1. x = [at |-> instants + 1, day |-> today, amount |-> order.amount, delivered |-> TRUE,
               order |-> TRUE, link |-> None, covered |-> 0]
      BY <1>2 DEF Payment, NoEntry
    <2>2. instants + 1 \in Nat /\ instants + 1 # 0 /\ instants + 1 > 0
      BY <1>a
    <2>q. QED BY <1>a, <2>1, <2>2 DEF EntryType, EntryFits
  <1>4. Postings(entry', instants')
    BY <1>1, <1>2, <1>3, NewPosting
  <1>5. \A i \in Items : PartOf(x, i) <= PartOf(entry[e], i)
    <2>1. \A i \in Items : PartOf(x, i) = 0 /\ PartOf(entry[e], i) \in Nat
      BY <1>3, <1>a, PartIs, Constants DEF PartOf
    <2>q. QED BY <2>1
  <1>6. PlansCovered(entry', item)
    BY <1>1, <1>2, <1>3, <1>5, CoverageKept
  <1>7. CoveredIn(entry', order.item) = 0
    <2>1. CoveredIn(entry', order.item)
              = CoveredIn(entry, order.item) + PartOf(x, order.item)
                    - PartOf(entry[e], order.item)
      BY <1>1, <1>2, <1>3, <1>a, CoveredStep
    <2>2. CoveredIn(entry, order.item) = 0
      BY <1>1, PlannedOnly, Rows
    <2>3. PartOf(x, order.item) = 0 /\ PartOf(entry[e], order.item) = 0
      <3>1. entry[e] = NoEntry
        BY <1>1, <1>a, Rows DEF IsPosted, EntryFits, EntryType
      <3>q. QED BY <1>1, <1>3, <3>1, EmptyFits, Constants DEF PartOf
    <2>q. QED BY <2>1, <2>2, <2>3
  <1>8. [NoItem EXCEPT !.status = "settled"] \in ItemType
        /\ [NoItem EXCEPT !.status = "settled"].status = "settled"
    BY EmptyFits DEF ItemType, ItemStates
  <1>9. PlansCovered(entry', item')
    BY <1>1, <1>6, <1>7, <1>8, UncoveredKept
  <1>10. item' \in [Items -> ItemType] /\ item'[order.item].status = "settled"
    BY <1>1, <1>8, <1>a
  <1>11. order' \in OrderType /\ OrderFits(order', item')
    BY <1>1, <1>10, <1>a DEF OrderType, OrderFits
  <1>q. QED BY <1>1, <1>2, <1>3, <1>4, <1>9, <1>10, <1>11, LedgerInv

LEMMA StepInv == ASSUME IInv, [Next]_vars PROVE IInv'
  <1>1. CASE UNCHANGED vars \/ Tomorrow \/ Observe \/ TakeSnapshot
    BY <1>1, BankInv
  <1>2. CASE \/ \E s \in inFlight : Capture(s)
             \/ \E o \in Dues, e \in Entries \cup {None} : MarkPaid(o, e)
    BY <1>2, BankInv
  <1>3. ASSUME NEW e \in Entries,
               \/ \E amount \in Posted : Post(e, amount)
               \/ Deliver(e) \/ Unlink(e) \/ PayOrder(e)
               \/ \E i \in Items : \E covered \in 1 .. entry[e].amount : Link(e, i, covered)
        PROVE  IInv'
    BY <1>3, PostInv, DeliverInv, UnlinkInv, PayOrderInv, LinkInv
  <1>4. ASSUME NEW i \in Items,
               \/ \E kind \in {"planned_spend", "expected_income"},
                     day \in 1 .. MonthEnd, amount \in Amounts :
                     ChangeItem(i, kind, day, amount)
               \/ CancelItem(i)
        PROVE  IInv'
    BY <1>4, ItemInv
  <1>5. CASE \/ \E i \in Items, price \in Prices : PlaceOrder(i, price)
             \/ PaymentUnknown \/ CloseOrder
    BY <1>5, OrderInv
  <1>q. QED BY <1>1, <1>2, <1>3, <1>4, <1>5 DEF Next

THEOREM Invariance == Spec => []IInv
  <1>1. IInv /\ [Next]_vars => IInv'
    BY StepInv
  <1>q. QED BY InitInv, <1>1, PTL DEF Spec

------------------------------------------------------------------------------
(* The review adds up.                                                     *)

LEMMA MaxOfZero ==
    ASSUME NEW n \in Nat
    PROVE  Max({0, n}) = n
  <1> DEFINE M == CHOOSE x \in {0, n} : \A y \in {0, n} : x >= y
  <1>1. \E x \in {0, n} : \A y \in {0, n} : x >= y
    <2>1. \A y \in {0, n} : n >= y
      OBVIOUS
    <2>q. QED BY <2>1
  <1>2. M \in {0, n} /\ \A y \in {0, n} : M >= y
    BY <1>1
  <1>3. Max({0, n}) = M
    BY DEF Max
  <1> HIDE DEF M
  <1>4. M >= n
    BY <1>2
  <1>q. QED BY <1>2, <1>3, <1>4

\* All that is linked, as a sum over all entries.
CoveredAll == [e \in Entries |-> entry[e].covered]

LEMMA LinkedIsCovered ==
    ASSUME IInv
    PROVE  /\ Summands(CoveredAll) /\ SumOf(CoveredAll) \in Nat
           /\ LinkedActual = SumOf(CoveredAll)
           /\ SumOf([i \in Items |-> Covered(i)]) = SumOf(CoveredAll)
           /\ SumOf([e \in PlainExpenses |-> entry[e].covered]) = SumOf(CoveredAll)
  <1> DEFINE f == CoveredAll
             linked == [e \in {d \in Ledger : entry[d].link # None} |-> entry[e].covered]
             plain == [e \in PlainExpenses |-> entry[e].covered]
             class == [e \in Entries |-> entry[e].link]
  <1>a. \A e \in Entries : entry[e] \in EntryType /\ EntryFits(entry[e])
    BY Rows
  <1>b. \A e \in Entries : /\ entry[e].covered \in Nat /\ entry[e].amount \in Int
                           /\ entry[e].link \in Items \cup {None}
    BY <1>a DEF EntryType
  <1>1. Summands(f) /\ SumOf(f) \in Nat /\ DOMAIN f = Entries
    <2>1. DOMAIN f = Entries /\ \A e \in DOMAIN f : f[e] \in Nat
      BY <1>b DEF CoveredAll
    <2> HIDE DEF f
    <2>q. QED BY <2>1, Constants, SumNatural DEF Summands
  <1>2. SumOf(linked) = SumOf(f)
    <2>1. DOMAIN linked \subseteq Entries
      BY DEF Ledger
    <2>2. \A e \in Entries : e \notin DOMAIN linked => entry[e].covered = 0
      BY <1>a DEF EntryFits, Ledger
    <2>3. \A e \in DOMAIN f : IF e \in DOMAIN linked THEN f[e] = linked[e] ELSE f[e] = 0
      BY <1>1, <2>2 DEF CoveredAll
    <2> HIDE DEF f, linked
    <2>q. QED BY <1>1, <2>1, <2>3, SumSkipsZeros
  <1>3. SumOf(plain) = SumOf(f)
    <2>1. DOMAIN plain \subseteq Entries
      BY DEF PlainExpenses, Expenses, Ledger
    <2>2. \A e \in Entries : e \notin DOMAIN plain => entry[e].covered = 0
      <3> SUFFICES ASSUME NEW e \in Entries, entry[e].link # None PROVE e \in PlainExpenses
        BY <1>a DEF EntryFits
      <3>1. /\ entry[e].delivered /\ ~entry[e].order /\ entry[e].day <= MonthEnd
            /\ entry[e].covered > 0 /\ entry[e].covered <= entry[e].amount
        BY <1>a DEF EntryFits
      <3>2. entry[e].amount > 0
        BY <1>b, <3>1
      <3>q. QED BY <3>1, <3>2 DEF PlainExpenses, Expenses, Ledger
    <2>3. \A e \in DOMAIN f : IF e \in DOMAIN plain THEN f[e] = plain[e] ELSE f[e] = 0
      BY <1>1, <2>2 DEF CoveredAll
    <2> HIDE DEF f, plain
    <2>q. QED BY <1>1, <2>1, <2>3, SumSkipsZeros
  <1>4. SumOf([i \in Items |-> Covered(i)]) = SumOf(f)
    <2>1. \A e \in DOMAIN f : f[e] \in Nat /\ (class[e] \notin Items => f[e] = 0)
      BY <1>a, <1>b DEF CoveredAll, EntryFits
    <2> DEFINE byItem == [i \in Items |->
                   SumOf([e \in DOMAIN f |-> IF class[e] = i THEN f[e] ELSE 0])]
    <2>2. SumOf(byItem) = SumOf(f)
      <3> HIDE DEF f, class
      <3>q. QED BY <1>1, <2>1, Constants, SumByClass
    <2>3. \A i \in Items : [e \in DOMAIN f |-> IF class[e] = i THEN f[e] ELSE 0]
                               = [e \in Entries |-> PartOf(entry[e], i)]
      BY DEF CoveredAll, PartOf
    <2>4. \A i \in Items : byItem[i] = Covered(i)
      BY <2>3, Rows DEF CoveredIn
    <2>5. byItem = [i \in Items |-> Covered(i)]
      <3> HIDE DEF f, class
      <3>q. QED BY <2>4
    <2>q. QED BY <2>2, <2>5
  <1>5. LinkedActual = SumOf(f)
    BY <1>2, SumIs DEF LinkedActual
  <1>q. QED BY <1>1, <1>3, <1>4, <1>5

LEMMA TypesKnown == IInv => TypeOK
  <1> SUFFICES ASSUME IInv PROVE TypeOK
    OBVIOUS
  <1>1. instants \in 0 .. Cardinality(Entries)
    <2>1. PostedIn(entry) \subseteq Entries
      BY DEF PostedIn
    <2>2. Cardinality(PostedIn(entry)) <= Cardinality(Entries)
      BY <2>1, Constants, FS_Subset
    <2>3. Cardinality(Entries) \in Nat
      BY Constants, FS_CardinalityType
    <2>q. QED BY <2>2, <2>3, Rows DEF IInv, Postings
  <1>2. \A e \in Entries :
           /\ entry[e].at \in 0 .. instants /\ entry[e].covered \in Nat
           /\ entry[e].link \in Items \cup {None}
           /\ entry[e].amount \in Int /\ entry[e].delivered \in BOOLEAN
    <2> SUFFICES ASSUME NEW e \in Entries
                 PROVE  /\ entry[e].at \in 0 .. instants /\ entry[e].covered \in Nat
                        /\ entry[e].link \in Items \cup {None}
                        /\ entry[e].amount \in Int /\ entry[e].delivered \in BOOLEAN
      OBVIOUS
    <2>1. entry[e] \in EntryType /\ entry[e].at <= instants /\ instants \in Nat
      BY Rows
    <2>2. /\ entry[e].at \in Nat /\ entry[e].covered \in Nat
          /\ entry[e].link \in Items \cup {None}
          /\ entry[e].amount \in Int /\ entry[e].delivered \in BOOLEAN
      BY <2>1 DEF EntryType
    <2>3. entry[e].at \in 0 .. instants
      BY <2>1, <2>2
    <2>q. QED BY <2>2, <2>3
  <1>3. snapshot.asOf \in 0 .. instants /\ snapshot.day \in 1 .. today
    BY Rows DEF IInv, Observations, Observed, SnapshotType
  <1>4. /\ \A i \in Items : item[i].status \in ItemStates
        /\ order.state \in {"none", "pending", "unknown", "paid", "closed"}
        /\ \A o \in Dues : due[o].settled \in Entries \cup {None}
    BY Rows DEF ItemType, OrderType, DueType
  <1>q. QED BY <1>1, <1>2, <1>3, <1>4 DEF TypeOK, IInv, RowsTyped

LEMMA ReviewIs == IInv => ReviewAddsUp
  <1> SUFFICES ASSUME IInv PROVE ReviewAddsUp
    OBVIOUS
  <1> DEFINE all == [e \in PlainExpenses |-> entry[e].amount]
             linked == [e \in PlainExpenses |-> entry[e].covered]
             rest == [e \in PlainExpenses |-> entry[e].amount - entry[e].covered]
  <1>1. \A e \in PlainExpenses :
            /\ entry[e].covered \in Nat /\ entry[e].amount \in Int /\ entry[e].amount > 0
            /\ entry[e].covered <= entry[e].amount
    <2> SUFFICES ASSUME NEW e \in PlainExpenses
                 PROVE  /\ entry[e].covered \in Nat /\ entry[e].amount \in Int
                        /\ entry[e].amount > 0 /\ entry[e].covered <= entry[e].amount
      OBVIOUS
    <2>1. e \in Entries /\ entry[e].amount > 0
      BY DEF PlainExpenses, Expenses, Ledger
    <2>2. entry[e] \in EntryType /\ EntryFits(entry[e])
      BY <2>1, Rows
    <2>3. entry[e].covered \in Nat /\ entry[e].amount \in Int
      BY <2>2 DEF EntryType
    <2>4. entry[e].covered = 0 \/ entry[e].covered <= entry[e].amount
      BY <2>2 DEF EntryFits
    <2>q. QED BY <2>1, <2>3, <2>4
  <1>2. IsFiniteSet(PlainExpenses)
    BY Constants, FS_Subset DEF PlainExpenses, Expenses, Ledger
  <1>3. \A e \in DOMAIN rest : rest[e] \in Nat
    BY <1>1
  <1>4. SumOf(rest) \in Nat
    BY <1>2, <1>3, SumNatural
  <1>5. SumOf(all) = SumOf(rest) + SumOf(linked)
    <2>1. Summands(rest) /\ Summands(linked)
      BY <1>1, <1>2 DEF Summands
    <2>2. \A e \in DOMAIN rest : all[e] = rest[e] + linked[e]
      BY <1>1
    <2>3. DOMAIN rest = PlainExpenses /\ DOMAIN linked = DOMAIN rest /\ DOMAIN all = DOMAIN rest
      OBVIOUS
    <2> HIDE DEF rest, linked, all
    <2>q. QED BY <2>1, <2>2, <2>3, SumOfSums
  <1>6. SumOf(linked) = LinkedActual /\ LinkedActual \in Nat
    BY LinkedIsCovered
  <1>7. UnlinkedPosted = SumOf(rest)
    <2>1. UnlinkedPosted = Max({0, SumOf(all) - LinkedActual})
      BY SumIs DEF UnlinkedPosted
    <2>2. SumOf(all) - LinkedActual = SumOf(rest)
      <3> HIDE DEF all, rest, linked
      <3>q. QED BY <1>4, <1>5, <1>6
    <2> HIDE DEF all, rest
    <2>q. QED BY <1>4, <2>1, <2>2, MaxOfZero
  <1>8. LinkedActual = Sum([i \in Items |-> Covered(i)])
    BY LinkedIsCovered, SumIs
  <1>9. \A i \in Items : Covered(i) <= item[i].amount
                         /\ (Covered(i) > 0 => item[i].status = "planned")
    BY Rows DEF IInv, PlansCovered
  <1>10. UnlinkedPosted = Sum(rest)
    BY <1>7, SumIs
  <1>q. QED BY <1>1, <1>8, <1>9, <1>10, TypesKnown DEF ReviewAddsUp

\* Each expense of the month is linked or not, by its amount, for any entries,
\* items and amounts: what the review subtracts is what is linked, and no plan is
\* covered beyond its estimate.
THEOREM ReviewAddsUpAlways == Spec => []ReviewAddsUp
  BY Invariance, ReviewIs, PTL

------------------------------------------------------------------------------
(* The confirmed balance is the bank's.                                    *)

CashAgrees == Cash = Opening - Sum([e \in Seen |-> entry[e].amount])

LEMMA CashIs ==
    ASSUME IInv
    PROVE  CashAgrees /\ Cash \in Int
  <1> DEFINE early == {e \in Entries : IsPosted(e) /\ entry[e].at <= snapshot.asOf}
             all == [e \in Seen |-> entry[e].amount]
             before == [e \in early |-> entry[e].amount]
             since == [e \in After |-> entry[e].amount]
  <1>a. \A e \in Entries : entry[e] \in EntryType /\ EntryFits(entry[e])
    BY Rows
  <1>b. \A e \in Entries : entry[e].amount \in Int /\ entry[e].at \in Nat
    BY <1>a DEF EntryType
  <1>c. snapshot.asOf \in Nat
    BY Rows DEF SnapshotType
  <1>1. early \cup After = Seen
    BY <1>a, <1>b, <1>c DEF After, Ledger, Seen, Visible, IsPosted, EntryFits
  <1>2. early \cap After = {}
    BY <1>b, <1>c DEF After
  <1>3. Summands(all) /\ Summands(before) /\ Summands(since)
    <2>1. IsFiniteSet(Seen) /\ IsFiniteSet(early) /\ IsFiniteSet(After)
      BY Constants, FS_Subset DEF Seen, After, Ledger
    <2>2. Seen \subseteq Entries /\ early \subseteq Entries /\ After \subseteq Entries
      BY DEF Seen, After, Ledger
    <2>q. QED BY <1>b, <2>1, <2>2 DEF Summands
  <1>4. SumOf(all) = SumOf(before) + SumOf(since)
    <2>1. DOMAIN all = Seen /\ DOMAIN before = early /\ DOMAIN since = After
      OBVIOUS
    <2>2. (\A e \in early : before[e] = all[e]) /\ (\A e \in After : since[e] = all[e])
      BY <1>1
    <2> HIDE DEF all, before, since, early
    <2>q. QED BY <1>1, <1>2, <1>3, <2>1, <2>2, SumOfParts
  <1>5. SumOf(all) \in Int /\ SumOf(before) \in Int /\ SumOf(since) \in Int
    <2> HIDE DEF all, before, since
    <2>q. QED BY <1>3, SumType
  <1>6. Balance(snapshot.asOf) = Opening - SumOf(before)
    BY SumIs DEF Balance
  <1>7. Cash = Balance(snapshot.asOf) - SumOf(since)
    BY SumIs DEF Cash
  <1>8. Sum([e \in Seen |-> entry[e].amount]) = SumOf(all)
    BY SumIs
  <1> HIDE DEF all, before, since
  <1>q. QED BY <1>4, <1>5, <1>6, <1>7, <1>8, Constants DEF CashAgrees

NothingLost == \A e \in Entries : Visible(e) => Visible(e)'

\* A posted entry keeps its instant, a reported one stays reported, and the
\* newest snapshot is never replaced by an older one.
LEMMA LedgerGrows ==
    ASSUME IInv, [Next]_vars
    PROVE  /\ \A e \in Entries : IsPosted(e) =>
                  entry'[e].at = entry[e].at /\ (entry[e].delivered => entry'[e].delivered)
           /\ snapshot'.asOf >= snapshot.asOf
  <1> DEFINE Kept(e) == IsPosted(e) =>
                 entry'[e].at = entry[e].at /\ (entry[e].delivered => entry'[e].delivered)
  <1> USE DEF bank, plans
  <1>a. entry \in [Entries -> EntryType] /\ snapshot.asOf \in Nat /\ instants \in Nat
        /\ snapshot.asOf <= instants
    BY Rows DEF SnapshotType, IInv, Observations, Observed
  <1>b. snapshot' = snapshot => snapshot'.asOf >= snapshot.asOf
    BY <1>a
  <1>1. CASE \/ Tomorrow \/ UNCHANGED vars
             \/ \E o \in Dues, e \in Entries \cup {None} : MarkPaid(o, e)
             \/ \E i \in Items :
                    \/ \E kind \in {"planned_spend", "expected_income"},
                          day \in 1 .. MonthEnd, amount \in Amounts :
                          ChangeItem(i, kind, day, amount)
                    \/ CancelItem(i)
                    \/ \E price \in Prices : PlaceOrder(i, price)
             \/ PaymentUnknown \/ CloseOrder
    <2>1. UNCHANGED <<entry, snapshot>>
      BY <1>1 DEF Tomorrow, vars, MarkPaid, ChangeItem, CancelItem, PlaceOrder, PaymentUnknown,
             CloseOrder
    <2>q. QED BY <1>b, <2>1
  <1>2. CASE Observe \/ TakeSnapshot
    <2>1. UNCHANGED entry /\ (snapshot' = snapshot \/ snapshot' = Now)
      BY <1>2 DEF Observe, TakeSnapshot
    <2>q. QED BY <1>a, <1>b, <2>1 DEF Now
  <1>3. ASSUME NEW s \in inFlight, Capture(s)
        PROVE  (\A e \in Entries : Kept(e)) /\ snapshot'.asOf >= snapshot.asOf
    <2>1. UNCHANGED entry /\ (snapshot' = snapshot \/ (snapshot' = s /\ Newer(s)))
      BY <1>3 DEF Capture
    <2>2. s.asOf \in Nat
      BY DEF IInv, RowsTyped, SnapshotType
    <2>3. Newer(s) => s.asOf >= snapshot.asOf
      BY <1>a, <2>2 DEF Newer
    <2>q. QED BY <1>b, <2>1, <2>3
  <1>4. ASSUME NEW e \in Entries,
               \/ \E amount \in Posted : Post(e, amount)
               \/ Deliver(e) \/ Unlink(e) \/ PayOrder(e)
               \/ \E i \in Items : \E covered \in 1 .. entry[e].amount : Link(e, i, covered)
        PROVE  (\A d \in Entries : Kept(d)) /\ snapshot'.asOf >= snapshot.asOf
    <2>1. snapshot' = snapshot
      BY <1>4 DEF Post, Deliver, Unlink, PayOrder, Link
    <2>2. \A d \in Entries \ {e} : entry'[d] = entry[d]
      BY <1>4, <1>a DEF Post, Deliver, Unlink, PayOrder, Link
    <2>3. CASE IsPosted(e)
      <3>1. Deliver(e) \/ Unlink(e)
            \/ \E i \in Items : \E covered \in 1 .. entry[e].amount : Link(e, i, covered)
        BY <1>4, <2>3 DEF Post, PayOrder
      <3>2. entry'[e].at = entry[e].at /\ (entry[e].delivered => entry'[e].delivered)
        BY <1>a, <3>1, ZenonT(30) DEF Deliver, Unlink, Link, EntryType
      <3>q. QED BY <1>b, <2>1, <2>2, <3>2
    <2>4. CASE ~IsPosted(e)
      BY <1>b, <2>1, <2>2, <2>4
    <2>q. QED BY <2>3, <2>4
  <1>q. QED BY <1>1, <1>2, <1>3, <1>4 DEF Next

LEMMA LossFree == ASSUME IInv, IInv', [Next]_vars PROVE NothingLost
  <1> SUFFICES ASSUME NEW e \in Entries, Visible(e) PROVE Visible(e)'
    BY DEF NothingLost
  <1>1. entry[e].at \in Nat /\ entry[e].at > 0 /\ snapshot.asOf \in Nat
    BY Rows DEF EntryType, SnapshotType, Visible, IsPosted
  <1>2. snapshot'.asOf \in Nat
    BY DEF IInv, RowsTyped, SnapshotType
  <1>3. /\ entry'[e].at = entry[e].at /\ (entry[e].delivered => entry'[e].delivered)
        /\ snapshot'.asOf >= snapshot.asOf
    BY LedgerGrows DEF Visible
  <1>4. entry'[e].at > 0
    BY <1>1, <1>3
  <1>5. entry[e].at <= snapshot.asOf => entry'[e].at <= snapshot'.asOf
    BY <1>1, <1>2, <1>3
  <1>q. QED BY <1>3, <1>4, <1>5 DEF Visible, IsPosted

\* The confirmed balance is what the bank has less what has not been reported,
\* and what was once seen is not lost, for any number of entries and in whatever
\* order entries and snapshots arrive.
THEOREM CashIsBankAlways == Spec => CashIsBank
  <1>1. IInv => CashAgrees
    BY CashIs
  <1>2. CashAgrees' /\ IInv /\ IInv' /\ [Next]_vars =>
            [/\ Cash' = (Opening - Sum([e \in Seen |-> entry[e].amount]))'
             /\ \A e \in Entries : Visible(e) => Visible(e)']_vars
    BY LossFree DEF CashAgrees, NothingLost
  <1>q. QED BY Invariance, <1>1, <1>2, PTL DEF Spec, CashIsBank

------------------------------------------------------------------------------
(* The fold over the days.                                                 *)

\* Induction over an interval, of the numbers for which a property holds.
LEMMA IntervalInduction ==
    ASSUME NEW a \in Int, NEW b \in Int, NEW G,
           a <= b => a \in G, \A d \in a + 1 .. b : d - 1 \in G => d \in G
    PROVE  \A d \in a .. b : d \in G
  <1> DEFINE T == {n \in Nat : a + n <= b /\ a + n \notin G}
  <1>1. ASSUME T # {} PROVE FALSE
    <2>1. PICK n \in T : \A m \in T : n <= m
      BY <1>1, LeastNumber
    <2>2. CASE n = 0
      BY <2>2
    <2>3. CASE n # 0
      <3>1. n - 1 \in Nat /\ n - 1 \notin T
        <4>1. n \in Nat
          OBVIOUS
        <4> HIDE DEF T
        <4>q. QED BY <2>1, <2>3, <4>1
      <3>2. a + (n - 1) \in G
        BY <3>1
      <3>3. a + n \in a + 1 .. b /\ (a + n) - 1 = a + (n - 1)
        BY <3>1
      <3>4. a + n \in G
        BY <3>2, <3>3
      <3>q. QED BY <3>4
    <2>q. QED BY <2>2, <2>3
  <1>2. ASSUME NEW d \in a .. b PROVE d \in G
    <2>1. d - a \in Nat /\ a + (d - a) = d
      OBVIOUS
    <2>2. d - a \notin T
      BY <1>1
    <2>q. QED BY <2>1, <2>2
  <1>q. QED BY <1>2

\* A run over an interval, given its first state and its steps, exists.
RunOn(F, a, b, s, g) ==
    F = [d \in a - 1 .. b |-> IF d < a THEN s ELSE g[<<F[d - 1], d>>]]

Runs(a, b, S, s, g) == \E F \in [a - 1 .. b -> S] : RunOn(F, a, b, s, g)

LEMMA RunExists ==
    ASSUME NEW a \in Int, NEW b \in Int, NEW S, NEW s \in S, NEW g \in [S \X Int -> S],
           a - 1 <= b
    PROVE  Runs(a, b, S, s, g)
  <1> DEFINE G == {d \in Int : Runs(a, d, S, s, g)}
  <1>1. a - 1 \in G
    <2> DEFINE F == [d \in a - 1 .. a - 1 |-> s]
    <2>1. F \in [a - 1 .. a - 1 -> S]
      OBVIOUS
    <2>2. \A d \in a - 1 .. a - 1 : d < a
      OBVIOUS
    <2>3. RunOn(F, a, a - 1, s, g)
      BY <2>2 DEF RunOn
    <2> HIDE DEF F
    <2>4. Runs(a, a - 1, S, s, g)
      BY <2>1, <2>3 DEF Runs
    <2>q. QED BY <2>4
  <1>2. ASSUME NEW d \in (a - 1) + 1 .. b, d - 1 \in G
        PROVE  d \in G
    <2>1. PICK H \in [a - 1 .. d - 1 -> S] : RunOn(H, a, d - 1, s, g)
      BY <1>2 DEF Runs
    <2> DEFINE F == [c \in a - 1 .. d |-> IF c < a THEN s ELSE g[<<H[c - 1], c>>]]
    <2>2. \A c \in a - 1 .. d : c - 1 \in a - 1 .. d - 1 \/ c < a
      OBVIOUS
    <2>3. \A c \in a - 1 .. d - 1 : F[c] = H[c]
      <3>1. \A c \in a - 1 .. d - 1 : c \in a - 1 .. d
        OBVIOUS
      <3>q. QED BY <2>1, <3>1 DEF RunOn
    <2>4. F \in [a - 1 .. d -> S]
      <3>1. \A c \in a - 1 .. d : c \in Int
        OBVIOUS
      <3>q. QED BY <2>2, <3>1
    <2>5. F = [c \in a - 1 .. d |-> IF c < a THEN s ELSE g[<<F[c - 1], c>>]]
      BY <2>2, <2>3
    <2>6. RunOn(F, a, d, s, g)
      BY <2>5 DEF RunOn
    <2> HIDE DEF F
    <2>7. Runs(a, d, S, s, g)
      BY <2>4, <2>6 DEF Runs
    <2>q. QED BY <2>7
  <1> HIDE DEF G
  <1>3. \A d \in a - 1 .. b : d \in G
    BY <1>1, <1>2, IntervalInduction
  <1>4. b \in G
    BY <1>3
  <1>q. QED BY <1>4 DEF G

LEMMA MinOfTwo ==
    ASSUME NEW m \in Int, NEW n \in Int
    PROVE  /\ Min({m, n}) \in {m, n} /\ Min({m, n}) \in Int
           /\ Min({m, n}) <= m /\ Min({m, n}) <= n
  <1> DEFINE M == CHOOSE x \in {m, n} : \A y \in {m, n} : x =< y
  <1>1. \E x \in {m, n} : \A y \in {m, n} : x =< y
    <2>1. CASE m <= n
      BY <2>1
    <2>2. CASE n <= m
      BY <2>2
    <2>q. QED BY <2>1, <2>2
  <1>2. M \in {m, n} /\ \A y \in {m, n} : M =< y
    BY <1>1
  <1>3. Min({m, n}) = M
    BY DEF Min
  <1> HIDE DEF M
  <1>q. QED BY <1>2, <1>3

\* A known forecast of this month or of the window begins today.
LEMMA ViewIs ==
    ASSUME IInv, NEW view \in Views
    PROVE  /\ Last(view) \in Int /\ (Known => today <= Last(view))
           /\ \A d : TargetOn(view, d) \in Nat
           /\ Last("month") = MonthEnd
  BY Rows, Constants DEF Last, Views, TargetOn, Known

\* The obligations and items of the forecast, each an event of its own.
DueAhead(last) == {p \in Dues : due[p].on <= last /\ Remaining(p) > 0}
ItemsAhead(last) == {j \in Open : item[j].on <= last /\ item[j].amount > Covered(j)}
DueEvent(o) == [on |-> Late(due[o].on), amount |-> Remaining(o), kind |-> "repayment", of |-> o]
ItemEvent(i) ==
    [on |-> Late(item[i].on), amount |-> item[i].amount - Covered(i),
     kind |-> "planned_expense", of |-> i]
OrderEvent == [on |-> today, amount |-> order.amount, kind |-> "committed_order",
               of |-> order.item]

LEMMA EventsAre ==
    ASSUME NEW last
    PROVE  /\ DueEvents(last) = {DueEvent(o) : o \in DueAhead(last)}
           /\ ItemEvents(last) = {ItemEvent(i) : i \in ItemsAhead(last)}
           /\ OrderEvents = IF ActiveOrder /\ ~order.debited THEN {OrderEvent} ELSE {}
           /\ Events(last) = OrderEvents \cup ItemEvents(last) \cup DueEvents(last)
  <1>1. DueEvents(last) = {DueEvent(o) : o \in DueAhead(last)}
    BY DEF DueEvents, DueEvent, DueAhead
  <1>2. ItemEvents(last) = {ItemEvent(i) : i \in ItemsAhead(last)}
    BY DEF ItemEvents, ItemEvent, ItemsAhead
  <1>3. OrderEvents = IF ActiveOrder /\ ~order.debited THEN {OrderEvent} ELSE {}
    BY DEF OrderEvents, OrderEvent
  <1>q. QED BY <1>1, <1>2, <1>3 DEF Events

EventFits(v, last) == v.amount \in Nat /\ v.on \in today .. last

LEMMA EventsFit ==
    ASSUME IInv, NEW last \in Int, today <= last
    PROVE  /\ IsFiniteSet(Events(last)) /\ \A v \in Events(last) : EventFits(v, last)
           /\ IsFiniteSet(ItemEvents(last)) /\ IsFiniteSet(DueEvents(last))
           /\ IsFiniteSet(OrderEvents)
           /\ IsFiniteSet(ItemsAhead(last)) /\ IsFiniteSet(DueAhead(last))
  <1>a. today \in Nat /\ item \in [Items -> ItemType] /\ order \in OrderType
        /\ due \in [Dues -> DueType] /\ (\A i \in Items : Covered(i) \in Nat)
    BY Rows
  <1>1. DueAhead(last) \subseteq Dues /\ ItemsAhead(last) \subseteq Items
    BY DEF DueAhead, ItemsAhead, Open
  <1>2. IsFiniteSet(DueAhead(last)) /\ IsFiniteSet(ItemsAhead(last))
    BY <1>1, Constants, FS_Subset
  <1>3. IsFiniteSet(DueEvents(last))
    <2> DEFINE name == [o \in DueAhead(last) |-> DueEvent(o)]
    <2>1. {name[o] : o \in DueAhead(last)} = DueEvents(last)
      BY EventsAre
    <2>2. IsFiniteSet({name[o] : o \in DueAhead(last)})
      BY <1>2, NamesFinite
    <2>q. QED BY <2>1, <2>2
  <1>4. IsFiniteSet(ItemEvents(last))
    <2> DEFINE name == [i \in ItemsAhead(last) |-> ItemEvent(i)]
    <2>1. {name[i] : i \in ItemsAhead(last)} = ItemEvents(last)
      BY EventsAre
    <2>2. IsFiniteSet({name[i] : i \in ItemsAhead(last)})
      BY <1>2, NamesFinite
    <2>q. QED BY <2>1, <2>2
  <1>5. IsFiniteSet(OrderEvents)
    BY EventsAre, FS_Singleton, FS_EmptySet
  <1>6. IsFiniteSet(Events(last))
    <2>1. IsFiniteSet(OrderEvents \cup ItemEvents(last))
      BY <1>4, <1>5, FS_Union
    <2>2. IsFiniteSet((OrderEvents \cup ItemEvents(last)) \cup DueEvents(last))
      BY <1>3, <2>1, FS_Union
    <2>q. QED BY <2>2, EventsAre
  <1>7. \A day \in Nat : day <= last => Late(day) \in today .. last
    BY <1>a DEF Late
  <1>8. ASSUME NEW o \in DueAhead(last) PROVE EventFits(DueEvent(o), last)
    <2>1. o \in Dues /\ due[o].on \in Nat /\ due[o].on <= last
      BY <1>a, <1>1 DEF DueAhead, DueType
    <2>2. Remaining(o) \in Nat
      BY <1>a, <2>1 DEF Remaining, DueType
    <2>q. QED BY <1>7, <2>1, <2>2 DEF EventFits, DueEvent
  <1>9. ASSUME NEW i \in ItemsAhead(last) PROVE EventFits(ItemEvent(i), last)
    <2>1. i \in Items /\ item[i].on \in 1 .. MonthEnd /\ item[i].amount \in Nat
          /\ Covered(i) \in Nat
      BY <1>a, <1>1 DEF ItemType
    <2>2. item[i].on <= last /\ item[i].amount > Covered(i)
      BY DEF ItemsAhead
    <2>3. item[i].on \in Nat
      BY <2>1
    <2>4. item[i].amount - Covered(i) \in Nat
      BY <2>1, <2>2
    <2>q. QED BY <1>7, <2>2, <2>3, <2>4 DEF EventFits, ItemEvent
  <1>10. EventFits(OrderEvent, last)
    BY <1>a DEF EventFits, OrderEvent, OrderType
  <1>11. \A v \in Events(last) : EventFits(v, last)
    BY <1>8, <1>9, <1>10, EventsAre
  <1>q. QED BY <1>2, <1>3, <1>4, <1>5, <1>6, <1>11

\* What is to be paid up to a day.
UpTo(events, d) == SumOf([v \in {w \in events : w.on <= d} |-> v.amount])

LEMMA SomeEvents ==
    ASSUME NEW events, IsFiniteSet(events), \A v \in events : v.amount \in Nat,
           NEW S \in SUBSET events
    PROVE  /\ Summands([v \in S |-> v.amount]) /\ SumOf([v \in S |-> v.amount]) \in Nat
  <1> DEFINE f == [v \in S |-> v.amount]
  <1>1. IsFiniteSet(DOMAIN f) /\ \A v \in DOMAIN f : f[v] \in Nat
    BY FS_Subset
  <1>2. Summands(f)
    BY <1>1 DEF Summands
  <1> HIDE DEF f
  <1>3. SumOf(f) \in Nat
    BY <1>1, SumNatural
  <1>q. QED BY <1>2, <1>3 DEF f

LEMMA UpToIs ==
    ASSUME IInv, NEW last \in Int, today <= last, NEW events, events = Events(last)
    PROVE  /\ \A d \in Int : UpTo(events, d) \in Nat /\ OutOn(events, d) \in Nat
           /\ UpTo(events, today - 1) = 0
           /\ \A d \in Int : UpTo(events, d) = UpTo(events, d - 1) + OutOn(events, d)
           /\ UpTo(events, last) = SumOf([v \in events |-> v.amount])
  <1>a. IsFiniteSet(events) /\ \A v \in events : EventFits(v, last)
    BY EventsFit
  <1>b. today \in Int /\ \A v \in events : v.amount \in Nat /\ v.on \in Int
                            /\ v.on >= today /\ v.on <= last
    BY <1>a, Rows DEF EventFits
  <1>1. \A d : UpTo(events, d) \in Nat
    <2> TAKE d
    <2>1. {w \in events : w.on <= d} \in SUBSET events
      OBVIOUS
    <2>q. QED BY <1>a, <1>b, <2>1, SomeEvents DEF UpTo
  <1>2. \A d : OutOn(events, d) \in Nat
    <2> TAKE d
    <2>1. {w \in events : w.on = d} \in SUBSET events
      OBVIOUS
    <2>2. SumOf([v \in {w \in events : w.on = d} |-> v.amount]) \in Nat
      BY <1>a, <1>b, <2>1, SomeEvents
    <2>q. QED BY <2>2, SumIs DEF OutOn
  <1>3. UpTo(events, today - 1) = 0
    <2>1. {w \in events : w.on <= today - 1} = {}
      BY <1>b
    <2>q. QED BY <2>1, SumEmpty DEF UpTo
  <1>4. ASSUME NEW d \in Int
        PROVE  UpTo(events, d) = UpTo(events, d - 1) + OutOn(events, d)
    <2> DEFINE A == {w \in events : w.on <= d - 1}
               B == {w \in events : w.on = d}
               C == {w \in events : w.on <= d}
               f == [v \in C |-> v.amount]
               g == [v \in A |-> v.amount]
               h == [v \in B |-> v.amount]
    <2>1. A \cup B = C /\ A \cap B = {}
      BY <1>b
    <2>2. C \in SUBSET events
      OBVIOUS
    <2>3. Summands(f)
      BY <1>a, <1>b, <2>2, SomeEvents
    <2>4. DOMAIN f = C /\ DOMAIN g = A /\ DOMAIN h = B
          /\ (\A x \in A : g[x] = f[x]) /\ (\A x \in B : h[x] = f[x])
      BY <2>1
    <2>5. SumOf(f) = UpTo(events, d) /\ SumOf(g) = UpTo(events, d - 1)
          /\ SumOf(h) = OutOn(events, d)
      BY SumIs DEF UpTo, OutOn
    <2> HIDE DEF A, B, C, f, g, h
    <2>6. SumOf(f) = SumOf(g) + SumOf(h)
      BY <2>1, <2>3, <2>4, SumOfParts
    <2>q. QED BY <2>5, <2>6
  <1>5. UpTo(events, last) = SumOf([v \in events |-> v.amount])
    <2>1. {w \in events : w.on <= last} = events
      BY <1>b
    <2>q. QED BY <2>1 DEF UpTo
  <1>q. QED BY <1>1, <1>2, <1>3, <1>4, <1>5

\* The fold is the function its recursion says.
DayState == [cash : Int, low : Int, unknown : BOOLEAN, head : Int]
FirstDay(view) ==
    [cash |-> Cash, low |-> Cash, unknown |-> FALSE, head |-> Cash - TargetOn(view, today)]
Income(view, income, d) == IF income THEN IncomeOn(view, d) ELSE 0
CashAfter(view, income, before, d) ==
    before.cash - OutOn(Events(Last(view)), d) + Income(view, income, d)

LEMMA IncomeIs ==
    ASSUME IInv, NEW view, NEW d
    PROVE  IncomeOn(view, d) \in Nat
  <1> DEFINE S == {i \in Items : item[i].status = "planned" /\ item[i].on = d
                                 /\ item[i].kind = "expected_income"}
             f == [i \in S |-> item[i].amount]
  <1>1. IsFiniteSet(DOMAIN f) /\ \A i \in DOMAIN f : f[i] \in Nat
    BY Rows, Constants, FS_Subset DEF ItemType
  <1>2. SumOf(f) \in Nat
    <2> HIDE DEF f
    <2>q. QED BY <1>1, SumNatural
  <1>q. QED BY <1>2, SumIs DEF IncomeOn

LEMMA StepType ==
    ASSUME IInv, NEW view \in Views, NEW before \in DayState, NEW d \in Int, NEW cash \in Int
    PROVE  Step(view, before, d, cash) \in DayState
  <1>1. before.low \in Int /\ before.head \in Int /\ TargetOn(view, d) \in Nat
    BY ViewIs DEF DayState
  <1>2. PICK m, n : m = Min({before.low, cash})
                    /\ n = Min({before.head, cash - TargetOn(view, d)})
    OBVIOUS
  <1>3. m \in Int
    BY <1>1, <1>2, MinOfTwo
  <1>4. cash - TargetOn(view, d) \in Int
    BY <1>1
  <1>5. n \in Int
    BY <1>1, <1>2, <1>4, MinOfTwo
  <1>q. QED BY <1>2, <1>3, <1>5 DEF Step, DayState

LEMMA DaysRun ==
    ASSUME IInv, NEW view \in Views, NEW income \in BOOLEAN, today <= Last(view)
    PROVE  /\ Days(view, income) \in [today - 1 .. Last(view) -> DayState]
           /\ Days(view, income)[today - 1] = FirstDay(view)
           /\ \A d \in today .. Last(view) :
                  Days(view, income)[d] =
                      Step(view, Days(view, income)[d - 1], d,
                           CashAfter(view, income, Days(view, income)[d - 1], d))
  <1> DEFINE g == [p \in DayState \X Int |->
                     Step(view, p[1], p[2], CashAfter(view, income, p[1], p[2]))]
             F == Days(view, income)
  <1>a. today \in Int /\ Last(view) \in Int /\ Cash \in Int /\ TargetOn(view, today) \in Nat
    BY Rows, ViewIs, CashIs
  <1>b. FirstDay(view) \in DayState
    BY <1>a DEF FirstDay, DayState
  <1>c. \A before \in DayState, d \in Int : CashAfter(view, income, before, d) \in Int
    <2> TAKE before \in DayState, d \in Int
    <2>1. before.cash \in Int
      BY DEF DayState
    <2>2. OutOn(Events(Last(view)), d) \in Nat
      BY <1>a, UpToIs
    <2>3. Income(view, income, d) \in Nat
      BY IncomeIs DEF Income
    <2>q. QED BY <2>1, <2>2, <2>3 DEF CashAfter
  <1>1. g \in [DayState \X Int -> DayState]
    BY <1>c, StepType
  <1>2. Runs(today, Last(view), DayState, FirstDay(view), g)
    <2> HIDE DEF g
    <2>1. today - 1 <= Last(view)
      BY <1>a
    <2>q. QED BY <1>a, <1>b, <1>1, <2>1, RunExists
  <1>3. PICK H \in [today - 1 .. Last(view) -> DayState] :
            RunOn(H, today, Last(view), FirstDay(view), g)
    BY <1>2 DEF Runs
  <1>4. H = [d \in today - 1 .. Last(view) |->
               IF d < today THEN FirstDay(view)
               ELSE Step(view, H[d - 1], d, CashAfter(view, income, H[d - 1], d))]
    <2>1. \A d \in today - 1 .. Last(view) : d >= today =>
              d - 1 \in today - 1 .. Last(view) /\ d \in Int
      BY <1>a
    <2>2. \A d \in today - 1 .. Last(view) : d >= today =>
              <<H[d - 1], d>> \in DayState \X Int
      BY <2>1
    <2>3. \A d \in today - 1 .. Last(view) : d >= today =>
              g[<<H[d - 1], d>>] = Step(view, H[d - 1], d, CashAfter(view, income, H[d - 1], d))
      BY <2>2
    <2> HIDE DEF g
    <2>4. \A d \in today - 1 .. Last(view) : d >= today \/ d < today
      BY <1>a
    <2>5. H = [d \in today - 1 .. Last(view) |->
                 IF d < today THEN FirstDay(view) ELSE g[<<H[d - 1], d>>]]
      BY <1>3 DEF RunOn
    <2>q. QED BY <2>3, <2>4, <2>5
  <1>5. F = CHOOSE K : K = [d \in today - 1 .. Last(view) |->
               IF d < today THEN FirstDay(view)
               ELSE Step(view, K[d - 1], d, CashAfter(view, income, K[d - 1], d))]
    BY DEF Days, FirstDay, CashAfter, Income
  <1>6. F = [d \in today - 1 .. Last(view) |->
               IF d < today THEN FirstDay(view)
               ELSE Step(view, F[d - 1], d, CashAfter(view, income, F[d - 1], d))]
    <2> HIDE DEF F
    <2>q. QED BY <1>4, <1>5
  <1> HIDE DEF F
  <1>7. F[today - 1] = FirstDay(view)
    <2>1. today - 1 \in today - 1 .. Last(view) /\ today - 1 < today
      BY <1>a
    <2>q. QED BY <1>6, <2>1
  <1>8. \A d \in today .. Last(view) :
            F[d] = Step(view, F[d - 1], d, CashAfter(view, income, F[d - 1], d))
    <2>1. \A d \in today .. Last(view) : d \in today - 1 .. Last(view) /\ ~(d < today)
      BY <1>a
    <2>q. QED BY <1>6, <2>1
  <1>9. \A d \in today - 1 .. Last(view) : F[d] \in DayState
    <2> DEFINE G == {d \in Int : F[d] \in DayState}
    <2>a. PICK a \in Int : a = today - 1
      BY <1>a
    <2>1. a \in G
      BY <1>7, <1>a, <1>b, <2>a
    <2>2. ASSUME NEW d \in a + 1 .. Last(view), d - 1 \in G
          PROVE  d \in G
      <3>1. d \in today .. Last(view) /\ d \in Int
        BY <1>a, <2>a
      <3>2. F[d - 1] \in DayState
        BY <2>2
      <3>3. CashAfter(view, income, F[d - 1], d) \in Int
        BY <1>c, <3>1, <3>2
      <3>4. Step(view, F[d - 1], d, CashAfter(view, income, F[d - 1], d)) \in DayState
        BY <3>1, <3>2, <3>3, StepType
      <3>q. QED BY <1>8, <3>1, <3>4
    <2> HIDE DEF G
    <2>3. \A d \in a .. Last(view) : d \in G
      BY <1>a, <2>1, <2>2, IntervalInduction
    <2>q. QED BY <2>a, <2>3 DEF G
  <1>10. F \in [today - 1 .. Last(view) -> DayState]
    BY <1>6, <1>9
  <1>q. QED BY <1>7, <1>8, <1>10 DEF F

\* What the fold knows after a day: whether it is still known, the balance, and
\* the worst balance and headroom up to that day.
LeftOn(view, d) == Cash - UpTo(Events(Last(view)), d)
NoneUnknown(view, d) == \A k \in today .. d : k \notin UnknownDays(view)
DayIs(view, s, d) ==
    /\ ~s.unknown <=> NoneUnknown(view, d)
    /\ ~s.unknown =>
          /\ s.cash = LeftOn(view, d)
          /\ \A k \in today .. d : /\ s.low <= LeftOn(view, k)
                                   /\ s.head <= LeftOn(view, k) - TargetOn(view, k)
          /\ s.low = Cash \/ \E k \in today .. d : s.low = LeftOn(view, k)
          /\ \/ s.head = Cash - TargetOn(view, today)
             \/ \E k \in today .. d : s.head = LeftOn(view, k) - TargetOn(view, k)

LEMMA LeftIs ==
    ASSUME IInv, NEW view \in Views, today <= Last(view)
    PROVE  /\ \A d \in Int : LeftOn(view, d) \in Int /\ LeftOn(view, d) <= Cash
           /\ LeftOn(view, today - 1) = Cash
           /\ \A d \in Int : LeftOn(view, d) =
                  LeftOn(view, d - 1) - OutOn(Events(Last(view)), d)
  <1> DEFINE E == Events(Last(view))
  <1>1. /\ \A d \in Int : UpTo(E, d) \in Nat /\ OutOn(E, d) \in Nat
        /\ UpTo(E, today - 1) = 0
        /\ \A d \in Int : UpTo(E, d) = UpTo(E, d - 1) + OutOn(E, d)
    BY UpToIs, ViewIs
  <1>2. Cash \in Int /\ today \in Int
    BY CashIs, Rows
  <1> HIDE DEF E
  <1>3. \A d \in Int : LeftOn(view, d) = Cash - UpTo(E, d)
    BY DEF LeftOn, E
  <1>4. \A d \in Int : d - 1 \in Int
    OBVIOUS
  <1>5. \A d \in Int : LeftOn(view, d) \in Int /\ LeftOn(view, d) <= Cash
    <2> TAKE d \in Int
    <2>1. PICK u \in Nat : u = UpTo(E, d)
      BY <1>1
    <2>2. LeftOn(view, d) = Cash - u
      BY <1>3, <2>1
    <2>q. QED BY <1>2, <2>2
  <1>6. LeftOn(view, today - 1) = Cash
    BY <1>1, <1>2, <1>3, <1>4
  <1>7. \A d \in Int : LeftOn(view, d) = LeftOn(view, d - 1) - OutOn(E, d)
    BY <1>1, <1>2, <1>3, <1>4
  <1>q. QED BY <1>5, <1>6, <1>7 DEF E

LEMMA DayFits ==
    ASSUME IInv, NEW view \in Views, today <= Last(view),
           NEW d \in today .. Last(view), NEW before \in DayState, DayIs(view, before, d - 1)
    PROVE  DayIs(view, Step(view, before, d, CashAfter(view, FALSE, before, d)), d)
  <1>a. today \in Int /\ d \in Int /\ d >= today /\ d - 1 \in Int /\ Cash \in Int
    BY Rows, CashIs
  <1>b. PICK after : after = Step(view, before, d, CashAfter(view, FALSE, before, d))
    OBVIOUS
  <1>c. NoneUnknown(view, d) <=> NoneUnknown(view, d - 1) /\ d \notin UnknownDays(view)
    <2>1. today .. d = (today .. d - 1) \cup {d}
      BY <1>a
    <2>q. QED BY <2>1 DEF NoneUnknown
  <1>1. CASE before.unknown \/ d \in UnknownDays(view)
    <2>1. after.unknown
      BY <1>1, <1>b DEF Step, DayState
    <2>2. ~NoneUnknown(view, d)
      BY <1>1, <1>c DEF DayIs
    <2>q. QED BY <1>b, <2>1, <2>2 DEF DayIs
  <1>2. CASE ~before.unknown /\ d \notin UnknownDays(view)
    <2>1. PICK cash : cash = CashAfter(view, FALSE, before, d)
      OBVIOUS
    <2>2. before.cash = LeftOn(view, d - 1) /\ before.cash \in Int
      BY <1>2 DEF DayIs, DayState
    <2>3. OutOn(Events(Last(view)), d) \in Nat
      BY <1>a, ViewIs, UpToIs
    <2>4. cash = LeftOn(view, d) /\ cash \in Int
      <3>1. cash = before.cash - OutOn(Events(Last(view)), d) + 0
        BY <2>1 DEF CashAfter, Income
      <3>2. LeftOn(view, d) = LeftOn(view, d - 1) - OutOn(Events(Last(view)), d)
        BY <1>a, LeftIs
      <3>q. QED BY <2>2, <2>3, <3>1, <3>2
    <2>5. TargetOn(view, d) \in Nat /\ before.low \in Int /\ before.head \in Int
          /\ cash - TargetOn(view, d) \in Int
      BY <2>4, ViewIs DEF DayState
    <2>6. PICK room : room = cash - TargetOn(view, d)
      OBVIOUS
    <2>7. after = [cash |-> cash, low |-> Min({before.low, cash}),
                   head |-> Min({before.head, room}), unknown |-> FALSE]
      BY <1>2, <1>b, <2>1, <2>6 DEF Step
    <2>8. /\ after.low \in {before.low, cash} /\ after.low \in Int
          /\ after.low <= before.low /\ after.low <= cash
      BY <2>4, <2>5, <2>7, MinOfTwo
    <2>9. /\ after.head \in {before.head, room} /\ after.head \in Int
          /\ after.head <= before.head /\ after.head <= room
      BY <2>5, <2>6, <2>7, MinOfTwo
    <2>10. ~after.unknown /\ after.cash = cash
      BY <2>7
    <2>11. NoneUnknown(view, d)
      BY <1>2, <1>c DEF DayIs
    <2>12. \A k \in today .. d - 1 : LeftOn(view, k) \in Int /\ TargetOn(view, k) \in Nat
      BY LeftIs, ViewIs
    <2>13. \A k \in today .. d : k = d \/ k \in today .. d - 1
      BY <1>a
    <2>14. d \in today .. d /\ \A k \in today .. d - 1 : k \in today .. d
      BY <1>a
    <2>15. \A k \in today .. d : /\ after.low <= LeftOn(view, k)
                                 /\ after.head <= LeftOn(view, k) - TargetOn(view, k)
      <3> SUFFICES ASSUME NEW k \in today .. d
                   PROVE  /\ after.low <= LeftOn(view, k)
                          /\ after.head <= LeftOn(view, k) - TargetOn(view, k)
        OBVIOUS
      <3>1. CASE k = d
        BY <2>4, <2>6, <2>8, <2>9, <3>1
      <3>2. CASE k \in today .. d - 1
        <4>1. /\ before.low <= LeftOn(view, k)
              /\ before.head <= LeftOn(view, k) - TargetOn(view, k)
          BY <1>2, <3>2 DEF DayIs
        <4>2. LeftOn(view, k) \in Int /\ LeftOn(view, k) - TargetOn(view, k) \in Int
          BY <2>12, <3>2
        <4>q. QED BY <2>5, <2>8, <2>9, <4>1, <4>2
      <3>q. QED BY <2>13, <3>1, <3>2
    <2>16. after.low = Cash \/ \E k \in today .. d : after.low = LeftOn(view, k)
      <3>1. before.low = Cash \/ \E k \in today .. d - 1 : before.low = LeftOn(view, k)
        BY <1>2 DEF DayIs
      <3>q. QED BY <2>4, <2>8, <2>14, <3>1
    <2>17. \/ after.head = Cash - TargetOn(view, today)
           \/ \E k \in today .. d : after.head = LeftOn(view, k) - TargetOn(view, k)
      <3>1. \/ before.head = Cash - TargetOn(view, today)
            \/ \E k \in today .. d - 1 : before.head = LeftOn(view, k) - TargetOn(view, k)
        BY <1>2 DEF DayIs
      <3>q. QED BY <2>4, <2>6, <2>9, <2>14, <3>1
    <2>18. DayIs(view, after, d)
      BY <2>4, <2>10, <2>11, <2>15, <2>16, <2>17 DEF DayIs
    <2>q. QED BY <1>b, <2>18
  <1>q. QED BY <1>1, <1>2

LEMMA DaysAre ==
    ASSUME IInv, NEW view \in Views, today <= Last(view)
    PROVE  \A d \in today - 1 .. Last(view) : DayIs(view, Days(view, FALSE)[d], d)
  <1> DEFINE G == {d \in Int : DayIs(view, Days(view, FALSE)[d], d)}
  <1>a. today \in Int /\ Last(view) \in Int /\ Cash \in Int
    BY Rows, ViewIs, CashIs
  <1>b. PICK a \in Int : a = today - 1
    BY <1>a
  <1>c. /\ Days(view, FALSE) \in [today - 1 .. Last(view) -> DayState]
        /\ Days(view, FALSE)[today - 1] = FirstDay(view)
        /\ \A d \in today .. Last(view) :
               Days(view, FALSE)[d] = Step(view, Days(view, FALSE)[d - 1], d,
                                           CashAfter(view, FALSE, Days(view, FALSE)[d - 1], d))
    BY DaysRun
  <1>1. a \in G
    <2>1. today .. today - 1 = {}
      BY <1>a
    <2>2. LeftOn(view, today - 1) = Cash
      BY LeftIs
    <2>3. DayIs(view, FirstDay(view), today - 1)
      BY <2>1, <2>2 DEF DayIs, FirstDay, NoneUnknown
    <2>q. QED BY <1>b, <1>c, <2>3
  <1>2. ASSUME NEW d \in a + 1 .. Last(view), d - 1 \in G
        PROVE  d \in G
    <2>1. d \in today .. Last(view) /\ d \in Int /\ d - 1 \in today - 1 .. Last(view)
      BY <1>a, <1>b
    <2>2. Days(view, FALSE)[d - 1] \in DayState
      BY <1>c, <2>1
    <2>3. DayIs(view, Days(view, FALSE)[d - 1], d - 1)
      BY <1>2
    <2>4. DayIs(view, Days(view, FALSE)[d], d)
      BY <1>c, <2>1, <2>2, <2>3, DayFits
    <2>q. QED BY <2>1, <2>4
  <1> HIDE DEF G
  <1>3. \A d \in a .. Last(view) : d \in G
    BY <1>a, <1>1, <1>2, IntervalInduction
  <1>q. QED BY <1>b, <1>3 DEF G

\* The income that is only expected: as much is known, and nothing is worse.
RicherDay(s, t) ==
    /\ s.unknown = t.unknown /\ s.cash >= t.cash /\ s.head >= t.head

LEMMA RicherStep ==
    ASSUME IInv, NEW view \in Views, NEW d \in Int, NEW s \in DayState, NEW t \in DayState,
           RicherDay(s, t), NEW c \in Int, NEW e \in Int, c >= e
    PROVE  RicherDay(Step(view, s, d, c), Step(view, t, d, e))
  <1>a. s.unknown = t.unknown /\ s.cash >= t.cash /\ s.head >= t.head
        /\ s.head \in Int /\ t.head \in Int
    BY DEF RicherDay, DayState
  <1>1. CASE s.unknown \/ d \in UnknownDays(view)
    <2>1. /\ Step(view, s, d, c) = [s EXCEPT !.unknown = TRUE]
          /\ Step(view, t, d, e) = [t EXCEPT !.unknown = TRUE]
      BY <1>1, <1>a DEF Step
    <2>2. /\ Step(view, s, d, c).unknown = TRUE /\ Step(view, s, d, c).cash = s.cash
          /\ Step(view, s, d, c).head = s.head
          /\ Step(view, t, d, e).unknown = TRUE /\ Step(view, t, d, e).cash = t.cash
          /\ Step(view, t, d, e).head = t.head
      BY <2>1 DEF DayState
    <2>q. QED BY <1>a, <2>2 DEF RicherDay
  <1>2. CASE ~(s.unknown \/ d \in UnknownDays(view))
    <2>1. PICK tt \in Nat : tt = TargetOn(view, d)
      BY ViewIs
    <2>2. PICK m, n : m = Min({s.head, c - tt}) /\ n = Min({t.head, e - tt})
      OBVIOUS
    <2>3. c - tt \in Int /\ e - tt \in Int /\ c - tt >= e - tt
      OBVIOUS
    <2>4. m \in {s.head, c - tt} /\ m \in Int
      BY <1>a, <2>2, <2>3, MinOfTwo
    <2>5. n \in Int /\ n <= t.head /\ n <= e - tt
      BY <1>a, <2>2, <2>3, MinOfTwo
    <2>6. m >= n
      BY <1>a, <2>3, <2>4, <2>5
    <2>7. /\ Step(view, s, d, c).unknown = FALSE /\ Step(view, s, d, c).cash = c
          /\ Step(view, s, d, c).head = m
          /\ Step(view, t, d, e).unknown = FALSE /\ Step(view, t, d, e).cash = e
          /\ Step(view, t, d, e).head = n
      BY <1>2, <1>a, <2>1, <2>2 DEF Step
    <2>q. QED BY <2>6, <2>7 DEF RicherDay
  <1>q. QED BY <1>1, <1>2

LEMMA IncomeOnlyAdds ==
    ASSUME IInv, NEW view \in Views, today <= Last(view)
    PROVE  RicherDay(Days(view, TRUE)[Last(view)], Days(view, FALSE)[Last(view)])
  <1> DEFINE P == Days(view, TRUE)
             Q == Days(view, FALSE)
             G == {d \in Int : RicherDay(P[d], Q[d])}
  <1>a. today \in Int /\ Last(view) \in Int /\ Cash \in Int
    BY Rows, ViewIs, CashIs
  <1>b. PICK a \in Int : a = today - 1
    BY <1>a
  <1>c. /\ P \in [today - 1 .. Last(view) -> DayState] /\ P[today - 1] = FirstDay(view)
        /\ \A d \in today .. Last(view) :
               P[d] = Step(view, P[d - 1], d, CashAfter(view, TRUE, P[d - 1], d))
    BY DaysRun
  <1>d. /\ Q \in [today - 1 .. Last(view) -> DayState] /\ Q[today - 1] = FirstDay(view)
        /\ \A d \in today .. Last(view) :
               Q[d] = Step(view, Q[d - 1], d, CashAfter(view, FALSE, Q[d - 1], d))
    BY DaysRun
  <1> HIDE DEF P, Q
  <1>1. a \in G
    <2>1. FirstDay(view).cash \in Int /\ FirstDay(view).head \in Int
      <3>1. today - 1 \in today - 1 .. Last(view)
        BY <1>a
      <3>q. QED BY <1>d, <3>1 DEF DayState
    <2>q. QED BY <1>b, <1>c, <1>d, <2>1 DEF RicherDay
  <1>2. ASSUME NEW d \in a + 1 .. Last(view), d - 1 \in G
        PROVE  d \in G
    <2>1. d \in today .. Last(view) /\ d \in Int /\ d - 1 \in today - 1 .. Last(view)
      BY <1>a, <1>b
    <2>2. PICK s \in DayState, t \in DayState : s = P[d - 1] /\ t = Q[d - 1]
      BY <1>c, <1>d, <2>1
    <2>3. RicherDay(s, t)
      BY <1>2, <2>2
    <2>4. PICK out \in Nat : out = OutOn(Events(Last(view)), d)
      BY <1>a, <2>1, UpToIs
    <2>5. PICK in \in Nat : in = IncomeOn(view, d)
      BY IncomeIs
    <2>6. PICK c, e : c = CashAfter(view, TRUE, s, d) /\ e = CashAfter(view, FALSE, t, d)
      OBVIOUS
    <2>7. c = s.cash - out + in /\ e = t.cash - out + 0
      BY <2>4, <2>5, <2>6 DEF CashAfter, Income
    <2>8. s.cash \in Int /\ t.cash \in Int /\ s.cash >= t.cash
      BY <2>3 DEF RicherDay, DayState
    <2>9. c \in Int /\ e \in Int /\ c >= e
      BY <2>7, <2>8
    <2>10. RicherDay(Step(view, s, d, c), Step(view, t, d, e))
      BY <2>1, <2>3, <2>9, RicherStep
    <2>11. P[d] = Step(view, s, d, c) /\ Q[d] = Step(view, t, d, e)
      BY <1>c, <1>d, <2>1, <2>2, <2>6
    <2>q. QED BY <2>1, <2>10, <2>11
  <1> HIDE DEF G
  <1>3. \A d \in a .. Last(view) : d \in G
    BY <1>a, <1>1, <1>2, IntervalInduction
  <1>4. Last(view) \in a .. Last(view)
    BY <1>a, <1>b
  <1>q. QED BY <1>3, <1>4 DEF G, P, Q

LEMMA DayByDayIs == IInv => DayByDay
  <1> SUFFICES ASSUME IInv, Known, NEW view \in Views
               PROVE  LET all == today .. Last(view)
            end == Days(view, FALSE)[Last(view)]
            events == Events(Last(view))
            left == [d \in all |->
                        Cash - Sum([v \in {w \in events : w.on <= d} |-> v.amount])]
            safe == {d \in all : left[d] >= TargetOn(view, d)}
        IN  /\ Status(end) = "unknown" <=> all \cap UnknownDays(view) # {}
            /\ Status(end) = "allowed" => safe = all
            /\ Status(end) = "blocked" => \E d \in all : left[d] < 0
            /\ Status(end) = "needs_adjustment" =>
                  safe # all /\ \A d \in all : left[d] >= 0
            /\ ~end.unknown => end.cash = left[Last(view)]
            /\ Days(view, TRUE)[Last(view)].head >= end.head
            /\ \A v \in events : v.on \in all
    BY DEF DayByDay
  <1> DEFINE all == today .. Last(view)
             end == Days(view, FALSE)[Last(view)]
             events == Events(Last(view))
             left == [d \in all |->
                        Cash - Sum([v \in {w \in events : w.on <= d} |-> v.amount])]
             safe == {d \in all : left[d] >= TargetOn(view, d)}
  <1>a. today \in Int /\ Last(view) \in Int /\ Cash \in Int /\ Cash >= 0 /\ today <= Last(view)
    BY Rows, ViewIs, CashIs DEF Known, BasisKnown
  <1>b. \A d \in all : left[d] = LeftOn(view, d)
    BY SumIs DEF LeftOn, UpTo
  <1>c. \A d \in all : LeftOn(view, d) \in Int /\ LeftOn(view, d) <= Cash
                       /\ TargetOn(view, d) \in Nat
    <2>1. \A d \in all : d \in Int
      BY <1>a
    <2>q. QED BY <1>a, <2>1, LeftIs, ViewIs
  <1>d. today \in all /\ Last(view) \in all /\ Last(view) \in today - 1 .. Last(view)
    BY <1>a
  <1>e. DayIs(view, end, Last(view)) /\ end \in DayState
    BY <1>a, <1>d, DaysAre, DaysRun
  <1>f. end.low \in Int /\ end.head \in Int /\ end.unknown \in BOOLEAN
    BY <1>e DEF DayState
  <1> HIDE DEF end, left
  <1>1. Status(end) = "unknown" <=> all \cap UnknownDays(view) # {}
    <2>1. Status(end) = "unknown" <=> end.unknown
      BY <1>f DEF Status
    <2>2. ~end.unknown <=> all \cap UnknownDays(view) = {}
      BY <1>e DEF DayIs, NoneUnknown
    <2>q. QED BY <1>f, <2>1, <2>2
  <1>2. ASSUME ~end.unknown
        PROVE  /\ end.cash = LeftOn(view, Last(view))
               /\ \A k \in all : /\ end.low <= LeftOn(view, k)
                                 /\ end.head <= LeftOn(view, k) - TargetOn(view, k)
               /\ end.low = Cash \/ \E k \in all : end.low = LeftOn(view, k)
               /\ \/ end.head = Cash - TargetOn(view, today)
                  \/ \E k \in all : end.head = LeftOn(view, k) - TargetOn(view, k)
    BY <1>2, <1>e DEF DayIs
  <1>3. ASSUME Status(end) = "allowed"
        PROVE  safe = all
    <2>1. ~end.unknown /\ end.head >= 0
      BY <1>3, <1>f DEF Status
    <2>2. \A k \in all : end.head <= LeftOn(view, k) - TargetOn(view, k)
      BY <1>2, <2>1
    <2>3. \A k \in all : LeftOn(view, k) >= TargetOn(view, k)
      BY <1>c, <1>f, <2>1, <2>2
    <2>q. QED BY <1>b, <2>3
  <1>4. ASSUME Status(end) = "blocked"
        PROVE  \E d \in all : left[d] < 0
    <2>1. ~end.unknown /\ end.low < 0
      BY <1>4, <1>f DEF Status
    <2>2. end.low # Cash
      BY <1>a, <1>f, <2>1
    <2>3. PICK k \in all : end.low = LeftOn(view, k)
      BY <1>2, <2>1, <2>2
    <2>q. QED BY <1>b, <2>1, <2>3
  <1>5. ASSUME Status(end) = "needs_adjustment"
        PROVE  safe # all /\ \A d \in all : left[d] >= 0
    <2>1. ~end.unknown /\ end.low >= 0 /\ end.head < 0
      BY <1>5, <1>f DEF Status
    <2>2. \A k \in all : LeftOn(view, k) >= 0
      <3> TAKE k \in all
      <3>1. end.low <= LeftOn(view, k)
        BY <1>2, <2>1
      <3>q. QED BY <1>c, <1>f, <2>1, <3>1
    <2>3. \E k \in all : ~(LeftOn(view, k) >= TargetOn(view, k))
      <3>1. CASE end.head = Cash - TargetOn(view, today)
        <4>1. PICK c \in Int, t \in Nat : c = LeftOn(view, today) /\ t = TargetOn(view, today)
                                          /\ c <= Cash
          BY <1>c, <1>d
        <4>2. end.head = Cash - t
          BY <3>1, <4>1
        <4>3. ~(c >= t)
          BY <1>a, <1>f, <2>1, <4>1, <4>2
        <4>q. QED BY <1>d, <4>1, <4>3
      <3>2. CASE \E k \in all : end.head = LeftOn(view, k) - TargetOn(view, k)
        <4>1. PICK k \in all : end.head = LeftOn(view, k) - TargetOn(view, k)
          BY <3>2
        <4>2. ~(LeftOn(view, k) >= TargetOn(view, k))
          BY <1>c, <2>1, <4>1
        <4>q. QED BY <4>2
      <3>q. QED BY <1>2, <2>1, <3>1, <3>2
    <2>4. safe # all
      BY <1>b, <2>3
    <2>5. \A d \in all : left[d] >= 0
      BY <1>b, <2>2
    <2>q. QED BY <2>4, <2>5
  <1>6. ~end.unknown => end.cash = left[Last(view)]
    BY <1>2, <1>b, <1>d
  <1>7. Days(view, TRUE)[Last(view)].head >= end.head
    BY <1>a, IncomeOnlyAdds DEF RicherDay, end
  <1>8. \A v \in events : v.on \in all
    BY <1>a, EventsFit DEF EventFits
  <1>q. QED BY <1>1, <1>3, <1>4, <1>5, <1>6, <1>7, <1>8 DEF end, left

\* The forecast of a day is the balance less everything planned up to it, and its
\* verdict names the worst day, for every month, window and set of plans
\* (cashflow-engine.ts).
THEOREM DayByDayAlways == Spec => []DayByDay
  <1>1. Spec => []IInv
    BY Invariance
  <1>q. QED BY <1>1, DayByDayIs, PTL

------------------------------------------------------------------------------
(* The end of the month is foreseen once.  With what was spent outside the *)
(* plan it is the opening balance less the plan itself: the order, the     *)
(* open items, the obligations of the month, whatever of them the facts    *)
(* already contain.                                                        *)

MonthDues == {p \in Dues : due[p].in = None /\ due[p].on <= MonthEnd}
PaidDues == {p \in Dues : due[p].status = "paid" /\ due[p].on <= MonthEnd}
OrderPart == IF ActiveOrder THEN order.amount ELSE 0
Fixed ==
    Opening - OrderPart - SumOf([i \in Open |-> item[i].amount])
    - SumOf([o \in MonthDues |-> due[o].outstanding])
Foreseen == Known => Days("month", FALSE)[MonthEnd].cash + Unforeseen = Fixed

\* The obligations: what is ahead and what is paid.
LEMMA DuesSplit ==
    ASSUME IInv
    PROVE  /\ SumOf([o \in MonthDues |-> due[o].outstanding]) =
                  SumOf([o \in DueAhead(MonthEnd) |-> Remaining(o)])
                  + SumOf([o \in PaidDues |-> due[o].outstanding])
           /\ SumOf([o \in DueAhead(MonthEnd) |-> Remaining(o)]) \in Nat
           /\ SumOf([o \in PaidDues |-> due[o].outstanding]) \in Nat
  <1> DEFINE U == {p \in MonthDues : due[p].status # "paid"}
             all == [o \in MonthDues |-> due[o].outstanding]
             paid == [o \in PaidDues |-> due[o].outstanding]
             rest == [o \in U |-> due[o].outstanding]
             ahead == [o \in DueAhead(MonthEnd) |-> Remaining(o)]
  <1>a. \A o \in Dues : due[o] \in DueType /\ DueFits(due[o])
    BY Rows DEF IInv
  <1>b. \A o \in Dues : /\ due[o].outstanding \in Nat /\ due[o].on \in Nat
                        /\ due[o].status = "paid" => due[o].in = None
    BY <1>a DEF DueType, DueFits
  <1>c. MonthDues \subseteq Dues /\ PaidDues \subseteq Dues /\ U \subseteq Dues
        /\ DueAhead(MonthEnd) \subseteq Dues
    BY DEF MonthDues, PaidDues, DueAhead
  <1>d. IsFiniteSet(MonthDues) /\ IsFiniteSet(PaidDues) /\ IsFiniteSet(U)
    BY <1>c, Constants, FS_Subset
  <1>e. \A o \in Dues : Remaining(o) = IF due[o].status = "paid" \/ due[o].in # None THEN 0
                                       ELSE due[o].outstanding
    BY DEF Remaining
  <1>1. U \cup PaidDues = MonthDues /\ U \cap PaidDues = {}
    BY <1>b DEF MonthDues, PaidDues
  <1>2. Summands(all) /\ Summands(rest)
    BY <1>b, <1>c, <1>d DEF Summands
  <1>3. SumOf(all) = SumOf(rest) + SumOf(paid)
    <2>1. DOMAIN all = MonthDues /\ DOMAIN rest = U /\ DOMAIN paid = PaidDues
      OBVIOUS
    <2>2. (\A o \in U : rest[o] = all[o]) /\ (\A o \in PaidDues : paid[o] = all[o])
      BY <1>1
    <2> HIDE DEF all, rest, paid, U
    <2>q. QED BY <1>1, <1>2, <2>1, <2>2, SumOfParts
  <1>4. SumOf(ahead) = SumOf(rest)
    <2>1. DOMAIN ahead \subseteq DOMAIN rest
      <3> SUFFICES ASSUME NEW p \in DueAhead(MonthEnd) PROVE p \in U
        OBVIOUS
      <3>1. p \in Dues /\ due[p].on <= MonthEnd /\ Remaining(p) > 0
        BY DEF DueAhead
      <3>2. due[p].status # "paid" /\ due[p].in = None
        BY <1>e, <3>1
      <3>q. QED BY <3>1, <3>2 DEF MonthDues
    <2>2. \A o \in U : o \in Dues /\ due[o].on <= MonthEnd /\ Remaining(o) = due[o].outstanding
      BY <1>e, <1>c DEF MonthDues
    <2>3. \A o \in U : o \notin DueAhead(MonthEnd) => due[o].outstanding = 0
      BY <1>b, <2>2 DEF DueAhead
    <2>4. \A o \in DOMAIN rest : IF o \in DOMAIN ahead THEN rest[o] = ahead[o] ELSE rest[o] = 0
      BY <2>2, <2>3
    <2> HIDE DEF rest, ahead
    <2>q. QED BY <1>2, <2>1, <2>4, SumSkipsZeros
  <1>5. SumOf(rest) \in Nat /\ SumOf(paid) \in Nat
    <2>1. /\ IsFiniteSet(DOMAIN rest) /\ \A o \in DOMAIN rest : rest[o] \in Nat
          /\ IsFiniteSet(DOMAIN paid) /\ \A o \in DOMAIN paid : paid[o] \in Nat
      BY <1>b, <1>c, <1>d
    <2> HIDE DEF rest, paid
    <2>q. QED BY <2>1, SumNatural
  <1>q. QED BY <1>3, <1>4, <1>5

\* The items: what is ahead and what is covered already.
LEMMA ItemsSplit ==
    ASSUME IInv
    PROVE  /\ SumOf([i \in Open |-> item[i].amount]) =
                  SumOf([i \in ItemsAhead(MonthEnd) |-> item[i].amount - Covered(i)])
                  + SumOf(CoveredAll)
           /\ SumOf([i \in ItemsAhead(MonthEnd) |-> item[i].amount - Covered(i)]) \in Nat
  <1> DEFINE all == [i \in Open |-> item[i].amount]
             rest == [i \in Open |-> item[i].amount - Covered(i)]
             done == [i \in Open |-> Covered(i)]
             every == [i \in Items |-> Covered(i)]
             ahead == [i \in ItemsAhead(MonthEnd) |-> item[i].amount - Covered(i)]
  <1>a. \A i \in Items : /\ item[i] \in ItemType /\ Covered(i) \in Nat
                         /\ Covered(i) = CoveredIn(entry, i)
    BY Rows
  <1>b. \A i \in Items : /\ item[i].amount \in Nat /\ item[i].on \in 1 .. MonthEnd
                         /\ item[i].status \in ItemStates
    BY <1>a DEF ItemType
  <1>c. \A i \in Items : /\ Covered(i) <= item[i].amount
                         /\ Covered(i) > 0 => item[i].status = "planned"
                                              /\ item[i].kind # "expected_income"
    BY <1>a DEF IInv, PlansCovered
  <1>d. MonthEnd \in Nat /\ \A i \in Items : item[i].on <= MonthEnd
    BY <1>b, Rows
  <1>e. Open \subseteq Items /\ ItemsAhead(MonthEnd) \subseteq Open
    BY DEF Open, ItemsAhead
  <1>f. IsFiniteSet(Open)
    BY <1>e, Constants, FS_Subset
  <1>1. \A i \in Items : i \notin Open => Covered(i) = 0
    <2> SUFFICES ASSUME NEW i \in Items, Covered(i) > 0 PROVE i \in Open
      BY <1>a
    <2>1. item[i].status = "planned" /\ item[i].kind # "expected_income"
      BY <1>c
    <2>2. ASSUME ActiveOrder PROVE order.item # i
      <3>1. item[order.item].status \in {"committed", "settled"}
        BY <2>2 DEF ActiveOrder, IInv, OrderFits
      <3>q. QED BY <2>1, <3>1
    <2>q. QED BY <2>1, <2>2 DEF Open
  <1>2. \A i \in DOMAIN rest : rest[i] \in Nat /\ done[i] \in Nat
    BY <1>a, <1>b, <1>c, <1>e
  <1>3. Summands(rest) /\ Summands(done)
    BY <1>2, <1>f DEF Summands
  <1>4. SumOf(all) = SumOf(rest) + SumOf(done)
    <2>1. DOMAIN rest = Open /\ DOMAIN done = DOMAIN rest /\ DOMAIN all = DOMAIN rest
      OBVIOUS
    <2>2. \A i \in DOMAIN rest : all[i] = rest[i] + done[i]
      BY <1>a, <1>b, <1>e
    <2> HIDE DEF rest, done, all
    <2>q. QED BY <1>3, <2>1, <2>2, SumOfSums
  <1>5. SumOf(done) = SumOf(every)
    <2>1. Summands(every)
      BY <1>a, Constants DEF Summands
    <2>2. DOMAIN done \subseteq DOMAIN every
      BY <1>e
    <2>3. \A i \in DOMAIN every : IF i \in DOMAIN done THEN every[i] = done[i] ELSE every[i] = 0
      BY <1>1
    <2> HIDE DEF done, every
    <2>q. QED BY <2>1, <2>2, <2>3, SumSkipsZeros
  <1>6. SumOf(every) = SumOf(CoveredAll)
    BY LinkedIsCovered
  <1>7. SumOf(ahead) = SumOf(rest)
    <2>1. DOMAIN ahead \subseteq DOMAIN rest
      BY <1>e
    <2>2. \A i \in Open : i \notin ItemsAhead(MonthEnd) => item[i].amount - Covered(i) = 0
      <3> SUFFICES ASSUME NEW i \in Open, i \notin ItemsAhead(MonthEnd)
                   PROVE  item[i].amount - Covered(i) = 0
        OBVIOUS
      <3>1. i \in Items /\ item[i].on <= MonthEnd /\ item[i].amount \in Nat
            /\ Covered(i) \in Nat /\ Covered(i) <= item[i].amount
        BY <1>a, <1>b, <1>c, <1>d, <1>e
      <3>2. ~(item[i].amount > Covered(i))
        BY <3>1 DEF ItemsAhead
      <3>q. QED BY <3>1, <3>2
    <2>3. \A i \in DOMAIN rest : IF i \in DOMAIN ahead THEN rest[i] = ahead[i] ELSE rest[i] = 0
      BY <2>2
    <2> HIDE DEF rest, ahead
    <2>q. QED BY <1>3, <2>1, <2>3, SumSkipsZeros
  <1>8. SumOf(rest) \in Nat
    <2>1. IsFiniteSet(DOMAIN rest) /\ \A i \in DOMAIN rest : rest[i] \in Nat
      BY <1>2, <1>f
    <2> HIDE DEF rest
    <2>q. QED BY <2>1, SumNatural
  <1>q. QED BY <1>4, <1>5, <1>6, <1>7, <1>8

\* What is still to be paid: the order, the items ahead, the obligations ahead.
LEMMA EventsSplit ==
    ASSUME IInv, today <= MonthEnd
    PROVE  SumOf([v \in Events(MonthEnd) |-> v.amount]) =
               (IF ActiveOrder /\ ~order.debited THEN order.amount ELSE 0)
               + SumOf([i \in ItemsAhead(MonthEnd) |-> item[i].amount - Covered(i)])
               + SumOf([o \in DueAhead(MonthEnd) |-> Remaining(o)])
  <1> DEFINE OE == OrderEvents
             IE == ItemEvents(MonthEnd)
             DE == DueEvents(MonthEnd)
             all == [v \in Events(MonthEnd) |-> v.amount]
             plans1 == [v \in OE \cup IE |-> v.amount]
             oo == [v \in OE |-> v.amount]
             ii == [v \in IE |-> v.amount]
             dd == [v \in DE |-> v.amount]
             fi == [i \in ItemsAhead(MonthEnd) |-> item[i].amount - Covered(i)]
             fd == [o \in DueAhead(MonthEnd) |-> Remaining(o)]
             ni == [i \in ItemsAhead(MonthEnd) |-> ItemEvent(i)]
             nd == [o \in DueAhead(MonthEnd) |-> DueEvent(o)]
  <1>a. MonthEnd \in Int
    BY Rows
  <1>b. /\ IsFiniteSet(Events(MonthEnd)) /\ \A v \in Events(MonthEnd) : EventFits(v, MonthEnd)
        /\ IsFiniteSet(IE) /\ IsFiniteSet(DE) /\ IsFiniteSet(OE)
        /\ IsFiniteSet(ItemsAhead(MonthEnd)) /\ IsFiniteSet(DueAhead(MonthEnd))
    BY <1>a, EventsFit
  <1>c. /\ DE = {DueEvent(o) : o \in DueAhead(MonthEnd)}
        /\ IE = {ItemEvent(i) : i \in ItemsAhead(MonthEnd)}
        /\ OE = IF ActiveOrder /\ ~order.debited THEN {OrderEvent} ELSE {}
        /\ Events(MonthEnd) = OE \cup IE \cup DE
    BY EventsAre
  <1>d. \A v \in Events(MonthEnd) : v.amount \in Nat
    BY <1>b DEF EventFits
  <1>1. /\ \A v \in OE : v.kind = "committed_order"
        /\ \A v \in IE : v.kind = "planned_expense"
        /\ \A v \in DE : v.kind = "repayment"
    BY <1>c DEF OrderEvent, ItemEvent, DueEvent
  <1>2. OE \cap IE = {} /\ (OE \cup IE) \cap DE = {}
    BY <1>1
  <1>3. Summands(all) /\ Summands(plans1)
    <2>1. IsFiniteSet(OE \cup IE)
      BY <1>b, FS_Union
    <2>q. QED BY <1>b, <1>c, <1>d, <2>1 DEF Summands
  <1>4. SumOf(all) = SumOf(plans1) + SumOf(dd)
    <2>1. DOMAIN all = (OE \cup IE) \cup DE /\ DOMAIN plans1 = OE \cup IE /\ DOMAIN dd = DE
      BY <1>c
    <2>2. (\A v \in OE \cup IE : plans1[v] = all[v]) /\ (\A v \in DE : dd[v] = all[v])
      BY <1>c
    <2>3. PICK A, B : A = OE \cup IE /\ B = DE
      OBVIOUS
    <2> HIDE DEF all, plans1, dd, OE, IE, DE
    <2>q. QED BY <1>2, <1>3, <2>1, <2>2, <2>3, SumOfParts
  <1>5. SumOf(plans1) = SumOf(oo) + SumOf(ii)
    <2>1. DOMAIN plans1 = OE \cup IE /\ DOMAIN oo = OE /\ DOMAIN ii = IE
      OBVIOUS
    <2>2. (\A v \in OE : oo[v] = plans1[v]) /\ (\A v \in IE : ii[v] = plans1[v])
      OBVIOUS
    <2>3. PICK A, B : A = OE /\ B = IE
      OBVIOUS
    <2>4. A \cap B = {} /\ A \cup B = DOMAIN plans1 /\ DOMAIN oo = A /\ DOMAIN ii = B
      BY <1>2, <2>1, <2>3
    <2>5. (\A v \in A : oo[v] = plans1[v]) /\ (\A v \in B : ii[v] = plans1[v])
      BY <2>2, <2>3
    <2>6. Summands(plans1)
      BY <1>3
    <2> HIDE DEF plans1, oo, ii, OE, IE
    <2>q. QED BY <2>4, <2>5, <2>6, SumOfParts
  <1>6. SumOf(ii) = SumOf(fi)
    <2>1. DOMAIN fi = ItemsAhead(MonthEnd) /\ DOMAIN ii = {ni[i] : i \in DOMAIN fi}
      BY <1>c
    <2>2. \A i \in DOMAIN fi : ni[i].of = i /\ ni[i].amount = fi[i]
      BY DEF ItemEvent
    <2>3. \A i, j \in DOMAIN fi : ni[i] = ni[j] => i = j
      BY <2>2
    <2>4. \A i \in DOMAIN fi : ii[ni[i]] = fi[i]
      <3> TAKE i \in DOMAIN fi
      <3>1. ni[i] \in IE
        BY <1>c
      <3>q. QED BY <2>2, <3>1
    <2>5. \A i \in DOMAIN fi : fi[i] \in Nat
      <3> TAKE i \in DOMAIN fi
      <3>1. ni[i] \in Events(MonthEnd)
        BY <1>c
      <3>q. QED BY <1>d, <2>2, <3>1
    <2>6. IsFiniteSet(DOMAIN fi)
      BY <1>b
    <2> HIDE DEF ii, fi, ni
    <2>q. QED BY <2>1, <2>3, <2>4, <2>5, <2>6, SumRenamed
  <1>7. SumOf(dd) = SumOf(fd)
    <2>1. DOMAIN fd = DueAhead(MonthEnd) /\ DOMAIN dd = {nd[o] : o \in DOMAIN fd}
      BY <1>c
    <2>2. \A o \in DOMAIN fd : nd[o].of = o /\ nd[o].amount = fd[o]
      BY DEF DueEvent
    <2>3. \A o, p \in DOMAIN fd : nd[o] = nd[p] => o = p
      BY <2>2
    <2>4. \A o \in DOMAIN fd : dd[nd[o]] = fd[o]
      <3> TAKE o \in DOMAIN fd
      <3>1. nd[o] \in DE
        BY <1>c
      <3>q. QED BY <2>2, <3>1
    <2>5. \A o \in DOMAIN fd : fd[o] \in Nat
      <3> TAKE o \in DOMAIN fd
      <3>1. nd[o] \in Events(MonthEnd)
        BY <1>c
      <3>q. QED BY <1>d, <2>2, <3>1
    <2>6. IsFiniteSet(DOMAIN fd)
      BY <1>b
    <2> HIDE DEF dd, fd, nd
    <2>q. QED BY <2>1, <2>3, <2>4, <2>5, <2>6, SumRenamed
  <1>8. SumOf(oo) = IF ActiveOrder /\ ~order.debited THEN order.amount ELSE 0
    <2>1. CASE ~(ActiveOrder /\ ~order.debited)
      <3>1. DOMAIN oo = {}
        BY <1>c, <2>1
      <3> HIDE DEF oo
      <3>q. QED BY <2>1, <3>1, SumEmpty
    <2>2. CASE ActiveOrder /\ ~order.debited
      <3>1. DOMAIN oo = {OrderEvent} /\ oo[OrderEvent] = order.amount
        BY <1>c, <2>2 DEF OrderEvent
      <3>2. Summands(oo)
        BY <1>b, <1>c, <1>d DEF Summands
      <3> HIDE DEF oo
      <3>3. SumOf(oo) = oo[OrderEvent]
        BY <3>1, <3>2, SumOfOne
      <3>q. QED BY <2>2, <3>1, <3>3
    <2>q. QED BY <2>1, <2>2
  <1> HIDE DEF all, plans1, oo, ii, dd, fi, fd
  <1>9. SumOf(all) = (SumOf(oo) + SumOf(ii)) + SumOf(dd)
    BY <1>4, <1>5
  <1>q. QED BY <1>6, <1>7, <1>8, <1>9 DEF all, fi, fd

\* What was spent outside the plan, of all that was spent.
LEMMA UnforeseenIs ==
    ASSUME IInv
    PROVE  /\ Unforeseen = SumOf([e \in Seen |-> entry[e].amount]) - SumOf(CoveredAll)
                           - (IF order.debited THEN order.amount ELSE 0)
                           - SumOf([o \in PaidDues |-> due[o].outstanding])
           /\ SumOf([e \in Seen |-> entry[e].amount]) \in Int
  <1> DEFINE all == [e \in Seen |-> entry[e].amount]
             part == [e \in Seen |-> entry[e].covered]
             rest == [e \in Seen |-> entry[e].amount - entry[e].covered]
             paid == [o \in PaidDues |-> due[o].outstanding]
  <1>a. \A e \in Entries : entry[e] \in EntryType /\ EntryFits(entry[e])
    BY Rows
  <1>b. \A e \in Entries : entry[e].amount \in Int /\ entry[e].covered \in Nat
    BY <1>a DEF EntryType
  <1>c. Seen \subseteq Entries /\ IsFiniteSet(Seen)
    BY Constants, FS_Subset DEF Seen
  <1>1. Summands(all) /\ Summands(part) /\ Summands(rest)
    BY <1>b, <1>c DEF Summands
  <1>2. SumOf(all) = SumOf(rest) + SumOf(part)
    <2>1. DOMAIN rest = Seen /\ DOMAIN part = DOMAIN rest /\ DOMAIN all = DOMAIN rest
      OBVIOUS
    <2>2. \A e \in DOMAIN rest : all[e] = rest[e] + part[e]
      BY <1>b, <1>c
    <2> HIDE DEF rest, part, all
    <2>q. QED BY <1>1, <2>1, <2>2, SumOfSums
  <1>3. SumOf(part) = SumOf(CoveredAll)
    <2>1. DOMAIN part \subseteq DOMAIN CoveredAll /\ DOMAIN CoveredAll = Entries
      BY <1>c DEF CoveredAll
    <2>2. \A e \in Entries : e \notin Seen => entry[e].covered = 0
      BY <1>a DEF EntryFits, Seen, Visible, IsPosted
    <2>3. \A e \in DOMAIN CoveredAll :
              IF e \in DOMAIN part THEN CoveredAll[e] = part[e] ELSE CoveredAll[e] = 0
      BY <2>1, <2>2 DEF CoveredAll
    <2> HIDE DEF part
    <2>4. Summands(CoveredAll)
      BY LinkedIsCovered
    <2>q. QED BY <2>1, <2>3, <2>4, SumSkipsZeros
  <1>4. SumOf(all) \in Int /\ SumOf(rest) \in Int
    <2> HIDE DEF all, rest
    <2>q. QED BY <1>1, SumType
  <1>5. SumOf(CoveredAll) \in Nat /\ SumOf(paid) \in Nat
    BY LinkedIsCovered, DuesSplit
  <1>6. order.amount \in Nat
    BY Rows DEF OrderType
  <1>7. Unforeseen = SumOf(rest) - (IF order.debited THEN order.amount ELSE 0) - SumOf(paid)
    BY SumIs DEF Unforeseen, PaidDues
  <1> HIDE DEF all, part, rest, paid
  <1>8. Unforeseen = SumOf(all) - SumOf(CoveredAll)
                     - (IF order.debited THEN order.amount ELSE 0) - SumOf(paid)
    BY <1>2, <1>3, <1>4, <1>5, <1>6, <1>7
  <1>q. QED BY <1>4, <1>8 DEF all, paid

LEMMA ForeseenIs == IInv => Foreseen
  <1> SUFFICES ASSUME IInv, Known
               PROVE  Days("month", FALSE)[MonthEnd].cash + Unforeseen = Fixed
    BY DEF Foreseen
  <1>a. today <= MonthEnd /\ Last("month") = MonthEnd /\ "month" \in Views
        /\ today \in Int /\ MonthEnd \in Int /\ Opening \in Int /\ order.amount \in Nat
    BY ViewIs, Rows, Constants DEF Known, Views, OrderType
  <1>1. DayIs("month", Days("month", FALSE)[MonthEnd], MonthEnd)
    <2>1. MonthEnd \in today - 1 .. Last("month")
      BY <1>a
    <2>2. \A d \in today - 1 .. Last("month") : DayIs("month", Days("month", FALSE)[d], d)
      BY <1>a, DaysAre
    <2>q. QED BY <2>1, <2>2
  <1>2. NoneUnknown("month", MonthEnd)
    BY <1>a DEF NoneUnknown, UnknownDays
  <1>3. Days("month", FALSE)[MonthEnd].cash = LeftOn("month", MonthEnd)
    BY <1>1, <1>2 DEF DayIs
  <1>4. PICK cash : cash = Days("month", FALSE)[MonthEnd].cash
    OBVIOUS
  <1>5. PICK all \in Int : all = SumOf([e \in Seen |-> entry[e].amount])
    BY UnforeseenIs
  <1>6. PICK covered \in Nat : covered = SumOf(CoveredAll)
    BY LinkedIsCovered
  <1>7. PICK paid \in Nat : paid = SumOf([o \in PaidDues |-> due[o].outstanding])
    BY DuesSplit
  <1>8. PICK ahead \in Nat : ahead = SumOf([o \in DueAhead(MonthEnd) |-> Remaining(o)])
    BY DuesSplit
  <1>9. PICK left \in Nat :
            left = SumOf([i \in ItemsAhead(MonthEnd) |-> item[i].amount - Covered(i)])
    BY ItemsSplit
  <1>10. PICK events : events = SumOf([v \in Events(MonthEnd) |-> v.amount])
    OBVIOUS
  <1>11. events = (IF ActiveOrder /\ ~order.debited THEN order.amount ELSE 0) + left + ahead
    BY <1>a, <1>8, <1>9, <1>10, EventsSplit
  <1>12. cash = Cash - events
    <2>1. UpTo(Events(MonthEnd), MonthEnd) = events
      BY <1>a, <1>10, UpToIs
    <2>q. QED BY <1>a, <1>3, <1>4, <2>1 DEF LeftOn
  <1>13. Cash = Opening - all
    <2>1. CashAgrees
      BY CashIs
    <2>q. QED BY <1>5, <2>1, SumIs DEF CashAgrees
  <1>14. Unforeseen = all - covered - (IF order.debited THEN order.amount ELSE 0) - paid
    BY <1>5, <1>6, <1>7, UnforeseenIs
  <1>15. SumOf([i \in Open |-> item[i].amount]) = left + covered
    BY <1>6, <1>9, ItemsSplit
  <1>16. SumOf([o \in MonthDues |-> due[o].outstanding]) = ahead + paid
    BY <1>7, <1>8, DuesSplit
  <1>17. Fixed = Opening - OrderPart - (left + covered) - (ahead + paid)
    BY <1>15, <1>16 DEF Fixed
  <1>18. OrderPart = (IF ActiveOrder /\ ~order.debited THEN order.amount ELSE 0)
                     + (IF order.debited THEN order.amount ELSE 0)
    BY <1>a DEF OrderPart, ActiveOrder
  <1>19. PICK a \in Nat : a = IF ActiveOrder /\ ~order.debited THEN order.amount ELSE 0
    BY <1>a
  <1>20. PICK b \in Nat : b = IF order.debited THEN order.amount ELSE 0
    BY <1>a
  <1>21. events = a + left + ahead
    BY <1>11, <1>19
  <1>22. Unforeseen = all - covered - b - paid
    BY <1>14, <1>20
  <1>23. Fixed = Opening - (a + b) - (left + covered) - (ahead + paid)
    BY <1>17, <1>18, <1>19, <1>20
  <1>24. cash = Opening - all - (a + left + ahead)
    BY <1>12, <1>13, <1>21
  <1>25. cash + Unforeseen = Fixed
    BY <1>a, <1>22, <1>23, <1>24
  <1>q. QED BY <1>4, <1>25

\* The plan of the month does not change as long as it stays.
LEMMA FixedKept ==
    ASSUME IInv, IInv', [Next]_vars, SamePlan
    PROVE  Fixed' = Fixed
  <1> USE DEF bank, plans
  <1>a. /\ item \in [Items -> ItemType] /\ order \in OrderType /\ due \in [Dues -> DueType]
        /\ OrderFits(order, item)
    BY Rows DEF IInv
  <1>b. /\ order'.state = "closed" => order' = order
        /\ \A i \in Items : item'[i] = item[i] \/ item'[i].status = "settled"
    BY DEF SamePlan
  <1>1. /\ \A o \in Dues : /\ due'[o].on = due[o].on /\ due'[o].in = due[o].in
                           /\ due'[o].outstanding = due[o].outstanding
    <2>1. CASE due' = due
      BY <2>1
    <2>2. CASE \E o \in Dues, e \in Entries \cup {None} : MarkPaid(o, e)
      BY <1>a, <2>2 DEF MarkPaid, DueType
    <2>3. due' = due \/ \E o \in Dues, e \in Entries \cup {None} : MarkPaid(o, e)
      BY DEF Next, vars, Tomorrow, Post, Deliver, Unlink, PayOrder, Link, Observe, TakeSnapshot,
             Capture, ChangeItem, CancelItem, PlaceOrder, PaymentUnknown, CloseOrder
    <2>q. QED BY <2>1, <2>2, <2>3
  <1>2. MonthDues' = MonthDues
    BY <1>1 DEF MonthDues
  <1>3. [o \in MonthDues |-> due[o].outstanding]' = [o \in MonthDues |-> due[o].outstanding]
    <2>1. MonthDues \subseteq Dues
      BY DEF MonthDues
    <2>2. \A o \in MonthDues : due'[o].outstanding = due[o].outstanding
      BY <1>1, <2>1
    <2>q. QED BY <1>2, <2>2
  <1>4. \/ item' = item /\ order' = order
        \/ PaymentUnknown
        \/ \E e \in Entries : PayOrder(e)
    <2>1. CASE item' = item /\ order' = order
      BY <2>1
    <2>2. CASE PaymentUnknown \/ \E e \in Entries : PayOrder(e)
      BY <2>2
    <2>3. CASE CloseOrder
      <3>1. order'.state = "closed" /\ order.state # "closed"
        BY <2>3 DEF CloseOrder, NoOrder
      <3>q. QED BY <1>b, <3>1
    <2>4. ASSUME NEW i \in Items, NEW price \in Prices, PlaceOrder(i, price)
          PROVE  FALSE
      <3>1. item[i].status = "planned" /\ item'[i].status = "committed"
        BY <1>a, <2>4 DEF PlaceOrder, Rewritable, ItemType
      <3>q. QED BY <1>b, <3>1
    <2>5. ASSUME NEW i \in Items, CancelItem(i)
          PROVE  FALSE
      <3>1. item[i].status = "planned" /\ item'[i].status = "cancelled"
        BY <1>a, <2>5 DEF CancelItem, Rewritable, NoItem
      <3>q. QED BY <1>b, <3>1
    <2>6. ASSUME NEW i \in Items, NEW kind, NEW day, NEW amount,
                 ChangeItem(i, kind, day, amount)
          PROVE  item' = item /\ order' = order
      <3>1. item'[i].status = "planned"
        BY <1>a, <2>6 DEF ChangeItem
      <3>2. item'[i] = item[i]
        BY <1>b, <3>1
      <3>q. QED BY <1>a, <2>6, <3>2 DEF ChangeItem
    <2>7. CASE Tomorrow \/ Observe \/ TakeSnapshot \/ (\E s \in inFlight : Capture(s))
               \/ (\E o \in Dues, e \in Entries \cup {None} : MarkPaid(o, e))
               \/ UNCHANGED vars
      BY <2>7 DEF Tomorrow, Observe, TakeSnapshot, Capture, MarkPaid, vars
    <2>8. ASSUME NEW e \in Entries,
                 \/ \E amount \in Posted : Post(e, amount)
                 \/ Deliver(e) \/ Unlink(e)
                 \/ \E i \in Items : \E covered \in 1 .. entry[e].amount : Link(e, i, covered)
          PROVE  item' = item /\ order' = order
      BY <2>8 DEF Post, Deliver, Unlink, Link
    <2>q. QED BY <2>1, <2>2, <2>3, <2>4, <2>5, <2>6, <2>7, <2>8 DEF Next
  <1>5. Open' = Open /\ OrderPart' = OrderPart
        /\ \A i \in Open : item'[i].amount = item[i].amount
    <2>1. CASE item' = item /\ order' = order
      <3>1. ActiveOrder' = ActiveOrder
        BY <2>1 DEF ActiveOrder
      <3>q. QED BY <2>1, <3>1 DEF Open, OrderPart
    <2>2. CASE PaymentUnknown
      <3>1. item' = item /\ order'.item = order.item /\ order'.amount = order.amount
        BY <1>a, <2>2 DEF PaymentUnknown, OrderType
      <3>2. ActiveOrder /\ ActiveOrder'
        BY <1>a, <2>2 DEF PaymentUnknown, OrderType, ActiveOrder
      <3>q. QED BY <3>1, <3>2 DEF Open, OrderPart
    <2>3. ASSUME NEW e \in Entries, PayOrder(e)
          PROVE  Open' = Open /\ OrderPart' = OrderPart
                 /\ \A i \in Open : item'[i].amount = item[i].amount
      <3>1. order'.item = order.item /\ order'.amount = order.amount
        BY <1>a, <2>3 DEF PayOrder, OrderType
      <3>2. ActiveOrder /\ ActiveOrder'
        BY <1>a, <2>3 DEF PayOrder, OrderType, ActiveOrder
      <3>3. \A i \in Items : i # order.item => item'[i] = item[i]
        BY <1>a, <2>3 DEF PayOrder
      <3>4. Open = {i \in Items : /\ item[i].status \in {"planned", "committed"}
                                  /\ item[i].kind # "expected_income" /\ order.item # i}
        BY <3>2 DEF Open
      <3>5. Open' = {i \in Items : /\ item'[i].status \in {"planned", "committed"}
                                   /\ item'[i].kind # "expected_income" /\ order.item # i}
        BY <3>1, <3>2 DEF Open
      <3>6. Open' = Open
        BY <3>3, <3>4, <3>5
      <3>7. \A i \in Open : item'[i].amount = item[i].amount
        BY <3>3, <3>4
      <3>q. QED BY <3>1, <3>2, <3>6, <3>7 DEF OrderPart
    <2>q. QED BY <1>4, <2>1, <2>2, <2>3
  <1>6. [i \in Open |-> item[i].amount]' = [i \in Open |-> item[i].amount]
    BY <1>5
  <1>q. QED BY <1>3, <1>5, <1>6 DEF Fixed

\* The end of the month is foreseen once: whatever the days, snapshots, payments,
\* links and settlements between, an amount moves from the plan to the facts and
\* is neither lost nor counted twice, for every month and every plan.
THEOREM ForeseenOnceAlways == Spec => ForeseenOnce
  <1>1. IInv => Foreseen
    BY ForeseenIs
  <1>2. IInv /\ IInv' /\ Foreseen /\ Foreseen' /\ [Next]_vars =>
            [(SamePlan /\ Known /\ Known') =>
                 Days("month", FALSE)[MonthEnd].cash' + Unforeseen'
                     = Days("month", FALSE)[MonthEnd].cash + Unforeseen]_vars
    <2> SUFFICES ASSUME IInv, IInv', Foreseen, Foreseen', [Next]_vars, SamePlan, Known, Known'
                 PROVE  Days("month", FALSE)[MonthEnd].cash' + Unforeseen'
                            = Days("month", FALSE)[MonthEnd].cash + Unforeseen
      OBVIOUS
    <2>1. Fixed' = Fixed
      BY FixedKept
    <2>2. Days("month", FALSE)[MonthEnd].cash + Unforeseen = Fixed
      BY DEF Foreseen
    <2>3. Days("month", FALSE)[MonthEnd].cash' + Unforeseen' = Fixed'
      BY DEF Foreseen
    <2>q. QED BY <2>1, <2>2, <2>3
  <1>q. QED BY Invariance, <1>1, <1>2, PTL DEF Spec, ForeseenOnce
==============================================================================
