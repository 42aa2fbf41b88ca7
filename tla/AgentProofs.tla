----------------------------- MODULE AgentProofs -----------------------------
(***************************************************************************)
(* Proofs about the planning assistants, for any owners, runs, costs and   *)
(* bounds: the budget of the model is never overdrawn, an owner has one    *)
(* run at a time, and what is completed or saved rests on what was paid    *)
(* for and read; and about the assistant of one plan: one run at a time,   *)
(* an order that stays watched through the crash of the run that did, and  *)
(* a branch that stays stopped.                                            *)
(***************************************************************************)
EXTENDS ConsumerAgent, AgentRun, FiniteSetTheorems, SequenceTheorems, TLAPS

------------------------------------------------------------------------------
(* The inductive invariant.                                                *)

\* What a process knows of the call it makes: while the call is out or its
\* settlement is on its way it is the run's last one and reserved, and once
\* it is settled the run owes nothing for it.
CallKnown(r) ==
    /\ proc[r].at = "reserve" => run[r].calls < Calls /\ ~proc[r].answered
    /\ proc[r].at = "sent" => ~proc[r].answered
    /\ proc[r].at = "sent" \/ proc[r].answered =>
          /\ proc[r].pending # 0 /\ proc[r].pending = run[r].calls
          /\ usage[<<r, run[r].calls>>] = "reserved"
    /\ proc[r].at # "over" /\ proc[r].pending = 0 /\ run[r].calls > 0 =>
          usage[<<r, run[r].calls>>] = "settled"
    /\ proc[r].at = "complete" => proc[r].pending = 0

\* A run that has not been started has no process, one that has completed
\* has none any more, and one that saves has read what it saves.
ProcessKnown(r) ==
    /\ run[r].state = "none" => run[r].calls = 0 /\ proc[r].at = "over" /\ ~proc[r].answered
    /\ run[r].state # "none" => run[r].owner \in Owners
    /\ run[r].state = "COMPLETED" => proc[r].at = "over"
    /\ proc[r].at = "save" /\ run[r].bound => proc[r].basis # 0

\* A draft that names versions names those its run had read, and whatever it
\* is assessed on was so then or later.
DraftKnown(d) ==
    /\ draft[d].run # None =>
          /\ run[draft[d].run].state # "none"
          /\ draft[d].basis # 0 <=> run[draft[d].run].bound
    /\ draft[d].basis # 0 =>
          /\ draft[d].owner \in Owners
          /\ draft[d].basis <= version[draft[d].owner]
          /\ \A v \in draft[d].facts : draft[d].basis <= v /\ v <= version[draft[d].owner]
          /\ Saved(d) => draft[d].facts # {}

IInv ==
    /\ TypeOK /\ OneRunning /\ CallsPaid /\ CompletedIsPaid
    /\ \A r \in Runs : CallKnown(r) /\ ProcessKnown(r)
    /\ \A d \in Drafts : DraftKnown(d)

LEMMA ZeroIn == 0 \in 0..Calls /\ 0 \in 0..Retries /\ 0 \in 0..MaxVersion
  BY ConsumerAgentAssumption

------------------------------------------------------------------------------
(* Counting calls.                                                         *)

LEMMA FiniteCalls == IsFiniteSet(CallIds)
  <1>1. IsFiniteSet(Runs) /\ IsFiniteSet(1..Calls)
    BY ConsumerAgentAssumption, FS_Interval
  <1>q. QED BY <1>1, FS_Product DEF CallIds

LEMMA Counts ==
    /\ IsFiniteSet(Unsettled) /\ Cardinality(Unsettled) \in Nat
    /\ IsFiniteSet(Settled) /\ Cardinality(Settled) \in Nat
  <1>1. Unsettled \subseteq CallIds /\ Settled \subseteq CallIds
    BY DEF Unsettled, Settled
  <1>2. IsFiniteSet(Unsettled) /\ IsFiniteSet(Settled)
    BY <1>1, FiniteCalls, FS_Subset
  <1>q. QED BY <1>2, FS_CardinalityType

\* A call that is reserved adds one to those that are not settled.
LEMMA ReservedCounts ==
    ASSUME usage \in [CallIds -> {"none", "reserved", "settled"}],
           NEW c \in CallIds, usage[c] = "none",
           usage' = [usage EXCEPT ![c] = "reserved"]
    PROVE  /\ Cardinality(Unsettled)' = Cardinality(Unsettled) + 1
           /\ Cardinality(Settled)' = Cardinality(Settled)
  <1>1. Unsettled' = Unsettled \cup {c} /\ c \notin Unsettled
    BY DEF Unsettled
  <1>2. Settled' = Settled
    BY DEF Settled
  <1>3. Cardinality(Unsettled \cup {c}) = Cardinality(Unsettled) + 1
    BY <1>1, Counts, FS_AddElement
  <1>q. QED BY <1>1, <1>2, <1>3

\* A call that is settled is one less of the others.
LEMMA SettledCounts ==
    ASSUME usage \in [CallIds -> {"none", "reserved", "settled"}],
           NEW c \in CallIds, usage[c] = "reserved",
           usage' = [usage EXCEPT ![c] = "settled"]
    PROVE  /\ Cardinality(Unsettled)' = Cardinality(Unsettled) - 1
           /\ Cardinality(Unsettled) >= 1
           /\ Cardinality(Settled)' = Cardinality(Settled) + 1
  <1>1. Unsettled' = Unsettled \ {c} /\ c \in Unsettled
    BY DEF Unsettled
  <1>2. Settled' = Settled \cup {c} /\ c \notin Settled
    BY DEF Settled
  <1>3. Cardinality(Unsettled \ {c}) = Cardinality(Unsettled) - 1
    BY <1>1, Counts, FS_RemoveElement
  <1>4. Cardinality(Settled \cup {c}) = Cardinality(Settled) + 1
    BY <1>2, Counts, FS_AddElement
  <1>5. Cardinality(Unsettled \ {c}) \in Nat
    BY Counts, FS_RemoveElement, FS_CardinalityType
  <1>q. QED BY <1>1, <1>2, <1>3, <1>4, <1>5, Counts

------------------------------------------------------------------------------
(* The initial states.                                                     *)

LEMMA NothingCounted ==
    ASSUME usage = [c \in CallIds |-> "none"]
    PROVE  Cardinality(Unsettled) = 0 /\ Cardinality(Settled) = 0
  <1>1. Unsettled = {} /\ Settled = {}
    BY DEF Unsettled, Settled
  <1>q. QED BY <1>1, FS_EmptySet

LEMMA InitIInv == Init => IInv
  <1> SUFFICES ASSUME Init PROVE IInv
    OBVIOUS
  <1> USE ConsumerAgentAssumption
  <1>1. TypeOK
    <2>1. run \in [Runs -> Rows]
      BY DEF Init, Rows
    <2>2. proc \in [Runs -> Processes]
      <3>1. Process("over", 0, FALSE) \in Processes
        BY ZeroIn DEF Process, Processes
      <3>q. QED BY <3>1 DEF Init
    <2>3. 1 \in Versions
      BY DEF Versions
    <2>4. usage \in [CallIds -> {"none", "reserved", "settled"}]
          /\ budget \in [spent : Nat, reserved : Nat]
      BY DEF Init
    <2>5. version \in [Owners -> Versions]
      BY <2>3 DEF Init
    <2>6. draft \in [Drafts -> DraftRows]
      <3>1. NoDraft \in DraftRows
        BY ZeroIn DEF NoDraft, DraftRows
      <3>q. QED BY <3>1 DEF Init
    <2>q. QED BY <2>1, <2>2, <2>4, <2>5, <2>6 DEF TypeOK
  <1>2. OneRunning /\ CompletedIsPaid
    BY DEF Init, OneRunning, CompletedIsPaid
  <1>3. CallsPaid
    <2>1. \A c \in CallIds : c[2] > 0 /\ c[2] \in Nat /\ c[1] \in Runs
      BY DEF CallIds
    <2>2. \A c \in CallIds : usage[c] # "none" <=> c[2] <= run[c[1]].calls
      BY <2>1 DEF Init
    <2>3. Cardinality(Unsettled) = 0 /\ Cardinality(Settled) = 0
      BY NothingCounted DEF Init
    <2>4. budget.reserved = 0 /\ budget.spent = 0
      BY DEF Init
    <2>5. MaxCost * 0 = 0
      OBVIOUS
    <2>q. QED BY <2>2, <2>3, <2>4, <2>5 DEF CallsPaid
  <1>4. \A d \in Drafts : DraftKnown(d)
    BY DEF Init, DraftKnown, NoDraft
  <1>5. \A r \in Runs : CallKnown(r) /\ ProcessKnown(r)
    BY DEF Init, CallKnown, ProcessKnown, Process
  <1>q. QED BY <1>1, <1>2, <1>3, <1>4, <1>5 DEF IInv

------------------------------------------------------------------------------
(* What most steps leave alone.                                            *)

\* A step that changes no row's calls and no call keeps the books.
LEMMA BooksKept ==
    ASSUME IInv, UNCHANGED <<budget, usage>>,
           \A r \in Runs : run'[r].calls = run[r].calls
    PROVE  CallsPaid'
  <1>1. \A c \in CallIds : c[1] \in Runs
    BY DEF CallIds
  <1>2. Unsettled' = Unsettled /\ Settled' = Settled
    BY DEF Unsettled, Settled
  <1>q. QED BY <1>1, <1>2 DEF IInv, CallsPaid

\* A step after which the same runs are about a period and started, and no
\* version is lower, keeps what is known of the drafts.
LEMMA DraftsKept ==
    ASSUME IInv, UNCHANGED draft,
           \A r \in Runs : run[r].state # "none" =>
               run'[r].bound = run[r].bound /\ run'[r].state # "none",
           \A o \in Owners : version'[o] \in Versions /\ version'[o] >= version[o]
    PROVE  \A d \in Drafts : DraftKnown(d)'
  <1> SUFFICES ASSUME NEW d \in Drafts PROVE DraftKnown(d)'
    OBVIOUS
  <1>1. draft[d] \in DraftRows /\ DraftKnown(d)
    BY DEF IInv, TypeOK
  <1>2. draft[d].run # None => draft[d].run \in Runs
    BY <1>1 DEF DraftRows
  <1>3. draft[d].basis \in Int /\ \A v \in draft[d].facts : v \in Int
    BY <1>1 DEF DraftRows, Versions
  <1>4. \A o \in Owners : version[o] \in Int /\ version'[o] \in Int
    BY DEF IInv, TypeOK, Versions
  <1>5. draft[d].run # None =>
           /\ run'[draft[d].run].state # "none"
           /\ draft[d].basis # 0 <=> run'[draft[d].run].bound
    BY <1>1, <1>2 DEF DraftKnown
  <1>6. draft[d].basis # 0 =>
           /\ draft[d].owner \in Owners
           /\ draft[d].basis <= version'[draft[d].owner]
           /\ \A v \in draft[d].facts : draft[d].basis <= v /\ v <= version'[draft[d].owner]
           /\ Saved(d) => draft[d].facts # {}
    BY <1>1, <1>3, <1>4 DEF DraftKnown
  <1>q. QED BY <1>5, <1>6 DEF DraftKnown, Saved

\* What is there already is not lower.
LEMMA VersionsKept ==
    ASSUME IInv, UNCHANGED version
    PROVE  \A o \in Owners : version'[o] \in Versions /\ version'[o] >= version[o]
  BY DEF IInv, TypeOK, Versions

\* A step that starts no run, and completes none.
LEMMA RunsKept ==
    ASSUME IInv,
           \A r \in Runs :
               /\ run'[r].owner = run[r].owner
               /\ run'[r].state = "RUNNING" => run[r].state = "RUNNING"
    PROVE  OneRunning'
  BY DEF IInv, OneRunning

\* A run that is ended keeps all but its state and its deadline.
LEMMA EndedRow ==
    ASSUME NEW row \in Rows, NEW state \in {"COMPLETED", "FAILED", "CANCELLED"}
    PROVE  /\ Ended(row, state) \in Rows
           /\ Ended(row, state).owner = row.owner
           /\ Ended(row, state).bound = row.bound
           /\ Ended(row, state).calls = row.calls
           /\ Ended(row, state).state \in {row.state, state}
           /\ Ended(row, state).state # "RUNNING"
           /\ row.state # "RUNNING" => Ended(row, state).state = row.state
           /\ row.state = "none" <=> Ended(row, state).state = "none"
  BY DEF Ended, Rows

------------------------------------------------------------------------------
(* One lemma for each action.                                              *)

LEMMA CheckBeforeCallKeeps ==
    ASSUME IInv, NEW r \in Runs, CheckBeforeCall(r)
    PROVE  IInv'
  <1> USE ConsumerAgentAssumption
  <1>1. TypeOK'
    BY DEF IInv, TypeOK, Processes, CheckBeforeCall, Active
  <1>2. UNCHANGED <<run, budget, usage, version, draft>>
    BY DEF CheckBeforeCall
  <1>3. OneRunning' /\ CompletedIsPaid'
    BY <1>2 DEF IInv, OneRunning, CompletedIsPaid
  <1>4. CallsPaid' /\ \A d \in Drafts : DraftKnown(d)'
    BY <1>2, BooksKept, DraftsKept, VersionsKept
  <1>5. \A q \in Runs : CallKnown(q)' /\ ProcessKnown(q)'
    <2>1. \A q \in Runs \ {r} : proc'[q] = proc[q]
      BY DEF IInv, TypeOK, CheckBeforeCall
    <2>2. \A q \in Runs \ {r} : CallKnown(q)' /\ ProcessKnown(q)'
      BY <1>2, <2>1 DEF IInv, CallKnown, ProcessKnown
    <2>3. CallKnown(r)' /\ ProcessKnown(r)'
      BY <1>2 DEF IInv, TypeOK, Processes, Rows, CallKnown, ProcessKnown, CheckBeforeCall, Active
    <2>q. QED BY <2>2, <2>3
  <1>q. QED BY <1>1, <1>3, <1>4, <1>5 DEF IInv

LEMMA RefusedKeeps ==
    ASSUME IInv, NEW r \in Runs, Refused(r)
    PROVE  IInv'
  <1> USE ConsumerAgentAssumption
  <1>1. TypeOK'
    BY DEF IInv, TypeOK, Processes, Refused
  <1>2. UNCHANGED <<run, budget, usage, version, draft>>
    BY DEF Refused
  <1>3. OneRunning' /\ CompletedIsPaid'
    BY <1>2 DEF IInv, OneRunning, CompletedIsPaid
  <1>4. CallsPaid' /\ \A d \in Drafts : DraftKnown(d)'
    BY <1>2, BooksKept, DraftsKept, VersionsKept
  <1>5. \A q \in Runs : CallKnown(q)' /\ ProcessKnown(q)'
    <2>1. \A q \in Runs \ {r} : proc'[q] = proc[q]
      BY DEF IInv, TypeOK, Refused
    <2>2. \A q \in Runs \ {r} : CallKnown(q)' /\ ProcessKnown(q)'
      BY <1>2, <2>1 DEF IInv, CallKnown, ProcessKnown
    <2>3. CallKnown(r)' /\ ProcessKnown(r)'
      BY <1>2 DEF IInv, TypeOK, Processes, Rows, CallKnown, ProcessKnown, Refused
    <2>q. QED BY <2>2, <2>3
  <1>q. QED BY <1>1, <1>3, <1>4, <1>5 DEF IInv

LEMMA AnsweredKeeps ==
    ASSUME IInv, NEW r \in Runs, NEW told \in BOOLEAN, NEW ok \in BOOLEAN,
           NEW next \in {"tools", "finish"}, Answered(r, told, ok, next)
    PROVE  IInv'
  <1> USE ConsumerAgentAssumption
  <1>1. TypeOK'
    <2> DEFINE at == IF ok THEN next ELSE "finish"
               failed == proc[r].failed \/ ~ok
    <2>1. proc' = [proc EXCEPT ![r].at = at, ![r].retry = 0, ![r].answered = told,
                               ![r].failed = failed]
      BY DEF Answered
    <2>2. at \in {"tools", "finish"}
      OBVIOUS
    <2>3. failed \in BOOLEAN
      OBVIOUS
    <2>4. proc \in [Runs -> Processes]
      BY DEF IInv, TypeOK
    <2> HIDE DEF at, failed
    <2>5. proc' \in [Runs -> Processes]
      <3>1. [proc[r] EXCEPT !.at = at, !.retry = 0, !.answered = told, !.failed = failed]
                \in Processes
        BY <2>2, <2>3, <2>4, ZeroIn DEF Processes
      <3>2. proc' = [proc EXCEPT ![r] =
                        [proc[r] EXCEPT !.at = at, !.retry = 0, !.answered = told, !.failed = failed]]
        BY <2>1, <2>4
      <3>q. QED BY <2>4, <3>1, <3>2
    <2>q. QED BY <2>5 DEF IInv, TypeOK, Answered
  <1>2. UNCHANGED <<run, budget, usage, version, draft>>
    BY DEF Answered
  <1>3. OneRunning' /\ CompletedIsPaid'
    BY <1>2 DEF IInv, OneRunning, CompletedIsPaid
  <1>4. CallsPaid' /\ \A d \in Drafts : DraftKnown(d)'
    BY <1>2, BooksKept, DraftsKept, VersionsKept
  <1>5. \A q \in Runs : CallKnown(q)' /\ ProcessKnown(q)'
    <2>1. \A q \in Runs \ {r} : proc'[q] = proc[q]
      BY DEF IInv, TypeOK, Answered
    <2>2. \A q \in Runs \ {r} : CallKnown(q)' /\ ProcessKnown(q)'
      BY <1>2, <2>1 DEF IInv, CallKnown, ProcessKnown
    <2>3. CallKnown(r)' /\ ProcessKnown(r)'
      BY <1>2 DEF IInv, TypeOK, Processes, Rows, CallKnown, ProcessKnown, Answered
    <2>q. QED BY <2>2, <2>3
  <1>q. QED BY <1>1, <1>3, <1>4, <1>5 DEF IInv

LEMMA ReadBudgetBasisKeeps ==
    ASSUME IInv, NEW r \in Runs, ReadBudgetBasis(r)
    PROVE  IInv'
  <1> USE ConsumerAgentAssumption
  <1>1. TypeOK'
    <2>1. run[r].owner \in Owners
      BY DEF IInv, ProcessKnown, ReadBudgetBasis, Active
    <2>2. version[run[r].owner] \in 0..MaxVersion
      BY <2>1 DEF IInv, TypeOK, Versions
    <2>3. proc \in [Runs -> Processes]
      BY DEF IInv, TypeOK
    <2>4. [proc[r] EXCEPT !.at = "ask", !.basis = version[run[r].owner]] \in Processes
      BY <2>2, <2>3 DEF Processes
    <2>5. proc' = [proc EXCEPT ![r] =
                      [proc[r] EXCEPT !.at = "ask", !.basis = version[run[r].owner]]]
      BY <2>3 DEF ReadBudgetBasis
    <2>6. proc' \in [Runs -> Processes]
      BY <2>3, <2>4, <2>5
    <2>q. QED BY <2>6 DEF IInv, TypeOK, ReadBudgetBasis
  <1>2. UNCHANGED <<run, budget, usage, version, draft>>
    BY DEF ReadBudgetBasis
  <1>3. OneRunning' /\ CompletedIsPaid'
    BY <1>2 DEF IInv, OneRunning, CompletedIsPaid
  <1>4. CallsPaid' /\ \A d \in Drafts : DraftKnown(d)'
    BY <1>2, BooksKept, DraftsKept, VersionsKept
  <1>5. \A q \in Runs : CallKnown(q)' /\ ProcessKnown(q)'
    <2>1. \A q \in Runs \ {r} : proc'[q] = proc[q]
      BY DEF IInv, TypeOK, ReadBudgetBasis
    <2>2. \A q \in Runs \ {r} : CallKnown(q)' /\ ProcessKnown(q)'
      BY <1>2, <2>1 DEF IInv, CallKnown, ProcessKnown
    <2>3. CallKnown(r)' /\ ProcessKnown(r)'
      BY <1>2 DEF IInv, TypeOK, Processes, Rows, CallKnown, ProcessKnown, ReadBudgetBasis, Active, Versions
    <2>q. QED BY <2>2, <2>3
  <1>q. QED BY <1>1, <1>3, <1>4, <1>5 DEF IInv

LEMMA ToolDoneKeeps ==
    ASSUME IInv, NEW r \in Runs, ToolDone(r)
    PROVE  IInv'
  <1> USE ConsumerAgentAssumption
  <1>1. TypeOK'
    BY DEF IInv, TypeOK, Processes, ToolDone
  <1>2. UNCHANGED <<run, budget, usage, version, draft>>
    BY DEF ToolDone
  <1>3. OneRunning' /\ CompletedIsPaid'
    BY <1>2 DEF IInv, OneRunning, CompletedIsPaid
  <1>4. CallsPaid' /\ \A d \in Drafts : DraftKnown(d)'
    BY <1>2, BooksKept, DraftsKept, VersionsKept
  <1>5. \A q \in Runs : CallKnown(q)' /\ ProcessKnown(q)'
    <2>1. \A q \in Runs \ {r} : proc'[q] = proc[q]
      BY DEF IInv, TypeOK, ToolDone
    <2>2. \A q \in Runs \ {r} : CallKnown(q)' /\ ProcessKnown(q)'
      BY <1>2, <2>1 DEF IInv, CallKnown, ProcessKnown
    <2>3. CallKnown(r)' /\ ProcessKnown(r)'
      BY <1>2 DEF IInv, TypeOK, Processes, Rows, CallKnown, ProcessKnown, ToolDone
    <2>q. QED BY <2>2, <2>3
  <1>q. QED BY <1>1, <1>3, <1>4, <1>5 DEF IInv

LEMMA CheckBeforeSaveKeeps ==
    ASSUME IInv, NEW r \in Runs, CheckBeforeSave(r)
    PROVE  IInv'
  <1> USE ConsumerAgentAssumption
  <1>1. TypeOK'
    BY DEF IInv, TypeOK, Processes, CheckBeforeSave, Active
  <1>2. UNCHANGED <<run, budget, usage, version, draft>>
    BY DEF CheckBeforeSave
  <1>3. OneRunning' /\ CompletedIsPaid'
    BY <1>2 DEF IInv, OneRunning, CompletedIsPaid
  <1>4. CallsPaid' /\ \A d \in Drafts : DraftKnown(d)'
    BY <1>2, BooksKept, DraftsKept, VersionsKept
  <1>5. \A q \in Runs : CallKnown(q)' /\ ProcessKnown(q)'
    <2>1. \A q \in Runs \ {r} : proc'[q] = proc[q]
      BY DEF IInv, TypeOK, CheckBeforeSave
    <2>2. \A q \in Runs \ {r} : CallKnown(q)' /\ ProcessKnown(q)'
      BY <1>2, <2>1 DEF IInv, CallKnown, ProcessKnown
    <2>3. CallKnown(r)' /\ ProcessKnown(r)'
      BY <1>2 DEF IInv, TypeOK, Processes, Rows, CallKnown, ProcessKnown, CheckBeforeSave, Active
    <2>q. QED BY <2>2, <2>3
  <1>q. QED BY <1>1, <1>3, <1>4, <1>5 DEF IInv

LEMMA CheckBeforeEndKeeps ==
    ASSUME IInv, NEW r \in Runs, CheckBeforeEnd(r)
    PROVE  IInv'
  <1> USE ConsumerAgentAssumption
  <1>1. TypeOK'
    BY DEF IInv, TypeOK, Processes, CheckBeforeEnd, Active
  <1>2. UNCHANGED <<run, budget, usage, version, draft>>
    BY DEF CheckBeforeEnd
  <1>3. OneRunning' /\ CompletedIsPaid'
    BY <1>2 DEF IInv, OneRunning, CompletedIsPaid
  <1>4. CallsPaid' /\ \A d \in Drafts : DraftKnown(d)'
    BY <1>2, BooksKept, DraftsKept, VersionsKept
  <1>5. \A q \in Runs : CallKnown(q)' /\ ProcessKnown(q)'
    <2>1. \A q \in Runs \ {r} : proc'[q] = proc[q]
      BY DEF IInv, TypeOK, CheckBeforeEnd
    <2>2. \A q \in Runs \ {r} : CallKnown(q)' /\ ProcessKnown(q)'
      BY <1>2, <2>1 DEF IInv, CallKnown, ProcessKnown
    <2>3. CallKnown(r)' /\ ProcessKnown(r)'
      BY <1>2 DEF IInv, TypeOK, Processes, Rows, CallKnown, ProcessKnown, CheckBeforeEnd, Active
    <2>q. QED BY <2>2, <2>3
  <1>q. QED BY <1>1, <1>3, <1>4, <1>5 DEF IInv

LEMMA DeadlinePassesKeeps ==
    ASSUME IInv, NEW r \in Runs, DeadlinePasses(r)
    PROVE  IInv'
  <1> USE ConsumerAgentAssumption
  <1>1. run \in [Runs -> Rows]
    BY DEF IInv, TypeOK
  <1>2. /\ run' = [run EXCEPT ![r] = [run[r] EXCEPT !.overdue = TRUE]]
        /\ UNCHANGED <<proc, budget, usage, version, draft>>
    BY <1>1 DEF DeadlinePasses
  <1>3. [run[r] EXCEPT !.overdue = TRUE] \in Rows
    BY <1>1 DEF Rows
  <1>4. \A q \in Runs :
           /\ run'[q] \in Rows
           /\ run'[q].owner = run[q].owner /\ run'[q].bound = run[q].bound
           /\ run'[q].calls = run[q].calls
           /\ run'[q].state = "none" <=> run[q].state = "none"
           /\ run'[q].state = "COMPLETED" => run[q].state = "COMPLETED"
           /\ run'[q].state = "RUNNING" => run[q].state = "RUNNING"
    BY <1>1, <1>2, <1>3, EndedRow DEF Rows
  <1>5. TypeOK'
    BY <1>2, <1>3 DEF IInv, TypeOK
  <1>6. OneRunning' /\ CallsPaid' /\ \A d \in Drafts : DraftKnown(d)'
    BY <1>2, <1>4, BooksKept, DraftsKept, RunsKept, VersionsKept
  <1>7. CompletedIsPaid'
    BY <1>2, <1>4 DEF IInv, CompletedIsPaid
  <1>8. \A q \in Runs : CallKnown(q)' /\ ProcessKnown(q)'
    BY <1>2, <1>4 DEF IInv, CallKnown, ProcessKnown
  <1>q. QED BY <1>5, <1>6, <1>7, <1>8 DEF IInv

LEMMA ReadConsumerAgentRunKeeps ==
    ASSUME IInv, NEW r \in Runs, ReadConsumerAgentRun(r)
    PROVE  IInv'
  <1> USE ConsumerAgentAssumption
  <1>1. run \in [Runs -> Rows]
    BY DEF IInv, TypeOK
  <1>2. /\ run' = [run EXCEPT ![r] = Ended(run[r], "FAILED")]
        /\ UNCHANGED <<proc, budget, usage, version, draft>>
    BY <1>1 DEF ReadConsumerAgentRun
  <1>3. Ended(run[r], "FAILED") \in Rows
    BY <1>1, EndedRow DEF Rows
  <1>4. \A q \in Runs :
           /\ run'[q] \in Rows
           /\ run'[q].owner = run[q].owner /\ run'[q].bound = run[q].bound
           /\ run'[q].calls = run[q].calls
           /\ run'[q].state = "none" <=> run[q].state = "none"
           /\ run'[q].state = "COMPLETED" => run[q].state = "COMPLETED"
           /\ run'[q].state = "RUNNING" => run[q].state = "RUNNING"
    BY <1>1, <1>2, <1>3, EndedRow DEF Rows
  <1>5. TypeOK'
    BY <1>2, <1>3 DEF IInv, TypeOK
  <1>6. OneRunning' /\ CallsPaid' /\ \A d \in Drafts : DraftKnown(d)'
    BY <1>2, <1>4, BooksKept, DraftsKept, RunsKept, VersionsKept
  <1>7. CompletedIsPaid'
    BY <1>2, <1>4 DEF IInv, CompletedIsPaid
  <1>8. \A q \in Runs : CallKnown(q)' /\ ProcessKnown(q)'
    BY <1>2, <1>4 DEF IInv, CallKnown, ProcessKnown
  <1>q. QED BY <1>5, <1>6, <1>7, <1>8 DEF IInv

LEMMA CancelConsumerAgentRunKeeps ==
    ASSUME IInv, NEW r \in Runs, CancelConsumerAgentRun(r)
    PROVE  IInv'
  <1> USE ConsumerAgentAssumption
  <1>1. run \in [Runs -> Rows]
    BY DEF IInv, TypeOK
  <1>2. /\ run' = [run EXCEPT ![r] = Ended(run[r], "CANCELLED")]
        /\ UNCHANGED <<proc, budget, usage, version, draft>>
    BY <1>1 DEF CancelConsumerAgentRun
  <1>3. Ended(run[r], "CANCELLED") \in Rows
    BY <1>1, EndedRow DEF Rows
  <1>4. \A q \in Runs :
           /\ run'[q] \in Rows
           /\ run'[q].owner = run[q].owner /\ run'[q].bound = run[q].bound
           /\ run'[q].calls = run[q].calls
           /\ run'[q].state = "none" <=> run[q].state = "none"
           /\ run'[q].state = "COMPLETED" => run[q].state = "COMPLETED"
           /\ run'[q].state = "RUNNING" => run[q].state = "RUNNING"
    BY <1>1, <1>2, <1>3, EndedRow DEF Rows
  <1>5. TypeOK'
    BY <1>2, <1>3 DEF IInv, TypeOK
  <1>6. OneRunning' /\ CallsPaid' /\ \A d \in Drafts : DraftKnown(d)'
    BY <1>2, <1>4, BooksKept, DraftsKept, RunsKept, VersionsKept
  <1>7. CompletedIsPaid'
    BY <1>2, <1>4 DEF IInv, CompletedIsPaid
  <1>8. \A q \in Runs : CallKnown(q)' /\ ProcessKnown(q)'
    BY <1>2, <1>4 DEF IInv, CallKnown, ProcessKnown
  <1>q. QED BY <1>5, <1>6, <1>7, <1>8 DEF IInv

LEMMA StartConsumerAgentRunKeeps ==
    ASSUME IInv, NEW r \in Runs, NEW owner \in Owners, NEW bound \in BOOLEAN,
           StartConsumerAgentRun(r, owner, bound)
    PROVE  IInv'
  <1> USE ConsumerAgentAssumption
  <1> DEFINE new == [owner |-> owner, bound |-> bound, state |-> "RUNNING",
                     overdue |-> FALSE, calls |-> 0]
  <1>1. run \in [Runs -> Rows]
    BY DEF IInv, TypeOK
  <1>2. \A q \in Runs :
           /\ Expired(owner)[q] \in Rows
           /\ Expired(owner)[q].owner = run[q].owner
           /\ Expired(owner)[q].bound = run[q].bound
           /\ Expired(owner)[q].calls = run[q].calls
           /\ Expired(owner)[q].state = "none" <=> run[q].state = "none"
           /\ Expired(owner)[q].state = "COMPLETED" => run[q].state = "COMPLETED"
           /\ Expired(owner)[q].state = "RUNNING" => run[q].state = "RUNNING"
    BY <1>1, EndedRow DEF Expired
  <1>3. /\ run' = [Expired(owner) EXCEPT ![r] = new]
        /\ proc' = [proc EXCEPT ![r] = NewProcess]
        /\ UNCHANGED <<budget, usage, version, draft>>
        /\ run[r].state = "none" /\ run[r].calls = 0
    BY DEF StartConsumerAgentRun, IInv, ProcessKnown
  <1>4. new \in Rows /\ NewProcess \in Processes
    BY ZeroIn DEF Rows, Processes, NewProcess, Process
  <1>5. /\ run'[r] = new
        /\ \A q \in Runs \ {r} : run'[q] = Expired(owner)[q]
    BY <1>3 DEF Expired
  <1>6. TypeOK'
    <2>1. run' \in [Runs -> Rows]
      BY <1>2, <1>3, <1>4, <1>5 DEF Expired
    <2>q. QED BY <1>3, <1>4, <2>1 DEF IInv, TypeOK
  <1>7. OneRunning'
    <2>1. \A q \in Runs \ {r} : run'[q].owner = owner => run'[q].state # "RUNNING"
      BY <1>5 DEF StartConsumerAgentRun
    <2>2. \A p, q \in Runs \ {r} :
             run'[p].owner = run'[q].owner /\ run'[p].state = "RUNNING"
                /\ run'[q].state = "RUNNING" => p = q
      BY <1>2, <1>5 DEF IInv, OneRunning
    <2>q. QED BY <1>5, <2>1, <2>2 DEF OneRunning
  <1>8. CallsPaid'
    <2>1. \A q \in Runs : run'[q].calls = run[q].calls
      BY <1>2, <1>3, <1>5
    <2>q. QED BY <1>3, <2>1, BooksKept
  <1>9. \A d \in Drafts : DraftKnown(d)'
    <2>1. \A q \in Runs : run[q].state # "none" =>
             run'[q].bound = run[q].bound /\ run'[q].state # "none"
      BY <1>2, <1>3, <1>5
    <2>q. QED BY <1>3, <2>1, DraftsKept, VersionsKept
  <1>10. CompletedIsPaid'
    BY <1>2, <1>3, <1>5 DEF IInv, CompletedIsPaid
  <1>11. \A q \in Runs : CallKnown(q)' /\ ProcessKnown(q)'
    <2>1. \A q \in Runs \ {r} : proc'[q] = proc[q]
      BY <1>3 DEF IInv, TypeOK
    <2>2. \A q \in Runs \ {r} : CallKnown(q)' /\ ProcessKnown(q)'
      BY <1>2, <1>3, <1>5, <2>1 DEF IInv, CallKnown, ProcessKnown
    <2>3. proc'[r] = NewProcess
      BY <1>3 DEF IInv, TypeOK
    <2>4. CallKnown(r)' /\ ProcessKnown(r)'
      BY <1>5, <2>3 DEF CallKnown, ProcessKnown, NewProcess, Process
    <2>q. QED BY <2>2, <2>4
  <1>q. QED BY <1>6, <1>7, <1>8, <1>9, <1>10, <1>11 DEF IInv

LEMMA ReserveAttemptKeeps ==
    ASSUME IInv, NEW r \in Runs, ReserveAttempt(r)
    PROVE  IInv'
  <1> USE ConsumerAgentAssumption
  <1> DEFINE n == run[r].calls + 1
             c == <<r, n>>
  <1>1. /\ run \in [Runs -> Rows] /\ proc \in [Runs -> Processes]
        /\ budget \in [spent : Nat, reserved : Nat]
        /\ usage \in [CallIds -> {"none", "reserved", "settled"}]
    BY DEF IInv, TypeOK
  <1>2. run[r].calls \in Nat /\ run[r].calls < Calls /\ n \in 1..Calls /\ c \in CallIds
    <2>1. proc[r].at = "reserve"
      BY DEF ReserveAttempt
    <2>2. run[r].calls < Calls
      BY <2>1 DEF IInv, CallKnown
    <2>3. run[r].calls \in Nat
      BY <1>1 DEF Rows
    <2>q. QED BY <2>2, <2>3 DEF CallIds
  <1>3. /\ proc[r].at = "reserve" /\ Fits(budget)
        /\ budget' = [budget EXCEPT !.reserved = @ + MaxCost]
        /\ usage' = [usage EXCEPT ![c] = "reserved"]
        /\ run' = [run EXCEPT ![r].calls = n]
        /\ proc' = [proc EXCEPT ![r].at = "sent", ![r].pending = n]
        /\ UNCHANGED <<version, draft>>
    BY DEF ReserveAttempt
  <1>4. /\ \A q \in Runs \ {r} : run'[q] = run[q] /\ proc'[q] = proc[q]
        /\ run'[r] = [run[r] EXCEPT !.calls = n]
        /\ proc'[r] = [proc[r] EXCEPT !.at = "sent", !.pending = n]
        /\ \A k \in CallIds \ {c} : usage'[k] = usage[k]
        /\ usage'[c] = "reserved"
    BY <1>1, <1>2, <1>3
  <1>5. TypeOK'
    <2>1. run' \in [Runs -> Rows] /\ proc' \in [Runs -> Processes]
      <3>1. n \in 0..Calls
        BY <1>2
      <3> HIDE DEF n
      <3>2. [run[r] EXCEPT !.calls = n] \in Rows
        BY <1>1, <3>1 DEF Rows
      <3>3. [proc[r] EXCEPT !.at = "sent", !.pending = n] \in Processes
        BY <1>1, <3>1 DEF Processes
      <3>q. QED BY <1>1, <1>3, <3>2, <3>3
    <2>2. usage' \in [CallIds -> {"none", "reserved", "settled"}]
          /\ budget' \in [spent : Nat, reserved : Nat]
      BY <1>1, <1>2, <1>3
    <2>q. QED BY <1>3, <2>1, <2>2 DEF IInv, TypeOK
  <1>6. \A q \in Runs :
           /\ run'[q].owner = run[q].owner /\ run'[q].bound = run[q].bound
           /\ run'[q].state = run[q].state
    BY <1>1, <1>4 DEF Rows
  <1>7. OneRunning' /\ \A d \in Drafts : DraftKnown(d)'
    BY <1>3, <1>6, RunsKept, DraftsKept, VersionsKept
  <1>8. CallsPaid'
    <2>1. usage[c] = "none"
      <3>1. c[1] = r /\ c[2] = n
        OBVIOUS
      <3>q. QED BY <1>2, <3>1 DEF IInv, CallsPaid
    <2>2. \A k \in CallIds : usage'[k] # "none" <=> k[2] <= run'[k[1]].calls
      <3> SUFFICES ASSUME NEW k \in CallIds
                   PROVE  usage'[k] # "none" <=> k[2] <= run'[k[1]].calls
        OBVIOUS
      <3>1. k[1] \in Runs /\ k[2] \in Nat /\ k = <<k[1], k[2]>>
        BY DEF CallIds
      <3>2. usage[k] # "none" <=> k[2] <= run[k[1]].calls
        BY DEF IInv, CallsPaid
      <3>0. run'[r].calls = n
        BY <1>1, <1>4 DEF Rows
      <3>3. CASE k = c
        <4>1. k[1] = r /\ k[2] = n
          BY <3>3
        <4>2. usage'[k] = "reserved"
          BY <1>4, <3>3
        <4> HIDE DEF c, n
        <4>3. n <= n
          BY <1>2
        <4>q. QED BY <3>0, <4>1, <4>2, <4>3
      <3>4. CASE k # c /\ k[1] = r
        <4>1. k[2] # n
          BY <3>1, <3>4
        <4>2. usage'[k] = usage[k]
          BY <1>4, <3>4
        <4>3. k[2] <= run[r].calls <=> k[2] <= n
          BY <1>2, <3>1, <4>1
        <4> HIDE DEF c, n
        <4>q. QED BY <3>0, <3>2, <3>4, <4>2, <4>3
      <3>5. CASE k # c /\ k[1] # r
        BY <1>4, <3>1, <3>2, <3>5
      <3>q. QED BY <3>3, <3>4, <3>5
    <2>3. /\ Cardinality(Unsettled)' = Cardinality(Unsettled) + 1
          /\ Cardinality(Settled)' = Cardinality(Settled)
      BY <1>1, <1>2, <1>3, <2>1, ReservedCounts
    <2>4. /\ budget'.reserved = budget.reserved + MaxCost
          /\ budget'.spent = budget.spent
      BY <1>1, <1>3
    <2>5. MaxCost * (Cardinality(Unsettled) + 1) = MaxCost * Cardinality(Unsettled) + MaxCost
      BY Counts
    <2>6. /\ budget.reserved = MaxCost * Cardinality(Unsettled)
          /\ budget.spent <= MaxCost * Cardinality(Settled)
          /\ budget.spent + budget.reserved + MaxCost <= Ceiling
      BY <1>3 DEF IInv, CallsPaid, Fits
    <2>7. /\ budget'.reserved = MaxCost * Cardinality(Unsettled)'
          /\ budget'.spent <= MaxCost * Cardinality(Settled)'
      BY <2>3, <2>4, <2>5, <2>6
    <2>8. budget'.spent + budget'.reserved <= Ceiling
      BY <1>1, <2>4, <2>6
    <2>q. QED BY <2>2, <2>7, <2>8 DEF CallsPaid
  <1>9. CompletedIsPaid'
    <2>1. run[r].state # "COMPLETED"
      BY <1>3 DEF IInv, ProcessKnown
    <2>2. \A q \in Runs \ {r} : run[q].calls > 0 => <<q, run[q].calls>> \in CallIds \ {c}
      BY <1>1 DEF Rows, CallIds
    <2>q. QED BY <1>4, <1>6, <2>1, <2>2 DEF IInv, CompletedIsPaid
  <1>10. \A q \in Runs : CallKnown(q)' /\ ProcessKnown(q)'
    <2>1. \A q \in Runs \ {r} : run[q].calls > 0 => usage'[<<q, run[q].calls>>] = usage[<<q, run[q].calls>>]
      <3>1. \A q \in Runs \ {r} : run[q].calls > 0 => <<q, run[q].calls>> \in CallIds \ {c}
        BY <1>1 DEF Rows, CallIds
      <3>q. QED BY <1>4, <3>1
    <2>2. \A q \in Runs \ {r} : CallKnown(q)' /\ ProcessKnown(q)'
      <3> SUFFICES ASSUME NEW q \in Runs \ {r} PROVE CallKnown(q)' /\ ProcessKnown(q)'
        OBVIOUS
      <3>1. run[q].calls \in Nat /\ proc[q].pending \in Nat
        BY <1>1 DEF Rows, Processes
      <3>q. QED BY <1>4, <2>1, <3>1 DEF IInv, CallKnown, ProcessKnown
    <2>3. /\ run'[r].calls = n /\ proc'[r].at = "sent" /\ proc'[r].pending = n
          /\ proc'[r].answered = proc[r].answered
      BY <1>1, <1>4 DEF Rows, Processes
    <2>4. ~proc[r].answered /\ run[r].state # "none"
      BY <1>3 DEF IInv, CallKnown, ProcessKnown
    <2>5. CallKnown(r)'
      BY <1>2, <1>4, <2>3, <2>4 DEF CallKnown
    <2>6. ProcessKnown(r)'
      BY <1>3, <1>6, <2>3, <2>4 DEF IInv, ProcessKnown
    <2>q. QED BY <2>2, <2>5, <2>6
  <1>q. QED BY <1>5, <1>7, <1>8, <1>9, <1>10 DEF IInv

LEMMA SettleModelCostKeeps ==
    ASSUME IInv, NEW r \in Runs, NEW cost \in Costs, SettleModelCost(r, cost)
    PROVE  IInv'
  <1> USE ConsumerAgentAssumption
  <1> DEFINE c == <<r, proc[r].pending>>
  <1>1. /\ run \in [Runs -> Rows] /\ proc \in [Runs -> Processes]
        /\ budget \in [spent : Nat, reserved : Nat]
        /\ usage \in [CallIds -> {"none", "reserved", "settled"}]
    BY DEF IInv, TypeOK
  <1>2. /\ proc[r].answered /\ proc[r].pending = run[r].calls /\ proc[r].pending # 0
        /\ usage[c] = "reserved" /\ proc[r].at # "sent" /\ proc[r].at # "reserve"
        /\ UNCHANGED <<run, version, draft>>
    BY DEF SettleModelCost, IInv, CallKnown
  <1>3. c \in CallIds
    BY <1>1, <1>2 DEF CallIds, Rows, Processes
  <1>4. \A q \in Runs \ {r} : proc'[q] = proc[q]
    BY <1>1 DEF SettleModelCost
  <1>5. OneRunning' /\ \A d \in Drafts : DraftKnown(d)'
    BY <1>2, RunsKept, DraftsKept, VersionsKept
  <1>6. CASE cost <= MaxCost
    <2>1. /\ budget' = [spent |-> budget.spent + cost, reserved |-> budget.reserved - MaxCost]
          /\ usage' = [usage EXCEPT ![c] = "settled"]
          /\ proc' = [proc EXCEPT ![r].answered = FALSE, ![r].pending = 0]
      BY <1>6 DEF SettleModelCost
    <2>2. /\ Cardinality(Unsettled)' = Cardinality(Unsettled) - 1
          /\ Cardinality(Unsettled) >= 1
          /\ Cardinality(Settled)' = Cardinality(Settled) + 1
      BY <1>1, <1>2, <1>3, <2>1, SettledCounts
    <2>3. /\ budget.reserved = MaxCost * Cardinality(Unsettled)
          /\ budget.spent <= MaxCost * Cardinality(Settled)
          /\ budget.spent + budget.reserved <= Ceiling
      BY DEF IInv, CallsPaid
    <2>4. /\ MaxCost * (Cardinality(Unsettled) - 1) = MaxCost * Cardinality(Unsettled) - MaxCost
          /\ MaxCost * (Cardinality(Settled) + 1) = MaxCost * Cardinality(Settled) + MaxCost
          /\ MaxCost * (Cardinality(Unsettled) - 1) \in Nat
          /\ MaxCost * Cardinality(Settled) \in Nat
      <3>1. /\ Cardinality(Unsettled) - 1 \in Nat /\ Cardinality(Settled) \in Nat
            /\ Cardinality(Unsettled) = (Cardinality(Unsettled) - 1) + 1
        BY <2>2, Counts
      <3>2. \A a, b \in Nat : a * (b + 1) = a * b + a /\ a * b \in Nat
        OBVIOUS
      <3>3. MaxCost * (Cardinality(Settled) + 1) = MaxCost * Cardinality(Settled) + MaxCost
            /\ MaxCost * Cardinality(Settled) \in Nat
        BY <3>1, <3>2
      <3>4. /\ MaxCost * ((Cardinality(Unsettled) - 1) + 1)
                  = MaxCost * (Cardinality(Unsettled) - 1) + MaxCost
            /\ MaxCost * (Cardinality(Unsettled) - 1) \in Nat
        BY <3>1, <3>2
      <3>5. MaxCost * Cardinality(Unsettled) = MaxCost * (Cardinality(Unsettled) - 1) + MaxCost
        BY <3>1, <3>4
      <3>6. MaxCost * (Cardinality(Unsettled) - 1) = MaxCost * Cardinality(Unsettled) - MaxCost
        BY <3>4, <3>5
      <3>q. QED BY <3>3, <3>4, <3>6
    <2>5. cost \in Nat
      OBVIOUS
    <2>6. /\ budget'.reserved = MaxCost * Cardinality(Unsettled)'
          /\ budget'.reserved \in Nat /\ budget'.spent \in Nat
          /\ budget'.spent <= MaxCost * Cardinality(Settled)'
          /\ budget'.spent + budget'.reserved <= Ceiling
      BY <1>1, <1>6, <2>1, <2>2, <2>3, <2>4, <2>5
    <2>7. /\ \A k \in CallIds \ {c} : usage'[k] = usage[k]
          /\ usage'[c] = "settled"
      BY <1>1, <1>3, <2>1
    <2>8. CallsPaid'
      <3>1. \A k \in CallIds : usage'[k] # "none" <=> k[2] <= run'[k[1]].calls
        BY <1>2, <1>3, <2>7 DEF IInv, CallsPaid
      <3>q. QED BY <2>6, <3>1 DEF CallsPaid
    <2>9. proc'[r] = [proc[r] EXCEPT !.answered = FALSE, !.pending = 0]
      BY <1>1, <2>1
    <2>10. TypeOK'
      <3>1. proc' \in [Runs -> Processes]
        <4>1. [proc[r] EXCEPT !.answered = FALSE, !.pending = 0] \in Processes
          BY <1>1, ZeroIn DEF Processes
        <4>2. proc' = [proc EXCEPT ![r] = [proc[r] EXCEPT !.answered = FALSE, !.pending = 0]]
          BY <1>1, <2>1
        <4>q. QED BY <1>1, <4>1, <4>2
      <3>2. usage' \in [CallIds -> {"none", "reserved", "settled"}]
        BY <1>1, <1>3, <2>1
      <3>3. budget' \in [spent : Nat, reserved : Nat]
        BY <2>1, <2>6
      <3>q. QED BY <1>2, <3>1, <3>2, <3>3 DEF IInv, TypeOK
    <2>11. CompletedIsPaid'
      <3>1. \A q \in Runs : run[q].calls > 0 => <<q, run[q].calls>> \in CallIds
        BY <1>1 DEF Rows, CallIds
      <3>q. QED BY <1>2, <2>7, <3>1 DEF IInv, CompletedIsPaid
    <2>12. \A q \in Runs : CallKnown(q)' /\ ProcessKnown(q)'
      <3>1. \A q \in Runs \ {r} : run[q].calls > 0 =>
               usage'[<<q, run[q].calls>>] = usage[<<q, run[q].calls>>]
        <4>1. \A q \in Runs \ {r} : run[q].calls > 0 => <<q, run[q].calls>> \in CallIds \ {c}
          BY <1>1 DEF Rows, CallIds
        <4>q. QED BY <2>7, <4>1
      <3>2. \A q \in Runs \ {r} : CallKnown(q)' /\ ProcessKnown(q)'
        <4> SUFFICES ASSUME NEW q \in Runs \ {r} PROVE CallKnown(q)' /\ ProcessKnown(q)'
          OBVIOUS
        <4>1. run[q].calls \in Nat /\ proc[q].pending \in Nat
          BY <1>1 DEF Rows, Processes
        <4>q. QED BY <1>2, <1>4, <3>1, <4>1 DEF IInv, CallKnown, ProcessKnown
      <3>3. /\ proc'[r].at = proc[r].at /\ ~proc'[r].answered /\ proc'[r].pending = 0
            /\ proc'[r].basis = proc[r].basis
        BY <1>1, <2>9 DEF Processes
      <3>4. CallKnown(r)'
        BY <1>2, <2>7, <3>3 DEF CallKnown
      <3>5. ProcessKnown(r)'
        BY <1>2, <3>3 DEF IInv, ProcessKnown
      <3>q. QED BY <3>2, <3>4, <3>5
    <2>q. QED BY <1>5, <2>8, <2>10, <2>11, <2>12 DEF IInv
  <1>7. CASE ~(cost <= MaxCost)
    <2>1. /\ proc' = [proc EXCEPT ![r].answered = FALSE, ![r].failed = TRUE]
          /\ UNCHANGED <<budget, usage>>
      BY <1>7 DEF SettleModelCost
    <2>2. proc'[r] = [proc[r] EXCEPT !.answered = FALSE, !.failed = TRUE]
      BY <1>1, <2>1
    <2>3. TypeOK'
      <3>1. [proc[r] EXCEPT !.answered = FALSE, !.failed = TRUE] \in Processes
        BY <1>1 DEF Processes
      <3>2. proc' = [proc EXCEPT ![r] = [proc[r] EXCEPT !.answered = FALSE, !.failed = TRUE]]
        BY <1>1, <2>1
      <3>3. proc' \in [Runs -> Processes]
        BY <1>1, <3>1, <3>2
      <3>q. QED BY <1>2, <2>1, <3>3 DEF IInv, TypeOK
    <2>4. CallsPaid' /\ CompletedIsPaid'
      BY <1>2, <2>1, BooksKept DEF IInv, CompletedIsPaid
    <2>5. \A q \in Runs \ {r} : CallKnown(q)' /\ ProcessKnown(q)'
      <3>1. run' = run /\ usage' = usage
        BY <1>2, <2>1
      <3>q. QED BY <1>4, <3>1 DEF IInv, CallKnown, ProcessKnown
    <2>6. CallKnown(r)' /\ ProcessKnown(r)'
      BY <1>1, <1>2, <2>1, <2>2 DEF IInv, CallKnown, ProcessKnown, Processes
    <2>q. QED BY <1>5, <2>3, <2>4, <2>5, <2>6 DEF IInv
  <1>q. QED BY <1>6, <1>7

\* What is left of a process that is over.
LEMMA OverKnown ==
    ASSUME NEW p \in Processes
    PROVE  /\ Over(p) \in Processes
           /\ Over(p).at = "over"
           /\ Over(p).answered = p.answered
           /\ p.answered => Over(p).pending = p.pending
  <1> USE ConsumerAgentAssumption
  <1> DEFINE pending == IF p.answered THEN p.pending ELSE 0
  <1>1. p.answered \in BOOLEAN /\ pending \in 0..Calls
    BY DEF Processes
  <1>2. p.answered => pending = p.pending
    OBVIOUS
  <1>3. Over(p) = [at |-> "over", retry |-> 0, pending |-> pending, answered |-> p.answered,
                   failed |-> FALSE, basis |-> 0]
    BY DEF Over, Process
  <1> HIDE DEF pending
  <1>q. QED BY <1>1, <1>2, <1>3, ZeroIn DEF Processes

LEMMA CompleteKeeps ==
    ASSUME IInv, NEW r \in Runs, Complete(r)
    PROVE  IInv'
  <1> USE ConsumerAgentAssumption
  <1>1. run \in [Runs -> Rows] /\ proc \in [Runs -> Processes]
    BY DEF IInv, TypeOK
  <1>2. /\ run' = [run EXCEPT ![r] = Ended(run[r], "COMPLETED")]
        /\ proc' = [proc EXCEPT ![r] = Over(proc[r])]
        /\ UNCHANGED <<budget, usage, version, draft>>
    BY <1>1 DEF Complete
  <1>3. Ended(run[r], "COMPLETED") \in Rows
    BY <1>1, EndedRow
  <1>4. \A q \in Runs :
           /\ run'[q].owner = run[q].owner /\ run'[q].bound = run[q].bound
           /\ run'[q].calls = run[q].calls
           /\ run'[q].state = "none" <=> run[q].state = "none"
           /\ run'[q].state = "COMPLETED" => q = r \/ run[q].state = "COMPLETED"
           /\ run'[q].state = "RUNNING" => run[q].state = "RUNNING"
    BY <1>1, <1>2, <1>3, EndedRow DEF Rows
  <1>5. /\ proc'[r] = Over(proc[r])
        /\ \A q \in Runs \ {r} : proc'[q] = proc[q]
    BY <1>1, <1>2
  <1>6. /\ Over(proc[r]) \in Processes
        /\ Over(proc[r]).at = "over"
        /\ Over(proc[r]).answered = proc[r].answered
        /\ proc[r].answered => Over(proc[r]).pending = proc[r].pending
    BY <1>1, OverKnown
  <1>7. TypeOK'
    BY <1>1, <1>2, <1>3, <1>6 DEF IInv, TypeOK
  <1>8. OneRunning' /\ CallsPaid' /\ \A d \in Drafts : DraftKnown(d)'
    BY <1>2, <1>4, BooksKept, DraftsKept, RunsKept, VersionsKept
  <1>9. CompletedIsPaid'
    <2>1. run[r].calls > 0 => usage[<<r, run[r].calls>>] = "settled"
      BY DEF IInv, CallKnown, Complete
    <2>q. QED BY <1>2, <1>4, <2>1 DEF IInv, CompletedIsPaid
  <1>10. \A q \in Runs : CallKnown(q)' /\ ProcessKnown(q)'
    <2>1. \A q \in Runs \ {r} : CallKnown(q)' /\ ProcessKnown(q)'
      BY <1>2, <1>4, <1>5 DEF IInv, CallKnown, ProcessKnown
    <2>2. CallKnown(r)'
      BY <1>2, <1>4, <1>5, <1>6 DEF IInv, CallKnown
    <2>3. run[r].state # "none"
      BY DEF IInv, ProcessKnown, Complete
    <2>4. ProcessKnown(r)'
      BY <1>4, <1>5, <1>6, <2>3 DEF IInv, ProcessKnown
    <2>q. QED BY <2>1, <2>2, <2>4
  <1>q. QED BY <1>7, <1>8, <1>9, <1>10 DEF IInv

LEMMA FailKeeps ==
    ASSUME IInv, NEW r \in Runs, Fail(r)
    PROVE  IInv'
  <1> USE ConsumerAgentAssumption
  <1>1. run \in [Runs -> Rows] /\ proc \in [Runs -> Processes]
    BY DEF IInv, TypeOK
  <1>2. /\ run' = [run EXCEPT ![r] = Ended(run[r], "FAILED")]
        /\ proc' = [proc EXCEPT ![r] = Over(proc[r])]
        /\ UNCHANGED <<budget, usage, version, draft>>
    BY <1>1 DEF Fail
  <1>3. Ended(run[r], "FAILED") \in Rows
    BY <1>1, EndedRow
  <1>4. \A q \in Runs :
           /\ run'[q].owner = run[q].owner /\ run'[q].bound = run[q].bound
           /\ run'[q].calls = run[q].calls
           /\ run'[q].state = "none" <=> run[q].state = "none"
           /\ run'[q].state = "COMPLETED" => q = r \/ run[q].state = "COMPLETED"
           /\ run'[q].state = "RUNNING" => run[q].state = "RUNNING"
    BY <1>1, <1>2, <1>3, EndedRow DEF Rows
  <1>5. /\ proc'[r] = Over(proc[r])
        /\ \A q \in Runs \ {r} : proc'[q] = proc[q]
    BY <1>1, <1>2
  <1>6. /\ Over(proc[r]) \in Processes
        /\ Over(proc[r]).at = "over"
        /\ Over(proc[r]).answered = proc[r].answered
        /\ proc[r].answered => Over(proc[r]).pending = proc[r].pending
    BY <1>1, OverKnown
  <1>7. TypeOK'
    BY <1>1, <1>2, <1>3, <1>6 DEF IInv, TypeOK
  <1>8. OneRunning' /\ CallsPaid' /\ \A d \in Drafts : DraftKnown(d)'
    BY <1>2, <1>4, BooksKept, DraftsKept, RunsKept, VersionsKept
  <1>9. CompletedIsPaid'
    <2>1. run'[r].state = "COMPLETED" => run[r].state = "COMPLETED"
      BY <1>1, <1>2, EndedRow DEF Rows
    <2>q. QED BY <1>2, <1>4, <2>1 DEF IInv, CompletedIsPaid
  <1>10. \A q \in Runs : CallKnown(q)' /\ ProcessKnown(q)'
    <2>1. \A q \in Runs \ {r} : CallKnown(q)' /\ ProcessKnown(q)'
      BY <1>2, <1>4, <1>5 DEF IInv, CallKnown, ProcessKnown
    <2>2. CallKnown(r)'
      BY <1>2, <1>4, <1>5, <1>6 DEF IInv, CallKnown
    <2>3. run[r].state # "none"
      BY DEF IInv, ProcessKnown, Fail
    <2>4. ProcessKnown(r)'
      BY <1>4, <1>5, <1>6, <2>3 DEF IInv, ProcessKnown
    <2>q. QED BY <2>1, <2>2, <2>4
  <1>q. QED BY <1>7, <1>8, <1>9, <1>10 DEF IInv

\* A draft is assessed for a run that has started, or for none.
LEMMA DraftBegun ==
    ASSUME IInv, NEW d \in Drafts, NEW r \in Runs \cup {None}, NEW owner \in Owners,
           NEW basis \in 0..MaxVersion, CompareVersions(d, r, owner, basis),
           UNCHANGED <<run, version>>,
           r # None => run[r].state # "none" /\ (basis # 0 <=> run[r].bound)
    PROVE  /\ draft' \in [Drafts -> DraftRows]
           /\ \A e \in Drafts : DraftKnown(e)'
  <1> DEFINE new == [run |-> r, owner |-> owner, basis |-> basis, facts |-> {},
                     status |-> "assessing"]
  <1>1. /\ draft' = [draft EXCEPT ![d] = new]
        /\ basis \in {0, version[owner]} /\ version[owner] \in Versions
        /\ draft \in [Drafts -> DraftRows]
    BY DEF CompareVersions, IInv, TypeOK
  <1>2. draft'[d] = new /\ \A e \in Drafts \ {d} : draft'[e] = draft[e]
    BY <1>1
  <1>3. new \in DraftRows
    BY DEF DraftRows
  <1>4. \A e \in Drafts \ {d} : DraftKnown(e)'
    BY <1>2 DEF IInv, DraftKnown, Saved
  <1>5. DraftKnown(d)'
    <2>1. basis # 0 => basis <= version[owner]
      BY <1>1 DEF Versions
    <2>q. QED BY <1>2, <2>1 DEF DraftKnown, Saved
  <1>q. QED BY <1>1, <1>3, <1>4, <1>5

LEMMA SavePlanningDraftKeeps ==
    ASSUME IInv, NEW r \in Runs, SavePlanningDraft(r)
    PROVE  IInv'
  <1> USE ConsumerAgentAssumption
  <1> DEFINE basis == IF run[r].bound THEN proc[r].basis ELSE 0
  <1>1. /\ proc[r].at = "save"
        /\ UNCHANGED <<run, budget, usage, version>>
    BY DEF SavePlanningDraft
  <1>2. /\ run \in [Runs -> Rows] /\ proc \in [Runs -> Processes]
    BY DEF IInv, TypeOK
  <1>3. /\ run[r].owner \in Owners /\ run[r].state # "none"
        /\ basis \in 0..MaxVersion /\ (basis # 0 <=> run[r].bound)
    BY <1>1, <1>2 DEF IInv, ProcessKnown, Processes, Rows
  <1>4. /\ draft' \in [Drafts -> DraftRows]
        /\ \A e \in Drafts : DraftKnown(e)'
    <2>1. CASE UNCHANGED draft
      BY <1>1, <2>1, DraftsKept, VersionsKept DEF IInv, TypeOK
    <2>2. CASE \E d \in Drafts : CompareVersions(d, r, run[r].owner, basis)
      <3>1. PICK d \in Drafts : CompareVersions(d, r, run[r].owner, basis)
        BY <2>2
      <3> HIDE DEF basis
      <3>q. QED BY <1>1, <1>3, <3>1, DraftBegun
    <2>q. QED BY <2>1, <2>2 DEF SavePlanningDraft
  <1>5. PICK at \in {"ask", "saving"} : proc' = [proc EXCEPT ![r].at = at]
    BY DEF SavePlanningDraft
  <1>6. TypeOK'
    BY <1>1, <1>2, <1>4, <1>5 DEF IInv, TypeOK, Processes
  <1>7. OneRunning' /\ CompletedIsPaid' /\ CallsPaid'
    BY <1>1, BooksKept DEF IInv, OneRunning, CompletedIsPaid
  <1>8. \A q \in Runs \ {r} : CallKnown(q)' /\ ProcessKnown(q)'
    <2>1. \A q \in Runs \ {r} : proc'[q] = proc[q]
      BY <1>5, <1>2
    <2>q. QED BY <1>1, <2>1 DEF IInv, CallKnown, ProcessKnown
  <1>9. CallKnown(r)' /\ ProcessKnown(r)'
    BY <1>1, <1>2, <1>5 DEF IInv, CallKnown, ProcessKnown, Processes
  <1>q. QED BY <1>4, <1>6, <1>7, <1>8, <1>9 DEF IInv

LEMMA SaveByHandKeeps ==
    ASSUME IInv, NEW d \in Drafts, NEW owner \in Planners, NEW basis \in 0..MaxVersion,
           SaveByHand(d, owner, basis)
    PROVE  IInv'
  <1> USE ConsumerAgentAssumption
  <1>1. /\ CompareVersions(d, None, owner, basis)
        /\ UNCHANGED <<run, proc, budget, usage, version>>
    BY DEF SaveByHand
  <1>2. /\ draft' \in [Drafts -> DraftRows]
        /\ \A e \in Drafts : DraftKnown(e)'
    BY <1>1, DraftBegun
  <1>3. TypeOK' /\ OneRunning' /\ CompletedIsPaid' /\ CallsPaid'
    BY <1>1, <1>2, BooksKept DEF IInv, TypeOK, OneRunning, CompletedIsPaid
  <1>4. \A q \in Runs : CallKnown(q)' /\ ProcessKnown(q)'
    BY <1>1 DEF IInv, CallKnown, ProcessKnown
  <1>q. QED BY <1>2, <1>3, <1>4 DEF IInv

\* A step on a draft after which it is a row of which what must be known is
\* known, and that wakes no process but the one that waits for it.
LEMMA DraftStep ==
    ASSUME IInv, NEW d \in Drafts, NEW row \in DraftRows,
           draft' = [draft EXCEPT ![d] = row], DraftKnown(d)',
           proc' = proc \/ proc' = Returned(draft[d].run),
           UNCHANGED <<run, budget, usage, version>>
    PROVE  IInv'
  <1>1. draft \in [Drafts -> DraftRows] /\ proc \in [Runs -> Processes]
    BY DEF IInv, TypeOK
  <1>2. \A q \in Runs :
           \/ proc'[q] = proc[q]
           \/ proc[q].at = "saving" /\ proc'[q] = [proc[q] EXCEPT !.at = "ask"]
    BY DEF Returned
  <1>3. proc' \in [Runs -> Processes]
    <2>1. \A p \in Processes : [p EXCEPT !.at = "ask"] \in Processes
      BY DEF Processes
    <2>2. \A q \in Runs : proc'[q] \in Processes
      BY <1>1, <1>2, <2>1
    <2>3. proc' = [q \in Runs |-> proc'[q]]
      BY <1>1 DEF Returned
    <2>q. QED BY <2>2, <2>3
  <1>4. TypeOK'
    BY <1>1, <1>3 DEF IInv, TypeOK
  <1>5. OneRunning' /\ CompletedIsPaid' /\ CallsPaid'
    BY BooksKept DEF IInv, OneRunning, CompletedIsPaid
  <1>6. \A e \in Drafts : DraftKnown(e)'
    <2>1. \A e \in Drafts \ {d} : draft'[e] = draft[e]
      BY <1>1
    <2>2. \A e \in Drafts \ {d} : DraftKnown(e)'
      BY <2>1 DEF IInv, DraftKnown, Saved
    <2>q. QED BY <2>2
  <1>7. \A q \in Runs : CallKnown(q)' /\ ProcessKnown(q)'
    <2> SUFFICES ASSUME NEW q \in Runs PROVE CallKnown(q)' /\ ProcessKnown(q)'
      OBVIOUS
    <2>1. CallKnown(q) /\ ProcessKnown(q) /\ proc[q] \in Processes
      BY <1>1 DEF IInv
    <2>2. CASE proc'[q] = proc[q]
      BY <2>1, <2>2 DEF CallKnown, ProcessKnown
    <2>3. CASE proc[q].at = "saving" /\ proc'[q] = [proc[q] EXCEPT !.at = "ask"]
      <3>1. /\ proc'[q].at = "ask" /\ proc'[q].answered = proc[q].answered
            /\ proc'[q].pending = proc[q].pending
        BY <2>1, <2>3 DEF Processes
      <3>q. QED BY <2>1, <2>3, <3>1 DEF CallKnown, ProcessKnown
    <2>q. QED BY <1>2, <2>2, <2>3
  <1>q. QED BY <1>4, <1>5, <1>6, <1>7 DEF IInv

LEMMA ReadFactsKeeps ==
    ASSUME IInv, NEW d \in Drafts, ReadFacts(d)
    PROVE  IInv'
  <1> DEFINE now == version[draft[d].owner]
             facts == draft[d].facts \cup {now}
             row == [draft[d] EXCEPT !.facts = facts]
  <1>1. /\ draft[d].status = "assessing" /\ draft[d].basis # 0
        /\ draft' = [draft EXCEPT ![d].facts = facts]
        /\ UNCHANGED <<run, proc, budget, usage, version>>
    BY DEF ReadFacts
  <1>2. draft \in [Drafts -> DraftRows] /\ DraftKnown(d) /\ version \in [Owners -> Versions]
    BY DEF IInv, TypeOK
  <1>3. now \in Versions
    BY <1>1, <1>2 DEF DraftKnown
  <1>4. facts \subseteq Versions
    BY <1>2, <1>3 DEF DraftRows
  <1>5. \A v \in facts : draft[d].basis <= v /\ v <= now
    BY <1>1, <1>2, <1>3 DEF DraftKnown, Versions
  <1> HIDE DEF facts
  <1>6. row \in DraftRows
    BY <1>2, <1>4 DEF DraftRows
  <1>7. draft' = [draft EXCEPT ![d] = row]
    BY <1>1, <1>2
  <1>8. /\ draft'[d].run = draft[d].run /\ draft'[d].owner = draft[d].owner
        /\ draft'[d].basis = draft[d].basis /\ draft'[d].facts = facts
        /\ draft'[d].status = "assessing"
    BY <1>1, <1>2 DEF DraftRows
  <1>9. DraftKnown(d)'
    BY <1>1, <1>2, <1>5, <1>8 DEF DraftKnown, Saved
  <1> HIDE DEF row
  <1>q. QED BY <1>1, <1>6, <1>7, <1>9, DraftStep

LEMMA CreatePlanningDraftKeeps ==
    ASSUME IInv, NEW d \in Drafts, CreatePlanningDraft(d)
    PROVE  IInv'
  <1> DEFINE row == [draft[d] EXCEPT !.status = "draft"]
  <1>1. /\ draft[d].basis # 0 => draft[d].facts # {}
        /\ draft' = [draft EXCEPT ![d].status = "draft"]
        /\ proc' = Returned(draft[d].run)
        /\ UNCHANGED <<run, budget, usage, version>>
    BY DEF CreatePlanningDraft
  <1>2. draft \in [Drafts -> DraftRows] /\ DraftKnown(d)
    BY DEF IInv, TypeOK
  <1>3. row \in DraftRows
    BY <1>2 DEF DraftRows
  <1>4. draft' = [draft EXCEPT ![d] = row]
    BY <1>1, <1>2
  <1>5. /\ draft'[d].run = draft[d].run /\ draft'[d].owner = draft[d].owner
        /\ draft'[d].basis = draft[d].basis /\ draft'[d].facts = draft[d].facts
    BY <1>1, <1>2 DEF DraftRows
  <1>6. DraftKnown(d)'
    BY <1>1, <1>2, <1>5 DEF DraftKnown
  <1> HIDE DEF row
  <1>q. QED BY <1>1, <1>3, <1>4, <1>6, DraftStep

LEMMA AbortDraftKeeps ==
    ASSUME IInv, NEW d \in Drafts, AbortDraft(d)
    PROVE  IInv'
  <1>1. /\ draft' = [draft EXCEPT ![d] = NoDraft]
        /\ proc' = Returned(draft[d].run)
        /\ UNCHANGED <<run, budget, usage, version>>
    BY DEF AbortDraft
  <1>2. draft \in [Drafts -> DraftRows]
    BY DEF IInv, TypeOK
  <1>3. NoDraft \in DraftRows
    BY ZeroIn DEF NoDraft, DraftRows
  <1>4. DraftKnown(d)'
    BY <1>1, <1>2 DEF DraftKnown, NoDraft
  <1>q. QED BY <1>1, <1>3, <1>4, DraftStep

LEMMA TransitionDraftKeeps ==
    ASSUME IInv, NEW d \in Drafts, NEW status \in {"accepted", "discarded"},
           TransitionDraft(d, status)
    PROVE  IInv'
  <1> DEFINE row == [draft[d] EXCEPT !.status = status]
  <1>1. /\ draft[d].status = "draft"
        /\ draft' = [draft EXCEPT ![d].status = status]
        /\ UNCHANGED <<run, proc, budget, usage, version>>
    BY DEF TransitionDraft
  <1>2. draft \in [Drafts -> DraftRows] /\ DraftKnown(d)
    BY DEF IInv, TypeOK
  <1>3. row \in DraftRows
    BY <1>2 DEF DraftRows
  <1>4. draft' = [draft EXCEPT ![d] = row]
    BY <1>1, <1>2
  <1>5. /\ draft'[d].run = draft[d].run /\ draft'[d].owner = draft[d].owner
        /\ draft'[d].basis = draft[d].basis /\ draft'[d].facts = draft[d].facts
    BY <1>1, <1>2 DEF DraftRows
  <1>6. DraftKnown(d)'
    BY <1>1, <1>2, <1>5 DEF DraftKnown, Saved
  <1> HIDE DEF row
  <1>q. QED BY <1>1, <1>3, <1>4, <1>6, DraftStep

\* Neither a new version of an owner's facts nor a stutter concerns the rest.
LEMMA OthersKeep ==
    ASSUME IInv, UNCHANGED <<run, proc, budget, usage, draft>>,
           version' \in [Owners -> Versions],
           \A o \in Owners : version'[o] >= version[o]
    PROVE  IInv'
  <1>1. TypeOK' /\ OneRunning' /\ CompletedIsPaid' /\ CallsPaid'
    BY BooksKept DEF IInv, TypeOK, OneRunning, CompletedIsPaid
  <1>2. \A d \in Drafts : DraftKnown(d)'
    BY DraftsKept
  <1>3. \A q \in Runs : CallKnown(q)' /\ ProcessKnown(q)'
    BY DEF IInv, CallKnown, ProcessKnown
  <1>q. QED BY <1>1, <1>2, <1>3 DEF IInv

LEMMA RunStepKeeps ==
    ASSUME IInv, NEW r \in Runs, RunStep(r)
    PROVE  IInv'
  <1>1. CASE \E owner \in Owners, bound \in BOOLEAN : StartConsumerAgentRun(r, owner, bound)
    BY <1>1, StartConsumerAgentRunKeeps
  <1>2. CASE DeadlinePasses(r) \/ ReadConsumerAgentRun(r) \/ CancelConsumerAgentRun(r)
    BY <1>2, DeadlinePassesKeeps, ReadConsumerAgentRunKeeps, CancelConsumerAgentRunKeeps
  <1>3. CASE CheckBeforeCall(r) \/ ReserveAttempt(r) \/ Refused(r)
    BY <1>3, CheckBeforeCallKeeps, ReserveAttemptKeeps, RefusedKeeps
  <1>4. CASE \E told, ok \in BOOLEAN, next \in {"tools", "finish"} : Answered(r, told, ok, next)
    BY <1>4, AnsweredKeeps
  <1>5. CASE \E cost \in Costs : SettleModelCost(r, cost)
    BY <1>5, SettleModelCostKeeps
  <1>6. CASE ReadBudgetBasis(r) \/ ToolDone(r) \/ CheckBeforeSave(r) \/ SavePlanningDraft(r)
    BY <1>6, ReadBudgetBasisKeeps, ToolDoneKeeps, CheckBeforeSaveKeeps, SavePlanningDraftKeeps
  <1>7. CASE CheckBeforeEnd(r) \/ Complete(r) \/ Fail(r)
    BY <1>7, CheckBeforeEndKeeps, CompleteKeeps, FailKeeps
  <1>q. QED BY <1>1, <1>2, <1>3, <1>4, <1>5, <1>6, <1>7 DEF RunStep

LEMMA NextIInv == IInv /\ [Next]_vars => IInv'
  <1> SUFFICES ASSUME IInv, [Next]_vars PROVE IInv'
    OBVIOUS
  <1>1. CASE \E r \in Runs : RunStep(r)
    BY <1>1, RunStepKeeps
  <1>2. CASE \E owner \in Planners : PeriodChanges(owner)
    <2>1. PICK owner \in Planners : PeriodChanges(owner)
      BY <1>2
    <2>2. version' \in [Owners -> Versions]
      BY <2>1, ConsumerAgentAssumption DEF PeriodChanges, IInv, TypeOK, Versions
    <2>3. \A o \in Owners : version'[o] >= version[o]
      BY <2>1, ConsumerAgentAssumption DEF PeriodChanges, IInv, TypeOK, Versions
    <2>q. QED BY <2>1, <2>2, <2>3, OthersKeep DEF PeriodChanges
  <1>3. CASE \E d \in Drafts, owner \in Planners, basis \in 0..MaxVersion :
              SaveByHand(d, owner, basis)
    BY <1>3, SaveByHandKeeps
  <1>4. CASE \E d \in Drafts, status \in {"accepted", "discarded"} : TransitionDraft(d, status)
    BY <1>4, TransitionDraftKeeps
  <1>5. CASE \E d \in Drafts : ReadFacts(d) \/ CreatePlanningDraft(d) \/ AbortDraft(d)
    BY <1>5, ReadFactsKeeps, CreatePlanningDraftKeeps, AbortDraftKeeps
  <1>6. CASE UNCHANGED vars
    <2>1. version' \in [Owners -> Versions] /\ \A o \in Owners : version'[o] >= version[o]
      BY <1>6, VersionsKept DEF vars, IInv, TypeOK
    <2>q. QED BY <1>6, <2>1, OthersKeep DEF vars
  <1>q. QED BY <1>1, <1>2, <1>3, <1>4, <1>5, <1>6 DEF Next

------------------------------------------------------------------------------
(* The theorems.                                                           *)

\* Facts read no earlier than the versions a draft names, and no later than
\* versions that are the same, are the facts of those versions.
LEMMA Assessed == IInv => DraftsAssessed
  <1> SUFFICES ASSUME IInv, NEW d \in Drafts
               PROVE  /\ Saved(d) /\ draft[d].basis # 0
                            /\ draft[d].basis = version[draft[d].owner]
                          => draft[d].facts = {draft[d].basis}
                      /\ draft[d].run # None =>
                            (draft[d].basis # 0 <=> run[draft[d].run].bound)
    BY DEF DraftsAssessed
  <1>1. draft[d] \in DraftRows /\ DraftKnown(d)
    BY DEF IInv, TypeOK
  <1>2. ASSUME Saved(d), draft[d].basis # 0, draft[d].basis = version[draft[d].owner]
        PROVE  draft[d].facts = {draft[d].basis}
    <2>1. draft[d].basis \in Int /\ \A v \in draft[d].facts : v \in Int
      BY <1>1 DEF DraftRows, Versions
    <2>2. \A v \in draft[d].facts : draft[d].basis <= v /\ v <= draft[d].basis
      BY <1>1, <1>2 DEF DraftKnown
    <2>3. \A v \in draft[d].facts : v = draft[d].basis
      BY <2>1, <2>2
    <2>4. draft[d].facts # {}
      BY <1>1, <1>2 DEF DraftKnown
    <2>q. QED BY <2>3, <2>4
  <1>q. QED BY <1>1, <1>2 DEF DraftKnown

\* However many owners, runs and calls: one run of an owner at a time, the
\* ceiling of the model's budget kept, every call on the books, completed
\* runs paid for, and a draft whose versions are still current assessed on
\* the facts of those versions, whatever was committed on its way.
THEOREM AssistantsSoundAlways == Spec => []AssistantsSound
  <1>1. IInv => AssistantsSound
    BY Assessed DEF IInv, AssistantsSound
  <1>q. QED BY <1>1, InitIInv, NextIInv, PTL DEF Spec

\* A run that has ended, by its answer, its owner, its deadline or a failure,
\* keeps that end, whatever its process still does.
THEOREM EndsStay ==
    Spec => [][\A r \in Runs : run[r].state \notin {"none", "RUNNING"} =>
                                   run'[r].state = run[r].state]_vars
  <1> DEFINE Stays == \A r \in Runs : run[r].state \notin {"none", "RUNNING"} =>
                                          run'[r].state = run[r].state
  <1>1. IInv /\ Next => Stays
    <2> SUFFICES ASSUME IInv, Next PROVE Stays
      OBVIOUS
    <2>1. run \in [Runs -> Rows]
      BY DEF IInv, TypeOK
    <2>2. CASE UNCHANGED run
      BY <2>2
    <2>3. ASSUME NEW r \in Runs, NEW row, run' = [run EXCEPT ![r] = row],
                 row.state = run[r].state \/ run[r].state = "RUNNING"
          PROVE  Stays
      BY <2>1, <2>3
    <2>4. ASSUME NEW r \in Runs, NEW state \in {"COMPLETED", "FAILED", "CANCELLED"},
                 run' = [run EXCEPT ![r] = Ended(@, state)]
          PROVE  Stays
      BY <2>1, <2>4 DEF Ended
    <2>5. ASSUME NEW r \in Runs, NEW owner \in Owners, NEW bound \in BOOLEAN,
                 StartConsumerAgentRun(r, owner, bound)
          PROVE  Stays
      <3>1. run[r].state = "none"
        BY <2>5 DEF StartConsumerAgentRun
      <3>2. \A q \in Runs \ {r} : run'[q] = Expired(owner)[q]
        BY <2>5 DEF StartConsumerAgentRun, Expired
      <3>3. \A q \in Runs : run[q].state # "RUNNING" => Expired(owner)[q] = run[q]
        BY DEF Expired, Ended
      <3>q. QED BY <3>1, <3>2, <3>3
    <2>6. ASSUME NEW r \in Runs, RunStep(r)
          PROVE  Stays
      <3>1. CASE DeadlinePasses(r) \/ ReserveAttempt(r)
        BY <2>1, <3>1 DEF DeadlinePasses, ReserveAttempt, Rows
      <3>2. CASE ReadConsumerAgentRun(r) \/ CancelConsumerAgentRun(r) \/ Complete(r) \/ Fail(r)
        BY <2>4, <3>2 DEF ReadConsumerAgentRun, CancelConsumerAgentRun, Complete, Fail
      <3>3. CASE \E owner \in Owners, bound \in BOOLEAN : StartConsumerAgentRun(r, owner, bound)
        BY <2>5, <3>3
      <3>4. CASE \/ CheckBeforeCall(r) \/ Refused(r) \/ ReadBudgetBasis(r) \/ ToolDone(r)
                 \/ CheckBeforeSave(r) \/ SavePlanningDraft(r) \/ CheckBeforeEnd(r)
                 \/ \E told, ok \in BOOLEAN, next \in {"tools", "finish"} : Answered(r, told, ok, next)
                 \/ \E cost \in Costs : SettleModelCost(r, cost)
        <4>1. CASE \/ CheckBeforeCall(r) \/ Refused(r) \/ ReadBudgetBasis(r) \/ ToolDone(r)
                   \/ CheckBeforeSave(r) \/ CheckBeforeEnd(r)
          BY <2>2, <4>1 DEF CheckBeforeCall, Refused, ReadBudgetBasis, ToolDone, CheckBeforeSave,
                            CheckBeforeEnd
        <4>2. CASE SavePlanningDraft(r)
          BY <2>2, <4>2 DEF SavePlanningDraft
        <4>3. CASE \E told, ok \in BOOLEAN, next \in {"tools", "finish"} : Answered(r, told, ok, next)
          BY <2>2, <4>3 DEF Answered
        <4>4. CASE \E cost \in Costs : SettleModelCost(r, cost)
          BY <2>2, <4>4 DEF SettleModelCost
        <4>q. QED BY <3>4, <4>1, <4>2, <4>3, <4>4
      <3>q. QED BY <2>6, <3>1, <3>2, <3>3, <3>4 DEF RunStep
    <2>7. ASSUME \/ \E owner \in Planners : PeriodChanges(owner)
                 \/ \E d \in Drafts, owner \in Planners, basis \in 0..MaxVersion :
                       SaveByHand(d, owner, basis)
                 \/ \E d \in Drafts : ReadFacts(d) \/ CreatePlanningDraft(d) \/ AbortDraft(d)
                 \/ \E d \in Drafts, status \in {"accepted", "discarded"} : TransitionDraft(d, status)
          PROVE  Stays
      BY <2>7 DEF PeriodChanges, SaveByHand, ReadFacts, CreatePlanningDraft, AbortDraft,
                  TransitionDraft
    <2>q. QED BY <2>6, <2>7 DEF Next
  <1>q. QED BY <1>1, InitIInv, NextIInv, PTL DEF Spec

------------------------------------------------------------------------------
(* The assistant of one plan: what its rows hold.                           *)

States == {"RUNNING", "WAITING_USER", "WAITING_EXTERNAL", "COMPLETED", "FAILED", "CANCELLED"}
RunRecs ==
    [state : States, error : {"none", "RUN_INTERRUPTED", "MODEL_UNAVAILABLE"},
     parent : Nat, cause : Nat \X (Keys \cup {"none"}), overdue : BOOLEAN,
     draft : {"none", "purchase", "cancel"},
     status : {"none", "pending", "confirmed", "stale", "executing"},
     watch : [kind : {"none", "purchase", "change"}, active : BOOLEAN, fact : Stages]]
WakeupRecs == [state : {"pending", "dispatched", "completed", "failed"}, run : Nat, attempts : Nat]

\* A run in one of these is over for good.
OverStates == {"COMPLETED", "FAILED", "CANCELLED"}

------------------------------------------------------------------------------
(* The invariant, of the runs R, the wakeups W, the order o and the runs S   *)
(* that were stopped.                                                        *)

RunsTyped(R) == R \in Seq(RunRecs)
\* A run is the owner's, or it is an attempt at a wakeup of an earlier run.
Family(R, W) ==
    \A i \in DOMAIN R :
        IF R[i].parent = 0 THEN R[i].cause = NoWakeup
        ELSE /\ R[i].parent \in 1..(i - 1)
             /\ R[i].cause \in DOMAIN W /\ R[i].cause[1] = R[i].parent

OneRuns(R) ==
    \A i, j \in DOMAIN R : R[i].state = "RUNNING" /\ R[j].state = "RUNNING" => i = j

Thrown(R) ==
    \A i \in DOMAIN R : R[i].error = "RUN_INTERRUPTED" => R[i].state = "FAILED"
\* A wakeup that waits has no run, and one handed over has an attempt at it.
Handed(R, W) ==
  /\ W \in [DOMAIN W -> WakeupRecs]
  /\ \A w \in DOMAIN W :
      /\ w \in (DOMAIN R) \X Keys
      /\ W[w].state = "pending" => W[w].run = 0
      /\ W[w].state = "dispatched" => W[w].run # 0
      /\ W[w].run # 0 => W[w].run \in DOMAIN R /\ R[W[w].run].cause = w

Tries(R, w) == {i \in DOMAIN R : R[i].cause = w}
\* The attempts are counted, the last is the wakeup's own, and those before
\* it are over and watch nothing.
InTurn(R, W) ==
    \A w \in DOMAIN W :
        /\ W[w].attempts <= 2 /\ Cardinality(Tries(R, w)) = W[w].attempts
        /\ \A i \in Tries(R, w) :
              /\ i <= W[w].run
              /\ i < W[w].run => R[i].state \in {"FAILED", "CANCELLED"} /\ ~R[i].watch.active
\* What was stopped is over, watches nothing, has no open wakeup, and with it
\* its children are stopped; nothing else is cancelled.
Halted(R, W, S) ==
    /\ S \subseteq DOMAIN R
    /\ \A i \in DOMAIN R :
          /\ R[i].state = "CANCELLED" => i \in S
          /\ R[i].parent \in S => i \in S
    /\ \A i \in S : R[i].state \in OverStates /\ ~R[i].watch.active
    /\ \A w \in DOMAIN W : W[w].state \in Open => w[1] \notin S /\ W[w].run \notin S
\* The order is that of a purchase draft, and whoever drafts a cancellation
\* has seen it paid.
DraftsKnown(R, o) ==
    /\ o.by # 0 => o.by \in DOMAIN R /\ R[o.by].draft = "purchase"
    /\ \A i \in DOMAIN R : R[i].draft = "cancel" => o.stage \notin {"none", "pending", "unknown"}
\* Who watches knows the stage, which is not the last; a run that carries out
\* a confirmation watches the kind of thing that was confirmed.
Watched(R, o) ==
    \A i \in DOMAIN R :
        /\ o.stage = "none" => R[i].watch.kind = "none"
        /\ R[i].watch.active =>
              /\ R[i].watch.kind # "none"
              /\ R[i].watch.fact = o.stage /\ ~Terminal(R[i].watch.kind, o.stage)
        /\ R[i].parent # 0 /\ R[i].watch.kind # "none" =>
              <<R[R[i].parent].draft, R[i].watch.kind>>
                  \in {<<"purchase", "purchase">>, <<"cancel", "change">>}
\* What an attempt has watched is watched by the last one.
Followed(R, W, o, S) ==
    \A i \in DOMAIN R :
        R[i].parent # 0 /\ R[i].watch.kind # "none" =>
            LET last == W[R[i].cause].run
            IN  \/ last \in S
                \/ Terminal(R[i].watch.kind, o.stage)
                \/ R[last].watch.active

Facts(R, W, o, S) ==
    /\ RunsTyped(R) /\ o \in [stage : Stages, by : Nat]
    /\ Family(R, W) /\ OneRuns(R) /\ Thrown(R) /\ Handed(R, W) /\ InTurn(R, W)
    /\ Halted(R, W, S) /\ DraftsKnown(R, o) /\ Watched(R, o) /\ Followed(R, W, o, S)

AgentIInv == Facts(agentRun, wakeup, order, stopped) /\ tokens \in 0..2

LEMMA RunsAre ==
    ASSUME NEW R, RunsTyped(R)
    PROVE  /\ Len(R) \in Nat /\ DOMAIN R = 1..Len(R)
           /\ \A i \in DOMAIN R : i \in Nat /\ R[i] \in RunRecs
  BY LenProperties DEF RunsTyped

LEMMA RunsMade ==
    ASSUME NEW R, RunsTyped(R), NEW Q, Q \in [DOMAIN R -> RunRecs]
    PROVE  RunsTyped(Q) /\ DOMAIN Q = DOMAIN R /\ Len(Q) = Len(R)
  <1>1. Len(R) \in Nat /\ DOMAIN R = 1..Len(R)
    BY RunsAre
  <1>2. Q \in [1..Len(R) -> RunRecs]
    BY <1>1
  <1>3. Q \in Seq(RunRecs)
    BY <1>1, <1>2, SeqDef
  <1>4. 1..Len(Q) = 1..Len(R) /\ Len(Q) \in Nat
    BY <1>2, <1>3, LenProperties
  <1>q. QED BY <1>1, <1>2, <1>3, <1>4 DEF RunsTyped


LEMMA LastTry ==
    ASSUME NEW R, NEW W, NEW o, NEW S, Facts(R, W, o, S),
           NEW i \in DOMAIN R, R[i].parent # 0
    PROVE  /\ R[i].parent \in DOMAIN R /\ R[i].cause \in DOMAIN W
           /\ W[R[i].cause].run \in DOMAIN R
           /\ R[W[R[i].cause].run].cause = R[i].cause
           /\ R[W[R[i].cause].run].parent = R[i].parent
  <1>1. R[i].cause \in DOMAIN W /\ R[i].cause[1] = R[i].parent /\ R[i].parent \in 1..(i - 1)
    BY DEF Facts, Family
  <1>2. i \in 1..Len(R) /\ DOMAIN R = 1..Len(R) /\ Len(R) \in Nat
    BY RunsAre DEF Facts
  <1>3. R[i].parent \in DOMAIN R
    BY <1>1, <1>2
  <1>4. i <= W[R[i].cause].run
    BY <1>1 DEF Facts, InTurn, Tries
  <1>5. W[R[i].cause].run \in Nat
    BY <1>1 DEF Facts, Handed, WakeupRecs
  <1>6. W[R[i].cause].run # 0
    BY <1>2, <1>4, <1>5
  <1>7. W[R[i].cause].run \in DOMAIN R /\ R[W[R[i].cause].run].cause = R[i].cause
    BY <1>1, <1>6 DEF Facts, Handed
  <1>8. R[W[R[i].cause].run].parent = R[i].parent
    BY <1>1, <1>7 DEF Facts, Family, NoWakeup
  <1>q. QED BY <1>1, <1>3, <1>7, <1>8

\* A run that goes on or comes to its end, with the draft it may leave.
Calmer(a, b, stage) ==
    /\ b.parent = a.parent /\ b.cause = a.cause /\ b.watch = a.watch
    /\ b.draft # a.draft =>
          a.draft = "none" /\ (b.draft = "cancel" => stage \notin {"none", "pending", "unknown"})
    /\ \/ b.state = a.state
       \/ a.state = "RUNNING" /\ b.state \in States \ {"RUNNING", "CANCELLED"}
       \/ a.state = "WAITING_EXTERNAL" /\ b.state = "COMPLETED"
    /\ b.error = "RUN_INTERRUPTED" => b.state = "FAILED"

LEMMA RunsGoOn ==
    ASSUME NEW R, NEW W, NEW o, NEW S, Facts(R, W, o, S),
           NEW Q, Q \in [DOMAIN R -> RunRecs],
           \A i \in DOMAIN R : Calmer(R[i], Q[i], o.stage)
    PROVE  Facts(Q, W, o, S)
  <1>t. RunsTyped(Q) /\ DOMAIN Q = DOMAIN R
    BY RunsMade DEF Facts
  <1>d. \A i \in DOMAIN R : R[i].parent # 0 => R[i].parent \in DOMAIN R /\ R[i].cause \in DOMAIN W
    BY RunsAre DEF Facts, Family
  <1>1. Family(Q, W)
    BY <1>t DEF Facts, Family, Calmer
  <1>2. OneRuns(Q)
    BY <1>t DEF Facts, OneRuns, Calmer
  <1>3. Thrown(Q)
    BY <1>t DEF Facts, Thrown, Calmer
  <1>4. Handed(Q, W)
    BY <1>t DEF Facts, Handed, Calmer
  <1>5. InTurn(Q, W)
    <2>1. \A w \in DOMAIN W : Tries(Q, w) = Tries(R, w)
      BY <1>t DEF Tries, Calmer
    <2>2. \A i \in DOMAIN R :
             /\ R[i].state \in {"FAILED", "CANCELLED"} => Q[i].state = R[i].state
             /\ Q[i].watch = R[i].watch
      BY DEF Calmer
    <2>q. QED BY <2>1, <2>2 DEF Facts, InTurn, Tries
  <1>6. Halted(Q, W, S)
    BY <1>t DEF Facts, Halted, Calmer, OverStates, States
  <1>7. DraftsKnown(Q, o)
    BY <1>t DEF Facts, DraftsKnown, Calmer
  <1>8. Watched(Q, o)
    BY <1>t, <1>d DEF Facts, Watched, Calmer
  <1>9. Followed(Q, W, o, S)
    <2>1. \A w \in DOMAIN W : W[w].run # 0 => W[w].run \in DOMAIN R
      BY DEF Facts, Handed
    <2> SUFFICES ASSUME NEW i \in DOMAIN R, R[i].parent # 0, R[i].watch.kind # "none"
                 PROVE  \/ W[R[i].cause].run \in S
                        \/ Terminal(R[i].watch.kind, o.stage)
                        \/ Q[W[R[i].cause].run].watch.active
      BY <1>t DEF Followed, Calmer
    <2>2. \/ W[R[i].cause].run \in S
          \/ Terminal(R[i].watch.kind, o.stage)
          \/ R[W[R[i].cause].run].watch.active
      BY DEF Facts, Followed
    <2>3. W[R[i].cause].run \in DOMAIN R
      BY <1>d, LastTry
    <2>q. QED BY <2>2, <2>3 DEF Calmer
  <1>q. QED BY <1>t, <1>1, <1>2, <1>3, <1>4, <1>5, <1>6, <1>7, <1>8, <1>9 DEF Facts


LEMMA Follows ==
    ASSUME NEW R, NEW W, NEW o, NEW S, Facts(R, W, o, S),
           NEW i \in DOMAIN R, R[i].parent # 0, R[i].watch.kind # "none",
           R[W[R[i].cause].run].watch.active
    PROVE  R[W[R[i].cause].run].watch.kind = R[i].watch.kind
  <1>1. LET last == W[R[i].cause].run
        IN  last \in DOMAIN R /\ R[last].parent = R[i].parent
    BY LastTry
  <1>q. QED BY <1>1 DEF Facts, Watched

\* agent_wakeups with one more for each of ids that has none.
Extended(W, ids) ==
    [w \in ids \cup DOMAIN W |->
        IF w \in DOMAIN W THEN W[w] ELSE [state |-> "pending", run |-> 0, attempts |-> 0]]

LEMMA WakeupsAdded ==
    ASSUME NEW R, NEW W, NEW o, NEW S, Facts(R, W, o, S),
           NEW ids, \A w \in ids : w \in (DOMAIN R) \X Keys /\ w[1] \notin S
    PROVE  Facts(R, Extended(W, ids), o, S)
  <1> DEFINE V == Extended(W, ids)
  <1>a. DOMAIN V = ids \cup DOMAIN W /\ \A w \in DOMAIN W : V[w] = W[w]
    BY DEF Extended
  <1>b. \A w \in DOMAIN V : w \notin DOMAIN W =>
           w \in ids /\ V[w] = [state |-> "pending", run |-> 0, attempts |-> 0]
    BY DEF Extended
  <1>c. 0 \notin DOMAIN R
    BY RunsAre DEF Facts
  <1>d. V \in [DOMAIN V -> WakeupRecs]
    <2>1. \A w \in DOMAIN V : V[w] \in WakeupRecs
      BY <1>a, <1>b DEF Facts, Handed, WakeupRecs
    <2>2. V = [w \in DOMAIN V |-> V[w]]
      BY DEF Extended
    <2>q. QED BY <2>1, <2>2
  <1> HIDE DEF V
  <1>1. Family(R, V)
    BY <1>a DEF Facts, Family
  <1>4. Handed(R, V)
    BY <1>a, <1>b, <1>d DEF Facts, Handed
  <1>5. InTurn(R, V)
    <2>1. ASSUME NEW w \in DOMAIN V, w \notin DOMAIN W
          PROVE  Tries(R, w) = {}
      BY <2>1, <1>b, <1>c DEF Facts, Family, Tries, NoWakeup
    <2>2. Cardinality({}) = 0
      BY FS_EmptySet
    <2>3. ASSUME NEW w \in DOMAIN V, w \notin DOMAIN W
          PROVE  V[w].attempts = 0 /\ Cardinality(Tries(R, w)) = 0
      BY <1>b, <2>1, <2>2, <2>3
    <2>4. ASSUME NEW w \in DOMAIN V, w \in DOMAIN W
          PROVE  V[w] = W[w]
      BY <1>a, <2>4
    <2>q. QED BY <2>1, <2>3, <2>4 DEF Facts, InTurn
  <1>6. Halted(R, V, S)
    <2>1. 0 \notin S
      BY <1>c DEF Facts, Halted
    <2>q. QED BY <1>a, <1>b, <2>1 DEF Facts, Halted
  <1>9. Followed(R, V, o, S)
    BY <1>a, LastTry DEF Facts, Followed
  <1>q. QED BY <1>1, <1>4, <1>5, <1>6, <1>9 DEF Facts, V

LEMMA WakeupsEnd ==
    ASSUME NEW R, NEW W, NEW o, NEW S, Facts(R, W, o, S),
           NEW V, V \in [DOMAIN W -> WakeupRecs],
           \A w \in DOMAIN W :
              /\ V[w].run = W[w].run /\ V[w].attempts = W[w].attempts
              /\ V[w].state = W[w].state \/ V[w].state \in {"completed", "failed"}
    PROVE  Facts(R, V, o, S)
  <1>a. DOMAIN V = DOMAIN W
    OBVIOUS
  <1>1. Family(R, V)
    BY <1>a DEF Facts, Family
  <1>4. Handed(R, V)
    BY <1>a DEF Facts, Handed
  <1>5. InTurn(R, V)
    BY <1>a DEF Facts, InTurn
  <1>6. Halted(R, V, S)
    BY <1>a DEF Facts, Halted, Open
  <1>9. Followed(R, V, o, S)
    BY <1>a, LastTry DEF Facts, Followed
  <1>q. QED BY <1>1, <1>4, <1>5, <1>6, <1>9 DEF Facts

WatchRecs == [kind : {"none", "purchase", "change"}, active : BOOLEAN, fact : Stages]

\* b is a with another watch.
Rewatched(a, b) ==
    /\ b \in RunRecs
    /\ b.state = a.state /\ b.error = a.error /\ b.parent = a.parent /\ b.cause = a.cause
    /\ b.draft = a.draft

WithWatch(a, w) == [a EXCEPT !.watch = w]
WithActive(w, active) == [w EXCEPT !.active = active]
WithFact(w, fact) == [w EXCEPT !.fact = fact]
Noted(a, active, fact) == [a EXCEPT !.watch.active = active, !.watch.fact = fact]

LEMMA WatchType ==
    ASSUME NEW a \in RunRecs, NEW w \in WatchRecs
    PROVE  Rewatched(a, WithWatch(a, w)) /\ WithWatch(a, w).watch = w
  BY DEF RunRecs, WatchRecs, Rewatched, WithWatch

LEMMA WatchActive ==
    ASSUME NEW w \in WatchRecs, NEW active \in BOOLEAN
    PROVE  /\ WithActive(w, active) \in WatchRecs
           /\ WithActive(w, active).kind = w.kind /\ WithActive(w, active).fact = w.fact
           /\ WithActive(w, active).active = active
  BY DEF WatchRecs, WithActive

LEMMA WatchFact ==
    ASSUME NEW w \in WatchRecs, NEW fact \in Stages
    PROVE  /\ WithFact(w, fact) \in WatchRecs
           /\ WithFact(w, fact).kind = w.kind /\ WithFact(w, fact).active = w.active
           /\ WithFact(w, fact).fact = fact
  BY DEF WatchRecs, WithFact

LEMMA WatchOf ==
    ASSUME NEW a \in RunRecs
    PROVE  a.watch \in WatchRecs
  BY DEF RunRecs, WatchRecs

LEMMA NoticeType ==
    ASSUME NEW a \in RunRecs, NEW active \in BOOLEAN, NEW fact \in Stages
    PROVE  /\ Rewatched(a, Noted(a, active, fact))
           /\ Noted(a, active, fact).watch.kind = a.watch.kind
           /\ Noted(a, active, fact).watch.active = active
           /\ Noted(a, active, fact).watch.fact = fact
  <1>1. PICK b : b = Noted(a, active, fact)
    OBVIOUS
  <1>2. PICK v : v = WithActive(a.watch, active)
    OBVIOUS
  <1>3. PICK c : c = WithWatch(a, v)
    OBVIOUS
  <1>4. v \in WatchRecs /\ v.kind = a.watch.kind /\ v.active = active
    BY <1>2, WatchOf, WatchActive
  <1>5. Rewatched(a, c) /\ c.watch = v /\ c \in RunRecs
    BY <1>3, <1>4, WatchType DEF Rewatched
  <1>6. PICK u : u = WithFact(v, fact)
    OBVIOUS
  <1>7. u \in WatchRecs /\ u.kind = v.kind /\ u.active = v.active /\ u.fact = fact
    BY <1>4, <1>6, WatchFact
  <1>8. b = WithWatch(c, u)
    <2>1. [a EXCEPT !.watch.active = active] = c
      BY <1>2, <1>3 DEF WithWatch, WithActive
    <2>2. b = [[a EXCEPT !.watch.active = active] EXCEPT !.watch.fact = fact]
      BY <1>1 DEF Noted
    <2>3. b = [c EXCEPT !.watch.fact = fact]
      BY <2>1, <2>2
    <2>q. QED BY <2>3, <1>5, <1>6 DEF WithWatch, WithFact
  <1>9. Rewatched(c, b) /\ b.watch = u
    BY <1>5, <1>7, <1>8, WatchType
  <1>q. QED BY <1>1, <1>4, <1>5, <1>7, <1>9 DEF Rewatched

\* The runs of R with other watches.
OtherWatches(R, Q) ==
    /\ Q \in [DOMAIN R -> RunRecs]
    /\ \A i \in DOMAIN R :
          /\ Q[i].state = R[i].state /\ Q[i].error = R[i].error
          /\ Q[i].parent = R[i].parent /\ Q[i].cause = R[i].cause
          /\ Q[i].draft = R[i].draft

LEMMA WatchesChange ==
    ASSUME NEW R, NEW W, NEW o, NEW S, Facts(R, W, o, S),
           NEW Q, OtherWatches(R, Q),
           \A i \in DOMAIN R :
              R[i].state \in OverStates => (Q[i].watch.active => R[i].watch.active)
    PROVE  /\ RunsTyped(Q) /\ DOMAIN Q = DOMAIN R
           /\ Family(Q, W) /\ OneRuns(Q) /\ Thrown(Q) /\ Handed(Q, W) /\ InTurn(Q, W)
           /\ Halted(Q, W, S)
  <1>t. RunsTyped(Q) /\ DOMAIN Q = DOMAIN R
    BY RunsMade DEF Facts, OtherWatches
  <1>1. Family(Q, W)
    BY <1>t DEF Facts, Family, OtherWatches
  <1>2. OneRuns(Q)
    BY <1>t DEF Facts, OneRuns, OtherWatches
  <1>3. Thrown(Q)
    BY <1>t DEF Facts, Thrown, OtherWatches
  <1>4. Handed(Q, W)
    BY <1>t DEF Facts, Handed, OtherWatches
  <1>5. InTurn(Q, W)
    <2>1. \A w \in DOMAIN W : Tries(Q, w) = Tries(R, w)
      BY <1>t DEF Tries, OtherWatches
    <2>q. QED BY <1>t, <2>1 DEF Facts, InTurn, Tries, OtherWatches, OverStates
  <1>6. Halted(Q, W, S)
    BY <1>t DEF Facts, Halted, OtherWatches
  <1>q. QED BY <1>t, <1>1, <1>2, <1>3, <1>4, <1>5, <1>6

Kinds == {"none", "purchase", "change"}
Pairs == {<<"purchase", "purchase">>, <<"cancel", "change">>}

LEMMA RunWatches ==
    ASSUME NEW R, NEW W, NEW o, NEW S, Facts(R, W, o, S), o.stage # "none",
           NEW r \in DOMAIN R, R[r].state = "RUNNING",
           NEW kind \in {"purchase", "change"},
           R[r].parent # 0 => <<R[R[r].parent].draft, kind>> \in Pairs
    PROVE  Facts(WatchAgentOrder(R, r, kind, o.stage), W, o, S)
  <1>1. CASE R[r].watch.kind = kind
    BY <1>1 DEF WatchAgentOrder
  <1>2. CASE R[r].watch.kind # kind
    <2> DEFINE new == [kind |-> kind, active |-> ~Terminal(kind, o.stage), fact |-> o.stage]
               Q == [R EXCEPT ![r].watch = new]
    <2>1. new \in [kind : Kinds, active : BOOLEAN, fact : Stages]
      <3>1. o.stage \in Stages
        BY DEF Facts
      <3>q. QED BY <3>1 DEF Kinds
    <2>2. new.kind = kind /\ new.fact = o.stage /\ (new.active <=> ~Terminal(kind, o.stage))
      OBVIOUS
    <2> HIDE DEF new
    <2>r. R = [i \in DOMAIN R |-> R[i]] /\ \A i \in DOMAIN R : R[i] \in RunRecs
      BY LenProperties DEF Facts, RunsTyped
    <2>3. DOMAIN Q = DOMAIN R /\ Q = [i \in DOMAIN R |-> Q[i]]
          /\ Q[r] = WithWatch(R[r], new) /\ \A i \in DOMAIN R \ {r} : Q[i] = R[i]
      BY <2>r DEF WithWatch
    <2> HIDE DEF Q
    <2>4. Rewatched(R[r], Q[r]) /\ Q[r].watch = new
      <3>1. new \in WatchRecs /\ R[r] \in RunRecs
        BY <2>1, <2>r DEF Kinds, WatchRecs
      <3>q. QED BY <3>1, <2>3, WatchType
    <2>5. OtherWatches(R, Q)
      <3>1. \A i \in DOMAIN R : Q[i] \in RunRecs
        BY <2>3, <2>4, <2>r DEF Rewatched
      <3>2. Q \in [DOMAIN R -> RunRecs]
        BY <2>3, <3>1
      <3>q. QED BY <3>2, <2>3, <2>4 DEF OtherWatches, Rewatched
    <2>6. \A i \in DOMAIN R : R[i].state \in OverStates => (Q[i].watch.active => R[i].watch.active)
      BY <2>3 DEF OverStates
    <2>7. /\ RunsTyped(Q) /\ DOMAIN Q = DOMAIN R
          /\ Family(Q, W) /\ OneRuns(Q) /\ Thrown(Q) /\ Handed(Q, W) /\ InTurn(Q, W)
          /\ Halted(Q, W, S)
      BY <2>5, <2>6, WatchesChange
    <2>8. DraftsKnown(Q, o)
      BY <2>5, <2>7 DEF Facts, DraftsKnown, OtherWatches
    <2>p. \A i \in DOMAIN R : R[i].parent # 0 => R[i].parent \in DOMAIN R
      BY LastTry
    <2>9. Watched(Q, o)
      <3> SUFFICES ASSUME NEW i \in DOMAIN R
                   PROVE  /\ Q[i].watch.active =>
                                /\ Q[i].watch.kind # "none"
                                /\ Q[i].watch.fact = o.stage
                                /\ ~Terminal(Q[i].watch.kind, o.stage)
                          /\ Q[i].parent # 0 /\ Q[i].watch.kind # "none" =>
                                <<Q[Q[i].parent].draft, Q[i].watch.kind>> \in Pairs
        BY <2>7 DEF Watched, Pairs
      <3>1. Q[i].parent = R[i].parent
            /\ (R[i].parent # 0 => Q[Q[i].parent].draft = R[R[i].parent].draft)
        BY <2>5, <2>p DEF OtherWatches
      <3>2. CASE i = r
        BY <3>1, <3>2, <2>2, <2>4
      <3>3. CASE i # r
        BY <3>1, <3>3, <2>3 DEF Facts, Watched, Pairs
      <3>q. QED BY <3>2, <3>3
    <2>10. Followed(Q, W, o, S)
      <3> SUFFICES ASSUME NEW i \in DOMAIN R, Q[i].parent # 0, Q[i].watch.kind # "none"
                   PROVE  \/ W[Q[i].cause].run \in S
                          \/ Terminal(Q[i].watch.kind, o.stage)
                          \/ Q[W[Q[i].cause].run].watch.active
        BY <2>7 DEF Followed
      <3>1. Q[i].cause = R[i].cause /\ Q[i].parent = R[i].parent
        BY <2>5 DEF OtherWatches
      <3> DEFINE last == W[R[i].cause].run
      <3>2. last \in DOMAIN R /\ R[last].parent = R[i].parent /\ R[last].cause = R[i].cause
            /\ R[i].cause \in DOMAIN W
        BY <3>1, LastTry
      <3>3. CASE i = r
        <4>1. last = r
          <5>1. i \in Tries(R, R[i].cause)
            BY DEF Tries
          <5>2. i <= last /\ ~ (i < last)
            BY <3>2, <3>3, <5>1 DEF Facts, InTurn
          <5>3. i \in Nat /\ last \in Nat
            BY <3>2, RunsAre DEF Facts
          <5>q. QED BY <3>3, <5>2, <5>3
        <4>q. QED BY <4>1, <3>1, <3>3, <2>2, <2>4
      <3>4. CASE i # r
        <4>1. Q[i] = R[i]
          BY <3>4, <2>3
        <4>2. last \in S \/ Terminal(R[i].watch.kind, o.stage) \/ R[last].watch.active
          BY <3>1, <4>1 DEF Facts, Followed
        <4>3. CASE last = r
          <5>1. <<R[R[i].parent].draft, R[i].watch.kind>> \in Pairs
            BY <3>1, <4>1 DEF Facts, Watched, Pairs
          <5>2. R[i].watch.kind = kind
            BY <3>1, <3>2, <4>3, <5>1 DEF Pairs
          <5>q. QED BY <5>2, <4>1, <4>3, <3>1, <2>2, <2>4
        <4>4. CASE last # r
          BY <4>4, <4>1, <4>2, <3>1, <3>2, <2>3
        <4>q. QED BY <4>3, <4>4
      <3>q. QED BY <3>3, <3>4
    <2>11. Facts(Q, W, o, S)
      BY <2>7, <2>8, <2>9, <2>10 DEF Facts
    <2>12. WatchAgentOrder(R, r, kind, o.stage) = Q
      BY <1>2 DEF WatchAgentOrder, Q, new
    <2>q. QED BY <2>11, <2>12
  <1>q. QED BY <1>1, <1>2

\* What the order becomes when it leaves the stage it is at.
Later(a, b) ==
    /\ b # "none" /\ a # "none"
    /\ \A kind \in Kinds : Terminal(kind, a) => Terminal(kind, b)
    /\ a \notin {"pending", "unknown"} => b \notin {"pending", "unknown"}

LEMMA WatchesNotice ==
    ASSUME NEW R, NEW W, NEW o, NEW S, Facts(R, W, o, S),
           NEW stage \in Stages, Later(o.stage, stage),
           NEW p \in [stage : Stages, by : Nat], p.stage = stage, p.by = o.by
    PROVE  Facts(Noticed(R, stage), W, p, S)
  <1> DEFINE Q == Noticed(R, stage)
  <1>r. R = [i \in DOMAIN R |-> R[i]] /\ \A i \in DOMAIN R : R[i] \in RunRecs
    BY LenProperties DEF Facts, RunsTyped
  <1>1. DOMAIN Q = DOMAIN R /\ Q = [i \in DOMAIN R |-> Q[i]]
    BY DEF Noticed
  <1>2. ASSUME NEW i \in DOMAIN R, i \notin Watchers(R) PROVE Q[i] = R[i]
    BY <1>2 DEF Noticed
  <1>3. ASSUME NEW i \in DOMAIN R, i \in Watchers(R)
        PROVE  /\ Rewatched(R[i], Q[i])
               /\ Q[i].watch.kind = R[i].watch.kind /\ Q[i].watch.fact = stage
               /\ Q[i].watch.active <=> ~Terminal(R[i].watch.kind, stage)
    <2>1. PICK active \in BOOLEAN : active = ~Terminal(R[i].watch.kind, stage)
      OBVIOUS
    <2>2. Q[i] = Noted(R[i], active, stage) /\ R[i] \in RunRecs
      BY <1>r, <1>3, <2>1 DEF Noticed, Noted
    <2>3. /\ Rewatched(R[i], Q[i])
          /\ Q[i].watch.kind = R[i].watch.kind /\ Q[i].watch.active = active
          /\ Q[i].watch.fact = stage
      BY <2>2, NoticeType
    <2>q. QED BY <2>1, <2>3
  <1> HIDE DEF Q
  <1>4. OtherWatches(R, Q)
    <2>1. \A i \in DOMAIN R : Q[i] \in RunRecs
      BY <1>2, <1>3, <1>r DEF Rewatched
    <2>q. QED BY <2>1, <1>1, <1>2, <1>3 DEF OtherWatches, Rewatched
  <1>5. \A i \in DOMAIN R : /\ Q[i].watch.active => R[i].watch.active
                            /\ Q[i].watch.kind = R[i].watch.kind
    BY <1>2, <1>3 DEF Watchers
  <1>6. /\ RunsTyped(Q) /\ DOMAIN Q = DOMAIN R
        /\ Family(Q, W) /\ OneRuns(Q) /\ Thrown(Q) /\ Handed(Q, W) /\ InTurn(Q, W)
        /\ Halted(Q, W, S)
    BY <1>4, <1>5, WatchesChange
  <1>7. DraftsKnown(Q, p)
    BY <1>4, <1>6 DEF Facts, DraftsKnown, OtherWatches, Later
  <1>8. \A i \in DOMAIN R : Q[i].watch.active <=>
           R[i].watch.active /\ ~Terminal(R[i].watch.kind, stage)
    <2> SUFFICES ASSUME NEW i \in DOMAIN R
                 PROVE Q[i].watch.active <=>
                          R[i].watch.active /\ ~Terminal(R[i].watch.kind, stage)
      OBVIOUS
    <2>1. CASE i \in Watchers(R)
      BY <2>1, <1>3 DEF Watchers
    <2>2. CASE i \notin Watchers(R)
      <3>1. ~R[i].watch.active
        BY <2>2 DEF Facts, Halted, Watchers
      <3>q. QED BY <2>2, <3>1, <1>2
    <2>q. QED BY <2>1, <2>2
  <1>9. Watched(Q, p)
    <2> SUFFICES ASSUME NEW i \in DOMAIN R
                 PROVE  /\ Q[i].watch.active =>
                              /\ Q[i].watch.kind # "none"
                              /\ Q[i].watch.fact = stage
                              /\ ~Terminal(Q[i].watch.kind, stage)
                        /\ Q[i].parent # 0 /\ Q[i].watch.kind # "none" =>
                              <<Q[Q[i].parent].draft, Q[i].watch.kind>> \in Pairs
      BY <1>6 DEF Watched, Pairs, Later
    <2>1. R[i].parent # 0 => R[i].parent \in DOMAIN R
      BY LastTry
    <2>2. Q[i].parent = R[i].parent
          /\ (R[i].parent # 0 => Q[Q[i].parent].draft = R[R[i].parent].draft)
      BY <1>4, <2>1 DEF OtherWatches
    <2>3. Q[i].parent # 0 /\ Q[i].watch.kind # "none" =>
             <<Q[Q[i].parent].draft, Q[i].watch.kind>> \in Pairs
      BY <2>2, <1>5 DEF Facts, Watched, Pairs
    <2>4. Q[i].watch.active => Q[i].watch.fact = stage
      BY <1>8, <1>2, <1>3 DEF Watchers, Facts, Halted
    <2>5. R[i].watch.active => R[i].watch.kind # "none"
      BY DEF Facts, Watched
    <2>q. QED BY <2>3, <2>4, <2>5, <1>5, <1>8
  <1>10. Followed(Q, W, p, S)
    <2> SUFFICES ASSUME NEW i \in DOMAIN R, Q[i].parent # 0, Q[i].watch.kind # "none"
                 PROVE  \/ W[Q[i].cause].run \in S
                        \/ Terminal(Q[i].watch.kind, stage)
                        \/ Q[W[Q[i].cause].run].watch.active
      BY <1>6 DEF Followed
    <2>1. Q[i].cause = R[i].cause /\ Q[i].parent = R[i].parent
          /\ Q[i].watch.kind = R[i].watch.kind
      BY <1>4, <1>5 DEF OtherWatches
    <2> DEFINE last == W[R[i].cause].run
    <2>2. last \in S \/ Terminal(R[i].watch.kind, o.stage) \/ R[last].watch.active
      BY <2>1 DEF Facts, Followed
    <2>3. last \in DOMAIN R
      BY <2>1, LastTry
    <2>4. R[i].watch.kind \in Kinds
      BY <1>r DEF RunRecs, Kinds
    <2>5. CASE R[last].watch.active
      <3>1. R[last].watch.kind = R[i].watch.kind
        BY <2>1, <2>5, Follows
      <3>q. QED BY <2>1, <2>3, <2>5, <3>1, <1>8
    <2>q. QED BY <2>1, <2>2, <2>4, <2>5 DEF Later
  <1>q. QED BY <1>6, <1>7, <1>9, <1>10 DEF Facts, Q

LEMMA OrderBegins ==
    ASSUME NEW R, NEW W, NEW o, NEW S, Facts(R, W, o, S), o.stage = "none",
           NEW d \in DOMAIN R, R[d].draft = "purchase"
    PROVE  Facts(R, W, [stage |-> "pending", by |-> d], S)
  <1> DEFINE p == [stage |-> "pending", by |-> d]
  <1>1. p \in [stage : Stages, by : Nat]
    BY RunsAre DEF Facts, Stages
  <1>2. DraftsKnown(R, p)
    BY DEF Facts, DraftsKnown
  <1>3. \A i \in DOMAIN R : R[i].watch.kind = "none" /\ ~R[i].watch.active
    BY DEF Facts, Watched
  <1>4. Watched(R, p) /\ Followed(R, W, p, S)
    BY <1>3 DEF Watched, Followed
  <1>q. QED BY <1>1, <1>2, <1>4 DEF Facts

LEMMA NewRunType ==
    ASSUME NEW p \in Nat, NEW c \in Nat \X (Keys \cup {"none"})
    PROVE  NewRun(p, c) \in RunRecs
  BY DEF NewRun, RunRecs, Unwatched, States, Stages

LEMMA RunAdded ==
    ASSUME NEW R, RunsTyped(R), NEW e \in RunRecs
    PROVE  LET n == Len(R) + 1
               Q == Append(R, e)
           IN  /\ RunsTyped(Q) /\ DOMAIN Q = DOMAIN R \cup {n} /\ n \notin DOMAIN R /\ n \in Nat
               /\ \A i \in DOMAIN R : Q[i] = R[i] /\ i < n /\ i \in Nat
               /\ Q[n] = e /\ n # 0
  <1> DEFINE Q == Append(R, e)
  <1>1. R \in Seq(RunRecs)
    BY DEF RunsTyped
  <1>2. Q \in Seq(RunRecs) /\ Len(Q) = Len(R) + 1
        /\ (\A i \in 1..Len(R) : Q[i] = R[i]) /\ Q[Len(R) + 1] = e
    BY <1>1, AppendProperties
  <1> HIDE DEF Q
  <1>3. Len(R) \in Nat /\ DOMAIN R = 1..Len(R) /\ DOMAIN Q = 1..Len(Q)
    BY <1>1, <1>2, LenProperties
  <1>4. DOMAIN Q = DOMAIN R \cup {Len(R) + 1}
    BY <1>2, <1>3
  <1>5. RunsTyped(Q)
    BY <1>2 DEF RunsTyped
  <1>q. QED BY <1>2, <1>3, <1>4, <1>5 DEF Q

LEMMA RunStarts ==
    ASSUME NEW R, NEW W, NEW o, NEW S, Facts(R, W, o, S),
           \A i \in DOMAIN R : R[i].state # "RUNNING"
    PROVE  Facts(Append(R, NewRun(0, NoWakeup)), W, o, S)
  <1> DEFINE n == Len(R) + 1
             e == NewRun(0, NoWakeup)
             Q == Append(R, e)
  <1>1. e \in RunRecs
    <2>1. NoWakeup \in Nat \X (Keys \cup {"none"})
      BY DEF NoWakeup
    <2>q. QED BY <2>1, NewRunType
  <1>2. /\ e.parent = 0 /\ e.cause = NoWakeup /\ e.state = "RUNNING" /\ e.error = "none"
        /\ e.draft = "none" /\ e.watch.kind = "none" /\ ~e.watch.active
    BY DEF NewRun, Unwatched
  <1> HIDE DEF e
  <1>3. /\ RunsTyped(Q) /\ DOMAIN Q = DOMAIN R \cup {n} /\ n \notin DOMAIN R /\ n \in Nat
        /\ \A i \in DOMAIN R : Q[i] = R[i] /\ i < n /\ i \in Nat
        /\ Q[n] = e /\ n # 0
    BY <1>1, RunAdded DEF Facts
  <1> HIDE DEF Q, n
  <1>4. Family(Q, W)
    BY <1>2, <1>3 DEF Facts, Family
  <1>5. OneRuns(Q)
    BY <1>3 DEF OneRuns
  <1>6. Thrown(Q)
    BY <1>2, <1>3 DEF Facts, Thrown
  <1>7. Handed(Q, W)
    BY <1>3 DEF Facts, Handed
  <1>8. InTurn(Q, W)
    <2>1. ASSUME NEW w \in DOMAIN W PROVE Tries(Q, w) = Tries(R, w)
      <3>1. w[1] # 0
        BY RunsAre DEF Facts, Handed
      <3>2. w # NoWakeup
        BY <3>1 DEF NoWakeup
      <3>q. QED BY <3>2, <1>2, <1>3 DEF Tries
    <2>q. QED BY <2>1, <1>3 DEF Facts, InTurn, Tries
  <1>9. Halted(Q, W, S)
    <2>1. 0 \notin S
      BY RunsAre DEF Facts, Halted
    <2>q. QED BY <2>1, <1>2, <1>3 DEF Facts, Halted
  <1>10. DraftsKnown(Q, o)
    BY <1>2, <1>3 DEF Facts, DraftsKnown
  <1>11. Watched(Q, o)
    <2>1. \A i \in DOMAIN R : R[i].parent # 0 => R[i].parent \in DOMAIN R
      BY LastTry
    <2>q. QED BY <2>1, <1>2, <1>3 DEF Facts, Watched
  <1>12. Followed(Q, W, o, S)
    <2>1. \A i \in DOMAIN R : R[i].parent # 0 => W[R[i].cause].run \in DOMAIN R
      BY LastTry
    <2>q. QED BY <2>1, <1>2, <1>3 DEF Facts, Followed
  <1>q. QED BY <1>3, <1>4, <1>5, <1>6, <1>7, <1>8, <1>9, <1>10, <1>11, <1>12 DEF Facts, Q, e

------------------------------------------------------------------------------
(* A wakeup is dispatched.                                                  *)

\* Q is R with one run more, which watches what the last attempt at w did.
Continued(R, W, w, Q) ==
    LET n == Len(R) + 1
        old == W[w].run
    IN  /\ RunsTyped(Q) /\ DOMAIN Q = DOMAIN R \cup {n} /\ n \notin DOMAIN R
        /\ n \in Nat \ {0}
        /\ \A i \in DOMAIN R :
              /\ i < n /\ i \in Nat
              /\ Q[i].state = R[i].state /\ Q[i].error = R[i].error
              /\ Q[i].parent = R[i].parent /\ Q[i].cause = R[i].cause
              /\ Q[i].draft = R[i].draft /\ Q[i].watch.kind = R[i].watch.kind
              /\ i # old => Q[i].watch = R[i].watch
              /\ i = old => ~Q[i].watch.active
        /\ Q[n].parent = w[1] /\ Q[n].cause = w /\ Q[n].state = "RUNNING"
        /\ Q[n].error = "none" /\ Q[n].draft = "none"
        /\ IF old # 0 /\ R[old].watch.active THEN Q[n].watch = R[old].watch
           ELSE Q[n].watch.kind = "none" /\ ~Q[n].watch.active

LEMMA Inherits ==
    ASSUME NEW R, NEW W, NEW o, NEW S, Facts(R, W, o, S), NEW w \in DOMAIN W
    PROVE  LET A == Append(R, NewRun(w[1], w))
           IN  Continued(R, W, w, IF W[w].run = 0 THEN A ELSE Inherit(A, W[w].run, Len(R) + 1))
  <1> DEFINE n == Len(R) + 1
             old == W[w].run
             e == NewRun(w[1], w)
             A == Append(R, e)
  <1>1. e \in RunRecs
    <2>1. w[1] \in Nat /\ w \in Nat \X (Keys \cup {"none"})
      BY RunsAre DEF Facts, Handed
    <2>q. QED BY <2>1, NewRunType
  <1>2. /\ e.parent = w[1] /\ e.cause = w /\ e.state = "RUNNING" /\ e.error = "none"
        /\ e.draft = "none" /\ e.watch.kind = "none" /\ ~e.watch.active
    BY DEF NewRun, Unwatched
  <1> HIDE DEF e
  <1>3. /\ RunsTyped(A) /\ DOMAIN A = DOMAIN R \cup {n} /\ n \notin DOMAIN R /\ n \in Nat
        /\ \A i \in DOMAIN R : A[i] = R[i] /\ i < n /\ i \in Nat
        /\ A[n] = e /\ n # 0
    BY <1>1, RunAdded DEF Facts
  <1> HIDE DEF A, n
  <1>4. old # 0 => old \in DOMAIN R
    BY DEF Facts, Handed
  <1>5. CASE old = 0
    <2>1. Continued(R, W, w, A)
      BY <1>2, <1>3, <1>5, RunsAre DEF Continued, Facts, n
    <2>q. QED BY <2>1, <1>5 DEF A, e
  <1>6. CASE old # 0
    <2>1. PICK x : x = IF A[old].watch.active THEN A[old].watch ELSE Unwatched
      OBVIOUS
    <2>2. PICK y : y = WithActive(A[old].watch, FALSE)
      OBVIOUS
    <2>3. old \in DOMAIN A /\ old # n /\ n \in DOMAIN A /\ A[old] = R[old]
      BY <1>3, <1>4, <1>6
    <2>4. \A i \in DOMAIN A : A[i] \in RunRecs
      BY <1>3, RunsAre
    <2>5. A[old].watch \in WatchRecs /\ Unwatched \in WatchRecs
      BY <2>3, <2>4, WatchOf DEF WatchRecs, Unwatched, Stages
    <2>6. y \in WatchRecs /\ y.kind = A[old].watch.kind /\ ~y.active
      BY <2>2, <2>5, WatchActive
    <2>7. x \in WatchRecs
      BY <2>1, <2>5
    <2>8. PICK Q : Q = Inherit(A, old, n)
      OBVIOUS
    <2>9. Q = [A EXCEPT ![n].watch = x, ![old].watch.active = FALSE]
      BY <2>1, <2>8 DEF Inherit
    <2>f. A = [i \in DOMAIN A |-> A[i]]
      BY <1>3, LenProperties DEF RunsTyped
    <2>10. /\ Q = [i \in DOMAIN A |-> Q[i]] /\ DOMAIN Q = DOMAIN A
           /\ Q[n] = WithWatch(A[n], x)
           /\ \A i \in DOMAIN A : i # n /\ i # old => Q[i] = A[i]
      BY <2>3, <2>9, <2>f DEF WithWatch
    <2>11. Q[old] = WithWatch(A[old], y)
      BY <2>2, <2>3, <2>9, <2>f DEF WithWatch, WithActive
    <2>12. Rewatched(A[n], Q[n]) /\ Q[n].watch = x
      BY <2>3, <2>4, <2>7, <2>10, WatchType
    <2>13. Rewatched(A[old], Q[old]) /\ Q[old].watch = y
      BY <2>3, <2>4, <2>6, <2>11, WatchType
    <2>14. RunsTyped(Q)
      <3>1. \A i \in DOMAIN A : Q[i] \in RunRecs
        BY <2>4, <2>10, <2>12, <2>13 DEF Rewatched
      <3>2. Q \in [DOMAIN A -> RunRecs]
        BY <2>10, <3>1
      <3>q. QED BY <3>2, <1>3, RunsMade
    <2>15. Continued(R, W, w, Q)
      <3>1. /\ DOMAIN Q = DOMAIN R \cup {n} /\ n \notin DOMAIN R /\ n \in Nat \ {0}
        BY <1>3, <2>10
      <3>2. ASSUME NEW i \in DOMAIN R
            PROVE  /\ i < n /\ i \in Nat
                   /\ Q[i].state = R[i].state /\ Q[i].error = R[i].error
                   /\ Q[i].parent = R[i].parent /\ Q[i].cause = R[i].cause
                   /\ Q[i].draft = R[i].draft /\ Q[i].watch.kind = R[i].watch.kind
                   /\ i # old => Q[i].watch = R[i].watch
                   /\ i = old => ~Q[i].watch.active
        <4>1. CASE i = old
          BY <4>1, <1>3, <2>6, <2>13 DEF Rewatched
        <4>2. CASE i # old
          BY <4>2, <1>3, <2>10
        <4>q. QED BY <4>1, <4>2
      <3>3. /\ Q[n].parent = w[1] /\ Q[n].cause = w /\ Q[n].state = "RUNNING"
            /\ Q[n].error = "none" /\ Q[n].draft = "none"
        BY <1>2, <1>3, <2>12 DEF Rewatched
      <3>4. IF old # 0 /\ R[old].watch.active THEN Q[n].watch = R[old].watch
            ELSE Q[n].watch.kind = "none" /\ ~Q[n].watch.active
        BY <1>6, <2>1, <2>3, <2>12 DEF Unwatched
      <3>q. QED BY <2>14, <3>1, <3>2, <3>3, <3>4 DEF Continued, n
    <2>q. QED BY <1>6, <2>8, <2>15 DEF A, e, n
  <1>q. QED BY <1>5, <1>6

LEMMA WakeupDispatched ==
    ASSUME NEW R, NEW W, NEW o, NEW S, Facts(R, W, o, S),
           \A i \in DOMAIN R : R[i].state # "RUNNING",
           NEW w \in DOMAIN W, W[w].state \in Open, W[w].attempts < 2,
           W[w].run # 0 => R[W[w].run].state \in {"FAILED", "CANCELLED"},
           NEW Q, Continued(R, W, w, Q),
           NEW V, V \in [DOMAIN W -> WakeupRecs],
           \A v \in DOMAIN W : v # w => V[v] = W[v],
           V[w].state = "dispatched", V[w].run = Len(R) + 1,
           V[w].attempts = W[w].attempts + 1
    PROVE  Facts(Q, V, o, S)
  <1> DEFINE n == Len(R) + 1
             old == W[w].run
  <1>1. /\ RunsTyped(Q) /\ DOMAIN Q = DOMAIN R \cup {n} /\ n \notin DOMAIN R
        /\ n \in Nat \ {0}
        /\ \A i \in DOMAIN R :
              /\ i < n /\ i \in Nat
              /\ Q[i].state = R[i].state /\ Q[i].error = R[i].error
              /\ Q[i].parent = R[i].parent /\ Q[i].cause = R[i].cause
              /\ Q[i].draft = R[i].draft /\ Q[i].watch.kind = R[i].watch.kind
              /\ i # old => Q[i].watch = R[i].watch
              /\ i = old => ~Q[i].watch.active
        /\ Q[n].parent = w[1] /\ Q[n].cause = w /\ Q[n].state = "RUNNING"
        /\ Q[n].error = "none" /\ Q[n].draft = "none"
        /\ IF old # 0 /\ R[old].watch.active THEN Q[n].watch = R[old].watch
           ELSE Q[n].watch.kind = "none" /\ ~Q[n].watch.active
    BY DEF Continued
  <1>2. V[w].run = n /\ DOMAIN V = DOMAIN W
    OBVIOUS
  <1> HIDE DEF n
  <1>3. w \in (DOMAIN R) \X Keys /\ (old # 0 => old \in DOMAIN R /\ R[old].cause = w)
    BY DEF Facts, Handed
  <1>4. w[1] \in DOMAIN R /\ w[1] \notin S /\ old \notin S /\ w # NoWakeup /\ n \notin S
    <2>1. w[1] \notin S /\ old \notin S /\ S \subseteq DOMAIN R
      BY DEF Facts, Halted
    <2>2. 0 \notin DOMAIN R
      BY RunsAre DEF Facts
    <2>3. w[1] \in DOMAIN R
      BY <1>3
    <2>q. QED BY <2>1, <2>2, <2>3, <1>1 DEF NoWakeup
  <1>5. Family(Q, V)
    <2>1. w[1] \in 1..(n - 1)
      BY <1>1, <1>4, RunsAre DEF Facts, n
    <2>2. w[1] # 0
      BY <2>1
    <2>q. QED BY <1>1, <1>2, <2>1, <2>2 DEF Facts, Family
  <1>6. OneRuns(Q)
    BY <1>1 DEF OneRuns
  <1>7. Thrown(Q)
    BY <1>1 DEF Facts, Thrown
  <1>8. Handed(Q, V)
    <2> SUFFICES ASSUME NEW v \in DOMAIN W
                 PROVE  /\ v \in (DOMAIN Q) \X Keys
                        /\ V[v].state = "pending" => V[v].run = 0
                        /\ V[v].state = "dispatched" => V[v].run # 0
                        /\ V[v].run # 0 => V[v].run \in DOMAIN Q /\ Q[V[v].run].cause = v
      BY <1>2 DEF Handed
    <2>1. v \in (DOMAIN R) \X Keys
      BY DEF Facts, Handed
    <2>2. CASE v = w
      BY <2>1, <2>2, <1>1, <1>2
    <2>3. CASE v # w
      <3>1. /\ W[v].state = "pending" => W[v].run = 0
            /\ W[v].state = "dispatched" => W[v].run # 0
            /\ W[v].run # 0 => W[v].run \in DOMAIN R /\ R[W[v].run].cause = v
        BY DEF Facts, Handed
      <3>2. V[v] = W[v]
        BY <2>3
      <3>3. /\ DOMAIN R \subseteq DOMAIN Q
            /\ \A i \in DOMAIN R : Q[i].cause = R[i].cause
        BY <1>1
      <3>4. v \in (DOMAIN Q) \X Keys
        BY <2>1, <3>3
      <3>q. QED BY <3>1, <3>2, <3>3, <3>4
    <2>q. QED BY <2>2, <2>3
  <1>9. InTurn(Q, V)
    <2>1. \A v \in DOMAIN W : v # w => Tries(Q, v) = Tries(R, v)
      BY <1>1 DEF Tries
    <2>2. Tries(Q, w) = Tries(R, w) \cup {n} /\ n \notin Tries(R, w)
      BY <1>1 DEF Tries
    <2>3. IsFiniteSet(Tries(R, w))
      <3>1. DOMAIN R = 1..Len(R) /\ Len(R) \in Nat
        BY RunsAre DEF Facts
      <3>2. 1 \in Int /\ Len(R) \in Int
        BY <3>1
      <3>3. IsFiniteSet(DOMAIN R)
        BY <3>1, <3>2, FS_Interval
      <3>4. Tries(R, w) \subseteq DOMAIN R
        BY DEF Tries
      <3>q. QED BY <3>3, <3>4, FS_Subset
    <2>4. Cardinality(Tries(Q, w)) = Cardinality(Tries(R, w)) + 1
      BY <2>2, <2>3, FS_AddElement
    <2>5. Cardinality(Tries(R, w)) = W[w].attempts /\ W[w].attempts \in Nat
      BY DEF Facts, InTurn, Handed, WakeupRecs
    <2>6. V[w].attempts <= 2 /\ Cardinality(Tries(Q, w)) = V[w].attempts
      BY <2>4, <2>5
    <2>7. ASSUME NEW i \in Tries(Q, w)
          PROVE  /\ i <= V[w].run
                 /\ i < V[w].run => Q[i].state \in {"FAILED", "CANCELLED"} /\ ~Q[i].watch.active
      <3>1. CASE i = n
        BY <3>1, <1>1, <1>2
      <3>2. CASE i # n
        <4>1. i \in Tries(R, w) /\ i \in DOMAIN R
          BY <2>2, <3>2 DEF Tries
        <4>2. i <= old /\ (i < old => R[i].state \in {"FAILED", "CANCELLED"} /\ ~R[i].watch.active)
          BY <4>1 DEF Facts, InTurn
        <4>3. i # 0 /\ i \in Nat /\ old \in Nat
          BY <4>1, RunsAre DEF Facts, Handed, WakeupRecs
        <4>4. old # 0
          BY <4>2, <4>3
        <4>5. CASE i = old
          BY <4>1, <4>4, <4>5, <1>1, <1>2
        <4>6. CASE i # old
          BY <4>1, <4>2, <4>3, <4>6, <1>1, <1>2
        <4>q. QED BY <4>5, <4>6
      <3>q. QED BY <3>1, <3>2
    <2>8. ASSUME NEW v \in DOMAIN W, v # w, NEW i \in Tries(Q, v)
          PROVE  /\ i <= V[v].run
                 /\ i < V[v].run => Q[i].state \in {"FAILED", "CANCELLED"} /\ ~Q[i].watch.active
      <3>1. i \in Tries(R, v) /\ i \in DOMAIN R /\ R[i].cause = v
        BY <2>1, <2>8 DEF Tries
      <3>2. i # old
        <4>1. i # 0
          BY <3>1, RunsAre DEF Facts
        <4>q. QED BY <4>1, <3>1, <1>3, <2>8
      <3>3. i <= W[v].run
            /\ (i < W[v].run => R[i].state \in {"FAILED", "CANCELLED"} /\ ~R[i].watch.active)
        BY <3>1 DEF Facts, InTurn
      <3>q. QED BY <3>1, <3>2, <3>3, <2>8, <1>1
    <2>9. ASSUME NEW v \in DOMAIN W, v # w
          PROVE  V[v].attempts <= 2 /\ Cardinality(Tries(Q, v)) = V[v].attempts
      BY <2>1, <2>9 DEF Facts, InTurn
    <2>q. QED BY <2>6, <2>7, <2>8, <2>9, <1>2 DEF InTurn
  <1>10. Halted(Q, V, S)
    <2>1. S \subseteq DOMAIN Q
      BY <1>1 DEF Facts, Halted
    <2>2. \A i \in DOMAIN Q :
             (Q[i].state = "CANCELLED" => i \in S) /\ (Q[i].parent \in S => i \in S)
      BY <1>1, <1>4 DEF Facts, Halted
    <2>3. \A i \in S : Q[i].state \in OverStates /\ ~Q[i].watch.active
      BY <1>1, <1>4 DEF Facts, Halted
    <2>4. \A v \in DOMAIN V : V[v].state \in Open => v[1] \notin S /\ V[v].run \notin S
      BY <1>2, <1>4 DEF Facts, Halted
    <2>q. QED BY <2>1, <2>2, <2>3, <2>4 DEF Halted
  <1>11. DraftsKnown(Q, o)
    <2>1. o.by # 0 => o.by \in DOMAIN R /\ R[o.by].draft = "purchase"
      BY DEF Facts, DraftsKnown
    <2>q. QED BY <2>1, <1>1 DEF Facts, DraftsKnown
  <1>12. old # 0 => R[old].parent = w[1] /\ R[old].parent # 0
    BY <1>3, <1>4 DEF Facts, Family
  <1>13. Watched(Q, o)
    <2>1. ASSUME NEW i \in DOMAIN R
          PROVE  /\ o.stage = "none" => Q[i].watch.kind = "none"
                 /\ Q[i].watch.active =>
                       /\ Q[i].watch.kind # "none"
                       /\ Q[i].watch.fact = o.stage /\ ~Terminal(Q[i].watch.kind, o.stage)
                 /\ Q[i].parent # 0 /\ Q[i].watch.kind # "none" =>
                       <<Q[Q[i].parent].draft, Q[i].watch.kind>> \in Pairs
      <3>1. R[i].parent # 0 => R[i].parent \in DOMAIN R
        BY LastTry
      <3>2. Q[i].watch.active => R[i].watch.active /\ Q[i].watch = R[i].watch
        BY <1>1
      <3>q. QED BY <3>1, <3>2, <1>1 DEF Facts, Watched, Pairs
    <2>2. /\ o.stage = "none" => Q[n].watch.kind = "none"
          /\ Q[n].watch.active =>
                /\ Q[n].watch.kind # "none"
                /\ Q[n].watch.fact = o.stage /\ ~Terminal(Q[n].watch.kind, o.stage)
          /\ Q[n].parent # 0 /\ Q[n].watch.kind # "none" =>
                <<Q[Q[n].parent].draft, Q[n].watch.kind>> \in Pairs
      <3>1. CASE old # 0 /\ R[old].watch.active
        <4>1. Q[n].watch = R[old].watch /\ old \in DOMAIN R
          BY <3>1, <1>1, <1>3
        <4>2. Q[Q[n].parent].draft = R[R[old].parent].draft
          BY <3>1, <1>1, <1>4, <1>12
        <4>3. R[old].parent # 0
          BY <3>1, <1>12
        <4>q. QED BY <4>1, <4>2, <4>3 DEF Facts, Watched, Pairs
      <3>2. CASE ~(old # 0 /\ R[old].watch.active)
        BY <3>2, <1>1
      <3>q. QED BY <3>1, <3>2
    <2>q. QED BY <2>1, <2>2, <1>1 DEF Watched, Pairs
  <1>14. Followed(Q, V, o, S)
    <2>1. ASSUME NEW i \in DOMAIN R, Q[i].parent # 0, Q[i].watch.kind # "none"
          PROVE  \/ V[Q[i].cause].run \in S
                 \/ Terminal(Q[i].watch.kind, o.stage)
                 \/ Q[V[Q[i].cause].run].watch.active
      <3>1. Q[i].parent = R[i].parent /\ Q[i].cause = R[i].cause
            /\ Q[i].watch.kind = R[i].watch.kind
        BY <1>1
      <3> DEFINE last == W[R[i].cause].run
      <3>2. last \in DOMAIN R /\ R[last].cause = R[i].cause /\ R[i].cause \in DOMAIN W
        BY <2>1, <3>1, LastTry
      <3>3. last \in S \/ Terminal(R[i].watch.kind, o.stage) \/ R[last].watch.active
        BY <2>1, <3>1 DEF Facts, Followed
      <3>4. CASE R[i].cause = w
        <4>1. last = old /\ old # 0
          BY <3>2, <3>4, RunsAre DEF Facts
        <4>q. QED BY <4>1, <3>1, <3>3, <3>4, <1>1, <1>2, <1>4
      <3>5. CASE R[i].cause # w
        <4>1. last # old
          <5>1. last # 0
            BY <3>2, RunsAre DEF Facts
          <5>q. QED BY <5>1, <3>2, <3>5, <1>3
        <4>2. Q[last].watch = R[last].watch /\ V[R[i].cause].run = last
          BY <4>1, <3>2, <3>5, <1>1
        <4>q. QED BY <4>2, <3>1, <3>3
      <3>q. QED BY <3>4, <3>5
    <2>2. ASSUME Q[n].watch.kind # "none" PROVE Q[V[Q[n].cause].run].watch.active
      BY <2>2, <1>1, <1>2
    <2>q. QED BY <2>1, <2>2, <1>1 DEF Followed
  <1>q. QED BY <1>1, <1>5, <1>6, <1>7, <1>8, <1>9, <1>10, <1>11, <1>13, <1>14 DEF Facts

------------------------------------------------------------------------------
(* A branch is stopped.                                                     *)

LEMMA BranchStops ==
    ASSUME NEW R, NEW W, NEW o, NEW S, Facts(R, W, o, S),
           NEW B \in SUBSET DOMAIN R, \A i \in DOMAIN R : R[i].parent \in B => i \in B,
           \A w \in DOMAIN W : W[w].state \in Open => w[1] \notin B /\ W[w].run \notin B,
           NEW Q, Q \in [DOMAIN R -> RunRecs],
           \A i \in DOMAIN R \ B : Q[i] = R[i],
           \A i \in B :
              /\ Q[i].parent = R[i].parent /\ Q[i].cause = R[i].cause
              /\ Q[i].draft = R[i].draft /\ Q[i].error = R[i].error
              /\ Q[i].watch.kind = R[i].watch.kind /\ ~Q[i].watch.active
              /\ Q[i].state = IF R[i].state \in OverStates THEN R[i].state ELSE "CANCELLED"
    PROVE  Facts(Q, W, o, S \cup B)
  <1>t. RunsTyped(Q) /\ DOMAIN Q = DOMAIN R
    BY RunsMade DEF Facts
  <1>a. \A i \in DOMAIN R :
           /\ Q[i].parent = R[i].parent /\ Q[i].cause = R[i].cause
           /\ Q[i].draft = R[i].draft /\ Q[i].error = R[i].error
           /\ Q[i].watch.kind = R[i].watch.kind
           /\ Q[i].watch.active => Q[i] = R[i]
           /\ R[i].state \in OverStates => Q[i].state = R[i].state
           /\ Q[i].state = R[i].state \/ (Q[i].state = "CANCELLED" /\ i \in B)
           /\ i \in B => Q[i].state \in OverStates /\ ~Q[i].watch.active
    BY DEF OverStates
  <1>1. Family(Q, W)
    BY <1>t, <1>a DEF Facts, Family
  <1>2. OneRuns(Q)
    BY <1>t, <1>a DEF Facts, OneRuns
  <1>3. Thrown(Q)
    BY <1>t, <1>a DEF Facts, Thrown, OverStates
  <1>4. Handed(Q, W)
    BY <1>t, <1>a DEF Facts, Handed
  <1>5. InTurn(Q, W)
    <2>1. \A w \in DOMAIN W : Tries(Q, w) = Tries(R, w)
      BY <1>t, <1>a DEF Tries
    <2>2. \A i \in DOMAIN R :
             R[i].state \in {"FAILED", "CANCELLED"} /\ ~R[i].watch.active =>
                Q[i].state \in {"FAILED", "CANCELLED"} /\ ~Q[i].watch.active
      BY <1>a DEF OverStates
    <2>q. QED BY <2>1, <2>2 DEF Facts, InTurn, Tries
  <1>6. Halted(Q, W, S \cup B)
    <2>1. \A i \in S : Q[i].state \in OverStates /\ ~Q[i].watch.active
      BY <1>a DEF Facts, Halted
    <2>q. QED BY <2>1, <1>t, <1>a DEF Facts, Halted
  <1>7. DraftsKnown(Q, o)
    BY <1>t, <1>a DEF Facts, DraftsKnown
  <1>8. Watched(Q, o)
    <2>1. \A i \in DOMAIN R : R[i].parent # 0 => R[i].parent \in DOMAIN R
      BY LastTry
    <2>q. QED BY <2>1, <1>t, <1>a DEF Facts, Watched
  <1>9. Followed(Q, W, o, S \cup B)
    <2> SUFFICES ASSUME NEW i \in DOMAIN R, Q[i].parent # 0, Q[i].watch.kind # "none"
                 PROVE  \/ W[Q[i].cause].run \in S \cup B
                        \/ Terminal(Q[i].watch.kind, o.stage)
                        \/ Q[W[Q[i].cause].run].watch.active
      BY <1>t DEF Followed
    <2>1. Q[i].parent = R[i].parent /\ Q[i].cause = R[i].cause
          /\ Q[i].watch.kind = R[i].watch.kind
      BY <1>a
    <2>2. W[R[i].cause].run \in DOMAIN R
      BY <2>1, LastTry
    <2>3. \/ W[R[i].cause].run \in S
          \/ Terminal(R[i].watch.kind, o.stage)
          \/ R[W[R[i].cause].run].watch.active
      BY <2>1 DEF Facts, Followed
    <2>q. QED BY <2>1, <2>2, <2>3
  <1>q. QED BY <1>t, <1>1, <1>2, <1>3, <1>4, <1>5, <1>6, <1>7, <1>8, <1>9 DEF Facts

------------------------------------------------------------------------------
(* What the operators of the model make of a run.                           *)

EndedOf(a, state) == [a EXCEPT !.state = state, !.overdue = FALSE]
Thrower(a, error) == [a EXCEPT !.error = error]
Drafter(a, kind) == [a EXCEPT !.draft = kind, !.status = "pending"]
WithStatus(a, status) == [a EXCEPT !.status = status]
Late(a) == [a EXCEPT !.overdue = TRUE]

Statuses == {"none", "pending", "confirmed", "stale", "executing"}

\* The fields but those of one change.
Alike(a, b) ==
    b.parent = a.parent /\ b.cause = a.cause /\ b.watch = a.watch

LEMMA EndedType ==
    ASSUME NEW a \in RunRecs, NEW state \in States
    PROVE  /\ EndedOf(a, state) \in RunRecs /\ Alike(a, EndedOf(a, state))
           /\ EndedOf(a, state).draft = a.draft /\ EndedOf(a, state).state = state
           /\ EndedOf(a, state).error = a.error /\ EndedOf(a, state).status = a.status
  <1>1. PICK b : b = [a EXCEPT !.state = state]
    OBVIOUS
  <1>2. /\ b \in RunRecs /\ Alike(a, b) /\ b.draft = a.draft /\ b.state = state
        /\ b.error = a.error /\ b.status = a.status
    BY <1>1 DEF RunRecs, Alike
  <1>3. EndedOf(a, state) = [b EXCEPT !.overdue = FALSE]
    BY <1>1 DEF EndedOf
  <1>4. PICK c : c = [b EXCEPT !.overdue = FALSE]
    OBVIOUS
  <1>5. /\ c \in RunRecs /\ Alike(b, c) /\ c.draft = b.draft /\ c.state = b.state
        /\ c.error = b.error /\ c.status = b.status
    BY <1>2, <1>4 DEF RunRecs, Alike
  <1>q. QED BY <1>2, <1>3, <1>4, <1>5 DEF Alike

LEMMA ThrowerType ==
    ASSUME NEW a \in RunRecs, NEW error \in {"none", "RUN_INTERRUPTED", "MODEL_UNAVAILABLE"}
    PROVE  /\ Thrower(a, error) \in RunRecs /\ Alike(a, Thrower(a, error))
           /\ Thrower(a, error).draft = a.draft /\ Thrower(a, error).state = a.state
           /\ Thrower(a, error).error = error
  BY DEF RunRecs, Alike, Thrower

LEMMA StatusType ==
    ASSUME NEW a \in RunRecs, NEW status \in Statuses
    PROVE  /\ WithStatus(a, status) \in RunRecs /\ Alike(a, WithStatus(a, status))
           /\ WithStatus(a, status).draft = a.draft /\ WithStatus(a, status).state = a.state
           /\ WithStatus(a, status).error = a.error /\ WithStatus(a, status).status = status
  BY DEF RunRecs, Alike, WithStatus, Statuses

LEMMA LateType ==
    ASSUME NEW a \in RunRecs
    PROVE  /\ Late(a) \in RunRecs /\ Alike(a, Late(a))
           /\ Late(a).draft = a.draft /\ Late(a).state = a.state /\ Late(a).error = a.error
  BY DEF RunRecs, Alike, Late

LEMMA DrafterType ==
    ASSUME NEW a \in RunRecs, NEW kind \in {"purchase", "cancel"}
    PROVE  /\ Drafter(a, kind) \in RunRecs /\ Alike(a, Drafter(a, kind))
           /\ Drafter(a, kind).draft = kind /\ Drafter(a, kind).state = a.state
           /\ Drafter(a, kind).error = a.error
  <1>1. PICK b : b = [a EXCEPT !.draft = kind]
    OBVIOUS
  <1>2. /\ b \in RunRecs /\ Alike(a, b) /\ b.draft = kind /\ b.state = a.state
        /\ b.error = a.error
    BY <1>1 DEF RunRecs, Alike
  <1>3. Drafter(a, kind) = [b EXCEPT !.status = "pending"]
    BY <1>1 DEF Drafter
  <1>4. PICK c : c = WithStatus(b, "pending")
    OBVIOUS
  <1>5. /\ c \in RunRecs /\ Alike(b, c) /\ c.draft = b.draft /\ c.state = b.state
        /\ c.error = b.error
    BY <1>2, <1>4, StatusType DEF Statuses
  <1>q. QED BY <1>2, <1>3, <1>4, <1>5 DEF Alike, WithStatus

LEMMA CalmSelf ==
    ASSUME NEW R, Thrown(R), NEW i \in DOMAIN R, NEW stage
    PROVE  Calmer(R[i], R[i], stage)
  BY DEF Calmer, Thrown

\* One run of R goes on.
LEMMA RunGoesOn ==
    ASSUME NEW R, NEW W, NEW o, NEW S, Facts(R, W, o, S),
           NEW r \in DOMAIN R, NEW e \in RunRecs, Calmer(R[r], e, o.stage)
    PROVE  /\ Facts([R EXCEPT ![r] = e], W, o, S)
           /\ DOMAIN [R EXCEPT ![r] = e] = DOMAIN R
           /\ [R EXCEPT ![r] = e][r] = e
           /\ \A i \in DOMAIN R \ {r} : [R EXCEPT ![r] = e][i] = R[i]
  <1> DEFINE Q == [R EXCEPT ![r] = e]
  <1>1. R = [i \in DOMAIN R |-> R[i]] /\ \A i \in DOMAIN R : R[i] \in RunRecs
    BY LenProperties DEF Facts, RunsTyped
  <1>2. /\ Q \in [DOMAIN R -> RunRecs] /\ Q[r] = e /\ \A i \in DOMAIN R \ {r} : Q[i] = R[i]
    BY <1>1
  <1> HIDE DEF Q
  <1>3. \A i \in DOMAIN R : Calmer(R[i], Q[i], o.stage)
    BY <1>2, CalmSelf DEF Facts
  <1>4. Facts(Q, W, o, S) /\ DOMAIN Q = DOMAIN R
    BY <1>2, <1>3, RunsGoOn
  <1>q. QED BY <1>2, <1>4 DEF Q

LEMMA EndedIs ==
    ASSUME NEW R, RunsTyped(R), NEW r \in DOMAIN R, NEW state
    PROVE  /\ EndedRun(R, r, state) = [R EXCEPT ![r] = EndedOf(R[r], state)]
           /\ EndedRun(R, r, state)[r] = EndedOf(R[r], state)
  <1>1. R = [i \in DOMAIN R |-> R[i]]
    BY LenProperties DEF RunsTyped
  <1>2. EndedRun(R, r, state) = [R EXCEPT ![r] = EndedOf(R[r], state)]
    BY <1>1 DEF EndedRun, EndedOf
  <1>q. QED BY <1>1, <1>2

LEMMA RunsExpire ==
    ASSUME NEW R, NEW W, NEW o, NEW S, Facts(R, W, o, S), NEW X
    PROVE  /\ Facts(Expire(R, X), W, o, S)
           /\ DOMAIN Expire(R, X) = DOMAIN R /\ Len(Expire(R, X)) = Len(R)
           /\ \A i \in DOMAIN R :
                 /\ Alike(R[i], Expire(R, X)[i])
                 /\ \/ Expire(R, X)[i] = R[i]
                    \/ R[i].state = "RUNNING" /\ Expire(R, X)[i].state = "FAILED"
  <1> DEFINE Q == Expire(R, X)
  <1>1. RunsTyped(R) /\ \A i \in DOMAIN R : R[i] \in RunRecs
    BY RunsAre DEF Facts
  <1>2. DOMAIN Q = DOMAIN R /\ Q = [i \in DOMAIN R |-> Q[i]]
    BY DEF Expire
  <1>3. ASSUME NEW i \in DOMAIN R
        PROVE  \/ Q[i] = R[i]
               \/ R[i].state = "RUNNING" /\ Q[i] = Thrower(EndedOf(R[i], "FAILED"), "RUN_INTERRUPTED")
    <2>1. EndedRun(R, i, "FAILED")[i] = EndedOf(R[i], "FAILED")
      BY <1>1, EndedIs
    <2>q. QED BY <2>1 DEF Expire, Thrower
  <1> HIDE DEF Q
  <1>4. ASSUME NEW i \in DOMAIN R
        PROVE  /\ Q[i] \in RunRecs /\ Alike(R[i], Q[i]) /\ Calmer(R[i], Q[i], o.stage)
               /\ \/ Q[i] = R[i]
                  \/ R[i].state = "RUNNING" /\ Q[i].state = "FAILED"
    <2>1. CASE Q[i] = R[i]
      BY <2>1, <1>1, CalmSelf DEF Facts, Alike
    <2>2. CASE /\ R[i].state = "RUNNING"
               /\ Q[i] = Thrower(EndedOf(R[i], "FAILED"), "RUN_INTERRUPTED")
      <3>1. PICK b : b = EndedOf(R[i], "FAILED")
        OBVIOUS
      <3>2. b \in RunRecs /\ Alike(R[i], b) /\ b.draft = R[i].draft /\ b.state = "FAILED"
        BY <1>1, <3>1, EndedType DEF States
      <3>3. /\ Q[i] \in RunRecs /\ Alike(b, Q[i]) /\ Q[i].draft = b.draft
            /\ Q[i].state = b.state
        BY <2>2, <3>1, <3>2, ThrowerType
      <3>q. QED BY <2>2, <3>2, <3>3 DEF Alike, Calmer, States
    <2>q. QED BY <2>1, <2>2, <1>3
  <1>5. Q \in [DOMAIN R -> RunRecs]
    BY <1>2, <1>4
  <1>6. Facts(Q, W, o, S) /\ DOMAIN Q = DOMAIN R /\ Len(Q) = Len(R)
    BY <1>1, <1>4, <1>5, RunsGoOn, RunsMade
  <1>q. QED BY <1>4, <1>6 DEF Q

------------------------------------------------------------------------------
(* Every step keeps the invariant.                                          *)

LEMMA IdsAre ==
    ASSUME AgentIInv
    PROVE  /\ Ids = DOMAIN agentRun /\ \A i \in Ids : agentRun[i] \in RunRecs
           /\ agentRun = [i \in Ids |-> agentRun[i]] /\ RunsTyped(agentRun) /\ 0 \notin Ids
  <1>1. RunsTyped(agentRun)
    BY DEF AgentIInv, Facts
  <1>2. Ids = DOMAIN agentRun /\ 0 \notin Ids /\ \A i \in Ids : agentRun[i] \in RunRecs
    BY <1>1, RunsAre DEF Ids
  <1>3. agentRun = [i \in DOMAIN agentRun |-> agentRun[i]]
    BY <1>1, LenProperties DEF RunsTyped
  <1>q. QED BY <1>1, <1>2, <1>3

LEMMA AgentBegins ==
    ASSUME AgentInit
    PROVE  AgentIInv
  <1>0. agentRun = <<>> /\ stopped = {} /\ tokens = 2 /\ wakeup = [w \in {} |-> w]
        /\ order \in [stage : Before, by : {0}]
    BY DEF AgentInit
  <1>1. order.by = 0 /\ order \in [stage : Stages, by : Nat]
    <2>1. order.by = 0 /\ order.stage \in Before /\ order = [stage |-> order.stage, by |-> order.by]
      BY <1>0
    <2>2. order.stage \in Stages
      BY <2>1, AgentRunAssumption DEF Stages
    <2>q. QED BY <2>1, <2>2
  <1>2. RunsTyped(<<>>) /\ DOMAIN <<>> = {}
    <2>1. <<>> \in Seq(RunRecs) /\ Len(<<>>) = 0
      BY EmptySeq
    <2>2. DOMAIN <<>> = 1..0
      BY <2>1, LenProperties
    <2>q. QED BY <2>1, <2>2 DEF RunsTyped
  <1>3. DOMAIN wakeup = {} /\ wakeup \in [{} -> WakeupRecs]
    BY <1>0
  <1>4. Family(<<>>, wakeup) /\ OneRuns(<<>>) /\ Thrown(<<>>) /\ Handed(<<>>, wakeup)
        /\ InTurn(<<>>, wakeup)
    BY <1>2, <1>3 DEF Family, OneRuns, Thrown, Handed, InTurn
  <1>5. Halted(<<>>, wakeup, {}) /\ DraftsKnown(<<>>, order) /\ Watched(<<>>, order)
        /\ Followed(<<>>, wakeup, order, {})
    BY <1>1, <1>2, <1>3 DEF Halted, DraftsKnown, Watched, Followed
  <1>q. QED BY <1>0, <1>1, <1>2, <1>4, <1>5 DEF AgentIInv, Facts

LEMMA StartKeeps ==
    ASSUME AgentIInv, StartAgentRun
    PROVE  AgentIInv'
  <1>1. PICK Q : Q = Expire(agentRun, Ids)
    OBVIOUS
  <1>2. Facts(Q, wakeup, order, stopped)
    BY <1>1, RunsExpire DEF AgentIInv
  <1>3. /\ \A i \in DOMAIN Q : Q[i].state # "RUNNING"
        /\ agentRun' = Append(Q, NewRun(0, NoWakeup))
        /\ tokens >= 1 /\ tokens' = tokens - 1
        /\ UNCHANGED <<wakeup, order, stopped>>
    BY <1>1 DEF StartAgentRun, Admits
  <1>4. Facts(agentRun', wakeup, order, stopped)
    BY <1>2, <1>3, RunStarts
  <1>5. tokens' \in 0..2
    BY <1>3 DEF AgentIInv
  <1>q. QED BY <1>3, <1>4, <1>5 DEF AgentIInv

LEMMA TokenKeeps ==
    ASSUME AgentIInv, TokenAccrues
    PROVE  AgentIInv'
  <1>1. tokens' \in 0..2
    BY DEF TokenAccrues, AgentIInv
  <1>q. QED BY <1>1 DEF TokenAccrues, AgentIInv

\* One run goes on, and nothing else changes but the wakeups of ids.
LEMMA OneGoesOn ==
    ASSUME AgentIInv, NEW r \in Ids, NEW e \in RunRecs, Calmer(agentRun[r], e, order.stage),
           agentRun' = [agentRun EXCEPT ![r] = e],
           UNCHANGED <<tokens, order, stopped>>,
           NEW ids, \A w \in ids : w \in Ids \X Keys /\ w[1] \notin stopped,
           wakeup' = Extended(wakeup, ids)
    PROVE  AgentIInv'
  <1>1. r \in DOMAIN agentRun
    BY IdsAre
  <1>2. Facts(agentRun, wakeup, order, stopped)
    BY DEF AgentIInv
  <1>3. PICK Q : Q = [agentRun EXCEPT ![r] = e]
    OBVIOUS
  <1>4. Facts(Q, wakeup, order, stopped) /\ DOMAIN Q = DOMAIN agentRun
    BY <1>1, <1>2, <1>3, RunGoesOn
  <1>5. \A w \in ids : w \in (DOMAIN Q) \X Keys /\ w[1] \notin stopped
    BY <1>4, IdsAre
  <1>6. Facts(Q, Extended(wakeup, ids), order, stopped)
    BY <1>4, <1>5, WakeupsAdded
  <1>q. QED BY <1>3, <1>6 DEF AgentIInv

LEMMA NothingAdded ==
    ASSUME AgentIInv
    PROVE  Extended(wakeup, {}) = wakeup
  <1>1. wakeup \in [DOMAIN wakeup -> WakeupRecs]
    BY DEF AgentIInv, Facts, Handed
  <1>q. QED BY <1>1 DEF Extended

LEMMA QuietRun ==
    ASSUME AgentIInv, NEW r \in Ids, NEW e \in RunRecs, Calmer(agentRun[r], e, order.stage),
           agentRun' = [agentRun EXCEPT ![r] = e],
           UNCHANGED <<wakeup, tokens, order, stopped>>
    PROVE  AgentIInv'
  <1>0. PICK ids : ids = {}
    OBVIOUS
  <1>1. wakeup' = Extended(wakeup, ids)
    BY <1>0, NothingAdded
  <1>2. \A w \in ids : w \in Ids \X Keys /\ w[1] \notin stopped
    BY <1>0
  <1>3. UNCHANGED <<tokens, order, stopped>>
    OBVIOUS
  <1>q. QED BY <1>1, <1>2, <1>3, OneGoesOn

LEMMA DeadlineKeeps ==
    ASSUME AgentIInv, NEW r \in Ids, AgentDeadlinePasses(r)
    PROVE  AgentIInv'
  <1>1. PICK e : e = Late(agentRun[r])
    OBVIOUS
  <1>2. agentRun' = [agentRun EXCEPT ![r] = e]
    BY <1>1, IdsAre DEF AgentDeadlinePasses, Late
  <1>3. e \in RunRecs /\ Calmer(agentRun[r], e, order.stage)
    <2>1. /\ e \in RunRecs /\ Alike(agentRun[r], e)
          /\ e.draft = agentRun[r].draft /\ e.state = agentRun[r].state
          /\ e.error = agentRun[r].error
      BY <1>1, IdsAre, LateType
    <2>q. QED BY <2>1, IdsAre DEF AgentIInv, Facts, Thrown, Calmer, Alike
  <1>q. QED BY <1>2, <1>3, QuietRun DEF AgentDeadlinePasses

\* Reading a run.
LEMMA ReadIs ==
    ASSUME AgentIInv, NEW r \in Ids
    PROVE  /\ Facts(AsRead(r), wakeup, order, stopped) /\ DOMAIN AsRead(r) = Ids
           /\ \A i \in Ids : Alike(agentRun[i], AsRead(r)[i])
  <1>1. Facts(agentRun, wakeup, order, stopped) /\ Ids = DOMAIN agentRun
    BY IdsAre DEF AgentIInv
  <1>2. CASE agentRun[r].state = "WAITING_EXTERNAL" /\ ~agentRun[r].watch.active
    <2>1. PICK e : e = [agentRun[r] EXCEPT !.state = "COMPLETED"]
      OBVIOUS
    <2>2. AsRead(r) = [agentRun EXCEPT ![r] = e]
      BY <1>2, <2>1, IdsAre DEF AsRead
    <2>3. agentRun[r] \in RunRecs
      BY IdsAre
    <2>4. /\ e \in RunRecs /\ Alike(agentRun[r], e) /\ e.draft = agentRun[r].draft
          /\ e.state = "COMPLETED" /\ e.error = agentRun[r].error
      BY <2>1, <2>3 DEF RunRecs, Alike, States
    <2>5. agentRun[r].error # "RUN_INTERRUPTED"
      BY <1>1, <1>2 DEF Facts, Thrown
    <2>6. Calmer(agentRun[r], e, order.stage)
      BY <1>2, <2>4, <2>5 DEF Calmer, Alike
    <2>7. /\ Facts([agentRun EXCEPT ![r] = e], wakeup, order, stopped)
          /\ DOMAIN [agentRun EXCEPT ![r] = e] = DOMAIN agentRun
          /\ [agentRun EXCEPT ![r] = e][r] = e
          /\ \A i \in DOMAIN agentRun \ {r} : [agentRun EXCEPT ![r] = e][i] = agentRun[i]
      BY <1>1, <2>4, <2>6, RunGoesOn
    <2>q. QED BY <1>1, <2>2, <2>4, <2>7 DEF Alike
  <1>3. CASE ~(agentRun[r].state = "WAITING_EXTERNAL" /\ ~agentRun[r].watch.active)
    <2>1. AsRead(r) = Expire(agentRun, {r})
      BY <1>3 DEF AsRead
    <2>q. QED BY <1>1, <2>1, RunsExpire
  <1>q. QED BY <1>2, <1>3

LEMMA ReadKeeps ==
    ASSUME AgentIInv, NEW r \in Ids, ReadAgentRun(r)
    PROVE  AgentIInv'
  <1>1. agentRun' = AsRead(r) /\ UNCHANGED <<wakeup, tokens, order, stopped>>
    BY DEF ReadAgentRun
  <1>q. QED BY <1>1, ReadIs DEF AgentIInv

LEMMA EndKeeps ==
    ASSUME AgentIInv, NEW r \in Ids, agentRun[r].state = "RUNNING",
           NEW state \in States \ {"RUNNING", "CANCELLED"},
           agentRun' = EndedRun(agentRun, r, state),
           UNCHANGED <<wakeup, tokens, order, stopped>>
    PROVE  AgentIInv'
  <1>1. PICK e : e = EndedOf(agentRun[r], state)
    OBVIOUS
  <1>2. agentRun' = [agentRun EXCEPT ![r] = e]
    BY <1>1, IdsAre, EndedIs
  <1>3. /\ e \in RunRecs /\ Alike(agentRun[r], e) /\ e.draft = agentRun[r].draft
        /\ e.state = state /\ e.error = agentRun[r].error
    BY <1>1, IdsAre, EndedType DEF States
  <1>4. agentRun[r].error # "RUN_INTERRUPTED"
    BY IdsAre DEF AgentIInv, Facts, Thrown
  <1>5. Calmer(agentRun[r], e, order.stage)
    BY <1>3, <1>4 DEF Calmer, Alike
  <1>q. QED BY <1>2, <1>3, <1>5, QuietRun

LEMMA FinishKeeps ==
    ASSUME AgentIInv, NEW r \in Ids, Finish(r)
    PROVE  AgentIInv'
  <1>1. PICK state : state = IF agentRun[r].watch.active THEN "WAITING_EXTERNAL" ELSE "COMPLETED"
    OBVIOUS
  <1>2. state \in States \ {"RUNNING", "CANCELLED"}
    BY <1>1 DEF States
  <1>3. /\ agentRun[r].state = "RUNNING" /\ agentRun' = EndedRun(agentRun, r, state)
        /\ UNCHANGED <<wakeup, tokens, order, stopped>>
    BY <1>1 DEF Finish, ActiveRun
  <1>q. QED BY <1>2, <1>3, EndKeeps

LEMMA FailRunKeeps ==
    ASSUME AgentIInv, NEW r \in Ids, NEW error \in {"MODEL_UNAVAILABLE", "RUN_INTERRUPTED"},
           FailRun(r, error)
    PROVE  AgentIInv'
  <1>1. PICK d : d = EndedOf(agentRun[r], "FAILED")
    OBVIOUS
  <1>2. PICK e : e = Thrower(d, error)
    OBVIOUS
  <1>3. /\ d \in RunRecs /\ Alike(agentRun[r], d) /\ d.draft = agentRun[r].draft
        /\ d.state = "FAILED"
    BY <1>1, IdsAre, EndedType DEF States
  <1>4. /\ e \in RunRecs /\ Alike(d, e) /\ e.draft = d.draft /\ e.state = d.state
    BY <1>2, <1>3, ThrowerType
  <1>5. agentRun' = [agentRun EXCEPT ![r] = e]
    <2>1. EndedRun(agentRun, r, "FAILED") = [agentRun EXCEPT ![r] = d]
      BY <1>1, IdsAre, EndedIs
    <2>2. agentRun' = [[agentRun EXCEPT ![r] = d] EXCEPT ![r].error = error]
      BY <2>1 DEF FailRun
    <2>q. QED BY <1>2, <2>2, IdsAre DEF Thrower
  <1>6. agentRun[r].state = "RUNNING" /\ UNCHANGED <<wakeup, tokens, order, stopped>>
    BY DEF FailRun
  <1>7. Calmer(agentRun[r], e, order.stage)
    BY <1>3, <1>4, <1>6 DEF Calmer, Alike, States
  <1>q. QED BY <1>4, <1>5, <1>6, <1>7, QuietRun

LEMMA ProposalKeeps ==
    ASSUME AgentIInv, NEW r \in Ids, NEW kind \in {"purchase", "cancel"},
           CreateAgentProposal(r, kind)
    PROVE  AgentIInv'
  <1>1. PICK d : d = EndedOf(agentRun[r], "WAITING_USER")
    OBVIOUS
  <1>2. PICK e : e = Drafter(d, kind)
    OBVIOUS
  <1>3. /\ d \in RunRecs /\ Alike(agentRun[r], d) /\ d.draft = agentRun[r].draft
        /\ d.state = "WAITING_USER" /\ d.error = agentRun[r].error
    BY <1>1, IdsAre, EndedType DEF States
  <1>4. /\ e \in RunRecs /\ Alike(d, e) /\ e.draft = kind /\ e.state = d.state
        /\ e.error = d.error
    BY <1>2, <1>3, DrafterType
  <1>5. agentRun' = [agentRun EXCEPT ![r] = e]
    <2>1. EndedRun(agentRun, r, "WAITING_USER") = [agentRun EXCEPT ![r] = d]
      BY <1>1, IdsAre, EndedIs
    <2>2. agentRun' = [[agentRun EXCEPT ![r] = d] EXCEPT ![r].draft = kind, ![r].status = "pending"]
      BY <2>1 DEF CreateAgentProposal
    <2>q. QED BY <1>2, <2>2, IdsAre DEF Drafter
  <1>6. /\ agentRun[r].state = "RUNNING" /\ agentRun[r].draft = "none"
        /\ kind = "cancel" => order.stage = "paid"
        /\ UNCHANGED <<wakeup, tokens, order, stopped>>
    BY DEF CreateAgentProposal, ActiveRun
  <1>7. agentRun[r].error # "RUN_INTERRUPTED"
    BY <1>6, IdsAre DEF AgentIInv, Facts, Thrown
  <1>8. Calmer(agentRun[r], e, order.stage)
    BY <1>3, <1>4, <1>6, <1>7 DEF Calmer, Alike, States
  <1>q. QED BY <1>4, <1>5, <1>6, <1>8, QuietRun

\* The wakeups of a confirmation are for a run its owner has not stopped.
LEMMA ConfirmedIs ==
    ASSUME AgentIInv, NEW r \in Ids, Confirmed(r)
    PROVE  \E ids : /\ \A w \in ids : w \in Ids \X Keys /\ w[1] \notin stopped
                    /\ wakeup' = Extended(wakeup, ids)
  <1>1. CASE agentRun[r].state = "WAITING_USER"
    <2>1. PICK ids : ids = {<<r, "confirmed">>}
      OBVIOUS
    <2>2. r \notin stopped
      BY <1>1 DEF AgentIInv, Facts, Halted, OverStates
    <2>3. \A w \in ids : w \in Ids \X Keys /\ w[1] \notin stopped
      BY <2>1, <2>2 DEF Keys
    <2>4. wakeup' = Extended(wakeup, ids)
      BY <1>1, <2>1 DEF Confirmed, WithWakeups, Extended
    <2>q. QED BY <2>3, <2>4
  <1>2. CASE agentRun[r].state # "WAITING_USER"
    <2>1. PICK ids : ids = {}
      OBVIOUS
    <2>2. wakeup' = Extended(wakeup, ids)
      BY <1>2, <2>1, NothingAdded DEF Confirmed
    <2>q. QED BY <2>1, <2>2
  <1>q. QED BY <1>1, <1>2

LEMMA StatusCalm ==
    ASSUME AgentIInv, NEW i \in Ids, NEW status \in Statuses, NEW stage
    PROVE  /\ WithStatus(agentRun[i], status) \in RunRecs
           /\ Calmer(agentRun[i], WithStatus(agentRun[i], status), stage)
  <1>1. PICK e : e = WithStatus(agentRun[i], status)
    OBVIOUS
  <1>2. /\ e \in RunRecs /\ Alike(agentRun[i], e) /\ e.draft = agentRun[i].draft
        /\ e.state = agentRun[i].state /\ e.error = agentRun[i].error
    BY <1>1, IdsAre, StatusType
  <1>3. Calmer(agentRun[i], e, stage)
    BY <1>2, IdsAre DEF AgentIInv, Facts, Thrown, Calmer, Alike
  <1>q. QED BY <1>1, <1>2, <1>3

LEMMA ConfirmChangeKeeps ==
    ASSUME AgentIInv, NEW r \in Ids, ConfirmChange(r)
    PROVE  AgentIInv'
  <1>1. PICK e : e = WithStatus(agentRun[r], "confirmed")
    OBVIOUS
  <1>2. e \in RunRecs /\ Calmer(agentRun[r], e, order.stage)
    BY <1>1, StatusCalm DEF Statuses
  <1>3. agentRun' = [agentRun EXCEPT ![r] = e]
    BY <1>1, IdsAre DEF ConfirmChange, WithStatus
  <1>4. Confirmed(r) /\ UNCHANGED <<tokens, order, stopped>>
    BY DEF ConfirmChange
  <1>5. PICK ids : /\ \A w \in ids : w \in Ids \X Keys /\ w[1] \notin stopped
                   /\ wakeup' = Extended(wakeup, ids)
    BY <1>4, ConfirmedIs
  <1>q. QED BY <1>2, <1>3, <1>4, <1>5, OneGoesOn

LEMMA ConfirmPurchaseKeeps ==
    ASSUME AgentIInv, NEW r \in Ids, ConfirmPurchase(r)
    PROVE  AgentIInv'
  <1>1. PICK Q : Q = agentRun'
    OBVIOUS
  <1>2. Q = [i \in Ids |-> IF i = r THEN WithStatus(agentRun[i], "confirmed")
                           ELSE IF agentRun[i].status = "pending"
                           THEN WithStatus(agentRun[i], "stale") ELSE agentRun[i]]
    BY <1>1 DEF ConfirmPurchase, WithStatus
  <1>3. Ids = DOMAIN agentRun /\ Facts(agentRun, wakeup, order, stopped)
    BY IdsAre DEF AgentIInv
  <1>4. ASSUME NEW i \in Ids
        PROVE  Q[i] \in RunRecs /\ Calmer(agentRun[i], Q[i], order.stage)
    <2>1. agentRun[i] \in RunRecs /\ Calmer(agentRun[i], agentRun[i], order.stage)
      BY <1>3, IdsAre, CalmSelf DEF Facts
    <2>2. \A status \in Statuses :
             /\ WithStatus(agentRun[i], status) \in RunRecs
             /\ Calmer(agentRun[i], WithStatus(agentRun[i], status), order.stage)
      BY StatusCalm
    <2>q. QED BY <1>2, <2>1, <2>2 DEF Statuses
  <1>5. Q \in [DOMAIN agentRun -> RunRecs]
    BY <1>2, <1>3, <1>4
  <1>6. Facts(Q, wakeup, order, stopped) /\ DOMAIN Q = Ids
    BY <1>2, <1>3, <1>4, <1>5, RunsGoOn
  <1>7. Confirmed(r) /\ UNCHANGED <<tokens, order, stopped>>
    BY DEF ConfirmPurchase
  <1>8. PICK ids : /\ \A w \in ids : w \in Ids \X Keys /\ w[1] \notin stopped
                   /\ wakeup' = Extended(wakeup, ids)
    BY <1>7, ConfirmedIs
  <1>9. Facts(Q, Extended(wakeup, ids), order, stopped)
    <2>1. \A w \in ids : w \in (DOMAIN Q) \X Keys /\ w[1] \notin stopped
      BY <1>6, <1>8
    <2>q. QED BY <1>6, <2>1, WakeupsAdded
  <1>q. QED BY <1>1, <1>7, <1>8, <1>9 DEF AgentIInv

LEMMA MovesAreLater ==
    ASSUME NEW a, NEW b, <<a, b>> \in Moves
    PROVE  Later(a, b) /\ b \in Stages
  <1>1. \/ <<a, b>> \in {<<"pending", "unknown">>, <<"unknown", "pending">>, <<"asked", "approved">>}
        \/ a \in {"pending", "unknown"} /\ b \in {"paid", "closed"}
        \/ a \in {"asked", "approved"} /\ b = "decided"
    BY DEF Moves
  <1>q. QED BY <1>1 DEF Later, Terminal, Kinds, Stages

\* Those who watch are told, and their wakeups written, with the stage.
LEMMA ToldKeeps ==
    ASSUME NEW R, NEW W, NEW o, NEW S, Facts(R, W, o, S),
           NEW stage \in Stages, Later(o.stage, stage),
           NEW p \in [stage : Stages, by : Nat], p.stage = stage, p.by = o.by
    PROVE  Facts(Noticed(R, stage), Extended(W, Told(R, stage)), p, S)
  <1>1. Facts(Noticed(R, stage), W, p, S)
    BY WatchesNotice
  <1>2. DOMAIN Noticed(R, stage) = DOMAIN R
    BY DEF Noticed
  <1>3. \A w \in Told(R, stage) :
           w \in (DOMAIN Noticed(R, stage)) \X Keys /\ w[1] \notin S
    <2>1. ASSUME NEW j \in Watchers(R)
          PROVE  j \in DOMAIN R /\ j \notin S
      BY DEF Watchers, Facts, Halted
    <2>q. QED BY <1>2, <2>1 DEF Told, Keys
  <1>q. QED BY <1>1, <1>3, WakeupsAdded

LEMMA OrderMoves ==
    ASSUME NEW o \in [stage : Stages, by : Nat], NEW stage \in Stages,
           NEW p, p = [o EXCEPT !.stage = stage]
    PROVE  p \in [stage : Stages, by : Nat] /\ p.stage = stage /\ p.by = o.by
  OBVIOUS

LEMMA EventKeeps ==
    ASSUME AgentIInv, NEW stage \in Stages, EventWritten(stage)
    PROVE  AgentIInv'
  <1>1. Facts(agentRun, wakeup, order, stopped) /\ order \in [stage : Stages, by : Nat]
    BY DEF AgentIInv, Facts
  <1>2. /\ <<order.stage, stage>> \in Moves /\ order' = [order EXCEPT !.stage = stage]
        /\ agentRun' = Noticed(agentRun, stage) /\ UNCHANGED <<tokens, stopped>>
        /\ wakeup' = Extended(wakeup, Told(agentRun, stage))
    BY DEF EventWritten, WithWakeups, Extended
  <1>3. PICK p : p = order'
    OBVIOUS
  <1>4. p \in [stage : Stages, by : Nat] /\ p.stage = stage /\ p.by = order.by
    BY <1>1, <1>2, <1>3, OrderMoves
  <1>5. Later(order.stage, stage)
    BY <1>2, MovesAreLater
  <1>6. Facts(Noticed(agentRun, stage), Extended(wakeup, Told(agentRun, stage)), p, stopped)
    BY <1>1, <1>4, <1>5, ToldKeeps
  <1>q. QED BY <1>2, <1>3, <1>6 DEF AgentIInv

\* What a run carries out is what its parent's draft says.
LEMMA CarriedOut ==
    ASSUME AgentIInv, NEW r \in Ids, NEW by, MayCarryOut(r, by),
           agentRun[r].parent # 0
    PROVE  agentRun[r].parent = by /\ by \in Ids
  <1>1. agentRun[r].cause = <<by, "confirmed">> /\ Facts(agentRun, wakeup, order, stopped)
    BY DEF MayCarryOut, AgentIInv
  <1>2. agentRun[r].cause[1] = agentRun[r].parent
    BY IdsAre DEF AgentIInv, Facts, Family
  <1>3. agentRun[r].parent = by
    BY <1>1, <1>2
  <1>q. QED BY <1>1, <1>3, IdsAre, LastTry

LEMMA OrderedIs ==
    ASSUME AgentIInv, NEW by \in Ids, agentRun[by].draft = "purchase",
           NEW o \in Ordered(by)
    PROVE  Facts(agentRun, wakeup, o, stopped) /\ o.stage # "none"
  <1>1. Facts(agentRun, wakeup, order, stopped) /\ by \in DOMAIN agentRun
    BY IdsAre DEF AgentIInv
  <1>2. CASE order.stage # "none" /\ o = order
    BY <1>1, <1>2
  <1>3. CASE order.stage = "none" /\ o = [stage |-> "pending", by |-> by]
    BY <1>1, <1>3, OrderBegins
  <1>q. QED BY <1>2, <1>3 DEF Ordered

LEMMA CreateOrderKeeps ==
    ASSUME AgentIInv, NEW r \in Ids, NEW by \in Ids, CreateOrder(r, by)
    PROVE  AgentIInv'
  <1>1. PICK o \in Ordered(by) :
           order' = o /\ agentRun' = WatchAgentOrder(agentRun, r, "purchase", o.stage)
    BY DEF CreateOrder
  <1>2. /\ agentRun[r].state = "RUNNING" /\ MayCarryOut(r, by)
        /\ agentRun[by].draft = "purchase" /\ UNCHANGED <<wakeup, tokens, stopped>>
    BY DEF CreateOrder, ActiveRun
  <1>3. Facts(agentRun, wakeup, o, stopped) /\ o.stage # "none"
    BY <1>2, OrderedIs
  <1>4. agentRun[r].parent # 0 => <<agentRun[agentRun[r].parent].draft, "purchase">> \in Pairs
    BY <1>2, CarriedOut DEF Pairs
  <1>5. Facts(WatchAgentOrder(agentRun, r, "purchase", o.stage), wakeup, o, stopped)
    BY <1>2, <1>3, <1>4, IdsAre, RunWatches
  <1>q. QED BY <1>1, <1>2, <1>5 DEF AgentIInv

LEMMA OrderByHandKeeps ==
    ASSUME AgentIInv, NEW by \in Ids, OrderByHand(by)
    PROVE  AgentIInv'
  <1>1. /\ agentRun[by].draft = "purchase" /\ order' \in Ordered(by)
        /\ UNCHANGED <<agentRun, wakeup, tokens, stopped>>
    BY DEF OrderByHand
  <1>2. PICK o \in Ordered(by) : o = order'
    BY <1>1
  <1>3. Facts(agentRun, wakeup, o, stopped)
    BY <1>1, OrderedIs
  <1>q. QED BY <1>1, <1>2, <1>3 DEF AgentIInv

LEMMA PaymentKeeps ==
    ASSUME AgentIInv, NEW r \in Ids, RequestPayment(r)
    PROVE  AgentIInv'
  <1>1. /\ agentRun[r].state = "RUNNING" /\ MayCarryOut(r, order.by) /\ order.stage # "none"
        /\ agentRun' = WatchAgentOrder(agentRun, r, "purchase", order.stage)
        /\ UNCHANGED <<wakeup, tokens, order, stopped>>
    BY DEF RequestPayment, ActiveRun
  <1>2. ASSUME agentRun[r].parent # 0
        PROVE  <<agentRun[agentRun[r].parent].draft, "purchase">> \in Pairs
    <2>1. agentRun[r].cause[1] = agentRun[r].parent
      BY <1>2, IdsAre DEF AgentIInv, Facts, Family
    <2>2. order.by = agentRun[r].parent
      BY <1>1, <1>2, <2>1 DEF MayCarryOut
    <2>q. QED BY <1>2, <2>2 DEF AgentIInv, Facts, DraftsKnown, Pairs
  <1>3. Facts(agentRun, wakeup, order, stopped) /\ r \in DOMAIN agentRun
    BY IdsAre DEF AgentIInv
  <1>4. Facts(WatchAgentOrder(agentRun, r, "purchase", order.stage), wakeup, order, stopped)
    BY <1>1, <1>2, <1>3, RunWatches
  <1>q. QED BY <1>1, <1>4 DEF AgentIInv

\* A confirmed cancellation is submitted on the runs R, one of which may
\* just have begun to watch the order.
LEMMA SubmittedKeeps ==
    ASSUME AgentIInv, NEW R, Facts(R, wakeup, order, stopped),
           NEW by \in DOMAIN R, Submitted(R, by), UNCHANGED <<tokens, stopped>>
    PROVE  AgentIInv'
  <1>1. CASE R[by].status = "executing"
    BY <1>1 DEF Submitted, AgentIInv
  <1>2. CASE R[by].status # "executing"
    <2>1. PICK stage \in {"asked", "approved", "decided"} :
             /\ order.stage = "paid" /\ order' = [order EXCEPT !.stage = stage]
             /\ agentRun' = [Noticed(R, stage) EXCEPT ![by].status = "executing"]
             /\ wakeup' = WithWakeups(Told(R, stage))
      BY <1>2 DEF Submitted
    <2>2. PICK p : p = order'
      OBVIOUS
    <2>3. stage \in Stages /\ Later(order.stage, stage)
      BY <2>1 DEF Later, Terminal, Kinds, Stages
    <2>4. order \in [stage : Stages, by : Nat]
      BY DEF AgentIInv, Facts
    <2>5. p \in [stage : Stages, by : Nat] /\ p.stage = stage /\ p.by = order.by
      BY <2>1, <2>2, <2>3, <2>4, OrderMoves
    <2>6. PICK V : V = wakeup'
      OBVIOUS
    <2>7. V = Extended(wakeup, Told(R, stage))
      BY <2>1, <2>6 DEF WithWakeups, Extended
    <2>8. PICK Q : Q = Noticed(R, stage)
      OBVIOUS
    <2>9. Facts(Q, V, p, stopped) /\ DOMAIN Q = DOMAIN R
      BY <2>3, <2>5, <2>7, <2>8, ToldKeeps DEF Noticed
    <2>10. PICK e : e = WithStatus(Q[by], "executing")
      OBVIOUS
    <2>11. Q[by] \in RunRecs /\ Thrown(Q) /\ by \in DOMAIN Q
      BY <2>9, RunsAre DEF Facts
    <2>12. /\ e \in RunRecs /\ Alike(Q[by], e) /\ e.draft = Q[by].draft
           /\ e.state = Q[by].state /\ e.error = Q[by].error
      BY <2>10, <2>11, StatusType DEF Statuses
    <2>13. Calmer(Q[by], e, p.stage)
      BY <2>11, <2>12 DEF Calmer, Alike, Thrown
    <2>14. Facts([Q EXCEPT ![by] = e], V, p, stopped)
      BY <2>9, <2>11, <2>12, <2>13, RunGoesOn
    <2>15. agentRun' = [Q EXCEPT ![by] = e]
      <3>1. Q = [i \in DOMAIN Q |-> Q[i]]
        BY <2>8 DEF Noticed
      <3>q. QED BY <3>1, <2>1, <2>8, <2>10, <2>11 DEF WithStatus
    <2>q. QED BY <2>2, <2>6, <2>14, <2>15 DEF AgentIInv
  <1>q. QED BY <1>1, <1>2

LEMMA SubmitKeeps ==
    ASSUME AgentIInv, NEW r \in Ids, NEW by \in Ids, SubmitChange(r, by)
    PROVE  AgentIInv'
  <1>1. /\ agentRun[r].state = "RUNNING" /\ MayCarryOut(r, by)
        /\ agentRun[by].draft = "cancel" /\ UNCHANGED <<tokens, stopped>>
    BY DEF SubmitChange, ActiveRun
  <1>2. PICK R : R = WatchAgentOrder(agentRun, r, "change", order.stage)
    OBVIOUS
  <1>3. Submitted(R, by)
    BY <1>2 DEF SubmitChange
  <1>4. Facts(agentRun, wakeup, order, stopped) /\ Ids = DOMAIN agentRun
    BY IdsAre DEF AgentIInv
  <1>5. order.stage # "none"
    BY <1>1, <1>4 DEF Facts, DraftsKnown
  <1>6. agentRun[r].parent # 0 => <<agentRun[agentRun[r].parent].draft, "change">> \in Pairs
    BY <1>1, CarriedOut DEF Pairs
  <1>7. Facts(R, wakeup, order, stopped)
    BY <1>1, <1>2, <1>4, <1>5, <1>6, RunWatches
  <1>8. DOMAIN R = DOMAIN agentRun
    BY <1>2, <1>4 DEF WatchAgentOrder
  <1>q. QED BY <1>1, <1>3, <1>4, <1>7, <1>8, SubmittedKeeps

LEMMA SubmitByHandKeeps ==
    ASSUME AgentIInv, NEW by \in Ids, SubmitByHand(by)
    PROVE  AgentIInv'
  <1>1. Submitted(agentRun, by) /\ UNCHANGED <<tokens, stopped>>
    BY DEF SubmitByHand
  <1>2. Facts(agentRun, wakeup, order, stopped) /\ by \in DOMAIN agentRun
    BY IdsAre DEF AgentIInv
  <1>q. QED BY <1>1, <1>2, SubmittedKeeps

\* The recursion of Branch has a solution: the smallest set that holds r and
\* the children of what it holds.  So a branch is closed under children.
LEMMA BranchIs ==
    ASSUME AgentIInv, NEW r \in Ids
    PROVE  /\ Branch(r) \in SUBSET Ids /\ r \in Branch(r)
           /\ \A i \in Ids : agentRun[i].parent \in Branch(r) => i \in Branch(r)
  <1> DEFINE Closed(T) == r \in T /\ \A j \in Ids : agentRun[j].parent \in T => j \in T
             Least == {i \in Ids : \A T \in SUBSET Ids : Closed(T) => i \in T}
             Even(f) == f = [i \in Ids |-> i = r \/ (agentRun[i].parent # 0
                                                     /\ f[agentRun[i].parent])]
             g == [i \in Ids |-> i \in Least]
             f == CHOOSE h : Even(h)
  <1>p. \A i \in Ids : agentRun[i].parent # 0 => agentRun[i].parent \in Ids
    BY IdsAre, LastTry DEF AgentIInv
  <1>0. 0 \notin Ids
    BY IdsAre
  <1>1. Closed(Least)
    OBVIOUS
  <1>2. ASSUME NEW i \in Least, i # r PROVE agentRun[i].parent \in Least
    <2>1. SUFFICES ASSUME agentRun[i].parent \notin Least PROVE FALSE
      OBVIOUS
    <2>2. PICK T \in SUBSET Ids : T = Least \ {i}
      OBVIOUS
    <2>3. Closed(T)
      BY <1>1, <1>2, <2>1, <2>2
    <2>q. QED BY <2>2, <2>3
  <1>3. \A i \in Ids : i \in Least <=> i = r \/ agentRun[i].parent \in Least
    BY <1>1, <1>2
  <1>4. Least \subseteq Ids
    OBVIOUS
  <1> HIDE DEF Least
  <1>5. Even(g)
    <2>1. ASSUME NEW i \in Ids
          PROVE  g[i] = (i = r \/ (agentRun[i].parent # 0 /\ g[agentRun[i].parent]))
      <3>1. g[i] = (i \in Least)
        OBVIOUS
      <3>2. agentRun[i].parent # 0 => g[agentRun[i].parent] = (agentRun[i].parent \in Least)
        BY <1>p
      <3>3. i \in Least <=> i = r \/ (agentRun[i].parent # 0 /\ agentRun[i].parent \in Least)
        BY <1>0, <1>3, <1>4
      <3>6. g \in [Ids -> BOOLEAN]
        OBVIOUS
      <3> HIDE DEF g
      <3>4. g[i] \in BOOLEAN /\ (agentRun[i].parent # 0 => g[agentRun[i].parent] \in BOOLEAN)
        BY <1>p, <3>6
      <3>5. g[i] <=> i = r \/ (agentRun[i].parent # 0 /\ g[agentRun[i].parent])
        BY <3>1, <3>2, <3>3, Zenon
      <3>q. QED BY <3>4, <3>5
    <2>q. QED BY <2>1
  <1>6. Even(f)
    BY <1>5
  <1>7. Branch(r) = {i \in Ids : f[i]}
    BY DEF Branch
  <1> HIDE DEF f
  <1>8. \A i \in Ids : f[i] = (i = r \/ (agentRun[i].parent # 0 /\ f[agentRun[i].parent]))
    BY <1>6
  <1>q. QED BY <1>7, <1>8, <1>0, ZenonT(30)

Stopping(R, i) == [R EXCEPT ![i].watch.active = FALSE]

LEMMA CancelKeeps ==
    ASSUME AgentIInv, NEW r \in Ids, CancelAgentRun(r)
    PROVE  AgentIInv'
  <1>1. PICK B \in SUBSET Ids : B = Branch(r)
    BY BranchIs
  <1>2. \A i \in Ids : agentRun[i].parent \in B => i \in B
    BY <1>1, BranchIs
  <1>3. PICK R : R = agentRun
    OBVIOUS
  <1>4. /\ Facts(R, wakeup, order, stopped) /\ DOMAIN R = Ids
        /\ \A i \in Ids : Alike(agentRun[i], R[i])
    BY <1>3, IdsAre DEF AgentIInv, Alike
  <1>5. PICK Q : Q = agentRun'
    OBVIOUS
  <1>6. /\ Q = [i \in Ids |->
                  IF i \notin B THEN R[i]
                  ELSE LET seen == Stopping(R, i)
                       IN  IF seen[i].state
                                  \in {"RUNNING", "WAITING_USER", "WAITING_EXTERNAL"}
                           THEN EndedRun(seen, i, "CANCELLED")[i] ELSE seen[i]]
        /\ wakeup' = [w \in DOMAIN wakeup |->
                        IF w \in Dropped(B) THEN [wakeup[w] EXCEPT !.state = "failed"]
                        ELSE wakeup[w]]
        /\ stopped' = stopped \cup B /\ UNCHANGED <<tokens, order>>
    BY <1>1, <1>3, <1>5 DEF CancelAgentRun, Stopping
  <1>7. PICK V : V = wakeup'
    OBVIOUS
  <1>8. /\ V \in [DOMAIN wakeup -> WakeupRecs]
        /\ \A w \in DOMAIN wakeup :
              /\ V[w].run = wakeup[w].run /\ V[w].attempts = wakeup[w].attempts
              /\ V[w].state = wakeup[w].state \/ V[w].state \in {"completed", "failed"}
              /\ V[w].state \in Open => w[1] \notin B /\ V[w].run \notin B
    <2>1. ASSUME NEW w \in DOMAIN wakeup
          PROVE  /\ V[w] \in WakeupRecs
                 /\ V[w].run = wakeup[w].run /\ V[w].attempts = wakeup[w].attempts
                 /\ V[w].state = wakeup[w].state \/ V[w].state \in {"completed", "failed"}
                 /\ V[w].state \in Open => w[1] \notin B /\ V[w].run \notin B
      <3>1. wakeup[w] \in WakeupRecs
        BY DEF AgentIInv, Facts, Handed
      <3>2. CASE w \in Dropped(B)
        <4>1. V[w] = [wakeup[w] EXCEPT !.state = "failed"]
          BY <1>6, <1>7, <3>2
        <4>q. QED BY <3>1, <4>1 DEF WakeupRecs, Open
      <3>3. CASE w \notin Dropped(B)
        <4>1. V[w] = wakeup[w]
          BY <1>6, <1>7, <3>3
        <4>q. QED BY <3>1, <3>3, <4>1 DEF Dropped
      <3>q. QED BY <3>2, <3>3
    <2>2. V = [w \in DOMAIN wakeup |-> V[w]]
      BY <1>6, <1>7
    <2>q. QED BY <2>1, <2>2
  <1>9. Facts(R, V, order, stopped)
    BY <1>4, <1>8, WakeupsEnd
  <1>10. ASSUME NEW i \in B
         PROVE  /\ Q[i] \in RunRecs
                /\ Q[i].parent = R[i].parent /\ Q[i].cause = R[i].cause
                /\ Q[i].draft = R[i].draft /\ Q[i].error = R[i].error
                /\ Q[i].watch.kind = R[i].watch.kind /\ ~Q[i].watch.active
                /\ Q[i].state = IF R[i].state \in OverStates THEN R[i].state ELSE "CANCELLED"
    <2>1. RunsTyped(R) /\ R[i] \in RunRecs /\ i \in DOMAIN R /\ R = [j \in DOMAIN R |-> R[j]]
      BY <1>4, RunsAre, LenProperties DEF Facts, RunsTyped
    <2>2. PICK v : v = WithActive(R[i].watch, FALSE)
      OBVIOUS
    <2>3. v \in WatchRecs /\ v.kind = R[i].watch.kind /\ ~v.active
      BY <2>1, <2>2, WatchOf, WatchActive
    <2>4. PICK a : a = WithWatch(R[i], v)
      OBVIOUS
    <2>5. Rewatched(R[i], a) /\ a.watch = v /\ a \in RunRecs
      BY <2>1, <2>3, <2>4, WatchType DEF Rewatched
    <2>6. PICK seen : seen = Stopping(R, i)
      OBVIOUS
    <2>7. seen = [R EXCEPT ![i] = a]
      BY <2>1, <2>2, <2>4, <2>6 DEF WithWatch, WithActive, Stopping
    <2>8. seen[i] = a /\ seen \in [DOMAIN R -> RunRecs] /\ DOMAIN seen = DOMAIN R
      <3>1. \A j \in DOMAIN R : R[j] \in RunRecs
        BY <2>1, RunsAre
      <3>q. QED BY <2>1, <2>5, <2>7, <3>1
    <2>9. RunsTyped(seen)
      BY <2>1, <2>8, RunsMade
    <2>10. Q[i] = IF a.state \in {"RUNNING", "WAITING_USER", "WAITING_EXTERNAL"}
                  THEN EndedRun(seen, i, "CANCELLED")[i] ELSE a
      BY <1>6, <2>6, <2>8
    <2>11. EndedRun(seen, i, "CANCELLED")[i] = EndedOf(a, "CANCELLED")
      BY <2>1, <2>8, <2>9, EndedIs
    <2>12. a.state \in {"RUNNING", "WAITING_USER", "WAITING_EXTERNAL"} <=> a.state \notin OverStates
      BY <2>5 DEF RunRecs, States, OverStates
    <2>13. PICK c : c = EndedOf(a, "CANCELLED")
      OBVIOUS
    <2>14. /\ c \in RunRecs /\ Alike(a, c) /\ c.draft = a.draft /\ c.state = "CANCELLED"
           /\ c.error = a.error
      BY <2>5, <2>13, EndedType DEF States
    <2>15. CASE a.state \in OverStates
      <3>1. Q[i] = a
        BY <2>10, <2>12, <2>15
      <3>q. QED BY <2>3, <2>5, <2>15, <3>1 DEF Rewatched
    <2>16. CASE a.state \notin OverStates
      <3>1. Q[i] = c
        BY <2>10, <2>11, <2>12, <2>13, <2>16
      <3>q. QED BY <2>3, <2>5, <2>14, <2>16, <3>1 DEF Rewatched, Alike
    <2>q. QED BY <2>15, <2>16
  <1>11. \A i \in DOMAIN R \ B : Q[i] = R[i]
    BY <1>4, <1>6
  <1>12. Q \in [DOMAIN R -> RunRecs]
    <2>1. \A i \in DOMAIN R : R[i] \in RunRecs
      BY <1>4, RunsAre DEF Facts
    <2>2. \A i \in DOMAIN R : Q[i] \in RunRecs
      BY <1>10, <1>11, <2>1
    <2>3. Q = [i \in DOMAIN R |-> Q[i]]
      BY <1>4, <1>6
    <2>q. QED BY <2>2, <2>3
  <1>13. \A i \in DOMAIN R : R[i].parent \in B => i \in B
    BY <1>2, <1>4 DEF Alike
  <1>14. \A w \in DOMAIN V : V[w].state \in Open => w[1] \notin B /\ V[w].run \notin B
    BY <1>8
  <1>15. B \in SUBSET DOMAIN R
    BY <1>4
  <1>16. Facts(Q, V, order, stopped \cup B)
    BY <1>9, <1>10, <1>11, <1>12, <1>13, <1>14, <1>15, BranchStops, ZenonT(30)
  <1>q. QED BY <1>5, <1>6, <1>7, <1>16 DEF AgentIInv

LEMMA ClaimKeeps ==
    ASSUME AgentIInv, NEW w \in DOMAIN wakeup, ClaimAgentWakeup(w)
    PROVE  AgentIInv'
  <1>1. PICK own : own = Expire(agentRun, {w[1], wakeup[w].run})
    OBVIOUS
  <1>2. PICK all : all = Expire(agentRun, Ids)
    OBVIOUS
  <1>3. /\ Facts(agentRun, wakeup, order, stopped) /\ tokens \in 0..2
        /\ Ids = DOMAIN agentRun
    BY IdsAre DEF AgentIInv
  <1>4. Facts(own, wakeup, order, stopped)
    BY <1>1, <1>3, RunsExpire
  <1>5. /\ Facts(all, wakeup, order, stopped) /\ Len(all) = Len(agentRun)
        /\ DOMAIN all = DOMAIN agentRun
        /\ \A i \in DOMAIN agentRun :
              \/ all[i] = agentRun[i]
              \/ agentRun[i].state = "RUNNING" /\ all[i].state = "FAILED"
    BY <1>2, <1>3, RunsExpire
  <1>6. wakeup[w] \in WakeupRecs /\ wakeup = [v \in DOMAIN wakeup |-> wakeup[v]]
        /\ wakeup \in [DOMAIN wakeup -> WakeupRecs]
    BY <1>3 DEF Facts, Handed
  <1>7. UNCHANGED <<order, stopped>> /\ Candidate(w)
    BY DEF ClaimAgentWakeup
  <1>8. CASE Verdict(w) # "start"
    <2>1. /\ agentRun' = own /\ wakeup' = [wakeup EXCEPT ![w].state = Verdict(w)]
          /\ UNCHANGED tokens
      BY <1>1, <1>8 DEF ClaimAgentWakeup
    <2>2. PICK s \in {"completed", "failed"} : s = Verdict(w)
      BY <1>8 DEF Verdict
    <2>3. PICK V : V = wakeup'
      OBVIOUS
    <2>4. V = [wakeup EXCEPT ![w] = [wakeup[w] EXCEPT !.state = s]]
      BY <1>6, <2>1, <2>2, <2>3
    <2>5. PICK e : e = [wakeup[w] EXCEPT !.state = s]
      OBVIOUS
    <2>6. e \in WakeupRecs /\ e.run = wakeup[w].run /\ e.attempts = wakeup[w].attempts
          /\ e.state = s
      BY <1>6, <2>5 DEF WakeupRecs
    <2>7. V = [wakeup EXCEPT ![w] = e]
      BY <2>4, <2>5
    <2>8. V \in [DOMAIN wakeup -> WakeupRecs] /\ V[w] = e
          /\ \A v \in DOMAIN wakeup : v # w => V[v] = wakeup[v]
      BY <1>6, <2>6, <2>7
    <2>9. Facts(own, V, order, stopped)
      BY <1>4, <2>6, <2>8, WakeupsEnd
    <2>q. QED BY <1>7, <2>1, <2>3, <2>9 DEF AgentIInv
  <1>9. CASE Verdict(w) = "start" /\ Admits(all)
    <2>1. Dispatch(w, all)
      BY <1>2, <1>9 DEF ClaimAgentWakeup
    <2>2. \A i \in DOMAIN all : all[i].state # "RUNNING"
      BY <1>9 DEF Admits
    <2>3. PICK Q : Q = agentRun'
      OBVIOUS
    <2>4. /\ Q = IF wakeup[w].run = 0 THEN Append(all, NewRun(w[1], w))
                 ELSE Inherit(Append(all, NewRun(w[1], w)), wakeup[w].run, Len(all) + 1)
          /\ tokens' = tokens - 1
          /\ wakeup' = [wakeup EXCEPT ![w] = [state |-> "dispatched", run |-> Len(all) + 1,
                                              attempts |-> @.attempts + 1]]
      BY <1>5, <2>1, <2>3 DEF Dispatch
    <2>5. Continued(all, wakeup, w, Q)
      BY <1>5, <2>4, Inherits
    <2>6. wakeup[w].state \in Open
      BY <1>7 DEF Candidate, Open
    <2>7. /\ wakeup[w].state = "pending" => wakeup[w].run = 0
          /\ wakeup[w].run # 0 => wakeup[w].run \in DOMAIN agentRun
      BY <1>3 DEF Facts, Handed
    <2>8. wakeup[w].state = "dispatched" =>
             /\ Interrupted(agentRun[wakeup[w].run]) /\ AttemptLeft(w)
      BY <1>9 DEF Verdict
    <2>9. wakeup[w].attempts < 2
      <3>1. CASE wakeup[w].state = "pending"
        <4>1. Tries(agentRun, w) = {}
          <5>1. \A i \in Tries(agentRun, w) : i <= 0
            BY <2>7, <3>1, <1>3 DEF Facts, InTurn
          <5>2. \A i \in Tries(agentRun, w) : i \in Nat /\ i # 0
            BY <1>3, IdsAre, RunsAre DEF Tries, Facts
          <5>q. QED BY <5>1, <5>2
        <4>2. wakeup[w].attempts = Cardinality(Tries(agentRun, w))
          BY <1>3 DEF Facts, InTurn
        <4>q. QED BY <4>1, <4>2, FS_EmptySet
      <3>2. CASE wakeup[w].state = "dispatched"
        BY <2>8, <3>2 DEF AttemptLeft
      <3>q. QED BY <2>6, <3>1, <3>2 DEF Open
    <2>10. ASSUME wakeup[w].run # 0
           PROVE  all[wakeup[w].run].state \in {"FAILED", "CANCELLED"}
      <3> DEFINE old == wakeup[w].run
      <3>1. old \in DOMAIN agentRun /\ wakeup[w].state = "dispatched"
        BY <2>6, <2>7, <2>10 DEF Open
      <3>2. agentRun[old].state = "RUNNING" \/ agentRun[old].state = "FAILED"
        BY <3>1, <2>8, <1>3 DEF Interrupted, Facts, Thrown
      <3>q. QED BY <3>1, <3>2, <2>2, <1>5
    <2>11. PICK V : V = wakeup'
      OBVIOUS
    <2>12. PICK e : e = [state |-> "dispatched", run |-> Len(all) + 1,
                         attempts |-> wakeup[w].attempts + 1]
      OBVIOUS
    <2>13. Len(all) \in Nat
      BY <1>5, RunsAre DEF Facts
    <2>14. e \in WakeupRecs /\ e.state = "dispatched" /\ e.run = Len(all) + 1
           /\ e.attempts = wakeup[w].attempts + 1
      BY <1>6, <2>12, <2>13 DEF WakeupRecs
    <2>15. V = [wakeup EXCEPT ![w] = e]
      BY <1>6, <2>4, <2>11, <2>12
    <2>16. /\ V \in [DOMAIN wakeup -> WakeupRecs] /\ V[w] = e
           /\ \A v \in DOMAIN wakeup : v # w => V[v] = wakeup[v]
      BY <1>6, <2>14, <2>15
    <2>17. Facts(Q, V, order, stopped)
      BY <1>5, <2>2, <2>5, <2>6, <2>9, <2>10, <2>14, <2>16, WakeupDispatched
    <2>18. tokens' \in 0..2
      BY <1>3, <1>9, <2>4 DEF Admits
    <2>q. QED BY <1>7, <2>3, <2>11, <2>17, <2>18 DEF AgentIInv
  <1>10. CASE Verdict(w) = "start" /\ ~Admits(all)
    <2>1. agentRun' = all /\ UNCHANGED <<wakeup, tokens>>
      BY <1>2, <1>10 DEF ClaimAgentWakeup
    <2>q. QED BY <1>3, <1>5, <1>7, <2>1 DEF AgentIInv
  <1>q. QED BY <1>8, <1>9, <1>10

LEMMA AgentStepKeeps ==
    ASSUME AgentIInv, [AgentNext]_agentVars
    PROVE  AgentIInv'
  <1>1. CASE UNCHANGED agentVars
    BY <1>1 DEF agentVars, AgentIInv
  <1>2. CASE StartAgentRun \/ TokenAccrues
    BY <1>2, StartKeeps, TokenKeeps
  <1>3. ASSUME NEW stage \in Stages, EventWritten(stage) PROVE AgentIInv'
    BY <1>3, EventKeeps
  <1>4. ASSUME NEW r \in Ids, AgentStep(r) PROVE AgentIInv'
    <2>1. CASE AgentDeadlinePasses(r) \/ ReadAgentRun(r) \/ CancelAgentRun(r)
      BY <2>1, DeadlineKeeps, ReadKeeps, CancelKeeps
    <2>2. CASE ConfirmPurchase(r) \/ ConfirmChange(r)
      BY <2>2, ConfirmPurchaseKeeps, ConfirmChangeKeeps
    <2>3. CASE AllowedTools(r)
      <3>1. CASE \E kind \in {"purchase", "cancel"} : CreateAgentProposal(r, kind)
        BY <3>1, ProposalKeeps
      <3>2. CASE RequestPayment(r)
        BY <3>2, PaymentKeeps
      <3>3. CASE \E by \in Ids : CreateOrder(r, by) \/ SubmitChange(r, by)
        BY <3>3, CreateOrderKeeps, SubmitKeeps
      <3>q. QED BY <2>3, <3>1, <3>2, <3>3
                DEF AllowedTools, proposalAgentTools, executionAgentTools
    <2>4. CASE OrderByHand(r) \/ SubmitByHand(r)
      BY <2>4, OrderByHandKeeps, SubmitByHandKeeps
    <2>5. CASE Finish(r)
      BY <2>5, FinishKeeps
    <2>6. CASE \E error \in {"MODEL_UNAVAILABLE", "RUN_INTERRUPTED"} : FailRun(r, error)
      BY <2>6, FailRunKeeps
    <2>q. QED BY <1>4, <2>1, <2>2, <2>3, <2>4, <2>5, <2>6 DEF AgentStep
  <1>5. ASSUME NEW w \in DOMAIN wakeup, ClaimAgentWakeup(w) PROVE AgentIInv'
    BY <1>5, ClaimKeeps
  <1>q. QED BY <1>1, <1>2, <1>3, <1>4, <1>5 DEF AgentNext

LEMMA StoppedOnce ==
    ASSUME [AgentNext]_agentVars
    PROVE  stopped' = stopped \/ stopped = {}
  <1>1. ASSUME NEW r \in Ids, AgentStep(r) PROVE stopped' = stopped \/ stopped = {}
    BY <1>1 DEF AgentStep, AgentDeadlinePasses, ReadAgentRun, CancelAgentRun, ConfirmPurchase,
                ConfirmChange, AllowedTools, proposalAgentTools, executionAgentTools,
                CreateAgentProposal, CreateOrder, RequestPayment, SubmitChange, OrderByHand,
                SubmitByHand, Finish, FailRun
  <1>2. CASE UNCHANGED agentVars
    BY <1>2 DEF agentVars
  <1>3. CASE StartAgentRun \/ TokenAccrues \/ \E stage \in Stages : EventWritten(stage)
    BY <1>3 DEF StartAgentRun, TokenAccrues, EventWritten
  <1>4. CASE \E w \in DOMAIN wakeup : ClaimAgentWakeup(w)
    BY <1>4 DEF ClaimAgentWakeup
  <1>q. QED BY <1>1, <1>2, <1>3, <1>4 DEF AgentNext

LEMMA AgentFactsSuffice ==
    ASSUME AgentIInv
    PROVE  AgentSound
  <1>1. Facts(agentRun, wakeup, order, stopped) /\ Ids = DOMAIN agentRun
        /\ RunsTyped(agentRun) /\ \A i \in Ids : agentRun[i] \in RunRecs
    BY IdsAre DEF AgentIInv
  <1>2. AgentTypeOK
    <2>1. ASSUME NEW i \in Ids
          PROVE  /\ agentRun[i].state \in States /\ agentRun[i].watch.fact \in Stages
                 /\ agentRun[i].parent \in 0..(i - 1)
      <3>1. i \in Nat /\ i # 0
        BY <1>1, RunsAre
      <3>2. agentRun[i].parent = 0 \/ agentRun[i].parent \in 1..(i - 1)
        BY <1>1 DEF Facts, Family
      <3>q. QED BY <1>1, <3>1, <3>2 DEF RunRecs
    <2>2. ASSUME NEW w \in DOMAIN wakeup
          PROVE  /\ w[1] \in Ids /\ w[2] \in Keys
                 /\ wakeup[w].state \in Open \cup {"completed", "failed"}
      BY <1>1 DEF Facts, Handed, WakeupRecs, Open
    <2>3. tokens \in 0..2 /\ order.stage \in Stages /\ stopped \subseteq Ids
      BY <1>1 DEF AgentIInv, Facts, Halted
    <2>q. QED BY <2>1, <2>2, <2>3 DEF AgentTypeOK, States
  <1>3. OneAgentRunning
    <2> DEFINE T == {i \in Ids : agentRun[i].state = "RUNNING"}
    <2>1. CASE T = {}
      <3>1. Cardinality(T) = 0
        BY <2>1, FS_EmptySet
      <3>q. QED BY <3>1 DEF OneAgentRunning
    <2>2. CASE T # {}
      <3>1. PICK i \in T : TRUE
        BY <2>2
      <3>2. T = {i}
        BY <1>1, <3>1 DEF Facts, OneRuns
      <3>3. Cardinality(T) = 1
        BY <3>2, FS_Singleton
      <3>q. QED BY <3>3 DEF OneAgentRunning
    <2>q. QED BY <2>1, <2>2
  <1>4. AttemptsInTurn
    <2>1. \A w \in DOMAIN wakeup : Attempts(w) = Tries(agentRun, w)
      BY <1>1 DEF Attempts, Tries
    <2>q. QED BY <1>1, <2>1 DEF Facts, InTurn, AttemptsInTurn
  <1>5. StillWatched
    <2> SUFFICES ASSUME NEW i \in Ids, agentRun[i].parent # 0, agentRun[i].watch.kind # "none"
                 PROVE  LET last == wakeup[agentRun[i].cause].run
                            watch == agentRun[last].watch
                        IN  \/ last \in stopped
                            \/ Terminal(agentRun[i].watch.kind, order.stage)
                            \/ /\ watch.kind = agentRun[i].watch.kind
                               /\ watch.active /\ watch.fact = order.stage
      BY DEF StillWatched
    <2> DEFINE last == wakeup[agentRun[i].cause].run
    <2>1. \/ last \in stopped
          \/ Terminal(agentRun[i].watch.kind, order.stage)
          \/ agentRun[last].watch.active
      BY <1>1 DEF Facts, Followed
    <2>2. last \in DOMAIN agentRun
      BY <1>1, LastTry
    <2>3. CASE agentRun[last].watch.active
      <3>1. agentRun[last].watch.kind = agentRun[i].watch.kind
        BY <1>1, <2>3, Follows
      <3>2. agentRun[last].watch.fact = order.stage
        BY <1>1, <2>2, <2>3 DEF Facts, Watched
      <3>q. QED BY <2>3, <3>1, <3>2
    <2>q. QED BY <2>1, <2>3
  <1>6. CancelledStays
    <2> SUFFICES ASSUME NEW i \in Ids, agentRun[i].state = "CANCELLED"
                 PROVE  /\ ~agentRun[i].watch.active
                        /\ \A j \in Ids : agentRun[j].parent = i => agentRun[j].state # "RUNNING"
      BY DEF CancelledStays
    <2>1. i \in stopped
      BY <1>1 DEF Facts, Halted
    <2>2. \A j \in Ids : agentRun[j].parent = i => j \in stopped
      BY <1>1, <2>1 DEF Facts, Halted
    <2>q. QED BY <1>1, <2>1, <2>2 DEF Facts, Halted, OverStates
  <1>q. QED BY <1>2, <1>3, <1>4, <1>5, <1>6 DEF AgentSound

LEMMA StoppedStartsNone ==
    ASSUME AgentIInv, AgentIInv', [AgentNext]_agentVars,
           NEW i \in DOMAIN agentRun' \ Ids
    PROVE  agentRun'[i].parent \notin stopped
  <1>1. CASE stopped = {}
    BY <1>1
  <1>2. CASE stopped' = stopped
    <2>1. stopped \subseteq Ids
      BY IdsAre DEF AgentIInv, Facts, Halted
    <2>2. Halted(agentRun, wakeup, stopped)'
      BY DEF AgentIInv, Facts
    <2>3. agentRun'[i].parent \in stopped' => i \in stopped'
      BY <2>2 DEF Halted
    <2>q. QED BY <1>2, <2>1, <2>3
  <1>q. QED BY <1>1, <1>2, StoppedOnce

\* Whatever the owner, the assistant's runs, the channel and the worker do,
\* and wherever a process stops: one run of a plan at a time, a wakeup tried
\* twice at most and one attempt after the other, an order that is watched
\* stays watched through the crash of the run that did, and a cancelled run
\* has no running child (agent-runs.ts, agent-recovery.ts, agent-events.ts).
THEOREM AgentSoundAlways == AgentSpec => []AgentSound
  <1>1. AgentInit => AgentIInv
    BY AgentBegins
  <1>2. AgentIInv /\ [AgentNext]_agentVars => AgentIInv'
    BY AgentStepKeeps
  <1>3. AgentIInv => AgentSound
    BY AgentFactsSuffice
  <1>q. QED BY <1>1, <1>2, <1>3, PTL DEF AgentSpec

\* A branch its owner has stopped starts no run any more: the lock of the
\* plan puts cancelAgentRun before or after every event and every claim.
THEOREM StoppedStaysStoppedAlways == AgentSpec => StoppedStaysStopped
  <1>1. AgentInit => AgentIInv
    BY AgentBegins
  <1>2. AgentIInv /\ [AgentNext]_agentVars => AgentIInv'
    BY AgentStepKeeps
  <1>3. AgentIInv /\ AgentIInv' /\ [AgentNext]_agentVars =>
           [\A i \in DOMAIN agentRun' \ Ids : agentRun'[i].parent \notin stopped]_agentVars
    BY StoppedStartsNone
  <1>q. QED BY <1>1, <1>2, <1>3, PTL DEF AgentSpec, StoppedStaysStopped

=============================================================================
