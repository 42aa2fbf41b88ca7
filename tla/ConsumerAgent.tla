---------------------------- MODULE ConsumerAgent ----------------------------
(***************************************************************************)
(* The planning assistant of the consumers: its runs, the calls to the     *)
(* model they pay for out of one budget, and the drafts they leave         *)
(* (domain/consumer-agent-runtime.ts, model-budget.ts, model-retry.ts,     *)
(* routes/planning-drafts.ts).                                             *)
(*                                                                         *)
(* A run is a row and a process.  The process checks the row, and then     *)
(* acts: every check is a step of its own, so a cancellation, the deadline *)
(* or another owner's call may come between.  A settlement runs beside the *)
(* tools and is awaited before the next call.  A crashed process takes no  *)
(* step; its row is failed when someone looks at it after its deadline.    *)
(*                                                                         *)
(* A draft is assessed by reads that lock nothing and inserted afterwards, *)
(* in one transaction that sees what others commit meanwhile: the versions *)
(* it names, the facts it is assessed on and its row are steps apart.  One *)
(* number stands for the versions of an owner's period and account; what   *)
(* they do not cover, the items of his other months, is                    *)
(* PurchaseAdmission's subject.                                            *)
(*                                                                         *)
(* Each call reserves the same MaxCost (a full context and 1024 tokens).   *)
(* The text of answers, the twenty tool calls and the tools that only read *)
(* are left out.  A start may be refused for its rate (AgentRun has that   *)
(* table), and one repeated under its key finds its run; neither changes   *)
(* anything.                                                               *)
(***************************************************************************)
EXTENDS Integers, FiniteSets

CONSTANTS
    Owners,      \* consumers
    Planners,    \* those of them whose runs may be about a period
    Runs,        \* identifiers of runs
    Drafts,      \* identifiers of drafts
    None,        \* no owner: of a run to come; no run: of the owner's own draft
    MaxCost,     \* reserved for a call, in micro-yuan
    Costs,       \* what a call may turn out to cost
    Ceiling,     \* what all calls together may cost
    Calls,       \* calls a run may make (8)
    Retries,     \* retries of one call that was refused with 429 (3)
    MaxVersion   \* bound: versions of an owner's period and its account

ASSUME ConsumerAgentAssumption ==
    /\ Planners \subseteq Owners
    /\ IsFiniteSet(Runs) /\ None \notin Runs
    /\ MaxCost \in Nat /\ Costs \subseteq Nat /\ Ceiling \in Nat
    /\ Calls \in Nat /\ Retries \in Nat /\ MaxVersion \in Nat \ {0}

VARIABLES
    run,      \* agent_runs
    proc,     \* the process of each
    budget,   \* model_budget
    usage,    \* state in model_usage of the calls, <<run, model_calls>>
    version,  \* period and account of each owner
    draft     \* planning_drafts, with the run that saved each, the facts it was
              \* assessed on, and the transactions that are still at it

vars == <<run, proc, budget, usage, version, draft>>

CallIds == Runs \X (1..Calls)
Versions == 1..MaxVersion

NoDraft == [run |-> None, owner |-> None, basis |-> 0, facts |-> {}, status |-> "none"]

--------------------------------------------------------------------------
(***************************************************************************)
(* Rows.                                                                   *)
(***************************************************************************)
\* at: the next step; pending: the call whose cost is not settled, answered
\* when its settlement is on its way; basis: the versions it has read.
Process(at, pending, answered) ==
    [at |-> at, retry |-> 0, pending |-> pending, answered |-> answered,
     failed |-> FALSE, basis |-> 0]

NewProcess == Process("ask", 0, FALSE)

Active(r) == run[r].state = "RUNNING" /\ ~run[r].overdue

\* A guarded update: only a run that is RUNNING ends, and once.
Ended(row, state) ==
    IF row.state = "RUNNING" THEN [row EXCEPT !.state = state, !.overdue = FALSE] ELSE row

Init ==
    /\ run = [r \in Runs |-> [owner |-> None, bound |-> FALSE, state |-> "none",
                              overdue |-> FALSE, calls |-> 0]]
    /\ proc = [r \in Runs |-> Process("over", 0, FALSE)]
    /\ budget = [spent |-> 0, reserved |-> 0]
    /\ usage = [c \in CallIds |-> "none"]
    /\ version = [o \in Owners |-> 1]
    /\ draft = [d \in Drafts |-> NoDraft]

\* Runs of the owner that ran out of time are failed first.
Expired(owner) ==
    [r \in Runs |-> IF run[r].owner = owner /\ run[r].overdue
                    THEN Ended(run[r], "FAILED") ELSE run[r]]

StartConsumerAgentRun(r, owner, bound) ==
    /\ run[r].state = "none"
    /\ bound => owner \in Planners
    /\ \A q \in Runs : Expired(owner)[q].owner = owner => Expired(owner)[q].state # "RUNNING"
    /\ run' = [Expired(owner) EXCEPT ![r] =
                  [owner |-> owner, bound |-> bound, state |-> "RUNNING",
                   overdue |-> FALSE, calls |-> 0]]
    /\ proc' = [proc EXCEPT ![r] = NewProcess]
    /\ UNCHANGED <<budget, usage, version, draft>>

DeadlinePasses(r) ==
    /\ Active(r)
    /\ run' = [run EXCEPT ![r].overdue = TRUE]
    /\ UNCHANGED <<proc, budget, usage, version, draft>>

ReadConsumerAgentRun(r) ==
    /\ run[r].overdue
    /\ run' = [run EXCEPT ![r] = Ended(@, "FAILED")]
    /\ UNCHANGED <<proc, budget, usage, version, draft>>

CancelConsumerAgentRun(r) ==
    /\ run[r].state = "RUNNING"
    /\ run' = [run EXCEPT ![r] = Ended(@, "CANCELLED")]
    /\ UNCHANGED <<proc, budget, usage, version, draft>>

--------------------------------------------------------------------------
(***************************************************************************)
(* Calls to the model.                                                     *)
(***************************************************************************)
\* A fault: what is reserved is not counted.
FitsSpent(B) == B.spent + MaxCost <= Ceiling

Fits(B) == B.spent + B.reserved + MaxCost <= Ceiling

\* The process is about to call: a settlement on its way is awaited.
CheckBeforeCall(r) ==
    /\ proc[r].at = "ask" /\ ~proc[r].answered
    /\ Active(r) /\ run[r].calls < Calls
    /\ proc' = [proc EXCEPT ![r].at = "reserve"]
    /\ UNCHANGED <<run, budget, usage, version, draft>>

\* One transaction; the row's count follows whatever became of the run.
ReserveAttempt(r) ==
    LET n == run[r].calls + 1 IN
    /\ proc[r].at = "reserve"
    /\ Fits(budget)
    /\ budget' = [budget EXCEPT !.reserved = @ + MaxCost]
    /\ usage' = [usage EXCEPT ![<<r, n>>] = "reserved"]
    /\ run' = [run EXCEPT ![r].calls = n]
    /\ proc' = [proc EXCEPT ![r].at = "sent", ![r].pending = n]
    /\ UNCHANGED <<version, draft>>

\* 429: the same request again, as a call of its own.
Refused(r) ==
    /\ proc[r].at = "sent" /\ proc[r].retry < Retries
    /\ proc' = [proc EXCEPT ![r].at = "ask", ![r].retry = @ + 1]
    /\ UNCHANGED <<run, budget, usage, version, draft>>

\* An answer that tells its use of tokens is settled beside what follows;
\* one that ends in an error fails the run.
Answered(r, told, ok, next) ==
    /\ proc[r].at = "sent"
    /\ proc' = [proc EXCEPT ![r].at = IF ok THEN next ELSE "finish", ![r].retry = 0,
                            ![r].answered = told, ![r].failed = @ \/ ~ok]
    /\ UNCHANGED <<run, budget, usage, version, draft>>

\* What costs more than was reserved stays reserved, and fails the run.
SettleModelCost(r, cost) ==
    /\ proc[r].answered
    /\ IF cost <= MaxCost
       THEN /\ budget' = [spent |-> budget.spent + cost, reserved |-> budget.reserved - MaxCost]
            /\ usage' = [usage EXCEPT ![<<r, proc[r].pending>>] = "settled"]
            /\ proc' = [proc EXCEPT ![r].answered = FALSE, ![r].pending = 0]
       ELSE /\ proc' = [proc EXCEPT ![r].answered = FALSE, ![r].failed = TRUE]
            /\ UNCHANGED <<budget, usage>>
    /\ UNCHANGED <<run, version, draft>>

--------------------------------------------------------------------------
(***************************************************************************)
(* Tools, and the owner's own drafts.                                      *)
(***************************************************************************)
ReadBudgetBasis(r) ==
    /\ proc[r].at = "tools" /\ Active(r) /\ run[r].bound
    /\ proc' = [proc EXCEPT ![r].at = "ask", ![r].basis = version[run[r].owner]]
    /\ UNCHANGED <<run, budget, usage, version, draft>>

\* Any other tool, and one that refused.
ToolDone(r) ==
    /\ proc[r].at = "tools"
    /\ proc' = [proc EXCEPT ![r].at = "ask"]
    /\ UNCHANGED <<run, budget, usage, version, draft>>

CheckBeforeSave(r) ==
    /\ proc[r].at = "tools" /\ Active(r)
    /\ run[r].bound => proc[r].basis # 0
    /\ proc' = [proc EXCEPT ![r].at = "save"]
    /\ UNCHANGED <<run, budget, usage, version, draft>>

\* createPlanningDraft asks for an assessment at the versions the client has
\* seen; without a period, 0, there is none.  The row of the period is read,
\* then that of the account: versions only rise, so those that pass were both
\* the owner's when the first was read.
CompareVersions(d, r, owner, basis) ==
    /\ draft[d].status = "none"
    /\ basis \in {0, version[owner]}
    /\ draft' = [draft EXCEPT ![d] =
           [run |-> r, owner |-> owner, basis |-> basis, facts |-> {}, status |-> "assessing"]]

\* The run is not looked at again, and a tool that is refused changes nothing.
SavePlanningDraft(r) ==
    /\ proc[r].at = "save"
    /\ \/ /\ \E d \in Drafts :
                CompareVersions(d, r, run[r].owner, IF run[r].bound THEN proc[r].basis ELSE 0)
          /\ proc' = [proc EXCEPT ![r].at = "saving"]
       \/ proc' = [proc EXCEPT ![r].at = "ask"] /\ UNCHANGED draft
    /\ UNCHANGED <<run, budget, usage, version>>

SaveByHand(d, owner, basis) ==
    /\ CompareVersions(d, None, owner, basis)
    /\ UNCHANGED <<run, proc, budget, usage, version>>

\* The balance, the items, the orders: one query after another, each of which
\* sees what has been committed by then.
ReadFacts(d) ==
    /\ draft[d].status = "assessing" /\ draft[d].basis # 0
    /\ draft' = [draft EXCEPT ![d].facts = @ \cup {version[draft[d].owner]}]
    /\ UNCHANGED <<run, proc, budget, usage, version>>

\* The tool returns to the process that waits for it, if it still does.
Returned(r) ==
    [q \in Runs |-> IF q = r /\ proc[q].at = "saving" THEN [proc[q] EXCEPT !.at = "ask"]
                    ELSE proc[q]]

\* A fault: the draft names the versions that are there when it is inserted.
CreatePlanningDraftLate(d) ==
    /\ draft[d].status = "assessing"
    /\ draft[d].basis # 0 => draft[d].facts # {}
    /\ draft' = [draft EXCEPT ![d].status = "draft",
           ![d].basis = IF @ = 0 THEN 0 ELSE version[draft[d].owner]]
    /\ proc' = Returned(draft[d].run)
    /\ UNCHANGED <<run, budget, usage, version>>

\* The INSERT, whatever has been committed since the facts were read and
\* whatever has become of the run.
CreatePlanningDraft(d) ==
    /\ draft[d].status = "assessing"
    /\ draft[d].basis # 0 => draft[d].facts # {}
    /\ draft' = [draft EXCEPT ![d].status = "draft"]
    /\ proc' = Returned(draft[d].run)
    /\ UNCHANGED <<run, budget, usage, version>>

\* A later comparison refuses, or the server stops before the commit.
AbortDraft(d) ==
    /\ draft[d].status = "assessing"
    /\ draft' = [draft EXCEPT ![d] = NoDraft]
    /\ proc' = Returned(draft[d].run)
    /\ UNCHANGED <<run, budget, usage, version>>

TransitionDraft(d, status) ==
    /\ draft[d].status = "draft"
    /\ draft' = [draft EXCEPT ![d].status = status]
    /\ UNCHANGED <<run, proc, budget, usage, version>>

PeriodChanges(owner) ==
    /\ version[owner] < MaxVersion
    /\ version' = [version EXCEPT ![owner] = @ + 1]
    /\ UNCHANGED <<run, proc, budget, usage, draft>>

--------------------------------------------------------------------------
(***************************************************************************)
(* The end of a run.                                                       *)
(***************************************************************************)
\* Between this check and the update the run may have ended otherwise.
CheckBeforeEnd(r) ==
    /\ proc[r].at = "finish" /\ ~proc[r].answered
    /\ Active(r) /\ ~proc[r].failed /\ proc[r].pending = 0
    /\ proc' = [proc EXCEPT ![r].at = "complete"]
    /\ UNCHANGED <<run, budget, usage, version, draft>>

\* All that is left of the process is a settlement on its way.
Over(p) == Process("over", IF p.answered THEN p.pending ELSE 0, p.answered)

Complete(r) ==
    /\ proc[r].at = "complete"
    /\ run' = [run EXCEPT ![r] = Ended(@, "COMPLETED")]
    /\ proc' = [proc EXCEPT ![r] = Over(@)]
    /\ UNCHANGED <<budget, usage, version, draft>>

\* A check refused, the model failed, or the process was told to stop.
Fail(r) ==
    /\ proc[r].at # "over"
    /\ run' = [run EXCEPT ![r] = Ended(@, "FAILED")]
    /\ proc' = [proc EXCEPT ![r] = Over(@)]
    /\ UNCHANGED <<budget, usage, version, draft>>

RunStep(r) ==
    \/ \E owner \in Owners, bound \in BOOLEAN : StartConsumerAgentRun(r, owner, bound)
    \/ DeadlinePasses(r) \/ ReadConsumerAgentRun(r) \/ CancelConsumerAgentRun(r)
    \/ CheckBeforeCall(r) \/ ReserveAttempt(r) \/ Refused(r)
    \/ \E told, ok \in BOOLEAN, next \in {"tools", "finish"} : Answered(r, told, ok, next)
    \/ \E cost \in Costs : SettleModelCost(r, cost)
    \/ ReadBudgetBasis(r) \/ ToolDone(r) \/ CheckBeforeSave(r) \/ SavePlanningDraft(r)
    \/ CheckBeforeEnd(r) \/ Complete(r) \/ Fail(r)

Next ==
    \/ \E r \in Runs : RunStep(r)
    \/ \E owner \in Planners : PeriodChanges(owner)
    \/ \E d \in Drafts, owner \in Planners, basis \in 0..MaxVersion : SaveByHand(d, owner, basis)
    \/ \E d \in Drafts : ReadFacts(d) \/ CreatePlanningDraft(d) \/ AbortDraft(d)
    \/ \E d \in Drafts, status \in {"accepted", "discarded"} : TransitionDraft(d, status)

Spec == Init /\ [][Next]_vars

--------------------------------------------------------------------------
(***************************************************************************)
(* Properties.                                                             *)
(***************************************************************************)
Rows ==
    [owner : Owners \cup {None}, bound : BOOLEAN, overdue : BOOLEAN, calls : 0..Calls,
     state : {"none", "RUNNING", "COMPLETED", "FAILED", "CANCELLED"}]

Processes ==
    [at : {"ask", "reserve", "sent", "tools", "save", "saving", "finish", "complete", "over"},
     retry : 0..Retries, pending : 0..Calls, answered : BOOLEAN, failed : BOOLEAN,
     basis : 0..MaxVersion]

DraftRows ==
    [run : Runs \cup {None}, owner : Owners \cup {None}, basis : 0..MaxVersion,
     facts : SUBSET Versions, status : {"none", "assessing", "draft", "accepted", "discarded"}]

TypeOK ==
    /\ run \in [Runs -> Rows]
    /\ proc \in [Runs -> Processes]
    /\ budget \in [spent : Nat, reserved : Nat]
    /\ usage \in [CallIds -> {"none", "reserved", "settled"}]
    /\ version \in [Owners -> Versions]
    /\ draft \in [Drafts -> DraftRows]

OneRunning ==
    \A r, q \in Runs :
        run[r].owner = run[q].owner /\ run[r].state = "RUNNING" /\ run[q].state = "RUNNING"
            => r = q

Unsettled == {c \in CallIds : usage[c] = "reserved"}
Settled == {c \in CallIds : usage[c] = "settled"}

\* There is a row for every call a run counts, what is reserved is theirs
\* that are not settled, and what is spent is less than was reserved for it.
CallsPaid ==
    /\ \A c \in CallIds : usage[c] # "none" <=> c[2] <= run[c[1]].calls
    /\ budget.reserved = MaxCost * Cardinality(Unsettled)
    /\ budget.spent <= MaxCost * Cardinality(Settled)
    /\ budget.spent + budget.reserved <= Ceiling

\* What a completed run has answered is paid: its last call is settled.
CompletedIsPaid ==
    \A r \in Runs : run[r].state = "COMPLETED" /\ run[r].calls > 0 =>
        usage[<<r, run[r].calls>>] = "settled"

Saved(d) == draft[d].status \in {"draft", "accepted", "discarded"}

\* What the page of a draft tells by its versions (draft/detail.vue) is true:
\* as long as they are the owner's, the draft was assessed on what is so now,
\* and on nothing else, although other commits may have come between the
\* comparison, the reads and the INSERT.  A draft that was overtaken on the
\* way names versions that are gone.  One an assistant saves in a period
\* names those it has read.
DraftsAssessed ==
    \A d \in Drafts :
        /\ Saved(d) /\ draft[d].basis # 0 /\ draft[d].basis = version[draft[d].owner]
              => draft[d].facts = {draft[d].basis}
        /\ draft[d].run # None => (draft[d].basis # 0 <=> run[draft[d].run].bound)

\* The planning assistants as a whole (consumer-agent-runtime.ts,
\* model-budget.ts, planning-drafts.ts): an owner has one run at a time;
\* runs that call, retry, settle, stop and crash side by side never promise
\* more than the ceiling, and every call is on the books; a completed run is
\* paid for; a draft whose versions are still current rests on current facts.
AssistantsSound == TypeOK /\ OneRunning /\ CallsPaid /\ CompletedIsPaid /\ DraftsAssessed
=============================================================================
