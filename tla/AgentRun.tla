------------------------------ MODULE AgentRun ------------------------------
(***************************************************************************)
(* The assistant of one plan: its runs, the drafts they leave for the      *)
(* owner to confirm, the order they watch and the wakeups by which an      *)
(* event starts a run (domain/agent-*.ts, routes/agent.ts, worker.ts).     *)
(*                                                                         *)
(* One plan of one owner with one item, so one order.  A transaction is    *)
(* one step: those of the owner and of a run take the plan's lock, and an  *)
(* event of a merchant or of the channel, which do not, references the     *)
(* plan and so waits for that lock as well (events.plan_id).               *)
(* A run whose process has crashed, or has come to its end too late, is    *)
(* RUNNING and takes no step: nothing here obliges a process to.           *)
(*                                                                         *)
(* Not here: model calls and their cost (ConsumerAgent has the loop both   *)
(* runtimes share), pausing purchases and asking for a recheck (they       *)
(* change nothing an assistant's run depends on but a refusal), drafts     *)
(* that close an unpaid order, a second cancellation after a refused one.  *)
(***************************************************************************)
EXTENDS Integers, FiniteSets, Sequences

CONSTANTS
    UserRuns,   \* bound: runs the owner starts
    StopRuns,   \* bound: one of the first so many runs may be cancelled
    Before,     \* what may have become of the order before
    Reached     \* bound: stages the order may still come to

ASSUME AgentRunAssumption ==
    /\ UserRuns \in Nat /\ StopRuns \in Nat
    /\ Before \subseteq {"none", "paid"}
    /\ Reached \subseteq {"pending", "unknown", "paid", "closed", "asked", "approved", "decided"}

VARIABLES
    agentRun,      \* agent_runs in the order they were inserted, each with its
                   \* proposal and its watch
    wakeup,        \* agent_wakeups by <<parent_run_id, event_key>>
    tokens,        \* agent_rate_limits of the owner
    order,         \* its stage, and the run whose confirmed draft it carries out
    holder,        \* run whose confirmed purchase holds the active authorisation
    stopped        \* history: runs the owner's cancellations have covered

agentVars == <<agentRun, wakeup, tokens, order, holder, stopped>>

Ids == 1..Len(agentRun)
\* payment_status and status of the order, and the state of the request to
\* cancel it: "decided" is refused, or approved and refunded.
Stages == {"none", "pending", "unknown", "paid", "closed", "asked", "approved", "decided"}
Keys == Stages \cup {"confirmed"}
Open == {"pending", "dispatched"}
Unwatched == [kind |-> "none", active |-> FALSE, fact |-> "none"]
NoWakeup == <<0, "none">>

--------------------------------------------------------------------------
(***************************************************************************)
(* Runs.                                                                   *)
(***************************************************************************)
NewRun(parent, cause) ==
    [state |-> "RUNNING", error |-> "none", parent |-> parent, cause |-> cause,
     overdue |-> FALSE, draft |-> "none", status |-> "none",
     watch |-> Unwatched]

\* A run that is over: what its process still does changes nothing, and its
\* deadline is read no more.
EndedRun(R, r, state) ==
    [R EXCEPT ![r].state = state, ![r].overdue = FALSE]

\* RUNNING runs of S whose deadline has passed are failed; RUN_EXPIRED and
\* RUN_INTERRUPTED are read alike and have one name here.
Expire(R, S) ==
    [i \in DOMAIN R |->
        IF i \in S /\ R[i].state = "RUNNING" /\ R[i].overdue
        THEN [EndedRun(R, i, "FAILED")[i] EXCEPT !.error = "RUN_INTERRUPTED"]
        ELSE R[i]]

Admits(R) == tokens >= 1 /\ \A i \in DOMAIN R : R[i].state # "RUNNING"

AgentInit ==
    /\ agentRun = <<>>
    /\ wakeup = [w \in {} |-> w]
    /\ tokens = 2
    /\ order \in [stage : Before, by : {0}]
    /\ holder = 0
    /\ stopped = {}

\* One that is refused rolls back, so only the admitted one changes anything.
StartAgentRun ==
    LET expired == Expire(agentRun, Ids) IN
    /\ Cardinality({i \in Ids : agentRun[i].parent = 0}) < UserRuns
    /\ Admits(expired)
    /\ tokens' = tokens - 1
    /\ agentRun' = Append(expired, NewRun(0, NoWakeup))
    /\ UNCHANGED <<wakeup, order, holder, stopped>>

TokenAccrues == tokens < 2 /\ tokens' = tokens + 1
                /\ UNCHANGED <<agentRun, wakeup, order, holder, stopped>>

AgentDeadlinePasses(r) ==
    /\ agentRun[r].state = "RUNNING" /\ ~agentRun[r].overdue
    /\ agentRun' = [agentRun EXCEPT ![r].overdue = TRUE]
    /\ UNCHANGED <<wakeup, tokens, order, holder, stopped>>

\* What reading a run makes of it.
AsRead(r) ==
    IF agentRun[r].state = "WAITING_EXTERNAL" /\ ~agentRun[r].watch.active
    THEN [agentRun EXCEPT ![r].state = "COMPLETED"]
    ELSE Expire(agentRun, {r})

ReadAgentRun(r) ==
    /\ AsRead(r) # agentRun
    /\ agentRun' = AsRead(r)
    /\ UNCHANGED <<wakeup, tokens, order, holder, stopped>>

Branch(r) ==
    LET f[i \in Ids] == i = r \/ (agentRun[i].parent # 0 /\ f[agentRun[i].parent])
    IN  {i \in Ids : f[i]}

\* A fault: the wakeups handed to a run of the branch, not those that wait.
DroppedDispatched(B) ==
    {w \in DOMAIN wakeup : wakeup[w].state = "dispatched" /\ wakeup[w].run \in B}

\* The wakeups of a branch that is stopped, or handed to a run of it.
Dropped(B) ==
    {w \in DOMAIN wakeup : wakeup[w].state \in Open /\ (w[1] \in B \/ wakeup[w].run \in B)}

\* The transaction of a cancellation.  The run is read before it and after it,
\* in steps of their own (ReadAgentRun): by the time the branch is stopped its
\* deadline may have passed or its watch may have gone.
CancelAgentRun(r) ==
    LET B == Branch(r) IN
    /\ stopped = {} /\ r <= StopRuns
    /\ agentRun' = [i \in Ids |->
                      IF i \notin B THEN agentRun[i]
                      ELSE LET seen == [agentRun EXCEPT ![i].watch.active = FALSE]
                           IN  IF seen[i].state
                                      \in {"RUNNING", "WAITING_USER", "WAITING_EXTERNAL"}
                               THEN EndedRun(seen, i, "CANCELLED")[i] ELSE seen[i]]
    /\ wakeup' = [w \in DOMAIN wakeup |->
                    IF w \in Dropped(B) THEN [wakeup[w] EXCEPT !.state = "failed"]
                    ELSE wakeup[w]]
    /\ stopped' = stopped \cup B
    /\ UNCHANGED <<tokens, order, holder>>

--------------------------------------------------------------------------
(***************************************************************************)
(* Events.                                                                 *)
(***************************************************************************)
Terminal(kind, stage) ==
    stage \in IF kind = "purchase"
              THEN {"paid", "asked", "approved", "decided", "closed"}
              ELSE {"decided", "closed"}

\* A run looks at the order: what it watches of another kind is replaced.
WatchAgentOrder(R, r, kind, stage) ==
    IF R[r].watch.kind = kind THEN R
    ELSE [R EXCEPT ![r].watch =
            [kind |-> kind, active |-> ~Terminal(kind, stage), fact |-> stage]]

Watchers(R) == {i \in DOMAIN R : R[i].watch.active /\ R[i].state # "CANCELLED"}

Noticed(R, stage) ==
    [i \in DOMAIN R |->
        IF i \in Watchers(R)
        THEN [R[i] EXCEPT !.watch.active = ~Terminal(R[i].watch.kind, stage),
                          !.watch.fact = stage]
        ELSE R[i]]

\* agent_wakeups with one for each of ids that has none; one key, one wakeup.
WithWakeups(ids) ==
    [w \in ids \cup DOMAIN wakeup |->
        IF w \in DOMAIN wakeup THEN wakeup[w]
        ELSE [state |-> "pending", run |-> 0, attempts |-> 0]]

Told(R, stage) ==
    {<<i, stage>> : i \in {j \in Watchers(R) : R[j].watch.fact # stage}}

\* What the channel, the worker or the merchant makes of the order.
Moves ==
    {<<"pending", "unknown">>, <<"unknown", "pending">>, <<"asked", "approved">>}
        \cup {"pending", "unknown"} \X {"paid", "closed"}
        \cup {"asked", "approved"} \X {"decided"}

EventWritten(stage) ==
    /\ <<order.stage, stage>> \in Moves /\ stage \in Reached
    /\ order' = [order EXCEPT !.stage = stage]
    /\ wakeup' = WithWakeups(Told(agentRun, stage))
    /\ agentRun' = Noticed(agentRun, stage)
    /\ UNCHANGED <<tokens, holder, stopped>>

\* The owner confirms a draft: only a run that waits for it is woken.
Confirmed(r) ==
    wakeup' = IF agentRun[r].state = "WAITING_USER"
              THEN WithWakeups({<<r, "confirmed">>}) ELSE wakeup

\* A confirmed purchase takes the authorisation over and moves the plan's
\* version, which no older draft outlives.
ConfirmPurchase(r) ==
    /\ agentRun[r].draft = "purchase" /\ agentRun[r].status = "pending"
    /\ agentRun' = [i \in Ids |->
                      IF i = r THEN [agentRun[i] EXCEPT !.status = "confirmed"]
                      ELSE IF agentRun[i].status = "pending"
                      THEN [agentRun[i] EXCEPT !.status = "stale"]
                      ELSE agentRun[i]]
    /\ holder' = r
    /\ Confirmed(r)
    /\ UNCHANGED <<tokens, order, stopped>>

ConfirmChange(r) ==
    /\ agentRun[r].draft = "cancel" /\ agentRun[r].status = "pending"
    /\ agentRun' = [agentRun EXCEPT ![r].status = "confirmed"]
    /\ Confirmed(r)
    /\ UNCHANGED <<tokens, order, holder, stopped>>

--------------------------------------------------------------------------
(***************************************************************************)
(* What a run does.                                                        *)
(***************************************************************************)
ActiveRun(r) == agentRun[r].state = "RUNNING" /\ ~agentRun[r].overdue

\* What a run may carry out: the owner's, anything confirmed; one that a
\* confirmation started, that alone; one that a fact started, nothing.
MayCarryOut(r, draft) ==
    agentRun[r].parent = 0 \/ agentRun[r].cause = <<draft, "confirmed">>

CreateAgentProposal(r, draft) ==
    /\ ActiveRun(r)
    /\ agentRun[r].parent = 0 /\ agentRun[r].draft = "none"
    /\ <<draft, order.stage>> \in {<<"purchase", "none">>, <<"cancel", "paid">>}
    /\ agentRun' = [EndedRun(agentRun, r, "WAITING_USER") EXCEPT
                      ![r].draft = draft, ![r].status = "pending"]
    /\ UNCHANGED <<wakeup, tokens, order, holder, stopped>>

\* The order a confirmed purchase gets, or has got already.
Ordered(draft) ==
    IF order.stage # "none" /\ order.by = draft THEN {order}
    ELSE IF order.stage = "none" /\ holder = draft
    THEN {[stage |-> "pending", by |-> draft]}
    ELSE {}

CreateOrder(r, draft) ==
    /\ ActiveRun(r) /\ MayCarryOut(r, draft)
    /\ agentRun[draft].draft = "purchase" /\ agentRun[draft].status = "confirmed"
    /\ \E o \in Ordered(draft) :
          /\ order' = o
          /\ agentRun' = WatchAgentOrder(agentRun, r, "purchase", o.stage)
    /\ UNCHANGED <<wakeup, tokens, holder, stopped>>

OrderByHand(draft) ==
    /\ agentRun[draft].draft = "purchase" /\ agentRun[draft].status = "confirmed"
    /\ order' \in Ordered(draft)
    /\ UNCHANGED <<agentRun, wakeup, tokens, holder, stopped>>

RequestPayment(r) ==
    /\ ActiveRun(r) /\ order.stage # "none" /\ MayCarryOut(r, order.by)
    /\ agentRun' = WatchAgentOrder(agentRun, r, "purchase", order.stage)
    /\ UNCHANGED <<wakeup, tokens, order, holder, stopped>>

\* A confirmed cancellation is submitted once, and its rule approves it,
\* leaves it to the merchant or refuses it at once, which is an event.
Submitted(R, draft) ==
    IF R[draft].status = "executing"
    THEN agentRun' = R /\ UNCHANGED <<wakeup, order>>
    ELSE /\ R[draft].status = "confirmed" /\ order.stage = "paid"
         /\ \E stage \in {"asked", "approved", "decided"} \cap Reached :
               /\ order' = [order EXCEPT !.stage = stage]
               /\ agentRun' = [Noticed(R, stage) EXCEPT ![draft].status = "executing"]
               /\ wakeup' = WithWakeups(Told(R, stage))

SubmitChange(r, draft) ==
    /\ ActiveRun(r) /\ MayCarryOut(r, draft)
    /\ agentRun[draft].draft = "cancel"
    /\ Submitted(WatchAgentOrder(agentRun, r, "change", order.stage), draft)
    /\ UNCHANGED <<tokens, holder, stopped>>

SubmitByHand(draft) ==
    /\ agentRun[draft].draft = "cancel"
    /\ Submitted(agentRun, draft)
    /\ UNCHANGED <<tokens, holder, stopped>>

\* The last transaction of a run that came to its end without a draft, in
\* time: a watch has followed the order, so what it drops is not active.
Finish(r) ==
    /\ ActiveRun(r)
    /\ agentRun' = EndedRun(agentRun, r, IF agentRun[r].watch.active
                                         THEN "WAITING_EXTERNAL" ELSE "COMPLETED")
    /\ UNCHANGED <<wakeup, tokens, order, holder, stopped>>

\* It threw, or was aborted: by its time, by a cancellation or by a shutdown.
FailRun(r, error) ==
    /\ agentRun[r].state = "RUNNING"
    /\ agentRun' = [EndedRun(agentRun, r, "FAILED") EXCEPT ![r].error = error]
    /\ UNCHANGED <<wakeup, tokens, order, holder, stopped>>

--------------------------------------------------------------------------
(***************************************************************************)
(* The worker claims a wakeup.                                             *)
(***************************************************************************)
\* A fault: a run that never came to its end still holds its wakeup.
CandidateFinished(w) ==
    \/ wakeup[w].state = "pending"
    \/ /\ wakeup[w].state = "dispatched"
       /\ agentRun[wakeup[w].run].state # "RUNNING"

Candidate(w) ==
    \/ wakeup[w].state = "pending"
    \/ /\ wakeup[w].state = "dispatched"
       /\ agentRun[wakeup[w].run].state # "RUNNING" \/ agentRun[wakeup[w].run].overdue

\* What is left of the claim when neither the parent nor an earlier attempt
\* stands in its way: "start", or the state the wakeup ends in.
Interrupted(child) ==
    child.state = "RUNNING" \/ child.error = "RUN_INTERRUPTED"

AttemptLeft(w) == wakeup[w].attempts < 2

Verdict(w) ==
    LET child == agentRun[wakeup[w].run] IN
    IF agentRun[w[1]].state = "CANCELLED" THEN "failed"
    ELSE IF wakeup[w].state = "dispatched"
            /\ child.state \in {"COMPLETED", "WAITING_USER", "WAITING_EXTERNAL"}
    THEN "completed"
    ELSE IF wakeup[w].state = "dispatched" /\ ~(Interrupted(child) /\ AttemptLeft(w))
    THEN "failed"
    ELSE IF w[2] = "confirmed" /\ agentRun[w[1]].status \notin {"confirmed", "executing"}
    THEN "failed"
    ELSE "start"

\* A fault: the new attempt is a run like any other.
InheritNothing(R, old, new) == R

\* The new attempt takes over what the last one watched.
Inherit(R, old, new) ==
    [R EXCEPT ![new].watch = IF R[old].watch.active THEN R[old].watch ELSE Unwatched,
              ![old].watch.active = FALSE]

Dispatch(w, expired) ==
    LET new == Len(agentRun) + 1
        R == Append(expired, NewRun(w[1], w))
    IN  /\ agentRun' = IF wakeup[w].run = 0 THEN R ELSE Inherit(R, wakeup[w].run, new)
        /\ wakeup' = [wakeup EXCEPT ![w] = [state |-> "dispatched", run |-> new,
                                            attempts |-> @.attempts + 1]]
        /\ tokens' = tokens - 1

\* A parent that still runs puts the wakeup off, and so does another run of
\* the plan or an empty bucket, but the runs whose time is over are failed.
ClaimAgentWakeup(w) ==
    LET own == Expire(agentRun, {w[1], wakeup[w].run})
        all == Expire(agentRun, Ids)
    IN  /\ Candidate(w)
        /\ own[w[1]].state # "RUNNING"
        /\ IF Verdict(w) # "start"
           THEN /\ agentRun' = own
                /\ wakeup' = [wakeup EXCEPT ![w].state = Verdict(w)]
                /\ UNCHANGED tokens
           ELSE IF Admits(all) THEN Dispatch(w, all)
           ELSE /\ agentRun' = all /\ agentRun' # agentRun
                /\ UNCHANGED <<wakeup, tokens>>
        /\ UNCHANGED <<order, holder, stopped>>

--------------------------------------------------------------------------
\* The tools a run is given; one that a fact started only reads.
proposalAgentTools(r) ==
    \E draft \in {"purchase", "cancel"} : CreateAgentProposal(r, draft)
executionAgentTools(r) ==
    \/ RequestPayment(r)
    \/ \E draft \in Ids : CreateOrder(r, draft) \/ SubmitChange(r, draft)
AllowedTools(r) ==
    \/ agentRun[r].parent = 0 /\ proposalAgentTools(r)
    \/ /\ agentRun[r].parent = 0 \/ agentRun[r].cause[2] = "confirmed"
       /\ executionAgentTools(r)

AgentStep(r) ==
    \/ AgentDeadlinePasses(r) \/ ReadAgentRun(r) \/ CancelAgentRun(r)
    \/ ConfirmPurchase(r) \/ ConfirmChange(r)
    \/ AllowedTools(r)
    \/ OrderByHand(r) \/ SubmitByHand(r)
    \/ Finish(r)
    \/ \E error \in {"MODEL_UNAVAILABLE", "RUN_INTERRUPTED"} : FailRun(r, error)

AgentNext ==
    \/ StartAgentRun \/ TokenAccrues
    \/ \E stage \in Stages : EventWritten(stage)
    \/ \E r \in Ids : AgentStep(r)
    \/ \E w \in DOMAIN wakeup : ClaimAgentWakeup(w)

\* Time goes on, the worker polls once a second.
\* A claim that puts off moves next_run_at on, so none stays in front.
Fairness ==
    /\ WF_agentVars(TokenAccrues)
    /\ WF_agentVars(\E r \in Ids : AgentDeadlinePasses(r))
    /\ WF_agentVars(\E w \in DOMAIN wakeup : ClaimAgentWakeup(w))

AgentSpec == AgentInit /\ [][AgentNext]_agentVars /\ Fairness

--------------------------------------------------------------------------
(***************************************************************************)
(* Properties.                                                             *)
(***************************************************************************)
AgentTypeOK ==
    /\ \A i \in Ids :
          /\ agentRun[i].state \in {"RUNNING", "WAITING_USER", "WAITING_EXTERNAL",
                                    "COMPLETED", "FAILED", "CANCELLED"}
          /\ agentRun[i].parent \in 0..(i - 1)
          /\ agentRun[i].watch.fact \in Stages
    /\ \A w \in DOMAIN wakeup :
          /\ w[1] \in Ids /\ w[2] \in Keys
          /\ wakeup[w].state \in Open \cup {"completed", "failed"}
    /\ tokens \in 0..2
    /\ order.stage \in Stages
    /\ stopped \subseteq Ids

OneAgentRunning == Cardinality({i \in Ids : agentRun[i].state = "RUNNING"}) <= 1

Attempts(w) == {i \in Ids : agentRun[i].cause = w}

\* Two attempts at most, the last is the wakeup's own, and the one it
\* replaced has stopped for good.
AttemptsInTurn ==
    \A w \in DOMAIN wakeup :
        /\ Cardinality(Attempts(w)) = wakeup[w].attempts /\ wakeup[w].attempts <= 2
        /\ \A i \in Attempts(w) :
              /\ i <= wakeup[w].run
              /\ i < wakeup[w].run =>
                    /\ agentRun[i].state \in {"FAILED", "CANCELLED"}
                    /\ ~agentRun[i].watch.active

\* What any attempt at a wakeup has watched is watched by the last one until
\* it ends, unless the owner has stopped that run.
StillWatched ==
    \A i \in {j \in Ids : agentRun[j].parent # 0 /\ agentRun[j].watch.kind # "none"} :
        LET last == wakeup[agentRun[i].cause].run
            watch == agentRun[last].watch
        IN  last \in stopped \/ Terminal(agentRun[i].watch.kind, order.stage)
            \/ /\ watch.kind = agentRun[i].watch.kind
               /\ watch.active /\ watch.fact = order.stage

\* No run goes on under a run its owner has cancelled, and none watches.
CancelledStays ==
    \A i \in Ids :
        agentRun[i].state = "CANCELLED" =>
            /\ ~agentRun[i].watch.active
            /\ \A j \in Ids : agentRun[j].parent = i => agentRun[j].state # "RUNNING"

\* The plan's assistant as a whole (createAgentRun, claimAgentWakeup,
\* enqueueAgentEvent, cancelAgentRun): one run at a time; a wakeup is tried
\* twice at most, one attempt after the other; an order a confirmation's run
\* watches stays watched through the crash of that run; a cancelled run has
\* no running child.
AgentSound ==
    /\ AgentTypeOK /\ OneAgentRunning /\ AttemptsInTurn /\ StillWatched
    /\ CancelledStays

AnyPending == \E w \in DOMAIN wakeup : wakeup[w].state \in Open

\* Every wakeup is completed or given up in the end, whatever run crashed or
\* stood in its way (claimAgentWakeup): no follow-up stays "in progress" for
\* ever in the owner's view (readAgentRun, pendingFollowups).
WakeupsSettle ==
    AnyPending ~> ~AnyPending

\* A branch its owner has stopped starts no run any more (the comment at
\* agent-runs.ts:68 and the button of AgentPanel.vue:112).
StoppedStaysStopped ==
    [][\A i \in DOMAIN agentRun' \ Ids :
            agentRun'[i].parent \notin stopped]_agentVars
=============================================================================
