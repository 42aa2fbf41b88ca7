------------------------------ MODULE JobLease -------------------------------
(***************************************************************************)
(* The operation queue: operations and their jobs (domain/jobs.ts), the    *)
(* claim with a 60 second lease, the fence every business transaction      *)
(* passes before it writes (domain/worker-runtime.ts), and the two         *)
(* transactions a channel operation takes around its external call         *)
(* (domain/channel-worker.ts).                                             *)
(*                                                                         *)
(* An action is one database transaction, or one external call.  A worker  *)
(* may crash, or throw and roll back, between any two of them; a lease may *)
(* run out while its holder is still working.  What a transaction does to  *)
(* orders and budgets is left to SimulatedOrder, SandboxTrade and          *)
(* SandboxRefund; here only the number of committed settlements counts.    *)
(*                                                                         *)
(* Ops are the operations of the running payment mode: the query of        *)
(* claimNextJob never sees the others.                                     *)
(***************************************************************************)
EXTENDS Naturals, FiniteSets

CONSTANTS
    Workers,     \* processes that run the worker loop
    Ops,         \* operations that will have a job
    ChannelOps,  \* those processed by processChannelJob (two transactions)
    NoClaim,     \* a worker that holds no job
    MaxFaults,   \* bound: crashes, rollbacks and leases lost by a live worker
    MaxRetries   \* bound: back-off retries that fit in the thirty minutes
                 \* after which an unknown result becomes a manual task

ASSUME QueueAssumption ==
    /\ ChannelOps \subseteq Ops
    /\ MaxFaults \in Nat
    /\ MaxRetries \in Nat
    /\ NoClaim \notin [op : Ops, jobV : Nat, opV : Nat,
                       calling : BOOLEAN, fresh : BOOLEAN]

VARIABLES
    opState,     \* operations.state
    opVersion,   \* operations.lease_version
    jobState,    \* jobs.state, "none" before the job exists
    jobVersion,  \* jobs.lease_version
    leaseLive,   \* jobs.lease_until > now()
    due,         \* jobs.next_run_at <= now()
    sent,        \* operations.sent_at is not null
    claim,       \* the ClaimedJob a worker works on, with its progress
    sends,       \* external mutations issued for the operation
    settlements, \* transactions that committed a final result of the operation
    retries,     \* committed retries of the operation
    faults       \* faults so far

opVars == <<opState, opVersion>>
jobVars == <<jobState, jobVersion, leaseLive, due>>
queueVars == <<opState, opVersion, jobState, jobVersion, leaseLive, due, sent,
               claim, sends, settlements, retries, faults>>

ClaimRecord == [op : Ops, jobV : Nat, opV : Nat,
                calling : BOOLEAN, fresh : BOOLEAN]

------------------------------------------------------------------------------
QueueInit ==
    /\ opState = [o \in Ops |-> "absent"]
    /\ opVersion = [o \in Ops |-> 0]
    /\ jobState = [o \in Ops |-> "none"]
    /\ jobVersion = [o \in Ops |-> 0]
    /\ leaseLive = [o \in Ops |-> FALSE]
    /\ due = [o \in Ops |-> FALSE]
    /\ sent = [o \in Ops |-> FALSE]
    /\ claim = [w \in Workers |-> NoClaim]
    /\ sends = [o \in Ops |-> 0]
    /\ settlements = [o \in Ops |-> 0]
    /\ retries = [o \in Ops |-> 0]
    /\ faults = 0

\* createOperationJob: the operation and its job in the caller's transaction.
CreateOperationJob(o) ==
    /\ opState[o] = "absent"
    /\ opState' = [opState EXCEPT ![o] = "accepted"]
    /\ jobState' = [jobState EXCEPT ![o] = "pending"]
    /\ due' = [due EXCEPT ![o] = TRUE]
    /\ UNCHANGED <<opVersion, jobVersion, leaseLive, sent, claim, sends,
                   settlements, retries, faults>>

------------------------------------------------------------------------------
(* The claim.                                                              *)

\* Fault variant: a leased job is never taken over.
ClaimableIfPending(o) ==
    /\ jobState[o] = "pending"
    /\ due[o]
    /\ opState[o] \in {"accepted", "processing", "unknown"}

Claimable(o) ==
    /\ \/ jobState[o] = "pending" /\ due[o]
       \/ jobState[o] = "leased" /\ ~leaseLive[o]
    /\ opState[o] \in {"accepted", "processing", "unknown"}

\* A claim is committed on its own, before the job is processed.
ClaimNextJob(w, o) ==
    /\ claim[w] = NoClaim
    /\ Claimable(o)
    /\ jobState' = [jobState EXCEPT ![o] = "leased"]
    /\ jobVersion' = [jobVersion EXCEPT ![o] = @ + 1]
    /\ leaseLive' = [leaseLive EXCEPT ![o] = TRUE]
    /\ opState' = [opState EXCEPT ![o] = "processing"]
    /\ opVersion' = [opVersion EXCEPT ![o] = @ + 1]
    /\ claim' = [claim EXCEPT ![w] =
                    [op |-> o, jobV |-> jobVersion[o] + 1,
                     opV |-> opVersion[o] + 1,
                     calling |-> FALSE, fresh |-> FALSE]]
    /\ UNCHANGED <<due, sent, sends, settlements, retries, faults>>

\* Fault variant of the fence: it looks at the versions only.
LeaseHeldByVersion(c) ==
    /\ jobVersion[c.op] = c.jobV
    /\ opVersion[c.op] = c.opV

\* The fence: under row locks on the job and the operation, the claim is
\* compared with the database.
LeaseHeld(c) ==
    /\ jobState[c.op] = "leased"
    /\ jobVersion[c.op] = c.jobV
    /\ opVersion[c.op] = c.opV
    /\ leaseLive[c.op]
    /\ opState[c.op] = "processing"

Holds(w) == claim[w] # NoClaim /\ LeaseHeld(claim[w])

Release(w) == claim' = [claim EXCEPT ![w] = NoClaim]

------------------------------------------------------------------------------
(* Processing.                                                             *)

\* The end of a business transaction: completeJob, or the last statements of
\* processChannelJob with retry = false.
CompleteJob(w, o, s) ==
    /\ opState' = [opState EXCEPT ![o] = s]
    /\ jobState' = [jobState EXCEPT ![o] = "complete"]
    /\ leaseLive' = [leaseLive EXCEPT ![o] = FALSE]
    /\ settlements' = [settlements EXCEPT ![o] = @ + 1]
    /\ Release(w)

\* A simulated job: the fence, every business write and the completion are
\* one transaction.
ProcessSimulatedJob(w) ==
    /\ Holds(w)
    /\ claim[w].op \notin ChannelOps
    /\ \E s \in {"succeeded", "unknown", "pending_review", "failed"} :
          CompleteJob(w, claim[w].op, s)
    /\ UNCHANGED <<opVersion, jobVersion, due, sent, sends, retries, faults>>

\* Fault variant: a retry sends again.
SendAllowedAlways(o) == TRUE

\* Only the transaction that finds sent_at null may send afterwards.
SendAllowed(o) == ~sent[o]

\* First transaction of a channel job: the fence, then sent_at is set.  The
\* worker remembers whether it was null before.
BeginChannelCall(w) ==
    /\ Holds(w)
    /\ claim[w].op \in ChannelOps
    /\ ~claim[w].calling
    /\ claim' = [claim EXCEPT ![w].calling = TRUE,
                              ![w].fresh = SendAllowed(claim[w].op)]
    /\ sent' = [sent EXCEPT ![claim[w].op] = TRUE]
    /\ UNCHANGED <<opVars, jobVars, sends, settlements, retries, faults>>

\* The same transaction when the authorisation, the decision or the amount no
\* longer allows the call: nothing is marked as sent, and FinishChannelCall
\* leaves it to a person.
BlockChannelCall(w) ==
    /\ Holds(w)
    /\ claim[w].op \in ChannelOps
    /\ ~claim[w].calling
    /\ claim' = [claim EXCEPT ![w].calling = TRUE]
    /\ UNCHANGED <<opVars, jobVars, sent, sends, settlements, retries, faults>>

\* The same transaction when the authorisation of an enquiry has run out.
RefuseEnquiry(w) ==
    /\ Holds(w)
    /\ claim[w].op \in ChannelOps
    /\ ~claim[w].calling
    /\ CompleteJob(w, claim[w].op, "failed")
    /\ UNCHANGED <<opVersion, jobVersion, due, sent, sends, retries, faults>>

\* The external mutation (adapter.refund, adapter.closeTrade), outside any
\* transaction and therefore possible after the lease was lost.  A close is
\* sent only when the enquiry before it says that the trade still waits.
SendToChannel(w) ==
    /\ claim[w] # NoClaim
    /\ claim[w].calling
    /\ claim[w].fresh
    /\ \/ sends' = [sends EXCEPT ![claim[w].op] = @ + 1]
       \/ UNCHANGED sends
    /\ claim' = [claim EXCEPT ![w].fresh = FALSE]
    /\ UNCHANGED <<opVars, jobVars, sent, settlements, retries, faults>>

\* Second transaction, final result: the fence again, then the result.  An
\* unknown result is final as pending_review once thirty minutes have passed
\* or when the operation is itself an explicit enquiry.
FinishChannelCall(w) ==
    /\ Holds(w)
    /\ claim[w].calling
    /\ ~claim[w].fresh
    /\ \E s \in {"succeeded", "pending_review"} :
          CompleteJob(w, claim[w].op, s)
    /\ UNCHANGED <<opVersion, jobVersion, due, sent, sends, retries, faults>>

\* Second transaction, unknown result: the job goes back to the queue with a
\* back-off.
RetryChannelCall(w) ==
    /\ Holds(w)
    /\ claim[w].calling
    /\ ~claim[w].fresh
    /\ LET o == claim[w].op IN
       /\ retries[o] < MaxRetries
       /\ retries' = [retries EXCEPT ![o] = @ + 1]
       /\ opState' = [opState EXCEPT ![o] = "unknown"]
       /\ jobState' = [jobState EXCEPT ![o] = "pending"]
       /\ due' = [due EXCEPT ![o] = FALSE]
       /\ leaseLive' = [leaseLive EXCEPT ![o] = FALSE]
    /\ Release(w)
    /\ UNCHANGED <<opVersion, jobVersion, sent, sends, settlements, faults>>

\* The fence fails: the transaction returns without writing.
DropStaleClaim(w) ==
    /\ claim[w] # NoClaim
    /\ ~claim[w].fresh
    /\ ~Holds(w)
    /\ Release(w)
    /\ UNCHANGED <<opVars, jobVars, sent, sends, settlements, retries, faults>>

\* Fault variant: the enquiry leaves the job of the original in the queue.
ConfirmElsewhereOpOnly(o) ==
    /\ o \in ChannelOps
    /\ sends[o] = 1
    /\ opState[o] \in {"processing", "unknown", "pending_review"}
    /\ opState' = [opState EXCEPT ![o] = "succeeded"]
    /\ UNCHANGED <<opVersion, jobVars, sent, claim, sends, settlements,
                   retries, faults>>

\* An enquiry about the same refund number, an operation of its own, proves
\* the success of this one and settles it in its own transaction.  The
\* channel can only confirm a refund that was requested.
ConfirmElsewhere(o) ==
    /\ o \in ChannelOps
    /\ sends[o] = 1
    /\ opState[o] \in {"processing", "unknown", "pending_review"}
    /\ opState' = [opState EXCEPT ![o] = "succeeded"]
    /\ jobState' = [jobState EXCEPT ![o] = "complete"]
    /\ leaseLive' = [leaseLive EXCEPT ![o] = FALSE]
    /\ settlements' = IF jobState[o] = "complete" THEN settlements
                      ELSE [settlements EXCEPT ![o] = @ + 1]
    /\ UNCHANGED <<opVersion, jobVersion, due, sent, claim, sends, retries,
                   faults>>

------------------------------------------------------------------------------
(* Faults and time.                                                        *)

\* The process stops, or the transaction throws and rolls back.
Crash(w) ==
    /\ claim[w] # NoClaim
    /\ faults < MaxFaults
    /\ faults' = faults + 1
    /\ Release(w)
    /\ UNCHANGED <<opVars, jobVars, sent, sends, settlements, retries>>

\* Sixty seconds pass.  It is a fault only if a worker still holds the lease.
LeaseExpires(o) ==
    /\ jobState[o] = "leased"
    /\ leaseLive[o]
    /\ IF \E w \in Workers : Holds(w) /\ claim[w].op = o
       THEN faults < MaxFaults /\ faults' = faults + 1
       ELSE UNCHANGED faults
    /\ leaseLive' = [leaseLive EXCEPT ![o] = FALSE]
    /\ UNCHANGED <<opVars, jobState, jobVersion, due, sent, claim, sends,
                   settlements, retries>>

BackoffElapses(o) ==
    /\ jobState[o] = "pending"
    /\ ~due[o]
    /\ due' = [due EXCEPT ![o] = TRUE]
    /\ UNCHANGED <<opVars, jobState, jobVersion, leaseLive, sent, claim,
                   sends, settlements, retries, faults>>

------------------------------------------------------------------------------
\* What a worker that has a claim does next; tick awaits it before it claims
\* again.
WorkerStep(w) ==
    \/ ProcessSimulatedJob(w)
    \/ BeginChannelCall(w)
    \/ BlockChannelCall(w)
    \/ RefuseEnquiry(w)
    \/ SendToChannel(w)
    \/ FinishChannelCall(w)
    \/ RetryChannelCall(w)
    \/ DropStaleClaim(w)

QueueNext ==
    \/ \E o \in Ops : CreateOperationJob(o)
    \/ \E w \in Workers, o \in Ops : ClaimNextJob(w, o)
    \/ \E w \in Workers : WorkerStep(w)
    \/ \E o \in Ops : ConfirmElsewhere(o)
    \/ \E w \in Workers : Crash(w)
    \/ \E o \in Ops : LeaseExpires(o)
    \/ \E o \in Ops : BackoffElapses(o)

QueueSpec == QueueInit /\ [][QueueNext]_queueVars

\* The worker's timer runs every second and restarts with the process; time
\* passes.  Nothing obliges a caller to create an operation or a person to
\* ask for an enquiry, and no fault is obliged to happen.
QueueFairness ==
    /\ \A o \in Ops : WF_queueVars(\E w \in Workers : ClaimNextJob(w, o))
    /\ \A w \in Workers : WF_queueVars(WorkerStep(w))
    /\ \A o \in Ops : WF_queueVars(LeaseExpires(o)) /\ WF_queueVars(BackoffElapses(o))

QueueFairSpec == QueueSpec /\ QueueFairness

------------------------------------------------------------------------------
(* Properties.                                                             *)

QueueTypeOK ==
    /\ opState \in [Ops -> {"absent", "accepted", "processing", "succeeded",
                            "unknown", "pending_review", "failed"}]
    /\ opVersion \in [Ops -> Nat]
    /\ jobState \in [Ops -> {"none", "pending", "leased", "complete"}]
    /\ jobVersion \in [Ops -> Nat]
    /\ leaseLive \in [Ops -> BOOLEAN]
    /\ due \in [Ops -> BOOLEAN]
    /\ sent \in [Ops -> BOOLEAN]
    /\ claim \in [Workers -> ClaimRecord \cup {NoClaim}]
    /\ sends \in [Ops -> Nat]
    /\ settlements \in [Ops -> Nat]
    /\ retries \in [Ops -> 0 .. MaxRetries]
    /\ faults \in 0 .. MaxFaults

\* However many workers claim, crash and resume, no two of them ever pass the
\* fence of the same operation (processClaimedJob, lockContext).
OneHolder ==
    \A v, w \in Workers :
        Holds(v) /\ Holds(w) /\ claim[v].op = claim[w].op => v = w

\* A final result of an operation is committed at most once, and a job that is
\* still in the queue has none (completeJob, processChannelJob).
SettledOnce ==
    \A o \in Ops :
        /\ settlements[o] <= 1
        /\ settlements[o] = 1 <=> jobState[o] = "complete"

\* The refund or the close of one operation is requested from the channel at
\* most once, whoever retries it and wherever a crash falls (sent_at).
SentOnce == \A o \in Ops : sends[o] <= 1

\* The two rows move together: a job in the queue belongs to an operation that
\* claimNextJob still selects, so that no job is stranded, and a complete one
\* to an operation with a result.
RowsAgree ==
    \A o \in Ops :
        /\ jobState[o] = "pending" => opState[o] \in {"accepted", "unknown"}
        /\ jobState[o] = "leased" => opState[o] = "processing"
        /\ jobState[o] = "complete" =>
              opState[o] \in {"succeeded", "unknown", "pending_review",
                              "failed"}

\* Nothing is done twice: one worker passes the fence, one result is committed,
\* one request reaches the channel (claimNextJob, processClaimedJob, sent_at).
NothingTwice == OneHolder /\ SettledOnce /\ SentOnce

\* The queue is consistent: its rows hold what their tables allow, and job and
\* operation agree on whether anything is left to do.
QueueConsistent == QueueTypeOK /\ RowsAgree

\* Every operation that was accepted gets a result, whatever workers crash.
EveryJobCompletes ==
    \A o \in Ops : jobState[o] # "none" ~> jobState[o] = "complete"

\* The queue implements the ledger of operations.
Status ==
    [o \in Ops |->
        CASE jobState[o] = "none" -> "absent"
          [] jobState[o] \in {"pending", "leased"} -> "open"
          [] OTHER -> opState[o]]

Ledger == INSTANCE OperationLedger WITH status <- Status

ImplementsLedger == Ledger!Spec
==============================================================================
