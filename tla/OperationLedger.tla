--------------------------- MODULE OperationLedger ---------------------------
(***************************************************************************)
(* What the operation queue promises its callers, without workers, leases  *)
(* or clocks: an operation is registered once, is settled once, and a      *)
(* settled result changes only when a later enquiry about the same         *)
(* business number turns an open question into a success.                  *)
(***************************************************************************)
CONSTANT Ops

VARIABLE status

Settled == {"succeeded", "failed", "unknown", "pending_review"}

\* Results that still ask for a person or a later enquiry.
Unresolved == {"unknown", "pending_review"}

LedgerTypeOK == status \in [Ops -> {"absent", "open"} \cup Settled]

Init == status = [o \in Ops |-> "absent"]

Register(o) ==
    /\ status[o] = "absent"
    /\ status' = [status EXCEPT ![o] = "open"]

Settle(o) ==
    /\ status[o] = "open"
    /\ \E s \in Settled : status' = [status EXCEPT ![o] = s]

Confirm(o) ==
    /\ status[o] \in Unresolved
    /\ status' = [status EXCEPT ![o] = "succeeded"]

Next == \E o \in Ops : Register(o) \/ Settle(o) \/ Confirm(o)

Spec == /\ Init
        /\ [][Next]_status
        /\ \A o \in Ops : WF_status(Settle(o))
==============================================================================
