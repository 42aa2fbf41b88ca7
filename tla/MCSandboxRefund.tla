--------------------------- MODULE MCSandboxRefund ---------------------------
(* A refund of one or two batches with enquiries beside it.               *)
EXTENDS SandboxRefund

CONSTANTS e1, e2

OneEnquiry == {e1}
TwoEnquiries == {e1, e2}
==============================================================================
