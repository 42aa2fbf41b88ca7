---------------------------- MODULE MCSandboxTrade ----------------------------
(* One order, its buyer and one enquiry of the consumer at a time.         *)
EXTENDS SandboxTrade

CONSTANT c1

MCCheckers == {c1}
==============================================================================
