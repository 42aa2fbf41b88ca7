----------------------------- MODULE MCAgentRun -----------------------------
EXTENDS AgentRun
=============================================================================
