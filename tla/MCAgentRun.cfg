\* One run of the owner, its draft and everything that follows, and one
\* cancellation of it or of the first run that continues it.
SPECIFICATION AgentSpec
CONSTANTS
    UserRuns = 1
    StopRuns = 2
    Before = {"none", "paid"}
    Reached = {"paid", "closed", "asked", "decided"}
INVARIANT AgentSound
PROPERTIES WakeupsSettle StoppedStaysStopped
CHECK_DEADLOCK FALSE
