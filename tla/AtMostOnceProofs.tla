-------------------------- MODULE AtMostOnceProofs ---------------------------
(***************************************************************************)
(* Proofs about what happens once at most: a send and a settlement of the  *)
(* operation queue, for any workers, operations, faults and retries; a     *)
(* write under its key, for any keys, sessions, requests and mishaps; a    *)
(* payment, a close and a refund of a simulated order, for any price, fee, *)
(* number of previews and of rule changes.                                 *)
(***************************************************************************)
EXTENDS JobLease, RequestGate, SimulatedOrder, TLAPS

------------------------------------------------------------------------------
(***************************************************************************)
(* The operation queue: the inductive invariant, and every step of it.     *)
(***************************************************************************)
\* A job exists exactly when its operation does.
JobWithOperation ==
    \A o \in Ops : jobState[o] = "none" <=> opState[o] = "absent"

\* Claims carry versions the database has handed out, and no two workers carry
\* the same version of the same job.
ClaimsOrdered ==
    \A w \in Workers :
        claim[w] # NoClaim =>
            /\ claim[w].jobV <= jobVersion[claim[w].op]
            /\ \A v \in Workers :
                  /\ v # w
                  /\ claim[v] # NoClaim
                  /\ claim[v].op = claim[w].op
                  => claim[v].jobV # claim[w].jobV

\* A worker that may still send is the only one, and nothing was sent yet;
\* sent_at was set before.
FreshIsUnique ==
    /\ \A o \in Ops : sends[o] <= 1 /\ (~sent[o] => sends[o] = 0)
    /\ \A w \in Workers :
        claim[w] # NoClaim /\ claim[w].fresh =>
            /\ sent[claim[w].op]
            /\ sends[claim[w].op] = 0
            /\ \A v \in Workers :
                  /\ v # w
                  /\ claim[v] # NoClaim
                  /\ claim[v].op = claim[w].op
                  => ~claim[v].fresh

QueueIInv ==
    /\ QueueTypeOK
    /\ RowsAgree
    /\ JobWithOperation
    /\ ClaimsOrdered
    /\ SettledOnce
    /\ FreshIsUnique

------------------------------------------------------------------------------
(* Facts used in several places.                                           *)

LEMMA QueueInitIInv == QueueInit => QueueIInv
  BY QueueAssumption
  DEF QueueInit, QueueIInv, QueueTypeOK, RowsAgree, JobWithOperation, ClaimsOrdered,
           SettledOnce, FreshIsUnique

\* A claim in a typed state is a record with typed fields.
LEMMA ClaimFields ==
    ASSUME QueueTypeOK, NEW w \in Workers, claim[w] # NoClaim
    PROVE  /\ claim[w] \in ClaimRecord
           /\ claim[w].op \in Ops
           /\ claim[w].jobV \in Nat
           /\ claim[w].opV \in Nat
           /\ claim[w].calling \in BOOLEAN
           /\ claim[w].fresh \in BOOLEAN
  BY DEF QueueTypeOK, ClaimRecord

\* Releasing a claim keeps the typing of claims.
LEMMA ReleaseTyped ==
    ASSUME QueueTypeOK, NEW w \in Workers, Release(w)
    PROVE  /\ claim' \in [Workers -> ClaimRecord \cup {NoClaim}]
           /\ claim'[w] = NoClaim
           /\ \A v \in Workers : v # w => claim'[v] = claim[v]
  BY DEF QueueTypeOK, Release

\* With fewer claims and the same versions, flags and counts, the claims stay
\* ordered and at most one of them is fresh.
LEMMA ReleaseKeepsClaims ==
    ASSUME QueueIInv, NEW w \in Workers, Release(w),
                UNCHANGED <<jobVersion, sent, sends>>
    PROVE  ClaimsOrdered' /\ FreshIsUnique'
  BY ReleaseTyped
  DEF QueueIInv, ClaimsOrdered, FreshIsUnique

LEMMA SameKeepsClaims ==
    ASSUME QueueIInv, UNCHANGED <<claim, jobVersion, sent, sends>>
    PROVE  ClaimsOrdered' /\ FreshIsUnique'
  BY DEF QueueIInv, ClaimsOrdered, FreshIsUnique

------------------------------------------------------------------------------
(* One lemma per kind of step.                                             *)

LEMMA CreateStep ==
    ASSUME QueueIInv, NEW o \in Ops, CreateOperationJob(o)
    PROVE  QueueIInv'
  <1>1. ClaimsOrdered' /\ FreshIsUnique'
    BY SameKeepsClaims DEF CreateOperationJob
  <1>2. QueueTypeOK'
    BY DEF QueueIInv, QueueTypeOK, CreateOperationJob
  <1>3. (RowsAgree /\ JobWithOperation /\ SettledOnce)'
    BY DEF QueueIInv, QueueTypeOK, RowsAgree, JobWithOperation, SettledOnce,
                CreateOperationJob
  <1>4. QED
    BY <1>1, <1>2, <1>3 DEF QueueIInv

LEMMA ClaimStep ==
    ASSUME QueueIInv, NEW w \in Workers, NEW o \in Ops, ClaimNextJob(w, o)
    PROVE  QueueIInv'
  <1> DEFINE c == [op |-> o, jobV |-> jobVersion[o] + 1,
                   opV |-> opVersion[o] + 1,
                   calling |-> FALSE, fresh |-> FALSE]
  <1>1. jobVersion[o] \in Nat /\ opVersion[o] \in Nat
    BY DEF QueueIInv, QueueTypeOK
  <1>2. c \in ClaimRecord
    BY <1>1 DEF ClaimRecord
  <1>3. /\ claim' \in [Workers -> ClaimRecord \cup {NoClaim}]
        /\ claim'[w] = c
        /\ \A v \in Workers : v # w => claim'[v] = claim[v]
    BY <1>2 DEF QueueIInv, QueueTypeOK, ClaimNextJob
  <1>4. QueueTypeOK'
    BY <1>1, <1>3 DEF QueueIInv, QueueTypeOK, ClaimNextJob
  <1>5. (RowsAgree /\ JobWithOperation /\ SettledOnce)'
    BY DEF QueueIInv, QueueTypeOK, RowsAgree, JobWithOperation, SettledOnce,
                ClaimNextJob, Claimable
  <1>6. \A v \in Workers : v # w /\ claim[v] # NoClaim =>
            /\ claim[v].op \in Ops
            /\ claim[v].jobV \in Nat
            /\ claim[v].jobV <= jobVersion[claim[v].op]
    BY ClaimFields DEF QueueIInv, ClaimsOrdered
  <1>7. \A p \in Ops : jobVersion'[p] = IF p = o THEN jobVersion[p] + 1
                                                 ELSE jobVersion[p]
    BY DEF QueueIInv, QueueTypeOK, ClaimNextJob
  <1>8. ClaimsOrdered'
    <2> SUFFICES ASSUME NEW x \in Workers, claim'[x] # NoClaim
                 PROVE  /\ claim'[x].jobV <= jobVersion'[claim'[x].op]
                        /\ \A v \in Workers :
                              /\ v # x
                              /\ claim'[v] # NoClaim
                              /\ claim'[v].op = claim'[x].op
                              => claim'[v].jobV # claim'[x].jobV
      BY DEF ClaimsOrdered
    <2>1. CASE x = w
      <3>1. claim'[x] = c /\ c.op = o /\ c.jobV = jobVersion[o] + 1
        BY <2>1, <1>3
      <3>2. claim'[x].jobV <= jobVersion'[claim'[x].op]
        BY <3>1, <1>1, <1>7
      <3>3. ASSUME NEW v \in Workers, v # x, claim'[v] # NoClaim,
                   claim'[v].op = claim'[x].op
            PROVE  claim'[v].jobV # claim'[x].jobV
        BY <3>1, <3>3, <2>1, <1>1, <1>3, <1>6
      <3>4. QED
        BY <3>2, <3>3
    <2>2. CASE x # w
      <3>1. claim'[x] = claim[x]
        BY <2>2, <1>3
      <3>2. claim[x].op \in Ops /\ claim[x].jobV \in Nat
            /\ claim[x].jobV <= jobVersion[claim[x].op]
        BY <2>2, <3>1, <1>6
      <3>3. claim'[x].jobV <= jobVersion'[claim'[x].op]
        BY <3>1, <3>2, <1>1, <1>7 DEF QueueIInv, QueueTypeOK
      <3>4. ASSUME NEW v \in Workers, v # x, claim'[v] # NoClaim,
                   claim'[v].op = claim'[x].op
            PROVE  claim'[v].jobV # claim'[x].jobV
        <4>1. CASE v = w
          BY <4>1, <3>1, <3>2, <3>4, <1>1, <1>3
        <4>2. CASE v # w
          BY <4>2, <3>1, <3>4, <1>3 DEF QueueIInv, ClaimsOrdered
        <4>3. QED
          BY <4>1, <4>2
      <3>5. QED
        BY <3>3, <3>4
    <2>3. QED
      BY <2>1, <2>2
  <1>9. FreshIsUnique'
    <2>1. c.fresh = FALSE /\ sent' = sent /\ sends' = sends
      BY DEF ClaimNextJob
    <2>2. QED
      BY <2>1, <1>3 DEF QueueIInv, FreshIsUnique
  <1>10. QED
    BY <1>4, <1>5, <1>8, <1>9 DEF QueueIInv

\* A worker that passes the fence writes the result of a job that has none.
LEMMA CompleteStep ==
    ASSUME QueueIInv, NEW w \in Workers, NEW s, Holds(w),
                s \in {"succeeded", "unknown", "pending_review", "failed"},
                CompleteJob(w, claim[w].op, s),
                UNCHANGED <<opVersion, jobVersion, due, sent, sends, retries,
                            faults>>
    PROVE  QueueIInv'
  <1>1. claim[w].op \in Ops
    BY ClaimFields DEF QueueIInv, Holds
  <1>2. jobState[claim[w].op] = "leased"
    BY DEF Holds, LeaseHeld
  <1>3. Release(w)
    BY DEF CompleteJob
  <1>4. ClaimsOrdered' /\ FreshIsUnique'
    BY <1>3, ReleaseKeepsClaims
  <1>5. claim' \in [Workers -> ClaimRecord \cup {NoClaim}]
    BY <1>3, ReleaseTyped DEF QueueIInv
  <1>6. QueueTypeOK'
    BY <1>1, <1>5 DEF QueueIInv, QueueTypeOK, CompleteJob
  <1>7. settlements[claim[w].op] = 0
    BY <1>1, <1>2 DEF QueueIInv, QueueTypeOK, SettledOnce
  <1>8. (RowsAgree /\ JobWithOperation /\ SettledOnce)'
    BY <1>1, <1>7
    DEF QueueIInv, QueueTypeOK, RowsAgree, JobWithOperation, SettledOnce, CompleteJob
  <1>9. QED
    BY <1>4, <1>6, <1>8 DEF QueueIInv

LEMMA BeginStep ==
    ASSUME QueueIInv, NEW w \in Workers, BeginChannelCall(w)
    PROVE  QueueIInv'
  <1> DEFINE o == claim[w].op
             c == [claim[w] EXCEPT !.calling = TRUE, !.fresh = ~sent[o]]
  <1>1. claim[w] \in ClaimRecord /\ o \in Ops /\ claim[w] # NoClaim
    BY ClaimFields DEF QueueIInv, BeginChannelCall, Holds
  <1>2. /\ c \in ClaimRecord
        /\ c.op = o
        /\ c.jobV = claim[w].jobV
        /\ c.fresh = ~sent[o]
    BY <1>1 DEF ClaimRecord, QueueIInv, QueueTypeOK
  <1>3. /\ claim' \in [Workers -> ClaimRecord \cup {NoClaim}]
        /\ claim'[w] = c
        /\ \A v \in Workers : v # w => claim'[v] = claim[v]
    BY <1>1, <1>2 DEF QueueIInv, QueueTypeOK, BeginChannelCall, SendAllowed
  <1>4. sent' = [sent EXCEPT ![o] = TRUE] /\ sends' = sends
    BY DEF BeginChannelCall
  <1>5. QueueTypeOK'
    BY <1>1, <1>3, <1>4 DEF QueueIInv, QueueTypeOK, BeginChannelCall, opVars, jobVars
  <1>6. (RowsAgree /\ JobWithOperation /\ SettledOnce)'
    BY DEF QueueIInv, RowsAgree, JobWithOperation, SettledOnce, BeginChannelCall,
                opVars, jobVars
  <1>7. ClaimsOrdered'
    BY <1>1, <1>2, <1>3
    DEF QueueIInv, ClaimsOrdered, BeginChannelCall, jobVars
  <1>8. \A v \in Workers : claim[v] # NoClaim => claim[v].op \in Ops
    BY ClaimFields DEF QueueIInv
  <1>9. \A p \in Ops : sent'[p] = (p = o \/ sent[p])
    BY <1>1, <1>4 DEF QueueIInv, QueueTypeOK
  <1>10. FreshIsUnique'
    <2>1. \A p \in Ops : sends'[p] <= 1 /\ (~sent'[p] => sends'[p] = 0)
      BY <1>4, <1>9 DEF QueueIInv, FreshIsUnique
    <2>2. ASSUME NEW x \in Workers, claim'[x] # NoClaim, claim'[x].fresh
          PROVE  /\ sent'[claim'[x].op]
                 /\ sends'[claim'[x].op] = 0
                 /\ \A v \in Workers :
                       /\ v # x
                       /\ claim'[v] # NoClaim
                       /\ claim'[v].op = claim'[x].op
                       => ~claim'[v].fresh
      <3>1. CASE x = w
        <4>1. claim'[x].op = o /\ ~sent[o]
          BY <3>1, <2>2, <1>2, <1>3
        <4>2. sent'[o] /\ sends'[o] = 0
          BY <4>1, <1>1, <1>4, <1>9 DEF QueueIInv, FreshIsUnique
        <4>3. ASSUME NEW v \in Workers, v # x, claim'[v] # NoClaim,
                     claim'[v].op = claim'[x].op
              PROVE  ~claim'[v].fresh
          <5>1. claim[v] # NoClaim /\ claim[v].op = o /\ claim'[v] = claim[v]
            BY <4>1, <4>3, <3>1, <1>3
          <5>2. claim[v].fresh => sent[claim[v].op]
            BY <5>1 DEF QueueIInv, FreshIsUnique
          <5>3. QED
            BY <5>1, <5>2, <4>1
        <4>4. QED
          BY <4>1, <4>2, <4>3
      <3>2. CASE x # w
        <4>1. claim'[x] = claim[x] /\ claim[x] # NoClaim /\ claim[x].fresh
          BY <3>2, <2>2, <1>3
        <4>2. sent[claim[x].op] /\ sends[claim[x].op] = 0
          BY <4>1 DEF QueueIInv, FreshIsUnique
        <4>3. claim[x].op \in Ops
          BY <4>1, <1>8
        <4>4. ASSUME NEW v \in Workers, v # x, claim'[v] # NoClaim,
                     claim'[v].op = claim'[x].op
              PROVE  ~claim'[v].fresh
          <5>1. CASE v = w
            BY <5>1, <4>1, <4>2, <4>4, <1>2, <1>3
          <5>2. CASE v # w
            BY <5>2, <4>1, <4>4, <1>3 DEF QueueIInv, FreshIsUnique
          <5>3. QED
            BY <5>1, <5>2
        <4>5. QED
          BY <4>1, <4>2, <4>3, <4>4, <1>4, <1>9
      <3>3. QED
        BY <3>1, <3>2
    <2>3. QED
      BY <2>1, <2>2 DEF FreshIsUnique
  <1>11. QED
    BY <1>5, <1>6, <1>7, <1>10 DEF QueueIInv

LEMMA BlockStep ==
    ASSUME QueueIInv, NEW w \in Workers, BlockChannelCall(w)
    PROVE  QueueIInv'
  <1> DEFINE c == [claim[w] EXCEPT !.calling = TRUE]
  <1>1. claim[w] \in ClaimRecord /\ claim[w] # NoClaim
    BY ClaimFields DEF QueueIInv, BlockChannelCall, Holds
  <1>2. /\ c \in ClaimRecord
        /\ c.op = claim[w].op
        /\ c.jobV = claim[w].jobV
        /\ c.fresh = claim[w].fresh
    BY <1>1 DEF ClaimRecord
  <1>3. /\ claim' \in [Workers -> ClaimRecord \cup {NoClaim}]
        /\ claim'[w] = c
        /\ \A v \in Workers : v # w => claim'[v] = claim[v]
    BY <1>1, <1>2 DEF QueueIInv, QueueTypeOK, BlockChannelCall
  <1>4. \A v \in Workers :
           claim'[v] # NoClaim => /\ claim[v] # NoClaim
                                  /\ claim'[v].op = claim[v].op
                                  /\ claim'[v].jobV = claim[v].jobV
                                  /\ claim'[v].fresh = claim[v].fresh
    BY <1>1, <1>2, <1>3
  <1>5. UNCHANGED <<opVars, jobVars, sent, sends, settlements, retries,
                    faults>>
    BY DEF BlockChannelCall
  <1>6. QueueTypeOK'
    BY <1>3, <1>5 DEF QueueIInv, QueueTypeOK, opVars, jobVars
  <1>7. (RowsAgree /\ JobWithOperation /\ SettledOnce)'
    BY <1>5 DEF QueueIInv, RowsAgree, JobWithOperation, SettledOnce, opVars, jobVars
  <1>8. ClaimsOrdered'
    BY <1>4, <1>5 DEF QueueIInv, ClaimsOrdered, jobVars
  <1>9. FreshIsUnique'
    BY <1>4, <1>5 DEF QueueIInv, FreshIsUnique
  <1>q. QED
    BY <1>6, <1>7, <1>8, <1>9 DEF QueueIInv

LEMMA SendStep ==
    ASSUME QueueIInv, NEW w \in Workers, SendToChannel(w)
    PROVE  QueueIInv'
  <1> DEFINE o == claim[w].op
             c == [claim[w] EXCEPT !.fresh = FALSE]
  <1>1. claim[w] \in ClaimRecord /\ o \in Ops /\ claim[w] # NoClaim
    BY ClaimFields DEF QueueIInv, SendToChannel
  <1>2. /\ c \in ClaimRecord
        /\ c.op = o
        /\ c.jobV = claim[w].jobV
        /\ ~c.fresh
    BY <1>1 DEF ClaimRecord
  <1>3. /\ claim' \in [Workers -> ClaimRecord \cup {NoClaim}]
        /\ claim'[w] = c
        /\ \A v \in Workers : v # w => claim'[v] = claim[v]
    BY <1>1, <1>2 DEF QueueIInv, QueueTypeOK, SendToChannel
  <1>4. sent[o] /\ sends[o] = 0
    BY <1>1 DEF QueueIInv, FreshIsUnique, SendToChannel
  <1>5. /\ sent' = sent /\ sends' \in [Ops -> Nat] /\ sends'[o] <= 1
        /\ \A p \in Ops : p # o => sends'[p] = sends[p]
    BY <1>1, <1>4 DEF QueueIInv, QueueTypeOK, SendToChannel
  <1>6. QueueTypeOK'
    BY <1>1, <1>3, <1>5 DEF QueueIInv, QueueTypeOK, SendToChannel, opVars, jobVars
  <1>7. (RowsAgree /\ JobWithOperation /\ SettledOnce)'
    BY DEF QueueIInv, RowsAgree, JobWithOperation, SettledOnce, SendToChannel,
                opVars, jobVars
  <1>8. ClaimsOrdered'
    BY <1>1, <1>2, <1>3 DEF QueueIInv, ClaimsOrdered, SendToChannel, jobVars
  <1>9. \A v \in Workers : claim[v] # NoClaim => claim[v].op \in Ops
    BY ClaimFields DEF QueueIInv
  <1>10. FreshIsUnique'
    <2>1. \A p \in Ops : sends'[p] <= 1 /\ (~sent'[p] => sends'[p] = 0)
      BY <1>1, <1>4, <1>5 DEF QueueIInv, FreshIsUnique
    <2>2. ASSUME NEW x \in Workers, claim'[x] # NoClaim, claim'[x].fresh
          PROVE  /\ sent'[claim'[x].op]
                 /\ sends'[claim'[x].op] = 0
                 /\ \A v \in Workers :
                       /\ v # x
                       /\ claim'[v] # NoClaim
                       /\ claim'[v].op = claim'[x].op
                       => ~claim'[v].fresh
      <3>1. x # w /\ claim'[x] = claim[x]
        BY <2>2, <1>2, <1>3
      <3>2. claim[w].fresh
        BY DEF SendToChannel
      <3>3. claim[x].op # o
        BY <3>1, <3>2, <2>2, <1>1 DEF QueueIInv, FreshIsUnique
      <3>4. claim[x] # NoClaim /\ claim[x].fresh /\ claim[x].op \in Ops
        BY <3>1, <2>2, <1>9
      <3>5. sent'[claim[x].op] /\ sends'[claim[x].op] = 0
        BY <3>3, <3>4, <1>5 DEF QueueIInv, FreshIsUnique
      <3>6. ASSUME NEW v \in Workers, v # x, claim'[v] # NoClaim,
                   claim'[v].op = claim'[x].op
            PROVE  ~claim'[v].fresh
        <4>1. CASE v = w
          BY <4>1, <1>2, <1>3
        <4>2. CASE v # w
          BY <4>2, <3>1, <3>4, <3>6, <1>3 DEF QueueIInv, FreshIsUnique
        <4>3. QED
          BY <4>1, <4>2
      <3>7. QED
        BY <3>1, <3>5, <3>6
    <2>3. QED
      BY <2>1, <2>2 DEF FreshIsUnique
  <1>11. QED
    BY <1>6, <1>7, <1>8, <1>10 DEF QueueIInv

LEMMA RetryStep ==
    ASSUME QueueIInv, NEW w \in Workers, RetryChannelCall(w)
    PROVE  QueueIInv'
  <1>1. claim[w].op \in Ops
    BY ClaimFields DEF QueueIInv, RetryChannelCall, Holds
  <1>2. jobState[claim[w].op] = "leased"
    BY DEF RetryChannelCall, Holds, LeaseHeld
  <1>3. Release(w)
    BY DEF RetryChannelCall
  <1>4. ClaimsOrdered' /\ FreshIsUnique'
    BY <1>3, ReleaseKeepsClaims DEF RetryChannelCall
  <1>5. claim' \in [Workers -> ClaimRecord \cup {NoClaim}]
    BY <1>3, ReleaseTyped DEF QueueIInv
  <1>6. QueueTypeOK'
    BY <1>1, <1>5, QueueAssumption DEF QueueIInv, QueueTypeOK, RetryChannelCall
  <1>7. (RowsAgree /\ JobWithOperation /\ SettledOnce)'
    BY <1>1, <1>2
    DEF QueueIInv, QueueTypeOK, RowsAgree, JobWithOperation, SettledOnce,
             RetryChannelCall
  <1>8. QED
    BY <1>4, <1>6, <1>7 DEF QueueIInv

LEMMA ConfirmStep ==
    ASSUME QueueIInv, NEW o \in Ops, ConfirmElsewhere(o)
    PROVE  QueueIInv'
  <1>1. ClaimsOrdered' /\ FreshIsUnique'
    BY SameKeepsClaims DEF ConfirmElsewhere
  <1>2. QueueTypeOK'
    BY DEF QueueIInv, QueueTypeOK, ConfirmElsewhere
  <1>3. settlements[o] = IF jobState[o] = "complete" THEN 1 ELSE 0
    BY DEF QueueIInv, QueueTypeOK, SettledOnce
  <1>4. (RowsAgree /\ JobWithOperation /\ SettledOnce)'
    BY <1>3
    DEF QueueIInv, QueueTypeOK, RowsAgree, JobWithOperation, SettledOnce,
             ConfirmElsewhere
  <1>5. QED
    BY <1>1, <1>2, <1>4 DEF QueueIInv

\* Dropping a claim, after a lost lease or in a crash, touches no row.
LEMMA DropStep ==
    ASSUME QueueIInv, NEW w \in Workers, DropStaleClaim(w) \/ Crash(w)
    PROVE  QueueIInv'
  <1>1. /\ Release(w)
        /\ UNCHANGED <<opVars, jobVars, sent, sends, settlements, retries>>
        /\ faults' = faults \/ (faults < MaxFaults /\ faults' = faults + 1)
    BY DEF DropStaleClaim, Crash
  <1>2. ClaimsOrdered' /\ FreshIsUnique'
    BY <1>1, ReleaseKeepsClaims DEF jobVars
  <1>3. QueueTypeOK'
    BY <1>1, ReleaseTyped, QueueAssumption
    DEF QueueIInv, QueueTypeOK, opVars, jobVars
  <1>4. (RowsAgree /\ JobWithOperation /\ SettledOnce)'
    BY <1>1
    DEF QueueIInv, RowsAgree, JobWithOperation, SettledOnce, opVars, jobVars
  <1>5. QED
    BY <1>2, <1>3, <1>4 DEF QueueIInv

LEMMA TimeStep ==
    ASSUME QueueIInv, NEW o \in Ops, LeaseExpires(o) \/ BackoffElapses(o)
    PROVE  QueueIInv'
  <1>1. UNCHANGED <<claim, jobVersion, jobState, opState, opVersion, sent,
                    sends, settlements, retries>>
    BY DEF LeaseExpires, BackoffElapses, opVars
  <1>2. ClaimsOrdered' /\ FreshIsUnique'
    BY <1>1, SameKeepsClaims
  <1>3. QueueTypeOK'
    <2>1. leaseLive' \in [Ops -> BOOLEAN] /\ due' \in [Ops -> BOOLEAN]
      BY DEF QueueIInv, QueueTypeOK, LeaseExpires, BackoffElapses
    <2>2. faults' = faults \/ (faults < MaxFaults /\ faults' = faults + 1)
      BY DEF LeaseExpires, BackoffElapses
    <2>3. faults' \in 0 .. MaxFaults
      BY <2>2, QueueAssumption DEF QueueIInv, QueueTypeOK
    <2>4. QED
      BY <1>1, <2>1, <2>3 DEF QueueIInv, QueueTypeOK
  <1>4. (RowsAgree /\ JobWithOperation /\ SettledOnce)'
    BY <1>1 DEF QueueIInv, RowsAgree, JobWithOperation, SettledOnce
  <1>5. QED
    BY <1>2, <1>3, <1>4 DEF QueueIInv

LEMMA QueueNextIInv == QueueIInv /\ [QueueNext]_queueVars => QueueIInv'
  <1> SUFFICES ASSUME QueueIInv, [QueueNext]_queueVars
               PROVE  QueueIInv'
    OBVIOUS
  <1>1. CASE \E o \in Ops : CreateOperationJob(o)
    BY <1>1, CreateStep
  <1>2. CASE \E w \in Workers, o \in Ops : ClaimNextJob(w, o)
    BY <1>2, ClaimStep
  <1>3. ASSUME NEW w \in Workers, WorkerStep(w)
        PROVE  QueueIInv'
    <2>1. CASE ProcessSimulatedJob(w)
      BY <2>1, CompleteStep DEF ProcessSimulatedJob
    <2>2. CASE BeginChannelCall(w)
      BY <2>2, BeginStep
    <2>3. CASE SendToChannel(w)
      BY <2>3, SendStep
    <2>4. CASE FinishChannelCall(w)
      BY <2>4, CompleteStep DEF FinishChannelCall
    <2>8. CASE BlockChannelCall(w)
      BY <2>8, BlockStep
    <2>9. CASE RefuseEnquiry(w)
      BY <2>9, CompleteStep DEF RefuseEnquiry
    <2>5. CASE RetryChannelCall(w)
      BY <2>5, RetryStep
    <2>6. CASE DropStaleClaim(w)
      BY <2>6, DropStep
    <2>7. QED
      BY <1>3, <2>1, <2>2, <2>3, <2>4, <2>5, <2>6, <2>8, <2>9 DEF WorkerStep
  <1>4. CASE \E o \in Ops : ConfirmElsewhere(o)
    BY <1>4, ConfirmStep
  <1>5. CASE \E w \in Workers : Crash(w)
    BY <1>5, DropStep
  <1>6. CASE \E o \in Ops : LeaseExpires(o) \/ BackoffElapses(o)
    BY <1>6, TimeStep
  <1>7. CASE UNCHANGED queueVars
    BY <1>7
    DEF queueVars, QueueIInv, QueueTypeOK, RowsAgree, JobWithOperation, ClaimsOrdered,
        SettledOnce, FreshIsUnique
  <1>8. QED
    BY <1>1, <1>2, <1>3, <1>4, <1>5, <1>6, <1>7 DEF QueueNext

LEMMA SpecIInv == QueueSpec => []QueueIInv
  BY QueueInitIInv, QueueNextIInv, PTL DEF QueueSpec

------------------------------------------------------------------------------
(* Results.                                                                *)

\* The queue's rows and the workers' claims always have their types.
THEOREM QueueTypeCorrect == QueueSpec => []QueueTypeOK
  <1>1. QueueIInv => QueueTypeOK
    BY DEF QueueIInv
  <1>2. QED
    BY <1>1, SpecIInv, PTL

\* No two workers pass the fence of one operation, whatever leases expire and
\* whatever workers crash: the version a claim carries is its own.
THEOREM OneHolderAlways == QueueSpec => []OneHolder
  <1>1. QueueIInv => OneHolder
    <2> SUFFICES ASSUME QueueIInv, NEW v \in Workers, NEW w \in Workers,
                             Holds(v), Holds(w), claim[v].op = claim[w].op, v # w
                 PROVE  FALSE
      BY DEF OneHolder
    <2>1. claim[v].jobV = claim[w].jobV
      BY DEF Holds, LeaseHeld
    <2>2. QED
      BY <2>1 DEF QueueIInv, ClaimsOrdered, Holds
  <1>2. QED
    BY <1>1, SpecIInv, PTL

\* An operation is settled by at most one transaction, and a job in the queue
\* by none.
THEOREM SettledOnceAlways == QueueSpec => []SettledOnce
  <1>1. QueueIInv => SettledOnce
    BY DEF QueueIInv
  <1>2. QED
    BY <1>1, SpecIInv, PTL

\* The channel is asked at most once per operation to move money or to close a
\* trade, because sent_at is committed before the call and never cleared.
THEOREM SentOnceAlways == QueueSpec => []SentOnce
  <1>1. QueueIInv => SentOnce
    BY DEF QueueIInv, FreshIsUnique, SentOnce
  <1>2. QED
    BY <1>1, SpecIInv, PTL

\* A job in the queue and its operation are never out of step.
THEOREM RowsAgreeAlways == QueueSpec => []RowsAgree
  <1>1. QueueIInv => RowsAgree
    BY DEF QueueIInv
  <1>2. QED
    BY <1>1, SpecIInv, PTL
------------------------------------------------------------------------------
(* Refinement of OperationLedger.                                          *)

\* A step that writes at most the rows of one operation changes at most that
\* operation's status.
LEMMA StatusOfOthers ==
    ASSUME NEW o \in Ops,
           \A p \in Ops : p # o => /\ jobState'[p] = jobState[p]
                                   /\ opState'[p] = opState[p]
    PROVE  /\ Status \in [Ops -> {Status[p] : p \in Ops}]
           /\ Status' = [Status EXCEPT ![o] = Status'[o]]
  BY DEF Status

\* The status of one operation, case by case.
LEMMA StatusOf ==
    ASSUME QueueIInv, NEW o \in Ops
    PROVE  /\ jobState[o] = "none" => Status[o] = "absent"
           /\ jobState[o] = "pending" => Status[o] = "open"
           /\ jobState[o] = "leased" => Status[o] = "open"
           /\ jobState[o] = "complete" => Status[o] = opState[o]
  BY DEF Status, QueueIInv, QueueTypeOK

\* A settlement of an open operation.
LEMMA CompleteRefines ==
    ASSUME QueueIInv, QueueIInv', NEW w \in Workers, NEW s, Holds(w),
                s \in {"succeeded", "unknown", "pending_review", "failed"},
                CompleteJob(w, claim[w].op, s)
    PROVE  Ledger!Next
  <1> DEFINE o == claim[w].op
  <1>1. o \in Ops
    BY ClaimFields DEF QueueIInv, Holds
  <1>2. jobState[o] = "leased" /\ jobState'[o] = "complete" /\ opState'[o] = s
    BY <1>1 DEF Holds, LeaseHeld, CompleteJob, QueueIInv, QueueTypeOK
  <1>3. Status[o] = "open" /\ Status'[o] = s
    BY <1>1, <1>2, StatusOf DEF Status
  <1>4. Status' = [Status EXCEPT ![o] = s]
    BY <1>1, <1>3, StatusOfOthers DEF CompleteJob, QueueIInv, QueueTypeOK
  <1>5. QED
    BY <1>1, <1>3, <1>4
    DEF Ledger!Next, Ledger!Settle, Ledger!Settled

LEMMA QueueStepRefines ==
    ASSUME QueueIInv, [QueueNext]_queueVars
    PROVE  Ledger!Next \/ UNCHANGED Status
  <1>0. QueueIInv'
    BY QueueNextIInv
  <1>1. ASSUME NEW o \in Ops, CreateOperationJob(o)
        PROVE  Ledger!Next
    <2>1. jobState[o] = "none" /\ jobState'[o] = "pending"
      BY <1>1 DEF CreateOperationJob, QueueIInv, QueueTypeOK, JobWithOperation
    <2>2. Status[o] = "absent" /\ Status'[o] = "open"
      BY <2>1, StatusOf DEF Status
    <2>3. Status' = [Status EXCEPT ![o] = "open"]
      BY <1>1, <2>2, StatusOfOthers DEF CreateOperationJob, QueueIInv, QueueTypeOK
    <2>4. QED
      BY <2>2, <2>3 DEF Ledger!Next, Ledger!Register
  <1>2. ASSUME NEW w \in Workers, NEW o \in Ops, ClaimNextJob(w, o)
        PROVE  UNCHANGED Status
    <2>1. /\ jobState[o] \in {"pending", "leased"}
          /\ jobState'[o] = "leased"
      BY <1>2 DEF ClaimNextJob, Claimable, QueueIInv, QueueTypeOK
    <2>2. \A p \in Ops : p # o => /\ jobState'[p] = jobState[p]
                                  /\ opState'[p] = opState[p]
      BY <1>2 DEF ClaimNextJob, QueueIInv, QueueTypeOK
    <2>3. QED
      BY <2>1, <2>2 DEF Status
  <1>3. ASSUME NEW w \in Workers, WorkerStep(w)
        PROVE  Ledger!Next \/ UNCHANGED Status
    <2>1. CASE ProcessSimulatedJob(w)
      BY <2>1, <1>0, CompleteRefines DEF ProcessSimulatedJob
    <2>2. CASE FinishChannelCall(w)
      BY <2>2, <1>0, CompleteRefines DEF FinishChannelCall
    <2>3. CASE RetryChannelCall(w)
      <3> DEFINE o == claim[w].op
      <3>1. o \in Ops
        BY <2>3, ClaimFields DEF QueueIInv, RetryChannelCall, Holds
      <3>2. jobState[o] = "leased" /\ jobState'[o] = "pending"
        BY <2>3, <3>1
        DEF RetryChannelCall, Holds, LeaseHeld, QueueIInv, QueueTypeOK
      <3>3. \A p \in Ops : p # o => /\ jobState'[p] = jobState[p]
                                    /\ opState'[p] = opState[p]
        BY <2>3, <3>1 DEF RetryChannelCall, QueueIInv, QueueTypeOK
      <3>4. QED
        BY <3>2, <3>3 DEF Status
    <2>4. CASE \/ BeginChannelCall(w) \/ BlockChannelCall(w)
               \/ SendToChannel(w) \/ DropStaleClaim(w)
      BY <2>4
      DEF BeginChannelCall, BlockChannelCall, SendToChannel, DropStaleClaim,
          opVars, jobVars, Status
    <2>5. CASE RefuseEnquiry(w)
      BY <2>5, <1>0, CompleteRefines DEF RefuseEnquiry
    <2>6. QED
      BY <1>3, <2>1, <2>2, <2>3, <2>4, <2>5 DEF WorkerStep
  <1>4. ASSUME NEW o \in Ops, ConfirmElsewhere(o)
        PROVE  Ledger!Next
    <2>1. jobState'[o] = "complete" /\ opState'[o] = "succeeded"
      BY <1>4 DEF ConfirmElsewhere, QueueIInv, QueueTypeOK
    <2>2. Status'[o] = "succeeded"
      BY <2>1 DEF Status
    <2>3. Status' = [Status EXCEPT ![o] = "succeeded"]
      BY <1>4, <2>2, StatusOfOthers DEF ConfirmElsewhere, QueueIInv, QueueTypeOK
    <2>4. Status[o] = "open" \/ Status[o] \in Ledger!Unresolved
      BY <1>4, StatusOf
      DEF ConfirmElsewhere, QueueIInv, QueueTypeOK, RowsAgree, JobWithOperation,
          Ledger!Unresolved
    <2>5. QED
      BY <2>3, <2>4
      DEF Ledger!Next, Ledger!Settle, Ledger!Settled, Ledger!Confirm
  <1>5. ASSUME NEW w \in Workers, Crash(w)
        PROVE  UNCHANGED Status
    BY <1>5 DEF Crash, opVars, jobVars, Status
  <1>6. ASSUME NEW o \in Ops, LeaseExpires(o) \/ BackoffElapses(o)
        PROVE  UNCHANGED Status
    BY <1>6 DEF LeaseExpires, BackoffElapses, opVars, Status
  <1>7. CASE UNCHANGED queueVars
    BY <1>7 DEF queueVars, Status
  <1>8. QED
    BY <1>1, <1>2, <1>3, <1>4, <1>5, <1>6, <1>7 DEF QueueNext

\* The queue, with all its claims, leases, retries and crashes, shows its
\* callers only the steps of the ledger: registered once, settled once,
\* confirmed afterwards at most from an open question.
THEOREM LedgerRefined == QueueSpec => Ledger!Init /\ [][Ledger!Next]_Status
  <1>1. QueueInit => Ledger!Init
    BY DEF QueueInit, Ledger!Init, Status
  <1>2. QueueIInv /\ [QueueNext]_queueVars => [Ledger!Next]_Status
    BY QueueStepRefines
  <1>3. QED
    BY <1>1, <1>2, SpecIInv, PTL DEF QueueSpec

\* Nothing is done twice, for any number of workers, operations and faults: the
\* fence, the result and the request to the channel together.
THEOREM NothingTwiceAlways == QueueSpec => []NothingTwice
  BY OneHolderAlways, SettledOnceAlways, SentOnceAlways, PTL DEF NothingTwice

\* The queue stays consistent: well-formed rows, and job and operation agree.
THEOREM QueueConsistentAlways == QueueSpec => []QueueConsistent
  BY QueueTypeCorrect, RowsAgreeAlways, PTL DEF QueueConsistent

------------------------------------------------------------------------------
(***************************************************************************)
(* The write gate and its client: the inductive invariant, and every step. *)
(***************************************************************************)
\* What the database and the wire know of a request: only one that has ended
\* has an answer or an effect, and its effect is the one stored for its key.
RequestKnown(r) ==
    /\ req[r].at = "new" => req[r].client = "idle"
    /\ req[r].at # "new" =>
          req[r].intent \in Intents /\ req[r].key \in Keys /\ why[req[r].key] # "unused"
    /\ req[r].at # "over" => req[r].of = None /\ req[r].answer = "none"
    /\ req[r].answer = "ok" => req[r].of # None
    /\ req[r].of # None =>
          /\ record[req[r].key] = req[r].of
          /\ req[req[r].of].intent = req[r].intent

RecordKnown(k) ==
    record[k] # None => req[record[k]].at = "over" /\ req[record[k]].key = k

ServerKnown ==
    /\ \A r \in Requests : RequestKnown(r)
    /\ \A k \in Keys : RecordKnown(k)

\* What the client keeps: the keys of its entries are all different and none
\* has been given up.
PendingKnown ==
    /\ \A e \in Slots : pending[e] # None => why[pending[e]] = "kept"
    /\ \A e, f \in Slots : pending[e] # None /\ pending[e] = pending[f] => e = f

ClientKnown == PendingKnown /\ UnansweredKeyKept

HolderKnown == SignedOutIsRevoked /\ (holder # None => session[holder] # "none")

GateIInv == GateTypeOK /\ ServerKnown /\ ClientKnown /\ HolderKnown

LEMMA GateInvImplies == GateIInv => GateSafe /\ SignedOutIsRevoked
  <1>1. SUFFICES ASSUME GateIInv PROVE OneCommitPerKey
    BY <1>1 DEF GateIInv, GateSafe, ClientKnown, HolderKnown
  <1>2. SUFFICES ASSUME NEW r \in Requests, NEW q \in Requests,
                        req[r].of = r, req[q].of = q, req[r].key = req[q].key
                 PROVE  r = q
    BY <1>2 DEF OneCommitPerKey
  <1>3. r # None /\ q # None
    BY GateAssumption
  <1>4. record[req[r].key] = r /\ record[req[q].key] = q
    BY <1>1, <1>2, <1>3 DEF GateIInv, ServerKnown, RequestKnown
  <1>q. QED BY <1>2, <1>4

LEMMA GateInitInv == GateInit => GateIInv
  <1> SUFFICES ASSUME GateInit PROVE GateIInv
    OBVIOUS
  <1> USE DEF GateInit
  <1>1. NoRequest \in Request
    BY DEF NoRequest, Request, Answers
  <1>2. NoRequest.at = "new" /\ NoRequest.client = "idle" /\ NoRequest.of = None
        /\ NoRequest.answer = "none"
    BY DEF NoRequest
  <1>3. 0 \in 0..MaxMishaps
    BY GateAssumption
  <1>4. GateTypeOK
    BY <1>1, <1>3 DEF GateTypeOK, NoPending, Reasons, Views
  <1>5. ServerKnown
    BY <1>2 DEF ServerKnown, RequestKnown, RecordKnown
  <1>6. ClientKnown
    BY <1>2 DEF ClientKnown, PendingKnown, UnansweredKeyKept, NoPending
  <1>7. HolderKnown
    BY GateAssumption DEF HolderKnown, SignedOutIsRevoked, Live
  <1>q. QED BY <1>4, <1>5, <1>6, <1>7 DEF GateIInv

------------------------------------------------------------------------------
(* The client's storage.                                                   *)

\* The requests are the ones there were, with the same writes and keys.
SameRequests ==
    \A r \in Requests :
        /\ req'[r].at = "new" <=> req[r].at = "new"
        /\ req'[r].intent = req[r].intent
        /\ req'[r].key = req[r].key

\* A key that has been used is never taken for a new one again.
UsedStay == \A k \in Keys : why[k] # "unused" => why'[k] # "unused"

StorageTyped ==
    /\ pending' \in [Slots -> Keys \cup {None}]
    /\ why' \in [Keys -> Reasons]

\* A client that keeps its storage knows what it knew.
LEMMA StorageKept ==
    ASSUME GateIInv, SameRequests, UNCHANGED <<pending, why>>
    PROVE  ClientKnown' /\ UsedStay /\ StorageTyped
  BY DEF GateIInv, GateTypeOK, ClientKnown, PendingKnown, UnansweredKeyKept, SameRequests,
             UsedStay, StorageTyped

\* A client that forgets every key keeps none.
LEMMA StorageForgotten ==
    ASSUME GateIInv, NEW reason \in Reasons \ {"unused", "kept"},
               SameRequests,
               pending' = NoPending, why' = Forgotten(reason)
    PROVE  ClientKnown' /\ UsedStay /\ StorageTyped
  <1>1. \A k \in Keys : why'[k] = IF why[k] = "kept" THEN reason ELSE why[k]
    BY DEF Forgotten
  <1>2. StorageTyped /\ UsedStay
    BY <1>1 DEF StorageTyped, UsedStay, Forgotten, NoPending, GateIInv, GateTypeOK
  <1>3. \A k \in Keys : why'[k] # "kept"
    BY <1>1
  <1>4. UnansweredKeyKept'
    BY <1>3 DEF UnansweredKeyKept, GateIInv, ServerKnown, RequestKnown, SameRequests
  <1>5. PendingKnown'
    BY DEF PendingKnown, NoPending
  <1>q. QED BY <1>2, <1>4, <1>5 DEF ClientKnown

\* A client that is done with the key of one entry is done with that key.
LEMMA StorageDone ==
    ASSUME GateIInv, NEW e \in Slots, NEW reason \in Reasons \ {"unused", "kept"},
               SameRequests, pending[e] # None,
               pending' = [pending EXCEPT ![e] = None],
               why' = [why EXCEPT ![pending[e]] = reason]
    PROVE  ClientKnown' /\ UsedStay /\ StorageTyped
  <1>0. pending[e] \in Keys /\ GateTypeOK /\ PendingKnown /\ UnansweredKeyKept
    BY DEF GateIInv, GateTypeOK, ClientKnown
  <1>1. \A k \in Keys : why'[k] = IF k = pending[e] THEN reason ELSE why[k]
    BY <1>0 DEF GateTypeOK
  <1>2. \A f \in Slots : pending'[f] = IF f = e THEN None ELSE pending[f]
    BY <1>0 DEF GateTypeOK
  <1>3. StorageTyped /\ UsedStay
    BY <1>0, <1>1 DEF StorageTyped, UsedStay, GateTypeOK
  <1>4. PendingKnown'
    <2>1. \A f \in Slots : pending'[f] # None => pending'[f] \in Keys
      BY <1>0, <1>2 DEF GateTypeOK
    <2>q. QED BY <1>0, <1>1, <1>2, <2>1 DEF PendingKnown
  <1>5. UnansweredKeyKept'
    <2>1. SUFFICES ASSUME NEW r \in Requests, req'[r].at # "new", why'[req'[r].key] = "kept"
                   PROVE  pending'[SlotOf[req'[r].intent]] = req'[r].key
      BY <2>1 DEF UnansweredKeyKept
    <2>2. req[r].at # "new" /\ req'[r].key = req[r].key /\ req'[r].intent = req[r].intent
      BY <2>1 DEF SameRequests
    <2>3. req[r].key \in Keys /\ req[r].intent \in Intents
      BY <2>2 DEF GateIInv, ServerKnown, RequestKnown
    <2>4. req[r].key # pending[e] /\ why[req[r].key] = "kept"
      BY <1>1, <2>1, <2>2, <2>3
    <2>5. pending[SlotOf[req[r].intent]] = req[r].key
      BY <1>0, <2>2, <2>4 DEF UnansweredKeyKept
    <2>6. SlotOf[req[r].intent] \in Slots /\ SlotOf[req[r].intent] # e
      BY <2>3, <2>4, <2>5, GateAssumption
    <2>q. QED BY <1>2, <2>2, <2>5, <2>6
  <1>q. QED BY <1>3, <1>4, <1>5 DEF ClientKnown

\* Settling an answer ends the key of its entry or leaves the storage alone.
LEMMA StorageSettled ==
    ASSUME GateIInv, NEW r \in Requests, SameRequests, req[r].at # "new", Settle(r)
    PROVE  ClientKnown' /\ UsedStay /\ StorageTyped
  <1>1. req[r].intent \in Intents /\ req[r].key \in Keys /\ SlotOf[req[r].intent] \in Slots
    BY GateAssumption DEF GateIInv, ServerKnown, RequestKnown
  <1>2. CASE Definite(req[r].answer) /\ pending[SlotOf[req[r].intent]] = req[r].key
    <2>1. ReasonFor(req[r].answer) \in Reasons \ {"unused", "kept"}
      BY <1>2 DEF Definite, ReasonFor, Reasons
    <2>2. pending[SlotOf[req[r].intent]] # None
      BY <1>1, <1>2, GateAssumption
    <2>3. /\ pending' = [pending EXCEPT ![SlotOf[req[r].intent]] = None]
          /\ why' = [why EXCEPT ![pending[SlotOf[req[r].intent]]] = ReasonFor(req[r].answer)]
      BY <1>2 DEF Settle, Complete
    <2>q. QED BY <1>1, <2>1, <2>2, <2>3, StorageDone
  <1>3. CASE ~(Definite(req[r].answer) /\ pending[SlotOf[req[r].intent]] = req[r].key)
    <2>1. UNCHANGED <<pending, why>>
      BY <1>3 DEF Settle, Complete
    <2>q. QED BY <2>1, StorageKept
  <1>q. QED BY <1>2, <1>3

------------------------------------------------------------------------------
(* The database and the wire.                                              *)

\* A request goes on, or is cut off, without having an effect.
GoesOn(r) ==
    /\ req'[r].at = "new" <=> req[r].at = "new"
    /\ req'[r].intent = req[r].intent
    /\ req'[r].key = req[r].key
    /\ req'[r].of = req[r].of
    /\ req[r].at = "over" => req'[r].at = "over"
    /\ req'[r].at = "new" => req'[r].client = "idle"
    /\ req'[r].at # "over" => req'[r].answer = "none"
    /\ req'[r].answer = "ok" => req'[r].of # None

LEMMA AllGoOn ==
    ASSUME GateIInv, UNCHANGED record, UsedStay, \A r \in Requests : GoesOn(r)
    PROVE  ServerKnown'
  <1>1. GateTypeOK /\ \A r \in Requests : RequestKnown(r)
    BY DEF GateIInv, ServerKnown
  <1>2. ASSUME NEW r \in Requests PROVE RequestKnown(r)'
    <2>1. RequestKnown(r) /\ GoesOn(r)
      BY <1>1
    <2>2. req[r].of # None => req[r].of \in Requests
      BY <1>1 DEF GateTypeOK, Request
    <2>3. req[r].of # None => req'[req[r].of].intent = req[req[r].of].intent
      BY <2>2 DEF GoesOn
    <2>q. QED BY <2>1, <2>3 DEF RequestKnown, GoesOn, UsedStay
  <1>3. ASSUME NEW k \in Keys PROVE RecordKnown(k)'
    <2>1. RecordKnown(k) /\ (record[k] # None => record[k] \in Requests)
      BY DEF GateIInv, ServerKnown, GateTypeOK
    <2>q. QED BY <2>1 DEF RecordKnown, GoesOn
  <1>q. QED BY <1>2, <1>3 DEF ServerKnown

LEMMA OneGoesOn ==
    ASSUME GateIInv, NEW r \in Requests, NEW q \in Request,
               req' = [req EXCEPT ![r] = q],
               q.at # "new", req[r].at # "new", q.intent = req[r].intent,
               q.key = req[r].key, q.of = req[r].of,
               req[r].at = "over" => q.at = "over",
               q.at # "over" => q.answer = "none",
               q.answer = "ok" => q.of # None
    PROVE  /\ req' \in [Requests -> Request]
           /\ \A x \in Requests : GoesOn(x)
           /\ SameRequests
  <1>1. req \in [Requests -> Request] /\ \A x \in Requests : RequestKnown(x)
    BY DEF GateIInv, GateTypeOK, ServerKnown
  <1>2. req' \in [Requests -> Request] /\ \A x \in Requests : req'[x] = IF x = r THEN q ELSE req[x]
    BY <1>1
  <1>3. ASSUME NEW x \in Requests PROVE GoesOn(x)
    <2>1. RequestKnown(x)
      BY <1>1
    <2>q. QED BY <1>2, <2>1 DEF GoesOn, RequestKnown
  <1>q. QED BY <1>2, <1>3 DEF SameRequests, GoesOn

\* What a request looks like once it has ended.
LEMMA EndedIs ==
    ASSUME NEW q \in Request, NEW answer \in Answers, NEW of \in Requests \cup {None}
    PROVE  /\ Ended(q, answer, of) \in Request
           /\ Ended(q, answer, of).at = "over"
           /\ Ended(q, answer, of).client = q.client
           /\ Ended(q, answer, of).intent = q.intent
           /\ Ended(q, answer, of).key = q.key
           /\ Ended(q, answer, of).of = of
           /\ Ended(q, answer, of).answer \in {answer, "none"}
  BY ZenonT(30) DEF Ended, Request, Answers

LEMMA MishapTyped ==
    ASSUME mishaps \in 0..MaxMishaps, Mishap
    PROVE  mishaps' \in 0..MaxMishaps
  BY GateAssumption DEF Mishap

------------------------------------------------------------------------------
(* Every step keeps the invariant.  An action that changes no request      *)
(* leaves what is known of the requests as it was.                         *)

LEMMA RequestsStay ==
    ASSUME GateIInv, UNCHANGED <<req, record>>
    PROVE  SameRequests /\ (UsedStay => ServerKnown')
  <1>1. ASSUME NEW r \in Requests PROVE GoesOn(r)
    BY DEF GoesOn, GateIInv, ServerKnown, RequestKnown
  <1>2. SameRequests
    BY DEF SameRequests
  <1>q. QED BY <1>1, <1>2, AllGoOn

LEMMA FreshSessionIs ==
    ASSUME GateTypeOK, \E s \in Sessions : session[s] = "none"
    PROVE  FreshSession \in Sessions /\ session[FreshSession] = "none"
  BY DEF FreshSession

LEMMA SignInInv == ASSUME GateIInv, SignIn PROVE GateIInv'
  <1>1. PICK received \in BOOLEAN, consumer \in BOOLEAN, opened \in BOOLEAN :
          /\ view' = ViewAfterSignIn(received, consumer, opened)
          /\ MishapUnless(view' = "home")
          /\ session' = [session EXCEPT ![FreshSession] = "live"]
          /\ guests' = IF consumer THEN guests ELSE guests \cup {FreshSession}
          /\ holder' \in IF received THEN {FreshSession}
                         ELSE IF kind = "miniapp" THEN {holder} ELSE {holder, FreshSession}
    BY DEF SignIn
  <1>2. /\ \E s \in Sessions : session[s] = "none"
        /\ UNCHANGED <<kind, pending, why, req, record>>
    BY DEF SignIn
  <1>3. FreshSession \in Sessions /\ session[FreshSession] = "none"
    BY <1>2, FreshSessionIs DEF GateIInv
  <1>4. GateTypeOK /\ HolderKnown
    BY DEF GateIInv
  <1>5. mishaps' \in 0..MaxMishaps
    BY <1>1, <1>4, MishapTyped DEF GateTypeOK, MishapUnless
  <1>6. SameRequests /\ ClientKnown' /\ UsedStay /\ ServerKnown'
    BY <1>2, RequestsStay, StorageKept
  <1>7. view' \in Views \ {"out"} /\ holder' \in {holder, FreshSession}
    BY <1>1 DEF ViewAfterSignIn, Views
  <1>8. \A s \in Sessions : session'[s] = IF s = FreshSession THEN "live" ELSE session[s]
    BY <1>1, <1>4 DEF GateTypeOK
  <1>9. GateTypeOK'
    BY <1>1, <1>2, <1>3, <1>4, <1>5, <1>7 DEF GateTypeOK
  <1>10. HolderKnown'
    <2>1. holder \in Sessions \cup {None}
      BY <1>4 DEF GateTypeOK
    <2>q. QED BY <1>3, <1>4, <1>7, <1>8, <2>1 DEF HolderKnown, SignedOutIsRevoked
  <1>q. QED BY <1>6, <1>9, <1>10 DEF GateIInv

LEMMA SignOutInv == ASSUME GateIInv, SignOut PROVE GateIInv'
  <1>1. PICK reached \in BOOLEAN, answered \in BOOLEAN :
          /\ answered => reached
          /\ MishapUnless(answered)
          /\ session' = IF reached /\ holder \in Live
                        THEN [session EXCEPT ![holder] = "revoked"] ELSE session
          /\ IF kind = "web" THEN SignOutWeb(reached, answered)
                             ELSE SignOutMini(reached, answered)
    BY DEF SignOut
  <1>2. UNCHANGED <<kind, guests, req, record>>
    BY DEF SignOut
  <1>3. GateTypeOK /\ HolderKnown
    BY DEF GateIInv
  <1>4. mishaps' \in 0..MaxMishaps
    BY <1>1, <1>3, MishapTyped DEF GateTypeOK, MishapUnless
  <1>5. SameRequests
    BY <1>2, RequestsStay
  <1>6. ClientKnown' /\ UsedStay /\ StorageTyped
    <2>1. CASE UNCHANGED <<pending, why>>
      BY <1>5, <2>1, StorageKept
    <2>2. CASE pending' = NoPending /\ why' = Forgotten("signed_out")
      <3>1. "signed_out" \in Reasons \ {"unused", "kept"}
        BY DEF Reasons
      <3>q. QED BY <1>5, <2>2, <3>1, StorageForgotten
    <2>q. QED BY <1>1, <2>1, <2>2 DEF SignOutWeb, SignOutMini, clientVars
  <1>7. ServerKnown'
    BY <1>2, <1>6, RequestsStay
  <1>8. /\ view' \in Views
        /\ holder' \in {holder, None}
        /\ view' = "out" => holder' \notin Live'
    <2>1. None \notin Live /\ view \in Views /\ view = "home" /\ Live' \subseteq Live
      BY <1>1, <1>3, GateAssumption DEF Live, GateTypeOK, SignOut
    <2>2. CASE kind = "web"
      BY <1>1, <2>1, <2>2 DEF SignOutWeb, Views
    <2>3. CASE kind # "web"
      BY <1>1, <2>1, <2>3 DEF SignOutMini, clientVars, Views
    <2>q. QED BY <2>2, <2>3
  <1>9. session' \in [Sessions -> {"none", "live", "revoked", "expired"}]
        /\ \A s \in Sessions : session'[s] = session[s] \/ (session'[s] = "revoked" /\ s = holder)
    BY <1>1, <1>3 DEF GateTypeOK
  <1>10. GateTypeOK'
    BY <1>2, <1>3, <1>4, <1>6, <1>8, <1>9 DEF GateTypeOK, StorageTyped
  <1>11. HolderKnown'
    <2>1. holder' # None => holder' = holder /\ holder \in Sessions
      BY <1>3, <1>8 DEF GateTypeOK
    <2>q. QED BY <1>3, <1>8, <1>9, <2>1 DEF HolderKnown, SignedOutIsRevoked
  <1>q. QED BY <1>6, <1>7, <1>10, <1>11 DEF GateIInv

LEMMA ExpireInv == ASSUME GateIInv, NEW s \in Sessions, Expire(s) PROVE GateIInv'
  <1>1. /\ session' = [session EXCEPT ![s] = "expired"]
        /\ holder' = IF holder = s /\ kind # "miniapp" THEN None ELSE holder
        /\ UNCHANGED <<kind, view, pending, why, guests, req, record, mishaps>>
    BY DEF Expire
  <1>2. GateTypeOK /\ HolderKnown
    BY DEF GateIInv
  <1>3. SameRequests /\ ClientKnown' /\ UsedStay /\ ServerKnown'
    BY <1>1, RequestsStay, StorageKept
  <1>4. GateTypeOK'
    BY <1>1, <1>2 DEF GateTypeOK
  <1>5. \A x \in Sessions : session'[x] = IF x = s THEN "expired" ELSE session[x]
    BY <1>1, <1>2 DEF GateTypeOK
  <1>6. HolderKnown'
    <2>1. Live' \subseteq Live
      BY <1>5 DEF Live
    <2>2. holder' # None => holder' = holder /\ holder \in Sessions
      BY <1>1, <1>2 DEF GateTypeOK
    <2>3. None \notin Live'
      BY GateAssumption DEF Live
    <2>q. QED BY <1>1, <1>2, <1>5, <2>1, <2>2, <2>3 DEF HolderKnown, SignedOutIsRevoked
  <1>q. QED BY <1>3, <1>4, <1>6 DEF GateIInv

------------------------------------------------------------------------------
(* A step of the wire or of the server leaves the client alone.            *)

LEMMA HolderStays ==
    ASSUME GateIInv, UNCHANGED <<view, holder, session>>
    PROVE  HolderKnown'
  BY DEF GateIInv, HolderKnown, SignedOutIsRevoked, Live

\* One request goes on and nothing else happens.
LEMMA OneStep ==
    ASSUME GateIInv, NEW r \in Requests, NEW q \in Request,
               req' = [req EXCEPT ![r] = q],
               q.at # "new", req[r].at # "new", q.intent = req[r].intent,
               q.key = req[r].key, q.of = req[r].of,
               req[r].at = "over" => q.at = "over",
               q.at # "over" => q.answer = "none",
               q.answer = "ok" => q.of # None,
               UNCHANGED <<kind, clientVars, session, guests, record>>,
               mishaps' \in 0..MaxMishaps
    PROVE  GateIInv'
  <1>1. req' \in [Requests -> Request] /\ (\A x \in Requests : GoesOn(x)) /\ SameRequests
    BY OneGoesOn
  <1>2. ClientKnown' /\ UsedStay
    BY <1>1, StorageKept DEF clientVars
  <1>3. ServerKnown'
    BY <1>1, <1>2, AllGoOn
  <1>4. HolderKnown'
    BY HolderStays DEF clientVars
  <1>5. GateTypeOK'
    BY <1>1 DEF GateIInv, GateTypeOK, clientVars
  <1>q. QED BY <1>2, <1>3, <1>4, <1>5 DEF GateIInv

LEMMA RequestFacts ==
    ASSUME GateIInv, NEW r \in Requests
    PROVE  /\ req[r] \in Request /\ RequestKnown(r)
           /\ mishaps \in 0..MaxMishaps
           /\ req \in [Requests -> Request]
  BY DEF GateIInv, GateTypeOK, ServerKnown

LEMMA ArriveInv == ASSUME GateIInv, NEW r \in Requests, Arrive(r) PROVE GateIInv'
  <1> DEFINE q == IF Admitted(r) THEN [req[r] EXCEPT !.at = "inside", !.session = None]
                                 ELSE Ended(req[r], IF Known(r) THEN "refused"
                                                        ELSE "unauthorized", None)
  <1>1. req' = [req EXCEPT ![r] = q]
    BY DEF Arrive
  <1>2. /\ req[r].at = "wire"
        /\ UNCHANGED <<kind, clientVars, session, guests, record, mishaps>>
    BY DEF Arrive
  <1>3. req[r] \in Request /\ RequestKnown(r) /\ mishaps \in 0..MaxMishaps
    BY RequestFacts
  <1>4. (IF Known(r) THEN "refused" ELSE "unauthorized") \in Answers \ {"ok"}
    BY DEF Answers
  <1>5. /\ q \in Request /\ q.at # "new" /\ q.intent = req[r].intent
        /\ q.key = req[r].key /\ q.of = req[r].of
        /\ (q.at # "over" => q.answer = "none") /\ q.answer # "ok"
    <2>1. CASE Admitted(r)
      BY <1>2, <1>3, <2>1 DEF Request, RequestKnown
    <2>2. CASE ~Admitted(r)
      BY <1>2, <1>3, <1>4, <2>2, EndedIs DEF RequestKnown
    <2>q. QED BY <2>1, <2>2
  <1>6. req[r].at # "new" /\ (req[r].at = "over" => q.at = "over")
        /\ UNCHANGED <<kind, clientVars, session, guests,
                       record>> /\ mishaps' \in 0..MaxMishaps
    BY <1>2, <1>3
  <1> HIDE DEF q
  <1>q. QED BY <1>1, <1>5, <1>6, OneStep

LEMMA LockInv == ASSUME GateIInv, NEW r \in Requests, Lock(r) PROVE GateIInv'
  <1> DEFINE q == [req[r] EXCEPT !.at = "locked"]
  <1>1. req' = [req EXCEPT ![r] = q]
    BY RequestFacts DEF Lock
  <1>2. req[r].at = "inside" /\ UNCHANGED <<kind, clientVars, session, guests, record,
                                            mishaps>>
    BY DEF Lock
  <1>3. req[r] \in Request /\ RequestKnown(r) /\ mishaps \in 0..MaxMishaps
    BY RequestFacts
  <1>4. /\ q \in Request /\ q.at # "new" /\ q.intent = req[r].intent
        /\ q.key = req[r].key /\ q.of = req[r].of
        /\ (q.at # "over" => q.answer = "none") /\ q.answer # "ok"
    BY <1>2, <1>3 DEF Request, RequestKnown
  <1>5. req[r].at # "new" /\ (req[r].at = "over" => q.at = "over")
        /\ UNCHANGED <<kind, clientVars, session, guests,
                       record>> /\ mishaps' \in 0..MaxMishaps
    BY <1>2, <1>3
  <1> HIDE DEF q
  <1>q. QED BY <1>1, <1>4, <1>5, OneStep

LEMMA AbortInv == ASSUME GateIInv, NEW r \in Requests, Abort(r) PROVE GateIInv'
  <1>1. PICK a \in {"refused", "failed"} : req' = [req EXCEPT ![r] = Ended(req[r], a, None)]
    BY DEF Abort
  <1> DEFINE q == Ended(req[r], a, None)
  <1>2. req[r].at = "locked" /\ UNCHANGED <<kind, clientVars, session, guests, record,
                                            mishaps>>
    BY DEF Abort
  <1>3. req[r] \in Request /\ RequestKnown(r) /\ mishaps \in 0..MaxMishaps
    BY RequestFacts
  <1>4. a \in Answers
    BY DEF Answers
  <1>5. /\ q \in Request /\ q.at = "over" /\ q.intent = req[r].intent
        /\ q.key = req[r].key /\ q.of = req[r].of /\ q.answer # "ok"
    BY <1>2, <1>3, <1>4, EndedIs DEF RequestKnown
  <1>6. req[r].at # "new" /\ (req[r].at = "over" => q.at = "over")
        /\ UNCHANGED <<kind, clientVars, session, guests,
                       record>> /\ mishaps' \in 0..MaxMishaps
    BY <1>2, <1>3
  <1>7. req' = [req EXCEPT ![r] = q]
    BY <1>1
  <1> HIDE DEF q
  <1>q. QED BY <1>5, <1>6, <1>7, OneStep

LEMMA GiveUpInv == ASSUME GateIInv, NEW r \in Requests, GiveUp(r) PROVE GateIInv'
  <1> DEFINE q == [req[r] EXCEPT !.client = "gone", !.answer = "none"]
  <1>1. req' = [req EXCEPT ![r] = q] /\ Mishap /\ req[r].client = "waiting"
    BY DEF GiveUp
  <1>2. UNCHANGED <<kind, clientVars, session, guests, record>>
    BY DEF GiveUp
  <1>3. req[r] \in Request /\ RequestKnown(r) /\ mishaps \in 0..MaxMishaps
    BY RequestFacts
  <1>4. /\ q \in Request /\ q.at = req[r].at /\ q.intent = req[r].intent
        /\ q.key = req[r].key /\ q.of = req[r].of /\ q.answer = "none"
    BY <1>3 DEF Request, Answers
  <1>5. req[r].at # "new"
    BY <1>1, <1>3 DEF RequestKnown
  <1>6. mishaps' \in 0..MaxMishaps
    BY <1>1, <1>3, MishapTyped
  <1> HIDE DEF q
  <1>q. QED BY <1>1, <1>2, <1>4, <1>5, <1>6, OneStep

\* Several requests are cut off together.
LEMMA ServerStopsInv == ASSUME GateIInv, ServerStops PROVE GateIInv'
  <1> DEFINE q(r) == IF req[r].at \in {"inside", "locked"} THEN Cut(req[r]) ELSE req[r]
  <1>1. req' = [r \in Requests |-> q(r)] /\ Mishap
        /\ UNCHANGED <<kind, clientVars, session, guests, record>>
    BY DEF ServerStops
  <1>2. ASSUME NEW r \in Requests PROVE q(r) \in Request /\ GoesOn(r)
    <2>1. req[r] \in Request /\ RequestKnown(r) /\ req'[r] = q(r)
      BY <1>1, RequestFacts
    <2>2. CASE req[r].at \in {"inside", "locked"}
      BY <2>1, <2>2 DEF Cut, Request, GoesOn, RequestKnown
    <2>3. CASE req[r].at \notin {"inside", "locked"}
      BY <2>1, <2>3 DEF GoesOn, RequestKnown
    <2>q. QED BY <2>2, <2>3
  <1> HIDE DEF q
  <1>3. req' \in [Requests -> Request] /\ SameRequests
    BY <1>1, <1>2 DEF SameRequests, GoesOn
  <1>4. ClientKnown' /\ UsedStay
    BY <1>1, <1>3, StorageKept DEF clientVars
  <1>5. ServerKnown' /\ HolderKnown'
    BY <1>1, <1>2, <1>4, AllGoOn, HolderStays DEF clientVars
  <1>6. GateTypeOK'
    BY <1>1, <1>3, MishapTyped DEF GateIInv, GateTypeOK, clientVars
  <1>q. QED BY <1>4, <1>5, <1>6 DEF GateIInv

\* The first page shows the form as after a sign-out only over a session that
\* is not live.
LEMMA RestoreShows ==
    ASSUME NEW answered \in BOOLEAN, Restore(answered)
    PROVE  view' \in Views /\ (view' = "out" => holder' \notin Live)
  BY DEF Restore, Views

LEMMA ReopenInv == ASSUME GateIInv, NEW closed \in BOOLEAN, Reopen(closed) PROVE GateIInv'
  <1> DEFINE q(r) == IF req[r].client = "waiting"
                     THEN [req[r] EXCEPT !.client = "gone", !.answer = "none"] ELSE req[r]
  <1>1. /\ req' = [r \in Requests |-> q(r)]
        /\ Mishap
        /\ (\E answered \in BOOLEAN : Restore(answered)) \/ view' = "home"
        /\ UNCHANGED <<kind, session, guests, record>>
    BY DEF Reopen
  <1>2. ASSUME NEW r \in Requests PROVE q(r) \in Request /\ GoesOn(r)
    <2>1. req[r] \in Request /\ RequestKnown(r) /\ req'[r] = q(r)
      BY <1>1, RequestFacts
    <2>2. CASE req[r].client = "waiting"
      BY <2>1, <2>2 DEF Request, Answers, GoesOn, RequestKnown
    <2>3. CASE req[r].client # "waiting"
      BY <2>1, <2>3 DEF GoesOn, RequestKnown
    <2>q. QED BY <2>2, <2>3
  <1> HIDE DEF q
  <1>3. req' \in [Requests -> Request] /\ SameRequests
    BY <1>1, <1>2 DEF SameRequests, GoesOn
  <1>4. \/ UNCHANGED <<pending, why>>
        \/ \E reason \in {"closed", "unauthorized"} :
              pending' = NoPending /\ why' = Forgotten(reason)
    BY DEF Reopen, ClearClient
  <1>5. ClientKnown' /\ UsedStay /\ StorageTyped
    <2>1. {"closed", "unauthorized"} \subseteq Reasons \ {"unused", "kept"}
      BY DEF Reasons
    <2>q. QED BY <1>3, <1>4, <2>1, StorageKept, StorageForgotten
  <1>6. ServerKnown'
    BY <1>1, <1>2, <1>5, AllGoOn
  <1>7. holder' \in {holder, None}
    BY DEF Reopen, ClearClient
  <1>8. view' \in Views /\ (view' = "out" => holder' \notin Live)
    BY <1>1, RestoreShows DEF Views
  <1>9. GateTypeOK'
    BY <1>1, <1>3, <1>5, <1>7, <1>8, MishapTyped DEF GateIInv, GateTypeOK, StorageTyped
  <1>10. HolderKnown'
    BY <1>1, <1>7, <1>8 DEF GateIInv, HolderKnown, SignedOutIsRevoked, Live
  <1>q. QED BY <1>5, <1>6, <1>9, <1>10 DEF GateIInv

\* The client takes the answer of one of its requests.
LEMMA AnsweredGoesOn ==
    ASSUME GateIInv, NEW r \in Requests, Answered(r)
    PROVE  /\ req' \in [Requests -> Request]
           /\ \A x \in Requests : GoesOn(x)
           /\ SameRequests
           /\ req[r].at # "new"
           /\ UNCHANGED <<kind, session, guests, record>>
  <1> DEFINE q == [req[r] EXCEPT !.client = "answered",
                                 !.answer = IF req[r].answer = "ok" THEN "ok" ELSE "none"]
  <1>1. req' = [req EXCEPT ![r] = q] /\ req[r].client = "waiting" /\ req[r].answer # "none"
        /\ UNCHANGED <<kind, session, guests, record>>
    BY DEF Answered
  <1>2. req[r] \in Request /\ RequestKnown(r)
    BY RequestFacts
  <1>3. /\ q \in Request /\ q.at = req[r].at /\ q.intent = req[r].intent
        /\ q.key = req[r].key /\ q.of = req[r].of
        /\ q.answer = IF req[r].answer = "ok" THEN "ok" ELSE "none"
    BY <1>2 DEF Request, Answers
  <1>4. req[r].at = "over"
    BY <1>1, <1>2 DEF RequestKnown
  <1>5. q.answer = "ok" => q.of # None
    BY <1>2, <1>3 DEF RequestKnown
  <1> HIDE DEF q
  <1>q. QED BY <1>1, <1>3, <1>4, <1>5, OneGoesOn

LEMMA ReceiveMiniInv == ASSUME GateIInv, NEW r \in Requests, ReceiveMini(r) PROVE GateIInv'
  <1>1. /\ req' \in [Requests -> Request]
        /\ \A x \in Requests : GoesOn(x)
        /\ SameRequests
        /\ req[r].at # "new"
        /\ UNCHANGED <<kind, session, guests, record>>
    BY AnsweredGoesOn DEF ReceiveMini
  <1>2. ClientKnown' /\ UsedStay /\ StorageTyped /\ HolderKnown'
        /\ holder' \in {holder, None} /\ view' \in Views /\ mishaps' \in 0..MaxMishaps
    <2>1. CASE req[r].answer = "unauthorized"
      <3>1. PICK answered \in BOOLEAN :
              ClearClient("unauthorized") /\ Restore(answered) /\ MishapUnless(answered)
        BY <2>1 DEF ReceiveMini
      <3>2. "unauthorized" \in Reasons \ {"unused", "kept"}
        BY DEF Reasons
      <3>3. ClientKnown' /\ UsedStay /\ StorageTyped
        BY <1>1, <3>1, <3>2, StorageForgotten DEF ClearClient
      <3>4. HolderKnown' /\ holder' \in {holder, None} /\ view' \in Views
        BY <1>1, <3>1, RestoreShows DEF ClearClient, GateIInv, HolderKnown, SignedOutIsRevoked, Live
      <3>5. mishaps' \in 0..MaxMishaps
        BY <3>1, RequestFacts, MishapTyped DEF MishapUnless
      <3>q. QED BY <3>3, <3>4, <3>5
    <2>2. CASE req[r].answer # "unauthorized"
      <3>1. Settle(r) /\ UNCHANGED <<view, holder, mishaps>>
        BY <2>2 DEF ReceiveMini
      <3>2. ClientKnown' /\ UsedStay /\ StorageTyped
        BY <1>1, <3>1, StorageSettled
      <3>3. HolderKnown'
        BY <1>1, <3>1, HolderStays
      <3>q. QED BY <3>1, <3>2, <3>3 DEF GateIInv, GateTypeOK
    <2>q. QED BY <2>1, <2>2
  <1>3. ServerKnown'
    BY <1>1, <1>2, AllGoOn
  <1>4. GateTypeOK'
    BY <1>1, <1>2 DEF GateIInv, GateTypeOK, StorageTyped
  <1>q. QED BY <1>2, <1>3, <1>4 DEF GateIInv

LEMMA ReceiveWebInv == ASSUME GateIInv, NEW r \in Requests, ReceiveWeb(r) PROVE GateIInv'
  <1>1. /\ req' \in [Requests -> Request]
        /\ \A x \in Requests : GoesOn(x)
        /\ SameRequests
        /\ req[r].at # "new"
        /\ UNCHANGED <<kind, session, guests, record>>
    BY AnsweredGoesOn DEF ReceiveWeb
  <1>2. Settle(r) /\ UNCHANGED <<view, holder, mishaps>>
    BY DEF ReceiveWeb
  <1>3. ClientKnown' /\ UsedStay /\ StorageTyped
    BY <1>1, <1>2, StorageSettled
  <1>4. ServerKnown' /\ HolderKnown'
    BY <1>1, <1>2, <1>3, AllGoOn, HolderStays
  <1>5. GateTypeOK'
    BY <1>1, <1>2, <1>3 DEF GateIInv, GateTypeOK, StorageTyped
  <1>q. QED BY <1>3, <1>4, <1>5 DEF GateIInv

LEMMA AgeInv == ASSUME GateIInv, NEW e \in Slots, Age(e) PROVE GateIInv'
  <1>1. /\ Mishap /\ pending[e] # None
        /\ why' = [why EXCEPT ![pending[e]] = "aged"]
        /\ pending' = [pending EXCEPT ![e] = None]
        /\ UNCHANGED <<kind, view, holder, session, guests, req, record>>
    BY DEF Age
  <1>2. "aged" \in Reasons \ {"unused", "kept"}
    BY DEF Reasons
  <1>3. SameRequests
    BY <1>1 DEF SameRequests
  <1>4. ClientKnown' /\ UsedStay /\ StorageTyped
    BY <1>1, <1>2, <1>3, StorageDone
  <1>5. ServerKnown' /\ HolderKnown'
    BY <1>1, <1>4, RequestsStay, HolderStays
  <1>6. GateTypeOK'
    BY <1>1, <1>4, MishapTyped DEF GateIInv, GateTypeOK, StorageTyped
  <1>q. QED BY <1>4, <1>5, <1>6 DEF GateIInv

------------------------------------------------------------------------------
(* A write commits, or is answered with what its key already did.          *)

LEMMA EffectKnown ==
    ASSUME GateIInv, NEW r \in Requests, NEW q \in Request,
               req[r].at = "locked",
               req' = [req EXCEPT ![r] = q],
               q.at = "over", q.intent = req[r].intent, q.key = req[r].key,
               \/ record[req[r].key] # None /\ record' = record
                  /\ req[record[req[r].key]].intent = req[r].intent
               \/ record[req[r].key] = None /\ record' = [record EXCEPT ![req[r].key] = r],
               q.of = record'[req[r].key],
               UNCHANGED <<kind, clientVars, session, guests, mishaps>>
    PROVE  GateIInv'
  <1>1. GateTypeOK /\ (\A x \in Requests : RequestKnown(x)) /\ \A k \in Keys : RecordKnown(k)
    BY DEF GateIInv, ServerKnown
  <1>2. req' \in [Requests -> Request] /\ \A x \in Requests : req'[x] = IF x = r THEN q ELSE req[x]
    BY <1>1 DEF GateTypeOK
  <1>3. req[r].key \in Keys /\ req[r].intent \in Intents /\ why[req[r].key] # "unused"
        /\ None \notin Requests
    BY <1>1, GateAssumption DEF RequestKnown
  <1>4. record' \in [Keys -> Requests \cup {None}]
        /\ \A k \in Keys : record'[k] = IF k = req[r].key /\ record[k] = None THEN r ELSE record[k]
    BY <1>1, <1>3 DEF GateTypeOK
  <1>5. SameRequests
    BY <1>1, <1>2 DEF SameRequests
  <1>6. ClientKnown' /\ UsedStay
    BY <1>5, StorageKept DEF clientVars
  <1>7. \A k \in Keys : record[k] # None => record[k] \in Requests /\ record[k] # r
    BY <1>1 DEF RecordKnown, GateTypeOK
  <1>8. ASSUME NEW x \in Requests PROVE RequestKnown(x)'
    <2>1. CASE x = r
      <3>1. q.of # None /\ q.of \in Requests
        BY <1>3, <1>4, <1>7
      <3>2. req'[q.of].intent = q.intent
        BY <1>2, <1>3, <1>4, <1>7
      <3>q. QED BY <1>2, <1>3, <2>1, <3>1, <3>2 DEF RequestKnown, clientVars
    <2>2. CASE x # r
      <3>1. req'[x] = req[x] /\ RequestKnown(x) /\ why' = why
        BY <1>1, <1>2, <2>2 DEF clientVars
      <3>2. req[x].of # None => req[x].at = "over" /\ req[x].key \in Keys
        BY <3>1 DEF RequestKnown
      <3>3. req[x].of # None => /\ record'[req[x].key] = req[x].of
                                /\ req'[req[x].of].intent = req[x].intent
        BY <1>2, <1>4, <1>7, <3>1, <3>2 DEF RequestKnown
      <3>q. QED BY <3>1, <3>3 DEF RequestKnown
    <2>q. QED BY <2>1, <2>2
  <1>9. ASSUME NEW k \in Keys PROVE RecordKnown(k)'
    <2>1. CASE record'[k] = record[k]
      BY <1>1, <1>2, <1>7, <2>1 DEF RecordKnown
    <2>2. CASE record'[k] # record[k]
      BY <1>2, <1>4, <2>2 DEF RecordKnown
    <2>q. QED BY <2>1, <2>2
  <1>10. GateTypeOK' /\ HolderKnown'
    BY <1>1, <1>2, <1>4, HolderStays DEF GateTypeOK, clientVars
  <1>q. QED BY <1>6, <1>8, <1>9, <1>10 DEF GateIInv, ServerKnown

LEMMA CommitInv == ASSUME GateIInv, NEW r \in Requests, Commit(r) PROVE GateIInv'
  <1> DEFINE q == Ended(req[r], "ok", r)
  <1>1. /\ req[r].at = "locked" /\ record[req[r].key] = None
        /\ req' = [req EXCEPT ![r] = q]
        /\ record' = [record EXCEPT ![req[r].key] = r]
        /\ UNCHANGED <<kind, clientVars, session, guests, mishaps>>
    BY RequestFacts DEF Commit
  <1>2. req[r] \in Request /\ RequestKnown(r) /\ "ok" \in Answers
    BY RequestFacts DEF Answers
  <1>3. q \in Request /\ q.at = "over" /\ q.intent = req[r].intent /\ q.key = req[r].key /\ q.of = r
    BY <1>2, EndedIs
  <1>4. record'[req[r].key] = r
    BY <1>1, <1>2 DEF GateIInv, GateTypeOK, RequestKnown
  <1> HIDE DEF q
  <1>q. QED BY <1>1, <1>3, <1>4, EffectKnown

LEMMA ReplayInv == ASSUME GateIInv, NEW r \in Requests, Replay(r) PROVE GateIInv'
  <1>1. /\ req[r].at = "locked" /\ record[req[r].key] # None
        /\ UNCHANGED <<kind, clientVars, session, guests, record, mishaps>>
    BY DEF Replay
  <1>2. /\ req[r] \in Request /\ RequestKnown(r) /\ mishaps \in 0..MaxMishaps
        /\ {"ok", "refused"} \subseteq Answers
    BY RequestFacts DEF Answers
  <1>3. record[req[r].key] \in Requests
    BY <1>1, <1>2 DEF GateIInv, GateTypeOK, RequestKnown
  <1>4. CASE SamePayload(r)
    <2> DEFINE q == Ended(req[r], "ok", record[req[r].key])
    <2>1. req' = [req EXCEPT ![r] = q]
      BY <1>4 DEF Replay
    <2>2. /\ q \in Request /\ q.at = "over" /\ q.intent = req[r].intent
          /\ q.key = req[r].key /\ q.of = record[req[r].key]
      BY <1>2, <1>3, EndedIs
    <2>3. req[record[req[r].key]].intent = req[r].intent
      BY <1>4 DEF SamePayload
    <2> HIDE DEF q
    <2>q. QED BY <1>1, <2>1, <2>2, <2>3, EffectKnown
  <1>5. CASE ~SamePayload(r)
    <2> DEFINE q == Ended(req[r], "refused", None)
    <2>1. req' = [req EXCEPT ![r] = q]
      BY <1>5 DEF Replay
    <2>2. /\ q \in Request /\ q.at = "over" /\ q.intent = req[r].intent
          /\ q.key = req[r].key /\ q.of = req[r].of /\ q.answer # "ok"
      BY <1>1, <1>2, EndedIs DEF RequestKnown
    <2>3. req[r].at # "new" /\ UNCHANGED <<kind, clientVars, session, guests, record>>
          /\ mishaps' \in 0..MaxMishaps
      BY <1>1, <1>2
    <2> HIDE DEF q
    <2>q. QED BY <2>1, <2>2, <2>3, OneStep
  <1>q. QED BY <1>4, <1>5

------------------------------------------------------------------------------
(* The user asks for a write.                                              *)

\* The storage once a key has been taken for an entry.
LEMMA StorageTaken ==
    ASSUME GateIInv, NEW i \in Intents, NEW f \in Requests, NEW k \in Keys,
               IF pending[SlotOf[i]] # None THEN k = pending[SlotOf[i]] ELSE why[k] = "unused",
               req[f].at = "new",
               \A r \in Requests : r # f => req'[r] = req[r],
               req'[f].intent = i, req'[f].key = k,
               pending' = [pending EXCEPT ![SlotOf[i]] = k],
               why' = [why EXCEPT ![k] = "kept"]
    PROVE  ClientKnown' /\ UsedStay /\ StorageTyped
  <1>0. GateTypeOK /\ PendingKnown /\ UnansweredKeyKept /\ SlotOf[i] \in Slots
    BY GateAssumption DEF GateIInv, ClientKnown
  <1>1. \A j \in Keys : why'[j] = IF j = k THEN "kept" ELSE why[j]
    BY <1>0 DEF GateTypeOK
  <1>2. \A e \in Slots : pending'[e] = IF e = SlotOf[i] THEN k ELSE pending[e]
    BY <1>0 DEF GateTypeOK
  <1>3. StorageTyped /\ UsedStay
    BY <1>0, <1>1 DEF StorageTyped, UsedStay, GateTypeOK, Reasons
  <1>4. \A e \in Slots : pending[e] \in Keys \cup {None}
    BY <1>0 DEF GateTypeOK
  <1>5. \A e \in Slots : e # SlotOf[i] => pending[e] # k
    BY <1>0, GateAssumption DEF PendingKnown
  <1>6. PendingKnown'
    BY <1>0, <1>1, <1>2, <1>4, <1>5 DEF PendingKnown
  <1>7. UnansweredKeyKept'
    <2>1. SUFFICES ASSUME NEW r \in Requests, req'[r].at # "new", why'[req'[r].key] = "kept"
                   PROVE  pending'[SlotOf[req'[r].intent]] = req'[r].key
      BY <2>1 DEF UnansweredKeyKept
    <2>2. CASE r = f
      BY <1>0, <1>2, <2>2
    <2>3. CASE r # f
      <3>1. /\ req'[r] = req[r] /\ req[r].key \in Keys /\ req[r].intent \in Intents
            /\ req[r].at # "new" /\ why[req[r].key] # "unused"
        BY <2>1, <2>3 DEF GateIInv, ServerKnown, RequestKnown
      <3>2. SlotOf[req[r].intent] \in Slots
        BY <3>1, GateAssumption
      <3>3. CASE req[r].key = k
        <4>1. pending[SlotOf[i]] = k /\ why[k] = "kept"
          BY <1>0, <3>1, <3>3 DEF PendingKnown
        <4>2. pending[SlotOf[req[r].intent]] = k
          BY <1>0, <3>1, <3>3, <4>1 DEF UnansweredKeyKept
        <4>q. QED BY <1>2, <3>1, <3>2, <3>3, <4>2
      <3>4. CASE req[r].key # k
        <4>1. why[req[r].key] = "kept"
          BY <1>1, <2>1, <3>1, <3>4
        <4>2. pending[SlotOf[req[r].intent]] = req[r].key
          BY <1>0, <3>1, <4>1 DEF UnansweredKeyKept
        <4>3. SlotOf[req[r].intent] # SlotOf[i]
          <5>1. SUFFICES ASSUME SlotOf[req[r].intent] = SlotOf[i] PROVE FALSE
            OBVIOUS
          <5>2. pending[SlotOf[i]] = req[r].key /\ req[r].key # None
            BY <3>1, <4>2, <5>1, GateAssumption
          <5>q. QED BY <3>4, <5>2
        <4>q. QED BY <1>2, <3>1, <3>2, <4>2, <4>3
      <3>q. QED BY <3>3, <3>4
    <2>q. QED BY <2>2, <2>3
  <1>q. QED BY <1>3, <1>6, <1>7 DEF ClientKnown

\* The token expired: the key just taken is dropped with all the others.
LEMMA StorageDropped ==
    ASSUME GateIInv, NEW f \in Requests, NEW k \in Keys,
               \A r \in Requests : r # f => req'[r] = req[r],
               req'[f].key = k,
               pending' = NoPending,
               why' = [Forgotten("unauthorized") EXCEPT ![k] = "unauthorized"]
    PROVE  ClientKnown' /\ UsedStay /\ StorageTyped
  <1>1. \A j \in Keys : why'[j] = IF j = k \/ why[j] = "kept" THEN "unauthorized" ELSE why[j]
    BY DEF Forgotten
  <1>2. StorageTyped /\ UsedStay
    BY <1>1 DEF StorageTyped, UsedStay, Forgotten, NoPending, GateIInv, GateTypeOK, Reasons
  <1>3. \A j \in Keys : why'[j] # "kept"
    BY <1>1
  <1>4. UnansweredKeyKept'
    BY <1>3 DEF UnansweredKeyKept, GateIInv, ServerKnown, RequestKnown
  <1>5. PendingKnown'
    BY DEF PendingKnown, NoPending
  <1>q. QED BY <1>2, <1>4, <1>5 DEF ClientKnown

\* A request that was never sent before.
LEMMA NewRequestKnown ==
    ASSUME GateIInv, NEW f \in Requests, NEW q \in Request,
               req[f].at = "new", req' = [req EXCEPT ![f] = q], UNCHANGED record,
               q.at = "wire", q.intent \in Intents, q.key \in Keys, q.of = None,
               q.answer = "none", why'[q.key] # "unused", UsedStay
    PROVE  ServerKnown'
  <1>1. GateTypeOK /\ (\A x \in Requests : RequestKnown(x)) /\ \A k \in Keys : RecordKnown(k)
    BY DEF GateIInv, ServerKnown
  <1>2. \A x \in Requests : req'[x] = IF x = f THEN q ELSE req[x]
    BY <1>1 DEF GateTypeOK
  <1>3. \A k \in Keys : record[k] # None => record[k] \in Requests /\ record[k] # f
    BY <1>1 DEF RecordKnown, GateTypeOK
  <1>4. ASSUME NEW x \in Requests PROVE RequestKnown(x)'
    <2>1. CASE x = f
      BY <1>2, <2>1 DEF RequestKnown
    <2>2. CASE x # f
      <3>1. req'[x] = req[x] /\ RequestKnown(x)
        BY <1>1, <1>2, <2>2
      <3>2. req[x].of # None => req[x].key \in Keys /\ record[req[x].key] = req[x].of
        BY <3>1 DEF RequestKnown
      <3>3. req[x].of # None => req'[req[x].of].intent = req[x].intent
        BY <1>2, <1>3, <3>1, <3>2 DEF RequestKnown
      <3>q. QED BY <3>1, <3>3 DEF RequestKnown, UsedStay
    <2>q. QED BY <2>1, <2>2
  <1>5. ASSUME NEW k \in Keys PROVE RecordKnown(k)'
    BY <1>1, <1>2, <1>3 DEF RecordKnown
  <1>q. QED BY <1>4, <1>5 DEF ServerKnown

LEMMA BeginInv == ASSUME GateIInv, NEW i \in Intents, Begin(i) PROVE GateIInv'
  <1> DEFINE f == FreshRequest
             k == KeyFor(i)
             q == [NoRequest EXCEPT !.at = "wire", !.client = "waiting", !.intent = i,
                                    !.key = KeyFor(i),
                                    !.session = IF TokenExpired THEN None ELSE holder]
  <1>1. /\ req' = [req EXCEPT ![f] = q]
        /\ UNCHANGED <<kind, view, session, guests, record, mishaps>>
    BY DEF Begin
  <1>2. f \in Requests /\ req[f].at = "new"
    BY DEF Begin, FreshRequest
  <1>3. SlotOf[i] \in Slots /\ GateTypeOK
    BY GateAssumption DEF GateIInv
  <1>4. /\ k \in Keys
        /\ IF pending[SlotOf[i]] # None THEN k = pending[SlotOf[i]] ELSE why[k] = "unused"
    <2>1. pending[SlotOf[i]] = None => FreshKey \in Keys /\ why[FreshKey] = "unused"
      BY DEF Begin, FreshKey
    <2>q. QED BY <1>3, <2>1 DEF KeyFor, GateTypeOK
  <1>5. NoRequest \in Request /\ NoRequest.of = None /\ NoRequest.answer = "none"
    BY DEF NoRequest, Request, Answers
  <1>6. /\ q \in Request /\ q.at = "wire" /\ q.intent = i /\ q.key = k /\ q.of = None
        /\ q.answer = "none"
    <2>1. (IF TokenExpired THEN None ELSE holder) \in Sessions \cup {None}
      BY <1>3 DEF GateTypeOK
    <2>2. k = KeyFor(i)
      OBVIOUS
    <2>q. QED BY <1>4, <1>5, <2>1, <2>2 DEF Request
  <1> HIDE DEF f, k, q
  <1>7. req' \in [Requests -> Request] /\ \A r \in Requests : req'[r] = IF r = f THEN q ELSE req[r]
    BY <1>1, <1>2, <1>3, <1>6 DEF GateTypeOK
  <1>8. ClientKnown' /\ UsedStay /\ StorageTyped /\ why'[k] # "unused"
        /\ holder' \in {holder, None} /\ view = "home"
    <2>1. CASE TokenExpired
      <3>1. /\ holder' = None /\ pending' = NoPending /\ view = "home"
            /\ why' = [Forgotten("unauthorized") EXCEPT ![k] = "unauthorized"]
        BY <2>1 DEF Begin, TokenExpired, k
      <3>2. ClientKnown' /\ UsedStay /\ StorageTyped
        BY <1>2, <1>4, <1>6, <1>7, <3>1, StorageDropped
      <3>3. why'[k] = "unauthorized"
        BY <1>4, <3>1 DEF Forgotten
      <3>q. QED BY <3>1, <3>2, <3>3
    <2>2. CASE ~TokenExpired
      <3>1. /\ pending' = [pending EXCEPT ![SlotOf[i]] = k]
            /\ why' = [why EXCEPT ![k] = "kept"] /\ holder' = holder /\ view = "home"
        BY <2>2 DEF Begin, k
      <3>2. ClientKnown' /\ UsedStay /\ StorageTyped
        BY <1>2, <1>4, <1>6, <1>7, <3>1, StorageTaken
      <3>3. why'[k] = "kept"
        BY <1>3, <1>4, <3>1 DEF GateTypeOK
      <3>q. QED BY <3>1, <3>2, <3>3
    <2>q. QED BY <2>1, <2>2
  <1>9. ServerKnown'
    BY <1>1, <1>2, <1>4, <1>6, <1>8, NewRequestKnown
  <1>10. GateTypeOK'
    BY <1>1, <1>3, <1>7, <1>8 DEF GateTypeOK, StorageTyped
  <1>11. HolderKnown'
    BY <1>1, <1>8 DEF GateIInv, HolderKnown, SignedOutIsRevoked, Live
  <1>q. QED BY <1>8, <1>9, <1>10, <1>11 DEF GateIInv

------------------------------------------------------------------------------
(* The theorems.                                                           *)

LEMMA GateStepInv == GateIInv /\ [GateNext]_gateVars => GateIInv'
  <1> SUFFICES ASSUME GateIInv, [GateNext]_gateVars PROVE GateIInv'
    OBVIOUS
  <1>1. CASE UNCHANGED gateVars
    <2>1. UNCHANGED <<kind, view, holder, pending, why, session, guests, req, record,
                      mishaps>>
      BY <1>1 DEF gateVars, clientVars
    <2>2. SameRequests /\ ClientKnown' /\ UsedStay /\ ServerKnown' /\ HolderKnown'
      BY <2>1, RequestsStay, StorageKept, HolderStays
    <2>3. GateTypeOK'
      BY <2>1 DEF GateIInv, GateTypeOK
    <2>q. QED BY <2>2, <2>3 DEF GateIInv
  <1>2. CASE SignIn \/ SignOut \/ ServerStops
    BY <1>2, SignInInv, SignOutInv, ServerStopsInv
  <1>3. CASE \E s \in Sessions : Expire(s)
    BY <1>3, ExpireInv
  <1>4. CASE \E closed \in BOOLEAN : Reopen(closed)
    BY <1>4, ReopenInv
  <1>5. CASE \E i \in Intents : Begin(i)
    BY <1>5, BeginInv
  <1>6. ASSUME NEW r \in Requests,
               ServerStep(r) \/ GiveUp(r) \/ ReceiveMini(r) \/ ReceiveWeb(r)
        PROVE  GateIInv'
    BY <1>6, ArriveInv, LockInv, ReplayInv, CommitInv, AbortInv, GiveUpInv,
       ReceiveMiniInv, ReceiveWebInv DEF ServerStep
  <1>7. CASE \E e \in Slots : Age(e)
    BY <1>7, AgeInv
  <1>q. QED BY <1>1, <1>2, <1>3, <1>4, <1>5, <1>6, <1>7 DEF GateNext

LEMMA GateInvAlways == GateSpec => []GateIInv
  BY GateInitInv, GateStepInv, PTL DEF GateSpec

\* The state is always one of the modelled ones, a write commits once for
\* each key (domain/idempotency.ts:17), and the key of a write that was not
\* answered is the one the next attempt sends (lib/idempotency.ts:46).
THEOREM GateSafeAlways == GateSpec => []GateSafe
  BY GateInvAlways, GateInvImplies, PTL

\* A client that was told that it is signed out, or threw its token away,
\* holds nothing that opens the account, for any sign-ins, requests and losses
\* (lib/api.ts:76, pages/login/index.vue:26).
THEOREM SignedOutIsRevokedAlways == GateSpec => []SignedOutIsRevoked
  BY GateInvAlways, GateInvImplies, PTL

------------------------------------------------------------------------------
(* The gate implements EffectOnce.                                         *)

\* A step that stores no record and tells nobody is a stutter.
Quiet(r) ==
    /\ req'[r].intent = req[r].intent \/ req[r].at = "new"
    /\ LET told(q) == q.client = "answered" /\ q.answer = "ok" IN
       /\ told(req'[r]) <=> told(req[r])
       /\ told(req[r]) => req'[r].key = req[r].key /\ req'[r].intent = req[r].intent

LEMMA QuietStutters ==
    ASSUME GateIInv, UNCHANGED record, \A r \in Requests : Quiet(r)
    PROVE  UNCHANGED <<Effect, Told>>
  <1>1. \A k \in Keys : record[k] # None => record[k] \in Requests /\ req[record[k]].at = "over"
    BY DEF GateIInv, GateTypeOK, ServerKnown, RecordKnown
  <1>2. \A k \in Keys : record[k] # None => req'[record[k]].intent = req[record[k]].intent
    BY <1>1 DEF Quiet
  <1>3. Effect' = Effect
    BY <1>2 DEF Effect
  <1>4. Told' = Told
    BY DEF Quiet, Told
  <1>q. QED BY <1>3, <1>4

\* A step that changes one request by itself is quiet unless it tells.
LEMMA OneQuiet ==
    ASSUME GateIInv, NEW r \in Requests, NEW q, req' = [req EXCEPT ![r] = q],
               q.intent = req[r].intent \/ req[r].at = "new",
               q.client # "answered" \/ q.answer # "ok",
               req[r].client # "answered" \/ req[r].answer # "ok"
    PROVE  \A x \in Requests : Quiet(x)
  <1>1. \A x \in Requests : req'[x] = IF x = r THEN q ELSE req[x]
    BY DEF GateIInv, GateTypeOK
  <1>q. QED BY <1>1 DEF Quiet

\* A write commits: its effect is applied.
LEMMA CommitApplies ==
    ASSUME GateIInv, NEW r \in Requests, Commit(r)
    PROVE  Once!Next
  <1> DEFINE q == Ended(req[r], "ok", r)
  <1>1. /\ req[r].at = "locked" /\ record[req[r].key] = None
        /\ req' = [req EXCEPT ![r] = q]
        /\ record' = [record EXCEPT ![req[r].key] = r]
    BY RequestFacts DEF Commit
  <1>2. GateTypeOK /\ req[r] \in Request /\ RequestKnown(r) /\ "ok" \in Answers
            /\ None \notin Requests /\ \A k \in Keys : RecordKnown(k)
    BY RequestFacts, GateAssumption DEF Answers, GateIInv, ServerKnown
  <1>3. q.intent = req[r].intent /\ q.client = req[r].client /\ q.key = req[r].key
    BY <1>2, EndedIs
  <1>4. \A x \in Requests : req'[x] = IF x = r THEN q ELSE req[x]
    BY <1>1, <1>2 DEF GateTypeOK
  <1>5. req[r].key \in Keys /\ req[r].intent \in Intents
    BY <1>1, <1>2 DEF RequestKnown
  <1>6. \A k \in Keys : record'[k] = IF k = req[r].key THEN r ELSE record[k]
    BY <1>1, <1>2 DEF GateTypeOK
  <1>7. \A k \in Keys : record[k] # None => record[k] \in Requests
    BY <1>2 DEF GateTypeOK
  <1>8. Effect' = [Effect EXCEPT ![req[r].key] = req[r].intent]
    <2> HIDE DEF q
    <2>1. \A x \in Requests : req'[x].intent = req[x].intent
      BY <1>3, <1>4
    <2>2. ASSUME NEW k \in Keys
          PROVE  (IF record'[k] = None THEN None ELSE req'[record'[k]].intent)
                   = IF k = req[r].key THEN req[r].intent ELSE Effect[k]
      <3>1. CASE k = req[r].key
        BY <1>2, <1>5, <1>6, <2>1, <3>1
      <3>2. CASE k # req[r].key
        BY <1>6, <1>7, <2>1, <3>2 DEF Effect
      <3>q. QED BY <3>1, <3>2
    <2>3. Effect' = [k \in Keys |-> IF k = req[r].key THEN req[r].intent ELSE Effect[k]]
      BY <2>2 DEF Effect
    <2>4. Effect = [k \in Keys |-> Effect[k]]
      BY DEF Effect
    <2>q. QED BY <1>5, <2>3, <2>4
  <1>9. Effect[req[r].key] = None
    BY <1>1, <1>5 DEF Effect
  <1>10. Told' = Told
    <2>1. req[r].answer = "none"
      BY <1>1, <1>2 DEF RequestKnown
    <2>2. req[r].client # "answered" \/ req[r].answer # "ok"
      BY <2>1
    <2>3. q.client # "answered" \/ q.answer # "ok"
      BY <1>2 DEF Ended, Request
    <2> HIDE DEF q
    <2>4. \A x \in Requests :
            /\ req'[x].client = "answered" /\ req'[x].answer = "ok"
                  <=> req[x].client = "answered" /\ req[x].answer = "ok"
            /\ req'[x].key = req[x].key /\ req'[x].intent = req[x].intent
      BY <1>3, <1>4, <2>2, <2>3
    <2>q. QED BY <2>4 DEF Told
  <1>q. QED BY <1>5, <1>8, <1>9, <1>10 DEF Once!Next, Once!Apply

\* A client takes an answer: it is told of a write that happened.
LEMMA AnswerTells ==
    ASSUME GateIInv, NEW r \in Requests, Answered(r)
    PROVE  Once!Next \/ UNCHANGED <<Effect, Told>>
  <1> DEFINE q == [req[r] EXCEPT !.client = "answered",
                                 !.answer = IF req[r].answer = "ok" THEN "ok" ELSE "none"]
  <1>1. req' = [req EXCEPT ![r] = q] /\ req[r].client = "waiting" /\ UNCHANGED record
        /\ req[r].answer # "none"
    BY DEF Answered
  <1>2. req[r] \in Request /\ RequestKnown(r) /\ req \in [Requests -> Request] /\ GateTypeOK
    BY RequestFacts DEF GateIInv
  <1>3. q.intent = req[r].intent /\ q.key = req[r].key /\ q.client = "answered"
        /\ q.answer = IF req[r].answer = "ok" THEN "ok" ELSE "none"
    BY <1>2 DEF Request
  <1> HIDE DEF q
  <1>4. CASE req[r].answer # "ok"
    <2>1. \A x \in Requests : Quiet(x)
      BY <1>1, <1>3, <1>4, OneQuiet
    <2>q. QED BY <1>1, <2>1, QuietStutters
  <1>5. CASE req[r].answer = "ok"
    <2>1. req[r].of # None /\ req[r].key \in Keys /\ req[r].intent \in Intents
          /\ record[req[r].key] # None /\ req[record[req[r].key]].intent = req[r].intent
      BY <1>1, <1>2, <1>5 DEF RequestKnown
    <2>2. Effect[req[r].key] = req[r].intent
      BY <2>1 DEF Effect
    <2>3. \A x \in Requests : req'[x] = IF x = r THEN q ELSE req[x]
      BY <1>1, <1>2
    <2>4. Effect' = Effect
      <3>1. \A x \in Requests : req'[x].intent = req[x].intent
        BY <1>3, <2>3
      <3>2. \A k \in Keys : record[k] # None => record[k] \in Requests
        BY <1>2 DEF GateTypeOK
      <3>q. QED BY <1>1, <3>1, <3>2 DEF Effect
    <2>5. Told' = Told \cup {<<req[r].key, req[r].intent>>}
      BY <1>1, <1>3, <1>5, <2>3 DEF Told
    <2>q. QED BY <2>1, <2>2, <2>4, <2>5 DEF Once!Next, Once!Tell
  <1>q. QED BY <1>4, <1>5

\* Everything else the server does is a stutter.
LEMMA ServerStutters ==
    ASSUME GateIInv, NEW r \in Requests, Arrive(r) \/ Lock(r) \/ Replay(r) \/ Abort(r)
    PROVE  UNCHANGED <<Effect, Told>>
  <1>0. /\ req[r] \in Request /\ UNCHANGED record
        /\ req[r].answer = "none"
    BY RequestFacts DEF Arrive, Lock, Replay, Abort, RequestKnown
  <1>1. PICK q : /\ req' = [req EXCEPT ![r] = q]
                 /\ q.intent = req[r].intent
                 /\ q.client # "answered" \/ q.answer # "ok"
    <2>1. CASE Arrive(r)
      <3> DEFINE q == IF Admitted(r) THEN [req[r] EXCEPT !.at = "inside", !.session = None]
                                     ELSE Ended(req[r], IF Known(r) THEN "refused"
                                                        ELSE "unauthorized", None)
      <3>1. req' = [req EXCEPT ![r] = q]
        BY <2>1 DEF Arrive
      <3>2. q.intent = req[r].intent /\ (q.client # "answered" \/ q.answer # "ok")
        BY <1>0 DEF Ended, Request
      <3>q. QED BY <3>1, <3>2
    <2>2. CASE Lock(r)
      <3> DEFINE q == [req[r] EXCEPT !.at = "locked"]
      <3>1. req' = [req EXCEPT ![r] = q]
        BY <2>2, RequestFacts DEF Lock
      <3>2. q.intent = req[r].intent /\ (q.client # "answered" \/ q.answer # "ok")
        BY <1>0 DEF Request
      <3>q. QED BY <3>1, <3>2
    <2>3. CASE Replay(r)
      <3> DEFINE q == IF SamePayload(r) THEN Ended(req[r], "ok", record[req[r].key])
                                        ELSE Ended(req[r], "refused", None)
      <3>1. req' = [req EXCEPT ![r] = q]
        BY <2>3 DEF Replay
      <3>2. q.intent = req[r].intent /\ (q.client # "answered" \/ q.answer # "ok")
        BY <1>0 DEF Ended, Request
      <3>q. QED BY <3>1, <3>2
    <2>4. CASE Abort(r)
      <3>1. PICK a \in {"refused", "failed"} : req' = [req EXCEPT ![r] = Ended(req[r], a, None)]
        BY <2>4 DEF Abort
      <3>2. Ended(req[r], a, None).intent = req[r].intent
            /\ Ended(req[r], a, None).answer # "ok"
        BY <1>0 DEF Ended, Request
      <3>q. QED BY <3>1, <3>2
    <2>q. QED BY <2>1, <2>2, <2>3, <2>4
  <1>2. \A x \in Requests : Quiet(x)
    BY <1>0, <1>1, OneQuiet
  <1>q. QED BY <1>0, <1>2, QuietStutters

\* So is everything that happens to requests that nobody has been told of.
LEMMA CutStutters ==
    ASSUME GateIInv, UNCHANGED record,
               \A r \in Requests :
                   \/ req'[r] = req[r]
                   \/ /\ req'[r].intent = req[r].intent
                      /\ req[r].client # "answered" \/ req[r].answer # "ok"
                      /\ req'[r].client # "answered"
    PROVE  UNCHANGED <<Effect, Told>>
  <1>1. \A r \in Requests : Quiet(r)
    BY DEF Quiet
  <1>q. QED BY <1>1, QuietStutters

LEMMA ClientStutters ==
    ASSUME GateIInv, \/ ServerStops
                     \/ \E closed \in BOOLEAN : Reopen(closed)
                     \/ \E r \in Requests : GiveUp(r)
    PROVE  UNCHANGED <<Effect, Told>>
  <1>1. CASE ServerStops
    <2>1. UNCHANGED record /\ \A r \in Requests :
            req'[r] = IF req[r].at \in {"inside", "locked"} THEN Cut(req[r]) ELSE req[r]
      BY <1>1 DEF ServerStops
    <2>2. ASSUME NEW r \in Requests, req[r].at \in {"inside", "locked"}
          PROVE  /\ Cut(req[r]).intent = req[r].intent
                 /\ req[r].answer = "none"
                 /\ Cut(req[r]).answer = "none"
      BY <2>2, RequestFacts DEF Cut, Request, RequestKnown
    <2>3. \A r \in Requests : Quiet(r)
      BY <2>1, <2>2 DEF Quiet
    <2>q. QED BY <2>1, <2>3, QuietStutters
  <1>2. ASSUME NEW closed \in BOOLEAN, Reopen(closed)
        PROVE  UNCHANGED <<Effect, Told>>
    <2>1. UNCHANGED record /\ \A r \in Requests :
            req'[r] = IF req[r].client = "waiting"
                      THEN [req[r] EXCEPT !.client = "gone", !.answer = "none"] ELSE req[r]
      BY <1>2 DEF Reopen
    <2>2. \A r \in Requests : req[r] \in Request
      BY RequestFacts
    <2>q. QED BY <2>1, <2>2, CutStutters DEF Request
  <1>3. ASSUME NEW r \in Requests, GiveUp(r)
        PROVE  UNCHANGED <<Effect, Told>>
    <2> DEFINE q == [req[r] EXCEPT !.client = "gone", !.answer = "none"]
    <2>1. req' = [req EXCEPT ![r] = q] /\ UNCHANGED record /\ req[r].client = "waiting"
      BY <1>3 DEF GiveUp
    <2>2. q.intent = req[r].intent /\ q.client = "gone"
      BY RequestFacts DEF Request
    <2> HIDE DEF q
    <2>3. \A x \in Requests : Quiet(x)
      BY <2>1, <2>2, OneQuiet
    <2>q. QED BY <2>1, <2>3, QuietStutters
  <1>q. QED BY <1>1, <1>2, <1>3

LEMMA BeginStutters ==
    ASSUME GateIInv, NEW i \in Intents, Begin(i)
    PROVE  UNCHANGED <<Effect, Told>>
  <1> DEFINE q == [NoRequest EXCEPT !.at = "wire", !.client = "waiting", !.intent = i,
                                    !.key = KeyFor(i),
                                    !.session = IF TokenExpired THEN None ELSE holder]
  <1>1. req' = [req EXCEPT ![FreshRequest] = q] /\ UNCHANGED record
    BY DEF Begin
  <1>2. FreshRequest \in Requests /\ req[FreshRequest].at = "new"
    BY DEF Begin, FreshRequest
  <1>3. NoRequest \in Request
    BY DEF NoRequest, Request, Answers
  <1>4. q.client = "waiting"
    BY <1>3 DEF Request
  <1>5. req[FreshRequest].client = "idle"
    BY <1>2, RequestFacts DEF RequestKnown
  <1> HIDE DEF q
  <1>6. \A x \in Requests : Quiet(x)
    BY <1>1, <1>2, <1>4, <1>5, OneQuiet
  <1>q. QED BY <1>1, <1>6, QuietStutters

LEMMA GateStepRefines == GateIInv /\ [GateNext]_gateVars => [Once!Next]_<<Effect, Told>>
  <1> SUFFICES ASSUME GateIInv, [GateNext]_gateVars PROVE Once!Next \/ UNCHANGED <<
                                                                                   Effect,
                                                                                   Told>>
    OBVIOUS
  <1>1. CASE UNCHANGED <<req, record>>
    BY <1>1 DEF Effect, Told
  <1>2. CASE ServerStops \/ \E closed \in BOOLEAN : Reopen(closed)
    BY <1>2, ClientStutters
  <1>3. CASE \E i \in Intents : Begin(i)
    BY <1>3, BeginStutters
  <1>4. ASSUME NEW r \in Requests,
               ServerStep(r) \/ GiveUp(r) \/ ReceiveMini(r) \/ ReceiveWeb(r)
        PROVE  Once!Next \/ UNCHANGED <<Effect, Told>>
    <2>1. CASE Commit(r)
      BY <2>1, CommitApplies
    <2>2. CASE Arrive(r) \/ Lock(r) \/ Replay(r) \/ Abort(r)
      BY <2>2, ServerStutters
    <2>3. CASE GiveUp(r)
      BY <2>3, ClientStutters
    <2>4. CASE ReceiveMini(r) \/ ReceiveWeb(r)
      BY <2>4, AnswerTells DEF ReceiveMini, ReceiveWeb
    <2>q. QED BY <1>4, <2>1, <2>2, <2>3, <2>4 DEF ServerStep
  <1>5. CASE SignIn \/ SignOut \/ (\E s \in Sessions : Expire(s)) \/ (\E e \in Slots : Age(e))
             \/ UNCHANGED gateVars
    <2>1. UNCHANGED <<req, record>>
      BY <1>5 DEF SignIn, SignOut, Expire, Age, gateVars
    <2>q. QED BY <1>1, <2>1
  <1>q. QED BY <1>2, <1>3, <1>4, <1>5 DEF GateNext

LEMMA InitRefines == GateInit => Once!Init
  <1> SUFFICES ASSUME GateInit PROVE Once!Init
    OBVIOUS
  <1>1. Effect = [k \in Keys |-> None]
    BY DEF GateInit, Effect
  <1>2. Told = {}
    BY DEF GateInit, Told, NoRequest
  <1>q. QED BY <1>1, <1>2 DEF Once!Init

\* The write under a key happens once and for one payload, and a client is
\* told only of writes that happened (domain/idempotency.ts:9).
THEOREM OnceRefined == GateSpec => ImplementsOnce
  <1>1. GateInit => Once!Init
    BY InitRefines
  <1>2. GateIInv /\ [GateNext]_gateVars => [Once!Next]_<<Effect, Told>>
    BY GateStepRefines
  <1>q. QED BY <1>1, <1>2, GateInvAlways, PTL DEF GateSpec, ImplementsOnce, Once!Spec

------------------------------------------------------------------------------
(***************************************************************************)
(* The simulated order: the inductive invariant, and every step of it.     *)
(***************************************************************************)

\* A request that is under way or was completed keeps every other one out.
Claims(s) == Active(s) \/ s = "completed"

OneClaim ==
    \A p, q \in Previews : Claims(cancel[p]) /\ Claims(cancel[q]) => p = q

\* Requests come from accepted previews of a paid order.
RequestsFollowPreviews ==
    \A p \in Previews :
        /\ preview[p].action = "cancel" =>
              /\ order.payment = "paid"
              /\ preview[p].rule \in Rules
              /\ RuleApplies(preview[p].rule)
        /\ cancel[p] # "none" =>
              preview[p].state = "accepted" /\ preview[p].action = "cancel"
        /\ cancel[p] \in {"delayed", "approved"} => preview[p].rule = "delay"

\* The states of a request whose batches exist.
Planned(s) == s \in {"refund_processing", "pending_review", "completed"}

\* A plan exists from its scheduling on, with exactly the batches of its rule,
\* each with a positive amount.
PlansFollowRequests ==
    \A p \in Previews :
        /\ HasPlan(p) <=> Planned(cancel[p])
        /\ HasPlan(p) => preview[p].rule # "reject"
        /\ \A n \in Numbers :
              /\ refundOp[p][n] = "open" <=> batch[p][n] = "pending"
              /\ HasPlan(p) =>
                    (batch[p][n] # "none" <=>
                        n \in BatchNumbers(preview[p].rule))
              /\ batch[p][n] # "none" => BatchAmount(preview[p].rule, n) > 0

IInv ==
    /\ TypeOK
    /\ RuleApplies(rule.name)
    /\ OneClaim
    /\ RequestsFollowPreviews
    /\ PlansFollowRequests
    /\ BudgetFollowsOrder
    /\ RefundsAgree
    /\ CompletedWhenReturned
    /\ CancelledForAReason
    /\ QuestionsHaveTasks
    /\ ArchivedWithoutPromise

------------------------------------------------------------------------------
(* Arithmetic of the rules.                                                *)

LEMMA HalfFacts ==
    ASSUME NEW k \in Nat
    PROVE  k \div 2 \in Nat /\ k \div 2 <= k /\ k - k \div 2 \in Nat
  OBVIOUS

\* The batches of a rule share its refund without loss.
LEMMA RuleFacts ==
    ASSUME NEW r \in Rules, RuleApplies(r)
    PROVE  /\ RefundOf(r) \in Nat
           /\ RefundOf(r) <= Amount
           /\ \A n \in Numbers : BatchAmount(r, n) \in Nat
           /\ r = "two_batches" =>
                 BatchAmount(r, 1) + BatchAmount(r, 2) = RefundOf(r)
           /\ r # "two_batches" => BatchAmount(r, 1) = RefundOf(r)
           /\ BatchNumbers(r) = IF r = "two_batches" THEN {1, 2}
                                ELSE IF r = "reject" THEN {} ELSE {1}
  <1>1. RefundOf(r) \in Nat /\ RefundOf(r) <= Amount
    BY OrderAssumption DEF Rules, RuleApplies, TakesFee, RefundOf, FeeOf
  <1>2. /\ RefundOf(r) \div 2 \in Nat
        /\ RefundOf(r) - RefundOf(r) \div 2 \in Nat
    BY <1>1, HalfFacts
  <1>3. /\ r # "two_batches" => \A n \in Numbers : BatchAmount(r, n) = RefundOf(r)
        /\ r = "two_batches" =>
              /\ BatchAmount(r, 1) = RefundOf(r) \div 2
              /\ BatchAmount(r, 2) = RefundOf(r) - RefundOf(r) \div 2
    BY DEF BatchAmount, Numbers
  <1>4. BatchNumbers(r) = IF r = "two_batches" THEN {1, 2}
                          ELSE IF r = "reject" THEN {} ELSE {1}
    BY DEF BatchNumbers
  <1>q. QED BY <1>1, <1>2, <1>3, <1>4 DEF Numbers

\* What a plan returned so far: never more than its rule grants, and all of it
\* exactly when no batch is left.
LEMMA ReturnedFacts ==
    ASSUME IInv, NEW p \in Previews, HasPlan(p)
    PROVE  /\ preview[p].rule \in Rules
           /\ RuleApplies(preview[p].rule)
           /\ RefundOf(preview[p].rule) \in Nat \ {0}
           /\ Returned(p, batch[p]) \in Nat
           /\ Returned(p, batch[p]) = RefundOf(preview[p].rule) =>
                 \A n \in Numbers : batch[p][n] \in {"none", "succeeded"}
           /\ (\A n \in Numbers : batch[p][n] # "succeeded") =>
                 Returned(p, batch[p]) = 0
  <1>1. cancel[p] # "none"
    BY DEF IInv, PlansFollowRequests, Planned
  <1>2. preview[p].rule \in Rules /\ RuleApplies(preview[p].rule)
    BY <1>1 DEF IInv, RequestsFollowPreviews
  <1> DEFINE r == preview[p].rule
  <1>3. /\ RefundOf(r) \in Nat
        /\ BatchAmount(r, 1) \in Nat /\ BatchAmount(r, 2) \in Nat
        /\ r = "two_batches" =>
              BatchAmount(r, 1) + BatchAmount(r, 2) = RefundOf(r)
        /\ r # "two_batches" => BatchAmount(r, 1) = RefundOf(r)
        /\ BatchNumbers(r) = IF r = "two_batches" THEN {1, 2}
                             ELSE IF r = "reject" THEN {} ELSE {1}
    BY <1>2, RuleFacts DEF Numbers
  <1>4. /\ batch[p][1] # "none" <=> 1 \in BatchNumbers(r)
        /\ batch[p][2] # "none" <=> 2 \in BatchNumbers(r)
        /\ batch[p][1] # "none" => BatchAmount(r, 1) > 0
        /\ batch[p][2] # "none" => BatchAmount(r, 2) > 0
        /\ r # "reject"
    BY DEF IInv, PlansFollowRequests, Numbers
  <1>5. Returned(p, batch[p]) =
           (IF batch[p][1] = "succeeded" THEN BatchAmount(r, 1) ELSE 0)
           + (IF batch[p][2] = "succeeded" THEN BatchAmount(r, 2) ELSE 0)
    BY DEF Returned
  <1> HIDE DEF r
  <1>6. Returned(p, batch[p]) \in Nat /\ RefundOf(r) \in Nat \ {0}
    BY <1>3, <1>4, <1>5
  <1>7. (\A n \in Numbers : batch[p][n] # "succeeded") =>
           Returned(p, batch[p]) = 0
    BY <1>5 DEF Numbers
  <1>8. Returned(p, batch[p]) = RefundOf(r) =>
           \A n \in Numbers : batch[p][n] \in {"none", "succeeded"}
    BY <1>3, <1>4, <1>5 DEF Numbers
  <1>q. QED BY <1>2, <1>6, <1>7, <1>8 DEF r

------------------------------------------------------------------------------
(* The initial state, and the steps that touch neither money nor requests. *)

LEMMA InitIInv == Init => IInv
  <1> SUFFICES ASSUME Init PROVE IInv
    OBVIOUS
  <1> USE OrderAssumption DEF Init, Numbers
  <1>1. TypeOK
    <2>1. MoneyType /\ RequestType
      BY DEF MoneyType, RequestType, OperationStates
    <2>2. ScopeType
      BY DEF ScopeType, Outcomes
    <2>3. preview \in [Previews -> PreviewRecord]
      BY DEF PreviewRecord, NoPreview
    <2>q. QED BY <2>1, <2>2, <2>3 DEF TypeOK, OperationStates
  <1>2. \A p \in Previews : ~HasPlan(p) /\ cancel[p] = "none"
    BY DEF HasPlan
  <1>3. OneClaim /\ CompletedWhenReturned
    BY <1>2 DEF OneClaim, Claims, Active, CompletedWhenReturned
  <1>4. RequestsFollowPreviews
    BY DEF RequestsFollowPreviews, NoPreview
  <1>5. PlansFollowRequests
    BY <1>2 DEF PlansFollowRequests, Planned
  <1>6. RefundsAgree
    BY <1>2 DEF RefundsAgree
  <1>7. /\ RuleApplies(rule.name)
        /\ BudgetFollowsOrder
        /\ CancelledForAReason
        /\ QuestionsHaveTasks
        /\ ArchivedWithoutPromise
    BY DEF BudgetFollowsOrder, CancelledForAReason, QuestionsHaveTasks,
           ArchivedWithoutPromise
  <1>q. QED BY <1>1, <1>3, <1>4, <1>5, <1>6, <1>7 DEF IInv

\* Plans survive a step that leaves the batches and the sums alone and keeps
\* every request on its side of the scheduling.
LEMMA PlansKept ==
    ASSUME IInv, UNCHANGED <<batch, refundOp, refundPosted>>,
           order'.refunded = order.refunded,
           \A p \in Previews :
              /\ cancel[p] # "none" => preview'[p].rule = preview[p].rule
              /\ Planned(cancel'[p]) <=> Planned(cancel[p])
              /\ cancel'[p] = "completed" <=> cancel[p] = "completed"
    PROVE  PlansFollowRequests' /\ RefundsAgree' /\ CompletedWhenReturned'
  <1> USE DEF IInv
  <1>1. \A p \in Previews :
           /\ HasPlan(p)' <=> HasPlan(p)
           /\ HasPlan(p) => preview'[p].rule = preview[p].rule
    BY DEF HasPlan, PlansFollowRequests, Planned
  <1>2. \A p \in Previews :
           HasPlan(p) => Returned(p, batch[p])' = Returned(p, batch[p])
    BY <1>1 DEF Returned
  <1>3. PlansFollowRequests'
    BY <1>1 DEF PlansFollowRequests, HasPlan, Numbers
  <1>4. RefundsAgree'
    BY <1>1, <1>2 DEF RefundsAgree
  <1>5. CompletedWhenReturned'
    BY <1>1, <1>2 DEF CompletedWhenReturned, PlansFollowRequests, Planned
  <1>q. QED BY <1>3, <1>4, <1>5

\* A step that leaves money and requests alone keeps the invariant, when it
\* leaves the previews of existing requests alone too.
LEMMA QuietStep ==
    ASSUME IInv, TypeOK', UNCHANGED <<moneyVars, requestVars>>,
           RuleApplies(rule'.name), ArchivedWithoutPromise',
           \A p \in Previews :
              /\ cancel[p] # "none" => preview'[p] = preview[p]
              /\ preview'[p].action = "cancel" =>
                    /\ order.payment = "paid"
                    /\ preview'[p].rule \in Rules
                    /\ RuleApplies(preview'[p].rule)
    PROVE  IInv'
  <1> USE DEF IInv, moneyVars, requestVars
  <1>1. PlansFollowRequests' /\ RefundsAgree' /\ CompletedWhenReturned'
    BY PlansKept
  <1>2. OneClaim' /\ RequestsFollowPreviews'
    BY DEF OneClaim, Claims, Active, RequestsFollowPreviews
  <1>3. BudgetFollowsOrder' /\ CancelledForAReason' /\ QuestionsHaveTasks'
    BY DEF BudgetFollowsOrder, CancelledForAReason, QuestionsHaveTasks
  <1>q. QED BY <1>1, <1>2, <1>3

\* The types of what such a step leaves alone.
LEMMA QuietTypes ==
    ASSUME TypeOK, UNCHANGED <<moneyVars, requestVars>>
    PROVE  MoneyType' /\ RequestType'
  BY DEF TypeOK, MoneyType, RequestType, moneyVars, requestVars

LEMMA ScopeTypes ==
    ASSUME TypeOK, UNCHANGED scopeVars
    PROVE  ScopeType'
  BY DEF TypeOK, ScopeType, scopeVars

LEMMA PrepareHandoffStep == IInv /\ PrepareHandoff => IInv'
  <1> SUFFICES ASSUME IInv, PrepareHandoff PROVE IInv'
    OBVIOUS
  <1>1. TypeOK'
    BY QuietTypes, ScopeTypes DEF IInv, TypeOK, PrepareHandoff, OperationStates
  <1>2. ArchivedWithoutPromise'
    BY DEF IInv, ArchivedWithoutPromise, PrepareHandoff, moneyVars, scopeVars
  <1>q. QED
    BY <1>1, <1>2, QuietStep
    DEF PrepareHandoff, scopeVars, IInv, RequestsFollowPreviews

LEMMA CreatePreviewStep ==
    ASSUME IInv, NEW p \in Previews, CreatePreview(p)
    PROVE  IInv'
  <1>1. PICK action \in {"close", "cancel"} :
           /\ action = "cancel" => order.payment = "paid" /\ RuleApplies(rule.name)
           /\ action = "close" => order.payment \in {"pending", "unknown"}
           /\ preview' = [preview EXCEPT ![p] =
                 [state |-> "proposed", action |-> action,
                  status |-> order.status, payment |-> order.payment,
                  rule |-> rule.name, version |-> rule.version]]
    BY DEF CreatePreview
  <1>2. TypeOK'
    <2>1. /\ order.status \in {"created", "fulfilling",
                               "cancellation_processing",
                               "cancellation_rejected"}
          /\ order.payment \in {"pending", "paid", "unknown"}
          /\ rule.name \in Rules /\ rule.version \in Nat
      BY DEF IInv, TypeOK, MoneyType, ScopeType, CreatePreview
    <2>2. preview' \in [Previews -> PreviewRecord]
      BY <1>1, <2>1 DEF IInv, TypeOK, PreviewRecord
    <2>q. QED
      BY <2>2, QuietTypes, ScopeTypes DEF IInv, TypeOK, CreatePreview
  <1>3. ArchivedWithoutPromise'
    BY DEF IInv, ArchivedWithoutPromise, CreatePreview, moneyVars, scopeVars
  <1>4. cancel[p] = "none"
    BY DEF IInv, RequestsFollowPreviews, CreatePreview
  <1>5. /\ preview'[p].action = action
        /\ preview'[p].rule = rule.name
        /\ \A q \in Previews : q # p => preview'[q] = preview[q]
    BY <1>1 DEF IInv, TypeOK
  <1>6. rule.name \in Rules
    BY DEF IInv, TypeOK, ScopeType
  <1>7. \A q \in Previews :
           /\ cancel[q] # "none" => preview'[q] = preview[q]
           /\ preview'[q].action = "cancel" =>
                 /\ order.payment = "paid"
                 /\ preview'[q].rule \in Rules
                 /\ RuleApplies(preview'[q].rule)
    BY <1>1, <1>4, <1>5, <1>6 DEF IInv, RequestsFollowPreviews
  <1>q. QED
    BY <1>2, <1>3, <1>7, QuietStep
    DEF CreatePreview, scopeVars, IInv

LEMMA PreviewExpiresStep ==
    ASSUME IInv, NEW p \in Previews, PreviewExpires(p)
    PROVE  IInv'
  <1>1. TypeOK'
    <2>1. preview' \in [Previews -> PreviewRecord]
      BY DEF IInv, TypeOK, PreviewRecord, PreviewExpires
    <2>q. QED
      BY <2>1, QuietTypes, ScopeTypes DEF IInv, TypeOK, PreviewExpires
  <1>2. ArchivedWithoutPromise'
    BY DEF IInv, ArchivedWithoutPromise, PreviewExpires, moneyVars, scopeVars
  <1>3. cancel[p] = "none"
    BY DEF IInv, RequestsFollowPreviews, PreviewExpires
  <1>4. \A q \in Previews :
           /\ q # p => preview'[q] = preview[q]
           /\ preview'[q].action = preview[q].action
           /\ preview'[q].rule = preview[q].rule
    BY DEF IInv, TypeOK, PreviewExpires
  <1>q. QED
    BY <1>1, <1>2, <1>3, <1>4, QuietStep
    DEF PreviewExpires, scopeVars, IInv, RequestsFollowPreviews

LEMMA ConfirmCloseStep ==
    ASSUME IInv, NEW p \in Previews, ConfirmClose(p)
    PROVE  IInv'
  <1> USE DEF ConfirmClose, MayConfirm, Accept
  <1>1. TypeOK'
    <2>1. preview' \in [Previews -> PreviewRecord]
      BY DEF IInv, TypeOK, PreviewRecord
    <2>2. op' \in [pay : OperationStates, close : OperationStates]
      BY DEF IInv, TypeOK, OperationStates
    <2>q. QED
      BY <2>1, <2>2, QuietTypes, ScopeTypes DEF IInv, TypeOK
  <1>2. ArchivedWithoutPromise'
    BY DEF IInv, ArchivedWithoutPromise, moneyVars, scopeVars
  <1>3. cancel[p] = "none"
    BY DEF IInv, RequestsFollowPreviews
  <1>4. \A q \in Previews :
           /\ q # p => preview'[q] = preview[q]
           /\ preview'[q].action = preview[q].action
           /\ preview'[q].rule = preview[q].rule
    BY DEF IInv, TypeOK
  <1>q. QED
    BY <1>1, <1>2, <1>3, <1>4, QuietStep
    DEF scopeVars, IInv, RequestsFollowPreviews

LEMMA ScopeStep ==
    IInv /\ (ChangeRule \/ ToggleAccount \/ MonthEnds \/ ClosePeriod) => IInv'
  <1> SUFFICES ASSUME IInv, ChangeRule \/ ToggleAccount \/ MonthEnds \/ ClosePeriod
               PROVE  IInv'
    OBVIOUS
  <1> USE DEF ChangeRule, ToggleAccount, MonthEnds, ClosePeriod
  <1>1. TypeOK'
    <2>1. UNCHANGED <<moneyVars, requestVars, modes, preview, op>>
      OBVIOUS
    <2>2. rule' \in [name : Rules, version : Nat]
      BY DEF IInv, TypeOK, ScopeType
    <2>3. period' \in [status : {"active", "closed"}, ended : BOOLEAN]
      BY DEF IInv, TypeOK, ScopeType
    <2>4. linked' \in BOOLEAN
      BY DEF IInv, TypeOK, ScopeType
    <2>q. QED BY <2>1, <2>2, <2>3, <2>4, QuietTypes DEF IInv, TypeOK, ScopeType
  <1>2. RuleApplies(rule'.name)
    BY DEF IInv, TypeOK
  <1>3. ArchivedWithoutPromise'
    <2>1. CASE ClosePeriod
      BY <2>1 DEF IInv, TypeOK, MoneyType, ArchivedWithoutPromise,
                  BudgetFollowsOrder, Blocked, moneyVars
    <2>2. CASE ~ClosePeriod
      <3>1. period'.status = period.status
        BY <2>2 DEF IInv, TypeOK, ScopeType
      <3>q. QED BY <2>2, <3>1 DEF IInv, ArchivedWithoutPromise, moneyVars
    <2>q. QED BY <2>1, <2>2
  <1>q. QED
    BY <1>1, <1>2, <1>3, QuietStep DEF IInv, RequestsFollowPreviews

------------------------------------------------------------------------------
(* Payment and close.                                                      *)

\* An order that is not paid has no request and no plan.
LEMMA NoRequestUnpaid ==
    ASSUME IInv, order.payment # "paid"
    PROVE  \A p \in Previews :
              /\ cancel[p] = "none"
              /\ ~HasPlan(p)
              /\ preview[p].action # "cancel"
  BY DEF IInv, RequestsFollowPreviews, PlansFollowRequests, Planned

\* A step of an unpaid order that leaves the requests and the refunds alone.
LEMMA UnpaidStep ==
    ASSUME IInv, TypeOK', order.payment # "paid",
           UNCHANGED <<requestVars, scopeVars, preview, refundPosted>>,
           order'.refunded = order.refunded,
           BudgetFollowsOrder',
           order'.status = "cancelled" <=> order'.payment = "closed",
           order.payment = "closed" => order'.payment = "closed"
    PROVE  IInv'
  <1>1. \A p \in Previews : cancel[p] = "none" /\ preview[p].action # "cancel"
    BY NoRequestUnpaid
  <1>2. PlansFollowRequests' /\ RefundsAgree' /\ CompletedWhenReturned'
    BY PlansKept DEF requestVars
  <1>3. OneClaim' /\ RequestsFollowPreviews' /\ CancelledForAReason'
    BY <1>1 DEF OneClaim, Claims, Active, RequestsFollowPreviews,
                CancelledForAReason, requestVars
  <1>4. QuestionsHaveTasks'
    BY DEF IInv, QuestionsHaveTasks, requestVars
  <1>5. ArchivedWithoutPromise'
    BY DEF IInv, TypeOK, MoneyType, ArchivedWithoutPromise,
           BudgetFollowsOrder, scopeVars
  <1>6. RuleApplies(rule.name)'
    BY DEF IInv, scopeVars
  <1>q. QED BY <1>2, <1>3, <1>4, <1>5, <1>6 DEF IInv

\* A step that only changes the operations keeps the invariant.
LEMMA OperationStep ==
    ASSUME IInv, UNCHANGED <<moneyVars, requestVars, scopeVars, preview>>,
           op' \in [pay : OperationStates, close : OperationStates]
    PROVE  IInv'
  <1>1. TypeOK'
    BY QuietTypes, ScopeTypes DEF IInv, TypeOK
  <1>q. QED
    BY <1>1, QuietStep
    DEF IInv, RequestsFollowPreviews, ArchivedWithoutPromise, scopeVars,
        moneyVars

LEMMA ProcessPaymentStep == IInv /\ ProcessPayment => IInv'
  <1> SUFFICES ASSUME IInv, ProcessPayment PROVE IInv'
    OBVIOUS
  <1>1. op' \in [pay : OperationStates, close : OperationStates]
    BY DEF IInv, TypeOK, ProcessPayment, OperationStates
  <1>2. CASE UNCHANGED moneyVars
    BY <1>1, <1>2, OperationStep DEF ProcessPayment
  <1>3. CASE ~UNCHANGED moneyVars
    <2>0. order.payment = "pending"
      BY <1>3 DEF ProcessPayment
    <2>1. /\ order'.payment = "paid" /\ order'.status = "fulfilling"
             /\ posted' /\ ~posted
             /\ item' = IF item = "committed" THEN "settled" ELSE item
          \/ /\ order'.payment = "unknown" /\ order'.status = order.status
             /\ UNCHANGED <<item, posted>>
      BY <1>3 DEF IInv, TypeOK, MoneyType, ProcessPayment
    <2>2. order'.refunded = order.refunded /\ UNCHANGED refundPosted
      BY <1>3 DEF IInv, TypeOK, MoneyType, ProcessPayment, moneyVars
    <2>3. UNCHANGED <<requestVars, scopeVars, preview>>
      BY DEF ProcessPayment
    <2>4. MoneyType'
      BY <1>3 DEF IInv, TypeOK, MoneyType, ProcessPayment, moneyVars
    <2>5. TypeOK'
      BY <1>1, <2>3, <2>4, ScopeTypes
      DEF IInv, TypeOK, RequestType, requestVars
    <2>6. BudgetFollowsOrder'
      BY <2>0, <2>1 DEF IInv, TypeOK, MoneyType, BudgetFollowsOrder
    <2>7. order.status # "cancelled"
      BY <2>0, NoRequestUnpaid DEF IInv, CancelledForAReason
    <2>q. QED BY <2>0, <2>1, <2>2, <2>3, <2>5, <2>6, <2>7, UnpaidStep
  <1>q. QED BY <1>2, <1>3

LEMMA ProcessCloseStep == IInv /\ ProcessClose => IInv'
  <1> SUFFICES ASSUME IInv, ProcessClose PROVE IInv'
    OBVIOUS
  <1>1. op' \in [pay : OperationStates, close : OperationStates]
    BY DEF IInv, TypeOK, ProcessClose, OperationStates
  <1>2. CASE UNCHANGED moneyVars
    BY <1>1, <1>2, OperationStep DEF ProcessClose
  <1>3. CASE ~UNCHANGED moneyVars
    <2>1. /\ order.payment \in {"pending", "unknown"}
          /\ order'.payment = "closed" /\ order'.status = "cancelled"
          /\ order'.refunded = order.refunded
          /\ item # "settled" /\ ~posted
          /\ item' = IF item = "committed" THEN "cancelled" ELSE item
          /\ UNCHANGED <<posted, refundPosted>>
      BY <1>3 DEF IInv, TypeOK, MoneyType, ProcessClose
    <2>2. UNCHANGED <<requestVars, scopeVars, preview>>
      BY DEF ProcessClose
    <2>3. MoneyType'
      BY <1>3 DEF IInv, TypeOK, MoneyType, ProcessClose
    <2>4. TypeOK'
      BY <1>1, <2>2, <2>3, ScopeTypes
      DEF IInv, TypeOK, RequestType, requestVars
    <2>5. BudgetFollowsOrder'
      BY <2>1 DEF IInv, TypeOK, MoneyType, BudgetFollowsOrder
    <2>q. QED BY <2>1, <2>2, <2>4, <2>5, UnpaidStep
  <1>q. QED BY <1>2, <1>3

------------------------------------------------------------------------------
(* Requests.                                                               *)

\* What a confirmation finds: a paid order nobody asks about and of which
\* nothing was returned.
LEMMA MayCancelFacts ==
    ASSUME IInv, NEW p \in Previews, MayCancel(p)
    PROVE  /\ order.payment = "paid" /\ order.refunded = 0
           /\ preview[p].action = "cancel"
           /\ preview[p].rule \in Rules /\ RuleApplies(preview[p].rule)
           /\ cancel[p] = "none"
           /\ \A q \in Previews : ~Claims(cancel[q]) /\ ~HasPlan(q)
  <1>1. /\ order.payment = "paid" /\ order.refunded = 0
        /\ preview[p].state = "proposed" /\ preview[p].action = "cancel"
        /\ \A q \in Previews : ~Active(cancel[q])
    BY DEF MayCancel, MayConfirm
  <1>2. \A q \in Previews : cancel[q] # "completed"
    BY <1>1, ReturnedFacts DEF IInv, CompletedWhenReturned, RefundsAgree
  <1>3. \A q \in Previews : ~HasPlan(q)
    BY <1>1, <1>2 DEF IInv, PlansFollowRequests, Planned, Active
  <1>q. QED
    BY <1>1, <1>2, <1>3 DEF IInv, RequestsFollowPreviews, Claims

\* Accepting a preview keeps what it showed.
LEMMA AcceptFacts ==
    ASSUME TypeOK, NEW p \in Previews, Accept(p)
    PROVE  /\ preview' \in [Previews -> PreviewRecord]
           /\ preview'[p].state = "accepted"
           /\ \A q \in Previews :
                 /\ q # p => preview'[q] = preview[q]
                 /\ preview'[q].action = preview[q].action
                 /\ preview'[q].rule = preview[q].rule
  BY DEF TypeOK, PreviewRecord, Accept

\* The order after its status changed.
LEMMA StatusFacts ==
    ASSUME TypeOK,
           NEW s \in {"cancellation_processing", "cancellation_rejected",
                      "cancelled"},
           order' = [order EXCEPT !.status = s],
           UNCHANGED <<item, posted, refundPosted>>
    PROVE  /\ MoneyType'
           /\ order'.status = s
           /\ order'.payment = order.payment
           /\ order'.refunded = order.refunded
  BY DEF TypeOK, MoneyType

\* A rejected or delayed request: no plan, another status of the order.
LEMMA UnplannedStep ==
    ASSUME IInv, NEW p \in Previews,
           cancel[p] \in {"none", "delayed"},
           NEW s \in {"delayed", "rejected", "approved"},
           cancel' = [cancel EXCEPT ![p] = s],
           s # "rejected" => \A q \in Previews \ {p} : ~Claims(cancel[q]),
           s # "rejected" => preview[p].rule = "delay",
           order.payment = "paid",
           \A q \in Previews : cancel[q] # "completed",
           preview[p].action = "cancel",
           preview' \in [Previews -> PreviewRecord],
           preview'[p].state = "accepted",
           \A q \in Previews :
              /\ q # p => preview'[q] = preview[q]
              /\ preview'[q].action = preview[q].action
              /\ preview'[q].rule = preview[q].rule,
           NEW t \in {"cancellation_processing", "cancellation_rejected"},
           order' = [order EXCEPT !.status = t],
           NEW o \in OperationStates,
           reviewOp' = [reviewOp EXCEPT ![p] = o],
           NEW f \in {"none", "open", "resolved"},
           followUp' = [followUp EXCEPT ![p] = f],
           s = "delayed" <=> f = "open",
           UNCHANGED <<item, posted, refundPosted, batch, refundOp, recheck,
                       scopeVars, op>>
    PROVE  IInv'
  <1>1. /\ MoneyType'
        /\ order'.status = t
        /\ order'.payment = order.payment
        /\ order'.refunded = order.refunded
    BY StatusFacts DEF IInv
  <1>2. /\ cancel'[p] = s
        /\ followUp'[p] = f
        /\ \A q \in Previews :
              q # p => cancel'[q] = cancel[q] /\ followUp'[q] = followUp[q]
    BY DEF IInv, TypeOK, RequestType
  <1>3. TypeOK'
    <2>1. RequestType'
      BY DEF IInv, TypeOK, RequestType
    <2>q. QED BY <1>1, <2>1, ScopeTypes DEF IInv, TypeOK
  <1>4. PlansFollowRequests' /\ RefundsAgree' /\ CompletedWhenReturned'
    BY <1>1, <1>2, PlansKept DEF Planned
  <1>5. OneClaim'
    BY <1>2 DEF IInv, OneClaim, Claims, Active
  <1>6. RequestsFollowPreviews'
    BY <1>1, <1>2 DEF IInv, RequestsFollowPreviews
  <1>7. BudgetFollowsOrder'
    BY <1>1 DEF IInv, BudgetFollowsOrder
  <1>8. CancelledForAReason'
    BY <1>1, <1>2 DEF IInv, CancelledForAReason
  <1>9. QuestionsHaveTasks'
    BY <1>2 DEF IInv, QuestionsHaveTasks
  <1>10. ArchivedWithoutPromise' /\ RuleApplies(rule.name)'
    BY <1>1 DEF IInv, ArchivedWithoutPromise, scopeVars
  <1>q. QED
    BY <1>3, <1>4, <1>5, <1>6, <1>7, <1>8, <1>9, <1>10 DEF IInv

LEMMA ConfirmRejectedStep ==
    ASSUME IInv, NEW p \in Previews, ConfirmRejected(p)
    PROVE  IInv'
  <1>1. /\ order.payment = "paid"
        /\ preview[p].action = "cancel"
        /\ cancel[p] = "none"
        /\ \A q \in Previews : ~Claims(cancel[q])
    BY MayCancelFacts DEF ConfirmRejected
  <1>2. /\ preview' \in [Previews -> PreviewRecord]
        /\ preview'[p].state = "accepted"
        /\ \A q \in Previews :
              /\ q # p => preview'[q] = preview[q]
              /\ preview'[q].action = preview[q].action
              /\ preview'[q].rule = preview[q].rule
    BY AcceptFacts DEF IInv, ConfirmRejected
  <1>3. followUp' = [followUp EXCEPT ![p] = followUp[p]]
        /\ followUp[p] \in {"none", "open", "resolved"}
        /\ followUp[p] # "open"
    BY <1>1 DEF IInv, TypeOK, RequestType, QuestionsHaveTasks, ConfirmRejected
  <1>4. "succeeded" \in OperationStates
    BY DEF OperationStates
  <1>5. \A q \in Previews : cancel[q] # "completed"
    BY <1>1 DEF Claims
  <1>q. QED
    BY <1>1, <1>2, <1>3, <1>4, <1>5, UnplannedStep DEF ConfirmRejected

LEMMA ConfirmDelayedStep ==
    ASSUME IInv, NEW p \in Previews, ConfirmDelayed(p)
    PROVE  IInv'
  <1>1. /\ order.payment = "paid"
        /\ preview[p].action = "cancel"
        /\ cancel[p] = "none"
        /\ \A q \in Previews : ~Claims(cancel[q])
    BY MayCancelFacts DEF ConfirmDelayed
  <1>2. /\ preview' \in [Previews -> PreviewRecord]
        /\ preview'[p].state = "accepted"
        /\ \A q \in Previews :
              /\ q # p => preview'[q] = preview[q]
              /\ preview'[q].action = preview[q].action
              /\ preview'[q].rule = preview[q].rule
    BY AcceptFacts DEF IInv, ConfirmDelayed
  <1>3. "pending_review" \in OperationStates
    BY DEF OperationStates
  <1>4. \A q \in Previews : cancel[q] # "completed"
    BY <1>1 DEF Claims
  <1>q. QED
    BY <1>1, <1>2, <1>3, <1>4, UnplannedStep DEF ConfirmDelayed

LEMMA DecideStep ==
    ASSUME IInv, NEW p \in Previews, Decide(p)
    PROVE  IInv'
  <1>1. PICK approve \in BOOLEAN :
           /\ cancel' = [cancel EXCEPT ![p] =
                            IF approve THEN "approved" ELSE "rejected"]
           /\ order' = [order EXCEPT !.status =
                            IF approve THEN "cancellation_processing"
                            ELSE "cancellation_rejected"]
    BY DEF Decide
  <1>2. cancel[p] = "delayed"
    BY DEF Decide
  <1>3. /\ order.payment = "paid"
        /\ preview[p].action = "cancel"
        /\ preview[p].state = "accepted"
        /\ preview[p].rule = "delay"
    BY <1>2 DEF IInv, RequestsFollowPreviews
  <1>4. \A q \in Previews \ {p} : ~Claims(cancel[q])
    BY <1>2 DEF IInv, OneClaim, Claims, Active
  <1>5. \A q \in Previews : cancel[q] # "completed"
    BY <1>2, <1>4 DEF Claims
  <1>6. preview' = preview /\ preview \in [Previews -> PreviewRecord]
    BY DEF Decide, IInv, TypeOK
  <1>7. "succeeded" \in OperationStates
    BY DEF OperationStates
  <1>8. CASE approve
    BY <1>1, <1>2, <1>3, <1>4, <1>5, <1>6, <1>7, <1>8, UnplannedStep DEF Decide
  <1>9. CASE ~approve
    BY <1>1, <1>2, <1>3, <1>4, <1>5, <1>6, <1>7, <1>9, UnplannedStep DEF Decide
  <1>q. QED BY <1>8, <1>9

\* A plan is made for a request that holds the order alone.
LEMMA PlanStep ==
    ASSUME IInv, NEW p \in Previews,
           ~HasPlan(p),
           \A q \in Previews \ {p} : ~Claims(cancel[q]),
           order.payment = "paid", order.refunded = 0,
           preview[p].action = "cancel",
           preview[p].rule \in Rules, preview[p].rule # "reject",
           RuleApplies(preview[p].rule),
           PlanRefund(p, preview[p].rule),
           cancel' = [cancel EXCEPT ![p] = "refund_processing"],
           cancel[p] # "completed", followUp[p] # "open",
           preview' \in [Previews -> PreviewRecord],
           preview'[p].state = "accepted",
           \A q \in Previews :
              /\ q # p => preview'[q] = preview[q]
              /\ preview'[q].action = preview[q].action
              /\ preview'[q].rule = preview[q].rule,
           MoneyType', order'.payment = order.payment,
           order'.refunded = order.refunded,
           order'.status # "cancelled",
           UNCHANGED <<item, posted, refundPosted, reviewOp, followUp, recheck,
                       scopeVars, op>>
    PROVE  IInv'
  <1> DEFINE r == preview[p].rule
  <1>1. /\ cancel'[p] = "refund_processing"
        /\ \A n \in Numbers :
              /\ batch'[p][n] = IF n \in BatchNumbers(r) THEN "pending"
                                ELSE "none"
              /\ refundOp'[p][n] = IF n \in BatchNumbers(r) THEN "open"
                                   ELSE "none"
              /\ n \in BatchNumbers(r) => BatchAmount(r, n) > 0
        /\ \A q \in Previews :
              q # p => /\ cancel'[q] = cancel[q]
                       /\ batch'[q] = batch[q]
                       /\ refundOp'[q] = refundOp[q]
    BY DEF IInv, TypeOK, RequestType, PlanRefund
  <1>2. 1 \in BatchNumbers(r) /\ RefundOf(r) \in Nat /\ RefundOf(r) # 0
    <2>1. 1 \in BatchNumbers(r)
      BY RuleFacts
    <2>2. BatchAmount(r, 1) > 0
      BY <1>1, <2>1 DEF Numbers
    <2>q. QED BY <2>1, <2>2, RuleFacts DEF Numbers
  <1>3. \A q \in Previews : q # p => ~HasPlan(q)
    BY DEF IInv, PlansFollowRequests, Planned, Claims, Active
  <1>4. /\ HasPlan(p)'
        /\ \A q \in Previews : q # p => ~HasPlan(q)'
    BY <1>1, <1>2, <1>3 DEF HasPlan, Numbers
  <1>5. Returned(p, batch[p])' = 0
    BY <1>1 DEF Returned, Numbers
  <1>6. TypeOK'
    <2>1. RequestType'
      BY DEF IInv, TypeOK, RequestType, PlanRefund, OperationStates
    <2>q. QED BY <2>1, ScopeTypes DEF IInv, TypeOK
  <1>7. OneClaim'
    BY <1>1 DEF OneClaim, Claims, Active
  <1>8. RequestsFollowPreviews'
    BY <1>1 DEF IInv, RequestsFollowPreviews
  <1>9. PlansFollowRequests'
    <2>1. \A q \in Previews : q # p => ~Planned(cancel[q])
      BY <1>3 DEF IInv, PlansFollowRequests
    <2>2. \A q \in Previews, n \in Numbers :
             q # p => batch[q][n] = "none" /\ refundOp[q][n] # "open"
      BY <1>3 DEF IInv, PlansFollowRequests, HasPlan
    <2>q. QED BY <1>1, <1>4, <2>1, <2>2 DEF PlansFollowRequests, Planned
  <1>10. RefundsAgree'
    <2>1. order'.refunded = 0 /\ refundPosted' = 0
      BY DEF IInv, RefundsAgree
    <2>2. RefundOf(preview[p].rule)' = RefundOf(r)
      BY DEF RefundOf, FeeOf, TakesFee
    <2>3. \A q \in Previews :
             HasPlan(q)' => /\ order'.refunded = Returned(q, batch[q])'
                            /\ order'.refunded <= RefundOf(preview[q].rule)'
      BY <1>2, <1>4, <1>5, <2>1, <2>2
    <2>q. QED BY <1>4, <2>1, <2>3 DEF RefundsAgree
  <1>11. CompletedWhenReturned'
    BY <1>1, <1>2, <1>4, <1>5 DEF Claims, CompletedWhenReturned
  <1>12. BudgetFollowsOrder'
    BY DEF IInv, BudgetFollowsOrder
  <1>13. CancelledForAReason'
    BY <1>1 DEF CancelledForAReason, Claims
  <1>14. QuestionsHaveTasks'
    <2>1. \A n \in Numbers : ~recheck[p][n]
      BY DEF IInv, QuestionsHaveTasks, HasPlan
    <2>q. QED BY <1>1, <2>1 DEF IInv, QuestionsHaveTasks
  <1>15. ArchivedWithoutPromise' /\ RuleApplies(rule.name)'
    BY DEF IInv, ArchivedWithoutPromise, scopeVars
  <1>q. QED
    BY <1>6, <1>7, <1>8, <1>9, <1>10, <1>11, <1>12, <1>13, <1>14, <1>15
    DEF IInv

LEMMA ConfirmApprovedStep ==
    ASSUME IInv, NEW p \in Previews, ConfirmApproved(p)
    PROVE  IInv'
  <1>1. /\ order.payment = "paid" /\ order.refunded = 0
        /\ preview[p].action = "cancel"
        /\ preview[p].rule \in Rules /\ RuleApplies(preview[p].rule)
        /\ cancel[p] = "none"
        /\ \A q \in Previews : ~Claims(cancel[q]) /\ ~HasPlan(q)
    BY MayCancelFacts DEF ConfirmApproved
  <1>2. /\ preview' \in [Previews -> PreviewRecord]
        /\ preview'[p].state = "accepted"
        /\ \A q \in Previews :
              /\ q # p => preview'[q] = preview[q]
              /\ preview'[q].action = preview[q].action
              /\ preview'[q].rule = preview[q].rule
    BY AcceptFacts DEF IInv, ConfirmApproved
  <1>3. /\ MoneyType'
        /\ order'.status = "cancellation_processing"
        /\ order'.payment = order.payment
        /\ order'.refunded = order.refunded
    BY StatusFacts DEF IInv, ConfirmApproved
  <1>4. followUp[p] # "open"
    BY <1>1 DEF IInv, QuestionsHaveTasks
  <1>q. QED
    BY <1>1, <1>2, <1>3, <1>4, PlanStep DEF ConfirmApproved

LEMMA ScheduleRefundStep ==
    ASSUME IInv, NEW p \in Previews, ScheduleRefund(p)
    PROVE  IInv'
  <1>1. /\ cancel[p] = "approved" /\ order.payment = "paid"
        /\ PlanRefund(p, preview[p].rule)
        /\ cancel' = [cancel EXCEPT ![p] = "refund_processing"]
        /\ UNCHANGED <<moneyVars, reviewOp, followUp, recheck, scopeVars,
                       preview, op>>
    BY DEF ScheduleRefund
  <1>2. /\ preview[p].action = "cancel" /\ preview[p].state = "accepted"
        /\ preview[p].rule = "delay" /\ preview[p].rule \in Rules
        /\ RuleApplies(preview[p].rule)
    BY <1>1 DEF IInv, RequestsFollowPreviews
  <1>3. \A q \in Previews \ {p} : ~Claims(cancel[q])
    BY <1>1 DEF IInv, OneClaim, Claims, Active
  <1>4. \A q \in Previews : ~HasPlan(q)
    BY <1>1, <1>3 DEF IInv, PlansFollowRequests, Planned, Claims, Active
  <1>5. order.refunded = 0
    BY <1>4 DEF IInv, TypeOK, MoneyType, RefundsAgree
  <1>6. order.status # "cancelled"
    BY <1>1, <1>3 DEF IInv, CancelledForAReason, Claims
  <1>7. followUp[p] # "open"
    BY <1>1 DEF IInv, QuestionsHaveTasks
  <1>8. MoneyType' /\ preview' \in [Previews -> PreviewRecord]
    BY <1>1 DEF IInv, TypeOK, MoneyType, moneyVars
  <1>q. QED
    BY <1>1, <1>2, <1>3, <1>4, <1>5, <1>6, <1>7, <1>8, PlanStep DEF moneyVars

------------------------------------------------------------------------------
(* Batches.                                                                *)

\* The job of a batch is open only for a batch of the only plan, which is not
\* paid in full.
LEMMA OpenBatchFacts ==
    ASSUME IInv, NEW p \in Previews, NEW n \in Numbers,
           refundOp[p][n] = "open"
    PROVE  /\ batch[p][n] = "pending"
           /\ HasPlan(p)
           /\ cancel[p] \in {"refund_processing", "pending_review"}
           /\ order.payment = "paid"
           /\ preview[p].state = "accepted" /\ preview[p].action = "cancel"
           /\ Returned(p, batch[p]) # RefundOf(preview[p].rule)
           /\ ~recheck[p][n]
           /\ followUp[p] # "open"
           /\ \A q \in Previews \ {p} : ~Claims(cancel[q]) /\ ~HasPlan(q)
           /\ order.status # "cancelled"
  <1>1. batch[p][n] = "pending" /\ HasPlan(p)
    BY DEF IInv, PlansFollowRequests, HasPlan
  <1>2. Returned(p, batch[p]) # RefundOf(preview[p].rule)
    BY <1>1, ReturnedFacts
  <1>3. cancel[p] \in {"refund_processing", "pending_review"}
    BY <1>1, <1>2 DEF IInv, PlansFollowRequests, Planned, CompletedWhenReturned
  <1>4. order.payment = "paid" /\ preview[p].state = "accepted"
        /\ preview[p].action = "cancel"
    BY <1>3 DEF IInv, RequestsFollowPreviews
  <1>5. \A q \in Previews \ {p} : ~Claims(cancel[q])
    BY <1>3 DEF IInv, OneClaim, Claims, Active
  <1>6. \A q \in Previews \ {p} : ~HasPlan(q)
    BY <1>5 DEF IInv, PlansFollowRequests, Planned, Claims, Active
  <1>7. ~recheck[p][n] /\ followUp[p] # "open"
    BY <1>1, <1>3 DEF IInv, QuestionsHaveTasks
  <1>8. order.status # "cancelled"
    BY <1>3, <1>4, <1>5 DEF IInv, CancelledForAReason, Claims
  <1>q. QED BY <1>1, <1>2, <1>3, <1>4, <1>5, <1>6, <1>7, <1>8

\* A batch is left without being paid.
LEMMA UnpaidBatchStep ==
    ASSUME IInv, NEW p \in Previews, NEW n \in Numbers,
           refundOp[p][n] = "open",
           NEW s \in {"unknown", "pending_review", "failed"},
           batch' = [batch EXCEPT ![p][n] = s],
           NEW o \in {"unknown", "pending_review"},
           refundOp' = [refundOp EXCEPT ![p][n] = o],
           cancel' = [cancel EXCEPT ![p] = "pending_review"],
           recheck' = [recheck EXCEPT ![p][n] = TRUE],
           UNCHANGED <<moneyVars, reviewOp, followUp, scopeVars, preview, op>>
    PROVE  IInv'
  <1> USE DEF moneyVars
  <1>1. /\ batch[p][n] = "pending" /\ HasPlan(p)
        /\ cancel[p] \in {"refund_processing", "pending_review"}
        /\ order.payment = "paid"
        /\ preview[p].state = "accepted" /\ preview[p].action = "cancel"
        /\ Returned(p, batch[p]) # RefundOf(preview[p].rule)
        /\ followUp[p] # "open"
        /\ \A q \in Previews \ {p} : ~Claims(cancel[q]) /\ ~HasPlan(q)
    BY OpenBatchFacts
  <1>2. /\ cancel'[p] = "pending_review"
        /\ batch'[p][n] = s /\ refundOp'[p][n] = o /\ recheck'[p][n]
        /\ \A m \in Numbers : m # n => /\ batch'[p][m] = batch[p][m]
                                       /\ refundOp'[p][m] = refundOp[p][m]
                                       /\ recheck'[p][m] = recheck[p][m]
        /\ \A q \in Previews : q # p => /\ cancel'[q] = cancel[q]
                                        /\ batch'[q] = batch[q]
                                        /\ refundOp'[q] = refundOp[q]
                                        /\ recheck'[q] = recheck[q]
    BY DEF IInv, TypeOK, RequestType
  <1>3. \A q \in Previews : HasPlan(q)' <=> HasPlan(q)
    BY <1>1, <1>2 DEF HasPlan
  <1>4. \A q \in Previews : Returned(q, batch[q])' = Returned(q, batch[q])
    BY <1>1, <1>2 DEF Returned, Numbers
  <1>5. TypeOK'
    <2>1. RequestType'
      BY DEF IInv, TypeOK, RequestType, OperationStates
    <2>2. MoneyType'
      BY DEF IInv, TypeOK, MoneyType
    <2>q. QED BY <2>1, <2>2, ScopeTypes DEF IInv, TypeOK
  <1>6. OneClaim'
    BY <1>1, <1>2 DEF OneClaim, Claims, Active
  <1>7. RequestsFollowPreviews'
    BY <1>1, <1>2 DEF IInv, RequestsFollowPreviews
  <1>8. PlansFollowRequests'
    BY <1>1, <1>2, <1>3 DEF IInv, PlansFollowRequests, Planned
  <1>9. RefundsAgree'
    BY <1>3, <1>4 DEF IInv, RefundsAgree
  <1>10. CompletedWhenReturned'
    BY <1>1, <1>2, <1>3, <1>4 DEF IInv, CompletedWhenReturned
  <1>11. BudgetFollowsOrder' /\ ArchivedWithoutPromise' /\ RuleApplies(rule.name)'
    BY DEF IInv, BudgetFollowsOrder, ArchivedWithoutPromise, scopeVars
  <1>12. CancelledForAReason'
    BY <1>1, <1>2 DEF IInv, CancelledForAReason
  <1>13. QuestionsHaveTasks'
    BY <1>1, <1>2 DEF IInv, QuestionsHaveTasks
  <1>q. QED
    BY <1>5, <1>6, <1>7, <1>8, <1>9, <1>10, <1>11, <1>12, <1>13 DEF IInv

\* A batch is paid.
LEMMA PayBatchStep ==
    ASSUME IInv, NEW p \in Previews, NEW n \in Numbers,
           refundOp[p][n] = "open", PayBatch(p, n),
           UNCHANGED <<scopeVars, preview, op>>
    PROVE  IInv'
  <1> DEFINE r == preview[p].rule
             amount == BatchAmount(r, n)
             paid == [batch[p] EXCEPT ![n] = "succeeded"]
             total == Returned(p, paid)
  <1>1. /\ batch[p][n] = "pending" /\ HasPlan(p)
        /\ order.payment = "paid"
        /\ preview[p].state = "accepted" /\ preview[p].action = "cancel"
        /\ followUp[p] # "open"
        /\ \A q \in Previews \ {p} : ~Claims(cancel[q]) /\ ~HasPlan(q)
    BY OpenBatchFacts
  <1>2. /\ r \in Rules /\ RuleApplies(r)
        /\ RefundOf(r) \in Nat /\ Returned(p, batch[p]) \in Nat
        /\ amount \in Nat
    BY <1>1, ReturnedFacts, RuleFacts
  <1>3. /\ cancel[p] \in {"approved", "refund_processing"}
        /\ total <= RefundOf(r)
        /\ batch' = [batch EXCEPT ![p] = paid]
        /\ cancel' = [cancel EXCEPT ![p] =
              IF total = RefundOf(r) THEN "completed" ELSE "refund_processing"]
        /\ order' = [order EXCEPT !.refunded = @ + amount,
              !.status = IF total = RefundOf(r) THEN "cancelled"
                         ELSE "cancellation_processing"]
        /\ refundPosted' = refundPosted + amount
        /\ refundOp' = [refundOp EXCEPT ![p][n] = "succeeded"]
        /\ UNCHANGED <<item, posted, reviewOp, followUp, recheck>>
    BY DEF PayBatch, Completed
  <1>4. total = Returned(p, batch[p]) + amount
    <2>1. CASE n = 1
      BY <1>1, <1>2, <2>1, RuleFacts DEF IInv, TypeOK, RequestType, Returned, Numbers
    <2>2. CASE n = 2
      BY <1>1, <1>2, <2>2, RuleFacts DEF IInv, TypeOK, RequestType, Returned, Numbers
    <2>q. QED BY <2>1, <2>2 DEF Numbers
  <1> HIDE DEF amount, total
  <1>5. /\ order'.refunded = order.refunded + amount
        /\ order'.payment = order.payment
        /\ order'.status = IF total = RefundOf(r) THEN "cancelled"
                           ELSE "cancellation_processing"
        /\ order.refunded \in Nat
    BY <1>3 DEF IInv, TypeOK, MoneyType
  <1>6. /\ cancel'[p] = IF total = RefundOf(r) THEN "completed"
                        ELSE "refund_processing"
        /\ batch'[p] = paid
        /\ batch'[p][n] = "succeeded" /\ refundOp'[p][n] = "succeeded"
        /\ \A m \in Numbers : m # n => /\ batch'[p][m] = batch[p][m]
                                       /\ refundOp'[p][m] = refundOp[p][m]
        /\ \A q \in Previews : q # p => /\ cancel'[q] = cancel[q]
                                        /\ batch'[q] = batch[q]
                                        /\ refundOp'[q] = refundOp[q]
    BY <1>3 DEF IInv, TypeOK, RequestType
  <1>7. /\ Returned(p, batch[p])' = total
        /\ RefundOf(preview[p].rule)' = RefundOf(r)
    BY <1>6 DEF total, Returned
  <1>8. \A q \in Previews : HasPlan(q)' <=> HasPlan(q)
    BY <1>1, <1>6 DEF HasPlan
  <1>9. TypeOK'
    <2>1. RequestType'
      <3>1. cancel' \in [Previews -> {"none", "approved", "delayed",
                "rejected", "refund_processing", "pending_review",
                "completed"}]
        BY <1>3 DEF IInv, TypeOK, RequestType
      <3>2. /\ batch' \in [Previews -> [Numbers -> {"none", "pending",
                  "succeeded", "unknown", "pending_review", "failed"}]]
            /\ refundOp' \in [Previews -> [Numbers -> OperationStates]]
        BY <1>3 DEF IInv, TypeOK, RequestType, OperationStates
      <3>q. QED BY <1>3, <3>1, <3>2 DEF IInv, TypeOK, RequestType
    <2>2. MoneyType'
      <3>1. order.refunded + amount \in Nat /\ refundPosted + amount \in Nat
        BY <1>2 DEF IInv, TypeOK, MoneyType
      <3>q. QED BY <1>3, <3>1 DEF IInv, TypeOK, MoneyType
    <2>q. QED BY <2>1, <2>2, ScopeTypes DEF IInv, TypeOK
  <1>10. OneClaim'
    BY <1>1, <1>6 DEF OneClaim, Claims, Active
  <1>11. RequestsFollowPreviews'
    BY <1>1, <1>5, <1>6 DEF IInv, RequestsFollowPreviews
  <1>12. PlansFollowRequests'
    <2>1. Planned(cancel'[p])
      BY <1>6 DEF Planned
    <2>2. PlansFollowRequests
      BY DEF IInv
    <2>3. \A q \in Previews : q # p =>
             /\ cancel'[q] = cancel[q] /\ batch'[q] = batch[q]
             /\ refundOp'[q] = refundOp[q]
             /\ preview'[q].rule = preview[q].rule
      BY <1>6
    <2>4. preview' = preview /\ HasPlan(p)'
      BY <1>1, <1>8
    <2>5. \A m \in Numbers :
             /\ batch'[p][m] = "none" <=> batch[p][m] = "none"
             /\ refundOp'[p][m] = "open" <=> batch'[p][m] = "pending"
      BY <1>1, <1>6, <2>2 DEF PlansFollowRequests
    <2>q. QED
      BY <1>1, <1>8, <2>1, <2>2, <2>3, <2>4, <2>5 DEF PlansFollowRequests
  <1>13. RefundsAgree'
    <2>1. order.refunded = refundPosted /\ order.refunded = Returned(p, batch[p])
      BY <1>1 DEF IInv, RefundsAgree
    <2>2. order'.refunded = total /\ refundPosted' = order'.refunded
      BY <1>3, <1>4, <1>5, <2>1
    <2>q. QED BY <1>1, <1>3, <1>7, <1>8, <2>2 DEF RefundsAgree
  <1>14. CompletedWhenReturned'
    <2>1. \A q \in Previews \ {p} : cancel'[q] # "completed" /\ ~HasPlan(q)'
      BY <1>1, <1>6, <1>8 DEF Claims
    <2>q. QED BY <1>1, <1>6, <1>7, <1>8, <2>1 DEF CompletedWhenReturned
  <1>15. BudgetFollowsOrder' /\ ArchivedWithoutPromise' /\ RuleApplies(rule.name)'
    BY <1>3, <1>5
    DEF IInv, BudgetFollowsOrder, ArchivedWithoutPromise, scopeVars
  <1>16. CancelledForAReason'
    BY <1>1, <1>5, <1>6 DEF CancelledForAReason, Claims
  <1>17. QuestionsHaveTasks'
    <2>1. \A m \in Numbers : ~recheck[p][m]
      BY <1>3 DEF IInv, QuestionsHaveTasks
    <2>q. QED BY <1>1, <1>3, <1>6, <2>1 DEF IInv, QuestionsHaveTasks
  <1>q. QED
    BY <1>9, <1>10, <1>11, <1>12, <1>13, <1>14, <1>15, <1>16, <1>17 DEF IInv

LEMMA ProcessRefundBatchStep ==
    ASSUME IInv, NEW p \in Previews, NEW n \in Numbers,
           ProcessRefundBatch(p, n)
    PROVE  IInv'
  <1>1. refundOp[p][n] = "open" /\ UNCHANGED <<scopeVars, preview, op>>
    BY DEF ProcessRefundBatch
  <1>2. CASE RefuseBatch(p, n)
    BY <1>1, <1>2, UnpaidBatchStep DEF RefuseBatch
  <1>3. CASE QuestionBatch(p, n)
    BY <1>1, <1>3, UnpaidBatchStep DEF QuestionBatch
  <1>4. CASE PayBatch(p, n)
    BY <1>1, <1>4, PayBatchStep
  <1>q. QED BY <1>2, <1>3, <1>4 DEF ProcessRefundBatch

------------------------------------------------------------------------------
(* The theorems.                                                           *)

LEMMA StutterStep == IInv /\ UNCHANGED vars => IInv'
  BY QuietStep
  DEF vars, moneyVars, requestVars, scopeVars, IInv, TypeOK, MoneyType,
      RequestType, ScopeType, RequestsFollowPreviews, ArchivedWithoutPromise

LEMMA NextIInv == IInv /\ [Next]_vars => IInv'
  <1> SUFFICES ASSUME IInv, [Next]_vars PROVE IInv'
    OBVIOUS
  <1>1. CASE PrepareHandoff
    BY <1>1, PrepareHandoffStep
  <1>2. CASE ProcessPayment
    BY <1>2, ProcessPaymentStep
  <1>3. CASE ProcessClose
    BY <1>3, ProcessCloseStep
  <1>4. CASE \E p \in Previews : ConsumerStep(p) \/ MerchantStep(p)
    BY <1>4, CreatePreviewStep, PreviewExpiresStep, ConfirmCloseStep,
       ConfirmApprovedStep, ConfirmRejectedStep, ConfirmDelayedStep,
       DecideStep, ScheduleRefundStep
    DEF ConsumerStep, MerchantStep
  <1>5. CASE \E p \in Previews, n \in Numbers : ProcessRefundBatch(p, n)
    BY <1>5, ProcessRefundBatchStep
  <1>6. CASE ChangeRule \/ ToggleAccount \/ MonthEnds \/ ClosePeriod
    BY <1>6, ScopeStep
  <1>7. CASE UNCHANGED vars
    BY <1>7, StutterStep
  <1>q. QED BY <1>1, <1>2, <1>3, <1>4, <1>5, <1>6, <1>7 DEF Next

LEMMA Invariance == Spec => []IInv
  BY InitIInv, NextIInv, PTL DEF Spec

\* Every row of the order, its requests and its operations stays well formed.
THEOREM TypeCorrect == Spec => []TypeOK
  BY Invariance, PTL DEF IInv

\* Order, budget item and posted payment agree, whatever races.
THEOREM BudgetFollowsOrderAlways == Spec => []BudgetFollowsOrder
  BY Invariance, PTL DEF IInv

\* One refund plan at most, and one sum everywhere, for every price and fee.
THEOREM RefundsAgreeAlways == Spec => []RefundsAgree
  BY Invariance, PTL DEF IInv

\* One request at a time; it is completed exactly by its last batch.
THEOREM OneRequestAlways == Spec => []OneRequest
  <1>1. IInv => OneRequest
    BY DEF IInv, OneRequest, OneClaim, Claims
  <1>q. QED BY <1>1, Invariance, PTL

\* An order is cancelled by a close or by a whole refund, by nothing else.
THEOREM CancelledForAReasonAlways == Spec => []CancelledForAReason
  BY Invariance, PTL DEF IInv

\* Every open question about a refund has somebody to answer it.
THEOREM QuestionsHaveTasksAlways == Spec => []QuestionsHaveTasks
  BY Invariance, PTL DEF IInv

\* No archived period holds a promise to buy.
THEOREM ArchivedWithoutPromiseAlways == Spec => []ArchivedWithoutPromise
  BY Invariance, PTL DEF IInv

\* What a step does with the money: nothing, or one of three moves.
MoneyKept ==
    /\ UNCHANGED <<item, posted, refundPosted>>
    /\ order'.refunded = order.refunded
    /\ \/ order'.payment = order.payment
       \/ order.payment = "pending" /\ order'.payment = "unknown"

MoneySpent ==
    /\ order.payment = "pending"
    /\ order'.payment = "paid"
    /\ posted'
    /\ order'.refunded = order.refunded
    /\ UNCHANGED refundPosted

MoneyFreed ==
    /\ order.payment \in {"pending", "unknown"}
    /\ order'.payment = "closed"
    /\ item' = "cancelled"
    /\ order'.refunded = order.refunded
    /\ UNCHANGED <<posted, refundPosted>>

MoneyReturned ==
    /\ order.payment = "paid"
    /\ order'.payment = "paid"
    /\ \E amount \in Nat \ {0} :
          /\ order'.refunded = order.refunded + amount
          /\ refundPosted' = refundPosted + amount
          /\ refundPosted' <= Amount
    /\ UNCHANGED <<item, posted>>

\* No step does anything else with the money.
LEMMA MoneyMoves ==
    ASSUME IInv, [Next]_vars
    PROVE  MoneyKept \/ MoneySpent \/ MoneyFreed \/ MoneyReturned
  <1>1. UNCHANGED moneyVars => MoneyKept
    BY DEF moneyVars, MoneyKept
  <1>2. ASSUME ProcessPayment PROVE MoneyKept \/ MoneySpent
    <2>1. CASE UNCHANGED moneyVars
      BY <1>1, <2>1
    <2>2. CASE ~UNCHANGED moneyVars
      BY <1>2, <2>2
      DEF IInv, TypeOK, MoneyType, ProcessPayment, MoneyKept, MoneySpent
    <2>q. QED BY <2>1, <2>2
  <1>3. ASSUME ProcessClose PROVE MoneyKept \/ MoneyFreed
    <2>1. CASE UNCHANGED moneyVars
      BY <1>1, <2>1
    <2>2. CASE ~UNCHANGED moneyVars
      BY <1>3, <2>2
      DEF IInv, TypeOK, MoneyType, BudgetFollowsOrder, ProcessClose, MoneyFreed
    <2>q. QED BY <2>1, <2>2
  <1>4. ASSUME NEW p \in Previews,
               ConfirmApproved(p) \/ ConfirmRejected(p) \/ ConfirmDelayed(p)
                 \/ Decide(p)
        PROVE  MoneyKept
    BY <1>4 DEF IInv, TypeOK, MoneyType, ConfirmApproved, ConfirmRejected,
                ConfirmDelayed, Decide, MoneyKept
  <1>5. ASSUME NEW p \in Previews, NEW n \in Numbers, ProcessRefundBatch(p, n)
        PROVE  MoneyKept \/ MoneyReturned
    <2>1. CASE RefuseBatch(p, n) \/ QuestionBatch(p, n)
      BY <1>1, <2>1 DEF RefuseBatch, QuestionBatch
    <2>2. CASE PayBatch(p, n)
      <3>1. refundOp[p][n] = "open"
        BY <1>5 DEF ProcessRefundBatch
      <3>2. /\ preview[p].rule \in Rules /\ RuleApplies(preview[p].rule)
            /\ BatchAmount(preview[p].rule, n) > 0
        BY <3>1, OpenBatchFacts, ReturnedFacts DEF IInv, PlansFollowRequests
      <3>3. BatchAmount(preview[p].rule, n) \in Nat \ {0}
        BY <3>2, RuleFacts
      <3>4. /\ order.payment = "paid" /\ order'.payment = "paid"
            /\ order'.refunded = order.refunded + BatchAmount(preview[p].rule, n)
            /\ refundPosted' = refundPosted + BatchAmount(preview[p].rule, n)
            /\ refundPosted' <= Amount
            /\ UNCHANGED <<item, posted>>
        BY <2>2 DEF PayBatch, IInv, TypeOK, MoneyType
      <3>q. QED BY <3>3, <3>4 DEF MoneyReturned
    <2>q. QED BY <1>5, <2>1, <2>2 DEF ProcessRefundBatch
  <1>6. ASSUME NEW p \in Previews, ConsumerStep(p) \/ MerchantStep(p)
        PROVE  MoneyKept
    <2>1. CASE CreatePreview(p) \/ PreviewExpires(p) \/ ConfirmClose(p)
                 \/ ScheduleRefund(p)
      BY <1>1, <2>1 DEF CreatePreview, PreviewExpires, ConfirmClose,
                        ScheduleRefund
    <2>q. QED BY <1>4, <1>6, <2>1 DEF ConsumerStep, MerchantStep
  <1>7. CASE PrepareHandoff \/ ChangeRule \/ ToggleAccount \/ MonthEnds
             \/ ClosePeriod \/ UNCHANGED vars
    BY <1>1, <1>7 DEF PrepareHandoff, ChangeRule, ToggleAccount, MonthEnds,
                      ClosePeriod, vars
  <1>q. QED BY <1>2, <1>3, <1>5, <1>6, <1>7 DEF Next

\* A paid or closed order stays so, and a refund is never taken back.
THEOREM SettledIsFinalAlways == Spec => SettledIsFinal
  <1>1. ASSUME IInv, [Next]_vars
        PROVE  /\ order.payment \in {"paid", "closed"} =>
                     order'.payment = order.payment
               /\ order'.refunded >= order.refunded
    BY <1>1, MoneyMoves DEF IInv, TypeOK, MoneyType, MoneyKept, MoneySpent,
                            MoneyFreed, MoneyReturned
  <1>q. QED BY <1>1, Invariance, PTL DEF Spec, SettledIsFinal

\* The order keeps the promise to the payer: the price leaves the account at
\* most once, or is released, and no more than the price comes back.
THEOREM MoneyRefined == Spec => ImplementsMoney
  <1>1. Init => Money!Init
    BY DEF Init, Money!Init
  <1>2. ASSUME IInv, [Next]_vars
        PROVE  [Money!Next]_(Money!moneyVars)
    <2> USE DEF Money!Next, Money!Spend, Money!ReleaseHold, Money!Return,
                Money!moneyVars
    <2>1. /\ order.payment = "paid" <=> posted
          /\ posted <=> item = "settled"
          /\ order.payment = "closed" <=> item = "cancelled"
          /\ refundPosted \in Nat /\ posted \in BOOLEAN
      BY <1>2 DEF IInv, BudgetFollowsOrder, TypeOK, MoneyType
    <2>2. CASE MoneyKept
      BY <2>2 DEF MoneyKept
    <2>3. CASE MoneySpent
      BY <2>1, <2>3 DEF MoneySpent
    <2>4. CASE MoneyFreed
      BY <2>1, <2>4 DEF MoneyFreed
    <2>5. CASE MoneyReturned
      <3>1. refundPosted' \in refundPosted + 1 .. Amount
        BY <2>1, <2>5, OrderAssumption DEF MoneyReturned
      <3>q. QED BY <2>1, <2>5, <3>1 DEF MoneyReturned
    <2>q. QED BY <1>2, <2>2, <2>3, <2>4, <2>5, MoneyMoves
  <1>q. QED
    BY <1>1, <1>2, Invariance, PTL DEF Spec, ImplementsMoney, Money!Spec

\* Every request is accounted for, for any price, fee and number of previews.
THEOREM RequestsAccountedForAlways == Spec => []RequestsAccountedFor
  BY TypeCorrect, OneRequestAlways, CancelledForAReasonAlways,
     QuestionsHaveTasksAlways, PTL DEF RequestsAccountedFor
==============================================================================
