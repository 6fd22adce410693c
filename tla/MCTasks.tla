------------------------------- MODULE MCTasks -------------------------------
(* Small instances of the modules about tasks for TLC, side by side: one of  *)
(* them is chosen at the beginning and runs, the others rest.                *)
EXTENDS SessionRefresh, McpRefresh, Distribution, ShareBatch, Original, RecoveryJob, Admission,
        FairTurn, ReconcileScan, TLC

CONSTANTS Components,
          r1, r2, x1,                 \* rows, whatever the table
          c1, c2, c3, c4,             \* calls
          rate, application, account  \* sets of admission

VARIABLE component

Runs(name) == component = name

Init ==
  /\ component \in Components
  /\ RefreshInit /\ OriginalInit /\ AdmissionInit /\ FairInit
  /\ DistributionInit /\ (Runs("distribution") \/ \A o \in Op : op[o].status = "none")
  /\ RecoveryInit /\ (Runs("recovery") \/ stepOpen = {})
  /\ ScanInit /\ (Runs("scan") \/ listing = <<>>)
  /\ SessionInit /\ (Runs("session") \/ (kind = "jiashu" /\ \A a \in App : offer[a] = 1))
  /\ IF Runs("share") THEN ShareInit ELSE ShareRests

\* What rests has nothing to do.
Rest ==
  /\ UNCHANGED component
  /\ IF Runs("session")      THEN TRUE ELSE UNCHANGED sessionVars
  /\ IF Runs("refresh")      THEN TRUE ELSE UNCHANGED refreshVars
  /\ IF Runs("distribution") THEN TRUE ELSE UNCHANGED assetVars
  /\ IF Runs("share")        THEN TRUE ELSE UNCHANGED shareVars
  /\ IF Runs("original")     THEN TRUE ELSE UNCHANGED originalVars
  /\ IF Runs("recovery")     THEN TRUE ELSE UNCHANGED recoveryVars
  /\ IF Runs("admission")    THEN TRUE ELSE UNCHANGED admissionVars
  /\ IF Runs("turn")         THEN TRUE ELSE UNCHANGED fairVars
  /\ IF Runs("scan")         THEN TRUE ELSE UNCHANGED scanVars

Next ==
  \/ Runs("session")      /\ SessionNext      /\ Rest
  \/ Runs("refresh")      /\ RefreshNext      /\ Rest
  \/ Runs("distribution") /\ DistributionNext /\ Rest
  \/ Runs("share")        /\ ShareNext        /\ Rest
  \/ Runs("original")     /\ OriginalNext     /\ Rest
  \/ Runs("recovery")     /\ RecoveryNext     /\ Rest
  \/ Runs("admission")    /\ AdmissionNext    /\ Rest
  \/ Runs("turn")         /\ FairNext         /\ Rest
  \/ Runs("scan")         /\ ScanNext         /\ Rest

Fairness ==
  /\ SessionFairness /\ RefreshFairness /\ ShareFairness /\ OriginalFairness
  /\ RecoveryFairness /\ FairFairness

vars == <<component, sessionVars, refreshVars, assetVars, shareVars, originalVars,
          recoveryVars, admissionVars, fairVars, scanVars>>

\* What was begun ends: a refresh of tokens, a batch of shares, a request to the storage and
\* a recovery job, whichever worker was killed and whichever message was lost, and the turn
\* comes to every tenant that waits and lives.
JobsSettle == RefreshSettles /\ BatchSettles /\ OriginalSettles /\ RecoveryCompletes /\ TurnComes

SafetySpec == Init /\ [][Next]_vars
Spec == SafetySpec /\ Fairness

\* Rows and tasks are interchangeable.
Alikes == Permutations(Task) \cup Permutations({r1, r2})

\* A long and three short calls of one application, two of them of one account.
CallSets ==
  [c \in Call |-> {rate, application} \cup IF c \in {c1, c2} THEN {} ELSE {account}]
Limit    == [k \in Limits |-> IF k = account THEN 1 ELSE 2]
Leases   == [c \in Call |-> IF c = c1 THEN 4 ELSE 1]
=============================================================================
