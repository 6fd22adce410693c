------------------------------- MODULE Tasks -------------------------------
(***************************************************************************)
(* What the modules about Celery tasks share: the tasks that run at the    *)
(* same time.  A task takes a delivery, works in several transactions with *)
(* remote calls between them, and may be killed anywhere; celery_app sets  *)
(* task_acks_late and task_reject_on_worker_lost, so the broker gives the  *)
(* delivery of a task that was lost to another one, unless it was the hard *)
(* time limit that ended it.                                               *)
(***************************************************************************)
EXTENDS Naturals, Absent

CONSTANTS Task,        \* tasks that run at the same time
          MaxCrashes   \* bound: tasks killed in the middle, hosts that stall, calls not answered

ASSUME TasksOK == None \notin Task /\ MaxCrashes \in Nat

\* Claim tokens are fresh for every run of a task: once the run is over no
\* later run can present its token.
Forget(claim, t) ==
  [r \in DOMAIN claim |-> IF claim[r] = t THEN None ELSE claim[r]]
============================================================================
