---------------------------- MODULE RecoveryJob ----------------------------
(***************************************************************************)
(* The recovery of a submission: a job that walks the submission's steps   *)
(* in pages and puts those that may safely go on back to work.             *)
(*                                                                         *)
(* A page is read in one transaction and every step of it is scheduled in  *)
(* another one, which looks again whether the run still owns the job and   *)
(* the step still may go on; the cursor moves with each step, so that a    *)
(* run that comes after a lost one continues where it ended.               *)
(*                                                                         *)
(* The query's conditions are one: the step is open.  Left out: what the   *)
(* kinds of recovery do to the step itself, which is in BuildStep.         *)
(***************************************************************************)
EXTENDS Tasks, FiniteSets

CONSTANTS RecoveryRow,  \* rows of submission_recovery
          LastStep,     \* steps are 1 .. LastStep, in the order of their ids
          PageSize,
          MaxReopened   \* bound: steps that fail again

ASSUME RecoveryOK == None \notin RecoveryRow /\ {LastStep, MaxReopened} \subseteq Nat
                     /\ PageSize \in Nat \ {0}

RStep == 1 .. LastStep

VARIABLES
  recovery,     \* submission_recovery
  recoverer,    \* the run whose lease_token it carries
  recoveryMail, \* revisions of its messages that no task has taken
  stepOpen,     \* the steps the query of RETRY or RECONCILE finds; others are at
                \*   work, finished or beyond recovery
  recoveryRun,  \* the task's place in process_recovery
  \* observation
  considered,   \* the steps a job has decided about
  openSince,    \* the steps that were open all the time since the request
  reopened, recoveryFaults

recoveryVars == <<recovery, recoverer, recoveryMail, stepOpen, recoveryRun, considered,
                  openSince, reopened, recoveryFaults>>

RecoveryTypeOK ==
  /\ recovery \in [RecoveryRow -> [state : {"NONE", "QUEUED", "RUNNING", "COMPLETED", "FAILED"},
                                revision : Nat, cursor : 0 .. LastStep, live : BOOLEAN,
                                scanned : Nat, scheduled : Nat]]
  /\ recoverer \in [RecoveryRow -> Task \cup {None}]
  /\ recoveryMail \in [RecoveryRow -> SUBSET Nat]
  /\ stepOpen \subseteq RStep
  /\ recoveryRun \in [Task -> [at : {"idle", "claimed", "page", "denied"},
                               job : RecoveryRow \cup {None}, revision : Nat,
                               page : SUBSET RStep, full : BOOLEAN]]
  /\ considered \in [RecoveryRow -> SUBSET RStep] /\ openSince \in [RecoveryRow -> SUBSET RStep]
  /\ reopened \in 0 .. MaxReopened /\ recoveryFaults \in 0 .. MaxCrashes

NoRecoveryRun == [at |-> "idle", job |-> None, revision |-> 0, page |-> {}, full |-> FALSE]

RecoveryInit ==
  /\ recovery = [j \in RecoveryRow |-> [state |-> "NONE", revision |-> 0, cursor |-> 0,
                                     live |-> FALSE, scanned |-> 0, scheduled |-> 0]]
  /\ recoverer = [j \in RecoveryRow |-> None] /\ recoveryMail = [j \in RecoveryRow |-> {}]
  /\ stepOpen \in SUBSET RStep
  /\ recoveryRun = [t \in Task |-> NoRecoveryRun]
  /\ considered = [j \in RecoveryRow |-> {}] /\ openSince = [j \in RecoveryRow |-> {}]
  /\ reopened = 0 /\ recoveryFaults = 0

-----------------------------------------------------------------------------
\* request_recovery: only if there is a candidate.  The request's identity is locked and
\* kept in a ledger, so that it makes one job.
RequestRecovery(j) ==
  /\ recovery[j].state = "NONE" /\ stepOpen # {}
  /\ recovery' = [recovery EXCEPT ![j].state = "QUEUED"]
  /\ recoveryMail' = [recoveryMail EXCEPT ![j] = {0}]
  /\ openSince' = [openSince EXCEPT ![j] = stepOpen]
  /\ UNCHANGED <<recoverer, stepOpen, recoveryRun, considered, reopened, recoveryFaults>>

RecoveryEnds(t) ==
  /\ recoveryRun' = [recoveryRun EXCEPT ![t] = NoRecoveryRun]
  /\ recoverer' = Forget(recoverer, t)

\* Mutant: a run owns the job as long as it runs.
OwnsRecovery_Running(t) == recovery[recoveryRun[t].job].state = "RUNNING"

\* _owned
OwnsRecovery(t) ==
  LET j == recoveryRun[t].job IN
  /\ recovery[j].state = "RUNNING" /\ recovery[j].live /\ recoverer[j] = t
  /\ recovery[j].revision = recoveryRun[t].revision

\* The claiming transaction of process_recovery.
TakeRecovery(t) ==
  /\ recoveryRun[t].at = "idle"
  /\ \E j \in RecoveryRow : \E r \in recoveryMail[j] :
       /\ recoveryMail' = [recoveryMail EXCEPT ![j] = @ \ {r}]
       /\ IF recovery[j].state \in {"COMPLETED", "FAILED"} \/ recovery[j].revision # r
             \/ recovery[j].live
          THEN UNCHANGED <<recovery, recoverer, recoveryRun>>
          ELSE /\ recovery' = [recovery EXCEPT ![j].state = "RUNNING", ![j].live = TRUE]
               /\ recoverer' = [recoverer EXCEPT ![j] = t]
               /\ recoveryRun' = [recoveryRun EXCEPT ![t] =
                    [NoRecoveryRun EXCEPT !.at = "claimed", !.job = j, !.revision = r]]
  /\ UNCHANGED <<stepOpen, considered, openSince, reopened, recoveryFaults>>

\* The first steps of a set, as many as a page holds.
FirstPage(steps) == {s \in steps : Cardinality({x \in steps : x < s}) < PageSize}

\* The page, read behind the cursor without asking whose job it is.
ReadPage(t) ==
  LET behind == {s \in stepOpen : s > recovery[recoveryRun[t].job].cursor} IN
  /\ recoveryRun[t].at = "claimed"
  /\ recoveryRun' = [recoveryRun EXCEPT ![t].at = "page", ![t].page = FirstPage(behind),
                                        ![t].full = Cardinality(FirstPage(behind)) = PageSize]
  /\ UNCHANGED <<recovery, recoverer, recoveryMail, stepOpen, considered, openSince,
                 reopened, recoveryFaults>>

\* One step of the page: _schedule queues it unless it is not open any more.
ScheduleStep(t) ==
  LET j == recoveryRun[t].job
      s == CHOOSE x \in recoveryRun[t].page : \A y \in recoveryRun[t].page : x <= y
  IN
  /\ recoveryRun[t].at = "page" /\ recoveryRun[t].page # {}
  /\ IF ~OwnsRecovery(t)
     THEN RecoveryEnds(t) /\ UNCHANGED <<recovery, stepOpen, considered, openSince>>
     ELSE /\ recovery' = [recovery EXCEPT ![j].cursor = s, ![j].scanned = @ + 1,
                            ![j].scheduled = IF s \in stepOpen THEN @ + 1 ELSE @]
          /\ stepOpen' = stepOpen \ {s}
          /\ considered' = [considered EXCEPT ![j] = @ \cup {s}]
          /\ openSince' = [i \in RecoveryRow |-> IF i = j THEN openSince[i] ELSE openSince[i] \ {s}]
          /\ recoveryRun' = [recoveryRun EXCEPT ![t].page = @ \ {s}]
          /\ UNCHANGED recoverer
  /\ UNCHANGED <<recoveryMail, reopened, recoveryFaults>>

\* A full page queues a further generation, which may find nothing.
FinishPage(t) ==
  LET j == recoveryRun[t].job IN
  /\ recoveryRun[t].at = "page" /\ recoveryRun[t].page = {}
  /\ IF ~OwnsRecovery(t) THEN UNCHANGED <<recovery, recoveryMail>>
     ELSE IF recoveryRun[t].full
     THEN /\ recovery' = [recovery EXCEPT ![j].live = FALSE, ![j].revision = @ + 1]
          /\ recoveryMail' = [recoveryMail EXCEPT ![j] = @ \cup {recovery[j].revision + 1}]
     ELSE /\ recovery' = [recovery EXCEPT ![j].live = FALSE, ![j].state = "COMPLETED"]
          /\ UNCHANGED recoveryMail
  /\ RecoveryEnds(t)
  /\ UNCHANGED <<stepOpen, considered, openSince, reopened, recoveryFaults>>

\* The authority, the route or a step's own request is refused (DomainError).
RecoveryDenied(t) ==
  /\ recoveryRun[t].at \in {"claimed", "page"}
  /\ recoveryRun[t].at = "page" => recoveryRun[t].page # {}
  /\ recoveryRun' = [recoveryRun EXCEPT ![t].at = "denied"]
  /\ UNCHANGED <<recovery, recoverer, recoveryMail, stepOpen, considered, openSince,
                 reopened, recoveryFaults>>

FailRecovery(t) ==
  /\ recoveryRun[t].at = "denied"
  /\ recovery' = IF OwnsRecovery(t)
                 THEN [recovery EXCEPT ![recoveryRun[t].job].state = "FAILED",
                                       ![recoveryRun[t].job].live = FALSE]
                 ELSE recovery
  /\ RecoveryEnds(t)
  /\ UNCHANGED <<recoveryMail, stepOpen, considered, openSince, reopened, recoveryFaults>>

-----------------------------------------------------------------------------
(* The steps themselves, faults and repair.                                *)

\* A step that was at work has failed in a way that may be recovered.
StepReopens(s) ==
  /\ s \notin stepOpen /\ reopened < MaxReopened
  /\ stepOpen' = stepOpen \cup {s} /\ reopened' = reopened + 1
  /\ UNCHANGED <<recovery, recoverer, recoveryMail, recoveryRun, considered, openSince,
                 recoveryFaults>>

\* Its unit, or an administrator, takes an open step up.
StepGoesOn(s) ==
  /\ s \in stepOpen
  /\ stepOpen' = stepOpen \ {s}
  /\ openSince' = [j \in RecoveryRow |-> openSince[j] \ {s}]
  /\ UNCHANGED <<recovery, recoverer, recoveryMail, recoveryRun, considered, reopened,
                 recoveryFaults>>

\* Killed, or ended by the hard time limit, which does not give the delivery back.
KillRecovery(t) ==
  /\ recoveryRun[t].at # "idle" /\ recoveryFaults < MaxCrashes
  /\ recoveryFaults' = recoveryFaults + 1
  /\ \/ recoveryMail' = [recoveryMail EXCEPT ![recoveryRun[t].job] = @ \cup {recoveryRun[t].revision}]
     \/ UNCHANGED recoveryMail
  /\ RecoveryEnds(t)
  /\ UNCHANGED <<recovery, stepOpen, considered, openSince, reopened>>

\* The lease (90 s) outlasts the task's hard limit (60 s); a host that stalls is a fault.
RecoveryLapses(j) ==
  /\ recovery[j].live
  /\ recovery' = [recovery EXCEPT ![j].live = FALSE]
  /\ \/ recoverer[j] = None /\ UNCHANGED recoveryFaults
     \/ /\ recoverer[j] # None /\ recoveryFaults < MaxCrashes
        /\ recoveryFaults' = recoveryFaults + 1
  /\ UNCHANGED <<recoverer, recoveryMail, stepOpen, recoveryRun, considered, openSince, reopened>>

\* Mutant: only a job that never ran is sent again.
RepairRecovery_Queued(j) ==
  /\ recovery[j].state = "QUEUED" /\ recovery[j].revision \notin recoveryMail[j]
  /\ recoveryMail' = [recoveryMail EXCEPT ![j] = @ \cup {recovery[j].revision}]
  /\ UNCHANGED <<recovery, recoverer, stepOpen, recoveryRun, considered, openSince, reopened,
                 recoveryFaults>>

\* repair_recoveries sends the current message again when it was delivered.
RepairRecovery(j) ==
  /\ recovery[j].state \in {"QUEUED", "RUNNING"} /\ ~recovery[j].live
  /\ recovery[j].revision \notin recoveryMail[j]
  /\ recoveryMail' = [recoveryMail EXCEPT ![j] = @ \cup {recovery[j].revision}]
  /\ UNCHANGED <<recovery, recoverer, stepOpen, recoveryRun, considered, openSince, reopened,
                 recoveryFaults>>

-----------------------------------------------------------------------------
RecoveryTask(t) ==
  TakeRecovery(t) \/ ReadPage(t) \/ ScheduleStep(t) \/ FinishPage(t) \/ FailRecovery(t)

RecoveryNext ==
  \/ \E j \in RecoveryRow : RequestRecovery(j) \/ RecoveryLapses(j) \/ RepairRecovery(j)
  \/ \E t \in Task : RecoveryTask(t) \/ RecoveryDenied(t) \/ KillRecovery(t)
  \/ \E s \in RStep : StepReopens(s) \/ StepGoesOn(s)

\* Tasks run, messages arrive, the repair task is periodic, and clocks go on.
RecoveryFairness ==
  /\ \A t \in Task : WF_recoveryVars(RecoveryTask(t))
  /\ \A j \in RecoveryRow : WF_recoveryVars(RepairRecovery(j)) /\ WF_recoveryVars(RecoveryLapses(j))

RecoverySpec == RecoveryInit /\ [][RecoveryNext]_recoveryVars /\ RecoveryFairness

-----------------------------------------------------------------------------
(* What must hold.                                                         *)

\* However often its run is lost or overtaken, a job decides about a step at most once
\* and counts what it did: what it reports is true (process_recovery).
EachStepOnce ==
  \A j \in RecoveryRow :
    /\ recovery[j].scanned = Cardinality(considered[j])
    /\ recovery[j].scheduled <= recovery[j].scanned
    /\ \A s \in considered[j] : s <= recovery[j].cursor

\* A job that is completed has decided about every step that was open when it was
\* requested and that nobody else took up since.
NothingPassedOver ==
  \A j \in RecoveryRow : recovery[j].state = "COMPLETED" => openSince[j] \subseteq considered[j]

\* What makes it so, step by step: a run belongs to its job; the cursor never passes a step
\* that is still to be decided about; and a page holds all such steps, or is full and
\* the others come behind it.
RunOfJob ==
  /\ \A t \in Task : recoveryRun[t].at # "idle" =>
       recoveryRun[t].job \in RecoveryRow /\ recovery[recoveryRun[t].job].state # "NONE"
  /\ \A j \in RecoveryRow : recoverer[j] # None =>
       recoveryRun[recoverer[j]].at # "idle" /\ recoveryRun[recoverer[j]].job = j
  /\ \A j \in RecoveryRow : recovery[j].state = "NONE" =>
       recovery[j].cursor = 0 /\ recoveryMail[j] = {}

BehindCursor ==
  \A j \in RecoveryRow : \A s \in openSince[j] \ considered[j] :
    s \in stepOpen /\ s > recovery[j].cursor

PageHoldsTheFirst ==
  \A j \in RecoveryRow, t \in Task :
    recoverer[j] = t /\ recoveryRun[t].at = "page" =>
      /\ \A s \in recoveryRun[t].page : s > recovery[j].cursor
      /\ \A s \in (openSince[j] \ considered[j]) \ recoveryRun[t].page :
           recoveryRun[t].full /\ \A x \in recoveryRun[t].page : x < s

RecoverySafe ==
  /\ RecoveryTypeOK /\ EachStepOnce /\ NothingPassedOver
  /\ RunOfJob /\ BehindCursor /\ PageHoldsTheFirst

\* A recovery that was accepted ends (repair_recoveries; the generations are finite).
RecoveryCompletes ==
  \A j \in RecoveryRow :
    recovery[j].state = "QUEUED" ~> recovery[j].state \in {"COMPLETED", "FAILED"}
=============================================================================
