----------------------------- MODULE BuildStep -----------------------------
(***************************************************************************)
(* One creation step (CTA, CAMPAIGN, ADGROUP or AD) of a submission unit:  *)
(* the execution_step row, the workers that execute it, the readers that   *)
(* reconcile it, its append-only evidence, and the advertising platform.   *)
(*                                                                         *)
(* A transaction of the code is one action; the network call between two   *)
(* transactions is several, so that every other actor can step in between. *)
(* Time is abstracted: due_at may pass at any moment, a lease may expire   *)
(* at any moment.  Messages of the current dispatch revision are delivered *)
(* any number of times, in any order (Celery acks late and redelivers);    *)
(* messages of an older revision change nothing and are left out.          *)
(*                                                                         *)
(* A worker's identity is the nonce (lease_token) of its claim, hence used *)
(* once, and names the remote object its request creates.                  *)
(***************************************************************************)
EXTENDS Naturals, FiniteSets, Absent

CONSTANTS Worker,       \* claims of the create executor
          Reader,       \* claims of the read-only reconciler
          Body,         \* request bodies that preparation may produce
          MaxProof,     \* facts that a proof may rest on (1000 in the code)
          MaxRevision,  \* bound: repeated requeueings stop at this revision
          MaxFaults     \* bound: crashes and leases that outlive their owner

ASSUME ConstantsOK == /\ None \notin Worker \cup Reader \cup Body
                      /\ None \notin {"execute", "reconcile", "final", "more"}
                      /\ Worker \cap Reader = {}
                      /\ MaxProof \in Nat
                      /\ MaxRevision \in Nat
                      /\ MaxFaults \in Nat

VARIABLES
  \* execution_step: state of the step
  status, phase, remoteId, body, attempt, mismatch,
  dependencyFailed,  \* error_code = "dependency_failed"
  \* execution_step: lease
  leaseToken,
  leaseLive,         \* lease_expires_at is in the future
  \* execution_step: dispatch
  revision,
  task,              \* dispatch_task of the current revision
  dispatched,        \* dispatch_id is set
  readDone,          \* dispatch_reconciliation_done
  delivery,          \* reconciliation_delivery remembered for this revision
  \* step_evidence
  evidence,
  \* create executors
  pc, claim,
  \* reconcilers
  rpc, read,
  \* the platform: requests that reached it, those that took effect
  requests, objects,
  \* observation: faults spent so far
  faults

stepVars     == <<status, phase, remoteId, body, attempt, mismatch, dependencyFailed>>
leaseVars    == <<leaseToken, leaseLive>>
dispatchVars == <<revision, task, dispatched, readDone, delivery>>
workerVars   == <<pc, claim>>
readerVars   == <<rpc, read>>
remoteVars   == <<requests, objects>>
vars == <<stepVars, leaseVars, dispatchVars, evidence, workerVars, readerVars,
          remoteVars, faults>>

----------------------------------------------------------------------------
Status == {"PENDING", "QUEUED", "RUNNING", "SUCCEEDED", "FAILED", "UNKNOWN"}
Phase  == {"IDLE", "CLAIMED", "REQUEST_ARMED", "DONE"}

\* Conclusions that some predicate of the code reads; the audit-only ones
\* (READBACK_PAGE, LATE_READBACK, ...) are left out.
Conclusion == {"REQUEST_ARMED", "NOT_SENT", "CREATED", "LATE_CREATED",
               "RESULT_UNKNOWN", "LEASE_EXPIRED_ARMED", "LOCAL_FAILED",
               "DEPENDENCY_FAILED", "DEPENDENCY_RECOVERED", "RETRY_REQUESTED",
               "RECONCILED"}

\* recovery stands for the submission_recovery that a RETRY_REQUESTED names, by the
\* revision it began; in other facts it is 0.
Fact == [conclusion : Conclusion, token : Worker \cup Reader \cup {None},
         attempt : Nat, remoteId : Worker \cup {None}, recovery : Nat]

Claim   == [revision : Nat, attempt : Nat, body : Body \cup {None}]
NoClaim == [revision |-> 0, attempt |-> 0, body |-> None]

Read   == [revision : Nat, attempt : Nat, known : Worker \cup {None},
           seen : SUBSET Worker, child : BOOLEAN, result : {None, "final", "more"}]
NoRead == [revision |-> 0, attempt |-> 0, known |-> None, seen |-> {},
           child |-> FALSE, result |-> None]

FlagsOK ==
  /\ mismatch \in BOOLEAN
  /\ dependencyFailed \in BOOLEAN
  /\ leaseLive \in BOOLEAN
  /\ dispatched \in BOOLEAN
  /\ readDone \in BOOLEAN

DataOK ==
  /\ status \in Status
  /\ phase \in Phase
  /\ remoteId \in Worker \cup {None}
  /\ body \in Body \cup {None}
  /\ attempt \in Nat
  /\ leaseToken \in Worker \cup Reader \cup {None}
  /\ revision \in Nat
  /\ task \in {None, "execute", "reconcile"}
  /\ delivery \in {None, "final", "more"}
  /\ evidence \subseteq Fact
  /\ pc \in [Worker -> {"idle", "claimed", "prepared", "armed", "cleared",
                        "sent", "answered", "recorded", "gone"}]
  /\ claim \in [Worker -> Claim]
  /\ rpc \in [Reader -> {"idle", "claimed", "seen", "deliver"}]
  /\ read \in [Reader -> Read]
  /\ requests \subseteq [worker : Worker, body : Body \cup {None}]
  /\ objects \subseteq Worker
  /\ faults \in Nat

TypeOK == DataOK /\ FlagsOK

Init ==
  /\ status = "PENDING" /\ phase = "IDLE" /\ remoteId = None /\ body = None
  /\ attempt = 0 /\ mismatch = FALSE /\ dependencyFailed = FALSE
  /\ leaseToken = None /\ leaseLive = FALSE
  /\ revision = 0 /\ task = None /\ dispatched = FALSE
  /\ readDone = FALSE /\ delivery = None
  /\ evidence = {}
  /\ pc = [w \in Worker |-> "idle"] /\ claim = [w \in Worker |-> NoClaim]
  /\ rpc = [r \in Reader |-> "idle"] /\ read = [r \in Reader |-> NoRead]
  /\ requests = {} /\ objects = {}
  /\ faults = 0

----------------------------------------------------------------------------
(* Evidence and the predicates read from it.                               *)

\* evidence(): with a claim the fact carries the claim's nonce and attempt,
\* without one it carries the row's.
Recorded(conclusion, token, count, id) ==
  evidence' = evidence \cup {[conclusion |-> conclusion, token |-> token,
                              attempt |-> count, remoteId |-> id, recovery |-> 0]}

RecordedBy(w, conclusion, id) == Recorded(conclusion, w, claim[w].attempt, id)

PossibleEffect(fact) ==
  \/ fact.remoteId # None
  \/ fact.conclusion \in {"CREATED", "LATE_CREATED", "RESULT_UNKNOWN",
                          "LEASE_EXPIRED_ARMED"}

\* What was recorded of the current attempt.
Proof == {e \in evidence : e.attempt = attempt}

\* UNSENT_ATTEMPT: every nonce that armed this body is proved not sent, by a proof that
\* is not too long to be read.
UnsentProof ==
  LET nonces == {e \in Proof : e.conclusion # "RETRY_REQUESTED"}
  IN /\ remoteId = None /\ ~mismatch /\ leaseToken = None /\ body # None
     /\ \A e \in evidence :
          /\ ~PossibleEffect(e)
          /\ e.conclusion \in {"REQUEST_ARMED", "NOT_SENT"} => e.attempt = attempt
     /\ nonces # {} /\ Cardinality(Proof) <= MaxProof
     /\ \A e \in nonces :
          /\ e.token # None
          /\ e.conclusion \in {"REQUEST_ARMED", "NOT_SENT"}
          /\ \A c \in {"REQUEST_ARMED", "NOT_SENT"} :
               \E f \in nonces : f.token = e.token /\ f.conclusion = c

SafelyUnsent == status \in {"PENDING", "QUEUED"} /\ phase = "IDLE" /\ UnsentProof

\* UNARMED_RETRY: this step has never armed a request.
NeverArmed ==
  /\ body = None
  /\ \A e \in evidence : ~PossibleEffect(e) /\ e.conclusion # "REQUEST_ARMED"

KnownIds ==
  ({e.remoteId : e \in {f \in evidence :
      f.conclusion \in {"CREATED", "LATE_CREATED", "RECONCILED"}}}
   \cup {remoteId}) \ {None}

----------------------------------------------------------------------------
(* Dispatch.                                                               *)

\* Mutant: the lease is ended but its nonce stays in the row.
ReleaseLease_Token == leaseLive' = FALSE /\ UNCHANGED leaseToken

ReleaseLease == leaseToken' = None /\ leaseLive' = FALSE

NewRevision(name) ==
  /\ revision' = revision + 1
  /\ task' = name
  /\ dispatched' = TRUE
  /\ delivery' = None

\* queue_step(reconcile=True): a create step keeps its status.
QueueRead == NewRevision("reconcile") /\ readDone' = FALSE

\* queue_step(reconcile=False): its guard, then the change; the guard speaks
\* of the row as the caller has just set it.
MayExecute == /\ remoteId = None
              /\ status \notin {"UNKNOWN", "SUCCEEDED"}
              /\ body = None \/ SafelyUnsent
QueueExecute == NewRevision("execute") /\ status' = "QUEUED" /\ UNCHANGED readDone

\* Bound on the requeueings that can repeat without limit.
Repeatable == revision < MaxRevision

FailLocally(conclusion, token) ==
  /\ status' = "FAILED" /\ phase' = "DONE"
  /\ Recorded(conclusion, token, attempt, None)

----------------------------------------------------------------------------
(* The create executor: process_step.                                      *)

\* Mutant: an armed request does not keep the step from being executed.
Executable_Armed == /\ task = "execute"
                    /\ status \in {"PENDING", "QUEUED", "RUNNING"}
                    /\ remoteId = None

\* Guards shared by process_step and claim_step.
Executable == /\ task = "execute"
              /\ status \in {"PENDING", "QUEUED", "RUNNING"}
              /\ remoteId = None
              /\ phase # "REQUEST_ARMED"

ClaimStep(w) ==
  /\ pc[w] = "idle"
  /\ Executable
  /\ ~leaseLive
  /\ body = None \/ SafelyUnsent
  /\ attempt' = IF body = None THEN attempt + 1 ELSE attempt
  /\ status' = "RUNNING" /\ phase' = "CLAIMED"
  /\ leaseToken' = w /\ leaseLive' = TRUE
  /\ pc' = [pc EXCEPT ![w] = "claimed"]
  /\ claim' = [claim EXCEPT ![w] = [revision |-> revision, attempt |-> attempt',
                                    body |-> None]]
  /\ UNCHANGED <<remoteId, body, mismatch, dependencyFailed, dispatchVars, evidence,
                 readerVars, remoteVars, faults>>

\* claim_step raises: permission or route lost (permission is checked before
\* the lease is), or a saved body that is not proved unsent, as happens after about
\* MaxProof \div 2 retries that sent nothing.
ClaimRefused ==
  /\ Executable
  /\ FailLocally("LOCAL_FAILED", leaseToken)
  /\ dependencyFailed' = FALSE
  /\ UNCHANGED <<remoteId, body, attempt, mismatch, leaseVars, dispatchVars,
                 workerVars, readerVars, remoteVars, faults>>

\* active_attempt
Active(w, expected) ==
  /\ status = "RUNNING" /\ phase = expected
  /\ leaseToken = w /\ leaseLive
  /\ attempt = claim[w].attempt
  /\ revision = claim[w].revision

\* The saved body is reused, otherwise one is prepared; nothing is locked and
\* the lease is not checked here.
Prepare(w) ==
  /\ pc[w] = "claimed"
  /\ \E b \in Body : /\ body # None => b = body
                     /\ claim' = [claim EXCEPT ![w].body = b]
  /\ pc' = [pc EXCEPT ![w] = "prepared"]
  /\ UNCHANGED <<stepVars, leaseVars, dispatchVars, evidence, readerVars,
                 remoteVars, faults>>

Leave(w) == /\ pc' = [pc EXCEPT ![w] = "gone"]
            /\ claim' = [claim EXCEPT ![w] = NoClaim]

\* finish_local through process_step, _local_result or _prepare_scene_dependency:
\* anything that goes wrong before the request is armed.
LocalOutcome(w, retryable) ==
  /\ pc[w] \in {"claimed", "prepared"}
  /\ Active(w, "CLAIMED")
  /\ IF retryable
     THEN status' = "PENDING" /\ phase' = "IDLE" /\ UNCHANGED evidence
     ELSE FailLocally("LOCAL_FAILED", w)
  /\ dependencyFailed' = FALSE
  /\ ReleaseLease
  /\ Leave(w)
  /\ UNCHANGED <<remoteId, body, attempt, mismatch, dispatchVars, readerVars,
                 remoteVars, faults>>

\* arm_request: committed before anything is sent.  The commit may also
\* succeed without the worker seeing it (seen = FALSE); it then takes the
\* local-failure path, which finds the row no longer CLAIMED.
Arm(w, seen) ==
  /\ pc[w] = "prepared"
  /\ Active(w, "CLAIMED") /\ remoteId = None
  /\ body \in {None, claim[w].body}
  /\ body' = claim[w].body
  /\ phase' = "REQUEST_ARMED"
  /\ RecordedBy(w, "REQUEST_ARMED", None)
  /\ IF seen THEN pc' = [pc EXCEPT ![w] = "armed"] /\ UNCHANGED claim ELSE Leave(w)
  /\ UNCHANGED <<status, remoteId, attempt, mismatch, dependencyFailed, leaseVars,
                 dispatchVars, readerVars, remoteVars, faults>>

\* before_request: a short transaction of its own just before the send.
CheckBeforeSend(w) ==
  /\ pc[w] = "armed"
  /\ Active(w, "REQUEST_ARMED")
  /\ pc' = [pc EXCEPT ![w] = "cleared"]
  /\ UNCHANGED <<stepVars, leaseVars, dispatchVars, evidence, claim, readerVars,
                 remoteVars, faults>>

\* Mutant: the body is prepared anew for the send.
Send_Rendered(w) ==
  /\ pc[w] = "cleared"
  /\ pc' = [pc EXCEPT ![w] = "sent"]
  /\ \E b \in Body : requests' = requests \cup {[worker |-> w, body |-> b]}
  /\ UNCHANGED <<stepVars, leaseVars, dispatchVars, evidence, claim, readerVars,
                 objects, faults>>

Send(w) ==
  /\ pc[w] = "cleared"
  /\ pc' = [pc EXCEPT ![w] = "sent"]
  /\ requests' = requests \cup {[worker |-> w, body |-> claim[w].body]}
  /\ UNCHANGED <<stepVars, leaseVars, dispatchVars, evidence, claim, readerVars,
                 objects, faults>>

\* Mutant: an error after the send is reported as NOT_SENT.
KnownUnsent_Late(w) == pc[w] \in {"armed", "cleared", "sent"}

\* The transport reports effect NOT_SENT: nothing of w's request has left.
KnownUnsent(w) == pc[w] \in {"armed", "cleared"}

\* record_not_sent: acts only for the live owner of the armed request and keeps
\* the saved body.
NotSent(w, retryable) ==
  /\ KnownUnsent(w)
  /\ Active(w, "REQUEST_ARMED")
  /\ RecordedBy(w, "NOT_SENT", None)
  /\ status' = IF retryable THEN "PENDING" ELSE "FAILED"
  /\ phase'  = IF retryable THEN "IDLE" ELSE "DONE"
  /\ dependencyFailed' = FALSE
  /\ ReleaseLease
  /\ Leave(w)
  /\ UNCHANGED <<remoteId, body, attempt, mismatch, dispatchVars, readerVars,
                 remoteVars, faults>>

\* Any other failure after arming: record_unknown, whoever owns the lease now;
\* the lease is left to expire.
RecordUnknown(w) ==
  /\ pc[w] \in {"armed", "cleared", "sent"}
  /\ RecordedBy(w, "RESULT_UNKNOWN", None)
  /\ status' = IF status = "SUCCEEDED" \/ remoteId # None THEN status ELSE "UNKNOWN"
  /\ Leave(w)
  /\ UNCHANGED <<phase, remoteId, body, attempt, mismatch, dependencyFailed, leaseVars,
                 dispatchVars, readerVars, remoteVars, faults>>

Answer(w) ==
  /\ pc[w] = "sent"
  /\ w \in objects
  /\ pc' = [pc EXCEPT ![w] = "answered"]
  /\ UNCHANGED <<stepVars, leaseVars, dispatchVars, evidence, claim, readerVars,
                 remoteVars, faults>>

\* record_created
RecordCreated(w) ==
  /\ pc[w] = "answered"
  /\ IF Active(w, "REQUEST_ARMED")
     THEN /\ RecordedBy(w, "CREATED", w)
          /\ remoteId' = w /\ status' = "SUCCEEDED" /\ phase' = "DONE"
          /\ ReleaseLease
          /\ UNCHANGED mismatch
     ELSE /\ RecordedBy(w, "LATE_CREATED", w)
          /\ IF status # "SUCCEEDED" /\ remoteId = None
             THEN status' = "UNKNOWN" /\ UNCHANGED mismatch
             ELSE mismatch' = (mismatch \/ remoteId # w) /\ UNCHANGED status
          /\ UNCHANGED <<phase, remoteId, leaseVars>>
  /\ pc' = [pc EXCEPT ![w] = "recorded"]
  /\ UNCHANGED <<body, attempt, dependencyFailed, dispatchVars, claim, readerVars,
                 remoteVars, faults>>

\* Mutant: the receipt is kept as evidence, the step is left as it is.
PreserveReceipt_Quiet(w) ==
  /\ pc[w] \in {"answered", "recorded"}
  /\ RecordedBy(w, "LATE_CREATED", w)
  /\ Leave(w)
  /\ UNCHANGED <<stepVars, leaseVars, dispatchVars, readerVars, remoteVars, faults>>

\* preserve_created_receipt: the success transaction failed, or something
\* failed after it.
PreserveReceipt(w) ==
  /\ pc[w] \in {"answered", "recorded"}
  /\ RecordedBy(w, "LATE_CREATED", w)
  /\ status' = IF remoteId = None /\ status # "SUCCEEDED" THEN "UNKNOWN" ELSE status
  /\ mismatch' = (mismatch \/ (remoteId # None /\ remoteId # w))
  /\ Leave(w)
  /\ UNCHANGED <<phase, remoteId, body, attempt, dependencyFailed, leaseVars,
                 dispatchVars, readerVars, remoteVars, faults>>

\* The task returns: its receipt is recorded, or it has lost its claim and its
\* last transaction found that it has nothing to write.
WorkerReturns(w) ==
  /\ \/ pc[w] = "recorded"
     \/ pc[w] \in {"claimed", "prepared"} /\ ~Active(w, "CLAIMED")
     \/ pc[w] \in {"armed", "cleared"} /\ ~Active(w, "REQUEST_ARMED")
  /\ Leave(w)
  /\ UNCHANGED <<stepVars, leaseVars, dispatchVars, evidence, readerVars,
                 remoteVars, faults>>

\* The process is killed (time limit, out of memory, deployment).
WorkerCrashes(w) ==
  /\ pc[w] \notin {"idle", "gone"}
  /\ faults < MaxFaults
  /\ faults' = faults + 1
  /\ Leave(w)
  /\ UNCHANGED <<stepVars, leaseVars, dispatchVars, evidence, readerVars, remoteVars>>

\* A request that reached the platform takes effect, perhaps much later.
TakesEffect(w) ==
  /\ \E q \in requests : q.worker = w
  /\ w \notin objects
  /\ objects' = objects \cup {w}
  /\ UNCHANGED <<stepVars, leaseVars, dispatchVars, evidence, workerVars, readerVars,
                 requests, faults>>

----------------------------------------------------------------------------
(* Time.                                                                   *)

OwnerRuns == \/ leaseToken \in Worker /\ pc[leaseToken] \notin {"idle", "gone"}
             \/ leaseToken \in Reader /\ rpc[leaseToken] \in {"claimed", "seen"}

\* 60 seconds passed and the owner has ended: it is killed after 45.
AbandonedLeaseExpires ==
  /\ leaseLive /\ ~OwnerRuns
  /\ leaseLive' = FALSE
  /\ UNCHANGED <<stepVars, leaseToken, dispatchVars, evidence, workerVars, readerVars,
                 remoteVars, faults>>

\* The owner outlives its lease (a stalled host, clocks apart).
LeaseOverrun ==
  /\ leaseLive /\ OwnerRuns
  /\ faults < MaxFaults
  /\ faults' = faults + 1
  /\ leaseLive' = FALSE
  /\ UNCHANGED <<stepVars, leaseToken, dispatchVars, evidence, workerVars, readerVars,
                 remoteVars>>

----------------------------------------------------------------------------
(* Scheduling: process_unit and repair_execution, as they treat this step. *)

DependenciesReady ==
  /\ status = "PENDING"
  /\ MayExecute
  /\ QueueExecute
  /\ UNCHANGED <<phase, remoteId, body, attempt, mismatch, dependencyFailed, leaseVars,
                 evidence, workerVars, readerVars, remoteVars, faults>>

DependencyFails ==
  /\ status = "PENDING"
  /\ FailLocally("DEPENDENCY_FAILED", leaseToken)
  /\ dependencyFailed' = TRUE
  /\ UNCHANGED <<remoteId, body, attempt, mismatch, leaseVars, dispatchVars,
                 workerVars, readerVars, remoteVars, faults>>

\* A step that failed only because of its dependency, now satisfied.
DependencyRecovers ==
  /\ status = "FAILED" /\ dependencyFailed /\ phase = "DONE"
  /\ ~dispatched /\ leaseToken = None /\ remoteId = None /\ ~mismatch
  /\ NeverArmed
  /\ Repeatable
  /\ phase' = "IDLE"
  /\ dependencyFailed' = FALSE
  /\ Recorded("DEPENDENCY_RECOVERED", None, attempt, None)
  /\ QueueExecute
  /\ UNCHANGED <<remoteId, body, attempt, mismatch, leaseVars, workerVars, readerVars,
                 remoteVars, faults>>

\* Mutant: everything unfinished fails, saved body or not.
PermissionLost_All ==
  /\ status \in {"PENDING", "QUEUED", "RUNNING"}
  /\ FailLocally("LOCAL_FAILED", None)
  /\ dependencyFailed' = FALSE
  /\ ReleaseLease
  /\ UNCHANGED <<remoteId, body, attempt, mismatch, dispatchVars, workerVars,
                 readerVars, remoteVars, faults>>

\* The submitter lost the build permission: what has no saved body fails.
PermissionLost ==
  /\ status \in {"PENDING", "QUEUED", "RUNNING"}
  /\ body = None /\ remoteId = None
  /\ FailLocally("LOCAL_FAILED", None)
  /\ dependencyFailed' = FALSE
  /\ ReleaseLease
  /\ UNCHANGED <<remoteId, body, attempt, mismatch, dispatchVars, workerVars,
                 readerVars, remoteVars, faults>>

\* Mutant: an armed attempt is left to its own worker.
ExpireArmed_Lazy ==
  /\ status = "RUNNING" /\ ~leaseLive
  /\ phase # "REQUEST_ARMED" /\ body # None
  /\ status' = "UNKNOWN"
  /\ Recorded("LEASE_EXPIRED_ARMED", leaseToken, attempt, None)
  /\ QueueRead
  /\ UNCHANGED <<phase, remoteId, body, attempt, mismatch, dependencyFailed, leaseVars,
                 workerVars, readerVars, remoteVars, faults>>

\* expire_attempt, armed or with a saved body, then queue_step(reconcile=True).
ExpireArmed ==
  /\ status = "RUNNING" /\ ~leaseLive
  /\ phase = "REQUEST_ARMED" \/ body # None
  /\ status' = "UNKNOWN"
  /\ Recorded("LEASE_EXPIRED_ARMED", leaseToken, attempt, None)
  /\ QueueRead
  /\ UNCHANGED <<phase, remoteId, body, attempt, mismatch, dependencyFailed, leaseVars,
                 workerVars, readerVars, remoteVars, faults>>

\* expire_attempt, unarmed: back to PENDING; process_unit queues it again when
\* its dependencies allow, repair_execution republishes the same message.
ExpireUnarmed(requeue) ==
  /\ status = "RUNNING" /\ ~leaseLive
  /\ phase # "REQUEST_ARMED" /\ body = None
  /\ phase' = "IDLE"
  /\ ReleaseLease
  /\ IF requeue THEN QueueExecute ELSE status' = "PENDING" /\ UNCHANGED dispatchVars
  /\ UNCHANGED <<remoteId, body, attempt, mismatch, dependencyFailed, evidence,
                 workerVars, readerVars, remoteVars, faults>>

\* process_unit meets an unknown step whose read is neither done nor queued.
ReadUnknown ==
  /\ status = "UNKNOWN" /\ ~readDone
  /\ ~(dispatched /\ task = "reconcile")
  /\ QueueRead
  /\ UNCHANGED <<stepVars, leaseVars, evidence, workerVars, readerVars, remoteVars,
                 faults>>

\* finish_delivery after process_step; a repeated delivery reaches it without
\* having done anything.
FinishExecute ==
  /\ task = "execute" /\ dispatched
  /\ \/ /\ status \in {"PENDING", "QUEUED"}
        /\ Repeatable /\ MayExecute
        /\ QueueExecute
     \/ /\ status = "UNKNOWN"
        /\ QueueRead
        /\ UNCHANGED status
     \/ /\ status \in {"SUCCEEDED", "FAILED"}
        /\ dispatched' = FALSE
        /\ UNCHANGED <<status, revision, task, readDone, delivery>>
  /\ UNCHANGED <<phase, remoteId, body, attempt, mismatch, dependencyFailed, leaseVars,
                 evidence, workerVars, readerVars, remoteVars, faults>>

----------------------------------------------------------------------------
(* The reconciler: process_reconciliation.                                 *)

ToRead == task = "reconcile" /\ delivery = None /\ status \in {"UNKNOWN", "SUCCEEDED"}

\* The single known object, or None.
TheKnown(id) == KnownIds = {id} \ {None}

StartRead(r, id, count, isChild) ==
  /\ leaseToken' = r /\ leaseLive' = TRUE
  /\ rpc' = [rpc EXCEPT ![r] = "claimed"]
  /\ read' = [read EXCEPT ![r] = [revision |-> revision, attempt |-> count,
                                  known |-> id, seen |-> {}, child |-> isChild,
                                  result |-> None]]

\* _claim on the create step itself
ClaimRead(r) ==
  /\ rpc[r] = "idle"
  /\ ToRead /\ ~leaseLive /\ body # None
  /\ attempt' = attempt + 1
  /\ \E id \in Worker \cup {None} : TheKnown(id) /\ StartRead(r, id, attempt + 1, FALSE)
  /\ UNCHANGED <<status, phase, remoteId, body, mismatch, dependencyFailed,
                 dispatchVars, evidence, workerVars, remoteVars, faults>>

\* _claim on the READBACK child of a created object: it takes the parent's
\* lease too and counts its own attempts.
ClaimReadback(r) ==
  /\ rpc[r] = "idle"
  /\ status = "SUCCEEDED" /\ remoteId # None /\ ~leaseLive
  /\ TheKnown(remoteId)
  /\ StartRead(r, remoteId, attempt, TRUE)
  /\ UNCHANGED <<stepVars, dispatchVars, evidence, workerVars, remoteVars, faults>>

\* Mutant: a doubtful read undoes a success.
InDoubt_Always == status' = "UNKNOWN" /\ UNCHANGED mismatch

\* _unknown on the create step
InDoubt == /\ status' = IF status = "SUCCEEDED" /\ remoteId # None THEN status ELSE "UNKNOWN"
           /\ mismatch' = (mismatch \/ (status = "SUCCEEDED" /\ remoteId # None))

Deliver(r, outcome) ==
  /\ rpc' = [rpc EXCEPT ![r] = "deliver"]
  /\ read' = [read EXCEPT ![r] = [NoRead EXCEPT !.revision = revision, !.result = outcome]]

\* _claim refuses: authorization changed, intent or saved body incomplete.
ReadBlocked(r) ==
  /\ rpc[r] = "idle"
  /\ ToRead /\ ~leaseLive
  /\ InDoubt
  /\ Deliver(r, "final")
  /\ UNCHANGED <<phase, remoteId, body, attempt, dependencyFailed, leaseVars,
                 dispatchVars, evidence, workerVars, remoteVars, faults>>

\* _claim answers without reading: the remembered result of this revision.
ReplayDelivery(r) ==
  /\ rpc[r] = "idle"
  /\ task = "reconcile" /\ dispatched /\ delivery # None
  /\ Deliver(r, delivery)
  /\ UNCHANGED <<stepVars, leaseVars, dispatchVars, evidence, workerVars, remoteVars,
                 faults>>

\* _active
ReaderActive(r) ==
  /\ leaseToken = r /\ leaseLive
  /\ attempt = read[r].attempt
  /\ revision = read[r].revision

\* before_request, then the page comes back.
ReadPlatform(r) ==
  /\ rpc[r] = "claimed"
  /\ ReaderActive(r)
  /\ rpc' = [rpc EXCEPT ![r] = "seen"]
  /\ read' = [read EXCEPT ![r].seen =
                IF read[r].known = None THEN objects ELSE objects \cap {read[r].known}]
  /\ UNCHANGED <<stepVars, leaseVars, dispatchVars, evidence, workerVars, remoteVars,
                 faults>>

\* _finish without a proof: error, unfinished paging, or nothing conclusive.
\* An error after which the read is to be repeated, and an unfinished scan,
\* ask for more.
ReadInconclusive(r, outcome) ==
  /\ rpc[r] \in {"claimed", "seen"}
  /\ ReaderActive(r)
  /\ outcome = "more" => Repeatable
  /\ ReleaseLease
  /\ IF read[r].child
     THEN /\ rpc' = [rpc EXCEPT ![r] = "idle"]
          /\ read' = [read EXCEPT ![r] = NoRead]
          /\ UNCHANGED <<status, mismatch, delivery>>
     ELSE /\ InDoubt
          /\ delivery' = outcome
          /\ Deliver(r, outcome)
  /\ UNCHANGED <<phase, remoteId, body, attempt, dependencyFailed, revision, task,
                 dispatched, readDone, evidence, workerVars, remoteVars, faults>>

\* _finish with exactly one match, and no receipt that appeared meanwhile.
ReadConfirmed(r, differs) ==
  /\ rpc[r] = "seen"
  /\ ReaderActive(r)
  /\ \E id \in Worker :
       /\ read[r].seen = {id}
       /\ KnownIds = {read[r].known} \ {None}
       /\ remoteId' = id
       /\ Recorded("RECONCILED", r, attempt, id)
  /\ status' = "SUCCEEDED" /\ phase' = "DONE" /\ mismatch' = differs
  /\ ReleaseLease
  /\ IF read[r].child
     THEN /\ rpc' = [rpc EXCEPT ![r] = "idle"]
          /\ read' = [read EXCEPT ![r] = NoRead]
          /\ UNCHANGED delivery
     ELSE delivery' = "final" /\ Deliver(r, "final")
  /\ UNCHANGED <<body, attempt, dependencyFailed, revision, task, dispatched, readDone,
                 workerVars, requests, objects, faults>>

\* The reader lost its claim (_finish answers STALE) or is killed.
ReaderLeaves(r) ==
  /\ rpc[r] \in {"claimed", "seen"} /\ ~ReaderActive(r)
  /\ rpc' = [rpc EXCEPT ![r] = "idle"]
  /\ read' = [read EXCEPT ![r] = NoRead]
  /\ UNCHANGED <<stepVars, leaseVars, dispatchVars, evidence, workerVars, remoteVars,
                 faults>>

ReaderCrashes(r) ==
  /\ rpc[r] # "idle"
  /\ faults < MaxFaults
  /\ faults' = faults + 1
  /\ rpc' = [rpc EXCEPT ![r] = "idle"]
  /\ read' = [read EXCEPT ![r] = NoRead]
  /\ UNCHANGED <<stepVars, leaseVars, dispatchVars, evidence, workerVars, remoteVars>>

\* Mutants: that the read is done is not noted; its message stays outstanding.
EndRead_Unmarked ==
  dispatched' = FALSE /\ UNCHANGED <<revision, task, readDone, delivery>>
EndRead_Unacknowledged ==
  readDone' = TRUE /\ UNCHANGED <<revision, task, dispatched, delivery>>

\* The read of this step is over.
EndRead == readDone' = TRUE /\ dispatched' = FALSE /\ UNCHANGED <<revision, task, delivery>>

\* finish_delivery with a read result, fenced by the revision it was read for.
FinishRead(r) ==
  /\ rpc[r] = "deliver"
  /\ IF read[r].revision = revision /\ dispatched
     THEN IF read[r].result = "more"
          THEN QueueRead
          ELSE EndRead
     ELSE UNCHANGED dispatchVars
  /\ rpc' = [rpc EXCEPT ![r] = "idle"]
  /\ read' = [read EXCEPT ![r] = NoRead]
  /\ UNCHANGED <<stepVars, leaseVars, evidence, workerVars, remoteVars, faults>>

----------------------------------------------------------------------------
(* Recovery requested by a user: _schedule, for a candidate of its query.  *)

Retry ==
  /\ status = "FAILED" /\ remoteId = None /\ phase # "REQUEST_ARMED"
  /\ ~dispatched /\ ~leaseLive
  /\ NeverArmed \/ (phase = "DONE" /\ UnsentProof)
  /\ Repeatable
  /\ phase' = "IDLE"
  /\ dependencyFailed' = FALSE
  /\ ReleaseLease
  /\ evidence' = evidence \cup
       {[conclusion |-> "RETRY_REQUESTED", token |-> None, attempt |-> attempt,
         remoteId |-> None, recovery |-> revision + 1]}
  /\ QueueExecute
  /\ UNCHANGED <<remoteId, body, attempt, mismatch, workerVars, readerVars,
                 remoteVars, faults>>

Reconcile ==
  /\ status = "UNKNOWN" \/ mismatch
  /\ ~dispatched /\ ~leaseLive
  /\ Repeatable
  /\ QueueRead
  /\ UNCHANGED <<stepVars, leaseVars, evidence, workerVars, readerVars, remoteVars,
                 faults>>

----------------------------------------------------------------------------
WorkerNext(w) ==
  \/ ClaimStep(w) \/ Prepare(w) \/ CheckBeforeSend(w) \/ Send(w)
  \/ RecordUnknown(w) \/ Answer(w) \/ RecordCreated(w) \/ PreserveReceipt(w)
  \/ WorkerReturns(w) \/ WorkerCrashes(w) \/ TakesEffect(w)
  \/ \E b \in BOOLEAN : LocalOutcome(w, b) \/ Arm(w, b) \/ NotSent(w, b)

ReaderNext(r) ==
  \/ ClaimRead(r) \/ ClaimReadback(r) \/ ReadBlocked(r) \/ ReplayDelivery(r)
  \/ ReadPlatform(r) \/ ReaderLeaves(r) \/ ReaderCrashes(r) \/ FinishRead(r)
  \/ \E outcome \in {"final", "more"} : ReadInconclusive(r, outcome)
  \/ \E differs \in BOOLEAN : ReadConfirmed(r, differs)

SchedulerNext ==
  \/ DependenciesReady \/ DependencyFails \/ DependencyRecovers \/ PermissionLost
  \/ ClaimRefused \/ ExpireArmed \/ ReadUnknown \/ FinishExecute
  \/ \E b \in BOOLEAN : ExpireUnarmed(b)

Next == \/ \E w \in Worker : WorkerNext(w)
        \/ \E r \in Reader : ReaderNext(r)
        \/ SchedulerNext
        \/ AbandonedLeaseExpires \/ LeaseOverrun
        \/ Retry \/ Reconcile

Spec == Init /\ [][Next]_vars

----------------------------------------------------------------------------
(* Safety.                                                                 *)

\* A create request was sent, or its worker may still send it.
Exposed == {q.worker : q \in requests} \cup {w \in Worker : pc[w] \in {"armed", "cleared"}}

\* The platform is asked to create the object at most once, through every
\* redelivery, expiry, retry and recovery of the step.
AtMostOneRequest == \A p, q \in requests : p = q

\* A step reported FAILED (which a user may retry) has sent nothing, and no
\* worker is left that could still send.
FailedMeansUnsent == status = "FAILED" => Exposed = {}

\* What the platform received is the body saved in the row, which readback
\* compares with, even when that body was prepared by an earlier attempt.
SentBodyIsSaved == \A q \in requests : q.body = body

\* A step reported SUCCEEDED names an object its own request created.
SuccessIsReal == status = "SUCCEEDED" => remoteId \in objects

\* The durable evidence that lets a saved body be sent again is never wrong:
\* it only holds when no request was sent or can be sent.
UnsentProofIsSound == UnsentProof => Exposed = {}

\* A step waiting to be executed with a saved body can be executed, through any
\* retries and recoveries, until its proof is too long: queue_step and claim_step, which
\* refuse a body that is not proved unsent, have no other reason to refuse it.  (Every
\* retry of an attempt adds two facts.  Beyond the limit claim_step gives the step up,
\* which FailedMeansUnsent is about.)
WaitingBodyIsUsable ==
  status \in {"PENDING", "QUEUED"} /\ body # None /\ Cardinality(Proof) <= MaxProof
    => SafelyUnsent

\* A receipt, once recorded, is either the step's result or keeps the step
\* UNKNOWN until it is reconciled: it is never lost to FAILED or to the queue.
ReceiptIsKept ==
  \A e \in evidence : e.remoteId # None =>
    \/ status = "UNKNOWN"
    \/ status = "SUCCEEDED" /\ (remoteId = e.remoteId \/ mismatch)

\* An unknown step is never forgotten: either its read has been concluded, or
\* a delivery is outstanding that leads to one.
UnknownIsWatched == status = "UNKNOWN" => readDone \/ dispatched

\* No step goes back from UNKNOWN or SUCCEEDED to the create queue or to
\* FAILED; the object id of a success and a saved body never change.
NoReplay ==
  [][/\ status = "UNKNOWN" => status' \in {"UNKNOWN", "SUCCEEDED"}
     /\ status = "SUCCEEDED" => status' = "SUCCEEDED"
     /\ remoteId # None => remoteId' = remoteId
     /\ body # None => body' = body]_<<status, remoteId, body>>

(* The inductive invariant behind these properties, in named parts.        *)

\* Only an armed, unknown or successful step can have asked, an armed one
\* through its owner, and all that has asked or may ask is one worker.
ExposureInv ==
  /\ \/ status \in {"PENDING", "QUEUED", "FAILED"}
     \/ status = "RUNNING" /\ phase # "REQUEST_ARMED"
     => Exposed = {}
  /\ status = "RUNNING" => Exposed \subseteq {leaseToken}
  /\ \A u, v \in Exposed : u = v

\* The body on its way to the platform is the saved one.
BodyInv ==
  /\ \A q \in requests : q.body = body /\ body # None
  /\ \A w \in Worker :
       /\ pc[w] \in {"prepared", "armed", "cleared"} => claim[w].body \in Body
       /\ KnownUnsent(w) => claim[w].body = body
       /\ pc[w] \in {"claimed", "prepared", "armed", "cleared"} =>
            \A q \in requests : q.worker # w
       /\ pc[w] = "sent" => \E q \in requests : q.worker = w

\* What is known of the object comes from the platform.
ObjectInv ==
  /\ status = "SUCCEEDED" <=> remoteId # None
  /\ remoteId # None => remoteId \in objects
  /\ \A e \in evidence : e.remoteId # None =>
       e.remoteId \in objects /\ status \in {"UNKNOWN", "SUCCEEDED"}
  /\ objects \subseteq {q.worker : q \in requests}
  /\ \A w \in Worker : pc[w] \in {"answered", "recorded"} => w \in objects
  /\ \A r \in Reader : read[r].seen \subseteq objects

\* Every exposed worker armed, and none was declared unsent.
EvidenceInv ==
  /\ \A w \in Exposed : \E e \in evidence : e.conclusion = "REQUEST_ARMED" /\ e.token = w
  /\ \A e \in evidence : e.conclusion = "NOT_SENT" => e.token \notin Exposed
  /\ \A w \in Worker : pc[w] \in {"idle", "claimed", "prepared"} =>
       \A e \in evidence : e.conclusion = "NOT_SENT" => e.token # w

\* Reads belong to unknown and successful steps, claims to queued ones.
DispatchInv ==
  /\ \/ task = "reconcile"
     \/ mismatch
     \/ \E r \in Reader : rpc[r] # "idle"
     => status \in {"UNKNOWN", "SUCCEEDED"}
  /\ status \in {"QUEUED", "RUNNING"} => task = "execute"
  /\ status \in {"PENDING", "QUEUED", "RUNNING"} /\ task = "execute" => dispatched
  /\ status = "UNKNOWN" => readDone \/ dispatched

IInv == /\ TypeOK /\ ExposureInv /\ BodyInv /\ ObjectInv /\ EvidenceInv /\ DispatchInv

(* Refinement: the step implements CreateOnce.                             *)
verdict == CASE status = "SUCCEEDED" -> "known"
             [] status = "UNKNOWN" -> "unknown"
             [] status = "FAILED" -> "failed"
             [] OTHER -> "open"

Once == INSTANCE CreateOnce WITH asked <- requests # {}

\* Every behaviour of the step is one that CreateOnce allows.
ImplementsCreateOnce == Once!OnceSpec

----------------------------------------------------------------------------
(* Liveness.  Fairness: leases run out with time; repair_execution is a    *)
(* periodic task; the broker keeps redelivering the current message until  *)
(* it is acknowledged and repair republishes it afterwards; a task that    *)
(* started returns or is killed.                                           *)
ReaderProgress == \E r \in Reader :
  \/ ClaimRead(r) \/ ReadBlocked(r) \/ ReplayDelivery(r) \/ ReadPlatform(r)
  \/ ReaderLeaves(r) \/ FinishRead(r)
  \/ ReadInconclusive(r, "final") \/ \E differs \in BOOLEAN : ReadConfirmed(r, differs)

WorkerProgress(w) ==
  \/ Prepare(w) \/ CheckBeforeSend(w) \/ Send(w) \/ Answer(w) \/ RecordUnknown(w)
  \/ RecordCreated(w) \/ PreserveReceipt(w) \/ WorkerReturns(w)
  \/ \E b \in BOOLEAN : LocalOutcome(w, b) \/ Arm(w, b) \/ NotSent(w, b)

Fairness ==
  /\ WF_vars(AbandonedLeaseExpires)
  /\ WF_vars(ExpireArmed \/ ExpireUnarmed(FALSE))
  /\ WF_vars(ReadUnknown) /\ WF_vars(FinishExecute)
  /\ WF_vars(ReaderProgress)
  /\ \A w \in Worker : WF_vars(WorkerProgress(w))

\* An armed request is never left hanging: its step leaves REQUEST_ARMED with
\* an answer, with a proof that nothing was sent, or as UNKNOWN.
ArmedIsSettled ==
  status = "RUNNING" /\ phase = "REQUEST_ARMED" ~> status # "RUNNING"

\* Every unknown step is read back until it is confirmed or the read concludes
\* that a person must look at it.
UnknownIsConcluded ==
  status = "UNKNOWN" ~> status = "SUCCEEDED" \/ (readDone /\ ~dispatched)
=============================================================================
