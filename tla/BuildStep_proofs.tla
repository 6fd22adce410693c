------------------------- MODULE BuildStep_proofs -------------------------
(* What BuildStep guarantees for any sets of claims, readers and bodies.   *)
EXTENDS BuildStep, TLAPS

(***************************************************************************)
(* Type correctness.                                                       *)
(***************************************************************************)
LEMMA NullRecords == NoClaim \in Claim /\ NoRead \in Read
  BY DEF NoClaim, Claim, NoRead, Read

\* Every action leaves the flags Boolean.
LEMMA FlagsStep == FlagsOK /\ [Next]_vars => FlagsOK'
<1> SUFFICES ASSUME FlagsOK, [Next]_vars PROVE FlagsOK'
  OBVIOUS
<1> USE DEF FlagsOK, ReleaseLease, stepVars, leaseVars, dispatchVars
<1>1. CASE UNCHANGED vars
  BY <1>1, Zenon DEF vars
<1>2. ASSUME NEW w \in Worker, WorkerNext(w) PROVE FlagsOK'
  <2>1. CASE ClaimStep(w) \/ Prepare(w) \/ CheckBeforeSend(w) \/ Send(w) \/ RecordUnknown(w)
             \/ Answer(w)
    BY ZenonT(90), <2>1, Zenon DEF ClaimStep, Prepare, CheckBeforeSend, Send,
       RecordUnknown, Answer
  <2>2. CASE RecordCreated(w)
    BY <2>2, Zenon DEF RecordCreated
  <2>3. CASE PreserveReceipt(w)
    BY <2>3, Zenon DEF PreserveReceipt
  <2>4. CASE WorkerReturns(w) \/ WorkerCrashes(w) \/ TakesEffect(w)
    BY <2>4, Zenon DEF WorkerReturns, WorkerCrashes, TakesEffect
  <2>5. ASSUME NEW b \in BOOLEAN, LocalOutcome(w, b) \/ Arm(w, b) \/ NotSent(w, b)
        PROVE  FlagsOK'
    BY <2>5, Zenon DEF LocalOutcome, Arm, NotSent
  <2> QED
    BY <1>2, <2>1, <2>2, <2>3, <2>4, <2>5, Zenon DEF WorkerNext
<1>3. ASSUME NEW r \in Reader, ReaderNext(r) PROVE FlagsOK'
  <2>1. CASE ClaimRead(r)
    BY <2>1, Zenon DEF ClaimRead, StartRead
  <2>2. CASE ClaimReadback(r)
    BY <2>2, Zenon DEF ClaimReadback, StartRead
  <2>3. CASE ReadBlocked(r) \/ ReplayDelivery(r)
    BY <2>3, Zenon DEF ReadBlocked, ReplayDelivery, InDoubt
  <2>4. CASE ReadPlatform(r) \/ ReaderLeaves(r) \/ ReaderCrashes(r)
    BY <2>4, Zenon DEF ReadPlatform, ReaderLeaves, ReaderCrashes
  <2>5. CASE FinishRead(r)
    BY <2>5, Zenon DEF FinishRead, EndRead, QueueRead, NewRevision
  <2>6. ASSUME NEW o \in {"final", "more"}, ReadInconclusive(r, o) PROVE FlagsOK'
    BY <2>6, Zenon DEF ReadInconclusive, InDoubt
  <2>7. ASSUME NEW d \in BOOLEAN, ReadConfirmed(r, d) PROVE FlagsOK'
    BY <2>7, Zenon DEF ReadConfirmed
  <2> QED
    BY <1>3, <2>1, <2>2, <2>3, <2>4, <2>5, <2>6, <2>7, Zenon DEF ReaderNext
<1>4. CASE SchedulerNext
  <2> USE DEF QueueRead, QueueExecute, NewRevision
  <2>1. CASE DependenciesReady \/ DependencyFails \/ DependencyRecovers
    BY <2>1, Zenon DEF DependenciesReady, DependencyFails, DependencyRecovers
  <2>2. CASE PermissionLost \/ ClaimRefused \/ ExpireArmed \/ ReadUnknown
    BY <2>2, Zenon DEF PermissionLost, ClaimRefused, ExpireArmed, ReadUnknown
  <2>3. CASE FinishExecute
    BY <2>3, Zenon DEF FinishExecute
  <2>4. ASSUME NEW b \in BOOLEAN, ExpireUnarmed(b) PROVE FlagsOK'
    BY <2>4, Zenon DEF ExpireUnarmed
  <2> QED
    BY <1>4, <2>1, <2>2, <2>3, <2>4, Zenon DEF SchedulerNext
<1>5. CASE AbandonedLeaseExpires \/ LeaseOverrun
  BY <1>5, Zenon DEF AbandonedLeaseExpires, LeaseOverrun
<1>6. CASE Retry \/ Reconcile
  BY <1>6, Zenon DEF Retry, Reconcile, QueueRead, QueueExecute, NewRevision
<1> QED
  BY <1>1, <1>2, <1>3, <1>4, <1>5, <1>6, Zenon DEF Next

LEMMA DataWorker ==
  ASSUME DataOK, NEW w \in Worker, WorkerNext(w)
  PROVE  DataOK'
<1> USE NullRecords DEF DataOK, Status, Phase, Leave, ReleaseLease, Recorded, RecordedBy,
                        Fact, Conclusion, readerVars, remoteVars, dispatchVars, leaseVars,
                        stepVars, workerVars
<1>1. CASE ClaimStep(w)
  BY <1>1 DEF ClaimStep, Claim
<1>2. CASE Prepare(w)
  <2>1. PICK b \in Body : claim' = [claim EXCEPT ![w] = [claim[w] EXCEPT !.body = b]]
    BY <1>2 DEF Prepare
  <2>2. [claim[w] EXCEPT !.body = b] \in Claim
    BY DEF Claim
  <2> QED
    BY <1>2, <2>1, <2>2 DEF Prepare
<1>3. CASE CheckBeforeSend(w) \/ Answer(w)
  BY <1>3 DEF CheckBeforeSend, Answer
<1>4. CASE Send(w)
  BY <1>4 DEF Send, Claim
<1>5. CASE RecordUnknown(w)
  BY <1>5 DEF RecordUnknown, Claim
<1>7. CASE RecordCreated(w)
  BY <1>7 DEF RecordCreated, Claim
<1>8. CASE PreserveReceipt(w)
  BY <1>8 DEF PreserveReceipt, Claim
<1>9. CASE WorkerReturns(w) \/ WorkerCrashes(w) \/ TakesEffect(w)
  BY <1>9 DEF WorkerReturns, WorkerCrashes, TakesEffect
<1>10. ASSUME NEW b \in BOOLEAN, LocalOutcome(w, b) PROVE DataOK'
  <2>1. CASE b
    BY <1>10, <2>1 DEF LocalOutcome, Claim
  <2>2. CASE ~b
    BY <1>10, <2>2 DEF LocalOutcome, FailLocally, Claim
  <2> QED
    BY <2>1, <2>2
<1>11. ASSUME NEW b \in BOOLEAN, Arm(w, b) PROVE DataOK'
  <2>1. CASE b
    BY <1>11, <2>1 DEF Arm, Claim
  <2>2. CASE ~b
    BY <1>11, <2>2 DEF Arm, Claim
  <2> QED
    BY <2>1, <2>2
<1>12. ASSUME NEW b \in BOOLEAN, NotSent(w, b) PROVE DataOK'
  BY <1>12 DEF NotSent, Claim
<1> QED
  BY <1>1, <1>2, <1>3, <1>4, <1>5, <1>7, <1>8, <1>9, <1>10, <1>11, <1>12 DEF WorkerNext
LEMMA DataReader ==
  ASSUME DataOK, NEW r \in Reader, ReaderNext(r)
  PROVE  DataOK'
<1> USE NullRecords DEF DataOK, Status, Phase, ReleaseLease, Recorded, NewRevision, QueueRead,
                        Fact, Conclusion, InDoubt, StartRead, readerVars, remoteVars,
                        dispatchVars, leaseVars, stepVars, workerVars
<1>1. CASE ClaimRead(r)
  BY <1>1 DEF ClaimRead, Read
<1>2. CASE ClaimReadback(r)
  BY <1>2 DEF ClaimReadback, Read
<1>3. ASSUME NEW o \in {None, "final", "more"}, Deliver(r, o)
      PROVE  /\ rpc' \in [Reader -> {"idle", "claimed", "seen", "deliver"}]
             /\ read' \in [Reader -> Read]
  <2>1. [NoRead EXCEPT !.revision = revision, !.result = o] \in Read
    BY DEF Read, NoRead
  <2> QED
    BY <1>3, <2>1 DEF Deliver
<1>4. CASE ReadBlocked(r)
  <2>1. Deliver(r, "final")
    BY <1>4 DEF ReadBlocked
  <2> QED
    BY <1>4, <1>3, <2>1 DEF ReadBlocked
<1>5. CASE ReplayDelivery(r)
  <2>1. Deliver(r, delivery)
    BY <1>5 DEF ReplayDelivery
  <2> QED
    BY <1>5, <1>3, <2>1 DEF ReplayDelivery
<1>6. CASE ReadPlatform(r)
  <2>1. PICK s \in SUBSET Worker : read' = [read EXCEPT ![r] = [read[r] EXCEPT !.seen = s]]
    BY <1>6 DEF ReadPlatform
  <2>2. [read[r] EXCEPT !.seen = s] \in Read
    BY DEF Read
  <2>3. read' \in [Reader -> Read]
    BY <2>1, <2>2
  <2>4. rpc' \in [Reader -> {"idle", "claimed", "seen", "deliver"}]
    BY <1>6 DEF ReadPlatform
  <2>5. UNCHANGED <<stepVars, leaseVars, dispatchVars, evidence, workerVars, remoteVars, faults>>
    BY <1>6, Zenon DEF ReadPlatform
  <2> QED
    BY <2>3, <2>4, <2>5
<1>7. CASE ReaderLeaves(r) \/ ReaderCrashes(r)
  BY <1>7 DEF ReaderLeaves, ReaderCrashes
<1>8. CASE FinishRead(r)
  BY <1>8 DEF FinishRead, EndRead
<1>9. ASSUME NEW o \in {"final", "more"}, ReadInconclusive(r, o) PROVE DataOK'
  <2>1. read[r].child \/ Deliver(r, o)
    BY <1>9 DEF ReadInconclusive
  <2> QED
    BY <1>9, <1>3, <2>1 DEF ReadInconclusive
<1>10. ASSUME NEW d \in BOOLEAN, ReadConfirmed(r, d) PROVE DataOK'
  <2>1. read[r].child \/ Deliver(r, "final")
    BY <1>10 DEF ReadConfirmed
  <2> QED
    BY <1>10, <1>3, <2>1 DEF ReadConfirmed
<1> QED
  BY <1>1, <1>2, <1>4, <1>5, <1>6, <1>7, <1>8, <1>9, <1>10 DEF ReaderNext

LEMMA DataScheduler ==
  ASSUME DataOK,
         SchedulerNext \/ AbandonedLeaseExpires \/ LeaseOverrun \/ Retry \/ Reconcile
  PROVE  DataOK'
<1> USE DEF DataOK, Status, Phase, ReleaseLease, Recorded, NewRevision, QueueRead, QueueExecute,
            FailLocally, Fact, Conclusion, readerVars, remoteVars, dispatchVars, leaseVars,
            stepVars, workerVars
<1>1. CASE DependenciesReady \/ DependencyFails
  BY <1>1 DEF DependenciesReady, DependencyFails
<1>2. CASE DependencyRecovers
  BY <1>2 DEF DependencyRecovers
<1>3. CASE PermissionLost
  BY <1>3 DEF PermissionLost
<1>4. CASE ClaimRefused
  BY <1>4 DEF ClaimRefused
<1>5. CASE ExpireArmed
  BY <1>5 DEF ExpireArmed
<1>6. CASE ReadUnknown
  BY <1>6 DEF ReadUnknown
<1>7. CASE FinishExecute
  BY <1>7 DEF FinishExecute
<1>8. ASSUME NEW b \in BOOLEAN, ExpireUnarmed(b) PROVE DataOK'
  BY <1>8 DEF ExpireUnarmed
<1>9. CASE AbandonedLeaseExpires \/ LeaseOverrun
  BY <1>9 DEF AbandonedLeaseExpires, LeaseOverrun
<1>10. CASE Retry
  BY <1>10 DEF Retry
<1>11. CASE Reconcile
  BY <1>11 DEF Reconcile
<1> QED
  BY <1>1, <1>2, <1>3, <1>4, <1>5, <1>6, <1>7, <1>8, <1>9, <1>10, <1>11 DEF SchedulerNext

LEMMA TypeStep == TypeOK /\ [Next]_vars => TypeOK'
<1> SUFFICES ASSUME TypeOK, [Next]_vars PROVE DataOK'
  BY FlagsStep DEF TypeOK
<1>1. CASE UNCHANGED vars
  BY <1>1 DEF TypeOK, DataOK, vars, stepVars, leaseVars, dispatchVars, workerVars,
     readerVars,
              remoteVars
<1>2. ASSUME NEW w \in Worker, WorkerNext(w) PROVE DataOK'
  BY <1>2, DataWorker DEF TypeOK
<1>3. ASSUME NEW r \in Reader, ReaderNext(r) PROVE DataOK'
  BY <1>3, DataReader DEF TypeOK
<1>4. CASE SchedulerNext \/ AbandonedLeaseExpires \/ LeaseOverrun \/ Retry \/ Reconcile
  BY <1>4, DataScheduler DEF TypeOK
<1> QED
  BY <1>1, <1>2, <1>3, <1>4 DEF Next
(***************************************************************************)
(* The invariant, part by part.                                            *)
(***************************************************************************)

\* Readers, schedulers, leases and recovery neither execute nor send.
LEMMA WorkersFrame ==
  ASSUME \/ \E r \in Reader : ReaderNext(r)
         \/ SchedulerNext \/ AbandonedLeaseExpires \/ LeaseOverrun \/ Retry \/ Reconcile
         \/ UNCHANGED vars
  PROVE  UNCHANGED <<body, requests, objects, pc, claim>>
<1> USE DEF stepVars, workerVars, remoteVars
<1>1. ASSUME NEW r \in Reader, ReaderNext(r)
      PROVE  UNCHANGED <<body, requests, objects, pc, claim>>
  <2>1. CASE ClaimRead(r) \/ ClaimReadback(r)
    BY <2>1, Zenon DEF ClaimRead, ClaimReadback
  <2>2. CASE ReadBlocked(r) \/ ReplayDelivery(r) \/ ReadPlatform(r) \/ ReaderLeaves(r)
    BY <2>2, Zenon DEF ReadBlocked, ReplayDelivery, ReadPlatform, ReaderLeaves
  <2>3. CASE ReaderCrashes(r) \/ FinishRead(r)
    BY <2>3, Zenon DEF ReaderCrashes, FinishRead
  <2>4. ASSUME NEW o \in {"final", "more"}, ReadInconclusive(r, o)
        PROVE  UNCHANGED <<body, requests, objects, pc, claim>>
    BY <2>4, Zenon DEF ReadInconclusive
  <2>5. ASSUME NEW d \in BOOLEAN, ReadConfirmed(r, d)
        PROVE  UNCHANGED <<body, requests, objects, pc, claim>>
    BY <2>5, Zenon DEF ReadConfirmed
  <2> QED
    BY <1>1, <2>1, <2>2, <2>3, <2>4, <2>5, Zenon DEF ReaderNext
<1>2. CASE SchedulerNext
  <2>1. CASE DependenciesReady \/ DependencyFails \/ DependencyRecovers
    BY <2>1, Zenon DEF DependenciesReady, DependencyFails, DependencyRecovers
  <2>2. CASE PermissionLost \/ ClaimRefused \/ ExpireArmed \/ ReadUnknown \/ FinishExecute
    BY <2>2, Zenon DEF PermissionLost, ClaimRefused, ExpireArmed, ReadUnknown, FinishExecute
  <2>3. ASSUME NEW b \in BOOLEAN, ExpireUnarmed(b)
        PROVE  UNCHANGED <<body, requests, objects, pc, claim>>
    BY <2>3, Zenon DEF ExpireUnarmed
  <2> QED
    BY <1>2, <2>1, <2>2, <2>3, Zenon DEF SchedulerNext
<1>3. CASE AbandonedLeaseExpires \/ LeaseOverrun \/ Retry \/ Reconcile
  BY <1>3, Zenon DEF AbandonedLeaseExpires, LeaseOverrun, Retry, Reconcile
<1>4. CASE UNCHANGED vars
  BY <1>4, Zenon DEF vars
<1> QED
  BY <1>1, <1>2, <1>3, <1>4, Zenon

LEMMA ClosedIsUnsent ==
  ASSUME ExposureInv, Exposed = {}
  PROVE  requests = {} /\ \A w \in Worker : ~KnownUnsent(w)
BY DEF Exposed, KnownUnsent

LEMMA BodyStep ==
  ASSUME TypeOK, ExposureInv, BodyInv, [Next]_vars
  PROVE  BodyInv'
<1> USE DEF BodyInv, KnownUnsent
<1>1. ASSUME UNCHANGED <<body, requests, objects, pc, claim>> PROVE BodyInv'
  BY <1>1
<1>2. ASSUME NEW w \in Worker, WorkerNext(w) PROVE BodyInv'
  <2> USE DEF TypeOK, DataOK, Claim, NoClaim, Leave
  <2>1. CASE ClaimStep(w)
    <3>1. Exposed = {}
      BY <2>1 DEF ClaimStep, Executable, ExposureInv
    <3>2. requests = {} /\ \A u \in Worker : ~KnownUnsent(u)
      BY <3>1, ClosedIsUnsent
    <3>3. requests' = {} /\ \A u \in Worker : pc'[u] = IF u = w THEN "claimed" ELSE pc[u]
      BY <2>1, <3>2 DEF ClaimStep, remoteVars
    <3>4. \A u \in Worker \ {w} : claim'[u] = claim[u]
      BY <2>1 DEF ClaimStep
    <3> QED
      BY <3>2, <3>3, <3>4
  <2>2. CASE Prepare(w)
    <3>1. PICK b \in Body : claim' = [claim EXCEPT ![w] = [claim[w] EXCEPT !.body = b]]
      BY <2>2 DEF Prepare
    <3>2. claim'[w].body = b /\ \A u \in Worker \ {w} : claim'[u] = claim[u]
      BY <3>1
    <3> QED
      BY <2>2, <3>2 DEF Prepare, stepVars, remoteVars
  <2>3. CASE CheckBeforeSend(w)
    BY <2>3 DEF CheckBeforeSend, stepVars, remoteVars
  <2>4. CASE Send(w)
    <3>1. claim[w].body = body /\ body \in Body /\ body # None
      BY <2>4, ConstantsOK DEF Send, ConstantsOK
    <3>2. requests' = requests \cup {[worker |-> w, body |-> body]}
      BY <2>4, <3>1 DEF Send
    <3>3. /\ body' = body /\ claim' = claim
          /\ \A u \in Worker : pc'[u] = IF u = w THEN "sent" ELSE pc[u]
      BY <2>4 DEF Send, stepVars
    <3>4. \A q \in requests' : q \in requests \/ (q.worker = w /\ q.body = body)
      BY <3>2
    <3>5. \E q \in requests' : q.worker = w
      <4>1. [worker |-> w, body |-> body] \in requests'
        BY <3>2, Zenon
      <4>2. [worker |-> w, body |-> body].worker = w
        BY ONLY SMT
      <4> QED
        BY ONLY <4>1, <4>2, Zenon
    <3>6. \A q \in requests' : q.body = body' /\ body' # None
      BY <3>1, <3>3, <3>4
    <3>7. ASSUME NEW u \in Worker, u # w
          PROVE  /\ pc'[u] = pc[u] /\ claim'[u] = claim[u]
                 /\ (\E q \in requests' : q.worker = u) <=> \E q \in requests : q.worker = u
      BY <3>2, <3>3, <3>4, <3>7
    <3> QED
      BY <3>3, <3>5, <3>6, <3>7
  <2>5. CASE RecordUnknown(w)
    BY <2>5 DEF RecordUnknown, remoteVars
  <2>6. CASE Answer(w)
    BY <2>6 DEF Answer, stepVars, remoteVars
  <2>7. CASE RecordCreated(w)
    BY <2>7 DEF RecordCreated, remoteVars
  <2>8. CASE PreserveReceipt(w)
    BY <2>8 DEF PreserveReceipt, remoteVars
  <2>9. CASE WorkerReturns(w) \/ WorkerCrashes(w) \/ TakesEffect(w)
    BY <2>9 DEF WorkerReturns, WorkerCrashes, TakesEffect, stepVars, remoteVars, workerVars
  <2>10. ASSUME NEW b \in BOOLEAN, LocalOutcome(w, b) PROVE BodyInv'
    BY <2>10 DEF LocalOutcome, remoteVars
  <2>11. ASSUME NEW b \in BOOLEAN, Arm(w, b) PROVE BodyInv'
    <3>1. requests = {} /\ \A u \in Worker : ~KnownUnsent(u)
      BY <2>11, ClosedIsUnsent DEF Arm, Active, ExposureInv
    <3>2. CASE b
      BY <2>11, <3>1, <3>2 DEF Arm, remoteVars
    <3>3. CASE ~b
      BY <2>11, <3>1, <3>3 DEF Arm, remoteVars
    <3> QED
      BY ONLY <3>2, <3>3, Zenon
  <2>12. ASSUME NEW b \in BOOLEAN, NotSent(w, b) PROVE BodyInv'
    BY <2>12 DEF NotSent, remoteVars
  <2> QED
    BY <1>2, <2>1, <2>2, <2>3, <2>4, <2>5, <2>6, <2>7, <2>8, <2>9, <2>10, <2>11, <2>12
       DEF WorkerNext
<1> QED
  BY <1>1, <1>2, WorkersFrame DEF Next
LEMMA ExposedIsWorker == TypeOK => Exposed \subseteq Worker
  BY DEF TypeOK, DataOK, Exposed

LEMMA ExposureKept ==
  ASSUME ExposureInv, Exposed' \subseteq Exposed,
         \/ UNCHANGED <<status, phase, leaseToken>>
         \/ status' \in {"UNKNOWN", "SUCCEEDED"}
         \/ Exposed' = {}
  PROVE  ExposureInv'
  BY DEF ExposureInv

LEMMA UnsavedIsUnsent == TypeOK /\ BodyInv /\ body = None => Exposed = {}
  BY ConstantsOK DEF BodyInv, Exposed, KnownUnsent, ConstantsOK

LEMMA ExposureWorker ==
  ASSUME TypeOK, ExposureInv, BodyInv, NEW w \in Worker, WorkerNext(w)
  PROVE  ExposureInv'
<1> USE DEF TypeOK, DataOK, Leave
<1>0. ASSUME NEW v, requests' = requests, pc' = [pc EXCEPT ![w] = v],
             v \notin {"armed", "cleared"} \/ KnownUnsent(w)
      PROVE  Exposed' \subseteq Exposed
  BY <1>0 DEF Exposed, KnownUnsent
<1>1. CASE ClaimStep(w)
  <2>1. Exposed = {}
    BY <1>1 DEF ClaimStep, Executable, ExposureInv
  <2>2. Exposed' \subseteq Exposed
    BY <1>1, <1>0 DEF ClaimStep, remoteVars
  <2> QED
    BY <2>1, <2>2, ExposureKept
<1>2. CASE Prepare(w) \/ CheckBeforeSend(w) \/ Answer(w)
  <2>1. Exposed' \subseteq Exposed
    BY <1>2, <1>0 DEF Prepare, CheckBeforeSend, Answer, KnownUnsent, remoteVars
  <2> QED
    BY <1>2, <2>1, ExposureKept DEF Prepare, CheckBeforeSend, Answer, stepVars, leaseVars
<1>3. CASE Send(w)
  <2>1. \A q \in requests' : q \in requests \/ q.worker = w
    BY <1>3 DEF Send
  <2>2. w \in Exposed /\ \A u \in Worker : pc'[u] = pc[u] \/ (u = w /\ pc'[u] = "sent")
    BY <1>3 DEF Send, Exposed
  <2>3. Exposed' \subseteq Exposed
    BY <2>1, <2>2 DEF Exposed
  <2> QED
    BY <1>3, <2>3, ExposureKept DEF Send, stepVars, leaseVars
<1>4. CASE RecordUnknown(w)
  <2>1. Exposed' \subseteq Exposed
    BY <1>4, <1>0 DEF RecordUnknown, remoteVars
  <2>2. UNCHANGED <<status, phase, leaseToken>> \/ status' = "UNKNOWN"
    BY <1>4 DEF RecordUnknown, leaseVars
  <2> QED
    BY <2>1, <2>2, ExposureKept
<1>5. CASE RecordCreated(w)
  <2>1. Exposed' \subseteq Exposed
    BY <1>5, <1>0 DEF RecordCreated, remoteVars
  <2>2. UNCHANGED <<status, phase, leaseToken>> \/ status' \in {"UNKNOWN", "SUCCEEDED"}
    BY <1>5 DEF RecordCreated, leaseVars
  <2> QED
    BY <2>1, <2>2, ExposureKept
<1>6. CASE PreserveReceipt(w)
  <2>1. Exposed' \subseteq Exposed
    BY <1>6, <1>0 DEF PreserveReceipt, remoteVars
  <2>2. UNCHANGED <<status, phase, leaseToken>> \/ status' = "UNKNOWN"
    BY <1>6 DEF PreserveReceipt, leaseVars
  <2> QED
    BY <2>1, <2>2, ExposureKept
<1>7. CASE WorkerReturns(w) \/ WorkerCrashes(w)
  <2>1. Exposed' \subseteq Exposed
    BY <1>7, <1>0 DEF WorkerReturns, WorkerCrashes, remoteVars
  <2> QED
    BY <1>7, <2>1, ExposureKept DEF WorkerReturns, WorkerCrashes, stepVars, leaseVars
<1>8. CASE TakesEffect(w)
  <2>1. Exposed' = Exposed
    BY <1>8 DEF TakesEffect, workerVars, Exposed
  <2> QED
    BY <1>8, <2>1, ExposureKept DEF TakesEffect, stepVars, leaseVars
<1>9. ASSUME NEW b \in BOOLEAN, LocalOutcome(w, b) PROVE ExposureInv'
  <2>1. Exposed = {}
    BY <1>9 DEF LocalOutcome, Active, ExposureInv
  <2>2. Exposed' \subseteq Exposed
    BY <1>9, <1>0 DEF LocalOutcome, remoteVars
  <2> QED
    BY <2>1, <2>2, ExposureKept
<1>10. ASSUME NEW b \in BOOLEAN, Arm(w, b) PROVE ExposureInv'
  <2>1. requests = {} /\ \A u \in Worker : ~KnownUnsent(u)
    BY <1>10, ClosedIsUnsent DEF Arm, Active, ExposureInv
  <2>2. requests' = {} /\ \A u \in Worker \ {w} : pc'[u] = pc[u]
    BY <1>10, <2>1 DEF Arm, remoteVars
  <2>3. Exposed' \subseteq {w}
    BY <2>1, <2>2 DEF Exposed, KnownUnsent
  <2>4. status' = "RUNNING" /\ phase' = "REQUEST_ARMED" /\ leaseToken' = w
    BY <1>10 DEF Arm, Active, leaseVars
  <2> QED
    BY <2>3, <2>4 DEF ExposureInv
<1>11. ASSUME NEW b \in BOOLEAN, NotSent(w, b) PROVE ExposureInv'
  <2>1. Exposed \subseteq {w}
    BY <1>11 DEF NotSent, Active, ExposureInv
  <2>2. \A q \in requests : q.worker # w
    BY <1>11 DEF NotSent, KnownUnsent, BodyInv
  <2>3. Exposed' = {}
    BY <1>11, <2>1, <2>2 DEF NotSent, remoteVars, Exposed
  <2> QED
    BY <2>3, ExposureKept
<1> QED
  BY <1>1, <1>2, <1>3, <1>4, <1>5, <1>6, <1>7, <1>8, <1>9, <1>10, <1>11 DEF WorkerNext

LEMMA ExposureReader ==
  ASSUME TypeOK, ExposureInv, NEW r \in Reader, ReaderNext(r)
  PROVE  ExposureInv'
<1>0. Exposed' \subseteq Exposed
  BY WorkersFrame DEF Exposed
<1>1. CASE ClaimRead(r) \/ ClaimReadback(r)
  <2>1. status' \in {"UNKNOWN", "SUCCEEDED"}
    BY <1>1 DEF ClaimRead, ClaimReadback, ToRead, stepVars
  <2> QED
    BY <1>0, <2>1, ExposureKept
<1>2. CASE ReadBlocked(r) \/ ReplayDelivery(r) \/ ReadPlatform(r) \/ ReaderLeaves(r)
           \/ ReaderCrashes(r) \/ FinishRead(r)
  <2>1. UNCHANGED <<status, phase, leaseToken>> \/ status' = "UNKNOWN"
    BY <1>2 DEF ReadBlocked, ReplayDelivery, ReadPlatform, ReaderLeaves, ReaderCrashes,
                FinishRead, InDoubt, stepVars, leaseVars
  <2> QED
    BY <1>0, <2>1, ExposureKept
<1>3. ASSUME NEW o \in {"final", "more"}, ReadInconclusive(r, o) PROVE ExposureInv'
  <2>1. CASE status = "RUNNING"
    <3>1. leaseToken \in Reader
      BY <1>3 DEF ReadInconclusive, ReaderActive
    <3>2. Exposed = {}
      BY <2>1, <3>1, ExposedIsWorker, ConstantsOK DEF ExposureInv, ConstantsOK
    <3> QED
      BY <1>0, <3>2, ExposureKept
  <2>2. CASE status # "RUNNING"
    <3>1. status' \in {status, "UNKNOWN"} /\ phase' = phase
      BY <1>3 DEF ReadInconclusive, InDoubt
    <3> QED
      BY <1>0, <2>2, <3>1 DEF ExposureInv
  <2> QED
    BY <2>1, <2>2
<1>4. ASSUME NEW d \in BOOLEAN, ReadConfirmed(r, d) PROVE ExposureInv'
  <2>1. status' = "SUCCEEDED"
    BY <1>4 DEF ReadConfirmed
  <2> QED
    BY <1>0, <2>1, ExposureKept
<1> QED
  BY <1>1, <1>2, <1>3, <1>4 DEF ReaderNext

LEMMA ExposureScheduler ==
  ASSUME TypeOK, ExposureInv, BodyInv,
         SchedulerNext \/ AbandonedLeaseExpires \/ LeaseOverrun \/ Retry \/ Reconcile
  PROVE  ExposureInv'
<1> USE DEF stepVars, leaseVars, QueueExecute, FailLocally
<1>0. Exposed' \subseteq Exposed
  BY WorkersFrame DEF Exposed
<1>1. CASE DependenciesReady \/ DependencyFails \/ DependencyRecovers \/ Retry
  <2>1. Exposed = {}
    BY <1>1 DEF DependenciesReady, DependencyFails, DependencyRecovers, Retry, ExposureInv
  <2> QED
    BY <1>0, <2>1, ExposureKept
<1>2. CASE PermissionLost
  <2>1. Exposed = {}
    BY <1>2, UnsavedIsUnsent DEF PermissionLost
  <2> QED
    BY <1>0, <2>1, ExposureKept
<1>3. CASE ClaimRefused
  <2>1. Exposed = {}
    BY <1>3 DEF ClaimRefused, Executable, ExposureInv
  <2> QED
    BY <1>0, <2>1, ExposureKept
<1>4. CASE ExpireArmed
  <2>1. status' = "UNKNOWN"
    BY <1>4 DEF ExpireArmed
  <2> QED
    BY <1>0, <2>1, ExposureKept
<1>5. CASE ReadUnknown \/ AbandonedLeaseExpires \/ LeaseOverrun \/ Reconcile
  <2>1. UNCHANGED <<status, phase, leaseToken>>
    BY <1>5 DEF ReadUnknown, AbandonedLeaseExpires, LeaseOverrun, Reconcile
  <2> QED
    BY <1>0, <2>1, ExposureKept
<1>6. CASE FinishExecute
  <2>1. UNCHANGED <<status, phase, leaseToken>> \/ Exposed = {}
    BY <1>6 DEF FinishExecute, ExposureInv
  <2> QED
    BY <1>0, <2>1, ExposureKept
<1>7. ASSUME NEW b \in BOOLEAN, ExpireUnarmed(b) PROVE ExposureInv'
  <2>1. Exposed = {}
    BY <1>7 DEF ExpireUnarmed, ExposureInv
  <2> QED
    BY <1>0, <2>1, ExposureKept
<1> QED
  BY <1>1, <1>2, <1>3, <1>4, <1>5, <1>6, <1>7 DEF SchedulerNext

LEMMA ExposureStep ==
  ASSUME TypeOK, ExposureInv, BodyInv, [Next]_vars
  PROVE  ExposureInv'
<1>1. CASE UNCHANGED vars
  <2>1. UNCHANGED <<status, phase, leaseToken, requests, pc>>
    BY <1>1 DEF vars, stepVars, leaseVars, remoteVars, workerVars
  <2>2. Exposed' \subseteq Exposed
    BY <2>1 DEF Exposed
  <2> QED
    BY <2>1, <2>2, ExposureKept
<1> QED
  BY <1>1, ExposureWorker, ExposureReader, ExposureScheduler DEF Next
\* A step that neither finds nor loses the created object.
KeepsResult ==
  /\ remoteId' = remoteId
  /\ \/ status' = status
     \/ /\ status # "SUCCEEDED" /\ status' # "SUCCEEDED"
        /\ status = "UNKNOWN" => status' = "UNKNOWN"
  /\ \A e \in evidence' : e \in evidence \/ e.remoteId = None

LEMMA NothingFound ==
  ASSUME NEW c, NEW t, NEW n, Recorded(c, t, n, None)
  PROVE  \A e \in evidence' : e \in evidence \/ e.remoteId = None
  BY DEF Recorded

LEMMA KeepsWorker ==
  ASSUME TypeOK, ObjectInv, NEW w \in Worker, WorkerNext(w),
         ~RecordCreated(w), ~PreserveReceipt(w)
  PROVE  KeepsResult
<1> USE DEF KeepsResult, RecordedBy, FailLocally
<1>1. CASE ClaimStep(w)
  BY <1>1 DEF ClaimStep, Executable
<1>2. CASE Prepare(w) \/ CheckBeforeSend(w) \/ Send(w) \/ Answer(w)
  BY <1>2 DEF Prepare, CheckBeforeSend, Send, Answer, stepVars
<1>3. CASE RecordUnknown(w)
  <2>1. status' = status \/ (status # "SUCCEEDED" /\ status' = "UNKNOWN")
    BY <1>3 DEF RecordUnknown
  <2> QED
    BY <1>3, <2>1, NothingFound DEF RecordUnknown
<1>4. CASE WorkerReturns(w) \/ WorkerCrashes(w) \/ TakesEffect(w)
  BY <1>4 DEF WorkerReturns, WorkerCrashes, TakesEffect, stepVars
<1>5. ASSUME NEW b \in BOOLEAN, LocalOutcome(w, b) PROVE KeepsResult
  <2>1. status = "RUNNING" /\ status' \in {"PENDING", "FAILED"} /\ remoteId' = remoteId
    BY <1>5 DEF LocalOutcome, Active
  <2>2. \A e \in evidence' : e \in evidence \/ e.remoteId = None
    BY <1>5, NothingFound DEF LocalOutcome
  <2> QED
    BY <2>1, <2>2
<1>6. ASSUME NEW b \in BOOLEAN, Arm(w, b) PROVE KeepsResult
  BY <1>6, NothingFound DEF Arm
<1>7. ASSUME NEW b \in BOOLEAN, NotSent(w, b) PROVE KeepsResult
  <2>1. status = "RUNNING" /\ status' \in {"PENDING", "FAILED"} /\ remoteId' = remoteId
    BY <1>7 DEF NotSent, Active
  <2> QED
    BY <1>7, <2>1, NothingFound DEF NotSent
<1> QED
  BY <1>1, <1>2, <1>3, <1>4, <1>5, <1>6, <1>7 DEF WorkerNext

LEMMA KeepsReader ==
  ASSUME TypeOK, ObjectInv, NEW r \in Reader, ReaderNext(r),
         \A d \in BOOLEAN : ~ReadConfirmed(r, d)
  PROVE  KeepsResult
<1> USE DEF KeepsResult, stepVars
<1>1. CASE ClaimRead(r) \/ ClaimReadback(r)
  BY <1>1 DEF ClaimRead, ClaimReadback
<1>2. CASE ReadBlocked(r)
  BY <1>2 DEF ReadBlocked, InDoubt, ObjectInv
<1>3. CASE ReplayDelivery(r) \/ ReadPlatform(r) \/ ReaderLeaves(r) \/ ReaderCrashes(r)
           \/ FinishRead(r)
  BY <1>3 DEF ReplayDelivery, ReadPlatform, ReaderLeaves, ReaderCrashes, FinishRead
<1>4. ASSUME NEW o \in {"final", "more"}, ReadInconclusive(r, o) PROVE KeepsResult
  BY <1>4 DEF ReadInconclusive, InDoubt, ObjectInv
<1> QED
  BY <1>1, <1>2, <1>3, <1>4 DEF ReaderNext

LEMMA KeepsScheduler ==
  ASSUME TypeOK, ObjectInv,
         SchedulerNext \/ AbandonedLeaseExpires \/ LeaseOverrun \/ Retry \/ Reconcile
  PROVE  KeepsResult
<1> USE DEF KeepsResult, stepVars, QueueExecute, FailLocally
<1>1. CASE DependenciesReady
  BY <1>1 DEF DependenciesReady
<1>2. CASE DependencyFails
  BY <1>2, NothingFound DEF DependencyFails
<1>3. CASE DependencyRecovers
  BY <1>3, NothingFound DEF DependencyRecovers
<1>4. CASE PermissionLost
  BY <1>4, NothingFound DEF PermissionLost
<1>5. CASE ClaimRefused
  BY <1>5, NothingFound DEF ClaimRefused, Executable
<1>6. CASE ExpireArmed
  BY <1>6, NothingFound DEF ExpireArmed
<1>7. CASE ReadUnknown \/ AbandonedLeaseExpires \/ LeaseOverrun \/ Reconcile
  BY <1>7 DEF ReadUnknown, AbandonedLeaseExpires, LeaseOverrun, Reconcile
<1>8. CASE FinishExecute
  BY <1>8 DEF FinishExecute
<1>9. ASSUME NEW b \in BOOLEAN, ExpireUnarmed(b) PROVE KeepsResult
  BY <1>9 DEF ExpireUnarmed
<1>10. CASE Retry
  BY <1>10, NothingFound DEF Retry
<1> QED
  BY <1>1, <1>2, <1>3, <1>4, <1>5, <1>6, <1>7, <1>8, <1>9, <1>10 DEF SchedulerNext

\* Every step keeps the result, records a receipt, or confirms a read.
LEMMA ResultCases ==
  ASSUME TypeOK, ObjectInv, [Next]_vars
  PROVE  \/ KeepsResult
         \/ \E w \in Worker : RecordCreated(w) \/ PreserveReceipt(w)
         \/ \E r \in Reader, d \in BOOLEAN : ReadConfirmed(r, d)
<1>1. CASE UNCHANGED vars
  BY <1>1 DEF vars, stepVars, KeepsResult
<1> QED
  BY <1>1, KeepsWorker, KeepsReader, KeepsScheduler DEF Next

\* What is in flight: objects, answers and pages read.
LEMMA FlightStep ==
  ASSUME TypeOK, ObjectInv, [Next]_vars
  PROVE  /\ objects \subseteq objects'
         /\ objects' \subseteq {q.worker : q \in requests'}
         /\ \A w \in Worker : pc'[w] \in {"answered", "recorded"} => w \in objects'
         /\ \A r \in Reader : read'[r].seen \subseteq objects'
<1> USE DEF TypeOK, DataOK, ObjectInv
<1>1. ASSUME UNCHANGED <<objects, requests, pc>>
      PROVE  /\ objects \subseteq objects'
             /\ objects' \subseteq {q.worker : q \in requests'}
             /\ \A w \in Worker : pc'[w] \in {"answered", "recorded"} => w \in objects'
  BY <1>1
<1>2. ASSUME UNCHANGED <<objects, read>>
      PROVE  \A r \in Reader : read'[r].seen \subseteq objects'
  BY <1>2
<1>3. ASSUME NEW w \in Worker, WorkerNext(w)
      PROVE  /\ objects \subseteq objects'
             /\ objects' \subseteq {q.worker : q \in requests'}
             /\ \A u \in Worker : pc'[u] \in {"answered", "recorded"} => u \in objects'
             /\ read' = read
  <2> USE DEF Leave, remoteVars, readerVars
  <2>1. CASE ClaimStep(w) \/ Prepare(w) \/ CheckBeforeSend(w)
    BY <2>1 DEF ClaimStep, Prepare, CheckBeforeSend
  <2>2. CASE Send(w)
    BY <2>2 DEF Send
  <2>3. CASE RecordUnknown(w) \/ Answer(w) \/ WorkerReturns(w) \/ WorkerCrashes(w)
    BY <2>3 DEF RecordUnknown, Answer, WorkerReturns, WorkerCrashes
  <2>4. CASE RecordCreated(w) \/ PreserveReceipt(w)
    BY <2>4 DEF RecordCreated, PreserveReceipt
  <2>5. CASE TakesEffect(w)
    BY <2>5 DEF TakesEffect, workerVars
  <2>6. ASSUME NEW b \in BOOLEAN, LocalOutcome(w, b) \/ NotSent(w, b)
        PROVE  /\ objects \subseteq objects'
               /\ objects' \subseteq {q.worker : q \in requests'}
               /\ \A u \in Worker : pc'[u] \in {"answered", "recorded"} => u \in objects'
               /\ read' = read
    BY <2>6 DEF LocalOutcome, NotSent
  <2>7. ASSUME NEW b \in BOOLEAN, Arm(w, b)
        PROVE  /\ objects \subseteq objects'
               /\ objects' \subseteq {q.worker : q \in requests'}
               /\ \A u \in Worker : pc'[u] \in {"answered", "recorded"} => u \in objects'
               /\ read' = read
    <3>1. pc' = [pc EXCEPT ![w] = "armed"] \/ pc' = [pc EXCEPT ![w] = "gone"]
      BY <2>7 DEF Arm
    <3> QED
      BY <2>7, <3>1 DEF Arm
  <2> QED
    BY <1>3, <2>1, <2>2, <2>3, <2>4, <2>5, <2>6, <2>7 DEF WorkerNext
<1>4. ASSUME NEW r \in Reader, ReaderNext(r)
      PROVE  \A s \in Reader : read'[s].seen \subseteq objects'
  <2>0. objects' = objects
    BY <1>4, WorkersFrame
  <2>1. CASE ClaimRead(r)
    BY <2>0, <2>1 DEF ClaimRead, StartRead
  <2>2. CASE ClaimReadback(r)
    BY <2>0, <2>2 DEF ClaimReadback, StartRead
  <2>3. ASSUME NEW o, Deliver(r, o)
        PROVE  \A s \in Reader : read'[s].seen \subseteq objects'
    <3>1. [NoRead EXCEPT !.revision = revision, !.result = o].seen = {}
      BY DEF NoRead
    <3>2. read' = [read EXCEPT ![r] = [NoRead EXCEPT !.revision = revision, !.result = o]]
      BY <2>3 DEF Deliver
    <3> QED
      BY <2>0, <3>1, <3>2
  <2>4. CASE ReadBlocked(r) \/ ReplayDelivery(r)
    BY <2>3, <2>4 DEF ReadBlocked, ReplayDelivery
  <2>5. CASE ReadPlatform(r)
    <3>1. PICK s \in SUBSET objects : read' = [read EXCEPT ![r] = [read[r] EXCEPT !.seen = s]]
      BY <2>5 DEF ReadPlatform
    <3>2. [read[r] EXCEPT !.seen = s].seen = s
      BY DEF Read
    <3> QED
      BY <2>0, <3>1, <3>2
  <2>6. CASE ReaderLeaves(r) \/ ReaderCrashes(r) \/ FinishRead(r)
    BY <2>0, <2>6 DEF ReaderLeaves, ReaderCrashes, FinishRead, NoRead
  <2>7. ASSUME NEW o \in {"final", "more"}, ReadInconclusive(r, o)
        PROVE  \A s \in Reader : read'[s].seen \subseteq objects'
    <3>1. Deliver(r, o) \/ read' = [read EXCEPT ![r] = NoRead]
      BY <2>7 DEF ReadInconclusive
    <3> QED
      BY <2>0, <2>3, <3>1 DEF NoRead
  <2>8. ASSUME NEW d \in BOOLEAN, ReadConfirmed(r, d)
        PROVE  \A s \in Reader : read'[s].seen \subseteq objects'
    <3>1. Deliver(r, "final") \/ read' = [read EXCEPT ![r] = NoRead]
      BY <2>8 DEF ReadConfirmed
    <3> QED
      BY <2>0, <2>3, <3>1 DEF NoRead
  <2> QED
    BY <1>4, <2>1, <2>2, <2>4, <2>5, <2>6, <2>7, <2>8 DEF ReaderNext
<1>5. SchedulerNext \/ AbandonedLeaseExpires \/ LeaseOverrun \/ Retry \/ Reconcile => read' = read
  BY DEF SchedulerNext, AbandonedLeaseExpires, LeaseOverrun, Retry, Reconcile,
     DependenciesReady,
         DependencyFails, DependencyRecovers, PermissionLost, ClaimRefused, ExpireArmed,
         ReadUnknown, FinishExecute, ExpireUnarmed, readerVars
<1>6. UNCHANGED vars => read' = read
  BY DEF vars, readerVars
<1> QED
  BY <1>1, <1>2, <1>3, <1>4, <1>5, <1>6, WorkersFrame DEF Next
LEMMA ObjectStep ==
  ASSUME TypeOK, ExposureInv, ObjectInv, [Next]_vars
  PROVE  ObjectInv'
<1>0. /\ objects \subseteq objects'
      /\ objects' \subseteq {q.worker : q \in requests'}
      /\ \A w \in Worker : pc'[w] \in {"answered", "recorded"} => w \in objects'
      /\ \A r \in Reader : read'[r].seen \subseteq objects'
  BY FlightStep
<1>1. CASE KeepsResult
  BY <1>0, <1>1 DEF KeepsResult, ObjectInv
<1>2. ASSUME NEW w \in Worker, RecordCreated(w) PROVE ObjectInv'
  <2>1. w \in objects' /\ w # None /\ status \notin {"PENDING", "QUEUED", "FAILED"}
    <3>1. w \in objects /\ w \in Exposed
      BY <1>2 DEF RecordCreated, ObjectInv, Exposed
    <3> QED
      BY <1>0, <3>1, ConstantsOK DEF ConstantsOK, ExposureInv
  <2>2. \A e \in evidence' : e \in evidence \/ e.remoteId = w
    BY <1>2 DEF RecordCreated, RecordedBy, Recorded
  <2>3. CASE Active(w, "REQUEST_ARMED")
    <3>1. status' = "SUCCEEDED" /\ remoteId' = w
      BY <1>2, <2>3 DEF RecordCreated
    <3> QED
      BY <1>0, <2>1, <2>2, <3>1 DEF ObjectInv
  <2>4. CASE ~Active(w, "REQUEST_ARMED")
    <3>1. /\ remoteId' = remoteId
          /\ \/ status' = "UNKNOWN" /\ remoteId = None
             \/ status' = status /\ status = "SUCCEEDED"
      BY <1>2, <2>4 DEF RecordCreated, ObjectInv
    <3> QED
      BY <1>0, <2>1, <2>2, <3>1 DEF ObjectInv
  <2> QED
    BY <2>3, <2>4
<1>3. ASSUME NEW w \in Worker, PreserveReceipt(w) PROVE ObjectInv'
  <2>1. w \in objects' /\ w # None
    BY <1>0, <1>3, ConstantsOK DEF PreserveReceipt, ObjectInv, ConstantsOK
  <2>2. \A e \in evidence' : e \in evidence \/ e.remoteId = w
    BY <1>3 DEF PreserveReceipt, RecordedBy, Recorded
  <2>3. /\ remoteId' = remoteId
        /\ \/ status' = "UNKNOWN" /\ remoteId = None
           \/ status' = status /\ status = "SUCCEEDED"
    BY <1>3 DEF PreserveReceipt, ObjectInv
  <2> QED
    BY <1>0, <2>1, <2>2, <2>3 DEF ObjectInv
<1>4. ASSUME NEW r \in Reader, NEW d \in BOOLEAN, ReadConfirmed(r, d) PROVE ObjectInv'
  <2>1. PICK id \in Worker : /\ read[r].seen = {id}
                             /\ remoteId' = id
                             /\ Recorded("RECONCILED", r, attempt, id)
    BY <1>4 DEF ReadConfirmed
  <2>2. id \in objects' /\ id # None
    BY <1>0, <2>1, ConstantsOK DEF ObjectInv, ConstantsOK
  <2>3. \A e \in evidence' : e \in evidence \/ e.remoteId = id
    BY <2>1 DEF Recorded
  <2>4. status' = "SUCCEEDED"
    BY <1>4 DEF ReadConfirmed
  <2> QED
    BY <1>0, <2>1, <2>2, <2>3, <2>4 DEF ObjectInv
<1> QED
  BY <1>1, <1>2, <1>3, <1>4, ResultCases

\* Whoever becomes exposed has just armed; whoever is declared unsent was not
\* going to send any more.
LEMMA EvidenceKept ==
  ASSUME EvidenceInv, Exposed' \subseteq Exposed, evidence \subseteq evidence',
         \A e \in evidence' : e \in evidence \/ e.conclusion # "NOT_SENT",
         \A w \in Worker : pc'[w] \in {"idle", "claimed", "prepared"} =>
                             pc[w] \in {"idle", "claimed", "prepared"}
  PROVE  EvidenceInv'
  BY DEF EvidenceInv

LEMMA EvidenceGrows ==
  ASSUME [Next]_vars
  PROVE  /\ evidence \subseteq evidence'
         /\ \/ \A e \in evidence' : e \in evidence \/ e.conclusion # "NOT_SENT"
            \/ \E w \in Worker, b \in BOOLEAN : NotSent(w, b)
<1> USE DEF Recorded, RecordedBy, FailLocally
<1>1. CASE UNCHANGED vars
  BY <1>1 DEF vars
<1>2. ASSUME NEW w \in Worker, WorkerNext(w), \A b \in BOOLEAN : ~NotSent(w, b)
      PROVE  /\ evidence \subseteq evidence'
             /\ \A e \in evidence' : e \in evidence \/ e.conclusion # "NOT_SENT"
  BY <1>2 DEF WorkerNext, ClaimStep, Prepare, CheckBeforeSend, Send, RecordUnknown, Answer,
              RecordCreated, PreserveReceipt, WorkerReturns, WorkerCrashes, TakesEffect,
              LocalOutcome, Arm
<1>3. ASSUME NEW w \in Worker, NEW b \in BOOLEAN, NotSent(w, b)
      PROVE  evidence \subseteq evidence'
  BY <1>3 DEF NotSent
<1>4. ASSUME NEW r \in Reader, ReaderNext(r)
      PROVE  /\ evidence \subseteq evidence'
             /\ \A e \in evidence' : e \in evidence \/ e.conclusion # "NOT_SENT"
  <2>1. ASSUME NEW d \in BOOLEAN, ReadConfirmed(r, d)
        PROVE  /\ evidence \subseteq evidence'
               /\ \A e \in evidence' : e \in evidence \/ e.conclusion # "NOT_SENT"
    BY <2>1 DEF ReadConfirmed
  <2>2. evidence' = evidence \/ \E d \in BOOLEAN : ReadConfirmed(r, d)
    BY <1>4 DEF ReaderNext, ClaimRead, ClaimReadback, ReadBlocked, ReplayDelivery,
       ReadPlatform,
                ReaderLeaves, ReaderCrashes, FinishRead, ReadInconclusive
  <2> QED
    BY <2>1, <2>2
<1>5. CASE SchedulerNext
  BY <1>5 DEF SchedulerNext, DependenciesReady, DependencyFails, DependencyRecovers,
              PermissionLost, ClaimRefused, ExpireArmed, ReadUnknown, FinishExecute,
              ExpireUnarmed
<1>6. CASE AbandonedLeaseExpires \/ LeaseOverrun \/ Retry \/ Reconcile
  BY <1>6 DEF AbandonedLeaseExpires, LeaseOverrun, Retry, Reconcile
<1> QED
  BY <1>1, <1>2, <1>3, <1>4, <1>5, <1>6 DEF Next

\* Without an arming, nobody is newly exposed and nobody goes back to idle.
LEMMA EvidenceOther ==
  ASSUME TypeOK, [Next]_vars, \A w \in Worker, b \in BOOLEAN : ~Arm(w, b)
  PROVE  /\ Exposed' \subseteq Exposed
         /\ \A u \in Worker : pc'[u] \in {"idle", "claimed", "prepared"} =>
                                pc[u] \in {"idle", "claimed", "prepared"}
<1> USE DEF TypeOK, DataOK, Leave
<1>1. ASSUME UNCHANGED <<requests, pc>>
      PROVE  /\ Exposed' \subseteq Exposed
             /\ \A u \in Worker : pc'[u] \in {"idle", "claimed", "prepared"} =>
                                    pc[u] \in {"idle", "claimed", "prepared"}
  BY <1>1 DEF Exposed
<1>2. ASSUME NEW w \in Worker, WorkerNext(w)
      PROVE  /\ Exposed' \subseteq Exposed
             /\ \A u \in Worker : pc'[u] \in {"idle", "claimed", "prepared"} =>
                                    pc[u] \in {"idle", "claimed", "prepared"}
  <2> USE DEF Exposed, remoteVars, KnownUnsent
  <2>1. CASE Send(w)
    BY <2>1 DEF Send
  <2>2. CASE ClaimStep(w) \/ Prepare(w) \/ CheckBeforeSend(w) \/ RecordUnknown(w) \/ Answer(w)
    BY <2>2 DEF ClaimStep, Prepare, CheckBeforeSend, RecordUnknown, Answer
  <2>3. CASE RecordCreated(w) \/ PreserveReceipt(w) \/ WorkerReturns(w) \/ WorkerCrashes(w)
    BY <2>3 DEF RecordCreated, PreserveReceipt, WorkerReturns, WorkerCrashes
  <2>4. CASE TakesEffect(w)
    BY <2>4 DEF TakesEffect, workerVars
  <2>5. CASE \E b \in BOOLEAN : LocalOutcome(w, b) \/ NotSent(w, b)
    BY <2>5 DEF LocalOutcome, NotSent
  <2> QED
    BY <1>2, <2>1, <2>2, <2>3, <2>4, <2>5 DEF WorkerNext
<1> QED
  BY <1>1, <1>2, WorkersFrame DEF Next

LEMMA EvidenceStep ==
  ASSUME TypeOK, ExposureInv, BodyInv, EvidenceInv, [Next]_vars
  PROVE  EvidenceInv'
<1> USE DEF TypeOK, DataOK
<1>1. ASSUME NEW w \in Worker, NEW b \in BOOLEAN, NotSent(w, b) PROVE EvidenceInv'
  <2>1. Exposed \subseteq {w} /\ \A q \in requests : q.worker # w
    BY <1>1 DEF NotSent, Active, ExposureInv, KnownUnsent, BodyInv
  <2>2. pc' = [pc EXCEPT ![w] = "gone"] /\ requests' = requests
    BY <1>1 DEF NotSent, Leave, remoteVars
  <2>3. Exposed' = {}
    BY <2>1, <2>2 DEF Exposed
  <2>4. \A e \in evidence' : e \in evidence \/ e.token = w
    BY <1>1 DEF NotSent, RecordedBy, Recorded
  <2> QED
    BY <2>2, <2>3, <2>4 DEF EvidenceInv
<1>2. ASSUME NEW w \in Worker, NEW b \in BOOLEAN, Arm(w, b) PROVE EvidenceInv'
  <2>1. requests = {} /\ \A u \in Worker : ~KnownUnsent(u)
    BY <1>2, ClosedIsUnsent DEF Arm, Active, ExposureInv
  <2>2. /\ requests' = {} /\ \A u \in Worker \ {w} : pc'[u] = pc[u]
        /\ pc'[w] \in {"armed", "gone"}
    BY <1>2, <2>1 DEF Arm, Leave, remoteVars
  <2>3. Exposed' \subseteq {w}
    BY <2>1, <2>2 DEF Exposed, KnownUnsent
  <2>4. \E e \in evidence' : e.conclusion = "REQUEST_ARMED" /\ e.token = w
    <3> DEFINE fact == [conclusion |-> "REQUEST_ARMED", token |-> w,
                        attempt |-> claim[w].attempt, remoteId |-> None, recovery |-> 0]
    <3>1. fact \in evidence'
      BY <1>2 DEF Arm, RecordedBy, Recorded
    <3>2. fact.conclusion = "REQUEST_ARMED" /\ fact.token = w
      OBVIOUS
    <3> QED
      BY ONLY <3>1, <3>2, Zenon
  <2>5. \A e \in evidence' : e \in evidence \/ e.conclusion = "REQUEST_ARMED"
    BY <1>2 DEF Arm, RecordedBy, Recorded
  <2>6. pc[w] = "prepared"
    BY <1>2 DEF Arm
  <2> QED
    BY <2>2, <2>3, <2>4, <2>5, <2>6 DEF EvidenceInv
<1>3. CASE \A w \in Worker, b \in BOOLEAN : ~NotSent(w, b) /\ ~Arm(w, b)
  BY <1>3, EvidenceGrows, EvidenceOther, EvidenceKept
<1> QED
  BY <1>1, <1>2, <1>3
\* Steps that neither publish nor end a message.
LEMMA DispatchKept ==
  ASSUME DispatchInv, task' = task, dispatched => dispatched', readDone => readDone',
         mismatch' => mismatch \/ status' = "SUCCEEDED",
         (\E r \in Reader : rpc'[r] # "idle") =>
            (\E r \in Reader : rpc[r] # "idle") \/ status \in {"UNKNOWN", "SUCCEEDED"},
         status \in {"UNKNOWN", "SUCCEEDED"} => status' \in {"UNKNOWN", "SUCCEEDED"},
         status' \in {"QUEUED", "RUNNING"} => task = "execute",
         status' \in {"PENDING", "QUEUED", "RUNNING"} => status \in {"PENDING", "QUEUED", "RUNNING"},
         status' = "UNKNOWN" => status = "UNKNOWN" \/ readDone \/ dispatched
  PROVE  DispatchInv'
  BY DEF DispatchInv

\* An asking step is running with a message outstanding, unknown or successful.
LEMMA ExposedIsWatched ==
  ASSUME TypeOK, ExposureInv, DispatchInv, Exposed # {}
  PROVE  \/ status = "RUNNING" /\ dispatched
         \/ status \in {"UNKNOWN", "SUCCEEDED"}
  BY DEF TypeOK, DataOK, Status, ExposureInv, DispatchInv

LEMMA DispatchWorker ==
  ASSUME TypeOK, ExposureInv, BodyInv, ObjectInv, DispatchInv, NEW w \in Worker, WorkerNext(w)
  PROVE  DispatchInv'
<1>1. task' = task /\ (dispatched => dispatched') /\ (readDone => readDone') /\ rpc' = rpc
  <2>1. UNCHANGED <<task, dispatched, readDone, rpc>>
    <3> USE DEF dispatchVars, readerVars
    <3>1. CASE ClaimStep(w) \/ Prepare(w) \/ CheckBeforeSend(w) \/ Send(w) \/ RecordUnknown(w)
      BY <3>1, Zenon DEF ClaimStep, Prepare, CheckBeforeSend, Send, RecordUnknown
    <3>2. CASE Answer(w) \/ RecordCreated(w) \/ PreserveReceipt(w)
      BY <3>2, Zenon DEF Answer, RecordCreated, PreserveReceipt
    <3>3. CASE WorkerReturns(w) \/ WorkerCrashes(w) \/ TakesEffect(w)
      BY <3>3, Zenon DEF WorkerReturns, WorkerCrashes, TakesEffect
    <3>4. CASE \E b \in BOOLEAN : LocalOutcome(w, b) \/ Arm(w, b) \/ NotSent(w, b)
      BY <3>4, Zenon DEF LocalOutcome, Arm, NotSent
    <3> QED
      BY <3>1, <3>2, <3>3, <3>4, Zenon DEF WorkerNext
  <2> QED
    BY <2>1, Zenon
<1>2. ASSUME UNCHANGED <<status, mismatch>> PROVE DispatchInv'
  <2>1. mismatch' => mismatch
    BY <1>2, Zenon
  <2> QED
    BY <1>1, <1>2, <2>1, DispatchKept DEF DispatchInv
<1>3. CASE ClaimStep(w)
  <2>1. /\ mismatch' => mismatch
        /\ task = "execute" /\ status \in {"PENDING", "QUEUED", "RUNNING"} /\ status' = "RUNNING"
    BY <1>3, Zenon DEF ClaimStep, Executable
  <2> QED
    BY <1>1, <2>1, DispatchKept
<1>4. CASE Prepare(w) \/ CheckBeforeSend(w) \/ Send(w) \/ Answer(w) \/ WorkerReturns(w)
           \/ WorkerCrashes(w) \/ TakesEffect(w)
  <2>1. UNCHANGED <<status, mismatch>>
    BY <1>4, Zenon DEF Prepare, CheckBeforeSend, Send, Answer, WorkerReturns, WorkerCrashes,
                       TakesEffect, stepVars
  <2> QED
    BY <1>2, <2>1
<1>5. ASSUME w \in Exposed, mismatch' => mismatch \/ status' = "SUCCEEDED",
             \/ status' = status
             \/ status' = "UNKNOWN" /\ status # "SUCCEEDED"
             \/ status' = "SUCCEEDED"
      PROVE  DispatchInv'
  <2>1. (status = "RUNNING" /\ dispatched) \/ status \in {"UNKNOWN", "SUCCEEDED"}
    BY <1>5, ExposedIsWatched
  <2> QED
    BY <1>1, <1>5, <2>1, DispatchKept DEF DispatchInv
<1>6. CASE RecordUnknown(w)
  <2>1. w \in Exposed
    BY <1>6 DEF RecordUnknown, BodyInv, Exposed
  <2>2. mismatch' => mismatch
    BY <1>6, Zenon DEF RecordUnknown
  <2>3. status' = status \/ (status' = "UNKNOWN" /\ status # "SUCCEEDED")
    BY <1>6 DEF RecordUnknown
  <2> QED
    BY <1>5, <2>1, <2>2, <2>3
<1>7. CASE RecordCreated(w)
  <2>1. w \in Exposed
    BY <1>7 DEF RecordCreated, ObjectInv, Exposed
  <2>2. \/ status' = "UNKNOWN" /\ status # "SUCCEEDED" /\ mismatch' = mismatch
        \/ status' = "SUCCEEDED"
    BY <1>7, Zenon DEF RecordCreated, ObjectInv
  <2>3. mismatch' => mismatch \/ status' = "SUCCEEDED"
    BY <2>2, Zenon
  <2> QED
    BY <1>5, <2>1, <2>2, <2>3
<1>8. CASE PreserveReceipt(w)
  <2>1. w \in Exposed
    BY <1>8 DEF PreserveReceipt, ObjectInv, Exposed
  <2>2. \/ status' = "UNKNOWN" /\ status # "SUCCEEDED"
        \/ status' = "SUCCEEDED"
    BY <1>8 DEF PreserveReceipt, ObjectInv
  <2>3. mismatch' => mismatch \/ remoteId # None
    BY <1>8, Zenon DEF PreserveReceipt
  <2>4. remoteId # None => status' = "SUCCEEDED"
    BY <1>8 DEF PreserveReceipt, ObjectInv
  <2> QED
    BY <1>5, <2>1, <2>2, <2>3, <2>4
<1>9. ASSUME NEW b \in BOOLEAN, LocalOutcome(w, b) \/ Arm(w, b) \/ NotSent(w, b)
      PROVE  DispatchInv'
  <2>1. mismatch' => mismatch
    BY <1>9, Zenon DEF LocalOutcome, Arm, NotSent
  <2>2. status = "RUNNING" /\ status' \in {"RUNNING", "PENDING", "FAILED"}
    BY <1>9 DEF LocalOutcome, Arm, NotSent, Active, FailLocally
  <2> QED
    BY <1>1, <2>1, <2>2, DispatchKept DEF DispatchInv
<1> QED
  BY <1>3, <1>4, <1>6, <1>7, <1>8, <1>9 DEF WorkerNext

LEMMA DispatchReader ==
  ASSUME TypeOK, ObjectInv, DispatchInv, NEW r \in Reader, ReaderNext(r)
  PROVE  DispatchInv'
<1>1. rpc[r] # "idle" => status \in {"UNKNOWN", "SUCCEEDED"}
  BY DEF DispatchInv
<1>2. ASSUME status \in {"UNKNOWN", "SUCCEEDED"}, status' \in {"UNKNOWN", "SUCCEEDED"},
             status' = "UNKNOWN" => readDone' \/ dispatched'
      PROVE  DispatchInv'
  BY <1>2 DEF DispatchInv
<1>3. ASSUME status \in {"UNKNOWN", "SUCCEEDED"}, UNCHANGED <<dispatched, readDone>>,
             status' = status \/ (status' = "UNKNOWN" /\ status # "SUCCEEDED")
                \/ status' = "SUCCEEDED"
      PROVE  DispatchInv'
  <2>1. (dispatched => dispatched') /\ (readDone => readDone')
    BY <1>3, Zenon
  <2> QED
    BY <1>2, <1>3, <2>1 DEF DispatchInv
<1>4. InDoubt => status' = status \/ (status' = "UNKNOWN" /\ status # "SUCCEEDED")
  BY DEF InDoubt, ObjectInv
<1> USE DEF stepVars, dispatchVars
<1>5. CASE ClaimRead(r) \/ ClaimReadback(r)
  <2>1. UNCHANGED <<status, dispatched, readDone>> /\ status \in {"UNKNOWN", "SUCCEEDED"}
    BY <1>5, Zenon DEF ClaimRead, ClaimReadback, ToRead
  <2> QED
    BY <1>3, <2>1
<1>6. CASE ReadBlocked(r)
  <2>1. InDoubt /\ UNCHANGED <<dispatched, readDone>> /\ status \in {"UNKNOWN", "SUCCEEDED"}
    BY <1>6, Zenon DEF ReadBlocked, ToRead
  <2> QED
    BY <1>3, <1>4, <2>1
<1>7. CASE ReplayDelivery(r)
  <2>1. UNCHANGED <<status, dispatched, readDone>> /\ task = "reconcile"
    BY <1>7, Zenon DEF ReplayDelivery
  <2> QED
    BY <1>3, <2>1 DEF DispatchInv
<1>8. CASE ReadPlatform(r) \/ ReaderLeaves(r) \/ ReaderCrashes(r)
  <2>1. UNCHANGED <<status, dispatched, readDone>>
    BY <1>8, Zenon DEF ReadPlatform, ReaderLeaves, ReaderCrashes
  <2>2. rpc[r] # "idle"
    BY <1>8 DEF ReadPlatform, ReaderLeaves, ReaderCrashes
  <2> QED
    BY <1>1, <1>3, <2>1, <2>2
<1>9. CASE FinishRead(r)
  <2>1. status' = status /\ rpc[r] # "idle"
    BY <1>9 DEF FinishRead
  <2>2. \/ UNCHANGED <<dispatched, readDone>>
        \/ readDone' \/ dispatched'
    BY <1>9, Zenon DEF FinishRead, EndRead, QueueRead, NewRevision
  <2> QED
    BY <1>1, <1>2, <1>3, <2>1, <2>2
<1>10. ASSUME NEW o \in {"final", "more"}, ReadInconclusive(r, o) PROVE DispatchInv'
  <2>1. UNCHANGED <<dispatched, readDone>>
    BY <1>10, Zenon DEF ReadInconclusive
  <2>2. rpc[r] # "idle" /\ (status' = status \/ InDoubt)
    BY <1>10 DEF ReadInconclusive
  <2> QED
    BY <1>1, <1>3, <1>4, <2>1, <2>2
<1>11. ASSUME NEW d \in BOOLEAN, ReadConfirmed(r, d) PROVE DispatchInv'
  <2>1. UNCHANGED <<dispatched, readDone>>
    BY <1>11, Zenon DEF ReadConfirmed
  <2>2. rpc[r] # "idle" /\ status' = "SUCCEEDED"
    BY <1>11 DEF ReadConfirmed
  <2> QED
    BY <1>1, <1>3, <2>1, <2>2
<1> QED
  BY <1>5, <1>6, <1>7, <1>8, <1>9, <1>10, <1>11 DEF ReaderNext
LEMMA DispatchScheduler ==
  ASSUME TypeOK, ObjectInv, DispatchInv,
         SchedulerNext \/ AbandonedLeaseExpires \/ LeaseOverrun \/ Retry \/ Reconcile
         \/ UNCHANGED vars
  PROVE  DispatchInv'
<1>1. rpc' = rpc /\ (mismatch' => mismatch)
  <2>1. UNCHANGED <<rpc, mismatch>>
    <3> USE DEF readerVars, stepVars
    <3>1. CASE SchedulerNext
      BY <3>1, Zenon DEF SchedulerNext, DependenciesReady, DependencyFails,
         DependencyRecovers,
              PermissionLost, ClaimRefused, ExpireArmed, ReadUnknown, FinishExecute, ExpireUnarmed
    <3>2. CASE AbandonedLeaseExpires \/ LeaseOverrun \/ Retry \/ Reconcile \/ UNCHANGED vars
      BY <3>2, Zenon DEF AbandonedLeaseExpires, LeaseOverrun, Retry, Reconcile, vars
    <3> QED
      BY <3>1, <3>2, Zenon
  <2> QED
    BY <2>1, Zenon
\* A message is published for a step that is neither unknown nor successful.
<1>2. ASSUME status \notin {"UNKNOWN", "SUCCEEDED"}, status' = "QUEUED", task' = "execute",
             dispatched'
      PROVE  DispatchInv'
  BY <1>1, <1>2 DEF DispatchInv
\* A read is published.
<1>3. ASSUME status' \in {"UNKNOWN", "SUCCEEDED"}, dispatched'
      PROVE  DispatchInv'
  BY <1>3 DEF DispatchInv
\* Nothing is published.
<1>4. ASSUME UNCHANGED <<task, dispatched, readDone>>,
             \/ status' = status
             \/ status \in {"PENDING", "QUEUED", "RUNNING"} /\ status' \in {"PENDING", "FAILED"}
      PROVE  DispatchInv'
  <2>1. (dispatched => dispatched') /\ (readDone => readDone')
    BY <1>4, Zenon
  <2> QED
    BY <1>1, <1>4, <2>1, DispatchKept DEF DispatchInv
<1> USE DEF QueueExecute, QueueRead, NewRevision, FailLocally, dispatchVars, stepVars
<1>5. CASE DependenciesReady \/ DependencyRecovers \/ Retry
  <2>1. /\ status \notin {"UNKNOWN", "SUCCEEDED"} /\ status' = "QUEUED" /\ task' = "execute"
        /\ dispatched'
    BY <1>5 DEF DependenciesReady, DependencyRecovers, Retry
  <2> QED
    BY <1>2, <2>1
<1>6. CASE ExpireArmed \/ ReadUnknown
  <2>1. status' = "UNKNOWN" /\ dispatched'
    BY <1>6 DEF ExpireArmed, ReadUnknown
  <2> QED
    BY <1>3, <2>1
<1>7. CASE Reconcile
  <2>1. status \in {"UNKNOWN", "SUCCEEDED"} /\ status' = status /\ dispatched'
    BY <1>7 DEF Reconcile, DispatchInv
  <2> QED
    BY <1>3, <2>1
<1>8. CASE DependencyFails \/ PermissionLost \/ ClaimRefused
  <2>1. status \in {"PENDING", "QUEUED", "RUNNING"} /\ status' = "FAILED"
    BY <1>8 DEF DependencyFails, PermissionLost, ClaimRefused, Executable
  <2>2. UNCHANGED <<task, dispatched, readDone>>
    BY <1>8, Zenon DEF DependencyFails, PermissionLost, ClaimRefused
  <2> QED
    BY <1>4, <2>1, <2>2
<1>9. CASE AbandonedLeaseExpires \/ LeaseOverrun \/ UNCHANGED vars
  <2>1. UNCHANGED <<task, dispatched, readDone, status>>
    BY <1>9, Zenon DEF AbandonedLeaseExpires, LeaseOverrun, vars
  <2> QED
    BY <1>4, <2>1
<1>10. ASSUME NEW b \in BOOLEAN, ExpireUnarmed(b) PROVE DispatchInv'
  <2>1. status = "RUNNING"
    BY <1>10 DEF ExpireUnarmed
  <2>2. \/ status' = "QUEUED" /\ task' = "execute" /\ dispatched'
        \/ status' = "PENDING" /\ UNCHANGED <<task, dispatched, readDone>>
    BY <1>10, Zenon DEF ExpireUnarmed
  <2> QED
    BY <1>2, <1>4, <2>1, <2>2
<1>11. CASE FinishExecute
  <2>1. \/ status \in {"PENDING", "QUEUED"} /\ status' = "QUEUED" /\ task' = "execute" /\ dispatched'
        \/ status' = "UNKNOWN" /\ dispatched'
        \/ status \in {"SUCCEEDED", "FAILED"} /\ UNCHANGED <<status, task, readDone>>
    BY <1>11, Zenon DEF FinishExecute
  <2>2. CASE status \in {"SUCCEEDED", "FAILED"} /\ UNCHANGED <<status, task, readDone>>
    BY <1>1, <2>2 DEF DispatchInv
  <2> QED
    BY <1>2, <1>3, <2>1, <2>2
<1> QED
  BY <1>5, <1>6, <1>7, <1>8, <1>9, <1>10, <1>11 DEF SchedulerNext

(***************************************************************************)
(* The invariant is inductive.                                             *)
(***************************************************************************)
LEMMA IInvInit == Init => IInv
<1> SUFFICES ASSUME Init PROVE IInv
  OBVIOUS
<1> USE DEF Init
<1>1. FlagsOK
  BY Zenon DEF FlagsOK
<1>2. DataOK
  BY NullRecords DEF DataOK, Status, Phase
<1>3. ExposureInv /\ EvidenceInv
  BY DEF ExposureInv, EvidenceInv, Exposed
<1>4. BodyInv
  BY DEF BodyInv, KnownUnsent
<1>5. ObjectInv
  BY DEF ObjectInv, NoRead
<1>6. DispatchInv
  <2>1. task # "reconcile" /\ task # "execute"
    BY ConstantsOK DEF ConstantsOK
  <2>2. ~mismatch /\ (\A r \in Reader : rpc[r] = "idle") /\ status = "PENDING"
    BY Zenon
  <2> QED
    BY <2>1, <2>2 DEF DispatchInv
<1> QED
  BY <1>1, <1>2, <1>3, <1>4, <1>5, <1>6 DEF IInv, TypeOK

LEMMA IInvStep == IInv /\ [Next]_vars => IInv'
<1> SUFFICES ASSUME IInv, [Next]_vars PROVE IInv'
  OBVIOUS
<1> USE DEF IInv
<1>1. TypeOK'
  BY TypeStep
<1>2. BodyInv'
  BY BodyStep
<1>3. ExposureInv'
  BY ExposureStep
<1>4. ObjectInv'
  BY ObjectStep
<1>5. EvidenceInv'
  BY EvidenceStep
<1>6. DispatchInv'
  BY DispatchWorker, DispatchReader, DispatchScheduler DEF Next
<1> QED
  BY <1>1, <1>2, <1>3, <1>4, <1>5, <1>6

THEOREM Invariance == Spec => []IInv
  BY IInvInit, IInvStep, PTL DEF Spec
(***************************************************************************)
(* What follows from the invariant.                                        *)
(***************************************************************************)

\* Every reachable state is well typed.
THEOREM TypeCorrect == Spec => []TypeOK
<1>1. IInv => TypeOK
  BY DEF IInv
<1> QED
  BY <1>1, Invariance, PTL

\* Through every redelivery, expiry, retry and recovery, process_step asks the
\* platform at most once.
THEOREM AsksOnce == Spec => []AtMostOneRequest
<1>1. IInv => AtMostOneRequest
  <2> SUFFICES ASSUME IInv, NEW p \in requests, NEW q \in requests PROVE p = q
    BY DEF AtMostOneRequest
  <2>1. p.worker = q.worker
    BY DEF IInv, ExposureInv, Exposed
  <2>2. p.body = q.body
    BY DEF IInv, BodyInv
  <2>3. /\ p \in [worker : Worker, body : Body \cup {None}]
        /\ q \in [worker : Worker, body : Body \cup {None}]
    BY DEF IInv, TypeOK, DataOK
  <2> QED
    BY <2>1, <2>2, <2>3
<1> QED
  BY <1>1, Invariance, PTL

\* A FAILED step, which a user may retry, has sent nothing and never will.
THEOREM FailureIsUnsent == Spec => []FailedMeansUnsent
<1>1. IInv => FailedMeansUnsent
  BY DEF IInv, ExposureInv, FailedMeansUnsent
<1> QED
  BY <1>1, Invariance, PTL

\* The platform receives the body that arm_request saved.
THEOREM BodyIsSaved == Spec => []SentBodyIsSaved
<1>1. IInv => SentBodyIsSaved
  BY DEF IInv, BodyInv, SentBodyIsSaved
<1> QED
  BY <1>1, Invariance, PTL

\* A SUCCEEDED step names an object its own request created.
THEOREM SuccessExists == Spec => []SuccessIsReal
<1>1. IInv => SuccessIsReal
  BY DEF IInv, ObjectInv, SuccessIsReal
<1> QED
  BY <1>1, Invariance, PTL

\* UNSENT_ATTEMPT never holds of a step that has sent or may still send.
THEOREM ProofIsSound == Spec => []UnsentProofIsSound
<1>1. IInv => UnsentProofIsSound
  <2> SUFFICES ASSUME IInv, UnsentProof, NEW w \in Exposed PROVE FALSE
    BY DEF UnsentProofIsSound
  <2>1. PICK e \in evidence : e.conclusion = "REQUEST_ARMED" /\ e.token = w
    BY DEF IInv, EvidenceInv
  <2>2. e.attempt = attempt
    BY <2>1 DEF UnsentProof
  <2>3. \E f \in evidence : f.token = e.token /\ f.conclusion = "NOT_SENT"
    BY <2>1, <2>2 DEF UnsentProof, Proof
  <2> QED
    BY <2>1, <2>3 DEF IInv, EvidenceInv
<1> QED
  BY <1>1, Invariance, PTL

\* A recorded receipt is the step's result or keeps it UNKNOWN.
THEOREM ReceiptsAreKept == Spec => []ReceiptIsKept
<1>1. IInv => ReceiptIsKept
  <2> SUFFICES ASSUME IInv, NEW e \in evidence, e.remoteId # None, status # "UNKNOWN"
               PROVE  status = "SUCCEEDED" /\ remoteId = e.remoteId
    BY DEF ReceiptIsKept
  <2>1. e.remoteId \in objects /\ status = "SUCCEEDED" /\ remoteId \in objects
    BY DEF IInv, ObjectInv
  <2>2. \A u, v \in objects : u = v
    BY DEF IInv, ObjectInv, ExposureInv, Exposed
  <2> QED
    BY <2>1, <2>2
<1> QED
  BY <1>1, Invariance, PTL

\* An UNKNOWN step has been read to a conclusion or has a message outstanding.
THEOREM UnknownsAreWatched == Spec => []UnknownIsWatched
<1>1. IInv => UnknownIsWatched
  BY DEF IInv, DispatchInv, UnknownIsWatched
<1> QED
  BY <1>1, Invariance, PTL

\* Only arm_request writes the body, and only one equal to a saved one.
LEMMA BodyIsFinal == TypeOK /\ [Next]_vars /\ body # None => body' = body
<1> SUFFICES ASSUME TypeOK, [Next]_vars, body # None PROVE body' = body
  OBVIOUS
<1>1. ASSUME NEW w \in Worker, WorkerNext(w) PROVE body' = body
  BY <1>1 DEF WorkerNext, ClaimStep, Prepare, CheckBeforeSend, Send, RecordUnknown, Answer,
              RecordCreated, PreserveReceipt, WorkerReturns, WorkerCrashes, TakesEffect,
              LocalOutcome, Arm, NotSent, stepVars
<1> QED
  BY <1>1, WorkersFrame DEF Next

LEMMA ResultStep ==
  ASSUME IInv, [Next]_vars
  PROVE  /\ status = "UNKNOWN" => status' \in {"UNKNOWN", "SUCCEEDED"}
         /\ status = "SUCCEEDED" => status' = "SUCCEEDED"
         /\ remoteId # None => remoteId' = remoteId
<1>1. CASE KeepsResult
  BY <1>1 DEF KeepsResult
<1>2. ASSUME NEW w \in Worker, RecordCreated(w) \/ PreserveReceipt(w)
      PROVE  /\ status = "UNKNOWN" => status' \in {"UNKNOWN", "SUCCEEDED"}
             /\ status = "SUCCEEDED" => status' = "SUCCEEDED"
             /\ remoteId # None => remoteId' = remoteId
  BY <1>2 DEF RecordCreated, PreserveReceipt, Active, IInv, ObjectInv
<1>3. ASSUME NEW r \in Reader, NEW d \in BOOLEAN, ReadConfirmed(r, d)
      PROVE  status' = "SUCCEEDED" /\ (remoteId # None => remoteId' = remoteId)
  <2>1. status' = "SUCCEEDED" /\ read[r].seen = {remoteId'}
    BY <1>3 DEF ReadConfirmed
  <2>2. remoteId' \in objects /\ (remoteId # None => remoteId \in objects)
    BY <2>1 DEF IInv, ObjectInv
  <2>3. \A u, v \in objects : u = v
    BY DEF IInv, ObjectInv, ExposureInv, Exposed
  <2> QED
    BY <2>1, <2>2, <2>3
<1> QED
  BY <1>1, <1>2, <1>3, ResultCases DEF IInv

\* No step is replayed: nothing leads from UNKNOWN or SUCCEEDED back to the
\* create queue or to FAILED, and an object id or a saved body never changes.
THEOREM NothingIsReplayed == Spec => NoReplay
<1> DEFINE Step == /\ status = "UNKNOWN" => status' \in {"UNKNOWN", "SUCCEEDED"}
                   /\ status = "SUCCEEDED" => status' = "SUCCEEDED"
                   /\ remoteId # None => remoteId' = remoteId
                   /\ body # None => body' = body
<1>1. IInv /\ [Next]_vars => Step
  BY ResultStep, BodyIsFinal DEF IInv
<1>2. IInv /\ [Next]_vars => [Step]_<<status, remoteId, body>>
  BY <1>1
<1> QED
  BY <1>2, Invariance, PTL DEF Spec, NoReplay
(***************************************************************************)
(* Refinement of CreateOnce.                                               *)
(***************************************************************************)

\* A FAILED step leaves that state only through recovery.
LEMMA FailedStep ==
  ASSUME IInv, [Next]_vars, status = "FAILED"
  PROVE  status' \in {"FAILED", "QUEUED"}
<1>1. /\ \A w \in Worker : /\ ~KnownUnsent(w)
                           /\ pc[w] \notin {"sent", "answered", "recorded"}
      /\ \A r \in Reader : rpc[r] = "idle"
      /\ task # "reconcile"
  <2>1. Exposed = {}
    BY DEF IInv, ExposureInv
  <2>2. \A w \in Worker : ~KnownUnsent(w) /\ pc[w] \notin {"sent", "answered", "recorded"}
    BY <2>1 DEF IInv, BodyInv, ObjectInv, Exposed, KnownUnsent
  <2> QED
    BY <2>2 DEF IInv, DispatchInv
<1>2. ASSUME NEW w \in Worker, WorkerNext(w) PROVE status' \in {"FAILED", "QUEUED"}
  BY <1>1, <1>2 DEF WorkerNext, ClaimStep, Executable, Prepare, CheckBeforeSend, Send,
              RecordUnknown, Answer, RecordCreated, PreserveReceipt, WorkerReturns, WorkerCrashes,
              TakesEffect, LocalOutcome, Arm, NotSent, Active, KnownUnsent, stepVars
<1>3. ASSUME NEW r \in Reader, ReaderNext(r) PROVE status' \in {"FAILED", "QUEUED"}
  BY <1>1, <1>3 DEF ReaderNext, ClaimRead, ClaimReadback, ReadBlocked, ReplayDelivery,
              ReadPlatform, ReaderLeaves, ReaderCrashes, FinishRead, ReadInconclusive,
              ReadConfirmed, ToRead, stepVars
<1>4. CASE SchedulerNext
  BY <1>4 DEF SchedulerNext, DependenciesReady, DependencyFails, DependencyRecovers,
              PermissionLost, ClaimRefused, ExpireArmed, ReadUnknown, FinishExecute,
              ExpireUnarmed, FailLocally, QueueExecute, stepVars
<1>5. CASE AbandonedLeaseExpires \/ LeaseOverrun \/ Retry \/ Reconcile \/ UNCHANGED vars
  BY <1>5 DEF AbandonedLeaseExpires, LeaseOverrun, Retry, Reconcile, QueueExecute, vars,
     stepVars
<1> QED
  BY <1>2, <1>3, <1>4, <1>5 DEF Next

\* Only Send brings a request to the platform, and only when none was there.
LEMMA AskStep ==
  ASSUME IInv, [Next]_vars
  PROVE  \/ requests' = requests
         \/ /\ requests = {} /\ requests' # {}
            /\ status' = status /\ status \notin {"SUCCEEDED", "FAILED"}
<1> USE DEF IInv, remoteVars
<1>1. ASSUME NEW w \in Worker, Send(w)
      PROVE  /\ requests = {} /\ requests' # {}
             /\ status' = status /\ status \notin {"SUCCEEDED", "FAILED"}
  <2>1. w \in Exposed /\ \A q \in requests : q.worker # w
    BY <1>1 DEF Send, Exposed, BodyInv
  <2>2. requests = {}
    BY <2>1 DEF ExposureInv, Exposed
  <2>3. status \notin {"SUCCEEDED", "FAILED"}
    BY <2>1, <2>2 DEF ExposureInv, ObjectInv
  <2> QED
    BY <1>1, <2>2, <2>3 DEF Send, stepVars
<1>2. ASSUME NEW w \in Worker, WorkerNext(w), ~Send(w) PROVE requests' = requests
  BY <1>2 DEF WorkerNext, ClaimStep, Prepare, CheckBeforeSend, RecordUnknown, Answer,
              RecordCreated, PreserveReceipt, WorkerReturns, WorkerCrashes, TakesEffect,
              LocalOutcome, Arm, NotSent
<1> QED
  BY <1>1, <1>2, WorkersFrame DEF Next

LEMMA OnceStep ==
  ASSUME IInv, IInv', [Next]_vars
  PROVE  [Once!OnceNext]_Once!onceVars
<1> DEFINE asked == requests # {}
<1>1. /\ status \in Status /\ status' \in Status
  BY DEF IInv, TypeOK, DataOK
<1>2. status' = "SUCCEEDED" => requests' # {}
  BY DEF IInv, ObjectInv
<1>3. (status = "FAILED" => requests = {}) /\ (status' = "FAILED" => requests' = {})
  BY DEF IInv, ExposureInv, Exposed
<1>4. CASE requests' # requests
  <2>1. requests = {} /\ requests' # {} /\ status' = status /\ status \notin {"SUCCEEDED", "FAILED"}
    BY <1>4, AskStep
  <2>2. verdict' = verdict /\ verdict \in {"open", "unknown"}
    BY <1>1, <2>1 DEF verdict, Status
  <2> QED
    BY <2>1, <2>2 DEF Once!OnceNext, Once!Ask
<1>5. CASE requests' = requests
  <2>1. CASE verdict' = verdict
    BY <1>5, <2>1 DEF Once!onceVars
  <2>2. CASE status' = "SUCCEEDED" /\ status # "SUCCEEDED"
    <3>1. verdict' = "known" /\ verdict # "failed" /\ requests # {}
      BY <1>1, <1>2, <1>3, <1>5, <2>2 DEF verdict, Status
    <3> QED
      BY <1>5, <3>1 DEF Once!OnceNext, Once!Confirm
  <2>3. CASE status = "FAILED" /\ status' # "FAILED" /\ status' # "SUCCEEDED"
    <3>1. verdict = "failed" /\ verdict' = "open"
      BY <2>3, FailedStep DEF verdict
    <3> QED
      BY <1>5, <3>1 DEF Once!OnceNext, Once!Retry
  <2>4. CASE status \in {"PENDING", "QUEUED", "RUNNING"} /\ status' = "FAILED"
    <3>1. verdict = "open" /\ verdict' = "failed" /\ requests = {}
      BY <1>3, <1>5, <2>4 DEF verdict
    <3> QED
      BY <1>5, <3>1 DEF Once!OnceNext, Once!Fail
  <2>5. CASE status \in {"PENDING", "QUEUED", "RUNNING"} /\ status' = "UNKNOWN"
    <3>1. verdict = "open" /\ verdict' = "unknown"
      BY <2>5 DEF verdict
    <3> QED
      BY <1>5, <3>1 DEF Once!OnceNext, Once!Doubt
  <2>6. verdict' = verdict \/ status' # status
    BY DEF verdict
  <2>7. status \in {"PENDING", "QUEUED", "RUNNING"} /\ status' \in {"PENDING", "QUEUED", "RUNNING"}
        => verdict' = verdict
    BY DEF verdict
  <2> QED
    BY <1>1, <2>1, <2>2, <2>3, <2>4, <2>5, <2>6, <2>7, ResultStep DEF Status
<1> QED
  BY <1>4, <1>5

\* Each step, with its workers, readers, leases, messages and platform, does
\* what CreateOnce allows.
THEOREM StepImplementsCreateOnce == Spec => ImplementsCreateOnce
<1>1. Init => Once!OnceInit
  BY DEF Init, Once!OnceInit, verdict
<1>2. IInv /\ IInv' /\ [Next]_vars => [Once!OnceNext]_Once!onceVars
  BY OnceStep
<1> QED
  BY <1>1, <1>2, Invariance, PTL DEF Spec, ImplementsCreateOnce, Once!OnceSpec

(***************************************************************************)
(* A saved body that waits to be sent may be sent.                         *)
(***************************************************************************)
\* What proves that nothing was sent.
Ended == {"REQUEST_ARMED", "NOT_SENT"}

Tried == {e \in Proof : e.conclusion # "RETRY_REQUESTED"}

Said(token, c) == \E f \in Tried : f.token = token /\ f.conclusion = c

\* Before the first body was saved no attempt was armed, and that of the run under way has
\* no evidence yet.
NothingArmed ==
  body = None /\ status \notin {"UNKNOWN", "SUCCEEDED"} => \A e \in evidence :
    /\ ~PossibleEffect(e) /\ e.conclusion \notin Ended /\ e.attempt <= attempt
    /\ status = "RUNNING" => e.attempt # attempt

\* Since then only the request that is armed now has not been declared unsent.
AllUnsent ==
  body # None /\ status \in {"PENDING", "QUEUED", "RUNNING"} =>
    /\ Tried # {}
    /\ \A e \in evidence :
         ~PossibleEffect(e) /\ (e.conclusion \in Ended => e.attempt = attempt)
    /\ \A e \in Tried :
         /\ e.token # None /\ e.conclusion \in Ended /\ Said(e.token, "REQUEST_ARMED")
         /\ \/ Said(e.token, "NOT_SENT")
            \/ status = "RUNNING" /\ phase = "REQUEST_ARMED" /\ e.token = leaseToken

\* A step that waits has no owner.
NobodyOwns ==
  body # None /\ status \in {"PENDING", "QUEUED"} => phase = "IDLE" /\ leaseToken = None

UsableInv == NothingArmed /\ AllUnsent /\ NobodyOwns

LEMMA UsableGone == ASSUME status' \in {"UNKNOWN", "SUCCEEDED"} PROVE UsableInv'
BY DEF UsableInv, NothingArmed, AllUnsent, NobodyOwns

LEMMA UsableKept ==
  ASSUME UsableInv, UNCHANGED <<evidence, attempt, body>>,
         status \in {"UNKNOWN", "SUCCEEDED"} => status' \in {"UNKNOWN", "SUCCEEDED"},
         status' = "RUNNING" => status = "RUNNING",
         body # None =>
           /\ status' \in {"PENDING", "QUEUED", "RUNNING"} => phase' = phase /\ leaseToken' = leaseToken
           /\ status' \in {"PENDING", "QUEUED"} => status \in {"PENDING", "QUEUED"}
  PROVE  UsableInv'
<1>1. NothingArmed'
  BY DEF UsableInv, NothingArmed, PossibleEffect, Ended
<1>2. Tried' = Tried /\ \A token, c : Said(token, c)' <=> Said(token, c)
  BY DEF Tried, Proof, Said
<1>3. AllUnsent' /\ NobodyOwns'
  BY <1>2 DEF UsableInv, AllUnsent, NobodyOwns, PossibleEffect, Ended
<1> QED BY <1>1, <1>3 DEF UsableInv

\* Evidence of a step that has no body yet.
LEMMA UsableGrows ==
  ASSUME UsableInv, DataOK, body = None, status \notin {"UNKNOWN", "SUCCEEDED"},
         UNCHANGED <<attempt, body>>, status' # "RUNNING",
         NEW c \in Conclusion \ (Ended \cup {"CREATED", "LATE_CREATED", "RESULT_UNKNOWN",
                                             "LEASE_EXPIRED_ARMED"}),
         NEW fact, evidence' = evidence \cup {fact},
         fact.conclusion = c /\ fact.attempt = attempt /\ fact.remoteId = None
  PROVE  UsableInv'
<1>1. \A e \in evidence' : e \in evidence \/ e = fact
  OBVIOUS
<1>2. attempt \in Nat
  BY DEF DataOK
<1>3. ASSUME NEW e \in evidence'
      PROVE  ~PossibleEffect(e) /\ e.conclusion \notin Ended /\ e.attempt <= attempt
  BY <1>1, <1>2 DEF UsableInv, NothingArmed, PossibleEffect, Ended
<1> QED BY <1>3 DEF UsableInv, NothingArmed, AllUnsent, NobodyOwns, PossibleEffect, Ended

\* A fact that no recovery wrote.
Said0(c, token) == [conclusion |-> c, token |-> token, attempt |-> attempt,
                    remoteId |-> None, recovery |-> 0]

\* The step fails before it was armed.
LEMMA UsableFails ==
  ASSUME UsableInv, DataOK, status \notin {"UNKNOWN", "SUCCEEDED"}, status' = "FAILED",
         UNCHANGED <<attempt, body>>,
         NEW c \in {"LOCAL_FAILED", "DEPENDENCY_FAILED"}, NEW token,
         Recorded(c, token, attempt, None)
  PROVE  UsableInv'
<1>1. CASE body = None
  <2>1. /\ evidence' = evidence \cup {Said0(c, token)}
        /\ Said0(c, token).conclusion = c /\ Said0(c, token).attempt = attempt
        /\ Said0(c, token).remoteId = None
    BY DEF Recorded, Said0
  <2> QED BY <1>1, <2>1, UsableGrows DEF Conclusion, Ended
<1>2. CASE body # None
  BY <1>2 DEF UsableInv, NothingArmed, AllUnsent, NobodyOwns
<1> QED BY <1>1, <1>2

\* Evidence about an attempt is kept while the attempt is the same.
LEMMA SaidIsKept ==
  ASSUME evidence \subseteq evidence', attempt' = attempt
  PROVE  Tried \subseteq Tried' /\ \A token, c : Said(token, c) => Said(token, c)'
BY DEF Tried, Proof, Said

LEMMA ProofIsUsable ==
  ASSUME UnsentProof
  PROVE  /\ Tried # {} /\ body # None
         /\ \A e \in evidence :
              ~PossibleEffect(e) /\ (e.conclusion \in Ended => e.attempt = attempt)
         /\ \A e \in Tried :
              /\ e.token # None /\ e.conclusion \in Ended
              /\ Said(e.token, "REQUEST_ARMED") /\ Said(e.token, "NOT_SENT")
BY ZenonT(90) DEF UnsentProof, Tried, Proof, Said, Ended

LEMMA UsableIsProof ==
  ASSUME UsableInv, body # None, status \in {"PENDING", "QUEUED"}, remoteId = None, ~mismatch,
         Cardinality(Proof) <= MaxProof
  PROVE  SafelyUnsent
<1>1. phase = "IDLE" /\ leaseToken = None
  BY DEF UsableInv, NobodyOwns
<1>2. /\ Tried # {}
      /\ \A e \in evidence :
           ~PossibleEffect(e) /\ (e.conclusion \in Ended => e.attempt = attempt)
      /\ \A e \in Tried :
           /\ e.token # None /\ e.conclusion \in Ended
           /\ Said(e.token, "REQUEST_ARMED") /\ Said(e.token, "NOT_SENT")
  BY DEF UsableInv, AllUnsent
<1>3. \A e \in Tried : \A c \in Ended : \E f \in Tried : f.token = e.token /\ f.conclusion = c
  <2> SUFFICES ASSUME NEW e \in Tried, NEW c \in Ended PROVE Said(e.token, c)
    BY Zenon DEF Said
  <2> QED BY <1>2 DEF Ended
<1>4. UnsentProof
  <2>1. /\ Tried # {}
        /\ \A e \in evidence :
             /\ ~PossibleEffect(e)
             /\ e.conclusion \in {"REQUEST_ARMED", "NOT_SENT"} => e.attempt = attempt
        /\ \A e \in Tried :
             /\ e.token # None
             /\ e.conclusion \in {"REQUEST_ARMED", "NOT_SENT"}
             /\ \A c \in {"REQUEST_ARMED", "NOT_SENT"} :
                  \E f \in Tried : f.token = e.token /\ f.conclusion = c
    BY <1>2, <1>3 DEF Ended
  <2> QED BY <1>1, <2>1, Zenon DEF UnsentProof, Tried, Proof
<1> QED BY <1>1, <1>4 DEF SafelyUnsent

\* A worker records for the attempt that it owns.
LEMMA RecordedForAttempt ==
  ASSUME NEW w \in Worker, NEW c \in Ended, RecordedBy(w, c, None), claim[w].attempt = attempt,
         attempt' = attempt
  PROVE  /\ evidence \subseteq evidence' /\ Said(w, c)' /\ w # None
         /\ \A e \in evidence' : e \in evidence \/
              (e.token = w /\ e.conclusion = c /\ e.attempt = attempt /\ e.remoteId = None)
<1> DEFINE fact == Said0(c, w)
<1>1. evidence' = evidence \cup {fact}
  BY DEF RecordedBy, Recorded, Said0
<1>2. fact.conclusion = c /\ fact.token = w /\ fact.attempt = attempt /\ fact.remoteId = None
  BY DEF Said0
<1> HIDE DEF fact
<1>3. fact \in Tried'
  BY <1>1, <1>2 DEF Tried, Proof, Ended
<1>4. Said(w, c)'
  BY <1>2, <1>3 DEF Said
<1> QED BY <1>1, <1>2, <1>4, ConstantsOK DEF ConstantsOK

LEMMA UsableArm ==
  ASSUME UsableInv, DataOK, BodyInv, NEW w \in Worker, NEW seen \in BOOLEAN, Arm(w, seen)
  PROVE  UsableInv'
<1>1. /\ status = "RUNNING" /\ status' = "RUNNING" /\ phase = "CLAIMED"
      /\ phase' = "REQUEST_ARMED" /\ leaseToken = w /\ leaseToken' = w
      /\ claim[w].attempt = attempt /\ attempt' = attempt
      /\ RecordedBy(w, "REQUEST_ARMED", None) /\ body' = claim[w].body /\ body' # None
  BY ConstantsOK DEF Arm, Active, leaseVars, BodyInv, ConstantsOK
<1>2. /\ evidence \subseteq evidence' /\ Said(w, "REQUEST_ARMED")' /\ w # None
      /\ \A e \in evidence' : e \in evidence \/
           (e.token = w /\ e.conclusion = "REQUEST_ARMED" /\ e.attempt = attempt
            /\ e.remoteId = None)
  BY <1>1, RecordedForAttempt DEF Ended
<1>3. Tried \subseteq Tried' /\ \A token, c : Said(token, c) => Said(token, c)'
  BY <1>1, <1>2, SaidIsKept
<1>4. ASSUME NEW e \in evidence'
      PROVE  ~PossibleEffect(e) /\ (e.conclusion \in Ended => e.attempt = attempt)
  BY <1>1, <1>2 DEF UsableInv, NothingArmed, AllUnsent, PossibleEffect, Ended
<1>5. ASSUME NEW e \in Tried', e \in evidence
      PROVE  /\ e.token # None /\ e.conclusion \in Ended /\ Said(e.token, "REQUEST_ARMED")'
             /\ Said(e.token, "NOT_SENT")'
  <2>1. e \in Tried
    BY <1>1, <1>5 DEF Tried, Proof
  <2>2. body # None
    BY <1>1, <2>1 DEF UsableInv, NothingArmed, Tried, Proof
  <2>3. /\ e.token # None /\ e.conclusion \in Ended /\ Said(e.token, "REQUEST_ARMED")
        /\ Said(e.token, "NOT_SENT")
    BY <1>1, <2>1, <2>2 DEF UsableInv, AllUnsent
  <2> QED BY <1>3, <2>3
<1>6. ASSUME NEW e \in Tried', e \notin evidence
      PROVE  /\ e.token # None /\ e.conclusion \in Ended /\ Said(e.token, "REQUEST_ARMED")'
             /\ e.token = leaseToken'
  <2>1. e.token = w /\ e.conclusion = "REQUEST_ARMED"
    BY <1>2, <1>6 DEF Tried, Proof
  <2> QED BY <1>1, <1>2, <2>1 DEF Ended
<1>7. Tried' # {}
  BY <1>2 DEF Said
<1>8. AllUnsent'
  BY <1>1, <1>4, <1>5, <1>6, <1>7 DEF AllUnsent, PossibleEffect, Ended
<1>9. NothingArmed' /\ NobodyOwns'
  BY <1>1 DEF NothingArmed, NobodyOwns
<1> QED BY <1>8, <1>9 DEF UsableInv

LEMMA UsableNotSent ==
  ASSUME UsableInv, DataOK, BodyInv, EvidenceInv, NEW w \in Worker, NEW retryable \in BOOLEAN,
         NotSent(w, retryable)
  PROVE  UsableInv'
<1>1. /\ status = "RUNNING" /\ status' \in {"PENDING", "FAILED"}
      /\ status' = "PENDING" => phase' = "IDLE"
      /\ leaseToken = w /\ leaseToken' = None /\ claim[w].attempt = attempt /\ attempt' = attempt
      /\ RecordedBy(w, "NOT_SENT", None) /\ body' = body /\ body # None
  BY ConstantsOK DEF NotSent, Active, ReleaseLease, BodyInv, KnownUnsent, ConstantsOK
<1>2. /\ evidence \subseteq evidence' /\ Said(w, "NOT_SENT")' /\ w # None
      /\ \A e \in evidence' : e \in evidence \/
           (e.token = w /\ e.conclusion = "NOT_SENT" /\ e.attempt = attempt /\ e.remoteId = None)
  BY <1>1, RecordedForAttempt DEF Ended
<1>3. Tried \subseteq Tried' /\ \A token, c : Said(token, c) => Said(token, c)'
  BY <1>1, <1>2, SaidIsKept
<1>4. ASSUME NEW e \in evidence'
      PROVE  ~PossibleEffect(e) /\ (e.conclusion \in Ended => e.attempt = attempt)
  BY <1>1, <1>2 DEF UsableInv, AllUnsent, PossibleEffect, Ended
<1>5. Said(w, "REQUEST_ARMED")'
  <2>1. PICK e \in evidence : e.conclusion = "REQUEST_ARMED" /\ e.token = w
    BY DEF NotSent, KnownUnsent, Exposed, EvidenceInv
  <2>2. e \in Tried
    BY <1>1, <2>1 DEF Tried, Proof, UsableInv, AllUnsent, Ended
  <2> QED BY <1>3, <2>1, <2>2 DEF Said
<1>6. ASSUME NEW e \in Tried'
      PROVE  /\ e.token # None /\ e.conclusion \in Ended /\ Said(e.token, "REQUEST_ARMED")'
             /\ Said(e.token, "NOT_SENT")'
  <2>1. CASE e \in evidence
    <3>1. e \in Tried
      BY <1>1, <2>1 DEF Tried, Proof
    <3>2. /\ e.token # None /\ e.conclusion \in Ended /\ Said(e.token, "REQUEST_ARMED")
          /\ Said(e.token, "NOT_SENT") \/ e.token = w
      BY <1>1, <3>1 DEF UsableInv, AllUnsent
    <3> QED BY <1>2, <1>3, <3>2
  <2>2. CASE e \notin evidence
    <3>1. e.token = w /\ e.conclusion = "NOT_SENT"
      BY <1>2, <2>2 DEF Tried, Proof
    <3> QED BY <1>2, <1>5, <3>1 DEF Ended
  <2> QED BY <2>1, <2>2
<1>7. Tried' # {}
  BY <1>2 DEF Said
<1>8. AllUnsent'
  BY <1>1, <1>4, <1>6, <1>7 DEF AllUnsent, PossibleEffect, Ended
<1>9. NothingArmed' /\ NobodyOwns'
  BY <1>1 DEF NothingArmed, NobodyOwns
<1> QED BY <1>8, <1>9 DEF UsableInv

LEMMA UsableClaim ==
  ASSUME UsableInv, DataOK, NEW w \in Worker, ClaimStep(w)
  PROVE  UsableInv'
<1>1. /\ status' = "RUNNING" /\ phase' = "CLAIMED" /\ UNCHANGED <<evidence, body>>
      /\ status \in {"PENDING", "QUEUED", "RUNNING"} /\ attempt \in Nat
      /\ body = None => attempt' = attempt + 1
      /\ body # None => attempt' = attempt /\ status \in {"PENDING", "QUEUED"}
  BY DEF ClaimStep, Executable, SafelyUnsent, DataOK
<1>2. \A e \in evidence : e.attempt \in Nat
  BY DEF DataOK, Fact
<1>3. NothingArmed'
  BY <1>1, <1>2 DEF UsableInv, NothingArmed, PossibleEffect, Ended
<1>4. CASE body = None
  BY <1>1, <1>3, <1>4 DEF UsableInv, AllUnsent, NobodyOwns
<1>5. CASE body # None
  <2>1. Tried' = Tried /\ \A token, c : Said(token, c)' <=> Said(token, c)
    BY <1>1, <1>5 DEF Tried, Proof, Said
  <2>2. AllUnsent'
    BY <1>1, <1>5, <2>1 DEF UsableInv, AllUnsent, PossibleEffect, Ended
  <2> QED BY <1>1, <1>3, <2>2 DEF UsableInv, NobodyOwns
<1> QED BY <1>4, <1>5

LEMMA UsableLocalOutcome ==
  ASSUME UsableInv, DataOK, NEW w \in Worker, NEW retryable \in BOOLEAN,
         LocalOutcome(w, retryable)
  PROVE  UsableInv'
<1>1. /\ status = "RUNNING" /\ phase = "CLAIMED" /\ leaseToken' = None
      /\ UNCHANGED <<attempt, body>>
  BY DEF LocalOutcome, Active, ReleaseLease
<1>2. CASE retryable
  <2>1. status' = "PENDING" /\ phase' = "IDLE" /\ evidence' = evidence
    BY <1>2 DEF LocalOutcome
  <2>2. Tried' = Tried /\ \A token, c : Said(token, c)' <=> Said(token, c)
    BY <1>1, <2>1 DEF Tried, Proof, Said
  <2>3. NothingArmed' /\ NobodyOwns'
    BY <1>1, <2>1 DEF UsableInv, NothingArmed, NobodyOwns, PossibleEffect, Ended
  <2>4. AllUnsent'
    BY <1>1, <2>1, <2>2 DEF UsableInv, AllUnsent, PossibleEffect, Ended
  <2> QED BY <2>3, <2>4 DEF UsableInv
<1>3. CASE ~retryable
  BY <1>1, <1>3, UsableFails DEF LocalOutcome, FailLocally, Conclusion
<1> QED BY <1>2, <1>3

LEMMA BodyWasSaved ==
  ASSUME BodyInv, ObjectInv, DataOK
  PROVE  /\ \A w \in Worker : pc[w] \in {"armed", "cleared", "sent", "answered", "recorded"} =>
                               body # None
         /\ objects # {} => body # None
<1>1. objects # {} => body # None
  BY DEF ObjectInv, BodyInv
<1> QED BY <1>1, ConstantsOK DEF BodyInv, ObjectInv, KnownUnsent, ConstantsOK

LEMMA UsableWorker ==
  ASSUME IInv, UsableInv, NEW w \in Worker, WorkerNext(w)
  PROVE  UsableInv'
<1>1. DataOK /\ BodyInv /\ ObjectInv /\ EvidenceInv
  BY DEF IInv, TypeOK
<1>2. CASE ClaimStep(w)
  BY <1>1, <1>2, UsableClaim
<1>3. CASE Prepare(w) \/ CheckBeforeSend(w) \/ Send(w) \/ Answer(w) \/ WorkerReturns(w)
           \/ WorkerCrashes(w) \/ TakesEffect(w)
  <2>1. UNCHANGED <<status, phase, body, attempt, evidence, leaseToken>>
    BY <1>3, Zenon DEF Prepare, CheckBeforeSend, Send, Answer, WorkerReturns, WorkerCrashes,
                TakesEffect, stepVars, leaseVars
  <2> QED BY <2>1, UsableKept
<1>4. CASE RecordUnknown(w) \/ RecordCreated(w) \/ PreserveReceipt(w)
  <2>1. status' \in {"UNKNOWN", "SUCCEEDED"}
    BY <1>1, <1>4 DEF RecordUnknown, RecordCreated, PreserveReceipt, ObjectInv
  <2> QED BY <2>1, UsableGone
<1>5. ASSUME NEW b \in BOOLEAN, LocalOutcome(w, b) PROVE UsableInv'
  BY <1>1, <1>5, UsableLocalOutcome
<1>6. ASSUME NEW b \in BOOLEAN, Arm(w, b) PROVE UsableInv'
  BY <1>1, <1>6, UsableArm
<1>7. ASSUME NEW b \in BOOLEAN, NotSent(w, b) PROVE UsableInv'
  BY <1>1, <1>7, UsableNotSent
<1> QED BY <1>2, <1>3, <1>4, <1>5, <1>6, <1>7, Zenon DEF WorkerNext

LEMMA UsableReader ==
  ASSUME IInv, UsableInv, NEW r \in Reader, ReaderNext(r)
  PROVE  UsableInv'
<1>1. ObjectInv /\ DispatchInv
  BY DEF IInv
<1>2. status \in {"UNKNOWN", "SUCCEEDED"} \/ rpc[r] = "idle"
  BY <1>1 DEF DispatchInv
<1>3. CASE ClaimRead(r) \/ ClaimReadback(r) \/ ReadBlocked(r) \/ ReplayDelivery(r)
  <2>1. status \in {"UNKNOWN", "SUCCEEDED"}
    BY <1>1, <1>3 DEF ClaimRead, ClaimReadback, ReadBlocked, ReplayDelivery, ToRead,
       DispatchInv
  <2>2. status' \in {"UNKNOWN", "SUCCEEDED"}
    BY <1>3, <2>1 DEF ClaimRead, ClaimReadback, ReadBlocked, ReplayDelivery, InDoubt,
       stepVars
  <2> QED BY <2>2, UsableGone
<1>4. CASE ReadPlatform(r) \/ ReaderLeaves(r) \/ ReaderCrashes(r) \/ FinishRead(r)
  <2>1. UNCHANGED <<status, phase, body, attempt, evidence, leaseToken>>
    BY <1>4, Zenon DEF ReadPlatform, ReaderLeaves, ReaderCrashes, FinishRead, stepVars,
       leaseVars
  <2> QED BY <2>1, UsableKept
<1>5. ASSUME NEW o \in {"final", "more"}, ReadInconclusive(r, o) PROVE UsableInv'
  <2>1. status' \in {"UNKNOWN", "SUCCEEDED"}
    BY <1>2, <1>5 DEF ReadInconclusive, InDoubt
  <2> QED BY <2>1, UsableGone
<1>6. ASSUME NEW d \in BOOLEAN, ReadConfirmed(r, d) PROVE UsableInv'
  BY <1>6, UsableGone DEF ReadConfirmed
<1> QED BY <1>3, <1>4, <1>5, <1>6, Zenon DEF ReaderNext

LEMMA UsableRetry ==
  ASSUME UsableInv, DataOK, Retry
  PROVE  UsableInv'
<1>1. /\ status = "FAILED" /\ status' = "QUEUED" /\ phase' = "IDLE" /\ leaseToken' = None
      /\ UNCHANGED <<attempt, body>>
      /\ \E fact : /\ evidence' = evidence \cup {fact}
                   /\ fact.conclusion = "RETRY_REQUESTED" /\ fact.attempt = attempt
                   /\ fact.remoteId = None
  <2> DEFINE fact == [conclusion |-> "RETRY_REQUESTED", token |-> None, attempt |-> attempt,
                      remoteId |-> None, recovery |-> revision + 1]
  <2>1. /\ evidence' = evidence \cup {fact}
        /\ fact.conclusion = "RETRY_REQUESTED" /\ fact.attempt = attempt /\ fact.remoteId = None
    BY DEF Retry
  <2> HIDE DEF fact
  <2> QED BY <2>1 DEF Retry, QueueExecute, ReleaseLease
<1>2. CASE body = None
  BY <1>1, <1>2, UsableGrows DEF Conclusion, Ended
<1>3. CASE body # None
  <2>1. UnsentProof
    BY <1>3 DEF Retry, NeverArmed
  <2>2. evidence \subseteq evidence' /\ \A e \in evidence' : e \in evidence \/
          (e.conclusion = "RETRY_REQUESTED" /\ e.remoteId = None)
    BY <1>1
  <2>3. Tried' = Tried
    BY <1>1, <2>2 DEF Tried, Proof
  <2>4. \A token, c : Said(token, c)' <=> Said(token, c)
    BY <2>3 DEF Said
  <2>5. AllUnsent'
    BY <1>1, <2>1, <2>2, <2>3, <2>4, ProofIsUsable DEF AllUnsent, PossibleEffect, Ended
  <2>6. NothingArmed' /\ NobodyOwns'
    BY <1>1, <1>3 DEF NothingArmed, NobodyOwns
  <2> QED BY <2>5, <2>6 DEF UsableInv
<1> QED BY <1>2, <1>3

LEMMA UsableScheduler ==
  ASSUME IInv, UsableInv,
         SchedulerNext \/ AbandonedLeaseExpires \/ LeaseOverrun \/ Retry \/ Reconcile
  PROVE  UsableInv'
<1>1. DataOK
  BY DEF IInv, TypeOK
<1>2. CASE DependenciesReady \/ FinishExecute
  <2>1. UNCHANGED <<evidence, attempt, body, phase, leaseToken>>
    BY <1>2, Zenon DEF DependenciesReady, FinishExecute, leaseVars
  <2>2. status' = status \/ (status \in {"PENDING", "QUEUED"} /\ status' = "QUEUED")
    BY <1>2 DEF DependenciesReady, FinishExecute, QueueExecute
  <2> QED BY <2>1, <2>2, UsableKept
<1>3. CASE DependencyFails \/ PermissionLost \/ ClaimRefused
  BY <1>1, <1>3, UsableFails DEF DependencyFails, PermissionLost, ClaimRefused, Executable,
                                 FailLocally, Conclusion
<1>4. CASE DependencyRecovers
  <2>1. /\ body = None /\ status = "FAILED" /\ status' = "QUEUED" /\ UNCHANGED <<attempt, body>>
        /\ Recorded("DEPENDENCY_RECOVERED", None, attempt, None)
    BY <1>4 DEF DependencyRecovers, NeverArmed, QueueExecute
  <2>2. LET fact == Said0("DEPENDENCY_RECOVERED", None)
        IN  /\ evidence' = evidence \cup {fact}
            /\ fact.conclusion = "DEPENDENCY_RECOVERED" /\ fact.attempt = attempt
            /\ fact.remoteId = None
    BY <2>1 DEF Recorded, Said0
  <2> QED BY <1>1, <2>1, <2>2, UsableGrows DEF Conclusion, Ended
<1>5. CASE ExpireArmed
  BY <1>5, UsableGone DEF ExpireArmed
<1>6. CASE ReadUnknown \/ AbandonedLeaseExpires \/ LeaseOverrun \/ Reconcile
  <2>1. UNCHANGED <<status, phase, body, attempt, evidence, leaseToken>>
    BY <1>6, Zenon DEF ReadUnknown, AbandonedLeaseExpires, LeaseOverrun, Reconcile,
       stepVars,
                       leaseVars
  <2> QED BY <2>1, UsableKept
<1>7. ASSUME NEW b \in BOOLEAN, ExpireUnarmed(b) PROVE UsableInv'
  <2>1. /\ body = None /\ status = "RUNNING" /\ status' \in {"PENDING", "QUEUED"}
        /\ UNCHANGED <<evidence, attempt, body>>
    BY <1>7 DEF ExpireUnarmed, QueueExecute
  <2> QED BY <2>1, UsableKept
<1>8. CASE Retry
  BY <1>1, <1>8, UsableRetry
<1> QED BY <1>2, <1>3, <1>4, <1>5, <1>6, <1>7, <1>8, Zenon DEF SchedulerNext

LEMMA UsableStep == ASSUME IInv, UsableInv, [Next]_vars PROVE UsableInv'
<1>1. CASE UNCHANGED vars
  <2>1. UNCHANGED <<status, phase, body, attempt, evidence, leaseToken>>
    BY <1>1, Zenon DEF vars, stepVars, leaseVars
  <2> QED BY <2>1, UsableKept
<1> QED BY <1>1, UsableWorker, UsableReader, UsableScheduler DEF Next

\* A step that waits with a saved body is not refused by queue_step or claim_step, unless
\* the proof has grown beyond what the query reads: every request of its attempt was
\* declared unsent.
THEOREM WaitingBodiesAreUsable == Spec => []WaitingBodyIsUsable
<1>1. Init => UsableInv
  BY DEF Init, UsableInv, NothingArmed, AllUnsent, NobodyOwns
<1>2. IInv /\ UsableInv /\ [Next]_vars => UsableInv'
  BY UsableStep
<1>3. IInv /\ UsableInv => WaitingBodyIsUsable
  <2> SUFFICES ASSUME IInv, UsableInv, status \in {"PENDING", "QUEUED"}, body # None,
                      Cardinality(Proof) <= MaxProof
               PROVE  SafelyUnsent
    BY DEF WaitingBodyIsUsable
  <2>1. remoteId = None /\ ~mismatch
    BY DEF IInv, ObjectInv, DispatchInv
  <2> QED BY <2>1, UsableIsProof
<1> QED BY <1>1, <1>2, <1>3, Invariance, PTL DEF Spec
=============================================================================
