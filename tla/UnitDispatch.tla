---------------------------- MODULE UnitDispatch ----------------------------
(***************************************************************************)
(* One unit of a submission (a campaign for one drama on one account): the *)
(* graph of its steps, the unit message that process_unit consumes, the    *)
(* acknowledgement of step deliveries, which wakes the unit, and the       *)
(* status of the submission.                                               *)
(*                                                                         *)
(* How a step is executed is the subject of BuildStep; here it is reduced  *)
(* to the statuses its transactions leave behind.  A message exists as     *)
(* long as its row's dispatch_id is set: it may be delivered any number of *)
(* times, and repair_execution publishes it again when it was lost.        *)
(***************************************************************************)
EXTENDS Naturals, FiniteSets

CONSTANTS Material, Group, Ad, Readback,  \* steps of these kinds, a group standing
          Cta, Campaign,                  \*   for its ADGROUP step
          None,
          ParentOf,       \* parent_step_id of AD and READBACK steps
          GroupMaterial,  \* the materials of each planned group
          Worker,         \* Celery tasks that run at the same time
          Limit,          \* steps that process_unit handles in one transaction
          LateExpansion,  \* bound: whether the submission is still being expanded
          Restores,       \* bound: whether a lost permission may be given back
          MaxRetries,     \* bound: recoveries requested by users
          MaxCrashes      \* bound: workers killed before finalize_submission

Created == {Cta, Campaign} \cup Group \cup Ad
Step    == Material \cup Created \cup Readback

ASSUME GraphOK ==
  /\ None \notin Step /\ Cta # Campaign
  /\ {Cta, Campaign} \cap (Material \cup Group \cup Ad \cup Readback) = {}
  /\ Material \cap (Group \cup Ad \cup Readback) = {}
  /\ Group \cap (Ad \cup Readback) = {} /\ Ad \cap Readback = {}
  /\ ParentOf \in [Ad \cup Readback -> Created]
  /\ \A a \in Ad : ParentOf[a] \in Group
  /\ GroupMaterial \in [Group -> SUBSET Material \ {{}}]
  /\ Group # {} /\ IsFiniteSet(Step)
  /\ Limit \in Nat \ {0}
  /\ LateExpansion \in BOOLEAN /\ Restores \in BOOLEAN
  /\ MaxRetries \in Nat /\ MaxCrashes \in Nat

VARIABLES
  \* execution_step
  status, mismatch,
  failedBy,        \* steps FAILED with error_code "dependency_failed"
  waits,           \* due_at in the future, and why
  message,         \* the outstanding delivery
  readDone,        \* dispatch_reconciliation_done
  result,          \* reconciliation_delivery of the current revision ("refused"
                   \*   if the claim was refused, which nothing remembers)
  \* submission_unit
  unitMessage,     \* dispatch_id is set
  \* build_submission
  overall, expanded,
  permitted,       \* the submitter may build
  finishing,       \* tasks between their transaction and the end of
                   \*   finalize_submission: how far they are
  \* observation
  retries, crashes

stepVars == <<status, mismatch, failedBy, waits, message, readDone, result>>
vars == <<stepVars, unitMessage, overall, expanded, permitted, finishing, retries, crashes>>

Status == {"PENDING", "QUEUED", "RUNNING", "SUCCEEDED", "FAILED", "UNKNOWN"}

Overall == {"QUEUED", "RUNNING", "COMPLETED", "PARTIAL", "FAILED", "NEEDS_REVIEW"}

TypeOK ==
  /\ status \in [Step -> Status]
  /\ mismatch \subseteq Step /\ failedBy \subseteq Step /\ readDone \subseteq Step
  /\ waits \in [Step -> {"no", "dependency", "transport"}]
  /\ message \in [Step -> {"none", "execute", "read"}]
  /\ result \in [Step -> {"none", "refused", "final", "more"}]
  /\ unitMessage \in BOOLEAN /\ expanded \in BOOLEAN /\ permitted \in BOOLEAN
  /\ overall \in Overall
  /\ finishing \in [Worker -> {"no", "quiet", "attention", "view"} \cup Overall]
  /\ retries \in 0..MaxRetries /\ crashes \in 0..MaxCrashes

\* The unit has just been expanded, which queued its first message.
Init ==
  /\ status = [s \in Step |-> "PENDING"]
  /\ mismatch = {} /\ failedBy = {} /\ readDone = {}
  /\ waits = [s \in Step |-> "no"]
  /\ message = [s \in Step |-> "none"]
  /\ result = [s \in Step |-> "none"]
  /\ unitMessage = TRUE /\ overall = "QUEUED" /\ expanded = ~LateExpansion
  /\ permitted = TRUE
  /\ finishing = [w \in Worker |-> "no"]
  /\ retries = 0 /\ crashes = 0

----------------------------------------------------------------------------
(* Dependencies.                                                           *)

Parent(s) == IF s \in Group THEN Campaign
             ELSE IF s \in Ad \cup Readback THEN ParentOf[s] ELSE None

GroupReady(g)  == \A m \in GroupMaterial[g] : status[m] = "SUCCEEDED"
GroupFailed(g) == \E m \in GroupMaterial[g] : status[m] = "FAILED"

\* group_material_state: the campaign looks at all groups, an ad group at its own.
GroupsOf(s) == IF s = Campaign THEN Group ELSE {s} \cap Group

Preceded(s) == /\ Parent(s) # None => status[Parent(s)] = "SUCCEEDED"
               /\ s = Campaign => status[Cta] = "SUCCEEDED"

\* When _dependency answers READY, and when FAILED.
Ready(s) == /\ Preceded(s)
            /\ s \in {Campaign} \cup Group => \E g \in GroupsOf(s) : GroupReady(g)

Doomed(s) ==
  \/ Parent(s) # None /\ status[Parent(s)] = "FAILED"
  \/ s = Campaign /\ status[Cta] = "FAILED"
  \/ /\ s \in {Campaign} \cup Group
     /\ Preceded(s)
     /\ \A g \in GroupsOf(s) : GroupFailed(g)

\* Mutant: only the parent and the CTA count.
Dependency_Parent(s) ==
  IF Preceded(s) THEN "READY" ELSE IF Doomed(s) THEN "FAILED" ELSE "PENDING"

Dependency(s) == IF Ready(s) THEN "READY" ELSE IF Doomed(s) THEN "FAILED" ELSE "PENDING"

ParentSettled(s) == Parent(s) # None => status[Parent(s)] \in {"SUCCEEDED", "FAILED"}

----------------------------------------------------------------------------
(* Waking, queueing and process_unit.                                      *)

Active(s) == status[s] \in {"QUEUED", "RUNNING"}

\* Mutant of wake_unit: an outstanding unit message is taken for a wake-up that
\* is still to come.
WakeUnit_Keeps(later) ==
  /\ UNCHANGED unitMessage
  /\ waits' = [s \in Step |-> IF status[s] = "PENDING" /\ later[s] = "dependency"
                              THEN "no" ELSE later[s]]

\* wake_unit: an outstanding unit message absorbs the wake-up, otherwise a new
\* one is queued; steps that wait for a dependency are due again.
WakeUnit(later) ==
  /\ unitMessage' = TRUE
  /\ waits' = [s \in Step |-> IF status[s] = "PENDING" /\ later[s] = "dependency"
                              THEN "no" ELSE later[s]]

\* queue_step for a set of steps: a READBACK step is queued by being read, a
\* create step keeps its status.
Queue(toRun, toRead) ==
  LET reads == toRead \cup (toRun \cap Readback)
      now == toRun \cup toRead
  IN /\ message' = [s \in Step |-> IF s \in reads THEN "read"
                                   ELSE IF s \in now THEN "execute" ELSE message[s]]
     /\ readDone' = readDone \ reads
     /\ result' = [s \in Step |-> IF s \in now THEN "none" ELSE result[s]]

Queued(toRun, toRead) == toRun \cup (toRead \cap Readback)

\* A FAILED step whose failed dependency has since succeeded.
Recoverable(s) ==
  /\ status[s] = "FAILED" /\ s \in failedBy /\ s \notin mismatch
  /\ s \notin Material \cup {Cta}
  /\ message[s] = "none"
  /\ Ready(s)

\* Mutant: steps of a failed parent are not looked at.
Candidates_Succeeded(expired) ==
  {s \in Step : /\ waits[s] = "no"
                /\ \/ Recoverable(s)
                   \/ status[s] = "PENDING"
                      /\ (Parent(s) # None => status[Parent(s)] = "SUCCEEDED")
                   \/ s \in expired
                   \/ status[s] = "UNKNOWN" /\ s \notin Material \cup readDone
                      /\ message[s] # "read"}

\* The steps process_unit selects; expired are RUNNING steps whose lease is over.
Candidates(expired) ==
  {s \in Step : /\ waits[s] = "no"
                /\ \/ Recoverable(s)
                   \/ status[s] = "PENDING" /\ ParentSettled(s)
                   \/ s \in expired
                   \/ status[s] = "UNKNOWN" /\ s \notin Material \cup readDone
                      /\ message[s] # "read"}

\* At most Limit of them are handled.
Pages(candidates) ==
  IF Cardinality(candidates) <= Limit THEN {candidates}
  ELSE {page \in SUBSET candidates : Cardinality(page) = Limit}

\* The unit's message is consumed; a further one follows when steps were left
\* over, or when failures have to be passed on.
Requeue(page, candidates, failed) == page # candidates \/ failed # {}

\* The steps of a page are handled one after the other, and each sees what became
\* of those before it.  Nothing in a page succeeds and no CTA or material fails or is
\* taken back, so that this matters to one kind of step only: one whose FAILED
\* parent is taken back in the same page.
Followers(page) == {s \in page : Parent(s) \in page /\ Recoverable(Parent(s))}

\* One pass over a page of the candidates: unknown steps are read, ready steps
\* queued, a failure is passed on, other steps wait.  The followers in late come
\* after their parent, which they see QUEUED.
Pass(w, candidates, page, armed, late) ==
  LET toRead == {s \in page : status[s] = "UNKNOWN"} \cup (armed \cap page)
      toRun  == {s \in page \ toRead : Dependency(s) = "READY"}
      failed == {s \in page \ (toRead \cup late) : Dependency(s) = "FAILED"}
      held   == page \ (toRead \cup toRun \cup failed)
  IN /\ status' = [s \in Step |->
                     CASE s \in Queued(toRun, toRead) -> "QUEUED"
                       [] s \in toRead \ Readback     -> "UNKNOWN"
                       [] s \in failed                -> "FAILED"
                       [] s \in held                  -> "PENDING"
                       [] OTHER                       -> status[s]]
     /\ Queue(toRun, toRead)
     /\ failedBy' = (failedBy \ toRun) \cup failed
     /\ waits' = [s \in Step |-> IF s \in held THEN "dependency" ELSE waits[s]]
     /\ unitMessage' = Requeue(page, candidates, failed)
     /\ finishing' = [finishing EXCEPT ![w] = IF toRead # {} THEN "attention" ELSE "quiet"]

\* process_unit for a submitter who may build.  Rows locked by another
\* transaction are skipped (a locked RUNNING row is like one whose lease lasts); a
\* row without an outstanding delivery is locked by nobody who does not hold the
\* unit.
ProcessUnit(w) ==
  /\ finishing[w] = "no" /\ unitMessage /\ permitted
  /\ \E expired \in SUBSET {s \in Step : status[s] = "RUNNING"},
        locked \in SUBSET {s \in Candidates({}) : message[s] # "none"} :
     \E armed \in SUBSET (expired \cap Created) :
     \E page \in Pages(Candidates(expired) \ locked) :
     \E late \in SUBSET Followers(page) :
        Pass(w, Candidates(expired) \ locked, page, armed, late)
  /\ UNCHANGED <<mismatch, overall, expanded, permitted, retries, crashes>>

\* process_unit after the submitter lost the permission: steps without a saved
\* body fail.  Spared are steps with a body, or locked: they were dispatched.
ProcessForbidden(w) ==
  /\ finishing[w] = "no" /\ unitMessage /\ ~permitted
  /\ LET open == {s \in Step : status[s] = "PENDING" \/ Active(s)} IN
     \E spared \in SUBSET {s \in open : message[s] # "none"} :
     \E page \in Pages(open \ spared) :
       /\ status' = [s \in Step |-> IF s \in page THEN "FAILED" ELSE status[s]]
       /\ failedBy' = failedBy \ page
       /\ unitMessage' = Requeue(page, open \ spared, {})
  /\ finishing' = [finishing EXCEPT ![w] = "quiet"]
  /\ UNCHANGED <<mismatch, waits, message, readDone, result, overall, expanded, permitted,
                 retries, crashes>>

----------------------------------------------------------------------------
(* Execution of a step, as BuildStep refines it.                           *)

\* claim_step, which looks at the dependencies again; a READBACK step is
\* claimed by its reader, also when an earlier attempt of the delivery failed.
Start(s) ==
  /\ waits[s] = "no" /\ Ready(s)
  /\ \/ message[s] = "execute" /\ status[s] \in {"PENDING", "QUEUED"} /\ permitted
     \/ /\ message[s] = "read" /\ s \in Readback
        /\ status[s] \in {"PENDING", "QUEUED", "UNKNOWN"}
        /\ result[s] \in {"none", "refused"}
  /\ status' = [status EXCEPT ![s] = "RUNNING"]
  /\ UNCHANGED <<mismatch, failedBy, waits, message, readDone, result, unitMessage, overall,
                 expanded, permitted, finishing, retries, crashes>>

\* claim_step refuses: permission or route lost.
Refuse(s) ==
  /\ message[s] = "execute" /\ status[s] \in {"PENDING", "QUEUED", "RUNNING"}
  /\ status' = [status EXCEPT ![s] = "FAILED"]
  /\ failedBy' = failedBy \ {s}
  /\ UNCHANGED <<mismatch, waits, message, readDone, result, unitMessage, overall,
                 expanded, permitted, finishing, retries, crashes>>

\* finish_local, record_not_sent, record_created, record_unknown: the last
\* transaction of process_step.
End(s, outcome) ==
  /\ message[s] = "execute" /\ status[s] = "RUNNING"
  /\ status' = [status EXCEPT ![s] = outcome]
  /\ waits' = [waits EXCEPT ![s] = IF outcome = "PENDING" THEN "transport" ELSE "no"]
  /\ UNCHANGED <<mismatch, failedBy, message, readDone, result, unitMessage, overall,
                 expanded, permitted, finishing, retries, crashes>>

\* _claim of a read refuses: route lost, intent incomplete, no identity to read.
ReadRefused(s) ==
  /\ message[s] = "read" /\ result[s] \in {"none", "refused"} /\ status[s] # "RUNNING"
  /\ status' = [status EXCEPT ![s] = IF @ = "SUCCEEDED" THEN @ ELSE "UNKNOWN"]
  /\ mismatch' = IF status[s] = "SUCCEEDED" THEN mismatch \cup {s} ELSE mismatch
  /\ result' = [result EXCEPT ![s] = "refused"]
  /\ UNCHANGED <<failedBy, waits, message, readDone, unitMessage, overall, expanded,
                 permitted, finishing, retries, crashes>>

\* _finish of process_reconciliation is remembered for the delivery.
ReadResult(s, outcome) ==
  /\ message[s] = "read" /\ result[s] \in {"none", "refused"}
  /\ IF s \in Readback THEN status[s] = "RUNNING"
                       ELSE status[s] \in {"UNKNOWN", "SUCCEEDED"}
  /\ result' = [result EXCEPT ![s] = outcome]
  /\ UNCHANGED <<failedBy, waits, message, readDone, unitMessage, overall, expanded,
                 permitted, finishing, retries, crashes>>

\* The object was read: the step and its source exist, perhaps with a difference.
ReadConfirmed(s, differs) ==
  /\ ReadResult(s, "final")
  /\ LET read == {s} \cup IF s \in Readback THEN {ParentOf[s]} ELSE {}
     IN /\ status' = [t \in Step |-> IF t \in read THEN "SUCCEEDED" ELSE status[t]]
        /\ mismatch' = IF differs THEN mismatch \cup read ELSE mismatch \ read

\* Mutant: a success in doubt becomes unknown.
ReadInDoubt_Always(s, outcome) ==
  /\ ReadResult(s, outcome)
  /\ status' = [status EXCEPT ![s] = "UNKNOWN"]
  /\ UNCHANGED mismatch

\* More pages to read, a failed read, or an inconclusive one.
ReadInDoubt(s, outcome) ==
  /\ ReadResult(s, outcome)
  /\ status' = [status EXCEPT ![s] = IF @ = "SUCCEEDED" THEN @ ELSE "UNKNOWN"]
  /\ mismatch' = IF status[s] = "SUCCEEDED" THEN mismatch \cup {s} ELSE mismatch

\* repair_execution over an expired lease, in a transaction of its own.
Expire(s, armed) ==
  /\ status[s] = "RUNNING"
  /\ armed => s \in Created
  /\ status' = [status EXCEPT ![s] = IF armed THEN "UNKNOWN" ELSE "PENDING"]
  /\ Queue({}, IF armed THEN {s} ELSE {})
  /\ UNCHANGED <<mismatch, failedBy, waits, unitMessage, overall, expanded, permitted,
                 finishing, retries, crashes>>

----------------------------------------------------------------------------
(* Acknowledging deliveries.                                               *)

Attention(s) == IF status'[s] = "UNKNOWN" \/ s \in mismatch THEN "attention" ELSE "quiet"

\* The end of finish_delivery: the unit is woken in the same transaction, the
\* submission is finalized in a later one.
Acknowledge(w, s) ==
  /\ WakeUnit([waits EXCEPT ![s] = "no"])
  /\ finishing' = [finishing EXCEPT ![w] = Attention(s)]

\* finish_delivery after process_step; a running step is left to its worker.
\* A material whose distribution has an unknown result becomes UNKNOWN.
FinishExecute(w, s, doubt) ==
  /\ finishing[w] = "no" /\ message[s] = "execute" /\ status[s] # "RUNNING"
  /\ doubt => s \in Material /\ status[s] = "PENDING"
  /\ \/ /\ ~doubt /\ status[s] \in {"PENDING", "QUEUED"}
        /\ status' = [status EXCEPT ![s] = "QUEUED"]
        /\ Queue({s}, {})
     \/ /\ status[s] = "UNKNOWN" /\ s \notin Material
        /\ Queue({}, {s})
        /\ UNCHANGED status
     \/ /\ doubt \/ status[s] \in {"SUCCEEDED", "FAILED"}
           \/ (status[s] = "UNKNOWN" /\ s \in Material)
        /\ status' = [status EXCEPT ![s] = IF doubt THEN "UNKNOWN" ELSE @]
        /\ message' = [message EXCEPT ![s] = "none"]
        /\ UNCHANGED <<readDone, result>>
  /\ Acknowledge(w, s)
  /\ UNCHANGED <<mismatch, failedBy, overall, expanded, permitted, retries, crashes>>

\* finish_delivery after a read.  (Two deliveries of one message that overlap
\* are a subject of BuildStep.)
FinishRead(w, s) ==
  /\ finishing[w] = "no" /\ message[s] = "read" /\ result[s] # "none"
  /\ status[s] # "RUNNING"
  /\ IF result[s] = "more"
     THEN /\ Queue({}, {s})
          /\ status' = IF s \in Readback THEN [status EXCEPT ![s] = "QUEUED"] ELSE status
     ELSE /\ readDone' = readDone \cup {s}
          /\ message' = [message EXCEPT ![s] = "none"]
          /\ UNCHANGED <<status, result>>
  /\ Acknowledge(w, s)
  /\ UNCHANGED <<mismatch, failedBy, overall, expanded, permitted, retries, crashes>>

\* recover_material_results, recover_cover_results: a material's unknown result
\* has been established elsewhere.
MaterialResult(w, m, outcome) ==
  /\ finishing[w] = "no" /\ status[m] = "UNKNOWN"
  /\ status' = [status EXCEPT ![m] = outcome]
  /\ message' = [message EXCEPT ![m] = "none"]
  /\ WakeUnit(waits)
  /\ finishing' = [finishing EXCEPT ![w] = "quiet"]
  /\ UNCHANGED <<mismatch, failedBy, readDone, result, overall, expanded, permitted,
                 retries, crashes>>

----------------------------------------------------------------------------
(* finalize_submission                                                     *)

SomeStepActive == \E s \in Step : Active(s)

\* aggregate_status over the statuses of all steps.
Aggregate ==
  LET states == {status[s] : s \in Step} IN
  IF "UNKNOWN" \in states \/ mismatch # {} THEN "NEEDS_REVIEW"
  ELSE IF states \cap {"PENDING", "RUNNING"} # {} THEN "RUNNING"
  ELSE IF states = {"SUCCEEDED"} THEN "COMPLETED"
  ELSE IF {"SUCCEEDED", "FAILED"} \subseteq states THEN "PARTIAL"
  ELSE IF states = {"FAILED"} THEN "FAILED" ELSE "QUEUED"

\* An advertising object that is failed, or can no longer be created.
ObjectFailed(s) ==
  \/ status[s] = "FAILED"
  \/ /\ status[s] \in {"PENDING", "QUEUED", "RUNNING"}
     /\ \/ status[Cta] = "FAILED"
        \/ s # Campaign /\ status[Campaign] = "FAILED"
        \/ s \in Ad /\ status[ParentOf[s]] = "FAILED"
        \/ \A g \in GroupsOf(IF s \in Ad THEN ParentOf[s] ELSE s) : GroupFailed(g)

\* get_submission: the status a reader is shown.
View ==
  LET objects == {Campaign} \cup Group \cup Ad
      open == {s \in objects : status[s] \in {"PENDING", "QUEUED", "RUNNING"}
                               /\ ~ObjectFailed(s)}
  IN IF /\ Aggregate # "NEEDS_REVIEW"
        /\ open = {}
        /\ \E s \in objects : ObjectFailed(s)
     THEN IF \E s \in objects : status[s] = "SUCCEEDED" THEN "PARTIAL" ELSE "FAILED"
     ELSE Aggregate

\* The submission row is locked from the check until the view is stored.
Locked == \E w \in Worker : finishing[w] = "view" \/ finishing[w] \in Overall

\* Mutant: the row is not locked.
FinalizeCheck_Unlocked(w) ==
  /\ finishing[w] \in {"quiet", "attention"}
  /\ IF expanded /\ ~unitMessage /\ ~SomeStepActive
     THEN finishing' = [finishing EXCEPT ![w] = "view"] /\ UNCHANGED overall
     ELSE /\ overall' = IF finishing[w] = "attention" THEN "NEEDS_REVIEW"
                        ELSE IF overall \in {"QUEUED", "COMPLETED", "PARTIAL", "FAILED"}
                        THEN "RUNNING" ELSE overall
          /\ finishing' = [finishing EXCEPT ![w] = "no"]
  /\ UNCHANGED <<stepVars, unitMessage, expanded, permitted, retries, crashes>>

FinalizeCheck(w) ==
  /\ finishing[w] \in {"quiet", "attention"} /\ ~Locked
  /\ IF expanded /\ ~unitMessage /\ ~SomeStepActive
     THEN finishing' = [finishing EXCEPT ![w] = "view"] /\ UNCHANGED overall
     ELSE /\ overall' = IF finishing[w] = "attention" THEN "NEEDS_REVIEW"
                        ELSE IF overall \in {"QUEUED", "COMPLETED", "PARTIAL", "FAILED"}
                        THEN "RUNNING" ELSE overall
          /\ finishing' = [finishing EXCEPT ![w] = "no"]
  /\ UNCHANGED <<stepVars, unitMessage, expanded, permitted, retries, crashes>>

\* The view is read in later statements; for a submitter who may not even read
\* it is the plain aggregate.
FinalizeView(w) ==
  /\ finishing[w] = "view"
  /\ \E view \in {View} \cup (IF permitted THEN {} ELSE {Aggregate}) :
       finishing' = [finishing EXCEPT ![w] = view]
  /\ UNCHANGED <<stepVars, unitMessage, overall, expanded, permitted, retries, crashes>>

FinalizeStore(w) ==
  /\ finishing[w] \in Overall
  /\ overall' = finishing[w]
  /\ finishing' = [finishing EXCEPT ![w] = "no"]
  /\ UNCHANGED <<stepVars, unitMessage, expanded, permitted, retries, crashes>>

\* The worker is killed before finalize_submission commits.  Its redelivered
\* message finds the unit's (or step's) dispatch already consumed and returns.
CrashBeforeFinal(w) ==
  /\ finishing[w] # "no" /\ crashes < MaxCrashes
  /\ crashes' = crashes + 1
  /\ finishing' = [finishing EXCEPT ![w] = "no"]
  /\ UNCHANGED <<stepVars, unitMessage, overall, expanded, permitted, retries>>

----------------------------------------------------------------------------
(* Environment.                                                            *)

TimePasses(s) ==
  /\ waits[s] # "no"
  /\ waits' = [waits EXCEPT ![s] = "no"]
  /\ UNCHANGED <<status, mismatch, failedBy, message, readDone, result, unitMessage,
                 overall, expanded, permitted, finishing, retries, crashes>>

\* The last page of expand_submission.
ExpansionEnds ==
  /\ ~expanded /\ ~Locked
  /\ expanded' = TRUE
  /\ UNCHANGED <<stepVars, unitMessage, overall, permitted, finishing, retries, crashes>>

PermissionChanges ==
  /\ permitted \/ Restores
  /\ permitted' = ~permitted
  /\ UNCHANGED <<stepVars, unitMessage, overall, expanded, finishing, retries, crashes>>

\* _schedule for a RETRY: dependencies are satisfied, nothing was sent.
Retry(s) ==
  /\ retries < MaxRetries /\ retries' = retries + 1
  /\ status[s] = "FAILED" /\ s \notin Readback /\ message[s] = "none" /\ Ready(s)
  /\ status' = [status EXCEPT ![s] = "QUEUED"]
  /\ failedBy' = failedBy \ {s}
  /\ Queue({s}, {})
  /\ WakeUnit([waits EXCEPT ![s] = "no"])
  /\ UNCHANGED <<mismatch, overall, expanded, permitted, finishing, crashes>>

\* _schedule for a RECONCILE.
Reconcile(s) ==
  /\ retries < MaxRetries /\ retries' = retries + 1
  /\ s \notin Material /\ message[s] = "none"
  /\ \/ status[s] = "UNKNOWN"
     \/ s \in mismatch
     \/ s \in Readback /\ status[s] # "SUCCEEDED" /\ status[ParentOf[s]] = "SUCCEEDED"
  /\ status' = IF s \in Readback THEN [status EXCEPT ![s] = "QUEUED"] ELSE status
  /\ Queue({}, {s})
  /\ WakeUnit([waits EXCEPT ![s] = "no"])
  /\ UNCHANGED <<mismatch, failedBy, overall, expanded, permitted, finishing, crashes>>

----------------------------------------------------------------------------
Outcome == {"PENDING", "SUCCEEDED", "FAILED", "UNKNOWN"}

StepNext(s) ==
  \/ Start(s) \/ Refuse(s) \/ ReadRefused(s)
  \/ \E outcome \in Outcome : End(s, outcome)
  \/ \E differs \in BOOLEAN : ReadConfirmed(s, differs)
  \/ \E outcome \in {"final", "more"} : ReadInDoubt(s, outcome)
  \/ \E armed \in BOOLEAN : Expire(s, armed)

TaskNext(w) ==
  \/ ProcessUnit(w) \/ ProcessForbidden(w)
  \/ FinalizeCheck(w) \/ FinalizeView(w) \/ FinalizeStore(w) \/ CrashBeforeFinal(w)
  \/ \E s \in Step : FinishRead(w, s) \/ \E doubt \in BOOLEAN : FinishExecute(w, s, doubt)
  \/ \E m \in Material, outcome \in {"SUCCEEDED", "FAILED"} : MaterialResult(w, m, outcome)

Next ==
  \/ \E w \in Worker : TaskNext(w)
  \/ \E s \in Step : StepNext(s) \/ TimePasses(s) \/ Retry(s) \/ Reconcile(s)
  \/ ExpansionEnds \/ PermissionChanges

Spec == Init /\ [][Next]_vars

\* Every outstanding message is delivered again and again (repair_execution
\* publishes it again when it was lost) and the broker's queues are first come,
\* first served, so that a message that often finds a free worker gets one.  A
\* task ends or its lease expires, and time passes.  Nothing is assumed of users,
\* of the platform or of permissions.
Fairness ==
  /\ SF_vars(\E w \in Worker : ProcessUnit(w) \/ ProcessForbidden(w))
  /\ \A w \in Worker : WF_vars(FinalizeCheck(w) \/ FinalizeView(w) \/ FinalizeStore(w))
  /\ \A s \in Step :
       /\ SF_vars(\E w \in Worker : FinishRead(w, s) \/ FinishExecute(w, s, FALSE))
       /\ WF_vars(Start(s) \/ Refuse(s) \/ ReadRefused(s))
       /\ WF_vars(\/ \E outcome \in Outcome : End(s, outcome)
                  \/ \E differs \in BOOLEAN : ReadConfirmed(s, differs)
                  \/ \E outcome \in {"final", "more"} : ReadInDoubt(s, outcome)
                  \/ \E armed \in BOOLEAN : Expire(s, armed))
       /\ WF_vars(TimePasses(s))

----------------------------------------------------------------------------
(* Properties.                                                             *)

Dispatched(s) == status[s] \in {"QUEUED", "RUNNING", "SUCCEEDED", "UNKNOWN"}

\* A step that is queued, executed or read, and one that a message still
\* executes, has all its dependencies SUCCEEDED: since process_unit looked at
\* them (dispatch.py) nothing took that back, whatever expired, was retried or
\* was read again meanwhile.
DependenciesFirst ==
  \A s \in Step : Dispatched(s) \/ message[s] # "none" => Ready(s)

\* A PENDING step that process_unit would change: its dependencies are
\* SUCCEEDED, or one of them is FAILED.
Waiting(s) == message[s] = "none" /\ status[s] = "PENDING" /\ (Ready(s) \/ Doomed(s))

\* Something in the unit is outstanding whose processing ends in a wake-up.
Outstanding == unitMessage \/ \E s \in Step : message[s] # "none"

\* No wake-up is lost: while process_unit could advance a step, or take back a
\* failure, the unit's message or the message of one of its steps is outstanding
\* (wake_unit coalesces wake-ups, process_unit stops at its page limit and
\* requeues for two reasons only).
NothingForgotten ==
  (\E s \in Step : Waiting(s) \/ (permitted /\ Recoverable(s))) => Outstanding

\* The inductive invariant behind the two properties above, where a permission
\* once lost stays lost (~Restores).
MismatchInv == \A s \in mismatch : Ready(s)
ActiveInv   == \A s \in Step : /\ Active(s) => message[s] # "none"
                               /\ status[s] = "QUEUED" => result[s] = "none"
TransportInv ==
  \A s \in Step : waits[s] = "transport" =>
    message[s] = "execute" /\ status[s] \in {"PENDING", "QUEUED", "FAILED"}
DependencyInv ==
  \A s \in Step : permitted /\ waits[s] = "dependency" =>
    /\ status[s] = "PENDING" /\ message[s] = "none"
    /\ Parent(s) # None => status[Parent(s)] = "SUCCEEDED" \/ message[Parent(s)] # "none"
\* A step that is put off although its dependencies are settled will be made due
\* by the acknowledgement of some outstanding message.
WakeInv ==
  permitted /\ (\E s \in Step : waits[s] = "dependency" /\ (Ready(s) \/ Doomed(s)))
    => \E t \in Step : message[t] # "none"

IInv == /\ TypeOK /\ DependenciesFirst /\ MismatchInv /\ ActiveInv /\ TransportInv
        /\ DependencyInv /\ WakeInv /\ NothingForgotten

\* All work is done: nothing is outstanding, running or being finalized.
Settled ==
  /\ expanded /\ ~Outstanding /\ ~SomeStepActive
  /\ \A w \in Worker : finishing[w] = "no"

\* The stored status of a settled submission is the one that its steps imply,
\* however several tasks finalized it concurrently (finalize_submission); the
\* exceptions are those that StatusIsStored shows.
StatusIsCurrent ==
  Settled /\ crashes = 0 /\ ~LateExpansion
    => \/ overall = View
       \/ ~permitted /\ overall = Aggregate

\* "COMPLETED means that the planned creation steps are done and their results
\* checked" (the build execution design, section 9): a submission all of whose
\* steps succeeded and agree with the platform is stored as COMPLETED once all
\* work is done.
StatusIsStored ==
  Settled /\ mismatch = {} /\ (\A s \in Step : status[s] = "SUCCEEDED")
    => overall = "COMPLETED"

\* Every step that can be advanced, or whose failure can be taken back, is taken
\* up by process_unit in whatever order messages are delivered, leases expire
\* and other steps fail.
EveryStepIsTakenUp ==
  \A s \in Step : Waiting(s) \/ (permitted /\ Recoverable(s))
                    ~> ~Waiting(s) /\ ~(permitted /\ Recoverable(s))
=============================================================================
