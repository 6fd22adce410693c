------------------------ MODULE UnitDispatch_proofs ------------------------
(* Theorems about UnitDispatch, for every graph, page limit and number of   *)
(* tasks.                                                                   *)
EXTENDS UnitDispatch, TLAPS

----------------------------------------------------------------------------
(* Facts about the graph and its dependencies.                             *)

\* Parents are steps that create something.
LEMMA Parents == \A s \in Step : Parent(s) # None => Parent(s) \in Created
BY GraphOK DEF Parent, Created, Step

\* What has succeeded stays so for a step that others depend on.
SuccessKept == \A t \in Material \cup Created :
                 status[t] = "SUCCEEDED" => status'[t] = "SUCCEEDED"

\* A step whose dependencies have succeeded stays ready while successes are kept.
LEMMA ReadyKept ==
  ASSUME SuccessKept, NEW s \in Step, Ready(s)
  PROVE  Ready(s)'
<1>1. Preceded(s)'
  BY Parents DEF Ready, Preceded, SuccessKept, Created, Parent
<1>2. ASSUME NEW g \in Group, GroupReady(g) PROVE GroupReady(g)'
  BY <1>2, GraphOK DEF GroupReady, SuccessKept
<1>3. GroupsOf(s) \subseteq Group
  BY DEF GroupsOf
<1> QED BY <1>1, <1>2, <1>3 DEF Ready, GroupsOf

----------------------------------------------------------------------------
(* Type correctness.                                                       *)

LEMMA ViewType == View \in Overall /\ Aggregate \in Overall
BY DEF View, Aggregate, Overall

\* The unit's own transactions keep the types.
LEMMA TypeProcess ==
  ASSUME TypeOK, NEW w \in Worker, ProcessUnit(w) \/ ProcessForbidden(w)
  PROVE  TypeOK'
<1> USE DEF Overall, Status
<1>1. CASE ProcessUnit(w)
  <2>1. PICK expired, locked, armed, page, late :
          /\ expired \subseteq {s \in Step : status[s] = "RUNNING"}
          /\ locked \subseteq {s \in Step : message[s] # "none"}
          /\ armed \subseteq expired \cap Created
          /\ page \subseteq Candidates(expired) \ locked
          /\ Pass(w, Candidates(expired) \ locked, page, armed, late)
    BY ZenonT(90), <1>1 DEF ProcessUnit, Pages, Candidates
  <2>2. UNCHANGED <<mismatch, overall, expanded, permitted, retries, crashes>>
    BY <1>1 DEF ProcessUnit
  <2>3. page \subseteq Step
    BY <2>1 DEF Candidates
  <2> DEFINE toRead == {s \in page : status[s] = "UNKNOWN"} \cup (armed \cap page)
             toRun  == {s \in page \ toRead : Dependency(s) = "READY"}
             failed == {s \in page \ (toRead \cup late) : Dependency(s) = "FAILED"}
  <2>4. status' \in [Step -> Status]
    BY <2>1 DEF Pass, TypeOK
  <2>5. message' \in [Step -> {"none", "execute", "read"}]
        /\ readDone' \subseteq Step
        /\ result' \in [Step -> {"none", "refused", "final", "more"}]
    BY <2>1 DEF Pass, Queue, TypeOK
  <2>6. failedBy' \subseteq Step
    BY <2>1, <2>3 DEF Pass, TypeOK
  <2>7. waits' \in [Step -> {"no", "dependency", "transport"}] /\ unitMessage' \in BOOLEAN
    BY <2>1 DEF Pass, TypeOK, Requeue
  <2>8. finishing' \in [Worker -> {"no", "quiet", "attention", "view"} \cup Overall]
    BY <2>1 DEF Pass, TypeOK
  <2> QED BY <2>2, <2>4, <2>5, <2>6, <2>7, <2>8 DEF TypeOK
<1>2. CASE ProcessForbidden(w)
  BY <1>2 DEF ProcessForbidden, TypeOK, Requeue
<1> QED BY <1>1, <1>2

\* So do the transactions of a step.
LEMMA TypeOfStep ==
  ASSUME TypeOK, NEW s \in Step, StepNext(s)
  PROVE  TypeOK'
<1> USE DEF TypeOK, Status
<1>1. CASE Start(s) \/ Refuse(s) \/ ReadRefused(s)
  BY <1>1 DEF Start, Refuse, ReadRefused
<1>2. ASSUME NEW outcome \in Outcome, End(s, outcome) PROVE TypeOK'
  BY <1>2 DEF End, Outcome
<1>3. ASSUME NEW differs \in BOOLEAN, ReadConfirmed(s, differs) PROVE TypeOK'
  <2>1. s \in Readback => ParentOf[s] \in Step
    BY GraphOK DEF Step
  <2> QED BY <1>3, <2>1 DEF ReadConfirmed, ReadResult
<1>4. ASSUME NEW outcome \in {"final", "more"}, ReadInDoubt(s, outcome) PROVE TypeOK'
  BY <1>4 DEF ReadInDoubt, ReadResult
<1>5. ASSUME NEW armed \in BOOLEAN, Expire(s, armed) PROVE TypeOK'
  BY <1>5 DEF Expire, Queue
<1> QED BY <1>1, <1>2, <1>3, <1>4, <1>5 DEF StepNext

\* And the acknowledgements, finalizations and the environment.
LEMMA TypeOfOthers ==
  ASSUME TypeOK,
         \/ \E w \in Worker :
              \/ FinalizeCheck(w) \/ FinalizeView(w) \/ FinalizeStore(w) \/ CrashBeforeFinal(w)
              \/ \E s \in Step : FinishRead(w, s) \/ \E doubt \in BOOLEAN : FinishExecute(w, s, doubt)
              \/ \E m \in Material, outcome \in {"SUCCEEDED", "FAILED"} : MaterialResult(w, m, outcome)
         \/ \E s \in Step : TimePasses(s) \/ Retry(s) \/ Reconcile(s)
         \/ ExpansionEnds \/ PermissionChanges
  PROVE  TypeOK'
<1> USE DEF TypeOK, Status, stepVars
<1>1. ASSUME NEW w \in Worker, FinalizeCheck(w) \/ FinalizeStore(w)
      PROVE  TypeOK'
  BY <1>1 DEF FinalizeCheck, FinalizeStore, Overall
<1>2. ASSUME NEW w \in Worker, FinalizeView(w) PROVE TypeOK'
  <2>1. finishing' \in [Worker -> {"no", "quiet", "attention", "view"} \cup Overall]
    BY <1>2, ViewType DEF FinalizeView
  <2> QED BY <1>2, <2>1 DEF FinalizeView
<1>3. ASSUME NEW w \in Worker, CrashBeforeFinal(w) PROVE TypeOK'
  BY <1>3, GraphOK DEF CrashBeforeFinal
<1>4. ASSUME NEW w \in Worker, NEW s \in Step, FinishRead(w, s) PROVE TypeOK'
  BY <1>4 DEF FinishRead, Acknowledge, WakeUnit, Queue, Attention
<1>5. ASSUME NEW w \in Worker, NEW s \in Step, NEW doubt \in BOOLEAN, FinishExecute(w, s, doubt)
      PROVE  TypeOK'
  BY <1>5 DEF FinishExecute, Acknowledge, WakeUnit, Queue, Attention
<1>6. ASSUME NEW w \in Worker, NEW m \in Material, NEW outcome \in {"SUCCEEDED", "FAILED"},
             MaterialResult(w, m, outcome)
      PROVE  TypeOK'
  BY <1>6 DEF MaterialResult, WakeUnit
<1>7. ASSUME NEW s \in Step, TimePasses(s) PROVE TypeOK'
  BY <1>7 DEF TimePasses
<1>8. ASSUME NEW s \in Step, Retry(s) PROVE TypeOK'
  BY <1>8, GraphOK DEF Retry, WakeUnit, Queue
<1>9. ASSUME NEW s \in Step, Reconcile(s) PROVE TypeOK'
  BY <1>9, GraphOK DEF Reconcile, WakeUnit, Queue
<1>10. CASE ExpansionEnds \/ PermissionChanges
  BY <1>10 DEF ExpansionEnds, PermissionChanges
<1> QED BY <1>1, <1>2, <1>3, <1>4, <1>5, <1>6, <1>7, <1>8, <1>9, <1>10

LEMMA TypeStep == TypeOK /\ [Next]_vars => TypeOK'
<1> SUFFICES ASSUME TypeOK, [Next]_vars PROVE TypeOK'
  OBVIOUS
<1>1. CASE UNCHANGED vars
  BY <1>1 DEF vars, stepVars, TypeOK
<1> QED BY <1>1, TypeProcess, TypeOfStep, TypeOfOthers DEF Next, TaskNext

----------------------------------------------------------------------------
(* What a pass does.                                                       *)

\* A step whose failed parent was taken back before it was looked at.
Follows(s, toRun) == Parent(s) \in toRun /\ status[Parent(s)] = "FAILED"

\* What a pass of process_unit is like: the steps it handles, and what becomes
\* of them.
PassShape(page, candidates, toRead, toRun, failed, held) ==
  /\ page \subseteq Step /\ candidates \subseteq Step
  /\ page = toRead \cup toRun \cup failed \cup held
  /\ toRead \cap (toRun \cup failed) = {} /\ toRun \cap failed = {}
  /\ held \cap (toRead \cup toRun \cup failed) = {}
  /\ page \subseteq candidates
  /\ \A s \in candidates :
       /\ waits[s] = "no"
       /\ \/ Recoverable(s)
          \/ status[s] = "PENDING" /\ ParentSettled(s)
          \/ status[s] = "RUNNING"
          \/ status[s] = "UNKNOWN" /\ s \notin Material
  /\ \A s \in Step \ candidates :
       \/ message[s] # "none"
       \/ waits[s] # "no"
       \/ ~Recoverable(s) /\ ~(status[s] = "PENDING" /\ ParentSettled(s))
  /\ \A s \in toRead : status[s] \in {"UNKNOWN", "RUNNING"}
  /\ \A s \in page \ toRead : status[s] # "UNKNOWN"
  /\ \A s \in toRun : Dependency(s) = "READY"
  /\ \A s \in failed : Dependency(s) = "FAILED"
  /\ \A s \in held : /\ Dependency(s) # "READY"
                     /\ Dependency(s) # "FAILED" \/ Follows(s, toRun)
  /\ status' = [s \in Step |->
                  CASE s \in Queued(toRun, toRead) -> "QUEUED"
                    [] s \in toRead \ Readback     -> "UNKNOWN"
                    [] s \in failed                -> "FAILED"
                    [] s \in held                  -> "PENDING"
                    [] OTHER                       -> status[s]]
  /\ Queue(toRun, toRead)
  /\ failedBy' = (failedBy \ toRun) \cup failed
  /\ waits' = [s \in Step |-> IF s \in held THEN "dependency" ELSE waits[s]]
  /\ unitMessage' = (page # candidates \/ failed # {})

LEMMA PassFacts ==
  ASSUME TypeOK, NEW w \in Worker, ProcessUnit(w)
  PROVE  \E page, candidates, toRead, toRun, failed, held :
           PassShape(page, candidates, toRead, toRun, failed, held)
<1>1. PICK expired, locked, armed, page, late :
        /\ expired \subseteq {s \in Step : status[s] = "RUNNING"}
        /\ locked \subseteq {s \in Step : message[s] # "none"}
        /\ armed \subseteq expired \cap Created
        /\ page \subseteq Candidates(expired) \ locked
        /\ late \subseteq Followers(page)
        /\ Pass(w, Candidates(expired) \ locked, page, armed, late)
  BY ZenonT(90) DEF ProcessUnit, Pages, Candidates
<1> DEFINE candidates == Candidates(expired) \ locked
           toRead == {s \in page : status[s] = "UNKNOWN"} \cup (armed \cap page)
           toRun  == {s \in page \ toRead : Dependency(s) = "READY"}
           failed == {s \in page \ (toRead \cup late) : Dependency(s) = "FAILED"}
           held   == page \ (toRead \cup toRun \cup failed)
<1>2. /\ page \in SUBSET Step /\ candidates \in SUBSET Step
      /\ toRead \in SUBSET Step /\ toRun \in SUBSET Step
      /\ failed \in SUBSET Step /\ held \in SUBSET Step
  BY <1>1 DEF Candidates
<1>3. /\ page = toRead \cup toRun \cup failed \cup held
      /\ toRead \cap (toRun \cup failed) = {} /\ toRun \cap failed = {}
      /\ held \cap (toRead \cup toRun \cup failed) = {}
      /\ page \subseteq candidates
  BY <1>1
<1>4. \A s \in candidates :
        /\ waits[s] = "no"
        /\ \/ Recoverable(s)
           \/ status[s] = "PENDING" /\ ParentSettled(s)
           \/ status[s] = "RUNNING"
           \/ status[s] = "UNKNOWN" /\ s \notin Material
  BY <1>1 DEF Candidates
<1>5. \A s \in Step \ candidates :
        \/ message[s] # "none"
        \/ waits[s] # "no"
        \/ ~Recoverable(s) /\ ~(status[s] = "PENDING" /\ ParentSettled(s))
  BY <1>1 DEF Candidates
<1>6. /\ \A s \in toRead : status[s] \in {"UNKNOWN", "RUNNING"}
      /\ \A s \in page \ toRead : status[s] # "UNKNOWN"
      /\ \A s \in toRun : Dependency(s) = "READY"
      /\ \A s \in failed : Dependency(s) = "FAILED"
  BY <1>1
<1>9. ASSUME NEW s \in held PROVE Dependency(s) # "READY" /\ (Dependency(s) # "FAILED" \/ Follows(s, toRun))
  <2>1. s \in page \ toRead /\ Dependency(s) # "READY" /\ (Dependency(s) = "FAILED" => s \in late)
    BY <1>9
  <2>2. ASSUME s \in late PROVE Follows(s, toRun)
    <3>1. Parent(s) \in page /\ status[Parent(s)] = "FAILED" /\ Ready(Parent(s))
      BY <1>1, <2>2 DEF Followers, Recoverable
    <3>2. Parent(s) \notin toRead /\ Dependency(Parent(s)) = "READY"
      BY <1>1, <3>1 DEF Dependency
    <3> QED BY <3>1, <3>2 DEF Follows
  <2> QED BY <2>1, <2>2
<1>7. /\ status' = [s \in Step |->
                      CASE s \in Queued(toRun, toRead) -> "QUEUED"
                        [] s \in toRead \ Readback     -> "UNKNOWN"
                        [] s \in failed                -> "FAILED"
                        [] s \in held                  -> "PENDING"
                        [] OTHER                       -> status[s]]
      /\ Queue(toRun, toRead)
      /\ failedBy' = (failedBy \ toRun) \cup failed
      /\ waits' = [s \in Step |-> IF s \in held THEN "dependency" ELSE waits[s]]
      /\ unitMessage' = (page # candidates \/ failed # {})
  BY <1>1 DEF Pass, Requeue
<1>8. PassShape(page, candidates, toRead, toRun, failed, held)
  <2> HIDE DEF candidates, toRead, toRun, failed, held
  <2> QED BY <1>2, <1>3, <1>4, <1>5, <1>6, <1>7, <1>9 DEF PassShape
<1> QED BY <1>8

----------------------------------------------------------------------------
(* Successes are kept.                                                     *)

\* No transaction takes back the success of a step that others depend on.
LEMMA SuccessStep == TypeOK /\ [Next]_vars => SuccessKept
<1> SUFFICES ASSUME TypeOK, [Next]_vars PROVE SuccessKept
  OBVIOUS
<1>0. /\ Material \cup Created \subseteq Step
      /\ (Material \cup Created) \cap Readback = {}
  BY GraphOK DEF Step, Created
<1> USE DEF SuccessKept, TypeOK, Status
<1>1. ASSUME NEW w \in Worker, ProcessUnit(w) PROVE SuccessKept
  <2>1. PICK page, candidates, toRead, toRun, failed, held :
          PassShape(page, candidates, toRead, toRun, failed, held)
    BY <1>1, PassFacts
  <2>2. \A s \in page : status[s] # "SUCCEEDED"
    BY <2>1 DEF PassShape, Recoverable
  <2>3. \A s \in Step \ page : status'[s] = status[s]
    BY <2>1 DEF PassShape, Queued
  <2> QED BY <1>0, <2>2, <2>3
<1>2. ASSUME NEW w \in Worker, TaskNext(w), ~ProcessUnit(w) PROVE SuccessKept
  <2>1. CASE ProcessForbidden(w)
    BY <1>0, <2>1 DEF ProcessForbidden, Pages, Active
  <2>2. CASE FinalizeCheck(w) \/ FinalizeView(w) \/ FinalizeStore(w) \/ CrashBeforeFinal(w)
    BY <2>2 DEF FinalizeCheck, FinalizeView, FinalizeStore, CrashBeforeFinal, stepVars
  <2>3. ASSUME NEW s \in Step, FinishRead(w, s) PROVE SuccessKept
    BY <1>0, <2>3 DEF FinishRead
  <2>4. ASSUME NEW s \in Step, NEW doubt \in BOOLEAN, FinishExecute(w, s, doubt)
        PROVE  SuccessKept
    BY <1>0, <2>4 DEF FinishExecute
  <2>5. ASSUME NEW m \in Material, NEW outcome \in {"SUCCEEDED", "FAILED"},
               MaterialResult(w, m, outcome)
        PROVE  SuccessKept
    BY <1>0, <2>5 DEF MaterialResult
  <2> QED BY <1>2, <2>1, <2>2, <2>3, <2>4, <2>5 DEF TaskNext
<1>3. ASSUME NEW s \in Step, StepNext(s) PROVE SuccessKept
  <2>1. CASE Start(s) \/ Refuse(s) \/ ReadRefused(s)
    BY <1>0, <2>1 DEF Start, Refuse, ReadRefused
  <2>2. ASSUME NEW outcome \in Outcome, End(s, outcome) PROVE SuccessKept
    BY <1>0, <2>2 DEF End
  <2>3. ASSUME NEW differs \in BOOLEAN, ReadConfirmed(s, differs) PROVE SuccessKept
    BY <1>0, <2>3 DEF ReadConfirmed
  <2>4. ASSUME NEW outcome \in {"final", "more"}, ReadInDoubt(s, outcome) PROVE SuccessKept
    BY <1>0, <2>4 DEF ReadInDoubt
  <2>5. ASSUME NEW armed \in BOOLEAN, Expire(s, armed) PROVE SuccessKept
    BY <1>0, <2>5 DEF Expire
  <2> QED BY <1>3, <2>1, <2>2, <2>3, <2>4, <2>5 DEF StepNext
<1>4. ASSUME NEW s \in Step, TimePasses(s) \/ Retry(s) \/ Reconcile(s) PROVE SuccessKept
  BY <1>0, <1>4 DEF TimePasses, Retry, Reconcile
<1>5. CASE ExpansionEnds \/ PermissionChanges \/ UNCHANGED vars
  BY <1>5 DEF ExpansionEnds, PermissionChanges, vars, stepVars
<1> QED BY <1>1, <1>2, <1>3, <1>4, <1>5 DEF Next

----------------------------------------------------------------------------
(* Dependencies first.                                                     *)

\* Materials and the CTA depend on nothing.
LEMMA RootsReady == \A s \in Material \cup {Cta} : Ready(s)
BY GraphOK DEF Ready, Preceded, Parent

Busy(s) == Dispatched(s) \/ message[s] # "none"

\* A step becomes busy only when it is ready.
LEMMA BusyStep ==
  ASSUME TypeOK, DependenciesFirst, MismatchInv, [Next]_vars
  PROVE  \A s \in Step : Busy(s)' \/ s \in mismatch' => Ready(s)
<1> DEFINE Goal == \A s \in Step : Busy(s)' \/ s \in mismatch' => Ready(s)
<1>0. \A s \in Step : Busy(s) \/ s \in mismatch => Ready(s)
  BY DEF DependenciesFirst, MismatchInv, Busy
<1> USE DEF TypeOK, Status, Busy, Dispatched
<1>1. ASSUME NEW w \in Worker, ProcessUnit(w) PROVE Goal
  <2>1. PICK page, candidates, toRead, toRun, failed, held :
          PassShape(page, candidates, toRead, toRun, failed, held)
    BY <1>1, PassFacts
  <2>2. \A s \in Step \ (toRun \cup toRead) :
          message'[s] = message[s] /\ (Dispatched(s)' => Dispatched(s))
    BY <2>1 DEF PassShape, Queued, Queue
  <2>3. \A s \in toRun : Ready(s)
    BY <2>1 DEF PassShape, Dependency
  <2>4. \A s \in toRead : Ready(s)
    BY <1>0, <2>1 DEF PassShape
  <2>5. mismatch' = mismatch
    BY <1>1 DEF ProcessUnit
  <2> QED BY <1>0, <2>2, <2>3, <2>4, <2>5
<1>2. ASSUME NEW w \in Worker, TaskNext(w), ~ProcessUnit(w) PROVE Goal
  <2>1. CASE ProcessForbidden(w)
    BY <1>0, <2>1 DEF ProcessForbidden
  <2>2. CASE FinalizeCheck(w) \/ FinalizeView(w) \/ FinalizeStore(w) \/ CrashBeforeFinal(w)
    BY <1>0, <2>2 DEF FinalizeCheck, FinalizeView, FinalizeStore, CrashBeforeFinal, stepVars
  <2>3. ASSUME NEW s \in Step, FinishRead(w, s) PROVE Goal
    BY <1>0, <2>3 DEF FinishRead, Queue
  <2>4. ASSUME NEW s \in Step, NEW doubt \in BOOLEAN, FinishExecute(w, s, doubt)
        PROVE  Goal
    BY <1>0, <2>4 DEF FinishExecute, Queue
  <2>5. ASSUME NEW m \in Material, NEW outcome \in {"SUCCEEDED", "FAILED"},
               MaterialResult(w, m, outcome)
        PROVE  Goal
    BY <1>0, <2>5, RootsReady DEF MaterialResult, Step
  <2> QED BY <1>2, <2>1, <2>2, <2>3, <2>4, <2>5 DEF TaskNext
<1>3. ASSUME NEW s \in Step, StepNext(s) PROVE Goal
  <2>1. CASE Start(s) \/ Refuse(s) \/ ReadRefused(s)
    BY <1>0, <2>1 DEF Start, Refuse, ReadRefused
  <2>2. ASSUME NEW outcome \in Outcome, End(s, outcome) PROVE Goal
    BY <1>0, <2>2 DEF End
  <2>3. ASSUME NEW differs \in BOOLEAN, ReadConfirmed(s, differs) PROVE Goal
    <3>1. Ready(s)
      BY <1>0, <2>3 DEF ReadConfirmed, ReadResult
    <3>2. s \in Readback => ParentOf[s] \in Step /\ Ready(ParentOf[s])
      BY <1>0, <3>1, GraphOK DEF Ready, Preceded, Parent, Step, Created
    <3> QED BY <1>0, <2>3, <3>1, <3>2 DEF ReadConfirmed, ReadResult
  <2>4. ASSUME NEW outcome \in {"final", "more"}, ReadInDoubt(s, outcome) PROVE Goal
    BY <1>0, <2>4 DEF ReadInDoubt, ReadResult
  <2>5. ASSUME NEW armed \in BOOLEAN, Expire(s, armed) PROVE Goal
    BY <1>0, <2>5 DEF Expire, Queue
  <2> QED BY <1>3, <2>1, <2>2, <2>3, <2>4, <2>5 DEF StepNext
<1>4. ASSUME NEW s \in Step, TimePasses(s) \/ Retry(s) PROVE Goal
  BY <1>0, <1>4 DEF TimePasses, Retry, Queue
<1>5. ASSUME NEW s \in Step, Reconcile(s) PROVE Goal
  <2>1. Ready(s)
    <3>1. CASE status[s] = "UNKNOWN" \/ s \in mismatch
      BY <1>0, <3>1
    <3>2. CASE s \in Readback /\ status[ParentOf[s]] = "SUCCEEDED"
      BY <3>2, GraphOK DEF Ready, Preceded, Parent
    <3> QED BY <1>5, <3>1, <3>2 DEF Reconcile
  <2> QED BY <1>0, <1>5, <2>1 DEF Reconcile, Queue
<1>6. CASE ExpansionEnds \/ PermissionChanges \/ UNCHANGED vars
  BY <1>0, <1>6 DEF ExpansionEnds, PermissionChanges, vars, stepVars
<1> QED BY <1>1, <1>2, <1>3, <1>4, <1>5, <1>6 DEF Next

LEMMA DependencyStep ==
  ASSUME TypeOK, DependenciesFirst, MismatchInv, [Next]_vars
  PROVE  DependenciesFirst' /\ MismatchInv'
<1>1. \A s \in Step : Ready(s) => Ready(s)'
  BY SuccessStep, ReadyKept
<1>2. mismatch' \subseteq Step
  BY TypeStep DEF TypeOK
<1> QED BY <1>1, <1>2, BusyStep DEF DependenciesFirst, MismatchInv, Busy

----------------------------------------------------------------------------
(* Outstanding deliveries.                                                 *)

\* A step that is queued or executed has an outstanding delivery, which has no
\* result while it is queued, and a step put off after a transport failure is still to be executed.
LEMMA ActiveStep ==
  ASSUME TypeOK, DependenciesFirst, ActiveInv, TransportInv, [Next]_vars
  PROVE  ActiveInv' /\ TransportInv'
<1> DEFINE Goal == ActiveInv' /\ TransportInv'
<1> USE DEF TypeOK, Status, ActiveInv, TransportInv, Active
<1>1. ASSUME NEW w \in Worker, ProcessUnit(w) PROVE Goal
  <2>1. PICK page, candidates, toRead, toRun, failed, held :
          PassShape(page, candidates, toRead, toRun, failed, held)
    BY <1>1, PassFacts
  <2>2. \A s \in page : waits[s] = "no" /\ waits'[s] # "transport"
    BY <2>1 DEF PassShape
  <2>3. \A s \in Step : s \in toRun \cup toRead => message'[s] # "none" /\ result'[s] = "none"
    BY <2>1 DEF PassShape, Queue
  <2>4. \A s \in page \ (toRun \cup toRead) : ~Active(s)'
    BY <2>1 DEF PassShape, Queued
  <2>5. \A s \in Step \ page :
          /\ status'[s] = status[s] /\ message'[s] = message[s]
          /\ waits'[s] = waits[s] /\ result'[s] = result[s]
    BY <2>1 DEF PassShape, Queued, Queue
  <2> QED BY <2>2, <2>3, <2>4, <2>5
<1>2. ASSUME NEW w \in Worker, TaskNext(w), ~ProcessUnit(w) PROVE Goal
  <2>1. CASE ProcessForbidden(w)
    BY <2>1 DEF ProcessForbidden
  <2>2. CASE FinalizeCheck(w) \/ FinalizeView(w) \/ FinalizeStore(w) \/ CrashBeforeFinal(w)
    BY <2>2 DEF FinalizeCheck, FinalizeView, FinalizeStore, CrashBeforeFinal, stepVars
  <2>3. ASSUME NEW s \in Step, FinishRead(w, s) PROVE Goal
    BY <2>3 DEF FinishRead, Queue, Acknowledge, WakeUnit
  <2>4. ASSUME NEW s \in Step, NEW doubt \in BOOLEAN, FinishExecute(w, s, doubt)
        PROVE  Goal
    BY <2>4 DEF FinishExecute, Queue, Acknowledge, WakeUnit
  <2>5. ASSUME NEW m \in Material, NEW outcome \in {"SUCCEEDED", "FAILED"},
               MaterialResult(w, m, outcome)
        PROVE  Goal
    <3>1. m \in Step /\ \A s \in Step : waits'[s] = "transport" => waits[s] = "transport"
      BY <2>5 DEF MaterialResult, WakeUnit, Step
    <3> QED BY <2>5, <3>1 DEF MaterialResult
  <2> QED BY <1>2, <2>1, <2>2, <2>3, <2>4, <2>5 DEF TaskNext
<1>3. ASSUME NEW s \in Step, StepNext(s) PROVE Goal
  <2>1. CASE Start(s) \/ Refuse(s) \/ ReadRefused(s)
    <3>1. CASE Start(s)
      BY <3>1 DEF Start
    <3>2. CASE Refuse(s)
      BY <3>2 DEF Refuse
    <3>3. CASE ReadRefused(s)
      BY <3>3 DEF ReadRefused
    <3> QED BY <2>1, <3>1, <3>2, <3>3
  <2>2. ASSUME NEW outcome \in Outcome, End(s, outcome) PROVE Goal
    BY <2>2 DEF End, Outcome
  <2>3. ASSUME NEW differs \in BOOLEAN, ReadConfirmed(s, differs) PROVE Goal
    <3>1. s \in Readback => ParentOf[s] \in Step /\ status[ParentOf[s]] = "SUCCEEDED"
      BY <2>3, GraphOK DEF ReadConfirmed, ReadResult, DependenciesFirst, Ready, Preceded,
                           Parent, Step, Created
    <3> QED BY <2>3, <3>1 DEF ReadConfirmed, ReadResult
  <2>4. ASSUME NEW outcome \in {"final", "more"}, ReadInDoubt(s, outcome) PROVE Goal
    BY <2>4 DEF ReadInDoubt, ReadResult
  <2>5. ASSUME NEW armed \in BOOLEAN, Expire(s, armed) PROVE Goal
    BY <2>5 DEF Expire, Queue
  <2> QED BY <1>3, <2>1, <2>2, <2>3, <2>4, <2>5 DEF StepNext
<1>4. ASSUME NEW s \in Step, TimePasses(s) \/ Retry(s) \/ Reconcile(s) PROVE Goal
  BY <1>4 DEF TimePasses, Retry, Reconcile, Queue, WakeUnit
<1>5. CASE ExpansionEnds \/ PermissionChanges \/ UNCHANGED vars
  BY <1>5 DEF ExpansionEnds, PermissionChanges, vars, stepVars
<1> QED BY <1>1, <1>2, <1>3, <1>4, <1>5 DEF Next

----------------------------------------------------------------------------
(* Wake-ups.                                                               *)

\* What a pass leaves as it is: successes, and the failures of materials and of
\* the CTA.
LEMMA PassKeeps ==
  ASSUME TypeOK, NEW page, NEW candidates, NEW toRead, NEW toRun, NEW failed, NEW held,
         PassShape(page, candidates, toRead, toRun, failed, held)
  PROVE  /\ \A t \in Step : status'[t] = "SUCCEEDED" <=> status[t] = "SUCCEEDED"
         /\ \A t \in Material \cup {Cta} : status'[t] = "FAILED" <=> status[t] = "FAILED"
         /\ \A t \in Step : message[t] # "none" => message'[t] # "none"
<1>1. \A t \in page : status[t] # "SUCCEEDED"
  BY DEF PassShape, Recoverable
<1>2. \A t \in Step \ page : status'[t] = status[t]
  BY DEF PassShape, Queued
<1>3. \A t \in page : status'[t] # "SUCCEEDED"
  BY DEF PassShape, Queued
<1>4. \A t \in failed : t \notin Material \cup {Cta}
  BY GraphOK DEF PassShape, Dependency, Doomed, Parent
<1>5. \A t \in page : status[t] = "FAILED" => t \notin Material \cup {Cta}
  BY DEF PassShape, Recoverable
<1>6. \A t \in page : status'[t] = "FAILED" => t \in failed
  BY DEF PassShape, Queued
<1>7. Material \cup {Cta} \subseteq Step
  BY DEF Step, Created
<1>8. \A t \in Step : message[t] # "none" => message'[t] # "none"
  BY DEF PassShape, Queue, TypeOK
<1> QED BY <1>1, <1>2, <1>3, <1>4, <1>5, <1>6, <1>7, <1>8

\* Therefore a step whose parent has succeeded is settled after a pass only if it
\* was before.
LEMMA PassSettles ==
  ASSUME TypeOK, NEW page, NEW candidates, NEW toRead, NEW toRun, NEW failed, NEW held,
         PassShape(page, candidates, toRead, toRun, failed, held),
         NEW s \in Step
  PROVE  /\ Ready(s)' => Ready(s)
         /\ (Parent(s) # None => status[Parent(s)] = "SUCCEEDED") /\ Doomed(s)' => Doomed(s)
<1>1. Preceded(s)' <=> Preceded(s)
  BY PassKeeps, Parents DEF Preceded, Parent, Step, Created
<1>2. \A g \in Group : (GroupReady(g)' <=> GroupReady(g)) /\ (GroupFailed(g)' <=> GroupFailed(g))
  <2>1. \A g \in Group : GroupMaterial[g] \subseteq Material
    BY GraphOK
  <2>2. \A m \in Material :
          /\ status'[m] = "SUCCEEDED" <=> status[m] = "SUCCEEDED"
          /\ status'[m] = "FAILED" <=> status[m] = "FAILED"
    BY PassKeeps DEF Step
  <2> QED BY <2>1, <2>2 DEF GroupReady, GroupFailed
<1>3. GroupsOf(s) \subseteq Group
  BY DEF GroupsOf
<1>4. Parent(s) # None /\ status[Parent(s)] = "SUCCEEDED" => status'[Parent(s)] = "SUCCEEDED"
  BY PassKeeps, Parents DEF Step
<1>5. status'[Cta] = "FAILED" <=> status[Cta] = "FAILED"
  BY PassKeeps
<1>6. Ready(s)' => Ready(s)
  BY <1>1, <1>2, <1>3 DEF Ready, GroupsOf
<1>7. ASSUME Parent(s) # None => status[Parent(s)] = "SUCCEEDED", Doomed(s)' PROVE Doomed(s)
  BY <1>1, <1>2, <1>3, <1>4, <1>5, <1>7 DEF Doomed, GroupsOf, Parent
<1> QED BY <1>6, <1>7

\* Steps that are put off by a pass: pending, without an outstanding message, not
\* settled, with a parent that has succeeded or is queued.
LEMMA HeldShape ==
  ASSUME TypeOK, DependenciesFirst,
         NEW page, NEW candidates, NEW toRead, NEW toRun, NEW failed, NEW held,
         PassShape(page, candidates, toRead, toRun, failed, held),
         NEW s \in held
  PROVE  /\ s \in Step /\ status'[s] = "PENDING" /\ message'[s] = "none"
         /\ ~Ready(s)' /\ ~Doomed(s)'
         /\ Parent(s) # None => status'[Parent(s)] = "SUCCEEDED" \/ message'[Parent(s)] # "none"
<1>1. s \in Step /\ s \in candidates /\ s \notin toRead \cup toRun \cup failed
  BY DEF PassShape
<1>2. ~Ready(s) /\ (~Doomed(s) \/ Follows(s, toRun))
  BY DEF PassShape, Dependency
<1>3. status'[s] = "PENDING"
  BY <1>1 DEF PassShape, Queued
<1>4. message[s] = "none" /\ ~Dispatched(s)
  BY <1>1, <1>2 DEF DependenciesFirst
<1>5. message'[s] = "none"
  BY <1>1, <1>4 DEF PassShape, Queue
<1>6. status[s] = "PENDING" /\ ParentSettled(s)
  BY <1>1, <1>2, <1>4 DEF PassShape, Recoverable, Dispatched
<1>7. Parent(s) # None => Parent(s) \in Step
  BY <1>1, Parents DEF Step
<1>8. CASE ~Doomed(s)
  <2>1. Parent(s) # None => status[Parent(s)] = "SUCCEEDED"
    BY <1>6, <1>8 DEF ParentSettled, Doomed
  <2>2. Parent(s) # None => status'[Parent(s)] = "SUCCEEDED"
    BY <1>7, <2>1, PassKeeps
  <2>3. ~Ready(s)' /\ ~Doomed(s)'
    BY <1>1, <1>2, <1>8, <2>1, PassSettles
  <2> QED BY <1>1, <1>3, <1>5, <2>2, <2>3
<1>9. CASE Follows(s, toRun)
  <2>1. Parent(s) \in toRun /\ Parent(s) \in Step /\ Parent(s) # None
    BY <1>9, GraphOK DEF Follows, PassShape
  <2>2. status'[Parent(s)] = "QUEUED" /\ message'[Parent(s)] # "none"
    BY <2>1 DEF PassShape, Queued, Queue
  <2>3. ~Preceded(s)' /\ s # Campaign
    BY <2>1, <2>2, GraphOK DEF Preceded, Parent
  <2>4. ~Ready(s)' /\ ~Doomed(s)'
    BY <2>1, <2>2, <2>3 DEF Ready, Doomed, Parent
  <2> QED BY <1>1, <1>3, <1>5, <2>2, <2>4
<1> QED BY <1>2, <1>8, <1>9

\* What is said of wake-ups.
WakeParts == DependencyInv /\ WakeInv /\ NothingForgotten

\* A transaction that wakes the unit: no step is put off for a dependency any
\* more, and the unit's message is outstanding.
LEMMA WakeKept ==
  ASSUME TypeOK, DependencyInv, permitted' => permitted,
         NEW later, WakeUnit(later),
         \A s \in Step : later[s] = "dependency" => waits[s] = "dependency"
  PROVE  WakeParts'
<1>1. unitMessage'
  BY DEF WakeUnit
<1>2. permitted' => \A s \in Step : waits'[s] # "dependency"
  BY DEF WakeUnit, DependencyInv
<1> QED BY <1>1, <1>2 DEF WakeParts, DependencyInv, WakeInv, NothingForgotten, Outstanding

\* A transaction of a step: its message stays outstanding, and the steps that are
\* put off stay as they are.
LEMMA StepKept ==
  ASSUME TypeOK, DependencyInv, [Next]_vars, permitted' = permitted,
         NEW s \in Step, message'[s] # "none",
         \A t \in Step : message[t] # "none" => message'[t] # "none",
         permitted => \A t \in Step : waits'[t] = "dependency" =>
           waits[t] = "dependency" /\ (status'[t] = status[t] \/ status[t] # "PENDING")
             /\ (message'[t] = message[t] \/ message[t] # "none")
  PROVE  WakeParts'
<1>1. \A t \in Step : Parent(t) # None =>
        (status[Parent(t)] = "SUCCEEDED" => status'[Parent(t)] = "SUCCEEDED")
  BY Parents, SuccessStep DEF SuccessKept
<1>2. DependencyInv'
  <2> SUFFICES ASSUME permitted, NEW t \in Step, waits'[t] = "dependency"
               PROVE  /\ status'[t] = "PENDING" /\ message'[t] = "none"
                      /\ Parent(t) # None => \/ status'[Parent(t)] = "SUCCEEDED"
                                             \/ message'[Parent(t)] # "none"
    BY DEF DependencyInv, Parent
  <2>1. waits[t] = "dependency" /\ (Parent(t) # None => Parent(t) \in Step)
    BY Parents DEF Step
  <2> QED BY <1>1, <2>1 DEF DependencyInv
<1> QED BY <1>2 DEF WakeParts, WakeInv, NothingForgotten, Outstanding

\* A pass of process_unit over a page.
LEMMA PassWakes ==
  ASSUME TypeOK, DependenciesFirst, TransportInv, WakeParts, permitted, permitted',
         mismatch' = mismatch,
         NEW page, NEW candidates, NEW toRead, NEW toRun, NEW failed, NEW held,
         PassShape(page, candidates, toRead, toRun, failed, held)
  PROVE  WakeParts'
<1>1. ASSUME NEW s \in Step, s \notin held
      PROVE  waits'[s] = waits[s]
  BY <1>1 DEF PassShape
<1>2. \A s \in held : /\ s \in Step /\ status'[s] = "PENDING" /\ message'[s] = "none"
                      /\ ~Ready(s)' /\ ~Doomed(s)'
                      /\ Parent(s) # None => \/ status'[Parent(s)] = "SUCCEEDED"
                                             \/ message'[Parent(s)] # "none"
  BY HeldShape
<1>3. \A s \in page : waits[s] = "no"
  BY DEF PassShape
<1>4. \A s \in Step \ page : status'[s] = status[s] /\ message'[s] = message[s]
  BY DEF PassShape, Queued, Queue
<1>5. \A s \in Step : Parent(s) # None => (status[Parent(s)] = "SUCCEEDED" => status'[Parent(s)] = "SUCCEEDED")
  BY PassKeeps, Parents DEF Step
<1>6. DependencyInv'
  <2> SUFFICES ASSUME NEW s \in Step, waits'[s] = "dependency"
               PROVE  /\ status'[s] = "PENDING" /\ message'[s] = "none"
                      /\ Parent(s) # None => \/ status'[Parent(s)] = "SUCCEEDED"
                                             \/ message'[Parent(s)] # "none"
    BY DEF DependencyInv, Parent
  <2>1. CASE s \in held
    BY <1>2, <2>1
  <2>2. CASE s \notin held
    <3>1. waits[s] = "dependency" /\ s \notin page
      BY <1>1, <1>3, <2>2
    <3>2. Parent(s) # None => (message[Parent(s)] # "none" => message'[Parent(s)] # "none")
      BY PassKeeps, Parents DEF Step
    <3> QED BY <1>4, <1>5, <3>1, <3>2 DEF WakeParts, DependencyInv
  <2> QED BY <2>1, <2>2
<1>7. ASSUME NEW s \in Step, waits'[s] = "dependency", Ready(s)' \/ Doomed(s)'
      PROVE  \E t \in Step : message'[t] # "none"
  <2>1. waits[s] = "dependency"
    BY <1>1, <1>2, <1>7
  <2>2. CASE Parent(s) # None => status[Parent(s)] = "SUCCEEDED"
    <3>1. Ready(s) \/ Doomed(s)
      BY <1>7, <2>2, PassSettles
    <3>2. PICK t \in Step : message[t] # "none"
      BY <2>1, <3>1 DEF WakeParts, WakeInv
    <3> QED BY <3>2, PassKeeps
  <2>3. CASE Parent(s) # None /\ status[Parent(s)] # "SUCCEEDED"
    <3>1. Parent(s) \in Step /\ message[Parent(s)] # "none"
      BY <2>1, <2>3, Parents DEF WakeParts, DependencyInv, Step
    <3> QED BY <3>1, PassKeeps
  <2> QED BY <2>2, <2>3
<1>8. WakeInv'
  BY <1>7 DEF WakeInv
<1>9. ASSUME NEW s \in Step, Waiting(s)' \/ Recoverable(s)', ~Outstanding'
      PROVE  FALSE
  <2>1. ~unitMessage' /\ \A t \in Step : message'[t] = "none"
    BY <1>9 DEF Outstanding
  <2>2. page = candidates /\ failed = {}
    BY <2>1 DEF PassShape
  <2>3. \A t \in Step : message[t] = "none"
    BY <2>1, PassKeeps
  <2>4. s \notin toRun \cup toRead
    BY <2>1 DEF PassShape, Queue
  <2>5. s \notin held
    BY <1>2, <1>9 DEF Waiting, Recoverable
  <2>6. s \notin page
    BY <2>2, <2>4, <2>5 DEF PassShape
  <2>7. waits[s] # "no" \/ (~Recoverable(s) /\ ~(status[s] = "PENDING" /\ ParentSettled(s)))
    BY <2>2, <2>3, <2>6 DEF PassShape
  <2>8. waits[s] # "transport"
    BY <2>3 DEF TransportInv
  <2>9. CASE Recoverable(s)'
    <3>1. status[s] = "FAILED" /\ s \in failedBy /\ s \notin mismatch
      BY <1>4, <2>2, <2>6, <2>9 DEF Recoverable, PassShape
    <3>2. Recoverable(s)
      BY <2>3, <2>9, <3>1, PassSettles DEF Recoverable
    <3>3. waits[s] = "dependency"
      BY <2>7, <2>8, <3>2 DEF TypeOK
    <3> QED BY <3>1, <3>3 DEF WakeParts, DependencyInv
  <2>10. CASE Waiting(s)'
    <3>1. status[s] = "PENDING"
      BY <1>4, <2>6, <2>10 DEF Waiting
    <3>2. CASE waits[s] = "dependency"
      <4>1. Parent(s) # None => status[Parent(s)] = "SUCCEEDED"
        BY <2>3, <3>2, Parents DEF WakeParts, DependencyInv, Step
      <4>2. Ready(s) \/ Doomed(s)
        BY <2>10, <4>1, PassSettles DEF Waiting
      <4> QED BY <2>3, <3>2, <4>2 DEF WakeParts, WakeInv
    <3>3. CASE waits[s] = "no"
      <4>1. Parent(s) # None /\ status[Parent(s)] \notin {"SUCCEEDED", "FAILED"}
        BY <2>7, <3>1, <3>3 DEF ParentSettled
      <4>2. Parent(s) \in Step
        BY <4>1, Parents DEF Step
      <4>3. status'[Parent(s)] # "SUCCEEDED"
        BY <4>1, <4>2, PassKeeps
      <4>4. status'[Parent(s)] # "FAILED"
        BY <2>2, <4>1, <4>2 DEF PassShape, Queued
      <4>5. ~Preceded(s)' /\ s # Campaign
        BY <4>1, <4>3, GraphOK DEF Preceded, Parent
      <4> QED BY <2>10, <4>4, <4>5 DEF Waiting, Ready, Doomed, Parent
    <3> QED BY <2>8, <3>2, <3>3 DEF TypeOK
  <2> QED BY <1>9, <2>9, <2>10
<1>10. NothingForgotten'
  BY <1>9 DEF NothingForgotten
<1> QED BY <1>6, <1>8, <1>10 DEF WakeParts

\* Every transaction keeps what is said of wake-ups, where a permission once lost
\* stays lost.
LEMMA WakeStep ==
  ASSUME ~Restores, TypeOK, DependenciesFirst, ActiveInv, TransportInv, WakeParts, [Next]_vars
  PROVE  WakeParts'
<1>0. WakeParts => DependencyInv /\ WakeInv /\ NothingForgotten
  BY DEF WakeParts
<1> USE DEF TypeOK
<1>1. ASSUME NEW w \in Worker, ProcessUnit(w) PROVE WakeParts'
  <2>1. PICK page, candidates, toRead, toRun, failed, held :
          PassShape(page, candidates, toRead, toRun, failed, held)
    BY <1>1, PassFacts
  <2>2. permitted /\ permitted' /\ mismatch' = mismatch
    BY <1>1 DEF ProcessUnit
  <2> QED BY <2>1, <2>2, PassWakes
<1>2. ASSUME NEW w \in Worker, ProcessForbidden(w) PROVE WakeParts'
  <2>1. ~permitted' /\ DependencyInv' /\ WakeInv'
    BY <1>2 DEF ProcessForbidden, DependencyInv, WakeInv
  <2>2. ASSUME NEW s \in Step, Waiting(s)', ~unitMessage' PROVE FALSE
    <3>1. message[s] = "none" /\ status[s] = "PENDING"
      BY <1>2, <2>2 DEF ProcessForbidden, Waiting
    <3> DEFINE candidates(spared) == {t \in Step : status[t] = "PENDING" \/ Active(t)} \ spared
    <3>2. PICK spared, page :
            /\ spared \subseteq {t \in Step : message[t] # "none"}
            /\ status' = [t \in Step |-> IF t \in page THEN "FAILED" ELSE status[t]]
            /\ unitMessage' = (page # candidates(spared))
      BY <1>2 DEF ProcessForbidden, Requeue
    <3>3. s \in candidates(spared)
      BY <3>1, <3>2
    <3>4. page = candidates(spared)
      BY <2>2, <3>2
    <3> QED BY <2>2, <3>2, <3>3, <3>4 DEF Waiting
  <2> QED BY <2>1, <2>2 DEF WakeParts, NothingForgotten, Outstanding
<1>3. CASE \/ \E w \in Worker : FinalizeCheck(w) \/ FinalizeView(w) \/ FinalizeStore(w)
                                \/ CrashBeforeFinal(w)
           \/ ExpansionEnds \/ UNCHANGED vars
  <2>1. UNCHANGED <<stepVars, unitMessage, permitted>>
    BY <1>3 DEF FinalizeCheck, FinalizeView, FinalizeStore, CrashBeforeFinal,
       ExpansionEnds, vars
  <2> QED BY <2>1 DEF stepVars, WakeParts, DependencyInv, WakeInv, NothingForgotten,
    Outstanding,
                      Waiting, Recoverable, Ready, Doomed, Preceded, GroupReady, GroupFailed,
                      GroupsOf, Parent
<1>4. CASE PermissionChanges
  <2>1. UNCHANGED <<stepVars, unitMessage>> /\ ~permitted'
    BY <1>4 DEF PermissionChanges
  <2> QED BY <2>1 DEF stepVars, WakeParts, DependencyInv, WakeInv, NothingForgotten,
    Outstanding,
                      Waiting, Ready, Doomed, Preceded, GroupReady, GroupFailed,
                      GroupsOf, Parent
<1>5. ASSUME NEW s \in Step, TimePasses(s) PROVE WakeParts'
  <2>1. /\ UNCHANGED <<status, mismatch, failedBy, message, unitMessage, permitted>>
        /\ \A t \in Step : waits'[t] = "dependency" => waits[t] = "dependency"
    BY <1>5 DEF TimePasses
  <2> QED BY <1>0, <2>1 DEF WakeParts, DependencyInv, WakeInv, NothingForgotten,
    Outstanding,
                      Waiting, Recoverable, Ready, Doomed, Preceded, GroupReady, GroupFailed,
                      GroupsOf, Parent
<1>6. ASSUME NEW s \in Step, Retry(s) \/ Reconcile(s) PROVE WakeParts'
  <2>1. WakeUnit([waits EXCEPT ![s] = "no"]) /\ permitted' = permitted
    BY <1>6 DEF Retry, Reconcile
  <2> QED BY <1>0, <2>1, WakeKept
<1>7. ASSUME NEW w \in Worker, NEW s \in Step,
             FinishRead(w, s) \/ \E doubt \in BOOLEAN : FinishExecute(w, s, doubt)
      PROVE  WakeParts'
  <2>1. WakeUnit([waits EXCEPT ![s] = "no"]) /\ permitted' = permitted
    BY <1>7 DEF FinishRead, FinishExecute, Acknowledge
  <2> QED BY <1>0, <2>1, WakeKept
<1>8. ASSUME NEW w \in Worker, NEW m \in Material, NEW outcome \in {"SUCCEEDED", "FAILED"},
             MaterialResult(w, m, outcome)
      PROVE  WakeParts'
  <2>1. WakeUnit(waits) /\ permitted' = permitted
    BY <1>8 DEF MaterialResult
  <2> QED BY <1>0, <2>1, WakeKept
<1>9. ASSUME NEW s \in Step, StepNext(s) PROVE WakeParts'
  <2>1. message[s] # "none" /\ permitted' = permitted
    <3>1. CASE Start(s) \/ Refuse(s) \/ ReadRefused(s)
      BY <3>1 DEF Start, Refuse, ReadRefused
    <3>2. CASE \/ \E outcome \in Outcome : End(s, outcome)
               \/ \E differs \in BOOLEAN : ReadConfirmed(s, differs)
               \/ \E outcome \in {"final", "more"} : ReadInDoubt(s, outcome)
      BY <3>2 DEF End, ReadConfirmed, ReadInDoubt, ReadResult
    <3>3. CASE \E armed \in BOOLEAN : Expire(s, armed)
      BY <3>3 DEF Expire, ActiveInv, Active
    <3> QED BY <1>9, <3>1, <3>2, <3>3 DEF StepNext
  <2>2. message'[s] # "none" /\ \A t \in Step \ {s} : message'[t] = message[t]
    <3>1. CASE Start(s) \/ Refuse(s) \/ ReadRefused(s)
      BY <2>1, <3>1 DEF Start, Refuse, ReadRefused
    <3>2. CASE \/ \E outcome \in Outcome : End(s, outcome)
               \/ \E differs \in BOOLEAN : ReadConfirmed(s, differs)
               \/ \E outcome \in {"final", "more"} : ReadInDoubt(s, outcome)
      BY <2>1, <3>2 DEF End, ReadConfirmed, ReadInDoubt, ReadResult
    <3>3. CASE \E armed \in BOOLEAN : Expire(s, armed)
      BY <2>1, <3>3 DEF Expire, Queue
    <3> QED BY <1>9, <3>1, <3>2, <3>3 DEF StepNext
  <2>3. \A t \in Step : waits'[t] = "dependency" => waits[t] = "dependency"
    <3>1. CASE Start(s) \/ Refuse(s) \/ ReadRefused(s)
      BY <3>1 DEF Start, Refuse, ReadRefused
    <3>2. CASE \/ \E outcome \in Outcome : End(s, outcome)
               \/ \E differs \in BOOLEAN : ReadConfirmed(s, differs)
               \/ \E outcome \in {"final", "more"} : ReadInDoubt(s, outcome)
      BY <3>2 DEF End, ReadConfirmed, ReadInDoubt, ReadResult
    <3>3. CASE \E armed \in BOOLEAN : Expire(s, armed)
      BY <3>3 DEF Expire
    <3> QED BY <1>9, <3>1, <3>2, <3>3 DEF StepNext
  <2>4. permitted => \A t \in Step \ {s} : waits'[t] = "dependency" => status'[t] = status[t]
    <3>1. CASE Start(s) \/ Refuse(s) \/ ReadRefused(s)
      BY <3>1 DEF Start, Refuse, ReadRefused
    <3>2. ASSUME NEW outcome \in Outcome, End(s, outcome)
          PROVE  \A t \in Step \ {s} : status'[t] = status[t]
      BY <3>2 DEF End
    <3>3. ASSUME NEW differs \in BOOLEAN, ReadConfirmed(s, differs)
          PROVE  \A t \in Step \ {s} : status'[t] = status[t]
      <4>1. s \in Readback => ParentOf[s] \in Step /\ status[ParentOf[s]] = "SUCCEEDED"
        BY <2>1, GraphOK DEF DependenciesFirst, Ready, Preceded, Parent, Step, Created
      <4> QED BY <3>3, <4>1 DEF ReadConfirmed, ReadResult
    <3>4. ASSUME NEW outcome \in {"final", "more"}, ReadInDoubt(s, outcome)
          PROVE  \A t \in Step \ {s} : status'[t] = status[t]
      BY <3>4 DEF ReadInDoubt
    <3>5. ASSUME NEW armed \in BOOLEAN, Expire(s, armed)
          PROVE  \A t \in Step \ {s} : status'[t] = status[t]
      BY <3>5 DEF Expire
    <3> QED BY <1>9, <3>1, <3>2, <3>3, <3>4, <3>5 DEF StepNext
  <2>5. permitted => waits'[s] # "dependency"
    BY <1>0, <2>1, <2>3 DEF DependencyInv
  <2> QED BY <1>0, <2>1, <2>2, <2>3, <2>4, <2>5, StepKept
<1> QED BY <1>1, <1>2, <1>3, <1>4, <1>5, <1>6, <1>7, <1>8, <1>9 DEF Next, TaskNext

----------------------------------------------------------------------------
(* Theorems.                                                               *)

LEMMA InitLemma == Init => IInv
<1> SUFFICES ASSUME Init PROVE IInv
  OBVIOUS
<1> USE DEF Init
<1>1. TypeOK
  BY GraphOK DEF TypeOK, Status, Overall
<1>2. DependenciesFirst /\ MismatchInv /\ ActiveInv /\ TransportInv
  BY DEF DependenciesFirst, Dispatched, MismatchInv, ActiveInv, Active, TransportInv
<1>3. DependencyInv /\ WakeInv /\ NothingForgotten
  BY DEF DependencyInv, WakeInv, NothingForgotten, Outstanding
<1> QED BY <1>1, <1>2, <1>3 DEF IInv

\* Every transaction of the dispatcher keeps the types (the whole of dispatch.py).
THEOREM UnitTypeCorrect == Spec => []TypeOK
<1>1. Init => TypeOK
  BY InitLemma DEF IInv
<1> QED BY <1>1, TypeStep, PTL DEF Spec

\* A step is queued, executed or read only after all its dependencies have
\* succeeded, for every graph: process_unit, claim_step, recoveries and expired
\* leases together never get ahead of a dependency (DependenciesFirst).
THEOREM UnitDependenciesFirst == Spec => []DependenciesFirst
<1> DEFINE Inv == TypeOK /\ DependenciesFirst /\ MismatchInv
<1>1. Init => Inv
  BY InitLemma DEF IInv
<1>2. Inv /\ [Next]_vars => Inv'
  BY TypeStep, DependencyStep
<1> QED BY <1>1, <1>2, PTL DEF Spec

\* The inductive invariant of the dispatcher, where a permission once lost stays
\* lost: otherwise a step may be put off that nothing wakes.
THEOREM UnitInvariance == ASSUME ~Restores PROVE Spec => []IInv
<1>1. Init => IInv
  BY InitLemma
<1>2. IInv /\ [Next]_vars => IInv'
  <2> SUFFICES ASSUME IInv, [Next]_vars PROVE IInv'
    OBVIOUS
  <2>1. /\ TypeOK /\ DependenciesFirst /\ MismatchInv /\ ActiveInv /\ TransportInv
        /\ WakeParts
    BY DEF IInv, WakeParts
  <2>2. TypeOK' /\ DependenciesFirst' /\ MismatchInv'
    BY <2>1, TypeStep, DependencyStep
  <2>3. ActiveInv' /\ TransportInv'
    BY <2>1, ActiveStep
  <2>4. WakeParts'
    BY <2>1, WakeStep
  <2> QED BY <2>2, <2>3, <2>4 DEF IInv, WakeParts
<1> QED BY <1>1, <1>2, PTL DEF Spec

\* No wake-up is lost (NothingForgotten): for every graph, page limit and number
\* of tasks, an advanceable step always has an outstanding message of its unit
\* that process_unit or finish_delivery will consume.
THEOREM NothingIsForgotten == ASSUME ~Restores PROVE Spec => []NothingForgotten
<1>1. IInv => NothingForgotten
  BY DEF IInv
<1> QED BY <1>1, UnitInvariance, PTL

----------------------------------------------------------------------------
(* The stored status.                                                      *)

\* A status that may be stored now.
Fresh(v) == v = View \/ (~permitted /\ v = Aggregate)

Checks(w)   == finishing[w] \in {"quiet", "attention", "view"}
Carries(w)  == finishing[w] \in Overall

\* The row is locked by one task at most.
OneStores == \A u, w \in Worker : (finishing[u] = "view" \/ Carries(u))
                                  /\ (finishing[w] = "view" \/ Carries(w)) => u = w

\* Once all work is done, some task is still to look at the steps, or carries what they
\* imply, or has stored it.
StoredInv ==
  crashes = 0 /\ ~LateExpansion =>
    /\ expanded
    /\ ~Outstanding => \/ \E w \in Worker : Checks(w)
                       \/ \E w \in Worker : Carries(w) /\ Fresh(finishing[w])
                       \/ (\A w \in Worker : finishing[w] = "no") /\ Fresh(overall)

LEMMA ViewsStay == ASSUME UNCHANGED <<status, mismatch>> PROVE View' = View /\ Aggregate' = Aggregate
<1>1. Aggregate' = Aggregate
  BY DEF Aggregate
<1>2. \A s : ObjectFailed(s)' <=> ObjectFailed(s)
  BY DEF ObjectFailed, GroupFailed
<1> QED BY <1>1, <1>2 DEF View

LEMMA FinishingValues ==
  ASSUME TypeOK, NEW w \in Worker
  PROVE  /\ finishing[w] = "no" \/ Checks(w) \/ Carries(w)
         /\ ~(Checks(w) /\ Carries(w)) /\ (finishing[w] = "no" => ~Checks(w) /\ ~Carries(w))
BY DEF TypeOK, Checks, Carries, Overall

\* While something is outstanding nothing has to be stored yet.
LEMMA StoredLater ==
  ASSUME StoredInv, UNCHANGED expanded, crashes' = crashes, Outstanding'
  PROVE  StoredInv'
BY DEF StoredInv

\* A task that has changed the steps is still to look at them.
LEMMA StoredByLooking ==
  ASSUME StoredInv, UNCHANGED expanded, crashes' = crashes,
         NEW w \in Worker, finishing'[w] \in {"quiet", "attention"}
  PROVE  StoredInv'
BY DEF StoredInv, Checks

\* Nothing that the status depends on changes.
LEMMA StoredKept ==
  ASSUME StoredInv, UNCHANGED <<expanded, crashes, status, mismatch, overall, finishing>>,
         Outstanding => Outstanding', permitted' => permitted
  PROVE  StoredInv'
<1>1. \A v : Fresh(v) => Fresh(v)'
  BY ViewsStay DEF Fresh
<1> QED BY <1>1 DEF StoredInv, Checks, Carries

\* A pass over the unit tells its run whether the unit needs attention.
LEMMA PassFinishes ==
  ASSUME NEW w, ProcessUnit(w)
  PROVE  \E v \in {"quiet", "attention"} : finishing' = [finishing EXCEPT ![w] = v]
<1>1. PICK candidates, page, armed, late : Pass(w, candidates, page, armed, late)
  BY Zenon DEF ProcessUnit
<1>2. PICK v : /\ v = IF {s \in page : status[s] = "UNKNOWN"} \cup (armed \cap page) # {}
                      THEN "attention" ELSE "quiet"
               /\ finishing' = [finishing EXCEPT ![w] = v]
  BY <1>1, Zenon DEF Pass
<1>3. v \in {"quiet", "attention"}
  BY <1>2
<1> QED BY <1>2, <1>3

LEMMA OneStoresStep ==
  ASSUME TypeOK, OneStores, [Next]_vars
  PROVE  OneStores'
<1> DEFINE Lockers == {w \in Worker : finishing[w] = "view" \/ Carries(w)}
<1>1. ASSUME NEW w \in Worker,
             \A u \in Worker : u # w => finishing'[u] = finishing[u],
             finishing'[w] \in {"no", "quiet", "attention"} \/ w \in Lockers \/ ~Locked
      PROVE  OneStores'
  <2>1. \A u \in Worker : u # w /\ (finishing'[u] = "view" \/ Carries(u)') => u \in Lockers
    BY <1>1 DEF Carries
  <2>2. finishing'[w] \in {"no", "quiet", "attention"} => ~(finishing'[w] = "view" \/ Carries(w)')
    BY DEF Carries, Overall
  <2>3. \A u, v \in Lockers : u = v
    BY DEF OneStores
  <2>4. ~Locked => Lockers = {}
    BY DEF Locked, Carries
  <2> QED BY <1>1, <2>1, <2>2, <2>3, <2>4 DEF OneStores
<1> DEFINE Good(w) == /\ \A u \in Worker : u # w => finishing'[u] = finishing[u]
                      /\ \/ finishing'[w] \in {"no", "quiet", "attention"}
                         \/ w \in Lockers \/ ~Locked
<1>2. ASSUME NEW w \in Worker, TaskNext(w) PROVE Good(w)
  <2>1. ASSUME NEW v, finishing' = [finishing EXCEPT ![w] = v]
        PROVE  finishing'[w] = v /\ \A u \in Worker : u # w => finishing'[u] = finishing[u]
    BY <2>1 DEF TypeOK
  <2>2. CASE ProcessUnit(w)
    <3>1. \E v \in {"quiet", "attention"} : finishing' = [finishing EXCEPT ![w] = v]
      BY <2>2, PassFinishes
    <3> QED BY <2>1, <3>1
  <2>3. CASE ProcessForbidden(w)
    BY <2>1, <2>3 DEF ProcessForbidden
  <2>4. CASE FinalizeCheck(w)
    <3>1. ~Locked /\ \E v : finishing' = [finishing EXCEPT ![w] = v]
      BY <2>4, Zenon DEF FinalizeCheck
    <3> QED BY <2>1, <3>1
  <2>5. CASE FinalizeView(w)
    <3>1. finishing[w] = "view" /\ \E v : finishing' = [finishing EXCEPT ![w] = v]
      BY <2>5, Zenon DEF FinalizeView
    <3> QED BY <2>1, <3>1
  <2>6. CASE FinalizeStore(w) \/ CrashBeforeFinal(w)
    BY <2>1, <2>6 DEF FinalizeStore, CrashBeforeFinal
  <2>7. ASSUME NEW s \in Step, Acknowledge(w, s) PROVE Good(w)
    <3>1. \E v \in {"quiet", "attention"} : finishing' = [finishing EXCEPT ![w] = v]
      BY <2>7 DEF Acknowledge, Attention
    <3> QED BY <2>1, <3>1
  <2>8. CASE \E s \in Step : FinishRead(w, s) \/ \E doubt \in BOOLEAN : FinishExecute(w, s, doubt)
    BY <2>7, <2>8, Zenon DEF FinishRead, FinishExecute
  <2>9. CASE \E m \in Material, outcome \in {"SUCCEEDED", "FAILED"} : MaterialResult(w, m, outcome)
    <3>1. finishing' = [finishing EXCEPT ![w] = "quiet"]
      BY <2>9, Zenon DEF MaterialResult
    <3> QED BY <2>1, <3>1
  <2> HIDE DEF Good
  <2> QED BY <1>2, <2>2, <2>3, <2>4, <2>5, <2>6, <2>8, <2>9, Zenon DEF TaskNext
<1>3. ASSUME finishing' = finishing PROVE OneStores'
  BY <1>3 DEF OneStores, Carries
<1>4. ASSUME NEW s \in Step, StepNext(s) \/ TimePasses(s) \/ Retry(s) \/ Reconcile(s)
      PROVE  finishing' = finishing
  BY <1>4, Zenon DEF StepNext, Start, Refuse, ReadRefused, End, ReadConfirmed, ReadInDoubt,
                     ReadResult, Expire, TimePasses, Retry, Reconcile
<1>5. CASE ExpansionEnds \/ PermissionChanges \/ UNCHANGED vars
  BY <1>3, <1>5, Zenon DEF ExpansionEnds, PermissionChanges, vars
<1> QED BY <1>1, <1>2, <1>3, <1>4, <1>5, Zenon DEF Next

LEMMA StoredByTask ==
  ASSUME TypeOK, ActiveInv, OneStores, StoredInv, NEW w \in Worker, TaskNext(w)
  PROVE  StoredInv'
<1>1. ASSUME NEW v, finishing' = [finishing EXCEPT ![w] = v]
      PROVE  finishing'[w] = v /\ \A u \in Worker : u # w => finishing'[u] = finishing[u]
  BY <1>1 DEF TypeOK
<1>2. CASE ProcessUnit(w)
  <2>1. \E v \in {"quiet", "attention"} : finishing' = [finishing EXCEPT ![w] = v]
    BY <1>2, PassFinishes
  <2>2. UNCHANGED <<expanded, crashes>>
    BY <1>2, Zenon DEF ProcessUnit
  <2> QED BY <1>1, <2>1, <2>2, StoredByLooking
<1>3. CASE ProcessForbidden(w)
  <2>1. finishing' = [finishing EXCEPT ![w] = "quiet"] /\ UNCHANGED <<expanded, crashes>>
    BY <1>3, Zenon DEF ProcessForbidden
  <2> QED BY <1>1, <2>1, StoredByLooking
<1>4. CASE \E s \in Step : FinishRead(w, s) \/ \E doubt \in BOOLEAN : FinishExecute(w, s, doubt)
  <2>1. unitMessage' = TRUE /\ UNCHANGED <<expanded, crashes>>
    BY <1>4, Zenon DEF FinishRead, FinishExecute, Acknowledge, WakeUnit
  <2> QED BY <2>1, StoredLater DEF Outstanding
<1>5. CASE \E m \in Material, outcome \in {"SUCCEEDED", "FAILED"} : MaterialResult(w, m, outcome)
  <2>1. unitMessage' = TRUE /\ UNCHANGED <<expanded, crashes>>
    BY <1>5, Zenon DEF MaterialResult, WakeUnit
  <2> QED BY <2>1, StoredLater DEF Outstanding
<1>6. CASE CrashBeforeFinal(w)
  <2>1. crashes' = crashes + 1 /\ crashes \in Nat
    BY <1>6, GraphOK DEF CrashBeforeFinal, TypeOK
  <2> QED BY <2>1 DEF StoredInv
<1>7. ASSUME UNCHANGED <<stepVars, unitMessage, permitted>>
      PROVE  /\ Outstanding' <=> Outstanding
             /\ SomeStepActive' <=> SomeStepActive
             /\ \A v : Fresh(v)' <=> Fresh(v)
  BY <1>7, ViewsStay DEF stepVars, Outstanding, SomeStepActive, Active, Fresh
<1>8. SomeStepActive => Outstanding
  BY DEF SomeStepActive, ActiveInv, Outstanding
<1>9. CASE FinalizeCheck(w)
  <2>1. UNCHANGED <<stepVars, unitMessage, expanded, permitted, crashes>>
    BY <1>9, Zenon DEF FinalizeCheck
  <2>2. CASE expanded /\ ~unitMessage /\ ~SomeStepActive
    <3>1. finishing' = [finishing EXCEPT ![w] = "view"]
      BY <1>9, <2>2, Zenon DEF FinalizeCheck
    <3>2. Checks(w)'
      BY <1>1, <3>1 DEF Checks
    <3> QED BY <2>1, <3>2 DEF StoredInv
  <2>3. CASE ~(expanded /\ ~unitMessage /\ ~SomeStepActive)
    <3>1. expanded => Outstanding
      BY <1>8, <2>3 DEF Outstanding
    <3> QED BY <1>7, <2>1, <3>1 DEF StoredInv
  <2> QED BY <2>2, <2>3
<1>10. CASE FinalizeView(w)
  <2>1. UNCHANGED <<stepVars, unitMessage, overall, expanded, permitted, crashes>>
    BY <1>10, Zenon DEF FinalizeView
  <2>2. PICK view \in {View} \cup (IF permitted THEN {} ELSE {Aggregate}) :
          finishing' = [finishing EXCEPT ![w] = view]
    BY <1>10, Zenon DEF FinalizeView
  <2>3. Fresh(view) /\ view \in Overall
    BY <2>2, ViewType DEF Fresh
  <2>4. Carries(w)' /\ Fresh(finishing[w])'
    BY <1>1, <1>7, <2>1, <2>2, <2>3 DEF Carries, Fresh
  <2> QED BY <2>1, <2>4 DEF StoredInv
<1>11. CASE FinalizeStore(w)
  <2>1. /\ UNCHANGED <<stepVars, unitMessage, expanded, permitted, crashes>>
        /\ overall' = finishing[w] /\ finishing' = [finishing EXCEPT ![w] = "no"] /\ Carries(w)
    BY <1>11, Zenon DEF FinalizeStore, Carries
  <2>2. finishing'[w] = "no" /\ \A u \in Worker : u # w => finishing'[u] = finishing[u]
    BY <1>1, <2>1
  <2>3. \A u \in Worker : u # w => finishing[u] \in {"no", "quiet", "attention"}
    BY <2>1, FinishingValues DEF OneStores, Checks
  <2>4. SUFFICES ASSUME crashes = 0, ~LateExpansion, ~Outstanding,
                        \A u \in Worker : ~Checks(u)'
                 PROVE  (\A u \in Worker : finishing'[u] = "no") /\ Fresh(overall)'
    BY <1>7, <2>1 DEF StoredInv
  <2>5. \A u \in Worker : finishing'[u] = "no"
    BY <2>2, <2>3, <2>4 DEF Checks
  <2>6. \A u \in Worker : ~Checks(u)
    BY <2>1, <2>2, <2>4, FinishingValues DEF Checks
  <2>7. Fresh(finishing[w])
    BY <2>1, <2>4, <2>6, FinishingValues DEF StoredInv, OneStores
  <2> QED BY <1>7, <2>1, <2>5, <2>7 DEF Fresh
<1> QED BY <1>2, <1>3, <1>4, <1>5, <1>6, <1>9, <1>10, <1>11, Zenon DEF TaskNext

LEMMA StoredStep ==
  ASSUME ~Restores, TypeOK, ActiveInv, OneStores, StoredInv, [Next]_vars
  PROVE  StoredInv'
<1>1. ASSUME NEW s \in Step, StepNext(s) PROVE StoredInv'
  <2>1. message[s] # "none" /\ UNCHANGED <<expanded, crashes>>
    BY <1>1 DEF StepNext, Start, Refuse, ReadRefused, End, ReadConfirmed, ReadInDoubt,
       ReadResult,
                Expire, ActiveInv, Active
  <2>2. CASE \E armed \in BOOLEAN : Expire(s, armed)
    <3>1. message'[s] # "none"
      BY <2>1, <2>2 DEF Expire, Queue, Step
    <3> QED BY <2>1, <3>1, StoredLater DEF Outstanding
  <2>3. CASE ~\E armed \in BOOLEAN : Expire(s, armed)
    <3>1. message' = message
      BY <1>1, <2>3, Zenon DEF StepNext, Start, Refuse, ReadRefused, End, ReadConfirmed,
                               ReadInDoubt, ReadResult
    <3> QED BY <2>1, <3>1, StoredLater DEF Outstanding
  <2> QED BY <2>2, <2>3
<1>2. ASSUME NEW s \in Step, Retry(s) \/ Reconcile(s) PROVE StoredInv'
  <2>1. unitMessage' = TRUE /\ UNCHANGED <<expanded, crashes>>
    BY <1>2, Zenon DEF Retry, Reconcile, WakeUnit
  <2> QED BY <2>1, StoredLater DEF Outstanding
<1>3. ASSUME UNCHANGED <<expanded, crashes, status, mismatch, message, unitMessage, overall,
                         finishing>>,
             permitted' => permitted
      PROVE  StoredInv'
  BY <1>3, StoredKept DEF Outstanding
<1>4. ASSUME NEW s \in Step, TimePasses(s) PROVE StoredInv'
  BY <1>3, <1>4, Zenon DEF TimePasses
<1>5. CASE ExpansionEnds
  BY <1>5 DEF ExpansionEnds, StoredInv
<1>6. CASE PermissionChanges
  BY <1>3, <1>6, Zenon DEF PermissionChanges, stepVars
<1>7. CASE UNCHANGED vars
  BY <1>3, <1>7, Zenon DEF vars, stepVars
<1> QED BY <1>1, <1>2, <1>4, <1>5, <1>6, <1>7, StoredByTask, Zenon DEF Next

\* Once all work is done the stored status is what the steps imply, however many tasks
\* finalized the submission at once (finalize_submission); a permission that is given back
\* changes what they imply for its reader, and is excluded.
THEOREM StatusBecomesCurrent == ASSUME ~Restores PROVE Spec => []StatusIsCurrent
<1>1. Init => OneStores /\ StoredInv
  BY DEF Init, OneStores, Carries, Overall, StoredInv, Outstanding
<1>2. IInv /\ OneStores /\ StoredInv /\ [Next]_vars => OneStores' /\ StoredInv'
  BY OneStoresStep, StoredStep DEF IInv
<1>3. OneStores /\ StoredInv => StatusIsCurrent
  BY DEF StoredInv, StatusIsCurrent, Settled, Checks, Carries, Overall, Fresh
<1> QED BY <1>1, <1>2, <1>3, UnitInvariance, PTL DEF Spec
=============================================================================
