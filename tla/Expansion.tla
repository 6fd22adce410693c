----------------------------- MODULE Expansion -----------------------------
(***************************************************************************)
(* Acceptance of frozen previews and their expansion into units and steps. *)
(*                                                                         *)
(* submit_preview accepts a preview of a draft at most once, whatever      *)
(* requests repeat it.  process_submission then writes the submission's    *)
(* units and their steps in pages, one transaction each, under the row     *)
(* lock of the submission; it stops, and resumes, after any of them.       *)
(*                                                                         *)
(* All previews here are frozen previews of one draft of one tenant, and   *)
(* all requests come from one operator.                                    *)
(***************************************************************************)
EXTENDS Naturals, FiniteSets

CONSTANTS Preview, Unit, Pair, Key, Request, Worker,
          None,
          PreviewOf,       \* the preview a frozen unit belongs to
          PairOf,          \* its drama and account
          Eligible,        \* units that are complete and READY or PREPARING
          UnitRank,        \* order of the identities of units
          Blueprint,       \* step keys that a unit is made of
          KeyRank,         \* order of step keys: priority, then the key
          EndRank,         \* a number after all of these
          ParentKey,       \* the key of a step's parent
          RevisionOf,      \* the draft's revision that a preview froze
          Limit,           \* work items of one page (100)
          MaxEdits,        \* bound: edits of the draft
          MaxYields,       \* bound: generations of a submission's delivery
          MaxFaults        \* bound: messages lost or repeated, workers killed

ASSUME ExpansionOK ==
  /\ PreviewOf \in [Unit -> Preview] /\ PairOf \in [Unit -> Pair]
  /\ \A u, v \in Unit : PreviewOf[u] = PreviewOf[v] /\ PairOf[u] = PairOf[v] => u = v
  /\ Eligible \subseteq Unit
  /\ UnitRank \in [Unit -> Nat \ {0}]
  /\ \A u, v \in Unit : UnitRank[u] = UnitRank[v] => u = v
  /\ Blueprint \in [Unit -> SUBSET Key]
  /\ KeyRank \in [Key -> Nat \ {0}]
  /\ \A k, l \in Key : KeyRank[k] = KeyRank[l] => k = l
  /\ EndRank \in Nat \ {0} /\ \A k \in Key : KeyRank[k] < EndRank
  /\ ParentKey \in [Key -> Key \cup {None}]
  /\ \A u \in Unit, k \in Key : k \in Blueprint[u] /\ ParentKey[k] # None =>
       ParentKey[k] \in Blueprint[u] /\ KeyRank[ParentKey[k]] < KeyRank[k]
  /\ RevisionOf \in [Preview -> Nat]
  /\ IsFiniteSet(Unit) /\ IsFiniteSet(Key) /\ IsFiniteSet(Preview)
  /\ None \notin Preview \cup Unit \cup Key
  /\ Limit \in Nat \ {0}
  /\ MaxEdits \in Nat /\ MaxYields \in Nat /\ MaxFaults \in Nat

VARIABLES
  \* build_draft, build_submission (one per preview), submission_request
  revision,
  ordinal,       \* 0: the preview has not been submitted
  expanded,
  after,         \* progress: units up to the last one that got a row
  generation,    \* dispatch_revision
  alias,         \* the preview that a request is bound to
  \* submission_unit, execution_step, draft_unit_reservation
  disposition,
  closed,        \* submission_unit.expanded
  steps,
  reserved,
  started,       \* units whose first message has been queued
  \* tasks and messages
  call,          \* requests in progress: they hold the request's advisory lock
  outbox,        \* unpublished rows, as <<preview, generation>>
  wire,          \* published messages
  task,          \* the message a worker is processing
  permitted,     \* the operator may build
  edits, faults

submissionVars == <<ordinal, expanded, after, generation>>
unitVars == <<disposition, closed, steps, reserved, started>>
taskVars == <<outbox, wire, task>>
vars == <<revision, submissionVars, alias, unitVars, call, taskVars, permitted, edits, faults>>

Message == Preview \X (0..MaxYields)

TypeOK ==
  /\ revision \in Nat
  /\ ordinal \in [Preview -> Nat] /\ expanded \subseteq Preview
  /\ after \subseteq Unit /\ generation \in [Preview -> 0..MaxYields]
  /\ alias \in [Request -> Preview \cup {None}]
  /\ call \in [Request -> Preview \cup {None}]
  /\ disposition \in [Unit -> {"none", "INCLUDED", "EXCLUDED"}]
  /\ closed \subseteq Unit /\ started \subseteq Unit
  /\ steps \in [Unit -> SUBSET Key]
  /\ reserved \in [Pair -> Unit \cup {None}]
  /\ outbox \subseteq Message /\ wire \subseteq Message
  /\ task \in [Worker -> Message \cup {None}]
  /\ permitted \in BOOLEAN
  /\ edits \in 0..MaxEdits /\ faults \in 0..MaxFaults

Init ==
  /\ revision = 1
  /\ ordinal = [p \in Preview |-> 0] /\ expanded = {}
  /\ after = {} /\ generation = [p \in Preview |-> 0]
  /\ alias = [r \in Request |-> None] /\ call = [r \in Request |-> None]
  /\ disposition = [u \in Unit |-> "none"]
  /\ closed = {} /\ started = {}
  /\ steps = [u \in Unit |-> {}]
  /\ reserved = [x \in Pair |-> None]
  /\ outbox = {} /\ wire = {} /\ task = [w \in Worker |-> None]
  /\ permitted = TRUE /\ edits = 0 /\ faults = 0

----------------------------------------------------------------------------
(* Acceptance: submit_preview.                                             *)

UnitsOf(p) == {u \in Unit : PreviewOf[u] = p}

Submitted(p) == ordinal[p] # 0

\* Mutant: only a reservation covers a pair, which the older submission may not
\* have made yet.
Covered_Reserved(u, number) == reserved[PairOf[u]] # None

\* Mutant: a submission's own units cover their pairs.
Covered_Own(u, number) ==
  \E v \in Eligible : PairOf[v] = PairOf[u] /\ ordinal[PreviewOf[v]] \in 1..number

\* COVERED: an earlier submission has an eligible unit for the same drama and
\* account, whether or not it has been expanded.
Covered(u, number) ==
  \E v \in Eligible : /\ PairOf[v] = PairOf[u]
                      /\ ordinal[PreviewOf[v]] \in 1..(number - 1)

\* max(ordinal) + 1
NextOrdinals ==
  {n \in {ordinal[p] + 1 : p \in Preview} : \A p \in Preview : ordinal[p] < n}

\* Mutant: a preview with any eligible unit is accepted.
Remaining_Any(p, number) == UnitsOf(p) \cap Eligible

\* Eligible units that no earlier submission covers.
Remaining(p, number) == {u \in UnitsOf(p) \cap Eligible : ~Covered(u, number)}

\* The request takes its advisory lock and finds no receipt.  (A request that is
\* bound already is answered with its receipt, or refused for another preview:
\* neither changes anything.)
Ask(r, p) ==
  /\ permitted
  /\ call[r] = None /\ alias[r] = None
  /\ call' = [call EXCEPT ![r] = p]
  /\ UNCHANGED <<revision, submissionVars, alias, unitVars, taskVars, permitted, edits, faults>>

\* Under the draft's lock the preview turns out to be submitted already: the
\* request is bound to that submission.
Repeat(r) ==
  /\ call[r] # None /\ Submitted(call[r])
  /\ alias' = [alias EXCEPT ![r] = call[r]]
  /\ call' = [call EXCEPT ![r] = None]
  /\ UNCHANGED <<revision, submissionVars, unitVars, taskVars, permitted, edits, faults>>

\* A new submission is written, and its expansion queued.
Accept(r) ==
  /\ call[r] # None /\ ~Submitted(call[r])
  /\ revision = RevisionOf[call[r]]
  /\ \E number \in NextOrdinals :
       /\ Remaining(call[r], number) # {}
       /\ ordinal' = [ordinal EXCEPT ![call[r]] = number]
  /\ alias' = [alias EXCEPT ![r] = call[r]]
  /\ outbox' = outbox \cup {<<call[r], generation[call[r]]>>}
  /\ call' = [call EXCEPT ![r] = None]
  /\ UNCHANGED <<revision, expanded, after, generation, unitVars, wire, task, permitted,
                 edits, faults>>

\* The draft was edited, nothing is left to submit, or the route is lost.
Refuse(r) ==
  /\ call[r] # None /\ ~Submitted(call[r])
  /\ call' = [call EXCEPT ![r] = None]
  /\ UNCHANGED <<revision, submissionVars, alias, unitVars, taskVars, permitted, edits, faults>>

----------------------------------------------------------------------------
(* Expansion: a page of expand_submission.                                 *)

\* A unit without a row will be included, or its row says so.
Includes(u) ==
  IF disposition[u] = "none"
  THEN u \in Eligible /\ ~Covered(u, ordinal[PreviewOf[u]])
  ELSE disposition[u] = "INCLUDED"

\* Work items: the row of a unit after the cursor (0), a step that does not
\* exist yet (its rank), and the end of an included unit (EndRank).
Pending(item) ==
  LET u == item[1]
      n == item[2]
  IN \/ n = 0 /\ u \notin after
     \/ /\ Includes(u) /\ u \notin closed
        /\ n = EndRank \/ \E k \in Blueprint[u] \ steps[u] : n = KeyRank[k]

Items(p) == {item \in UnitsOf(p) \X (0..EndRank) : Pending(item)}

\* Mutant: steps are written in the reverse order.
Before_Reversed(i, j) ==
  \/ UnitRank[i[1]] < UnitRank[j[1]]
  \/ /\ i[1] = j[1] /\ i[2] # j[2]
     /\ i[2] = 0 \/ j[2] = EndRank \/ (j[2] # 0 /\ i[2] \in (j[2] + 1)..(EndRank - 1))

\* One unit after the other, and each from its row to its end.
Before(i, j) == UnitRank[i[1]] < UnitRank[j[1]] \/ (i[1] = j[1] /\ i[2] < j[2])

\* The first Limit items.
Page(p) == {i \in Items(p) : Cardinality({j \in Items(p) : Before(j, i)}) < Limit}

\* progress.after: the last unit that got a row, and all before it.
Cursor(p, rows) ==
  after \cup {u \in UnitsOf(p) : \E v \in rows : UnitRank[u] <= UnitRank[v]}

\* Mutant: the expansion is over when every unit has a row.
Exhausted_Rows(p) == UnitsOf(p) \subseteq after

\* The loop found nothing more to do before the page was full.
Exhausted(p) == Cardinality(Items(p)) < Limit

\* One page, in a transaction under the submission's row lock.
ExpandPage(p) ==
  LET page == Page(p)
      rows == {u \in Unit : <<u, 0>> \in page}
      news == {u \in rows : Includes(u)}
      ends == {u \in Unit : <<u, EndRank>> \in page}
  IN /\ \A u \in news : reserved[PairOf[u]] = None
     /\ disposition' = [u \in Unit |-> IF u \in news THEN "INCLUDED"
                                       ELSE IF u \in rows THEN "EXCLUDED" ELSE disposition[u]]
     /\ reserved' = [x \in Pair |-> IF \E u \in news : PairOf[u] = x
                                    THEN CHOOSE u \in news : PairOf[u] = x ELSE reserved[x]]
     /\ steps' = [u \in Unit |-> steps[u] \cup {k \in Key : <<u, KeyRank[k]>> \in page}]
     /\ closed' = closed \cup ends \cup (rows \ news)
     /\ started' = started \cup ends
     /\ after' = Cursor(p, rows)
     /\ expanded' = IF Exhausted(p) THEN expanded \cup {p} ELSE expanded

\* The message is the submission's current delivery.
Current(message) == message[1] \notin expanded /\ message[2] = generation[message[1]]

\* process_submission goes on with the next page, or has finished.
Expand(w) ==
  /\ task[w] # None /\ Current(task[w]) /\ permitted
  /\ ExpandPage(task[w][1])
  /\ task' = IF Exhausted(task[w][1]) THEN [task EXCEPT ![w] = None] ELSE task
  /\ UNCHANGED <<revision, ordinal, generation, alias, call, outbox, wire, permitted, edits, faults>>

\* A new generation of the delivery is queued.
Yields(p) == outbox' = outbox \cup {<<p, generation[p] + 1>>}

\* The same, and other tenants wait or the time is up: it yields to them.
ExpandAndYield(w) ==
  /\ task[w] # None /\ Current(task[w]) /\ permitted
  /\ LET p == task[w][1] IN
     /\ ~Exhausted(p)
     /\ ExpandPage(p)
     /\ generation[p] < MaxYields
     /\ generation' = [generation EXCEPT ![p] = @ + 1]
     /\ Yields(p)
  /\ task' = [task EXCEPT ![w] = None]
  /\ UNCHANGED <<revision, ordinal, alias, call, wire, permitted, edits, faults>>

\* The message is obsolete, its row has been postponed, or expand_submission
\* refuses, which leaves the generation to repair_submissions.
Drop(w) ==
  /\ task[w] # None
  /\ ~Current(task[w]) \/ task[w] \in outbox \/ ~permitted
  /\ task' = [task EXCEPT ![w] = None]
  /\ UNCHANGED <<revision, submissionVars, alias, unitVars, call, outbox, wire, permitted,
                 edits, faults>>

----------------------------------------------------------------------------
(* Deliveries.                                                             *)

\* The outbox publishes a row.
Publish(message) ==
  /\ message \in outbox
  /\ outbox' = outbox \ {message}
  /\ wire' = wire \cup {message}
  /\ UNCHANGED <<revision, submissionVars, alias, unitVars, call, task, permitted, edits, faults>>

Deliver(w, message) ==
  /\ task[w] = None /\ message \in wire
  /\ task' = [task EXCEPT ![w] = message]
  /\ wire' = wire \ {message}
  /\ UNCHANGED <<revision, submissionVars, alias, unitVars, call, outbox, permitted, edits, faults>>

\* The broker delivers the message and keeps it.
Redeliver(w, message) ==
  /\ task[w] = None /\ message \in wire /\ faults < MaxFaults
  /\ faults' = faults + 1
  /\ task' = [task EXCEPT ![w] = message]
  /\ UNCHANGED <<revision, submissionVars, alias, unitVars, call, outbox, wire, permitted, edits>>

Lose(message) ==
  /\ message \in wire /\ faults < MaxFaults
  /\ faults' = faults + 1
  /\ wire' = wire \ {message}
  /\ UNCHANGED <<revision, submissionVars, alias, unitVars, call, outbox, task, permitted, edits>>

\* A worker is killed between two pages, or in one, which is rolled back; the
\* message was not acknowledged.
Kill(w) ==
  /\ task[w] # None /\ faults < MaxFaults
  /\ faults' = faults + 1
  /\ task' = [task EXCEPT ![w] = None]
  /\ wire' = wire \cup {task[w]}
  /\ UNCHANGED <<revision, submissionVars, alias, unitVars, call, outbox, permitted, edits>>

\* Mutant: a published row counts as delivered.
Republished_Never(p) == FALSE

\* The current row has been published: it is published again.
Republished(p) == /\ <<p, generation[p]>> \notin outbox
                  /\ outbox' = outbox \cup {<<p, generation[p]>>}

\* repair_submissions after repair_after.
Repair(p) ==
  /\ Submitted(p) /\ p \notin expanded
  /\ Republished(p)
  /\ UNCHANGED <<revision, submissionVars, alias, unitVars, call, wire, task, permitted, edits, faults>>

----------------------------------------------------------------------------
(* Environment.                                                            *)

EditDraft ==
  /\ edits < MaxEdits
  /\ edits' = edits + 1 /\ revision' = revision + 1
  /\ UNCHANGED <<submissionVars, alias, unitVars, call, taskVars, permitted, faults>>

\* The permission, or the capability of the frozen route, is lost or restored.
PermissionChanges ==
  /\ permitted' = ~permitted
  /\ UNCHANGED <<revision, submissionVars, alias, unitVars, call, taskVars, edits, faults>>

----------------------------------------------------------------------------
RequestNext(r) == (\E p \in Preview : Ask(r, p)) \/ Repeat(r) \/ Accept(r) \/ Refuse(r)

WorkerNext(w) ==
  \/ Expand(w) \/ ExpandAndYield(w) \/ Drop(w) \/ Kill(w)
  \/ \E message \in wire : Deliver(w, message) \/ Redeliver(w, message)

Next ==
  \/ \E r \in Request : RequestNext(r)
  \/ \E w \in Worker : WorkerNext(w)
  \/ \E message \in outbox : Publish(message)
  \/ \E message \in wire : Lose(message)
  \/ \E p \in Preview : Repair(p)
  \/ EditDraft \/ PermissionChanges

Spec == Init /\ [][Next]_vars

\* Rounds of the outbox publish every row (Outbox), the broker delivers what is
\* not lost, and repair runs periodically.  A row is not postponed whenever its
\* message is processed: that takes a refusal of the broker since the message was
\* sent.  Nothing is assumed of requests, edits and permissions.
Fairness ==
  /\ \A message \in Message :
       /\ WF_vars(Publish(message))
       /\ SF_vars(\E w \in Worker : Deliver(w, message))
  /\ \A w \in Worker : WF_vars(Drop(w)) /\ SF_vars(Expand(w) \/ ExpandAndYield(w))
  /\ \A p \in Preview : WF_vars(Repair(p))

----------------------------------------------------------------------------
(* Properties.                                                             *)

Included(u) == disposition[u] = "INCLUDED"

(* The inductive invariant behind the safety properties, in named parts.   *)

\* No two submissions of the draft have the same number.
OrdinalInv == \A p, q \in Preview : Submitted(p) /\ ordinal[p] = ordinal[q] => p = q

\* The units up to the cursor have rows, as COVERED decided: an earlier
\* submission that covers a pair was there when the later one was numbered.
RowInv ==
  \A u \in Unit :
    /\ disposition[u] # "none" <=> u \in after
    /\ u \in after => Submitted(PreviewOf[u])
    /\ Included(u) => u \in Eligible /\ ~Covered(u, ordinal[PreviewOf[u]])
    /\ u \in after /\ ~Included(u) =>
         u \notin Eligible \/ Covered(u, ordinal[PreviewOf[u]])
    /\ \A v \in UnitsOf(PreviewOf[u]) :
         u \in after /\ UnitRank[v] <= UnitRank[u] => v \in after

\* The end of an included unit comes after its steps, and queues it.
UnitInv ==
  \A u \in Unit :
    /\ steps[u] \subseteq Blueprint[u]
    /\ \A k \in steps[u] : ParentKey[k] # None => ParentKey[k] \in steps[u]
    /\ u \in started => Included(u) /\ u \in closed /\ steps[u] = Blueprint[u]
    /\ u \in closed /\ Included(u) => u \in started
    /\ u \in closed => u \in after

\* An expanded submission has no work left, an accepted one has some to do.
EndInv ==
  /\ \A p \in expanded : Submitted(p) /\ Items(p) = {}
  /\ \A p \in Preview : Submitted(p) => Remaining(p, ordinal[p]) # {}

\* Of the units for a pair, one is covered by no other, in no later submission.
FirstInv ==
  \A u \in Eligible : Submitted(PreviewOf[u]) =>
    \E v \in Eligible : /\ PairOf[v] = PairOf[u]
                        /\ ordinal[PreviewOf[v]] \in 1..ordinal[PreviewOf[u]]
                        /\ ~Covered(v, ordinal[PreviewOf[v]])

\* The reservations are those of the included units.
ReservationInv ==
  \A x \in Pair, u \in Unit : reserved[x] = u <=> Included(u) /\ PairOf[u] = x

\* Only submissions have deliveries.
DeliveryInv ==
  /\ \A message \in outbox \cup wire : Submitted(message[1])
  /\ \A w \in Worker : task[w] # None => Submitted(task[w][1])

IInv == /\ TypeOK /\ OrdinalInv /\ RowInv /\ UnitInv /\ EndInv /\ FirstInv
        /\ ReservationInv /\ DeliveryInv

\* A drama is built on an account once: of all units of a draft's submissions for
\* one pair, the one of the earliest submission is included and no other,
\* although later submissions may expand before it (COVERED and the reservation).
EarliestIsIncluded ==
  \A u, v \in Unit :
    Included(u) /\ v \in Eligible /\ PairOf[u] = PairOf[v] /\ Submitted(PreviewOf[v]) =>
      /\ ordinal[PreviewOf[u]] <= ordinal[PreviewOf[v]]
      /\ Included(v) => u = v

\* "A later task cannot steal an older one" (COVERED), and none is left out: when
\* a submission is expanded, each of its eligible units is included in it, or
\* in an earlier submission as soon as that one is expanded.
NothingIsLeftOut ==
  \A u \in Eligible : PreviewOf[u] \in expanded =>
    \E v \in Eligible :
      /\ PairOf[v] = PairOf[u]
      /\ ordinal[PreviewOf[v]] \in 1..ordinal[PreviewOf[u]]
      /\ Included(v) \/ PreviewOf[v] \notin expanded

\* A submission that was accepted builds something (submit_preview refuses a
\* preview of which nothing is left, before its units are looked at again by
\* another transaction).
NoEmptySubmission ==
  \A p \in expanded : \E u \in UnitsOf(p) : Included(u)

\* A unit's execution starts when all its steps exist, and a step exists only
\* with its parent, whichever pages they were written in.
UnitsAreWhole ==
  /\ \A u \in started : Included(u) /\ steps[u] = Blueprint[u]
  /\ \A u \in Unit : \A k \in steps[u] : ParentKey[k] # None => ParentKey[k] \in steps[u]

\* An expanded submission has decided on every frozen unit, and all units it
\* includes have been started.
ExpandedIsComplete ==
  \A p \in expanded : \A u \in UnitsOf(p) :
    disposition[u] # "none" /\ (Included(u) => u \in started)

\* An accepted submission is expanded in the end, whatever is lost, repeated or
\* killed in between, unless the operator keeps losing the permission.
AcceptedIsExpanded ==
  <>[]permitted => \A p \in Preview : Submitted(p) ~> p \in expanded
=============================================================================
