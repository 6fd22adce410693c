------------------------------- MODULE Outbox -------------------------------
(***************************************************************************)
(* The transactional outbox: rows of pending_dispatch written by business  *)
(* transactions, and rounds of flush_dispatch that publish them to the     *)
(* broker, fairly between tenants.                                         *)
(*                                                                         *)
(* A round is one transaction: its updates and its row locks last until it *)
(* commits, while what it sends to the broker leaves at once.  Every       *)
(* statement of a round sees what is committed, and the round's own        *)
(* updates.                                                                *)
(***************************************************************************)
EXTENDS Naturals, FiniteSets, Sequences, FiniteSetsExt

CONSTANTS Tenant, Row, Flusher,
          Nobody,
          TenantOf,     \* tenant_id of a row
          Expansion,    \* rows of the task builds.expand_submission
          Slots,        \* rows of one tenant in a round (5 in the code)
          RoundLimit,   \* rows of one round (100), also the tenants of a page
          Before,       \* tenants by identity, which decides between equal cursors
          Watched,      \* bound: tenants whose waiting is observed
          MaxRollbacks, \* bound: rounds that are rolled back
          MaxRepairs    \* bound: deliveries that are published again by a repair

ASSUME OutboxOK ==
  /\ TenantOf \in [Row -> Tenant] /\ Expansion \subseteq Row
  /\ IsFiniteSet(Row) /\ IsFiniteSet(Tenant) /\ IsFiniteSet(Flusher)
  /\ Nobody \notin Flusher \cup Row /\ Watched \subseteq Tenant
  /\ Slots \in Nat \ {0} /\ RoundLimit \in Nat \ {0}
  /\ Before \in [Tenant -> Nat] /\ \A t, u \in Tenant : Before[t] = Before[u] => t = u
  /\ MaxRollbacks \in Nat /\ MaxRepairs \in Nat

VARIABLES
  \* committed rows
  row,         \* "free": not written yet; "later": available_at in the future
  place,       \* due rows in the order of available_at
  stamp,       \* last_published_at of a tenant's cursor (0: never)
  \* rounds
  active,      \* rounds that have begun
  early,       \* rows that were available when the round took the time
  page,        \* candidate tenants still to be looked at
  checked,     \* candidate tenants of the pages so far
  more,        \* another page may follow
  attempted,
  lock,        \* who has locked a tenant's cursor
  mark,        \* the uncommitted last_published_at of a locked cursor (0: none)
  done,        \* uncommitted: rows the broker accepted
  refused,     \* uncommitted: rows the broker refused
  \* observation
  sent,        \* times that the broker accepted a row
  excused,     \* of these, how often for a crash or a repair
  bypassed,    \* services of a tenant since another one has been waiting
  rollbacks, repairs

rowVars   == <<row, place, stamp>>
roundVars == <<active, early, page, checked, more, attempted, lock, mark, done, refused>>
outboxVars == <<rowVars, roundVars, sent, excused, bypassed, rollbacks, repairs>>

Rows(t) == {r \in Row : TenantOf[r] = t}
InFlight(r) == \E f \in Flusher : r \in done[f] \cup refused[f]

RowTypes ==
  /\ row \in [Row -> {"free", "due", "later", "published"}]
  /\ active \subseteq Flusher
  /\ lock \in [Tenant -> Flusher \cup {Nobody}]
  /\ done \in [Flusher -> SUBSET Row] /\ refused \in [Flusher -> SUBSET Row]
  /\ sent \in [Row -> Nat] /\ excused \in [Row -> Nat]

OutboxInit ==
  /\ row = [r \in Row |-> "free"]
  /\ place = [r \in Row |-> 0]
  /\ stamp = [t \in Tenant |-> 0] /\ mark = [t \in Tenant |-> 0]
  /\ active = {} /\ early = [f \in Flusher |-> {}]
  /\ page = [f \in Flusher |-> <<>>] /\ checked = [f \in Flusher |-> {}]
  /\ more = [f \in Flusher |-> FALSE] /\ attempted = [f \in Flusher |-> 0]
  /\ lock = [t \in Tenant |-> Nobody]
  /\ done = [f \in Flusher |-> {}] /\ refused = [f \in Flusher |-> {}]
  /\ sent = [r \in Row |-> 0] /\ excused = [r \in Row |-> 0]
  /\ bypassed = [t \in Watched |-> [u \in Tenant |-> 0]]
  /\ rollbacks = 0 /\ repairs = 0

----------------------------------------------------------------------------
(* Order.                                                                  *)

\* The due rows are numbered by available_at; a row that has just become due is
\* the last.
Placed(states, latest) ==
  LET before(r) == {q \in Row \ {latest} : states[q] = "due" /\ place[q] < place[r]}
      others == {q \in Row \ {latest} : states[q] = "due"}
  IN [r \in Row |-> IF states[r] # "due" THEN 0
                    ELSE 1 + Cardinality(IF r = latest THEN others ELSE before(r))]

\* The first n rows of S.
First(n, S) == {r \in S : Cardinality({q \in S : place[q] < place[r]}) < n}

\* Times are renumbered from 1, which keeps their order.
Times(old, new) == {old[t] : t \in Tenant} \cup {new[t] : t \in Tenant}
Renumbered(x, old, new) == Cardinality({y \in Times(old, new) \ {0} : y <= x})
Later(old, new) == 1 + Max(Times(old, new))

\* The cursor's time as round f sees it.
SeenStamp(f, t) == IF lock[t] = f /\ mark[t] # 0 THEN mark[t] ELSE stamp[t]

\* Tenants by last_published_at, never published first, then by identity.
Precedes(f, t, u) ==
  \/ SeenStamp(f, t) < SeenStamp(f, u)
  \/ SeenStamp(f, t) = SeenStamp(f, u) /\ Before[t] < Before[u]

\* All of S in this order.
Orders(f, S) ==
  {s \in [1 .. Cardinality(S) -> S] :
     /\ \A t \in S : \E i \in 1 .. Cardinality(S) : s[i] = t
     /\ \A i, j \in 1 .. Cardinality(S) : i < j => Precedes(f, s[i], s[j])}

----------------------------------------------------------------------------
(* A round of flush_dispatch.                                              *)

\* Rows that a statement of the round finds due.
Due(f) == {r \in early[f] : row[r] = "due"} \ (done[f] \cup refused[f])

Begin(f) ==
  /\ f \notin active
  /\ active' = active \cup {f}
  /\ early' = [early EXCEPT ![f] = {r \in Row : row[r] = "due"}]
  /\ more' = [more EXCEPT ![f] = TRUE]
  /\ UNCHANGED <<rowVars, page, checked, attempted, lock, mark, done, refused,
                 sent, excused, bypassed, rollbacks, repairs>>

\* _candidate_tenants: the next page.  (There are at most ten of them, which
\* takes a thousand tenants that are all locked by others.)
CandidatePage(f) ==
  /\ f \in active /\ page[f] = <<>> /\ more[f]
  /\ LET due == {TenantOf[r] : r \in Due(f)} \ checked[f]
         candidates == {t \in due : Cardinality({u \in due : Precedes(f, u, t)}) < RoundLimit}
     IN /\ \E order \in Orders(f, candidates) : page' = [page EXCEPT ![f] = order]
        /\ checked' = [checked EXCEPT ![f] = @ \cup candidates]
        /\ more' = [more EXCEPT ![f] = Cardinality(candidates) = RoundLimit]
  /\ UNCHANGED <<rowVars, active, early, attempted, lock, mark, done, refused,
                 sent, excused, bypassed, rollbacks, repairs>>

\* Mutant: the rows of the candidate snapshot, although another round may have
\* published them since.
Records_Snapshot(f, t) ==
  LET slots == IF Slots < RoundLimit - attempted[f] THEN Slots ELSE RoundLimit - attempted[f]
      due == early[f] \ (done[f] \cup refused[f])
      expansions == First(1, due \cap Rows(t) \cap Expansion)
  IN expansions \cup First(slots - Cardinality(expansions), (due \cap Rows(t)) \ Expansion)

\* Mutant: the round's limit does not bound the slots.
Records_Slots(f, t) ==
  LET expansions == First(1, Due(f) \cap Rows(t) \cap Expansion)
  IN expansions \cup First(Slots - Cardinality(expansions), (Due(f) \cap Rows(t)) \ Expansion)

\* Mutant: ordinary rows are sent only when no expansion is due.
Records_Expansions(f, t) ==
  LET slots == IF Slots < RoundLimit - attempted[f] THEN Slots ELSE RoundLimit - attempted[f]
      expansions == First(1, Due(f) \cap Rows(t) \cap Expansion)
  IN IF expansions # {} THEN expansions
     ELSE First(slots, (Due(f) \cap Rows(t)) \ Expansion)

\* At most one expansion, then the other rows in their order.
Records(f, t) ==
  LET slots == IF Slots < RoundLimit - attempted[f] THEN Slots ELSE RoundLimit - attempted[f]
      expansions == First(1, Due(f) \cap Rows(t) \cap Expansion)
  IN expansions \cup First(slots - Cardinality(expansions), (Due(f) \cap Rows(t)) \ Expansion)

\* A tenant that could be served: one with a due row that no round has handled.
Hungry(t) == \E r \in Rows(t) : row[r] = "due" /\ ~InFlight(r)

\* A round has not come to a tenant yet: it neither served it nor found it locked.
StillToCome(f, t) == t \in checked[f] => \E i \in 1 .. Len(page[f]) : page[f][i] = t

\* Mutant: a tenant is moved back only when something of it was published.
Stamps_Published(records, accepted) == accepted # {}

\* Serviced attempts advance the round even during broker outages.
Stamps(records, accepted) == records # {}

\* The first candidate's cursor is locked and its rows are sent.
Serve(f, accepted) ==
  /\ f \in active /\ page[f] # <<>>
  /\ LET t == Head(page[f])
         records == Records(f, t)
         count == attempted[f] + Cardinality(records)
     IN /\ lock[t] \in {Nobody, f}
        /\ accepted \subseteq records
        /\ lock' = [lock EXCEPT ![t] = f]
        /\ done' = [done EXCEPT ![f] = @ \cup accepted]
        /\ refused' = [refused EXCEPT ![f] = @ \cup (records \ accepted)]
        /\ sent' = [r \in Row |-> sent[r] + IF r \in accepted THEN 1 ELSE 0]
        /\ mark' = IF Stamps(records, accepted)
                   THEN [mark EXCEPT ![t] = Later(stamp, mark)] ELSE mark
        /\ attempted' = [attempted EXCEPT ![f] = count]
        /\ page' = [page EXCEPT ![f] = IF count >= RoundLimit THEN <<>> ELSE Tail(@)]
        /\ more' = [more EXCEPT ![f] = @ /\ count < RoundLimit]
        /\ bypassed' = [u \in Watched |->
             IF records = {} THEN bypassed[u]
             ELSE IF u = t THEN [v \in Tenant |-> 0]
             ELSE IF Hungry(u) /\ lock[u] = Nobody /\ StillToCome(f, u)
             THEN [bypassed[u] EXCEPT ![t] = @ + 1] ELSE bypassed[u]]
  /\ UNCHANGED <<rowVars, active, early, checked, excused, rollbacks, repairs>>

\* A tenant whose cursor another round has locked is passed over.
SkipLocked(f) ==
  /\ f \in active /\ page[f] # <<>>
  /\ lock[Head(page[f])] \notin {Nobody, f}
  /\ page' = [page EXCEPT ![f] = Tail(@)]
  /\ UNCHANGED <<rowVars, active, early, checked, more, attempted, lock, mark, done, refused,
                 sent, excused, bypassed, rollbacks, repairs>>

\* The round is over and forgets everything.
EndRound(f) ==
  /\ active' = active \ {f}
  /\ early' = [early EXCEPT ![f] = {}]
  /\ page' = [page EXCEPT ![f] = <<>>] /\ checked' = [checked EXCEPT ![f] = {}]
  /\ more' = [more EXCEPT ![f] = FALSE] /\ attempted' = [attempted EXCEPT ![f] = 0]
  /\ lock' = [t \in Tenant |-> IF lock[t] = f THEN Nobody ELSE lock[t]]
  /\ done' = [done EXCEPT ![f] = {}] /\ refused' = [refused EXCEPT ![f] = {}]

\* The cursors' times after f's are stored, or dropped.
Stored(f, new) ==
  LET old == [t \in Tenant |-> IF lock[t] = f THEN new[t] ELSE stamp[t]]
      rest == [t \in Tenant |-> IF lock[t] = f THEN 0 ELSE mark[t]]
  IN /\ stamp' = [t \in Tenant |-> Renumbered(old[t], old, rest)]
     /\ mark' = [t \in Tenant |-> Renumbered(rest[t], old, rest)]

\* published_at of accepted rows, available_at of refused ones.
Published(f) ==
  row' = [r \in Row |-> IF r \in done[f] THEN "published"
                        ELSE IF r \in refused[f] THEN "later" ELSE row[r]]

Commit(f) ==
  /\ f \in active /\ page[f] = <<>> /\ ~more[f]
  /\ Published(f)
  /\ place' = Placed(row', Nobody)
  /\ Stored(f, [t \in Tenant |-> SeenStamp(f, t)])
  /\ EndRound(f)
  /\ UNCHANGED <<sent, excused, bypassed, rollbacks, repairs>>

\* The round's transaction is rolled back: the process dies, its time limit or
\* the database ends it.  What was sent stays sent.
Crash(f) ==
  /\ f \in active /\ rollbacks < MaxRollbacks
  /\ rollbacks' = rollbacks + 1
  /\ excused' = [r \in Row |-> excused[r] + IF r \in done[f] THEN 1 ELSE 0]
  /\ Stored(f, stamp)
  /\ EndRound(f)
  /\ UNCHANGED <<row, place, sent, bypassed, repairs>>

----------------------------------------------------------------------------
(* The rest of the system.                                                 *)

\* A tenant that begins to wait has not been passed over yet.
Awaits(t) ==
  bypassed' = [u \in Watched |-> IF u = t /\ ~Hungry(t) THEN [v \in Tenant |-> 0] ELSE bypassed[u]]

\* A row becomes available now, which is later than the time of the rounds under way.
BecomeDue(r) ==
  /\ row' = [row EXCEPT ![r] = "due"]
  /\ early' = [f \in Flusher |-> early[f] \ {r}]
  /\ place' = Placed(row', r)
  /\ Awaits(TenantOf[r])

\* enqueue_after_commit with a new key, in a business transaction that commits.
\* (The row's time is the time of that commit.  With a key in use it returns the
\* row there is.)
Enqueue(r) ==
  /\ row[r] = "free"
  /\ BecomeDue(r)
  /\ UNCHANGED <<stamp, active, page, checked, more, attempted, lock, mark, done, refused,
                 sent, excused, rollbacks, repairs>>

\* The backoff is over.
BackoffEnds(r) ==
  /\ row[r] = "later"
  /\ BecomeDue(r)
  /\ UNCHANGED <<stamp, active, page, checked, more, attempted, lock, mark, done, refused,
                 sent, excused, rollbacks, repairs>>

\* repair_execution and its like: the delivery was lost, or is late.
Repair(r) ==
  /\ row[r] = "published" /\ repairs < MaxRepairs
  /\ repairs' = repairs + 1
  /\ excused' = [excused EXCEPT ![r] = @ + 1]
  /\ BecomeDue(r)
  /\ UNCHANGED <<stamp, active, page, checked, more, attempted, lock, mark, done, refused,
                 sent, rollbacks>>

\* The delivery has been consumed: nothing refers to the row any more, and its
\* place in the model is free for a row with a new key.
Consume(r) ==
  /\ row[r] = "published"
  /\ row' = [row EXCEPT ![r] = "free"]
  /\ sent' = [sent EXCEPT ![r] = 0] /\ excused' = [excused EXCEPT ![r] = 0]
  /\ UNCHANGED <<place, stamp, roundVars, bypassed, rollbacks, repairs>>

----------------------------------------------------------------------------
Round(f) ==
  \/ Begin(f) \/ CandidatePage(f) \/ SkipLocked(f) \/ Commit(f) \/ Crash(f)
  \/ \E accepted \in SUBSET Row : Serve(f, accepted)

OutboxNext ==
  \/ \E f \in Flusher : Round(f)
  \/ \E r \in Row : Enqueue(r) \/ BackoffEnds(r) \/ Repair(r) \/ Consume(r)

OutboxSpec == OutboxInit /\ [][OutboxNext]_outboxVars

\* A round is started every second and takes its next step; backoffs end.  The
\* broker accepts a row that is sent again and again: its outages end.
OutboxFairness ==
  /\ \A f \in Flusher :
       WF_outboxVars(\/ Begin(f) \/ CandidatePage(f) \/ SkipLocked(f) \/ Commit(f)
               \/ \E accepted \in SUBSET Row : Serve(f, accepted))
  /\ \A r \in Row :
       /\ WF_outboxVars(BackoffEnds(r))
       /\ SF_outboxVars(\E f \in Flusher, accepted \in SUBSET Row : r \in accepted /\ Serve(f, accepted))


----------------------------------------------------------------------------
(* Properties.                                                             *)

\* Every delivery is accounted for: a row that is published was sent once more
\* than rollbacks and repairs explain, any other row exactly as often.  So nothing
\* is marked as published that was not sent, and concurrent rounds never send a
\* row twice (flush_dispatch takes the cursor's lock and reads the rows again).
Accounted ==
  \A r \in Row :
    sent[r] = excused[r] + IF row[r] = "published" \/ \E f \in Flusher : r \in done[f]
                           THEN 1 ELSE 0

\* A round works only on rows whose tenant's cursor it has locked, and only one
\* round works on a row.
LockInv ==
  \A f \in Flusher, r \in Row : r \in done[f] \cup refused[f] =>
    f \in active /\ row[r] = "due" /\ lock[TenantOf[r]] = f

OutcomeInv == \A f \in Flusher : done[f] \cap refused[f] = {}

OutboxInv == RowTypes /\ Accounted /\ LockInv /\ OutcomeInv

\* No tenant is passed over: while it has a row that no round has handled and its cursor
\* is free, rounds that have not come to it serve another tenant at most once per
\* concurrent round and once more per round that was rolled back, in broker outages too
\* (last_published_at, which every serviced attempt advances).  A round that found the
\* cursor locked may go on: who held it may have had nothing to send.
BoundedBypass ==
  \A t \in Watched, u \in Tenant : bypassed[t][u] <= Cardinality(Flusher) + rollbacks

\* Round f comes to tenant t with one place left, and an expansion of t takes it.
Squeezed(t) ==
  \E f \in Flusher :
    /\ page[f] # <<>> /\ Head(page[f]) = t /\ lock[t] \in {Nobody, f}
    /\ RoundLimit - attempted[f] = 1
    /\ Due(f) \cap Rows(t) \cap Expansion # {}

\* Every row is published in the end, however many new requests arrive, expansions
\* without exception.  An ordinary row is, unless rounds that are full come to its
\* tenant again and again with a single place left, which goes to an expansion: slots is
\* then 1, and the limit of the query for ordinary rows 0 (flush_dispatch).
EveryRowIsPublished ==
  /\ \A r \in Expansion : row[r] = "due" ~> row[r] = "published"
  /\ \A r \in Row \ Expansion :
       []<>Squeezed(TenantOf[r]) \/ (row[r] = "due" ~> row[r] = "published")

\* The comment's claim, without this exception: "A second expansion cannot starve
\* ordinary work as new requests arrive" (outbox.py:183).
OrdinaryIsNotStarved ==
  \A r \in Row \ Expansion : row[r] = "due" ~> row[r] = "published"
=============================================================================
