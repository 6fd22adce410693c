--------------------------- MODULE Outbox_proofs ---------------------------
(* Theorems about Outbox, for every set of tenants, rows and rounds.       *)
EXTENDS Outbox, Integers, FiniteSetTheorems, SequenceTheorems, WellFoundedInduction, TLAPS

\* The rows of a service are due rows of the tenant.
LEMMA RecordsDue ==
  ASSUME NEW f \in Flusher, NEW t
  PROVE  Records(f, t) \subseteq Due(f) \cap Rows(t)
BY DEF Records, First

\* A service: its rows had been handled by no round.
LEMMA ServeStep ==
  ASSUME OutboxInv, NEW f \in Flusher, NEW accepted, Serve(f, accepted)
  PROVE  OutboxInv'
<1> DEFINE t == Head(page[f])
           records == Records(f, t)
<1>1. /\ f \in active /\ active' = active
      /\ lock[t] \in {Nobody, f} /\ accepted \subseteq records
      /\ lock' = [lock EXCEPT ![t] = f]
      /\ done' = [done EXCEPT ![f] = @ \cup accepted]
      /\ refused' = [refused EXCEPT ![f] = @ \cup (records \ accepted)]
      /\ sent' = [r \in Row |-> sent[r] + IF r \in accepted THEN 1 ELSE 0]
      /\ UNCHANGED <<row, excused>>
  BY DEF Serve, rowVars
<1>2. \A r \in records : /\ r \in Row /\ TenantOf[r] = t /\ row[r] = "due"
                         /\ r \notin done[f] \cup refused[f]
  BY RecordsDue DEF Due, Rows, OutboxInv, RowTypes
<1> HIDE DEF t, records
<1>3. \A r \in records, g \in Flusher : r \notin done[g] \cup refused[g]
  BY <1>1, <1>2, OutboxOK DEF OutboxInv, LockInv
<1>4. RowTypes'
  <2>1. records \subseteq Row
    BY <1>2
  <2>2. done' \in [Flusher -> SUBSET Row] /\ refused' \in [Flusher -> SUBSET Row]
    BY <1>1, <2>1 DEF OutboxInv, RowTypes
  <2>3. sent' \in [Row -> Nat]
    BY <1>1 DEF OutboxInv, RowTypes
  <2>4. lock' \in [Tenant -> Flusher \cup {Nobody}]
    BY <1>1 DEF OutboxInv, RowTypes
  <2> QED BY <1>1, <2>2, <2>3, <2>4 DEF OutboxInv, RowTypes
<1>5. LockInv'
  BY <1>1, <1>2, OutboxOK DEF OutboxInv, RowTypes, LockInv
<1>6. OutcomeInv'
  BY <1>1, <1>3 DEF OutboxInv, RowTypes, OutcomeInv
<1>7. ASSUME NEW r \in Row
      PROVE  sent'[r] = excused'[r] + IF row'[r] = "published" \/ \E g \in Flusher : r \in done'[g]
                                      THEN 1 ELSE 0
  <2>1. CASE r \in accepted
    <3>1. row[r] = "due" /\ \A g \in Flusher : r \notin done[g]
      BY <1>1, <1>2, <1>3, <2>1
    <3>2. sent[r] = excused[r]
      BY <3>1 DEF OutboxInv, Accounted, RowTypes
    <3>3. sent'[r] = sent[r] + 1 /\ r \in done'[f]
      BY <1>1, <2>1 DEF OutboxInv, RowTypes
    <3> QED BY <1>1, <3>2, <3>3
  <2>2. CASE r \notin accepted
    <3>1. sent'[r] = sent[r] /\ \A g \in Flusher : r \in done'[g] <=> r \in done[g]
      BY <1>1, <2>2 DEF OutboxInv, RowTypes
    <3> QED BY <1>1, <3>1 DEF OutboxInv, Accounted
  <2> QED BY <2>1, <2>2
<1> QED BY <1>4, <1>5, <1>6, <1>7 DEF OutboxInv, Accounted

\* The end of a round releases what it had handled.
LEMMA EndStep ==
  ASSUME OutboxInv, NEW f \in Flusher, EndRound(f)
  PROVE  /\ active' \subseteq Flusher
         /\ lock' \in [Tenant -> Flusher \cup {Nobody}]
         /\ done' \in [Flusher -> SUBSET Row] /\ refused' \in [Flusher -> SUBSET Row]
         /\ OutcomeInv'
         /\ \A g \in Flusher, r \in Row : r \in done'[g] <=> g # f /\ r \in done[g]
         /\ \A g \in Flusher, r \in Row : r \in done'[g] \cup refused'[g] =>
              /\ g # f /\ r \in done[g] \cup refused[g]
              /\ g \in active' /\ lock'[TenantOf[r]] = g
              /\ r \notin done[f] \cup refused[f]
<1> USE DEF OutboxInv, RowTypes, EndRound
<1>1. /\ done' \in [Flusher -> SUBSET Row] /\ refused' \in [Flusher -> SUBSET Row]
      /\ OutcomeInv'
      /\ \A g \in Flusher, r \in Row : r \in done'[g] <=> g # f /\ r \in done[g]
      /\ \A g \in Flusher, r \in Row : r \in refused'[g] <=> g # f /\ r \in refused[g]
  BY DEF OutcomeInv
<1>2. active' \subseteq Flusher /\ lock' \in [Tenant -> Flusher \cup {Nobody}]
  OBVIOUS
<1>3. ASSUME NEW g \in Flusher, NEW r \in Row, r \in done'[g] \cup refused'[g]
      PROVE  /\ g # f /\ r \in done[g] \cup refused[g]
             /\ g \in active' /\ lock'[TenantOf[r]] = g
             /\ r \notin done[f] \cup refused[f]
  <2>1. g # f /\ r \in done[g] \cup refused[g]
    BY <1>1, <1>3
  <2>2. g \in active /\ lock[TenantOf[r]] = g /\ TenantOf[r] \in Tenant
    BY <2>1, OutboxOK DEF LockInv
  <2>3. r \notin done[f] \cup refused[f]
    BY <2>1, <2>2 DEF LockInv
  <2> QED BY <2>1, <2>2, <2>3
<1> QED BY <1>1, <1>2, <1>3

\* What a round delivered is published when it commits.
LEMMA CommitStep ==
  ASSUME OutboxInv, NEW f \in Flusher, Commit(f)
  PROVE  OutboxInv'
<1>1. /\ row' = [r \in Row |-> IF r \in done[f] THEN "published"
                               ELSE IF r \in refused[f] THEN "later" ELSE row[r]]
      /\ EndRound(f) /\ UNCHANGED <<sent, excused>>
  BY DEF Commit, Published
<1>2. RowTypes'
  BY <1>1, EndStep DEF OutboxInv, RowTypes
<1>3. LockInv'
  BY <1>1, EndStep DEF OutboxInv, LockInv
<1>4. ASSUME NEW r \in Row
      PROVE  sent'[r] = excused'[r] + IF row'[r] = "published" \/ \E g \in Flusher : r \in done'[g]
                                      THEN 1 ELSE 0
  <2>1. (row'[r] = "published" \/ \E g \in Flusher : r \in done'[g])
          <=> (row[r] = "published" \/ \E g \in Flusher : r \in done[g])
    <3>1. CASE r \in done[f]
      BY <1>1, <3>1
    <3>2. CASE r \in refused[f]
      <4>1. row[r] = "due" /\ \A g \in Flusher : r \notin done[g]
        BY <3>2 DEF OutboxInv, LockInv, OutcomeInv
      <4>2. \A g \in Flusher : r \notin done'[g]
        BY <1>1, <4>1, EndStep
      <4>3. row'[r] = "later"
        BY <1>1, <3>2, <4>1
      <4> QED BY <4>1, <4>2, <4>3
    <3>3. CASE r \notin done[f] \cup refused[f]
      BY <1>1, <3>3, EndStep
    <3> QED BY <3>1, <3>2, <3>3
  <2> QED BY <1>1, <2>1 DEF OutboxInv, Accounted
<1> QED BY <1>1, <1>2, <1>3, <1>4, EndStep DEF OutboxInv, Accounted

\* What a round delivered is due again, and excused, when it dies.
LEMMA CrashStep ==
  ASSUME OutboxInv, NEW f \in Flusher, Crash(f)
  PROVE  OutboxInv'
<1>1. /\ excused' = [r \in Row |-> excused[r] + IF r \in done[f] THEN 1 ELSE 0]
      /\ EndRound(f) /\ UNCHANGED <<row, sent>>
  BY DEF Crash
<1>2. RowTypes'
  BY <1>1, EndStep DEF OutboxInv, RowTypes
<1>3. LockInv'
  BY <1>1, EndStep DEF OutboxInv, LockInv
<1>4. ASSUME NEW r \in Row
      PROVE  sent'[r] = excused'[r] + IF row'[r] = "published" \/ \E g \in Flusher : r \in done'[g]
                                      THEN 1 ELSE 0
  <2>1. CASE r \in done[f]
    <3>1. row[r] = "due" /\ \A g \in Flusher : r \notin done'[g]
      BY <1>1, <2>1, EndStep DEF OutboxInv, LockInv
    <3>2. sent[r] = excused[r] + 1 /\ excused'[r] = excused[r] + 1
      BY <1>1, <2>1 DEF OutboxInv, Accounted
    <3>3. row'[r] = "due" /\ sent'[r] = sent[r]
      BY <1>1, <3>1
    <3> QED BY <3>1, <3>2, <3>3 DEF OutboxInv, RowTypes
  <2>2. CASE r \notin done[f]
    <3>1. \A g \in Flusher : r \in done'[g] <=> r \in done[g]
      BY <1>1, <2>2, EndStep
    <3>2. excused'[r] = excused[r]
      BY <1>1, <2>2 DEF OutboxInv, RowTypes
    <3> QED BY <1>1, <3>1, <3>2 DEF OutboxInv, Accounted
  <2> QED BY <2>1, <2>2
<1> QED BY <1>1, <1>2, <1>3, <1>4, EndStep DEF OutboxInv, Accounted

\* Business transactions touch no row that a round has handled: its row is due.
LEMMA OtherStep ==
  ASSUME OutboxInv, NEW r \in Row, Enqueue(r) \/ BackoffEnds(r) \/ Repair(r) \/ Consume(r)
  PROVE  OutboxInv'
<1> USE DEF OutboxInv, RowTypes, LockInv
<1>1. UNCHANGED <<active, lock, done, refused>> /\ row[r] # "due"
  BY DEF Enqueue, BackoffEnds, Repair, Consume, BecomeDue, roundVars
<1>2. \A g \in Flusher : r \notin done[g] \cup refused[g]
  BY <1>1
<1>3. \A q \in Row \ {r} : /\ row'[q] = row[q]
                           /\ sent'[q] = sent[q] /\ excused'[q] = excused[q]
  BY DEF Enqueue, BackoffEnds, Repair, Consume, BecomeDue
<1>4. RowTypes'
  BY <1>1 DEF Enqueue, BackoffEnds, Repair, Consume, BecomeDue
<1>5. LockInv' /\ OutcomeInv'
  BY <1>1, <1>2, <1>3 DEF OutcomeInv
<1>6. sent'[r] = excused'[r] /\ row'[r] # "published"
  <2>1. CASE Enqueue(r)
    BY <2>1 DEF Enqueue, BecomeDue, Accounted
  <2>2. CASE BackoffEnds(r)
    BY <1>2, <2>2 DEF BackoffEnds, BecomeDue, Accounted
  <2>3. CASE Repair(r)
    BY <1>2, <2>3 DEF Repair, BecomeDue, Accounted
  <2>4. CASE Consume(r)
    BY <2>4 DEF Consume
  <2> QED BY <2>1, <2>2, <2>3, <2>4
<1>7. Accounted'
  <2>1. \A q \in Row : (\E g \in Flusher : q \in done'[g]) <=> (\E g \in Flusher : q \in done[g])
    BY <1>1
  <2>2. ~ \E g \in Flusher : r \in done[g]
    BY <1>2
  <2>3. ASSUME NEW q \in Row
        PROVE  sent'[q] = excused'[q] + IF row'[q] = "published" \/ \E g \in Flusher : q \in done'[g]
                                        THEN 1 ELSE 0
    <3>1. CASE q = r
      BY <1>4, <1>6, <2>1, <2>2, <3>1
    <3>2. CASE q # r
      BY <1>3, <2>1, <3>2 DEF Accounted
    <3> QED BY <3>1, <3>2
  <2> QED BY <2>3 DEF Accounted
<1> QED BY <1>4, <1>5, <1>7

\* The steps of a round that only look.
LEMMA LookStep ==
  ASSUME OutboxInv, NEW f \in Flusher, Begin(f) \/ CandidatePage(f) \/ SkipLocked(f)
  PROVE  OutboxInv'
<1>1. /\ active' \subseteq Flusher /\ active \subseteq active'
      /\ UNCHANGED <<row, lock, done, refused, sent, excused>>
  BY DEF Begin, CandidatePage, SkipLocked, rowVars, OutboxInv, RowTypes
<1> QED BY <1>1 DEF OutboxInv, RowTypes, Accounted, LockInv, OutcomeInv

\* At first nothing was sent.
LEMMA InitLemma == OutboxInit => OutboxInv
BY DEF OutboxInit, OutboxInv, RowTypes, Accounted, LockInv, OutcomeInv

\* Every step keeps the account of the deliveries.
LEMMA InvariantKept == ASSUME OutboxInv, [OutboxNext]_outboxVars PROVE OutboxInv'
<1>1. CASE UNCHANGED outboxVars
  BY <1>1 DEF outboxVars, rowVars, roundVars, OutboxInv, RowTypes, Accounted, LockInv, OutcomeInv
<1> QED BY <1>1, ServeStep, CommitStep, CrashStep, OtherStep, LookStep DEF OutboxNext, Round

\* Deliveries are accounted for (Accounted) and rounds work on locked tenants only,
\* for every number of tenants, rows and concurrent rounds, and however often
\* rounds die and deliveries are repaired: flush_dispatch loses no row, and sends
\* none twice without such a reason.
THEOREM DeliveriesAreAccounted == OutboxSpec => []OutboxInv
BY InitLemma, InvariantKept, PTL DEF OutboxSpec

(***************************************************************************)
(* Turns: no tenant is passed over.                                        *)
(***************************************************************************)
\* The types of the cursors and of the rounds' books.
CountTypes ==
  /\ stamp \in [Tenant -> Nat] /\ mark \in [Tenant -> Nat]
  /\ early \in [Flusher -> SUBSET Row]
  /\ page \in [Flusher -> Seq(Tenant)] /\ checked \in [Flusher -> SUBSET Tenant]
  /\ bypassed \in [Watched -> [Tenant -> Nat]] /\ rollbacks \in Nat

\* A page lists tenants once each, which its round has not served yet.
PageFits(f) ==
  /\ f \notin active => page[f] = <<>> /\ checked[f] = {}
  /\ \A i \in 1 .. Len(page[f]) :
       /\ page[f][i] \in checked[f] /\ lock[page[f][i]] # f
       /\ \A j \in 1 .. Len(page[f]) : page[f][i] = page[f][j] => i = j

\* Only who has locked a cursor has a time to store there, and it is a later one.
MarkFits(t) ==
  /\ lock[t] # Nobody => lock[t] \in active /\ t \in checked[lock[t]]
  /\ mark[t] # 0 => lock[t] # Nobody /\ mark[t] > stamp[t]

\* By what is committed, u comes before t.
Leads(u, t) == stamp[u] < stamp[t] \/ (stamp[u] = stamp[t] /\ Before[u] < Before[t])

\* What a round may still send of u.
Waits(f, u) == \E r \in Rows(u) : r \in early[f] /\ row[r] = "due" /\ ~InFlight(r)

\* If the round serves t, it has come to u before.
ComesFirst(f, u, t) ==
  /\ \A i \in 1 .. Len(page[f]) : page[f][i] = t =>
       u \in checked[f] /\ \A j \in 1 .. Len(page[f]) : page[f][j] = u => j < i
  /\ t \in checked[f] \/ u \in checked[f] \/ Waits(f, u)

\* The rounds that may serve t yet, without having come to u.
Passing(u, t) == {f \in active : ~ComesFirst(f, u, t)}

\* Services of t while u waits.  As long as u leads, only rounds that had not come to u
\* when it took the lead can add one, each of them once: what was added and what can be
\* added yet stay within the rounds and the rollbacks.  While t leads, every service of
\* t so far was rolled back, but one at most, whose time is still to be committed.
Charged(u, t) ==
  \/ bypassed[u][t] = 0
  \/ /\ u # t /\ Hungry(u) /\ mark[u] = 0
     /\ IF Leads(u, t) THEN bypassed[u][t] + Cardinality(Passing(u, t)) <= Cardinality(Flusher) + rollbacks
        ELSE bypassed[u][t] <= rollbacks + IF mark[t] > stamp[u] THEN 1 ELSE 0

\* What holds of the cursors and pages whoever waits.
Books ==
  /\ CountTypes
  /\ \A f \in Flusher : PageFits(f)
  /\ \A t \in Tenant : MarkFits(t)

\* The inductive invariant behind BoundedBypass.
BypassInv ==
  /\ OutboxInv /\ Books
  /\ \A u \in Watched, t \in Tenant : Charged(u, t)

\* A set of numbers has a least one.
LEMMA Least ==
  ASSUME NEW S \in SUBSET Nat, S # {}
  PROVE  \E m \in S : \A x \in S : m <= x
<1>1. PICK m \in S : \A x \in S : <<x, m>> \notin OpToRel(<, Nat)
  BY NatLessThanWellFounded, WFMin
<1>2. \A x \in S : ~(x < m)
  BY <1>1 DEF OpToRel
<1> QED BY <1>2

\* A function on a finite set takes a greatest value.
LEMMA TakesGreatest ==
  ASSUME NEW S, IsFiniteSet(S), S # {}, NEW f \in [S -> Nat]
  PROVE  \E m \in S : \A x \in S : f[x] <= f[m]
<1> DEFINE Has(T) == \E m \in T : \A x \in T : f[x] <= f[m]
           K == {n \in Nat : \E T \in SUBSET S : T # {} /\ Cardinality(T) = n /\ ~Has(T)}
<1>1. \A T \in SUBSET S : IsFiniteSet(T) /\ Cardinality(T) \in Nat
  BY FS_Subset, FS_CardinalityType
<1>2. K = {}
  <2> SUFFICES ASSUME K # {} PROVE FALSE
    OBVIOUS
  <2>1. PICK n \in K : \A k \in K : n <= k
    <3>1. K \in SUBSET Nat
      OBVIOUS
    <3> HIDE DEF K
    <3> QED BY <3>1, Least
  <2>2. PICK T \in SUBSET S : T # {} /\ Cardinality(T) = n /\ ~Has(T)
    OBVIOUS
  <2>3. PICK y \in T : TRUE
    BY <2>2
  <2> DEFINE U == T \ {y}
  <2>4. U \in SUBSET S /\ IsFiniteSet(U) /\ Cardinality(U) \in Nat /\ Cardinality(U) = n - 1
        /\ n \in Nat
    BY <1>1, <2>2, <2>3, FS_RemoveElement
  <2>5. CASE U = {}
    <3>1. \A x \in T : x = y
      BY <2>5
    <3>2. f[y] <= f[y]
      BY <2>2, <2>3
    <3> QED BY <2>2, <2>3, <3>1, <3>2
  <2>6. CASE U # {}
    <3>1. Has(U)
      <4>1. Cardinality(U) \notin K
        <5> HIDE DEF K
        <5> QED BY <2>1, <2>4
      <4> QED BY <2>4, <2>6, <4>1
    <3>2. PICK m \in U : \A x \in U : f[x] <= f[m]
      BY <3>1
    <3>3. /\ \A x \in T : x \in U \/ x = y
          /\ \A x \in T : f[x] \in Nat
          /\ m \in T /\ y \in T
      BY <2>2, <2>3
    <3>4. CASE f[y] <= f[m]
      BY <2>2, <3>2, <3>3, <3>4
    <3>5. CASE f[m] <= f[y]
      <4>1. \A x \in T : f[x] <= f[y]
        BY <3>2, <3>3, <3>5
      <4> QED BY <2>2, <3>3, <4>1
    <3> QED BY <3>3, <3>4, <3>5
  <2> QED BY <2>5, <2>6
<1>3. Cardinality(S) \notin K
  BY <1>2
<1>4. Cardinality(S) \in Nat
  BY <1>1
<1> QED BY <1>3, <1>4

\* A time later than all others.
LEMMA LaterIsLater ==
  ASSUME NEW old \in [Tenant -> Nat], NEW new \in [Tenant -> Nat]
  PROVE  /\ Tenant # {} => Later(old, new) \in Nat \ {0}
         /\ \A t \in Tenant : Later(old, new) > old[t] /\ Later(old, new) > new[t]
<1> SUFFICES ASSUME Tenant # {}
    PROVE /\ Later(old, new) \in Nat \ {0}
          /\ \A t \in Tenant : Later(old, new) > old[t] /\ Later(old, new) > new[t]
  OBVIOUS
<1>1. PICK a \in Tenant : \A t \in Tenant : old[t] <= old[a]
  BY OutboxOK, TakesGreatest
<1>2. PICK b \in Tenant : \A t \in Tenant : new[t] <= new[b]
  BY SMTT(90), OutboxOK, TakesGreatest
<1>3. PICK T : T = Times(old, new)
  OBVIOUS
<1>4. T \subseteq Nat /\ \A t \in Tenant : old[t] \in T /\ new[t] \in T
  BY <1>3 DEF Times
<1>5. \E x \in T : \A y \in T : x >= y
  <2>1. CASE old[a] <= new[b]
    <3>1. \A y \in T : new[b] >= y
      BY <1>1, <1>2, <1>3, <2>1 DEF Times
    <3> QED
      BY <1>4, <3>1
  <2>2. CASE new[b] <= old[a]
    <3>1. \A y \in T : old[a] >= y
      BY <1>1, <1>2, <1>3, <2>2 DEF Times
    <3> QED
      BY <1>4, <3>1
  <2> QED
    BY <2>1, <2>2
<1>6. Max(T) \in T /\ \A y \in T : Max(T) >= y
  BY <1>5, Zenon DEF Max
<1>7. PICK m : m = Max(T)
  OBVIOUS
<1>8. m \in Nat /\ \A y \in T : m >= y
  BY <1>4, <1>6, <1>7
<1>9. Later(old, new) = 1 + m
  BY <1>3, <1>7 DEF Later
<1> QED
  BY <1>4, <1>8, <1>9

\* Renumbering keeps the order of times.
LEMMA OrderIsKept ==
  ASSUME NEW old \in [Tenant -> Nat], NEW new \in [Tenant -> Nat],
         NEW x \in Times(old, new), NEW y \in Times(old, new)
  PROVE  /\ Renumbered(x, old, new) \in Nat
         /\ x = 0 <=> Renumbered(x, old, new) = 0
         /\ x < y <=> Renumbered(x, old, new) < Renumbered(y, old, new)
         /\ x = y <=> Renumbered(x, old, new) = Renumbered(y, old, new)
<1> DEFINE T == Times(old, new)
           Upto(z) == {w \in T \ {0} : w <= z}
<1>1. T \subseteq Nat
  BY DEF Times
<1> HIDE DEF T
<1>2. \A z \in T : IsFiniteSet(Upto(z)) /\ Cardinality(Upto(z)) \in Nat
  <2> SUFFICES ASSUME NEW z \in T PROVE IsFiniteSet(Upto(z)) /\ Cardinality(Upto(z)) \in Nat
    OBVIOUS
  <2>1. z \in Nat
    BY <1>1
  <2>2. IsFiniteSet(1 .. z)
    BY <2>1, FS_Interval
  <2>3. Upto(z) \subseteq 1 .. z
    <3> SUFFICES ASSUME NEW w \in T, w # 0, w <= z PROVE w \in 1 .. z
      OBVIOUS
    <3>1. w \in Nat
      BY <1>1
    <3> QED
      BY <2>1, <3>1
  <2> QED
    BY <2>2, <2>3, FS_Subset, FS_CardinalityType
<1>3. ASSUME NEW u \in T, NEW v \in T, u < v PROVE Cardinality(Upto(u)) < Cardinality(Upto(v))
  <2>1. u \in Nat /\ v \in Nat
    BY <1>1
  <2>2. Upto(u) \subseteq Upto(v)
    <3> SUFFICES ASSUME NEW w \in T, w <= u PROVE w <= v
      OBVIOUS
    <3>1. w \in Nat
      BY <1>1
    <3> QED
      BY <1>3, <2>1, <3>1
  <2>3. v \in Upto(v) /\ v \notin Upto(u)
    BY <1>3, <2>1
  <2>4. PICK m \in Nat, n \in Nat : m = Cardinality(Upto(u)) /\ n = Cardinality(Upto(v))
    BY <1>2
  <2>5. m <= n /\ (n = m => Upto(u) = Upto(v))
    BY <1>2, <2>2, <2>4, FS_Subset
  <2>6. n # m
    BY <2>3, <2>5
  <2> QED
    BY <2>4, <2>5, <2>6
<1>4. \A z \in T : z = 0 <=> Cardinality(Upto(z)) = 0
  <2> SUFFICES ASSUME NEW z \in T PROVE z = 0 <=> Upto(z) = {}
    BY <1>2, FS_EmptySet
  <2>1. z = 0 => Upto(z) = {}
    <3> SUFFICES ASSUME NEW w \in T, w # 0 PROVE ~(w <= 0)
      OBVIOUS
    <3>1. w \in Nat
      BY <1>1
    <3> QED
      BY <3>1
  <2>2. z # 0 => z \in Upto(z)
    BY <1>1
  <2> QED
    BY <2>1, <2>2
<1>5. PICK m \in Nat, n \in Nat : m = Cardinality(Upto(x)) /\ n = Cardinality(Upto(y))
  BY <1>2 DEF T
<1>6. x \in T /\ y \in T /\ x \in Nat /\ y \in Nat
  BY <1>1 DEF T
<1>7. (x < y => m < n) /\ (y < x => n < m) /\ (x = y => m = n) /\ (x = 0 <=> m = 0)
  BY <1>3, <1>4, <1>5, <1>6
<1>8. Renumbered(x, old, new) = m /\ Renumbered(y, old, new) = n
  BY <1>5 DEF Renumbered, T
<1> QED
  BY <1>6, <1>7, <1>8

\* The times after a round are ordered as those it leaves: its own for the cursors it holds.
LEMMA StoredKeeps ==
  ASSUME CountTypes, NEW f, NEW new \in [Tenant -> Nat], Stored(f, new)
  PROVE  \E old \in [Tenant -> Nat], rest \in [Tenant -> Nat] :
           /\ \A x \in Tenant : /\ lock[x] = f => old[x] = new[x] /\ rest[x] = 0
                                /\ lock[x] # f => old[x] = stamp[x] /\ rest[x] = mark[x]
           /\ stamp' \in [Tenant -> Nat] /\ mark' \in [Tenant -> Nat]
           /\ \A x, y \in Tenant :
                /\ stamp'[x] < stamp'[y] <=> old[x] < old[y]
                /\ stamp'[x] = stamp'[y] <=> old[x] = old[y]
                /\ mark'[x] > stamp'[y] <=> rest[x] > old[y]
           /\ \A x \in Tenant : mark'[x] = 0 <=> rest[x] = 0
<1>1. PICK old, rest :
        /\ old = [t \in Tenant |-> IF lock[t] = f THEN new[t] ELSE stamp[t]]
        /\ rest = [t \in Tenant |-> IF lock[t] = f THEN 0 ELSE mark[t]]
        /\ stamp' = [t \in Tenant |-> Renumbered(old[t], old, rest)]
        /\ mark' = [t \in Tenant |-> Renumbered(rest[t], old, rest)]
  BY DEF Stored
<1>2. old \in [Tenant -> Nat] /\ rest \in [Tenant -> Nat]
  BY <1>1 DEF CountTypes
<1>3. \A x \in Tenant : /\ lock[x] = f => old[x] = new[x] /\ rest[x] = 0
                        /\ lock[x] # f => old[x] = stamp[x] /\ rest[x] = mark[x]
  BY <1>1
<1>4. \A x \in Tenant : old[x] \in Times(old, rest) /\ rest[x] \in Times(old, rest)
  BY DEF Times
<1>5. \A x \in Tenant : /\ stamp'[x] = Renumbered(old[x], old, rest)
                        /\ mark'[x] = Renumbered(rest[x], old, rest)
  BY <1>1
<1>6. stamp' \in [Tenant -> Nat] /\ mark' \in [Tenant -> Nat]
  <2>1. \A x \in Tenant : /\ Renumbered(old[x], old, rest) \in Nat
                          /\ Renumbered(rest[x], old, rest) \in Nat
    BY <1>2, <1>4, OrderIsKept
  <2> QED
    BY <1>1, <2>1
<1>7. ASSUME NEW x \in Tenant, NEW y \in Tenant
      PROVE  /\ stamp'[x] < stamp'[y] <=> old[x] < old[y]
             /\ stamp'[x] = stamp'[y] <=> old[x] = old[y]
             /\ mark'[x] > stamp'[y] <=> rest[x] > old[y]
  <2>1. /\ old[x] < old[y] <=> Renumbered(old[x], old, rest) < Renumbered(old[y], old, rest)
        /\ old[x] = old[y] <=> Renumbered(old[x], old, rest) = Renumbered(old[y], old, rest)
    BY <1>2, <1>4, OrderIsKept
  <2>2. old[y] < rest[x] <=> Renumbered(old[y], old, rest) < Renumbered(rest[x], old, rest)
    BY <1>2, <1>4, OrderIsKept
  <2>3. rest[x] > old[y] <=> old[y] < rest[x]
    BY <1>2
  <2>4. mark'[x] > stamp'[y] <=> stamp'[y] < mark'[x]
    BY <1>6
  <2> QED
    BY <1>5, <2>1, <2>2, <2>3, <2>4
<1>8. ASSUME NEW x \in Tenant PROVE mark'[x] = 0 <=> rest[x] = 0
  BY <1>2, <1>4, <1>5, OrderIsKept
<1> QED
  BY SMTT(90), <1>2, <1>3, <1>6, <1>7, <1>8

\* A page less its first tenant.
LEMMA TailIs ==
  ASSUME NEW s \in Seq(Tenant), s # <<>>
  PROVE  /\ Len(s) \in Nat \ {0} /\ Head(s) = s[1] /\ Head(s) \in Tenant
         /\ Tail(s) \in Seq(Tenant) /\ Len(Tail(s)) = Len(s) - 1
         /\ \A i \in 1 .. Len(Tail(s)) : i + 1 \in 1 .. Len(s) /\ Tail(s)[i] = s[i + 1]
<1>1. Len(s) \in Nat \ {0}
  BY EmptySeq, LenProperties
<1>2. Tail(s) \in Seq(Tenant) /\ Len(Tail(s)) = Len(s) - 1 /\ Head(s) \in Tenant
      /\ \A i \in 1 .. Len(Tail(s)) : Tail(s)[i] = s[i + 1]
  BY HeadTailProperties
<1>3. Head(s) = s[1]
  BY <1>1
<1> QED
  BY <1>1, <1>2, <1>3

\* A page of candidates is a sequence with each of them once, in the order of the round.
LEMMA OrderIs ==
  ASSUME NEW f, NEW S \in SUBSET Tenant, NEW order \in Orders(f, S)
  PROVE  /\ order \in Seq(Tenant) /\ Len(order) \in Nat
         /\ \A i \in 1 .. Len(order) : order[i] \in S
         /\ \A t \in S : \E i \in 1 .. Len(order) : order[i] = t
         /\ \A i, j \in 1 .. Len(order) : i < j => Precedes(f, order[i], order[j])
<1>1. PICK n \in Nat : n = Cardinality(S)
  BY OutboxOK, FS_Subset, FS_CardinalityType
<1>2. /\ order \in [1 .. n -> S] /\ \A t \in S : \E i \in 1 .. n : order[i] = t
      /\ \A i, j \in 1 .. n : i < j => Precedes(f, order[i], order[j])
  BY <1>1 DEF Orders
<1>3. order \in Seq(S) /\ Len(order) = n
  BY <1>2, SeqDef, LenProperties
<1>4. order \in Seq(Tenant)
  BY <1>2, SeqDef
<1> QED
  BY <1>2, <1>3, <1>4

\* A page's order, as far as cursors that the round has not locked are concerned.
LEMMA PrecedesIs ==
  ASSUME Books, NEW f \in Flusher, NEW t \in Tenant, NEW u \in Tenant, t \notin checked[f], u \notin checked[f]
  PROVE  Precedes(f, t, u) <=> Leads(t, u)
<1>1. lock[t] # f /\ lock[u] # f
  BY OutboxOK DEF Books, MarkFits
<1>2. SeenStamp(f, t) = stamp[t] /\ SeenStamp(f, u) = stamp[u]
  BY <1>1 DEF SeenStamp
<1> QED
  BY <1>2 DEF Precedes, Leads

\* The query's order is a strict total one.
LEMMA LeadsIsOrder ==
  ASSUME CountTypes, NEW t \in Tenant, NEW u \in Tenant, NEW v \in Tenant
  PROVE  /\ ~Leads(t, t)
         /\ ~(Leads(t, u) /\ Leads(u, t))
         /\ Leads(t, u) /\ Leads(u, v) => Leads(t, v)
<1>1. /\ stamp[t] \in Nat /\ stamp[u] \in Nat /\ stamp[v] \in Nat
      /\ Before[t] \in Nat /\ Before[u] \in Nat /\ Before[v] \in Nat
  BY OutboxOK DEF CountTypes
<1> QED
  BY <1>1 DEF Leads

\* A page of candidates.
LEMMA PageIs ==
  ASSUME Books, NEW f \in Flusher, CandidatePage(f)
  PROVE  \E S \in SUBSET Tenant, order \in Seq(Tenant) :
           /\ page[f] = <<>> /\ f \in active
           /\ page' = [page EXCEPT ![f] = order]
           /\ checked' = [checked EXCEPT ![f] = checked[f] \cup S]
           /\ S \cap checked[f] = {}
           /\ \A i \in 1 .. Len(order) : order[i] \in S
           /\ \A t \in S : \E i \in 1 .. Len(order) : order[i] = t
           /\ \A i, j \in 1 .. Len(order) : i < j => Leads(order[i], order[j])
           /\ \A t \in S, u \in Tenant \ checked[f] :
                Leads(u, t) /\ (\E r \in Rows(u) : r \in Due(f)) => u \in S
           /\ UNCHANGED <<row, stamp, active, early, lock, mark, done, refused, bypassed, rollbacks>>
<1>1. PICK due, S, order :
        /\ due = {TenantOf[r] : r \in Due(f)} \ checked[f]
        /\ S = {t \in due : Cardinality({u \in due : Precedes(f, u, t)}) < RoundLimit}
        /\ order \in Orders(f, S)
        /\ page' = [page EXCEPT ![f] = order]
        /\ checked' = [checked EXCEPT ![f] = checked[f] \cup S]
  BY DEF CandidatePage
<1>2. /\ page[f] = <<>> /\ f \in active
      /\ UNCHANGED <<row, stamp, active, early, lock, mark, done, refused, bypassed, rollbacks>>
  BY DEF CandidatePage, rowVars
<1>3. Due(f) \subseteq Row
  BY DEF Due, Books, CountTypes
<1>4. due \subseteq Tenant /\ due \cap checked[f] = {}
  BY <1>1, <1>3, OutboxOK
<1>5. S \subseteq due /\ S \subseteq Tenant
  BY <1>1, <1>4
<1>6. /\ order \in Seq(Tenant) /\ Len(order) \in Nat
      /\ \A i \in 1 .. Len(order) : order[i] \in S
      /\ \A t \in S : \E i \in 1 .. Len(order) : order[i] = t
      /\ \A i, j \in 1 .. Len(order) : i < j => Precedes(f, order[i], order[j])
  BY ZenonT(90), <1>1, <1>5, OrderIs
<1>7. \A t, u \in due : Precedes(f, t, u) <=> Leads(t, u)
  BY <1>4, PrecedesIs
<1>8. \A i, j \in 1 .. Len(order) : i < j => Leads(order[i], order[j])
  BY <1>5, <1>6, <1>7
<1>9. ASSUME NEW t \in S, NEW u \in Tenant \ checked[f], Leads(u, t), \E r \in Rows(u) : r \in Due(f)
      PROVE  u \in S
  <2>1. u \in due
    BY <1>1, <1>9 DEF Rows
  <2>2. PICK A, B : A = {v \in due : Precedes(f, v, u)} /\ B = {v \in due : Precedes(f, v, t)}
    OBVIOUS
  <2>3. A \subseteq B
    <3> SUFFICES ASSUME NEW v \in due, Precedes(f, v, u) PROVE Precedes(f, v, t)
      BY <2>2
    <3>1. Leads(v, u) /\ v \in Tenant /\ t \in Tenant /\ t \in due
      BY <1>4, <1>5, <1>7, <2>1
    <3>2. Leads(v, t)
      BY <1>9, <3>1, LeadsIsOrder DEF Books
    <3> QED
      BY <1>7, <3>1, <3>2
  <2>4. IsFiniteSet(B)
    BY <1>4, <2>2, OutboxOK, FS_Subset
  <2>5. Cardinality(A) <= Cardinality(B) /\ Cardinality(A) \in Nat /\ Cardinality(B) \in Nat
    BY <2>3, <2>4, FS_Subset, FS_CardinalityType
  <2>6. Cardinality(B) < RoundLimit
    BY <1>1, <2>2
  <2>7. Cardinality(A) < RoundLimit
    BY <2>5, <2>6, OutboxOK
  <2> QED
    BY <1>1, <2>1, <2>2, <2>7
<1>10. S \cap checked[f] = {}
  BY <1>4, <1>5
<1> S \in SUBSET Tenant /\ order \in Seq(Tenant)
  BY <1>5, <1>6
<1> WITNESS S \in SUBSET Tenant, order \in Seq(Tenant)
<1> QED
  BY <1>1, <1>2, <1>6, <1>8, <1>9, <1>10

\* A round goes on to the next tenants of its page.
GoesOn(f) ==
  /\ page' \in [Flusher -> Seq(Tenant)] /\ \A g \in Flusher : g # f => page'[g] = page[g]
  /\ \A i \in 1 .. Len(page'[f]) : i + 1 \in 1 .. Len(page[f]) /\ page'[f][i] = page[f][i + 1]

\* A round goes on to the rest of its page, or drops it.
LEMMA NextIs ==
  ASSUME Books, NEW f \in Flusher, page[f] # <<>>,
         page' = [page EXCEPT ![f] = <<>>] \/ page' = [page EXCEPT ![f] = Tail(page[f])]
  PROVE  GoesOn(f)
<1>1. page \in [Flusher -> Seq(Tenant)] /\ page[f] \in Seq(Tenant)
  BY DEF Books, CountTypes
<1>2. \A g \in Flusher : g # f => page'[g] = page[g]
  BY <1>1
<1>3. CASE page' = [page EXCEPT ![f] = <<>>]
  <2>1. page'[f] = <<>> /\ page' \in [Flusher -> Seq(Tenant)]
    BY <1>1, <1>3, EmptySeq
  <2>2. Len(page'[f]) = 0
    BY <2>1, EmptySeq
  <2> QED
    BY <1>2, <2>1, <2>2 DEF GoesOn
<1>4. CASE page' = [page EXCEPT ![f] = Tail(page[f])]
  <2>1. Tail(page[f]) \in Seq(Tenant)
        /\ \A i \in 1 .. Len(Tail(page[f])) : i + 1 \in 1 .. Len(page[f]) /\ Tail(page[f])[i] = page[f][i + 1]
    BY <1>1, TailIs
  <2>2. page'[f] = Tail(page[f]) /\ page' \in [Flusher -> Seq(Tenant)]
    BY <1>1, <1>4, <2>1
  <2> QED
    BY <1>2, <2>1, <2>2 DEF GoesOn
<1> QED
  BY <1>3, <1>4

\* A service of a tenant whose cursor was free.
LEMMA ServeIs ==
  ASSUME OutboxInv, Books, NEW f \in Flusher, NEW accepted, Serve(f, accepted)
  PROVE  \E x \in Tenant, records \in SUBSET Row :
           /\ f \in active /\ 1 \in 1 .. Len(page[f]) /\ x = page[f][1] /\ lock[x] = Nobody /\ mark[x] = 0
           /\ records \subseteq Rows(x)
           /\ lock' = [lock EXCEPT ![x] = f]
           /\ \A g \in Flusher, r \in Row :
                r \in done'[g] \cup refused'[g] => r \in done[g] \cup refused[g] \/ r \in records
           /\ records = {} => mark' = mark
           /\ records # {} => mark' = [mark EXCEPT ![x] = Later(stamp, mark)]
           /\ GoesOn(f)
           /\ bypassed' = [u \in Watched |->
                IF records = {} THEN bypassed[u]
                ELSE IF u = x THEN [v \in Tenant |-> 0]
                ELSE IF Hungry(u) /\ lock[u] = Nobody /\ StillToCome(f, u)
                THEN [bypassed[u] EXCEPT ![x] = bypassed[u][x] + 1] ELSE bypassed[u]]
           /\ UNCHANGED <<row, stamp, active, early, checked, rollbacks>>
<1>1. PICK x, records :
        /\ x = Head(page[f]) /\ records = Records(f, x)
        /\ f \in active /\ page[f] # <<>> /\ lock[x] \in {Nobody, f} /\ accepted \subseteq records
        /\ lock' = [lock EXCEPT ![x] = f]
        /\ done' = [done EXCEPT ![f] = @ \cup accepted]
        /\ refused' = [refused EXCEPT ![f] = @ \cup (records \ accepted)]
        /\ mark' = (IF Stamps(records, accepted) THEN [mark EXCEPT ![x] = Later(stamp, mark)] ELSE mark)
        /\ page' = [page EXCEPT ![f] = IF attempted[f] + Cardinality(records) >= RoundLimit
                                       THEN <<>> ELSE Tail(page[f])]
        /\ bypassed' = [u \in Watched |->
             IF records = {} THEN bypassed[u]
             ELSE IF u = x THEN [v \in Tenant |-> 0]
             ELSE IF Hungry(u) /\ lock[u] = Nobody /\ StillToCome(f, u)
             THEN [bypassed[u] EXCEPT ![x] = bypassed[u][x] + 1] ELSE bypassed[u]]
        /\ UNCHANGED <<row, stamp, active, early, checked, rollbacks>>
  BY DEF Serve, rowVars
<1>2. page[f] \in Seq(Tenant)
  BY DEF Books, CountTypes
<1>3. x = page[f][1] /\ x \in Tenant /\ 1 \in 1 .. Len(page[f])
  BY <1>1, <1>2, TailIs
<1>4. lock[x] = Nobody
  BY <1>1, <1>3 DEF Books, PageFits
<1>5. mark[x] = 0
  BY <1>3, <1>4 DEF Books, MarkFits
<1>6. records \subseteq Rows(x) /\ records \subseteq Row
  BY <1>1, RecordsDue DEF Rows
<1>7. ASSUME NEW g \in Flusher, NEW r \in Row, r \in done'[g] \cup refused'[g]
      PROVE  r \in done[g] \cup refused[g] \/ r \in records
  BY <1>1, <1>7 DEF OutboxInv, RowTypes
<1>8. GoesOn(f)
  BY <1>1, NextIs
<1>9. (records = {} => mark' = mark) /\ (records # {} => mark' = [mark EXCEPT ![x] = Later(stamp, mark)])
  BY <1>1 DEF Stamps
<1> x \in Tenant /\ records \in SUBSET Row
  BY <1>3, <1>6
<1> WITNESS x \in Tenant, records \in SUBSET Row
<1> QED
  BY <1>1, <1>3, <1>4, <1>5, <1>6, <1>7, <1>8, <1>9

\* Books is kept by each action, first by the start of a round.
LEMMA BeginBooks ==
  ASSUME OutboxInv, Books, NEW f \in Flusher, Begin(f)
  PROVE  Books'
<1>1. /\ f \notin active /\ active' = active \cup {f}
      /\ early' = [early EXCEPT ![f] = {r \in Row : row[r] = "due"}]
      /\ UNCHANGED <<row, stamp, page, checked, lock, mark, bypassed, rollbacks>>
  BY DEF Begin, rowVars
<1>2. CountTypes'
  BY <1>1 DEF Books, CountTypes
<1>3. ASSUME NEW g \in Flusher PROVE PageFits(g)'
  BY <1>1 DEF Books, PageFits
<1>4. ASSUME NEW t \in Tenant PROVE MarkFits(t)'
  BY <1>1 DEF Books, MarkFits
<1> QED
  BY <1>2, <1>3, <1>4 DEF Books

\* A page read lists tenants that the round has not served.
LEMMA CandidateBooks ==
  ASSUME OutboxInv, Books, NEW f \in Flusher, CandidatePage(f)
  PROVE  Books'
<1>1. PICK S \in SUBSET Tenant, order \in Seq(Tenant) :
        /\ page[f] = <<>> /\ f \in active
        /\ page' = [page EXCEPT ![f] = order]
        /\ checked' = [checked EXCEPT ![f] = checked[f] \cup S]
        /\ S \cap checked[f] = {}
        /\ \A i \in 1 .. Len(order) : order[i] \in S
        /\ \A i, j \in 1 .. Len(order) : i < j => Leads(order[i], order[j])
        /\ UNCHANGED <<active, early, stamp, lock, mark, bypassed, rollbacks>>
  BY PageIs
<1>2. page \in [Flusher -> Seq(Tenant)] /\ checked \in [Flusher -> SUBSET Tenant]
  BY DEF Books, CountTypes
<1>3. page'[f] = order /\ checked'[f] = checked[f] \cup S
      /\ \A g \in Flusher : g # f => page'[g] = page[g] /\ checked'[g] = checked[g]
  BY <1>1, <1>2
<1>4. page' \in [Flusher -> Seq(Tenant)] /\ checked' \in [Flusher -> SUBSET Tenant]
  BY <1>1, <1>2
<1>5. CountTypes'
  BY <1>1, <1>4 DEF Books, CountTypes
<1>6. Len(order) \in Nat
  BY LenProperties
<1>7. PageFits(f)'
  <2>1. ASSUME NEW i \in 1 .. Len(order)
        PROVE  /\ order[i] \in checked'[f] /\ lock'[order[i]] # f
               /\ \A j \in 1 .. Len(order) : order[i] = order[j] => i = j
    <3>1. order[i] \in S /\ order[i] \in Tenant /\ order[i] \notin checked[f]
      BY <1>1
    <3>2. lock[order[i]] # f
      BY <3>1, OutboxOK DEF Books, MarkFits
    <3>3. ASSUME NEW j \in 1 .. Len(order), order[i] = order[j] PROVE i = j
      <4>1. ~Leads(order[i], order[j]) /\ ~Leads(order[j], order[i])
        BY <3>1, <3>3, LeadsIsOrder DEF Books
      <4>2. ~(i < j) /\ ~(j < i)
        BY <1>1, <4>1
      <4> QED
        BY <1>6, <4>2
    <3> QED
      BY <1>1, <1>3, <3>1, <3>2, <3>3
  <2> QED
    BY <1>1, <1>3, <2>1 DEF PageFits
<1>8. ASSUME NEW g \in Flusher, g # f PROVE PageFits(g)'
  BY <1>1, <1>3, <1>8 DEF Books, PageFits
<1>9. ASSUME NEW t \in Tenant PROVE MarkFits(t)'
  <2>1. \A g \in Flusher : checked[g] \subseteq checked'[g]
    BY <1>3
  <2>2. lock[t] # Nobody => lock[t] \in Flusher
    BY DEF OutboxInv, RowTypes
  <2> QED
    BY <1>1, <2>1, <2>2 DEF Books, MarkFits
<1> QED
  BY <1>5, <1>7, <1>8, <1>9 DEF Books

\* What a round leaves of its page fits as it did.
LEMMA GoesOnFits ==
  ASSUME Books, NEW f \in Flusher, GoesOn(f), UNCHANGED <<active, checked>>, f \in active,
         \A i \in 1 .. Len(page[f]) : i > 1 => lock'[page[f][i]] # f,
         NEW g \in Flusher, g # f => \A x \in Tenant : lock'[x] = g => lock[x] = g
  PROVE  PageFits(g)'
<1>1. CASE g = f
  <2>1. ASSUME NEW i \in 1 .. Len(page'[f])
        PROVE  /\ page'[f][i] \in checked[f] /\ lock'[page'[f][i]] # f
               /\ \A j \in 1 .. Len(page'[f]) : page'[f][i] = page'[f][j] => i = j
    <3>1. i \in Nat /\ i + 1 > 1 /\ i + 1 \in 1 .. Len(page[f]) /\ page'[f][i] = page[f][i + 1]
      BY DEF GoesOn
    <3>2. ASSUME NEW j \in 1 .. Len(page'[f]), page'[f][i] = page'[f][j] PROVE i = j
      <4>1. j \in Nat /\ j + 1 \in 1 .. Len(page[f]) /\ page'[f][j] = page[f][j + 1]
        BY DEF GoesOn
      <4>2. i + 1 = j + 1
        BY ZenonT(90), <3>1, <3>2, <4>1 DEF Books, PageFits
      <4> QED
        BY <3>1, <4>1, <4>2
    <3>3. page[f][i + 1] \in checked[f]
      BY <3>1 DEF Books, PageFits
    <3> QED
      BY <3>1, <3>2, <3>3
  <2> QED
    BY <1>1, <2>1 DEF PageFits
<1>2. CASE g # f
  <2>1. page'[g] = page[g]
    BY <1>2 DEF GoesOn
  <2>2. \A i \in 1 .. Len(page[g]) : page[g][i] \in Tenant
    <3>1. page[g] \in Seq(Tenant)
      BY DEF Books, CountTypes
    <3> QED
      BY <3>1, LenProperties
  <2> QED
    BY <1>2, <2>1, <2>2 DEF Books, PageFits
<1> QED
  BY <1>1, <1>2

\* A locked tenant is left out of the page.
LEMMA SkipBooks ==
  ASSUME OutboxInv, Books, NEW f \in Flusher, SkipLocked(f)
  PROVE  Books' /\ GoesOn(f)
<1>1. /\ f \in active /\ page[f] # <<>> /\ page' = [page EXCEPT ![f] = Tail(page[f])]
      /\ UNCHANGED <<row, stamp, active, early, checked, lock, mark, bypassed, rollbacks>>
  BY DEF SkipLocked, rowVars
<1>2. GoesOn(f)
  BY <1>1, NextIs
<1>3. CountTypes'
  BY <1>1, <1>2 DEF Books, CountTypes, GoesOn
<1>4. \A i \in 1 .. Len(page[f]) : i > 1 => lock'[page[f][i]] # f
  BY <1>1 DEF Books, PageFits
<1>5. ASSUME NEW g \in Flusher PROVE PageFits(g)'
  BY <1>1, <1>2, <1>4, GoesOnFits
<1>6. ASSUME NEW t \in Tenant PROVE MarkFits(t)'
  BY <1>1 DEF Books, MarkFits
<1> QED
  BY <1>2, <1>3, <1>5, <1>6 DEF Books

\* A service locks the cursor of a tenant that is no longer on the page.
LEMMA ServeBooks ==
  ASSUME OutboxInv, Books, NEW f \in Flusher, NEW accepted, Serve(f, accepted)
  PROVE  Books'
<1>1. PICK x \in Tenant, records \in SUBSET Row :
        /\ f \in active /\ 1 \in 1 .. Len(page[f]) /\ x = page[f][1] /\ lock[x] = Nobody /\ mark[x] = 0
        /\ lock' = [lock EXCEPT ![x] = f]
        /\ records = {} => mark' = mark
        /\ records # {} => mark' = [mark EXCEPT ![x] = Later(stamp, mark)]
        /\ GoesOn(f)
        /\ bypassed' = [u \in Watched |->
             IF records = {} THEN bypassed[u]
             ELSE IF u = x THEN [v \in Tenant |-> 0]
             ELSE IF Hungry(u) /\ lock[u] = Nobody /\ StillToCome(f, u)
             THEN [bypassed[u] EXCEPT ![x] = bypassed[u][x] + 1] ELSE bypassed[u]]
        /\ UNCHANGED <<row, stamp, active, early, checked, rollbacks>>
  BY ZenonT(90), ServeIs
<1>2. stamp \in [Tenant -> Nat] /\ mark \in [Tenant -> Nat] /\ lock \in [Tenant -> Flusher \cup {Nobody}]
  BY DEF Books, CountTypes, OutboxInv, RowTypes
<1>3. Later(stamp, mark) \in Nat \ {0} /\ \A t \in Tenant : Later(stamp, mark) > stamp[t]
  BY <1>2, LaterIsLater
<1>4. mark' \in [Tenant -> Nat]
  BY SMTT(90), <1>1, <1>2, <1>3
<1>5. bypassed' \in [Watched -> [Tenant -> Nat]]
  <2>1. \A u \in Watched : bypassed[u] \in [Tenant -> Nat]
    BY DEF Books, CountTypes
  <2>2. \A u \in Watched : /\ [v \in Tenant |-> 0] \in [Tenant -> Nat]
                           /\ [bypassed[u] EXCEPT ![x] = bypassed[u][x] + 1] \in [Tenant -> Nat]
    BY <2>1
  <2> QED
    BY <1>1, <2>1, <2>2
<1>6. CountTypes'
  BY <1>1, <1>4, <1>5 DEF Books, CountTypes, GoesOn
<1>7. \A i \in 1 .. Len(page[f]) : i > 1 => lock'[page[f][i]] # f
  <2> SUFFICES ASSUME NEW i \in 1 .. Len(page[f]), i > 1 PROVE lock'[page[f][i]] # f
    OBVIOUS
  <2>1. page[f][i] # x /\ lock[page[f][i]] # f
    BY <1>1 DEF Books, PageFits
  <2>2. page[f][i] \in Tenant
    <3>1. page[f] \in Seq(Tenant)
      BY DEF Books, CountTypes
    <3> QED
      BY <3>1, LenProperties
  <2> QED
    BY <1>1, <1>2, <2>1, <2>2
<1>8. ASSUME NEW g \in Flusher PROVE PageFits(g)'
  <2>1. g # f => \A t \in Tenant : lock'[t] = g => lock[t] = g
    BY <1>1, <1>2
  <2> QED
    BY <1>1, <1>7, <2>1, GoesOnFits
<1>9. ASSUME NEW t \in Tenant PROVE MarkFits(t)'
  <2>1. CASE t # x
    BY <1>1, <1>2, <2>1 DEF Books, MarkFits
  <2>2. CASE t = x
    <3>1. lock'[t] = f /\ lock'[t] # Nobody /\ x \in checked[f]
      BY <1>1, <1>2, <2>2, OutboxOK DEF Books, PageFits
    <3>2. mark'[t] # 0 => mark'[t] > stamp[t]
      BY <1>1, <1>2, <1>3, <2>2
    <3> QED
      BY <1>1, <2>2, <3>1, <3>2 DEF MarkFits
  <2> QED
    BY <2>1, <2>2
<1> QED
  BY <1>6, <1>8, <1>9 DEF Books

\* The end of a round, committed or not, releases its cursors and their marks.
LEMMA EndBooks ==
  ASSUME OutboxInv, Books, NEW f \in Flusher, f \in active, EndRound(f), NEW new \in [Tenant -> Nat], Stored(f, new),
         bypassed' = bypassed, rollbacks' \in Nat
  PROVE  Books'
<1>1. /\ active' = active \ {f}
      /\ early' = [early EXCEPT ![f] = {}]
      /\ page' = [page EXCEPT ![f] = <<>>] /\ checked' = [checked EXCEPT ![f] = {}]
      /\ lock' = [t \in Tenant |-> IF lock[t] = f THEN Nobody ELSE lock[t]]
  BY DEF EndRound
<1>2. PICK old \in [Tenant -> Nat], rest \in [Tenant -> Nat] :
        /\ \A x \in Tenant : /\ lock[x] = f => old[x] = new[x] /\ rest[x] = 0
                             /\ lock[x] # f => old[x] = stamp[x] /\ rest[x] = mark[x]
        /\ stamp' \in [Tenant -> Nat] /\ mark' \in [Tenant -> Nat]
        /\ \A x, y \in Tenant : mark'[x] > stamp'[y] <=> rest[x] > old[y]
        /\ \A x \in Tenant : mark'[x] = 0 <=> rest[x] = 0
  BY SMTT(90), StoredKeeps DEF Books
<1>3. page \in [Flusher -> Seq(Tenant)] /\ checked \in [Flusher -> SUBSET Tenant]
  BY DEF Books, CountTypes
<1>4. page' \in [Flusher -> Seq(Tenant)]
  BY <1>1, <1>3, EmptySeq
<1>5. CountTypes'
  BY <1>1, <1>2, <1>4 DEF Books, CountTypes
<1>6. ASSUME NEW g \in Flusher PROVE PageFits(g)'
  <2>1. CASE g = f
    <3>1. page'[f] = <<>> /\ checked'[f] = {}
      BY <1>1, <1>3
    <3>2. Len(page'[f]) = 0
      BY <3>1, EmptySeq
    <3> QED
      BY <2>1, <3>1, <3>2 DEF PageFits
  <2>2. CASE g # f
    <3>1. page'[g] = page[g] /\ checked'[g] = checked[g] /\ (g \in active' <=> g \in active)
      BY <1>1, <1>3, <2>2
    <3>2. \A i \in 1 .. Len(page[g]) : page[g][i] \in Tenant
      <4>1. page[g] \in Seq(Tenant)
        BY <1>3
      <4> QED
        BY <4>1, LenProperties
    <3>3. \A t \in Tenant : lock[t] # g => lock'[t] # g
      BY <1>1, OutboxOK
    <3> QED
      BY ZenonT(90), <3>1, <3>2, <3>3 DEF Books, PageFits
  <2> QED
    BY <2>1, <2>2
<1>7. ASSUME NEW t \in Tenant PROVE MarkFits(t)'
  <2>1. CASE lock[t] = f
    <3>1. lock'[t] = Nobody /\ mark'[t] = 0
      BY <1>1, <1>2, <2>1
    <3> QED
      BY <3>1 DEF MarkFits
  <2>2. CASE lock[t] # f
    <3>1. lock'[t] = lock[t] /\ rest[t] = mark[t] /\ old[t] = stamp[t]
      BY <1>1, <1>2, <2>2
    <3>2. lock[t] # Nobody => lock[t] \in active' /\ t \in checked'[lock[t]]
      <4>1. lock[t] \in Flusher \cup {Nobody}
        BY DEF OutboxInv, RowTypes
      <4> QED
        BY <1>1, <1>3, <2>2, <4>1 DEF Books, MarkFits
    <3>3. mark'[t] # 0 => lock[t] # Nobody /\ mark'[t] > stamp'[t]
      BY <1>2, <3>1 DEF Books, MarkFits
    <3> QED
      BY <3>1, <3>2, <3>3 DEF MarkFits
  <2> QED
    BY <2>1, <2>2
<1> QED
  BY <1>5, <1>6, <1>7 DEF Books

\* What a commit stores is the time of each service.
LEMMA CommitIs ==
  ASSUME Books, NEW f \in Flusher, Commit(f)
  PROVE  \E new \in [Tenant -> Nat] :
           /\ \A t \in Tenant : lock[t] = f => new[t] = IF mark[t] # 0 THEN mark[t] ELSE stamp[t]
           /\ Stored(f, new) /\ EndRound(f) /\ Published(f) /\ f \in active
           /\ UNCHANGED <<bypassed, rollbacks>>
<1>1. PICK new : new = [t \in Tenant |-> SeenStamp(f, t)]
  OBVIOUS
<1>2. new \in [Tenant -> Nat]
  BY <1>1 DEF SeenStamp, Books, CountTypes
<1>3. \A t \in Tenant : lock[t] = f => new[t] = IF mark[t] # 0 THEN mark[t] ELSE stamp[t]
  BY <1>1 DEF SeenStamp
<1>4. /\ Stored(f, new) /\ EndRound(f) /\ Published(f) /\ f \in active
      /\ UNCHANGED <<bypassed, rollbacks>>
  BY <1>1 DEF Commit
<1> QED
  BY <1>2, <1>3, <1>4

\* The end of a round by its commit.
LEMMA CommitBooks ==
  ASSUME OutboxInv, Books, NEW f \in Flusher, Commit(f)
  PROVE  Books'
<1>1. PICK new \in [Tenant -> Nat] :
        Stored(f, new) /\ EndRound(f) /\ f \in active /\ UNCHANGED <<bypassed, rollbacks>>
  BY CommitIs
<1>2. rollbacks' \in Nat
  BY <1>1 DEF Books, CountTypes
<1> QED
  BY <1>1, <1>2, EndBooks

\* The end of a round by a rollback.
LEMMA CrashBooks ==
  ASSUME OutboxInv, Books, NEW f \in Flusher, Crash(f)
  PROVE  Books'
<1>1. Stored(f, stamp) /\ EndRound(f) /\ f \in active /\ bypassed' = bypassed /\ rollbacks' = rollbacks + 1
  BY DEF Crash
<1>2. rollbacks' \in Nat /\ stamp \in [Tenant -> Nat]
  BY <1>1 DEF Books, CountTypes
<1> QED
  BY <1>1, <1>2, EndBooks

\* Business transactions change no cursor and no page.
LEMMA OtherBooks ==
  ASSUME OutboxInv, Books, NEW r \in Row, Enqueue(r) \/ BackoffEnds(r) \/ Repair(r) \/ Consume(r)
  PROVE  Books'
<1>1. UNCHANGED <<stamp, active, page, checked, lock, mark, rollbacks>>
  BY DEF Enqueue, BackoffEnds, Repair, Consume, roundVars
<1>2. early' \in [Flusher -> SUBSET Row] /\ bypassed' \in [Watched -> [Tenant -> Nat]]
  <2>1. CASE Consume(r)
    BY <2>1 DEF Consume, roundVars, Books, CountTypes
  <2>2. CASE BecomeDue(r)
    BY <2>2 DEF BecomeDue, Awaits, Books, CountTypes
  <2> QED
    BY <2>1, <2>2 DEF Enqueue, BackoffEnds, Repair
<1>3. CountTypes'
  BY <1>1, <1>2 DEF Books, CountTypes
<1>4. ASSUME NEW g \in Flusher PROVE PageFits(g)'
  BY <1>1 DEF Books, PageFits
<1>5. ASSUME NEW t \in Tenant PROVE MarkFits(t)'
  BY <1>1 DEF Books, MarkFits
<1> QED
  BY <1>3, <1>4, <1>5 DEF Books

\* Books is kept by every step.
LEMMA BooksKept == ASSUME OutboxInv, Books, [OutboxNext]_outboxVars PROVE Books'
<1>1. CASE UNCHANGED outboxVars
  BY <1>1 DEF outboxVars, rowVars, roundVars, Books, CountTypes, PageFits, MarkFits
<1> QED
  BY <1>1, BeginBooks, CandidateBooks, SkipBooks, ServeBooks, CommitBooks, CrashBooks,
     OtherBooks
  DEF OutboxNext, Round

\* What can be sent of a tenant can still be sent.
RowsKept(u) ==
  \A r \in Rows(u) : row[r] = "due" /\ ~InFlight(r) => row'[r] = "due" /\ ~InFlight(r)'

\* A tenant whose rows are untouched stays hungry.
LEMMA HungerKept ==
  ASSUME NEW u, RowsKept(u), Hungry(u)
  PROVE  Hungry(u)'
<1>1. PICK r \in Rows(u) : row[r] = "due" /\ ~InFlight(r)
  BY DEF Hungry
<1>2. row'[r] = "due" /\ ~InFlight(r)' /\ r \in Rows(u)'
  BY <1>1 DEF RowsKept, Rows
<1> QED
  BY <1>2 DEF Hungry

\* A round that comes to u first goes on to do so.
LEMMA FirstKept ==
  ASSUME Books, NEW g \in Flusher, NEW u, NEW t, ComesFirst(g, u, t), RowsKept(u), checked'[g] = checked[g],
         \A r \in Row : r \in early[g] /\ row[r] = "due" => r \in early'[g],
         page'[g] = page[g] \/ GoesOn(g)
  PROVE  ComesFirst(g, u, t)'
<1>1. \A i \in 1 .. Len(page'[g]) : page'[g][i] = t =>
        u \in checked[g] /\ \A j \in 1 .. Len(page'[g]) : page'[g][j] = u => j < i
  <2>1. CASE page'[g] = page[g]
    BY <2>1 DEF ComesFirst
  <2>2. CASE GoesOn(g)
    <3>1. \A i \in 1 .. Len(page'[g]) : /\ i + 1 \in 1 .. Len(page[g]) /\ i \in Nat
                                        /\ page[g][i + 1] = page'[g][i]
      BY <2>2 DEF GoesOn
    <3> SUFFICES ASSUME NEW i \in 1 .. Len(page'[g]), page'[g][i] = t
        PROVE u \in checked[g] /\ \A j \in 1 .. Len(page'[g]) : page'[g][j] = u => j < i
      OBVIOUS
    <3>2. u \in checked[g] /\ \A j \in 1 .. Len(page[g]) : page[g][j] = u => j < i + 1
      BY SMTT(90), <3>1 DEF ComesFirst
    <3>3. ASSUME NEW j \in 1 .. Len(page'[g]), page'[g][j] = u PROVE j < i
      <4>1. j + 1 \in 1 .. Len(page[g]) /\ page[g][j + 1] = u
        BY <3>1, <3>3, Zenon
      <4>2. j + 1 < i + 1
        BY <3>2, <4>1, Zenon
      <4> QED
        BY <3>1, <4>2
    <3> QED
      BY <3>2, <3>3
  <2> QED
    BY <2>1, <2>2
<1>2. Waits(g, u) => Waits(g, u)'
  <2> SUFFICES ASSUME NEW r \in Rows(u), r \in early[g], row[r] = "due", ~InFlight(r) PROVE Waits(g, u)'
    BY DEF Waits
  <2>1. r \in Row /\ r \in Rows(u)' /\ r \in early'[g] /\ row'[r] = "due" /\ ~InFlight(r)'
    BY DEF RowsKept, Rows
  <2> QED
    BY <2>1 DEF Waits
<1>3. t \in checked'[g] \/ u \in checked'[g] \/ Waits(g, u)'
  BY <1>2 DEF ComesFirst
<1> QED
  BY <1>1, <1>3 DEF ComesFirst

\* The rounds that may pass over a tenant are finitely many.
LEMMA PassingIs ==
  ASSUME Books, OutboxInv, NEW u, NEW t
  PROVE  /\ Passing(u, t) \subseteq Flusher /\ IsFiniteSet(Passing(u, t))
         /\ Cardinality(Passing(u, t)) \in Nat /\ Cardinality(Flusher) \in Nat
         /\ Cardinality(Passing(u, t)) <= Cardinality(Flusher)
<1>1. Passing(u, t) \subseteq Flusher
  BY DEF Passing, OutboxInv, RowTypes
<1> QED
  BY <1>1, OutboxOK, FS_Subset, FS_CardinalityType

\* What is charged stays covered by a step that does not serve t.
LEMMA StillCharged ==
  ASSUME Books, Books', OutboxInv, OutboxInv', NEW u \in Watched, NEW t \in Tenant, Charged(u, t),
         bypassed'[u][t] = bypassed[u][t] \/ bypassed'[u][t] = 0,
         RowsKept(u), mark[u] = 0 => mark'[u] = 0,
         Leads(u, t)' <=> Leads(u, t),
         mark[t] > stamp[u] => mark'[t] > stamp'[u] \/ rollbacks' = rollbacks + 1,
         rollbacks' = rollbacks \/ rollbacks' = rollbacks + 1,
         u # t /\ Hungry(u) /\ Leads(u, t) => Passing(u, t)' \subseteq Passing(u, t)
  PROVE  Charged(u, t)'
<1>1. CASE bypassed'[u][t] = 0
  BY <1>1 DEF Charged
<1>2. CASE bypassed[u][t] # 0 /\ bypassed'[u][t] = bypassed[u][t]
  <2>1. /\ u # t /\ Hungry(u) /\ mark[u] = 0
        /\ Leads(u, t) => bypassed[u][t] + Cardinality(Passing(u, t)) <= Cardinality(Flusher) + rollbacks
        /\ ~Leads(u, t) => bypassed[u][t] <= rollbacks + IF mark[t] > stamp[u] THEN 1 ELSE 0
    BY <1>2 DEF Charged
  <2>2. Hungry(u)' /\ mark'[u] = 0
    BY <2>1, HungerKept
  <2>3. PICK b \in Nat, k \in Nat, c \in Nat, d \in Nat :
          b = bypassed[u][t] /\ k = Cardinality(Flusher) /\ c = rollbacks /\ d = rollbacks'
    <3>1. bypassed[u][t] \in Nat /\ rollbacks \in Nat /\ rollbacks' \in Nat
      BY OutboxOK DEF Books, CountTypes
    <3> QED
      BY <3>1, PassingIs
  <2>4. CASE Leads(u, t)
    <3>1. PICK p \in Nat, q \in Nat : p = Cardinality(Passing(u, t)) /\ q = Cardinality(Passing(u, t)') /\ q <= p
      <4>1. Passing(u, t)' \subseteq Passing(u, t) /\ IsFiniteSet(Passing(u, t))
        BY <2>1, <2>4, PassingIs
      <4>2. /\ Cardinality(Passing(u, t)') \in Nat /\ Cardinality(Passing(u, t)) \in Nat
            /\ Cardinality(Passing(u, t)') <= Cardinality(Passing(u, t))
        BY <4>1, FS_Subset, FS_CardinalityType
      <4> QED
        BY <4>2
    <3>2. b + p <= k + c
      BY <2>1, <2>3, <2>4, <3>1
    <3>3. b + q <= k + d
      BY <2>3, <3>1, <3>2
    <3>4. bypassed'[u][t] + Cardinality(Passing(u, t)') <= Cardinality(Flusher) + rollbacks'
      BY <1>2, <2>3, <3>1, <3>3
    <3> QED
      BY <2>1, <2>2, <2>4, <3>4 DEF Charged
  <2>5. CASE ~Leads(u, t)
    <3>1. b <= c + IF mark[t] > stamp[u] THEN 1 ELSE 0
      BY <2>1, <2>3, <2>5
    <3>2. b <= d + IF mark'[t] > stamp'[u] THEN 1 ELSE 0
      BY <2>3, <3>1
    <3>3. bypassed'[u][t] <= rollbacks' + IF mark'[t] > stamp'[u] THEN 1 ELSE 0
      BY <1>2, <2>3, <3>2
    <3> QED
      BY <2>1, <2>2, <2>5, <3>3 DEF Charged
  <2> QED
    BY <2>4, <2>5
<1> QED
  BY <1>1, <1>2

\* A new round comes first to whoever leads: it is none that may pass.
LEMMA BeginCharged ==
  ASSUME Books, Books', OutboxInv, OutboxInv', NEW f \in Flusher, Begin(f), NEW u \in Watched, NEW t \in Tenant, Charged(u, t)
  PROVE  Charged(u, t)'
<1>1. /\ f \notin active /\ active' = active \cup {f}
      /\ early' = [early EXCEPT ![f] = {r \in Row : row[r] = "due"}]
      /\ UNCHANGED <<row, stamp, page, checked, lock, mark, done, refused, bypassed, rollbacks>>
  BY DEF Begin, rowVars
<1>2. RowsKept(u)
  BY <1>1 DEF RowsKept, InFlight
<1>3. Leads(u, t)' <=> Leads(u, t)
  BY <1>1 DEF Leads
<1>4. early \in [Flusher -> SUBSET Row]
  BY DEF Books, CountTypes
<1>5. ASSUME Hungry(u) PROVE Passing(u, t)' \subseteq Passing(u, t)
  <2>1. ComesFirst(f, u, t)'
    <3>1. page'[f] = <<>>
      BY <1>1 DEF Books, PageFits
    <3>2. Len(page'[f]) = 0
      BY <3>1, EmptySeq
    <3>3. PICK r \in Rows(u) : row[r] = "due" /\ ~InFlight(r)
      BY <1>5 DEF Hungry
    <3>4. r \in Row /\ r \in Rows(u)' /\ r \in early'[f] /\ row'[r] = "due" /\ ~InFlight(r)'
      BY <1>1, <1>2, <1>4, <3>3 DEF RowsKept, Rows
    <3> QED
      BY <3>2, <3>4 DEF ComesFirst, Waits
  <2>2. ASSUME NEW g \in active, ComesFirst(g, u, t) PROVE ComesFirst(g, u, t)'
    <3>1. g \in Flusher /\ g # f /\ early'[g] = early[g]
      BY <1>1, <1>4 DEF OutboxInv, RowTypes
    <3> QED
      BY <1>1, <1>2, <2>2, <3>1, FirstKept
  <2> QED
    BY <1>1, <2>1, <2>2 DEF Passing
<1>6. bypassed'[u][t] = bypassed[u][t] /\ mark' = mark /\ stamp' = stamp /\ rollbacks' = rollbacks
  BY <1>1
<1> QED
  BY <1>2, <1>3, <1>5, <1>6, StillCharged

\* A page read in the order of the query passes over nobody who leads.
LEMMA CandidateCharged ==
  ASSUME Books, Books', OutboxInv, OutboxInv', NEW f \in Flusher, CandidatePage(f),
         NEW u \in Watched, NEW t \in Tenant, Charged(u, t)
  PROVE  Charged(u, t)'
<1>1. PICK S \in SUBSET Tenant, order \in Seq(Tenant) :
        /\ page[f] = <<>> /\ f \in active
        /\ page' = [page EXCEPT ![f] = order]
        /\ checked' = [checked EXCEPT ![f] = checked[f] \cup S]
        /\ S \cap checked[f] = {}
        /\ \A i \in 1 .. Len(order) : order[i] \in S
        /\ \A v \in S : \E i \in 1 .. Len(order) : order[i] = v
        /\ \A i, j \in 1 .. Len(order) : i < j => Leads(order[i], order[j])
        /\ \A v \in S, w \in Tenant \ checked[f] :
             Leads(w, v) /\ (\E r \in Rows(w) : r \in Due(f)) => w \in S
        /\ UNCHANGED <<row, stamp, active, early, lock, mark, done, refused, bypassed, rollbacks>>
  BY PageIs
<1>2. RowsKept(u)
  BY <1>1 DEF RowsKept, InFlight
<1>3. Leads(u, t)' <=> Leads(u, t)
  BY <1>1 DEF Leads
<1>4. page \in [Flusher -> Seq(Tenant)] /\ checked \in [Flusher -> SUBSET Tenant]
  BY DEF Books, CountTypes
<1>5. page'[f] = order /\ checked'[f] = checked[f] \cup S
      /\ \A g \in Flusher : g # f => page'[g] = page[g] /\ checked'[g] = checked[g]
  BY <1>1, <1>4
<1>6. u \in Tenant /\ Len(order) \in Nat
  BY OutboxOK, LenProperties
<1>7. ASSUME Leads(u, t) PROVE Passing(u, t)' \subseteq Passing(u, t)
  <2>1. ASSUME ComesFirst(f, u, t) PROVE ComesFirst(f, u, t)'
    <3>1. ASSUME NEW i \in 1 .. Len(order), order[i] = t
          PROVE  u \in checked'[f] /\ \A j \in 1 .. Len(order) : order[j] = u => j < i
      <4>1. t \in S /\ t \notin checked[f]
        BY <1>1, <3>1
      <4>2. CASE u \in checked[f]
        <5>1. \A j \in 1 .. Len(order) : order[j] # u
          BY <1>1, <4>2
        <5> QED
          BY <1>5, <4>2, <5>1
      <4>3. CASE u \notin checked[f]
        <5>1. PICK r \in Rows(u) : r \in early[f] /\ row[r] = "due" /\ ~InFlight(r)
          BY <2>1, <4>1, <4>3 DEF ComesFirst, Waits
        <5>2. r \in Due(f)
          BY <5>1 DEF Due, InFlight
        <5>3. u \in S
          BY <1>1, <1>6, <1>7, <4>1, <4>3, <5>1, <5>2
        <5>4. ASSUME NEW j \in 1 .. Len(order), order[j] = u PROVE j < i
          <6>1. ~Leads(t, u) /\ u # t
            BY <1>6, <1>7, LeadsIsOrder DEF Books
          <6>2. ~(i < j) /\ i # j
            BY <1>1, <3>1, <5>4, <6>1
          <6> QED
            BY <1>6, <6>2
        <5> QED
          BY <1>5, <5>3, <5>4
      <4> QED
        BY <4>2, <4>3
    <3>2. t \in checked'[f] \/ u \in checked'[f] \/ Waits(f, u)'
      <4>1. Waits(f, u) => Waits(f, u)'
        BY <1>1 DEF Waits, InFlight, Rows
      <4> QED
        BY <1>5, <2>1, <4>1 DEF ComesFirst
    <3> QED
      BY <1>5, <3>1, <3>2 DEF ComesFirst
  <2>2. ASSUME NEW g \in active, g # f, ComesFirst(g, u, t) PROVE ComesFirst(g, u, t)'
    <3>1. g \in Flusher
      BY DEF OutboxInv, RowTypes
    <3>2. page'[g] = page[g] /\ checked'[g] = checked[g] /\ early' = early
      BY <1>1, <1>5, <2>2, <3>1
    <3> QED
      BY <1>2, <2>2, <3>1, <3>2, FirstKept
  <2> QED
    BY <1>1, <2>1, <2>2 DEF Passing
<1>8. bypassed'[u][t] = bypassed[u][t] /\ mark' = mark /\ stamp' = stamp /\ rollbacks' = rollbacks
  BY <1>1
<1> QED
  BY <1>2, <1>3, <1>7, <1>8, StillCharged

\* Who finds u locked has come to it; the account of u is closed by its holder.
LEMMA SkipCharged ==
  ASSUME Books, Books', OutboxInv, OutboxInv', NEW f \in Flusher, SkipLocked(f),
         NEW u \in Watched, NEW t \in Tenant, Charged(u, t)
  PROVE  Charged(u, t)'
<1>1. GoesOn(f)
  BY SkipBooks
<1>2. UNCHANGED <<row, stamp, active, early, checked, lock, mark, done, refused, bypassed, rollbacks>>
  BY DEF SkipLocked, rowVars
<1>3. RowsKept(u)
  BY <1>2 DEF RowsKept, InFlight
<1>4. Leads(u, t)' <=> Leads(u, t)
  BY <1>2 DEF Leads
<1>5. ASSUME NEW g \in active, ComesFirst(g, u, t) PROVE ComesFirst(g, u, t)'
  <2>1. g \in Flusher
    BY DEF OutboxInv, RowTypes
  <2>2. page'[g] = page[g] \/ GoesOn(g)
    BY <1>1, <2>1 DEF GoesOn
  <2> QED
    BY <1>2, <1>3, <1>5, <2>1, <2>2, FirstKept
<1>6. Passing(u, t)' \subseteq Passing(u, t)
  BY <1>2, <1>5 DEF Passing
<1>7. bypassed'[u][t] = bypassed[u][t] /\ mark' = mark /\ stamp' = stamp /\ rollbacks' = rollbacks
  BY <1>2
<1> QED
  BY <1>3, <1>4, <1>6, <1>7, StillCharged

\* A row that is enqueued, published or repaired starts or ends a wait, and adds nothing.
LEMMA OtherCharged ==
  ASSUME Books, Books', OutboxInv, OutboxInv', NEW r \in Row, Enqueue(r) \/ BackoffEnds(r) \/ Repair(r) \/ Consume(r),
         NEW u \in Watched, NEW t \in Tenant, Charged(u, t)
  PROVE  Charged(u, t)'
<1>1. UNCHANGED <<stamp, active, page, checked, lock, mark, done, refused, rollbacks>>
  BY DEF Enqueue, BackoffEnds, Repair, Consume, roundVars
<1>2. row[r] # "due"
  BY DEF Enqueue, BackoffEnds, Repair, Consume
<1>3. /\ \A q \in Row : q # r => row'[q] = row[q]
      /\ \A g \in Flusher, q \in Row : q # r /\ q \in early[g] => q \in early'[g]
      /\ bypassed'[u][t] = bypassed[u][t] \/ bypassed'[u][t] = 0
  <2>1. CASE Consume(r)
    BY <2>1 DEF Consume, roundVars
  <2>2. CASE BecomeDue(r)
    <3>1. row' = [row EXCEPT ![r] = "due"] /\ early' = [f \in Flusher |-> early[f] \ {r}]
      BY <2>2 DEF BecomeDue
    <3>2. bypassed'[u] = bypassed[u] \/ bypassed'[u] = [v \in Tenant |-> 0]
      BY <2>2 DEF BecomeDue, Awaits
    <3> QED
      BY <3>1, <3>2
  <2> QED
    BY <2>1, <2>2 DEF Enqueue, BackoffEnds, Repair
<1>4. RowsKept(u)
  BY <1>1, <1>2, <1>3 DEF RowsKept, InFlight, Rows
<1>5. Leads(u, t)' <=> Leads(u, t)
  BY <1>1 DEF Leads
<1>6. ASSUME NEW g \in active, ComesFirst(g, u, t) PROVE ComesFirst(g, u, t)'
  <2>1. g \in Flusher
    BY DEF OutboxInv, RowTypes
  <2>2. \A q \in Row : q \in early[g] /\ row[q] = "due" => q \in early'[g]
    BY <1>2, <1>3, <2>1
  <2> QED
    BY <1>1, <1>4, <1>6, <2>1, <2>2, FirstKept
<1>7. Passing(u, t)' \subseteq Passing(u, t)
  BY <1>1, <1>6 DEF Passing
<1>8. mark' = mark /\ stamp' = stamp /\ rollbacks' = rollbacks
  BY <1>1
<1> QED
  BY <1>3, <1>4, <1>5, <1>7, <1>8, StillCharged

\* A service that counts is of a round that leaves the passing ones, or of the first one.
LEMMA ServeCharged ==
  ASSUME Books, Books', OutboxInv, OutboxInv', NEW f \in Flusher, NEW accepted, Serve(f, accepted),
         NEW u \in Watched, NEW t \in Tenant, Charged(u, t)
  PROVE  Charged(u, t)'
<1>1. PICK x \in Tenant, records \in SUBSET Row :
        /\ f \in active /\ 1 \in 1 .. Len(page[f]) /\ x = page[f][1] /\ lock[x] = Nobody /\ mark[x] = 0
        /\ records \subseteq Rows(x)
        /\ \A g \in Flusher, r \in Row :
             r \in done'[g] \cup refused'[g] => r \in done[g] \cup refused[g] \/ r \in records
        /\ records = {} => mark' = mark
        /\ records # {} => mark' = [mark EXCEPT ![x] = Later(stamp, mark)]
        /\ GoesOn(f)
        /\ bypassed' = [v \in Watched |->
             IF records = {} THEN bypassed[v]
             ELSE IF v = x THEN [w \in Tenant |-> 0]
             ELSE IF Hungry(v) /\ lock[v] = Nobody /\ StillToCome(f, v)
             THEN [bypassed[v] EXCEPT ![x] = bypassed[v][x] + 1] ELSE bypassed[v]]
        /\ UNCHANGED <<row, stamp, active, early, checked, rollbacks>>
  BY ZenonT(90), ServeIs
<1>2. /\ mark \in [Tenant -> Nat] /\ stamp \in [Tenant -> Nat] /\ u \in Tenant
      /\ bypassed[u] \in [Tenant -> Nat] /\ rollbacks \in Nat
  BY OutboxOK DEF Books, CountTypes
<1>3. Leads(u, t)' <=> Leads(u, t)
  BY <1>1 DEF Leads
<1>4. CASE records # {} /\ u = x
  <2>1. bypassed'[u][t] = 0
    BY <1>1, <1>4
  <2> QED
    BY <2>1 DEF Charged
<1>5. CASE records = {} \/ u # x
  <2>1. RowsKept(u)
    <3> SUFFICES ASSUME NEW r \in Rows(u), row[r] = "due", ~InFlight(r)
        PROVE row'[r] = "due" /\ ~InFlight(r)'
      BY DEF RowsKept
    <3>1. r \in Row /\ r \notin records
      BY <1>1, <1>5 DEF Rows
    <3> QED
      BY <1>1, <3>1 DEF InFlight
  <2>2. ASSUME NEW g \in active, ComesFirst(g, u, t) PROVE ComesFirst(g, u, t)'
    <3>1. g \in Flusher
      BY DEF OutboxInv, RowTypes
    <3>2. page'[g] = page[g] \/ GoesOn(g)
      BY <1>1, <3>1 DEF GoesOn
    <3> QED
      BY <1>1, <2>1, <2>2, <3>1, <3>2, FirstKept
  <2>3. Passing(u, t)' \subseteq Passing(u, t)
    BY <1>1, <2>2 DEF Passing
  <2>4. mark'[u] = mark[u]
    BY SMTT(90), <1>1, <1>2, <1>5
  <2>5. CASE records = {} \/ t # x \/ ~(Hungry(u) /\ lock[u] = Nobody /\ StillToCome(f, u))
    <3>1. bypassed'[u][t] = bypassed[u][t]
      BY <1>1, <1>2, <1>5, <2>5
    <3>2. mark[t] > stamp[u] => mark'[t] > stamp'[u]
      <4>1. CASE records = {} \/ t # x
        BY <1>1, <1>2, <4>1
      <4>2. CASE t = x
        BY <1>1, <1>2, <4>2
      <4> QED
        BY <4>1, <4>2
    <3> QED
      BY <1>1, <1>3, <2>1, <2>3, <2>4, <3>1, <3>2, StillCharged
  <2>6. CASE records # {} /\ t = x /\ Hungry(u) /\ lock[u] = Nobody /\ StillToCome(f, u)
    <3>1. u # t /\ bypassed'[u][t] = bypassed[u][t] + 1
      BY SMTT(90), <1>1, <1>2, <1>5, <2>6
    <3>2. Hungry(u)' /\ mark'[u] = 0
      <4>1. mark[u] = 0
        BY <1>2, <2>6 DEF Books, MarkFits
      <4> QED
        BY <2>1, <2>4, <2>6, <4>1, HungerKept
    <3>3. mark[t] = 0 /\ mark'[t] > stamp'[u]
      BY SMTT(90), <1>1, <1>2, <2>6, LaterIsLater
    <3>4. f \in Passing(u, t)
      <4>1. ~ComesFirst(f, u, t)
        <5> SUFFICES ASSUME ComesFirst(f, u, t) PROVE FALSE
          OBVIOUS
        <5>1. u \in checked[f] /\ \A j \in 1 .. Len(page[f]) : page[f][j] = u => j < 1
          BY <1>1, <2>6 DEF ComesFirst
        <5>2. PICK j \in 1 .. Len(page[f]) : page[f][j] = u
          BY <2>6, <5>1 DEF StillToCome
        <5>3. j \in Nat /\ j >= 1
          OBVIOUS
        <5> QED
          BY <5>1, <5>2, <5>3
      <4> QED
        BY <1>1, <4>1 DEF Passing
    <3>5. f \notin Passing(u, t)'
      <4>1. \A i \in 1 .. Len(page'[f]) : page'[f][i] # t
        <5> SUFFICES ASSUME NEW i \in 1 .. Len(page'[f]), page'[f][i] = t PROVE FALSE
          OBVIOUS
        <5>1. i \in Nat /\ i >= 1 /\ i + 1 \in 1 .. Len(page[f]) /\ page[f][i + 1] = page[f][1]
          BY <1>1, <2>6 DEF GoesOn
        <5>2. i + 1 = 1
          BY <1>1, <5>1 DEF Books, PageFits
        <5> QED
          BY <5>1, <5>2
      <4>2. t \in checked'[f]
        BY <1>1, <2>6 DEF Books, PageFits
      <4> QED
        BY <4>1, <4>2 DEF Passing, ComesFirst
    <3>6. PICK b \in Nat, k \in Nat, p \in Nat, q \in Nat, c \in Nat :
            /\ b = bypassed[u][t] /\ k = Cardinality(Flusher) /\ c = rollbacks
            /\ p = Cardinality(Passing(u, t)) /\ q = Cardinality(Passing(u, t)')
            /\ q + 1 <= p /\ p <= k
      <4>1. Passing(u, t)' \subseteq Passing(u, t) \ {f} /\ IsFiniteSet(Passing(u, t))
        BY <2>3, <3>5, PassingIs
      <4>2. /\ IsFiniteSet(Passing(u, t) \ {f})
            /\ Cardinality(Passing(u, t) \ {f}) = Cardinality(Passing(u, t)) - 1
        BY <3>4, <4>1, FS_RemoveElement
      <4>3. /\ Cardinality(Passing(u, t)') \in Nat
            /\ Cardinality(Passing(u, t)') <= Cardinality(Passing(u, t) \ {f})
        BY <4>1, <4>2, FS_Subset, FS_CardinalityType
      <4>4. /\ Cardinality(Passing(u, t)) \in Nat /\ Cardinality(Flusher) \in Nat
            /\ Cardinality(Passing(u, t)) <= Cardinality(Flusher)
        BY PassingIs
      <4>5. bypassed[u][t] \in Nat
        BY <1>2
      <4> QED
        BY <1>2, <4>2, <4>3, <4>4, <4>5
    <3>7. CASE Leads(u, t)
      <4>1. b + p <= k + c
        BY <3>6, <3>7 DEF Charged
      <4>2. b + 1 + q <= k + c
        BY <3>6, <4>1
      <4>3. bypassed'[u][t] + Cardinality(Passing(u, t)') <= Cardinality(Flusher) + rollbacks'
        BY <1>1, <3>1, <3>6, <4>2
      <4> QED
        BY <1>3, <3>1, <3>2, <3>7, <4>3 DEF Charged
    <3>8. CASE ~Leads(u, t)
      <4>1. b <= c
        <5>1. ~(mark[t] > stamp[u])
          BY <1>2, <3>3
        <5> QED
          BY <3>6, <3>8, <5>1 DEF Charged
      <4>2. bypassed'[u][t] <= rollbacks' + IF mark'[t] > stamp'[u] THEN 1 ELSE 0
        BY SMTT(90), <1>1, <3>1, <3>3, <3>6, <4>1
      <4> QED
        BY <1>3, <3>1, <3>2, <3>8, <4>2 DEF Charged
    <3> QED
      BY <3>7, <3>8
  <2> QED
    BY <2>5, <2>6
<1> QED
  BY <1>4, <1>5

\* The end of a round takes it from the passing ones and leaves the others as they were.
LEMMA EndPasses ==
  ASSUME Books, OutboxInv, OutboxInv', NEW f \in Flusher, EndRound(f), NEW u \in Watched, NEW t \in Tenant, RowsKept(u)
  PROVE  Passing(u, t)' \subseteq Passing(u, t) \ {f}
<1>1. /\ active' = active \ {f} /\ early' = [early EXCEPT ![f] = {}]
      /\ page' = [page EXCEPT ![f] = <<>>] /\ checked' = [checked EXCEPT ![f] = {}]
  BY DEF EndRound
<1>2. ASSUME NEW g \in active', ComesFirst(g, u, t) PROVE ComesFirst(g, u, t)'
  <2>1. g \in Flusher /\ g # f
    BY <1>1 DEF OutboxInv, RowTypes
  <2>2. early'[g] = early[g] /\ page'[g] = page[g] /\ checked'[g] = checked[g]
    BY <1>1, <2>1 DEF Books, CountTypes
  <2> QED
    BY <1>2, <2>1, <2>2, FirstKept
<1> QED
  BY <1>1, <1>2 DEF Passing

\* A commit of t puts u before t: from there only the rounds under way may pass.
LEMMA CommitCharged ==
  ASSUME Books, Books', OutboxInv, OutboxInv', NEW f \in Flusher, Commit(f),
         NEW u \in Watched, NEW t \in Tenant, Charged(u, t)
  PROVE  Charged(u, t)'
<1>1. PICK new \in [Tenant -> Nat] :
        /\ \A v \in Tenant : lock[v] = f => new[v] = IF mark[v] # 0 THEN mark[v] ELSE stamp[v]
        /\ Stored(f, new) /\ EndRound(f) /\ Published(f) /\ f \in active
        /\ UNCHANGED <<bypassed, rollbacks>>
  BY CommitIs
<1>2. PICK old \in [Tenant -> Nat], rest \in [Tenant -> Nat] :
        /\ \A x \in Tenant : /\ lock[x] = f => old[x] = new[x] /\ rest[x] = 0
                             /\ lock[x] # f => old[x] = stamp[x] /\ rest[x] = mark[x]
        /\ \A x, y \in Tenant :
             /\ stamp'[x] < stamp'[y] <=> old[x] < old[y]
             /\ stamp'[x] = stamp'[y] <=> old[x] = old[y]
             /\ mark'[x] > stamp'[y] <=> rest[x] > old[y]
        /\ \A x \in Tenant : mark'[x] = 0 <=> rest[x] = 0
  BY <1>1, StoredKeeps DEF Books
<1>3. /\ mark \in [Tenant -> Nat] /\ stamp \in [Tenant -> Nat] /\ u \in Tenant
      /\ bypassed[u] \in [Tenant -> Nat] /\ rollbacks \in Nat /\ Before \in [Tenant -> Nat]
  BY OutboxOK DEF Books, CountTypes
<1>4. RowsKept(u)
  <2>1. /\ done' = [done EXCEPT ![f] = {}] /\ refused' = [refused EXCEPT ![f] = {}]
        /\ row' = [r \in Row |-> IF r \in done[f] THEN "published"
                                 ELSE IF r \in refused[f] THEN "later" ELSE row[r]]
    BY <1>1 DEF EndRound, Published
  <2> SUFFICES ASSUME NEW r \in Rows(u), row[r] = "due", ~InFlight(r)
      PROVE row'[r] = "due" /\ ~InFlight(r)'
    BY DEF RowsKept
  <2>2. r \in Row /\ \A g \in Flusher : r \notin done[g] /\ r \notin refused[g]
    BY DEF Rows, InFlight
  <2>3. \A g \in Flusher : done'[g] \subseteq done[g] /\ refused'[g] \subseteq refused[g]
    BY <2>1 DEF OutboxInv, RowTypes
  <2> QED
    BY <2>1, <2>2, <2>3 DEF InFlight
<1>5. Passing(u, t)' \subseteq Passing(u, t) \ {f}
  BY <1>1, <1>4, EndPasses
<1>6. CASE bypassed[u][t] = 0
  BY <1>1, <1>6 DEF Charged
<1>7. CASE bypassed[u][t] # 0
  <2>1. /\ u # t /\ Hungry(u) /\ mark[u] = 0
        /\ Leads(u, t) => bypassed[u][t] + Cardinality(Passing(u, t)) <= Cardinality(Flusher) + rollbacks
        /\ ~Leads(u, t) => bypassed[u][t] <= rollbacks + IF mark[t] > stamp[u] THEN 1 ELSE 0
    BY <1>7 DEF Charged
  <2>2. Hungry(u)'
    BY <1>4, <2>1, HungerKept
  <2>3. old[u] = stamp[u] /\ rest[u] = 0 /\ mark'[u] = 0
    BY <1>1, <1>2, <1>3, <2>1
  <2>4. PICK b \in Nat, k \in Nat, p \in Nat, q \in Nat, c \in Nat :
          /\ b = bypassed[u][t] /\ k = Cardinality(Flusher) /\ c = rollbacks
          /\ p = Cardinality(Passing(u, t)) /\ q = Cardinality(Passing(u, t)')
          /\ q <= p /\ q + 1 <= k
    <3>1. Passing(u, t) \subseteq Flusher /\ IsFiniteSet(Passing(u, t)) /\ Cardinality(Passing(u, t)) \in Nat
      BY PassingIs
    <3>2. Passing(u, t)' \subseteq Passing(u, t) /\ Passing(u, t)' \subseteq Flusher \ {f}
      BY <1>5, <3>1
    <3>3. /\ Cardinality(Passing(u, t)') \in Nat
          /\ Cardinality(Passing(u, t)') <= Cardinality(Passing(u, t))
      BY <3>1, <3>2, FS_Subset, FS_CardinalityType
    <3>4. /\ IsFiniteSet(Flusher \ {f}) /\ Cardinality(Flusher) \in Nat
          /\ Cardinality(Flusher \ {f}) = Cardinality(Flusher) - 1
      BY OutboxOK, FS_RemoveElement, FS_CardinalityType
    <3>5. Cardinality(Passing(u, t)') <= Cardinality(Flusher \ {f})
      BY <3>2, <3>4, FS_Subset
    <3>6. bypassed[u][t] \in Nat /\ rollbacks \in Nat
      BY <1>3
    <3> QED
      BY <3>1, <3>3, <3>4, <3>5, <3>6
  <2>5. bypassed'[u][t] = b /\ rollbacks' = c
    BY <1>1, <2>4
  <2>6. Leads(u, t)' <=> old[u] < old[t] \/ (old[u] = old[t] /\ Before[u] < Before[t])
    BY <1>2, <1>3 DEF Leads
  <2>7. CASE Leads(u, t)
    <3>1. old[t] >= stamp[t]
      <4>1. mark[t] # 0 => mark[t] > stamp[t]
        BY DEF Books, MarkFits
      <4> QED
        BY <1>1, <1>2, <1>3, <4>1
    <3>2. Leads(u, t)'
      BY <1>2, <1>3, <2>3, <2>6, <2>7, <3>1 DEF Leads
    <3>3. b + p <= k + c
      BY <2>1, <2>4, <2>7
    <3>4. b + q <= k + c
      BY <2>4, <3>3
    <3>5. bypassed'[u][t] + Cardinality(Passing(u, t)') <= Cardinality(Flusher) + rollbacks'
      BY <2>4, <2>5, <3>4
    <3> QED
      BY <2>1, <2>2, <2>3, <3>2, <3>5 DEF Charged
  <2>8. CASE ~Leads(u, t) /\ Leads(u, t)'
    <3>1. b <= c + 1
      BY <2>1, <2>4, <2>8
    <3>2. b + q <= k + c
      BY <2>4, <3>1
    <3>3. bypassed'[u][t] + Cardinality(Passing(u, t)') <= Cardinality(Flusher) + rollbacks'
      BY <2>4, <2>5, <3>2
    <3> QED
      BY <2>1, <2>2, <2>3, <2>8, <3>3 DEF Charged
  <2>9. CASE ~Leads(u, t) /\ ~Leads(u, t)'
    <3>1. mark[t] > stamp[u] => mark'[t] > stamp'[u]
      <4> SUFFICES ASSUME mark[t] > stamp[u] PROVE mark'[t] > stamp'[u]
        OBVIOUS
      <4>1. mark[t] # 0
        BY <1>3
      <4>2. CASE lock[t] = f
        <5>1. old[t] = mark[t]
          BY <1>1, <1>2, <4>1, <4>2
        <5> QED
          BY <1>3, <2>3, <2>6, <2>9, <5>1
      <4>3. CASE lock[t] # f
        <5>1. rest[t] = mark[t]
          BY <1>2, <4>3
        <5>2. rest[t] > old[u]
          BY <2>3, <5>1
        <5> QED
          BY <1>2, <1>3, <5>2
      <4> QED
        BY <4>2, <4>3
    <3>2. b <= c + IF mark[t] > stamp[u] THEN 1 ELSE 0
      BY <2>1, <2>4, <2>9
    <3>3. b <= c + IF mark'[t] > stamp'[u] THEN 1 ELSE 0
      BY <2>4, <3>1, <3>2
    <3>4. bypassed'[u][t] <= rollbacks' + IF mark'[t] > stamp'[u] THEN 1 ELSE 0
      BY <2>5, <3>3
    <3> QED
      BY <2>1, <2>2, <2>3, <2>9, <3>4 DEF Charged
  <2> QED
    BY <2>7, <2>8, <2>9
<1> QED
  BY <1>6, <1>7

\* A rollback forgets that t was served, and is counted.
LEMMA CrashCharged ==
  ASSUME Books, Books', OutboxInv, OutboxInv', NEW f \in Flusher, Crash(f),
         NEW u \in Watched, NEW t \in Tenant, Charged(u, t)
  PROVE  Charged(u, t)'
<1>1. Stored(f, stamp) /\ EndRound(f) /\ f \in active /\ UNCHANGED <<row, bypassed>> /\ rollbacks' = rollbacks + 1
  BY DEF Crash
<1>2. mark \in [Tenant -> Nat] /\ stamp \in [Tenant -> Nat] /\ u \in Tenant
  BY OutboxOK DEF Books, CountTypes
<1>3. PICK old \in [Tenant -> Nat], rest \in [Tenant -> Nat] :
        /\ \A x \in Tenant : /\ lock[x] = f => old[x] = stamp[x] /\ rest[x] = 0
                             /\ lock[x] # f => old[x] = stamp[x] /\ rest[x] = mark[x]
        /\ \A x, y \in Tenant :
             /\ stamp'[x] < stamp'[y] <=> old[x] < old[y]
             /\ stamp'[x] = stamp'[y] <=> old[x] = old[y]
             /\ mark'[x] > stamp'[y] <=> rest[x] > old[y]
        /\ \A x \in Tenant : mark'[x] = 0 <=> rest[x] = 0
  BY SMTT(90), <1>1, <1>2, StoredKeeps DEF Books
<1>4. RowsKept(u)
  <2>1. done' = [done EXCEPT ![f] = {}] /\ refused' = [refused EXCEPT ![f] = {}]
    BY <1>1 DEF EndRound
  <2>2. \A g \in Flusher : done'[g] \subseteq done[g] /\ refused'[g] \subseteq refused[g]
    BY <2>1 DEF OutboxInv, RowTypes
  <2> QED
    BY <1>1, <2>2 DEF RowsKept, InFlight
<1>5. Passing(u, t)' \subseteq Passing(u, t)
  BY <1>1, <1>4, EndPasses
<1>6. \A x \in Tenant : old[x] = stamp[x]
  BY <1>3
<1>7. Leads(u, t)' <=> Leads(u, t)
  BY <1>2, <1>3, <1>6 DEF Leads
<1>8. mark[u] = 0 => mark'[u] = 0
  BY <1>2, <1>3
<1>9. bypassed'[u][t] = bypassed[u][t]
  BY <1>1
<1> QED
  BY <1>1, <1>4, <1>5, <1>7, <1>8, <1>9, StillCharged

\* Nothing is charged at first.
LEMMA BypassInit == OutboxInit => BypassInv
<1> SUFFICES ASSUME OutboxInit PROVE BypassInv
  OBVIOUS
<1>1. CountTypes
  <2>1. page \in [Flusher -> Seq(Tenant)]
    BY EmptySeq DEF OutboxInit
  <2> QED
    BY <2>1 DEF OutboxInit, CountTypes
<1>2. ASSUME NEW f \in Flusher PROVE PageFits(f)
  <2>1. page[f] = <<>> /\ checked[f] = {}
    BY DEF OutboxInit
  <2>2. Len(page[f]) = 0
    BY <2>1, EmptySeq
  <2> QED
    BY <2>1, <2>2 DEF PageFits
<1>3. \A t \in Tenant : MarkFits(t)
  BY DEF OutboxInit, MarkFits
<1>4. \A u \in Watched, t \in Tenant : Charged(u, t)
  BY DEF OutboxInit, Charged
<1> QED
  BY <1>1, <1>2, <1>3, <1>4, InitLemma DEF BypassInv, Books

\* No tenant is passed over: for any number of tenants, rows and rounds, while a tenant
\* has a row that no round has handled and its cursor is free, rounds that have not come
\* to it serve another tenant at most once each and once more per round rolled back.
THEOREM TenantsAreNotPassedOver == OutboxSpec => []BoundedBypass
<1>1. BypassInv /\ [OutboxNext]_outboxVars => BypassInv'
  <2> SUFFICES ASSUME BypassInv, [OutboxNext]_outboxVars PROVE BypassInv'
    OBVIOUS
  <2>1. OutboxInv /\ Books /\ \A u \in Watched, t \in Tenant : Charged(u, t)
    BY DEF BypassInv
  <2>2. OutboxInv'
    BY <2>1, InvariantKept
  <2>3. Books'
    BY <2>1, BooksKept
  <2>4. ASSUME NEW u \in Watched, NEW t \in Tenant PROVE Charged(u, t)'
    <3>1. Charged(u, t)
      BY <2>1
    <3>2. CASE UNCHANGED outboxVars
      BY <3>1, <3>2 DEF outboxVars, rowVars, roundVars, Charged, Hungry, InFlight, Rows, Leads,
         Passing, ComesFirst, Waits
    <3> QED
      BY <2>1, <2>2, <2>3, <3>1, <3>2, BeginCharged, CandidateCharged, SkipCharged,
         ServeCharged,
         CommitCharged, CrashCharged, OtherCharged
      DEF OutboxNext, Round
  <2> QED
    BY <2>2, <2>3, <2>4 DEF BypassInv
<1>2. BypassInv => BoundedBypass
  <2> SUFFICES ASSUME BypassInv, NEW u \in Watched, NEW t \in Tenant
      PROVE bypassed[u][t] <= Cardinality(Flusher) + rollbacks
    BY DEF BoundedBypass
  <2>1. Books /\ OutboxInv /\ Charged(u, t)
    BY DEF BypassInv
  <2>2. /\ bypassed[u][t] \in Nat /\ rollbacks \in Nat /\ mark[t] \in Nat /\ stamp[u] \in Nat
    BY <2>1, OutboxOK DEF Books, CountTypes
  <2>3. Cardinality(Passing(u, t)) \in Nat /\ Cardinality(Flusher) \in Nat
    BY <2>1, PassingIs
  <2>4. mark[t] > stamp[u] => Cardinality(Flusher) >= 1
    <3> SUFFICES ASSUME mark[t] > stamp[u] PROVE Cardinality(Flusher) # 0
      BY <2>3
    <3>1. lock[t] \in Flusher
      BY <2>1, <2>2 DEF Books, MarkFits, OutboxInv, RowTypes
    <3> QED
      BY <3>1, OutboxOK, FS_EmptySet
  <2> QED
    BY <2>1, <2>2, <2>3, <2>4 DEF Charged
<1> QED
  BY <1>1, <1>2, BypassInit, PTL DEF OutboxSpec
=============================================================================
